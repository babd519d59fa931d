---------------------------- MODULE SandboxSecrets ----------------------------
(* One secret of a sandboxed plugin: administrators rotate it, the plugin    *)
(* asks for it over its control socket (Manager.ResolveSandboxSecret,        *)
(* UpsertSecret).  The plugin's row, the secret's row and the clock are read *)
(* one after the other, and a rotation or an upgrade may come in between.    *)
EXTENDS Naturals

CONSTANTS
    BoxArts,      \* artifacts of the plugin
    Resolves,     \* concurrent requests of the plugin
    SecretTTL,    \* sandboxSecretDefaultTTL
    Grace,        \* the manifest's grace period
    MaxVersion,   \* versions ever stored
    MaxSecretTime \* the end of the clock

ASSUME SecretAssumption ==
    SecretTTL \in Nat \ {0} /\ Grace \in Nat /\ MaxVersion \in Nat /\ MaxSecretTime \in Nat

VARIABLES
    boxRow,    \* the plugin's row: artifact, generations, whether the handle is in the config
    secret,    \* plugin_secrets: current version, previous version, updated_at
    resolve,   \* the requests of the plugin
    grants,    \* answers that carry a value: version, expiry, and how long the answer took
    secretNow, \* the clock
    replacedAt \* when each version was superseded

secretVars == <<boxRow, secret, resolve, grants, secretNow, replacedAt>>

Versions == 0..MaxVersion
Quiet == [at |-> "idle"]

SecretInit ==
    /\ boxRow \in [art : BoxArts, gen : {1}, applied : {1}, scoped : BOOLEAN]
    /\ secret = [current |-> 0, previous |-> 0, updated |-> 0]
    /\ resolve = [q \in Resolves |-> Quiet]
    /\ grants = {} /\ secretNow = 0
    /\ replacedAt = [v \in Versions |-> MaxSecretTime + 1]

-----------------------------------------------------------------------------
(* UpsertSecret: one transaction makes the current version the previous one. *)
(* The reload that a hot secret then asks for changes nothing of the above.  *)
Rotate ==
    /\ secret.current < MaxVersion
    /\ secret' = [current |-> secret.current + 1, previous |-> secret.current, updated |-> secretNow]
    /\ replacedAt' = [replacedAt EXCEPT ![secret.current] = secretNow]
    /\ UNCHANGED <<boxRow, resolve, grants, secretNow>>

-----------------------------------------------------------------------------
(* ResolveSandboxSecret.                                                     *)

(* The artifact must be the one that runs, the generation the desired or the *)
(* applied one, the handle declared and in the configuration's scope.        *)
Entitled(art, gen) ==
    /\ art = boxRow.art /\ gen \in {boxRow.gen, boxRow.applied} /\ boxRow.scoped

AskSecret(q, art, gen, version) ==
    /\ resolve[q] = Quiet
    /\ Entitled(art, gen)
    /\ resolve' = [resolve EXCEPT ![q] = [at |-> "material", version |-> version]]
    /\ UNCHANGED <<boxRow, secret, grants, secretNow, replacedAt>>

(* sandboxSecretVersionValue: the current version for a full time to live,   *)
(* the previous one while its grace period lasts, and never past its end.    *)
Least(a, b) == IF a < b THEN a ELSE b
Remaining == (secret.updated + Grace) - secretNow
FullTTL == SecretTTL
PreviousTTL == Least(SecretTTL, Remaining)

IsCurrent(version) == version \in {0, secret.current}
IsPrevious(version) == version = secret.previous /\ version > 0 /\ secret.updated + Grace > secretNow

ReadMaterial(q) ==
    /\ resolve[q].at = "material"
    /\ LET v == resolve[q].version
           Answer(version, ttl) == [at |-> "answer", version |-> version, ttl |-> ttl, since |-> secretNow]
       IN  resolve' = [resolve EXCEPT ![q] =
               CASE IsCurrent(v) /\ secret.current > 0 -> Answer(secret.current, SecretTTL)
                 [] ~IsCurrent(v) /\ IsPrevious(v) -> Answer(v, PreviousTTL)
                 [] OTHER -> Quiet]
    /\ UNCHANGED <<boxRow, secret, grants, secretNow, replacedAt>>

(* The expiry is counted from a second look at the clock.                    *)
Grant(q) ==
    /\ resolve[q].at = "answer"
    /\ grants' = grants \cup {[version |-> resolve[q].version, expires |-> secretNow + resolve[q].ttl,
                               took |-> secretNow - resolve[q].since]}
    /\ resolve' = [resolve EXCEPT ![q] = Quiet]
    /\ UNCHANGED <<boxRow, secret, secretNow, replacedAt>>

-----------------------------------------------------------------------------
(* The row changes under the requests; a grant lapses.                       *)
MoveRow(row) ==
    /\ boxRow' = row
    /\ UNCHANGED <<secret, resolve, grants, secretNow, replacedAt>>

SecretTick ==
    /\ secretNow < MaxSecretTime /\ secretNow' = secretNow + 1
    /\ grants' = {g \in grants : g.expires > secretNow'}
    /\ UNCHANGED <<boxRow, secret, resolve, replacedAt>>

SecretNext ==
    \/ Rotate
    \/ \E q \in Resolves : \/ \E art \in BoxArts, gen \in 1..2, v \in Versions : AskSecret(q, art, gen, v)
                           \/ ReadMaterial(q) \/ Grant(q)
    \/ \E art \in BoxArts, gen \in 1..2, scoped \in BOOLEAN :
         MoveRow([art |-> art, gen |-> gen, applied |-> 1, scoped |-> scoped])
    \/ SecretTick

SecretSpec == SecretInit /\ [][SecretNext]_secretVars

-----------------------------------------------------------------------------
(* A rotated secret goes out of use: whatever a plugin was granted, no grant *)
(* of a superseded version lasts beyond the rotation by more than the longer *)
(* of the time to live and the grace period, but for the time the answer     *)
(* itself took (ResolveSandboxSecret reads the clock twice).                 *)
OldSecretExpires ==
    \A g \in grants :
        replacedAt[g.version] <= secretNow =>
            g.expires <= replacedAt[g.version] + (IF SecretTTL < Grace THEN Grace ELSE SecretTTL) + g.took
=============================================================================
