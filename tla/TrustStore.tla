------------------------------ MODULE TrustStore ------------------------------
(* The two places that say which signing keys are trusted: the gateway's     *)
(* table plugin_trust_roots, and the file that `plugin sign` keeps.  A       *)
(* request to the gateway is one statement at a time on the table; a command *)
(* loads the file, changes its copy and writes it back, which truncates the  *)
(* file first.                                                               *)
EXTENDS Naturals, FiniteSets

CONSTANTS
    KeyIds,         \* key ids, one root
    RootRequests,   \* concurrent requests to the gateway
    SignRuns,       \* `plugin sign` processes
    Windows,        \* the days from and until which a rotated key is valid
    MaxTrustDay     \* the last day of the clock

ASSUME TrustAssumption == MaxTrustDay \in Nat /\ Windows \subseteq Nat \X Nat

VARIABLES
    roots,         \* plugin_trust_roots: the status by key id
    rootReq,       \* the key whose rotation has passed its check, by request
    keyFile,       \* the trust-store file
    command,       \* the commands: their copy of the file and what they do
    trustDay,      \* today
    revokedRoots,  \* history: keys whose RevokeTrustRoot has returned
    racedRoots,    \* history: keys last revoked while a rotation had passed its check
    revokedKeys,   \* history: keys whose `plugin sign revoke` has returned
    spoiled        \* history: a command loaded the file while another was at work,
                   \* or died between truncating and writing it

trustVars == <<roots, rootReq, keyFile, command, trustDay, revokedRoots, racedRoots, revokedKeys,
               spoiled>>
rootVars == <<roots, rootReq, revokedRoots, racedRoots>>
fileVars == <<keyFile, command, revokedKeys, spoiled>>

NoKey == [stored |-> FALSE, revoked |-> FALSE, from |-> 0, until |-> 0]
EmptyFile == [k \in KeyIds |-> NoKey]
AtRest == [at |-> "idle"]

TrustInit ==
    /\ roots = [k \in KeyIds |-> "none"] /\ rootReq = [r \in RootRequests |-> {}]
    /\ keyFile = EmptyFile /\ command = [c \in SignRuns |-> AtRest]
    /\ trustDay = 0 /\ revokedRoots = {} /\ racedRoots = {} /\ revokedKeys = {} /\ spoiled = FALSE

-----------------------------------------------------------------------------
(* The gateway's table.                                                      *)

(* RotateTrustRoot: the key must not be revoked; then SaveTrustRoot inserts  *)
(* or updates the row, its status included.                                  *)
AnyRotatable(k) == TRUE
Rotatable(k) == roots[k] # "revoked"

RotateTrustRoot(r, k) ==
    /\ rootReq[r] = {} /\ Rotatable(k)
    /\ rootReq' = [rootReq EXCEPT ![r] = {k}]
    /\ UNCHANGED <<roots, revokedRoots, racedRoots, fileVars, trustDay>>

SaveTrustRoot(r, k) ==
    /\ k \in rootReq[r]
    /\ roots' = [roots EXCEPT ![k] = "trusted"]
    /\ rootReq' = [rootReq EXCEPT ![r] = {}]
    /\ UNCHANGED <<revokedRoots, racedRoots, fileVars, trustDay>>

RevokeTrustRoot(r, k) ==
    /\ rootReq[r] = {} /\ roots[k] # "none"
    /\ roots' = [roots EXCEPT ![k] = "revoked"]
    /\ revokedRoots' = revokedRoots \cup {k}
    /\ racedRoots' = IF \E q \in RootRequests : k \in rootReq[q] THEN racedRoots \cup {k}
                     ELSE racedRoots \ {k}
    /\ UNCHANGED <<rootReq, fileVars, trustDay>>

(* VerifyArtifactSignature reads the row of the key it is given.             *)
Verified(k) == roots[k] = "trusted"

-----------------------------------------------------------------------------
(* The command-line trust store.                                             *)

(* pluginSignTrustStatus                                                     *)
TrustStatus(key) ==
    CASE key.revoked -> "revoked"
      [] ~key.revoked /\ trustDay < key.from -> "not_yet_valid"
      [] ~key.revoked /\ trustDay >= key.from /\ trustDay > key.until -> "expired"
      [] OTHER -> "trusted"

Stored(f) == {k \in KeyIds : f[k].stored}
ActiveKeys(f) == {k \in Stored(f) : TrustStatus(f[k]) = "trusted"}

(* selectPluginSignTrustKey: the key that was named, or the only active one. *)
Selects(f, named) == IF named # {} THEN named \cap Stored(f)
                     ELSE IF Cardinality(ActiveKeys(f)) = 1 THEN ActiveKeys(f) ELSE {}

(* resolvePluginSignVerifyKey: whether verify accepts a good signature of k. *)
(* A key given with --public-key is trusted as it is, no store is asked.     *)
Verifies(k, inline, named) ==
    \/ inline
    \/ k \in Selects(keyFile, named) /\ TrustStatus(keyFile[k]) = "trusted"

(* A command loads the file (an empty one is an empty store), changes its    *)
(* copy and goes on to write it; an unknown or a revoked key ends it.        *)
Changed(c, k, key) ==
    /\ command[c] = AtRest
    /\ command' = [command EXCEPT ![c] = [at |-> "save", key |-> k, copy |-> [keyFile EXCEPT ![k] = key]]]
    /\ spoiled' = (spoiled \/ \E d \in SignRuns : command[d] # AtRest)
    /\ UNCHANGED <<rootVars, keyFile, revokedKeys, trustDay>>

KeyRotation(c, k, window) ==
    /\ ~keyFile[k].revoked
    /\ Changed(c, k, [stored |-> TRUE, revoked |-> FALSE, from |-> window[1], until |-> window[2]])

SignRevoke(c, k) == k \in Stored(keyFile) /\ Changed(c, k, [keyFile[k] EXCEPT !.revoked = TRUE])

(* savePluginSignTrustStore: os.WriteFile truncates, then writes.            *)
Truncate(c) ==
    /\ command[c].at = "save"
    /\ keyFile' = EmptyFile
    /\ command' = [command EXCEPT ![c].at = "write"]
    /\ UNCHANGED <<rootVars, revokedKeys, spoiled, trustDay>>

WriteStore(c) ==
    /\ command[c].at = "write"
    /\ keyFile' = command[c].copy
    /\ revokedKeys' = IF command[c].copy[command[c].key].revoked THEN revokedKeys \cup {command[c].key}
                      ELSE revokedKeys
    /\ command' = [command EXCEPT ![c] = AtRest]
    /\ UNCHANGED <<rootVars, spoiled, trustDay>>

CommandDies(c) ==
    /\ command[c] # AtRest
    /\ spoiled' = (spoiled \/ command[c].at = "write")
    /\ command' = [command EXCEPT ![c] = AtRest]
    /\ UNCHANGED <<rootVars, keyFile, revokedKeys, trustDay>>

TrustDayPasses ==
    /\ trustDay < MaxTrustDay /\ trustDay' = trustDay + 1
    /\ UNCHANGED <<rootVars, fileVars>>

RootNext ==
    \E r \in RootRequests, k \in KeyIds :
        RotateTrustRoot(r, k) \/ SaveTrustRoot(r, k) \/ RevokeTrustRoot(r, k)

FileNext ==
    \/ \E c \in SignRuns :
         \/ \E k \in KeyIds : SignRevoke(c, k) \/ \E window \in Windows : KeyRotation(c, k, window)
         \/ Truncate(c) \/ WriteStore(c) \/ CommandDies(c)
    \/ TrustDayPasses

TrustNext == RootNext \/ FileNext

TrustSpec == TrustInit /\ [][TrustNext]_trustVars

-----------------------------------------------------------------------------
(* Revocation is final.  The gateway verifies no signature with a root that  *)
(* RevokeTrustRoot has revoked, unless a rotation of the same key had read   *)
(* its row before the revocation: its upsert still writes "trusted"          *)
(* (supply_chain_trust.go:33, repository.go:1452).  `plugin sign verify`     *)
(* with the trust store, the key named or not, accepts none of a key that    *)
(* `plugin sign revoke` has revoked, as long as commands came one at a time  *)
(* and none died with the file truncated; with --public-key it asks no store.*)
RevokedIsFinal ==
    /\ \A k \in revokedRoots \ racedRoots : ~Verified(k)
    /\ ~spoiled => \A k \in revokedKeys, named \in {{}} \cup {{j} : j \in KeyIds} :
                      ~Verifies(k, FALSE, named)

(* What the milestone says of the gateway's table                            *)
(* (m09-repository-supply-chain-promotion-dr.md:21): a revoked key is not    *)
(* rotated back under the same root_id and key_id, by whatever requests.     *)
RevokedRootStays == \A k \in revokedRoots : ~Verified(k)
=============================================================================
