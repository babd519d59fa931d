--------------------------- MODULE DesiredRegister ---------------------------
(***************************************************************************)
(* What the plugins table promises of one plugin, whatever the nodes do:   *)
(* an update replaces the whole desired state, takes the next generation   *)
(* and keeps what it replaced; the table says "enabled" of an artifact     *)
(* only as a claim about the generation that was current when the claim    *)
(* was made.  DesiredState implements it.                                  *)
(***************************************************************************)
EXTENDS Naturals, Sequences

CONSTANTS Artifacts, Configs, NoArtifact

VARIABLES
    desired,    \* what the current generation asks for
    log,        \* what the earlier generations asked for
    claim       \* the generation said to be enabled and its artifact

registerVars == <<desired, log, claim>>

Wishes == [art : Artifacts, state : {"enabled", "disabled", "deleted"}, cfg : Configs]
NoClaim == [gen |-> 0, art |-> NoArtifact]

\* What generation g asked for.
Asked(g) == IF g \in DOMAIN log THEN log[g] ELSE desired

RegisterInit ==
    /\ desired \in Wishes /\ log = <<>> /\ claim = NoClaim

Update ==
    /\ desired' \in Wishes
    /\ log' = Append(log, desired)
    /\ UNCHANGED claim

Claim ==
    /\ claim' = [gen |-> Len(log) + 1, art |-> desired.art]
    /\ UNCHANGED <<desired, log>>

Withdraw ==
    /\ claim' = NoClaim
    /\ UNCHANGED <<desired, log>>

RegisterNext == Update \/ Claim \/ Withdraw

RegisterSpec == RegisterInit /\ [][RegisterNext]_registerVars

=============================================================================
