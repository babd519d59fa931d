-------------------------- MODULE MCBackgroundTasks --------------------------
(* A task's runtimes on two nodes.                                           *)
EXTENDS BackgroundTasks, TLC

CONSTANTS n1, n2, old, other

MCNodeOf == old :> n1 @@ other :> n2

Periodic(policy) ==
    [policy |-> policy, runOnStart |-> FALSE, periodic |-> TRUE, attempts |-> 1]
OnStart(policy, times) ==
    [policy |-> policy, runOnStart |-> TRUE, periodic |-> FALSE, attempts |-> times]
=============================================================================
