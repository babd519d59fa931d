---------------------------- MODULE MCReleaseGate ----------------------------
(* One uploaded plugin with no listener of its own, under one advisory.      *)
EXTENDS ReleaseGate, TLC

CONSTANT plug

MCNoPairs == {}
MCSingletons == plug :> {}
MCBuiltBy == plug :> "upload"
MCPortOf == plug :> 0
=============================================================================
