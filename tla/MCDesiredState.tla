---------------------------- MODULE MCDesiredState ----------------------------
EXTENDS DesiredState, TLC

\* nodeRow is written and never read.
LifecycleView ==
    <<row, snapshots, loaded, published, displaced, orphan, mu, booting, revoked, req, begun, faults>>

LifecycleSymmetry == Permutations(Nodes) \cup Permutations(Requests) \cup Permutations(Artifacts)
=============================================================================
