----------------------------- MODULE MCTopology -----------------------------
(* Instances of Topology for TLC. *)
EXTENDS Topology, TLC

CONSTANTS w1, w2, j1

OneWorkspace == {w1}
TwoWorkspaces == {w1, w2}
OneJanitor == {j1}
NoJanitor == {}

AllKinds == {"UP", "STOP", "RESTART", "DELETE"}
NoDelete == {"UP", "STOP", "RESTART"}

Symmetric == Permutations({w1, w2})
=============================================================================
