----------------------------- MODULE MCRuntime -----------------------------
(* ExecutionNodes, Fleet and RuntimeConvergence for TLC, side by side: a run
   picks one of them in its initial state and only that one takes steps. *)
EXTENDS ExecutionNodes, Fleet, RuntimeConvergence, TLC

CONSTANTS Parts, n1, n2, n3, n4, w1, k1, k2, c1, p1

VARIABLE part

Init ==
    /\ part \in Parts
    /\ NodesInit /\ (part = "nodes" \/ \A n \in Nodes : ssm[n])
    /\ FleetInit
    /\ ConvInit /\ (part = "convergence" \/ remote = (TRUE \in RemoteKinds))

\* Both properties of the node rows leave a node to the operator once it is neither
\* gated nor free of an operator's stub or deregistration, and it stays so: nothing is
\* looked for behind such a state.
Watched == \E n \in Nodes : past[n].gated \/ ~past[n].dereg

Next ==
    \/ part = "nodes" /\ Watched /\ NodesNext /\ UNCHANGED <<part, fleetVars, convVars>>
    \/ part = "fleet" /\ FleetNext /\ UNCHANGED <<part, nodeVars, convVars>>
    \/ part = "convergence" /\ ConvNext /\ UNCHANGED <<part, nodeVars, fleetVars>>

Spec == Init /\ [][Next]_<<part, nodeVars, fleetVars, convVars>>

\* Database sessions and workers are told apart by no action.
Symmetric == Permutations(Sessions)

=============================================================================
