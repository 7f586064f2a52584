------------------------------ MODULE MCAccess ------------------------------
(* Admission, WorkspaceSessions and the slots of Fleet for TLC, side by side: a
   run picks one of them in its initial state and only that one takes steps.  They
   share the model values x and y, which keeps the symmetry group small. *)
EXTENDS Admission, WorkspaceSessions, Fleet, TLC

CONSTANTS Parts, x1, x2, x3, y1, y2, n1, c1

VARIABLE part

Init == part \in Parts /\ AdmInit /\ SessInit /\ FleetInit

Next ==
    \/ part = "admission" /\ AdmNext /\ UNCHANGED <<part, sessVars, fleetVars>>
    \/ part = "sessions" /\ SessNext /\ UNCHANGED <<part, admVars, fleetVars>>
    \/ part = "slots" /\ FleetNext /\ UNCHANGED <<part, admVars, sessVars>>

Spec == Init /\ [][Next]_<<part, admVars, sessVars, fleetVars>>

\* No part tells apart the ids that stand for its rows and its requests.
Symmetric == Permutations({x1, x2, x3}) \cup Permutations({y1, y2})

=============================================================================
