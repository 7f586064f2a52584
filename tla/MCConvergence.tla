--------------------------- MODULE MCConvergence ---------------------------
(* RuntimeConvergence and EventStream for TLC, side by side and with their
   fairness: a run picks one of them in its initial state and only that one takes
   steps.  Fairness is asked of the actions of that one alone: none of ConvFairness
   is enabled in the initial state of the other.  RuntimeConvergence
   comes twice: users who only START a workspace, so that failed STARTs leave cleanup
   tasks, and users who only update and open it, so that access repairs race the
   job's.  No action that fairness is asked of is concerned. *)
EXTENDS RuntimeConvergence, EventStream

CONSTANTS Parts, p1, p2, w1, w2

VARIABLE part

Init == part \in Parts /\ ConvInit /\ EventInit

Next ==
    \/ /\ part = "starting" /\ ConvNext /\ opening' = NoPort /\ intent'.kind # "UPDATE"
       /\ UNCHANGED <<part, eventVars>>
    \/ /\ part = "opening" /\ ConvNext /\ (intent'.kind = "START" => intent.kind = "START")
       /\ UNCHANGED <<part, eventVars>>
    \/ part = "events" /\ EventNext /\ UNCHANGED <<part, convVars>>

Spec ==
    /\ Init /\ [][Next]_<<part, convVars, eventVars>>
    /\ ConvFairness
    /\ WF_eventVars(part = "events" /\ StreamServes)
=============================================================================
