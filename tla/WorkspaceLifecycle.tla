------------------------- MODULE WorkspaceLifecycle -------------------------
(***************************************************************************)
(* What the control plane promises the owner of a workspace, without       *)
(* queue, workers or sessions: a workspace carries out at most one         *)
(* accepted operation at a time, shows a transitional status meanwhile,    *)
(* and the operation ends in the status it is for, or in ERROR.            *)
(*                                                                         *)
(* The promise has two holes, and they are all it has: a request may have  *)
(* been checked against a status that no longer holds when it commits, and *)
(* a reconcile, snapshot or import that is given up fails the workspace    *)
(* whatever it is doing.  A workspace this happens to in the middle of an  *)
(* operation is `crossed' until nothing is pending for it; nothing is      *)
(* promised of it meanwhile.                                               *)
(***************************************************************************)
EXTENDS WorkspaceStatus

CONSTANT Workspaces

VARIABLES
    status,  \* status[w]: the status the owner sees
    op,      \* op[w]: the accepted operation, "NONE" between operations
    crossed  \* the workspaces whose operation was written over

lifecycleVars == <<status, op, crossed>>

Init ==
    /\ status = [w \in Workspaces |-> "ABSENT"]
    /\ op = [w \in Workspaces |-> "NONE"]
    /\ crossed = {}

Becomes(w, s, o) ==
    /\ status' = [status EXCEPT ![w] = s]
    /\ op' = [op EXCEPT ![w] = o]

Accept(w, t) ==
    /\ w \notin crossed
    /\ op[w] = "NONE"
    /\ status[w] \in IntentFrom(t)
    /\ Becomes(w, IntentStatus(t), t)
    /\ UNCHANGED crossed

\* A workspace under way shows CREATING once placed, PENDING while it waits.
Proceed(w) ==
    /\ w \notin crossed
    /\ \/ op[w] = "CREATE" /\ Becomes(w, "CREATING", op[w])
       \/ op[w] \in NodeWaitTypes /\ Becomes(w, "PENDING", op[w])
    /\ UNCHANGED crossed

Complete(w) ==
    /\ w \notin crossed
    /\ op[w] # "NONE"
    /\ \E s \in SuccessStatus(op[w], status[w]) : Becomes(w, s, "NONE")
    /\ UNCHANGED crossed

Fail(w) ==
    /\ w \notin crossed
    /\ op[w] # "NONE"
    /\ Becomes(w, "ERROR", "NONE")
    /\ UNCHANGED crossed

\* A reconcile, snapshot or import of a workspace at rest is given up.
FailAtRest(w) ==
    /\ op[w] = "NONE"
    /\ status[w] \in Settled
    /\ Becomes(w, "ERROR", "NONE")
    /\ UNCHANGED crossed

\* One is given up in the middle of an operation, which goes on.
FailOver(w) ==
    /\ op[w] # "NONE"
    /\ Becomes(w, "ERROR", op[w])
    /\ crossed' = crossed \cup {w}

\* A request commits on a status that is gone; of two operations under way either
\* may be the one that shows.
AcceptStale(w, t) ==
    /\ status[w] \notin IntentFrom(t)
    /\ \E o \in {op[w], t} \ {"NONE"} : Becomes(w, IntentStatus(t), o)
    /\ crossed' = crossed \cup {w}

\* The jobs of a crossed workspace end one after the other.
Drift(w) ==
    /\ w \in crossed
    /\ \E s \in Statuses, o \in LifecycleTypes \cup {"NONE"} :
          /\ Becomes(w, s, o)
          /\ crossed' = IF o = "NONE" THEN crossed \ {w} ELSE crossed

Next ==
    \E w \in Workspaces :
        \/ \E t \in LifecycleTypes : Accept(w, t) \/ AcceptStale(w, t)
        \/ Proceed(w) \/ Complete(w) \/ Fail(w)
        \/ FailAtRest(w) \/ FailOver(w) \/ Drift(w)

Spec == Init /\ [][Next]_lifecycleVars

\* An accepted operation ends.
FairSpec == Spec /\ \A w \in Workspaces : WF_lifecycleVars(Complete(w) \/ Fail(w))
=============================================================================
