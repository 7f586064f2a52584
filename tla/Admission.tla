------------------------------ MODULE Admission ------------------------------
(***************************************************************************)
(* The quotas of one owner: max_workspaces, max_running_workspaces and     *)
(* max_cpu, as create_workspace and the lifecycle intents check them.      *)
(*                                                                         *)
(* A request counts first and commits later, without a lock; the jobs it   *)
(* queues change what is counted when they end.  Refusals by policy or by  *)
(* the monthly hours are requests that are not made here.                  *)
(***************************************************************************)
EXTENDS WorkspaceStatus, Naturals, FiniteSets, Functions

CONSTANTS
    Owned,       \* workspace ids of the owner (a bound on those)
    Requesters,  \* API requests in flight at once
    Offered,     \* job types the owner asks for
    OwnLimit,    \* quota.max_workspaces
    RunLimit,    \* quota.max_running_workspaces
    CpuLimit,    \* quota.max_cpu, in workspaces of the default size
    MaxQueued    \* bound on the jobs of a workspace that are not over

ASSUME AdmissionAssumption ==
    /\ IsFiniteSet(Owned) /\ IsFiniteSet(Requesters) /\ Requesters # {}
    /\ Offered \subseteq LifecycleTypes
    /\ {OwnLimit, RunLimit, CpuLimit, MaxQueued} \subseteq Nat \ {0}

VARIABLES
    status,    \* status[w]: Workspace.status
    asked,     \* asked[r]: the request whose checks have passed
    queued,    \* queued[w][t]: jobs of type t not yet over
    reserved,  \* reserved[w]: WorkspaceRuntime.reserved_cpu is not zero
    returned   \* workspaces that came back into a count without a check (history)

admVars == <<status, asked, queued, reserved, returned>>

NotAsked == [t |-> "none", w |-> "none"]

AdmInit ==
    /\ status = [w \in Owned |-> "ABSENT"]
    /\ asked = [r \in Requesters |-> NotAsked]
    /\ queued = [w \in Owned |-> [t \in LifecycleTypes |-> 0]]
    /\ reserved = [w \in Owned |-> FALSE]
    /\ returned = [own |-> {}, run |-> {}]

-----------------------------------------------------------------------------
\* _ACTIVE_WS_STATUSES
OwnStatuses == {"CREATING", "PENDING", "STARTING", "RUNNING", "STOPPING",
                "STOPPED", "RESTARTING", "UPDATING", "ERROR"}

\* _RUNNING_WS_STATUSES
RunStatuses == {"RUNNING", "PENDING", "STARTING", "RESTARTING"}

CountedIn(class) == {w \in Owned : status[w] \in class}

\* Mutant of UnderOwnLimit: one too many.
UnderOwnLimitOneMore == Cardinality(CountedIn(OwnStatuses)) <= OwnLimit

\* check_workspace_quota
UnderOwnLimit == Cardinality(CountedIn(OwnStatuses)) < OwnLimit

\* Mutant of UnderRunLimit: workspaces on their way up are not counted.
UnderRunLimitUp(w) == Cardinality(CountedIn({"RUNNING", "RESTARTING"}) \ {w}) < RunLimit

\* check_running_workspace_quota
UnderRunLimit(w) == Cardinality(CountedIn(RunStatuses) \ {w}) < RunLimit

\* check_owner_compute_quota
UnderCpuLimit(w) == Cardinality({v \in Owned : reserved[v]} \ {w}) + 1 <= CpuLimit

Admitted(t, w) ==
    /\ t = "CREATE" => UnderOwnLimit
    /\ t \in {"CREATE", "START", "RESTART"} => UnderRunLimit(w) /\ UnderCpuLimit(w)

\* create_workspace and the request_* functions, up to the first write
Asks(r, t, w) ==
    /\ asked[r] = NotAsked
    /\ status[w] \in IntentFrom(t)
    /\ t = "CREATE" => \A q \in Requesters : asked[q] # [t |-> t, w |-> w]
    /\ Admitted(t, w)
    /\ asked' = [asked EXCEPT ![r] = [t |-> t, w |-> w]]
    /\ UNCHANGED <<status, queued, reserved, returned>>

\* The rest: the status is written over whatever it has become.  The workspace has
\* passed the checks that its new status is counted in.
AskCommits(r) ==
    LET t == asked[r].t  w == asked[r].w
    IN /\ asked[r] # NotAsked
       /\ FoldFunction(+, 0, queued[w]) < MaxQueued
       /\ status' = [status EXCEPT ![w] = IntentStatus(t)]
       /\ queued' = [queued EXCEPT ![w][t] = @ + 1]
       /\ returned' = [returned EXCEPT !.run =
                         IF t \in {"CREATE", "START", "RESTART"} THEN @ \ {w} ELSE @]
       /\ asked' = [asked EXCEPT ![r] = NotAsked]
       /\ UNCHANGED reserved

-----------------------------------------------------------------------------
\* A failed job gives the reservation back on some of its paths.
ReservedAfter(w, st) ==
    CASE st = "RUNNING" -> {TRUE}
      [] st \in {"STOPPED", "DELETED"} -> {FALSE}
      [] st = "ERROR" -> {FALSE, reserved[w]}

Came(class, w, st) == st \in class /\ status[w] \notin class

\* A worker writes the status, which no quota is asked about.
JobWrites(w, st) ==
    /\ status' = [status EXCEPT ![w] = st]
    /\ returned' = [own |-> IF Came(OwnStatuses, w, st) THEN returned.own \cup {w} ELSE returned.own,
                    run |-> IF Came(RunStatuses, w, st) THEN returned.run \cup {w} ELSE returned.run]

QuotaJobEnds(w, t, st) ==
    /\ queued[w][t] > 0
    /\ queued' = [queued EXCEPT ![w][t] = @ - 1]
    /\ JobWrites(w, st)
    /\ \E res \in ReservedAfter(w, st) : reserved' = [reserved EXCEPT ![w] = res]
    /\ UNCHANGED asked

\* _begin_create_bringup_after_placement, with the reservation of the placement before
\* it, once a commit in the middle of the job publishes them.
CreateProceeds(w) ==
    /\ queued[w]["CREATE"] > 0 /\ status[w] = "PENDING"
    /\ JobWrites(w, "CREATING")
    /\ reserved' = [reserved EXCEPT ![w] = TRUE]
    /\ UNCHANGED <<asked, queued>>

\* The job waits for capacity or for a node that bootstraps.
JobWaits(w) ==
    /\ \E t \in NodeWaitTypes : queued[w][t] > 0
    /\ JobWrites(w, "PENDING")
    /\ UNCHANGED <<asked, queued, reserved>>

\* The placement of a snapshot, import or reconcile job is given up: it was queued
\* beside the intents and fails the workspace in whatever status it is.
SideJobFails(w) ==
    /\ status[w] # "ABSENT"
    /\ JobWrites(w, "ERROR")
    /\ reserved' = [reserved EXCEPT ![w] = FALSE]
    /\ UNCHANGED <<asked, queued>>

AdmNext ==
    \/ \E r \in Requesters :
         AskCommits(r) \/ \E w \in Owned, t \in Offered : Asks(r, t, w)
    \/ \E w \in Owned : CreateProceeds(w) \/ JobWaits(w) \/ SideJobFails(w)
    \/ \E w \in Owned, t \in Offered :
         \E st \in SuccessStatus(t, status[w]) \cup {"ERROR"} : QuotaJobEnds(w, t, st)

AdmSpec == AdmInit /\ [][AdmNext]_admVars

-----------------------------------------------------------------------------
(* Properties *)

\* Statuses, requests and jobs hold values of their kind, and a stopped or deleted
\* workspace has no reservation, which the owner's cpu quota would count.
AdmTypeOK ==
    /\ status \in [Owned -> Statuses]
    /\ \A r \in Requesters : asked[r] # NotAsked => asked[r].t \in Offered /\ asked[r].w \in Owned
    /\ \A w \in Owned : status[w] \in {"STOPPED", "DELETED"} => ~reserved[w]

\* Requests that overlap let an owner have at most that many workspaces more than
\* max_workspaces, aside from workspaces that came back into the count: from a DELETE
\* that failed, or already deleted, when a side job is given up
\* (check_workspace_quota).
OwnedWithinLimit ==
    Cardinality(CountedIn(OwnStatuses) \ returned.own) < OwnLimit + Cardinality(Requesters)

\* The same for max_running_workspaces and the workspaces that entered its count when
\* a request was admitted: aside are those that a job brought into it, an UPDATE,
\* which checks no quota, or a CREATE seen as CREATING, which is not counted
\* (check_running_workspace_quota).
AdmittedWithinLimit ==
    Cardinality(CountedIn(RunStatuses) \ returned.run) < RunLimit + Cardinality(Requesters)

\* "CREATE and start-class intents enforce max_running_workspaces": an owner whose
\* requests come one after the other has no more workspaces RUNNING than the quota
\* allows (check_running_workspace_quota).
RunningWithinLimit == Cardinality(CountedIn({"RUNNING"})) <= RunLimit
=============================================================================
