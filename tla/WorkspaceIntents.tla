-------------------------- MODULE WorkspaceIntents --------------------------
(***************************************************************************)
(* What the owner of a workspace sees of WorkspaceJobs: the operation      *)
(* under way is the pending lifecycle job.  The history variable `crossed' *)
(* keeps the workspaces whose operation was written over, by a request     *)
(* that committed on a stale read or by a reconcile, snapshot or import    *)
(* that was given up; a workspace leaves it when no operation is pending.  *)
(***************************************************************************)
EXTENDS WorkspaceJobs

VARIABLE crossed

intentVars == <<vars, crossed>>

PendingJobs(w) == {j \in JobIds : /\ jobs[j].ws = w
                                  /\ jobs[j].type \in LifecycleTypes
                                  /\ Active(j)}

\* A request is inserted from whose view the status has moved on.
StaleRequest(w) ==
    \E j \in JobIds : /\ jobs[j].st = "FREE"
                      /\ jobs'[j].ws = w
                      /\ jobs'[j].type \in LifecycleTypes
                      /\ ws[w] \notin IntentFrom(jobs'[j].type)

\* A job that is no operation of w is given up and changes its status.
GivenUp(w) ==
    /\ ws'[w] # ws[w]
    /\ \E j \in JobIds : /\ jobs[j].ws = w
                         /\ jobs[j].type \notin LifecycleTypes
                         /\ jobs[j].st # "FAILED" /\ jobs'[j].st = "FAILED"

Track ==
    crossed' = {w \in Workspaces : /\ w \in crossed \/ StaleRequest(w) \/ GivenUp(w)
                                   /\ PendingJobs(w)' # {}}

IntentInit == Init /\ crossed = {}

IntentSpec == IntentInit /\ [][Next /\ Track]_intentVars

FairIntentSpec == IntentSpec /\ Fairness

-----------------------------------------------------------------------------
(* Properties *)

\* An accepted lifecycle intent keeps its workspace busy until its job is finished,
\* and is the only one (_require_not_busy), however requests, workers, retries,
\* crashes and the reclaimer interleave, unless the workspace was crossed.
IntentsAreExclusive ==
    \A w \in Workspaces \ crossed :
        /\ PendingJobs(w) # {} => ws[w] \in Busy
        /\ Cardinality(PendingJobs(w)) <= 1

\* A deleted workspace is left by another DELETE, by a request that was checked
\* before the deletion, or by a reconcile, snapshot or import that was still queued:
\* never by the late outcome of an earlier operation, a retry or the reclaimer.
DeletedIsLeftByDelete ==
    [][\A w \in Workspaces \ crossed :
          ws[w] = "DELETED" => \/ ws'[w] \in {"DELETED", "DELETING"}
                               \/ StaleRequest(w)
                               \/ GivenUp(w) /\ ws'[w] = "ERROR"]_intentVars

PendingType(w) ==
    IF PendingJobs(w) = {} THEN "NONE" ELSE jobs[CHOOSE j \in PendingJobs(w) : TRUE].type

Lifecycle == INSTANCE WorkspaceLifecycle
                 WITH status <- ws, op <- [w \in Workspaces |-> PendingType(w)]

\* The control plane implements the abstract lifecycle.
ImplementsLifecycle == Lifecycle!Spec

\* With the worker loop's fairness, accepted operations also end.
ImplementsFairLifecycle == Lifecycle!FairSpec
=============================================================================
