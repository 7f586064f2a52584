--------------------------- MODULE WorkspaceJobs ---------------------------
(***************************************************************************)
(* The workspace control plane: API handlers that accept intents, the     *)
(* workspace_job queue, the job workers that claim and execute its rows,   *)
(* and the reclaimer of stuck RUNNING rows.  They share two tables only:   *)
(* workspace (here `ws', its status column) and workspace_job (`jobs').    *)
(*                                                                         *)
(* What a process has read but not yet written back is its own state: an   *)
(* API handler's in `req', a worker's or reclaimer's database session in   *)
(* `tx'.  The topology adapter commits the worker's session in the middle  *)
(* of a job, which is what phase "published" is about.                     *)
(***************************************************************************)
EXTENDS WorkspaceStatus, Naturals, FiniteSets

CONSTANTS
    Workspaces,   \* workspace rows
    Handlers,     \* concurrent API requests
    Workers,      \* job worker processes
    Reclaimers,   \* processes running reclaim_stuck_running_jobs; {} when
                  \* workspace_job_stuck_timeout_seconds = 0
    IntentTypes,  \* the job types the handlers of this instance request
    MaxJobs,      \* bound: rows ever inserted into workspace_job
    MaxAttempts,  \* effective_max_attempts
    MaxFaults,    \* bound: crashes, unexpected exceptions and topology conflicts
    MayOverrun,   \* a job may be reclaimed while some process still holds it
    MayConflict,  \* ensure_node_topology may hit a conflict and roll back
    None          \* the workspace of a row not inserted yet

ASSUME JobsAssumption ==
    /\ MaxJobs \in Nat
    /\ MaxAttempts \in Nat \ {0}
    /\ MaxFaults \in Nat
    /\ MayOverrun \in BOOLEAN
    /\ MayConflict \in BOOLEAN
    /\ IntentTypes \subseteq Types
    /\ Workers \cap Reclaimers = {}
    /\ None \notin Workspaces

VARIABLES
    ws,      \* ws[w]: committed Workspace.status
    jobs,    \* jobs[j]: committed workspace_job row; ids are in created_at order
    req,     \* req[h]: the intent handler h has checked and not yet committed
    tx,      \* tx[a]: the session of worker or reclaimer a
    faults   \* crashes, exceptions and conflicts so far

vars == <<ws, jobs, req, tx, faults>>

-----------------------------------------------------------------------------
(* Rows and sessions *)

JobIds == 1 .. MaxJobs

Agents == Workers \cup Reclaimers

\* delayed: next_attempt_after lies ahead.  expired: the capacity wait window
\* that starts at created_at is over.  attempt saturates at MaxAttempts: the
\* code compares it with the maximum only.
NoRow == [ws |-> None, type |-> "NONE", st |-> "FREE", attempt |-> 0,
          delayed |-> FALSE, expired |-> FALSE]

InsertedRow == [ws      : Workspaces,
                type    : Types,
                st      : {"QUEUED", "RUNNING", "SUCCEEDED", "FAILED"},
                attempt : 0 .. MaxAttempts,
                delayed : BOOLEAN,
                expired : BOOLEAN]

\* seen: the status this session last loaded or wrote; cur: its in-memory
\* value.  The ORM writes the column only when the two differ.  att: the
\* session's copy of the attempt counter.
NoTx == [job |-> 0, phase |-> "idle", seen |-> "ABSENT", cur |-> "ABSENT", att |-> 0]

OpenSession == [job   : JobIds,
                phase : {"claimed", "placed", "published", "lost"},
                seen  : Statuses,
                cur   : Statuses,
                att   : 0 .. MaxAttempts]

NoReq == [ws |-> None, type |-> "NONE"]

Request == [ws : Workspaces, type : Types]

Init ==
    /\ ws = [w \in Workspaces |-> "ABSENT"]
    /\ jobs = [j \in JobIds |-> NoRow]
    /\ req = [h \in Handlers |-> NoReq]
    /\ tx = [a \in Agents |-> NoTx]
    /\ faults = 0

Active(j) == jobs[j].st \in {"QUEUED", "RUNNING"}

-----------------------------------------------------------------------------
(* API: an intent is checked against an unlocked read and committed later  *)

\* _check_reconcile_lease looks at one pending reconcile row of w, whichever
\* comes first: a QUEUED one holds the lease, a RUNNING one until its TTL.
LeaseFree(w) ==
    LET pending == {j \in JobIds : /\ jobs[j].ws = w
                                   /\ jobs[j].type = "RECONCILE_RUNTIME"
                                   /\ Active(j)}
    IN  pending # {} => \E j \in pending : jobs[j].st = "RUNNING"

\* _pending_snapshot_jobs, an unlocked read.
SnapshotPending(w) == \E j \in JobIds : /\ jobs[j].ws = w
                                         /\ jobs[j].type \in SnapshotTypes
                                         /\ Active(j)

\* Two handlers never create the same row: CREATE inserts a fresh workspace.
Creating(w) == \E h \in Handlers : req[h] = [ws |-> w, type |-> "CREATE"]

IntentRead(h, w, t) ==
    /\ req[h] = NoReq
    /\ ws[w] \in IntentFrom(t)
    /\ t = "CREATE" => ~Creating(w)
    /\ t = "RECONCILE_RUNTIME" => LeaseFree(w)
    /\ t \in SnapshotTypes => ~SnapshotPending(w)
    /\ req' = [req EXCEPT ![h] = [ws |-> w, type |-> t]]
    /\ UNCHANGED <<ws, jobs, tx, faults>>

\* The id the next inserted row gets.
NextId(j) == /\ jobs[j].st = "FREE"
             /\ \A i \in JobIds : i < j => jobs[i].st # "FREE"

\* The status and the QUEUED row are committed together; reconciles, snapshots and
\* imports leave the status as it is.
IntentCommit(h, j) ==
    /\ req[h] # NoReq
    /\ NextId(j)
    /\ jobs' = [jobs EXCEPT ![j] = [ws |-> req[h].ws, type |-> req[h].type,
                                    st |-> "QUEUED", attempt |-> 0,
                                    delayed |-> FALSE, expired |-> FALSE]]
    /\ ws' = IF req[h].type \in LifecycleTypes
             THEN [ws EXCEPT ![req[h].ws] = IntentStatus(req[h].type)]
             ELSE ws
    /\ req' = [req EXCEPT ![h] = NoReq]
    /\ UNCHANGED <<tx, faults>>

\* Quota, policy or the commit itself refuses the request.
IntentRefused(h) ==
    /\ req[h] # NoReq
    /\ req' = [req EXCEPT ![h] = NoReq]
    /\ UNCHANGED <<ws, jobs, tx, faults>>

-----------------------------------------------------------------------------
(* Claiming *)

\* Rows under FOR UPDATE: claimed by a transaction that has not committed.
Locked(j) == \E a \in Agents : /\ tx[a].job = j
                               /\ tx[a].phase \in {"claimed", "placed"}

\* Mutant of Eligible: the claim does not skip locked rows.
EligibleLocked(j) == jobs[j].st = "QUEUED" /\ ~jobs[j].delayed

\* Mutant of Eligible: failed rows are picked up again.
EligibleFailed(j) == /\ jobs[j].st \in {"QUEUED", "FAILED"}
                     /\ ~jobs[j].delayed
                     /\ ~Locked(j)

Eligible(j) == /\ jobs[j].st = "QUEUED"
               /\ ~jobs[j].delayed
               /\ ~Locked(j)

\* Bound: the code counts on, here the counter stops at MaxAttempts.  The counter is
\* only ever compared with the maximum, and compares as the real one would.
Bump(n) == IF n < MaxAttempts THEN n + 1 ELSE n

\* The claim only flushes: until the session commits, the row stays QUEUED for
\* everybody else and the attempt counter is as it was.
TakeRow(k, j) ==
    /\ tx[k] = NoTx
    /\ Eligible(j)
    /\ tx' = [tx EXCEPT ![k] = [job |-> j, phase |-> "claimed",
                                seen |-> ws[jobs[j].ws], cur |-> ws[jobs[j].ws],
                                att |-> Bump(jobs[j].attempt)]]
    /\ UNCHANGED <<ws, jobs, req, faults>>

ClaimNext(k, j) ==
    /\ \A i \in JobIds : i < j => ~Eligible(i)
    /\ TakeRow(k, j)

ClaimById(k, j) == TakeRow(k, j)

-----------------------------------------------------------------------------
(* Writing a session back *)

RowOf(k) == jobs[tx[k].job]

\* After the adapter's rollback the rows are expired and reloaded on use.
Att(k) == IF tx[k].phase = "lost" THEN RowOf(k).attempt ELSE tx[k].att

Cur(k) == IF tx[k].phase = "lost" THEN ws[RowOf(k).ws] ELSE tx[k].cur

\* A row with status st and attempt counter n; a requeued row has a backoff.
WithOutcome(row, st, n) ==
    [row EXCEPT !.st = st, !.attempt = n, !.delayed = (st = "QUEUED")]

\* The session commits job status st and workspace status new, and ends.
CommitSession(k, st, new) ==
    LET j == tx[k].job
        w == RowOf(k).ws
        n == IF tx[k].phase \in {"claimed", "placed"} THEN tx[k].att ELSE RowOf(k).attempt
    IN  /\ jobs' = [jobs EXCEPT ![j] = WithOutcome(@, st, n)]
        /\ ws' = [ws EXCEPT ![w] = IF tx[k].phase # "lost" /\ new = tx[k].seen
                                   THEN @ ELSE new]
        /\ tx' = [tx EXCEPT ![k] = NoTx]
        /\ UNCHANGED <<req, faults>>

\* Mutant of RetryOrFail: a retry already moves the workspace to the terminal
\* status.
RetryOrFailEarly(k, terminal) ==
    IF Att(k) < MaxAttempts
    THEN CommitSession(k, "QUEUED", terminal)
    ELSE CommitSession(k, "FAILED", terminal)

\* Mutant of RetryOrFail: the last attempt is retried too.
RetryOrFailOnceMore(k, terminal) ==
    IF Att(k) <= MaxAttempts
    THEN CommitSession(k, "QUEUED", Cur(k))
    ELSE CommitSession(k, "FAILED", terminal)

\* try_schedule_workspace_job_retry, and the terminal outcome when it refuses.
RetryOrFail(k, terminal) ==
    IF Att(k) < MaxAttempts
    THEN CommitSession(k, "QUEUED", Cur(k))
    ELSE CommitSession(k, "FAILED", terminal)

Holding(k, phases) == k \in Workers /\ tx[k].phase \in phases

Executing == {"placed", "published", "lost"}

-----------------------------------------------------------------------------
(* Placement: _process_next_queued_job_return_id up to the job body *)

\* Mutant of DeleteRuntimeMissing: every job of a workspace without runtime.
AnyRuntimeMissing(k) ==
    /\ Holding(k, {"claimed"})
    /\ CommitSession(k, "SUCCEEDED", "DELETED")

\* DELETE of a workspace whose runtime row is already gone.
DeleteRuntimeMissing(k) ==
    /\ Holding(k, {"claimed"})
    /\ RowOf(k).type = "DELETE"
    /\ CommitSession(k, "SUCCEEDED", "DELETED")

\* A placement or binding error; it ends in ERROR for every job type.
PlacementFails(k) ==
    /\ Holding(k, {"claimed"})
    /\ RetryOrFail(k, "ERROR")

\* No schedulable node, or the chosen one is still bootstrapping: wait for it
\* until the capacity window of the job is over.
WaitForNode(k) ==
    /\ Holding(k, {"claimed"} \cup Executing)
    /\ RowOf(k).type \in NodeWaitTypes
    /\ IF RowOf(k).expired
       THEN CommitSession(k, "FAILED", "ERROR")
       ELSE CommitSession(k, "QUEUED", "PENDING")

\* _begin_create_bringup_after_placement
Place(k) ==
    /\ Holding(k, {"claimed"})
    /\ tx' = [tx EXCEPT ![k].phase = "placed",
                        ![k].cur = IF RowOf(k).type = "CREATE" /\ @ = "PENDING"
                                   THEN "CREATING" ELSE @]
    /\ UNCHANGED <<ws, jobs, req, faults>>

-----------------------------------------------------------------------------
(* Execution *)

\* A commit of the topology adapter inside the job: the claim becomes visible
\* as RUNNING and the row lock is released.  Snapshots and imports use no topology.
Publish(k) ==
    /\ Holding(k, {"placed"})
    /\ RowOf(k).type \notin SideTypes
    /\ jobs' = [jobs EXCEPT ![tx[k].job] = WithOutcome(@, "RUNNING", tx[k].att)]
    /\ ws' = [ws EXCEPT ![RowOf(k).ws] = IF tx[k].cur = tx[k].seen THEN @ ELSE tx[k].cur]
    /\ tx' = [tx EXCEPT ![k].phase = "published", ![k].seen = tx[k].cur]
    /\ UNCHANGED <<req, faults>>

\* ensure_node_topology rolls the session back on a conflict and goes on: the
\* claim is undone while the job is being executed.
LoseClaim(k) ==
    /\ MayConflict
    /\ Holding(k, {"placed"})
    /\ RowOf(k).type \in NodeWaitTypes
    /\ faults < MaxFaults
    /\ tx' = [tx EXCEPT ![k].phase = "lost"]
    /\ faults' = faults + 1
    /\ UNCHANGED <<ws, jobs, req>>

JobSucceeds(k) ==
    /\ Holding(k, Executing)
    /\ \E s \in SuccessStatus(RowOf(k).type, Cur(k)) : CommitSession(k, "SUCCEEDED", s)

\* Bring-up like jobs: result failures and orchestrator exceptions.
RetryableFailure(k) ==
    /\ Holding(k, Executing)
    /\ RowOf(k).type \in NodeWaitTypes
    /\ RetryOrFail(k, "ERROR")

\* Mutant of FatalFailure: the job fails, the workspace keeps its status.
FatalFailureJobOnly(k) ==
    /\ Holding(k, Executing)
    /\ RowOf(k).type \in {"STOP", "DELETE"}
    /\ CommitSession(k, "FAILED", Cur(k))

\* STOP and DELETE are not retried, and neither are invalid runtime limits,
\* which are found before the bring-up starts.
FatalFailure(k) ==
    /\ \/ Holding(k, Executing) /\ RowOf(k).type \in {"STOP", "DELETE"}
       \/ Holding(k, {"placed"}) /\ RowOf(k).type \in {"CREATE", "START"}
    /\ CommitSession(k, "FAILED", "ERROR")

\* _fail_reconcile: a busy workspace is a terminal failure; other failures are
\* retried, and then leave a settled status other than RUNNING alone.
ReconcileFails(k) ==
    /\ Holding(k, Executing)
    /\ RowOf(k).type = "RECONCILE_RUNTIME"
    /\ IF Cur(k) \in Busy
       THEN \/ CommitSession(k, "FAILED", "ERROR")
            \/ RetryOrFail(k, "ERROR")             \* advisory lock contended
       ELSE RetryOrFail(k, IF Cur(k) \in {"STOPPED", "ERROR", "DELETED"}
                           THEN Cur(k) ELSE "ERROR")

\* A lingering runtime of a STOPPED row that cannot be stopped goes through the
\* stop finalizer instead, which is terminal for the workspace.
ReconcileStopFails(k) ==
    /\ Holding(k, Executing)
    /\ RowOf(k).type = "RECONCILE_RUNTIME"
    /\ Cur(k) = "STOPPED"
    /\ CommitSession(k, "FAILED", "ERROR")

\* A snapshot whose result is a failure ends; an exception of the orchestrator is
\* retried.  Neither touches the workspace.
SnapshotFails(k) ==
    /\ Holding(k, Executing)
    /\ RowOf(k).type \in SnapshotTypes
    /\ CommitSession(k, "FAILED", Cur(k)) \/ RetryOrFail(k, Cur(k))

\* The failure paths of an import raise (FailureStage has no ORCHESTRATION): the
\* claim is rolled back, its attempt is not counted and there is no backoff.
ImportRaises(k) ==
    /\ Holding(k, Executing)
    /\ RowOf(k).type = "REPO_IMPORT"
    /\ tx' = [tx EXCEPT ![k] = NoTx]
    /\ UNCHANGED <<ws, jobs, req, faults>>

\* The process dies, or an unexpected exception rolls the session back.
Crash(k) ==
    /\ Holding(k, {"claimed"} \cup Executing)
    /\ faults < MaxFaults
    /\ tx' = [tx EXCEPT ![k] = NoTx]
    /\ faults' = faults + 1
    /\ UNCHANGED <<ws, jobs, req>>

-----------------------------------------------------------------------------
(* Reclaiming stuck rows, and time *)

\* Mutant of ReclaimRead: no stuck timeout, every RUNNING row is taken.
ReclaimReadFresh(r, j) ==
    /\ tx[r] = NoTx
    /\ jobs[j].st = "RUNNING"
    /\ tx' = [tx EXCEPT ![r] = [job |-> j, phase |-> "published",
                                seen |-> ws[jobs[j].ws], cur |-> ws[jobs[j].ws],
                                att |-> jobs[j].attempt]]
    /\ UNCHANGED <<ws, jobs, req, faults>>

\* An unlocked read of a RUNNING row older than the stuck timeout.
ReclaimRead(r, j) ==
    /\ tx[r] = NoTx
    /\ jobs[j].st = "RUNNING"
    /\ MayOverrun \/ \A a \in Agents : tx[a].job # j
    /\ tx' = [tx EXCEPT ![r] = [job |-> j, phase |-> "published",
                                seen |-> ws[jobs[j].ws], cur |-> ws[jobs[j].ws],
                                att |-> jobs[j].attempt]]
    /\ UNCHANGED <<ws, jobs, req, faults>>

\* Mutant of ReclaimCommit: the exhausted job fails, the workspace is not told.
ReclaimCommitSilent(r) ==
    /\ tx[r].phase = "published"
    /\ RetryOrFail(r, Cur(r))

\* Mutant of ReclaimCommit: rows without attempts left are skipped.
ReclaimCommitRetries(r) ==
    /\ tx[r].phase = "published"
    /\ IF Att(r) < MaxAttempts
       THEN CommitSession(r, "QUEUED", Cur(r))
       ELSE tx' = [tx EXCEPT ![r] = NoTx] /\ UNCHANGED <<ws, jobs, req, faults>>

ReclaimCommit(r) ==
    /\ tx[r].phase = "published"
    /\ RetryOrFail(r, IF RowOf(r).type \in LifecycleTypes THEN "ERROR" ELSE Cur(r))

BackoffElapses(j) ==
    /\ jobs[j].delayed
    /\ jobs' = [jobs EXCEPT ![j].delayed = FALSE]
    /\ UNCHANGED <<ws, req, tx, faults>>

CapacityWindowElapses(j) ==
    /\ Active(j)
    /\ jobs[j].type \in NodeWaitTypes
    /\ ~jobs[j].expired
    /\ jobs' = [jobs EXCEPT ![j].expired = TRUE]
    /\ UNCHANGED <<ws, req, tx, faults>>

-----------------------------------------------------------------------------

Outcome(k) ==
    \/ DeleteRuntimeMissing(k) \/ PlacementFails(k) \/ WaitForNode(k)
    \/ JobSucceeds(k) \/ RetryableFailure(k) \/ FatalFailure(k)
    \/ ReconcileFails(k) \/ ReconcileStopFails(k) \/ SnapshotFails(k)

WorkerStep(k) ==
    \/ \E j \in JobIds : ClaimNext(k, j) \/ ClaimById(k, j)
    \/ Place(k) \/ Publish(k) \/ LoseClaim(k)
    \/ Outcome(k) \/ ImportRaises(k) \/ Crash(k)

HandlerStep(h) ==
    \/ \E w \in Workspaces, t \in IntentTypes : IntentRead(h, w, t)
    \/ \E j \in JobIds : IntentCommit(h, j)
    \/ IntentRefused(h)

ReclaimStep(r) == (\E j \in JobIds : ReclaimRead(r, j)) \/ ReclaimCommit(r)

TimeStep(j) == BackoffElapses(j) \/ CapacityWindowElapses(j)

Next ==
    \/ \E h \in Handlers : HandlerStep(h)
    \/ \E k \in Workers : WorkerStep(k)
    \/ \E r \in Reclaimers : ReclaimStep(r)
    \/ \E j \in JobIds : TimeStep(j)

Spec == Init /\ [][Next]_vars

\* The worker loop polls forever, an accepted claim ends, timers run out, and
\* every worker loop iteration starts with the reclaimer.  Nothing is assumed
\* of the users' requests, and nothing forces a crash or a conflict.
Fairness ==
    /\ \A k \in Workers : /\ WF_vars(\E j \in JobIds : ClaimNext(k, j))
                          /\ WF_vars(Place(k) \/ Outcome(k))
    /\ \A r \in Reclaimers : WF_vars(ReclaimStep(r))
    /\ \A j \in JobIds : WF_vars(BackoffElapses(j)) /\ WF_vars(CapacityWindowElapses(j))

FairSpec == Spec /\ Fairness

-----------------------------------------------------------------------------
(* Properties *)

\* Every column and every session field stays within its declared values.
TypeOK ==
    /\ ws \in [Workspaces -> Statuses]
    /\ jobs \in [JobIds -> InsertedRow \cup {NoRow}]
    /\ req \in [Handlers -> Request \cup {NoReq}]
    /\ tx \in [Agents -> OpenSession \cup {NoTx}]
    /\ faults \in 0 .. MaxFaults

\* A transitional status always has a job that will end it: intents are refused
\* while the row is busy (_require_not_busy), so a busy row without a pending
\* lifecycle job could never be left again.
BusyHasJob ==
    \A w \in Workspaces :
        ws[w] \in Busy => \E j \in JobIds : /\ jobs[j].ws = w
                                             /\ jobs[j].type \in LifecycleTypes
                                             /\ Active(j)

\* No job is executed by two workers at once (FOR UPDATE SKIP LOCKED, and the
\* module docstring of worker.py).
NoDoubleExecution ==
    \A a, b \in Workers : tx[a].job # 0 /\ tx[a].job = tx[b].job => a = b

\* SUCCEEDED and FAILED are final: a finished job is never run again nor given
\* another outcome by a process that still holds a copy of its row.
FinishedJobsStay ==
    [][\A j \in JobIds : jobs[j].st \in {"SUCCEEDED", "FAILED"}
                             => jobs'[j].st = jobs[j].st]_vars

\* The outcomes that may still be recorded in a row before its last one: two for
\* each attempt, when it is published and when it is requeued.
RunsLeft(row) ==
    IF row.attempt = MaxAttempts
    THEN IF row.st = "QUEUED" THEN 1 ELSE 0
    ELSE 2 * (MaxAttempts - row.attempt) + (IF row.st = "QUEUED" THEN 0 ELSE 1)

\* A job that does not, or no longer, wait for capacity uses its attempts up: every
\* commit that changes its row finishes it or leaves fewer, whether it comes from
\* a worker or the reclaimer (try_schedule_workspace_job_retry).
RetriesDescend ==
    [][\A j \in JobIds :
          /\ Active(j)
          /\ jobs[j].expired \/ jobs[j].type \notin NodeWaitTypes
          /\ <<jobs'[j].st, jobs'[j].attempt>> # <<jobs[j].st, jobs[j].attempt>>
          => ~Active(j)' \/ RunsLeft(jobs'[j]) < RunsLeft(jobs[j])]_vars

\* Every transitional status is left again, crashes of the worker and
\* conflicts of the topology adapter included.
BusyEventuallySettles ==
    \A w \in Workspaces : ws[w] \in Busy ~> ws[w] \in Settled

-----------------------------------------------------------------------------
(* The inductive invariant behind BusyHasJob, NoDoubleExecution and          *)
(* FinishedJobsStay                                                          *)

\* No held job is reclaimed, and where a conflict can undo a claim there is no
\* other worker to claim the row again.
Undisputed == ~MayOverrun /\ (MayConflict => \A a, b \in Workers : a = b)

OneHolder == \A a, b \in Agents : tx[a].job # 0 /\ tx[a].job = tx[b].job => a = b

\* An uncommitted claim, or one that was undone, leaves its row QUEUED, a
\* published one RUNNING.
HeldRowMatches ==
    \A a \in Agents :
        /\ tx[a].phase \in {"claimed", "placed", "lost"} => RowOf(a).st = "QUEUED"
        /\ tx[a].phase = "published" => RowOf(a).st = "RUNNING"
        /\ tx[a].phase = "lost" => MayConflict /\ a \in Workers

\* A session differs from what it loaded only by CREATE's step to CREATING; one
\* that was rolled back loads again.
SessionStatus ==
    \A a \in Agents :
        tx[a].phase \notin {"idle", "lost"} =>
            \/ tx[a].cur = tx[a].seen
            \/ /\ tx[a].phase = "placed"
               /\ tx[a].cur = "CREATING"
               /\ RowOf(a).type = "CREATE"

\* A claim counts one attempt more than the row, until it is published.
SessionAttempt ==
    \A a \in Agents :
        /\ tx[a].phase \in {"claimed", "placed"} => tx[a].att = Bump(RowOf(a).attempt)
        /\ tx[a].phase = "published" => tx[a].att = RowOf(a).attempt

\* Job j will end the transitional status of w: whoever holds it has seen a
\* busy status, so its outcome is not taken for a change already made.
Guards(j, w) ==
    /\ jobs[j].ws = w
    /\ jobs[j].type \in LifecycleTypes
    /\ Active(j)
    /\ \A a \in Agents : tx[a].job = j => tx[a].seen \in Busy

BusyIsGuarded ==
    \A w \in Workspaces : ws[w] \in Busy => \E j \in JobIds : Guards(j, w)

\* Every held job has one holder, which agrees with the committed row on what is
\* under way, and every transitional status a job whose end it will not miss.
QueueInv == OneHolder /\ HeldRowMatches /\ SessionStatus /\ BusyIsGuarded
=============================================================================
