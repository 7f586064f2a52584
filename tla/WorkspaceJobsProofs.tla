------------------------ MODULE WorkspaceJobsProofs ------------------------
(***************************************************************************)
(* Proofs about WorkspaceJobs and WorkspaceIntents, for any number of      *)
(* workspaces, handlers, workers, reclaimers, job rows, attempts and       *)
(* faults.  Beyond typing they ask that executions are Undisputed: no row  *)
(* of a live worker is reclaimed, and claims are rolled back only where    *)
(* there is one worker.                                                    *)
(***************************************************************************)
EXTENDS WorkspaceIntents, FiniteSetTheorems, TLAPS

JobStatuses == {"QUEUED", "RUNNING", "SUCCEEDED", "FAILED"}

\* A session only ever holds a row that has been inserted.
HeldExists == \A a \in Agents : tx[a] # NoTx => jobs[tx[a].job] # NoRow

TypeInv == TypeOK /\ HeldExists

-----------------------------------------------------------------------------
(* Typing *)

\* The statuses that intents and outcomes write are statuses.
LEMMA StatusTypes ==
    /\ \A t \in LifecycleTypes : IntentStatus(t) \in Busy
    /\ \A t \in Types \ SideTypes, v \in Statuses : SuccessStatus(t, v) \subseteq Settled
    /\ \A t \in SideTypes, v \in Statuses : SuccessStatus(t, v) = {v}
    /\ SideTypes \cap LifecycleTypes = {}
<1>1. /\ \A t \in LifecycleTypes : IntentStatus(t) \in Busy
      /\ \A t \in Types \ SideTypes, v \in Statuses : SuccessStatus(t, v) \subseteq Settled
  BY DEF LifecycleTypes, Types, SideTypes, IntentStatus, SuccessStatus, Busy, Settled, Statuses
<1>2. SideTypes \cap LifecycleTypes = {}
  BY DEF LifecycleTypes, SideTypes, SnapshotTypes
<1>3. \A t \in SideTypes, v \in Statuses : SuccessStatus(t, v) = {v}
  BY DEF SideTypes, SnapshotTypes, SuccessStatus
<1> QED
  BY <1>1, <1>2, <1>3

\* What typing says of an open session and of the row it holds.
LEMMA OpenTypes ==
    ASSUME TypeInv, NEW k \in Agents, tx[k] # NoTx
    PROVE  /\ tx[k] \in OpenSession
           /\ tx[k].job \in JobIds
           /\ tx[k].att \in 0 .. MaxAttempts
           /\ RowOf(k) \in InsertedRow
           /\ RowOf(k).ws \in Workspaces
           /\ RowOf(k).type \in Types
           /\ RowOf(k).attempt \in 0 .. MaxAttempts
           /\ Att(k) \in 0 .. MaxAttempts
           /\ Cur(k) \in Statuses
<1>1. tx[k] \in OpenSession
  BY DEF TypeInv, TypeOK
<1>2. RowOf(k) \in InsertedRow
  BY <1>1 DEF TypeInv, TypeOK, HeldExists, OpenSession, RowOf
<1> QED
  BY <1>1, <1>2 DEF OpenSession, InsertedRow, Att, Cur, TypeInv, TypeOK

\* An outcome leaves a row's workspace, type and capacity window alone.
LEMMA OutcomeRow ==
    ASSUME NEW row \in InsertedRow, NEW st \in JobStatuses, NEW n \in 0 .. MaxAttempts
    PROVE  /\ WithOutcome(row, st, n) \in InsertedRow
           /\ WithOutcome(row, st, n).ws = row.ws
           /\ WithOutcome(row, st, n).type = row.type
           /\ WithOutcome(row, st, n).st = st
<1>1. (st = "QUEUED") \in BOOLEAN
  OBVIOUS
<1> QED
  BY <1>1 DEF InsertedRow, JobStatuses, WithOutcome

\* NoRow and NoTx are told apart from inserted rows and open sessions.
LEMMA NullsApart ==
    /\ NoRow \notin InsertedRow
    /\ NoTx \notin OpenSession
    /\ NoReq \notin Request
BY DEF NoRow, InsertedRow, NoTx, OpenSession, NoReq, Request, Types, LifecycleTypes, SideTypes,
   SnapshotTypes

\* The ways a worker or a reclaimer may end its session.
AllowedOutcome(k, st, new) ==
    \/ st \in {"SUCCEEDED", "FAILED"} /\ new \in Settled
    \/ st = "QUEUED" /\ new = Cur(k)
    \/ st = "QUEUED" /\ new = "PENDING" /\ RowOf(k).type \in NodeWaitTypes
    \/ st \in {"SUCCEEDED", "FAILED"} /\ new = Cur(k) /\ RowOf(k).type \notin LifecycleTypes

EndsSession(k) ==
    \E st \in JobStatuses, new \in Statuses :
        CommitSession(k, st, new) /\ AllowedOutcome(k, st, new)

\* RetryOrFail is such an end when its terminal status is.
LEMMA RetryOrFailEnds ==
    ASSUME TypeInv, NEW k \in Agents, tx[k] # NoTx, NEW terminal \in Statuses,
           \/ terminal \in Settled
           \/ terminal = Cur(k) /\ RowOf(k).type \notin LifecycleTypes,
           RetryOrFail(k, terminal)
    PROVE  EndsSession(k)
<1>1. CASE Att(k) < MaxAttempts
  <2>1. CommitSession(k, "QUEUED", Cur(k)) /\ AllowedOutcome(k, "QUEUED", Cur(k))
    BY <1>1 DEF RetryOrFail, AllowedOutcome
  <2> QED
    BY <2>1, OpenTypes DEF EndsSession, JobStatuses
<1>2. CASE ~(Att(k) < MaxAttempts)
  <2>1. CommitSession(k, "FAILED", terminal) /\ AllowedOutcome(k, "FAILED", terminal)
    BY <1>2 DEF RetryOrFail, AllowedOutcome
  <2> QED
    BY <2>1 DEF EndsSession, JobStatuses
<1> QED
  BY <1>1, <1>2

\* A committed terminal outcome is one of the allowed ends.
LEMMA TerminalEnds ==
    ASSUME NEW k, NEW st \in {"SUCCEEDED", "FAILED"}, NEW new \in Settled,
           CommitSession(k, st, new)
    PROVE  EndsSession(k)
<1>1. AllowedOutcome(k, st, new) /\ st \in JobStatuses /\ new \in Statuses
  BY DEF AllowedOutcome, JobStatuses, Statuses
<1> QED
  BY <1>1 DEF EndsSession

\* So is one that leaves the status alone, for a job that is no operation.
LEMMA AloneEnds ==
    ASSUME TypeInv, NEW k \in Agents, tx[k] # NoTx, NEW st \in {"SUCCEEDED", "FAILED"},
           RowOf(k).type \notin LifecycleTypes, CommitSession(k, st, Cur(k))
    PROVE  EndsSession(k)
<1>1. AllowedOutcome(k, st, Cur(k)) /\ st \in JobStatuses /\ Cur(k) \in Statuses
  BY OpenTypes DEF AllowedOutcome, JobStatuses
<1> QED
  BY <1>1 DEF EndsSession

\* Every outcome of a job is one of the allowed ends.
LEMMA OutcomeEnds ==
    ASSUME TypeInv, NEW k \in Workers, Outcome(k)
    PROVE  tx[k] # NoTx /\ EndsSession(k)
<1>1. k \in Agents /\ tx[k] # NoTx
  BY DEF Agents, Outcome, DeleteRuntimeMissing, PlacementFails, WaitForNode, JobSucceeds,
         RetryableFailure, FatalFailure, ReconcileFails, ReconcileStopFails, SnapshotFails,
         Holding, Executing, NoTx
<1>2. {"ERROR", "DELETED", "STOPPED"} \subseteq Settled /\ "PENDING" \in Statuses
      /\ Settled \subseteq Statuses
  BY DEF Settled, Statuses, Busy
<1>3. CASE DeleteRuntimeMissing(k)
  BY <1>1, <1>2, <1>3, TerminalEnds DEF DeleteRuntimeMissing
<1>4. CASE PlacementFails(k)
  BY <1>1, <1>2, <1>4, RetryOrFailEnds DEF PlacementFails
<1>5. CASE WaitForNode(k)
  <2>1. CASE RowOf(k).expired
    BY <1>1, <1>2, <1>5, <2>1, TerminalEnds DEF WaitForNode
  <2>2. CASE ~RowOf(k).expired
    <3>1. CommitSession(k, "QUEUED", "PENDING") /\ AllowedOutcome(k, "QUEUED", "PENDING")
      BY <1>5, <2>2 DEF WaitForNode, AllowedOutcome
    <3> QED
      BY <1>1, <1>2, <3>1 DEF EndsSession, JobStatuses
  <2> QED
    BY <2>1, <2>2
<1>6. CASE JobSucceeds(k)
  <2>1. RowOf(k).type \in Types /\ Cur(k) \in Statuses
    BY <1>1, OpenTypes
  <2>2. CASE RowOf(k).type \notin SideTypes
    <3>1. SuccessStatus(RowOf(k).type, Cur(k)) \subseteq Settled
      BY <2>1, <2>2, StatusTypes
    <3> QED
      BY <1>1, <1>6, <3>1, TerminalEnds DEF JobSucceeds
  <2>3. CASE RowOf(k).type \in SideTypes
    <3>1. CommitSession(k, "SUCCEEDED", Cur(k)) /\ RowOf(k).type \notin LifecycleTypes
      BY <1>6, <2>1, <2>3, StatusTypes DEF JobSucceeds
    <3> QED
      BY <1>1, <3>1, AloneEnds
  <2> QED
    BY <2>2, <2>3
<1>7. CASE RetryableFailure(k)
  BY <1>1, <1>2, <1>7, RetryOrFailEnds DEF RetryableFailure
<1>8. CASE FatalFailure(k)
  BY <1>1, <1>2, <1>8, TerminalEnds DEF FatalFailure
<1>9. CASE ReconcileFails(k)
  <2>1. CASE Cur(k) \in Busy /\ CommitSession(k, "FAILED", "ERROR")
    BY <1>1, <1>2, <2>1, TerminalEnds
  <2>2. CASE Cur(k) \in Busy /\ RetryOrFail(k, "ERROR")
    BY <1>1, <1>2, <2>2, RetryOrFailEnds
  <2>3. CASE Cur(k) \notin Busy
    <3> DEFINE t == IF Cur(k) \in {"STOPPED", "ERROR", "DELETED"} THEN Cur(k) ELSE "ERROR"
    <3>1. t \in Settled /\ t \in Statuses
      BY <1>2
    <3>2. RetryOrFail(k, t)
      BY <1>9, <2>3 DEF ReconcileFails
    <3> HIDE DEF t
    <3> QED
      BY <1>1, <3>1, <3>2, RetryOrFailEnds
  <2> QED
    BY <1>9, <2>1, <2>2, <2>3 DEF ReconcileFails
<1>10. CASE ReconcileStopFails(k)
  BY <1>1, <1>2, <1>10, TerminalEnds DEF ReconcileStopFails
<1>11. CASE SnapshotFails(k)
  <2>1. RowOf(k).type \notin LifecycleTypes /\ Cur(k) \in Statuses
    BY <1>1, <1>11, OpenTypes, StatusTypes DEF SnapshotFails, SideTypes
  <2>2. CASE CommitSession(k, "FAILED", Cur(k))
    BY <1>1, <2>1, <2>2, AloneEnds
  <2>3. CASE RetryOrFail(k, Cur(k))
    BY <1>1, <2>1, <2>3, RetryOrFailEnds
  <2> QED
    BY <1>11, <2>2, <2>3 DEF SnapshotFails
<1> QED
  BY <1>1, <1>3, <1>4, <1>5, <1>6, <1>7, <1>8, <1>9, <1>10, <1>11 DEF Outcome

\* So is the end of a reclaimer's session.
LEMMA ReclaimEnds ==
    ASSUME TypeInv, NEW r \in Reclaimers, ReclaimCommit(r)
    PROVE  tx[r] # NoTx /\ EndsSession(r)
<1>1. r \in Agents /\ tx[r] # NoTx
  BY DEF Agents, ReclaimCommit, NoTx
<1> DEFINE t == IF RowOf(r).type \in LifecycleTypes THEN "ERROR" ELSE Cur(r)
<1>2. /\ t \in Statuses
      /\ t \in Settled \/ (t = Cur(r) /\ RowOf(r).type \notin LifecycleTypes)
  BY <1>1, OpenTypes DEF Settled, Statuses
<1>3. RetryOrFail(r, t)
  BY DEF ReclaimCommit
<1> HIDE DEF t
<1> QED
  BY <1>1, <1>2, <1>3, RetryOrFailEnds

\* A commit of a session keeps the state well typed.
LEMMA CommitType ==
    ASSUME TypeInv, NEW k \in Agents, tx[k] # NoTx,
           NEW st \in JobStatuses, NEW new \in Statuses,
           CommitSession(k, st, new)
    PROVE  TypeInv'
<1> DEFINE j == tx[k].job
<1> DEFINE n == IF tx[k].phase \in {"claimed", "placed"} THEN tx[k].att ELSE RowOf(k).attempt
<1>1. /\ j \in JobIds
      /\ jobs[j] \in InsertedRow
      /\ n \in 0 .. MaxAttempts
  BY OpenTypes DEF RowOf
<1>2. jobs \in [JobIds -> InsertedRow \cup {NoRow}]
  BY DEF TypeInv, TypeOK
<1>3. jobs' = [jobs EXCEPT ![j] = WithOutcome(jobs[j], st, n)]
  BY <1>1, <1>2 DEF CommitSession
<1> HIDE DEF n
<1>4. jobs'[j] \in InsertedRow
  BY <1>1, <1>2, <1>3, OutcomeRow
<1>5. \A i \in JobIds : i # j => jobs'[i] = jobs[i]
  BY <1>3 DEF TypeInv, TypeOK
<1>6. jobs' \in [JobIds -> InsertedRow \cup {NoRow}]
  BY <1>1, <1>3, <1>4, <1>5 DEF TypeInv, TypeOK
<1>7. ws' \in [Workspaces -> Statuses]
  BY DEF CommitSession, TypeInv, TypeOK
<1>8. /\ tx' = [tx EXCEPT ![k] = NoTx]
      /\ tx' \in [Agents -> OpenSession \cup {NoTx}]
  BY DEF CommitSession, TypeInv, TypeOK
<1>9. HeldExists'
  <2> SUFFICES ASSUME NEW a \in Agents, tx'[a] # NoTx
               PROVE  jobs'[tx'[a].job] # NoRow
    BY DEF HeldExists
  <2>1. tx'[a] = tx[a] /\ tx[a] # NoTx
    BY <1>8 DEF TypeInv, TypeOK
  <2>2. tx[a].job \in JobIds /\ jobs[tx[a].job] # NoRow
    BY <2>1 DEF TypeInv, TypeOK, HeldExists, OpenSession
  <2> QED
    BY <1>4, <1>5, <2>1, <2>2, NullsApart
<1> QED
  BY <1>6, <1>7, <1>8, <1>9 DEF CommitSession, TypeInv, TypeOK

\* Opening a session on an inserted row keeps the state well typed.
LEMMA OpenType ==
    ASSUME TypeInv, NEW a \in Agents, NEW t \in OpenSession, jobs[t.job] # NoRow,
           tx' = [tx EXCEPT ![a] = t], UNCHANGED <<ws, jobs, req, faults>>
    PROVE  TypeInv'
BY DEF TypeInv, TypeOK, HeldExists

\* Every step keeps the state well typed.
LEMMA TypeStep == TypeInv /\ [Next]_vars => TypeInv'
<1> SUFFICES ASSUME TypeInv, [Next]_vars PROVE TypeInv'
  OBVIOUS
<1> USE JobsAssumption
<1>1. ASSUME NEW h \in Handlers, HandlerStep(h) PROVE TypeInv'
  <2>1. ASSUME NEW w \in Workspaces, NEW t \in IntentTypes, IntentRead(h, w, t)
        PROVE  TypeInv'
    BY <2>1 DEF IntentRead, TypeInv, TypeOK, HeldExists, Request
  <2>2. ASSUME NEW j \in JobIds, IntentCommit(h, j) PROVE TypeInv'
    <3> DEFINE new == [ws |-> req[h].ws, type |-> req[h].type, st |-> "QUEUED",
                       attempt |-> 0, delayed |-> FALSE, expired |-> FALSE]
    <3>1. req[h] \in Request
      BY <2>2 DEF IntentCommit, TypeInv, TypeOK
    <3>2. new \in InsertedRow
      BY <3>1 DEF InsertedRow, Request
    <3>3. jobs' = [jobs EXCEPT ![j] = new]
      BY <2>2 DEF IntentCommit
    <3> HIDE DEF new
    <3>4. jobs' \in [JobIds -> InsertedRow \cup {NoRow}]
      BY <3>2, <3>3 DEF TypeInv, TypeOK
    <3>5. ws' \in [Workspaces -> Statuses]
      <4>1. req[h].type \in LifecycleTypes => IntentStatus(req[h].type) \in Statuses
        BY StatusTypes DEF Statuses
      <4> QED
        BY <2>2, <3>1, <4>1 DEF IntentCommit, TypeInv, TypeOK, Request
    <3>6. HeldExists'
      <4> SUFFICES ASSUME NEW a \in Agents, tx'[a] # NoTx PROVE jobs'[tx'[a].job] # NoRow
        BY DEF HeldExists
      <4>1. tx'[a] = tx[a] /\ tx[a].job \in JobIds /\ jobs[tx[a].job] # NoRow
        BY <2>2 DEF IntentCommit, TypeInv, TypeOK, HeldExists, OpenSession
      <4> QED
        BY <3>2, <3>3, <4>1, NullsApart DEF TypeInv, TypeOK
    <3> QED
      BY <2>2, <3>4, <3>5, <3>6 DEF IntentCommit, TypeInv, TypeOK
  <2>3. ASSUME IntentRefused(h) PROVE TypeInv'
    BY <2>3 DEF IntentRefused, TypeInv, TypeOK, HeldExists
  <2> QED
    BY <1>1, <2>1, <2>2, <2>3 DEF HandlerStep
<1>2. ASSUME NEW k \in Workers, WorkerStep(k) PROVE TypeInv'
  <2> k \in Agents
    BY DEF Agents
  <2>1. ASSUME NEW j \in JobIds, TakeRow(k, j) PROVE TypeInv'
    <3> DEFINE t == [job |-> j, phase |-> "claimed", seen |-> ws[jobs[j].ws],
                     cur |-> ws[jobs[j].ws], att |-> Bump(jobs[j].attempt)]
    <3>1. jobs[j] # NoRow /\ jobs[j] \in InsertedRow
      BY <2>1 DEF TakeRow, Eligible, TypeInv, TypeOK, NoRow
    <3>2. Bump(jobs[j].attempt) \in 0 .. MaxAttempts
      BY <3>1 DEF Bump, InsertedRow
    <3>3. t \in OpenSession
      BY <3>1, <3>2 DEF OpenSession, InsertedRow, TypeInv, TypeOK
    <3>4. tx' = [tx EXCEPT ![k] = t] /\ UNCHANGED <<ws, jobs, req, faults>>
      BY <2>1 DEF TakeRow
    <3>5. t.job = j
      OBVIOUS
    <3> HIDE DEF t
    <3> QED
      BY <3>1, <3>3, <3>4, <3>5, OpenType
  <2>2. ASSUME Place(k) PROVE TypeInv'
    <3>1. tx[k] \in OpenSession
      BY <2>2 DEF Place, Holding, TypeInv, TypeOK, NoTx
    <3> DEFINE c == IF RowOf(k).type = "CREATE" /\ tx[k].cur = "PENDING"
                    THEN "CREATING" ELSE tx[k].cur
    <3>2. c \in Statuses
      BY <3>1 DEF OpenSession, Statuses, Busy
    <3> DEFINE t == [tx[k] EXCEPT !.phase = "placed", !.cur = c]
    <3>3. t \in OpenSession /\ t.job = tx[k].job
      BY <3>1, <3>2 DEF OpenSession
    <3>4. tx' = [tx EXCEPT ![k] = t] /\ UNCHANGED <<ws, jobs, req, faults>>
      BY <2>2, <3>1 DEF Place
    <3>5. jobs[t.job] # NoRow
      BY <3>1, <3>3, NullsApart DEF TypeInv, HeldExists
    <3> HIDE DEF t
    <3> QED
      BY <3>3, <3>4, <3>5, OpenType
  <2>3. ASSUME Publish(k) PROVE TypeInv'
    <3>1. tx[k] # NoTx /\ tx[k] \in OpenSession
      BY <2>3 DEF Publish, Holding, TypeInv, TypeOK, NoTx
    <3> DEFINE j == tx[k].job
    <3> DEFINE t == [tx[k] EXCEPT !.phase = "published", !.seen = tx[k].cur]
    <3>2. /\ j \in JobIds
          /\ jobs[j] \in InsertedRow
          /\ tx[k].att \in 0 .. MaxAttempts
          /\ tx[k].cur \in Statuses
      BY <3>1, OpenTypes DEF RowOf, OpenSession
    <3>3. t \in OpenSession /\ t.job = j
      BY <3>1, <3>2 DEF OpenSession
    <3>4. /\ tx' = [tx EXCEPT ![k] = t]
          /\ jobs' = [jobs EXCEPT ![j] = WithOutcome(jobs[j], "RUNNING", tx[k].att)]
      BY <2>3, <3>1, <3>2 DEF Publish, TypeInv, TypeOK
    <3>5. jobs' \in [JobIds -> InsertedRow \cup {NoRow}] /\ jobs'[j] \in InsertedRow
      BY <3>2, <3>4, OutcomeRow DEF TypeInv, TypeOK, JobStatuses
    <3>6. ws' \in [Workspaces -> Statuses]
      BY <2>3, <3>2 DEF Publish, TypeInv, TypeOK
    <3> HIDE DEF t
    <3>7. HeldExists'
      <4> SUFFICES ASSUME NEW a \in Agents, tx'[a] # NoTx PROVE jobs'[tx'[a].job] # NoRow
        BY DEF HeldExists
      <4>1. CASE a = k
        BY <4>1, <3>3, <3>4, <3>5, NullsApart DEF TypeInv, TypeOK
      <4>2. CASE a # k
        <5>1. tx'[a] = tx[a] /\ tx[a].job \in JobIds /\ jobs[tx[a].job] # NoRow
          BY <4>2, <3>4 DEF TypeInv, TypeOK, HeldExists, OpenSession
        <5> QED
          BY <3>2, <3>4, <3>5, <5>1, NullsApart DEF TypeInv, TypeOK
      <4> QED
        BY <4>1, <4>2
    <3>8. tx' \in [Agents -> OpenSession \cup {NoTx}]
      BY <3>3, <3>4 DEF TypeInv, TypeOK
    <3>9. UNCHANGED <<req, faults>>
      BY <2>3 DEF Publish
    <3> QED
      BY <3>5, <3>6, <3>7, <3>8, <3>9 DEF TypeInv, TypeOK
  <2>4. ASSUME LoseClaim(k) PROVE TypeInv'
    <3>1. tx[k] \in OpenSession
      BY <2>4 DEF LoseClaim, Holding, TypeInv, TypeOK, NoTx
    <3> DEFINE t == [tx[k] EXCEPT !.phase = "lost"]
    <3>3. t \in OpenSession /\ t.job = tx[k].job
      BY <3>1 DEF OpenSession
    <3>4. tx' = [tx EXCEPT ![k] = t] /\ UNCHANGED <<ws, jobs, req>>
      BY <2>4, <3>1 DEF LoseClaim
    <3>5. faults' \in 0 .. MaxFaults
      BY <2>4, JobsAssumption DEF LoseClaim, TypeInv, TypeOK
    <3>6. jobs[t.job] # NoRow
      BY <3>1, <3>3, NullsApart DEF TypeInv, HeldExists
    <3> HIDE DEF t
    <3> QED
      BY <3>3, <3>4, <3>5, <3>6 DEF TypeInv, TypeOK, HeldExists
  <2>5. ASSUME Outcome(k) PROVE TypeInv'
    BY <2>5, OutcomeEnds, CommitType DEF EndsSession
  <2>6. ASSUME Crash(k) \/ ImportRaises(k) PROVE TypeInv'
    BY <2>6 DEF Crash, ImportRaises, TypeInv, TypeOK, HeldExists
  <2> QED
    BY <1>2, <2>1, <2>2, <2>3, <2>4, <2>5, <2>6 DEF WorkerStep, ClaimNext, ClaimById
<1>3. ASSUME NEW r \in Reclaimers, ReclaimStep(r) PROVE TypeInv'
  <2> r \in Agents
    BY DEF Agents
  <2>1. ASSUME NEW j \in JobIds, ReclaimRead(r, j) PROVE TypeInv'
    <3> DEFINE t == [job |-> j, phase |-> "published", seen |-> ws[jobs[j].ws],
                     cur |-> ws[jobs[j].ws], att |-> jobs[j].attempt]
    <3>1. jobs[j] # NoRow /\ jobs[j] \in InsertedRow
      BY <2>1 DEF ReclaimRead, TypeInv, TypeOK, NoRow
    <3>2. t \in OpenSession
      BY <3>1 DEF OpenSession, InsertedRow, TypeInv, TypeOK
    <3>3. tx' = [tx EXCEPT ![r] = t] /\ UNCHANGED <<ws, jobs, req, faults>>
      BY <2>1 DEF ReclaimRead
    <3>4. t.job = j
      OBVIOUS
    <3> HIDE DEF t
    <3> QED
      BY <3>1, <3>2, <3>3, <3>4, OpenType
  <2>2. ASSUME ReclaimCommit(r) PROVE TypeInv'
    BY <2>2, ReclaimEnds, CommitType DEF EndsSession
  <2> QED
    BY <1>3, <2>1, <2>2 DEF ReclaimStep
<1>4. ASSUME NEW j \in JobIds, TimeStep(j) PROVE TypeInv'
  <2>1. jobs[j] \in InsertedRow
    BY <1>4 DEF TimeStep, BackoffElapses, CapacityWindowElapses, Active, TypeInv, TypeOK, NoRow
  <2>2. PICK row \in InsertedRow : jobs' = [jobs EXCEPT ![j] = row]
    <3>1. [jobs[j] EXCEPT !.delayed = FALSE] \in InsertedRow
      BY <2>1 DEF InsertedRow
    <3>2. [jobs[j] EXCEPT !.expired = TRUE] \in InsertedRow
      BY <2>1 DEF InsertedRow
    <3> QED
      BY <1>4, <3>1, <3>2 DEF TimeStep, BackoffElapses, CapacityWindowElapses
  <2>3. UNCHANGED <<ws, req, tx, faults>>
    BY <1>4 DEF TimeStep, BackoffElapses, CapacityWindowElapses
  <2>4. jobs' \in [JobIds -> InsertedRow \cup {NoRow}]
    BY <2>2 DEF TypeInv, TypeOK
  <2>5. HeldExists'
    <3> SUFFICES ASSUME NEW a \in Agents, tx[a] # NoTx PROVE jobs'[tx[a].job] # NoRow
      BY <2>3 DEF HeldExists
    <3>1. tx[a].job \in JobIds /\ jobs[tx[a].job] # NoRow
      BY DEF TypeInv, TypeOK, HeldExists, OpenSession
    <3> QED
      BY <2>2, <3>1, NullsApart DEF TypeInv, TypeOK
  <2> QED
    BY <2>3, <2>4, <2>5 DEF TypeInv, TypeOK
<1>5. CASE UNCHANGED vars
  BY <1>5 DEF vars, TypeInv, TypeOK, HeldExists
<1> QED
  BY <1>1, <1>2, <1>3, <1>4, <1>5 DEF Next

\* The empty database is well typed.
LEMMA TypeInit == Init => TypeInv
BY JobsAssumption DEF Init, TypeInv, TypeOK, HeldExists, Statuses

\* The state of the control plane is always well typed, whatever processes
\* overrun, conflict or crash.
THEOREM Typing == Spec => []TypeOK
<1>1. Init => TypeInv
  BY TypeInit
<1>2. TypeInv /\ [Next]_vars => TypeInv'
  BY TypeStep
<1>3. TypeInv => TypeOK
  BY DEF TypeInv
<1> QED
  BY <1>1, <1>2, <1>3, PTL DEF Spec

-----------------------------------------------------------------------------
(* Jobs, holders and busy workspaces *)

\* The settled statuses and the busy ones do not overlap.
LEMMA StatusApart ==
    /\ Busy \cap Settled = {}
    /\ NodeWaitTypes \subseteq LifecycleTypes
    /\ "CREATE" \in LifecycleTypes
    /\ "RECONCILE_RUNTIME" \notin LifecycleTypes
    /\ "CREATING" \in Busy
BY DEF Busy, Settled, NodeWaitTypes, LifecycleTypes

\* An agent with a job number has an open session on an inserted row.
LEMMA HolderTypes ==
    ASSUME TypeInv, NEW a \in Agents
    PROVE  /\ tx[a].job # 0 <=> tx[a] # NoTx
           /\ tx[a].phase # "idle" <=> tx[a] # NoTx
           /\ tx[a].job \in JobIds \cup {0}
BY JobsAssumption DEF TypeInv, TypeOK, OpenSession, NoTx, JobIds

\* An agent that ends its session leaves what the others rely on intact.
LEMMA CommitQueue ==
    ASSUME TypeInv, QueueInv, NEW k \in Agents, tx[k] # NoTx, EndsSession(k)
    PROVE  QueueInv'
<1>1. PICK st \in JobStatuses, new \in Statuses :
          CommitSession(k, st, new) /\ AllowedOutcome(k, st, new)
  BY DEF EndsSession
<1>j. PICK j \in JobIds : j = tx[k].job
  BY OpenTypes
<1>w. PICK w \in Workspaces : w = RowOf(k).ws
  BY OpenTypes
<1> DEFINE n == IF tx[k].phase \in {"claimed", "placed"} THEN tx[k].att ELSE RowOf(k).attempt
<1>2. /\ j # 0 /\ j = tx[k].job /\ w = RowOf(k).ws
      /\ jobs[j] \in InsertedRow /\ n \in 0 .. MaxAttempts
      /\ tx[k].phase # "idle"
      /\ Cur(k) = IF tx[k].phase = "lost" THEN ws[w] ELSE tx[k].cur
  BY <1>j, <1>w, OpenTypes, HolderTypes DEF RowOf, Cur
<1>3. /\ jobs' = [jobs EXCEPT ![j] = WithOutcome(jobs[j], st, n)]
      /\ tx' = [tx EXCEPT ![k] = NoTx]
      /\ ws' = [ws EXCEPT ![w] = IF tx[k].phase # "lost" /\ new = tx[k].seen THEN ws[w] ELSE new]
  BY <1>1, <1>2 DEF CommitSession, TypeInv, TypeOK
<1> HIDE DEF n
<1>4. /\ jobs'[j].ws = w
      /\ jobs'[j].type = RowOf(k).type
      /\ jobs'[j].st = st
      /\ \A i \in JobIds : i # j => jobs'[i] = jobs[i]
  BY <1>2, <1>3, OutcomeRow DEF TypeInv, TypeOK, RowOf
<1>5. /\ tx'[k] = NoTx
      /\ \A a \in Agents : a # k => tx'[a] = tx[a] /\ tx[a].job # j
  BY <1>2, <1>3 DEF TypeInv, TypeOK, QueueInv, OneHolder
<1>6. NoTx.job = 0 /\ NoTx.phase = "idle"
  BY DEF NoTx
<1>7. OneHolder'
  BY <1>5, <1>6 DEF QueueInv, OneHolder
<1>8. \A a \in Agents : a # k /\ tx[a].phase # "idle" => RowOf(a)' = RowOf(a)
  BY <1>4, <1>5, HolderTypes DEF RowOf
<1>9. HeldRowMatches' /\ SessionStatus'
  BY <1>5, <1>6, <1>8 DEF QueueInv, HeldRowMatches, SessionStatus
<1>10. BusyIsGuarded'
  <2> SUFFICES ASSUME NEW v \in Workspaces, ws'[v] \in Busy
               PROVE  \E i \in JobIds : Guards(i, v)'
    BY DEF BusyIsGuarded
  <2>1. ASSUME st = "QUEUED", RowOf(k).type \in LifecycleTypes PROVE Guards(j, w)'
    BY <1>2, <1>4, <1>5, <1>6, <2>1 DEF Guards, Active
  <2>2. ASSUME NEW i \in JobIds, i # j, Guards(i, v) PROVE Guards(i, v)'
    <3>1. i # 0
      BY JobsAssumption DEF JobIds
    <3> QED
      BY <1>4, <1>5, <1>6, <2>2, <3>1 DEF Guards, Active
  <2>3. CASE ws'[v] = ws[v]
    <3>1. PICK i \in JobIds : Guards(i, v)
      BY <2>3 DEF QueueInv, BusyIsGuarded
    <3>2. CASE i # j
      BY <2>2, <3>1, <3>2
    <3>3. CASE i = j
      <4>1. v = w /\ RowOf(k).type \in LifecycleTypes /\ tx[k].seen \in Busy
        BY <1>2, <3>1, <3>3 DEF Guards, RowOf
      <4>2. ~(new \in Settled)
        BY <1>2, <1>3, <4>1, StatusApart DEF TypeInv, TypeOK
      <4>3. st = "QUEUED"
        BY <1>1, <4>1, <4>2 DEF AllowedOutcome
      <4> QED
        BY <1>2, <2>1, <4>1, <4>3
    <3> QED
      BY <3>2, <3>3
  <2>4. CASE ws'[v] # ws[v]
    <3>1. v = w /\ ws'[v] = new /\ (tx[k].phase = "lost" \/ new # tx[k].seen)
      BY <1>2, <1>3, <2>4 DEF TypeInv, TypeOK
    <3>2. new \notin Settled
      BY <3>1, StatusApart
    <3>3. new = Cur(k) => RowOf(k).type = "CREATE"
      BY <1>2, <2>4, <3>1 DEF QueueInv, SessionStatus
    <3>4. st = "QUEUED" /\ RowOf(k).type \in LifecycleTypes
      BY <1>1, <3>2, <3>3, StatusApart DEF AllowedOutcome
    <3> QED
      BY <1>2, <2>1, <3>1, <3>4
  <2> QED
    BY <2>3, <2>4
<1> QED
  BY <1>7, <1>9, <1>10 DEF QueueInv

\* A session opened on a free row, with the status it has just read.
LEMMA OpenQueue ==
    ASSUME TypeInv, QueueInv, NEW a \in Agents, NEW j \in JobIds, NEW t \in OpenSession,
           jobs[j] \in InsertedRow, \A b \in Agents : tx[b].job # j,
           t.job = j, t.seen = ws[jobs[j].ws], t.cur = t.seen, t.phase # "lost",
           t.phase \in {"claimed", "placed"} => jobs[j].st = "QUEUED",
           t.phase = "published" => jobs[j].st = "RUNNING",
           tx' = [tx EXCEPT ![a] = t], UNCHANGED <<ws, jobs, req, faults>>
    PROVE  QueueInv'
<1>1. /\ tx'[a] = t
      /\ \A b \in Agents : b # a => tx'[b] = tx[b]
  BY DEF TypeInv, TypeOK
<1>2. OneHolder'
  BY <1>1 DEF QueueInv, OneHolder
<1>3. HeldRowMatches' /\ SessionStatus'
  BY <1>1 DEF QueueInv, HeldRowMatches, SessionStatus, RowOf
<1>4. BusyIsGuarded'
  <2> SUFFICES ASSUME NEW v \in Workspaces, ws[v] \in Busy
               PROVE  \E i \in JobIds : Guards(i, v)'
    BY DEF BusyIsGuarded
  <2>1. PICK i \in JobIds : Guards(i, v)
    BY DEF QueueInv, BusyIsGuarded
  <2>2. Guards(i, v)'
    BY <1>1, <2>1 DEF Guards, Active
  <2> QED
    BY <2>2
<1> QED
  BY <1>2, <1>3, <1>4 DEF QueueInv

\* Steps that neither change a status nor a holder nor a row's identity.
LEMMA FrameQueue ==
    ASSUME TypeInv, QueueInv, UNCHANGED ws,
           \A a \in Agents : /\ tx'[a].job \in {tx[a].job, 0}
                             /\ tx'[a].job # 0 => tx'[a] = tx[a]
                             /\ tx'[a].job = 0 <=> tx'[a].phase = "idle",
           \A j \in JobIds : /\ jobs'[j].ws = jobs[j].ws
                             /\ jobs'[j].type = jobs[j].type
                             /\ jobs'[j].st = jobs[j].st
    PROVE  QueueInv'
<1>1. \A a \in Agents : tx'[a].job # 0 => tx[a].job \in JobIds
  BY HolderTypes
<1>2. OneHolder'
  BY DEF QueueInv, OneHolder
<1>3. HeldRowMatches' /\ SessionStatus'
  BY <1>1 DEF QueueInv, HeldRowMatches, SessionStatus, RowOf
<1>4. BusyIsGuarded'
  <2> SUFFICES ASSUME NEW v \in Workspaces, ws[v] \in Busy
               PROVE  \E i \in JobIds : Guards(i, v)'
    BY DEF BusyIsGuarded
  <2>1. PICK i \in JobIds : Guards(i, v)
    BY DEF QueueInv, BusyIsGuarded
  <2>2. i # 0
    BY JobsAssumption DEF JobIds
  <2>3. Guards(i, v)'
    BY <2>1, <2>2 DEF Guards, Active
  <2> QED
    BY <2>3
<1> QED
  BY <1>2, <1>3, <1>4 DEF QueueInv

\* A new row guards the busy status its intent sets.
LEMMA IntentQueue ==
    ASSUME TypeInv, QueueInv, NEW h \in Handlers, NEW j \in JobIds, IntentCommit(h, j)
    PROVE  QueueInv'
<1> DEFINE new == [ws |-> req[h].ws, type |-> req[h].type, st |-> "QUEUED",
                   attempt |-> 0, delayed |-> FALSE, expired |-> FALSE]
<1>1. /\ req[h] \in Request /\ jobs[j].st = "FREE"
      /\ jobs' = [jobs EXCEPT ![j] = new] /\ tx' = tx
  BY DEF IntentCommit, NextId, TypeInv, TypeOK
<1>2. /\ jobs'[j] = new
      /\ \A i \in JobIds : i # j => jobs'[i] = jobs[i]
  BY <1>1 DEF TypeInv, TypeOK
<1>3. \A a \in Agents : tx[a].job # j
  <2> SUFFICES ASSUME NEW a \in Agents, tx[a].job = j PROVE FALSE
    OBVIOUS
  <2>1. tx[a] # NoTx
    BY HolderTypes, JobsAssumption DEF JobIds
  <2>2. RowOf(a) \in InsertedRow
    BY <2>1, OpenTypes
  <2> QED
    BY <1>1, <2>2 DEF RowOf, InsertedRow
<1>4. OneHolder'
  BY <1>1 DEF QueueInv, OneHolder
<1>5. \A a \in Agents : tx[a].phase # "idle" => RowOf(a)' = RowOf(a)
  BY <1>1, <1>2, <1>3, HolderTypes DEF RowOf
<1>6. HeldRowMatches' /\ SessionStatus'
  BY <1>1, <1>5 DEF QueueInv, HeldRowMatches, SessionStatus
<1>7. BusyIsGuarded'
  <2> SUFFICES ASSUME NEW v \in Workspaces, ws'[v] \in Busy
               PROVE  \E i \in JobIds : Guards(i, v)'
    BY DEF BusyIsGuarded
  <2>1. CASE v = req[h].ws /\ req[h].type \in LifecycleTypes
    <3>1. Guards(j, v)'
      BY <1>1, <1>2, <1>3, <2>1 DEF Guards, Active
    <3> QED
      BY <3>1
  <2>2. CASE ~(v = req[h].ws /\ req[h].type \in LifecycleTypes)
    <3>1. ws'[v] = ws[v]
      BY <2>2 DEF IntentCommit, TypeInv, TypeOK
    <3>2. PICK i \in JobIds : Guards(i, v)
      BY <3>1 DEF QueueInv, BusyIsGuarded
    <3>3. i # j
      BY <1>1, <3>2 DEF Guards, Active
    <3>4. Guards(i, v)'
      BY <1>1, <1>2, <3>2, <3>3 DEF Guards, Active
    <3> QED
      BY <3>4
  <2> QED
    BY <2>1, <2>2
<1> QED
  BY <1>4, <1>6, <1>7 DEF QueueInv

\* Place keeps the inductive invariant: only the session of its worker changes.
LEMMA PlaceQueue ==
    ASSUME TypeInv, QueueInv, NEW k \in Workers, Place(k)
    PROVE  QueueInv'
<1>1. /\ k \in Agents /\ tx[k].phase = "claimed" /\ tx[k] \in OpenSession
      /\ UNCHANGED <<ws, jobs>>
  BY DEF Agents, Place, Holding, TypeInv, TypeOK, NoTx
<1>2. /\ tx'[k].job = tx[k].job /\ tx'[k].seen = tx[k].seen /\ tx'[k].phase = "placed"
      /\ \/ tx'[k].cur = tx[k].cur
         \/ tx'[k].cur = "CREATING" /\ RowOf(k).type = "CREATE"
      /\ \A a \in Agents : a # k => tx'[a] = tx[a]
  BY <1>1 DEF Place, TypeInv, TypeOK, OpenSession
<1>3. tx[k].cur = tx[k].seen
  BY <1>1 DEF QueueInv, SessionStatus
<1>4. \A a \in Agents : /\ tx'[a].job = tx[a].job
                        /\ tx'[a].seen = tx[a].seen
                        /\ RowOf(a)' = RowOf(a)
  BY <1>1, <1>2 DEF RowOf
<1>5. OneHolder'
  BY <1>4 DEF QueueInv, OneHolder
<1>6. HeldRowMatches' /\ SessionStatus'
  BY <1>1, <1>2, <1>3, <1>4 DEF QueueInv, HeldRowMatches, SessionStatus
<1>7. BusyIsGuarded'
  BY <1>1, <1>4 DEF QueueInv, BusyIsGuarded, Guards, Active
<1> QED
  BY <1>5, <1>6, <1>7 DEF QueueInv

\* Publish keeps the inductive invariant: the row stays guarded by the same holder.
LEMMA PublishQueue ==
    ASSUME TypeInv, QueueInv, NEW k \in Workers, Publish(k)
    PROVE  QueueInv'
<1>1. /\ k \in Agents /\ tx[k].phase = "placed" /\ tx[k] # NoTx /\ tx[k] \in OpenSession
  BY DEF Agents, Publish, Holding, TypeInv, TypeOK, NoTx
<1>j. PICK j \in JobIds : j = tx[k].job
  BY <1>1, OpenTypes
<1>w. PICK w \in Workspaces : w = RowOf(k).ws
  BY <1>1, OpenTypes
<1>2. /\ j # 0 /\ j = tx[k].job /\ w = RowOf(k).ws /\ jobs[j] \in InsertedRow
      /\ tx[k].att \in 0 .. MaxAttempts
  BY <1>1, <1>j, <1>w, OpenTypes, HolderTypes DEF RowOf
<1>3. /\ jobs' = [jobs EXCEPT ![j] = WithOutcome(jobs[j], "RUNNING", tx[k].att)]
      /\ ws' = [ws EXCEPT ![w] = IF tx[k].cur = tx[k].seen THEN ws[w] ELSE tx[k].cur]
  BY <1>2 DEF Publish, TypeInv, TypeOK
<1>4. /\ tx'[k].job = j /\ tx'[k].seen = tx[k].cur /\ tx'[k].cur = tx[k].cur
      /\ tx'[k].phase = "published"
      /\ \A a \in Agents : a # k => tx'[a] = tx[a] /\ tx[a].job # j
  <2>1. tx' = [tx EXCEPT ![k] = [tx[k] EXCEPT !.phase = "published", !.seen = tx[k].cur]]
    BY <1>1 DEF Publish, TypeInv, TypeOK
  <2> QED
    BY <1>1, <1>2, <2>1 DEF OpenSession, TypeInv, TypeOK, QueueInv, OneHolder
<1>5. /\ jobs'[j].ws = w /\ jobs'[j].type = RowOf(k).type /\ jobs'[j].st = "RUNNING"
      /\ \A i \in JobIds : i # j => jobs'[i] = jobs[i]
  <2>1. PICK n \in 0 .. MaxAttempts : n = tx[k].att
    BY <1>2
  <2>2. "RUNNING" \in JobStatuses
    BY DEF JobStatuses
  <2>3. /\ jobs'[j] = WithOutcome(jobs[j], "RUNNING", n)
        /\ \A i \in JobIds : i # j => jobs'[i] = jobs[i]
    BY <1>3, <2>1 DEF TypeInv, TypeOK
  <2>4. /\ WithOutcome(jobs[j], "RUNNING", n).ws = jobs[j].ws
        /\ WithOutcome(jobs[j], "RUNNING", n).type = jobs[j].type
        /\ WithOutcome(jobs[j], "RUNNING", n).st = "RUNNING"
    BY <1>2, <2>2, OutcomeRow
  <2> QED
    BY <1>2, <2>3, <2>4 DEF RowOf
<1>6. OneHolder'
  BY <1>2, <1>4 DEF QueueInv, OneHolder
<1>7. \A a \in Agents : a # k /\ tx[a].phase # "idle" => RowOf(a)' = RowOf(a)
  BY <1>4, <1>5, HolderTypes DEF RowOf
<1>8. HeldRowMatches' /\ SessionStatus'
  BY <1>4, <1>5, <1>7 DEF QueueInv, HeldRowMatches, SessionStatus, RowOf
<1>9. BusyIsGuarded'
  <2> SUFFICES ASSUME NEW v \in Workspaces, ws'[v] \in Busy
               PROVE  \E i \in JobIds : Guards(i, v)'
    BY DEF BusyIsGuarded
  <2>1. CASE tx[k].cur = tx[k].seen
    <3>1. ws'[v] = ws[v]
      BY <1>3, <2>1 DEF TypeInv, TypeOK
    <3>2. PICK i \in JobIds : Guards(i, v)
      BY <3>1 DEF QueueInv, BusyIsGuarded
    <3>3. /\ jobs'[i].ws = jobs[i].ws /\ jobs'[i].type = jobs[i].type
          /\ Active(i)'
      BY <1>2, <1>5, <3>2 DEF Guards, Active, RowOf
    <3>4. \A a \in Agents : tx'[a].job = tx[a].job /\ tx'[a].seen = tx[a].seen
      BY <1>2, <1>4, <2>1
    <3>5. Guards(i, v)'
      BY <3>2, <3>3, <3>4 DEF Guards
    <3> QED
      BY <3>5
  <2>2. CASE tx[k].cur # tx[k].seen
    <3>1. tx[k].cur = "CREATING" /\ RowOf(k).type = "CREATE"
      BY <1>1, <2>2 DEF QueueInv, SessionStatus
    <3>2. Guards(j, w)'
      BY <1>4, <1>5, <3>1, StatusApart DEF Guards, Active
    <3>3. CASE v = w
      BY <3>2, <3>3
    <3>4. CASE v # w
      <4>1. ws'[v] = ws[v]
        BY <1>3, <3>4 DEF TypeInv, TypeOK
      <4>2. PICK i \in JobIds : Guards(i, v)
        BY <4>1 DEF QueueInv, BusyIsGuarded
      <4>3. i # j
        BY <1>2, <3>4, <4>2 DEF Guards, RowOf
      <4>4. Guards(i, v)'
        BY <1>4, <1>5, <4>2, <4>3 DEF Guards, Active
      <4> QED
        BY <4>4
    <3> QED
      BY <3>3, <3>4
  <2> QED
    BY <2>1, <2>2
<1> QED
  BY <1>6, <1>8, <1>9 DEF QueueInv

\* LoseClaim keeps the inductive invariant: the row is as QUEUED as it was.
LEMMA LoseQueue ==
    ASSUME TypeInv, QueueInv, NEW k \in Workers, LoseClaim(k)
    PROVE  QueueInv'
<1>1. /\ k \in Agents /\ tx[k].phase = "placed" /\ tx[k] \in OpenSession
      /\ MayConflict /\ UNCHANGED <<ws, jobs>>
  BY DEF Agents, LoseClaim, Holding, TypeInv, TypeOK, NoTx
<1>2. /\ tx'[k].job = tx[k].job /\ tx'[k].seen = tx[k].seen /\ tx'[k].phase = "lost"
      /\ \A a \in Agents : a # k => tx'[a] = tx[a]
  BY <1>1 DEF LoseClaim, TypeInv, TypeOK, OpenSession
<1>3. \A a \in Agents : /\ tx'[a].job = tx[a].job
                        /\ tx'[a].seen = tx[a].seen
                        /\ RowOf(a)' = RowOf(a)
  BY <1>1, <1>2 DEF RowOf
<1>4. OneHolder'
  BY <1>3 DEF QueueInv, OneHolder
<1>5. HeldRowMatches' /\ SessionStatus'
  BY <1>1, <1>2, <1>3 DEF QueueInv, HeldRowMatches, SessionStatus
<1>6. BusyIsGuarded'
  BY <1>1, <1>3 DEF QueueInv, BusyIsGuarded, Guards, Active
<1> QED
  BY <1>4, <1>5, <1>6 DEF QueueInv

\* Every step keeps the queue invariant, as long as no held job is reclaimed and
\* no claim is rolled back with another worker there to take the row.
LEMMA QueueStep ==
    ASSUME TypeInv, QueueInv, Undisputed, [Next]_vars
    PROVE  QueueInv'
<1>0. NoTx.job = 0 /\ NoTx.phase = "idle"
  BY DEF NoTx
<1>h. \A a \in Agents : tx[a].job = 0 <=> tx[a].phase = "idle"
  BY HolderTypes
<1>1. ASSUME NEW h \in Handlers, HandlerStep(h) PROVE QueueInv'
  <2>1. CASE \E j \in JobIds : IntentCommit(h, j)
    BY <2>1, IntentQueue
  <2>2. CASE UNCHANGED <<ws, jobs, tx>>
    BY <2>2, <1>h, FrameQueue
  <2> QED
    BY <1>1, <2>1, <2>2 DEF HandlerStep, IntentRead, IntentRefused
<1>2. ASSUME NEW k \in Workers, WorkerStep(k) PROVE QueueInv'
  <2> k \in Agents
    BY DEF Agents
  <2>1. ASSUME NEW j \in JobIds, TakeRow(k, j) PROVE QueueInv'
    <3> DEFINE t == [job |-> j, phase |-> "claimed", seen |-> ws[jobs[j].ws],
                     cur |-> ws[jobs[j].ws], att |-> Bump(jobs[j].attempt)]
    <3>1. jobs[j].st = "QUEUED" /\ jobs[j] \in InsertedRow
      BY <2>1 DEF TakeRow, Eligible, TypeInv, TypeOK, NoRow
    <3>2. t \in OpenSession
      BY <3>1, JobsAssumption DEF OpenSession, InsertedRow, Bump, TypeInv, TypeOK
    <3>3. \A b \in Agents : tx[b].job # j
      <4> SUFFICES ASSUME NEW b \in Agents, tx[b].job = j PROVE FALSE
        OBVIOUS
      <4>1. tx[b] # NoTx /\ tx[b] \in OpenSession
        BY JobsAssumption, <1>0 DEF JobIds, TypeInv, TypeOK
      <4>2. tx[b].phase \notin {"claimed", "placed"}
        BY <2>1 DEF TakeRow, Eligible, Locked
      <4>3. tx[b].phase = "published" => jobs[j].st = "RUNNING"
        BY DEF QueueInv, HeldRowMatches, RowOf
      <4>4. tx[b].phase # "lost"
        <5>1. tx[b].phase = "lost" => b = k
          BY DEF QueueInv, HeldRowMatches, Undisputed
        <5>2. tx[k] = NoTx
          BY <2>1 DEF TakeRow
        <5> QED
          BY <4>1, <5>1, <5>2
      <4> QED
        BY <3>1, <4>1, <4>2, <4>3, <4>4 DEF OpenSession
    <3>4. tx' = [tx EXCEPT ![k] = t] /\ UNCHANGED <<ws, jobs, req, faults>>
      BY <2>1 DEF TakeRow
    <3>5. t.job = j /\ t.seen = ws[jobs[j].ws] /\ t.cur = t.seen /\ t.phase = "claimed"
      OBVIOUS
    <3> HIDE DEF t
    <3> QED
      BY <3>1, <3>2, <3>3, <3>4, <3>5, OpenQueue
  <2>2. ASSUME Outcome(k) PROVE QueueInv'
    BY <2>2, OutcomeEnds, CommitQueue
  <2>3. ASSUME Crash(k) \/ ImportRaises(k) PROVE QueueInv'
    <3>1. UNCHANGED <<ws, jobs>>
      BY <2>3 DEF Crash, ImportRaises
    <3>2. tx'[k] = NoTx /\ \A a \in Agents : a # k => tx'[a] = tx[a]
      BY <2>3 DEF Crash, ImportRaises, TypeInv, TypeOK
    <3> QED
      BY <1>0, <1>h, <3>1, <3>2, FrameQueue
  <2> QED
    BY <1>2, <2>1, <2>2, <2>3, PlaceQueue, PublishQueue, LoseQueue
       DEF WorkerStep, ClaimNext, ClaimById
<1>3. ASSUME NEW r \in Reclaimers, ReclaimStep(r) PROVE QueueInv'
  <2> r \in Agents
    BY DEF Agents
  <2>1. ASSUME NEW j \in JobIds, ReclaimRead(r, j) PROVE QueueInv'
    <3> DEFINE t == [job |-> j, phase |-> "published", seen |-> ws[jobs[j].ws],
                     cur |-> ws[jobs[j].ws], att |-> jobs[j].attempt]
    <3>1. jobs[j].st = "RUNNING" /\ jobs[j] \in InsertedRow
      BY <2>1 DEF ReclaimRead, TypeInv, TypeOK, NoRow
    <3>2. t \in OpenSession
      BY <3>1 DEF OpenSession, InsertedRow, TypeInv, TypeOK
    <3>3. \A b \in Agents : tx[b].job # j
      BY <2>1 DEF ReclaimRead, Undisputed
    <3>4. tx' = [tx EXCEPT ![r] = t] /\ UNCHANGED <<ws, jobs, req, faults>>
      BY <2>1 DEF ReclaimRead
    <3>5. t.job = j /\ t.seen = ws[jobs[j].ws] /\ t.cur = t.seen /\ t.phase = "published"
      OBVIOUS
    <3> HIDE DEF t
    <3> QED
      BY <3>1, <3>2, <3>3, <3>4, <3>5, OpenQueue
  <2>2. ASSUME ReclaimCommit(r) PROVE QueueInv'
    BY <2>2, ReclaimEnds, CommitQueue
  <2> QED
    BY <1>3, <2>1, <2>2 DEF ReclaimStep
<1>4. ASSUME NEW i \in JobIds, TimeStep(i) PROVE QueueInv'
  <2>1. UNCHANGED <<ws, tx>>
    BY <1>4 DEF TimeStep, BackoffElapses, CapacityWindowElapses
  <2>2. \A j \in JobIds : /\ jobs'[j].ws = jobs[j].ws
                          /\ jobs'[j].type = jobs[j].type
                          /\ jobs'[j].st = jobs[j].st
    BY <1>4 DEF TimeStep, BackoffElapses, CapacityWindowElapses, TypeInv, TypeOK,
       InsertedRow, NoRow
  <2> QED
    BY <1>h, <2>1, <2>2, FrameQueue
<1>5. CASE UNCHANGED vars
  <2>1. UNCHANGED <<ws, jobs, tx>>
    BY <1>5 DEF vars
  <2> QED
    BY <1>h, <2>1, FrameQueue
<1> QED
  BY <1>1, <1>2, <1>3, <1>4, <1>5 DEF Next

\* The inductive invariant holds in the empty database.
LEMMA QueueInit == Init => QueueInv
<1> SUFFICES ASSUME Init PROVE QueueInv
  OBVIOUS
<1>1. /\ \A a \in Agents : tx[a].job = 0 /\ tx[a].phase = "idle"
      /\ \A w \in Workspaces : ws[w] = "ABSENT"
  BY DEF Init, NoTx
<1>2. "ABSENT" \notin Busy
  BY DEF Busy
<1> QED
  BY <1>1, <1>2 DEF QueueInv, OneHolder, HeldRowMatches, SessionStatus, BusyIsGuarded

\* The queue invariant holds for any number of workspaces, handlers, workers and
\* reclaimers, crashes included, and for a single worker whose claims the topology
\* adapter rolls back (db_topology_adapter).
THEOREM QueueSafety ==
    Undisputed => (Spec => [](TypeInv /\ QueueInv))
<1> SUFFICES ASSUME Undisputed
             PROVE  Spec => [](TypeInv /\ QueueInv)
  OBVIOUS
<1>1. Init => TypeInv /\ QueueInv
  BY TypeInit, QueueInit
<1>2. TypeInv /\ QueueInv /\ [Next]_vars => (TypeInv /\ QueueInv)'
  BY TypeStep, QueueStep
<1> QED
  BY <1>1, <1>2, PTL DEF Spec

-----------------------------------------------------------------------------
(* What the queue invariant is for *)

\* A workspace in a transitional status has a pending lifecycle job, for any
\* number of workspaces, handlers, workers and reclaimers.
THEOREM BusyHasJobAlways ==
    Undisputed => (Spec => []BusyHasJob)
<1>1. TypeInv /\ QueueInv => BusyHasJob
  BY DEF QueueInv, BusyIsGuarded, Guards, BusyHasJob
<1> QED
  BY <1>1, QueueSafety, PTL

\* A job is executed by one worker at a time.
THEOREM NoDoubleExecutionAlways ==
    Undisputed => (Spec => []NoDoubleExecution)
<1>1. TypeInv /\ QueueInv => NoDoubleExecution
  BY DEF QueueInv, OneHolder, NoDoubleExecution, Agents
<1> QED
  BY <1>1, QueueSafety, PTL

\* A session holds a row that is still pending, so what it commits never
\* replaces a final outcome.
LEMMA FinishedStep ==
    ASSUME TypeInv, QueueInv, Next, NEW j \in JobIds,
           jobs[j].st \in {"SUCCEEDED", "FAILED"}
    PROVE  jobs'[j].st = jobs[j].st
<1>1. ASSUME NEW a \in Agents, tx[a] # NoTx
      PROVE  tx[a].job # j
  <2>1. RowOf(a).st \in {"QUEUED", "RUNNING"}
    BY <1>1 DEF QueueInv, HeldRowMatches, TypeInv, TypeOK, OpenSession
  <2> QED
    BY <2>1 DEF RowOf
<1>2. ASSUME NEW a \in Agents, tx[a] # NoTx, EndsSession(a)
      PROVE  jobs'[j] = jobs[j]
  BY <1>1, <1>2 DEF EndsSession, CommitSession, TypeInv, TypeOK
<1>3. ASSUME NEW h \in Handlers, HandlerStep(h) PROVE jobs'[j] = jobs[j]
  BY <1>3 DEF HandlerStep, IntentRead, IntentCommit, IntentRefused, NextId, TypeInv, TypeOK
<1>4. ASSUME NEW k \in Workers, WorkerStep(k) PROVE jobs'[j] = jobs[j]
  <2> k \in Agents
    BY DEF Agents
  <2>1. CASE Outcome(k)
    BY <2>1, <1>2, OutcomeEnds
  <2>2. CASE Publish(k)
    <3>1. tx[k] # NoTx
      BY <2>2 DEF Publish, Holding, NoTx
    <3> QED
      BY <1>1, <2>2, <3>1 DEF Publish, TypeInv, TypeOK
  <2>3. CASE UNCHANGED jobs
    BY <2>3
  <2> QED
    BY <1>4, <2>1, <2>2, <2>3
       DEF WorkerStep, ClaimNext, ClaimById, TakeRow, Place, LoseClaim, Crash, ImportRaises
<1>5. ASSUME NEW r \in Reclaimers, ReclaimStep(r) PROVE jobs'[j] = jobs[j]
  <2> r \in Agents
    BY DEF Agents
  <2>1. CASE ReclaimCommit(r)
    BY <2>1, <1>2, ReclaimEnds
  <2>2. CASE UNCHANGED jobs
    BY <2>2
  <2> QED
    BY <1>5, <2>1, <2>2 DEF ReclaimStep, ReclaimRead
<1>6. ASSUME NEW i \in JobIds, TimeStep(i) PROVE jobs'[j].st = jobs[j].st
  BY <1>6 DEF TimeStep, BackoffElapses, CapacityWindowElapses, TypeInv, TypeOK,
     InsertedRow, NoRow
<1> QED
  BY <1>3, <1>4, <1>5, <1>6 DEF Next

\* Final job statuses are final.
THEOREM FinishedJobsStayAlways ==
    Undisputed => (Spec => FinishedJobsStay)
<1> SUFFICES ASSUME Undisputed PROVE Spec => FinishedJobsStay
  OBVIOUS
<1>1. TypeInv /\ QueueInv /\ [Next]_vars
        => [\A j \in JobIds : jobs[j].st \in {"SUCCEEDED", "FAILED"}
                                 => jobs'[j].st = jobs[j].st]_vars
  BY FinishedStep
<1>2. Spec => [](TypeInv /\ QueueInv)
  BY QueueSafety
<1> QED
  BY <1>1, <1>2, PTL DEF Spec, FinishedJobsStay

-----------------------------------------------------------------------------
(* Retries run out *)

\* Agent k writes row j with status st and attempt counter n, and no other row.
Records(j, st, n) ==
    /\ jobs'[j].st = st /\ jobs'[j].attempt = n
    /\ jobs'[j].type = jobs[j].type /\ jobs'[j].expired = jobs[j].expired
    /\ \A i \in JobIds : i # j => jobs'[i] = jobs[i]

LEMMA OutcomeRecords ==
    ASSUME TypeInv, NEW j \in JobIds, jobs[j] \in InsertedRow, NEW st, NEW n,
           jobs' = [jobs EXCEPT ![j] = WithOutcome(jobs[j], st, n)]
    PROVE  Records(j, st, n)
<1>1. jobs'[j] = WithOutcome(jobs[j], st, n) /\ \A i \in JobIds : i # j => jobs'[i] = jobs[i]
  BY DEF TypeInv, TypeOK
<1>2. /\ WithOutcome(jobs[j], st, n).st = st /\ WithOutcome(jobs[j], st, n).attempt = n
      /\ WithOutcome(jobs[j], st, n).type = jobs[j].type
      /\ WithOutcome(jobs[j], st, n).expired = jobs[j].expired
  BY DEF WithOutcome, InsertedRow
<1> QED
  BY <1>1, <1>2 DEF Records

\* The attempt counter an ending session of k records.
Counted(k) == IF tx[k].phase \in {"claimed", "placed"} THEN tx[k].att ELSE RowOf(k).attempt

\* A session ends with its job finished, requeued with attempts left, or waiting
\* for capacity within its window.
Requeues(k, st) ==
    \/ st \in {"SUCCEEDED", "FAILED"}
    \/ st = "QUEUED" /\ Att(k) < MaxAttempts
    \/ st = "QUEUED" /\ RowOf(k).type \in NodeWaitTypes /\ ~RowOf(k).expired

EndsRun(k) == \E st, new : CommitSession(k, st, new) /\ Requeues(k, st)

LEMMA RetryEndsRun ==
    ASSUME NEW k, NEW terminal, RetryOrFail(k, terminal)
    PROVE  EndsRun(k)
BY DEF RetryOrFail, EndsRun, Requeues

LEMMA OutcomeEndsRun ==
    ASSUME NEW k, Outcome(k)
    PROVE  EndsRun(k)
<1>1. CASE PlacementFails(k) \/ RetryableFailure(k)
  BY <1>1, RetryEndsRun DEF PlacementFails, RetryableFailure
<1>2. CASE DeleteRuntimeMissing(k) \/ FatalFailure(k) \/ ReconcileStopFails(k)
  BY <1>2 DEF DeleteRuntimeMissing, FatalFailure, ReconcileStopFails, EndsRun, Requeues
<1>3. CASE WaitForNode(k)
  <2>1. CASE RowOf(k).expired
    BY <1>3, <2>1 DEF WaitForNode, EndsRun, Requeues
  <2>2. CASE ~RowOf(k).expired
    BY <1>3, <2>2 DEF WaitForNode, EndsRun, Requeues
  <2> QED
    BY <2>1, <2>2
<1>4. CASE JobSucceeds(k)
  BY <1>4 DEF JobSucceeds, EndsRun, Requeues
<1>5. CASE ReconcileFails(k)
  <2>1. CASE CommitSession(k, "FAILED", "ERROR")
    BY <2>1 DEF EndsRun, Requeues
  <2>2. CASE \E t : RetryOrFail(k, t)
    BY <2>2, RetryEndsRun
  <2> QED
    BY <1>5, <2>1, <2>2 DEF ReconcileFails
<1>6. CASE SnapshotFails(k)
  BY <1>6, RetryEndsRun DEF SnapshotFails, EndsRun, Requeues
<1> QED
  BY <1>1, <1>2, <1>3, <1>4, <1>5, <1>6 DEF Outcome

LEMMA ReclaimEndsRun ==
    ASSUME NEW r, ReclaimCommit(r)
    PROVE  EndsRun(r)
BY RetryEndsRun DEF ReclaimCommit

\* What an ending session does to the row it holds.
LEMMA EndRecords ==
    ASSUME TypeInv, NEW k \in Agents, tx[k] # NoTx, EndsRun(k)
    PROVE  /\ \E st : Requeues(k, st) /\ Records(tx[k].job, st, Counted(k))
           /\ tx' = [tx EXCEPT ![k] = NoTx]
<1>1. PICK st, new : CommitSession(k, st, new) /\ Requeues(k, st)
  BY DEF EndsRun
<1>2. tx[k].job \in JobIds /\ jobs[tx[k].job] \in InsertedRow
  BY OpenTypes DEF RowOf
<1>3. jobs' = [jobs EXCEPT ![tx[k].job] = WithOutcome(jobs[tx[k].job], st, Counted(k))]
  BY <1>1, <1>2 DEF CommitSession, Counted, TypeInv, TypeOK
<1>4. Records(tx[k].job, st, Counted(k))
  BY <1>2, <1>3, OutcomeRecords
<1> QED
  BY <1>1, <1>4 DEF CommitSession

\* What publishing a claim does to its row.
LEMMA PublishRecords ==
    ASSUME TypeInv, NEW k \in Workers, Publish(k)
    PROVE  /\ k \in Agents /\ tx[k] # NoTx /\ tx[k].phase = "placed"
           /\ Records(tx[k].job, "RUNNING", tx[k].att)
           /\ tx'[k].phase = "published" /\ tx'[k].job = tx[k].job /\ tx'[k].att = tx[k].att
           /\ \A a \in Agents : a # k => tx'[a] = tx[a]
<1>1. k \in Agents /\ tx[k] # NoTx /\ tx[k] \in OpenSession /\ tx[k].phase = "placed"
  BY DEF Agents, Publish, Holding, TypeInv, TypeOK, NoTx
<1>2. tx[k].job \in JobIds /\ jobs[tx[k].job] \in InsertedRow
  BY <1>1, OpenTypes DEF RowOf
<1>3. jobs' = [jobs EXCEPT ![tx[k].job] = WithOutcome(jobs[tx[k].job], "RUNNING", tx[k].att)]
  BY <1>2 DEF Publish, TypeInv, TypeOK
<1>4. Records(tx[k].job, "RUNNING", tx[k].att)
  BY <1>2, <1>3, OutcomeRecords
<1>5. tx' = [tx EXCEPT ![k] = [tx[k] EXCEPT !.phase = "published", !.seen = tx[k].cur]]
  BY <1>1 DEF Publish, TypeInv, TypeOK
<1>6. /\ tx'[k].phase = "published" /\ tx'[k].job = tx[k].job /\ tx'[k].att = tx[k].att
      /\ \A a \in Agents : a # k => tx'[a] = tx[a]
  BY <1>1, <1>5 DEF OpenSession, TypeInv, TypeOK
<1> QED
  BY <1>1, <1>4, <1>6

\* The holder of a row writes it: the sessions of the others stay in step.
LEMMA RecordAttempt ==
    ASSUME TypeInv, QueueInv, SessionAttempt, NEW k \in Agents, tx[k] # NoTx,
           NEW st, NEW n, Records(tx[k].job, st, n),
           \/ tx'[k] = NoTx
           \/ tx'[k].phase = "published" /\ tx'[k].job = tx[k].job /\ tx'[k].att = n,
           \A a \in Agents : a # k => tx'[a] = tx[a]
    PROVE  SessionAttempt'
<1>1. ASSUME NEW a \in Agents, a # k, tx[a].phase # "idle"
      PROVE  tx'[a] = tx[a] /\ jobs'[tx[a].job] = jobs[tx[a].job]
  <2>1. tx[a].job \in JobIds /\ tx[a].job # tx[k].job
    BY <1>1, HolderTypes DEF QueueInv, OneHolder
  <2> QED
    BY <1>1, <2>1 DEF Records
<1>2. NoTx.phase = "idle"
  BY DEF NoTx
<1>3. jobs'[tx[k].job].attempt = n
  BY DEF Records
<1> SUFFICES ASSUME NEW a \in Agents
             PROVE  /\ tx'[a].phase \in {"claimed", "placed"} => tx'[a].att = Bump(jobs'[tx'[a].job].attempt)
                    /\ tx'[a].phase = "published" => tx'[a].att = jobs'[tx'[a].job].attempt
  BY DEF SessionAttempt, RowOf
<1>4. CASE a = k
  BY <1>2, <1>3, <1>4
<1>5. CASE a # k
  BY <1>1, <1>5 DEF SessionAttempt, RowOf
<1> QED
  BY <1>4, <1>5

\* Sessions change, or rows that nobody holds, or what no session relies on.
LEMMA FrameAttempt ==
    ASSUME TypeInv, SessionAttempt,
           \A a \in Agents : \/ tx'[a] = tx[a]
                             \/ tx'[a].phase \in {"idle", "lost"}
                             \/ /\ tx'[a].phase = "claimed"
                                /\ tx'[a].att = Bump(jobs'[tx'[a].job].attempt)
                             \/ /\ tx'[a].phase = "published"
                                /\ tx'[a].att = jobs'[tx'[a].job].attempt
                             \/ /\ tx'[a].phase = "placed" /\ tx[a].phase = "claimed"
                                /\ tx'[a].job = tx[a].job /\ tx'[a].att = tx[a].att,
           \A a \in Agents : tx[a] # NoTx => jobs'[tx[a].job].attempt = jobs[tx[a].job].attempt
    PROVE  SessionAttempt'
BY HolderTypes DEF SessionAttempt, RowOf

LEMMA AttemptStep ==
    ASSUME TypeInv, QueueInv, SessionAttempt, [Next]_vars
    PROVE  SessionAttempt'
<1>0. NoTx.phase = "idle"
  BY DEF NoTx
<1>1. ASSUME NEW h \in Handlers, HandlerStep(h) PROVE SessionAttempt'
  <2>1. tx' = tx
    BY <1>1 DEF HandlerStep, IntentRead, IntentCommit, IntentRefused
  <2>2. ASSUME NEW a \in Agents, tx[a] # NoTx
        PROVE  jobs'[tx[a].job].attempt = jobs[tx[a].job].attempt
    <3>1. tx[a].job \in JobIds /\ jobs[tx[a].job].st # "FREE"
      BY <2>2, OpenTypes DEF RowOf, InsertedRow
    <3> QED
      BY <1>1, <3>1 DEF HandlerStep, IntentRead, IntentCommit, IntentRefused, NextId, TypeInv, TypeOK
  <2> QED
    BY <2>1, <2>2, FrameAttempt
<1>2. ASSUME NEW k \in Agents, tx[k] # NoTx, EndsRun(k) PROVE SessionAttempt'
  <2>1. /\ \E st : Records(tx[k].job, st, Counted(k))
        /\ tx'[k] = NoTx /\ \A a \in Agents : a # k => tx'[a] = tx[a]
    BY <1>2, EndRecords DEF TypeInv, TypeOK
  <2> QED
    BY <1>2, <2>1, RecordAttempt
<1>3. ASSUME NEW k \in Workers, WorkerStep(k) PROVE SessionAttempt'
  <2> k \in Agents
    BY DEF Agents
  <2>1. CASE Outcome(k)
    BY <1>2, <2>1, OutcomeEnds, OutcomeEndsRun
  <2>2. CASE Publish(k)
    BY <2>2, PublishRecords, RecordAttempt
  <2>3. ASSUME NEW j \in JobIds, TakeRow(k, j) PROVE SessionAttempt'
    <3>1. /\ jobs' = jobs /\ \A a \in Agents : a # k => tx'[a] = tx[a]
          /\ tx'[k].phase = "claimed" /\ tx'[k].job = j /\ tx'[k].att = Bump(jobs[j].attempt)
      BY <2>3 DEF TakeRow, TypeInv, TypeOK
    <3> QED
      BY <3>1, FrameAttempt
  <2>4. CASE Place(k) \/ LoseClaim(k) \/ Crash(k) \/ ImportRaises(k)
    <3>1. tx[k] \in OpenSession
      BY <2>4 DEF Place, LoseClaim, Crash, ImportRaises, Holding, Executing, TypeInv, TypeOK, NoTx
    <3>2. jobs' = jobs /\ \A a \in Agents : a # k => tx'[a] = tx[a]
      BY <2>4 DEF Place, LoseClaim, Crash, ImportRaises, TypeInv, TypeOK
    <3>3. CASE Place(k)
      <4>1. tx[k].phase = "claimed" /\ tx'[k].phase = "placed" /\ tx'[k].job = tx[k].job /\ tx'[k].att = tx[k].att
        BY <3>1, <3>3 DEF Place, Holding, TypeInv, TypeOK, OpenSession
      <4> QED
        BY <3>2, <4>1, FrameAttempt
    <3>4. CASE LoseClaim(k) \/ Crash(k) \/ ImportRaises(k)
      <4>1. tx'[k].phase \in {"idle", "lost"}
        BY <1>0, <3>1, <3>4 DEF LoseClaim, Crash, ImportRaises, TypeInv, TypeOK, OpenSession
      <4> QED
        BY <3>2, <4>1, FrameAttempt
    <3> QED
      BY <2>4, <3>3, <3>4
  <2> QED
    BY <1>3, <2>1, <2>2, <2>3, <2>4 DEF WorkerStep, ClaimNext, ClaimById
<1>4. ASSUME NEW r \in Reclaimers, ReclaimStep(r) PROVE SessionAttempt'
  <2> r \in Agents
    BY DEF Agents
  <2>1. CASE ReclaimCommit(r)
    BY <1>2, <2>1, ReclaimEnds, ReclaimEndsRun
  <2>2. ASSUME NEW j \in JobIds, ReclaimRead(r, j) PROVE SessionAttempt'
    <3>1. /\ jobs' = jobs /\ \A a \in Agents : a # r => tx'[a] = tx[a]
          /\ tx'[r].phase = "published" /\ tx'[r].job = j /\ tx'[r].att = jobs[j].attempt
      BY <2>2 DEF ReclaimRead, TypeInv, TypeOK
    <3> QED
      BY <3>1, FrameAttempt
  <2> QED
    BY <1>4, <2>1, <2>2 DEF ReclaimStep
<1>5. ASSUME NEW i \in JobIds, TimeStep(i) PROVE SessionAttempt'
  <2>1. tx' = tx
    BY <1>5 DEF TimeStep, BackoffElapses, CapacityWindowElapses
  <2>2. \A j \in JobIds : jobs'[j].attempt = jobs[j].attempt
    BY <1>5 DEF TimeStep, BackoffElapses, CapacityWindowElapses, TypeInv, TypeOK, InsertedRow, NoRow
  <2> QED
    BY <2>1, <2>2, HolderTypes, FrameAttempt
<1>6. CASE UNCHANGED vars
  BY <1>6 DEF vars, SessionAttempt, RowOf
<1> QED
  BY <1>1, <1>3, <1>4, <1>5, <1>6 DEF Next

\* Row j is finished, or what is recorded of it leaves fewer runs.
RowDescends(j) ==
    /\ Active(j)
    /\ jobs[j].expired \/ jobs[j].type \notin NodeWaitTypes
    /\ <<jobs'[j].st, jobs'[j].attempt>> # <<jobs[j].st, jobs[j].attempt>>
    => ~Active(j)' \/ RunsLeft(jobs'[j]) < RunsLeft(jobs[j])

\* The holder of a row requeues it only with the counter it has been given.
LEMMA EndDescends ==
    ASSUME TypeInv, QueueInv, SessionAttempt, NEW k \in Agents, tx[k] # NoTx, EndsRun(k),
           NEW j \in JobIds
    PROVE  RowDescends(j)
<1>1. PICK st : Requeues(k, st) /\ Records(tx[k].job, st, Counted(k))
  BY EndRecords
<1>2. CASE j # tx[k].job
  BY <1>1, <1>2 DEF Records, RowDescends
<1>3. CASE j = tx[k].job
  <2>1. /\ tx[k].phase \in {"claimed", "placed", "published", "lost"} /\ RowOf(k) = jobs[j]
        /\ jobs[j].attempt \in 0 .. MaxAttempts /\ MaxAttempts \in Nat \ {0}
    BY <1>3, OpenTypes, JobsAssumption DEF OpenSession, InsertedRow, RowOf
  <2>2. jobs'[j].st = st /\ jobs'[j].attempt = Counted(k)
    BY <1>1, <1>3 DEF Records
  <2>3. CASE st \in {"SUCCEEDED", "FAILED"}
    BY <2>2, <2>3 DEF RowDescends, Active
  <2>4. CASE st = "QUEUED" /\ RowOf(k).type \in NodeWaitTypes /\ ~RowOf(k).expired
    BY <2>1, <2>4 DEF RowDescends
  <2>5. CASE st = "QUEUED" /\ Att(k) < MaxAttempts
    <3>1. CASE tx[k].phase \in {"claimed", "placed"}
      <4>1. Counted(k) = Bump(jobs[j].attempt) /\ Att(k) = Bump(jobs[j].attempt) /\ jobs[j].st = "QUEUED"
        BY <2>1, <3>1 DEF Counted, Att, SessionAttempt, QueueInv, HeldRowMatches
      <4>2. jobs'[j].attempt = jobs[j].attempt + 1 /\ jobs[j].attempt + 1 < MaxAttempts
        BY <2>1, <2>2, <2>5, <4>1 DEF Bump
      <4>3. RunsLeft(jobs'[j]) < RunsLeft(jobs[j])
        BY <2>1, <2>2, <2>5, <4>1, <4>2 DEF RunsLeft
      <4> QED
        BY <4>3 DEF RowDescends
    <3>2. CASE tx[k].phase = "published"
      <4>1. Counted(k) = jobs[j].attempt /\ Att(k) = jobs[j].attempt /\ jobs[j].st = "RUNNING"
        BY <2>1, <3>2 DEF Counted, Att, SessionAttempt, QueueInv, HeldRowMatches
      <4>2. RunsLeft(jobs'[j]) < RunsLeft(jobs[j])
        BY <2>1, <2>2, <2>5, <4>1 DEF RunsLeft
      <4> QED
        BY <4>2 DEF RowDescends
    <3>3. CASE tx[k].phase = "lost"
      <4>1. Counted(k) = jobs[j].attempt /\ jobs[j].st = "QUEUED"
        BY <2>1, <3>3 DEF Counted, QueueInv, HeldRowMatches
      <4> QED
        BY <2>2, <2>5, <4>1 DEF RowDescends
    <3> QED
      BY <2>1, <3>1, <3>2, <3>3
  <2> QED
    BY <1>1, <2>3, <2>4, <2>5 DEF Requeues
<1> QED
  BY <1>2, <1>3

\* Publishing a claim counts its attempt.
LEMMA PublishDescends ==
    ASSUME TypeInv, QueueInv, SessionAttempt, NEW k \in Workers, Publish(k), NEW j \in JobIds
    PROVE  RowDescends(j)
<1>1. /\ k \in Agents /\ tx[k] # NoTx /\ tx[k].phase = "placed"
      /\ Records(tx[k].job, "RUNNING", tx[k].att)
  BY PublishRecords
<1>2. CASE j # tx[k].job
  BY <1>1, <1>2 DEF Records, RowDescends
<1>3. CASE j = tx[k].job
  <2>1. /\ RowOf(k) = jobs[j]
        /\ jobs[j].attempt \in 0 .. MaxAttempts /\ MaxAttempts \in Nat \ {0}
    BY <1>1, <1>3, OpenTypes, JobsAssumption DEF InsertedRow, RowOf
  <2>2. jobs[j].st = "QUEUED" /\ tx[k].att = Bump(jobs[j].attempt)
    BY <1>1, <2>1 DEF QueueInv, HeldRowMatches, SessionAttempt
  <2>3. jobs'[j].st = "RUNNING" /\ jobs'[j].attempt = Bump(jobs[j].attempt)
    BY <1>1, <1>3, <2>2 DEF Records
  <2>4. RunsLeft(jobs'[j]) < RunsLeft(jobs[j])
    BY <2>1, <2>2, <2>3 DEF RunsLeft, Bump
  <2> QED
    BY <2>4 DEF RowDescends
<1> QED
  BY <1>2, <1>3

LEMMA RowStep ==
    ASSUME TypeInv, QueueInv, SessionAttempt, Next, NEW j \in JobIds
    PROVE  RowDescends(j)
<1>1. ASSUME NEW h \in Handlers, HandlerStep(h) PROVE RowDescends(j)
  BY <1>1 DEF HandlerStep, IntentRead, IntentCommit, IntentRefused, NextId, Active, RowDescends, TypeInv, TypeOK
<1>2. ASSUME NEW k \in Workers, WorkerStep(k) PROVE RowDescends(j)
  <2> k \in Agents
    BY DEF Agents
  <2>1. CASE Outcome(k)
    BY <2>1, OutcomeEnds, OutcomeEndsRun, EndDescends
  <2>2. CASE Publish(k)
    BY <2>2, PublishDescends
  <2>3. CASE UNCHANGED jobs
    BY <2>3 DEF RowDescends
  <2> QED
    BY <1>2, <2>1, <2>2, <2>3
       DEF WorkerStep, ClaimNext, ClaimById, TakeRow, Place, LoseClaim, Crash, ImportRaises
<1>3. ASSUME NEW r \in Reclaimers, ReclaimStep(r) PROVE RowDescends(j)
  <2> r \in Agents
    BY DEF Agents
  <2>1. CASE ReclaimCommit(r)
    BY <2>1, ReclaimEnds, ReclaimEndsRun, EndDescends
  <2>2. CASE UNCHANGED jobs
    BY <2>2 DEF RowDescends
  <2> QED
    BY <1>3, <2>1, <2>2 DEF ReclaimStep, ReclaimRead
<1>4. ASSUME NEW i \in JobIds, TimeStep(i) PROVE RowDescends(j)
  <2>1. jobs'[j].st = jobs[j].st /\ jobs'[j].attempt = jobs[j].attempt
    BY <1>4 DEF TimeStep, BackoffElapses, CapacityWindowElapses, TypeInv, TypeOK, InsertedRow, NoRow
  <2> QED
    BY <2>1 DEF RowDescends
<1> QED
  BY <1>1, <1>2, <1>3, <1>4 DEF Next

\* A job that does not wait for capacity is recorded at most twice per attempt before it
\* is finished, for any number of workers, reclaimers, crashes and attempts: no crash,
\* reclaim or retry gives it back an attempt it has used.
THEOREM RetriesDescendAlways ==
    Undisputed => (Spec => RetriesDescend)
<1> SUFFICES ASSUME Undisputed PROVE Spec => RetriesDescend
  OBVIOUS
<1>1. Init => SessionAttempt
  <2>1. NoTx.phase = "idle"
    BY DEF NoTx
  <2> QED
    BY <2>1 DEF Init, SessionAttempt
<1>2. TypeInv /\ QueueInv /\ SessionAttempt /\ [Next]_vars => SessionAttempt'
  BY AttemptStep
<1>3. TypeInv /\ QueueInv /\ SessionAttempt /\ [Next]_vars => [\A j \in JobIds : RowDescends(j)]_vars
  BY RowStep
<1>4. (\A j \in JobIds : RowDescends(j))
        <=> \A j \in JobIds :
              /\ Active(j)
              /\ jobs[j].expired \/ jobs[j].type \notin NodeWaitTypes
              /\ <<jobs'[j].st, jobs'[j].attempt>> # <<jobs[j].st, jobs[j].attempt>>
              => ~Active(j)' \/ RunsLeft(jobs'[j]) < RunsLeft(jobs[j])
  BY DEF RowDescends
<1>5. Spec => [](TypeInv /\ QueueInv)
  BY QueueSafety
<1> QED
  BY <1>1, <1>2, <1>3, <1>4, <1>5, PTL DEF Spec, RetriesDescend

-----------------------------------------------------------------------------
(* A workspace that has a job, or a request other than CREATE, has a row *)

Present ==
    /\ \A h \in Handlers : req[h] # NoReq /\ req[h].type # "CREATE" => ws[req[h].ws] # "ABSENT"
    /\ \A j \in JobIds : jobs[j] # NoRow => ws[jobs[j].ws] # "ABSENT"
    /\ \A a \in Agents : tx[a] # NoTx => tx[a].cur # "ABSENT"

\* No status is taken back to ABSENT, and what is new is there.
LEMMA PresentKept ==
    ASSUME TypeInv, Present,
           \A w \in Workspaces : ws[w] # "ABSENT" => ws'[w] # "ABSENT",
           \A h \in Handlers : \/ req'[h] \in {req[h], NoReq}
                               \/ req'[h].type = "CREATE"
                               \/ ws'[req'[h].ws] # "ABSENT",
           \A j \in JobIds : \/ jobs'[j] = NoRow
                             \/ jobs[j] # NoRow /\ jobs'[j].ws = jobs[j].ws
                             \/ ws'[jobs'[j].ws] # "ABSENT",
           \A a \in Agents : \/ tx'[a] \in {tx[a], NoTx}
                             \/ tx'[a].cur # "ABSENT"
    PROVE  Present'
<1>1. \A h \in Handlers : req[h] # NoReq => req[h].ws \in Workspaces
  BY DEF TypeInv, TypeOK, Request
<1>2. \A j \in JobIds : jobs[j] # NoRow => jobs[j].ws \in Workspaces
  BY DEF TypeInv, TypeOK, InsertedRow
<1>3. \A h \in Handlers : req'[h] # NoReq /\ req'[h].type # "CREATE" => ws'[req'[h].ws] # "ABSENT"
  BY <1>1 DEF Present
<1>4. \A j \in JobIds : jobs'[j] # NoRow => ws'[jobs'[j].ws] # "ABSENT"
  BY <1>2 DEF Present
<1>5. \A a \in Agents : tx'[a] # NoTx => tx'[a].cur # "ABSENT"
  BY DEF Present
<1> QED
  BY <1>3, <1>4, <1>5 DEF Present

LEMMA PresentEnd ==
    ASSUME TypeInv, Present, NEW k \in Agents, tx[k] # NoTx, EndsSession(k)
    PROVE  Present'
<1>1. PICK st \in JobStatuses, new \in Statuses :
          CommitSession(k, st, new) /\ AllowedOutcome(k, st, new)
  BY DEF EndsSession
<1> DEFINE j == tx[k].job
<1> DEFINE n == IF tx[k].phase \in {"claimed", "placed"} THEN tx[k].att ELSE RowOf(k).attempt
<1>2. /\ j \in JobIds /\ jobs[j] \in InsertedRow /\ n \in 0 .. MaxAttempts /\ RowOf(k) = jobs[j]
      /\ jobs[j] # NoRow /\ jobs[j].ws \in Workspaces
  BY OpenTypes, NullsApart DEF RowOf
<1>3. Cur(k) # "ABSENT"
  BY <1>2 DEF Present, Cur
<1>4. new # "ABSENT"
  BY <1>1, <1>3 DEF AllowedOutcome, Settled
<1>5. jobs' = [jobs EXCEPT ![j] = WithOutcome(jobs[j], st, n)]
  BY <1>1, <1>2 DEF CommitSession, TypeInv, TypeOK
<1> HIDE DEF n, j
<1>6. jobs'[j].ws = jobs[j].ws /\ \A i \in JobIds : i # j => jobs'[i] = jobs[i]
  BY <1>2, <1>5, OutcomeRow DEF TypeInv, TypeOK
<1>7. \A w \in Workspaces : ws[w] # "ABSENT" => ws'[w] # "ABSENT"
  BY <1>1, <1>2, <1>4 DEF CommitSession, TypeInv, TypeOK
<1>8. req' = req /\ \A a \in Agents : tx'[a] \in {tx[a], NoTx}
  BY <1>1 DEF CommitSession, TypeInv, TypeOK
<1>9. \A i \in JobIds : \/ jobs'[i] = NoRow
                        \/ jobs[i] # NoRow /\ jobs'[i].ws = jobs[i].ws
  BY <1>2, <1>6
<1> QED
  BY <1>7, <1>8, <1>9, PresentKept

LEMMA PresentStep ==
    ASSUME TypeInv, Present, [Next]_vars
    PROVE  Present'
<1>1. ASSUME NEW h \in Handlers, HandlerStep(h) PROVE Present'
  <2>1. ASSUME NEW w \in Workspaces, NEW t \in IntentTypes, IntentRead(h, w, t) PROVE Present'
    <3>1. t = "CREATE" \/ ws[w] # "ABSENT"
      <4>1. t \in Types
        BY JobsAssumption
      <4> QED
        BY <2>1, <4>1 DEF IntentRead, IntentFrom, Types, LifecycleTypes, SideTypes, SnapshotTypes,
           Busy, Settled
    <3>2. /\ UNCHANGED <<ws, jobs, tx>> /\ req'[h].type = t /\ req'[h].ws = w
          /\ \A g \in Handlers : g # h => req'[g] = req[g]
      BY <2>1 DEF IntentRead, TypeInv, TypeOK
    <3> QED
      BY <3>1, <3>2, PresentKept
  <2>2. ASSUME NEW j \in JobIds, IntentCommit(h, j) PROVE Present'
    <3>1. /\ req[h] \in Request /\ req[h] # NoReq /\ jobs'[j].ws = req[h].ws /\ tx' = tx
          /\ \A i \in JobIds : i # j => jobs'[i] = jobs[i]
          /\ \A g \in Handlers : req'[g] \in {req[g], NoReq}
      BY <2>2 DEF IntentCommit, TypeInv, TypeOK
    <3>2. /\ ws' = IF req[h].type \in LifecycleTypes
                   THEN [ws EXCEPT ![req[h].ws] = IntentStatus(req[h].type)] ELSE ws
          /\ req[h].ws \in Workspaces
      BY <2>2, <3>1 DEF IntentCommit, Request
    <3>3. req[h].type \in LifecycleTypes => IntentStatus(req[h].type) # "ABSENT"
      BY StatusTypes DEF Busy
    <3>4. \A w \in Workspaces : ws[w] # "ABSENT" => ws'[w] # "ABSENT"
      BY <3>2, <3>3 DEF TypeInv, TypeOK
    <3>5. ws'[req[h].ws] # "ABSENT"
      <4>1. CASE req[h].type \in LifecycleTypes
        BY <3>2, <3>3, <4>1 DEF TypeInv, TypeOK
      <4>2. CASE req[h].type \notin LifecycleTypes
        <5>1. req[h].type # "CREATE"
          BY <4>2, StatusApart
        <5> QED
          BY <3>1, <3>2, <4>2, <5>1 DEF Present
      <4> QED
        BY <4>1, <4>2
    <3> QED
      BY <3>1, <3>4, <3>5, PresentKept
  <2>3. ASSUME IntentRefused(h) PROVE Present'
    <3>1. UNCHANGED <<ws, jobs, tx>> /\ \A g \in Handlers : req'[g] \in {req[g], NoReq}
      BY <2>3 DEF IntentRefused, TypeInv, TypeOK
    <3> QED
      BY <3>1, PresentKept
  <2> QED
    BY <1>1, <2>1, <2>2, <2>3 DEF HandlerStep
<1>2. ASSUME NEW a \in Agents, NEW j \in JobIds, TakeRow(a, j) \/ ReclaimRead(a, j) PROVE Present'
  <2>1. jobs[j] # NoRow
    BY <1>2 DEF TakeRow, Eligible, ReclaimRead, NoRow
  <2>2. /\ UNCHANGED <<ws, jobs, req>> /\ tx'[a].cur = ws[jobs[j].ws]
        /\ \A b \in Agents : b # a => tx'[b] = tx[b]
    BY <1>2 DEF TakeRow, ReclaimRead, TypeInv, TypeOK
  <2>3. tx'[a].cur # "ABSENT"
    BY <2>1, <2>2 DEF Present
  <2> QED
    BY <2>2, <2>3, PresentKept
<1>3. ASSUME NEW k \in Workers, WorkerStep(k) PROVE Present'
  <2> k \in Agents
    BY DEF Agents
  <2>1. CASE Place(k) \/ LoseClaim(k)
    <3>1. tx[k] # NoTx /\ tx[k] \in OpenSession
      BY <2>1 DEF Place, LoseClaim, Holding, TypeInv, TypeOK, NoTx
    <3>2. /\ UNCHANGED <<ws, jobs, req>> /\ tx'[k].cur \in {tx[k].cur, "CREATING"}
          /\ \A b \in Agents : b # k => tx'[b] = tx[b]
      BY <2>1, <3>1 DEF Place, LoseClaim, TypeInv, TypeOK, OpenSession
    <3>3. tx'[k].cur # "ABSENT"
      BY <3>1, <3>2 DEF Present
    <3> QED
      BY <3>2, <3>3, PresentKept
  <2>2. CASE Publish(k)
    <3>1. k \in Agents /\ tx[k] # NoTx /\ tx[k] \in OpenSession
      BY <2>2 DEF Agents, Publish, Holding, TypeInv, TypeOK, NoTx
    <3> DEFINE j == tx[k].job
    <3>2. /\ j \in JobIds /\ jobs[j] \in InsertedRow /\ tx[k].att \in 0 .. MaxAttempts
          /\ jobs[j] # NoRow /\ jobs[j].ws \in Workspaces /\ RowOf(k) = jobs[j]
      BY <3>1, OpenTypes, NullsApart DEF RowOf
    <3>3. tx[k].cur # "ABSENT"
      BY <3>1 DEF Present
    <3>4. /\ jobs' = [jobs EXCEPT ![j] = WithOutcome(jobs[j], "RUNNING", tx[k].att)] /\ req' = req
          /\ tx' = [tx EXCEPT ![k] = [tx[k] EXCEPT !.phase = "published", !.seen = tx[k].cur]]
      BY <2>2, <3>1, <3>2 DEF Publish, TypeInv, TypeOK
    <3>5. \A w \in Workspaces : ws[w] # "ABSENT" => ws'[w] # "ABSENT"
      BY <2>2, <3>2, <3>3 DEF Publish, TypeInv, TypeOK
    <3>6. tx'[k].cur = tx[k].cur /\ \A b \in Agents : b # k => tx'[b] = tx[b]
      BY <3>1, <3>4 DEF OpenSession, TypeInv, TypeOK
    <3> HIDE DEF j
    <3>7. "RUNNING" \in JobStatuses
      BY DEF JobStatuses
    <3>8. jobs'[j].ws = jobs[j].ws /\ \A i \in JobIds : i # j => jobs'[i] = jobs[i]
      BY <3>2, <3>4, <3>7, OutcomeRow DEF TypeInv, TypeOK
    <3>9. \A i \in JobIds : \/ jobs'[i] = NoRow
                            \/ jobs[i] # NoRow /\ jobs'[i].ws = jobs[i].ws
      BY <3>2, <3>8
    <3> QED
      BY <3>3, <3>4, <3>5, <3>6, <3>9, PresentKept
  <2>3. CASE Outcome(k)
    BY <2>3, OutcomeEnds, PresentEnd
  <2>4. CASE Crash(k) \/ ImportRaises(k)
    <3>1. UNCHANGED <<ws, jobs, req>> /\ \A a \in Agents : tx'[a] \in {tx[a], NoTx}
      BY <2>4 DEF Crash, ImportRaises, TypeInv, TypeOK
    <3> QED
      BY <3>1, PresentKept
  <2> QED
    BY <1>2, <1>3, <2>1, <2>2, <2>3, <2>4 DEF WorkerStep, ClaimNext, ClaimById
<1>4. ASSUME NEW r \in Reclaimers, ReclaimStep(r) PROVE Present'
  <2> r \in Agents
    BY DEF Agents
  <2> QED
    BY <1>2, <1>4, ReclaimEnds, PresentEnd DEF ReclaimStep
<1>5. ASSUME NEW i \in JobIds, TimeStep(i) PROVE Present'
  <2>1. UNCHANGED <<ws, req, tx>>
    BY <1>5 DEF TimeStep, BackoffElapses, CapacityWindowElapses
  <2>2. jobs[i] \in InsertedRow
    BY <1>5 DEF TimeStep, BackoffElapses, CapacityWindowElapses, Active, TypeInv, TypeOK, NoRow
  <2>3. jobs'[i].ws = jobs[i].ws /\ \A j \in JobIds : j # i => jobs'[j] = jobs[j]
    BY <1>5, <2>2 DEF TimeStep, BackoffElapses, CapacityWindowElapses, TypeInv, TypeOK, InsertedRow
  <2> QED
    BY <2>1, <2>2, <2>3, NullsApart, PresentKept
<1>6. CASE UNCHANGED vars
  BY <1>6 DEF vars, Present
<1> QED
  BY <1>1, <1>3, <1>4, <1>5, <1>6 DEF Next

LEMMA PresentInit == Init => Present
BY DEF Init, Present

-----------------------------------------------------------------------------
(* One operation at a time: the invariant behind the refinement *)

\* The pending operations of w, as a function of the rows.
Pend(rows, w) == {j \in JobIds : /\ rows[j].ws = w
                                 /\ rows[j].type \in LifecycleTypes
                                 /\ rows[j].st \in {"QUEUED", "RUNNING"}}

CrossedPending == \A w \in crossed : w \in Workspaces /\ Pend(jobs, w) # {}

OnePending == \A w \in Workspaces \ crossed : \A i, j \in Pend(jobs, w) : i = j

PendingBusy == \A w \in Workspaces \ crossed : Pend(jobs, w) # {} => ws[w] \in Busy

\* The status an operation has loaded is still the one there is: nobody else
\* writes it while the operation is held.
SeenFresh ==
    \A a \in Agents :
        /\ tx[a] # NoTx
        /\ RowOf(a).type \in LifecycleTypes
        /\ RowOf(a).ws \notin crossed
        => tx[a].seen = ws[RowOf(a).ws]

ExclusiveInv == CrossedPending /\ OnePending /\ PendingBusy /\ SeenFresh

LEMMA PendIs ==
    /\ \A w : PendingJobs(w) = Pend(jobs, w)
    /\ \A w : PendingJobs(w)' = Pend(jobs', w)
BY DEF PendingJobs, Pend, Active

LEMMA IntentFromSettled ==
    ASSUME NEW t \in LifecycleTypes, NEW s \in IntentFrom(t)
    PROVE  s \notin Busy
BY DEF LifecycleTypes, IntentFrom, Busy, Settled, Statuses

\* A row that was not inserted has no workspace and no type.
LEMMA FreeRow ==
    ASSUME TypeInv, NEW j \in JobIds, jobs[j].st = "FREE"
    PROVE  jobs[j] = NoRow /\ jobs[j].type \notin LifecycleTypes
BY DEF TypeInv, TypeOK, InsertedRow, NoRow, LifecycleTypes

\* The held row is pending.
LEMMA HeldPending ==
    ASSUME TypeInv, QueueInv, NEW k \in Agents, tx[k] # NoTx
    PROVE  /\ tx[k].job \in JobIds /\ jobs[tx[k].job] = RowOf(k) /\ RowOf(k) \in InsertedRow
           /\ RowOf(k).st \in {"QUEUED", "RUNNING"} /\ RowOf(k).ws \in Workspaces
           /\ RowOf(k).type \in LifecycleTypes => tx[k].job \in Pend(jobs, RowOf(k).ws)
<1>1. /\ tx[k] \in OpenSession /\ tx[k].job \in JobIds /\ RowOf(k) \in InsertedRow
      /\ RowOf(k).ws \in Workspaces
  BY OpenTypes
<1>2. RowOf(k).st \in {"QUEUED", "RUNNING"}
  BY <1>1 DEF QueueInv, HeldRowMatches, OpenSession
<1> QED
  BY <1>1, <1>2 DEF RowOf, Pend

\* It is the operation of its workspace, unless that is crossed.
LEMMA HeldOperation ==
    ASSUME TypeInv, QueueInv, ExclusiveInv, NEW k \in Agents, tx[k] # NoTx,
           RowOf(k).type \in LifecycleTypes, RowOf(k).ws \notin crossed
    PROVE  /\ Pend(jobs, RowOf(k).ws) = {tx[k].job}
           /\ ws[RowOf(k).ws] \in Busy /\ tx[k].seen = ws[RowOf(k).ws]
<1>1. RowOf(k).ws \in Workspaces \ crossed /\ tx[k].job \in Pend(jobs, RowOf(k).ws)
  BY HeldPending
<1> QED
  BY <1>1 DEF ExclusiveInv, OnePending, PendingBusy, SeenFresh

-----------------------------------------------------------------------------
(* What a step does to the operations under way *)

\* The type of the operation that shows, as a function of the rows.
Shown(rows, w) ==
    IF Pend(rows, w) = {} THEN "NONE" ELSE rows[CHOOSE j \in Pend(rows, w) : TRUE].type

LEMMA ShownType ==
    ASSUME NEW rows, NEW v
    PROVE  /\ Pend(rows, v) = {} => Shown(rows, v) = "NONE"
           /\ \A j : Pend(rows, v) = {j} => Shown(rows, v) = rows[j].type
           /\ Pend(rows, v) # {} => \E i \in Pend(rows, v) : Shown(rows, v) = rows[i].type
<1>p. PICK P : P = Pend(rows, v)
  OBVIOUS
<1>1. Shown(rows, v) = IF P = {} THEN "NONE" ELSE rows[CHOOSE j \in P : TRUE].type
  BY <1>p DEF Shown
<1>2. P # {} => (CHOOSE j \in P : TRUE) \in P
  OBVIOUS
<1>3. PICK c : c = CHOOSE j \in P : TRUE
  OBVIOUS
<1> QED
  BY <1>p, <1>1, <1>2, <1>3

LEMMA ShownIs ==
    /\ \A w : PendingType(w) = Shown(jobs, w)
    /\ \A w : PendingType(w)' = Shown(jobs', w)
BY DEF PendingType, Shown, PendingJobs, Pend, Active

LEMMA PendingTypeIs ==
    ASSUME NEW v
    PROVE  /\ Pend(jobs, v) = {} => PendingType(v) = "NONE"
           /\ \A j : Pend(jobs, v) = {j} => PendingType(v) = jobs[j].type
           /\ Pend(jobs, v) # {} => \E i \in Pend(jobs, v) : PendingType(v) = jobs[i].type
           /\ Pend(jobs', v) = {} => PendingType(v)' = "NONE"
           /\ \A j : Pend(jobs', v) = {j} => PendingType(v)' = jobs'[j].type
           /\ Pend(jobs', v) # {} => \E i \in Pend(jobs', v) : PendingType(v)' = jobs'[i].type
BY ShownIs, ShownType

\* The same operations, and the same one shows.
LEMMA SamePending ==
    ASSUME NEW v, Pend(jobs', v) = Pend(jobs, v),
           \A i \in Pend(jobs, v) : jobs'[i].type = jobs[i].type
    PROVE  PendingType(v)' = PendingType(v)
<1>1. CASE Pend(jobs, v) = {}
  BY <1>1, PendingTypeIs
<1>2. CASE Pend(jobs, v) # {}
  <2> DEFINE c == CHOOSE j \in Pend(jobs, v) : TRUE
  <2>1. c \in Pend(jobs, v)
    BY <1>2
  <2>2. PendingType(v) = jobs[c].type
    BY <1>2, PendIs DEF PendingType
  <2>3. PendingType(v)' = jobs'[c].type
    BY <1>2, PendIs DEF PendingType
  <2> QED
    BY <2>1, <2>2, <2>3
<1> QED
  BY <1>1, <1>2

\* Workspace v is not concerned.
Kept(v) ==
    /\ ws'[v] = ws[v]
    /\ Pend(jobs', v) = Pend(jobs, v)
    /\ PendingType(v)' = PendingType(v)
    /\ v \in crossed' <=> v \in crossed

\* What Track says of one workspace.
LEMMA TrackIs ==
    ASSUME Track
    PROVE  /\ crossed' \subseteq Workspaces
           /\ \A w \in Workspaces : w \in crossed' <=> /\ w \in crossed \/ StaleRequest(w) \/ GivenUp(w)
                                                       /\ Pend(jobs', w) # {}
BY PendIs DEF Track

\* No row is inserted, no other job fails: a workspace is crossed as long as it was
\* and something is pending.
LEMMA NotCrossing ==
    ASSUME TypeInv, Track, NEW w \in Workspaces,
           \A j \in JobIds : jobs[j].st = "FREE" => \/ jobs'[j].type = jobs[j].type
                                                   \/ jobs'[j].type \notin LifecycleTypes,
           \/ ws'[w] = ws[w]
           \/ \A j \in JobIds : \/ jobs[j].ws # w
                                \/ jobs[j].type \in LifecycleTypes
                                \/ jobs'[j].st = jobs[j].st
    PROVE  w \in crossed' <=> w \in crossed /\ Pend(jobs', w) # {}
<1>1. ~StaleRequest(w)
  BY FreeRow DEF StaleRequest
<1>2. ~GivenUp(w)
  BY DEF GivenUp
<1> QED
  BY <1>1, <1>2, TrackIs

\* Row j changes its status or nothing, and every other row is as it was.
RowMoves(j, st) ==
    /\ jobs[j] \in InsertedRow
    /\ jobs'[j].ws = jobs[j].ws /\ jobs'[j].type = jobs[j].type /\ jobs'[j].st = st
    /\ \A i \in JobIds : i # j => jobs'[i] = jobs[i]

\* The rows of other workspaces are not touched by that.
LEMMA MoveKeeps ==
    ASSUME TypeInv, ExclusiveInv, Track, NEW j \in JobIds, NEW st, RowMoves(j, st),
           NEW v \in Workspaces, v # jobs[j].ws, ws'[v] = ws[v]
    PROVE  Kept(v)
<1>1. Pend(jobs', v) = Pend(jobs, v) /\ \A i \in Pend(jobs, v) : jobs'[i].type = jobs[i].type
  BY DEF RowMoves, Pend
<1>2. PendingType(v)' = PendingType(v)
  BY <1>1, SamePending
<1>3. v \in crossed' <=> v \in crossed /\ Pend(jobs', v) # {}
  <2>1. \A i \in JobIds : jobs[i].st = "FREE" => jobs'[i].type = jobs[i].type
    BY DEF RowMoves
  <2> QED
    BY <2>1, NotCrossing
<1> QED
  BY <1>1, <1>2, <1>3 DEF Kept, ExclusiveInv, CrossedPending

\* The row of an operation moves.
LEMMA OperationMoves ==
    ASSUME TypeInv, ExclusiveInv, Track, NEW j \in JobIds, NEW st, RowMoves(j, st),
           NEW w \in Workspaces, w = jobs[j].ws, j \in Pend(jobs, w)
    PROVE  /\ Pend(jobs', w) = IF st \in {"QUEUED", "RUNNING"} THEN Pend(jobs, w) ELSE Pend(jobs, w) \ {j}
           /\ w \in crossed' <=> w \in crossed /\ Pend(jobs', w) # {}
           /\ Pend(jobs', w) = Pend(jobs, w) => PendingType(w)' = PendingType(w)
           /\ PendingType(w)' \in LifecycleTypes \cup {"NONE"}
           /\ PendingType(w)' = "NONE" <=> Pend(jobs', w) = {}
<1>1. Pend(jobs', w) = IF st \in {"QUEUED", "RUNNING"} THEN Pend(jobs, w) ELSE Pend(jobs, w) \ {j}
  BY DEF RowMoves, Pend
<1>2. \A i \in JobIds : jobs'[i].type = jobs[i].type
  BY DEF RowMoves
<1>3. w \in crossed' <=> w \in crossed /\ Pend(jobs', w) # {}
  <2>1. \A i \in JobIds : jobs[i].ws # w \/ jobs[i].type \in LifecycleTypes \/ jobs'[i].st = jobs[i].st
    BY DEF RowMoves, Pend
  <2> QED
    BY <1>2, <2>1, NotCrossing
<1>4. Pend(jobs', w) = Pend(jobs, w) => PendingType(w)' = PendingType(w)
  <2>1. \A i \in Pend(jobs, w) : jobs'[i].type = jobs[i].type
    BY <1>2 DEF Pend
  <2> QED
    BY <2>1, SamePending
<1>5. \A i \in Pend(jobs', w) : jobs'[i].type \in LifecycleTypes
  BY DEF Pend
<1>6. "NONE" \notin LifecycleTypes
  BY DEF LifecycleTypes
<1> QED
  BY <1>1, <1>3, <1>4, <1>5, <1>6, PendingTypeIs

\* The row of a job that is no operation moves, and the status may change with it.
LEMMA OtherMoves ==
    ASSUME TypeInv, QueueInv, ExclusiveInv, Track, NEW j \in JobIds, NEW st \in JobStatuses, RowMoves(j, st),
           NEW w \in Workspaces, w = jobs[j].ws, jobs[j].type \notin LifecycleTypes,
           ws'[w] = ws[w] \/ (st = "FAILED" /\ jobs[j].st # "FAILED")
    PROVE  /\ Pend(jobs', w) = Pend(jobs, w) /\ PendingType(w)' = PendingType(w)
           /\ ws'[w] = ws[w] => Kept(w)
           /\ ws'[w] # ws[w] => (w \in crossed' <=> Pend(jobs, w) # {}) /\ GivenUp(w)
<1>1. Pend(jobs', w) = Pend(jobs, w) /\ \A i \in Pend(jobs, w) : jobs'[i].type = jobs[i].type
  BY DEF RowMoves, Pend
<1>2. PendingType(w)' = PendingType(w)
  BY <1>1, SamePending
<1>3. ASSUME ws'[w] = ws[w] PROVE Kept(w)
  <2>1. \A i \in JobIds : jobs[i].st = "FREE" => jobs'[i].type = jobs[i].type
    BY DEF RowMoves
  <2>2. w \in crossed' <=> w \in crossed /\ Pend(jobs', w) # {}
    BY <1>3, <2>1, NotCrossing
  <2> QED
    BY <1>1, <1>2, <1>3, <2>2 DEF Kept, ExclusiveInv, CrossedPending
<1>4. ASSUME ws'[w] # ws[w] PROVE (w \in crossed' <=> Pend(jobs, w) # {}) /\ GivenUp(w)
  <2>1. GivenUp(w)
    BY <1>4 DEF GivenUp, RowMoves
  <2> QED
    BY <1>1, <2>1, TrackIs
<1> QED
  BY <1>1, <1>2, <1>3, <1>4

-----------------------------------------------------------------------------
(* The kinds of step, as the owners of the workspaces see them *)

\* What the owner may see of an operation of type t while it goes on.
GoesOn(t, old, new) ==
    \/ new = old
    \/ t = "CREATE" /\ new = "CREATING"
    \/ t \in NodeWaitTypes /\ new = "PENDING"

\* ... and what is written of it: it goes on, or it ends in the status it is for or ERROR.
OwnerSees(k, st, new) ==
    \/ st \in {"QUEUED", "RUNNING"} /\ GoesOn(RowOf(k).type, ws[RowOf(k).ws], new)
    \/ st \in {"SUCCEEDED", "FAILED"} /\ new \in SuccessStatus(RowOf(k).type, ws[RowOf(k).ws]) \cup {"ERROR"}

\* Agent k writes the row it holds; the status of no other workspace changes.
HolderWrites(k, st) ==
    /\ k \in Agents /\ tx[k] # NoTx /\ st \in JobStatuses
    /\ RowMoves(tx[k].job, st)
    /\ \A v \in Workspaces : v # RowOf(k).ws => ws'[v] = ws[v]
    /\ tx'[k] = NoTx \/ (tx'[k].job = tx[k].job /\ st = "RUNNING")
    /\ \A a \in Agents : a # k => tx'[a] = tx[a]

OperationWrites(k, st) ==
    /\ HolderWrites(k, st)
    /\ RowOf(k).type \in LifecycleTypes
    /\ ws'[RowOf(k).ws] \in Statuses
    /\ RowOf(k).ws \notin crossed => /\ OwnerSees(k, st, ws'[RowOf(k).ws])
                                     /\ tx'[k] = NoTx \/ tx'[k].seen = ws'[RowOf(k).ws]

\* A job that is no operation leaves the status alone, unless it is given up.
SideWrites(k, st) ==
    /\ HolderWrites(k, st)
    /\ RowOf(k).type \notin LifecycleTypes
    /\ ws'[RowOf(k).ws] = ws[RowOf(k).ws] \/ (st = "FAILED" /\ ws'[RowOf(k).ws] = "ERROR")

\* A request for an operation of type t of workspace w becomes job j.
Inserts(j, w, t) ==
    /\ w \in Workspaces /\ t \in LifecycleTypes /\ j \in JobIds
    /\ jobs[j].st = "FREE"
    /\ jobs'[j].ws = w /\ jobs'[j].type = t /\ jobs'[j].st = "QUEUED"
    /\ \A i \in JobIds : i # j => jobs'[i] = jobs[i]
    /\ ws'[w] = IntentStatus(t)
    /\ \A v \in Workspaces : v # w => ws'[v] = ws[v]
    /\ tx' = tx

\* No workspace is concerned; agent k may have opened or closed its session.
Calm(k) ==
    /\ \A v \in Workspaces : Kept(v)
    /\ \A i \in JobIds : jobs[i] # NoRow => jobs'[i].ws = jobs[i].ws /\ jobs'[i].type = jobs[i].type
    /\ \A a \in Agents : a # k => tx'[a] = tx[a]
    /\ k \in Agents => \/ tx'[k] \in {tx[k], NoTx}
                       \/ tx'[k].seen = ws[jobs[tx'[k].job].ws] /\ jobs[tx'[k].job] # NoRow /\ tx'[k].job \in JobIds
                       \/ tx[k] # NoTx /\ tx'[k].seen = tx[k].seen /\ tx'[k].job = tx[k].job

StepKind ==
    \/ \E k : Calm(k)
    \/ \E k, st : OperationWrites(k, st) \/ SideWrites(k, st)
    \/ \E j, w, t : Inserts(j, w, t)

LEMMA QuietKept ==
    ASSUME TypeInv, ExclusiveInv, Track, ws' = ws,
           \A i \in JobIds : jobs'[i].ws = jobs[i].ws /\ jobs'[i].type = jobs[i].type /\ jobs'[i].st = jobs[i].st
    PROVE  \A v \in Workspaces : Kept(v)
<1> SUFFICES ASSUME NEW v \in Workspaces PROVE Kept(v)
  OBVIOUS
<1>1. Pend(jobs', v) = Pend(jobs, v) /\ \A i \in Pend(jobs, v) : jobs'[i].type = jobs[i].type
  BY DEF Pend
<1>2. PendingType(v)' = PendingType(v)
  BY <1>1, SamePending
<1>3. v \in crossed' <=> v \in crossed /\ Pend(jobs', v) # {}
  BY NotCrossing
<1> QED
  BY <1>1, <1>2, <1>3 DEF Kept, ExclusiveInv, CrossedPending

LEMMA SuccessOf ==
    ASSUME NEW t \in LifecycleTypes, NEW u, NEW v
    PROVE  /\ SuccessStatus(t, u) = SuccessStatus(t, v) /\ SuccessStatus(t, v) \subseteq Settled
           /\ t = "DELETE" => "DELETED" \in SuccessStatus(t, v)
BY DEF LifecycleTypes, SuccessStatus, Settled, SideTypes, SnapshotTypes

LEMMA SuccessOfSide ==
    ASSUME NEW t \in Types, t \notin LifecycleTypes, NEW u, NEW s \in SuccessStatus(t, u)
    PROVE  s = u
BY DEF Types, LifecycleTypes, SuccessStatus, Settled, SideTypes, SnapshotTypes

\* What the holder's session has in memory.
LEMMA HeldGoesOn ==
    ASSUME TypeInv, QueueInv, ExclusiveInv, NEW k \in Agents, tx[k] # NoTx
    PROVE  /\ Cur(k) \in Statuses
           /\ RowOf(k).type \in LifecycleTypes /\ RowOf(k).ws \notin crossed
                => GoesOn(RowOf(k).type, ws[RowOf(k).ws], Cur(k)) /\ tx[k].seen = ws[RowOf(k).ws]
           /\ RowOf(k).type \notin LifecycleTypes
                => Cur(k) = IF tx[k].phase = "lost" THEN ws[RowOf(k).ws] ELSE tx[k].seen
<1>1. tx[k] \in OpenSession /\ tx[k].phase # "idle" /\ RowOf(k).ws \in Workspaces
  BY OpenTypes DEF OpenSession
<1>2. tx[k].phase # "lost" => tx[k].cur = tx[k].seen \/ (tx[k].cur = "CREATING" /\ RowOf(k).type = "CREATE")
  BY <1>1 DEF QueueInv, SessionStatus
<1>3. Cur(k) = IF tx[k].phase = "lost" THEN ws[RowOf(k).ws] ELSE tx[k].cur
  BY DEF Cur
<1>4. "CREATE" \in LifecycleTypes
  BY DEF LifecycleTypes
<1>5. ws[RowOf(k).ws] \in Statuses /\ tx[k].cur \in Statuses
  BY <1>1 DEF TypeInv, TypeOK, OpenSession
<1> QED
  BY <1>1, <1>2, <1>3, <1>4, <1>5, HeldOperation DEF GoesOn

\* The session commits.
LEMMA CommitMoves ==
    ASSUME TypeInv, QueueInv, NEW k \in Agents, tx[k] # NoTx,
           NEW st \in JobStatuses, NEW new \in Statuses, CommitSession(k, st, new)
    PROVE  /\ HolderWrites(k, st) /\ tx'[k] = NoTx
           /\ ws'[RowOf(k).ws] = IF tx[k].phase # "lost" /\ new = tx[k].seen THEN ws[RowOf(k).ws] ELSE new
<1> DEFINE j == tx[k].job  w == RowOf(k).ws
           n == IF tx[k].phase \in {"claimed", "placed"} THEN tx[k].att ELSE RowOf(k).attempt
<1>1. j \in JobIds /\ jobs[j] \in InsertedRow /\ n \in 0 .. MaxAttempts /\ w \in Workspaces
  BY OpenTypes DEF RowOf
<1>2. /\ jobs' = [jobs EXCEPT ![j] = WithOutcome(jobs[j], st, n)]
      /\ tx' = [tx EXCEPT ![k] = NoTx]
      /\ ws' = [ws EXCEPT ![w] = IF tx[k].phase # "lost" /\ new = tx[k].seen THEN ws[w] ELSE new]
  BY <1>1 DEF CommitSession, TypeInv, TypeOK
<1> HIDE DEF n, j, w
<1>3. /\ jobs'[j].ws = jobs[j].ws /\ jobs'[j].type = jobs[j].type
      /\ jobs'[j].st = st /\ \A i \in JobIds : i # j => jobs'[i] = jobs[i]
  BY <1>1, <1>2, OutcomeRow DEF TypeInv, TypeOK
<1>4. RowMoves(j, st)
  BY <1>1, <1>3 DEF RowMoves
<1>5. tx'[k] = NoTx /\ \A a \in Agents : a # k => tx'[a] = tx[a]
  BY <1>2 DEF TypeInv, TypeOK
<1>6. /\ \A v \in Workspaces : v # w => ws'[v] = ws[v]
      /\ ws'[w] = IF tx[k].phase # "lost" /\ new = tx[k].seen THEN ws[w] ELSE new
  BY <1>1, <1>2 DEF TypeInv, TypeOK
<1> QED
  BY <1>4, <1>5, <1>6 DEF HolderWrites, j, w

LEMMA PublishKind ==
    ASSUME TypeInv, QueueInv, ExclusiveInv, NEW k \in Workers, Publish(k)
    PROVE  StepKind
<1>1. k \in Agents /\ tx[k] # NoTx /\ tx[k] \in OpenSession /\ tx[k].phase = "placed"
  BY DEF Agents, Publish, Holding, TypeInv, TypeOK, NoTx
<1> DEFINE j == tx[k].job  w == RowOf(k).ws  n == tx[k].att
<1>2. j \in JobIds /\ jobs[j] \in InsertedRow /\ n \in 0 .. MaxAttempts /\ w \in Workspaces
  BY <1>1, OpenTypes DEF RowOf
<1>3. tx' = [tx EXCEPT ![k] = [tx[k] EXCEPT !.phase = "published", !.seen = tx[k].cur]]
  BY <1>1 DEF Publish, TypeInv, TypeOK
<1>4. /\ tx'[k].job = tx[k].job /\ tx'[k].seen = tx[k].cur
      /\ \A a \in Agents : a # k => tx'[a] = tx[a]
  BY <1>1, <1>3 DEF OpenSession, TypeInv, TypeOK
<1>5. /\ jobs' = [jobs EXCEPT ![j] = WithOutcome(jobs[j], "RUNNING", n)]
      /\ ws' = [ws EXCEPT ![w] = IF tx[k].cur = tx[k].seen THEN ws[w] ELSE tx[k].cur]
  BY <1>2 DEF Publish, TypeInv, TypeOK
<1>6. Cur(k) = tx[k].cur
  BY <1>1 DEF Cur
<1> HIDE DEF n, j, w
<1>7. "RUNNING" \in JobStatuses
  BY DEF JobStatuses
<1>8. RowMoves(j, "RUNNING")
  <2>1. /\ jobs'[j].ws = jobs[j].ws /\ jobs'[j].type = jobs[j].type
        /\ jobs'[j].st = "RUNNING" /\ \A i \in JobIds : i # j => jobs'[i] = jobs[i]
    BY <1>2, <1>5, <1>7, OutcomeRow DEF TypeInv, TypeOK
  <2> QED
    BY <1>2, <2>1 DEF RowMoves
<1>9. /\ \A v \in Workspaces : v # w => ws'[v] = ws[v]
      /\ ws'[w] = IF tx[k].cur = tx[k].seen THEN ws[w] ELSE tx[k].cur
  BY <1>2, <1>5 DEF TypeInv, TypeOK
<1>10. HolderWrites(k, "RUNNING")
  BY <1>1, <1>4, <1>7, <1>8, <1>9 DEF HolderWrites, j, w
<1>11. CASE RowOf(k).type \in LifecycleTypes
  <2>1. ws'[w] \in Statuses
    BY <1>1, <1>2, <1>9 DEF TypeInv, TypeOK, OpenSession
  <2>2. ASSUME w \notin crossed PROVE OwnerSees(k, "RUNNING", ws'[w]) /\ tx'[k].seen = ws'[w]
    <3>1. GoesOn(RowOf(k).type, ws[w], tx[k].cur) /\ tx[k].seen = ws[w]
      BY <1>1, <1>6, <1>11, <2>2, HeldGoesOn DEF w
    <3>2. ws'[w] = tx[k].cur
      BY <1>9, <3>1
    <3> QED
      BY <1>4, <3>1, <3>2 DEF OwnerSees, w
  <2>3. OperationWrites(k, "RUNNING")
    BY <1>10, <1>11, <2>1, <2>2 DEF OperationWrites, w
  <2> QED
    BY <2>3 DEF StepKind
<1>12. CASE RowOf(k).type \notin LifecycleTypes
  <2>1. tx[k].cur = tx[k].seen
    BY <1>1, <1>6, <1>12, HeldGoesOn
  <2>2. SideWrites(k, "RUNNING")
    BY <1>9, <1>10, <1>12, <2>1 DEF SideWrites, w
  <2> QED
    BY <2>2 DEF StepKind
<1> QED
  BY <1>11, <1>12

\* A session of an operation ends.
LEMMA OperationEnds ==
    ASSUME TypeInv, QueueInv, ExclusiveInv, NEW k \in Agents, tx[k] # NoTx, RowOf(k).type \in LifecycleTypes,
           NEW st \in JobStatuses, NEW new \in Statuses, CommitSession(k, st, new),
           RowOf(k).ws \notin crossed => OwnerSees(k, st, new)
    PROVE  StepKind
<1>1. /\ HolderWrites(k, st) /\ tx'[k] = NoTx
      /\ ws'[RowOf(k).ws] = IF tx[k].phase # "lost" /\ new = tx[k].seen THEN ws[RowOf(k).ws] ELSE new
  BY CommitMoves
<1>2. ws'[RowOf(k).ws] \in Statuses
  BY <1>1, OpenTypes DEF TypeInv, TypeOK
<1>3. RowOf(k).ws \notin crossed => ws'[RowOf(k).ws] = new
  BY <1>1, HeldGoesOn
<1>4. OperationWrites(k, st)
  BY <1>1, <1>2, <1>3 DEF OperationWrites
<1> QED
  BY <1>4 DEF StepKind

\* A session of another job ends.
LEMMA SideEnds ==
    ASSUME TypeInv, QueueInv, ExclusiveInv, NEW k \in Agents, tx[k] # NoTx, RowOf(k).type \notin LifecycleTypes,
           NEW st \in JobStatuses, NEW new, CommitSession(k, st, new),
           new = Cur(k) \/ (st = "FAILED" /\ new = "ERROR")
    PROVE  StepKind
<1>1. Cur(k) \in Statuses /\ Cur(k) = IF tx[k].phase = "lost" THEN ws[RowOf(k).ws] ELSE tx[k].seen
  BY HeldGoesOn
<1>2. new \in Statuses
  BY <1>1 DEF Statuses, Settled
<1>3. /\ HolderWrites(k, st)
      /\ ws'[RowOf(k).ws] = IF tx[k].phase # "lost" /\ new = tx[k].seen THEN ws[RowOf(k).ws] ELSE new
  BY <1>2, CommitMoves
<1>4. SideWrites(k, st)
  BY <1>1, <1>3 DEF SideWrites
<1> QED
  BY <1>4 DEF StepKind

LEMMA RetryKind ==
    ASSUME TypeInv, QueueInv, ExclusiveInv, NEW k \in Agents, tx[k] # NoTx, NEW terminal, RetryOrFail(k, terminal),
           terminal = "ERROR" \/ (terminal = Cur(k) /\ RowOf(k).type \notin LifecycleTypes)
    PROVE  StepKind
<1>1. "QUEUED" \in JobStatuses /\ "FAILED" \in JobStatuses /\ "ERROR" \in Statuses
  BY DEF JobStatuses, Statuses, Settled
<1>2. Cur(k) \in Statuses
  BY HeldGoesOn
<1>3. CommitSession(k, "QUEUED", Cur(k)) \/ CommitSession(k, "FAILED", terminal)
  BY DEF RetryOrFail
<1>4. CASE RowOf(k).type \in LifecycleTypes
  <2>1. /\ RowOf(k).ws \notin crossed => OwnerSees(k, "QUEUED", Cur(k))
        /\ OwnerSees(k, "FAILED", "ERROR")
    BY <1>4, HeldGoesOn DEF OwnerSees
  <2> QED
    BY <1>1, <1>2, <1>3, <1>4, <2>1, OperationEnds
<1>5. CASE RowOf(k).type \notin LifecycleTypes
  BY <1>1, <1>3, <1>5, SideEnds
<1> QED
  BY <1>4, <1>5

LEMMA OutcomeKind ==
    ASSUME TypeInv, QueueInv, ExclusiveInv, NEW k \in Workers, Outcome(k)
    PROVE  StepKind
<1>1. k \in Agents /\ tx[k] # NoTx /\ RowOf(k).type \in Types
  BY OutcomeEnds, OpenTypes DEF Agents, InsertedRow
<1>2. /\ {"QUEUED", "SUCCEEDED", "FAILED"} \subseteq JobStatuses
      /\ {"ERROR", "DELETED", "PENDING"} \subseteq Statuses /\ Settled \subseteq Statuses
  BY DEF JobStatuses, Statuses, Settled, Busy
<1>3. /\ {"DELETE", "STOP", "CREATE", "START"} \subseteq LifecycleTypes /\ NodeWaitTypes \subseteq LifecycleTypes
      /\ "RECONCILE_RUNTIME" \notin LifecycleTypes /\ SnapshotTypes \cap LifecycleTypes = {}
  BY DEF LifecycleTypes, NodeWaitTypes, SnapshotTypes
<1>4. CASE DeleteRuntimeMissing(k)
  <2>1. RowOf(k).type = "DELETE" /\ RowOf(k).type \in LifecycleTypes /\ CommitSession(k, "SUCCEEDED", "DELETED")
    BY <1>3, <1>4 DEF DeleteRuntimeMissing
  <2>2. OwnerSees(k, "SUCCEEDED", "DELETED")
    BY <2>1, SuccessOf DEF OwnerSees
  <2> QED
    BY <1>1, <1>2, <2>1, <2>2, OperationEnds
<1>5. CASE PlacementFails(k) \/ RetryableFailure(k)
  <2>1. RetryOrFail(k, "ERROR")
    BY <1>5 DEF PlacementFails, RetryableFailure
  <2> QED
    BY <1>1, <2>1, RetryKind
<1>6. CASE WaitForNode(k)
  <2>1. /\ RowOf(k).type \in NodeWaitTypes /\ RowOf(k).type \in LifecycleTypes
        /\ CommitSession(k, "FAILED", "ERROR") \/ CommitSession(k, "QUEUED", "PENDING")
    BY <1>3, <1>6 DEF WaitForNode
  <2>2. OwnerSees(k, "FAILED", "ERROR") /\ OwnerSees(k, "QUEUED", "PENDING")
    BY <2>1 DEF OwnerSees, GoesOn
  <2> QED
    BY <1>1, <1>2, <2>1, <2>2, OperationEnds
<1>7. CASE JobSucceeds(k)
  <2>1. PICK s \in SuccessStatus(RowOf(k).type, Cur(k)) : CommitSession(k, "SUCCEEDED", s)
    BY <1>7 DEF JobSucceeds
  <2>2. CASE RowOf(k).type \in LifecycleTypes
    <3>1. s \in SuccessStatus(RowOf(k).type, ws[RowOf(k).ws]) /\ s \in Statuses
      BY <1>2, <2>1, <2>2, SuccessOf
    <3>2. OwnerSees(k, "SUCCEEDED", s)
      BY <3>1 DEF OwnerSees
    <3> QED
      BY <1>1, <1>2, <2>1, <2>2, <3>1, <3>2, OperationEnds
  <2>3. CASE RowOf(k).type \notin LifecycleTypes
    <3>1. s = Cur(k)
      BY <1>1, <2>1, <2>3, SuccessOfSide
    <3> QED
      BY <1>1, <1>2, <2>1, <2>3, <3>1, SideEnds
  <2> QED
    BY <2>2, <2>3
<1>8. CASE FatalFailure(k)
  <2>1. RowOf(k).type \in LifecycleTypes /\ CommitSession(k, "FAILED", "ERROR")
    BY <1>3, <1>8 DEF FatalFailure
  <2>2. OwnerSees(k, "FAILED", "ERROR")
    BY DEF OwnerSees
  <2> QED
    BY <1>1, <1>2, <2>1, <2>2, OperationEnds
<1>9. CASE ReconcileFails(k) \/ ReconcileStopFails(k)
  <2>1. RowOf(k).type \notin LifecycleTypes
    BY <1>3, <1>9 DEF ReconcileFails, ReconcileStopFails
  <2>2. \/ CommitSession(k, "FAILED", "ERROR")
        \/ RetryOrFail(k, "ERROR") \/ RetryOrFail(k, Cur(k))
    BY <1>9 DEF ReconcileFails, ReconcileStopFails
  <2>3. CASE CommitSession(k, "FAILED", "ERROR")
    BY <1>1, <1>2, <2>1, <2>3, SideEnds
  <2> QED
    BY <1>1, <2>1, <2>2, <2>3, RetryKind
<1>10. CASE SnapshotFails(k)
  <2>1. RowOf(k).type \notin LifecycleTypes
    BY <1>3, <1>10 DEF SnapshotFails
  <2>2. CommitSession(k, "FAILED", Cur(k)) \/ RetryOrFail(k, Cur(k))
    BY <1>10 DEF SnapshotFails
  <2>3. CASE CommitSession(k, "FAILED", Cur(k))
    BY <1>1, <1>2, <2>1, <2>3, SideEnds
  <2> QED
    BY <1>1, <2>1, <2>2, <2>3, RetryKind
<1> QED
  BY <1>4, <1>5, <1>6, <1>7, <1>8, <1>9, <1>10 DEF Outcome

\* An accepted request: of an operation, or of something beside it.
LEMMA CommitKind ==
    ASSUME TypeInv, QueueInv, ExclusiveInv, Track, NEW h \in Handlers, NEW j \in JobIds, IntentCommit(h, j)
    PROVE  StepKind
<1>1. /\ req[h] \in Request /\ jobs[j].st = "FREE" /\ tx' = tx
      /\ jobs' = [jobs EXCEPT ![j] = [ws |-> req[h].ws, type |-> req[h].type,
                                      st |-> "QUEUED", attempt |-> 0,
                                      delayed |-> FALSE, expired |-> FALSE]]
      /\ ws' = IF req[h].type \in LifecycleTypes
               THEN [ws EXCEPT ![req[h].ws] = IntentStatus(req[h].type)] ELSE ws
  BY DEF IntentCommit, NextId, TypeInv, TypeOK
<1>2. /\ jobs'[j].ws = req[h].ws /\ jobs'[j].type = req[h].type /\ jobs'[j].st = "QUEUED"
      /\ \A i \in JobIds : i # j => jobs'[i] = jobs[i]
  BY <1>1 DEF TypeInv, TypeOK
<1>3. req[h].ws \in Workspaces
  BY <1>1 DEF Request
<1>4. CASE req[h].type \in LifecycleTypes
  <2>1. ws'[req[h].ws] = IntentStatus(req[h].type) /\ \A v \in Workspaces : v # req[h].ws => ws'[v] = ws[v]
    BY <1>1, <1>3, <1>4 DEF TypeInv, TypeOK
  <2>2. Inserts(j, req[h].ws, req[h].type)
    BY <1>1, <1>2, <1>3, <1>4, <2>1 DEF Inserts
  <2> QED
    BY <2>2 DEF StepKind
<1>5. CASE req[h].type \notin LifecycleTypes
  <2>1. jobs[j] = NoRow /\ jobs[j].type \notin LifecycleTypes
    BY <1>1, FreeRow
  <2>2. ASSUME NEW v \in Workspaces PROVE Kept(v)
    <3>1. ws'[v] = ws[v]
      BY <1>1, <1>5
    <3>2. Pend(jobs', v) = Pend(jobs, v) /\ \A i \in Pend(jobs, v) : jobs'[i].type = jobs[i].type
      BY <1>2, <1>5, <2>1 DEF Pend
    <3>3. PendingType(v)' = PendingType(v)
      BY <3>2, SamePending
    <3>4. \A i \in JobIds : jobs[i].st = "FREE" => \/ jobs'[i].type = jobs[i].type
                                                   \/ jobs'[i].type \notin LifecycleTypes
      BY <1>2, <1>5
    <3>5. v \in crossed' <=> v \in crossed /\ Pend(jobs', v) # {}
      BY <3>1, <3>4, NotCrossing
    <3> QED
      BY <3>1, <3>2, <3>3, <3>5 DEF Kept, ExclusiveInv, CrossedPending
  <2>3. Calm(CHOOSE x : x \notin Agents)
    <3>1. PICK x : x = CHOOSE y : y \notin Agents
      OBVIOUS
    <3>2. Calm(x)
      BY <1>1, <1>2, <2>1, <2>2 DEF Calm
    <3> QED
      BY <3>1, <3>2
  <2> QED
    BY <2>3 DEF StepKind
<1> QED
  BY <1>4, <1>5

LEMMA StepHasKind ==
    ASSUME TypeInv, QueueInv, ExclusiveInv, Track, [Next]_vars
    PROVE  StepKind
<1>1. ASSUME NEW k, UNCHANGED <<ws, jobs>>,
             \A a \in Agents : a # k => tx'[a] = tx[a],
             k \in Agents => \/ tx'[k] \in {tx[k], NoTx}
                             \/ tx'[k].seen = ws[jobs[tx'[k].job].ws] /\ jobs[tx'[k].job] # NoRow
                                /\ tx'[k].job \in JobIds
                             \/ tx[k] # NoTx /\ tx'[k].seen = tx[k].seen /\ tx'[k].job = tx[k].job
      PROVE  StepKind
  <2>1. \A v \in Workspaces : Kept(v)
    BY <1>1, QuietKept
  <2>2. Calm(k)
    BY <1>1, <2>1 DEF Calm
  <2> QED
    BY <2>2 DEF StepKind
<1>2. ASSUME UNCHANGED <<ws, jobs, tx>> PROVE StepKind
  BY <1>1, <1>2
<1>3. ASSUME NEW a \in Agents, NEW j \in JobIds, TakeRow(a, j) \/ ReclaimRead(a, j) PROVE StepKind
  <2>1. jobs[j] # NoRow
    BY <1>3 DEF TakeRow, Eligible, ReclaimRead, NoRow
  <2>2. /\ UNCHANGED <<ws, jobs>> /\ tx'[a].seen = ws[jobs[j].ws] /\ tx'[a].job = j
        /\ \A b \in Agents : b # a => tx'[b] = tx[b]
    BY <1>3 DEF TakeRow, ReclaimRead, TypeInv, TypeOK
  <2> QED
    BY <1>1, <2>1, <2>2
<1>4. ASSUME NEW h \in Handlers, HandlerStep(h) PROVE StepKind
  <2>1. CASE \E j \in JobIds : IntentCommit(h, j)
    BY <2>1, CommitKind
  <2>2. CASE UNCHANGED <<ws, jobs, tx>>
    BY <1>2, <2>2
  <2> QED
    BY <1>4, <2>1, <2>2 DEF HandlerStep, IntentRead, IntentRefused
<1>5. ASSUME NEW k \in Workers, WorkerStep(k) PROVE StepKind
  <2> k \in Agents
    BY DEF Agents
  <2>1. CASE Outcome(k)
    BY <2>1, OutcomeKind
  <2>2. CASE Publish(k)
    BY <2>2, PublishKind
  <2>3. CASE Place(k) \/ LoseClaim(k)
    <3>1. tx[k] # NoTx /\ tx[k] \in OpenSession
      BY <2>3 DEF Place, LoseClaim, Holding, TypeInv, TypeOK, NoTx
    <3>2. /\ UNCHANGED <<ws, jobs>> /\ tx'[k].seen = tx[k].seen /\ tx'[k].job = tx[k].job
          /\ \A b \in Agents : b # k => tx'[b] = tx[b]
      BY <2>3, <3>1 DEF Place, LoseClaim, TypeInv, TypeOK, OpenSession
    <3> QED
      BY <1>1, <3>1, <3>2
  <2>4. CASE Crash(k) \/ ImportRaises(k)
    <3>1. UNCHANGED <<ws, jobs>> /\ tx'[k] = NoTx /\ \A a \in Agents : a # k => tx'[a] = tx[a]
      BY <2>4 DEF Crash, ImportRaises, TypeInv, TypeOK
    <3> QED
      BY <1>1, <3>1
  <2> QED
    BY <1>3, <1>5, <2>1, <2>2, <2>3, <2>4 DEF WorkerStep, ClaimNext, ClaimById
<1>6. ASSUME NEW r \in Reclaimers, ReclaimStep(r) PROVE StepKind
  <2> r \in Agents
    BY DEF Agents
  <2>1. CASE ReclaimCommit(r)
    <3>1. tx[r] # NoTx
      BY <2>1, ReclaimEnds
    <3>2. RetryOrFail(r, IF RowOf(r).type \in LifecycleTypes THEN "ERROR" ELSE Cur(r))
      BY <2>1 DEF ReclaimCommit
    <3> QED
      BY <3>1, <3>2, RetryKind
  <2> QED
    BY <1>3, <1>6, <2>1 DEF ReclaimStep
<1>7. ASSUME NEW i \in JobIds, TimeStep(i) PROVE StepKind
  <2>1. UNCHANGED <<ws, tx>>
    BY <1>7 DEF TimeStep, BackoffElapses, CapacityWindowElapses
  <2>2. jobs[i] \in InsertedRow
    BY <1>7 DEF TimeStep, BackoffElapses, CapacityWindowElapses, Active, TypeInv, TypeOK, NoRow
  <2>3. \A j \in JobIds : jobs'[j].ws = jobs[j].ws /\ jobs'[j].type = jobs[j].type /\ jobs'[j].st = jobs[j].st
    BY <1>7, <2>2 DEF TimeStep, BackoffElapses, CapacityWindowElapses, TypeInv, TypeOK, InsertedRow
  <2>4. \A v \in Workspaces : Kept(v)
    BY <2>1, <2>3, QuietKept
  <2>5. Calm(i)
    BY <2>1, <2>3, <2>4 DEF Calm
  <2> QED
    BY <2>5 DEF StepKind
<1>8. CASE UNCHANGED vars
  BY <1>2, <1>8 DEF vars
<1> QED
  BY <1>4, <1>5, <1>6, <1>7, <1>8 DEF Next


-----------------------------------------------------------------------------
(* Every step keeps operations apart *)

\* One workspace w and the sessions of agents K are concerned.
LEMMA OneConcerned ==
    ASSUME TypeInv, QueueInv, ExclusiveInv, Track, NEW w, NEW K,
           \A v \in Workspaces : v # w => Kept(v),
           \A i \in JobIds : jobs[i] # NoRow => jobs'[i].ws = jobs[i].ws /\ jobs'[i].type = jobs[i].type,
           \A a \in Agents \ K : tx'[a] = tx[a],
           w \in Workspaces /\ w \notin crossed'
              => /\ \A i, j \in Pend(jobs', w) : i = j
                 /\ Pend(jobs', w) # {} => ws'[w] \in Busy
                 /\ \A a \in Agents \ K : /\ tx[a] # NoTx
                                          /\ RowOf(a).type \in LifecycleTypes /\ RowOf(a).ws = w
                                          => tx[a].seen = ws'[w],
           \A k \in Agents \cap K : /\ tx'[k] # NoTx
                                    /\ jobs'[tx'[k].job].type \in LifecycleTypes
                                    /\ jobs'[tx'[k].job].ws \notin crossed'
                                    => tx'[k].seen = ws'[jobs'[tx'[k].job].ws]
    PROVE  ExclusiveInv'
<1>1. CrossedPending'
  BY TrackIs DEF CrossedPending
<1>2. OnePending'
  BY DEF OnePending, ExclusiveInv, Kept
<1>3. PendingBusy'
  BY DEF PendingBusy, ExclusiveInv, Kept
<1>4. SeenFresh'
  <2> SUFFICES ASSUME NEW a \in Agents, tx'[a] # NoTx, jobs'[tx'[a].job].type \in LifecycleTypes,
                      jobs'[tx'[a].job].ws \notin crossed'
               PROVE  tx'[a].seen = ws'[jobs'[tx'[a].job].ws]
    BY DEF SeenFresh, RowOf
  <2>1. CASE a \in K
    BY <2>1
  <2>2. CASE a \notin K
    <3>1. tx'[a] = tx[a] /\ tx[a] # NoTx
      BY <2>2
    <3>2. /\ tx[a].job \in JobIds /\ jobs[tx[a].job] = RowOf(a) /\ RowOf(a) \in InsertedRow
          /\ RowOf(a).ws \in Workspaces
      BY <3>1, HeldPending
    <3>3. jobs'[tx[a].job].ws = RowOf(a).ws /\ jobs'[tx[a].job].type = RowOf(a).type
      BY <3>2, NullsApart
    <3>4. CASE RowOf(a).ws = w
      BY <2>2, <3>1, <3>2, <3>3, <3>4
    <3>5. CASE RowOf(a).ws # w
      <4>1. Kept(RowOf(a).ws)
        BY <3>2, <3>5
      <4>2. RowOf(a).ws \notin crossed /\ ws'[RowOf(a).ws] = ws[RowOf(a).ws]
        BY <3>1, <3>3, <4>1 DEF Kept
      <4> QED
        BY <3>1, <3>3, <4>2 DEF ExclusiveInv, SeenFresh
    <3> QED
      BY <3>4, <3>5
  <2> QED
    BY <2>1, <2>2
<1> QED
  BY <1>1, <1>2, <1>3, <1>4 DEF ExclusiveInv

LEMMA CalmExclusive ==
    ASSUME TypeInv, QueueInv, ExclusiveInv, Track, NEW k, Calm(k)
    PROVE  ExclusiveInv'
<1>1. /\ \A v \in Workspaces : Kept(v)
      /\ \A i \in JobIds : jobs[i] # NoRow => jobs'[i].ws = jobs[i].ws /\ jobs'[i].type = jobs[i].type
      /\ \A a \in Agents : a # k => tx'[a] = tx[a]
  BY DEF Calm
<1>2. ASSUME k \in Agents, tx'[k] # NoTx, jobs'[tx'[k].job].type \in LifecycleTypes,
             jobs'[tx'[k].job].ws \notin crossed'
      PROVE  tx'[k].seen = ws'[jobs'[tx'[k].job].ws]
  <2>1. \/ tx'[k].seen = ws[jobs[tx'[k].job].ws] /\ jobs[tx'[k].job] # NoRow /\ tx'[k].job \in JobIds
        \/ tx[k] # NoTx /\ tx'[k].seen = tx[k].seen /\ tx'[k].job = tx[k].job
    BY <1>2 DEF Calm
  <2>2. tx'[k].job \in JobIds /\ jobs[tx'[k].job] # NoRow /\ jobs[tx'[k].job].ws \in Workspaces
    BY <1>2, <2>1, HeldPending, NullsApart DEF TypeInv, TypeOK, InsertedRow
  <2>3. jobs'[tx'[k].job].ws = jobs[tx'[k].job].ws /\ jobs'[tx'[k].job].type = jobs[tx'[k].job].type
    BY <1>1, <2>2
  <2>4. ws'[jobs[tx'[k].job].ws] = ws[jobs[tx'[k].job].ws] /\ jobs[tx'[k].job].ws \notin crossed
    BY <1>1, <1>2, <2>2, <2>3 DEF Kept
  <2>5. CASE tx'[k].seen = ws[jobs[tx'[k].job].ws]
    BY <2>3, <2>4, <2>5
  <2>6. CASE tx[k] # NoTx /\ tx'[k].seen = tx[k].seen /\ tx'[k].job = tx[k].job
    <3>1. tx[k].seen = ws[jobs[tx[k].job].ws]
      BY <1>2, <2>3, <2>4, <2>6 DEF ExclusiveInv, SeenFresh, RowOf
    <3> QED
      BY <2>3, <2>4, <2>6, <3>1
  <2> QED
    BY <2>1, <2>5, <2>6
<1>3. None \notin Workspaces
  BY JobsAssumption
<1>k. PICK K, w : K = {k} /\ w \notin Workspaces
  BY <1>3
<1>4. /\ \A v \in Workspaces : v # w => Kept(v)
      /\ \A a \in Agents \ K : tx'[a] = tx[a]
      /\ \A a \in Agents \cap K : /\ tx'[a] # NoTx
                                  /\ jobs'[tx'[a].job].type \in LifecycleTypes
                                  /\ jobs'[tx'[a].job].ws \notin crossed'
                                  => tx'[a].seen = ws'[jobs'[tx'[a].job].ws]
  BY <1>k, <1>1, <1>2
<1> QED
  BY <1>k, <1>1, <1>4, OneConcerned

\* What a write of k leaves alone.
LEMMA HolderKeeps ==
    ASSUME TypeInv, QueueInv, ExclusiveInv, Track, NEW k, NEW st, HolderWrites(k, st)
    PROVE  /\ \A v \in Workspaces : v # RowOf(k).ws => Kept(v)
           /\ \A i \in JobIds : jobs[i] # NoRow => jobs'[i].ws = jobs[i].ws /\ jobs'[i].type = jobs[i].type
           /\ \A a \in Agents : a # k /\ tx[a] # NoTx => tx[a].job # tx[k].job
<1>1. /\ k \in Agents /\ tx[k] # NoTx /\ st \in JobStatuses /\ RowMoves(tx[k].job, st)
      /\ \A v \in Workspaces : v # RowOf(k).ws => ws'[v] = ws[v]
  BY DEF HolderWrites
<1>2. tx[k].job \in JobIds /\ jobs[tx[k].job] = RowOf(k)
  BY <1>1, HeldPending
<1>3. \A v \in Workspaces : v # RowOf(k).ws => Kept(v)
  BY <1>1, <1>2, MoveKeeps
<1>4. \A i \in JobIds : jobs'[i].ws = jobs[i].ws /\ jobs'[i].type = jobs[i].type
  BY <1>1, <1>2 DEF RowMoves
<1>5. tx[k].job # 0
  BY <1>2, JobsAssumption DEF JobIds
<1>6. \A a \in Agents : a # k /\ tx[a] # NoTx => tx[a].job # tx[k].job
  BY <1>1, <1>5 DEF QueueInv, OneHolder
<1> QED
  BY <1>3, <1>4, <1>6

LEMMA OperationExclusive ==
    ASSUME TypeInv, QueueInv, ExclusiveInv, Track, NEW k, NEW st, OperationWrites(k, st)
    PROVE  ExclusiveInv'
<1>1. /\ HolderWrites(k, st) /\ k \in Agents /\ tx[k] # NoTx /\ st \in JobStatuses
      /\ RowMoves(tx[k].job, st) /\ RowOf(k).type \in LifecycleTypes
  BY DEF OperationWrites, HolderWrites
<1>2. PICK j \in JobIds, w \in Workspaces :
        j = tx[k].job /\ w = RowOf(k).ws /\ w = jobs[j].ws /\ j \in Pend(jobs, w)
  BY <1>1, HeldPending
<1>3. /\ Pend(jobs', w) = IF st \in {"QUEUED", "RUNNING"} THEN Pend(jobs, w) ELSE Pend(jobs, w) \ {j}
      /\ w \in crossed' <=> w \in crossed /\ Pend(jobs', w) # {}
  BY <1>1, <1>2, OperationMoves
<1>4. ASSUME NEW a \in Agents, a # k, tx[a] # NoTx, RowOf(a).type \in LifecycleTypes, RowOf(a).ws = w
      PROVE  tx[a].job \in Pend(jobs, w) /\ tx[a].job # j
  BY <1>1, <1>2, <1>4, HeldPending, HolderKeeps
<1>5. ASSUME w \notin crossed'
      PROVE  /\ \A i1, i2 \in Pend(jobs', w) : i1 = i2
             /\ Pend(jobs', w) # {} => ws'[w] \in Busy
             /\ \A a \in Agents : ~(a # k /\ tx[a] # NoTx /\ RowOf(a).type \in LifecycleTypes /\ RowOf(a).ws = w)
  <2>1. CASE w \in crossed
    <3>1. Pend(jobs', w) = {}
      BY <1>3, <1>5, <2>1
    <3>2. Pend(jobs, w) \ {j} = {}
      BY <1>2, <1>3, <3>1
    <3> QED
      BY <1>4, <3>1, <3>2
  <2>2. CASE w \notin crossed
    <3>1. Pend(jobs, w) = {j} /\ ws[w] \in Busy
      BY <1>1, <1>2, <2>2, HeldOperation
    <3>2. OwnerSees(k, st, ws'[w])
      BY <1>2, <2>2 DEF OperationWrites
    <3>3. st \in {"QUEUED", "RUNNING"} => ws'[w] \in Busy
      BY <1>2, <3>1, <3>2 DEF OwnerSees, GoesOn, Busy
    <3> QED
      BY <1>3, <1>4, <3>1, <3>3
  <2> QED
    BY <2>1, <2>2
<1>6. ASSUME tx'[k] # NoTx, jobs'[tx'[k].job].ws \notin crossed'
      PROVE  tx'[k].seen = ws'[jobs'[tx'[k].job].ws]
  <2>1. tx'[k].job = j /\ st = "RUNNING" /\ jobs'[j].ws = w
    BY <1>1, <1>2, <1>6 DEF HolderWrites, RowMoves
  <2>2. w \notin crossed
    BY <1>2, <1>3, <1>6, <2>1
  <2> QED
    BY <1>2, <1>6, <2>1, <2>2 DEF OperationWrites
<1>7. \A a \in Agents : a # k => tx'[a] = tx[a]
  BY <1>1 DEF HolderWrites
<1>8. /\ \A v \in Workspaces : v # w => Kept(v)
      /\ \A i \in JobIds : jobs[i] # NoRow => jobs'[i].ws = jobs[i].ws /\ jobs'[i].type = jobs[i].type
  BY <1>1, <1>2, HolderKeeps
<1>k. PICK K : K = {k}
  OBVIOUS
<1> QED
  BY <1>k, <1>5, <1>6, <1>7, <1>8, OneConcerned

LEMMA SideExclusive ==
    ASSUME TypeInv, QueueInv, ExclusiveInv, Track, NEW k, NEW st, SideWrites(k, st)
    PROVE  ExclusiveInv'
<1>1. /\ HolderWrites(k, st) /\ k \in Agents /\ tx[k] # NoTx /\ st \in JobStatuses
      /\ RowMoves(tx[k].job, st) /\ RowOf(k).type \notin LifecycleTypes
      /\ ws'[RowOf(k).ws] = ws[RowOf(k).ws] \/ st = "FAILED"
  BY DEF SideWrites, HolderWrites
<1>2. PICK j \in JobIds, w \in Workspaces :
        /\ j = tx[k].job /\ w = RowOf(k).ws /\ w = jobs[j].ws /\ jobs[j].type \notin LifecycleTypes
        /\ jobs[j].st # "FAILED"
  BY <1>1, HeldPending
<1>3. /\ Pend(jobs', w) = Pend(jobs, w)
      /\ ws'[w] = ws[w] => Kept(w)
      /\ ws'[w] # ws[w] => (w \in crossed' <=> Pend(jobs, w) # {})
  BY <1>1, <1>2, OtherMoves
<1>4. ASSUME w \notin crossed'
      PROVE  /\ \A i1, i2 \in Pend(jobs', w) : i1 = i2
             /\ Pend(jobs', w) # {} => ws'[w] \in Busy
             /\ \A a \in Agents : /\ a # k /\ tx[a] # NoTx
                                  /\ RowOf(a).type \in LifecycleTypes /\ RowOf(a).ws = w
                                  => tx[a].seen = ws'[w]
  <2>1. CASE ws'[w] = ws[w]
    <3>1. w \notin crossed
      BY <1>3, <1>4, <2>1 DEF Kept
    <3> QED
      BY <1>3, <2>1, <3>1 DEF ExclusiveInv, OnePending, PendingBusy, SeenFresh
  <2>2. CASE ws'[w] # ws[w]
    <3>1. Pend(jobs, w) = {}
      BY <1>3, <1>4, <2>2
    <3>2. \A a \in Agents : ~(tx[a] # NoTx /\ RowOf(a).type \in LifecycleTypes /\ RowOf(a).ws = w)
      BY <3>1, HeldPending
    <3> QED
      BY <1>3, <3>1, <3>2
  <2> QED
    BY <2>1, <2>2
<1>5. \A a \in Agents : a # k => tx'[a] = tx[a]
  BY <1>1 DEF HolderWrites
<1>6. /\ \A v \in Workspaces : v # w => Kept(v)
      /\ \A i \in JobIds : jobs[i] # NoRow => jobs'[i].ws = jobs[i].ws /\ jobs'[i].type = jobs[i].type
  BY <1>1, <1>2, HolderKeeps
<1>7. tx'[k] # NoTx => jobs'[tx'[k].job].type \notin LifecycleTypes
  BY <1>1, <1>2 DEF HolderWrites, RowMoves
<1>k. PICK K : K = {k}
  OBVIOUS
<1> QED
  BY <1>k, <1>4, <1>5, <1>6, <1>7, OneConcerned

\* A request becomes a job: the operations of w, and whether it crosses another.
LEMMA InsertIs ==
    ASSUME TypeInv, QueueInv, ExclusiveInv, Track, NEW j, NEW w, NEW t, Inserts(j, w, t)
    PROVE  /\ w \in Workspaces /\ t \in LifecycleTypes /\ j \in JobIds /\ ws'[w] = IntentStatus(t)
           /\ ws'[w] \in Busy /\ jobs'[j].type = t
           /\ Pend(jobs', w) = Pend(jobs, w) \cup {j} /\ j \notin Pend(jobs, w)
           /\ \A i \in Pend(jobs, w) : jobs'[i] = jobs[i]
           /\ w \in crossed' <=> w \in crossed \/ ws[w] \notin IntentFrom(t)
           /\ w \notin crossed' => Pend(jobs, w) = {}
           /\ \A v \in Workspaces : v # w => Kept(v)
           /\ \A i \in JobIds : jobs[i] # NoRow => jobs'[i].ws = jobs[i].ws /\ jobs'[i].type = jobs[i].type
           /\ ws[w] \notin IntentFrom(t) => StaleRequest(w)
<1>1. /\ w \in Workspaces /\ t \in LifecycleTypes /\ j \in JobIds /\ jobs[j].st = "FREE"
      /\ jobs'[j].ws = w /\ jobs'[j].type = t /\ jobs'[j].st = "QUEUED"
      /\ \A i \in JobIds : i # j => jobs'[i] = jobs[i]
      /\ ws'[w] = IntentStatus(t)
      /\ \A v \in Workspaces : v # w => ws'[v] = ws[v]
  BY DEF Inserts
<1>2. jobs[j] = NoRow /\ jobs[j].type \notin LifecycleTypes
  BY <1>1, FreeRow
<1>3. ws'[w] \in Busy
  BY <1>1, StatusTypes
<1>4. /\ Pend(jobs', w) = Pend(jobs, w) \cup {j} /\ j \notin Pend(jobs, w)
      /\ \A i \in Pend(jobs, w) : jobs'[i] = jobs[i]
  BY <1>1, <1>2 DEF Pend
<1>5. \A v : ~GivenUp(v)
  <2>1. \A i \in JobIds : ~(jobs[i].st # "FAILED" /\ jobs'[i].st = "FAILED")
    BY <1>1
  <2> QED
    BY <2>1 DEF GivenUp
<1>6. \A v : StaleRequest(v) <=> v = w /\ ws[w] \notin IntentFrom(t)
  <2>1. \A i \in JobIds : jobs[i].st = "FREE" /\ jobs'[i].type \in LifecycleTypes <=> i = j
    BY <1>1, FreeRow
  <2> QED
    BY <1>1, <2>1 DEF StaleRequest
<1>7. w \in crossed' <=> w \in crossed \/ ws[w] \notin IntentFrom(t)
  BY <1>1, <1>4, <1>5, <1>6, TrackIs
<1>8. w \notin crossed' => Pend(jobs, w) = {}
  BY <1>1, <1>7, IntentFromSettled DEF ExclusiveInv, PendingBusy
<1>9. ASSUME NEW v \in Workspaces, v # w PROVE Kept(v)
  <2>1. Pend(jobs', v) = Pend(jobs, v) /\ \A i \in Pend(jobs, v) : jobs'[i].type = jobs[i].type
    BY <1>1, <1>2, <1>9 DEF Pend
  <2>2. PendingType(v)' = PendingType(v)
    BY <2>1, SamePending
  <2>3. v \in crossed' <=> v \in crossed /\ Pend(jobs', v) # {}
    BY <1>5, <1>6, <1>9, TrackIs
  <2> QED
    BY <1>1, <1>9, <2>1, <2>2, <2>3 DEF Kept, ExclusiveInv, CrossedPending
<1> QED
  BY <1>1, <1>2, <1>3, <1>4, <1>6, <1>7, <1>8, <1>9

LEMMA InsertExclusive ==
    ASSUME TypeInv, QueueInv, ExclusiveInv, Track, NEW j, NEW w, NEW t, Inserts(j, w, t)
    PROVE  ExclusiveInv'
<1>1. ASSUME w \notin crossed'
      PROVE  /\ \A i1, i2 \in Pend(jobs', w) : i1 = i2
             /\ \A a \in Agents : ~(tx[a] # NoTx /\ RowOf(a).type \in LifecycleTypes /\ RowOf(a).ws = w)
  <2>1. Pend(jobs, w) = {} /\ Pend(jobs', w) = {j}
    BY <1>1, InsertIs
  <2> QED
    BY <2>1, HeldPending
<1>2. tx' = tx
  BY DEF Inserts
<1>3. /\ w \in Workspaces /\ ws'[w] \in Busy
      /\ \A v \in Workspaces : v # w => Kept(v)
      /\ \A i \in JobIds : jobs[i] # NoRow => jobs'[i].ws = jobs[i].ws /\ jobs'[i].type = jobs[i].type
  BY InsertIs
<1>4. PICK K : K = {}
  OBVIOUS
<1>5. /\ \A a \in Agents \ K : tx'[a] = tx[a]
      /\ \A a \in Agents \cap K : FALSE
      /\ w \notin crossed'
            => /\ \A i1, i2 \in Pend(jobs', w) : i1 = i2
               /\ Pend(jobs', w) # {} => ws'[w] \in Busy
               /\ \A a \in Agents \ K : /\ tx[a] # NoTx
                                        /\ RowOf(a).type \in LifecycleTypes /\ RowOf(a).ws = w
                                        => tx[a].seen = ws'[w]
  BY <1>1, <1>2, <1>3, <1>4
<1> QED
  BY <1>3, <1>5, OneConcerned

LEMMA ExclusiveStep ==
    ASSUME TypeInv, QueueInv, ExclusiveInv, [Next /\ Track]_intentVars
    PROVE  ExclusiveInv'
<1>1. CASE Next /\ Track
  <2>1. StepKind
    BY <1>1, StepHasKind
  <2> QED
    BY <1>1, <2>1, CalmExclusive, OperationExclusive, SideExclusive, InsertExclusive DEF StepKind
<1>2. CASE UNCHANGED intentVars
  <2>1. UNCHANGED <<ws, jobs, tx, crossed>>
    BY <1>2 DEF intentVars, vars
  <2> QED
    BY <2>1 DEF ExclusiveInv, CrossedPending, OnePending, PendingBusy, SeenFresh, RowOf, Pend
<1> QED
  BY <1>1, <1>2

LEMMA ExclusiveInit == Init /\ crossed = {} => ExclusiveInv
<1> SUFFICES ASSUME Init, crossed = {} PROVE ExclusiveInv
  OBVIOUS
<1>1. \A w : Pend(jobs, w) = {}
  BY DEF Init, NoRow, Pend
<1>2. \A a \in Agents : tx[a] = NoTx
  BY DEF Init
<1> QED
  BY <1>1, <1>2 DEF ExclusiveInv, CrossedPending, OnePending, PendingBusy, SeenFresh

LEMMA ExclusiveAlways ==
    Undisputed => (IntentSpec => [](TypeInv /\ QueueInv /\ Present /\ ExclusiveInv))
<1> SUFFICES ASSUME Undisputed PROVE IntentSpec => [](TypeInv /\ QueueInv /\ Present /\ ExclusiveInv)
  OBVIOUS
<1>1. [Next /\ Track]_intentVars => [Next]_vars
  BY DEF intentVars, vars
<1>2. TypeInv /\ QueueInv /\ [Next]_vars => TypeInv' /\ QueueInv'
  BY TypeStep, QueueStep
<1>3. TypeInv /\ Present /\ [Next]_vars => Present'
  BY PresentStep
<1>4. TypeInv /\ QueueInv /\ ExclusiveInv /\ [Next /\ Track]_intentVars => ExclusiveInv'
  BY ExclusiveStep
<1> QED
  BY <1>1, <1>2, <1>3, <1>4, TypeInit, QueueInit, PresentInit, ExclusiveInit, PTL DEF IntentSpec, IntentInit


\* A workspace that was not crossed is busy while an operation of it is pending, and has
\* one at a time, whatever the number of requests, workers and reclaimers, and whatever
\* snapshots, imports and reconciles run beside it.
THEOREM IntentsAreExclusiveAlways ==
    Undisputed => (IntentSpec => []IntentsAreExclusive)
<1> SUFFICES ASSUME Undisputed PROVE IntentSpec => []IntentsAreExclusive
  OBVIOUS
<1>1. IntentSpec => [](TypeInv /\ QueueInv /\ Present /\ ExclusiveInv)
  BY ExclusiveAlways
<1>2. ExclusiveInv => IntentsAreExclusive
  <2> SUFFICES ASSUME ExclusiveInv, NEW w \in Workspaces \ crossed
               PROVE  (PendingJobs(w) # {} => ws[w] \in Busy) /\ Cardinality(PendingJobs(w)) <= 1
    BY DEF IntentsAreExclusive
  <2>1. PendingJobs(w) # {} => ws[w] \in Busy
    BY PendIs DEF ExclusiveInv, PendingBusy
  <2>2. PendingJobs(w) = {} \/ \E j : PendingJobs(w) = {j}
    BY PendIs DEF ExclusiveInv, OnePending
  <2>3. Cardinality(PendingJobs(w)) \in {0, 1}
    BY <2>2, FS_EmptySet, FS_Singleton
  <2> QED
    BY <2>1, <2>3
<1> QED
  BY <1>1, <1>2, PTL

\* A deleted workspace is left by DELETE, by a request that was checked before, or by a
\* reconcile, snapshot or import that is given up: no late worker brings it back.
THEOREM DeletedIsLeftByDeleteAlways ==
    Undisputed => (IntentSpec => DeletedIsLeftByDelete)
<1> SUFFICES ASSUME Undisputed PROVE IntentSpec => DeletedIsLeftByDelete
  OBVIOUS
<1>1. IntentSpec => [](TypeInv /\ QueueInv /\ Present /\ ExclusiveInv)
  BY ExclusiveAlways
<1>2. ASSUME TypeInv, QueueInv, ExclusiveInv, Next /\ Track,
             NEW w \in Workspaces \ crossed, ws[w] = "DELETED"
      PROVE  ws'[w] \in {"DELETED", "DELETING"} \/ StaleRequest(w) \/ (GivenUp(w) /\ ws'[w] = "ERROR")
  <2>1. "DELETED" \notin Busy
    BY DEF Busy
  <2>2. ASSUME NEW k, Calm(k) PROVE ws'[w] = "DELETED"
    BY <1>2, <2>2 DEF Calm, Kept
  <2>3. ASSUME NEW k, NEW st, OperationWrites(k, st) PROVE ws'[w] = "DELETED"
    <3>1. /\ k \in Agents /\ tx[k] # NoTx /\ RowOf(k).type \in LifecycleTypes
          /\ \A v \in Workspaces : v # RowOf(k).ws => ws'[v] = ws[v]
      BY <2>3 DEF OperationWrites, HolderWrites
    <3>2. RowOf(k).ws # w
      BY <1>2, <2>1, <3>1, HeldOperation
    <3> QED
      BY <1>2, <3>1, <3>2
  <2>4. ASSUME NEW k, NEW st, SideWrites(k, st)
        PROVE  ws'[w] = "DELETED" \/ (GivenUp(w) /\ ws'[w] = "ERROR")
    <3>1. /\ k \in Agents /\ tx[k] # NoTx /\ RowOf(k).type \notin LifecycleTypes /\ st \in JobStatuses
          /\ RowMoves(tx[k].job, st)
          /\ \A v \in Workspaces : v # RowOf(k).ws => ws'[v] = ws[v]
          /\ ws'[RowOf(k).ws] = ws[RowOf(k).ws] \/ (st = "FAILED" /\ ws'[RowOf(k).ws] = "ERROR")
      BY <2>4 DEF SideWrites, HolderWrites
    <3>2. CASE RowOf(k).ws = w
      <4>1. /\ tx[k].job \in JobIds /\ jobs[tx[k].job] = RowOf(k)
            /\ jobs[tx[k].job].st # "FAILED"
        BY <1>2, <3>1, HeldPending
      <4>2. ws'[w] # ws[w] => GivenUp(w)
        BY <1>2, <3>1, <3>2, <4>1, OtherMoves
      <4> QED
        BY <1>2, <3>1, <3>2, <4>2
    <3> QED
      BY <1>2, <3>1, <3>2
  <2>5. ASSUME NEW j, NEW v, NEW t, Inserts(j, v, t)
        PROVE  ws'[w] \in {"DELETED", "DELETING"} \/ StaleRequest(w)
    <3>1. CASE v = w
      <4>1. t \in LifecycleTypes /\ ws'[w] = IntentStatus(t) /\ (ws[w] \notin IntentFrom(t) => StaleRequest(w))
        BY <1>2, <2>5, <3>1, InsertIs
      <4>2. "DELETED" \in IntentFrom(t) => IntentStatus(t) = "DELETING"
        BY <4>1 DEF LifecycleTypes, IntentFrom, IntentStatus
      <4> QED
        BY <1>2, <4>1, <4>2
    <3>2. CASE v # w
      BY <1>2, <2>5, <3>2 DEF Inserts
    <3> QED
      BY <3>1, <3>2
  <2>6. StepKind
    BY <1>2, StepHasKind
  <2> QED
    BY <2>2, <2>3, <2>4, <2>5, <2>6 DEF StepKind
<1>3. TypeInv /\ QueueInv /\ Present /\ ExclusiveInv /\ [Next /\ Track]_intentVars
        => [\A w \in Workspaces \ crossed :
               ws[w] = "DELETED" => \/ ws'[w] \in {"DELETED", "DELETING"}
                                    \/ StaleRequest(w)
                                    \/ GivenUp(w) /\ ws'[w] = "ERROR"]_intentVars
  BY <1>2
<1> QED
  BY <1>1, <1>3, PTL DEF IntentSpec, DeletedIsLeftByDelete

-----------------------------------------------------------------------------
(* Refinement of WorkspaceLifecycle *)

Op == [w \in Workspaces |-> PendingType(w)]

\* Workspace w becomes s, its operation o and it is in or out of crossed; nothing else does.
Turns(w, s, o, c) ==
    /\ ws' = [ws EXCEPT ![w] = s]
    /\ Op' = [Op EXCEPT ![w] = o]
    /\ crossed' = IF c = "in" THEN crossed \cup {w} ELSE crossed \ {w}

InOrOut(w) == IF w \in crossed' THEN "in" ELSE "out"

LEMMA Concerns ==
    ASSUME TypeInv, TypeInv', ExclusiveInv, Track, NEW w \in Workspaces,
           \A v \in Workspaces : v # w => Kept(v)
    PROVE  Turns(w, ws'[w], PendingType(w)', InOrOut(w))
<1>1. ws' = [ws EXCEPT ![w] = ws'[w]]
  BY DEF TypeInv, TypeOK, Kept
<1>2. Op' = [Op EXCEPT ![w] = PendingType(w)']
  BY DEF Op, Kept
<1>3. crossed \subseteq Workspaces /\ crossed' \subseteq Workspaces
  BY TrackIs DEF ExclusiveInv, CrossedPending
<1>4. crossed' = IF InOrOut(w) = "in" THEN crossed \cup {w} ELSE crossed \ {w}
  BY <1>3 DEF Kept, InOrOut
<1> QED
  BY <1>1, <1>2, <1>4 DEF Turns

LEMMA SameVocabulary ==
    /\ Lifecycle!LifecycleTypes = LifecycleTypes /\ Lifecycle!NodeWaitTypes = NodeWaitTypes
    /\ Lifecycle!Settled = Settled /\ Lifecycle!Statuses = Statuses
    /\ \A t \in LifecycleTypes : /\ Lifecycle!IntentFrom(t) = IntentFrom(t)
                                 /\ Lifecycle!IntentStatus(t) = IntentStatus(t)
    /\ \A t, v : Lifecycle!SuccessStatus(t, v) = SuccessStatus(t, v)
<1>1. /\ Lifecycle!LifecycleTypes = LifecycleTypes /\ Lifecycle!NodeWaitTypes = NodeWaitTypes
      /\ Lifecycle!Settled = Settled /\ Lifecycle!Busy = Busy
      /\ Lifecycle!SnapshotTypes = SnapshotTypes
  BY DEF Lifecycle!LifecycleTypes, LifecycleTypes, Lifecycle!NodeWaitTypes, NodeWaitTypes,
     Lifecycle!Settled, Settled, Lifecycle!Busy, Busy, Lifecycle!SnapshotTypes, SnapshotTypes
<1>2. Lifecycle!SideTypes = SideTypes /\ Lifecycle!Statuses = Statuses
  BY <1>1 DEF Lifecycle!SideTypes, SideTypes, Lifecycle!Statuses, Statuses
<1>3. \A t \in LifecycleTypes : /\ Lifecycle!IntentFrom(t) = IntentFrom(t)
                                /\ Lifecycle!IntentStatus(t) = IntentStatus(t)
  BY <1>1 DEF Lifecycle!IntentFrom, IntentFrom, Lifecycle!IntentStatus, IntentStatus
<1>4. \A t, v : Lifecycle!SuccessStatus(t, v) = SuccessStatus(t, v)
  BY <1>1, <1>2 DEF Lifecycle!SuccessStatus, SuccessStatus
<1> QED
  BY <1>1, <1>2, <1>3, <1>4

\* The abstract actions, over the mapped variables.
LEMMA AbstractActions ==
    ASSUME NEW w \in Workspaces, NEW s, NEW o, NEW c, Turns(w, s, o, c)
    PROVE  /\ \A t \in LifecycleTypes :
                w \notin crossed /\ c = "out" /\ Op[w] = "NONE" /\ ws[w] \in IntentFrom(t) /\ s = IntentStatus(t) /\ o = t
                  => Lifecycle!Next
           /\ \A t \in LifecycleTypes :
                c = "in" /\ ws[w] \notin IntentFrom(t) /\ s = IntentStatus(t) /\ o \in {Op[w], t} \ {"NONE"}
                  => Lifecycle!Next
           /\ (w \notin crossed /\ c = "out" /\ o = Op[w]
                 /\ ((Op[w] = "CREATE" /\ s = "CREATING") \/ (Op[w] \in NodeWaitTypes /\ s = "PENDING")))
                => Lifecycle!Next
           /\ w \notin crossed /\ c = "out" /\ Op[w] # "NONE" /\ o = "NONE" /\ s \in SuccessStatus(Op[w], ws[w]) \cup {"ERROR"}
                => Lifecycle!Next
           /\ w \notin crossed /\ c = "out" /\ Op[w] = "NONE" /\ o = "NONE" /\ ws[w] \in Settled /\ s = "ERROR"
                => Lifecycle!Next
           /\ c = "in" /\ Op[w] # "NONE" /\ o = Op[w] /\ s = "ERROR" => Lifecycle!Next
           /\ (w \in crossed /\ s \in Statuses /\ o \in LifecycleTypes \cup {"NONE"}
                 /\ c = (IF o = "NONE" THEN "out" ELSE "in"))
                => Lifecycle!Next
<1>1. /\ ws' = [ws EXCEPT ![w] = s] /\ Op' = [Op EXCEPT ![w] = o]
      /\ crossed' = IF c = "in" THEN crossed \cup {w} ELSE crossed \ {w}
  BY DEF Turns
<1>2. Lifecycle!Becomes(w, s, o)
  BY <1>1 DEF Op, Lifecycle!Becomes
<1>3. w \notin crossed /\ c = "out" => crossed' = crossed
  BY <1>1
<1>4. ASSUME NEW t \in LifecycleTypes, w \notin crossed, c = "out", Op[w] = "NONE", ws[w] \in IntentFrom(t),
             s = IntentStatus(t), o = t
      PROVE  Lifecycle!Accept(w, t)
  BY <1>2, <1>3, <1>4, SameVocabulary DEF Op, Lifecycle!Accept
<1>5. ASSUME NEW t \in LifecycleTypes, c = "in", ws[w] \notin IntentFrom(t), s = IntentStatus(t),
             o \in {Op[w], t} \ {"NONE"}
      PROVE  Lifecycle!AcceptStale(w, t)
  BY <1>1, <1>2, <1>5, SameVocabulary DEF Op, Lifecycle!AcceptStale
<1>6. ASSUME w \notin crossed, c = "out", o = Op[w],
             (Op[w] = "CREATE" /\ s = "CREATING") \/ (Op[w] \in NodeWaitTypes /\ s = "PENDING")
      PROVE  Lifecycle!Proceed(w)
  BY <1>2, <1>3, <1>6, SameVocabulary DEF Op, Lifecycle!Proceed
<1>7. ASSUME w \notin crossed, c = "out", Op[w] # "NONE", o = "NONE", s \in SuccessStatus(Op[w], ws[w])
      PROVE  Lifecycle!Complete(w)
  BY <1>2, <1>3, <1>7, SameVocabulary DEF Op, Lifecycle!Complete
<1>8. ASSUME w \notin crossed, c = "out", Op[w] # "NONE", o = "NONE", s = "ERROR"
      PROVE  Lifecycle!Fail(w)
  BY <1>2, <1>3, <1>8 DEF Op, Lifecycle!Fail
<1>9. ASSUME w \notin crossed, c = "out", Op[w] = "NONE", o = "NONE", ws[w] \in Settled, s = "ERROR"
      PROVE  Lifecycle!FailAtRest(w)
  BY <1>2, <1>3, <1>9, SameVocabulary DEF Op, Lifecycle!FailAtRest
<1>10. ASSUME c = "in", Op[w] # "NONE", o = Op[w], s = "ERROR"
       PROVE  Lifecycle!FailOver(w)
  BY <1>1, <1>2, <1>10 DEF Op, Lifecycle!FailOver
<1>11. ASSUME w \in crossed, s \in Statuses, o \in LifecycleTypes \cup {"NONE"}, c = IF o = "NONE" THEN "out" ELSE "in"
       PROVE  Lifecycle!Drift(w)
  <2>1. crossed' = IF o = "NONE" THEN crossed \ {w} ELSE crossed
    BY <1>1, <1>11
  <2> QED
    BY <1>2, <1>11, <2>1, SameVocabulary DEF Lifecycle!Drift
<1>12. /\ \A t \in LifecycleTypes : Lifecycle!Accept(w, t) \/ Lifecycle!AcceptStale(w, t) => Lifecycle!Next
       /\ \/ Lifecycle!Proceed(w) \/ Lifecycle!Complete(w) \/ Lifecycle!Fail(w)
          \/ Lifecycle!FailAtRest(w) \/ Lifecycle!FailOver(w) \/ Lifecycle!Drift(w)
          => Lifecycle!Next
  BY SameVocabulary DEF Lifecycle!Next
<1>13. ASSUME w \notin crossed, c = "out", Op[w] # "NONE", o = "NONE", s \in SuccessStatus(Op[w], ws[w]) \cup {"ERROR"}
       PROVE  Lifecycle!Next
  BY <1>7, <1>8, <1>12, <1>13
<1> QED
  BY <1>4, <1>5, <1>6, <1>9, <1>10, <1>11, <1>12, <1>13

LEMMA CalmImplements ==
    ASSUME TypeInv, TypeInv', ExclusiveInv, Track, NEW k, Calm(k)
    PROVE  UNCHANGED <<ws, Op, crossed>>
<1>1. \A v \in Workspaces : Kept(v)
  BY DEF Calm
<1>2. crossed \subseteq Workspaces /\ crossed' \subseteq Workspaces
  BY TrackIs DEF ExclusiveInv, CrossedPending
<1> QED
  BY <1>1, <1>2 DEF Kept, Op, TypeInv, TypeOK

LEMMA OperationImplements ==
    ASSUME TypeInv, TypeInv', QueueInv, ExclusiveInv, Track, NEW k, NEW st, OperationWrites(k, st)
    PROVE  Lifecycle!Next \/ UNCHANGED <<ws, Op, crossed>>
<1>1. /\ HolderWrites(k, st) /\ k \in Agents /\ tx[k] # NoTx /\ st \in JobStatuses
      /\ RowMoves(tx[k].job, st) /\ RowOf(k).type \in LifecycleTypes
      /\ ws'[RowOf(k).ws] \in Statuses
  BY DEF OperationWrites, HolderWrites
<1>2. PICK j \in JobIds, w \in Workspaces :
        /\ j = tx[k].job /\ w = RowOf(k).ws /\ w = jobs[j].ws /\ j \in Pend(jobs, w)
        /\ jobs[j] = RowOf(k)
  BY <1>1, HeldPending
<1>3. /\ Pend(jobs', w) = IF st \in {"QUEUED", "RUNNING"} THEN Pend(jobs, w) ELSE Pend(jobs, w) \ {j}
      /\ w \in crossed' <=> w \in crossed /\ Pend(jobs', w) # {}
      /\ Pend(jobs', w) = Pend(jobs, w) => PendingType(w)' = PendingType(w)
      /\ PendingType(w)' \in LifecycleTypes \cup {"NONE"}
      /\ PendingType(w)' = "NONE" <=> Pend(jobs', w) = {}
  BY <1>1, <1>2, OperationMoves
<1>4. PICK s, o, c : s = ws'[w] /\ o = PendingType(w)' /\ c = (IF w \in crossed' THEN "in" ELSE "out")
  OBVIOUS
<1>5. Turns(w, s, o, c)
  <2>1. \A v \in Workspaces : v # w => Kept(v)
    BY <1>1, <1>2, HolderKeeps
  <2>2. Turns(w, ws'[w], PendingType(w)', InOrOut(w))
    BY <2>1, Concerns
  <2> QED
    BY <1>4, <2>2 DEF Turns, InOrOut
<1>6. CASE w \in crossed
  <2>1. s \in Statuses /\ o \in LifecycleTypes \cup {"NONE"} /\ c = IF o = "NONE" THEN "out" ELSE "in"
    BY <1>1, <1>2, <1>3, <1>4, <1>6
  <2> QED
    BY <1>5, <1>6, <2>1, AbstractActions
<1>7. CASE w \notin crossed
  <2>1. Pend(jobs, w) = {j}
    BY <1>1, <1>2, <1>7, HeldOperation
  <2>2. Op[w] = RowOf(k).type /\ Op[w] # "NONE"
    <3>1. PendingType(w) = jobs[j].type
      BY <2>1, PendingTypeIs
    <3>2. "NONE" \notin LifecycleTypes
      BY DEF LifecycleTypes
    <3> QED
      BY <1>1, <1>2, <3>1, <3>2 DEF Op
  <2>3. c = "out"
    BY <1>3, <1>4, <1>7
  <2>4. OwnerSees(k, st, s)
    BY <1>2, <1>4, <1>7 DEF OperationWrites
  <2>5. CASE st \in {"QUEUED", "RUNNING"}
    <3>1. o = Op[w]
      BY <1>3, <1>4, <2>5 DEF Op
    <3>2. GoesOn(Op[w], ws[w], s)
      BY <1>2, <2>2, <2>4, <2>5 DEF OwnerSees
    <3>3. CASE s = ws[w]
      <4>1. ws' = ws /\ Op' = Op /\ crossed' = crossed
        BY <1>5, <1>7, <2>3, <3>1, <3>3 DEF Turns, TypeInv, TypeOK, Op
      <4> QED
        BY <4>1
    <3>4. CASE s # ws[w]
      BY <1>5, <1>7, <2>3, <3>1, <3>2, <3>4, AbstractActions DEF GoesOn
    <3> QED
      BY <3>3, <3>4
  <2>6. CASE st \notin {"QUEUED", "RUNNING"}
    <3>1. o = "NONE"
      BY <1>3, <1>4, <2>1, <2>6
    <3>2. s \in SuccessStatus(Op[w], ws[w]) \cup {"ERROR"}
      BY <1>2, <2>2, <2>4, <2>6 DEF OwnerSees
    <3> QED
      BY <1>5, <1>7, <2>2, <2>3, <3>1, <3>2, AbstractActions
  <2> QED
    BY <2>5, <2>6
<1> QED
  BY <1>6, <1>7

LEMMA SideImplements ==
    ASSUME TypeInv, TypeInv', QueueInv, Present, ExclusiveInv, Track, NEW k, NEW st, SideWrites(k, st)
    PROVE  Lifecycle!Next \/ UNCHANGED <<ws, Op, crossed>>
<1>1. /\ HolderWrites(k, st) /\ k \in Agents /\ tx[k] # NoTx /\ st \in JobStatuses
      /\ RowMoves(tx[k].job, st) /\ RowOf(k).type \notin LifecycleTypes
      /\ ws'[RowOf(k).ws] = ws[RowOf(k).ws] \/ (st = "FAILED" /\ ws'[RowOf(k).ws] = "ERROR")
  BY DEF SideWrites, HolderWrites
<1>2. PICK j \in JobIds, w \in Workspaces :
        /\ j = tx[k].job /\ w = RowOf(k).ws /\ w = jobs[j].ws /\ jobs[j].type \notin LifecycleTypes
        /\ jobs[j].st # "FAILED" /\ jobs[j] # NoRow
  BY <1>1, HeldPending, NullsApart
<1>3. /\ Pend(jobs', w) = Pend(jobs, w) /\ PendingType(w)' = PendingType(w)
      /\ ws'[w] = ws[w] => Kept(w)
      /\ ws'[w] # ws[w] => (w \in crossed' <=> Pend(jobs, w) # {})
  BY <1>1, <1>2, OtherMoves
<1>4. \A v \in Workspaces : v # w => Kept(v)
  BY <1>1, <1>2, HolderKeeps
<1>5. PICK s, o, c : s = ws'[w] /\ o = PendingType(w)' /\ c = (IF w \in crossed' THEN "in" ELSE "out")
  OBVIOUS
<1>6. Turns(w, s, o, c)
  <2>1. Turns(w, ws'[w], PendingType(w)', InOrOut(w))
    BY <1>4, Concerns
  <2> QED
    BY <1>5, <2>1 DEF Turns, InOrOut
<1>7. CASE ws'[w] = ws[w]
  <2>1. \A v \in Workspaces : Kept(v)
    BY <1>3, <1>4, <1>7
  <2>2. crossed \subseteq Workspaces /\ crossed' \subseteq Workspaces
    BY TrackIs DEF ExclusiveInv, CrossedPending
  <2> QED
    BY <2>1, <2>2 DEF Kept, Op, TypeInv, TypeOK
<1>8. CASE ws'[w] # ws[w]
  <2>1. s = "ERROR" /\ o = Op[w] /\ c = IF Pend(jobs, w) = {} THEN "out" ELSE "in"
    BY <1>1, <1>2, <1>3, <1>5, <1>8 DEF Op
  <2>2. CASE Pend(jobs, w) = {}
    <3>1. Op[w] = "NONE"
      BY <2>2, PendingTypeIs DEF Op
    <3>2. w \notin crossed
      BY <2>2 DEF ExclusiveInv, CrossedPending
    <3>3. ws[w] \notin Busy
      BY <2>2 DEF QueueInv, BusyIsGuarded, Guards, Pend, Active
    <3>4. ws[w] # "ABSENT" /\ ws[w] \in Statuses
      BY <1>2 DEF Present, TypeInv, TypeOK
    <3>5. ws[w] \in Settled
      BY <3>3, <3>4 DEF Statuses
    <3> QED
      BY <1>6, <2>1, <2>2, <3>1, <3>2, <3>5, AbstractActions
  <2>3. CASE Pend(jobs, w) # {}
    <3>1. PendingType(w) # "NONE"
      <4>1. \A i \in Pend(jobs, w) : jobs[i].type \in LifecycleTypes
        BY DEF Pend
      <4>2. "NONE" \notin LifecycleTypes
        BY DEF LifecycleTypes
      <4> QED
        BY <2>3, <4>1, <4>2, PendingTypeIs
    <3> QED
      BY <1>6, <2>1, <2>3, <3>1, AbstractActions DEF Op
  <2> QED
    BY <2>2, <2>3
<1> QED
  BY <1>7, <1>8

LEMMA InsertImplements ==
    ASSUME TypeInv, TypeInv', QueueInv, ExclusiveInv, Track, NEW j, NEW w, NEW t, Inserts(j, w, t)
    PROVE  Lifecycle!Next
<1>1. /\ w \in Workspaces /\ t \in LifecycleTypes /\ j \in JobIds /\ ws'[w] = IntentStatus(t)
      /\ ws'[w] \in Busy /\ jobs'[j].type = t
      /\ Pend(jobs', w) = Pend(jobs, w) \cup {j} /\ j \notin Pend(jobs, w)
      /\ \A i \in Pend(jobs, w) : jobs'[i] = jobs[i]
      /\ w \in crossed' <=> w \in crossed \/ ws[w] \notin IntentFrom(t)
      /\ w \notin crossed' => Pend(jobs, w) = {}
      /\ \A v \in Workspaces : v # w => Kept(v)
  BY InsertIs
<1>2. PICK s, o, c : s = ws'[w] /\ o = PendingType(w)' /\ c = (IF w \in crossed' THEN "in" ELSE "out")
  OBVIOUS
<1>3. Turns(w, s, o, c)
  <2>1. Turns(w, ws'[w], PendingType(w)', InOrOut(w))
    BY <1>1, Concerns
  <2> QED
    BY <1>2, <2>1 DEF Turns, InOrOut
<1>4. "NONE" \notin LifecycleTypes /\ s \in Statuses
  BY <1>1, <1>2 DEF LifecycleTypes, Statuses
<1>5. o \in LifecycleTypes
  <2>1. \A i \in Pend(jobs', w) : jobs'[i].type \in LifecycleTypes
    BY DEF Pend
  <2> QED
    BY <1>1, <1>2, <2>1, PendingTypeIs
<1>6. CASE w \in crossed
  BY <1>1, <1>2, <1>3, <1>4, <1>5, <1>6, AbstractActions
<1>7. CASE w \notin crossed /\ ws[w] \in IntentFrom(t)
  <2>1. Pend(jobs, w) = {} /\ Pend(jobs', w) = {j} /\ c = "out"
    BY <1>1, <1>2, <1>7
  <2>2. Op[w] = "NONE" /\ o = t
    BY <1>1, <1>2, <2>1, PendingTypeIs DEF Op
  <2> QED
    BY <1>1, <1>2, <1>3, <1>7, <2>1, <2>2, AbstractActions
<1>8. CASE w \notin crossed /\ ws[w] \notin IntentFrom(t)
  <2>1. o \in {Op[w], t}
    <3>1. CASE Pend(jobs, w) = {}
      <4>1. Pend(jobs', w) = {j}
        BY <1>1, <3>1
      <4> QED
        BY <1>1, <1>2, <4>1, PendingTypeIs
    <3>2. CASE Pend(jobs, w) # {}
      <4>1. PICK i \in Pend(jobs, w) : Pend(jobs, w) = {i}
        BY <1>1, <1>8, <3>2 DEF ExclusiveInv, OnePending
      <4>2. PendingType(w) = jobs[i].type /\ Pend(jobs', w) = {i, j}
        BY <1>1, <4>1, PendingTypeIs
      <4>3. \E x \in Pend(jobs', w) : o = jobs'[x].type
        BY <1>2, <4>2, PendingTypeIs
      <4> QED
        BY <1>1, <4>1, <4>2, <4>3 DEF Op
    <3> QED
      BY <3>1, <3>2
  <2>2. c = "in" /\ o \in {Op[w], t} \ {"NONE"}
    BY <1>1, <1>2, <1>4, <1>5, <1>8, <2>1
  <2> QED
    BY <1>1, <1>2, <1>3, <1>8, <2>2, AbstractActions
<1> QED
  BY <1>6, <1>7, <1>8

\* Every step of the control plane is a step of the abstract lifecycle, or none.
LEMMA StepImplements ==
    ASSUME TypeInv, TypeInv', QueueInv, Present, ExclusiveInv, [Next /\ Track]_intentVars
    PROVE  Lifecycle!Next \/ UNCHANGED <<ws, Op, crossed>>
<1>1. CASE Next /\ Track
  <2>1. StepKind
    BY <1>1, StepHasKind
  <2> QED
    BY <1>1, <2>1, CalmImplements, OperationImplements, SideImplements, InsertImplements DEF StepKind
<1>2. CASE UNCHANGED intentVars
  <2>1. UNCHANGED <<ws, jobs, crossed>>
    BY <1>2 DEF intentVars, vars
  <2>2. \A v \in Workspaces : PendingType(v)' = PendingType(v)
    <3> SUFFICES ASSUME NEW v \in Workspaces PROVE PendingType(v)' = PendingType(v)
      OBVIOUS
    <3>1. Pend(jobs', v) = Pend(jobs, v) /\ \A i \in Pend(jobs, v) : jobs'[i].type = jobs[i].type
      BY <2>1
    <3> QED
      BY <3>1, SamePending
  <2> QED
    BY <2>1, <2>2 DEF Op
<1> QED
  BY <1>1, <1>2

LEMMA InitImplements == Init /\ crossed = {} => Lifecycle!Init
<1> SUFFICES ASSUME Init, crossed = {} PROVE Lifecycle!Init
  OBVIOUS
<1>1. \A w \in Workspaces : Pend(jobs, w) = {}
  BY DEF Init, NoRow, Pend
<1>2. \A w \in Workspaces : PendingType(w) = "NONE"
  BY <1>1, PendingTypeIs
<1> QED
  BY <1>2 DEF Init, Lifecycle!Init

\* The queue, the workers' sessions, the retries, the reclaimer and the crashes implement
\* the abstract lifecycle, for any number of requests at once and with reconciles,
\* snapshots and imports beside the operations: an accepted operation ends in the status
\* it is for or in ERROR, unless it is crossed in one of the two ways that has.
THEOREM ImplementsLifecycleAlways ==
    Undisputed => (IntentSpec => ImplementsLifecycle)
<1> SUFFICES ASSUME Undisputed PROVE IntentSpec => ImplementsLifecycle
  OBVIOUS
<1>1. IntentSpec => [](TypeInv /\ QueueInv /\ Present /\ ExclusiveInv)
  BY ExclusiveAlways
<1>2. TypeInv /\ TypeInv' /\ QueueInv /\ Present /\ ExclusiveInv /\ [Next /\ Track]_intentVars
        => [Lifecycle!Next]_(Lifecycle!lifecycleVars)
  BY StepImplements DEF Op, Lifecycle!lifecycleVars
<1> QED
  BY <1>1, <1>2, InitImplements, PTL DEF IntentSpec, IntentInit, ImplementsLifecycle, Lifecycle!Spec
=============================================================================
