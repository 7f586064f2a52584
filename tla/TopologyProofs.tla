--------------------------- MODULE TopologyProofs ---------------------------
(***************************************************************************)
(* Proofs about Topology for any number of workspaces, addresses, janitors *)
(* and attempts: typing and leases; the address protocol as an             *)
(* implementation of AddressPool while cleanups succeed; what holds of     *)
(* RUNNING workspaces when they fail; and that every job step, whatever    *)
(* fails and whoever interferes, brings the job nearer to its end.         *)
(***************************************************************************)
EXTENDS Topology, TLAPS

(* The ranges of a job's fields, named so that the provers need not look      *)
(* into them.                                                                *)
IpSet == Addresses \cup {NoIp}
TrySet == 0 .. MaxAllocAttempts
RoundSet == 0 .. 2
LeftSet == 0 .. MaxAttempts
RowSets == SUBSET Workspaces

\* The fields of a well typed job.
LEMMA JobRecord ==
    Job = [kind : Kinds \cup {"NONE"}, pc : Steps, ip : IpSet, tries : TrySet, fresh : BOOLEAN,
           round : RoundSet, ok : BOOLEAN, rows : RowSets, left : LeftSet]
BY DEF Job, IpSet, TrySet, RoundSet, LeftSet, RowSets

\* A step that only moves on.
LEMMA SetPc ==
    ASSUME job \in [Workspaces -> Job], NEW w \in Workspaces, NEW p \in Steps,
           job' = [job EXCEPT ![w].pc = p]
    PROVE  /\ job' \in [Workspaces -> Job]
           /\ job'[w].pc = p
           /\ job'[w].ip = job[w].ip
           /\ job'[w].left = job[w].left
           /\ job'[w].tries = job[w].tries
           /\ job'[w].round = job[w].round
<1>1. [job[w] EXCEPT !.pc = p] \in Job
  <2>1. job[w] \in Job
    OBVIOUS
  <2>2. QED BY <2>1, JobRecord
<1>2. job' = [job EXCEPT ![w] = [job[w] EXCEPT !.pc = p]]
  OBVIOUS
<1>3. job' \in [Workspaces -> Job] /\ job'[w] = [job[w] EXCEPT !.pc = p]
  BY <1>1, <1>2
<1>4. /\ [job[w] EXCEPT !.pc = p].pc = p
      /\ [job[w] EXCEPT !.pc = p].ip = job[w].ip
      /\ [job[w] EXCEPT !.pc = p].left = job[w].left
      /\ [job[w] EXCEPT !.pc = p].tries = job[w].tries
      /\ [job[w] EXCEPT !.pc = p].round = job[w].round
  BY JobRecord
<1>5. QED BY <1>3, <1>4

\* A step into a round of the rollback.
LEMMA SetUndo ==
    ASSUME job \in [Workspaces -> Job], NEW w \in Workspaces, NEW p \in Steps, NEW n \in RoundSet, NEW b \in BOOLEAN,
           job' = [job EXCEPT ![w].pc = p, ![w].round = n, ![w].ok = b]
    PROVE  /\ job' \in [Workspaces -> Job]
           /\ job'[w].pc = p
           /\ job'[w].ip = job[w].ip
           /\ job'[w].left = job[w].left
           /\ job'[w].round = n
<1>1. [job[w] EXCEPT !.pc = p, !.round = n, !.ok = b] \in Job
  <2>1. job[w] \in Job
    OBVIOUS
  <2>2. QED BY <2>1, JobRecord
<1>2. job' = [job EXCEPT ![w] = [job[w] EXCEPT !.pc = p, !.round = n, !.ok = b]]
  OBVIOUS
<1>3. job' \in [Workspaces -> Job] /\ job'[w] = [job[w] EXCEPT !.pc = p, !.round = n, !.ok = b]
  BY <1>1, <1>2
<1>4. /\ [job[w] EXCEPT !.pc = p, !.round = n, !.ok = b].pc = p
      /\ [job[w] EXCEPT !.pc = p, !.round = n, !.ok = b].ip = job[w].ip
      /\ [job[w] EXCEPT !.pc = p, !.round = n, !.ok = b].left = job[w].left
      /\ [job[w] EXCEPT !.pc = p, !.round = n, !.ok = b].round = n
  BY JobRecord
<1>5. QED BY <1>3, <1>4

\* A step that picks an address.
LEMMA SetIp ==
    ASSUME job \in [Workspaces -> Job], NEW w \in Workspaces, NEW p \in Steps, NEW a \in IpSet,
           job' = [job EXCEPT ![w].pc = p, ![w].ip = a]
    PROVE  /\ job' \in [Workspaces -> Job]
           /\ job'[w].pc = p
           /\ job'[w].left = job[w].left
           /\ job'[w].tries = job[w].tries
<1>1. [job[w] EXCEPT !.pc = p, !.ip = a] \in Job
  <2>1. job[w] \in Job
    OBVIOUS
  <2>2. QED BY <2>1, JobRecord
<1>2. job' = [job EXCEPT ![w] = [job[w] EXCEPT !.pc = p, !.ip = a]]
  OBVIOUS
<1>3. job' \in [Workspaces -> Job] /\ job'[w] = [job[w] EXCEPT !.pc = p, !.ip = a]
  BY <1>1, <1>2
<1>4. /\ [job[w] EXCEPT !.pc = p, !.ip = a].pc = p
      /\ [job[w] EXCEPT !.pc = p, !.ip = a].left = job[w].left
      /\ [job[w] EXCEPT !.pc = p, !.ip = a].tries = job[w].tries
  BY JobRecord
<1>5. QED BY <1>3, <1>4

\* A step that counts a conflict.
LEMMA SetTries ==
    ASSUME job \in [Workspaces -> Job], NEW w \in Workspaces, NEW p \in Steps, NEW t \in TrySet,
           job' = [job EXCEPT ![w].pc = p, ![w].tries = t]
    PROVE  /\ job' \in [Workspaces -> Job]
           /\ job'[w].pc = p
           /\ job'[w].ip = job[w].ip
           /\ job'[w].left = job[w].left
           /\ job'[w].tries = t
<1>1. [job[w] EXCEPT !.pc = p, !.tries = t] \in Job
  <2>1. job[w] \in Job
    OBVIOUS
  <2>2. QED BY <2>1, JobRecord
<1>2. job' = [job EXCEPT ![w] = [job[w] EXCEPT !.pc = p, !.tries = t]]
  OBVIOUS
<1>3. job' \in [Workspaces -> Job] /\ job'[w] = [job[w] EXCEPT !.pc = p, !.tries = t]
  BY <1>1, <1>2
<1>4. /\ [job[w] EXCEPT !.pc = p, !.tries = t].pc = p
      /\ [job[w] EXCEPT !.pc = p, !.tries = t].ip = job[w].ip
      /\ [job[w] EXCEPT !.pc = p, !.tries = t].left = job[w].left
      /\ [job[w] EXCEPT !.pc = p, !.tries = t].tries = t
  BY JobRecord
<1>5. QED BY <1>3, <1>4

\* A step that looks for the attachment row.
LEMMA SetFresh ==
    ASSUME job \in [Workspaces -> Job], NEW w \in Workspaces, NEW p \in Steps, NEW b \in BOOLEAN,
           job' = [job EXCEPT ![w].pc = p, ![w].fresh = b]
    PROVE  /\ job' \in [Workspaces -> Job]
           /\ job'[w].pc = p
           /\ job'[w].ip = job[w].ip
           /\ job'[w].left = job[w].left
<1>1. [job[w] EXCEPT !.pc = p, !.fresh = b] \in Job
  <2>1. job[w] \in Job
    OBVIOUS
  <2>2. QED BY <2>1, JobRecord
<1>2. job' = [job EXCEPT ![w] = [job[w] EXCEPT !.pc = p, !.fresh = b]]
  OBVIOUS
<1>3. job' \in [Workspaces -> Job] /\ job'[w] = [job[w] EXCEPT !.pc = p, !.fresh = b]
  BY <1>1, <1>2
<1>4. /\ [job[w] EXCEPT !.pc = p, !.fresh = b].pc = p
      /\ [job[w] EXCEPT !.pc = p, !.fresh = b].ip = job[w].ip
      /\ [job[w] EXCEPT !.pc = p, !.fresh = b].left = job[w].left
  BY JobRecord
<1>5. QED BY <1>3, <1>4

\* A step of a stop.
LEMMA SetOk ==
    ASSUME job \in [Workspaces -> Job], NEW w \in Workspaces, NEW p \in Steps, NEW b \in BOOLEAN,
           job' = [job EXCEPT ![w].pc = p, ![w].ok = b]
    PROVE  /\ job' \in [Workspaces -> Job]
           /\ job'[w].pc = p
           /\ job'[w].ip = job[w].ip
           /\ job'[w].left = job[w].left
           /\ job'[w].round = job[w].round
<1>1. [job[w] EXCEPT !.pc = p, !.ok = b] \in Job
  <2>1. job[w] \in Job
    OBVIOUS
  <2>2. QED BY <2>1, JobRecord
<1>2. job' = [job EXCEPT ![w] = [job[w] EXCEPT !.pc = p, !.ok = b]]
  OBVIOUS
<1>3. job' \in [Workspaces -> Job] /\ job'[w] = [job[w] EXCEPT !.pc = p, !.ok = b]
  BY <1>1, <1>2
<1>4. /\ [job[w] EXCEPT !.pc = p, !.ok = b].pc = p
      /\ [job[w] EXCEPT !.pc = p, !.ok = b].ip = job[w].ip
      /\ [job[w] EXCEPT !.pc = p, !.ok = b].left = job[w].left
      /\ [job[w] EXCEPT !.pc = p, !.ok = b].round = job[w].round
  BY JobRecord
<1>5. QED BY <1>3, <1>4

\* A step that reads the attachment rows.
LEMMA SetRows ==
    ASSUME job \in [Workspaces -> Job], NEW w \in Workspaces, NEW p \in Steps, NEW vs \in RowSets,
           job' = [job EXCEPT ![w].pc = p, ![w].rows = vs]
    PROVE  /\ job' \in [Workspaces -> Job]
           /\ job'[w].pc = p
           /\ job'[w].ip = job[w].ip
           /\ job'[w].left = job[w].left
<1>1. [job[w] EXCEPT !.pc = p, !.rows = vs] \in Job
  <2>1. job[w] \in Job
    OBVIOUS
  <2>2. QED BY <2>1, JobRecord
<1>2. job' = [job EXCEPT ![w] = [job[w] EXCEPT !.pc = p, !.rows = vs]]
  OBVIOUS
<1>3. job' \in [Workspaces -> Job] /\ job'[w] = [job[w] EXCEPT !.pc = p, !.rows = vs]
  BY <1>1, <1>2
<1>4. /\ [job[w] EXCEPT !.pc = p, !.rows = vs].pc = p
      /\ [job[w] EXCEPT !.pc = p, !.rows = vs].ip = job[w].ip
      /\ [job[w] EXCEPT !.pc = p, !.rows = vs].left = job[w].left
  BY JobRecord
<1>5. QED BY <1>3, <1>4

\* The absence of a job is a well typed job record.
LEMMA NoJobType == NoJob \in Job
BY TopologyAssumption DEF NoJob, Job, NoIp, Steps

\* Initial states are well typed.
LEMMA TypeInit == Init => TypeOK
BY NoJobType, TopologyAssumption
   DEF Init, TypeOK, NoAtt, Attachment, NoIp, NoRun, JanitorRun

\* Moving a job to another step keeps jobs well typed.
LEMMA GoType ==
    ASSUME TypeOK, NEW w \in Workspaces, NEW p \in Steps, Go(w, p)
    PROVE  job' \in [Workspaces -> Job]
BY SetPc DEF TypeOK, Go

\* Entering the compensating rollback keeps jobs well typed.
LEMMA UndoType ==
    ASSUME TypeOK, NEW w \in Workspaces, Undo(w)
    PROVE  job' \in [Workspaces -> Job]
<1>1. 1 \in RoundSet /\ "detach" \in Steps /\ TRUE \in BOOLEAN
  BY DEF RoundSet, Steps
<1>2. QED BY <1>1, SetUndo DEF TypeOK, Undo

\* A job queued afresh is well typed.
LEMMA QueuedType ==
    ASSUME NEW k \in Kinds \cup {"NONE"}, NEW n \in 0 .. MaxAttempts
    PROVE  QueuedJob(k, n) \in Job
<1>1. "queued" \in Steps
  BY DEF Steps
<1>2. NoJob \in Job
  BY NoJobType
<1>3. QED BY <1>1, <1>2 DEF QueuedJob, Job

\* Ending a job keeps jobs and statuses well typed.
LEMMA EndsType ==
    ASSUME TypeOK, NEW w \in Workspaces,
           NEW s \in {"RUNNING", "STOPPED", "ERROR", "DELETED"}, Ends(w, s)
    PROVE  /\ job' \in [Workspaces -> Job]
           /\ status' \in [Workspaces -> {"NEW", "BUSY", "RUNNING", "STOPPED", "ERROR", "DELETED"}]
BY NoJobType DEF TypeOK, Ends

\* Retrying a job or failing it keeps jobs and statuses well typed.
LEMMA RetryType ==
    ASSUME TypeOK, NEW w \in Workspaces, RetryOrError(w)
    PROVE  /\ job' \in [Workspaces -> Job]
           /\ status' \in [Workspaces -> {"NEW", "BUSY", "RUNNING", "STOPPED", "ERROR", "DELETED"}]
<1>1. CASE job[w].left > 0
  <2>1. job[w].left - 1 \in 0 .. MaxAttempts
    BY <1>1, TopologyAssumption DEF TypeOK, Job
  <2>2. job[w].kind \in Kinds \cup {"NONE"}
    BY DEF TypeOK, Job
  <2>3. QueuedJob(job[w].kind, job[w].left - 1) \in Job
    BY <2>1, <2>2, QueuedType
  <2>4. QED BY <1>1, <2>3 DEF RetryOrError, TypeOK
<1>2. CASE job[w].left = 0
  BY <1>2, EndsType DEF RetryOrError
<1>3. QED BY <1>1, <1>2 DEF RetryOrError

\* What a failed cleanup step after the container's stop leaves to do.
LEMMA AfterHaltType ==
    ASSUME TypeOK, NEW w \in Workspaces, NEW b \in BOOLEAN, AfterHalt(w, b)
    PROVE  /\ job' \in [Workspaces -> Job]
           /\ status' \in [Workspaces -> {"NEW", "BUSY", "RUNNING", "STOPPED", "ERROR", "DELETED"}]
<1> DEFINE p == CASE job[w].round > 0 -> "release"
                  [] job[w].round = 0 /\ job[w].kind = "DELETE" -> "sweep"
                  [] OTHER -> "start"
<1>1. CASE job' = [job EXCEPT ![w].pc = p, ![w].ok = b] /\ UNCHANGED status
  <2>1. p \in Steps
    BY DEF Steps, BringUpSteps
  <2> HIDE DEF p
  <2>2. job' \in [Workspaces -> Job]
    BY <1>1, <2>1, SetOk DEF TypeOK
  <2>3. QED BY <1>1, <2>2 DEF TypeOK
<1>2. CASE Ends(w, StopOutcome(b))
  <2>1. StopOutcome(b) \in {"RUNNING", "STOPPED", "ERROR", "DELETED"}
    BY DEF StopOutcome
  <2>2. QED BY <1>2, <2>1, EndsType
<1>3. CASE RetryOrError(w)
  BY <1>3, RetryType
<1>4. QED BY <1>1, <1>2, <1>3 DEF AfterHalt

\* What follows the release of the lease keeps jobs and statuses well typed.
LEMMA AfterReleaseType ==
    ASSUME TypeOK, NEW w \in Workspaces, NEW b \in BOOLEAN, AfterRelease(w, b)
    PROVE  /\ job' \in [Workspaces -> Job]
           /\ status' \in [Workspaces -> {"NEW", "BUSY", "RUNNING", "STOPPED", "ERROR", "DELETED"}]
<1>1. CASE RetryOrError(w)
  BY <1>1, RetryType
<1>2. CASE job' = [job EXCEPT ![w].pc = "detach", ![w].round = 2, ![w].ok = TRUE] /\ UNCHANGED status
  <2>1. 2 \in RoundSet /\ "detach" \in Steps /\ TRUE \in BOOLEAN
    BY DEF RoundSet, Steps
  <2>2. job' \in [Workspaces -> Job]
    BY <1>2, <2>1, SetUndo DEF TypeOK
  <2>3. QED BY <1>2, <2>2 DEF TypeOK
<1>3. QED BY <1>1, <1>2 DEF AfterRelease

\* Steps that take the job as a whole.
LEMMA TypeWhole ==
    ASSUME TypeOK, NEW w \in Workspaces,
           (\E k \in Kinds : Request(w, k)) \/ Begin(w) \/ Crash(w) \/ ContainerExits(w)
    PROVE  TypeOK'
<1>1. ASSUME NEW k \in Kinds, Request(w, k) PROVE TypeOK'
  <2>1. QueuedJob(k, MaxAttempts) \in Job
    BY QueuedType, TopologyAssumption
  <2>2. QED BY <1>1, <2>1 DEF Request, TypeOK
<1>2. CASE Begin(w)
  <2>1. (IF job[w].kind = "UP" THEN "start" ELSE "detach") \in Steps
    BY DEF Steps, BringUpSteps
  <2>2. job' \in [Workspaces -> Job]
    BY <1>2, <2>1, GoType DEF Begin
  <2>3. QED BY <1>2, <2>2 DEF Begin, TypeOK
<1>3. CASE Crash(w)
  BY <1>3, RetryType DEF Crash, TypeOK
<1>4. CASE ContainerExits(w)
  BY <1>4 DEF ContainerExits, TypeOK
<1>5. QED BY <1>1, <1>2, <1>3, <1>4

\* Steps of the bring-up.
LEMMA TypeBringUp ==
    ASSUME TypeOK, NEW w \in Workspaces, BringUpStep(w)
    PROVE  TypeOK'
<1>1. CASE StartContainer(w)
  <2>1. "ensure" \in Steps
    BY DEF Steps, BringUpSteps
  <2>2. job' \in [Workspaces -> Job]
    BY <1>1, <2>1, GoType DEF StartContainer
  <2>3. QED BY <1>1, <2>2 DEF StartContainer, TypeOK
<1>2. CASE StartFails(w)
  BY <1>2, RetryType DEF StartFails, TypeOK
<1>3. CASE BringUpFails(w)
  BY <1>3, UndoType DEF BringUpFails, TypeOK
<1>4. CASE EnsureTopology(w)
  <2>1. "pick" \in Steps
    BY DEF Steps, BringUpSteps
  <2>2. job' \in [Workspaces -> Job]
    BY <1>4, <2>1, GoType DEF EnsureTopology
  <2>3. QED BY <1>4, <2>2 DEF EnsureTopology, TypeOK
<1>5. CASE PickAddress(w)
  <2>1. "check" \in Steps /\ "lease" \in Steps
    BY DEF Steps, BringUpSteps
  <2>2. lease[w] \in IpSet
    BY DEF TypeOK, IpSet
  <2>3. \A a \in Candidates(w) : a \in IpSet
    BY DEF Candidates, Free, IpSet
  <2>4. CASE job' = [job EXCEPT ![w].pc = "check", ![w].ip = lease[w]]
    BY <1>5, <2>1, <2>2, <2>4, SetIp DEF PickAddress, TypeOK
  <2>5. ASSUME NEW a \in Candidates(w), job' = [job EXCEPT ![w].pc = "lease", ![w].ip = a]
        PROVE  TypeOK'
    BY <1>5, <2>1, <2>3, <2>5, SetIp DEF PickAddress, TypeOK
  <2>6. QED BY <1>5, <2>4, <2>5 DEF PickAddress
<1>6. CASE LeaseAddress(w)
  <2>1. "check" \in Steps /\ "pick" \in Steps
    BY DEF Steps, BringUpSteps
  <2>2. job[w].ip \in Addresses \cup {NoIp}
    BY DEF TypeOK, Job
  <2>3. CASE Go(w, "check")
    BY <1>6, <2>1, <2>2, <2>3, GoType DEF LeaseAddress, TypeOK
  <2>4. CASE /\ UNCHANGED lease
             /\ job[w].tries + 1 < MaxAllocAttempts
             /\ job' = [job EXCEPT ![w].pc = "pick", ![w].tries = @ + 1]
    <3>1. job[w].tries + 1 \in TrySet
      BY <2>4, TopologyAssumption DEF TypeOK, Job, TrySet
    <3>2. job' = [job EXCEPT ![w].pc = "pick", ![w].tries = job[w].tries + 1]
      BY <2>4
    <3>3. job' \in [Workspaces -> Job]
      BY <2>1, <3>1, <3>2, SetTries DEF TypeOK
    <3>4. QED BY <1>6, <2>4, <3>3 DEF LeaseAddress, TypeOK
  <2>5. CASE UNCHANGED lease /\ Undo(w)
    BY <1>6, <2>5, UndoType DEF LeaseAddress, TypeOK
  <2>6. QED BY <1>6, <2>3, <2>4, <2>5 DEF LeaseAddress
<1>7. CASE CheckAttach(w)
  <2>1. "attaching" \in Steps /\ "probe" \in Steps /\ (att[w].st = "NONE") \in BOOLEAN
    BY DEF Steps, BringUpSteps
  <2>2. veth' \in [Workspaces -> Addresses \cup {NoIp}]
    BY <1>7 DEF CheckAttach, TypeOK
  <2>3. job' \in [Workspaces -> Job]
    <3>1. CASE Go(w, "probe")
      BY <2>1, <3>1, GoType
    <3>2. CASE job' = [job EXCEPT ![w].pc = "attaching", ![w].fresh = (att[w].st = "NONE")]
      BY <2>1, <3>2, SetFresh DEF TypeOK
    <3>3. CASE Undo(w)
      BY <3>3, UndoType
    <3>4. QED BY <1>7, <3>1, <3>2, <3>3 DEF CheckAttach
  <2>4. QED BY <1>7, <2>2, <2>3 DEF CheckAttach, TypeOK
<1>8. CASE PersistAttaching(w)
  <2>1. "wire" \in Steps
    BY DEF Steps, BringUpSteps
  <2>2. job' \in [Workspaces -> Job]
    BY <1>8, <2>1, GoType DEF PersistAttaching
  <2>3. job[w].ip \in Addresses \cup {NoIp}
    BY DEF TypeOK, Job
  <2>4. [st |-> "ATTACHING", ip |-> job[w].ip] \in Attachment
    BY <2>3 DEF Attachment
  <2>5. QED BY <1>8, <2>2, <2>4 DEF PersistAttaching, TypeOK
<1>9. CASE Wire(w)
  <2>1. "confirm" \in Steps
    BY DEF Steps, BringUpSteps
  <2>2. job' \in [Workspaces -> Job]
    BY <1>9, <2>1, GoType DEF Wire
  <2>3. job[w].ip \in Addresses \cup {NoIp}
    BY DEF TypeOK, Job
  <2>4. QED BY <1>9, <2>2, <2>3 DEF Wire, TypeOK
<1>10. CASE PersistAttached(w)
  <2>1. "verify" \in Steps
    BY DEF Steps, BringUpSteps
  <2>2. job' \in [Workspaces -> Job]
    BY <1>10, <2>1, GoType DEF PersistAttached
  <2>3. att' \in [Workspaces -> Attachment]
    BY <1>10 DEF PersistAttached, TypeOK, Attachment
  <2>4. QED BY <1>10, <2>2, <2>3 DEF PersistAttached, TypeOK
<1>11. CASE VerifyAttached(w)
  <2>1. "probe" \in Steps
    BY DEF Steps, BringUpSteps
  <2>2. job' \in [Workspaces -> Job]
    BY <1>11, <2>1, GoType DEF VerifyAttached
  <2>3. QED BY <1>11, <2>2 DEF VerifyAttached, TypeOK
<1>12. CASE AttachFailed(w)
  <2>1. job' \in [Workspaces -> Job]
    BY <1>12, UndoType DEF AttachFailed
  <2>2. att' \in [Workspaces -> Attachment]
    BY <1>12 DEF AttachFailed, TypeOK, Attachment
  <2>3. lease' \in [Workspaces -> Addresses \cup {NoIp}]
    BY <1>12 DEF AttachFailed, TypeOK
  <2>4. QED BY <1>12, <2>1, <2>2, <2>3 DEF AttachFailed, TypeOK
<1>13. CASE Probe(w)
  <2>1. "finish" \in Steps
    BY DEF Steps, BringUpSteps
  <2>2. job' \in [Workspaces -> Job]
    BY <1>13, <2>1, GoType DEF Probe
  <2>3. QED BY <1>13, <2>2 DEF Probe, TypeOK
<1>14. CASE Finish(w)
  BY <1>14, EndsType DEF Finish, TypeOK
<1>15. QED
  BY <1>1, <1>2, <1>3, <1>4, <1>5, <1>6, <1>7, <1>8, <1>9, <1>10, <1>11, <1>12, <1>13, <1>14
     DEF BringUpStep

\* detach_workspace, by whomever it is called.
LEMMA UnwireType ==
    ASSUME TypeOK, NEW w \in Workspaces, Unwire(w)
    PROVE  /\ att' \in [Workspaces -> Attachment]
           /\ veth' \in [Workspaces -> Addresses \cup {NoIp}]
<1>1. CASE UNCHANGED <<att, veth>>
  BY <1>1 DEF TypeOK
<1>2. CASE veth' = [veth EXCEPT ![w] = NoIp] /\ att' = [att EXCEPT ![w].st = "DETACHED"]
  BY <1>2 DEF TypeOK, Attachment
<1>3. QED BY <1>1, <1>2 DEF Unwire

\* Steps of a stop and of a delete.
LEMMA TypeTearDown ==
    ASSUME TypeOK, NEW w \in Workspaces, TearDownStep(w)
    PROVE  TypeOK'
<1>1. CASE Detach(w)
  <2>1. "halt" \in Steps /\ FALSE \in BOOLEAN
    BY DEF Steps
  <2>2. CASE Unwire(w) /\ Go(w, "halt")
    BY <1>1, <2>1, <2>2, UnwireType, GoType DEF Detach, TypeOK
  <2>3. CASE job' = [job EXCEPT ![w].pc = "halt", ![w].ok = FALSE] /\ UNCHANGED <<att, veth>>
    <3>1. job' \in [Workspaces -> Job]
      BY <2>1, <2>3, SetOk DEF TypeOK
    <3>2. QED BY <1>1, <2>3, <3>1 DEF Detach, TypeOK
  <2>4. QED BY <1>1, <2>2, <2>3 DEF Detach
<1>2. CASE Halt(w)
  <2>1. job[w].ok \in BOOLEAN
    BY DEF TypeOK, Job
  <2>2. /\ job' \in [Workspaces -> Job]
        /\ status' \in [Workspaces -> {"NEW", "BUSY", "RUNNING", "STOPPED", "ERROR", "DELETED"}]
    BY <1>2, <2>1, AfterHaltType DEF Halt
  <2>3. QED BY <1>2, <2>2 DEF Halt, TypeOK
<1>3. CASE Release(w)
  <2>1. job[w].ok \in BOOLEAN
    BY DEF TypeOK, Job
  <2>2. /\ job' \in [Workspaces -> Job]
        /\ status' \in [Workspaces -> {"NEW", "BUSY", "RUNNING", "STOPPED", "ERROR", "DELETED"}]
    BY <1>3, <2>1, AfterReleaseType DEF Release
  <2>3. QED BY <1>3, <2>2 DEF Release, TypeOK
<1>4. CASE CheckUnused(w)
  <2> DEFINE p == IF rt = "ABSENT" THEN "tidy" ELSE "drop"
             vs == {v \in Workspaces : att[v].st # "NONE"}
  <2>1. CASE Ends(w, "DELETED")
    BY <1>4, <2>1, EndsType DEF CheckUnused, TypeOK
  <2>2. CASE job' = [job EXCEPT ![w].pc = p, ![w].rows = vs] /\ UNCHANGED status
    <3>1. p \in Steps /\ vs \in RowSets
      BY DEF Steps, RowSets
    <3> HIDE DEF p, vs
    <3>2. job' \in [Workspaces -> Job]
      BY <2>2, <3>1, SetRows DEF TypeOK
    <3>3. QED BY <1>4, <2>2, <3>2 DEF CheckUnused, TypeOK
  <2>3. QED BY <1>4, <2>1, <2>2 DEF CheckUnused
<1>5. Dropped(w) \in [Workspaces -> Attachment]
  BY DEF Dropped, TypeOK, NoAtt, Attachment
<1>6. CASE TidyRows(w)
  BY <1>5, <1>6, EndsType DEF TidyRows, TypeOK
<1>7. CASE DropRows(w)
  <2>1. CASE Ends(w, "DELETED") /\ UNCHANGED <<att, rt>>
    BY <1>7, <2>1, EndsType DEF DropRows, TypeOK
  <2>2. CASE att' = Dropped(w) /\ rt' = "ABSENT" /\ Go(w, "bridge") /\ UNCHANGED status
    <3>1. "bridge" \in Steps
      BY DEF Steps
    <3>2. job' \in [Workspaces -> Job]
      BY <2>2, <3>1, GoType
    <3>3. QED BY <1>5, <1>7, <2>2, <3>2 DEF DropRows, TypeOK
  <2>3. QED BY <1>7, <2>1, <2>2 DEF DropRows
<1>8. CASE RemoveBridge(w)
  BY <1>8, EndsType DEF RemoveBridge, TypeOK
<1>9. QED BY <1>1, <1>2, <1>3, <1>4, <1>6, <1>7, <1>8 DEF TearDownStep

\* Steps of the janitor.
LEMMA TypeJanitor ==
    ASSUME TypeOK, NEW j \in Janitors, JanitorStep(j)
    PROVE  TypeOK'
<1>1. jan[j] \in JanitorRun
  BY DEF TypeOK
<1>2. ASSUME NEW from, NEW pass \in {"idle", "stuck", "orphan", "drift"},
             NEW vs \in SUBSET Workspaces, JanitorReads(j, from, pass, vs)
      PROVE  TypeOK'
  <2>1. [NoRun EXCEPT !.pass = pass, !.todo = vs] \in JanitorRun
    BY DEF NoRun, JanitorRun
  <2>2. QED BY <1>2, <2>1 DEF JanitorReads, TypeOK
<1>3. CASE JanitorStarts(j) \/ JanitorPass(j)
  BY <1>2, <1>3 DEF JanitorStarts, JanitorPass, JanitorEnds
<1>4. ASSUME NEW w \in Workspaces, JanitorTakes(j, w) PROVE TypeOK'
  <2> DEFINE p == CASE jan[j].pass # "orphan"   -> "detach"
                    [] att[w].st # "ATTACHED"   -> "release"
                    [] OTHER                    -> "next"
  <2>1. p \in {"next", "detach", "release"}
    OBVIOUS
  <2>2. jan' = [jan EXCEPT ![j].todo = @ \ {w}, ![j].ws = w, ![j].pc = p]
    BY <1>4, Zenon DEF JanitorTakes
  <2> HIDE DEF p
  <2>3. jan' = [jan EXCEPT ![j] = [jan[j] EXCEPT !.todo = jan[j].todo \ {w}, !.ws = w, !.pc = p]]
    BY <2>2
  <2>4. [jan[j] EXCEPT !.todo = jan[j].todo \ {w}, !.ws = w, !.pc = p] \in JanitorRun
    <3>1. jan[j].todo \ {w} \in SUBSET Workspaces
      BY <1>1 DEF JanitorRun
    <3>2. QED BY <1>1, <2>1, <3>1 DEF JanitorRun
  <2>5. QED BY <1>4, <2>3, <2>4 DEF JanitorTakes, TypeOK
<1>5. CASE JanitorDetach(j)
  <2>1. ASSUME NEW p \in {"next", "release"}, jan' = [jan EXCEPT ![j].pc = p]
        PROVE  jan' \in [Janitors -> JanitorRun]
    BY <1>1, <2>1 DEF TypeOK, JanitorRun
  <2>2. jan' \in [Janitors -> JanitorRun]
    BY <1>5, <2>1 DEF JanitorDetach
  <2>3. CASE Unwire(jan[j].ws)
    <3>1. CASE jan[j].ws \in Workspaces
      BY <1>5, <2>2, <2>3, <3>1, UnwireType DEF JanitorDetach, TypeOK
    <3>2. CASE jan[j].ws \notin Workspaces
      <4>1. [veth EXCEPT ![jan[j].ws] = NoIp] = veth /\ [att EXCEPT ![jan[j].ws].st = "DETACHED"] = att
        BY <3>2 DEF TypeOK
      <4>2. UNCHANGED <<att, veth>>
        BY <2>3, <4>1 DEF Unwire
      <4>3. QED BY <1>5, <2>2, <4>2 DEF JanitorDetach, TypeOK
    <3>3. QED BY <3>1, <3>2
  <2>4. CASE UNCHANGED <<att, veth>>
    BY <1>5, <2>2, <2>4 DEF JanitorDetach, TypeOK
  <2>5. QED BY <1>5, <2>3, <2>4 DEF JanitorDetach
<1>6. CASE JanitorRelease(j)
  <2>1. jan' \in [Janitors -> JanitorRun]
    BY <1>1, <1>6 DEF JanitorRelease, TypeOK, JanitorRun
  <2>2. QED BY <1>6, <2>1 DEF JanitorRelease, TypeOK
<1>7. CASE JanitorDies(j)
  <2>1. NoRun \in JanitorRun
    BY DEF NoRun, JanitorRun
  <2>2. QED BY <1>7, <2>1 DEF JanitorDies, TypeOK
<1>8. QED BY <1>3, <1>4, <1>5, <1>6, <1>7 DEF JanitorStep, JanitorWorks

\* Type correctness of the whole component, janitors and failing cleanups
\* included.
THEOREM TopologyTyping == Spec => []TypeOK
<1>1. TypeOK /\ [Next]_vars => TypeOK'
  <2> SUFFICES ASSUME TypeOK, [Next]_vars PROVE TypeOK'
    OBVIOUS
  <2>1. ASSUME NEW w \in Workspaces,
               (\E k \in Kinds : Request(w, k)) \/ JobStep(w) \/ Crash(w) \/ ContainerExits(w)
        PROVE  TypeOK'
    BY <2>1, TypeWhole, TypeBringUp, TypeTearDown DEF JobStep
  <2>2. CASE UNCHANGED vars
    BY <2>2 DEF vars, TypeOK
  <2>3. QED BY <2>1, <2>2, TypeJanitor DEF Next
<1>2. QED BY TypeInit, <1>1, PTL DEF Spec

-----------------------------------------------------------------------------
(* Addresses *)

\* Every step leases one free address, or only releases.
LEMMA LeaseChanges ==
    ASSUME TypeOK, [Next]_vars
    PROVE  \/ \E w \in Workspaces : \E a \in Free : lease' = [lease EXCEPT ![w] = a]
           \/ \A w \in Workspaces : lease'[w] \in {lease[w], NoIp}
<1>1. ASSUME NEW w \in Workspaces,
             (\E k \in Kinds : Request(w, k)) \/ Begin(w) \/ Crash(w) \/ ContainerExits(w)
      PROVE  UNCHANGED lease
  BY <1>1 DEF Request, Begin, Crash, ContainerExits
<1>2. ASSUME NEW w \in Workspaces, BringUpStep(w)
      PROVE  \/ \E a \in Free : lease' = [lease EXCEPT ![w] = a]
             \/ \A v \in Workspaces : lease'[v] \in {lease[v], NoIp}
  <2>1. CASE LeaseAddress(w)
    BY <2>1 DEF LeaseAddress
  <2>2. CASE AttachFailed(w)
    BY <2>2 DEF AttachFailed, TypeOK
  <2>3. CASE ~LeaseAddress(w) /\ ~AttachFailed(w)
    BY <1>2, <2>3 DEF BringUpStep, StartContainer, StartFails, BringUpFails, EnsureTopology,
       PickAddress, CheckAttach, PersistAttaching, Wire, PersistAttached, VerifyAttached,
       Probe, Finish
  <2>4. QED BY <2>1, <2>2, <2>3
<1>3. ASSUME NEW w \in Workspaces, TearDownStep(w)
      PROVE  \A v \in Workspaces : lease'[v] \in {lease[v], NoIp}
  BY <1>3 DEF TearDownStep, Detach, Halt, Release, CheckUnused, TidyRows, DropRows, RemoveBridge,
     TypeOK
<1>4. ASSUME NEW j \in Janitors, JanitorStep(j)
      PROVE  \A v \in Workspaces : lease'[v] \in {lease[v], NoIp}
  BY <1>4 DEF JanitorStep, JanitorStarts, JanitorWorks, JanitorDies, JanitorPass, JanitorEnds,
     JanitorReads, JanitorTakes, JanitorDetach,
     JanitorRelease, TypeOK
<1>5. CASE UNCHANGED vars
  BY <1>5 DEF vars
<1>6. QED BY <1>1, <1>2, <1>3, <1>4, <1>5 DEF Next, JobStep

\* No two active leases share an address, whatever crashes, failed cleanups and
\* janitors do: the partial unique index of ip_allocation.
THEOREM LeasesApartAlways == Spec => []LeasesApart
<1>1. Init => LeasesApart
  BY DEF Init, LeasesApart
<1>2. TypeOK /\ LeasesApart /\ [Next]_vars => LeasesApart'
  <2> SUFFICES ASSUME TypeOK, LeasesApart, [Next]_vars PROVE LeasesApart'
    OBVIOUS
  <2>1. ASSUME NEW w \in Workspaces, NEW a \in Free, lease' = [lease EXCEPT ![w] = a]
        PROVE  LeasesApart'
    BY <2>1 DEF LeasesApart, Free, TypeOK
  <2>2. CASE \A w \in Workspaces : lease'[w] \in {lease[w], NoIp}
    BY <2>2 DEF LeasesApart
  <2>3. QED BY <2>1, <2>2, LeaseChanges
<1>3. QED BY <1>1, <1>2, TopologyTyping, PTL DEF Spec

\* What the invariant says of one workspace.
Wired(w) ==
    /\ veth[w] # NoIp => veth[w] = lease[w]
    /\ job[w].pc \in {"attaching", "wire"} => lease[w] = job[w].ip
    /\ job[w].pc = "release" => veth[w] = NoIp
    /\ job[w].pc = "lease" => lease[w] = NoIp

\* A step of the job of w leaves every other workspace's rows and job alone, up
\* to the bridge being removed under it.
LEMMA OthersAlone ==
    ASSUME TypeOK, NEW w \in Workspaces,
           \/ \E k \in Kinds : Request(w, k)
           \/ JobStep(w) \/ Crash(w) \/ ContainerExits(w),
           NEW v \in Workspaces, v # w
    PROVE  /\ lease'[v] = lease[v]
           /\ job'[v] = job[v]
           /\ veth'[v] \in {veth[v], NoIp}
<1> USE DEF TypeOK
<1>1. CASE (\E k \in Kinds : Request(w, k)) \/ Begin(w) \/ Crash(w) \/ ContainerExits(w)
  BY <1>1 DEF Request, Begin, Crash, ContainerExits, RetryOrError, Ends, Go
<1>2. CASE BringUpStep(w)
  <2>1. CASE LeaseAddress(w) \/ AttachFailed(w) \/ CheckAttach(w)
    BY <2>1 DEF LeaseAddress, AttachFailed, CheckAttach, Go, Undo
  <2>2. CASE StartContainer(w) \/ StartFails(w) \/ BringUpFails(w) \/ EnsureTopology(w)
    BY <2>2 DEF StartContainer, StartFails, BringUpFails, EnsureTopology, Go, Undo,
       RetryOrError, Ends
  <2>3. CASE PickAddress(w) \/ PersistAttaching(w) \/ Wire(w) \/ PersistAttached(w)
    BY <2>3 DEF PickAddress, PersistAttaching, Wire, PersistAttached, Go
  <2>4. CASE VerifyAttached(w) \/ Probe(w) \/ Finish(w)
    BY <2>4 DEF VerifyAttached, Probe, Finish, Go, Ends
  <2>5. QED BY <1>2, <2>1, <2>2, <2>3, <2>4 DEF BringUpStep
<1>3. CASE TearDownStep(w)
  <2>1. CASE Detach(w) \/ CheckUnused(w) \/ TidyRows(w) \/ DropRows(w) \/ RemoveBridge(w)
    BY <2>1 DEF Detach, Unwire, CheckUnused, TidyRows, DropRows, RemoveBridge, Go, Ends
  <2>2. CASE Halt(w)
    BY <2>2 DEF Halt, AfterHalt, RetryOrError, Ends
  <2>3. CASE Release(w)
    BY <2>3 DEF Release, AfterRelease, RetryOrError, Ends
  <2>4. QED BY <1>3, <2>1, <2>2, <2>3 DEF TearDownStep
<1>4. QED BY <1>1, <1>2, <1>3 DEF JobStep

\* A job that is retried or over is at none of the guarded steps.
LEMMA RetryIdle ==
    ASSUME TypeOK, NEW w \in Workspaces,
           RetryOrError(w) \/ \E s \in {"STOPPED", "RUNNING", "ERROR", "DELETED"} : Ends(w, s)
    PROVE  job'[w].pc \in {"idle", "queued"}
<1>1. NoJob.pc = "idle"
  BY DEF NoJob
<1>2. ASSUME NEW k, NEW n PROVE QueuedJob(k, n).pc = "queued"
  BY DEF QueuedJob, NoJob
<1>3. job'[w] = NoJob \/ job'[w] = QueuedJob(job[w].kind, job[w].left - 1)
  BY DEF TypeOK, RetryOrError, Ends
<1>4. QED BY <1>1, <1>2, <1>3

\* Go moves the job on and keeps its address.
LEMMA GoKeepsIp ==
    ASSUME TypeOK, NEW w \in Workspaces, NEW p \in Steps, Go(w, p)
    PROVE  job'[w].pc = p /\ job'[w].ip = job[w].ip
BY SetPc DEF TypeOK, Go

\* The rollback begins with a detach.
LEMMA UndoDetaches ==
    ASSUME TypeOK, NEW w \in Workspaces, Undo(w)
    PROVE  job'[w].pc = "detach"
<1>1. 1 \in RoundSet /\ "detach" \in Steps /\ TRUE \in BOOLEAN
  BY DEF RoundSet, Steps
<1>2. QED BY <1>1, SetUndo DEF TypeOK, Undo

\* Every step of the bring-up keeps the wired address leased.
LEMMA WiredBringUp ==
    ASSUME TypeOK, ~CleanupMayFail, NEW w \in Workspaces, Wired(w), BringUpStep(w)
    PROVE  Wired(w)'
<1> USE DEF Wired, At
<1>0. /\ lease \in [Workspaces -> Addresses \cup {NoIp}]
      /\ veth \in [Workspaces -> Addresses \cup {NoIp}]
  BY DEF TypeOK
<1>a. \A p \in BringUpSteps : p \in Steps
  BY DEF Steps
<1>1. CASE StartContainer(w)
  <2>1. job'[w].pc = "ensure"
    BY <1>1, <1>a, GoKeepsIp DEF StartContainer, BringUpSteps
  <2>2. QED BY <1>1, <2>1 DEF StartContainer
<1>2. CASE StartFails(w)
  <2>1. job'[w].pc \in {"idle", "queued"}
    BY <1>2, RetryIdle DEF StartFails
  <2>2. QED BY <1>2, <2>1 DEF StartFails
<1>3. CASE BringUpFails(w)
  <2>1. job'[w].pc = "detach"
    BY <1>3, UndoDetaches DEF BringUpFails
  <2>2. QED BY <1>3, <2>1 DEF BringUpFails
<1>4. CASE EnsureTopology(w)
  <2>1. job'[w].pc = "pick"
    BY <1>4, <1>a, GoKeepsIp DEF EnsureTopology, BringUpSteps
  <2>2. QED BY <1>4, <2>1 DEF EnsureTopology
<1>5. CASE PickAddress(w)
  <2>1. job'[w].pc \in {"check", "lease"}
    <3>1. "check" \in Steps /\ "lease" \in Steps
      BY DEF Steps, BringUpSteps
    <3>2. lease[w] \in IpSet /\ \A a \in Candidates(w) : a \in IpSet
      BY <1>0 DEF IpSet, Candidates, Free
    <3>3. CASE job' = [job EXCEPT ![w].pc = "check", ![w].ip = lease[w]]
      BY <3>1, <3>2, <3>3, SetIp DEF TypeOK
    <3>4. ASSUME NEW a \in Candidates(w), job' = [job EXCEPT ![w].pc = "lease", ![w].ip = a]
          PROVE  job'[w].pc = "lease"
      BY <3>1, <3>2, <3>4, SetIp DEF TypeOK
    <3>5. QED BY <1>5, <3>3, <3>4 DEF PickAddress
  <2>2. lease[w] # NoIp => job'[w].pc = "check"
    <3>1. "check" \in Steps /\ lease[w] \in IpSet
      BY <1>0 DEF Steps, BringUpSteps, IpSet
    <3>2. ASSUME lease[w] # NoIp PROVE job' = [job EXCEPT ![w].pc = "check", ![w].ip = lease[w]]
      BY <1>5, <3>2 DEF PickAddress
    <3>3. QED BY <3>1, <3>2, SetIp DEF TypeOK
  <2>3. QED BY <1>5, <2>1, <2>2 DEF PickAddress
<1>6. CASE LeaseAddress(w)
  <2>1. CASE job[w].ip \in Free
    <3>1. job'[w].pc = "check"
      BY <1>6, <1>a, <2>1, GoKeepsIp DEF LeaseAddress, BringUpSteps
    <3>2. veth'[w] = veth[w] /\ veth[w] = NoIp
      BY <1>6 DEF LeaseAddress
    <3>3. QED BY <3>1, <3>2
  <2>2. CASE job[w].ip \notin Free
    <3>1. job'[w].pc \in {"pick", "detach"}
      <4>1. CASE Undo(w)
        BY <4>1, UndoDetaches
      <4>2. CASE /\ job[w].tries + 1 < MaxAllocAttempts
                 /\ job' = [job EXCEPT ![w].pc = "pick", ![w].tries = @ + 1]
        <5>1. "pick" \in Steps /\ job[w].tries + 1 \in TrySet
          BY <4>2, TopologyAssumption DEF TypeOK, Job, TrySet, Steps, BringUpSteps
        <5>2. job' = [job EXCEPT ![w].pc = "pick", ![w].tries = job[w].tries + 1]
          BY <4>2
        <5>3. QED BY <5>1, <5>2, SetTries DEF TypeOK
      <4>3. QED BY <1>6, <2>2, <4>1, <4>2 DEF LeaseAddress
    <3>2. UNCHANGED <<lease, veth>>
      BY <1>6, <2>2 DEF LeaseAddress
    <3>3. QED BY <3>1, <3>2
  <2>3. QED BY <2>1, <2>2
<1>7. CASE CheckAttach(w)
  <2>1. veth'[w] \in {veth[w], NoIp} /\ lease' = lease
    BY <1>0, <1>7 DEF CheckAttach
  <2>2. CASE Undo(w)
    BY <2>1, <2>2, UndoDetaches
  <2>3. CASE Go(w, "probe")
    <3>1. job'[w].pc = "probe"
      BY <1>a, <2>3, GoKeepsIp DEF BringUpSteps
    <3>2. QED BY <2>1, <3>1
  <2>4. CASE /\ lease[w] = job[w].ip
             /\ job' = [job EXCEPT ![w].pc = "attaching", ![w].fresh = (att[w].st = "NONE")]
    <3>1. "attaching" \in Steps /\ (att[w].st = "NONE") \in BOOLEAN
      BY DEF Steps, BringUpSteps
    <3>2. job'[w].pc = "attaching" /\ job'[w].ip = job[w].ip
      BY <2>4, <3>1, SetFresh DEF TypeOK
    <3>3. QED BY <2>1, <2>4, <3>2
  <2>5. QED BY <1>7, <2>2, <2>3, <2>4 DEF CheckAttach
<1>8. CASE PersistAttaching(w)
  <2>1. job'[w].pc = "wire" /\ job'[w].ip = job[w].ip
    BY <1>8, <1>a, GoKeepsIp DEF PersistAttaching, BringUpSteps
  <2>2. QED BY <1>8, <2>1 DEF PersistAttaching
<1>9. CASE Wire(w)
  <2>1. job'[w].pc = "confirm"
    BY <1>9, <1>a, GoKeepsIp DEF Wire, BringUpSteps
  <2>2. veth'[w] = job[w].ip /\ job[w].ip = lease[w] /\ lease' = lease
    BY <1>0, <1>9 DEF Wire
  <2>3. QED BY <2>1, <2>2
<1>10. CASE PersistAttached(w)
  <2>1. job'[w].pc = "verify"
    BY <1>10, <1>a, GoKeepsIp DEF PersistAttached, BringUpSteps
  <2>2. QED BY <1>10, <2>1 DEF PersistAttached
<1>11. CASE VerifyAttached(w)
  <2>1. job'[w].pc = "probe"
    BY <1>11, <1>a, GoKeepsIp DEF VerifyAttached, BringUpSteps
  <2>2. QED BY <1>11, <2>1 DEF VerifyAttached
<1>12. CASE AttachFailed(w)
  <2>1. job'[w].pc = "detach"
    BY <1>12, UndoDetaches DEF AttachFailed
  <2>2. veth'[w] = NoIp
    BY <1>0, <1>12 DEF AttachFailed
  <2>3. QED BY <2>1, <2>2
<1>13. CASE Probe(w)
  <2>1. job'[w].pc = "finish"
    BY <1>13, <1>a, GoKeepsIp DEF Probe, BringUpSteps
  <2>2. QED BY <1>13, <2>1 DEF Probe
<1>14. CASE Finish(w)
  <2>1. job'[w].pc \in {"idle", "queued"}
    BY <1>14, RetryIdle DEF Finish
  <2>2. QED BY <1>14, <2>1 DEF Finish
<1>15. QED
  BY <1>1, <1>2, <1>3, <1>4, <1>5, <1>6, <1>7, <1>8, <1>9, <1>10, <1>11, <1>12, <1>13, <1>14
     DEF BringUpStep

\* After the container's stop the job is in none of the bring-up's guarded steps.
LEMMA AfterHaltStep ==
    ASSUME TypeOK, NEW w \in Workspaces, NEW b \in BOOLEAN, AfterHalt(w, b)
    PROVE  job'[w].pc \in {"idle", "queued", "release", "sweep", "start"}
<1> DEFINE p == CASE job[w].round > 0 -> "release"
                  [] job[w].round = 0 /\ job[w].kind = "DELETE" -> "sweep"
                  [] OTHER -> "start"
<1>1. CASE job' = [job EXCEPT ![w].pc = p, ![w].ok = b]
  <2>1. p \in Steps /\ p \in {"release", "sweep", "start"}
    BY DEF Steps, BringUpSteps
  <2> HIDE DEF p
  <2>2. job'[w].pc = p
    BY <1>1, <2>1, SetOk DEF TypeOK
  <2>3. QED BY <2>1, <2>2
<1>2. CASE Ends(w, StopOutcome(b))
  <2>1. StopOutcome(b) \in {"STOPPED", "RUNNING", "ERROR", "DELETED"}
    BY DEF StopOutcome
  <2>2. QED BY <1>2, <2>1, RetryIdle
<1>3. CASE RetryOrError(w)
  BY <1>3, RetryIdle
<1>4. QED BY <1>1, <1>2, <1>3 DEF AfterHalt

\* After the release the job has ended, or the rollback begins again.
LEMMA AfterReleaseStep ==
    ASSUME TypeOK, NEW w \in Workspaces, NEW b \in BOOLEAN, AfterRelease(w, b)
    PROVE  job'[w].pc \in {"idle", "queued", "detach"}
<1>1. CASE RetryOrError(w)
  BY <1>1, RetryIdle
<1>2. CASE job' = [job EXCEPT ![w].pc = "detach", ![w].round = 2, ![w].ok = TRUE]
  <2>1. 2 \in RoundSet /\ "detach" \in Steps /\ TRUE \in BOOLEAN
    BY DEF RoundSet, Steps
  <2>2. QED BY <1>2, <2>1, SetUndo DEF TypeOK
<1>3. QED BY <1>1, <1>2 DEF AfterRelease

\* Every step of a stop or a delete keeps the wired address leased.
LEMMA WiredTearDown ==
    ASSUME TypeOK, ~CleanupMayFail, NEW w \in Workspaces, Wired(w), TearDownStep(w)
    PROVE  Wired(w)'
<1> USE DEF Wired, At
<1>0. /\ lease \in [Workspaces -> Addresses \cup {NoIp}]
      /\ veth \in [Workspaces -> Addresses \cup {NoIp}]
      /\ job[w].ok \in BOOLEAN
  BY DEF TypeOK, Job
<1>1. CASE Detach(w)
  <2>1. "halt" \in Steps
    BY DEF Steps
  <2>2. job'[w].pc = "halt"
    BY <1>1, <2>1, GoKeepsIp DEF Detach
  <2>3. veth'[w] \in {veth[w], NoIp} /\ lease' = lease
    BY <1>0, <1>1 DEF Detach, Unwire
  <2>4. QED BY <2>2, <2>3
<1>2. CASE Halt(w)
  <2>1. job'[w].pc \in {"idle", "queued", "release", "sweep", "start"}
    BY <1>0, <1>2, AfterHaltStep DEF Halt
  <2>2. veth'[w] = NoIp
    BY <1>0, <1>2 DEF Halt
  <2>3. QED BY <2>1, <2>2
<1>3. CASE Release(w)
  <2>1. job'[w].pc \in {"idle", "queued", "detach"}
    BY <1>0, <1>3, AfterReleaseStep DEF Release
  <2>2. veth'[w] = NoIp
    BY <1>3 DEF Release
  <2>3. QED BY <2>1, <2>2
<1>4. CASE CheckUnused(w)
  <2> DEFINE p == IF rt = "ABSENT" THEN "tidy" ELSE "drop"
             vs == {v \in Workspaces : att[v].st # "NONE"}
  <2>1. UNCHANGED <<lease, veth>>
    BY <1>4 DEF CheckUnused
  <2>2. CASE Ends(w, "DELETED")
    BY <2>1, <2>2, RetryIdle
  <2>3. CASE job' = [job EXCEPT ![w].pc = p, ![w].rows = vs]
    <3>1. p \in Steps /\ p \in {"tidy", "drop"} /\ vs \in RowSets
      BY DEF Steps, RowSets
    <3> HIDE DEF p, vs
    <3>2. job'[w].pc = p
      BY <2>3, <3>1, SetRows DEF TypeOK
    <3>3. QED BY <2>1, <3>1, <3>2
  <2>4. QED BY <1>4, <2>2, <2>3 DEF CheckUnused
<1>5. CASE DropRows(w)
  <2>1. UNCHANGED <<lease, veth>>
    BY <1>5 DEF DropRows
  <2>2. "bridge" \in Steps
    BY DEF Steps
  <2>3. job'[w].pc = "bridge"
    BY <1>5, <2>2, GoKeepsIp DEF DropRows
  <2>4. QED BY <2>1, <2>3
<1>6. CASE TidyRows(w) \/ RemoveBridge(w)
  <2>1. job'[w].pc \in {"idle", "queued"}
    BY <1>6, RetryIdle DEF TidyRows, RemoveBridge
  <2>2. veth'[w] \in {veth[w], NoIp} /\ lease' = lease
    BY <1>6 DEF TidyRows, RemoveBridge
  <2>3. QED BY <2>1, <2>2
<1>7. QED BY <1>1, <1>2, <1>3, <1>4, <1>5, <1>6 DEF TearDownStep

\* Every step of w itself keeps its wired address leased.
LEMMA WiredStep ==
    ASSUME TypeOK, ~CleanupMayFail, NEW w \in Workspaces, Wired(w),
           \/ \E k \in Kinds : Request(w, k)
           \/ JobStep(w) \/ Crash(w) \/ ContainerExits(w)
    PROVE  Wired(w)'
<1> USE DEF Wired, At
<1>1. ASSUME NEW k \in Kinds, Request(w, k) PROVE Wired(w)'
  <2>1. QueuedJob(k, MaxAttempts).pc = "queued"
    BY DEF QueuedJob, NoJob
  <2>2. job'[w].pc = "queued"
    BY <1>1, <2>1 DEF Request, TypeOK
  <2>3. QED BY <1>1, <2>2 DEF Request
<1>2. CASE Begin(w)
  <2>1. "start" \in Steps /\ "detach" \in Steps
    BY DEF Steps, BringUpSteps
  <2>2. job'[w].pc \in {"start", "detach"}
    BY <1>2, <2>1, GoKeepsIp DEF Begin
  <2>3. QED BY <1>2, <2>2 DEF Begin
<1>3. CASE Crash(w)
  <2>1. job'[w].pc \in {"idle", "queued"}
    BY <1>3, RetryIdle DEF Crash
  <2>2. QED BY <1>3, <2>1 DEF Crash
<1>4. CASE ContainerExits(w)
  BY <1>4 DEF ContainerExits, TypeOK
<1>5. QED BY <1>1, <1>2, <1>3, <1>4, WiredBringUp, WiredTearDown DEF JobStep

\* The inductive invariant, for any number of workspaces and addresses, as long
\* as cleanups succeed and no janitor runs: a wired address is a leased one, and
\* a job touches the lease or the wire only in the step where that is safe.
THEOREM AddressInvAlways ==
    ASSUME Janitors = {}, ~CleanupMayFail
    PROVE  Spec => []AddressInv
<1> DEFINE WInv == \A w \in Workspaces : Wired(w)
<1>1. Init => WInv
  <2>1. NoJob.pc = "idle"
    BY DEF NoJob
  <2>2. QED BY <2>1 DEF Init, Wired
<1>2. TypeOK /\ WInv /\ [Next]_vars => WInv'
  <2> SUFFICES ASSUME TypeOK, WInv, [Next]_vars, NEW v \in Workspaces PROVE Wired(v)'
    OBVIOUS
  <2>1. ASSUME NEW w \in Workspaces,
               (\E k \in Kinds : Request(w, k)) \/ JobStep(w) \/ Crash(w) \/ ContainerExits(w)
        PROVE  Wired(v)'
    <3>1. CASE v = w
      BY <2>1, <3>1, WiredStep
    <3>2. CASE v # w
      <4>1. lease'[v] = lease[v] /\ job'[v] = job[v] /\ veth'[v] \in {veth[v], NoIp}
        BY <2>1, <3>2, OthersAlone
      <4>2. QED BY <4>1 DEF Wired
    <3>3. QED BY <3>1, <3>2
  <2>2. CASE UNCHANGED vars
    BY <2>2 DEF vars, Wired
  <2>3. QED BY <2>1, <2>2 DEF Next
<1>3. WInv /\ LeasesApart => AddressInv
  BY DEF Wired, At, AddressInv, WiredOnLease, JobOnLease, ReleasedUnwired, PickedUnleased
<1>4. QED BY <1>1, <1>2, <1>3, TopologyTyping, LeasesApartAlways, PTL DEF Spec

\* No two containers on the bridge carry the same address, for any number of
\* workspaces and addresses, whatever crashes, conflicts and failures of the
\* bring-up happen: as long as cleanups succeed and no janitor runs.
THEOREM AddressesApartAlways ==
    ASSUME Janitors = {}, ~CleanupMayFail
    PROVE  Spec => []AddressesApart
<1>1. AddressInv => AddressesApart
  BY DEF AddressInv, LeasesApart, WiredOnLease, AddressesApart
<1>2. QED BY <1>1, AddressInvAlways, PTL

-----------------------------------------------------------------------------
(* Refinement of AddressPool *)

\* Taking a workspace off the bridge, or leaving it there, is a step of the pool.
LEMMA UnplugStep ==
    ASSUME TypeOK, NEW w \in Workspaces, UNCHANGED lease,
           veth' = [veth EXCEPT ![w] = NoIp] \/ UNCHANGED veth
    PROVE  [Pool!Next]_(Pool!poolVars)
<1>1. CASE veth' = [veth EXCEPT ![w] = NoIp]
  <2>1. veth' = [v \in Workspaces |-> IF v \in {w} THEN NoIp ELSE veth[v]]
    BY <1>1 DEF TypeOK
  <2>2. Pool!Unplug({w}) /\ {w} \in SUBSET Workspaces
    BY <2>1 DEF Pool!Unplug
  <2>3. QED BY <2>2 DEF Pool!Next
<1>2. CASE UNCHANGED veth
  BY <1>2 DEF Pool!poolVars
<1>3. QED BY <1>1, <1>2

\* A step of a bring-up takes the address it has picked, plugs in the one it
\* holds, or takes the workspace off the bridge again.
LEMMA BringUpPools ==
    ASSUME TypeOK, AddressInv, ~CleanupMayFail, NEW w \in Workspaces, BringUpStep(w)
    PROVE  [Pool!Next]_(Pool!poolVars)
<1>0. /\ lease \in [Workspaces -> Addresses \cup {NoIp}]
      /\ veth \in [Workspaces -> Addresses \cup {NoIp}]
  BY DEF TypeOK
<1>1. CASE LeaseAddress(w)
  <2>1. CASE job[w].ip \in Free
    <3>1. lease[w] = NoIp
      BY <1>1 DEF LeaseAddress, AddressInv, PickedUnleased
    <3>2. job[w].ip \in Addresses /\ \A v \in Workspaces : lease[v] # job[w].ip
      BY <2>1 DEF Free
    <3>3. lease' = [lease EXCEPT ![w] = job[w].ip] /\ UNCHANGED veth
      BY <1>1, <2>1 DEF LeaseAddress
    <3>4. Pool!Take(w, job[w].ip)
      BY <3>1, <3>2, <3>3 DEF Pool!Take
    <3>5. QED BY <3>2, <3>4 DEF Pool!Next
  <2>2. CASE job[w].ip \notin Free
    BY <1>1, <2>2, UnplugStep DEF LeaseAddress
  <2>3. QED BY <2>1, <2>2
<1>2. CASE Wire(w)
  <2>1. lease[w] = job[w].ip
    BY <1>2 DEF Wire, At, AddressInv, JobOnLease
  <2>2. veth[w] = NoIp /\ veth' = [veth EXCEPT ![w] = lease[w]] /\ UNCHANGED lease
    BY <1>2, <2>1 DEF Wire
  <2>3. CASE lease[w] = NoIp
    BY <2>2, <2>3, UnplugStep
  <2>4. CASE lease[w] # NoIp
    <3>1. Pool!Plug(w)
      BY <2>2, <2>4 DEF Pool!Plug
    <3>2. QED BY <3>1 DEF Pool!Next
  <2>5. QED BY <2>3, <2>4
<1>3. CASE AttachFailed(w)
  <2>1. veth' = [veth EXCEPT ![w] = NoIp]
    BY <1>3 DEF AttachFailed
  <2>2. CASE job[w].fresh /\ lease[w] = job[w].ip
    <3>1. lease' = [lease EXCEPT ![w] = NoIp]
      BY <1>0, <1>3, <2>2 DEF AttachFailed
    <3>2. Pool!GiveBack(w)
      BY <2>1, <3>1 DEF Pool!GiveBack
    <3>3. QED BY <3>2 DEF Pool!Next
  <2>3. CASE ~(job[w].fresh /\ lease[w] = job[w].ip)
    <3>1. lease' = lease
      BY <1>0, <1>3, <2>3 DEF AttachFailed
    <3>2. QED BY <2>1, <3>1, UnplugStep
  <2>4. QED BY <2>2, <2>3
<1>4. CASE CheckAttach(w)
  <2>1. UNCHANGED lease /\ (veth' = [veth EXCEPT ![w] = NoIp] \/ UNCHANGED veth)
    BY <1>0, <1>4 DEF CheckAttach
  <2>2. QED BY <2>1, UnplugStep
<1>5. CASE ~LeaseAddress(w) /\ ~Wire(w) /\ ~AttachFailed(w) /\ ~CheckAttach(w)
  BY <1>5 DEF BringUpStep, StartContainer, StartFails, BringUpFails, EnsureTopology,
     PickAddress, PersistAttaching, PersistAttached, VerifyAttached, Probe, Finish,
     Pool!poolVars
<1>6. QED BY <1>1, <1>2, <1>3, <1>4, <1>5

\* A step of a stop, a delete or a rollback takes workspaces off the bridge, or
\* gives the address of one that is off the bridge back.
LEMMA TearDownPools ==
    ASSUME TypeOK, AddressInv, ~CleanupMayFail, NEW w \in Workspaces, TearDownStep(w)
    PROVE  [Pool!Next]_(Pool!poolVars)
<1>0. /\ lease \in [Workspaces -> Addresses \cup {NoIp}]
      /\ veth \in [Workspaces -> Addresses \cup {NoIp}]
  BY DEF TypeOK
<1>1. CASE Detach(w) \/ Halt(w)
  <2>1. UNCHANGED lease /\ (veth' = [veth EXCEPT ![w] = NoIp] \/ UNCHANGED veth)
    BY <1>1 DEF Detach, Unwire, Halt
  <2>2. QED BY <2>1, UnplugStep
<1>2. CASE Release(w)
  <2>1. veth[w] = NoIp
    BY <1>2 DEF Release, AddressInv, ReleasedUnwired
  <2>2. veth' = [veth EXCEPT ![w] = NoIp]
    BY <1>0, <1>2, <2>1 DEF Release
  <2>3. Pool!GiveBack(w)
    BY <1>2, <2>2 DEF Release, Pool!GiveBack
  <2>4. QED BY <2>3 DEF Pool!Next
<1>3. CASE RemoveBridge(w)
  <2>1. veth' = [v \in Workspaces |-> IF v \in Workspaces THEN NoIp ELSE veth[v]]
    BY <1>3 DEF RemoveBridge
  <2>2. Pool!Unplug(Workspaces)
    BY <1>3, <2>1 DEF RemoveBridge, Pool!Unplug
  <2>3. QED BY <2>2 DEF Pool!Next
<1>4. CASE CheckUnused(w) \/ TidyRows(w) \/ DropRows(w)
  BY <1>4 DEF CheckUnused, TidyRows, DropRows, Pool!poolVars
<1>5. QED BY <1>1, <1>2, <1>3, <1>4 DEF TearDownStep

\* The address protocol implements the abstract pool, for any number of workspaces
\* and addresses and wherever jobs conflict, fail or die, as long as cleanups
\* succeed and no janitor runs.
THEOREM ImplementsAddressPoolAlways ==
    ASSUME Janitors = {}, ~CleanupMayFail
    PROVE  Spec => ImplementsAddressPool
<1>1. Init => Pool!Init
  BY DEF Init, Pool!Init
<1>2. TypeOK /\ AddressInv /\ [Next]_vars => [Pool!Next]_(Pool!poolVars)
  <2> SUFFICES ASSUME TypeOK, AddressInv, [Next]_vars PROVE [Pool!Next]_(Pool!poolVars)
    OBVIOUS
  <2>1. ASSUME NEW w \in Workspaces, NEW k \in Kinds, Request(w, k)
        PROVE  [Pool!Next]_(Pool!poolVars)
    BY <2>1, UnplugStep DEF Request
  <2>2. ASSUME NEW w \in Workspaces, Begin(w) \/ Crash(w) \/ ContainerExits(w)
        PROVE  [Pool!Next]_(Pool!poolVars)
    BY <2>2, UnplugStep DEF Begin, Crash, ContainerExits
  <2>3. CASE UNCHANGED vars
    BY <2>3 DEF vars, Pool!poolVars
  <2>4. QED BY <2>1, <2>2, <2>3, BringUpPools, TearDownPools DEF Next, JobStep
<1>3. QED
  BY <1>1, <1>2, TopologyTyping, AddressInvAlways, PTL DEF Spec, ImplementsAddressPool, Pool!Spec

-----------------------------------------------------------------------------
(* A RUNNING workspace is attached under its own lease, whatever fails       *)

Sweeps == {"sweep", "tidy", "drop", "bridge"}

\* A job keeps its workspace BUSY; without DELETE no job sweeps the topology; and
\* what the probe has found at its end is so until the next job begins.
Runs(w) ==
    /\ job[w].pc # "idle" => status[w] = "BUSY"
    /\ job[w].pc \notin Sweeps
    /\ job[w].pc = "finish" \/ status[w] = "RUNNING" => att[w] = [st |-> "ATTACHED", ip |-> lease[w]]

\* The job goes on and is not through with its probe, or ends in another status.
GoesOn(w) == job'[w].pc \notin Sweeps \cup {"idle", "finish"} /\ status'[w] = status[w]

EndsDown(w) == job'[w].pc = "idle" /\ status'[w] \in {"STOPPED", "ERROR"}

LEMMA RetryRuns ==
    ASSUME TypeOK, NEW w \in Workspaces, RetryOrError(w)
    PROVE  GoesOn(w) \/ EndsDown(w)
<1>1. NoJob.pc = "idle" /\ QueuedJob(job[w].kind, job[w].left - 1).pc = "queued"
  BY DEF NoJob, QueuedJob
<1>2. \/ job'[w] = QueuedJob(job[w].kind, job[w].left - 1) /\ status'[w] = status[w]
      \/ job'[w] = NoJob /\ status'[w] = "ERROR"
  BY DEF RetryOrError, Ends, TypeOK
<1> QED
  BY <1>1, <1>2 DEF GoesOn, EndsDown, Sweeps

LEMMA UndoRuns ==
    ASSUME TypeOK, NEW w \in Workspaces, Undo(w), status' = status
    PROVE  GoesOn(w)
BY UndoDetaches DEF GoesOn, Sweeps

LEMMA GoRuns ==
    ASSUME TypeOK, NEW w \in Workspaces, NEW p \in Steps \ (Sweeps \cup {"idle", "finish"}), Go(w, p), status' = status
    PROVE  GoesOn(w)
BY GoKeepsIp DEF GoesOn

\* Every step of the bring-up before its end goes on or ends in ERROR.
LEMMA BringUpRuns ==
    ASSUME TypeOK, NEW w \in Workspaces, BringUpStep(w), ~Probe(w), ~Finish(w)
    PROVE  GoesOn(w) \/ EndsDown(w)
<1>0. \A p \in BringUpSteps \ {"finish"} : p \in Steps \ (Sweeps \cup {"idle", "finish"})
  BY DEF Steps, BringUpSteps, Sweeps
<1>1. CASE StartFails(w)
  BY <1>1, RetryRuns DEF StartFails
<1>2. CASE BringUpFails(w) \/ AttachFailed(w)
  BY <1>2, UndoRuns DEF BringUpFails, AttachFailed
<1>3. CASE StartContainer(w) \/ EnsureTopology(w) \/ PersistAttaching(w) \/ Wire(w)
  <2>1. PICK p \in {"ensure", "pick", "wire", "confirm"} : Go(w, p)
    BY <1>3 DEF StartContainer, EnsureTopology, PersistAttaching, Wire
  <2>2. status' = status /\ p \in BringUpSteps \ {"finish"}
    BY <1>3 DEF StartContainer, EnsureTopology, PersistAttaching, Wire, BringUpSteps
  <2> QED
    BY <1>0, <2>1, <2>2, GoRuns
<1>4. CASE PersistAttached(w) \/ VerifyAttached(w)
  <2>1. PICK p \in {"verify", "probe"} : Go(w, p)
    BY <1>4 DEF PersistAttached, VerifyAttached
  <2>2. status' = status /\ p \in BringUpSteps \ {"finish"}
    BY <1>4 DEF PersistAttached, VerifyAttached, BringUpSteps
  <2> QED
    BY <1>0, <2>1, <2>2, GoRuns
<1>5. CASE PickAddress(w)
  <2>1. PICK p \in {"check", "lease"}, a \in IpSet : job' = [job EXCEPT ![w].pc = p, ![w].ip = a]
    BY <1>5 DEF PickAddress, TypeOK, IpSet, Candidates, Free
  <2>2. status' = status /\ p \in Steps
    BY <1>5 DEF PickAddress, Steps, BringUpSteps
  <2>3. job'[w].pc = p
    BY <2>1, <2>2, SetIp DEF TypeOK
  <2> QED
    BY <2>2, <2>3 DEF GoesOn, Sweeps
<1>6. CASE LeaseAddress(w)
  <2>1. status' = status
    BY <1>6 DEF LeaseAddress
  <2>2. CASE Go(w, "check")
    BY <1>0, <2>1, <2>2, GoRuns DEF BringUpSteps
  <2>3. CASE Undo(w)
    BY <2>1, <2>3, UndoRuns
  <2>4. CASE /\ job[w].tries + 1 < MaxAllocAttempts
             /\ job' = [job EXCEPT ![w].pc = "pick", ![w].tries = @ + 1]
    <3>1. "pick" \in Steps /\ job[w].tries + 1 \in TrySet
      BY <2>4, TopologyAssumption DEF TypeOK, Job, TrySet, Steps, BringUpSteps
    <3>2. job' = [job EXCEPT ![w].pc = "pick", ![w].tries = job[w].tries + 1]
      BY <2>4
    <3>3. job'[w].pc = "pick"
      BY <3>1, <3>2, SetTries DEF TypeOK
    <3> QED
      BY <2>1, <3>3 DEF GoesOn, Sweeps
  <2> QED
    BY <1>6, <2>2, <2>3, <2>4 DEF LeaseAddress
<1>7. CASE CheckAttach(w)
  <2>1. status' = status
    BY <1>7 DEF CheckAttach
  <2>2. CASE Go(w, "probe")
    BY <1>0, <2>1, <2>2, GoRuns DEF BringUpSteps
  <2>3. CASE Undo(w)
    BY <2>1, <2>3, UndoRuns
  <2>4. CASE job' = [job EXCEPT ![w].pc = "attaching", ![w].fresh = (att[w].st = "NONE")]
    <3>1. "attaching" \in Steps /\ (att[w].st = "NONE") \in BOOLEAN
      BY DEF Steps, BringUpSteps
    <3>2. job'[w].pc = "attaching"
      BY <2>4, <3>1, SetFresh DEF TypeOK
    <3> QED
      BY <2>1, <3>2 DEF GoesOn, Sweeps
  <2> QED
    BY <1>7, <2>2, <2>3, <2>4 DEF CheckAttach
<1> QED
  BY <1>1, <1>2, <1>3, <1>4, <1>5, <1>6, <1>7 DEF BringUpStep

\* A stop, a restart and the rollback go on or leave the workspace STOPPED or in ERROR.
LEMMA TearDownRuns ==
    ASSUME TypeOK, "DELETE" \notin Kinds, NEW w \in Workspaces, job[w].pc \notin Sweeps, TearDownStep(w)
    PROVE  GoesOn(w) \/ EndsDown(w)
<1>0. job[w].ok \in BOOLEAN /\ job[w].kind # "DELETE"
  BY DEF TypeOK, Job
<1>1. CASE Detach(w)
  <2>1. status' = status /\ "halt" \in Steps \ (Sweeps \cup {"idle", "finish"})
    BY <1>1 DEF Detach, Steps, Sweeps
  <2>2. CASE Go(w, "halt")
    BY <2>1, <2>2, GoRuns
  <2>3. CASE job' = [job EXCEPT ![w].pc = "halt", ![w].ok = FALSE]
    <3>1. job'[w].pc = "halt"
      BY <2>1, <2>3, SetOk DEF TypeOK
    <3> QED
      BY <2>1, <3>1 DEF GoesOn
  <2> QED
    BY <1>1, <2>2, <2>3 DEF Detach
<1>2. CASE Halt(w)
  <2>1. PICK b \in BOOLEAN : AfterHalt(w, b)
    BY <1>0, <1>2 DEF Halt
  <2> DEFINE p == CASE job[w].round > 0 -> "release"
                    [] job[w].round = 0 /\ job[w].kind = "DELETE" -> "sweep"
                    [] OTHER -> "start"
  <2>2. CASE job' = [job EXCEPT ![w].pc = p, ![w].ok = b] /\ UNCHANGED status
    <3>1. p \in {"release", "start"} /\ p \in Steps
      BY <1>0 DEF Steps, BringUpSteps
    <3> HIDE DEF p
    <3>2. job'[w].pc = p
      BY <2>2, <3>1, SetOk DEF TypeOK
    <3> QED
      BY <2>2, <3>1, <3>2 DEF GoesOn, Sweeps
  <2>3. CASE Ends(w, StopOutcome(b))
    <3>1. job'[w] = NoJob /\ status'[w] = StopOutcome(b)
      BY <2>3 DEF Ends, TypeOK
    <3> QED
      BY <3>1 DEF EndsDown, NoJob, StopOutcome
  <2>4. CASE RetryOrError(w)
    BY <2>4, RetryRuns
  <2> QED
    BY <2>1, <2>2, <2>3, <2>4 DEF AfterHalt
<1>3. CASE Release(w)
  <2>1. CASE RetryOrError(w)
    BY <2>1, RetryRuns
  <2>2. CASE job' = [job EXCEPT ![w].pc = "detach", ![w].round = 2, ![w].ok = TRUE] /\ UNCHANGED status
    <3>1. 2 \in RoundSet /\ "detach" \in Steps /\ TRUE \in BOOLEAN
      BY DEF RoundSet, Steps
    <3>2. job'[w].pc = "detach"
      BY <2>2, <3>1, SetUndo DEF TypeOK
    <3> QED
      BY <2>2, <3>2 DEF GoesOn, Sweeps
  <2> QED
    BY <1>3, <2>1, <2>2 DEF Release, AfterRelease
<1>4. ~(CheckUnused(w) \/ TidyRows(w) \/ DropRows(w) \/ RemoveBridge(w))
  BY DEF CheckUnused, TidyRows, DropRows, RemoveBridge, At, Sweeps
<1> QED
  BY <1>1, <1>2, <1>3, <1>4 DEF TearDownStep

LEMMA RunsStep ==
    ASSUME TypeOK, "DELETE" \notin Kinds, NEW w \in Workspaces, Runs(w),
           \/ \E k \in Kinds : Request(w, k)
           \/ JobStep(w) \/ Crash(w) \/ ContainerExits(w)
    PROVE  Runs(w)'
<1>1. ASSUME NEW k \in Kinds, Request(w, k) PROVE Runs(w)'
  <2>1. job'[w] = QueuedJob(k, MaxAttempts) /\ status'[w] = "BUSY"
    BY <1>1 DEF Request, TypeOK
  <2>2. job'[w].pc = "queued"
    BY <2>1 DEF QueuedJob, NoJob
  <2> QED
    BY <2>1, <2>2 DEF Runs, Sweeps
<1>2. CASE ContainerExits(w)
  BY <1>2 DEF ContainerExits, Runs
<1>3. CASE Probe(w)
  <2>1. job'[w].pc = "finish"
    BY <1>3, GoKeepsIp DEF Probe, Steps, BringUpSteps
  <2>2. /\ status[w] = "BUSY" /\ UNCHANGED <<status, att, lease>>
        /\ att[w] = [st |-> "ATTACHED", ip |-> job[w].ip] /\ lease[w] = att[w].ip
    BY <1>3 DEF Probe, At, Runs
  <2> QED
    BY <2>1, <2>2 DEF Runs, Sweeps
<1>4. CASE Finish(w)
  <2>1. job'[w] = NoJob /\ UNCHANGED <<att, lease>> /\ att[w] = [st |-> "ATTACHED", ip |-> lease[w]]
    BY <1>4 DEF Finish, Ends, At, Runs, TypeOK
  <2>2. job'[w].pc = "idle"
    BY <2>1 DEF NoJob
  <2> QED
    BY <2>1, <2>2 DEF Runs, Sweeps
<1>5. CASE job[w].pc # "idle" /\ (GoesOn(w) \/ EndsDown(w))
  <2>1. status[w] = "BUSY"
    BY <1>5 DEF Runs
  <2> QED
    BY <1>5, <2>1 DEF GoesOn, EndsDown, Runs, Sweeps
<1>6. CASE Crash(w)
  BY <1>5, <1>6, RetryRuns DEF Crash
<1>7. CASE Begin(w)
  <2>1. PICK p \in {"start", "detach"} : Go(w, p)
    BY <1>7 DEF Begin
  <2>2. status' = status /\ job[w].pc # "idle" /\ p \in Steps \ (Sweeps \cup {"idle", "finish"})
    BY <1>7 DEF Begin, At, Steps, BringUpSteps, Sweeps
  <2> QED
    BY <1>5, <2>1, <2>2, GoRuns
<1>8. CASE BringUpStep(w)
  <2>1. job[w].pc # "idle"
    BY <1>8 DEF BringUpStep, StartContainer, StartFails, BringUpFails, EnsureTopology, PickAddress, LeaseAddress,
       CheckAttach, PersistAttaching, Wire, PersistAttached, VerifyAttached, AttachFailed, AttachBroken, Probe, Finish, At
  <2> QED
    BY <1>3, <1>4, <1>5, <1>8, <2>1, BringUpRuns
<1>9. CASE TearDownStep(w)
  <2>1. job[w].pc # "idle"
    BY <1>9 DEF TearDownStep, Detach, Halt, Release, CheckUnused, TidyRows, DropRows, RemoveBridge, At
  <2>2. job[w].pc \notin Sweeps
    BY DEF Runs
  <2> QED
    BY <1>5, <1>9, <2>1, <2>2, TearDownRuns
<1> QED
  BY <1>1, <1>2, <1>6, <1>7, <1>8, <1>9 DEF JobStep

\* A job that deletes no topology leaves the rows of the others alone.
LEMMA OthersKeepRows ==
    ASSUME TypeOK, NEW w \in Workspaces, job[w].pc \notin Sweeps,
           \/ \E k \in Kinds : Request(w, k)
           \/ JobStep(w) \/ Crash(w) \/ ContainerExits(w),
           NEW v \in Workspaces, v # w
    PROVE  att'[v] = att[v] /\ status'[v] = status[v]
<1> USE DEF TypeOK
<1>1. CASE (\E k \in Kinds : Request(w, k)) \/ Begin(w) \/ Crash(w) \/ ContainerExits(w)
  BY <1>1 DEF Request, Begin, Crash, ContainerExits, RetryOrError, Ends
<1>2. CASE BringUpStep(w)
  BY <1>2 DEF BringUpStep, StartContainer, StartFails, BringUpFails, EnsureTopology, PickAddress, LeaseAddress,
     CheckAttach, PersistAttaching, Wire, PersistAttached, VerifyAttached, AttachFailed, Probe, Finish, RetryOrError, Ends
<1>3. CASE Detach(w)
  BY <1>3 DEF Detach, Unwire
<1>4. CASE Halt(w)
  BY <1>4 DEF Halt, AfterHalt, RetryOrError, Ends
<1>5. CASE Release(w)
  BY <1>5 DEF Release, AfterRelease, RetryOrError, Ends
<1>6. ~(CheckUnused(w) \/ TidyRows(w) \/ DropRows(w) \/ RemoveBridge(w))
  BY DEF CheckUnused, TidyRows, DropRows, RemoveBridge, At, Sweeps
<1> QED
  BY <1>1, <1>2, <1>3, <1>4, <1>5, <1>6 DEF JobStep, TearDownStep

\* A RUNNING workspace is ATTACHED under the address it has leased, for any number of
\* workspaces and addresses, whatever crashes and whichever cleanups fail, as long as
\* no janitor runs and no topology is deleted meanwhile: the probe that ends a
\* bring-up has seen both rows, and nobody else writes them.
THEOREM RunningOnItsAddressAlways ==
    ASSUME Janitors = {}, "DELETE" \notin Kinds
    PROVE  Spec => []RunningOnItsAddress
<1> DEFINE RInv == \A w \in Workspaces : Runs(w)
<1>1. Init => RInv
  <2>1. NoJob.pc = "idle"
    BY DEF NoJob
  <2> QED
    BY <2>1 DEF Init, Runs, Sweeps
<1>2. TypeOK /\ RInv /\ [Next]_vars => RInv'
  <2> SUFFICES ASSUME TypeOK, RInv, [Next]_vars, NEW v \in Workspaces PROVE Runs(v)'
    OBVIOUS
  <2>1. ASSUME NEW w \in Workspaces,
               (\E k \in Kinds : Request(w, k)) \/ JobStep(w) \/ Crash(w) \/ ContainerExits(w)
        PROVE  Runs(v)'
    <3>1. CASE v = w
      BY <2>1, <3>1, RunsStep
    <3>2. CASE v # w
      <4>1. lease'[v] = lease[v] /\ job'[v] = job[v]
        BY <2>1, <3>2, OthersAlone
      <4>2. att'[v] = att[v] /\ status'[v] = status[v]
        <5>1. job[w].pc \notin Sweeps
          BY DEF Runs
        <5> QED
          BY <2>1, <3>2, <5>1, OthersKeepRows
      <4> QED
        BY <4>1, <4>2 DEF Runs
    <3> QED
      BY <3>1, <3>2
  <2>2. CASE UNCHANGED vars
    BY <2>2 DEF vars, Runs
  <2> QED
    BY <2>1, <2>2 DEF Next
<1>3. RInv => RunningOnItsAddress
  BY DEF Runs, RunningOnItsAddress
<1> QED
  BY <1>1, <1>2, <1>3, TopologyTyping, PTL DEF Spec

-----------------------------------------------------------------------------
(* Two RUNNING workspaces are on different addresses, whatever fails         *)

\* A job keeps its workspace BUSY, and a workspace that is RUNNING, or about to
\* be, is wired to the address it has leased if it is wired at all.
Serves(w) ==
    /\ job[w].pc # "idle" => status[w] = "BUSY"
    /\ job[w].pc = "finish" \/ status[w] = "RUNNING" => veth[w] \in {lease[w], NoIp}

\* The job goes on and is not through with its probe, or is over and its
\* workspace not RUNNING.
StaysDown(w) ==
    \/ job'[w].pc \notin {"idle", "finish"} /\ status'[w] = status[w]
    \/ job'[w].pc = "idle" /\ status'[w] \in {"STOPPED", "ERROR", "DELETED"}

LEMMA RunsStaysDown ==
    ASSUME NEW w \in Workspaces, GoesOn(w) \/ EndsDown(w)
    PROVE  StaysDown(w)
BY DEF GoesOn, EndsDown, StaysDown

\* No step of a stop, a rollback or a delete makes its workspace RUNNING.
LEMMA TearDownStaysDown ==
    ASSUME TypeOK, NEW w \in Workspaces, TearDownStep(w)
    PROVE  StaysDown(w)
<1>0. job[w].ok \in BOOLEAN
  BY DEF TypeOK, Job
<1>a. ASSUME Ends(w, "DELETED") PROVE StaysDown(w)
  <2>1. job'[w] = NoJob /\ status'[w] = "DELETED"
    BY <1>a DEF Ends, TypeOK
  <2> QED
    BY <2>1 DEF StaysDown, NoJob
<1>1. CASE Detach(w)
  <2>1. status' = status /\ "halt" \in Steps
    BY <1>1 DEF Detach, Steps
  <2>2. CASE Go(w, "halt")
    BY <2>1, <2>2, GoKeepsIp DEF StaysDown
  <2>3. CASE job' = [job EXCEPT ![w].pc = "halt", ![w].ok = FALSE]
    <3>1. job'[w].pc = "halt"
      BY <2>1, <2>3, SetOk DEF TypeOK
    <3> QED
      BY <2>1, <3>1 DEF StaysDown
  <2> QED
    BY <1>1, <2>2, <2>3 DEF Detach
<1>2. CASE Halt(w)
  <2>1. PICK b \in BOOLEAN : AfterHalt(w, b)
    BY <1>0, <1>2 DEF Halt
  <2> DEFINE p == CASE job[w].round > 0 -> "release"
                    [] job[w].round = 0 /\ job[w].kind = "DELETE" -> "sweep"
                    [] OTHER -> "start"
  <2>2. CASE job' = [job EXCEPT ![w].pc = p, ![w].ok = b] /\ UNCHANGED status
    <3>1. p \in {"release", "sweep", "start"} /\ p \in Steps
      BY DEF Steps, BringUpSteps
    <3> HIDE DEF p
    <3>2. job'[w].pc = p
      BY <2>2, <3>1, SetOk DEF TypeOK
    <3> QED
      BY <2>2, <3>1, <3>2 DEF StaysDown
  <2>3. CASE Ends(w, StopOutcome(b))
    <3>1. job'[w] = NoJob /\ status'[w] = StopOutcome(b)
      BY <2>3 DEF Ends, TypeOK
    <3> QED
      BY <3>1 DEF StaysDown, NoJob, StopOutcome
  <2>4. CASE RetryOrError(w)
    BY <2>4, RetryRuns, RunsStaysDown
  <2> QED
    BY <2>1, <2>2, <2>3, <2>4 DEF AfterHalt
<1>3. CASE Release(w)
  <2>1. CASE RetryOrError(w)
    BY <2>1, RetryRuns, RunsStaysDown
  <2>2. CASE job' = [job EXCEPT ![w].pc = "detach", ![w].round = 2, ![w].ok = TRUE] /\ UNCHANGED status
    <3>1. 2 \in RoundSet /\ "detach" \in Steps /\ TRUE \in BOOLEAN
      BY DEF RoundSet, Steps
    <3>2. job'[w].pc = "detach"
      BY <2>2, <3>1, SetUndo DEF TypeOK
    <3> QED
      BY <2>2, <3>2 DEF StaysDown
  <2> QED
    BY <1>3, <2>1, <2>2 DEF Release, AfterRelease
<1>4. CASE CheckUnused(w)
  <2> DEFINE p == IF rt = "ABSENT" THEN "tidy" ELSE "drop"
             vs == {v \in Workspaces : att[v].st # "NONE"}
  <2>1. CASE Ends(w, "DELETED")
    BY <1>a, <2>1
  <2>2. CASE job' = [job EXCEPT ![w].pc = p, ![w].rows = vs] /\ UNCHANGED status
    <3>1. p \in Steps /\ p \in {"tidy", "drop"} /\ vs \in RowSets
      BY DEF Steps, RowSets
    <3> HIDE DEF p, vs
    <3>2. job'[w].pc = p
      BY <2>2, <3>1, SetRows DEF TypeOK
    <3> QED
      BY <2>2, <3>1, <3>2 DEF StaysDown
  <2> QED
    BY <1>4, <2>1, <2>2 DEF CheckUnused
<1>5. CASE TidyRows(w) \/ RemoveBridge(w)
  BY <1>a, <1>5 DEF TidyRows, RemoveBridge
<1>6. CASE DropRows(w)
  <2>1. CASE Go(w, "bridge") /\ UNCHANGED status
    <3>1. "bridge" \in Steps
      BY DEF Steps
    <3> QED
      BY <2>1, <3>1, GoKeepsIp DEF StaysDown
  <2> QED
    BY <1>a, <1>6, <2>1 DEF DropRows
<1> QED
  BY <1>1, <1>2, <1>3, <1>4, <1>5, <1>6 DEF TearDownStep

\* Every step of w itself keeps it on its lease while it is RUNNING.
LEMMA ServesStep ==
    ASSUME TypeOK, NEW w \in Workspaces, Serves(w),
           \/ \E k \in Kinds : Request(w, k)
           \/ JobStep(w) \/ Crash(w) \/ ContainerExits(w)
    PROVE  Serves(w)'
<1>1. ASSUME NEW k \in Kinds, Request(w, k) PROVE Serves(w)'
  <2>1. job'[w] = QueuedJob(k, MaxAttempts) /\ status'[w] = "BUSY"
    BY <1>1 DEF Request, TypeOK
  <2>2. job'[w].pc = "queued"
    BY <2>1 DEF QueuedJob, NoJob
  <2> QED
    BY <2>1, <2>2 DEF Serves
<1>2. CASE ContainerExits(w)
  BY <1>2 DEF ContainerExits, Serves, TypeOK
<1>3. CASE Probe(w)
  <2>1. job'[w].pc = "finish"
    BY <1>3, GoKeepsIp DEF Probe, Steps, BringUpSteps
  <2>2. att[w] = [st |-> "ATTACHED", ip |-> job[w].ip] /\ lease[w] = att[w].ip /\ veth[w] = job[w].ip
    BY <1>3 DEF Probe, Plumbed
  <2>3. veth[w] = lease[w]
    BY <2>2
  <2>4. status[w] = "BUSY" /\ UNCHANGED <<status, veth, lease>>
    BY <1>3 DEF Probe, At, Serves
  <2> QED
    BY <2>1, <2>3, <2>4 DEF Serves
<1>4. CASE Finish(w)
  <2>1. job'[w] = NoJob /\ UNCHANGED <<veth, lease>> /\ veth[w] \in {lease[w], NoIp}
    BY <1>4 DEF Finish, Ends, At, Serves, TypeOK
  <2>2. job'[w].pc = "idle"
    BY <2>1 DEF NoJob
  <2> QED
    BY <2>1, <2>2 DEF Serves
<1>5. CASE job[w].pc # "idle" /\ StaysDown(w)
  <2>1. status[w] = "BUSY"
    BY <1>5 DEF Serves
  <2> QED
    BY <1>5, <2>1 DEF StaysDown, Serves
<1>6. CASE Crash(w)
  BY <1>5, <1>6, RetryRuns, RunsStaysDown DEF Crash
<1>7. CASE Begin(w)
  <2>1. PICK p \in {"start", "detach"} : Go(w, p)
    BY <1>7 DEF Begin
  <2>2. status' = status /\ job[w].pc # "idle" /\ p \in Steps
    BY <1>7 DEF Begin, At, Steps, BringUpSteps
  <2>3. job'[w].pc = p
    BY <2>1, <2>2, GoKeepsIp
  <2> QED
    BY <1>5, <2>2, <2>3 DEF StaysDown
<1>8. CASE BringUpStep(w)
  <2>1. job[w].pc # "idle"
    BY <1>8 DEF BringUpStep, StartContainer, StartFails, BringUpFails, EnsureTopology, PickAddress, LeaseAddress,
       CheckAttach, PersistAttaching, Wire, PersistAttached, VerifyAttached, AttachFailed, AttachBroken, Probe, Finish, At
  <2> QED
    BY <1>3, <1>4, <1>5, <1>8, <2>1, BringUpRuns, RunsStaysDown
<1>9. CASE TearDownStep(w)
  <2>1. job[w].pc # "idle"
    BY <1>9 DEF TearDownStep, Detach, Halt, Release, CheckUnused, TidyRows, DropRows, RemoveBridge, At
  <2> QED
    BY <1>5, <1>9, <2>1, TearDownStaysDown
<1> QED
  BY <1>1, <1>2, <1>6, <1>7, <1>8, <1>9 DEF JobStep

\* No job writes the status of a workspace other than its own.
LEMMA OthersKeepStatus ==
    ASSUME TypeOK, NEW w \in Workspaces,
           \/ \E k \in Kinds : Request(w, k)
           \/ JobStep(w) \/ Crash(w) \/ ContainerExits(w),
           NEW v \in Workspaces, v # w
    PROVE  status'[v] = status[v]
<1>1. CASE job[w].pc \notin Sweeps
  BY <1>1, OthersKeepRows
<1>2. CASE TearDownStep(w)
  BY <1>2 DEF TypeOK, TearDownStep, Detach, Halt, AfterHalt, Release, AfterRelease, CheckUnused, TidyRows, DropRows,
     RemoveBridge, RetryOrError, Ends
<1>3. CASE (\E k \in Kinds : Request(w, k)) \/ Begin(w) \/ Crash(w) \/ ContainerExits(w)
  BY <1>3 DEF TypeOK, Request, Begin, Crash, ContainerExits, RetryOrError, Ends
<1>4. CASE BringUpStep(w)
  BY <1>4 DEF TypeOK, BringUpStep, StartContainer, StartFails, BringUpFails, EnsureTopology, PickAddress, LeaseAddress,
     CheckAttach, PersistAttaching, Wire, PersistAttached, VerifyAttached, AttachFailed, Probe, Finish, RetryOrError, Ends
<1> QED
  BY <1>2, <1>3, <1>4 DEF JobStep

\* Two RUNNING workspaces never carry the same address, for any number of workspaces
\* and addresses, whatever crashes and whichever cleanups fail, topologies deleted
\* under them included, as long as no janitor runs: a veth that a failed detach has left
\* on a lease given back is never that of a RUNNING workspace, because the probe has
\* compared it with the lease and only the workspace's own job releases that.
THEOREM RunningApartAlways ==
    ASSUME Janitors = {}
    PROVE  Spec => []RunningApart
<1> DEFINE SInv == \A w \in Workspaces : Serves(w)
<1>1. Init => SInv
  <2>1. NoJob.pc = "idle"
    BY DEF NoJob
  <2> QED
    BY <2>1 DEF Init, Serves
<1>2. TypeOK /\ SInv /\ [Next]_vars => SInv'
  <2> SUFFICES ASSUME TypeOK, SInv, [Next]_vars, NEW v \in Workspaces PROVE Serves(v)'
    OBVIOUS
  <2>1. ASSUME NEW w \in Workspaces,
               (\E k \in Kinds : Request(w, k)) \/ JobStep(w) \/ Crash(w) \/ ContainerExits(w)
        PROVE  Serves(v)'
    <3>1. CASE v = w
      BY <2>1, <3>1, ServesStep
    <3>2. CASE v # w
      <4>1. lease'[v] = lease[v] /\ job'[v] = job[v] /\ veth'[v] \in {veth[v], NoIp}
        BY <2>1, <3>2, OthersAlone
      <4>2. status'[v] = status[v]
        BY <2>1, <3>2, OthersKeepStatus
      <4> QED
        BY <4>1, <4>2 DEF Serves
    <3> QED
      BY <3>1, <3>2
  <2>2. CASE UNCHANGED vars
    BY <2>2 DEF vars, Serves
  <2> QED
    BY <2>1, <2>2 DEF Next
<1>3. SInv /\ LeasesApart => RunningApart
  BY DEF Serves, LeasesApart, RunningApart
<1> QED
  BY <1>1, <1>2, <1>3, TopologyTyping, LeasesApartAlways, PTL DEF Spec

-----------------------------------------------------------------------------
(* A job under way ends or gets nearer to its end, whatever happens          *)

\* What a step of the job of w does to it.
Descends(w) == job'[w].pc = "idle" \/ Nearer(job'[w], job[w])

\* The fields the measure is made of.
LEMMA JobFields ==
    ASSUME TypeOK, NEW w \in Workspaces
    PROVE  /\ job[w].tries \in 0 .. MaxAllocAttempts
           /\ job[w].round \in 0 .. 2
           /\ job[w].left \in 0 .. MaxAttempts
           /\ MaxAllocAttempts \in Nat /\ MaxAttempts \in Nat
BY TopologyAssumption DEF TypeOK, Job

\* A retry uses up one of the attempts.
LEMMA RetryDescends ==
    ASSUME TypeOK, NEW w \in Workspaces,
           RetryOrError(w) \/ \E s \in {"STOPPED", "RUNNING", "ERROR", "DELETED"} : Ends(w, s)
    PROVE  Descends(w)
<1>1. NoJob.pc = "idle"
  BY DEF NoJob
<1>2. QueuedJob(job[w].kind, job[w].left - 1).left = job[w].left - 1
  BY DEF QueuedJob, NoJob
<1>3. job'[w] = NoJob \/ job'[w] = QueuedJob(job[w].kind, job[w].left - 1)
  BY DEF TypeOK, RetryOrError, Ends
<1>4. job[w].left - 1 < job[w].left
  BY JobFields
<1>5. QED BY <1>1, <1>2, <1>3, <1>4 DEF Descends, Nearer

\* A step that moves on keeps what is counted.
LEMMA GoCounts ==
    ASSUME TypeOK, NEW w \in Workspaces, NEW p \in Steps, Go(w, p)
    PROVE  /\ job'[w].pc = p
           /\ job'[w].tries = job[w].tries
           /\ job'[w].round = job[w].round
           /\ job'[w].left = job[w].left
BY SetPc DEF TypeOK, Go

\* A step that moves on to a place with fewer steps left.
LEMMA GoDescends ==
    ASSUME NEW w \in Workspaces, job'[w].left = job[w].left,
           StepsLeft(job'[w]) < StepsLeft(job[w])
    PROVE  Descends(w)
BY DEF Descends, Nearer

\* The rollback has fewer steps than what is left of the bring-up.
LEMMA UndoDescends ==
    ASSUME TypeOK, NEW w \in Workspaces, job[w].pc \in BringUpSteps \ {"finish"}, Undo(w)
    PROVE  Descends(w)
<1>1. job'[w] = [job[w] EXCEPT !.pc = "detach", !.round = 1, !.ok = TRUE]
  BY DEF TypeOK, Undo
<1>2. job'[w].pc = "detach" /\ job'[w].round = 1 /\ job'[w].left = job[w].left
  BY <1>1, JobRecord DEF TypeOK
<1>3. StepsLeft(job'[w]) = 6
  BY <1>2 DEF StepsLeft
<1>4. StepsLeft(job[w]) > 6
  BY JobFields DEF StepsLeft, BringUpSteps
<1>5. QED BY <1>2, <1>3, <1>4 DEF Descends, Nearer

\* Every step of the bring-up.
LEMMA BringUpDescends ==
    ASSUME TypeOK, NEW w \in Workspaces, BringUpStep(w)
    PROVE  Descends(w)
<1> USE JobFields DEF At
<1>a. \A p \in BringUpSteps : p \in Steps
  BY DEF Steps
<1>1. CASE StartFails(w) \/ Finish(w)
  BY <1>1, RetryDescends DEF StartFails, Finish
<1>2. CASE BringUpFails(w) \/ AttachFailed(w)
  <2>1. job[w].pc \in BringUpSteps \ {"finish"}
    BY <1>2 DEF BringUpFails, AttachFailed, AttachBroken, BringUpSteps
  <2>2. QED BY <1>2, <2>1, UndoDescends DEF BringUpFails, AttachFailed
<1>3. CASE StartContainer(w)
  <2>1. job'[w].pc = "ensure" /\ job'[w].tries = job[w].tries /\ job'[w].left = job[w].left
    BY <1>3, <1>a, GoCounts DEF StartContainer, BringUpSteps
  <2>2. job[w].pc = "start"
    BY <1>3 DEF StartContainer
  <2>3. QED BY <2>1, <2>2, GoDescends DEF StepsLeft
<1>4. CASE EnsureTopology(w)
  <2>1. job'[w].pc = "pick" /\ job'[w].tries = job[w].tries /\ job'[w].left = job[w].left
    BY <1>4, <1>a, GoCounts DEF EnsureTopology, BringUpSteps
  <2>2. job[w].pc = "ensure"
    BY <1>4 DEF EnsureTopology
  <2>3. QED BY <2>1, <2>2, GoDescends DEF StepsLeft
<1>5. CASE PersistAttaching(w)
  <2>1. job'[w].pc = "wire" /\ job'[w].tries = job[w].tries /\ job'[w].left = job[w].left
    BY <1>5, <1>a, GoCounts DEF PersistAttaching, BringUpSteps
  <2>2. job[w].pc = "attaching"
    BY <1>5 DEF PersistAttaching
  <2>3. QED BY <2>1, <2>2, GoDescends DEF StepsLeft
<1>6. CASE Wire(w)
  <2>1. job'[w].pc = "confirm" /\ job'[w].tries = job[w].tries /\ job'[w].left = job[w].left
    BY <1>6, <1>a, GoCounts DEF Wire, BringUpSteps
  <2>2. job[w].pc = "wire"
    BY <1>6 DEF Wire
  <2>3. QED BY <2>1, <2>2, GoDescends DEF StepsLeft
<1>7. CASE PersistAttached(w)
  <2>1. job'[w].pc = "verify" /\ job'[w].tries = job[w].tries /\ job'[w].left = job[w].left
    BY <1>7, <1>a, GoCounts DEF PersistAttached, BringUpSteps
  <2>2. job[w].pc = "confirm"
    BY <1>7 DEF PersistAttached
  <2>3. QED BY <2>1, <2>2, GoDescends DEF StepsLeft
<1>8. CASE VerifyAttached(w)
  <2>1. job'[w].pc = "probe" /\ job'[w].tries = job[w].tries /\ job'[w].left = job[w].left
    BY <1>8, <1>a, GoCounts DEF VerifyAttached, BringUpSteps
  <2>2. job[w].pc = "verify"
    BY <1>8 DEF VerifyAttached
  <2>3. QED BY <2>1, <2>2, GoDescends DEF StepsLeft
<1>9. CASE Probe(w)
  <2>1. job'[w].pc = "finish" /\ job'[w].tries = job[w].tries /\ job'[w].left = job[w].left
    BY <1>9, <1>a, GoCounts DEF Probe, BringUpSteps
  <2>2. job[w].pc = "probe"
    BY <1>9 DEF Probe
  <2>3. QED BY <2>1, <2>2, GoDescends DEF StepsLeft
<1>10. CASE PickAddress(w)
  <2>1. PICK p \in {"check", "lease"}, a \in IpSet : job' = [job EXCEPT ![w].pc = p, ![w].ip = a]
    BY <1>10 DEF PickAddress, TypeOK, IpSet, Candidates, Free
  <2>2. p \in Steps
    BY DEF Steps, BringUpSteps
  <2>3. job'[w].pc = p /\ job'[w].left = job[w].left /\ job'[w].tries = job[w].tries
    BY <2>1, <2>2, SetIp DEF TypeOK
  <2>4. StepsLeft(job'[w]) < StepsLeft(job[w])
    BY <1>10, <2>3 DEF PickAddress, StepsLeft
  <2>5. QED BY <2>3, <2>4 DEF Descends, Nearer
<1>11. CASE LeaseAddress(w)
  <2>1. CASE Go(w, "check")
    <3>1. job'[w].pc = "check" /\ job'[w].tries = job[w].tries /\ job'[w].left = job[w].left
      BY <2>1, <1>a, GoCounts DEF BringUpSteps
    <3>2. job[w].pc = "lease"
      BY <1>11 DEF LeaseAddress
    <3>3. QED BY <3>1, <3>2, GoDescends DEF StepsLeft
  <2>2. CASE Undo(w)
    BY <1>11, <2>2, UndoDescends DEF LeaseAddress, BringUpSteps
  <2>3. CASE /\ job[w].tries + 1 < MaxAllocAttempts
             /\ job' = [job EXCEPT ![w].pc = "pick", ![w].tries = @ + 1]
    <3>1. "pick" \in Steps /\ job[w].tries + 1 \in TrySet
      BY <2>3 DEF TrySet, Steps, BringUpSteps
    <3>2. job' = [job EXCEPT ![w].pc = "pick", ![w].tries = job[w].tries + 1]
      BY <2>3
    <3>3. job'[w].pc = "pick" /\ job'[w].left = job[w].left /\ job'[w].tries = job[w].tries + 1
      BY <3>1, <3>2, SetTries DEF TypeOK
    <3>4. StepsLeft(job'[w]) < StepsLeft(job[w])
      BY <1>11, <3>3 DEF LeaseAddress, StepsLeft
    <3>5. QED BY <3>3, <3>4 DEF Descends, Nearer
  <2>4. QED BY <1>11, <2>1, <2>2, <2>3 DEF LeaseAddress
<1>12. CASE CheckAttach(w)
  <2>1. CASE Go(w, "probe")
    <3>1. job'[w].pc = "probe" /\ job'[w].tries = job[w].tries /\ job'[w].left = job[w].left
      BY <2>1, <1>a, GoCounts DEF BringUpSteps
    <3>2. job[w].pc = "check"
      BY <1>12 DEF CheckAttach
    <3>3. QED BY <3>1, <3>2, GoDescends DEF StepsLeft
  <2>2. CASE Undo(w)
    BY <1>12, <2>2, UndoDescends DEF CheckAttach, BringUpSteps
  <2>3. CASE job' = [job EXCEPT ![w].pc = "attaching", ![w].fresh = (att[w].st = "NONE")]
    <3>1. "attaching" \in Steps /\ (att[w].st = "NONE") \in BOOLEAN
      BY DEF Steps, BringUpSteps
    <3>2. job'[w].pc = "attaching" /\ job'[w].left = job[w].left
      BY <2>3, <3>1, SetFresh DEF TypeOK
    <3>3. StepsLeft(job'[w]) < StepsLeft(job[w])
      BY <1>12, <3>2 DEF CheckAttach, StepsLeft
    <3>4. QED BY <3>2, <3>3 DEF Descends, Nearer
  <2>4. QED BY <1>12, <2>1, <2>2, <2>3 DEF CheckAttach
<1>13. QED
  BY <1>1, <1>2, <1>3, <1>4, <1>5, <1>6, <1>7, <1>8, <1>9, <1>10, <1>11, <1>12 DEF BringUpStep

\* Every step of a stop, a rollback or a delete.
LEMMA TearDownDescends ==
    ASSUME TypeOK, NEW w \in Workspaces, TearDownStep(w)
    PROVE  Descends(w)
<1> USE JobFields DEF At
<1>0. job[w].ok \in BOOLEAN
  BY DEF TypeOK, Job
<1>1. CASE Detach(w)
  <2>1. "halt" \in Steps
    BY DEF Steps
  <2>2. job'[w].pc = "halt" /\ job'[w].left = job[w].left /\ job'[w].round = job[w].round
    <3>1. CASE Go(w, "halt")
      BY <2>1, <3>1, SetPc DEF Go, TypeOK
    <3>2. CASE job' = [job EXCEPT ![w].pc = "halt", ![w].ok = FALSE]
      BY <2>1, <3>2, SetOk DEF TypeOK
    <3>3. QED BY <1>1, <3>1, <3>2 DEF Detach
  <2>3. StepsLeft(job'[w]) < StepsLeft(job[w])
    BY <1>1, <2>2 DEF Detach, StepsLeft
  <2>4. QED BY <2>2, <2>3 DEF Descends, Nearer
<1>2. CASE Halt(w)
  <2>1. PICK b \in BOOLEAN : AfterHalt(w, b)
    BY <1>0, <1>2 DEF Halt
  <2> DEFINE p == CASE job[w].round > 0 -> "release"
                    [] job[w].round = 0 /\ job[w].kind = "DELETE" -> "sweep"
                    [] OTHER -> "start"
  <2>2. CASE job' = [job EXCEPT ![w].pc = p, ![w].ok = b]
    <3>1. p \in Steps /\ p = (IF job[w].round > 0 THEN "release" ELSE p)
          /\ (job[w].round = 0 => p \in {"sweep", "start"})
      BY DEF Steps, BringUpSteps
    <3> HIDE DEF p
    <3>2. job'[w].pc = p /\ job'[w].left = job[w].left /\ job'[w].round = job[w].round
      BY <2>2, <3>1, SetOk DEF TypeOK
    <3>3. CASE job[w].round > 0
      <4>1. StepsLeft(job'[w]) = 7 - 3 * job[w].round /\ StepsLeft(job[w]) = 8 - 3 * job[w].round
        BY <1>2, <3>1, <3>2, <3>3 DEF Halt, StepsLeft
      <4>2. QED BY <3>2, <4>1 DEF Descends, Nearer
    <3>4. CASE job[w].round = 0
      <4>1. StepsLeft(job[w]) = 18 + 2 * MaxAllocAttempts
        BY <1>2, <3>4 DEF Halt, StepsLeft
      <4>2. StepsLeft(job'[w]) \in {4, 17 + 2 * MaxAllocAttempts}
        BY <3>1, <3>2, <3>4 DEF StepsLeft
      <4>3. QED BY <3>2, <4>1, <4>2, GoDescends
    <3>5. QED BY <3>3, <3>4
  <2>3. CASE Ends(w, StopOutcome(b))
    <3>1. StopOutcome(b) \in {"STOPPED", "RUNNING", "ERROR", "DELETED"}
      BY DEF StopOutcome
    <3>2. QED BY <2>3, <3>1, RetryDescends
  <2>4. CASE RetryOrError(w)
    BY <2>4, RetryDescends
  <2>5. QED BY <2>1, <2>2, <2>3, <2>4 DEF AfterHalt
<1>3. CASE Release(w)
  <2>1. CASE RetryOrError(w)
    BY <2>1, RetryDescends
  <2>2. CASE job[w].round # 2 /\ job' = [job EXCEPT ![w].pc = "detach", ![w].round = 2, ![w].ok = TRUE]
    <3>1. job'[w] = [job[w] EXCEPT !.pc = "detach", !.round = 2, !.ok = TRUE]
      BY <2>2 DEF TypeOK
    <3>2. job'[w].pc = "detach" /\ job'[w].left = job[w].left /\ job'[w].round = 2
      BY <3>1, JobRecord DEF TypeOK
    <3>3. StepsLeft(job'[w]) = 3 /\ StepsLeft(job[w]) \in {4, 7}
      BY <1>3, <2>2, <3>2 DEF Release, StepsLeft
    <3>4. QED BY <3>2, <3>3 DEF Descends, Nearer
  <2>3. QED BY <1>3, <2>1, <2>2 DEF Release, AfterRelease
<1>4. CASE CheckUnused(w)
  <2> DEFINE p == IF rt = "ABSENT" THEN "tidy" ELSE "drop"
             vs == {v \in Workspaces : att[v].st # "NONE"}
  <2>1. CASE Ends(w, "DELETED")
    BY <2>1, RetryDescends
  <2>2. CASE job' = [job EXCEPT ![w].pc = p, ![w].rows = vs]
    <3>1. p \in Steps /\ p \in {"tidy", "drop"} /\ vs \in RowSets
      BY DEF Steps, RowSets
    <3> HIDE DEF p, vs
    <3>2. job'[w].pc = p /\ job'[w].left = job[w].left
      BY <2>2, <3>1, SetRows DEF TypeOK
    <3>3. StepsLeft(job'[w]) \in {1, 2} /\ StepsLeft(job[w]) = 4
      BY <1>4, <3>1, <3>2 DEF CheckUnused, StepsLeft
    <3>4. QED BY <3>2, <3>3 DEF Descends, Nearer
  <2>3. QED BY <1>4, <2>1, <2>2 DEF CheckUnused
<1>5. CASE TidyRows(w) \/ RemoveBridge(w)
  BY <1>5, RetryDescends DEF TidyRows, RemoveBridge
<1>6. CASE DropRows(w)
  <2>1. CASE Go(w, "bridge")
    <3>1. "bridge" \in Steps
      BY DEF Steps
    <3>2. job'[w].pc = "bridge" /\ job'[w].left = job[w].left
      BY <2>1, <3>1, GoCounts
    <3>3. job[w].pc = "drop"
      BY <1>6 DEF DropRows
    <3>4. QED BY <3>2, <3>3, GoDescends DEF StepsLeft
  <2>2. QED BY <1>6, <2>1, RetryDescends DEF DropRows
<1>7. QED BY <1>1, <1>2, <1>3, <1>4, <1>5, <1>6 DEF TearDownStep

\* Every step a worker takes for a job, and every crash, brings it nearer to its end:
\* so JobStep of a workspace cannot be taken forever without the job being over.
LEMMA JobStepDescends ==
    ASSUME TypeOK, NEW w \in Workspaces, JobStep(w) \/ Crash(w)
    PROVE  Descends(w)
<1>1. CASE Crash(w)
  BY <1>1, RetryDescends DEF Crash
<1>2. CASE Begin(w)
  <2>1. PICK p \in {"start", "detach"} : Go(w, p)
    BY <1>2 DEF Begin
  <2>2. p \in Steps
    BY DEF Steps, BringUpSteps
  <2>3. job'[w].pc = p /\ job'[w].left = job[w].left /\ job'[w].round = job[w].round
    BY <2>1, <2>2, SetPc DEF Go, TypeOK
  <2>4. StepsLeft(job'[w]) < StepsLeft(job[w])
    BY <1>2, <2>3, JobFields DEF Begin, At, StepsLeft
  <2>5. QED BY <2>3, <2>4 DEF Descends, Nearer
<1>3. QED BY <1>1, <1>2, BringUpDescends, TearDownDescends DEF JobStep

\* For any number of workspaces, addresses, janitors and attempts, and with no proviso
\* on failures: nothing that happens to a job under way, be it a lease conflict, a
\* failed cleanup, a crash or another workspace's step, moves it away from its end.
THEOREM JobDescendsAlways == Spec => JobDescends
<1> DEFINE D(w) == ~At(w, "idle") /\ job'[w] # job[w] => At(w, "idle")' \/ Nearer(job'[w], job[w])
<1>1. TypeOK /\ [Next]_vars => [\A v \in Workspaces : D(v)]_vars
  <2> SUFFICES ASSUME TypeOK, Next, NEW v \in Workspaces PROVE D(v)
    OBVIOUS
  <2>1. ASSUME NEW w \in Workspaces,
               (\E k \in Kinds : Request(w, k)) \/ JobStep(w) \/ Crash(w) \/ ContainerExits(w)
        PROVE  D(v)
    <3>1. CASE v # w
      BY <2>1, <3>1, OthersAlone
    <3>2. CASE v = w /\ (JobStep(w) \/ Crash(w))
      BY <3>2, JobStepDescends DEF Descends, At
    <3>3. CASE v = w /\ \E k \in Kinds : Request(w, k)
      BY <3>3 DEF Request, At
    <3>4. CASE ContainerExits(w)
      BY <3>4 DEF ContainerExits
    <3>5. QED BY <2>1, <3>1, <3>2, <3>3, <3>4
  <2>2. ASSUME NEW j \in Janitors, JanitorStep(j) PROVE D(v)
    BY <2>2 DEF JanitorStep, JanitorStarts, JanitorWorks, JanitorDies, JanitorPass, JanitorEnds,
       JanitorReads, JanitorTakes, JanitorDetach, JanitorRelease
  <2>3. QED BY <2>1, <2>2 DEF Next
<1>2. (\A v \in Workspaces : D(v)) => (\A w \in Workspaces : ~At(w, "idle") /\ job'[w] # job[w] => At(w, "idle")' \/ Nearer(job'[w], job[w]))
  OBVIOUS
<1>3. QED BY <1>1, <1>2, TopologyTyping, PTL DEF Spec, JobDescends

=============================================================================
