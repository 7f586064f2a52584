------------------------------ MODULE Topology ------------------------------
(***************************************************************************)
(* One topology on one node: the topology_runtime row, the leases of       *)
(* ip_allocation, the topology_attachment rows, and what they stand for on *)
(* the host (running containers and the veth that gives each its address). *)
(*                                                                         *)
(* Worker jobs bring workspaces up, stop, restart and delete them through  *)
(* OrchestratorService and DbTopologyAdapter.  A workspace has at most one *)
(* such job at a time (IntentsAreExclusive and NoDoubleExecution of        *)
(* WorkspaceJobs); jobs of different workspaces and the topology janitor   *)
(* interleave between their commits.                                       *)
(***************************************************************************)
EXTENDS Naturals

CONSTANTS
    Workspaces,        \* workspaces placed on this node
    NumAddresses,      \* usable host addresses of the topology CIDR
    Janitors,          \* run_topology_janitor calls of reconcile jobs on this node
    Kinds,             \* the kinds of job this instance runs
    MaxAllocAttempts,  \* _ALLOCATE_IP_MAX_ATTEMPTS
    MaxAttempts,       \* bound: retries of one job
    CleanupMayFail,    \* detach, stop and release may fail
    None               \* no workspace

Addresses == 1 .. NumAddresses

NoIp == 0

ASSUME TopologyAssumption ==
    /\ NumAddresses \in Nat
    /\ MaxAllocAttempts \in Nat \ {0}
    /\ MaxAttempts \in Nat
    /\ CleanupMayFail \in BOOLEAN
    /\ Kinds \subseteq {"UP", "STOP", "RESTART", "DELETE"}
    /\ None \notin Workspaces

VARIABLES
    rt,      \* TopologyRuntime.status, "ABSENT" without a row
    lease,   \* lease[w]: the ip of w's active ip_allocation row, or NoIp
    att,     \* att[w]: w's topology_attachment row; st "NONE" without one
    veth,    \* veth[w]: the address wired into w's container, or NoIp
    up,      \* up[w]: w's container is running
    status,  \* status[w]: Workspace.status, transitional ones as "BUSY"
    job,     \* job[w]: the job of w under way
    jan      \* jan[j]: janitor j's pass, and the rows it has yet to repair

vars == <<rt, lease, att, veth, up, status, job, jan>>

NoAtt == [st |-> "NONE", ip |-> NoIp]

Attachment == [st : {"NONE", "ATTACHING", "ATTACHED", "DETACHED", "FAILED"},
               ip : Addresses \cup {NoIp}]

\* round: 0 while the job makes progress, 1 and 2 in the two attempts of the
\* compensating rollback.  ok: no step of the current stop has failed.  fresh:
\* attach_workspace found no attachment row.  rows: the attachment rows
\* delete_topology has read.
NoJob == [kind |-> "NONE", pc |-> "idle", ip |-> NoIp, tries |-> 0, fresh |-> FALSE,
          round |-> 0, ok |-> TRUE, rows |-> {}, left |-> 0]

BringUpSteps == {"start", "ensure", "pick", "lease", "check", "attaching", "wire",
                 "confirm", "verify", "probe", "finish"}

Steps == BringUpSteps \cup {"idle", "queued", "detach", "halt", "release",
                            "sweep", "tidy", "drop", "bridge"}

Job == [kind  : Kinds \cup {"NONE"},
        pc    : Steps,
        ip    : Addresses \cup {NoIp},
        tries : 0 .. MaxAllocAttempts,
        fresh : BOOLEAN,
        round : 0 .. 2,
        ok    : BOOLEAN,
        rows  : SUBSET Workspaces,
        left  : 0 .. MaxAttempts]

NoRun == [pass |-> "idle", todo |-> {}, pc |-> "next", ws |-> None]

JanitorRun == [pass : {"idle", "stuck", "orphan", "drift"},
               todo : SUBSET Workspaces,
               pc   : {"next", "detach", "release"},
               ws   : Workspaces \cup {None}]

Init ==
    /\ rt = "ABSENT"
    /\ lease = [w \in Workspaces |-> NoIp]
    /\ att = [w \in Workspaces |-> NoAtt]
    /\ veth = [w \in Workspaces |-> NoIp]
    /\ up = [w \in Workspaces |-> FALSE]
    /\ status = [w \in Workspaces |-> "NEW"]
    /\ job = [w \in Workspaces |-> NoJob]
    /\ jan = [j \in Janitors |-> NoRun]

-----------------------------------------------------------------------------
(* The job as a whole *)

KindFrom(k) ==
    CASE k = "UP"      -> {"NEW", "STOPPED", "ERROR"}
      [] k = "STOP"    -> {"RUNNING"}
      [] k = "RESTART" -> {"RUNNING", "STOPPED"}
      [] k = "DELETE"  -> {"RUNNING", "STOPPED", "ERROR", "DELETED"}

QueuedJob(k, n) == [NoJob EXCEPT !.kind = k, !.pc = "queued", !.left = n]

Request(w, k) ==
    /\ job[w].pc = "idle"
    /\ status[w] \in KindFrom(k)
    /\ status' = [status EXCEPT ![w] = "BUSY"]
    /\ job' = [job EXCEPT ![w] = QueuedJob(k, MaxAttempts)]
    /\ UNCHANGED <<rt, lease, att, veth, up, jan>>

At(w, pc) == job[w].pc = pc

Go(w, pc) == job' = [job EXCEPT ![w].pc = pc]

\* UP starts with the container, every other kind by detaching it.
Begin(w) ==
    /\ At(w, "queued")
    /\ Go(w, IF job[w].kind = "UP" THEN "start" ELSE "detach")
    /\ UNCHANGED <<rt, lease, att, veth, up, status, jan>>

Ends(w, s) ==
    /\ job' = [job EXCEPT ![w] = NoJob]
    /\ status' = [status EXCEPT ![w] = s]

\* The job is retried from its beginning, or the workspace ends in ERROR.
RetryOrError(w) ==
    \/ /\ job[w].left > 0
       /\ job' = [job EXCEPT ![w] = QueuedJob(job[w].kind, job[w].left - 1)]
       /\ UNCHANGED status
    \/ /\ job[w].left = 0
       /\ Ends(w, "ERROR")

\* The worker dies; the stuck job is reclaimed.
Crash(w) ==
    /\ job[w].pc \notin {"idle", "queued"}
    /\ RetryOrError(w)
    /\ UNCHANGED <<rt, lease, att, veth, up, jan>>

\* A dead container takes its network namespace and its veth with it.
ContainerExits(w) ==
    /\ up[w]
    /\ up' = [up EXCEPT ![w] = FALSE]
    /\ veth' = [veth EXCEPT ![w] = NoIp]
    /\ UNCHANGED <<rt, lease, att, status, job, jan>>

\* _bring_up_compensating_rollback
Undo(w) == job' = [job EXCEPT ![w].pc = "detach", ![w].round = 1, ![w].ok = TRUE]

-----------------------------------------------------------------------------
(* Bring-up: container, topology, address *)

StartContainer(w) ==
    /\ At(w, "start")
    /\ up' = [up EXCEPT ![w] = TRUE]
    /\ Go(w, "ensure")
    /\ UNCHANGED <<rt, lease, att, veth, status, jan>>

\* Without a container id the rollback cannot stop anything and returns at once.
StartFails(w) ==
    /\ At(w, "start")
    /\ RetryOrError(w)
    /\ UNCHANGED <<rt, lease, att, veth, up, jan>>

\* Any step before ATTACHING is persisted may raise.
BringUpFails(w) ==
    /\ job[w].pc \in {"start", "ensure", "pick", "lease", "check", "attaching", "probe"}
    /\ Undo(w)
    /\ UNCHANGED <<rt, lease, att, veth, up, status, jan>>

EnsureTopology(w) ==
    /\ At(w, "ensure")
    /\ rt' \in {"READY", "DEGRADED"}
    /\ Go(w, "pick")
    /\ UNCHANGED <<lease, att, veth, up, status, jan>>

Free == {a \in Addresses : \A v \in Workspaces : lease[v] # a}

\* The first attempt takes the first free host, later ones start elsewhere.
Candidates(w) == IF job[w].tries = 0 THEN {a \in Free : \A b \in Free : a <= b}
                                     ELSE Free

PickAddress(w) ==
    /\ At(w, "pick")
    /\ rt = "READY"
    /\ \/ /\ lease[w] # NoIp
          /\ job' = [job EXCEPT ![w].pc = "check", ![w].ip = lease[w]]
       \/ /\ lease[w] = NoIp
          /\ \E a \in Candidates(w) :
                 job' = [job EXCEPT ![w].pc = "lease", ![w].ip = a]
    /\ UNCHANGED <<rt, lease, att, veth, up, status, jan>>

\* Mutant of LeaseAddress: no unique index on the active addresses.
LeaseAddressUnchecked(w) ==
    /\ At(w, "lease")
    /\ lease' = [lease EXCEPT ![w] = job[w].ip]
    /\ Go(w, "check")
    /\ UNCHANGED <<rt, att, veth, up, status, jan>>

\* The commit; the unique index refuses an address taken since it was picked.
LeaseAddress(w) ==
    /\ At(w, "lease")
    /\ IF job[w].ip \in Free
       THEN /\ lease' = [lease EXCEPT ![w] = job[w].ip]
            /\ Go(w, "check")
       ELSE /\ UNCHANGED lease
            /\ IF job[w].tries + 1 < MaxAllocAttempts
               THEN job' = [job EXCEPT ![w].pc = "pick", ![w].tries = @ + 1]
               ELSE Undo(w)
    /\ UNCHANGED <<rt, att, veth, up, status, jan>>

-----------------------------------------------------------------------------
(* Bring-up: attach_workspace *)

Plumbed(w) == up[w] /\ veth[w] = job[w].ip

\* The checks of attach_workspace, up to the commit of ATTACHING: an intact
\* attachment is kept, the veth of any other row is removed.
CheckAttach(w) ==
    /\ At(w, "check")
    /\ rt' \in {"READY", "DEGRADED"}
    /\ IF rt' = "READY" /\ lease[w] = job[w].ip
       THEN IF att[w] = [st |-> "ATTACHED", ip |-> job[w].ip] /\ Plumbed(w)
            THEN Go(w, "probe") /\ UNCHANGED veth
            ELSE /\ job' = [job EXCEPT ![w].pc = "attaching",
                                       ![w].fresh = (att[w].st = "NONE")]
                 /\ \/ veth' = [veth EXCEPT ![w] = IF att[w].st \in {"NONE", "DETACHED"}
                                                   THEN @ ELSE NoIp]
                    \/ CleanupMayFail /\ UNCHANGED veth
       ELSE Undo(w) /\ UNCHANGED veth
    /\ UNCHANGED <<lease, att, up, status, jan>>

\* The row of an earlier attachment may have been deleted since it was read.
PersistAttaching(w) ==
    /\ At(w, "attaching")
    /\ job[w].fresh \/ att[w].st # "NONE"
    /\ att' = [att EXCEPT ![w] = [st |-> "ATTACHING", ip |-> job[w].ip]]
    /\ Go(w, "wire")
    /\ UNCHANGED <<rt, lease, veth, up, status, jan>>

\* The veth pair cannot be created over an existing one, nor without the bridge
\* or the container.
Wire(w) ==
    /\ At(w, "wire")
    /\ up[w] /\ rt # "ABSENT" /\ veth[w] = NoIp
    /\ veth' = [veth EXCEPT ![w] = job[w].ip]
    /\ Go(w, "confirm")
    /\ UNCHANGED <<rt, lease, att, up, status, jan>>

PersistAttached(w) ==
    /\ At(w, "confirm")
    /\ att[w].st # "NONE"
    /\ att' = [att EXCEPT ![w].st = "ATTACHED"]
    /\ Go(w, "verify")
    /\ UNCHANGED <<rt, lease, veth, up, status, jan>>

VerifyAttached(w) ==
    /\ At(w, "verify")
    /\ Plumbed(w)
    /\ Go(w, "probe")
    /\ UNCHANGED <<rt, lease, att, veth, up, status, jan>>

\* Wiring or persisting may raise; the check after the commit may not hold.
AttachBroken(w) == At(w, "wire") \/ At(w, "confirm") \/ (At(w, "verify") /\ ~Plumbed(w))

\* Mutant of AttachFailed: the lease goes back while the veth stays.
AttachFailedKeepsVeth(w) ==
    /\ AttachBroken(w)
    /\ UNCHANGED veth
    /\ att' = [att EXCEPT ![w].st = IF @ = "NONE" THEN @ ELSE "FAILED"]
    /\ lease' = [lease EXCEPT ![w] = IF job[w].fresh /\ @ = job[w].ip THEN NoIp ELSE @]
    /\ Undo(w)
    /\ UNCHANGED <<rt, up, status, jan>>

\* _attach_failure_best_effort, then the rollback of the bring-up.
AttachFailed(w) ==
    /\ AttachBroken(w)
    /\ \/ veth' = [veth EXCEPT ![w] = NoIp]
       \/ CleanupMayFail /\ UNCHANGED veth
    /\ att' = [att EXCEPT ![w].st = IF @ = "NONE" THEN @ ELSE "FAILED"]
    /\ lease' = [lease EXCEPT ![w] = IF job[w].fresh /\ @ = job[w].ip THEN NoIp ELSE @]
    /\ Undo(w)
    /\ UNCHANGED <<rt, up, status, jan>>

\* check_workspace_health
Probe(w) ==
    /\ At(w, "probe")
    /\ rt = "READY"
    /\ att[w] = [st |-> "ATTACHED", ip |-> job[w].ip]
    /\ lease[w] = att[w].ip
    /\ Plumbed(w)
    /\ Go(w, "finish")
    /\ UNCHANGED <<rt, lease, att, veth, up, status, jan>>

Finish(w) ==
    /\ At(w, "finish")
    /\ Ends(w, "RUNNING")
    /\ UNCHANGED <<rt, lease, att, veth, up, jan>>

-----------------------------------------------------------------------------
(* stop_workspace_runtime and delete_workspace_runtime: the steps are taken  *)
(* in order whether or not the one before succeeded                          *)

\* Without a row, or with a DETACHED one, detach_workspace does nothing.
Unwire(w) ==
    IF att[w].st \in {"NONE", "DETACHED"}
    THEN UNCHANGED <<att, veth>>
    ELSE /\ veth' = [veth EXCEPT ![w] = NoIp]
         /\ att' = [att EXCEPT ![w].st = "DETACHED"]

Detach(w) ==
    /\ At(w, "detach")
    /\ \/ /\ Unwire(w)
          /\ Go(w, "halt")
       \/ /\ CleanupMayFail
          /\ att[w].st \notin {"NONE", "DETACHED"}
          /\ job' = [job EXCEPT ![w].pc = "halt", ![w].ok = FALSE]
          /\ UNCHANGED <<att, veth>>
    /\ UNCHANGED <<rt, lease, up, status, jan>>

\* Mutant of StopOutcome: a failed stop puts the workspace back to RUNNING.
StopOutcomeBack(ok) == IF ok THEN "STOPPED" ELSE "RUNNING"

StopOutcome(ok) == IF ok THEN "STOPPED" ELSE "ERROR"

\* After the container: the rollback releases the lease, a delete turns to the
\* topology, a stop is over, a restart goes on.
AfterHalt(w, ok) ==
    \/ /\ job[w].round > 0 \/ job[w].kind = "DELETE" \/ (job[w].kind = "RESTART" /\ ok)
       /\ job' = [job EXCEPT ![w].pc = CASE job[w].round > 0 -> "release"
                                         [] job[w].round = 0 /\ job[w].kind = "DELETE" -> "sweep"
                                         [] OTHER -> "start",
                             ![w].ok = ok]
       /\ UNCHANGED status
    \/ /\ job[w].round = 0 /\ job[w].kind = "STOP"
       /\ Ends(w, StopOutcome(ok))
    \/ /\ job[w].round = 0 /\ job[w].kind = "RESTART" /\ ~ok
       /\ RetryOrError(w)

Halt(w) ==
    /\ At(w, "halt")
    /\ \/ /\ up' = [up EXCEPT ![w] = FALSE]
          /\ veth' = [veth EXCEPT ![w] = NoIp]
          /\ AfterHalt(w, job[w].ok)
       \/ /\ CleanupMayFail
          /\ AfterHalt(w, FALSE)
          /\ UNCHANGED <<up, veth>>
    /\ UNCHANGED <<rt, lease, att, jan>>

\* Mutant of AfterRelease: the rollback is repeated until it succeeds.
AfterReleaseForever(w, ok) ==
    IF ok
    THEN RetryOrError(w)
    ELSE /\ job' = [job EXCEPT ![w].pc = "detach", ![w].round = 2, ![w].ok = TRUE]
         /\ UNCHANGED status

\* The rollback tries twice, then the job has failed either way.
AfterRelease(w, ok) ==
    IF ok \/ job[w].round = 2
    THEN RetryOrError(w)
    ELSE /\ job' = [job EXCEPT ![w].pc = "detach", ![w].round = 2, ![w].ok = TRUE]
         /\ UNCHANGED status

Release(w) ==
    /\ At(w, "release")
    /\ \/ /\ lease' = [lease EXCEPT ![w] = NoIp]
          /\ AfterRelease(w, job[w].ok)
       \/ /\ CleanupMayFail /\ lease[w] # NoIp
          /\ UNCHANGED lease
          /\ AfterRelease(w, FALSE)
    /\ UNCHANGED <<rt, att, veth, up, jan>>

-----------------------------------------------------------------------------
(* delete_topology: checked and read in one step, deleted in another.  The   *)
(* workspace ends DELETED whatever came of it, and its lease stays.          *)

\* Without a runtime row there is no bridge, only attachment rows to tidy up.
CheckUnused(w) ==
    /\ At(w, "sweep")
    /\ IF \E v \in Workspaces : att[v].st \notin {"NONE", "DETACHED"}
       THEN Ends(w, "DELETED")
       ELSE /\ job' = [job EXCEPT ![w].pc = IF rt = "ABSENT" THEN "tidy" ELSE "drop",
                                  ![w].rows = {v \in Workspaces : att[v].st # "NONE"}]
            /\ UNCHANGED status
    /\ UNCHANGED <<rt, lease, att, veth, up, jan>>

\* The rows that were read go, whatever they say by now.
Dropped(w) == [v \in Workspaces |-> IF v \in job[w].rows THEN NoAtt ELSE att[v]]

TidyRows(w) ==
    /\ At(w, "tidy")
    /\ att' = Dropped(w) \/ (CleanupMayFail /\ UNCHANGED att)
    /\ Ends(w, "DELETED")
    /\ UNCHANGED <<rt, lease, veth, up, jan>>

DropRows(w) ==
    /\ At(w, "drop")
    /\ \/ /\ att' = Dropped(w)
          /\ rt' = "ABSENT"
          /\ Go(w, "bridge")
          /\ UNCHANGED status
       \/ /\ CleanupMayFail
          /\ Ends(w, "DELETED")
          /\ UNCHANGED <<att, rt>>
    /\ UNCHANGED <<lease, veth, up, jan>>

\* Removing the bridge unplugs every veth that is still on it.
RemoveBridge(w) ==
    /\ At(w, "bridge")
    /\ veth' = [v \in Workspaces |-> NoIp] \/ (CleanupMayFail /\ UNCHANGED veth)
    /\ Ends(w, "DELETED")
    /\ UNCHANGED <<rt, lease, att, up, jan>>

-----------------------------------------------------------------------------
(* run_topology_janitor: three passes, each over the rows its first          *)
(* statement has read                                                        *)

\* Mutant of Stale: only FAILED rows.
StaleFailed(w) == att[w].st = "FAILED"

\* Not updated for stale_attaching_seconds: no live job has just written it.
Stale(w) ==
    \/ att[w].st = "FAILED"
    \/ att[w].st = "ATTACHING" /\ job[w].pc \notin {"wire", "confirm"}

Drifted(w) == att[w].st = "ATTACHED" /\ status[w] \in {"STOPPED", "ERROR", "DELETED"}

JanitorReads(j, from, pass, rows) ==
    /\ jan[j].pass = from
    /\ jan[j].pc = "next"
    /\ jan[j].todo = {}
    /\ jan' = [jan EXCEPT ![j] = [NoRun EXCEPT !.pass = pass, !.todo = rows]]
    /\ UNCHANGED <<rt, lease, att, veth, up, status, job>>

\* A reconcile job placed on this node, of whichever workspace, calls the janitor.
JanitorStarts(j) == JanitorReads(j, "idle", "stuck", {w \in Workspaces : Stale(w)})

JanitorEnds(j) == JanitorReads(j, "drift", "idle", {})

JanitorPass(j) ==
    \/ JanitorReads(j, "stuck", "orphan", {w \in Workspaces : lease[w] # NoIp})
    \/ JanitorReads(j, "orphan", "drift", {w \in Workspaces : Drifted(w)})
    \/ JanitorEnds(j)

\* The orphan pass looks at the attachment of each leased workspace in turn.
JanitorTakes(j, w) ==
    /\ jan[j].pc = "next"
    /\ w \in jan[j].todo
    /\ jan' = [jan EXCEPT ![j].todo = @ \ {w},
                          ![j].ws = w,
                          ![j].pc = CASE jan[j].pass # "orphan"   -> "detach"
                                      [] att[w].st # "ATTACHED"   -> "release"
                                      [] OTHER                    -> "next"]
    /\ UNCHANGED <<rt, lease, att, veth, up, status, job>>

\* A failed detach leaves the lease for the next run.
JanitorDetach(j) ==
    /\ jan[j].pc = "detach"
    /\ \/ /\ Unwire(jan[j].ws)
          /\ jan' = [jan EXCEPT ![j].pc = "release"]
       \/ /\ CleanupMayFail
          /\ jan' = [jan EXCEPT ![j].pc = "next"]
          /\ UNCHANGED <<att, veth>>
    /\ UNCHANGED <<rt, lease, up, status, job>>

\* Mutant of JanitorRelease: leases of DELETED workspaces are left alone.
JanitorReleaseLive(j) ==
    /\ jan[j].pc = "release"
    /\ lease' = [lease EXCEPT ![jan[j].ws] = IF status[jan[j].ws] = "DELETED" THEN @ ELSE NoIp]
    /\ jan' = [jan EXCEPT ![j].pc = "next"]
    /\ UNCHANGED <<rt, att, veth, up, status, job>>

JanitorRelease(j) ==
    /\ jan[j].pc = "release"
    /\ \/ lease' = [lease EXCEPT ![jan[j].ws] = NoIp]
       \/ CleanupMayFail /\ UNCHANGED lease
    /\ jan' = [jan EXCEPT ![j].pc = "next"]
    /\ UNCHANGED <<rt, att, veth, up, status, job>>

\* The worker dies with the run: what it has committed stays.
JanitorDies(j) ==
    /\ jan[j].pass # "idle"
    /\ jan' = [jan EXCEPT ![j] = NoRun]
    /\ UNCHANGED <<rt, lease, att, veth, up, status, job>>

-----------------------------------------------------------------------------

BringUpStep(w) ==
    \/ StartContainer(w) \/ StartFails(w) \/ BringUpFails(w)
    \/ EnsureTopology(w) \/ PickAddress(w) \/ LeaseAddress(w)
    \/ CheckAttach(w) \/ PersistAttaching(w) \/ Wire(w)
    \/ PersistAttached(w) \/ VerifyAttached(w) \/ AttachFailed(w)
    \/ Probe(w) \/ Finish(w)

TearDownStep(w) ==
    \/ Detach(w) \/ Halt(w) \/ Release(w)
    \/ CheckUnused(w) \/ TidyRows(w) \/ DropRows(w) \/ RemoveBridge(w)

JobStep(w) == Begin(w) \/ BringUpStep(w) \/ TearDownStep(w)

JanitorWorks(j) ==
    \/ JanitorPass(j)
    \/ \E w \in Workspaces : JanitorTakes(j, w)
    \/ JanitorDetach(j)
    \/ JanitorRelease(j)

JanitorStep(j) == JanitorStarts(j) \/ JanitorWorks(j) \/ JanitorDies(j)

Next ==
    \/ \E w \in Workspaces : \/ \E k \in Kinds : Request(w, k)
                             \/ JobStep(w)
                             \/ Crash(w)
                             \/ ContainerExits(w)
    \/ \E j \in Janitors : JanitorStep(j)

Spec == Init /\ [][Next]_vars

\* Workers execute what they have claimed, and a janitor works through the rows it
\* has read.  Nothing makes a janitor start: that takes a reconcile job placed on this
\* node, from the opt-in loop or an operator.  Its detach and its release may fail, but
\* a cleanup that is tried again and again succeeds in the end.
Fairness ==
    /\ \A w \in Workspaces : WF_vars(JobStep(w))
    /\ \A j \in Janitors :
         /\ WF_vars(JanitorWorks(j))
         /\ \A w \in Workspaces :
              /\ SF_vars(jan[j].ws = w /\ JanitorDetach(j) /\ jan'[j].pc = "release")
              /\ SF_vars(jan[j].ws = w /\ JanitorRelease(j) /\ lease'[w] = NoIp)

FairSpec == Spec /\ Fairness

-----------------------------------------------------------------------------
(* Properties *)

\* Every row, wire and job field stays within its declared values.
TypeOK ==
    /\ rt \in {"ABSENT", "READY", "DEGRADED"}
    /\ lease \in [Workspaces -> Addresses \cup {NoIp}]
    /\ att \in [Workspaces -> Attachment]
    /\ veth \in [Workspaces -> Addresses \cup {NoIp}]
    /\ up \in [Workspaces -> BOOLEAN]
    /\ status \in [Workspaces -> {"NEW", "BUSY", "RUNNING", "STOPPED", "ERROR", "DELETED"}]
    /\ job \in [Workspaces -> Job]
    /\ jan \in [Janitors -> JanitorRun]

\* No two containers on the bridge carry the same address: what the lease
\* protocol of allocate_workspace_ip, attach_workspace and the rollback is for.
AddressesApart ==
    \A v, w \in Workspaces : veth[v] # NoIp /\ veth[v] = veth[w] => v = w

\* A RUNNING workspace is ATTACHED under the address it has leased, so its
\* route cannot lead to somebody else's container (check_attachment).
RunningOnItsAddress ==
    \A w \in Workspaces :
        status[w] = "RUNNING" => att[w] = [st |-> "ATTACHED", ip |-> lease[w]]

\* Two RUNNING workspaces never answer on the same address, even where a failed
\* detach has left a veth behind: the probe compares the veth with the lease.
RunningApart ==
    \A v, w \in Workspaces :
        /\ status[v] = "RUNNING" /\ status[w] = "RUNNING"
        /\ veth[v] # NoIp /\ veth[v] = veth[w]
        => v = w

\* What is left of one attempt of a job: the steps of a teardown or a rollback
\* round, above them those of the bring-up with the conflicts it may still meet.
StepsLeft(b) ==
    LET conflicts == 2 * (MaxAllocAttempts - b.tries)
        above     == 2 * MaxAllocAttempts
    IN  CASE b.pc = "idle"      -> 0
          [] b.pc = "queued"    -> 20 + above
          [] b.pc = "detach"    -> IF b.round = 0 THEN 19 + above ELSE 9 - 3 * b.round
          [] b.pc = "halt"      -> IF b.round = 0 THEN 18 + above ELSE 8 - 3 * b.round
          [] b.pc = "release"   -> 7 - 3 * b.round
          [] b.pc = "start"     -> 17 + above
          [] b.pc = "ensure"    -> 16 + above
          [] b.pc = "pick"      -> 15 + conflicts
          [] b.pc = "lease"     -> 14 + conflicts
          [] b.pc = "check"     -> 13
          [] b.pc = "attaching" -> 12
          [] b.pc = "wire"      -> 11
          [] b.pc = "confirm"   -> 10
          [] b.pc = "verify"    -> 9
          [] b.pc = "probe"     -> 8
          [] b.pc = "finish"    -> 7
          [] b.pc = "sweep"     -> 4
          [] b.pc = "drop"      -> 2
          [] OTHER              -> 1

\* Fewer attempts left, or as many and fewer steps in this one.
Nearer(b, c) == b.left < c.left \/ (b.left = c.left /\ StepsLeft(b) < StepsLeft(c))

\* Whatever fails and whoever interferes, a job under way only ever ends or gets
\* nearer to its end: no conflict, rollback round or retry puts it back.
JobDescends ==
    [][\A w \in Workspaces :
          ~At(w, "idle") /\ job'[w] # job[w] => At(w, "idle")' \/ Nearer(job'[w], job[w])]_vars

\* Every job comes to an end, whatever its cleanups and the janitor do: the
\* address retries, the rollback rounds and the job's retries are all bounded.
JobEnds == \A w \in Workspaces : status[w] = "BUSY" ~> status[w] # "BUSY"

\* Runs of the janitor come again and again and get through their passes.
JanitorsKeepComing == \E j \in Janitors : []<><<JanitorEnds(j)>>_vars

\* An address is not lost with the workspace that held it: delete keeps the lease, and
\* so does a job that dies, and wherever it was left, janitor runs return it, as
\* long as reconcile jobs of workspaces on the node keep making them.
AbandonedAddressReturns ==
    JanitorsKeepComing =>
        \A w \in Workspaces :
            lease[w] # NoIp /\ status[w] \in {"ERROR", "DELETED"}
                ~> lease[w] = NoIp \/ status[w] \notin {"ERROR", "DELETED"}

\* A half-made attachment of a job that died does not outlast janitor runs, and would
\* keep delete_topology from ever removing the bridge.
StuckAttachmentEnds ==
    JanitorsKeepComing =>
        \A w \in Workspaces :
            att[w].st = "ATTACHING" /\ At(w, "idle")
                ~> att[w].st # "ATTACHING" \/ ~At(w, "idle")

-----------------------------------------------------------------------------
(* The inductive invariant behind AddressesApart, without janitors and       *)
(* without failing cleanups                                                  *)

LeasesApart ==
    \A v, w \in Workspaces : lease[v] # NoIp /\ lease[v] = lease[w] => v = w

WiredOnLease == \A w \in Workspaces : veth[w] # NoIp => veth[w] = lease[w]

\* A job that is about to wire an address holds its lease.
JobOnLease ==
    \A w \in Workspaces : job[w].pc \in {"attaching", "wire"} => lease[w] = job[w].ip

\* The lease is released only after the container has been stopped.
ReleasedUnwired == \A w \in Workspaces : At(w, "release") => veth[w] = NoIp

\* An address is picked only for a workspace that has none.
PickedUnleased == \A w \in Workspaces : At(w, "lease") => lease[w] = NoIp

\* A wired address is always a leased one: the leases of ip_allocation are
\* distinct, every veth carries its own workspace's lease, a job about to wire
\* holds the lease it was given, and a lease is only picked or released for a
\* workspace that is off the bridge.
AddressInv == LeasesApart /\ WiredOnLease /\ JobOnLease /\ ReleasedUnwired /\ PickedUnleased

-----------------------------------------------------------------------------
(* The abstract pool of addresses: held by lease, wired by veth *)

Pool == INSTANCE AddressPool WITH held <- lease, wired <- veth

\* Allocation, attachment and every way back implement the pool: an address is
\* taken only while free and by a workspace without one, is plugged in only by its
\* holder, and returns only from a workspace that is off the bridge by then.
ImplementsAddressPool == Pool!Spec
=============================================================================
