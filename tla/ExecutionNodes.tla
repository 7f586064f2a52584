-------------------------- MODULE ExecutionNodes --------------------------
(***************************************************************************)
(* The execution_node rows of EC2 nodes and the instances they stand for.  *)
(* Operators (the internal API), the autoscaler loop, the workers, the     *)
(* host resource monitor and the orphan janitor all write these rows.      *)
(*                                                                         *)
(* Each of them works in a database session: it loads the row, calls AWS   *)
(* or SSM, and flushes.  The session keeps the row as it was loaded and    *)
(* writes only the columns it has changed since; the flush takes the row   *)
(* lock, which is held until the commit.  A row that was loaded is neither *)
(* locked nor read again before it is written.                             *)
(***************************************************************************)
EXTENDS Naturals, FiniteSets

CONSTANTS
    Nodes,        \* node keys, each with the instance it was made for
    Sessions,     \* concurrent database sessions
    NoSession     \* the row lock is free

NodeStatuses == {"PROVISIONING", "READY", "NOT_READY", "DRAINING",
                 "TERMINATING", "TERMINATED", "ERROR"}

\* stop_instances and console stops are the environment's; "gone" is both
\* shutting-down and terminated, which the code never tells apart.
InstanceStates == {"none", "running", "stopped", "gone"}

Operations == {"provision", "adopt", "stub", "sync", "drain", "undrain", "deregister",
               "terminate", "monitor", "mark", "reconcile", "scale_in"}

ASSUME NodesAssumption == NoSession \notin Sessions /\ NoSession \notin Nodes

VARIABLES
    row,     \* row[n]: the committed execution_node row
    ssm,     \* ssm[n]: execution_mode is ssm_docker (else ssh_docker)
    inst,    \* inst[n]: the EC2 instance that the key was made for
    lock,    \* lock[n]: the session that has flushed the row and not committed
    ses,     \* ses[s]: what session s is doing
    past     \* past[n], history that no action reads.  gated: launched by
             \* provision_ec2_node and not yet let in by the ready gate, nor by an
             \* operator who undrained it or wrote a catalog stub over it.  dereg:
             \* an operator deregistered it or wrote a catalog stub over it

nodeVars == <<row, ssm, inst, lock, ses, past>>

\* status "ABSENT" without a row.  pid: provider_instance_id names the instance of
\* this key, or another one that the model does not follow.  stub: metadata_json
\* has catalog_ec2_stub.  low: the resource monitor has seen too little disk or
\* memory.
NoNodeRow == [status |-> "ABSENT", sched |-> FALSE, pid |-> "own", stub |-> FALSE, low |-> FALSE]

NodeRow == [status : NodeStatuses \cup {"ABSENT"}, sched : BOOLEAN, pid : {"own", "other"},
            stub : BOOLEAN, low : BOOLEAN]

\* seen: the columns that matter to the session, as loaded.  mine: the row with
\* the session's flushed changes.
NoWork == [op |-> "idle", n |-> NoSession, pc |-> "idle", seen |-> NoNodeRow, mine |-> NoNodeRow]

SessionWork == [op : Operations \cup {"idle"}, n : Nodes \cup {NoSession},
                pc : {"idle", "loaded", "flushed", "launched"},
                seen : NodeRow, mine : NodeRow]

NodesInit ==
    /\ row = [n \in Nodes |-> NoNodeRow]
    /\ ssm \in [Nodes -> BOOLEAN]
    /\ inst = [n \in Nodes |-> "none"]
    /\ lock = [n \in Nodes |-> NoSession]
    /\ ses = [s \in Sessions |-> NoWork]
    /\ past = [n \in Nodes |-> [gated |-> FALSE, dereg |-> FALSE]]

Exists(n) == row[n].status # "ABSENT"

\* READY and schedulable: the two columns placement requires.
PlacementReady(r) == r.status = "READY" /\ r.sched

\* What describe_instances may answer about the instance a row names.
StatesOf(n, pid) == IF pid = "own" THEN {inst[n]} ELSE InstanceStates

-----------------------------------------------------------------------------
(* The session: load, flush, commit, rollback *)

\* The calls that merge a key into metadata_json and so write the column whole, as
\* they loaded it (_merge_metadata).  sync does it under the row lock.
MetadataOps == {"stub", "drain", "undrain", "deregister", "terminate", "scale_in"}

\* The UPDATE of a flush: the columns changed since the load, over whatever
\* has been committed in between.
WriteColumns(n, op, old, new) ==
    [f \in DOMAIN new |->
        IF new[f] # old[f] \/ (f = "stub" /\ op \in MetadataOps) THEN new[f] ELSE row[n][f]]

SeenBy(op, r) ==
    [r EXCEPT !.low = op = "monitor" /\ r.low, !.stub = op \in MetadataOps /\ r.stub]

SessionLoads(s, n, op) ==
    /\ ses[s].op = "idle"
    /\ ses' = [ses EXCEPT ![s] = [op |-> op, n |-> n, pc |-> "loaded",
                                  seen |-> SeenBy(op, row[n]), mine |-> NoNodeRow]]

Doing(s, op, pc) == ses[s].op = op /\ ses[s].pc = pc

\* The whole change in one flush and the commit that follows it.
SessionWrites(s, new) ==
    LET n == ses[s].n
    IN /\ lock[n] = NoSession
       /\ row' = [row EXCEPT ![n] = WriteColumns(n, ses[s].op, ses[s].seen, new)]
       /\ ses' = [ses EXCEPT ![s] = NoWork]

\* original: the status that the rest of the call still looks at, if any.
SessionFlushes(s, new, original) ==
    LET n == ses[s].n
    IN /\ lock[n] = NoSession
       /\ lock' = [lock EXCEPT ![n] = s]
       /\ ses' = [ses EXCEPT ![s].pc = "flushed",
                             ![s].seen = [NoNodeRow EXCEPT !.status = original, !.pid = ses[s].seen.pid],
                             ![s].mine = WriteColumns(n, ses[s].op, ses[s].seen, new)]

SessionCommits(s, new) ==
    LET n == ses[s].n
    IN /\ row' = [row EXCEPT ![n] = new]
       /\ lock' = [lock EXCEPT ![n] = NoSession]
       /\ ses' = [ses EXCEPT ![s] = NoWork]

\* The handler raises, or the process dies: the session is rolled back, what
\* it did at AWS stays done.
Rollback(s) ==
    /\ ses[s].op # "idle"
    /\ ses' = [ses EXCEPT ![s] = NoWork]
    /\ lock' = [n \in Nodes |-> IF lock[n] = s THEN NoSession ELSE lock[n]]
    /\ UNCHANGED <<ssm, row, inst, past>>

-----------------------------------------------------------------------------
(* AWS *)

InstanceStops(n) ==
    /\ inst[n] = "running"
    /\ inst' = [inst EXCEPT ![n] = "stopped"]
    /\ UNCHANGED <<ssm, row, lock, ses, past>>

InstanceStarts(n) ==
    /\ inst[n] = "stopped"
    /\ inst' = [inst EXCEPT ![n] = "running"]
    /\ UNCHANGED <<ssm, row, lock, ses, past>>

\* Terminated in the console, or reclaimed by AWS.
InstanceLost(n) ==
    /\ inst[n] \in {"running", "stopped"}
    /\ inst' = [inst EXCEPT ![n] = "gone"]
    /\ UNCHANGED <<ssm, row, lock, ses, past>>

-----------------------------------------------------------------------------
(* provision_ec2_node *)

\* RunInstances has answered; the row is inserted only after the wait for the
\* running state and the tagging, so until then nothing records the instance.
ProvisionLaunch(s, n) ==
    /\ ~Exists(n) /\ inst[n] = "none"
    /\ ses[s].op = "idle"
    /\ inst' = [inst EXCEPT ![n] = "running"]
    /\ ses' = [ses EXCEPT ![s] = [NoWork EXCEPT !.op = "provision", !.n = n, !.pc = "launched"]]
    /\ UNCHANGED <<ssm, row, lock, past>>

\* _require_free_node_key: another session may have registered the key since.
ProvisionInsert(s) ==
    LET n == ses[s].n
    IN /\ Doing(s, "provision", "launched")
       /\ ~Exists(n)
       /\ row' = [row EXCEPT ![n] = [NoNodeRow EXCEPT !.status = "PROVISIONING"]]
       /\ ses' = [ses EXCEPT ![s] = NoWork]
       /\ past' = [past EXCEPT ![n].gated = TRUE]
       /\ UNCHANGED <<ssm, inst, lock>>

-----------------------------------------------------------------------------
(* register_ec2_instance and sync_node_state *)

\* compute_status_schedulable_after_ec2_sync: the lifecycle states of the
\* control plane are kept, the others follow the instance.
StatusAfterSync(r, state) ==
    CASE r.status = "PROVISIONING" ->
            <<IF state \in {"gone", "stopped"} THEN "ERROR" ELSE "PROVISIONING", FALSE>>
      [] r.status = "TERMINATING" ->
            <<IF state = "gone" THEN "TERMINATED" ELSE "TERMINATING", FALSE>>
      [] r.status \in {"DRAINING", "TERMINATED", "ERROR"} -> <<r.status, FALSE>>
      [] OTHER -> IF state = "running" THEN <<"READY", TRUE>> ELSE <<"NOT_READY", FALSE>>

Registered(r, state) ==
    [r EXCEPT !.status = StatusAfterSync(r, state)[1], !.sched = StatusAfterSync(r, state)[2]]

\* register_existing_ec2_node: a row for an instance launched elsewhere, or for
\* one whose insert failed.  catalog_only keeps it out of the pool.
AdoptLoad(s, n) ==
    /\ inst[n] # "none" /\ row[n].pid = "own"
    /\ SessionLoads(s, n, "adopt")
    /\ UNCHANGED <<ssm, row, inst, lock, past>>

AdoptWrite(s, catalogOnly) ==
    LET n == ses[s].n
        new == Registered(ses[s].seen, inst[n])
    IN /\ Doing(s, "adopt", "loaded")
       /\ ses[s].seen.status = "ABSENT" => ~Exists(n)
       /\ SessionWrites(s, [new EXCEPT !.sched = new.sched /\ ~catalogOnly])
       /\ UNCHANGED <<ssm, inst, lock, past>>

SyncLoad(s, n) ==
    /\ Exists(n)
    /\ SessionLoads(s, n, "sync")
    /\ UNCHANGED <<ssm, row, inst, lock, past>>

\* register_ec2_instance always touches last_synced_at, so its flush takes the
\* row lock, which is then held through the ready gate; the row is refreshed.
SyncRegister(s) ==
    /\ Doing(s, "sync", "loaded")
    /\ \E state \in StatesOf(ses[s].n, ses[s].seen.pid) \ {"none"} :
         SessionFlushes(s, Registered(ses[s].seen, state), ses[s].seen.status)
    /\ UNCHANGED <<ssm, row, inst, past>>

Promotable == {"PROVISIONING", "NOT_READY"}

\* sync_node_state after the refresh: a row that register_ec2_instance has just
\* made READY is put back until its readiness is proven.
PutBack(r, original) ==
    IF r.status = "READY" THEN [r EXCEPT !.status = original, !.sched = FALSE] ELSE r


\* Mutant of Promoted: the result of the gate is not looked at.
PromotedAnyway(n, r, gate) ==
    IF r.status \notin Promotable \/ r.stub THEN r
    ELSE [r EXCEPT !.status = "READY", !.sched = TRUE]

\* promote_ec2_node_if_heartbeat_ready, with _ready_gate_failure.  gate: what
\* _run_ssm_ready_gate says of an ssm_docker node, or _ec2_heartbeat_readiness of
\* another one.  The heartbeat it reads lies in metadata_json, where the node's
\* reports and the stale copies of the other writers alternate: it may say either.
Promoted(n, r, gate) ==
    IF r.status \notin Promotable \/ r.stub THEN r
    ELSE IF gate THEN [r EXCEPT !.status = "READY", !.sched = TRUE]
    ELSE IF ssm[n] THEN [r EXCEPT !.status = "PROVISIONING", !.sched = FALSE]
    ELSE r

\* describe: the second describe_instances answers, without error.  A row of
\* another status, a failed describe or an instance that does not run ends the
\* synchronisation with what was registered.
SyncPromote(s, describe, gate) ==
    LET n == ses[s].n
        original == ses[s].seen.status
        proven == PutBack(ses[s].mine, original)
        promotes == original \in Promotable /\ describe /\ "running" \in StatesOf(n, ses[s].mine.pid)
        new == IF promotes THEN Promoted(n, proven, gate) ELSE ses[s].mine
    IN /\ Doing(s, "sync", "flushed")
       /\ SessionCommits(s, new)
       /\ past' = [past EXCEPT ![n].gated = @ /\ ~(promotes /\ gate)]
       /\ UNCHANGED <<ssm, inst>>

-----------------------------------------------------------------------------
(* Operators: catalog stubs, drain, undrain, deregister, terminate *)

\* register_catalog_ec2_stub: no call to AWS.
StubLoad(s, n) ==
    /\ SessionLoads(s, n, "stub")
    /\ UNCHANGED <<ssm, row, inst, lock, past>>

\* The status given, or the one the row has, or NOT_READY, and never schedulable.
\* The instance id and the execution mode are written over those of an existing row.
StubWrite(s, given, pid, mode) ==
    LET n == ses[s].n
        seen == ses[s].seen
        status == IF given # "ABSENT" THEN given
                  ELSE IF seen.status = "ABSENT" THEN "NOT_READY" ELSE seen.status
    IN /\ Doing(s, "stub", "loaded")
       /\ seen.status = "ABSENT" => ~Exists(n)
       /\ SessionWrites(s, [seen EXCEPT !.status = status, !.sched = FALSE, !.pid = pid, !.stub = TRUE])
       /\ ssm' = [ssm EXCEPT ![n] = mode]
       /\ past' = [past EXCEPT ![n] = [gated |-> FALSE, dereg |-> TRUE]]
       /\ UNCHANGED <<inst, lock>>

ShortLoad(s, n, op) ==
    /\ Exists(n)
    /\ op = "scale_in" => row[n].status = "DRAINING"
    /\ SessionLoads(s, n, op)
    /\ UNCHANGED <<ssm, row, inst, lock, past>>

\* A row seen TERMINATED is left alone, which is the rollback.
Drain(s) ==
    /\ Doing(s, "drain", "loaded")
    /\ ses[s].seen.status # "TERMINATED"
    /\ SessionWrites(s, [ses[s].seen EXCEPT !.status = "DRAINING", !.sched = FALSE])
    /\ UNCHANGED <<ssm, inst, lock, past>>

\* Any other status raises NodeLifecycleError: the rollback.  There is no gate:
\* the operator vouches for the node.
Undrain(s) ==
    /\ Doing(s, "undrain", "loaded")
    /\ ses[s].seen.status \in {"DRAINING", "READY"}
    /\ SessionWrites(s, [ses[s].seen EXCEPT !.status = "READY", !.sched = TRUE])
    /\ past' = [past EXCEPT ![ses[s].n].gated = FALSE]
    /\ UNCHANGED <<ssm, inst, lock>>

Deregister(s) ==
    /\ Doing(s, "deregister", "loaded")
    /\ SessionWrites(s, [ses[s].seen EXCEPT !.status = "TERMINATED", !.sched = FALSE])
    /\ past' = [past EXCEPT ![ses[s].n].dereg = TRUE]
    /\ UNCHANGED <<ssm, inst, lock>>

\* terminate_ec2_node flushes TERMINATING before it calls AWS, and holds the row
\* lock while it waits for the instance.  A TERMINATED row is left alone.  A
\* catalog stub of an instance that does not exist cannot be terminated.
TerminateFlush(s) ==
    /\ ses[s].op \in {"terminate", "scale_in"} /\ ses[s].pc = "loaded"
    /\ ses[s].seen.status # "TERMINATED"
    /\ StatesOf(ses[s].n, ses[s].seen.pid) # {"none"}
    /\ SessionFlushes(s, [ses[s].seen EXCEPT !.status = "TERMINATING", !.sched = FALSE], "ABSENT")
    /\ UNCHANGED <<ssm, row, inst, past>>

\* The status after terminate_instances: what describe_instances says, or
\* TERMINATING when it does not answer.
TerminatedStatus(known) == IF known THEN "TERMINATED" ELSE "TERMINATING"

\* terminate_instances takes the instance that the row named when it was loaded.
StateAfterTerminate(s) == IF ses[s].seen.pid = "own" THEN "gone" ELSE inst[ses[s].n]

\* known: describe_instances answers after the wait.
TerminateCommit(s, known) ==
    LET n == ses[s].n
    IN /\ ses[s].op \in {"terminate", "scale_in"} /\ ses[s].pc = "flushed"
       /\ inst' = [inst EXCEPT ![n] = StateAfterTerminate(s)]
       /\ SessionCommits(s, [ses[s].mine EXCEPT !.status = TerminatedStatus(known), !.sched = FALSE])
       /\ UNCHANGED <<ssm, past>>

\* The process dies after AWS has accepted the call: the row keeps the status it
\* had before.
TerminateLost(s) ==
    LET n == ses[s].n
    IN /\ ses[s].op \in {"terminate", "scale_in"} /\ ses[s].pc = "flushed"
       /\ inst' = [inst EXCEPT ![n] = StateAfterTerminate(s)]
       /\ lock' = [lock EXCEPT ![n] = NoSession]
       /\ ses' = [ses EXCEPT ![s] = NoWork]
       /\ UNCHANGED <<ssm, row, past>>

\* terminate_instances is refused.  The API's session is rolled back with the
\* exception; execute_scale_down commits the ERROR the row was given.
TerminateRefused(s) ==
    /\ Doing(s, "scale_in", "flushed")
    /\ SessionCommits(s, [ses[s].mine EXCEPT !.status = "ERROR"])
    /\ UNCHANGED <<ssm, inst, past>>

-----------------------------------------------------------------------------
(* The resource monitor, the worker and the janitor *)

MonitorLoad(s, n) ==
    /\ ssm[n] /\ row[n].status = "READY"
    /\ SessionLoads(s, n, "monitor")
    /\ UNCHANGED <<ssm, row, inst, lock, past>>

\* _apply_resource_metrics_to_node.  recent: the heartbeat is fresh, or none is
\* required.
MonitorWrite(s, low, recent) ==
    LET seen == ses[s].seen
        sched == IF low THEN FALSE ELSE IF seen.low /\ recent THEN TRUE ELSE seen.sched
    IN /\ Doing(s, "monitor", "loaded")
       /\ "running" \in StatesOf(ses[s].n, seen.pid)
       /\ SessionWrites(s, [seen EXCEPT !.low = low, !.sched = sched])
       /\ UNCHANGED <<ssm, inst, lock, past>>

\* _mark_node_not_ready_for_retry: a job on the node failed in a way that looks
\* like a node that is not ready.
MarkNotReady(s) ==
    /\ Doing(s, "mark", "loaded")
    /\ SessionWrites(s, [ses[s].seen EXCEPT !.status = "PROVISIONING", !.sched = FALSE])
    /\ UNCHANGED <<ssm, inst, lock, past>>

ReconcileLoad(s, n) ==
    /\ row[n].status \in {"TERMINATING", "ERROR"} /\ StatesOf(n, row[n].pid) # {"none"}
    /\ SessionLoads(s, n, "reconcile")
    /\ UNCHANGED <<ssm, row, inst, lock, past>>

\* Mutant of ReconcileGone: a stopped instance counts as gone.
ReconcileGoneStopped(r, state) == state \in {"stopped", "gone"}

ReconcileGone(r, state) == state = "gone"

\* reconcile_stale_ec2_execution_nodes
ReconcileWrite(s) ==
    LET seen == ses[s].seen
    IN /\ Doing(s, "reconcile", "loaded")
       /\ \E state \in StatesOf(ses[s].n, seen.pid) :
            SessionWrites(s, IF ReconcileGone(seen, state)
                             THEN [seen EXCEPT !.status = "TERMINATED", !.sched = FALSE] ELSE seen)
       /\ UNCHANGED <<ssm, inst, lock, past>>

-----------------------------------------------------------------------------
ShortOps == {"drain", "undrain", "deregister", "terminate", "mark", "scale_in"}

SessionStarts(s) ==
    \E n \in Nodes :
        \/ ProvisionLaunch(s, n)
        \/ AdoptLoad(s, n)
        \/ SyncLoad(s, n)
        \/ StubLoad(s, n)
        \/ \E op \in ShortOps : ShortLoad(s, n, op)
        \/ MonitorLoad(s, n)
        \/ ReconcileLoad(s, n)

SessionEnds(s) ==
    \/ ProvisionInsert(s)
    \/ \E catalogOnly \in BOOLEAN : AdoptWrite(s, catalogOnly)
    \/ SyncRegister(s)
    \/ \E describe, gate \in BOOLEAN : SyncPromote(s, describe, gate)
    \/ \E given \in {"ABSENT", "READY", "NOT_READY"}, pid \in {"own", "other"}, mode \in BOOLEAN :
         StubWrite(s, given, pid, mode)
    \/ Drain(s)
    \/ Undrain(s)
    \/ Deregister(s)
    \/ TerminateFlush(s)
    \/ \E known \in BOOLEAN : TerminateCommit(s, known)
    \/ TerminateLost(s)
    \/ TerminateRefused(s)
    \/ \E low, recent \in BOOLEAN : MonitorWrite(s, low, recent)
    \/ MarkNotReady(s)
    \/ ReconcileWrite(s)

NodesNext ==
    \/ \E s \in Sessions : SessionStarts(s) \/ SessionEnds(s) \/ Rollback(s)
    \/ \E n \in Nodes : InstanceStops(n) \/ InstanceStarts(n) \/ InstanceLost(n)

NodesSpec == NodesInit /\ [][NodesNext]_nodeVars

-----------------------------------------------------------------------------
(* Properties *)

\* Every column has a value of its type, and a lock belongs to the session that
\* flushed the row (SQLAlchemy sessions, ExecutionNode columns).
NodesTypeOK ==
    /\ row \in [Nodes -> NodeRow]
    /\ ssm \in [Nodes -> BOOLEAN]
    /\ inst \in [Nodes -> InstanceStates]
    /\ ses \in [Sessions -> SessionWork]
    /\ past \in [Nodes -> [gated : BOOLEAN, dereg : BOOLEAN]]
    /\ lock \in [Nodes -> Sessions \cup {NoSession}]
    /\ \A n \in Nodes : lock[n] # NoSession => ses[lock[n]].pc = "flushed" /\ ses[lock[n]].n = n

\* A node launched by provision_ec2_node takes no workspace before its ready
\* gate has passed or an operator has undrained it, however sync, drain,
\* termination, the monitor, the worker's marking and the janitor interleave
\* (rows that an operator has made catalog stubs of are the operator's own).
GateNotBypassed ==
    \A n \in Nodes : PlacementReady(row[n]) => ~past[n].gated

\* A row that nobody deregistered, nor wrote a catalog stub over, is TERMINATED only
\* when its instance is gone: no instance keeps running behind a row that is never
\* looked at again.  (A stub may name another instance and keeps the status.)
TerminatedMeansGone ==
    \A n \in Nodes :
        row[n].status = "TERMINATED" /\ ~past[n].dereg => inst[n] = "gone"
=============================================================================
