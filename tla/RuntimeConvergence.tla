------------------------- MODULE RuntimeConvergence -------------------------
(***************************************************************************)
(* One workspace's container, its runtime row, its cleanup debt and its    *)
(* gateway route, and the processes that bring them together: the job that *)
(* runs the user's intent, the reconcile job, the drain of cleanup tasks   *)
(* at the end of every worker tick, and route-admin.                       *)
(*                                                                         *)
(* Placement is strict (anything but development with the environment      *)
(* fallback): a job needs a complete runtime row, and a stop needs the     *)
(* container id.  Retries of a job are its next attempts; requests that    *)
(* end without a change are left out.  Attachments and leases are those of *)
(* module Topology; here an attachment is there or it is not.              *)
(***************************************************************************)
EXTENDS Naturals, FiniteSets

CONSTANTS
    Ports,       \* host ports docker may publish the IDE on
    NoPort,
    MaxIds,      \* bound on the containers made for the workspace
    RemoteKinds, \* the kinds of node checked: TRUE remote, FALSE local
    Requests     \* what users ask for: intents, and OPEN (access, attach)

ASSUME ConvergenceAssumption ==
    /\ MaxIds \in Nat
    /\ NoPort \notin Ports
    /\ RemoteKinds \subseteq BOOLEAN
    /\ Requests \subseteq {"START", "STOP", "RESTART", "UPDATE", "DELETE", "OPEN"}

VARIABLES
    remote,    \* the node is remote: topology attachment is deferred
    wsStatus,  \* Workspace.status
    box,       \* the container on the node
    attached,  \* the topology attachment of the workspace
    rt,        \* the WorkspaceRuntime row
    debts,     \* debts[scope]: status of the WorkspaceCleanupTask row
    intent,    \* the lifecycle job and where its worker is
    rec,       \* the reconcile job and where its worker is
    drain,     \* drain_pending_cleanup_tasks
    endpoint,  \* Workspace.endpoint_ref: the port on record
    opening,   \* the endpoint an access request has read, NoPort when there is none
    listed,    \* route-admin's memory: the target of the workspace's route
    served     \* routes.yml, which Traefik reads

accessVars == <<endpoint, opening>>

convVars == <<accessVars, remote, wsStatus, box, attached, rt, debts, intent, rec, drain,
              listed, served>>

Scopes == {"bringup_rollback", "stop_incomplete"}

\* id: of the last container made.  st: absent, down or up.
NoBox == [id |-> 0, st |-> "absent", port |-> NoPort]

\* complete: node_id and topology_id are set.
NoRuntime == [ex |-> FALSE, complete |-> FALSE, cid |-> 0]

\* cid, port: the container the job has in hand (0: none), and where it answered.
NoIntent == [kind |-> "NONE", pc |-> "idle", cid |-> 0, port |-> NoPort]
NoReconcile == [pc |-> "idle", seen |-> "NONE", cid |-> 0, port |-> NoPort, todo |-> {}]
NoDrain == [pc |-> "idle", cid |-> 0, todo |-> {}]

ConvInit ==
    /\ remote \in RemoteKinds
    /\ wsStatus = "STARTING"
    /\ box = NoBox /\ attached = FALSE
    /\ rt = NoRuntime
    /\ debts = [s \in Scopes |-> "NONE"]
    /\ intent = [NoIntent EXCEPT !.kind = "START", !.pc = "queued"]
    /\ rec = NoReconcile /\ drain = NoDrain
    /\ endpoint = NoPort /\ opening = NoPort
    /\ listed = NoPort /\ served = NoPort

-----------------------------------------------------------------------------
(* The container engine *)

\* ensure_container uses the container that is there, whatever its configuration.
ReusedBoxes == IF box.st # "absent" THEN {box} ELSE {}

\* Without one, or when the bind mounts differ (docker's adapter only), it makes a
\* new one.
CreatedBoxes ==
    IF box.id < MaxIds THEN {[id |-> box.id + 1, st |-> "down", port |-> NoPort]} ELSE {}

EnsuredBoxes == ReusedBoxes \cup CreatedBoxes

\* start_container: docker publishes on an ephemeral port.
StartedBoxes(b) == IF b.st = "up" THEN {b} ELSE {[b EXCEPT !.st = "up", !.port = p] : p \in Ports}

\* check_container_running
ContainerRunning(cid) == cid = box.id /\ box.st = "up"

\* stop_container on an id that is not the container's, or that does not run,
\* is a success.
NeedsStop(cid) == ContainerRunning(cid)

StoppedBox(cid) == IF NeedsStop(cid) THEN [box EXCEPT !.st = "down", !.port = NoPort] ELSE box

\* check_workspace_runtime_health, as far as the container goes.
Healthy(cid) == ContainerRunning(cid)

\* delete_container removes it; ids are never used again.
DeletedBox(cid) == IF cid = box.id THEN [NoBox EXCEPT !.id = cid] ELSE box

\* The container exits by itself (OOM, a reboot of the node).
BoxExits ==
    /\ box.st = "up"
    /\ box' = [box EXCEPT !.st = "down", !.port = NoPort]
    /\ UNCHANGED <<accessVars, remote, wsStatus, attached, rt, debts, intent, rec,
                   drain, listed, served>>

\* stop_workspace_runtime: detach, then stop.  "done": the roll-up is a success;
\* "incomplete": the container may still run, or it has stopped and the topology has
\* refused the detach or the release of the lease; "raised": an exception.
StopOutcomes(cid) == {"raised", "incomplete"} \cup (IF cid # 0 THEN {"done"} ELSE {})

BoxesAfterStop(cid, out) ==
    CASE out = "done" -> {StoppedBox(cid)}
      [] out = "incomplete" -> {box, StoppedBox(cid)}
      [] out = "raised" -> {box}

\* Without an id nothing is tried at all.
StopEffect(cid, out) ==
    /\ IF cid = 0 THEN UNCHANGED box ELSE box' \in BoxesAfterStop(cid, out)
    /\ attached' \in IF cid = 0 THEN {attached}
                     ELSE IF out = "done" THEN {FALSE}
                     ELSE {FALSE, attached}

-----------------------------------------------------------------------------
(* The runtime row and the cleanup tasks *)

\* _apply_runtime_bringup_like
RuntimeAfterBringUp(cid) == [ex |-> TRUE, complete |-> TRUE, cid |-> cid]

\* Mutant of RuntimeAfterStop: the placement is always cleared.
RuntimeAfterStopCleared(cid, detached) == [ex |-> TRUE, complete |-> FALSE, cid |-> cid]

\* _apply_runtime_stop clears topology_id unless nothing was detached.
RuntimeAfterStop(cid, detached) ==
    [ex |-> TRUE, complete |-> rt.complete /\ ~detached, cid |-> cid]

\* ensure_durable_cleanup_task does not reopen a task that has succeeded.
EnsureDebt(scope) ==
    debts' = [debts EXCEPT ![scope] = IF @ = "SUCCEEDED" THEN @ ELSE "PENDING"]

PendingDebts == {s \in Scopes : debts[s] = "PENDING"}

-----------------------------------------------------------------------------
(* route-admin and the gateway client *)

RouteOutcomes == {"ok", "unreachable", "unsaved"}

\* register_route and deregister_route (p = NoPort): the table is changed first,
\* and saved under the same lock; a failed save is reported and not undone.
SetRoute(p, out) ==
    /\ listed' = IF out = "unreachable" THEN listed ELSE p
    /\ served' = IF out = "ok" THEN p ELSE served

\* The worker's calls, best effort: the endpoint the probe found, on the node.
RegisterRoute(out) == SetRoute(intent.port, out)
DeregisterRoute(out) == SetRoute(NoPort, out)

\* _hydrate_routes_from_disk_locked
RouteAdminRestarts ==
    /\ listed # served
    /\ listed' = served
    /\ UNCHANGED <<accessVars, remote, wsStatus, box, attached, rt, debts, intent, rec,
                   drain, served>>

\* Every write saves the whole table, so another workspace's does too.
OtherRouteSaved ==
    /\ listed # served
    /\ served' = listed
    /\ UNCHANGED <<accessVars, remote, wsStatus, box, attached, rt, debts, intent, rec,
                   drain, listed>>

-----------------------------------------------------------------------------
(* Intents *)

BusyStatus(k) == CASE k = "START" -> "STARTING" [] k = "STOP" -> "STOPPING"
                   [] k = "RESTART" -> "RESTARTING" [] k = "UPDATE" -> "UPDATING"
                   [] k = "DELETE" -> "DELETING"

AcceptedFrom(k) == CASE k = "START" -> {"STOPPED", "ERROR"} [] k = "STOP" -> {"RUNNING"}
                     [] k = "RESTART" -> {"RUNNING", "STOPPED"}
                     [] k \in {"UPDATE", "DELETE"} -> {"RUNNING", "STOPPED", "ERROR"}

RequestIntent(k) ==
    /\ intent.kind = "NONE"
    /\ wsStatus \in AcceptedFrom(k)
    /\ wsStatus' = BusyStatus(k)
    /\ intent' = [NoIntent EXCEPT !.kind = k, !.pc = "queued"]
    /\ UNCHANGED <<accessVars, remote, box, attached, rt, debts, rec, drain, listed,
                   served>>

\* resolve_orchestrator_placement: only a START without any row may be scheduled.
Placeable(k) == rt.complete \/ (k = "START" /\ ~rt.ex)

JobPlaced ==
    /\ intent.pc = "queued"
    /\ ~(intent.kind = "DELETE" /\ ~rt.ex)
    /\ Placeable(intent.kind)
    /\ intent' = [intent EXCEPT !.pc = IF intent.kind = "START" THEN "placed" ELSE "stopping",
                                !.cid = IF intent.kind = "START" THEN 0 ELSE rt.cid]
    /\ UNCHANGED <<accessVars, remote, wsStatus, box, attached, rt, debts, rec, drain,
                   listed, served>>

JobEndsIn(status) == wsStatus' = status /\ intent' = NoIntent

\* _fail_job_from_placement, when the attempts are used up.
JobNotPlaced ==
    /\ intent.pc = "queued"
    /\ ~(intent.kind = "DELETE" /\ ~rt.ex)
    /\ ~Placeable(intent.kind)
    /\ JobEndsIn("ERROR")
    /\ UNCHANGED <<accessVars, remote, box, attached, rt, debts, rec, drain, listed,
                   served>>

\* _finalize_delete_runtime_missing_idempotent
DeleteWithoutRuntime(out) ==
    /\ intent.pc = "queued" /\ intent.kind = "DELETE" /\ ~rt.ex
    /\ JobEndsIn("DELETED")
    /\ DeregisterRoute(out)
    /\ UNCHANGED <<accessVars, remote, box, attached, rt, debts, rec, drain>>

\* A failed attempt: tried again, or the workspace is in ERROR.
Retried(again) ==
    IF again THEN /\ intent' = [NoIntent EXCEPT !.kind = intent.kind, !.pc = "queued"]
                  /\ UNCHANGED wsStatus
    ELSE JobEndsIn("ERROR")

\* The topology adapter has committed the claim, or may have: it is used before
\* and after the engine, but not by a START on a remote node.
ClaimCommitted == intent.pc # "placed" /\ (intent.kind = "START" => ~remote)

\* The worker dies.  A committed claim is found by reclaim_stuck_running_jobs, which
\* may give the job up; any other is undone.  The worker may have registered the
\* route of a container it has just brought up.
WorkerDies(again, out) ==
    /\ intent.pc \notin {"idle", "queued"}
    /\ again \/ ClaimCommitted
    /\ Retried(again)
    /\ IF intent.pc = "probed" THEN RegisterRoute(out) ELSE UNCHANGED <<listed, served>>
    /\ UNCHANGED <<accessVars, remote, box, attached, rt, debts, rec, drain>>

-----------------------------------------------------------------------------
(* Bring-up: START, and the second half of RESTART and UPDATE *)

\* The context, the project directory and the mounts are prepared before any
\* container exists; failing there, or in the engine, leaves no id to roll back.
PrepareFails ==
    /\ intent.pc = "placed"
    /\ intent' = [intent EXCEPT !.pc = "rollback", !.cid = 0]
    /\ UNCHANGED <<accessVars, remote, wsStatus, box, attached, rt, debts, rec, drain,
                   listed, served>>

\* _wait_post_start_inspect: it may not start, or not stay up.
StartAttempt(b, ok) == IF ok THEN StartedBoxes(b) ELSE {b}

\* ensure_running_runtime_only
EnsureContainer(b, ok) ==
    /\ intent.pc = "placed"
    /\ b \in EnsuredBoxes
    /\ \E s \in StartAttempt(b, ok) : box' = s
    /\ intent' = [intent EXCEPT !.pc = IF ok THEN "started" ELSE "rollback",
                                !.cid = IF ok THEN b.id ELSE 0]
    /\ UNCHANGED <<accessVars, remote, wsStatus, attached, rt, debts, rec, drain,
                   listed, served>>

\* check_workspace_health: the service behind a container that runs may answer.
MayAnswer(cid) == ContainerRunning(cid)

\* _bring_up_run_probe only finds a service that answers, and may miss it.
ProbeMayFind(healthy) == healthy => MayAnswer(intent.cid)

\* _bring_up_attach_topology, deferred on a remote node, and the probe.
AttachAndProbe(healthy) ==
    /\ intent.pc = "started"
    /\ ProbeMayFind(healthy)
    /\ attached' \in {attached \/ ~remote} \cup (IF healthy THEN {} ELSE {attached})
    /\ intent' = IF healthy THEN [intent EXCEPT !.pc = "probed", !.port = box.port]
                 ELSE [intent EXCEPT !.pc = "rollback"]
    /\ UNCHANGED <<accessVars, remote, wsStatus, box, rt, debts, rec, drain, listed,
                   served>>

\* _finalize_runtime_running_success: the route is registered, best effort,
\* before the commit, for the endpoint the probe found.
BringUpSucceeds(out) ==
    /\ intent.pc = "probed"
    /\ rt' = RuntimeAfterBringUp(intent.cid)
    /\ endpoint' = intent.port
    /\ JobEndsIn("RUNNING")
    /\ RegisterRoute(out)
    /\ UNCHANGED <<opening, remote, box, attached, debts, rec, drain>>

\* _sync_runtime_after_failed_bringup and _sync_runtime_after_bringup_exception;
\* RESTART has neither, and nothing is recorded without a row.
RollbackRecorded(out, cid) ==
    IF intent.kind # "START" \/ ~rt.ex THEN UNCHANGED <<rt, debts>>
    ELSE IF out = "done"
    THEN rt' = [rt EXCEPT !.cid = cid] /\ UNCHANGED debts
    ELSE UNCHANGED rt /\ EnsureDebt("bringup_rollback")

\* _bring_up_compensating_rollback, after its second attempt.
RollBack(out, again) ==
    /\ intent.pc = "rollback"
    /\ out \in StopOutcomes(intent.cid)
    /\ StopEffect(intent.cid, out)
    /\ RollbackRecorded(out, intent.cid)
    /\ Retried(again)
    /\ UNCHANGED <<accessVars, remote, rec, drain, listed, served>>

-----------------------------------------------------------------------------
(* STOP, RESTART and DELETE *)

\* The engine and the topology first; the row, the status and the route after.
StopRuntime(out) ==
    /\ intent.pc = "stopping" /\ intent.kind = "STOP"
    /\ out \in StopOutcomes(intent.cid)
    /\ StopEffect(intent.cid, out)
    /\ intent' = [intent EXCEPT !.pc = IF out # "done" THEN out
                                       ELSE IF attached THEN "detached" ELSE "done"]
    /\ UNCHANGED <<accessVars, remote, wsStatus, rt, debts, rec, drain, listed, served>>

\* _finalize_stop_result: a success; an incomplete stop leaves a task; an
\* exception leaves nothing but the ERROR.
FinalizeStop(out) ==
    /\ intent.kind = "STOP" /\ intent.pc \in {"done", "detached"}
    /\ rt' = RuntimeAfterStop(intent.cid, intent.pc = "detached")
    /\ JobEndsIn("STOPPED")
    /\ DeregisterRoute(out)
    /\ UNCHANGED <<accessVars, remote, box, attached, debts, rec, drain>>

FinalizeStopFailed ==
    /\ intent.kind = "STOP" /\ intent.pc \in {"incomplete", "raised"}
    /\ IF intent.pc = "incomplete" THEN EnsureDebt("stop_incomplete") ELSE UNCHANGED debts
    /\ JobEndsIn("ERROR")
    /\ UNCHANGED <<accessVars, remote, box, attached, rt, rec, drain, listed, served>>

\* update_workspace_runtime restarts: the configuration asked for is new with every
\* UPDATE, and a container made for it by a failed attempt is not the one on record.
RestartKinds == {"RESTART", "UPDATE"}

\* restart_workspace_runtime: stop, then bring up in the same job.
RestartStops(out, again) ==
    /\ intent.pc = "stopping" /\ intent.kind \in RestartKinds
    /\ out \in StopOutcomes(intent.cid)
    /\ StopEffect(intent.cid, out)
    /\ IF out = "done" THEN intent' = [intent EXCEPT !.pc = "placed"] /\ UNCHANGED wsStatus
       ELSE Retried(again)
    /\ UNCHANGED <<accessVars, remote, rt, debts, rec, drain, listed, served>>

\* delete_workspace_runtime; "raised" is WorkspaceDeleteError.
DeleteRuntime(out) ==
    /\ intent.pc = "stopping" /\ intent.kind = "DELETE"
    /\ IF out = "raised" THEN JobEndsIn("ERROR") /\ UNCHANGED <<box, attached>>
       ELSE /\ box' = IF out = "done" THEN DeletedBox(intent.cid) ELSE box
            /\ attached' = FALSE
            /\ intent' = [intent EXCEPT !.pc = "deleted"]
            /\ UNCHANGED wsStatus
    /\ UNCHANGED <<accessVars, remote, rt, debts, rec, drain, listed, served>>

\* _finalize_delete_result: whatever the engine said.
FinalizeDelete(out) ==
    /\ intent.pc = "deleted"
    /\ rt' = NoRuntime
    /\ JobEndsIn("DELETED")
    /\ DeregisterRoute(out)
    /\ UNCHANGED <<accessVars, remote, box, attached, debts, rec, drain>>

-----------------------------------------------------------------------------
(* Cleanup tasks, in the drain and at the start of a reconcile *)

\* Tasks of a workspace whose row is incomplete are deferred.
DrainLoads ==
    /\ drain.pc = "idle" /\ PendingDebts # {}
    /\ rt.complete
    /\ drain' = [pc |-> "tasks", cid |-> rt.cid, todo |-> PendingDebts]
    /\ UNCHANGED <<accessVars, remote, wsStatus, box, attached, rt, debts, intent, rec,
                   listed, served>>

SettledDebts(out, scope) == IF out = "done" THEN [debts EXCEPT ![scope] = "SUCCEEDED"] ELSE debts

\* process_durable_cleanup_tasks_for_workspace, one task.
CleanUp(cid, scope, out) ==
    /\ out \in StopOutcomes(cid)
    /\ StopEffect(cid, out)
    /\ debts' = SettledDebts(out, scope)

DrainTask(scope, out) ==
    /\ drain.pc = "tasks" /\ scope \in drain.todo
    /\ CleanUp(drain.cid, scope, out)
    /\ drain' = IF drain.todo = {scope} THEN NoDrain ELSE [drain EXCEPT !.todo = @ \ {scope}]
    /\ UNCHANGED <<accessVars, remote, wsStatus, rt, intent, rec, listed, served>>

DrainDies ==
    /\ drain.pc = "tasks"
    /\ drain' = NoDrain
    /\ UNCHANGED <<accessVars, remote, wsStatus, box, attached, rt, debts, intent, rec,
                   listed, served>>

-----------------------------------------------------------------------------
(* Reconcile *)

\* Mutant of LoopStatuses: workspaces in ERROR are left to the user.
LoopStatusesRunning == {"RUNNING"}

\* _run_reconcile_tick_sync: the default statuses.
LoopStatuses == {"RUNNING", "ERROR"}

LoopEnqueues ==
    /\ rec.pc = "idle" /\ wsStatus \in LoopStatuses
    /\ rec' = [rec EXCEPT !.pc = "queued"]
    /\ UNCHANGED <<accessVars, remote, wsStatus, box, attached, rt, debts, intent,
                   drain, listed, served>>

OperatorEnqueues ==
    /\ rec.pc = "idle" /\ wsStatus \in {"STOPPED", "DELETED"}
    /\ rec' = [rec EXCEPT !.pc = "queued"]
    /\ UNCHANGED <<accessVars, remote, wsStatus, box, attached, rt, debts, intent,
                   drain, listed, served>>

ReconcileEndsIn(status) == wsStatus' = status /\ rec' = NoReconcile

\* Without a complete row the job fails before it is looked at, and takes any
\* status with it.
ReconcileNotPlaced ==
    /\ rec.pc = "queued" /\ ~rt.complete
    /\ ReconcileEndsIn("ERROR")
    /\ UNCHANGED <<accessVars, remote, box, attached, rt, debts, intent, drain, listed,
                   served>>

\* execute_reconcile_runtime_job up to the cleanup tasks.
ReconcileLoads ==
    /\ rec.pc = "queued" /\ rt.complete
    /\ rec' = [pc |-> IF PendingDebts = {} THEN "act" ELSE "tasks", seen |-> wsStatus,
               cid |-> rt.cid, port |-> NoPort, todo |-> PendingDebts]
    /\ UNCHANGED <<accessVars, remote, wsStatus, box, attached, rt, debts, intent,
                   drain, listed, served>>

ReconcileTask(scope, out) ==
    /\ rec.pc = "tasks" /\ scope \in rec.todo
    /\ CleanUp(rec.cid, scope, out)
    /\ rec' = [rec EXCEPT !.todo = @ \ {scope},
                          !.pc = IF rec.todo = {scope} THEN "act" ELSE @]
    /\ UNCHANGED <<accessVars, remote, wsStatus, rt, intent, drain, listed, served>>

\* The reclaimer fails a reconcile job without touching the workspace.
ReconcileDies ==
    /\ rec.pc \notin {"idle", "queued"}
    /\ rec' = NoReconcile
    /\ UNCHANGED <<accessVars, remote, wsStatus, box, attached, rt, debts, intent,
                   drain, listed, served>>

\* _fail_reconcile when the attempts are used up: statuses without a runtime
\* are left, and the others, the busy ones included, become ERROR.
ReconcileFails ==
    IF rec.seen \in {"STOPPED", "ERROR", "DELETED"} THEN ReconcileEndsIn(wsStatus)
    ELSE ReconcileEndsIn("ERROR")

\* The status was busy when the job loaded it.
ReconcileBusy ==
    /\ rec.pc = "act" /\ rec.seen \notin {"RUNNING", "STOPPED", "ERROR", "DELETED"}
    /\ ReconcileFails
    /\ UNCHANGED <<accessVars, remote, box, attached, rt, debts, intent, drain, listed,
                   served>>

\* The route left behind is removed; out "none": there was none, or the list
\* could not be read.
RemoveRoute(out) ==
    \/ listed = NoPort /\ UNCHANGED <<listed, served>> /\ ReconcileEndsIn(wsStatus)
    \/ listed # NoPort /\ SetRoute(NoPort, out)
       /\ IF out = "ok" THEN ReconcileEndsIn(wsStatus) ELSE ReconcileFails

\* _reconcile_error_cleanup: the stop, then the route.
ReconcileErrorStops(out) ==
    /\ rec.pc = "act" /\ rec.seen = "ERROR"
    /\ out \in StopOutcomes(rec.cid)
    /\ StopEffect(rec.cid, out)
    /\ rt' = IF out = "done" THEN RuntimeAfterStop(rec.cid, attached) ELSE rt
    /\ IF out = "raised" THEN ReconcileFails
       ELSE rec' = [rec EXCEPT !.pc = "route"] /\ UNCHANGED wsStatus
    /\ UNCHANGED <<accessVars, remote, debts, intent, drain, listed, served>>

\* _reconcile_error_cleanup, _reconcile_stopped, _reconcile_deleted
ReconcileRoute(out) ==
    /\ rec.pc = "route"
    /\ RemoveRoute(out)
    /\ UNCHANGED <<accessVars, remote, box, attached, rt, debts, intent, drain>>

\* _reconcile_stopped: a lingering container is stopped and finalized like a STOP.
ReconcileStopped(out) ==
    /\ rec.pc = "act" /\ rec.seen \in {"STOPPED", "DELETED"}
    /\ IF rec.seen = "STOPPED" /\ Healthy(rec.cid)
       THEN /\ out \in StopOutcomes(rec.cid)
            /\ StopEffect(rec.cid, out)
            /\ CASE out = "done" ->
                        /\ rt' = RuntimeAfterStop(rec.cid, attached)
                        /\ rec' = [rec EXCEPT !.pc = "route"]
                        /\ UNCHANGED <<wsStatus, debts>>
                 [] out = "incomplete" ->
                        /\ EnsureDebt("stop_incomplete") /\ ReconcileEndsIn("ERROR")
                        /\ UNCHANGED rt
                 [] out = "raised" -> ReconcileFails /\ UNCHANGED <<rt, debts>>
       ELSE /\ rec' = [rec EXCEPT !.pc = "route"]
            /\ UNCHANGED <<wsStatus, box, attached, rt, debts>>
    /\ UNCHANGED <<accessVars, remote, intent, drain, listed, served>>

\* _reconcile_running: not healthy, or the check itself fails.
ReconcileRunningFails ==
    /\ rec.pc = "act" /\ rec.seen = "RUNNING"
    /\ ReconcileFails
    /\ UNCHANGED <<accessVars, remote, box, attached, rt, debts, intent, drain, listed,
                   served>>

ReconcileProbes ==
    /\ rec.pc = "act" /\ rec.seen = "RUNNING"
    /\ Healthy(rec.cid)
    /\ rec' = [rec EXCEPT !.pc = "sync", !.port = box.port]
    /\ UNCHANGED <<accessVars, remote, wsStatus, box, attached, rt, debts, intent,
                   drain, listed, served>>

\* Mutant of NeedsRepair: only a missing route is repaired.
NeedsRepairMissing(p) == listed = NoPort

\* gateway_route_needs_repair
NeedsRepair(p) == listed # p

\* The row takes over what was observed, and the route is repaired.
ReconcileRunning(out) ==
    /\ rec.pc = "sync"
    /\ rt' = RuntimeAfterBringUp(rec.cid)
    /\ endpoint' = rec.port
    /\ IF ~NeedsRepair(rec.port) THEN UNCHANGED <<listed,
                                                  served>> /\ ReconcileEndsIn(wsStatus)
       ELSE SetRoute(rec.port, out)
            /\ IF out = "ok" THEN ReconcileEndsIn(wsStatus) ELSE ReconcileFails
    /\ UNCHANGED <<opening, remote, box, attached, debts, intent, drain>>

-----------------------------------------------------------------------------
(* Opening the workspace: access and attach repair the route first *)

\* _ensure_workspace_running_for_access, _runtime_ready_for_access: what the
\* request reads once and keeps.
OpenReads ==
    /\ "OPEN" \in Requests /\ opening = NoPort
    /\ wsStatus = "RUNNING" /\ rt.cid # 0
    /\ opening' = endpoint
    /\ UNCHANGED <<endpoint, remote, wsStatus, box, attached, rt, debts, intent, rec, drain,
                   listed, served>>

\* _best_effort_enqueue_reconcile_for_access_drift: the status is the one the
\* request's session has loaded, so it is not looked at again.
DriftReported == rec' = IF rec.pc = "idle" THEN [rec EXCEPT !.pc = "queued"] ELSE rec

\* A repair that failed is not seen; _ensure_traefik_edge_observes_host may poll the
\* edge in vain for any other (seen = FALSE).
RouteSeen(out, seen) == seen /\ (NeedsRepair(opening) => out = "ok")

\* _ensure_gateway_route_ready_for_open: a route that differs from the endpoint
\* read is replaced, and what stays wrong is left to a reconcile.
OpenRepairs(out, seen) ==
    /\ opening # NoPort
    /\ opening' = NoPort
    /\ IF NeedsRepair(opening) THEN SetRoute(opening, out) ELSE UNCHANGED <<listed, served>>
    /\ IF RouteSeen(out, seen) THEN UNCHANGED rec ELSE DriftReported
    /\ UNCHANGED <<endpoint, remote, wsStatus, box, attached, rt, debts, intent, drain>>

-----------------------------------------------------------------------------
IntentNext ==
    \/ \E k \in Requests \ {"OPEN"} : RequestIntent(k)
    \/ JobPlaced
    \/ JobNotPlaced
    \/ \E out \in RouteOutcomes : DeleteWithoutRuntime(out)
    \/ \E again \in BOOLEAN, out \in RouteOutcomes : WorkerDies(again, out)
    \/ PrepareFails
    \/ \E b \in EnsuredBoxes, ok \in BOOLEAN : EnsureContainer(b, ok)
    \/ \E healthy \in BOOLEAN : AttachAndProbe(healthy)
    \/ \E out \in RouteOutcomes : BringUpSucceeds(out)
    \/ \E out \in StopOutcomes(intent.cid) :
            \/ \E again \in BOOLEAN : RollBack(out, again) \/ RestartStops(out, again)
            \/ StopRuntime(out)
    \/ \E out \in {"done", "incomplete", "raised"} : DeleteRuntime(out)
    \/ \E out \in RouteOutcomes : FinalizeStop(out) \/ FinalizeDelete(out)
    \/ FinalizeStopFailed

DrainNext ==
    \/ DrainLoads
    \/ \E scope \in drain.todo, out \in StopOutcomes(drain.cid) : DrainTask(scope, out)
    \/ DrainDies

ReconcileNext ==
    \/ LoopEnqueues
    \/ OperatorEnqueues
    \/ ReconcileNotPlaced
    \/ ReconcileLoads
    \/ \E scope \in rec.todo, out \in StopOutcomes(rec.cid) : ReconcileTask(scope, out)
    \/ ReconcileBusy
    \/ \E out \in StopOutcomes(rec.cid) : ReconcileErrorStops(out) \/ ReconcileStopped(out)
    \/ \E out \in RouteOutcomes : ReconcileRoute(out) \/ ReconcileRunning(out)
    \/ ReconcileRunningFails
    \/ ReconcileProbes
    \/ ReconcileDies

ConvNext ==
    \/ IntentNext
    \/ DrainNext
    \/ ReconcileNext
    \/ BoxExits
    \/ RouteAdminRestarts
    \/ OtherRouteSaved
    \/ OpenReads
    \/ \E out \in RouteOutcomes, seen \in BOOLEAN : OpenRepairs(out, seen)

ConvSpec == ConvInit /\ [][ConvNext]_convVars

\* The reconcile loop runs, workers take its jobs, and neither a dying worker nor
\* a failing engine does so every time.
ConvFairness ==
    /\ WF_convVars(LoopEnqueues)
    /\ SF_convVars(ReconcileNotPlaced \/ ReconcileLoads)
    /\ \A last \in BOOLEAN :
        SF_convVars(\E scope \in rec.todo, out \in StopOutcomes(rec.cid) :
                        (last => rec.todo = {scope}) /\ ReconcileTask(scope, out))
    /\ SF_convVars(ReconcileErrorStops("done"))
    /\ SF_convVars(\/ ReconcileProbes \/ ReconcileRunningFails \/ ReconcileBusy
                   \/ \E out \in StopOutcomes(rec.cid) : ReconcileStopped(out))
    /\ SF_convVars(\E out \in RouteOutcomes : ReconcileRoute(out) \/ ReconcileRunning(out))

ConvFairSpec == ConvSpec /\ ConvFairness

-----------------------------------------------------------------------------
(* Properties *)

\* Every row and every process holds values of its kind, and a process that
\* works on a container was given its id (strict placement).
ConvTypeOK ==
    /\ wsStatus \in {"STARTING", "STOPPING", "RESTARTING", "UPDATING", "DELETING",
                     "RUNNING", "STOPPED", "ERROR", "DELETED"}
    /\ box \in [id : 0 .. MaxIds, st : {"absent", "down", "up"}, port : Ports \cup {NoPort}]
    /\ attached \in BOOLEAN
    /\ rt \in [ex : BOOLEAN, complete : BOOLEAN, cid : 0 .. MaxIds]
    /\ debts \in [Scopes -> {"NONE", "PENDING", "SUCCEEDED"}]
    /\ {listed, served, endpoint, opening} \subseteq Ports \cup {NoPort}
    /\ rt.complete => rt.ex /\ rt.cid # 0
    /\ drain.pc = "tasks" => drain.cid # 0 /\ drain.todo # {}
    /\ rec.pc \in {"tasks", "act", "sync", "route"} => rec.cid # 0

\* On a remote node the placement of a running or stopped workspace survives every
\* stop, failure and repair, so the next START, STOP or DELETE finds the node
\* (_apply_runtime_stop, resolve_orchestrator_placement).
RemotePlacementKept == remote /\ wsStatus \in {"RUNNING", "STOPPED"} => rt.complete

\* A stopped workspace can be started again: its placement has survived the
\* stop.
StoppedCanStart == wsStatus = "STOPPED" => Placeable("START")

\* Once route-admin's table stays in step with routes.yml, a running workspace is
\* found unhealthy, or the gateway serves it at the port its container listens on,
\* whatever workers, access repairs and restarts of route-admin do in between
\* (_reconcile_running, gateway_route_needs_repair).
RouteConverges ==
    <>[](listed = served) =>
        (wsStatus = "RUNNING"
            ~> wsStatus # "RUNNING" \/ (box.st = "up" /\ served = box.port))

\* A workspace that stays running, healthy and rightly listed is served in the end:
\* a route that is wrong where Traefik reads it is registered again by the reconcile
\* loop (register_route, _reconcile_running).
RouteServed ==
    <>[](wsStatus = "RUNNING" /\ box.st = "up" /\ listed = box.port)
        => []<>(served = box.port)

\* A container left running by a failed job is stopped by the reconcile of the
\* ERROR workspace, unless the user acts (_reconcile_error_cleanup).
ErrorCleaned ==
    wsStatus = "ERROR" /\ rt.complete /\ Healthy(rt.cid)
        ~> wsStatus # "ERROR" \/ ~rt.complete \/ ~Healthy(rt.cid)

=============================================================================
