------------------------------- MODULE Fleet -------------------------------
(***************************************************************************)
(* Placement of workspaces on EC2 execution nodes, and the autoscaler that *)
(* adds and removes the nodes.                                             *)
(*                                                                         *)
(* A worker chooses a node under FOR UPDATE locks, but what it chose is    *)
(* written only when the bring-up has succeeded, and the adapter's first   *)
(* commit releases the locks long before that; so the locks order the      *)
(* choices and protect nothing else, and are left out.  Free CPU, memory   *)
(* and disk follow the same reservations as the slots, so the slots stand  *)
(* for all of them.                                                        *)
(***************************************************************************)
EXTENDS Integers, FiniteSets, FiniteSetsExt

CONSTANTS
    FleetNodes,       \* node keys, each used for one instance
    Workspaces,
    Workers,          \* job workers; each provisions when nothing can be scheduled
    Scalers,          \* autoscaler loops and admin calls
    MaxNodes,         \* devnest_autoscaler_max_nodes
    MinNodes,         \* devnest_autoscaler_min_nodes
    MaxProvisioning,  \* devnest_autoscaler_max_concurrent_provisioning
    MinReady,         \* devnest_autoscaler_min_ec2_nodes_before_reclaim
    MinIdleSlots,     \* devnest_autoscaler_min_idle_slots
    MaxWorkspaces,    \* execution_node.max_workspaces
    MaxSignals,       \* bound on the placement failures in the audit log's window
    Nowhere           \* not a node, not a workspace

ASSUME FleetAssumption ==
    /\ {MaxNodes, MinNodes, MaxProvisioning, MinReady, MinIdleSlots, MaxWorkspaces, MaxSignals}
         \subseteq Nat
    /\ IsFiniteSet(FleetNodes) /\ IsFiniteSet(Workspaces)
    /\ IsFiniteSet(Workers) /\ IsFiniteSet(Scalers) /\ Workers \cap Scalers = {} /\ Workers # {}
    /\ Nowhere \notin FleetNodes \cup Workspaces

Actors == Workers \cup Scalers

VARIABLES
    nst,      \* nst[n]: the status of the node row ("ABSENT" without one)
    young,    \* nodes created within the provisioning cooldown
    cooling,  \* a node was drained or terminated within the scale-in cooldown
    wsp,      \* wsp[w]: status of workspace w and the node its runtime row names
    act,      \* act[a]: what actor a is in the middle of
    signals,  \* recent PLACEMENT_NO_SCHEDULABLE_NODE entries of the audit log
    late,     \* workspaces whose pin was committed on a node being drained (history)
    back      \* workspaces that went back to their node without being scheduled (history)

fleetVars == <<nst, young, cooling, wsp, act, signals, late, back>>

\* create, start and restart jobs: "queued" while the job waits, "bringup" while a
\* worker runs it.
Idle == [pc |-> "idle", w |-> Nowhere, n |-> Nowhere, up |-> {}]

FleetInit ==
    /\ nst = [n \in FleetNodes |-> "ABSENT"]
    /\ young = {} /\ cooling = FALSE
    /\ wsp = [w \in Workspaces |-> [st |-> "none", node |-> Nowhere]]
    /\ act = [a \in Actors |-> Idle]
    /\ signals = 0 /\ late = {} /\ back = {}

NodesIn(S) == {n \in FleetNodes : nst[n] \in S}

\* _active_ec2_nodes_count: TERMINATED rows are the only ones that do not count.
ActiveNodes == NodesIn({"PROVISIONING", "READY", "DRAINING", "TERMINATING", "ERROR"})

-----------------------------------------------------------------------------
(* Reservations *)

\* active_workload_count_subquery, workspace_slot_claim_count_subquery: the runtime
\* row and execution_node_id are written together, when the job succeeds.
Claims(n) ==
    Cardinality({w \in Workspaces : wsp[w].node = n
                                    /\ wsp[w].st \notin {"stopped", "error", "deleted"}})

\* _active_workspace_count_for_scale_down: everything that is not DELETED counts.
ScaleDownCount(n) == Cardinality({w \in Workspaces : wsp[w].node = n /\ wsp[w].st # "deleted"})

\* Mutant of Fits: the last slot is given twice.
FitsOneMore(n) == Claims(n) <= MaxWorkspaces

Fits(n) == Claims(n) + 1 <= MaxWorkspaces

Candidates == {n \in NodesIn({"READY"}) : Fits(n)}

\* select_node_for_workspace: best fit, the fullest node that fits.
BestFit == {n \in Candidates : \A m \in Candidates : Claims(m) <= Claims(n)}

-----------------------------------------------------------------------------
(* Workspaces *)

RequestCreate(w) ==
    /\ wsp[w].st = "none"
    /\ wsp' = [wsp EXCEPT ![w].st = "queued"]
    /\ UNCHANGED <<nst, young, cooling, act, signals, late, back>>

RequestStart(w) ==
    /\ wsp[w].st \in {"stopped", "error"}
    /\ wsp' = [wsp EXCEPT ![w].st = "queued"]
    /\ back' = IF wsp[w].node = Nowhere THEN back ELSE back \cup {w}
    /\ UNCHANGED <<nst, young, cooling, act, signals, late>>

Stops(w) ==
    /\ wsp[w].st = "running"
    /\ wsp' = [wsp EXCEPT ![w].st = "stopped"]
    /\ UNCHANGED <<nst, young, cooling, act, signals, late, back>>

Deletes(w) ==
    /\ wsp[w].st \in {"running", "stopped", "error"}
    /\ wsp' = [wsp EXCEPT ![w].st = "deleted"]
    /\ UNCHANGED <<nst, young, cooling, act, signals, late, back>>

\* A claimed job's row is locked, and skipped by the other workers.
Unclaimed(w) == \A a \in Workers : act[a].w # w

\* resolve_orchestrator_placement: without a runtime row the scheduler chooses.
Schedule(a, w, n) ==
    /\ act[a].pc = "idle" /\ Unclaimed(w)
    /\ wsp[w] = [st |-> "queued", node |-> Nowhere]
    /\ n \in BestFit
    /\ act' = [act EXCEPT ![a] = [Idle EXCEPT !.pc = "bringup", !.w = w, !.n = n]]
    /\ wsp' = [wsp EXCEPT ![w].st = "bringup"]
    /\ UNCHANGED <<nst, young, cooling, signals, late, back>>

\* With one, START goes back to the node it names, whatever its status and load.
Reuse(a, w) ==
    /\ act[a].pc = "idle" /\ Unclaimed(w)
    /\ wsp[w].st = "queued" /\ wsp[w].node # Nowhere
    /\ act' = [act EXCEPT ![a] = [Idle EXCEPT !.pc = "bringup", !.w = w, !.n = wsp[w].node]]
    /\ wsp' = [wsp EXCEPT ![w].st = "bringup"]
    /\ UNCHANGED <<nst, young, cooling, signals, late, back>>

\* _finalize_runtime_running_success and _sync_workspace_execution_node_id.
BringUpDone(a) ==
    LET w == act[a].w
        n == act[a].n
    IN /\ act[a].pc = "bringup"
       /\ nst[n] # "TERMINATED"
       /\ wsp' = [wsp EXCEPT ![w] = [st |-> "running", node |-> n]]
       /\ late' = IF nst[n] # "READY" THEN late \cup {w} ELSE late
       /\ act' = [act EXCEPT ![a] = Idle]
       /\ UNCHANGED <<nst, young, cooling, signals, back>>

BringUpFails(a, st) ==
    /\ act[a].pc = "bringup"
    /\ wsp' = [wsp EXCEPT ![act[a].w].st = st]
    /\ act' = [act EXCEPT ![a] = Idle]
    /\ UNCHANGED <<nst, young, cooling, signals, late, back>>

\* The capacity wait of the job has timed out.
WaitTimesOut(w) ==
    /\ Unclaimed(w)
    /\ wsp[w] = [st |-> "queued", node |-> Nowhere]
    /\ wsp' = [wsp EXCEPT ![w].st = "error"]
    /\ UNCHANGED <<nst, young, cooling, act, signals, late, back>>

-----------------------------------------------------------------------------
(* evaluate_fleet_autoscaler_tick, on what the session sees: st the statuses of
   the nodes, q the queued jobs, sig the failures in the audit log *)

\* A worker's own job is not QUEUED to its own session.
Queued == {w \in Workspaces : wsp[w].st = "queued"}
WithStatus(st, s) == {n \in FleetNodes : st[n] = s}

\* A single failure is noise; old ones are too when nothing is being placed.
FilteredSignals(sig) ==
    IF sig > 1 /\ \E w \in Workspaces : wsp[w].st \notin {"none", "deleted"} THEN sig ELSE 0

EffectivePending(q, sig) ==
    LET filtered == FilteredSignals(sig)
        placing == \E w \in Workspaces : wsp[w].st \in {"queued", "bringup"}
    IN IF filtered > 0 /\ q = {} /\ ~placing THEN 0 ELSE Cardinality(q) + filtered

FreeSlots(st) ==
    MapThenSumSet(LAMBDA n : IF Fits(n) THEN MaxWorkspaces - Claims(n) ELSE 0,
                  WithStatus(st, "READY"))

IncomingSlots(st) == MaxWorkspaces * Cardinality(WithStatus(st, "PROVISIONING"))

ScaleOutRecommended(st, q, sig) ==
    LET pending == EffectivePending(q, sig)
        free == FreeSlots(st)
        total == free + IncomingSlots(st)
        ready == WithStatus(st, "READY")
        exhausted == free < 1 /\ (ready # {} \/ (ActiveNodes # {} /\ IncomingSlots(st) = 0))
        idleBuffer == pending > 0 /\ free - pending < MinIdleSlots /\ IncomingSlots(st) = 0
    IN /\ pending > 0 \/ q # {}
       /\ pending > total \/ (total = 0 /\ pending > 0) \/ idleBuffer \/ exhausted

\* Mutant of UnderCap: nodes that are still provisioning do not count.
UnderCapReady(st) == Cardinality(ActiveNodes \ NodesIn({"PROVISIONING"})) < MaxNodes

\* suppressed_by_cap
UnderCap(st) ==
    /\ Cardinality(ActiveNodes) < MaxNodes
    /\ Cardinality(WithStatus(st, "PROVISIONING")) < MaxProvisioning

\* suppressed_by_recent_provisioning and suppressed_by_cooldown.
OutNotCooling == young \cap ActiveNodes = {}

\* evaluate_scale_down: idle READY nodes that are old enough.
ScaleDownPicks(st) ==
    IF Cardinality(WithStatus(st, "READY")) < MinReady THEN {}
    ELSE {n \in WithStatus(st, "READY") : ScaleDownCount(n) = 0 /\ n \notin young}

\* The floor is checked against the rows that count, those of nodes that are on
\* their way out included.
AboveFloor == Cardinality(ActiveNodes) > MinNodes

ScalesOut(st, q, sig) == ScaleOutRecommended(st, q, sig) /\ UnderCap(st) /\ OutNotCooling

ScalesIn(st, n) ==
    ~ScaleOutRecommended(st, Queued, signals) /\ n \in ScaleDownPicks(st) /\ AboveFloor /\ ~cooling

-----------------------------------------------------------------------------
(* Scale-out *)

OneMoreSignal == IF signals < MaxSignals THEN signals + 1 ELSE signals

\* record_placement_failed_scale_out_signal, then
\* maybe_provision_on_no_schedulable_capacity in the worker's own session.
NoCapacity(a, w, n) ==
    /\ act[a].pc = "idle" /\ Unclaimed(w)
    /\ wsp[w] = [st |-> "queued", node |-> Nowhere]
    /\ Candidates = {}
    /\ IF ScalesOut(nst, Queued \ {w}, signals + 1)
       THEN /\ nst[n] = "ABSENT"
            /\ act' = [act EXCEPT ![a] = [Idle EXCEPT !.pc = "launch", !.w = w, !.n = n]]
            /\ UNCHANGED signals
       ELSE signals' = OneMoreSignal /\ UNCHANGED act
    /\ UNCHANGED <<nst, young, cooling, wsp, late, back>>

Synced(up) == [n \in FleetNodes |-> IF n \in up THEN "READY" ELSE nst[n]]

\* run_scale_out_tick: the PROVISIONING nodes whose gate passes (up) are READY to
\* this session, and to the others only when the tick commits.
ScaleOutTick(a, up, n) ==
    /\ act[a].pc = "idle"
    /\ up \subseteq NodesIn({"PROVISIONING"})
    /\ IF ScalesOut(Synced(up), Queued, signals)
       THEN /\ nst[n] = "ABSENT"
            /\ act' = [act EXCEPT ![a] = [Idle EXCEPT !.pc = "launch", !.n = n, !.up = up]]
            /\ UNCHANGED nst
       ELSE nst' = Synced(up) /\ UNCHANGED act
    /\ UNCHANGED <<young, cooling, wsp, signals, late, back>>

\* provision_ec2_node has waited for the instance; the session commits.
LaunchCommits(a) ==
    LET n == act[a].n
    IN /\ act[a].pc = "launch"
       /\ nst[n] = "ABSENT"
       /\ nst' = [m \in FleetNodes |->
                    IF m = n THEN "PROVISIONING"
                    ELSE IF m \in act[a].up /\ nst[m] = "PROVISIONING" THEN "READY" ELSE nst[m]]
       /\ young' = young \cup {n}
       /\ signals' = IF a \in Workers THEN OneMoreSignal ELSE signals
       /\ act' = [act EXCEPT ![a] = Idle]
       /\ UNCHANGED <<cooling, wsp, late, back>>

\* RunInstances is refused, or the insert fails: the tick is rolled back; the
\* worker swallows the error and queues its job again.
LaunchFails(a) ==
    /\ act[a].pc = "launch"
    /\ signals' = IF a \in Workers THEN OneMoreSignal ELSE signals
    /\ act' = [act EXCEPT ![a] = Idle]
    /\ UNCHANGED <<nst, young, cooling, wsp, late, back>>

-----------------------------------------------------------------------------
(* Scale-in: execute_scale_down *)

ScaleInDecision(a, up, n) ==
    /\ act[a].pc = "idle"
    /\ up \subseteq NodesIn({"PROVISIONING"})
    /\ ScalesIn(Synced(up), n)
    /\ nst[n] = "READY"
    /\ act' = [act EXCEPT ![a] = [Idle EXCEPT !.pc = "check", !.n = n, !.up = up]]
    /\ UNCHANGED <<nst, young, cooling, wsp, signals, late, back>>

\* The checks, repeated on fresh reads; any that fails ends the tick, which commits
\* the synchronised rows.
DrainChecks(a) ==
    LET n == act[a].n
        passes == AboveFloor /\ ~cooling /\ nst[n] = "READY" /\ ScaleDownCount(n) = 0
    IN /\ act[a].pc = "check"
       /\ IF passes THEN act' = [act EXCEPT ![a].pc = "mark"] /\ UNCHANGED nst
          ELSE /\ act' = [act EXCEPT ![a] = Idle]
               /\ nst' = [m \in FleetNodes |->
                            IF m \in act[a].up /\ nst[m] = "PROVISIONING" THEN "READY" ELSE nst[m]]
       /\ UNCHANGED <<young, cooling, wsp, signals, late, back>>

\* mark_node_draining and the commit.  The session writes over the row it loaded
\* for the checks, whatever another scale-in has made of it since.
DrainCommits(a) ==
    LET n == act[a].n
    IN /\ act[a].pc = "mark"
       /\ nst' = [m \in FleetNodes |->
                    IF m = n THEN "DRAINING"
                    ELSE IF m \in act[a].up /\ nst[m] = "PROVISIONING" THEN "READY" ELSE nst[m]]
       /\ cooling' = TRUE
       /\ act' = [act EXCEPT ![a].pc = "recheck", ![a].up = {}]
       /\ UNCHANGED <<young, wsp, signals, late, back>>

\* Mutant of Recheck: the count is not read again after the drain.
RecheckSkipped(a) ==
    /\ act[a].pc = "recheck"
    /\ act' = [act EXCEPT ![a].pc = "terminate"]
    /\ UNCHANGED <<nst, young, cooling, wsp, signals, late, back>>

\* The second count: undrain_node, or terminate_ec2_node, which leaves a
\* TERMINATED row alone.
Recheck(a) ==
    LET n == act[a].n
    IN /\ act[a].pc = "recheck"
       /\ IF nst[n] = "TERMINATED" THEN act' = [act EXCEPT ![a] = Idle] /\ UNCHANGED nst
          ELSE IF ScaleDownCount(n) # 0
          THEN /\ nst' = [nst EXCEPT ![n] = IF @ = "DRAINING" THEN "READY" ELSE @]
               /\ act' = [act EXCEPT ![a] = Idle]
          ELSE act' = [act EXCEPT ![a].pc = "terminate"] /\ UNCHANGED nst
       /\ UNCHANGED <<young, cooling, wsp, signals, late, back>>

\* The instance is gone, was not seen to go, or AWS refused.
TerminateEnds(a, st) ==
    /\ act[a].pc = "terminate"
    /\ nst' = [nst EXCEPT ![act[a].n] = st]
    /\ cooling' = IF st = "ERROR" THEN cooling ELSE TRUE
    /\ act' = [act EXCEPT ![a] = Idle]
    /\ UNCHANGED <<young, wsp, signals, late, back>>

\* reconcile_stale_ec2_execution_nodes, a synchronisation or a repeated termination
\* finds the instance of a row that was left TERMINATING or ERROR gone.
NodeFoundGone(n) ==
    /\ nst[n] \in {"TERMINATING", "ERROR"}
    /\ nst' = [nst EXCEPT ![n] = "TERMINATED"]
    /\ UNCHANGED <<young, cooling, wsp, act, signals, late, back>>

\* The process that scales dies; what it had committed stays.
ActorDies(a) ==
    /\ act[a].pc \in {"check", "mark", "recheck", "terminate"}
    /\ act' = [act EXCEPT ![a] = Idle]
    /\ UNCHANGED <<nst, young, cooling, wsp, signals, late, back>>

-----------------------------------------------------------------------------
(* Time *)

NodeAges(n) ==
    /\ n \in young
    /\ young' = young \ {n}
    /\ UNCHANGED <<nst, cooling, wsp, act, signals, late, back>>

CooldownEnds ==
    /\ cooling
    /\ cooling' = FALSE
    /\ UNCHANGED <<nst, young, wsp, act, signals, late, back>>

SignalsExpire ==
    /\ signals > 0
    /\ signals' = 0
    /\ UNCHANGED <<nst, young, cooling, wsp, act, late, back>>

-----------------------------------------------------------------------------
WorkerNext(a) ==
    \/ \E w \in Workspaces, n \in FleetNodes : Schedule(a, w, n) \/ NoCapacity(a, w, n)
    \/ \E w \in Workspaces : Reuse(a, w)
    \/ BringUpDone(a)
    \/ \E st \in {"queued", "error"} : BringUpFails(a, st)

ScalerNext(a) ==
    \/ \E up \in SUBSET FleetNodes, n \in FleetNodes :
            ScaleOutTick(a, up, n) \/ ScaleInDecision(a, up, n)
    \/ DrainChecks(a)
    \/ DrainCommits(a)
    \/ Recheck(a)
    \/ \E st \in {"TERMINATED", "TERMINATING", "ERROR"} : TerminateEnds(a, st)
    \/ ActorDies(a)

FleetNext ==
    \/ \E w \in Workspaces : RequestCreate(w) \/ RequestStart(w) \/ Stops(w) \/ Deletes(w)
    \/ \E w \in Workspaces : WaitTimesOut(w)
    \/ \E a \in Workers : WorkerNext(a)
    \/ \E a \in Scalers : ScalerNext(a)
    \/ \E a \in Actors : LaunchCommits(a) \/ LaunchFails(a)
    \/ \E n \in FleetNodes : NodeAges(n) \/ NodeFoundGone(n)
    \/ CooldownEnds
    \/ SignalsExpire

FleetSpec == FleetInit /\ [][FleetNext]_fleetVars

-----------------------------------------------------------------------------
(* Properties *)

\* Statuses are those of execution_node and workspace rows, and an actor that
\* works on a node names one.
FleetTypeOK ==
    /\ nst \in [FleetNodes -> {"ABSENT", "PROVISIONING", "READY", "DRAINING", "TERMINATING",
                               "TERMINATED", "ERROR"}]
    /\ young \subseteq FleetNodes /\ cooling \in BOOLEAN
    /\ wsp \in [Workspaces -> [st : {"none", "queued", "bringup", "running", "stopped", "error",
                                     "deleted"}, node : FleetNodes \cup {Nowhere}]]
    /\ act \in [Actors -> [pc : {"idle", "bringup", "launch", "check", "mark", "recheck", "terminate"},
                           w : Workspaces \cup {Nowhere}, n : FleetNodes \cup {Nowhere},
                           up : SUBSET FleetNodes]]
    /\ \A a \in Actors : act[a].pc # "idle" => act[a].n \in FleetNodes
    /\ signals \in 0..MaxSignals /\ late \subseteq Workspaces /\ back \subseteq Workspaces

\* The decision and the insert are minutes apart, so max_nodes can be passed, but
\* only by the launches that were under way at once (provision_one_from_fleet_decision
\* in the loops, the admin call and the workers' hook).
OvershootBounded == Cardinality(ActiveNodes) <= MaxNodes + Cardinality(Actors) - 1

\* A workspace placed on a READY node keeps its node: scale-in, whose drain and
\* second count interleave with placements, never terminates it (execute_scale_down),
\* as long as scale-ins do not overlap: of two on one node, one may undo the drain
\* that the other counted behind.
PinnedNodeKept ==
    \A w \in Workspaces :
        wsp[w].node # Nowhere /\ wsp[w].st # "deleted" /\ w \notin late
            => nst[wsp[w].node] \notin {"TERMINATING", "TERMINATED"}

\* A node's slots are counted before the bring-up and written after it, so
\* max_workspaces can be passed, but only by the bring-ups that were in flight at
\* once; START, which goes back to its node unasked, is left out of the count
\* (select_node_for_workspace).  SlotsKept is what the comments there promise.
SlotOvershootBounded ==
    \A n \in FleetNodes :
        Cardinality({w \in Workspaces \ back :
                        \/ wsp[w].node = n /\ wsp[w].st \notin {"stopped", "error", "deleted"}
                        \/ \E a \in Workers : act[a].pc = "bringup" /\ act[a].w = w /\ act[a].n = n})
            <= MaxWorkspaces + Cardinality(Workers) - 1

\* No node is overbooked: no two bring-ups of CREATE take the same last slot
\* (select_node_for_workspace: "so CREATE cannot overbook").
SlotsKept ==
    \A n \in FleetNodes :
        Cardinality({w \in Workspaces \ back :
                        wsp[w].node = n /\ wsp[w].st \notin {"stopped", "error", "deleted"}}) <= MaxWorkspaces

=============================================================================
