-------------------------- MODULE ConvergenceProofs --------------------------
(***************************************************************************)
(* Proofs about RuntimeConvergence for any ports, any number of containers *)
(* and every mix of requests: typing, with the ids that strict placement   *)
(* promises, and that a remote node keeps its placement; and about         *)
(* EventStream for any number of writers and events and any page size:     *)
(* what a client is shown.                                                 *)
(***************************************************************************)
EXTENDS RuntimeConvergence, EventStream, SequenceTheorems, TLAPS

(* The values of each row and process, and what they promise by themselves.  *)
Statuses == {"STARTING", "STOPPING", "RESTARTING", "UPDATING", "DELETING",
             "RUNNING", "STOPPED", "ERROR", "DELETED"}
Ids == 0 .. MaxIds
PortSet == Ports \cup {NoPort}
IntentKinds == {"NONE", "START", "STOP", "RESTART", "UPDATE", "DELETE"}
IntentPcs == {"idle", "queued", "placed", "started", "probed", "rollback", "stopping",
              "done", "detached", "incomplete", "raised", "deleted"}
RecPcs == {"idle", "queued", "tasks", "act", "sync", "route"}
RecSeen == Statuses \cup {"NONE"}
ScopeSets == SUBSET Scopes
BoxStates == {"absent", "down", "up"}

\* A container that is there has an id.
BoxOK(b) == b \in [id : Ids, st : BoxStates, port : PortSet] /\ (b.st # "absent" => b.id # 0)

\* A complete row has a container id.
RtOK(r) == r \in [ex : BOOLEAN, complete : BOOLEAN, cid : Ids] /\ (r.complete => r.ex /\ r.cid # 0)

DebtsOK(d) == d \in [Scopes -> {"NONE", "PENDING", "SUCCEEDED"}]

\* A job that has brought a container up, or has stopped one, has its id in hand.
IntentOK(v) ==
    /\ v \in [kind : IntentKinds, pc : IntentPcs, cid : Ids, port : PortSet]
    /\ v.pc \in {"started", "probed", "done", "detached"} => v.cid # 0

RecOK(r) ==
    /\ r \in [pc : RecPcs, seen : RecSeen, cid : Ids, port : PortSet, todo : ScopeSets]
    /\ r.pc \in {"tasks", "act", "sync", "route"} => r.cid # 0

DrainOK(d) ==
    /\ d \in [pc : {"idle", "tasks"}, cid : Ids, todo : ScopeSets]
    /\ d.pc = "tasks" => d.cid # 0 /\ d.todo # {}

ConvInv ==
    /\ wsStatus \in Statuses /\ remote \in BOOLEAN /\ attached \in BOOLEAN
    /\ BoxOK(box) /\ RtOK(rt) /\ DebtsOK(debts)
    /\ IntentOK(intent) /\ RecOK(rec) /\ DrainOK(drain)
    /\ listed \in PortSet /\ served \in PortSet /\ endpoint \in PortSet /\ opening \in PortSet

\* Nothing is ever attached for a remote node, so that no stop finds something to
\* detach and clears the placement; a STOP under way was placed, and only a DELETE
\* could take the placement from it.
RemoteInv ==
    remote =>
        /\ ~attached /\ intent.pc # "detached"
        /\ intent.kind = "STOP" /\ intent.pc \in {"stopping", "done"} => rt.complete
        /\ wsStatus \in {"RUNNING", "STOPPED"} => rt.complete

-----------------------------------------------------------------------------
(* The operators *)

\* The containers the engine can leave behind.
LEMMA BoxOps ==
    ASSUME BoxOK(box)
    PROVE  /\ \A b \in EnsuredBoxes : BoxOK(b) /\ b.st # "absent"
           /\ \A b : BoxOK(b) /\ b.st # "absent" => \A s \in StartedBoxes(b) : BoxOK(s) /\ s.id = b.id
           /\ \A cid : BoxOK(StoppedBox(cid))
           /\ \A cid \in Ids : BoxOK(DeletedBox(cid))
<1>n. NoPort \in PortSet /\ 0 \in Ids /\ Ids \subseteq Nat
  BY ConvergenceAssumption DEF PortSet, Ids
<1>1. \A b \in EnsuredBoxes : BoxOK(b) /\ b.st # "absent"
  <2> SUFFICES ASSUME NEW b \in EnsuredBoxes PROVE BoxOK(b) /\ b.st # "absent"
    OBVIOUS
  <2>1. CASE b \in ReusedBoxes
    BY <2>1 DEF ReusedBoxes
  <2>2. CASE b \in CreatedBoxes
    <3>1. box.id < MaxIds /\ b = [id |-> box.id + 1, st |-> "down", port |-> NoPort]
      BY <2>2 DEF CreatedBoxes
    <3>2. box.id + 1 \in Ids /\ box.id + 1 # 0
      BY <3>1, ConvergenceAssumption DEF BoxOK, Ids
    <3>3. QED BY <3>1, <3>2, <1>n DEF BoxOK, BoxStates
  <2>3. QED BY <2>1, <2>2 DEF EnsuredBoxes
<1>2. ASSUME NEW b, BoxOK(b), b.st # "absent", NEW s \in StartedBoxes(b) PROVE BoxOK(s) /\ s.id = b.id
  <2>1. CASE b.st = "up"
    BY <2>1, <1>2 DEF StartedBoxes
  <2>2. CASE b.st # "up"
    <3>1. PICK p \in Ports : s = [b EXCEPT !.st = "up", !.port = p]
      BY <2>2, <1>2 DEF StartedBoxes
    <3>2. QED BY <3>1, <1>2 DEF BoxOK, BoxStates, PortSet
  <2>3. QED BY <2>1, <2>2
<1>3. \A cid : BoxOK(StoppedBox(cid))
  BY <1>n DEF StoppedBox, NeedsStop, ContainerRunning, BoxOK, BoxStates
<1>4. \A cid \in Ids : BoxOK(DeletedBox(cid))
  BY <1>n DEF DeletedBox, NoBox, BoxOK, BoxStates
<1>5. QED BY <1>1, <1>2, <1>3, <1>4

\* A stop leaves a container of its kind, attaches nothing, and is done only with an
\* id.
LEMMA StopOps ==
    ASSUME BoxOK(box), attached \in BOOLEAN, NEW cid, NEW out \in StopOutcomes(cid), StopEffect(cid, out)
    PROVE  /\ BoxOK(box') /\ attached' \in BOOLEAN /\ (attached' => attached)
           /\ out \in {"raised", "done", "incomplete"} /\ (out = "done" => cid # 0)
<1>1. BoxOK(box')
  <2>1. box' \in {box, StoppedBox(cid)}
    BY DEF StopEffect, BoxesAfterStop, StopOutcomes
  <2>2. QED BY <2>1, BoxOps
<1>2. attached' \in BOOLEAN /\ (attached' => attached)
  BY DEF StopEffect
<1>3. out \in {"raised", "done", "incomplete"} /\ (out = "done" => cid # 0)
  BY DEF StopOutcomes
<1>4. QED BY <1>1, <1>2, <1>3

\* What the rows become.
LEMMA RowOps ==
    ASSUME RtOK(rt), DebtsOK(debts)
    PROVE  /\ \A cid \in Ids \ {0} : RtOK(RuntimeAfterBringUp(cid)) /\ RuntimeAfterBringUp(cid).complete
           /\ \A cid \in Ids \ {0}, d \in BOOLEAN :
                  /\ RtOK(RuntimeAfterStop(cid, d))
                  /\ RuntimeAfterStop(cid, d).complete <=> rt.complete /\ ~d
           /\ \A cid \in Ids \ {0} : RtOK([rt EXCEPT !.cid = cid]) /\ [rt EXCEPT !.cid = cid].complete = rt.complete
           /\ \A s \in Scopes : EnsureDebt(s) => DebtsOK(debts')
           /\ \A s, out : DebtsOK(SettledDebts(out, s))
           /\ RtOK(NoRuntime)
<1>1. \A cid \in Ids \ {0} : RtOK(RuntimeAfterBringUp(cid)) /\ RuntimeAfterBringUp(cid).complete
  BY DEF RtOK, RuntimeAfterBringUp
<1>2. ASSUME NEW cid \in Ids \ {0}, NEW d \in BOOLEAN
      PROVE  /\ RtOK(RuntimeAfterStop(cid, d))
             /\ RuntimeAfterStop(cid, d).complete <=> rt.complete /\ ~d
  BY DEF RtOK, RuntimeAfterStop
<1>3. \A cid \in Ids \ {0} : RtOK([rt EXCEPT !.cid = cid]) /\ [rt EXCEPT !.cid = cid].complete = rt.complete
  BY DEF RtOK
<1>4. \A s \in Scopes : EnsureDebt(s) => DebtsOK(debts')
  BY DEF EnsureDebt, DebtsOK
<1>5. \A s, out : DebtsOK(SettledDebts(out, s))
  BY DEF SettledDebts, DebtsOK
<1>6. RtOK(NoRuntime)
  BY ConvergenceAssumption DEF NoRuntime, RtOK, Ids
<1>7. QED BY <1>1, <1>2, <1>3, <1>4, <1>5, <1>6

\* A route call sets the table and the file to ports.
LEMMA RouteOps ==
    ASSUME listed \in PortSet, served \in PortSet, NEW p \in PortSet, NEW out, SetRoute(p, out)
    PROVE  listed' \in PortSet /\ served' \in PortSet
BY DEF SetRoute

\* The processes at rest.
LEMMA Idle ==
    /\ IntentOK(NoIntent) /\ NoIntent.pc = "idle" /\ NoIntent.kind = "NONE"
    /\ RecOK(NoReconcile) /\ DrainOK(NoDrain) /\ BoxOK(NoBox) /\ NoPort \in PortSet
<1>1. 0 \in Ids /\ NoPort \in PortSet /\ {} \in ScopeSets
  BY ConvergenceAssumption DEF Ids, PortSet, ScopeSets
<1>2. QED
  BY <1>1 DEF NoIntent, NoReconcile, NoDrain, NoBox, IntentOK, RecOK, DrainOK, BoxOK,
              IntentKinds, IntentPcs, RecPcs, RecSeen, BoxStates

\* A new job, and one whose attempt has failed.
LEMMA JobOps ==
    ASSUME wsStatus \in Statuses, IntentOK(intent)
    PROVE  /\ \A k \in IntentKinds :
                 LET v == [NoIntent EXCEPT !.kind = k, !.pc = "queued"]
                 IN  IntentOK(v) /\ v.pc = "queued" /\ v.kind = k
           /\ \A again : Retried(again) =>
                 /\ wsStatus' \in {wsStatus, "ERROR"} /\ wsStatus' \in Statuses /\ IntentOK(intent')
                 /\ intent'.pc \in {"idle", "queued"}
           /\ \A st \in Statuses : JobEndsIn(st) => wsStatus' \in Statuses /\ IntentOK(intent') /\ intent'.pc = "idle"
<1>1. ASSUME NEW k \in IntentKinds
      PROVE  LET v == [NoIntent EXCEPT !.kind = k, !.pc = "queued"]
             IN  IntentOK(v) /\ v.pc = "queued" /\ v.kind = k
  BY Idle DEF NoIntent, IntentOK, IntentPcs
<1>2. intent.kind \in IntentKinds /\ "ERROR" \in Statuses
  BY DEF IntentOK, Statuses
<1>3. \A st \in Statuses : JobEndsIn(st) => wsStatus' \in Statuses /\ IntentOK(intent') /\ intent'.pc = "idle"
  BY Idle DEF JobEndsIn
<1>4. ASSUME NEW again, Retried(again)
      PROVE  /\ wsStatus' \in {wsStatus, "ERROR"} /\ wsStatus' \in Statuses /\ IntentOK(intent')
             /\ intent'.pc \in {"idle", "queued"}
  <2>1. CASE again
    BY <2>1, <1>1, <1>2, <1>4 DEF Retried
  <2>2. CASE ~again
    BY <2>2, <1>2, <1>3, <1>4 DEF Retried, JobEndsIn
  <2>3. QED BY <2>1, <2>2
<1>5. QED BY <1>1, <1>3, <1>4

\* A reconcile that ends keeps the status or makes it ERROR.
LEMMA ReconcileOps ==
    ASSUME wsStatus \in Statuses, ReconcileFails \/ ReconcileEndsIn(wsStatus) \/ ReconcileEndsIn("ERROR")
    PROVE  wsStatus' \in {wsStatus, "ERROR"} /\ wsStatus' \in Statuses /\ RecOK(rec')
BY Idle DEF ReconcileFails, ReconcileEndsIn, Statuses

-----------------------------------------------------------------------------
(* The lifecycle job *)

\* A job before its first effect.
LEMMA QueuedSteps ==
    ASSUME ConvInv, RemoteInv,
           \/ \E k \in Requests \ {"OPEN"} : RequestIntent(k)
           \/ JobPlaced \/ JobNotPlaced
           \/ \E out \in RouteOutcomes : DeleteWithoutRuntime(out)
           \/ \E again \in BOOLEAN, out \in RouteOutcomes : WorkerDies(again, out)
           \/ PrepareFails
    PROVE  ConvInv' /\ RemoteInv'
<1>1. ASSUME NEW k \in Requests \ {"OPEN"}, RequestIntent(k) PROVE ConvInv' /\ RemoteInv'
  <2>1. k \in IntentKinds /\ BusyStatus(k) \in Statuses \ {"RUNNING", "STOPPED"}
    BY ConvergenceAssumption DEF IntentKinds, BusyStatus, Statuses
  <2>2. /\ UNCHANGED <<accessVars, remote, box, attached, rt, debts, rec, drain, listed, served>>
        /\ wsStatus' = BusyStatus(k) /\ intent' = [NoIntent EXCEPT !.kind = k, !.pc = "queued"]
    BY <1>1 DEF RequestIntent
  <2>3. IntentOK(intent') /\ intent'.pc = "queued"
    BY <2>1, <2>2, JobOps DEF ConvInv
  <2>4. QED BY <2>1, <2>2, <2>3 DEF ConvInv, RemoteInv, accessVars
<1>2. CASE JobPlaced
  <2>1. UNCHANGED <<accessVars, remote, wsStatus, box, attached, rt, debts, rec, drain, listed, served>>
    BY <1>2 DEF JobPlaced
  <2>2. intent.kind = "START" \/ rt.complete
    BY <1>2 DEF JobPlaced, Placeable
  <2>3. rt.cid \in Ids /\ 0 \in Ids
    BY ConvergenceAssumption DEF ConvInv, RtOK, Ids
  <2>4. /\ IntentOK(intent') /\ intent'.kind = intent.kind /\ intent'.pc \in {"placed", "stopping"}
        /\ (intent'.pc = "stopping" => intent.kind # "START")
    BY <1>2, <2>3 DEF JobPlaced, ConvInv, IntentOK, IntentPcs
  <2>5. QED BY <2>1, <2>2, <2>4 DEF ConvInv, RemoteInv, accessVars
<1>3. CASE JobNotPlaced
  <2>1. UNCHANGED <<accessVars, remote, box, attached, rt, debts, rec, drain, listed, served>> /\ JobEndsIn("ERROR")
    BY <1>3 DEF JobNotPlaced
  <2>2. wsStatus' = "ERROR" /\ wsStatus' \in Statuses /\ IntentOK(intent') /\ intent'.pc = "idle"
    BY <2>1, JobOps DEF ConvInv, JobEndsIn, Statuses
  <2>3. QED BY <2>1, <2>2 DEF ConvInv, RemoteInv, accessVars
<1>4. ASSUME NEW out \in RouteOutcomes, DeleteWithoutRuntime(out) PROVE ConvInv' /\ RemoteInv'
  <2>1. UNCHANGED <<accessVars, remote, box, attached, rt, debts, rec, drain>> /\ JobEndsIn("DELETED")
    BY <1>4 DEF DeleteWithoutRuntime
  <2>2. wsStatus' = "DELETED" /\ wsStatus' \in Statuses /\ IntentOK(intent') /\ intent'.pc = "idle"
    BY <2>1, JobOps DEF ConvInv, JobEndsIn, Statuses
  <2>3. listed' \in PortSet /\ served' \in PortSet
    BY <1>4, Idle, RouteOps DEF DeleteWithoutRuntime, DeregisterRoute, ConvInv
  <2>4. QED BY <2>1, <2>2, <2>3 DEF ConvInv, RemoteInv, accessVars
<1>5. ASSUME NEW again \in BOOLEAN, NEW out \in RouteOutcomes, WorkerDies(again, out) PROVE ConvInv' /\ RemoteInv'
  <2>1. UNCHANGED <<accessVars, remote, box, attached, rt, debts, rec, drain>> /\ Retried(again)
    BY <1>5 DEF WorkerDies
  <2>2. wsStatus' \in {wsStatus, "ERROR"} /\ wsStatus' \in Statuses /\ IntentOK(intent') /\ intent'.pc \in {"idle", "queued"}
    BY <2>1, JobOps DEF ConvInv
  <2>3. listed' \in PortSet /\ served' \in PortSet
    <3>1. intent.port \in PortSet
      BY DEF ConvInv, IntentOK
    <3>2. QED BY <1>5, <3>1, RouteOps DEF WorkerDies, RegisterRoute, ConvInv
  <2>4. QED BY <2>1, <2>2, <2>3 DEF ConvInv, RemoteInv, accessVars
<1>6. CASE PrepareFails
  <2>1. UNCHANGED <<accessVars, remote, wsStatus, box, attached, rt, debts, rec, drain, listed, served>>
    BY <1>6 DEF PrepareFails
  <2>2. IntentOK(intent') /\ intent'.pc = "rollback"
    BY <1>6, Idle DEF PrepareFails, ConvInv, IntentOK, IntentPcs, NoIntent
  <2>3. QED BY <2>1, <2>2 DEF ConvInv, RemoteInv, accessVars
<1>7. QED BY <1>1, <1>2, <1>3, <1>4, <1>5, <1>6

\* The bring-up and its rollback.
LEMMA BringUpSteps ==
    ASSUME ConvInv, RemoteInv,
           \/ \E b \in EnsuredBoxes, ok \in BOOLEAN : EnsureContainer(b, ok)
           \/ \E healthy \in BOOLEAN : AttachAndProbe(healthy)
           \/ \E out \in RouteOutcomes : BringUpSucceeds(out)
           \/ \E out \in StopOutcomes(intent.cid), again \in BOOLEAN : RollBack(out, again)
    PROVE  ConvInv' /\ RemoteInv'
<1>0. 0 \in Ids /\ BoxOK(box) /\ IntentOK(intent)
  BY ConvergenceAssumption DEF Ids, ConvInv
<1>1. ASSUME NEW b \in EnsuredBoxes, NEW ok \in BOOLEAN, EnsureContainer(b, ok) PROVE ConvInv' /\ RemoteInv'
  <2>1. UNCHANGED <<accessVars, remote, wsStatus, attached, rt, debts, rec, drain, listed, served>>
    BY <1>1 DEF EnsureContainer
  <2>2. BoxOK(b) /\ b.st # "absent"
    BY <1>0, BoxOps
  <2>3. BoxOK(box')
    BY <1>0, <1>1, <2>2, BoxOps DEF EnsureContainer, StartAttempt
  <2>4. b.id \in Ids /\ b.id # 0
    BY <2>2 DEF BoxOK
  <2>5. IntentOK(intent') /\ intent'.pc \in {"started", "rollback"}
    BY <1>0, <1>1, <2>4 DEF EnsureContainer, IntentOK, IntentPcs
  <2>6. QED BY <2>1, <2>3, <2>5 DEF ConvInv, RemoteInv, accessVars
<1>2. ASSUME NEW healthy \in BOOLEAN, AttachAndProbe(healthy) PROVE ConvInv' /\ RemoteInv'
  <2>1. UNCHANGED <<accessVars, remote, wsStatus, box, rt, debts, rec, drain, listed, served>> /\ intent.pc = "started"
    BY <1>2 DEF AttachAndProbe
  <2>2. attached' \in BOOLEAN /\ (remote /\ attached' => attached)
    BY <1>2 DEF AttachAndProbe, ConvInv
  <2>3. box.port \in PortSet
    BY <1>0 DEF BoxOK
  <2>4. IntentOK(intent') /\ intent'.pc \in {"probed", "rollback"}
    BY <1>0, <1>2, <2>1, <2>3 DEF AttachAndProbe, IntentOK, IntentPcs
  <2>5. QED BY <2>1, <2>2, <2>4 DEF ConvInv, RemoteInv, accessVars
<1>3. ASSUME NEW out \in RouteOutcomes, BringUpSucceeds(out) PROVE ConvInv' /\ RemoteInv'
  <2>1. /\ UNCHANGED <<opening, remote, box, attached, debts, rec, drain>> /\ intent.pc = "probed"
        /\ rt' = RuntimeAfterBringUp(intent.cid) /\ endpoint' = intent.port /\ JobEndsIn("RUNNING")
    BY <1>3 DEF BringUpSucceeds
  <2>2. intent.cid \in Ids \ {0} /\ intent.port \in PortSet
    BY <1>0, <2>1 DEF IntentOK
  <2>3. RtOK(rt') /\ rt'.complete
    BY <2>1, <2>2, RowOps DEF ConvInv
  <2>4. wsStatus' \in Statuses /\ IntentOK(intent') /\ intent'.pc = "idle"
    BY <2>1, JobOps DEF ConvInv, Statuses
  <2>5. listed' \in PortSet /\ served' \in PortSet
    BY <1>3, <2>2, RouteOps DEF BringUpSucceeds, RegisterRoute, ConvInv
  <2>6. QED BY <2>1, <2>2, <2>3, <2>4, <2>5 DEF ConvInv, RemoteInv
<1>4. ASSUME NEW out \in StopOutcomes(intent.cid), NEW again \in BOOLEAN, RollBack(out, again) PROVE ConvInv' /\ RemoteInv'
  <2>1. /\ UNCHANGED <<accessVars, remote, rec, drain, listed, served>> /\ StopEffect(intent.cid, out)
        /\ RollbackRecorded(out, intent.cid) /\ Retried(again)
    BY <1>4 DEF RollBack
  <2>2. BoxOK(box') /\ attached' \in BOOLEAN /\ (attached' => attached) /\ (out = "done" => intent.cid # 0)
    BY <2>1, StopOps DEF ConvInv
  <2>3. intent.cid \in Ids
    BY <1>0 DEF IntentOK
  <2>4. /\ RtOK(rt') /\ rt'.complete = rt.complete /\ DebtsOK(debts')
    <3>1. RtOK(rt) /\ DebtsOK(debts) /\ "bringup_rollback" \in Scopes
      BY DEF ConvInv, Scopes
    <3>2. CASE UNCHANGED <<rt, debts>>
      BY <3>1, <3>2
    <3>3. CASE out = "done" /\ rt' = [rt EXCEPT !.cid = intent.cid] /\ UNCHANGED debts
      BY <3>1, <3>3, <2>2, <2>3, RowOps
    <3>4. CASE UNCHANGED rt /\ EnsureDebt("bringup_rollback")
      BY <3>1, <3>4, RowOps
    <3>5. QED BY <2>1, <3>2, <3>3, <3>4 DEF RollbackRecorded
  <2>5. wsStatus' \in {wsStatus, "ERROR"} /\ wsStatus' \in Statuses /\ IntentOK(intent') /\ intent'.pc \in {"idle", "queued"}
    BY <2>1, JobOps DEF ConvInv
  <2>6. QED BY <2>1, <2>2, <2>4, <2>5 DEF ConvInv, RemoteInv, accessVars
<1>5. QED BY <1>1, <1>2, <1>3, <1>4

\* STOP, the first half of RESTART and UPDATE, and DELETE.
LEMMA StopSteps ==
    ASSUME ConvInv, RemoteInv,
           \/ \E out \in StopOutcomes(intent.cid) :
                 \/ \E again \in BOOLEAN : RestartStops(out, again)
                 \/ StopRuntime(out)
           \/ \E out \in {"done", "incomplete", "raised"} : DeleteRuntime(out)
           \/ \E out \in RouteOutcomes : FinalizeStop(out) \/ FinalizeDelete(out)
           \/ FinalizeStopFailed
    PROVE  ConvInv' /\ RemoteInv'
<1>0. BoxOK(box) /\ IntentOK(intent) /\ intent.cid \in Ids /\ RtOK(rt) /\ DebtsOK(debts)
  BY DEF ConvInv, IntentOK
<1>1. ASSUME NEW out \in StopOutcomes(intent.cid), NEW again \in BOOLEAN, RestartStops(out, again)
      PROVE  ConvInv' /\ RemoteInv'
  <2>1. /\ UNCHANGED <<accessVars, remote, rt, debts, rec, drain, listed, served>> /\ StopEffect(intent.cid, out)
        /\ intent.kind # "STOP"
    BY <1>1 DEF RestartStops, RestartKinds
  <2>2. BoxOK(box') /\ attached' \in BOOLEAN /\ (attached' => attached)
    BY <2>1, StopOps DEF ConvInv
  <2>3. /\ wsStatus' \in {wsStatus, "ERROR"} /\ wsStatus' \in Statuses /\ IntentOK(intent')
        /\ intent'.pc \in {"idle", "queued", "placed"}
    <3>1. CASE out = "done"
      BY <1>0, <1>1, <3>1 DEF RestartStops, IntentOK, IntentPcs, ConvInv
    <3>2. CASE out # "done"
      BY <1>1, <3>2, JobOps DEF RestartStops, ConvInv
    <3>3. QED BY <3>1, <3>2
  <2>4. QED BY <2>1, <2>2, <2>3 DEF ConvInv, RemoteInv, accessVars
<1>2. ASSUME NEW out \in StopOutcomes(intent.cid), StopRuntime(out) PROVE ConvInv' /\ RemoteInv'
  <2>1. /\ UNCHANGED <<accessVars, remote, wsStatus, rt, debts, rec, drain, listed, served>>
        /\ StopEffect(intent.cid, out) /\ intent.kind = "STOP" /\ intent.pc = "stopping"
        /\ intent' = [intent EXCEPT !.pc = IF out # "done" THEN out
                                       ELSE IF attached THEN "detached" ELSE "done"]
    BY <1>2 DEF StopRuntime
  <2>2. /\ BoxOK(box') /\ attached' \in BOOLEAN /\ (attached' => attached)
        /\ out \in {"raised", "done", "incomplete"} /\ (out = "done" => intent.cid # 0)
    BY <2>1, StopOps DEF ConvInv
  <2>3. /\ IntentOK(intent') /\ intent'.pc \in {"raised", "incomplete", "detached", "done"}
        /\ (intent'.pc = "detached" => attached)
    BY <1>0, <2>1, <2>2 DEF IntentOK, IntentPcs
  <2>4. QED BY <2>1, <2>2, <2>3 DEF ConvInv, RemoteInv, accessVars
<1>3. ASSUME NEW out \in {"done", "incomplete", "raised"}, DeleteRuntime(out) PROVE ConvInv' /\ RemoteInv'
  <2>1. UNCHANGED <<accessVars, remote, rt, debts, rec, drain, listed, served>> /\ intent.kind = "DELETE"
    BY <1>3 DEF DeleteRuntime
  <2>2. CASE out = "raised"
    <3>1. wsStatus' = "ERROR" /\ wsStatus' \in Statuses /\ IntentOK(intent') /\ intent'.pc = "idle" /\ UNCHANGED <<box, attached>>
      BY <1>3, <2>2, JobOps DEF DeleteRuntime, ConvInv, JobEndsIn, Statuses
    <3>2. QED BY <2>1, <3>1 DEF ConvInv, RemoteInv, accessVars
  <2>3. CASE out # "raised"
    <3>1. BoxOK(box') /\ ~attached' /\ attached' \in BOOLEAN /\ UNCHANGED wsStatus
      BY <1>0, <1>3, <2>3, BoxOps DEF DeleteRuntime
    <3>2. IntentOK(intent') /\ intent'.pc = "deleted"
      BY <1>0, <1>3, <2>3 DEF DeleteRuntime, IntentOK, IntentPcs
    <3>3. QED BY <2>1, <3>1, <3>2 DEF ConvInv, RemoteInv, accessVars
  <2>4. QED BY <2>2, <2>3
<1>4. ASSUME NEW out \in RouteOutcomes, FinalizeStop(out) PROVE ConvInv' /\ RemoteInv'
  <2>1. /\ UNCHANGED <<accessVars, remote, box, attached, debts, rec, drain>> /\ intent.kind = "STOP"
        /\ intent.pc \in {"done", "detached"} /\ rt' = RuntimeAfterStop(intent.cid, intent.pc = "detached")
        /\ JobEndsIn("STOPPED")
    BY <1>4 DEF FinalizeStop
  <2>2. intent.cid \in Ids \ {0}
    BY <1>0, <2>1 DEF IntentOK
  <2>3. RtOK(rt') /\ (rt'.complete <=> rt.complete /\ ~(intent.pc = "detached"))
    BY <1>0, <2>1, <2>2, RowOps
  <2>4. wsStatus' \in Statuses /\ IntentOK(intent') /\ intent'.pc = "idle"
    BY <2>1, JobOps DEF ConvInv, Statuses
  <2>5. listed' \in PortSet /\ served' \in PortSet
    BY <1>4, Idle, RouteOps DEF FinalizeStop, DeregisterRoute, ConvInv
  <2>6. remote => rt'.complete
    BY <2>1, <2>3 DEF RemoteInv
  <2>7. QED BY <2>1, <2>3, <2>4, <2>5, <2>6 DEF ConvInv, RemoteInv, accessVars
<1>5. ASSUME NEW out \in RouteOutcomes, FinalizeDelete(out) PROVE ConvInv' /\ RemoteInv'
  <2>1. UNCHANGED <<accessVars, remote, box, attached, debts, rec, drain>> /\ JobEndsIn("DELETED") /\ rt' = NoRuntime
    BY <1>5 DEF FinalizeDelete
  <2>2. wsStatus' = "DELETED" /\ wsStatus' \in Statuses /\ IntentOK(intent') /\ intent'.pc = "idle"
    BY <2>1, JobOps DEF ConvInv, JobEndsIn, Statuses
  <2>3. listed' \in PortSet /\ served' \in PortSet
    BY <1>5, Idle, RouteOps DEF FinalizeDelete, DeregisterRoute, ConvInv
  <2>4. RtOK(rt')
    BY <1>0, <2>1, RowOps
  <2>5. QED BY <2>1, <2>2, <2>3, <2>4 DEF ConvInv, RemoteInv, accessVars
<1>6. CASE FinalizeStopFailed
  <2>1. UNCHANGED <<accessVars, remote, box, attached, rt, rec, drain, listed, served>> /\ JobEndsIn("ERROR")
    BY <1>6 DEF FinalizeStopFailed
  <2>2. wsStatus' = "ERROR" /\ wsStatus' \in Statuses /\ IntentOK(intent') /\ intent'.pc = "idle"
    BY <2>1, JobOps DEF ConvInv, JobEndsIn, Statuses
  <2>3. DebtsOK(debts')
    BY <1>0, <1>6, RowOps DEF FinalizeStopFailed, Scopes
  <2>4. QED BY <2>1, <2>2, <2>3 DEF ConvInv, RemoteInv, accessVars
<1>7. QED BY <1>1, <1>2, <1>3, <1>4, <1>5, <1>6

-----------------------------------------------------------------------------
(* Cleanup and reconcile *)

\* One cleanup task, in the drain or in a reconcile.
LEMMA CleanUpOps ==
    ASSUME ConvInv, NEW cid, NEW scope, NEW out \in StopOutcomes(cid), CleanUp(cid, scope, out)
    PROVE  BoxOK(box') /\ attached' \in BOOLEAN /\ (attached' => attached) /\ DebtsOK(debts')
<1>1. BoxOK(box') /\ attached' \in BOOLEAN /\ (attached' => attached)
  BY StopOps DEF CleanUp, ConvInv
<1>2. DebtsOK(debts')
  BY RowOps DEF CleanUp, ConvInv
<1>3. QED BY <1>1, <1>2

\* The tasks that a process takes on.
LEMMA PendingScopes == PendingDebts \in ScopeSets
BY DEF PendingDebts, ScopeSets

\* The drain.
LEMMA DrainSteps == ConvInv /\ RemoteInv /\ DrainNext => ConvInv' /\ RemoteInv'
<1> SUFFICES ASSUME ConvInv, RemoteInv, DrainNext PROVE ConvInv' /\ RemoteInv'
  OBVIOUS
<1>0. DrainOK(drain) /\ RtOK(rt)
  BY DEF ConvInv
<1>1. CASE DrainLoads
  <2>1. UNCHANGED <<accessVars, remote, wsStatus, box, attached, rt, debts, intent, rec, listed, served>>
    BY <1>1 DEF DrainLoads
  <2>2. DrainOK(drain')
    <3>1. rt.cid \in Ids /\ rt.cid # 0 /\ PendingDebts # {}
      BY <1>0, <1>1 DEF DrainLoads, RtOK
    <3>2. QED BY <1>1, <3>1, PendingScopes DEF DrainLoads, DrainOK
  <2>3. QED BY <2>1, <2>2 DEF ConvInv, RemoteInv, accessVars
<1>2. ASSUME NEW scope \in drain.todo, NEW out \in StopOutcomes(drain.cid), DrainTask(scope, out)
      PROVE  ConvInv' /\ RemoteInv'
  <2>1. UNCHANGED <<accessVars, remote, wsStatus, rt, intent, rec, listed, served>>
    BY <1>2 DEF DrainTask
  <2>2. BoxOK(box') /\ attached' \in BOOLEAN /\ (attached' => attached) /\ DebtsOK(debts')
    BY <1>2, CleanUpOps DEF DrainTask
  <2>3. DrainOK(drain')
    <3>1. CASE drain.todo = {scope}
      BY <1>2, <3>1, Idle DEF DrainTask
    <3>2. CASE drain.todo # {scope}
      <4>1. drain.todo \ {scope} \in ScopeSets /\ drain.todo \ {scope} # {}
        BY <1>0, <1>2, <3>2 DEF DrainOK, ScopeSets
      <4>2. drain' = [drain EXCEPT !.todo = drain.todo \ {scope}]
        BY <1>2, <3>2 DEF DrainTask
      <4>3. QED BY <1>0, <4>1, <4>2 DEF DrainOK
    <3>3. QED BY <3>1, <3>2
  <2>4. QED BY <2>1, <2>2, <2>3 DEF ConvInv, RemoteInv, accessVars
<1>3. CASE DrainDies
  BY <1>3, Idle DEF DrainDies, ConvInv, RemoteInv, accessVars
<1>4. QED BY <1>1, <1>2, <1>3 DEF DrainNext

\* A reconcile that only changes itself and, at its end, the status.
LEMMA ReconcileFrame ==
    ASSUME ConvInv, RemoteInv, UNCHANGED <<remote, box, attached, rt, debts, intent, drain>>,
           RecOK(rec'), wsStatus' \in {wsStatus, "ERROR"},
           endpoint' \in PortSet, opening' \in PortSet, listed' \in PortSet, served' \in PortSet
    PROVE  ConvInv' /\ RemoteInv'
<1>1. wsStatus' \in Statuses
  BY DEF ConvInv, Statuses
<1>2. QED BY <1>1 DEF ConvInv, RemoteInv

\* A reconcile up to what it does for the status it has seen.
LEMMA ReconcileSteps ==
    ASSUME ConvInv, RemoteInv,
           \/ LoopEnqueues \/ OperatorEnqueues \/ ReconcileNotPlaced \/ ReconcileLoads
           \/ \E scope \in rec.todo, out \in StopOutcomes(rec.cid) : ReconcileTask(scope, out)
           \/ ReconcileBusy \/ ReconcileRunningFails \/ ReconcileProbes \/ ReconcileDies
           \/ \E out \in RouteOutcomes : ReconcileRoute(out)
    PROVE  ConvInv' /\ RemoteInv'
<1>0. RecOK(rec) /\ RtOK(rt) /\ wsStatus \in Statuses
  BY DEF ConvInv
<1>w. endpoint \in PortSet /\ opening \in PortSet /\ listed \in PortSet /\ served \in PortSet
  BY DEF ConvInv
<1>q. RecOK([rec EXCEPT !.pc = "queued"])
  BY <1>0 DEF RecOK, RecPcs
<1>1. CASE LoopEnqueues \/ OperatorEnqueues
  BY <1>1, <1>q, <1>w, ReconcileFrame DEF LoopEnqueues, OperatorEnqueues, accessVars
<1>2. CASE ReconcileNotPlaced
  <2>1. RecOK(rec') /\ wsStatus' \in {wsStatus, "ERROR"}
    BY <1>0, <1>2, ReconcileOps DEF ReconcileNotPlaced
  <2>2. QED BY <1>2, <2>1, <1>w, ReconcileFrame DEF ReconcileNotPlaced, accessVars
<1>3. CASE ReconcileLoads
  <2>1. rt.cid \in Ids /\ rt.cid # 0 /\ wsStatus \in RecSeen
    BY <1>0, <1>3 DEF ReconcileLoads, RtOK, RecSeen
  <2>2. RecOK(rec')
    BY <1>3, <2>1, Idle, PendingScopes DEF ReconcileLoads, RecOK, RecPcs
  <2>3. QED BY <1>3, <2>2, <1>w, ReconcileFrame DEF ReconcileLoads, accessVars
<1>4. ASSUME NEW scope \in rec.todo, NEW out \in StopOutcomes(rec.cid), ReconcileTask(scope, out)
      PROVE  ConvInv' /\ RemoteInv'
  <2>1. UNCHANGED <<accessVars, remote, wsStatus, rt, intent, drain, listed, served>> /\ rec.pc = "tasks"
    BY <1>4 DEF ReconcileTask
  <2>2. BoxOK(box') /\ attached' \in BOOLEAN /\ (attached' => attached) /\ DebtsOK(debts')
    BY <1>4, CleanUpOps DEF ReconcileTask
  <2>3. RecOK(rec')
    <3> DEFINE left == rec.todo \ {scope}
               next == IF rec.todo = {scope} THEN "act" ELSE "tasks"
    <3>1. left \in ScopeSets /\ next \in {"act", "tasks"} /\ next \in RecPcs
      BY <1>0 DEF RecOK, ScopeSets, RecPcs
    <3>2. rec' = [rec EXCEPT !.todo = left, !.pc = next]
      BY <1>4, <2>1 DEF ReconcileTask
    <3> HIDE DEF left, next
    <3>3. rec.cid # 0
      BY <1>0, <2>1 DEF RecOK
    <3>4. QED BY <1>0, <3>1, <3>2, <3>3 DEF RecOK
  <2>4. QED BY <2>1, <2>2, <2>3 DEF ConvInv, RemoteInv, accessVars
<1>5. CASE ReconcileBusy \/ ReconcileRunningFails
  <2>1. RecOK(rec') /\ wsStatus' \in {wsStatus, "ERROR"}
    BY <1>0, <1>5, ReconcileOps DEF ReconcileBusy, ReconcileRunningFails
  <2>2. QED BY <1>5, <2>1, <1>w, ReconcileFrame DEF ReconcileBusy, ReconcileRunningFails, accessVars
<1>6. CASE ReconcileProbes
  <2>1. box.port \in PortSet
    BY DEF ConvInv, BoxOK
  <2>2. RecOK(rec')
    BY <1>0, <1>6, <2>1 DEF ReconcileProbes, RecOK, RecPcs
  <2>3. QED BY <1>6, <2>2, <1>w, ReconcileFrame DEF ReconcileProbes, accessVars
<1>7. CASE ReconcileDies
  BY <1>7, <1>w, Idle, ReconcileFrame DEF ReconcileDies, accessVars
<1>8. ASSUME NEW out \in RouteOutcomes, ReconcileRoute(out) PROVE ConvInv' /\ RemoteInv'
  <2>1. RecOK(rec') /\ wsStatus' \in {wsStatus, "ERROR"}
    BY <1>0, <1>8, ReconcileOps DEF ReconcileRoute, RemoveRoute
  <2>2. listed' \in PortSet /\ served' \in PortSet
    BY <1>8, <1>w, Idle, RouteOps DEF ReconcileRoute, RemoveRoute
  <2>3. QED BY <1>8, <2>1, <2>2, <1>w, ReconcileFrame DEF ReconcileRoute, accessVars
<1>9. QED BY <1>1, <1>2, <1>3, <1>4, <1>5, <1>6, <1>7, <1>8

\* The stops of a reconcile, and the row that takes over what was observed.
LEMMA ReconcileActs ==
    ASSUME ConvInv, RemoteInv,
           \/ \E out \in StopOutcomes(rec.cid) : ReconcileErrorStops(out) \/ ReconcileStopped(out)
           \/ \E out \in RouteOutcomes : ReconcileRunning(out)
    PROVE  ConvInv' /\ RemoteInv'
<1>0. RecOK(rec) /\ RtOK(rt) /\ DebtsOK(debts) /\ wsStatus \in Statuses /\ BoxOK(box) /\ attached \in BOOLEAN
  BY DEF ConvInv
<1>w. endpoint \in PortSet /\ opening \in PortSet /\ listed \in PortSet /\ served \in PortSet
  BY DEF ConvInv
<1>r. rec.pc = "act" => RecOK([rec EXCEPT !.pc = "route"])
  BY <1>0 DEF RecOK, RecPcs
<1>c. rec.pc \in {"act", "sync"} => rec.cid \in Ids \ {0} /\ rec.port \in PortSet
  BY <1>0 DEF RecOK
<1>s. ASSUME rec.pc = "act", rt' = RuntimeAfterStop(rec.cid, attached)
      PROVE  RtOK(rt') /\ (remote /\ rt.complete => rt'.complete)
  <2>1. RtOK(rt') /\ (rt'.complete <=> rt.complete /\ ~attached)
    BY <1>0, <1>c, <1>s, RowOps
  <2>2. QED BY <2>1 DEF RemoteInv
<1>1. ASSUME NEW out \in StopOutcomes(rec.cid), ReconcileErrorStops(out) PROVE ConvInv' /\ RemoteInv'
  <2>1. /\ UNCHANGED <<accessVars, remote, debts, intent, drain, listed, served>> /\ rec.pc = "act"
        /\ StopEffect(rec.cid, out)
    BY <1>1 DEF ReconcileErrorStops
  <2>2. BoxOK(box') /\ attached' \in BOOLEAN /\ (attached' => attached)
    BY <1>0, <2>1, StopOps
  <2>3. RtOK(rt') /\ (remote /\ rt.complete => rt'.complete)
    BY <1>0, <1>1, <1>s, <2>1 DEF ReconcileErrorStops
  <2>4. RecOK(rec') /\ wsStatus' \in {wsStatus, "ERROR"} /\ wsStatus' \in Statuses
    BY <1>0, <1>1, <1>r, <2>1, ReconcileOps DEF ReconcileErrorStops
  <2>5. QED BY <2>1, <2>2, <2>3, <2>4 DEF ConvInv, RemoteInv, accessVars
<1>2. ASSUME NEW out \in StopOutcomes(rec.cid), ReconcileStopped(out) PROVE ConvInv' /\ RemoteInv'
  <2>1. UNCHANGED <<accessVars, remote, intent, drain, listed, served>> /\ rec.pc = "act"
    BY <1>2 DEF ReconcileStopped
  <2>2. CASE ~(rec.seen = "STOPPED" /\ Healthy(rec.cid))
    <3>1. RecOK(rec') /\ UNCHANGED <<wsStatus, box, attached, rt, debts>>
      BY <1>2, <1>r, <2>1, <2>2 DEF ReconcileStopped
    <3>2. QED BY <2>1, <3>1 DEF ConvInv, RemoteInv, accessVars
  <2>3. CASE rec.seen = "STOPPED" /\ Healthy(rec.cid)
    <3>1. StopEffect(rec.cid, out)
      BY <1>2, <2>3 DEF ReconcileStopped
    <3>2. /\ BoxOK(box') /\ attached' \in BOOLEAN /\ (attached' => attached)
          /\ out \in {"raised", "done", "incomplete"}
      BY <1>0, <3>1, StopOps
    <3>3. CASE out = "done"
      <4>1. rt' = RuntimeAfterStop(rec.cid, attached) /\ rec' = [rec EXCEPT !.pc = "route"] /\ UNCHANGED <<wsStatus, debts>>
        BY <1>2, <2>3, <3>3 DEF ReconcileStopped
      <4>2. RtOK(rt') /\ (remote /\ rt.complete => rt'.complete) /\ RecOK(rec')
        BY <4>1, <1>r, <1>s, <2>1
      <4>3. QED BY <2>1, <3>2, <4>1, <4>2 DEF ConvInv, RemoteInv, accessVars
    <3>4. CASE out = "incomplete"
      <4>1. EnsureDebt("stop_incomplete") /\ ReconcileEndsIn("ERROR") /\ UNCHANGED rt
        BY <1>2, <2>3, <3>4 DEF ReconcileStopped
      <4>2. DebtsOK(debts')
        BY <1>0, <4>1, RowOps DEF Scopes
      <4>3. RecOK(rec') /\ wsStatus' \in {wsStatus, "ERROR"} /\ wsStatus' \in Statuses
        BY <1>0, <4>1, ReconcileOps
      <4>4. QED BY <2>1, <3>2, <4>1, <4>2, <4>3 DEF ConvInv, RemoteInv, accessVars
    <3>5. CASE out = "raised"
      <4>1. ReconcileFails /\ UNCHANGED <<rt, debts>>
        BY <1>2, <2>3, <3>5 DEF ReconcileStopped
      <4>2. RecOK(rec') /\ wsStatus' \in {wsStatus, "ERROR"} /\ wsStatus' \in Statuses
        BY <1>0, <4>1, ReconcileOps
      <4>3. QED BY <2>1, <3>2, <4>1, <4>2 DEF ConvInv, RemoteInv, accessVars
    <3>6. QED BY <3>2, <3>3, <3>4, <3>5
  <2>4. QED BY <2>2, <2>3
<1>3. ASSUME NEW out \in RouteOutcomes, ReconcileRunning(out) PROVE ConvInv' /\ RemoteInv'
  <2>1. /\ UNCHANGED <<opening, remote, box, attached, debts, intent, drain>> /\ rec.pc = "sync"
        /\ rt' = RuntimeAfterBringUp(rec.cid) /\ endpoint' = rec.port
    BY <1>3 DEF ReconcileRunning
  <2>2. RtOK(rt') /\ rt'.complete
    BY <1>0, <1>c, <2>1, RowOps
  <2>3. listed' \in PortSet /\ served' \in PortSet
    BY <1>3, <1>c, <1>w, <2>1, RouteOps DEF ReconcileRunning
  <2>4. RecOK(rec') /\ wsStatus' \in {wsStatus, "ERROR"} /\ wsStatus' \in Statuses
    BY <1>0, <1>3, ReconcileOps DEF ReconcileRunning
  <2>5. QED BY <2>1, <2>2, <2>3, <2>4, <1>c DEF ConvInv, RemoteInv
<1>4. QED BY <1>1, <1>2, <1>3

-----------------------------------------------------------------------------
(* Together *)

\* Both invariants are inductive together.
LEMMA ConvStep == ConvInv /\ RemoteInv /\ [ConvNext]_convVars => ConvInv' /\ RemoteInv'
<1> SUFFICES ASSUME ConvInv, RemoteInv, [ConvNext]_convVars PROVE ConvInv' /\ RemoteInv'
  OBVIOUS
<1>1. CASE IntentNext
  BY <1>1, QueuedSteps, BringUpSteps, StopSteps DEF IntentNext
<1>2. CASE DrainNext
  BY <1>2, DrainSteps
<1>3. CASE ReconcileNext
  BY <1>3, ReconcileSteps, ReconcileActs DEF ReconcileNext
<1>4. CASE BoxExits
  <2>1. BoxOK(box')
    BY <1>4, Idle DEF BoxExits, ConvInv, BoxOK, BoxStates
  <2>2. QED BY <1>4, <2>1 DEF BoxExits, ConvInv, RemoteInv, accessVars
<1>5. CASE RouteAdminRestarts \/ OtherRouteSaved
  BY <1>5 DEF RouteAdminRestarts, OtherRouteSaved, ConvInv, RemoteInv, accessVars
<1>6. CASE OpenReads
  BY <1>6 DEF OpenReads, ConvInv, RemoteInv
<1>7. ASSUME NEW out \in RouteOutcomes, NEW seen \in BOOLEAN, OpenRepairs(out, seen) PROVE ConvInv' /\ RemoteInv'
  <2>1. UNCHANGED <<endpoint, remote, wsStatus, box, attached, rt, debts, intent, drain>> /\ opening' = NoPort
    BY <1>7 DEF OpenRepairs
  <2>2. listed' \in PortSet /\ served' \in PortSet
    BY <1>7, RouteOps DEF OpenRepairs, ConvInv
  <2>3. RecOK(rec')
    <3>1. RecOK(rec) /\ RecOK([rec EXCEPT !.pc = "queued"])
      BY DEF ConvInv, RecOK, RecPcs
    <3>2. QED BY <1>7, <3>1 DEF OpenRepairs, DriftReported
  <2>4. QED BY <2>1, <2>2, <2>3, Idle DEF ConvInv, RemoteInv
<1>8. CASE UNCHANGED convVars
  BY <1>8 DEF convVars, accessVars, ConvInv, RemoteInv
<1>9. QED BY <1>1, <1>2, <1>3, <1>4, <1>5, <1>6, <1>7, <1>8 DEF ConvNext

\* They hold at first.
LEMMA ConvStart == ConvInit => ConvInv /\ RemoteInv
<1> SUFFICES ASSUME ConvInit PROVE ConvInv /\ RemoteInv
  OBVIOUS
<1>1. IntentOK(intent) /\ intent.pc = "queued"
  <2>1. "START" \in IntentKinds /\ IntentOK(NoIntent) /\ wsStatus \in Statuses
    BY Idle DEF IntentKinds, ConvInit, Statuses
  <2>2. QED BY <2>1 DEF ConvInit, NoIntent, IntentOK, IntentPcs
<1>2. RtOK(rt) /\ DebtsOK(debts)
  BY ConvergenceAssumption DEF ConvInit, NoRuntime, RtOK, DebtsOK, Ids
<1>3. remote \in BOOLEAN /\ wsStatus \in Statuses /\ wsStatus \notin {"RUNNING", "STOPPED"}
  BY ConvergenceAssumption DEF ConvInit, Statuses
<1>4. QED BY <1>1, <1>2, <1>3, Idle DEF ConvInit, ConvInv, RemoteInv

\* Rows and processes keep their kinds, and every process that stops, cleans up or
\* repairs a container was given its id.
THEOREM ConvTypingAlways == ConvSpec => []ConvTypeOK
<1>1. ConvInv => ConvTypeOK
  BY DEF ConvInv, ConvTypeOK, BoxOK, RtOK, DebtsOK, RecOK, DrainOK, Statuses, Ids, PortSet, BoxStates
<1>2. QED BY <1>1, ConvStart, ConvStep, PTL DEF ConvSpec

\* On a remote node a running or stopped workspace keeps its placement, for any
\* containers, ports and requests.
THEOREM RemotePlacementKeptAlways == ConvSpec => []RemotePlacementKept
<1>1. RemoteInv => RemotePlacementKept
  BY DEF RemoteInv, RemotePlacementKept
<1>2. QED BY <1>1, ConvStart, ConvStep, PTL DEF ConvSpec

-----------------------------------------------------------------------------
(* The event stream                                                          *)

StreamTyping ==
    /\ lastId \in Nat
    /\ flushed \in [Writers -> SUBSET (1 .. lastId)]
    /\ rows \subseteq 1 .. lastId
    /\ cursor \in Nat /\ page \in Seq(Nat) /\ shown \in Seq(Nat)

\* The generator and the client agree on what was sent last, and the rows fetched
\* and not yet sent lie above it, in order.
PageAhead ==
    /\ cursor = ClientCursor
    /\ Ascending(page)
    /\ \A k \in DOMAIN page : cursor < page[k]

\* Between what was sent and the end of the page there is no other row, except those
\* committed since the page was fetched.
PageWhole ==
    page # <<>> => \A i \in rows : cursor < i /\ i < Last(page) => i \in ToSet(page) \cup overtaken

EventInv == StreamTyping /\ PageAhead /\ PageWhole /\ ShownInOrder

\* The last of an ascending sequence is its greatest.
LEMMA LastIsGreatest ==
    ASSUME NEW s \in Seq(Nat), Ascending(s), s # <<>>
    PROVE  /\ DOMAIN s = 1 .. Len(s) /\ Len(s) \in Nat \ {0} /\ Last(s) \in Nat /\ Last(s) \in ToSet(s)
           /\ \A k \in DOMAIN s : s[k] \in Nat /\ s[k] <= Last(s)
<1>1. DOMAIN s = 1 .. Len(s) /\ Len(s) \in Nat \ {0} /\ \A k \in DOMAIN s : s[k] \in Nat
  BY EmptySeq, LenProperties, ElementOfSeq
<1>2. Len(s) \in DOMAIN s
  BY <1>1
<1>3. \A k \in DOMAIN s : k = Len(s) \/ k < Len(s)
  BY <1>1
<1> QED
  BY <1>1, <1>2, <1>3 DEF Last, ToSet, Ascending

\* Sending the head of the page: the client's sequence grows by it, the rest stays.
LEMMA SentHead ==
    ASSUME NEW s \in Seq(Nat), Ascending(s), s # <<>>
    PROVE  /\ Head(s) \in Nat /\ Tail(s) \in Seq(Nat) /\ Ascending(Tail(s))
           /\ \A k \in DOMAIN Tail(s) : Head(s) < Tail(s)[k]
           /\ ToSet(s) = {Head(s)} \cup ToSet(Tail(s))
           /\ \A i \in ToSet(s) : Head(s) <= i
           /\ Head(s) <= Last(s)
           /\ Tail(s) # <<>> => Last(Tail(s)) = Last(s)
<1>1. /\ DOMAIN s = 1 .. Len(s) /\ Len(s) \in Nat \ {0}
      /\ \A k \in DOMAIN s : s[k] \in Nat /\ s[k] <= Last(s)
  BY LastIsGreatest
<1>2. /\ Head(s) = s[1] /\ Head(s) \in Nat /\ Tail(s) \in Seq(Nat) /\ Len(Tail(s)) = Len(s) - 1
      /\ \A k \in 1 .. Len(Tail(s)) : Tail(s)[k] = s[k + 1]
  BY HeadTailProperties
<1>3. DOMAIN Tail(s) = 1 .. (Len(s) - 1)
  BY <1>2, LenProperties
<1>4. \A k \in DOMAIN Tail(s) : k + 1 \in DOMAIN s /\ Tail(s)[k] = s[k + 1]
  BY <1>1, <1>2, <1>3
<1>5. Ascending(Tail(s))
  <2> SUFFICES ASSUME NEW i \in DOMAIN Tail(s), NEW j \in DOMAIN Tail(s), i < j
               PROVE  Tail(s)[i] < Tail(s)[j]
    BY DEF Ascending
  <2>1. i + 1 < j + 1
    BY <1>1, <1>3
  <2> QED
    BY <1>4, <2>1 DEF Ascending
<1>6. \A k \in DOMAIN s : k = 1 \/ (1 < k /\ s[1] < s[k])
  <2> SUFFICES ASSUME NEW k \in DOMAIN s PROVE k = 1 \/ (1 < k /\ s[1] < s[k])
    OBVIOUS
  <2>1. (k = 1 \/ 1 < k) /\ 1 \in DOMAIN s
    BY <1>1
  <2> QED
    BY <2>1 DEF Ascending
<1>7. \A k \in DOMAIN Tail(s) : Head(s) < Tail(s)[k]
  <2> SUFFICES ASSUME NEW k \in DOMAIN Tail(s) PROVE Head(s) < Tail(s)[k]
    OBVIOUS
  <2>1. k + 1 # 1
    BY <1>1, <1>3
  <2> QED
    BY <1>2, <1>4, <1>6, <2>1
<1>8. ToSet(s) = {Head(s)} \cup ToSet(Tail(s))
  <2>1. \A k \in DOMAIN s : k = 1 \/ (k - 1 \in DOMAIN Tail(s) /\ s[k] = Tail(s)[k - 1])
    <3> SUFFICES ASSUME NEW k \in DOMAIN s, k # 1 PROVE k - 1 \in DOMAIN Tail(s) /\ s[k] = Tail(s)[k - 1]
      OBVIOUS
    <3>1. k - 1 \in 1 .. (Len(s) - 1) /\ (k - 1) + 1 = k
      BY <1>1
    <3> QED
      BY <1>3, <1>4, <3>1
  <2>2. 1 \in DOMAIN s
    BY <1>1
  <2>3. ASSUME NEW i \in ToSet(s) PROVE i \in {Head(s)} \cup ToSet(Tail(s))
    <3>1. PICK k \in DOMAIN s : i = s[k]
      BY <2>3 DEF ToSet
    <3>2. CASE k = 1
      BY <1>2, <3>1, <3>2
    <3>3. CASE k # 1
      <4>1. k - 1 \in DOMAIN Tail(s) /\ i = Tail(s)[k - 1]
        BY <2>1, <3>1, <3>3
      <4> QED
        BY <4>1 DEF ToSet
    <3> QED
      BY <3>2, <3>3
  <2>4. ASSUME NEW i \in {Head(s)} \cup ToSet(Tail(s)) PROVE i \in ToSet(s)
    <3>1. CASE i = Head(s)
      BY <1>2, <2>2, <3>1 DEF ToSet
    <3>2. CASE i \in ToSet(Tail(s))
      <4>1. PICK k \in DOMAIN Tail(s) : i = Tail(s)[k]
        BY <3>2 DEF ToSet
      <4>2. k + 1 \in DOMAIN s /\ i = s[k + 1]
        BY <1>4, <4>1
      <4> QED
        BY <4>2 DEF ToSet
    <3> QED
      BY <2>4, <3>1, <3>2
  <2> QED
    BY <2>3, <2>4
<1>9. \A i \in ToSet(s) : Head(s) <= i
  <2> SUFFICES ASSUME NEW k \in DOMAIN s PROVE Head(s) <= s[k]
    BY DEF ToSet
  <2>1. s[1] \in Nat /\ s[k] \in Nat
    BY <1>1
  <2> QED
    BY <1>2, <1>6, <2>1
<1>10. Head(s) <= Last(s)
  BY <1>1, <1>2
<1>11. ASSUME Tail(s) # <<>> PROVE Last(Tail(s)) = Last(s)
  <2>1. Len(Tail(s)) \in Nat \ {0}
    BY <1>2, <1>11, EmptySeq
  <2>2. Len(s) - 1 \in 1 .. Len(Tail(s)) /\ (Len(s) - 1) + 1 = Len(s)
    BY <1>1, <1>2, <2>1
  <2> QED
    BY <1>2, <2>2 DEF Last
<1> QED
  BY <1>2, <1>5, <1>7, <1>8, <1>9, <1>10, <1>11

LEMMA AppendGreater ==
    ASSUME NEW s \in Seq(Nat), Ascending(s), NEW e \in Nat, \A k \in DOMAIN s : s[k] < e
    PROVE  /\ Append(s, e) \in Seq(Nat) /\ Append(s, e) # <<>> /\ Ascending(Append(s, e))
           /\ Last(Append(s, e)) = e /\ ToSet(Append(s, e)) = ToSet(s) \cup {e}
<1> DEFINE t == Append(s, e)
<1>1. /\ t \in Seq(Nat) /\ t # <<>> /\ Len(t) = Len(s) + 1
      /\ (\A k \in 1 .. Len(s) : t[k] = s[k]) /\ t[Len(s) + 1] = e
  BY AppendProperties
<1>2. DOMAIN s = 1 .. Len(s) /\ DOMAIN t = 1 .. (Len(s) + 1) /\ Len(s) \in Nat
  BY <1>1, LenProperties
<1> HIDE DEF t
<1>3. \A k \in DOMAIN t : IF k = Len(s) + 1 THEN t[k] = e ELSE k \in DOMAIN s /\ t[k] = s[k]
  BY <1>1, <1>2
<1>4. Ascending(t)
  <2> SUFFICES ASSUME NEW i \in DOMAIN t, NEW j \in DOMAIN t, i < j PROVE t[i] < t[j]
    BY DEF Ascending
  <2>1. i # Len(s) + 1
    BY <1>2
  <2> QED
    BY <1>3, <2>1 DEF Ascending
<1>5. ToSet(t) = ToSet(s) \cup {e}
  <2>1. \A k \in DOMAIN s : k \in DOMAIN t /\ t[k] = s[k]
    BY <1>1, <1>2
  <2>2. Len(s) + 1 \in DOMAIN t
    BY <1>2
  <2> QED
    BY <1>1, <1>3, <2>1, <2>2 DEF ToSet
<1> QED
  BY <1>1, <1>4, <1>5 DEF Last, t

\* Nothing that was shown lies above the client's cursor.
LEMMA ShownBelowCursor ==
    ASSUME EventInv
    PROVE  /\ \A k \in DOMAIN shown : shown[k] \in Nat /\ shown[k] <= cursor
           /\ cursor # 0 => cursor \in ToSet(shown)
<1>1. CASE shown = <<>>
  <2>1. DOMAIN shown = {}
    BY <1>1
  <2> QED
    BY <1>1, <2>1 DEF EventInv, PageAhead, ClientCursor
<1>2. CASE shown # <<>>
  BY <1>2, LastIsGreatest DEF EventInv, StreamTyping, PageAhead, ShownInOrder, ClientCursor
<1> QED
  BY <1>1, <1>2

LEMMA EventInitInv == EventInit => EventInv
<1> SUFFICES ASSUME EventInit PROVE EventInv
  OBVIOUS
<1>1. <<>> \in Seq(Nat) /\ Ascending(<<>>) /\ DOMAIN <<>> = {}
  BY EmptySeq DEF Ascending
<1> QED
  BY <1>1 DEF EventInit, EventInv, StreamTyping, PageAhead, PageWhole, ShownInOrder, ClientCursor

LEMMA EventFetch == EventInv /\ Fetch => EventInv'
<1> SUFFICES ASSUME EventInv, Fetch PROVE EventInv'
  OBVIOUS
<1>1. page' \in Pages(cursor) /\ UNCHANGED <<lastId, flushed, rows, cursor, shown, overtaken>>
  BY DEF Fetch
<1>2. rows \subseteq Nat /\ cursor \in Nat
  BY DEF EventInv, StreamTyping
<1>3. PICK n \in 0 .. PageLimit : page' \in [1 .. n -> Above(cursor)]
  BY <1>1 DEF Pages, SeqOf
<1>4. n \in Nat /\ Above(cursor) \subseteq Nat
  <2>1. PageLimit \in Nat
    BY EventStreamAssumption
  <2>2. Above(cursor) \subseteq Nat
    BY <1>2 DEF Above
  <2> QED
    BY <1>3, <2>1, <2>2
<1>5. page' \in Seq(Nat) /\ DOMAIN page' = 1 .. n /\ \A k \in DOMAIN page' : page'[k] \in Above(cursor)
  <2>1. page' \in [1 .. n -> Nat]
    BY <1>3, <1>4
  <2> QED
    BY <1>3, <1>4, <2>1, SeqDef
<1>6. Ascending(page)'
  BY <1>1 DEF Pages, Ascending
<1>7. PageAhead'
  BY <1>1, <1>5, <1>6 DEF EventInv, PageAhead, ClientCursor, Above
<1>8. PageWhole'
  <2> SUFFICES ASSUME page' # <<>>, NEW i \in rows, cursor < i, i < Last(page')
               PROVE  i \in ToSet(page')
    BY <1>1 DEF PageWhole
  <2>1. Last(page') \in ToSet(page')  /\ Last(page') \in Nat
    BY <1>5, <1>6, LastIsGreatest DEF Ascending
  <2>2. i \in Above(cursor) /\ i \in Nat
    BY <1>2 DEF Above
  <2>3. ASSUME i \notin ToSet(page') PROVE Last(page') < i
    BY <1>1, <2>1, <2>2, <2>3 DEF Pages
  <2> QED
    BY <2>1, <2>2, <2>3
<1> QED
  BY <1>1, <1>5, <1>7, <1>8 DEF EventInv, StreamTyping, ShownInOrder, ClientCursor, Ascending

LEMMA EventSend == EventInv /\ Send => EventInv'
<1> SUFFICES ASSUME EventInv, Send PROVE EventInv'
  OBVIOUS
<1>1. CASE page = <<>>
  BY <1>1 DEF Send, EventInv, StreamTyping, PageAhead, PageWhole, ShownInOrder, ClientCursor, Ascending
<1>2. CASE page # <<>>
  <2> DEFINE h == Head(page)  t == Tail(page)
  <2>1. cursor \in Nat /\ rows \subseteq Nat /\ (\A i \in rows : i # 0) /\ page \in Seq(Nat) /\ shown \in Seq(Nat)
    BY DEF EventInv, StreamTyping
  <2>2. /\ cursor' = CursorAfter(h) /\ shown' = Append(shown, h) /\ page' = t
        /\ UNCHANGED <<lastId, flushed, rows, overtaken>>
    BY <1>2 DEF Send
  <2>3. /\ h \in Nat /\ t \in Seq(Nat) /\ Ascending(t) /\ \A k \in DOMAIN t : h < t[k]
        /\ ToSet(page) = {h} \cup ToSet(t) /\ (\A i \in ToSet(page) : h <= i) /\ h <= Last(page)
        /\ t # <<>> => Last(t) = Last(page)
    BY <1>2, <2>1, SentHead DEF EventInv, PageAhead
  <2>4. cursor < h /\ Last(page) \in Nat
    <3>1. 1 \in DOMAIN page /\ h = page[1] /\ Last(page) \in Nat
      BY <1>2, <2>1, LastIsGreatest DEF EventInv, PageAhead
    <3> QED
      BY <3>1 DEF EventInv, PageAhead
  <2> HIDE DEF h, t
  <2>5. cursor' = h
    BY <2>2, <2>4 DEF CursorAfter
  <2>6. /\ \A k \in DOMAIN shown : shown[k] \in Nat /\ shown[k] <= cursor
        /\ cursor # 0 => cursor \in ToSet(shown)
    BY ShownBelowCursor
  <2>7. \A k \in DOMAIN shown : shown[k] < h
    BY <2>1, <2>3, <2>4, <2>6
  <2>8. /\ shown' \in Seq(Nat) /\ shown' # <<>> /\ Ascending(shown') /\ Last(shown') = h
        /\ ToSet(shown') = ToSet(shown) \cup {h}
    BY <2>1, <2>2, <2>3, <2>7, AppendGreater DEF EventInv, ShownInOrder
  <2>9. ClientCursor' = h
    BY <2>8 DEF ClientCursor
  <2>10. StreamTyping'
    BY <2>2, <2>3, <2>5, <2>8 DEF EventInv, StreamTyping
  <2>11. PageAhead'
    BY <2>2, <2>3, <2>5, <2>9 DEF PageAhead, Ascending
  <2>12. PageWhole'
    <3> SUFFICES ASSUME t # <<>>, NEW i \in rows, h < i, i < Last(t) PROVE i \in ToSet(t) \cup overtaken
      BY <2>2, <2>5 DEF PageWhole
    <3>1. cursor < i /\ i < Last(page) /\ i # h
      BY <2>1, <2>3, <2>4
    <3>2. i \in ToSet(page) \cup overtaken
      BY <1>2, <3>1 DEF EventInv, PageWhole
    <3> QED
      BY <2>3, <3>1, <3>2
  <2>13. ASSUME NEW i \in rows, i < h PROVE i \in ToSet(shown) \cup overtaken
    <3>1. i \in Nat /\ i # 0
      BY <2>1
    <3>2. CASE i < cursor
      BY <3>2 DEF EventInv, ShownInOrder, PageAhead
    <3>3. CASE i = cursor
      BY <2>6, <3>1, <3>3
    <3>4. CASE cursor < i
      <4>1. i < Last(page)
        BY <2>3, <2>4, <2>13, <3>1
      <4>2. i \in ToSet(page) \cup overtaken
        BY <1>2, <3>4, <4>1 DEF EventInv, PageWhole
      <4>3. i \notin ToSet(page)
        BY <2>3, <2>13, <3>1
      <4> QED
        BY <4>2, <4>3
    <3> QED
      BY <2>1, <3>1, <3>2, <3>3, <3>4
  <2>14. ShownInOrder'
    BY <2>2, <2>8, <2>9, <2>13 DEF ShownInOrder, Ascending
  <2> QED
    BY <2>10, <2>11, <2>12, <2>14 DEF EventInv
<1> QED
  BY <1>1, <1>2

\* A commit below what the connection has fetched is remembered as overtaken.
LEMMA EventCommit ==
    ASSUME EventInv, NEW w \in Writers, EventsCommitted(w)
    PROVE  EventInv'
<1>1. /\ rows' = rows \cup flushed[w] /\ overtaken' = overtaken \cup {i \in flushed[w] : i < Fetched}
      /\ flushed' = [flushed EXCEPT ![w] = {}] /\ UNCHANGED <<lastId, cursor, page, shown>>
  BY DEF EventsCommitted
<1>2. cursor \in Nat /\ flushed[w] \subseteq 1 .. lastId /\ lastId \in Nat /\ page \in Seq(Nat)
  BY DEF EventInv, StreamTyping
<1>3. StreamTyping'
  BY <1>1, <1>2 DEF EventInv, StreamTyping
<1>4. Fetched \in Nat /\ cursor <= Fetched
  <2>1. CASE page = <<>>
    BY <1>2, <2>1 DEF Fetched
  <2>2. CASE page # <<>>
    <3>1. Last(page) \in Nat /\ 1 \in DOMAIN page /\ page[1] \in Nat /\ page[1] <= Last(page)
      BY <1>2, <2>2, LastIsGreatest DEF EventInv, PageAhead
    <3>2. cursor < page[1]
      BY <3>1 DEF EventInv, PageAhead
    <3> QED
      BY <1>2, <2>2, <3>1, <3>2 DEF Fetched
  <2> QED
    BY <2>1, <2>2
<1>5. PageAhead'
  BY <1>1 DEF EventInv, PageAhead, ClientCursor, Ascending
<1>6. PageWhole'
  <2> SUFFICES ASSUME page # <<>>, NEW i \in rows \cup flushed[w], cursor < i, i < Last(page)
               PROVE  i \in ToSet(page) \cup overtaken'
    BY <1>1 DEF PageWhole
  <2>1. CASE i \in rows
    BY <1>1, <2>1 DEF EventInv, PageWhole
  <2>2. CASE i \in flushed[w]
    BY <1>1, <2>2 DEF Fetched
  <2> QED
    BY <2>1, <2>2
<1>7. ASSUME NEW i \in rows \cup flushed[w], i < cursor PROVE i \in ToSet(shown) \cup overtaken'
  <2>1. CASE i \in rows
    BY <1>1, <1>7, <2>1 DEF EventInv, ShownInOrder, PageAhead
  <2>2. CASE i \in flushed[w]
    <3>1. i \in Nat /\ i < Fetched
      BY <1>2, <1>4, <1>7, <2>2
    <3> QED
      BY <1>1, <2>2, <3>1
  <2> QED
    BY <2>1, <2>2
<1>8. ShownInOrder'
  BY <1>1, <1>7 DEF EventInv, ShownInOrder, PageAhead, ClientCursor, Ascending
<1> QED
  BY <1>3, <1>5, <1>6, <1>8 DEF EventInv

LEMMA EventOther ==
    ASSUME EventInv,
           \/ \E w \in Writers : \/ \E sameProcess \in BOOLEAN : EventFlushed(w, sameProcess)
                                 \/ EventsRolledBack(w)
           \/ Connect \/ Wake \/ Disconnect \/ UNCHANGED eventVars
    PROVE  EventInv'
<1>0. page' \in {page, <<>>} /\ UNCHANGED <<cursor, rows, shown, overtaken>>
  BY DEF EventFlushed, EventsRolledBack, Connect, Wake, Disconnect, eventVars, EventInv, PageAhead
<1>1. StreamTyping'
  <2>1. <<>> \in Seq(Nat)
    BY EmptySeq
  <2>2. lastId' \in Nat /\ lastId <= lastId' /\ 1 .. lastId \subseteq 1 .. lastId'
    BY DEF EventFlushed, EventsRolledBack, Connect, Wake, Disconnect, eventVars, EventInv, StreamTyping
  <2>3. flushed' \in [Writers -> SUBSET (1 .. lastId')]
    <3>1. CASE \E w \in Writers, sameProcess \in BOOLEAN : EventFlushed(w, sameProcess)
      <4>1. PICK w \in Writers : flushed' = [flushed EXCEPT ![w] = @ \cup {lastId + 1}] /\ lastId' = lastId + 1
        BY <3>1 DEF EventFlushed
      <4>2. lastId + 1 \in 1 .. lastId' /\ flushed \in [Writers -> SUBSET (1 .. lastId')]
        BY <2>2, <4>1 DEF EventInv, StreamTyping
      <4> QED
        BY <4>1, <4>2
    <3>2. CASE \E w \in Writers : EventsRolledBack(w)
      BY <2>2, <3>2 DEF EventsRolledBack, EventInv, StreamTyping
    <3>3. CASE Connect \/ Wake \/ Disconnect \/ UNCHANGED eventVars
      BY <3>3 DEF Connect, Wake, Disconnect, eventVars, EventInv, StreamTyping
    <3> QED
      BY <3>1, <3>2, <3>3
  <2> QED
    BY <1>0, <2>1, <2>2, <2>3 DEF EventInv, StreamTyping
<1>2. Ascending(<<>>) /\ DOMAIN <<>> = {}
  BY DEF Ascending
<1>3. PageAhead' /\ PageWhole'
  BY <1>0, <1>2 DEF EventInv, PageAhead, PageWhole, ClientCursor, Ascending
<1> QED
  BY <1>0, <1>1, <1>3 DEF EventInv, ShownInOrder, ClientCursor, Ascending

\* Over all connections the client sees every event once and in the order of the ids,
\* and misses one below its cursor only when it was committed after a higher one had
\* been fetched: for any number of writers and events and every page limit
\* (stream_workspace_events, list_workspace_events).
THEOREM ShownInOrderAlways == EventSpec => []ShownInOrder
<1>1. EventInv /\ [EventNext]_eventVars => EventInv'
  BY EventFetch, EventSend, EventCommit, EventOther DEF EventNext, StreamNext, StreamServes
<1>2. EventInv => ShownInOrder
  BY DEF EventInv
<1> QED
  BY <1>1, <1>2, EventInitInv, PTL DEF EventSpec

=============================================================================
