----------------------------- MODULE FleetProofs -----------------------------
(***************************************************************************)
(* Proofs about Fleet for any number of nodes, workspaces, workers and     *)
(* scale loops: typing, the bounds by which max_nodes and max_workspaces   *)
(* can be missed, and, for one scale loop, that a pinned node is not       *)
(* terminated.                                                             *)
(***************************************************************************)
EXTENDS Fleet, FiniteSetTheorems, TLAPS

-----------------------------------------------------------------------------
(* The inductive invariant *)

NodeSt == {"ABSENT", "PROVISIONING", "READY", "DRAINING", "TERMINATING", "TERMINATED", "ERROR"}

\* The statuses _active_ec2_nodes_count counts.
Live == NodeSt \ {"ABSENT", "TERMINATED"}

WspRow == [st : {"none", "queued", "bringup", "running", "stopped", "error", "deleted"},
           node : FleetNodes \cup {Nowhere}]

Work == [pc : {"idle", "bringup", "launch", "check", "mark", "recheck", "terminate"},
         w : Workspaces \cup {Nowhere}, n : FleetNodes \cup {Nowhere}, up : SUBSET FleetNodes]

ScalingIn == {"check", "mark", "recheck", "terminate"}

FleetTyping ==
    /\ nst \in [FleetNodes -> NodeSt]
    /\ young \subseteq FleetNodes /\ cooling \in BOOLEAN
    /\ wsp \in [Workspaces -> WspRow]
    /\ act \in [Actors -> Work]
    /\ \A a \in Actors : act[a].pc # "idle" => act[a].n \in FleetNodes
    /\ signals \in 0..MaxSignals /\ late \subseteq Workspaces /\ back \subseteq Workspaces

\* Only workers bring up, each a workspace of its own whose row says so; only
\* scale loops scale in, a node that has a row.
WorkInv ==
    \A a \in Actors :
        /\ act[a].pc = "bringup" =>
             /\ a \in Workers /\ act[a].w \in Workspaces /\ wsp[act[a].w].st = "bringup"
             /\ \A b \in Actors : act[b].pc = "bringup" /\ act[b].w = act[a].w => a = b
        /\ act[a].pc \in ScalingIn => a \in Scalers /\ nst[act[a].n] # "ABSENT"

FleetInv == FleetTyping /\ WorkInv

Launching == {a \in Actors : act[a].pc = "launch"}
Writing == {a \in Actors : act[a].pc \in {"mark", "terminate"}}

\* Nodes that count, and TERMINATED ones that a second scale-in, which looked at the
\* row before the first ended, can still write to.
Held == ActiveNodes \cup {n \in FleetNodes : \E a \in Writing : act[a].n = n}

\* Every launch under way holds a place next to the nodes there are.
CapInv == Cardinality(Held) + Cardinality(Launching) <= MaxNodes + Cardinality(Actors) - 1

\* How a scale-in may leave a node.
LeftBehind == {"TERMINATING", "TERMINATED", "ERROR"}

PinsKept ==
    \A w \in Workspaces :
        wsp[w].node # Nowhere /\ wsp[w].st # "deleted" /\ w \notin late
            => nst[wsp[w].node] \notin LeftBehind

\* A node past its drain is not READY, and past its recount only late pins name it,
\* however its termination ends.
PinInv ==
    /\ PinsKept
    /\ \A a \in Actors :
         /\ act[a].pc \in {"recheck", "terminate"} => nst[act[a].n] \notin {"PROVISIONING", "READY"}
         /\ act[a].pc = "terminate" =>
              \A w \in Workspaces : wsp[w].node = act[a].n /\ wsp[w].st # "deleted" => w \in late

-----------------------------------------------------------------------------
(* Typing, and who works on what *)

LEMMA Numbers ==
    /\ MaxNodes \in Nat /\ MinNodes \in Nat /\ MaxWorkspaces \in Nat /\ MaxSignals \in Nat
    /\ IsFiniteSet(FleetNodes) /\ IsFiniteSet(Workspaces) /\ IsFiniteSet(Workers)
    /\ IsFiniteSet(Scalers) /\ IsFiniteSet(Actors)
BY FleetAssumption, FS_Union DEF Actors

LEMMA IdleWork ==
    Idle \in Work /\ Idle.pc = "idle" /\ Idle.w = Nowhere /\ Idle.n = Nowhere /\ Idle.up = {}
BY DEF Idle, Work

LEMMA WorkOnJob ==
    ASSUME NEW pc \in {"bringup", "launch"}, NEW w \in Workspaces, NEW n \in FleetNodes
    PROVE  LET v == [Idle EXCEPT !.pc = pc, !.w = w, !.n = n]
           IN v \in Work /\ v.pc = pc /\ v.w = w /\ v.n = n
BY DEF Idle, Work

LEMMA WorkOnNode ==
    ASSUME NEW pc \in {"launch", "check"}, NEW n \in FleetNodes, NEW up \in SUBSET FleetNodes
    PROVE  LET v == [Idle EXCEPT !.pc = pc, !.n = n, !.up = up]
           IN v \in Work /\ v.pc = pc /\ v.n = n
BY DEF Idle, Work

LEMMA WorkGoesOn ==
    ASSUME NEW v \in Work, NEW pc \in {"mark", "recheck", "terminate"}
    PROVE  /\ [v EXCEPT !.pc = pc] \in Work /\ [v EXCEPT !.pc = pc, !.up = {}] \in Work
           /\ [v EXCEPT !.pc = pc].pc = pc /\ [v EXCEPT !.pc = pc].n = v.n
           /\ [v EXCEPT !.pc = pc, !.up = {}].pc = pc /\ [v EXCEPT !.pc = pc, !.up = {}].n = v.n
BY DEF Work

LEMMA FleetStart == FleetInit => FleetInv
<1> SUFFICES ASSUME FleetInit PROVE FleetInv
  OBVIOUS
<1>1. \A a \in Actors : act[a] = Idle
  BY DEF FleetInit
<1>2. FleetTyping
  <2>1. nst \in [FleetNodes -> NodeSt] /\ wsp \in [Workspaces -> WspRow]
    BY DEF FleetInit, NodeSt, WspRow
  <2>2. act \in [Actors -> Work] /\ \A a \in Actors : act[a].pc = "idle"
    BY <1>1, IdleWork DEF FleetInit
  <2>3. signals \in 0..MaxSignals
    BY Numbers DEF FleetInit
  <2> QED
    BY <2>1, <2>2, <2>3 DEF FleetInit, FleetTyping
<1>3. WorkInv
  BY <1>1, IdleWork DEF WorkInv, ScalingIn
<1> QED
  BY <1>2, <1>3 DEF FleetInv

\* A step of one actor that touches no workspace.
LEMMA ActorKeeps ==
    ASSUME FleetInv, NEW a \in Actors, NEW v \in Work, act' = [act EXCEPT ![a] = v],
           act[a].pc # "bringup", v.pc # "bringup", v.pc # "idle" => v.n \in FleetNodes,
           v.pc \in ScalingIn => a \in Scalers /\ nst[v.n] # "ABSENT",
           nst' \in [FleetNodes -> NodeSt],
           \A m \in FleetNodes : nst[m] # "ABSENT" => nst'[m] # "ABSENT",
           young' \subseteq FleetNodes, cooling' \in BOOLEAN, signals' \in 0..MaxSignals,
           UNCHANGED <<wsp, late, back>>
    PROVE  FleetInv'
<1>1. /\ act' \in [Actors -> Work] /\ act'[a] = v /\ \A b \in Actors \ {a} : act'[b] = act[b]
  BY DEF FleetInv, FleetTyping
<1>2. FleetTyping'
  BY <1>1 DEF FleetInv, FleetTyping
<1>3. WorkInv'
  BY <1>1 DEF FleetInv, FleetTyping, WorkInv, ScalingIn
<1> QED
  BY <1>2, <1>3 DEF FleetInv

\* A step of no actor.
LEMMA QuietKeeps ==
    ASSUME FleetInv, UNCHANGED <<nst, act>>,
           young' \subseteq FleetNodes, cooling' \in BOOLEAN, signals' \in 0..MaxSignals,
           wsp' \in [Workspaces -> WspRow], late' \subseteq Workspaces, back' \subseteq Workspaces,
           \A w \in Workspaces : wsp[w].st = "bringup" => wsp'[w].st = "bringup"
    PROVE  FleetInv'
<1>1. FleetTyping'
  BY DEF FleetInv, FleetTyping
<1>2. WorkInv'
  BY DEF FleetInv, FleetTyping, WorkInv
<1> QED
  BY <1>1, <1>2 DEF FleetInv

\* A worker that begins or ends the bring-up of w.
LEMMA BringUpKeeps ==
    ASSUME FleetInv, NEW a \in Workers, NEW w \in Workspaces, NEW v \in Work, NEW r \in WspRow,
           act' = [act EXCEPT ![a] = v], wsp' = [wsp EXCEPT ![w] = r],
           \/ v.pc = "bringup" /\ v.w = w /\ r.st = "bringup" /\ v.n \in FleetNodes /\ Unclaimed(w)
           \/ v.pc = "idle" /\ act[a].pc = "bringup" /\ act[a].w = w,
           late' \subseteq Workspaces, UNCHANGED <<nst, young, cooling, signals, back>>
    PROVE  FleetInv'
<1>1. a \in Actors
  BY DEF Actors
<1>2. /\ act' \in [Actors -> Work] /\ act'[a] = v /\ \A b \in Actors \ {a} : act'[b] = act[b]
      /\ wsp' \in [Workspaces -> WspRow] /\ wsp'[w] = r /\ \A x \in Workspaces \ {w} : wsp'[x] = wsp[x]
  BY <1>1 DEF FleetInv, FleetTyping
<1>3. \A b \in Actors : b # a /\ act[b].pc = "bringup" => act[b].w # w
  BY <1>1 DEF FleetInv, WorkInv, Unclaimed
<1>4. FleetTyping'
  BY <1>2 DEF FleetInv, FleetTyping
<1>5. WorkInv'
  BY <1>1, <1>2, <1>3 DEF FleetInv, FleetTyping, WorkInv, ScalingIn
<1> QED
  BY <1>4, <1>5 DEF FleetInv

LEMMA RequestsKeep ==
    ASSUME FleetInv, NEW w \in Workspaces,
           RequestCreate(w) \/ RequestStart(w) \/ Stops(w) \/ Deletes(w) \/ WaitTimesOut(w)
    PROVE  FleetInv'
<1>1. /\ \E st \in {"queued", "stopped", "deleted", "error"} : wsp' = [wsp EXCEPT ![w].st = st]
      /\ wsp[w].st # "bringup" /\ UNCHANGED <<nst, young, cooling, act, signals, late>>
      /\ back' \in {back, back \cup {w}}
  BY DEF RequestCreate, RequestStart, Stops, Deletes, WaitTimesOut
<1>2. /\ wsp' \in [Workspaces -> WspRow]
      /\ \A x \in Workspaces : wsp[x].st = "bringup" => wsp'[x].st = "bringup"
  BY <1>1 DEF FleetInv, FleetTyping, WspRow
<1> QED
  BY <1>1, <1>2, QuietKeeps DEF FleetInv, FleetTyping

LEMMA TimeKeeps ==
    ASSUME FleetInv, (\E n \in FleetNodes : NodeAges(n)) \/ CooldownEnds \/ SignalsExpire
    PROVE  FleetInv'
<1>1. /\ UNCHANGED <<nst, act, wsp, late, back>> /\ young' \subseteq young
      /\ cooling' \in {cooling, FALSE} /\ signals' \in {signals, 0}
  BY DEF NodeAges, CooldownEnds, SignalsExpire
<1>2. signals' \in 0..MaxSignals
  BY <1>1, Numbers DEF FleetInv, FleetTyping
<1> QED
  BY <1>1, <1>2, QuietKeeps DEF FleetInv, FleetTyping

LEMMA PlacementsKeep ==
    ASSUME FleetInv, NEW a \in Workers, NEW w \in Workspaces,
           (\E n \in FleetNodes : Schedule(a, w, n)) \/ Reuse(a, w)
    PROVE  FleetInv'
<1>1. PICK n \in FleetNodes :
        act' = [act EXCEPT ![a] = [Idle EXCEPT !.pc = "bringup", !.w = w, !.n = n]]
  BY DEF Schedule, Reuse, FleetInv, FleetTyping, WspRow
<1> DEFINE v == [Idle EXCEPT !.pc = "bringup", !.w = w, !.n = n]
           r == [wsp[w] EXCEPT !.st = "bringup"]
<1>2. v \in Work /\ v.pc = "bringup" /\ v.w = w /\ v.n = n
  BY WorkOnJob
<1>3. r \in WspRow /\ r.st = "bringup"
  BY DEF FleetInv, FleetTyping, WspRow
<1>4. /\ wsp' = [wsp EXCEPT ![w] = r] /\ Unclaimed(w)
      /\ UNCHANGED <<nst, young, cooling, signals, late, back>>
  BY DEF Schedule, Reuse
<1>5. act' = [act EXCEPT ![a] = v]
  BY <1>1
<1> HIDE DEF v, r
<1> QED
  BY <1>2, <1>3, <1>4, <1>5, BringUpKeeps DEF FleetInv, FleetTyping

LEMMA BringUpsEnd ==
    ASSUME FleetInv, NEW a \in Workers,
           BringUpDone(a) \/ \E st \in {"queued", "error"} : BringUpFails(a, st)
    PROVE  FleetInv'
<1> DEFINE w == act[a].w
           n == act[a].n
<1>0. act[a].pc = "bringup" /\ act' = [act EXCEPT ![a] = Idle] /\ a \in Actors
      /\ UNCHANGED <<nst, young, cooling, signals, back>> /\ late' \in {late, late \cup {w}}
  BY DEF BringUpDone, BringUpFails, Actors
<1>1. w \in Workspaces /\ n \in FleetNodes /\ wsp[w] \in WspRow
  BY <1>0 DEF FleetInv, FleetTyping, WorkInv
<1>2. \E r \in WspRow : wsp' = [wsp EXCEPT ![w] = r]
  <2>1. CASE BringUpDone(a)
    <3>1. [st |-> "running", node |-> n] \in WspRow /\ wsp' = [wsp EXCEPT ![w] = [st |-> "running", node |-> n]]
      BY <1>1, <2>1 DEF BringUpDone, WspRow
    <3> QED
      BY <3>1
  <2>2. ASSUME NEW st \in {"queued", "error"}, BringUpFails(a, st)
        PROVE  \E r \in WspRow : wsp' = [wsp EXCEPT ![w] = r]
    <3>1. [wsp[w] EXCEPT !.st = st] \in WspRow /\ wsp' = [wsp EXCEPT ![w] = [wsp[w] EXCEPT !.st = st]]
      BY <1>1, <2>2 DEF BringUpFails, WspRow
    <3> QED
      BY <3>1
  <2> QED
    BY <2>1, <2>2
<1>3. PICK r \in WspRow : wsp' = [wsp EXCEPT ![w] = r]
  BY <1>2
<1> HIDE DEF w, n
<1>4. act[a].w = w /\ late' \subseteq Workspaces
  BY <1>0, <1>1 DEF w, FleetInv, FleetTyping
<1> QED
  BY <1>0, <1>1, <1>3, <1>4, IdleWork, BringUpKeeps

\* What the rows of synchronised nodes become.
LEMMA SyncedNodes ==
    ASSUME FleetTyping, NEW up, up \subseteq NodesIn({"PROVISIONING"})
    PROVE  /\ Synced(up) \in [FleetNodes -> NodeSt]
           /\ \A m \in FleetNodes :
                Synced(up)[m] = nst[m] \/ (nst[m] = "PROVISIONING" /\ Synced(up)[m] = "READY")
<1>1. "READY" \in NodeSt
  BY DEF NodeSt
<1>2. nst \in [FleetNodes -> NodeSt] /\ \A m \in up : nst[m] = "PROVISIONING"
  BY DEF FleetTyping, NodesIn
<1> QED
  BY <1>1, <1>2 DEF Synced

LEMMA MoreSignals == ASSUME FleetTyping PROVE OneMoreSignal \in 0..MaxSignals
BY Numbers DEF FleetTyping, OneMoreSignal

\* Launches and scale-ins, one lemma for each tick.
LEMMA LaunchesStart ==
    ASSUME FleetInv, NEW a \in Actors, NEW n \in FleetNodes,
           \/ a \in Workers /\ \E w \in Workspaces : NoCapacity(a, w, n)
           \/ a \in Scalers /\ \E up \in SUBSET FleetNodes : ScaleOutTick(a, up, n)
    PROVE  FleetInv'
<1> USE DEF FleetInv
<1>1. ASSUME NEW w \in Workspaces, NoCapacity(a, w, n) PROVE FleetInv'
  <2> DEFINE v == [Idle EXCEPT !.pc = "launch", !.w = w, !.n = n]
  <2>1. v \in Work /\ v.pc = "launch" /\ v.n = n
    BY WorkOnJob
  <2>2. /\ act[a].pc = "idle" /\ UNCHANGED <<nst, young, cooling, wsp, late, back>>
        /\ \/ act' = [act EXCEPT ![a] = v] /\ signals' = signals
           \/ act' = act /\ signals' = OneMoreSignal
    BY <1>1 DEF NoCapacity
  <2> HIDE DEF v
  <2>3. CASE act' = [act EXCEPT ![a] = v] /\ signals' = signals
    BY <2>1, <2>2, <2>3, ActorKeeps DEF FleetTyping, ScalingIn
  <2>4. CASE act' = act /\ signals' = OneMoreSignal
    BY <2>2, <2>4, MoreSignals, QuietKeeps DEF FleetTyping
  <2> QED
    BY <2>2, <2>3, <2>4
<1>2. ASSUME NEW up \in SUBSET FleetNodes, ScaleOutTick(a, up, n) PROVE FleetInv'
  <2> DEFINE v == [Idle EXCEPT !.pc = "launch", !.n = n, !.up = up]
  <2>1. v \in Work /\ v.pc = "launch" /\ v.n = n
    BY WorkOnNode
  <2>2. /\ act[a].pc = "idle" /\ UNCHANGED <<young, cooling, wsp, signals, late, back>>
        /\ up \subseteq NodesIn({"PROVISIONING"})
        /\ \/ act' = [act EXCEPT ![a] = v] /\ nst' = nst
           \/ act' = act /\ nst' = Synced(up)
    BY <1>2 DEF ScaleOutTick
  <2> HIDE DEF v
  <2>3. CASE act' = [act EXCEPT ![a] = v] /\ nst' = nst
    BY <2>1, <2>2, <2>3, ActorKeeps DEF FleetTyping, ScalingIn
  <2>4. CASE act' = act /\ nst' = Synced(up)
    <3>1. act[a] \in Work /\ act' = [act EXCEPT ![a] = act[a]]
      BY <2>4 DEF FleetTyping
    <3>2. nst' \in [FleetNodes -> NodeSt] /\ \A m \in FleetNodes : nst[m] # "ABSENT" => nst'[m] # "ABSENT"
      BY <2>2, <2>4, SyncedNodes DEF FleetTyping
    <3> QED
      BY <2>2, <3>1, <3>2, ActorKeeps DEF FleetTyping, ScalingIn
  <2> QED
    BY <2>2, <2>3, <2>4
<1> QED
  BY <1>1, <1>2

LEMMA LaunchesEnd ==
    ASSUME FleetInv, NEW a \in Actors, LaunchCommits(a) \/ LaunchFails(a)
    PROVE  FleetInv'
<1>1. /\ act[a].pc = "launch" /\ act' = [act EXCEPT ![a] = Idle]
      /\ UNCHANGED <<cooling, wsp, late, back>> /\ signals' \in {signals, OneMoreSignal}
      /\ young' \in {young, young \cup {act[a].n}}
  BY DEF LaunchCommits, LaunchFails
<1>2. act[a].n \in FleetNodes
  BY <1>1 DEF FleetInv, FleetTyping
<1>3. nst' \in [FleetNodes -> NodeSt] /\ \A m \in FleetNodes : nst[m] # "ABSENT" => nst'[m] # "ABSENT"
  <2>1. CASE LaunchCommits(a)
    <3>1. "PROVISIONING" \in NodeSt /\ "READY" \in NodeSt /\ nst \in [FleetNodes -> NodeSt]
      BY DEF NodeSt, FleetInv, FleetTyping
    <3> QED
      BY <2>1, <3>1 DEF LaunchCommits
  <2>2. CASE LaunchFails(a)
    BY <2>2 DEF LaunchFails, FleetInv, FleetTyping
  <2> QED
    BY <2>1, <2>2
<1>4. signals' \in 0..MaxSignals
  BY <1>1, MoreSignals DEF FleetInv, FleetTyping
<1> QED
  BY <1>1, <1>2, <1>3, <1>4, IdleWork, ActorKeeps DEF FleetInv, FleetTyping, ScalingIn

LEMMA ScaleInsKeep ==
    ASSUME FleetInv, NEW a \in Scalers,
           \/ \E up \in SUBSET FleetNodes, n \in FleetNodes : ScaleInDecision(a, up, n)
           \/ DrainChecks(a) \/ DrainCommits(a) \/ Recheck(a)
           \/ \E st \in {"TERMINATED", "TERMINATING", "ERROR"} : TerminateEnds(a, st)
           \/ ActorDies(a)
    PROVE  FleetInv'
<1> USE DEF FleetInv
<1> DEFINE n == act[a].n
<1>0. a \in Actors /\ act[a] \in Work /\ nst \in [FleetNodes -> NodeSt]
      /\ UNCHANGED <<young, wsp, signals, late, back>>
  BY DEF Actors, FleetTyping, ScaleInDecision, DrainChecks, DrainCommits, Recheck, TerminateEnds, ActorDies
<1>1. {"READY", "DRAINING", "TERMINATED", "TERMINATING", "ERROR"} \subseteq NodeSt \ {"ABSENT"}
  BY DEF NodeSt
<1>2. ASSUME NEW up \in SUBSET FleetNodes, NEW m \in FleetNodes, ScaleInDecision(a, up, m)
      PROVE  FleetInv'
  <2> DEFINE v == [Idle EXCEPT !.pc = "check", !.n = m, !.up = up]
  <2>1. v \in Work /\ v.pc = "check" /\ v.n = m
    BY WorkOnNode
  <2>2. /\ act[a].pc = "idle" /\ act' = [act EXCEPT ![a] = v] /\ nst[m] = "READY"
        /\ UNCHANGED <<nst, cooling>>
    BY <1>2 DEF ScaleInDecision
  <2> HIDE DEF v
  <2> QED
    BY <1>0, <2>1, <2>2, ActorKeeps DEF FleetTyping
<1>3. ASSUME act[a].pc \in ScalingIn, cooling' \in {cooling, TRUE},
             nst' \in [FleetNodes -> NodeSt],
             \A m \in FleetNodes : nst[m] # "ABSENT" => nst'[m] # "ABSENT",
             NEW v \in Work, act' = [act EXCEPT ![a] = v], v = Idle \/ v.n = n,
             v.pc # "bringup"
      PROVE  FleetInv'
  <2>1. n \in FleetNodes /\ nst[n] # "ABSENT" /\ cooling' \in BOOLEAN
    BY <1>0, <1>3 DEF FleetTyping, WorkInv, ScalingIn
  <2>2. /\ act[a].pc # "bringup"
        /\ v.pc # "idle" => v.n \in FleetNodes
        /\ v.pc \in ScalingIn => nst[v.n] # "ABSENT"
    BY <1>3, <2>1, IdleWork DEF ScalingIn
  <2> QED
    BY <1>0, <1>3, <2>1, <2>2, ActorKeeps DEF FleetTyping
<1>4. CASE DrainChecks(a)
  <2>1. act[a].pc \in ScalingIn /\ UNCHANGED cooling
    BY <1>4 DEF DrainChecks, ScalingIn
  <2>2. CASE act' = [act EXCEPT ![a].pc = "mark"] /\ nst' = nst
    <3>1. act' = [act EXCEPT ![a] = [act[a] EXCEPT !.pc = "mark"]]
      BY <2>2
    <3> QED
      BY <1>0, <1>3, <2>1, <2>2, <3>1, WorkGoesOn
  <2>3. CASE /\ act' = [act EXCEPT ![a] = Idle]
             /\ nst' = [m \in FleetNodes |->
                          IF m \in act[a].up /\ nst[m] = "PROVISIONING" THEN "READY" ELSE nst[m]]
    BY <1>0, <1>1, <1>3, <2>1, <2>3, IdleWork
  <2> QED
    BY <1>4, <2>2, <2>3 DEF DrainChecks
<1>5. CASE DrainCommits(a)
  <2>1. /\ act[a].pc \in ScalingIn /\ cooling' = TRUE
        /\ act' = [act EXCEPT ![a] = [act[a] EXCEPT !.pc = "recheck", !.up = {}]]
    BY <1>0, <1>5 DEF DrainCommits, ScalingIn
  <2>2. nst' \in [FleetNodes -> NodeSt] /\ \A m \in FleetNodes : nst[m] # "ABSENT" => nst'[m] # "ABSENT"
    BY <1>0, <1>1, <1>5 DEF DrainCommits
  <2> QED
    BY <1>0, <1>3, <2>1, <2>2, WorkGoesOn
<1>6. CASE Recheck(a)
  <2>1. act[a].pc \in ScalingIn /\ UNCHANGED cooling
    BY <1>6 DEF Recheck, ScalingIn
  <2>2. nst' \in [FleetNodes -> NodeSt] /\ \A m \in FleetNodes : nst[m] # "ABSENT" => nst'[m] # "ABSENT"
    BY <1>0, <1>1, <1>6 DEF Recheck
  <2>3. \/ act' = [act EXCEPT ![a] = Idle]
        \/ act' = [act EXCEPT ![a] = [act[a] EXCEPT !.pc = "terminate"]]
    BY <1>6 DEF Recheck
  <2> QED
    BY <1>0, <1>3, <2>1, <2>2, <2>3, IdleWork, WorkGoesOn
<1>7. ASSUME NEW st \in {"TERMINATED", "TERMINATING", "ERROR"}, TerminateEnds(a, st) PROVE FleetInv'
  <2>1. act[a].pc \in ScalingIn /\ cooling' \in {cooling, TRUE} /\ act' = [act EXCEPT ![a] = Idle]
    BY <1>7 DEF TerminateEnds, ScalingIn
  <2>2. nst' \in [FleetNodes -> NodeSt] /\ \A m \in FleetNodes : nst[m] # "ABSENT" => nst'[m] # "ABSENT"
    BY <1>0, <1>1, <1>7 DEF TerminateEnds
  <2> QED
    BY <1>0, <1>3, <2>1, <2>2, IdleWork
<1>8. CASE ActorDies(a)
  <2>1. act[a].pc \in ScalingIn /\ UNCHANGED <<nst, cooling>> /\ act' = [act EXCEPT ![a] = Idle]
    BY <1>8 DEF ActorDies, ScalingIn
  <2> QED
    BY <1>0, <1>3, <2>1, IdleWork
<1> QED
  BY <1>2, <1>4, <1>5, <1>6, <1>7, <1>8

LEMMA FleetStep == FleetInv /\ [FleetNext]_fleetVars => FleetInv'
<1> SUFFICES ASSUME FleetInv, [FleetNext]_fleetVars PROVE FleetInv'
  OBVIOUS
<1>1. ASSUME NEW w \in Workspaces,
             RequestCreate(w) \/ RequestStart(w) \/ Stops(w) \/ Deletes(w) \/ WaitTimesOut(w)
      PROVE  FleetInv'
  BY <1>1, RequestsKeep
<1>2. ASSUME NEW a \in Workers, WorkerNext(a) PROVE FleetInv'
  BY <1>2, PlacementsKeep, BringUpsEnd, LaunchesStart DEF WorkerNext, Actors
<1>3. ASSUME NEW a \in Scalers, ScalerNext(a) PROVE FleetInv'
  BY <1>3, LaunchesStart, ScaleInsKeep DEF ScalerNext, Actors
<1>4. ASSUME NEW a \in Actors, LaunchCommits(a) \/ LaunchFails(a) PROVE FleetInv'
  BY <1>4, LaunchesEnd
<1>5. CASE (\E n \in FleetNodes : NodeAges(n)) \/ CooldownEnds \/ SignalsExpire
  BY <1>5, TimeKeeps
<1>7. ASSUME NEW n \in FleetNodes, NodeFoundGone(n) PROVE FleetInv'
  <2>1. /\ nst' \in [FleetNodes -> NodeSt] /\ \A m \in FleetNodes : nst[m] # "ABSENT" => nst'[m] # "ABSENT"
        /\ UNCHANGED <<young, cooling, wsp, act, signals, late, back>>
    BY <1>7 DEF NodeFoundGone, FleetInv, FleetTyping, NodeSt
  <2>2. FleetTyping'
    BY <2>1 DEF FleetInv, FleetTyping
  <2>3. \A a \in Actors : act[a].pc \in ScalingIn => act[a].n \in FleetNodes
    BY DEF FleetInv, FleetTyping, ScalingIn
  <2>4. WorkInv'
    BY <2>1, <2>3 DEF FleetInv, WorkInv
  <2> QED
    BY <2>2, <2>4 DEF FleetInv
<1>6. CASE UNCHANGED fleetVars
  BY <1>6, QuietKeeps DEF fleetVars, FleetInv, FleetTyping
<1> QED
  BY <1>1, <1>2, <1>3, <1>4, <1>5, <1>6, <1>7 DEF FleetNext

LEMMA FleetInvAlways == FleetSpec => []FleetInv
BY FleetStart, FleetStep, PTL DEF FleetSpec

\* Node, workspace and actor rows keep their types, and an actor that works on a node
\* names one (execution_node, workspace, execute_scale_down).
THEOREM FleetTypingAlways == FleetSpec => []FleetTypeOK
<1>1. FleetInv => FleetTypeOK
  BY DEF FleetInv, FleetTyping, FleetTypeOK, NodeSt, WspRow, Work
<1> QED
  BY <1>1, FleetInvAlways, PTL

-----------------------------------------------------------------------------
(* What a step can do to the number of nodes *)

Others(a) == \A b \in Actors \ {a} : act'[b] = act[b]

NodesStay(S) == \A m \in S : nst'[m] = nst[m] \/ (nst[m] \in Live /\ nst'[m] \in Live)

\* No node comes or goes, and no actor starts or goes on with taking or adding one.
Calm ==
    /\ NodesStay(FleetNodes)
    /\ \A b \in Actors :
         act'[b] = act[b] \/ act'[b].pc \notin {"launch", "mark", "recheck", "terminate"}

LaunchBegins(a) ==
    /\ Others(a) /\ act[a].pc = "idle" /\ act'[a].pc = "launch"
    /\ NodesStay(FleetNodes) /\ Cardinality(ActiveNodes) < MaxNodes

NodeComes(a) ==
    /\ Others(a) /\ act[a].pc = "launch" /\ act'[a] = Idle
    /\ NodesStay(FleetNodes \ {act[a].n}) /\ nst'[act[a].n] \in Live

ChecksPassed(a) ==
    /\ Others(a) /\ act[a].pc = "check" /\ act'[a].pc = "mark"
    /\ NodesStay(FleetNodes) /\ nst[act'[a].n] \in Live

ScaleInGoesOn(a) ==
    /\ Others(a) /\ act[a].pc \in {"mark", "recheck"} /\ act'[a].pc \in {"recheck", "terminate"}
    /\ NodesStay(FleetNodes \ IF act[a].pc = "mark" THEN {act[a].n} ELSE {})
    /\ act'[a].pc = "terminate" => nst[act'[a].n] \in Live /\ act[a].pc = "recheck"

NodeGoes(a) ==
    /\ Others(a) /\ act[a].pc = "terminate" /\ act'[a] = Idle
    /\ NodesStay(FleetNodes \ {act[a].n})

NodeLeaves ==
    UNCHANGED act /\ \E n \in FleetNodes : NodesStay(FleetNodes \ {n}) /\ nst'[n] = "TERMINATED"

Shape(a) ==
    \/ Calm \/ LaunchBegins(a) \/ NodeComes(a)
    \/ a \in Scalers /\ (ChecksPassed(a) \/ ScaleInGoesOn(a) \/ NodeGoes(a))

LEMMA Changed ==
    ASSUME FleetInv, NEW a \in Actors, NEW v, act' = [act EXCEPT ![a] = v]
    PROVE  act'[a] = v /\ Others(a)
BY DEF FleetInv, FleetTyping, Others

LEMMA JobTaken ==
    ASSUME FleetInv, NEW a \in Actors, NEW w \in Workspaces, NEW n \in FleetNodes,
           act' = [act EXCEPT ![a] = [Idle EXCEPT !.pc = "bringup", !.w = w, !.n = n]]
    PROVE  act'[a].pc = "bringup" /\ act'[a].w = w /\ act'[a].n = n /\ Others(a)
<1> DEFINE v == [Idle EXCEPT !.pc = "bringup", !.w = w, !.n = n]
<1>1. v.pc = "bringup" /\ v.w = w /\ v.n = n
  BY WorkOnJob
<1>2. act' = [act EXCEPT ![a] = v]
  OBVIOUS
<1> HIDE DEF v
<1> QED
  BY <1>1, <1>2, Changed

LEMMA NodePicked ==
    ASSUME FleetInv, NEW a \in Actors, NEW n \in FleetNodes, NEW up \in SUBSET FleetNodes,
           act' = [act EXCEPT ![a] = [Idle EXCEPT !.pc = "check", !.n = n, !.up = up]]
    PROVE  act'[a].pc = "check" /\ act'[a].n = n /\ Others(a)
<1> DEFINE v == [Idle EXCEPT !.pc = "check", !.n = n, !.up = up]
<1>1. v.pc = "check" /\ v.n = n
  BY WorkOnNode
<1>2. act' = [act EXCEPT ![a] = v]
  OBVIOUS
<1> HIDE DEF v
<1> QED
  BY <1>1, <1>2, Changed

LEMMA NextPhase ==
    ASSUME FleetInv, NEW a \in Actors, NEW pc \in {"mark", "recheck", "terminate"},
           \/ act' = [act EXCEPT ![a].pc = pc]
           \/ act' = [act EXCEPT ![a].pc = pc, ![a].up = {}]
    PROVE  act'[a].pc = pc /\ act'[a].n = act[a].n /\ Others(a)
BY DEF FleetInv, FleetTyping, Work, Others

LEMMA RequestsAreCalm ==
    ASSUME FleetInv, UNCHANGED <<nst, act>>
    PROVE  Calm
BY DEF Calm, NodesStay

LEMMA WorkersShape ==
    ASSUME FleetInv, NEW a \in Workers, WorkerNext(a)
    PROVE  Shape(a)
<1>0. a \in Actors
  BY DEF Actors
<1>1. ASSUME NEW w \in Workspaces, NEW n \in FleetNodes, Schedule(a, w, n) PROVE Calm
  <2>1. act'[a].pc = "bringup" /\ Others(a) /\ UNCHANGED nst
    BY <1>0, <1>1, JobTaken DEF Schedule
  <2> QED
    BY <2>1 DEF Calm, NodesStay, Others
<1>2. ASSUME NEW w \in Workspaces, Reuse(a, w) PROVE Calm
  <2>1. wsp[w].node \in FleetNodes
    BY <1>2 DEF Reuse, FleetInv, FleetTyping, WspRow
  <2>2. act'[a].pc = "bringup" /\ Others(a) /\ UNCHANGED nst
    BY <1>0, <1>2, <2>1, JobTaken DEF Reuse
  <2> QED
    BY <2>2 DEF Calm, NodesStay, Others
<1>3. CASE BringUpDone(a) \/ \E st \in {"queued", "error"} : BringUpFails(a, st)
  <2>1. act' = [act EXCEPT ![a] = Idle] /\ UNCHANGED nst
    BY <1>3 DEF BringUpDone, BringUpFails
  <2> QED
    BY <1>0, <2>1, Changed, IdleWork DEF Calm, NodesStay, Others, Shape
<1>4. ASSUME NEW w \in Workspaces, NEW n \in FleetNodes, NoCapacity(a, w, n) PROVE Shape(a)
  <2> DEFINE v == [Idle EXCEPT !.pc = "launch", !.w = w, !.n = n]
  <2>1. /\ act[a].pc = "idle" /\ UNCHANGED nst
        /\ \/ act' = [act EXCEPT ![a] = v] /\ Cardinality(ActiveNodes) < MaxNodes
           \/ act' = act
    BY <1>4 DEF NoCapacity, ScalesOut, UnderCap
  <2>2. v.pc = "launch"
    BY WorkOnJob
  <2> HIDE DEF v
  <2> QED
    BY <1>0, <2>1, <2>2, Changed, RequestsAreCalm DEF Shape, LaunchBegins, NodesStay
<1> QED
  BY <1>1, <1>2, <1>3, <1>4 DEF WorkerNext, Shape

LEMMA ScalersShape ==
    ASSUME FleetInv, NEW a \in Scalers, ScalerNext(a)
    PROVE  Shape(a)
<1>0. a \in Actors /\ act[a] \in Work /\ nst \in [FleetNodes -> NodeSt]
  BY DEF Actors, FleetInv, FleetTyping
<1>1. {"PROVISIONING", "READY", "DRAINING", "TERMINATING", "ERROR"} \subseteq Live
  BY DEF Live, NodeSt
<1>2. ASSUME NEW up \in SUBSET FleetNodes, NEW n \in FleetNodes, ScaleOutTick(a, up, n) PROVE Shape(a)
  <2> DEFINE v == [Idle EXCEPT !.pc = "launch", !.n = n, !.up = up]
  <2>1. /\ act[a].pc = "idle" /\ up \subseteq NodesIn({"PROVISIONING"})
        /\ \/ act' = [act EXCEPT ![a] = v] /\ UNCHANGED nst /\ Cardinality(ActiveNodes) < MaxNodes
           \/ act' = act /\ nst' = Synced(up)
    BY <1>2 DEF ScaleOutTick, ScalesOut, UnderCap
  <2>2. v.pc = "launch"
    BY WorkOnNode
  <2> HIDE DEF v
  <2>3. CASE act' = [act EXCEPT ![a] = v] /\ UNCHANGED nst /\ Cardinality(ActiveNodes) < MaxNodes
    BY <1>0, <2>1, <2>2, <2>3, Changed DEF Shape, LaunchBegins, NodesStay
  <2>4. CASE act' = act /\ nst' = Synced(up)
    BY <1>1, <2>1, <2>4, SyncedNodes DEF Shape, Calm, NodesStay, FleetInv
  <2> QED
    BY <2>1, <2>3, <2>4
<1>3. ASSUME NEW up \in SUBSET FleetNodes, NEW n \in FleetNodes, ScaleInDecision(a, up, n) PROVE Calm
  <2>1. act'[a].pc = "check" /\ Others(a) /\ UNCHANGED nst
    BY <1>0, <1>3, NodePicked DEF ScaleInDecision
  <2> QED
    BY <2>1 DEF Calm, NodesStay, Others
<1>4. CASE DrainChecks(a)
  <2>1. CASE act' = [act EXCEPT ![a].pc = "mark"] /\ nst' = nst /\ nst[act[a].n] = "READY"
    <3>1. act[a].pc = "check"
      BY <1>4 DEF DrainChecks
    <3>2. act'[a].pc = "mark" /\ act'[a].n = act[a].n /\ Others(a)
      BY <1>0, <2>1, NextPhase
    <3> QED
      BY <1>1, <2>1, <3>1, <3>2 DEF Shape, ChecksPassed, NodesStay
  <2>2. CASE /\ act' = [act EXCEPT ![a] = Idle]
             /\ nst' = [m \in FleetNodes |->
                          IF m \in act[a].up /\ nst[m] = "PROVISIONING" THEN "READY" ELSE nst[m]]
    BY <1>0, <1>1, <2>2, Changed, IdleWork DEF Shape, Calm, NodesStay, Others
  <2> QED
    BY <1>4, <2>1, <2>2 DEF DrainChecks
<1>5. CASE DrainCommits(a)
  <2>1. act[a].pc = "mark" /\ act' = [act EXCEPT ![a].pc = "recheck", ![a].up = {}]
    BY <1>5 DEF DrainCommits
  <2>2. act'[a].pc = "recheck" /\ Others(a)
    BY <1>0, <2>1, NextPhase
  <2>3. act[a].n \in FleetNodes /\ nst[act[a].n] # "ABSENT"
    BY <1>0, <2>1 DEF FleetInv, FleetTyping, WorkInv, ScalingIn
  <2>4. NodesStay(FleetNodes \ {act[a].n})
    BY <1>0, <1>1, <1>5, <2>3 DEF DrainCommits, NodesStay, Live
  <2> QED
    BY <2>1, <2>2, <2>4 DEF Shape, ScaleInGoesOn
<1>6. CASE Recheck(a)
  <2>1. act[a].n \in FleetNodes /\ nst[act[a].n] # "ABSENT" /\ act[a].pc = "recheck"
    BY <1>0, <1>6 DEF Recheck, FleetInv, FleetTyping, WorkInv, ScalingIn
  <2>2. NodesStay(FleetNodes)
    BY <1>0, <1>1, <1>6 DEF Recheck, NodesStay
  <2>3. CASE act' = [act EXCEPT ![a] = Idle]
    BY <1>0, <2>2, <2>3, Changed, IdleWork DEF Shape, Calm, Others
  <2>4. CASE act' = [act EXCEPT ![a].pc = "terminate"] /\ nst[act[a].n] # "TERMINATED"
    <3>1. act'[a].pc = "terminate" /\ act'[a].n = act[a].n /\ Others(a)
      BY <1>0, <2>4, NextPhase
    <3> QED
      BY <1>0, <2>1, <2>2, <2>4, <3>1 DEF Shape, ScaleInGoesOn, Live
  <2> QED
    BY <1>6, <2>3, <2>4 DEF Recheck
<1>7. ASSUME NEW st \in {"TERMINATED", "TERMINATING", "ERROR"}, TerminateEnds(a, st) PROVE Shape(a)
  <2>1. act[a].pc = "terminate" /\ act' = [act EXCEPT ![a] = Idle] /\ nst' = [nst EXCEPT ![act[a].n] = st]
    BY <1>7 DEF TerminateEnds
  <2> QED
    BY <1>0, <2>1, Changed DEF Shape, NodeGoes, NodesStay
<1>8. CASE ActorDies(a)
  <2>1. act' = [act EXCEPT ![a] = Idle] /\ UNCHANGED nst
    BY <1>8 DEF ActorDies
  <2> QED
    BY <1>0, <2>1, Changed, IdleWork DEF Shape, Calm, NodesStay, Others
<1> QED
  BY <1>2, <1>3, <1>4, <1>5, <1>6, <1>7, <1>8 DEF ScalerNext, Shape

LEMMA LaunchesShape ==
    ASSUME FleetInv, NEW a \in Actors, LaunchCommits(a) \/ LaunchFails(a)
    PROVE  Shape(a)
<1>1. act[a].pc = "launch" /\ act'[a] = Idle /\ Others(a) /\ nst \in [FleetNodes -> NodeSt]
  BY Changed DEF LaunchCommits, LaunchFails, FleetInv, FleetTyping
<1>2. CASE LaunchCommits(a)
  <2>1. NodesStay(FleetNodes \ {act[a].n}) /\ nst'[act[a].n] \in Live
    BY <1>1, <1>2 DEF LaunchCommits, NodesStay, Live, NodeSt, FleetInv, FleetTyping
  <2> QED
    BY <1>1, <2>1 DEF Shape, NodeComes
<1>3. CASE LaunchFails(a)
  BY <1>1, <1>3, IdleWork DEF LaunchFails, Shape, Calm, NodesStay, Others
<1> QED
  BY <1>2, <1>3

LEMMA StepsHaveShape ==
    ASSUME FleetInv, [FleetNext]_fleetVars
    PROVE  Calm \/ NodeLeaves \/ \E a \in Actors : Shape(a)
<1>1. ASSUME NEW w \in Workspaces,
             RequestCreate(w) \/ RequestStart(w) \/ Stops(w) \/ Deletes(w) \/ WaitTimesOut(w)
      PROVE  Calm
  BY <1>1, RequestsAreCalm DEF RequestCreate, RequestStart, Stops, Deletes, WaitTimesOut
<1>2. CASE (\E n \in FleetNodes : NodeAges(n)) \/ CooldownEnds \/ SignalsExpire \/ UNCHANGED fleetVars
  BY <1>2, RequestsAreCalm DEF NodeAges, CooldownEnds, SignalsExpire, fleetVars
<1>3. ASSUME NEW n \in FleetNodes, NodeFoundGone(n) PROVE NodeLeaves
  BY <1>3 DEF NodeFoundGone, NodeLeaves, NodesStay, FleetInv, FleetTyping
<1> QED
  BY <1>1, <1>2, <1>3, WorkersShape, ScalersShape, LaunchesShape DEF FleetNext, Actors

-----------------------------------------------------------------------------
(* max_nodes *)

LEMMA UnionCounts ==
    ASSUME NEW S, NEW T, IsFiniteSet(S), IsFiniteSet(T)
    PROVE  /\ IsFiniteSet(S \cup T) /\ Cardinality(S \cup T) \in Nat
           /\ Cardinality(S \cup T) <= Cardinality(S) + Cardinality(T)
           /\ S \cap T = {} => Cardinality(S \cup T) = Cardinality(S) + Cardinality(T)
<1>1. IsFiniteSet(S \cup T) /\ Cardinality(S \cup T) = Cardinality(S) + Cardinality(T) - Cardinality(S \cap T)
  BY FS_Union
<1>2. IsFiniteSet(S \cap T)
  BY FS_Intersection
<1>3. /\ Cardinality(S) \in Nat /\ Cardinality(T) \in Nat /\ Cardinality(S \cap T) \in Nat
      /\ Cardinality(S \cup T) \in Nat
  BY <1>1, <1>2, FS_CardinalityType
<1>4. S \cap T = {} => Cardinality(S \cap T) = 0
  BY FS_EmptySet
<1> QED
  BY <1>1, <1>3, <1>4

LEMMA OneMore ==
    ASSUME NEW S, NEW x, IsFiniteSet(S)
    PROVE  /\ IsFiniteSet(S \cup {x}) /\ Cardinality(S \cup {x}) \in Nat /\ Cardinality(S) \in Nat
           /\ Cardinality(S \cup {x}) <= Cardinality(S) + 1
<1>1. IsFiniteSet(S \cup {x})
      /\ (Cardinality(S \cup {x}) = Cardinality(S) \/ Cardinality(S \cup {x}) = Cardinality(S) + 1)
  BY FS_AddElement
<1>2. Cardinality(S) \in Nat
  BY FS_CardinalityType
<1> QED
  BY <1>1, <1>2

LEMMA SomeNodes ==
    ASSUME NEW S \in SUBSET FleetNodes
    PROVE  IsFiniteSet(S) /\ Cardinality(S) \in Nat
BY Numbers, FS_Subset, FS_CardinalityType

LEMMA SomeActors ==
    ASSUME NEW S \in SUBSET Actors
    PROVE  IsFiniteSet(S) /\ Cardinality(S) \in Nat /\ Cardinality(S) <= Cardinality(Actors)
           /\ Cardinality(Actors) \in Nat
BY Numbers, FS_Subset, FS_CardinalityType

LEMMA Counted ==
    ASSUME FleetTyping
    PROVE  ActiveNodes = {n \in FleetNodes : nst[n] \in Live} /\ ActiveNodes \subseteq Held
BY DEF ActiveNodes, NodesIn, Live, NodeSt, FleetTyping, Held

LEMMA CountedNext ==
    ASSUME FleetInv'
    PROVE  ActiveNodes' = {n \in FleetNodes : nst'[n] \in Live}
BY DEF ActiveNodes, NodesIn, Live, NodeSt, FleetInv, FleetTyping

LEMMA CapStart == ASSUME FleetInit PROVE CapInv
<1>1. ActiveNodes = {} /\ Held = {} /\ Launching = {}
  BY IdleWork DEF FleetInit, ActiveNodes, NodesIn, Held, Writing, Launching
<1>2. Cardinality(Held) = 0 /\ Cardinality(Launching) = 0
  BY <1>1, FS_EmptySet
<1>3. Cardinality(Actors) # 0 /\ Cardinality(Actors) \in Nat
  BY FleetAssumption, Numbers, FS_EmptySet, FS_CardinalityType DEF Actors
<1> QED
  BY <1>2, <1>3, Numbers DEF CapInv

\* No more is held and no more launches are under way.
LEMMA CapShrinks ==
    ASSUME CapInv, Held' \subseteq Held, Launching' \subseteq Launching
    PROVE  CapInv'
<1>1. Held \subseteq FleetNodes /\ Launching \subseteq Actors
  BY DEF Held, ActiveNodes, NodesIn, Launching
<1>2. /\ IsFiniteSet(Held) /\ IsFiniteSet(Launching)
      /\ Cardinality(Held) \in Nat /\ Cardinality(Launching) \in Nat /\ Cardinality(Actors) \in Nat
      /\ Cardinality(Held') \in Nat /\ Cardinality(Launching') \in Nat
  BY <1>1, SomeNodes, SomeActors
<1>3. Cardinality(Held') <= Cardinality(Held) /\ Cardinality(Launching') <= Cardinality(Launching)
  BY <1>2, FS_Subset
<1> QED
  BY <1>2, <1>3, Numbers DEF CapInv

\* The places of actors at their last step and of launches are different actors'.
LEMMA CapAtLaunch ==
    ASSUME FleetInv, FleetInv', NEW a \in Actors, LaunchBegins(a)
    PROVE  CapInv'
<1> DEFINE T == Writing
           TN == {n \in FleetNodes : \E b \in T : act[b].n = n}
<1>1. /\ T \in SUBSET Actors /\ TN \in SUBSET FleetNodes /\ ActiveNodes \in SUBSET FleetNodes
      /\ Launching' \in SUBSET Actors /\ T \cap Launching' = {} /\ T \cup Launching' \in SUBSET Actors
  BY DEF Writing, Launching, LaunchBegins, Others, ActiveNodes, NodesIn
<1>2. Held' \subseteq ActiveNodes \cup TN
  BY Counted, CountedNext DEF LaunchBegins, Others, NodesStay, FleetInv, Held, Writing
<1>3. Cardinality(TN) <= Cardinality(T)
  <2> DEFINE f == [b \in T |-> act[b].n]
  <2>1. \A b \in T : act[b].n \in TN
    BY DEF Writing, FleetInv, FleetTyping
  <2>2. f \in Surjection(T, TN)
    BY <2>1 DEF Surjection
  <2> HIDE DEF T, TN, f
  <2> QED
    BY <1>1, <2>2, SomeActors, FS_Surjection
<1> HIDE DEF T, TN
<1>4. /\ Cardinality(T) \in Nat /\ IsFiniteSet(T) /\ Cardinality(Launching') \in Nat /\ IsFiniteSet(Launching')
      /\ Cardinality(T \cup Launching') <= Cardinality(Actors) /\ Cardinality(Actors) \in Nat
  BY <1>1, SomeActors
<1>5. Cardinality(T) + Cardinality(Launching') <= Cardinality(Actors)
  BY <1>1, <1>4, UnionCounts
<1>6. /\ IsFiniteSet(TN) /\ Cardinality(TN) \in Nat /\ IsFiniteSet(ActiveNodes) /\ Cardinality(ActiveNodes) \in Nat
      /\ ActiveNodes \cup TN \in SUBSET FleetNodes
  BY <1>1, SomeNodes
<1>7. Cardinality(ActiveNodes \cup TN) <= Cardinality(ActiveNodes) + Cardinality(TN)
      /\ IsFiniteSet(ActiveNodes \cup TN) /\ Cardinality(ActiveNodes \cup TN) \in Nat
  BY <1>6, UnionCounts
<1>8. Cardinality(Held') <= Cardinality(ActiveNodes \cup TN) /\ Cardinality(Held') \in Nat
  BY <1>2, <1>7, FS_Subset, FS_CardinalityType
<1>9. Cardinality(ActiveNodes) < MaxNodes
  BY DEF LaunchBegins
<1> QED
  BY <1>3, <1>4, <1>5, <1>6, <1>7, <1>8, <1>9, Numbers DEF CapInv

\* The launch gives its place to the node.
LEMMA CapAtCommit ==
    ASSUME FleetInv, FleetInv', CapInv, NEW a \in Actors, NodeComes(a)
    PROVE  CapInv'
<1> DEFINE n == act[a].n
<1>1. n \in FleetNodes /\ a \in Launching /\ Launching' = Launching \ {a}
  BY IdleWork DEF NodeComes, Others, Launching, FleetInv, FleetTyping
<1>2. Held' \subseteq Held \cup {n}
  BY Counted, CountedNext, IdleWork DEF NodeComes, Others, NodesStay, FleetInv, Held, Writing
<1>3. Held \subseteq FleetNodes /\ Launching \subseteq Actors
  BY DEF Held, ActiveNodes, NodesIn, Launching
<1> HIDE DEF n
<1>4. /\ IsFiniteSet(Held) /\ IsFiniteSet(Launching)
      /\ Cardinality(Held) \in Nat /\ Cardinality(Launching) \in Nat /\ Cardinality(Actors) \in Nat
  BY <1>3, SomeNodes, SomeActors
<1>5. Cardinality(Launching') = Cardinality(Launching) - 1
  BY <1>1, <1>4, FS_RemoveElement
<1>6. IsFiniteSet(Held \cup {n}) /\ Cardinality(Held \cup {n}) <= Cardinality(Held) + 1
      /\ Cardinality(Held \cup {n}) \in Nat
  BY <1>4, OneMore
<1>7. Cardinality(Held') <= Cardinality(Held \cup {n}) /\ Cardinality(Held') \in Nat
  BY <1>2, <1>6, FS_Subset, FS_CardinalityType
<1> QED
  BY <1>4, <1>5, <1>6, <1>7, Numbers DEF CapInv

LEMMA CapStep ==
    ASSUME FleetInv, FleetInv', CapInv, [FleetNext]_fleetVars
    PROVE  CapInv'
<1>1. ASSUME \/ Calm \/ NodeLeaves
             \/ \E a \in Actors : ChecksPassed(a) \/ ScaleInGoesOn(a) \/ NodeGoes(a)
      PROVE  CapInv'
  <2> USE DEF Held, Writing, Launching
  <2>1. CASE Calm
    <3>1. Held' \subseteq Held
      BY <2>1, Counted, CountedNext DEF Calm, NodesStay, FleetInv
    <3>2. Launching' \subseteq Launching
      BY <2>1 DEF Calm
    <3> HIDE DEF Held, Launching
    <3> QED
      BY <3>1, <3>2, CapShrinks
  <2>2. ASSUME NEW a \in Actors, ChecksPassed(a) \/ ScaleInGoesOn(a) \/ NodeGoes(a) PROVE CapInv'
    <3>1. ActiveNodes' \subseteq Held
      BY <2>2, Counted, CountedNext DEF ChecksPassed, ScaleInGoesOn, NodeGoes, NodesStay, FleetInv
    <3>2. ASSUME NEW b \in Writing', act'[b].n \in FleetNodes PROVE act'[b].n \in Held
      BY <2>2, <3>2, Counted, CountedNext, IdleWork DEF ChecksPassed, ScaleInGoesOn, NodeGoes, Others, FleetInv
    <3>3. Launching' \subseteq Launching
      BY <2>2, IdleWork DEF ChecksPassed, ScaleInGoesOn, NodeGoes, Others
    <3>4. Held' \subseteq Held
      BY <3>1, <3>2
    <3> HIDE DEF Held, Launching
    <3> QED
      BY <3>3, <3>4, CapShrinks
  <2>3. CASE NodeLeaves
    <3>1. Held' \subseteq Held
      BY <2>3, Counted, CountedNext DEF NodeLeaves, NodesStay, FleetInv, Live
    <3>2. Launching' \subseteq Launching
      BY <2>3 DEF NodeLeaves
    <3> HIDE DEF Held, Launching
    <3> QED
      BY <3>1, <3>2, CapShrinks
  <2> QED
    BY <1>1, <2>1, <2>2, <2>3
<1> QED
  BY <1>1, StepsHaveShape, CapAtLaunch, CapAtCommit DEF Shape

\* max_nodes is passed by at most the other launches that were under way when a loop, an
\* admin call or a worker last decided to add a node, for any number of them
\* (provision_one_from_fleet_decision, maybe_provision_on_no_schedulable_capacity).
THEOREM OvershootBoundedAlways == FleetSpec => []OvershootBounded
<1>1. FleetInit => FleetInv /\ CapInv
  BY FleetStart, CapStart
<1>2. FleetInv /\ CapInv /\ [FleetNext]_fleetVars => (FleetInv /\ CapInv)'
  BY FleetStep, CapStep
<1>3. ASSUME FleetInv, CapInv PROVE OvershootBounded
  <2>1. Held \in SUBSET FleetNodes /\ ActiveNodes \in SUBSET Held /\ Launching \in SUBSET Actors
    BY DEF Held, ActiveNodes, NodesIn, Launching
  <2>2. /\ IsFiniteSet(Held) /\ Cardinality(Held) \in Nat /\ Cardinality(Launching) \in Nat
        /\ Cardinality(Actors) \in Nat
    BY <2>1, SomeNodes, SomeActors
  <2>3. Cardinality(ActiveNodes) <= Cardinality(Held) /\ Cardinality(ActiveNodes) \in Nat
    BY <2>1, <2>2, FS_Subset, FS_CardinalityType
  <2> QED
    BY <1>3, <2>2, <2>3, Numbers DEF CapInv, OvershootBounded
<1> QED
  BY <1>1, <1>2, <1>3, PTL DEF FleetSpec

-----------------------------------------------------------------------------
(* max_workspaces *)

Counts(w, n) == wsp[w].node = n /\ wsp[w].st \notin {"stopped", "error", "deleted"}

Brings(a, w, n) == act[a].pc = "bringup" /\ act[a].w = w /\ act[a].n = n

\* The workspaces that have or will have a slot of n, those sent back to it left out.
Holding(n) == {w \in Workspaces \ back : Counts(w, n) \/ \E a \in Workers : Brings(a, w, n)}

\* Only the scheduler gives a slot to a workspace that had none.
LEMMA RequestsGiveNoSlot ==
    ASSUME FleetInv, NEW n \in FleetNodes, NEW w \in Workspaces,
           RequestCreate(w) \/ RequestStart(w) \/ Stops(w) \/ Deletes(w) \/ WaitTimesOut(w)
    PROVE  Holding(n)' \subseteq Holding(n)
<1>0. Nowhere # n
  BY FleetAssumption
<1>1. /\ UNCHANGED act /\ back \subseteq back'
      /\ \A x \in Workspaces : wsp'[x].node = wsp[x].node
      /\ \A x \in Workspaces \ {w} : wsp'[x] = wsp[x]
  BY DEF RequestCreate, RequestStart, Stops, Deletes, WaitTimesOut, FleetInv, FleetTyping, WspRow
<1>2. w \notin back' => (Counts(w, n)' => Counts(w, n))
  BY <1>0, <1>1 DEF RequestCreate, RequestStart, Stops, Deletes, WaitTimesOut, FleetInv, FleetTyping, WspRow, Counts
<1>3. \A x \in Workspaces, a \in Workers : Brings(a, x, n)' <=> Brings(a, x, n)
  BY <1>1 DEF Brings
<1>4. \A x \in Workspaces \ {w} : Counts(x, n)' <=> Counts(x, n)
  BY <1>1 DEF Counts
<1> QED
  BY <1>1, <1>2, <1>3, <1>4 DEF Holding

LEMMA WorkersIdleGiveNoSlot ==
    ASSUME UNCHANGED <<wsp, back>>, NEW n \in FleetNodes,
           \A b \in Workers : act'[b] = act[b] \/ act'[b].pc # "bringup"
    PROVE  Holding(n)' \subseteq Holding(n)
BY DEF Holding, Counts, Brings

LEMMA ScalersGiveNoSlot ==
    ASSUME FleetInv, NEW n \in FleetNodes, NEW a \in Scalers, ScalerNext(a)
    PROVE  Holding(n)' \subseteq Holding(n)
<1>1. a \in Actors /\ act \in [Actors -> Work] /\ \A b \in Workers : b \in Actors /\ b # a
  BY FleetAssumption DEF FleetInv, FleetTyping, Actors
<1>2. UNCHANGED <<wsp, back>> /\ \A b \in Workers : act'[b] = act[b]
  <2>1. ASSUME NEW up \in SUBSET FleetNodes, NEW m \in FleetNodes,
               ScaleOutTick(a, up, m) \/ ScaleInDecision(a, up, m)
        PROVE  UNCHANGED <<wsp, back>> /\ \A b \in Workers : act'[b] = act[b]
    BY <1>1, <2>1 DEF ScaleOutTick, ScaleInDecision
  <2>2. CASE DrainChecks(a) \/ DrainCommits(a)
    BY <1>1, <2>2 DEF DrainChecks, DrainCommits
  <2>3. CASE Recheck(a)
    BY <1>1, <2>3 DEF Recheck
  <2>4. CASE ActorDies(a) \/ \E st \in {"TERMINATED", "TERMINATING", "ERROR"} : TerminateEnds(a, st)
    BY <1>1, <2>4 DEF ActorDies, TerminateEnds
  <2> QED
    BY <2>1, <2>2, <2>3, <2>4 DEF ScalerNext
<1> QED
  BY <1>2, WorkersIdleGiveNoSlot

LEMMA LaunchesGiveNoSlot ==
    ASSUME FleetInv, NEW n \in FleetNodes, NEW a \in Actors,
           \/ LaunchCommits(a) \/ LaunchFails(a)
           \/ \E w \in Workspaces, m \in FleetNodes : NoCapacity(a, w, m)
    PROVE  Holding(n)' \subseteq Holding(n)
<1>1. \A b \in Workers : b \in Actors
  BY DEF Actors
<1>2. UNCHANGED <<wsp, back>> /\ \A b \in Workers : act'[b] = act[b] \/ act'[b].pc # "bringup"
  <2>1. CASE LaunchCommits(a) \/ LaunchFails(a)
    BY <1>1, <2>1, Changed, IdleWork DEF LaunchCommits, LaunchFails, Others
  <2>2. ASSUME NEW w \in Workspaces, NEW m \in FleetNodes, NoCapacity(a, w, m)
        PROVE  UNCHANGED <<wsp, back>> /\ \A b \in Workers : act'[b] = act[b] \/ act'[b].pc # "bringup"
    <3> DEFINE v == [Idle EXCEPT !.pc = "launch", !.w = w, !.n = m]
    <3>1. v.pc = "launch"
      BY WorkOnJob
    <3>2. UNCHANGED <<wsp, back>> /\ (act' = [act EXCEPT ![a] = v] \/ act' = act)
      BY <2>2 DEF NoCapacity
    <3> HIDE DEF v
    <3> QED
      BY <1>1, <3>1, <3>2, Changed DEF Others
  <2> QED
    BY <2>1, <2>2
<1> QED
  BY <1>2, WorkersIdleGiveNoSlot

\* START goes back to the node that counted it, and a bring-up that ends had its slot.
LEMMA JobsGiveNoSlot ==
    ASSUME FleetInv, NEW n \in FleetNodes, NEW a \in Workers,
           \/ \E w \in Workspaces : Reuse(a, w)
           \/ BringUpDone(a) \/ \E st \in {"queued", "error"} : BringUpFails(a, st)
    PROVE  Holding(n)' \subseteq Holding(n)
<1>0. a \in Actors /\ wsp \in [Workspaces -> WspRow] /\ UNCHANGED back /\ \A b \in Workers : b \in Actors
  BY DEF Actors, FleetInv, FleetTyping, Reuse, BringUpDone, BringUpFails
<1>1. ASSUME NEW w \in Workspaces, Reuse(a, w) PROVE Holding(n)' \subseteq Holding(n)
  <2>1. wsp[w].node \in FleetNodes /\ wsp[w].st = "queued"
    BY <1>0, <1>1 DEF Reuse, WspRow
  <2>2. act'[a].w = w /\ act'[a].n = wsp[w].node /\ Others(a)
    <3> DEFINE m == wsp[w].node
    <3>1. m \in FleetNodes /\ act' = [act EXCEPT ![a] = [Idle EXCEPT !.pc = "bringup", !.w = w, !.n = m]]
      BY <1>1, <2>1 DEF Reuse
    <3> HIDE DEF m
    <3>2. act'[a].w = w /\ act'[a].n = m /\ Others(a)
      BY <1>0, <3>1, JobTaken
    <3> QED
      BY <3>2 DEF m
  <2>3. wsp'[w].node = wsp[w].node /\ \A x \in Workspaces \ {w} : wsp'[x] = wsp[x]
    BY <1>0, <1>1 DEF Reuse, WspRow
  <2>4. \A x \in Workspaces : Counts(x, n)' => Counts(x, n)
    BY <2>1, <2>3 DEF Counts
  <2>5. \A x \in Workspaces, b \in Workers : Brings(b, x, n)' => Brings(b, x, n) \/ Counts(x, n)
    BY <1>0, <2>1, <2>2 DEF Brings, Counts, Others
  <2> QED
    BY <1>0, <2>4, <2>5 DEF Holding
<1>2. CASE BringUpDone(a) \/ \E st \in {"queued", "error"} : BringUpFails(a, st)
  <2>1. act[a].pc = "bringup" /\ act'[a] = Idle /\ Others(a)
    BY <1>0, <1>2, Changed DEF BringUpDone, BringUpFails
  <2>2. act[a].w \in Workspaces /\ wsp[act[a].w].st = "bringup"
    BY <1>0, <2>1 DEF FleetInv, WorkInv
  <2>3. \A x \in Workspaces : Counts(x, n)' => Counts(x, n) \/ Brings(a, x, n)
    <3>1. CASE BringUpDone(a)
      BY <1>0, <2>1, <3>1 DEF BringUpDone, Counts, Brings
    <3>2. ASSUME NEW st \in {"queued", "error"}, BringUpFails(a, st)
          PROVE  \A x \in Workspaces : Counts(x, n)' => Counts(x, n) \/ Brings(a, x, n)
      BY <1>0, <2>2, <3>2 DEF BringUpFails, Counts, WspRow
    <3> QED
      BY <1>2, <3>1, <3>2
  <2>4. \A x \in Workspaces, b \in Workers : Brings(b, x, n)' => Brings(b, x, n)
    BY <1>0, <2>1, IdleWork DEF Brings, Others
  <2> QED
    BY <1>0, <2>3, <2>4 DEF Holding
<1> QED
  BY <1>1, <1>2

\* The scheduler counts what is written; what the other workers bring up is not.
LEMMA ScheduleCounts ==
    ASSUME FleetInv, NEW n \in FleetNodes, NEW a \in Workers, NEW w \in Workspaces, Schedule(a, w, n)
    PROVE  Cardinality(Holding(n)') <= MaxWorkspaces + Cardinality(Workers) - 1
<1> DEFINE C == {x \in Workspaces : Counts(x, n)}
           P == {b \in Workers \ {a} : act[b].pc = "bringup" /\ act[b].n = n}
           X == {x \in Workspaces : \E b \in P : act[b].w = x}
<1>0. a \in Actors /\ wsp \in [Workspaces -> WspRow] /\ \A b \in Workers : b \in Actors
  BY DEF Actors, FleetInv, FleetTyping
<1>1. Holding(n)' \subseteq (C \cup X) \cup {w}
  <2>1. act'[a].w = w /\ Others(a)
    BY <1>0, JobTaken DEF Schedule
  <2>2. \A x \in Workspaces : x # w => (Counts(x, n)' => Counts(x, n))
    BY <1>0 DEF Schedule, Counts
  <2>3. \A x \in Workspaces, b \in Workers : Brings(b, x, n)' => x = w \/ (b \in P /\ act[b].w = x)
    BY <1>0, <2>1 DEF Brings, Others
  <2> QED
    BY <2>2, <2>3 DEF Holding
<1>2. Cardinality(C) + 1 <= MaxWorkspaces
  BY DEF Schedule, BestFit, Candidates, Fits, Claims, Counts
<1>3. IsFiniteSet(C) /\ IsFiniteSet(X) /\ IsFiniteSet(P) /\ IsFiniteSet(Workers \ {a})
  <2>1. C \in SUBSET Workspaces /\ X \in SUBSET Workspaces /\ P \in SUBSET Workers
        /\ (Workers \ {a}) \in SUBSET Workers
    OBVIOUS
  <2> HIDE DEF C, P, X
  <2> QED
    BY <2>1, Numbers, FS_Subset
<1>4. Cardinality(X) <= Cardinality(P)
  <2> DEFINE f == [b \in P |-> act[b].w]
  <2>1. \A b \in P : act[b].w \in X
    BY <1>0 DEF FleetInv, WorkInv
  <2>2. f \in Surjection(P, X)
    BY <2>1 DEF Surjection
  <2> HIDE DEF P, X, f
  <2> QED
    BY <1>3, <2>2, FS_Surjection
<1>5. Cardinality(P) <= Cardinality(Workers) - 1 /\ Cardinality(Workers) \in Nat
  <2>1. Cardinality(Workers \ {a}) = Cardinality(Workers) - 1 /\ Cardinality(Workers) \in Nat
    BY Numbers, FS_RemoveElement, FS_CardinalityType
  <2>2. P \in SUBSET (Workers \ {a})
    OBVIOUS
  <2> HIDE DEF P
  <2>3. Cardinality(P) <= Cardinality(Workers \ {a})
    BY <1>3, <2>2, FS_Subset
  <2> QED
    BY <2>1, <2>3
<1> HIDE DEF C, P, X
<1>6. IsFiniteSet(C \cup X) /\ Cardinality(C \cup X) <= Cardinality(C) + Cardinality(X)
  BY <1>3, UnionCounts
<1>7. /\ IsFiniteSet((C \cup X) \cup {w}) /\ Cardinality((C \cup X) \cup {w}) <= Cardinality(C \cup X) + 1
      /\ Cardinality((C \cup X) \cup {w}) \in Nat /\ Cardinality(C \cup X) \in Nat
  BY <1>6, OneMore
<1>8. /\ Cardinality(Holding(n)') <= Cardinality((C \cup X) \cup {w}) /\ Cardinality(Holding(n)') \in Nat
  BY <1>1, <1>7, FS_Subset, FS_CardinalityType
<1>9. Cardinality(C) \in Nat /\ Cardinality(X) \in Nat /\ Cardinality(P) \in Nat
  BY <1>3, FS_CardinalityType
<1> QED
  BY <1>2, <1>4, <1>5, <1>6, <1>7, <1>8, <1>9, Numbers

SlotInv == \A n \in FleetNodes : Cardinality(Holding(n)) <= MaxWorkspaces + Cardinality(Workers) - 1

LEMMA SlotsShrink ==
    ASSUME SlotInv, NEW n \in FleetNodes, Holding(n)' \subseteq Holding(n)
    PROVE  Cardinality(Holding(n)') <= MaxWorkspaces + Cardinality(Workers) - 1
<1>1. Holding(n) \in SUBSET Workspaces
  BY DEF Holding
<1>2. IsFiniteSet(Holding(n)) /\ Cardinality(Holding(n)) \in Nat /\ Cardinality(Workers) \in Nat
  BY <1>1, Numbers, FS_Subset, FS_CardinalityType
<1>3. Cardinality(Holding(n)') <= Cardinality(Holding(n)) /\ Cardinality(Holding(n)') \in Nat
  BY <1>2, FS_Subset, FS_CardinalityType
<1> QED
  BY <1>2, <1>3, Numbers DEF SlotInv

LEMMA SlotStep ==
    ASSUME FleetInv, SlotInv, [FleetNext]_fleetVars
    PROVE  SlotInv'
<1> DEFINE Fine(n) == Cardinality(Holding(n)') <= MaxWorkspaces + Cardinality(Workers) - 1
<1> SUFFICES ASSUME NEW n \in FleetNodes PROVE Fine(n)
  BY DEF SlotInv
<1>1. Holding(n)' \subseteq Holding(n) => Fine(n)
  BY SlotsShrink
<1> HIDE DEF Fine
<1>2. ASSUME NEW w \in Workspaces,
             RequestCreate(w) \/ RequestStart(w) \/ Stops(w) \/ Deletes(w) \/ WaitTimesOut(w)
      PROVE  Fine(n)
  BY <1>1, <1>2, RequestsGiveNoSlot
<1>3. ASSUME NEW a \in Workers, WorkerNext(a) PROVE Fine(n)
  <2>1. a \in Actors /\ wsp \in [Workspaces -> WspRow] /\ \A b \in Workers : b \in Actors
    BY DEF Actors, FleetInv, FleetTyping
  <2>2. ASSUME NEW w \in Workspaces, NEW m \in FleetNodes, Schedule(a, w, m) PROVE Fine(n)
    <3>1. CASE m = n
      BY <2>2, <3>1, ScheduleCounts DEF Fine
    <3>2. CASE m # n
      <4>0. /\ act' = [act EXCEPT ![a] = [Idle EXCEPT !.pc = "bringup", !.w = w, !.n = m]]
            /\ UNCHANGED back
        BY <2>2 DEF Schedule
      <4>1. act'[a].n = m /\ Others(a) /\ UNCHANGED back
        BY <2>1, <4>0, JobTaken
      <4>2. wsp[w].node # n /\ wsp'[w].node # n /\ \A x \in Workspaces \ {w} : wsp'[x] = wsp[x]
        BY <2>1, <2>2, FleetAssumption DEF Schedule, WspRow
      <4>3. Holding(n)' \subseteq Holding(n)
        BY <2>1, <3>2, <4>1, <4>2 DEF Holding, Counts, Brings, Others
      <4> QED
        BY <1>1, <4>3
    <3> QED
      BY <3>1, <3>2
  <2>3. CASE \E w \in Workspaces, m \in FleetNodes : NoCapacity(a, w, m)
    BY <1>1, <2>1, <2>3, LaunchesGiveNoSlot
  <2>4. CASE \/ \E w \in Workspaces : Reuse(a, w)
             \/ BringUpDone(a) \/ \E st \in {"queued", "error"} : BringUpFails(a, st)
    BY <1>1, <2>4, JobsGiveNoSlot
  <2> QED
    BY <1>3, <2>2, <2>3, <2>4 DEF WorkerNext
<1>4. ASSUME NEW a \in Scalers, ScalerNext(a) PROVE Fine(n)
  BY <1>1, <1>4, ScalersGiveNoSlot
<1>5. ASSUME NEW a \in Actors, LaunchCommits(a) \/ LaunchFails(a) PROVE Fine(n)
  BY <1>1, <1>5, LaunchesGiveNoSlot
<1>6. CASE \/ \E m \in FleetNodes : NodeAges(m) \/ NodeFoundGone(m)
           \/ CooldownEnds \/ SignalsExpire \/ UNCHANGED fleetVars
  <2>1. UNCHANGED <<wsp, back, act>>
    BY <1>6 DEF NodeAges, NodeFoundGone, CooldownEnds, SignalsExpire, fleetVars
  <2> QED
    BY <1>1, <2>1, WorkersIdleGiveNoSlot
<1> QED
  BY <1>2, <1>3, <1>4, <1>5, <1>6 DEF FleetNext

\* The slots of a node are passed by at most the bring-ups the other workers had under way
\* when the scheduler counted, for any number of workers; START, which goes back to its
\* node unasked, is left out of the count (select_node_for_workspace).
THEOREM SlotOvershootBoundedAlways == FleetSpec => []SlotOvershootBounded
<1>1. FleetInit => FleetInv /\ SlotInv
  <2> SUFFICES ASSUME FleetInit, NEW n \in FleetNodes
               PROVE  Cardinality(Holding(n)) <= MaxWorkspaces + Cardinality(Workers) - 1
    BY FleetStart DEF SlotInv
  <2>1. Holding(n) = {}
    BY FleetAssumption, IdleWork DEF FleetInit, Holding, Counts, Brings, Actors
  <2>2. Cardinality(Workers) # 0 /\ Cardinality(Workers) \in Nat
    BY FleetAssumption, Numbers, FS_EmptySet, FS_CardinalityType
  <2> QED
    BY <2>1, <2>2, FS_EmptySet, Numbers
<1>2. FleetInv /\ SlotInv /\ [FleetNext]_fleetVars => (FleetInv /\ SlotInv)'
  BY FleetStep, SlotStep
<1>3. SlotInv => SlotOvershootBounded
  BY DEF SlotInv, SlotOvershootBounded, Holding, Counts, Brings
<1> QED
  BY <1>1, <1>2, <1>3, PTL DEF FleetSpec

-----------------------------------------------------------------------------
(* Pins, with one scale-in at a time *)

OneScaler == \A a, b \in Scalers : a = b

Pinned(w, n) == wsp[w].node = n /\ wsp[w].st # "deleted"

\* Nodes only come up, and nothing is pinned that was not.
NodesComeUp ==
    \A m \in FleetNodes : \/ nst'[m] = nst[m]
                          \/ nst[m] \in {"ABSENT", "PROVISIONING"} /\ nst'[m] \in {"PROVISIONING", "READY"}

LEMMA PinsStay ==
    ASSUME FleetInv, FleetInv', PinInv, NodesComeUp, late \subseteq late',
           \A w \in Workspaces, n \in FleetNodes : Pinned(w, n)' => Pinned(w, n),
           \A b \in Actors : act'[b] = act[b] \/ act'[b].pc \notin {"recheck", "terminate"}
    PROVE  PinInv'
<1>1. \A b \in Actors : act'[b].pc \in {"recheck", "terminate"} => act'[b] = act[b]
  OBVIOUS
<1>2. \A b \in Actors : act'[b].pc \in {"recheck", "terminate"} =>
        act[b].n \in FleetNodes /\ nst[act[b].n] \notin {"ABSENT", "PROVISIONING", "READY"}
  BY <1>1 DEF FleetInv, FleetTyping, WorkInv, ScalingIn, PinInv
<1>3. \A b \in Actors : act'[b].pc \in {"recheck", "terminate"} =>
        nst'[act'[b].n] \notin {"PROVISIONING", "READY"}
  BY <1>1, <1>2 DEF NodesComeUp
<1>4. \A b \in Actors : act'[b].pc = "terminate" =>
        \A w \in Workspaces : wsp'[w].node = act'[b].n /\ wsp'[w].st # "deleted" => w \in late'
  BY <1>1, <1>2 DEF PinInv, Pinned
<1>5. PinsKept'
  <2> SUFFICES ASSUME NEW w \in Workspaces, wsp'[w].node # Nowhere, wsp'[w].st # "deleted", w \notin late'
               PROVE  nst'[wsp'[w].node] \notin LeftBehind
    BY DEF PinsKept
  <2>1. wsp'[w].node \in FleetNodes
    BY DEF FleetInv, FleetTyping, WspRow
  <2>2. Pinned(w, wsp'[w].node)
    BY <2>1 DEF Pinned
  <2>3. nst[wsp'[w].node] \notin LeftBehind
    BY <2>2 DEF PinInv, PinsKept, Pinned
  <2> QED
    BY <2>1, <2>3 DEF NodesComeUp, LeftBehind
<1> QED
  BY <1>3, <1>4, <1>5 DEF PinInv

LEMMA RequestsKeepPins ==
    ASSUME FleetInv, FleetInv', PinInv, NEW w \in Workspaces,
           RequestCreate(w) \/ RequestStart(w) \/ Stops(w) \/ Deletes(w) \/ WaitTimesOut(w)
    PROVE  PinInv'
<1>1. UNCHANGED <<nst, act, late>>
  BY DEF RequestCreate, RequestStart, Stops, Deletes, WaitTimesOut
<1>2. \A x \in Workspaces, n \in FleetNodes : Pinned(x, n)' => Pinned(x, n)
  BY DEF RequestCreate, RequestStart, Stops, Deletes, WaitTimesOut, FleetInv, FleetTyping, WspRow, Pinned
<1> QED
  BY <1>1, <1>2, PinsStay DEF NodesComeUp

\* A pin that arrives while its node is drained is late.
LEMMA BringUpDonePins ==
    ASSUME FleetInv, PinInv, NEW a \in Workers, BringUpDone(a)
    PROVE  PinInv'
<1> DEFINE w == act[a].w
           n == act[a].n
<1>0. a \in Actors /\ act[a].pc = "bringup"
  BY DEF BringUpDone, Actors
<1>1. w \in Workspaces /\ n \in FleetNodes
  BY <1>0 DEF FleetInv, FleetTyping, WorkInv
<1>2. /\ act'[a] = Idle /\ Others(a) /\ UNCHANGED nst
      /\ wsp'[w] = [st |-> "running", node |-> n] /\ \A x \in Workspaces \ {w} : wsp'[x] = wsp[x]
      /\ late \subseteq late' /\ (nst[n] # "READY" => w \in late')
  BY <1>0, <1>1, Changed DEF BringUpDone, FleetInv, FleetTyping
<1> HIDE DEF w, n
<1>3. wsp'[w].node = n
  BY <1>2
<1>4. \A b \in Actors : act'[b].pc \in {"recheck", "terminate"} => act'[b] = act[b]
  BY <1>2, IdleWork DEF Others
<1>5. PinsKept'
  BY <1>1, <1>2, <1>3 DEF PinInv, PinsKept, LeftBehind
<1>6. \A b \in Actors : act'[b].pc = "terminate" =>
        \A x \in Workspaces : wsp'[x].node = act'[b].n /\ wsp'[x].st # "deleted" => x \in late'
  BY <1>1, <1>2, <1>3, <1>4 DEF PinInv
<1> QED
  BY <1>2, <1>4, <1>5, <1>6 DEF PinInv

LEMMA WorkersKeepPins ==
    ASSUME FleetInv, FleetInv', PinInv, NEW a \in Workers, WorkerNext(a)
    PROVE  PinInv'
<1>0. a \in Actors /\ wsp \in [Workspaces -> WspRow]
  BY DEF Actors, FleetInv, FleetTyping
<1>1. ASSUME NEW w \in Workspaces, NEW n \in FleetNodes, Schedule(a, w, n) PROVE PinInv'
  <2>1. act' = [act EXCEPT ![a] = [Idle EXCEPT !.pc = "bringup", !.w = w, !.n = n]] /\ UNCHANGED <<nst, late>>
    BY <1>1 DEF Schedule
  <2>2. act'[a].pc = "bringup" /\ Others(a)
    BY <1>0, <2>1, JobTaken
  <2>3. \A x \in Workspaces, m \in FleetNodes : Pinned(x, m)' => Pinned(x, m)
    BY <1>0, <1>1, FleetAssumption DEF Schedule, WspRow, Pinned
  <2> QED
    BY <2>1, <2>2, <2>3, PinsStay DEF NodesComeUp, Others
<1>2. ASSUME NEW w \in Workspaces, Reuse(a, w) PROVE PinInv'
  <2> DEFINE n == wsp[w].node
  <2>1. /\ n \in FleetNodes /\ act' = [act EXCEPT ![a] = [Idle EXCEPT !.pc = "bringup", !.w = w, !.n = n]]
        /\ UNCHANGED <<nst, late>>
    BY <1>0, <1>2 DEF Reuse, WspRow
  <2>2. \A x \in Workspaces, m \in FleetNodes : Pinned(x, m)' => Pinned(x, m)
    BY <1>0, <1>2 DEF Reuse, WspRow, Pinned
  <2> HIDE DEF n
  <2>3. act'[a].pc = "bringup" /\ Others(a)
    BY <1>0, <2>1, JobTaken
  <2> QED
    BY <2>1, <2>2, <2>3, PinsStay DEF NodesComeUp, Others
<1>3. ASSUME NEW st \in {"queued", "error"}, BringUpFails(a, st) PROVE PinInv'
  <2>1. act[a].pc = "bringup" /\ act'[a] = Idle /\ Others(a) /\ UNCHANGED <<nst, late>>
    BY <1>0, <1>3, Changed DEF BringUpFails
  <2>2. act[a].w \in Workspaces /\ wsp[act[a].w].st = "bringup"
    BY <1>0, <2>1 DEF FleetInv, WorkInv
  <2>3. \A x \in Workspaces, m \in FleetNodes : Pinned(x, m)' => Pinned(x, m)
    BY <1>0, <1>3, <2>2 DEF BringUpFails, WspRow, Pinned
  <2> QED
    BY <2>1, <2>3, IdleWork, PinsStay DEF NodesComeUp, Others
<1>4. ASSUME NEW w \in Workspaces, NEW n \in FleetNodes, NoCapacity(a, w, n) PROVE PinInv'
  <2> DEFINE v == [Idle EXCEPT !.pc = "launch", !.w = w, !.n = n]
  <2>1. (act' = [act EXCEPT ![a] = v] \/ act' = act) /\ UNCHANGED <<nst, late, wsp>>
    BY <1>4 DEF NoCapacity
  <2>2. v.pc = "launch"
    BY WorkOnJob
  <2> HIDE DEF v
  <2>3. \A b \in Actors : act'[b] = act[b] \/ act'[b].pc = "launch"
    BY <1>0, <2>1, <2>2, Changed DEF Others
  <2> QED
    BY <2>1, <2>3, PinsStay DEF NodesComeUp, Pinned
<1> QED
  BY <1>1, <1>2, <1>3, <1>4, BringUpDonePins DEF WorkerNext

LEMMA LaunchesKeepPins ==
    ASSUME FleetInv, FleetInv', PinInv, NEW a \in Actors, LaunchCommits(a) \/ LaunchFails(a)
    PROVE  PinInv'
<1>1. act'[a] = Idle /\ Others(a) /\ UNCHANGED <<wsp, late>>
  BY Changed DEF LaunchCommits, LaunchFails
<1>2. NodesComeUp
  BY DEF LaunchCommits, LaunchFails, NodesComeUp
<1> QED
  BY <1>1, <1>2, IdleWork, PinsStay DEF Others, Pinned

\* The recount of execute_scale_down finds nobody only when nobody is pinned.
LEMMA Recounted ==
    ASSUME NEW n \in FleetNodes, ScaleDownCount(n) = 0
    PROVE  \A w \in Workspaces : ~Pinned(w, n)
<1> DEFINE S == {w \in Workspaces : Pinned(w, n)}
<1>1. IsFiniteSet(S) /\ Cardinality(S) = 0
  BY Numbers, FS_Subset DEF ScaleDownCount, Pinned
<1>2. S = {}
  BY <1>1, FS_EmptySet
<1> QED
  BY <1>2

LEMMA ScalersKeepPins ==
    ASSUME OneScaler, FleetInv, FleetInv', PinInv, NEW a \in Scalers, ScalerNext(a)
    PROVE  PinInv'
<1> DEFINE n == act[a].n
<1>0. a \in Actors /\ act[a] \in Work /\ nst \in [FleetNodes -> NodeSt] /\ UNCHANGED <<wsp, late>>
  BY DEF Actors, FleetInv, FleetTyping, ScalerNext, ScaleOutTick, ScaleInDecision, DrainChecks,
         DrainCommits, Recheck, TerminateEnds, ActorDies
<1>1. /\ \A b \in Actors : act[b].pc \in {"recheck", "terminate"} => b = a
      /\ \A b \in Actors : act'[b].pc \in {"recheck", "terminate"} => b = a
  BY DEF OneScaler, FleetInv, WorkInv, ScalingIn
<1>2. act[a].pc \in ScalingIn => n \in FleetNodes /\ nst[n] # "ABSENT"
  BY <1>0 DEF FleetInv, FleetTyping, WorkInv, ScalingIn
<1>3. ASSUME NodesComeUp, act' = act \/ (act'[a] = Idle /\ Others(a)) PROVE PinInv'
  BY <1>0, <1>3, IdleWork, PinsStay DEF Others, Pinned
<1>4. ASSUME NEW up \in SUBSET FleetNodes, NEW m \in FleetNodes, ScaleOutTick(a, up, m) PROVE PinInv'
  <2> DEFINE v == [Idle EXCEPT !.pc = "launch", !.n = m, !.up = up]
  <2>1. v.pc = "launch"
    BY WorkOnNode
  <2>2. /\ up \subseteq NodesIn({"PROVISIONING"})
        /\ \/ act' = [act EXCEPT ![a] = v] /\ UNCHANGED nst
           \/ act' = act /\ nst' = Synced(up)
    BY <1>4 DEF ScaleOutTick
  <2> HIDE DEF v
  <2>3. NodesComeUp
    BY <2>2, SyncedNodes DEF NodesComeUp, FleetInv
  <2>4. \A b \in Actors : act'[b] = act[b] \/ act'[b].pc = "launch"
    BY <1>0, <2>1, <2>2, Changed DEF Others
  <2> QED
    BY <1>0, <2>3, <2>4, PinsStay DEF Pinned
<1>5. ASSUME NEW up \in SUBSET FleetNodes, NEW m \in FleetNodes, ScaleInDecision(a, up, m) PROVE PinInv'
  <2>1. /\ act' = [act EXCEPT ![a] = [Idle EXCEPT !.pc = "check", !.n = m, !.up = up]]
        /\ UNCHANGED nst
    BY <1>5 DEF ScaleInDecision
  <2>2. act'[a].pc = "check" /\ Others(a)
    BY <1>0, <2>1, NodePicked
  <2> QED
    BY <1>0, <2>1, <2>2, PinsStay DEF Others, Pinned, NodesComeUp
<1>6. CASE DrainChecks(a)
  <2>1. CASE act' = [act EXCEPT ![a].pc = "mark"] /\ nst' = nst
    <3>1. act'[a].pc = "mark" /\ Others(a)
      BY <1>0, <2>1, NextPhase
    <3> QED
      BY <1>0, <2>1, <3>1, PinsStay DEF Others, Pinned, NodesComeUp
  <2>2. CASE /\ act' = [act EXCEPT ![a] = Idle]
             /\ nst' = [m \in FleetNodes |->
                          IF m \in act[a].up /\ nst[m] = "PROVISIONING" THEN "READY" ELSE nst[m]]
    <3>1. NodesComeUp
      BY <2>2 DEF NodesComeUp
    <3> QED
      BY <1>0, <1>3, <2>2, <3>1, Changed
  <2> QED
    BY <1>6, <2>1, <2>2 DEF DrainChecks
<1>7. CASE DrainCommits(a)
  <2>1. act[a].pc = "mark" /\ act'[a].pc = "recheck" /\ act'[a].n = n /\ n \in FleetNodes
        /\ nst[n] # "ABSENT"
    BY <1>0, <1>2, <1>7, NextPhase DEF DrainCommits, ScalingIn
  <2>2. nst' = [m \in FleetNodes |->
                    IF m = n THEN "DRAINING"
                    ELSE IF m \in act[a].up /\ nst[m] = "PROVISIONING" THEN "READY" ELSE nst[m]]
    BY <1>7 DEF DrainCommits
  <2> HIDE DEF n
  <2>3. /\ nst'[n] = "DRAINING"
        /\ \A m \in FleetNodes : nst'[m] \in LeftBehind => nst'[m] = nst[m]
    BY <2>1, <2>2 DEF LeftBehind
  <2>4. PinsKept'
    BY <1>0, <2>3 DEF PinInv, PinsKept, FleetInv, FleetTyping, WspRow
  <2> QED
    BY <1>1, <2>1, <2>3, <2>4 DEF PinInv
<1>8. CASE Recheck(a)
  <2>1. act[a].pc = "recheck" /\ n \in FleetNodes
    BY <1>2, <1>8 DEF Recheck, ScalingIn
  <2>2. CASE act' = [act EXCEPT ![a] = Idle] /\ nst' = nst
    BY <1>0, <1>3, <2>2, Changed DEF NodesComeUp
  <2>3. CASE /\ nst' = [nst EXCEPT ![n] = IF @ = "DRAINING" THEN "READY" ELSE @]
             /\ act' = [act EXCEPT ![a] = Idle]
    <3>1. \A b \in Actors : act'[b].pc \notin {"recheck", "terminate"}
      BY <1>0, <1>1, <2>3, Changed, IdleWork
    <3>2. \A m \in FleetNodes : nst'[m] \in LeftBehind => nst'[m] = nst[m]
      BY <1>0, <2>1, <2>3 DEF LeftBehind
    <3>3. PinsKept'
      BY <1>0, <3>2 DEF PinInv, PinsKept, FleetInv, FleetTyping, WspRow
    <3> QED
      BY <3>1, <3>3 DEF PinInv
  <2>4. CASE act' = [act EXCEPT ![a].pc = "terminate"] /\ nst' = nst /\ ScaleDownCount(n) = 0
    <3>1. act'[a].pc = "terminate" /\ act'[a].n = n
      BY <1>0, <2>4, NextPhase
    <3>2. \A w \in Workspaces : ~Pinned(w, n)
      BY <2>1, <2>4, Recounted
    <3> HIDE DEF n
    <3>3. \A w \in Workspaces : wsp'[w].node = n /\ wsp'[w].st # "deleted" => w \in late'
      BY <1>0, <3>2 DEF Pinned
    <3>4. PinsKept' /\ nst'[n] \notin {"PROVISIONING", "READY"}
      BY <1>0, <2>1, <2>4 DEF PinInv, PinsKept, n
    <3> QED
      BY <1>1, <3>1, <3>3, <3>4 DEF PinInv
  <2> QED
    BY <1>8, <2>2, <2>3, <2>4 DEF Recheck
<1>9. ASSUME NEW st \in {"TERMINATED", "TERMINATING", "ERROR"}, TerminateEnds(a, st) PROVE PinInv'
  <2>1. /\ act[a].pc = "terminate" /\ n \in FleetNodes
        /\ act' = [act EXCEPT ![a] = Idle] /\ nst' = [nst EXCEPT ![n] = st]
    BY <1>2, <1>9 DEF TerminateEnds, ScalingIn
  <2>2. \A b \in Actors : act'[b].pc \notin {"recheck", "terminate"}
    BY <1>0, <1>1, <2>1, Changed, IdleWork
  <2>3. \A w \in Workspaces : wsp[w].node = n /\ wsp[w].st # "deleted" => w \in late
    BY <1>0, <2>1 DEF PinInv
  <2> HIDE DEF n
  <2>4. \A m \in FleetNodes \ {n} : nst'[m] = nst[m]
    BY <1>0, <2>1
  <2>5. PinsKept'
    BY <1>0, <2>3, <2>4 DEF PinInv, PinsKept, FleetInv, FleetTyping, WspRow
  <2> QED
    BY <2>2, <2>5 DEF PinInv
<1>10. CASE ActorDies(a)
  BY <1>0, <1>3, <1>10, Changed DEF ActorDies, NodesComeUp
<1> QED
  BY <1>4, <1>5, <1>6, <1>7, <1>8, <1>9, <1>10 DEF ScalerNext

LEMMA PinStep ==
    ASSUME OneScaler, FleetInv, FleetInv', PinInv, [FleetNext]_fleetVars
    PROVE  PinInv'
<1>1. CASE (\E n \in FleetNodes : NodeAges(n)) \/ CooldownEnds \/ SignalsExpire \/ UNCHANGED fleetVars
  <2>1. UNCHANGED <<nst, act, wsp, late>>
    BY <1>1 DEF NodeAges, CooldownEnds, SignalsExpire, fleetVars
  <2> QED
    BY <2>1, PinsStay DEF NodesComeUp, Pinned
<1>2. ASSUME NEW n \in FleetNodes, NodeFoundGone(n) PROVE PinInv'
  <2>1. /\ UNCHANGED <<act, wsp, late>> /\ nst[n] \in LeftBehind /\ nst[n] # "TERMINATED"
        /\ nst'[n] = "TERMINATED" /\ \A m \in FleetNodes \ {n} : nst'[m] = nst[m]
    BY <1>2 DEF NodeFoundGone, LeftBehind, FleetInv, FleetTyping
  <2>2. PinsKept'
    BY <2>1 DEF PinInv, PinsKept, FleetInv, FleetTyping, WspRow
  <2>3. \A b \in Actors : act[b].pc \in {"recheck", "terminate"} => act[b].n \in FleetNodes
    BY DEF FleetInv, FleetTyping
  <2> QED
    BY <2>1, <2>2, <2>3 DEF PinInv
<1> QED
  BY <1>1, <1>2, RequestsKeepPins, WorkersKeepPins, ScalersKeepPins, LaunchesKeepPins DEF FleetNext

\* When scale-ins do not overlap, a workspace whose pin was written on a READY node never
\* sees the node terminated, for any number of workers and workspaces: the drain stops new
\* placements and the recount sees the old ones (execute_scale_down).  Two overlapping
\* scale-ins of one node can undo each other's drain, hence the hypothesis.
THEOREM PinnedNodeKeptAlways == OneScaler => (FleetSpec => []PinnedNodeKept)
<1> SUFFICES ASSUME OneScaler PROVE FleetSpec => []PinnedNodeKept
  OBVIOUS
<1>1. FleetInit => FleetInv /\ PinInv
  BY FleetStart, IdleWork DEF FleetInit, PinInv, PinsKept
<1>2. FleetInv /\ PinInv /\ [FleetNext]_fleetVars => (FleetInv /\ PinInv)'
  BY FleetStep, PinStep
<1>3. PinInv => PinnedNodeKept
  BY DEF PinInv, PinsKept, LeftBehind, PinnedNodeKept
<1> QED
  BY <1>1, <1>2, <1>3, PTL DEF FleetSpec
=============================================================================
