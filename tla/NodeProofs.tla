----------------------------- MODULE NodeProofs -----------------------------
(***************************************************************************)
(* Proofs about ExecutionNodes for any number of nodes and of database     *)
(* sessions: typing with the row locks, that a TERMINATED row has no       *)
(* instance behind it, and that the ready gate is not bypassed.            *)
(***************************************************************************)
EXTENDS ExecutionNodes, TLAPS

-----------------------------------------------------------------------------
(* The inductive invariant *)

\* Only calls to AWS go on after their flush.  A session that needs a row has
\* loaded one; adopt and stub make it when there is none.
WorkOK(v) ==
    /\ v \in SessionWork
    /\ v.op = "idle" <=> v.pc = "idle"
    /\ v.op # "idle" => v.n \in Nodes
    /\ v.op = "provision" <=> v.pc = "launched"
    /\ v.pc = "flushed" => v.op \in {"sync", "terminate", "scale_in"}
    /\ v.pc = "loaded" /\ v.op \notin {"adopt", "stub"} => v.seen.status # "ABSENT"

NodesTyping ==
    /\ row \in [Nodes -> NodeRow]
    /\ ssm \in [Nodes -> BOOLEAN]
    /\ inst \in [Nodes -> InstanceStates]
    /\ lock \in [Nodes -> Sessions \cup {NoSession}]
    /\ past \in [Nodes -> [gated : BOOLEAN, dereg : BOOLEAN]]
    /\ ses = [s \in Sessions |-> ses[s]]
    /\ \A s \in Sessions : WorkOK(ses[s])

Holder(s, n) == s \in Sessions /\ ses[s].pc = "flushed" /\ ses[s].n = n

\* The row lock is held by the session that has flushed the row and by no other,
\* and what that session will commit was written over the row as it still is.
LockInv ==
    \A n \in Nodes :
        /\ lock[n] # NoSession => Holder(lock[n], n)
        /\ \A s \in Sessions : Holder(s, n) =>
             lock[n] = s /\ Exists(n) /\ ses[s].mine.status # "ABSENT"

\* As long as no operator has taken the row away, it names the instance that its key
\* was made for, and so does every copy that a session holds.
PidInv ==
    \A n \in Nodes : ~past[n].dereg =>
        /\ row[n].pid = "own"
        /\ \A s \in Sessions : ses[s].n = n => ses[s].seen.pid = "own" /\ ses[s].mine.pid = "own"

\* TerminatedMeansGone for what is committed and for what will be.
GoneInv ==
    \A n \in Nodes : ~past[n].dereg /\ inst[n] # "gone" =>
        /\ row[n].status # "TERMINATED"
        /\ \A s \in Sessions : Holder(s, n) => ses[s].mine.status # "TERMINATED"

InPool == {"READY", "NOT_READY"}

\* A row that does not exist was seen by nobody.  A gated row has not
\* been in the pool since it was inserted: neither the row, nor a copy that a
\* session still holds, nor what a session will commit says so.
GateInv ==
    \A n \in Nodes :
        /\ ~Exists(n) =>
             ~past[n].gated /\ \A s \in Sessions : ses[s].n = n => ses[s].seen.status = "ABSENT"
        /\ past[n].gated =>
             /\ row[n].status \notin InPool
             /\ \A s \in Sessions : ses[s].n = n => ses[s].seen.status \notin InPool
             /\ \A s \in Sessions : Holder(s, n) => ses[s].mine.status \notin InPool

NodesInv == NodesTyping /\ LockInv /\ PidInv /\ GoneInv /\ GateInv

-----------------------------------------------------------------------------
(* Rows and sessions by themselves *)

\* What a flush writes: the columns that the session has changed, and the row's.
LEMMA Written ==
    ASSUME NEW n \in Nodes, row[n] \in NodeRow, NEW op, NEW old \in NodeRow, NEW new \in NodeRow
    PROVE  /\ WriteColumns(n, op, old, new) \in NodeRow
           /\ WriteColumns(n, op, old, new).status =
                IF new.status # old.status THEN new.status ELSE row[n].status
           /\ WriteColumns(n, op, old, new).pid = IF new.pid # old.pid THEN new.pid ELSE row[n].pid
BY DEF WriteColumns, NodeRow

LEMMA EmptyRow ==
    NoNodeRow \in NodeRow /\ NoNodeRow.status = "ABSENT" /\ ~NoNodeRow.sched /\ NoNodeRow.pid = "own"
BY DEF NoNodeRow, NodeRow

LEMMA IdleWork ==
    WorkOK(NoWork) /\ NoWork.op = "idle" /\ NoWork.pc = "idle" /\ NoWork.n = NoSession
BY EmptyRow DEF WorkOK, NoWork, SessionWork

LEMMA Seen ==
    ASSUME NEW op, NEW r \in NodeRow
    PROVE  SeenBy(op, r) \in NodeRow /\ SeenBy(op, r).status = r.status /\ SeenBy(op, r).pid = r.pid
BY EmptyRow DEF SeenBy, NodeRow

LEMMA NodesStart == NodesInit => NodesInv
<1> SUFFICES ASSUME NodesInit PROVE NodesInv
  OBVIOUS
<1> USE DEF NodesInit
<1>1. NodesTyping
  BY EmptyRow, IdleWork DEF NodesTyping, InstanceStates
<1>2. \A n \in Nodes : row[n] = NoNodeRow /\ past[n].gated = FALSE
  OBVIOUS
<1>3. \A s \in Sessions : ses[s] = NoWork
  OBVIOUS
<1>4. LockInv
  BY <1>3, IdleWork DEF LockInv, Holder
<1>5. GoneInv
  BY <1>2, <1>3, EmptyRow, IdleWork DEF GoneInv, Holder
<1>6. GateInv
  BY <1>2, <1>3, EmptyRow, IdleWork, NodesAssumption DEF GateInv, Holder, Exists
<1>7. PidInv
  BY <1>2, <1>3, EmptyRow, IdleWork, NodesAssumption DEF PidInv
<1> QED
  BY <1>1, <1>4, <1>5, <1>6, <1>7 DEF NodesInv

-----------------------------------------------------------------------------
(* The session: load, flush, commit, rollback *)

LEMMA LoadKeeps ==
    ASSUME NodesInv, NEW s \in Sessions, NEW n \in Nodes, NEW op \in Operations \ {"provision"},
           op \in {"adopt", "stub"} \/ Exists(n),
           SessionLoads(s, n, op), UNCHANGED <<ssm, row, inst, lock, past>>
    PROVE  NodesInv'
<1> DEFINE seen == SeenBy(op, row[n])
           v == [op |-> op, n |-> n, pc |-> "loaded", seen |-> seen, mine |-> NoNodeRow]
<1>1. row[n] \in NodeRow
  BY DEF NodesInv, NodesTyping
<1>2. seen \in NodeRow /\ seen.status = row[n].status /\ seen.pid = row[n].pid
  BY <1>1, Seen
<1>3. /\ ses' = [ses EXCEPT ![s] = v] /\ ses' = [x \in Sessions |-> ses'[x]]
      /\ ses'[s] = v /\ \A x \in Sessions \ {s} : ses'[x] = ses[x]
  BY DEF SessionLoads, NodesInv, NodesTyping
<1> HIDE DEF seen
<1>4. WorkOK(v) /\ v.pc = "loaded" /\ v.n = n /\ v.seen = seen /\ v.mine.pid = "own"
  BY <1>2, EmptyRow DEF WorkOK, SessionWork, Operations, Exists
<1> HIDE DEF v
<1>5. NodesTyping'
  BY <1>3, <1>4 DEF NodesInv, NodesTyping
<1>6. \A x, m : Holder(x, m)' => Holder(x, m) /\ ses'[x] = ses[x]
  BY <1>3, <1>4 DEF Holder
<1>7. \A x, m : Holder(x, m) => x # s /\ Holder(x, m)'
  BY <1>3 DEF Holder, SessionLoads, NodesInv, NodesTyping, WorkOK
<1>8. LockInv' /\ GoneInv'
  BY <1>6, <1>7 DEF LockInv, GoneInv, NodesInv, Exists
<1>9. GateInv'
  BY <1>2, <1>3, <1>4, <1>6 DEF GateInv, NodesInv, Exists
<1>10. PidInv'
  BY <1>2, <1>3, <1>4 DEF PidInv, NodesInv
<1> QED
  BY <1>5, <1>8, <1>9, <1>10 DEF NodesInv

\* A session that writes and commits at once: the lock is free, so no other session
\* is to commit this row.
LEMMA WriteKeeps ==
    ASSUME NodesInv, NEW s \in Sessions, NEW n \in Nodes, ses[s].n = n, ses[s].pc = "loaded",
           NEW new \in NodeRow, SessionWrites(s, new), UNCHANGED <<inst, lock>>,
           ssm' \in [Nodes -> BOOLEAN],
           past' \in [Nodes -> [gated : BOOLEAN, dereg : BOOLEAN]],
           \A m \in Nodes \ {n} : past'[m] = past[m],
           past'[n].gated => past[n].gated, past[n].dereg => past'[n].dereg,
           past'[n].dereg \/ new.pid = ses[s].seen.pid,
           NEW W, W = WriteColumns(n, ses[s].op, ses[s].seen, new),
           W.status # "ABSENT",
           W.status = "TERMINATED" => past'[n].dereg \/ inst[n] = "gone",
           past'[n].gated => W.status \notin InPool
    PROVE  NodesInv'
<1>1. row[n] \in NodeRow /\ ses[s].seen \in NodeRow
  BY DEF NodesInv, NodesTyping, WorkOK, SessionWork
<1>2. W \in NodeRow /\ W.pid = IF new.pid # ses[s].seen.pid THEN new.pid ELSE row[n].pid
  BY <1>1, Written
<1>3. /\ row' \in [Nodes -> NodeRow] /\ row'[n] = W /\ \A m \in Nodes \ {n} : row'[m] = row[m]
      /\ ses' = [x \in Sessions |-> ses'[x]] /\ ses'[s] = NoWork
      /\ \A x \in Sessions \ {s} : ses'[x] = ses[x]
      /\ lock[n] = NoSession
  BY <1>2 DEF SessionWrites, NodesInv, NodesTyping
<1>4. NodesTyping'
  BY <1>3, IdleWork DEF NodesInv, NodesTyping
<1>5. \A x, m : Holder(x, m)' => Holder(x, m) /\ ses'[x] = ses[x]
  BY <1>3, IdleWork DEF Holder
<1>6. \A x, m : Holder(x, m) => x # s /\ Holder(x, m)'
  BY <1>3 DEF Holder
<1>7. \A x \in Sessions : ~Holder(x, n)
  BY <1>3, NodesAssumption DEF LockInv, NodesInv
<1>8. LockInv'
  BY <1>3, <1>5, <1>6, <1>7 DEF LockInv, NodesInv, Exists
<1>9. GoneInv'
  BY <1>3, <1>5, <1>7 DEF GoneInv, NodesInv
<1>10. GateInv'
  BY <1>2, <1>3, <1>5, <1>7, IdleWork, NodesAssumption DEF GateInv, NodesInv, Exists
<1>11. PidInv'
  <2>1. \A x \in Sessions, m \in Nodes : ses'[x].n = m => ses'[x] = ses[x]
    BY <1>3, IdleWork, NodesAssumption
  <2> SUFFICES ASSUME NEW m \in Nodes, ~past'[m].dereg
               PROVE  /\ row'[m].pid = "own"
                      /\ \A x \in Sessions : ses'[x].n = m => ses'[x].seen.pid = "own" /\ ses'[x].mine.pid = "own"
    BY DEF PidInv
  <2>2. ~past[m].dereg
    OBVIOUS
  <2>3. row'[m].pid = "own"
    BY <2>2, <1>2, <1>3 DEF PidInv, NodesInv
  <2> QED
    BY <2>1, <2>2, <2>3 DEF PidInv, NodesInv
<1> QED
  BY <1>4, <1>8, <1>9, <1>10, <1>11 DEF NodesInv

LEMMA FlushKeeps ==
    ASSUME NodesInv, NEW s \in Sessions, NEW n \in Nodes, ses[s].n = n, ses[s].pc = "loaded",
           ses[s].op \in {"sync", "terminate", "scale_in"},
           NEW new \in NodeRow, new.pid = ses[s].seen.pid, NEW original \in {"ABSENT", ses[s].seen.status},
           SessionFlushes(s, new, original), UNCHANGED <<ssm, row, inst, past>>,
           NEW W, W = WriteColumns(n, ses[s].op, ses[s].seen, new),
           W.status # "ABSENT",
           W.status = "TERMINATED" => past[n].dereg \/ inst[n] = "gone",
           past[n].gated => W.status \notin InPool
    PROVE  NodesInv'
<1> DEFINE b == ses[s]
           seen == [NoNodeRow EXCEPT !.status = original, !.pid = b.seen.pid]
           v == [b EXCEPT !.pc = "flushed", !.seen = seen, !.mine = W]
<1>1. row[n] \in NodeRow /\ b.seen \in NodeRow /\ WorkOK(b)
  BY DEF NodesInv, NodesTyping, WorkOK, SessionWork
<1>2. W \in NodeRow /\ W.pid = row[n].pid
  BY <1>1, Written
<1>3. seen \in NodeRow /\ seen.status = original /\ seen.pid = b.seen.pid
  BY <1>1, EmptyRow DEF NodeRow
<1>4. /\ ses' = [x \in Sessions |-> ses'[x]] /\ ses'[s] = v
      /\ \A x \in Sessions \ {s} : ses'[x] = ses[x]
      /\ lock' \in [Nodes -> Sessions \cup {NoSession}] /\ lock'[n] = s
      /\ \A m \in Nodes \ {n} : lock'[m] = lock[m]
      /\ lock[n] = NoSession
  BY DEF SessionFlushes, NodesInv, NodesTyping
<1>5. Exists(n)
  BY <1>1 DEF NodesInv, GateInv, WorkOK
<1> HIDE DEF b, seen
<1>6. /\ WorkOK(v) /\ v.pc = "flushed" /\ v.n = n /\ v.seen.status \in {"ABSENT", b.seen.status}
      /\ v.mine = W /\ v.seen.pid = b.seen.pid
  BY <1>1, <1>2, <1>3 DEF WorkOK, SessionWork, b
<1> HIDE DEF v
<1>7. NodesTyping'
  BY <1>4, <1>6 DEF NodesInv, NodesTyping
<1>8. \A x \in Sessions \ {s} : \A m : Holder(x, m)' <=> Holder(x, m)
  BY <1>4 DEF Holder
<1>9. \A x \in Sessions : ~Holder(x, n)
  BY <1>4, NodesAssumption DEF LockInv, NodesInv
<1>10. Holder(s, n)' /\ \A m : Holder(s, m)' => m = n
  BY <1>4, <1>6 DEF Holder
<1>11. \A m : ~Holder(s, m)
  BY DEF Holder
<1>12. LockInv'
  <2> SUFFICES ASSUME NEW m \in Nodes
               PROVE  /\ lock'[m] # NoSession => Holder(lock[m], m)' \/ m = n
                      /\ \A x \in Sessions : Holder(x, m)' =>
                           lock'[m] = x /\ Exists(m) /\ ses'[x].mine.status # "ABSENT"
    BY <1>4, <1>10 DEF LockInv, Exists, Holder
  <2>1. CASE m = n
    BY <2>1, <1>2, <1>4, <1>5, <1>6, <1>8, <1>9, <1>10
  <2>2. CASE m # n
    BY <2>2, <1>4, <1>8, <1>10, <1>11 DEF LockInv, NodesInv, Holder
  <2> QED
    BY <2>1, <2>2
<1>13. GoneInv'
  BY <1>4, <1>6, <1>8, <1>9, <1>10 DEF GoneInv, NodesInv
<1>14. GateInv'
  BY <1>4, <1>5, <1>6, <1>8, <1>9, <1>10 DEF GateInv, NodesInv, Exists, b, InPool
<1>15. PidInv'
  <2> SUFFICES ASSUME NEW m \in Nodes, ~past[m].dereg, NEW x \in Sessions, ses'[x].n = m
               PROVE  ses'[x].seen.pid = "own" /\ ses'[x].mine.pid = "own"
    BY DEF PidInv, NodesInv
  <2>1. CASE x = s
    BY <2>1, <1>2, <1>4, <1>6 DEF PidInv, NodesInv, b
  <2>2. CASE x # s
    BY <2>2, <1>4 DEF PidInv, NodesInv
  <2> QED
    BY <2>1, <2>2
<1> QED
  BY <1>7, <1>12, <1>13, <1>14, <1>15 DEF NodesInv

\* The commit of a session that has flushed: the row is as it was then.
LEMMA CommitKeeps ==
    ASSUME NodesInv, NEW s \in Sessions, NEW n \in Nodes, ses[s].n = n, ses[s].pc = "flushed",
           NEW new \in NodeRow, SessionCommits(s, new), UNCHANGED ssm,
           inst' \in [Nodes -> InstanceStates],
           \A m \in Nodes : inst'[m] = inst[m] \/ inst'[m] = "gone",
           past' \in [Nodes -> [gated : BOOLEAN, dereg : BOOLEAN]],
           \A m \in Nodes \ {n} : past'[m] = past[m],
           past'[n].gated => past[n].gated, past[n].dereg = past'[n].dereg,
           new.pid = ses[s].mine.pid, new.status # "ABSENT",
           new.status = "TERMINATED" => past[n].dereg \/ inst'[n] = "gone",
           past'[n].gated => new.status \notin InPool
    PROVE  NodesInv'
<1>1. /\ row' \in [Nodes -> NodeRow] /\ row'[n] = new /\ \A m \in Nodes \ {n} : row'[m] = row[m]
      /\ ses' = [x \in Sessions |-> ses'[x]] /\ ses'[s] = NoWork
      /\ \A x \in Sessions \ {s} : ses'[x] = ses[x]
      /\ lock' \in [Nodes -> Sessions \cup {NoSession}] /\ lock'[n] = NoSession
      /\ \A m \in Nodes \ {n} : lock'[m] = lock[m]
  BY DEF SessionCommits, NodesInv, NodesTyping
<1>2. NodesTyping'
  BY <1>1, IdleWork DEF NodesInv, NodesTyping
<1>3. Holder(s, n)
  BY DEF Holder
<1>4. \A x, m : Holder(x, m)' => Holder(x, m) /\ x # s /\ ses'[x] = ses[x]
  BY <1>1, IdleWork DEF Holder
<1>5. \A x, m : Holder(x, m) /\ m # n => Holder(x, m)'
  BY <1>1 DEF Holder
<1>6. \A x \in Sessions : Holder(x, n) => x = s
  BY <1>3 DEF LockInv, NodesInv
<1>7. LockInv'
  BY <1>1, <1>4, <1>5, <1>6 DEF LockInv, NodesInv, Exists, Holder
<1>8. GoneInv'
  BY <1>1, <1>4, <1>6 DEF GoneInv, NodesInv, Holder
<1>9. GateInv'
  <2>1. \A x \in Sessions, m \in Nodes : ses'[x].n = m => ses'[x] = ses[x]
    BY <1>1, IdleWork, NodesAssumption
  <2>2. \A x \in Sessions : ~Holder(x, n)'
    BY <1>4, <1>6
  <2> SUFFICES ASSUME NEW m \in Nodes
               PROVE  /\ row'[m].status = "ABSENT" =>
                           ~past'[m].gated /\ \A x \in Sessions : ses'[x].n = m => ses'[x].seen.status = "ABSENT"
                      /\ past'[m].gated =>
                           /\ row'[m].status \notin InPool
                           /\ \A x \in Sessions : ses'[x].n = m => ses'[x].seen.status \notin InPool
                           /\ \A x \in Sessions : Holder(x, m)' => ses'[x].mine.status \notin InPool
    BY DEF GateInv, Exists
  <2>3. CASE m = n
    <3>1. row'[m] = new /\ (past'[m].gated => past[m].gated)
      BY <2>3, <1>1
    <3>2. past[m].gated => \A x \in Sessions : ses[x].n = m => ses[x].seen.status \notin InPool
      BY DEF GateInv, NodesInv
    <3> QED
      BY <2>1, <2>2, <2>3, <3>1, <3>2
  <2>4. CASE m # n
    <3>1. row'[m] = row[m] /\ past'[m] = past[m]
      BY <2>4, <1>1
    <3> QED
      BY <2>1, <3>1, <1>4 DEF GateInv, NodesInv, Exists
  <2> QED
    BY <2>3, <2>4
<1>10. PidInv'
  <2>1. \A x \in Sessions, m \in Nodes : ses'[x].n = m => ses'[x] = ses[x]
    BY <1>1, IdleWork, NodesAssumption
  <2>2. \A m \in Nodes : past'[m].dereg = past[m].dereg
    OBVIOUS
  <2>3. ~past[n].dereg => new.pid = "own"
    BY DEF PidInv, NodesInv
  <2> SUFFICES ASSUME NEW m \in Nodes, ~past'[m].dereg
               PROVE  /\ row'[m].pid = "own"
                      /\ \A x \in Sessions : ses'[x].n = m => ses'[x].seen.pid = "own" /\ ses'[x].mine.pid = "own"
    BY DEF PidInv
  <2>4. ~past[m].dereg
    BY <2>2
  <2>5. row'[m].pid = "own"
    BY <2>3, <2>4, <1>1 DEF PidInv, NodesInv
  <2> QED
    BY <2>1, <2>4, <2>5 DEF PidInv, NodesInv
<1> QED
  BY <1>2, <1>7, <1>8, <1>9, <1>10 DEF NodesInv

\* A session that ends without a commit; an instance may go with it.
LEMMA ReleaseKeeps ==
    ASSUME NodesInv, NEW s \in Sessions, UNCHANGED <<ssm, row, past>>,
           inst' \in [Nodes -> InstanceStates],
           \A m \in Nodes : inst'[m] = inst[m] \/ inst'[m] = "gone",
           ses' = [ses EXCEPT ![s] = NoWork],
           lock' \in [Nodes -> Sessions \cup {NoSession}],
           \A m \in Nodes : lock'[m] = IF lock[m] = s THEN NoSession ELSE lock[m]
    PROVE  NodesInv'
<1>1. /\ ses' = [x \in Sessions |-> ses'[x]] /\ ses'[s] = NoWork
      /\ \A x \in Sessions \ {s} : ses'[x] = ses[x]
  BY DEF NodesInv, NodesTyping
<1>2. NodesTyping'
  BY <1>1, IdleWork DEF NodesInv, NodesTyping
<1>3. \A x, m : Holder(x, m)' => Holder(x, m) /\ x # s /\ ses'[x] = ses[x]
  BY <1>1, IdleWork DEF Holder
<1>4. \A x, m : Holder(x, m) /\ x # s => Holder(x, m)'
  BY <1>1 DEF Holder
<1>5. LockInv'
  BY <1>1, <1>3, <1>4 DEF LockInv, NodesInv, Exists, Holder
<1>6. GoneInv'
  BY <1>3 DEF GoneInv, NodesInv, Holder
<1>7. GateInv'
  BY <1>1, <1>3, IdleWork, NodesAssumption DEF GateInv, NodesInv, Exists, Holder
<1>8. PidInv'
  BY <1>1, IdleWork, NodesAssumption DEF PidInv, NodesInv
<1> QED
  BY <1>2, <1>5, <1>6, <1>7, <1>8 DEF NodesInv

LEMMA RollbackKeeps ==
    ASSUME NodesInv, NEW s \in Sessions, Rollback(s)
    PROVE  NodesInv'
BY ReleaseKeeps DEF Rollback, NodesInv, NodesTyping

-----------------------------------------------------------------------------
(* AWS and provisioning *)

\* No instance comes back from "gone".
LEMMA InstanceKeeps ==
    ASSUME NodesInv, NEW n \in Nodes, InstanceStops(n) \/ InstanceStarts(n) \/ InstanceLost(n)
    PROVE  NodesInv'
<1> USE DEF InstanceStops, InstanceStarts, InstanceLost
<1>1. /\ inst' \in [Nodes -> InstanceStates] /\ UNCHANGED <<ssm, row, lock, ses, past>>
      /\ \A m \in Nodes : inst[m] = "gone" => inst'[m] = "gone"
  BY DEF NodesInv, NodesTyping, InstanceStates
<1>2. NodesTyping'
  BY <1>1 DEF NodesInv, NodesTyping
<1>3. LockInv' /\ PidInv' /\ GoneInv' /\ GateInv'
  BY <1>1 DEF LockInv, PidInv, GoneInv, GateInv, NodesInv, Holder, Exists
<1> QED
  BY <1>2, <1>3 DEF NodesInv

LEMMA ProvisionLaunchKeeps ==
    ASSUME NodesInv, NEW s \in Sessions, NEW n \in Nodes, ProvisionLaunch(s, n)
    PROVE  NodesInv'
<1> DEFINE v == [NoWork EXCEPT !.op = "provision", !.n = n, !.pc = "launched"]
<1>1. /\ WorkOK(v) /\ v.pc = "launched" /\ v.n = n /\ v.seen.status = "ABSENT"
      /\ v.seen.pid = "own" /\ v.mine.pid = "own"
  BY EmptyRow DEF NoWork, WorkOK, SessionWork, Operations
<1>2. /\ ses' = [x \in Sessions |-> ses'[x]] /\ ses'[s] = v
      /\ \A x \in Sessions \ {s} : ses'[x] = ses[x]
      /\ inst' \in [Nodes -> InstanceStates] /\ \A m \in Nodes : inst[m] = "gone" => inst'[m] = "gone"
      /\ UNCHANGED <<ssm, row, lock, past>> /\ ses[s].op = "idle"
  BY DEF ProvisionLaunch, NodesInv, NodesTyping, InstanceStates
<1> HIDE DEF v
<1>3. NodesTyping'
  BY <1>1, <1>2 DEF NodesInv, NodesTyping
<1>4. \A x, m : Holder(x, m)' => Holder(x, m) /\ ses'[x] = ses[x]
  BY <1>1, <1>2 DEF Holder
<1>5. \A x, m : Holder(x, m) => x # s /\ Holder(x, m)'
  BY <1>2 DEF Holder, NodesInv, NodesTyping, WorkOK
<1>6. LockInv' /\ GoneInv'
  BY <1>2, <1>4, <1>5 DEF LockInv, GoneInv, NodesInv, Exists
<1>7. GateInv'
  BY <1>1, <1>2, <1>4 DEF GateInv, NodesInv, Exists, InPool
<1>8. PidInv'
  BY <1>1, <1>2 DEF PidInv, NodesInv
<1> QED
  BY <1>3, <1>6, <1>7, <1>8 DEF NodesInv

\* Whoever looked at the key before has seen no row.
LEMMA ProvisionInsertKeeps ==
    ASSUME NodesInv, NEW s \in Sessions, ProvisionInsert(s)
    PROVE  NodesInv'
<1> DEFINE n == ses[s].n
           W == [NoNodeRow EXCEPT !.status = "PROVISIONING"]
<1>1. n \in Nodes /\ ~Exists(n)
  BY DEF ProvisionInsert, Doing, NodesInv, NodesTyping, WorkOK
<1>2. W \in NodeRow /\ W.status = "PROVISIONING" /\ W.pid = "own"
  BY EmptyRow DEF NodeRow, NodeStatuses
<1>3. past' \in [Nodes -> [gated : BOOLEAN, dereg : BOOLEAN]] /\ past'[n].dereg = past[n].dereg
      /\ \A m \in Nodes \ {n} : past'[m] = past[m]
  BY <1>1 DEF ProvisionInsert, NodesInv, NodesTyping
<1>4. /\ row' \in [Nodes -> NodeRow] /\ row'[n] = W /\ \A m \in Nodes \ {n} : row'[m] = row[m]
      /\ ses' = [x \in Sessions |-> ses'[x]] /\ ses'[s] = NoWork
      /\ \A x \in Sessions \ {s} : ses'[x] = ses[x]
      /\ UNCHANGED <<ssm, inst, lock>>
  BY <1>1, <1>2 DEF ProvisionInsert, NodesInv, NodesTyping
<1> HIDE DEF W
<1>5. NodesTyping'
  BY <1>3, <1>4, IdleWork DEF NodesInv, NodesTyping
<1>6. \A x, m : Holder(x, m)' => Holder(x, m) /\ ses'[x] = ses[x]
  BY <1>4, IdleWork DEF Holder
<1>7. \A x, m : Holder(x, m) => x # s /\ Holder(x, m)'
  BY <1>4 DEF Holder, ProvisionInsert, Doing
<1>8. \A x \in Sessions : ~Holder(x, n)
  BY <1>1 DEF LockInv, NodesInv
<1> HIDE DEF n
<1>9. LockInv'
  BY <1>4, <1>6, <1>7, <1>8 DEF LockInv, NodesInv, Exists, Holder
<1>10. GoneInv'
  BY <1>2, <1>3, <1>4, <1>6, <1>8 DEF GoneInv, NodesInv
<1>11. \A x \in Sessions : ses'[x].n = n => ses'[x].seen.status = "ABSENT"
  BY <1>1, <1>4, IdleWork, NodesAssumption DEF GateInv, NodesInv
<1>12. GateInv'
  <2>1. \A x \in Sessions, m \in Nodes : ses'[x].n = m => ses'[x] = ses[x]
    BY <1>4, IdleWork, NodesAssumption
  <2> SUFFICES ASSUME NEW m \in Nodes
               PROVE  /\ row'[m].status = "ABSENT" =>
                           ~past'[m].gated /\ \A x \in Sessions : ses'[x].n = m => ses'[x].seen.status = "ABSENT"
                      /\ past'[m].gated =>
                           /\ row'[m].status \notin InPool
                           /\ \A x \in Sessions : ses'[x].n = m => ses'[x].seen.status \notin InPool
                           /\ \A x \in Sessions : Holder(x, m)' => ses'[x].mine.status \notin InPool
    BY DEF GateInv, Exists
  <2>3. CASE m = n
    BY <2>3, <1>2, <1>4, <1>6, <1>8, <1>11 DEF InPool
  <2>4. CASE m # n
    BY <2>1, <2>4, <1>3, <1>4, <1>6 DEF GateInv, NodesInv, Exists
  <2> QED
    BY <2>3, <2>4
<1>13. PidInv'
  <2>1. \A x \in Sessions, m \in Nodes : ses'[x].n = m => ses'[x] = ses[x]
    BY <1>4, IdleWork, NodesAssumption
  <2>2. \A m \in Nodes : past'[m].dereg = past[m].dereg
    BY <1>3
  <2> QED
    BY <1>2, <1>4, <2>1, <2>2 DEF PidInv, NodesInv
<1> QED
  BY <1>5, <1>9, <1>10, <1>12, <1>13 DEF NodesInv

-----------------------------------------------------------------------------
(* What the calls make of a row *)

LEMMA RowChanged ==
    ASSUME NEW r \in NodeRow, NEW st \in NodeStatuses, NEW b \in BOOLEAN
    PROVE  /\ [r EXCEPT !.status = st, !.sched = b] \in NodeRow
           /\ [r EXCEPT !.status = st, !.sched = b].status = st
           /\ [r EXCEPT !.status = st, !.sched = b].pid = r.pid
BY DEF NodeRow

\* A synchronisation terminates only what is gone, and takes nothing into the pool
\* that was not in it, a row it has just made aside.
LEMMA SyncTells ==
    ASSUME NEW r \in NodeRow, NEW state \in InstanceStates
    PROVE  /\ Registered(r, state) \in NodeRow /\ Registered(r, state).pid = r.pid
           /\ Registered(r, state).status \in NodeStatuses
           /\ Registered(r, state).status = "TERMINATED" => r.status = "TERMINATED" \/ state = "gone"
           /\ Registered(r, state).status \in InPool => r.status \in InPool \cup {"ABSENT"}
<1> DEFINE p == StatusAfterSync(r, state)
<1>1. r.status \in NodeStatuses \cup {"ABSENT"}
  BY DEF NodeRow
<1>2. /\ p[1] \in NodeStatuses /\ p[2] \in BOOLEAN
      /\ p[1] = "TERMINATED" => r.status = "TERMINATED" \/ state = "gone"
      /\ p[1] \in InPool => r.status \in InPool \cup {"ABSENT"}
  <2>1. CASE r.status = "PROVISIONING"
    BY <2>1 DEF StatusAfterSync, NodeStatuses, InPool
  <2>2. CASE r.status = "TERMINATING"
    BY <2>2 DEF StatusAfterSync, NodeStatuses, InPool
  <2>3. CASE r.status \in {"DRAINING", "TERMINATED", "ERROR"}
    BY <2>3 DEF StatusAfterSync, NodeStatuses, InPool
  <2>4. CASE r.status \in InPool \cup {"ABSENT"}
    BY <2>4 DEF StatusAfterSync, NodeStatuses, InPool
  <2> QED
    BY <1>1, <2>1, <2>2, <2>3, <2>4 DEF NodeStatuses, InPool
<1> DEFINE q == [r EXCEPT !.status = p[1], !.sched = p[2]]
<1>3. Registered(r, state) = q
  BY DEF Registered
<1> HIDE DEF p
<1>4. q \in NodeRow /\ q.status = p[1] /\ q.pid = r.pid
  BY <1>2, RowChanged
<1> HIDE DEF q
<1> QED
  BY <1>2, <1>3, <1>4

\* The promotion out of the gate: what it may leave in the pool has been proven.
LEMMA PromotionTells ==
    ASSUME NEW n \in Nodes, NEW r \in NodeRow, NEW gate \in BOOLEAN, r.status # "ABSENT"
    PROVE  /\ Promoted(n, r, gate) \in NodeRow /\ Promoted(n, r, gate).pid = r.pid
           /\ Promoted(n, r, gate).status # "ABSENT"
           /\ Promoted(n, r, gate).status = "TERMINATED" => r.status = "TERMINATED"
           /\ r.status \notin InPool /\ ~gate => Promoted(n, r, gate).status \notin InPool
           /\ r.status \notin InPool /\ r.status # "PROVISIONING" => Promoted(n, r, gate) = r
<1>1. /\ "READY" \in NodeStatuses /\ "PROVISIONING" \in NodeStatuses
  BY DEF NodeStatuses
<1>2. CASE r.status \notin Promotable \/ r.stub
  <2>1. Promoted(n, r, gate) = r
    BY <1>2 DEF Promoted
  <2> QED
    BY <2>1
<1>3. CASE r.status \in Promotable /\ ~r.stub /\ gate
  <2> DEFINE q == [r EXCEPT !.status = "READY", !.sched = TRUE]
  <2>1. Promoted(n, r, gate) = q
    BY <1>3 DEF Promoted
  <2>2. q \in NodeRow /\ q.status = "READY" /\ q.pid = r.pid
    BY <1>1, RowChanged
  <2> HIDE DEF q
  <2> QED
    BY <1>3, <2>1, <2>2 DEF Promotable, InPool
<1>4. CASE r.status \in Promotable /\ ~r.stub /\ ~gate /\ ssm[n]
  <2> DEFINE q == [r EXCEPT !.status = "PROVISIONING", !.sched = FALSE]
  <2>1. Promoted(n, r, gate) = q
    BY <1>4 DEF Promoted
  <2>2. q \in NodeRow /\ q.status = "PROVISIONING" /\ q.pid = r.pid
    BY <1>1, RowChanged
  <2> HIDE DEF q
  <2> QED
    BY <1>4, <2>1, <2>2 DEF Promotable, InPool
<1>5. CASE r.status \in Promotable /\ ~r.stub /\ ~gate /\ ~ssm[n]
  <2>1. Promoted(n, r, gate) = r
    BY <1>5 DEF Promoted
  <2> QED
    BY <2>1
<1> QED
  BY <1>2, <1>3, <1>4, <1>5

-----------------------------------------------------------------------------
(* The calls *)

LEMMA AtWork ==
    ASSUME NodesInv, NEW s \in Sessions, ses[s].op # "idle"
    PROVE  /\ ses[s].n \in Nodes /\ row[ses[s].n] \in NodeRow /\ inst[ses[s].n] \in InstanceStates
           /\ ses[s].seen \in NodeRow /\ ses[s].mine \in NodeRow
           /\ past[ses[s].n] \in [gated : BOOLEAN, dereg : BOOLEAN]
BY DEF NodesInv, NodesTyping, WorkOK, SessionWork

\* What describe_instances says of the instance that a session's copy names.
LEMMA StateTold ==
    ASSUME NodesInv, NEW s \in Sessions, ses[s].op # "idle",
           NEW state \in StatesOf(ses[s].n, ses[s].seen.pid)
    PROVE  state \in InstanceStates /\ (past[ses[s].n].dereg \/ state = inst[ses[s].n])
BY AtWork DEF StatesOf, PidInv, NodesInv

\* What reaches the row is what the session has changed; the rest keeps the
\* promises that the row and the session's copy kept.
LEMMA WhatIsWritten ==
    ASSUME NodesInv, NEW s \in Sessions, NEW n \in Nodes, ses[s].n = n, ses[s].pc = "loaded",
           NEW new \in NodeRow, new.status # "ABSENT",
           NEW W, W = WriteColumns(n, ses[s].op, ses[s].seen, new)
    PROVE  /\ W \in NodeRow /\ W.status # "ABSENT"
           /\ W.status = "TERMINATED" =>
                \/ past[n].dereg \/ inst[n] = "gone"
                \/ new.status = "TERMINATED" /\ ses[s].seen.status # "TERMINATED"
           /\ past[n].gated /\ W.status \in InPool =>
                new.status \in InPool /\ ses[s].seen.status \notin InPool
<1>1. row[n] \in NodeRow /\ ses[s].seen \in NodeRow
      /\ past[n] \in [gated : BOOLEAN, dereg : BOOLEAN]
  BY DEF NodesInv, NodesTyping, WorkOK, SessionWork
<1>2. /\ W \in NodeRow
      /\ W.status = IF new.status # ses[s].seen.status THEN new.status ELSE row[n].status
  BY <1>1, Written
<1>4. row[n].status = "ABSENT" => ses[s].seen.status = "ABSENT"
  BY DEF NodesInv, GateInv, Exists
<1>5. row[n].status = "TERMINATED" => past[n].dereg \/ inst[n] = "gone"
  BY <1>1 DEF NodesInv, GoneInv
<1>6. past[n].gated => row[n].status \notin InPool /\ ses[s].seen.status \notin InPool
  BY DEF NodesInv, GateInv
<1> QED
  BY <1>2, <1>4, <1>5, <1>6

\* A write that terminates only what is gone, and takes nothing into the pool.
LEMMA PlainWriteKeeps ==
    ASSUME NodesInv, NEW s \in Sessions, ses[s].pc = "loaded",
           NEW new \in NodeRow, new.status # "ABSENT", new.pid = ses[s].seen.pid,
           SessionWrites(s, new), UNCHANGED <<ssm, inst, lock, past>>,
           new.status = "TERMINATED" =>
             ses[s].seen.status = "TERMINATED" \/ inst[ses[s].n] = "gone" \/ past[ses[s].n].dereg,
           new.status \in InPool => ses[s].seen.status \in InPool \/ ~past[ses[s].n].gated
    PROVE  NodesInv'
<1> DEFINE n == ses[s].n
           W == WriteColumns(n, ses[s].op, ses[s].seen, new)
<1>1. ses[s].op # "idle"
  BY DEF NodesInv, NodesTyping, WorkOK
<1>2. n \in Nodes /\ past[n] \in [gated : BOOLEAN, dereg : BOOLEAN]
  BY <1>1, AtWork
<1> HIDE DEF n, W
<1>3. W = WriteColumns(n, ses[s].op, ses[s].seen, new) /\ ses[s].n = n
  BY DEF W, n
<1>4. /\ W.status # "ABSENT"
      /\ W.status = "TERMINATED" => past[n].dereg \/ inst[n] = "gone"
      /\ past[n].gated /\ W.status \in InPool =>
           new.status \in InPool /\ ses[s].seen.status \notin InPool
  BY <1>2, <1>3, WhatIsWritten
<1>5. past[n].gated => W.status \notin InPool
  BY <1>3, <1>4
<1>6. past' \in [Nodes -> [gated : BOOLEAN, dereg : BOOLEAN]] /\ ssm' \in [Nodes -> BOOLEAN]
  BY DEF NodesInv, NodesTyping
<1> QED
  BY <1>2, <1>3, <1>4, <1>5, <1>6, WriteKeeps

LEMMA StartsKeep ==
    ASSUME NodesInv, NEW s \in Sessions, SessionStarts(s)
    PROVE  NodesInv'
<1> PICK n \in Nodes :
        \/ ProvisionLaunch(s, n) \/ AdoptLoad(s, n) \/ SyncLoad(s, n) \/ StubLoad(s, n)
        \/ \E op \in ShortOps : ShortLoad(s, n, op)
        \/ MonitorLoad(s, n) \/ ReconcileLoad(s, n)
  BY DEF SessionStarts
<1>1. CASE ProvisionLaunch(s, n)
  BY <1>1, ProvisionLaunchKeeps
<1>2. CASE AdoptLoad(s, n) \/ StubLoad(s, n)
  BY <1>2, LoadKeeps DEF AdoptLoad, StubLoad, Operations
<1>3. CASE SyncLoad(s, n)
  BY <1>3, LoadKeeps DEF SyncLoad, Operations
<1>4. ASSUME NEW op \in ShortOps, ShortLoad(s, n, op) PROVE NodesInv'
  BY <1>4, LoadKeeps DEF ShortLoad, Operations, ShortOps
<1>5. CASE MonitorLoad(s, n)
  BY <1>5, LoadKeeps DEF MonitorLoad, Operations, Exists
<1>6. CASE ReconcileLoad(s, n)
  BY <1>6, LoadKeeps DEF ReconcileLoad, Operations, Exists
<1> QED
  BY <1>1, <1>2, <1>3, <1>4, <1>5, <1>6

LEMMA AdoptWriteKeeps ==
    ASSUME NodesInv, NEW s \in Sessions, NEW catalogOnly \in BOOLEAN, AdoptWrite(s, catalogOnly)
    PROVE  NodesInv'
<1> DEFINE n == ses[s].n
           r == Registered(ses[s].seen, inst[n])
           new == [r EXCEPT !.sched = r.sched /\ ~catalogOnly]
<1>0. ses[s].pc = "loaded" /\ ses[s].op = "adopt"
  BY DEF AdoptWrite, Doing
<1>1. /\ n \in Nodes /\ inst[n] \in InstanceStates /\ ses[s].seen \in NodeRow
  BY <1>0, AtWork
<1>2. /\ r \in NodeRow /\ r.status \in NodeStatuses /\ r.pid = ses[s].seen.pid
      /\ r.status = "TERMINATED" => ses[s].seen.status = "TERMINATED" \/ inst[n] = "gone"
      /\ r.status \in InPool => ses[s].seen.status \in InPool \cup {"ABSENT"}
  BY <1>1, SyncTells
<1>3. /\ SessionWrites(s, new) /\ UNCHANGED <<ssm, inst, lock, past>>
      /\ ses[s].seen.status = "ABSENT" => ~Exists(n)
  BY DEF AdoptWrite
<1> HIDE DEF r
<1>4. new \in NodeRow /\ new.status = r.status /\ new.status # "ABSENT" /\ new.pid = r.pid
  BY <1>2 DEF NodeRow, NodeStatuses
<1> HIDE DEF new
<1>5. ses[s].seen.status = "ABSENT" => ~past[n].gated
  BY <1>1, <1>3 DEF NodesInv, GateInv
<1> QED
  BY <1>0, <1>2, <1>3, <1>4, <1>5, PlainWriteKeeps

\* A stub is the operator's own word on the row: history says so.
LEMMA StubWriteKeeps ==
    ASSUME NodesInv, NEW s \in Sessions, NEW given \in {"ABSENT", "READY", "NOT_READY"},
           NEW pid \in {"own", "other"}, NEW mode \in BOOLEAN, StubWrite(s, given, pid, mode)
    PROVE  NodesInv'
<1> DEFINE n == ses[s].n
           seen == ses[s].seen
           st == IF given # "ABSENT" THEN given
                 ELSE IF seen.status = "ABSENT" THEN "NOT_READY" ELSE seen.status
           new == [seen EXCEPT !.status = st, !.sched = FALSE, !.pid = pid, !.stub = TRUE]
           W == WriteColumns(n, ses[s].op, seen, new)
<1>0. ses[s].pc = "loaded" /\ ses[s].op = "stub"
  BY DEF StubWrite, Doing
<1>1. n \in Nodes /\ seen \in NodeRow
  BY <1>0, AtWork
<1>2. st \in NodeStatuses
  BY <1>1 DEF NodeRow, NodeStatuses
<1>3. /\ SessionWrites(s, new) /\ UNCHANGED <<inst, lock>>
      /\ ssm' \in [Nodes -> BOOLEAN]
      /\ past' = [past EXCEPT ![n] = [gated |-> FALSE, dereg |-> TRUE]]
  BY DEF StubWrite, NodesInv, NodesTyping
<1>4. /\ past' \in [Nodes -> [gated : BOOLEAN, dereg : BOOLEAN]]
      /\ \A m \in Nodes \ {n} : past'[m] = past[m]
      /\ ~past'[n].gated /\ past'[n].dereg
  BY <1>1, <1>3 DEF NodesInv, NodesTyping
<1> HIDE DEF st
<1>5. new \in NodeRow /\ new.status = st /\ new.status # "ABSENT"
  BY <1>1, <1>2 DEF NodeRow, NodeStatuses
<1> HIDE DEF new
<1>6. W = WriteColumns(n, ses[s].op, ses[s].seen, new) /\ ses[s].n = n
  OBVIOUS
<1> HIDE DEF W, n
<1>7. W.status # "ABSENT"
  BY <1>0, <1>1, <1>5, <1>6, WhatIsWritten
<1> QED
  BY <1>0, <1>1, <1>3, <1>4, <1>5, <1>6, <1>7, WriteKeeps

\* Drain, monitor, mark and reconcile take nothing into the pool.
LEMMA ShortWritesKeep ==
    ASSUME NodesInv, NEW s \in Sessions,
           \/ Drain(s) \/ MarkNotReady(s) \/ ReconcileWrite(s)
           \/ \E low, recent \in BOOLEAN : MonitorWrite(s, low, recent)
    PROVE  NodesInv'
<1> DEFINE n == ses[s].n
           seen == ses[s].seen
<1>0. ses[s].pc = "loaded" /\ ses[s].op \in {"drain", "mark", "reconcile", "monitor"}
  BY DEF Drain, MarkNotReady, ReconcileWrite, MonitorWrite, Doing
<1>1. n \in Nodes /\ seen \in NodeRow /\ seen.status # "ABSENT" /\ UNCHANGED <<ssm, inst, lock, past>>
  BY <1>0, AtWork DEF NodesInv, NodesTyping, WorkOK, Drain, MarkNotReady, ReconcileWrite, MonitorWrite
<1>2. {"DRAINING", "PROVISIONING", "TERMINATED"} \subseteq NodeStatuses
  BY DEF NodeStatuses
<1>3. SessionWrites(s, seen) => NodesInv'
  BY <1>0, <1>1, PlainWriteKeeps
<1>4. ASSUME NEW st \in {"DRAINING", "PROVISIONING", "TERMINATED"},
             st = "TERMINATED" => inst[n] = "gone" \/ past[n].dereg,
             SessionWrites(s, [seen EXCEPT !.status = st, !.sched = FALSE])
      PROVE  NodesInv'
  <2> DEFINE new == [seen EXCEPT !.status = st, !.sched = FALSE]
  <2>1. new \in NodeRow /\ new.status = st /\ new.pid = seen.pid
    BY <1>1, <1>2, RowChanged
  <2>2. SessionWrites(s, new)
    BY <1>4
  <2> HIDE DEF new
  <2> QED
    BY <1>0, <1>1, <1>4, <2>1, <2>2, PlainWriteKeeps DEF InPool
<1>5. CASE Drain(s)
  BY <1>4, <1>5 DEF Drain
<1>6. CASE MarkNotReady(s)
  BY <1>4, <1>6 DEF MarkNotReady
<1>7. CASE ReconcileWrite(s)
  <2>1. PICK state \in StatesOf(n, seen.pid) :
          SessionWrites(s, IF ReconcileGone(seen, state)
                           THEN [seen EXCEPT !.status = "TERMINATED", !.sched = FALSE] ELSE seen)
    BY <1>7 DEF ReconcileWrite
  <2>2. past[n].dereg \/ state = inst[n]
    BY <1>0, StateTold
  <2>3. CASE ReconcileGone(seen, state)
    BY <1>4, <2>1, <2>2, <2>3 DEF ReconcileGone
  <2>4. CASE ~ReconcileGone(seen, state)
    BY <1>3, <2>1, <2>4
  <2> QED
    BY <2>3, <2>4
<1>8. ASSUME NEW low \in BOOLEAN, NEW recent \in BOOLEAN, MonitorWrite(s, low, recent) PROVE NodesInv'
  <2> DEFINE sched == IF low THEN FALSE ELSE IF seen.low /\ recent THEN TRUE ELSE seen.sched
             new == [seen EXCEPT !.low = low, !.sched = sched]
  <2>1. sched \in BOOLEAN
    BY <1>1 DEF NodeRow
  <2>2. SessionWrites(s, new)
    BY <1>8 DEF MonitorWrite
  <2> HIDE DEF sched
  <2>3. new \in NodeRow /\ new.status = seen.status /\ new.pid = seen.pid
    BY <1>1, <2>1 DEF NodeRow
  <2> HIDE DEF new
  <2> QED
    BY <1>0, <1>1, <2>2, <2>3, PlainWriteKeeps
<1> QED
  BY <1>5, <1>6, <1>7, <1>8

\* The operator vouches for the node, or takes it away: history says so.
LEMMA UndrainKeeps ==
    ASSUME NodesInv, NEW s \in Sessions, Undrain(s) \/ Deregister(s)
    PROVE  NodesInv'
<1> DEFINE n == ses[s].n
           seen == ses[s].seen
           up == [seen EXCEPT !.status = "READY", !.sched = TRUE]
           down == [seen EXCEPT !.status = "TERMINATED", !.sched = FALSE]
<1>0. ses[s].pc = "loaded" /\ ses[s].op \in {"undrain", "deregister"}
  BY DEF Undrain, Deregister, Doing
<1>1. /\ n \in Nodes /\ seen \in NodeRow /\ past[n] \in [gated : BOOLEAN, dereg : BOOLEAN]
      /\ past \in [Nodes -> [gated : BOOLEAN, dereg : BOOLEAN]]
  BY <1>0, AtWork DEF NodesInv, NodesTyping
<1>2. "READY" \in NodeStatuses /\ "TERMINATED" \in NodeStatuses
  BY DEF NodeStatuses
<1>3. up \in NodeRow /\ up.status = "READY" /\ down \in NodeRow /\ down.status = "TERMINATED"
      /\ up.pid = seen.pid /\ down.pid = seen.pid
  BY <1>1, <1>2, RowChanged
<1>4. CASE Undrain(s)
  <2>1. SessionWrites(s, up) /\ UNCHANGED <<ssm, inst, lock>> /\ past' = [past EXCEPT ![n].gated = FALSE]
    BY <1>4 DEF Undrain
  <2>2. /\ past' \in [Nodes -> [gated : BOOLEAN, dereg : BOOLEAN]]
        /\ \A m \in Nodes \ {n} : past'[m] = past[m]
        /\ ~past'[n].gated /\ past'[n].dereg = past[n].dereg
    BY <1>1, <2>1
  <2> HIDE DEF up
  <2> DEFINE W == WriteColumns(n, ses[s].op, seen, up)
  <2>3. W = WriteColumns(n, ses[s].op, ses[s].seen, up) /\ ses[s].n = n
    OBVIOUS
  <2> HIDE DEF W, n
  <2>4. W.status # "ABSENT" /\ (W.status = "TERMINATED" => past[n].dereg \/ inst[n] = "gone")
    BY <1>0, <1>1, <1>3, <2>3, WhatIsWritten
  <2>5. /\ past'[n].gated => past[n].gated
        /\ past[n].dereg => past'[n].dereg
        /\ W.status = "TERMINATED" => past'[n].dereg \/ inst[n] = "gone"
        /\ past'[n].gated => W.status \notin InPool
    BY <2>2, <2>4
  <2>6. ses[s].pc = "loaded" /\ n \in Nodes /\ up \in NodeRow /\ W.status # "ABSENT"
        /\ up.pid = ses[s].seen.pid
    BY <1>0, <1>1, <1>3, <2>4
  <2>7. SessionWrites(s, up) /\ UNCHANGED <<inst, lock>> /\ ssm' \in [Nodes -> BOOLEAN]
    BY <2>1 DEF NodesInv, NodesTyping
  <2> HIDE DEF seen, down
  <2> QED
    BY <2>7, <2>2, <2>3, <2>5, <2>6, WriteKeeps
<1>5. CASE Deregister(s)
  <2>1. SessionWrites(s, down) /\ UNCHANGED <<ssm, inst, lock>> /\ past' = [past EXCEPT ![n].dereg = TRUE]
    BY <1>5 DEF Deregister
  <2>2. /\ past' \in [Nodes -> [gated : BOOLEAN, dereg : BOOLEAN]]
        /\ \A m \in Nodes \ {n} : past'[m] = past[m]
        /\ past'[n].dereg /\ past'[n].gated = past[n].gated
    BY <1>1, <2>1
  <2> HIDE DEF down
  <2> DEFINE W == WriteColumns(n, ses[s].op, seen, down)
  <2>3. W = WriteColumns(n, ses[s].op, ses[s].seen, down) /\ ses[s].n = n
    OBVIOUS
  <2> HIDE DEF W, n
  <2>4. /\ W.status # "ABSENT"
        /\ past[n].gated => W.status \notin InPool
    BY <1>0, <1>1, <1>3, <2>3, WhatIsWritten DEF InPool
  <2>5. /\ past'[n].gated => past[n].gated
        /\ past[n].dereg => past'[n].dereg
        /\ W.status = "TERMINATED" => past'[n].dereg \/ inst[n] = "gone"
        /\ past'[n].gated => W.status \notin InPool
    BY <2>2, <2>4
  <2>6. ses[s].pc = "loaded" /\ n \in Nodes /\ down \in NodeRow /\ W.status # "ABSENT"
        /\ down.pid = ses[s].seen.pid
    BY <1>0, <1>1, <1>3, <2>4
  <2>7. SessionWrites(s, down) /\ UNCHANGED <<inst, lock>> /\ ssm' \in [Nodes -> BOOLEAN]
    BY <2>1 DEF NodesInv, NodesTyping
  <2> HIDE DEF seen, up
  <2> QED
    BY <2>7, <2>2, <2>3, <2>5, <2>6, WriteKeeps
<1> QED
  BY <1>4, <1>5

LEMMA FlushesKeep ==
    ASSUME NodesInv, NEW s \in Sessions, SyncRegister(s) \/ TerminateFlush(s)
    PROVE  NodesInv'
<1> DEFINE n == ses[s].n
           seen == ses[s].seen
<1>0. ses[s].pc = "loaded" /\ ses[s].op \in {"sync", "terminate", "scale_in"}
  BY DEF SyncRegister, TerminateFlush, Doing
<1>1. /\ n \in Nodes /\ seen \in NodeRow /\ inst[n] \in InstanceStates
      /\ seen.status # "ABSENT"
  BY <1>0, AtWork DEF NodesInv, NodesTyping, WorkOK
<1>2. \E new \in NodeRow : \E original \in {"ABSENT", seen.status} :
        /\ SessionFlushes(s, new, original) /\ UNCHANGED <<ssm, row, inst, past>>
        /\ new.status # "ABSENT" /\ new.pid = seen.pid
        /\ new.status = "TERMINATED" => seen.status = "TERMINATED" \/ inst[n] = "gone" \/ past[n].dereg
        /\ new.status \in InPool => seen.status \in InPool
  <2>1. CASE SyncRegister(s)
    <3>0. PICK state \in StatesOf(n, seen.pid) :
            SessionFlushes(s, Registered(seen, state), seen.status) /\ UNCHANGED <<ssm, row, inst, past>>
      BY <2>1 DEF SyncRegister
    <3> DEFINE new == Registered(seen, state)
    <3>1. state \in InstanceStates /\ (past[n].dereg \/ state = inst[n])
      BY <1>0, StateTold
    <3>2. /\ new \in NodeRow /\ new.pid = seen.pid /\ new.status \in NodeStatuses
          /\ new.status = "TERMINATED" => seen.status = "TERMINATED" \/ state = "gone"
          /\ new.status \in InPool => seen.status \in InPool
      BY <1>1, <3>1, SyncTells
    <3>3. SessionFlushes(s, new, seen.status) /\ UNCHANGED <<ssm, row, inst, past>>
      BY <3>0
    <3> HIDE DEF new
    <3> QED
      BY <3>1, <3>2, <3>3 DEF NodeStatuses
  <2>2. CASE TerminateFlush(s)
    <3> DEFINE new == [seen EXCEPT !.status = "TERMINATING", !.sched = FALSE]
    <3>1. new \in NodeRow /\ new.status = "TERMINATING" /\ new.pid = seen.pid
      BY <1>1, RowChanged DEF NodeStatuses
    <3>2. SessionFlushes(s, new, "ABSENT") /\ UNCHANGED <<ssm, row, inst, past>>
      BY <2>2 DEF TerminateFlush
    <3> HIDE DEF new
    <3> QED
      BY <3>1, <3>2 DEF InPool
  <2> QED
    BY <2>1, <2>2
<1>3. PICK new \in NodeRow, original \in {"ABSENT", seen.status} :
        /\ SessionFlushes(s, new, original) /\ UNCHANGED <<ssm, row, inst, past>>
        /\ new.status # "ABSENT" /\ new.pid = seen.pid
        /\ new.status = "TERMINATED" => seen.status = "TERMINATED" \/ inst[n] = "gone" \/ past[n].dereg
        /\ new.status \in InPool => seen.status \in InPool
  BY <1>2
<1> DEFINE W == WriteColumns(n, ses[s].op, seen, new)
<1>4. W = WriteColumns(n, ses[s].op, ses[s].seen, new) /\ ses[s].n = n
  OBVIOUS
<1> HIDE DEF W, n
<1>5. /\ W.status # "ABSENT"
      /\ W.status = "TERMINATED" => past[n].dereg \/ inst[n] = "gone"
      /\ past[n].gated => W.status \notin InPool
  BY <1>0, <1>1, <1>3, <1>4, WhatIsWritten
<1> QED
  BY <1>0, <1>1, <1>3, <1>4, <1>5, FlushKeeps

\* The row under the lock is the session's: it was out of the pool when it was
\* flushed, and only a gate that has passed lets it in.
LEMMA SyncPromoteKeeps ==
    ASSUME NodesInv, NEW s \in Sessions, NEW describe \in BOOLEAN, NEW gate \in BOOLEAN,
           SyncPromote(s, describe, gate)
    PROVE  NodesInv'
<1> DEFINE n == ses[s].n
           original == ses[s].seen.status
           mine == ses[s].mine
           proven == PutBack(mine, original)
           promotes == original \in Promotable /\ describe /\ "running" \in StatesOf(n, mine.pid)
           new == IF promotes THEN Promoted(n, proven, gate) ELSE mine
           passed == promotes /\ gate
<1>0. ses[s].pc = "flushed" /\ ses[s].op = "sync"
  BY DEF SyncPromote, Doing
<1>1. /\ n \in Nodes /\ mine \in NodeRow /\ inst[n] \in InstanceStates
      /\ past[n] \in [gated : BOOLEAN, dereg : BOOLEAN]
      /\ past \in [Nodes -> [gated : BOOLEAN, dereg : BOOLEAN]]
      /\ inst \in [Nodes -> InstanceStates]
  BY <1>0, AtWork DEF NodesInv, NodesTyping
<1>2. /\ mine.status # "ABSENT"
      /\ mine.status = "TERMINATED" => past[n].dereg \/ inst[n] = "gone"
      /\ past[n].gated => mine.status \notin InPool
  BY <1>0, <1>1 DEF NodesInv, LockInv, GoneInv, GateInv, Holder
<1>3. /\ promotes => proven \in NodeRow /\ proven.pid = mine.pid /\ proven.status # "ABSENT"
      /\ promotes /\ proven.status = "TERMINATED" => mine.status = "TERMINATED"
      /\ mine.status \notin InPool => proven = mine
  <2>1. CASE mine.status = "READY"
    <3>1. proven = [mine EXCEPT !.status = original, !.sched = FALSE]
      BY <2>1 DEF PutBack
    <3>2. promotes => original \in NodeStatuses /\ original # "ABSENT" /\ original # "TERMINATED"
      BY DEF Promotable, NodeStatuses
    <3> HIDE DEF original, promotes, mine, proven
    <3>3. promotes => proven \in NodeRow /\ proven.pid = mine.pid /\ proven.status = original
      <4> SUFFICES ASSUME promotes
                   PROVE  proven \in NodeRow /\ proven.pid = mine.pid /\ proven.status = original
        OBVIOUS
      <4>1. original \in NodeStatuses /\ mine \in NodeRow
        BY <1>1, <3>2
      <4> QED
        BY <4>1, <3>1, RowChanged, Zenon
    <3> QED
      BY <2>1, <3>2, <3>3 DEF InPool
  <2>2. CASE mine.status # "READY"
    <3>1. proven = mine
      BY <2>2 DEF PutBack
    <3> HIDE DEF original, promotes, mine, proven
    <3> QED
      BY <3>1, <1>1, <1>2
  <2> QED
    BY <2>1, <2>2
<1>4. /\ SessionCommits(s, new) /\ UNCHANGED <<ssm, inst>>
      /\ past' = [past EXCEPT ![n].gated = @ /\ ~passed]
  BY DEF SyncPromote
<1>5. /\ past' \in [Nodes -> [gated : BOOLEAN, dereg : BOOLEAN]]
      /\ \A m \in Nodes \ {n} : past'[m] = past[m]
      /\ past'[n].gated = (past[n].gated /\ ~passed) /\ past'[n].dereg = past[n].dereg
  BY <1>1, <1>4
<1> HIDE DEF n, original, mine, proven, passed
<1>6. /\ new \in NodeRow /\ new.pid = mine.pid /\ new.status # "ABSENT"
      /\ new.status = "TERMINATED" => mine.status = "TERMINATED"
      /\ mine.status \notin InPool /\ ~passed => new.status \notin InPool
  <2>1. CASE promotes
    <3>1. new = Promoted(n, proven, gate) /\ proven \in NodeRow /\ proven.status # "ABSENT"
      BY <2>1, <1>3
    <3> HIDE DEF new
    <3>2. /\ new \in NodeRow /\ new.pid = proven.pid /\ new.status # "ABSENT"
          /\ new.status = "TERMINATED" => proven.status = "TERMINATED"
          /\ proven.status \notin InPool /\ ~gate => new.status \notin InPool
      BY <1>1, <3>1, PromotionTells
    <3> QED
      BY <2>1, <1>3, <3>2 DEF passed
  <2>2. CASE ~promotes
    BY <2>2, <1>1, <1>2
  <2> QED
    BY <2>1, <2>2
<1> HIDE DEF new, promotes
<1>7. past'[n].gated => new.status \notin InPool
  BY <1>2, <1>5, <1>6
<1>8. ses[s].n = n /\ new.pid = ses[s].mine.pid /\ past[n].dereg = past'[n].dereg
      /\ (past'[n].gated => past[n].gated)
  BY <1>5, <1>6 DEF n, mine
<1>9. new.status = "TERMINATED" => past[n].dereg \/ inst'[n] = "gone"
  BY <1>2, <1>4, <1>6
<1> QED
  BY <1>0, <1>1, <1>4, <1>5, <1>6, <1>7, <1>8, <1>9, CommitKeeps

\* What a session at AWS still holds is the row it has flushed, under its lock.
LEMMA TerminatesKeep ==
    ASSUME NodesInv, NEW s \in Sessions,
           \/ \E known \in BOOLEAN : TerminateCommit(s, known)
           \/ TerminateLost(s) \/ TerminateRefused(s)
    PROVE  NodesInv'
<1> DEFINE n == ses[s].n
           mine == ses[s].mine
<1>0. ses[s].pc = "flushed" /\ ses[s].op \in {"terminate", "scale_in"} /\ UNCHANGED <<ssm, past>>
  BY DEF TerminateCommit, TerminateLost, TerminateRefused, Doing
<1>1. /\ n \in Nodes /\ mine \in NodeRow /\ inst \in [Nodes -> InstanceStates]
      /\ past \in [Nodes -> [gated : BOOLEAN, dereg : BOOLEAN]]
      /\ lock \in [Nodes -> Sessions \cup {NoSession}]
  BY <1>0, AtWork DEF NodesInv, NodesTyping
<1>2. \A m \in Nodes : lock[m] = s <=> m = n
  BY <1>0, <1>1, NodesAssumption DEF NodesInv, LockInv, Holder
<1>7. StateAfterTerminate(s) \in {"gone", inst[n]} /\ (past[n].dereg \/ StateAfterTerminate(s) = "gone")
  BY <1>0, <1>1, NodesAssumption DEF StateAfterTerminate, NodesInv, PidInv
<1>3. "gone" \in InstanceStates /\ {"TERMINATED", "TERMINATING", "ERROR"} \subseteq NodeStatuses
  BY DEF InstanceStates, NodeStatuses
<1>4. ASSUME NEW known \in BOOLEAN, TerminateCommit(s, known) PROVE NodesInv'
  <2> DEFINE st == TerminatedStatus(known)
             new == [mine EXCEPT !.status = st, !.sched = FALSE]
  <2>1. SessionCommits(s, new) /\ inst' = [inst EXCEPT ![n] = StateAfterTerminate(s)]
    BY <1>4 DEF TerminateCommit
  <2>2. st \in NodeStatuses /\ st \in {"TERMINATED", "TERMINATING"}
    BY <1>3 DEF TerminatedStatus
  <2> HIDE DEF st
  <2>3. new \in NodeRow /\ new.status = st /\ new.pid = mine.pid
    BY <1>1, <2>2, RowChanged
  <2>4. /\ inst' \in [Nodes -> InstanceStates] /\ (past[n].dereg \/ inst'[n] = "gone")
        /\ \A m \in Nodes : inst'[m] = inst[m] \/ inst'[m] = "gone"
    BY <1>1, <1>3, <1>7, <2>1
  <2> HIDE DEF new
  <2>5. SessionCommits(s, new) /\ new.status # "ABSENT" /\ new.status \notin InPool
    BY <2>1, <2>2, <2>3 DEF InPool
  <2> QED
    BY <1>0, <1>1, <2>3, <2>4, <2>5, CommitKeeps
<1>5. CASE TerminateLost(s)
  <2>1. /\ inst' = [inst EXCEPT ![n] = StateAfterTerminate(s)] /\ lock' = [lock EXCEPT ![n] = NoSession]
        /\ ses' = [ses EXCEPT ![s] = NoWork] /\ UNCHANGED <<ssm, row, past>>
    BY <1>5 DEF TerminateLost
  <2>2. /\ inst' \in [Nodes -> InstanceStates]
        /\ \A m \in Nodes : inst'[m] = inst[m] \/ inst'[m] = "gone"
        /\ lock' \in [Nodes -> Sessions \cup {NoSession}]
        /\ \A m \in Nodes : lock'[m] = IF lock[m] = s THEN NoSession ELSE lock[m]
    BY <1>1, <1>2, <1>3, <1>7, <2>1
  <2> QED
    BY <2>1, <2>2, ReleaseKeeps
<1>6. CASE TerminateRefused(s)
  <2> DEFINE new == [mine EXCEPT !.status = "ERROR"]
  <2>1. SessionCommits(s, new) /\ UNCHANGED inst
    BY <1>6 DEF TerminateRefused
  <2>2. new \in NodeRow /\ new.status = "ERROR" /\ new.pid = mine.pid
    BY <1>1, <1>3 DEF NodeRow
  <2> HIDE DEF new
  <2> QED
    BY <1>0, <1>1, <2>1, <2>2, CommitKeeps DEF InPool
<1> QED
  BY <1>4, <1>5, <1>6

-----------------------------------------------------------------------------
(* The theorems *)

LEMMA NodesStep == NodesInv /\ [NodesNext]_nodeVars => NodesInv'
<1> SUFFICES ASSUME NodesInv, [NodesNext]_nodeVars PROVE NodesInv'
  OBVIOUS
<1>1. ASSUME NEW s \in Sessions, SessionStarts(s) PROVE NodesInv'
  BY <1>1, StartsKeep
<1>2. ASSUME NEW s \in Sessions, SessionEnds(s) PROVE NodesInv'
  <2>1. CASE ProvisionInsert(s)
    BY <2>1, ProvisionInsertKeeps
  <2>2. CASE \E catalogOnly \in BOOLEAN : AdoptWrite(s, catalogOnly)
    BY <2>2, AdoptWriteKeeps
  <2>3. CASE SyncRegister(s) \/ TerminateFlush(s)
    BY <2>3, FlushesKeep
  <2>4. CASE \E describe, gate \in BOOLEAN : SyncPromote(s, describe, gate)
    BY <2>4, SyncPromoteKeeps
  <2>5. CASE \E given \in {"ABSENT", "READY", "NOT_READY"}, pid \in {"own", "other"}, mode \in BOOLEAN :
               StubWrite(s, given, pid, mode)
    BY <2>5, StubWriteKeeps
  <2>6. CASE \/ Drain(s) \/ MarkNotReady(s) \/ ReconcileWrite(s)
             \/ \E low, recent \in BOOLEAN : MonitorWrite(s, low, recent)
    BY <2>6, ShortWritesKeep
  <2>7. CASE Undrain(s) \/ Deregister(s)
    BY <2>7, UndrainKeeps
  <2>8. CASE \/ \E known \in BOOLEAN : TerminateCommit(s, known)
             \/ TerminateLost(s) \/ TerminateRefused(s)
    BY <2>8, TerminatesKeep
  <2> QED
    BY <1>2, <2>1, <2>2, <2>3, <2>4, <2>5, <2>6, <2>7, <2>8 DEF SessionEnds
<1>3. ASSUME NEW s \in Sessions, Rollback(s) PROVE NodesInv'
  BY <1>3, RollbackKeeps
<1>5. ASSUME NEW n \in Nodes, InstanceStops(n) \/ InstanceStarts(n) \/ InstanceLost(n)
      PROVE  NodesInv'
  BY <1>5, InstanceKeeps
<1>6. CASE UNCHANGED nodeVars
  <2> USE <1>6 DEF nodeVars
  <2>1. NodesTyping'
    BY DEF NodesInv, NodesTyping
  <2>2. LockInv'
    BY DEF NodesInv, LockInv, Holder, Exists
  <2>3. GoneInv'
    BY DEF NodesInv, GoneInv, Holder
  <2>4. GateInv' /\ PidInv'
    BY DEF NodesInv, GateInv, PidInv, Holder, Exists
  <2> QED
    BY <2>1, <2>2, <2>3, <2>4 DEF NodesInv
<1> QED
  BY <1>1, <1>2, <1>3, <1>5, <1>6 DEF NodesNext

LEMMA NodesInvAlways == NodesSpec => []NodesInv
BY NodesStart, NodesStep, PTL DEF NodesSpec

\* Every column of the node rows keeps its type, and a row lock belongs to the one
\* session that has flushed the row (execution_node, terminate_ec2_node, sync_node_state).
THEOREM NodesTypingAlways == NodesSpec => []NodesTypeOK
<1>1. ASSUME NodesInv PROVE NodesTypeOK
  <2>1. \A s \in Sessions : ses[s] \in SessionWork
    BY <1>1 DEF NodesInv, NodesTyping, WorkOK
  <2>2. ses \in [Sessions -> SessionWork]
    BY <1>1, <2>1 DEF NodesInv, NodesTyping
  <2>3. \A n \in Nodes : lock[n] # NoSession => ses[lock[n]].pc = "flushed" /\ ses[lock[n]].n = n
    BY <1>1 DEF NodesInv, LockInv, Holder
  <2> QED
    BY <1>1, <2>2, <2>3 DEF NodesInv, NodesTyping, NodesTypeOK
<1> QED
  BY <1>1, NodesInvAlways, PTL

\* Whatever operators, autoscaler, workers and janitor load, flush and lose: a row that
\* nobody deregistered, nor wrote a catalog stub over, is TERMINATED only when its
\* instance is gone (terminate_ec2_node, reconcile_stale_ec2_execution_nodes).
THEOREM TerminatedMeansGoneAlways == NodesSpec => []TerminatedMeansGone
<1>1. NodesInv => TerminatedMeansGone
  BY DEF NodesInv, NodesTyping, GoneInv, TerminatedMeansGone
<1> QED
  BY <1>1, NodesInvAlways, PTL

\* No interleaving of stale sessions makes a launched node schedulable before its ready
\* gate, an operator's undrain or catalog stub (promote_ec2_node_if_heartbeat_ready).
THEOREM GateNotBypassedAlways == NodesSpec => []GateNotBypassed
<1>1. NodesInv => GateNotBypassed
  BY DEF NodesInv, NodesTyping, GateInv, GateNotBypassed, PlacementReady, InPool
<1> QED
  BY <1>1, NodesInvAlways, PTL
=============================================================================
