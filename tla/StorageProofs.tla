---------------------------- MODULE StorageProofs ----------------------------
(***************************************************************************)
(* Proofs about RepoImport and Snapshots for any number of rows, jobs and  *)
(* directories.                                                            *)
(***************************************************************************)
EXTENDS RepoImport, Snapshots, TLAPS, FiniteSetTheorems, NaturalsInduction

-----------------------------------------------------------------------------
(* Finite sets of naturals *)

\* A set of naturals has a least element.
LEMMA LeastNatural ==
    ASSUME NEW T \in SUBSET Nat, T # {}
    PROVE  \E m \in T : \A k \in T : m <= k
<1> DEFINE Less == {p \in Nat \X Nat : p[1] < p[2]}
<1>1. IsWellFoundedOn(Less, Nat)
  BY NatLessThanWellFounded DEF OpToRel
<1> HIDE DEF Less
<1>2. PICK m \in T : \A k \in T : ~(<<k, m>> \in Less)
  BY <1>1, WFMin
<1>3. \A k \in T : ~(k < m)
  BY <1>2 DEF Less
<1>4. QED BY <1>3

\* The largest of some row ids is one of them.
LEMMA MaxOfRows ==
    ASSUME NEW n \in Nat, NEW S \in SUBSET (1 .. n), S # {}
    PROVE  Max(S) \in S
<1> DEFINE Bounds == {b \in Nat : \A y \in S : y <= b}
<1>1. n \in Bounds
  OBVIOUS
<1>2. PICK m \in Bounds : \A b \in Bounds : m <= b
  BY <1>1, LeastNatural
<1>3. m \in S
  <2>1. PICK y \in S : TRUE
    OBVIOUS
  <2>2. m - 1 \in Nat /\ m - 1 \notin Bounds
    BY <2>1, <1>2
  <2>3. PICK z \in S : ~(z <= m - 1)
    BY <2>2
  <2>4. z = m
    BY <2>2, <2>3, <1>2
  <2>5. QED BY <2>4
<1>4. \A y \in S : m >= y
  BY <1>2
<1>5. \E x \in S : \A y \in S : x >= y
  BY <1>3, <1>4
<1>6. QED BY <1>5 DEF Max

\* What changes in a cardinality when one element comes or goes.
LEMMA CountUp ==
    ASSUME NEW S, IsFiniteSet(S), NEW x, x \notin S, NEW T, T = S \cup {x}
    PROVE  IsFiniteSet(T) /\ Cardinality(T) = Cardinality(S) + 1 /\ Cardinality(S) \in Nat
BY FS_AddElement, FS_CardinalityType

\* The same for an element that goes.
LEMMA CountDown ==
    ASSUME NEW S, IsFiniteSet(S), NEW x \in S, NEW T, T = S \ {x}
    PROVE  IsFiniteSet(T) /\ Cardinality(T) = Cardinality(S) - 1 /\ Cardinality(S) \in Nat
           /\ Cardinality(T) \in Nat
<1>1. IsFiniteSet(T) /\ Cardinality(T) = Cardinality(S) - 1
  BY FS_RemoveElement
<1>2. QED BY <1>1, FS_CardinalityType

-----------------------------------------------------------------------------
(* RepoImport *)

RowStates == {"NONE", "pending", "cloned", "GONE"}
ImportPcs == {"unused", "queued", "claimed", "selected", "cloning", "cut", "done"}
ImportJob == [pc : ImportPcs,
              row : 0 .. MaxRepos, tries : Nat]
DirState == [of : 0 .. MaxRepos, whole : BOOLEAN]

RepoTyping ==
    /\ repo \in [RepoIds -> RowStates]
    /\ where \in [RepoIds -> Dirs \cup {"none"}]
    /\ rjob \in [ImportJobs -> ImportJob]
    /\ disk \in [Dirs -> DirState]
    /\ lost \in Nat

\* A row that exists has a directory.
RowsPlaced == \A i \in RepoIds : repo[i] \notin {"NONE", "GONE"} => where[i] \in Dirs

\* The states of a job whose worker has locked the row.
Holding == {"cloning", "cut", "done"}

\* A job that has selected a row has selected one that was added, and deletes wait
\* for a worker that has locked its row.
RowsHeld ==
    \A j \in ImportJobs :
        /\ rjob[j].pc \in {"selected"} \cup Holding => rjob[j].row \in RepoIds /\ repo[rjob[j].row] # "NONE"
        /\ rjob[j].pc \in Holding => repo[rjob[j].row] # "GONE"

\* A clone that is done and not yet committed has its files, unless they are gone
\* with the container.
DoneHasFiles ==
    \A j \in ImportJobs :
        rjob[j].pc = "done" /\ rjob[j].row \notin swept => disk[where[rjob[j].row]] = FilesOf(rjob[j].row)

RepoInv == RepoTyping /\ RowsPlaced /\ RowsHeld /\ ClonedHasFiles /\ DoneHasFiles

LEMMA FilesThere == \A i : FilesOf(i) # EmptyDir
<1>1. \A i : FilesOf(i).whole = TRUE /\ EmptyDir.whole = FALSE
  BY DEF FilesOf, EmptyDir
<1>2. QED BY <1>1

\* The kinds of step a job can take: its record is replaced by another one.
LEMMA JobStep ==
    ASSUME RepoTyping, NEW j \in ImportJobs
    PROVE  /\ ImportClaimed(j) => rjob' = [rjob EXCEPT ![j] = [pc |-> "claimed", row |-> rjob[j].row, tries |-> rjob[j].tries]]
           /\ Undone(j) => rjob' = [rjob EXCEPT ![j] = [pc |-> "queued", row |-> 0, tries |-> rjob[j].tries]]
           /\ ImportQueued(j) => rjob' = [rjob EXCEPT ![j] = [pc |-> "queued", row |-> 0, tries |-> 0]]
           /\ ImportOver(j) => rjob' = [rjob EXCEPT ![j] = [pc |-> "unused", row |-> 0, tries |-> 0]]
<1>1. rjob \in [ImportJobs -> ImportJob] /\ rjob[j] \in ImportJob
  BY DEF RepoTyping
<1>2. ImportClaimed(j) => rjob' = [rjob EXCEPT ![j] = [pc |-> "claimed", row |-> rjob[j].row, tries |-> rjob[j].tries]]
  BY <1>1 DEF ImportClaimed, ImportJob
<1>3. Undone(j) => rjob' = [rjob EXCEPT ![j] = [pc |-> "queued", row |-> 0, tries |-> rjob[j].tries]]
  BY <1>1 DEF Undone, ImportJob
<1>4. ImportQueued(j) => rjob' = [rjob EXCEPT ![j] = [pc |-> "queued", row |-> 0, tries |-> 0]]
  <2>1. [NoImport EXCEPT !.pc = "queued"] = [pc |-> "queued", row |-> 0, tries |-> 0]
    BY DEF NoImport
  <2>2. ImportQueued(j) => rjob' = [rjob EXCEPT ![j] = [NoImport EXCEPT !.pc = "queued"]]
    BY <1>1 DEF ImportQueued
  <2>3. QED BY <2>1, <2>2
<1>5. ImportOver(j) => rjob' = [rjob EXCEPT ![j] = [pc |-> "unused", row |-> 0, tries |-> 0]]
  BY DEF ImportOver, NoImport
<1>6. QED BY <1>2, <1>3, <1>4, <1>5


\* The same for the steps that choose a row.
LEMMA JobChooses ==
    ASSUME RepoTyping, NEW j \in ImportJobs, NEW r
    PROVE  /\ rjob' = [rjob EXCEPT ![j].pc = "selected", ![j].row = r]
              => rjob' = [rjob EXCEPT ![j] = [pc |-> "selected", row |-> r, tries |-> rjob[j].tries]]
           /\ rjob' = [rjob EXCEPT ![j].pc = "cloning"]
              => rjob' = [rjob EXCEPT ![j] = [pc |-> "cloning", row |-> rjob[j].row, tries |-> rjob[j].tries]]
           /\ rjob' = [rjob EXCEPT ![j].pc = "done"]
              => rjob' = [rjob EXCEPT ![j] = [pc |-> "done", row |-> rjob[j].row, tries |-> rjob[j].tries]]
           /\ rjob' = [rjob EXCEPT ![j].pc = "queued", ![j].tries = @ + 1]
              => rjob' = [rjob EXCEPT ![j] = [pc |-> "queued", row |-> rjob[j].row, tries |-> rjob[j].tries + 1]]
<1>1. rjob \in [ImportJobs -> ImportJob] /\ rjob[j] \in ImportJob
  BY DEF RepoTyping
<1>2. QED BY <1>1 DEF ImportJob

\* A job's new record keeps the typing of jobs and what they hold, as long as the
\* rows stay what they are.
LEMMA JobMoves ==
    ASSUME RepoTyping, RowsHeld, NEW j \in ImportJobs,
           NEW p \in ImportPcs,
           NEW r \in 0 .. MaxRepos, NEW t \in Nat,
           rjob' = [rjob EXCEPT ![j] = [pc |-> p, row |-> r, tries |-> t]],
           repo' \in [RepoIds -> RowStates],
           \A i \in RepoIds : /\ repo'[i] = "NONE" => repo[i] = "NONE"
                              /\ repo'[i] = "GONE" => repo[i] = "GONE",
           p \in {"selected"} \cup Holding => r \in RepoIds /\ repo[r] # "NONE",
           p \in Holding => repo[r] # "GONE"
    PROVE  /\ rjob' \in [ImportJobs -> ImportJob] /\ RowsHeld'
           /\ \A k \in ImportJobs : IF k = j THEN rjob'[k].pc = p /\ rjob'[k].row = r ELSE rjob'[k] = rjob[k]
<1>1. [pc |-> p, row |-> r, tries |-> t] \in ImportJob
  BY DEF ImportJob
<1>2. rjob' \in [ImportJobs -> ImportJob] /\ rjob'[j].pc = p /\ rjob'[j].row = r
  BY <1>1 DEF RepoTyping
<1>3. \A k \in ImportJobs : k # j => rjob'[k] = rjob[k]
  BY DEF RepoTyping
<1>4. RowsHeld'
  BY <1>2, <1>3 DEF RowsHeld, RepoTyping
<1>5. QED BY <1>2, <1>3, <1>4

\* The import calls.
LEMMA RepoApi ==
    ASSUME RepoInv, NEW d \in Dirs, ImportChecks(d) \/ ImportCommits(d)
    PROVE  RepoInv'
<1>1. CASE ImportChecks(d)
  BY <1>1 DEF ImportChecks, RepoInv, RepoTyping, RowsPlaced, RowsHeld, ClonedHasFiles, DoneHasFiles
<1>2. CASE ImportCommits(d)
  <2>1. PICK i \in RepoIds, j \in ImportJobs :
               /\ repo[i] = "NONE" /\ ImportQueued(j)
               /\ repo' = [repo EXCEPT ![i] = "pending"]
               /\ where' = [where EXCEPT ![i] = d]
    BY <1>2 DEF ImportCommits
  <2>2. disk' = disk /\ lost' = lost /\ swept' = swept
    BY <1>2 DEF ImportCommits
  <2>3. /\ repo' \in [RepoIds -> RowStates] /\ repo'[i] = "pending"
        /\ where' \in [RepoIds -> Dirs \cup {"none"}] /\ where'[i] = d
        /\ \A k \in RepoIds : k # i => repo'[k] = repo[k] /\ where'[k] = where[k]
    BY <2>1 DEF RepoInv, RepoTyping, RowStates
  <2>4. rjob' = [rjob EXCEPT ![j] = [pc |-> "queued", row |-> 0, tries |-> 0]]
    BY <2>1, JobStep DEF RepoInv
  <2>5. /\ rjob' \in [ImportJobs -> ImportJob] /\ RowsHeld'
        /\ \A k \in ImportJobs : rjob'[k] = rjob[k] \/ rjob'[k].pc = "queued"
    <3>1. \A k \in RepoIds : /\ repo'[k] = "NONE" => repo[k] = "NONE"
                             /\ repo'[k] = "GONE" => repo[k] = "GONE"
      BY <2>3
    <3>2. 0 \in 0 .. MaxRepos
      BY RepoImportAssumption
    <3>3. RepoTyping /\ RowsHeld
      BY DEF RepoInv
    <3>4. "queued" \in ImportPcs /\ "queued" \notin {"selected"} \cup Holding
      BY DEF ImportPcs, Holding
    <3>5. QED BY <2>3, <2>4, <3>1, <3>2, <3>3, <3>4, JobMoves
  <2>6. RowsPlaced'
    BY <2>3 DEF RepoInv, RowsPlaced
  <2>7. ClonedHasFiles' /\ DoneHasFiles'
    BY <2>1, <2>2, <2>3, <2>5 DEF RepoInv, ClonedHasFiles, DoneHasFiles, RowsHeld, Holding
  <2>8. QED BY <2>2, <2>3, <2>5, <2>6, <2>7 DEF RepoInv, RepoTyping
<1>3. QED BY <1>1, <1>2

\* Deleting a row that no worker holds.
LEMMA RepoDelete ==
    ASSUME RepoInv, NEW i \in RepoIds, RepoDeleted(i)
    PROVE  RepoInv'
<1>1. /\ repo' \in [RepoIds -> RowStates] /\ repo'[i] = "GONE" /\ repo[i] # "NONE"
      /\ where' \in [RepoIds -> Dirs \cup {"none"}]
      /\ \A k \in RepoIds : k # i => repo'[k] = repo[k] /\ where'[k] = where[k]
  BY DEF RepoDeleted, Live, RepoInv, RepoTyping, RowStates
<1>2. UNCHANGED <<rjob, disk, lost>> /\ swept' = swept \ {i}
  BY DEF RepoDeleted
<1>3. \A j \in ImportJobs : rjob[j].pc \in Holding => rjob[j].row # i
  BY DEF RepoDeleted, Locked, Holding
<1>4. RowsHeld'
  BY <1>1, <1>2, <1>3 DEF RepoInv, RowsHeld
<1>5. RowsPlaced' /\ ClonedHasFiles'
  BY <1>1, <1>2 DEF RepoInv, RowsPlaced, ClonedHasFiles
<1>6. DoneHasFiles'
  BY <1>1, <1>2, <1>3 DEF RepoInv, DoneHasFiles, RowsHeld, Holding
<1>7. QED BY <1>1, <1>2, <1>4, <1>5, <1>6 DEF RepoInv, RepoTyping

\* The rows as they were: the two cases in which a job moves and no row changes.
LEMMA RowsStay ==
    ASSUME RepoInv, UNCHANGED <<repo, where, swept>>, rjob' \in [ImportJobs -> ImportJob], RowsHeld',
           \A j \in ImportJobs : rjob'[j].pc = "done" => rjob'[j] = rjob[j],
           lost' \in Nat,
           \/ disk' = disk
           \/ \E d \in Dirs, v \in DirState : disk[d] = EmptyDir /\ disk' = [disk EXCEPT ![d] = v]
    PROVE  RepoInv'
<1>1. disk' \in [Dirs -> DirState]
  BY DEF RepoInv, RepoTyping
<1>2. \A d \in Dirs : disk[d] # EmptyDir => disk'[d] = disk[d]
  BY DEF RepoInv, RepoTyping
<1>3. ClonedHasFiles'
  <2> SUFFICES ASSUME NEW i \in RepoIds \ swept, repo[i] = "cloned"
               PROVE  disk'[where[i]] = FilesOf(i)
    BY DEF ClonedHasFiles
  <2>1. disk[where[i]] = FilesOf(i) /\ where[i] \in Dirs
    BY DEF RepoInv, RowsPlaced, ClonedHasFiles
  <2>2. QED BY <2>1, <1>2, FilesThere
<1>4. DoneHasFiles'
  <2> SUFFICES ASSUME NEW j \in ImportJobs, rjob[j].pc = "done", rjob[j].row \notin swept
               PROVE  disk'[where[rjob[j].row]] = FilesOf(rjob[j].row)
    BY DEF DoneHasFiles
  <2>1. disk[where[rjob[j].row]] = FilesOf(rjob[j].row) /\ where[rjob[j].row] \in Dirs
    BY DEF RepoInv, RowsPlaced, RowsHeld, DoneHasFiles, Holding
  <2>2. QED BY <2>1, <1>2, FilesThere
<1>5. RepoTyping' /\ RowsPlaced'
  BY <1>1 DEF RepoInv, RepoTyping, RowsPlaced
<1>6. QED BY <1>3, <1>4, <1>5 DEF RepoInv

\* What a clone leaves behind is where nothing was.
LEMMA LeftoversFill ==
    ASSUME RepoInv, NEW j \in ImportJobs, Abandoned(j)
    PROVE  \/ disk' = disk
           \/ \E d \in Dirs, v \in DirState : disk[d] = EmptyDir /\ disk' = [disk EXCEPT ![d] = v]
<1> DEFINE i == rjob[j].row
<1>1. CASE disk' = disk
  BY <1>1
<1>2. CASE disk' # disk
  <2>1. /\ rjob[j].pc \in {"cloning", "cut"} /\ disk[where[i]] = EmptyDir
        /\ \E left \in {EmptyDir} \cup [of : {i}, whole : BOOLEAN] : GitLeaves(where[i], left)
    BY <1>2 DEF Abandoned
  <2>2. PICK left \in {EmptyDir} \cup [of : {i}, whole : BOOLEAN] : disk' = [disk EXCEPT ![where[i]] = left]
    BY <2>1 DEF GitLeaves
  <2>3. i \in RepoIds /\ where[i] \in Dirs
    BY <2>1 DEF RepoInv, RowsHeld, RowsPlaced, Holding
  <2>4. left \in DirState
    <3>1. EmptyDir \in DirState
      BY RepoImportAssumption DEF EmptyDir, DirState
    <3>2. i \in 0 .. MaxRepos
      BY <2>3, RepoImportAssumption DEF RepoIds
    <3> HIDE DEF i
    <3>3. [of : {i}, whole : BOOLEAN] \subseteq DirState
      BY <3>2 DEF DirState
    <3>4. QED BY <2>2, <3>1, <3>3
  <2>5. QED BY <2>1, <2>2, <2>3, <2>4
<1>3. QED BY <1>1, <1>2

\* A worker's steps up to the lock, and those that give the job back.
LEMMA RepoWorker ==
    ASSUME RepoInv, NEW j \in ImportJobs,
           \/ ImportClaimed(j) \/ ImportNotPlaced(j) \/ ImportSelects(j) \/ ImportLocks(j)
           \/ CloneFails(j) \/ ImporterDies(j)
    PROVE  RepoInv'
<1>p. /\ {"unused", "queued", "claimed", "selected", "cloning"} \subseteq ImportPcs \ {"cut", "done"}
      /\ \A p \in {"unused", "queued", "claimed"} : p \notin {"selected"} \cup Holding
      /\ "selected" \notin Holding
      /\ \A p \in ImportPcs \ {"cut", "done"} : p \in Holding => p = "cloning"
  BY DEF ImportPcs, Holding
<1> DEFINE NoneDone == \A k \in ImportJobs : rjob'[k].pc = "done" => rjob'[k] = rjob[k]
<1> DEFINE Record(p, r, t) == rjob' = [rjob EXCEPT ![j] = [pc |-> p, row |-> r, tries |-> t]]
<1>t. RepoTyping /\ RowsHeld
  BY DEF RepoInv
<1>r. rjob[j] \in ImportJob /\ rjob[j].row \in 0 .. MaxRepos /\ rjob[j].tries \in Nat /\ 0 \in 0 .. MaxRepos
  BY <1>t, RepoImportAssumption DEF RepoTyping, ImportJob
<1>u. repo' = repo => /\ repo' \in [RepoIds -> RowStates]
                      /\ \A i \in RepoIds : /\ repo'[i] = "NONE" => repo[i] = "NONE"
                                            /\ repo'[i] = "GONE" => repo[i] = "GONE"
  BY <1>t DEF RepoTyping
<1>m. ASSUME repo' = repo,
             NEW p \in ImportPcs \ {"cut", "done"},
             NEW r \in 0 .. MaxRepos, NEW t \in Nat, Record(p, r, t),
             p \in {"selected"} \cup Holding => r \in RepoIds /\ repo[r] # "NONE",
             p = "cloning" => repo[r] # "GONE"
      PROVE  rjob' \in [ImportJobs -> ImportJob] /\ RowsHeld' /\ NoneDone
  BY <1>m, <1>p, <1>t, <1>u, JobMoves
<1>n. lost \in Nat /\ lost + 1 \in Nat
  BY <1>t DEF RepoTyping
<1>1. CASE ImportClaimed(j)
  <2>1. Record("claimed", rjob[j].row, rjob[j].tries)
    BY <1>1, <1>t, JobStep
  <2>2. UNCHANGED <<repo, where, disk, swept, lost>>
    BY <1>1 DEF ImportClaimed
  <2>3. rjob' \in [ImportJobs -> ImportJob] /\ RowsHeld' /\ NoneDone
    BY <2>1, <2>2, <1>r, <1>p, <1>m
  <2>4. QED BY <2>2, <2>3, <1>n, RowsStay
<1>d. ASSUME Undone(j), repo' = repo
      PROVE  rjob' \in [ImportJobs -> ImportJob] /\ RowsHeld' /\ NoneDone
  <2>1. Record("queued", 0, rjob[j].tries)
    BY <1>d, <1>t, JobStep
  <2>2. QED BY <2>1, <1>d, <1>r, <1>p, <1>m
<1>2. CASE ImportNotPlaced(j)
  <2>1. UNCHANGED <<repo, where, disk, swept>>
    BY <1>2 DEF ImportNotPlaced
  <2>2. CASE rjob[j].tries + 1 < MaxImportTries
    <3>1. Record("queued", rjob[j].row, rjob[j].tries + 1) /\ lost' = lost
      BY <1>2, <2>2, <1>t, JobChooses DEF ImportNotPlaced
    <3>2. rjob[j].tries + 1 \in Nat
      BY <1>r
    <3>3. rjob' \in [ImportJobs -> ImportJob] /\ RowsHeld' /\ NoneDone
      BY <2>1, <3>1, <3>2, <1>r, <1>p, <1>m
    <3>4. QED BY <2>1, <3>1, <3>3, <1>n, RowsStay
  <2>3. CASE ~(rjob[j].tries + 1 < MaxImportTries)
    <3>1. Record("unused", 0, 0) /\ lost' = lost + 1
      BY <1>2, <2>3, <1>t, JobStep DEF ImportNotPlaced
    <3>2. rjob' \in [ImportJobs -> ImportJob] /\ RowsHeld' /\ NoneDone
      BY <2>1, <3>1, <1>r, <1>p, <1>m
    <3>3. QED BY <2>1, <3>1, <3>2, <1>n, RowsStay
  <2>4. QED BY <2>2, <2>3
<1>3. CASE ImportSelects(j)
  <2>1. UNCHANGED <<repo, where, disk, swept, lost>>
    BY <1>3 DEF ImportSelects
  <2>2. CASE PendingRepos = {}
    BY <1>3, <2>1, <2>2, <1>d, <1>n, RowsStay DEF ImportSelects
  <2>3. CASE PendingRepos # {}
    <3>1. PendingRepos \in SUBSET (1 .. MaxRepos) /\ MaxRepos \in Nat
      BY RepoImportAssumption DEF PendingRepos, RepoIds
    <3>2. Selected \in PendingRepos
      BY <2>3, <3>1, MaxOfRows DEF Selected
    <3>3. Selected \in RepoIds /\ repo[Selected] = "pending" /\ Selected \in 0 .. MaxRepos
      BY <3>1, <3>2 DEF PendingRepos, RepoIds
    <3>4. Record("selected", Selected, rjob[j].tries)
      BY <1>3, <2>3, <1>t, JobChooses DEF ImportSelects
    <3>5. rjob' \in [ImportJobs -> ImportJob] /\ RowsHeld' /\ NoneDone
      BY <2>1, <3>3, <3>4, <1>r, <1>p, <1>m
    <3>6. QED BY <2>1, <3>5, <1>n, RowsStay
  <2>4. QED BY <2>2, <2>3
<1>4. CASE ImportLocks(j)
  <2>1. UNCHANGED <<repo, where, disk, swept, lost>> /\ rjob[j].pc = "selected"
    BY <1>4 DEF ImportLocks
  <2>2. CASE repo[rjob[j].row] = "GONE"
    BY <1>4, <2>1, <2>2, <1>d, <1>n, RowsStay DEF ImportLocks
  <2>3. CASE repo[rjob[j].row] # "GONE"
    <3>1. Record("cloning", rjob[j].row, rjob[j].tries)
      BY <1>4, <2>3, <1>t, JobChooses DEF ImportLocks
    <3>2. rjob[j].row \in RepoIds /\ repo[rjob[j].row] # "NONE"
      BY <2>1, <1>t DEF RowsHeld
    <3>3. rjob' \in [ImportJobs -> ImportJob] /\ RowsHeld' /\ NoneDone
      BY <2>1, <2>3, <3>1, <3>2, <1>r, <1>p, <1>m
    <3>4. QED BY <2>1, <3>3, <1>n, RowsStay
  <2>4. QED BY <2>2, <2>3
<1>5. CASE CloneFails(j) \/ ImporterDies(j)
  <2>1. Undone(j) /\ Abandoned(j) /\ UNCHANGED <<repo, where, swept, lost>>
    BY <1>5 DEF CloneFails, ImporterDies
  <2>2. QED BY <2>1, <1>d, <1>n, LeftoversFill, RowsStay
<1>6. QED BY <1>1, <1>2, <1>3, <1>4, <1>5

\* A clone that ends well: nothing else was in the directory.
LEMMA RepoCloned ==
    ASSUME RepoInv, NEW j \in ImportJobs, CloneSucceeds(j)
    PROVE  /\ RepoInv' /\ UNCHANGED <<repo, lost>>
           /\ rjob' = [rjob EXCEPT ![j] = [pc |-> "done", row |-> rjob[j].row, tries |-> rjob[j].tries]]
<1> DEFINE i == rjob[j].row
<1>1. i \in RepoIds /\ repo[i] \notin {"NONE", "GONE"} /\ where[i] \in Dirs
  BY DEF CloneSucceeds, RepoInv, RowsHeld, RowsPlaced, Holding
<1>2. /\ disk[where[i]] = EmptyDir /\ disk' = [disk EXCEPT ![where[i]] = FilesOf(i)]
      /\ UNCHANGED <<repo, where, swept, lost>>
  BY DEF CloneSucceeds, Cloneable, GitLeaves
<1>3. rjob' = [rjob EXCEPT ![j] = [pc |-> "done", row |-> i, tries |-> rjob[j].tries]]
  BY JobChooses DEF CloneSucceeds, RepoInv
<1>4. /\ rjob' \in [ImportJobs -> ImportJob] /\ RowsHeld'
      /\ \A k \in ImportJobs : IF k = j THEN rjob'[k].pc = "done" /\ rjob'[k].row = i ELSE rjob'[k] = rjob[k]
  <2>1. RepoTyping /\ RowsHeld /\ i \in 0 .. MaxRepos /\ rjob[j].tries \in Nat
    BY <1>1, RepoImportAssumption DEF RepoInv, RepoTyping, ImportJob
  <2>2. repo' \in [RepoIds -> RowStates] /\ "done" \in ImportPcs
    BY <1>2, <2>1 DEF RepoTyping, ImportPcs
  <2>3. QED BY <1>1, <1>2, <1>3, <2>1, <2>2, JobMoves
<1> HIDE DEF i
<1>5. FilesOf(i) \in DirState
  BY <1>1, RepoImportAssumption DEF DirState, RepoIds, FilesOf
<1>6. /\ disk' \in [Dirs -> DirState] /\ disk'[where[i]] = FilesOf(i)
      /\ \A d \in Dirs : disk[d] # EmptyDir => disk'[d] = disk[d]
  BY <1>1, <1>2, <1>5 DEF RepoInv, RepoTyping
<1>7. ClonedHasFiles'
  <2> SUFFICES ASSUME NEW k \in RepoIds \ swept, repo[k] = "cloned"
               PROVE  disk'[where[k]] = FilesOf(k)
    BY <1>2 DEF ClonedHasFiles
  <2>1. disk[where[k]] = FilesOf(k) /\ where[k] \in Dirs
    BY DEF RepoInv, RowsPlaced, ClonedHasFiles
  <2>2. QED BY <2>1, <1>6, FilesThere
<1>8. DoneHasFiles'
  <2> SUFFICES ASSUME NEW k \in ImportJobs, rjob'[k].pc = "done", rjob'[k].row \notin swept
               PROVE  disk'[where[rjob'[k].row]] = FilesOf(rjob'[k].row)
    BY <1>2 DEF DoneHasFiles
  <2>1. CASE k = j
    BY <2>1, <1>4, <1>6
  <2>2. CASE k # j
    <3>1. /\ rjob'[k] = rjob[k] /\ disk[where[rjob[k].row]] = FilesOf(rjob[k].row)
          /\ where[rjob[k].row] \in Dirs
      BY <2>2, <1>4 DEF RepoInv, RowsPlaced, RowsHeld, DoneHasFiles, Holding
    <3>2. QED BY <3>1, <1>6, FilesThere
  <2>3. QED BY <2>1, <2>2
<1>9. RepoTyping' /\ RowsPlaced'
  BY <1>2, <1>4, <1>6 DEF RepoInv, RepoTyping, RowsPlaced
<1>10. QED BY <1>2, <1>3, <1>4, <1>7, <1>8, <1>9 DEF RepoInv, i

\* The row is committed.
LEMMA RepoCommitted ==
    ASSUME RepoInv, NEW j \in ImportJobs, CloneCommits(j)
    PROVE  RepoInv'
<1> DEFINE i == rjob[j].row
<1>1. i \in RepoIds /\ repo[i] \notin {"NONE", "GONE"} /\ where[i] \in Dirs
      /\ (i \notin swept => disk[where[i]] = FilesOf(i))
  BY DEF CloneCommits, RepoInv, RowsHeld, RowsPlaced, DoneHasFiles, Holding
<1>2. /\ repo' = [repo EXCEPT ![i] = "cloned"] /\ ImportOver(j) /\ UNCHANGED <<where, disk, swept>>
      /\ lost' \in Nat
  BY DEF CloneCommits, RepoInv, RepoTyping
<1>3. /\ repo' \in [RepoIds -> RowStates] /\ repo'[i] = "cloned"
      /\ \A k \in RepoIds : k # i => repo'[k] = repo[k]
  BY <1>1, <1>2 DEF RepoInv, RepoTyping, RowStates
<1>4. /\ rjob' \in [ImportJobs -> ImportJob] /\ RowsHeld'
      /\ \A k \in ImportJobs : IF k = j THEN rjob'[k].pc = "unused" ELSE rjob'[k] = rjob[k]
  <2>1. RepoTyping /\ RowsHeld /\ 0 \in 0 .. MaxRepos /\ "unused" \in ImportPcs \ Holding
    BY RepoImportAssumption DEF RepoInv, ImportPcs, Holding
  <2>2. rjob' = [rjob EXCEPT ![j] = [pc |-> "unused", row |-> 0, tries |-> 0]]
    BY <1>2, <2>1, JobStep
  <2>3. \A k \in RepoIds : /\ repo'[k] = "NONE" => repo[k] = "NONE"
                           /\ repo'[k] = "GONE" => repo[k] = "GONE"
    BY <1>3
  <2>4. QED BY <1>3, <2>1, <2>2, <2>3, JobMoves
<1> HIDE DEF i
<1>5. ClonedHasFiles'
  BY <1>1, <1>2, <1>3 DEF RepoInv, ClonedHasFiles
<1>6. DoneHasFiles'
  BY <1>2, <1>4 DEF RepoInv, DoneHasFiles
<1>7. RepoTyping' /\ RowsPlaced'
  BY <1>1, <1>2, <1>3, <1>4 DEF RepoInv, RepoTyping, RowsPlaced
<1>8. QED BY <1>4, <1>5, <1>6, <1>7 DEF RepoInv

\* A new container: what is not swept away lies under the mount.
LEMMA RepoReplaced ==
    ASSUME RepoInv, ContainerReplaced
    PROVE  /\ RepoInv' /\ UNCHANGED <<repo, lost>>
           /\ \A j \in ImportJobs : rjob'[j] = rjob[j] \/ (rjob[j].pc = "cloning" /\ rjob'[j].pc = "cut")
<1>1. /\ UNCHANGED <<repo, where, lost>> /\ disk' = [d \in Dirs |-> Remains(d)]
      /\ swept' = swept \cup {i \in RepoIds : where[i] \in Dirs \ mounted /\ disk[where[i]] = FilesOf(i)}
      /\ rjob' = [j \in ImportJobs |-> IF rjob[j].pc = "cloning" THEN [rjob[j] EXCEPT !.pc = "cut"] ELSE rjob[j]]
  BY DEF ContainerReplaced
<1>2. EmptyDir \in DirState /\ disk \in [Dirs -> DirState] /\ rjob \in [ImportJobs -> ImportJob]
  BY RepoImportAssumption DEF EmptyDir, DirState, RepoInv, RepoTyping
<1>3. disk' \in [Dirs -> DirState]
  BY <1>1, <1>2 DEF Remains
<1>4. \A i \in RepoIds \ swept' : where[i] \in Dirs /\ disk[where[i]] = FilesOf(i) => disk'[where[i]] = FilesOf(i)
  BY <1>1 DEF Remains
<1>5. \A j \in ImportJobs : \/ rjob'[j] = rjob[j] /\ rjob[j].pc # "cloning"
                            \/ /\ rjob[j].pc = "cloning" /\ rjob'[j].pc = "cut"
                               /\ rjob'[j].row = rjob[j].row /\ rjob'[j] \in ImportJob
  BY <1>1, <1>2 DEF ImportJob, ImportPcs
<1>6. rjob' \in [ImportJobs -> ImportJob]
  BY <1>1, <1>2, <1>5
<1>7. RowsHeld'
  BY <1>1, <1>5 DEF RepoInv, RowsHeld, Holding
<1>8. ClonedHasFiles'
  BY <1>1, <1>4 DEF RepoInv, RowsPlaced, ClonedHasFiles
<1>9. DoneHasFiles'
  <2> SUFFICES ASSUME NEW j \in ImportJobs, rjob'[j].pc = "done", rjob'[j].row \notin swept'
               PROVE  disk'[where[rjob'[j].row]] = FilesOf(rjob'[j].row)
    BY <1>1 DEF DoneHasFiles
  <2>1. rjob'[j] = rjob[j] /\ rjob[j].row \notin swept
    BY <1>1, <1>5
  <2>2. rjob[j].row \in RepoIds /\ where[rjob[j].row] \in Dirs /\ disk[where[rjob[j].row]] = FilesOf(rjob[j].row)
    BY <2>1 DEF RepoInv, RowsHeld, RowsPlaced, DoneHasFiles, Holding
  <2>3. QED BY <2>1, <2>2, <1>4
<1>10. RepoTyping' /\ RowsPlaced'
  BY <1>1, <1>3, <1>6 DEF RepoInv, RepoTyping, RowsPlaced
<1>11. QED BY <1>1, <1>5, <1>7, <1>8, <1>9, <1>10 DEF RepoInv

\* RepoInv is inductive.
LEMMA RepoInvStep == RepoInv /\ [RepoNext]_repoVars => RepoInv'
<1> SUFFICES ASSUME RepoInv, [RepoNext]_repoVars PROVE RepoInv'
  OBVIOUS
<1>1. CASE UNCHANGED repoVars
  BY <1>1 DEF repoVars, RepoInv, RepoTyping, RowsPlaced, RowsHeld, ClonedHasFiles, DoneHasFiles
<1>2. CASE RepoNext
  BY <1>2, RepoApi, RepoDelete, RepoWorker, RepoCloned, RepoCommitted, RepoReplaced DEF RepoNext
<1>3. QED BY <1>1, <1>2

\* RepoInv holds at first.
LEMMA RepoInvInit == RepoInit => RepoInv
<1> SUFFICES ASSUME RepoInit PROVE RepoInv
  OBVIOUS
<1>1. NoImport \in ImportJob /\ NoImport.pc = "unused" /\ EmptyDir \in DirState
  BY RepoImportAssumption DEF NoImport, ImportJob, ImportPcs, EmptyDir, DirState
<1>2. RepoTyping
  BY <1>1 DEF RepoInit, RepoTyping, RowStates
<1>3. RowsPlaced /\ RowsHeld /\ ClonedHasFiles /\ DoneHasFiles
  BY <1>1 DEF RepoInit, RowsPlaced, RowsHeld, ClonedHasFiles, DoneHasFiles, Holding
<1>4. QED BY <1>2, <1>3 DEF RepoInv

\* The rows, jobs and directories of an import keep their kinds, and the row a
\* worker is cloning exists, whatever is deleted meanwhile.
THEOREM RepoTypingAlways == RepoSpec => []RepoTypeOK
<1>1. RepoInv => RepoTypeOK
  <2>1. ASSUME RepoInv PROVE \A d \in Dirs : disk[d] \in [of : 0 .. MaxRepos, whole : BOOLEAN]
    BY <2>1 DEF RepoInv, RepoTyping, DirState
  <2>2. QED BY <2>1 DEF RepoInv, RepoTyping, RowsPlaced, RowsHeld, RepoTypeOK, RowStates, Live, Holding
<1>2. QED BY <1>1, RepoInvInit, RepoInvStep, PTL DEF RepoSpec

\* A row that says "cloned" stands for a directory that holds all of its own
\* repository, for any number of rows, directories and workers, unless the files lay
\* outside the project mount and went with the container: git's refusal of a directory
\* in use and the mount are enough, and neither deletes nor deaths can break it.
THEOREM ClonedHasFilesAlways == RepoSpec => []ClonedHasFiles
<1>1. RepoInv => ClonedHasFiles
  BY DEF RepoInv
<1>2. QED BY <1>1, RepoInvInit, RepoInvStep, PTL DEF RepoSpec

-----------------------------------------------------------------------------
(* Jobs enough for the rows *)

OpenImports == {j \in ImportJobs : rjob[j] # NoImport}

\* Both sides of the count are finite.
LEMMA ImportsFinite ==
    /\ IsFiniteSet(PendingRepos) /\ Cardinality(PendingRepos) \in Nat
    /\ IsFiniteSet(OpenImports) /\ Cardinality(OpenImports) \in Nat
<1>1. IsFiniteSet(RepoIds)
  BY RepoImportAssumption, FS_Interval DEF RepoIds
<1>2. PendingRepos \in SUBSET RepoIds /\ OpenImports \in SUBSET ImportJobs
  BY DEF PendingRepos, OpenImports
<1>3. IsFiniteSet(PendingRepos) /\ IsFiniteSet(OpenImports)
  BY <1>1, <1>2, FS_Subset, RepoImportAssumption
<1>4. QED BY <1>3, FS_CardinalityType

\* A step that takes no row to pending and ends no job keeps the count.
LEMMA CountKept ==
    ASSUME RepoInv, PendingHasJob, PendingRepos' \subseteq PendingRepos,
           OpenImports \subseteq OpenImports', lost' = lost
    PROVE  PendingHasJob'
<1>1. PendingRepos' \in SUBSET PendingRepos /\ OpenImports \in SUBSET OpenImports'
  OBVIOUS
<1>2. IsFiniteSet(OpenImports') /\ Cardinality(OpenImports') \in Nat
  <2>1. OpenImports' \in SUBSET ImportJobs
    BY DEF OpenImports
  <2>2. QED BY <2>1, RepoImportAssumption, FS_Subset, FS_CardinalityType
<1>3. Cardinality(PendingRepos') <= Cardinality(PendingRepos) /\ IsFiniteSet(PendingRepos')
  BY <1>1, ImportsFinite, FS_Subset
<1>4. Cardinality(OpenImports) <= Cardinality(OpenImports')
  BY <1>1, <1>2, FS_Subset
<1>5. Cardinality(PendingRepos') \in Nat /\ lost \in Nat
  BY <1>3, FS_CardinalityType DEF RepoInv, RepoTyping
<1>6. Cardinality(PendingRepos) <= Cardinality(OpenImports) + lost
  BY DEF PendingHasJob, OpenImports
<1>7. Cardinality(PendingRepos') <= Cardinality(OpenImports') + lost'
  BY <1>2, <1>3, <1>4, <1>5, <1>6, ImportsFinite
<1>8. QED BY <1>7 DEF PendingHasJob, OpenImports

\* PendingHasJob is kept by every step from a state with RepoInv.
LEMMA PendingStep == RepoInv /\ PendingHasJob /\ [RepoNext]_repoVars => PendingHasJob'
<1> SUFFICES ASSUME RepoInv, PendingHasJob, [RepoNext]_repoVars PROVE PendingHasJob'
  OBVIOUS
<1>t. RepoTyping
  BY DEF RepoInv
<1>c. Cardinality(PendingRepos) <= Cardinality(OpenImports) + lost /\ lost \in Nat
  BY <1>t DEF PendingHasJob, OpenImports, RepoTyping
<1>n. \A p \in (ImportPcs \ {"unused"}) : \A r, t : [pc |-> p, row |-> r, tries |-> t] # NoImport
  BY DEF NoImport, ImportPcs
<1>k. ASSUME NEW j \in ImportJobs, NEW p \in (ImportPcs \ {"unused"}), NEW r, NEW t,
             rjob' = [rjob EXCEPT ![j] = [pc |-> p, row |-> r, tries |-> t]]
      PROVE  OpenImports' = OpenImports \cup {j}
  <2>1. rjob'[j] # NoImport /\ \A k \in ImportJobs : k # j => rjob'[k] = rjob[k]
    BY <1>k, <1>n, <1>t DEF RepoTyping
  <2>2. QED BY <2>1 DEF OpenImports
<1>o. ASSUME NEW j \in ImportJobs, rjob[j] # NoImport, ImportOver(j)
      PROVE  /\ OpenImports' = OpenImports \ {j} /\ Cardinality(OpenImports') = Cardinality(OpenImports) - 1
             /\ Cardinality(OpenImports) \in Nat /\ Cardinality(OpenImports') \in Nat
  <2>1. OpenImports' = OpenImports \ {j} /\ j \in OpenImports
    BY <1>o, <1>t DEF OpenImports, ImportOver, RepoTyping
  <2>2. QED BY <2>1, ImportsFinite, CountDown
<1>b. \A j \in ImportJobs : rjob[j].pc # "unused" => rjob[j] # NoImport
  BY DEF NoImport
<1>1. CASE UNCHANGED repoVars
  BY <1>1 DEF repoVars, PendingHasJob, PendingRepos
<1>2. ASSUME NEW d \in Dirs, ImportChecks(d) PROVE PendingHasJob'
  BY <1>2 DEF ImportChecks, PendingHasJob, PendingRepos
<1>3. ASSUME NEW d \in Dirs, ImportCommits(d) PROVE PendingHasJob'
  <2>1. PICK i \in RepoIds, j \in ImportJobs :
               repo[i] = "NONE" /\ ImportQueued(j) /\ repo' = [repo EXCEPT ![i] = "pending"]
    BY <1>3 DEF ImportCommits
  <2>2. PendingRepos' = PendingRepos \cup {i} /\ i \notin PendingRepos
    BY <2>1, <1>t DEF PendingRepos, RepoTyping
  <2>3. OpenImports' = OpenImports \cup {j} /\ j \notin OpenImports
    <3>1. rjob' = [rjob EXCEPT ![j] = [pc |-> "queued", row |-> 0, tries |-> 0]]
      BY <2>1, <1>t, JobStep
    <3>2. OpenImports' = OpenImports \cup {j}
      BY <3>1, <1>k DEF ImportPcs
    <3>3. QED BY <2>1, <3>2 DEF ImportQueued, OpenImports
  <2>4. Cardinality(PendingRepos') = Cardinality(PendingRepos) + 1 /\ Cardinality(OpenImports') = Cardinality(OpenImports) + 1
    BY <2>2, <2>3, ImportsFinite, CountUp
  <2>5. lost' = lost
    BY <1>3 DEF ImportCommits
  <2>6. Cardinality(PendingRepos') <= Cardinality(OpenImports') + lost'
    BY <2>4, <2>5, <1>c, ImportsFinite
  <2>7. QED BY <2>6 DEF PendingHasJob, OpenImports
<1>4. ASSUME NEW i \in RepoIds, RepoDeleted(i) PROVE PendingHasJob'
  <2>1. PendingRepos' \subseteq PendingRepos
    BY <1>4, <1>t DEF RepoDeleted, PendingRepos, RepoTyping
  <2>2. OpenImports' = OpenImports /\ lost' = lost
    BY <1>4 DEF RepoDeleted, OpenImports
  <2>3. QED BY <2>1, <2>2, CountKept
<1>f. ASSUME NEW j \in ImportJobs, repo' = repo, lost' = lost,
             NEW p \in (ImportPcs \ {"unused"}), NEW r, NEW t,
             rjob' = [rjob EXCEPT ![j] = [pc |-> p, row |-> r, tries |-> t]]
      PROVE  PendingHasJob'
  <2>1. OpenImports' = OpenImports \cup {j}
    BY <1>f, <1>k
  <2>2. PendingRepos' = PendingRepos
    BY <1>f DEF PendingRepos
  <2>3. QED BY <2>1, <2>2, <1>f, CountKept
<1>u. ASSUME NEW j \in ImportJobs, repo' = repo, lost' = lost, Undone(j) PROVE PendingHasJob'
  <2>1. rjob' = [rjob EXCEPT ![j] = [pc |-> "queued", row |-> 0, tries |-> rjob[j].tries]]
    BY <1>u, <1>t, JobStep
  <2>2. QED BY <2>1, <1>u, <1>f DEF ImportPcs
<1>5. ASSUME NEW j \in ImportJobs, ImportClaimed(j) PROVE PendingHasJob'
  <2>1. rjob' = [rjob EXCEPT ![j] = [pc |-> "claimed", row |-> rjob[j].row, tries |-> rjob[j].tries]]
    BY <1>5, <1>t, JobStep
  <2>2. repo' = repo /\ lost' = lost
    BY <1>5 DEF ImportClaimed
  <2>3. QED BY <2>1, <2>2, <1>f DEF ImportPcs
<1>6. ASSUME NEW j \in ImportJobs, ImportNotPlaced(j) PROVE PendingHasJob'
  <2>1. repo' = repo /\ rjob[j].pc = "claimed"
    BY <1>6 DEF ImportNotPlaced
  <2>2. CASE rjob[j].tries + 1 < MaxImportTries
    <3>1. /\ rjob' = [rjob EXCEPT ![j] = [pc |-> "queued", row |-> rjob[j].row, tries |-> rjob[j].tries + 1]]
          /\ lost' = lost
      BY <1>6, <2>2, <1>t, JobChooses DEF ImportNotPlaced
    <3>2. QED BY <2>1, <3>1, <1>f DEF ImportPcs
  <2>3. CASE ~(rjob[j].tries + 1 < MaxImportTries)
    <3>1. ImportOver(j) /\ lost' = lost + 1 /\ PendingRepos' = PendingRepos
      BY <1>6, <2>1, <2>3 DEF ImportNotPlaced, PendingRepos
    <3>2. Cardinality(OpenImports') = Cardinality(OpenImports) - 1 /\ Cardinality(OpenImports') \in Nat
      BY <2>1, <3>1, <1>b, <1>o
    <3>3. Cardinality(PendingRepos') <= Cardinality(OpenImports') + lost'
      BY <3>1, <3>2, <1>c, ImportsFinite
    <3>4. QED BY <3>3 DEF PendingHasJob, OpenImports
  <2>4. QED BY <2>2, <2>3
<1>7. ASSUME NEW j \in ImportJobs, ImportSelects(j) PROVE PendingHasJob'
  <2>1. repo' = repo /\ lost' = lost
    BY <1>7 DEF ImportSelects
  <2>2. CASE PendingRepos = {}
    BY <1>7, <2>1, <2>2, <1>u DEF ImportSelects
  <2>3. CASE PendingRepos # {}
    <3>1. rjob' = [rjob EXCEPT ![j] = [pc |-> "selected", row |-> Selected, tries |-> rjob[j].tries]]
      BY <1>7, <2>3, <1>t, JobChooses DEF ImportSelects
    <3>2. QED BY <2>1, <3>1, <1>f DEF ImportPcs
  <2>4. QED BY <2>2, <2>3
<1>8. ASSUME NEW j \in ImportJobs, ImportLocks(j) PROVE PendingHasJob'
  <2>1. repo' = repo /\ lost' = lost
    BY <1>8 DEF ImportLocks
  <2>2. CASE repo[rjob[j].row] = "GONE"
    BY <1>8, <2>1, <2>2, <1>u DEF ImportLocks
  <2>3. CASE repo[rjob[j].row] # "GONE"
    <3>1. rjob' = [rjob EXCEPT ![j] = [pc |-> "cloning", row |-> rjob[j].row, tries |-> rjob[j].tries]]
      BY <1>8, <2>3, <1>t, JobChooses DEF ImportLocks
    <3>2. QED BY <2>1, <3>1, <1>f DEF ImportPcs
  <2>4. QED BY <2>2, <2>3
<1>9. ASSUME NEW j \in ImportJobs, CloneCommits(j) PROVE PendingHasJob'
  <2> DEFINE i == rjob[j].row
  <2>1. /\ rjob[j].pc = "done" /\ ImportOver(j) /\ lost' = IF repo[i] = "pending" THEN lost ELSE lost + 1
        /\ repo' = [repo EXCEPT ![i] = "cloned"]
    BY <1>9 DEF CloneCommits
  <2>2. i \in RepoIds
    BY <2>1 DEF RepoInv, RowsHeld, Holding
  <2>3. PendingRepos' = PendingRepos \ {i}
    BY <2>1, <2>2, <1>t DEF PendingRepos, RepoTyping
  <2>4. Cardinality(OpenImports') = Cardinality(OpenImports) - 1 /\ Cardinality(OpenImports') \in Nat
    BY <2>1, <1>b, <1>o
  <2>5. CASE repo[i] = "pending"
    <3>1. i \in PendingRepos
      BY <2>2, <2>5 DEF PendingRepos
    <3>2. Cardinality(PendingRepos') = Cardinality(PendingRepos) - 1
      BY <2>3, <3>1, ImportsFinite, CountDown
    <3>3. Cardinality(PendingRepos') <= Cardinality(OpenImports') + lost'
      BY <2>1, <2>4, <2>5, <3>2, <1>c, ImportsFinite
    <3>4. QED BY <3>3 DEF PendingHasJob, OpenImports
  <2>6. CASE repo[i] # "pending"
    <3>1. PendingRepos' = PendingRepos
      BY <2>3, <2>6 DEF PendingRepos
    <3>2. Cardinality(PendingRepos') <= Cardinality(OpenImports') + lost'
      BY <2>1, <2>4, <2>6, <3>1, <1>c, ImportsFinite
    <3>3. QED BY <3>2 DEF PendingHasJob, OpenImports
  <2>7. QED BY <2>5, <2>6
<1>e. ASSUME NEW j \in ImportJobs, CloneSucceeds(j) PROVE PendingHasJob'
  <2>1. "done" \in ImportPcs \ {"unused"}
    BY DEF ImportPcs
  <2>2. QED BY <2>1, <1>e, <1>f, RepoCloned
<1>g. CASE ContainerReplaced
  <2>1. PendingRepos' = PendingRepos /\ lost' = lost
    BY <1>g, RepoReplaced DEF PendingRepos
  <2>2. OpenImports \subseteq OpenImports'
    BY <1>g, RepoReplaced DEF OpenImports, NoImport
  <2>3. QED BY <2>1, <2>2, CountKept
<1>10. ASSUME NEW j \in ImportJobs, CloneFails(j) PROVE PendingHasJob'
  BY <1>10, <1>u DEF CloneFails
<1>11. ASSUME NEW j \in ImportJobs, ImporterDies(j) PROVE PendingHasJob'
  BY <1>11, <1>u DEF ImporterDies
<1>12. QED
  BY <1>1, <1>2, <1>3, <1>4, <1>5, <1>6, <1>7, <1>8, <1>9, <1>e, <1>g, <1>10, <1>11 DEF RepoNext

\* There are never more pending rows than jobs still to come and jobs given up for
\* want of a placement or spent on a row that was cloned before, although a job takes
\* the newest row and not its own.
THEOREM PendingHasJobAlways == RepoSpec => []PendingHasJob
<1>1. RepoInit => PendingHasJob
  <2> SUFFICES ASSUME RepoInit PROVE PendingHasJob
    OBVIOUS
  <2>1. PendingRepos = {} /\ lost = 0
    BY DEF RepoInit, PendingRepos
  <2>2. Cardinality(PendingRepos) <= Cardinality(OpenImports) + lost
    BY <2>1, FS_EmptySet, ImportsFinite
  <2>3. QED BY <2>2 DEF PendingHasJob, OpenImports
<1>2. QED BY <1>1, RepoInvInit, RepoInvStep, PendingStep, PTL DEF RepoSpec

-----------------------------------------------------------------------------
(* Snapshots *)

SnapStates == {"NONE", "CREATING", "AVAILABLE", "FAILED", "RESTORING"}
BlobStates == {"none", "partial", "full"}
JobKinds == {"none", "create", "restore"}
JobPcs == {"unused", "queued", "claimed", "export", "extracted", "moved", "promoted"}
JobDests == {"none", "project", "bundle"}
SnapIds == Snaps \cup {"none"}
SnapJob == [kind : JobKinds, s : SnapIds, pc : JobPcs, tries : Nat, dest : JobDests]
CallSet == {"create", "restore", "delete"} \X Snaps

SnapTyping ==
    /\ s3 \in BOOLEAN
    /\ snap \in [Snaps -> SnapStates]
    /\ blob \in [Snaps -> BlobStates]
    /\ sjob \in [SnapJobs -> SnapJob]
    /\ calls \subseteq CallSet
    /\ faults \in 0 .. MaxFaults

\* What the status of a row tells of the job that works for it.  A row being
\* created has not been offered; a restore works for a row that has.
JobRow(v) ==
    /\ v.pc = "unused" => v = NoJob
    /\ v.pc # "unused" =>
         /\ v.s \in Snaps /\ v.kind \in {"create", "restore"}
         /\ v.kind = "create" => snap[v.s] = "CREATING"
         /\ v.kind = "restore" => snap[v.s] \in {"AVAILABLE", "RESTORING"}
    /\ v.pc = "export" => v.kind = "create"
    /\ v.pc \in {"extracted", "moved", "promoted"} => v.kind = "restore"

JobRows == \A j \in SnapJobs : JobRow(sjob[j])

\* A snapshot is created by one job.
OneCreate ==
    \A j, k \in SnapJobs :
        /\ sjob[j].pc # "unused" /\ sjob[j].kind = "create"
        /\ sjob[k].pc # "unused" /\ sjob[k].kind = "create"
        /\ sjob[j].s = sjob[k].s
        => j = k

\* A restore call that has passed its checks is for a row that stays on offer.
CallRows == \A s \in Snaps : <<"restore", s>> \in calls => snap[s] \in {"AVAILABLE", "RESTORING"}

SnapInv == SnapTyping /\ JobRows /\ OneCreate /\ CallRows /\ AvailableHasArchive

\* Job j goes to step p and keeps what it is for; the other jobs stay.
Moves(j, p) ==
    /\ sjob' \in [SnapJobs -> SnapJob]
    /\ sjob'[j].pc = p /\ sjob'[j].kind = sjob[j].kind /\ sjob'[j].s = sjob[j].s
    /\ \A k \in SnapJobs : k # j => sjob'[k] = sjob[k]

\* The ways in which a job's record is updated.
LEMMA JobUpdates ==
    ASSUME SnapTyping, NEW j \in SnapJobs, NEW p \in JobPcs, NEW d \in JobDests
    PROVE  /\ sjob' = [sjob EXCEPT ![j].pc = p] => Moves(j, p) /\ sjob'[j].dest = sjob[j].dest
           /\ sjob' = [sjob EXCEPT ![j].pc = p, ![j].tries = @ + 1]
              => Moves(j, p) /\ sjob'[j].dest = sjob[j].dest
           /\ sjob' = [sjob EXCEPT ![j].pc = p, ![j].dest = d] => Moves(j, p) /\ sjob'[j].dest = d
<1>1. sjob \in [SnapJobs -> SnapJob] /\ sjob[j] \in SnapJob
  BY DEF SnapTyping
<1> DEFINE u == [sjob[j] EXCEPT !.pc = p]
           t == sjob[j].tries + 1
           v == [sjob[j] EXCEPT !.pc = p, !.tries = t]
           x == [sjob[j] EXCEPT !.pc = p, !.dest = d]
<1>2. u \in SnapJob /\ u.pc = p /\ u.kind = sjob[j].kind /\ u.s = sjob[j].s /\ u.dest = sjob[j].dest
  BY <1>1 DEF SnapJob
<1>t. t \in Nat
  BY <1>1 DEF SnapJob
<1>5. /\ sjob' = [sjob EXCEPT ![j].pc = p] => sjob' = [sjob EXCEPT ![j] = u]
      /\ sjob' = [sjob EXCEPT ![j].pc = p, ![j].tries = @ + 1] => sjob' = [sjob EXCEPT ![j] = v]
      /\ sjob' = [sjob EXCEPT ![j].pc = p, ![j].dest = d] => sjob' = [sjob EXCEPT ![j] = x]
  BY <1>1
<1> HIDE DEF t
<1>3. v \in SnapJob /\ v.pc = p /\ v.kind = sjob[j].kind /\ v.s = sjob[j].s /\ v.dest = sjob[j].dest
  BY <1>1, <1>t DEF SnapJob
<1>4. x \in SnapJob /\ x.pc = p /\ x.kind = sjob[j].kind /\ x.s = sjob[j].s /\ x.dest = d
  BY <1>1 DEF SnapJob
<1> HIDE DEF u, v, x
<1>6. QED BY <1>1, <1>2, <1>3, <1>4, <1>5 DEF Moves

\* A job that is over.
LEMMA JobEnds ==
    ASSUME SnapTyping, NEW j \in SnapJobs, JobOver(j)
    PROVE  /\ sjob' \in [SnapJobs -> SnapJob] /\ sjob'[j] = NoJob /\ sjob'[j].pc = "unused"
           /\ \A k \in SnapJobs : k # j => sjob'[k] = sjob[k]
<1>1. NoJob \in SnapJob /\ NoJob.pc = "unused"
  BY DEF NoJob, SnapJob, JobKinds, SnapIds, JobPcs, JobDests
<1>2. QED BY <1>1 DEF JobOver, SnapTyping

\* A job that goes on for the same row, which keeps its status.
LEMMA RowsMove ==
    ASSUME SnapInv, NEW j \in SnapJobs, NEW p \in JobPcs \ {"unused"}, Moves(j, p), snap' = snap,
           sjob[j].pc # "unused",
           p = "export" => sjob[j].kind = "create",
           p \in {"extracted", "moved", "promoted"} => sjob[j].kind = "restore"
    PROVE  JobRows' /\ OneCreate'
<1>1. \A k \in SnapJobs : JobRow(sjob[k])
  BY DEF SnapInv, JobRows
<1>2. JobRows'
  <2> SUFFICES ASSUME NEW k \in SnapJobs PROVE JobRow(sjob[k])'
    BY DEF JobRows
  <2>1. CASE k = j
    BY <2>1, <1>1 DEF Moves, JobRow
  <2>2. CASE k # j
    <3>1. sjob'[k] = sjob[k] /\ JobRow(sjob[k])
      BY <2>2, <1>1 DEF Moves
    <3>2. QED BY <3>1 DEF JobRow
  <2>3. QED BY <2>1, <2>2
<1>3. \A k \in SnapJobs : /\ sjob'[k].kind = sjob[k].kind /\ sjob'[k].s = sjob[k].s
                          /\ sjob'[k].pc # "unused" => sjob[k].pc # "unused"
  BY DEF Moves
<1>4. OneCreate'
  BY <1>3 DEF SnapInv, OneCreate
<1>5. QED BY <1>2, <1>4

\* The end of a job.  A row that was being created may get any status, since no
\* other job and no restore call is about it; a row on offer stays on offer.
LEMMA RowsEnd ==
    ASSUME SnapInv, NEW j \in SnapJobs, sjob[j].pc # "unused", JobOver(j), NEW x \in SnapStates \ {"NONE"},
           \/ snap' = snap
           \/ snap' = [snap EXCEPT ![sjob[j].s] = x],
           sjob[j].kind = "restore" => x \in {"AVAILABLE", "RESTORING"},
           calls' = calls
    PROVE  /\ sjob' \in [SnapJobs -> SnapJob] /\ snap' \in [Snaps -> SnapStates]
           /\ JobRows' /\ OneCreate' /\ CallRows'
<1> DEFINE s == sjob[j].s
<1>1. sjob' \in [SnapJobs -> SnapJob] /\ sjob'[j] = NoJob /\ sjob'[j].pc = "unused"
      /\ \A k \in SnapJobs : k # j => sjob'[k] = sjob[k]
  BY JobEnds DEF SnapInv
<1>2. s \in Snaps /\ sjob[j].kind \in {"create", "restore"}
  BY DEF SnapInv, JobRows, JobRow
<1>3. snap \in [Snaps -> SnapStates] /\ snap' \in [Snaps -> SnapStates]
  BY <1>2 DEF SnapInv, SnapTyping
<1>4. \A r \in Snaps : r # s => snap'[r] = snap[r]
  BY <1>2, <1>3
<1>5. snap'[s] \in {snap[s], x}
  BY <1>2, <1>3
<1>6. sjob[j].kind = "create" => snap[s] = "CREATING"
  BY DEF SnapInv, JobRows, JobRow
<1>7. snap[s] \in {"AVAILABLE", "RESTORING"} => snap'[s] \in {"AVAILABLE", "RESTORING"}
  BY <1>2, <1>5, <1>6
<1> HIDE DEF s
<1>8. JobRows'
  <2> SUFFICES ASSUME NEW k \in SnapJobs PROVE JobRow(sjob[k])'
    BY DEF JobRows
  <2>1. CASE k = j
    BY <2>1, <1>1 DEF JobRow
  <2>2. CASE k # j
    <3>1. sjob'[k] = sjob[k] /\ JobRow(sjob[k]) /\ JobRow(sjob[j])
      BY <2>2, <1>1 DEF SnapInv, JobRows
    <3>2. ~(sjob[k].pc # "unused" /\ sjob[k].kind = "create" /\ sjob[k].s = s)
      <4> SUFFICES ASSUME sjob[k].pc # "unused", sjob[k].kind = "create", sjob[k].s = s PROVE FALSE
        OBVIOUS
      <4>1. snap[s] = "CREATING"
        BY <3>1 DEF JobRow
      <4>2. sjob[j].kind = "create"
        BY <4>1, <3>1 DEF JobRow, s
      <4>3. QED BY <4>2, <2>2 DEF SnapInv, OneCreate, s
    <3>3. QED BY <3>1, <3>2, <1>4, <1>7 DEF JobRow
  <2>3. QED BY <2>1, <2>2
<1>9. OneCreate'
  <2>1. \A k \in SnapJobs : sjob'[k].pc # "unused" => sjob'[k] = sjob[k]
    BY <1>1
  <2>2. QED BY <2>1 DEF SnapInv, OneCreate
<1>10. CallRows'
  BY <1>4, <1>7 DEF SnapInv, CallRows
<1>11. QED BY <1>1, <1>3, <1>8, <1>9, <1>10

\* A new job for a row.
LEMMA JobComes ==
    ASSUME SnapTyping, NEW kind \in {"create", "restore"}, NEW s \in Snaps, JobQueued(kind, s)
    PROVE  \E j \in SnapJobs :
               /\ sjob[j] = NoJob /\ sjob' \in [SnapJobs -> SnapJob]
               /\ sjob'[j].kind = kind /\ sjob'[j].s = s /\ sjob'[j].pc = "queued"
               /\ \A k \in SnapJobs : k # j => sjob'[k] = sjob[k]
<1> DEFINE v == [NoJob EXCEPT !.kind = kind, !.s = s, !.pc = "queued"]
<1>1. v \in SnapJob /\ v.kind = kind /\ v.s = s /\ v.pc = "queued"
  BY DEF NoJob, SnapJob, JobKinds, SnapIds, JobPcs, JobDests
<1>2. PICK j \in SnapJobs : sjob[j] = NoJob /\ sjob' = [sjob EXCEPT ![j] = v]
  BY DEF JobQueued
<1> HIDE DEF v
<1>3. QED BY <1>1, <1>2 DEF SnapTyping

\* The API calls.
LEMMA SnapApi == SnapInv /\ ApiNext => SnapInv'
<1> SUFFICES ASSUME SnapInv, NEW s \in Snaps,
                    \/ CreateChecks(s) \/ RestoreChecks(s) \/ DeleteChecks(s)
                    \/ CreateCommits(s) \/ RestoreCommits(s)
                    \/ \E removed \in BOOLEAN : DeleteCommits(s, removed)
             PROVE  SnapInv'
  BY DEF ApiNext
<1>t. SnapTyping /\ JobRows /\ OneCreate /\ CallRows /\ AvailableHasArchive
  BY DEF SnapInv
<1>n. NoJob.pc = "unused"
  BY DEF NoJob
<1>s. ASSUME NEW kind \in {"create", "restore", "delete"}, CallStarts(kind, s),
             kind = "restore" => snap[s] = "AVAILABLE"
      PROVE  SnapInv'
  <2>1. /\ UNCHANGED <<s3, wst, snap, blob, sjob, tree, unlinked, faults, overlap>>
        /\ calls' = calls \cup {<<kind, s>>}
    BY <1>s DEF CallStarts
  <2>2. CallRows'
    BY <1>s, <1>t, <2>1 DEF CallRows
  <2>3. calls' \subseteq CallSet
    BY <1>t, <2>1 DEF SnapTyping, CallSet
  <2>4. QED BY <1>t, <2>1, <2>2, <2>3 DEF SnapInv, SnapTyping, JobRows, JobRow, OneCreate, AvailableHasArchive
<1>1. CASE CreateChecks(s)
  BY <1>1, <1>s DEF CreateChecks
<1>2. CASE RestoreChecks(s)
  BY <1>2, <1>s DEF RestoreChecks, RestoreAllowed
<1>3. CASE DeleteChecks(s)
  BY <1>3, <1>s DEF DeleteChecks
<1>4. CASE CreateCommits(s)
  <2>1. /\ UNCHANGED <<s3, blob, unlinked, faults>> /\ calls' = calls \ {<<"create", s>>}
        /\ snap[s] = "NONE" /\ snap' = [snap EXCEPT ![s] = "CREATING"] /\ JobQueued("create", s)
    BY <1>4 DEF CreateCommits
  <2>2. PICK j \in SnapJobs :
               /\ sjob[j] = NoJob /\ sjob' \in [SnapJobs -> SnapJob]
               /\ sjob'[j].kind = "create" /\ sjob'[j].s = s /\ sjob'[j].pc = "queued"
               /\ \A k \in SnapJobs : k # j => sjob'[k] = sjob[k]
    BY <1>t, <2>1, JobComes
  <2>3. /\ snap' \in [Snaps -> SnapStates] /\ snap'[s] = "CREATING"
        /\ \A r \in Snaps : r # s => snap'[r] = snap[r]
    BY <1>t, <2>1 DEF SnapTyping, SnapStates
  <2>4. \A k \in SnapJobs : sjob[k].pc # "unused" => sjob[k].s # s
    BY <1>t, <2>1 DEF JobRows, JobRow
  <2>5. JobRows'
    <3> SUFFICES ASSUME NEW k \in SnapJobs PROVE JobRow(sjob[k])'
      BY DEF JobRows
    <3>1. CASE k = j
      BY <3>1, <2>2, <2>3 DEF JobRow
    <3>2. CASE k # j
      <4>1. sjob'[k] = sjob[k] /\ JobRow(sjob[k])
        BY <3>2, <2>2, <1>t DEF JobRows
      <4>2. QED BY <4>1, <2>3, <2>4 DEF JobRow
    <3>3. QED BY <3>1, <3>2
  <2>6. OneCreate'
    BY <1>t, <2>2, <2>4 DEF OneCreate
  <2>7. CallRows'
    BY <1>t, <2>1, <2>3 DEF CallRows
  <2>8. AvailableHasArchive'
    BY <1>t, <2>1, <2>3 DEF AvailableHasArchive
  <2>9. SnapTyping'
    BY <1>t, <2>1, <2>2, <2>3 DEF SnapTyping
  <2>10. QED BY <2>5, <2>6, <2>7, <2>8, <2>9 DEF SnapInv
<1>5. CASE RestoreCommits(s)
  <2>1. /\ UNCHANGED <<s3, blob, unlinked, faults>> /\ calls' = calls \ {<<"restore", s>>}
        /\ snap[s] \in {"AVAILABLE", "RESTORING"}
        /\ snap' = [snap EXCEPT ![s] = "RESTORING"] /\ JobQueued("restore", s)
    BY <1>5, <1>t DEF RestoreCommits, CallRows
  <2>2. PICK j \in SnapJobs :
               /\ sjob[j] = NoJob /\ sjob' \in [SnapJobs -> SnapJob]
               /\ sjob'[j].kind = "restore" /\ sjob'[j].s = s /\ sjob'[j].pc = "queued"
               /\ \A k \in SnapJobs : k # j => sjob'[k] = sjob[k]
    BY <1>t, <2>1, JobComes
  <2>3. /\ snap' \in [Snaps -> SnapStates] /\ snap'[s] = "RESTORING"
        /\ \A r \in Snaps : r # s => snap'[r] = snap[r]
    BY <1>t, <2>1 DEF SnapTyping, SnapStates
  <2>5. JobRows'
    <3> SUFFICES ASSUME NEW k \in SnapJobs PROVE JobRow(sjob[k])'
      BY DEF JobRows
    <3>1. CASE k = j
      BY <3>1, <2>2, <2>3 DEF JobRow
    <3>2. CASE k # j
      <4>1. sjob'[k] = sjob[k] /\ JobRow(sjob[k])
        BY <3>2, <2>2, <1>t DEF JobRows
      <4>2. QED BY <4>1, <2>1, <2>3 DEF JobRow
    <3>3. QED BY <3>1, <3>2
  <2>6. OneCreate'
    BY <1>t, <2>2 DEF OneCreate
  <2>7. CallRows'
    BY <1>t, <2>1, <2>3 DEF CallRows
  <2>8. AvailableHasArchive'
    BY <1>t, <2>1, <2>3 DEF AvailableHasArchive
  <2>9. SnapTyping'
    BY <1>t, <2>1, <2>2, <2>3 DEF SnapTyping
  <2>10. QED BY <2>5, <2>6, <2>7, <2>8, <2>9 DEF SnapInv
<1>6. ASSUME NEW removed \in BOOLEAN, DeleteCommits(s, removed) PROVE SnapInv'
  <2>1. snap' = snap
    BY <1>6, <1>t DEF DeleteCommits, Referenced, SnapTyping
  <2>2. UNCHANGED <<s3, sjob, faults>> /\ calls' \subseteq calls
    BY <1>6 DEF DeleteCommits
  <2>3. /\ blob' \in [Snaps -> BlobStates]
        /\ \A r \in Snaps : r \notin unlinked' => blob'[r] = blob[r] /\ r \notin unlinked
    BY <1>6, <1>t DEF DeleteCommits, ArchiveRemoved, SnapTyping, BlobStates
  <2>4. AvailableHasArchive'
    BY <1>t, <2>1, <2>3 DEF AvailableHasArchive
  <2>5. SnapTyping' /\ CallRows'
    BY <1>t, <2>1, <2>2, <2>3 DEF SnapTyping, CallRows
  <2>6. JobRows' /\ OneCreate'
    BY <1>t, <2>1, <2>2 DEF JobRows, JobRow, OneCreate
  <2>7. QED BY <2>4, <2>5, <2>6 DEF SnapInv
<1>7. QED BY <1>1, <1>2, <1>3, <1>4, <1>5, <1>6

\* A step of a job that goes on: the rest of the invariant follows from what it does
\* to the archives.
LEMMA SnapGoesOn ==
    ASSUME SnapInv, NEW j \in SnapJobs, NEW p \in JobPcs \ {"unused"}, Moves(j, p), sjob[j].pc # "unused",
           p = "export" => sjob[j].kind = "create",
           p \in {"extracted", "moved", "promoted"} => sjob[j].kind = "restore",
           UNCHANGED <<s3, snap, calls, unlinked>>, faults' \in 0 .. MaxFaults,
           blob' \in [Snaps -> BlobStates],
           \A s \in Snaps : snap[s] \in {"AVAILABLE", "RESTORING"} => blob'[s] = blob[s]
    PROVE  SnapInv'
<1>1. JobRows' /\ OneCreate'
  BY RowsMove
<1>2. SnapTyping' /\ CallRows'
  BY DEF SnapInv, SnapTyping, CallRows, Moves
<1>3. AvailableHasArchive'
  BY DEF SnapInv, AvailableHasArchive
<1>4. QED BY <1>1, <1>2, <1>3 DEF SnapInv

\* A job that ends: its row is put on offer only with a full archive.
LEMMA SnapEnds ==
    ASSUME SnapInv, NEW j \in SnapJobs, sjob[j].pc # "unused", JobOver(j), NEW x \in SnapStates \ {"NONE"},
           \/ snap' = snap
           \/ snap' = [snap EXCEPT ![sjob[j].s] = x],
           sjob[j].kind = "restore" => x \in {"AVAILABLE", "RESTORING"},
           UNCHANGED <<s3, calls, unlinked>>, faults' \in 0 .. MaxFaults,
           blob' \in [Snaps -> BlobStates],
           \A s \in Snaps : s # sjob[j].s \/ sjob[j].kind = "restore" => blob'[s] = blob[s],
           sjob[j].kind = "create" /\ snap' # snap /\ x \in {"AVAILABLE", "RESTORING"} => blob'[sjob[j].s] = "full"
    PROVE  SnapInv'
<1>1. /\ sjob' \in [SnapJobs -> SnapJob] /\ snap' \in [Snaps -> SnapStates]
      /\ JobRows' /\ OneCreate' /\ CallRows'
  BY RowsEnd
<1>2. SnapTyping'
  BY <1>1 DEF SnapInv, SnapTyping
<1>3. JobRow(sjob[j]) /\ sjob[j].s \in Snaps /\ snap \in [Snaps -> SnapStates]
  BY DEF SnapInv, JobRows, JobRow, SnapTyping
<1>4. AvailableHasArchive'
  <2> SUFFICES ASSUME NEW s \in Snaps, snap'[s] \in {"AVAILABLE", "RESTORING"}, s \notin unlinked
               PROVE  blob'[s] = "full"
    BY DEF AvailableHasArchive
  <2>1. CASE s # sjob[j].s
    <3>1. snap'[s] = snap[s] /\ blob'[s] = blob[s]
      BY <2>1, <1>3
    <3>2. QED BY <3>1 DEF SnapInv, AvailableHasArchive
  <2>2. CASE s = sjob[j].s /\ sjob[j].kind = "restore"
    <3>1. snap[s] \in {"AVAILABLE", "RESTORING"} /\ blob'[s] = blob[s]
      BY <2>2, <1>3 DEF JobRow
    <3>2. QED BY <3>1 DEF SnapInv, AvailableHasArchive
  <2>3. CASE s = sjob[j].s /\ sjob[j].kind # "restore"
    <3>1. sjob[j].kind = "create" /\ snap[s] = "CREATING"
      BY <2>3, <1>3 DEF JobRow
    <3>2. snap' # snap /\ x \in {"AVAILABLE", "RESTORING"}
      BY <3>1, <2>3, <1>3
    <3>3. QED BY <3>1, <3>2, <2>3
  <2>4. QED BY <2>1, <2>2, <2>3
<1>5. QED BY <1>1, <1>2, <1>4 DEF SnapInv

\* The worker's steps.
LEMMA SnapWorker ==
    ASSUME SnapInv, NEW j \in SnapJobs, SnapWorkerNext(j)
    PROVE  SnapInv'
<1>t. SnapTyping /\ JobRows /\ JobRow(sjob[j]) /\ blob \in [Snaps -> BlobStates]
  BY DEF SnapInv, JobRows, SnapTyping
<1>f. faults \in 0 .. MaxFaults /\ (faults < MaxFaults => faults + 1 \in 0 .. MaxFaults)
  BY <1>t, SnapshotsAssumption DEF SnapTyping
<1>p. \A p \in {"queued", "claimed", "export", "extracted", "moved", "promoted"} : p \in JobPcs /\ p \in JobPcs \ {"unused"}
  BY DEF JobPcs
<1>x. "AVAILABLE" \in SnapStates \ {"NONE"} /\ "FAILED" \in SnapStates \ {"NONE"}
  BY DEF SnapStates
<1>q. ASSUME Retried(j) PROVE Moves(j, "queued")
  <2>1. "none" \in JobDests
    BY DEF JobDests
  <2>2. QED BY <1>q, <2>1, <1>t, <1>p, JobUpdates DEF Retried
<1>m. ASSUME NEW p \in {"queued", "claimed", "export", "extracted", "moved", "promoted"},
             sjob' = [sjob EXCEPT ![j].pc = p]
      PROVE  Moves(j, p)
  <2>1. "none" \in JobDests
    BY DEF JobDests
  <2>2. QED BY <1>m, <2>1, <1>t, <1>p, JobUpdates
<1>1. CASE SnapClaim(j)
  <2>1. Moves(j, "claimed") /\ sjob[j].pc = "queued"
    BY <1>1, <1>m DEF SnapClaim
  <2>2. UNCHANGED <<s3, snap, blob, calls, unlinked, faults>>
    BY <1>1 DEF SnapClaim
  <2>3. QED BY <2>1, <2>2, <1>t, <1>f, <1>p, SnapGoesOn
<1>2. CASE SnapNotPlaced(j)
  <2>1. UNCHANGED <<s3, snap, blob, calls, unlinked, faults>> /\ sjob[j].pc = "claimed"
    BY <1>2 DEF SnapNotPlaced
  <2>2. CASE MayRetry(j)
    <3>1. Moves(j, "queued")
      BY <1>2, <2>2, <1>q DEF SnapNotPlaced
    <3>2. QED BY <2>1, <3>1, <1>t, <1>f, <1>p, SnapGoesOn
  <2>3. CASE ~MayRetry(j)
    <3>1. JobOver(j)
      BY <1>2, <2>3 DEF SnapNotPlaced
    <3>2. QED BY <2>1, <3>1, <1>t, <1>f, <1>x, SnapEnds
  <2>4. QED BY <2>2, <2>3
<1>3. CASE ExportStarts(j)
  <2>1. Moves(j, "export") /\ sjob[j].pc = "claimed" /\ sjob[j].kind = "create"
    BY <1>3, <1>m DEF ExportStarts
  <2>2. UNCHANGED <<s3, snap, calls, unlinked, faults>>
    BY <1>3 DEF ExportStarts
  <2>3. snap[sjob[j].s] = "CREATING" /\ sjob[j].s \in Snaps
    BY <2>1, <1>t DEF JobRow
  <2>4. blob' \in [Snaps -> BlobStates] /\ \A s \in Snaps : s # sjob[j].s => blob'[s] = blob[s]
    BY <1>3, <1>t DEF ExportStarts, ExportOpens, BlobStates
  <2>5. \A s \in Snaps : snap[s] \in {"AVAILABLE", "RESTORING"} => blob'[s] = blob[s]
    BY <2>3, <2>4
  <2>6. QED BY <2>1, <2>2, <2>4, <2>5, <1>f, <1>p, SnapGoesOn
<1>4. CASE ExportSucceeds(j)
  <2>1. /\ sjob[j].pc = "export" /\ blob' = [blob EXCEPT ![sjob[j].s] = "full"] /\ JobOver(j)
        /\ snap' = [snap EXCEPT ![sjob[j].s] = "AVAILABLE"] /\ UNCHANGED <<s3, calls, unlinked, faults>>
    BY <1>4 DEF ExportSucceeds, ArchiveStored
  <2>2. sjob[j].s \in Snaps /\ sjob[j].kind = "create"
    BY <2>1, <1>t DEF JobRow
  <2>3. /\ blob' \in [Snaps -> BlobStates] /\ blob'[sjob[j].s] = "full"
        /\ \A s \in Snaps : s # sjob[j].s => blob'[s] = blob[s]
    BY <2>1, <2>2, <1>t DEF BlobStates
  <2>4. QED BY <2>1, <2>2, <2>3, <1>f, <1>x, SnapEnds
<1>5. CASE SnapRaises(j)
  <2>1. UNCHANGED <<s3, blob, calls, unlinked, faults>> /\ sjob[j].pc \in {"claimed", "export"}
    BY <1>5 DEF SnapRaises
  <2>2. CASE MayRetry(j)
    <3>1. Moves(j, "queued") /\ snap' = snap
      BY <1>5, <2>2, <1>q DEF SnapRaises
    <3>2. QED BY <2>1, <3>1, <1>t, <1>f, <1>p, SnapGoesOn
  <2>3. CASE ~MayRetry(j)
    <3>1. JobOver(j) /\ snap' = [snap EXCEPT ![sjob[j].s] =
                             IF sjob[j].kind = "restore" THEN "AVAILABLE"
                             ELSE IF @ = "CREATING" THEN "FAILED" ELSE @]
      BY <1>5, <2>3 DEF SnapRaises
    <3>2. sjob[j].s \in Snaps /\ sjob[j].kind \in {"create", "restore"}
      BY <2>1, <1>t DEF JobRow
    <3>3. CASE sjob[j].kind = "restore"
      <4>1. snap' = [snap EXCEPT ![sjob[j].s] = "AVAILABLE"]
        BY <3>1, <3>3
      <4>2. QED BY <2>1, <3>1, <3>3, <4>1, <1>t, <1>f, <1>x, SnapEnds
    <3>4. CASE sjob[j].kind = "create"
      <4>1. snap' = [snap EXCEPT ![sjob[j].s] = "FAILED"]
        <5>1. snap[sjob[j].s] = "CREATING"
          BY <2>1, <3>4, <1>t DEF JobRow
        <5>2. QED BY <3>1, <3>4, <5>1
      <4>2. QED BY <2>1, <3>1, <3>4, <4>1, <1>t, <1>f, <1>x, SnapEnds
    <3>5. QED BY <3>2, <3>3, <3>4
  <2>4. QED BY <2>2, <2>3
<1>6. ASSUME NEW removed \in BOOLEAN, ExportFails(j, removed) PROVE SnapInv'
  <2>1. /\ sjob[j].pc = "export" /\ JobOver(j) /\ snap' = [snap EXCEPT ![sjob[j].s] = "FAILED"]
        /\ UNCHANGED <<s3, calls, unlinked, faults>>
    BY <1>6 DEF ExportFails, StatusAfterFailedExport
  <2>2. sjob[j].kind = "create" /\ sjob[j].s \in Snaps
    BY <2>1, <1>t DEF JobRow
  <2>3. blob' \in [Snaps -> BlobStates] /\ \A s \in Snaps : s # sjob[j].s => blob'[s] = blob[s]
    BY <1>6, <2>2, <1>t DEF ExportFails, ArchiveRemoved, BlobStates
  <2>4. QED BY <2>1, <2>2, <2>3, <1>f, <1>x, SnapEnds
<1>7. CASE RestoreExtracts(j)
  <2>1. sjob[j].pc = "claimed" /\ sjob[j].kind = "restore" /\ UNCHANGED <<s3, snap, blob, calls, unlinked, faults>>
    BY <1>7 DEF RestoreExtracts, Restoring
  <2>2. Moves(j, "extracted")
    <3>1. RestoreDest \in JobDests
      BY DEF RestoreDest, JobDests
    <3>2. QED BY <1>7, <3>1, <1>t, <1>p, JobUpdates DEF RestoreExtracts
  <2>3. QED BY <2>1, <2>2, <1>t, <1>f, <1>p, SnapGoesOn
<1>g. ASSUME sjob[j].pc \in {"claimed", "extracted", "moved", "promoted"}, sjob[j].kind = "restore", JobOver(j),
             snap' = [snap EXCEPT ![sjob[j].s] = "AVAILABLE"], UNCHANGED <<s3, blob, calls, unlinked>>,
             faults' \in 0 .. MaxFaults
      PROVE  SnapInv'
  BY <1>g, <1>t, <1>x, SnapEnds
<1>8. CASE RestoreFails(j)
  BY <1>8, <1>g, <1>f DEF RestoreFails, RestoreGivesUp, Restoring
<1>9. CASE SwapBackup(j)
  <2>1. Moves(j, "moved") /\ sjob[j].pc = "extracted" /\ UNCHANGED <<s3, snap, blob, calls, unlinked, faults>>
    BY <1>9, <1>m DEF SwapBackup
  <2>2. sjob[j].kind = "restore"
    BY <2>1, <1>t DEF JobRow
  <2>3. QED BY <2>1, <2>2, <1>t, <1>f, <1>p, SnapGoesOn
<1>10. CASE SwapPromote(j)
  <2>1. Moves(j, "promoted") /\ sjob[j].pc = "moved" /\ UNCHANGED <<s3, snap, blob, calls, unlinked, faults>>
    BY <1>10, <1>m DEF SwapPromote
  <2>2. sjob[j].kind = "restore"
    BY <2>1, <1>t DEF JobRow
  <2>3. QED BY <2>1, <2>2, <1>t, <1>f, <1>p, SnapGoesOn
<1>11. CASE SwapFails(j)
  <2>1. sjob[j].pc = "moved" /\ RestoreGivesUp(j) /\ UNCHANGED <<s3, blob, calls, unlinked>>
    BY <1>11 DEF SwapFails
  <2>2. sjob[j].kind = "restore"
    BY <2>1, <1>t DEF JobRow
  <2>3. faults' \in 0 .. MaxFaults
    BY <1>11, <1>f DEF SwapFails
  <2>4. QED BY <2>1, <2>2, <2>3, <1>g DEF RestoreGivesUp
<1>12. CASE RestoreSucceeds(j)
  <2>1. sjob[j].kind = "restore"
    BY <1>12, <1>t DEF RestoreSucceeds, JobRow
  <2>2. QED BY <1>12, <2>1, <1>g, <1>f DEF RestoreSucceeds
<1>13. CASE SnapWorkerDies(j)
  <2>1. /\ sjob[j].pc \in Working /\ UNCHANGED <<s3, snap, blob, calls, unlinked>>
        /\ faults < MaxFaults /\ faults' = faults + 1
    BY <1>13 DEF SnapWorkerDies
  <2>2. Moves(j, "queued")
    <3>1. "none" \in JobDests
      BY DEF JobDests
    <3>2. QED BY <1>13, <3>1, <1>t, <1>p, JobUpdates DEF SnapWorkerDies
  <2>3. sjob[j].pc # "unused"
    BY <2>1 DEF Working
  <2>4. QED BY <2>1, <2>2, <2>3, <1>t, <1>f, <1>p, SnapGoesOn
<1>14. QED
  BY <1>1, <1>2, <1>3, <1>4, <1>5, <1>6, <1>7, <1>8, <1>9, <1>10, <1>11, <1>12, <1>13 DEF SnapWorkerNext

\* SnapInv is inductive.
LEMMA SnapInvStep == SnapInv /\ [SnapNext]_snapVars => SnapInv'
<1> SUFFICES ASSUME SnapInv, [SnapNext]_snapVars PROVE SnapInv'
  OBVIOUS
<1>1. ASSUME \/ UNCHANGED snapVars
             \/ \E st \in {"RUNNING", "STOPPED"} : WorkspaceTurns(st)
      PROVE  SnapInv'
  <2>1. UNCHANGED <<s3, snap, blob, sjob, calls, unlinked, faults>>
    BY <1>1 DEF snapVars, WorkspaceTurns
  <2>2. QED BY <2>1 DEF SnapInv, SnapTyping, JobRows, JobRow, OneCreate, CallRows, AvailableHasArchive
<1>2. QED BY <1>1, SnapApi, SnapWorker DEF SnapNext

\* SnapInv holds at first.
LEMMA SnapInvInit == SnapInit => SnapInv
<1> SUFFICES ASSUME SnapInit PROVE SnapInv
  OBVIOUS
<1>1. NoJob \in SnapJob /\ NoJob.pc = "unused"
  BY DEF NoJob, SnapJob, JobKinds, SnapIds, JobPcs, JobDests
<1>2. SnapTyping
  BY <1>1, SnapshotsAssumption DEF SnapInit, SnapTyping, SnapStates, BlobStates
<1>3. \A j \in SnapJobs : sjob[j] = NoJob /\ sjob[j].pc = "unused"
  BY <1>1 DEF SnapInit
<1>4. JobRows /\ OneCreate
  BY <1>3 DEF JobRows, JobRow, OneCreate
<1>5. CallRows /\ AvailableHasArchive
  BY DEF SnapInit, CallRows, AvailableHasArchive
<1>6. QED BY <1>2, <1>4, <1>5 DEF SnapInv

\* Snapshot rows, archives, jobs and calls keep their kinds, and a job's row exists.
THEOREM SnapTypingAlways == SnapSpec => []SnapTypeOK
<1>1. SnapInv => SnapTypeOK
  <2> SUFFICES ASSUME SnapInv PROVE SnapTypeOK
    OBVIOUS
  <2>1. \A j \in SnapJobs : sjob[j] # NoJob => sjob[j].s \in Snaps /\ snap[sjob[j].s] # "NONE"
    BY DEF SnapInv, JobRows, JobRow
  <2>2. QED BY <2>1 DEF SnapInv, SnapTyping, SnapTypeOK, SnapStates, BlobStates, CallSet
<1>2. QED BY <1>1, SnapInvInit, SnapInvStep, PTL DEF SnapSpec

\* A snapshot on offer has its whole archive until a delete call removes it, for any
\* number of snapshots, jobs, retries and deaths, with either storage provider.
THEOREM AvailableHasArchiveAlways == SnapSpec => []AvailableHasArchive
<1>1. SnapInv => AvailableHasArchive
  BY DEF SnapInv
<1>2. QED BY <1>1, SnapInvInit, SnapInvStep, PTL DEF SnapSpec

-----------------------------------------------------------------------------
(* The directories of a restore *)

\* Without faults there is always a copy in place or a restore about to put one
\* there; a backup alone belongs to a restore that is past its own backup.
NoFaultTree ==
    faults = 0 =>
        \/ tree.bundle.project \/ tree.bundle.flat
        \/ \E j \in SnapJobs : sjob[j].pc = "moved" /\ (tree.bundle.bak => sjob[j].dest = "project")

Swapping(j) == sjob[j].pc \in {"extracted", "moved", "promoted"}

\* Restores that never overlapped swap one at a time.
OneSwap == ~overlap => \A j, k \in SnapJobs : Swapping(j) /\ Swapping(k) => j = k

\* Each fault costs one place where a copy may be: project/, the bundle, its backup.
Reserve(n) ==
    /\ n = 0 => tree.bundle.project
    /\ n <= 1 => tree.bundle # EmptyBundle
    /\ n <= 2 => tree.bundle # EmptyBundle \/ tree.old # EmptyBundle

OneSwapTree ==
    ~overlap =>
        /\ (\A j \in SnapJobs : sjob[j].pc \notin {"moved", "promoted"}) => Reserve(faults)
        /\ \A j \in SnapJobs :
             /\ sjob[j].pc = "extracted" => sjob[j].dest = RestoreDest
             /\ sjob[j].pc = "moved" =>
                  IF sjob[j].dest = "project"
                  THEN tree.bundle.bak /\ ~tree.bundle.project
                  ELSE faults # 0 /\ tree.bundle = EmptyBundle /\ (faults = 1 => tree.old # EmptyBundle)
             /\ sjob[j].pc = "promoted" =>
                  IF sjob[j].dest = "project" THEN tree.bundle.project
                  ELSE faults # 0 /\ tree.bundle.flat

Bundle == [project : BOOLEAN, bak : BOOLEAN, flat : BOOLEAN]
TreeTyping ==
    /\ tree \in [bundle : Bundle, old : Bundle] /\ overlap \in BOOLEAN
    /\ \A j \in SnapJobs : Swapping(j) => sjob[j].dest \in {"project", "bundle"}

SwapInv == TreeTyping /\ NoFaultTree /\ OneSwap /\ OneSwapTree

\* A bundle without copies.
LEMMA BundleEmpty ==
    ASSUME NEW b \in Bundle
    PROVE  /\ b = EmptyBundle <=> ~b.project /\ ~b.bak /\ ~b.flat
           /\ EmptyBundle \in Bundle /\ ~EmptyBundle.project /\ ~EmptyBundle.bak /\ ~EmptyBundle.flat
<1>1. EmptyBundle \in Bundle /\ ~EmptyBundle.project /\ ~EmptyBundle.bak /\ ~EmptyBundle.flat
  BY DEF Bundle, EmptyBundle
<1>2. ASSUME ~b.project, ~b.bak, ~b.flat PROVE b = EmptyBundle
  <2>1. b.project = FALSE /\ b.bak = FALSE /\ b.flat = FALSE
    BY <1>2 DEF Bundle
  <2>2. b = [project |-> b.project, bak |-> b.bak, flat |-> b.flat]
    BY DEF Bundle
  <2>3. QED BY <2>1, <2>2 DEF EmptyBundle
<1>3. QED BY <1>1, <1>2

TreeSet == [bundle : Bundle, old : Bundle]

\* What the renames do to a project directory.
LEMMA ProjectOps ==
    ASSUME NEW t \in TreeSet
    PROVE  /\ BackedUp(t, "project") \in TreeSet
           /\ ~BackedUp(t, "project").bundle.project
           /\ BackedUp(t, "project").bundle.bak <=> t.bundle.project
           /\ PromotedTree(t, "project") \in TreeSet /\ PromotedTree(t, "project").bundle.project
           /\ WithoutBackup(t, "project") \in TreeSet /\ ~WithoutBackup(t, "project").bundle.bak
           /\ WithoutBackup(t, "project").bundle.project <=> t.bundle.project
           /\ WithoutBackup(t, "project").bundle.flat <=> t.bundle.flat
           /\ RolledBack(t, "project") \in TreeSet
           /\ ~t.bundle.project /\ t.bundle.bak => RolledBack(t, "project").bundle.project
           /\ t.bundle.project => RolledBack(t, "project") = t
BY DEF TreeSet, Bundle, BackedUp, PromotedTree, WithoutBackup, RolledBack, Occupied

\* What they do to a whole bundle.
LEMMA BundleOps ==
    ASSUME NEW t \in TreeSet
    PROVE  /\ BackedUp(t, "bundle") \in TreeSet
           /\ BackedUp(t, "bundle").bundle = EmptyBundle /\ BackedUp(t, "bundle").old = t.bundle
           /\ PromotedTree(t, "bundle") \in TreeSet /\ PromotedTree(t, "bundle").bundle.flat
           /\ WithoutBackup(t, "bundle") \in TreeSet
           /\ WithoutBackup(t, "bundle").bundle = t.bundle
           /\ RolledBack(t, "bundle") \in TreeSet
           /\ t.bundle = EmptyBundle => RolledBack(t, "bundle").bundle = t.old
           /\ t.bundle # EmptyBundle => RolledBack(t, "bundle") = t
<1>1. EmptyBundle \in Bundle
  BY DEF EmptyBundle, Bundle
<1>2. t.bundle \in Bundle /\ t.old \in Bundle
  BY DEF TreeSet
<1>3. /\ BackedUp(t, "bundle") \in TreeSet
      /\ BackedUp(t, "bundle").bundle = EmptyBundle /\ BackedUp(t, "bundle").old = t.bundle
  BY <1>1, <1>2 DEF BackedUp, TreeSet
<1>4. PromotedTree(t, "bundle") \in TreeSet /\ PromotedTree(t, "bundle").bundle.flat
  BY <1>2 DEF PromotedTree, TreeSet, Bundle
<1>5. WithoutBackup(t, "bundle") \in TreeSet /\ WithoutBackup(t, "bundle").bundle = t.bundle
  BY <1>1, <1>2 DEF WithoutBackup, TreeSet
<1>6. /\ RolledBack(t, "bundle") \in TreeSet
      /\ t.bundle = EmptyBundle => RolledBack(t, "bundle").bundle = t.old
      /\ t.bundle # EmptyBundle => RolledBack(t, "bundle") = t
  BY <1>1, <1>2 DEF RolledBack, Occupied, TreeSet
<1>7. QED BY <1>3, <1>4, <1>5, <1>6

\* Jobs that start a swap, or swap, go on as they were, and some that had only
\* extracted may be gone; the directories are left alone.
LEMMA SwapFrame ==
    ASSUME SwapInv, tree' = tree, overlap' = overlap, faults \in Nat, faults' \in Nat, faults <= faults',
           \A k \in SnapJobs :
               /\ Swapping(k)' => sjob'[k].pc = sjob[k].pc /\ sjob'[k].dest = sjob[k].dest
               /\ sjob[k].pc \in {"moved", "promoted"} => sjob'[k].pc = sjob[k].pc /\ sjob'[k].dest = sjob[k].dest
    PROVE  SwapInv'
<1>1. TreeTyping'
  BY DEF SwapInv, TreeTyping, Swapping
<1>2. NoFaultTree'
  BY DEF SwapInv, NoFaultTree
<1>3. OneSwap'
  BY DEF SwapInv, OneSwap, Swapping
<1>4. OneSwapTree'
  <2> SUFFICES ASSUME ~overlap PROVE OneSwapTree'
    BY DEF OneSwapTree
  <2>1. ASSUME \A j \in SnapJobs : sjob'[j].pc \notin {"moved", "promoted"} PROVE Reserve(faults)'
    <3>1. \A j \in SnapJobs : sjob[j].pc \notin {"moved", "promoted"}
      BY <2>1
    <3>2. Reserve(faults)
      BY <3>1 DEF SwapInv, OneSwapTree
    <3>3. QED BY <3>2 DEF Reserve
  <2>2. ASSUME NEW j \in SnapJobs
        PROVE  /\ sjob'[j].pc = "extracted" => sjob'[j].dest = RestoreDest'
               /\ sjob'[j].pc = "moved" =>
                    IF sjob'[j].dest = "project"
                    THEN tree.bundle.bak /\ ~tree.bundle.project
                    ELSE faults' # 0 /\ tree.bundle = EmptyBundle /\ (faults' = 1 => tree.old # EmptyBundle)
               /\ sjob'[j].pc = "promoted" =>
                    IF sjob'[j].dest = "project" THEN tree.bundle.project
                    ELSE faults' # 0 /\ tree.bundle.flat
    <3>1. RestoreDest' = RestoreDest
      BY DEF RestoreDest
    <3>2. faults # 0 => faults' # 0 /\ (faults' = 1 => faults = 1)
      OBVIOUS
    <3>3. QED BY <3>1, <3>2 DEF SwapInv, OneSwapTree, Swapping
  <2>3. QED BY <2>1, <2>2 DEF OneSwapTree
<1>5. QED BY <1>1, <1>2, <1>3, <1>4 DEF SwapInv

\* A restore that swaps alone, and comes to its end.
LEMMA SwapEnds ==
    ASSUME SwapInv, NEW j \in SnapJobs, Swapping(j), ~Swapping(j)', overlap' = overlap,
           \A k \in SnapJobs : k # j => sjob'[k] = sjob[k],
           tree' \in TreeSet, NoFaultTree', ~overlap => Reserve(faults)'
    PROVE  SwapInv'
<1>1. \A k \in SnapJobs : Swapping(k)' => k # j /\ Swapping(k)
  BY DEF Swapping
<1>2. TreeTyping'
  BY <1>1 DEF SwapInv, TreeTyping, TreeSet, Swapping
<1>3. ~overlap => \A k \in SnapJobs : ~Swapping(k)'
  BY <1>1 DEF SwapInv, OneSwap
<1>4. OneSwap' /\ OneSwapTree'
  BY <1>3 DEF OneSwap, OneSwapTree, Swapping
<1>5. QED BY <1>2, <1>4 DEF SwapInv

\* A restore that goes on.
LEMMA SwapGoesOn ==
    ASSUME SwapInv, NEW j \in SnapJobs, Swapping(j), sjob'[j].pc \in {"moved", "promoted"}, overlap' = overlap,
           sjob'[j].dest = sjob[j].dest, \A k \in SnapJobs : k # j => sjob'[k] = sjob[k],
           tree' \in TreeSet, NoFaultTree',
           ~overlap /\ sjob'[j].pc = "moved" =>
               IF sjob[j].dest = "project"
               THEN tree'.bundle.bak /\ ~tree'.bundle.project
               ELSE faults' # 0 /\ tree'.bundle = EmptyBundle /\ (faults' = 1 => tree'.old # EmptyBundle),
           ~overlap /\ sjob'[j].pc = "promoted" =>
               IF sjob[j].dest = "project" THEN tree'.bundle.project ELSE faults' # 0 /\ tree'.bundle.flat
    PROVE  SwapInv'
<1>1. \A k \in SnapJobs : Swapping(k)' => Swapping(k)
  BY DEF Swapping
<1>2. TreeTyping'
  BY <1>1 DEF SwapInv, TreeTyping, TreeSet, Swapping
<1>3. OneSwap'
  BY <1>1 DEF SwapInv, OneSwap
<1>4. ~overlap => \A k \in SnapJobs : k # j => ~Swapping(k)'
  BY <1>1 DEF SwapInv, OneSwap
<1>5. OneSwapTree'
  BY <1>4 DEF OneSwapTree, Swapping
<1>6. QED BY <1>2, <1>3, <1>5 DEF SwapInv

\* The steps of a restore.
LEMMA SwapWorker ==
    ASSUME SnapInv, SwapInv, NEW j \in SnapJobs,
           \/ RestoreExtracts(j) \/ SwapBackup(j) \/ SwapPromote(j) \/ SwapFails(j) \/ RestoreSucceeds(j)
           \/ SnapWorkerDies(j) /\ sjob[j].pc \in {"moved", "promoted"}
    PROVE  SwapInv'
<1>t. SnapTyping /\ JobRows /\ tree \in TreeSet /\ tree.bundle \in Bundle /\ tree.old \in Bundle
  BY DEF SnapInv, SwapInv, TreeTyping, TreeSet
<1>f. faults \in Nat
  BY <1>t, SnapshotsAssumption DEF SnapTyping
<1>p. /\ "none" \in JobDests /\ "queued" \in JobPcs /\ "extracted" \in JobPcs
      /\ "moved" \in JobPcs /\ "promoted" \in JobPcs
  BY DEF JobPcs, JobDests
<1>d. Swapping(j) => sjob[j].dest \in {"project", "bundle"}
  BY DEF SwapInv, TreeTyping
<1>b. tree.bundle.project \/ tree.bundle.bak \/ tree.bundle.flat => tree.bundle # EmptyBundle
  BY <1>t, BundleEmpty
<1>o. ASSUME ~overlap, Swapping(j) PROVE \A k \in SnapJobs : k # j => ~Swapping(k)
  BY <1>o DEF SwapInv, OneSwap
<1>1. CASE RestoreExtracts(j)
  <2>1. /\ sjob[j].pc = "claimed" /\ UNCHANGED <<tree, faults>>
        /\ overlap' = (overlap \/ Restoring(Working) # {j})
    BY <1>1 DEF RestoreExtracts, Restoring
  <2>2. Moves(j, "extracted") /\ sjob'[j].dest = RestoreDest
    <3>1. RestoreDest \in JobDests
      BY DEF RestoreDest, JobDests
    <3>2. QED BY <1>1, <3>1, <1>t, <1>p, JobUpdates DEF RestoreExtracts
  <2>3. RestoreDest \in {"project", "bundle"} /\ RestoreDest' = RestoreDest
    BY <2>1 DEF RestoreDest
  <2>4. TreeTyping'
    BY <2>1, <2>2, <2>3 DEF SwapInv, TreeTyping, Swapping, Moves
  <2>5. NoFaultTree'
    BY <2>1, <2>2 DEF SwapInv, NoFaultTree, Moves
  <2>6. ASSUME ~overlap' PROVE ~overlap /\ \A k \in SnapJobs : k # j => ~Swapping(k)
    <3>1. ~overlap /\ Restoring(Working) = {j}
      BY <2>1, <2>6
    <3>2. ASSUME NEW k \in SnapJobs, k # j, Swapping(k) PROVE FALSE
      <4>1. JobRow(sjob[k])
        BY <1>t DEF JobRows
      <4>2. k \in Restoring(Working)
        BY <3>2, <4>1 DEF JobRow, Swapping, Restoring, Working
      <4>3. QED BY <3>1, <3>2, <4>2
    <3>3. QED BY <3>1, <3>2
  <2>7. OneSwap'
    BY <2>2, <2>6 DEF OneSwap, Swapping, Moves
  <2>8. OneSwapTree'
    <3> SUFFICES ASSUME ~overlap' PROVE OneSwapTree'
      BY DEF OneSwapTree
    <3>1. \A k \in SnapJobs : sjob[k].pc \notin {"moved", "promoted"}
      BY <2>1, <2>6 DEF Swapping
    <3>2. Reserve(faults)'
      BY <2>1, <2>6, <3>1 DEF SwapInv, OneSwapTree, Reserve
    <3>3. QED BY <3>2, <2>2, <2>3, <2>6 DEF OneSwapTree, Swapping, Moves
  <2>9. QED BY <2>4, <2>5, <2>7, <2>8 DEF SwapInv
<1>2. CASE SwapBackup(j)
  <2>1. /\ sjob[j].pc = "extracted" /\ UNCHANGED <<faults, overlap>>
        /\ tree' = BackedUp(tree, sjob[j].dest)
    BY <1>2 DEF SwapBackup
  <2>2. Moves(j, "moved") /\ sjob'[j].dest = sjob[j].dest /\ Swapping(j)
    BY <1>2, <2>1, <1>t, <1>p, JobUpdates DEF SwapBackup, Swapping
  <2>3. CASE sjob[j].dest = "project"
    <3>1. tree' \in TreeSet /\ ~tree'.bundle.project /\ (tree'.bundle.bak <=> tree.bundle.project)
      BY <2>1, <2>3, <1>t, ProjectOps
    <3>2. NoFaultTree'
      BY <2>2, <2>3 DEF NoFaultTree, Moves
    <3>3. ~overlap => tree'.bundle.bak
      <4>1. ~overlap => RestoreDest = "project"
        BY <2>1, <2>3 DEF SwapInv, OneSwapTree
      <4>2. QED BY <3>1, <4>1 DEF RestoreDest
    <3>4. QED BY <2>1, <2>2, <2>3, <3>1, <3>2, <3>3, SwapGoesOn DEF Moves
  <2>4. CASE sjob[j].dest = "bundle"
    <3>1. tree' \in TreeSet /\ tree'.bundle = EmptyBundle /\ tree'.old = tree.bundle
      BY <2>1, <2>4, <1>t, BundleOps
    <3>2. ~tree'.bundle.bak
      BY <3>1, <1>t, BundleEmpty
    <3>3. NoFaultTree'
      BY <2>2, <3>2 DEF NoFaultTree, Moves
    <3>4. ~overlap => faults' # 0 /\ (faults' = 1 => tree'.old # EmptyBundle)
      <4> SUFFICES ASSUME ~overlap PROVE faults # 0 /\ (faults = 1 => tree.bundle # EmptyBundle)
        BY <2>1, <3>1
      <4>1. \A k \in SnapJobs : sjob[k].pc \notin {"moved", "promoted"}
        BY <2>1, <2>2, <1>o DEF Swapping
      <4>2. Reserve(faults)
        BY <4>1 DEF SwapInv, OneSwapTree
      <4>3. ~tree.bundle.project
        BY <2>1, <2>4 DEF SwapInv, OneSwapTree, RestoreDest
      <4>4. QED BY <4>2, <4>3, <1>f DEF Reserve
    <3>5. QED BY <2>1, <2>2, <2>4, <3>1, <3>3, <3>4, SwapGoesOn DEF Moves
  <2>5. QED BY <2>2, <2>3, <2>4, <1>d
<1>3. CASE SwapPromote(j)
  <2>1. /\ sjob[j].pc = "moved" /\ UNCHANGED <<faults, overlap>>
        /\ tree' = PromotedTree(tree, sjob[j].dest)
    BY <1>3 DEF SwapPromote
  <2>2. Moves(j, "promoted") /\ sjob'[j].dest = sjob[j].dest /\ Swapping(j)
    BY <1>3, <2>1, <1>t, <1>p, JobUpdates DEF SwapPromote, Swapping
  <2>3. CASE sjob[j].dest = "project"
    <3>1. tree' \in TreeSet /\ tree'.bundle.project
      BY <2>1, <2>3, <1>t, ProjectOps
    <3>2. NoFaultTree'
      BY <3>1 DEF NoFaultTree
    <3>3. QED BY <2>1, <2>2, <2>3, <3>1, <3>2, SwapGoesOn DEF Moves
  <2>4. CASE sjob[j].dest = "bundle"
    <3>1. tree' \in TreeSet /\ tree'.bundle.flat
      BY <2>1, <2>4, <1>t, BundleOps
    <3>2. NoFaultTree'
      BY <3>1 DEF NoFaultTree
    <3>3. ~overlap => faults' # 0
      BY <2>1, <2>4 DEF SwapInv, OneSwapTree
    <3>4. QED BY <2>1, <2>2, <2>4, <3>1, <3>2, <3>3, SwapGoesOn DEF Moves
  <2>5. QED BY <2>2, <2>3, <2>4, <1>d
<1>e. ASSUME JobOver(j) PROVE /\ ~Swapping(j)' /\ sjob'[j].pc # "moved"
                              /\ \A k \in SnapJobs : k # j => sjob'[k] = sjob[k]
  BY <1>e, <1>t, JobEnds DEF Swapping
<1>4. CASE SwapFails(j)
  <2>1. /\ sjob[j].pc = "moved" /\ UNCHANGED overlap /\ JobOver(j) /\ Swapping(j)
        /\ tree' = RolledBack(tree, sjob[j].dest)
    BY <1>4 DEF SwapFails, RestoreGivesUp, Swapping
  <2>2. CASE ~Occupied(tree, sjob[j].dest)
    <3>1. faults' = faults + 1
      BY <1>4, <2>2 DEF SwapFails
    <3>2. NoFaultTree'
      BY <3>1, <1>f DEF NoFaultTree
    <3>3. CASE sjob[j].dest = "project"
      <4>1. tree' \in TreeSet /\ (tree.bundle.bak => tree'.bundle.project)
        BY <2>1, <2>2, <3>3, <1>t, ProjectOps DEF Occupied
      <4>2. ~overlap => tree'.bundle.project
        BY <2>1, <3>3, <4>1 DEF SwapInv, OneSwapTree
      <4>3. tree'.bundle.project => tree'.bundle # EmptyBundle
        BY <4>1, BundleEmpty DEF TreeSet
      <4>4. ~overlap => Reserve(faults)'
        BY <4>2, <4>3 DEF Reserve
      <4>5. QED BY <2>1, <3>2, <4>1, <4>4, <1>e, SwapEnds
    <3>4. CASE sjob[j].dest = "bundle"
      <4>1. tree' \in TreeSet /\ tree'.bundle = tree.old
        BY <2>1, <2>2, <3>4, <1>t, BundleOps DEF Occupied
      <4>2. ~overlap => faults # 0 /\ (faults = 1 => tree.old # EmptyBundle)
        BY <2>1, <3>4 DEF SwapInv, OneSwapTree
      <4>3. ~overlap => Reserve(faults)'
        BY <3>1, <4>1, <4>2, <1>f DEF Reserve
      <4>4. QED BY <2>1, <3>2, <4>1, <4>3, <1>e, SwapEnds
    <3>5. QED BY <2>1, <3>3, <3>4, <1>d
  <2>3. CASE Occupied(tree, sjob[j].dest)
    <3>1. faults' = faults
      BY <1>4, <2>3 DEF SwapFails
    <3>2. overlap
      BY <2>1, <2>3, <1>d DEF SwapInv, OneSwapTree, Occupied
    <3>3. tree' = tree
      BY <2>1, <2>3 DEF RolledBack
    <3>4. NoFaultTree'
      <4> SUFFICES ASSUME faults = 0, ~tree.bundle.project, ~tree.bundle.flat
                   PROVE  \E k \in SnapJobs : sjob'[k].pc = "moved" /\ (tree.bundle.bak => sjob'[k].dest = "project")
        BY <3>1, <3>3 DEF NoFaultTree
      <4>1. sjob[j].dest = "bundle" /\ tree.bundle # EmptyBundle
        BY <2>1, <2>3, <1>d DEF Occupied
      <4>2. tree.bundle.bak
        BY <4>1, <1>t, BundleEmpty
      <4>3. PICK k \in SnapJobs : sjob[k].pc = "moved" /\ (tree.bundle.bak => sjob[k].dest = "project")
        BY DEF SwapInv, NoFaultTree
      <4>4. k # j
        BY <4>1, <4>2, <4>3
      <4>5. QED BY <4>3, <4>4, <2>1, <1>e
    <3>5. QED BY <2>1, <3>2, <3>3, <3>4, <1>t, <1>e, SwapEnds
  <2>4. QED BY <2>2, <2>3
<1>5. CASE RestoreSucceeds(j)
  <2>1. /\ sjob[j].pc = "promoted" /\ UNCHANGED <<overlap, faults>> /\ JobOver(j) /\ Swapping(j)
        /\ tree' = WithoutBackup(tree, sjob[j].dest)
    BY <1>5 DEF RestoreSucceeds, Swapping
  <2>2. \A k \in SnapJobs : sjob[k].pc = "moved" => sjob'[k] = sjob[k]
    BY <2>1, <1>e
  <2>3. CASE sjob[j].dest = "project"
    <3>1. /\ tree' \in TreeSet /\ ~tree'.bundle.bak /\ (tree'.bundle.project <=> tree.bundle.project)
          /\ (tree'.bundle.flat <=> tree.bundle.flat)
      BY <2>1, <2>3, <1>t, ProjectOps
    <3>2. NoFaultTree'
      BY <2>1, <2>2, <3>1 DEF SwapInv, NoFaultTree
    <3>3. ~overlap => tree'.bundle.project
      BY <2>1, <2>3, <3>1 DEF SwapInv, OneSwapTree
    <3>4. tree'.bundle.project => tree'.bundle # EmptyBundle
      BY <3>1, BundleEmpty DEF TreeSet
    <3>5. ~overlap => Reserve(faults)'
      BY <3>3, <3>4 DEF Reserve
    <3>6. QED BY <2>1, <3>1, <3>2, <3>5, <1>e, SwapEnds
  <2>4. CASE sjob[j].dest = "bundle"
    <3>1. tree' \in TreeSet /\ tree'.bundle = tree.bundle
      BY <2>1, <2>4, <1>t, BundleOps
    <3>2. NoFaultTree'
      BY <2>1, <2>2, <3>1 DEF SwapInv, NoFaultTree
    <3>3. ~overlap => faults # 0 /\ tree.bundle # EmptyBundle
      BY <2>1, <2>4, <1>b DEF SwapInv, OneSwapTree
    <3>4. ~overlap => Reserve(faults)'
      BY <2>1, <3>1, <3>3 DEF Reserve
    <3>5. QED BY <2>1, <3>1, <3>2, <3>4, <1>e, SwapEnds
  <2>5. QED BY <2>1, <2>3, <2>4, <1>d
<1>6. CASE SnapWorkerDies(j) /\ sjob[j].pc \in {"moved", "promoted"}
  <2>1. Swapping(j) /\ UNCHANGED <<tree, overlap>> /\ faults' = faults + 1
    BY <1>6 DEF SnapWorkerDies, Swapping
  <2>2. Moves(j, "queued")
    BY <1>6, <1>t, <1>p, JobUpdates DEF SnapWorkerDies
  <2>3. NoFaultTree'
    BY <2>1, <1>f DEF NoFaultTree
  <2>4. ~overlap => Reserve(faults)'
    <3> SUFFICES ASSUME ~overlap PROVE Reserve(faults)'
      OBVIOUS
    <3>1. \/ tree.bundle # EmptyBundle
          \/ faults # 0 /\ (faults = 1 => tree.old # EmptyBundle)
      BY <1>6, <2>1, <1>b, <1>d DEF SwapInv, OneSwapTree
    <3>2. QED BY <2>1, <3>1, <1>f DEF Reserve
  <2>5. QED BY <2>1, <2>2, <2>3, <2>4, <1>t, SwapEnds DEF Moves, Swapping
<1>7. QED BY <1>1, <1>2, <1>3, <1>4, <1>5, <1>6

\* The steps that leave the directories alone.
LEMMA SwapOthers ==
    ASSUME SnapInv, SwapInv, SnapNext,
           \A j \in SnapJobs : ~(\/ RestoreExtracts(j) \/ SwapBackup(j) \/ SwapPromote(j) \/ SwapFails(j)
                                 \/ RestoreSucceeds(j)
                                 \/ SnapWorkerDies(j) /\ sjob[j].pc \in {"moved", "promoted"})
    PROVE  SwapInv'
<1>t. SnapTyping
  BY DEF SnapInv
<1>f. faults \in Nat
  BY <1>t, SnapshotsAssumption DEF SnapTyping
<1>p. /\ "none" \in JobDests /\ "queued" \in JobPcs /\ "claimed" \in JobPcs /\ "export" \in JobPcs
      /\ NoJob.pc = "unused"
  BY DEF JobPcs, JobDests, NoJob
<1>m. ASSUME NEW j \in SnapJobs, sjob[j].pc \notin {"moved", "promoted"},
             NEW p \in {"queued", "claimed", "export"}, Moves(j, p),
             UNCHANGED <<tree, overlap>>, faults' \in {faults, faults + 1}
      PROVE  SwapInv'
  <2>1. \A k \in SnapJobs :
            /\ Swapping(k)' => sjob'[k].pc = sjob[k].pc /\ sjob'[k].dest = sjob[k].dest
            /\ sjob[k].pc \in {"moved", "promoted"} => sjob'[k].pc = sjob[k].pc /\ sjob'[k].dest = sjob[k].dest
    BY <1>m DEF Moves, Swapping
  <2>2. faults' \in Nat /\ faults <= faults'
    BY <1>m, <1>f
  <2>3. QED BY <1>m, <1>f, <2>1, <2>2, SwapFrame
<1>o. ASSUME NEW j \in SnapJobs, sjob[j].pc \notin {"moved", "promoted"}, JobOver(j),
             UNCHANGED <<tree, overlap, faults>>
      PROVE  SwapInv'
  <2>1. sjob'[j].pc = "unused" /\ \A k \in SnapJobs : k # j => sjob'[k] = sjob[k]
    BY <1>o, <1>t, JobEnds
  <2>2. \A k \in SnapJobs :
            /\ Swapping(k)' => sjob'[k].pc = sjob[k].pc /\ sjob'[k].dest = sjob[k].dest
            /\ sjob[k].pc \in {"moved", "promoted"} => sjob'[k].pc = sjob[k].pc /\ sjob'[k].dest = sjob[k].dest
    BY <1>o, <2>1 DEF Swapping
  <2>3. QED BY <1>o, <1>f, <2>2, SwapFrame
<1>1. CASE ApiNext
  <2>1. UNCHANGED <<tree, overlap, faults>>
    BY <1>1 DEF ApiNext, CreateChecks, RestoreChecks, DeleteChecks, CallStarts, CreateCommits, RestoreCommits, DeleteCommits
  <2>2. \/ sjob' = sjob
        \/ \E kind \in {"create", "restore"}, s \in Snaps : JobQueued(kind, s)
    BY <1>1 DEF ApiNext, CreateChecks, RestoreChecks, DeleteChecks, CallStarts, CreateCommits, RestoreCommits, DeleteCommits
  <2>3. CASE sjob' = sjob
    BY <2>1, <2>3, <1>f, SwapFrame DEF Swapping
  <2>4. ASSUME NEW kind \in {"create", "restore"}, NEW s \in Snaps, JobQueued(kind, s) PROVE SwapInv'
    <3>1. PICK j \in SnapJobs : /\ sjob[j] = NoJob /\ sjob'[j].pc = "queued"
                                /\ \A k \in SnapJobs : k # j => sjob'[k] = sjob[k]
      BY <2>4, <1>t, JobComes
    <3>2. \A k \in SnapJobs :
              /\ Swapping(k)' => sjob'[k].pc = sjob[k].pc /\ sjob'[k].dest = sjob[k].dest
              /\ sjob[k].pc \in {"moved", "promoted"} => sjob'[k].pc = sjob[k].pc /\ sjob'[k].dest = sjob[k].dest
      BY <3>1, <1>p DEF Swapping
    <3>3. QED BY <2>1, <3>2, <1>f, SwapFrame
  <2>5. QED BY <2>2, <2>3, <2>4
<1>2. ASSUME NEW st \in {"RUNNING", "STOPPED"}, WorkspaceTurns(st) PROVE SwapInv'
  <2>1. UNCHANGED <<sjob, tree, overlap, faults>>
    BY <1>2 DEF WorkspaceTurns
  <2>2. QED BY <2>1, <1>f, SwapFrame DEF Swapping
<1>3. ASSUME NEW j \in SnapJobs, SnapWorkerNext(j) PROVE SwapInv'
  <2>1. CASE SnapClaim(j)
    <3>1. Moves(j, "claimed")
      BY <2>1, <1>t, <1>p, JobUpdates DEF SnapClaim
    <3>2. QED BY <2>1, <3>1, <1>m DEF SnapClaim
  <2>q. ASSUME Retried(j) PROVE Moves(j, "queued")
    BY <2>q, <1>t, <1>p, JobUpdates DEF Retried
  <2>2. CASE SnapNotPlaced(j)
    BY <2>2, <2>q, <1>m, <1>o DEF SnapNotPlaced
  <2>3. CASE ExportStarts(j)
    <3>1. Moves(j, "export")
      BY <2>3, <1>t, <1>p, JobUpdates DEF ExportStarts
    <3>2. QED BY <2>3, <3>1, <1>m DEF ExportStarts
  <2>4. CASE ExportSucceeds(j)
    BY <2>4, <1>o DEF ExportSucceeds
  <2>5. CASE SnapRaises(j)
    BY <2>5, <2>q, <1>m, <1>o DEF SnapRaises
  <2>6. CASE \E removed \in BOOLEAN : ExportFails(j, removed)
    BY <2>6, <1>o DEF ExportFails
  <2>7. CASE RestoreFails(j)
    BY <2>7, <1>o DEF RestoreFails, RestoreGivesUp, Restoring
  <2>8. CASE SnapWorkerDies(j)
    <3>1. Moves(j, "queued")
      BY <2>8, <1>t, <1>p, JobUpdates DEF SnapWorkerDies
    <3>2. QED BY <2>8, <3>1, <1>m DEF SnapWorkerDies
  <2>9. QED BY <1>3, <2>1, <2>2, <2>3, <2>4, <2>5, <2>6, <2>7, <2>8 DEF SnapWorkerNext
<1>4. QED BY <1>1, <1>2, <1>3 DEF SnapNext

\* The user's files survive swaps that are interrupted at most twice, or overlap, for
\* any number of restores: Reserve counts the places where a copy may still be.
THEOREM FilesSurviveAlways == SnapSpec => []FilesSurvive
<1>1. SnapInit => SwapInv
  <2> SUFFICES ASSUME SnapInit PROVE SwapInv
    OBVIOUS
  <2>1. tree = InitialTree /\ faults = 0 /\ ~overlap /\ overlap \in BOOLEAN
    BY DEF SnapInit
  <2>2. \A j \in SnapJobs : sjob[j].pc = "unused"
    BY DEF SnapInit, NoJob
  <2>3. tree \in TreeSet /\ tree.bundle.project
    BY <2>1 DEF InitialTree, EmptyBundle, TreeSet, Bundle
  <2>4. tree.bundle # EmptyBundle
    BY <2>3, BundleEmpty DEF TreeSet
  <2>5. TreeTyping /\ NoFaultTree /\ OneSwap
    BY <2>1, <2>2, <2>3 DEF TreeTyping, TreeSet, Swapping, NoFaultTree, OneSwap
  <2>6. OneSwapTree
    BY <2>2, <2>3, <2>4 DEF OneSwapTree, Reserve
  <2>7. QED BY <2>5, <2>6 DEF SwapInv
<1>2. SnapInv /\ SwapInv /\ [SnapNext]_snapVars => SwapInv'
  <2> SUFFICES ASSUME SnapInv, SwapInv, [SnapNext]_snapVars PROVE SwapInv'
    OBVIOUS
  <2>1. CASE UNCHANGED snapVars
    <3>1. UNCHANGED <<sjob, tree, overlap, faults>> /\ faults \in Nat
      BY <2>1, SnapshotsAssumption DEF snapVars, SnapInv, SnapTyping
    <3>2. QED BY <3>1, SwapFrame DEF Swapping
  <2>2. CASE SnapNext
    BY <2>2, SwapOthers, SwapWorker
  <2>3. QED BY <2>1, <2>2
<1>3. SnapInv /\ SwapInv => FilesSurvive
  <2> SUFFICES ASSUME SnapInv, SwapInv, faults <= (IF overlap THEN 0 ELSE 2),
                      tree.bundle = EmptyBundle, tree.old = EmptyBundle
               PROVE  Restoring({"extracted", "moved"}) # {}
    BY DEF FilesSurvive
  <2>1. faults \in Nat /\ tree.bundle \in Bundle
    BY SnapshotsAssumption DEF SnapInv, SnapTyping, SwapInv, TreeTyping
  <2>2. ~tree.bundle.project /\ ~tree.bundle.bak /\ ~tree.bundle.flat
    BY <2>1, BundleEmpty
  <2>3. \E j \in SnapJobs : sjob[j].pc = "moved"
    <3>1. CASE overlap
      BY <3>1, <2>1, <2>2 DEF SwapInv, NoFaultTree
    <3>2. CASE ~overlap
      <4>1. ~Reserve(faults)
        BY <2>1, <3>2 DEF Reserve
      <4>2. PICK j \in SnapJobs : sjob[j].pc \in {"moved", "promoted"}
        BY <4>1, <3>2 DEF SwapInv, OneSwapTree
      <4>3. sjob[j].pc # "promoted"
        BY <2>2, <3>2 DEF SwapInv, OneSwapTree
      <4>4. QED BY <4>2, <4>3
    <3>3. QED BY <3>1, <3>2
  <2>4. QED BY <2>3 DEF SnapInv, JobRows, JobRow, Restoring
<1>4. QED BY <1>1, <1>2, <1>3, SnapInvInit, SnapInvStep, PTL DEF SnapSpec

=============================================================================
