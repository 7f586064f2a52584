----------------------------- MODULE RepoImport -----------------------------
(***************************************************************************)
(* The repository of one workspace: the rows of WorkspaceRepository, the   *)
(* API calls that add and remove them, the REPO_IMPORT jobs that clone,    *)
(* and the directories in the container that are cloned into.  A directory *)
(* under the project mount, /home/coder/project, outlives the container;   *)
(* one elsewhere, the default /workspace/project included, does not.       *)
(*                                                                         *)
(* A worker does all of a job in one transaction.  It selects a row and    *)
(* then updates it to "cloning", which waits for another worker's update,  *)
(* holds the row until the job ends, and is not seen by anyone else.  When *)
(* the worker dies or the job raises, the claim is undone with the rest:   *)
(* the job is queued as if it had never been taken.                        *)
(***************************************************************************)
EXTENDS Naturals, FiniteSets, FiniteSetsExt

CONSTANTS
    Dirs,          \* values of clone_dir
    ImportJobs,    \* rows for the jobs that are not over (a bound on those)
    MaxRepos,      \* bound on the repositories added
    MaxImports,    \* bound on the import calls in flight
    MaxImportTries \* workspace_job_max_attempts

ASSUME RepoImportAssumption ==
    /\ IsFiniteSet(Dirs) /\ IsFiniteSet(ImportJobs)
    /\ {MaxRepos, MaxImports, MaxImportTries} \subseteq Nat

VARIABLES
    repo,     \* repo[i]: clone_status of row i, NONE before, GONE after
    where,    \* where[i]: clone_dir of row i
    imports,  \* import calls that have found no row, by directory
    rjob,     \* rjob[j]: the job, its attempts so far, and where its worker is
    disk,     \* disk[d]: whose files the directory holds, and whether all of them
    mounted,  \* the directories that lie under the project mount, fixed at first
    refused,  \* rows whose clone has failed (history)
    swept,    \* rows whose files went with their container (history)
    lost      \* jobs that ended without a pending row of theirs (history)

repoVars == <<repo, where, imports, rjob, disk, mounted, refused, swept, lost>>

RepoIds == 1 .. MaxRepos

NoImport == [pc |-> "unused", row |-> 0, tries |-> 0]
EmptyDir == [of |-> 0, whole |-> FALSE]

RepoInit ==
    /\ repo = [i \in RepoIds |-> "NONE"]
    /\ where = [i \in RepoIds |-> "none"]
    /\ imports = [d \in Dirs |-> 0]
    /\ rjob = [j \in ImportJobs |-> NoImport]
    /\ disk = [d \in Dirs |-> EmptyDir]
    /\ mounted \in SUBSET Dirs
    /\ refused = {} /\ swept = {} /\ lost = 0

Live == {i \in RepoIds : repo[i] \notin {"NONE", "GONE"}}
PendingRepos == {i \in RepoIds : repo[i] = "pending"}
Locked(i) == \E j \in ImportJobs : rjob[j].pc \in {"cloning", "cut", "done"} /\ rjob[j].row = i
FilesOf(i) == [of |-> i, whole |-> TRUE]

-----------------------------------------------------------------------------
(* The API *)

ImportChecks(d) ==
    /\ Live = {}
    /\ MapThenSumSet(LAMBDA e : imports[e], Dirs) < MaxImports
    /\ imports' = [imports EXCEPT ![d] = @ + 1]
    /\ UNCHANGED <<repo, where, rjob, disk, refused, swept, lost, mounted>>

\* _enqueue_repo_import_job
ImportQueued(j) == rjob[j] = NoImport /\ rjob' = [rjob EXCEPT ![j].pc = "queued"]

\* The row and its job are committed together.
ImportCommits(d) ==
    /\ imports[d] > 0
    /\ \E i \in RepoIds, j \in ImportJobs :
         /\ repo[i] = "NONE" /\ \A k \in 1 .. i - 1 : repo[k] # "NONE"
         /\ ImportQueued(j)
         /\ repo' = [repo EXCEPT ![i] = "pending"]
         /\ where' = [where EXCEPT ![i] = d]
    /\ imports' = [imports EXCEPT ![d] = @ - 1]
    /\ UNCHANGED <<disk, refused, swept, lost, mounted>>

\* delete_repo removes one of the rows, whatever its status; it waits for a worker
\* that holds it.  The files stay.
RepoDeleted(i) ==
    /\ i \in Live /\ ~Locked(i)
    /\ repo' = [repo EXCEPT ![i] = "GONE"]
    /\ where' = [where EXCEPT ![i] = "none"]
    /\ refused' = refused \ {i} /\ swept' = swept \ {i}
    /\ UNCHANGED <<imports, rjob, disk, lost, mounted>>

-----------------------------------------------------------------------------
(* The worker *)

\* run_pending_jobs: the transaction is undone, and the job is queued with the
\* attempts it had.
Undone(j) == rjob' = [rjob EXCEPT ![j].pc = "queued", ![j].row = 0]

ImportClaimed(j) ==
    /\ rjob[j].pc = "queued"
    /\ rjob' = [rjob EXCEPT ![j].pc = "claimed"]
    /\ UNCHANGED <<repo, where, imports, disk, refused, swept, lost, mounted>>

ImportOver(j) == rjob' = [rjob EXCEPT ![j] = NoImport]

\* A job without a placement: another attempt, or the end, with the row as it was.
ImportNotPlaced(j) ==
    /\ rjob[j].pc = "claimed"
    /\ IF rjob[j].tries + 1 < MaxImportTries
       THEN rjob' = [rjob EXCEPT ![j].pc = "queued", ![j].tries = @ + 1] /\ UNCHANGED lost
       ELSE ImportOver(j) /\ lost' = lost + 1
    /\ UNCHANGED <<repo, where, imports, disk, refused, swept, mounted>>

\* The newest row that is pending.
Selected == Max(PendingRepos)

\* Without one the job is to be marked FAILED, at a stage, FailureStage.ORCHESTRATION,
\* that the enumeration does not have: the lookup raises.
ImportSelects(j) ==
    /\ rjob[j].pc = "claimed"
    /\ IF PendingRepos = {} THEN Undone(j)
       ELSE rjob' = [rjob EXCEPT ![j].pc = "selected", ![j].row = Selected]
    /\ UNCHANGED <<repo, where, imports, disk, refused, swept, lost, mounted>>

\* The update of a row that is gone raises.
ImportLocks(j) ==
    /\ rjob[j].pc = "selected" /\ ~Locked(rjob[j].row)
    /\ IF repo[rjob[j].row] = "GONE" THEN Undone(j) ELSE rjob' = [rjob EXCEPT ![j].pc = "cloning"]
    /\ UNCHANGED <<repo, where, imports, disk, refused, swept, lost, mounted>>

\* Mutant of Cloneable: git clone is pointed at a directory in use.
CloneableAny(d) == TRUE

\* git refuses a directory that is not empty.
Cloneable(d) == disk[d] = EmptyDir

\* run_git_in_container
GitLeaves(d, left) == disk' = [disk EXCEPT ![d] = left]

CloneSucceeds(j) ==
    LET i == rjob[j].row
    IN /\ rjob[j].pc = "cloning" /\ Cloneable(where[i])
       /\ GitLeaves(where[i], FilesOf(i))
       /\ rjob' = [rjob EXCEPT ![j].pc = "done"]
       /\ UNCHANGED <<repo, where, imports, refused, swept, lost, mounted>>

\* The row may be one that another worker has cloned before.
CloneCommits(j) ==
    LET i == rjob[j].row
    IN /\ rjob[j].pc = "done"
       /\ repo' = [repo EXCEPT ![i] = "cloned"]
       /\ ImportOver(j)
       /\ lost' = IF repo[i] = "pending" THEN lost ELSE lost + 1
       /\ UNCHANGED <<where, imports, disk, refused, swept, mounted>>

\* What is in the directory after a clone that failed or was not waited for; git in a
\* container that is gone leaves something only under the mount.
Abandoned(j) ==
    LET i == rjob[j].row
        d == where[i]
    IN IF rjob[j].pc \in {"cloning", "cut"} /\ disk[d] = EmptyDir /\ (rjob[j].pc = "cut" => d \in mounted)
       THEN \E left \in {EmptyDir} \cup [of : {i}, whole : BOOLEAN] : GitLeaves(d, left)
       ELSE UNCHANGED disk

\* Mutant of CloneFails: the job is marked FAILED and committed, the row is not.
CloneFailsUnmarked(j) ==
    /\ rjob[j].pc = "cloning"
    /\ ImportOver(j)
    /\ UNCHANGED <<repo, where, imports, disk, refused, swept, lost, mounted>>

\* No container, a git error or an exec error.  The row is set to "failed", and the
\* job is to be marked FAILED, again at the stage that does not exist: both are undone.
CloneFails(j) ==
    /\ rjob[j].pc \in {"cloning", "cut"}
    /\ Abandoned(j)
    /\ Undone(j)
    /\ refused' = refused \cup {rjob[j].row}
    /\ UNCHANGED <<repo, where, imports, swept, lost, mounted>>

\* git may go on in the container without the worker; what it will have left is
\* chosen here.
ImporterDies(j) ==
    /\ rjob[j].pc \in {"claimed", "selected", "cloning", "cut", "done"}
    /\ Abandoned(j)
    /\ Undone(j)
    /\ UNCHANGED <<repo, where, imports, refused, swept, lost, mounted>>

\* What a new container finds in the directory (the project bind mount).
Remains(d) == IF d \in mounted THEN disk[d] ELSE EmptyDir

\* A lifecycle job, or an engine that lost it, has the container made anew: git in the
\* old one is cut off, and what lay outside the mount is gone.
ContainerReplaced ==
    /\ disk' = [d \in Dirs |-> Remains(d)]
    /\ rjob' = [j \in ImportJobs |-> IF rjob[j].pc = "cloning" THEN [rjob[j] EXCEPT !.pc = "cut"] ELSE rjob[j]]
    /\ swept' = swept \cup {i \in RepoIds : where[i] \in Dirs \ mounted /\ disk[where[i]] = FilesOf(i)}
    /\ UNCHANGED <<repo, where, imports, refused, lost, mounted>>

-----------------------------------------------------------------------------
RepoNext ==
    \/ \E d \in Dirs : ImportChecks(d) \/ ImportCommits(d)
    \/ \E i \in RepoIds : RepoDeleted(i)
    \/ \E j \in ImportJobs :
         \/ ImportClaimed(j) \/ ImportNotPlaced(j) \/ ImportSelects(j) \/ ImportLocks(j)
         \/ CloneSucceeds(j) \/ CloneCommits(j) \/ CloneFails(j) \/ ImporterDies(j)
    \/ ContainerReplaced

RepoSpec == RepoInit /\ [][RepoNext]_repoVars

-----------------------------------------------------------------------------
(* Properties *)

\* Rows, jobs and directories hold values of their kind, and the row that a worker
\* is cloning exists.
RepoTypeOK ==
    /\ repo \in [RepoIds -> {"NONE", "pending", "cloned", "GONE"}]
    /\ \A i \in Live : where[i] \in Dirs
    /\ \A d \in Dirs : disk[d] \in [of : 0 .. MaxRepos, whole : BOOLEAN]
    /\ \A j \in ImportJobs : rjob[j].pc \in {"cloning", "cut", "done"} => repo[rjob[j].row] \notin {"NONE", "GONE"}

\* A row that says "cloned", which is what pull and push ask for, stands for a
\* directory that holds all of this repository and nothing of another, after any
\* deletes, second imports, worker deaths, retries and new containers; the one
\* exception are files outside the project mount that went with their container.
ClonedHasFiles ==
    \A i \in RepoIds \ swept : repo[i] = "cloned" => disk[where[i]] = FilesOf(i)

\* Every pending row has a job still to come, although a job takes the newest row
\* and not its own, and jobs and rows are lost to deletes, deaths and failures,
\* except for as many rows as jobs were given up for want of a placement, or cloned a
\* row again that another job had cloned in a container that is gone.
PendingHasJob ==
    Cardinality(PendingRepos)
        <= Cardinality({j \in ImportJobs : rjob[j] # NoImport}) + lost

\* What _execute_repo_import_job says of itself: it updates the row's clone_status
\* on success or failure.  A row whose clone has failed does not stay pending.
FailureRecorded == \A i \in refused : repo[i] # "pending"
=============================================================================
