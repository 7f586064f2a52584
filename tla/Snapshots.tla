------------------------------ MODULE Snapshots ------------------------------
(***************************************************************************)
(* Snapshots of one workspace: the rows, the archives in storage, the      *)
(* SNAPSHOT_CREATE and SNAPSHOT_RESTORE jobs, and the directories that a   *)
(* restore swaps on the host.                                              *)
(*                                                                         *)
(* API calls check first and write later, without locks.  Workers can die  *)
(* at any point.  A worker does all of a snapshot job in one transaction,  *)
(* so a death undoes the claim with the rest and leaves the job queued,    *)
(* with the attempts it had; the archive and the directories stay as they  *)
(* are.  A worker that is merely slow keeps the job's row locked.          *)
(***************************************************************************)
EXTENDS Naturals, FiniteSets

CONSTANTS
    Snaps,      \* snapshot ids
    SnapJobs,   \* rows for the jobs that are not over (a bound on those)
    MaxTries,   \* workspace_job_max_attempts
    MaxCalls,   \* bound on the API calls in flight
    MaxFaults   \* bound on worker deaths and failed renames

ASSUME SnapshotsAssumption ==
    /\ IsFiniteSet(Snaps) /\ IsFiniteSet(SnapJobs)
    /\ {MaxTries, MaxCalls, MaxFaults} \subseteq Nat

VARIABLES
    s3,        \* the storage provider is S3 (else the local file system)
    wst,       \* Workspace.status
    snap,      \* snap[s]: status of the WorkspaceSnapshot row
    blob,      \* blob[s]: the archive in storage: none, partial or full
    sjob,      \* sjob[j]: the job, its attempts so far, and where its worker is
    calls,     \* API calls whose checks have passed
    tree,      \* the workspace's directories on the host
    unlinked,  \* snapshots whose archive a delete call has removed (history)
    faults,    \* worker deaths and failed renames so far
    overlap    \* two restores have been under way at once (history)

snapVars == <<s3, wst, snap, blob, sjob, calls, tree, unlinked, faults, overlap>>

\* What lies under the bundle directory, as far as whole copies of the user's
\* files go: in project/, in project.bak/, or in the bundle itself (the layout
\* without project/).
EmptyBundle == [project |-> FALSE, bak |-> FALSE, flat |-> FALSE]

\* bundle: the bundle directory.  old: <bundle>.bak.
InitialTree == [bundle |-> [EmptyBundle EXCEPT !.project = TRUE], old |-> EmptyBundle]

NoJob == [kind |-> "none", s |-> "none", pc |-> "unused", tries |-> 0, dest |-> "none"]

Working == {"claimed", "export", "extracted", "moved", "promoted"}
Pending == {"queued"} \cup Working

SnapInit ==
    /\ s3 \in BOOLEAN
    /\ wst = "RUNNING"
    /\ snap = [s \in Snaps |-> "NONE"] /\ blob = [s \in Snaps |-> "none"]
    /\ sjob = [j \in SnapJobs |-> NoJob]
    /\ calls = {} /\ tree = InitialTree
    /\ unlinked = {} /\ faults = 0 /\ overlap = FALSE

-----------------------------------------------------------------------------
(* The API: create_snapshot, restore_snapshot, delete_snapshot *)

\* Storage: has_nonempty_archive, and delete_archive, which is best effort.
ArchiveThere(s) == blob[s] # "none"
ArchiveRemoved(s, removed) == blob' = IF removed THEN [blob EXCEPT ![s] = "none"] ELSE blob

\* _pending_snapshot_jobs
NonePending == \A j \in SnapJobs : sjob[j].pc \notin Pending

NonePendingFor(s) == \A j \in SnapJobs : sjob[j].s = s => sjob[j].pc \notin Pending

CallStarts(kind, s) ==
    /\ Cardinality(calls) < MaxCalls
    /\ <<kind, s>> \notin calls
    /\ calls' = calls \cup {<<kind, s>>}
    /\ UNCHANGED <<s3, wst, snap, blob, sjob, tree, unlinked, faults, overlap>>

CreateChecks(s) ==
    /\ snap[s] = "NONE"
    /\ wst \in {"RUNNING", "STOPPED"} /\ NonePending
    /\ CallStarts("create", s)

RestoreAllowed(s) ==
    /\ snap[s] = "AVAILABLE" /\ wst = "STOPPED" /\ NonePending
    /\ ArchiveThere(s)

RestoreChecks(s) == RestoreAllowed(s) /\ CallStarts("restore", s)

DeleteChecks(s) ==
    /\ snap[s] # "NONE" /\ NonePendingFor(s)
    /\ CallStarts("delete", s)

JobQueued(kind, s) ==
    \E j \in SnapJobs :
        /\ sjob[j] = NoJob
        /\ sjob' = [sjob EXCEPT ![j] = [NoJob EXCEPT !.kind = kind, !.s = s, !.pc = "queued"]]

CreateCommits(s) ==
    /\ <<"create", s>> \in calls
    /\ snap[s] = "NONE"
    /\ JobQueued("create", s)
    /\ snap' = [snap EXCEPT ![s] = "CREATING"]
    /\ calls' = calls \ {<<"create", s>>}
    /\ UNCHANGED <<s3, wst, blob, tree, unlinked, faults, overlap>>

\* The status is written over whatever the row has become.
RestoreCommits(s) ==
    /\ <<"restore", s>> \in calls
    /\ JobQueued("restore", s)
    /\ snap' = [snap EXCEPT ![s] = "RESTORING"]
    /\ calls' = calls \ {<<"restore", s>>}
    /\ UNCHANGED <<s3, wst, blob, tree, unlinked, faults, overlap>>

\* workspace_job.workspace_snapshot_id references the row, without an ON DELETE
\* clause, and the job that created the snapshot is never deleted.
Referenced(s) == snap[s] # "NONE"

\* delete_archive comes first; the DELETE of the row is refused
\* by the reference, and the call is rolled back.
DeleteCommits(s, removed) ==
    /\ <<"delete", s>> \in calls
    /\ ArchiveRemoved(s, removed)
    /\ unlinked' = IF removed THEN unlinked \cup {s} ELSE unlinked
    /\ snap' = IF Referenced(s) THEN snap ELSE [snap EXCEPT ![s] = "NONE"]
    /\ calls' = calls \ {<<"delete", s>>}
    /\ UNCHANGED <<s3, wst, sjob, tree, faults, overlap>>

\* STOP and START jobs, which take no notice of snapshot jobs.
WorkspaceTurns(st) ==
    /\ wst # st
    /\ wst' = st
    /\ UNCHANGED <<s3, snap, blob, sjob, calls, tree, unlinked, faults, overlap>>

-----------------------------------------------------------------------------
(* The worker *)

SnapClaim(j) ==
    /\ sjob[j].pc = "queued"
    /\ sjob' = [sjob EXCEPT ![j].pc = "claimed"]
    /\ UNCHANGED <<s3, wst, snap, blob, calls, tree, unlinked, faults, overlap>>

JobOver(j) == sjob' = [sjob EXCEPT ![j] = NoJob]

\* try_schedule_workspace_job_retry
MayRetry(j) == sjob[j].tries + 1 < MaxTries
Retried(j) == sjob' = [sjob EXCEPT ![j].pc = "queued", ![j].tries = @ + 1]

\* _fail_job_from_placement: another attempt, or the end, which puts the workspace
\* in ERROR and leaves the snapshot its status.
SnapNotPlaced(j) ==
    /\ sjob[j].pc = "claimed"
    /\ IF MayRetry(j) THEN Retried(j) /\ UNCHANGED wst ELSE JobOver(j) /\ wst' = "ERROR"
    /\ UNCHANGED <<s3, snap, blob, calls, tree, unlinked, faults, overlap>>

\* export_workspace_filesystem_snapshot writes the archive in place; the S3
\* provider gives it a staging file.
ExportOpens(s) == blob' = IF s3 THEN blob ELSE [blob EXCEPT ![s] = "partial"]

ExportStarts(j) ==
    /\ sjob[j].pc = "claimed" /\ sjob[j].kind = "create"
    /\ sjob' = [sjob EXCEPT ![j].pc = "export"]
    /\ ExportOpens(sjob[j].s)
    /\ UNCHANGED <<s3, wst, snap, calls, tree, unlinked, faults, overlap>>

\* The file is closed, or uploaded: from the staging file or by the node itself.
ArchiveStored(s) == blob' = [blob EXCEPT ![s] = "full"]

ExportSucceeds(j) ==
    /\ sjob[j].pc = "export"
    /\ ArchiveStored(sjob[j].s)
    /\ snap' = [snap EXCEPT ![sjob[j].s] = "AVAILABLE"]
    /\ JobOver(j)
    /\ UNCHANGED <<s3, wst, calls, tree, unlinked, faults, overlap>>

\* Mutant of StatusAfterFailedExport: the row is not marked.
StatusAfterFailedExportAvailable == "AVAILABLE"

StatusAfterFailedExport == "FAILED"

\* A failed result, or a failed upload, ends the job; the archive is removed,
\* best effort.
ExportFails(j, removed) ==
    LET s == sjob[j].s
    IN /\ sjob[j].pc = "export"
       /\ snap' = [snap EXCEPT ![s] = StatusAfterFailedExport]
       /\ ArchiveRemoved(s, removed)
       /\ JobOver(j)
       /\ UNCHANGED <<s3, wst, calls, tree, unlinked, faults, overlap>>

\* An orchestrator exception: another attempt, or FAILED for a snapshot that was
\* being created and AVAILABLE for one that was being restored.
SnapRaises(j) ==
    LET s == sjob[j].s
    IN /\ sjob[j].pc \in {"claimed", "export"}
       /\ IF MayRetry(j) THEN Retried(j) /\ UNCHANGED snap
          ELSE /\ JobOver(j)
               /\ snap' = [snap EXCEPT ![s] =
                             IF sjob[j].kind = "restore" THEN "AVAILABLE"
                             ELSE IF @ = "CREATING" THEN "FAILED" ELSE @]
       /\ UNCHANGED <<s3, wst, blob, calls, tree, unlinked, faults, overlap>>

-----------------------------------------------------------------------------
(* Restore: import_workspace_filesystem_snapshot *)

Restoring(pcs) == {j \in SnapJobs : sjob[j].kind = "restore" /\ sjob[j].pc \in pcs}

\* _workspace_project_path_for_snapshot: project/, or the bundle without one.
RestoreDest == IF tree.bundle.project THEN "project" ELSE "bundle"

\* The archive is fetched, found to be a tar file with safe members, and
\* extracted beside the destination.
RestoreExtracts(j) ==
    /\ j \in Restoring({"claimed"})
    /\ blob[sjob[j].s] = "full"
    /\ sjob' = [sjob EXCEPT ![j].pc = "extracted",
                            ![j].dest = RestoreDest]
    /\ overlap' = (overlap \/ Restoring(Working) # {j})
    /\ UNCHANGED <<s3, wst, snap, blob, calls, tree, unlinked, faults>>

\* Every way to fail before the swap, and after a swap that was rolled back: the
\* extracted files are removed and the snapshot is AVAILABLE again.
RestoreGivesUp(j) ==
    /\ snap' = [snap EXCEPT ![sjob[j].s] = "AVAILABLE"]
    /\ JobOver(j)

RestoreFails(j) ==
    /\ j \in Restoring({"claimed", "extracted"})
    /\ RestoreGivesUp(j)
    /\ UNCHANGED <<s3, wst, blob, calls, tree, unlinked, faults, overlap>>

\* Mutant of BackedUp: the destination is removed, not renamed.
BackedUpNot(t, dest) ==
    IF dest = "project"
    THEN [t EXCEPT !.bundle.bak = FALSE, !.bundle.project = FALSE]
    ELSE [t EXCEPT !.old = EmptyBundle, !.bundle = EmptyBundle]

\* An older backup is removed, and the destination renamed, if it is there.
BackedUp(t, dest) ==
    IF dest = "project"
    THEN [t EXCEPT !.bundle.bak = t.bundle.project, !.bundle.project = FALSE]
    ELSE [t EXCEPT !.old = t.bundle, !.bundle = EmptyBundle]

Occupied(t, dest) == IF dest = "project" THEN t.bundle.project ELSE t.bundle # EmptyBundle

PromotedTree(t, dest) ==
    IF dest = "project" THEN [t EXCEPT !.bundle.project = TRUE]
    ELSE [t EXCEPT !.bundle.flat = TRUE]

\* The backup is renamed back when the destination is not there.
RolledBack(t, dest) ==
    IF Occupied(t, dest) THEN t
    ELSE IF dest = "project" THEN [t EXCEPT !.bundle.project = t.bundle.bak, !.bundle.bak = FALSE]
    ELSE [t EXCEPT !.bundle = t.old, !.old = EmptyBundle]

WithoutBackup(t, dest) ==
    IF dest = "project" THEN [t EXCEPT !.bundle.bak = FALSE] ELSE [t EXCEPT !.old = EmptyBundle]

\* _safe_snapshot_tar_extract, step 3
SwapBackup(j) ==
    /\ sjob[j].pc = "extracted"
    /\ tree' = BackedUp(tree, sjob[j].dest)
    /\ sjob' = [sjob EXCEPT ![j].pc = "moved"]
    /\ UNCHANGED <<s3, wst, snap, blob, calls, unlinked, faults, overlap>>

SwapPromote(j) ==
    /\ sjob[j].pc = "moved" /\ ~Occupied(tree, sjob[j].dest)
    /\ tree' = PromotedTree(tree, sjob[j].dest)
    /\ sjob' = [sjob EXCEPT ![j].pc = "promoted"]
    /\ UNCHANGED <<s3, wst, snap, blob, calls, unlinked, faults, overlap>>

\* The rename fails because another restore has filled the destination, or for a
\* reason of its own.
SwapFails(j) ==
    /\ sjob[j].pc = "moved"
    /\ IF Occupied(tree, sjob[j].dest) THEN UNCHANGED faults
       ELSE faults < MaxFaults /\ faults' = faults + 1
    /\ tree' = RolledBack(tree, sjob[j].dest)
    /\ RestoreGivesUp(j)
    /\ UNCHANGED <<s3, wst, blob, calls, unlinked, overlap>>

RestoreSucceeds(j) ==
    /\ sjob[j].pc = "promoted"
    /\ tree' = WithoutBackup(tree, sjob[j].dest)
    /\ snap' = [snap EXCEPT ![sjob[j].s] = "AVAILABLE"]
    /\ JobOver(j)
    /\ UNCHANGED <<s3, wst, blob, calls, unlinked, faults, overlap>>

-----------------------------------------------------------------------------
(* Worker deaths: what was extracted stays beside the destination, unused *)

SnapWorkerDies(j) ==
    /\ sjob[j].pc \in Working
    /\ faults < MaxFaults
    /\ faults' = faults + 1
    /\ sjob' = [sjob EXCEPT ![j].pc = "queued", ![j].dest = "none"]
    /\ UNCHANGED <<s3, wst, snap, blob, calls, tree, unlinked, overlap>>

-----------------------------------------------------------------------------
ApiNext ==
    \E s \in Snaps :
        \/ CreateChecks(s) \/ RestoreChecks(s) \/ DeleteChecks(s)
        \/ CreateCommits(s) \/ RestoreCommits(s)
        \/ \E removed \in BOOLEAN : DeleteCommits(s, removed)

SnapWorkerNext(j) ==
    \/ SnapClaim(j) \/ SnapNotPlaced(j)
    \/ ExportStarts(j) \/ ExportSucceeds(j) \/ SnapRaises(j)
    \/ \E removed \in BOOLEAN : ExportFails(j, removed)
    \/ RestoreExtracts(j) \/ RestoreFails(j)
    \/ SwapBackup(j) \/ SwapPromote(j) \/ SwapFails(j) \/ RestoreSucceeds(j)
    \/ SnapWorkerDies(j)

SnapNext ==
    \/ ApiNext
    \/ \E j \in SnapJobs : SnapWorkerNext(j)
    \/ \E st \in {"RUNNING", "STOPPED"} : WorkspaceTurns(st)

SnapSpec == SnapInit /\ [][SnapNext]_snapVars

-----------------------------------------------------------------------------
(* Properties *)

\* Rows, archives and jobs hold values of their kind, and no row is in use
\* without the job that made it.
SnapTypeOK ==
    /\ snap \in [Snaps -> {"NONE", "CREATING", "AVAILABLE", "FAILED", "RESTORING"}]
    /\ blob \in [Snaps -> {"none", "partial", "full"}]
    /\ \A j \in SnapJobs : sjob[j] # NoJob => sjob[j].s \in Snaps /\ snap[sjob[j].s] # "NONE"
    /\ calls \subseteq {"create", "restore", "delete"} \X Snaps
    /\ faults \in 0 .. MaxFaults

\* A snapshot offered for download or restore has its whole archive, whatever
\* exports, deaths, retries and calls came before; only a delete call takes it
\* away (_execute_snapshot_create_job, restore_snapshot).
AvailableHasArchive ==
    \A s \in Snaps :
        snap[s] \in {"AVAILABLE", "RESTORING"} /\ s \notin unlinked => blob[s] = "full"

\* The user's files survive two deaths or failed renames in the middle of swaps, or
\* else two restores at once: a whole copy is in a directory, or with a worker that
\* is about to put it in place (_safe_snapshot_tar_extract).
FilesSurvive ==
    faults <= (IF overlap THEN 0 ELSE 2) =>
        \/ tree.bundle # EmptyBundle \/ tree.old # EmptyBundle
        \/ Restoring({"extracted", "moved"}) # {}
=============================================================================
