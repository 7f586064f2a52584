-------------------------- MODULE WorkspaceStatus --------------------------
(***************************************************************************)
(* The vocabulary of the workspace control plane: the values of            *)
(* Workspace.status, the job types that change it, the statuses an intent  *)
(* is accepted from, and the statuses a job ends in.                       *)
(***************************************************************************)

LifecycleTypes == {"CREATE", "START", "STOP", "RESTART", "UPDATE", "DELETE"}

\* Work on the files of a workspace: such a job is queued beside the operations of
\* the workspace and does not make it busy.
SnapshotTypes == {"SNAPSHOT_CREATE", "SNAPSHOT_RESTORE"}

SideTypes == SnapshotTypes \cup {"REPO_IMPORT"}

Types == LifecycleTypes \cup {"RECONCILE_RUNTIME"} \cup SideTypes

Busy == {"PENDING", "CREATING", "STARTING", "STOPPING",
         "RESTARTING", "UPDATING", "DELETING"}

Settled == {"RUNNING", "STOPPED", "ERROR", "DELETED"}

\* "ABSENT": no workspace row yet.
Statuses == Busy \cup Settled \cup {"ABSENT"}

\* The transitional status an accepted intent of type t puts the row in.
IntentStatus(t) ==
    CASE t = "CREATE"  -> "PENDING"
      [] t = "START"   -> "STARTING"
      [] t = "STOP"    -> "STOPPING"
      [] t = "RESTART" -> "RESTARTING"
      [] t = "UPDATE"  -> "UPDATING"
      [] t = "DELETE"  -> "DELETING"

\* The statuses from which a request of type t is accepted.  Only an import is
\* accepted while the workspace is busy.
IntentFrom(t) ==
    CASE t = "CREATE"  -> {"ABSENT"}
      [] t = "START"   -> {"STOPPED", "ERROR"}
      [] t = "STOP"    -> {"RUNNING"}
      [] t = "RESTART" -> {"RUNNING", "STOPPED"}
      [] t = "UPDATE"  -> {"RUNNING", "STOPPED", "ERROR"}
      [] t = "DELETE"  -> {"RUNNING", "STOPPED", "ERROR", "DELETED"}
      [] t = "RECONCILE_RUNTIME" -> Settled
      [] t = "SNAPSHOT_CREATE"   -> {"RUNNING", "STOPPED"}
      [] t = "SNAPSHOT_RESTORE"  -> {"STOPPED"}
      [] t = "REPO_IMPORT"       -> Busy \cup Settled

\* Job types that may wait for capacity or for a bootstrapping node.
NodeWaitTypes == {"CREATE", "START", "RESTART", "UPDATE"}

\* Statuses in which a successful job of type t leaves a row it saw in status v.
SuccessStatus(t, v) ==
    CASE t \in {"CREATE", "START", "RESTART"} -> {"RUNNING"}
      [] t = "STOP"   -> {"STOPPED"}
      [] t = "UPDATE" -> {"RUNNING", "STOPPED"}
      [] t = "DELETE" -> {"DELETED"}
      [] t = "RECONCILE_RUNTIME" -> {v} \cap Settled
      [] t \in SideTypes -> {v}
=============================================================================
