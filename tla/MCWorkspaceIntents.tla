------------------------- MODULE MCWorkspaceIntents -------------------------
(* Instances of WorkspaceIntents, and with it of WorkspaceJobs, for TLC. *)
EXTENDS WorkspaceIntents, TLC

CONSTANTS w1, h1, h2, k1, k2, r1

OneWorkspace == {w1}
TwoHandlers == {h1, h2}
OneWorker == {k1}
TwoWorkers == {k1, k2}
OneReclaimer == {r1}

\* Operations that start, stop and remove a workspace, and jobs that are no
\* operation, one of which is accepted while the workspace is busy.
EveryKind == {"CREATE", "STOP", "DELETE", "RECONCILE_RUNTIME", "REPO_IMPORT"}

\* An import may hold the queue up for ever, so a snapshot stands in for it where
\* something must end.
CoreTypes == {"CREATE", "STOP", "DELETE", "RECONCILE_RUNTIME", "SNAPSHOT_CREATE"}

Symmetric == Permutations({h1, h2}) \cup Permutations({k1, k2})
=============================================================================
