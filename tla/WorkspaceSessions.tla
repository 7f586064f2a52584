-------------------------- MODULE WorkspaceSessions --------------------------
(***************************************************************************)
(* Workspace sessions of one workspace: POST attach, GET access, the       *)
(* gateway's ForwardAuth check, and what a finished job does to them, with *)
(* the counter Workspace.active_sessions_count that the quota reads.       *)
(*                                                                         *)
(* Each request is a transaction that reads first and commits later        *)
(* (READ COMMITTED).  So is the end of a job: the sessions are made with   *)
(* autoflush=False, so the rows it reads are revoked in its memory, the    *)
(* route admin is called, and only record_audit flushes them.  From that   *)
(* flush to the commit the workspace row is locked, and the commits of     *)
(* attach and access, which write it, wait: flush and commit are one step. *)
(***************************************************************************)
EXTENDS Naturals, FiniteSets

CONSTANTS
    Tokens,       \* session rows, by token
    Attachers,    \* attach requests in flight at once
    MaxSessions,  \* quota.max_sessions
    MaxRuns       \* bound on the times the workspace comes up

ASSUME WorkspaceSessionsAssumption ==
    /\ IsFiniteSet(Tokens) /\ IsFiniteSet(Attachers)
    /\ {MaxSessions, MaxRuns} \subseteq Nat \ {0}

VARIABLES
    wsUp,      \* Workspace.status: RUNNING, BUSY (a job is queued or runs) or DOWN
    sess,      \* sess[t]: status of the row, NONE before it is committed
    expired,   \* expired[t]: expires_at has passed
    attach,    \* attach[a]: the attach request
    access,    \* the access request that met an expired session
    count,     \* Workspace.active_sessions_count
    job,       \* what the worker's session holds of the job under way
    run,       \* times the workspace has come up (history)
    born,      \* born[t]: the run in which the row was committed (history)
    slipped,   \* rows committed after a job had read the rows to revoke (history)
    raced      \* a transaction has committed while another was open (history)

sessVars == <<wsUp, sess, expired, attach, access, count, job, run, born, slipped, raced>>

\* cnt: the new count; loaded: the column as the request read it.
NoRequest == [pc |-> "idle", t |-> "none", cnt |-> 0, loaded |-> 0]

\* gone: the rows the job has read to revoke them.
NoJob == [pc |-> "none", loaded |-> 0, cnt |-> 0, gone |-> {}]

SessInit ==
    /\ wsUp = "RUNNING"
    /\ sess = [t \in Tokens |-> "NONE"] /\ expired = [t \in Tokens |-> FALSE]
    /\ attach = [a \in Attachers |-> NoRequest] /\ access = NoRequest
    /\ count = 0 /\ job = NoJob
    /\ run = 1 /\ born = [t \in Tokens |-> 0] /\ slipped = {} /\ raced = FALSE

-----------------------------------------------------------------------------
ActiveRows == {t \in Tokens : sess[t] = "ACTIVE"}

\* count_effective_active_sessions, for the rows that are committed
Effective == {t \in ActiveRows : ~expired[t]}

\* The ORM writes the column only when it differs from what was loaded.
CountAfter(loaded, cnt) == IF cnt = loaded THEN count ELSE cnt

Flushed == {a \in Attachers : attach[a].pc = "flushed"}
Open == {a \in Attachers : attach[a].pc # "idle"}

\* check_session_quota
UnderQuota == count < MaxSessions

AttachChecks(a) ==
    /\ attach[a] = NoRequest
    /\ wsUp = "RUNNING" /\ UnderQuota
    /\ attach' = [attach EXCEPT ![a].pc = "checked", ![a].loaded = count]
    /\ UNCHANGED <<wsUp, sess, expired, access, count, job, run, born, slipped, raced>>

\* Mutant of AttachFlushes: the rows are counted before the new one is flushed.
AttachFlushesAfter(a, t) ==
    /\ attach[a].pc = "checked"
    /\ sess[t] = "NONE" /\ \A b \in Flushed : attach[b].t # t
    /\ attach' = [attach EXCEPT ![a].pc = "flushed", ![a].t = t,
                                ![a].cnt = Cardinality(Effective)]
    /\ UNCHANGED <<wsUp, sess, expired, access, count, job, run, born, slipped, raced>>

\* create_workspace_session: the row is flushed, then counted with the others.
AttachFlushes(a, t) ==
    /\ attach[a].pc = "checked"
    /\ sess[t] = "NONE" /\ \A b \in Flushed : attach[b].t # t
    /\ attach' = [attach EXCEPT ![a].pc = "flushed", ![a].t = t,
                                ![a].cnt = Cardinality(Effective) + 1]
    /\ UNCHANGED <<wsUp, sess, expired, access, count, job, run, born, slipped, raced>>

AttachCommits(a) ==
    /\ attach[a].pc = "flushed"
    /\ sess' = [sess EXCEPT ![attach[a].t] = "ACTIVE"]
    /\ born' = [born EXCEPT ![attach[a].t] = run]
    /\ count' = CountAfter(attach[a].loaded, attach[a].cnt)
    /\ raced' = (raced \/ Open # {a} \/ access # NoRequest \/ wsUp = "BUSY")
    /\ slipped' = slipped \cup {t \in {attach[a].t} : job.pc = "revoked"}
    /\ attach' = [attach EXCEPT ![a] = NoRequest]
    /\ UNCHANGED <<wsUp, expired, access, job, run>>

TimePasses(t) ==
    /\ sess[t] = "ACTIVE" /\ ~expired[t]
    /\ expired' = [expired EXCEPT ![t] = TRUE]
    /\ UNCHANGED <<wsUp, sess, attach, access, count, job, run, born, slipped, raced>>

-----------------------------------------------------------------------------
Expirable(t) == sess[t] = "ACTIVE" /\ expired[t]

\* resolve_workspace_session_for_access with the token of an expired session.  With
\* that of a live one it only refreshes last_seen_at.
AccessExpires(t) ==
    /\ access = NoRequest /\ wsUp = "RUNNING" /\ Expirable(t)
    /\ access' = [pc |-> "expiring", t |-> t, loaded |-> count,
                  cnt |-> Cardinality(Effective \ {t})]
    /\ UNCHANGED <<wsUp, sess, expired, attach, count, job, run, born, slipped, raced>>

AccessCommits ==
    /\ access.pc = "expiring"
    /\ sess' = [sess EXCEPT ![access.t] = "EXPIRED"]
    /\ count' = CountAfter(access.loaded, access.cnt)
    /\ raced' = (raced \/ Open # {} \/ wsUp = "BUSY")
    /\ access' = NoRequest
    /\ UNCHANGED <<wsUp, expired, attach, job, run, born, slipped>>

-----------------------------------------------------------------------------
\* A STOP, DELETE, RESTART or UPDATE of a running workspace, a START of one that
\* is down; the worker loads the row.
JobBegins ==
    /\ wsUp # "BUSY"
    /\ wsUp' = "BUSY" /\ job' = [NoJob EXCEPT !.pc = "runs", !.loaded = count]
    /\ UNCHANGED <<sess, expired, attach, access, count, run, born, slipped, raced>>

\* reconcile_workspace_active_session_count, called when a row was found: the query
\* meets the rows as they are committed, those just revoked in memory included.
Recount(loaded) == IF ActiveRows # {} THEN Cardinality(Effective) ELSE loaded

\* revoke_all_workspace_sessions: nothing is flushed.  The worker's copy of the row
\* may have been refreshed since the job began.
JobRevokes ==
    /\ job.pc = "runs"
    /\ \E loaded \in {job.loaded, count} :
         job' = [pc |-> "revoked", loaded |-> loaded, cnt |-> Recount(loaded), gone |-> ActiveRows]
    /\ UNCHANGED <<wsUp, sess, expired, attach, access, count, run, born, slipped, raced>>

\* The flush of record_audit and the commit after it.
WriteRevoked ==
    /\ sess' = [t \in Tokens |-> IF t \in job.gone THEN "REVOKED" ELSE sess[t]]
    /\ count' = CountAfter(job.loaded, job.cnt)
    /\ raced' = (raced \/ Open # {} \/ access # NoRequest)
    /\ job' = NoJob

JobLeavesDown ==
    /\ job.pc = "revoked"
    /\ wsUp' = "DOWN" /\ WriteRevoked
    /\ UNCHANGED <<expired, attach, access, run, born, slipped>>

\* Mutant of JobLeavesRunning: a workspace that comes up keeps its sessions.
JobLeavesRunningKept ==
    /\ job.pc = "revoked" /\ run < MaxRuns
    /\ wsUp' = "RUNNING" /\ run' = run + 1
    /\ job' = NoJob /\ raced' = (raced \/ Open # {} \/ access # NoRequest)
    /\ UNCHANGED <<sess, count, expired, attach, access, born, slipped>>

JobLeavesRunning ==
    /\ job.pc = "revoked" /\ run < MaxRuns
    /\ wsUp' = "RUNNING" /\ run' = run + 1 /\ WriteRevoked
    /\ UNCHANGED <<expired, attach, access, born, slipped>>

\* The worker dies before the commit, and another one executes the job again.
JobRequeued ==
    /\ job.pc = "revoked"
    /\ job' = [NoJob EXCEPT !.pc = "runs", !.loaded = count]
    /\ UNCHANGED <<wsUp, sess, expired, attach, access, count, run, born, slipped, raced>>

\* A failed job revokes nothing.
JobFails ==
    /\ job.pc = "runs"
    /\ wsUp' = "DOWN" /\ job' = NoJob
    /\ UNCHANGED <<sess, expired, attach, access, count, run, born, slipped, raced>>

SessNext ==
    \/ \E a \in Attachers :
         \/ AttachChecks(a) \/ AttachCommits(a)
         \/ \E t \in Tokens : AttachFlushes(a, t)
    \/ \E t \in Tokens : TimePasses(t) \/ AccessExpires(t)
    \/ AccessCommits
    \/ JobBegins \/ JobRevokes \/ JobLeavesDown \/ JobLeavesRunning \/ JobRequeued \/ JobFails

SessSpec == SessInit /\ [][SessNext]_sessVars

-----------------------------------------------------------------------------
(* Properties *)

\* Rows and requests hold values of their kind, and a row is EXPIRED only when its
\* time has passed.
SessTypeOK ==
    /\ wsUp \in {"RUNNING", "BUSY", "DOWN"}
    /\ sess \in [Tokens -> {"NONE", "ACTIVE", "EXPIRED", "REVOKED"}]
    /\ count \in 0 .. Cardinality(Tokens) /\ run \in 1 .. MaxRuns
    /\ \A t \in Tokens : sess[t] = "EXPIRED" => expired[t]
    /\ \A a \in Flushed : sess[attach[a].t] = "NONE"

\* gateway_forward_auth lets a request with this token through.
GatewayAllows(t) == sess[t] = "ACTIVE" /\ ~expired[t] /\ wsUp = "RUNNING"

\* A token from before the workspace was last started, restarted or updated is
\* refused by the gateway, however attach requests and jobs overlapped, unless its
\* attach committed between the query of revoke_all_workspace_sessions and the
\* commit of that job; and even then the next start, restart or update ends it.
OldSessionsRefused ==
    \A t \in Tokens :
        GatewayAllows(t) => born[t] = run \/ (t \in slipped /\ born[t] + 1 = run)

\* As long as no two transactions overlapped, active_sessions_count is at least the
\* number of live sessions and at most the quota: attach, which compares the column
\* with max_sessions, admits no session above the quota
\* (reconcile_workspace_active_session_count).
CountBracketed ==
    ~raced => Cardinality(Effective) <= count /\ count <= MaxSessions

\* "Mark all ACTIVE sessions REVOKED (stop/delete/restart/update success paths)": a
\* job that succeeds leaves no session of before (revoke_all_workspace_sessions).
AllRevoked == \A t \in Tokens : GatewayAllows(t) => born[t] = run

\* "Set Workspace.active_sessions_count from non-expired ACTIVE session rows": at
\* least while no two transactions overlapped, the column counts only rows that are
\* ACTIVE (reconcile_workspace_active_session_count).
CountsActiveRows == ~raced => count <= Cardinality(ActiveRows)
=============================================================================
