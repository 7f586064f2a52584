----------------------------- MODULE EventStream -----------------------------
(***************************************************************************)
(* Control-plane events of one workspace and one client's SSE stream of    *)
(* them: transactions that insert rows of WorkspaceEvent, the in-process   *)
(* event bus, and the generator of stream_workspace_events.                *)
(*                                                                         *)
(* A row gets its id, and the bus is notified, when the row is flushed;    *)
(* the row can be read when its transaction commits, perhaps after rows    *)
(* with higher ids.                                                        *)
(***************************************************************************)
EXTENDS Naturals, Sequences, FiniteSets, SequencesExt

CONSTANTS
    Writers,    \* transactions that write events, at once
    MaxEvents,  \* bound on the events
    PageLimit,  \* EVENT_PAGE_LIMIT
    MaxDrops    \* bound on the connections lost

ASSUME EventStreamAssumption ==
    /\ IsFiniteSet(Writers)
    /\ {MaxEvents, PageLimit, MaxDrops} \subseteq Nat /\ PageLimit > 0

VARIABLES
    lastId,     \* the id sequence
    flushed,    \* flushed[w]: ids of the open transaction of w
    rows,       \* committed ids
    bell,       \* the asyncio.Event of the connection
    stream,     \* where the generator is: off, wait, fetch or send
    cursor,     \* last_id
    page,       \* rows fetched and not yet sent
    shown,      \* ids the client has received, in order
    drops,      \* connections lost
    overtaken   \* ids committed when a higher one had been fetched (history)

eventVars == <<lastId, flushed, rows, bell, stream, cursor, page, shown, drops, overtaken>>

EventInit ==
    /\ lastId = 0 /\ flushed = [w \in Writers |-> {}] /\ rows = {}
    /\ bell = FALSE /\ stream = "off" /\ cursor = 0 /\ page = <<>>
    /\ shown = <<>> /\ drops = 0 /\ overtaken = {}

-----------------------------------------------------------------------------
(* The writers *)

\* notify_workspace_event: the listener is told if it lives in the writer's process.
Rung(sameProcess) == bell \/ (sameProcess /\ stream # "off")

\* record_workspace_event: the row is flushed, and the listener told before the commit.
EventFlushed(w, sameProcess) ==
    /\ lastId < MaxEvents
    /\ lastId' = lastId + 1
    /\ flushed' = [flushed EXCEPT ![w] = @ \cup {lastId + 1}]
    /\ bell' = Rung(sameProcess)
    /\ UNCHANGED <<rows, stream, cursor, page, shown, drops, overtaken>>

\* The highest id the connection has fetched.
Fetched == IF page = <<>> THEN cursor ELSE Last(page)

EventsCommitted(w) ==
    /\ flushed[w] # {}
    /\ rows' = rows \cup flushed[w]
    /\ overtaken' = overtaken \cup {i \in flushed[w] : i < Fetched}
    /\ flushed' = [flushed EXCEPT ![w] = {}]
    /\ UNCHANGED <<lastId, bell, stream, cursor, page, shown, drops>>

EventsRolledBack(w) ==
    /\ flushed[w] # {}
    /\ flushed' = [flushed EXCEPT ![w] = {}]
    /\ UNCHANGED <<lastId, rows, bell, stream, cursor, page, shown, drops, overtaken>>

-----------------------------------------------------------------------------
(* The stream *)

\* The client resumes from the last id it has received.
ClientCursor == IF shown = <<>> THEN 0 ELSE Last(shown)

Connect ==
    /\ stream = "off"
    /\ stream' = "wait" /\ bell' = FALSE
    /\ cursor' = ClientCursor
    /\ UNCHANGED <<lastId, flushed, rows, page, shown, drops, overtaken>>

\* Mutant of WakesUp: there is no poll besides the notification.
WakesUpNotified == stream = "wait" /\ bell

\* wait_for: the notification, or the poll interval.
WakesUp == stream = "wait"

Wake ==
    /\ WakesUp
    /\ stream' = "fetch" /\ bell' = FALSE
    /\ UNCHANGED <<lastId, flushed, rows, cursor, page, shown, drops, overtaken>>

Above(id) == {i \in rows : i > id}

\* What ORDER BY id makes of the fetched rows.
Ascending(s) == \A i, j \in DOMAIN s : i < j => s[i] < s[j]

\* Mutant of Pages: the newest rows come first.
PagesNewest(id) ==
    {s \in SeqOf(Above(id), PageLimit) :
        /\ Ascending(s)
        /\ \A i \in Above(id) \ ToSet(s) : Len(s) = PageLimit /\ \A j \in ToSet(s) : i < j}

\* list_workspace_events: the first rows above the cursor by id, as many as the limit
\* allows.  There is one such sequence.
Pages(id) ==
    {s \in SeqOf(Above(id), PageLimit) :
        /\ Ascending(s)
        /\ \A i \in Above(id) \ ToSet(s) : Len(s) = PageLimit /\ \A j \in ToSet(s) : j < i}

Fetch ==
    /\ stream = "fetch"
    /\ page' \in Pages(cursor)
    /\ stream' = "send"
    /\ UNCHANGED <<lastId, flushed, rows, bell, cursor, shown, drops, overtaken>>

CursorAfter(id) == IF id > cursor THEN id ELSE cursor

Send ==
    /\ stream = "send"
    /\ IF page = <<>>
       THEN stream' = "wait" /\ UNCHANGED <<cursor, page, shown>>
       ELSE /\ cursor' = CursorAfter(Head(page))
            /\ shown' = Append(shown, Head(page))
            /\ page' = Tail(page)
            /\ UNCHANGED stream
    /\ UNCHANGED <<lastId, flushed, rows, bell, drops, overtaken>>

\* The client goes away; what was fetched and not sent is lost with the generator.
Disconnect ==
    /\ stream # "off" /\ drops < MaxDrops
    /\ drops' = drops + 1
    /\ stream' = "off" /\ page' = <<>>
    /\ UNCHANGED <<lastId, flushed, rows, bell, cursor, shown, overtaken>>

-----------------------------------------------------------------------------
StreamServes == Connect \/ Wake \/ Fetch \/ Send

StreamNext == StreamServes \/ Disconnect

EventNext ==
    \/ \E w \in Writers :
         \/ \E sameProcess \in BOOLEAN : EventFlushed(w, sameProcess)
         \/ EventsCommitted(w) \/ EventsRolledBack(w)
    \/ StreamNext

\* The event loop runs its tasks, the poll interval ends, the client reconnects;
\* only one of these is possible at a time.
EventFairness == WF_eventVars(StreamServes)

EventSpec == EventInit /\ [][EventNext]_eventVars

EventFairSpec == EventSpec /\ EventFairness

-----------------------------------------------------------------------------
(* Properties *)

\* Over all connections, and however they end, the client sees every event once and
\* in the order of the ids, and misses an event below its cursor only when that
\* event was committed after a higher one had been fetched (stream_workspace_events).
ShownInOrder ==
    /\ Ascending(shown)
    /\ \A i \in rows : i < ClientCursor => i \in ToSet(shown) \cup overtaken

\* An event that was not overtaken reaches the client, although the notification
\* comes before the commit and may come in another process (the poll interval).
EventDelivered ==
    \A i \in 1 .. MaxEvents : i \in rows \ overtaken ~> i \in ToSet(shown)
=============================================================================
