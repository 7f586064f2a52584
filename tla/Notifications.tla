---------------------------- MODULE Notifications ----------------------------
(***************************************************************************)
(* One notification for one user: the worker or an internal call creates   *)
(* it and delivers it channel by channel, an operator retries deliveries   *)
(* that failed, and meanwhile the user reads or dismisses it.  Preferences *)
(* and push subscriptions may be anything at the time they are looked at.  *)
(*                                                                         *)
(* Every repository function commits, so each is a step of its own.  The   *)
(* sessions keep what they have loaded (expire_on_commit is off): the      *)
(* recipient row is looked at as it was when the sender first had it,      *)
(* while delivery rows, which nobody holds on to, are read afresh.         *)
(***************************************************************************)
EXTENDS Naturals, FiniteSets

CONSTANT Retriers   \* retry calls in flight at once

ASSUME NotificationsAssumption == IsFiniteSet(Retriers) /\ "creator" \notin Retriers

VARIABLES
    notice,     \* Notification.status, "NONE" before the row exists
    recipient,  \* NotificationRecipient.status, "NONE" before the row exists
    delivery,   \* delivery[h]: NotificationDelivery.status of channel h
    sender,     \* sender[s]: a session that delivers
    sent,       \* sent[h]: times channel h has taken the message, 2 for more (history)
    doubled,    \* channels with two retries at once (history)
    unheard     \* channels that took a message and reported an error (history)

noteVars == <<notice, recipient, delivery, sender, sent, doubled, unheard>>

Channels == {"IN_APP", "EMAIL", "PUSH"}
Senders == {"creator"} \cup Retriers

\* The order of dispatch_for_recipient.
After(h) == CASE h = "IN_APP" -> "EMAIL" [] h = "EMAIL" -> "PUSH" [] h = "PUSH" -> "none"

\* rec: the recipient's status as loaded; on: the channels enabled at dispatch;
\* new: what is to be committed next.
NoSender == [pc |-> "idle", h |-> "none", rec |-> "NONE", on |-> {}, new |-> "none"]

NoteInit ==
    /\ notice = "NONE" /\ recipient = "NONE"
    /\ delivery = [h \in Channels |-> "NONE"]
    /\ sender = [s \in Senders |-> NoSender]
    /\ sent = [h \in Channels |-> 0] /\ doubled = {} /\ unheard = {}

-----------------------------------------------------------------------------
CreateNotification ==
    /\ notice = "NONE"
    /\ notice' = "PENDING"
    /\ sender' = [sender EXCEPT !["creator"].pc = "recipient"]
    /\ UNCHANGED <<recipient, delivery, sent, doubled, unheard>>

\* resolve_enabled_channels follows, once for all channels, with the preference the
\* user has set by then (put_preferences).
CreateRecipient ==
    /\ sender["creator"].pc = "recipient"
    /\ recipient' = "PENDING"
    /\ \E on \in SUBSET Channels :
          sender' = [sender EXCEPT !["creator"] = [NoSender EXCEPT !.pc = "channel", !.h = "IN_APP",
                                                                  !.rec = "PENDING", !.on = on]]
    /\ UNCHANGED <<notice, delivery, sent, doubled, unheard>>

\* try_deliver is over: the creator goes on to its next channel, a retry ends.
Onwards(s, rec) ==
    IF s # "creator" THEN NoSender
    ELSE IF After(sender[s].h) = "none" THEN [NoSender EXCEPT !.pc = "refresh"]
    ELSE [sender[s] EXCEPT !.pc = "channel", !.h = After(@), !.rec = rec, !.new = "none"]

CreateDelivery ==
    LET s == sender["creator"]
        skip == s.h \notin s.on
    IN /\ s.pc = "channel"
       /\ delivery' = [delivery EXCEPT ![s.h] = IF skip THEN "SKIPPED" ELSE "QUEUED"]
       /\ sender' = [sender EXCEPT !["creator"] = IF skip THEN Onwards("creator", s.rec)
                                                  ELSE [s EXCEPT !.pc = "send"]]
       /\ UNCHANGED <<notice, recipient, sent, doubled, unheard>>

\* What a channel may answer: the in-app channel is the row itself; push fails while
\* the user has no subscription (register and revoke); mail may fail or raise, also
\* after the server has accepted the message (the reply to DATA or to QUIT is lost).
Answers(h) ==
    CASE h = "IN_APP" -> {"taken"}
      [] h = "EMAIL" -> {"taken", "refused", "unheard"}
      [] h = "PUSH" -> {"taken", "refused"}

\* try_deliver up to the answer of the channel (attempt_count is committed before).
Send(s) ==
    /\ sender[s].pc = "send"
    /\ \E answer \in Answers(sender[s].h) :
          /\ sent' = [sent EXCEPT ![sender[s].h] = IF answer # "refused" /\ @ < 2 THEN @ + 1 ELSE @]
          /\ unheard' = IF answer = "unheard" THEN unheard \cup {sender[s].h} ELSE unheard
          /\ sender' = [sender EXCEPT ![s].pc = "record",
                                      ![s].new = IF answer = "taken" THEN "DELIVERED" ELSE "FAILED"]
    /\ UNCHANGED <<notice, recipient, delivery, doubled>>

Record(s) ==
    /\ sender[s].pc = "record"
    /\ delivery' = [delivery EXCEPT ![sender[s].h] = sender[s].new]
    /\ sender' = [sender EXCEPT ![s] =
                    IF @.new = "DELIVERED" /\ @.rec = "PENDING" THEN [@ EXCEPT !.pc = "promote"]
                    ELSE Onwards(s, @.rec)]
    /\ UNCHANGED <<notice, recipient, sent, doubled, unheard>>

\* The status is written over what the user has made of it since.
Promote(s) ==
    /\ sender[s].pc = "promote"
    /\ recipient' = "DELIVERED"
    /\ sender' = [sender EXCEPT ![s] = Onwards(s, "DELIVERED")]
    /\ UNCHANGED <<notice, delivery, sent, doubled, unheard>>

DeriveStatus(statuses) ==
    CASE "QUEUED" \in statuses -> "PENDING"
      [] "FAILED" \in statuses /\ "DELIVERED" \in statuses -> "PARTIALLY_SENT"
      [] "FAILED" \in statuses /\ "DELIVERED" \notin statuses -> "FAILED"
      [] OTHER -> "SENT"

\* refresh_notification_status reads all deliveries, and only the creator calls it.
RefreshReads ==
    /\ sender["creator"].pc = "refresh"
    /\ sender' = [sender EXCEPT !["creator"].pc = "status",
                                !["creator"].new = DeriveStatus({delivery[h] : h \in Channels})]
    /\ UNCHANGED <<notice, recipient, delivery, sent, doubled, unheard>>

RefreshCommits ==
    /\ sender["creator"].pc = "status"
    /\ notice' = sender["creator"].new
    /\ sender' = [sender EXCEPT !["creator"] = NoSender]
    /\ UNCHANGED <<recipient, delivery, sent, doubled, unheard>>

-----------------------------------------------------------------------------
\* Mutant of MayRetryDelivery: one that seems stuck is retried as well.
MayRetryDeliveryStuck(h) == delivery[h] \in {"FAILED", "QUEUED"}

MayRetryDelivery(h) == delivery[h] = "FAILED"

\* retry_delivery checks the status and commits QUEUED later, over whatever it is.
RetryBegins(r, h) ==
    /\ sender[r] = NoSender /\ MayRetryDelivery(h)
    /\ sender' = [sender EXCEPT ![r] = [NoSender EXCEPT !.pc = "requeue", !.h = h]]
    /\ doubled' = IF \E x \in Retriers : sender[x].h = h THEN doubled \cup {h} ELSE doubled
    /\ UNCHANGED <<notice, recipient, delivery, sent, unheard>>

Requeue(r) ==
    /\ sender[r].pc = "requeue"
    /\ delivery' = [delivery EXCEPT ![sender[r].h] = "QUEUED"]
    /\ sender' = [sender EXCEPT ![r].pc = "send", ![r].rec = recipient]
    /\ UNCHANGED <<notice, recipient, sent, doubled, unheard>>

\* The process dies; what it has not committed is lost, and nobody resumes it.
SenderDies(s) ==
    /\ sender[s] # NoSender
    /\ sender' = [sender EXCEPT ![s] = NoSender]
    /\ UNCHANGED <<notice, recipient, delivery, sent, doubled, unheard>>

-----------------------------------------------------------------------------
\* mark_read, mark_read_bulk and dismiss_notification
UserMarks ==
    /\ recipient # "NONE"
    /\ recipient' \in {"READ", "DISMISSED"}
    /\ UNCHANGED <<notice, delivery, sender, sent, doubled, unheard>>

NoteNext ==
    \/ CreateNotification \/ CreateRecipient \/ CreateDelivery
    \/ RefreshReads \/ RefreshCommits
    \/ \E s \in Senders : Send(s) \/ Record(s) \/ Promote(s) \/ SenderDies(s)
    \/ \E r \in Retriers : Requeue(r) \/ \E h \in Channels : RetryBegins(r, h)
    \/ UserMarks

NoteSpec == NoteInit /\ [][NoteNext]_noteVars

-----------------------------------------------------------------------------
NoteTypeOK ==
    /\ notice \in {"NONE", "PENDING", "SENT", "PARTIALLY_SENT", "FAILED"}
    /\ recipient \in {"NONE", "PENDING", "DELIVERED", "READ", "DISMISSED"}
    /\ delivery \in [Channels -> {"NONE", "QUEUED", "DELIVERED", "FAILED", "SKIPPED"}]
    /\ notice = "NONE" => recipient = "NONE"
    /\ recipient = "NONE" => \A h \in Channels : delivery[h] = "NONE"

\* What the rows say of a message is so: a delivery that says DELIVERED was taken by
\* its channel, one that says SKIPPED never was, and a notification that says SENT has
\* nothing left to deliver, two retries of one delivery at once aside
\* (refresh_notification_status).  And a channel takes a message again only after two
\* such retries or after it took one and reported an error: a session that dies
\* between the answer and its commit does not make it so (retry_delivery).
NotifiedOnce ==
    \A h \in Channels :
        /\ delivery[h] = "DELIVERED" => sent[h] > 0
        /\ delivery[h] = "SKIPPED" => sent[h] = 0
        /\ h \notin doubled /\ notice = "SENT" => delivery[h] \in {"DELIVERED", "SKIPPED"}
        /\ h \notin doubled \cup unheard => sent[h] <= 1
=============================================================================
