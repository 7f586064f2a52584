---------------------------- MODULE AccountProofs ----------------------------
(***************************************************************************)
(* Proofs about Accounts and Notifications for any number of calls, rows   *)
(* and retries: typing, that withdrawn credentials open nothing, and that  *)
(* a channel takes a message once.                                         *)
(***************************************************************************)
EXTENDS Accounts, Notifications, TLAPS

-----------------------------------------------------------------------------
(* The inductive invariant of Accounts *)

CallOps == {"none", "login", "oauth", "request", "reset", "change", "delete"}
CallPcs == {"idle", "issue", "link", "create", "commit", "hash"}

\* p: the last password or account id given out.
CallOK(v, p) ==
    /\ v \in [op : CallOps, pc : CallPcs, user : 0 .. p, pw : 0 .. p,
              r : ResetRows \cup {"none"}, seen : SUBSET (RefreshRows \cup ResetRows \cup {"oauth"}),
              met : BOOLEAN]
    /\ v.pc \in {"issue", "link", "create"} => v.op \in Logins

TokenOK(v, p) == v \in [st : {"NONE", "live", "revoked"}, pw : 0 .. p]

AcctTyping ==
    /\ passwords \in Nat
    /\ user \in 0 .. passwords /\ password \in 0 .. passwords /\ (user = 0 <=> password = 0)
    /\ linked \in BOOLEAN /\ (linked => user # 0)
    /\ token = [t \in RefreshRows |-> token[t]]
    /\ \A t \in RefreshRows : TokenOK(token[t], passwords)
    /\ reset \in [ResetRows -> {"NONE", "open", "used"}]
    /\ DOMAIN call = Callers
    /\ \A c \in Callers : CallOK(call[c], passwords)
    /\ past \in [late : SUBSET RefreshRows, twins : SUBSET ResetRows]

\* A login whose account still exists began under the password in force, or has
\* met a change of it.
LoginsFresh ==
    \A c \in Callers :
        call[c].op \in Logins /\ Holds(c) /\ ~call[c].met => call[c].pw = password

\* A change that has read the refresh tokens misses only those issued since, and
\* they were issued while it was in flight.
ChangesSeeTokens ==
    \A c \in Callers :
        call[c].op \in Changes /\ call[c].pc = "commit" => LiveRows \subseteq call[c].seen \cup past.late

\* Requests in flight together know of each other, and a reset token that a
\* request does not know was opened by one it met.
RequestsMet ==
    \A c \in Callers : call[c].op = "request" =>
        /\ OpenResets \subseteq call[c].seen \cup past.twins
        /\ OpenResets \subseteq call[c].seen \/ call[c].met
        /\ \A d \in Callers \ {c} : call[d].op = "request" => call[c].met

AcctInv == AcctTyping /\ LoginsFresh /\ ChangesSeeTokens /\ RequestsMet /\ CredentialsRetired

-----------------------------------------------------------------------------
(* Calls and rows by themselves *)

\* More passwords leave every call and every row well-formed.
LEMMA MorePasswords ==
    ASSUME NEW p \in Nat
    PROVE  /\ \A v : CallOK(v, p) => CallOK(v, p + 1)
           /\ \A v : TokenOK(v, p) => TokenOK(v, p + 1)
<1>1. 0 .. p \subseteq 0 .. (p + 1)
  OBVIOUS
<1>2. \A v : CallOK(v, p) => CallOK(v, p + 1)
  BY <1>1 DEF CallOK
<1>3. \A v : TokenOK(v, p) => TokenOK(v, p + 1)
  BY <1>1 DEF TokenOK
<1> QED
  BY <1>2, <1>3

\* A call that is over is well-formed and takes no part in any promise.
LEMMA CallOver ==
    ASSUME NEW p \in Nat
    PROVE  CallOK(NoCall, p) /\ TokenOK(NoToken, p)
BY DEF NoCall, NoToken, CallOK, TokenOK, CallOps, CallPcs

\* What Begin gives a call.
LEMMA CallBegun ==
    ASSUME AcctTyping, NEW op \in CallOps, NEW pc \in CallPcs,
           pc \in {"issue", "link", "create"} => op \in Logins
    PROVE  /\ CallOK(Begin(op, pc), passwords)
           /\ Begin(op, pc).op = op /\ Begin(op, pc).pc = pc /\ Begin(op, pc).user = user
           /\ op \in Logins => Begin(op, pc).pw = password
<1> DEFINE pw == IF op \in Logins THEN password ELSE 0
<1>1. pw \in 0 .. passwords
  BY DEF AcctTyping
<1>2. Begin(op, pc) = [NoCall EXCEPT !.op = op, !.pc = pc, !.user = user, !.pw = pw]
  BY DEF Begin
<1>3. op \in Logins => pw = password
  OBVIOUS
<1> HIDE DEF pw
<1>4. CallOK(NoCall, passwords) /\ passwords \in Nat /\ user \in 0 .. passwords
  BY CallOver DEF AcctTyping
<1> QED
  BY <1>1, <1>2, <1>3, <1>4 DEF CallOK

\* A call changes alone, to v, and no row does.
LEMMA OneCallMoves ==
    ASSUME AcctInv, NEW c \in Callers, NEW v, CallOK(v, passwords), v.op # "request",
           v.op \in Logins /\ v.user = user /\ user # 0 /\ ~v.met => v.pw = password,
           v.op \in Changes /\ v.pc = "commit" => LiveRows \subseteq v.seen \cup past.late,
           call' = [call EXCEPT ![c] = v],
           UNCHANGED <<user, password, passwords, linked, token, reset, past>>
    PROVE  AcctInv'
<1> USE DEF AcctInv, AcctTyping
<1>1. /\ call'[c] = v /\ DOMAIN call' = Callers
      /\ \A d \in Callers \ {c} : call'[d] = call[d]
  OBVIOUS
<1>2. AcctTyping'
  BY <1>1
<1>3. LiveRows' = LiveRows /\ OpenResets' = OpenResets
  BY DEF LiveRows, OpenResets, Refreshable
<1>4. LoginsFresh'
  BY <1>1 DEF LoginsFresh, Holds
<1>5. ChangesSeeTokens'
  BY <1>1, <1>3 DEF ChangesSeeTokens
<1>6. RequestsMet'
  BY <1>1, <1>3 DEF RequestsMet
<1>7. CredentialsRetired'
  BY <1>3 DEF CredentialsRetired, Refreshable, Rows
<1> QED
  BY <1>2, <1>4, <1>5, <1>6, <1>7

-----------------------------------------------------------------------------
(* The calls *)

LEMMA AcctStarts == AcctInit => AcctInv
<1> SUFFICES ASSUME AcctInit PROVE AcctInv
  OBVIOUS
<1> USE DEF AcctInit
<1>1. AcctTyping
  <2>1. passwords \in Nat /\ CallOK(NoCall, passwords) /\ TokenOK(NoToken, passwords)
    BY CallOver
  <2>2. past \in [late : SUBSET RefreshRows, twins : SUBSET ResetRows]
    OBVIOUS
  <2>3. reset \in [ResetRows -> {"NONE", "open", "used"}] /\ linked \in BOOLEAN
    OBVIOUS
  <2>4. user \in 0 .. passwords /\ password \in 0 .. passwords
    OBVIOUS
  <2> QED
    BY <2>1, <2>2, <2>3, <2>4 DEF AcctTyping
<1>2. LoginsFresh /\ ChangesSeeTokens /\ RequestsMet
  BY DEF LoginsFresh, ChangesSeeTokens, RequestsMet, NoCall, Logins, Changes
<1>3. CredentialsRetired
  BY DEF CredentialsRetired, Refreshable, OpenResets, Rows, NoToken
<1> QED
  BY <1>1, <1>2, <1>3 DEF AcctInv

\* Without an account there is no credential.
LEMMA NoAccountNoRows ==
    ASSUME CredentialsRetired, user = 0
    PROVE  LiveRows = {} /\ OpenResets = {}
BY DEF LiveRows, OpenResets, Refreshable, CredentialsRetired, Rows, NoToken

\* An account is made when there is none: no row refers to one, and no call that
\* has read an earlier account holds this one.
LEMMA RegisterKeeps == AcctInv /\ Register => AcctInv'
<1> SUFFICES ASSUME AcctInv, Register PROVE AcctInv'
  OBVIOUS
<1> USE DEF AcctInv, AcctTyping, Register
<1>1. AcctTyping'
  <2>1. /\ passwords' \in Nat /\ user' \in 0 .. passwords' /\ password' \in 0 .. passwords'
        /\ user' # 0 /\ password' # 0
    OBVIOUS
  <2>2. /\ \A c \in Callers : CallOK(call[c], passwords + 1)
        /\ \A t \in RefreshRows : TokenOK(token[t], passwords + 1)
    BY MorePasswords
  <2> QED
    BY <2>1, <2>2
<1>2. LiveRows' = LiveRows /\ OpenResets' = OpenResets /\ LiveRows = {} /\ OpenResets = {}
  <2>1. LiveRows' = LiveRows /\ OpenResets' = OpenResets
    BY DEF LiveRows, OpenResets, Refreshable
  <2> QED
    BY <2>1, NoAccountNoRows
<1>3. LoginsFresh'
  BY DEF LoginsFresh, Holds, CallOK
<1>4. ChangesSeeTokens' /\ RequestsMet'
  BY <1>2 DEF ChangesSeeTokens, RequestsMet
<1>5. CredentialsRetired'
  BY <1>2 DEF CredentialsRetired, LiveRows, Refreshable
<1> QED
  BY <1>1, <1>3, <1>4, <1>5

LEMMA BeginningsKeep ==
    ASSUME AcctInv, NEW c \in Callers,
           \/ LoginBegins(c) \/ OAuthBegins(c) \/ ChangeBegins(c) \/ DeleteBegins(c)
           \/ SelectTokens(c) \/ CallDies(c) \/ \E r \in ResetRows : ResetBegins(c, r)
    PROVE  AcctInv'
<1>0. AcctTyping /\ passwords \in Nat /\ CallOK(call[c], passwords)
  BY DEF AcctInv, AcctTyping
<1>1. CASE LoginBegins(c)
  <2> DEFINE v == Begin("login", "issue")
  <2>1. CallOK(v, passwords) /\ v.op = "login" /\ v.user = user /\ v.pw = password
    BY <1>0, CallBegun DEF CallOps, CallPcs, Logins
  <2> HIDE DEF v
  <2> QED
    BY <1>1, <2>1, OneCallMoves DEF LoginBegins, v, Changes
<1>2. CASE OAuthBegins(c)
  <2> DEFINE pc == IF linked THEN "issue" ELSE IF user # 0 THEN "link" ELSE "create"
             v == Begin("oauth", pc)
  <2>1. pc \in {"issue", "link", "create"}
    OBVIOUS
  <2>2. call' = [call EXCEPT ![c] = v]
    BY <1>2 DEF OAuthBegins
  <2> HIDE DEF pc
  <2>3. CallOK(v, passwords) /\ v.op = "oauth" /\ v.user = user /\ v.pw = password
    BY <1>0, <2>1, CallBegun DEF CallOps, CallPcs, Logins
  <2> HIDE DEF v
  <2> QED
    BY <1>2, <2>2, <2>3, OneCallMoves DEF OAuthBegins, Changes
<1>3. CASE ChangeBegins(c)
  <2> DEFINE v == Begin("change", "hash")
  <2>1. CallOK(v, passwords) /\ v.op = "change" /\ v.pc = "hash"
    BY <1>0, CallBegun DEF CallOps, CallPcs
  <2> HIDE DEF v
  <2> QED
    BY <1>3, <2>1, OneCallMoves DEF ChangeBegins, v, Logins
<1>4. CASE DeleteBegins(c)
  <2> DEFINE b == Begin("delete", "commit")
             v == [b EXCEPT !.seen = Rows]
  <2>1. CallOK(b, passwords) /\ b.op = "delete"
    BY <1>0, CallBegun DEF CallOps, CallPcs
  <2>2. call' = [call EXCEPT ![c] = v]
    BY <1>4 DEF DeleteBegins
  <2>3. Rows \in SUBSET (RefreshRows \cup ResetRows \cup {"oauth"})
    BY DEF Rows
  <2> HIDE DEF b
  <2>4. CallOK(v, passwords) /\ v.op = "delete"
    BY <2>1, <2>3 DEF CallOK
  <2> HIDE DEF v
  <2> QED
    BY <1>4, <2>2, <2>4, OneCallMoves DEF DeleteBegins, Logins, Changes
<1>5. CASE SelectTokens(c)
  <2> DEFINE b == call[c]
             v == [b EXCEPT !.pc = "commit", !.seen = LiveRows]
  <2>1. b.op \in Changes /\ CallOK(b, passwords)
    BY <1>0, <1>5 DEF SelectTokens
  <2>2. call' = [call EXCEPT ![c] = v]
    BY <1>5, <1>0 DEF SelectTokens, AcctTyping
  <2>3. LiveRows \in SUBSET (RefreshRows \cup ResetRows \cup {"oauth"})
    BY DEF LiveRows
  <2> HIDE DEF b
  <2>4. CallOK(v, passwords) /\ v.op \in Changes /\ v.seen = LiveRows
    BY <2>1, <2>3 DEF CallOK, CallPcs
  <2> HIDE DEF v
  <2> QED
    BY <1>5, <2>2, <2>4, OneCallMoves DEF SelectTokens, Logins, Changes
<1>6. CASE CallDies(c)
  <2>1. CallOK(NoCall, passwords) /\ NoCall.op = "none"
    BY <1>0, CallOver DEF NoCall
  <2> QED
    BY <1>6, <2>1, OneCallMoves DEF CallDies, Ends, Logins, Changes
<1>7. ASSUME NEW r \in ResetRows, ResetBegins(c, r) PROVE AcctInv'
  <2> DEFINE b == Begin("reset", "hash")
             v == [b EXCEPT !.r = r]
  <2>1. CallOK(b, passwords) /\ b.op = "reset" /\ b.pc = "hash"
    BY <1>0, CallBegun DEF CallOps, CallPcs
  <2>2. call' = [call EXCEPT ![c] = v]
    BY <1>7 DEF ResetBegins
  <2> HIDE DEF b
  <2>4. CallOK(v, passwords) /\ v.op = "reset" /\ v.pc = "hash"
    BY <2>1 DEF CallOK
  <2> HIDE DEF v
  <2> QED
    BY <1>7, <2>2, <2>4, OneCallMoves DEF ResetBegins, Logins
<1> QED
  BY <1>1, <1>2, <1>3, <1>4, <1>5, <1>6, <1>7

\* A call that ends while the rows stay as they are.
LEMMA EndingKeeps ==
    ASSUME AcctInv, NEW c \in Callers, Ends(c),
           UNCHANGED <<user, password, passwords, linked, token, reset, past>>
    PROVE  AcctInv'
<1>1. CallOK(NoCall, passwords) /\ NoCall.op = "none"
  BY CallOver DEF NoCall, AcctInv, AcctTyping
<1> QED
  BY <1>1, OneCallMoves DEF Ends, Logins, Changes

LEMMA OAuthCreatesKeeps ==
    ASSUME AcctInv, NEW c \in Callers, OAuthCreates(c)
    PROVE  AcctInv'
<1> USE DEF AcctInv, AcctTyping
<1>1. CASE user # 0
  BY <1>1, EndingKeeps DEF OAuthCreates
<1>2. CASE user = 0
  <2> DEFINE b == call[c]
             v == [b EXCEPT !.pc = "link", !.user = passwords + 1, !.pw = passwords + 1]
  <2>1. /\ user' = passwords + 1 /\ password' = passwords + 1 /\ passwords' = passwords + 1
        /\ call' = [call EXCEPT ![c].pc = "link", ![c].user = passwords + 1, ![c].pw = passwords + 1]
        /\ UNCHANGED <<linked, token, reset, past>>
    BY <1>2 DEF OAuthCreates
  <2>2. CallOK(b, passwords) /\ b.op \in Logins
    BY DEF OAuthCreates, CallOK
  <2> HIDE DEF b
  <2>3. /\ CallOK(v, passwords + 1) /\ v.op \in Logins /\ v.op = b.op
        /\ v.pw = passwords + 1 /\ v.user = passwords + 1
    <3> DEFINE p == passwords + 1
    <3>1. CallOK(b, p) /\ p \in 0 .. p /\ "link" \in CallPcs
      BY <2>2, MorePasswords DEF CallPcs
    <3> HIDE DEF AcctInv, AcctTyping, p
    <3>2. CallOK([b EXCEPT !.pc = "link", !.user = p, !.pw = p], p)
      BY <2>2, <3>1 DEF CallOK
    <3> QED
      BY <2>2, <3>1, <3>2 DEF p, CallOK
  <2> HIDE DEF v
  <2>4. /\ call'[c] = v /\ DOMAIN call' = Callers
        /\ \A d \in Callers \ {c} : call'[d] = call[d]
    BY <2>1, <2>2, Zenon DEF v, b
  <2>5. AcctTyping'
    <3>1. /\ passwords' \in Nat /\ user' \in 0 .. passwords' /\ password' \in 0 .. passwords'
          /\ user' # 0 /\ password' # 0
      BY <2>1
    <3>2. /\ \A d \in Callers : CallOK(call'[d], passwords + 1)
          /\ \A t \in RefreshRows : TokenOK(token[t], passwords + 1)
      BY <2>3, <2>4, MorePasswords
    <3> QED
      BY <2>1, <2>4, <3>1, <3>2
  <2>6. LiveRows' = LiveRows /\ OpenResets' = OpenResets /\ LiveRows = {} /\ OpenResets = {}
    <3>1. LiveRows' = LiveRows /\ OpenResets' = OpenResets
      BY <2>1 DEF LiveRows, OpenResets, Refreshable
    <3> QED
      BY <1>2, <3>1, NoAccountNoRows
  <2>7. LoginsFresh'
    BY <2>1, <2>3, <2>4 DEF LoginsFresh, Holds, CallOK
  <2>8. ChangesSeeTokens' /\ RequestsMet'
    BY <2>6, <2>3, <2>4, <2>1 DEF ChangesSeeTokens, RequestsMet, Logins, Changes
  <2>9. CredentialsRetired'
    BY <2>6, <2>1 DEF CredentialsRetired, LiveRows, Refreshable
  <2> QED
    BY <2>5, <2>7, <2>8, <2>9
<1> QED
  BY <1>1, <1>2

LEMMA OAuthLinksKeeps ==
    ASSUME AcctInv, NEW c \in Callers, OAuthLinks(c)
    PROVE  AcctInv'
<1> USE DEF AcctInv, AcctTyping
<1>1. CASE ~(Holds(c) /\ ~linked)
  BY <1>1, EndingKeeps DEF OAuthLinks
<1>2. CASE Holds(c) /\ ~linked
  <2> DEFINE b == call[c]
             v == [b EXCEPT !.pc = "issue"]
  <2>1. linked' = TRUE /\ call' = [call EXCEPT ![c] = v] /\ UNCHANGED <<user, password, passwords, token, reset, past>>
    BY <1>2 DEF OAuthLinks
  <2>2. CallOK(b, passwords) /\ b.op \in Logins /\ user # 0
    BY <1>2 DEF OAuthLinks, CallOK, Holds
  <2> HIDE DEF b
  <2>3. CallOK(v, passwords) /\ v.op = b.op /\ v.user = b.user /\ v.pw = b.pw /\ v.met = b.met
    BY <2>2 DEF CallOK, CallPcs
  <2> HIDE DEF v
  <2>4. /\ call'[c] = v /\ DOMAIN call' = Callers
        /\ \A d \in Callers \ {c} : call'[d] = call[d]
    BY <2>1
  <2>5. AcctTyping'
    BY <2>1, <2>2, <2>3, <2>4
  <2>6. LiveRows' = LiveRows /\ OpenResets' = OpenResets
    BY <2>1 DEF LiveRows, OpenResets, Refreshable
  <2>7. LoginsFresh'
    BY <2>1, <2>3, <2>4 DEF LoginsFresh, Holds, b
  <2>8. ChangesSeeTokens' /\ RequestsMet'
    BY <2>6, <2>2, <2>3, <2>4, <2>1 DEF ChangesSeeTokens, RequestsMet, Logins, Changes
  <2>9. CredentialsRetired'
    BY <2>6, <2>1, <2>2 DEF CredentialsRetired, Refreshable
  <2> QED
    BY <2>5, <2>7, <2>8, <2>9
<1> QED
  BY <1>1, <1>2

\* A token issued while a change is in flight, or after a change that the login has
\* met, is counted as late; any other has the password in force.
LEMMA IssueKeeps ==
    ASSUME AcctInv, NEW c \in Callers, Issue(c)
    PROVE  AcctInv'
<1> USE DEF AcctInv, AcctTyping
<1>1. CASE ~Holds(c)
  BY <1>1, EndingKeeps DEF Issue
<1>2. CASE Holds(c)
  <2>1. PICK t \in RefreshRows :
          /\ token[t] = NoToken
          /\ token' = [token EXCEPT ![t] = [st |-> "live", pw |-> call[c].pw]]
          /\ past' = IF call[c].met \/ InFlight(Changes) # {}
                     THEN [past EXCEPT !.late = @ \cup {t}] ELSE past
    BY <1>2 DEF Issue
  <2>2. UNCHANGED <<user, password, passwords, linked, reset>> /\ user # 0
    BY <1>2 DEF Issue, Holds
  <2>3. /\ call'[c] = NoCall /\ DOMAIN call' = Callers
        /\ \A d \in Callers \ {c} : call'[d] = call[d]
    BY DEF Issue, Ends
  <2>4. /\ token'[t] = [st |-> "live", pw |-> call[c].pw] /\ token' = [x \in RefreshRows |-> token'[x]]
        /\ \A x \in RefreshRows \ {t} : token'[x] = token[x]
    BY <2>1
  <2>5. CallOK(call[c], passwords) /\ call[c].op \in Logins
    BY DEF Issue, CallOK
  <2>6. TokenOK(token'[t], passwords)
    BY <2>4, <2>5 DEF TokenOK, CallOK
  <2>7. /\ past' \in [late : SUBSET RefreshRows, twins : SUBSET ResetRows]
        /\ past.late \subseteq past'.late /\ past'.twins = past.twins
        /\ call[c].met \/ InFlight(Changes) # {} => t \in past'.late
    BY <2>1
  <2>8. AcctTyping'
    BY <2>2, <2>3, <2>4, <2>6, <2>7, CallOver
  <2>9. LiveRows' = LiveRows \cup {t} /\ OpenResets' = OpenResets
    BY <2>2, <2>4 DEF LiveRows, OpenResets, Refreshable
  <2>10. LoginsFresh'
    BY <2>2, <2>3 DEF LoginsFresh, Holds, NoCall, Logins
  <2>11. ChangesSeeTokens'
    <3> SUFFICES ASSUME NEW d \in Callers, call'[d].op \in Changes, call'[d].pc = "commit"
                 PROVE  LiveRows' \subseteq call'[d].seen \cup past'.late
      BY DEF ChangesSeeTokens
    <3>1. d # c /\ call'[d] = call[d]
      BY <2>3 DEF NoCall, Changes
    <3>2. InFlight(Changes) # {}
      BY <3>1 DEF InFlight
    <3> QED
      BY <3>1, <3>2, <2>7, <2>9 DEF ChangesSeeTokens
  <2>12. RequestsMet'
    BY <2>3, <2>7, <2>9 DEF RequestsMet, NoCall
  <2>13. token'[t].pw = password \/ t \in past'.late
    BY <1>2, <2>4, <2>5, <2>7 DEF LoginsFresh
  <2>14. CredentialsRetired'
    BY <2>2, <2>4, <2>7, <2>9, <2>13 DEF CredentialsRetired, Refreshable
  <2> QED
    BY <2>8, <2>10, <2>11, <2>12, <2>14
<1> QED
  BY <1>1, <1>2

LEMMA LogoutKeeps ==
    ASSUME AcctInv, NEW t \in RefreshRows, Logout(t)
    PROVE  AcctInv'
<1> USE DEF AcctInv, AcctTyping
<1>1. /\ token'[t] = [token[t] EXCEPT !.st = "revoked"] /\ token' = [x \in RefreshRows |-> token'[x]]
      /\ \A x \in RefreshRows \ {t} : token'[x] = token[x]
      /\ token[t] # NoToken /\ UNCHANGED <<user, password, passwords, linked, reset, call, past>>
  BY DEF Logout, LiveRows, Refreshable, NoToken
<1>2. TokenOK(token'[t], passwords) /\ token'[t].st = "revoked"
  BY <1>1 DEF TokenOK
<1>3. AcctTyping'
  BY <1>1, <1>2
<1>4. LiveRows' \subseteq LiveRows /\ OpenResets' = OpenResets
  BY <1>1, <1>2 DEF LiveRows, OpenResets, Refreshable
<1>5. LoginsFresh' /\ RequestsMet'
  BY <1>1, <1>4 DEF LoginsFresh, RequestsMet, Holds
<1>6. ChangesSeeTokens'
  BY <1>1, <1>4 DEF ChangesSeeTokens
<1>7. user # 0
  BY <1>1 DEF CredentialsRetired, Rows
<1>8. CredentialsRetired'
  BY <1>1, <1>2, <1>4, <1>7 DEF CredentialsRetired, Refreshable
<1> QED
  BY <1>3, <1>5, <1>6, <1>8

LEMMA ResetExpiresKeeps ==
    ASSUME AcctInv, NEW r \in ResetRows, ResetExpires(r)
    PROVE  AcctInv'
<1> USE DEF AcctInv, AcctTyping, ResetExpires
<1>1. AcctTyping'
  OBVIOUS
<1>2. LiveRows' = LiveRows /\ OpenResets' \subseteq OpenResets
  BY DEF LiveRows, OpenResets, Refreshable
<1>3. LoginsFresh' /\ ChangesSeeTokens'
  BY <1>2 DEF LoginsFresh, ChangesSeeTokens, Holds
<1>4. RequestsMet'
  BY <1>2 DEF RequestsMet
<1>5. user # 0
  BY DEF CredentialsRetired, Rows
<1>6. CredentialsRetired'
  BY <1>2, <1>5 DEF CredentialsRetired, Refreshable
<1> QED
  BY <1>1, <1>3, <1>4, <1>6

\* A request makes itself known to those in flight, and knows of them.
LEMMA RequestBeginsKeeps ==
    ASSUME AcctInv, NEW c \in Callers, RequestBegins(c)
    PROVE  AcctInv'
<1> DEFINE b == Begin("request", "commit")
           v == [b EXCEPT !.seen = OpenResets, !.met = InFlight({"request"}) # {}]
<1>0. AcctTyping
  BY DEF AcctInv
<1>1. /\ CallOK(b, passwords) /\ b.op = "request" /\ b.pc = "commit"
      /\ OpenResets \in SUBSET (RefreshRows \cup ResetRows \cup {"oauth"})
  BY <1>0, CallBegun DEF CallOps, CallPcs, OpenResets
<1>2. /\ \A x \in Callers : call'[x] = IF x = c THEN v
                            ELSE IF call[x].op = "request" THEN [call[x] EXCEPT !.met = TRUE] ELSE call[x]
      /\ DOMAIN call' = Callers
      /\ UNCHANGED <<user, password, passwords, linked, token, reset, past>>
  BY DEF RequestBegins
<1> HIDE DEF b
<1>3. /\ CallOK(v, passwords) /\ v.op = "request" /\ v.seen = OpenResets
      /\ v.met = (InFlight({"request"}) # {})
  BY <1>1 DEF CallOK
<1> HIDE DEF v
<1>4. \A x \in Callers \ {c} :
        /\ CallOK(call'[x], passwords) /\ call'[x].op = call[x].op /\ call'[x].pc = call[x].pc
        /\ call'[x].user = call[x].user /\ call'[x].pw = call[x].pw /\ call'[x].seen = call[x].seen
        /\ call[x].op # "request" => call'[x] = call[x]
        /\ call[x].op = "request" => call'[x].met /\ v.met
  <2> TAKE x \in Callers \ {c}
  <2>1. CallOK(call[x], passwords)
    BY <1>0 DEF AcctTyping
  <2>2. call[x].op = "request" => v.met
    BY <1>3 DEF InFlight
  <2> QED
    BY <1>2, <2>1, <2>2 DEF CallOK
<1>5. AcctTyping'
  BY <1>0, <1>2, <1>3, <1>4 DEF AcctTyping
<1>6. LiveRows' = LiveRows /\ OpenResets' = OpenResets
  BY <1>2 DEF LiveRows, OpenResets, Refreshable
<1>7. call'[c] = v
  BY <1>2
<1>8. LoginsFresh'
  BY <1>2, <1>3, <1>4, <1>7 DEF LoginsFresh, Holds, AcctInv, Logins
<1>9. ChangesSeeTokens'
  BY <1>2, <1>3, <1>4, <1>6, <1>7 DEF ChangesSeeTokens, AcctInv, Changes
<1>10. RequestsMet'
  <2> SUFFICES ASSUME NEW d \in Callers, call'[d].op = "request"
               PROVE  /\ OpenResets' \subseteq call'[d].seen \cup past'.twins
                      /\ OpenResets' \subseteq call'[d].seen \/ call'[d].met
                      /\ \A e \in Callers \ {d} : call'[e].op = "request" => call'[d].met
    BY DEF RequestsMet
  <2>1. CASE d = c
    BY <2>1, <1>3, <1>4, <1>6, <1>7
  <2>2. CASE d # c
    BY <2>2, <1>2, <1>4, <1>6 DEF RequestsMet, AcctInv
  <2> QED
    BY <2>1, <2>2
<1>11. CredentialsRetired'
  BY <1>2, <1>6 DEF CredentialsRetired, Refreshable, Rows, AcctInv
<1> QED
  BY <1>5, <1>8, <1>9, <1>10, <1>11 DEF AcctInv

\* The rows that were pending when the request began are used now; any other was
\* opened by a request it has met.
LEMMA RequestCommitsKeeps ==
    ASSUME AcctInv, NEW c \in Callers, RequestCommits(c)
    PROVE  AcctInv'
<1> USE DEF AcctInv, AcctTyping
<1>1. CASE ~Holds(c)
  BY <1>1, EndingKeeps DEF RequestCommits
<1>2. CASE Holds(c)
  <2>1. PICK r \in ResetRows :
          /\ reset[r] = "NONE"
          /\ reset' = [x \in ResetRows |-> IF x = r THEN "open"
                                           ELSE IF x \in call[c].seen THEN "used" ELSE reset[x]]
          /\ past' = IF call[c].met THEN [past EXCEPT !.twins = @ \cup {r}] ELSE past
    BY <1>2 DEF RequestCommits
  <2>2. UNCHANGED <<user, password, passwords, linked, token>> /\ user # 0 /\ call[c].op = "request"
    BY <1>2 DEF RequestCommits, Holds
  <2>3. /\ call'[c] = NoCall /\ DOMAIN call' = Callers
        /\ \A d \in Callers \ {c} : call'[d] = call[d]
    BY DEF RequestCommits, Ends
  <2>4. /\ past' \in [late : SUBSET RefreshRows, twins : SUBSET ResetRows]
        /\ past.twins \subseteq past'.twins /\ past'.late = past.late
        /\ call[c].met => r \in past'.twins
    BY <2>1
  <2>5. AcctTyping'
    BY <2>1, <2>2, <2>3, <2>4, CallOver
  <2>6. LiveRows' = LiveRows /\ OpenResets' \subseteq (OpenResets \ call[c].seen) \cup {r}
    BY <2>1, <2>2 DEF LiveRows, OpenResets, Refreshable
  <2>7. LoginsFresh'
    BY <2>2, <2>3 DEF LoginsFresh, Holds, NoCall, Logins
  <2>8. ChangesSeeTokens'
    BY <2>2, <2>3, <2>4, <2>6 DEF ChangesSeeTokens, NoCall, Changes
  <2>9. RequestsMet'
    <3> SUFFICES ASSUME NEW d \in Callers, call'[d].op = "request"
                 PROVE  /\ OpenResets' \subseteq call'[d].seen \cup past'.twins
                        /\ OpenResets' \subseteq call'[d].seen \/ call'[d].met
                        /\ \A e \in Callers \ {d} : call'[e].op = "request" => call'[d].met
      BY DEF RequestsMet
    <3>1. d # c /\ call'[d] = call[d]
      BY <2>3 DEF NoCall
    <3>2. call[d].met /\ call[c].met
      BY <3>1, <2>2 DEF RequestsMet
    <3> QED
      BY <3>1, <3>2, <2>4, <2>6 DEF RequestsMet
  <2>10. \A r1, r2 \in OpenResets' : r1 = r2 \/ {r1, r2} \subseteq past'.twins
    <3>1. OpenResets \subseteq call[c].seen => OpenResets' \subseteq {r}
      BY <2>6
    <3>2. ~(OpenResets \subseteq call[c].seen) => OpenResets' \subseteq past'.twins
      BY <2>2, <2>4, <2>6 DEF RequestsMet
    <3> QED
      BY <3>1, <3>2
  <2>11. CredentialsRetired'
    BY <2>2, <2>4, <2>10 DEF CredentialsRetired, Refreshable
  <2> QED
    BY <2>5, <2>7, <2>8, <2>9, <2>11
<1> QED
  BY <1>1, <1>2

\* Every refresh token that is still accepted was issued during the change, and
\* every login in flight has met it.
LEMMA SetPasswordKeeps ==
    ASSUME AcctInv, NEW c \in Callers, SetPassword(c)
    PROVE  AcctInv'
<1> USE DEF AcctInv, AcctTyping
<1>1. CASE ~Holds(c)
  BY <1>1, EndingKeeps DEF SetPassword
<1>2. CASE Holds(c)
  <2>1. /\ password' = passwords + 1 /\ passwords' = passwords + 1
        /\ token' = [x \in RefreshRows |-> token'[x]]
        /\ \A t \in RefreshRows : token'[t] = IF t \in call[c].seen THEN [token[t] EXCEPT !.st = "revoked"]
                                              ELSE token[t]
        /\ reset' = [r \in ResetRows |-> IF r = call[c].r THEN "used" ELSE reset[r]]
        /\ DOMAIN call' = Callers
        /\ \A x \in Callers : call'[x] = IF x = c THEN NoCall
                                         ELSE IF call[x].op \in Logins THEN [call[x] EXCEPT !.met = TRUE]
                                         ELSE call[x]
        /\ UNCHANGED <<user, linked, past>> /\ user # 0
        /\ call[c].op \in Changes /\ call[c].pc = "commit"
    BY <1>2 DEF SetPassword, Revoked, Holds
  <2>2. \A t \in RefreshRows :
          /\ TokenOK(token'[t], passwords)
          /\ t \in call[c].seen => token'[t].st = "revoked"
          /\ t \notin call[c].seen => token'[t] = token[t]
    BY <2>1 DEF TokenOK
  <2>3. \A x \in Callers \ {c} :
          /\ CallOK(call'[x], passwords) /\ call'[x].op = call[x].op /\ call'[x].pc = call[x].pc
          /\ call'[x].user = call[x].user /\ call'[x].seen = call[x].seen
          /\ call[x].op \notin Logins => call'[x] = call[x]
          /\ call[x].op \in Logins => call'[x].met
    <3> TAKE x \in Callers \ {c}
    <3>1. CallOK(call[x], passwords) /\ call'[x] = IF call[x].op \in Logins THEN [call[x] EXCEPT !.met = TRUE]
                                                   ELSE call[x]
      BY <2>1
    <3> HIDE DEF AcctInv, AcctTyping
    <3> QED
      BY <3>1 DEF CallOK
  <2>4. call'[c] = NoCall /\ NoCall.op = "none" /\ CallOK(NoCall, passwords)
    BY <2>1, CallOver DEF NoCall
  <2>5. AcctTyping'
    <3>1. \A x \in Callers : CallOK(call'[x], passwords + 1)
      BY <2>3, <2>4, MorePasswords
    <3>2. \A t \in RefreshRows : TokenOK(token'[t], passwords + 1)
      BY <2>2, MorePasswords
    <3> QED
      BY <2>1, <3>1, <3>2
  <2>6. LiveRows' \subseteq LiveRows /\ OpenResets' \subseteq OpenResets /\ LiveRows' \cap call[c].seen = {}
    BY <2>1, <2>2 DEF LiveRows, OpenResets, Refreshable
  <2>7. LoginsFresh'
    BY <2>1, <2>3, <2>4 DEF LoginsFresh, Holds, Logins
  <2>8. ChangesSeeTokens'
    BY <2>1, <2>3, <2>4, <2>6 DEF ChangesSeeTokens, Changes
  <2>9. RequestsMet'
    <3> SUFFICES ASSUME NEW d \in Callers, call'[d].op = "request"
                 PROVE  /\ OpenResets' \subseteq call'[d].seen \cup past'.twins
                        /\ OpenResets' \subseteq call'[d].seen \/ call'[d].met
                        /\ \A e \in Callers \ {d} : call'[e].op = "request" => call'[d].met
      BY DEF RequestsMet
    <3>1. d # c /\ call'[d] = call[d] /\ call[d].op = "request"
      BY <2>3, <2>4 DEF Logins
    <3>2. \A e \in Callers \ {d} : call'[e].op = "request" => call[e].op = "request"
      BY <2>3, <2>4
    <3> QED
      BY <3>1, <3>2, <2>1, <2>6 DEF RequestsMet
  <2>10. LiveRows' \subseteq past.late
    BY <2>1, <2>6 DEF ChangesSeeTokens
  <2>11. CredentialsRetired'
    BY <2>1, <2>6, <2>10 DEF CredentialsRetired, LiveRows, Refreshable
  <2> QED
    BY <2>5, <2>7, <2>8, <2>9, <2>11
<1> QED
  BY <1>1, <1>2

\* The commit goes through only when the deletion knows of every row.
LEMMA DeleteAccountKeeps ==
    ASSUME AcctInv, NEW c \in Callers, DeleteAccount(c)
    PROVE  AcctInv'
<1> USE DEF AcctInv, AcctTyping
<1>1. CASE ~MayGo(c)
  BY <1>1, EndingKeeps DEF DeleteAccount
<1>2. CASE MayGo(c)
  <2>1. /\ user' = 0 /\ password' = 0 /\ linked' = FALSE /\ UNCHANGED passwords
        /\ token' = [t \in RefreshRows |-> IF t \in call[c].seen THEN NoToken ELSE token[t]]
        /\ reset' = [r \in ResetRows |-> IF r \in call[c].seen THEN "NONE" ELSE reset[r]]
        /\ past' = [h \in DOMAIN past |-> past[h] \ call[c].seen]
        /\ Rows \subseteq call[c].seen
    BY <1>2 DEF DeleteAccount, MayGo
  <2>2. /\ call'[c] = NoCall /\ DOMAIN call' = Callers
        /\ \A d \in Callers \ {c} : call'[d] = call[d]
    BY DEF DeleteAccount, Ends
  <2>3. past' \in [late : SUBSET RefreshRows, twins : SUBSET ResetRows]
    BY <2>1
  <2>4. AcctTyping'
    <3>1. \A t \in RefreshRows : TokenOK(token'[t], passwords)
      BY <2>1, CallOver
    <3>2. reset' \in [ResetRows -> {"NONE", "open", "used"}]
      BY <2>1
    <3>3. \A d \in Callers : CallOK(call'[d], passwords)
      BY <2>2, CallOver
    <3>4. /\ passwords' \in Nat /\ user' \in 0 .. passwords' /\ password' \in 0 .. passwords'
          /\ user' = 0 /\ password' = 0 /\ linked' = FALSE
      BY <2>1
    <3>5. token' = [t \in RefreshRows |-> token'[t]]
      BY <2>1
    <3> HIDE DEF AcctTyping, AcctInv
    <3> QED
      BY <2>1, <2>2, <2>3, <3>1, <3>2, <3>3, <3>4, <3>5 DEF AcctTyping
  <2>5. \A t \in RefreshRows : token'[t] = NoToken
    BY <2>1 DEF Rows
  <2>6. \A r \in ResetRows : reset'[r] = "NONE"
    BY <2>1 DEF Rows
  <2>7. LiveRows' = {} /\ OpenResets' = {} /\ Rows' = {}
    BY <2>1, <2>5, <2>6 DEF LiveRows, OpenResets, Refreshable, Rows, NoToken
  <2>8. LoginsFresh'
    BY <2>1 DEF LoginsFresh, Holds
  <2>9. ChangesSeeTokens'
    BY <2>7 DEF ChangesSeeTokens
  <2>10. RequestsMet'
    BY <2>2, <2>7 DEF RequestsMet, NoCall
  <2>11. CredentialsRetired'
    BY <2>7 DEF CredentialsRetired, LiveRows, Refreshable
  <2> QED
    BY <2>4, <2>8, <2>9, <2>10, <2>11
<1> QED
  BY <1>1, <1>2

LEMMA AcctStep == AcctInv /\ [AcctNext]_acctVars => AcctInv'
<1> SUFFICES ASSUME AcctInv, [AcctNext]_acctVars PROVE AcctInv'
  OBVIOUS
<1>1. CASE Register
  BY <1>1, RegisterKeeps
<1>2. ASSUME NEW c \in Callers,
             \/ LoginBegins(c) \/ OAuthBegins(c) \/ ChangeBegins(c) \/ DeleteBegins(c)
             \/ SelectTokens(c) \/ CallDies(c) \/ \E r \in ResetRows : ResetBegins(c, r)
      PROVE  AcctInv'
  BY <1>2, BeginningsKeep
<1>3. ASSUME NEW c \in Callers, OAuthCreates(c) \/ OAuthLinks(c) \/ Issue(c) PROVE AcctInv'
  BY <1>3, OAuthCreatesKeeps, OAuthLinksKeeps, IssueKeeps
<1>4. ASSUME NEW c \in Callers, RequestBegins(c) \/ RequestCommits(c) PROVE AcctInv'
  BY <1>4, RequestBeginsKeeps, RequestCommitsKeeps
<1>5. ASSUME NEW c \in Callers, SetPassword(c) \/ DeleteAccount(c) PROVE AcctInv'
  BY <1>5, SetPasswordKeeps, DeleteAccountKeeps
<1>6. ASSUME NEW t \in RefreshRows, Logout(t) PROVE AcctInv'
  BY <1>6, LogoutKeeps
<1>7. ASSUME NEW r \in ResetRows, ResetExpires(r) PROVE AcctInv'
  BY <1>7, ResetExpiresKeeps
<1>8. CASE UNCHANGED acctVars
  <2> USE <1>8 DEF acctVars, AcctInv
  <2>1. AcctTyping' /\ LoginsFresh'
    BY DEF AcctTyping, LoginsFresh, Holds
  <2>2. ChangesSeeTokens' /\ RequestsMet'
    BY DEF ChangesSeeTokens, RequestsMet, LiveRows, OpenResets, Refreshable
  <2>3. CredentialsRetired'
    BY DEF CredentialsRetired, Refreshable, OpenResets, Rows
  <2> QED
    BY <2>1, <2>2, <2>3
<1> QED
  BY <1>1, <1>2, <1>3, <1>4, <1>5, <1>6, <1>7, <1>8 DEF AcctNext

\* The rows of an account and the calls in flight hold values of their kind, and
\* nothing refers to an account that does not exist (auth_service).
THEOREM AcctTypingAlways == AcctSpec => []AcctTypeOK
<1>1. AcctInv => AcctTypeOK
  <2> SUFFICES ASSUME AcctInv PROVE AcctTypeOK
    OBVIOUS
  <2>1. token \in [RefreshRows -> [st : {"NONE", "live", "revoked"}, pw : 0 .. passwords]]
    BY DEF AcctInv, AcctTyping, TokenOK
  <2>2. \A c \in Callers : call[c].user \in 0 .. passwords
    BY DEF AcctInv, AcctTyping, CallOK
  <2> QED
    BY <2>1, <2>2 DEF AcctInv, AcctTyping, AcctTypeOK
<1> QED
  BY <1>1, AcctStarts, AcctStep, PTL DEF AcctSpec

\* However logins, changes and resets of the password, reset requests and the
\* deletion of the account interleave or die, a withdrawn credential opens nothing
\* (change_password, reset_password_with_token, request_password_reset,
\* _purge_user_related_rows).
THEOREM CredentialsRetiredAlways == AcctSpec => []CredentialsRetired
<1>1. AcctInv => CredentialsRetired
  BY DEF AcctInv
<1> QED
  BY <1>1, AcctStarts, AcctStep, PTL DEF AcctSpec

-----------------------------------------------------------------------------
(* The inductive invariant of Notifications *)

SenderPcs == {"idle", "recipient", "channel", "send", "record", "promote", "refresh", "status", "requeue"}
DeliveryStatuses == {"NONE", "QUEUED", "DELIVERED", "FAILED", "SKIPPED"}
NoticeStatuses == {"PENDING", "SENT", "PARTIALLY_SENT", "FAILED"}
RecipientStatuses == {"NONE", "PENDING", "DELIVERED", "READ", "DISMISSED"}

\* A sender has a channel exactly while it works on one.
SenderOK(v) ==
    /\ v \in [pc : SenderPcs, h : Channels \cup {"none"}, rec : RecipientStatuses,
              on : SUBSET Channels, new : NoticeStatuses \cup {"DELIVERED", "none"}]
    /\ v.pc \in {"channel", "send", "record", "promote", "requeue"} <=> v.h # "none"
    /\ v.pc = "record" => v.new \in {"DELIVERED", "FAILED"}
    /\ v.pc = "status" => v.new \in NoticeStatuses
    /\ v.pc = "idle" => v = NoSender

CreatorPcs == SenderPcs \ {"requeue"}
RetrierPcs == {"idle", "requeue", "send", "record", "promote"}

NoteTyping ==
    /\ notice \in NoticeStatuses \cup {"NONE"}
    /\ recipient \in RecipientStatuses
    /\ delivery \in [Channels -> DeliveryStatuses]
    /\ sent \in [Channels -> 0 .. 2] /\ doubled \in SUBSET Channels /\ unheard \in SUBSET Channels
    /\ DOMAIN sender = Senders
    /\ \A s \in Senders : SenderOK(sender[s])
    /\ sender["creator"].pc \in CreatorPcs
    /\ \A r \in Retriers : sender[r].pc \in RetrierPcs

Later(h) == CASE h = "IN_APP" -> {"EMAIL", "PUSH"} [] h = "EMAIL" -> {"PUSH"} [] OTHER -> {}

\* The rows come in the order of the creator's steps: the deliveries it has not
\* reached do not exist, and a retry has one that does.
RowsInOrder ==
    /\ notice = "NONE" => sender["creator"] = NoSender
    /\ notice = "NONE" => recipient = "NONE"
    /\ recipient = "NONE" => /\ sender["creator"].pc \in {"idle", "recipient"}
                             /\ \A h \in Channels : delivery[h] = "NONE"
    /\ sender["creator"].pc = "recipient" => recipient = "NONE"
    /\ \A h \in Later(sender["creator"].h) : delivery[h] = "NONE"
    /\ sender["creator"].h # "none" =>
         \A h \in Channels \ {sender["creator"].h} :
             h \notin Later(sender["creator"].h) => delivery[h] # "NONE"
    /\ sender["creator"].pc = "channel" <=> /\ sender["creator"].h # "none"
                                            /\ delivery[sender["creator"].h] = "NONE"
    /\ sender["creator"].pc \in {"refresh", "status"} => \A h \in Channels : delivery[h] # "NONE"
    /\ \A r \in Retriers : sender[r].h # "none" => delivery[sender[r].h] # "NONE"

\* Retries of one delivery at once aside, a channel has one sender at a time.
OneSender ==
    \A h \in Channels \ doubled : \A s, t \in Senders :
        sender[s].h = h /\ sender[t].h = h => s = t

\* Where that sender is tells what the delivery row says and what was sent.
SenderKnows ==
    \A h \in Channels \ doubled : \A s \in Senders : sender[s].h = h =>
        /\ sender[s].pc = "channel" => delivery[h] = "NONE"
        /\ sender[s].pc = "requeue" => delivery[h] = "FAILED"
        /\ sender[s].pc = "send" => delivery[h] = "QUEUED" /\ (h \notin unheard => sent[h] = 0)
        /\ sender[s].pc = "record" =>
             /\ delivery[h] = "QUEUED"
             /\ h \notin unheard => sent[h] = IF sender[s].new = "DELIVERED" THEN 1 ELSE 0
        /\ sender[s].pc = "promote" => delivery[h] = "DELIVERED"

\* What the delivery row and the notification say of a channel not retried twice at
\* once, and what was sent if it always reported what it did.
RowsTell ==
    \A h \in Channels \ doubled :
        /\ h \notin unheard => sent[h] <= 1
        /\ h \notin unheard /\ delivery[h] \in {"NONE", "FAILED", "SKIPPED"} => sent[h] = 0
        /\ notice = "SENT" => delivery[h] \in {"DELIVERED", "SKIPPED"}
        /\ sender["creator"].pc = "status" /\ sender["creator"].new = "SENT" =>
             delivery[h] \in {"DELIVERED", "SKIPPED"}

NoteInv == NoteTyping /\ RowsInOrder /\ OneSender /\ SenderKnows /\ RowsTell

-----------------------------------------------------------------------------
(* Senders by themselves *)

LEMMA IdleSender ==
    SenderOK(NoSender) /\ NoSender.pc = "idle" /\ NoSender.h = "none"
BY DEF SenderOK, NoSender, SenderPcs, RecipientStatuses, NoticeStatuses, Channels

\* The order of the channels.
LEMMA ChannelOrder ==
    /\ Later("IN_APP") = {"EMAIL", "PUSH"} /\ Later("EMAIL") = {"PUSH"}
    /\ Later("PUSH") = {} /\ Later("none") = {}
    /\ After("IN_APP") = "EMAIL" /\ After("EMAIL") = "PUSH" /\ After("PUSH") = "none"
BY DEF Later, After

\* Where a sender stands when its delivery is over: a retry has ended, the creator
\* goes on to a later channel, or to the status of the notification.
LEMMA OnwardsTo ==
    ASSUME NEW s \in Senders, SenderOK(sender[s]), sender[s].h \in Channels, NEW rec \in RecipientStatuses
    PROVE  /\ SenderOK(Onwards(s, rec))
           /\ s # "creator" => Onwards(s, rec) = NoSender
           /\ s = "creator" /\ sender[s].h = "PUSH" =>
                Onwards(s, rec).pc = "refresh" /\ Onwards(s, rec).h = "none"
           /\ s = "creator" /\ sender[s].h # "PUSH" =>
                Onwards(s, rec).pc = "channel" /\ Onwards(s, rec).h = After(sender[s].h)
<1>1. CASE s # "creator"
  BY <1>1, IdleSender DEF Onwards
<1>2. CASE s = "creator" /\ sender[s].h = "PUSH"
  <2>1. Onwards(s, rec) = [NoSender EXCEPT !.pc = "refresh"]
    BY <1>2, ChannelOrder DEF Onwards
  <2>2. SenderOK([NoSender EXCEPT !.pc = "refresh"]) /\ [NoSender EXCEPT !.pc = "refresh"].pc = "refresh"
        /\ [NoSender EXCEPT !.pc = "refresh"].h = "none"
    BY DEF SenderOK, NoSender, SenderPcs, RecipientStatuses, NoticeStatuses, Channels
  <2> QED
    BY <1>2, <2>1, <2>2
<1>3. CASE s = "creator" /\ sender[s].h # "PUSH"
  <2> DEFINE b == sender[s]
             h == After(b.h)
             v == [b EXCEPT !.pc = "channel", !.h = h, !.rec = rec, !.new = "none"]
  <2>1. h \in Channels /\ h # "none"
    BY <1>3, ChannelOrder DEF Channels
  <2>2. Onwards(s, rec) = v
    BY <1>3, <2>1 DEF Onwards
  <2>3. SenderOK(b)
    OBVIOUS
  <2> HIDE DEF b, h
  <2>4. SenderOK(v) /\ v.pc = "channel" /\ v.h = h
    BY <2>1, <2>3 DEF SenderOK, SenderPcs
  <2> QED
    BY <1>3, <2>2, <2>4 DEF h, b
<1> QED
  BY <1>1, <1>2, <1>3

-----------------------------------------------------------------------------
(* The steps of the senders *)

LEMMA NoteStarts == NoteInit => NoteInv
<1> SUFFICES ASSUME NoteInit PROVE NoteInv
  OBVIOUS
<1> USE DEF NoteInit
<1>1. /\ \A s \in Senders : sender[s] = NoSender
      /\ "creator" \in Senders /\ Retriers \subseteq Senders
  BY DEF Senders
<1>2. NoteTyping
  BY <1>1, IdleSender DEF NoteTyping, DeliveryStatuses, RecipientStatuses, CreatorPcs, RetrierPcs, SenderPcs
<1>3. RowsInOrder
  BY <1>1, IdleSender, ChannelOrder DEF RowsInOrder
<1>4. OneSender /\ SenderKnows
  BY <1>1, IdleSender DEF OneSender, SenderKnows, Channels
<1>5. RowsTell
  BY <1>1, IdleSender DEF RowsTell
<1> QED
  BY <1>2, <1>3, <1>4, <1>5 DEF NoteInv

LEMMA WhoSends ==
    "creator" \in Senders /\ Retriers \subseteq Senders /\ Senders = Retriers \cup {"creator"}
    /\ "creator" \notin Retriers
BY NotificationsAssumption DEF Senders

LEMMA CreateNotificationKeeps == NoteInv /\ CreateNotification => NoteInv'
<1> SUFFICES ASSUME NoteInv, CreateNotification PROVE NoteInv'
  OBVIOUS
<1> DEFINE v == [NoSender EXCEPT !.pc = "recipient"]
<1>1. SenderOK(v) /\ v.pc = "recipient" /\ v.h = "none"
  BY DEF SenderOK, NoSender, SenderPcs, RecipientStatuses, NoticeStatuses, Channels
<1>2. /\ sender'["creator"] = v /\ DOMAIN sender' = Senders
      /\ \A s \in Senders \ {"creator"} : sender'[s] = sender[s]
      /\ notice = "NONE" /\ notice' = "PENDING" /\ UNCHANGED <<recipient, delivery, sent, doubled, unheard>>
  BY WhoSends DEF CreateNotification, NoteInv, RowsInOrder, NoteTyping
<1>3. \A r \in Retriers : r \in Senders /\ sender'[r] = sender[r]
  BY <1>2, WhoSends
<1> HIDE DEF v
<1>4. NoteTyping'
  BY <1>1, <1>2, <1>3 DEF NoteTyping, NoteInv, NoticeStatuses, CreatorPcs, SenderPcs
<1>5. RowsInOrder'
  BY <1>1, <1>2, <1>3, ChannelOrder DEF RowsInOrder, NoteInv
<1>6. OneSender' /\ SenderKnows'
  BY <1>1, <1>2 DEF OneSender, SenderKnows, NoteInv, Channels
<1>7. RowsTell'
  BY <1>1, <1>2 DEF RowsTell, NoteInv
<1> QED
  BY <1>4, <1>5, <1>6, <1>7 DEF NoteInv

LEMMA CreateRecipientKeeps == NoteInv /\ CreateRecipient => NoteInv'
<1> SUFFICES ASSUME NoteInv, CreateRecipient PROVE NoteInv'
  OBVIOUS
<1>0. PICK on \in SUBSET Channels :
        sender' = [sender EXCEPT !["creator"] = [NoSender EXCEPT !.pc = "channel", !.h = "IN_APP",
                                                                 !.rec = "PENDING", !.on = on]]
  BY DEF CreateRecipient
<1> DEFINE v == [NoSender EXCEPT !.pc = "channel", !.h = "IN_APP", !.rec = "PENDING", !.on = on]
<1>1. SenderOK(v) /\ v.pc = "channel" /\ v.h = "IN_APP"
  BY DEF SenderOK, NoSender, SenderPcs, RecipientStatuses, NoticeStatuses, Channels
<1>2. /\ sender'["creator"] = v /\ DOMAIN sender' = Senders
      /\ \A s \in Senders \ {"creator"} : sender'[s] = sender[s]
      /\ recipient = "NONE" /\ recipient' = "PENDING" /\ UNCHANGED <<notice, delivery, sent, doubled, unheard>>
      /\ notice # "NONE" /\ \A h \in Channels : delivery[h] = "NONE"
  BY <1>0, WhoSends, IdleSender DEF CreateRecipient, NoteInv, RowsInOrder, NoteTyping
<1>3. \A r \in Retriers : r \in Senders /\ sender'[r] = sender[r] /\ SenderOK(sender[r]) /\ sender[r].h = "none"
  BY <1>2, WhoSends DEF NoteInv, NoteTyping, RowsInOrder, SenderOK
<1> HIDE DEF v
<1>4. NoteTyping'
  BY <1>1, <1>2, <1>3 DEF NoteTyping, NoteInv, RecipientStatuses, CreatorPcs, SenderPcs
<1>5. RowsInOrder'
  BY <1>1, <1>2, <1>3, ChannelOrder DEF RowsInOrder, NoteInv, Channels
<1>6. OneSender' /\ SenderKnows'
  BY <1>1, <1>2, <1>3, WhoSends DEF OneSender, SenderKnows, NoteInv, Channels
<1>7. RowsTell'
  BY <1>1, <1>2 DEF RowsTell, NoteInv
<1> QED
  BY <1>4, <1>5, <1>6, <1>7 DEF NoteInv

\* A retry that waits for its channel, or works on it, has a delivery row there, so
\* that the creator's next channel is its own.
LEMMA CreateDeliveryKeeps == NoteInv /\ CreateDelivery => NoteInv'
<1> SUFFICES ASSUME NoteInv, CreateDelivery PROVE NoteInv'
  OBVIOUS
<1> DEFINE b == sender["creator"]
           skip == b.h \notin b.on
           v == IF skip THEN Onwards("creator", b.rec) ELSE [b EXCEPT !.pc = "send"]
<1>1. SenderOK(b) /\ b.pc = "channel" /\ b.h \in Channels /\ delivery[b.h] = "NONE"
      /\ b.rec \in RecipientStatuses
  BY WhoSends DEF CreateDelivery, NoteInv, NoteTyping, RowsInOrder, SenderOK
<1>2. /\ SenderOK(v) /\ v.pc \in {"send", "channel", "refresh"}
      /\ v.pc = "send" => v.h = b.h /\ ~skip
      /\ v.pc = "channel" => v.h = After(b.h) /\ b.h # "PUSH" /\ skip
      /\ v.pc = "refresh" => v.h = "none" /\ b.h = "PUSH" /\ skip
  <2>1. CASE skip
    BY <2>1, <1>1, OnwardsTo, WhoSends
  <2>2. CASE ~skip
    <3> HIDE DEF b
    <3>1. SenderOK([b EXCEPT !.pc = "send"]) /\ [b EXCEPT !.pc = "send"].pc = "send"
          /\ [b EXCEPT !.pc = "send"].h = b.h
      BY <1>1 DEF SenderOK, SenderPcs, Channels
    <3> QED
      BY <2>2, <3>1
  <2> QED
    BY <2>1, <2>2
<1>3. /\ sender'["creator"] = v /\ DOMAIN sender' = Senders
      /\ \A s \in Senders \ {"creator"} : sender'[s] = sender[s]
      /\ delivery'[b.h] = (IF skip THEN "SKIPPED" ELSE "QUEUED")
      /\ \A h \in Channels \ {b.h} : delivery'[h] = delivery[h]
      /\ delivery' \in [Channels -> DeliveryStatuses]
      /\ UNCHANGED <<notice, recipient, sent, doubled, unheard>>
  BY <1>1, WhoSends DEF CreateDelivery, NoteInv, NoteTyping, DeliveryStatuses
<1>4. \A r \in Retriers : r \in Senders /\ sender'[r] = sender[r] /\ sender[r].h # b.h
  BY <1>1, <1>3, WhoSends DEF NoteInv, RowsInOrder, Channels
<1>5. notice # "NONE" /\ recipient # "NONE" /\ \A h \in Later(b.h) : delivery[h] = "NONE"
  BY <1>1, IdleSender DEF NoteInv, RowsInOrder
<1> HIDE DEF b, skip, v
<1>6. NoteTyping'
  BY <1>2, <1>3, <1>4 DEF NoteTyping, NoteInv, CreatorPcs, SenderPcs
<1>7. \A h \in Channels : delivery'[h] = "NONE" <=> h \in Later(b.h)
  BY <1>1, <1>3, <1>5, ChannelOrder DEF Channels, NoteInv, RowsInOrder, b
<1>8. RowsInOrder'
  <2>1. \A r \in Retriers : sender'[r].h # "none" => delivery'[sender'[r].h] # "NONE"
    BY <1>3, <1>4, WhoSends DEF RowsInOrder, NoteInv, NoteTyping, SenderOK
  <2>2. /\ notice' # "NONE" /\ recipient' # "NONE" /\ sender'["creator"] = v
        /\ v.pc \notin {"recipient", "status"}
    BY <1>2, <1>3, <1>5
  <2>3. \A h \in Later(v.h) : delivery'[h] = "NONE"
    BY <1>1, <1>2, <1>7, ChannelOrder DEF Channels
  <2>4. v.h # "none" => \A h \in Channels \ {v.h} : h \notin Later(v.h) => delivery'[h] # "NONE"
    BY <1>1, <1>2, <1>7, ChannelOrder DEF Channels
  <2>5. v.pc = "channel" <=> v.h # "none" /\ delivery'[v.h] = "NONE"
    BY <1>1, <1>2, <1>7, ChannelOrder DEF Channels
  <2>6. v.pc = "refresh" => \A h \in Channels : delivery'[h] # "NONE"
    BY <1>2, <1>7, ChannelOrder
  <2> QED
    BY <2>1, <2>2, <2>3, <2>4, <2>5, <2>6 DEF RowsInOrder
<1>9. \A r \in Retriers : sender[r].h # v.h \/ v.h = "none"
  BY <1>1, <1>2, <1>4, <1>5, ChannelOrder DEF RowsInOrder, NoteInv, Channels
<1>10. OneSender'
  BY <1>3, <1>4, <1>9, WhoSends DEF OneSender, NoteInv, Channels
<1>11. b.h \notin doubled \cup unheard => sent[b.h] = 0
  BY <1>1 DEF RowsTell, NoteInv
<1>12. SenderKnows'
  BY <1>1, <1>2, <1>3, <1>4, <1>5, <1>11, ChannelOrder, WhoSends DEF SenderKnows, NoteInv, Channels, skip
<1>13. RowsTell'
  BY <1>1, <1>2, <1>3, <1>11 DEF RowsTell, NoteInv, b
<1> QED
  BY <1>6, <1>8, <1>10, <1>12, <1>13 DEF NoteInv

\* A sender at work goes on to v; only its own delivery row may change.
LEMMA OrderKept ==
    ASSUME NoteInv, NEW s \in Senders, NEW v, SenderOK(v),
           sender[s].pc \in {"send", "record", "promote"},
           sender'[s] = v, \A x \in Senders \ {s} : sender'[x] = sender[x],
           UNCHANGED notice, recipient' # "NONE",
           delivery'[sender[s].h] # "NONE",
           \A h \in Channels \ {sender[s].h} : delivery'[h] = delivery[h],
           \/ v.h = sender[s].h /\ v.pc \in {"send", "record", "promote"}
           \/ s # "creator" /\ v = NoSender
           \/ s = "creator" /\ sender[s].h = "PUSH" /\ v.pc = "refresh" /\ v.h = "none"
           \/ s = "creator" /\ sender[s].h # "PUSH" /\ v.pc = "channel" /\ v.h = After(sender[s].h)
    PROVE  RowsInOrder'
<1> DEFINE b == sender[s]
           cr == sender["creator"]
<1>1. SenderOK(b) /\ b.h \in Channels /\ SenderOK(cr) /\ "creator" \in Senders
  BY WhoSends DEF NoteInv, NoteTyping, SenderOK
<1>2. delivery[b.h] # "NONE"
  <2>1. CASE s = "creator"
    BY <2>1, <1>1 DEF NoteInv, RowsInOrder, SenderOK
  <2>2. CASE s # "creator"
    BY <2>2, <1>1, WhoSends DEF NoteInv, RowsInOrder, SenderOK
  <2> QED
    BY <2>1, <2>2
<1>3. notice # "NONE" /\ recipient # "NONE"
  BY <1>1, <1>2 DEF NoteInv, RowsInOrder
<1>4. \A h \in Channels : delivery'[h] = "NONE" <=> delivery[h] = "NONE"
  BY <1>2
<1>5. \A r \in Retriers : sender'[r].h # "none" => delivery'[sender'[r].h] # "NONE"
  <2> TAKE r \in Retriers
  <2>1. CASE r = s
    BY <2>1, IdleSender, WhoSends
  <2>2. CASE r # s
    BY <2>2, <1>4, WhoSends DEF NoteInv, RowsInOrder, NoteTyping, SenderOK
  <2> QED
    BY <2>1, <2>2
<1>6. CASE s # "creator"
  <2>1. sender'["creator"] = cr
    BY <1>6, <1>1
  <2>2. Later(cr.h) \subseteq Channels /\ cr.h \in Channels \cup {"none"}
    BY <1>1, ChannelOrder DEF Channels, SenderOK
  <2> QED
    BY <2>1, <2>2, <1>3, <1>4, <1>5 DEF NoteInv, RowsInOrder
<1>7. CASE s = "creator"
  <2>1. sender'["creator"] = v /\ v.pc \notin {"recipient", "status", "idle"}
    BY <1>7
  <2>2. \A h \in Channels : delivery[h] = "NONE" <=> h \in Later(b.h)
    BY <1>7, <1>1, <1>2, ChannelOrder DEF Channels, NoteInv, RowsInOrder
  <2>3. \A h \in Later(v.h) : delivery'[h] = "NONE"
    BY <1>7, <1>1, <1>4, <2>2, ChannelOrder DEF Channels
  <2>4. v.h # "none" => \A h \in Channels \ {v.h} : h \notin Later(v.h) => delivery'[h] # "NONE"
    BY <1>7, <1>1, <1>4, <2>2, ChannelOrder DEF Channels
  <2>5. v.pc = "channel" <=> v.h # "none" /\ delivery'[v.h] = "NONE"
    BY <1>7, <1>1, <1>4, <2>2, ChannelOrder DEF Channels
  <2>6. v.pc = "refresh" => \A h \in Channels : delivery'[h] # "NONE"
    BY <1>7, <1>1, <1>4, <2>2, ChannelOrder DEF Channels
  <2> QED
    BY <1>3, <1>5, <2>1, <2>3, <2>4, <2>5, <2>6 DEF RowsInOrder
<1> QED
  BY <1>6, <1>7

\* The channel answers: it had not taken the message, unless two retries met.
LEMMA SendKeeps ==
    ASSUME NoteInv, NEW s \in Senders, Send(s)
    PROVE  NoteInv'
<1> DEFINE b == sender[s]
<1>0. PICK answer \in Answers(b.h) :
        /\ sent' = [sent EXCEPT ![b.h] = IF answer # "refused" /\ @ < 2 THEN @ + 1 ELSE @]
        /\ unheard' = IF answer = "unheard" THEN unheard \cup {b.h} ELSE unheard
        /\ sender' = [sender EXCEPT ![s].pc = "record",
                                    ![s].new = IF answer = "taken" THEN "DELIVERED" ELSE "FAILED"]
  BY DEF Send
<1> DEFINE new == IF answer = "taken" THEN "DELIVERED" ELSE "FAILED"
           v == [b EXCEPT !.pc = "record", !.new = new]
<1>1. SenderOK(b) /\ b.pc = "send" /\ b.h \in Channels
  BY DEF Send, NoteInv, NoteTyping, SenderOK
<1>2. /\ answer \in {"taken", "refused", "unheard"}
      /\ new \in {"DELIVERED", "FAILED"} /\ (new = "DELIVERED" <=> answer = "taken")
      /\ b.h \notin unheard' => answer # "unheard"
  BY <1>0, <1>1 DEF Answers, Channels
<1>3. /\ sender'[s] = v /\ DOMAIN sender' = Senders
      /\ \A x \in Senders \ {s} : sender'[x] = sender[x]
      /\ UNCHANGED <<notice, recipient, delivery, doubled>> /\ unheard \subseteq unheard'
      /\ unheard' \in SUBSET Channels
  BY <1>0, <1>1 DEF Send, NoteInv, NoteTyping
<1>4. /\ sent' \in [Channels -> 0 .. 2]
      /\ sent'[b.h] = IF answer # "refused" /\ sent[b.h] < 2 THEN sent[b.h] + 1 ELSE sent[b.h]
      /\ \A h \in Channels \ {b.h} : sent'[h] = sent[h]
  <2>1. sent \in [Channels -> 0 .. 2] /\ sent[b.h] \in 0 .. 2
    BY <1>1 DEF NoteInv, NoteTyping
  <2>2. (IF answer # "refused" /\ sent[b.h] < 2 THEN sent[b.h] + 1 ELSE sent[b.h]) \in 0 .. 2
    BY <2>1
  <2> QED
    BY <1>0, <1>1, <2>1, <2>2
<1> HIDE DEF b, new
<1>5. SenderOK(v) /\ v.pc = "record" /\ v.h = b.h /\ v.new = new
  BY <1>1, <1>2 DEF SenderOK, SenderPcs, NoticeStatuses, Channels
<1> HIDE DEF v
<1>6. NoteTyping'
  BY <1>3, <1>4, <1>5, WhoSends DEF NoteTyping, NoteInv, CreatorPcs, RetrierPcs, SenderPcs
<1>7. recipient # "NONE" /\ delivery[b.h] # "NONE"
  BY <1>1, WhoSends DEF NoteInv, RowsInOrder, SenderOK, b
<1>8. RowsInOrder'
  BY <1>1, <1>3, <1>5, <1>7, OrderKept DEF b
<1>9. OneSender'
  BY <1>3, <1>5 DEF OneSender, NoteInv, b
<1>10. b.h \notin doubled =>
         /\ delivery[b.h] = "QUEUED"
         /\ b.h \notin unheard' => sent'[b.h] = IF new = "DELIVERED" THEN 1 ELSE 0
  BY <1>1, <1>2, <1>3, <1>4 DEF SenderKnows, NoteInv, b
<1>11. SenderKnows'
  <2> SUFFICES ASSUME NEW h \in Channels \ doubled, NEW x \in Senders, sender'[x].h = h
               PROVE  /\ sender'[x].pc = "channel" => delivery'[h] = "NONE"
                      /\ sender'[x].pc = "requeue" => delivery'[h] = "FAILED"
                      /\ sender'[x].pc = "send" => delivery'[h] = "QUEUED" /\ (h \notin unheard' => sent'[h] = 0)
                      /\ sender'[x].pc = "record" =>
                           /\ delivery'[h] = "QUEUED"
                           /\ h \notin unheard' => sent'[h] = IF sender'[x].new = "DELIVERED" THEN 1 ELSE 0
                      /\ sender'[x].pc = "promote" => delivery'[h] = "DELIVERED"
    BY <1>3 DEF SenderKnows
  <2>1. CASE x = s
    BY <2>1, <1>3, <1>5, <1>10
  <2>2. CASE x # s
    <3>1. h # b.h
      BY <2>2, <1>3 DEF OneSender, NoteInv, b
    <3> QED
      BY <2>2, <3>1, <1>3, <1>4 DEF SenderKnows, NoteInv
  <2> QED
    BY <2>1, <2>2
<1>12. RowsTell'
  <2>1. sender'["creator"].pc = "status" => sender'["creator"] = sender["creator"]
    BY <1>3, <1>5, WhoSends
  <2> QED
    BY <2>1, <1>2, <1>3, <1>4, <1>10 DEF RowsTell, NoteInv
<1> QED
  BY <1>6, <1>8, <1>9, <1>11, <1>12 DEF NoteInv

\* The answer is committed: the row says what was sent.
LEMMA RecordKeeps ==
    ASSUME NoteInv, NEW s \in Senders, Record(s)
    PROVE  NoteInv'
<1> DEFINE b == sender[s]
           v == IF b.new = "DELIVERED" /\ b.rec = "PENDING" THEN [b EXCEPT !.pc = "promote"]
                ELSE Onwards(s, b.rec)
<1>1. /\ SenderOK(b) /\ b.pc = "record" /\ b.h \in Channels /\ b.new \in {"DELIVERED", "FAILED"}
      /\ b.rec \in RecipientStatuses
  BY DEF Record, NoteInv, NoteTyping, SenderOK
<1>2. /\ sender'[s] = v /\ DOMAIN sender' = Senders
      /\ \A x \in Senders \ {s} : sender'[x] = sender[x]
      /\ delivery' \in [Channels -> DeliveryStatuses]
      /\ delivery'[b.h] = b.new /\ \A h \in Channels \ {b.h} : delivery'[h] = delivery[h]
      /\ UNCHANGED <<notice, recipient, sent, doubled, unheard>>
  BY <1>1 DEF Record, NoteInv, NoteTyping, DeliveryStatuses
<1>3. /\ SenderOK(v)
      /\ \/ v.h = b.h /\ v.pc = "promote" /\ b.new = "DELIVERED"
         \/ s # "creator" /\ v = NoSender
         \/ s = "creator" /\ b.h = "PUSH" /\ v.pc = "refresh" /\ v.h = "none"
         \/ s = "creator" /\ b.h # "PUSH" /\ v.pc = "channel" /\ v.h = After(b.h)
  <2>1. CASE b.new = "DELIVERED" /\ b.rec = "PENDING"
    <3> HIDE DEF b
    <3>1. SenderOK([b EXCEPT !.pc = "promote"]) /\ [b EXCEPT !.pc = "promote"].h = b.h
          /\ [b EXCEPT !.pc = "promote"].pc = "promote"
      BY <1>1 DEF SenderOK, SenderPcs, Channels
    <3> QED
      BY <2>1, <3>1
  <2>2. CASE ~(b.new = "DELIVERED" /\ b.rec = "PENDING")
    BY <2>2, <1>1, OnwardsTo
  <2> QED
    BY <2>1, <2>2
<1> HIDE DEF v
<1>4. v.pc \in {"promote", "idle", "refresh", "channel"} /\ (s # "creator" => v.pc \in {"promote", "idle"})
  BY <1>3, IdleSender
<1>5. NoteTyping'
  BY <1>2, <1>3, <1>4, WhoSends DEF NoteTyping, NoteInv, CreatorPcs, RetrierPcs, SenderPcs
<1>6. recipient # "NONE" /\ delivery[b.h] # "NONE"
  BY <1>1, WhoSends DEF NoteInv, RowsInOrder, SenderOK
<1>7. RowsInOrder'
  BY <1>1, <1>2, <1>3, <1>6, OrderKept
<1>8. s = "creator" /\ v.pc = "channel" =>
        v.h \in Channels /\ v.h # b.h /\ delivery[v.h] = "NONE" /\ \A r \in Retriers : sender[r].h # v.h
  BY <1>1, <1>3, ChannelOrder, IdleSender DEF NoteInv, RowsInOrder, Channels
<1>9. \A x \in Senders \ {s} : sender[x].h \notin doubled /\ sender[x].h \in Channels =>
        sender[x].h # b.h /\ sender[x].h # v.h
  <2> SUFFICES ASSUME NEW x \in Senders \ {s}, sender[x].h \notin doubled, sender[x].h \in Channels
               PROVE  sender[x].h # b.h /\ sender[x].h # v.h
    OBVIOUS
  <2>1. sender[x].h # b.h
    BY DEF OneSender, NoteInv
  <2> QED
    BY <2>1, <1>3, <1>4, <1>8, IdleSender, WhoSends DEF Channels
<1>10. OneSender'
  BY <1>2, <1>9 DEF OneSender, NoteInv
<1>11. b.h \notin doubled =>
         /\ delivery[b.h] = "QUEUED"
         /\ b.h \notin unheard => sent[b.h] = IF b.new = "DELIVERED" THEN 1 ELSE 0
  BY <1>1 DEF SenderKnows, NoteInv
<1>12. SenderKnows'
  <2> SUFFICES ASSUME NEW h \in Channels \ doubled, NEW x \in Senders, sender'[x].h = h
               PROVE  /\ sender'[x].pc = "channel" => delivery'[h] = "NONE"
                      /\ sender'[x].pc = "requeue" => delivery'[h] = "FAILED"
                      /\ sender'[x].pc = "send" => delivery'[h] = "QUEUED" /\ (h \notin unheard' => sent'[h] = 0)
                      /\ sender'[x].pc = "record" =>
                           /\ delivery'[h] = "QUEUED"
                           /\ h \notin unheard' => sent'[h] = IF sender'[x].new = "DELIVERED" THEN 1 ELSE 0
                      /\ sender'[x].pc = "promote" => delivery'[h] = "DELIVERED"
    BY <1>2 DEF SenderKnows
  <2>1. CASE x = s
    BY <2>1, <1>1, <1>2, <1>3, <1>4, <1>8, IdleSender DEF Channels
  <2>2. CASE x # s
    BY <2>2, <1>2, <1>9 DEF SenderKnows, NoteInv
  <2> QED
    BY <2>1, <2>2
<1>13. RowsTell'
  <2>1. sender'["creator"].pc = "status" => sender'["creator"] = sender["creator"]
    BY <1>2, <1>4, WhoSends
  <2>2. b.h \notin doubled => notice # "SENT"
          /\ ~(sender["creator"].pc = "status" /\ sender["creator"].new = "SENT")
    BY <1>1, <1>11 DEF RowsTell, NoteInv
  <2> QED
    BY <2>1, <2>2, <1>1, <1>2, <1>11 DEF RowsTell, NoteInv
<1> QED
  BY <1>5, <1>7, <1>10, <1>12, <1>13 DEF NoteInv

LEMMA PromoteKeeps ==
    ASSUME NoteInv, NEW s \in Senders, Promote(s)
    PROVE  NoteInv'
<1> DEFINE b == sender[s]
           v == Onwards(s, "DELIVERED")
<1>1. SenderOK(b) /\ b.pc = "promote" /\ b.h \in Channels /\ "DELIVERED" \in RecipientStatuses
  BY DEF Promote, NoteInv, NoteTyping, SenderOK, RecipientStatuses
<1>2. /\ sender'[s] = v /\ DOMAIN sender' = Senders
      /\ \A x \in Senders \ {s} : sender'[x] = sender[x]
      /\ recipient' = "DELIVERED" /\ UNCHANGED <<notice, delivery, sent, doubled, unheard>>
  BY DEF Promote, NoteInv, NoteTyping
<1>3. /\ SenderOK(v)
      /\ \/ s # "creator" /\ v = NoSender
         \/ s = "creator" /\ b.h = "PUSH" /\ v.pc = "refresh" /\ v.h = "none"
         \/ s = "creator" /\ b.h # "PUSH" /\ v.pc = "channel" /\ v.h = After(b.h)
  BY <1>1, OnwardsTo
<1> HIDE DEF v
<1>4. v.pc \in {"idle", "refresh", "channel"} /\ (s # "creator" => v.pc = "idle")
  BY <1>3, IdleSender
<1>5. NoteTyping'
  BY <1>1, <1>2, <1>3, <1>4, WhoSends DEF NoteTyping, NoteInv, CreatorPcs, RetrierPcs, SenderPcs
<1>6. delivery[b.h] # "NONE"
  BY <1>1, WhoSends DEF NoteInv, RowsInOrder, SenderOK
<1>7. RowsInOrder'
  BY <1>1, <1>2, <1>3, <1>6, OrderKept
<1>8. s = "creator" /\ v.pc = "channel" =>
        v.h \in Channels /\ delivery[v.h] = "NONE" /\ \A r \in Retriers : sender[r].h # v.h
  BY <1>1, <1>3, ChannelOrder, IdleSender DEF NoteInv, RowsInOrder, Channels
<1>9. \A x \in Senders \ {s} : sender[x].h \in Channels => sender[x].h # v.h
  BY <1>3, <1>4, <1>8, IdleSender, WhoSends DEF Channels
<1>10. OneSender'
  BY <1>2, <1>9 DEF OneSender, NoteInv
<1>11. SenderKnows'
  <2> SUFFICES ASSUME NEW h \in Channels \ doubled, NEW x \in Senders, sender'[x].h = h
               PROVE  /\ sender'[x].pc = "channel" => delivery'[h] = "NONE"
                      /\ sender'[x].pc = "requeue" => delivery'[h] = "FAILED"
                      /\ sender'[x].pc = "send" => delivery'[h] = "QUEUED" /\ (h \notin unheard' => sent'[h] = 0)
                      /\ sender'[x].pc = "record" =>
                           /\ delivery'[h] = "QUEUED"
                           /\ h \notin unheard' => sent'[h] = IF sender'[x].new = "DELIVERED" THEN 1 ELSE 0
                      /\ sender'[x].pc = "promote" => delivery'[h] = "DELIVERED"
    BY <1>2 DEF SenderKnows
  <2>1. CASE x = s
    BY <2>1, <1>2, <1>3, <1>4, <1>8, IdleSender DEF Channels
  <2>2. CASE x # s
    BY <2>2, <1>2 DEF SenderKnows, NoteInv
  <2> QED
    BY <2>1, <2>2
<1>12. RowsTell'
  <2>1. sender'["creator"].pc = "status" => sender'["creator"] = sender["creator"]
    BY <1>2, <1>4, WhoSends
  <2> QED
    BY <2>1, <1>2 DEF RowsTell, NoteInv
<1> QED
  BY <1>5, <1>7, <1>10, <1>11, <1>12 DEF NoteInv

\* A notification becomes SENT when every delivery was DELIVERED or SKIPPED, and
\* neither a retry nor a sender of its own can take such a row back.
LEMMA RefreshKeeps ==
    ASSUME NoteInv, RefreshReads \/ RefreshCommits
    PROVE  NoteInv'
<1> DEFINE b == sender["creator"]
<1>0. SenderOK(b) /\ "creator" \in Senders
  BY WhoSends DEF NoteInv, NoteTyping
<1>1. CASE RefreshReads
  <2> DEFINE new == DeriveStatus({delivery[h] : h \in Channels})
             v == [b EXCEPT !.pc = "status", !.new = new]
  <2>1. new \in NoticeStatuses
    BY DEF DeriveStatus, NoticeStatuses
  <2>2. b.pc = "refresh" /\ \A h \in Channels : delivery[h] # "NONE"
    BY <1>1 DEF RefreshReads, NoteInv, RowsInOrder
  <2>3. new = "SENT" => \A h \in Channels : delivery[h] \in {"DELIVERED", "SKIPPED"}
    <3>1. new = "SENT" => /\ "QUEUED" \notin {delivery[h] : h \in Channels}
                          /\ "FAILED" \notin {delivery[h] : h \in Channels}
      BY DEF DeriveStatus
    <3> QED
      BY <3>1, <2>2 DEF NoteInv, NoteTyping, DeliveryStatuses
  <2>4. /\ sender'["creator"] = v /\ DOMAIN sender' = Senders
        /\ \A x \in Senders \ {"creator"} : sender'[x] = sender[x]
        /\ UNCHANGED <<notice, recipient, delivery, sent, doubled, unheard>>
    BY <1>1, WhoSends DEF RefreshReads, NoteInv, NoteTyping
  <2> HIDE DEF new, b
  <2>5. SenderOK(v) /\ v.pc = "status" /\ v.h = "none" /\ v.new = new /\ b.h = "none"
    BY <1>0, <2>1, <2>2 DEF SenderOK, SenderPcs, NoticeStatuses, Channels
  <2> HIDE DEF v
  <2>6. \A r \in Retriers : r \in Senders /\ sender'[r] = sender[r]
    BY <2>4, WhoSends
  <2>7. NoteTyping'
    BY <2>4, <2>5, <2>6 DEF NoteTyping, NoteInv, CreatorPcs, SenderPcs
  <2>8. RowsInOrder'
    BY <2>2, <2>4, <2>5, <2>6, ChannelOrder, IdleSender DEF NoteInv, RowsInOrder, b
  <2>9. OneSender' /\ SenderKnows'
    BY <2>4, <2>5 DEF OneSender, SenderKnows, NoteInv, Channels
  <2>10. RowsTell'
    BY <2>3, <2>4, <2>5 DEF RowsTell, NoteInv
  <2> QED
    BY <2>7, <2>8, <2>9, <2>10 DEF NoteInv
<1>2. CASE RefreshCommits
  <2>1. b.pc = "status" /\ b.h = "none" /\ b.new \in NoticeStatuses
    BY <1>0, <1>2 DEF RefreshCommits, SenderOK
  <2>2. /\ sender'["creator"] = NoSender /\ DOMAIN sender' = Senders
        /\ \A x \in Senders \ {"creator"} : sender'[x] = sender[x]
        /\ notice' = b.new /\ UNCHANGED <<recipient, delivery, sent, doubled, unheard>>
    BY <1>2, WhoSends DEF RefreshCommits, NoteInv, NoteTyping
  <2>3. \A r \in Retriers : r \in Senders /\ sender'[r] = sender[r]
    BY <2>2, WhoSends
  <2>4. NoteTyping'
    BY <2>1, <2>2, <2>3, IdleSender DEF NoteTyping, NoteInv, CreatorPcs, SenderPcs
  <2>5. RowsInOrder'
    BY <2>1, <2>2, <2>3, ChannelOrder, IdleSender DEF NoteInv, RowsInOrder, NoticeStatuses
  <2>6. OneSender' /\ SenderKnows'
    BY <2>2, IdleSender DEF OneSender, SenderKnows, NoteInv, Channels
  <2>7. RowsTell'
    BY <2>1, <2>2, IdleSender DEF RowsTell, NoteInv
  <2> QED
    BY <2>4, <2>5, <2>6, <2>7 DEF NoteInv
<1> QED
  BY <1>1, <1>2

-----------------------------------------------------------------------------
(* Retries, deaths and the user *)

\* A retry finds the delivery FAILED, so that the creator is past it, and another
\* retry of it makes the channel doubled.
LEMMA RetryBeginsKeeps ==
    ASSUME NoteInv, NEW s \in Retriers, NEW h \in Channels, RetryBegins(s, h)
    PROVE  NoteInv'
<1> DEFINE v == [NoSender EXCEPT !.pc = "requeue", !.h = h]
<1>1. SenderOK(v) /\ v.pc = "requeue" /\ v.h = h
  BY DEF SenderOK, NoSender, SenderPcs, RecipientStatuses, NoticeStatuses, Channels
<1>2. /\ sender'[s] = v /\ DOMAIN sender' = Senders /\ s \in Senders
      /\ \A x \in Senders \ {s} : sender'[x] = sender[x]
      /\ UNCHANGED <<notice, recipient, delivery, sent, unheard>>
      /\ sender[s] = NoSender /\ delivery[h] = "FAILED"
  BY WhoSends DEF RetryBegins, MayRetryDelivery, NoteInv, NoteTyping
<1>3. /\ doubled' \in SUBSET Channels /\ doubled \subseteq doubled'
      /\ h \notin doubled' => \A x \in Retriers : sender[x].h # h
  BY DEF RetryBegins, NoteInv, NoteTyping
<1> HIDE DEF v
<1>4. sender'["creator"] = sender["creator"] /\ s # "creator" /\ "creator" \in Senders
  BY <1>2, WhoSends
<1>5. NoteTyping'
  BY <1>1, <1>2, <1>3, <1>4, WhoSends DEF NoteTyping, NoteInv, RetrierPcs
<1>6. RowsInOrder'
  <2>1. \A r \in Retriers : sender'[r].h # "none" => delivery'[sender'[r].h] # "NONE"
    BY <1>1, <1>2, WhoSends DEF NoteInv, RowsInOrder
  <2> QED
    BY <2>1, <1>2, <1>4 DEF NoteInv, RowsInOrder
<1>7. h \notin doubled' => sender["creator"].h # h
  <2> SUFFICES ASSUME h \notin doubled', sender["creator"].h = h PROVE FALSE
    OBVIOUS
  <2>1. SenderOK(sender["creator"]) /\ sender["creator"].pc # "requeue" /\ h # "none"
    BY <1>4 DEF NoteInv, NoteTyping, CreatorPcs, Channels
  <2>2. sender["creator"].pc \in {"channel", "send", "record", "promote"}
    BY <2>1 DEF SenderOK
  <2> QED
    BY <2>2, <1>2, <1>3, <1>4 DEF NoteInv, SenderKnows
<1>8. \A x \in Senders : h \notin doubled' => sender[x].h # h
  BY <1>3, <1>7, WhoSends
<1>9. OneSender'
  BY <1>1, <1>2, <1>3, <1>8 DEF OneSender, NoteInv
<1>10. SenderKnows'
  BY <1>1, <1>2, <1>3, <1>8 DEF SenderKnows, NoteInv
<1>11. RowsTell'
  BY <1>2, <1>3, <1>4 DEF RowsTell, NoteInv
<1> QED
  BY <1>5, <1>6, <1>9, <1>10, <1>11 DEF NoteInv

LEMMA RequeueKeeps ==
    ASSUME NoteInv, NEW s \in Retriers, Requeue(s)
    PROVE  NoteInv'
<1> DEFINE b == sender[s]
           v == [b EXCEPT !.pc = "send", !.rec = recipient]
<1>1. SenderOK(b) /\ b.pc = "requeue" /\ b.h \in Channels /\ s \in Senders /\ recipient \in RecipientStatuses
  BY WhoSends DEF Requeue, NoteInv, NoteTyping, SenderOK
<1>2. /\ sender'[s] = v /\ DOMAIN sender' = Senders
      /\ \A x \in Senders \ {s} : sender'[x] = sender[x]
      /\ delivery' \in [Channels -> DeliveryStatuses]
      /\ delivery'[b.h] = "QUEUED" /\ \A h \in Channels \ {b.h} : delivery'[h] = delivery[h]
      /\ UNCHANGED <<notice, recipient, sent, doubled, unheard>>
  BY <1>1 DEF Requeue, NoteInv, NoteTyping, DeliveryStatuses
<1> HIDE DEF b
<1>3. SenderOK(v) /\ v.pc = "send" /\ v.h = b.h
  BY <1>1 DEF SenderOK, SenderPcs, Channels
<1> HIDE DEF v
<1>4. /\ sender'["creator"] = sender["creator"] /\ SenderOK(sender["creator"]) /\ "creator" \in Senders
      /\ s # "creator"
  BY <1>2, WhoSends DEF NoteInv, NoteTyping
<1>5. NoteTyping'
  BY <1>2, <1>3, <1>4, WhoSends DEF NoteTyping, NoteInv, RetrierPcs
<1>6. delivery[b.h] # "NONE" /\ recipient # "NONE"
  BY <1>1 DEF NoteInv, RowsInOrder, Channels, b
<1>7. RowsInOrder'
  <2>1. \A r \in Retriers : sender'[r].h # "none" => delivery'[sender'[r].h] # "NONE"
    BY <1>1, <1>2, <1>3, WhoSends DEF NoteInv, RowsInOrder, NoteTyping, SenderOK
  <2>2. \A h \in Channels : delivery'[h] = "NONE" <=> delivery[h] = "NONE"
    BY <1>2, <1>6
  <2>3. Later(sender["creator"].h) \subseteq Channels /\ sender["creator"].h \in Channels \cup {"none"}
    BY <1>4, ChannelOrder DEF Channels, SenderOK
  <2> QED
    BY <2>1, <2>2, <2>3, <1>2, <1>4, <1>6 DEF NoteInv, RowsInOrder
<1>8. OneSender'
  BY <1>2, <1>3 DEF OneSender, NoteInv, b
<1>9. b.h \notin doubled => delivery[b.h] = "FAILED" /\ (b.h \notin unheard => sent[b.h] = 0)
  BY <1>1 DEF SenderKnows, RowsTell, NoteInv, b
<1>10. SenderKnows'
  <2> SUFFICES ASSUME NEW h \in Channels \ doubled, NEW x \in Senders, sender'[x].h = h
               PROVE  /\ sender'[x].pc = "channel" => delivery'[h] = "NONE"
                      /\ sender'[x].pc = "requeue" => delivery'[h] = "FAILED"
                      /\ sender'[x].pc = "send" => delivery'[h] = "QUEUED" /\ (h \notin unheard' => sent'[h] = 0)
                      /\ sender'[x].pc = "record" =>
                           /\ delivery'[h] = "QUEUED"
                           /\ h \notin unheard' => sent'[h] = IF sender'[x].new = "DELIVERED" THEN 1 ELSE 0
                      /\ sender'[x].pc = "promote" => delivery'[h] = "DELIVERED"
    BY <1>2 DEF SenderKnows
  <2>1. CASE x = s
    BY <2>1, <1>2, <1>3, <1>9
  <2>2. CASE x # s
    <3>1. h # b.h
      BY <2>2, <1>1, <1>2 DEF OneSender, NoteInv, b
    <3> QED
      BY <2>2, <3>1, <1>2 DEF SenderKnows, NoteInv
  <2> QED
    BY <2>1, <2>2
<1>11. RowsTell'
  <2>1. b.h \notin doubled => notice # "SENT"
          /\ ~(sender["creator"].pc = "status" /\ sender["creator"].new = "SENT")
    BY <1>1, <1>9 DEF RowsTell, NoteInv
  <2> QED
    BY <2>1, <1>1, <1>2, <1>4, <1>9 DEF RowsTell, NoteInv
<1> QED
  BY <1>5, <1>7, <1>8, <1>10, <1>11 DEF NoteInv

\* The promises about rows do not need a sender that lives.
LEMMA SenderDiesKeeps ==
    ASSUME NoteInv, NEW s \in Senders, SenderDies(s)
    PROVE  NoteInv'
<1>1. /\ sender'[s] = NoSender /\ DOMAIN sender' = Senders
      /\ \A x \in Senders \ {s} : sender'[x] = sender[x]
      /\ UNCHANGED <<notice, recipient, delivery, sent, doubled, unheard>>
  BY DEF SenderDies, NoteInv, NoteTyping
<1>2. NoteTyping'
  BY <1>1, IdleSender, WhoSends DEF NoteTyping, NoteInv, CreatorPcs, RetrierPcs, SenderPcs
<1>3. RowsInOrder'
  <2>1. \A r \in Retriers : sender'[r].h # "none" => delivery'[sender'[r].h] # "NONE"
    BY <1>1, WhoSends, IdleSender DEF NoteInv, RowsInOrder
  <2>2. sender'["creator"] \in {NoSender, sender["creator"]}
    BY <1>1, WhoSends
  <2> QED
    BY <2>1, <2>2, <1>1, IdleSender, ChannelOrder DEF NoteInv, RowsInOrder
<1>4. OneSender' /\ SenderKnows'
  BY <1>1, IdleSender DEF OneSender, SenderKnows, NoteInv, Channels
<1>5. RowsTell'
  <2>1. sender'["creator"].pc = "status" => sender'["creator"] = sender["creator"]
    BY <1>1, WhoSends, IdleSender
  <2> QED
    BY <2>1, <1>1 DEF RowsTell, NoteInv
<1> QED
  BY <1>2, <1>3, <1>4, <1>5 DEF NoteInv

LEMMA UserMarksKeeps == NoteInv /\ (UserMarks \/ UNCHANGED noteVars) => NoteInv'
<1> SUFFICES ASSUME NoteInv, UserMarks \/ UNCHANGED noteVars PROVE NoteInv'
  OBVIOUS
<1>1. /\ UNCHANGED <<notice, delivery, sender, sent, doubled, unheard>>
      /\ recipient' \in RecipientStatuses /\ (recipient' = "NONE" <=> recipient = "NONE")
  BY DEF UserMarks, noteVars, NoteInv, NoteTyping, RecipientStatuses
<1>2. NoteTyping'
  BY <1>1 DEF NoteTyping, NoteInv
<1>3. RowsInOrder'
  BY <1>1 DEF RowsInOrder, NoteInv
<1>4. OneSender' /\ SenderKnows' /\ RowsTell'
  BY <1>1 DEF OneSender, SenderKnows, RowsTell, NoteInv
<1> QED
  BY <1>2, <1>3, <1>4 DEF NoteInv

LEMMA NoteStep == NoteInv /\ [NoteNext]_noteVars => NoteInv'
<1> SUFFICES ASSUME NoteInv, [NoteNext]_noteVars PROVE NoteInv'
  OBVIOUS
<1>1. CASE CreateNotification \/ CreateRecipient \/ CreateDelivery
  BY <1>1, CreateNotificationKeeps, CreateRecipientKeeps, CreateDeliveryKeeps
<1>2. CASE RefreshReads \/ RefreshCommits
  BY <1>2, RefreshKeeps
<1>3. ASSUME NEW s \in Senders, Send(s) \/ Record(s) PROVE NoteInv'
  BY <1>3, SendKeeps, RecordKeeps
<1>4. ASSUME NEW s \in Senders, Promote(s) \/ SenderDies(s) PROVE NoteInv'
  BY <1>4, PromoteKeeps, SenderDiesKeeps
<1>5. ASSUME NEW r \in Retriers, Requeue(r) \/ \E h \in Channels : RetryBegins(r, h) PROVE NoteInv'
  BY <1>5, RequeueKeeps, RetryBeginsKeeps
<1>6. CASE UserMarks \/ UNCHANGED noteVars
  BY <1>6, UserMarksKeeps
<1> QED
  BY <1>1, <1>2, <1>3, <1>4, <1>5, <1>6 DEF NoteNext

\* Whatever is retried, DELIVERED is recorded after the channel took the message, and
\* nobody works on a delivery that was skipped.
TakenInv ==
    /\ \A h \in Channels : /\ delivery[h] \in {"NONE", "SKIPPED"} => sent[h] = 0
                           /\ delivery[h] = "DELIVERED" => sent[h] > 0
    /\ \A s \in Senders :
         /\ sender[s].pc \in {"send", "record", "promote", "requeue"} =>
              delivery[sender[s].h] \notin {"NONE", "SKIPPED"}
         /\ sender[s].pc = "record" /\ sender[s].new = "DELIVERED" => sent[sender[s].h] > 0

LEMMA TakenStep == NoteInv /\ TakenInv /\ [NoteNext]_noteVars => TakenInv'
<1> SUFFICES ASSUME NoteInv, TakenInv, [NoteNext]_noteVars PROVE TakenInv'
  OBVIOUS
<1>0. /\ sent \in [Channels -> 0 .. 2] /\ delivery \in [Channels -> DeliveryStatuses]
      /\ DOMAIN sender = Senders /\ \A s \in Senders : SenderOK(sender[s])
  BY DEF NoteInv, NoteTyping
<1>1. CASE CreateNotification \/ CreateRecipient \/ RefreshReads \/ RefreshCommits \/ UserMarks \/ UNCHANGED noteVars
  <2>1. UNCHANGED <<delivery, sent>>
    BY <1>1 DEF CreateNotification, CreateRecipient, RefreshReads, RefreshCommits, UserMarks, noteVars
  <2>2. \/ sender' = sender
        \/ /\ sender'["creator"].pc \in {"idle", "recipient", "channel", "status"}
           /\ \A s \in Senders \ {"creator"} : sender'[s] = sender[s]
    <3>1. CASE UserMarks \/ UNCHANGED noteVars
      BY <3>1 DEF UserMarks, noteVars
    <3>2. CASE CreateNotification \/ RefreshReads
      BY <3>2, <1>0, WhoSends DEF CreateNotification, RefreshReads, SenderOK
    <3>3. CASE CreateRecipient
      BY <3>3, <1>0, WhoSends DEF CreateRecipient, NoSender
    <3>4. CASE RefreshCommits
      BY <3>4, <1>0, WhoSends, IdleSender DEF RefreshCommits
    <3> QED
      BY <1>1, <3>1, <3>2, <3>3, <3>4
  <2> QED
    BY <2>1, <2>2 DEF TakenInv
<1>2. CASE CreateDelivery
  <2> DEFINE b == sender["creator"]
             skip == b.h \notin b.on
             v == sender'["creator"]
  <2>1. b.pc = "channel" /\ SenderOK(b) /\ b.h \in Channels /\ delivery[b.h] = "NONE" /\ sent[b.h] = 0
    BY <1>0, <1>2, WhoSends DEF CreateDelivery, NoteInv, RowsInOrder, SenderOK, TakenInv
  <2>2. /\ delivery'[b.h] = IF skip THEN "SKIPPED" ELSE "QUEUED"
        /\ \A h \in Channels \ {b.h} : delivery'[h] = delivery[h]
        /\ sent' = sent /\ \A x \in Senders \ {"creator"} : sender'[x] = sender[x]
        /\ v = IF skip THEN Onwards("creator", b.rec) ELSE [b EXCEPT !.pc = "send"]
    BY <1>0, <1>2, <2>1, WhoSends DEF CreateDelivery
  <2>3. skip => v.pc \in {"refresh", "channel"}
    BY <2>1, <2>2, OnwardsTo, WhoSends DEF SenderOK
  <2>4. ~skip => v.pc = "send" /\ v.h = b.h
    BY <2>1, <2>2 DEF SenderOK
  <2>5. \A x \in Senders \ {"creator"} : sender[x].h # b.h
    BY <2>1, WhoSends DEF NoteInv, RowsInOrder, Channels
  <2>6. \A x \in Senders \ {"creator"} :
          sender[x].pc \in {"send", "record", "promote", "requeue"} => sender[x].h \in Channels \ {b.h}
    BY <1>0, <2>5 DEF SenderOK
  <2> HIDE DEF v, b, skip
  <2>7. \A h \in Channels : /\ delivery'[h] \in {"NONE", "SKIPPED"} => sent'[h] = 0
                            /\ delivery'[h] = "DELIVERED" => sent'[h] > 0
    BY <2>1, <2>2 DEF TakenInv
  <2>8. \A s \in Senders \ {"creator"} :
         /\ sender'[s].pc \in {"send", "record", "promote", "requeue"} =>
              delivery'[sender'[s].h] \notin {"NONE", "SKIPPED"}
         /\ sender'[s].pc = "record" /\ sender'[s].new = "DELIVERED" => sent'[sender'[s].h] > 0
    BY <2>2, <2>6 DEF TakenInv
  <2>9. /\ v.pc \in {"send", "record", "promote", "requeue"} => delivery'[v.h] \notin {"NONE", "SKIPPED"}
        /\ v.pc # "record"
    BY <2>1, <2>2, <2>3, <2>4
  <2> QED
    BY <2>7, <2>8, <2>9 DEF TakenInv, v
<1>3. ASSUME NEW s \in Senders, Send(s) PROVE TakenInv'
  <2> DEFINE h == sender[s].h
  <2>1. h \in Channels /\ SenderOK(sender[s]) /\ delivery[h] \notin {"NONE", "SKIPPED"}
    BY <1>0, <1>3 DEF Send, SenderOK, TakenInv
  <2>2. /\ delivery' = delivery /\ \A x \in Senders \ {s} : sender'[x] = sender[x]
        /\ sender'[s].pc = "record" /\ sender'[s].h = h
        /\ \A g \in Channels : sent'[g] \in 0 .. 2 /\ sent'[g] >= sent[g]
        /\ \A g \in Channels \ {h} : sent'[g] = sent[g]
        /\ sender'[s].new = "DELIVERED" => sent'[h] > 0
    BY <1>0, <1>3, <2>1 DEF Send, SenderOK
  <2>3. \A g \in Channels : sent[g] \in 0 .. 2
    BY <1>0
  <2>4. \A x \in Senders : sender[x].pc = "record" => sender[x].h \in Channels
    BY <1>0 DEF SenderOK
  <2> HIDE DEF h
  <2>5. \A g \in Channels : /\ delivery'[g] \in {"NONE", "SKIPPED"} => sent'[g] = 0
                            /\ delivery'[g] = "DELIVERED" => sent'[g] > 0
    BY <2>1, <2>2, <2>3 DEF TakenInv
  <2>6. \A x \in Senders : sender'[x].pc \in {"send", "record", "promote", "requeue"} =>
              delivery'[sender'[x].h] \notin {"NONE", "SKIPPED"}
    BY <2>1, <2>2 DEF TakenInv
  <2>7. \A x \in Senders : sender'[x].pc = "record" /\ sender'[x].new = "DELIVERED" => sent'[sender'[x].h] > 0
    BY <2>2, <2>3, <2>4 DEF TakenInv
  <2> QED
    BY <2>5, <2>6, <2>7 DEF TakenInv
<1>4. ASSUME NEW s \in Senders, Record(s) \/ Promote(s) \/ SenderDies(s) PROVE TakenInv'
  <2> DEFINE h == sender[s].h
  <2>1. SenderOK(sender[s]) /\ (~SenderDies(s) => h \in Channels /\ sender[s].rec \in RecipientStatuses)
    BY <1>0, <1>4 DEF Record, Promote, SenderOK
  <2>2. /\ sent' = sent /\ \A x \in Senders \ {s} : sender'[x] = sender[x]
        /\ \/ delivery' = delivery
           \/ /\ sender[s].pc = "record" /\ delivery'[h] = sender[s].new
              /\ \A g \in Channels \ {h} : delivery'[g] = delivery[g]
    BY <1>0, <1>4, <2>1 DEF Record, Promote, SenderDies
  <2>3. \/ sender'[s].pc \in {"idle", "refresh", "channel"}
        \/ sender'[s].pc = "promote" /\ sender'[s].h = h /\ sender[s].pc = "record"
    <3>1. CASE SenderDies(s)
      BY <1>0, <3>1, IdleSender DEF SenderDies
    <3>2. CASE Promote(s)
      <4>1. "DELIVERED" \in RecipientStatuses /\ SenderOK(sender[s]) /\ sender[s].h \in Channels
        BY <1>0, <3>2 DEF RecipientStatuses, Promote, SenderOK
      <4>2. sender'[s] = Onwards(s, "DELIVERED")
        BY <1>0, <3>2 DEF Promote
      <4> QED
        BY <4>1, <4>2, OnwardsTo, IdleSender
    <3>3. CASE Record(s)
      <4>1. sender[s].rec \in RecipientStatuses /\ SenderOK(sender[s]) /\ sender[s].h \in Channels
        BY <1>0, <3>3 DEF Record, SenderOK
      <4>2. \/ sender'[s] = Onwards(s, sender[s].rec)
            \/ sender'[s] = [sender[s] EXCEPT !.pc = "promote"]
        BY <1>0, <3>3 DEF Record
      <4>3. Onwards(s, sender[s].rec).pc \in {"idle", "refresh", "channel"}
        BY <4>1, OnwardsTo, IdleSender
      <4>4. /\ [sender[s] EXCEPT !.pc = "promote"].pc = "promote"
            /\ [sender[s] EXCEPT !.pc = "promote"].h = h
        BY <4>1 DEF SenderOK
      <4> QED
        BY <4>2, <4>3, <4>4, <3>3 DEF Record
    <3> QED
      BY <1>4, <3>1, <3>2, <3>3
  <2>4. sender[s].pc = "record" =>
          h \in Channels /\ sender[s].new \in {"DELIVERED", "FAILED"} /\ (sender[s].new = "DELIVERED" => sent[h] > 0)
    BY <2>1 DEF SenderOK, TakenInv
  <2>5. \A x \in Senders : sender[x].pc \in {"send", "record", "promote", "requeue"} => sender[x].h \in Channels
    BY <1>0 DEF SenderOK
  <2> HIDE DEF h
  <2>6. \A g \in Channels : /\ delivery'[g] \in {"NONE", "SKIPPED"} => sent'[g] = 0
                            /\ delivery'[g] = "DELIVERED" => sent'[g] > 0
    BY <2>2, <2>4 DEF TakenInv
  <2>7. \A g \in Channels : delivery[g] \notin {"NONE", "SKIPPED"} => delivery'[g] \notin {"NONE", "SKIPPED"}
    BY <2>2, <2>4
  <2>8. \A x \in Senders : sender'[x].pc \in {"send", "record", "promote", "requeue"} =>
              delivery'[sender'[x].h] \notin {"NONE", "SKIPPED"}
    BY <2>2, <2>3, <2>5, <2>7 DEF TakenInv, h
  <2>9. \A x \in Senders : sender'[x].pc = "record" /\ sender'[x].new = "DELIVERED" => sent'[sender'[x].h] > 0
    BY <2>2, <2>3 DEF TakenInv
  <2> QED
    BY <2>6, <2>8, <2>9 DEF TakenInv
<1>5. ASSUME NEW r \in Retriers, Requeue(r) \/ \E h \in Channels : RetryBegins(r, h) PROVE TakenInv'
  <2> DEFINE g == sender[r].h
  <2>1. /\ r \in Senders /\ SenderOK(sender[r]) /\ sent' = sent
        /\ \A x \in Senders \ {r} : sender'[x] = sender[x]
    BY <1>0, <1>5, WhoSends DEF Requeue, RetryBegins
  <2>2. \A x \in Senders : sender[x].pc \in {"send", "record", "promote", "requeue"} => sender[x].h \in Channels
    BY <1>0 DEF SenderOK
  <2>3. CASE Requeue(r)
    <3>1. /\ g \in Channels /\ delivery'[g] = "QUEUED" /\ \A x \in Channels \ {g} : delivery'[x] = delivery[x]
          /\ sender'[r].pc = "send" /\ sender'[r].h = g
      BY <1>0, <2>1, <2>2, <2>3 DEF Requeue, SenderOK
    <3> QED
      BY <2>1, <2>2, <3>1 DEF TakenInv
  <2>4. ASSUME NEW h \in Channels, RetryBegins(r, h) PROVE TakenInv'
    <3>1. delivery' = delivery /\ delivery[h] = "FAILED" /\ sender'[r].pc = "requeue" /\ sender'[r].h = h
      BY <1>0, <2>1, <2>4 DEF RetryBegins, MayRetryDelivery, NoSender
    <3> QED
      BY <2>1, <2>2, <3>1 DEF TakenInv
  <2> QED
    BY <1>5, <2>3, <2>4
<1> QED
  BY <1>1, <1>2, <1>3, <1>4, <1>5 DEF NoteNext

\* Statuses hold values of their kind, and there is no delivery without a recipient
\* and no recipient without a notification (notification_service).
THEOREM NoteTypingAlways == NoteSpec => []NoteTypeOK
<1>1. NoteInv => NoteTypeOK
  BY DEF NoteInv, NoteTyping, RowsInOrder, NoteTypeOK, NoticeStatuses, RecipientStatuses, DeliveryStatuses
<1> QED
  BY <1>1, NoteStarts, NoteStep, PTL DEF NoteSpec

\* For any number of retries and wherever sessions die, the rows say what the channels
\* did, and a channel takes a message again only where two retries met or where it
\* reported an error after it had taken one (try_deliver, retry_delivery,
\* refresh_notification_status).
THEOREM NotifiedOnceAlways == NoteSpec => []NotifiedOnce
<1>1. NoteInit => TakenInv
  <2> SUFFICES ASSUME NoteInit PROVE TakenInv
    OBVIOUS
  <2>1. /\ \A s \in Senders : sender[s] = NoSender
        /\ \A h \in Channels : delivery[h] = "NONE" /\ sent[h] = 0
    BY DEF NoteInit
  <2> QED
    BY <2>1, IdleSender DEF TakenInv
<1>2. NoteInv /\ TakenInv => NotifiedOnce
  BY DEF NoteInv, RowsTell, TakenInv, NotifiedOnce
<1> QED
  BY <1>1, <1>2, NoteStarts, NoteStep, TakenStep, PTL DEF NoteSpec
=============================================================================
