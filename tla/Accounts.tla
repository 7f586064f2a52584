------------------------------ MODULE Accounts ------------------------------
(***************************************************************************)
(* The account behind one e-mail address: registration, password and OAuth *)
(* login, refresh tokens, logout, change and reset of the password, and    *)
(* the deletion of the account with its rows.                              *)
(*                                                                         *)
(* Every call is a request of its own with a session of its own: it reads  *)
(* first, spends its time in bcrypt or with the OAuth provider, and        *)
(* commits later (READ COMMITTED).  Foreign keys make the commit of a call *)
(* fail whose account is gone.  Access tokens are signed and stateless:    *)
(* each request made with one looks the account up again.                  *)
(***************************************************************************)
EXTENDS Naturals, FiniteSets

CONSTANTS
    Callers,       \* calls in flight at once
    RefreshRows,   \* rows of the table token
    ResetRows,     \* rows of the table password_reset_token
    MaxPasswords   \* bound on the passwords that are ever set

ASSUME AccountsAssumption ==
    IsFiniteSet(Callers) /\ IsFiniteSet(RefreshRows) /\ IsFiniteSet(ResetRows) /\ MaxPasswords \in Nat \ {0}

VARIABLES
    user,      \* user_auth_id of the row, 0 without one
    password,  \* the number of the password whose hash the row holds
    passwords, \* the number of the last password set, also the last user_auth_id (bound)
    linked,    \* the OAuth row
    token,     \* token[t]: refresh token; pw: the password in force when its login began
    reset,     \* reset[r]: reset token
    call,      \* call[c]: the call and what it has read
    past       \* what became of the rows (history), see CredentialsRetired

acctVars == <<user, password, passwords, linked, token, reset, call, past>>

NoToken == [st |-> "NONE", pw |-> 0]
NoCall == [op |-> "none", pc |-> "idle", user |-> 0, pw |-> 0, r |-> "none", seen |-> {}, met |-> FALSE]

AcctInit ==
    /\ user = 0 /\ password = 0 /\ passwords = 0 /\ linked = FALSE
    /\ token = [t \in RefreshRows |-> NoToken] /\ reset = [r \in ResetRows |-> "NONE"]
    /\ call = [c \in Callers |-> NoCall]
    /\ past = [late |-> {}, twins |-> {}]

-----------------------------------------------------------------------------
\* What refresh_access_token accepts: not revoked and not expired.
Refreshable(t) == token[t].st = "live"

\* The rows that refer to the account and that its deletion knows of.
Rows ==
    {t \in RefreshRows : token[t] # NoToken} \cup {r \in ResetRows : reset[r] # "NONE"}
    \cup {x \in {"oauth"} : linked}

LiveRows == {t \in RefreshRows : Refreshable(t)}
OpenResets == {r \in ResetRows : reset[r] = "open"}
InFlight(ops) == {c \in Callers : call[c].op \in ops}
Logins == {"login", "oauth"}
Changes == {"change", "reset"}

Begin(op, pc) ==
    [NoCall EXCEPT !.op = op, !.pc = pc, !.user = user, !.pw = IF op \in Logins THEN password ELSE 0]
Ends(c) == call' = [call EXCEPT ![c] = NoCall]

\* The account the call has read is still there: its foreign keys hold.
Holds(c) == user # 0 /\ call[c].user = user

-----------------------------------------------------------------------------
\* register_user: of two calls for one name the unique index lets one through.
Register ==
    /\ user = 0 /\ passwords < MaxPasswords
    /\ user' = passwords + 1 /\ password' = passwords + 1 /\ passwords' = passwords + 1
    /\ UNCHANGED <<linked, token, reset, call, past>>

\* login_user with the right password; a wrong one changes nothing.
LoginBegins(c) ==
    /\ call[c] = NoCall /\ user # 0
    /\ call' = [call EXCEPT ![c] = Begin("login", "issue")]
    /\ UNCHANGED <<user, password, passwords, linked, token, reset, past>>

\* complete_oauth, once the provider has answered: a linked account is logged in, an
\* account with the same e-mail is linked first, otherwise one is created.
OAuthBegins(c) ==
    /\ call[c] = NoCall
    /\ call' = [call EXCEPT ![c] =
                  Begin("oauth", IF linked THEN "issue" ELSE IF user # 0 THEN "link" ELSE "create")]
    /\ UNCHANGED <<user, password, passwords, linked, token, reset, past>>

\* The account gets a password nobody knows; unique names refuse a second row.
OAuthCreates(c) ==
    /\ call[c].pc = "create" /\ passwords < MaxPasswords
    /\ IF user = 0
       THEN /\ user' = passwords + 1 /\ password' = passwords + 1 /\ passwords' = passwords + 1
            /\ call' = [call EXCEPT ![c].pc = "link", ![c].user = passwords + 1, ![c].pw = passwords + 1]
       ELSE Ends(c) /\ UNCHANGED <<user, password, passwords>>
    /\ UNCHANGED <<linked, token, reset, past>>

\* The unique constraint on provider and user lets one of two calls through.
OAuthLinks(c) ==
    /\ call[c].pc = "link"
    /\ IF Holds(c) /\ ~linked
       THEN linked' = TRUE /\ call' = [call EXCEPT ![c].pc = "issue"]
       ELSE Ends(c) /\ UNCHANGED linked
    /\ UNCHANGED <<user, password, passwords, token, reset, past>>

\* _issue_tokens: the row is inserted unless the account is gone.
Issue(c) ==
    /\ call[c].pc = "issue"
    /\ \/ /\ Holds(c)
          /\ \E t \in RefreshRows :
                /\ token[t] = NoToken
                /\ token' = [token EXCEPT ![t] = [st |-> "live", pw |-> call[c].pw]]
                /\ past' = IF call[c].met \/ InFlight(Changes) # {}
                              THEN [past EXCEPT !.late = @ \cup {t}] ELSE past
       \/ ~Holds(c) /\ UNCHANGED <<token, past>>
    /\ Ends(c)
    /\ UNCHANGED <<user, password, passwords, linked, reset>>

\* logout_refresh_token; or the row expires, after which revoking it changes nothing.
Logout(t) ==
    /\ t \in LiveRows
    /\ token' = [token EXCEPT ![t].st = "revoked"]
    /\ UNCHANGED <<user, password, passwords, linked, reset, call, past>>

-----------------------------------------------------------------------------
\* request_password_reset: the pending rows are read, marked used later, and the new
\* one is added in the same commit.
RequestBegins(c) ==
    /\ call[c] = NoCall /\ user # 0
    /\ call' = [x \in Callers |->
                  IF x = c THEN [Begin("request", "commit") EXCEPT !.seen = OpenResets,
                                                                      !.met = InFlight({"request"}) # {}]
                  ELSE IF call[x].op = "request" THEN [call[x] EXCEPT !.met = TRUE] ELSE call[x]]
    /\ UNCHANGED <<user, password, passwords, linked, token, reset, past>>

RequestCommits(c) ==
    /\ call[c].op = "request"
    /\ \/ /\ Holds(c)
          /\ \E r \in ResetRows :
                /\ reset[r] = "NONE"
                /\ reset' = [x \in ResetRows |-> IF x = r THEN "open"
                                                 ELSE IF x \in call[c].seen THEN "used" ELSE reset[x]]
                /\ past' = IF call[c].met THEN [past EXCEPT !.twins = @ \cup {r}] ELSE past
       \/ ~Holds(c) /\ UNCHANGED <<reset, past>>
    /\ Ends(c)
    /\ UNCHANGED <<user, password, passwords, linked, token>>

ResetExpires(r) ==
    /\ reset[r] = "open"
    /\ reset' = [reset EXCEPT ![r] = "used"]
    /\ UNCHANGED <<user, password, passwords, linked, token, call, past>>

\* reset_password_with_token up to the hashing of the new password.
ResetBegins(c, r) ==
    /\ call[c] = NoCall /\ user # 0 /\ reset[r] = "open"
    /\ call' = [call EXCEPT ![c] = [Begin("reset", "hash") EXCEPT !.r = r]]
    /\ UNCHANGED <<user, password, passwords, linked, token, reset, past>>

\* change_password with the right current password.
ChangeBegins(c) ==
    /\ call[c] = NoCall /\ user # 0
    /\ call' = [call EXCEPT ![c] = Begin("change", "hash")]
    /\ UNCHANGED <<user, password, passwords, linked, token, reset, past>>

\* Both then read the refresh tokens of the account ...
SelectTokens(c) ==
    /\ call[c].op \in Changes /\ call[c].pc = "hash"
    /\ call' = [call EXCEPT ![c].pc = "commit", ![c].seen = LiveRows]
    /\ UNCHANGED <<user, password, passwords, linked, token, reset, past>>

\* Mutant of Revoked: a reset leaves the refresh tokens alone.
RevokedByChange(c) == IF call[c].op = "change" THEN call[c].seen ELSE {}

Revoked(c) == call[c].seen

\* ... and commit the new hash, the used reset token and the revocations together.
SetPassword(c) ==
    /\ call[c].op \in Changes /\ call[c].pc = "commit" /\ passwords < MaxPasswords
    /\ IF Holds(c)
       THEN /\ password' = passwords + 1 /\ passwords' = passwords + 1
            /\ token' = [t \in RefreshRows |-> IF t \in Revoked(c) THEN [token[t] EXCEPT !.st = "revoked"]
                                               ELSE token[t]]
            /\ reset' = [r \in ResetRows |-> IF r = call[c].r THEN "used" ELSE reset[r]]
            /\ call' = [x \in Callers |-> IF x = c THEN NoCall
                                          ELSE IF call[x].op \in Logins THEN [call[x] EXCEPT !.met = TRUE]
                                          ELSE call[x]]
       ELSE Ends(c) /\ UNCHANGED <<password, passwords, token, reset>>
    /\ UNCHANGED <<user, linked, past>>

-----------------------------------------------------------------------------
\* delete_account_for_current_user, with the password or an OAuth row, reads what
\* the account has ...
DeleteBegins(c) ==
    /\ call[c] = NoCall /\ user # 0
    /\ call' = [call EXCEPT ![c] = [Begin("delete", "commit") EXCEPT !.seen = Rows]]
    /\ UNCHANGED <<user, password, passwords, linked, token, reset, past>>

\* ... and deletes these rows.  One that came since still refers to the account, and
\* the whole commit is refused; so it is for the owner of a workspace (CallDies).
MayGo(c) == Holds(c) /\ Rows \subseteq call[c].seen

DeleteAccount(c) ==
    /\ call[c].op = "delete"
    /\ IF MayGo(c)
       THEN /\ user' = 0 /\ password' = 0 /\ linked' = FALSE
            /\ token' = [t \in RefreshRows |-> IF t \in call[c].seen THEN NoToken ELSE token[t]]
            /\ reset' = [r \in ResetRows |-> IF r \in call[c].seen THEN "NONE" ELSE reset[r]]
            /\ past' = [h \in DOMAIN past |-> past[h] \ call[c].seen]
       ELSE UNCHANGED <<user, password, linked, token, reset, past>>
    /\ Ends(c)
    /\ UNCHANGED passwords

\* The process dies, or the commit is refused: the session is closed.
CallDies(c) ==
    /\ call[c] # NoCall /\ Ends(c)
    /\ UNCHANGED <<user, password, passwords, linked, token, reset, past>>

AcctNext ==
    \/ Register
    \/ \E c \in Callers :
          \/ LoginBegins(c) \/ OAuthBegins(c) \/ OAuthCreates(c) \/ OAuthLinks(c) \/ Issue(c)
          \/ RequestBegins(c) \/ RequestCommits(c)
          \/ ChangeBegins(c) \/ SelectTokens(c) \/ SetPassword(c)
          \/ DeleteBegins(c) \/ DeleteAccount(c) \/ CallDies(c)
          \/ \E r \in ResetRows : ResetBegins(c, r)
    \/ \E t \in RefreshRows : Logout(t)
    \/ \E r \in ResetRows : ResetExpires(r)

AcctSpec == AcctInit /\ [][AcctNext]_acctVars

-----------------------------------------------------------------------------
AcctTypeOK ==
    /\ user \in 0 .. passwords /\ password \in 0 .. passwords /\ (user = 0 <=> password = 0)
    /\ linked \in BOOLEAN /\ (linked => user # 0)
    /\ token \in [RefreshRows -> [st : {"NONE", "live", "revoked"}, pw : 0 .. passwords]]
    /\ reset \in [ResetRows -> {"NONE", "open", "used"}]
    /\ \A c \in Callers : call[c].user \in 0 .. passwords

\* A credential that was withdrawn opens nothing, however the calls interleave or
\* die: a refresh token of a login under an earlier password is not accepted
\* (change_password, reset_password_with_token) unless that login overlapped the
\* change; an older reset token is withdrawn by a newer request unless the requests
\* overlapped; and an account that was deleted has left no token (_purge_user_related_rows).
CredentialsRetired ==
    /\ \A t \in RefreshRows : Refreshable(t) => token[t].pw = password \/ t \in past.late
    /\ \A r1, r2 \in OpenResets : r1 = r2 \/ {r1, r2} \subseteq past.twins
    /\ user = 0 => Rows = {}
=============================================================================
