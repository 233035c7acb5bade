---------------------------- MODULE AuthSessions ----------------------------
(***************************************************************************)
(* Logins, the lockout after wrong passwords, and refresh tokens.          *)
(*                                                                         *)
(* A login commits three times: the counters of the user, the attempt, the *)
(* refresh token.  A refresh commits twice: the old token's end, and its   *)
(* successor.  Nothing is locked between a read and the commit after it,   *)
(* and a commit writes only the columns whose value differs from the one   *)
(* that was loaded.                                                        *)
(*                                                                         *)
(* A refresh token is a JWT of the user, the client and the times in whole *)
(* seconds, so two tokens of one second are one token; refresh_tokens      *)
(* keeps their hashes unique.  A client here is a device and its address.  *)
(***************************************************************************)
EXTENDS Integers, Sequences, FiniteSets

CONSTANTS
    Users,               \* ids of the users
    Clients,             \* devices
    Requests,            \* requests that may be in flight; a singleton is a serial run
    None,                \* SQL NULL
    MAX_FAILED_ATTEMPTS,
    LOCKOUT,             \* LOCKOUT_MINUTES, in units of the clock
    REFRESH_EXPIRE,      \* REFRESH_TOKEN_EXPIRE_DAYS, in units of the clock
    MaxTime,             \* bound of the model: the clock
    MaxLogins            \* bound of the model: requests begun in a behaviour

ASSUME AuthAssumption ==
    /\ MAX_FAILED_ATTEMPTS \in Nat \ {0} /\ LOCKOUT \in Nat /\ REFRESH_EXPIRE \in Nat
    /\ MaxTime \in Nat /\ MaxLogins \in Nat /\ None \notin Nat

VARIABLES
    accounts,       \* users.failed_login_attempts, locked_until, status
    refresh_tokens, \* in the order of their commits
    login_attempts, \* rows of login_attempts, per user and outcome
    wrong,          \* wrong passwords committed since the last right one (history)
    opened,         \* logins that got a token; by_password: those with a password (history)
    clock,          \* seconds
    auth_session,   \* per request: what it has read
    begun           \* requests begun so far (bound of the model)

rows == <<accounts, refresh_tokens, login_attempts, wrong, opened>>
vars == <<rows, clock, auth_session, begun>>

Account == [failed : Nat, locked_until : Nat \union {None}, status : {"active", "inactive"}]

\* login numbers the login the token descends from (history).
RefreshToken ==
    [user : Users, client : Clients, issued : Nat, expires_at : Nat, is_revoked : BOOLEAN,
     login : Nat]

IdleRequest ==
    [stage |-> "idle", handler |-> None, user |-> None, client |-> None, now |-> 0,
     failed |-> 0, locked_until |-> None, token |-> 0]

Init ==
    /\ accounts = [u \in Users |-> [failed |-> 0, locked_until |-> None, status |-> "active"]]
    /\ refresh_tokens = <<>>
    /\ login_attempts = [u \in Users |-> [failed |-> 0, succeeded |-> 0]]
    /\ wrong = [u \in Users |-> 0]
    /\ opened = [count |-> 0, by_password |-> [u \in Users |-> 0]]
    /\ clock = 1
    /\ auth_session = [r \in Requests |-> IdleRequest]
    /\ begun = 0

-----------------------------------------------------------------------------
Begin(r, handler, s) ==
    /\ auth_session[r].stage = "idle"
    /\ begun < MaxLogins
    /\ begun' = begun + 1
    /\ auth_session' = [auth_session EXCEPT ![r] =
                          [s EXCEPT !.handler = handler, !.now = clock]]
    /\ UNCHANGED <<rows, clock>>

Goto(r, stage) ==
    /\ auth_session' = [auth_session EXCEPT ![r].stage = stage]
    /\ UNCHANGED <<clock, begun>>

End(r) ==
    /\ auth_session' = [auth_session EXCEPT ![r] = IdleRequest]
    /\ UNCHANGED <<clock, begun>>

\* The request dies: what it has not committed is gone.
Die(r) ==
    /\ auth_session[r].stage # "idle"
    /\ End(r)
    /\ UNCHANGED rows

-----------------------------------------------------------------------------
\* login

\* Wrong on purpose: locked_until is not looked at.
LockedNever(account, now) == FALSE

Locked(account, now) == account.locked_until # None /\ account.locked_until > now

\* An attempt on a user nobody has is recorded and changes nothing here.
LoadLogin(r, u, client, right) ==
    Begin(r, "login",
        [IdleRequest EXCEPT
            !.user = u, !.client = client,
            !.failed = accounts[u].failed, !.locked_until = accounts[u].locked_until,
            !.stage = IF Locked(accounts[u], clock) THEN "record failure"
                      ELSE IF right THEN "reset" ELSE "count"])

\* Wrong on purpose: locked one wrong password early.
CountedEarly(account, s) ==
    IF s.failed + 1 >= MAX_FAILED_ATTEMPTS - 1
    THEN [account EXCEPT !.locked_until = s.now + LOCKOUT, !.failed = 0]
    ELSE [account EXCEPT !.failed = s.failed + 1]

\* The counter and the lock are written from what was loaded.
Counted(account, s) ==
    IF s.failed + 1 >= MAX_FAILED_ATTEMPTS
    THEN [account EXCEPT !.locked_until = s.now + LOCKOUT,
                         !.failed = IF s.failed = 0 THEN @ ELSE 0]
    ELSE [account EXCEPT !.failed = s.failed + 1]

CountFailure(r) ==
    LET s == auth_session[r] IN
    /\ s.stage = "count"
    /\ accounts' = [accounts EXCEPT ![s.user] = Counted(@, s)]
    /\ wrong' = [wrong EXCEPT ![s.user] = @ + 1]
    /\ Goto(r, "record failure")
    /\ UNCHANGED <<refresh_tokens, login_attempts, opened>>

Cleared(account, s) ==
    [account EXCEPT !.failed = IF s.failed = 0 THEN @ ELSE 0,
                    !.locked_until = IF s.locked_until = None THEN @ ELSE None]

Reset(r) ==
    LET s == auth_session[r] IN
    /\ s.stage = "reset"
    /\ accounts' = [accounts EXCEPT ![s.user] = Cleared(@, s)]
    /\ wrong' = [wrong EXCEPT ![s.user] = 0]
    /\ Goto(r, "record success")
    /\ UNCHANGED <<refresh_tokens, login_attempts, opened>>

Recorded(attempts, stage) ==
    IF stage = "record failure" THEN [attempts EXCEPT !.failed = @ + 1]
                                ELSE [attempts EXCEPT !.succeeded = @ + 1]

\* _record_attempt, a transaction of its own.
RecordAttempt(r) ==
    LET s == auth_session[r] IN
    /\ s.stage \in {"record failure", "record success"}
    /\ login_attempts' = [login_attempts EXCEPT ![s.user] = Recorded(@, s.stage)]
    /\ IF s.stage = "record failure" THEN End(r) ELSE Goto(r, "issue")
    /\ UNCHANGED <<accounts, refresh_tokens, wrong, opened>>

-----------------------------------------------------------------------------
\* login_with_google, of a user that exists: no lockout, no attempt.
LoadGoogleLogin(r, u, client) ==
    /\ accounts[u].status = "active"
    /\ Begin(r, "google", [IdleRequest EXCEPT !.stage = "issue", !.user = u, !.client = client])

-----------------------------------------------------------------------------
\* refresh_token

\* Wrong on purpose: a token that was replaced is accepted.
AcceptedRevoked(token) == token.expires_at >= clock /\ accounts[token.user].status = "active"

Accepted(token) ==
    /\ ~token.is_revoked
    /\ token.expires_at >= clock
    /\ accounts[token.user].status = "active"

LoadToken(r, i) ==
    /\ Accepted(refresh_tokens[i])
    /\ Begin(r, "refresh",
             [IdleRequest EXCEPT !.stage = "revoke", !.token = i,
                                 !.user = refresh_tokens[i].user,
                                 !.client = refresh_tokens[i].client])

Revoke(r) ==
    LET s == auth_session[r] IN
    /\ s.stage = "revoke"
    /\ refresh_tokens' = [refresh_tokens EXCEPT ![s.token].is_revoked = TRUE]
    /\ Goto(r, "issue")
    /\ UNCHANGED <<accounts, login_attempts, wrong, opened>>

-----------------------------------------------------------------------------
\* create_refresh_token, hash_token and the INSERT, for all three logins

NewToken(s) ==
    [user |-> s.user, client |-> s.client, issued |-> clock,
     expires_at |-> s.now + REFRESH_EXPIRE, is_revoked |-> FALSE,
     login |-> IF s.handler = "refresh" THEN refresh_tokens[s.token].login
                                        ELSE opened.count + 1]

\* The token_hash: user, client and second of issue.
Hash(token) == <<token.user, token.client, token.issued>>

\* The unique index on token_hash refuses the INSERT: an error, after the earlier commits.
Collides(token) == \E i \in DOMAIN refresh_tokens : Hash(refresh_tokens[i]) = Hash(token)

Opened(s) ==
    CASE s.handler = "refresh" -> opened
      [] s.handler = "google"  -> [opened EXCEPT !.count = @ + 1]
      [] s.handler = "login"   -> [opened EXCEPT !.count = @ + 1, !.by_password[s.user] = @ + 1]

Issue(r) ==
    LET s == auth_session[r]
        token == NewToken(s)
    IN  /\ s.stage = "issue"
        /\ End(r)
        /\ IF Collides(token) THEN UNCHANGED rows
           ELSE /\ refresh_tokens' = Append(refresh_tokens, token)
                /\ opened' = Opened(s)
                /\ UNCHANGED <<accounts, login_attempts, wrong>>

-----------------------------------------------------------------------------
\* logout: the router looks for request.state.refresh_token_hash, which nothing sets.

\* The tokens whose hash is the one the router passes, "".
PresentedBy(u) == {}

Logout(r, u) ==
    /\ accounts[u].status = "active"
    /\ auth_session[r].stage = "idle"
    /\ begun < MaxLogins
    /\ begun' = begun + 1
    /\ refresh_tokens' = [i \in DOMAIN refresh_tokens |->
                            IF i \in PresentedBy(u) THEN [refresh_tokens[i] EXCEPT !.is_revoked = TRUE]
                                                    ELSE refresh_tokens[i]]
    /\ UNCHANGED <<accounts, login_attempts, wrong, opened, clock, auth_session>>

-----------------------------------------------------------------------------
\* UserService.update_user, of the status.
SetStatus(u, status) ==
    /\ accounts[u].status # status
    /\ begun < MaxLogins
    /\ begun' = begun + 1
    /\ accounts' = [accounts EXCEPT ![u].status = status]
    /\ UNCHANGED <<refresh_tokens, login_attempts, wrong, opened, clock, auth_session>>

Tick == clock < MaxTime /\ clock' = clock + 1 /\ UNCHANGED <<rows, auth_session, begun>>

BeginSome(r) ==
    \/ \E u \in Users, c \in Clients, right \in BOOLEAN : LoadLogin(r, u, c, right)
    \/ \E u \in Users, c \in Clients : LoadGoogleLogin(r, u, c)
    \/ \E i \in DOMAIN refresh_tokens : LoadToken(r, i)
    \/ \E u \in Users : Logout(r, u)

Continue(r) == CountFailure(r) \/ Reset(r) \/ RecordAttempt(r) \/ Revoke(r) \/ Issue(r)

Next ==
    \/ \E r \in Requests : BeginSome(r) \/ Continue(r) \/ Die(r)
    \/ \E u \in Users, status \in {"active", "inactive"} : SetStatus(u, status)
    \/ Tick

Spec == Init /\ [][Next]_vars

-----------------------------------------------------------------------------
(* The counters stay below the limit and the token hashes unique.           *)
TypeOK ==
    /\ accounts \in [Users -> Account]
    /\ \A u \in Users : accounts[u].failed < MAX_FAILED_ATTEMPTS
    /\ \A i \in DOMAIN refresh_tokens : refresh_tokens[i] \in RefreshToken
    /\ \A i, j \in DOMAIN refresh_tokens :
         Hash(refresh_tokens[i]) = Hash(refresh_tokens[j]) => i = j

(* One request at a time, wherever requests die: the counter and the lock   *)
(* say how many wrong passwords came in a row (login, service.py:98).       *)
CounterCountsFailures ==
    \A u \in Users :
        /\ accounts[u].failed = wrong[u] % MAX_FAILED_ATTEMPTS
        /\ accounts[u].locked_until # None <=> wrong[u] >= MAX_FAILED_ATTEMPTS

(* Whatever overlaps, as long as no right password comes: updates get lost, *)
(* but no user is locked before MAX_FAILED_ATTEMPTS wrong passwords.        *)
NeverLockedEarly ==
    \A u \in Users :
        /\ accounts[u].failed <= wrong[u]
        /\ accounts[u].locked_until # None => wrong[u] >= MAX_FAILED_ATTEMPTS

(* One request at a time: a lock that is running keeps its end, and no      *)
(* password opens a login while it runs.                                    *)
LockStep ==
    \A u \in Users :
        accounts[u].locked_until # None /\ clock < accounts[u].locked_until =>
            /\ accounts'[u].locked_until = accounts[u].locked_until
            /\ opened'.by_password[u] = opened.by_password[u]

LockHolds == [][LockStep]_vars

(* Whatever overlaps or dies: no password opens a login that login_attempts *)
(* does not tell of.                                                        *)
LoginsAreRecorded ==
    \A u \in Users : opened.by_password[u] <= login_attempts[u].succeeded

Live(l) == {i \in DOMAIN refresh_tokens :
              refresh_tokens[i].login = l /\ ~refresh_tokens[i].is_revoked}

(* One request at a time, wherever requests die: a login has at most one    *)
(* token that can still be used (refresh_token, service.py:198).            *)
OneLiveTokenPerLogin == \A l \in 1..opened.count : Cardinality(Live(l)) <= 1

(* A login is usable while it has a live token, and being renewed while a   *)
(* request has revoked the token and not yet inserted its successor.        *)
LoginState(l) ==
    IF Live(l) # {} THEN "usable"
    ELSE IF \E r \in Requests : /\ auth_session[r].handler = "refresh"
                                /\ auth_session[r].stage = "issue"
                                /\ refresh_tokens[auth_session[r].token].login = l
    THEN "renewing" ELSE "lost"

LoginStates == [l \in 1..opened.count |-> LoginState(l)]

Chains == INSTANCE LoginChains WITH logins <- LoginStates

(* One request at a time, every step of the tokens is one LoginChains       *)
(* allows: what is lost in a refresh never comes back.                      *)
ImplementsLoginChains == Chains!Spec

(* What logout is for: the user has no live token after it.                 *)
LogoutStep ==
    \A u \in Users, r \in Requests :
        Logout(r, u) => \A i \in DOMAIN refresh_tokens' :
                           refresh_tokens'[i].user = u => refresh_tokens'[i].is_revoked

LogoutEndsSessions == [][LogoutStep]_vars
=============================================================================
