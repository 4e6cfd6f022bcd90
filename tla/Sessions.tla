------------------------------ MODULE Sessions ------------------------------
(***************************************************************************)
(* Logging in, being logged in, logging out and changing the password: the *)
(* handlers of auth.go over the tables admin_users and sessions and the    *)
(* login limiter.                                                          *)
(*                                                                         *)
(* As elsewhere in the API a handler takes no lock across its calls, and   *)
(* comparing a password takes long: what it read of an account or of a     *)
(* session may be stale when it writes.  The clock's unit is longer than   *)
(* any request, so time passes at most once during one.                    *)
(***************************************************************************)
EXTENDS LoginLimiter, FiniteSets

CONSTANTS
    Names, Addrs,   \* user names and client addresses
    Passwords,
    Handlers,       \* requests served at one time
    TTL,            \* sessionTTL
    RenewAfter,     \* sessionRenewAfter
    DbFails,        \* whether a statement on the registry may fail
    MaxClock, MaxRequests, MaxRestarts   \* bounds

\* No account, no password: the dummy hash matches nothing.
NoHash == "dummy"

ASSUME SessionsAssumption ==
    /\ LimiterKeys = Names \cup Addrs
    /\ NoHash \notin Passwords
    /\ IsFiniteSet(Handlers)
    /\ TTL \in Nat /\ RenewAfter \in Nat /\ RenewAfter < TTL
    /\ DbFails \in BOOLEAN
    /\ MaxClock \in Nat /\ MaxRequests \in Nat /\ MaxRestarts \in Nat

VARIABLES
    accounts,   \* admin_users: the password by name
    sessions,   \* the table sessions: rows of Session by token
    issued,     \* history: tokens handed out, the number of the last one
    revoked,    \* history: tokens of sessions logged out or revoked
    used,       \* history: when each token last authenticated a request
    handler,    \* handler[h]: the request it serves and what it has read
    now,
    requests,   \* requests, and passwords set at the terminal, so far
    restarts    \* processes started after the first

vars == <<attempts, accounts, sessions, issued, revoked, used, handler, now,
          requests, restarts>>

tables == <<attempts, accounts, sessions, issued, revoked, used>>

Session == [user : Names, expires_at : Int, last_seen_at : Nat]

Request ==
    [op : {"login"}, name : Names, addr : Addrs, given : Passwords, new : {NoHash}, token : {0}]
    \cup [op : {"use", "logout"}, name : {NoHash}, addr : {NoHash}, given : {NoHash},
          new : {NoHash}, token : 1..issued]
    \cup [op : {"password"}, name : {NoHash}, addr : {NoHash}, given : Passwords,
          new : Passwords, token : 1..issued]

\* `again': how many more times the request resolves its session.
Idle == [pc |-> "idle", req |-> <<>>, user |-> NoHash, hash |-> NoHash, seen |-> 0,
         stamp |-> 0, since |-> 0, again |-> 0]

WithPassword(name, password) ==
    [n \in DOMAIN accounts \cup {name} |-> IF n = name THEN password ELSE accounts[n]]

\* The first process: the environment may name an account to seed.
Init ==
    /\ LimiterInit
    /\ \/ accounts = <<>>
       \/ \E name \in Names, password \in Passwords : accounts = [n \in {name} |-> password]
    /\ sessions = <<>>
    /\ issued = 0 /\ revoked = {} /\ used = <<>>
    /\ handler = [h \in Handlers |-> Idle]
    /\ now = 0 /\ requests = 0 /\ restarts = 0

-----------------------------------------------------------------------------
At(h, pc) == handler[h].pc = pc

Goes(h, pc) ==
    handler' = [handler EXCEPT ![h] = IF pc = "idle" THEN Idle ELSE [@ EXCEPT !.pc = pc]]

Unchanged == UNCHANGED <<now, requests, restarts>>

KeysOf(h) == {handler[h].req.name, handler[h].req.addr}

Start(op) == CASE op = "login" -> "throttle" [] op = "logout" -> "logout" [] OTHER -> "session"

\* requireAdmin resolves the session before the handler; a change of password
\* resolves it again.
Accept(h, req) ==
    /\ At(h, "idle")
    /\ requests < MaxRequests
    /\ handler' = [handler EXCEPT ![h] =
            [pc |-> Start(req.op), req |-> req, user |-> NoHash, hash |-> NoHash, seen |-> 0,
             stamp |-> 0, since |-> now, again |-> IF req.op = "password" THEN 1 ELSE 0]]
    /\ requests' = requests + 1
    /\ UNCHANGED <<tables, now, restarts>>

\* An error of the registry: a 500 or a 401, nothing done.
Refuse(h) ==
    /\ DbFails
    /\ handler[h].pc \in {"lookup", "create", "session", "user", "set"}
    /\ Goes(h, "idle")
    /\ UNCHANGED tables /\ Unchanged

-----------------------------------------------------------------------------
(* handleLogin.                                                            *)

Throttle(h) ==
    /\ At(h, "throttle")
    /\ Consult(KeysOf(h), now)
    /\ Goes(h, IF Allowed(KeysOf(h), now) THEN "lookup" ELSE "idle")
    /\ UNCHANGED <<accounts, sessions, issued, revoked, used>> /\ Unchanged

HashOf(name) == IF name \in DOMAIN accounts THEN accounts[name] ELSE NoHash

LookupUser(h) ==
    /\ At(h, "lookup")
    /\ handler' = [handler EXCEPT ![h].pc = "compare",
                                  ![h].hash = HashOf(handler[h].req.name)]
    /\ UNCHANGED tables /\ Unchanged

\* CheckPassword, on the hash read before it.
Compare(h) ==
    /\ At(h, "compare")
    /\ IF handler[h].hash = handler[h].req.given
       THEN /\ handler' = [handler EXCEPT ![h].pc = "create", ![h].stamp = now]
            /\ UNCHANGED attempts
       ELSE RecordFailure(KeysOf(h), now) /\ Goes(h, "idle")
    /\ UNCHANGED <<accounts, sessions, issued, revoked, used>> /\ Unchanged

\* CreateSession, under a token nobody had before.
CreateSession(h) ==
    /\ At(h, "create")
    /\ issued' = issued + 1
    /\ sessions' = [t \in DOMAIN sessions \cup {issued'} |->
            IF t \in DOMAIN sessions THEN sessions[t]
            ELSE [user |-> handler[h].req.name, last_seen_at |-> now,
                  expires_at |-> handler[h].stamp + TTL]]
    /\ used' = [t \in 1..issued' |-> IF t = issued' THEN handler[h].stamp ELSE used[t]]
    /\ Goes(h, "reset")
    /\ UNCHANGED <<attempts, accounts, revoked>> /\ Unchanged

LoginDone(h) ==
    /\ At(h, "reset")
    /\ Reset(KeysOf(h))
    /\ Goes(h, "idle")
    /\ UNCHANGED <<accounts, sessions, issued, revoked, used>> /\ Unchanged

-----------------------------------------------------------------------------
(* sessionUser, for every request that carries a cookie.                   *)

Without(tokens) == [t \in DOMAIN sessions \ tokens |-> sessions[t]]

LookupSession(h) ==
    LET t == handler[h].req.token IN
    /\ At(h, "session")
    /\ IF t \notin DOMAIN sessions THEN Goes(h, "idle")
       ELSE IF now >= sessions[t].expires_at THEN Goes(h, "expire")
       ELSE handler' = [handler EXCEPT ![h].pc = "user", ![h].user = sessions[t].user,
                                       ![h].seen = sessions[t].last_seen_at]
    /\ UNCHANGED tables /\ Unchanged

\* LookupSession deletes the row it found expired; an error is ignored.
ExpireSession(h) ==
    /\ At(h, "expire")
    /\ \/ sessions' = Without({handler[h].req.token})
       \/ DbFails /\ UNCHANGED sessions
    /\ Goes(h, "idle")
    /\ UNCHANGED <<attempts, accounts, issued, revoked, used>> /\ Unchanged

\* What a request does once sessionUser has answered.
Resolved(h, hash) ==
    handler' = [handler EXCEPT ![h] =
        CASE @.again > 0 -> [@ EXCEPT !.pc = "session", !.again = 0]
          [] @.again = 0 /\ @.req.op = "password" -> [@ EXCEPT !.pc = "verify", !.hash = hash]
          [] @.again = 0 /\ @.req.op = "use" -> Idle]

Uses(t, at) == used' = [used EXCEPT ![t] = IF at > @ THEN at ELSE @]

\* AdminUserByID, then whether the expiry is worth sliding.
LookupOwner(h) ==
    /\ At(h, "user")
    /\ IF now - handler[h].seen > RenewAfter
       THEN /\ handler' = [handler EXCEPT ![h].pc = "touch", ![h].stamp = now,
                                          ![h].hash = accounts[handler[h].user]]
            /\ UNCHANGED used
       ELSE Resolved(h, accounts[handler[h].user]) /\ Uses(handler[h].req.token, now)
    /\ UNCHANGED <<attempts, accounts, sessions, issued, revoked>> /\ Unchanged

TouchedSeenOnly(row, at) == [row EXCEPT !.last_seen_at = now]

TouchedRow(row, at) == [row EXCEPT !.last_seen_at = now, !.expires_at = at + TTL]

TouchedUpsert(t, at, user) ==
    [j \in DOMAIN sessions \cup {t} |->
        IF j = t THEN [user |-> user, last_seen_at |-> now, expires_at |-> at + TTL]
        ELSE sessions[j]]

\* TouchSession: an UPDATE, which does nothing when the row is gone.
Touched(t, at, user) ==
    [j \in DOMAIN sessions |-> IF j = t THEN TouchedRow(sessions[j], at) ELSE sessions[j]]

\* An error is only logged.
TouchSession(h) ==
    LET t == handler[h].req.token IN
    /\ At(h, "touch")
    /\ \/ /\ sessions' = Touched(t, handler[h].stamp, handler[h].user)
          /\ Uses(t, handler[h].stamp)
       \/ DbFails /\ UNCHANGED <<sessions, used>>
    /\ Resolved(h, handler[h].hash)
    /\ UNCHANGED <<attempts, accounts, issued, revoked>> /\ Unchanged

-----------------------------------------------------------------------------
(* handleLogout, handleChangePassword and the accounts.                    *)

\* DeleteSession; an error is only logged.
Logout(h) ==
    LET t == handler[h].req.token IN
    /\ At(h, "logout")
    /\ \/ sessions' = Without({t}) /\ revoked' = revoked \cup {t}
       \/ DbFails /\ UNCHANGED <<sessions, revoked>>
    /\ Goes(h, "idle")
    /\ UNCHANGED <<attempts, accounts, issued, used>> /\ Unchanged

Verify(h) ==
    /\ At(h, "verify")
    /\ Goes(h, IF handler[h].hash = handler[h].req.given THEN "set" ELSE "idle")
    /\ UNCHANGED tables /\ Unchanged

TokensOf(name) == {t \in DOMAIN sessions : sessions[t].user = name}

SessionsAfterPassword(name) == Without(TokensOf(name))

\* SetAdminPassword: the hash and the sessions, in one transaction.
SetAdminPassword(name, password) ==
    /\ accounts' = WithPassword(name, password)
    /\ sessions' = SessionsAfterPassword(name)
    /\ revoked' = revoked \cup TokensOf(name)
    /\ UNCHANGED <<attempts, issued, used>>

ChangePassword(h) ==
    /\ At(h, "set")
    /\ SetAdminPassword(handler[h].user, handler[h].req.new)
    /\ Goes(h, "idle")
    /\ Unchanged

\* monitor -set-password, a process of its own on the same registry.
SetPassword(name, password) ==
    /\ requests < MaxRequests /\ requests' = requests + 1
    /\ SetAdminPassword(name, password)
    /\ UNCHANGED <<handler, now, restarts>>

-----------------------------------------------------------------------------
HandlerStep(h) ==
    \/ Refuse(h)
    \/ Throttle(h) \/ LookupUser(h) \/ Compare(h) \/ CreateSession(h) \/ LoginDone(h)
    \/ LookupSession(h) \/ ExpireSession(h) \/ LookupOwner(h) \/ TouchSession(h)
    \/ Logout(h) \/ Verify(h) \/ ChangePassword(h)

\* seedAdminUser: only an empty table is seeded.
Seed(name, password) ==
    IF accounts = <<>> THEN accounts' = WithPassword(name, password) ELSE UNCHANGED accounts

\* A new process: the limiter is empty, expired sessions are purged (an error
\* is only logged), and the environment may name a first account.
Restart ==
    /\ restarts < MaxRestarts
    /\ restarts' = restarts + 1
    /\ attempts' = <<>>
    /\ handler' = [h \in Handlers |-> Idle]
    /\ \/ UNCHANGED accounts
       \/ \E name \in Names, password \in Passwords : Seed(name, password)
    /\ \/ sessions' = Without({t \in DOMAIN sessions : sessions[t].expires_at <= now})
       \/ DbFails /\ UNCHANGED sessions
    /\ UNCHANGED <<issued, revoked, used, now, requests>>

Pass ==
    /\ now < MaxClock
    /\ \A h \in Handlers : At(h, "idle") \/ handler[h].since = now
    /\ now' = now + 1
    /\ UNCHANGED <<tables, handler, requests, restarts>>

Next ==
    \/ \E h \in Handlers : HandlerStep(h) \/ \E req \in Request : Accept(h, req)
    \/ \E name \in Names, password \in Passwords : SetPassword(name, password)
    \/ Restart
    \/ Pass

Spec == Init /\ [][Next]_vars

-----------------------------------------------------------------------------
TypeOK ==
    /\ LimiterTypeOK(now)
    /\ DOMAIN accounts \subseteq Names /\ \A n \in DOMAIN accounts : accounts[n] \in Passwords
    /\ DOMAIN sessions \subseteq 1..issued
    /\ \A t \in DOMAIN sessions :
        sessions[t] \in Session /\ sessions[t].user \in DOMAIN accounts
    /\ revoked \subseteq 1..issued
    /\ used \in [1..issued -> 0..now]
    /\ \A h \in Handlers : At(h, "idle") \/ now - handler[h].since \in {0, 1}

(***************************************************************************)
(* "revoke the current session server-side", "revokes every session"       *)
(* (README): a session that was logged out, or that existed when its       *)
(* account's password was changed, is never a session again, whatever the  *)
(* requests that had already found it go on to write.                      *)
(***************************************************************************)
RevokedStaysOut == revoked \cap DOMAIN sessions = {}

(***************************************************************************)
(* "an active admin is not logged out mid-session" (session.go), and an    *)
(* idle one is: a session expires TTL after its last use, at most          *)
(* RenewAfter (and the unit a request may take) sooner, although only some *)
(* uses are written down and two requests may write in either order.  A    *)
(* use whose write failed does not count.                                  *)
(***************************************************************************)
ExpirySlides ==
    \A t \in DOMAIN sessions :
        /\ sessions[t].expires_at <= used[t] + TTL
        /\ sessions[t].expires_at >= used[t] + TTL - RenewAfter - 1

(***************************************************************************)
(* "throttled to 5 failures" (README): a key collects no more failures     *)
(* within the window than the limit, and one for each further login that   *)
(* was already past Allowed.                                               *)
(***************************************************************************)
AttemptsAreBounded ==
    \A k \in LimiterKeys : Len(Live(k, now)) <= MaxAttempts - 1 + Cardinality(Handlers)

(***************************************************************************)
(* RetryAfter is exact: with no further failure the login is allowed when *)
(* it has passed and not before.  (Of a key that concurrent logins took    *)
(* beyond the limit it announces only the first failure to age out.)       *)
(***************************************************************************)
RetryAfterIsExact ==
    \A name \in Names, addr \in Addrs :
        LET keys == {name, addr}
            d    == RetryAfter(keys, now)
        IN  (\A k \in keys : Len(Live(k, now)) <= MaxAttempts) =>
                /\ Allowed(keys, now + d)
                /\ d > 0 => ~Allowed(keys, now + d - 1)
=============================================================================
