------------------------------- MODULE Accounts -------------------------------
(***************************************************************************)
(* Accounts, login sessions and the login limiter:                         *)
(* services/rag-api/src/accounts/ and api/auth.py.                         *)
(*                                                                         *)
(* POST /login registers an unknown e-mail or verifies a known one.  It is *)
(* cut where the event loop or another transaction may come in between:    *)
(* the limiter is asked first, the password is checked in a thread, and    *)
(* the limiter hears of the outcome only then.  The browser keeps the      *)
(* session's token in a cookie, which the responses of /login and /logout  *)
(* set and delete.  A hash is the password it was made from, and a token   *)
(* its digest.                                                             *)
(***************************************************************************)
EXTENDS Naturals, Sequences, FiniteSets

CONSTANTS
    Requests,        \* request slots: how many requests may be in flight
    Browsers,        \* cookie jars, all behind one client host
    Emails,          \* normalised e-mail addresses
    Spellings,       \* what users type for them (case, surrounding blanks)
    Normal,          \* [Spellings -> Emails]: value.strip().lower()
    Passwords,       \* passwords of an accepted length
    NoUser,          \* no account of that e-mail
    MaximumAttempts, \* _LoginRateLimiter.maximum_attempts
    Window,          \* _LoginRateLimiter.window_seconds, in ticks of the clock
    SessionTicks,    \* AUTH_SESSION_DAYS, in ticks
    MaxClock,        \* bound: how far time goes
    MaxTokens        \* bound: login sessions ever created

ASSUME SpellingsAssumption ==
    /\ Normal \in [Spellings -> Emails]
    /\ Emails \subseteq Spellings /\ \A e \in Emails : Normal[e] = e
ASSUME LimitsAssumption ==
    MaximumAttempts \in Nat \ {0} /\ Window \in Nat \ {0} /\ SessionTicks \in Nat \ {0}
ASSUME BoundsAssumption == MaxClock \in Nat /\ MaxTokens \in Nat
ASSUME RequestsAssumption == IsFiniteSet(Requests)
ASSUME NoUserAssumption == NoUser \notin Passwords

VARIABLES
    clock,
    users,     \* the users table: the password of each registered e-mail
    attempts,  \* the limiter's deques of failure times, by key
    sessions,  \* auth_sessions, in the order they were created
    cookie,    \* the token in each browser's cookie jar, or 0
    request    \* what each request in flight is doing

vars == <<clock, users, attempts, sessions, cookie, request>>

Tokens == 1 .. MaxTokens
Credentials == [email : Emails, password : Passwords]
Session == [as : Credentials, expires : Nat, revoked : BOOLEAN]

Idle == [stage |-> "idle"]
LoginRequest(stages) ==
    [stage : stages, browser : Browsers, email : Spellings, password : Passwords]
TokenRequest(stages) == [stage : stages, browser : Browsers, token : Tokens]
RequestStates ==
    {Idle} \cup LoginRequest({"authenticate", "insert", "create session"})
      \cup [stage : {"respond"}, browser : Browsers, email : Spellings, token : Tokens]
      \cup TokenRequest({"revoke", "clear cookie", "admit", "serve"})

TypeOK ==
    /\ clock \in 0 .. MaxClock
    /\ users \in [Emails -> Passwords \cup {NoUser}]
    /\ attempts \in [Spellings -> Seq(0 .. MaxClock)]
    /\ sessions \in Seq(Session) /\ Len(sessions) <= MaxTokens
    /\ cookie \in [Browsers -> 0 .. MaxTokens]
    /\ request \in [Requests -> RequestStates]

Init ==
    /\ clock = 0
    /\ users = [e \in Emails |-> NoUser]
    /\ attempts = [k \in Spellings |-> << >>]
    /\ sessions = << >>
    /\ cookie = [b \in Browsers |-> 0]
    /\ request = [r \in Requests |-> Idle]

Become(r, state) == request' = [request EXCEPT ![r] = state]

-----------------------------------------------------------------------------
(* The limiter.                                                            *)

KeyOf_AsTyped(email) == email

\* _limiter_key: the host, which all browsers here share, and the normalised e-mail.
KeyOf(email) == Normal[email]

Pruned_TooLate(k) ==
    LET expired == {i \in DOMAIN attempts[k] :
                       \A j \in 1 .. i : attempts[k][j] + Window < clock}
    IN  SubSeq(attempts[k], Cardinality(expired) + 1, Len(attempts[k]))

\* allow drops failures from the left while they are older than the window.
Pruned(k) ==
    LET expired == {i \in DOMAIN attempts[k] :
                       \A j \in 1 .. i : attempts[k][j] + Window <= clock}
    IN  SubSeq(attempts[k], Cardinality(expired) + 1, Len(attempts[k]))

Allowed(k) == Len(Pruned(k)) < MaximumAttempts

Failed(k) == attempts' = [attempts EXCEPT ![k] = Append(@, clock)]

Succeeded(k) == attempts' = [attempts EXCEPT ![k] = << >>]

-----------------------------------------------------------------------------
(* POST /login.                                                            *)

\* The limiter refuses with 429 (the request ends) or lets the request pass.
ReceiveLogin(r, b, email, password) ==
    /\ request[r] = Idle
    /\ attempts' = [attempts EXCEPT ![KeyOf(email)] = Pruned(KeyOf(email))]
    /\ IF Allowed(KeyOf(email))
       THEN Become(r, [stage |-> "authenticate", browser |-> b,
                       email |-> email, password |-> password])
       ELSE UNCHANGED request
    /\ UNCHANGED <<clock, users, sessions, cookie>>

\* The SELECT of authenticate_or_register and what follows from its row.  A re-hash of
\* the verified password leaves it the same password.
Authenticate(r) ==
    /\ request[r].stage = "authenticate"
    /\ LET email == Normal[request[r].email]
           known == users[email]
       IN  \/ /\ known = NoUser
              /\ Become(r, [request[r] EXCEPT !.stage = "insert"])
              /\ UNCHANGED attempts
           \/ /\ known = request[r].password
              /\ Become(r, [request[r] EXCEPT !.stage = "create session"])
              /\ UNCHANGED attempts
           \/ /\ known \notin {NoUser, request[r].password}
              /\ Become(r, Idle)
              /\ Failed(KeyOf(request[r].email))
    /\ UNCHANGED <<clock, users, sessions, cookie>>

InsertUser_OrIgnore(r) ==
    /\ request[r].stage = "insert"
    /\ LET email == Normal[request[r].email]
       IN  users' = [users EXCEPT ![email] = IF @ = NoUser THEN request[r].password ELSE @]
    /\ Become(r, [request[r] EXCEPT !.stage = "create session"])
    /\ UNCHANGED <<clock, attempts, sessions, cookie>>

\* users.email is UNIQUE: when another first login has committed, the INSERT raises,
\* which /login does not handle (500): neither failed nor succeeded is recorded.
InsertUser(r) ==
    /\ request[r].stage = "insert"
    /\ LET email == Normal[request[r].email]
       IN  \/ /\ users[email] = NoUser
              /\ users' = [users EXCEPT ![email] = request[r].password]
              /\ Become(r, [request[r] EXCEPT !.stage = "create session"])
           \/ /\ users[email] # NoUser
              /\ Become(r, Idle)
              /\ UNCHANGED users
    /\ UNCHANGED <<clock, attempts, sessions, cookie>>

Opened_AsTyped(email, password) ==
    [as |-> [email |-> email, password |-> password],
     expires |-> clock + SessionTicks, revoked |-> FALSE]

Opened(email, password) ==
    [as |-> [email |-> Normal[email], password |-> password],
     expires |-> clock + SessionTicks, revoked |-> FALSE]

\* create_login_session; its response may get lost after the commit.
CreateSession(r) ==
    /\ request[r].stage = "create session"
    /\ Len(sessions) < MaxTokens
    /\ sessions' = Append(sessions, Opened(request[r].email, request[r].password))
    /\ \/ Become(r, [stage |-> "respond", browser |-> request[r].browser,
                     email |-> request[r].email, token |-> Len(sessions) + 1])
       \/ Become(r, Idle)
    /\ UNCHANGED <<clock, users, attempts, cookie>>

RespondToLogin(r) ==
    /\ request[r].stage = "respond"
    /\ Succeeded(KeyOf(request[r].email))
    /\ cookie' = [cookie EXCEPT ![request[r].browser] = request[r].token]
    /\ Become(r, Idle)
    /\ UNCHANGED <<clock, users, sessions>>

-----------------------------------------------------------------------------
(* Requests that carry a cookie: /logout, and every other endpoint.  The   *)
(* token is the one the browser had when it sent the request.              *)

ReceiveWithCookie(r, b, stage) ==
    /\ request[r] = Idle /\ cookie[b] # 0
    /\ Become(r, [stage |-> stage, browser |-> b, token |-> cookie[b]])
    /\ UNCHANGED <<clock, users, attempts, sessions, cookie>>

Logout(r, b) == ReceiveWithCookie(r, b, "revoke")
Call(r, b) == ReceiveWithCookie(r, b, "admit")

RevokedSession(s) == [s EXCEPT !.revoked = TRUE]

RevokeSession(r) ==
    /\ request[r].stage = "revoke"
    /\ sessions' = [sessions EXCEPT ![request[r].token] = RevokedSession(@)]
    /\ Become(r, [request[r] EXCEPT !.stage = "clear cookie"])
    /\ UNCHANGED <<clock, users, attempts, cookie>>

\* The response deletes the cookie by its name, whatever token it holds by now.
ClearCookie(r) ==
    /\ request[r].stage = "clear cookie"
    /\ cookie' = [cookie EXCEPT ![request[r].browser] = 0]
    /\ Become(r, Idle)
    /\ UNCHANGED <<clock, users, attempts, sessions>>

SessionValid(t) == ~sessions[t].revoked /\ sessions[t].expires > clock

\* require_current_account: the request is served, or refused with 401.
AdmitRequest(r) ==
    /\ request[r].stage = "admit"
    /\ Become(r, IF SessionValid(request[r].token) THEN [request[r] EXCEPT !.stage = "serve"]
                 ELSE Idle)
    /\ UNCHANGED <<clock, users, attempts, sessions, cookie>>

FinishRequest(r) ==
    /\ request[r].stage = "serve"
    /\ Become(r, Idle)
    /\ UNCHANGED <<clock, users, attempts, sessions, cookie>>

-----------------------------------------------------------------------------
(* Failures and time.                                                      *)

\* A database call raises and rolls back: 500.
StoreRaises(r) ==
    /\ request[r].stage \in {"authenticate", "insert", "create session", "revoke", "admit"}
    /\ Become(r, Idle)
    /\ UNCHANGED <<clock, users, attempts, sessions, cookie>>

\* The limiter lives in memory: a restart forgets the failures.
Restart ==
    /\ attempts' = [k \in Spellings |-> << >>]
    /\ request' = [r \in Requests |-> Idle]
    /\ UNCHANGED <<clock, users, sessions, cookie>>

Tick ==
    /\ clock < MaxClock
    /\ clock' = clock + 1
    /\ UNCHANGED <<users, attempts, sessions, cookie, request>>

Handle(r) ==
    \/ \E b \in Browsers, email \in Spellings, password \in Passwords :
          ReceiveLogin(r, b, email, password)
    \/ Authenticate(r) \/ InsertUser(r) \/ CreateSession(r) \/ RespondToLogin(r)
    \/ \E b \in Browsers : Logout(r, b) \/ Call(r, b)
    \/ RevokeSession(r) \/ ClearCookie(r) \/ AdmitRequest(r) \/ FinishRequest(r) \/ StoreRaises(r)

Next == (\E r \in Requests : Handle(r)) \/ Restart \/ Tick

Spec == Init /\ [][Next]_vars

-----------------------------------------------------------------------------
(* Properties.                                                             *)

FailuresOf(email) ==
    {at \in Spellings \X (1 .. MaximumAttempts + Cardinality(Requests)) :
        Normal[at[1]] = email /\ at[2] \in DOMAIN attempts[at[1]]}

\* The limiter is asked before the password is checked and told afterwards (auth.py:56-72):
\* concurrent logins can exceed its limit, but by no more than the requests in flight less
\* the one that was allowed last, however the e-mail is spelt.
GuessesBounded ==
    \A e \in Emails :
        Cardinality(FailuresOf(e)) <= MaximumAttempts - 1 + Cardinality(Requests)

\* allow pops failures from the left only, and failures are recorded when concurrent checks
\* end: still it refuses exactly while MaximumAttempts failures lie within the window, so
\* nobody is locked out by older ones (auth.py:28-34).
LimiterIsExact ==
    \A k \in Spellings :
        LET recent == {i \in DOMAIN attempts[k] : clock - attempts[k][i] < Window}
        IN  Allowed(k) <=> Cardinality(recent) < MaximumAttempts

OpenSessions ==
    {t \in DOMAIN sessions : ~sessions[t].revoked /\ clock < sessions[t].expires}

Serving(r) == IF request[r].stage = "serve" THEN request[r].token ELSE 0

\* The first password given for an e-mail stays its password, although two first logins may
\* race; sessions open only for who gave it, and serve nobody after a log-out or their
\* expiry (store.py:68-197, docs/project-constraints.md:291-292).
Service == INSTANCE AccountService WITH
    owner <- users,
    opened <- [t \in DOMAIN sessions |-> sessions[t].as],
    open <- OpenSessions,
    serving <- [r \in Requests |-> Serving(r)]
RefinesAccountService == Service!Spec
=============================================================================
