---------------------------- MODULE AccountsProofs ----------------------------
(***************************************************************************)
(* Proof that Accounts implements AccountService, for any requests,        *)
(* browsers, e-mails, limits and bounds.                                   *)
(***************************************************************************)
EXTENDS Accounts, SequenceTheorems, FiniteSetTheorems, TLAPS

\* The kinds of requests, told apart by their stage.
LoginStages == {"authenticate", "insert", "create session"}
TokenStages == {"revoke", "clear cookie", "admit", "serve"}

LEMMA RequestKinds ==
    ASSUME NEW q \in RequestStates
    PROVE  /\ q.stage \in {"idle", "respond"} \cup LoginStages \cup TokenStages
           /\ q.stage = "idle" => q = Idle
           /\ q.stage \in LoginStages => q \in LoginRequest(LoginStages)
           /\ q.stage = "respond" =>
                q \in [stage : {"respond"}, browser : Browsers, email : Spellings, token : Tokens]
           /\ q.stage \in TokenStages => q \in TokenRequest(TokenStages)
<1> USE DEF LoginStages, TokenStages
<1>1. CASE q = Idle
  <2>1. q.stage = "idle"
    BY <1>1 DEF Idle
  <2> QED BY <1>1, <2>1
<1>2. CASE q \in LoginRequest(LoginStages)
  <2>1. q.stage \in LoginStages
    BY <1>2 DEF LoginRequest
  <2> QED BY <1>2, <2>1
<1>3. CASE q \in [stage : {"respond"}, browser : Browsers, email : Spellings, token : Tokens]
  <2>1. q.stage = "respond"
    BY <1>3
  <2> QED BY <1>3, <2>1
<1>4. CASE q \in TokenRequest(TokenStages)
  <2>1. q.stage \in TokenStages
    BY <1>4 DEF TokenRequest
  <2> QED BY <1>4, <2>1
<1> QED BY <1>1, <1>2, <1>3, <1>4 DEF RequestStates

LEMMA NextStage ==
    ASSUME NEW q \in RequestStates
    PROVE  /\ q.stage \in LoginStages =>
                \A stage \in LoginStages : [q EXCEPT !.stage = stage] \in RequestStates
           /\ q.stage \in TokenStages =>
                \A stage \in TokenStages : [q EXCEPT !.stage = stage] \in RequestStates
BY RequestKinds DEF RequestStates, LoginRequest, TokenRequest, LoginStages, TokenStages

LEMMA BecomeTypes ==
    ASSUME TypeOK, NEW r \in Requests, NEW q \in RequestStates, Become(r, q)
    PROVE  request' \in [Requests -> RequestStates]
BY DEF TypeOK, Become

LEMMA IdleType == Idle \in RequestStates
BY DEF RequestStates

LEMMA KeyTypes == \A email \in Spellings : KeyOf(email) \in Emails /\ KeyOf(email) \in Spellings
BY SpellingsAssumption DEF KeyOf

LEMMA SessionsTypes ==
    ASSUME TypeOK
    PROVE  /\ sessions \in Seq(Session) /\ Len(sessions) \in Nat
           /\ DOMAIN sessions = 1 .. Len(sessions)
           /\ sessions \in [1 .. Len(sessions) -> Session]
           /\ \A t \in 1 .. Len(sessions) : sessions[t] \in Session
           /\ Len(sessions) <= MaxTokens
<1>1. sessions \in Seq(Session) /\ Len(sessions) <= MaxTokens
  BY DEF TypeOK
<1> QED BY <1>1, LenProperties, ElementOfSeq

LEMMA PrunedTypes ==
    ASSUME TypeOK, NEW k \in Spellings
    PROVE  Pruned(k) \in Seq(0 .. MaxClock)
<1> DEFINE expired == {i \in DOMAIN attempts[k] : \A j \in 1 .. i : attempts[k][j] + Window <= clock}
<1>1. attempts[k] \in Seq(0 .. MaxClock) /\ Len(attempts[k]) \in Nat
  BY DEF TypeOK
<1>2. IsFiniteSet(expired) /\ Cardinality(expired) \in Nat
  <2>1. expired \subseteq 1 .. Len(attempts[k])
    BY <1>1
  <2>2. IsFiniteSet(1 .. Len(attempts[k]))
    BY <1>1, FS_Interval
  <2> QED BY <2>1, <2>2, FS_Subset, FS_CardinalityType
<1> HIDE DEF expired
<1>3. \A i \in (Cardinality(expired) + 1) .. Len(attempts[k]) : attempts[k][i] \in 0 .. MaxClock
  <2>1. \A i \in 1 .. Len(attempts[k]) : attempts[k][i] \in 0 .. MaxClock
    BY <1>1, ElementOfSeq
  <2>2. (Cardinality(expired) + 1) .. Len(attempts[k]) \subseteq 1 .. Len(attempts[k])
    BY <1>1, <1>2
  <2> QED BY <2>1, <2>2
<1>4. SubSeq(attempts[k], Cardinality(expired) + 1, Len(attempts[k])) \in Seq(0 .. MaxClock)
  BY <1>1, <1>2, <1>3, SubSeqProperties
<1> QED BY <1>4 DEF Pruned, expired

LEMMA TypeCorrectStep == TypeOK /\ [Next]_vars => TypeOK'
<1> SUFFICES ASSUME TypeOK, [Next]_vars PROVE TypeOK'
  OBVIOUS
<1>1. ASSUME NEW r \in Requests, NEW b \in Browsers, NEW email \in Spellings,
             NEW password \in Passwords, ReceiveLogin(r, b, email, password)
      PROVE  TypeOK'
  <2>1. attempts' \in [Spellings -> Seq(0 .. MaxClock)]
    BY <1>1, KeyTypes, PrunedTypes DEF ReceiveLogin, TypeOK
  <2>2. [stage |-> "authenticate", browser |-> b, email |-> email, password |-> password]
           \in RequestStates
    BY DEF RequestStates, LoginRequest
  <2>3. request' \in [Requests -> RequestStates]
    BY <1>1, <2>2, BecomeTypes DEF ReceiveLogin, TypeOK
  <2> QED BY <1>1, <2>1, <2>3 DEF ReceiveLogin, TypeOK
<1>2. ASSUME NEW r \in Requests, Authenticate(r) PROVE TypeOK'
  <2>1. request[r] \in LoginRequest(LoginStages)
    BY <1>2, RequestKinds DEF Authenticate, TypeOK, LoginStages
  <2>2. attempts' \in [Spellings -> Seq(0 .. MaxClock)]
    <3>1. PICK k \in Spellings : k = KeyOf(request[r].email)
      BY <2>1, KeyTypes DEF LoginRequest
    <3>2. Append(attempts[k], clock) \in Seq(0 .. MaxClock)
      <4>1. attempts[k] \in Seq(0 .. MaxClock) /\ clock \in 0 .. MaxClock
        BY DEF TypeOK
      <4> QED BY <4>1, AppendProperties
    <3>3. attempts \in [Spellings -> Seq(0 .. MaxClock)]
      BY DEF TypeOK
    <3>4. attempts' = attempts \/ attempts' = [attempts EXCEPT ![k] = Append(attempts[k], clock)]
      BY <1>2, <3>1 DEF Authenticate, Failed
    <3> QED BY <3>2, <3>3, <3>4
  <2>3. \A stage \in LoginStages : [request[r] EXCEPT !.stage = stage] \in RequestStates
    BY <1>2, NextStage DEF Authenticate, TypeOK, LoginStages
  <2>4. request' \in [Requests -> RequestStates]
    BY <1>2, <2>3, IdleType, BecomeTypes DEF Authenticate, LoginStages
  <2> QED BY <1>2, <2>2, <2>4 DEF Authenticate, TypeOK
<1>3. ASSUME NEW r \in Requests, InsertUser(r) PROVE TypeOK'
  <2>1. request[r] \in LoginRequest(LoginStages)
    BY <1>3, RequestKinds DEF InsertUser, TypeOK, LoginStages
  <2>2. users' \in [Emails -> Passwords \cup {NoUser}]
    BY <1>3, <2>1 DEF InsertUser, TypeOK, LoginRequest
  <2>3. [request[r] EXCEPT !.stage = "create session"] \in RequestStates
    BY <1>3, NextStage DEF InsertUser, TypeOK, LoginStages
  <2>4. request' \in [Requests -> RequestStates]
    BY <1>3, <2>3, IdleType, BecomeTypes DEF InsertUser
  <2> QED BY <1>3, <2>2, <2>4 DEF InsertUser, TypeOK
<1>4. ASSUME NEW r \in Requests, CreateSession(r) PROVE TypeOK'
  <2>1. request[r] \in LoginRequest(LoginStages)
    BY <1>4, RequestKinds DEF CreateSession, TypeOK, LoginStages
  <2>2. Opened(request[r].email, request[r].password) \in Session
    BY <2>1, LimitsAssumption, SpellingsAssumption, BoundsAssumption
       DEF Opened, Session, Credentials, LoginRequest, TypeOK
  <2>3. sessions' \in Seq(Session) /\ Len(sessions') = Len(sessions) + 1
    BY <1>4, <2>2, SessionsTypes, AppendProperties DEF CreateSession
  <2>4. Len(sessions) + 1 \in Tokens
    <3>1. Len(sessions) \in Nat /\ Len(sessions) < MaxTokens
      BY <1>4, SessionsTypes DEF CreateSession
    <3> QED BY <3>1, BoundsAssumption DEF Tokens
  <2>5. [stage |-> "respond", browser |-> request[r].browser,
         email |-> request[r].email, token |-> Len(sessions) + 1] \in RequestStates
    BY <2>1, <2>4 DEF LoginRequest, RequestStates
  <2>6. request' \in [Requests -> RequestStates]
    BY <1>4, <2>5, IdleType, BecomeTypes DEF CreateSession
  <2>7. Len(sessions') <= MaxTokens
    BY <2>3, <2>4, BoundsAssumption DEF Tokens
  <2> QED BY <1>4, <2>3, <2>6, <2>7 DEF CreateSession, TypeOK
<1>5. ASSUME NEW r \in Requests, RespondToLogin(r) PROVE TypeOK'
  <2>1. request[r] \in [stage : {"respond"}, browser : Browsers, email : Spellings, token : Tokens]
    BY <1>5, RequestKinds DEF RespondToLogin, TypeOK
  <2>2. attempts' \in [Spellings -> Seq(0 .. MaxClock)]
    <3>1. << >> \in Seq(0 .. MaxClock) /\ attempts \in [Spellings -> Seq(0 .. MaxClock)]
      BY DEF TypeOK
    <3> QED BY <1>5, <3>1 DEF RespondToLogin, Succeeded
  <2>3. cookie' \in [Browsers -> 0 .. MaxTokens]
    BY <1>5, <2>1, BoundsAssumption DEF RespondToLogin, TypeOK, Tokens
  <2>4. request' \in [Requests -> RequestStates]
    BY <1>5, IdleType, BecomeTypes DEF RespondToLogin
  <2> QED BY <1>5, <2>2, <2>3, <2>4 DEF RespondToLogin, TypeOK
<1>6. ASSUME NEW r \in Requests, NEW b \in Browsers, Logout(r, b) \/ Call(r, b)
      PROVE  TypeOK'
  <2>1. cookie[b] # 0 => cookie[b] \in Tokens
    BY BoundsAssumption DEF TypeOK, Tokens
  <2>2. cookie[b] # 0 => \A stage \in TokenStages :
           [stage |-> stage, browser |-> b, token |-> cookie[b]] \in RequestStates
    BY <2>1 DEF RequestStates, TokenRequest, TokenStages
  <2>3. request' \in [Requests -> RequestStates]
    BY <1>6, <2>2, BecomeTypes DEF Logout, Call, ReceiveWithCookie, TokenStages, TypeOK
  <2> QED BY <1>6, <2>3 DEF Logout, Call, ReceiveWithCookie, TypeOK
<1>admit. ASSUME NEW r \in Requests, AdmitRequest(r) PROVE TypeOK'
  <2>1. [request[r] EXCEPT !.stage = "serve"] \in RequestStates
    BY <1>admit, NextStage DEF AdmitRequest, TypeOK, TokenStages
  <2>2. request' \in [Requests -> RequestStates]
    BY <1>admit, <2>1, IdleType, BecomeTypes DEF AdmitRequest
  <2> QED BY <1>admit, <2>2 DEF AdmitRequest, TypeOK
<1>7. ASSUME NEW r \in Requests, RevokeSession(r) PROVE TypeOK'
  <2>1. [request[r] EXCEPT !.stage = "clear cookie"] \in RequestStates
    BY <1>7, NextStage DEF RevokeSession, TypeOK, TokenStages
  <2>2. request' \in [Requests -> RequestStates]
    BY <1>7, <2>1, BecomeTypes DEF RevokeSession
  <2>3. sessions' \in Seq(Session) /\ Len(sessions') = Len(sessions)
    <3>1. \A s \in Session : RevokedSession(s) \in Session
      BY DEF RevokedSession, Session
    <3> DEFINE t == request[r].token
    <3>2. CASE t \in 1 .. Len(sessions)
      <4>1. RevokedSession(sessions[t]) \in Session
        BY <3>1, <3>2, SessionsTypes
      <4>2. sessions' = [sessions EXCEPT ![t] = RevokedSession(sessions[t])]
        BY <1>7 DEF RevokeSession
      <4>3. sessions \in Seq(Session)
        BY SessionsTypes
      <4> HIDE DEF t
      <4> QED BY <3>2, <4>1, <4>2, <4>3, ExceptSeq
    <3>3. CASE t \notin 1 .. Len(sessions)
      <4>1. sessions' = sessions
        BY <1>7, <3>3, SessionsTypes DEF RevokeSession
      <4> QED BY <4>1, SessionsTypes
    <3> QED BY <3>2, <3>3
  <2>4. Len(sessions') <= MaxTokens
    BY <2>3, SessionsTypes
  <2> QED BY <1>7, <2>2, <2>3, <2>4 DEF RevokeSession, TypeOK
<1>8. ASSUME NEW r \in Requests, ClearCookie(r) \/ FinishRequest(r) \/ StoreRaises(r)
      PROVE  TypeOK'
  <2>1. request' \in [Requests -> RequestStates]
    BY <1>8, IdleType, BecomeTypes DEF ClearCookie, FinishRequest, StoreRaises
  <2>2. cookie' \in [Browsers -> 0 .. MaxTokens]
    <3>1. cookie \in [Browsers -> 0 .. MaxTokens] /\ 0 \in 0 .. MaxTokens
      BY BoundsAssumption DEF TypeOK
    <3> QED BY <1>8, <3>1 DEF ClearCookie, FinishRequest, StoreRaises
  <2> QED BY <1>8, <2>1, <2>2 DEF ClearCookie, FinishRequest, StoreRaises, TypeOK
<1>9. CASE Restart
  <2>1. attempts' \in [Spellings -> Seq(0 .. MaxClock)]
    BY <1>9 DEF Restart
  <2> QED BY <1>9, <2>1, IdleType DEF Restart, TypeOK
<1>10. CASE Tick
  <2>1. clock' \in 0 .. MaxClock
    BY <1>10, BoundsAssumption DEF Tick, TypeOK
  <2> QED BY <1>10, <2>1 DEF Tick, TypeOK
<1>11. CASE UNCHANGED vars
  BY <1>11 DEF vars, TypeOK
<1> QED
  BY <1>1, <1>2, <1>3, <1>4, <1>5, <1>6, <1>7, <1>8, <1>9, <1>10, <1>11, <1>admit DEF Next, Handle

\* Type correctness: what every stage of a request knows, and the limiter's queues.
THEOREM TypeCorrect == Spec => []TypeOK
<1>1. Init => TypeOK
  <2>1. << >> \in Seq(0 .. MaxClock) /\ << >> \in Seq(Session) /\ Len(<< >>) = 0
    OBVIOUS
  <2> QED BY <2>1, IdleType, BoundsAssumption DEF Init, TypeOK
<1> QED BY <1>1, TypeCorrectStep, PTL DEF Spec

-----------------------------------------------------------------------------
(* The refinement. *)

\* Tokens are handed out after their session was created; a login that goes on to create one
\* has given the password that the e-mail is registered with, and neither ever changes.
RequestInv(r) ==
    /\ request[r].stage = "create session" =>
          users[Normal[request[r].email]] = request[r].password
    /\ request[r].stage \in {"respond"} \cup TokenStages =>
          request[r].token \in 1 .. Len(sessions)

AccountsInv ==
    /\ \A r \in Requests : RequestInv(r)
    /\ \A b \in Browsers : cookie[b] \in 0 .. Len(sessions)

opened == [t \in DOMAIN sessions |-> sessions[t].as]
serving == [r \in Requests |-> Serving(r)]

\* A request that changes its own state, and nothing that the others rely on.
LEMMA RequestInvFrame ==
    ASSUME TypeOK, \A r \in Requests : RequestInv(r), NEW r \in Requests, NEW q, Become(r, q),
           \A e \in Emails : users[e] # NoUser => users'[e] = users[e],
           Len(sessions') \in Nat, Len(sessions) <= Len(sessions'),
           RequestInv(r)'
    PROVE  \A s \in Requests : RequestInv(s)'
<1> SUFFICES ASSUME NEW s \in Requests, s # r PROVE RequestInv(s)'
  OBVIOUS
<1>1. request'[s] = request[s] /\ request[s] \in RequestStates
  BY DEF Become, TypeOK
<1>2. ASSUME request[s].stage = "create session"
      PROVE  users'[Normal[request[s].email]] = request[s].password
  <2>1. request[s] \in LoginRequest(LoginStages)
    BY <1>1, <1>2, RequestKinds DEF LoginStages
  <2>2. request[s].password \in Passwords /\ Normal[request[s].email] \in Emails
    BY <2>1, SpellingsAssumption DEF LoginRequest
  <2> QED BY <1>2, <2>2, NoUserAssumption DEF RequestInv
<1>3. ASSUME request[s].stage \in {"respond"} \cup TokenStages
      PROVE  request[s].token \in 1 .. Len(sessions')
  <2>1. Len(sessions) \in Nat
    BY SessionsTypes
  <2>2. request[s].token \in 1 .. Len(sessions)
    BY <1>3 DEF RequestInv
  <2> QED BY <2>1, <2>2
<1> QED BY <1>1, <1>2, <1>3 DEF RequestInv

LEMMA AccountsInvariant == Spec => []AccountsInv
<1>1. Init => AccountsInv
  <2> SUFFICES ASSUME Init PROVE AccountsInv
    OBVIOUS
  <2>1. \A r \in Requests : request[r].stage = "idle"
    BY DEF Init, Idle
  <2>2. \A b \in Browsers : cookie[b] \in 0 .. Len(sessions)
    BY DEF Init
  <2> QED BY <2>1, <2>2 DEF AccountsInv, RequestInv, TokenStages
<1>2. TypeOK /\ AccountsInv /\ [Next]_vars => AccountsInv'
  <2> SUFFICES ASSUME TypeOK, AccountsInv, [Next]_vars PROVE AccountsInv'
    OBVIOUS
  <2>len. Len(sessions) \in Nat
    BY SessionsTypes
  <2>inv. \A r \in Requests : RequestInv(r)
    BY DEF AccountsInv
  <2>jar. \A b \in Browsers : cookie[b] \in 0 .. Len(sessions)
    BY DEF AccountsInv
  <2>here. \A r \in Requests : \A q : Become(r, q) => request'[r] = q
    BY DEF Become, TypeOK
  <2>1. ASSUME NEW r \in Requests, NEW q, Become(r, q), users' = users, sessions' = sessions,
               cookie' = cookie, RequestInv(r)'
        PROVE  AccountsInv'
    BY <2>1, <2>len, <2>inv, <2>jar, RequestInvFrame DEF AccountsInv
  <2>2. ASSUME UNCHANGED <<request, users, sessions, cookie>> PROVE AccountsInv'
    BY <2>2 DEF AccountsInv, RequestInv
  <2>3. ASSUME NEW r \in Requests, Become(r, Idle) PROVE RequestInv(r)'
    <3>1. request'[r].stage = "idle"
      BY <2>3, <2>here DEF Idle
    <3> QED BY <3>1 DEF RequestInv, TokenStages
  <2>4. ASSUME NEW r \in Requests, NEW b \in Browsers, NEW email \in Spellings,
               NEW password \in Passwords, ReceiveLogin(r, b, email, password)
        PROVE  AccountsInv'
    <3> DEFINE q == [stage |-> "authenticate", browser |-> b, email |-> email, password |-> password]
    <3>1. ASSUME Become(r, q) PROVE RequestInv(r)'
      <4>1. request'[r].stage = "authenticate"
        BY <2>here, <3>1
      <4> QED BY <4>1 DEF RequestInv, TokenStages
    <3> QED BY <2>1, <2>2, <2>4, <3>1 DEF ReceiveLogin
  <2>5. ASSUME NEW r \in Requests, Authenticate(r) PROVE AccountsInv'
    <3>1. request[r] \in LoginRequest(LoginStages)
      BY <2>5, RequestKinds DEF Authenticate, TypeOK, LoginStages
    <3>2. ASSUME Become(r, [request[r] EXCEPT !.stage = "insert"]) PROVE RequestInv(r)'
      <4>1. request'[r].stage = "insert"
        BY <2>here, <3>1, <3>2 DEF LoginRequest
      <4> QED BY <4>1 DEF RequestInv, TokenStages
    <3>3. ASSUME Become(r, [request[r] EXCEPT !.stage = "create session"]),
                 users' = users, users[Normal[request[r].email]] = request[r].password
          PROVE  RequestInv(r)'
      <4>1. /\ request'[r].stage = "create session"
            /\ request'[r].email = request[r].email /\ request'[r].password = request[r].password
        BY <2>here, <3>1, <3>3 DEF LoginRequest
      <4> QED BY <3>3, <4>1 DEF RequestInv, TokenStages
    <3> QED BY <2>1, <2>3, <2>5, <3>2, <3>3 DEF Authenticate
  <2>6. ASSUME NEW r \in Requests, InsertUser(r) PROVE AccountsInv'
    <3>1. request[r] \in LoginRequest(LoginStages)
      BY <2>6, RequestKinds DEF InsertUser, TypeOK, LoginStages
    <3> DEFINE email == Normal[request[r].email]
    <3>2. CASE users[email] # NoUser
      BY <2>1, <2>3, <2>6, <3>2 DEF InsertUser
    <3>3. CASE users[email] = NoUser
      <4> DEFINE q == [request[r] EXCEPT !.stage = "create session"]
      <4>1. email \in Emails /\ users' = [users EXCEPT ![email] = request[r].password] /\ Become(r, q)
        BY <2>6, <3>1, <3>3, SpellingsAssumption DEF InsertUser, LoginRequest
      <4>2. /\ request'[r].stage = "create session"
            /\ request'[r].email = request[r].email /\ request'[r].password = request[r].password
        BY <2>here, <3>1, <4>1 DEF LoginRequest
      <4>3. \A e \in Emails : users[e] # NoUser => users'[e] = users[e]
        BY <3>3, <4>1 DEF TypeOK
      <4>4. RequestInv(r)'
        BY <4>1, <4>2 DEF RequestInv, TokenStages, TypeOK
      <4>5. UNCHANGED <<sessions, cookie>>
        BY <2>6 DEF InsertUser
      <4> HIDE DEF q
      <4> QED BY <2>len, <2>inv, <2>jar, <4>1, <4>3, <4>4, <4>5, RequestInvFrame DEF AccountsInv
    <3> QED BY <3>2, <3>3
  <2>7. ASSUME NEW r \in Requests, CreateSession(r) PROVE AccountsInv'
    <3> DEFINE q == [stage |-> "respond", browser |-> request[r].browser,
                     email |-> request[r].email, token |-> Len(sessions) + 1]
    <3>1. Len(sessions') = Len(sessions) + 1
      <4>1. PICK e : sessions' = Append(sessions, e)
        BY <2>7 DEF CreateSession
      <4>2. sessions \in Seq(Session) /\ sessions' \in Seq(Session)
        BY TypeCorrectStep DEF TypeOK
      <4> QED BY <4>1, <4>2
    <3>2. ASSUME Become(r, q) PROVE RequestInv(r)'
      <4>1. request'[r].stage = "respond" /\ request'[r].token = Len(sessions) + 1
        BY <2>here, <3>2
      <4>2. request'[r].token \in 1 .. Len(sessions')
        BY <2>len, <3>1, <4>1
      <4> QED BY <4>1, <4>2 DEF RequestInv
    <3>3. UNCHANGED <<users, cookie>> /\ (Become(r, q) \/ Become(r, Idle))
      BY <2>7 DEF CreateSession
    <3>4. RequestInv(r)'
      BY <2>3, <3>2, <3>3
    <3>5. Len(sessions') \in Nat /\ Len(sessions) <= Len(sessions')
      BY <2>len, <3>1
    <3> HIDE DEF q
    <3>6. \A s \in Requests : RequestInv(s)'
      BY <2>inv, <3>3, <3>4, <3>5, RequestInvFrame
    <3>7. \A b \in Browsers : cookie'[b] \in 0 .. Len(sessions')
      BY <2>len, <2>jar, <3>3, <3>5
    <3> QED BY <3>6, <3>7 DEF AccountsInv
  <2>8. ASSUME NEW r \in Requests, RespondToLogin(r) \/ ClearCookie(r) PROVE AccountsInv'
    <3>1. Become(r, Idle) /\ UNCHANGED <<users, sessions>>
      BY <2>8 DEF RespondToLogin, ClearCookie
    <3>2. \A s \in Requests : RequestInv(s)'
      BY <2>3, <2>len, <2>inv, <3>1, RequestInvFrame
    <3>3. \E v \in 0 .. Len(sessions) : \E b : cookie' = [cookie EXCEPT ![b] = v]
      <4>1. RespondToLogin(r) => request[r].token \in 0 .. Len(sessions)
        <5>1. request[r].stage = "respond" => request[r].token \in 1 .. Len(sessions)
          BY <2>inv DEF RequestInv
        <5> QED BY <2>len, <5>1 DEF RespondToLogin
      <4>2. 0 \in 0 .. Len(sessions)
        BY <2>len
      <4> QED BY <2>8, <4>1, <4>2 DEF RespondToLogin, ClearCookie
    <3>4. \A b \in Browsers : cookie'[b] \in 0 .. Len(sessions')
      BY <2>jar, <3>1, <3>3 DEF TypeOK
    <3> QED BY <3>2, <3>4 DEF AccountsInv
  <2>9. ASSUME NEW r \in Requests, NEW b \in Browsers, Logout(r, b) \/ Call(r, b)
        PROVE  AccountsInv'
    <3>1. ASSUME NEW stage \in TokenStages, cookie[b] # 0, sessions' = sessions,
                 Become(r, [stage |-> stage, browser |-> b, token |-> cookie[b]])
          PROVE  RequestInv(r)'
      <4>1. request'[r].stage = stage /\ request'[r].token = cookie[b]
        BY <2>here, <3>1
      <4>2. cookie[b] \in 1 .. Len(sessions')
        BY <2>jar, <2>len, <3>1
      <4> QED BY <4>1, <4>2 DEF RequestInv, TokenStages
    <3>2. "revoke" \in TokenStages /\ "admit" \in TokenStages
      BY DEF TokenStages
    <3> QED BY <2>1, <2>2, <2>9, <3>1, <3>2 DEF Logout, Call, ReceiveWithCookie
  <2>10. ASSUME NEW r \in Requests, RevokeSession(r) PROVE AccountsInv'
    <3> DEFINE q == [request[r] EXCEPT !.stage = "clear cookie"]
    <3>1. request[r] \in TokenRequest(TokenStages) /\ request[r].stage = "revoke"
      BY <2>10, RequestKinds DEF RevokeSession, TypeOK, TokenStages
    <3>2. Len(sessions') = Len(sessions) /\ UNCHANGED <<users, cookie>> /\ Become(r, q)
      <4>1. DOMAIN sessions' = DOMAIN sessions
        BY <2>10 DEF RevokeSession
      <4>2. sessions' \in Seq(Session)
        BY <2>10, TypeCorrectStep DEF TypeOK
      <4>3. Len(sessions') \in Nat /\ DOMAIN sessions' = 1 .. Len(sessions')
        BY <4>2, LenProperties
      <4>4. DOMAIN sessions = 1 .. Len(sessions)
        BY SessionsTypes
      <4>5. Len(sessions') = Len(sessions)
        <5>1. 1 .. Len(sessions') = 1 .. Len(sessions)
          BY <4>1, <4>3, <4>4
        <5>2. \A n \in Nat : Cardinality(1 .. n) = n
          BY FS_Interval
        <5> QED BY <2>len, <4>3, <5>1, <5>2
      <4> QED BY <2>10, <4>5 DEF RevokeSession
    <3>3. request'[r].stage = "clear cookie" /\ request'[r].token = request[r].token
      BY <2>here, <3>1, <3>2 DEF TokenRequest
    <3>4. RequestInv(r)'
      BY <2>inv, <3>1, <3>2, <3>3 DEF RequestInv, TokenStages
    <3> HIDE DEF q
    <3>5. \A s \in Requests : RequestInv(s)'
      BY <2>len, <2>inv, <3>2, <3>4, RequestInvFrame
    <3> QED BY <2>jar, <3>2, <3>5 DEF AccountsInv
  <2>admit. ASSUME NEW r \in Requests, AdmitRequest(r) PROVE AccountsInv'
    <3> DEFINE q == [request[r] EXCEPT !.stage = "serve"]
    <3>1. request[r] \in TokenRequest(TokenStages) /\ request[r].stage = "admit"
      BY <2>admit, RequestKinds DEF AdmitRequest, TypeOK, TokenStages
    <3>2. UNCHANGED <<users, sessions, cookie>> /\ (Become(r, q) \/ Become(r, Idle))
      BY <2>admit DEF AdmitRequest
    <3>3. ASSUME Become(r, q) PROVE RequestInv(r)'
      <4>1. request'[r].stage = "serve" /\ request'[r].token = request[r].token
        BY <2>here, <3>1, <3>3 DEF TokenRequest
      <4> QED BY <2>inv, <3>1, <3>2, <4>1 DEF RequestInv, TokenStages
    <3> HIDE DEF q
    <3> QED BY <2>1, <2>3, <3>2, <3>3
  <2>11. ASSUME NEW r \in Requests, FinishRequest(r) \/ StoreRaises(r) PROVE AccountsInv'
    BY <2>1, <2>3, <2>11 DEF FinishRequest, StoreRaises
  <2>12. CASE Restart
    BY <2>12 DEF Restart, AccountsInv, RequestInv, Idle, TokenStages
  <2>13. CASE Tick \/ UNCHANGED vars
    BY <2>2, <2>13 DEF Tick, vars
  <2> QED
    BY <2>4, <2>5, <2>6, <2>7, <2>8, <2>9, <2>10, <2>11, <2>12, <2>13, <2>admit
       DEF Next, Handle
<1> QED BY <1>1, <1>2, TypeCorrect, PTL DEF Spec

\* Where the sessions and the time stand still, so do the sessions that are open.
LEMMA SessionsStay ==
    ASSUME UNCHANGED <<clock, sessions>>
    PROVE  opened' = opened /\ OpenSessions' = OpenSessions
BY DEF opened, OpenSessions

LEMMA ServingStays ==
    ASSUME TypeOK, NEW r \in Requests, NEW q, Become(r, q),
           request[r].stage # "serve", q.stage # "serve"
    PROVE  serving' = serving
<1>1. \A s \in Requests : request'[s] = IF s = r THEN q ELSE request[s]
  BY DEF Become, TypeOK
<1>2. \A s \in Requests : Serving(s)' = Serving(s)
  BY <1>1 DEF Serving
<1> QED BY <1>2 DEF serving

\* With time, sessions only close.
LEMMA TimeCloses ==
    ASSUME TypeOK, Tick
    PROVE  opened' = opened /\ serving' = serving /\ OpenSessions' \subseteq OpenSessions
<1>1. \A t \in DOMAIN sessions : sessions[t].expires \in Nat
  BY SessionsTypes DEF Session
<1>2. clock \in Nat /\ clock' = clock + 1 /\ UNCHANGED <<sessions, request>>
  BY BoundsAssumption DEF Tick, TypeOK
<1> QED BY <1>1, <1>2 DEF OpenSessions, opened, serving, Serving

LEMMA RevocationCloses ==
    ASSUME TypeOK, NEW r \in Requests, RevokeSession(r)
    PROVE  opened' = opened /\ OpenSessions' \subseteq OpenSessions
<1>1. DOMAIN sessions' = DOMAIN sessions /\ clock' = clock
  BY DEF RevokeSession
<1>2. ASSUME NEW t \in DOMAIN sessions
      PROVE  sessions'[t] = IF t = request[r].token THEN RevokedSession(sessions[t]) ELSE sessions[t]
  BY <1>2 DEF RevokeSession
<1>3. ASSUME NEW t \in DOMAIN sessions
      PROVE  /\ sessions'[t].as = sessions[t].as
             /\ sessions'[t].expires = sessions[t].expires
             /\ ~sessions'[t].revoked => ~sessions[t].revoked
  <2>1. sessions[t] \in Session
    BY <1>3, SessionsTypes
  <2> QED BY <1>2, <1>3, <2>1 DEF RevokedSession, Session
<1> QED BY <1>1, <1>3 DEF opened, OpenSessions

LEMMA SequenceOfFunction ==
    ASSUME NEW S, NEW n \in Nat, NEW f \in [1 .. n -> S]
    PROVE  f \in Seq(S) /\ Len(f) = n
OBVIOUS

\* A session is opened with the credentials of its login, and is open at once.
LEMMA CreationOpens ==
    ASSUME TypeOK, NEW r \in Requests, CreateSession(r)
    PROVE  LET given == [email |-> Normal[request[r].email], password |-> request[r].password]
           IN  /\ opened' = Append(opened, given)
               /\ OpenSessions' = OpenSessions \cup {Len(opened) + 1}
<1> DEFINE given == [email |-> Normal[request[r].email], password |-> request[r].password]
           new == Opened(request[r].email, request[r].password)
           n == Len(sessions)
<1>1. n \in Nat /\ DOMAIN sessions = 1 .. n /\ sessions \in Seq(Session)
  BY SessionsTypes
<1>2. sessions' = Append(sessions, new) /\ clock' = clock
  BY DEF CreateSession
<1>3. new \in Session
  <2>1. request[r] \in LoginRequest(LoginStages)
    BY RequestKinds DEF CreateSession, TypeOK, LoginStages
  <2> QED BY <2>1, LimitsAssumption, SpellingsAssumption, BoundsAssumption
          DEF Opened, Session, Credentials, LoginRequest, TypeOK
<1>4. new.as = given /\ ~new.revoked /\ new.expires = clock + SessionTicks
  BY DEF Opened
<1> HIDE DEF given, new
<1>5. /\ sessions' \in Seq(Session) /\ Len(sessions') = n + 1 /\ DOMAIN sessions' = 1 .. n + 1
      /\ \A t \in 1 .. n : sessions'[t] = sessions[t]
      /\ sessions'[n + 1] = new
  BY <1>1, <1>2, <1>3, AppendProperties
<1>6. \A t \in 1 .. n : sessions[t].as \in Credentials
  BY SessionsTypes DEF Session
<1>7. given \in Credentials
  BY <1>3, <1>4 DEF Session
<1> HIDE DEF n
<1>8. opened' = Append(opened, given)
  <2>1. opened = [t \in 1 .. n |-> sessions[t].as]
    BY <1>1 DEF opened
  <2>2. opened' = [t \in 1 .. n + 1 |-> sessions'[t].as]
    BY <1>5 DEF opened
  <2>3. opened \in [1 .. n -> Credentials]
    BY <1>6, <2>1
  <2>4. opened \in Seq(Credentials) /\ Len(opened) = n
    BY <1>1, <2>3, SequenceOfFunction
  <2>5. opened' \in [1 .. n + 1 -> Credentials]
    BY <1>1, <1>4, <1>5, <1>6, <1>7, <2>2
  <2>6. opened' \in Seq(Credentials) /\ Len(opened') = n + 1
    BY <1>1, <2>5, SequenceOfFunction
  <2>7. /\ Append(opened, given) \in Seq(Credentials) /\ Len(Append(opened, given)) = n + 1
        /\ \A t \in 1 .. n : Append(opened, given)[t] = opened[t]
        /\ Append(opened, given)[n + 1] = given
    BY <1>7, <2>4, AppendProperties
  <2>8. \A t \in 1 .. n + 1 : opened'[t] = Append(opened, given)[t]
    BY <1>1, <1>4, <1>5, <2>1, <2>2, <2>7
  <2> QED BY <2>6, <2>7, <2>8, SeqEqual
<1>9. OpenSessions' = OpenSessions \cup {n + 1}
  <2>1. clock \in Nat /\ SessionTicks \in Nat \ {0}
    BY BoundsAssumption, LimitsAssumption DEF TypeOK
  <2> QED BY <1>1, <1>2, <1>4, <1>5, <2>1 DEF OpenSessions
<1>10. Len(opened) = n
  <2>1. opened \in [1 .. n -> Credentials]
    BY <1>1, <1>6 DEF opened
  <2> QED BY <1>1, <2>1, SequenceOfFunction
<1> QED BY <1>8, <1>9, <1>10 DEF given

\* Initially there is no account, no session and no request that is served.
LEMMA InitRefines == Init => Service!Init
<1> SUFFICES ASSUME Init PROVE Service!Init
  OBVIOUS
<1>1. opened = << >>
  BY DEF Init, opened
<1>2. OpenSessions = {}
  BY DEF Init, OpenSessions
<1>3. serving = [r \in Requests |-> 0]
  BY DEF Init, serving, Serving, Idle
<1> QED BY <1>1, <1>2, <1>3 DEF Init, Service!Init, opened, serving

\* Every step of the code is a step of the service or invisible to it.
LEMMA StepRefines ==
    ASSUME TypeOK, AccountsInv, [Next]_vars
    PROVE  [Service!Next]_(Service!vars)
<1> DEFINE Invisible == /\ users' = users /\ opened' = opened
                        /\ OpenSessions' = OpenSessions /\ serving' = serving
<1>none. Invisible => UNCHANGED Service!vars
  BY DEF Service!vars, opened, serving
<1>1. ASSUME NEW r \in Requests, NEW q, Become(r, q), request[r].stage # "serve",
             q.stage # "serve", UNCHANGED <<clock, users, sessions>>
      PROVE  Invisible
  BY <1>1, ServingStays, SessionsStay
<1>2. ASSUME UNCHANGED <<clock, users, sessions, request>> PROVE Invisible
  BY <1>2, SessionsStay DEF serving, Serving
<1> HIDE DEF Invisible
<1>stage. \A r \in Requests : \A q : Become(r, q) => request'[r] = q
  BY DEF Become, TypeOK
<1>idle. Idle.stage = "idle"
  BY DEF Idle
<1>3. ASSUME NEW r \in Requests, NEW b \in Browsers, NEW email \in Spellings,
             NEW password \in Passwords, ReceiveLogin(r, b, email, password)
      PROVE  Invisible
  <2> DEFINE q == [stage |-> "authenticate", browser |-> b, email |-> email, password |-> password]
  <2>1. request[r].stage = "idle" /\ q.stage = "authenticate"
    BY <1>3, <1>idle DEF ReceiveLogin
  <2>2. UNCHANGED <<clock, users, sessions>> /\ (Become(r, q) \/ UNCHANGED request)
    BY <1>3 DEF ReceiveLogin
  <2> HIDE DEF q
  <2> QED BY <1>1, <1>2, <2>1, <2>2
<1>4. ASSUME NEW r \in Requests, Authenticate(r) PROVE Invisible
  <2>1. request[r] \in LoginRequest(LoginStages) /\ request[r].stage = "authenticate"
    BY <1>4, RequestKinds DEF Authenticate, TypeOK, LoginStages
  <2>2. \A stage \in STRING : [request[r] EXCEPT !.stage = stage].stage = stage
    BY <2>1 DEF LoginRequest
  <2>3. \/ Become(r, [request[r] EXCEPT !.stage = "insert"])
        \/ Become(r, [request[r] EXCEPT !.stage = "create session"])
        \/ Become(r, Idle)
    BY <1>4 DEF Authenticate
  <2>4. UNCHANGED <<clock, users, sessions>>
    BY <1>4 DEF Authenticate
  <2>5. /\ [request[r] EXCEPT !.stage = "insert"].stage # "serve"
        /\ [request[r] EXCEPT !.stage = "create session"].stage # "serve"
    BY <2>2
  <2> QED BY <1>1, <1>idle, <2>1, <2>3, <2>4, <2>5
<1>5. ASSUME NEW r \in Requests, InsertUser(r)
      PROVE  Invisible \/ \E e \in Emails, p \in Passwords : Service!Register(e, p)
  <2>1. request[r] \in LoginRequest(LoginStages) /\ request[r].stage = "insert"
    BY <1>5, RequestKinds DEF InsertUser, TypeOK, LoginStages
  <2> DEFINE email == Normal[request[r].email]
  <2>2. CASE users[email] # NoUser
    BY <1>1, <1>5, <1>idle, <2>1, <2>2 DEF InsertUser
  <2>3. CASE users[email] = NoUser
    <3>1. email \in Emails /\ request[r].password \in Passwords
      BY <2>1, SpellingsAssumption DEF LoginRequest
    <3>2. [request[r] EXCEPT !.stage = "create session"].stage = "create session"
      BY <2>1 DEF LoginRequest
    <3>3. serving' = serving /\ opened' = opened /\ OpenSessions' = OpenSessions
      BY <1>5, <2>1, <2>3, <3>2, ServingStays, SessionsStay DEF InsertUser
    <3>4. users' = [users EXCEPT ![email] = request[r].password]
      BY <1>5, <2>3 DEF InsertUser
    <3>5. Service!Register(email, request[r].password)
      BY <2>3, <3>3, <3>4 DEF Service!Register, opened, serving
    <3> QED BY <3>1, <3>5
  <2> QED BY <2>2, <2>3
<1>6. ASSUME NEW r \in Requests, CreateSession(r)
      PROVE  \E given \in Credentials : Service!OpenSession(given)
  <2>1. request[r] \in LoginRequest(LoginStages) /\ request[r].stage = "create session"
    BY <1>6, RequestKinds DEF CreateSession, TypeOK, LoginStages
  <2>2. PICK login \in Credentials :
           login = [email |-> Normal[request[r].email], password |-> request[r].password]
    BY <2>1, SpellingsAssumption DEF LoginRequest, Credentials
  <2>3. users[login.email] = login.password
    BY <2>1, <2>2 DEF AccountsInv, RequestInv
  <2>4. opened' = Append(opened, login) /\ OpenSessions' = OpenSessions \cup {Len(opened) + 1}
    BY <1>6, <2>2, CreationOpens
  <2>5. users' = users /\ serving' = serving
    <3> DEFINE q == [stage |-> "respond", browser |-> request[r].browser,
                     email |-> request[r].email, token |-> Len(sessions) + 1]
    <3>1. (Become(r, q) \/ Become(r, Idle)) /\ q.stage # "serve" /\ users' = users
      BY <1>6 DEF CreateSession
    <3> HIDE DEF q
    <3> QED BY <1>idle, <2>1, <3>1, ServingStays
  <2>6. Service!OpenSession(login)
    BY <2>3, <2>4, <2>5 DEF Service!OpenSession, opened, serving
  <2> QED BY <2>2, <2>6
<1>7. ASSUME NEW r \in Requests, RespondToLogin(r) \/ ClearCookie(r) \/ StoreRaises(r) PROVE Invisible
  BY <1>1, <1>7, <1>idle DEF RespondToLogin, ClearCookie, StoreRaises
<1>8. ASSUME NEW r \in Requests, NEW b \in Browsers, Logout(r, b) \/ Call(r, b) PROVE Invisible
  <2> DEFINE q(stage) == [stage |-> stage, browser |-> b, token |-> cookie[b]]
  <2>1. /\ request[r].stage = "idle" /\ (Become(r, q("revoke")) \/ Become(r, q("admit")))
        /\ q("revoke").stage = "revoke" /\ q("admit").stage = "admit"
    BY <1>8, <1>idle DEF Logout, Call, ReceiveWithCookie
  <2>2. UNCHANGED <<clock, users, sessions>>
    BY <1>8 DEF Logout, Call, ReceiveWithCookie
  <2> HIDE DEF q
  <2> QED BY <1>1, <2>1, <2>2
<1>9. ASSUME NEW r \in Requests, AdmitRequest(r)
      PROVE  Invisible \/ \E t \in OpenSessions : Service!Admit(r, t)
  <2> DEFINE t == request[r].token
             q == [request[r] EXCEPT !.stage = "serve"]
  <2>1. UNCHANGED <<clock, users, sessions>> /\ request[r].stage = "admit"
    BY <1>9 DEF AdmitRequest
  <2>2. CASE ~SessionValid(t)
    BY <1>1, <1>9, <1>idle, <2>1, <2>2 DEF AdmitRequest
  <2>3. CASE SessionValid(t)
    <3>0. q.stage = "serve" /\ q.token = t
      BY <2>1, RequestKinds DEF TypeOK, TokenStages, TokenRequest
    <3>1. t \in DOMAIN sessions
      BY <2>1, SessionsTypes DEF AccountsInv, RequestInv, TokenStages
    <3>2. t \in OpenSessions
      <4>1. sessions[t].expires \in Nat /\ clock \in Nat
        <5>1. sessions[t] \in Session
          BY <3>1, SessionsTypes
        <5> QED BY <5>1, BoundsAssumption DEF Session, TypeOK
      <4> QED BY <2>3, <3>1, <4>1 DEF SessionValid, OpenSessions
    <3>3. serving' = [serving EXCEPT ![r] = t]
      <4>1. \A s \in Requests : request'[s] = IF s = r THEN q ELSE request[s]
        BY <1>9, <2>3 DEF AdmitRequest, Become, TypeOK
      <4>2. \A s \in Requests : Serving(s)' = IF s = r THEN t ELSE Serving(s)
        BY <3>0, <4>1 DEF Serving
      <4> QED BY <4>2 DEF serving
    <3>4. Service!Admit(r, t)
      BY <2>1, <3>2, <3>3, SessionsStay DEF Service!Admit, opened, serving
    <3> QED BY <3>2, <3>4
  <2> QED BY <2>2, <2>3
<1>10. ASSUME NEW r \in Requests, RevokeSession(r)
       PROVE  \E closed \in SUBSET OpenSessions : Service!Close(closed)
  <2>1. request[r] \in TokenRequest(TokenStages) /\ request[r].stage = "revoke"
    BY <1>10, RequestKinds DEF RevokeSession, TypeOK, TokenStages
  <2>2. [request[r] EXCEPT !.stage = "clear cookie"].stage = "clear cookie"
    BY <2>1 DEF TokenRequest
  <2>3. users' = users /\ serving' = serving
    BY <1>10, <2>1, <2>2, ServingStays DEF RevokeSession
  <2>4. opened' = opened /\ OpenSessions' \subseteq OpenSessions
    BY <1>10, RevocationCloses
  <2>5. OpenSessions' = OpenSessions \ (OpenSessions \ OpenSessions')
    BY <2>4
  <2>6. Service!Close(OpenSessions \ OpenSessions')
    BY <2>3, <2>4, <2>5 DEF Service!Close, opened, serving
  <2> QED BY <2>6
<1>11. ASSUME NEW done \in SUBSET Requests, UNCHANGED <<clock, users, sessions>>,
              request' = [r \in Requests |-> IF r \in done THEN Idle ELSE request[r]]
       PROVE  Service!Finish(done)
  <2>1. \A r \in Requests : Serving(r)' = IF r \in done THEN 0 ELSE Serving(r)
    BY <1>11, <1>idle DEF Serving
  <2>2. serving' = [r \in Requests |-> IF r \in done THEN 0 ELSE serving[r]]
    BY <2>1 DEF serving
  <2> QED BY <1>11, <2>2, SessionsStay DEF Service!Finish, opened, serving
<1>12. ASSUME NEW r \in Requests, FinishRequest(r)
       PROVE  \E done \in SUBSET Requests : Service!Finish(done)
  <2>1. request' = [s \in Requests |-> IF s \in {r} THEN Idle ELSE request[s]]
    BY <1>12 DEF FinishRequest, Become, TypeOK
  <2>2. Service!Finish({r})
    BY <1>11, <1>12, <2>1 DEF FinishRequest
  <2> QED BY <2>2
<1>13. ASSUME Restart PROVE \E done \in SUBSET Requests : Service!Finish(done)
  <2>1. request' = [s \in Requests |-> IF s \in Requests THEN Idle ELSE request[s]]
    BY <1>13 DEF Restart
  <2>2. Service!Finish(Requests)
    BY <1>11, <1>13, <2>1 DEF Restart
  <2> QED BY <2>2
<1>14. ASSUME Tick PROVE \E closed \in SUBSET OpenSessions : Service!Close(closed)
  <2>1. users' = users /\ opened' = opened /\ serving' = serving /\ OpenSessions' \subseteq OpenSessions
    BY <1>14, TimeCloses DEF Tick
  <2>2. OpenSessions' = OpenSessions \ (OpenSessions \ OpenSessions')
    BY <2>1
  <2>3. Service!Close(OpenSessions \ OpenSessions')
    BY <2>1, <2>2 DEF Service!Close, opened, serving
  <2> QED BY <2>3
<1>15. ASSUME UNCHANGED vars PROVE Invisible
  BY <1>2, <1>15 DEF vars
<1>16. Service!Next \/ Invisible
  <2>1. ASSUME NEW r \in Requests, Handle(r) PROVE Service!Next \/ Invisible
    BY <1>3, <1>4, <1>5, <1>6, <1>7, <1>8, <1>9, <1>10, <1>12, <2>1
       DEF Handle, Service!Next, Credentials, Service!Credentials
  <2>2. ASSUME Restart \/ Tick PROVE Service!Next
    BY <1>13, <1>14, <2>2 DEF Service!Next
  <2> QED BY <1>15, <2>1, <2>2 DEF Next
<1> QED BY <1>none, <1>16

\* Accounts implements AccountService: the first password given for an e-mail is its password
\* for good, although two first logins may race; sessions open only for who gave it, and serve
\* nobody once they are revoked or have expired.
THEOREM RefinementCorrect == Spec => RefinesAccountService
<1>1. Init => Service!Init
  BY InitRefines
<1>2. TypeOK /\ AccountsInv /\ [Next]_vars => [Service!Next]_(Service!vars)
  BY StepRefines
<1> QED BY <1>1, <1>2, TypeCorrect, AccountsInvariant, PTL DEF Spec, Service!Spec, RefinesAccountService

-----------------------------------------------------------------------------
(* The limiter. *)

Sorted(times, now) ==
    \A i, j \in 1 .. Len(times) : times[i] <= now /\ (i <= j => times[i] <= times[j])

\* Failures are recorded when a check ends, so each queue is in the order of time.
QueuesInv == \A k \in Spellings : Sorted(attempts[k], clock)

LEMMA QueueTypes ==
    ASSUME TypeOK, NEW k \in Spellings
    PROVE  /\ attempts[k] \in Seq(0 .. MaxClock) /\ Len(attempts[k]) \in Nat
           /\ DOMAIN attempts[k] = 1 .. Len(attempts[k])
           /\ \A i \in 1 .. Len(attempts[k]) : attempts[k][i] \in Nat
           /\ clock \in Nat /\ clock \in 0 .. MaxClock
<1>1. attempts[k] \in Seq(0 .. MaxClock) /\ clock \in 0 .. MaxClock
  BY DEF TypeOK
<1>2. \A i \in 1 .. Len(attempts[k]) : attempts[k][i] \in 0 .. MaxClock
  BY <1>1, ElementOfSeq
<1>3. 0 .. MaxClock \subseteq Nat
  BY BoundsAssumption
<1> QED BY <1>1, <1>2, <1>3, LenProperties

\* The failures that allow drops are a prefix, and exactly those outside of the window.
LEMMA ExpiredPrefix ==
    ASSUME TypeOK, QueuesInv, NEW k \in Spellings
    PROVE  LET old == {i \in DOMAIN attempts[k] : attempts[k][i] + Window <= clock}
               n == Cardinality(old)
           IN  /\ old = {i \in DOMAIN attempts[k] :
                           \A j \in 1 .. i : attempts[k][j] + Window <= clock}
               /\ n \in 0 .. Len(attempts[k])
               /\ Pruned(k) \in Seq(0 .. MaxClock) /\ Len(Pruned(k)) = Len(attempts[k]) - n
               /\ \A i \in 1 .. Len(Pruned(k)) : Pruned(k)[i] = attempts[k][n + i]
<1> DEFINE old == {i \in DOMAIN attempts[k] : attempts[k][i] + Window <= clock}
           expired == {i \in DOMAIN attempts[k] :
                         \A j \in 1 .. i : attempts[k][j] + Window <= clock}
           n == Cardinality(old)
           len == Len(attempts[k])
<1>1. len \in Nat /\ DOMAIN attempts[k] = 1 .. len /\ \A i \in 1 .. len : attempts[k][i] \in Nat
  BY QueueTypes
<1>2. clock \in Nat /\ Window \in Nat
  BY QueueTypes, LimitsAssumption
<1>3. \A i, j \in 1 .. len : j <= i => attempts[k][j] <= attempts[k][i]
  BY DEF QueuesInv, Sorted
<1>4. old = expired
  BY <1>1, <1>2, <1>3
<1>5. IsFiniteSet(old) /\ n \in Nat /\ n <= len
  <2>1. IsFiniteSet(1 .. len) /\ Cardinality(1 .. len) = len /\ old \subseteq 1 .. len
    BY <1>1, FS_Interval
  <2> HIDE DEF old
  <2> QED BY <2>1, FS_Subset, FS_CardinalityType
<1>6. Pruned(k) = SubSeq(attempts[k], n + 1, len)
  BY <1>4 DEF Pruned
<1>7. attempts[k] \in Seq(0 .. MaxClock)
  BY QueueTypes
<1> HIDE DEF old, expired, n, len
<1>8. /\ SubSeq(attempts[k], n + 1, len) \in Seq(0 .. MaxClock)
      /\ Len(SubSeq(attempts[k], n + 1, len)) = IF n + 1 <= len THEN len - (n + 1) + 1 ELSE 0
      /\ \A i \in 1 .. len - (n + 1) + 1 :
            SubSeq(attempts[k], n + 1, len)[i] = attempts[k][n + 1 + i - 1]
  <2>1. \A i \in n + 1 .. len : attempts[k][i] \in 0 .. MaxClock
    <3>1. \A i \in 1 .. len : attempts[k][i] \in 0 .. MaxClock
      BY <1>7, ElementOfSeq DEF len
    <3> QED BY <1>1, <1>5, <3>1
  <2>2. n + 1 \in Int /\ len \in Int
    BY <1>1, <1>5
  <2> QED BY <2>1, <2>2, SubSeqProperties
<1>9. /\ Len(Pruned(k)) = len - n
      /\ \A i \in 1 .. Len(Pruned(k)) : Pruned(k)[i] = attempts[k][n + i]
  BY <1>1, <1>5, <1>6, <1>8
<1>10. n \in 0 .. len /\ Pruned(k) \in Seq(0 .. MaxClock)
  BY <1>1, <1>5, <1>6, <1>8
<1>11. /\ old = expired /\ n \in 0 .. len
       /\ Pruned(k) \in Seq(0 .. MaxClock) /\ Len(Pruned(k)) = len - n
       /\ \A i \in 1 .. Len(Pruned(k)) : Pruned(k)[i] = attempts[k][n + i]
  BY <1>4, <1>9, <1>10
<1> QED BY Zenon, <1>11 DEF old, expired, n, len

LEMMA EmptySorted == \A now : Sorted(<< >>, now)
BY DEF Sorted

LEMMA PrunedSorted ==
    ASSUME TypeOK, QueuesInv, NEW k \in Spellings
    PROVE  Sorted(Pruned(k), clock)
<1>1. PICK n \in 0 .. Len(attempts[k]) :
         /\ Len(Pruned(k)) = Len(attempts[k]) - n
         /\ \A i \in 1 .. Len(Pruned(k)) : Pruned(k)[i] = attempts[k][n + i]
  BY ExpiredPrefix
<1>2. Len(attempts[k]) \in Nat
  BY QueueTypes
<1>3. Sorted(attempts[k], clock)
  BY DEF QueuesInv
<1>4. \A i \in 1 .. Len(Pruned(k)) : n + i \in 1 .. Len(attempts[k])
  BY <1>1, <1>2
<1> QED BY <1>1, <1>2, <1>3, <1>4 DEF Sorted

LEMMA AppendSorted ==
    ASSUME TypeOK, QueuesInv, NEW k \in Spellings
    PROVE  Sorted(Append(attempts[k], clock), clock)
<1> DEFINE len == Len(attempts[k])
           longer == Append(attempts[k], clock)
<1>1. /\ attempts[k] \in Seq(0 .. MaxClock) /\ len \in Nat /\ clock \in Nat
      /\ clock \in 0 .. MaxClock
  BY QueueTypes
<1>2. /\ Len(longer) = len + 1 /\ longer[len + 1] = clock
      /\ \A i \in 1 .. len : longer[i] = attempts[k][i]
  BY <1>1, AppendProperties
<1>3. \A i, j \in 1 .. len :
         attempts[k][i] <= clock /\ (i <= j => attempts[k][i] <= attempts[k][j])
  BY DEF QueuesInv, Sorted
<1> HIDE DEF len, longer
<1>4. \A i, j \in 1 .. len + 1 : longer[i] <= clock /\ (i <= j => longer[i] <= longer[j])
  BY <1>1, <1>2, <1>3
<1>5. Sorted(longer, clock)
  BY <1>2, <1>4 DEF Sorted
<1> QED BY <1>5 DEF longer

LEMMA QueuesInvariant == Spec => []QueuesInv
<1>1. Init => QueuesInv
  BY EmptySorted DEF Init, QueuesInv
<1>2. TypeOK /\ QueuesInv /\ [Next]_vars => QueuesInv'
  <2> SUFFICES ASSUME TypeOK, QueuesInv, [Next]_vars PROVE QueuesInv'
    OBVIOUS
  <2>0. attempts \in [Spellings -> Seq(0 .. MaxClock)]
    BY DEF TypeOK
  <2>1. ASSUME NEW k, NEW times, clock' = clock, k \in Spellings => Sorted(times, clock),
               attempts' = [attempts EXCEPT ![k] = times]
        PROVE  QueuesInv'
    BY <2>0, <2>1 DEF QueuesInv
  <2>2. ASSUME clock' = clock, attempts' = attempts PROVE QueuesInv'
    BY <2>2 DEF QueuesInv
  <2>3. ASSUME NEW r \in Requests, NEW b \in Browsers, NEW email \in Spellings,
               NEW password \in Passwords, ReceiveLogin(r, b, email, password)
        PROVE  QueuesInv'
    <3>1. KeyOf(email) \in Spellings
      BY KeyTypes
    <3>2. Sorted(Pruned(KeyOf(email)), clock)
      BY <3>1, PrunedSorted
    <3>3. /\ clock' = clock
          /\ attempts' = [attempts EXCEPT ![KeyOf(email)] = Pruned(KeyOf(email))]
      BY <2>3 DEF ReceiveLogin
    <3> QED BY <2>1, <3>2, <3>3
  <2>4. ASSUME NEW r \in Requests, Authenticate(r) PROVE QueuesInv'
    <3>1. CASE attempts' = attempts
      BY <2>2, <2>4, <3>1 DEF Authenticate
    <3>2. CASE attempts' = [attempts EXCEPT
                              ![KeyOf(request[r].email)] =
                                 Append(attempts[KeyOf(request[r].email)], clock)]
      BY <2>1, <2>4, <3>2, AppendSorted DEF Authenticate
    <3> QED BY <2>4, <3>1, <3>2 DEF Authenticate, Failed
  <2>5. ASSUME NEW r \in Requests, RespondToLogin(r) PROVE QueuesInv'
    <3>1. /\ clock' = clock
          /\ attempts' = [attempts EXCEPT ![KeyOf(request[r].email)] = << >>]
      BY <2>5 DEF RespondToLogin, Succeeded
    <3> QED BY <2>1, <3>1, EmptySorted
  <2>6. ASSUME NEW r \in Requests, InsertUser(r) \/ CreateSession(r) \/ RevokeSession(r)
                 \/ ClearCookie(r) \/ AdmitRequest(r) \/ FinishRequest(r) \/ StoreRaises(r)
        PROVE  QueuesInv'
    BY <2>2, <2>6
       DEF InsertUser, CreateSession, RevokeSession, ClearCookie, AdmitRequest, FinishRequest,
           StoreRaises
  <2>7. ASSUME NEW r \in Requests, NEW b \in Browsers, Logout(r, b) \/ Call(r, b)
        PROVE  QueuesInv'
    BY <2>2, <2>7 DEF Logout, Call, ReceiveWithCookie
  <2>8. CASE Restart
    BY <2>8, EmptySorted DEF Restart, QueuesInv
  <2>9. CASE Tick
    <3>1. attempts' = attempts /\ clock' = clock + 1 /\ clock \in Nat
      BY <2>9, BoundsAssumption DEF Tick, TypeOK
    <3>2. ASSUME NEW k \in Spellings PROVE Sorted(attempts[k], clock + 1)
      <4>1. \A i \in 1 .. Len(attempts[k]) : attempts[k][i] \in Nat
        BY QueueTypes
      <4> QED BY <3>1, <4>1 DEF QueuesInv, Sorted
    <3> QED BY <3>1, <3>2 DEF QueuesInv
  <2>10. CASE UNCHANGED vars
    BY <2>2, <2>10 DEF vars
  <2> QED
    BY <2>3, <2>4, <2>5, <2>6, <2>7, <2>8, <2>9, <2>10 DEF Next, Handle
<1> QED BY <1>1, <1>2, TypeCorrect, PTL DEF Spec

\* The limiter refuses exactly while MaximumAttempts failures lie within its window, whatever
\* the limit, the window and the order in which concurrent checks end.
THEOREM LimiterIsExactCorrect == Spec => []LimiterIsExact
<1>1. TypeOK /\ QueuesInv => LimiterIsExact
  <2> SUFFICES ASSUME TypeOK, QueuesInv, NEW k \in Spellings
               PROVE  Allowed(k) <=>
                        Cardinality({i \in DOMAIN attempts[k] : clock - attempts[k][i] < Window})
                          < MaximumAttempts
    BY DEF LimiterIsExact
  <2> DEFINE old == {i \in DOMAIN attempts[k] : attempts[k][i] + Window <= clock}
             recent == {i \in DOMAIN attempts[k] : clock - attempts[k][i] < Window}
             len == Len(attempts[k])
  <2>1. /\ len \in Nat /\ DOMAIN attempts[k] = 1 .. len /\ clock \in Nat /\ Window \in Nat
        /\ \A i \in 1 .. len : attempts[k][i] \in Nat
    BY QueueTypes, LimitsAssumption
  <2>2. recent = (1 .. len) \ old
    BY <2>1
  <2>3. Len(Pruned(k)) = len - Cardinality(old)
    BY ExpiredPrefix
  <2>4. IsFiniteSet(1 .. len) /\ Cardinality(1 .. len) = len /\ old \subseteq 1 .. len
    BY <2>1, FS_Interval
  <2> HIDE DEF old, recent, len
  <2>5. /\ IsFiniteSet(old) /\ Cardinality(old) \in Nat
        /\ Cardinality(recent) = len - Cardinality((1 .. len) \cap old)
    BY <2>2, <2>4, FS_Subset, FS_CardinalityType, FS_Difference
  <2>6. (1 .. len) \cap old = old
    BY <2>4
  <2>7. Allowed(k) <=> Cardinality(recent) < MaximumAttempts
    BY <2>3, <2>5, <2>6 DEF Allowed
  <2> QED BY <2>7 DEF recent
<1> QED BY <1>1, TypeCorrect, QueuesInvariant, PTL

\* The logins for an e-mail that the limiter has let pass and not heard of yet.
Checking(e) == {r \in Requests : request[r].stage = "authenticate" /\ Normal[request[r].email] = e}

\* The last login to pass found fewer failures than the limit; since then a failure has only
\* been recorded for one of the requests that were being checked.
GuessesInv ==
    /\ \A k \in Spellings \ Emails : attempts[k] = << >>
    /\ \A e \in Emails :
          Len(attempts[e]) + Cardinality(Checking(e)) <= MaximumAttempts - 1 + Cardinality(Requests)

LEMMA CheckingFinite ==
    ASSUME NEW e
    PROVE  /\ IsFiniteSet(Checking(e)) /\ Cardinality(Checking(e)) \in Nat
           /\ Cardinality(Requests) \in Nat /\ Cardinality(Checking(e)) <= Cardinality(Requests)
           /\ \A S : S \subseteq Checking(e) =>
                 IsFiniteSet(S) /\ Cardinality(S) \in Nat /\ Cardinality(S) <= Cardinality(Checking(e))
<1>1. Checking(e) \subseteq Requests
  BY DEF Checking
<1> QED BY <1>1, RequestsAssumption, FS_Subset, FS_CardinalityType

LEMMA CheckingAfter ==
    ASSUME TypeOK, NEW r \in Requests, NEW q, Become(r, q), NEW e,
           q.stage = "authenticate" => Normal[q.email] # e
    PROVE  Checking(e)' = Checking(e) \ {r}
<1>1. \A s \in Requests : request'[s] = IF s = r THEN q ELSE request[s]
  BY DEF Become, TypeOK
<1> QED BY <1>1 DEF Checking

LEMMA GuessesInvariant == Spec => []GuessesInv
<1> DEFINE Most == MaximumAttempts - 1 + Cardinality(Requests)
<1>most. Cardinality(Requests) \in Nat /\ Most \in Nat
  BY LimitsAssumption, RequestsAssumption, FS_CardinalityType
<1>1. Init => GuessesInv
  <2> SUFFICES ASSUME Init PROVE GuessesInv
    OBVIOUS
  <2>1. ASSUME NEW e \in Emails PROVE Len(attempts[e]) + Cardinality(Checking(e)) <= Most
    <3>1. Checking(e) = {}
      BY DEF Init, Checking, Idle
    <3>2. Len(attempts[e]) = 0
      BY SpellingsAssumption DEF Init
    <3> QED BY <1>most, <3>1, <3>2, FS_EmptySet
  <2> QED BY <2>1 DEF GuessesInv, Init
<1>2. TypeOK /\ QueuesInv /\ GuessesInv /\ [Next]_vars => GuessesInv'
  <2> SUFFICES ASSUME TypeOK, QueuesInv, GuessesInv, [Next]_vars PROVE GuessesInv'
    OBVIOUS
  <2> DEFINE Bound(e) == Len(attempts[e]) + Cardinality(Checking(e)) <= Most
             Empty == \A k \in Spellings \ Emails : attempts[k] = << >>
  <2>types. attempts \in [Spellings -> Seq(0 .. MaxClock)] /\ Emails \subseteq Spellings
    BY SpellingsAssumption DEF TypeOK
  <2>len. \A e \in Emails : Len(attempts[e]) \in Nat
    BY QueueTypes, SpellingsAssumption
  <2>now. Empty /\ \A e \in Emails : Bound(e)
    BY DEF GuessesInv
  <2> SUFFICES Empty' /\ \A e \in Emails : Bound(e)'
    BY DEF GuessesInv
  \* An e-mail whose queue does not grow, and of which nobody starts to check a login.
  <2>1. ASSUME NEW e \in Emails, Len(attempts'[e]) \in Nat,
               Len(attempts'[e]) <= Len(attempts[e]), Checking(e)' \subseteq Checking(e)
        PROVE  Bound(e)'
    <3>1. Cardinality(Checking(e)') <= Cardinality(Checking(e)) /\ Cardinality(Checking(e)') \in Nat
      BY <2>1, CheckingFinite
    <3> QED BY <1>most, <2>1, <2>len, <2>now, <3>1, CheckingFinite
  <2>2. ASSUME NEW r \in Requests, NEW q, Become(r, q), q.stage # "authenticate",
               attempts' = attempts
        PROVE  Empty' /\ \A e \in Emails : Bound(e)'
    BY <2>1, <2>2, <2>len, <2>now, CheckingAfter
  <2>3. ASSUME UNCHANGED <<attempts, request>> PROVE Empty' /\ \A e \in Emails : Bound(e)'
    BY <2>3, <2>now DEF Checking
  <2>idle. Idle.stage # "authenticate"
    BY DEF Idle
  <2>4. ASSUME NEW r \in Requests, NEW b \in Browsers, NEW email \in Spellings,
               NEW password \in Passwords, ReceiveLogin(r, b, email, password)
        PROVE  Empty' /\ \A e \in Emails : Bound(e)'
    <3> DEFINE q == [stage |-> "authenticate", browser |-> b, email |-> email, password |-> password]
    <3>1. PICK k \in Emails : k = KeyOf(email) /\ k = Normal[email]
      BY KeyTypes DEF KeyOf
    <3>2. attempts' = [attempts EXCEPT ![k] = Pruned(k)]
      BY <2>4, <3>1 DEF ReceiveLogin
    <3>3. Len(Pruned(k)) \in Nat /\ Len(Pruned(k)) <= Len(attempts[k])
      <4>1. k \in Spellings /\ Len(attempts[k]) \in Nat
        BY <2>types, <2>len
      <4>2. PICK n \in 0 .. Len(attempts[k]) : Len(Pruned(k)) = Len(attempts[k]) - n
        BY <4>1, ExpiredPrefix
      <4> QED BY <4>1, <4>2
    <3>4. Empty'
      BY <2>types, <2>now, <3>2
    <3>5. CASE ~Allowed(k)
      <4>1. \A e : Checking(e)' = Checking(e)
        BY <2>4, <3>1, <3>5 DEF ReceiveLogin, Checking
      <4>2. ASSUME NEW e \in Emails PROVE Bound(e)'
        <5>1. Len(attempts'[e]) \in Nat /\ Len(attempts'[e]) <= Len(attempts[e])
          <6>1. attempts'[e] = IF e = k THEN Pruned(k) ELSE attempts[e]
            BY <2>types, <3>2
          <6> QED BY <2>len, <3>3, <6>1
        <5>2. Checking(e)' \subseteq Checking(e)
          BY <4>1
        <5> QED BY <2>1, <5>1, <5>2
      <4> QED BY <3>4, <4>2
    <3>6. CASE Allowed(k)
      <4>1. Become(r, q)
        BY <2>4, <3>1, <3>6 DEF ReceiveLogin
      <4>2. ASSUME NEW e \in Emails, e # k PROVE Bound(e)'
        <5>1. q.stage = "authenticate" => Normal[q.email] # e
          BY <3>1, <4>2
        <5> HIDE DEF q
        <5>2. Checking(e)' = Checking(e) \ {r}
          BY <4>1, <5>1, CheckingAfter
        <5>3. attempts'[e] = attempts[e]
          BY <2>types, <3>2, <4>2
        <5>4. Checking(e)' \subseteq Checking(e)
          BY <5>2
        <5>5. Len(attempts'[e]) \in Nat /\ Len(attempts'[e]) <= Len(attempts[e])
          BY <2>len, <5>3
        <5> QED BY <2>1, <5>4, <5>5
      <4>3. Bound(k)'
        <5>1. Len(attempts'[k]) = Len(Pruned(k)) /\ Len(Pruned(k)) < MaximumAttempts
          BY <2>types, <3>2, <3>6 DEF Allowed
        <5>2. Cardinality(Checking(k)') <= Cardinality(Requests) /\ Cardinality(Checking(k)') \in Nat
          <6>1. Checking(k)' \subseteq Requests
            BY DEF Checking
          <6> QED BY <6>1, RequestsAssumption, FS_Subset, FS_CardinalityType
        <5> QED BY <1>most, <3>3, <5>1, <5>2, LimitsAssumption
      <4> QED BY <3>4, <4>2, <4>3
    <3> QED BY <3>5, <3>6
  <2>5. ASSUME NEW r \in Requests, Authenticate(r) PROVE Empty' /\ \A e \in Emails : Bound(e)'
    <3>1. request[r] \in LoginRequest(LoginStages) /\ request[r].stage = "authenticate"
      BY <2>5, RequestKinds DEF Authenticate, TypeOK, LoginStages
    <3>2. \A stage \in STRING : [request[r] EXCEPT !.stage = stage].stage = stage
      BY <3>1 DEF LoginRequest
    <3>3. CASE attempts' = attempts
      <4>1. \/ Become(r, [request[r] EXCEPT !.stage = "insert"])
            \/ Become(r, [request[r] EXCEPT !.stage = "create session"])
            \/ Become(r, Idle)
        BY <2>5 DEF Authenticate
      <4>2. /\ [request[r] EXCEPT !.stage = "insert"].stage # "authenticate"
            /\ [request[r] EXCEPT !.stage = "create session"].stage # "authenticate"
        BY <3>2
      <4> QED BY <2>2, <2>idle, <3>3, <4>1, <4>2
    <3>4. CASE Become(r, Idle) /\ Failed(KeyOf(request[r].email))
      <4>1. PICK k \in Emails : k = KeyOf(request[r].email) /\ k = Normal[request[r].email]
        BY <3>1, KeyTypes DEF KeyOf, LoginRequest
      <4>2. attempts' = [attempts EXCEPT ![k] = Append(attempts[k], clock)]
        BY <3>4, <4>1 DEF Failed
      <4>3. \A e \in Emails : Checking(e)' = Checking(e) \ {r}
        BY <2>idle, <3>4, CheckingAfter
      <4>4. Len(attempts'[k]) = Len(attempts[k]) + 1
        <5>1. attempts[k] \in Seq(0 .. MaxClock) /\ clock \in 0 .. MaxClock
          BY <2>types, QueueTypes
        <5>2. attempts'[k] = Append(attempts[k], clock)
          BY <2>types, <4>2
        <5> QED BY <5>1, <5>2, AppendProperties
      <4>5. r \in Checking(k)
        BY <3>1, <4>1 DEF Checking
      <4>6. Cardinality(Checking(k)') = Cardinality(Checking(k)) - 1
        BY <4>3, <4>5, CheckingFinite, FS_RemoveElement
      <4>7. Bound(k)'
        BY <1>most, <2>len, <2>now, <4>4, <4>6, CheckingFinite
      <4>8. ASSUME NEW e \in Emails, e # k PROVE Bound(e)'
        BY <2>1, <2>types, <2>len, <4>2, <4>3, <4>8
      <4>9. Empty'
        BY <2>types, <2>now, <4>2
      <4> QED BY <4>7, <4>8, <4>9
    <3> QED BY <2>5, <3>3, <3>4 DEF Authenticate
  <2>6. ASSUME NEW r \in Requests, RespondToLogin(r) PROVE Empty' /\ \A e \in Emails : Bound(e)'
    <3>1. /\ Become(r, Idle)
          /\ attempts' = [attempts EXCEPT ![KeyOf(request[r].email)] = << >>]
      BY <2>6 DEF RespondToLogin, Succeeded
    <3>2. \A e \in Emails : Checking(e)' = Checking(e) \ {r}
      BY <2>idle, <3>1, CheckingAfter
    <3>3. \A e \in Emails : attempts'[e] = attempts[e] \/ attempts'[e] = << >>
      BY <2>types, <3>1
    <3>4. \A e \in Emails : Len(attempts'[e]) \in Nat /\ Len(attempts'[e]) <= Len(attempts[e])
      BY <2>len, <3>3
    <3>5. Empty'
      BY <2>types, <2>now, <3>1
    <3> QED BY <2>1, <3>2, <3>4, <3>5
  <2>7. ASSUME NEW r \in Requests, InsertUser(r) PROVE Empty' /\ \A e \in Emails : Bound(e)'
    <3>1. request[r] \in LoginRequest(LoginStages)
      BY <2>7, RequestKinds DEF InsertUser, TypeOK, LoginStages
    <3>2. [request[r] EXCEPT !.stage = "create session"].stage # "authenticate"
      BY <3>1 DEF LoginRequest
    <3> QED BY <2>2, <2>7, <2>idle, <3>2 DEF InsertUser
  <2>8. ASSUME NEW r \in Requests, CreateSession(r) PROVE Empty' /\ \A e \in Emails : Bound(e)'
    <3> DEFINE q == [stage |-> "respond", browser |-> request[r].browser,
                     email |-> request[r].email, token |-> Len(sessions) + 1]
    <3>1. (Become(r, q) \/ Become(r, Idle)) /\ attempts' = attempts /\ q.stage # "authenticate"
      BY <2>8 DEF CreateSession
    <3> HIDE DEF q
    <3> QED BY <2>2, <2>idle, <3>1
  <2>9. ASSUME NEW r \in Requests, NEW b \in Browsers, Logout(r, b) \/ Call(r, b)
        PROVE  Empty' /\ \A e \in Emails : Bound(e)'
    <3> DEFINE q(stage) == [stage |-> stage, browser |-> b, token |-> cookie[b]]
    <3>1. (Become(r, q("revoke")) \/ Become(r, q("admit"))) /\ attempts' = attempts
      BY <2>9 DEF Logout, Call, ReceiveWithCookie
    <3>2. q("revoke").stage # "authenticate" /\ q("admit").stage # "authenticate"
      OBVIOUS
    <3> HIDE DEF q
    <3> QED BY <2>2, <2>3, <3>1, <3>2
  <2>10. ASSUME NEW r \in Requests, RevokeSession(r) PROVE Empty' /\ \A e \in Emails : Bound(e)'
    <3>1. request[r] \in TokenRequest(TokenStages)
      BY <2>10, RequestKinds DEF RevokeSession, TypeOK, TokenStages
    <3>2. [request[r] EXCEPT !.stage = "clear cookie"].stage # "authenticate"
      BY <3>1 DEF TokenRequest
    <3> QED BY <2>2, <2>10, <3>2 DEF RevokeSession
  <2>admit. ASSUME NEW r \in Requests, AdmitRequest(r) PROVE Empty' /\ \A e \in Emails : Bound(e)'
    <3>1. request[r] \in TokenRequest(TokenStages)
      BY <2>admit, RequestKinds DEF AdmitRequest, TypeOK, TokenStages
    <3>2. [request[r] EXCEPT !.stage = "serve"].stage # "authenticate"
      BY <3>1 DEF TokenRequest
    <3> QED BY <2>2, <2>admit, <2>idle, <3>2 DEF AdmitRequest
  <2>11. ASSUME NEW r \in Requests, ClearCookie(r) \/ FinishRequest(r) \/ StoreRaises(r)
         PROVE  Empty' /\ \A e \in Emails : Bound(e)'
    BY <2>2, <2>11, <2>idle DEF ClearCookie, FinishRequest, StoreRaises
  <2>12. CASE Restart
    <3>1. \A e : Checking(e)' = {}
      BY <2>12, <2>idle DEF Restart, Checking
    <3>2. \A k \in Spellings : attempts'[k] = << >>
      BY <2>12 DEF Restart
    <3>3. Empty'
      BY <3>2
    <3>4. ASSUME NEW e \in Emails PROVE Bound(e)'
      <4>1. Len(attempts'[e]) = 0
        BY <2>types, <3>2
      <4>2. Cardinality(Checking(e)') = 0
        BY <3>1, FS_EmptySet
      <4> QED BY <1>most, <4>1, <4>2
    <3> QED BY <3>3, <3>4
  <2>13. CASE Tick \/ UNCHANGED vars
    BY <2>3, <2>13 DEF Tick, vars
  <2> QED
    BY <2>4, <2>5, <2>6, <2>7, <2>8, <2>9, <2>10, <2>11, <2>12, <2>13, <2>admit
       DEF Next, Handle
<1> QED BY <1>1, <1>2, TypeCorrect, QueuesInvariant, PTL DEF Spec

\* Concurrent logins exceed the limit by at most the requests in flight less one, for any
\* limit, number of requests and spellings of an e-mail.
THEOREM GuessesBoundedCorrect == Spec => []GuessesBounded
<1>1. TypeOK /\ GuessesInv => GuessesBounded
  <2> SUFFICES ASSUME TypeOK, GuessesInv, NEW e \in Emails
               PROVE  Cardinality(FailuresOf(e)) <= MaximumAttempts - 1 + Cardinality(Requests)
    BY DEF GuessesBounded
  <2> DEFINE len == Len(attempts[e])
             pairs == {e} \X (1 .. len)
  <2>1. len \in Nat /\ e \in Spellings /\ Normal[e] = e
    BY QueueTypes, SpellingsAssumption
  <2>2. \A at \in FailuresOf(e) : at[1] = e /\ at[2] \in 1 .. len /\ at = <<at[1], at[2]>>
    <3> SUFFICES ASSUME NEW at \in FailuresOf(e)
                 PROVE  at[1] = e /\ at[2] \in 1 .. len /\ at = <<at[1], at[2]>>
      OBVIOUS
    <3>1. /\ at[1] \in Spellings /\ Normal[at[1]] = e /\ at[2] \in DOMAIN attempts[at[1]]
          /\ at = <<at[1], at[2]>>
      BY DEF FailuresOf
    <3>2. at[1] \in Emails
      BY <3>1 DEF GuessesInv
    <3> QED BY <3>1, <3>2, QueueTypes, SpellingsAssumption
  <2>3. FailuresOf(e) \subseteq pairs
    BY <2>2
  <2>4. IsFiniteSet(pairs) /\ Cardinality(pairs) = len
    <3>1. IsFiniteSet({e}) /\ Cardinality({e}) = 1
      BY FS_Singleton
    <3>2. IsFiniteSet(1 .. len) /\ Cardinality(1 .. len) = len
      BY <2>1, FS_Interval
    <3>3. IsFiniteSet(pairs) /\ Cardinality(pairs) = Cardinality({e}) * Cardinality(1 .. len)
      BY <3>1, <3>2, FS_Product
    <3> QED BY <2>1, <3>1, <3>2, <3>3
  <2> HIDE DEF pairs, len
  <2>5. Cardinality(FailuresOf(e)) <= len /\ Cardinality(FailuresOf(e)) \in Nat
    BY <2>3, <2>4, FS_Subset, FS_CardinalityType
  <2>6. len + Cardinality(Checking(e)) <= MaximumAttempts - 1 + Cardinality(Requests)
    BY DEF GuessesInv, len
  <2> QED BY <2>1, <2>5, <2>6, CheckingFinite, LimitsAssumption
<1> QED BY <1>1, TypeCorrect, GuessesInvariant, PTL
=============================================================================
