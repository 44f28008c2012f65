----------------------- MODULE CheckpointSessionsProofs -----------------------
(***************************************************************************)
(* Theorems about CheckpointSessions, for any users, labels, sessions and  *)
(* requests, any rollover limit and any interleaving and fault.            *)
(***************************************************************************)
EXTENDS CheckpointSessions, FiniteSetTheorems, TLAPS

Rolling == {"seeding", "swapping"}
Settled == {"ready", "running", "saved"}
OnThread == {"refreshing", "rolling"} \cup Rolling \cup Settled

\* What the stage of a request says about what it holds.
Held(q, used) ==
    /\ q.stage # "idle" => q.turn \in Turns
    /\ q.stage \in OnThread => q.thread \in Threads
    /\ q.stage \in Rolling => q.next \in used
    /\ q.stage \notin Rolling => q.next = NoThread
    /\ q.stage = "idle" => q = Idle

TypeInv == TypeOK /\ \A r \in Requests : Held(request[r], usedUuids)

LEMMA Held1 ==
    ASSUME TypeInv, NEW r \in Requests
    PROVE  request[r] \in RequestState /\ Held(request[r], usedUuids)
BY DEF TypeInv, TypeOK

LEMMA IdleType == Idle \in RequestState /\ \A used : Held(Idle, used)
BY DEF Idle, RequestState, Stages, Held, OnThread, Rolling, Settled

LEMMA ThreadTypes ==
    /\ \A s \in Sessions : ThreadId(s) \in Threads
    /\ Uuids \subseteq Threads /\ NoThread \notin Threads /\ NoThread \notin Uuids
BY SessionsAssumption, ThreadIdAssumption DEF ThreadId, Digests, Threads

LEMMA SessionType ==
    ASSUME TypeInv, NEW r \in Requests, request[r].stage # "idle"
    PROVE  SessionOf(r) \in Sessions /\ request[r].turn \in Turns
BY Held1 DEF Held, Turns, SessionOf

LEMMA BecomeTypes ==
    ASSUME TypeInv, NEW r \in Requests, NEW q \in RequestState, Become(r, q),
           NEW used, usedUuids \subseteq used, Held(q, used)
    PROVE  /\ request' \in [Requests -> RequestState]
           /\ \A p \in Requests : Held(request'[p], used)
<1>1. request' \in [Requests -> RequestState]
  BY DEF TypeInv, TypeOK, Become
<1>2. ASSUME NEW p \in Requests PROVE Held(request'[p], used)
  <2>1. CASE p = r
    BY <2>1 DEF TypeInv, TypeOK, Become
  <2>2. CASE p # r
    <3>1. request'[p] = request[p] /\ Held(request[p], usedUuids)
      BY <2>2 DEF TypeInv, TypeOK, Become
    <3> QED BY <3>1 DEF Held
  <2> QED BY <2>1, <2>2
<1> QED BY <1>1, <1>2

\* The ways in which a row changes.
LEMMA MapToTypes ==
    ASSUME TypeOK, NEW s \in Sessions, NEW t \in Threads, MapTo(s, t)
    PROVE  /\ mapped' \in [Sessions -> Threads \cup {NoThread}]
           /\ turnCount' \in [Sessions -> Nat] /\ expired' \in [Sessions -> BOOLEAN]
BY DEF TypeOK, MapTo

LEMMA DropTypes ==
    ASSUME TypeOK, NEW S \in Takings, Drop(S)
    PROVE  /\ mapped' \in [Sessions -> Threads \cup {NoThread}]
           /\ turnCount' \in [Sessions -> Nat] /\ expired' \in [Sessions -> BOOLEAN]
           /\ S \subseteq Sessions /\ {mapped[s] : s \in S} \subseteq Threads
<1>1. S \subseteq ExpiredSessions
  BY DEF Takings
<1>2. S \subseteq Sessions /\ {mapped[s] : s \in S} \subseteq Threads
  BY <1>1 DEF ExpiredSessions, TypeOK
<1> QED BY <1>2 DEF TypeOK, Drop

LEMMA CheckpointTypes ==
    ASSUME TypeOK, NEW t \in Threads, NEW state \in SUBSET Turns,
           DeleteThread(t) \/ SaveThread(t, state)
    PROVE  saved' \subseteq Threads /\ memory' \in [Threads -> SUBSET Turns]
BY DEF TypeOK, DeleteThread, SaveThread

\* What the steps of a request have in common: it is under way, and it changes to q.
LEMMA RequestStep ==
    ASSUME TypeInv, NEW r \in Requests, NEW q \in RequestState, Become(r, q),
           NEW used, usedUuids' = used, usedUuids \subseteq used, used \subseteq Uuids, Held(q, used),
           mapped' \in [Sessions -> Threads \cup {NoThread}],
           turnCount' \in [Sessions -> Nat], expired' \in [Sessions -> BOOLEAN],
           saved' \subseteq Threads, memory' \in [Threads -> SUBSET Turns],
           doomed' \in [Requests -> SUBSET Threads], cleaning' \subseteq Threads,
           turns' \in 0 .. MaxTurns, expiries' \in 0 .. MaxExpiries, faults' \in 0 .. MaxFaults
    PROVE  TypeInv'
<1>1. request' \in [Requests -> RequestState] /\ \A p \in Requests : Held(request'[p], used)
  BY BecomeTypes
<1> QED BY <1>1 DEF TypeInv, TypeOK

LEMMA TypeStep == TypeInv /\ [Next]_vars => TypeInv'
<1> SUFFICES ASSUME TypeInv, [Next]_vars PROVE TypeInv'
  OBVIOUS
<1> USE DEF rows, checkpoints, counters
<1>ok. TypeOK
  BY DEF TypeInv
<1>1. ASSUME NEW r \in Requests, NEW s \in Sessions, Begin(r, s) PROVE TypeInv'
  <2>1. PICK stage \in {"editing", "starting"} :
           Become(r, [Idle EXCEPT !.stage = stage, !.turn = <<s, turns + 1>>])
    BY <1>1 DEF Begin
  <2> DEFINE q == [Idle EXCEPT !.stage = stage, !.turn = <<s, turns + 1>>]
  <2>2. turns + 1 \in 1 .. MaxTurns /\ turns' = turns + 1 /\ <<s, turns + 1>> \in Turns
    BY <1>1, <1>ok, BoundsAssumption DEF Begin, TypeOK, Turns
  <2>3. q \in RequestState /\ Held(q, usedUuids)
    BY <2>2 DEF Idle, RequestState, Stages, Held, OnThread, Rolling, Settled
  <2> HIDE DEF q
  <2> QED BY <1>1, <1>ok, <2>1, <2>2, <2>3, RequestStep DEF Begin, TypeOK, q
<1>2. ASSUME NEW r \in Requests, ReadReplaced(r) PROVE TypeInv'
  <2> DEFINE q == [request[r] EXCEPT !.stage = "resetting", !.thread = mapped[SessionOf(r)]]
  <2>1. request[r] \in RequestState /\ Held(request[r], usedUuids) /\ request[r].stage = "editing"
    BY <1>2, Held1 DEF ReadReplaced, At
  <2>2. mapped[SessionOf(r)] \in Threads \cup {NoThread}
    BY <1>ok, <2>1, SessionType DEF TypeOK
  <2>3. q \in RequestState /\ Held(q, usedUuids)
    BY <2>1, <2>2 DEF RequestState, Stages, Held, OnThread, Rolling, Settled
  <2>4. Become(r, q)
    BY <1>2 DEF ReadReplaced
  <2> HIDE DEF q
  <2> QED BY <1>2, <1>ok, <2>3, <2>4, RequestStep DEF ReadReplaced, TypeOK
<1>3. ASSUME NEW r \in Requests, ResetMapping(r) PROVE TypeInv'
  <2> DEFINE q == [request[r] EXCEPT !.stage = "starting", !.thread = NoThread]
  <2>1. request[r] \in RequestState /\ Held(request[r], usedUuids) /\ request[r].stage = "resetting"
    BY <1>3, Held1 DEF ResetMapping, At
  <2>2. PICK t \in Uuids \ usedUuids : usedUuids' = usedUuids \cup {t} /\ MapTo(SessionOf(r), t)
    BY <1>3 DEF ResetMapping
  <2>3. q \in RequestState /\ Held(q, usedUuids')
    BY <2>1, <2>2 DEF RequestState, Stages, Held, OnThread, Rolling, Settled
  <2>4. Become(r, q) /\ doomed' \in [Requests -> SUBSET Threads]
    BY <1>3, <1>ok, <2>1 DEF ResetMapping, Replaced, TypeOK, RequestState
  <2> HIDE DEF q
  <2>5. SessionOf(r) \in Sessions
    BY <2>1, SessionType
  <2>6. /\ mapped' \in [Sessions -> Threads \cup {NoThread}]
        /\ turnCount' \in [Sessions -> Nat] /\ expired' \in [Sessions -> BOOLEAN]
    BY <1>ok, <2>2, <2>5, MapToTypes, ThreadTypes
  <2>7. usedUuids \subseteq usedUuids' /\ usedUuids' \subseteq Uuids
    BY <1>ok, <2>2 DEF TypeOK
  <2> QED BY <1>3, <1>ok, <2>3, <2>4, <2>6, <2>7, RequestStep DEF ResetMapping, TypeOK
<1>4. ASSUME NEW r \in Requests, DeleteDoomed(r) PROVE TypeInv'
  <2>1. PICK t \in doomed[r] : DeleteThread(t) /\ doomed' = [doomed EXCEPT ![r] = @ \ {t}]
    BY <1>4 DEF DeleteDoomed
  <2>2. t \in Threads /\ doomed' \in [Requests -> SUBSET Threads]
    BY <1>ok, <2>1 DEF TypeOK
  <2>3. saved' \subseteq Threads /\ memory' \in [Threads -> SUBSET Turns]
    BY <1>ok, <2>1, <2>2, CheckpointTypes
  <2> QED BY <1>4, <2>2, <2>3 DEF DeleteDoomed, TypeInv, TypeOK
<1>5. ASSUME NEW r \in Requests, TakeExpiredFirst(r) PROVE TypeInv'
  <2> DEFINE q == [request[r] EXCEPT !.stage = "selecting"]
  <2>1. request[r] \in RequestState /\ Held(request[r], usedUuids) /\ request[r].stage = "starting"
    BY <1>5, Held1 DEF TakeExpiredFirst, At
  <2>2. q \in RequestState /\ Held(q, usedUuids) /\ Become(r, q)
    BY <1>5, <2>1
       DEF TakeExpiredFirst, Goto, RequestState, Stages, Held, OnThread, Rolling, Settled
  <2> HIDE DEF q
  <2>3. PICK S \in Takings : Drop(S) /\ doomed' = [doomed EXCEPT ![r] = {mapped[s] : s \in S}]
    BY <1>5 DEF TakeExpiredFirst
  <2>4. /\ mapped' \in [Sessions -> Threads \cup {NoThread}]
        /\ turnCount' \in [Sessions -> Nat] /\ expired' \in [Sessions -> BOOLEAN]
        /\ {mapped[s] : s \in S} \subseteq Threads
    BY <1>ok, <2>3, DropTypes
  <2>5. doomed' \in [Requests -> SUBSET Threads]
    BY <1>ok, <2>3, <2>4 DEF TypeOK
  <2> QED BY <1>5, <1>ok, <2>2, <2>4, <2>5, RequestStep DEF TakeExpiredFirst, TypeOK
<1>6. ASSUME NEW r \in Requests, SelectMapping(r) PROVE TypeInv'
  <2> DEFINE s == SessionOf(r)
             live == mapped[s] # NoThread /\ ~expired[s]
             q == [request[r] EXCEPT !.stage = IF live THEN "refreshing" ELSE "creating",
                                     !.thread = mapped[s], !.count = turnCount[s]]
  <2>1. request[r] \in RequestState /\ Held(request[r], usedUuids) /\ request[r].stage = "selecting"
    BY <1>6, Held1 DEF SelectMapping, At
  <2>2. mapped[s] \in Threads \cup {NoThread} /\ turnCount[s] \in Nat
    BY <1>ok, <2>1, SessionType DEF TypeOK
  <2>3. q \in RequestState /\ Held(q, usedUuids)
    BY <2>1, <2>2 DEF RequestState, Stages, Held, OnThread, Rolling, Settled
  <2>4. Become(r, q)
    BY <1>6 DEF SelectMapping
  <2> HIDE DEF q
  <2> QED BY <1>6, <1>ok, <2>3, <2>4, RequestStep DEF SelectMapping, TypeOK
<1>use. ASSUME NEW r \in Requests, request[r].stage \in {"refreshing", "creating"},
               NEW t \in Threads, NEW n \in Nat, UseThread(r, t, n),
               mapped' \in [Sessions -> Threads \cup {NoThread}],
               turnCount' \in [Sessions -> Nat], expired' \in [Sessions -> BOOLEAN],
               UNCHANGED <<checkpoints, doomed, cleaning, counters>>
        PROVE  TypeInv'
  <2> DEFINE q == [request[r] EXCEPT !.stage = IF MustRoll(r, n) THEN "rolling" ELSE "ready",
                                     !.thread = t, !.count = n]
  <2>1. request[r] \in RequestState /\ Held(request[r], usedUuids)
    BY Held1
  <2>2. q \in RequestState /\ Held(q, usedUuids)
    BY <1>use, <2>1 DEF RequestState, Stages, Held, OnThread, Rolling, Settled
  <2>3. Become(r, q)
    BY <1>use DEF UseThread
  <2> HIDE DEF q
  <2> QED BY <1>use, <1>ok, <2>2, <2>3, RequestStep DEF TypeOK
<1>7. ASSUME NEW r \in Requests, RefreshMapping(r) PROVE TypeInv'
  <2>1. request[r] \in RequestState /\ Held(request[r], usedUuids) /\ request[r].stage = "refreshing"
    BY <1>7, Held1 DEF RefreshMapping, At
  <2>2. request[r].thread \in Threads /\ request[r].count \in Nat
    BY <2>1 DEF RequestState, Held, OnThread
  <2> QED BY <1>7, <1>ok, <1>use, <2>1, <2>2 DEF RefreshMapping, TypeOK
<1>8. ASSUME NEW r \in Requests, CreateMapping(r) PROVE TypeInv'
  <2>1. request[r].stage = "creating" /\ SessionOf(r) \in Sessions
    BY <1>8, SessionType DEF CreateMapping, At
  <2>2. CASE mapped[SessionOf(r)] # NoThread /\ ~expired[SessionOf(r)]
    <3>1. mapped[SessionOf(r)] \in Threads /\ turnCount[SessionOf(r)] \in Nat
      BY <1>ok, <2>1, <2>2 DEF TypeOK
    <3> QED BY <1>8, <1>ok, <1>use, <2>1, <2>2, <3>1 DEF CreateMapping, TypeOK
  <2>3. CASE ~(mapped[SessionOf(r)] # NoThread /\ ~expired[SessionOf(r)])
    <3>1. ThreadId(SessionOf(r)) \in Threads
      BY <2>1, ThreadTypes
    <3>2. MapTo(SessionOf(r), ThreadId(SessionOf(r))) /\ UseThread(r, ThreadId(SessionOf(r)), 0)
      BY <1>8, <2>3 DEF CreateMapping
    <3> QED BY <1>8, <1>ok, <1>use, <2>1, <3>1, <3>2, MapToTypes DEF CreateMapping
  <2> QED BY <2>2, <2>3
<1>9. ASSUME NEW r \in Requests, ReadOldThread(r) PROVE TypeInv'
  <2>1. request[r] \in RequestState /\ Held(request[r], usedUuids) /\ request[r].stage = "rolling"
    BY <1>9, Held1 DEF ReadOldThread, At
  <2>2. PICK t \in Uuids \ usedUuids :
          /\ usedUuids' = usedUuids \cup {t}
          /\ Become(r, [request[r] EXCEPT !.stage = "seeding", !.next = t,
                                          !.base = memory[request[r].thread]])
    BY <1>9 DEF ReadOldThread
  <2> DEFINE q == [request[r] EXCEPT !.stage = "seeding", !.next = t,
                                     !.base = memory[request[r].thread]]
  <2>3. request[r].thread \in Threads /\ memory[request[r].thread] \in SUBSET Turns /\ t \in Threads
    BY <1>ok, <2>1, ThreadTypes DEF Held, OnThread, TypeOK
  <2>4. q \in RequestState /\ Held(q, usedUuids')
    BY <2>1, <2>2, <2>3 DEF RequestState, Stages, Held, OnThread, Rolling, Settled
  <2>5. Become(r, q) /\ usedUuids \subseteq usedUuids' /\ usedUuids' \subseteq Uuids
    BY <1>ok, <2>2 DEF TypeOK
  <2> HIDE DEF q
  <2> QED BY <1>9, <1>ok, <2>4, <2>5, RequestStep DEF ReadOldThread, TypeOK
<1>10. ASSUME NEW r \in Requests, SeedNextThread(r) PROVE TypeInv'
  <2> DEFINE q == [request[r] EXCEPT !.stage = "swapping"]
  <2>1. request[r] \in RequestState /\ Held(request[r], usedUuids) /\ request[r].stage = "seeding"
    BY <1>10, Held1 DEF SeedNextThread, At
  <2>2. q \in RequestState /\ Held(q, usedUuids) /\ Become(r, q)
    BY <1>10, <2>1 DEF SeedNextThread, Goto, RequestState, Stages, Held, OnThread, Rolling, Settled
  <2> HIDE DEF q
  <2>3. request[r].next \in Threads /\ request[r].base \in SUBSET Turns
    BY <1>ok, <2>1, ThreadTypes DEF Held, Rolling, RequestState, TypeOK
  <2>4. saved' \subseteq Threads /\ memory' \in [Threads -> SUBSET Turns]
    BY <1>10, <1>ok, <2>3, CheckpointTypes DEF SeedNextThread, SeedFrom, TypeOK
  <2> QED BY <1>10, <1>ok, <2>2, <2>4, RequestStep DEF SeedNextThread, TypeOK
<1>11. ASSUME NEW r \in Requests, SwapMapping(r) PROVE TypeInv'
  <2>1. request[r] \in RequestState /\ Held(request[r], usedUuids) /\ request[r].stage = "swapping"
    BY <1>11, Held1 DEF SwapMapping, At
  <2>2. request[r].next \in Threads /\ request[r].thread \in Threads /\ SessionOf(r) \in Sessions
    BY <1>ok, <2>1, ThreadTypes, SessionType DEF Held, Rolling, OnThread, TypeOK
  <2>3. CASE StillOn(r)
    <3> DEFINE q == [request[r] EXCEPT !.stage = "ready", !.thread = request[r].next,
                                       !.next = NoThread]
    <3>1. q \in RequestState /\ Held(q, usedUuids)
      BY <2>1, <2>2 DEF RequestState, Stages, Held, OnThread, Rolling, Settled
    <3>2. Become(r, q) /\ MapTo(SessionOf(r), request[r].next)
      BY <1>11, <2>3 DEF SwapMapping
    <3> HIDE DEF q
    <3>3. doomed' \in [Requests -> SUBSET Threads]
      BY <1>11, <1>ok, <2>2, <2>3 DEF SwapMapping, TypeOK
    <3>4. /\ mapped' \in [Sessions -> Threads \cup {NoThread}]
          /\ turnCount' \in [Sessions -> Nat] /\ expired' \in [Sessions -> BOOLEAN]
      BY <1>ok, <2>2, <3>2, MapToTypes
    <3> QED BY <1>11, <1>ok, <3>1, <3>2, <3>3, <3>4, RequestStep DEF SwapMapping, TypeOK
  <2>4. CASE ~StillOn(r)
    <3> DEFINE q == [request[r] EXCEPT !.stage = "selecting", !.next = NoThread, !.rolled = TRUE]
    <3>1. q \in RequestState /\ Held(q, usedUuids)
      BY <2>1, <2>2 DEF RequestState, Stages, Held, OnThread, Rolling, Settled
    <3>2. Become(r, q) /\ UNCHANGED rows
      BY <1>11, <2>4 DEF SwapMapping
    <3> HIDE DEF q
    <3>3. doomed' \in [Requests -> SUBSET Threads]
      BY <1>11, <1>ok, <2>2, <2>4 DEF SwapMapping, TypeOK
    <3> QED BY <1>11, <1>ok, <3>1, <3>2, <3>3, RequestStep DEF SwapMapping, TypeOK
  <2> QED BY <2>3, <2>4
<1>12. ASSUME NEW r \in Requests, RolloverRaises(r) PROVE TypeInv'
  <2>1. request[r] \in RequestState /\ Held(request[r], usedUuids) /\ request[r].stage \in Rolling
    BY <1>12, Held1 DEF RolloverRaises, Rolling
  <2>2. request[r].next \in Threads /\ SessionOf(r) \in Sessions
    BY <1>ok, <2>1, ThreadTypes, SessionType DEF Held, Rolling, TypeOK
  <2>3. /\ mapped' \in [Sessions -> Threads \cup {NoThread}]
        /\ turnCount' \in [Sessions -> Nat] /\ expired' \in [Sessions -> BOOLEAN]
    BY <1>12, <1>ok, <2>2, MapToTypes DEF RolloverRaises, TypeOK
  <2>4. saved' \subseteq Threads /\ memory' \in [Threads -> SUBSET Turns]
    BY <1>12, <1>ok, <2>2, CheckpointTypes DEF RolloverRaises
  <2>5. faults' \in 0 .. MaxFaults /\ Become(r, Idle)
    BY <1>12, <1>ok, BoundsAssumption DEF RolloverRaises, TypeOK
  <2> QED BY <1>12, <1>ok, <2>3, <2>4, <2>5, IdleType, RequestStep DEF RolloverRaises, TypeOK
<1>13. ASSUME NEW r \in Requests, LoadThread(r) PROVE TypeInv'
  <2> DEFINE q == [request[r] EXCEPT !.stage = "running", !.base = memory[request[r].thread]]
  <2>1. request[r] \in RequestState /\ Held(request[r], usedUuids) /\ request[r].stage = "ready"
    BY <1>13, Held1 DEF LoadThread, At
  <2>2. memory[request[r].thread] \in SUBSET Turns
    BY <1>ok, <2>1 DEF Held, OnThread, Settled, TypeOK
  <2>3. q \in RequestState /\ Held(q, usedUuids)
    BY <2>1, <2>2 DEF RequestState, Stages, Held, OnThread, Rolling, Settled
  <2>4. Become(r, q)
    BY <1>13 DEF LoadThread
  <2> HIDE DEF q
  <2> QED BY <1>13, <1>ok, <2>3, <2>4, RequestStep DEF LoadThread, TypeOK
<1>14. ASSUME NEW r \in Requests, SaveCheckpoint(r) PROVE TypeInv'
  <2> DEFINE q == [request[r] EXCEPT !.stage = "saved"]
  <2>1. /\ request[r] \in RequestState /\ Held(request[r], usedUuids)
        /\ request[r].stage \in {"running", "saved"}
    BY <1>14, Held1 DEF SaveCheckpoint
  <2>2. q \in RequestState /\ Held(q, usedUuids)
    BY <2>1 DEF RequestState, Stages, Held, OnThread, Rolling, Settled
  <2>3. Become(r, q)
    BY <1>14 DEF SaveCheckpoint, Goto
  <2> HIDE DEF q
  <2>4. request[r].thread \in Threads /\ request[r].base \cup {request[r].turn} \in SUBSET Turns
    BY <2>1 DEF Held, OnThread, Settled, RequestState
  <2>5. saved' \subseteq Threads /\ memory' \in [Threads -> SUBSET Turns]
    BY <1>14, <1>ok, <2>4, CheckpointTypes DEF SaveCheckpoint
  <2> QED BY <1>14, <1>ok, <2>2, <2>3, <2>5, RequestStep DEF SaveCheckpoint, TypeOK
<1>15. ASSUME NEW r \in Requests, CompleteTurn(r) PROVE TypeInv'
  <2> DEFINE s == SessionOf(r)
  <2>1. turnCount' \in [Sessions -> Nat] /\ expired' \in [Sessions -> BOOLEAN]
    <3>1. s \in Sessions /\ turnCount \in [Sessions -> Nat] /\ expired \in [Sessions -> BOOLEAN]
      BY <1>15, <1>ok, SessionType DEF CompleteTurn, At, TypeOK
    <3>2. \/ turnCount' = [turnCount EXCEPT ![s] = @ + 1] /\ expired' = [expired EXCEPT ![s] = FALSE]
          \/ UNCHANGED <<turnCount, expired>>
      BY <1>15 DEF CompleteTurn
    <3> HIDE DEF s
    <3>3. CASE turnCount' = [turnCount EXCEPT ![s] = @ + 1] /\ expired' = [expired EXCEPT ![s] = FALSE]
      <4>1. turnCount[s] + 1 \in Nat
        BY <3>1
      <4> QED BY <3>1, <3>3, <4>1
    <3>4. CASE UNCHANGED <<turnCount, expired>>
      BY <3>1, <3>4
    <3> QED BY <3>2, <3>3, <3>4
  <2> QED BY <1>15, <1>ok, <2>1, IdleType, RequestStep DEF CompleteTurn, TypeOK
<1>16. ASSUME NEW r \in Requests, Abandon(r) PROVE TypeInv'
  <2>1. doomed' \in [Requests -> SUBSET Threads] /\ faults' \in 0 .. MaxFaults
    BY <1>16, <1>ok, BoundsAssumption DEF Abandon, TypeOK
  <2> QED BY <1>16, <1>ok, <2>1, IdleType, RequestStep DEF Abandon, TypeOK
<1>17. CASE CleanUp
  <2>1. PICK S \in Takings : Drop(S) /\ cleaning' = {mapped[s] : s \in S}
    BY <1>17 DEF CleanUp
  <2> QED BY <1>17, <1>ok, <2>1, DropTypes DEF CleanUp, TypeInv, TypeOK
<1>18. CASE DeleteCleaned
  <2>1. PICK t \in cleaning : DeleteThread(t) /\ cleaning' = cleaning \ {t}
    BY <1>18 DEF DeleteCleaned
  <2>2. saved' \subseteq Threads /\ memory' \in [Threads -> SUBSET Turns] /\ cleaning' \subseteq Threads
    BY <1>ok, <2>1, CheckpointTypes DEF TypeOK
  <2> QED BY <1>18, <2>2 DEF DeleteCleaned, TypeInv, TypeOK
<1>19. CASE WorkerStops
  BY <1>19, BoundsAssumption DEF WorkerStops, TypeInv, TypeOK
<1>20. ASSUME NEW s \in Sessions, Expire(s) PROVE TypeInv'
  BY <1>20, BoundsAssumption DEF Expire, TypeInv, TypeOK
<1>21. CASE UNCHANGED vars
  BY <1>21 DEF vars, TypeInv, TypeOK
<1> QED
  BY <1>1, <1>2, <1>3, <1>4, <1>5, <1>6, <1>7, <1>8, <1>9, <1>10, <1>11, <1>12, <1>13, <1>14,
     <1>15, <1>16, <1>17, <1>18, <1>19, <1>20, <1>21 DEF Next, Step

LEMMA TypeInvariant == Spec => []TypeInv
<1>1. Init => TypeInv
  BY IdleType, BoundsAssumption DEF Init, TypeInv, TypeOK
<1> QED BY <1>1, TypeStep, PTL DEF Spec

\* Type correctness: what every stage of a request holds, and that only threads are deleted.
THEOREM TypeCorrect == Spec => []TypeOK
<1>1. TypeInv => TypeOK
  BY DEF TypeInv
<1> QED BY <1>1, TypeInvariant, PTL

-----------------------------------------------------------------------------
(* No thread is shared. *)

\* The threads that a session's row or one of its requests names, or may come to name.
Knows(s, t) ==
    \/ t = ThreadId(s)
    \/ mapped[s] = t
    \/ \E r \in Requests :
          /\ request[r].stage # "idle" /\ SessionOf(r) = s
          /\ t \in {request[r].thread, request[r].next}

IsolationInv ==
    /\ \A s, q \in Sessions, t \in Threads : Knows(s, t) /\ Knows(q, t) => s = q
    /\ \A s \in Sessions, t \in Threads : Knows(s, t) => \A x \in memory[t] : x[1] = s
    /\ \A s \in Sessions, t \in Uuids : Knows(s, t) => t \in usedUuids
    /\ \A t \in Uuids \ usedUuids : memory[t] = {}
    /\ \A r \in Requests :
          request[r].stage # "idle" => \A x \in request[r].base : x[1] = SessionOf(r)

\* Only a new thread becomes known to a session that did not know it, and only what is a
\* session's own is saved in a thread it knows.
LEMMA IsolationKept ==
    ASSUME TypeInv, IsolationInv, NEW s, NEW U \in SUBSET (Uuids \ usedUuids),
           usedUuids' = usedUuids \cup U,
           \A p \in Sessions, t \in Threads : Knows(p, t)' => Knows(p, t) \/ (p = s /\ t \in U),
           \A t \in Threads : \A x \in memory'[t] :
              x \in memory[t] \/ \E p \in Sessions : Knows(p, t) /\ x[1] = p,
           \A r \in Requests :
              request'[r].stage # "idle" => \A x \in request'[r].base : x[1] = request'[r].turn[1]
    PROVE  IsolationInv'
<1>1. \A p, q \in Sessions, t \in Threads : Knows(p, t)' /\ Knows(q, t)' => p = q
  BY ThreadTypes DEF IsolationInv
<1>2. ASSUME NEW p \in Sessions, NEW t \in Threads, Knows(p, t)', NEW x \in memory'[t]
      PROVE  x[1] = p
  <2>1. CASE Knows(p, t)
    BY <1>2, <2>1 DEF IsolationInv
  <2>2. CASE p = s /\ t \in U
    <3>1. memory[t] = {} /\ \A q \in Sessions : ~Knows(q, t)
      BY <2>2 DEF IsolationInv
    <3> QED BY <1>2, <3>1
  <2> QED BY <1>2, <2>1, <2>2
<1>3. \A p \in Sessions, t \in Uuids : Knows(p, t)' => t \in usedUuids'
  BY ThreadTypes DEF IsolationInv
<1>4. ASSUME NEW t \in Uuids \ usedUuids' PROVE memory'[t] = {}
  <2>1. t \in Threads /\ memory[t] = {} /\ \A p \in Sessions : ~Knows(p, t)
    BY <1>4, ThreadTypes DEF IsolationInv
  <2> QED BY <2>1
<1> QED BY <1>1, <1>2, <1>3, <1>4 DEF IsolationInv, SessionOf

\* A request of session s comes to hold no thread but the session's, or a new one of U.
HoldsOwn(q, s, U) ==
    q.stage # "idle" =>
       /\ q.turn[1] = s /\ \A x \in q.base : x[1] = s
       /\ \A t \in Threads : t \in {q.thread, q.next} => Knows(s, t) \/ t \in U

MapsOwn(s, U) ==
    \A p \in Sessions :
       \/ mapped'[p] \in {mapped[p], NoThread}
       \/ p = s /\ (Knows(s, mapped'[p]) \/ mapped'[p] \in U)

SavesOwn(s) ==
    \A t \in Threads : \A x \in memory'[t] : x \in memory[t] \/ (Knows(s, t) /\ x[1] = s)

LEMMA RequestIsolation ==
    ASSUME TypeInv, IsolationInv, NEW r \in Requests, NEW q, Become(r, q), NEW s \in Sessions,
           NEW U \in SUBSET (Uuids \ usedUuids), usedUuids' = usedUuids \cup U,
           HoldsOwn(q, s, U), MapsOwn(s, U), SavesOwn(s)
    PROVE  IsolationInv'
<1> USE DEF HoldsOwn, MapsOwn, SavesOwn
<1>1. \A p \in Requests : request'[p] = IF p = r THEN q ELSE request[p]
  BY DEF Become, TypeInv, TypeOK
<1>2. ASSUME NEW p \in Sessions, NEW t \in Threads, Knows(p, t)'
      PROVE  Knows(p, t) \/ (p = s /\ t \in U)
  <2>1. CASE t = ThreadId(p)
    BY <2>1 DEF Knows
  <2>2. CASE mapped'[p] = t
    BY <2>2, ThreadTypes DEF Knows
  <2>3. CASE \E c \in Requests :
               /\ request'[c].stage # "idle" /\ request'[c].turn[1] = p
               /\ t \in {request'[c].thread, request'[c].next}
    <3>1. PICK c \in Requests :
               /\ request'[c].stage # "idle" /\ request'[c].turn[1] = p
               /\ t \in {request'[c].thread, request'[c].next}
      BY <2>3
    <3>2. CASE c = r
      BY <1>1, <3>1, <3>2
    <3>3. CASE c # r
      BY <1>1, <3>1, <3>3 DEF Knows, SessionOf
    <3> QED BY <3>2, <3>3
  <2> QED BY <1>2, <2>1, <2>2, <2>3 DEF Knows, SessionOf, ThreadId
<1>3. \A c \in Requests :
         request'[c].stage # "idle" => \A x \in request'[c].base : x[1] = request'[c].turn[1]
  BY <1>1 DEF IsolationInv, SessionOf
<1> QED BY <1>2, <1>3, IsolationKept

LEMMA IsolationStep == TypeInv /\ IsolationInv /\ [Next]_vars => IsolationInv'
<1> SUFFICES ASSUME TypeInv, IsolationInv, [Next]_vars PROVE IsolationInv'
  OBVIOUS
<1> USE DEF rows, checkpoints, counters
<1>fresh. {} \in SUBSET (Uuids \ usedUuids) /\ usedUuids \cup {} = usedUuids
  OBVIOUS
<1>memory. memory \in [Threads -> SUBSET Turns] /\ mapped \in [Sessions -> Threads \cup {NoThread}]
  BY DEF TypeInv, TypeOK
\* What a request under way holds is its session's.
<1>own. ASSUME NEW r \in Requests, request[r].stage # "idle", NEW s, s = SessionOf(r)
        PROVE  /\ s \in Sessions /\ request[r] \in RequestState /\ request[r].turn[1] = s
               /\ \A t \in Threads : t \in {request[r].thread, request[r].next, mapped[s]} => Knows(s, t)
               /\ \A x \in request[r].base : x[1] = s
  BY <1>own, Held1, SessionType DEF Knows, SessionOf, IsolationInv
<1>mine. ASSUME NEW s \in Sessions, NEW t \in Threads, Knows(s, t) PROVE \A x \in memory[t] : x[1] = s
  BY <1>mine DEF IsolationInv
<1>none. NoThread \notin Threads
  BY ThreadTypes
\* Steps that only move on a request, or end it.
<1>quiet. ASSUME NEW r \in Requests, NEW q, Become(r, q),
                 q.stage # "idle" =>
                    /\ request[r].stage # "idle" /\ q.turn = request[r].turn
                    /\ q.base = request[r].base
                    /\ q.thread \in {request[r].thread, mapped[SessionOf(r)], NoThread}
                    /\ q.next \in {request[r].next, NoThread},
                 request[r].stage # "idle", usedUuids' = usedUuids,
                 \A p \in Sessions : mapped'[p] \in {mapped[p], NoThread},
                 \A t \in Threads : memory'[t] \subseteq memory[t]
          PROVE  IsolationInv'
  <2>1. PICK s \in Sessions : s = SessionOf(r)
    BY <1>quiet, SessionType
  <2>2. HoldsOwn(q, s, {})
    BY <1>quiet, <1>none, <1>own, <2>1 DEF HoldsOwn
  <2>3. MapsOwn(s, {}) /\ SavesOwn(s)
    BY <1>quiet DEF MapsOwn, SavesOwn
  <2> QED BY <1>quiet, <1>fresh, <2>2, <2>3, RequestIsolation
\* Steps of nobody's request.
<1>other. ASSUME UNCHANGED <<request, usedUuids>>,
                 \A p \in Sessions : mapped'[p] \in {mapped[p], NoThread},
                 \A t \in Threads : memory'[t] \subseteq memory[t]
          PROVE  IsolationInv'
  <2>1. \A p \in Sessions, t \in Threads : Knows(p, t)' => Knows(p, t)
    BY <1>other, <1>none DEF Knows, SessionOf, ThreadId
  <2>2. \A r \in Requests :
           request'[r].stage # "idle" => \A x \in request'[r].base : x[1] = request'[r].turn[1]
    BY <1>other DEF IsolationInv, SessionOf
  <2> QED BY <1>other, <1>fresh, <2>1, <2>2, IsolationKept
<1>1. ASSUME NEW r \in Requests, NEW s \in Sessions, Begin(r, s) PROVE IsolationInv'
  <2>1. PICK stage \in {"editing", "starting"} :
           Become(r, [Idle EXCEPT !.stage = stage, !.turn = <<s, turns + 1>>])
    BY <1>1 DEF Begin
  <2>2. PICK q : q = [Idle EXCEPT !.stage = stage, !.turn = <<s, turns + 1>>]
    OBVIOUS
  <2>3. q.turn[1] = s /\ q.base = {} /\ q.thread = NoThread /\ q.next = NoThread
    BY <2>2 DEF Idle
  <2>4. Become(r, q)
    BY <2>1, <2>2
  <2>5. usedUuids' = usedUuids /\ mapped' = mapped /\ memory' = memory
    BY <1>1 DEF Begin
  <2>6. HoldsOwn(q, s, {}) /\ MapsOwn(s, {}) /\ SavesOwn(s)
    BY <1>none, <2>3, <2>5 DEF HoldsOwn, MapsOwn, SavesOwn
  <2> QED BY <1>fresh, <2>4, <2>5, <2>6, RequestIsolation
<1>2. ASSUME NEW r \in Requests, ReadReplaced(r) PROVE IsolationInv'
  <2>1. PICK q : q = [request[r] EXCEPT !.stage = "resetting", !.thread = mapped[SessionOf(r)]]
    OBVIOUS
  <2>2. request[r].stage # "idle" /\ Become(r, q) /\ UNCHANGED <<usedUuids, mapped, memory>>
    BY <1>2, <2>1 DEF ReadReplaced, At
  <2>3. /\ q.turn = request[r].turn /\ q.base = request[r].base
        /\ q.thread = mapped[SessionOf(r)] /\ q.next = request[r].next
    BY <2>1, Held1 DEF RequestState
  <2> QED BY <1>quiet, <2>2, <2>3
<1>3. ASSUME NEW r \in Requests, ResetMapping(r) PROVE IsolationInv'
  <2>1. PICK t \in Uuids \ usedUuids : usedUuids' = usedUuids \cup {t} /\ MapTo(SessionOf(r), t)
    BY <1>3 DEF ResetMapping
  <2>2. PICK q : q = [request[r] EXCEPT !.stage = "starting", !.thread = NoThread]
    OBVIOUS
  <2>3. request[r].stage # "idle" /\ Become(r, q) /\ memory' = memory
    BY <1>3, <2>2 DEF ResetMapping, At
  <2>4. PICK s \in Sessions : s = SessionOf(r)
    BY <2>3, SessionType
  <2>5. q.turn = request[r].turn /\ q.base = request[r].base /\ q.thread = NoThread /\ q.next = request[r].next
    BY <2>2, Held1 DEF RequestState
  <2>6. \A p \in Sessions : mapped'[p] = IF p = s THEN t ELSE mapped[p]
    BY <1>memory, <2>1, <2>4 DEF MapTo
  <2>7. {t} \in SUBSET (Uuids \ usedUuids)
    OBVIOUS
  <2>8. HoldsOwn(q, s, {t})
    BY <1>own, <1>none, <2>3, <2>4, <2>5 DEF HoldsOwn
  <2>9. MapsOwn(s, {t}) /\ SavesOwn(s)
    BY <2>3, <2>6 DEF MapsOwn, SavesOwn
  <2> QED BY <2>1, <2>3, <2>7, <2>8, <2>9, RequestIsolation
<1>4. ASSUME NEW r \in Requests, DeleteDoomed(r) PROVE IsolationInv'
  <2>1. PICK t \in doomed[r] : DeleteThread(t)
    BY <1>4 DEF DeleteDoomed
  <2> QED BY <1>4, <1>other, <1>memory, <2>1 DEF DeleteDoomed, DeleteThread
<1>5. ASSUME NEW r \in Requests, TakeExpiredFirst(r) PROVE IsolationInv'
  <2>1. PICK q : q = [request[r] EXCEPT !.stage = "selecting"]
    OBVIOUS
  <2>2. PICK S \in Takings : Drop(S)
    BY <1>5 DEF TakeExpiredFirst
  <2>3. request[r].stage # "idle" /\ Become(r, q) /\ UNCHANGED <<usedUuids, memory>>
    BY <1>5, <2>1 DEF TakeExpiredFirst, At, Goto
  <2>4. /\ q.turn = request[r].turn /\ q.base = request[r].base
        /\ q.thread = request[r].thread /\ q.next = request[r].next
    BY <2>1, Held1 DEF RequestState
  <2>5. \A p \in Sessions : mapped'[p] \in {mapped[p], NoThread}
    BY <2>2 DEF Drop
  <2> QED BY <1>quiet, <2>3, <2>4, <2>5
<1>6. ASSUME NEW r \in Requests, SelectMapping(r) PROVE IsolationInv'
  <2> DEFINE live == mapped[SessionOf(r)] # NoThread /\ ~expired[SessionOf(r)]
  <2>1. PICK q : q = [request[r] EXCEPT !.stage = IF live THEN "refreshing" ELSE "creating",
                                        !.thread = mapped[SessionOf(r)], !.count = turnCount[SessionOf(r)]]
    OBVIOUS
  <2>2. request[r].stage # "idle" /\ Become(r, q) /\ UNCHANGED <<usedUuids, mapped, memory>>
    BY <1>6, <2>1 DEF SelectMapping, At
  <2>3. /\ q.turn = request[r].turn /\ q.base = request[r].base
        /\ q.thread = mapped[SessionOf(r)] /\ q.next = request[r].next
    BY <2>1, Held1 DEF RequestState
  <2> QED BY <1>quiet, <2>2, <2>3
<1>7. ASSUME NEW r \in Requests, RefreshMapping(r) PROVE IsolationInv'
  <2>1. PICK q : q = [request[r] EXCEPT
                        !.stage = IF MustRoll(r, request[r].count) THEN "rolling" ELSE "ready",
                        !.thread = request[r].thread, !.count = request[r].count]
    OBVIOUS
  <2>2. request[r].stage # "idle" /\ Become(r, q) /\ UNCHANGED <<usedUuids, mapped, memory>>
    BY <1>7, <2>1 DEF RefreshMapping, UseThread, At
  <2>3. /\ q.turn = request[r].turn /\ q.base = request[r].base
        /\ q.thread = request[r].thread /\ q.next = request[r].next
    BY <2>1, Held1 DEF RequestState
  <2> QED BY <1>quiet, <2>2, <2>3
<1>8. ASSUME NEW r \in Requests, CreateMapping(r) PROVE IsolationInv'
  <2>0. request[r].stage # "idle" /\ UNCHANGED <<usedUuids, memory>>
    BY <1>8 DEF CreateMapping, At
  <2>1. PICK s \in Sessions : s = SessionOf(r)
    BY <2>0, SessionType
  <2>2. \E t \in Threads, n \in Nat :
           /\ UseThread(r, t, n)
           /\ \/ t = mapped[s] /\ mapped' = mapped
              \/ t = ThreadId(s) /\ MapTo(s, t)
    <3>1. CASE mapped[s] # NoThread /\ ~expired[s]
      <4>1. mapped[s] \in Threads /\ turnCount[s] \in Nat
        BY <2>1, <3>1 DEF TypeInv, TypeOK
      <4>2. UseThread(r, mapped[s], turnCount[s]) /\ mapped' = mapped
        BY <1>8, <2>1, <3>1 DEF CreateMapping
      <4> QED BY <4>1, <4>2
    <3>2. CASE ~(mapped[s] # NoThread /\ ~expired[s])
      <4>1. UseThread(r, ThreadId(s), 0) /\ MapTo(s, ThreadId(s))
        BY <1>8, <2>1, <3>2 DEF CreateMapping
      <4> QED BY <4>1, ThreadTypes
    <3> QED BY <3>1, <3>2
  <2>pick. PICK t \in Threads, n \in Nat :
           /\ UseThread(r, t, n)
           /\ \/ t = mapped[s] /\ mapped' = mapped
              \/ t = ThreadId(s) /\ MapTo(s, t)
    BY <2>2
  <2>3. PICK q : q = [request[r] EXCEPT !.stage = IF MustRoll(r, n) THEN "rolling" ELSE "ready",
                                        !.thread = t, !.count = n]
    OBVIOUS
  <2>4. Become(r, q) /\ Knows(s, t)
    BY <2>pick, <2>3 DEF UseThread, Knows
  <2>5. /\ q.turn = request[r].turn /\ q.base = request[r].base
        /\ q.thread = t /\ q.next = request[r].next
    BY <2>3, Held1 DEF RequestState
  <2>6. \A p \in Sessions : mapped'[p] = mapped[p] \/ (p = s /\ mapped'[p] = t)
    BY <1>memory, <2>pick DEF MapTo
  <2>7. HoldsOwn(q, s, {})
    BY <1>own, <2>0, <2>1, <2>4, <2>5 DEF HoldsOwn
  <2>8. MapsOwn(s, {}) /\ SavesOwn(s)
    BY <2>0, <2>4, <2>6 DEF MapsOwn, SavesOwn
  <2> QED BY <1>fresh, <2>0, <2>4, <2>7, <2>8, RequestIsolation
<1>9. ASSUME NEW r \in Requests, ReadOldThread(r) PROVE IsolationInv'
  <2>1. PICK t \in Uuids \ usedUuids :
          /\ usedUuids' = usedUuids \cup {t}
          /\ Become(r, [request[r] EXCEPT !.stage = "seeding", !.next = t,
                                          !.base = memory[request[r].thread]])
    BY <1>9 DEF ReadOldThread
  <2>2. PICK q : q = [request[r] EXCEPT !.stage = "seeding", !.next = t,
                                        !.base = memory[request[r].thread]]
    OBVIOUS
  <2>3. request[r].stage = "rolling" /\ Become(r, q) /\ UNCHANGED <<mapped, memory>>
    BY <1>9, <2>1, <2>2 DEF ReadOldThread, At
  <2>4. PICK s \in Sessions : s = SessionOf(r)
    BY <2>3, SessionType
  <2>5. /\ q.turn = request[r].turn /\ q.base = memory[request[r].thread]
        /\ q.thread = request[r].thread /\ q.next = t
    BY <2>2, Held1 DEF RequestState
  <2>6. request[r].thread \in Threads
    BY <2>3, Held1 DEF Held, OnThread
  <2>7. \A x \in memory[request[r].thread] : x[1] = s
    BY <1>own, <1>mine, <2>3, <2>4, <2>6
  <2>8. {t} \in SUBSET (Uuids \ usedUuids)
    OBVIOUS
  <2>9. HoldsOwn(q, s, {t})
    BY <1>own, <2>3, <2>4, <2>5, <2>7 DEF HoldsOwn
  <2>10. MapsOwn(s, {t}) /\ SavesOwn(s)
    BY <2>3 DEF MapsOwn, SavesOwn
  <2> QED BY <2>1, <2>3, <2>8, <2>9, <2>10, RequestIsolation
<1>10. ASSUME NEW r \in Requests, SeedNextThread(r) PROVE IsolationInv'
  <2>1. PICK q : q = [request[r] EXCEPT !.stage = "swapping"]
    OBVIOUS
  <2>2. request[r].stage = "seeding" /\ Become(r, q) /\ UNCHANGED <<usedUuids, mapped>>
    BY <1>10, <2>1 DEF SeedNextThread, At, Goto
  <2>3. PICK s \in Sessions : s = SessionOf(r)
    BY <2>2, SessionType
  <2>4. /\ q.turn = request[r].turn /\ q.base = request[r].base
        /\ q.thread = request[r].thread /\ q.next = request[r].next
    BY <2>1, Held1 DEF RequestState
  <2>5. request[r].next \in Threads /\ Knows(s, request[r].next)
    BY <1>own, <2>2, <2>3, Held1, ThreadTypes DEF Held, Rolling, TypeInv, TypeOK
  <2>6. \A t \in Threads : \A x \in memory'[t] : x \in memory[t] \/ (t = request[r].next /\ x \in request[r].base)
    BY <1>10, <1>memory DEF SeedNextThread, SaveThread, SeedFrom
  <2>7. HoldsOwn(q, s, {})
    BY <1>own, <2>2, <2>3, <2>4 DEF HoldsOwn
  <2>8. \A x \in request[r].base \cup {request[r].turn} : x[1] = s
    BY <1>own, <2>2, <2>3
  <2>9. MapsOwn(s, {}) /\ SavesOwn(s)
    BY <2>2, <2>5, <2>6, <2>8 DEF MapsOwn, SavesOwn
  <2> QED BY <1>fresh, <2>2, <2>7, <2>9, RequestIsolation
<1>11. ASSUME NEW r \in Requests, SwapMapping(r) PROVE IsolationInv'
  <2>0. request[r].stage = "swapping" /\ UNCHANGED <<usedUuids, memory>>
    BY <1>11 DEF SwapMapping, At
  <2>1. PICK s \in Sessions : s = SessionOf(r)
    BY <2>0, SessionType
  <2>2. CASE StillOn(r)
    <3>1. PICK q : q = [request[r] EXCEPT !.stage = "ready", !.thread = request[r].next, !.next = NoThread]
      OBVIOUS
    <3>2. Become(r, q) /\ MapTo(s, request[r].next)
      BY <1>11, <2>1, <2>2, <3>1 DEF SwapMapping
    <3>3. /\ q.turn = request[r].turn /\ q.base = request[r].base
          /\ q.thread = request[r].next /\ q.next = NoThread
      BY <3>1, Held1 DEF RequestState
    <3>4. \A p \in Sessions : mapped'[p] = IF p = s THEN request[r].next ELSE mapped[p]
      BY <1>memory, <3>2 DEF MapTo
    <3>5. request[r].next \in Threads
      BY <2>0, Held1, ThreadTypes DEF Held, Rolling, TypeInv, TypeOK
    <3>6. Knows(s, request[r].next)
      BY <1>own, <2>0, <2>1, <3>5
    <3>7. HoldsOwn(q, s, {})
      BY <1>own, <1>none, <2>0, <2>1, <3>3, <3>6 DEF HoldsOwn
    <3>8. MapsOwn(s, {}) /\ SavesOwn(s)
      BY <2>0, <3>4, <3>6 DEF MapsOwn, SavesOwn
    <3> QED BY <1>fresh, <2>0, <3>2, <3>7, <3>8, RequestIsolation
  <2>3. CASE ~StillOn(r)
    <3>1. PICK q : q = [request[r] EXCEPT !.stage = "selecting", !.next = NoThread, !.rolled = TRUE]
      OBVIOUS
    <3>2. Become(r, q) /\ mapped' = mapped
      BY <1>11, <2>3, <3>1 DEF SwapMapping
    <3>3. /\ q.turn = request[r].turn /\ q.base = request[r].base
          /\ q.thread = request[r].thread /\ q.next = NoThread
      BY <3>1, Held1 DEF RequestState
    <3> QED BY <1>quiet, <2>0, <3>2, <3>3
  <2> QED BY <2>2, <2>3
<1>12. ASSUME NEW r \in Requests, RolloverRaises(r) PROVE IsolationInv'
  <2>1. request[r].stage \in Rolling /\ Become(r, Idle) /\ usedUuids' = usedUuids /\ Idle.stage = "idle"
    BY <1>12 DEF RolloverRaises, Rolling, Idle
  <2>2. PICK s \in Sessions : s = SessionOf(r)
    BY <2>1, SessionType DEF Rolling
  <2>3. request[r].next \in Threads /\ Knows(s, request[r].next)
    BY <1>own, <2>1, <2>2, Held1, ThreadTypes DEF Held, Rolling, TypeInv, TypeOK
  <2>4. \A p \in Sessions : mapped'[p] = mapped[p] \/ (p = s /\ mapped'[p] = request[r].next)
    BY <1>12, <1>memory, <2>2 DEF RolloverRaises, MapTo
  <2>5. \A t \in Threads : memory'[t] \subseteq memory[t]
    BY <1>12, <1>memory DEF RolloverRaises, DeleteThread
  <2>6. PICK q : q = Idle
    OBVIOUS
  <2>7. HoldsOwn(q, s, {}) /\ MapsOwn(s, {}) /\ SavesOwn(s)
    BY <2>1, <2>3, <2>4, <2>5, <2>6 DEF HoldsOwn, MapsOwn, SavesOwn
  <2> QED BY <1>fresh, <2>1, <2>6, <2>7, RequestIsolation
<1>13. ASSUME NEW r \in Requests, LoadThread(r) PROVE IsolationInv'
  <2>1. PICK q : q = [request[r] EXCEPT !.stage = "running", !.base = memory[request[r].thread]]
    OBVIOUS
  <2>2. request[r].stage = "ready" /\ Become(r, q) /\ UNCHANGED <<usedUuids, mapped, memory>>
    BY <1>13, <2>1 DEF LoadThread, At
  <2>3. PICK s \in Sessions : s = SessionOf(r)
    BY <2>2, SessionType
  <2>4. /\ q.turn = request[r].turn /\ q.base = memory[request[r].thread]
        /\ q.thread = request[r].thread /\ q.next = request[r].next
    BY <2>1, Held1 DEF RequestState
  <2>5. request[r].thread \in Threads
    BY <2>2, Held1 DEF Held, OnThread, Settled
  <2>6. \A x \in memory[request[r].thread] : x[1] = s
    BY <1>own, <1>mine, <2>2, <2>3, <2>5
  <2>7. HoldsOwn(q, s, {})
    BY <1>own, <2>2, <2>3, <2>4, <2>6 DEF HoldsOwn
  <2>8. MapsOwn(s, {}) /\ SavesOwn(s)
    BY <2>2 DEF MapsOwn, SavesOwn
  <2> QED BY <1>fresh, <2>2, <2>7, <2>8, RequestIsolation
<1>14. ASSUME NEW r \in Requests, SaveCheckpoint(r) PROVE IsolationInv'
  <2>1. PICK q : q = [request[r] EXCEPT !.stage = "saved"]
    OBVIOUS
  <2>2. request[r].stage \in {"running", "saved"} /\ Become(r, q) /\ UNCHANGED <<usedUuids, mapped>>
    BY <1>14, <2>1 DEF SaveCheckpoint, Goto
  <2>3. PICK s \in Sessions : s = SessionOf(r)
    BY <2>2, SessionType
  <2>4. /\ q.turn = request[r].turn /\ q.base = request[r].base
        /\ q.thread = request[r].thread /\ q.next = request[r].next
    BY <2>1, Held1 DEF RequestState
  <2>5. request[r].thread \in Threads /\ Knows(s, request[r].thread)
    BY <1>own, <2>2, <2>3, Held1 DEF Held, OnThread, Settled
  <2>6. \A t \in Threads : \A x \in memory'[t] :
           x \in memory[t] \/ (t = request[r].thread /\ x \in request[r].base \cup {request[r].turn})
    BY <1>14, <1>memory DEF SaveCheckpoint, SaveThread
  <2>7. HoldsOwn(q, s, {})
    BY <1>own, <2>2, <2>3, <2>4 DEF HoldsOwn
  <2>8. \A x \in request[r].base \cup {request[r].turn} : x[1] = s
    BY <1>own, <2>2, <2>3
  <2>9. MapsOwn(s, {}) /\ SavesOwn(s)
    BY <2>2, <2>5, <2>6, <2>8 DEF MapsOwn, SavesOwn
  <2> QED BY <1>fresh, <2>2, <2>7, <2>9, RequestIsolation
<1>15. ASSUME NEW r \in Requests, CompleteTurn(r) \/ Abandon(r) PROVE IsolationInv'
  <2>1. request[r].stage # "idle" /\ Become(r, Idle) /\ Idle.stage = "idle"
    BY <1>15 DEF CompleteTurn, Abandon, At, Idle
  <2>2. UNCHANGED <<usedUuids, mapped, memory>>
    BY <1>15 DEF CompleteTurn, Abandon
  <2> QED BY <1>quiet, <2>1, <2>2
<1>16. CASE CleanUp
  BY <1>16, <1>other DEF CleanUp, Drop
<1>17. CASE DeleteCleaned
  <2>1. PICK t \in cleaning : DeleteThread(t)
    BY <1>17 DEF DeleteCleaned
  <2> QED BY <1>17, <1>other, <1>memory, <2>1 DEF DeleteCleaned, DeleteThread
<1>18. CASE WorkerStops \/ UNCHANGED vars
  BY <1>18, <1>other DEF WorkerStops, vars
<1>19. ASSUME NEW s \in Sessions, Expire(s) PROVE IsolationInv'
  BY <1>19, <1>other DEF Expire
<1> QED
  BY <1>1, <1>2, <1>3, <1>4, <1>5, <1>6, <1>7, <1>8, <1>9, <1>10, <1>11, <1>12, <1>13, <1>14,
     <1>15, <1>16, <1>17, <1>18, <1>19 DEF Next, Step

LEMMA IsolationInvariant == Spec => []IsolationInv
<1>1. Init => IsolationInv
  <2> SUFFICES ASSUME Init PROVE IsolationInv
    OBVIOUS
  <2>1. /\ \A s \in Sessions : mapped[s] = NoThread
        /\ \A t \in Threads : memory[t] = {}
        /\ \A r \in Requests : request[r].stage = "idle"
    BY DEF Init, Idle
  <2>2. \A s \in Sessions, t \in Threads : Knows(s, t) => t = ThreadId(s)
    BY <2>1, ThreadTypes DEF Knows
  <2>3. \A s, q \in Sessions : ThreadId(s) = ThreadId(q) => s = q
    BY SessionsAssumption, ThreadIdAssumption DEF ThreadId
  <2>4. \A s \in Sessions : ThreadId(s) \notin Uuids
    BY SessionsAssumption, ThreadIdAssumption DEF ThreadId, Digests
  <2> QED BY <2>1, <2>2, <2>3, <2>4, ThreadTypes DEF IsolationInv
<1> QED BY <1>1, IsolationStep, TypeInvariant, PTL DEF Spec

\* Two users who choose the same label never share short-term memory, for any users, labels,
\* requests, interleaving, crash and expiry, if the digest keeps pairs apart and uuids are new.
THEOREM IsolationCorrect == Spec => []Isolation
<1>1. TypeInv /\ IsolationInv => Isolation
  <2> SUFFICES ASSUME TypeInv, IsolationInv, NEW s \in Sessions, mapped[s] # NoThread
               PROVE  /\ \A t \in memory[mapped[s]] : t[1] = s
                      /\ \A other \in Sessions : mapped[other] = mapped[s] => other = s
    BY DEF Isolation
  <2>1. mapped[s] \in Threads
    BY DEF TypeInv, TypeOK
  <2> QED BY <2>1 DEF IsolationInv, Knows
<1> QED BY <1>1, TypeInvariant, IsolationInvariant, PTL

-----------------------------------------------------------------------------
(* What is to be deleted. *)

Going == cleaning \cup UNION {doomed[r] : r \in Requests}

DeletionInv ==
    /\ \A t \in Uuids \cap Going :
          /\ t \in usedUuids
          /\ \A s \in Sessions : mapped[s] # t
          /\ \A r \in Requests : request[r].next # t
    /\ \A r \in Requests :
          request[r].next # NoThread =>
             /\ \A s \in Sessions : mapped[s] # request[r].next
             /\ \A q \in Requests : request[q].thread # request[r].next
             /\ \A q \in Requests \ {r} : request[q].next # request[r].next

LEMMA NextTypes ==
    ASSUME TypeInv, NEW r \in Requests
    PROVE  /\ request[r].next \in Uuids \cup {NoThread}
           /\ request[r].next # NoThread => request[r].stage \in Rolling /\ request[r].next \in usedUuids
           /\ request[r].thread \in Threads \cup {NoThread}
           /\ request[r].stage = "idle" => request[r].thread = NoThread
BY Held1, ThreadTypes DEF Held, TypeInv, TypeOK, RequestState, Idle

\* Nobody holds, maps or has to delete a new uuid.
LEMMA NewThread ==
    ASSUME TypeInv, IsolationInv, DeletionInv, NEW t \in Uuids \ usedUuids
    PROVE  /\ t \notin Going /\ t # NoThread
           /\ \A s \in Sessions : mapped[s] # t
           /\ \A r \in Requests : request[r].thread # t /\ request[r].next # t
<1>1. t \notin Going /\ t # NoThread
  BY ThreadTypes DEF DeletionInv
<1>2. \A s \in Sessions : ~Knows(s, t)
  BY DEF IsolationInv
<1>3. \A s \in Sessions : mapped[s] # t
  BY <1>2 DEF Knows
<1>4. ASSUME NEW r \in Requests PROVE request[r].thread # t /\ request[r].next # t
  <2>1. CASE request[r].stage = "idle"
    BY <1>1, <2>1, NextTypes DEF Rolling
  <2>2. CASE request[r].stage # "idle"
    <3>1. SessionOf(r) \in Sessions
      BY <2>2, SessionType
    <3> QED BY <1>2, <2>2, <3>1 DEF Knows
  <2> QED BY <2>1, <2>2
<1> QED BY <1>1, <1>3, <1>4

\* Request r becomes q; D are newly to be deleted, M mapped, T used by q, N prepared by q.
Adds(r, q, D, M, T, N) ==
    /\ \A t \in Uuids \cap Going' : t \in Going \cup D
    /\ \A s \in Sessions : mapped'[s] \in {mapped[s], NoThread} \cup M
    /\ q.next \in {request[r].next, NoThread} \cup N
    /\ q.thread \in {request[r].thread, NoThread} \cup T
    /\ \A t \in (D \cup M \cup T) \cap Uuids :
          q.next # t /\ \A c \in Requests \ {r} : request[c].next # t
    /\ \A t \in D \cap Uuids : t \in usedUuids' /\ \A s \in Sessions : mapped'[s] # t
    /\ \A t \in M \cap Uuids : t \notin Going
    /\ \A t \in N :
          /\ t \in Uuids \ Going /\ t \notin D /\ q.thread # t
          /\ \A s \in Sessions : mapped'[s] # t
          /\ \A c \in Requests : request[c].thread # t /\ request[c].next # t

LEMMA RequestDeletion ==
    ASSUME TypeInv, DeletionInv, NEW r \in Requests, NEW q, Become(r, q),
           usedUuids \subseteq usedUuids', NEW D, NEW M, NEW T, NEW N, Adds(r, q, D, M, T, N)
    PROVE  DeletionInv'
<1>1. \A c \in Requests : request'[c] = IF c = r THEN q ELSE request[c]
  BY DEF Become, TypeInv, TypeOK
<1>2. \A c \in Requests : request[c].next \in Uuids \cup {NoThread}
  BY NextTypes
<1>none. NoThread \notin Uuids
  BY ThreadTypes
<1>3. ASSUME NEW t \in Uuids \cap Going'
      PROVE  /\ t \in usedUuids' /\ \A s \in Sessions : mapped'[s] # t
             /\ \A c \in Requests : request'[c].next # t
  <2>1. CASE t \in D
    BY <1>1, <2>1 DEF Adds
  <2>2. CASE t \in Going /\ t \notin D
    <3>1. t \in usedUuids /\ \A s \in Sessions : mapped[s] # t
      BY <2>2 DEF DeletionInv
    <3>2. \A c \in Requests : request[c].next # t
      BY <2>2 DEF DeletionInv
    <3>3. \A s \in Sessions : mapped'[s] # t
      BY <1>none, <2>2, <3>1 DEF Adds
    <3>4. \A c \in Requests : request'[c].next # t
      BY <1>1, <1>none, <2>2, <3>2 DEF Adds
    <3> QED BY <3>1, <3>3, <3>4
  <2> QED BY <1>3, <2>1, <2>2 DEF Adds
<1>4. ASSUME NEW c \in Requests, request'[c].next # NoThread
      PROVE  /\ \A s \in Sessions : mapped'[s] # request'[c].next
             /\ \A p \in Requests : request'[p].thread # request'[c].next
             /\ \A p \in Requests \ {c} : request'[p].next # request'[c].next
  <2>1. CASE request'[c].next = request[c].next
    <3>1. /\ \A s \in Sessions : mapped[s] # request[c].next
          /\ \A p \in Requests : request[p].thread # request[c].next
          /\ \A p \in Requests \ {c} : request[p].next # request[c].next
      BY <1>4, <2>1 DEF DeletionInv
    <3>2. request[c].next \in Uuids
      BY <1>2, <1>4, <2>1
    <3>3. \A s \in Sessions : mapped'[s] # request'[c].next
      BY <1>1, <1>4, <2>1, <3>1, <3>2 DEF Adds
    <3>4. \A p \in Requests : request'[p].thread # request'[c].next
      BY <1>1, <1>4, <2>1, <3>1, <3>2 DEF Adds
    <3>5. \A p \in Requests \ {c} : request'[p].next # request'[c].next
      BY <1>1, <1>4, <2>1, <3>1 DEF Adds
    <3> QED BY <3>3, <3>4, <3>5
  <2>2. CASE c = r /\ request'[c].next \in N
    BY <1>1, <2>2 DEF Adds
  <2> QED BY <1>1, <1>4, <2>1, <2>2 DEF Adds
<1> QED BY <1>3, <1>4 DEF DeletionInv

LEMMA DeletionStep == TypeInv /\ IsolationInv /\ DeletionInv /\ [Next]_vars => DeletionInv'
<1> SUFFICES ASSUME TypeInv, IsolationInv, DeletionInv, [Next]_vars PROVE DeletionInv'
  OBVIOUS
<1> USE DEF rows, checkpoints, counters
<1>rows. /\ mapped \in [Sessions -> Threads \cup {NoThread}]
         /\ doomed \in [Requests -> SUBSET Threads]
  BY DEF TypeInv, TypeOK
<1>none. NoThread \notin Threads /\ Uuids \subseteq Threads /\ NoThread \notin Uuids
  BY ThreadTypes
\* Only the session itself maps what it maps, or what a request of it holds, and a uuid
\* it knows is used.
<1>own. ASSUME NEW s \in Sessions, NEW t \in Threads,
               mapped[s] = t \/ \E r \in Requests :
                  request[r].stage # "idle" /\ SessionOf(r) = s /\ t \in {request[r].thread, request[r].next}
        PROVE  /\ \A p \in Sessions : mapped[p] = t => p = s
               /\ t \in Uuids => t \in usedUuids
  BY <1>own DEF IsolationInv, Knows
\* What is mapped or held is not being prepared.
<1>apart. /\ \A s \in Sessions : \A c \in Requests : mapped[s] \in Uuids => request[c].next # mapped[s]
          /\ \A r, c \in Requests : request[r].thread \in Uuids => request[c].next # request[r].thread
  BY <1>none DEF DeletionInv
<1>prepared. ASSUME NEW r \in Requests, request[r].next \in Uuids
             PROVE  /\ request[r].next \notin Going /\ request[r].next \in usedUuids
                    /\ \A s \in Sessions : mapped[s] # request[r].next
                    /\ \A c \in Requests : request[c].thread # request[r].next
                    /\ \A c \in Requests \ {r} : request[c].next # request[r].next
  BY <1>prepared, <1>none, NextTypes DEF DeletionInv
\* Steps in which a request takes at most the thread its session maps.
<1>quiet. ASSUME NEW r \in Requests, NEW q, Become(r, q), UNCHANGED <<mapped, usedUuids>>,
                 q.next \in {request[r].next, NoThread},
                 \/ q.thread \in {request[r].thread, NoThread}
                 \/ request[r].stage # "idle" /\ q.thread = mapped[SessionOf(r)],
                 \A t \in Going' : t \in Going
          PROVE  DeletionInv'
  <2>1. CASE q.thread \in {request[r].thread, NoThread}
    <3>1. Adds(r, q, {}, {}, {}, {})
      BY <1>quiet, <2>1 DEF Adds
    <3> QED BY <1>quiet, <3>1, RequestDeletion
  <2>2. CASE request[r].stage # "idle" /\ q.thread = mapped[SessionOf(r)]
    <3>1. SessionOf(r) \in Sessions
      BY <2>2, SessionType
    <3>2. q.thread \in Uuids => q.next # q.thread /\ \A c \in Requests : request[c].next # q.thread
      BY <1>quiet, <1>none, <1>apart, <2>2, <3>1
    <3>3. Adds(r, q, {}, {}, {q.thread}, {})
      BY <1>quiet, <3>2 DEF Adds
    <3> QED BY <1>quiet, <3>3, RequestDeletion
  <2> QED BY <1>quiet, <2>1, <2>2
\* Steps that leave the requests alone.
<1>other. ASSUME UNCHANGED <<request, usedUuids>>, NEW D,
                 \A t \in Going' : t \in Going \cup D,
                 \A s \in Sessions : mapped'[s] \in {mapped[s], NoThread},
                 \A t \in D \cap Uuids :
                    /\ t \in usedUuids /\ \A s \in Sessions : mapped'[s] # t
                    /\ \A c \in Requests : request[c].next # t
          PROVE  DeletionInv'
  BY <1>other, <1>none DEF DeletionInv
<1>still. ASSUME UNCHANGED <<request, usedUuids, mapped>>, \A t \in Going' : t \in Going
          PROVE  DeletionInv'
  BY <1>still DEF DeletionInv
\* Taking the threads of expired rows.
<1>taken. ASSUME NEW S \in Takings, Drop(S)
          PROVE  /\ \A s \in Sessions : mapped'[s] \in {mapped[s], NoThread}
                 /\ \A t \in {mapped[s] : s \in S} \cap Uuids :
                       /\ t \in usedUuids /\ \A s \in Sessions : mapped'[s] # t
                       /\ \A c \in Requests : request[c].next # t
  <2>1. S \subseteq Sessions
    BY <1>taken DEF Takings, ExpiredSessions
  <2>2. \A s \in Sessions : mapped'[s] = IF s \in S THEN NoThread ELSE mapped[s]
    BY <1>taken DEF Drop
  <2>3. ASSUME NEW s \in S, mapped[s] \in Uuids
        PROVE  /\ mapped[s] \in usedUuids /\ \A p \in Sessions : mapped'[p] # mapped[s]
               /\ \A c \in Requests : request[c].next # mapped[s]
    <3>1. s \in Sessions /\ mapped[s] \in Threads
      BY <1>none, <2>1, <2>3
    <3>2. mapped[s] \in usedUuids /\ \A p \in Sessions : mapped[p] = mapped[s] => p = s
      BY <1>own, <2>3, <3>1
    <3> QED BY <1>none, <1>apart, <2>2, <2>3, <3>1, <3>2
  <2> QED BY <2>2, <2>3
<1>1. ASSUME NEW r \in Requests, NEW s \in Sessions, Begin(r, s) PROVE DeletionInv'
  <2>1. PICK stage \in {"editing", "starting"} :
           Become(r, [Idle EXCEPT !.stage = stage, !.turn = <<s, turns + 1>>])
    BY <1>1 DEF Begin
  <2>2. PICK q : q = [Idle EXCEPT !.stage = stage, !.turn = <<s, turns + 1>>]
    OBVIOUS
  <2>3. q.thread = NoThread /\ q.next = NoThread
    BY <2>2 DEF Idle
  <2> QED BY <1>1, <1>quiet, <2>1, <2>2, <2>3 DEF Begin, Going
<1>2. ASSUME NEW r \in Requests, ReadReplaced(r) PROVE DeletionInv'
  <2>1. PICK q : q = [request[r] EXCEPT !.stage = "resetting", !.thread = mapped[SessionOf(r)]]
    OBVIOUS
  <2>2. q.thread = mapped[SessionOf(r)] /\ q.next = request[r].next /\ request[r].stage # "idle"
    BY <1>2, <2>1, Held1 DEF RequestState, ReadReplaced, At
  <2>3. Become(r, q) /\ UNCHANGED <<mapped, usedUuids, doomed, cleaning>>
    BY <1>2, <2>1 DEF ReadReplaced
  <2> QED BY <1>quiet, <2>2, <2>3 DEF Going
<1>3. ASSUME NEW r \in Requests, ResetMapping(r) PROVE DeletionInv'
  <2>1. PICK t \in Uuids \ usedUuids : usedUuids' = usedUuids \cup {t} /\ MapTo(SessionOf(r), t)
    BY <1>3 DEF ResetMapping
  <2>2. PICK q : q = [request[r] EXCEPT !.stage = "starting", !.thread = NoThread]
    OBVIOUS
  <2>3. request[r].stage = "resetting" /\ Become(r, q)
    BY <1>3, <2>2 DEF ResetMapping, At
  <2>4. PICK s \in Sessions : s = SessionOf(r)
    BY <2>3, SessionType
  <2>5. q.thread = NoThread /\ q.next = NoThread
    BY <2>2, <2>3, Held1 DEF RequestState, Held, Rolling
  <2>6. \A p \in Sessions : mapped'[p] = IF p = s THEN t ELSE mapped[p]
    BY <1>rows, <2>1, <2>4 DEF MapTo
  <2>7. /\ t \notin Going /\ t # NoThread
        /\ \A c \in Requests : request[c].thread # t /\ request[c].next # t
    BY NewThread
  <2>8. \A d \in Going' : d \in Going \cup {request[r].thread}
    BY <1>3, <1>rows DEF ResetMapping, Replaced, Going
  <2>9. request[r].thread \in Uuids =>
           /\ request[r].thread \in usedUuids /\ \A p \in Sessions : mapped[p] = request[r].thread => p = s
    BY <1>none, <1>own, <2>3, <2>4
  <2>10. Adds(r, q, {request[r].thread}, {t}, {}, {})
    BY <1>none, <1>apart, <2>1, <2>5, <2>6, <2>7, <2>8, <2>9 DEF Adds
  <2> QED BY <2>1, <2>3, <2>10, RequestDeletion
<1>4. ASSUME NEW r \in Requests, DeleteDoomed(r) PROVE DeletionInv'
  <2>1. PICK t \in doomed[r] : doomed' = [doomed EXCEPT ![r] = @ \ {t}]
    BY <1>4 DEF DeleteDoomed
  <2>2. \A d \in Going' : d \in Going
    BY <1>4, <1>rows, <2>1 DEF DeleteDoomed, Going
  <2>3. UNCHANGED <<request, usedUuids, mapped>>
    BY <1>4 DEF DeleteDoomed
  <2> QED BY <1>still, <2>2, <2>3
<1>5. ASSUME NEW r \in Requests, TakeExpiredFirst(r) PROVE DeletionInv'
  <2>1. PICK S \in Takings : Drop(S) /\ doomed' = [doomed EXCEPT ![r] = {mapped[s] : s \in S}]
    BY <1>5 DEF TakeExpiredFirst
  <2>2. PICK D : D = {mapped[s] : s \in S}
    OBVIOUS
  <2>3. PICK q : q = [request[r] EXCEPT !.stage = "selecting"]
    OBVIOUS
  <2>4. Become(r, q) /\ UNCHANGED <<usedUuids, cleaning>> /\ request[r].stage = "starting"
    BY <1>5, <2>3 DEF TakeExpiredFirst, Goto, At
  <2>5. q.thread = request[r].thread /\ q.next = NoThread
    BY <2>3, <2>4, Held1 DEF RequestState, Held, Rolling
  <2>6. \A d \in Going' : d \in Going \cup D
    BY <1>rows, <2>1, <2>2, <2>4 DEF Going
  <2>7. Adds(r, q, D, {}, {}, {})
    BY <1>none, <1>taken, <2>1, <2>2, <2>4, <2>5, <2>6 DEF Adds
  <2> QED BY <2>4, <2>7, RequestDeletion
<1>6. ASSUME NEW r \in Requests, SelectMapping(r) PROVE DeletionInv'
  <2>1. PICK q : q = [request[r] EXCEPT
                        !.stage = IF mapped[SessionOf(r)] # NoThread /\ ~expired[SessionOf(r)]
                                  THEN "refreshing" ELSE "creating",
                        !.thread = mapped[SessionOf(r)], !.count = turnCount[SessionOf(r)]]
    OBVIOUS
  <2>2. q.thread = mapped[SessionOf(r)] /\ q.next = request[r].next /\ request[r].stage # "idle"
    BY <1>6, <2>1, Held1 DEF RequestState, SelectMapping, At
  <2>3. Become(r, q) /\ UNCHANGED <<mapped, usedUuids, doomed, cleaning>>
    BY <1>6, <2>1 DEF SelectMapping
  <2> QED BY <1>quiet, <2>2, <2>3 DEF Going
<1>use. ASSUME NEW r \in Requests, NEW t, NEW n, UseThread(r, t, n)
        PROVE  \E q : Become(r, q) /\ q.thread = t /\ q.next = request[r].next
  <2>1. PICK q : q = [request[r] EXCEPT !.stage = IF MustRoll(r, n) THEN "rolling" ELSE "ready",
                                        !.thread = t, !.count = n]
    OBVIOUS
  <2>2. Become(r, q)
    BY <1>use, <2>1 DEF UseThread
  <2>3. q.thread = t /\ q.next = request[r].next
    BY <2>1, Held1 DEF RequestState
  <2> QED BY <2>2, <2>3
<1>7. ASSUME NEW r \in Requests, RefreshMapping(r) PROVE DeletionInv'
  <2>1. PICK q : Become(r, q) /\ q.thread = request[r].thread /\ q.next = request[r].next
    BY <1>7, <1>use DEF RefreshMapping
  <2> QED BY <1>7, <1>quiet, <2>1 DEF RefreshMapping, Going
<1>8. ASSUME NEW r \in Requests, CreateMapping(r) PROVE DeletionInv'
  <2>1. PICK s \in Sessions : s = SessionOf(r)
    BY <1>8, SessionType DEF CreateMapping, At
  <2>0. request[r].stage = "creating" /\ UNCHANGED <<usedUuids, doomed, cleaning>>
    BY <1>8 DEF CreateMapping, At
  <2>2. CASE mapped[s] # NoThread /\ ~expired[s]
    <3>1. UseThread(r, mapped[s], turnCount[s]) /\ mapped' = mapped
      BY <1>8, <2>1, <2>2 DEF CreateMapping
    <3>2. PICK q : Become(r, q) /\ q.thread = mapped[s] /\ q.next = request[r].next
      BY <1>use, <3>1
    <3> QED BY <1>quiet, <2>0, <2>1, <3>1, <3>2 DEF Going
  <2>3. CASE ~(mapped[s] # NoThread /\ ~expired[s])
    <3>1. UseThread(r, ThreadId(s), 0) /\ MapTo(s, ThreadId(s))
      BY <1>8, <2>1, <2>3 DEF CreateMapping
    <3>2. PICK q : Become(r, q) /\ q.thread = ThreadId(s) /\ q.next = request[r].next
      BY <1>use, <3>1
    <3>3. ThreadId(s) \notin Uuids
      BY SessionsAssumption, ThreadIdAssumption DEF ThreadId, Digests
    <3>4. \A p \in Sessions : mapped'[p] \in {mapped[p], ThreadId(s)}
      BY <1>rows, <3>1 DEF MapTo
    <3>5. Adds(r, q, {}, {ThreadId(s)}, {ThreadId(s)}, {})
      BY <2>0, <3>2, <3>3, <3>4 DEF Adds, Going
    <3> QED BY <2>0, <3>2, <3>5, RequestDeletion
  <2> QED BY <2>2, <2>3
<1>9. ASSUME NEW r \in Requests, ReadOldThread(r) PROVE DeletionInv'
  <2>1. PICK t \in Uuids \ usedUuids :
          /\ usedUuids' = usedUuids \cup {t}
          /\ Become(r, [request[r] EXCEPT !.stage = "seeding", !.next = t,
                                          !.base = memory[request[r].thread]])
    BY <1>9 DEF ReadOldThread
  <2>2. PICK q : q = [request[r] EXCEPT !.stage = "seeding", !.next = t,
                                        !.base = memory[request[r].thread]]
    OBVIOUS
  <2>3. q.thread = request[r].thread /\ q.next = t
    BY <2>2, Held1 DEF RequestState
  <2>4. Become(r, q) /\ UNCHANGED <<mapped, doomed, cleaning>>
    BY <1>9, <2>1, <2>2 DEF ReadOldThread
  <2>5. /\ t \notin Going /\ t # NoThread /\ \A s \in Sessions : mapped[s] # t
        /\ \A c \in Requests : request[c].thread # t /\ request[c].next # t
    BY NewThread
  <2>6. Adds(r, q, {}, {}, {}, {t})
    BY <2>3, <2>4, <2>5 DEF Adds, Going
  <2> QED BY <2>1, <2>4, <2>6, RequestDeletion
<1>10. ASSUME NEW r \in Requests, SeedNextThread(r) PROVE DeletionInv'
  <2>1. PICK q : q = [request[r] EXCEPT !.stage = "swapping"]
    OBVIOUS
  <2>2. q.thread = request[r].thread /\ q.next = request[r].next
    BY <2>1, Held1 DEF RequestState
  <2>3. Become(r, q) /\ UNCHANGED <<mapped, usedUuids, doomed, cleaning>>
    BY <1>10, <2>1 DEF SeedNextThread, Goto
  <2> QED BY <1>quiet, <2>2, <2>3 DEF Going
<1>11. ASSUME NEW r \in Requests, SwapMapping(r) PROVE DeletionInv'
  <2>0. request[r].stage = "swapping" /\ UNCHANGED <<usedUuids, cleaning>>
    BY <1>11 DEF SwapMapping, At
  <2>1. PICK s \in Sessions : s = SessionOf(r)
    BY <2>0, SessionType
  <2>2. PICK n \in Uuids : n = request[r].next
    BY <1>none, <2>0, Held1 DEF Held, Rolling, TypeInv, TypeOK
  <2>3. PICK o \in Threads : o = request[r].thread
    BY <2>0, Held1 DEF Held, OnThread, Rolling
  <2>4. /\ n \notin Going /\ n \in usedUuids
        /\ \A p \in Sessions : mapped[p] # n
        /\ \A c \in Requests : request[c].thread # n
        /\ \A c \in Requests \ {r} : request[c].next # n
    BY <1>prepared, <2>2
  <2>5. CASE StillOn(r)
    <3>1. PICK q : q = [request[r] EXCEPT !.stage = "ready", !.thread = request[r].next, !.next = NoThread]
      OBVIOUS
    <3>2. Become(r, q) /\ MapTo(s, n) /\ doomed' = [doomed EXCEPT ![r] = {o}]
      BY <1>11, <2>1, <2>2, <2>3, <2>5, <3>1 DEF SwapMapping
    <3>3. q.thread = n /\ q.next = NoThread
      BY <2>2, <3>1, Held1 DEF RequestState
    <3>4. \A p \in Sessions : mapped'[p] = IF p = s THEN n ELSE mapped[p]
      BY <1>rows, <3>2 DEF MapTo
    <3>5. /\ \A p \in Sessions : mapped[p] = o => p = s
          /\ o \in Uuids => o \in usedUuids
      BY <1>own, <2>0, <2>1, <2>3
    <3>6. \A d \in Going' : d \in Going \cup {o}
      BY <1>rows, <2>0, <3>2 DEF Going
    <3>7. o # n /\ (o \in Uuids => \A c \in Requests : request[c].next # o)
      BY <1>apart, <2>3, <2>4
    <3>8. Adds(r, q, {o}, {n}, {n}, {})
      BY <1>none, <2>0, <2>4, <3>3, <3>4, <3>5, <3>6, <3>7 DEF Adds
    <3> QED BY <2>0, <3>2, <3>8, RequestDeletion
  <2>6. CASE ~StillOn(r)
    <3>1. PICK q : q = [request[r] EXCEPT !.stage = "selecting", !.next = NoThread, !.rolled = TRUE]
      OBVIOUS
    <3>2. Become(r, q) /\ mapped' = mapped /\ doomed' = [doomed EXCEPT ![r] = {n}]
      BY <1>11, <2>2, <2>6, <3>1 DEF SwapMapping
    <3>3. q.thread = request[r].thread /\ q.next = NoThread
      BY <3>1, Held1 DEF RequestState
    <3>4. \A d \in Going' : d \in Going \cup {n}
      BY <1>rows, <2>0, <3>2 DEF Going
    <3>5. Adds(r, q, {n}, {}, {}, {})
      BY <1>none, <2>0, <2>4, <3>2, <3>3, <3>4 DEF Adds
    <3> QED BY <2>0, <3>2, <3>5, RequestDeletion
  <2> QED BY <2>5, <2>6
<1>12. ASSUME NEW r \in Requests, RolloverRaises(r) PROVE DeletionInv'
  <2>0. request[r].stage \in Rolling /\ Become(r, Idle) /\ UNCHANGED <<usedUuids, doomed, cleaning>>
    BY <1>12 DEF RolloverRaises, Rolling
  <2>1. SessionOf(r) \in Sessions
    BY <2>0, SessionType DEF Rolling
  <2>2. PICK n \in Uuids : n = request[r].next
    BY <1>none, <2>0, Held1 DEF Held, TypeInv, TypeOK
  <2>3. \A p \in Sessions : mapped'[p] \in {mapped[p], n}
    BY <1>12, <1>rows, <2>1, <2>2 DEF RolloverRaises, MapTo
  <2>4. n \notin Going /\ \A c \in Requests \ {r} : request[c].next # n
    BY <1>prepared, <2>2
  <2>5. PICK q : q = Idle
    OBVIOUS
  <2>6. q.thread = NoThread /\ q.next = NoThread
    BY <2>5 DEF Idle
  <2>7. Adds(r, q, {}, {n}, {}, {})
    BY <1>none, <2>0, <2>3, <2>4, <2>6 DEF Adds, Going
  <2> QED BY <2>0, <2>5, <2>7, RequestDeletion
<1>13. ASSUME NEW r \in Requests, LoadThread(r) PROVE DeletionInv'
  <2>1. PICK q : q = [request[r] EXCEPT !.stage = "running", !.base = memory[request[r].thread]]
    OBVIOUS
  <2>2. q.thread = request[r].thread /\ q.next = request[r].next
    BY <2>1, Held1 DEF RequestState
  <2>3. Become(r, q) /\ UNCHANGED <<mapped, usedUuids, doomed, cleaning>>
    BY <1>13, <2>1 DEF LoadThread
  <2> QED BY <1>quiet, <2>2, <2>3 DEF Going
<1>14. ASSUME NEW r \in Requests, SaveCheckpoint(r) PROVE DeletionInv'
  <2>1. PICK q : q = [request[r] EXCEPT !.stage = "saved"]
    OBVIOUS
  <2>2. q.thread = request[r].thread /\ q.next = request[r].next
    BY <2>1, Held1 DEF RequestState
  <2>3. Become(r, q) /\ UNCHANGED <<mapped, usedUuids, doomed, cleaning>>
    BY <1>14, <2>1 DEF SaveCheckpoint, Goto
  <2> QED BY <1>quiet, <2>2, <2>3 DEF Going
<1>15. ASSUME NEW r \in Requests, CompleteTurn(r) \/ Abandon(r) PROVE DeletionInv'
  <2>1. Become(r, Idle) /\ UNCHANGED <<mapped, usedUuids, cleaning>>
    BY <1>15 DEF CompleteTurn, Abandon
  <2>2. \A d \in Going' : d \in Going
    BY <1>15, <1>rows DEF CompleteTurn, Abandon, Going
  <2>3. PICK q : q = Idle
    OBVIOUS
  <2>4. q.thread = NoThread /\ q.next = NoThread
    BY <2>3 DEF Idle
  <2> QED BY <1>quiet, <2>1, <2>2, <2>3, <2>4
<1>16. CASE CleanUp
  <2>1. PICK S \in Takings : Drop(S) /\ cleaning' = {mapped[s] : s \in S}
    BY <1>16 DEF CleanUp
  <2>2. PICK D : D = {mapped[s] : s \in S}
    OBVIOUS
  <2>3. \A d \in Going' : d \in Going \cup D
    BY <1>16, <2>1, <2>2 DEF CleanUp, Going
  <2>4. /\ \A s \in Sessions : mapped'[s] \in {mapped[s], NoThread}
        /\ \A t \in D \cap Uuids :
              /\ t \in usedUuids /\ \A s \in Sessions : mapped'[s] # t
              /\ \A c \in Requests : request[c].next # t
    BY <1>taken, <2>1, <2>2
  <2>5. UNCHANGED <<request, usedUuids>>
    BY <1>16 DEF CleanUp
  <2> QED BY <1>other, <2>3, <2>4, <2>5
<1>17. CASE DeleteCleaned \/ WorkerStops \/ UNCHANGED vars
  <2>1. \A d \in Going' : d \in Going
    BY <1>17 DEF DeleteCleaned, WorkerStops, vars, Going
  <2>2. UNCHANGED <<request, usedUuids, mapped>>
    BY <1>17 DEF DeleteCleaned, WorkerStops, vars
  <2> QED BY <1>still, <2>1, <2>2
<1>18. ASSUME NEW s \in Sessions, Expire(s) PROVE DeletionInv'
  <2>1. \A d \in Going' : d \in Going
    BY <1>18 DEF Expire, Going
  <2>2. UNCHANGED <<request, usedUuids, mapped>>
    BY <1>18 DEF Expire
  <2> QED BY <1>still, <2>1, <2>2
<1> QED
  BY <1>1, <1>2, <1>3, <1>4, <1>5, <1>6, <1>7, <1>8, <1>9, <1>10, <1>11, <1>12, <1>13, <1>14,
     <1>15, <1>16, <1>17, <1>18 DEF Next, Step

LEMMA DeletionInvariant == Spec => []DeletionInv
<1>1. Init => DeletionInv
  BY ThreadTypes DEF Init, DeletionInv, Going, Idle
<1> QED BY <1>1, DeletionStep, TypeInvariant, IsolationInvariant, PTL DEF Spec

\* A row's thread is the session's first, or has a name uuid4 gave it.
MappedInv == \A s \in Sessions : mapped[s] \in Uuids \cup {NoThread, ThreadId(s)}

LEMMA MappedInvariant == Spec => []MappedInv
<1>1. Init => MappedInv
  BY DEF Init, MappedInv
<1>2. TypeInv /\ MappedInv /\ [Next]_vars => MappedInv'
  <2> SUFFICES ASSUME TypeInv, MappedInv, [Next]_vars PROVE MappedInv'
    OBVIOUS
  <2> USE DEF rows, checkpoints, counters
  <2>rows. mapped \in [Sessions -> Threads \cup {NoThread}]
    BY DEF TypeInv, TypeOK
  <2>kept. ASSUME \A s \in Sessions : mapped'[s] \in {mapped[s], ThreadId(s), NoThread} \cup Uuids
           PROVE  MappedInv'
    BY <2>kept DEF MappedInv, ThreadId
  <2>mapped. ASSUME NEW s \in Sessions, NEW t \in Uuids \cup {ThreadId(s)}, MapTo(s, t)
             PROVE  MappedInv'
    <3>1. \A p \in Sessions : mapped'[p] = IF p = s THEN t ELSE mapped[p]
      BY <2>mapped, <2>rows DEF MapTo
    <3> QED BY <2>kept, <3>1
  <2>1. ASSUME NEW r \in Requests, ResetMapping(r) PROVE MappedInv'
    <3>1. SessionOf(r) \in Sessions /\ \E t \in Uuids : MapTo(SessionOf(r), t)
      BY <2>1, SessionType DEF ResetMapping, At
    <3> QED BY <2>mapped, <3>1
  <2>2. ASSUME NEW r \in Requests, CreateMapping(r) PROVE MappedInv'
    <3>1. SessionOf(r) \in Sessions
      BY <2>2, SessionType DEF CreateMapping, At
    <3>2. mapped' = mapped \/ MapTo(SessionOf(r), ThreadId(SessionOf(r)))
      BY <2>2 DEF CreateMapping
    <3> QED BY <2>kept, <2>mapped, <3>1, <3>2
  <2>3. ASSUME NEW r \in Requests, SwapMapping(r) \/ RolloverRaises(r) PROVE MappedInv'
    <3>1. request[r].stage \in Rolling
      BY <2>3 DEF SwapMapping, RolloverRaises, At, Rolling
    <3>2. SessionOf(r) \in Sessions /\ request[r].next \in Uuids
      BY <3>1, Held1, SessionType DEF Held, Rolling, TypeInv, TypeOK
    <3>3. mapped' = mapped \/ MapTo(SessionOf(r), request[r].next)
      BY <2>3 DEF SwapMapping, RolloverRaises
    <3> QED BY <2>kept, <2>mapped, <3>2, <3>3
  <2>4. ASSUME NEW S, Drop(S) PROVE MappedInv'
    BY <2>4, <2>kept DEF Drop
  <2>5. CASE mapped' = mapped
    BY <2>5, <2>kept
  <2>6. \/ mapped' = mapped \/ \E S : Drop(S)
        \/ \E r \in Requests :
              ResetMapping(r) \/ CreateMapping(r) \/ SwapMapping(r) \/ RolloverRaises(r)
    BY DEF Next, Step, vars, Begin, ReadReplaced, DeleteDoomed, TakeExpiredFirst, SelectMapping,
           RefreshMapping, ReadOldThread, SeedNextThread, LoadThread, SaveCheckpoint, CompleteTurn,
           Abandon, CleanUp, DeleteCleaned, WorkerStops, Expire
  <2> QED BY <2>1, <2>2, <2>3, <2>4, <2>5, <2>6
<1> QED BY <1>1, <1>2, TypeInvariant, PTL DEF Spec

\* A thread that is going to be deleted is nobody's, for any interleaving, crash and fault,
\* unless it is the first thread of a session that has come back.
THEOREM SafeDeletionCorrect == Spec => []SafeDeletion
<1>1. TypeInv /\ MappedInv /\ DeletionInv => SafeDeletion
  <2> SUFFICES ASSUME TypeInv, MappedInv, DeletionInv, NEW s \in Sessions, mapped[s] \in Going
               PROVE  mapped[s] = ThreadId(s)
    BY DEF SafeDeletion, Going
  <2>1. mapped[s] # NoThread
    BY ThreadTypes DEF TypeInv, TypeOK, Going
  <2>2. mapped[s] \notin Uuids
    BY DEF DeletionInv
  <2> QED BY <2>1, <2>2 DEF MappedInv
<1> QED BY <1>1, TypeInvariant, MappedInvariant, DeletionInvariant, PTL

-----------------------------------------------------------------------------
(* The turn limit. *)

\* Whether a request that stands at q may still add a turn to thread m of session s: it has
\* the thread and will not leave it, whatever the count is by then.
Counts(q, s, m) ==
    /\ q.stage # "idle" /\ q.turn[1] = s
    /\ \/ q.rolled
       \/ q.stage \in Settled /\ q.thread = m
       \/ q.stage = "refreshing" /\ (q.thread = m => q.count < Rollover)
       \/ q.stage \in {"rolling"} \cup Rolling /\ q.thread # m

Counting(s) == {r \in Requests : Counts(request[r], s, mapped[s])}

\* Past the limit, every request that may still count has its place below the bound.
Within(n, s) == n >= Rollover => n + Cardinality(Counting(s)) <= Rollover - 1 + Cardinality(Requests)
RolloverInv == \A s \in Sessions : Within(turnCount[s], s)

LEMMA CountingSize ==
    /\ Cardinality(Requests) \in Nat
    /\ \A s : /\ IsFiniteSet(Counting(s)) /\ Cardinality(Counting(s)) \in Nat
              /\ Cardinality(Counting(s)) <= Cardinality(Requests)
    /\ \A s : /\ IsFiniteSet(Counting(s)') /\ Cardinality(Counting(s)') \in Nat
              /\ Cardinality(Counting(s)') <= Cardinality(Requests)
<1>1. \A s : Counting(s) \subseteq Requests /\ Counting(s)' \subseteq Requests
  BY DEF Counting
<1> QED BY <1>1, RequestsAssumption, FS_Subset, FS_CardinalityType

\* A thread keeps its count, and no request comes to count towards it.
LEMMA CountKept ==
    ASSUME RolloverInv, NEW s \in Sessions, turnCount'[s] = turnCount[s],
           Counting(s)' \subseteq Counting(s), turnCount[s] \in Nat
    PROVE  Within(turnCount[s], s)'
<1>1. Cardinality(Counting(s)') <= Cardinality(Counting(s))
  BY CountingSize, FS_Subset
<1>2. Within(turnCount[s], s)
  BY DEF RolloverInv
<1> QED BY <1>1, <1>2, CountingSize, BoundsAssumption DEF Within

\* A request counts, and then does so no longer.
LEMMA CountAdded ==
    ASSUME RolloverInv, NEW s \in Sessions, turnCount'[s] = turnCount[s] + 1, turnCount[s] \in Nat,
           NEW r \in Requests, r \in Counting(s), Counting(s)' \subseteq Counting(s) \ {r}
    PROVE  Within(turnCount[s], s)'
<1>1. Cardinality(Counting(s) \ {r}) = Cardinality(Counting(s)) - 1
  BY CountingSize, FS_RemoveElement
<1>2. Cardinality(Counting(s)') <= Cardinality(Counting(s)) - 1
  BY <1>1, CountingSize, FS_Subset
<1>3. Within(turnCount[s], s)
  BY DEF RolloverInv
<1> QED BY <1>2, <1>3, CountingSize, BoundsAssumption DEF Within

\* The rows that a step leaves as they are, except for those it gives a new thread or none.
RowsKept == \A p \in Sessions :
    turnCount'[p] = 0 \/ (turnCount'[p] = turnCount[p] /\ mapped'[p] = mapped[p])

LEMMA RequestCounting ==
    ASSUME TypeInv, RolloverInv, NEW r \in Requests, NEW q, Become(r, q), RowsKept,
           \A p \in Sessions : turnCount'[p] = turnCount[p] /\ turnCount[p] >= Rollover =>
              (Counts(q, p, mapped[p]) => Counts(request[r], p, mapped[p]))
    PROVE  RolloverInv'
<1>1. \A c \in Requests : request'[c] = IF c = r THEN q ELSE request[c]
  BY DEF Become, TypeInv, TypeOK
<1>2. ASSUME NEW p \in Sessions PROVE Within(turnCount[p], p)'
  <2>0. turnCount[p] \in Nat
    BY DEF TypeInv, TypeOK
  <2>1. CASE turnCount'[p] = 0
    BY <2>1, BoundsAssumption DEF Within
  <2>2. CASE turnCount'[p] = turnCount[p] /\ mapped'[p] = mapped[p] /\ turnCount[p] >= Rollover
    <3>1. Counting(p)' \subseteq Counting(p)
      BY <1>1, <2>2 DEF Counting, Counts
    <3> QED BY <2>0, <2>2, <3>1, CountKept
  <2>3. CASE turnCount'[p] = turnCount[p] /\ ~(turnCount[p] >= Rollover)
    BY <2>3 DEF Within
  <2> QED BY <2>1, <2>2, <2>3 DEF RowsKept
<1> QED BY <1>2 DEF RolloverInv

LEMMA RolloverStep == TypeInv /\ RolloverInv /\ [Next]_vars => RolloverInv'
<1> SUFFICES ASSUME TypeInv, RolloverInv, [Next]_vars PROVE RolloverInv'
  OBVIOUS
<1> USE DEF rows, checkpoints, counters
<1>rows. /\ mapped \in [Sessions -> Threads \cup {NoThread}] /\ turnCount \in [Sessions -> Nat]
         /\ Rollover \in Nat \ {0}
  BY BoundsAssumption DEF TypeInv, TypeOK
<1>mapped. ASSUME NEW s \in Sessions, NEW t, MapTo(s, t) PROVE RowsKept /\ turnCount'[s] = 0
  BY <1>mapped, <1>rows DEF MapTo, RowsKept
<1>dropped. ASSUME NEW S, Drop(S) PROVE RowsKept
  BY <1>dropped DEF Drop, RowsKept
<1>still. ASSUME UNCHANGED <<mapped, turnCount>> PROVE RowsKept
  BY <1>still DEF RowsKept
<1>other. ASSUME UNCHANGED request, RowsKept PROVE RolloverInv'
  <2>1. ASSUME NEW p \in Sessions PROVE Within(turnCount[p], p)'
    <3>1. CASE turnCount'[p] = 0
      BY <3>1, BoundsAssumption DEF Within
    <3>2. CASE turnCount'[p] = turnCount[p] /\ mapped'[p] = mapped[p]
      <4>1. Counting(p)' \subseteq Counting(p)
        BY <1>other, <3>2 DEF Counting, Counts
      <4> QED BY <1>rows, <3>2, <4>1, CountKept
    <3> QED BY <1>other, <3>1, <3>2 DEF RowsKept
  <2> QED BY <2>1 DEF RolloverInv
\* A request that is not counting towards its thread does not start to unless it settles.
<1>plain. ASSUME NEW r \in Requests, NEW q, Become(r, q), RowsKept,
                 q.stage \in {"idle", "resetting", "starting", "selecting", "creating"},
                 q.stage # "idle" =>
                    request[r].stage # "idle" /\ q.turn = request[r].turn /\ q.rolled = request[r].rolled
          PROVE  RolloverInv'
  <2>1. \A p \in Sessions : Counts(q, p, mapped[p]) => Counts(request[r], p, mapped[p])
    BY <1>plain DEF Counts, Settled, Rolling
  <2> QED BY <1>plain, <2>1, RequestCounting
<1>1. ASSUME NEW r \in Requests, NEW s \in Sessions, Begin(r, s) PROVE RolloverInv'
  <2>1. PICK stage \in {"editing", "starting"} :
           Become(r, [Idle EXCEPT !.stage = stage, !.turn = <<s, turns + 1>>])
    BY <1>1 DEF Begin
  <2>2. PICK q : q = [Idle EXCEPT !.stage = stage, !.turn = <<s, turns + 1>>]
    OBVIOUS
  <2>3. q.stage = stage /\ ~q.rolled
    BY <2>2 DEF Idle
  <2>4. \A p \in Sessions : ~Counts(q, p, mapped[p])
    BY <2>3 DEF Counts, Settled, Rolling
  <2>5. RowsKept
    BY <1>1, <1>still DEF Begin
  <2> QED BY <2>1, <2>2, <2>4, <2>5, RequestCounting
<1>2. ASSUME NEW r \in Requests, ReadReplaced(r) PROVE RolloverInv'
  <2>1. PICK q : q = [request[r] EXCEPT !.stage = "resetting", !.thread = mapped[SessionOf(r)]]
    OBVIOUS
  <2>2. /\ q.stage = "resetting" /\ q.turn = request[r].turn /\ q.rolled = request[r].rolled
        /\ request[r].stage # "idle"
    BY <1>2, <2>1, Held1 DEF RequestState, ReadReplaced, At
  <2>3. Become(r, q) /\ RowsKept
    BY <1>2, <1>still, <2>1 DEF ReadReplaced
  <2> QED BY <1>plain, <2>2, <2>3
<1>3. ASSUME NEW r \in Requests, ResetMapping(r) PROVE RolloverInv'
  <2>1. PICK q : q = [request[r] EXCEPT !.stage = "starting", !.thread = NoThread]
    OBVIOUS
  <2>2. /\ q.stage = "starting" /\ q.turn = request[r].turn /\ q.rolled = request[r].rolled
        /\ request[r].stage # "idle"
    BY <1>3, <2>1, Held1 DEF RequestState, ResetMapping, At
  <2>3. SessionOf(r) \in Sessions /\ \E t : MapTo(SessionOf(r), t)
    BY <1>3, <2>2, SessionType DEF ResetMapping
  <2>4. Become(r, q) /\ RowsKept
    BY <1>3, <1>mapped, <2>1, <2>3 DEF ResetMapping
  <2> QED BY <1>plain, <2>2, <2>4
<1>4. ASSUME NEW r \in Requests, DeleteDoomed(r) PROVE RolloverInv'
  BY <1>4, <1>other, <1>still DEF DeleteDoomed
<1>5. ASSUME NEW r \in Requests, TakeExpiredFirst(r) PROVE RolloverInv'
  <2>1. PICK q : q = [request[r] EXCEPT !.stage = "selecting"]
    OBVIOUS
  <2>2. /\ q.stage = "selecting" /\ q.turn = request[r].turn /\ q.rolled = request[r].rolled
        /\ request[r].stage # "idle"
    BY <1>5, <2>1, Held1 DEF RequestState, TakeExpiredFirst, At
  <2>3. Become(r, q) /\ RowsKept
    BY <1>5, <1>dropped, <2>1 DEF TakeExpiredFirst, Goto
  <2> QED BY <1>plain, <2>2, <2>3
<1>6. ASSUME NEW r \in Requests, SelectMapping(r) PROVE RolloverInv'
  <2>1. PICK stage \in {"refreshing", "creating"} :
           Become(r, [request[r] EXCEPT !.stage = stage, !.thread = mapped[SessionOf(r)],
                                        !.count = turnCount[SessionOf(r)]])
    BY <1>6 DEF SelectMapping
  <2>2. PICK q : q = [request[r] EXCEPT !.stage = stage, !.thread = mapped[SessionOf(r)],
                                        !.count = turnCount[SessionOf(r)]]
    OBVIOUS
  <2>3. /\ q.stage = stage /\ q.turn = request[r].turn /\ q.rolled = request[r].rolled
        /\ q.thread = mapped[SessionOf(r)] /\ q.count = turnCount[SessionOf(r)]
        /\ request[r].stage # "idle"
    BY <1>6, <2>2, Held1 DEF RequestState, SelectMapping, At
  <2>4. \A p \in Sessions : turnCount[p] >= Rollover =>
           (Counts(q, p, mapped[p]) => Counts(request[r], p, mapped[p]))
    BY <1>rows, <2>3 DEF Counts, Settled, Rolling, SessionOf
  <2>5. RowsKept
    BY <1>6, <1>still DEF SelectMapping
  <2> QED BY <2>1, <2>2, <2>4, <2>5, RequestCounting
<1>use. ASSUME NEW r \in Requests, NEW t, NEW n \in Nat, UseThread(r, t, n)
        PROVE  \E q : /\ Become(r, q) /\ q.thread = t /\ q.turn = request[r].turn
                      /\ q.rolled = request[r].rolled
                      /\ \/ q.stage = "rolling" /\ n >= Rollover /\ ~q.rolled
                         \/ q.stage = "ready" /\ (n < Rollover \/ q.rolled)
  <2>1. PICK q : q = [request[r] EXCEPT !.stage = IF MustRoll(r, n) THEN "rolling" ELSE "ready",
                                        !.thread = t, !.count = n]
    OBVIOUS
  <2>2. Become(r, q)
    BY <1>use, <2>1 DEF UseThread
  <2>3. /\ q.thread = t /\ q.turn = request[r].turn /\ q.rolled = request[r].rolled
        /\ q.stage = IF MustRoll(r, n) THEN "rolling" ELSE "ready"
        /\ q.rolled \in BOOLEAN
    BY <2>1, Held1 DEF RequestState
  <2>4. \/ n >= Rollover /\ ~request[r].rolled
        \/ n < Rollover \/ request[r].rolled
    BY <1>rows
  <2> QED BY <1>rows, <2>2, <2>3, <2>4 DEF MustRoll
<1>7. ASSUME NEW r \in Requests, RefreshMapping(r) PROVE RolloverInv'
  <2>1. request[r].stage = "refreshing" /\ request[r].count \in Nat
    BY <1>7, Held1 DEF RefreshMapping, At, RequestState
  <2>2. PICK q : /\ Become(r, q) /\ q.thread = request[r].thread /\ q.turn = request[r].turn
                 /\ q.rolled = request[r].rolled
                 /\ \/ q.stage = "rolling" /\ request[r].count >= Rollover /\ ~q.rolled
                    \/ q.stage = "ready" /\ (request[r].count < Rollover \/ q.rolled)
    BY <1>7, <1>use, <2>1 DEF RefreshMapping
  <2>3. \A p \in Sessions : Counts(q, p, mapped[p]) => Counts(request[r], p, mapped[p])
    BY <1>rows, <2>1, <2>2 DEF Counts, Settled, Rolling
  <2>4. RowsKept
    BY <1>7, <1>still DEF RefreshMapping
  <2> QED BY <2>2, <2>3, <2>4, RequestCounting
<1>8. ASSUME NEW r \in Requests, CreateMapping(r) PROVE RolloverInv'
  <2>1. PICK s \in Sessions : s = SessionOf(r)
    BY <1>8, SessionType DEF CreateMapping, At
  <2>2. request[r].stage = "creating"
    BY <1>8 DEF CreateMapping, At
  <2>3. CASE mapped[s] # NoThread /\ ~expired[s]
    <3>1. UseThread(r, mapped[s], turnCount[s]) /\ RowsKept
      BY <1>8, <1>still, <2>1, <2>3 DEF CreateMapping
    <3>2. PICK q : /\ Become(r, q) /\ q.thread = mapped[s] /\ q.turn = request[r].turn
                   /\ q.rolled = request[r].rolled
                   /\ \/ q.stage = "rolling" /\ turnCount[s] >= Rollover /\ ~q.rolled
                      \/ q.stage = "ready" /\ (turnCount[s] < Rollover \/ q.rolled)
      BY <1>rows, <1>use, <3>1
    <3>3. \A p \in Sessions : turnCount[p] >= Rollover =>
             (Counts(q, p, mapped[p]) => Counts(request[r], p, mapped[p]))
      BY <1>rows, <2>1, <2>2, <3>2 DEF Counts, Settled, Rolling, SessionOf
    <3> QED BY <3>1, <3>2, <3>3, RequestCounting
  <2>4. CASE ~(mapped[s] # NoThread /\ ~expired[s])
    <3>1. UseThread(r, ThreadId(s), 0) /\ MapTo(s, ThreadId(s))
      BY <1>8, <2>1, <2>4 DEF CreateMapping
    <3>2. RowsKept /\ turnCount'[s] = 0
      BY <1>mapped, <3>1
    <3>3. PICK q : Become(r, q) /\ q.turn = request[r].turn
      BY <1>use, <3>1
    <3>4. \A p \in Sessions : turnCount'[p] = turnCount[p] /\ turnCount[p] >= Rollover => p # s
      BY <1>rows, <3>2
    <3>5. \A p \in Sessions : Counts(q, p, mapped[p]) => p = s
      BY <2>1, <3>3 DEF Counts, SessionOf
    <3> QED BY <3>2, <3>3, <3>4, <3>5, RequestCounting
  <2> QED BY <2>3, <2>4
<1>9. ASSUME NEW r \in Requests, ReadOldThread(r) PROVE RolloverInv'
  <2>1. PICK t : Become(r, [request[r] EXCEPT !.stage = "seeding", !.next = t,
                                              !.base = memory[request[r].thread]])
    BY <1>9 DEF ReadOldThread
  <2>2. PICK q : q = [request[r] EXCEPT !.stage = "seeding", !.next = t,
                                        !.base = memory[request[r].thread]]
    OBVIOUS
  <2>3. /\ q.stage = "seeding" /\ q.turn = request[r].turn /\ q.rolled = request[r].rolled
        /\ q.thread = request[r].thread /\ request[r].stage = "rolling"
    BY <1>9, <2>2, Held1 DEF RequestState, ReadOldThread, At
  <2>4. \A p \in Sessions : Counts(q, p, mapped[p]) => Counts(request[r], p, mapped[p])
    BY <2>3 DEF Counts, Settled, Rolling
  <2>5. RowsKept
    BY <1>9, <1>still DEF ReadOldThread
  <2> QED BY <2>1, <2>2, <2>4, <2>5, RequestCounting
<1>10. ASSUME NEW r \in Requests, SeedNextThread(r) PROVE RolloverInv'
  <2>1. PICK q : q = [request[r] EXCEPT !.stage = "swapping"]
    OBVIOUS
  <2>2. /\ q.stage = "swapping" /\ q.turn = request[r].turn /\ q.rolled = request[r].rolled
        /\ q.thread = request[r].thread /\ request[r].stage = "seeding"
    BY <1>10, <2>1, Held1 DEF RequestState, SeedNextThread, At
  <2>3. \A p \in Sessions : Counts(q, p, mapped[p]) => Counts(request[r], p, mapped[p])
    BY <2>2 DEF Counts, Settled, Rolling
  <2>4. Become(r, q) /\ RowsKept
    BY <1>10, <1>still, <2>1 DEF SeedNextThread, Goto
  <2> QED BY <2>3, <2>4, RequestCounting
<1>11. ASSUME NEW r \in Requests, SwapMapping(r) PROVE RolloverInv'
  <2>0. request[r].stage = "swapping"
    BY <1>11 DEF SwapMapping, At
  <2>1. PICK s \in Sessions : s = SessionOf(r)
    BY <2>0, SessionType
  <2>2. CASE StillOn(r)
    <3>1. PICK q : q = [request[r] EXCEPT !.stage = "ready", !.thread = request[r].next, !.next = NoThread]
      OBVIOUS
    <3>2. Become(r, q) /\ MapTo(s, request[r].next)
      BY <1>11, <2>1, <2>2, <3>1 DEF SwapMapping
    <3>3. q.turn = request[r].turn
      BY <3>1, Held1 DEF RequestState
    <3>4. RowsKept /\ turnCount'[s] = 0
      BY <1>mapped, <3>2
    <3>5. \A p \in Sessions : turnCount'[p] = turnCount[p] /\ turnCount[p] >= Rollover => p # s
      BY <1>rows, <3>4
    <3>6. \A p \in Sessions : Counts(q, p, mapped[p]) => p = s
      BY <2>1, <3>3 DEF Counts, SessionOf
    <3> QED BY <3>2, <3>4, <3>5, <3>6, RequestCounting
  <2>3. CASE ~StillOn(r)
    <3>1. PICK q : q = [request[r] EXCEPT !.stage = "selecting", !.next = NoThread, !.rolled = TRUE]
      OBVIOUS
    <3>2. Become(r, q) /\ RowsKept
      BY <1>11, <1>still, <2>3, <3>1 DEF SwapMapping
    <3>3. q.turn = request[r].turn
      BY <3>1, Held1 DEF RequestState
    <3>4. request[r].thread # mapped[s]
      BY <2>1, <2>3 DEF StillOn
    <3>5. \A p \in Sessions : Counts(q, p, mapped[p]) => Counts(request[r], p, mapped[p])
      BY <2>0, <2>1, <3>3, <3>4 DEF Counts, Settled, Rolling, SessionOf
    <3> QED BY <3>2, <3>5, RequestCounting
  <2> QED BY <2>2, <2>3
<1>12. ASSUME NEW r \in Requests, RolloverRaises(r) PROVE RolloverInv'
  <2>1. request[r].stage \in Rolling /\ Become(r, Idle)
    BY <1>12 DEF RolloverRaises, Rolling
  <2>2. SessionOf(r) \in Sessions
    BY <2>1, SessionType DEF Rolling
  <2>3. RowsKept
    BY <1>12, <1>mapped, <1>still, <2>2 DEF RolloverRaises
  <2>4. PICK q : q = Idle
    OBVIOUS
  <2>5. q.stage = "idle"
    BY <2>4 DEF Idle
  <2> QED BY <1>plain, <2>1, <2>3, <2>4, <2>5
<1>13. ASSUME NEW r \in Requests, LoadThread(r) PROVE RolloverInv'
  <2>1. PICK q : q = [request[r] EXCEPT !.stage = "running", !.base = memory[request[r].thread]]
    OBVIOUS
  <2>2. /\ q.stage = "running" /\ q.turn = request[r].turn /\ q.rolled = request[r].rolled
        /\ q.thread = request[r].thread /\ request[r].stage = "ready"
    BY <1>13, <2>1, Held1 DEF RequestState, LoadThread, At
  <2>3. \A p \in Sessions : Counts(q, p, mapped[p]) => Counts(request[r], p, mapped[p])
    BY <2>2 DEF Counts, Settled, Rolling
  <2>4. Become(r, q) /\ RowsKept
    BY <1>13, <1>still, <2>1 DEF LoadThread
  <2> QED BY <2>3, <2>4, RequestCounting
<1>14. ASSUME NEW r \in Requests, SaveCheckpoint(r) PROVE RolloverInv'
  <2>1. PICK q : q = [request[r] EXCEPT !.stage = "saved"]
    OBVIOUS
  <2>2. /\ q.stage = "saved" /\ q.turn = request[r].turn /\ q.rolled = request[r].rolled
        /\ q.thread = request[r].thread /\ request[r].stage \in Settled
    BY <1>14, <2>1, Held1 DEF RequestState, SaveCheckpoint, Settled
  <2>3. \A p \in Sessions : Counts(q, p, mapped[p]) => Counts(request[r], p, mapped[p])
    BY <2>2 DEF Counts, Settled, Rolling
  <2>4. Become(r, q) /\ RowsKept
    BY <1>14, <1>still, <2>1 DEF SaveCheckpoint, Goto
  <2> QED BY <2>3, <2>4, RequestCounting
<1>15. ASSUME NEW r \in Requests, CompleteTurn(r) PROVE RolloverInv'
  <2>1. PICK s \in Sessions : s = SessionOf(r)
    BY <1>15, SessionType DEF CompleteTurn, At
  <2>2. request[r].stage = "saved" /\ Become(r, Idle) /\ mapped' = mapped
    BY <1>15 DEF CompleteTurn, At
  <2>3. PICK q : q = Idle
    OBVIOUS
  <2>4. q.stage = "idle"
    BY <2>3 DEF Idle
  <2>5. CASE StillOn(r)
    <3>1. \A p \in Sessions : turnCount'[p] = IF p = s THEN turnCount[p] + 1 ELSE turnCount[p]
      BY <1>15, <1>rows, <2>1, <2>5 DEF CompleteTurn
    <3>2. \A c \in Requests : request'[c] = IF c = r THEN q ELSE request[c]
      BY <2>2, <2>3 DEF Become, TypeInv, TypeOK
    <3>3. r \in Counting(s)
      BY <2>1, <2>2, <2>5 DEF Counting, Counts, Settled, StillOn, SessionOf
    <3>4. \A p \in Sessions : Counting(p)' \subseteq Counting(p) \ {r}
      BY <2>2, <2>4, <3>2 DEF Counting, Counts
    <3>5. Within(turnCount[s], s)'
      BY <1>rows, <3>1, <3>3, <3>4, CountAdded
    <3>6. ASSUME NEW p \in Sessions, p # s PROVE Within(turnCount[p], p)'
      <4>1. turnCount'[p] = turnCount[p] /\ Counting(p)' \subseteq Counting(p) /\ turnCount[p] \in Nat
        BY <1>rows, <3>1, <3>4, <3>6
      <4> QED BY <4>1, CountKept
    <3> QED BY <3>5, <3>6 DEF RolloverInv
  <2>6. CASE ~StillOn(r)
    <3>1. RowsKept
      BY <1>15, <1>still, <2>2, <2>6 DEF CompleteTurn
    <3> QED BY <1>plain, <2>2, <2>3, <2>4, <3>1
  <2> QED BY <2>5, <2>6
<1>16. ASSUME NEW r \in Requests, Abandon(r) PROVE RolloverInv'
  <2>1. Become(r, Idle) /\ RowsKept
    BY <1>16, <1>still DEF Abandon
  <2>2. PICK q : q = Idle
    OBVIOUS
  <2>3. q.stage = "idle"
    BY <2>2 DEF Idle
  <2> QED BY <1>plain, <2>1, <2>2, <2>3
<1>17. CASE CleanUp
  BY <1>17, <1>other, <1>dropped DEF CleanUp
<1>18. CASE DeleteCleaned \/ WorkerStops \/ UNCHANGED vars
  BY <1>18, <1>other, <1>still DEF DeleteCleaned, WorkerStops, vars
<1>19. ASSUME NEW s \in Sessions, Expire(s) PROVE RolloverInv'
  BY <1>19, <1>other, <1>still DEF Expire
<1> QED
  BY <1>1, <1>2, <1>3, <1>4, <1>5, <1>6, <1>7, <1>8, <1>9, <1>10, <1>11, <1>12, <1>13, <1>14,
     <1>15, <1>16, <1>17, <1>18, <1>19 DEF Next, Step

LEMMA RolloverInvariant == Spec => []RolloverInv
<1>1. Init => RolloverInv
  BY BoundsAssumption DEF Init, RolloverInv, Within
<1> QED BY <1>1, RolloverStep, TypeInvariant, PTL DEF Spec

\* The limit is passed by at most one turn for each request at the same time, whatever the
\* limit and however the reads and the writes of the counter interleave.
THEOREM RolloverBoundCorrect == Spec => []RolloverBound
<1>1. TypeInv /\ RolloverInv => RolloverBound
  <2> SUFFICES ASSUME TypeInv, RolloverInv, NEW s \in Sessions
               PROVE  turnCount[s] < Rollover + Cardinality(Requests)
    BY DEF RolloverBound
  <2>1. turnCount[s] \in Nat /\ Within(turnCount[s], s)
    BY DEF TypeInv, TypeOK, RolloverInv
  <2> QED BY <2>1, CountingSize, BoundsAssumption DEF Within
<1> QED BY <1>1, TypeInvariant, RolloverInvariant, PTL

-----------------------------------------------------------------------------
(* Clients that run one turn at a time, without disconnects and crashes. *)

\* The clean-up a turn starts with takes every session that has expired.
FewExpired == IsFiniteSet(ExpiredSessions) /\ Cardinality(ExpiredSessions) <= TakeLimit

OneTurnEach ==
    \A r, c \in Requests :
       request[r].stage # "idle" /\ request[c].stage # "idle" /\ SessionOf(r) = SessionOf(c) => r = c

\* What request q has read of its session's row, whose thread is m, is still so.
Follows(q, m, late) ==
    /\ q.stage \in OnThread => m = q.thread /\ ~late
    /\ q.stage \in {"selecting", "creating"} => m = NoThread \/ ~late
    /\ q.stage = "resetting" => m \in {q.thread, NoThread}

\* One turn at a time, and each request's reading of its row is still true.
SerialInv ==
    /\ OneTurnEach
    /\ \A r \in Requests :
          request[r].stage # "idle" => Follows(request[r], mapped[SessionOf(r)], expired[SessionOf(r)])

\* Nobody but clean-up touches the row.
RowLeft(p) ==
    \/ mapped'[p] = mapped[p] /\ expired'[p] = expired[p]
    \/ expired[p] /\ mapped'[p] = NoThread /\ ~expired'[p]

\* If few have expired, a clean-up takes all of them.
LEMMA TakesAll ==
    ASSUME FewExpired, NEW S \in Takings
    PROVE  S = ExpiredSessions
<1>1. S \in SUBSET ExpiredSessions /\ (S = ExpiredSessions \/ Cardinality(S) = TakeLimit)
  <2>1. IsFiniteSet(S) /\ S \in SUBSET ExpiredSessions
    BY FS_Subset DEF FewExpired, Takings
  <2>2. Cardinality(S) \in Nat
    BY <2>1, FS_CardinalityType
  <2> QED BY <2>1, <2>2, BoundsAssumption DEF Takings
<1>2. Cardinality(S) = TakeLimit => S = ExpiredSessions
  <2>1. Cardinality(S) <= Cardinality(ExpiredSessions) /\ Cardinality(ExpiredSessions) \in Nat
    BY <1>1, FS_Subset, FS_CardinalityType DEF FewExpired
  <2>2. Cardinality(S) = TakeLimit => Cardinality(ExpiredSessions) = Cardinality(S)
    BY <2>1, BoundsAssumption DEF FewExpired
  <2> QED BY <1>1, <2>2, FS_Subset DEF FewExpired
<1> QED BY <1>1, <1>2

\* A clean-up removes expired rows and leaves the others; if few have expired, none is left that has.
LEMMA DroppedRows ==
    ASSUME TypeInv, NEW S \in Takings, Drop(S)
    PROVE  /\ \A p \in Sessions : RowLeft(p)
           /\ FewExpired => \A p \in Sessions : mapped'[p] = NoThread \/ ~expired'[p]
<1>1. \A p \in S : expired[p] /\ mapped[p] # NoThread
  BY DEF Takings, ExpiredSessions
<1>2. \A p \in Sessions : RowLeft(p)
  BY <1>1 DEF Drop, RowLeft, TypeInv, TypeOK
<1>3. ASSUME FewExpired, NEW p \in Sessions PROVE mapped'[p] = NoThread \/ ~expired'[p]
  <2>1. S = ExpiredSessions
    BY <1>3, TakesAll
  <2> QED BY <2>1 DEF Drop, ExpiredSessions
<1> QED BY <1>2, <1>3

\* Request r, the only one of session s, becomes q.
LEMMA RequestSerial ==
    ASSUME TypeInv, SerialInv, NEW r \in Requests, NEW q, Become(r, q), NEW s,
           \A c \in Requests \ {r} : request[c].stage # "idle" => SessionOf(c) # s,
           q.stage # "idle" => q.turn[1] = s /\ Follows(q, mapped'[s], expired'[s]),
           \A p \in Sessions \ {s} : RowLeft(p)
    PROVE  SerialInv'
<1>1. \A c \in Requests : request'[c] = IF c = r THEN q ELSE request[c]
  BY DEF Become, TypeInv, TypeOK
<1>2. \A c \in Requests : request'[c].stage # "idle" =>
         request'[c].turn[1] = IF c = r THEN s ELSE SessionOf(c)
  BY <1>1 DEF SessionOf
<1>3. OneTurnEach'
  BY <1>1, <1>2 DEF SerialInv, OneTurnEach, SessionOf
<1>4. ASSUME NEW c \in Requests, request'[c].stage # "idle"
      PROVE  Follows(request'[c], mapped'[request'[c].turn[1]], expired'[request'[c].turn[1]])
  <2>1. CASE c = r
    BY <1>1, <1>2, <1>4, <2>1
  <2>2. CASE c # r
    <3>1. /\ request'[c] = request[c] /\ request'[c].turn[1] = SessionOf(c) /\ SessionOf(c) # s
          /\ SessionOf(c) \in Sessions
      BY <1>1, <1>2, <1>4, <2>2, SessionType
    <3>2. RowLeft(SessionOf(c))
      BY <3>1
    <3>3. Follows(request[c], mapped[SessionOf(c)], expired[SessionOf(c)])
      BY <1>4, <3>1 DEF SerialInv
    <3>4. Follows(request[c], mapped'[SessionOf(c)], expired'[SessionOf(c)])
      BY <3>2, <3>3 DEF RowLeft, Follows
    <3> QED BY <3>1, <3>4
  <2> QED BY <2>1, <2>2
<1> QED BY <1>3, <1>4 DEF SerialInv, SessionOf

\* Every step keeps what requests have read true: only clean-up takes a row from a request, and
\* only one that has expired.
LEMMA SerialStep ==
    ASSUME Serial, MaxFaults = 0
    PROVE  TypeInv /\ SerialInv /\ FewExpired /\ [Next]_vars => SerialInv'
<1> SUFFICES ASSUME TypeInv, SerialInv, FewExpired, [Next]_vars PROVE SerialInv'
  OBVIOUS
<1> USE DEF rows, checkpoints, counters
<1>rows. mapped \in [Sessions -> Threads \cup {NoThread}] /\ expired \in [Sessions -> BOOLEAN]
  BY DEF TypeInv, TypeOK
<1>faultless. /\ \A r \in Requests : ~RolloverRaises(r) /\ ~Abandon(r)
              /\ ~WorkerStops
  BY DEF TypeInv, TypeOK, RolloverRaises, Abandon, WorkerStops
<1>still. UNCHANGED <<mapped, expired>> => \A p \in Sessions : RowLeft(p)
  BY DEF RowLeft
<1>maps. ASSUME NEW s \in Sessions, NEW t, MapTo(s, t)
         PROVE  /\ mapped'[s] = t /\ ~expired'[s]
                /\ \A p \in Sessions \ {s} : RowLeft(p)
  BY <1>maps, <1>rows DEF MapTo, RowLeft
\* A request that goes on with its turn.
<1>on. ASSUME NEW r \in Requests, NEW q, Become(r, q), request[r].stage # "idle",
              NEW s, s = SessionOf(r), q.turn = request[r].turn, Follows(q, mapped'[s], expired'[s]),
              \A p \in Sessions \ {s} : RowLeft(p)
       PROVE  SerialInv'
  <2>1. \A c \in Requests \ {r} : request[c].stage # "idle" => SessionOf(c) # s
    BY <1>on DEF SerialInv, OneTurnEach
  <2> QED BY <1>on, <2>1, RequestSerial DEF SessionOf
\* What follows holds of a request under way.
<1>now. ASSUME NEW r \in Requests, request[r].stage # "idle", NEW s, s = SessionOf(r)
        PROVE  s \in Sessions /\ request[r] \in RequestState /\ Follows(request[r], mapped[s], expired[s])
  BY <1>now, Held1, SessionType DEF SerialInv
<1>other. ASSUME request' = request, \A p \in Sessions : RowLeft(p) PROVE SerialInv'
  BY <1>other, SessionType DEF SerialInv, OneTurnEach, Follows, RowLeft, SessionOf
<1>1. ASSUME NEW r \in Requests, NEW s \in Sessions, Begin(r, s) PROVE SerialInv'
  <2>1. PICK stage \in {"editing", "starting"} :
           Become(r, [Idle EXCEPT !.stage = stage, !.turn = <<s, turns + 1>>])
    BY <1>1 DEF Begin
  <2>2. PICK q : q = [Idle EXCEPT !.stage = stage, !.turn = <<s, turns + 1>>]
    OBVIOUS
  <2>3. q.stage = stage /\ q.turn[1] = s /\ Become(r, q)
    BY <2>1, <2>2 DEF Idle
  <2>4. Follows(q, mapped'[s], expired'[s])
    BY <2>3 DEF Follows, OnThread, Rolling, Settled
  <2>5. /\ \A c \in Requests \ {r} : request[c].stage # "idle" => SessionOf(c) # s
        /\ \A p \in Sessions \ {s} : RowLeft(p)
    BY <1>1, <1>still DEF Begin, Busy
  <2> QED BY <2>3, <2>4, <2>5, RequestSerial
<1>2. ASSUME NEW r \in Requests, ReadReplaced(r) PROVE SerialInv'
  <2>1. PICK q : q = [request[r] EXCEPT !.stage = "resetting", !.thread = mapped[SessionOf(r)]]
    OBVIOUS
  <2>2. request[r].stage = "editing" /\ Become(r, q) /\ UNCHANGED <<mapped, expired>>
    BY <1>2, <2>1 DEF ReadReplaced, At
  <2>3. q.turn = request[r].turn /\ q.thread = mapped[SessionOf(r)] /\ q.stage = "resetting"
    BY <2>1, Held1 DEF RequestState
  <2>4. Follows(q, mapped'[SessionOf(r)], expired'[SessionOf(r)])
    BY <2>2, <2>3 DEF Follows, OnThread, Rolling, Settled
  <2> QED BY <1>on, <1>still, <2>2, <2>3, <2>4
<1>3. ASSUME NEW r \in Requests, ResetMapping(r) PROVE SerialInv'
  <2>1. PICK q : q = [request[r] EXCEPT !.stage = "starting", !.thread = NoThread]
    OBVIOUS
  <2>2. /\ request[r].stage = "resetting" /\ Become(r, q)
        /\ \E t : MapTo(SessionOf(r), t)
    BY <1>3, <2>1 DEF ResetMapping, At
  <2>3. q.turn = request[r].turn /\ q.stage = "starting"
    BY <2>1, Held1 DEF RequestState
  <2>4. Follows(q, mapped'[SessionOf(r)], expired'[SessionOf(r)])
    BY <2>3 DEF Follows, OnThread, Rolling, Settled
  <2> QED BY <1>on, <1>now, <1>maps, <2>2, <2>3, <2>4
<1>4. ASSUME NEW r \in Requests, DeleteDoomed(r) PROVE SerialInv'
  BY <1>4, <1>other, <1>still DEF DeleteDoomed
<1>5. ASSUME NEW r \in Requests, TakeExpiredFirst(r) PROVE SerialInv'
  <2>1. PICK q : q = [request[r] EXCEPT !.stage = "selecting"]
    OBVIOUS
  <2>2. PICK S \in Takings : Drop(S)
    BY <1>5 DEF TakeExpiredFirst
  <2>3. request[r].stage = "starting" /\ Become(r, q)
    BY <1>5, <2>1 DEF TakeExpiredFirst, At, Goto
  <2>4. q.turn = request[r].turn /\ q.stage = "selecting"
    BY <2>1, Held1 DEF RequestState
  <2>5. Follows(q, mapped'[SessionOf(r)], expired'[SessionOf(r)])
    BY <1>now, <2>2, <2>3, <2>4, DroppedRows DEF Follows, OnThread, Rolling, Settled
  <2> QED BY <1>on, <2>2, <2>3, <2>4, <2>5, DroppedRows
<1>6. ASSUME NEW r \in Requests, SelectMapping(r) PROVE SerialInv'
  <2> DEFINE s == SessionOf(r)
             live == mapped[s] # NoThread /\ ~expired[s]
  <2>1. PICK q : q = [request[r] EXCEPT !.stage = IF live THEN "refreshing" ELSE "creating",
                                        !.thread = mapped[s], !.count = turnCount[s]]
    OBVIOUS
  <2>2. request[r].stage = "selecting" /\ Become(r, q) /\ UNCHANGED <<mapped, expired>>
    BY <1>6, <2>1 DEF SelectMapping, At
  <2>3. /\ q.turn = request[r].turn /\ q.thread = mapped[s]
        /\ q.stage = IF live THEN "refreshing" ELSE "creating"
    BY <2>1, Held1 DEF RequestState
  <2>4. mapped[s] = NoThread \/ ~expired[s]
    BY <1>now, <2>2 DEF Follows
  <2>5. Follows(q, mapped'[s], expired'[s])
    BY <2>2, <2>3, <2>4 DEF Follows, OnThread, Rolling, Settled
  <2> QED BY <1>on, <1>still, <2>2, <2>3, <2>5
\* A request takes a thread that its session's live row maps to.
<1>use. ASSUME NEW r \in Requests, request[r].stage # "idle", NEW s, s = SessionOf(r),
               NEW t, NEW n, UseThread(r, t, n),
               mapped'[s] = t, ~expired'[s], \A p \in Sessions \ {s} : RowLeft(p)
        PROVE  SerialInv'
  <2>1. PICK q : q = [request[r] EXCEPT !.stage = IF MustRoll(r, n) THEN "rolling" ELSE "ready",
                                        !.thread = t, !.count = n]
    OBVIOUS
  <2>2. /\ q.turn = request[r].turn /\ q.thread = t
        /\ q.stage = IF MustRoll(r, n) THEN "rolling" ELSE "ready"
    BY <2>1, Held1 DEF RequestState
  <2>3. Become(r, q) /\ Follows(q, mapped'[s], expired'[s])
    BY <1>use, <2>1, <2>2 DEF UseThread, Follows, OnThread, Rolling, Settled
  <2> QED BY <1>use, <1>on, <2>2, <2>3
<1>7. ASSUME NEW r \in Requests, RefreshMapping(r) PROVE SerialInv'
  <2>1. PICK s \in Sessions : s = SessionOf(r) /\ Follows(request[r], mapped[s], expired[s])
    BY <1>7, <1>now DEF RefreshMapping, At
  <2>2. request[r].stage = "refreshing" /\ UseThread(r, request[r].thread, request[r].count)
    BY <1>7 DEF RefreshMapping, At
  <2>3. mapped'[s] = request[r].thread /\ ~expired'[s] /\ \A p \in Sessions \ {s} : RowLeft(p)
    BY <1>7, <1>rows, <2>1, <2>2 DEF RefreshMapping, Follows, OnThread, RowLeft
  <2> QED BY <1>use, <2>1, <2>2, <2>3
<1>8. ASSUME NEW r \in Requests, CreateMapping(r) PROVE SerialInv'
  <2>1. PICK s \in Sessions : s = SessionOf(r)
    BY <1>8, <1>now DEF CreateMapping, At
  <2>2. request[r].stage = "creating"
    BY <1>8 DEF CreateMapping, At
  <2>3. CASE mapped[s] # NoThread /\ ~expired[s]
    <3>1. UseThread(r, mapped[s], turnCount[s]) /\ UNCHANGED <<mapped, expired>>
      BY <1>8, <2>1, <2>3 DEF CreateMapping
    <3> QED BY <1>use, <1>still, <2>1, <2>2, <2>3, <3>1
  <2>4. CASE ~(mapped[s] # NoThread /\ ~expired[s])
    <3>1. UseThread(r, ThreadId(s), 0) /\ MapTo(s, ThreadId(s))
      BY <1>8, <2>1, <2>4 DEF CreateMapping
    <3> QED BY <1>use, <1>maps, <2>1, <2>2, <3>1
  <2> QED BY <2>3, <2>4
<1>9. ASSUME NEW r \in Requests, ReadOldThread(r) PROVE SerialInv'
  <2>1. PICK t : Become(r, [request[r] EXCEPT !.stage = "seeding", !.next = t,
                                              !.base = memory[request[r].thread]])
    BY <1>9 DEF ReadOldThread
  <2>2. PICK q : q = [request[r] EXCEPT !.stage = "seeding", !.next = t,
                                        !.base = memory[request[r].thread]]
    OBVIOUS
  <2>3. request[r].stage = "rolling" /\ Become(r, q) /\ UNCHANGED <<mapped, expired>>
    BY <1>9, <2>1, <2>2 DEF ReadOldThread, At
  <2>4. q.turn = request[r].turn /\ q.thread = request[r].thread /\ q.stage = "seeding"
    BY <2>2, Held1 DEF RequestState
  <2>5. Follows(q, mapped'[SessionOf(r)], expired'[SessionOf(r)])
    BY <1>now, <2>3, <2>4 DEF Follows, OnThread, Rolling
  <2> QED BY <1>on, <1>still, <2>3, <2>4, <2>5
<1>10. ASSUME NEW r \in Requests, SeedNextThread(r) PROVE SerialInv'
  <2>1. PICK q : q = [request[r] EXCEPT !.stage = "swapping"]
    OBVIOUS
  <2>2. request[r].stage = "seeding" /\ Become(r, q) /\ UNCHANGED <<mapped, expired>>
    BY <1>10, <2>1 DEF SeedNextThread, At, Goto
  <2>3. q.turn = request[r].turn /\ q.thread = request[r].thread /\ q.stage = "swapping"
    BY <2>1, Held1 DEF RequestState
  <2>4. Follows(q, mapped'[SessionOf(r)], expired'[SessionOf(r)])
    BY <1>now, <2>2, <2>3 DEF Follows, OnThread, Rolling
  <2> QED BY <1>on, <1>still, <2>2, <2>3, <2>4
<1>11. ASSUME NEW r \in Requests, SwapMapping(r) PROVE SerialInv'
  <2>1. request[r].stage = "swapping"
    BY <1>11 DEF SwapMapping, At
  <2>2. PICK s \in Sessions : s = SessionOf(r) /\ mapped[s] = request[r].thread
    BY <1>now, <2>1 DEF Follows, OnThread, Rolling
  <2>3. PICK q : q = [request[r] EXCEPT !.stage = "ready", !.thread = request[r].next, !.next = NoThread]
    OBVIOUS
  <2>4. Become(r, q) /\ MapTo(s, request[r].next)
    BY <1>11, <2>2, <2>3 DEF SwapMapping, StillOn
  <2>5. q.turn = request[r].turn /\ q.thread = request[r].next /\ q.stage = "ready"
    BY <2>3, Held1 DEF RequestState
  <2>6. Follows(q, mapped'[s], expired'[s])
    BY <1>maps, <2>4, <2>5 DEF Follows
  <2> QED BY <1>on, <1>maps, <2>1, <2>2, <2>4, <2>5, <2>6
<1>13. ASSUME NEW r \in Requests, LoadThread(r) PROVE SerialInv'
  <2>1. PICK q : q = [request[r] EXCEPT !.stage = "running", !.base = memory[request[r].thread]]
    OBVIOUS
  <2>2. request[r].stage = "ready" /\ Become(r, q) /\ UNCHANGED <<mapped, expired>>
    BY <1>13, <2>1 DEF LoadThread, At
  <2>3. q.turn = request[r].turn /\ q.thread = request[r].thread /\ q.stage = "running"
    BY <2>1, Held1 DEF RequestState
  <2>4. Follows(q, mapped'[SessionOf(r)], expired'[SessionOf(r)])
    BY <1>now, <2>2, <2>3 DEF Follows, OnThread, Settled
  <2> QED BY <1>on, <1>still, <2>2, <2>3, <2>4
<1>14. ASSUME NEW r \in Requests, SaveCheckpoint(r) PROVE SerialInv'
  <2>1. PICK q : q = [request[r] EXCEPT !.stage = "saved"]
    OBVIOUS
  <2>2. request[r].stage \in {"running", "saved"} /\ Become(r, q) /\ UNCHANGED <<mapped, expired>>
    BY <1>14, <2>1 DEF SaveCheckpoint, Goto
  <2>3. q.turn = request[r].turn /\ q.thread = request[r].thread /\ q.stage = "saved"
    BY <2>1, <2>2, Held1 DEF RequestState
  <2>4. Follows(q, mapped'[SessionOf(r)], expired'[SessionOf(r)])
    BY <1>now, <2>2, <2>3 DEF Follows, OnThread, Settled
  <2> QED BY <1>on, <1>still, <2>2, <2>3, <2>4
<1>15. ASSUME NEW r \in Requests, CompleteTurn(r) PROVE SerialInv'
  <2>1. PICK s \in Sessions : s = SessionOf(r)
    BY <1>15, <1>now DEF CompleteTurn, At
  <2>2. PICK q : q = Idle
    OBVIOUS
  <2>3. q.stage = "idle" /\ Become(r, q) /\ request[r].stage # "idle"
    BY <1>15, <2>2 DEF CompleteTurn, At, Idle
  <2>4. \A p \in Sessions \ {s} : RowLeft(p)
    BY <1>15, <1>rows, <2>1 DEF CompleteTurn, RowLeft
  <2>5. \A c \in Requests \ {r} : request[c].stage # "idle" => SessionOf(c) # s
    BY <2>1, <2>3 DEF SerialInv, OneTurnEach
  <2> QED BY <2>3, <2>4, <2>5, RequestSerial
<1>17. CASE CleanUp
  <2>1. PICK S \in Takings : Drop(S)
    BY <1>17 DEF CleanUp
  <2> QED BY <1>17, <1>other, <2>1, DroppedRows DEF CleanUp
<1>18. CASE DeleteCleaned \/ UNCHANGED vars
  BY <1>18, <1>other, <1>still DEF DeleteCleaned, vars
<1>19. ASSUME NEW s \in Sessions, Expire(s) PROVE SerialInv'
  <2>1. /\ request' = request /\ mapped' = mapped
        /\ \A p \in Sessions \ {s} : expired'[p] = expired[p]
        /\ \A r \in Requests : request[r].stage # "idle" => SessionOf(r) # s
    BY <1>19 DEF Expire, Busy
  <2> QED BY <2>1, SessionType DEF SerialInv, OneTurnEach, SessionOf
<1> QED
  BY <1>faultless, <1>1, <1>2, <1>3, <1>4, <1>5, <1>6, <1>7, <1>8, <1>9, <1>10, <1>11, <1>13,
     <1>14, <1>15, <1>17, <1>18, <1>19 DEF Next, Step

\* So with one turn at a time, what a request has read of its row is never stale.
LEMMA SerialInvariant ==
    ASSUME Serial, MaxFaults = 0
    PROVE  Spec /\ []FewExpired => []SerialInv
<1>1. Init => SerialInv
  <2> SUFFICES ASSUME Init PROVE SerialInv
    OBVIOUS
  <2>1. \A r \in Requests : request[r].stage = "idle"
    BY DEF Init, Idle
  <2> QED BY <2>1 DEF SerialInv, OneTurnEach
<1> QED BY <1>1, SerialStep, TypeInvariant, PTL DEF Spec

\* A thread that somebody maps to, has to delete or is about to map to.
Kept(t) ==
    \/ \E s \in Sessions : mapped[s] = t
    \/ t \in Going
    \/ \E r \in Requests : request[r].next = t

\* Nothing is orphaned if and only if every thread with checkpoints is mapped or going.
LEMMA KeptThreads == NoOrphanThreads <=> \A t \in saved : Kept(t)
BY DEF NoOrphanThreads, Kept, Going

\* Every step keeps each thread with checkpoints mapped or on its way to deletion.
LEMMA OrphanStep ==
    ASSUME MaxFaults = 0
    PROVE  TypeInv /\ SerialInv /\ FewExpired /\ NoOrphanThreads /\ [Next]_vars => NoOrphanThreads'
<1> SUFFICES ASSUME TypeInv, SerialInv, FewExpired, NoOrphanThreads, [Next]_vars
             PROVE  NoOrphanThreads'
  OBVIOUS
<1> USE DEF rows, checkpoints, counters
<1>rows. /\ mapped \in [Sessions -> Threads \cup {NoThread}] /\ saved \subseteq Threads
         /\ doomed \in [Requests -> SUBSET Threads] /\ NoThread \notin Threads
  BY ThreadTypes DEF TypeInv, TypeOK
<1>faultless. /\ \A r \in Requests : ~RolloverRaises(r) /\ ~Abandon(r)
              /\ ~WorkerStops
  BY DEF TypeInv, TypeOK, RolloverRaises, Abandon, WorkerStops
<1>goal. (\A t \in saved' : Kept(t)') => NoOrphanThreads'
  BY DEF NoOrphanThreads, Kept, Going
\* No thread is saved but in its place, and what kept a thread still does, unless it is gone.
<1>kept. ASSUME \A t \in saved' : t \in saved \/ Kept(t)',
                \A s \in Sessions, t \in Threads : mapped[s] = t => mapped'[s] = t \/ Kept(t)',
                \A t \in Going : t \in Going' \/ t \notin saved',
                \A r \in Requests, t \in Threads :
                   request[r].next = t => request'[r].next = t \/ Kept(t)'
         PROVE  NoOrphanThreads'
  <2>1. ASSUME NEW t \in saved' PROVE Kept(t)'
    <3>1. CASE t \in saved
      <4>1. Kept(t) /\ t \in Threads
        BY <1>rows, <3>1, KeptThreads
      <4>2. CASE \E s \in Sessions : mapped[s] = t
        BY <1>kept, <4>1, <4>2 DEF Kept
      <4>3. CASE t \in Going
        BY <1>kept, <2>1, <4>3 DEF Kept
      <4>4. CASE \E r \in Requests : request[r].next = t
        BY <1>kept, <4>1, <4>4 DEF Kept
      <4> QED BY <4>1, <4>2, <4>3, <4>4 DEF Kept
    <3> QED BY <1>kept, <2>1, <3>1
  <2> QED BY <1>goal, <2>1
\* A step that moves on a request, without a new next thread to forget.
<1>on. ASSUME NEW r \in Requests, NEW q, Become(r, q),
              \A t \in Threads : request[r].next = t => q.next = t \/ Kept(t)',
              \A t \in saved' : t \in saved \/ Kept(t)',
              \A s \in Sessions, t \in Threads : mapped[s] = t => mapped'[s] = t \/ Kept(t)',
              \A t \in Going : t \in Going'
       PROVE  NoOrphanThreads'
  <2>1. \A c \in Requests : request'[c] = IF c = r THEN q ELSE request[c]
    BY <1>on DEF Become, TypeInv, TypeOK
  <2> QED BY <1>kept, <1>on, <2>1
\* Only a request with a rollover under way has a next thread.
<1>next. ASSUME NEW r \in Requests, request[r].stage \notin Rolling
         PROVE  request[r].next = NoThread /\ \A t \in Threads : request[r].next # t
  BY <1>next, <1>rows, Held1 DEF Held
<1>going. UNCHANGED <<doomed, cleaning>> => Going' = Going
  BY DEF Going
<1>now. ASSUME NEW r \in Requests, request[r].stage # "idle", NEW s, s = SessionOf(r)
        PROVE  s \in Sessions /\ request[r] \in RequestState /\ Follows(request[r], mapped[s], expired[s])
  BY <1>now, Held1, SessionType DEF SerialInv
<1>maps. ASSUME NEW s \in Sessions, NEW t, MapTo(s, t)
         PROVE  \A p \in Sessions : mapped'[p] = IF p = s THEN t ELSE mapped[p]
  BY <1>maps, <1>rows DEF MapTo
\* A request takes on what it has to delete only when it has deleted what it had.
<1>takes. ASSUME NEW r \in Requests, doomed[r] = {}, NEW D, doomed' = [doomed EXCEPT ![r] = D],
                 cleaning' = cleaning
          PROVE  (\A t \in Going : t \in Going') /\ (\A t \in D : t \in Going')
  <2>1. \A c \in Requests : doomed'[c] = IF c = r THEN D ELSE doomed[c]
    BY <1>takes, <1>rows
  <2> QED BY <1>takes, <2>1 DEF Going
<1>quiet. ASSUME NEW r \in Requests, NEW q, Become(r, q), request[r].stage \notin Rolling,
                 UNCHANGED <<mapped, saved, doomed, cleaning>>
          PROVE  NoOrphanThreads'
  BY <1>quiet, <1>on, <1>next, <1>going
<1>1. ASSUME NEW r \in Requests, NEW s \in Sessions, Begin(r, s) PROVE NoOrphanThreads'
  <2>1. \E q : Become(r, q)
    BY <1>1 DEF Begin
  <2> QED BY <1>1, <1>quiet, <2>1 DEF Begin, Rolling
<1>2. ASSUME NEW r \in Requests, ReadReplaced(r) \/ SelectMapping(r) \/ RefreshMapping(r)
                                 \/ ReadOldThread(r) \/ LoadThread(r) \/ CompleteTurn(r)
      PROVE  NoOrphanThreads'
  <2>1. UNCHANGED <<mapped, saved, doomed, cleaning>> /\ request[r].stage \notin Rolling
    BY <1>2 DEF ReadReplaced, SelectMapping, RefreshMapping, ReadOldThread, LoadThread,
                CompleteTurn, At, Rolling
  <2>2. \E q : Become(r, q)
    BY <1>2 DEF ReadReplaced, SelectMapping, RefreshMapping, ReadOldThread, LoadThread,
                CompleteTurn, UseThread
  <2> QED BY <1>quiet, <2>1, <2>2
<1>3. ASSUME NEW r \in Requests, ResetMapping(r) PROVE NoOrphanThreads'
  <2>1. PICK s \in Sessions : s = SessionOf(r) /\ mapped[s] \in {request[r].thread, NoThread}
    BY <1>3, <1>now DEF ResetMapping, At, Follows
  <2>2. PICK t : MapTo(s, t)
    BY <1>3, <2>1 DEF ResetMapping
  <2>3. /\ request[r].stage = "resetting" /\ doomed[r] = {} /\ UNCHANGED <<saved, cleaning>>
        /\ doomed' = [doomed EXCEPT ![r] = Replaced(r)] /\ \E q : Become(r, q)
    BY <1>3 DEF ResetMapping, At
  <2>4. (\A x \in Going : x \in Going') /\ \A x \in Replaced(r) : x \in Going'
    BY <1>takes, <2>3
  <2>5. \A x \in Threads : mapped[s] = x => Kept(x)'
    BY <1>rows, <2>1, <2>4 DEF Kept, Replaced
  <2> QED BY <1>on, <1>maps, <1>next, <2>2, <2>3, <2>4, <2>5 DEF Rolling
<1>4. ASSUME NEW r \in Requests, DeleteDoomed(r) PROVE NoOrphanThreads'
  <2>1. PICK t \in doomed[r] : DeleteThread(t) /\ doomed' = [doomed EXCEPT ![r] = @ \ {t}]
    BY <1>4 DEF DeleteDoomed
  <2>2. /\ \A c \in Requests : doomed'[c] = IF c = r THEN doomed[c] \ {t} ELSE doomed[c]
        /\ saved' = saved \ {t} /\ UNCHANGED <<mapped, request, cleaning>>
    BY <1>4, <1>rows, <2>1 DEF DeleteThread, DeleteDoomed
  <2>3. \A x \in Going : x \in Going' \/ x = t
    BY <2>2 DEF Going
  <2> QED BY <1>kept, <2>2, <2>3
\* Clean-up takes over the threads of the rows it drops.
<1>dropped. ASSUME NEW S \in Takings, Drop(S), \A s \in S : mapped[s] \in Going'
            PROVE  \A s \in Sessions, t \in Threads : mapped[s] = t => mapped'[s] = t \/ Kept(t)'
  BY <1>dropped DEF Drop, Kept
<1>5. ASSUME NEW r \in Requests, TakeExpiredFirst(r) PROVE NoOrphanThreads'
  <2>1. PICK S \in Takings : Drop(S) /\ doomed' = [doomed EXCEPT ![r] = {mapped[s] : s \in S}]
    BY <1>5 DEF TakeExpiredFirst
  <2>2. /\ request[r].stage = "starting" /\ doomed[r] = {} /\ UNCHANGED <<saved, cleaning>>
        /\ \E q : Become(r, q)
    BY <1>5 DEF TakeExpiredFirst, At, Goto
  <2>3. PICK D : D = {mapped[s] : s \in S}
    OBVIOUS
  <2>4. (\A x \in Going : x \in Going') /\ \A x \in D : x \in Going'
    BY <1>takes, <2>1, <2>2, <2>3
  <2>5. \A s \in S : mapped[s] \in Going'
    BY <2>3, <2>4
  <2> QED BY <1>on, <1>next, <1>dropped, <2>1, <2>2, <2>4, <2>5 DEF Rolling
<1>8. ASSUME NEW r \in Requests, CreateMapping(r) PROVE NoOrphanThreads'
  <2>1. PICK s \in Sessions : s = SessionOf(r) /\ (mapped[s] = NoThread \/ ~expired[s])
    BY <1>8, <1>now DEF CreateMapping, At, Follows
  <2>2. mapped' = mapped \/ (mapped[s] = NoThread /\ \E t : MapTo(s, t))
    BY <1>8, <2>1 DEF CreateMapping
  <2>3. \E q : Become(r, q)
    BY <1>8 DEF CreateMapping, UseThread
  <2>4. /\ request[r].stage \notin Rolling /\ UNCHANGED <<saved, doomed, cleaning>>
        /\ \A p \in Sessions, t \in Threads : mapped[p] = t => mapped'[p] = t
    BY <1>8, <1>rows, <1>maps, <2>2 DEF CreateMapping, At, Rolling
  <2> QED BY <1>on, <1>next, <1>going, <2>3, <2>4
<1>10. ASSUME NEW r \in Requests, SeedNextThread(r) PROVE NoOrphanThreads'
  <2>1. PICK q : q = [request[r] EXCEPT !.stage = "swapping"]
    OBVIOUS
  <2>2. Become(r, q) /\ UNCHANGED <<mapped, doomed, cleaning>> /\ q.next = request[r].next
    BY <1>10, <2>1, Held1 DEF SeedNextThread, Goto, RequestState
  <2>3. \A t \in saved' : t \in saved \/ t = request[r].next
    BY <1>10 DEF SeedNextThread, SaveThread
  <2>4. \A t : request[r].next = t => Kept(t)'
    <3>1. request'[r] = q
      BY <2>2 DEF Become, TypeInv, TypeOK
    <3> QED BY <2>2, <3>1 DEF Kept
  <2>5. \A t \in saved' : t \in saved \/ Kept(t)'
    BY <2>3, <2>4
  <2> QED BY <1>on, <1>going, <2>2, <2>4, <2>5
<1>11. ASSUME NEW r \in Requests, SwapMapping(r) PROVE NoOrphanThreads'
  <2>1. request[r].stage = "swapping" /\ doomed[r] = {} /\ UNCHANGED <<saved, cleaning>>
    BY <1>11 DEF SwapMapping, At
  <2>2. PICK s \in Sessions : s = SessionOf(r) /\ mapped[s] = request[r].thread
    BY <1>now, <2>1 DEF Follows, OnThread, Rolling
  <2>3. /\ MapTo(s, request[r].next) /\ doomed' = [doomed EXCEPT ![r] = {request[r].thread}]
        /\ \E q : Become(r, q)
    BY <1>11, <2>2 DEF SwapMapping, StillOn
  <2>4. (\A x \in Going : x \in Going') /\ request[r].thread \in Going'
    BY <1>takes, <2>1, <2>3
  <2>5. /\ \A t : request[r].next = t => Kept(t)'
        /\ \A p \in Sessions, t \in Threads : mapped[p] = t => mapped'[p] = t \/ Kept(t)'
    BY <1>maps, <2>2, <2>3, <2>4 DEF Kept
  <2> QED BY <1>on, <2>1, <2>3, <2>4, <2>5
<1>14. ASSUME NEW r \in Requests, SaveCheckpoint(r) PROVE NoOrphanThreads'
  <2>1. request[r].stage \in Settled /\ UNCHANGED <<mapped, doomed, cleaning>> /\ \E q : Become(r, q)
    BY <1>14 DEF SaveCheckpoint, Goto, Settled
  <2>2. PICK s \in Sessions : mapped[s] = request[r].thread
    BY <1>now, <2>1 DEF Follows, OnThread, Settled
  <2>3. \A t \in saved' : t \in saved \/ t = mapped'[s]
    BY <1>14, <2>1, <2>2 DEF SaveCheckpoint, SaveThread
  <2>4. \A t \in saved' : t \in saved \/ Kept(t)'
    BY <2>3 DEF Kept
  <2>5. \A t \in Threads : request[r].next # t
    BY <1>next, <2>1 DEF Settled, Rolling
  <2> QED BY <1>on, <1>going, <2>1, <2>4, <2>5
<1>17. CASE CleanUp
  <2>1. PICK S \in Takings : Drop(S) /\ cleaning' = {mapped[s] : s \in S}
    BY <1>17 DEF CleanUp
  <2>2. cleaning = {} /\ UNCHANGED <<saved, request, doomed>>
    BY <1>17 DEF CleanUp
  <2>3. (\A x \in Going : x \in Going') /\ \A s \in S : mapped[s] \in Going'
    BY <2>1, <2>2 DEF Going
  <2> QED BY <1>kept, <1>dropped, <2>1, <2>2, <2>3
<1>18. CASE DeleteCleaned
  <2>1. PICK t \in cleaning : DeleteThread(t) /\ cleaning' = cleaning \ {t}
    BY <1>18 DEF DeleteCleaned
  <2>2. saved' = saved \ {t} /\ UNCHANGED <<mapped, request, doomed>>
    BY <1>18, <2>1 DEF DeleteThread, DeleteCleaned
  <2>3. \A x \in Going : x \in Going' \/ x = t
    BY <2>1, <2>2 DEF Going
  <2> QED BY <1>kept, <2>2, <2>3
<1>19. CASE UNCHANGED vars \/ \E s \in Sessions : Expire(s)
  <2>1. UNCHANGED <<saved, mapped, request, doomed, cleaning>>
    BY <1>19 DEF vars, Expire
  <2> QED BY <1>kept, <1>going, <2>1
<1> QED
  BY <1>faultless, <1>1, <1>2, <1>3, <1>4, <1>5, <1>8, <1>10, <1>11, <1>14, <1>17, <1>18, <1>19
     DEF Next, Step

\* So no thread with checkpoints is ever left behind.
LEMMA OrphanInvariant ==
    ASSUME Serial, MaxFaults = 0
    PROVE  Spec /\ []FewExpired => []NoOrphanThreads
<1>1. Init => NoOrphanThreads
  BY DEF Init, NoOrphanThreads
<1> QED BY <1>1, OrphanStep, SerialInvariant, TypeInvariant, PTL DEF Spec

\* A session expires by no step but its expiry.
LEMMA ExpiredStep ==
    TypeInv /\ [Next]_vars =>
       \/ ExpiredSessions' \subseteq ExpiredSessions /\ expiries' = expiries
       \/ \E s \in Sessions : Expire(s)
<1> SUFFICES ASSUME TypeInv, [Next]_vars
             PROVE  \/ ExpiredSessions' \subseteq ExpiredSessions /\ expiries' = expiries
                    \/ \E s \in Sessions : Expire(s)
  OBVIOUS
<1> USE DEF rows, checkpoints, counters
<1>rows. mapped \in [Sessions -> Threads \cup {NoThread}] /\ expired \in [Sessions -> BOOLEAN]
  BY DEF TypeInv, TypeOK
<1>maps. ASSUME NEW s, NEW t, MapTo(s, t) PROVE ExpiredSessions' \subseteq ExpiredSessions
  BY <1>maps, <1>rows DEF MapTo, ExpiredSessions
<1>drops. ASSUME NEW S, Drop(S) PROVE ExpiredSessions' \subseteq ExpiredSessions
  BY <1>drops DEF Drop, ExpiredSessions
<1>1. ASSUME NEW r \in Requests, RefreshMapping(r) \/ CompleteTurn(r)
      PROVE  ExpiredSessions' \subseteq ExpiredSessions
  <2>1. mapped' = mapped /\ \/ expired' = expired
                            \/ expired' = [expired EXCEPT ![SessionOf(r)] = FALSE]
    BY <1>1 DEF RefreshMapping, CompleteTurn
  <2> QED BY <1>rows, <2>1 DEF ExpiredSessions
<1>2. /\ UNCHANGED <<mapped, expired>> => ExpiredSessions' \subseteq ExpiredSessions
      /\ UNCHANGED vars => UNCHANGED <<mapped, expired, expiries>>
  BY DEF ExpiredSessions, vars
<1>3. \/ /\ expiries' = expiries
         /\ \/ UNCHANGED <<mapped, expired>> \/ (\E s, t : MapTo(s, t)) \/ \E S : Drop(S)
            \/ \E r \in Requests : RefreshMapping(r) \/ CompleteTurn(r)
      \/ \E s \in Sessions : Expire(s)
  BY <1>2 DEF Next, Step, Begin, ReadReplaced, ResetMapping, DeleteDoomed, TakeExpiredFirst,
         SelectMapping, RefreshMapping, CreateMapping, ReadOldThread, SeedNextThread, SwapMapping,
         RolloverRaises, LoadThread, SaveCheckpoint, CompleteTurn, Abandon, CleanUp,
         DeleteCleaned, WorkerStops
<1> QED BY <1>maps, <1>drops, <1>1, <1>2, <1>3

\* As many sessions have expired as there were expiries, at most.
Counted == IsFiniteSet(ExpiredSessions) /\ Cardinality(ExpiredSessions) <= expiries

\* No more sessions have expired than there were expiries.
LEMMA ExpiriesCounted == Spec => []Counted
<1>1. Init => Counted
  <2> SUFFICES ASSUME Init PROVE Counted
    OBVIOUS
  <2>1. ExpiredSessions = {} /\ expiries = 0
    BY DEF Init, ExpiredSessions
  <2> QED BY <2>1, FS_EmptySet DEF Counted
<1>2. TypeInv /\ Counted /\ [Next]_vars => Counted'
  <2> SUFFICES ASSUME TypeInv, Counted, [Next]_vars PROVE Counted'
    OBVIOUS
  <2>rows. /\ mapped \in [Sessions -> Threads \cup {NoThread}] /\ expired \in [Sessions -> BOOLEAN]
           /\ expiries \in Nat
    BY BoundsAssumption DEF TypeInv, TypeOK
  <2>1. CASE ExpiredSessions' \subseteq ExpiredSessions /\ expiries' = expiries
    <3>1. ASSUME NEW T \in SUBSET ExpiredSessions
          PROVE  IsFiniteSet(T) /\ Cardinality(T) <= expiries
      <4>1. /\ IsFiniteSet(T) /\ Cardinality(T) <= Cardinality(ExpiredSessions)
            /\ Cardinality(T) \in Nat /\ Cardinality(ExpiredSessions) \in Nat
        BY FS_Subset, FS_CardinalityType DEF Counted
      <4> QED BY <2>rows, <4>1 DEF Counted
    <3> QED BY <2>1, <3>1 DEF Counted
  <2>2. ASSUME NEW s \in Sessions, Expire(s) PROVE Counted'
    <3>1. ExpiredSessions' \subseteq ExpiredSessions \cup {s} /\ expiries' = expiries + 1
      BY <2>2, <2>rows DEF Expire, ExpiredSessions
    <3>2. /\ IsFiniteSet(ExpiredSessions \cup {s})
          /\ Cardinality(ExpiredSessions \cup {s}) <= Cardinality(ExpiredSessions) + 1
      BY FS_AddElement, FS_CardinalityType DEF Counted
    <3>3. IsFiniteSet(ExpiredSessions') /\ Cardinality(ExpiredSessions') <= Cardinality(ExpiredSessions \cup {s})
      BY <3>1, <3>2, FS_Subset
    <3> QED BY <2>rows, <3>1, <3>2, <3>3, FS_CardinalityType DEF Counted
  <2> QED BY <2>1, <2>2, ExpiredStep
<1> QED BY <1>1, <1>2, TypeInvariant, PTL DEF Spec

\* The bound on expiries therefore bounds the sessions that a clean-up has to take.
LEMMA FewFromBound ==
    ASSUME MaxExpiries <= TakeLimit, TypeInv, Counted
    PROVE  FewExpired
<1>1. expiries \in Nat /\ expiries <= MaxExpiries /\ Cardinality(ExpiredSessions) \in Nat
  BY BoundsAssumption, FS_CardinalityType DEF TypeInv, TypeOK, Counted
<1> QED BY <1>1, BoundsAssumption DEF FewExpired, Counted

\* No reset, rollover or expiry leaves a thread with checkpoints that nothing will ever delete,
\* for clients that run one turn at a time and without faults, as long as no more sessions
\* wait for their clean-up than one clean-up takes: get_or_create_checkpoint_session replaces
\* an expired row without deleting the thread it named, so the clean-up must have come first.
THEOREM NoOrphanThreadsCorrect ==
    ASSUME Serial, MaxFaults = 0
    PROVE  Spec /\ []FewExpired => []NoOrphanThreads
BY OrphanInvariant

\* In particular if sessions expire at most as often as one clean-up takes.
COROLLARY NoOrphanThreadsBounded ==
    ASSUME Serial, MaxFaults = 0, MaxExpiries <= TakeLimit
    PROVE  Spec => []NoOrphanThreads
<1>1. TypeInv /\ Counted => FewExpired
  BY FewFromBound
<1> QED BY <1>1, ExpiriesCounted, OrphanInvariant, TypeInvariant, PTL

-----------------------------------------------------------------------------
(* What a session remembers. *)

\* What request q carries, against what the threads hold: a thread may be deleted under it,
\* but nobody else writes to it, and its turn is nowhere before it has saved it.
Carries(q, hold, n) ==
    /\ q.stage \in {"seeding", "swapping", "running"} => hold[q.thread] \in {q.base, {}}
    /\ q.stage = "saved" => hold[q.thread] \in {q.base \cup {q.turn}, {}}
    /\ q.stage = "seeding" => hold[q.next] = {}
    /\ q.stage = "swapping" => hold[q.next] = q.base
    /\ q.stage # "saved" => q.turn \notin q.base /\ \A t \in Threads : q.turn \notin hold[t]
    /\ \A x \in q.base \cup {q.turn} : x[2] <= n

\* Only threads with checkpoints hold turns, no turn is yet to come, and what requests carry is true.
MemoryInv ==
    /\ \A t \in Threads \ saved : memory[t] = {}
    /\ \A t \in Threads : \A x \in memory[t] : x[2] <= turns
    /\ \A r \in Requests : request[r].stage # "idle" => Carries(request[r], memory, turns)

\* A thread is deleted that nobody is about to map to, or one of the sessions of W writes to it.
Touched(t, W) ==
    \/ memory'[t] = memory[t]
    \/ memory'[t] = {} /\ \A c \in Requests : request[c].next # t
    \/ \E s \in W : Knows(s, t) /\ \A x \in memory'[t] : x[1] = s /\ x[2] <= turns'

\* A step on the threads of the sessions in W leaves what requests of other sessions carry true.
LEMMA OthersCarry ==
    ASSUME TypeInv, IsolationInv, MemoryInv, NEW W \in SUBSET Sessions, turns' \in Nat, turns <= turns',
           \A t \in Threads : Touched(t, W),
           NEW c \in Requests, request[c].stage # "idle", SessionOf(c) \notin W
    PROVE  Carries(request[c], memory', turns')
<1>1. PICK p \in Sessions : p = SessionOf(c)
  BY SessionType
<1>2. PICK q : q = request[c] /\ q.turn[1] = p /\ q.turn \in Turns /\ q.base \in SUBSET Turns
  BY <1>1, SessionType, Held1 DEF SessionOf, RequestState
<1>3. Carries(q, memory, turns)
  BY <1>2 DEF MemoryInv
\* Nothing is written to what it holds.
<1>4. ASSUME NEW t \in Threads, t \in {q.thread, q.next}
      PROVE  memory'[t] = memory[t] \/ (memory'[t] = {} /\ \A d \in Requests : request[d].next # t)
  <2>1. Knows(p, t)
    BY <1>1, <1>2, <1>4 DEF Knows
  <2>2. \A s \in W : ~Knows(s, t)
    BY <1>1, <2>1 DEF IsolationInv
  <2> QED BY <2>2 DEF Touched
<1>5. ASSUME NEW t \in Threads, q.turn \notin memory[t] PROVE q.turn \notin memory'[t]
  <2>1. \A s \in W : s # p
    BY <1>1
  <2> QED BY <1>2, <1>5, <2>1 DEF Touched
<1>6. turns \in Nat /\ \A x \in Turns : x[2] \in Nat
  BY BoundsAssumption DEF Turns, TypeInv, TypeOK
<1>7. \A x \in q.base \cup {q.turn} : x[2] <= turns'
  BY <1>2, <1>3, <1>6 DEF Carries
<1>8. /\ q.stage \in OnThread => q.thread \in Threads
      /\ q.stage \in Rolling => q.next \in Threads
  BY <1>2, Held1, ThreadTypes DEF Held, TypeInv, TypeOK
<1>9. /\ q.stage \in {"seeding", "swapping", "running"} => memory'[q.thread] \in {q.base, {}}
      /\ q.stage = "saved" => memory'[q.thread] \in {q.base \cup {q.turn}, {}}
  BY <1>3, <1>4, <1>8 DEF Carries, OnThread, Rolling, Settled
<1>10. q.stage \in Rolling => memory'[q.next] = memory[q.next]
  BY <1>2, <1>4, <1>8
<1>11. /\ q.stage = "seeding" => memory'[q.next] = {}
       /\ q.stage = "swapping" => memory'[q.next] = q.base
  BY <1>3, <1>10 DEF Carries, OnThread, Rolling
<1>12. q.stage # "saved" => q.turn \notin q.base /\ \A t \in Threads : q.turn \notin memory'[t]
  BY <1>3, <1>5 DEF Carries
<1> QED BY <1>2, <1>7, <1>9, <1>11, <1>12 DEF Carries

\* To keep MemoryInv, a step need only account for the requests of the sessions it acts for.
LEMMA MemoryKept ==
    ASSUME TypeInv, IsolationInv, MemoryInv, NEW W \in SUBSET Sessions, turns' \in Nat, turns <= turns',
           \A t \in Threads : Touched(t, W),
           \A t \in Threads \ saved' : memory'[t] = {},
           \A c \in Requests : request'[c].stage # "idle" =>
              \/ Carries(request'[c], memory', turns')
              \/ request'[c] = request[c] /\ SessionOf(c) \notin W
    PROVE  MemoryInv'
<1>1. ASSUME NEW c \in Requests, request'[c].stage # "idle"
      PROVE  Carries(request'[c], memory', turns')
  BY <1>1, OthersCarry
<1>2. turns \in Nat /\ \A t \in Threads : \A x \in memory[t] : x[2] \in Nat
  BY BoundsAssumption DEF Turns, TypeInv, TypeOK
<1>3. ASSUME NEW t \in Threads, NEW x \in memory'[t] PROVE x[2] <= turns'
  <2>1. CASE x \in memory[t]
    BY <1>2, <2>1 DEF MemoryInv
  <2> QED BY <1>3, <2>1 DEF Touched
<1> QED BY <1>1, <1>3 DEF MemoryInv

\* Every step keeps what requests carry true of what the threads hold.
LEMMA MemoryStep ==
    ASSUME MaxFaults = 0
    PROVE  TypeInv /\ IsolationInv /\ DeletionInv /\ SerialInv /\ MemoryInv /\ [Next]_vars => MemoryInv'
<1> SUFFICES ASSUME TypeInv, IsolationInv, DeletionInv, SerialInv, MemoryInv, [Next]_vars
             PROVE  MemoryInv'
  OBVIOUS
<1> USE DEF rows, checkpoints, counters
<1>rows. /\ memory \in [Threads -> SUBSET Turns] /\ saved \subseteq Threads
         /\ doomed \in [Requests -> SUBSET Threads] /\ cleaning \subseteq Threads /\ turns \in Nat
  BY BoundsAssumption DEF TypeInv, TypeOK
<1>faultless. /\ \A r \in Requests : ~RolloverRaises(r) /\ ~Abandon(r)
              /\ ~WorkerStops
  BY DEF TypeInv, TypeOK, RolloverRaises, Abandon, WorkerStops
<1>numbers. turns <= turns /\ \A x \in Turns : x[2] \in Nat
  BY <1>rows DEF Turns
<1>still. memory' = memory => \A t \in Threads : Touched(t, {})
  BY DEF Touched
\* Request r, the only one of its session, becomes q.
<1>become. ASSUME NEW r \in Requests, NEW q, Become(r, q), NEW W \in SUBSET Sessions,
                  \A c \in Requests \ {r} : request[c].stage # "idle" => SessionOf(c) \notin W,
                  turns' \in Nat, turns <= turns', \A t \in Threads : Touched(t, W),
                  \A t \in Threads \ saved' : memory'[t] = {},
                  q.stage # "idle" => Carries(q, memory', turns')
           PROVE  MemoryInv'
  <2>1. \A c \in Requests : request'[c] = IF c = r THEN q ELSE request[c]
    BY <1>become DEF Become, TypeInv, TypeOK
  <2>2. \A c \in Requests : request'[c].stage # "idle" =>
           \/ Carries(request'[c], memory', turns')
           \/ request'[c] = request[c] /\ SessionOf(c) \notin W
    BY <1>become, <2>1
  <2> QED BY <1>become, <2>2, MemoryKept
<1>unsaved. UNCHANGED <<saved, memory>> => \A t \in Threads \ saved' : memory'[t] = {}
  BY DEF MemoryInv
\* Steps that touch no thread.
<1>quiet. ASSUME NEW r \in Requests, NEW q, Become(r, q), UNCHANGED <<saved, memory, turns>>,
                 q.stage # "idle" => Carries(q, memory, turns)
          PROVE  MemoryInv'
  BY <1>quiet, <1>become, <1>rows, <1>numbers, <1>still, <1>unsaved
<1>now. ASSUME NEW r \in Requests, request[r].stage # "idle"
        PROVE  /\ request[r] \in RequestState /\ Carries(request[r], memory, turns)
               /\ request[r].turn \in Turns /\ SessionOf(r) \in Sessions
               /\ \A c \in Requests \ {r} : request[c].stage # "idle" => SessionOf(c) # SessionOf(r)
  BY <1>now, Held1, SessionType DEF MemoryInv, SerialInv, OneTurnEach
\* Among them, those that neither read a thread nor have saved the turn.
<1>plain. ASSUME NEW r \in Requests, NEW q, Become(r, q), UNCHANGED <<saved, memory, turns>>,
                 request[r].stage \notin {"idle", "saved"},
                 q.turn = request[r].turn, q.base = request[r].base,
                 q.stage \notin Rolling \cup {"running", "saved"}
          PROVE  MemoryInv'
  <2>1. Carries(q, memory, turns)
    BY <1>plain, <1>now DEF Carries, Rolling
  <2> QED BY <1>plain, <1>quiet, <2>1
<1>1. ASSUME NEW r \in Requests, NEW s \in Sessions, Begin(r, s) PROVE MemoryInv'
  <2>1. PICK stage \in {"editing", "starting"} :
           Become(r, [Idle EXCEPT !.stage = stage, !.turn = <<s, turns + 1>>])
    BY <1>1 DEF Begin
  <2>2. PICK q : q = [Idle EXCEPT !.stage = stage, !.turn = <<s, turns + 1>>]
    OBVIOUS
  <2>3. q.stage = stage /\ q.turn = <<s, turns + 1>> /\ q.base = {} /\ Become(r, q)
    BY <2>1, <2>2 DEF Idle
  <2>4. UNCHANGED <<saved, memory>> /\ turns' = turns + 1
    BY <1>1 DEF Begin
  <2>5. ASSUME NEW t \in Threads PROVE q.turn \notin memory[t]
    <3>1. q.turn[2] = turns + 1
      BY <2>3
    <3>2. \A x \in memory[t] : x[2] <= turns
      BY DEF MemoryInv
    <3> QED BY <1>rows, <3>1, <3>2
  <2>6. Carries(q, memory', turns')
    BY <1>rows, <2>3, <2>4, <2>5 DEF Carries
  <2>7. turns' \in Nat /\ turns <= turns'
    BY <1>rows, <2>4
  <2> QED BY <1>become, <1>still, <1>unsaved, <2>3, <2>4, <2>6, <2>7
<1>2. ASSUME NEW r \in Requests, ReadReplaced(r) PROVE MemoryInv'
  <2>1. PICK q : q = [request[r] EXCEPT !.stage = "resetting", !.thread = mapped[SessionOf(r)]]
    OBVIOUS
  <2>2. request[r].stage = "editing" /\ Become(r, q) /\ UNCHANGED <<saved, memory, turns>>
    BY <1>2, <2>1 DEF ReadReplaced, At
  <2>3. q.turn = request[r].turn /\ q.base = request[r].base /\ q.stage = "resetting"
    BY <1>now, <2>1, <2>2 DEF RequestState
  <2> QED BY <1>plain, <2>2, <2>3 DEF Rolling
<1>3. ASSUME NEW r \in Requests, ResetMapping(r) PROVE MemoryInv'
  <2>1. PICK q : q = [request[r] EXCEPT !.stage = "starting", !.thread = NoThread]
    OBVIOUS
  <2>2. request[r].stage = "resetting" /\ Become(r, q) /\ UNCHANGED <<saved, memory, turns>>
    BY <1>3, <2>1 DEF ResetMapping, At
  <2>3. q.turn = request[r].turn /\ q.base = request[r].base /\ q.stage = "starting"
    BY <1>now, <2>1, <2>2 DEF RequestState
  <2> QED BY <1>plain, <2>2, <2>3 DEF Rolling
\* A thread that is deleted is not one somebody is about to map to.
<1>gone. ASSUME NEW t \in Going, t \in Threads, DeleteThread(t), UNCHANGED <<request, turns>>
         PROVE  MemoryInv'
  <2>1. \A c \in Requests : request[c].next # t
    BY <1>gone, NextTypes, ThreadTypes DEF DeletionInv
  <2>2. \A x \in Threads : Touched(x, {})
    BY <1>gone, <1>rows, <2>1 DEF DeleteThread, Touched
  <2>3. \A x \in Threads \ saved' : memory'[x] = {}
    BY <1>gone, <1>rows DEF DeleteThread, MemoryInv
  <2> QED BY <1>gone, <1>rows, <1>numbers, <2>2, <2>3, MemoryKept
<1>4. ASSUME NEW r \in Requests, DeleteDoomed(r) PROVE MemoryInv'
  BY <1>4, <1>gone, <1>rows DEF DeleteDoomed, Going
<1>5. ASSUME NEW r \in Requests, TakeExpiredFirst(r) PROVE MemoryInv'
  <2>1. PICK q : q = [request[r] EXCEPT !.stage = "selecting"]
    OBVIOUS
  <2>2. request[r].stage = "starting" /\ Become(r, q) /\ UNCHANGED <<saved, memory, turns>>
    BY <1>5, <2>1 DEF TakeExpiredFirst, At, Goto
  <2>3. q.turn = request[r].turn /\ q.base = request[r].base /\ q.stage = "selecting"
    BY <1>now, <2>1, <2>2 DEF RequestState
  <2> QED BY <1>plain, <2>2, <2>3 DEF Rolling
<1>6. ASSUME NEW r \in Requests, SelectMapping(r) PROVE MemoryInv'
  <2>1. PICK stage \in {"refreshing", "creating"} :
           Become(r, [request[r] EXCEPT !.stage = stage, !.thread = mapped[SessionOf(r)],
                                        !.count = turnCount[SessionOf(r)]])
    BY <1>6 DEF SelectMapping
  <2>2. PICK q : q = [request[r] EXCEPT !.stage = stage, !.thread = mapped[SessionOf(r)],
                                        !.count = turnCount[SessionOf(r)]]
    OBVIOUS
  <2>3. request[r].stage = "selecting" /\ Become(r, q) /\ UNCHANGED <<saved, memory, turns>>
    BY <1>6, <2>1, <2>2 DEF SelectMapping, At
  <2>4. q.turn = request[r].turn /\ q.base = request[r].base /\ q.stage = stage
    BY <1>now, <2>2, <2>3 DEF RequestState
  <2> QED BY <1>plain, <2>3, <2>4 DEF Rolling
<1>7. ASSUME NEW r \in Requests, RefreshMapping(r) \/ CreateMapping(r) PROVE MemoryInv'
  <2>1. /\ request[r].stage \in {"refreshing", "creating"} /\ UNCHANGED <<saved, memory, turns>>
        /\ \E t, n : UseThread(r, t, n)
    BY <1>7 DEF RefreshMapping, CreateMapping, At
  <2>2. PICK t, n : UseThread(r, t, n)
    BY <2>1
  <2>3. PICK stage \in {"rolling", "ready"} :
           Become(r, [request[r] EXCEPT !.stage = stage, !.thread = t, !.count = n])
    BY <2>2 DEF UseThread
  <2>4. PICK q : q = [request[r] EXCEPT !.stage = stage, !.thread = t, !.count = n]
    OBVIOUS
  <2>5. q.turn = request[r].turn /\ q.base = request[r].base /\ q.stage = stage /\ Become(r, q)
    BY <1>now, <2>1, <2>3, <2>4 DEF RequestState
  <2> QED BY <1>plain, <2>1, <2>5 DEF Rolling
<1>9. ASSUME NEW r \in Requests, ReadOldThread(r) PROVE MemoryInv'
  <2>1. PICK t \in Uuids \ usedUuids :
           Become(r, [request[r] EXCEPT !.stage = "seeding", !.next = t,
                                        !.base = memory[request[r].thread]])
    BY <1>9 DEF ReadOldThread
  <2>2. PICK q : q = [request[r] EXCEPT !.stage = "seeding", !.next = t,
                                        !.base = memory[request[r].thread]]
    OBVIOUS
  <2>3. request[r].stage = "rolling" /\ Become(r, q) /\ UNCHANGED <<saved, memory, turns>>
    BY <1>9, <2>1, <2>2 DEF ReadOldThread, At
  <2>4. /\ q.turn = request[r].turn /\ q.thread = request[r].thread /\ q.stage = "seeding"
        /\ q.next = t /\ q.base = memory[q.thread] /\ q.thread \in Threads
    BY <1>now, <2>2, <2>3, Held1 DEF RequestState, Held, OnThread
  <2>5. memory[t] = {}
    BY DEF IsolationInv
  <2>6. Carries(q, memory, turns)
    BY <1>now, <2>3, <2>4, <2>5 DEF Carries, MemoryInv
  <2> QED BY <1>quiet, <2>3, <2>6
<1>10. ASSUME NEW r \in Requests, SeedNextThread(r) PROVE MemoryInv'
  <2>1. PICK q : q = [request[r] EXCEPT !.stage = "swapping"]
    OBVIOUS
  <2>2. request[r].stage = "seeding" /\ Become(r, q) /\ turns' = turns
    BY <1>10, <2>1 DEF SeedNextThread, At, Goto
  <2>3. /\ q.turn = request[r].turn /\ q.base = request[r].base /\ q.stage = "swapping"
        /\ q.thread = request[r].thread /\ q.next = request[r].next
    BY <1>now, <2>1, <2>2 DEF RequestState
  <2>4. /\ q.next \in Threads /\ q.thread \in Threads /\ q.next # q.thread
        /\ Knows(SessionOf(r), q.next)
    BY <2>2, <2>3, Held1, ThreadTypes
       DEF Held, Rolling, OnThread, TypeInv, TypeOK, DeletionInv, Knows
  <2>5. /\ memory[q.thread] \in {q.base, {}} /\ memory[q.next] = {}
        /\ q.turn \notin q.base /\ \A x \in q.base \cup {q.turn} : x[2] <= turns
        /\ \A t \in Threads : q.turn \notin memory[t]
    BY <1>now, <2>2, <2>3 DEF Carries
  <2>6. CASE q.base # {}
    <3>1. /\ saved' = saved \cup {q.next}
          /\ \A t \in Threads : memory'[t] = IF t = q.next THEN q.base ELSE memory[t]
      BY <1>10, <1>rows, <2>3, <2>6 DEF SeedNextThread, SaveThread, SeedFrom
    <3>2. Carries(q, memory', turns')
      BY <2>2, <2>3, <2>4, <2>5, <3>1 DEF Carries
    <3>3. \A x \in q.base : x[1] = SessionOf(r) /\ x[2] <= turns'
      BY <2>2, <2>3, <2>5 DEF IsolationInv
    <3>4. \A t \in Threads : Touched(t, {SessionOf(r)})
      BY <2>4, <3>1, <3>3 DEF Touched
    <3>5. \A t \in Threads \ saved' : memory'[t] = {}
      BY <3>1 DEF MemoryInv
    <3>6. /\ {SessionOf(r)} \in SUBSET Sessions /\ turns' \in Nat /\ turns <= turns'
          /\ \A c \in Requests \ {r} : request[c].stage # "idle" => SessionOf(c) \notin {SessionOf(r)}
      BY <1>now, <1>rows, <1>numbers, <2>2
    <3> QED BY <1>become, <2>2, <3>2, <3>4, <3>5, <3>6
  <2>7. CASE q.base = {}
    <3>1. UNCHANGED <<saved, memory>>
      BY <1>10, <2>3, <2>7 DEF SeedNextThread
    <3>2. Carries(q, memory, turns)
      BY <2>3, <2>5, <2>7 DEF Carries
    <3> QED BY <1>quiet, <2>2, <3>1, <3>2
  <2> QED BY <2>6, <2>7
<1>11. ASSUME NEW r \in Requests, SwapMapping(r) PROVE MemoryInv'
  <2>1. request[r].stage = "swapping" /\ UNCHANGED <<saved, memory, turns>>
    BY <1>11 DEF SwapMapping, At
  <2>2. PICK q : /\ Become(r, q)
                 /\ \/ q = [request[r] EXCEPT !.stage = "ready", !.thread = request[r].next,
                                              !.next = NoThread]
                    \/ q = [request[r] EXCEPT !.stage = "selecting", !.next = NoThread,
                                              !.rolled = TRUE]
    BY <1>11 DEF SwapMapping
  <2>3. q.turn = request[r].turn /\ q.base = request[r].base /\ q.stage \in {"ready", "selecting"}
    BY <1>now, <2>1, <2>2 DEF RequestState
  <2> QED BY <1>plain, <2>1, <2>2, <2>3 DEF Rolling
<1>13. ASSUME NEW r \in Requests, LoadThread(r) PROVE MemoryInv'
  <2>1. PICK q : q = [request[r] EXCEPT !.stage = "running", !.base = memory[request[r].thread]]
    OBVIOUS
  <2>2. request[r].stage = "ready" /\ Become(r, q) /\ UNCHANGED <<saved, memory, turns>>
    BY <1>13, <2>1 DEF LoadThread, At
  <2>3. /\ q.turn = request[r].turn /\ q.thread = request[r].thread /\ q.stage = "running"
        /\ q.base = memory[q.thread] /\ q.thread \in Threads
    BY <1>now, <2>1, <2>2, Held1 DEF RequestState, Held, OnThread, Settled
  <2>4. Carries(q, memory, turns)
    BY <1>now, <2>2, <2>3 DEF Carries, MemoryInv
  <2> QED BY <1>quiet, <2>2, <2>4
<1>14. ASSUME NEW r \in Requests, SaveCheckpoint(r) PROVE MemoryInv'
  <2>1. PICK q : q = [request[r] EXCEPT !.stage = "saved"]
    OBVIOUS
  <2>2. request[r].stage \in {"running", "saved"} /\ Become(r, q) /\ turns' = turns
    BY <1>14, <2>1 DEF SaveCheckpoint, Goto
  <2>3. /\ q.turn = request[r].turn /\ q.base = request[r].base /\ q.stage = "saved"
        /\ q.thread = request[r].thread
    BY <1>now, <2>1, <2>2 DEF RequestState
  <2>4. q.thread \in Threads /\ Knows(SessionOf(r), q.thread)
    BY <2>2, <2>3, Held1 DEF Held, OnThread, Settled, Knows
  <2>5. /\ saved' = saved \cup {q.thread}
        /\ \A t \in Threads : memory'[t] = IF t = q.thread THEN q.base \cup {q.turn} ELSE memory[t]
    BY <1>14, <1>rows, <2>3 DEF SaveCheckpoint, SaveThread
  <2>6. \A x \in q.base \cup {q.turn} : x[1] = SessionOf(r) /\ x[2] <= turns'
    BY <1>now, <2>2, <2>3 DEF Carries, IsolationInv, SessionOf
  <2>7. Carries(q, memory', turns')
    BY <2>3, <2>4, <2>5, <2>6 DEF Carries
  <2>8. \A t \in Threads : Touched(t, {SessionOf(r)})
    BY <2>4, <2>5, <2>6 DEF Touched
  <2>9. \A t \in Threads \ saved' : memory'[t] = {}
    BY <2>5 DEF MemoryInv
  <2> QED BY <1>become, <1>now, <1>rows, <1>numbers, <2>2, <2>7, <2>8, <2>9
<1>15. ASSUME NEW r \in Requests, CompleteTurn(r) PROVE MemoryInv'
  <2>1. PICK q : q = Idle
    OBVIOUS
  <2>2. q.stage = "idle" /\ Become(r, q) /\ UNCHANGED <<saved, memory, turns>>
    BY <1>15, <2>1 DEF CompleteTurn, Idle
  <2> QED BY <1>quiet, <2>2
<1>17. CASE DeleteCleaned
  BY <1>17, <1>gone, <1>rows DEF DeleteCleaned, Going
<1>18. CASE CleanUp \/ UNCHANGED vars \/ \E s \in Sessions : Expire(s)
  <2>1. UNCHANGED <<saved, memory, request, turns>>
    BY <1>18 DEF CleanUp, vars, Expire
  <2> QED BY <2>1 DEF MemoryInv
<1> QED
  BY <1>faultless, <1>1, <1>2, <1>3, <1>4, <1>5, <1>6, <1>7, <1>9, <1>10, <1>11, <1>13, <1>14,
     <1>15, <1>17, <1>18 DEF Next, Step

\* So what a request has loaded is still what its thread holds, unless that was deleted under it.
LEMMA MemoryInvariant ==
    ASSUME Serial, MaxFaults = 0
    PROVE  Spec /\ []FewExpired => []MemoryInv
<1>1. Init => MemoryInv
  <2> SUFFICES ASSUME Init PROVE MemoryInv
    OBVIOUS
  <2>1. \A r \in Requests : request[r].stage = "idle"
    BY DEF Init, Idle
  <2>2. \A t \in Threads : memory[t] = {}
    BY DEF Init
  <2> QED BY <2>1, <2>2 DEF MemoryInv
<1> QED
  BY <1>1, MemoryStep, SerialInvariant, DeletionInvariant, IsolationInvariant, TypeInvariant, PTL
     DEF Spec

-----------------------------------------------------------------------------
(* SessionMemory is implemented. *)

\* A session that has moved on to a thread of its own making does not stay away past its expiry
\* while the deletion of its first thread is still to be done.
PromptDeletion ==
    \A s \in ExpiredSessions : mapped[s] # ThreadId(s) => ThreadId(s) \notin Going

\* Which sessions may forget is a function to the truth values.
LEMMA RightTypes == MayForget \in [Sessions -> BOOLEAN] /\ MayForget' \in [Sessions -> BOOLEAN]
<1>1. \A f, g, h : [s \in Sessions |-> f \/ g \/ h] \in [Sessions -> BOOLEAN]
  OBVIOUS
<1> QED BY DEF MayForget

\* The three things a step can be to SessionMemory.
LEMMA KeepStep ==
    ASSUME \A s \in Sessions : Remembered'[s] = Remembered[s]
    PROVE  Abstract!Next
<1>1. Remembered' = Remembered
  BY DEF Remembered
<1> QED BY <1>1, RightTypes DEF Abstract!Next

\* A step after which the sessions of S remember nothing is a Forget, if all of them may.
LEMMA ForgetStep ==
    ASSUME NEW S \in SUBSET Sessions, \A s \in S : MayForget[s],
           \A s \in Sessions : Remembered'[s] = IF s \in S THEN {} ELSE Remembered[s]
    PROVE  Abstract!Next
<1>1. Remembered' = [s \in Sessions |-> IF s \in S THEN {} ELSE Remembered[s]]
  BY DEF Remembered
<1> QED BY <1>1, RightTypes DEF Abstract!Next, Abstract!Forget

\* A step after which s remembers one more turn is a Remember, if what it keeps it may keep.
LEMMA RememberStep ==
    ASSUME NEW s \in Sessions, NEW t \in Turns, NEW known \in SUBSET Turns,
           t \notin Remembered[s], known # {} => MayForget[s],
           \A p \in Sessions :
              Remembered'[p] = IF p = s THEN Remembered[s] \cup known \cup {t} ELSE Remembered[p]
    PROVE  Abstract!Next
<1>1. Remembered' = [Remembered EXCEPT ![s] = @ \cup known \cup {t}]
  BY DEF Remembered
<1> QED BY <1>1, RightTypes DEF Abstract!Next, Abstract!Remember

\* The threads sessions go on with are their own, and no rollover's next one.
LEMMA NextThreads ==
    ASSUME TypeInv, IsolationInv, DeletionInv, NEW s \in Sessions
    PROVE  /\ NextThread(s) \in Threads /\ Knows(s, NextThread(s))
           /\ \A p \in Sessions : NextThread(p) = NextThread(s) => p = s
           /\ \A r \in Requests : request[r].next # NextThread(s)
           /\ Remembered[s] = memory[NextThread(s)]
           /\ Remembered'[s] = memory'[NextThread(s)']
<1>1. \A p \in Sessions : NextThread(p) \in Threads /\ Knows(p, NextThread(p))
  BY ThreadTypes DEF NextThread, Knows, TypeInv, TypeOK
<1>2. \A p \in Sessions : NextThread(p) = NextThread(s) => p = s
  BY <1>1 DEF IsolationInv
<1>3. ASSUME NEW r \in Requests PROVE request[r].next # NextThread(s)
  <2>1. request[r].next \in Uuids \cup {NoThread} /\ ThreadId(s) \notin Uuids \cup {NoThread}
    BY NextTypes, ThreadIdAssumption, SessionsAssumption DEF ThreadId, Digests, Threads
  <2>2. request[r].next # NoThread => mapped[s] # request[r].next
    BY DEF DeletionInv
  <2> QED BY <2>1, <2>2 DEF NextThread
<1>4. Remembered[s] = memory[NextThread(s)] /\ Remembered'[s] = memory'[NextThread(s)']
  BY DEF Remembered
<1> QED BY <1>1, <1>2, <1>3, <1>4

\* A first thread that its session has left, and that has been deleted, holds nothing.
LEMMA FirstThreadEmpty ==
    ASSUME TypeInv, IsolationInv, MemoryInv, NoOrphanThreads, NEW s \in Sessions,
           mapped[s] # ThreadId(s), ThreadId(s) \notin Going
    PROVE  memory[ThreadId(s)] = {}
<1>1. ThreadId(s) \in Threads \ Uuids /\ ThreadId(s) # NoThread
  BY ThreadTypes, ThreadIdAssumption, SessionsAssumption DEF ThreadId, Digests
<1>2. \A p \in Sessions : mapped[p] # ThreadId(s)
  BY <1>1 DEF IsolationInv, Knows
<1>3. \A r \in Requests : request[r].next # ThreadId(s)
  BY <1>1, NextTypes
<1>4. ThreadId(s) \notin saved
  BY <1>2, <1>3, KeptThreads DEF Kept
<1> QED BY <1>1, <1>4 DEF MemoryInv

\* Every step of a request, of clean-up or of time is a step of SessionMemory or a stutter.
LEMMA RefinementStep ==
    ASSUME MaxFaults = 0
    PROVE  /\ TypeInv /\ IsolationInv /\ DeletionInv /\ SerialInv /\ MemoryInv /\ NoOrphanThreads
           /\ FewExpired /\ PromptDeletion /\ [Next]_vars
           => [Abstract!Next]_<<Remembered, MayForget>>
<1> SUFFICES ASSUME TypeInv, IsolationInv, DeletionInv, SerialInv, MemoryInv, NoOrphanThreads,
                    FewExpired, PromptDeletion, [Next]_vars
             PROVE  Abstract!Next
  OBVIOUS
<1> USE DEF rows, checkpoints, counters
<1>rows. /\ mapped \in [Sessions -> Threads \cup {NoThread}]
         /\ memory \in [Threads -> SUBSET Turns] /\ NoThread \notin Threads
         /\ doomed \in [Requests -> SUBSET Threads] /\ cleaning \subseteq Threads
  BY ThreadTypes DEF TypeInv, TypeOK
<1>faultless. /\ \A r \in Requests : ~RolloverRaises(r) /\ ~Abandon(r)
              /\ ~WorkerStops
  BY DEF TypeInv, TypeOK, RolloverRaises, Abandon, WorkerStops
\* Steps after which every session goes on with the thread it had.
<1>on. ASSUME \A s \in Sessions : mapped'[s] = mapped[s]
                                  \/ (mapped[s] = NoThread /\ mapped'[s] = ThreadId(s))
       PROVE  \A s \in Sessions : NextThread(s)' = NextThread(s)
  BY <1>on, ThreadTypes DEF NextThread, ThreadId
<1>keep. ASSUME memory' = memory,
                \A s \in Sessions : mapped'[s] = mapped[s]
                                    \/ (mapped[s] = NoThread /\ mapped'[s] = ThreadId(s))
         PROVE  Abstract!Next
  BY <1>keep, <1>on, NextThreads, KeepStep
<1>maps. ASSUME NEW s \in Sessions, NEW t, MapTo(s, t)
         PROVE  \A p \in Sessions : mapped'[p] = IF p = s THEN t ELSE mapped[p]
  BY <1>maps, <1>rows DEF MapTo
<1>mapped. ASSUME NEW s \in Sessions, NEW t \in Threads, MapTo(s, t)
           PROVE  \A p \in Sessions : NextThread(p)' = IF p = s THEN t ELSE NextThread(p)
  BY <1>mapped, <1>maps, <1>rows DEF NextThread, ThreadId
\* What a request under way has found out is so, and what it carries was there.
<1>now. ASSUME NEW r \in Requests, request[r].stage \in OnThread
        PROVE  \E s \in Sessions, q \in RequestState :
           /\ s = SessionOf(r) /\ q = request[r] /\ q.thread \in Threads
           /\ q.turn \in Turns /\ q.base \in SUBSET Turns /\ q.thread = NextThread(s)
           /\ Carries(q, memory, turns)
  <2>1. request[r].stage # "idle"
    BY <1>now DEF OnThread, Rolling, Settled
  <2>2. request[r].thread \in Threads /\ request[r].turn \in Turns /\ request[r].base \in SUBSET Turns
    BY <1>now, <2>1, Held1, SessionType DEF Held, RequestState
  <2>3. SessionOf(r) \in Sessions /\ mapped[SessionOf(r)] = request[r].thread
    BY <1>now, <2>1, SessionType DEF SerialInv, Follows
  <2> QED BY <1>rows, <2>1, <2>2, <2>3, Held1 DEF NextThread, MemoryInv
\* A session whose request began with turns it no longer remembers may forget.
<1>right. ASSUME NEW r \in Requests, NEW s \in Sessions, s = SessionOf(r), request[r].stage # "idle",
                 \/ request[r].stage = "resetting"
                 \/ ~(request[r].base \subseteq Remembered[s])
          PROVE  MayForget[s]
  BY <1>right DEF MayForget
<1>dropped. ASSUME NEW S \in Takings, Drop(S), memory' = memory PROVE Abstract!Next
  <2> DEFINE F == {s \in S : mapped[s] # ThreadId(s)}
  <2>1. S \subseteq ExpiredSessions
    BY DEF Takings
  <2>2. \A s \in S : s \in Sessions /\ expired[s] /\ mapped[s] # NoThread
    BY <2>1 DEF ExpiredSessions
  <2>3. \A s \in Sessions : NextThread(s)' = IF s \in S THEN ThreadId(s) ELSE NextThread(s)
    BY <1>dropped DEF Drop, NextThread, ThreadId
  <2>4. \A s \in F : memory[ThreadId(s)] = {}
    BY <2>1, <2>2, FirstThreadEmpty DEF PromptDeletion
  <2>5. \A s \in Sessions : Remembered'[s] = IF s \in F THEN {} ELSE Remembered[s]
    <3>1. ASSUME NEW s \in Sessions PROVE Remembered'[s] = memory[NextThread(s)']
      BY <1>dropped, NextThreads
    <3>2. ASSUME NEW s \in S PROVE NextThread(s) = mapped[s]
      BY <2>2 DEF NextThread
    <3> QED BY <2>2, <2>3, <2>4, <3>1, <3>2, NextThreads
  <2>6. F \in SUBSET Sessions /\ \A s \in F : MayForget[s]
    BY <2>2 DEF MayForget
  <2> HIDE DEF F
  <2> QED BY <2>5, <2>6, ForgetStep
<1>deleted. ASSUME NEW t \in Going, DeleteThread(t), mapped' = mapped PROVE Abstract!Next
  <2> DEFINE F == {s \in Sessions : NextThread(s) = t}
  <2>1. \A s \in Sessions : NextThread(s)' = NextThread(s)
    BY <1>deleted, <1>on
  <2>2. \A s \in Sessions : Remembered'[s] = IF s \in F THEN {} ELSE Remembered[s]
    BY <1>deleted, <1>rows, <2>1, NextThreads DEF DeleteThread
  <2>3. F \in SUBSET Sessions /\ \A s \in F : MayForget[s]
    BY <1>deleted DEF MayForget, Going
  <2> HIDE DEF F
  <2> QED BY <2>2, <2>3, ForgetStep
<1>1. ASSUME NEW r \in Requests,
             \/ \E s \in Sessions : Begin(r, s)
             \/ ReadReplaced(r) \/ SelectMapping(r) \/ RefreshMapping(r) \/ ReadOldThread(r)
             \/ LoadThread(r) \/ CompleteTurn(r)
      PROVE  Abstract!Next
  <2>1. UNCHANGED <<mapped, memory>>
    BY <1>1 DEF Begin, ReadReplaced, SelectMapping, RefreshMapping, ReadOldThread, LoadThread,
                CompleteTurn
  <2> QED BY <1>keep, <2>1
<1>3. ASSUME NEW r \in Requests, ResetMapping(r) PROVE Abstract!Next
  <2>1. request[r].stage = "resetting" /\ memory' = memory
    BY <1>3 DEF ResetMapping, At
  <2>2. PICK s \in Sessions : s = SessionOf(r)
    BY <2>1, SessionType
  <2>3. PICK t \in Uuids \ usedUuids : MapTo(s, t)
    BY <1>3, <2>2 DEF ResetMapping
  <2>4. memory[t] = {} /\ t \in Threads
    BY ThreadTypes DEF IsolationInv
  <2>5. \A p \in Sessions : Remembered'[p] = IF p \in {s} THEN {} ELSE Remembered[p]
    <3>1. ASSUME NEW p \in Sessions PROVE Remembered'[p] = memory[NextThread(p)']
      BY <2>1, NextThreads
    <3>2. \A p \in Sessions : NextThread(p)' = IF p = s THEN t ELSE NextThread(p)
      BY <1>mapped, <2>3, <2>4
    <3>3. \A p \in Sessions : Remembered[p] = memory[NextThread(p)]
      BY NextThreads
    <3>4. \A p \in Sessions : Remembered'[p] = IF p = s THEN memory[t] ELSE memory[NextThread(p)]
      BY <3>1, <3>2
    <3> QED BY <2>4, <3>3, <3>4
  <2>6. \A p \in {s} : MayForget[p]
    BY <1>right, <2>1, <2>2
  <2> QED BY <2>5, <2>6, ForgetStep
<1>4. ASSUME NEW r \in Requests, DeleteDoomed(r) PROVE Abstract!Next
  BY <1>4, <1>deleted DEF DeleteDoomed, Going
<1>5. ASSUME NEW r \in Requests, TakeExpiredFirst(r) PROVE Abstract!Next
  BY <1>5, <1>dropped DEF TakeExpiredFirst
<1>8. ASSUME NEW r \in Requests, CreateMapping(r) PROVE Abstract!Next
  <2>1. request[r].stage = "creating" /\ memory' = memory
    BY <1>8 DEF CreateMapping, At
  <2>2. PICK s \in Sessions : s = SessionOf(r) /\ (mapped[s] = NoThread \/ ~expired[s])
    BY <2>1, SessionType DEF SerialInv, Follows
  <2>3. mapped' = mapped \/ (mapped[s] = NoThread /\ MapTo(s, ThreadId(s)))
    BY <1>8, <2>2 DEF CreateMapping
  <2>4. \A p \in Sessions : mapped'[p] = mapped[p]
                            \/ (mapped[p] = NoThread /\ mapped'[p] = ThreadId(p))
    BY <1>maps, <2>3
  <2> QED BY <1>keep, <2>1, <2>4
<1>10. ASSUME NEW r \in Requests, SeedNextThread(r) PROVE Abstract!Next
  <2>1. /\ mapped' = mapped
        /\ \A t \in Threads : t # request[r].next => memory'[t] = memory[t]
    BY <1>10, <1>rows DEF SeedNextThread, SaveThread
  <2>2. \A s \in Sessions : NextThread(s)' = NextThread(s)
    BY <1>on, <2>1
  <2> QED BY <2>1, <2>2, NextThreads, KeepStep
<1>11. ASSUME NEW r \in Requests, SwapMapping(r) PROVE Abstract!Next
  <2>1. request[r].stage = "swapping" /\ memory' = memory
    BY <1>11 DEF SwapMapping, At
  <2>2. PICK s \in Sessions, q \in RequestState :
           /\ s = SessionOf(r) /\ q = request[r] /\ q.thread \in Threads
           /\ q.turn \in Turns /\ q.base \in SUBSET Turns /\ q.thread = NextThread(s)
           /\ Carries(q, memory, turns)
    BY <1>now, <2>1 DEF OnThread, Rolling
  <2>3. mapped[s] = q.thread /\ q.next \in Threads
    BY <2>1, <2>2, Held1, ThreadTypes
       DEF SerialInv, Follows, OnThread, Rolling, Held, TypeInv, TypeOK
  <2>4. MapTo(s, q.next)
    BY <1>11, <2>2, <2>3 DEF SwapMapping, StillOn
  <2>5. \A p \in Sessions : Remembered'[p] = IF p = s THEN memory[q.next] ELSE Remembered[p]
    BY <1>mapped, <2>1, <2>3, <2>4, NextThreads
  <2>6. Remembered[s] = memory[q.thread]
    BY <2>2, NextThreads
  <2>7. \/ memory[q.next] = memory[q.thread]
        \/ memory[q.next] = q.base /\ memory[q.thread] = {} /\ q.base # {}
    BY <2>1, <2>2 DEF Carries
  <2>8. CASE memory[q.next] = memory[q.thread]
    BY <2>5, <2>6, <2>8, KeepStep
  <2>9. CASE memory[q.next] = q.base /\ memory[q.thread] = {} /\ q.base # {}
    <3>1. PICK t \in q.base : t \in Turns /\ t \notin Remembered[s]
      BY <2>2, <2>6, <2>9
    <3>2. MayForget[s]
      BY <1>right, <2>1, <2>2, <2>6, <2>9
    <3>3. \A p \in Sessions :
             Remembered'[p] = IF p = s THEN Remembered[s] \cup q.base \cup {t} ELSE Remembered[p]
      BY <2>5, <2>6, <2>9
    <3> QED BY <2>2, <3>1, <3>2, <3>3, RememberStep
  <2> QED BY <2>7, <2>8, <2>9
<1>14. ASSUME NEW r \in Requests, SaveCheckpoint(r) PROVE Abstract!Next
  <2>1. request[r].stage \in {"running", "saved"} /\ mapped' = mapped
    BY <1>14 DEF SaveCheckpoint
  <2>2. PICK s \in Sessions, q \in RequestState :
           /\ s = SessionOf(r) /\ q = request[r] /\ q.thread \in Threads
           /\ q.turn \in Turns /\ q.base \in SUBSET Turns /\ q.thread = NextThread(s)
           /\ Carries(q, memory, turns)
    BY <1>now, <2>1 DEF OnThread, Settled
  <2>3. \A t \in Threads : memory'[t] = IF t = q.thread THEN q.base \cup {q.turn} ELSE memory[t]
    BY <1>14, <1>rows, <2>2 DEF SaveCheckpoint, SaveThread
  <2>4. \A p \in Sessions : NextThread(p)' = NextThread(p)
    BY <1>on, <2>1
  <2>5. \A p \in Sessions :
           Remembered'[p] = IF p = s THEN q.base \cup {q.turn} ELSE Remembered[p]
    <3>1. ASSUME NEW p \in Sessions PROVE Remembered'[p] = memory'[NextThread(p)]
      BY <2>4, NextThreads
    <3>2. \A p \in Sessions : NextThread(p) = q.thread <=> p = s
      BY <2>2, NextThreads
    <3> QED BY <2>3, <3>1, <3>2, NextThreads
  <2>6. Remembered[s] = memory[q.thread]
    BY <2>2, NextThreads
  <2>7. \/ memory[q.thread] = q.base \cup {q.turn}
        \/ memory[q.thread] = q.base /\ q.turn \notin q.base
        \/ memory[q.thread] = {}
    BY <2>1, <2>2 DEF Carries
  <2>8. CASE memory[q.thread] = q.base \cup {q.turn}
    BY <2>5, <2>6, <2>8, KeepStep
  <2>9. CASE memory[q.thread] = q.base /\ q.turn \notin q.base
    <3>1. \A p \in Sessions :
             Remembered'[p] = IF p = s THEN Remembered[s] \cup {} \cup {q.turn} ELSE Remembered[p]
      BY <2>5, <2>6, <2>9
    <3>2. {} \in SUBSET Turns /\ q.turn \notin Remembered[s]
      BY <2>6, <2>9
    <3> QED BY <2>2, <3>1, <3>2, RememberStep
  <2>10. CASE memory[q.thread] = {}
    <3>1. \A p \in Sessions :
             Remembered'[p] = IF p = s THEN Remembered[s] \cup q.base \cup {q.turn} ELSE Remembered[p]
      BY <2>5, <2>6, <2>10
    <3>2. q.base # {} => MayForget[s]
      BY <1>right, <2>1, <2>2, <2>6, <2>10
    <3>3. q.turn \notin Remembered[s]
      BY <2>6, <2>10
    <3> QED BY <2>2, <3>1, <3>2, <3>3, RememberStep
  <2> QED BY <2>7, <2>8, <2>9, <2>10
<1>17. CASE CleanUp
  BY <1>17, <1>dropped DEF CleanUp
<1>18. CASE DeleteCleaned
  BY <1>18, <1>deleted DEF DeleteCleaned, Going
<1>19. CASE UNCHANGED vars \/ \E s \in Sessions : Expire(s)
  <2>1. UNCHANGED <<mapped, memory>>
    BY <1>19 DEF vars, Expire
  <2> QED BY <1>keep, <2>1
<1> QED
  BY <1>faultless, <1>1, <1>3, <1>4, <1>5, <1>8, <1>10, <1>11, <1>14, <1>17, <1>18, <1>19
     DEF Next, Step

\* What the user sees of threads, rollovers, resets and clean-up is SessionMemory: a session
\* remembers the turns it has had and forgets them only when it may, for clients that run one
\* turn at a time and without faults, while clean-ups keep up with the sessions that expire.
THEOREM SessionMemoryImplemented ==
    ASSUME Serial, MaxFaults = 0
    PROVE  Spec /\ [](FewExpired /\ PromptDeletion) => RefinesSessionMemory
<1>1. Init => Abstract!Init
  <2> SUFFICES ASSUME Init PROVE Abstract!Init
    OBVIOUS
  <2>1. \A r \in Requests : request[r].stage = "idle"
    BY DEF Init, Idle
  <2>2. \A s \in Sessions : NextThread(s) \in Threads /\ memory[NextThread(s)] = {}
    BY ThreadTypes DEF Init, NextThread
  <2>3. Remembered = [s \in Sessions |-> {}]
    BY <2>2 DEF Remembered
  <2>4. MayForget = [s \in Sessions |-> FALSE]
    BY <2>1 DEF Init, MayForget
  <2> QED BY <2>3, <2>4 DEF Abstract!Init
<1> QED
  BY <1>1, RefinementStep, MemoryInvariant, OrphanInvariant, SerialInvariant, DeletionInvariant,
     IsolationInvariant, TypeInvariant, PTL DEF Spec, RefinesSessionMemory, Abstract!Spec
\* With one expiry in all, a session that expires has no deletion still to be done.
OneExpiry ==
    /\ \A r \in Requests : request[r].stage = "idle" => doomed[r] = {}
    /\ expiries = 0 =>
          /\ cleaning = {}
          /\ \A r \in Requests, s \in Sessions : ThreadId(s) \in doomed[r] => SessionOf(r) = s
    /\ \A s \in ExpiredSessions : ThreadId(s) \notin Going

\* Every step keeps it: the only session that ever expires has nothing left to be deleted.
LEMMA OneExpiryStep ==
    ASSUME MaxFaults = 0, MaxExpiries <= 1
    PROVE  TypeInv /\ IsolationInv /\ SerialInv /\ Counted /\ OneExpiry /\ [Next]_vars => OneExpiry'
<1> SUFFICES ASSUME TypeInv, IsolationInv, SerialInv, Counted, OneExpiry, [Next]_vars
             PROVE  OneExpiry'
  OBVIOUS
<1> USE DEF rows, checkpoints, counters
<1>rows. /\ mapped \in [Sessions -> Threads \cup {NoThread}] /\ expired \in [Sessions -> BOOLEAN]
         /\ doomed \in [Requests -> SUBSET Threads] /\ expiries \in {0, 1}
  BY BoundsAssumption DEF TypeInv, TypeOK
<1>faultless. /\ \A r \in Requests : ~RolloverRaises(r) /\ ~Abandon(r)
              /\ ~WorkerStops
  BY DEF TypeInv, TypeOK, RolloverRaises, Abandon, WorkerStops
<1>first. \A s \in Sessions : ThreadId(s) \in Threads /\ ThreadId(s) # NoThread /\ Knows(s, ThreadId(s))
  BY ThreadTypes DEF Knows
<1>none. expiries = 0 => ExpiredSessions = {}
  BY FS_EmptySet, FS_CardinalityType DEF Counted
<1>expired. ASSUME ~\E s \in Sessions : Expire(s)
            PROVE  ExpiredSessions' \subseteq ExpiredSessions /\ expiries' = expiries
  BY <1>expired, ExpiredStep
\* Request r goes on or ends, and D is what it has left to delete.
<1>on. ASSUME NEW r \in Requests, NEW q, Become(r, q), NEW D, doomed' = [doomed EXCEPT ![r] = D],
              q.stage = "idle" => D = {},
              q.turn = request[r].turn \/ D = {},
              \A s \in Sessions : ThreadId(s) \in D =>
                 ThreadId(s) \in doomed[r]
                 \/ (s \notin ExpiredSessions' /\ (expiries = 0 => SessionOf(r) = s)),
              cleaning' = cleaning, ExpiredSessions' \subseteq ExpiredSessions, expiries' = expiries
       PROVE  OneExpiry'
  <2>1. \A c \in Requests : request'[c] = IF c = r THEN q ELSE request[c]
    BY <1>on DEF Become, TypeInv, TypeOK
  <2>2. \A c \in Requests : doomed'[c] = IF c = r THEN D ELSE doomed[c]
    BY <1>on, <1>rows
  <2>3. \A c \in Requests : request'[c].stage = "idle" => doomed'[c] = {}
    BY <1>on, <2>1, <2>2 DEF OneExpiry
  <2>4. ASSUME expiries = 0, NEW c \in Requests, NEW s \in Sessions, ThreadId(s) \in doomed'[c]
        PROVE  request'[c].turn[1] = s
    BY <1>on, <2>1, <2>2, <2>4 DEF OneExpiry, SessionOf
  <2>5. ASSUME NEW s \in ExpiredSessions' PROVE ThreadId(s) \notin Going'
    <3>1. s \in Sessions /\ ThreadId(s) \notin Going
      BY <1>on, <2>5 DEF OneExpiry, ExpiredSessions
    <3> QED BY <1>on, <2>2, <2>5, <3>1 DEF Going
  <2> QED BY <1>on, <2>3, <2>4, <2>5 DEF OneExpiry, SessionOf, ThreadId
<1>1. ASSUME NEW r \in Requests, NEW s \in Sessions, Begin(r, s) PROVE OneExpiry'
  <2>1. doomed[r] = {} /\ doomed' = doomed /\ cleaning' = cleaning /\ \E q : Become(r, q)
    BY <1>1 DEF Begin, OneExpiry
  <2>2. doomed' = [doomed EXCEPT ![r] = {}]
    BY <1>rows, <2>1
  <2>3. UNCHANGED <<mapped, expired, expiries>>
    BY <1>1 DEF Begin
  <2> QED BY <1>on, <2>1, <2>2, <2>3 DEF ExpiredSessions
<1>quiet. ASSUME NEW r \in Requests, NEW q, Become(r, q), UNCHANGED <<doomed, cleaning>>,
                 ExpiredSessions' \subseteq ExpiredSessions, expiries' = expiries,
                 \/ doomed[r] = {}
                 \/ q.turn = request[r].turn /\ q.stage # "idle"
          PROVE  OneExpiry'
  <2>1. doomed' = [doomed EXCEPT ![r] = doomed[r]]
    BY <1>quiet, <1>rows
  <2> QED BY <1>quiet, <1>on, <2>1
<1>2. ASSUME NEW r \in Requests,
             \/ ReadReplaced(r) \/ SelectMapping(r) \/ RefreshMapping(r) \/ CreateMapping(r)
             \/ ReadOldThread(r) \/ SeedNextThread(r) \/ LoadThread(r) \/ CompleteTurn(r)
      PROVE  OneExpiry'
  <2>1. UNCHANGED <<doomed, cleaning, expiries>> /\ doomed[r] = {} /\ \E q : Become(r, q)
    BY <1>2 DEF ReadReplaced, SelectMapping, RefreshMapping, CreateMapping, ReadOldThread,
                SeedNextThread, LoadThread, CompleteTurn, At, Goto, UseThread
  <2>2. \A s \in Sessions : ~Expire(s)
    <3>1. \A s \in Sessions : Expire(s) => expiries' = expiries + 1
      BY DEF Expire
    <3> QED BY <1>rows, <2>1, <3>1
  <2> QED BY <1>expired, <1>quiet, <2>1, <2>2
<1>3. ASSUME NEW r \in Requests, ResetMapping(r) PROVE OneExpiry'
  <2>1. PICK s \in Sessions : s = SessionOf(r) /\ request[r].stage = "resetting"
    BY <1>3, SessionType DEF ResetMapping, At
  <2>2. PICK q : q = [request[r] EXCEPT !.stage = "starting", !.thread = NoThread]
    OBVIOUS
  <2>3. q.turn = request[r].turn /\ q.stage = "starting" /\ Become(r, q)
    BY <1>3, <2>2, Held1 DEF ResetMapping, RequestState
  <2>4. /\ doomed' = [doomed EXCEPT ![r] = Replaced(r)] /\ UNCHANGED <<cleaning, expiries>>
        /\ \E t : MapTo(s, t)
    BY <1>3, <2>1 DEF ResetMapping
  <2>5. ~expired'[s]
    BY <1>rows, <2>4 DEF MapTo
  <2>6. \A p \in Sessions : ThreadId(p) \in Replaced(r) => p = s
    BY <1>first, <2>1 DEF Replaced, Knows, IsolationInv
  <2>7. ExpiredSessions' \subseteq ExpiredSessions /\ s \notin ExpiredSessions'
    BY <1>rows, <2>4, <2>5 DEF ExpiredSessions, MapTo
  <2> QED BY <1>on, <2>1, <2>3, <2>4, <2>6, <2>7
<1>4. ASSUME NEW r \in Requests, DeleteDoomed(r) PROVE OneExpiry'
  <2>1. PICK t : doomed' = [doomed EXCEPT ![r] = @ \ {t}]
    BY <1>4 DEF DeleteDoomed
  <2>2. \A c \in Requests : doomed'[c] \subseteq doomed[c]
    BY <1>rows, <2>1
  <2>3. UNCHANGED <<mapped, expired, request, cleaning, expiries>>
    BY <1>4 DEF DeleteDoomed
  <2>4. Going' \subseteq Going /\ ExpiredSessions' = ExpiredSessions
    BY <2>2, <2>3 DEF Going, ExpiredSessions
  <2> QED BY <2>2, <2>3, <2>4 DEF OneExpiry, SessionOf, ThreadId
\* The rows that are dropped name no other session's first thread.
<1>dropped. ASSUME NEW S \in Takings, Drop(S), NEW s \in Sessions, ThreadId(s) \in {mapped[p] : p \in S}
            PROVE  s \in ExpiredSessions /\ s \notin ExpiredSessions'
  <2>1. PICK p \in S : mapped[p] = ThreadId(s)
    BY <1>dropped
  <2>2. p \in ExpiredSessions
    BY DEF Takings
  <2>3. p = s
    BY <1>first, <2>1, <2>2 DEF ExpiredSessions, IsolationInv, Knows
  <2> QED BY <1>dropped, <2>2, <2>3 DEF Drop, ExpiredSessions
<1>5. ASSUME NEW r \in Requests, TakeExpiredFirst(r) PROVE OneExpiry'
  <2>1. PICK S \in Takings : Drop(S) /\ doomed' = [doomed EXCEPT ![r] = {mapped[s] : s \in S}]
    BY <1>5 DEF TakeExpiredFirst
  <2>2. PICK D : D = {mapped[s] : s \in S}
    OBVIOUS
  <2>3. PICK q : q = [request[r] EXCEPT !.stage = "selecting"]
    OBVIOUS
  <2>4. q.turn = request[r].turn /\ q.stage = "selecting" /\ Become(r, q)
    BY <1>5, <2>3, Held1 DEF TakeExpiredFirst, Goto, RequestState
  <2>5. UNCHANGED <<cleaning, expiries>> /\ ExpiredSessions' \subseteq ExpiredSessions
    BY <1>5, <2>1 DEF TakeExpiredFirst, Drop, ExpiredSessions
  <2>6. \A s \in Sessions : ThreadId(s) \in D =>
           s \notin ExpiredSessions' /\ (expiries = 0 => SessionOf(r) = s)
    BY <1>none, <1>dropped, <2>1, <2>2
  <2> QED BY <1>on, <2>1, <2>2, <2>4, <2>5, <2>6
<1>11. ASSUME NEW r \in Requests, SwapMapping(r) PROVE OneExpiry'
  <2>1. PICK s \in Sessions : /\ s = SessionOf(r) /\ request[r].stage = "swapping"
                              /\ mapped[s] = request[r].thread
    BY <1>11, SessionType DEF SwapMapping, At, SerialInv, Follows, OnThread, Rolling
  <2>2. PICK q : q = [request[r] EXCEPT !.stage = "ready", !.thread = request[r].next, !.next = NoThread]
    OBVIOUS
  <2>3. /\ Become(r, q) /\ MapTo(s, request[r].next) /\ UNCHANGED <<cleaning, expiries>>
        /\ doomed' = [doomed EXCEPT ![r] = {request[r].thread}]
    BY <1>11, <2>1, <2>2 DEF SwapMapping, StillOn
  <2>4. q.turn = request[r].turn /\ q.stage = "ready"
    BY <2>2, Held1 DEF RequestState
  <2>5. ExpiredSessions' \subseteq ExpiredSessions /\ s \notin ExpiredSessions'
    BY <1>rows, <2>3 DEF ExpiredSessions, MapTo
  <2>6. PICK D : D = {request[r].thread}
    OBVIOUS
  <2>7. \A p \in Sessions : ThreadId(p) \in D =>
           p \notin ExpiredSessions' /\ (expiries = 0 => SessionOf(r) = p)
    BY <1>first, <2>1, <2>5, <2>6 DEF IsolationInv, Knows
  <2>8. doomed' = [doomed EXCEPT ![r] = D]
    BY <2>3, <2>6
  <2> QED BY <1>on, <2>3, <2>4, <2>5, <2>7, <2>8
<1>14. ASSUME NEW r \in Requests, SaveCheckpoint(r) PROVE OneExpiry'
  <2>1. PICK q : q = [request[r] EXCEPT !.stage = "saved"]
    OBVIOUS
  <2>2. Become(r, q) /\ UNCHANGED <<mapped, expired, doomed, cleaning, expiries>>
    BY <1>14, <2>1 DEF SaveCheckpoint, Goto
  <2>3. q.turn = request[r].turn /\ q.stage = "saved"
    BY <2>1, Held1 DEF RequestState
  <2> QED BY <1>quiet, <2>2, <2>3 DEF ExpiredSessions
<1>17. CASE CleanUp
  <2>1. PICK S \in Takings : Drop(S) /\ cleaning' = {mapped[s] : s \in S}
    BY <1>17 DEF CleanUp
  <2>2. UNCHANGED <<request, doomed, expiries>> /\ expiries # 0 /\ cleaning = {}
    BY <1>17, <1>none DEF CleanUp
  <2>3. ExpiredSessions' \subseteq ExpiredSessions
    BY <2>1 DEF Drop, ExpiredSessions
  <2>4. ASSUME NEW s \in ExpiredSessions' PROVE ThreadId(s) \notin Going'
    <3>1. s \in Sessions /\ s \in ExpiredSessions /\ ThreadId(s) \notin Going
      BY <2>3, <2>4 DEF OneExpiry, ExpiredSessions
    <3>2. ThreadId(s) \notin cleaning'
      BY <1>dropped, <2>1, <2>4, <3>1
    <3> QED BY <2>2, <3>1, <3>2 DEF Going
  <2> QED BY <2>2, <2>4 DEF OneExpiry, ThreadId
<1>18. CASE DeleteCleaned
  <2>1. UNCHANGED <<mapped, expired, request, doomed, expiries>> /\ cleaning' \subseteq cleaning
    BY <1>18 DEF DeleteCleaned
  <2> QED BY <2>1 DEF OneExpiry, ExpiredSessions, Going, SessionOf, ThreadId
<1>19. ASSUME NEW s \in Sessions, Expire(s) PROVE OneExpiry'
  <2>1. expiries = 0 /\ expiries' = 1
    BY <1>19, <1>rows, BoundsAssumption DEF Expire
  <2>2. /\ UNCHANGED <<mapped, request, doomed, cleaning>> /\ ExpiredSessions' \subseteq {s}
        /\ \A r \in Requests : request[r].stage # "idle" => SessionOf(r) # s
    BY <1>19, <1>rows, <1>none, <2>1 DEF Expire, Busy, ExpiredSessions
  <2>3. ThreadId(s) \notin Going
    BY <2>1, <2>2 DEF OneExpiry, Going
  <2>4. Going' = Going
    BY <2>2 DEF Going
  <2> QED BY <2>1, <2>2, <2>3, <2>4 DEF OneExpiry, ThreadId
<1>20. CASE UNCHANGED vars
  BY <1>20 DEF vars, OneExpiry, ExpiredSessions, Going, SessionOf, ThreadId
<1> QED
  BY <1>faultless, <1>1, <1>2, <1>3, <1>4, <1>5, <1>11, <1>14, <1>17, <1>18, <1>19, <1>20
     DEF Next, Step

\* In particular in any behaviour with one expiry, as many sessions, requests and turns as there
\* may be.
COROLLARY SessionMemoryBounded ==
    ASSUME Serial, MaxFaults = 0, MaxExpiries <= 1
    PROVE  Spec => RefinesSessionMemory
<1>1. Init => OneExpiry
  BY DEF Init, OneExpiry, ExpiredSessions
<1>2. TypeInv /\ Counted => FewExpired
  BY FewFromBound, BoundsAssumption
<1>3. OneExpiry => PromptDeletion
  BY DEF OneExpiry, PromptDeletion
<1>4. Spec => []FewExpired
  BY <1>2, ExpiriesCounted, TypeInvariant, PTL
<1>5. Spec => []OneExpiry
  BY <1>1, <1>4, OneExpiryStep, SerialInvariant, IsolationInvariant, TypeInvariant,
     ExpiriesCounted, PTL DEF Spec
<1> QED BY <1>3, <1>4, <1>5, SessionMemoryImplemented, PTL
=============================================================================
