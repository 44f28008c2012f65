------------------------- MODULE CheckpointSessions -------------------------
(***************************************************************************)
(* Short-term memory under the PostgreSQL checkpointer.  Three parts share *)
(* it, and no transaction spans them:                                      *)
(*   - the checkpoint_sessions table, which maps (user_id, session_id) to  *)
(*     a LangGraph thread and counts its turns (memory/store.py);          *)
(*   - LangGraph's own checkpoint tables, keyed by thread id;              *)
(*   - the requests that run a turn (agent/graph.py: _checkpoint_config,   *)
(*     stream, reset_session_context) and the worker that cleans up        *)
(*     (memory/worker.py).                                                 *)
(* Every step below is one statement group that commits by itself, or one  *)
(* call of the checkpointer.  What a thread's checkpoints say is reduced   *)
(* to the turns they are built from.                                       *)
(***************************************************************************)
EXTENDS Naturals, FiniteSets

CONSTANTS
    Users, Labels,  \* account ids, and the session labels clients choose
    Sessions,       \* the (user, label) pairs that hold conversations
    Digest,         \* the thread id each pair hashes to
    Uuids,          \* thread ids uuid4 may produce
    NoThread,       \* stands for the absence of a row or a thread id
    Requests,       \* requests that may run at the same time
    Rollover,       \* limits.checkpoint_thread_rollover_turns
    TakeLimit,      \* the limit of take_expired_checkpoint_threads
    Serial,         \* whether a session's client runs one turn at a time
    MaxTurns,       \* bound: turns in a behaviour
    MaxExpiries,    \* bound: times a mapping passes its expiry
    MaxFaults       \* bound: disconnects, process ends and database errors

Digests == {Digest[p] : p \in Users \X Labels}
Threads == Digests \cup Uuids

ASSUME SessionsAssumption == Sessions \subseteq Users \X Labels
ASSUME ThreadIdAssumption ==
    /\ DOMAIN Digest = Users \X Labels
    /\ \A p, q \in Users \X Labels : Digest[p] = Digest[q] => p = q
    /\ Digests \cap Uuids = {}
    /\ NoThread \notin Threads
ASSUME BoundsAssumption ==
    /\ Rollover \in Nat \ {0}
    /\ TakeLimit \in Nat \ {0}
    /\ Serial \in BOOLEAN
    /\ MaxTurns \in Nat
    /\ MaxExpiries \in Nat
    /\ MaxFaults \in Nat
ASSUME RequestsAssumption == IsFiniteSet(Requests)

VARIABLES
    mapped,      \* checkpoint_sessions.graph_thread_id, NoThread when there is no row
    turnCount,   \* checkpoint_sessions.turn_count
    expired,     \* whether the row's expires_at has passed
    saved,       \* threads that have checkpoints
    memory,      \* the turns a thread's newest checkpoint is built from
    request,     \* where each request stands
    doomed,      \* the threads each request has still to adelete_thread
    cleaning,    \* the threads the worker has still to adelete_thread
    usedUuids, turns, expiries, faults

rows == <<mapped, turnCount, expired>>
checkpoints == <<saved, memory>>
counters == <<usedUuids, turns, expiries, faults>>
vars == <<rows, checkpoints, request, doomed, cleaning, counters>>

Turns == Sessions \X (1..MaxTurns)

Stages ==
    {"idle", "editing", "resetting", "starting", "selecting", "refreshing", "creating",
     "rolling", "seeding", "swapping", "ready", "running", "saved"}

RequestState ==
    [stage : Stages,
     turn : Turns \cup {NoThread},
     thread : Threads \cup {NoThread},  \* the thread it uses, or is leaving
     count : Nat,                       \* the turn_count it read with the thread
     base : SUBSET Turns,               \* the state it read from the thread
     next : Threads \cup {NoThread},    \* the rollover thread it is preparing
     rolled : BOOLEAN]                  \* whether it has lost a rollover race

Idle == [stage |-> "idle", turn |-> NoThread, thread |-> NoThread, count |-> 0,
         base |-> {}, next |-> NoThread, rolled |-> FALSE]

TypeOK ==
    /\ mapped \in [Sessions -> Threads \cup {NoThread}]
    /\ turnCount \in [Sessions -> Nat]
    /\ expired \in [Sessions -> BOOLEAN]
    /\ saved \subseteq Threads
    /\ memory \in [Threads -> SUBSET Turns]
    /\ request \in [Requests -> RequestState]
    /\ doomed \in [Requests -> SUBSET Threads]
    /\ cleaning \subseteq Threads
    /\ usedUuids \subseteq Uuids
    /\ turns \in 0..MaxTurns
    /\ expiries \in 0..MaxExpiries
    /\ faults \in 0..MaxFaults

Init ==
    /\ mapped = [s \in Sessions |-> NoThread]
    /\ turnCount = [s \in Sessions |-> 0]
    /\ expired = [s \in Sessions |-> FALSE]
    /\ saved = {}
    /\ memory = [t \in Threads |-> {}]
    /\ request = [r \in Requests |-> Idle]
    /\ doomed = [r \in Requests |-> {}]
    /\ cleaning = {}
    /\ usedUuids = {}
    /\ turns = 0 /\ expiries = 0 /\ faults = 0

-----------------------------------------------------------------------------
\* _thread_id: the digest of the user and the label together.
ThreadId_LabelOnly(s) == Digest[<<CHOOSE u \in Users : TRUE, s[2]>>]
ThreadId(s) == Digest[s]

SessionOf(r) == request[r].turn[1]
Busy(s) == \E r \in Requests : request[r].stage # "idle" /\ SessionOf(r) = s

\* A request does what its stage says once it has deleted the threads it took on.
At(r, stage) == request[r].stage = stage /\ doomed[r] = {}
Become(r, state) == request' = [request EXCEPT ![r] = state]
Goto(r, stage) == Become(r, [request[r] EXCEPT !.stage = stage])

\* The checkpointer forgets a thread.
DeleteThread(t) ==
    /\ saved' = saved \ {t}
    /\ memory' = [memory EXCEPT ![t] = {}]

\* The checkpointer saves a checkpoint of a thread, whatever became of its older ones.
SaveThread(t, state) ==
    /\ saved' = saved \cup {t}
    /\ memory' = [memory EXCEPT ![t] = state]

ExpiredSessions == {s \in Sessions : mapped[s] # NoThread /\ expired[s]}

\* take_expired_checkpoint_threads: up to TakeLimit rows go now, their threads later.
Takings ==
    {S \in SUBSET ExpiredSessions :
        /\ Cardinality(S) <= TakeLimit
        /\ Cardinality(S) < TakeLimit => S = ExpiredSessions}

Drop_RowsKept(S) ==
    /\ turnCount' = [s \in Sessions |-> IF s \in S THEN 0 ELSE turnCount[s]]
    /\ UNCHANGED <<mapped, expired>>

Drop(S) ==
    /\ mapped' = [s \in Sessions |-> IF s \in S THEN NoThread ELSE mapped[s]]
    /\ turnCount' = [s \in Sessions |-> IF s \in S THEN 0 ELSE turnCount[s]]
    /\ expired' = [s \in Sessions |-> s \notin S /\ expired[s]]

\* A row gets a thread with no turns and a new expiry.
MapTo(s, t) ==
    /\ mapped' = [mapped EXCEPT ![s] = t]
    /\ turnCount' = [turnCount EXCEPT ![s] = 0]
    /\ expired' = [expired EXCEPT ![s] = FALSE]

-----------------------------------------------------------------------------
(* A request: chat_stream, with or without an edit, up to the end of stream *)

Begin(r, s) ==
    /\ request[r].stage = "idle"
    /\ turns < MaxTurns
    /\ Serial => ~Busy(s)
    /\ turns' = turns + 1
    /\ \E stage \in {"editing", "starting"} :
          Become(r, [Idle EXCEPT !.stage = stage, !.turn = <<s, turns + 1>>])
    /\ UNCHANGED <<rows, checkpoints, doomed, cleaning, usedUuids, expiries, faults>>

\* reset_short_term_session: the SELECT, then the upsert; reset_session_context deletes
\* the thread the SELECT had returned.
ReadReplaced(r) ==
    /\ At(r, "editing")
    /\ Become(r, [request[r] EXCEPT !.stage = "resetting", !.thread = mapped[SessionOf(r)]])
    /\ UNCHANGED <<rows, checkpoints, doomed, cleaning, counters>>

Replaced_Unchecked(r) == {request[r].thread}
Replaced_None(r) == {}
Replaced(r) == {request[r].thread} \ {NoThread}
ResetMapping(r) ==
    /\ At(r, "resetting")
    /\ \E t \in Uuids \ usedUuids :
          /\ usedUuids' = usedUuids \cup {t}
          /\ MapTo(SessionOf(r), t)
    /\ doomed' = [doomed EXCEPT ![r] = Replaced(r)]
    /\ Become(r, [request[r] EXCEPT !.stage = "starting", !.thread = NoThread])
    /\ UNCHANGED <<checkpoints, cleaning, turns, expiries, faults>>

\* adelete_thread, for one of the threads the request has taken on.
DeleteDoomed(r) ==
    /\ \E t \in doomed[r] :
          /\ DeleteThread(t)
          /\ doomed' = [doomed EXCEPT ![r] = @ \ {t}]
    /\ UNCHANGED <<rows, request, cleaning, counters>>

TakeExpiredFirst(r) ==
    /\ At(r, "starting")
    /\ \E S \in Takings :
          /\ Drop(S)
          /\ doomed' = [doomed EXCEPT ![r] = {mapped[s] : s \in S}]
    /\ Goto(r, "selecting")
    /\ UNCHANGED <<checkpoints, cleaning, counters>>

\* get_or_create_checkpoint_session: the SELECT, compared with the clock.
SelectMapping(r) ==
    /\ At(r, "selecting")
    /\ LET s == SessionOf(r)
           live == mapped[s] # NoThread /\ ~expired[s]
       IN Become(r, [request[r] EXCEPT
                        !.stage = IF live THEN "refreshing" ELSE "creating",
                        !.thread = mapped[s],
                        !.count = turnCount[s]])
    /\ UNCHANGED <<rows, checkpoints, doomed, cleaning, counters>>

\* Whether a thread with this many turns has to be rolled over.  After a lost race the
\* request takes the winner's thread whatever its count.
MustRoll_OneLate(r, count) == count > Rollover /\ ~request[r].rolled
MustRoll(r, count) == count >= Rollover /\ ~request[r].rolled

UseThread(r, thread, count) ==
    Become(r, [request[r] EXCEPT
                 !.stage = IF MustRoll(r, count) THEN "rolling" ELSE "ready",
                 !.thread = thread,
                 !.count = count])

\* The live row's expiry is renewed, if the row is still there; the caller gets what
\* the SELECT had returned.
RefreshMapping(r) ==
    /\ At(r, "refreshing")
    /\ expired' = [expired EXCEPT ![SessionOf(r)] = FALSE]
    /\ UseThread(r, request[r].thread, request[r].count)
    /\ UNCHANGED <<mapped, turnCount, checkpoints, doomed, cleaning, counters>>

\* DELETE of a row that has expired, INSERT ... ON CONFLICT DO NOTHING, SELECT.
CreateMapping(r) ==
    /\ At(r, "creating")
    /\ LET s == SessionOf(r) IN
          IF mapped[s] # NoThread /\ ~expired[s]
          THEN /\ UseThread(r, mapped[s], turnCount[s])
               /\ UNCHANGED rows
          ELSE /\ MapTo(s, ThreadId(s))
               /\ UseThread(r, ThreadId(s), 0)
    /\ UNCHANGED <<checkpoints, doomed, cleaning, counters>>

\* The rollover of _checkpoint_config: read the old thread ...
ReadOldThread(r) ==
    /\ At(r, "rolling")
    /\ \E t \in Uuids \ usedUuids :
          /\ usedUuids' = usedUuids \cup {t}
          /\ Become(r, [request[r] EXCEPT !.stage = "seeding", !.next = t,
                                          !.base = memory[request[r].thread]])
    /\ UNCHANGED <<rows, checkpoints, doomed, cleaning, turns, expiries, faults>>

\* ... seed the next thread with the compact state that was read, if there was any, even if
\* somebody has deleted the old thread since ...
SeedFrom_Nothing(r) == {}
SeedFrom(r) == request[r].base
SeedNextThread(r) ==
    /\ At(r, "seeding")
    /\ IF request[r].base # {}
       THEN SaveThread(request[r].next, SeedFrom(r))
       ELSE UNCHANGED checkpoints
    /\ Goto(r, "swapping")
    /\ UNCHANGED <<rows, doomed, cleaning, counters>>

\* ... and switch the mapping if nobody else has (replace_checkpoint_session_thread).
StillOn(r) == mapped[SessionOf(r)] = request[r].thread
SwapMapping(r) ==
    /\ At(r, "swapping")
    /\ IF StillOn(r)
       THEN /\ MapTo(SessionOf(r), request[r].next)
            /\ doomed' = [doomed EXCEPT ![r] = {request[r].thread}]
            /\ Become(r, [request[r] EXCEPT !.stage = "ready", !.thread = request[r].next,
                                            !.next = NoThread])
       ELSE /\ doomed' = [doomed EXCEPT ![r] = {request[r].next}]
            /\ Become(r, [request[r] EXCEPT !.stage = "selecting", !.next = NoThread,
                                            !.rolled = TRUE])
            /\ UNCHANGED rows
    /\ UNCHANGED <<checkpoints, cleaning, counters>>

\* An exception while seeding or switching deletes the seed and fails the request.  What
\* the exception lost may have been the answer to a switch that committed.
RolloverRaises(r) ==
    /\ request[r].stage \in {"seeding", "swapping"} /\ doomed[r] = {}
    /\ faults < MaxFaults
    /\ faults' = faults + 1
    /\ \/ UNCHANGED rows
       \/ request[r].stage = "swapping" /\ StillOn(r) /\ MapTo(SessionOf(r), request[r].next)
    /\ DeleteThread(request[r].next)
    /\ Become(r, Idle)
    /\ UNCHANGED <<doomed, cleaning, usedUuids, turns, expiries>>

\* The graph starts: it reads the thread's newest checkpoint.
LoadThread(r) ==
    /\ At(r, "ready")
    /\ Become(r, [request[r] EXCEPT !.stage = "running", !.base = memory[request[r].thread]])
    /\ UNCHANGED <<rows, checkpoints, doomed, cleaning, counters>>

\* It writes a checkpoint after every node, from the first on with the new turn in it.
SaveCheckpoint(r) ==
    /\ request[r].stage \in {"running", "saved"}
    /\ SaveThread(request[r].thread, request[r].base \cup {request[r].turn})
    /\ Goto(r, "saved")
    /\ UNCHANGED <<rows, doomed, cleaning, counters>>

\* complete_checkpoint_turn counts the turn while its thread is the mapped one.
CompleteTurn(r) ==
    /\ At(r, "saved")
    /\ IF StillOn(r)
       THEN /\ turnCount' = [turnCount EXCEPT ![SessionOf(r)] = @ + 1]
            /\ expired' = [expired EXCEPT ![SessionOf(r)] = FALSE]
       ELSE UNCHANGED <<turnCount, expired>>
    /\ Become(r, Idle)
    /\ UNCHANGED <<mapped, checkpoints, doomed, cleaning, counters>>

\* The client disconnects or the API process ends: the request goes no further.
Abandon(r) ==
    /\ request[r].stage # "idle"
    /\ faults < MaxFaults
    /\ faults' = faults + 1
    /\ Become(r, Idle)
    /\ doomed' = [doomed EXCEPT ![r] = {}]
    /\ UNCHANGED <<rows, checkpoints, cleaning, usedUuids, turns, expiries>>

-----------------------------------------------------------------------------
(* The worker, and time *)

CleanUp ==
    /\ cleaning = {}
    /\ ExpiredSessions # {}
    /\ \E S \in Takings : Drop(S) /\ cleaning' = {mapped[s] : s \in S}
    /\ UNCHANGED <<checkpoints, request, doomed, counters>>

DeleteCleaned ==
    /\ \E t \in cleaning : DeleteThread(t) /\ cleaning' = cleaning \ {t}
    /\ UNCHANGED <<rows, request, doomed, counters>>

WorkerStops ==
    /\ cleaning # {}
    /\ faults < MaxFaults
    /\ faults' = faults + 1
    /\ cleaning' = {}
    /\ UNCHANGED <<rows, checkpoints, request, doomed, usedUuids, turns, expiries>>

\* session_ttl_days pass without a turn of this session.
Expire(s) ==
    /\ mapped[s] # NoThread /\ ~expired[s]
    /\ ~Busy(s)
    /\ expiries < MaxExpiries
    /\ expiries' = expiries + 1
    /\ expired' = [expired EXCEPT ![s] = TRUE]
    /\ UNCHANGED <<mapped, turnCount, checkpoints, request, doomed, cleaning, usedUuids,
                   turns, faults>>

Step(r) ==
    \/ ReadReplaced(r) \/ ResetMapping(r) \/ DeleteDoomed(r) \/ TakeExpiredFirst(r)
    \/ SelectMapping(r) \/ RefreshMapping(r) \/ CreateMapping(r)
    \/ ReadOldThread(r) \/ SeedNextThread(r) \/ SwapMapping(r)
    \/ LoadThread(r) \/ SaveCheckpoint(r) \/ CompleteTurn(r)

Next ==
    \/ \E r \in Requests :
          \/ \E s \in Sessions : Begin(r, s)
          \/ Step(r) \/ RolloverRaises(r) \/ Abandon(r)
    \/ CleanUp \/ DeleteCleaned \/ WorkerStops
    \/ \E s \in Sessions : Expire(s)

Spec == Init /\ [][Next]_vars

-----------------------------------------------------------------------------
\* Two users who choose the same session label never share short-term memory: the
\* thread a session maps to holds only turns of that session, whatever resets,
\* rollovers, expiries and late checkpoints of abandoned threads happen.
Isolation ==
    \A s \in Sessions : mapped[s] # NoThread =>
        /\ \A t \in memory[mapped[s]] : t[1] = s
        /\ \A other \in Sessions : mapped[other] = mapped[s] => other = s

\* A thread takes at most one turn per concurrent request beyond the rollover limit,
\* though the limit is read when a turn starts and the count written when it ends.
RolloverBound ==
    \A s \in Sessions : turnCount[s] < Rollover + Cardinality(Requests)

\* A thread whose deletion has been decided is not the thread of any session
\* (take_expired_checkpoint_threads: "return their LangGraph threads for safe deletion"),
\* save one: a session's first thread has a name that is its own, so a session that returns
\* while the worker still deletes its expired threads may be given that thread again.
SafeDeletion ==
    \A s \in Sessions :
        /\ mapped[s] \in cleaning => mapped[s] = ThreadId(s)
        /\ \A r \in Requests : mapped[s] \in doomed[r] => mapped[s] = ThreadId(s)

\* Every thread with checkpoints is some session's, or somebody is about to use or
\* delete it: no reset, rollover or expiry leaves one behind that nothing will ever delete
\* (docs/rag-two-layer-memory.md: the worker "removes threads whose session mapping has
\* expired, so idle sessions cannot accumulate indefinitely").
NoOrphanThreads ==
    \A t \in saved :
        \/ \E s \in Sessions : mapped[s] = t
        \/ t \in cleaning
        \/ \E r \in Requests : t \in doomed[r] \/ request[r].next = t

\* What the user sees of it is SessionMemory: rollover is invisible.  A session remembers what
\* its next turn would find: a session without a row is given its first thread.  It may lose
\* that while the worker or a request still has the thread to delete.
NextThread(s) == IF mapped[s] = NoThread THEN ThreadId(s) ELSE mapped[s]
Remembered == [s \in Sessions |-> memory[NextThread(s)]]
MayForget ==
    [s \in Sessions |->
        \/ expired[s]
        \/ NextThread(s) \in cleaning \cup UNION {doomed[r] : r \in Requests}
        \/ \E r \in Requests :
              /\ request[r].stage # "idle" /\ SessionOf(r) = s
              /\ \/ request[r].stage \in {"editing", "resetting"}
                 \/ ~(request[r].base \subseteq Remembered[s])]
Abstract == INSTANCE SessionMemory WITH remembered <- Remembered, mayForget <- MayForget
RefinesSessionMemory == Abstract!Spec
=============================================================================
