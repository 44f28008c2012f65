---------------------------- MODULE ChatHistory ----------------------------
(***************************************************************************)
(* One chat session as the API keeps it: the display history in            *)
(* chat_messages (conversations/store.py) and what the session's           *)
(* short-term thread remembers, which only the graph reads and writes      *)
(* (api/chat.py: chat_stream, retrieve_debug; agent/graph.py:              *)
(* reset_session_context).  No transaction spans the two, and a request    *)
(* takes several.                                                          *)
(*                                                                         *)
(* The words of a message are reduced to the request they came with, and   *)
(* an answer to the request it answers.  A step is one transaction, or the *)
(* part of one up to the next statement that another request may precede.  *)
(*                                                                         *)
(* The window of the thread and its rollover are TurnGraph's and           *)
(* CheckpointSessions' matter; here a thread keeps all it is told.         *)
(***************************************************************************)
EXTENDS Naturals, Sequences, FiniteSets, SequencesExt

CONSTANTS
    Clients,      \* browser tabs, each with one request at a time (isRunning)
    ListLimit,    \* the limit of list_messages
    HistoryTake,  \* how many messages of the history a turn takes up: history[-12:]
    MaxRequests,  \* bound: requests
    MaxStops      \* bound: clients that disconnect, requests that fail

ASSUME BoundsAssumption ==
    /\ ListLimit \in Nat \ {0}
    /\ HistoryTake \in Nat \ {0}
    /\ MaxRequests \in Nat /\ MaxStops \in Nat

VARIABLES
    exists,   \* whether chat_sessions has the row
    rows,     \* the session's chat_messages
    clock,    \* the last created_at given out
    mapped,   \* the thread that checkpoint_sessions maps the session to
    threads,  \* what each thread remembers
    open,     \* the request of each client
    late,     \* transactions that outlive the request which started them
    discarded,  \* what edits took off the display
    orderly,    \* no two requests have run at the same time, none has outlived its client
                \* or failed between the two stores
    asked, stops, resets

vars == <<exists, rows, clock, mapped, threads, open, late, discarded, orderly,
          asked, stops, resets>>

Requests == 1..MaxRequests
Roles == {"user", "assistant"}
Entries == [role : Roles, text : Requests]

\* made is the request that inserted the row and stands for its id; text may be edited.
Rows == [role : Roles, made : Requests, text : Requests, at : Nat]

Stages ==
    {"idle",
     "listing", "target", "ordering", "replacing", "relisting", "resetting", "forgetting",
     "user_check", "user_insert",
     "resolving", "preparing", "answering",
     "answer_check", "answer_insert"}

\* A request: what it is for, where it stands, and what it holds in local variables.
OpenType ==
    [stage : Stages,
     kind : {"send", "edit", "retrieve"},
     text : Requests \cup {0},
     edited : Requests \cup {0},        \* replace_message_id
     at : Nat,                          \* the created_at of the message it appends
     later : SUBSET (Roles \X Requests),  \* ordered_message_ids past the edited one
     history : Seq(Entries),            \* what it hands to the graph
     thread : 0..MaxRequests,           \* the thread its turn runs on, or leaves
     context : Seq(Entries)]            \* state["messages"] of its turn

Idle == [stage |-> "idle", kind |-> "send", text |-> 0, edited |-> 0, at |-> 0, later |-> {},
         history |-> <<>>, thread |-> 0, context |-> <<>>]

TypeOK ==
    /\ exists \in BOOLEAN
    /\ rows \subseteq Rows
    /\ clock \in Nat
    /\ mapped \in 0..MaxRequests
    /\ threads \in [0..MaxRequests -> Seq(Entries)]
    /\ open \in [Clients -> OpenType]
    /\ late \subseteq OpenType
    /\ asked \in 0..MaxRequests /\ stops \in 0..MaxStops /\ resets \in 0..MaxRequests
    /\ discarded \subseteq Requests
    /\ orderly \in BOOLEAN

Init ==
    /\ exists = TRUE
    /\ rows = {}
    /\ clock = 0
    /\ mapped = 0
    /\ threads = [t \in 0..MaxRequests |-> <<>>]
    /\ open = [c \in Clients |-> Idle]
    /\ late = {}
    /\ asked = 0 /\ stops = 0 /\ resets = 0
    /\ discarded = {} /\ orderly = TRUE

-----------------------------------------------------------------------------
(* The store *)

\* The i-th of the rows when they are put in order: i - 1 of them are older.
Nth(set, i) == CHOOSE r \in set : Cardinality({q \in set : q.at < r.at}) = i - 1
EntryOf(row) == [role |-> row.role, text |-> row.text]
Said(set) == [i \in 1..Cardinality(set) |-> EntryOf(Nth(set, i))]

\* list_messages: the oldest ones come first, and the limit cuts the newest off.
Listed ==
    LET all == Said(rows) IN SubSeq(all, 1, IF Len(all) <= ListLimit THEN Len(all) ELSE ListLimit)

IdOf(row) == <<row.role, row.made>>
Texts(set) == {r.text : r \in set}

\* ordered_message_ids[target_index + 1 :]
Later_Inclusive(target) == {IdOf(r) : r \in {q \in rows : q.at >= target.at}}
Later(target) == {IdOf(r) : r \in {q \in rows : q.at > target.at}}

-----------------------------------------------------------------------------
(* Requests *)

Move(c, change) == open' = [open EXCEPT ![c] = change]
To(req, stage) == [req EXCEPT !.stage = stage]

\* A request comes in: get_session finds the session of the account.
Begin(c, req) ==
    /\ open[c] = Idle
    /\ exists
    /\ asked < MaxRequests
    /\ asked' = asked + 1
    /\ orderly' = (orderly /\ late = {} /\ \A d \in Clients : open[d] = Idle)
    /\ Move(c, [req EXCEPT !.text = asked + 1])
    /\ UNCHANGED <<exists, rows, clock, mapped, threads, late, discarded, stops, resets>>

Send(c) == Begin(c, [Idle EXCEPT !.stage = "listing"])

\* The client edits a question that it was shown, which may be gone by now.
Edit(c) ==
    \E q \in 1..asked :
        Begin(c, [Idle EXCEPT !.kind = "edit", !.stage = "target", !.edited = q])

\* retrieve_debug keeps no display row and hands over no history.
Retrieve(c) == Begin(c, [Idle EXCEPT !.kind = "retrieve", !.stage = "resolving"])

\* delete_session: one transaction, which knows nothing of the session's thread.
DeleteSession(c) ==
    /\ open[c] = Idle
    /\ exists
    /\ orderly' = (orderly /\ late = {} /\ \A d \in Clients : open[d] = Idle)
    /\ exists' = FALSE
    /\ rows' = {}
    /\ UNCHANGED <<clock, mapped, threads, open, late, discarded, asked, stops, resets>>

Step(c, stage) == open[c].stage = stage

ListHistory(c) ==
    /\ Step(c, "listing")
    /\ Move(c, [open[c] EXCEPT !.stage = "user_check", !.history = Listed])
    /\ UNCHANGED <<exists, rows, clock, mapped, threads, late, discarded, orderly, asked, stops, resets>>

\* append_message takes its created_at first, then looks the session up: KeyError if it is
\* gone, which ends the request.
CheckSession(c, from, next) ==
    /\ Step(c, from)
    /\ clock' = clock + 1
    /\ Move(c, IF exists THEN [open[c] EXCEPT !.stage = next, !.at = clock + 1] ELSE Idle)
    /\ UNCHANGED <<exists, rows, mapped, threads, late, discarded, orderly, asked, stops, resets>>

\* INSERT INTO chat_messages asks no longer whether there is a session.
RowOf_EditedId(req, role) == [role |-> role, made |-> req.edited, text |-> req.text, at |-> req.at]
RowOf(req, role) == [role |-> role, made |-> req.text, text |-> req.text, at |-> req.at]

InsertMessage(c, from, role, next) ==
    /\ Step(c, from)
    /\ rows' = rows \cup {RowOf(open[c], role)}
    /\ Move(c, next)
    /\ UNCHANGED <<exists, clock, mapped, threads, late, discarded, orderly, asked, stops, resets>>

CheckBeforeQuestion(c) == CheckSession(c, "user_check", "user_insert")
InsertQuestion(c) == InsertMessage(c, "user_insert", "user", To(open[c], "resolving"))
CheckBeforeAnswer(c) == CheckSession(c, "answer_check", "answer_insert")
InsertAnswer(c) == InsertMessage(c, "answer_insert", "assistant", Idle)

\* replace_user_message_and_truncate reads the edited message ...
FindTarget(c) ==
    /\ Step(c, "target")
    /\ \/ (\E r \in rows : IdOf(r) = <<"user", open[c].edited>>) /\ Move(c, To(open[c], "ordering"))
       \/ (\A r \in rows : IdOf(r) # <<"user", open[c].edited>>) /\ Move(c, Idle)   \* 404
    /\ UNCHANGED <<exists, rows, clock, mapped, threads, late, discarded, orderly, asked, stops, resets>>

\* ... then the ids, among which it may be no longer ...
ReadOrder(c) ==
    /\ Step(c, "ordering")
    /\ LET target == {r \in rows : IdOf(r) = <<"user", open[c].edited>>} IN
       \/ target = {} /\ Move(c, Idle)   \* 404
       \/ \E t \in target :
             Move(c, [open[c] EXCEPT !.stage = "replacing", !.at = t.at, !.later = Later(t)])
    /\ UNCHANGED <<exists, rows, clock, mapped, threads, late, discarded, orderly, asked, stops, resets>>

\* ... and updates and deletes by those ids, unless the session is gone.
Kept_All(req) == rows
Kept(req) == {r \in rows : IdOf(r) \notin req.later}

Rewritten(req, set) ==
    {IF IdOf(r) = <<"user", req.edited>> THEN [r EXCEPT !.text = req.text] ELSE r : r \in set}

ReplaceAndTruncate(c) ==
    /\ Step(c, "replacing")
    /\ IF exists
       THEN /\ rows' = Rewritten(open[c], Kept(open[c]))
            /\ discarded' = discarded \cup (Texts(rows) \ Texts(rows'))
            /\ Move(c, To(open[c], "relisting"))
       ELSE Move(c, Idle) /\ UNCHANGED <<rows, discarded>>
    /\ UNCHANGED <<exists, clock, mapped, threads, late, orderly, asked, stops, resets>>

\* The history of an edited turn: retained_messages[:-1].
Retained_All(list) == list
Retained(list) == IF list = <<>> THEN <<>> ELSE Front(list)

RelistRetained(c) ==
    /\ Step(c, "relisting")
    /\ Move(c, [open[c] EXCEPT !.stage = "resetting", !.history = Retained(Listed)])
    /\ UNCHANGED <<exists, rows, clock, mapped, threads, late, discarded, orderly, asked, stops, resets>>

\* reset_short_term_session maps the session to a fresh thread.
Remapped_Same == mapped
Remapped == resets + 1

ResetContext(c) ==
    /\ Step(c, "resetting")
    /\ resets' = resets + 1
    /\ mapped' = Remapped
    /\ Move(c, [open[c] EXCEPT !.stage = "forgetting", !.thread = mapped])
    /\ UNCHANGED <<exists, rows, clock, threads, late, discarded, orderly, asked, stops>>

\* What comes after the branch of chat_stream that edits: the turn, and no append.
AfterForgetting_Appending == "user_check"
AfterForgetting == "resolving"

\* adelete_thread of the old one, when it is another.
ForgetThread(c) ==
    /\ Step(c, "forgetting")
    /\ threads' = IF open[c].thread = mapped THEN threads
                  ELSE [threads EXCEPT ![open[c].thread] = <<>>]
    /\ Move(c, To(open[c], AfterForgetting))
    /\ UNCHANGED <<exists, rows, clock, mapped, late, discarded, orderly, asked, stops, resets>>

-----------------------------------------------------------------------------
(* The turn *)

ResolveThread(c) ==
    /\ Step(c, "resolving")
    /\ Move(c, [open[c] EXCEPT !.stage = "preparing", !.thread = mapped])
    /\ UNCHANGED <<exists, rows, clock, mapped, threads, late, discarded, orderly, asked, stops, resets>>

Newest(list, n) == IF Len(list) <= n THEN list ELSE SubSeq(list, Len(list) - n + 1, Len(list))
Question(req) == [role |-> "user", text |-> req.text]
Answer(req) == [role |-> "assistant", text |-> req.text]

\* prepare_turn: a thread that remembers something goes before the history.
PrepareTurn(c) ==
    /\ Step(c, "preparing")
    /\ LET req == open[c]
           known == threads[req.thread]
           before == IF known = <<>> THEN Newest(req.history, HistoryTake) ELSE known
           context == Append(before, Question(req))
       IN /\ threads' = [threads EXCEPT ![req.thread] = context]
          /\ Move(c, [req EXCEPT !.stage = "answering", !.context = context])
    /\ UNCHANGED <<exists, rows, clock, mapped, late, discarded, orderly, asked, stops, resets>>

\* update_memory saves the turn's own copy of the messages with the answer; the final
\* event follows.  /retrieve returns it and appends nothing.
FinishTurn(c) ==
    /\ Step(c, "answering")
    /\ LET req == open[c] IN
       /\ threads' = [threads EXCEPT ![req.thread] = Append(req.context, Answer(req))]
       /\ Move(c, IF req.kind = "retrieve" THEN Idle ELSE To(req, "answer_check"))
    /\ UNCHANGED <<exists, rows, clock, mapped, late, discarded, orderly, asked, stops, resets>>

\* The turn ends without an answer: a rejected message, an exception in a node.
FailTurn(c) ==
    /\ Step(c, "answering")
    /\ Move(c, Idle)
    /\ UNCHANGED <<exists, rows, clock, mapped, threads, late, discarded, orderly, asked, stops, resets>>

\* The client disconnects and its stream is cancelled where it awaits.  A transaction that
\* runs in a thread (asyncio.to_thread) is not cancelled with it.
StopStream(c) ==
    /\ open[c].stage \in {"resolving", "preparing", "answering", "answer_check", "answer_insert"}
    /\ stops < MaxStops
    /\ stops' = stops + 1
    /\ late' = IF Step(c, "answer_insert") THEN late \cup {open[c]} ELSE late
    /\ orderly' = (orderly /\ ~Step(c, "answer_insert"))
    /\ Move(c, Idle)
    /\ UNCHANGED <<exists, rows, clock, mapped, threads, discarded, asked, resets>>

\* A database error or a restart ends an edit after the display history was truncated and
\* before the thread was reset.
FailBeforeReset(c) ==
    /\ open[c].stage \in {"relisting", "resetting"}
    /\ stops < MaxStops
    /\ stops' = stops + 1
    /\ orderly' = FALSE
    /\ Move(c, Idle)
    /\ UNCHANGED <<exists, rows, clock, mapped, threads, late, discarded, asked, resets>>

InsertLate ==
    \E req \in late :
        /\ late' = late \ {req}
        /\ rows' = rows \cup {RowOf(req, "assistant")}
        /\ UNCHANGED <<exists, clock, mapped, threads, open, discarded, orderly, asked, stops, resets>>

Handle(c) ==
    \/ Send(c) \/ Edit(c) \/ Retrieve(c) \/ DeleteSession(c)
    \/ ListHistory(c) \/ CheckBeforeQuestion(c) \/ InsertQuestion(c)
    \/ FindTarget(c) \/ ReadOrder(c) \/ ReplaceAndTruncate(c) \/ RelistRetained(c)
    \/ ResetContext(c) \/ ForgetThread(c)
    \/ ResolveThread(c) \/ PrepareTurn(c) \/ FinishTurn(c) \/ FailTurn(c)
    \/ CheckBeforeAnswer(c) \/ InsertAnswer(c)
    \/ StopStream(c) \/ FailBeforeReset(c)

Next == InsertLate \/ \E c \in Clients : Handle(c)

Spec == Init /\ [][Next]_vars

-----------------------------------------------------------------------------
\* However requests interleave, the words of a request are on display as one user message
\* at most (docs/project-constraints.md, section 9: "The API must never append a duplicate
\* user message for this operation").
QuestionShownOnce ==
    \A r, s \in rows : r.role = "user" /\ s.role = "user" /\ r.text = s.text => r = s

\* However requests interleave, an edit takes away only messages that came after the one
\* it edits; only the deletion of the session takes others.
EditsOnlyTruncate ==
    [][exists' => \A r \in rows :
            (\A s \in rows' : IdOf(s) # IdOf(r)) =>
                \E c \in Clients : Step(c, "replacing") /\ r.at > open[c].at]_vars

\* While requests come one after another, the turn of an edited question runs on exactly the
\* messages retained before it (the newest of them), as long as the session fits the listing.
EditRunsOnRetained ==
    \A c \in Clients :
        orderly /\ open[c].kind = "edit" /\ Step(c, "answering") /\ Cardinality(rows) <= ListLimit =>
            LET before == {r \in rows : \E q \in rows : q.text = open[c].text /\ r.at < q.at}
            IN open[c].context = Append(Newest(Said(before), HistoryTake), Question(open[c]))

\* While requests come one after another, no later turn is told what an edit discarded: not
\* by the history it is handed, nor by the thread it runs on.
DiscardedStaysOut ==
    \A c \in Clients :
        orderly /\ Step(c, "answering") =>
            \A i \in 1..Len(open[c].context) : open[c].context[i].text \notin discarded

\* While requests come one after another, an answer on display stands directly below the
\* question it answers.
OneBranch ==
    \A r \in rows :
        orderly /\ r.role = "assistant" =>
            \E q \in rows :
                /\ q.role = "user" /\ q.text = r.text /\ q.at < r.at
                /\ \A s \in rows : ~(q.at < s.at /\ s.at < r.at)
=============================================================================
