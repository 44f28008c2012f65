------------------------------ MODULE WebClient ------------------------------
(***************************************************************************)
(* One browser tab of the chat application: ChatShell in                   *)
(* apps/rag-platform/src/components/chat/chat-shell.tsx, with the session  *)
(* endpoints it calls (api/conversations.py, conversations/store.py).      *)
(*                                                                         *)
(* Both app/chat/page.tsx and app/chat/[sessionId]/page.tsx render a       *)
(* ChatShell of their own, and Next keys a page by its parameter: every    *)
(* change of address unmounts the ChatShell there is and mounts a new one, *)
(* with new state and new refs.  The handlers of one that is unmounted go  *)
(* on: what they set is lost, but their requests reach the server, and     *)
(* router.push still moves the tab.                                        *)
(*                                                                         *)
(* JavaScript runs a handler up to its next await, so a step is one of:    *)
(* a click, a navigation that takes effect, the answer to one request, the *)
(* continuation of a handler with that answer.  Answers are read from the  *)
(* server at one time and arrive at another, in any order.  A handler goes *)
(* on with the session and the session list of the render that made it.    *)
(*                                                                         *)
(* Of the messages it is kept whether there are any, and no titles.        *)
(***************************************************************************)
EXTENDS Naturals, Sequences, FiniteSets, SequencesExt

CONSTANTS
    Root, Login,  \* the addresses /chat and /login; a session's address is the session
    None,
    Limit,        \* the limit of list_sessions, 50
    MaxSessions,  \* bound: sessions ever created, the two that there are at first included
    MaxClicks,    \* bound: what the user does
    MaxTroubles   \* bound: requests that fail, and what other tabs of the account do

ASSUME BoundsAssumption ==
    /\ Limit \in Nat \ {0} /\ MaxSessions \in Nat \ {0, 1}
    /\ MaxClicks \in Nat /\ MaxTroubles \in Nat
ASSUME AddressesAssumption ==
    Cardinality({Root, Login, None}) = 3 /\ \A a \in {Root, Login, None} : a \notin 1 .. MaxSessions

VARIABLES
    \* the server
    order,    \* the account's sessions, the last updated one first
    created,  \* how many were ever created
    signedIn, \* whether the cookie's login session is valid
    \* the router
    route,    \* the address: requestedSessionId is the session in it
    target,   \* the address that router.push or router.replace is on the way to
    \* the ChatShell of this address
    screen,   \* bootstrapPhase; "ready" is workspaceReady
    list,     \* sessions
    shown,    \* whether there may be messages
    loading,  \* initializing
    \* what is in flight, of this ChatShell and of those before it
    calls,    \* requests, each with what its handler goes on with
    turns,    \* submits
    clicks, troubles,  \* counted against the bounds
    removed,  \* history: sessions whose removal from their own page was confirmed
    stranded  \* history: this page was to be left, and that navigation was lost

server == <<order, created, signedIn>>
router == <<route, target, stranded>>
shell == <<screen, list, shown, loading>>
counters == <<clicks, troubles>>
vars == <<server, router, shell, calls, turns, counters, removed>>

Sessions == 1 .. MaxSessions

\* The answer to a request: whether it went well, and the session and the list it brings.
Reply(status, active, sessions) == [status |-> status, active |-> active, list |-> sessions]
Pending == Reply("none", None, << >>)
Failed(status) == Reply(status, None, << >>)
Replies == [status : {"none", "ok", "401", "404", "failed"},
            active : Sessions \cup {None}, list : Seq(Sessions)]

\* The address of the page that made it; the session it is about; for a removal, the list that
\* is to be kept; for a creation, whether the page was emptied for it; whether that page is
\* still mounted; the click it goes back to.
Calls == [op : {"load", "list", "create", "delete", "rename", "logout"},
          at : Sessions \cup {Root}, session : Sessions \cup {None}, kept : Seq(Sessions),
          emptied : BOOLEAN, mounted : BOOLEAN, id : Nat, reply : Replies]

Turns == [of : Sessions, stage : {"sent", "open", "refreshing", "refreshed", "refused"},
          mounted : BOOLEAN, id : Nat]

TypeOK ==
    /\ order \in Seq(Sessions) /\ IsInjective(order)
    /\ created \in 0 .. MaxSessions
    /\ signedIn \in BOOLEAN
    /\ route \in Sessions \cup {Root, Login}
    /\ target \in Sessions \cup {Root, Login, None}
    /\ screen \in {"checking", "error", "ready"}
    /\ list \in Seq(Sessions)
    /\ shown \in BOOLEAN /\ loading \in BOOLEAN
    /\ calls \subseteq Calls /\ turns \subseteq Turns
    /\ \A c \in calls :
          c.op \in {"load", "create"} /\ c.reply.status = "ok" => c.reply.active \in Sessions
    /\ clicks \in 0 .. MaxClicks /\ troubles \in 0 .. MaxTroubles
    /\ removed \subseteq Sessions /\ stranded \in BOOLEAN

Call(op, at, session, kept, id) ==
    [op |-> op, at |-> at, session |-> session, kept |-> kept, emptied |-> FALSE,
     mounted |-> TRUE, id |-> id, reply |-> Pending]
Load(at) == Call("load", at, None, << >>, 0)

\* The page is opened at /chat, with two sessions on the server.
Init ==
    /\ order = <<2, 1>> /\ created = 2 /\ signedIn = TRUE
    /\ route = Root /\ target = None /\ stranded = FALSE
    /\ screen = "checking" /\ list = << >> /\ shown = FALSE /\ loading = TRUE
    /\ calls = {Load(Root)} /\ turns = {}
    /\ clicks = 0 /\ troubles = 0
    /\ removed = {}

-----------------------------------------------------------------------------
(* The server.                                                             *)

Live(s) == s \in Range(order)

\* The n-th of a set of places is the one with n - 1 others before it.
Place(places, n) == CHOOSE i \in places : Cardinality({j \in places : j < i}) = n - 1

\* DELETE, and Array.filter: what is left stays in order.
Without(seq, s) ==
    LET left == {i \in DOMAIN seq : seq[i] # s}
    IN  [n \in 1 .. Cardinality(left) |-> seq[Place(left, n)]]
Touched(s) == <<s>> \o Without(order, s)
FirstOf(seq) == SubSeq(seq, 1, IF Len(seq) <= Limit THEN Len(seq) ELSE Limit)

Serve(sessions, made, valid, reply) ==
    [order |-> sessions, created |-> made, signedIn |-> valid, reply |-> reply]
Unchanged(reply) == Serve(order, created, signedIn, reply)

\* A new session is the last updated one; MaxSessions bounds them.
Created(sessions) ==
    IF created = MaxSessions THEN Unchanged(Failed("failed"))
    ELSE Serve(<<created + 1>> \o order, created + 1, signedIn, Reply("ok", created + 1, sessions))

Bootstrapped_FirstListed(requested) ==
    LET listed == FirstOf(order)
    IN  CASE requested # Root /\ requested \notin Range(listed) -> Unchanged(Failed("404"))
          [] requested # Root /\ requested \in Range(listed) ->
                Unchanged(Reply("ok", requested, listed))
          [] requested = Root /\ listed # << >> -> Unchanged(Reply("ok", Head(listed), listed))
          [] OTHER -> Unchanged(Reply("ok", None, listed))

\* bootstrap_chat_workspace looks for the requested session among the listed ones; without a
\* request it takes the first of them, or creates one.
Bootstrapped(requested) ==
    LET listed == FirstOf(order)
    IN  CASE requested # Root /\ requested \notin Range(listed) -> Unchanged(Failed("404"))
          [] requested # Root /\ requested \in Range(listed) ->
                Unchanged(Reply("ok", requested, listed))
          [] requested = Root /\ listed # << >> -> Unchanged(Reply("ok", Head(listed), listed))
          [] OTHER -> Created(<<created + 1>>)

\* DELETE and PATCH of a session: a renamed one is the last updated.
Changed(s, sessions) ==
    IF Live(s) THEN Serve(sessions, created, signedIn, Reply("ok", None, << >>))
    ELSE Unchanged(Failed("404"))

\* Logging out takes the cookie off, and goes well without one.
Served(c) ==
    CASE c.op = "logout" -> Serve(order, created, FALSE, Reply("ok", None, << >>))
      [] c.op # "logout" /\ ~signedIn -> Unchanged(Failed("401"))
      [] signedIn /\ c.op = "load" -> Bootstrapped(c.at)
      [] signedIn /\ c.op = "create" -> Created(<< >>)
      [] signedIn /\ c.op = "delete" -> Changed(c.session, Without(order, c.session))
      [] signedIn /\ c.op = "rename" -> Changed(c.session, Touched(c.session))
      [] signedIn /\ c.op = "list" -> Unchanged(Reply("ok", None, FirstOf(order)))

ServerBecomes(served) ==
    order' = served.order /\ created' = served.created /\ signedIn' = served.signedIn

Replied(c, reply) == (calls \ {c}) \cup {[c EXCEPT !.reply = reply]}

\* The answer is made here, and arrives with the handler's next step.
Answer(c) ==
    /\ c.reply = Pending
    /\ ServerBecomes(Served(c))
    /\ calls' = Replied(c, Served(c).reply)
    /\ UNCHANGED <<router, shell, turns, counters, removed>>

\* The network or the server fails: with or without the request's effect.
AnswerFails(c) ==
    /\ c.reply = Pending
    /\ troubles < MaxTroubles /\ troubles' = troubles + 1
    /\ UNCHANGED server \/ ServerBecomes(Served(c))
    /\ calls' = Replied(c, Failed("failed"))
    /\ UNCHANGED <<router, shell, turns, clicks, removed>>

\* Another tab or device of the account deletes a session, or signs the browser out.
OtherTab ==
    /\ troubles < MaxTroubles /\ troubles' = troubles + 1
    /\ \/ \E s \in Range(order) : order' = Without(order, s) /\ UNCHANGED signedIn
       \/ signedIn' = FALSE /\ UNCHANGED order
    /\ UNCHANGED <<created, router, shell, calls, turns, clicks, removed>>

-----------------------------------------------------------------------------
(* The router.                                                             *)

AtChat == route # Login
LoadUnderWay == \E c \in calls : c.op = "load" /\ c.mounted

\* router.push and router.replace: the last one counts.  A page that was to be left stays when a
\* late answer sends the tab to the address it still has.
Push(address) ==
    /\ target' = address
    /\ stranded' = /\ address = route
                   /\ \/ stranded
                      \/ /\ target \notin {None, route}
                         /\ (loading /\ ~LoadUnderWay) \/ route \in removed

\* What becomes of the requests of a page that is unmounted: its load is cancelled -- of two
\* such, the older has the higher number -- and nobody sees the list it asked for.
Left == {[c EXCEPT !.mounted = FALSE, !.id = IF c.op = "load" THEN @ + 1 ELSE @] :
            c \in {d \in calls : d.op # "list"}}

\* The router gets to the address it was last sent to; at the one it has, nothing happens.  At
\* another one a ChatShell is mounted, whose effect requests the workspace of the address; its
\* bootstrapCacheRef holds nothing yet, and is never read once it does.
Navigate ==
    /\ target # None /\ target' = None
    /\ route' = target
    /\ \/ target = route /\ UNCHANGED <<stranded, shell, calls, turns>>
       \/ /\ target # route
          /\ stranded' = FALSE
          /\ screen' = "checking" /\ list' = << >> /\ shown' = FALSE
          /\ loading' = (target # Login)
          /\ calls' = Left \cup (IF target = Login THEN {} ELSE {Load(target)})
          /\ turns' = {[t EXCEPT !.mounted = FALSE] : t \in turns}
    /\ UNCHANGED <<server, counters, removed>>

-----------------------------------------------------------------------------
(* The load effect, which runs when a page is mounted and for every retry. *)

Retry ==
    /\ AtChat /\ screen = "error"
    /\ clicks < MaxClicks /\ clicks' = clicks + 1
    /\ screen' = "checking" /\ loading' = TRUE
    /\ calls' = calls \cup {Load(route)}
    /\ UNCHANGED <<server, router, list, shown, turns, troubles, removed>>

\* if (cancelled) return; /chat goes on to its session, a session's page is displayed.
LoadArrives(c) ==
    /\ c.op = "load" /\ c.reply # Pending
    /\ calls' = calls \ {c}
    /\ \/ ~c.mounted /\ UNCHANGED <<router, shell>>
       \/ /\ c.mounted /\ c.reply.status = "ok" /\ c.at = Root
          /\ Push(c.reply.active)
          /\ UNCHANGED <<route, shell>>
       \/ /\ c.mounted /\ c.reply.status = "ok" /\ c.at # Root
          /\ screen' = "ready" /\ list' = c.reply.list /\ shown' = TRUE /\ loading' = FALSE
          /\ UNCHANGED router
       \/ /\ c.mounted /\ c.reply.status \in {"401", "404"}
          /\ Push(IF c.reply.status = "401" THEN Login ELSE Root)
          /\ UNCHANGED <<route, shell>>
       \/ /\ c.mounted /\ c.reply.status = "failed"
          /\ screen' = "error" /\ loading' = FALSE
          /\ UNCHANGED <<router, list, shown>>
    /\ UNCHANGED <<server, turns, counters, removed>>

-----------------------------------------------------------------------------
(* The session list.                                                       *)

Click == AtChat /\ screen = "ready" /\ clicks < MaxClicks /\ clicks' = clicks + 1

\* The page is emptied before it goes to the address of a session.
Empty == shown' = FALSE /\ loading' = TRUE

SelectSession(s) ==
    /\ Click
    /\ s \in Range(list) /\ s # route
    /\ Empty /\ Push(s)
    /\ UNCHANGED <<server, route, screen, list, calls, turns, troubles, removed>>

\* The browser's Back button, to a session it has been at before.
GoBack(s) ==
    /\ clicks < MaxClicks /\ clicks' = clicks + 1
    /\ s \in 1 .. created /\ s # route /\ \A c \in calls : c.reply.active # s
    /\ Push(s)
    /\ UNCHANGED <<server, route, shell, calls, turns, troubles, removed>>

\* startNewSession, removeSession, commitRename and signOut, up to their await.
Ask(op, session) ==
    /\ Click
    /\ calls' = calls \cup {Call(op, route, session,
                                 IF op = "delete" THEN Without(list, session) ELSE << >>, clicks')}
    /\ UNCHANGED <<server, router, shell, turns, troubles, removed>>

StartNewSession == Ask("create", None)
RemoveSession(s) == s \in Range(list) /\ Ask("delete", s)
RenameSession(s) == s \in Range(list) /\ Ask("rename", s)
SignOut == Ask("logout", None)

\* A failure is displayed, and leaves the page as it is.
CreateArrives(c) ==
    /\ c.op = "create" /\ c.reply # Pending
    /\ calls' = calls \ {c}
    /\ \/ /\ c.reply.status = "ok"
          /\ IF c.mounted THEN list' = <<c.reply.active>> \o list /\ Empty
             ELSE UNCHANGED <<list, shown, loading>>
          /\ Push(c.reply.active)
       \/ /\ c.reply.status # "ok"
          /\ stranded' = (stranded \/ (c.emptied /\ c.at = route))
          /\ UNCHANGED <<target, list, shown, loading>>
    /\ UNCHANGED <<server, route, screen, turns, counters, removed>>

\* After a removal of the session that was at the address of the click, the tab goes to the
\* first of those that the list of the click keeps, or to a new one.
AfterRemoval(c) ==
    IF c.kept # << >> THEN calls' = calls \ {c} /\ Push(Head(c.kept))
    ELSE /\ calls' = (calls \ {c}) \cup
                {[Call("create", c.at, None, << >>, c.id) EXCEPT !.emptied = TRUE,
                                                                 !.mounted = c.mounted]}
         /\ UNCHANGED <<target, stranded>>

DeleteArrives_Mounted(c) ==
    /\ c.op = "delete" /\ c.reply # Pending
    /\ LET own == c.reply.status = "ok" /\ c.session = c.at IN
       /\ list' = IF c.mounted /\ c.reply.status = "ok" THEN c.kept ELSE list
       /\ IF own /\ c.mounted THEN Empty ELSE UNCHANGED <<shown, loading>>
       /\ IF own /\ c.mounted THEN AfterRemoval(c)
          ELSE calls' = calls \ {c} /\ UNCHANGED <<target, stranded>>
       /\ removed' = IF own THEN removed \cup {c.session} ELSE removed
    /\ UNCHANGED <<server, route, screen, turns, counters>>

DeleteArrives(c) ==
    /\ c.op = "delete" /\ c.reply # Pending
    /\ LET own == c.reply.status = "ok" /\ c.session = c.at IN
       /\ list' = IF c.mounted /\ c.reply.status = "ok" THEN c.kept ELSE list
       /\ IF own /\ c.mounted THEN Empty ELSE UNCHANGED <<shown, loading>>
       /\ IF own THEN AfterRemoval(c) ELSE calls' = calls \ {c} /\ UNCHANGED <<target, stranded>>
       /\ removed' = IF own THEN removed \cup {c.session} ELSE removed
    /\ UNCHANGED <<server, route, screen, turns, counters>>

\* refreshSessions; and commitRename, whose answer changes a title.
ListArrives(c) ==
    /\ c.op \in {"list", "rename"} /\ c.reply # Pending
    /\ calls' = calls \ {c}
    /\ list' = IF c.op = "list" /\ c.reply.status = "ok" THEN c.reply.list ELSE list
    /\ UNCHANGED <<server, router, screen, shown, loading, turns, counters, removed>>

LogoutArrives(c) ==
    /\ c.op = "logout" /\ c.reply # Pending
    /\ calls' = calls \ {c}
    /\ Push(Login)
    /\ UNCHANGED <<server, route, shell, turns, counters, removed>>

-----------------------------------------------------------------------------
(* submit                                                                  *)

\* if (!nextContent || !requestedSessionId || isRunning) return; the composer is disabled
\* while the page is loading, a question is edited where it is shown.  isRunning is the page's
\* own: a turn of a page before, of the same session even, is none of its business.
CanSend ==
    /\ route \in Sessions
    /\ ~loading \/ shown
    /\ \A t \in turns : ~t.mounted

Send ==
    /\ Click
    /\ CanSend
    /\ turns' = turns \cup {[of |-> route, stage |-> "sent", mounted |-> TRUE, id |-> clicks']}
    /\ shown' = TRUE
    /\ UNCHANGED <<server, router, screen, list, loading, calls, troubles, removed>>

Advance(t, stage) == turns' = (turns \ {t}) \cup {[t EXCEPT !.stage = stage]}

\* /chat/stream takes the question, and saves the answer -- or not: the turn failed, its
\* session is gone, the stream broke first.
TakeQuestion(t) == signedIn /\ Live(t.of) /\ order' = Touched(t.of)
SaveAnswer(t) == UNCHANGED order \/ (Live(t.of) /\ order' = Touched(t.of))

\* Its answer begins, or is a failure, which streamChat throws: the session is gone, or the
\* edited question.
StreamOpens(t) ==
    /\ t.stage = "sent"
    /\ \/ TakeQuestion(t) /\ Advance(t, "open")
       \/ UNCHANGED order /\ Advance(t, "refused")
    /\ UNCHANGED <<created, signedIn, router, shell, calls, counters, removed>>

\* The stream ends or breaks: then the history is fetched.
StreamEnds(t) ==
    /\ t.stage = "open"
    /\ SaveAnswer(t)
    /\ Advance(t, "refreshing")
    /\ UNCHANGED <<created, signedIn, router, shell, calls, counters, removed>>

\* The page's own turn can be stopped; a question that is stopped on its way may have been taken.
Stop(t) ==
    /\ Click
    /\ t.mounted
    /\ \/ t.stage = "sent" /\ Advance(t, "refused") /\ (TakeQuestion(t) \/ UNCHANGED order)
       \/ t.stage = "open" /\ Advance(t, "refreshing") /\ SaveAnswer(t)
    /\ UNCHANGED <<created, signedIn, router, shell, calls, troubles, removed>>

\* The answer to listMessages is made.
Refresh(t) ==
    /\ t.stage = "refreshing"
    /\ Advance(t, IF signedIn /\ Live(t.of) THEN "refreshed" ELSE "refused")
    /\ UNCHANGED <<server, router, shell, calls, counters, removed>>

\* The network fails before either answer.
TurnFails(t) ==
    /\ t.stage \in {"sent", "refreshing"}
    /\ troubles < MaxTroubles /\ troubles' = troubles + 1
    /\ Advance(t, "refused")
    /\ UNCHANGED order \/ (t.stage = "sent" /\ TakeQuestion(t))
    /\ UNCHANGED <<created, signedIn, router, shell, calls, clicks, removed>>

\* What the page sees of the end of its turn: the history, and in any case a new list.
Finished(t) ==
    IF t.mounted
    THEN /\ shown' = (shown \/ t.stage = "refreshed")
         /\ calls' = calls \cup {Call("list", t.of, None, << >>, t.id)}
    ELSE UNCHANGED <<shown, calls>>

Finish_OnSuccess(t) ==
    /\ t.stage = "refreshed"
    /\ turns' = turns \ {t}
    /\ Finished(t)
    /\ UNCHANGED <<server, router, screen, list, loading, counters, removed>>

\* The finally clause, whatever happened.
Finish(t) ==
    /\ t.stage \in {"refreshed", "refused"}
    /\ turns' = turns \ {t}
    /\ Finished(t)
    /\ UNCHANGED <<server, router, screen, list, loading, counters, removed>>

-----------------------------------------------------------------------------
Arrive(c) ==
    LoadArrives(c) \/ CreateArrives(c) \/ DeleteArrives(c) \/ ListArrives(c) \/ LogoutArrives(c)

Proceed ==
    \/ Navigate
    \/ \E c \in calls : Answer(c) \/ Arrive(c)
    \/ \E t \in turns : StreamOpens(t) \/ StreamEnds(t) \/ Refresh(t) \/ Finish(t)

User ==
    \/ Retry \/ StartNewSession \/ SignOut \/ Send
    \/ \E s \in Sessions :
          SelectSession(s) \/ GoBack(s) \/ RemoveSession(s) \/ RenameSession(s)
    \/ \E t \in turns : Stop(t)

Trouble ==
    \/ OtherTab
    \/ \E c \in calls : AnswerFails(c)
    \/ \E t \in turns : TurnFails(t)

Next == Proceed \/ User \/ Trouble

Spec == Init /\ [][Next]_vars

\* Requests are answered or fail, and the browser runs what is due.
FairSpec == Spec /\ WF_vars(Proceed)

-----------------------------------------------------------------------------
(* Properties.                                                             *)

\* A session whose removal was asked for on its own page and confirmed is not on display,
\* unless the tab is about to leave it: also when the user went away and came back before the
\* confirmation, to a page that was loaded before the deletion (chat-shell.tsx:457-469).  The
\* exception is a page that a late answer of an earlier one held back, or the failure of the
\* creation that was to replace the last session.
RemovedIsLeft ==
    screen = "ready" /\ route \in removed =>
        \/ stranded
        \/ target \notin {None, route}
        \/ \E c \in calls : c.op = "create" /\ c.emptied /\ c.at = route

\* While the page is loading, something is under way that will end it: a navigation to another
\* address, its load, the session that it was emptied for.
LoadingIsAwaited ==
    loading =>
        \/ stranded
        \/ target \notin {None, route}
        \/ LoadUnderWay
        \/ \E c \in calls : c.op = "create" /\ c.emptied /\ c.mounted

\* Loading ends, whatever fails and whatever the user does meanwhile, with two exceptions
\* (chat-shell.tsx:445-472, 505-511): a page that was emptied to be left is held back by a late
\* push of an earlier page to the address it still has; or the last session is removed and its
\* successor cannot be created.  And the composer of a page becomes free again.
NothingHangs ==
    /\ []LoadingIsAwaited
    /\ loading ~> (~loading \/ stranded)
    /\ (\E t \in turns : t.mounted) ~> (\A t \in turns : ~t.mounted)
=============================================================================
