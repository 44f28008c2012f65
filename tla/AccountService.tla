---------------------------- MODULE AccountService ----------------------------
(***************************************************************************)
(* What accounts promise, without the steps that keep the promise: the     *)
(* first password given for an e-mail is its password for good, a session  *)
(* is opened only for whoever gave that password, and a request is served  *)
(* only for a session that is open when it is admitted.                    *)
(***************************************************************************)
EXTENDS Naturals, Sequences

CONSTANTS Requests, Emails, Passwords, NoUser

VARIABLES
    owner,    \* the password of each registered e-mail
    opened,   \* the credentials each session ever opened was opened with
    open,     \* the sessions that are open
    serving   \* the session each request is served for, or 0

vars == <<owner, opened, open, serving>>

Credentials == [email : Emails, password : Passwords]

Init ==
    /\ owner = [e \in Emails |-> NoUser]
    /\ opened = << >>
    /\ open = {}
    /\ serving = [r \in Requests |-> 0]

Register(e, p) ==
    /\ owner[e] = NoUser
    /\ owner' = [owner EXCEPT ![e] = p]
    /\ UNCHANGED <<opened, open, serving>>

\* A new session, which may be lost before anybody learns its token.
OpenSession(given) ==
    /\ owner[given.email] = given.password
    /\ opened' = Append(opened, given)
    /\ open' = open \cup {Len(opened) + 1}
    /\ UNCHANGED <<owner, serving>>

\* By a log-out or with time.
Close(closed) ==
    /\ open' = open \ closed
    /\ UNCHANGED <<owner, opened, serving>>

Admit(r, t) ==
    /\ t \in open
    /\ serving' = [serving EXCEPT ![r] = t]
    /\ UNCHANGED <<owner, opened, open>>

Finish(done) ==
    /\ serving' = [r \in Requests |-> IF r \in done THEN 0 ELSE serving[r]]
    /\ UNCHANGED <<owner, opened, open>>

Next ==
    \/ \E e \in Emails, p \in Passwords : Register(e, p)
    \/ \E given \in Credentials : OpenSession(given)
    \/ \E closed \in SUBSET open : Close(closed)
    \/ \E r \in Requests, t \in open : Admit(r, t)
    \/ \E done \in SUBSET Requests : Finish(done)

Spec == Init /\ [][Next]_vars
=============================================================================
