--------------------------- MODULE SessionMemory ---------------------------
(***************************************************************************)
(* What a user may rely on about short-term memory, without threads,       *)
(* mappings or clean-up: a session remembers the turns it has had, one at  *)
(* a time, and forgets them only when it may: when an earlier question is  *)
(* being edited, or when the session was left idle past its expiry.        *)
(* CheckpointSessions implements it.                                       *)
(***************************************************************************)
CONSTANTS Sessions, Turns

VARIABLES
    remembered,  \* the turns each session's short-term memory is built from
    mayForget    \* whether the session is being edited or has expired

Init ==
    /\ remembered = [s \in Sessions |-> {}]
    /\ mayForget = [s \in Sessions |-> FALSE]

\* A turn that was under way when the session forgot still knows what it began with.
Remember(s) ==
    \E t \in Turns, known \in SUBSET Turns :
        /\ t \notin remembered[s]
        /\ known # {} => mayForget[s]
        /\ remembered' = [remembered EXCEPT ![s] = @ \cup known \cup {t}]

\* Sessions that expired together are cleaned up together.
Forget(S) ==
    /\ \A s \in S : mayForget[s]
    /\ remembered' = [s \in Sessions |-> IF s \in S THEN {} ELSE remembered[s]]

\* The right to forget comes and goes with any step; what it allows is up to the next ones.
Next ==
    /\ \/ UNCHANGED remembered
       \/ \E s \in Sessions : Remember(s)
       \/ \E S \in SUBSET Sessions : Forget(S)
    /\ mayForget' \in [Sessions -> BOOLEAN]

Spec == Init /\ [][Next]_<<remembered, mayForget>>
=============================================================================
