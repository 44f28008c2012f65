----------------------- MODULE MCCheckpointSessions -----------------------
(* Instances of CheckpointSessions for TLC. *)
EXTENDS CheckpointSessions, TLC

CONSTANTS alice, bob, main, r1, r2, t1, t2, t3, t4

\* Two users who chose the same label.
MCSessions == {alice, bob} \X {main}
OneSession == {<<alice, main>>}
\* The digest keeps user and label apart, as SHA-256 over "user NUL label" does.
MCDigest == [p \in Users \X Labels |-> p]

\* uuid4 results are interchangeable.
UuidSymmetry == Permutations(Uuids)
=============================================================================
