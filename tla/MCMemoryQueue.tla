--------------------------- MODULE MCMemoryQueue ---------------------------
(* Instances of MemoryQueue for TLC. *)
EXTENDS MemoryQueue, TLC

CONSTANTS k1, k2, k3, alice, bob, u1, u2, w1

\* alice owns two identity keys, so that a quota of one can be overrun; bob owns one.
MCKeys == {k1, k2, k3}
MCOwner == (k1 :> alice) @@ (k2 :> alice) @@ (k3 :> bob)
OneOwnerKeys == {k1, k2}
OneOwner == (k1 :> alice) @@ (k2 :> alice)

\* The two calls of upsert_memory are interchangeable.
WriterSymmetry == Permutations({u1, u2})
=============================================================================
