--------------------------- MODULE MCChatHistory ---------------------------
(* Instances of ChatHistory for TLC. *)
EXTENDS ChatHistory, TLC

CONSTANTS c1, c2

ClientSymmetry == Permutations(Clients)
=============================================================================
