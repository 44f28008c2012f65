---------------------------- MODULE MCTurnGraph ----------------------------
(* Instances of TurnGraph for TLC. *)
EXTENDS TurnGraph, TLC

CONSTANTS A, B

MCFormulaLists == {<<>>, <<A>>, <<B>>, <<A, B>>, <<B, A>>}
RepeatingLists == MCFormulaLists \cup {<<B, B>>}

\* Every formula is in standard form, or B is another way to write A.
AsWritten == [f \in Formulas |-> f]
OneStandard == [f \in Formulas |-> A]

Rec(f, q) == [formula |-> f, quality |-> q]

\* Nothing, each record alone, and searches that return usable and unusable records together.
MCRecordSets ==
    {{}} \cup {{r} : r \in Records}
         \cup {{Rec(A, "full"), Rec(B, "full")},
               {Rec(A, "full"), Rec(A, "untraceable")}, {Rec(B, "full"), Rec(B, "untraceable")},
               {Rec(A, "partial"), Rec(B, "full")}, {Rec(B, "partial"), Rec(A, "full")}}

FormulaSymmetry == Permutations(Formulas)
=============================================================================
