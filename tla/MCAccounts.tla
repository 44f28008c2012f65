------------------------------ MODULE MCAccounts ------------------------------
(* An instance of Accounts for TLC: one account with two spellings, two browsers. *)
EXTENDS Accounts, TLC

CONSTANTS r1, r2, b1, b2, lower, upper, right, wrong

MCRequests == {r1, r2}
MCBrowsers == {b1, b2}
MCEmails == {lower}
MCSpellings == {lower, upper}
MCNormal == [s \in MCSpellings |-> lower]
MCPasswords == {right, wrong}

\* Request slots, browsers and passwords are interchangeable.
Symmetry == Permutations(MCRequests) \cup Permutations(MCPasswords)
            \cup Permutations(MCBrowsers)
=============================================================================
