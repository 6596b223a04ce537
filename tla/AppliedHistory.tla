--------------------------- MODULE AppliedHistory ---------------------------
(***************************************************************************)
(* What the migration runner promises about a database: its schema is the  *)
(* result of versions 1, 2, 3, ..., each executed once, in that order, and *)
(* none half.                                                              *)
(***************************************************************************)
EXTENDS Integers, Sequences

CONSTANTS Last,   \* the largest version number
          Texts   \* what a migration file may say

VARIABLE history  \* <<version, text>> of what was executed, oldest first

Init == history = <<>>

Apply(text) ==
  /\ Len(history) < Last
  /\ history' = Append(history, <<Len(history) + 1, text>>)

Next == \E text \in Texts : Apply(text)

Spec == Init /\ [][Next]_history
=============================================================================
