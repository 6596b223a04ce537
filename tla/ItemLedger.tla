----------------------------- MODULE ItemLedger -----------------------------
(***************************************************************************)
(* What the extract stage promises about an ingested item: the item is     *)
(* untouched until a run settles it, and settling it is one step that      *)
(* files every move of one reading of the article, or none.  A discard     *)
(* (tracker reextract) puts every item of a source back to untouched.      *)
(***************************************************************************)
EXTENDS Integers, Sequences

CONSTANTS Items,     \* raw_items rows that passed the relevance gate
          Sources,   \* sources rows
          SourceOf,  \* [Items -> Sources]
          Readings   \* [Items -> sets of readings]: what the extractor may say

VARIABLE ledger      \* [Items -> entry]: the state of the item and its moves

Untouched == [state |-> "new", moves |-> {}]

\* The processing_state an item ends in, by what the extractor returned.
OutcomeOf(reading) ==
  CASE reading.kind = "moves"   -> "extracted"
    [] reading.kind = "no_move" -> "rejected"
    [] OTHER                    -> "error"

\* The moves a reading yields for an item, one per slot of the answer.
MovesIn(i, reading) ==
  {[item |-> i, person |-> reading.moves[s].person, slot |-> s] :
     s \in DOMAIN reading.moves}

Verdict(i, reading) ==
  [state |-> OutcomeOf(reading), moves |-> MovesIn(i, reading)]

Init == ledger = [i \in Items |-> Untouched]

Settle(i) ==
  /\ ledger[i] = Untouched
  /\ \E reading \in Readings[i] :
       ledger' = [ledger EXCEPT ![i] = Verdict(i, reading)]

\* --source names one source; without it every source is discarded.
DiscardScopes == {{s} : s \in Sources} \cup {Sources}

Discard(scope) ==
  ledger' = [i \in Items |-> IF SourceOf[i] \in scope THEN Untouched ELSE ledger[i]]

Next == \/ \E i \in Items : Settle(i)
        \/ \E scope \in DiscardScopes : Discard(scope)

Spec == Init /\ [][Next]_ledger
=============================================================================
