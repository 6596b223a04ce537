--------------------------- MODULE MCExtractStage ---------------------------
(***************************************************************************)
(* Instances of ExtractStage: two items of two sources, the newer item     *)
(* first, two people, one firm of the register and one unknown firm.       *)
(***************************************************************************)
EXTENDS ExtractStage

CONSTANTS newer, older, trade, newsroom, tan, lim, known, unknown

MCItems == {newer, older}
MCSources == {trade, newsroom}
MCSourceOf == [i \in MCItems |-> IF i = newer THEN trade ELSE newsroom]
MCPublishedAt == [i \in MCItems |-> IF i = newer THEN 2 ELSE 1]
MCPersons == {tan, lim}
MCFirms == {known, unknown}
MCRegister == {known}
MCCostly == {newer}

\* The defaults of a move: sure of itself, placed, between firms of the register.
Plain(person) == [person |-> person, firms |-> {known}, weak |-> FALSE,
                  unplaced |-> FALSE, refusedBy |-> "nothing"]

Answer(found) == [kind |-> "moves", moves |-> found]
NoMove == [kind |-> "no_move", moves |-> <<>>]
Failure == [kind |-> "error", moves |-> <<>>]

NewFirm(person) == [Plain(person) EXCEPT !.firms = MCFirms]
Refused(person, rule) == [Plain(person) EXCEPT !.refusedBy = rule]

\* Two answers that disagree, as a model's answers to the same prompt may: two
\* people, the second unplaced, or the second one alone and unsure.
Answers ==
  {Answer(<<NewFirm(tan), [Plain(lim) EXCEPT !.unplaced = TRUE]>>),
   Answer(<<[Plain(lim) EXCEPT !.weak = TRUE]>>)}

MCReadings ==
  [i \in MCItems |-> IF i = newer THEN Answers \cup {NoMove}
                                  ELSE {Failure, Answer(<<NewFirm(lim)>>)}]

\* One answer per item, as the rule extractor gives.
RuleReadings ==
  [i \in MCItems |-> IF i = newer THEN {Answer(<<NewFirm(tan), Plain(lim)>>)}
                                  ELSE {Answer(<<Plain(lim)>>)}]

\* The newer item's only move breaks a rule of the database.
WithRefusal(rule) ==
  [i \in MCItems |-> IF i = newer THEN {Answer(<<Refused(tan, rule)>>), NoMove}
                                  ELSE {Answer(<<Plain(lim)>>)}]
RefusedReadings ==
  [i \in MCItems |-> WithRefusal("tombstone")[i] \cup WithRefusal("check")[i]
                     \cup WithRefusal("deferred trigger")[i] \cup MCReadings[i]]
TombstoneReadings ==
  [i \in MCItems |-> IF i = newer THEN {Answer(<<Refused(tan, "tombstone")>>)}
                                  ELSE {Answer(<<Plain(lim)>>)}]
=============================================================================
