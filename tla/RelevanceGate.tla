---------------------------- MODULE RelevanceGate ----------------------------
(***************************************************************************)
(* tracker/gate.py: which items are worth an extraction.  The word lists   *)
(* are samples of the code's; a pattern that spans words keeps its shape,  *)
(* with its bound in characters as a bound in words.                       *)
(***************************************************************************)
EXTENDS Gazetteer

\* `first`, then within `reach` words and no full stop between, `second`.
Near(text, first, second, reach) ==
  \E n, m \in DOMAIN text :
    /\ n < m /\ m - n - 1 <= reach
    /\ text[n] \in first /\ text[m] \in second
    /\ \A k \in n .. m : text[k] # "."

HasWord(text, words) == ToSet(text) \cap words # {}
HasPhrase(text, phrases) == \E p \in phrases : p \in SubSeqs(text)

MOVEMENT == {"join", "joins", "joined", "rejoins", "hires", "hired", "appoints", "appointed", "welcomes",
             "recruits", "poaches", "lures", "exits", "departs", "leaves", "promotes", "promoted",
             "elevates", "adds", "lift-out"}
MovementPhrases == {<<"moves", "to">>, <<"steps", "up">>, <<"names", "its">>, <<"names", "new">>}
SENIORITY == {"partner", "partners", "partnership", "counsel", "director", "principal", "silk"}
SeniorityPhrases == {<<"head", "of">>, <<"to", "head">>, <<"head", "up">>, <<"practice", "head">>}
DISQUALIFIERS == {"webinar", "award", "awards", "sponsor", "judgment", "survey", "trainee", "appeal"}
JudicialPhrases == {<<"chief", "justice">>, <<"judge", "of", "the">>, <<"judicial", "appointment">>}

Movement(text) ==
  \/ HasWord(text, MOVEMENT) \/ HasPhrase(text, MovementPhrases)
  \/ Near(text, {"names", "named"}, {"as"}, 12)

Seniority(text) == HasWord(text, SENIORITY) \/ HasPhrase(text, SeniorityPhrases)

Strong(text) ==
  \/ Near(text, {"hires"}, {"partner"}, 7) \/ Near(text, {"partner"}, {"joins"}, 5)
  \/ HasPhrase(text, {<<"new", "partner">>, <<"lateral", "hire">>})
  \/ \E n \in 1 .. Len(text) - 2 :      \* joins ... as a new partner
       /\ \E role \in {<<"partner">>, <<"a", "partner">>, <<"its", "new", "partner">>} :
            IsPrefix(<<"as">> \o role, SubSeq(text, n + 1, Len(text)))
       /\ Near(SubSeq(text, 1, n + 1), {"joins", "joined", "welcomes"}, {"as"}, 10)

Disqualified(text) ==
  HasWord(text, DISQUALIFIERS) \/ Near(text, {"joins"}, {"association", "alliance"}, 12)

Judicial(text) ==
  HasPhrase(text, JudicialPhrases) \/ Near(text, {"named", "appointed"}, {"justice", "judge"}, 8)

-----------------------------------------------------------------------------
(* The decision. The score, in hundredths, is reported and decides nothing. *)

Seen(headline, body) ==
  LET text == headline \o <<"line break">> \o body
  IN [strong |-> Strong(text), head |-> Movement(headline), movement |-> Movement(headline) \/ Movement(body),
      seniority |-> Seniority(text), disqualifier |-> Disqualified(text), judicial |-> Judicial(text)]

\* Mutant: a disqualifier sinks the item whatever its headline says.
VetoPasses(seen, tier) ==
  IF seen.strong \/ seen.judicial THEN ~seen.judicial
  ELSE seen.movement /\ seen.seniority /\ ~seen.disqualifier

Passes(seen, tier) ==
  IF seen.strong \/ seen.judicial THEN ~seen.judicial
  ELSE /\ seen.movement
       /\ seen.seniority \/ (tier = 1 /\ ~seen.disqualifier)
       /\ seen.disqualifier => seen.head

score(seen) ==
  LET points(said, n) == IF said THEN n ELSE 0
      sum == points(seen.strong, 60) + points(seen.head, 30) + points(seen.movement /\ ~seen.head, 15)
             + points(seen.seniority, 25) - points(seen.disqualifier, 30) - points(seen.judicial, 60)
  IN IF sum < 0 THEN 0 ELSE IF sum > 100 THEN 100 ELSE sum

reason(seen, passed) ==
  CASE passed                                                          -> "relevant"
    [] ~passed /\ seen.judicial                                        -> "judicial"
    [] ~passed /\ ~seen.judicial /\ seen.disqualifier                  -> "disqualifier with no movement"
    [] ~passed /\ ~seen.judicial /\ ~seen.disqualifier /\ ~seen.movement -> "no movement"
    [] OTHER                                                           -> "movement without seniority"

evaluate(headline, body, tier) ==
  LET seen == Seen(headline, body)
  IN [passed |-> Passes(seen, tier), score |-> score(seen), reason |-> reason(seen, Passes(seen, tier))]

-----------------------------------------------------------------------------
(* Outlets whose URLs name entities.                                        *)

NOT_A_MOVE_SLUG == {"advises", "acquisition", "merger", "deal", "webinar", "awards", "survey", "judgment",
                    "opens", "office"}

\* Room for a name: two words that neither a firm nor the place accounts for, the
\* place counted by the parts of its code.
evaluate_entity_slug(text) ==
  LET firms == find(text)
      words(n) == firms[n].end - firms[n].start + 1
      claimed == FoldLeft(LAMBDA sum, n : sum + words(n), 0, [n \in DOMAIN firms |-> n])
  IN /\ ~HasWord(text, NOT_A_MOVE_SLUG)
     /\ firms # <<>> /\ Office(text) # Unknown
     /\ Len(text) - claimed - Len(Office(text)) >= 2
=============================================================================
