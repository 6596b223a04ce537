------------------------------ MODULE PairScore ------------------------------
(***************************************************************************)
(* tracker/dedupe.py: is this the same move reported twice?  Two reports   *)
(* that blocking put side by side are compared on the given name, which is *)
(* a gate, and then on what else they state.  Scores are counted in        *)
(* ten-thousandths: score_pair rounds every total to four decimals, so     *)
(* nothing is lost.                                                        *)
(***************************************************************************)
EXTENDS Integers, Sequences

CONSTANTS
  Spellings,     \* names as the press prints them
  SurnameKey,    \* [Spellings -> key], names.surname_key
  GivenTokens,   \* [Spellings -> Seq(token)], names.given_tokens
  GivenKey,      \* [Spellings -> key], names.given_key, NoGivenName for none
  Abbreviates    \* pairs <<initial, token>>: a one-letter token and a longer
                 \* token that starts with it

NoGivenName == "no given name"
Unstated == "unstated"     \* NULL in a column that may be null

ASSUME PairAssumption ==
  \A s \in Spellings : GivenTokens[s] = <<>> <=> GivenKey[s] = NoGivenName

MERGE_THRESHOLD == 8500
AMBIGUOUS_THRESHOLD == 6000
WINDOW_DAYS == 60

BASE == 8500
AGREE_FROM_FIRM == 1000
CONFLICT_FROM_FIRM == -1500
AGREE_JURISDICTION == 500
CONFLICT_JURISDICTION == -1000
AGREE_TITLE == 500
PROXIMITY_MAX == 500

-----------------------------------------------------------------------------
(* Given names.                                                             *)

\* Every (surname, given) pair a person is known by.
all_keys(a) == {<<SurnameKey[s], GivenKey[s]>> : s \in {a.name} \cup a.variants}

shared_spellings(a, b) == {k \in all_keys(a) \cap all_keys(b) : k[2] # NoGivenName}

\* Mutant: only the first name may be the abbreviated one.
FirstAbbreviates(one, other) == <<one[1], other[1]>> \in Abbreviates

initial_compatible(one, other) ==
  <<one[1], other[1]>> \in Abbreviates \/ <<other[1], one[1]>> \in Abbreviates

Given(kind, percent) == [kind |-> kind, percent |-> percent]

compare_given(a, b) ==
  LET one == GivenTokens[a.name]
      other == GivenTokens[b.name]
  IN CASE shared_spellings(a, b) # {}                      -> Given("agree", 100)
       [] shared_spellings(a, b) = {} /\ <<>> \in {one, other} -> Given("unknown", 50)
       [] OTHER ->
            CASE GivenKey[a.name] = GivenKey[b.name]       -> Given("agree", 100)
              [] GivenKey[a.name] # GivenKey[b.name] /\ one[1] = other[1]
                                                           -> Given("agree", 90)
              [] OTHER -> IF initial_compatible(one, other)
                          THEN Given("partial", 75)
                          ELSE Given("disagree", 0)

-----------------------------------------------------------------------------
(* What the rest of the report adds.                                        *)

\* Mutant: two silent reports agree.
SilenceAgrees(x, y, agree, conflict) ==
  CASE x = y -> agree
    [] x # y /\ Unstated \in {x, y} -> 0
    [] OTHER -> conflict

agreement(x, y, agree, conflict) ==
  CASE Unstated \in {x, y}              -> 0
    [] Unstated \notin {x, y} /\ x = y  -> agree
    [] OTHER                            -> conflict

DaysApart(a, b) ==
  IF a.announced <= b.announced THEN b.announced - a.announced
                                ELSE a.announced - b.announced

\* Mutant: any day inside the window counts as the same day.
FlatProximity(days) == IF days >= WINDOW_DAYS THEN 0 ELSE PROXIMITY_MAX

\* round(PROXIMITY_MAX * (1 - days / WINDOW_DAYS), 4)
proximity(days) ==
  IF days >= WINDOW_DAYS THEN 0
  ELSE (PROXIMITY_MAX * (WINDOW_DAYS - days) + WINDOW_DAYS \div 2) \div WINDOW_DAYS

Bounded(total) == IF total < 0 THEN 0 ELSE IF total > 10000 THEN 10000 ELSE total

decision(total) ==
  CASE total >= MERGE_THRESHOLD -> "merge"
    [] total < MERGE_THRESHOLD /\ total >= AMBIGUOUS_THRESHOLD -> "ambiguous"
    [] OTHER -> "distinct"

\* The total of a pair that passed both gates.
Weighed(given, a, b) ==
  Bounded((BASE * given.percent) \div 100
          + agreement(a.from_firm, b.from_firm, AGREE_FROM_FIRM, CONFLICT_FROM_FIRM)
          + agreement(a.office, b.office, AGREE_JURISDICTION, CONFLICT_JURISDICTION)
          + agreement(a.title_to, b.title_to, AGREE_TITLE, 0)
          + proximity(DaysApart(a, b)))

\* "merge", "ambiguous" or "distinct".
score_pair(a, b) ==
  LET given == compare_given(a, b)
  IN CASE given.kind = "disagree" -> "distinct"
       [] given.kind = "unknown"  -> "ambiguous"
       [] OTHER                   -> decision(Weighed(given, a, b))

-----------------------------------------------------------------------------
(* What the scoring promises about two reports.                             *)

\* The verdict does not depend on the order in which two rows came back.
Symmetric(a, b) == score_pair(a, b) = score_pair(b, a)

Agrees(x, y) == x = y /\ x # Unstated

\* An initial merges with a full name only when origin, office and title all
\* agree and the reports are at most 45 days apart.
InitialNeedsEverything(a, b) ==
  compare_given(a, b).kind = "partial" /\ score_pair(a, b) = "merge" =>
    /\ Agrees(a.from_firm, b.from_firm)
    /\ Agrees(a.office, b.office)
    /\ Agrees(a.title_to, b.title_to)
    /\ DaysApart(a, b) <= 45

\* Reports that name two origin firms merge only when they share the whole given
\* name and agree on office and title, on the same day.
OriginConflictIsReviewed(a, b) ==
  /\ Unstated \notin {a.from_firm, b.from_firm}
  /\ a.from_firm # b.from_firm
  /\ score_pair(a, b) = "merge"
  => /\ compare_given(a, b).percent = 100
     /\ Agrees(a.office, b.office)
     /\ Agrees(a.title_to, b.title_to)
     /\ a.announced = b.announced
=============================================================================
