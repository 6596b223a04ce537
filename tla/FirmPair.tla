------------------------------ MODULE FirmPair ------------------------------
(***************************************************************************)
(* body_rules.py, firm_pair: which of the firms of a headline gains and    *)
(* which one loses.  The words beside a mention mark it as the origin or   *)
(* as the destination; what nobody marked falls to the convention that the *)
(* hiring firm leads the sentence.                                         *)
(***************************************************************************)
EXTENDS Gazetteer

-----------------------------------------------------------------------------
(* The cues.                                                                *)

OriginCues == {<<"from">>, <<"leaves">>, <<"leave">>, <<"leaving">>, <<"exits">>, <<"exit">>,
               <<"quits">>, <<"quit">>, <<"former">>, <<"formerly", "of">>,
               <<"formerly", "at">>, <<"ex">>}
DestinationCues == {<<"to">>, <<"for">>, <<"lands", "at">>}
                     \cup {<<v>> : v \in {"joins", "join", "rejoins", "rejoin", "joining", "rejoining"}}
LossPhrases == {<<"blow", "for">>, <<"blow", "to">>, <<"setback", "for">>, <<"loss", "for">>}
LossWords == {"exits", "exit", "exodus", "departs", "depart", "departures", "departure", "quits",
              "quit", "leaves", "leave", "loses", "lost", "defects", "defect"}
LossReach == 6       \* words between a firm and its loss

EndsIn(before, cues) == \E cue \in cues : IsSuffix(cue, before)

\* A cue stands right before the firm, or before "rival" or "the".
Cued(before, cues) ==
  \/ EndsIn(before, cues)
  \/ EndsIn(before, {<<"rival">>, <<"the">>}) /\ EndsIn(Front(before), cues)

LossFollows(after) ==
  \E n \in DOMAIN after :
    /\ after[n] \in LossWords
    /\ n - 1 <= LossReach + (IF after[1] = "as" /\ n > 1 THEN 1 ELSE 0)

\* Mutant: what follows a firm is not looked at.
BeforeOnly(before, after) == Cued(before, OriginCues) \/ EndsIn(before, LossPhrases)

MarksOrigin(before, after) ==
  Cued(before, OriginCues) \/ EndsIn(before, LossPhrases) \/ LossFollows(after)

\* A mention, with what its neighbours say of it.
Mark(firm, before, after) ==
  [firm |-> firm, loses |-> MarksOrigin(before, after),
   gains |-> ~MarksOrigin(before, after) /\ Cued(before, DestinationCues)]

MarkedIn(words, found) ==
  [n \in DOMAIN found |->
     Mark(found[n].firm, SubSeq(words, 1, found[n].start - 1), SubSeq(words, found[n].end + 1, Len(words)))]

\* The mentions of a headline.
Marked(headline) == MarkedIn(normalise(headline), find(headline))

-----------------------------------------------------------------------------
(* The pair.                                                                *)

\* The firm of the first mention that passes `which`; next(..., None) in Python.
First(mentions, which) ==
  IF which = {} THEN Unknown
  ELSE mentions[CHOOSE n \in which : \A m \in which : n <= m].firm

Losing(mentions) == {n \in DOMAIN mentions : mentions[n].loses}
Gaining(mentions) == {n \in DOMAIN mentions : mentions[n].gains}
Except(mentions, firm) == {n \in DOMAIN mentions : mentions[n].firm # firm}

\* Mutant: the leading firm hires, whatever was said of it.
LeaderHires(mentions) ==
  IF Gaining(mentions) # {} THEN First(mentions, Gaining(mentions))
  ELSE First(mentions, DOMAIN mentions)

Destination(mentions) ==
  IF Gaining(mentions) # {} THEN First(mentions, Gaining(mentions))
  ELSE First(mentions, Except(mentions, First(mentions, Losing(mentions))))

\* An origin nobody marked is another firm than the destination.
Origin(mentions) ==
  IF Losing(mentions) # {} THEN First(mentions, Losing(mentions))
  ELSE First(mentions, Except(mentions, Destination(mentions)))

PairOf(mentions) == [to |-> Destination(mentions), from |-> Origin(mentions)]

firm_pair(headline) == PairOf(Marked(headline))

-----------------------------------------------------------------------------
(* The promises, of any mentions.                                           *)

\* No firm is named both as the one that gains and as the one that loses.
OneSided(mentions) ==
  \A n, m \in DOMAIN mentions : mentions[n].loses /\ mentions[m].gains
                                  => mentions[n].firm # mentions[m].firm

\* A firm does not hire from itself, two firms make a pair, and the only firm
\* of a headline that loses somebody hires nobody (rules.py 62-64).
Directed(mentions) ==
  LET to == Destination(mentions)
      from == Origin(mentions)
      firms == {mentions[n].firm : n \in DOMAIN mentions}
  IN OneSided(mentions) =>
       /\ to = from => to = Unknown
       /\ \A one, other \in firms : one # other => Unknown \notin {to, from}
       /\ \A n \in Losing(mentions) :
            (\A m \in Losing(mentions) : mentions[m].firm = mentions[n].firm)
              => from = mentions[n].firm /\ to # mentions[n].firm
=============================================================================
