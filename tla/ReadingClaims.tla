---------------------------- MODULE ReadingClaims ----------------------------
(***************************************************************************)
(* What comments of the repository say of reading an article and its code  *)
(* does not keep.  Each formula is refuted by TLC with ReadingByHand.cfg   *)
(* and the constants README.md names for it.                               *)
(***************************************************************************)
EXTENDS MCReading

ClaimFragments ==
  {<<"ashurst">>, <<"perth">>, <<"jane", "smith">>, <<"jumps", "to">>, <<"jane", "smith", ",">>, <<"joins">>,
   <<"leaves">>, <<"names", "jane", "smith", "and", "bob", "ng", "to", "lead", "tax", "as", "partners">>,
   <<"names", "jane", "smith", "and", "bob", "ng", "to", "head", "tax">>, <<"webinar">>,
   <<"pro", "bono">>, <<"hires", "partner", "who">>, <<"kl", "gates">>}
ClaimSentences ==
  {<<"dr", "jane", "smith", "was", "promoted", "to", "partner", "in", "the", "tax", "practice", ".">>,
   <<"jane", "smith", "joins", "the", "partnership", "as", "an", "ip", "partner", ".">>,
   <<"the", "leading", "tax", "team", "from", "kl", "gates", "wins", "an", "award", ".">>,
   <<"the", "firm", "hired", "bob", "ng", "as", "partner", ".">>,
   <<"jane", "smith", "and", "bob", "ng", "are", "the", "newest", "white", "-", "collar", "partners", ".">>}
ClaimMappings == MCMappings @@ (<<"ip">> :> [primary |-> <<"disputes">>, secondary |-> <<>>])

\* A field marked exact holds its value, also when the printed name was shortened
\* (spans.py 10: "the span contains the value").
SpansAreExact ==
  \A n \in DOMAIN moves : \A f \in DOMAIN moves[n].fields \ {"move_type"} :
    moves[n].fields[f].exact => Holds(moves[n].fields[f])

\* One item reports one person once, also with an honorific once (rules.py 671:
\* "each is its own move").
OnePersonOneMove ==
  \A n, m \in DOMAIN moves :
    Value(moves[n], "person_name") = Value(moves[m], "person_name") => n = m

\* A move is scored with all the fields it has (rules.py 1056: "Richness changed,
\* so the score has to be recomputed").
ScoreIsCurrent == \A n \in DOMAIN moves : moves[n].scored = DOMAIN moves[n].fields

\* No sentence about somebody else gives a person an origin, whatever the surname
\* (origin_for: "cannot be attached to the wrong individual").
OriginIsAlwaysOwn ==
  \A n \in DOMAIN moves :
    LET person == Value(moves[n], "person_name")
        origin == Value(moves[n], "from_firm")
        named(text) == \E m \in ToSet(find(text)) : m.firm = origin
    IN origin # Unknown => named(Headline(item)) \/ named(sentences_about(person, item.body))

\* The firm that hires in so many words is the destination (firm_pair: "the hiring
\* firm leads the sentence").
HirerGains ==
  LET words == normalise(Headline(item))
      found == find(Headline(item))
  IN found # <<>> /\ found[1].start = 1 /\ found[1].end < Len(words) /\ words[found[1].end + 1] = "hires"
       => firm_pair(Headline(item)).to = found[1].firm

\* A practice group that the headline or the body gave is cited, however its words
\* were printed (extract.py 299-302: "the phrase it fired on is written to
\* move_field_evidence").
EveryGroupIsCited ==
  \A n \in DOMAIN moves :
    classify_from(Evidence(moves[n])).kind \in {"headline", "body"} => Citation(Evidence(moves[n])) # {}

\* The cited practice is made of whole words (extract.py 299-302: "as auditable as
\* the rest of the record").
PracticeIsAWord ==
  \A n \in DOMAIN moves : \A c \in Citation(Evidence(moves[n])) :
    SubSeq(c.text, c.start, c.end - 1) = matched_phrase(c.text)

\* A phrase that is no practice does not decide from a headline: what the headline
\* says behind it counts (classify_from, 264-266).
HeadlineIsReadOn ==
  LET text == item.headline
      rest == SubSeq(text, 3, Len(text))
  IN Len(text) > 2 /\ SubSeq(text, 1, 2) \in NotPractice /\ Decides([kind |-> "headline", text |-> rest])
       => Decides([kind |-> "headline", text |-> text])

\* A surname of the list keys a name of plain tokens in either order (names.py 23
\* and 26-27).
AnySurnameMeets ==
  /\ Len(name) = 3 /\ Head(name) \in ASIAN_SURNAMES /\ Last(name) \notin ASIAN_SURNAMES
  /\ ToSet(Tail(name)) \cap UNION {HONORIFICS, POST_NOMINALS, SURNAME_PARTICLES} = {}
  => \A as \in [DOMAIN name -> Writings] :
       N!surname_key(N!Ordered(name, as)) = N!surname_key(N!Ordered(Tail(name) \o <<Head(name)>>, as))

\* A name found in the other order is the same person, printed as it was (names.py
\* 235-237: "a second article using the other ordering resolves to the same person
\* rather than creating a new one").
OtherOrderIsFound ==
  \A as \in [DOMAIN name -> Writings] :
    name # <<>> /\ N!EndsTold(Head(name), Tail(name)) =>
      N!ResolvesTo(N!Ordered(Tail(name) \o <<Head(name)>>, Tail(as) \o <<Head(as)>>), N!Ordered(name, as))

\* A headline that yields a move passes the gate (gate.py 10: "a false negative
\* here is a move the system never sees again").
MovesPass == moves # <<>> /\ item.body = <<>> => G!evaluate(item.headline, <<>>, 2).passed

\* What is rejected for want of a movement signal has none (GateDecision.reason).
ReasonIsTrue ==
  LET seen == G!Seen(item.headline, item.body)
  IN G!reason(seen, G!Passes(seen, 2)) = "disqualifier with no movement" => ~seen.movement

\* A firm, a name and a place pass as a slug, as in the first example of gate.py 245.
EntitySlugsPass ==
  \A firm \in Surfaces, place \in DOMAIN Places :
    G!evaluate_entity_slug(firm \o <<"scott", "crabb">> \o place)
=============================================================================
