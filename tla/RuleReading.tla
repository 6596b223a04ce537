----------------------------- MODULE RuleReading -----------------------------
(***************************************************************************)
(* extract/rules.py and body_rules.py: the moves the rule extractor reads  *)
(* out of an item.  An item is a headline, a body ("" is <<>>), the words  *)
(* of its URL and whether the outlet slugs entities.  A field of a move    *)
(* keeps its value, the words of the text it cites and whether the value   *)
(* is said to stand there; `scored` are the fields that were there when    *)
(* the move was last scored.                                               *)
(***************************************************************************)
EXTENDS RuleTemplates

CUE_REACH == 8       \* words, 60 characters in the code

Break == "line break"

\* extraction_text: what the spans index.
Text(item) == item.headline \o (IF item.body = <<>> THEN <<>> ELSE <<Break>> \o item.body)

\* The line the templates are matched with: text.split, strip, rstrip(".").
Headline(item) ==
  IF item.headline # <<>> /\ Last(item.headline) = "." THEN Front(item.headline) ELSE item.headline

\* Mutant: one line break between them.
OneBreak(item) == Len(Headline(item))

\* Where the body starts in the text, as the extractor counts: len(headline) + 2.
Offset(item) == Len(Headline(item)) + 1

Field(value, start, end, exact) == [value |-> value, start |-> start, end |-> end, exact |-> exact]

\* The words a recovered origin cites are left out: the value need not stand there.
Somewhere(value) == Field(value, 1, 1, FALSE)

Value(move, name) == IF name \in DOMAIN move.fields THEN move.fields[name].value ELSE Unknown

Scored(fields) == [fields |-> fields, scored |-> DOMAIN fields]

\* The fields of `pairs`, [name |-> set of at most one field], that are there.
Present(pairs) ==
  [name \in {n \in DOMAIN pairs : pairs[n] # {}} |-> CHOOSE f \in pairs[name] : TRUE]

-----------------------------------------------------------------------------
(* People.                                                                  *)

strip_honorific(name) == IF Len(name) > 1 THEN Unless(name, HONORIFIC) ELSE name

\* A share button, a section or a dateline before a name of two words or more.
LeadingNoise(word) == word \in NAVIGATION_WORDS \/ Office(<<word>>) # Unknown

strip_leading_noise(name) ==
  LET keep == {n \in DOMAIN name : n >= Len(name) - 1 \/ ~LeadingNoise(name[n])}
  IN IF name = <<>> THEN name ELSE SubSeq(name, Min(keep), Len(name))

dedupe_repeated_name(name) ==
  LET half == Len(name) \div 2
  IN IF name # <<>> /\ name = SubSeq(name, 1, half) \o SubSeq(name, 1, half)
     THEN SubSeq(name, 1, half) ELSE name

Cleaned(printed) == dedupe_repeated_name(strip_leading_noise(strip_honorific(printed)))

looks_like_a_person(name) ==
  /\ Len(name) \in 2 .. 4
  /\ \A n \in 2 .. Len(name) : resolve(SubSeq(name, 1, n)) = Unknown
  /\ ToSet(name) \cap NOT_A_PERSON = {}
  /\ Office(name) = Unknown

-----------------------------------------------------------------------------
(* Sentences.                                                               *)

\* A sentence ends with a full stop before a capital: spans of the body.
Sentences(body) ==
  LET ends == {n \in DOMAIN body : n = Len(body) \/ (body[n] = "." /\ body[n + 1] \in Capital)}
      sentence(n) == [start |-> n, end |-> Min({m \in ends : m >= n}) + 1]
  IN FlattenSeq([n \in DOMAIN body |-> IF n = 1 \/ n - 1 \in ends THEN <<sentence(n)>> ELSE <<>>])

\* Mutant: any sentence will do.
AnySentence(person, sentence) == TRUE

\* `surname not in lowered`: the letters of the surname, wherever they stand.
Mentioned(person, sentence) == \E w \in ToSet(sentence) : Last(person) \in SubSeqs(w)

\* As sentences_about has it, the surname is a word.
MentionedByWord(person, sentence) == Last(person) \in ToSet(sentence)

Texts(body, sentences) == [n \in DOMAIN sentences |-> Cut(body, sentences[n])]

sentences_about(person, body) ==
  FlattenSeq(SelectSeq(Texts(body, Sentences(body)), LAMBDA s : MentionedByWord(person, s)))

AboutIn(person, sentences) == Where(sentences, {n \in DOMAIN sentences : Mentioned(person, sentences[n])})

\* The sentences of the body that mention the person.
About(person, body) == AboutIn(person, Texts(body, Sentences(body)))

PracticesIn(sentences) == [n \in DOMAIN sentences |-> Practice(BODY_PRACTICE, sentences[n], <<>>)]

practice_for(person, body) == FirstBut({<<>>}, PracticesIn(About(person, body)))

\* The hits of a template with an origin whose firm is known.
OriginsAt(parts, sentence, matches) ==
  [n \in DOMAIN matches |->
     [span |-> Span(parts, matches[n], "person"), title |-> <<>>,
      from |-> resolve_leading_firm(Cut(sentence, Span(parts, matches[n], "firm_b")))]]

Known(hits) == Where(hits, {n \in DOMAIN hits : hits[n].from # Unknown})

OriginHits(parts, sentence) == Known(OriginsAt(parts, sentence, Matches(parts, sentence)))

Origins(sentence) == FlattenSeq([k \in DOMAIN WITH_ORIGIN |-> OriginHits(WITH_ORIGIN[k], sentence)])

\* "from <Firm>" anywhere in the sentence will do.
FROM_FIRM == <<Word({"from"}), BodyFirm(FALSE)>>

LooseOrigin(sentence, matches) ==
  IF matches = <<>> THEN Unknown
  ELSE resolve_leading_firm(Cut(sentence, Span(FROM_FIRM, matches[1], "firm_b")))

OriginAmong(origins, loose) == IF origins # <<>> THEN origins[1].from ELSE loose

OriginIn(sentence) == OriginAmong(Origins(sentence), LooseOrigin(sentence, Matches(FROM_FIRM, sentence)))

OriginsIn(sentences) == [n \in DOMAIN sentences |-> OriginIn(sentences[n])]

origin_for(person, body) == FirstBut({Unknown}, OriginsIn(About(person, body)))

-----------------------------------------------------------------------------
(* body_rules.find.                                                         *)

\* The names of a list in the sentence, each where it first stands there.
SpanAt(at, words) == [start |-> at, end |-> at + words]

ListedNames(sentence, names) ==
  [n \in DOMAIN names |->
     [span |-> SpanAt(IndexFirstSubSeq(Cut(sentence, names[n]), sentence), names[n].end - names[n].start),
      title |-> <<"partner">>, from |-> Unknown]]

Listed(parts, sentence, matches) ==
  IF matches = <<>> THEN <<>>
  ELSE ListedNames(sentence, SplitNames(sentence, Span(parts, matches[1], "person")))

PlainAt(parts, sentence, matches) ==
  [n \in DOMAIN matches |->
     [span |-> Span(parts, matches[n], "person"), from |-> Unknown,
      title |-> IF HasSlot(parts, "title") THEN Cut(sentence, Span(parts, matches[n], "title")) ELSE <<>>]]

PlainHits(sentence) ==
  FlattenSeq([k \in DOMAIN WITHOUT_ORIGIN |->
                PlainAt(WITHOUT_ORIGIN[k], sentence, Matches(WITHOUT_ORIGIN[k], sentence))])

OrElse(hits, others) == IF hits # <<>> THEN hits ELSE others

\* A list of names first, then the templates with an origin, then the others.
HitsIn(sentence) ==
  OrElse(Listed(NAME_LIST, sentence, Matches(NAME_LIST, sentence)),
  OrElse(Listed(NAME_LIST_AFTER_VERB, sentence, Matches(NAME_LIST_AFTER_VERB, sentence)),
  OrElse(Origins(sentence), PlainHits(sentence))))

\* Hits of a sentence, at their place in the body.
Placed(body, hits, base) ==
  [n \in DOMAIN hits |->
     [person |-> Cut(body, [start |-> base + hits[n].span.start, end |-> base + hits[n].span.end]),
      from |-> hits[n].from, title |-> hits[n].title, start |-> base + hits[n].span.start]]

HitsOf(body, sentences) ==
  FlattenSeq([n \in DOMAIN sentences |-> Placed(body, HitsIn(Cut(body, sentences[n])), sentences[n].start - 1)])

\* Every hit of every sentence.
AllHits(body) == HitsOf(body, Sentences(body))

FirstOfEach(hits) ==
  Where(hits, {n \in DOMAIN hits : \A m \in 1 .. n - 1 : hits[m].person # hits[n].person})

\* Every person the body reports, by the name as printed, the first time.
BodyHits(body) == FirstOfEach(AllHits(body))

-----------------------------------------------------------------------------
(* Whose move a sentence reports.                                           *)

\* From after the last full stop before the name up to the name.
Clause(body, start) ==
  LET stops == {n \in 1 .. start - 1 : body[n] = "."}
  IN SubSeq(body, (IF stops = {} THEN 0 ELSE Max(stops)) + 1, start - 1)

\* The rest of the sentence.
Rest(body, start) == Before(SubSeq(body, start, Len(body)), {<<".">>})

BACKWARD_CUE == {<<"follows">>, <<"following">>, <<"last", "year">>, <<"in", "march">>, <<"previously">>,
                 <<"also", "hired">>, <<"had", "joined">>}

mention_is_backward_looking(body, start) ==
  LET clause == Clause(body, start)
  IN \E n \in DOMAIN clause : \E cue \in BACKWARD_CUE :
       IsPrefix(cue, SubSeq(clause, n, Len(clause))) /\ Len(clause) - (n + Len(cue) - 1) <= CUE_REACH

sentence_states_non_partner_role(body, start) ==
  LET sentence == Clause(body, start) \o Rest(body, start)
  IN StatesNonPartner(sentence) /\ ~SaysPartner(sentence)

\* The outlet's URL names somebody else, and the body does too.
slug_names_someone_else(item, person) ==
  LET words == SelectSeq(item.slug, LAMBDA w : Len(w) > 1)
      excluded == UNION {NOT_A_PERSON, SLUG_VERBS, tokens(Surfaces), tokens(PlaceSurfaces)}
      left == SelectSeq(words, LAMBDA w : w \notin excluded)
  IN /\ item.entity
     /\ ToSet(words) \cap ToSet(person) = {}
     /\ Len(left) > 1
     /\ Says(item.body, {SubSeq(left, 1, 2)})

-----------------------------------------------------------------------------
(* What kind of move it is.                                                 *)

MERGER_CUE == {<<"absorbs">>, <<"absorbed">>, <<"merger", "with">>, <<"merges", "with">>, <<"combination", "with">>}
PROMOTION_PHRASES == {<<"promotion", "round">>, <<"promotions", "round">>, <<"round", "of", "promotions">>, <<"partnership", "promotions">>,
                      <<"been", "promoted", "to", "partner">>, <<"been", "promoted", "to", "the", "partner">>}
PROMOTION_CUE ==
  <<Word({"promotes", "promote", "promoted", "promotion", "elevates", "elevated"}), Maybe({"of"}),
    Run(NoSlot, Words \ Marks, 0, 8, TRUE), Word({"to"}), Maybe({"the", "its", "our"}),
    Maybe({"national", "global"}), Word({"partner", "partners", "partnership"})>>

Promotes(text) == Says(text, PROMOTION_PHRASES) \/ Matches(PROMOTION_CUE, text) # <<>>

\* The caller's default where the language says nothing. A known origin outranks it.
classify_move_type(text, origin_is_known, default) ==
  CASE origin_is_known                                 -> default
    [] ~origin_is_known /\ Says(text, MERGER_CUE)      -> "merger_absorbed"
    [] ~origin_is_known /\ ~Says(text, MERGER_CUE)     -> IF Promotes(text) THEN "promotion" ELSE default

-----------------------------------------------------------------------------
(* Records from the headline.                                               *)

Given(value, none, fields) == IF value = none THEN {} ELSE fields

\* The firms of a move whose template names `one` and `other`, either Unknown; `pair`
\* is what the headline's firms say of each other.
FirmsOfMove(type, one, other, pair) ==
  LET to == FirstKnown(one, pair.to)
      stated == IF one = Unknown /\ other = Unknown THEN pair.from ELSE other
  IN [to |-> to, stated |-> stated, from |-> IF type = "promotion" THEN to ELSE stated]

\* What a match says of a person with a role and firms: [name |-> set of at most one
\* field].
MatchFields(head, template, match, person, role, firms) ==
  LET at(slot, value, exact) ==
        {Field(value, Span(template.parts, match, s).start, Span(template.parts, match, s).end, exact) :
           s \in {t \in {slot} : HasSlot(template.parts, t)}}
  IN [person_name |-> at("person", person, TRUE),
      to_firm |-> at("firm_a", firms.to, FALSE),
      from_firm |-> Given(firms.from, Unknown,
        at(IF template.type = "promotion" THEN "firm_a" ELSE "firm_b", firms.from, FALSE)),
      title_to |-> at("title", role.title, FALSE),
      practice_text |-> IF HasSlot(template.parts, "practice")
                        THEN at("practice", Cut(head, Span(template.parts, match, "practice")), TRUE)
                        ELSE Given(role.practice, <<>>, at("title", role.practice, FALSE)),
      office_jurisdiction |->
        IF HasSlot(template.parts, "title") /\ role.office # Unknown THEN at("title", role.office, FALSE)
        ELSE Given(Office(head), Unknown, {Field(Office(head), 1, Len(head) + 1, FALSE)}),
      move_type |-> {Field(template.type, Head(match), Last(match), TRUE)}]

\* The record of a match, in a set.
Record(head, template, match, person, role, firms) ==
  IF \/ ~looks_like_a_person(person)
     \/ HasSlot(template.parts, "title") /\ ~is_partner_level(role.title)
     \/ firms.to = Unknown
     \/ HasSlot(template.parts, "firm_b") /\ firms.stated = Unknown
  THEN {}
  ELSE {Scored(Present(MatchFields(head, template, match, person, role, firms)))}

\* What a match gives to a slot; <<>> when the template has none.
SlotWords(head, template, match, slot) ==
  IF HasSlot(template.parts, slot) THEN Cut(head, Span(template.parts, match, slot)) ELSE <<>>

\* The reading of one name of a headline by one template, in a set: _build.
Build(head, template, match, printed) ==
  Record(head, template, match, Cleaned(printed),
         parse(SlotWords(head, template, match, "title")),
         FirmsOfMove(template.type, resolve(SlotWords(head, template, match, "firm_a")),
                     resolve(SlotWords(head, template, match, "firm_b")), firm_pair(head)))

BuildNames(head, template, match, names) ==
  FlattenSeq([n \in DOMAIN names |-> SetToSeq(Build(head, template, match, Cut(head, names[n])))])

BuildFrom(head, template, matches) ==
  IF matches = {} THEN <<>>
  ELSE LET match == CHOOSE m \in matches : TRUE
       IN BuildNames(head, template, match, SplitNames(head, Span(template.parts, match, "person")))

Matching(head, template) ==
  IF \E longer \in template.longer : Match(longer, head, 1, TRUE) # {} THEN {}
  ELSE Match(template.parts, head, 1, template.whole)

BuildAll(head, template) == BuildFrom(head, template, Matching(head, template))

With(move, name, field) ==
  [move EXCEPT !.fields = [n \in {name} \cup DOMAIN move.fields |->
                             IF n = name THEN field ELSE move.fields[n]]]

\* A practice where it first stands in the body.
PracticeField(item, practice) ==
  LET at == Offset(item) + IndexFirstSubSeq(practice, item.body)
  IN Field(practice, at, at + Len(practice), TRUE)

WithPractice(item, move, practice) ==
  IF "practice_text" \in DOMAIN move.fields \/ practice = <<>> THEN move
  ELSE With(move, "practice_text", PracticeField(item, practice))

\* Only a new origin has the move scored again.
WithOrigin(move, origin) ==
  IF "from_firm" \in DOMAIN move.fields \/ origin \in {Unknown, Value(move, "to_firm")} THEN move
  ELSE Scored(With(move, "from_firm", Somewhere(origin)).fields)

\* What the headline did not say, from the body and the firm pair.
EnrichedFor(item, move, person) ==
  WithOrigin(WithPractice(item, move, practice_for(person, item.body)),
             FirstKnown(origin_for(person, item.body), firm_pair(Headline(item)).from))

Enriched(item, move) == EnrichedFor(item, move, Value(move, "person_name"))

-----------------------------------------------------------------------------
(* Records from the body.                                                   *)

\* Where a cleaned name is said to stand: from the start of the printed one.
Cited(item, hit, person) == [start |-> Offset(item) + hit.start,
                             end |-> Offset(item) + hit.start + Len(person)]

\* Whether a hit reports a move of the person at all.
Reports(item, hit, person) ==
  /\ looks_like_a_person(person)
  /\ hit.title # <<>> => is_partner_level(hit.title)
  /\ ~slug_names_someone_else(item, person)
  /\ ~mention_is_backward_looking(item.body, hit.start)
  /\ hit.title = <<>> => ~sentence_states_non_partner_role(item.body, hit.start)

\* What a hit says of a person, given what `type` and `practice` were found.
HitFields(item, hit, pair, person, from, type, practice) ==
  LET origin == IF type = "promotion" THEN pair.to ELSE from
      cited == Cited(item, hit, person)
      by(value, exact) == {Field(value, cited.start, cited.end, exact)}
      inHead(value) == {Field(value, 1, Len(Headline(item)) + 1, FALSE)}
      office == Office(Headline(item))
  IN [person_name |-> by(person, TRUE),
      to_firm |-> inHead(pair.to),
      from_firm |-> Given(origin, Unknown, by(origin, FALSE)),
      title_to |-> Given(hit.title, <<>>, by(hit.title, FALSE)),
      practice_text |-> Given(practice, <<>>, {PracticeField(item, practice)}),
      office_jurisdiction |-> Given(office, Unknown, inHead(office)),
      move_type |-> by(type, FALSE)]

TypeOf(item, pair, from) ==
  classify_move_type(Headline(item) \o item.body, from \notin {Unknown, pair.to},
                     IF from = pair.to THEN "promotion" ELSE "lateral")

\* The record of a hit, in a set.
RecordFrom(item, hit, pair, person, from) ==
  {Scored(Present(HitFields(item, hit, pair, person, from, TypeOf(item, pair, from),
                            practice_for(person, item.body))))}

FromPerson(item, hit, pair, person) ==
  IF ~Reports(item, hit, person) THEN {}
  ELSE RecordFrom(item, hit, pair, person,
                  FirstKnown(hit.from, FirstKnown(origin_for(person, item.body), pair.from)))

FromHit(item, hit, pair) == FromPerson(item, hit, pair, Cleaned(hit.person))

\* The destination is the headline's; without one nothing is read.
FromHits(item, pair, hits) ==
  IF pair.to = Unknown \/ item.body = <<>> THEN <<>>
  ELSE FlattenSeq([n \in DOMAIN hits |-> SetToSeq(FromHit(item, hits[n], pair))])

FromBody(item) == FromHits(item, firm_pair(Headline(item)), BodyHits(item.body))

\* The first template that yields a record wins; then the body.
FromHeadline(item, built) ==
  LET yielding == {k \in DOMAIN built : built[k] # <<>>}
  IN IF yielding = {} THEN FromBody(item)
     ELSE [n \in DOMAIN built[Min(yielding)] |-> Enriched(item, built[Min(yielding)][n])]

extract(item) == FromHeadline(item, [k \in DOMAIN TEMPLATES |-> BuildAll(Headline(item), TEMPLATES[k])])

\* The firms and the kind that pipeline/extract.py, _persist, makes a row of.
Row(move) ==
  LET to == Value(move, "to_firm")
      type == Value(move, "move_type")
      from == IF type = "promotion" THEN to ELSE Value(move, "from_firm")
  IN [to |-> to, type |-> type,
      from |-> IF from = to /\ type # "promotion" THEN Unknown ELSE from]
=============================================================================
