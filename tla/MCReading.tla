------------------------------ MODULE MCReading ------------------------------
(***************************************************************************)
(* Every item of a few fragments and sentences, and every name of a few    *)
(* tokens, as everything that reads them reads them: the rules, the gate,  *)
(* the taxonomy and the name keys.  The text of an item is put together    *)
(* piece by piece, so that TLC meets the short ones first.                 *)
(***************************************************************************)
EXTENDS RuleReading, Taxonomy

CONSTANTS
  HONORIFICS, POST_NOMINALS, SURNAME_PARTICLES, ASIAN_SURNAMES,
  CODED_FIELDS, REQUIRED_FIELDS, Retirement,
  Fragments,      \* what a headline is made of
  BodySentences,  \* what a body is made of
  Tokens,         \* what a name is made of
  Writings,       \* how a token may be printed
  MaxPieces,      \* fragments of the headline and sentences of the body
  MaxTokens       \* tokens of a name

VARIABLES
  item,           \* the item composed so far
  pieces,         \* how many pieces it is made of
  moves,          \* what the rules read out of it
  name            \* or the name

N == INSTANCE Names
G == INSTANCE RelevanceGate
V == INSTANCE SpanVerifier

ASSUME ReadingAssumption == Fragments \cup BodySentences \subseteq Seq(Words)
ASSUME TaxonomyAssumption == Loadable(Groups, Mappings) /\ UNCLASSIFIED \in Flattened(Groups)

-----------------------------------------------------------------------------
(* The gazetteers and the word lists.                                       *)

MCFirms ==
  <<[name |-> <<"ashurst">>, aliases |-> <<>>],
    [name |-> <<"k", "&", "l", "gates">>, aliases |-> <<>>],
    [name |-> <<"rajah", "&", "tann">>, aliases |-> <<<<"rajah">>>>],
    [name |-> <<"rajah", "&", "tann", "singapore">>, aliases |-> <<<<"rajah", "&", "tann">>>>]>>
MCPlaces == (<<"hong", "kong">> :> <<"hk">>) @@ (<<"singapore">> :> <<"sg">>) @@ (<<"perth">> :> <<"au", "wa">>)
MCNotPlaces == {<<"asia">>, <<"south", "asia">>}

MCGroups ==
  <<[code |-> <<"tax">>, unclassified |-> FALSE, children |-> {}],
    [code |-> <<"disputes">>, unclassified |-> FALSE, children |-> {<<"disputes", "arbitration">>}],
    [code |-> <<"unclassified">>, unclassified |-> TRUE, children |-> {}]>>
MCMappings ==
  (<<"tax">> :> [primary |-> <<"tax">>, secondary |-> <<>>])
    @@ (<<"tax", "disputes">> :> [primary |-> <<"disputes">>, secondary |-> <<<<"tax">>>>])
    @@ (<<"disputes">> :> [primary |-> <<"disputes">>, secondary |-> <<>>])
    @@ (<<"white", "collar">> :> [primary |-> <<"disputes">>, secondary |-> <<>>])
MCNotPractice == {<<"pro", "bono">>, <<"leading">>}

MCCoded == {"move_type", "office_jurisdiction", "partner_tier"}
MCRequired == {"person_name"}
MCRetirement == <<"retirement">>

MCHonorifics == {<<"dr">>}
MCPostNominals == {<<"ma">>, <<"kc">>}
MCParticles == {<<"van">>, <<"le">>}
MCSurnames == {<<"tan">>, <<"ma">>, <<"le">>, <<"wei">>}
MCTokens == {<<"tan">>, <<"ma">>, <<"le">>, <<"wei">>, <<"jun">>, <<"min", "jun">>, <<"van">>, <<"dr">>, <<"kc">>}
MCWritings == {N!Titled, [case |-> "mixed", marked |-> FALSE], [case |-> "lower", marked |-> TRUE]}

MCFragments ==
  {<<"ashurst">>, <<"kl", "gates">>, <<"rajah", "and", "tann">>, <<"jane", "smith">>, <<"and", "bob", "ng">>,
   <<"joins">>, <<"from">>, <<"appoints", "jane", "smith">>, <<"as", "a", "tax", "partner">>, <<"blow", "for">>,
   <<"leaves">>}

MCSentences ==
  {<<"dr", "jane", "smith", "joins", "from", "ashurst", ".">>,
   <<"jane", "smith", "and", "bob", "ng", "are", "the", "newest", "white", "-", "collar", "partners", ".">>,
   <<"the", "firm", "appointed", "bob", "ng", "as", "counsel", ".">>,
   <<"leading", "tax", "team", "from", "kl", "gates", "wins", "an", "award", ".">>,
   <<"smith", "will", "head", "the", "disputes", "practice", ".">>,
   <<"last", "year", "ashurst", "hired", "bob", "ng", "as", "partner", "for", "pro", "bono", ".">>,
   <<"the", "firm", "promoted", "jane", "smith", "to", "partner", "in", "disputes", "and", "tax", ".">>}

MCCapital == {"ashurst", "kl", "gates", "rajah", "tann", "jane", "smith", "bob", "ng", "dr", "hong", "kong",
              "last", "leading", "the"}
MCWords == UNION {ToSet(s) : s \in Fragments \cup BodySentences} \cup MCCapital \cup Marks \cup AndWords

-----------------------------------------------------------------------------
(* Composing.                                                               *)

Init ==
  /\ item = [headline |-> <<>>, body |-> <<>>, slug |-> <<>>, entity |-> FALSE]
  /\ pieces = 0
  /\ moves = <<>>
  /\ name = <<>>

\* A fragment of the headline; a full stop ends it.
Extended ==
  {[item EXCEPT !.headline = @ \o text] :
     text \in {t \in Fragments \cup {<<".">>} :
                /\ item.body = <<>>
                /\ item.headline # <<>> => Last(item.headline) # "."}}

\* The article is fetched: its first sentence, and the slug of an outlet that slugs
\* the person the page is about.
Fetched ==
  {[item EXCEPT !.body = page[1], !.slug = page[2], !.entity = page[2] # <<>>] :
     page \in {p \in BodySentences \X {<<>>, <<"ashurst", "bob", "ng">>} :
                /\ item.headline # <<>> /\ item.body = <<>>
                /\ p[2] # <<>> => "ng" \in ToSet(p[1])}}

\* A sentence more.
Continued == {[item EXCEPT !.body = @ \o text] : text \in {t \in BodySentences : item.body # <<>>}}

Read ==
  /\ name = <<>> /\ pieces < MaxPieces
  /\ item' \in Extended \cup Fetched \cup Continued
  /\ pieces' = pieces + 1
  /\ moves' = extract(item')
  /\ UNCHANGED name

Spell ==
  /\ pieces = 0 /\ Len(name) < MaxTokens
  /\ \E token \in Tokens : name' = Append(name, token)
  /\ UNCHANGED <<item, pieces, moves>>

Next == Read \/ Spell

Spec == Init /\ [][Next]_<<item, pieces, moves, name>>

-----------------------------------------------------------------------------
(* Properties.                                                              *)

\* The headline's firm pair has a direction: a firm does not hire from itself, two
\* firms make a pair, and a firm that loses somebody hires nobody
\* (body_rules.py, firm_pair; rules.py 62-64).
PairIsDirected == Directed(Marked(Headline(item)))

\* Neither the line nor a name was shortened before its span was taken: no word of
\* the text is one that a name may lose.
NothingStripped ==
  /\ Headline(item) = item.headline
  /\ \A word \in ToSet(Text(item)) : word \notin HONORIFIC /\ ~LeadingNoise(word)

Holds(field) == field.value \in SubSeqs(Cut(Text(item), field))

\* A field that is said to stand in the text stands there: the words its span
\* indexes in the text the verifier sees hold the value (rules.py, the comment
\* before `offset`; base.py, extraction_text).
ExactSpansCite ==
  NothingStripped =>
    \A n \in DOMAIN moves : \A f \in DOMAIN moves[n].fields \ {"move_type"} :
      moves[n].fields[f].exact => Holds(moves[n].fields[f])

\* One item reports one person once, however many templates and sentences name
\* them (body_rules.py, `seen`; rules.py, "each is its own move").
OneMoveEach ==
  NothingStripped =>
    \A n, m \in DOMAIN moves :
      Value(moves[n], "person_name") = Value(moves[m], "person_name") => n = m

\* The firm is spelt somewhere in the text, or its headline mentions it.
Tells(text, firm) == \E piece \in SubSeqs(text) : firm = resolve(piece)
Headlined(head, firm) == Tells(head, firm) \/ \E m \in ToSet(find(head)) : m.firm = firm

\* A sentence of the body that has the surname in it, if only as a piece of a word.
HasSurname(person, sentence) ==
  \E w \in ToSet(sentence) : Last(person) = w \/ Last(person) \in SubSeqs(w)

\* Who says where a person comes from.
Told(it, person, firm) ==
  \/ Headlined(Headline(it), firm)
  \/ \E sentence \in ToSet(Texts(it.body, Sentences(it.body))) :
       HasSurname(person, sentence) /\ Tells(sentence, firm)

\* Whoever the person is, the headline or one single sentence of the body with the
\* surname in it spells the origin of a move: no origin is put together from two
\* sentences, and none is taken from one without the surname (body_rules.py,
\* origin_for and find; rules.py, the firms of a match).
OriginIsTold ==
  \A n \in DOMAIN moves :
    LET origin == Value(moves[n], "from_firm")
    IN origin # Unknown => Told(item, Value(moves[n], "person_name"), origin)

\* However a person's first article printed the name, one that prints it in title
\* case in the other order finds the person, with the keys that dedupe blocks on
\* (names.py, the header).
OneRowPerName ==
  name # <<>> => \A writing \in [DOMAIN name -> Writings] :
                   N!OrderingsMeet(Head(name), Tail(name), writing)

\* What pipeline/extract.py classifies the move by.
Evidence(move) ==
  <<[kind |-> "stated", text |-> Value(move, "practice_text")],
    [kind |-> "headline", text |-> item.headline],
    [kind |-> "body", text |-> sentences_about(Value(move, "person_name"), item.body)]>>

\* `text` is the evidence that decided, as it was printed.
CitedAs(assignment, citation, text) ==
  /\ \A c \in citation :
       /\ c.kind = assignment.kind /\ c.text = text
       /\ SubSeq(c.text, c.start, c.end - 1) = assignment.phrase
  /\ assignment.kind \in {"headline", "body"} /\ assignment.phrase \in SubSeqs(text) => citation # {}

\* The words cited for a practice group are the ones its rule fired on, in the
\* evidence that decided, and wherever no punctuation was printed between those words
\* they are cited (pipeline/extract.py, _classify).
PracticeIsCited ==
  \A n \in DOMAIN moves :
    LET assignment == classify_from(Evidence(moves[n]))
    IN CitedAs(assignment, Citation(Evidence(moves[n])), TextOf(Evidence(moves[n]), assignment.kind))

\* What a model may answer about a headline: a name that is there or not, that it
\* points at or not, and a destination or a retirement without one.
Answers(text) ==
  LET field(value, start, end) == [value |-> value, start |-> start, end |-> end]
  IN {[person_name |-> field(value, start, start + words), to_firm |-> firm, move_type |-> field(type, 1, 2)] :
        value \in {<<"jane", "smith">>, <<"ng">>, <<"ash">>}, start \in 0 .. Len(text) + 1,
        words \in 0 .. 2,
        firm \in {V!NoField, field(<<"ashurst">>, 1, Len(text) + 1)},
        type \in {Retirement, <<"lateral">>}}

\* No answer of a model to a headline becomes a field that the cited words do not
\* hold, and no quote that is somewhere in the text is dropped (spans.py, "dropped,
\* not corrected, not trusted with a lower score").
NothingIsInvented ==
  item.body = <<>> /\ 2 * pieces <= MaxPieces =>
    \A raw \in Answers(item.headline) : V!NothingInvented(raw, item.headline)

\* A partner whose name and role the rules can read in the headline is not held
\* back by the gate, whatever the body adds, provided the gate knows the verb
\* (gate.py: "a false negative here is a move the system never sees again").
PartnersPass ==
  \A n \in DOMAIN moves, tier \in {1, 3} :
    /\ "title_to" \in DOMAIN moves[n].fields
    /\ moves[n].fields["title_to"].end <= Len(Headline(item)) + 1
    => G!evaluate(item.headline, item.body, tier).passed
=============================================================================
