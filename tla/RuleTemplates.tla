---------------------------- MODULE RuleTemplates ----------------------------
(***************************************************************************)
(* What the rule extractor looks for: the word lists and the templates of  *)
(* extract/rules.py and body_rules.py, and the role clauses of roles.py.   *)
(* A word list is a sample of the code's, for the code treats the words of *)
(* one list alike.                                                         *)
(***************************************************************************)
EXTENDS FirmPair, WordTemplates

CONSTANTS
  Words,      \* every word of the texts read
  Capital     \* the words printed with a capital in an article body

ASSUME WordsAssumption == Capital \subseteq Words /\ Marks \cup AndWords \subseteq Words

-----------------------------------------------------------------------------
(* Words no name contains.                                                  *)

FUNCTION_WORDS == {"a", "an", "the", "in", "of", "to", "for", "from", "with", "and", "as", "new"}
ROLE_WORDS == {"partner", "partners", "counsel", "lawyer", "head", "managing", "former", "gc", "team"}
NAVIGATION_WORDS == {"share", "news", "most", "popular", "home"}
PUBLIC_BODY_WORDS == {"ex", "prosecutor", "regulator", "nsw"}
QUANTITY_WORDS == {"two", "three", "dozen", "even"}
DESCRIPTOR_WORDS == {"star", "veteran", "rising", "trio"}
PRACTICE_WORDS == {"ip", "ma", "tax", "disputes", "funds", "equity", "energy", "finance"}
ORGANISATION_WORDS == {"legal", "journal", "group", "limited"}
NOT_A_PERSON ==
  UNION {FUNCTION_WORDS, ROLE_WORDS, NAVIGATION_WORDS, PUBLIC_BODY_WORDS, QUANTITY_WORDS,
         DESCRIPTOR_WORDS, PRACTICE_WORDS, ORGANISATION_WORDS}
HONORIFIC == {"dr", "mr", "ms", "prof", "sir"}
SLUG_VERBS == {"promotes", "joins", "hires", "adds", "names", "welcomes", "appoints", "opens", "two"}

Says(text, phrases) == \E p \in phrases : p \in SubSeqs(text)

\* A clause that names a partner-level role: a word that begins like one, or its
\* letters (PARTNER_LEVEL_TITLE, _PARTNER_WORD).
PARTNER_LEVEL == {"partner", "counsel", "head", "chair", "managing", "principal", "director", "silk"}
PARTNER_LETTERS == {"gc", "clo", "kc", "qc", "sc"}
PARTNER_WORDS == {"partner", "partners", "partnership", "principal"}

\* A role that is not one: counsel other than general, an associate who is no
\* associate partner, a director of a named function.
StatesNonPartner(text) ==
  \E n \in DOMAIN text :
    LET before == IF n = 1 THEN NoSlot ELSE text[n - 1]
        after == IF n = Len(text) THEN NoSlot ELSE text[n + 1]
    IN \/ text[n] = "counsel" /\ before # "general"
       \/ text[n] = "associate" /\ after # "partner"
       \/ text[n] = "director" /\ (before = "executive" \/ after = "of")
       \/ text[n] \in {"paralegal", "trainee"}

SaysPartner(text) == ToSet(text) \cap PARTNER_WORDS # {}

is_partner_level(title) ==
  /\ StatesNonPartner(title) => SaysPartner(title)
  /\ \E word \in ToSet(title) : word \in PARTNER_LETTERS \/ \E role \in PARTNER_LEVEL : IsPrefix(role, word)

-----------------------------------------------------------------------------
(* Headline templates, most specific first.                                 *)

NameWords == Words \ (Marks \cup {"&", "+"})
FirmWords == Words \ Marks
TITLE_WORDS == {"partner", "partners", "principal", "counsel", "lawyer", "head", "director"}
Verb(stems) == Word(stems \cup {v \o "s" : v \in stems})

PERSON == Run("person", NameWords, 2, 4, FALSE)
PEOPLE == List(PERSON, FALSE)
PEOPLE_OR_ONE == List(PERSON, TRUE)
FIRM_A == Led(Run("firm_a", FirmWords, 1, 6, TRUE), NameWords)
FIRM_B == Led(Run("firm_b", FirmWords, 1, 6, FALSE), NameWords)
TITLE == Run("title", Words, 1, 12, TRUE)
PRACTICE == Run("practice", NameWords, 1, 6, TRUE)
Filler == Run(NoSlot, Words \ {"."}, 0, 15, TRUE)
Joins == Verb({"join", "rejoin"})
Comma == Word({","})

T(type, whole, parts) == [type |-> type, whole |-> whole, parts |-> parts, longer |-> {}]

\* An optional last clause is a template of its own; the one without it matches only
\* what the `longer` one does not.
Without(longer, type, parts) == [type |-> type, whole |-> TRUE, parts |-> parts, longer |-> {longer}]
PEOPLE_JOIN_AS == <<PEOPLE, Joins, FIRM_A, Word({"as"}), TITLE>>

TEMPLATES ==
  <<T("lateral", TRUE, <<FIRM_A, Verb({"name", "appoint", "welcome", "elevate", "promote", "hire", "add"}),
                         PEOPLE, Word({"as", "to"}), TITLE>>),
    T("lateral", TRUE, PEOPLE_JOIN_AS),
    Without(PEOPLE_JOIN_AS, "lateral", <<PEOPLE, Joins, FIRM_A>>),
    T("lateral", TRUE, <<FIRM_A, Filler, Word({"with"}), Maybe({"its", "the"}), Maybe({"new"}),
                         Word(TITLE_WORDS), PEOPLE_OR_ONE>>),
    T("lateral", TRUE, <<FIRM_A, Filler, Verb({"hire", "recruit", "welcome", "appoint", "add"}),
                         Maybe({"leading", "senior", "veteran", "new"}), Word(TITLE_WORDS), PEOPLE_OR_ONE>>),
    T("lateral", FALSE, <<PEOPLE, Joins, FIRM_A, Word({"from"}), FIRM_B>>),
    T("lateral", FALSE, <<PERSON, Joins, FIRM_A, Word({"from"}), FIRM_B>>),
    T("lateral", TRUE, <<FIRM_A, Verb({"welcome"}), PERSON, Word({"as"}), TITLE>>),
    T("lateral", TRUE, <<FIRM_A, Verb({"welcome"}), Maybe({"new"}), PRACTICE, Word({"partner"}), PERSON>>),
    T("lateral", TRUE, <<FIRM_A, Verb({"appoint"}), PERSON, Word({"as"}), TITLE>>),
    T("lateral", FALSE, <<FIRM_A, Verb({"hire", "add", "recruit", "poach", "lure"}), PERSON,
                          Word({"from"}), FIRM_B>>),
    T("promotion", TRUE, <<PERSON, Verb({"step"}), Lit({<<"up", "as">>}), FIRM_A, Maybe({"new"}), TITLE>>),
    T("promotion", TRUE, <<FIRM_A, Verb({"promote"}), PERSON, Word({"to"}), TITLE>>),
    T("lateral", FALSE, <<PERSON, Comma, Filler, Verb({"exit", "move", "jump", "depart", "defect"}),
                          Word({"for", "to"}), FIRM_A>>),
    T("lateral", TRUE, <<PERSON, Joins, FIRM_A, Word({"as"}), TITLE>>)>>

-----------------------------------------------------------------------------
(* Sentence templates of article bodies.                                    *)

BodyPerson == Run("person", Capital, 2, 4, FALSE)
BodyFirm(lazy) == Led(Run("firm_b", FirmWords, 1, 6, lazy), Capital)
BodyTitle == Run("title", NameWords, 1, 10, FALSE)
JoinForms == Word({"join", "joins", "joined", "rejoins", "rejoined"})
HireForms == {"appointed", "named", "welcomed", "promoted", "elevated", "hired", "recruited", "added"}
AddForms == {"adds", "added", "appoints", "appointed", "hires", "hired", "recruits", "welcomes", "welcomed"}
Arrivals == Word({"addition", "arrival", "appointment", "hiring", "recruitment"})
RoleNouns == Word({"partner", "counsel", "principal", "head", "lawyer", "specialist"})

WITH_ORIGIN ==
  <<<<Lit({<<"former">>, <<"ex">>, <<"previously", "of">>, <<"previously", "at">>}), BodyFirm(TRUE),
      Maybe({"s"}), Word({"partner", "counsel", "principal", "lawyer"}), BodyPerson>>,
    <<BodyPerson, Lit({<<"is", "a", "lateral", "hire", "from">>}), BodyFirm(FALSE)>>,
    <<BodyPerson, Maybe({"who"}), Maybe({"has", "had"}), JoinForms,
      Lit({<<>>, <<"the", "firm">>}), Word({"from"}), BodyFirm(FALSE)>>,
    <<BodyPerson, Word({"arrives", "moves", "transfers", "comes"}), Word({"from"}), BodyFirm(FALSE)>>,
    <<BodyPerson, Word({"was"}), Maybe({"previously"}), Lit({<<>>, <<"a", "partner">>}), Word({"at"}),
      BodyFirm(FALSE)>>>>

WITHOUT_ORIGIN ==
  <<<<BodyPerson, Maybe({"has"}), JoinForms, Lit({<<>>, <<"the", "firm">>}), Word({"as"}), BodyTitle>>,
    <<Word(HireForms), BodyPerson, Word({"as", "to"}), BodyTitle>>,
    <<BodyPerson, Lit({<<"has", "been">>, <<"was">>}), Word({"appointed", "promoted", "elevated"}),
      Word({"as", "to"}), BodyTitle>>,
    <<BodyPerson, Lit({<<>>, <<"will">>, <<"has">>, <<"is", "to">>, <<"is", "set", "to">>}), JoinForms,
      Led(Run(NoSlot, FirmWords, 1, 6, FALSE), Capital \cup {"the"})>>,
    <<Arrivals, Word({"of"}), BodyPerson>>,
    <<Word(AddForms), Maybe({"former", "ex"}), Run(NoSlot, NameWords, 0, 6, TRUE), RoleNouns, BodyPerson>>,
    <<Arrivals, Word({"of"}), Run(NoSlot, NameWords, 0, 4, TRUE), RoleNouns, BodyPerson>>,
    <<Word({"led", "headed", "spearheaded", "fronted"}), Word({"by"}), BodyPerson>>,
    <<Lit({<<"brought", "in">>, <<"brings", "in">>}), Maybe({"its", "the"}), Maybe({"first"}),
      Run(NoSlot, NameWords, 0, 10, TRUE), Word({"in"}), BodyPerson>>>>

NAME_LIST ==
  <<List(BodyPerson, FALSE), Lit({<<"becoming">>, <<"have", "become">>, <<"were", "made">>,
    <<"have", "been", "promoted">>, <<"joined", "as">>, <<"are">>}), Filler, Word({"partner", "partners"})>>
NAME_LIST_AFTER_VERB ==
  <<Word({"comprises", "comprise", "includes", "include", "are", "being"}), List(BodyPerson, FALSE)>>

-----------------------------------------------------------------------------
(* Role clauses.                                                            *)

QUALIFIERS == {"managing", "senior", "junior", "equity", "global", "deputy", "associate", "general",
               "special", "of"}
ROLE_TITLE == <<Run(NoSlot, QUALIFIERS, 0, 3, FALSE),
                Word({"partner", "partners", "principal", "counsel", "head", "chair", "director"})>>
LEADING == {"a", "an", "the", "its", "their", "new", "newest", "first", "second"}
TAIL_NOISE == {<<"to", "lead">>, <<"amid">>, <<"after">>, <<"while">>, <<"who">>}
STRUCTURAL == {"office", "partnership", "partner", "firm", "team", "group", "practice", "role"}
PracticeNoun == Lit({<<"practice", "group">>, <<"practice">>, <<"team">>, <<"group">>, <<"department">>})
\* After a preposition or a verb, up to some end.
PracticeAfter(words, end) ==
  <<Word(words), Maybe({"the", "its", "a", "an"}), Lit({<<>>, <<"firm">>, <<"firm", "s">>}),
    Run("practice", Words \ {"."}, 1, 8, TRUE), end>>
Prepositions == {"in", "on", "of", "to", "within", "for"}
PRACTICE_BOUNDED == PracticeAfter(Prepositions, PracticeNoun)
PRACTICE_TRAILING == PracticeAfter(Prepositions, Word({"."}))
BODY_PRACTICE ==
  PracticeAfter({"in", "to", "of", "join", "joins", "joining", "lead", "leads", "leading", "head", "heads",
                 "within"}, PracticeNoun)

\* The text before the first of some phrases.
Before(text, phrases) ==
  LET at == {n \in DOMAIN text : \E p \in phrases : IsPrefix(p, SubSeq(text, n, Len(text)))}
  IN IF at = {} THEN text ELSE SubSeq(text, 1, Min(at) - 1)

Unless(text, words) == IF text # <<>> /\ text[1] \in words THEN Tail(text) ELSE text

\* None, <<>>, when only structural words are left; a trailing one is dropped.
Substance(text) ==
  IF ToSet(text) \subseteq STRUCTURAL \cup {"and", "&", "the", "of", "its"} THEN <<>>
  ELSE SubSeq(text, 1, Max({n \in DOMAIN text : text[n] \notin STRUCTURAL}))

clean_practice(raw) ==
  Substance(Unless(Unless(Before(raw, {<<"and", w>> : w \in {"a", "an", "the", "its"}}),
                          {"of", "in", "on", "for", "to", "at", "the", "its", "a", "an", "new"}),
                   {"the", "its", "a", "an"}))

\* The first that is not rejected; <<>> when there is none.
FirstBut(rejected, found) ==
  LET at == {n \in DOMAIN found : found[n] \notin rejected}
  IN IF at = {} THEN <<>> ELSE found[Min(at)]

Practices(parts, text, matches) ==
  [n \in DOMAIN matches |-> clean_practice(Cut(text, Span(parts, matches[n], "practice")))]

\* The first practice that `parts` finds in `text`; a piece of the title is none.
Practice(parts, text, title) ==
  FirstBut({<<>>} \cup SubSeqs(title), Practices(parts, text, Matches(parts, text)))

TitleOf(text, matches) ==
  IF matches = <<>> THEN <<>> ELSE SubSeq(text, Head(matches[1]), Last(matches[1]) - 1)

PracticeOf(text, title) ==
  FirstKnown(Practice(PRACTICE_BOUNDED, text, title),
             Practice(PRACTICE_TRAILING, Append(text, "."), title))

\* The name of a region stands in it, inside another word too.
is_region(text) == \E s \in NotPlaces : Occurrences(s, Spoken(text)) # {}

UnlessAPlace(practice) ==
  IF Len(practice) <= 3 /\ (Office(practice) # Unknown \/ is_region(practice)) THEN <<>> ELSE practice

Role(text, title) ==
  [title |-> title, office |-> Office(text), practice |-> UnlessAPlace(PracticeOf(text, title))]

Clauses(text) == Role(text, TitleOf(text, Matches(ROLE_TITLE, text)))

\* Title, practice and office of a clause; a region is no practice.
parse(phrase) == Clauses(Unless(Before(phrase, TAIL_NOISE), LEADING))
=============================================================================
