------------------------------ MODULE Taxonomy ------------------------------
(***************************************************************************)
(* tracker/taxonomy.py and the classification of pipeline/extract.py: the  *)
(* practice group that the words of an article are mapped to, and the      *)
(* words that are cited for it.  Texts are those of Gazetteer; a code is   *)
(* the sequence of its dotted parts.                                       *)
(***************************************************************************)
EXTENDS Gazetteer, WordTemplates

CONSTANTS
  Groups,        \* practice_groups.yaml: a sequence of [code, unclassified, children]
  Mappings,      \* taxonomy_mappings.yaml: phrase -> [primary, secondary]
  NotPractice    \* the phrases that are no practice

NoKind == "none"
UNCLASSIFIED == <<"unclassified">>
MAX_SECONDARY == 2

-----------------------------------------------------------------------------
(* Loading.                                                                 *)

Flattened(groups) ==
  UNION {{groups[n].code} \cup groups[n].children : n \in DOMAIN groups}

\* What Taxonomy.load refuses to do without.
Loadable(groups, mappings) ==
  LET known == Flattened(groups)
      mapped(m) == {m.primary} \cup ToSet(m.secondary)
  IN /\ \A n \in DOMAIN groups : \A child \in groups[n].children : IsStrictPrefix(groups[n].code, child)
     /\ \E n \in DOMAIN groups : groups[n].unclassified
     /\ \A phrase \in DOMAIN mappings : LET m == mappings[phrase] IN
          /\ mapped(m) \subseteq known
          /\ Len(m.secondary) <= MAX_SECONDARY
          /\ m.primary \notin ToSet(m.secondary)

-----------------------------------------------------------------------------
(* Classification.                                                          *)

Phrases == DOMAIN Mappings \cup NotPractice

\* normalise: the punctuation goes, the ampersand stays.
Plain(text) == SelectSeq(text, LAMBDA word : word \notin Punctuation \cup {"+"})

\* The rule that decided, with the phrase it fired on; confidence in hundredths.
Assigned(primary, secondary, rule, phrase, confidence) ==
  [primary |-> primary, secondary |-> secondary, kind |-> NoKind, rule |-> rule, phrase |-> phrase,
   confidence |-> confidence]

NoEvidence(rule) == Assigned(UNCLASSIFIED, <<>>, rule, <<>>, 0)

\* The phrase a mention stands for: `whole` when it is all of the text.
Mapped(phrase, whole) ==
  IF phrase \in NotPractice THEN Assigned(UNCLASSIFIED, <<>>, "not_a_practice", phrase, 90)
  ELSE Assigned(Mappings[phrase].primary, Mappings[phrase].secondary, "mapping", phrase,
                IF whole THEN 95 ELSE 80)

ClassifiedBy(text, found) ==
  CASE text = <<>>                  -> NoEvidence("no_practice_text")
    [] text # <<>> /\ found = <<>>  -> NoEvidence("no_mapping_matched")
    [] text # <<>> /\ found # <<>>  -> Mapped(found[1].surface, found[1].surface = Plain(text))

\* The first phrase of the text decides, the longest where several start.
classify(text) == ClassifiedBy(text, Mentions(Plain(text), Phrases))

EVIDENCE_WEIGHT == [stated |-> 100, headline |-> 75, body |-> 60]

\* A phrase that is no practice decides only where it is the stated clause.
Decisive(kind, found) ==
  IF found.rule = "not_a_practice" THEN kind = "stated" ELSE found.primary # UNCLASSIFIED

Decides(piece) == Decisive(piece.kind, classify(piece.text))

Weighed(kind, found) ==
  [found EXCEPT !.kind = kind, !.confidence = (@ * EVIDENCE_WEIGHT[kind]) \div 100]

\* `found` is what each piece of the evidence says by itself.
FirstDecisive(evidence, found) ==
  LET deciding == {n \in DOMAIN evidence : Decisive(evidence[n].kind, found[n])}
      silent == \A n \in DOMAIN evidence : evidence[n].text = <<>>
  IN IF deciding = {}
     THEN NoEvidence(IF silent THEN "no_practice_text" ELSE "no_evidence_matched")
     ELSE Weighed(evidence[Min(deciding)].kind, found[Min(deciding)])

\* The first of the evidence, [kind, text] strongest first, that decides.
classify_from(evidence) ==
  FirstDecisive(evidence, [n \in DOMAIN evidence |-> classify(evidence[n].text)])

-----------------------------------------------------------------------------
(* The words cited (pipeline/extract.py, _classify).                        *)

\* Mutant: the phrase that `classify` passed over.
LastPhrase(text) ==
  LET found == Mentions(Plain(text), Phrases) IN IF found = <<>> THEN <<>> ELSE Last(found).surface

\* <<>> is None.
matched_phrase(text) ==
  LET found == Mentions(Plain(text), Phrases) IN IF found = <<>> THEN <<>> ELSE found[1].surface

\* The first text of a kind that is not empty; <<>> when there is none.
TextOf(evidence, kind) ==
  LET at == {n \in DOMAIN evidence : evidence[n].kind = kind /\ evidence[n].text # <<>>}
  IN IF at = {} THEN <<>> ELSE evidence[Min(at)].text

\* The phrase where it first occurs in the text as it was printed, in a set: only
\* spaces may stand between its words there.
CitedAt(kind, text, phrase, hits) ==
  IF kind \notin {"headline", "body"} \/ phrase = <<>> \/ hits = {} THEN {}
  ELSE {[kind |-> kind, text |-> text, start |-> Min(hits), end |-> Min(hits) + Len(phrase)]}

CitedIn(kind, text, phrase) == CitedAt(kind, text, phrase, Occurrences(phrase, text))

CitedFor(kind, text) == CitedIn(kind, text, matched_phrase(text))

CitedKind(evidence, kind) == CitedFor(kind, TextOf(evidence, kind))

\* The row of move_field_evidence, if one is written: the text and where in it.
Citation(evidence) == CitedKind(evidence, classify_from(evidence).kind)
=============================================================================
