-------------------------------- MODULE Names --------------------------------
(***************************************************************************)
(* tracker/names.py: which end of a name is the surname, the keys that     *)
(* dedupe blocks on, and the spellings a person is found under.  A token   *)
(* of a name is the sequence of the parts that hyphens join, in lower case *)
(* and without accents and apostrophes; how it was printed is its writing, *)
(* the case and whether it had any such mark.  A name is its tokens, their *)
(* writings, the Western given name in brackets and whether it is in Han   *)
(* or Hangul script, where a token is a sequence of characters.            *)
(***************************************************************************)
EXTENDS Integers, SequencesExt

CONSTANTS
  HONORIFICS, POST_NOMINALS,   \* tokens that are no part of a name, before and after it
  SURNAME_PARTICLES,           \* tokens that belong to the surname after them
  ASIAN_SURNAMES               \* tokens that are a surname at either end

\* Honorifics go while a token is left, post-nominals while two are.
tokens(raw) ==
  LET first == {n \in DOMAIN raw.words : n = Len(raw.words) \/ raw.words[n] \notin HONORIFICS}
      named == SubSeq(raw.words, Min(first), Len(raw.words))
      last == {n \in DOMAIN named : n <= 2 \/ named[n] \notin POST_NOMINALS}
  IN IF raw.words = <<>> THEN <<>> ELSE SubSeq(named, 1, Max(last))

-----------------------------------------------------------------------------
(* Which end is the surname.                                                *)

Joined(parts) == FoldLeft(LAMBDA key, part : key \o part, "", parts)

\* One character of surname, the rest given.
SplitCJK(raw) ==
  LET compact == FlattenSeq(raw.words)
  IN [surname |-> IF compact = <<>> THEN <<>>
                  ELSE <<<<Head(compact)>>>>,
      given |-> IF Len(compact) < 2 THEN <<>> ELSE <<<<Joined(Tail(compact))>>>>]

\* Mutant: a known surname in front is the surname, whatever stands at the end.
FirstIsKnown(parts) == parts[1] \in ASIAN_SURNAMES

\* The first token, when it is a known surname and the last one is not.
SurnameFirst(parts) == parts[1] \in ASIAN_SURNAMES /\ Last(parts) \notin ASIAN_SURNAMES

\* The last token and the particles before it; one token is left as a given name.
Western(parts) ==
  LET cuts == {n \in 2 .. Len(parts) : \A m \in n .. Len(parts) - 1 : parts[m] \in SURNAME_PARTICLES}
  IN [surname |-> SubSeq(parts, Min(cuts), Len(parts)), given |-> SubSeq(parts, 1, Min(cuts) - 1)]

\* names.split.
SplitName(raw) ==
  LET parts == tokens(raw)
  IN CASE raw.cjk                        -> SplitCJK(raw)
       [] ~raw.cjk /\ Len(parts) < 2     -> [surname |-> parts, given |-> <<>>]
       [] ~raw.cjk /\ Len(parts) >= 2    ->
            IF SurnameFirst(parts) THEN [surname |-> <<parts[1]>>, given |-> Tail(parts)]
            ELSE Western(parts)

-----------------------------------------------------------------------------
(* Keys.                                                                    *)

\* "Min-jun", "Min Jun" and "Minjun" are one.
Compact(parts) == Joined(FlattenSeq(parts))

surname_key(raw) == Compact(SplitName(raw).surname)
given_key(raw) == Compact(SplitName(raw).given)        \* "" is None
given_tokens(raw) == FlattenSeq(SplitName(raw).given)

-----------------------------------------------------------------------------
(* Spellings.                                                               *)

NoAlias == [words |-> <<>>, writing |-> <<>>]

\* str.title(): the first letter of each part a capital, and the marks are gone
\* from the tokens already.
Titled == [case |-> "title", marked |-> FALSE]
InTitle(words) == [n \in DOMAIN words |-> Titled]
Title(words) == [words |-> words, writing |-> InTitle(words), alias |-> NoAlias]

Spelling(raw) == [words |-> raw.words, writing |-> raw.writing, alias |-> raw.alias]

\* The name in Western order.
display(raw) == Title(SplitName(raw).given \o SplitName(raw).surname)

Hyphenated(words) == \E n \in DOMAIN words : Len(words[n]) > 1

variants(raw) ==
  LET name == SplitName(raw)
      flat == <<<<given_key(raw)>>>>
  IN IF name.surname = <<>> THEN {Spelling(raw)}
     ELSE {Spelling(raw)}
       \cup (IF name.given = <<>> THEN {}
             ELSE {display(raw), Title(name.surname \o name.given)}
                    \cup (IF Hyphenated(name.given) THEN {Title(flat \o name.surname)} ELSE {}))
       \cup (IF raw.alias = NoAlias THEN {}
             ELSE {[words |-> raw.alias.words \o name.surname,
                    writing |-> raw.alias.writing \o InTitle(name.surname), alias |-> NoAlias]})

LowerCase(writing) == [n \in DOMAIN writing |-> [writing[n] EXCEPT !.case = "lower"]]

SameInLowerCase(raw, known) ==
  /\ raw.words = known.words /\ LowerCase(raw.writing) = LowerCase(known.writing)
  /\ raw.alias.words = known.alias.words
  /\ LowerCase(raw.alias.writing) = LowerCase(known.alias.writing)

\* pipeline/extract.py, _resolve_person: the row made of `known` is found for `raw`,
\* by its name in any case or by a variant in the very case of its letters.
ResolvesTo(raw, known) ==
  /\ SplitName(raw).surname # <<>> /\ surname_key(raw) = surname_key(known)
  /\ SameInLowerCase(raw, known) \/ Spelling(raw) \in variants(known)

-----------------------------------------------------------------------------
(* Promises (names.py, the header and `variants`).                         *)

Ordered(words, writing) == [words |-> words, writing |-> writing, alias |-> NoAlias, cjk |-> FALSE]

\* A surname of the list, and a given name whose last token could not be taken for
\* anything else.
EndsTold(surname, given) ==
  /\ surname \in ASIAN_SURNAMES \ (POST_NOMINALS \cup HONORIFICS)
  /\ given # <<>> /\ Head(given) \notin HONORIFICS
  /\ Last(given) \notin UNION {ASIAN_SURNAMES, SURNAME_PARTICLES, POST_NOMINALS}

\* Such a name makes one person in either order, with one key, however its row was
\* printed, if the next article prints it in title case; and without its hyphen.
OrderingsMeet(surname, given, writing) ==
  LET before(as) == Ordered(<<surname>> \o given, as)
      after(as) == Ordered(given \o <<surname>>, as)
      titled == InTitle(<<surname>> \o given)
      flat == <<given_key(after(writing))>>
  IN EndsTold(surname, given) =>
       /\ surname_key(before(writing)) = Compact(<<surname>>)
       /\ surname_key(after(writing)) = surname_key(before(writing))
       /\ given_key(after(writing)) = given_key(before(writing))
       /\ ResolvesTo(before(titled), after(writing)) /\ ResolvesTo(after(titled), before(writing))
       /\ Hyphenated(given) /\ EndsTold(surname, <<flat>>) =>
            \A row \in {before(writing), after(writing)} :
              ResolvesTo(Ordered(<<flat, surname>>, InTitle(<<flat, surname>>)), row)
=============================================================================
