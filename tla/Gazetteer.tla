------------------------------ MODULE Gazetteer ------------------------------
(***************************************************************************)
(* tracker/firms.py and tracker/geo.py: firms and places recognised in     *)
(* text that may have lost its capitals and its punctuation.  A text is a  *)
(* sequence of words in lower case, in which "&", "," and "." are words of *)
(* their own, "k&l" is three, and a hyphen or an apostrophe divides; the   *)
(* hyphen is a word too, "-", where the text is searched as it was printed.*)
(***************************************************************************)
EXTENDS Integers, SequencesExt

CONSTANTS
  Firms,       \* config/firms.yaml: a sequence of [name, aliases], both texts
  Places,      \* config/places.yaml: surface -> jurisdiction code, its parts a text
  NotPlaces    \* surfaces of regions that are no jurisdiction

Unknown == <<>>    \* None

AndWords == {"&", "+", "and"}
Marks == {",", "."}
Punctuation == Marks \cup {"-"}    \* what normalising leaves a space for

\* The characters of a text, spaces included.
Letters(text) == FoldSeq(LAMBDA word, sum : sum + Len(word), 0, text) + Len(text) - 1

\* Every firm of the file has a name, of some letters.
ASSUME FirmsAssumption ==
  /\ Firms = [n \in 1 .. Len(Firms) |-> Firms[n]]
  /\ \A n \in DOMAIN Firms : Firms[n].name # Unknown /\ Letters(Firms[n].name) \in Nat

-----------------------------------------------------------------------------
(* The two spellings of an ampersand.                                       *)

\* Prose leaves a gap where the ampersand was: "k l gates".
normalise(text) == SelectSeq(text, LAMBDA word : word \notin AndWords \cup Punctuation)

Unmarked(text) == SelectSeq(text, LAMBDA word : word \notin Punctuation)

Closed(plain) ==
  LET tight[n \in 0 .. Len(plain)] ==
        IF n = 0 THEN <<>>
        ELSE IF plain[n] \in AndWords THEN tight[n - 1]
        ELSE IF n > 1 /\ plain[n - 1] \in AndWords /\ tight[n - 1] # <<>>
        THEN Append(Front(tight[n - 1]), Last(tight[n - 1]) \o plain[n])
        ELSE Append(tight[n - 1], plain[n])
  IN tight[Len(plain)]

\* A slug closes it up: "kl gates".
normalise_tight(text) == Closed(Unmarked(text))

-----------------------------------------------------------------------------
(* The index of surfaces.                                                   *)

MIN_TIGHT_SURFACE == 3

Spellings(surfaces) ==
  {normalise(s) : s \in surfaces}
    \cup {k \in {normalise_tight(s) : s \in surfaces} : Letters(k) >= MIN_TIGHT_SURFACE}

Keys(entry) == Spellings({entry.name} \cup ToSet(entry.aliases)) \ {<<>>}

\* The longer canonical name wins a collision, the earlier of two as long.
Winner(claimants) ==
  CHOOSE n \in claimants : \A other \in claimants :
    \/ Letters(Firms[n].name) > Letters(Firms[other].name)
    \/ Letters(Firms[n].name) = Letters(Firms[other].name) /\ n <= other

Claimed(keys) ==
  [key \in UNION ToSet(keys) |-> Firms[Winner({n \in DOMAIN keys : key \in keys[n]})].name]

Index == Claimed([n \in DOMAIN Firms |-> Keys(Firms[n])])

Surfaces == DOMAIN Index
PlaceSurfaces == DOMAIN Places \cup NotPlaces

\* FirmGazetteer.tokens and PlaceGazetteer.tokens: a slug arrives in words.
tokens(surfaces) == {word \in UNION {ToSet(s) : s \in surfaces} : Len(word) > 1}

-----------------------------------------------------------------------------
(* Reading a text.                                                          *)

\* The mentions from word n on, `ends` being where a surface that starts there ends
\* and `from` the mentions from each later word on.
LongestFirst(text, n, ends, from) ==
  IF ends = {} THEN from[n + 1]
  ELSE <<[start |-> n, end |-> Max(ends), surface |-> SubSeq(text, n, Max(ends))]>> \o from[Max(ends) + 1]

\* The surfaces of `text`, from the left, the longest at each place, none inside
\* another: what the alternation of both patterns finds.
Mentions(text, surfaces) ==
  LET from[n \in 1 .. Len(text) + 1] ==
        IF n = Len(text) + 1 THEN <<>>
        ELSE LongestFirst(text, n, {m \in n .. Len(text) : SubSeq(text, n, m) \in surfaces}, from)
  IN from[1]

FirmsOf(mentions) ==
  [n \in DOMAIN mentions |->
     [firm |-> Index[mentions[n].surface], start |-> mentions[n].start, end |-> mentions[n].end]]

\* Positions are those of the normalised text.
find(text) == FirmsOf(Mentions(normalise(text), Surfaces))

FirstKnown(first, second) == IF first # Unknown THEN first ELSE second
Held(index, key) == IF key \in DOMAIN index THEN index[key] ELSE Unknown
ResolveIn(index, text) == FirstKnown(Held(index, normalise(text)), Held(index, normalise_tight(text)))

resolve(text) == ResolveIn(Index, text)

LastKnown(firms) ==
  LET known == {n \in DOMAIN firms : firms[n] # Unknown}
  IN IF known = {} THEN Unknown ELSE firms[Max(known)]

\* The firm that `text` begins with: a pattern takes in more than the name.
\* The apostrophe of a possessive divides words here, so cutting it off is one
\* of the prefixes.
resolve_leading_firm(text) == LastKnown([n \in 1 .. Len(text) |-> resolve(SubSeq(text, 1, n))])

FirstPlace(mentions) == IF mentions = <<>> THEN Unknown ELSE Places[mentions[1].surface]

\* Here an "and" is a word like any other.
Spoken(text) == SelectSeq(text, LAMBDA word : word \notin Punctuation \cup {"&", "+"})

\* The first place that is a jurisdiction; a region consumes its words.
Office(text) ==
  FirstPlace(SelectSeq(Mentions(Spoken(text), PlaceSurfaces), LAMBDA m : m.surface \notin NotPlaces))
=============================================================================
