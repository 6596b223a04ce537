---------------------------- MODULE ReadingProofs ----------------------------
(***************************************************************************)
(* What the rules make of a name, of the firms of a headline, of the words *)
(* of an article, of its practice and of a model's answer, for every word  *)
(* list, gazetteer and text.  The theorems named Every... are about the    *)
(* operators; those of the specification follow from them.  Names are      *)
(* split by looking at their two ends, so nothing is assumed of the tokens *)
(* between.  Mentions, matches and flattened sequences are recursive       *)
(* functions over positions: that one has a value at every position is     *)
(* proved by looking at the last position at which it had none.  What is   *)
(* said of matches is only that their positions never go back, which is    *)
(* enough to know that a span cuts words out of the text it points into.   *)
(***************************************************************************)
EXTENDS MCReading, FiniteSetTheorems, SequenceTheorems, WellFoundedInduction, TLAPS

-----------------------------------------------------------------------------
(* Names.                                                                   *)

\* The end of a set of numbers is its least or its greatest member.
LEMMA OfOne ==
  ASSUME NEW S, NEW n, n \in S, \A k \in S : k \in Int, n \in Int
  PROVE  /\ (\A k \in S : n <= k) => N!Min(S) = n
         /\ (\A k \in S : n >= k) => N!Max(S) = n
<1>1. ASSUME \A k \in S : n <= k PROVE N!Min(S) = n
  <2>1. /\ (CHOOSE x \in S : \A y \in S : x <= y) \in S
        /\ \A y \in S : (CHOOSE x \in S : \A z \in S : x <= z) <= y
    BY <1>1
  <2> DEFINE c == CHOOSE x \in S : \A y \in S : x <= y
  <2>2. c \in S /\ c <= n /\ n <= c
    BY <1>1, <2>1
  <2>3. N!Min(S) = c
    BY DEF N!Min
  <2> HIDE DEF c
  <2> QED BY <2>2, <2>3
<1>2. ASSUME \A k \in S : n >= k PROVE N!Max(S) = n
  <2>1. /\ (CHOOSE x \in S : \A y \in S : x >= y) \in S
        /\ \A y \in S : (CHOOSE x \in S : \A z \in S : x >= z) >= y
    BY <1>2
  <2> DEFINE c == CHOOSE x \in S : \A y \in S : x >= y
  <2>2. c \in S /\ c <= n /\ n <= c
    BY <1>2, <2>1
  <2>3. N!Max(S) = c
    BY DEF N!Max
  <2> HIDE DEF c
  <2> QED BY <2>2, <2>3
<1> QED BY <1>1, <1>2

\* A name that neither starts with an honorific nor ends with a post-nominal loses
\* no token (names.tokens).
LEMMA AllKept ==
  ASSUME NEW S, NEW as, NEW words \in Seq(S), words # <<>>,
         words[1] \notin HONORIFICS, words[Len(words)] \notin POST_NOMINALS
  PROVE  N!tokens(N!Ordered(words, as)) = words
<1> DEFINE first == {n \in DOMAIN words : n = Len(words) \/ words[n] \notin HONORIFICS}
           last == {n \in DOMAIN words : n <= 2 \/ words[n] \notin POST_NOMINALS}
<1>1. /\ Len(words) \in Nat /\ Len(words) >= 1 /\ DOMAIN words = 1 .. Len(words)
      /\ SubSeq(words, 1, Len(words)) = words
  OBVIOUS
<1>2. N!Min(first) = 1
  <2>1. 1 \in first /\ \A k \in first : k \in Int /\ 1 <= k
    BY <1>1
  <2> QED BY <2>1, OfOne
<1>3. N!Max(last) = Len(words)
  <2>1. Len(words) \in last /\ \A k \in last : k \in Int /\ Len(words) >= k
    BY <1>1
  <2> QED BY <1>1, <2>1, OfOne
<1>4. N!Ordered(words, as).words = words
  BY DEF N!Ordered
<1> HIDE DEF first, last
<1>5. SubSeq(words, N!Min(first), Len(words)) = words
  BY <1>1, <1>2
<1>6. SubSeq(words, 1, N!Max(last)) = words
  BY <1>1, <1>3
<1> QED BY <1>4, <1>5, <1>6 DEF N!tokens, first, last

\* With the surname in front, a known surname and no other at the end, the first
\* token is the surname (names.split).
LEMMA SplitBefore ==
  ASSUME NEW S, NEW as, NEW surname \in S, NEW given \in Seq(S), N!EndsTold(surname, given)
  PROVE  N!SplitName(N!Ordered(<<surname>> \o given, as)) = [surname |-> <<surname>>, given |-> given]
<1> DEFINE words == <<surname>> \o given
<1>0. /\ given # <<>> /\ surname \in ASIAN_SURNAMES \ HONORIFICS
      /\ given[Len(given)] \notin ASIAN_SURNAMES \cup POST_NOMINALS
  BY DEF N!EndsTold, N!Last
<1>1. /\ words \in Seq(S) /\ words # <<>> /\ Len(words) >= 2
      /\ words[1] = surname /\ words[Len(words)] = given[Len(given)] /\ Tail(words) = given
  BY <1>0
<1> HIDE DEF words
<1>2. N!tokens(N!Ordered(words, as)) = words
  BY <1>0, <1>1, AllKept
<1>3. N!SurnameFirst(words)
  BY <1>0, <1>1 DEF N!SurnameFirst, N!Last
<1>4. N!Ordered(words, as).cjk = FALSE
  BY DEF N!Ordered
<1>5. N!SplitName(N!Ordered(words, as)) = [surname |-> <<words[1]>>, given |-> Tail(words)]
  <2> DEFINE raw == N!Ordered(words, as)
  <2>1. raw.cjk = FALSE /\ N!tokens(raw) = words
    BY <1>2, <1>4
  <2> HIDE DEF raw
  <2>2. ~raw.cjk /\ ~(Len(N!tokens(raw)) < 2) /\ Len(N!tokens(raw)) >= 2
    BY <1>1, <2>1
  <2>3. N!SplitName(raw) = [surname |-> <<N!tokens(raw)[1]>>, given |-> Tail(N!tokens(raw))]
    BY <1>3, <2>1, <2>2 DEF N!SplitName
  <2> QED BY <2>1, <2>3 DEF raw
<1> QED BY <1>1, <1>5 DEF words

\* With the surname at the end, a known one, the last token is the surname unless a
\* particle stands before it.
LEMMA SplitAfter ==
  ASSUME NEW S, NEW as, NEW surname \in S, NEW given \in Seq(S), N!EndsTold(surname, given)
  PROVE  N!SplitName(N!Ordered(given \o <<surname>>, as)) = [surname |-> <<surname>>, given |-> given]
<1> DEFINE words == given \o <<surname>>
<1>0. /\ given # <<>> /\ surname \in ASIAN_SURNAMES \ POST_NOMINALS
      /\ given[1] \notin HONORIFICS /\ given[Len(given)] \notin SURNAME_PARTICLES
  BY DEF N!EndsTold, N!Last
<1>1. /\ words \in Seq(S) /\ words # <<>> /\ Len(words) >= 2 /\ Len(words) = Len(given) + 1
      /\ words[1] = given[1] /\ words[Len(words)] = surname
      /\ words[Len(words) - 1] = given[Len(given)]
      /\ SubSeq(words, Len(words), Len(words)) = <<surname>>
      /\ SubSeq(words, 1, Len(words) - 1) = given
  <2>1. Len(given) \in Nat /\ Len(given) >= 1 /\ <<surname>> \in Seq(S)
    BY <1>0
  <2>2. /\ words \in Seq(S) /\ Len(words) = Len(given) + 1 /\ words[Len(words)] = surname
        /\ \A k \in 1 .. Len(given) : words[k] = given[k]
    BY <2>1
  <2> HIDE DEF words
  <2>3. SubSeq(words, Len(words), Len(words)) = <<surname>>
    <3> DEFINE end == SubSeq(words, Len(words), Len(words))
    <3>1. end \in Seq(S) /\ Len(end) = 1 /\ end[1] = surname
      BY <2>1, <2>2
    <3> HIDE DEF end
    <3>2. end = <<surname>>
      BY <3>1
    <3> QED BY <3>2 DEF end
  <2>4. SubSeq(words, 1, Len(words) - 1) = given
    BY <2>1, <2>2
  <2> QED BY <2>1, <2>2, <2>3, <2>4
<1> HIDE DEF words
<1>2. N!tokens(N!Ordered(words, as)) = words
  BY <1>0, <1>1, AllKept
<1>3. ~N!SurnameFirst(words)
  BY <1>0, <1>1 DEF N!SurnameFirst, N!Last
<1>4. N!Ordered(words, as).cjk = FALSE
  BY DEF N!Ordered
<1> DEFINE cuts == {n \in 2 .. Len(words) : \A m \in n .. Len(words) - 1 : words[m] \in SURNAME_PARTICLES}
<1>5. N!Min(cuts) = Len(words)
  <2>1. Len(words) \in Nat /\ Len(words) >= 2
    BY <1>1
  <2>2. Len(words) \in cuts
    BY <2>1
  <2>3. ASSUME NEW k \in cuts PROVE k \in Int /\ Len(words) <= k
    <3>1. k \in 2 .. Len(words) /\ \A m \in k .. Len(words) - 1 : words[m] \in SURNAME_PARTICLES
      OBVIOUS
    <3>2. k <= Len(words) - 1 => Len(words) - 1 \in k .. Len(words) - 1
      BY <2>1, <3>1
    <3> QED BY <1>0, <1>1, <2>1, <3>1, <3>2
  <2> QED BY <2>1, <2>2, <2>3, OfOne
<1> HIDE DEF cuts
<1>6. N!Western(words) = [surname |-> SubSeq(words, N!Min(cuts), Len(words)),
                          given |-> SubSeq(words, 1, N!Min(cuts) - 1)]
  BY DEF N!Western, cuts
<1>7. N!SplitName(N!Ordered(words, as)) = N!Western(words)
  <2> DEFINE raw == N!Ordered(words, as)
  <2>1. raw.cjk = FALSE /\ N!tokens(raw) = words
    BY <1>2, <1>4
  <2> HIDE DEF raw
  <2>2. ~raw.cjk /\ ~(Len(N!tokens(raw)) < 2) /\ Len(N!tokens(raw)) >= 2
    BY <1>1, <2>1
  <2>3. N!SplitName(raw) = N!Western(N!tokens(raw))
    BY <1>3, <2>1, <2>2 DEF N!SplitName
  <2> QED BY <2>1, <2>3 DEF raw
<1> QED BY <1>1, <1>5, <1>6, <1>7 DEF words

\* A name of two tokens is put together of them.
LEMMA TwoTokens ==
  ASSUME NEW x, NEW y PROVE <<x>> \o <<y>> = <<x, y>>
<1>1. <<x>> \in Seq({x, y}) /\ <<y>> \in Seq({x, y})
  OBVIOUS
<1> DEFINE both == <<x>> \o <<y>>
<1>2. both \in Seq({x, y}) /\ Len(both) = 2 /\ both[1] = x /\ both[2] = y
  BY <1>1
<1> HIDE DEF both
<1>3. both = <<x, y>>
  BY <1>2
<1> QED BY <1>3 DEF both

\* Either order of any name whose surname is on the list, of however many tokens and
\* however it was printed, is found by the other in title case, with the same two keys
\* (names.py, the header): what dedupe blocks on does not depend on the outlet's
\* convention, and what _resolve_person looks up only on its capitals.
THEOREM EveryOrderMeets ==
  ASSUME NEW S, NEW surname \in S, NEW given \in Seq(S), NEW writing
  PROVE  N!OrderingsMeet(surname, given, writing)
<1> DEFINE before(as) == N!Ordered(<<surname>> \o given, as)
           after(as) == N!Ordered(given \o <<surname>>, as)
           titled == N!InTitle(<<surname>> \o given)
           flat == <<N!given_key(after(writing))>>
           bare == N!Ordered(<<flat, surname>>, N!InTitle(<<flat, surname>>))
           split == [surname |-> <<surname>>, given |-> given]
           rows == {before(writing), after(writing)}
<1> SUFFICES ASSUME N!EndsTold(surname, given)
             PROVE  /\ N!surname_key(before(writing)) = N!Compact(<<surname>>)
                    /\ N!surname_key(after(writing)) = N!surname_key(before(writing))
                    /\ N!given_key(after(writing)) = N!given_key(before(writing))
                    /\ N!ResolvesTo(before(titled), after(writing))
                    /\ N!ResolvesTo(after(titled), before(writing))
                    /\ N!Hyphenated(given) /\ N!EndsTold(surname, <<flat>>) =>
                         \A row \in rows : N!ResolvesTo(bare, row)
  BY DEF N!OrderingsMeet
<1>1. /\ surname \in ASIAN_SURNAMES \ (POST_NOMINALS \cup HONORIFICS)
      /\ given # <<>> /\ given[1] \notin HONORIFICS
      /\ given[Len(given)] \notin UNION {ASIAN_SURNAMES, SURNAME_PARTICLES, POST_NOMINALS}
  BY DEF N!EndsTold, N!Last
<1>2. \A as : N!SplitName(before(as)) = split /\ N!SplitName(after(as)) = split
  <2> SUFFICES ASSUME NEW as
               PROVE  N!SplitName(before(as)) = split /\ N!SplitName(after(as)) = split
    OBVIOUS
  <2>1. N!SplitName(N!Ordered(<<surname>> \o given, as)) = [surname |-> <<surname>>, given |-> given]
    BY SplitBefore, Zenon
  <2>2. N!SplitName(N!Ordered(given \o <<surname>>, as)) = [surname |-> <<surname>>, given |-> given]
    BY SplitAfter, Zenon
  <2> QED BY <2>1, <2>2
<1>3. /\ N!Spelling(before(titled)) = N!Title(<<surname>> \o given)
      /\ N!Spelling(after(titled)) = N!Title(given \o <<surname>>)
      /\ N!Spelling(bare) = N!Title(<<flat, surname>>)
  <2>1. N!InTitle(<<surname>> \o given) = N!InTitle(given \o <<surname>>)
    <3>1. /\ <<surname>> \o given \in Seq(S) /\ given \o <<surname>> \in Seq(S)
          /\ Len(<<surname>> \o given) = Len(given \o <<surname>>)
      OBVIOUS
    <3>2. DOMAIN (<<surname>> \o given) = DOMAIN (given \o <<surname>>)
      BY <3>1
    <3> QED BY <3>2, Zenon DEF N!InTitle
  <2> QED BY <2>1, Zenon DEF N!Spelling, N!Title, N!Ordered
<1>4. split.surname = <<surname>> /\ split.given = given /\ <<surname>> # <<>> /\ given # <<>>
  BY <1>1
<1> HIDE DEF before, after, titled, split
<1>5. \A as : /\ N!surname_key(before(as)) = N!Compact(<<surname>>)
              /\ N!surname_key(after(as)) = N!Compact(<<surname>>)
              /\ N!given_key(before(as)) = N!Compact(given)
              /\ N!given_key(after(as)) = N!Compact(given)
  BY <1>2, <1>4, Zenon DEF N!surname_key, N!given_key
<1>6. N!Title(<<surname>> \o given) \in N!variants(after(writing))
  BY <1>2, <1>4 DEF N!variants
<1>7. N!Title(given \o <<surname>>) \in N!variants(before(writing))
  BY <1>2, <1>4 DEF N!variants, N!display
<1>8. /\ N!ResolvesTo(before(titled), after(writing))
      /\ N!ResolvesTo(after(titled), before(writing))
  BY <1>2, <1>3, <1>4, <1>5, <1>6, <1>7, Zenon DEF N!ResolvesTo
<1>9. ASSUME N!Hyphenated(given), N!EndsTold(surname, <<flat>>), NEW row \in rows
      PROVE  N!ResolvesTo(bare, row)
  <2>1. N!SplitName(bare) = [surname |-> <<surname>>, given |-> <<flat>>]
    <3>1. <<flat>> \o <<surname>> = <<flat, surname>>
      BY TwoTokens
    <3> DEFINE Larger == S \cup {flat}
    <3>2. surname \in Larger /\ <<flat>> \in Seq(Larger)
      OBVIOUS
    <3> HIDE DEF flat, Larger
    <3>3. N!SplitName(N!Ordered(<<flat>> \o <<surname>>, N!InTitle(<<flat, surname>>)))
            = [surname |-> <<surname>>, given |-> <<flat>>]
      BY <1>9, <3>2, SplitAfter, Zenon
    <3> QED BY <3>1, <3>3
  <2>2. N!SplitName(row) = split /\ N!surname_key(row) = N!Compact(<<surname>>)
        /\ <<N!given_key(row)>> = flat
    BY <1>2, <1>5
  <2>3. N!Title(<<flat>> \o <<surname>>) \in N!variants(row)
    BY <1>4, <1>9, <2>2 DEF N!variants
  <2>4. <<flat>> \o <<surname>> = <<flat, surname>>
    BY TwoTokens
  <2>5. N!SplitName(bare).surname = <<surname>> /\ N!surname_key(bare) = N!Compact(<<surname>>)
    BY <2>1 DEF N!surname_key
  <2> HIDE DEF bare, flat, rows
  <2> QED BY <1>3, <1>4, <2>2, <2>3, <2>4, <2>5 DEF N!ResolvesTo
<1> QED BY <1>5, <1>8, <1>9

\* The names that are spelt out token by token meet under both orders, however the
\* row was printed.
THEOREM NamesMeet == Spec => []OneRowPerName
<1> DEFINE Spelt == name \in Seq(Tokens)
<1>1. Init => Spelt
  BY DEF Init
<1>2. Spelt /\ [Next]_<<item, pieces, moves, name>> => Spelt'
  <2> SUFFICES ASSUME Spelt, [Next]_<<item, pieces, moves, name>> PROVE Spelt'
    OBVIOUS
  <2>1. CASE Read
    BY <2>1 DEF Read
  <2>2. CASE Spell
    BY <2>2 DEF Spell
  <2>3. CASE UNCHANGED <<item, pieces, moves, name>>
    BY <2>3
  <2> QED BY <2>1, <2>2, <2>3 DEF Next
<1>3. Spelt => OneRowPerName
  <2> SUFFICES ASSUME name \in Seq(Tokens), name # <<>>, NEW writing \in [DOMAIN name -> Writings]
               PROVE  N!OrderingsMeet(Head(name), Tail(name), writing)
    BY DEF OneRowPerName
  <2>1. Head(name) \in Tokens /\ Tail(name) \in Seq(Tokens)
    OBVIOUS
  <2> QED BY <2>1, EveryOrderMeets
<1> QED BY <1>1, <1>2, <1>3, PTL DEF Spec

-----------------------------------------------------------------------------
(* Mentions.                                                                *)

\* A set of naturals that is not empty has a least member.
LEMMA NatLeast ==
  ASSUME NEW S, S \subseteq Nat, S # {}
  PROVE  \E k \in S : \A j \in S : k <= j
<1>1. PICK k \in S : \A j \in S : ~ (<<j, k>> \in OpToRel(<, Nat))
  BY WFMin, NatLessThanWellFounded, Zenon
<1>2. \A j \in S : k <= j
  <2> TAKE j \in S
  <2>1. k \in Nat /\ j \in Nat /\ <<j, k>> \in Nat \X Nat
    OBVIOUS
  <2>2. ~(j < k)
    BY <1>1, <2>1 DEF OpToRel
  <2> QED
    BY <2>1, <2>2
<1> QED
  BY <1>2

\* Of the ends of the surfaces that start at a word, the last is one of them.
LEMMA LongestIs ==
  ASSUME NEW k \in Int, NEW n \in Int, NEW S, S \subseteq k .. n, S # {}
  PROVE  Max(S) \in S
<1> DEFINE left == {n - m : m \in S}
<1>1. left \subseteq Nat /\ left # {}
  OBVIOUS
<1>2. PICK d \in left : \A e \in left : d <= e
  BY <1>1, NatLeast
<1>3. PICK m \in S : d = n - m
  OBVIOUS
<1>4. ASSUME NEW j \in S PROVE m >= j
  <2>1. n - j \in left /\ j \in Int /\ m \in Int
    OBVIOUS
  <2>2. d <= n - j
    BY <1>2, <2>1
  <2> QED BY <1>3, <2>1, <2>2
<1> QED BY <1>4 DEF Max

\* What Mentions returns a sequence of.
Mention(surfaces) == [start : Nat, end : Nat, surface : surfaces]

\* Whatever the text and the surfaces, Mentions is a sequence of places in the text
\* where a surface stands (firms.py and geo.py, the alternation).  The recursive
\* function has a value at every word because it looks at later words only.
LEMMA MentionsAreOfSurfaces ==
  ASSUME NEW text, NEW surfaces, Len(text) \in Nat
  PROVE  Mentions(text, surfaces) \in Seq(Mention(surfaces))
<1> DEFINE L == Len(text)
           Ending(n) == {m \in n .. L : SubSeq(text, n, m) \in surfaces}
           Step(n, f) == IF n = L + 1 THEN <<>> ELSE LongestFirst(text, n, Ending(n), f)
           Solves(k, f) == f = [n \in k .. L + 1 |-> f[n]] /\ \A n \in k .. L + 1 : f[n] = Step(n, f)
<1>1. \A n \in 1 .. L : Ending(n) # {} => Max(Ending(n)) \in Ending(n)
  <2> SUFFICES ASSUME NEW n \in 1 .. L, Ending(n) # {} PROVE Max(Ending(n)) \in Ending(n)
    OBVIOUS
  <2>1. Ending(n) \subseteq n .. L /\ n \in Int /\ L \in Int
    OBVIOUS
  <2> HIDE DEF Ending, L
  <2> QED BY <2>1, LongestIs
<1>2. \A n \in 1 .. L : Ending(n) # {} => Max(Ending(n)) \in n .. L /\ SubSeq(text, n, Max(Ending(n))) \in surfaces
  BY <1>1
<1>3. ASSUME NEW n \in 1 .. L, NEW f, NEW g, \A m \in n + 1 .. L + 1 : f[m] = g[m]
      PROVE  Step(n, f) = Step(n, g)
  <2>1. CASE Ending(n) = {}
    <3>1. n + 1 \in n + 1 .. L + 1
      OBVIOUS
    <3>2. f[n + 1] = g[n + 1]
      BY <1>3, <3>1
    <3> HIDE DEF Ending
    <3> QED BY <2>1, <3>2 DEF LongestFirst
  <2>2. CASE Ending(n) # {}
    <3>1. Max(Ending(n)) \in n .. L
      BY <1>2, <2>2
    <3>2. Max(Ending(n)) + 1 \in n + 1 .. L + 1
      <4> DEFINE e == Max(Ending(n))
      <4>1. e \in n .. L
        BY <3>1
      <4> HIDE DEF e
      <4>2. e + 1 \in n + 1 .. L + 1
        BY <4>1
      <4> QED BY <4>2 DEF e
    <3>3. f[Max(Ending(n)) + 1] = g[Max(Ending(n)) + 1]
      BY <1>3, <3>2
    <3> HIDE DEF Ending
    <3> QED BY <2>2, <3>3 DEF LongestFirst
  <2> QED BY <2>1, <2>2
<1> HIDE DEF Step
<1>4. \E f : Solves(1, f)
  <2> DEFINE Bad == {d \in 0 .. L : ~ \E f : Solves(L + 1 - d, f)}
  <2>1. SUFFICES ASSUME Bad # {} PROVE FALSE
    <3>1. L \in 0 .. L /\ L + 1 - L = 1
      OBVIOUS
    <3> QED BY <3>1
  <2>2. PICK d \in Bad : \A e \in Bad : d <= e
    <3>1. Bad \subseteq Nat
      OBVIOUS
    <3> HIDE DEF Bad
    <3> QED BY <2>1, <3>1, NatLeast
  <2>3. d # 0
    <3> SUFFICES ASSUME d = 0 PROVE FALSE
      OBVIOUS
    <3> DEFINE f == [n \in L + 1 .. L + 1 |-> <<>>]
    <3>1. \A n \in L + 1 .. L + 1 : n = L + 1
      OBVIOUS
    <3>2. \A n \in L + 1 .. L + 1 : f[n] = Step(n, f)
      BY <3>1 DEF Step
    <3>3. f = [n \in L + 1 .. L + 1 |-> f[n]]
      OBVIOUS
    <3>4. Solves(L + 1, f)
      BY <3>2, <3>3
    <3>5. L + 1 - d = L + 1
      OBVIOUS
    <3> HIDE DEF f, Solves
    <3> QED BY <3>4, <3>5
  <2> DEFINE k == L + 1 - d
  <2>4. k \in 1 .. L /\ d \in 1 .. L /\ L + 1 - (d - 1) = k + 1 /\ d - 1 \in 0 .. L /\ d - 1 < d
    BY <2>2, <2>3
  <2>5. PICK f : Solves(k + 1, f)
    <3>1. d - 1 \notin Bad
      <4> HIDE DEF Bad
      <4>1. d - 1 \in Bad => d <= d - 1
        BY <2>2
      <4> QED BY <2>4, <4>1
    <3> HIDE DEF Solves
    <3> QED BY <2>4, <3>1
  <2> DEFINE g == [n \in k .. L + 1 |-> IF n = k THEN Step(k, f) ELSE f[n]]
  <2>6. \A n \in k + 1 .. L + 1 : g[n] = f[n]
    BY <2>4
  <2>7. \A n \in k + 1 .. L : \A m \in n + 1 .. L + 1 : f[m] = g[m]
    <3> HIDE DEF g, k
    <3>1. ASSUME NEW n \in k + 1 .. L, NEW m \in n + 1 .. L + 1 PROVE m \in k + 1 .. L + 1
      BY <2>4, <3>1
    <3> QED BY <2>6, <3>1
  <2>8. \A n \in k + 1 .. L : Step(n, f) = Step(n, g)
    <3> HIDE DEF g, k
    <3>1. \A n \in k + 1 .. L : n \in 1 .. L
      BY <2>4
    <3> QED BY <2>7, <3>1, <1>3
  <2>9. Step(L + 1, f) = Step(L + 1, g)
    BY DEF Step
  <2>10. Step(k, f) = Step(k, g)
    <3> HIDE DEF g, k
    <3>1. \A m \in k + 1 .. L + 1 : f[m] = g[m]
      BY <2>6
    <3> QED BY <1>3, <2>4, <3>1
  <2>11. \A n \in k .. L + 1 : g[n] = Step(n, g)
    <3> SUFFICES ASSUME NEW n \in k .. L + 1 PROVE g[n] = Step(n, g)
      OBVIOUS
    <3>1. g[k] = Step(k, f)
      BY <2>4
    <3>2. \A m \in k + 1 .. L + 1 : f[m] = Step(m, f)
      BY <2>5
    <3> HIDE DEF g, k, Solves
    <3>3. n = k \/ n \in k + 1 .. L \/ n = L + 1
      BY <2>4
    <3>4. L + 1 \in k + 1 .. L + 1 /\ \A m \in k + 1 .. L : m \in k + 1 .. L + 1
      BY <2>4
    <3> QED BY <2>6, <2>8, <2>9, <2>10, <3>1, <3>2, <3>3, <3>4
  <2>12. g = [n \in k .. L + 1 |-> g[n]]
    OBVIOUS
  <2>13. Solves(k, g)
    BY <2>11, <2>12
  <2>14. ~ \E h : Solves(k, h)
    BY <2>2
  <2> HIDE DEF Solves, g, k
  <2> QED BY <2>13, <2>14
<1>5. PICK f : Solves(1, f)
  BY <1>4
<1>6. f = [n \in 1 .. L + 1 |-> Step(n, f)]
  BY <1>5
<1>7. PICK from : from = [n \in 1 .. L + 1 |-> Step(n, from)] /\ Mentions(text, surfaces) = from[1]
  BY <1>6 DEF Mentions, Step
<1>8. \A n \in 1 .. L + 1 : from[n] = Step(n, from)
  BY <1>7
<1>9. ASSUME NEW n \in 1 .. L, \A m \in n + 1 .. L + 1 : from[m] \in Seq(Mention(surfaces))
      PROVE  from[n] \in Seq(Mention(surfaces))
  <2>1. from[n] = LongestFirst(text, n, Ending(n), from)
    BY <1>8 DEF Step
  <2>2. CASE Ending(n) = {}
    <3>1. n + 1 \in n + 1 .. L + 1
      OBVIOUS
    <3> HIDE DEF Ending
    <3> QED BY <1>9, <2>1, <2>2, <3>1 DEF LongestFirst
  <2>3. CASE Ending(n) # {}
    <3> DEFINE e == Max(Ending(n))
               found == [start |-> n, end |-> e, surface |-> SubSeq(text, n, e)]
    <3>1. e \in n .. L /\ SubSeq(text, n, e) \in surfaces
      BY <1>2, <2>3
    <3>2. from[n] = <<found>> \o from[e + 1]
      BY <2>1, <2>3 DEF LongestFirst
    <3> HIDE DEF e
    <3>3. e + 1 \in n + 1 .. L + 1
      BY <3>1
    <3>4. found \in Mention(surfaces)
      BY <3>1 DEF Mention
    <3>5. from[e + 1] \in Seq(Mention(surfaces))
      BY <1>9, <3>3
    <3> HIDE DEF found
    <3> QED BY <3>2, <3>4, <3>5
  <2> QED BY <2>2, <2>3
<1>10. from[L + 1] \in Seq(Mention(surfaces))
  <2>1. L + 1 \in 1 .. L + 1
    OBVIOUS
  <2>2. from[L + 1] = Step(L + 1, from)
    BY <1>8, <2>1
  <2>3. Step(L + 1, from) = <<>>
    BY DEF Step
  <2>4. <<>> \in Seq(Mention(surfaces))
    OBVIOUS
  <2> HIDE DEF L
  <2> QED BY <2>2, <2>3, <2>4
<1>11. \A n \in 1 .. L + 1 : from[n] \in Seq(Mention(surfaces))
  <2> DEFINE Bad == {d \in 0 .. L : from[L + 1 - d] \notin Seq(Mention(surfaces))}
  <2>1. Bad = {}
    <3> SUFFICES ASSUME Bad # {} PROVE FALSE
      OBVIOUS
    <3>1. PICK d \in Bad : \A e \in Bad : d <= e
      <4>1. Bad \subseteq Nat
        OBVIOUS
      <4> HIDE DEF Bad
      <4> QED BY <4>1, NatLeast
    <3>2. d \in 0 .. L /\ from[L + 1 - d] \notin Seq(Mention(surfaces))
      OBVIOUS
    <3>3. d # 0
      BY <1>10, <3>2
    <3> DEFINE n == L + 1 - d
    <3>4. n \in 1 .. L
      BY <3>2, <3>3
    <3>5. ASSUME NEW m \in n + 1 .. L + 1 PROVE from[m] \in Seq(Mention(surfaces))
      <4> SUFFICES ASSUME from[m] \notin Seq(Mention(surfaces)) PROVE FALSE
        OBVIOUS
      <4>1. L + 1 - m \in 0 .. L /\ L + 1 - (L + 1 - m) = m /\ L + 1 - m < d
        BY <3>2, <3>4
      <4>2. L + 1 - m \in Bad
        BY <4>1
      <4> HIDE DEF Bad
      <4>3. d <= L + 1 - m
        BY <3>1, <4>2
      <4> QED BY <3>2, <4>1, <4>3
    <3>6. from[n] \in Seq(Mention(surfaces))
      <4> HIDE DEF n, Bad
      <4> QED BY <1>9, <3>4, <3>5
    <3> QED BY <3>2, <3>6
  <2> SUFFICES ASSUME NEW n \in 1 .. L + 1 PROVE from[n] \in Seq(Mention(surfaces))
    OBVIOUS
  <2>2. L + 1 - n \in 0 .. L /\ L + 1 - (L + 1 - n) = n
    OBVIOUS
  <2>3. L + 1 - n \notin Bad
    BY <2>1
  <2> QED BY <2>2, <2>3
<1>12. 1 \in 1 .. L + 1
  OBVIOUS
<1> QED BY <1>7, <1>11, <1>12

\* A collision has a winner, and it is one of the firms that collide.
LEMMA WinnerIs ==
  ASSUME NEW C, C \subseteq DOMAIN Firms, C # {}
  PROVE  Winner(C) \in C
<1> DEFINE last == Len(Firms)
           len(n) == Letters(Firms[n].name)
           Beats(n, m) == len(n) > len(m) \/ (len(n) = len(m) /\ n <= m)
           Best(D) == \E n \in D : \A m \in D : Beats(n, m)
           Bad == {k \in Nat : C \cap 1 .. k # {} /\ ~Best(C \cap 1 .. k)}
<1>1. last \in Nat /\ C \subseteq 1 .. last /\ \A n \in 1 .. last : len(n) \in Nat
  BY FirmsAssumption
<1> HIDE DEF len
<1>2. Bad = {}
  <2> SUFFICES ASSUME Bad # {} PROVE FALSE
    OBVIOUS
  <2>1. PICK k \in Bad : \A j \in Bad : k <= j
    <3>1. Bad \subseteq Nat
      OBVIOUS
    <3> HIDE DEF Bad
    <3> QED BY <3>1, NatLeast
  <2>2. k \in Nat /\ C \cap 1 .. k # {} /\ ~Best(C \cap 1 .. k)
    OBVIOUS
  <2>3. k >= 1 /\ k - 1 \in Nat
    BY <2>2
  <2>4. k - 1 \notin Bad
    <3> HIDE DEF Bad
    <3>1. k - 1 \in Bad => k <= k - 1
      BY <2>1
    <3> QED BY <2>2, <2>3, <3>1
  <2>5. C \cap 1 .. k = (C \cap 1 .. k - 1) \cup (C \cap {k})
    <3>1. \A m \in C : m \in Int
      BY <1>1
    <3>2. \A m \in Int : m \in 1 .. k <=> m \in 1 .. k - 1 \/ m = k
      BY <2>2, <2>3
    <3> QED BY <3>1, <3>2
  <2>6. k \in C
    <3> SUFFICES ASSUME k \notin C PROVE FALSE
      OBVIOUS
    <3>1. C \cap 1 .. k = C \cap 1 .. k - 1
      BY <2>5
    <3> HIDE DEF Best
    <3> QED BY <2>2, <2>3, <2>4, <3>1
  <2>7. CASE C \cap 1 .. k - 1 = {}
    <3>1. C \cap 1 .. k = {k}
      BY <2>5, <2>6, <2>7
    <3>2. Beats(k, k)
      BY <2>2
    <3> QED BY <2>2, <3>1, <3>2
  <2>8. CASE Best(C \cap 1 .. k - 1)
    <3>1. PICK w \in C \cap 1 .. k - 1 : \A m \in C \cap 1 .. k - 1 : Beats(w, m)
      BY <2>8
    <3>2. /\ w \in C /\ w \in 1 .. last /\ k \in 1 .. last /\ w < k
          /\ len(w) \in Nat /\ len(k) \in Nat
      <4>1. w \in C /\ w \in 1 .. k - 1
        BY <3>1
      <4>2. w \in 1 .. last /\ k \in 1 .. last
        BY <1>1, <2>6, <4>1
      <4> HIDE DEF last
      <4>3. w < k
        BY <2>2, <4>1
      <4> QED BY <1>1, <4>1, <4>2, <4>3
    <3>3. C \cap 1 .. k = (C \cap 1 .. k - 1) \cup {k}
      BY <2>5, <2>6
    <3>4. CASE len(k) > len(w)
      <4>1. ASSUME NEW m \in C \cap 1 .. k - 1 PROVE Beats(k, m)
        <5>1. Beats(w, m) /\ m \in 1 .. last
          BY <1>1, <3>1
        <5>2. len(m) \in Nat
          BY <1>1, <5>1
        <5> DEFINE a == len(k)
                   b == len(w)
                   c == len(m)
        <5>3. a \in Nat /\ b \in Nat /\ c \in Nat /\ a > b /\ (b > c \/ b = c)
          BY <3>2, <3>4, <5>1, <5>2
        <5> HIDE DEF a, b, c
        <5>4. a > c
          BY <5>3
        <5> QED BY <5>4 DEF a, c
      <4>2. Beats(k, k)
        BY <3>2
      <4>3. \A m \in C \cap 1 .. k : Beats(k, m)
        BY <3>3, <4>1, <4>2
      <4>4. k \in C \cap 1 .. k
        BY <3>3
      <4> QED BY <2>2, <4>3, <4>4
    <3>5. CASE ~(len(k) > len(w))
      <4>1. Beats(w, k)
        <5> DEFINE a == len(w)
                   b == len(k)
        <5>1. a \in Nat /\ b \in Nat /\ ~(b > a) /\ w \in Nat /\ k \in Nat /\ w < k
          BY <1>1, <3>2, <3>5
        <5> HIDE DEF a, b
        <5>2. a > b \/ (a = b /\ w <= k)
          BY <5>1
        <5> QED BY <5>2 DEF a, b
      <4>2. \A m \in C \cap 1 .. k : Beats(w, m)
        BY <3>1, <3>3, <4>1
      <4>3. w \in C \cap 1 .. k
        BY <3>3
      <4> QED BY <2>2, <4>2, <4>3
    <3> QED BY <3>4, <3>5
  <2> QED BY <2>3, <2>4, <2>7, <2>8
<1>3. Best(C)
  <2>1. C \cap 1 .. last = C
    BY <1>1
  <2> HIDE DEF Best
  <2> QED BY <1>1, <1>2, <2>1
<1> QED BY <1>3 DEF Winner, len

\* Every surface of the index is that of a firm.
LEMMA IndexedFirms ==
  ASSUME NEW key \in DOMAIN Index
  PROVE  Index[key] # Unknown
<1> DEFINE keys == [n \in DOMAIN Firms |-> Keys(Firms[n])]
           claimants == {n \in DOMAIN keys : key \in keys[n]}
<1>1. Index = Claimed(keys)
  BY DEF Index
<1>2. DOMAIN keys = DOMAIN Firms
  OBVIOUS
<1> HIDE DEF keys
<1>3. key \in UNION ToSet(keys) /\ Index[key] = Firms[Winner(claimants)].name
  BY <1>1 DEF Claimed
<1>4. claimants # {} /\ claimants \subseteq DOMAIN Firms
  BY <1>2, <1>3 DEF ToSet
<1> HIDE DEF claimants
<1>5. Winner(claimants) \in DOMAIN Firms
  BY <1>4, WinnerIs
<1> QED BY <1>3, <1>5, FirmsAssumption

-----------------------------------------------------------------------------
(* The pair.                                                                *)

\* The first mention that passes, if one does.
LEMMA FirstIs ==
  ASSUME NEW mentions, DOMAIN mentions \subseteq Nat, NEW which \in SUBSET DOMAIN mentions
  PROVE  /\ which = {} => First(mentions, which) = Unknown
         /\ which # {} => \E n \in which : First(mentions, which) = mentions[n].firm
<1>1. which = {} => First(mentions, which) = Unknown
  BY DEF First
<1>2. ASSUME which # {}
      PROVE  \E n \in which : First(mentions, which) = mentions[n].firm
  <2> DEFINE least == CHOOSE n \in which : \A m \in which : n <= m
  <2>1. \E n \in which : \A m \in which : n <= m
    BY <1>2, NatLeast
  <2>2. least \in which
    BY <2>1
  <2>3. First(mentions, which) = mentions[least].firm
    BY <1>2 DEF First
  <2> HIDE DEF least
  <2> QED BY <2>2, <2>3
<1> QED BY <1>1, <1>2

\* Whatever firms a sentence mentions, in whatever order and however the words beside
\* them mark them, the pair has a direction: a firm does not hire from itself, two
\* firms make a pair, and the only firm that loses somebody hires nobody (firm_pair).
THEOREM EveryPairDirected ==
  ASSUME NEW mentions, DOMAIN mentions \subseteq Nat,
         \A n \in DOMAIN mentions : mentions[n].firm # Unknown
  PROVE  Directed(mentions)
<1> DEFINE to == Destination(mentions)
           from == Origin(mentions)
           firms == {mentions[n].firm : n \in DOMAIN mentions}
           gainers == Gaining(mentions)
           losers == Losing(mentions)
           firm(n) == mentions[n].firm
<1> SUFFICES ASSUME OneSided(mentions)
             PROVE  /\ to = from => to = Unknown
                    /\ \A one, other \in firms : one # other => Unknown \notin {to, from}
                    /\ \A n \in losers : (\A m \in losers : firm(m) = firm(n)) => from = firm(n) /\ to # firm(n)
  BY DEF Directed
<1>1. gainers \in SUBSET DOMAIN mentions /\ losers \in SUBSET DOMAIN mentions
  BY DEF Gaining, Losing
<1>2. \A n \in losers, m \in gainers : firm(n) # firm(m)
  BY DEF OneSided, Gaining, Losing
<1>3. ASSUME NEW f
      PROVE  /\ First(mentions, Except(mentions, f)) # f \/ f = Unknown
             /\ (\E one \in firms : one # f) => First(mentions, Except(mentions, f)) \in firms \ {f}
             /\ First(mentions, Except(mentions, f)) \in {Unknown} \cup (firms \ {f})
  <2>1. Except(mentions, f) \in SUBSET DOMAIN mentions
        /\ \A n \in Except(mentions, f) : firm(n) \in firms \ {f}
    BY DEF Except
  <2>2. (\E one \in firms : one # f) => Except(mentions, f) # {}
    BY DEF Except
  <2> QED BY <2>1, <2>2, FirstIs
<1>4. Unknown \notin firms
  OBVIOUS
<1>5. gainers # {} => \E n \in gainers : to = firm(n)
  BY <1>1, FirstIs DEF Destination
<1>6. losers # {} => \E n \in losers : from = firm(n) /\ First(mentions, losers) = firm(n)
  BY <1>1, FirstIs DEF Origin
<1>7. gainers = {} => to = First(mentions, Except(mentions, First(mentions, losers)))
  BY DEF Destination
<1>8. losers = {} => from = First(mentions, Except(mentions, to)) /\ First(mentions, losers) = Unknown
  BY <1>1, FirstIs DEF Origin
<1>9. \A n \in gainers \cup losers : firm(n) \in firms
  BY <1>1
<1> HIDE DEF to, from, gainers, losers, firms, firm
<1>10. CASE gainers # {} /\ losers # {}
  BY <1>2, <1>4, <1>5, <1>6, <1>9, <1>10
<1>11. CASE gainers # {} /\ losers = {}
  BY <1>3, <1>4, <1>5, <1>8, <1>9, <1>11
<1>12. CASE gainers = {} /\ losers # {}
  BY <1>3, <1>4, <1>6, <1>7, <1>9, <1>12
<1>13. CASE gainers = {} /\ losers = {}
  BY <1>3, <1>4, <1>7, <1>8, <1>13
<1> QED BY <1>10, <1>11, <1>12, <1>13

\* The marked mentions of a headline are those found in it, and each is of a firm.
LEMMA MarkedAreFound ==
  ASSUME NEW headline
  PROVE  /\ DOMAIN Marked(headline) \subseteq Nat /\ DOMAIN Marked(headline) = DOMAIN find(headline)
         /\ \A n \in DOMAIN Marked(headline) :
              Marked(headline)[n].firm = find(headline)[n].firm /\ Marked(headline)[n].firm # Unknown
<1> DEFINE text == normalise(headline)
           all == Mentions(text, Surfaces)
           found == find(headline)
<1>1. Len(text) \in Nat
  OBVIOUS
<1> HIDE DEF text
<1>2. all \in Seq(Mention(Surfaces))
  BY <1>1, MentionsAreOfSurfaces
<1>3. found = FirmsOf(all)
  BY DEF find, text
<1> HIDE DEF all, found
<1>4. /\ DOMAIN all \subseteq Nat
      /\ \A n \in DOMAIN all : all[n].surface \in Surfaces
  <2>1. \A m \in Mention(Surfaces) : m.surface \in Surfaces
    BY DEF Mention
  <2>2. DOMAIN all = 1 .. Len(all) /\ \A n \in DOMAIN all : all[n] \in Mention(Surfaces)
    BY <1>2
  <2> QED BY <2>1, <2>2
<1>5. /\ DOMAIN found = DOMAIN all
      /\ \A n \in DOMAIN all : found[n].firm = Index[all[n].surface]
  BY <1>3 DEF FirmsOf
<1>6. \A n \in DOMAIN found : found[n].firm # Unknown
  BY <1>4, <1>5, IndexedFirms DEF Surfaces
<1>7. /\ DOMAIN Marked(headline) = DOMAIN found
      /\ \A n \in DOMAIN found : Marked(headline)[n].firm = found[n].firm
  BY DEF Marked, MarkedIn, Mark, found
<1> QED BY <1>4, <1>5, <1>6, <1>7 DEF found

\* The firms of the pair are among them.
LEMMA PairIsFound ==
  ASSUME NEW headline, NEW firm \in {firm_pair(headline).to, firm_pair(headline).from}, firm # Unknown
  PROVE  \E m \in ToSet(find(headline)) : m.firm = firm
<1> DEFINE mentions == Marked(headline)
<1>1. /\ DOMAIN mentions \subseteq Nat /\ DOMAIN mentions = DOMAIN find(headline)
      /\ \A n \in DOMAIN mentions : mentions[n].firm = find(headline)[n].firm
  BY MarkedAreFound
<1>2. firm \in {Destination(mentions), Origin(mentions)}
  BY DEF firm_pair, PairOf
<1> HIDE DEF mentions
<1>3. PICK which \in SUBSET DOMAIN mentions : firm = First(mentions, which)
  <2>1. /\ Gaining(mentions) \in SUBSET DOMAIN mentions /\ Losing(mentions) \in SUBSET DOMAIN mentions
        /\ \A other : Except(mentions, other) \in SUBSET DOMAIN mentions
    BY DEF Gaining, Losing, Except
  <2>2. /\ \E which \in SUBSET DOMAIN mentions : Destination(mentions) = First(mentions, which)
        /\ \E which \in SUBSET DOMAIN mentions : Origin(mentions) = First(mentions, which)
    BY <2>1 DEF Destination, Origin
  <2> QED BY <1>2, <2>2
<1>4. PICK n \in DOMAIN mentions : firm = mentions[n].firm
  BY <1>1, <1>3, FirstIs
<1>5. n \in DOMAIN find(headline) /\ find(headline)[n].firm = firm
  BY <1>1, <1>4
<1>6. find(headline)[n] \in ToSet(find(headline))
  BY <1>5 DEF ToSet
<1> QED BY <1>5, <1>6

\* So does the pair of every headline, under any gazetteer.
THEOREM HeadlinesPointOneWay == Spec => []PairIsDirected
<1>1. ASSUME NEW headline PROVE Directed(Marked(headline))
  BY MarkedAreFound, EveryPairDirected
<1>2. PairIsDirected
  BY <1>1 DEF PairIsDirected
<1> QED BY <1>2, PTL DEF Spec

-----------------------------------------------------------------------------
(* Recursion over positions.                                                *)

\* What holds wherever it holds at all lower ranks holds everywhere.
LEMMA RankInduction ==
  ASSUME NEW D, NEW rank \in [D -> Nat], NEW Good,
         \A d \in D : (\A e \in D : rank[e] < rank[d] => e \in Good) => d \in Good
  PROVE  D \subseteq Good
<1> SUFFICES ASSUME NEW b \in D, b \notin Good PROVE FALSE
  OBVIOUS
<1> DEFINE bad == {rank[d] : d \in D \ Good}
<1>1. bad \subseteq Nat /\ bad # {}
  OBVIOUS
<1>2. PICK r \in bad : \A q \in bad : r <= q
  BY <1>1, NatLeast
<1>3. PICK d \in D \ Good : rank[d] = r
  OBVIOUS
<1>4. ASSUME NEW e \in D, rank[e] < rank[d] PROVE e \in Good
  <2> SUFFICES ASSUME e \notin Good PROVE FALSE
    OBVIOUS
  <2>1. rank[e] \in bad /\ rank[e] \in Nat /\ rank[d] \in Nat
    OBVIOUS
  <2>2. r <= rank[e]
    BY <1>2, <2>1
  <2> QED BY <1>3, <1>4, <2>1, <2>2
<1> QED BY <1>3, <1>4

\* What a recursive definition has at a place, as a function of all its values: it
\* looks at those of lower rank.
Ranked(step, D, Vals, rank) ==
  /\ step \in [D -> [[D -> Vals] -> Vals]]
  /\ \A d \in D : \A f, g \in [D -> Vals] :
       (\A e \in D : rank[e] < rank[d] => f[e] = g[e]) => step[d][f] = step[d][g]
Solved(f, step, D) == \A d \in D : f[d] = step[d][f]

\* Such a definition has a solution, when the ranks are bounded.
LEMMA RankRecursion ==
  ASSUME NEW D, NEW Vals, NEW v \in Vals, NEW h \in Nat, NEW rank \in [D -> Nat],
         \A d \in D : rank[d] <= h,
         NEW step, Ranked(step, D, Vals, rank)
  PROVE  \E f \in [D -> Vals] : Solved(f, step, D)
<1>0. /\ step \in [D -> [[D -> Vals] -> Vals]]
      /\ \A d \in D : \A f, g \in [D -> Vals] :
           (\A e \in D : rank[e] < rank[d] => f[e] = g[e]) => step[d][f] = step[d][g]
  BY DEF Ranked
<1> DEFINE Solves(f, n) == \A d \in D : rank[d] < n => f[d] = step[d][f]
           Bad == {n \in Nat : ~ \E f \in [D -> Vals] : Solves(f, n)}
<1>1. Bad = {}
  <2> SUFFICES ASSUME Bad # {} PROVE FALSE
    OBVIOUS
  <2>1. PICK n \in Bad : \A m \in Bad : n <= m
    <3>1. Bad \subseteq Nat
      OBVIOUS
    <3> HIDE DEF Bad
    <3> QED BY <3>1, NatLeast
  <2>2. n \in Nat /\ ~ \E f \in [D -> Vals] : Solves(f, n)
    OBVIOUS
  <2>3. n # 0
    <3> SUFFICES ASSUME n = 0 PROVE FALSE
      OBVIOUS
    <3>1. \A d \in D : ~(rank[d] < 0)
      OBVIOUS
    <3> DEFINE f == [d \in D |-> v]
    <3>2. f \in [D -> Vals]
      OBVIOUS
    <3>3. Solves(f, 0)
      BY <3>1
    <3> HIDE DEF f
    <3> QED BY <2>2, <3>2, <3>3
  <2>4. n - 1 \in Nat /\ n - 1 < n
    BY <2>2, <2>3
  <2>5. PICK f \in [D -> Vals] : Solves(f, n - 1)
    <3>1. n - 1 \notin Bad
      <4> HIDE DEF Bad
      <4> QED BY <2>1, <2>2, <2>4
    <3> QED BY <2>4, <3>1
  <2> DEFINE g == [d \in D |-> IF rank[d] < n - 1 THEN f[d] ELSE step[d][f]]
  <2>6. g \in [D -> Vals]
    BY <1>0
  <2>7. \A d \in D : rank[d] < n - 1 => g[d] = f[d]
    OBVIOUS
  <2>8. \A d \in D : ~(rank[d] < n - 1) => g[d] = step[d][f]
    OBVIOUS
  <2> HIDE DEF g
  <2>9. ASSUME NEW d \in D, rank[d] < n PROVE g[d] = step[d][g]
    <3>1. rank[d] \in Nat
      OBVIOUS
    <3>2. ASSUME NEW e \in D, rank[e] < rank[d] PROVE f[e] = g[e]
      <4>1. rank[e] \in Nat
        OBVIOUS
      <4>2. rank[e] < n - 1
        BY <2>2, <2>9, <3>1, <3>2, <4>1
      <4> QED BY <2>7, <4>2
    <3>3. step[d][f] = step[d][g]
      BY <1>0, <2>6, <3>2
    <3>4. CASE rank[d] < n - 1
      BY <2>5, <2>7, <3>3, <3>4
    <3>5. CASE ~(rank[d] < n - 1)
      BY <2>8, <3>3, <3>5
    <3> QED BY <3>4, <3>5
  <2> QED BY <2>2, <2>6, <2>9
<1>2. PICK f \in [D -> Vals] : Solves(f, h + 1)
  <2>1. h + 1 \in Nat
    OBVIOUS
  <2> QED BY <1>1, <2>1
<1>3. \A d \in D : rank[d] < h + 1
  OBVIOUS
<1> QED BY <1>2, <1>3 DEF Solved

\* What a recursive definition over 1 .. L has at a position, as a function of all its
\* values, of which it looks at the lower ones, or at the higher ones.
Steps(step, L, Vals) == step \in [1 .. L -> [[1 .. L -> Vals] -> Vals]]
LooksBack(step, L, Vals) ==
  \A n \in 1 .. L : \A f, g \in [1 .. L -> Vals] :
    (\A m \in 1 .. n - 1 : f[m] = g[m]) => step[n][f] = step[n][g]
LooksAhead(step, L, Vals) ==
  \A n \in 1 .. L : \A f, g \in [1 .. L -> Vals] :
    (\A m \in n + 1 .. L : f[m] = g[m]) => step[n][f] = step[n][g]

\* Either has a solution.
LEMMA Recursion ==
  ASSUME NEW L, L \in Nat, NEW Vals, Vals # {}, NEW step, Steps(step, L, Vals),
         LooksBack(step, L, Vals) \/ LooksAhead(step, L, Vals)
  PROVE  \E f \in [1 .. L -> Vals] : Solved(f, step, 1 .. L)
<1> DEFINE D == 1 .. L
<1>1. ASSUME NEW rank, rank \in [D -> Nat], \A d \in D : rank[d] <= L, Ranked(step, D, Vals, rank)
      PROVE  \E f \in [D -> Vals] : Solved(f, step, D)
  <2>1. PICK v \in Vals : TRUE
    OBVIOUS
  <2> HIDE DEF D
  <2> QED BY <1>1, <2>1, RankRecursion
<1>2. CASE LooksBack(step, L, Vals)
  <2> DEFINE rank == [n \in D |-> n]
  <2>1. rank \in [D -> Nat] /\ \A d \in D : rank[d] <= L
    OBVIOUS
  <2>2. \A n \in D : \A m \in 1 .. n - 1 : m \in D /\ rank[m] < rank[n]
    OBVIOUS
  <2> HIDE DEF rank
  <2>3. Ranked(step, D, Vals, rank)
    <3> SUFFICES ASSUME NEW n \in D, NEW f \in [D -> Vals], NEW g \in [D -> Vals],
                        \A m \in D : rank[m] < rank[n] => f[m] = g[m]
                 PROVE  step[n][f] = step[n][g]
      BY DEF Ranked, Steps
    <3>1. \A m \in 1 .. n - 1 : f[m] = g[m]
      BY <2>2
    <3> QED BY <1>2, <3>1 DEF LooksBack
  <2> HIDE DEF D
  <2>4. \E f \in [D -> Vals] : Solved(f, step, D)
    BY <1>1, <2>1, <2>3
  <2> QED BY <2>4 DEF D
<1>3. CASE LooksAhead(step, L, Vals)
  <2> DEFINE rank == [n \in D |-> L - n]
  <2>1. rank \in [D -> Nat] /\ \A d \in D : rank[d] <= L
    OBVIOUS
  <2>2. \A n \in D : \A m \in n + 1 .. L : m \in D /\ rank[m] < rank[n]
    OBVIOUS
  <2> HIDE DEF rank
  <2>3. Ranked(step, D, Vals, rank)
    <3> SUFFICES ASSUME NEW n \in D, NEW f \in [D -> Vals], NEW g \in [D -> Vals],
                        \A m \in D : rank[m] < rank[n] => f[m] = g[m]
                 PROVE  step[n][f] = step[n][g]
      BY DEF Ranked, Steps
    <3>1. \A m \in n + 1 .. L : f[m] = g[m]
      BY <2>2
    <3> QED BY <1>3, <3>1 DEF LooksAhead
  <2> HIDE DEF D
  <2>4. \E f \in [D -> Vals] : Solved(f, step, D)
    BY <1>1, <2>1, <2>3
  <2> QED BY <2>4 DEF D
<1> QED BY <1>2, <1>3

\* Induction over positions, from either end.
LEMMA UpOrDown ==
  ASSUME NEW L, L \in Nat, NEW Good,
         \/ \A n \in 1 .. L : (\A m \in 1 .. n - 1 : m \in Good) => n \in Good
         \/ \A n \in 1 .. L : (\A m \in n + 1 .. L : m \in Good) => n \in Good
  PROVE  \A n \in 1 .. L : n \in Good
<1> DEFINE D == 1 .. L
<1>1. ASSUME NEW rank \in [D -> Nat],
             \A n \in D : (\A m \in D : rank[m] < rank[n] => m \in Good) => n \in Good
      PROVE  \A n \in D : n \in Good
  <2> HIDE DEF D
  <2>1. D \subseteq Good
    BY <1>1, RankInduction
  <2> QED BY <2>1
<1>2. CASE \A n \in 1 .. L : (\A m \in 1 .. n - 1 : m \in Good) => n \in Good
  <2> DEFINE rank == [n \in D |-> n]
  <2>1. rank \in [D -> Nat]
    OBVIOUS
  <2>2. \A n \in D : \A m \in 1 .. n - 1 : m \in D /\ rank[m] < rank[n]
    OBVIOUS
  <2> HIDE DEF rank
  <2>3. \A n \in D : (\A m \in D : rank[m] < rank[n] => m \in Good) => n \in Good
    BY <1>2, <2>2
  <2> HIDE DEF D
  <2> QED BY <1>1, <2>1, <2>3 DEF D
<1>3. CASE \A n \in 1 .. L : (\A m \in n + 1 .. L : m \in Good) => n \in Good
  <2> DEFINE rank == [n \in D |-> L - n]
  <2>1. rank \in [D -> Nat]
    OBVIOUS
  <2>2. \A n \in D : \A m \in n + 1 .. L : m \in D /\ rank[m] < rank[n]
    OBVIOUS
  <2> HIDE DEF rank
  <2>3. \A n \in D : (\A m \in D : rank[m] < rank[n] => m \in Good) => n \in Good
    BY <1>3, <2>2
  <2> HIDE DEF D
  <2> QED BY <1>1, <2>1, <2>3 DEF D
<1> QED BY <1>2, <1>3

-----------------------------------------------------------------------------
(* Sequences.                                                               *)

\* Flattening is a fold, and every prefix of it keeps the items.
LEMMA FlatIsAFold ==
  ASSUME NEW Items, NEW seqs \in Seq(Seq(Items)), Len(seqs) # 0
  PROVE  \E flat : /\ flat = [i \in 1 .. Len(seqs) |-> IF i = 1 THEN seqs[i] ELSE flat[i - 1] \o seqs[i]]
                   /\ FlattenSeq(seqs) = flat[Len(seqs)]
<1> DEFINE L == Len(seqs)
           Step(i, f) == IF i = 1 THEN seqs[i] ELSE f[i - 1] \o seqs[i]
           Vals == Seq(Items)
           step == [i \in 1 .. L |-> [f \in [1 .. L -> Vals] |-> Step(i, f)]]
<1>1. L \in Nat /\ L >= 1 /\ \A i \in 1 .. L : seqs[i] \in Seq(Items)
  OBVIOUS
<1>2. ASSUME NEW i \in 1 .. L, NEW f, \A j \in 1 .. i - 1 : f[j] \in Seq(Items)
      PROVE  Step(i, f) \in Seq(Items)
  <2>1. CASE i = 1
    BY <1>1, <2>1
  <2>2. CASE i # 1
    <3>1. i - 1 \in 1 .. i - 1
      BY <2>2
    <3>2. f[i - 1] \in Seq(Items) /\ seqs[i] \in Seq(Items)
      BY <1>1, <1>2, <3>1
    <3> QED BY <2>2, <3>2
  <2> QED BY <2>1, <2>2
<1>3. ASSUME NEW i \in 1 .. L, NEW f, NEW g, \A j \in 1 .. i - 1 : f[j] = g[j]
      PROVE  Step(i, f) = Step(i, g)
  <2>1. i # 1 => i - 1 \in 1 .. i - 1
    OBVIOUS
  <2> QED BY <1>3, <2>1
<1> HIDE DEF Step, L
<1>4. Steps(step, L, Vals) /\ LooksBack(step, L, Vals)
  <2>1. ASSUME NEW i \in 1 .. L, NEW f \in [1 .. L -> Vals] PROVE Step(i, f) \in Vals
    <3>1. \A j \in 1 .. i - 1 : f[j] \in Vals
      BY <1>1
    <3> QED BY <1>2, <3>1
  <2>2. ASSUME NEW i \in 1 .. L, NEW f \in [1 .. L -> Vals], NEW g \in [1 .. L -> Vals],
               \A j \in 1 .. i - 1 : f[j] = g[j]
        PROVE  step[i][f] = step[i][g]
    BY <1>3, <2>2
  <2> HIDE DEF Vals
  <2> QED BY <2>1, <2>2 DEF Steps, LooksBack
<1>5. PICK f \in [1 .. L -> Vals] : Solved(f, step, 1 .. L)
  <2>1. Vals # {}
    OBVIOUS
  <2> HIDE DEF step, Vals
  <2> QED BY <1>1, <1>4, <2>1, Recursion
<1>6. f = [i \in 1 .. L |-> Step(i, f)]
  BY <1>5 DEF Solved
<1>7. PICK flat : flat = [i \in 1 .. L |-> Step(i, flat)] /\ FlattenSeq(seqs) = flat[L]
  BY <1>6 DEF FlattenSeq, Step, L
<1> QED BY <1>7 DEF Step, L

\* Flattening keeps the items.
LEMMA FlatIs ==
  ASSUME NEW Items, NEW seqs \in Seq(Seq(Items))
  PROVE  FlattenSeq(seqs) \in Seq(Items)
<1> DEFINE L == Len(seqs)
           Vals == Seq(Items)
<1>1. CASE L = 0
  <2>1. seqs = <<>>
    BY <1>1
  <2> QED BY <1>1, <2>1 DEF FlattenSeq
<1>2. CASE L # 0
  <2>1. L \in Nat /\ L >= 1 /\ \A i \in 1 .. L : seqs[i] \in Seq(Items)
    BY <1>2
  <2>2. PICK flat : /\ flat = [i \in 1 .. L |-> IF i = 1 THEN seqs[i] ELSE flat[i - 1] \o seqs[i]]
                    /\ FlattenSeq(seqs) = flat[L]
    BY <1>2, FlatIsAFold
  <2> DEFINE Good == {i \in 1 .. L : flat[i] \in Vals}
  <2> HIDE DEF L
  <2>3. \A i \in 1 .. L : i \in Good
    <3>1. ASSUME NEW i \in 1 .. L, \A j \in 1 .. i - 1 : j \in Good PROVE i \in Good
      <4>1. \A j \in 1 .. i - 1 : flat[j] \in Vals
        BY <3>1
      <4>2. flat[i] = IF i = 1 THEN seqs[i] ELSE flat[i - 1] \o seqs[i]
        BY <2>2
      <4>3. i # 1 => i - 1 \in 1 .. i - 1
        OBVIOUS
      <4>4. CASE i = 1
        BY <2>1, <4>2, <4>4
      <4>5. CASE i # 1
        <5>1. flat[i - 1] \in Seq(Items) /\ seqs[i] \in Seq(Items)
          BY <2>1, <4>1, <4>3, <4>5
        <5>2. flat[i - 1] \o seqs[i] \in Seq(Items)
          BY <5>1
        <5>3. flat[i] = flat[i - 1] \o seqs[i]
          BY <4>2, <4>5
        <5> QED BY <5>2, <5>3
      <4> QED BY <4>4, <4>5
    <3> HIDE DEF Good
    <3> QED BY <2>1, <3>1, UpOrDown
  <2> QED BY <2>1, <2>2, <2>3
<1> QED BY <1>1, <1>2

\* The items of a function over positions.
LEMMA ChosenAre ==
  ASSUME NEW Items, NEW L \in Nat, NEW some, \A n \in 1 .. L : some[n] \in Seq(Items)
  PROVE  FlattenSeq([n \in 1 .. L |-> some[n]]) \in Seq(Items)
<1> DEFINE parts == [n \in 1 .. L |-> some[n]]
           Vals == Seq(Items)
<1>1. parts \in Seq(Vals)
  <2>1. \A n \in 1 .. L : some[n] \in Vals
    OBVIOUS
  <2> HIDE DEF Vals
  <2> QED BY <2>1
<1> HIDE DEF parts
<1> QED BY <1>1, FlatIs DEF parts

\* What is chosen from a sequence is of the items at the positions.
LEMMA ChosenIs ==
  ASSUME NEW Items, NEW s \in Seq(Items), NEW positions, NEW Chosen,
         \A n \in DOMAIN s : n \in positions => s[n] \in Chosen
  PROVE  Where(s, positions) \in Seq(Chosen)
<1> DEFINE parts == [n \in DOMAIN s |-> IF n \in positions THEN <<s[n]>> ELSE <<>>]
<1>1. DOMAIN s = 1 .. Len(s) /\ Len(s) \in Nat
  OBVIOUS
<1>2. \A n \in 1 .. Len(s) : parts[n] \in Seq(Chosen)
  <2>1. \A n \in 1 .. Len(s) : n \in positions => s[n] \in Chosen
    BY <1>1
  <2>2. \A x \in Chosen : <<x>> \in Seq(Chosen)
    OBVIOUS
  <2>3. <<>> \in Seq(Chosen)
    OBVIOUS
  <2> QED BY <1>1, <2>1, <2>2, <2>3
<1>3. parts = [n \in 1 .. Len(s) |-> parts[n]]
  BY <1>1
<1>4. Where(s, positions) = FlattenSeq(parts)
  BY DEF Where
<1> HIDE DEF parts
<1>5. FlattenSeq([n \in 1 .. Len(s) |-> parts[n]]) \in Seq(Chosen)
  BY <1>1, <1>2, ChosenAre
<1> QED BY <1>3, <1>4, <1>5

\* So it is of the items of the sequence.
LEMMA WhereIs ==
  ASSUME NEW Items, NEW s \in Seq(Items), NEW positions
  PROVE  Where(s, positions) \in Seq(Items)
<1>1. \A n \in DOMAIN s : s[n] \in Items
  OBVIOUS
<1> QED BY <1>1, ChosenIs

\* The sequence of at most one item.
LEMMA OneOrNone ==
  ASSUME NEW Items, NEW S, S \subseteq Items, \A a, b \in S : a = b
  PROVE  SetToSeq(S) \in Seq(Items) /\ \A n \in DOMAIN SetToSeq(S) : SetToSeq(S)[n] \in S
<1>1. IsFiniteSet(S) /\ Cardinality(S) \in Nat
  <2>1. CASE S = {}
    BY <2>1, FS_EmptySet
  <2>2. ASSUME NEW a \in S PROVE IsFiniteSet(S) /\ Cardinality(S) \in Nat
    <3>1. S = {a}
      BY <2>2
    <3>2. IsFiniteSet({a}) /\ Cardinality({a}) = 1
      BY FS_Singleton
    <3> QED BY <3>1, <3>2
  <2> QED BY <2>1, <2>2
<1>2. \E f \in [1 .. Cardinality(S) -> S] : IsInjective(f)
  <2>1. CASE S = {}
    <3>1. Cardinality(S) = 0
      BY <2>1, FS_EmptySet
    <3>2. [n \in 1 .. 0 |-> n] \in [1 .. 0 -> S] /\ IsInjective([n \in 1 .. 0 |-> n])
      BY DEF IsInjective
    <3> QED BY <3>1, <3>2
  <2>2. ASSUME NEW a \in S PROVE \E f \in [1 .. Cardinality(S) -> S] : IsInjective(f)
    <3>1. S = {a}
      BY <2>2
    <3>2. Cardinality({a}) = 1
      BY FS_Singleton
    <3>3. [n \in 1 .. 1 |-> a] \in [1 .. 1 -> S] /\ IsInjective([n \in 1 .. 1 |-> a])
      BY DEF IsInjective
    <3> QED BY <3>1, <3>2, <3>3
  <2> QED BY <2>1, <2>2
<1>3. SetToSeq(S) \in [1 .. Cardinality(S) -> S]
  BY <1>2 DEF SetToSeq
<1> QED BY <1>1, <1>3

-----------------------------------------------------------------------------
(* Where the parts of a template end.                                       *)

\* The least of some naturals.
LEMMA LeastIs ==
  ASSUME NEW S, S \subseteq Nat, S # {}
  PROVE  Min(S) \in S /\ \A k \in S : Min(S) <= k
BY NatLeast DEF Min

\* What the code may use as a part of a template.
IsRun(run) == run.min \in Nat /\ run.max \in Nat
IsPart(part) ==
  \/ part.kind = "phrase" /\ \A q \in part.phrases : Len(q) \in Nat
  \/ part.kind = "run" /\ IsRun(part)
  \/ part.kind = "list" /\ IsRun(part.name)

\* The positions in a text and after it, and the spans of it.
After(text) == 1 .. Len(text) + 1
SpansOf(text) == {s \in [start : After(text), end : After(text)] : s.start <= s.end}

\* A run of words ends in the text, or right after it.
LEMMA RunsEnd ==
  ASSUME NEW run, IsRun(run), NEW text, Len(text) \in Nat, NEW start \in After(text)
  PROVE  RunEnds(run, text, start) \subseteq start .. Len(text) + 1
BY DEF RunEnds, IsRun, After

\* One gets no further than the steps do.
LEMMA OnwardIs ==
  ASSUME NEW L, L \in Nat, NEW next, DOMAIN next = 1 .. L, \A n \in 1 .. L : next[n] \subseteq n + 1 .. L
  PROVE  \A n \in 1 .. L : Onward(next)[n] \subseteq n .. L
<1> DEFINE Step(n, f) == {n} \cup UNION {f[end] : end \in next[n]}
           Vals == SUBSET (1 .. L)
           step == [n \in 1 .. L |-> [f \in [1 .. L -> Vals] |-> Step(n, f)]]
<1>1. ASSUME NEW n \in 1 .. L, NEW f, NEW g, \A m \in n + 1 .. L : f[m] = g[m]
      PROVE  Step(n, f) = Step(n, g)
  <2>1. \A end \in next[n] : f[end] = g[end]
    BY <1>1
  <2> QED BY <2>1
<1>2. ASSUME NEW n \in 1 .. L, NEW f, \A m \in n + 1 .. L : f[m] \subseteq m .. L
      PROVE  Step(n, f) \subseteq n .. L
  <2>1. ASSUME NEW end \in next[n] PROVE f[end] \subseteq n .. L
    <3>1. end \in n + 1 .. L
      OBVIOUS
    <3>2. f[end] \subseteq end .. L
      BY <1>2, <3>1
    <3> QED BY <3>1, <3>2
  <2>2. n \in n .. L
    OBVIOUS
  <2> QED BY <2>1, <2>2
<1>3. Steps(step, L, Vals) /\ LooksAhead(step, L, Vals)
  <2>1. ASSUME NEW n \in 1 .. L, NEW f \in [1 .. L -> Vals] PROVE Step(n, f) \in Vals
    <3>1. ASSUME NEW end \in next[n] PROVE f[end] \subseteq 1 .. L
      <4>1. end \in 1 .. L
        OBVIOUS
      <4> QED BY <4>1
    <3> QED BY <3>1
  <2> HIDE DEF Step, Vals
  <2>2. ASSUME NEW n \in 1 .. L, NEW f \in [1 .. L -> Vals], NEW g \in [1 .. L -> Vals],
               \A m \in n + 1 .. L : f[m] = g[m]
        PROVE  step[n][f] = step[n][g]
    BY <1>1, <2>2
  <2> QED BY <2>1, <2>2 DEF Steps, LooksAhead
<1>4. PICK f \in [1 .. L -> Vals] : Solved(f, step, 1 .. L)
  <2>1. Vals # {}
    OBVIOUS
  <2> HIDE DEF step, Vals
  <2> QED BY <1>3, <2>1, Recursion
<1>5. f = [n \in 1 .. L |-> Step(n, f)]
  <2> HIDE DEF Vals, Step
  <2> QED BY <1>4 DEF Solved
<1>6. PICK from : from = [n \in 1 .. L |-> Step(n, from)] /\ Onward(next) = from
  BY <1>5 DEF Onward, Step
<1> DEFINE Good == {n \in 1 .. L : from[n] \subseteq n .. L}
<1>7. \A n \in 1 .. L : n \in Good
  <2>1. ASSUME NEW n \in 1 .. L, \A m \in n + 1 .. L : m \in Good PROVE n \in Good
    <3>1. \A m \in n + 1 .. L : from[m] \subseteq m .. L
      BY <2>1
    <3>2. from[n] = Step(n, from)
      BY <1>6
    <3> QED BY <1>2, <3>1, <3>2
  <2> HIDE DEF Good
  <2> QED BY <2>1, UpOrDown
<1> QED BY <1>6, <1>7

\* So does a list of names.
LEMMA ListsEnd ==
  ASSUME NEW part, IsRun(part.name), NEW W, NEW text \in Seq(W), NEW start \in After(text)
  PROVE  ListEnds(part, text, start) \subseteq start .. Len(text) + 1
<1> DEFINE L == Len(text) + 1
           names(starts) == UNION {RunEnds(part.name, text, m) : m \in starts}
           anded == [n \in 1 .. L |-> names(AfterAnd(text, n))]
           commas == [n \in 1 .. L |-> names({m \in {n + 1} : At(text, n, ",")})]
<1>1. L \in Nat /\ start \in 1 .. L
  BY DEF After
<1>2. ASSUME NEW n \in 1 .. L, NEW starts, starts \subseteq n + 1 .. L
      PROVE  names(starts) \subseteq n + 1 .. L
  <2>1. ASSUME NEW m \in starts PROVE RunEnds(part.name, text, m) \subseteq n + 1 .. L
    <3>1. m \in After(text) /\ m >= n + 1
      BY <1>2 DEF After
    <3>2. RunEnds(part.name, text, m) \subseteq m .. L
      BY <1>1, <3>1, RunsEnd
    <3> QED BY <1>1, <3>1, <3>2 DEF After
  <2> QED BY <2>1
<1>3. ASSUME NEW n \in 1 .. L
      PROVE  AfterAnd(text, n) \subseteq n + 1 .. L /\ {m \in {n + 1} : At(text, n, ",")} \subseteq n + 1 .. L
  <2>1. Len(text) \in Nat /\ n \in Nat /\ L = Len(text) + 1
    BY <1>1
  <2> HIDE DEF L
  <2>2. ASSUME NEW m \in AfterAnd(text, n) PROVE m \in n + 1 .. L
    <3>1. m \in {n + 1, n + 2} /\ m - 1 <= Len(text)
      BY DEF AfterAnd, At
    <3> QED BY <2>1, <3>1
  <2>3. ASSUME At(text, n, ",") PROVE n + 1 \in n + 1 .. L
    <3>1. n <= Len(text)
      BY <2>3 DEF At
    <3> QED BY <2>1, <3>1
  <2> QED BY <2>2, <2>3
<1>4. \A n \in 1 .. L : anded[n] \subseteq n + 1 .. L /\ commas[n] \subseteq n + 1 .. L
  <2> SUFFICES ASSUME NEW n \in 1 .. L PROVE anded[n] \subseteq n + 1 .. L /\ commas[n] \subseteq n + 1 .. L
    OBVIOUS
  <2>1. anded[n] = names(AfterAnd(text, n)) /\ commas[n] = names({m \in {n + 1} : At(text, n, ",")})
    OBVIOUS
  <2> HIDE DEF names, anded, commas
  <2> QED BY <1>2, <1>3, <2>1
<1>5. DOMAIN anded = 1 .. L /\ DOMAIN commas = 1 .. L
  OBVIOUS
<1>6. ListEnds(part, text, start) =
        UNION {(IF part.alone THEN {n} ELSE {}) \cup UNION {Onward(anded)[end] : end \in anded[n]} :
                 n \in UNION {Onward(commas)[end] : end \in RunEnds(part.name, text, start)}}
  BY DEF ListEnds
<1> HIDE DEF L, anded, commas
<1>7. \A n \in 1 .. L : Onward(anded)[n] \subseteq n .. L /\ Onward(commas)[n] \subseteq n .. L
  BY <1>1, <1>4, <1>5, OnwardIs
<1>8. RunEnds(part.name, text, start) \subseteq start .. L
  BY <1>1, RunsEnd DEF L
<1>9. ASSUME NEW end \in RunEnds(part.name, text, start), NEW n \in Onward(commas)[end]
      PROVE  n \in start .. L
  <2>1. end \in start .. L /\ end \in 1 .. L
    BY <1>1, <1>8
  <2>2. n \in end .. L
    BY <1>7, <2>1
  <2> QED BY <1>1, <2>1, <2>2
<1>10. ASSUME NEW n \in start .. L, NEW end \in anded[n], NEW m \in Onward(anded)[end]
       PROVE  m \in start .. L
  <2>1. n \in 1 .. L
    BY <1>1
  <2>2. end \in n + 1 .. L
    BY <1>4, <2>1
  <2>3. end \in 1 .. L
    BY <1>1, <2>1, <2>2
  <2>4. m \in end .. L
    BY <1>7, <2>3
  <2> QED BY <1>1, <2>1, <2>2, <2>4
<1> QED BY <1>6, <1>9, <1>10 DEF L

\* Wherever a part starts, it ends there or later, in the text or right after it.
LEMMA PartsEnd ==
  ASSUME NEW part, IsPart(part), NEW W, NEW text \in Seq(W), NEW start \in After(text)
  PROVE  Ends(part, text, start) \subseteq start .. Len(text) + 1
<1>1. Len(text) \in Nat /\ start \in 1 .. Len(text) + 1
  BY DEF After
<1>2. CASE part.kind = "phrase"
  <2>1. Ends(part, text, start) =
          {start + Len(p) : p \in {q \in part.phrases : IsPrefix(q, SubSeq(text, start, Len(text)))}}
    BY <1>2 DEF Ends
  <2>2. \A q \in part.phrases : Len(q) \in Nat
    BY <1>2 DEF IsPart
  <2>3. Len(SubSeq(text, start, Len(text))) = Len(text) - start + 1
    BY <1>1
  <2>4. ASSUME NEW q \in part.phrases, IsPrefix(q, SubSeq(text, start, Len(text)))
        PROVE  start + Len(q) \in start .. Len(text) + 1
    BY <1>1, <2>2, <2>3, <2>4 DEF IsPrefix
  <2> QED BY <2>1, <2>4
<1>3. CASE part.kind = "run"
  BY <1>1, <1>3, RunsEnd DEF Ends, IsPart
<1>4. CASE part.kind = "list"
  BY <1>4, ListsEnd DEF Ends, IsPart
<1> QED BY <1>2, <1>3, <1>4 DEF IsPart

-----------------------------------------------------------------------------
(* Matches.                                                                 *)

\* What may stand as a template, and as its match: positions that never go back.
IsTemplate(parts) ==
  /\ Len(parts) \in Nat /\ DOMAIN parts = 1 .. Len(parts)
  /\ \A k \in 1 .. Len(parts) : IsPart(parts[k])
Rising(text, j) ==
  {m \in Seq(After(text)) : Len(m) = j /\ \A i, k \in 1 .. j : i <= k => m[i] <= m[k]}
MatchesOf(parts, text) == Rising(text, Len(parts) + 1)

\* A match of one part more begins no later than the match of the rest.
LEMMA RisingMore ==
  ASSUME NEW W, NEW text \in Seq(W), NEW n \in After(text), NEW j \in Nat, NEW m \in Rising(text, j),
         j = 0 \/ n <= m[1]
  PROVE  <<n>> \o m \in Rising(text, j + 1)
<1>1. After(text) \subseteq Nat /\ m \in Seq(After(text)) /\ Len(m) = j
  BY DEF After, Rising
<1>2. \A i, k \in 1 .. j : i <= k => m[i] <= m[k]
  BY DEF Rising
<1> DEFINE w == <<n>> \o m
<1>3. /\ w \in Seq(After(text)) /\ Len(w) = j + 1 /\ w[1] = n
      /\ \A i \in 2 .. j + 1 : w[i] = m[i - 1]
  BY <1>1
<1>4. \A i \in 1 .. j : m[i] \in Nat
  BY <1>1
<1> HIDE DEF w
<1>5. ASSUME NEW i \in 1 .. j + 1, NEW k \in 1 .. j + 1, i <= k PROVE w[i] <= w[k]
  <2>1. CASE i # 1
    <3>1. i - 1 \in 1 .. j /\ k - 1 \in 1 .. j /\ i - 1 <= k - 1 /\ k \in 2 .. j + 1 /\ i \in 2 .. j + 1
      BY <1>5, <2>1
    <3> QED BY <1>2, <1>3, <3>1
  <2>2. CASE i = 1 /\ k = 1
    BY <1>3, <2>2, <1>1
  <2>3. CASE i = 1 /\ k # 1
    <3>1. k - 1 \in 1 .. j /\ 1 \in 1 .. j /\ 1 <= k - 1 /\ k \in 2 .. j + 1
      BY <1>5, <2>3
    <3>2. m[1] <= m[k - 1] /\ n <= m[1] /\ w[k] = m[k - 1]
      BY <1>2, <1>3, <3>1
    <3> QED BY <1>1, <1>3, <1>4, <2>3, <3>1, <3>2
  <2> QED BY <2>1, <2>2, <2>3
<1> QED BY <1>3, <1>5 DEF Rising, w

\* A search with backtracking finds only matches that stay in the text.
LEMMA MatchIs ==
  ASSUME NEW parts, IsTemplate(parts), NEW W, NEW text \in Seq(W), NEW start \in After(text), NEW whole
  PROVE  Match(parts, text, start, whole) \subseteq {m \in MatchesOf(parts, text) : m[1] = start}
<1> DEFINE L == Len(parts) + 1
           Ways == Seq(After(text))
           paths(k, n, f) == {<<end, f[k + 1][end]>> : end \in Ends(parts[k], text, n)}
           At1(k, n, f) ==
             IF k > Len(parts) THEN IF whole => n = Len(text) + 1 THEN {<<>>} ELSE {}
             ELSE Preferred(paths(k, n, f), parts[k].lazy)
           Step(k, f) == [n \in After(text) |-> At1(k, n, f)]
           Vals == [After(text) -> SUBSET Ways]
           step == [k \in 1 .. L |-> [f \in [1 .. L -> Vals] |-> Step(k, f)]]
<1>1. Len(parts) \in Nat /\ L \in Nat /\ \A k \in 1 .. Len(parts) : IsPart(parts[k])
  BY DEF IsTemplate
<1>4. ASSUME NEW k \in 1 .. L, k <= Len(parts), NEW n \in After(text), NEW end \in Ends(parts[k], text, n)
      PROVE  end \in After(text) /\ n <= end
  <2>1. k \in 1 .. Len(parts)
    BY <1>1, <1>4
  <2>2. Ends(parts[k], text, n) \subseteq n .. Len(text) + 1
    BY <1>1, <2>1, PartsEnd
  <2> QED BY <2>2, <1>4 DEF After
<1> HIDE DEF At1
<1>5. ASSUME NEW k \in 1 .. L, NEW f \in [1 .. L -> Vals] PROVE Step(k, f) \in Vals
  <2> SUFFICES ASSUME NEW n \in After(text), NEW m \in At1(k, n, f) PROVE m \in Ways
    OBVIOUS
  <2>1. CASE k <= Len(parts)
    <3>1. PICK end \in Ends(parts[k], text, n) : \E rest \in f[k + 1][end] : m = <<end>> \o rest
      <4>1. m \in Preferred(paths(k, n, f), parts[k].lazy)
        BY <1>1, <2>1 DEF At1
      <4> HIDE DEF paths
      <4>2. PICK p \in paths(k, n, f) : \E rest \in p[2] : m = <<p[1]>> \o rest
        BY <4>1 DEF Preferred
      <4> QED BY <4>2 DEF paths
    <3>2. end \in After(text) /\ k + 1 \in 1 .. L
      BY <1>1, <1>4, <2>1
    <3>3. f[k + 1][end] \subseteq Ways
      BY <3>2
    <3> QED BY <3>1, <3>2, <3>3
  <2>2. CASE ~(k <= Len(parts))
    <3>1. m = <<>>
      BY <1>1, <2>2 DEF At1
    <3> QED BY <3>1
  <2> QED BY <2>1, <2>2
<1>6. ASSUME NEW k \in 1 .. L, NEW f, NEW g, \A j \in k + 1 .. L : f[j] = g[j]
      PROVE  Step(k, f) = Step(k, g)
  <2>1. CASE k <= Len(parts)
    <3>1. f[k + 1] = g[k + 1]
      BY <1>1, <1>6, <2>1
    <3> QED BY <3>1 DEF At1
  <2>2. CASE ~(k <= Len(parts))
    BY <1>1, <2>2 DEF At1
  <2> QED BY <2>1, <2>2
<1>7. Steps(step, L, Vals) /\ LooksAhead(step, L, Vals)
  <2> HIDE DEF Step, Vals, L
  <2>1. ASSUME NEW k \in 1 .. L, NEW f \in [1 .. L -> Vals], NEW g \in [1 .. L -> Vals],
               \A j \in k + 1 .. L : f[j] = g[j]
        PROVE  step[k][f] = step[k][g]
    BY <1>6, <2>1
  <2> QED BY <1>5, <2>1 DEF Steps, LooksAhead
<1>8. PICK f \in [1 .. L -> Vals] : Solved(f, step, 1 .. L)
  <2>1. Vals # {}
    <3>1. [n \in After(text) |-> {}] \in Vals
      OBVIOUS
    <3> QED BY <3>1
  <2> HIDE DEF step, Vals, L
  <2> QED BY <1>1, <1>7, <2>1, Recursion
<1>9. f = [k \in 1 .. L |-> Step(k, f)]
  <2> HIDE DEF Vals, Step
  <2> QED BY <1>8 DEF Solved
<1>10. PICK from : /\ from = [k \in 1 .. L |-> Step(k, from)]
                   /\ Match(parts, text, start, whole) = {<<start>> \o ends : ends \in from[1][start]}
  <2> DEFINE System(g) == [k \in 1 .. L |-> Step(k, g)]
             from == CHOOSE g : g = System(g)
  <2>1. Match(parts, text, start, whole) = {<<start>> \o ends : ends \in from[1][start]}
    BY Zenon DEF Match, At1, After
  <2> HIDE DEF System
  <2>2. from = System(from)
    BY <1>9 DEF System
  <2> HIDE DEF from
  <2> QED BY <2>1, <2>2 DEF System
<1> DEFINE Good == {k \in 1 .. L : \A n \in After(text) : \A m \in from[k][n] :
                      <<n>> \o m \in Rising(text, L - k + 1) /\ m \in Rising(text, L - k)}
<1>11. \A k \in 1 .. L : k \in Good
  <2>1. ASSUME NEW k \in 1 .. L, \A j \in k + 1 .. L : j \in Good PROVE k \in Good
    <3> SUFFICES ASSUME NEW n \in After(text), NEW m \in from[k][n]
                 PROVE  <<n>> \o m \in Rising(text, L - k + 1) /\ m \in Rising(text, L - k)
      OBVIOUS
    <3>1. m \in At1(k, n, from)
      <4> HIDE DEF L
      <4>1. from[k] = Step(k, from)
        <5> HIDE DEF Step
        <5> QED BY <1>10
      <4> QED BY <4>1
    <3>2. n \in Nat
      BY DEF After
    <3>3. CASE k <= Len(parts)
      <4>1. PICK end \in Ends(parts[k], text, n) : \E rest \in from[k + 1][end] : m = <<end>> \o rest
        <5>1. m \in Preferred(paths(k, n, from), parts[k].lazy)
          BY <1>1, <3>1, <3>3 DEF At1
        <5> HIDE DEF paths
        <5>2. PICK p \in paths(k, n, from) : \E rest \in p[2] : m = <<p[1]>> \o rest
          BY <5>1 DEF Preferred
        <5>3. PICK end \in Ends(parts[k], text, n) : p = <<end, from[k + 1][end]>>
          BY DEF paths
        <5> QED BY <5>2, <5>3
      <4>2. PICK rest \in from[k + 1][end] : m = <<end>> \o rest
        BY <4>1
      <4>3. end \in After(text) /\ n <= end
        BY <1>4, <3>3
      <4>4. k + 1 \in Good /\ L - (k + 1) + 1 = L - k
        <5>1. L \in Nat /\ k \in 1 .. L /\ k + 1 <= L
          BY <1>1, <3>3
        <5> HIDE DEF L, Good
        <5>2. k + 1 \in k + 1 .. L /\ L - (k + 1) + 1 = L - k
          BY <5>1
        <5> QED BY <2>1, <5>2
      <4>5. m \in Rising(text, L - k) /\ rest \in Rising(text, L - (k + 1))
        BY <4>2, <4>3, <4>4
      <4>6. m[1] = end /\ L - k \in Nat
        BY <1>1, <4>2, <4>5, <4>3, <3>3 DEF Rising
      <4>7. <<n>> \o m \in Rising(text, (L - k) + 1)
        BY <4>3, <4>5, <4>6, RisingMore
      <4> QED BY <4>5, <4>7
    <3>4. CASE ~(k <= Len(parts))
      <4>1. k = L /\ m = <<>> /\ L - k = 0
        BY <1>1, <3>1, <3>4 DEF At1
      <4>2. <<>> \in Rising(text, 0)
        BY DEF Rising
      <4>3. <<n>> \o <<>> \in Rising(text, 0 + 1)
        BY <4>2, RisingMore
      <4> QED BY <4>1, <4>2, <4>3
    <3> QED BY <3>3, <3>4
  <2> HIDE DEF Good
  <2> QED BY <1>1, <2>1, UpOrDown
<1>12. 1 \in Good /\ L - 1 + 1 = L
  BY <1>1, <1>11
<1>13. ASSUME NEW m \in from[1][start] PROVE <<start>> \o m \in MatchesOf(parts, text) /\ (<<start>> \o m)[1] = start
  <2>1. <<start>> \o m \in Rising(text, L) /\ m \in Rising(text, L - 1)
    BY <1>12
  <2>2. m \in Seq(After(text))
    BY <2>1 DEF Rising
  <2> QED BY <2>1, <2>2 DEF MatchesOf
<1>14. Match(parts, text, start, whole) = {<<start>> \o ends : ends \in from[1][start]}
  BY <1>10
<1> HIDE DEF L, Step, Vals, step, Good
<1>15. ASSUME NEW m \in Match(parts, text, start, whole)
       PROVE  m \in MatchesOf(parts, text) /\ m[1] = start
  <2>1. PICK ends \in from[1][start] : m = <<start>> \o ends
    BY Zenon, <1>14
  <2> QED BY Zenon, <2>1, <1>13
<1> QED BY Zenon, <1>15

\* So are all the matches found from left to right.
LEMMA MatchesAre ==
  ASSUME NEW parts, IsTemplate(parts), NEW W, NEW text \in Seq(W)
  PROVE  Matches(parts, text) \in Seq(MatchesOf(parts, text))
<1> DEFINE Z == Len(text) + 2
           here(n) == Match(parts, text, n, FALSE)
           Step(n, f) == IF n > Len(text) THEN <<>> ELSE LeftToRight(n, here(n), f)
           Vals == Seq(MatchesOf(parts, text))
           step == [n \in 1 .. Z |-> [f \in [1 .. Z -> Vals] |-> Step(n, f)]]
<1>1. Len(text) \in Nat /\ Z \in Nat /\ Len(parts) \in Nat /\ Z = Len(text) + 2
  BY DEF IsTemplate
<1>2. ASSUME NEW n \in 1 .. Z, ~(n > Len(text)), NEW m \in here(n)
      PROVE  m \in MatchesOf(parts, text) /\ Last(m) \in 1 .. Len(text) + 1
  <2>1. n \in After(text)
    BY <1>1, <1>2 DEF After
  <2>2. m \in MatchesOf(parts, text)
    BY <2>1, MatchIs
  <2>3. m \in Seq(After(text)) /\ Len(m) = Len(parts) + 1
    BY <2>2 DEF MatchesOf, Rising
  <2>4. m[Len(m)] \in After(text)
    BY <1>1, <2>3
  <2> QED BY <2>2, <2>4 DEF After, Last
<1> HIDE DEF here, Z
<1>3. ASSUME NEW n \in 1 .. Z, NEW f, \A j \in n + 1 .. Z : f[j] \in Vals
      PROVE  Step(n, f) \in Vals
  <2>1. CASE n > Len(text)
    BY <2>1
  <2>2. CASE ~(n > Len(text)) /\ here(n) = {}
    <3>1. n + 1 \in n + 1 .. Z
      BY <1>1, <2>2
    <3> QED BY <1>3, <2>2, <3>1 DEF LeftToRight
  <2>3. CASE ~(n > Len(text)) /\ here(n) # {}
    <3>1. PICK m \in here(n) : LeftToRight(n, here(n), f) = <<m>> \o f[IF Last(m) > n THEN Last(m) ELSE n + 1]
      BY <2>3 DEF LeftToRight
    <3>2. m \in MatchesOf(parts, text) /\ Last(m) \in 1 .. Len(text) + 1
      BY <1>2, <2>3
    <3>3. (IF Last(m) > n THEN Last(m) ELSE n + 1) \in n + 1 .. Z
      BY <1>1, <2>3, <3>2
    <3>4. f[IF Last(m) > n THEN Last(m) ELSE n + 1] \in Vals
      BY <1>3, <3>3
    <3> QED BY <2>3, <3>1, <3>2, <3>4
  <2> QED BY <2>1, <2>2, <2>3
<1>4. ASSUME NEW n \in 1 .. Z, NEW f, NEW g, \A j \in n + 1 .. Z : f[j] = g[j]
      PROVE  Step(n, f) = Step(n, g)
  <2>1. CASE n > Len(text)
    BY <2>1
  <2>2. CASE ~(n > Len(text)) /\ here(n) = {}
    <3>1. n + 1 \in n + 1 .. Z
      BY <1>1, <2>2
    <3> QED BY <1>4, <2>2, <3>1 DEF LeftToRight
  <2>3. CASE ~(n > Len(text)) /\ here(n) # {}
    <3> DEFINE m == CHOOSE m \in here(n) : TRUE
               next == IF Last(m) > n THEN Last(m) ELSE n + 1
    <3>1. m \in here(n)
      BY <2>3
    <3> HIDE DEF m
    <3>2. Last(m) \in 1 .. Len(text) + 1
      BY <1>2, <2>3, <3>1
    <3>3. next \in n + 1 .. Z
      BY <1>1, <2>3, <3>2
    <3>4. f[next] = g[next]
      BY <1>4, <3>3
    <3> QED BY <2>3, <3>4 DEF LeftToRight, m
  <2> QED BY <2>1, <2>2, <2>3
<1> HIDE DEF Step
<1>5. Steps(step, Z, Vals) /\ LooksAhead(step, Z, Vals)
  <2> HIDE DEF Vals
  <2>1. ASSUME NEW n \in 1 .. Z, NEW f \in [1 .. Z -> Vals] PROVE Step(n, f) \in Vals
    <3>1. \A j \in n + 1 .. Z : f[j] \in Vals
      BY <1>1
    <3> QED BY <1>3, <3>1 DEF Vals
  <2>2. ASSUME NEW n \in 1 .. Z, NEW f \in [1 .. Z -> Vals], NEW g \in [1 .. Z -> Vals],
               \A j \in n + 1 .. Z : f[j] = g[j]
        PROVE  step[n][f] = step[n][g]
    BY <1>4, <2>2
  <2> QED BY <2>1, <2>2 DEF Steps, LooksAhead
<1>6. PICK f \in [1 .. Z -> Vals] : Solved(f, step, 1 .. Z)
  <2>1. <<>> \in Vals
    OBVIOUS
  <2> HIDE DEF step, Vals
  <2> QED BY <1>1, <1>5, <2>1, Recursion
<1>7. f = [n \in 1 .. Z |-> Step(n, f)]
  <2> HIDE DEF Vals
  <2> QED BY <1>6 DEF Solved
<1>8. PICK from : from = [n \in 1 .. Z |-> Step(n, from)] /\ Matches(parts, text) = from[1]
  BY <1>7 DEF Matches, Step, Z, here
<1> DEFINE Good == {n \in 1 .. Z : from[n] \in Vals}
<1>9. \A n \in 1 .. Z : n \in Good
  <2>1. ASSUME NEW n \in 1 .. Z, \A j \in n + 1 .. Z : j \in Good PROVE n \in Good
    <3>1. \A j \in n + 1 .. Z : from[j] \in Vals
      BY <2>1
    <3>2. from[n] = Step(n, from)
      BY <1>8
    <3> HIDE DEF Vals
    <3> QED BY <1>3, <3>1, <3>2 DEF Vals
  <2> HIDE DEF Good
  <2> QED BY <1>1, <2>1, UpOrDown
<1>10. 1 \in Good
  BY <1>1, <1>9
<1> QED BY <1>8, <1>10

-----------------------------------------------------------------------------
(* Where words stand.                                                       *)

\* Where some words stand in a text: after its first `at` words.
Stands(words, text, at) ==
  /\ at \in Nat /\ at + Len(words) <= Len(text)
  /\ \A k \in 1 .. Len(words) : words[k] = text[at + k]

\* The pieces of a text are what stands in it.
LEMMA PiecesStand ==
  ASSUME NEW W, NEW text \in Seq(W), NEW words
  PROVE  words \in SubSeqs(text) <=> words \in Seq(W) /\ \E at \in 0 .. Len(text) : Stands(words, text, at)
<1>1. ASSUME words \in SubSeqs(text)
      PROVE  words \in Seq(W) /\ \E at \in 0 .. Len(text) : Stands(words, text, at)
  <2>1. PICK i \in 0 .. Len(text), j \in 0 .. Len(text) : words = SubSeq(text, i + 1, j)
    BY <1>1 DEF SubSeqs
  <2>2. Len(text) \in Nat /\ \A k \in i + 1 .. j : text[k] \in W
    OBVIOUS
  <2>3. /\ words \in Seq(W) /\ Len(words) = (IF i + 1 <= j THEN j - i ELSE 0)
        /\ \A k \in 1 .. j - i : words[k] = text[i + k]
    <3>1. i + 1 \in Int /\ j \in Int /\ j - (i + 1) + 1 = j - i
      OBVIOUS
    <3>2. \A k \in 1 .. j - i : (i + 1) + k - 1 = i + k
      OBVIOUS
    <3> QED BY <2>1, <2>2, <3>1, <3>2, SubSeqProperties
  <2>4. Stands(words, text, i)
    BY <2>2, <2>3 DEF Stands
  <2> QED BY <2>3, <2>4
<1>2. ASSUME words \in Seq(W), NEW at \in 0 .. Len(text), Stands(words, text, at)
      PROVE  words \in SubSeqs(text)
  <2> DEFINE j == at + Len(words)
             piece == SubSeq(text, at + 1, j)
  <2>1. Len(text) \in Nat /\ Len(words) \in Nat /\ at \in Nat /\ j \in 0 .. Len(text)
    BY <1>2 DEF Stands
  <2>2. \A k \in 1 .. Len(words) : words[k] = text[at + k]
    BY <1>2 DEF Stands
  <2>3. \A k \in at + 1 .. j : text[k] \in W
    BY <2>1
  <2>4. /\ piece \in Seq(W) /\ Len(piece) = Len(words)
        /\ \A k \in 1 .. Len(words) : piece[k] = text[at + k]
    <3>1. at + 1 \in Int /\ j \in Int /\ j - (at + 1) + 1 = Len(words)
      BY <2>1
    <3>2. \A k \in 1 .. Len(words) : (at + 1) + k - 1 = at + k
      BY <2>1
    <3> HIDE DEF j
    <3>3. Len(words) = (IF at + 1 <= j THEN j - (at + 1) + 1 ELSE 0)
      BY <2>1, <3>1
    <3> QED BY <2>3, <3>1, <3>2, <3>3, SubSeqProperties
  <2>5. piece = words
    <3> HIDE DEF piece
    <3> QED BY <1>2, <2>2, <2>4, SeqEqual
  <2>6. words = SubSeq(text, at + 1, j) /\ j \in 0 .. Len(text) /\ at \in 0 .. Len(text)
    BY <2>1, <2>5
  <2> HIDE DEF j
  <2> QED BY <2>6 DEF SubSeqs
<1> QED BY <1>1, <1>2

\* What a span cuts out of a text stands where the span begins.
LEMMA CutStands ==
  ASSUME NEW W, NEW text \in Seq(W), NEW span \in SpansOf(text)
  PROVE  /\ Cut(text, span) \in Seq(W) /\ Len(Cut(text, span)) = span.end - span.start
         /\ Stands(Cut(text, span), text, span.start - 1)
<1>1. /\ Len(text) \in Nat /\ span.start \in 1 .. Len(text) + 1 /\ span.end \in 1 .. Len(text) + 1
      /\ span.start <= span.end
  BY DEF SpansOf, After
<1> DEFINE a == span.start
           z == span.end
<1> HIDE DEF a, z
<1>2. \A k \in a .. z - 1 : text[k] \in W
  BY <1>1 DEF a, z
<1>3. a \in Int /\ z - 1 \in Int /\ z - 1 - a + 1 = z - a /\ (IF a <= z - 1 THEN z - a ELSE 0) = z - a
  BY <1>1 DEF a, z
<1>4. /\ SubSeq(text, a, z - 1) \in Seq(W) /\ Len(SubSeq(text, a, z - 1)) = z - a
      /\ \A k \in 1 .. z - a : SubSeq(text, a, z - 1)[k] = text[a + k - 1]
  BY <1>2, <1>3, SubSeqProperties
<1>5. \A k \in 1 .. z - a : a + k - 1 = (a - 1) + k
  BY <1>3
<1>6. Cut(text, span) = SubSeq(text, a, z - 1)
  BY DEF Cut, a, z
<1>7. a - 1 \in Nat /\ a - 1 + (z - a) <= Len(text)
  BY <1>1 DEF a, z
<1>8. Stands(Cut(text, span), text, a - 1)
  BY <1>4, <1>5, <1>6, <1>7 DEF Stands
<1> QED BY <1>4, <1>6, <1>8 DEF a, z

\* What stands in a piece stands in the text that the piece is of.
LEMMA StandsWithin ==
  ASSUME NEW W, NEW text \in Seq(W), NEW piece \in Seq(W), NEW words \in Seq(W),
         NEW at, NEW within, Stands(piece, text, at), Stands(words, piece, within)
  PROVE  Stands(words, text, at + within)
<1>1. /\ Len(words) \in Nat /\ Len(piece) \in Nat /\ Len(text) \in Nat /\ at \in Nat /\ within \in Nat
      /\ within + Len(words) <= Len(piece) /\ at + Len(piece) <= Len(text)
  BY DEF Stands
<1>2. \A k \in 1 .. Len(words) : words[k] = text[at + within + k]
  <2> TAKE k \in 1 .. Len(words)
  <2>1. within + k \in 1 .. Len(piece) /\ at + (within + k) = at + within + k
    BY <1>1
  <2>2. words[k] = piece[within + k]
    BY DEF Stands
  <2>3. piece[within + k] = text[at + (within + k)]
    BY <2>1 DEF Stands
  <2> QED BY <2>1, <2>2, <2>3
<1> QED BY <1>1, <1>2 DEF Stands

\* Positions counted from the beginning of a span, from the beginning of the text, and of a
\* span within a span.
LEMMA FromTheSpan ==
  ASSUME NEW start \in Nat, NEW end \in Nat, NEW at \in Nat, NEW more \in Nat,
         1 <= start, start <= end, start - 1 <= at, at + more <= end - 1
  PROVE  /\ at - (start - 1) \in Nat /\ at - (start - 1) \in 0 .. end - start
         /\ at - (start - 1) + more <= end - start
OBVIOUS

LEMMA FromTheText ==
  ASSUME NEW start \in Nat, NEW end \in Nat, NEW total \in Nat, 1 <= start, start <= end, end <= total + 1,
         NEW at \in 1 .. (end - start) + 1
  PROVE  start - 1 + at \in 1 .. total + 1
OBVIOUS

LEMMA FromTheInner ==
  ASSUME NEW start \in Nat, NEW end \in Nat, NEW from \in Nat, NEW to \in Nat, NEW total \in Nat,
         1 <= start, start <= from, from <= to, to <= end, to <= total + 1,
         NEW at \in Nat, NEW more \in Nat, at + more <= to - from
  PROVE  /\ from - 1 + at \in 0 .. total /\ start <= from - 1 + at + 1
         /\ from - 1 + at + more < end
OBVIOUS

\* What stands within a span is a piece of what the span cuts out.
LEMMA InCut ==
  ASSUME NEW W, NEW text \in Seq(W), NEW span \in SpansOf(text), NEW words \in Seq(W), NEW at,
         Stands(words, text, at), span.start - 1 <= at, at + Len(words) <= span.end - 1
  PROVE  words \in SubSeqs(Cut(text, span))
<1>1. /\ Len(text) \in Nat /\ span.start \in Nat /\ span.end \in Nat /\ Len(words) \in Nat /\ at \in Nat
      /\ span.start >= 1 /\ span.start <= span.end
  BY DEF SpansOf, After, Stands
<1> DEFINE cut == Cut(text, span)
           in == at - (span.start - 1)
<1>2. /\ cut \in Seq(W) /\ Len(cut) = span.end - span.start /\ Stands(cut, text, span.start - 1)
  BY CutStands
<1> HIDE DEF cut
<1>3. in \in Nat /\ in + Len(words) <= Len(cut) /\ in \in 0 .. Len(cut)
  <2>1. span.start - 1 <= at /\ at + Len(words) <= span.end - 1
    OBVIOUS
  <2> DEFINE start == span.start
             end == span.end
             more == Len(words)
  <2>2. /\ start \in Nat /\ end \in Nat /\ at \in Nat /\ more \in Nat
        /\ 1 <= start /\ start <= end /\ start - 1 <= at /\ at + more <= end - 1
    BY <1>1, <2>1
  <2>3. Len(cut) = end - start
    BY <1>2
  <2> HIDE DEF start, end, more
  <2>4. /\ at - (start - 1) \in Nat /\ at - (start - 1) \in 0 .. end - start
        /\ at - (start - 1) + more <= end - start
    BY <2>2, FromTheSpan
  <2> QED BY <2>3, <2>4 DEF start, more
<1>4. \A k \in 1 .. Len(words) : words[k] = cut[in + k]
  <2> TAKE k \in 1 .. Len(words)
  <2>1. in + k \in 1 .. Len(cut) /\ span.start - 1 + (in + k) = at + k
    <3>1. Len(cut) = span.end - span.start /\ in = at - (span.start - 1)
      BY <1>2
    <3> HIDE DEF in
    <3>2. Len(cut) \in Nat /\ k \in Nat /\ 1 <= k /\ k <= Len(words)
      BY <1>1, <1>2
    <3>3. in + k \in 1 .. Len(cut)
      BY <1>1, <1>3, <3>2
    <3>4. span.start - 1 + (in + k) = at + k
      <4> DEFINE start == span.start
      <4>1. start \in Nat /\ at \in Nat /\ k \in Nat /\ in = at - (start - 1)
        BY <1>1, <3>1, <3>2
      <4> HIDE DEF start
      <4>2. start - 1 + (in + k) = at + k
        BY ONLY <4>1
      <4> QED BY <4>2 DEF start
    <3> QED BY <3>3, <3>4
  <2>2. cut[in + k] = text[span.start - 1 + (in + k)]
    BY <1>2, <2>1 DEF Stands
  <2>3. words[k] = text[at + k]
    BY DEF Stands
  <2> QED BY <2>1, <2>2, <2>3
<1>5. Stands(words, cut, in)
  BY <1>3, <1>4 DEF Stands
<1> HIDE DEF in
<1>6. words \in SubSeqs(cut)
  BY <1>2, <1>3, <1>5, PiecesStand
<1> QED BY <1>6 DEF cut

\* The spans that lie within another.
SpansIn(text, span) == {s \in SpansOf(text) : span.start <= s.start /\ s.end <= span.end}

\* What a match gives to a slot is a span of the text.
LEMMA SlotIsASpan ==
  ASSUME NEW parts, IsTemplate(parts), NEW text, NEW match \in MatchesOf(parts, text),
         NEW slot, HasSlot(parts, slot)
  PROVE  Span(parts, match, slot) \in SpansOf(text)
<1> DEFINE k == CHOOSE k \in DOMAIN parts : parts[k].slot = slot
<1>1. k \in 1 .. Len(parts) /\ Len(parts) \in Nat
  BY DEF HasSlot, IsTemplate
<1>2. Span(parts, match, slot) = [start |-> match[k], end |-> match[k + 1]]
  BY DEF Span
<1> HIDE DEF k
<1>3. k \in 1 .. Len(parts) + 1 /\ k + 1 \in 1 .. Len(parts) + 1 /\ k <= k + 1
  BY <1>1
<1>4. /\ match \in Seq(After(text)) /\ Len(match) = Len(parts) + 1
      /\ \A i, j \in 1 .. Len(parts) + 1 : i <= j => match[i] <= match[j]
  BY DEF MatchesOf, Rising
<1>5. match[k] \in After(text) /\ match[k + 1] \in After(text) /\ match[k] <= match[k + 1]
  BY <1>3, <1>4
<1> QED BY <1>2, <1>5 DEF SpansOf

\* The names of a list lie within it.
LEMMA NamesLieWithin ==
  ASSUME NEW W, NEW text \in Seq(W), NEW span \in SpansOf(text)
  PROVE  SplitNames(text, span) \in Seq(SpansIn(text, span))
<1> DEFINE cuts == {n \in span.start .. span.end - 1 :
                      text[n] = "," \/ (text[n] = "and" /\ n \in span.start + 1 .. span.end - 2)}
           begins == {n \in (span.start .. span.end - 1) \ cuts : n = span.start \/ n - 1 \in cuts}
           stops(n) == {m \in n .. span.end : m = span.end \/ m \in cuts}
           found(n) == [start |-> n, end |-> Min(stops(n))]
           some == [n \in DOMAIN text |-> IF n \in begins THEN <<found(n)>> ELSE <<>>]
<1>1. /\ Len(text) \in Nat /\ span.start \in 1 .. Len(text) + 1 /\ span.end \in 1 .. Len(text) + 1
      /\ span.start <= span.end /\ DOMAIN text = 1 .. Len(text)
  BY DEF SpansOf, After
<1>2. SplitNames(text, span) = FlattenSeq(some)
  BY DEF SplitNames
<1> HIDE DEF cuts
<1>3. ASSUME NEW n \in begins PROVE found(n) \in SpansIn(text, span)
  <2>1. n \in span.start .. span.end - 1
    OBVIOUS
  <2>2. stops(n) \subseteq Nat /\ span.end \in stops(n) /\ stops(n) \subseteq n .. span.end
    BY <1>1, <2>1
  <2> HIDE DEF stops
  <2>3. Min(stops(n)) \in stops(n)
    BY <2>2, LeastIs
  <2>4. Min(stops(n)) \in n .. span.end
    BY <2>2, <2>3
  <2> QED BY <1>1, <2>1, <2>4 DEF SpansIn, SpansOf, After
<1> HIDE DEF begins, found
<1>4. \A n \in 1 .. Len(text) : some[n] \in Seq(SpansIn(text, span))
  BY <1>1, <1>3
<1>5. some = [n \in 1 .. Len(text) |-> some[n]]
  BY <1>1
<1> HIDE DEF some
<1>6. FlattenSeq([n \in 1 .. Len(text) |-> some[n]]) \in Seq(SpansIn(text, span))
  BY <1>1, <1>4, ChosenAre
<1> QED BY <1>2, <1>5, <1>6

-----------------------------------------------------------------------------
(* Pieces of a text, and what the word lists are made of.                   *)

\* A piece of a piece is a piece.
LEMMA PieceOfAPiece ==
  ASSUME NEW W, NEW text \in Seq(W), NEW piece \in SubSeqs(text), NEW words \in SubSeqs(piece)
  PROVE  words \in SubSeqs(text)
<1>1. piece \in Seq(W) /\ \E at \in 0 .. Len(text) : Stands(piece, text, at)
  BY PiecesStand
<1>2. words \in Seq(W) /\ \E at \in 0 .. Len(piece) : Stands(words, piece, at)
  BY <1>1, PiecesStand
<1>3. PICK at \in 0 .. Len(text) : Stands(piece, text, at)
  BY <1>1
<1>4. PICK in \in 0 .. Len(piece) : Stands(words, piece, in)
  BY <1>2
<1>5. Stands(words, text, at + in)
  BY <1>1, <1>2, <1>3, <1>4, StandsWithin
<1>6. at + in \in 0 .. Len(text)
  <2>1. at + in \in Nat /\ at + in + Len(words) <= Len(text) /\ Len(words) \in Nat
    BY <1>2, <1>5 DEF Stands
  <2> QED BY <2>1
<1> QED BY <1>2, <1>5, <1>6, PiecesStand

\* From some word on, up to some word.
LEMMA SubSeqIsAPiece ==
  ASSUME NEW W, NEW text \in Seq(W), NEW a \in 1 .. Len(text) + 1, NEW z \in 0 .. Len(text)
  PROVE  SubSeq(text, a, z) \in SubSeqs(text)
<1>1. PICK i \in 0 .. Len(text) : i + 1 = a
  <2>1. a - 1 \in 0 .. Len(text) /\ a - 1 + 1 = a
    OBVIOUS
  <2> QED BY <2>1
<1>2. SubSeq(text, i + 1, z) \in SubSeqs(text)
  BY DEF SubSeqs
<1> QED BY <1>1, <1>2

\* A text is a piece of itself.
LEMMA Itself ==
  ASSUME NEW W, NEW text \in Seq(W)
  PROVE  text \in SubSeqs(text)
<1>1. SubSeq(text, 1, Len(text)) = text /\ 1 \in 1 .. Len(text) + 1 /\ Len(text) \in 0 .. Len(text)
  OBVIOUS
<1> QED BY <1>1, SubSeqIsAPiece

\* No words are a piece of every text.
LEMMA NothingIsAPiece ==
  ASSUME NEW W, NEW text \in Seq(W)
  PROVE  <<>> \in SubSeqs(text)
<1>1. Stands(<<>>, text, 0) /\ 0 \in 0 .. Len(text) /\ <<>> \in Seq(W)
  BY DEF Stands
<1> QED BY <1>1, PiecesStand

\* What a span cuts out is a piece.
LEMMA CutIsAPiece ==
  ASSUME NEW W, NEW text \in Seq(W), NEW span \in SpansOf(text)
  PROVE  Cut(text, span) \in SubSeqs(text)
<1>1. Cut(text, span) \in Seq(W) /\ Stands(Cut(text, span), text, span.start - 1)
  BY CutStands
<1>2. span.start - 1 \in 0 .. Len(text)
  BY DEF SpansOf, After
<1> QED BY <1>1, <1>2, PiecesStand

\* Dropping a first word leaves a piece.
LEMMA UnlessIsAPiece ==
  ASSUME NEW W, NEW text \in Seq(W), NEW words
  PROVE  Unless(text, words) \in SubSeqs(text)
<1>1. text \in SubSeqs(text)
  BY Itself
<1>2. CASE text # <<>>
  <2>1. Tail(text) = SubSeq(text, 2, Len(text))
    BY <1>2, TailIsSubSeq
  <2>2. 2 \in 1 .. Len(text) + 1 /\ Len(text) \in 0 .. Len(text)
    BY <1>2
  <2>3. Tail(text) \in SubSeqs(text)
    BY <2>1, <2>2, SubSeqIsAPiece
  <2> QED BY <1>1, <2>3 DEF Unless
<1> QED BY <1>1, <1>2 DEF Unless

\* A cleaned name is a piece of the printed one, and the beginning of it when no
\* word of it is one that a name may lose.
LEMMA DedupedBegins ==
  ASSUME NEW W, NEW printed \in Seq(W)
  PROVE  LET deduped == dedupe_repeated_name(printed) IN deduped \in Seq(W) /\ Stands(deduped, printed, 0)
<1> DEFINE half == Len(printed) \div 2
<1>1. Len(printed) \in Nat /\ half \in 0 .. Len(printed)
  OBVIOUS
<1> HIDE DEF half
<1>2. SubSeq(printed, 1, half) \in Seq(W) /\ Stands(SubSeq(printed, 1, half), printed, 0)
  BY <1>1 DEF Stands
<1>3. Stands(printed, printed, 0)
  BY <1>1 DEF Stands
<1>4. dedupe_repeated_name(printed) \in {printed, SubSeq(printed, 1, half)}
  BY DEF dedupe_repeated_name, half
<1> QED BY <1>2, <1>3, <1>4

\* strip_honorific, strip_leading_noise and the cut at a repeated name leave a piece of
\* what is printed.
LEMMA CleanedIsAPiece ==
  ASSUME NEW W, NEW printed \in Seq(W)
  PROVE  Cleaned(printed) \in SubSeqs(printed)
<1> DEFINE stripped == strip_honorific(printed)
           bare == strip_leading_noise(stripped)
           keep == {n \in DOMAIN stripped : n >= Len(stripped) - 1 \/ ~LeadingNoise(stripped[n])}
<1>1. stripped \in SubSeqs(printed)
  BY UnlessIsAPiece, Itself DEF strip_honorific
<1>2. stripped \in Seq(W)
  BY <1>1, PiecesStand
<1>3. bare \in SubSeqs(stripped)
  <2>1. CASE stripped = <<>>
    BY <1>2, <2>1, Itself DEF strip_leading_noise
  <2>2. CASE stripped # <<>>
    <3>1. bare = SubSeq(stripped, Min(keep), Len(stripped))
      BY <2>2 DEF strip_leading_noise
    <3>2. Len(stripped) \in keep /\ keep \subseteq 1 .. Len(stripped) /\ keep \subseteq Nat
      <4> HIDE DEF stripped
      <4> QED BY <1>2, <2>2
    <3> HIDE DEF keep, stripped
    <3>3. Min(keep) \in keep
      BY <3>2, LeastIs
    <3>4. Min(keep) \in 1 .. Len(stripped) + 1 /\ Len(stripped) \in 0 .. Len(stripped)
      <4>1. Len(stripped) \in Nat
        BY <1>2
      <4>2. Min(keep) \in 1 .. Len(stripped)
        BY <3>2, <3>3
      <4> HIDE DEF Min
      <4> QED BY <4>1, <4>2
    <3> QED BY <1>2, <3>1, <3>4, SubSeqIsAPiece
  <2> QED BY <2>1, <2>2
<1>4. bare \in Seq(W)
  <2> HIDE DEF stripped, bare
  <2> QED BY <1>2, <1>3, PiecesStand
<1>5. Cleaned(printed) = dedupe_repeated_name(bare)
  BY DEF Cleaned
<1> HIDE DEF stripped, bare
<1>6. Cleaned(printed) \in Seq(W) /\ Stands(Cleaned(printed), bare, 0)
  BY <1>4, <1>5, DedupedBegins
<1>7. Cleaned(printed) \in SubSeqs(bare)
  <2>1. 0 \in 0 .. Len(bare)
    BY <1>4
  <2> QED BY <1>4, <1>6, <2>1, PiecesStand
<1> QED BY <1>1, <1>2, <1>3, <1>7, PieceOfAPiece

\* A name of which no word can be dropped keeps its beginning.
LEMMA CleanedBegins ==
  ASSUME NEW W, NEW printed \in Seq(W),
         \A n \in DOMAIN printed : printed[n] \notin HONORIFIC /\ ~LeadingNoise(printed[n])
  PROVE  Cleaned(printed) \in Seq(W) /\ Stands(Cleaned(printed), printed, 0)
<1> DEFINE keep == {n \in DOMAIN printed : n >= Len(printed) - 1 \/ ~LeadingNoise(printed[n])}
<1>1. strip_honorific(printed) = printed
  BY DEF strip_honorific, Unless
<1>2. strip_leading_noise(printed) = printed
  <2>1. CASE printed = <<>>
    BY <2>1 DEF strip_leading_noise
  <2>2. CASE printed # <<>>
    <3>1. strip_leading_noise(printed) = SubSeq(printed, Min(keep), Len(printed))
      BY <2>2 DEF strip_leading_noise
    <3>2. 1 \in keep /\ keep \subseteq Nat /\ \A n \in keep : 1 <= n
      BY <2>2
    <3> HIDE DEF keep
    <3>3. Min(keep) \in keep /\ Min(keep) <= 1
      BY <3>2, LeastIs
    <3>4. Min(keep) = 1
      <4>1. Min(keep) \in Nat /\ 1 <= Min(keep) /\ Min(keep) <= 1
        BY <3>2, <3>3
      <4> QED BY <4>1
    <3>5. SubSeq(printed, 1, Len(printed)) = printed
      OBVIOUS
    <3> QED BY <3>1, <3>4, <3>5
  <2> QED BY <2>1, <2>2
<1>3. Cleaned(printed) = dedupe_repeated_name(printed)
  BY <1>1, <1>2 DEF Cleaned
<1> QED BY <1>3, DedupedBegins

-----------------------------------------------------------------------------
\* What the constructors of parts make, and what slot it fills.
LEMMA PartsAre ==
  /\ \A words : IsPart(Word(words)) /\ IsPart(Maybe(words))
  /\ \A stems : IsPart(Verb(stems))
  /\ \A slot, words, lazy : \A min, max \in Nat :
       /\ IsPart(Run(slot, words, min, max, lazy)) /\ Run(slot, words, min, max, lazy).slot = slot
       /\ \A first : /\ IsPart(Led(Run(slot, words, min, max, lazy), first))
                     /\ Led(Run(slot, words, min, max, lazy), first).slot = slot
       /\ \A alone : /\ IsPart(List(Run(slot, words, min, max, lazy), alone))
                     /\ List(Run(slot, words, min, max, lazy), alone).slot = slot
<1>1. ASSUME NEW words PROVE IsPart(Word(words)) /\ IsPart(Maybe(words))
  BY DEF IsPart, Word, Maybe, Lit
<1>2. ASSUME NEW stems PROVE IsPart(Verb(stems))
  BY <1>1 DEF Verb
<1>3. ASSUME NEW slot, NEW words, NEW lazy, NEW min \in Nat, NEW max \in Nat
      PROVE  /\ IsPart(Run(slot, words, min, max, lazy)) /\ Run(slot, words, min, max, lazy).slot = slot
             /\ \A first : /\ IsPart(Led(Run(slot, words, min, max, lazy), first))
                           /\ Led(Run(slot, words, min, max, lazy), first).slot = slot
             /\ \A alone : /\ IsPart(List(Run(slot, words, min, max, lazy), alone))
                           /\ List(Run(slot, words, min, max, lazy), alone).slot = slot
  BY DEF IsPart, IsRun, Run, Led, List
<1> QED BY <1>1, <1>2, <1>3

\* A sequence of parts is a template.
LEMMA TuplesAre ==
  /\ \A a, b : IsPart(a) /\ IsPart(b)
       => IsTemplate(<<a, b>>)
  /\ \A a, b, c : IsPart(a) /\ IsPart(b) /\ IsPart(c)
       => IsTemplate(<<a, b, c>>)
  /\ \A a, b, c, d : IsPart(a) /\ IsPart(b) /\ IsPart(c) /\ IsPart(d)
       => IsTemplate(<<a, b, c, d>>)
  /\ \A a, b, c, d, e : IsPart(a) /\ IsPart(b) /\ IsPart(c) /\ IsPart(d) /\ IsPart(e)
       => IsTemplate(<<a, b, c, d, e>>)
  /\ \A a, b, c, d, e, f : IsPart(a) /\ IsPart(b) /\ IsPart(c) /\ IsPart(d) /\ IsPart(e) /\ IsPart(f)
       => IsTemplate(<<a, b, c, d, e, f>>)
  /\ \A a, b, c, d, e, f, g : IsPart(a) /\ IsPart(b) /\ IsPart(c) /\ IsPart(d) /\ IsPart(e) /\ IsPart(f) /\ IsPart(g)
       => IsTemplate(<<a, b, c, d, e, f, g>>)
<1>1. ASSUME NEW a, NEW b, IsPart(a), IsPart(b)
      PROVE  IsTemplate(<<a, b>>)
  BY <1>1 DEF IsTemplate
<1>2. ASSUME NEW a, NEW b, NEW c, IsPart(a), IsPart(b), IsPart(c)
      PROVE  IsTemplate(<<a, b, c>>)
  BY <1>2 DEF IsTemplate
<1>3. ASSUME NEW a, NEW b, NEW c, NEW d, IsPart(a), IsPart(b), IsPart(c), IsPart(d)
      PROVE  IsTemplate(<<a, b, c, d>>)
  BY <1>3 DEF IsTemplate
<1>4. ASSUME NEW a, NEW b, NEW c, NEW d, NEW e, IsPart(a), IsPart(b), IsPart(c), IsPart(d), IsPart(e)
      PROVE  IsTemplate(<<a, b, c, d, e>>)
  BY <1>4 DEF IsTemplate
<1>5. ASSUME NEW a, NEW b, NEW c, NEW d, NEW e, NEW f, IsPart(a), IsPart(b), IsPart(c), IsPart(d), IsPart(e), IsPart(f)
      PROVE  IsTemplate(<<a, b, c, d, e, f>>)
  BY <1>5 DEF IsTemplate
<1>6. ASSUME NEW a, NEW b, NEW c, NEW d, NEW e, NEW f, NEW g, IsPart(a), IsPart(b), IsPart(c), IsPart(d), IsPart(e), IsPart(f), IsPart(g)
      PROVE  IsTemplate(<<a, b, c, d, e, f, g>>)
  BY <1>6 DEF IsTemplate
<1> QED BY <1>1, <1>2, <1>3, <1>4, <1>5, <1>6

\* Every template of a headline says where it names people.
LEMMA TemplatesAre ==
  \A k \in DOMAIN TEMPLATES :
    IsTemplate(TEMPLATES[k].parts) /\ HasSlot(TEMPLATES[k].parts, "person")
<1>1. /\ \A words : IsPart(Word(words)) /\ IsPart(Maybe(words))
      /\ \A stems : IsPart(Verb(stems))
  BY PartsAre
<1>2. /\ IsPart(PERSON) /\ IsPart(PEOPLE) /\ IsPart(PEOPLE_OR_ONE) /\ IsPart(FIRM_A) /\ IsPart(FIRM_B)
      /\ IsPart(TITLE) /\ IsPart(PRACTICE) /\ IsPart(Filler) /\ IsPart(Joins) /\ IsPart(Comma)
  <2>1. IsPart(PERSON) /\ IsPart(TITLE) /\ IsPart(PRACTICE) /\ IsPart(Filler)
    BY PartsAre DEF PERSON, TITLE, PRACTICE, Filler
  <2>2. IsPart(PEOPLE) /\ IsPart(PEOPLE_OR_ONE)
    BY PartsAre DEF PERSON, PEOPLE, PEOPLE_OR_ONE
  <2>3. IsPart(FIRM_A) /\ IsPart(FIRM_B)
    BY PartsAre DEF FIRM_A, FIRM_B
  <2>4. IsPart(Joins) /\ IsPart(Comma)
    BY <1>1, Zenon DEF Joins, Comma
  <2> QED BY <2>1, <2>2, <2>3, <2>4
<1>6. PERSON.slot = "person" /\ PEOPLE.slot = "person" /\ PEOPLE_OR_ONE.slot = "person"
  <2>1. PERSON.slot = "person"
    BY DEF PERSON, Run
  <2> QED BY <2>1 DEF PEOPLE, PEOPLE_OR_ONE, List
<1>3. IsPart(Lit({<<"up", "as">>}))
  BY DEF IsPart, Lit
<1>4. DOMAIN TEMPLATES = 1 .. 15
  BY DEF TEMPLATES
<1>5. \A k \in 1 .. 15 : IsTemplate(TEMPLATES[k].parts)
  <2>1. IsTemplate(TEMPLATES[1].parts)
    BY <1>1, <1>2, <1>3, TuplesAre, Zenon DEF TEMPLATES, T
  <2>2. IsTemplate(TEMPLATES[2].parts)
    BY <1>1, <1>2, <1>3, TuplesAre, Zenon DEF TEMPLATES, T, PEOPLE_JOIN_AS
  <2>3. IsTemplate(TEMPLATES[3].parts)
    BY <1>1, <1>2, <1>3, TuplesAre, Zenon DEF TEMPLATES, Without
  <2>4. IsTemplate(TEMPLATES[4].parts)
    BY <1>1, <1>2, <1>3, TuplesAre, Zenon DEF TEMPLATES, T
  <2>5. IsTemplate(TEMPLATES[5].parts)
    BY <1>1, <1>2, <1>3, TuplesAre, Zenon DEF TEMPLATES, T
  <2>6. IsTemplate(TEMPLATES[6].parts)
    BY <1>1, <1>2, <1>3, TuplesAre, Zenon DEF TEMPLATES, T
  <2>7. IsTemplate(TEMPLATES[7].parts)
    BY <1>1, <1>2, <1>3, TuplesAre, Zenon DEF TEMPLATES, T
  <2>8. IsTemplate(TEMPLATES[8].parts)
    BY <1>1, <1>2, <1>3, TuplesAre, Zenon DEF TEMPLATES, T
  <2>9. IsTemplate(TEMPLATES[9].parts)
    BY <1>1, <1>2, <1>3, TuplesAre, Zenon DEF TEMPLATES, T
  <2>10. IsTemplate(TEMPLATES[10].parts)
    BY <1>1, <1>2, <1>3, TuplesAre, Zenon DEF TEMPLATES, T
  <2>11. IsTemplate(TEMPLATES[11].parts)
    BY <1>1, <1>2, <1>3, TuplesAre, Zenon DEF TEMPLATES, T
  <2>12. IsTemplate(TEMPLATES[12].parts)
    BY <1>1, <1>2, <1>3, TuplesAre, Zenon DEF TEMPLATES, T
  <2>13. IsTemplate(TEMPLATES[13].parts)
    BY <1>1, <1>2, <1>3, TuplesAre, Zenon DEF TEMPLATES, T
  <2>14. IsTemplate(TEMPLATES[14].parts)
    BY <1>1, <1>2, <1>3, TuplesAre, Zenon DEF TEMPLATES, T
  <2>15. IsTemplate(TEMPLATES[15].parts)
    BY <1>1, <1>2, <1>3, TuplesAre, Zenon DEF TEMPLATES, T
  <2> QED BY <2>1, <2>2, <2>3, <2>4, <2>5, <2>6, <2>7, <2>8, <2>9, <2>10, <2>11, <2>12, <2>13, <2>14, <2>15
<1> DEFINE place == <<3, 1, 1, 7, 6, 1, 1, 3, 6, 3, 3, 1, 3, 1, 1>>
<1>7. \A k \in 1 .. 15 : place[k] \in DOMAIN TEMPLATES[k].parts /\ TEMPLATES[k].parts[place[k]].slot = "person"
  <2>1. \A k \in 1 .. 5 : place[k] \in DOMAIN TEMPLATES[k].parts /\ TEMPLATES[k].parts[place[k]].slot = "person"
    BY <1>6 DEF TEMPLATES, T, Without, PEOPLE_JOIN_AS
  <2>2. \A k \in 6 .. 10 : place[k] \in DOMAIN TEMPLATES[k].parts /\ TEMPLATES[k].parts[place[k]].slot = "person"
    BY <1>6 DEF TEMPLATES, T
  <2>3. \A k \in 11 .. 15 : place[k] \in DOMAIN TEMPLATES[k].parts /\ TEMPLATES[k].parts[place[k]].slot = "person"
    BY <1>6 DEF TEMPLATES, T
  <2> QED BY <2>1, <2>2, <2>3
<1> QED BY <1>4, <1>5, <1>7 DEF HasSlot

\* So does every template of a sentence; the one for practices says where they are.
LEMMA BodyTemplatesAre ==
  /\ \A k \in DOMAIN WITH_ORIGIN :
       IsTemplate(WITH_ORIGIN[k]) /\ HasSlot(WITH_ORIGIN[k], "person") /\ HasSlot(WITH_ORIGIN[k], "firm_b")
  /\ IsTemplate(FROM_FIRM) /\ HasSlot(FROM_FIRM, "firm_b")
  /\ \A k \in DOMAIN WITHOUT_ORIGIN : IsTemplate(WITHOUT_ORIGIN[k]) /\ HasSlot(WITHOUT_ORIGIN[k], "person")
  /\ \A parts \in {NAME_LIST, NAME_LIST_AFTER_VERB} : IsTemplate(parts) /\ HasSlot(parts, "person")
  /\ IsTemplate(BODY_PRACTICE) /\ HasSlot(BODY_PRACTICE, "practice")
<1>1. \A words : IsPart(Word(words)) /\ IsPart(Maybe(words))
  BY PartsAre
<1>2. IsPart(BodyPerson) /\ BodyPerson.slot = "person"
  <2>1. IsPart(BodyPerson)
    BY PartsAre DEF BodyPerson
  <2> QED BY <2>1 DEF BodyPerson, Run
<1>3. \A lazy : IsPart(BodyFirm(lazy)) /\ BodyFirm(lazy).slot = "firm_b"
  <2>1. \A lazy : IsPart(BodyFirm(lazy))
    BY PartsAre DEF BodyFirm
  <2>2. \A lazy : BodyFirm(lazy).slot = "firm_b"
    BY DEF BodyFirm, Led, Run
  <2> QED BY <2>1, <2>2
<1>4. IsPart(BodyTitle) /\ IsPart(JoinForms) /\ IsPart(Arrivals) /\ IsPart(RoleNouns)
  BY PartsAre DEF BodyTitle, JoinForms, Arrivals, RoleNouns
<1>5. /\ IsPart(Lit({<<"former">>, <<"ex">>, <<"previously", "of">>, <<"previously", "at">>}))
      /\ IsPart(Lit({<<"is", "a", "lateral", "hire", "from">>}))
      /\ IsPart(Lit({<<>>, <<"the", "firm">>}))
      /\ IsPart(Lit({<<>>, <<"a", "partner">>}))
      /\ IsPart(Lit({<<"has", "been">>, <<"was">>}))
      /\ IsPart(Lit({<<>>, <<"will">>, <<"has">>, <<"is", "to">>, <<"is", "set", "to">>}))
      /\ IsPart(Lit({<<"brought", "in">>, <<"brings", "in">>}))
      /\ IsPart(Lit({<<"becoming">>, <<"have", "become">>, <<"were", "made">>, <<"have", "been", "promoted">>, <<"joined", "as">>, <<"are">>}))
  BY DEF IsPart, Lit
<1>6. DOMAIN WITH_ORIGIN = 1 .. 5 /\ DOMAIN WITHOUT_ORIGIN = 1 .. 9
  BY DEF WITH_ORIGIN, WITHOUT_ORIGIN
<1>7. \A k \in 1 .. 5 : IsTemplate(WITH_ORIGIN[k])
  <2>1. IsTemplate(WITH_ORIGIN[1])
    BY <1>1, <1>2, <1>3, <1>4, <1>5, TuplesAre, Zenon DEF WITH_ORIGIN
  <2>2. IsTemplate(WITH_ORIGIN[2])
    BY <1>1, <1>2, <1>3, <1>4, <1>5, TuplesAre, Zenon DEF WITH_ORIGIN
  <2>3. IsTemplate(WITH_ORIGIN[3])
    BY <1>1, <1>2, <1>3, <1>4, <1>5, TuplesAre, Zenon DEF WITH_ORIGIN
  <2>4. IsTemplate(WITH_ORIGIN[4])
    BY <1>1, <1>2, <1>3, <1>4, <1>5, TuplesAre, Zenon DEF WITH_ORIGIN
  <2>5. IsTemplate(WITH_ORIGIN[5])
    BY <1>1, <1>2, <1>3, <1>4, <1>5, TuplesAre, Zenon DEF WITH_ORIGIN
  <2> QED BY <2>1, <2>2, <2>3, <2>4, <2>5
<1>8. \A k \in 1 .. 5 : HasSlot(WITH_ORIGIN[k], "person")
  <2> DEFINE place == <<5, 1, 1, 1, 1>>
  <2>1. \A k \in 1 .. 5 : place[k] \in DOMAIN WITH_ORIGIN[k] /\ WITH_ORIGIN[k][place[k]].slot = "person"
    BY <1>2 DEF WITH_ORIGIN
  <2> QED BY <2>1 DEF HasSlot
<1>16. \A k \in 1 .. 5 : HasSlot(WITH_ORIGIN[k], "firm_b")
  <2> DEFINE place == <<2, 3, 7, 4, 6>>
             near == BodyFirm(TRUE)
             far == BodyFirm(FALSE)
  <2>1. near.slot = "firm_b" /\ far.slot = "firm_b"
    BY <1>3, Zenon
  <2> HIDE DEF near, far
  <2>2. /\ 2 \in DOMAIN WITH_ORIGIN[1] /\ WITH_ORIGIN[1][2] = near
        /\ 3 \in DOMAIN WITH_ORIGIN[2] /\ WITH_ORIGIN[2][3] = far
        /\ 7 \in DOMAIN WITH_ORIGIN[3] /\ WITH_ORIGIN[3][7] = far
        /\ 4 \in DOMAIN WITH_ORIGIN[4] /\ WITH_ORIGIN[4][4] = far
        /\ 6 \in DOMAIN WITH_ORIGIN[5] /\ WITH_ORIGIN[5][6] = far
    BY DEF WITH_ORIGIN, near, far
  <2>3. \A k \in 1 .. 5 : place[k] \in DOMAIN WITH_ORIGIN[k] /\ WITH_ORIGIN[k][place[k]].slot = "firm_b"
    <3>1. \A k \in 1 .. 5 : k = 1 \/ k = 2 \/ k = 3 \/ k = 4 \/ k = 5
      OBVIOUS
    <3> QED BY <2>1, <2>2, <3>1
  <2> QED BY <2>3 DEF HasSlot
<1>17. IsTemplate(FROM_FIRM) /\ HasSlot(FROM_FIRM, "firm_b")
  <2>1. IsTemplate(FROM_FIRM)
    BY <1>1, <1>3, TuplesAre, Zenon DEF FROM_FIRM
  <2> DEFINE firm == BodyFirm(FALSE)
  <2>2. firm.slot = "firm_b"
    BY <1>3, Zenon
  <2> HIDE DEF firm
  <2>3. 2 \in DOMAIN FROM_FIRM /\ FROM_FIRM[2] = firm
    BY DEF FROM_FIRM, firm
  <2> QED BY <2>1, <2>2, <2>3 DEF HasSlot
<1>9. /\ IsPart(Run(NoSlot, NameWords, 0, 4, TRUE)) /\ IsPart(Run(NoSlot, NameWords, 0, 6, TRUE))
      /\ IsPart(Run(NoSlot, NameWords, 0, 10, TRUE))
      /\ IsPart(Led(Run(NoSlot, FirmWords, 1, 6, FALSE), Capital \cup {"the"}))
  BY PartsAre
<1>10. \A k \in 1 .. 9 : IsTemplate(WITHOUT_ORIGIN[k])
  <2>1. IsTemplate(WITHOUT_ORIGIN[1])
    BY <1>1, <1>2, <1>4, <1>5, <1>9, TuplesAre, Zenon DEF WITHOUT_ORIGIN
  <2>2. IsTemplate(WITHOUT_ORIGIN[2])
    BY <1>1, <1>2, <1>4, <1>5, <1>9, TuplesAre, Zenon DEF WITHOUT_ORIGIN
  <2>3. IsTemplate(WITHOUT_ORIGIN[3])
    BY <1>1, <1>2, <1>4, <1>5, <1>9, TuplesAre, Zenon DEF WITHOUT_ORIGIN
  <2>4. IsTemplate(WITHOUT_ORIGIN[4])
    BY <1>1, <1>2, <1>4, <1>5, <1>9, TuplesAre, Zenon DEF WITHOUT_ORIGIN
  <2>5. IsTemplate(WITHOUT_ORIGIN[5])
    BY <1>1, <1>2, <1>4, <1>5, <1>9, TuplesAre, Zenon DEF WITHOUT_ORIGIN
  <2>6. IsTemplate(WITHOUT_ORIGIN[6])
    BY <1>1, <1>2, <1>4, <1>5, <1>9, TuplesAre, Zenon DEF WITHOUT_ORIGIN
  <2>7. IsTemplate(WITHOUT_ORIGIN[7])
    BY <1>1, <1>2, <1>4, <1>5, <1>9, TuplesAre, Zenon DEF WITHOUT_ORIGIN
  <2>8. IsTemplate(WITHOUT_ORIGIN[8])
    BY <1>1, <1>2, <1>4, <1>5, <1>9, TuplesAre, Zenon DEF WITHOUT_ORIGIN
  <2>9. IsTemplate(WITHOUT_ORIGIN[9])
    BY <1>1, <1>2, <1>4, <1>5, <1>9, TuplesAre, Zenon DEF WITHOUT_ORIGIN
  <2> QED BY <2>1, <2>2, <2>3, <2>4, <2>5, <2>6, <2>7, <2>8, <2>9
<1>11. \A k \in 1 .. 9 : HasSlot(WITHOUT_ORIGIN[k], "person")
  <2> DEFINE place == <<1, 2, 1, 1, 3, 5, 5, 3, 6>>
  <2>1. \A k \in 1 .. 9 : place[k] \in DOMAIN WITHOUT_ORIGIN[k] /\ WITHOUT_ORIGIN[k][place[k]].slot = "person"
    BY <1>2 DEF WITHOUT_ORIGIN
  <2> QED BY <2>1 DEF HasSlot
<1>12. IsPart(List(BodyPerson, FALSE)) /\ List(BodyPerson, FALSE).slot = "person" /\ IsPart(Filler)
  <2>1. IsPart(List(BodyPerson, FALSE)) /\ IsPart(Filler)
    BY PartsAre DEF BodyPerson, Filler
  <2> QED BY <1>2, <2>1 DEF List
<1> DEFINE names == List(BodyPerson, FALSE)
<1> HIDE DEF names
<1>13. IsTemplate(NAME_LIST) /\ HasSlot(NAME_LIST, "person")
  <2>1. IsTemplate(NAME_LIST)
    BY <1>1, <1>5, <1>12, TuplesAre, Zenon DEF NAME_LIST
  <2>2. 1 \in DOMAIN NAME_LIST /\ NAME_LIST[1] = names
    BY DEF NAME_LIST, names
  <2> QED BY <1>12, <2>1, <2>2 DEF HasSlot, names
<1>14. IsTemplate(NAME_LIST_AFTER_VERB) /\ HasSlot(NAME_LIST_AFTER_VERB, "person")
  <2>1. IsTemplate(NAME_LIST_AFTER_VERB)
    BY <1>1, <1>12, TuplesAre, Zenon DEF NAME_LIST_AFTER_VERB
  <2>2. 2 \in DOMAIN NAME_LIST_AFTER_VERB /\ NAME_LIST_AFTER_VERB[2] = names
    BY DEF NAME_LIST_AFTER_VERB, names
  <2> QED BY <1>12, <2>1, <2>2 DEF HasSlot, names
<1>15. IsTemplate(BODY_PRACTICE) /\ HasSlot(BODY_PRACTICE, "practice")
  <2> DEFINE run == Run("practice", Words \ {"."}, 1, 8, TRUE)
  <2>1. IsPart(run)
    BY PartsAre
  <2>2. IsPart(PracticeNoun) /\ IsPart(Lit({<<>>, <<"firm">>, <<"firm", "s">>}))
    BY DEF PracticeNoun, IsPart, Lit
  <2>3. IsTemplate(BODY_PRACTICE)
    BY <1>1, <2>1, <2>2, TuplesAre, Zenon DEF BODY_PRACTICE, PracticeAfter
  <2>4. run.slot = "practice"
    BY DEF Run
  <2> HIDE DEF run
  <2>5. 4 \in DOMAIN BODY_PRACTICE /\ BODY_PRACTICE[4] = run
    BY DEF BODY_PRACTICE, PracticeAfter, run
  <2> QED BY <2>3, <2>4, <2>5 DEF HasSlot
<1> QED BY <1>6, <1>7, <1>8, <1>10, <1>11, <1>13, <1>14, <1>15, <1>16, <1>17

-----------------------------------------------------------------------------
(* What a field cites: the headline.                                        *)

\* Every word of a text.
Printed == Words \cup {Break}

\* The value of a field stands in the words that the field cites.
IsCited(text, field) ==
  /\ field.start \in After(text) /\ field.end \in After(text) /\ field.value \in Seq(Printed)
  /\ \E at \in 0 .. Len(text) :
       Stands(field.value, text, at) /\ field.start <= at + 1 /\ at + Len(field.value) < field.end

\* What a field cites is among the words that its span cuts out.
LEMMA CitedHolds ==
  ASSUME NEW text \in Seq(Printed), NEW field, IsCited(text, field)
  PROVE  field.value \in SubSeqs(Cut(text, field))
<1> DEFINE span == [start |-> field.start, end |-> field.end]
<1>1. PICK at \in 0 .. Len(text) :
        Stands(field.value, text, at) /\ field.start <= at + 1 /\ at + Len(field.value) < field.end
  BY DEF IsCited
<1>2. field.start \in Nat /\ field.end \in Nat /\ Len(field.value) \in Nat /\ at \in Nat
  BY DEF IsCited, After
<1>3. span \in SpansOf(text)
  BY <1>1, <1>2 DEF SpansOf, IsCited
<1>4. span.start - 1 <= at /\ at + Len(field.value) <= span.end - 1
  BY <1>1, <1>2
<1>5. Cut(text, field) = Cut(text, span)
  BY DEF Cut
<1>6. field.value \in Seq(Printed)
  BY DEF IsCited
<1> HIDE DEF span
<1> QED BY <1>1, <1>3, <1>4, <1>5, <1>6, InCut

\* What a span cuts out is cited by the span, and so is every piece of it.
LEMMA PiecesAreCited ==
  ASSUME NEW text \in Seq(Printed), NEW span \in SpansOf(text), NEW inner \in SpansIn(text, span),
         NEW words \in SubSeqs(Cut(text, inner)), NEW exact
  PROVE  IsCited(text, Field(words, span.start, span.end, exact))
<1>1. /\ Len(text) \in Nat /\ span.start \in After(text) /\ span.end \in After(text)
      /\ span.start \in Nat /\ span.end \in Nat /\ inner.start \in Nat /\ inner.end \in Nat
      /\ inner.start >= 1 /\ inner.end <= Len(text) + 1 /\ inner.start <= inner.end
      /\ span.start <= inner.start /\ inner.end <= span.end /\ inner \in SpansOf(text)
  BY DEF SpansIn, SpansOf, After
<1> DEFINE cut == Cut(text, inner)
<1>2. cut \in Seq(Printed) /\ Len(cut) = inner.end - inner.start /\ Stands(cut, text, inner.start - 1)
  BY <1>1, CutStands
<1> HIDE DEF cut
<1>3. words \in Seq(Printed) /\ \E in \in 0 .. Len(cut) : Stands(words, cut, in)
  BY <1>2, PiecesStand DEF cut
<1>4. PICK in \in 0 .. Len(cut) : Stands(words, cut, in)
  BY <1>3
<1> DEFINE at == inner.start - 1 + in
<1>5. Stands(words, text, at)
  BY <1>2, <1>3, <1>4, StandsWithin
<1>6. in \in Nat /\ Len(words) \in Nat /\ in + Len(words) <= Len(cut)
  BY <1>3, <1>4 DEF Stands
<1>7. at \in 0 .. Len(text) /\ span.start <= at + 1 /\ at + Len(words) < span.end
  <2>1. in + Len(words) <= inner.end - inner.start
    BY <1>2, <1>6
  <2>2. 1 <= span.start
    BY <1>1 DEF After
  <2> QED BY <1>1, <1>6, <2>1, <2>2, FromTheInner
<1> HIDE DEF at
<1> QED BY <1>1, <1>3, <1>5, <1>7 DEF IsCited, Field

\* The origin of a move is told in the headline.
FirmIsTold(head, move) ==
  Value(move, "from_firm") # Unknown => Headlined(head, Value(move, "from_firm"))

\* Every field of a move that is said to stand in the text is cited, and the origin told.
Cites(text, move) ==
  /\ "fields" \in DOMAIN move
  /\ FirmIsTold(text, move)
  /\ \A f \in DOMAIN move.fields \ {"move_type"} :
       move.fields[f].exact => IsCited(text, move.fields[f])

\* A record has the fields that are present.
LEMMA PresentIs ==
  ASSUME NEW pairs, NEW f \in DOMAIN Scored(Present(pairs)).fields
  PROVE  f \in DOMAIN pairs /\ Scored(Present(pairs)).fields[f] \in pairs[f]
BY DEF Scored, Present

\* So its value is that of the field it was made of.
LEMMA ValueOfPresent ==
  ASSUME NEW pairs, NEW f, Value(Scored(Present(pairs)), f) # Unknown
  PROVE  f \in DOMAIN pairs /\ \E x \in pairs[f] : Value(Scored(Present(pairs)), f) = x.value
<1>1. /\ f \in DOMAIN Scored(Present(pairs)).fields
      /\ Value(Scored(Present(pairs)), f) = Scored(Present(pairs)).fields[f].value
  BY DEF Value
<1> QED BY <1>1, PresentIs

\* What a match gives to a slot is a piece of the headline.
LEMMA SlotWordsAreTold ==
  ASSUME NEW head \in Seq(Printed), NEW template, IsTemplate(template.parts),
         NEW match \in MatchesOf(template.parts, head), NEW slot
  PROVE  Tells(head, resolve(SlotWords(head, template, match, slot)))
<1>1. SlotWords(head, template, match, slot) \in SubSeqs(head)
  <2>1. CASE HasSlot(template.parts, slot)
    <3>1. Span(template.parts, match, slot) \in SpansOf(head)
      BY <2>1, SlotIsASpan
    <3>2. Cut(head, Span(template.parts, match, slot)) \in SubSeqs(head)
      BY <3>1, CutIsAPiece
    <3> QED BY <2>1, <3>2 DEF SlotWords
  <2>2. CASE ~HasSlot(template.parts, slot)
    BY <2>2, NothingIsAPiece DEF SlotWords
  <2> QED BY <2>1, <2>2
<1> QED BY <1>1 DEF Tells

\* The origin of a move of the headline is spelt by the template's words or is of the pair.
LEMMA OriginIsHeadlined ==
  ASSUME NEW head, NEW type, NEW one, NEW other, Tells(head, one), Tells(head, other)
  PROVE  LET from == FirmsOfMove(type, one, other, firm_pair(head)).from
         IN  from # Unknown => Headlined(head, from)
<1> DEFINE pair == firm_pair(head)
           from == FirmsOfMove(type, one, other, pair).from
<1>1. from \in {one, other, pair.to, pair.from}
  BY DEF FirmsOfMove, FirstKnown
<1> HIDE DEF from, pair
<1>2. ASSUME from # Unknown, from \in {pair.to, pair.from} PROVE Headlined(head, from)
  BY <1>2, PairIsFound DEF Headlined, pair
<1>3. ASSUME from \in {one, other} PROVE Headlined(head, from)
  BY <1>3 DEF Headlined
<1> QED BY <1>1, <1>2, <1>3 DEF from, pair

\* The record of a match cites the name and the practice where the match has them.
LEMMA RecordCites ==
  ASSUME NEW head \in Seq(Printed), NEW template, IsTemplate(template.parts), HasSlot(template.parts, "person"),
         NEW match \in MatchesOf(template.parts, head),
         NEW inner \in SpansIn(head, Span(template.parts, match, "person")),
         NEW person \in SubSeqs(Cut(head, inner)), NEW role,
         NEW firms, firms.from # Unknown => Headlined(head, firms.from),
         NEW rec \in Record(head, template, match, person, role, firms)
  PROVE  Cites(head, rec)
<1> DEFINE fields == MatchFields(head, template, match, person, role, firms)
           span(slot) == Span(template.parts, match, slot)
<1>1. rec = Scored(Present(fields))
  BY DEF Record
<1>2. ASSUME NEW x \in fields["person_name"] PROVE IsCited(head, x)
  <2>1. x = Field(person, span("person").start, span("person").end, TRUE)
    BY DEF MatchFields
  <2>2. span("person") \in SpansOf(head)
    BY SlotIsASpan
  <2> QED BY <2>1, <2>2, PiecesAreCited
<1>3. ASSUME NEW x \in fields["practice_text"], x.exact PROVE IsCited(head, x)
  <2>1. CASE HasSlot(template.parts, "practice")
    <3>1. x = Field(Cut(head, span("practice")), span("practice").start, span("practice").end, TRUE)
      BY <2>1 DEF MatchFields
    <3>2. span("practice") \in SpansOf(head)
      BY <2>1, SlotIsASpan
    <3> HIDE DEF span
    <3>3. Cut(head, span("practice")) \in SubSeqs(Cut(head, span("practice")))
      BY <3>2, CutStands, Itself
    <3>4. span("practice") \in SpansIn(head, span("practice"))
      BY <3>2 DEF SpansIn, SpansOf, After
    <3> QED BY <3>1, <3>2, <3>3, <3>4, PiecesAreCited
  <2>2. CASE ~HasSlot(template.parts, "practice")
    <3>1. x.exact = FALSE
      BY <2>2 DEF MatchFields, Given, Field
    <3> QED BY <1>3, <3>1
  <2> QED BY <2>1, <2>2
<1>4. ASSUME NEW f \in {"to_firm", "from_firm", "title_to", "office_jurisdiction"}, NEW x \in fields[f]
      PROVE  x.exact = FALSE
  BY DEF MatchFields, Given, Field
<1>8. \A x \in fields["from_firm"] : x.value = firms.from
  BY DEF MatchFields, Given, Field
<1>5. DOMAIN fields = {"person_name", "practice_text", "to_firm", "from_firm", "title_to", "office_jurisdiction",
                       "move_type"}
  BY DEF MatchFields
<1> HIDE DEF fields
<1>6. ASSUME NEW f \in DOMAIN rec.fields \ {"move_type"}, rec.fields[f].exact
      PROVE  IsCited(head, rec.fields[f])
  <2>1. f \in DOMAIN fields /\ rec.fields[f] \in fields[f]
    BY <1>1, <1>6, PresentIs
  <2> QED BY <1>2, <1>3, <1>4, <1>5, <1>6, <2>1
<1>7. "fields" \in DOMAIN rec
  BY <1>1 DEF Scored
<1>9. FirmIsTold(head, rec)
  <2>1. Value(rec, "from_firm") # Unknown => Value(rec, "from_firm") = firms.from
    BY <1>1, <1>8, ValueOfPresent
  <2> QED BY <2>1 DEF FirmIsTold
<1> QED BY <1>6, <1>7, <1>9 DEF Cites

\* Every move that a template reads in a headline cites what it says is there.
LEMMA BuildCites ==
  ASSUME NEW head \in Seq(Printed), NEW template, IsTemplate(template.parts), HasSlot(template.parts, "person"),
         NEW match \in MatchesOf(template.parts, head),
         NEW inner \in SpansIn(head, Span(template.parts, match, "person"))
  PROVE  /\ \A rec \in Build(head, template, match, Cut(head, inner)) : Cites(head, rec)
         /\ \A a, b \in Build(head, template, match, Cut(head, inner)) : a = b
<1> DEFINE printed == Cut(head, inner)
           person == Cleaned(printed)
           role == parse(SlotWords(head, template, match, "title"))
           firms == FirmsOfMove(template.type, resolve(SlotWords(head, template, match, "firm_a")),
                     resolve(SlotWords(head, template, match, "firm_b")), firm_pair(head))
<1>1. Build(head, template, match, printed) = Record(head, template, match, person, role, firms)
  BY DEF Build
<1>2. inner \in SpansOf(head)
  BY DEF SpansIn
<1>3. printed \in Seq(Printed)
  BY <1>2, CutStands
<1>4. person \in SubSeqs(printed)
  <2> HIDE DEF printed
  <2> QED BY <1>3, CleanedIsAPiece
<1>7. firms.from # Unknown => Headlined(head, firms.from)
  <2>1. \A slot : Tells(head, resolve(SlotWords(head, template, match, slot)))
    BY SlotWordsAreTold
  <2> QED BY <2>1, OriginIsHeadlined
<1> HIDE DEF person, role, firms
<1>5. \A rec \in Record(head, template, match, person, role, firms) : Cites(head, rec)
  BY <1>4, <1>7, RecordCites
<1>6. \A a, b \in Record(head, template, match, person, role, firms) : a = b
  BY DEF Record
<1> QED BY <1>1, <1>5, <1>6

\* So do all records of a template.
LEMMA BuildAllCites ==
  ASSUME NEW head \in Seq(Printed), NEW k \in DOMAIN TEMPLATES
  PROVE  \A n \in DOMAIN BuildAll(head, TEMPLATES[k]) : Cites(head, BuildAll(head, TEMPLATES[k])[n])
<1> DEFINE template == TEMPLATES[k]
           matches == Matching(head, template)
           Items == {rec \in UNION {Build(head, template, match, Cut(head, inner)) :
                                      match \in matches, inner \in SpansOf(head)} : Cites(head, rec)}
<1>1. IsTemplate(template.parts) /\ HasSlot(template.parts, "person")
  BY TemplatesAre
<1> HIDE DEF template
<1>2. matches \subseteq MatchesOf(template.parts, head)
  <2>1. 1 \in After(head)
    BY DEF After
  <2>2. matches \subseteq Match(template.parts, head, 1, template.whole)
    BY DEF Matching
  <2>3. Match(template.parts, head, 1, template.whole) \subseteq MatchesOf(template.parts, head)
    BY <1>1, <2>1, MatchIs
  <2> QED BY <2>2, <2>3
<1>3. BuildAll(head, template) = BuildFrom(head, template, matches)
  BY DEF BuildAll
<1> HIDE DEF matches, Items
<1>4. CASE matches = {}
  BY <1>3, <1>4 DEF BuildFrom, template
<1>5. CASE matches # {}
  <2>1. PICK match \in matches :
          BuildFrom(head, template, matches)
            = BuildNames(head, template, match, SplitNames(head, Span(template.parts, match, "person")))
    BY <1>5 DEF BuildFrom
  <2> DEFINE list == Span(template.parts, match, "person")
             names == SplitNames(head, list)
             some == [n \in DOMAIN names |-> SetToSeq(Build(head, template, match, Cut(head, names[n])))]
  <2>2. match \in MatchesOf(template.parts, head) /\ list \in SpansOf(head)
    BY <1>1, <1>2, <2>1, SlotIsASpan
  <2>3. names \in Seq(SpansIn(head, list))
    BY <2>2, NamesLieWithin
  <2>4. Len(names) \in Nat /\ DOMAIN names = 1 .. Len(names) /\ \A n \in 1 .. Len(names) : names[n] \in SpansIn(head, list)
    BY <2>3
  <2>5. BuildFrom(head, template, matches) = FlattenSeq(some)
    BY <2>1 DEF BuildNames
  <2> HIDE DEF list, names
  <2>6. ASSUME NEW n \in 1 .. Len(names) PROVE some[n] \in Seq(Items)
    <3> DEFINE built == Build(head, template, match, Cut(head, names[n]))
    <3>1. names[n] \in SpansIn(head, list) /\ names[n] \in SpansOf(head)
      BY <2>4 DEF SpansIn
    <3>2. (\A rec \in built : Cites(head, rec)) /\ \A a, b \in built : a = b
      BY <1>1, <2>2, <3>1, BuildCites DEF list
    <3>3. built \subseteq Items
      BY <2>1, <3>1, <3>2 DEF Items
    <3>4. some[n] = SetToSeq(built)
      BY <2>4
    <3> HIDE DEF built
    <3> QED BY <3>2, <3>3, <3>4, OneOrNone
  <2>7. some = [n \in 1 .. Len(names) |-> some[n]]
    BY <2>4
  <2> HIDE DEF some
  <2>8. FlattenSeq([n \in 1 .. Len(names) |-> some[n]]) \in Seq(Items)
    BY <2>4, <2>6, ChosenAre
  <2>9. BuildAll(head, template) \in Seq(Items)
    BY <1>3, <2>5, <2>7, <2>8
  <2>10. \A n \in DOMAIN BuildAll(head, template) : BuildAll(head, template)[n] \in Items
    BY <2>9
  <2> QED BY <2>10 DEF Items, template
<1> QED BY <1>4, <1>5

-----------------------------------------------------------------------------
(* Sentences and practices.                                                 *)

\* The greatest of some positions.
LEMMA GreatestIs ==
  ASSUME NEW L \in Nat, NEW S, S \subseteq 1 .. L, S # {}
  PROVE  Max(S) \in S
<1> DEFINE gaps == {L - k : k \in S}
<1>1. gaps \subseteq Nat /\ gaps # {}
  <2>1. \A k \in S : k \in 1 .. L
    OBVIOUS
  <2>2. \A k \in S : L - k \in Nat
    BY <2>1
  <2> QED BY <2>2
<1>2. PICK g \in gaps : \A j \in gaps : g <= j
  <2> HIDE DEF gaps
  <2> QED BY <1>1, NatLeast
<1>3. PICK k \in S : g = L - k
  OBVIOUS
<1>4. ASSUME NEW j \in S PROVE k >= j
  <2>1. j \in 1 .. L /\ k \in 1 .. L /\ L - j \in gaps
    OBVIOUS
  <2>2. L - k <= L - j
    BY <1>2, <1>3, <2>1
  <2> QED BY <2>1, <2>2
<1> QED BY <1>4 DEF Max

\* What stands before the first of some phrases is a piece.
LEMMA BeforeIsAPiece ==
  ASSUME NEW W, NEW text \in Seq(W), NEW phrases
  PROVE  Before(text, phrases) \in SubSeqs(text)
<1> DEFINE at == {n \in DOMAIN text : \E p \in phrases : IsPrefix(p, SubSeq(text, n, Len(text)))}
<1>1. CASE at = {}
  BY <1>1, Itself DEF Before
<1>2. CASE at # {}
  <2>1. at \subseteq Nat /\ at \subseteq 1 .. Len(text)
    OBVIOUS
  <2>2. Before(text, phrases) = SubSeq(text, 1, Min(at) - 1)
    BY <1>2 DEF Before
  <2> HIDE DEF at
  <2>3. Min(at) \in 1 .. Len(text)
    BY <1>2, <2>1, LeastIs
  <2>4. Min(at) - 1 \in 0 .. Len(text) /\ 1 \in 1 .. Len(text) + 1
    BY <2>3
  <2> QED BY <2>2, <2>4, SubSeqIsAPiece
<1> QED BY <1>1, <1>2

\* So is a practice from its first word of substance on.
LEMMA SubstanceIsAPiece ==
  ASSUME NEW W, NEW text \in Seq(W)
  PROVE  Substance(text) \in SubSeqs(text)
<1> DEFINE rest == {n \in DOMAIN text : text[n] \notin STRUCTURAL}
<1>1. CASE ToSet(text) \subseteq STRUCTURAL \cup {"and", "&", "the", "of", "its"}
  <2>1. Substance(text) = <<>>
    BY <1>1 DEF Substance
  <2> QED BY <2>1, NothingIsAPiece
<1>2. CASE ~(ToSet(text) \subseteq STRUCTURAL \cup {"and", "&", "the", "of", "its"})
  <2>1. Substance(text) = SubSeq(text, 1, Max(rest))
    BY <1>2 DEF Substance
  <2>2. rest # {} /\ rest \subseteq 1 .. Len(text)
    BY <1>2 DEF ToSet
  <2> HIDE DEF rest
  <2>3. Max(rest) \in 1 .. Len(text)
    <3>1. Len(text) \in Nat
      OBVIOUS
    <3> QED BY <2>2, <3>1, GreatestIs
  <2>4. Max(rest) \in 0 .. Len(text) /\ 1 \in 1 .. Len(text) + 1
    BY <2>3
  <2> QED BY <2>1, <2>4, SubSeqIsAPiece
<1> QED BY <1>1, <1>2

\* A practice is a piece of the words it is read from.
LEMMA CleanPracticeIsAPiece ==
  ASSUME NEW W, NEW raw \in Seq(W)
  PROVE  clean_practice(raw) \in SubSeqs(raw)
<1> DEFINE before == Before(raw, {<<"and", w>> : w \in {"a", "an", "the", "its"}})
           one == Unless(before, {"of", "in", "on", "for", "to", "at", "the", "its", "a", "an", "new"})
           two == Unless(one, {"the", "its", "a", "an"})
<1>1. clean_practice(raw) = Substance(two)
  BY DEF clean_practice
<1>2. before \in SubSeqs(raw) /\ before \in Seq(W)
  BY BeforeIsAPiece, PiecesStand
<1> HIDE DEF before
<1>3. one \in SubSeqs(before)
  BY <1>2, UnlessIsAPiece
<1> HIDE DEF one
<1>4. one \in SubSeqs(raw) /\ one \in Seq(W)
  BY <1>2, <1>3, PieceOfAPiece, PiecesStand
<1>5. two \in SubSeqs(one)
  BY <1>4, UnlessIsAPiece
<1> HIDE DEF two
<1>6. two \in SubSeqs(raw) /\ two \in Seq(W)
  BY <1>4, <1>5, PieceOfAPiece, PiecesStand
<1>7. Substance(two) \in SubSeqs(two)
  BY <1>6, SubstanceIsAPiece
<1> QED BY <1>1, <1>6, <1>7, PieceOfAPiece

\* The first of some results that is not rejected is one of them, or nothing.
LEMMA FirstButIs ==
  ASSUME NEW L \in Nat, NEW Items, NEW found, DOMAIN found = 1 .. L, \A n \in 1 .. L : found[n] \in Items,
         NEW rejected
  PROVE  FirstBut(rejected, found) \in Items \cup {<<>>}
<1> DEFINE at == {n \in DOMAIN found : found[n] \notin rejected}
<1>1. CASE at = {}
  BY <1>1 DEF FirstBut
<1>2. CASE at # {}
  <2>1. FirstBut(rejected, found) = found[Min(at)]
    BY <1>2 DEF FirstBut
  <2>2. at \subseteq Nat /\ at \subseteq 1 .. L
    OBVIOUS
  <2> HIDE DEF at
  <2>3. Min(at) \in 1 .. L
    BY <1>2, <2>2, LeastIs
  <2> QED BY <2>1, <2>3
<1> QED BY <1>1, <1>2

\* What the templates for practices find is a piece of the sentence.
LEMMA PracticeIsAPiece ==
  ASSUME NEW W, NEW text \in Seq(W), NEW title
  PROVE  Practice(BODY_PRACTICE, text, title) \in SubSeqs(text)
<1> DEFINE matches == Matches(BODY_PRACTICE, text)
           found == Practices(BODY_PRACTICE, text, matches)
<1>1. IsTemplate(BODY_PRACTICE) /\ HasSlot(BODY_PRACTICE, "practice")
  BY BodyTemplatesAre
<1>2. matches \in Seq(MatchesOf(BODY_PRACTICE, text))
  BY <1>1, MatchesAre
<1> HIDE DEF matches
<1>3. Len(matches) \in Nat /\ DOMAIN found = 1 .. Len(matches)
  BY <1>2 DEF Practices
<1>4. ASSUME NEW n \in 1 .. Len(matches) PROVE found[n] \in SubSeqs(text)
  <2> DEFINE span == Span(BODY_PRACTICE, matches[n], "practice")
  <2>1. matches[n] \in MatchesOf(BODY_PRACTICE, text)
    BY <1>2
  <2>2. span \in SpansOf(text)
    BY <1>1, <2>1, SlotIsASpan
  <2>3. found[n] = clean_practice(Cut(text, span))
    BY <1>2 DEF Practices
  <2> HIDE DEF span
  <2> DEFINE cut == Cut(text, span)
  <2>4. cut \in Seq(W) /\ Stands(cut, text, span.start - 1)
    BY <2>2, CutStands
  <2>5. span.start - 1 \in 0 .. Len(text)
    BY <2>2 DEF SpansOf, After
  <2> HIDE DEF cut
  <2>6. cut \in SubSeqs(text)
    BY <2>4, <2>5, PiecesStand
  <2>7. clean_practice(cut) \in SubSeqs(cut)
    BY <2>4, CleanPracticeIsAPiece
  <2> QED BY <2>3, <2>6, <2>7, PieceOfAPiece DEF cut
<1>5. Practice(BODY_PRACTICE, text, title) = FirstBut({<<>>} \cup SubSeqs(title), found)
  BY DEF Practice, matches
<1> HIDE DEF found
<1>6. FirstBut({<<>>} \cup SubSeqs(title), found) \in SubSeqs(text) \cup {<<>>}
  BY <1>3, <1>4, FirstButIs
<1> QED BY <1>5, <1>6, NothingIsAPiece

\* The sentences of a body are spans of it.
LEMMA SentencesAre ==
  ASSUME NEW W, NEW body \in Seq(W)
  PROVE  Sentences(body) \in Seq(SpansOf(body))
<1> DEFINE ends == {n \in DOMAIN body : n = Len(body) \/ (body[n] = "." /\ body[n + 1] \in Capital)}
           stops(n) == {m \in ends : m >= n}
           sentence(n) == [start |-> n, end |-> Min(stops(n)) + 1]
           some == [n \in DOMAIN body |-> IF n = 1 \/ n - 1 \in ends THEN <<sentence(n)>> ELSE <<>>]
<1>1. Len(body) \in Nat /\ DOMAIN body = 1 .. Len(body)
  OBVIOUS
<1>2. Sentences(body) = FlattenSeq(some)
  BY DEF Sentences
<1>3. ASSUME NEW n \in 1 .. Len(body) PROVE sentence(n) \in SpansOf(body)
  <2>1. ends \subseteq 1 .. Len(body) /\ Len(body) \in ends
    BY <1>1
  <2> HIDE DEF ends
  <2>2. \A m \in stops(n) : m \in 1 .. Len(body) /\ m >= n
    BY <2>1
  <2>3. Len(body) \in stops(n)
    BY <1>1, <2>1
  <2> HIDE DEF stops
  <2>4. stops(n) \subseteq Nat /\ stops(n) # {}
    BY <2>2, <2>3
  <2>5. Min(stops(n)) \in stops(n)
    BY <2>4, LeastIs
  <2>6. Min(stops(n)) \in n .. Len(body)
    BY <2>2, <2>5
  <2> QED BY <1>1, <2>6 DEF SpansOf, After
<1> HIDE DEF sentence
<1>4. \A n \in 1 .. Len(body) : some[n] \in Seq(SpansOf(body))
  BY <1>1, <1>3
<1>5. some = [n \in 1 .. Len(body) |-> some[n]]
  BY <1>1
<1> HIDE DEF some
<1>6. FlattenSeq([n \in 1 .. Len(body) |-> some[n]]) \in Seq(SpansOf(body))
  BY <1>1, <1>4, ChosenAre
<1> QED BY <1>2, <1>5, <1>6

\* What practice_for finds for a person is a piece of the body, or nothing.
LEMMA PracticeForIsAPiece ==
  ASSUME NEW W, NEW body \in Seq(W), NEW person
  PROVE  practice_for(person, body) \in SubSeqs(body)
<1> DEFINE spans == Sentences(body)
           texts == Texts(body, spans)
           about == About(person, body)
           found == PracticesIn(about)
<1>1. texts \in Seq(SubSeqs(body))
  <2>1. spans \in Seq(SpansOf(body))
    BY SentencesAre
  <2> HIDE DEF spans
  <2>2. Len(spans) \in Nat /\ texts = [n \in 1 .. Len(spans) |-> Cut(body, spans[n])]
    BY <2>1 DEF Texts
  <2>3. \A n \in 1 .. Len(spans) : Cut(body, spans[n]) \in SubSeqs(body)
    BY <2>1, CutIsAPiece
  <2> QED BY <2>2, <2>3
<1>2. about \in Seq(SubSeqs(body))
  <2>1. about = Where(texts, {n \in DOMAIN texts : Mentioned(person, texts[n])})
    BY DEF About, AboutIn
  <2> HIDE DEF texts
  <2> QED BY <1>1, <2>1, WhereIs
<1> HIDE DEF about
<1>3. Len(about) \in Nat /\ DOMAIN found = 1 .. Len(about)
  BY <1>2 DEF PracticesIn
<1>4. ASSUME NEW n \in 1 .. Len(about) PROVE found[n] \in SubSeqs(body)
  <2>1. about[n] \in SubSeqs(body)
    BY <1>2
  <2>2. about[n] \in Seq(W)
    BY <2>1, PiecesStand
  <2>3. found[n] = Practice(BODY_PRACTICE, about[n], <<>>)
    BY <1>2 DEF PracticesIn
  <2>4. Practice(BODY_PRACTICE, about[n], <<>>) \in SubSeqs(about[n])
    BY <2>2, PracticeIsAPiece
  <2> QED BY <2>1, <2>3, <2>4, PieceOfAPiece
<1>5. practice_for(person, body) = FirstBut({<<>>}, found)
  BY DEF practice_for, about
<1> HIDE DEF found
<1>6. FirstBut({<<>>}, found) \in SubSeqs(body) \cup {<<>>}
  BY <1>3, <1>4, FirstButIs
<1> QED BY <1>5, <1>6, NothingIsAPiece

\* Where a piece is first found, it stands.
LEMMA FoundStands ==
  ASSUME NEW W, NEW text \in Seq(W), NEW words \in SubSeqs(text)
  PROVE  \E at \in 0 .. Len(text) : IndexFirstSubSeq(words, text) = at + 1 /\ Stands(words, text, at)
<1> DEFINE upto(i) == SubSeq(text, 1, i)
           Holding == {i \in 0 .. Len(text) : words \in SubSeqs(upto(i))}
           last == CHOOSE i \in 0 .. Len(text) :
                     words \in SubSeqs(upto(i)) /\ \A j \in 0 .. i - 1 : words \notin SubSeqs(upto(j))
<1>1. words \in Seq(W) /\ Len(words) \in Nat /\ Len(text) \in Nat
  BY PiecesStand
<1>2. \A i \in 0 .. Len(text) : /\ upto(i) \in Seq(W) /\ Len(upto(i)) = i
                                /\ \A k \in 1 .. i : upto(i)[k] = text[k]
  BY <1>1
<1>3. upto(Len(text)) = text
  OBVIOUS
<1> HIDE DEF upto
<1>4. Len(text) \in Holding /\ Holding \subseteq Nat
  BY <1>1, <1>3
<1>5. PICK i \in Holding : \A j \in Holding : i <= j
  <2> HIDE DEF Holding
  <2> QED BY <1>4, NatLeast
<1>6. i \in 0 .. Len(text) /\ words \in SubSeqs(upto(i)) /\ \A j \in 0 .. i - 1 : words \notin SubSeqs(upto(j))
  <2>1. ASSUME NEW j \in 0 .. i - 1 PROVE words \notin SubSeqs(upto(j))
    <3>1. j \in 0 .. Len(text) /\ ~(i <= j)
      BY <1>1
    <3>2. j \notin Holding
      BY <1>5, <3>1
    <3> QED BY <3>1, <3>2
  <2> QED BY <2>1
<1>7. last \in 0 .. Len(text) /\ words \in SubSeqs(upto(last)) /\ \A j \in 0 .. last - 1 : words \notin SubSeqs(upto(j))
  BY <1>6
<1>8. IndexFirstSubSeq(words, text) = last - (Len(words) - 1)
  BY DEF IndexFirstSubSeq, upto
<1> HIDE DEF last
<1>9. PICK at \in 0 .. Len(upto(last)) : Stands(words, upto(last), at)
  BY <1>2, <1>7, PiecesStand
<1>10. at \in Nat /\ at + Len(words) <= last /\ \A k \in 1 .. Len(words) : words[k] = text[at + k]
  <2>1. at \in Nat /\ at + Len(words) <= last /\ \A k \in 1 .. Len(words) : words[k] = upto(last)[at + k]
    BY <1>2, <1>7, <1>9 DEF Stands
  <2>2. \A k \in 1 .. Len(words) : at + k \in 1 .. last
    BY <1>1, <1>7, <2>1
  <2> QED BY <1>2, <1>7, <2>1, <2>2
<1>11. at + Len(words) = last
  <2> SUFFICES ASSUME at + Len(words) # last PROVE FALSE
    OBVIOUS
  <2> DEFINE j == last - 1
  <2>1. j \in 0 .. last - 1 /\ j \in 0 .. Len(text) /\ at + Len(words) <= j
    BY <1>1, <1>7, <1>10
  <2> HIDE DEF j
  <2>2. \A k \in 1 .. Len(words) : words[k] = upto(j)[at + k]
    <3>1. \A k \in 1 .. Len(words) : at + k \in 1 .. j
      BY <1>1, <1>10, <2>1
    <3> QED BY <1>2, <1>10, <2>1, <3>1
  <2>3. Stands(words, upto(j), at) /\ at \in 0 .. Len(upto(j))
    BY <1>1, <1>2, <1>10, <2>1, <2>2 DEF Stands
  <2>4. words \in SubSeqs(upto(j))
    BY <1>1, <1>2, <2>1, <2>3, PiecesStand
  <2> QED BY <1>7, <2>1, <2>4
<1>12. IndexFirstSubSeq(words, text) = at + 1
  <2>1. last \in Nat
    BY <1>1, <1>7
  <2>2. last - (Len(words) - 1) = at + 1
    BY <1>1, <1>10, <1>11, <2>1
  <2> QED BY <1>8, <2>2
<1>13. at \in 0 .. Len(text) /\ Stands(words, text, at)
  BY <1>1, <1>7, <1>10 DEF Stands
<1> QED BY <1>12, <1>13

-----------------------------------------------------------------------------
(* Items.                                                                   *)

\* What an item is made of.
IsItem(it) == it.headline \in Seq(Printed) /\ it.body \in Seq(Printed)

\* The line that is matched begins the text; the body stands behind the line break.
LEMMA TextIs ==
  ASSUME NEW it, IsItem(it)
  PROVE  /\ Text(it) \in Seq(Printed) /\ Headline(it) \in Seq(Printed)
         /\ Stands(Headline(it), Text(it), 0)
         /\ Headline(it) = it.headline /\ it.body # <<>> => Stands(it.body, Text(it), Offset(it))
         /\ Offset(it) \in Nat
<1> DEFINE line == it.headline
           body == it.body
           tail == IF body = <<>> THEN <<>> ELSE <<Break>> \o body
<1>1. line \in Seq(Printed) /\ body \in Seq(Printed) /\ Break \in Printed
  BY DEF IsItem, Printed
<1>2. Text(it) = line \o tail
  BY DEF Text
<1> HIDE DEF line, body
<1>3. tail \in Seq(Printed)
  BY <1>1
<1> HIDE DEF tail
<1>4. /\ Text(it) \in Seq(Printed) /\ Len(Text(it)) = Len(line) + Len(tail)
      /\ \A k \in 1 .. Len(line) : Text(it)[k] = line[k]
      /\ \A k \in 1 .. Len(tail) : Text(it)[Len(line) + k] = tail[k]
  <2>1. \A k \in 1 .. Len(tail) : Len(line) + k \in Len(line) + 1 .. Len(line) + Len(tail)
    BY <1>1, <1>3
  <2> QED BY <1>1, <1>2, <1>3, <2>1
<1>5. Headline(it) \in Seq(Printed) /\ Stands(Headline(it), line, 0)
  <2>1. CASE line # <<>> /\ Last(line) = "."
    <3>1. Headline(it) = SubSeq(line, 1, Len(line) - 1)
      BY <2>1 DEF Headline, Front, line
    <3>2. Len(line) - 1 \in 0 .. Len(line)
      BY <1>1, <2>1
    <3> QED BY <1>1, <3>1, <3>2 DEF Stands
  <2>2. CASE ~(line # <<>> /\ Last(line) = ".")
    <3>1. Headline(it) = line
      BY <2>2 DEF Headline, line
    <3> QED BY <1>1, <3>1 DEF Stands
  <2> QED BY <2>1, <2>2
<1>6. Stands(Headline(it), Text(it), 0)
  <2>1. Stands(line, Text(it), 0)
    BY <1>1, <1>3, <1>4 DEF Stands
  <2>2. Stands(Headline(it), Text(it), 0 + 0)
    BY <1>1, <1>4, <1>5, <2>1, StandsWithin
  <2> QED BY <2>2
<1>7. ASSUME Headline(it) = it.headline, it.body # <<>>
      PROVE  Stands(it.body, Text(it), Offset(it))
  <2>1. Offset(it) = Len(line) + 1
    BY <1>7 DEF Offset, line
  <2>2. /\ tail = <<Break>> \o body /\ Len(tail) = Len(body) + 1
        /\ \A k \in 1 .. Len(body) : tail[k + 1] = body[k]
    <3>1. tail = <<Break>> \o body
      BY <1>7 DEF tail, body
    <3> QED BY <1>1, <3>1
  <2>3. \A k \in 1 .. Len(body) : body[k] = Text(it)[Len(line) + 1 + k]
    <3>1. \A k \in 1 .. Len(body) : k + 1 \in 1 .. Len(tail) /\ Len(line) + (k + 1) = Len(line) + 1 + k
      BY <1>1, <2>2
    <3> QED BY <1>4, <2>2, <3>1
  <2>4. Len(line) + 1 \in Nat /\ Len(line) + 1 + Len(body) <= Len(Text(it))
    BY <1>1, <1>4, <2>2
  <2> QED BY <2>1, <2>3, <2>4 DEF Stands, body
<1>8. Offset(it) \in Nat
  BY <1>5 DEF Offset
<1> QED BY <1>4, <1>5, <1>6, <1>7, <1>8

\* What is cited from the beginning of a text is cited from the text.
LEMMA LongerText ==
  ASSUME NEW text \in Seq(Printed), NEW head \in Seq(Printed), Stands(head, text, 0), NEW field,
         IsCited(head, field)
  PROVE  IsCited(text, field)
<1>1. Len(head) \in Nat /\ Len(text) \in Nat /\ Len(head) <= Len(text)
  BY DEF Stands
<1>2. PICK at \in 0 .. Len(head) :
        Stands(field.value, head, at) /\ field.start <= at + 1 /\ at + Len(field.value) < field.end
  BY DEF IsCited
<1>3. field.value \in Seq(Printed) /\ field.start \in After(head) /\ field.end \in After(head)
  BY DEF IsCited
<1>4. Stands(field.value, text, 0 + at)
  BY <1>2, <1>3, StandsWithin
<1>5. 0 + at = at /\ at \in 0 .. Len(text)
  BY <1>1
<1>6. field.start \in After(text) /\ field.end \in After(text)
  BY <1>1, <1>3 DEF After
<1> QED BY <1>2, <1>3, <1>4, <1>5, <1>6 DEF IsCited

\* What stands in the body is cited from the offset on.
LEMMA BodyWordsAreCited ==
  ASSUME NEW it, IsItem(it), Headline(it) = it.headline, it.body # <<>>,
         NEW words \in Seq(Printed), NEW at, Stands(words, it.body, at), NEW exact
  PROVE  IsCited(Text(it), Field(words, Offset(it) + (at + 1), Offset(it) + (at + 1) + Len(words), exact))
<1> DEFINE text == Text(it)
           base == Offset(it)
<1>1. /\ text \in Seq(Printed) /\ it.body \in Seq(Printed) /\ base \in Nat
      /\ Stands(it.body, text, base)
  BY TextIs DEF IsItem
<1> HIDE DEF text, base
<1>2. Stands(words, text, base + at)
  BY <1>1, StandsWithin
<1>3. Len(words) \in Nat /\ at \in Nat /\ base + at + Len(words) <= Len(text) /\ Len(text) \in Nat
  BY <1>1, <1>2 DEF Stands
<1>4. base + at \in 0 .. Len(text)
  BY <1>1, <1>3
<1>5. /\ base + (at + 1) \in After(text) /\ base + (at + 1) + Len(words) \in After(text)
      /\ base + (at + 1) <= base + at + 1 /\ base + at + Len(words) < base + (at + 1) + Len(words)
  BY <1>1, <1>3 DEF After
<1> QED BY <1>2, <1>4, <1>5 DEF IsCited, Field, text, base

\* The practice added from the body is cited where it first stands there.
LEMMA PracticeFieldIsCited ==
  ASSUME NEW it, IsItem(it), Headline(it) = it.headline, NEW practice \in SubSeqs(it.body), practice # <<>>
  PROVE  IsCited(Text(it), PracticeField(it, practice))
<1>1. it.body \in Seq(Printed)
  BY DEF IsItem
<1>2. practice \in Seq(Printed)
  BY <1>1, PiecesStand
<1>3. PICK at \in 0 .. Len(it.body) :
        IndexFirstSubSeq(practice, it.body) = at + 1 /\ Stands(practice, it.body, at)
  BY <1>1, FoundStands
<1>4. it.body # <<>>
  <2>1. Len(practice) # 0 /\ Len(practice) \in Nat /\ at \in Nat /\ at + Len(practice) <= Len(it.body)
    BY <1>2, <1>3 DEF Stands
  <2> QED BY <2>1
<1>5. PracticeField(it, practice)
        = Field(practice, Offset(it) + (at + 1), Offset(it) + (at + 1) + Len(practice), TRUE)
  BY <1>3 DEF PracticeField
<1> QED BY <1>2, <1>3, <1>4, <1>5, BodyWordsAreCited

-----------------------------------------------------------------------------
(* What is found in a sentence.                                             *)

\* What is found in a text: at a span of it, and its origin spelt in it.
IsHit(hit, text) == hit.span \in SpansOf(text) /\ (hit.from # Unknown => Tells(text, hit.from))

Spanned(hits, text) == hits \in Seq(ToSet(hits)) /\ \A n \in DOMAIN hits : IsHit(hits[n], text)

\* A piece of a piece is spelt in the text too.
LEMMA ToldWithin ==
  ASSUME NEW W, NEW text \in Seq(W), NEW piece \in SubSeqs(text), NEW firm, Tells(piece, firm)
  PROVE  Tells(text, firm)
<1>1. PICK words \in SubSeqs(piece) : firm = resolve(words)
  BY DEF Tells
<1>2. words \in SubSeqs(text)
  BY PieceOfAPiece
<1> QED BY <1>1, <1>2 DEF Tells

\* The firm that a text begins with is spelt in it.
LEMMA LeadingIsTold ==
  ASSUME NEW W, NEW text \in Seq(W)
  PROVE  resolve_leading_firm(text) # Unknown => Tells(text, resolve_leading_firm(text))
<1> DEFINE L == Len(text)
           firms == [n \in 1 .. L |-> resolve(SubSeq(text, 1, n))]
           known == {n \in DOMAIN firms : firms[n] # Unknown}
<1>1. resolve_leading_firm(text) = LastKnown(firms) /\ L \in Nat
  BY DEF resolve_leading_firm
<1>2. known \subseteq 1 .. L /\ \A n \in 1 .. L : firms[n] = resolve(SubSeq(text, 1, n))
  OBVIOUS
<1>3. LastKnown(firms) = IF known = {} THEN Unknown ELSE firms[Max(known)]
  BY DEF LastKnown
<1> HIDE DEF firms, known
<1>4. ASSUME known # {} PROVE Tells(text, LastKnown(firms))
  <2>1. Max(known) \in 1 .. L
    BY <1>1, <1>2, <1>4, GreatestIs
  <2>2. LastKnown(firms) = resolve(SubSeq(text, 1, Max(known)))
    BY <1>2, <1>3, <1>4, <2>1
  <2>3. SubSeq(text, 1, Max(known)) \in SubSeqs(text)
    <3>1. 1 \in 1 .. Len(text) + 1 /\ Max(known) \in 0 .. Len(text)
      BY <2>1
    <3> QED BY <3>1, SubSeqIsAPiece
  <2> QED BY <2>2, <2>3 DEF Tells
<1> QED BY <1>1, <1>3, <1>4

\* So is the firm that a template finds in it.
LEMMA SlotIsTold ==
  ASSUME NEW parts, IsTemplate(parts), HasSlot(parts, "firm_b"), NEW W, NEW text \in Seq(W),
         NEW match \in MatchesOf(parts, text)
  PROVE  LET firm == resolve_leading_firm(Cut(text, Span(parts, match, "firm_b")))
         IN  firm # Unknown => Tells(text, firm)
<1> DEFINE cut == Cut(text, Span(parts, match, "firm_b"))
<1>1. Span(parts, match, "firm_b") \in SpansOf(text)
  BY SlotIsASpan
<1>2. cut \in SubSeqs(text) /\ cut \in Seq(W)
  BY <1>1, CutIsAPiece, CutStands
<1> HIDE DEF cut
<1>3. resolve_leading_firm(cut) # Unknown => Tells(cut, resolve_leading_firm(cut))
  BY <1>2, LeadingIsTold
<1>4. resolve_leading_firm(cut) # Unknown => Tells(text, resolve_leading_firm(cut))
  BY <1>2, <1>3, ToldWithin
<1> QED BY <1>4 DEF cut

\* Items that each lie at a span make a sequence that does.
LEMMA SpannedIs ==
  ASSUME NEW text, NEW Items, \A h \in Items : IsHit(h, text), NEW hits \in Seq(Items)
  PROVE  Spanned(hits, text)
<1>1. hits \in Seq(ToSet(hits))
  <2>1. hits \in [1 .. Len(hits) -> ToSet(hits)] /\ Len(hits) \in Nat
    BY DEF ToSet
  <2> QED BY <2>1
<1>2. \A n \in DOMAIN hits : hits[n] \in Items
  OBVIOUS
<1> QED BY <1>1, <1>2 DEF Spanned

\* Flattening keeps the spans.
LEMMA FlatSpanned ==
  ASSUME NEW text, NEW L \in Nat, NEW some, \A n \in 1 .. L : Spanned(some[n], text)
  PROVE  Spanned(FlattenSeq([n \in 1 .. L |-> some[n]]), text)
<1> DEFINE Items == {h \in UNION {ToSet(some[n]) : n \in 1 .. L} : IsHit(h, text)}
<1>1. ASSUME NEW n \in 1 .. L PROVE some[n] \in Seq(Items)
  <2>1. some[n] \in Seq(ToSet(some[n])) /\ \A k \in DOMAIN some[n] : IsHit(some[n][k], text)
    BY DEF Spanned
  <2>2. Len(some[n]) \in Nat /\ DOMAIN some[n] = 1 .. Len(some[n]) /\ some[n] = [k \in 1 .. Len(some[n]) |-> some[n][k]]
    BY <2>1
  <2>3. \A k \in 1 .. Len(some[n]) : some[n][k] \in ToSet(some[n])
    BY <2>2 DEF ToSet
  <2>4. \A k \in 1 .. Len(some[n]) : some[n][k] \in Items
    BY <2>1, <2>2, <2>3
  <2> HIDE DEF Items
  <2>5. some[n] \in [1 .. Len(some[n]) -> Items]
    BY <2>2, <2>4
  <2> QED BY <2>2, <2>5
<1>2. \A h \in Items : IsHit(h, text)
  OBVIOUS
<1> HIDE DEF Items
<1>3. FlattenSeq([n \in 1 .. L |-> some[n]]) \in Seq(Items)
  BY <1>1, ChosenAre
<1> QED BY <1>2, <1>3, SpannedIs

\* The matches of a template, each with the span of its person.
LEMMA MatchedSpanned ==
  ASSUME NEW parts, IsTemplate(parts), HasSlot(parts, "person"), NEW W, NEW text \in Seq(W),
         NEW hits, DOMAIN hits = DOMAIN Matches(parts, text),
         \A n \in DOMAIN hits : /\ hits[n].span = Span(parts, Matches(parts, text)[n], "person")
                                /\ hits[n].from # Unknown => Tells(text, hits[n].from)
  PROVE  hits = [n \in DOMAIN hits |-> hits[n]] => Spanned(hits, text)
<1> DEFINE matches == Matches(parts, text)
<1>1. matches \in Seq(MatchesOf(parts, text))
  BY MatchesAre
<1>2. Len(matches) \in Nat /\ DOMAIN matches = 1 .. Len(matches)
      /\ \A n \in 1 .. Len(matches) : matches[n] \in MatchesOf(parts, text)
  BY <1>1
<1>3. \A n \in DOMAIN hits : IsHit(hits[n], text)
  <2>1. \A n \in DOMAIN hits : hits[n].span \in SpansOf(text)
    BY <1>2, SlotIsASpan
  <2> HIDE DEF matches
  <2> QED BY <2>1 DEF IsHit
<1>4. ASSUME hits = [n \in DOMAIN hits |-> hits[n]] PROVE hits \in Seq(ToSet(hits))
  <2>1. \A n \in DOMAIN hits : hits[n] \in ToSet(hits)
    BY DEF ToSet
  <2> HIDE DEF matches
  <2>2. hits \in [1 .. Len(matches) -> ToSet(hits)]
    BY <1>2, <1>4, <2>1 DEF matches
  <2> QED BY <1>2, <2>2
<1> QED BY <1>3, <1>4 DEF Spanned

\* The hits of the templates with an origin lie at spans of the sentence.
LEMMA OriginsSpanned ==
  ASSUME NEW W, NEW sentence \in Seq(W)
  PROVE  Spanned(Origins(sentence), sentence)
<1> DEFINE some == [k \in DOMAIN WITH_ORIGIN |-> OriginHits(WITH_ORIGIN[k], sentence)]
           L == Len(WITH_ORIGIN)
<1>1. L \in Nat /\ DOMAIN WITH_ORIGIN = 1 .. L
  BY DEF WITH_ORIGIN
<1> HIDE DEF L
<1>2. ASSUME NEW k \in 1 .. L PROVE Spanned(some[k], sentence)
  <2> DEFINE parts == WITH_ORIGIN[k]
             matches == Matches(parts, sentence)
             hits == OriginsAt(parts, sentence, matches)
             positions == {n \in DOMAIN hits : hits[n].from # Unknown}
  <2>1. IsTemplate(parts) /\ HasSlot(parts, "person") /\ HasSlot(parts, "firm_b")
    BY <1>1, BodyTemplatesAre
  <2>2. some[k] = Where(hits, positions)
    BY <1>1 DEF OriginHits, Known
  <2> HIDE DEF parts
  <2>3. /\ DOMAIN hits = DOMAIN Matches(parts, sentence) /\ hits = [n \in DOMAIN hits |-> hits[n]]
        /\ \A n \in DOMAIN hits :
             /\ hits[n].span = Span(parts, Matches(parts, sentence)[n], "person")
             /\ hits[n].from = resolve_leading_firm(Cut(sentence, Span(parts, Matches(parts, sentence)[n], "firm_b")))
    BY DEF OriginsAt
  <2> HIDE DEF hits, positions
  <2>8. ASSUME NEW n \in DOMAIN hits PROVE hits[n].from # Unknown => Tells(sentence, hits[n].from)
    <3>1. Matches(parts, sentence) \in Seq(MatchesOf(parts, sentence))
      BY <2>1, MatchesAre
    <3>2. Matches(parts, sentence)[n] \in MatchesOf(parts, sentence)
      BY <2>3, <3>1
    <3> QED BY <2>1, <2>3, <3>2, SlotIsTold
  <2>4. Spanned(hits, sentence)
    BY <2>1, <2>3, <2>8, MatchedSpanned
  <2> DEFINE Items == {h \in ToSet(hits) : IsHit(h, sentence)}
  <2>5. hits \in Seq(Items)
    <3>1. \A n \in DOMAIN hits : hits[n] \in Items
      BY <2>4 DEF Spanned, ToSet
    <3>2. Len(hits) \in Nat /\ DOMAIN hits = 1 .. Len(hits)
      BY <2>4 DEF Spanned
    <3> HIDE DEF Items
    <3>3. hits \in [1 .. Len(hits) -> Items]
      BY <2>3, <3>1, <3>2
    <3> QED BY <3>2, <3>3
  <2>6. \A h \in Items : IsHit(h, sentence)
    OBVIOUS
  <2> HIDE DEF Items
  <2>7. Where(hits, positions) \in Seq(Items)
    BY <2>5, WhereIs
  <2> QED BY <2>2, <2>6, <2>7, SpannedIs
<1>3. Origins(sentence) = FlattenSeq(some) /\ some = [k \in 1 .. L |-> some[k]]
  BY <1>1 DEF Origins
<1> HIDE DEF some
<1>4. Spanned(FlattenSeq([k \in 1 .. L |-> some[k]]), sentence)
  BY <1>1, <1>2, FlatSpanned
<1> QED BY <1>3, <1>4

\* So do the hits of the templates without one.
LEMMA PlainSpanned ==
  ASSUME NEW W, NEW sentence \in Seq(W)
  PROVE  Spanned(PlainHits(sentence), sentence)
<1> DEFINE some == [k \in DOMAIN WITHOUT_ORIGIN |->
                      PlainAt(WITHOUT_ORIGIN[k], sentence, Matches(WITHOUT_ORIGIN[k], sentence))]
           L == Len(WITHOUT_ORIGIN)
<1>1. L \in Nat /\ DOMAIN WITHOUT_ORIGIN = 1 .. L
  BY DEF WITHOUT_ORIGIN
<1> HIDE DEF L
<1>2. ASSUME NEW k \in 1 .. L PROVE Spanned(some[k], sentence)
  <2> DEFINE parts == WITHOUT_ORIGIN[k]
             hits == PlainAt(parts, sentence, Matches(parts, sentence))
  <2>1. IsTemplate(parts) /\ HasSlot(parts, "person")
    BY <1>1, BodyTemplatesAre
  <2>2. some[k] = hits
    BY <1>1
  <2> HIDE DEF parts
  <2>3. /\ DOMAIN hits = DOMAIN Matches(parts, sentence) /\ hits = [n \in DOMAIN hits |-> hits[n]]
        /\ \A n \in DOMAIN hits : /\ hits[n].span = Span(parts, Matches(parts, sentence)[n], "person")
                                  /\ hits[n].from = Unknown
    BY DEF PlainAt
  <2> HIDE DEF hits
  <2> QED BY <2>1, <2>2, <2>3, MatchedSpanned
<1>3. PlainHits(sentence) = FlattenSeq(some) /\ some = [k \in 1 .. L |-> some[k]]
  BY <1>1 DEF PlainHits
<1> HIDE DEF some
<1>4. Spanned(FlattenSeq([k \in 1 .. L |-> some[k]]), sentence)
  BY <1>1, <1>2, FlatSpanned
<1> QED BY <1>3, <1>4

\* A name of a list is looked for in the sentence, and stands where it is found.
LEMMA ListedSpanned ==
  ASSUME NEW parts \in {NAME_LIST, NAME_LIST_AFTER_VERB}, NEW W, NEW sentence \in Seq(W)
  PROVE  Spanned(Listed(parts, sentence, Matches(parts, sentence)), sentence)
<1> DEFINE matches == Matches(parts, sentence)
           hits == Listed(parts, sentence, matches)
<1>1. IsTemplate(parts) /\ HasSlot(parts, "person")
  BY BodyTemplatesAre
<1>2. matches \in Seq(MatchesOf(parts, sentence))
  BY <1>1, MatchesAre
<1> HIDE DEF matches
<1>3. CASE matches = <<>>
  <2>1. hits = <<>>
    BY <1>3 DEF Listed
  <2> HIDE DEF hits
  <2> QED BY <2>1 DEF Spanned, matches, hits
<1>4. CASE matches # <<>>
  <2> DEFINE list == Span(parts, matches[1], "person")
             names == SplitNames(sentence, list)
  <2>1. matches[1] \in MatchesOf(parts, sentence)
    BY <1>2, <1>4
  <2>2. list \in SpansOf(sentence)
    BY <1>1, <2>1, SlotIsASpan
  <2>3. hits = ListedNames(sentence, names)
    BY <1>4 DEF Listed
  <2> HIDE DEF hits, list
  <2>4. names \in Seq(SpansIn(sentence, list))
    BY <2>2, NamesLieWithin
  <2> HIDE DEF names
  <2>5. /\ DOMAIN hits = DOMAIN names /\ hits = [n \in DOMAIN names |-> hits[n]]
        /\ \A n \in DOMAIN names :
             /\ hits[n].span = SpanAt(IndexFirstSubSeq(Cut(sentence, names[n]), sentence),
                                      names[n].end - names[n].start)
             /\ hits[n].from = Unknown
    BY <2>3 DEF ListedNames
  <2>6. ASSUME NEW n \in DOMAIN names PROVE hits[n].span \in SpansOf(sentence)
    <3> DEFINE span == names[n]
               words == Cut(sentence, span)
    <3>1. span \in SpansOf(sentence)
      BY <2>4 DEF SpansIn
    <3>2. words \in SubSeqs(sentence) /\ Len(words) = span.end - span.start /\ words \in Seq(W)
      BY <3>1, CutIsAPiece, CutStands
    <3>3. hits[n].span = SpanAt(IndexFirstSubSeq(words, sentence), span.end - span.start)
      BY <2>5
    <3> HIDE DEF words, span
    <3>4. PICK at \in 0 .. Len(sentence) :
            IndexFirstSubSeq(words, sentence) = at + 1 /\ Stands(words, sentence, at)
      BY <3>2, FoundStands
    <3>5. hits[n].span = [start |-> at + 1, end |-> at + 1 + Len(words)]
      BY <3>2, <3>3, <3>4 DEF SpanAt
    <3>6. Len(words) \in Nat /\ Len(sentence) \in Nat /\ at + Len(words) <= Len(sentence)
      BY <3>2, <3>4 DEF Stands
    <3> QED BY <3>5, <3>6 DEF SpansOf, After
  <2>7. hits \in Seq(ToSet(hits))
    <3>1. \A n \in DOMAIN names : hits[n] \in ToSet(hits)
      BY <2>5 DEF ToSet
    <3>2. Len(names) \in Nat /\ DOMAIN names = 1 .. Len(names)
      BY <2>4
    <3>3. hits \in [1 .. Len(names) -> ToSet(hits)]
      BY <2>5, <3>1, <3>2
    <3> QED BY <3>2, <3>3
  <2>8. \A n \in DOMAIN names : IsHit(hits[n], sentence)
    BY <2>5, <2>6 DEF IsHit
  <2> QED BY <2>5, <2>7, <2>8 DEF Spanned, hits, matches
<1> QED BY <1>3, <1>4

\* So does whatever is found in a sentence.
LEMMA HitsAreSpanned ==
  ASSUME NEW W, NEW sentence \in Seq(W)
  PROVE  Spanned(HitsIn(sentence), sentence)
BY ListedSpanned, OriginsSpanned, PlainSpanned DEF HitsIn, OrElse

-----------------------------------------------------------------------------
(* What is read in a body.                                                  *)

\* The sentences of a body.
TextsOf(body) == ToSet(Texts(body, Sentences(body)))

\* One sentence has both the name as printed and the origin.
Together(body, person, from) ==
  from # Unknown => \E sentence \in TextsOf(body) : person \in SubSeqs(sentence) /\ Tells(sentence, from)

\* A person that is reported where the name stands in the body, with an origin told there.
IsReported(body, hit) ==
  /\ hit.person \in Seq(Printed) /\ hit.start \in After(body) /\ Stands(hit.person, body, hit.start - 1)
  /\ Together(body, hit.person, hit.from)

\* The hits of a sentence stand in the body where the sentence does.
LEMMA PlacedAreReported ==
  ASSUME NEW body \in Seq(Printed), NEW sentence \in SpansOf(body), Cut(body, sentence) \in TextsOf(body)
  PROVE  LET placed == Placed(body, HitsIn(Cut(body, sentence)), sentence.start - 1)
         IN  placed \in Seq({h \in ToSet(placed) : IsReported(body, h)})
<1> DEFINE text == Cut(body, sentence)
           hits == HitsIn(text)
           base == sentence.start - 1
           placed == Placed(body, hits, base)
           span(n) == [start |-> base + hits[n].span.start, end |-> base + hits[n].span.end]
<1>1. text \in Seq(Printed) /\ Len(text) = sentence.end - sentence.start
  BY CutStands
<1>2. sentence.start \in 1 .. Len(body) + 1 /\ sentence.end \in 1 .. Len(body) + 1 /\ base \in Nat
  BY DEF SpansOf, After
<1>9. text \in TextsOf(body)
  OBVIOUS
<1> HIDE DEF text, hits, base
<1>3. Spanned(hits, text)
  BY <1>1, HitsAreSpanned DEF hits
<1>4. /\ DOMAIN placed = DOMAIN hits /\ placed = [n \in DOMAIN hits |-> placed[n]]
      /\ \A n \in DOMAIN hits : /\ placed[n].person = Cut(body, span(n)) /\ placed[n].start = span(n).start
                                /\ placed[n].from = hits[n].from
  BY DEF Placed
<1> HIDE DEF placed
<1>5. ASSUME NEW n \in DOMAIN hits PROVE IsReported(body, placed[n])
  <2>1. hits[n].span \in SpansOf(text) /\ (hits[n].from # Unknown => Tells(text, hits[n].from))
    BY <1>3 DEF Spanned, IsHit
  <2>2. /\ hits[n].span.start \in 1 .. Len(text) + 1 /\ hits[n].span.end \in 1 .. Len(text) + 1
        /\ hits[n].span.start <= hits[n].span.end
    BY <2>1 DEF SpansOf, After
  <2>3. /\ sentence.start \in Nat /\ sentence.end \in Nat /\ Len(body) \in Nat /\ 1 <= sentence.start
        /\ sentence.start <= sentence.end /\ sentence.end <= Len(body) + 1
    BY DEF SpansOf, After
  <2>4. span(n) \in SpansOf(body)
    <3> DEFINE length == sentence.end - sentence.start
    <3>1. hits[n].span.start \in 1 .. length + 1 /\ hits[n].span.end \in 1 .. length + 1
      BY <1>1, <2>2
    <3>2. /\ base + hits[n].span.start \in 1 .. Len(body) + 1
          /\ base + hits[n].span.end \in 1 .. Len(body) + 1
      BY <2>3, <3>1, FromTheText DEF base
    <3>3. base + hits[n].span.start <= base + hits[n].span.end
      BY <1>2, <2>2
    <3> QED BY <3>1, <3>2, <3>3 DEF SpansOf, After
  <2>7. /\ span(n).start - 1 = base + hits[n].span.start - 1
        /\ span(n).end - span(n).start = hits[n].span.end - hits[n].span.start
    BY <1>2, <2>2
  <2> HIDE DEF span
  <2>5. /\ Cut(body, span(n)) \in Seq(Printed) /\ Stands(Cut(body, span(n)), body, span(n).start - 1)
        /\ Len(Cut(body, span(n))) = span(n).end - span(n).start
    BY <2>4, CutStands
  <2>6. span(n).start \in After(body)
    BY <2>4 DEF SpansOf
  <2>8. Cut(body, span(n)) \in SubSeqs(text)
    <3> DEFINE words == Cut(body, span(n))
               at == span(n).start - 1
    <3>1. /\ Len(text) \in Nat /\ Len(text) = sentence.end - sentence.start /\ base = sentence.start - 1
          /\ hits[n].span.end <= Len(text) + 1 /\ 1 <= hits[n].span.start
          /\ hits[n].span.start \in Nat /\ hits[n].span.end \in Nat
      BY <1>1, <2>2 DEF base
    <3>2. at = base + hits[n].span.start - 1 /\ Len(words) = hits[n].span.end - hits[n].span.start
      BY <2>5, <2>7
    <3>3. sentence.start - 1 <= at /\ at + Len(words) <= sentence.end - 1
      <4> DEFINE start == sentence.start
                 end == sentence.end
                 first == hits[n].span.start
                 last == hits[n].span.end
      <4>1. /\ start \in Nat /\ end \in Nat /\ first \in Nat /\ last \in Nat /\ start <= end
            /\ 1 <= first /\ last <= end - start + 1
        BY <2>3, <3>1
      <4>2. at = start - 1 + first - 1 /\ Len(words) = last - first
        BY <3>1, <3>2
      <4> HIDE DEF start, end, first, last, words, at
      <4>3. start - 1 <= at /\ at + Len(words) <= end - 1
        BY <4>1, <4>2
      <4> QED BY <4>3 DEF start, end
    <3> HIDE DEF words, at
    <3>4. words \in Seq(Printed) /\ Stands(words, body, at)
      BY <2>5 DEF words, at
    <3>5. words \in SubSeqs(Cut(body, sentence))
      BY <3>3, <3>4, InCut
    <3> QED BY <3>5 DEF words, text
  <2>9. Together(body, placed[n].person, placed[n].from)
    BY <1>4, <1>9, <2>1, <2>8 DEF Together
  <2> QED BY <1>4, <2>5, <2>6, <2>9 DEF IsReported
<1>6. Len(hits) \in Nat /\ DOMAIN hits = 1 .. Len(hits)
  BY <1>3 DEF Spanned
<1> DEFINE Items == {h \in ToSet(placed) : IsReported(body, h)}
<1>7. \A n \in DOMAIN hits : placed[n] \in Items
  BY <1>4, <1>5 DEF ToSet
<1>8. placed \in Seq(Items)
  <2> HIDE DEF Items
  <2>1. placed \in [1 .. Len(hits) -> Items]
    BY <1>4, <1>6, <1>7
  <2> QED BY <1>6, <2>1
<1> QED BY <1>8 DEF placed, base, hits, text

\* So do the hits of the whole body.
LEMMA AllHitsAreReported ==
  ASSUME NEW body \in Seq(Printed)
  PROVE  AllHits(body) \in Seq({h \in ToSet(AllHits(body)) : IsReported(body, h)})
<1> DEFINE sentences == Sentences(body)
           L == Len(sentences)
           placed(n) == Placed(body, HitsIn(Cut(body, sentences[n])), sentences[n].start - 1)
           some == [n \in DOMAIN sentences |-> placed(n)]
           Items == {h \in UNION {ToSet(placed(n)) : n \in 1 .. L} : IsReported(body, h)}
           all == AllHits(body)
<1>1. sentences \in Seq(SpansOf(body))
  BY SentencesAre
<1>2. L \in Nat /\ DOMAIN sentences = 1 .. L /\ \A n \in 1 .. L : sentences[n] \in SpansOf(body)
  BY <1>1
<1>3. all = FlattenSeq(some)
  BY DEF AllHits, HitsOf
<1>13. \A n \in 1 .. L : Cut(body, sentences[n]) \in TextsOf(body)
  <2>1. \A n \in 1 .. L : n \in DOMAIN Texts(body, sentences) /\ Texts(body, sentences)[n] = Cut(body, sentences[n])
    BY <1>2 DEF Texts
  <2> HIDE DEF L
  <2>2. \A n \in 1 .. L : Texts(body, sentences)[n] \in ToSet(Texts(body, sentences))
    BY <2>1 DEF ToSet
  <2> QED BY <2>1, <2>2 DEF TextsOf
<1> HIDE DEF sentences, L
<1>4. ASSUME NEW n \in 1 .. L PROVE placed(n) \in Seq(Items)
  <2> DEFINE Here == {h \in ToSet(placed(n)) : IsReported(body, h)}
  <2>1. placed(n) \in Seq(Here)
    BY <1>2, <1>13, PlacedAreReported
  <2>2. Here \subseteq Items
    OBVIOUS
  <2> HIDE DEF placed, Here, Items
  <2> QED BY <2>1, <2>2
<1>5. \A h \in Items : IsReported(body, h)
  OBVIOUS
<1>6. some = [n \in 1 .. L |-> some[n]] /\ \A n \in 1 .. L : some[n] = placed(n)
  BY <1>2
<1> HIDE DEF Items, placed, some, all
<1>7. FlattenSeq([n \in 1 .. L |-> some[n]]) \in Seq(Items)
  BY <1>2, <1>4, <1>6, ChosenAre
<1>8. all \in Seq(Items)
  BY <1>3, <1>6, <1>7
<1> DEFINE Here == {h \in ToSet(all) : IsReported(body, h)}
<1>9. Len(all) \in Nat /\ all = [n \in 1 .. Len(all) |-> all[n]] /\ DOMAIN all = 1 .. Len(all)
  BY <1>8
<1>10. \A n \in 1 .. Len(all) : all[n] \in Here
  BY <1>5, <1>8, <1>9 DEF ToSet
<1> HIDE DEF Here
<1>11. all \in [1 .. Len(all) -> Here]
  BY <1>9, <1>10
<1>12. all \in Seq(Here)
  BY <1>9, <1>11
<1> QED BY <1>12 DEF Here, all

\* And those that are kept of them.
LEMMA BodyHitsAreReported ==
  ASSUME NEW body \in Seq(Printed)
  PROVE  LET hits == BodyHits(body)
         IN  Len(hits) \in Nat /\ DOMAIN hits = 1 .. Len(hits) /\ \A n \in 1 .. Len(hits) : IsReported(body, hits[n])
<1> DEFINE all == AllHits(body)
           Items == {h \in ToSet(all) : IsReported(body, h)}
           positions == {n \in DOMAIN all : \A m \in 1 .. n - 1 : all[m].person # all[n].person}
<1>1. all \in Seq(Items)
  BY AllHitsAreReported
<1>2. BodyHits(body) = Where(all, positions)
  BY DEF BodyHits, FirstOfEach
<1>3. \A h \in Items : IsReported(body, h)
  OBVIOUS
<1> HIDE DEF all, Items, positions
<1>4. BodyHits(body) \in Seq(Items)
  BY <1>1, <1>2, WhereIs
<1> QED BY <1>3, <1>4

-----------------------------------------------------------------------------
(* Where an origin comes from.                                              *)

\* The origin that origin_for finds in a sentence is spelt there.
LEMMA OriginIsSpelt ==
  ASSUME NEW W, NEW sentence \in Seq(W), OriginIn(sentence) # Unknown
  PROVE  Tells(sentence, OriginIn(sentence))
<1> DEFINE matches == Matches(FROM_FIRM, sentence)
           loose == LooseOrigin(sentence, matches)
           origins == Origins(sentence)
<1>1. loose # Unknown => Tells(sentence, loose)
  <2>1. IsTemplate(FROM_FIRM) /\ HasSlot(FROM_FIRM, "firm_b")
    BY BodyTemplatesAre
  <2>2. matches \in Seq(MatchesOf(FROM_FIRM, sentence))
    BY <2>1, MatchesAre
  <2> HIDE DEF matches
  <2>3. CASE matches = <<>>
    BY <2>3 DEF LooseOrigin
  <2>4. CASE matches # <<>>
    <3>1. matches[1] \in MatchesOf(FROM_FIRM, sentence)
      BY <2>2, <2>4
    <3>2. loose = resolve_leading_firm(Cut(sentence, Span(FROM_FIRM, matches[1], "firm_b")))
      BY <2>4 DEF LooseOrigin
    <3> HIDE DEF loose
    <3> QED BY <2>1, <3>1, <3>2, SlotIsTold
  <2> QED BY <2>3, <2>4
<1>2. OriginIn(sentence) = IF origins # <<>> THEN origins[1].from ELSE loose
  BY DEF OriginIn, OriginAmong
<1>3. Spanned(origins, sentence)
  BY OriginsSpanned
<1> HIDE DEF origins, loose
<1>4. origins # <<>> => (origins[1].from # Unknown => Tells(sentence, origins[1].from))
  <2>1. origins # <<>> => 1 \in DOMAIN origins
    BY <1>3 DEF Spanned
  <2> QED BY <1>3, <2>1 DEF Spanned, IsHit
<1> QED BY <1>1, <1>2, <1>4

\* What origin_for finds for a person is spelt in one sentence that mentions the person.
LEMMA OriginForIsTold ==
  ASSUME NEW body \in Seq(Printed), NEW person, origin_for(person, body) # Unknown
  PROVE  \E sentence \in TextsOf(body) :
           HasSurname(person, sentence) /\ Tells(sentence, origin_for(person, body))
<1> DEFINE spans == Sentences(body)
           texts == Texts(body, spans)
           about == About(person, body)
           found == OriginsIn(about)
           Those == {s \in TextsOf(body) : s \in Seq(Printed) /\ Mentioned(person, s)}
<1>1. texts \in Seq({s \in TextsOf(body) : s \in Seq(Printed)})
  <2>1. spans \in Seq(SpansOf(body))
    BY SentencesAre
  <2>2. TextsOf(body) = ToSet(texts)
    BY DEF TextsOf
  <2> HIDE DEF spans
  <2>3. Len(spans) \in Nat /\ texts = [n \in 1 .. Len(spans) |-> Cut(body, spans[n])]
    BY <2>1 DEF Texts
  <2> DEFINE Items == {s \in TextsOf(body) : s \in Seq(Printed)}
  <2>4. ASSUME NEW n \in 1 .. Len(spans) PROVE texts[n] \in Items
    <3>1. spans[n] \in SpansOf(body) /\ texts[n] = Cut(body, spans[n]) /\ n \in DOMAIN texts
      BY <2>1, <2>3
    <3>2. texts[n] \in Seq(Printed)
      BY <3>1, CutStands
    <3>3. texts[n] \in ToSet(texts)
      BY <3>1 DEF ToSet
    <3> QED BY <2>2, <3>2, <3>3
  <2> HIDE DEF Items
  <2>5. texts \in [1 .. Len(spans) -> Items]
    <3>1. texts = [n \in 1 .. Len(spans) |-> texts[n]]
      BY <2>3
    <3> QED BY <2>4, <3>1
  <2>6. texts \in Seq(Items)
    BY <2>3, <2>5
  <2> QED BY <2>6 DEF Items
<1>2. about \in Seq(Those)
  <2>1. about = Where(texts, {n \in DOMAIN texts : Mentioned(person, texts[n])})
    BY DEF About, AboutIn
  <2> HIDE DEF texts
  <2>2. \A n \in DOMAIN texts : Mentioned(person, texts[n]) => texts[n] \in Those
    BY <1>1
  <2> HIDE DEF Those
  <2> QED BY <1>1, <2>1, <2>2, ChosenIs
<1> HIDE DEF about, Those
<1>3. Len(about) \in Nat /\ DOMAIN found = 1 .. Len(about)
      /\ \A n \in 1 .. Len(about) : about[n] \in Those /\ found[n] = OriginIn(about[n])
  BY <1>2 DEF OriginsIn
<1>4. origin_for(person, body) = FirstBut({Unknown}, found)
  BY DEF origin_for, about
<1> HIDE DEF found
<1>5. \A n \in 1 .. Len(about) : found[n] \in {OriginIn(s) : s \in Those}
  BY <1>3
<1>6. FirstBut({Unknown}, found) \in {OriginIn(s) : s \in Those} \cup {<<>>}
  BY <1>3, <1>5, FirstButIs
<1>7. PICK s \in Those : origin_for(person, body) = OriginIn(s)
  BY <1>4, <1>6 DEF Unknown
<1>8. s \in TextsOf(body) /\ s \in Seq(Printed) /\ Mentioned(person, s)
  BY DEF Those
<1>9. Tells(s, OriginIn(s))
  BY <1>7, <1>8, OriginIsSpelt
<1> QED BY <1>7, <1>8, <1>9 DEF HasSurname, Mentioned

\* An origin that stands in one sentence with the printed name stands there with the surname.
LEMMA TogetherIsTold ==
  ASSUME NEW body \in Seq(Printed), NEW printed \in Seq(Printed), NEW from, from # Unknown,
         Together(body, printed, from), looks_like_a_person(Cleaned(printed))
  PROVE  \E sentence \in TextsOf(body) : HasSurname(Cleaned(printed), sentence) /\ Tells(sentence, from)
<1> DEFINE person == Cleaned(printed)
<1>1. PICK sentence \in TextsOf(body) : printed \in SubSeqs(sentence) /\ Tells(sentence, from)
  BY DEF Together
<1>2. sentence \in Seq(Printed)
  <2>1. Sentences(body) \in Seq(SpansOf(body))
    BY SentencesAre
  <2>2. DOMAIN Texts(body, Sentences(body)) = DOMAIN Sentences(body)
        /\ \A n \in DOMAIN Sentences(body) : Texts(body, Sentences(body))[n] = Cut(body, Sentences(body)[n])
    BY DEF Texts
  <2>3. PICK n \in DOMAIN Sentences(body) : sentence = Cut(body, Sentences(body)[n])
    BY <1>1, <2>2 DEF TextsOf, ToSet
  <2>4. Sentences(body)[n] \in SpansOf(body)
    BY <2>1, <2>3
  <2> QED BY <2>3, <2>4, CutStands
<1>3. person \in SubSeqs(printed)
  BY CleanedIsAPiece
<1>4. Len(person) \in 2 .. 4
  BY DEF looks_like_a_person
<1> HIDE DEF person
<1>5. person \in SubSeqs(sentence)
  BY <1>1, <1>2, <1>3, PieceOfAPiece
<1>6. PICK at \in 0 .. Len(sentence) : person \in Seq(Printed) /\ Stands(person, sentence, at)
  BY <1>2, <1>5, PiecesStand
<1>7. Last(person) = sentence[at + Len(person)] /\ at + Len(person) \in DOMAIN sentence
  <2>1. Last(person) = person[Len(person)]
    BY DEF Last
  <2>3. at \in Nat /\ at + Len(person) <= Len(sentence) /\ Len(sentence) \in Nat
    BY <1>2, <1>6 DEF Stands
  <2>4. Len(person) \in Nat /\ 1 <= Len(person)
    <3>1. \A some \in 2 .. 4 : some \in Nat /\ 1 <= some
      OBVIOUS
    <3> QED BY <1>4, <3>1, Zenon
  <2>2. Len(person) \in 1 .. Len(person) /\ at + Len(person) \in 1 .. Len(sentence)
    <3> DEFINE some == Len(person)
               all == Len(sentence)
    <3>1. at \in Nat /\ some \in Nat /\ all \in Nat /\ 1 <= some /\ at + some <= all
      BY <2>3, <2>4
    <3> HIDE DEF some, all
    <3>2. some \in 1 .. some /\ at + some \in 1 .. all
      BY <3>1
    <3> QED BY <3>2 DEF some, all
  <2> QED BY <1>2, <1>6, <2>1, <2>2 DEF Stands
<1>8. MentionedByWord(person, sentence)
  BY <1>7 DEF MentionedByWord, ToSet
<1> QED BY <1>1, <1>8 DEF HasSurname, MentionedByWord, person

\* The origin of a move is told: by the headline, or by a sentence about the person.
IsTold(it, move) ==
  LET origin == Value(move, "from_firm")
  IN  origin # Unknown => Told(it, Value(move, "person_name"), origin)

\* What origin_for and the firm pair make up for is told.
LEMMA RecoveredIsTold ==
  ASSUME NEW it, it.body \in Seq(Printed), NEW person,
         NEW from, from = FirstKnown(origin_for(person, it.body), firm_pair(Headline(it)).from), from # Unknown
  PROVE  Told(it, person, from)
<1>1. CASE origin_for(person, it.body) # Unknown
  <2>1. from = origin_for(person, it.body)
    BY <1>1 DEF FirstKnown
  <2> QED BY <1>1, <2>1, OriginForIsTold DEF Told, TextsOf
<1>2. CASE origin_for(person, it.body) = Unknown
  <2>1. from = firm_pair(Headline(it)).from
    BY <1>2 DEF FirstKnown
  <2> QED BY <2>1, PairIsFound DEF Told, Headlined
<1> QED BY <1>1, <1>2

-----------------------------------------------------------------------------
\* No word of a text is one that a name may lose.
Unstripped(text) == \A word \in ToSet(text) : word \notin HONORIFIC /\ ~LeadingNoise(word)

\* The name as printed stands in the body, and nothing of it is lost before the cut.
LEMMA ReportedNameIsCited ==
  ASSUME NEW it, IsItem(it), Headline(it) = it.headline, it.body # <<>>, Unstripped(Text(it)),
         NEW hit, IsReported(it.body, hit)
  PROVE  LET person == Cleaned(hit.person)
             cited == Cited(it, hit, person)
         IN  IsCited(Text(it), Field(person, cited.start, cited.end, TRUE))
<1> DEFINE body == it.body
           text == Text(it)
           printed == hit.person
           person == Cleaned(printed)
           at == hit.start - 1
<1>1. /\ body \in Seq(Printed) /\ text \in Seq(Printed) /\ printed \in Seq(Printed)
      /\ Stands(body, text, Offset(it)) /\ Stands(printed, body, at)
  BY TextIs DEF IsItem, IsReported
<1>2. hit.start \in Nat /\ at \in Nat /\ hit.start = at + 1
  BY DEF IsReported, After
<1>3. Stands(printed, text, Offset(it) + at)
  BY <1>1, StandsWithin
<1> HIDE DEF body, text, printed, at
<1>4. ASSUME NEW n \in DOMAIN printed
      PROVE  printed[n] \notin HONORIFIC /\ ~LeadingNoise(printed[n])
  <2>1. n \in 1 .. Len(printed) /\ printed[n] = text[Offset(it) + at + n]
    <3>1. n \in 1 .. Len(printed)
      BY <1>1
    <3> QED BY <1>3, <3>1 DEF Stands
  <2>2. Offset(it) + at + n \in DOMAIN text
    <3> DEFINE pos == Offset(it) + at
               size == Len(text)
               more == Len(printed)
    <3>1. pos \in Nat /\ pos + more <= size
      BY <1>3 DEF Stands
    <3>2. size \in Nat /\ DOMAIN text = 1 .. size /\ n \in 1 .. more /\ more \in Nat
      BY <1>1, <2>1
    <3> HIDE DEF pos, size, more
    <3>3. pos + n \in 1 .. size
      BY <3>1, <3>2
    <3> QED BY <3>2, <3>3 DEF pos
  <2>3. printed[n] \in ToSet(text)
    BY <2>1, <2>2 DEF ToSet
  <2> QED BY <2>3 DEF Unstripped, text
<1>5. person \in Seq(Printed) /\ Stands(person, printed, 0)
  BY <1>1, <1>4, CleanedBegins
<1> HIDE DEF person
<1>6. Stands(person, body, at + 0)
  BY <1>1, <1>5, StandsWithin
<1>7. Stands(person, it.body, at)
  BY <1>2, <1>6 DEF body
<1>8. IsCited(Text(it), Field(person, Offset(it) + (at + 1), Offset(it) + (at + 1) + Len(person), TRUE))
  BY <1>5, <1>7, BodyWordsAreCited
<1>9. /\ Cited(it, hit, person).start = Offset(it) + (at + 1)
      /\ Cited(it, hit, person).end = Offset(it) + (at + 1) + Len(person)
  BY <1>2 DEF Cited
<1> QED BY <1>8, <1>9 DEF person, printed

\* Nothing of the line or of a word that could stand in a name is dropped before the spans are
\* taken.
Clean(it) == Headline(it) = it.headline /\ Unstripped(Text(it))

\* A field that is said to stand in the text is cited; when something was dropped, one that
\* points past the headline need not be.
Sound(it, field) ==
  field.exact => IsCited(Text(it), field)
                   \/ (~Clean(it) /\ field.end \in Nat /\ field.end > Len(Headline(it)) + 1)

SoundMove(it, move) ==
  /\ "fields" \in DOMAIN move
  /\ \A f \in DOMAIN move.fields \ {"move_type"} : Sound(it, move.fields[f])

\* A practice is looked for in the body, and points there.
LEMMA PracticeFieldIsSound ==
  ASSUME NEW it, IsItem(it), NEW practice \in SubSeqs(it.body), practice # <<>>
  PROVE  Sound(it, PracticeField(it, practice))
<1>1. CASE Clean(it)
  BY <1>1, PracticeFieldIsCited DEF Sound, Clean
<1>2. CASE ~Clean(it)
  <2>1. it.body \in Seq(Printed) /\ Headline(it) \in Seq(Printed)
    BY TextIs DEF IsItem
  <2>2. practice \in Seq(Printed)
    BY <2>1, PiecesStand
  <2>3. PICK at \in 0 .. Len(it.body) :
          IndexFirstSubSeq(practice, it.body) = at + 1 /\ Stands(practice, it.body, at)
    BY <2>1, FoundStands
  <2>4. PracticeField(it, practice).end = Len(Headline(it)) + 1 + (at + 1) + Len(practice)
    BY <2>3 DEF PracticeField, Field, Offset
  <2>5. Len(Headline(it)) \in Nat /\ Len(practice) \in Nat
    BY <2>1, <2>2
  <2>6. PracticeField(it, practice).end \in Nat /\ PracticeField(it, practice).end > Len(Headline(it)) + 1
    BY <2>4, <2>5
  <2> QED BY <1>2, <2>6 DEF Sound
<1> QED BY <1>1, <1>2

\* The one record that a hit of the body gives, if any.
LEMMA FromHitIsSound ==
  ASSUME NEW it, IsItem(it), it.body # <<>>, NEW hit, IsReported(it.body, hit), NEW pair
  PROVE  /\ \A rec \in FromHit(it, hit, pair) : SoundMove(it, rec)
         /\ \A a, b \in FromHit(it, hit, pair) : a = b
<1> DEFINE person == Cleaned(hit.person)
           from == FirstKnown(hit.from, FirstKnown(origin_for(person, it.body), pair.from))
           type == TypeOf(it, pair, from)
           practice == practice_for(person, it.body)
           fields == HitFields(it, hit, pair, person, from, type, practice)
           cited == Cited(it, hit, person)
<1>1. FromHit(it, hit, pair) \subseteq {Scored(Present(fields))}
  BY DEF FromHit, FromPerson, RecordFrom
<1>2. Sound(it, Field(person, cited.start, cited.end, TRUE))
  <2>1. CASE Clean(it)
    BY <2>1, ReportedNameIsCited DEF Sound, Clean
  <2>2. CASE ~Clean(it)
    <3>1. Headline(it) \in Seq(Printed) /\ hit.person \in Seq(Printed) /\ hit.start \in 1 .. Len(it.body) + 1
      BY TextIs DEF IsReported, After
    <3>2. person \in Seq(Printed)
      BY <3>1, CleanedIsAPiece, PiecesStand
    <3> HIDE DEF person
    <3>3. Len(Headline(it)) \in Nat /\ Len(person) \in Nat
      BY <3>1, <3>2
    <3>4. cited.end = Len(Headline(it)) + 1 + hit.start + Len(person)
      BY DEF Cited, Offset
    <3>5. cited.end \in Nat /\ cited.end > Len(Headline(it)) + 1
      BY <3>1, <3>3, <3>4
    <3> HIDE DEF cited
    <3>6. Field(person, cited.start, cited.end, TRUE).end = cited.end
      BY DEF Field
    <3> QED BY <2>2, <3>5, <3>6 DEF Sound
  <2> QED BY <2>1, <2>2
<1>3. practice \in SubSeqs(it.body)
  BY PracticeForIsAPiece DEF IsItem
<1> HIDE DEF person, from, type, practice
<1>4. \A x \in fields["person_name"] : Sound(it, x)
  BY <1>2 DEF HitFields
<1>5. ASSUME NEW x \in fields["practice_text"] PROVE Sound(it, x)
  <2>1. practice # <<>> /\ x = PracticeField(it, practice)
    BY <1>5 DEF HitFields, Given
  <2> QED BY <1>3, <2>1, PracticeFieldIsSound
<1>6. ASSUME NEW f \in {"to_firm", "from_firm", "title_to", "office_jurisdiction"}, NEW x \in fields[f]
      PROVE  Sound(it, x)
  <2>1. x.exact = FALSE
    BY DEF HitFields, Given, Field
  <2> QED BY <2>1 DEF Sound
<1>7. DOMAIN fields = {"person_name", "practice_text", "to_firm", "from_firm", "title_to", "office_jurisdiction",
                       "move_type"}
  BY DEF HitFields
<1> HIDE DEF fields
<1> DEFINE rec == Scored(Present(fields))
<1>8. ASSUME NEW f \in DOMAIN rec.fields \ {"move_type"} PROVE Sound(it, rec.fields[f])
  <2>1. f \in DOMAIN fields /\ rec.fields[f] \in fields[f]
    BY <1>8, PresentIs
  <2> QED BY <1>4, <1>5, <1>6, <1>7, <1>8, <2>1
<1>9. "fields" \in DOMAIN rec
  BY DEF Scored
<1>10. SoundMove(it, rec)
  BY <1>8, <1>9 DEF SoundMove
<1> QED BY <1>1, <1>10

\* Its origin is the hit's, the one of a sentence about the person, or of the headline.
LEMMA FromHitIsTold ==
  ASSUME NEW it, IsItem(it), NEW hit, IsReported(it.body, hit),
         NEW rec \in FromHit(it, hit, firm_pair(Headline(it)))
  PROVE  IsTold(it, rec)
<1> DEFINE pair == firm_pair(Headline(it))
           person == Cleaned(hit.person)
           known == FirstKnown(origin_for(person, it.body), pair.from)
           from == FirstKnown(hit.from, known)
           type == TypeOf(it, pair, from)
           practice == practice_for(person, it.body)
           fields == HitFields(it, hit, pair, person, from, type, practice)
           origin == Value(rec, "from_firm")
<1>1. looks_like_a_person(person) /\ rec = Scored(Present(fields))
  BY DEF FromHit, FromPerson, RecordFrom, Reports
<1>2. it.body \in Seq(Printed) /\ hit.person \in Seq(Printed) /\ Together(it.body, hit.person, hit.from)
  BY DEF IsItem, IsReported
<1>3. ASSUME from # Unknown PROVE Told(it, person, from)
  <2>1. CASE hit.from # Unknown
    <3>1. from = hit.from
      BY <2>1 DEF FirstKnown
    <3>2. \E sentence \in TextsOf(it.body) : HasSurname(person, sentence) /\ Tells(sentence, from)
      BY <1>1, <1>2, <2>1, <3>1, TogetherIsTold
    <3> QED BY <3>2 DEF Told, TextsOf
  <2>2. CASE hit.from = Unknown
    <3>1. from = known
      BY <2>2 DEF FirstKnown
    <3> HIDE DEF from, person
    <3> QED BY <1>2, <1>3, <3>1, RecoveredIsTold
  <2> QED BY <2>1, <2>2
<1>4. ASSUME pair.to # Unknown PROVE Told(it, person, pair.to)
  BY <1>4, PairIsFound DEF Told, Headlined
<1> HIDE DEF pair, person, from, type, practice
<1>5. \A x \in fields["from_firm"] : x.value \in {pair.to, from}
  BY DEF HitFields, Given, Field
<1>6. \A x \in fields["person_name"] : x.value = person
  BY DEF HitFields, Field
<1>7. Value(rec, "person_name") = person
  <2>1. "person_name" \in DOMAIN fields /\ fields["person_name"] # {}
    BY DEF HitFields
  <2> HIDE DEF fields
  <2>2. "person_name" \in DOMAIN rec.fields /\ Value(rec, "person_name") = rec.fields["person_name"].value
    BY <1>1, <2>1 DEF Scored, Present, Value
  <2>3. rec.fields["person_name"] \in fields["person_name"]
    BY <1>1, <2>2, PresentIs
  <2> QED BY <1>6, <2>2, <2>3
<1> HIDE DEF fields
<1>8. origin # Unknown => origin \in {pair.to, from}
  BY <1>1, <1>5, ValueOfPresent
<1> HIDE DEF origin
<1>9. origin # Unknown => Told(it, person, origin)
  BY <1>3, <1>4, <1>8
<1> QED BY <1>7, <1>9 DEF IsTold, origin

-----------------------------------------------------------------------------
(* What is read out of an item.                                             *)

\* A field that is added is the one that is changed.
LEMMA WithIs ==
  ASSUME NEW move, "fields" \in DOMAIN move, NEW key, NEW field, NEW other
  PROVE  Value(With(move, key, field), other) = IF other = key THEN field.value ELSE Value(move, other)
<1> DEFINE more == With(move, key, field)
<1>1. more.fields = [n \in {key} \cup DOMAIN move.fields |-> IF n = key THEN field ELSE move.fields[n]]
  BY DEF With
<1> HIDE DEF more
<1>2. Value(more, other) = IF other = key THEN field.value ELSE Value(move, other)
  BY <1>1 DEF Value
<1> QED BY <1>2 DEF more

\* What the body adds to a move of the headline leaves its person, and its origin told.
LEMMA EnrichedIsTold ==
  ASSUME NEW it, IsItem(it), NEW move, "fields" \in DOMAIN move, FirmIsTold(Headline(it), move)
  PROVE  IsTold(it, Enriched(it, move))
<1> DEFINE person == Value(move, "person_name")
           practice == practice_for(person, it.body)
           origin == FirstKnown(origin_for(person, it.body), firm_pair(Headline(it)).from)
           one == WithPractice(it, move, practice)
           more == With(one, "from_firm", Somewhere(origin))
<1>1. Enriched(it, move) = WithOrigin(one, origin)
  BY DEF Enriched, EnrichedFor
<1>2. origin # Unknown => Told(it, person, origin)
  BY RecoveredIsTold DEF IsItem
<1> HIDE DEF practice, origin
<1>3. /\ "fields" \in DOMAIN one /\ Value(one, "person_name") = person
      /\ Value(one, "from_firm") = Value(move, "from_firm")
  <2>1. one = move \/ one = With(move, "practice_text", PracticeField(it, practice))
    BY DEF WithPractice
  <2>2. "fields" \in DOMAIN With(move, "practice_text", PracticeField(it, practice))
    BY DEF With
  <2>3. /\ Value(With(move, "practice_text", PracticeField(it, practice)), "person_name") = person
        /\ Value(With(move, "practice_text", PracticeField(it, practice)), "from_firm") = Value(move, "from_firm")
    BY WithIs
  <2> HIDE DEF one, person
  <2> QED BY <2>1, <2>2, <2>3 DEF person
<1> HIDE DEF one, person
<1>4. IsTold(it, one)
  <2>1. Value(one, "from_firm") # Unknown => Headlined(Headline(it), Value(one, "from_firm"))
    BY <1>3 DEF FirmIsTold
  <2> QED BY <2>1 DEF IsTold, Told
<1>5. /\ Value(Scored(more.fields), "person_name") = person
      /\ Value(Scored(more.fields), "from_firm") = origin
  <2>1. Value(more, "person_name") = person /\ Value(more, "from_firm") = Somewhere(origin).value
    BY <1>3, WithIs
  <2>2. Somewhere(origin).value = origin
    BY DEF Somewhere, Field
  <2>3. \A key : Value(Scored(more.fields), key) = Value(more, key)
    BY DEF Value, Scored
  <2> HIDE DEF more
  <2> QED BY <2>1, <2>2, <2>3
<1>6. IsTold(it, Scored(more.fields))
  BY <1>2, <1>5 DEF IsTold
<1>7. WithOrigin(one, origin) \in {one, Scored(more.fields)}
  BY DEF WithOrigin
<1> QED BY <1>1, <1>4, <1>6, <1>7

\* What is said of every move: its fields are sound, and its origin is told.
IsRead(it, move) == SoundMove(it, move) /\ IsTold(it, move)

\* One more sound field leaves a move sound.
LEMMA WithIsSound ==
  ASSUME NEW it, NEW move, SoundMove(it, move), NEW key, NEW field, Sound(it, field)
  PROVE  SoundMove(it, With(move, key, field))
<1> DEFINE more == With(move, key, field)
<1>1. "fields" \in DOMAIN move
  BY DEF SoundMove
<1>2. /\ "fields" \in DOMAIN more
      /\ more.fields = [n \in {key} \cup DOMAIN move.fields |-> IF n = key THEN field ELSE move.fields[n]]
  BY <1>1 DEF With
<1> HIDE DEF more
<1>3. ASSUME NEW f \in DOMAIN more.fields \ {"move_type"} PROVE Sound(it, more.fields[f])
  <2>1. CASE f = key
    BY <1>2, <1>3, <2>1
  <2>2. CASE f # key
    <3>1. f \in DOMAIN move.fields \ {"move_type"} /\ more.fields[f] = move.fields[f]
      BY <1>2, <2>2
    <3> QED BY <1>3, <3>1 DEF SoundMove
  <2> QED BY <2>1, <2>2
<1>4. SoundMove(it, more)
  BY <1>2, <1>3 DEF SoundMove
<1> QED BY <1>4 DEF more

\* What the body adds to a move of the headline is cited too.
LEMMA EnrichedIsSound ==
  ASSUME NEW it, IsItem(it), NEW move, SoundMove(it, move)
  PROVE  SoundMove(it, Enriched(it, move))
<1> DEFINE person == Value(move, "person_name")
           practice == practice_for(person, it.body)
           origin == FirstKnown(origin_for(person, it.body), firm_pair(Headline(it)).from)
           one == WithPractice(it, move, practice)
           more == With(one, "from_firm", Somewhere(origin))
<1>1. Enriched(it, move) = WithOrigin(one, origin)
  BY DEF Enriched, EnrichedFor
<1>2. practice \in SubSeqs(it.body)
  BY PracticeForIsAPiece DEF IsItem
<1> HIDE DEF practice, origin
<1>3. SoundMove(it, one)
  <2>1. CASE practice = <<>> \/ "practice_text" \in DOMAIN move.fields
    BY <2>1 DEF WithPractice
  <2>2. CASE ~(practice = <<>> \/ "practice_text" \in DOMAIN move.fields)
    <3>1. one = With(move, "practice_text", PracticeField(it, practice))
      BY <2>2 DEF WithPractice
    <3>2. Sound(it, PracticeField(it, practice))
      BY <1>2, <2>2, PracticeFieldIsSound
    <3> QED BY <3>1, <3>2, WithIsSound
  <2> QED BY <2>1, <2>2
<1> HIDE DEF one
<1>4. Sound(it, Somewhere(origin))
  BY DEF Sound, Somewhere, Field
<1>5. SoundMove(it, more)
  BY <1>3, <1>4, WithIsSound
<1> HIDE DEF more
<1>6. SoundMove(it, Scored(more.fields))
  <2>1. Scored(more.fields).fields = more.fields /\ "fields" \in DOMAIN Scored(more.fields)
    BY DEF Scored
  <2> QED BY <1>5, <2>1 DEF SoundMove
<1>7. WithOrigin(one, origin) \in {one, Scored(more.fields)}
  BY DEF WithOrigin, more
<1> QED BY <1>1, <1>3, <1>6, <1>7

\* A move that the body alone reports.
LEMMA FromBodyIsSound ==
  ASSUME NEW it, IsItem(it)
  PROVE  \A n \in DOMAIN FromBody(it) : IsRead(it, FromBody(it)[n])
<1> DEFINE pair == firm_pair(Headline(it))
           hits == BodyHits(it.body)
           L == Len(hits)
           records(n) == FromHit(it, hits[n], pair)
           some == [n \in DOMAIN hits |-> SetToSeq(records(n))]
           Items == {rec \in UNION {records(n) : n \in 1 .. L} : IsRead(it, rec)}
<1>1. FromBody(it) = FromHits(it, pair, hits)
  BY DEF FromBody
<1>2. L \in Nat /\ DOMAIN hits = 1 .. L /\ \A n \in 1 .. L : IsReported(it.body, hits[n])
  BY BodyHitsAreReported DEF IsItem
<1>5. \A n \in 1 .. L : \A rec \in records(n) : IsTold(it, rec)
  BY <1>2, FromHitIsTold
<1> HIDE DEF pair, hits, L
<1>3. CASE pair.to = Unknown \/ it.body = <<>>
  <2>1. FromBody(it) = <<>>
    BY <1>1, <1>3 DEF FromHits
  <2> QED BY <2>1
<1>4. CASE ~(pair.to = Unknown \/ it.body = <<>>)
  <2>1. FromBody(it) = FlattenSeq(some)
    BY <1>1, <1>4 DEF FromHits
  <2>2. some = [n \in 1 .. L |-> some[n]] /\ \A n \in 1 .. L : some[n] = SetToSeq(records(n))
    BY <1>2
  <2>3. ASSUME NEW n \in 1 .. L PROVE SetToSeq(records(n)) \in Seq(Items)
    <3>1. (\A rec \in records(n) : IsRead(it, rec)) /\ \A a, b \in records(n) : a = b
      <4>1. (\A rec \in records(n) : SoundMove(it, rec)) /\ \A a, b \in records(n) : a = b
        BY <1>2, <1>4, FromHitIsSound
      <4> HIDE DEF records
      <4> QED BY <1>5, <4>1 DEF IsRead
    <3>2. records(n) \subseteq Items
      BY <3>1
    <3> HIDE DEF records, Items
    <3> QED BY <3>1, <3>2, OneOrNone
  <2>4. \A rec \in Items : IsRead(it, rec)
    OBVIOUS
  <2> HIDE DEF some, records, Items
  <2>5. FlattenSeq([n \in 1 .. L |-> some[n]]) \in Seq(Items)
    BY <1>2, <2>2, <2>3, ChosenAre
  <2>6. FromBody(it) \in Seq(Items)
    BY <2>1, <2>2, <2>5
  <2> QED BY <2>4, <2>6
<1> QED BY <1>3, <1>4

\* Every move read out of an item whose words no name may lose.
LEMMA ExtractIsSound ==
  ASSUME NEW it, IsItem(it)
  PROVE  \A n \in DOMAIN extract(it) : IsRead(it, extract(it)[n])
<1> DEFINE head == Headline(it)
           built == [k \in DOMAIN TEMPLATES |-> BuildAll(head, TEMPLATES[k])]
           yielding == {k \in DOMAIN built : built[k] # <<>>}
           first == built[Min(yielding)]
<1>1. extract(it) = FromHeadline(it, built)
  BY DEF extract
<1>2. /\ head \in Seq(Printed) /\ Text(it) \in Seq(Printed) /\ Stands(head, Text(it), 0)
  BY TextIs
<1>3. DOMAIN TEMPLATES \subseteq Nat
  <2>1. DOMAIN TEMPLATES = 1 .. Len(TEMPLATES) /\ Len(TEMPLATES) \in Nat
    BY DEF TEMPLATES
  <2> HIDE DEF built
  <2> QED BY <2>1
<1>4. /\ DOMAIN built = DOMAIN TEMPLATES
      /\ \A k \in DOMAIN TEMPLATES : built[k] = BuildAll(head, TEMPLATES[k])
  OBVIOUS
<1> HIDE DEF head, built
<1>5. CASE yielding = {}
  <2>1. extract(it) = FromBody(it)
    BY <1>1, <1>5 DEF FromHeadline
  <2> QED BY <2>1, FromBodyIsSound
<1>6. CASE yielding # {}
  <2>1. Min(yielding) \in DOMAIN TEMPLATES
    <3>1. yielding \subseteq DOMAIN TEMPLATES /\ yielding \subseteq Nat
      BY <1>3, <1>4
    <3> HIDE DEF yielding
    <3> QED BY <1>6, <3>1, LeastIs
  <2>2. extract(it) = [n \in DOMAIN first |-> Enriched(it, first[n])]
    BY <1>1, <1>6 DEF FromHeadline
  <2>3. \A n \in DOMAIN first : Cites(head, first[n])
    BY <1>2, <1>4, <2>1, BuildAllCites
  <2> HIDE DEF first, yielding
  <2>4. ASSUME NEW n \in DOMAIN first PROVE SoundMove(it, first[n])
    <3>1. "fields" \in DOMAIN first[n]
      BY <2>3 DEF Cites
    <3>2. ASSUME NEW f \in DOMAIN first[n].fields \ {"move_type"} PROVE Sound(it, first[n].fields[f])
      BY <1>2, <2>3, LongerText DEF Cites, Sound
    <3> QED BY <3>1, <3>2 DEF SoundMove
  <2>6. ASSUME NEW n \in DOMAIN first PROVE IsTold(it, Enriched(it, first[n]))
    <3>1. "fields" \in DOMAIN first[n] /\ FirmIsTold(Headline(it), first[n])
      BY <2>3 DEF Cites, head
    <3> QED BY <3>1, EnrichedIsTold
  <2>5. \A n \in DOMAIN first : IsRead(it, Enriched(it, first[n]))
    BY <2>4, <2>6, EnrichedIsSound DEF IsRead
  <2> QED BY <2>2, <2>5
<1> QED BY <1>5, <1>6

-----------------------------------------------------------------------------
\* What every state of a reading keeps: the item is made of words, and the moves are those
\* the code extracts from that very item.
ReadInv ==
  /\ IsItem(item) /\ DOMAIN item = {"headline", "body", "slug", "entity"}
  /\ moves = <<>> \/ moves = extract(item)

\* A fragment more, or another article body, makes an item again.
LEMMA ItemsGrow ==
  ASSUME ReadInv, NEW next \in Extended \cup Fetched \cup Continued
  PROVE  IsItem(next) /\ DOMAIN next = {"headline", "body", "slug", "entity"}
<1>1. item.headline \in Seq(Printed) /\ item.body \in Seq(Printed)
      /\ DOMAIN item = {"headline", "body", "slug", "entity"}
  BY DEF ReadInv, IsItem
<1>2. Fragments \subseteq Seq(Printed) /\ BodySentences \subseteq Seq(Printed)
  <2>1. Words \subseteq Printed
    BY DEF Printed
  <2>2. Seq(Words) \subseteq Seq(Printed)
    BY <2>1
  <2> QED BY <2>2, ReadingAssumption
<1>3. <<".">> \in Seq(Printed)
  <2>1. "." \in Marks
    BY Zenon DEF Marks
  <2>2. "." \in Printed
    BY <2>1, WordsAssumption DEF Printed
  <2>3. \A w \in Printed : <<w>> \in Seq(Printed)
    OBVIOUS
  <2> QED BY <2>2, <2>3
<1>4. CASE next \in Extended
  <2>1. PICK text \in Fragments \cup {<<".">>} : next = [item EXCEPT !.headline = @ \o text]
    BY <1>4 DEF Extended
  <2>2. text \in Seq(Printed)
    BY <1>2, <1>3, <2>1
  <2>3. item.headline \o text \in Seq(Printed)
    BY <1>1, <2>2
  <2> QED BY <1>1, <2>1, <2>3 DEF IsItem
<1>5. CASE next \in Fetched
  <2>1. PICK page \in BodySentences \X {<<>>, <<"ashurst", "bob", "ng">>} :
          next = [item EXCEPT !.body = page[1], !.slug = page[2], !.entity = page[2] # <<>>]
    BY <1>5 DEF Fetched
  <2>2. page[1] \in Seq(Printed)
    BY <1>2, <2>1
  <2> QED BY <1>1, <2>1, <2>2 DEF IsItem
<1>6. CASE next \in Continued
  <2>1. PICK text \in BodySentences : next = [item EXCEPT !.body = @ \o text]
    BY <1>6 DEF Continued
  <2>2. item.body \o text \in Seq(Printed)
    BY <1>1, <1>2, <2>1
  <2> QED BY <1>1, <2>1, <2>2 DEF IsItem
<1> QED BY <1>4, <1>5, <1>6

\* rules.py reads an item afresh each time: no move of an earlier text is left.
THEOREM ReadInvariant == Spec => []ReadInv
<1>1. Init => ReadInv
  BY DEF Init, ReadInv, IsItem
<1>2. ASSUME ReadInv, [Next]_<<item, pieces, moves, name>> PROVE ReadInv'
  <2>1. CASE Read
    <3>1. IsItem(item') /\ DOMAIN item' = {"headline", "body", "slug", "entity"}
      BY <1>2, <2>1, ItemsGrow DEF Read
    <3>2. moves' = extract(item')
      BY <2>1 DEF Read
    <3> QED BY <3>1, <3>2 DEF ReadInv, IsItem, extract, FromHeadline
  <2>2. CASE Spell \/ UNCHANGED <<item, pieces, moves, name>>
    BY <1>2, <2>2 DEF Spell, ReadInv
  <2> QED BY <1>2, <2>1, <2>2 DEF Next
<1> QED BY <1>1, <1>2, PTL DEF Spec

\* So every field of a move read is sound.
LEMMA MovesAreSound ==
  ASSUME ReadInv, NEW n \in DOMAIN moves, NEW f \in DOMAIN moves[n].fields \ {"move_type"}
  PROVE  Sound(item, moves[n].fields[f])
<1>1. moves = extract(item)
  <2>1. moves # <<>>
    OBVIOUS
  <2> QED BY <2>1 DEF ReadInv
<1>2. SoundMove(item, moves[n])
  BY <1>1, ExtractIsSound DEF ReadInv, IsRead
<1> QED BY <1>2 DEF SoundMove

\* A cited field is one whose span holds its value.
LEMMA CitedIsHeld ==
  ASSUME ReadInv, NEW field, IsCited(Text(item), field)
  PROVE  Holds(field)
<1>1. Text(item) \in Seq(Printed)
  BY TextIs DEF ReadInv
<1> QED BY <1>1, CitedHolds DEF Holds

\* A field that is said to stand in the text stands where its span says, unless a word was
\* dropped before the span was taken: the comment before `offset` in rules.py, for every
\* gazetteer,
\* every word and every text.
THEOREM ExactFieldsCite == Spec => []ExactSpansCite
<1>1. ASSUME ReadInv PROVE ExactSpansCite
  <2> SUFFICES ASSUME NothingStripped, NEW n \in DOMAIN moves,
                      NEW f \in DOMAIN moves[n].fields \ {"move_type"}, moves[n].fields[f].exact
               PROVE  Holds(moves[n].fields[f])
    BY DEF ExactSpansCite
  <2>1. Clean(item)
    BY DEF NothingStripped, Clean, Unstripped
  <2>2. Sound(item, moves[n].fields[f])
    BY <1>1, MovesAreSound
  <2> QED BY <1>1, <2>1, <2>2, CitedIsHeld DEF Sound
<1> QED BY <1>1, ReadInvariant, PTL

\* Where the span lies in the headline nothing else is needed: the matches are taken of the
\* line as it is matched, and names are cleaned to pieces of what is printed.
HeadlineSpansCite ==
  \A n \in DOMAIN moves : \A f \in DOMAIN moves[n].fields \ {"move_type"} :
    moves[n].fields[f].exact /\ moves[n].fields[f].end <= Len(Headline(item)) + 1 => Holds(moves[n].fields[f])

\* The field of every reading whose span lies in the headline holds its value.
THEOREM HeadlineFieldsCite == Spec => []HeadlineSpansCite
<1>1. ASSUME ReadInv PROVE HeadlineSpansCite
  <2> SUFFICES ASSUME NEW n \in DOMAIN moves, NEW f \in DOMAIN moves[n].fields \ {"move_type"},
                      moves[n].fields[f].exact, moves[n].fields[f].end <= Len(Headline(item)) + 1
               PROVE  Holds(moves[n].fields[f])
    BY DEF HeadlineSpansCite
  <2> DEFINE field == moves[n].fields[f]
  <2>1. Sound(item, field)
    BY <1>1, MovesAreSound
  <2>2. IsCited(Text(item), field)
    <3>1. Headline(item) \in Seq(Printed)
      BY <1>1, TextIs DEF ReadInv
    <3>2. ~(field.end \in Nat /\ field.end > Len(Headline(item)) + 1)
      BY <3>1
    <3> QED BY <2>1, <3>2 DEF Sound
  <2> QED BY <1>1, <2>2, CitedIsHeld
<1> QED BY <1>1, ReadInvariant, PTL

\* Every move with an origin has it from the headline, or from one sentence of the body that
\* has the surname of that very person: origin_for and body_rules.find never attach the firm
\* of another sentence, whatever gazetteer, word lists and text.
THEOREM OriginsAreTold == Spec => []OriginIsTold
<1>1. ASSUME ReadInv PROVE OriginIsTold
  <2> SUFFICES ASSUME NEW n \in DOMAIN moves, Value(moves[n], "from_firm") # Unknown
               PROVE  Told(item, Value(moves[n], "person_name"), Value(moves[n], "from_firm"))
    BY DEF OriginIsTold
  <2>1. moves = extract(item)
    <3>1. moves # <<>>
      OBVIOUS
    <3> QED BY <1>1, <3>1 DEF ReadInv
  <2>2. IsTold(item, moves[n])
    BY <1>1, <2>1, ExtractIsSound DEF ReadInv, IsRead
  <2> QED BY <2>2 DEF IsTold
<1> QED BY <1>1, ReadInvariant, PTL

-----------------------------------------------------------------------------
(* Who is found in a body.                                                  *)

\* What is chosen out of the first i items: in their order, each once, and none left out.
IsPicked(w, s, positions, i, f) ==
  /\ f \in [1 .. Len(w) -> 1 .. i]
  /\ \A k \in 1 .. Len(w) : f[k] \in positions /\ w[k] = s[f[k]]
  /\ \A j, k \in 1 .. Len(w) : j < k => f[j] < f[k]
  /\ \A n \in 1 .. i : n \in positions => \E k \in 1 .. Len(w) : f[k] = n

Picked(w, s, positions, i) ==
  /\ w \in Seq(ToSet(s))
  /\ \E f \in [1 .. Len(w) -> 1 .. i] : IsPicked(w, s, positions, i, f)

\* One more item is chosen, or passed over.
LEMMA PickedMore ==
  ASSUME NEW s, s \in Seq(ToSet(s)), NEW positions, NEW i \in 1 .. Len(s), NEW w,
         (i = 1 /\ w = <<>>) \/ (i # 1 /\ Picked(w, s, positions, i - 1))
  PROVE  Picked(w \o (IF i \in positions THEN <<s[i]>> ELSE <<>>), s, positions, i)
<1> DEFINE more == w \o (IF i \in positions THEN <<s[i]>> ELSE <<>>)
           L == Len(w)
<1>1. s[i] \in ToSet(s) /\ i \in Nat /\ i >= 1 /\ 1 .. i - 1 \subseteq 1 .. i
  <2>1. DOMAIN s = 1 .. Len(s) /\ Len(s) \in Nat
    OBVIOUS
  <2> QED BY <2>1 DEF ToSet
<1>2. w \in Seq(ToSet(s)) /\ L \in Nat
  <2> DEFINE Items == ToSet(s)
  <2>1. CASE i = 1 /\ w = <<>>
    BY <2>1
  <2>2. CASE i # 1 /\ Picked(w, s, positions, i - 1)
    <3>1. w \in Seq(Items)
      BY <2>2 DEF Picked
    <3> HIDE DEF Items
    <3>2. Len(w) \in Nat
      BY <3>1
    <3> QED BY <3>1, <3>2 DEF Items
  <2> QED BY <2>1, <2>2
<1>3. PICK f \in [1 .. L -> 1 .. i - 1] : IsPicked(w, s, positions, i - 1, f)
  <2>1. CASE i = 1 /\ w = <<>>
    <3>1. L = 0
      BY <2>1
    <3>2. [n \in 1 .. 0 |-> 0] \in [1 .. L -> 1 .. i - 1]
      BY <3>1
    <3>3. IsPicked(w, s, positions, i - 1, [n \in 1 .. 0 |-> 0])
      BY <2>1, <3>1, <3>2 DEF IsPicked
    <3> QED BY <3>2, <3>3
  <2>2. CASE i # 1 /\ Picked(w, s, positions, i - 1)
    BY <2>2 DEF Picked
  <2> QED BY <2>1, <2>2
<1>4. CASE i \in positions
  <2>1. more = w \o <<s[i]>>
    BY <1>4
  <2>2. more \in Seq(ToSet(s)) /\ Len(more) = L + 1 /\ more[L + 1] = s[i]
        /\ \A k \in 1 .. L : more[k] = w[k]
    BY <1>1, <1>2, <2>1
  <2> DEFINE g == [k \in 1 .. L + 1 |-> IF k = L + 1 THEN i ELSE f[k]]
  <2>3. g \in [1 .. L + 1 -> 1 .. i] /\ g[L + 1] = i /\ \A k \in 1 .. L : g[k] = f[k] /\ f[k] \in 1 .. i - 1
    <3>1. \A k \in 1 .. L : f[k] \in 1 .. i - 1 /\ k # L + 1
      BY <1>2, <1>3
    <3>2. i \in 1 .. i /\ L + 1 \in 1 .. L + 1
      BY <1>1, <1>2
    <3>3. \A k \in 1 .. L + 1 : k # L + 1 => k \in 1 .. L
      BY <1>2
    <3>4. \A k \in 1 .. L : k \in 1 .. L + 1
      BY <1>2
    <3> QED BY <1>1, <3>1, <3>2, <3>3, <3>4
  <2> HIDE DEF g, more
  <2>4. \A k \in 1 .. L + 1 : k = L + 1 \/ k \in 1 .. L
    BY <1>2
  <2>5. \A k \in 1 .. L + 1 : g[k] \in positions /\ more[k] = s[g[k]]
    BY <1>3, <1>4, <2>2, <2>3, <2>4 DEF IsPicked
  <2>6. ASSUME NEW j \in 1 .. L + 1, NEW k \in 1 .. L + 1, j < k PROVE g[j] < g[k]
    <3>1. j \in 1 .. L
      BY <1>2, <2>6
    <3>2. CASE k = L + 1
      BY <1>1, <2>3, <3>1, <3>2
    <3>3. CASE k \in 1 .. L
      <4>1. f[j] < f[k]
        BY <1>3, <2>6, <3>1, <3>3 DEF IsPicked
      <4> QED BY <2>3, <3>1, <3>3, <4>1
    <3> QED BY <2>4, <3>2, <3>3
  <2>7. ASSUME NEW n \in 1 .. i, n \in positions PROVE \E k \in 1 .. L + 1 : g[k] = n
    <3>1. CASE n = i
      BY <1>2, <2>3, <3>1
    <3>2. CASE n \in 1 .. i - 1
      <4>1. PICK k \in 1 .. L : f[k] = n
        BY <1>3, <2>7, <3>2 DEF IsPicked
      <4> QED BY <1>2, <2>3, <4>1
    <3> QED BY <1>1, <3>1, <3>2
  <2>8. IsPicked(more, s, positions, i, g)
    BY <2>2, <2>3, <2>5, <2>6, <2>7 DEF IsPicked
  <2> QED BY <2>2, <2>3, <2>8 DEF Picked, more
<1>5. CASE i \notin positions
  <2>1. more = w
    BY <1>2, <1>5
  <2>2. f \in [1 .. L -> 1 .. i]
    BY <1>1, <1>3
  <2>3. IsPicked(w, s, positions, i, f)
    <3>1. ASSUME NEW n \in 1 .. i, n \in positions PROVE \E k \in 1 .. L : f[k] = n
      <4>1. n \in 1 .. i - 1
        BY <1>1, <1>5, <3>1
      <4> QED BY <1>3, <3>1, <4>1 DEF IsPicked
    <3> QED BY <1>3, <2>2, <3>1 DEF IsPicked
  <2> QED BY <1>2, <2>1, <2>2, <2>3 DEF Picked
<1> QED BY <1>4, <1>5

\* What is chosen from a sequence is what stands at the positions, in the same order.
LEMMA WhereKeepsOrder ==
  ASSUME NEW s, s \in Seq(ToSet(s)), NEW positions, positions \subseteq DOMAIN s
  PROVE  Picked(Where(s, positions), s, positions, Len(s))
<1> DEFINE L == Len(s)
           chosen == [n \in DOMAIN s |-> IF n \in positions THEN <<s[n]>> ELSE <<>>]
<1>1. L \in Nat /\ DOMAIN s = 1 .. L /\ Where(s, positions) = FlattenSeq(chosen)
  BY DEF Where
<1>2. \A n \in 1 .. L : s[n] \in ToSet(s)
  BY <1>1 DEF ToSet
<1>3. DOMAIN chosen = 1 .. L /\ chosen \in Seq(Seq(ToSet(s))) /\ Len(chosen) = L
      /\ \A n \in 1 .. L : chosen[n] = (IF n \in positions THEN <<s[n]>> ELSE <<>>)
  <2>1. \A n \in 1 .. L : chosen[n] \in Seq(ToSet(s))
    BY <1>1, <1>2
  <2> DEFINE Rows == Seq(ToSet(s))
  <2>2. chosen \in [1 .. L -> Rows]
    BY <1>1, <2>1
  <2> HIDE DEF Rows
  <2>3. chosen \in Seq(Rows) /\ Len(chosen) = L
    BY <1>1, <2>2
  <2> QED BY <1>1, <2>3 DEF Rows
<1> HIDE DEF chosen
<1>4. CASE L = 0
  <2>1. chosen = <<>>
    BY <1>3, <1>4
  <2>2. Where(s, positions) = <<>> /\ Len(<<>>) = 0
    BY <1>1, <1>3, <1>4, <2>1 DEF FlattenSeq
  <2>3. [n \in 1 .. 0 |-> 0] \in [1 .. 0 -> 1 .. L]
    OBVIOUS
  <2>4. IsPicked(<<>>, s, positions, L, [n \in 1 .. 0 |-> 0])
    BY <1>4, <2>2, <2>3 DEF IsPicked
  <2>5. <<>> \in Seq(ToSet(s)) /\ Len(<<>>) = 0
    OBVIOUS
  <2>6. Picked(<<>>, s, positions, L)
    BY <1>4, <2>3, <2>4, <2>5 DEF Picked
  <2> QED BY <2>2, <2>6
<1>5. CASE L # 0
  <2>1. PICK flat : /\ flat = [i \in 1 .. L |-> IF i = 1 THEN chosen[i] ELSE flat[i - 1] \o chosen[i]]
                    /\ Where(s, positions) = flat[L]
    BY <1>1, <1>3, <1>5, FlatIsAFold
  <2> DEFINE Good == {i \in 1 .. L : Picked(flat[i], s, positions, i)}
  <2>2. ASSUME NEW i \in 1 .. L, \A j \in 1 .. i - 1 : j \in Good PROVE i \in Good
    <3> DEFINE before == IF i = 1 THEN <<>> ELSE flat[i - 1]
    <3>1. (i = 1 /\ before = <<>>) \/ (i # 1 /\ Picked(before, s, positions, i - 1))
      <4>1. i # 1 => i - 1 \in 1 .. i - 1
        OBVIOUS
      <4> QED BY <2>2, <4>1
    <3>2. before \in Seq(ToSet(s))
      BY <3>1 DEF Picked
    <3>3. flat[i] = IF i = 1 THEN chosen[i] ELSE flat[i - 1] \o chosen[i]
      BY <2>1
    <3>4. chosen[i] \in Seq(ToSet(s)) /\ chosen[i] = (IF i \in positions THEN <<s[i]>> ELSE <<>>)
      BY <1>2, <1>3
    <3>5. flat[i] = before \o chosen[i]
      <4>1. <<>> \o chosen[i] = chosen[i]
        <5> DEFINE Items == ToSet(s)
        <5> HIDE DEF Items
        <5>1. chosen[i] \in Seq(Items)
          BY <3>4 DEF Items
        <5> QED BY <5>1
      <4> QED BY <3>3, <4>1
    <3> HIDE DEF before
    <3>6. Picked(before \o (IF i \in positions THEN <<s[i]>> ELSE <<>>), s, positions, i)
      BY <3>1, PickedMore
    <3> QED BY <3>4, <3>5, <3>6
  <2> HIDE DEF Good
  <2>3. L \in Good
    BY <1>1, <1>5, <2>2, UpOrDown
  <2> QED BY <2>1, <2>3 DEF Good
<1> QED BY <1>4, <1>5

\* Every person whose name the body's sentences report is among its hits, and once:
\* body_rules.find
\* keeps the first hit of each name (`seen`), in the order of the text.
THEOREM EveryBodyPersonOnce ==
  ASSUME NEW body \in Seq(Printed)
  PROVE  /\ \A m, n \in DOMAIN BodyHits(body) : BodyHits(body)[m].person = BodyHits(body)[n].person => m = n
         /\ \A n \in DOMAIN AllHits(body) : \E k \in DOMAIN BodyHits(body) :
              /\ BodyHits(body)[k].person = AllHits(body)[n].person
              /\ \E m \in 1 .. n : BodyHits(body)[k] = AllHits(body)[m]
<1> DEFINE all == AllHits(body)
           hits == BodyHits(body)
           positions == {n \in DOMAIN all : \A m \in 1 .. n - 1 : all[m].person # all[n].person}
<1>1. all \in Seq(ToSet(all))
  <2> DEFINE Items == {h \in ToSet(all) : IsReported(body, h)}
  <2>1. all \in Seq(Items) /\ Items \subseteq ToSet(all)
    BY AllHitsAreReported
  <2> HIDE DEF Items, all
  <2> QED BY <2>1
<1> DEFINE L == Len(all)
<1>2. L \in Nat /\ DOMAIN all = 1 .. L
  BY <1>1
<1>3. hits = Where(all, positions)
  BY DEF BodyHits, FirstOfEach
<1> HIDE DEF hits, all
<1>4. Picked(hits, all, positions, L)
  BY <1>1, <1>3, WhereKeepsOrder
<1>5. PICK f \in [1 .. Len(hits) -> 1 .. L] : IsPicked(hits, all, positions, L, f)
  BY <1>4 DEF Picked
<1>6. DOMAIN hits = 1 .. Len(hits) /\ Len(hits) \in Nat
  <2>1. hits \in Seq(ToSet(all))
    BY <1>4 DEF Picked
  <2> HIDE DEF positions
  <2> QED BY <2>1
<1>7. ASSUME NEW m \in DOMAIN hits, NEW n \in DOMAIN hits, m < n PROVE hits[m].person # hits[n].person
  <2>1. f[m] \in 1 .. L /\ f[n] \in positions /\ f[m] < f[n] /\ hits[m] = all[f[m]] /\ hits[n] = all[f[n]]
    BY <1>5, <1>6, <1>7 DEF IsPicked
  <2>2. f[m] \in 1 .. f[n] - 1
    BY <1>2, <2>1
  <2> QED BY <2>1, <2>2
<1>8. \A m, n \in DOMAIN hits : hits[m].person = hits[n].person => m = n
  <2>1. \A m, n \in DOMAIN hits : m < n \/ n < m \/ m = n
    BY <1>6
  <2> QED BY <1>7, <2>1
<1>9. ASSUME NEW n \in DOMAIN all
      PROVE  \E k \in DOMAIN hits : hits[k].person = all[n].person /\ \E m \in 1 .. n : hits[k] = all[m]
  <2> DEFINE same == {m \in 1 .. n : all[m].person = all[n].person}
  <2>1. n \in same /\ same \subseteq Nat
    BY <1>2
  <2>2. PICK m \in same : \A j \in same : m <= j
    BY <2>1, NatLeast
  <2>3. m \in 1 .. n /\ m \in 1 .. L /\ all[m].person = all[n].person
    BY <1>2, <2>2
  <2>4. ASSUME NEW j \in 1 .. m - 1 PROVE all[j].person # all[m].person
    <3>1. j \in 1 .. n /\ ~(m <= j)
      BY <1>2, <2>3
    <3> QED BY <2>2, <2>3, <3>1
  <2>5. m \in positions
    BY <1>2, <2>3, <2>4
  <2>6. PICK k \in 1 .. Len(hits) : f[k] = m
    BY <1>5, <2>3, <2>5 DEF IsPicked
  <2>7. hits[k] = all[m]
    BY <1>5, <2>6 DEF IsPicked
  <2> QED BY <1>6, <2>3, <2>6, <2>7
<1> QED BY <1>8, <1>9 DEF hits, all

-----------------------------------------------------------------------------
(* The taxonomy.                                                            *)

\* What a text is classified as by itself: by a mapping, or as nothing.
LEMMA ClassifyIs ==
  ASSUME NEW text
  PROVE  LET c == classify(text)
         IN /\ \/ /\ c.rule = "mapping" /\ c.phrase \in DOMAIN Mappings
                  /\ c.primary = Mappings[c.phrase].primary /\ c.secondary = Mappings[c.phrase].secondary
               \/ c.primary = UNCLASSIFIED /\ c.secondary = <<>>
            /\ "kind" \in DOMAIN c /\ "confidence" \in DOMAIN c
            /\ \A kind : Decisive(kind, c) => text # <<>> /\ c.phrase = matched_phrase(text)
<1> DEFINE found == Mentions(Plain(text), Phrases)
<1>1. classify(text) = ClassifiedBy(text, found)
  BY DEF classify
<1>2. matched_phrase(text) = IF found = <<>> THEN <<>> ELSE found[1].surface
  BY DEF matched_phrase
<1>3. found \in Seq(Mention(Phrases))
  <2>1. Len(Plain(text)) \in Nat
    BY DEF Plain
  <2> QED BY <2>1, MentionsAreOfSurfaces
<1> HIDE DEF found
<1>4. CASE text = <<>>
  BY <1>1, <1>4 DEF ClassifiedBy, NoEvidence, Assigned, Decisive
<1>5. CASE text # <<>> /\ found = <<>>
  BY <1>1, <1>5 DEF ClassifiedBy, NoEvidence, Assigned, Decisive
<1>6. CASE text # <<>> /\ found # <<>>
  <2> DEFINE phrase == found[1].surface
             whole == phrase = Plain(text)
  <2>1. phrase \in Phrases
    <3>1. found[1] \in Mention(Phrases)
      BY <1>3, <1>6
    <3> QED BY <3>1 DEF Mention
  <2>2. classify(text) = Mapped(phrase, whole)
    BY <1>1, <1>6 DEF ClassifiedBy
  <2>3. matched_phrase(text) = phrase
    BY <1>2, <1>6
  <2> HIDE DEF phrase, whole
  <2>4. CASE phrase \in NotPractice
    BY <1>6, <2>2, <2>3, <2>4 DEF Mapped, Assigned
  <2>5. CASE phrase \notin NotPractice
    <3>1. phrase \in DOMAIN Mappings
      BY <2>1, <2>5 DEF Phrases
    <3> QED BY <1>6, <2>2, <2>3, <2>5, <3>1 DEF Mapped, Assigned
  <2> QED BY <2>4, <2>5
<1> QED BY <1>4, <1>5, <1>6

\* What a list of evidence is classified as: by the first piece that decides, or nothing.
LEMMA ClassifyFromIs ==
  ASSUME NEW evidence, DOMAIN evidence \subseteq Nat
  PROVE  LET c == classify_from(evidence)
         IN \/ c.kind = NoKind /\ c.primary = UNCLASSIFIED /\ c.secondary = <<>>
            \/ \E n \in DOMAIN evidence : LET own == classify(evidence[n].text) IN
                 /\ Decides(evidence[n])
                 /\ c.kind = evidence[n].kind /\ c.phrase = own.phrase
                 /\ c.primary = own.primary /\ c.secondary = own.secondary
<1> DEFINE found == [n \in DOMAIN evidence |-> classify(evidence[n].text)]
           deciding == {n \in DOMAIN evidence : Decisive(evidence[n].kind, found[n])}
           n == Min(deciding)
<1>1. classify_from(evidence) = FirstDecisive(evidence, found)
  BY DEF classify_from
<1>2. CASE deciding = {}
  BY <1>1, <1>2 DEF FirstDecisive, NoEvidence, Assigned
<1>3. CASE deciding # {}
  <2>1. n \in deciding
    <3>1. deciding \subseteq Nat
      OBVIOUS
    <3> HIDE DEF deciding
    <3> QED BY <1>3, <3>1, LeastIs
  <2>2. classify_from(evidence) = Weighed(evidence[n].kind, found[n])
    BY <1>1, <1>3 DEF FirstDecisive
  <2>3. n \in DOMAIN evidence /\ found[n] = classify(evidence[n].text) /\ Decisive(evidence[n].kind, found[n])
    BY <2>1
  <2> HIDE DEF n, found
  <2>4. Decides(evidence[n])
    BY <2>3 DEF Decides
  <2>5. "kind" \in DOMAIN found[n]
    BY <2>3, ClassifyIs
  <2> DEFINE own == found[n]
  <2>6. /\ Weighed(evidence[n].kind, own).kind = evidence[n].kind
        /\ Weighed(evidence[n].kind, own).phrase = own.phrase
        /\ Weighed(evidence[n].kind, own).primary = own.primary
        /\ Weighed(evidence[n].kind, own).secondary = own.secondary
    BY <2>5 DEF Weighed
  <2> QED BY <2>2, <2>3, <2>4, <2>6
<1> QED BY <1>2, <1>3

\* Whatever the evidence, the groups that extract.py looks up in practice_groups are groups of
\* the taxonomy, at most MAX_SECONDARY of them secondary, and the primary one is not repeated.
THEOREM EveryGroupIsKnown ==
  ASSUME NEW evidence, DOMAIN evidence \subseteq Nat
  PROVE  LET c == classify_from(evidence)
         IN {c.primary} \cup ToSet(c.secondary) \subseteq Flattened(Groups)
            /\ Len(c.secondary) <= MAX_SECONDARY /\ c.primary \notin ToSet(c.secondary)
<1> DEFINE good(c) ==
      /\ {c.primary} \cup ToSet(c.secondary) \subseteq Flattened(Groups)
      /\ Len(c.secondary) <= MAX_SECONDARY /\ c.primary \notin ToSet(c.secondary)
<1>1. ASSUME NEW c, c.primary = UNCLASSIFIED, c.secondary = <<>> PROVE good(c)
  <2>1. ToSet(c.secondary) = {} /\ Len(c.secondary) = 0
    BY <1>1 DEF ToSet
  <2> QED BY <1>1, <2>1, TaxonomyAssumption DEF MAX_SECONDARY
<1>2. ASSUME NEW c, NEW own, good(own), c.primary = own.primary, c.secondary = own.secondary PROVE good(c)
  BY <1>2
<1>3. ASSUME NEW text PROVE good(classify(text))
  <2> DEFINE c == classify(text)
  <2>1. CASE c.primary = UNCLASSIFIED /\ c.secondary = <<>>
    <3> HIDE DEF good
    <3> QED BY <1>1, <2>1
  <2>2. CASE /\ c.phrase \in DOMAIN Mappings
             /\ c.primary = Mappings[c.phrase].primary /\ c.secondary = Mappings[c.phrase].secondary
    <3> DEFINE m == Mappings[c.phrase]
    <3>1. {m.primary} \cup ToSet(m.secondary) \subseteq Flattened(Groups) /\ Len(m.secondary) <= MAX_SECONDARY
          /\ m.primary \notin ToSet(m.secondary)
      BY <2>2, TaxonomyAssumption DEF Loadable
    <3> QED BY <2>2, <3>1
  <2> QED BY <2>1, <2>2, ClassifyIs
<1> HIDE DEF good
<1>4. good(classify_from(evidence))
  BY <1>1, <1>2, <1>3, ClassifyFromIs
<1> QED BY <1>4 DEF good

\* The span that is cited for a classification is of the piece of evidence that decided, and of
\* the phrase of the mapping that fired, where the phrase first stands in it (_classify_practice).
THEOREM EveryCitationIsOfItsRule ==
  ASSUME NEW evidence, DOMAIN evidence \subseteq Nat,
         \A m, n \in DOMAIN evidence : evidence[m].kind = evidence[n].kind => m = n,
         NEW citation \in Citation(evidence)
  PROVE  LET c == classify_from(evidence)
         IN /\ citation.kind = c.kind
            /\ \E n \in DOMAIN evidence :
                 evidence[n].kind = c.kind /\ evidence[n].text = citation.text /\ Decides(evidence[n])
            /\ citation.start = Min(Occurrences(c.phrase, citation.text))
            /\ citation.end = citation.start + Len(c.phrase)
<1> DEFINE c == classify_from(evidence)
           text == TextOf(evidence, c.kind)
           phrase == matched_phrase(text)
           hits == Occurrences(phrase, text)
<1>1. /\ c.kind \in {"headline", "body"}
      /\ citation = [kind |-> c.kind, text |-> text, start |-> Min(hits), end |-> Min(hits) + Len(phrase)]
  <2>1. Citation(evidence) = CitedAt(c.kind, text, phrase, hits)
    BY DEF Citation, CitedKind, CitedFor, CitedIn
  <2> HIDE DEF c, text, phrase, hits
  <2> QED BY <2>1 DEF CitedAt
<1> HIDE DEF hits
<1>2. c.kind # NoKind
  BY <1>1 DEF NoKind
<1>3. PICK n \in DOMAIN evidence : LET own == classify(evidence[n].text) IN
        /\ Decides(evidence[n])
        /\ c.kind = evidence[n].kind /\ c.phrase = own.phrase
  BY <1>2, ClassifyFromIs
<1> HIDE DEF c, text, phrase
<1>4. evidence[n].text # <<>> /\ c.phrase = matched_phrase(evidence[n].text)
  BY <1>3, ClassifyIs DEF Decides
<1>5. text = evidence[n].text
  <2> DEFINE at == {m \in DOMAIN evidence : evidence[m].kind = c.kind /\ evidence[m].text # <<>>}
  <2>1. at = {n}
    BY <1>3, <1>4
  <2>2. text = evidence[Min(at)].text
    BY <2>1 DEF TextOf, text
  <2>3. Min(at) \in at
    <3>1. at \subseteq Nat /\ at # {}
      BY <2>1
    <3> HIDE DEF at
    <3> QED BY <3>1, LeastIs
  <2> HIDE DEF at
  <2> QED BY <2>1, <2>2, <2>3
<1>6. phrase = c.phrase
  BY <1>4, <1>5 DEF phrase
<1> QED BY <1>1, <1>3, <1>5, <1>6 DEF hits, c

-----------------------------------------------------------------------------
(* The span verifier.                                                       *)

\* The answer of a model to one question: null, or some words and where they are said to stand.
IsAnswer(field, words) == field = V!NoField \/ field.value \in Seq(words)

\* What a checked field is, for a quote and for a code.
IsChecked(v, field, text, quoted) ==
  /\ v.quality # "dropped" => /\ v.start \in 1 .. v.end - 1 /\ v.end <= Len(text) + 1
                              /\ v.value = field.value
  /\ quoted /\ v.quality # "dropped" =>
       \/ v.quality = "exact" /\ V!Holds(text, v.start, v.end, v.value)
       \/ /\ v.quality = "recovered" /\ v.start \in V!Occurrences(v.value, text)
          /\ v.end = v.start + Len(v.value)
  /\ quoted /\ v.quality = "dropped" => V!Occurrences(field.value, text) = {}

\* verify has one outcome, and it is checked.
LEMMA VerifyIs ==
  ASSUME NEW W, NEW text \in Seq(W), NEW words, NEW field, IsAnswer(field, words), NEW quoted \in BOOLEAN
  PROVE  \A v \in V!verify(field, text, quoted) :
           IsChecked(v, field, text, quoted) /\ V!verify(field, text, quoted) = {v}
<1> DEFINE value == field.value
           found == V!Occurrences(value, text)
<1>1. CASE field = V!NoField \/ value = <<>>
  BY <1>1 DEF V!verify
<1>2. CASE ~(field = V!NoField \/ value = <<>>)
  <2>1. value \in Seq(words) /\ value # <<>>
    BY <1>2 DEF IsAnswer
  <2>2. Len(value) \in Nat /\ Len(value) >= 1 /\ Len(text) \in Nat
    BY <2>1
  <2>3. found \subseteq 1 .. Len(text) - Len(value) + 1
    BY DEF V!Occurrences
  <2> HIDE DEF found, value
  <2>4. ASSUME found # {} PROVE V!Min(found) \in found
    <3>1. found \subseteq Nat
      BY <2>2, <2>3
    <3>2. PICK k \in found : \A j \in found : k <= j
      BY <2>4, <3>1, NatLeast
    <3> QED BY <3>2 DEF V!Min
  <2> DEFINE kept == V!Verified(field, field.start, field.end, "exact")
             none == V!Verified(field, 1, 1, "dropped")
             first == V!Verified(field, V!Min(found), V!Min(found) + Len(value), "recovered")
  <2>5. /\ kept = [value |-> value, start |-> field.start, end |-> field.end, quality |-> "exact"]
        /\ none = [value |-> value, start |-> 1, end |-> 1, quality |-> "dropped"]
        /\ first = [value |-> value, start |-> V!Min(found), end |-> V!Min(found) + Len(value),
                    quality |-> "recovered"]
    BY DEF V!Verified, value
  <2> HIDE DEF kept, none, first
  <2>6. CASE ~quoted
    <3>1. V!verify(field, text, quoted) = {IF V!SpanIsSane(field, text) THEN kept ELSE none}
      BY <1>2, <2>6 DEF V!verify, kept, none, value
    <3>2. V!SpanIsSane(field, text) => field.start \in 1 .. field.end - 1 /\ field.end <= Len(text) + 1
      BY DEF V!SpanIsSane
    <3> QED BY <2>5, <2>6, <3>1, <3>2 DEF value, IsChecked
  <2>7. CASE quoted
    <3> DEFINE stands == /\ V!SpanIsSane(field, text) /\ V!Fold(value) # ""
                         /\ V!Holds(text, field.start, field.end, value)
    <3>1. V!Recover(field, text) = IF found = {} THEN none ELSE first
      BY DEF V!Recover, none, first, found, value
    <3>2. V!verify(field, text, quoted) = {IF stands THEN kept ELSE IF found = {} THEN none ELSE first}
      <4>1. V!verify(field, text, quoted) = {IF stands THEN kept ELSE V!Recover(field, text)}
        BY <1>2, <2>7 DEF V!verify, kept, value
      <4> QED BY <3>1, <4>1
    <3>3. stands => /\ field.start \in 1 .. field.end - 1 /\ field.end <= Len(text) + 1
                    /\ V!Holds(text, field.start, field.end, value)
      BY DEF V!SpanIsSane
    <3> HIDE DEF stands
    <3>4. found # {} => /\ V!Min(found) \in found
                        /\ V!Min(found) \in 1 .. V!Min(found) + Len(value) - 1
                        /\ V!Min(found) + Len(value) <= Len(text) + 1
      <4> DEFINE least == V!Min(found)
      <4>1. found # {} => least \in found
        BY <2>4
      <4> HIDE DEF least
      <4>2. ASSUME found # {} PROVE least \in 1 .. least + Len(value) - 1 /\ least + Len(value) <= Len(text) + 1
        <5>1. least \in 1 .. Len(text) - Len(value) + 1
          BY <2>3, <4>1, <4>2
        <5> QED BY <2>2, <5>1
      <4> QED BY <4>1, <4>2 DEF least
    <3>5. CASE stands
      BY <2>5, <3>2, <3>3, <3>5 DEF value, IsChecked
    <3>6. CASE ~stands /\ found = {}
      BY <2>5, <3>2, <3>6 DEF found, value, IsChecked
    <3>7. CASE ~stands /\ found # {}
      <4>1. V!verify(field, text, quoted) = {first}
        BY <3>2, <3>7
      <4>2. /\ first.value = value /\ first.start = V!Min(found) /\ first.end = V!Min(found) + Len(value)
            /\ first.quality = "recovered"
        BY <2>5
      <4>3. first.start \in V!Occurrences(first.value, text)
        BY <3>4, <3>7, <4>2 DEF found
      <4> QED BY <3>4, <3>7, <4>1, <4>2, <4>3 DEF value, IsChecked
    <3> QED BY <3>5, <3>6, <3>7
  <2> QED BY <2>6, <2>7
<1> QED BY <1>1, <1>2

\* Whatever a model answers, a move that build_move lets through has the required fields and a
\* destination, unless it is a retirement; every field of it that is kept is the answer, and
\* stands in the
\* text, a quoted one in the words that the span cuts out or at one of its occurrences; and a
\* quote that
\* occurs in the text is not dropped.
THEOREM EveryAnswerIsChecked ==
  ASSUME NEW W, NEW text \in Seq(W), NEW words, NEW raw, \A q \in DOMAIN raw : IsAnswer(raw[q], words),
         NEW move \in V!BuildMove(raw, text)
  PROVE  /\ REQUIRED_FIELDS \subseteq DOMAIN move.fields
         /\ \/ "to_firm" \in DOMAIN move.fields
            \/ ("move_type" \in DOMAIN move.fields /\ move.fields["move_type"].value = Retirement)
         /\ \A q \in DOMAIN move.fields : LET f == move.fields[q] IN
              /\ q \in DOMAIN raw /\ f.value = raw[q].value
              /\ f.start \in 1 .. f.end - 1 /\ f.end <= Len(text) + 1
              /\ q \notin CODED_FIELDS =>
                   \/ V!Holds(text, f.start, f.end, f.value)
                   \/ f.start \in V!Occurrences(f.value, text) /\ f.end = f.start + Len(f.value)
         /\ \A q \in move.dropped \ CODED_FIELDS : V!Occurrences(raw[q].value, text) = {}
<1> DEFINE checked(q) == V!verify(raw[q], text, q \notin CODED_FIELDS)
           kept == {q \in DOMAIN raw : \E v \in checked(q) : v.quality # "dropped"}
           fields == [q \in kept |-> CHOOSE v \in checked(q) : TRUE]
           retires == "move_type" \in kept /\ fields["move_type"].value = Retirement
           lost == {q \in DOMAIN raw : \E v \in checked(q) : v.quality = "dropped"}
<1>1. /\ REQUIRED_FIELDS \subseteq kept /\ ("to_firm" \in kept \/ retires)
      /\ move.fields = fields /\ move.dropped = lost
  <2>1. move \in IF REQUIRED_FIELDS \subseteq kept /\ ("to_firm" \in kept \/ retires)
                  THEN {[fields |-> fields, dropped |-> lost]} ELSE {}
    BY DEF V!BuildMove
  <2> HIDE DEF kept, fields, retires, lost
  <2> QED BY <2>1
<1>2. ASSUME NEW q \in kept
      PROVE  /\ fields[q].value = raw[q].value
             /\ fields[q].start \in 1 .. fields[q].end - 1 /\ fields[q].end <= Len(text) + 1
             /\ q \notin CODED_FIELDS =>
                  \/ V!Holds(text, fields[q].start, fields[q].end, fields[q].value)
                  \/ /\ fields[q].start \in V!Occurrences(fields[q].value, text)
                     /\ fields[q].end = fields[q].start + Len(fields[q].value)
  <2> DEFINE quoted == q \notin CODED_FIELDS
  <2>1. quoted \in BOOLEAN /\ IsAnswer(raw[q], words) /\ checked(q) = V!verify(raw[q], text, quoted)
    OBVIOUS
  <2>2. fields[q] \in checked(q) /\ \E v \in checked(q) : v.quality # "dropped"
    OBVIOUS
  <2> HIDE DEF checked, fields, quoted
  <2>3. \A v \in checked(q) : IsChecked(v, raw[q], text, quoted) /\ checked(q) = {v}
    BY <2>1, VerifyIs
  <2>4. fields[q].quality # "dropped" /\ IsChecked(fields[q], raw[q], text, quoted)
    BY <2>2, <2>3
  <2> QED BY <2>4 DEF quoted, IsChecked
<1>3. ASSUME NEW q \in lost \ CODED_FIELDS PROVE V!Occurrences(raw[q].value, text) = {}
  <2> DEFINE quoted == q \notin CODED_FIELDS
  <2>1. quoted \in BOOLEAN /\ IsAnswer(raw[q], words) /\ checked(q) = V!verify(raw[q], text, quoted)
    OBVIOUS
  <2>2. quoted /\ \E v \in checked(q) : v.quality = "dropped"
    OBVIOUS
  <2> HIDE DEF quoted, checked
  <2>3. \A v \in checked(q) : IsChecked(v, raw[q], text, quoted)
    BY <2>1, VerifyIs
  <2> QED BY <2>1, <2>2, <2>3 DEF IsChecked
<1>4. DOMAIN fields = kept /\ kept \subseteq DOMAIN raw
  OBVIOUS
<1> HIDE DEF fields, kept, lost
<1>10. "to_firm" \in kept \/ ("move_type" \in kept /\ fields["move_type"].value = Retirement)
  BY <1>1
<1>5. "to_firm" \in DOMAIN move.fields
        \/ ("move_type" \in DOMAIN move.fields /\ move.fields["move_type"].value = Retirement)
  <2>1. move.fields = fields /\ DOMAIN move.fields = kept
    BY <1>1, <1>4
  <2> QED BY <1>10, <2>1
<1>6. \A q \in DOMAIN move.fields : q \in kept /\ q \in DOMAIN raw /\ move.fields[q] = fields[q]
  BY <1>1, <1>4
<1>7. \A q \in move.dropped \ CODED_FIELDS : V!Occurrences(raw[q].value, text) = {}
  BY <1>1, <1>3
<1>8. REQUIRED_FIELDS \subseteq DOMAIN move.fields
  BY <1>1, <1>4
<1> QED BY <1>2, <1>5, <1>6, <1>7, <1>8
=============================================================================
