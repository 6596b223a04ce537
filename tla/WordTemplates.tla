---------------------------- MODULE WordTemplates ----------------------------
(***************************************************************************)
(* The patterns of extract/rules.py, body_rules.py and roles.py, as the    *)
(* regular expressions of Python read a text of words: a template is a     *)
(* sequence of parts, and the match is the one that a search with          *)
(* backtracking meets first.  A bound in characters is a bound in words.   *)
(***************************************************************************)
EXTENDS Integers, SequencesExt

NoSlot == "none"

\* One of some phrases.
Lit(phrases) == [kind |-> "phrase", phrases |-> phrases, slot |-> NoSlot, lazy |-> FALSE]
Word(words) == Lit({<<w>> : w \in words})
Maybe(words) == Lit({<<>>} \cup {<<w>> : w \in words})

\* A run of min to max words; a lazy one is as short as the rest allows.
Run(slot, words, min, max, lazy) ==
  [kind |-> "run", first |-> words, words |-> words, min |-> min, max |-> max, slot |-> slot,
   lazy |-> lazy]

\* The same, the first word from a set of its own.
Led(run, first) == [run EXCEPT !.first = first]

\* Names parted by commas, the last of two or more by "and"; with `alone` one name
\* will do.
List(name, alone) == [kind |-> "list", name |-> name, slot |-> name.slot, lazy |-> FALSE, alone |-> alone]

RunEnds(part, text, start) ==
  {end \in start + part.min .. start + part.max :
     /\ end <= Len(text) + 1
     /\ \A n \in start .. end - 1 : text[n] \in part.words
     /\ end > start => text[start] \in part.first}

At(text, n, word) == n <= Len(text) /\ text[n] = word

\* Where a name may begin after an "and" at n, and a comma before it.
AfterAnd(text, n) == {m \in {n + 1, n + 2} : At(text, m - 1, "and") /\ (m = n + 2 => At(text, n, ","))}

\* Where one may get from each position, `next` being where the next step may end.
Onward(next) ==
  LET from[n \in DOMAIN next] == {n} \cup UNION {from[end] : end \in next[n]}
  IN from

ListEnds(part, text, start) ==
  LET names(starts) == UNION {RunEnds(part.name, text, m) : m \in starts}
      anded == [n \in 1 .. Len(text) + 1 |-> names(AfterAnd(text, n))]
      commas == [n \in 1 .. Len(text) + 1 |-> names({m \in {n + 1} : At(text, n, ",")})]
  IN UNION {(IF part.alone THEN {n} ELSE {}) \cup UNION {Onward(anded)[end] : end \in anded[n]} :
              n \in UNION {Onward(commas)[end] : end \in RunEnds(part.name, text, start)}}

\* Where `part` may end when it starts at `start`: the first position after it.
Ends(part, text, start) ==
  CASE part.kind = "phrase" ->
         {start + Len(p) : p \in {q \in part.phrases : IsPrefix(q, SubSeq(text, start, Len(text)))}}
    [] part.kind = "run"  -> RunEnds(part, text, start)
    [] part.kind = "list" -> ListEnds(part, text, start)

\* Of <<end, what follows>>, the one that backtracking meets first, in a set.
Preferred(paths, lazy) ==
  LET open == {p \in paths : p[2] # {}}
  IN UNION {{<<p[1]>> \o rest : rest \in p[2]} :
              p \in {q \in open : \A o \in open : IF lazy THEN q[1] <= o[1] ELSE q[1] >= o[1]}}

\* The match of the parts from `start` on, as the sequence of their ends, in a set
\* that is empty when there is none; a `whole` match ends with the text.
Match(parts, text, start, whole) ==
  LET from[k \in 1 .. Len(parts) + 1] ==
        [n \in 1 .. Len(text) + 1 |->
           IF k > Len(parts) THEN IF whole => n = Len(text) + 1 THEN {<<>>} ELSE {}
           ELSE Preferred({<<end, from[k + 1][end]>> : end \in Ends(parts[k], text, n)}, parts[k].lazy)]
  IN {<<start>> \o ends : ends \in from[1][start]}

HasSlot(parts, slot) == \E k \in DOMAIN parts : parts[k].slot = slot

\* The words a match gives to a slot: from its start to the position after it.
Span(parts, match, slot) ==
  LET k == CHOOSE k \in DOMAIN parts : parts[k].slot = slot
  IN [start |-> match[k], end |-> match[k + 1]]

Cut(text, span) == SubSeq(text, span.start, span.end - 1)

\* The matches from n on, `here` being the one that starts at n, if any, and `from`
\* those from each later position on.
LeftToRight(n, here, from) ==
  IF here = {} THEN from[n + 1]
  ELSE LET m == CHOOSE m \in here : TRUE IN <<m>> \o from[IF Last(m) > n THEN Last(m) ELSE n + 1]

\* Every match in `text`, from the left, none overlapping the one before.
Matches(parts, text) ==
  LET from[n \in 1 .. Len(text) + 2] ==
        IF n > Len(text) THEN <<>> ELSE LeftToRight(n, Match(parts, text, n, FALSE), from)
  IN from[1]

\* str.find, and re.search for an escaped phrase: the words at which the letters of
\* the phrase begin to stand, inside another word too.
Occurrences(phrase, text) ==
  {n \in 1 .. Len(text) - Len(phrase) + 1 :
     LET from == SubSeq(text, n, n + Len(phrase) - 1)
         ending == SubSeq(from[1], Len(from[1]) - Len(phrase[1]) + 1, Len(from[1]))
     IN IF Len(phrase) = 1 THEN phrase[1] \in SubSeqs(from[1])
        ELSE /\ Len(phrase[1]) <= Len(from[1]) /\ ending = phrase[1]
             /\ IsPrefix(Last(phrase), Last(from))
             /\ \A k \in 2 .. Len(phrase) - 1 : from[k] = phrase[k]}

\* The items of a sequence at some of its positions.
Where(s, positions) == FlattenSeq([n \in DOMAIN s |-> IF n \in positions THEN <<s[n]>> ELSE <<>>])

\* re.split(r"\s*,\s*|\s+and\s+"): the names of a list, as spans; an "and" needs a
\* word on either side.
SplitNames(text, span) ==
  LET cuts == {n \in span.start .. span.end - 1 :
                 text[n] = "," \/ (text[n] = "and" /\ n \in span.start + 1 .. span.end - 2)}
      begins == {n \in (span.start .. span.end - 1) \ cuts : n = span.start \/ n - 1 \in cuts}
      name(n) == [start |-> n, end |-> Min({m \in n .. span.end : m = span.end \/ m \in cuts})]
  IN FlattenSeq([n \in DOMAIN text |-> IF n \in begins THEN <<name(n)>> ELSE <<>>])
=============================================================================
