---------------------------- MODULE SpanVerifier ----------------------------
(***************************************************************************)
(* extract/spans.py, and extractor.py's _build_move: every field of a      *)
(* model's answer is checked against the words it points at, repaired when *)
(* they are elsewhere in the text and dropped when they are not there.  A  *)
(* text is a sequence of words; a field [value, start, end] quotes a       *)
(* sequence of words, or <<>> for null, and points at words start to       *)
(* end - 1.                                                                *)
(***************************************************************************)
EXTENDS WordTemplates

CONSTANTS CODED_FIELDS, REQUIRED_FIELDS, Retirement   \* Retirement: the value of move_type

NoField == <<>>
Marks == {",", ".", "-", "&", "line break"}

Verified(field, start, end, quality) ==
  [value |-> field.value, start |-> start, end |-> end, quality |-> quality]

\* _fold: letters and digits, the spaces and the marks between them gone.
Fold(words) == FoldLeft(LAMBDA sum, w : sum \o w, "", SelectSeq(words, LAMBDA w : w \notin Marks))

SpanIsSane(field, text) == field.start \in 1 .. field.end - 1 /\ field.end <= Len(text) + 1

Holds(text, start, end, value) == Fold(value) \in SubSeqs(Fold(SubSeq(text, start, end - 1)))

\* Mutant: the repaired field keeps the span the model gave.
KeepSpan(field, text) ==
  LET found == Occurrences(field.value, text)
  IN IF found = {} THEN Verified(field, 1, 1, "dropped")
     ELSE Verified(field, field.start, field.end, "recovered")

\* The quote is somewhere else, _find_verbatim, or nowhere.
Recover(field, text) ==
  LET found == Occurrences(field.value, text)
  IN IF found = {} THEN Verified(field, 1, 1, "dropped")
     ELSE Verified(field, Min(found), Min(found) + Len(field.value), "recovered")

\* verify: in a set that is empty for a field the model left null.
verify(field, text, value_must_appear) ==
  IF field = NoField \/ field.value = <<>> THEN {}
  ELSE IF ~value_must_appear
  THEN {IF SpanIsSane(field, text) THEN Verified(field, field.start, field.end, "exact")
        ELSE Verified(field, 1, 1, "dropped")}
  ELSE {IF /\ SpanIsSane(field, text) /\ Fold(field.value) # ""
           /\ Holds(text, field.start, field.end, field.value)
        THEN Verified(field, field.start, field.end, "exact")
        ELSE Recover(field, text)}

\* _build_move: the fields that were kept and the names of the dropped ones, in a
\* set that is empty when there is no person, or nowhere the person went.
BuildMove(raw, text) ==
  LET checked(name) == verify(raw[name], text, name \notin CODED_FIELDS)
      kept == {name \in DOMAIN raw : \E v \in checked(name) : v.quality # "dropped"}
      fields == [name \in kept |-> CHOOSE v \in checked(name) : TRUE]
      retires == "move_type" \in kept /\ fields["move_type"].value = Retirement
  IN IF REQUIRED_FIELDS \subseteq kept /\ ("to_firm" \in kept \/ retires)
     THEN {[fields |-> fields,
            dropped |-> {name \in DOMAIN raw : \E v \in checked(name) : v.quality = "dropped"}]}
     ELSE {}

-----------------------------------------------------------------------------
(* Promises (spans.py, the header).                                        *)

\* What is kept stands in the words that are cited, what is dropped stands
\* nowhere, and a move names a person and, unless they retire, a destination.
NothingInvented(raw, text) ==
  \A move \in BuildMove(raw, text) :
    /\ "person_name" \in DOMAIN move.fields
    /\ "to_firm" \in DOMAIN move.fields \/ move.fields["move_type"].value = Retirement
    /\ \A name \in DOMAIN move.fields \ CODED_FIELDS : LET f == move.fields[name] IN
         /\ f.start \in 1 .. f.end - 1 /\ f.end <= Len(text) + 1
         /\ Holds(text, f.start, f.end, f.value)
    /\ \A name \in move.dropped \ CODED_FIELDS : Occurrences(raw[name].value, text) = {}
=============================================================================
