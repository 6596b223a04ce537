----------------------------- MODULE Confidence -----------------------------
(***************************************************************************)
(* tracker/extract/confidence.py: how sure a row is, from the evidence for *)
(* it, when it is filed (score) and when a merge brings more sources       *)
(* (recompute_with_corroboration).  The factors are counted in hundredths  *)
(* and the total in 10^-8, times the number of verified fields, by which   *)
(* the mean of their qualities is divided; the model's own confidence is a *)
(* number of ten-thousandths, a digit more than is stored.  So only the    *)
(* roundings of the code round.                                            *)
(***************************************************************************)
EXTENDS Integers, FiniteSetsExt

AUTO_ACCEPT_THRESHOLD == 850      \* of totals, which are thousandths
TIER_BASE == <<95, 88, 70>>
SummaryIsEnough == [full_public |-> 100, summary |-> 98, headline_only |-> 98]  \* mutant
ACCESS_FACTOR == [full_public |-> 100, summary |-> 98, headline_only |-> 88]
EXACT == 1000                     \* SPAN_QUALITY_SCORE, in thousandths
RECOVERED == 900
SPAN_FLOOR == 9000                \* of 10000, the rest is span quality
COMPLETENESS_WEIGHTS ==
  [from_firm |-> 30, title_to |-> 15, office_jurisdiction |-> 25,
   practice_text |-> 25, partner_tier |-> 5]
COMPLETENESS_BONUS == 5
DROPPED_FIELD_PENALTY == 6
DROPPED_FIELDS_FORCING_REVIEW == 2
SELF_REPORTED_REVIEW_FLOOR == 600 \* thousandths
CORROBORATION_STEP == 4
CORROBORATION_CAP == 10

\* The model's own confidence, in ten-thousandths.
SelfReports == 0 .. 10000

\* What extraction found out about one move.  There is always a verified field:
\* a reading without a person is no move (extractor.py, _build_move).
IsEvidence(e) ==
  /\ e.tier \in DOMAIN TIER_BASE
  /\ e.access \in DOMAIN ACCESS_FACTOR
  /\ e.present \subseteq DOMAIN COMPLETENESS_WEIGHTS
  /\ e.exact \in Nat /\ e.recovered \in Nat
  /\ e.exact + e.recovered >= Max({1, Cardinality(e.present)})
  /\ e.self \in SelfReports
  /\ e.dropped \in Nat

Share(present, field) == IF field \in present THEN COMPLETENESS_WEIGHTS[field] ELSE 0

\* The weights add up to 100, so the code's quotient is this sum.
completeness(present) ==
  Share(present, "from_firm") + Share(present, "title_to")
    + Share(present, "office_jurisdiction") + Share(present, "practice_text")
    + Share(present, "partner_tier")

\* Mutant: the first source counts as an additional one.
CountsItself(count) == Min({CORROBORATION_CAP, CORROBORATION_STEP * count})

bonus(count) == Min({CORROBORATION_CAP, CORROBORATION_STEP * (count - 1)})

\* round(x / unit): either neighbour at a tie, where binary fractions decide.
Rounded(x, unit) ==
  {k \in {x \div unit, x \div unit + 1} : 2 * (k * unit - x) \in -unit .. unit}

\* The formula both functions write out, rounded to thousandths: `spans` is the
\* sum of the qualities of `fields` fields.
Totals(tier_base, access, spans, fields, comp, count, dropped) ==
  LET one == 100000000 * fields
      total == tier_base * access * (SPAN_FLOOR * fields + spans)
                 + fields * (10000 * COMPLETENESS_BONUS * comp
                             + 1000000 * (bonus(count) - DROPPED_FIELD_PENALTY * dropped))
  IN Rounded(Max({0, Min({one, total})}), 100000 * fields)

SpanSum(e) == EXACT * e.exact + RECOVERED * e.recovered

\* The outcomes of score() for a row of one source.
score(e) ==
  [total : Totals(TIER_BASE[e.tier], ACCESS_FACTOR[e.access], SpanSum(e),
                  e.exact + e.recovered, completeness(e.present), 1, e.dropped),
   forced : {e.dropped >= DROPPED_FIELDS_FORCING_REVIEW \/ e.self < 10 * SELF_REPORTED_REVIEW_FLOOR}]

\* confidence_components, as the row keeps them.
Stored(e) ==
  [tier_base : {TIER_BASE[e.tier]}, access_factor : {ACCESS_FACTOR[e.access]},
   completeness : {completeness(e.present)},
   span_quality : Rounded(SpanSum(e), e.exact + e.recovered),
   self_reported : Rounded(e.self, 10), dropped_fields : {e.dropped}]

\* Mutant: the penalty is not reproduced.
RecomputeForgiving(c, count) ==
  [total : Totals(c.tier_base, c.access_factor, c.span_quality, 1, c.completeness, count, 0),
   forced : {\/ c.dropped_fields >= DROPPED_FIELDS_FORCING_REVIEW
             \/ c.self_reported \in 1 .. SELF_REPORTED_REVIEW_FLOOR - 1}]

recompute_with_corroboration(c, count) ==
  [total : Totals(c.tier_base, c.access_factor, c.span_quality, 1, c.completeness, count,
                  c.dropped_fields),
   forced : {\/ c.dropped_fields >= DROPPED_FIELDS_FORCING_REVIEW
             \/ c.self_reported \in 1 .. SELF_REPORTED_REVIEW_FLOOR - 1}]

needs_review(result) == result.forced \/ result.total < AUTO_ACCEPT_THRESHOLD

\* A row may enter the dataset unseen with `count` sources: as filed, or merged.
FiledUnseen(e) == \E r \in score(e) : ~needs_review(r)
MergedUnseen(e, count) ==
  \E c \in Stored(e) : \E r \in recompute_with_corroboration(c, count) : ~needs_review(r)

-----------------------------------------------------------------------------
(* What the scores promise about one row.                                   *)

\* The confidence that is stored is on the side of the floor the reported one is on.
\* It is not for one that rounds to 0, or up to 0.6.
StaysOnItsSide(self) ==
  \A s \in Rounded(self, 10) :
    s > 0 /\ (s < SELF_REPORTED_REVIEW_FLOOR <=> self < 10 * SELF_REPORTED_REVIEW_FLOOR)

\* Reading a stored row back with one source gives the verdict it was filed with,
\* although its components were rounded and the formula is written twice; on a
\* tie of the rounding one of the outcomes does.  Where the model's own confidence
\* is rounded across the floor, the verdict can only become milder.
SameVerdict(e) ==
  \A c \in Stored(e) : \E r \in score(e) : \E m \in recompute_with_corroboration(c, 1) :
    /\ needs_review(m) => needs_review(r)
    /\ StaysOnItsSide(e.self) => needs_review(r) = needs_review(m)

\* An aggregator's row needs four sources, and then a full text that states
\* every field.
AggregatorNeedsFour(e, count) ==
  e.tier = 3 /\ (FiledUnseen(e) \/ MergedUnseen(e, count)) =>
    /\ count >= 4
    /\ e.access = "full_public"
    /\ e.dropped = 0
    /\ e.present = DOMAIN COMPLETENESS_WEIGHTS

\* A headline is accepted without a second source only from a firm's own newsroom.
HeadlineNeedsFirm(e) == e.access = "headline_only" /\ FiledUnseen(e) => e.tier = 1
=============================================================================
