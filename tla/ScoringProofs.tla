--------------------------- MODULE ScoringProofs ---------------------------
(***************************************************************************)
(* The two scores, for every input.  The theorems named Every... are about *)
(* the operators of PairScore and Confidence and any two reports, any      *)
(* evidence and any number of sources; the theorems of the specification   *)
(* follow from them, because its steps draw reports and evidence only.     *)
(*                                                                         *)
(* The sums are compared before they are cut off and rounded: a total of   *)
(* 850 thousandths is a sum of 84.95 hundredths or more, and everything    *)
(* the two sums add up from is bounded by lemmas of its own.  The one      *)
(* fact that is not linear, that rounding the mean of up to sixteen        *)
(* qualities never carries a row across the threshold, is split into the   *)
(* nine products of a tier and an access level.                            *)
(***************************************************************************)
EXTENDS MCScoring, FiniteSetTheorems, TLAPS

-----------------------------------------------------------------------------
(* Two reports.                                                            *)

\* The distance of two days is a natural number and the same both ways.
LEMMA DaysBothWays ==
  ASSUME NEW x, NEW y, x.announced \in Int, y.announced \in Int
  PROVE  /\ DaysApart(x, y) = DaysApart(y, x)
         /\ DaysApart(x, y) \in Nat
         /\ DaysApart(x, y) = 0 => x.announced = y.announced
BY DEF DaysApart

\* The gate on given names does not tell the first report from the second
\* (compare_given, 104-140).
LEMMA GivenBothWays ==
  ASSUME NEW x, NEW y
  PROVE  compare_given(x, y) = compare_given(y, x)
<1> DEFINE one == GivenTokens[x.name]
           other == GivenTokens[y.name]
<1>1. shared_spellings(x, y) = shared_spellings(y, x)
  BY DEF shared_spellings
<1>2. initial_compatible(one, other) <=> initial_compatible(other, one)
  BY DEF initial_compatible
<1>3. <<>> \in {one, other} <=> <<>> \in {other, one}
  OBVIOUS
<1>4. one[1] = other[1] <=> other[1] = one[1]
  OBVIOUS
<1> QED BY <1>1, <1>2, <1>3, <1>4 DEF compare_given

\* Nor does a field's weight (_agreement, 143-154).
LEMMA AgreementBothWays ==
  ASSUME NEW p, NEW q, NEW agree, NEW conflict
  PROVE  agreement(p, q, agree, conflict) = agreement(q, p, agree, conflict)
BY DEF agreement

\* The verdict of any two reports, of whatever names, fields and days, is the same
\* both ways round (score_pair, 184-252): a merge does not depend on the order in
\* which the query returns the rows.
THEOREM EveryVerdictSymmetric ==
  ASSUME NEW x, NEW y, x.announced \in Int, y.announced \in Int
  PROVE  Symmetric(x, y)
<1>1. DaysApart(x, y) = DaysApart(y, x)
  BY DaysBothWays
<1>2. compare_given(x, y) = compare_given(y, x)
  BY GivenBothWays
<1>3. \A given : Weighed(given, x, y) = Weighed(given, y, x)
  BY <1>1, AgreementBothWays DEF Weighed
<1> QED BY <1>2, <1>3 DEF Symmetric, score_pair

\* The three weights a field may have, and what each says of the two reports.
LEMMA AgreementIs ==
  ASSUME NEW p, NEW q, NEW agree \in Int, NEW conflict \in Int
  PROVE  /\ agreement(p, q, agree, conflict) \in {0, agree, conflict}
         /\ agreement(p, q, agree, conflict) = agree /\ agree # 0 /\ agree # conflict
              => Agrees(p, q)
         /\ Unstated \notin {p, q} /\ p # q => agreement(p, q, agree, conflict) = conflict
BY DEF agreement, Agrees

\* The weight of the days between two reports: 125 is 45 days or fewer, 500 the
\* same day.
LEMMA ProximityIs ==
  ASSUME NEW days \in Nat
  PROVE  /\ proximity(days) \in 0 .. 500
         /\ proximity(days) >= 125 => days <= 45
         /\ proximity(days) = 500 => days = 0
BY DEF proximity, WINDOW_DAYS, PROXIMITY_MAX

\* Cutting a total off at 0 and 10000 does not make it one that merges.
LEMMA BoundedMerges ==
  ASSUME NEW total \in Int, decision(Bounded(total)) = "merge"
  PROVE  total >= 8500
BY DEF decision, Bounded, MERGE_THRESHOLD, AMBIGUOUS_THRESHOLD

\* The five outcomes of the gate on given names.
LEMMA GivenIs ==
  ASSUME NEW x, NEW y
  PROVE  compare_given(x, y) \in {Given("agree", 100), Given("agree", 90), Given("unknown", 50),
                                  Given("partial", 75), Given("disagree", 0)}
BY DEF compare_given

\* What a merged pair weighs, part by part.
LEMMA MergedWeight ==
  ASSUME NEW x, NEW y, x.announced \in Int, y.announced \in Int,
         score_pair(x, y) = "merge"
  PROVE  LET given == compare_given(x, y)
         IN /\ given.kind \in {"agree", "partial"}
            /\ given.percent \in {75, 90, 100}
            /\ given.kind = "partial" => given.percent = 75
            /\ 85 * given.percent
                 + agreement(x.from_firm, y.from_firm, 1000, -1500)
                 + agreement(x.office, y.office, 500, -1000)
                 + agreement(x.title_to, y.title_to, 500, 0)
                 + proximity(DaysApart(x, y)) >= 8500
<1> DEFINE given == compare_given(x, y)
           firm == agreement(x.from_firm, y.from_firm, 1000, -1500)
           office == agreement(x.office, y.office, 500, -1000)
           title == agreement(x.title_to, y.title_to, 500, 0)
           near == proximity(DaysApart(x, y))
           total == 85 * given.percent + firm + office + title + near
<1>1. given.kind # "disagree" /\ given.kind # "unknown"
  BY DEF score_pair
<1>2. /\ given.kind \in {"agree", "partial"}
      /\ given.percent \in {75, 90, 100}
      /\ given.kind = "partial" => given.percent = 75
  BY <1>1, GivenIs DEF Given
<1>3. firm \in Int /\ office \in Int /\ title \in Int
  BY AgreementIs
<1>4. near \in Int
  <2>1. DaysApart(x, y) \in Nat
    BY DaysBothWays
  <2> QED BY <2>1, ProximityIs
<1>5. decision(Weighed(given, x, y)) = "merge"
  BY <1>1 DEF score_pair
<1>6. (8500 * given.percent) \div 100 = 85 * given.percent
  BY <1>2
<1>7. Weighed(given, x, y) = Bounded(total)
  BY <1>6 DEF Weighed, BASE, AGREE_FROM_FIRM, CONFLICT_FROM_FIRM, AGREE_JURISDICTION,
              CONFLICT_JURISDICTION, AGREE_TITLE
<1>8. total \in Int
  BY <1>2, <1>3, <1>4
<1> HIDE DEF total
<1>9. total >= 8500
  BY <1>5, <1>7, <1>8, BoundedMerges
<1> QED BY <1>2, <1>9 DEF total

\* Whatever the names and the days, an initial is merged with a full name only when
\* origin, office and title agree and the reports are at most 45 days apart
\* (score_pair, 217-245): 6375 needs all four bonuses to reach 8500.
THEOREM EveryInitialCorroborated ==
  ASSUME NEW x, NEW y, x.announced \in Int, y.announced \in Int
  PROVE  InitialNeedsEverything(x, y)
<1> SUFFICES ASSUME compare_given(x, y).kind = "partial", score_pair(x, y) = "merge"
             PROVE  /\ Agrees(x.from_firm, y.from_firm)
                    /\ Agrees(x.office, y.office)
                    /\ Agrees(x.title_to, y.title_to)
                    /\ DaysApart(x, y) <= 45
  BY DEF InitialNeedsEverything
<1> DEFINE firm == agreement(x.from_firm, y.from_firm, 1000, -1500)
           office == agreement(x.office, y.office, 500, -1000)
           title == agreement(x.title_to, y.title_to, 500, 0)
           near == proximity(DaysApart(x, y))
<1>1. 85 * 75 + firm + office + title + near >= 8500
  BY MergedWeight
<1>2. /\ firm \in {0, 1000, -1500} /\ office \in {0, 500, -1000} /\ title \in {0, 500}
      /\ firm = 1000 => Agrees(x.from_firm, y.from_firm)
      /\ office = 500 => Agrees(x.office, y.office)
      /\ title = 500 => Agrees(x.title_to, y.title_to)
  BY AgreementIs
<1>3. near \in 0 .. 500 /\ (near >= 125 => DaysApart(x, y) <= 45)
  BY DaysBothWays, ProximityIs
<1> HIDE DEF firm, office, title, near
<1>4. firm = 1000 /\ office = 500 /\ title = 500 /\ near >= 125
  BY <1>1, <1>2, <1>3
<1> QED BY <1>2, <1>3, <1>4

\* Whatever the names and the days, reports that name two origin firms merge only
\* with the whole given name, office and title the same, on the same day
\* (score_pair, 217-245): 8500 - 1500 needs the three other bonuses in full.
THEOREM EveryOriginConflictReviewed ==
  ASSUME NEW x, NEW y, x.announced \in Int, y.announced \in Int
  PROVE  OriginConflictIsReviewed(x, y)
<1> SUFFICES ASSUME Unstated \notin {x.from_firm, y.from_firm}, x.from_firm # y.from_firm,
                    score_pair(x, y) = "merge"
             PROVE  /\ compare_given(x, y).percent = 100
                    /\ Agrees(x.office, y.office)
                    /\ Agrees(x.title_to, y.title_to)
                    /\ x.announced = y.announced
  BY DEF OriginConflictIsReviewed
<1> DEFINE percent == compare_given(x, y).percent
           firm == agreement(x.from_firm, y.from_firm, 1000, -1500)
           office == agreement(x.office, y.office, 500, -1000)
           title == agreement(x.title_to, y.title_to, 500, 0)
           near == proximity(DaysApart(x, y))
<1>1. 85 * percent + firm + office + title + near >= 8500 /\ percent \in {75, 90, 100}
  BY MergedWeight
<1>2. /\ firm = -1500 /\ office \in {0, 500, -1000} /\ title \in {0, 500}
      /\ office = 500 => Agrees(x.office, y.office)
      /\ title = 500 => Agrees(x.title_to, y.title_to)
  BY AgreementIs
<1>3. near \in 0 .. 500 /\ (near = 500 => x.announced = y.announced)
  <2>1. DaysApart(x, y) \in Nat /\ (DaysApart(x, y) = 0 => x.announced = y.announced)
    BY DaysBothWays
  <2>2. near \in 0 .. 500 /\ (near = 500 => DaysApart(x, y) = 0)
    BY <2>1, ProximityIs
  <2> QED BY <2>1, <2>2
<1> HIDE DEF percent, firm, office, title, near
<1>4. percent = 100 /\ office = 500 /\ title = 500 /\ near = 500
  BY <1>1, <1>2, <1>3
<1> QED BY <1>2, <1>3, <1>4 DEF percent

-----------------------------------------------------------------------------
(* Arithmetic, and the parts of a score.                                   *)

\* The greater of two integers.
LEMMA MaxOfTwo ==
  ASSUME NEW p \in Int, NEW q \in Int
  PROVE  /\ Max({p, q}) \in {p, q}
         /\ Max({p, q}) >= p /\ Max({p, q}) >= q
<1>1. \E m \in {p, q} : \A n \in {p, q} : m >= n
  <2>1. CASE p >= q  BY <2>1
  <2>2. CASE q >= p  BY <2>2
  <2> QED BY <2>1, <2>2
<1> QED BY <1>1 DEF Max

\* The smaller of two integers.
LEMMA MinOfTwo ==
  ASSUME NEW p \in Int, NEW q \in Int
  PROVE  /\ Min({p, q}) \in {p, q}
         /\ Min({p, q}) <= p /\ Min({p, q}) <= q
<1>1. \E m \in {p, q} : \A n \in {p, q} : m =< n
  <2>1. CASE p <= q  BY <2>1
  <2>2. CASE q <= p  BY <2>2
  <2> QED BY <2>1, <2>2
<1> QED BY <1>1 DEF Min

\* A product with a natural number grows with the other factor.
LEMMA TimesGrows ==
  ASSUME NEW k \in Int, NEW m \in Int, NEW n \in Nat, m <= k
  PROVE  m * n <= k * n
<1>1. (k - m) * n >= 0
  OBVIOUS
<1>2. (k - m) * n = k * n - m * n
  OBVIOUS
<1> HIDE <1>1
<1>3. k * n \in Int /\ m * n \in Int
  OBVIOUS
<1> QED BY <1>1, <1>2, <1>3

\* A positive factor cancels from both sides of a comparison.
LEMMA TimesCancels ==
  ASSUME NEW k \in Int, NEW m \in Int, NEW n \in Nat \ {0}, k * n < m * n
  PROVE  k < m
<1>1. CASE m <= k
  <2>1. m * n <= k * n
    BY <1>1, TimesGrows
  <2> QED BY <2>1
<1> QED BY <1>1

\* Corroboration adds at most 10, at most 8 for three sources, and nothing for one.
LEMMA BonusIs ==
  ASSUME NEW count \in Nat, count >= 1
  PROVE  /\ bonus(count) \in 0 .. 10
         /\ count = 1 => bonus(count) = 0
         /\ count <= 3 => bonus(count) <= 8
<1> DEFINE steps == 4 * (count - 1)
<1>1. /\ steps \in Nat
      /\ count = 1 => steps = 0
      /\ count <= 3 => steps <= 8
  OBVIOUS
<1>2. bonus(count) = Min({10, steps})
  BY DEF bonus, CORROBORATION_CAP, CORROBORATION_STEP
<1> HIDE DEF steps
<1>3. Min({10, steps}) \in {10, steps} /\ Min({10, steps}) <= 10 /\ Min({10, steps}) <= steps
  BY <1>1, MinOfTwo
<1> QED BY <1>1, <1>2, <1>3

\* Completeness is a percentage, and only a row that states every field is above 95.
LEMMA CompletenessIs ==
  ASSUME NEW present \in SUBSET DOMAIN COMPLETENESS_WEIGHTS
  PROVE  /\ completeness(present) \in 0 .. 100
         /\ completeness(present) > 95 => present = DOMAIN COMPLETENESS_WEIGHTS
BY DEF completeness, Share, COMPLETENESS_WEIGHTS

\* A rounded quotient is at most half a unit above the quotient.
LEMMA RoundedIs ==
  ASSUME NEW x \in Int, NEW unit \in Nat, NEW k \in Rounded(x, unit)
  PROVE  /\ k \in Int
         /\ 2 * (k * unit) <= 2 * x + unit
BY DEF Rounded

\* A total that is accepted, before it is cut off and rounded.
LEMMA AcceptedTotal ==
  ASSUME NEW one \in Int, NEW unit \in Nat \ {0}, NEW weight \in Int,
         NEW total \in Rounded(Max({0, Min({one, weight})}), unit),
         ~(total < AUTO_ACCEPT_THRESHOLD)
  PROVE  2 * weight >= 1699 * unit
<1> DEFINE bounded == Min({one, weight})
           kept == Max({0, bounded})
<1>1. bounded \in Int /\ bounded <= weight
  BY MinOfTwo
<1>2. kept \in Int /\ (kept > 0 => kept <= weight)
  <2>1. 0 \in Int
    OBVIOUS
  <2> HIDE DEF bounded
  <2>2. kept \in {0, bounded}
    BY <1>1, <2>1, MaxOfTwo, Zenon
  <2> HIDE DEF kept
  <2> QED BY <1>1, <2>2
<1>3. total \in Int /\ 2 * (total * unit) <= 2 * kept + unit
  <2>1. total \in Rounded(kept, unit)
    OBVIOUS
  <2> HIDE DEF kept
  <2> QED BY <1>2, <2>1, RoundedIs
<1> HIDE DEF kept, bounded
<1>4. 850 * unit <= total * unit /\ total * unit \in Int
  BY <1>3, TimesGrows DEF AUTO_ACCEPT_THRESHOLD
<1>5. 1699 * unit <= 2 * kept
  BY <1>2, <1>3, <1>4
<1> QED BY <1>2, <1>5

\* One more element makes a finite set at most one larger.
LEMMA OneMore ==
  ASSUME NEW S, NEW x, IsFiniteSet(S)
  PROVE  /\ IsFiniteSet(S \cup {x})
         /\ Cardinality(S \cup {x}) \in Nat
         /\ Cardinality(S) \in Nat
         /\ Cardinality(S \cup {x}) <= Cardinality(S) + 1
<1>1. Cardinality(S) \in Nat
  BY FS_CardinalityType
<1>2. IsFiniteSet(S \cup {x}) /\ Cardinality(S \cup {x}) \in {Cardinality(S), Cardinality(S) + 1}
  BY FS_AddElement
<1> QED BY <1>1, <1>2

\* There are five fields that completeness counts.
LEMMA FiveFields ==
  IsFiniteSet(DOMAIN COMPLETENESS_WEIGHTS) /\ Cardinality(DOMAIN COMPLETENESS_WEIGHTS) <= 5
<1> DEFINE one == {"from_firm"}
           two == one \cup {"title_to"}
           three == two \cup {"office_jurisdiction"}
           four == three \cup {"practice_text"}
           five == four \cup {"partner_tier"}
<1>1. IsFiniteSet(one) /\ Cardinality(one) <= 1
  BY FS_Singleton
<1>2. DOMAIN COMPLETENESS_WEIGHTS = five
  BY DEF COMPLETENESS_WEIGHTS
<1> HIDE DEF one
<1>3. IsFiniteSet(two) /\ Cardinality(two) <= 2
  <2>1. /\ IsFiniteSet(one \cup {"title_to"})
        /\ Cardinality(one \cup {"title_to"}) \in Nat
        /\ Cardinality(one) \in Nat
        /\ Cardinality(one \cup {"title_to"}) <= Cardinality(one) + 1
    BY <1>1, OneMore, Zenon
  <2> QED BY <1>1, <2>1
<1> HIDE DEF two
<1>4. IsFiniteSet(three) /\ Cardinality(three) <= 3
  <2>1. /\ IsFiniteSet(two \cup {"office_jurisdiction"})
        /\ Cardinality(two \cup {"office_jurisdiction"}) \in Nat
        /\ Cardinality(two) \in Nat
        /\ Cardinality(two \cup {"office_jurisdiction"}) <= Cardinality(two) + 1
    BY <1>3, OneMore, Zenon
  <2> QED BY <1>3, <2>1
<1> HIDE DEF three
<1>5. IsFiniteSet(four) /\ Cardinality(four) <= 4
  <2>1. /\ IsFiniteSet(three \cup {"practice_text"})
        /\ Cardinality(three \cup {"practice_text"}) \in Nat
        /\ Cardinality(three) \in Nat
        /\ Cardinality(three \cup {"practice_text"}) <= Cardinality(three) + 1
    BY <1>4, OneMore, Zenon
  <2> QED BY <1>4, <2>1
<1> HIDE DEF four
<1>6. IsFiniteSet(five) /\ Cardinality(five) <= 5
  <2>1. /\ IsFiniteSet(four \cup {"partner_tier"})
        /\ Cardinality(four \cup {"partner_tier"}) \in Nat
        /\ Cardinality(four) \in Nat
        /\ Cardinality(four \cup {"partner_tier"}) <= Cardinality(four) + 1
    BY <1>5, OneMore, Zenon
  <2> QED BY <1>5, <2>1
<1> HIDE DEF five
<1> QED BY <1>2, <1>6

\* The three tiers.
LEMMA TierIs ==
  ASSUME NEW e, IsEvidence(e)
  PROVE  e.tier \in {1, 2, 3}
<1>1. DOMAIN TIER_BASE = {1, 2, 3}
  BY DEF TIER_BASE
<1>2. e.tier \in DOMAIN TIER_BASE
  BY DEF IsEvidence
<1> QED BY <1>1, <1>2

\* What a model reports of itself is a number, and may be everything.
LEMMA ReportIs == 10000 \in SelfReports /\ \A self \in SelfReports : self \in Nat
BY DEF SelfReports

\* What the evidence for a row is worth: a mean of at most 1000, a tier of 70 to 95.
LEMMA EvidenceIs ==
  ASSUME NEW e, IsEvidence(e)
  PROVE  /\ e.exact + e.recovered \in Nat \ {0}
         /\ SpanSum(e) \in Nat
         /\ SpanSum(e) <= 1000 * (e.exact + e.recovered)
         /\ TIER_BASE[e.tier] \in 70 .. 95
         /\ ACCESS_FACTOR[e.access] \in {88, 98, 100}
         /\ completeness(e.present) \in 0 .. 100
<1>1. e.exact \in Nat /\ e.recovered \in Nat
  BY DEF IsEvidence
<1>2. e.exact + e.recovered >= 1
  <2>1. IsFiniteSet(DOMAIN COMPLETENESS_WEIGHTS)
    BY FiveFields
  <2>2. Cardinality(e.present) \in Nat
    BY <2>1, FS_Subset, FS_CardinalityType DEF IsEvidence
  <2> DEFINE card == Cardinality(e.present)
  <2>3. Max({1, card}) >= 1 /\ Max({1, card}) \in Int
    <3>1. card \in Int /\ 1 \in Int
      BY <2>2
    <3> HIDE DEF card
    <3>2. Max({1, card}) \in {1, card} /\ Max({1, card}) >= 1
      BY <3>1, MaxOfTwo
    <3> QED BY <3>1, <3>2
  <2> QED BY <1>1, <2>3 DEF IsEvidence
<1>3. SpanSum(e) = 1000 * e.exact + 900 * e.recovered
  BY DEF SpanSum, EXACT, RECOVERED
<1>4. TIER_BASE[e.tier] \in 70 .. 95
  <2>1. e.tier \in {1, 2, 3}
    BY TierIs
  <2> QED BY <2>1 DEF TIER_BASE
<1>5. ACCESS_FACTOR[e.access] \in {88, 98, 100}
  BY DEF IsEvidence, ACCESS_FACTOR
<1>6. completeness(e.present) \in 0 .. 100
  BY CompletenessIs DEF IsEvidence
<1> QED BY <1>1, <1>2, <1>3, <1>4, <1>5, <1>6

-----------------------------------------------------------------------------
(* What is accepted.                                                       *)

\* What a row adds up to before it is cut off and rounded, in 10^-8 times `fields`.
Weight(tier_base, access, spans, fields, comp, count, dropped) ==
  tier_base * access * (9000 * fields + spans)
    + fields * (50000 * comp + 1000000 * (bonus(count) - 6 * dropped))

\* The sum is an integer.
LEMMA WeightIsInt ==
  ASSUME NEW tier_base \in Int, NEW access \in Int, NEW spans \in Int, NEW comp \in Int,
         NEW fields \in Nat \ {0}, NEW count \in Nat, count >= 1, NEW dropped \in Int
  PROVE  Weight(tier_base, access, spans, fields, comp, count, dropped) \in Int
<1>1. bonus(count) \in Int
  BY BonusIs
<1>2. tier_base * access \in Int
  OBVIOUS
<1> HIDE <1>1, <1>2
<1>3. (tier_base * access) * (9000 * fields + spans) \in Int
  BY <1>2, SMT
<1>4. 50000 * comp + 1000000 * (bonus(count) - 6 * dropped) \in Int
  BY <1>1, SMT
<1>5. fields * (50000 * comp + 1000000 * (bonus(count) - 6 * dropped)) \in Int
  BY <1>4, SMT
<1> QED BY <1>3, <1>5, SMT DEF Weight

Enough(weight, fields) == weight >= 84950000 * fields

\* What an accepted row adds up to, before it is cut off and rounded.
LEMMA AcceptedSum ==
  ASSUME NEW tier_base \in Int, NEW access \in Int, NEW spans \in Int, NEW comp \in Int,
         NEW fields \in Nat \ {0}, NEW count \in Nat, count >= 1, NEW dropped \in Int,
         NEW total \in Totals(tier_base, access, spans, fields, comp, count, dropped),
         ~(total < AUTO_ACCEPT_THRESHOLD)
  PROVE  Enough(Weight(tier_base, access, spans, fields, comp, count, dropped), fields)
<1> DEFINE one == 100000000 * fields
           unit == 100000 * fields
           weight == Weight(tier_base, access, spans, fields, comp, count, dropped)
<1>1. one \in Int /\ unit \in Nat \ {0}
  BY SMT
<1>2. weight \in Int
  BY WeightIsInt
<1>3. total \in Rounded(Max({0, Min({one, weight})}), unit)
  BY SMT DEF Totals, Weight, SPAN_FLOOR, COMPLETENESS_BONUS, DROPPED_FIELD_PENALTY
<1> HIDE DEF one, unit, weight
<1>4. 2 * weight >= 1699 * unit
  BY <1>1, <1>2, <1>3, AcceptedTotal, SMT
<1>5. weight >= 84950000 * fields
  BY <1>2, <1>4, SMT DEF unit
<1> QED BY <1>5, SMT DEF weight, Enough

\* What a complete row adds, when no other source carries it.
LEMMA FieldsAddFive ==
  ASSUME NEW n \in Nat \ {0}, NEW comp \in 0 .. 100, NEW dropped \in Nat
  PROVE  n * (50000 * comp + 1000000 * (0 - 6 * dropped)) <= 5000000 * n
<1> DEFINE rest == 50000 * comp + 1000000 * (0 - 6 * dropped)
<1>1. rest \in Int /\ rest <= 5000000
  BY SMT
<1> HIDE DEF rest
<1>2. rest * n <= 5000000 * n
  BY <1>1, TimesGrows, SMT
<1> QED BY <1>1, <1>2, SMT DEF rest

\* A row of one source, as it is filed, is accepted for what it weighs.
LEMMA FiledWeight ==
  ASSUME NEW e, IsEvidence(e), FiledUnseen(e)
  PROVE  Enough(Weight(TIER_BASE[e.tier], ACCESS_FACTOR[e.access], SpanSum(e),
                       e.exact + e.recovered, completeness(e.present), 1, e.dropped),
                e.exact + e.recovered)
<1> DEFINE n == e.exact + e.recovered
           base == TIER_BASE[e.tier]
           access == ACCESS_FACTOR[e.access]
           spans == SpanSum(e)
           comp == completeness(e.present)
<1>1. PICK r \in score(e) : ~needs_review(r)
  BY DEF FiledUnseen
<1>2. /\ r.total \in Totals(base, access, spans, n, comp, 1, e.dropped)
      /\ ~(r.total < AUTO_ACCEPT_THRESHOLD)
  BY <1>1 DEF score, needs_review
<1>3. /\ n \in Nat \ {0} /\ base \in Int /\ access \in Int /\ spans \in Int /\ comp \in Int
      /\ e.dropped \in Int /\ 1 \in Nat /\ 1 >= 1
  BY EvidenceIs DEF IsEvidence
<1> HIDE DEF n, base, access, spans, comp
<1> QED BY <1>2, <1>3, AcceptedSum, Zenon DEF n, base, access, spans, comp

\* Whatever the other evidence, a headline that is accepted without a second source
\* is a firm's own (score, 115-162): another tier's reaches 82.44 of the 84.95 that
\* round to the threshold.
THEOREM EveryHeadlineReviewed ==
  ASSUME NEW e, IsEvidence(e)
  PROVE  HeadlineNeedsFirm(e)
<1> SUFFICES ASSUME e.access = "headline_only", FiledUnseen(e), e.tier # 1
             PROVE  FALSE
  BY DEF HeadlineNeedsFirm
<1> DEFINE n == e.exact + e.recovered
           base == TIER_BASE[e.tier]
           spans == SpanSum(e)
           comp == completeness(e.present)
           dropped == e.dropped
<1>1. n \in Nat \ {0} /\ spans \in Nat /\ spans <= 1000 * n /\ comp \in 0 .. 100 /\ dropped \in Nat
  BY EvidenceIs DEF IsEvidence
<1>2. base \in {70, 88}
  <2>1. e.tier \in {1, 2, 3}
    BY TierIs
  <2> QED BY <2>1 DEF TIER_BASE
<1>3. ACCESS_FACTOR[e.access] = 88
  BY DEF ACCESS_FACTOR
<1>4. Enough(Weight(base, 88, spans, n, comp, 1, dropped), n)
  BY <1>3, FiledWeight
<1> HIDE DEF base, spans, comp, n, dropped
<1>5. bonus(1) = 0
  BY BonusIs
<1>6. base * 88 * (9000 * n + spans) <= 77440000 * n
  BY <1>1, <1>2, SMT
<1>7. n * (50000 * comp + 1000000 * (0 - 6 * dropped)) <= 5000000 * n
  BY <1>1, FieldsAddFive
<1> QED BY <1>1, <1>2, <1>4, <1>5, <1>6, <1>7, SMT DEF Weight, Enough

\* A merged row is accepted for what its stored components weigh; the stored
\* quality of its spans is at most 1000, rounded as it is.
LEMMA RecomputedWeight ==
  ASSUME NEW e, IsEvidence(e), NEW count \in Nat, count >= 1, MergedUnseen(e, count)
  PROVE  \E quality \in 0 .. EXACT :
           Enough(Weight(TIER_BASE[e.tier], ACCESS_FACTOR[e.access], quality, 1,
                         completeness(e.present), count, e.dropped), 1)
<1> DEFINE n == e.exact + e.recovered
           base == TIER_BASE[e.tier]
           access == ACCESS_FACTOR[e.access]
           spans == SpanSum(e)
           comp == completeness(e.present)
<1>1. PICK c \in Stored(e) : \E r \in recompute_with_corroboration(c, count) : ~needs_review(r)
  BY DEF MergedUnseen
<1>2. PICK r \in recompute_with_corroboration(c, count) : ~needs_review(r)
  BY <1>1
<1>3. /\ c.tier_base = base /\ c.access_factor = access /\ c.completeness = comp
      /\ c.dropped_fields = e.dropped /\ c.span_quality \in Rounded(spans, n)
  BY <1>1 DEF Stored
<1>4. /\ r.total \in Totals(c.tier_base, c.access_factor, c.span_quality, 1, c.completeness,
                           count, c.dropped_fields)
      /\ ~(r.total < AUTO_ACCEPT_THRESHOLD)
  BY <1>2 DEF recompute_with_corroboration, needs_review
<1>5. /\ n \in Nat \ {0} /\ base \in Int /\ access \in Int /\ spans \in Nat /\ comp \in Int
      /\ e.dropped \in Int /\ 1 \in Nat \ {0} /\ spans <= 1000 * n
  BY EvidenceIs DEF IsEvidence
<1> DEFINE quality == c.span_quality
<1>6. quality \in 0 .. 1000
  <2> HIDE DEF n, spans, quality
  <2>1. quality \in {spans \div n, spans \div n + 1} /\ 2 * (quality * n - spans) \in -n .. n
    BY <1>3 DEF Rounded, quality
  <2>2. spans \div n \in Nat
    BY <1>5
  <2>3. quality \in Nat
    BY <2>1, <2>2
  <2>4. 2 * (quality * n) <= 2 * spans + n
    <3>1. quality * n \in Int
      BY <1>5, <2>3
    <3> QED BY <1>5, <2>1, <3>1
  <2>5. quality * n < 1001 * n
    <3>1. quality * n \in Int
      BY <1>5, <2>3
    <3> QED BY <1>5, <2>4, <3>1
  <2>6. quality < 1001
    BY <1>5, <2>3, <2>5, TimesCancels
  <2> QED BY <2>3, <2>6
<1>7. r.total \in Totals(base, access, quality, 1, comp, count, e.dropped)
  BY <1>3, <1>4
<1>8. quality \in Int
  <2> HIDE DEF n, spans, quality
  <2> QED BY <1>6
<1> HIDE DEF n, base, access, spans, comp, quality
<1>9. Enough(Weight(base, access, quality, 1, comp, count, e.dropped), 1)
  BY <1>4, <1>5, <1>7, <1>8, AcceptedSum, Zenon
<1>10. quality \in 0 .. EXACT
  BY <1>6 DEF EXACT
<1> HIDE DEF quality
<1> QED BY <1>9, <1>10, Zenon DEF base, access, comp

\* Whatever the other evidence and however many sources, an aggregator's row is
\* accepted only with four sources and a full text that states every field and
\* nothing more (score, recompute_with_corroboration, 115-216).
THEOREM EveryAggregatorReviewed ==
  ASSUME NEW e, IsEvidence(e), NEW count \in Nat, count >= 1
  PROVE  AggregatorNeedsFour(e, count)
<1> DEFINE n == e.exact + e.recovered
           base == TIER_BASE[e.tier]
           access == ACCESS_FACTOR[e.access]
           spans == SpanSum(e)
           comp == completeness(e.present)
           dropped == e.dropped
<1> SUFFICES ASSUME e.tier = 3, FiledUnseen(e) \/ MergedUnseen(e, count)
             PROVE  /\ count >= 4
                    /\ e.access = "full_public"
                    /\ e.dropped = 0
                    /\ e.present = DOMAIN COMPLETENESS_WEIGHTS
  BY DEF AggregatorNeedsFour
<1>1. /\ n \in Nat \ {0} /\ spans \in Nat /\ spans <= 1000 * n /\ comp \in 0 .. 100
      /\ dropped \in Nat /\ access \in {88, 98, 100}
  BY EvidenceIs DEF IsEvidence
<1>2. base = 70
  BY DEF TIER_BASE
<1>3. ~FiledUnseen(e)
  <2> SUFFICES ASSUME FiledUnseen(e) PROVE FALSE
    OBVIOUS
  <2>1. Enough(Weight(base, access, spans, n, comp, 1, dropped), n)
    BY FiledWeight
  <2>2. bonus(1) = 0
    BY BonusIs
  <2> HIDE DEF n, base, access, spans, comp, dropped
  <2>3. base * access * (9000 * n + spans) <= 70000000 * n
    BY <1>1, <1>2, SMT
  <2>4. n * (50000 * comp + 1000000 * (0 - 6 * dropped)) <= 5000000 * n
    BY <1>1, FieldsAddFive
  <2> DEFINE text == base * access * (9000 * n + spans)
             rest == n * (50000 * comp + 1000000 * (0 - 6 * dropped))
  <2>5. text + rest >= 84950000 * n
    BY <2>1, <2>2, SMT DEF Weight, Enough
  <2>6. text \in Int /\ rest \in Int
    BY <1>1, <1>2, SMT
  <2> HIDE DEF text, rest
  <2>7. text <= 70000000 * n /\ rest <= 5000000 * n
    BY <2>3, <2>4 , SMT DEF text, rest
  <2>8. n \in Int /\ n >= 1
    BY <1>1
  <2> QED BY <2>5, <2>6, <2>7, <2>8, SMT
<1>4. PICK quality \in 0 .. EXACT : Enough(Weight(base, access, quality, 1, comp, count, dropped), 1)
  <2>1. MergedUnseen(e, count)
    BY <1>3
  <2> QED BY <2>1, RecomputedWeight, Zenon
<1>5. bonus(count) \in 0 .. 10 /\ (count <= 3 => bonus(count) <= 8)
  BY BonusIs
<1>6. 95 >= comp \/ e.present = DOMAIN COMPLETENESS_WEIGHTS
  BY CompletenessIs, <1>1 DEF IsEvidence
<1>7. access = 100 => e.access = "full_public"
  BY DEF ACCESS_FACTOR, IsEvidence
<1> HIDE DEF n, base, access, spans, comp, dropped
<1> DEFINE more == bonus(count)
<1>8. 70 * access * (9000 + quality) + (50000 * comp + 1000000 * (more - 6 * dropped)) >= 84950000
  BY <1>1, <1>2, <1>4, <1>5, SMT DEF Weight, Enough, EXACT
<1> HIDE DEF more
<1>9. access = 100
  BY <1>1, <1>4, <1>5, <1>8, SMT DEF more, EXACT
<1>10. dropped = 0 /\ comp > 95 /\ more > 8
  BY <1>1, <1>4, <1>5, <1>8, <1>9, SMT DEF more, EXACT
<1>11. count >= 4
  BY <1>5, <1>10 DEF more
<1> QED BY <1>1, <1>6, <1>7, <1>9, <1>10, <1>11 DEF dropped

-----------------------------------------------------------------------------
(* A row is scored again.                                                  *)

\* The two sums of a row, as it is filed and as it is stored, are on opposite sides
\* of the threshold: `p` is the product of tier and access, `over` what the row is
\* above the threshold with perfect spans, and `lost` the rounded distance of the
\* mean quality from EXACT.
Opposed(n, rec, lost, fives, dropped, base, access) ==
  LET p == base * access
      over == 10000 * p + 250000 * fives - 6000000 * dropped - 84950000
  IN \/ n * over > 100 * p * rec /\ over < p * lost
     \/ n * over < 100 * p * rec /\ over > p * lost

RoundedTo(n, rec, lost) == 2 * (100 * rec - lost * n) \in -n .. n
Bases == {95, 88, 70}
Factors == {100, 98, 88}

\* The mean of up to sixteen qualities may be rounded without carrying a row across
\* the threshold; with seventeen it may not.
LEMMA RoundingKeepsSides ==
  ASSUME NEW n \in 1 .. 16, NEW rec \in 0 .. n, NEW lost \in Int, NEW fives \in 0 .. 20,
         NEW dropped \in 0 .. 1, NEW base \in Bases, NEW access \in Factors,
         RoundedTo(n, rec, lost)
  PROVE  ~Opposed(n, rec, lost, fives, dropped, base, access)
<1>1. n \in {1, 2, 3, 4, 5, 6, 7, 8, 9, 10, 11, 12, 13, 14, 15, 16} /\ dropped \in {0, 1}
  OBVIOUS
<1>2. CASE base = 95 /\ access = 100
  BY <1>1, <1>2, SMTT(60) DEF Opposed, RoundedTo
<1>3. CASE base = 95 /\ access = 98
  BY <1>1, <1>3, SMTT(60) DEF Opposed, RoundedTo
<1>4. CASE base = 95 /\ access = 88
  BY <1>1, <1>4, SMTT(60) DEF Opposed, RoundedTo
<1>5. CASE base = 88 /\ access = 100
  BY <1>1, <1>5, SMTT(60) DEF Opposed, RoundedTo
<1>6. CASE base = 88 /\ access = 98
  BY <1>1, <1>6, SMTT(60) DEF Opposed, RoundedTo
<1>7. CASE base = 88 /\ access = 88
  BY <1>1, <1>7, SMTT(60) DEF Opposed, RoundedTo
<1>8. CASE base = 70 /\ access = 100
  BY <1>1, <1>8, SMTT(60) DEF Opposed, RoundedTo
<1>9. CASE base = 70 /\ access = 98
  BY <1>1, <1>9, SMTT(60) DEF Opposed, RoundedTo
<1>10. CASE base = 70 /\ access = 88
  BY <1>1, <1>10, SMTT(60) DEF Opposed, RoundedTo
<1> QED BY <1>2, <1>3, <1>4, <1>5, <1>6, <1>7, <1>8, <1>9, <1>10 DEF Bases, Factors

\* Whatever a quotient of natural numbers is, one of its neighbours is nearest, and
\* at a tie both are.
LEMMA RoundedAround ==
  ASSUME NEW x \in Nat, NEW unit \in Nat \ {0}
  PROVE  /\ 2 * x >= 1699 * unit => \E k \in Rounded(x, unit) : k >= 850
         /\ 2 * x <= 1699 * unit => \E k \in Rounded(x, unit) : k < 850
<1> DEFINE low == x \div unit
<1>1. low \in Nat
  OBVIOUS
<1>2. PICK left \in 0 .. unit - 1 : x = low * unit + left
  <2>1. low * unit <= x
    OBVIOUS
  <2>2. x < low * unit + unit
    OBVIOUS
  <2>3. low * unit \in Int
    BY <1>1
  <2> HIDE DEF low
  <2>4. x - low * unit \in 0 .. unit - 1
    BY <2>1, <2>2, <2>3
  <2> QED BY <2>3, <2>4
<1>3. low * unit \in Int /\ (low + 1) * unit = low * unit + unit
  BY <1>1
<1>4. 2 * left <= unit => low \in Rounded(x, unit)
  BY <1>1, <1>2, <1>3 DEF Rounded
<1>5. 2 * left >= unit => low + 1 \in Rounded(x, unit)
  BY <1>1, <1>2, <1>3 DEF Rounded
<1> HIDE DEF low
<1>6. low <= 849 => low * unit <= 849 * unit
  BY <1>1, TimesGrows
<1>7. low <= 848 => low * unit <= 848 * unit
  BY <1>1, TimesGrows
<1>8. low >= 849 => 849 * unit <= low * unit
  BY <1>1, TimesGrows
<1>9. low >= 850 => 850 * unit <= low * unit
  BY <1>1, TimesGrows
<1>10. ASSUME 2 * x >= 1699 * unit PROVE \E k \in Rounded(x, unit) : k >= 850
  <2>1. low >= 850 \/ (low = 849 /\ 2 * left >= unit)
    BY <1>1, <1>2, <1>3, <1>6, <1>7, <1>10
  <2> QED BY <1>1, <1>2, <1>4, <1>5, <2>1
<1>11. ASSUME 2 * x <= 1699 * unit PROVE \E k \in Rounded(x, unit) : k < 850
  <2>1. low <= 848 \/ (low = 849 /\ 2 * left <= unit)
    BY <1>1, <1>2, <1>3, <1>8, <1>9, <1>11
  <2> QED BY <1>1, <1>2, <1>4, <1>5, <2>1
<1> QED BY <1>10, <1>11

AtMost(weight, fields) == weight <= 84950000 * fields

\* A sum on the threshold or above it may be accepted, on it or below it refused.
LEMMA TotalsAround ==
  ASSUME NEW tier_base \in Int, NEW access \in Int, NEW spans \in Int, NEW comp \in Int,
         NEW fields \in Nat \ {0}, NEW count \in Nat, count >= 1, NEW dropped \in Int
  PROVE  LET weight == Weight(tier_base, access, spans, fields, comp, count, dropped)
             totals == Totals(tier_base, access, spans, fields, comp, count, dropped)
         IN /\ Enough(weight, fields) => \E total \in totals : ~(total < AUTO_ACCEPT_THRESHOLD)
            /\ AtMost(weight, fields) => \E total \in totals : total < AUTO_ACCEPT_THRESHOLD
            /\ Enough(weight, fields) \/ AtMost(weight, fields)
<1> DEFINE weight == Weight(tier_base, access, spans, fields, comp, count, dropped)
           totals == Totals(tier_base, access, spans, fields, comp, count, dropped)
           one == 100000000 * fields
           unit == 100000 * fields
           bounded == Min({one, weight})
           kept == Max({0, bounded})
<1>1. one = 1000 * unit /\ unit \in Nat \ {0}
  BY SMT
<1>2. weight \in Int
  BY WeightIsInt
<1>3. totals = Rounded(kept, unit)
  BY SMT DEF Totals, Weight, SPAN_FLOOR, COMPLETENESS_BONUS, DROPPED_FIELD_PENALTY
<1>4. /\ Enough(weight, fields) <=> 2 * weight >= 1699 * unit
      /\ AtMost(weight, fields) <=> 2 * weight <= 1699 * unit
  <2> HIDE DEF weight
  <2> QED BY <1>2, SMT DEF Enough, AtMost
<1> HIDE DEF one, unit, weight, totals
<1>5. bounded \in {one, weight} /\ bounded <= one /\ bounded <= weight
  <2>1. one \in Int /\ weight \in Int
    BY <1>1, <1>2
  <2> QED BY <2>1, MinOfTwo, Zenon
<1>6. kept \in {0, bounded} /\ kept >= 0 /\ kept >= bounded
  <2>1. bounded \in Int /\ 0 \in Int
    BY <1>1, <1>2, <1>5
  <2> HIDE DEF bounded
  <2> QED BY <2>1, MaxOfTwo, Zenon
<1> HIDE DEF bounded, kept
<1>7. /\ kept \in Nat
      /\ 2 * weight >= 1699 * unit => 2 * kept >= 1699 * unit
      /\ 2 * weight <= 1699 * unit => 2 * kept <= 1699 * unit
  BY <1>1, <1>2, <1>5, <1>6
<1>8. /\ 2 * kept >= 1699 * unit => \E k \in totals : k >= 850
      /\ 2 * kept <= 1699 * unit => \E k \in totals : k < 850
  BY <1>1, <1>3, <1>7, RoundedAround
<1>9. \A k \in totals : k \in Int
  BY <1>1, <1>3, <1>7, RoundedIs
<1>10. 2 * weight >= 1699 * unit \/ 2 * weight <= 1699 * unit
  BY <1>1, <1>2
<1> QED BY <1>4, <1>7, <1>8, <1>9, <1>10 DEF AUTO_ACCEPT_THRESHOLD, weight, totals

\* Completeness is a multiple of five.
LEMMA CompletenessIsFives ==
  ASSUME NEW present
  PROVE  \E fives \in 0 .. 20 : completeness(present) = 5 * fives
<1> DEFINE six == IF "from_firm" \in present THEN 6 ELSE 0
           three == IF "title_to" \in present THEN 3 ELSE 0
           five == IF "office_jurisdiction" \in present THEN 5 ELSE 0
           again == IF "practice_text" \in present THEN 5 ELSE 0
           last == IF "partner_tier" \in present THEN 1 ELSE 0
<1>1. completeness(present) = 5 * (six + three + five + again + last)
  BY DEF completeness, Share, COMPLETENESS_WEIGHTS
<1>2. six + three + five + again + last \in 0 .. 20
  OBVIOUS
<1> QED BY <1>1, <1>2

\* How far from the threshold the two sums are.
LEMMA SumsFromThreshold ==
  ASSUME NEW p \in Int, NEW n \in Int, NEW rec \in Int, NEW rest \in Int, NEW lost \in Int
  PROVE  LET over == 10000 * p + rest - 84950000
         IN /\ p * (9000 * n + (1000 * n - 100 * rec)) + n * rest - 84950000 * n
                 = n * over - 100 * p * rec
            /\ p * (9000 * 1 + (1000 - lost)) + 1 * rest - 84950000 * 1 = over - p * lost
BY SMT

\* Two pairs that are not opposed are ordered the same way.
LEMMA SameSides ==
  ASSUME NEW here \in Int, NEW there \in Int, NEW over \in Int, NEW that \in Int,
         ~(here > there /\ over < that), ~(here < there /\ over > that)
  PROVE  (here >= there /\ over >= that) \/ (here <= there /\ over <= that)
OBVIOUS

\* The sum of a row as it was filed and the sum of it as stored are not on opposite
\* sides of the threshold.
LEMMA StoredKeepsSide ==
  ASSUME NEW e, IsEvidence(e), e.exact + e.recovered <= 16, e.dropped \in 0 .. 1,
         NEW quality \in Rounded(SpanSum(e), e.exact + e.recovered)
  PROVE  LET n == e.exact + e.recovered
             filed == Weight(TIER_BASE[e.tier], ACCESS_FACTOR[e.access], SpanSum(e), n,
                             completeness(e.present), 1, e.dropped)
             stored == Weight(TIER_BASE[e.tier], ACCESS_FACTOR[e.access], quality, 1,
                              completeness(e.present), 1, e.dropped)
         IN /\ quality \in Int
            /\ (Enough(filed, n) /\ Enough(stored, 1)) \/ (AtMost(filed, n) /\ AtMost(stored, 1))
<1> DEFINE n == e.exact + e.recovered
           rec == e.recovered
           base == TIER_BASE[e.tier]
           access == ACCESS_FACTOR[e.access]
           spans == SpanSum(e)
           comp == completeness(e.present)
           dropped == e.dropped
           lost == 1000 - quality
           p == base * access
<1>1. n \in 1 .. 16 /\ rec \in 0 .. n /\ spans = 1000 * n - 100 * rec /\ spans \in Nat
  <2>1. e.exact \in Nat /\ e.recovered \in Nat
    BY DEF IsEvidence
  <2>2. e.exact + e.recovered \in Nat \ {0} /\ SpanSum(e) \in Nat
    BY EvidenceIs
  <2>3. SpanSum(e) = 1000 * e.exact + 900 * e.recovered
    BY DEF SpanSum, EXACT, RECOVERED
  <2> DEFINE exact == e.exact
  <2>4. n = exact + rec /\ spans = 1000 * exact + 900 * rec /\ n <= 16
        /\ exact \in Nat /\ rec \in Nat /\ n \in Nat \ {0}
    BY <2>1, <2>2, <2>3
  <2> HIDE DEF n, rec, spans, exact
  <2> QED BY <2>4
<1>2. base \in {95, 88, 70} /\ base \in Bases
  <2>1. e.tier \in {1, 2, 3}
    BY TierIs
  <2> QED BY <2>1 DEF TIER_BASE, Bases
<1>3. access \in {100, 98, 88} /\ access \in Factors
  BY EvidenceIs DEF Factors
<1>4. PICK fives \in 0 .. 20 : comp = 5 * fives
  BY CompletenessIsFives
<1>5. dropped \in 0 .. 1
  OBVIOUS
<1>6. quality \in Int /\ 2 * (quality * n - spans) \in -n .. n
  <2>1. quality \in {spans \div n, spans \div n + 1} /\ 2 * (quality * n - spans) \in -n .. n
    BY DEF Rounded
  <2>2. n \in Nat \ {0} /\ spans \in Nat
    BY <1>1
  <2> HIDE DEF n, spans
  <2>3. spans \div n \in Nat
    BY <2>2
  <2> QED BY <2>1, <2>3
<1>7. bonus(1) = 0
  BY BonusIs
<1> HIDE DEF n, rec, base, access, spans, comp, dropped
<1> DEFINE rest == 50000 * comp + 1000000 * (0 - 6 * dropped)
           over == 10000 * p + rest - 84950000
<1>8. lost \in Int /\ p \in Int /\ rest \in Int
  BY <1>2, <1>3, <1>4, <1>5, <1>6, SMT
<1>9. RoundedTo(n, rec, lost)
  <2>1. quality = 1000 - lost
    BY <1>6
  <2> HIDE DEF lost
  <2>2. quality * n = 1000 * n - lost * n
    BY <1>1, <1>8, <2>1
  <2>3. lost * n \in Int
    BY <1>1, <1>8
  <2> QED BY <1>1, <1>6, <2>2, <2>3 DEF RoundedTo
<1>10. ~Opposed(n, rec, lost, fives, dropped, base, access)
  <2> HIDE DEF over, p, lost, rest
  <2>1. n \in 1 .. 16
    BY <1>1
  <2>2. rec \in 0 .. n
    BY <1>1
  <2>3. lost \in Int
    BY <1>8
  <2>4. fives \in 0 .. 20
    OBVIOUS
  <2>5. dropped \in 0 .. 1
    BY <1>5
  <2>6. base \in Bases /\ access \in Factors
    BY <1>2, <1>3
  <2> QED BY <2>1, <2>2, <2>3, <2>4, <2>5, <2>6, <1>9, RoundingKeepsSides, Zenon
<1>11. over = 10000 * p + 250000 * fives - 6000000 * dropped - 84950000
  BY <1>4, <1>5, <1>8, SMT
<1> DEFINE filed == Weight(base, access, spans, n, comp, 1, dropped)
           stored == Weight(base, access, quality, 1, comp, 1, dropped)
<1>12. filed = p * (9000 * n + (1000 * n - 100 * rec)) + n * rest
  BY <1>1, <1>7, SMT DEF Weight
<1>13. stored = p * (9000 * 1 + (1000 - lost)) + 1 * rest
  BY <1>6, <1>7, SMT DEF Weight
<1>14. filed \in Int /\ stored \in Int
  <2>1. /\ base \in Int /\ access \in Int /\ spans \in Int /\ comp \in Int /\ dropped \in Int
        /\ quality \in Int /\ n \in Nat \ {0} /\ 1 \in Nat \ {0} /\ 1 \in Nat /\ 1 >= 1
    BY <1>1, <1>2, <1>3, <1>4, <1>5, <1>6
  <2> QED BY <2>1, WeightIsInt, Zenon
<1> HIDE DEF p, rest, lost, filed, stored
<1>15. /\ filed - 84950000 * n = n * over - 100 * p * rec
       /\ stored - 84950000 * 1 = over - p * lost
  BY <1>1, <1>8, <1>12, <1>13, SumsFromThreshold, SMT
<1> DEFINE here == n * over
           there == 100 * p * rec
           that == p * lost
<1>16. here \in Int /\ there \in Int /\ that \in Int /\ over \in Int
  BY <1>1, <1>8, SMT
<1> HIDE DEF over, here, there, that
<1>17. (Enough(filed, n) /\ Enough(stored, 1)) \/ (AtMost(filed, n) /\ AtMost(stored, 1))
  <2>1. /\ filed - 84950000 * n = here - there
        /\ stored - 84950000 * 1 = over - that
    BY <1>15, SMT DEF here, there, that
  <2>2. ~ (here > there /\ over < that) /\ ~ (here < there /\ over > that)
    BY <1>10, <1>11, SMT DEF here, there, that, Opposed, p
  <2>3. n \in Int
    BY <1>1
  <2>4. here >= there => filed >= 84950000 * n
    BY <1>14, <1>16, <2>1, <2>3, SMT
  <2>5. here <= there => filed <= 84950000 * n
    BY <1>14, <1>16, <2>1, <2>3, SMT
  <2>6. /\ over >= that => stored >= 84950000 * 1
        /\ over <= that => stored <= 84950000 * 1
    BY <1>14, <1>16, <2>1, SMT
  <2>7. (here >= there /\ over >= that) \/ (here <= there /\ over <= that)
    BY <1>16, <2>2, SameSides
  <2> QED BY <2>4, <2>5, <2>6, <2>7, SMT DEF Enough, AtMost
<1> QED BY <1>6, <1>17 DEF filed, stored, n, base, access, spans, comp, dropped

\* A row of up to sixteen verified fields keeps its verdict when it is read back
\* with one source (score, recompute_with_corroboration, 115-216).  The extractor
\* verifies eleven; with seventeen the mean may be rounded across the threshold.
THEOREM EveryVerdictKept ==
  ASSUME NEW e, IsEvidence(e), e.exact + e.recovered <= 16
  PROVE  SameVerdict(e)
<1> DEFINE n == e.exact + e.recovered
           base == TIER_BASE[e.tier]
           access == ACCESS_FACTOR[e.access]
           spans == SpanSum(e)
           comp == completeness(e.present)
           dropped == e.dropped
<1> SUFFICES ASSUME NEW c \in Stored(e)
             PROVE  \E r \in score(e) : \E m \in recompute_with_corroboration(c, 1) :
                      /\ needs_review(m) => needs_review(r)
                      /\ StaysOnItsSide(e.self) => needs_review(r) = needs_review(m)
  BY DEF SameVerdict
<1> DEFINE quality == c.span_quality
           forced == \/ dropped >= DROPPED_FIELDS_FORCING_REVIEW
                     \/ e.self < 10 * SELF_REPORTED_REVIEW_FLOOR
           again == \/ dropped >= DROPPED_FIELDS_FORCING_REVIEW
                    \/ c.self_reported \in 1 .. SELF_REPORTED_REVIEW_FLOOR - 1
           filed == Totals(base, access, spans, n, comp, 1, dropped)
           stored == Totals(base, access, quality, 1, comp, 1, dropped)
<1>1. /\ c.tier_base = base /\ c.access_factor = access /\ c.completeness = comp
      /\ c.dropped_fields = dropped /\ c.self_reported \in Rounded(e.self, 10)
      /\ quality \in Rounded(spans, n)
  BY DEF Stored
<1>2. /\ n \in Nat \ {0} /\ base \in Int /\ access \in Int /\ spans \in Nat /\ comp \in Int
      /\ dropped \in Nat /\ e.self \in Nat
  BY EvidenceIs, ReportIs DEF IsEvidence
<1>3. quality \in Int
  <2>1. n \in Nat /\ spans \in Int
    BY <1>2
  <2> HIDE DEF n, spans, quality
  <2> QED BY <1>1, <2>1, RoundedIs
<1>4. score(e) = [total : filed, forced : {forced}]
  BY DEF score
<1>5. recompute_with_corroboration(c, 1) = [total : stored, forced : {again}]
  BY <1>1 DEF recompute_with_corroboration
<1>13. /\ forced <=> dropped >= 2 \/ e.self < 6000
       /\ again <=> dropped >= 2 \/ c.self_reported \in 1 .. 599
  BY DEF DROPPED_FIELDS_FORCING_REVIEW, SELF_REPORTED_REVIEW_FLOOR
<1>12. (again => forced) /\ (StaysOnItsSide(e.self) => (again <=> forced))
  <2> DEFINE kept == c.self_reported
  <2>1. kept \in Int /\ 2 * (kept * 10) <= 2 * e.self + 10 /\ 2 * e.self <= 2 * (kept * 10) + 10
    BY <1>1, <1>2 DEF Rounded
  <2>2. StaysOnItsSide(e.self) => kept > 0 /\ (kept < 600 <=> e.self < 6000)
    BY <1>1 DEF StaysOnItsSide, SELF_REPORTED_REVIEW_FLOOR
  <2> HIDE DEF kept
  <2>3. kept \in 1 .. 599 => e.self < 6000
    BY <1>2, <2>1
  <2>4. StaysOnItsSide(e.self) => (kept \in 1 .. 599 <=> e.self < 6000)
    BY <1>2, <2>1, <2>2
  <2> HIDE DEF forced, again
  <2> QED BY <1>13, <2>3, <2>4 DEF kept
<1>6. /\ Enough(Weight(base, access, spans, n, comp, 1, dropped), n)
           => \E total \in filed : ~(total < AUTO_ACCEPT_THRESHOLD)
      /\ AtMost(Weight(base, access, spans, n, comp, 1, dropped), n)
           => \E total \in filed : total < AUTO_ACCEPT_THRESHOLD
      /\ filed # {}
  <2> HIDE DEF n, base, access, spans, comp, dropped
  <2>1. spans \in Int /\ dropped \in Int /\ 1 \in Nat /\ 1 >= 1
    BY <1>2
  <2> QED BY <1>2, <2>1, TotalsAround
<1>7. /\ Enough(Weight(base, access, quality, 1, comp, 1, dropped), 1)
           => \E total \in stored : ~(total < AUTO_ACCEPT_THRESHOLD)
      /\ AtMost(Weight(base, access, quality, 1, comp, 1, dropped), 1)
           => \E total \in stored : total < AUTO_ACCEPT_THRESHOLD
      /\ stored # {}
  <2> HIDE DEF n, base, access, spans, comp, dropped, quality
  <2>1. dropped \in Int /\ 1 \in Nat /\ 1 >= 1 /\ 1 \in Nat \ {0}
    BY <1>2
  <2> QED BY <1>2, <1>3, <2>1, TotalsAround
<1>8. \A total \in filed : [total |-> total, forced |-> forced] \in score(e)
  BY <1>4
<1>9. \A total \in stored :
        [total |-> total, forced |-> again] \in recompute_with_corroboration(c, 1)
  BY <1>5
<1>10. CASE forced
  <2>1. PICK one \in filed, other \in stored : TRUE
    BY <1>6, <1>7
  <2>2. needs_review([total |-> one, forced |-> forced]) = TRUE
    <3> HIDE DEF filed, stored, forced
    <3> QED BY <1>10 DEF needs_review
  <2>3. again => needs_review([total |-> other, forced |-> again]) = TRUE
    <3> HIDE DEF filed, stored, again
    <3> QED BY DEF needs_review
  <2>4. StaysOnItsSide(e.self) => again
    BY <1>10, <1>12
  <2> HIDE DEF filed, stored, forced, again
  <2> QED BY <1>8, <1>9, <2>1, <2>2, <2>3, <2>4
<1>11. CASE ~forced
  <2>1. dropped \in 0 .. 1
    <3> HIDE DEF forced, again
    <3> QED BY <1>2, <1>11, <1>13
  <2>2. \/ /\ Enough(Weight(base, access, spans, n, comp, 1, dropped), n)
           /\ Enough(Weight(base, access, quality, 1, comp, 1, dropped), 1)
        \/ /\ AtMost(Weight(base, access, spans, n, comp, 1, dropped), n)
           /\ AtMost(Weight(base, access, quality, 1, comp, 1, dropped), 1)
    BY <1>1, <2>1, StoredKeepsSide
  <2>3. PICK one \in filed, other \in stored :
          (one < AUTO_ACCEPT_THRESHOLD) = (other < AUTO_ACCEPT_THRESHOLD)
    <3> HIDE DEF filed, stored, forced, again
    <3> QED BY <1>6, <1>7, <2>2
  <2>4. /\ needs_review([total |-> one, forced |-> forced]) = (one < AUTO_ACCEPT_THRESHOLD)
        /\ needs_review([total |-> other, forced |-> again]) = (other < AUTO_ACCEPT_THRESHOLD)
    <3>1. ~forced /\ ~again
      BY <1>11, <1>12
    <3> HIDE DEF forced, again
    <3> QED BY <3>1 DEF needs_review
  <2> HIDE DEF filed, stored, forced, again
  <2> QED BY <1>8, <1>9, <2>3, <2>4
<1> QED BY <1>10, <1>11

-----------------------------------------------------------------------------
(* The specification.                                                      *)

\* Every pair and every row that is drawn is one the code could meet: dates are
\* days, and a row has at least a span for each field it states.
Drawn ==
  /\ a \in Rows({15})
  /\ b \in Rows({0, 15, 16, 60, 61, 75})
  /\ \A row \in rows : IsEvidence(row) /\ row.exact + row.recovered <= MaxFields

\* The evidence a step draws is evidence.
LEMMA WeighIs ==
  ASSUME NEW d, d.tier \in DOMAIN TIER_BASE, d.present \subseteq DOMAIN COMPLETENESS_WEIGHTS,
         NEW access \in DOMAIN ACCESS_FACTOR, NEW exact \in Nat, NEW recovered \in Nat,
         NEW self \in SelfReports, NEW dropped \in Nat,
         exact + recovered >= Max({1, Cardinality(d.present)})
  PROVE  IsEvidence(Weigh(d, access, exact, recovered, self, dropped))
BY DEF IsEvidence, Weigh

\* There is room for a span of each field that is stated.
LEMMA FieldsFit ==
  ASSUME NEW present \in SUBSET DOMAIN COMPLETENESS_WEIGHTS
  PROVE  /\ Max({1, Cardinality(present)}) \in Int
         /\ MaxFields >= Max({1, Cardinality(present)})
<1> DEFINE card == Cardinality(present)
<1>1. IsFiniteSet(present) /\ card <= Cardinality(DOMAIN COMPLETENESS_WEIGHTS)
  BY FiveFields, FS_Subset
<1>2. card \in Nat /\ card <= 5
  <2>1. card \in Nat /\ Cardinality(DOMAIN COMPLETENESS_WEIGHTS) \in Nat
    BY <1>1, FiveFields, FS_CardinalityType
  <2> QED BY <1>1, <2>1, FiveFields
<1> HIDE DEF card
<1>3. Max({1, card}) \in {1, card}
  <2>1. 1 \in Int /\ card \in Int
    BY <1>2
  <2> QED BY <2>1, MaxOfTwo, Zenon
<1> QED BY <1>2, <1>3, ScoringAssumption DEF card

\* So is the evidence a row starts from.
LEMMA FullIsEvidence ==
  ASSUME NEW d, d.tier \in DOMAIN TIER_BASE, d.present \subseteq DOMAIN COMPLETENESS_WEIGHTS
  PROVE  IsEvidence(Weigh(d, "full_public", MaxFields, 0, 10000, 0))
<1>1. MaxFields \in Nat
  BY ScoringAssumption
<1>2. MaxFields + 0 >= Max({1, Cardinality(d.present)})
  BY <1>1, FieldsFit
<1>3. "full_public" \in DOMAIN ACCESS_FACTOR
  BY DEF ACCESS_FACTOR
<1> QED BY <1>1, <1>2, <1>3, ReportIs, WeighIs

\* There is a report to stand for no pair.
LEMMA IdleIs == Idle \in Rows({15})
<1>1. PICK known \in Known : known # {}
  BY ScoringAssumption
<1>2. PICK s \in known : s \in Spellings
  BY <1>1, ScoringAssumption
<1> DEFINE r == [name |-> s, variants |-> known, from_firm |-> "f1", office |-> "sg",
                 title_to |-> "partner", announced |-> 15]
<1>3. r \in Rows({15})
  BY <1>2 DEF Rows, Report
<1> QED BY <1>3 DEF Idle

\* A report that is drawn has a date.
LEMMA RowsHaveDates ==
  ASSUME NEW dates \in SUBSET Int, NEW r \in Rows(dates)
  PROVE  r.announced \in Int
BY DEF Rows, Report

\* Every state of the specification compares reports that have dates and weighs
\* evidence that extraction could have found (extractor.py, _build_move, 211-277).
THEOREM OnlyEvidenceIsDrawn == Spec => []Drawn
<1>1. Init => Drawn
  <2> SUFFICES ASSUME Init PROVE Drawn
    OBVIOUS
  <2>1. Rows({15}) \subseteq Rows({0, 15, 16, 60, 61, 75})
    BY DEF Rows, Report
  <2>2. a \in Rows({15}) /\ b = a
    BY IdleIs DEF Init
  <2>3. \A row \in rows : IsEvidence(row) /\ row.exact + row.recovered <= MaxFields
    <3> SUFFICES ASSUME NEW row \in rows
                 PROVE  IsEvidence(row) /\ row.exact + row.recovered <= MaxFields
      OBVIOUS
    <3>1. PICK d \in Drafts : row = Weigh(d, "full_public", MaxFields, 0, 10000, 0)
      BY DEF Init
    <3>2. d.tier \in DOMAIN TIER_BASE /\ d.present \subseteq DOMAIN COMPLETENESS_WEIGHTS
      BY DEF Drafts
    <3>3. row.exact = MaxFields /\ row.recovered = 0
      BY <3>1 DEF Weigh
    <3> QED BY <3>1, <3>2, <3>3, FullIsEvidence, ScoringAssumption
  <2> QED BY <2>1, <2>2, <2>3 DEF Drawn
<1>2. Drawn /\ [Next]_<<a, b, rows>> => Drawn'
  <2> SUFFICES ASSUME Drawn, [Next]_<<a, b, rows>> PROVE Drawn'
    OBVIOUS
  <2>1. CASE Compare
    BY <2>1 DEF Drawn, Compare
  <2>2. CASE Draw
    <3>1. PICK row \in rows, access \in DOMAIN ACCESS_FACTOR, self \in DrawnReports,
               dropped \in 0 .. 2 :
            \E s \in Spans(row) : rows' = {Weigh(row, access, s[1], s[2], self, dropped)}
      BY <2>2 DEF Draw
    <3> PICK s \in Spans(row) : rows' = {Weigh(row, access, s[1], s[2], self, dropped)}
      BY <3>1
    <3>2. /\ row.tier \in DOMAIN TIER_BASE
          /\ row.present \subseteq DOMAIN COMPLETENESS_WEIGHTS
      BY DEF Drawn, IsEvidence
    <3>3. Max({1, Cardinality(row.present)}) \in Int
      BY <3>2, FieldsFit
    <3>4. /\ s[1] \in Nat /\ s[2] \in Nat /\ s[1] + s[2] >= Max({1, Cardinality(row.present)})
          /\ s[1] + s[2] <= MaxFields
      <4> DEFINE least == Max({1, Cardinality(row.present)})
      <4>1. least \in Int /\ MaxFields \in Nat
        BY <3>3, ScoringAssumption
      <4>2. s \in (0 .. MaxFields) \X (0 .. MaxFields) /\ s[1] + s[2] \in least .. MaxFields
        BY DEF Spans
      <4> HIDE DEF least
      <4>3. s[1] \in Nat /\ s[2] \in Nat /\ s[1] + s[2] \in least .. MaxFields
        BY <4>1, <4>2
      <4>4. s[1] + s[2] >= least /\ s[1] + s[2] <= MaxFields
        BY <4>1, <4>3
      <4> QED BY <4>3, <4>4 DEF least
    <3>5. IsEvidence(Weigh(row, access, s[1], s[2], self, dropped))
      <4>1. self \in SelfReports /\ dropped \in Nat
        BY DEF DrawnReports, SelfReports
      <4> DEFINE exact == s[1]
                 recovered == s[2]
      <4>2. exact \in Nat /\ recovered \in Nat
            /\ exact + recovered >= Max({1, Cardinality(row.present)})
        BY <3>4
      <4> HIDE DEF exact, recovered
      <4>3. IsEvidence(Weigh(row, access, exact, recovered, self, dropped))
        BY <3>2, <4>1, <4>2, WeighIs, Zenon
      <4> QED BY <4>3 DEF exact, recovered
    <3>6. LET drawn == Weigh(row, access, s[1], s[2], self, dropped)
          IN drawn.exact + drawn.recovered <= MaxFields
      BY <3>4 DEF Weigh
    <3> QED BY <2>2, <3>5, <3>6 DEF Drawn, Draw
  <2>3. CASE Return
    <3>1. CASE b # a /\ b' = a /\ UNCHANGED <<a, rows>>
      <4>1. Rows({15}) \subseteq Rows({0, 15, 16, 60, 61, 75})
        BY DEF Rows, Report
      <4> QED BY <3>1, <4>1 DEF Drawn
    <3>2. CASE /\ rows' = {Weigh(row, "full_public", MaxFields, 0, 10000, 0) : row \in rows}
               /\ UNCHANGED <<a, b>>
      <4>1. ASSUME NEW row \in rows
            PROVE  IsEvidence(Weigh(row, "full_public", MaxFields, 0, 10000, 0))
        <5>1. IsEvidence(row)
          BY DEF Drawn
        <5>2. /\ row.tier \in DOMAIN TIER_BASE
              /\ row.present \subseteq DOMAIN COMPLETENESS_WEIGHTS
          BY <5>1 DEF IsEvidence
        <5> QED BY <5>2, FullIsEvidence
      <4>2. ASSUME NEW row
            PROVE  LET drawn == Weigh(row, "full_public", MaxFields, 0, 10000, 0)
                   IN drawn.exact + drawn.recovered <= MaxFields
        BY ScoringAssumption DEF Weigh
      <4> QED BY <3>2, <4>1, <4>2 DEF Drawn
    <3> QED BY <2>3, <3>1, <3>2 DEF Return
  <2>4. CASE UNCHANGED <<a, b, rows>>
    BY <2>4 DEF Drawn
  <2> QED BY <2>1, <2>2, <2>3, <2>4 DEF Next
<1> QED BY <1>1, <1>2, PTL DEF Spec

\* So both reports of a pair have dates.
LEMMA DrawnDates ==
  ASSUME Drawn
  PROVE  a.announced \in Int /\ b.announced \in Int
BY RowsHaveDates DEF Drawn

\* The run's property VerdictSymmetric, for every table of names (score_pair,
\* 184-252).
THEOREM PairsAreSymmetric == Spec => []VerdictSymmetric
<1>1. Drawn => VerdictSymmetric
  BY DrawnDates, EveryVerdictSymmetric DEF VerdictSymmetric
<1> QED BY <1>1, OnlyEvidenceIsDrawn, PTL

\* The run's property InitialsCorroborated, for every table of names (score_pair,
\* 217-245).
THEOREM PairsNeedCorroboration == Spec => []InitialsCorroborated
<1>1. Drawn => InitialsCorroborated
  BY DrawnDates, EveryInitialCorroborated DEF InitialsCorroborated
<1> QED BY <1>1, OnlyEvidenceIsDrawn, PTL

\* The run's property OriginConflictsReviewed, for every table of names
\* (score_pair, 217-245).
THEOREM PairsInConflictAreReviewed == Spec => []OriginConflictsReviewed
<1>1. Drawn => OriginConflictsReviewed
  BY DrawnDates, EveryOriginConflictReviewed DEF OriginConflictsReviewed
<1> QED BY <1>1, OnlyEvidenceIsDrawn, PTL

\* The run's property HeadlinesReviewed, for every number of spans (score, 115-162).
THEOREM HeadlineRowsAreReviewed == Spec => []HeadlinesReviewed
<1>1. Drawn => HeadlinesReviewed
  BY EveryHeadlineReviewed DEF Drawn, HeadlinesReviewed
<1> QED BY <1>1, OnlyEvidenceIsDrawn, PTL

\* The run's property AggregatorsReviewed, for every number of spans and of sources
\* (score, recompute_with_corroboration, 115-216).
THEOREM AggregatorRowsAreReviewed == Spec => []AggregatorsReviewed
<1>1. Drawn => AggregatorsReviewed
  <2> SUFFICES ASSUME Drawn, NEW row \in rows, NEW count \in 1 .. MaxSources
               PROVE  AggregatorNeedsFour(row, count)
    BY DEF AggregatorsReviewed
  <2>1. count \in Nat /\ count >= 1
    BY ScoringAssumption
  <2> QED BY <2>1, EveryAggregatorReviewed DEF Drawn
<1> QED BY <1>1, OnlyEvidenceIsDrawn, PTL

\* The run's property VerdictKept, for every number of spans up to sixteen (score,
\* recompute_with_corroboration, 115-216).
THEOREM RowsKeepTheirVerdict ==
  ASSUME MaxFields <= 16
  PROVE  Spec => []VerdictKept
<1>1. Drawn => VerdictKept
  <2> SUFFICES ASSUME Drawn, NEW row \in rows PROVE SameVerdict(row)
    BY DEF VerdictKept
  <2>1. IsEvidence(row) /\ row.exact + row.recovered <= MaxFields
    BY DEF Drawn
  <2>2. row.exact \in Nat /\ row.recovered \in Nat
    BY <2>1 DEF IsEvidence
  <2>3. row.exact + row.recovered <= 16
    BY <2>1, <2>2, ScoringAssumption
  <2> QED BY <2>1, <2>3, EveryVerdictKept
<1> QED BY <1>1, OnlyEvidenceIsDrawn, PTL
=============================================================================
