------------------------------ MODULE MCScoring ------------------------------
(***************************************************************************)
(* The two scores over small inputs.  Every pair of reports over six       *)
(* spellings of a surname is compared by PairScore: the first report is    *)
(* fixed at the start and the second drawn.  Every row over the tiers, the *)
(* access levels, the fields and up to MaxFields spans is weighed by       *)
(* Confidence: tier and fields are fixed at the start, the rest drawn.     *)
(***************************************************************************)
EXTENDS PairScore, Confidence

CONSTANTS
  Known,                   \* sets of spellings one report may be known by
  MaxFields, MaxSources

VARIABLES
  a, b,    \* the pair compared
  rows     \* the row weighed, if one is

\* "Sarah Chen", "Sarah Jane Chen", "S Chen", "Chen", "Michael Chen" and
\* "Chen Sarah", the same name surname first.
MCSpellings == {"sarah", "sarahjane", "s", "bare", "michael", "reversed"}
MCSurnameKey == [s \in MCSpellings |-> "chen"]
MCGivenTokens ==
  [s \in MCSpellings |-> CASE s = "sarahjane" -> <<"Sarah", "Jane">>
                           [] s = "s"         -> <<"S">>
                           [] s = "bare"      -> <<>>
                           [] s = "michael"   -> <<"Michael">>
                           [] OTHER           -> <<"Sarah">>]
MCGivenKey ==
  [s \in MCSpellings |-> CASE s = "bare"      -> NoGivenName
                           [] s = "reversed"  -> "sarah"
                           [] OTHER           -> s]
MCAbbreviates == {<<"S", "Sarah">>}

MCKnown == {{s} : s \in MCSpellings} \cup {{"michael", "sarah"}}

\* MaxFields leaves room for a span of every field.
ASSUME ScoringAssumption ==
  /\ Known \subseteq SUBSET Spellings
  /\ \E known \in Known : known # {}
  /\ MaxFields \in Nat /\ MaxFields >= 5
  /\ MaxSources \in Nat

Report(dates) ==
  [name : Spellings, variants : Known, from_firm : {"f1", "f2", Unstated},
   office : {"sg", "hk", Unstated}, title_to : {"partner", Unstated},
   announced : dates]

Rows(dates) == {r \in Report(dates) : r.name \in r.variants}

\* The evidence for one move.
Drafts == [tier : DOMAIN TIER_BASE, present : SUBSET DOMAIN COMPLETENESS_WEIGHTS]
Weigh(d, access, exact, recovered, self, dropped) ==
  [tier |-> d.tier, present |-> d.present, access |-> access, exact |-> exact,
   recovered |-> recovered, self |-> self, dropped |-> dropped]

\* Nothing, a number that is stored as nothing, and the neighbours of the floor:
\* one below it, one that is stored as the floor, and the floor.
DrawnReports == {0, 4, 5994, 5996, 6000}

Spans(d) ==
  {s \in (0 .. MaxFields) \X (0 .. MaxFields) :
     s[1] + s[2] \in Max({1, Cardinality(d.present)}) .. MaxFields}

\* One report that stands for "no pair is compared".
Idle == CHOOSE r \in Rows({15}) : TRUE

Init ==
  \/ a \in Rows({15}) /\ b = a /\ rows = {}
  \/ a = Idle /\ b = a /\ rows \in {{Weigh(d, "full_public", MaxFields, 0, 10000, 0)} : d \in Drafts}

Compare == /\ rows = {}
           /\ b = a
           /\ b' \in Rows({0, 15, 16, 60, 61, 75})
           /\ UNCHANGED <<a, rows>>

Draw == /\ \E row \in rows, access \in DOMAIN ACCESS_FACTOR, self \in DrawnReports, dropped \in 0 .. 2 :
             /\ row.self = 10000
             /\ \E s \in Spans(row) : rows' = {Weigh(row, access, s[1], s[2], self, dropped)}
        /\ UNCHANGED <<a, b>>

\* Back to the start, to draw another.
Return == \/ b # a /\ b' = a /\ UNCHANGED <<a, rows>>
          \/ /\ rows # {}
             /\ rows' = {Weigh(row, "full_public", MaxFields, 0, 10000, 0) : row \in rows}
             /\ UNCHANGED <<a, b>>

Next == Compare \/ Draw \/ Return

Spec == Init /\ [][Next]_<<a, b, rows>>

\* The verdict of a pair is the same both ways round (score_pair, 184-252).
VerdictSymmetric == Symmetric(a, b)

\* An initial needs every other field (score_pair, 217-245).
InitialsCorroborated == InitialNeedsEverything(a, b)

\* A conflict of origin firms needs everything else (score_pair, 217-245).
OriginConflictsReviewed == OriginConflictIsReviewed(a, b)

\* A stored row keeps its verdict (confidence.py, score and
\* recompute_with_corroboration).
VerdictKept == \A row \in rows : SameVerdict(row)

\* An aggregator alone is reviewed (TIER_BASE: "by design").
AggregatorsReviewed ==
  \A row \in rows : \A count \in 1 .. MaxSources : AggregatorNeedsFour(row, count)

\* Only a firm's own headline is accepted alone (ACCESS_FACTOR: "a headline states
\* little and implies a lot").
HeadlinesReviewed == \A row \in rows : HeadlineNeedsFirm(row)

-----------------------------------------------------------------------------
(* What comments and docs say and the code keeps only in part (README         *)
(* section 5).                                                              *)

\* A row read from a headline alone is never accepted unseen
\* (extract.py:187, sitemap.py:19).
HeadlinesNeverAccepted ==
  \A row \in rows : row.access = "headline_only" => ~FiledUnseen(row)

\* A row that was filed for review because of its own low confidence stays there
\* when no source is added (confidence.py:175-177).
ScoresDoNotDrift ==
  \A row \in rows : MergedUnseen(row, 1) => FiledUnseen(row)
=============================================================================
