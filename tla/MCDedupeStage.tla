--------------------------- MODULE MCDedupeStage ---------------------------
(***************************************************************************)
(* Instances of DedupeStage: a firm newsroom, a trade title and a wire,   *)
(* four firms, one of them a bank, and six spellings of the surname Chen.  *)
(***************************************************************************)
EXTENDS DedupeStage

CONSTANTS newsroom, trade, wire

MCSources == {newsroom, trade, wire}
MCItems == {"n1", "n2", "t1", "t2", "w1"}
MCSourceOf == [i \in MCItems |-> CASE i \in {"n1", "n2"} -> newsroom
                                   [] i \in {"t1", "t2"} -> trade
                                   [] OTHER -> wire]
MCTierOf == [s \in MCSources |-> IF s = newsroom THEN 1 ELSE 2]
MCFirms == {"firm", "rival", "other", "bank"}
MCInHouse == {"bank"}

MCSpellings == {"sarah", "sarahjane", "susan", "s", "bare", "michael"}
MCSurnameKey == [s \in MCSpellings |-> "chen"]
MCGivenTokens ==
  [s \in MCSpellings |-> CASE s = "sarah"     -> <<"Sarah">>
                           [] s = "sarahjane" -> <<"Sarah", "Jane">>
                           [] s = "susan"     -> <<"Susan">>
                           [] s = "s"         -> <<"S">>
                           [] s = "bare"      -> <<>>
                           [] s = "michael"   -> <<"Michael">>]
MCGivenKey == [s \in MCSpellings |-> IF s = "bare" THEN NoGivenName ELSE s]
MCAbbreviates == {<<"S", "Sarah">>, <<"S", "Susan">>}
MCVariantsOf == [s \in MCSpellings |-> {s}]

\* A report of a lateral from a rival, all fields stated.
Says(item, name, day) ==
  [item |-> item, name |-> name, to_firm |-> "firm", from_firm |-> "rival",
   office |-> "sg", title_to |-> "partner", move_type |-> "lateral",
   announced |-> day, sure |-> TRUE, placed |-> TRUE]

\* Two reports of one partner, a colleague who moved with her, and a report that
\* names neither.
TeamReports ==
  {[Says("n1", "sarah", 10) EXCEPT !.office = Unstated], Says("t1", "sarahjane", 40),
   Says("t2", "michael", 20)}
CrashReports == TeamReports \cup {[Says("n2", "bare", 75) EXCEPT !.sure = FALSE]}

\* The newsroom calls it an entry from in-house and names no origin; the third
\* report names a law firm.
EntryReports ==
  {[Says("n1", "sarah", 10) EXCEPT !.move_type = "in_house_entry", !.from_firm = Unstated],
   [Says("t1", "sarahjane", 20) EXCEPT !.from_firm = Unstated],
   Says("t2", "sarahjane", 30)}

\* An initial that fits two partners.
BridgeReports == {Says("n1", "sarah", 10), Says("t1", "susan", 10), Says("t2", "s", 10)}

\* Three reports of one name, 50 days from each to the next.
ChainReports == {Says("n1", "sarah", 0), Says("t1", "sarah", 50), Says("t2", "sarah", 100)}

\* Two outlets that disagree about the office.
OfficeReports == {Says("n1", "sarah", 10), [Says("t1", "sarah", 12) EXCEPT !.office = "hk"]}

\* One article that spells one partner in two ways.
SharedItemReports == {Says("n1", "sarah", 10), Says("n1", "sarahjane", 10)}

\* Three outlets, the third later than the others.
WireReports == {Says("n1", "sarah", 10), Says("t1", "sarah", 12), Says("w1", "sarah", 14)}

\* A report without a given name on the same day as one with it.
BareReports == {Says("n1", "bare", 10), Says("t1", "sarah", 10)}

\* The initial stays below the line until the two other reports are one row.
LateReports ==
  {Says("t1", "s", 0),
   [Says("n1", "sarah", 40) EXCEPT !.office = Unstated, !.title_to = Unstated],
   Says("t2", "sarahjane", 50)}
=============================================================================
