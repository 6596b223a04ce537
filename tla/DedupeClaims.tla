----------------------------- MODULE DedupeClaims -----------------------------
(***************************************************************************)
(* What comments and documents of the repository say of the dedupe stage   *)
(* and its code does not keep.  Each formula is refuted by TLC with the    *)
(* configuration README.md names; PROJECT.json quotes the line of those    *)
(* that are findings.                                                      *)
(***************************************************************************)
EXTENDS MCDedupeStage

\* A team has two partners (view invariant_violations).
TeamsHaveTwo == pc = "idle" => \A t \in disk.teams : partner_count(disk, t) >= 2

\* Rows that one run merges do not disagree about the given name.
GivenNameIsAGate ==
  \A c \in plan : \A m, n \in c :
    compare_given(AsReport(disk, m), AsReport(disk, n)).kind # "disagree"

\* Rows that one run merges were announced inside one window.
MergedInsideWindow ==
  \A c \in plan : \A m, n \in c : DaysApart(disk.moves[m], disk.moves[n]) <= WINDOW_DAYS

\* A canonical row that waits for a human has a review item to be found by.
PendingIsQueued ==
  \A m \in canonical_moves(disk) :
    disk.moves[m].review_state = "pending_review" => \E q \in disk.queue : q[1] = m

\* Every canonical row keeps one primary source, without which the next run does
\* not see it.
PrimaryKept == \A m \in canonical_moves(disk) : disk.moves[m].primary # {}

\* The corroboration of a canonical row counts the sources it carries.
CorroborationCounts ==
  pc = "idle" => \A m \in canonical_moves(disk) :
    disk.moves[m].corroboration = Cardinality({SourceOf[i] : i \in disk.moves[m].items})

\* One ambiguous pair is one open review item.
OneQuestionPerPair == \A q \in disk.queue : q[1] = q[2] \/ <<q[2], q[1]>> \notin disk.queue

Succeeds == run = "running" /\ run' = "succeeded"

\* A run queues as many items as the dry run before it said.
DryRunIsHonest == [][Succeeds => queued = DryRunQueued(disk)]_vars

\* A run that follows a run at once finds nothing to merge.
RerunMergesNothing == [][Succeeds => Components(disk') = {}]_vars

\* A run that nothing interrupts succeeds.
DedupeSucceeds == pc = "idle" => run \in {"none", "succeeded"}

\* No people row carries a spelling of a person who was erased.
ErasedStaysErased ==
  \A p \in persons(disk) : ({p} \cup disk.people[p]) \cap disk.suppressed = {}

\* The sources of a register entry can be read again.
ReextractIsPossible == pc = "idle" => \A scope \in DiscardScopes : ~Restricted(ReadFrom(scope))
=============================================================================
