----------------------------- MODULE DedupeStage -----------------------------
(***************************************************************************)
(* tracker/pipeline/dedupe.py over the moves table that the extract stage  *)
(* fills, with the two commands that take rows away again: reextract and   *)
(* erase_person.                                                           *)
(*                                                                         *)
(* The stage is one transaction with one commit at its end: `disk` is the  *)
(* committed database and `txn` what the stage has written on top of it.   *)
(* As in ExtractStage a fault falls between two statements, and the        *)
(* `finally` of runs.record commits whatever a Python exception leaves.    *)
(***************************************************************************)
EXTENDS PairScore, FiniteSets

CONSTANTS
  Items,        \* raw_items rows
  Sources,      \* sources rows
  SourceOf,     \* [Items -> Sources]
  TierOf,       \* [Sources -> Nat], sources.reliability_tier
  Firms,
  InHouse,      \* firms.firm_type = 'in_house'
  VariantsOf,   \* [Spellings -> SUBSET Spellings], names.variants
  Reports,      \* the moves extraction reads out of the items
  Faults,       \* which of "kill", "interrupt" may happen
  MaxMoves,     \* bound on moves rows
  MaxTeams,     \* bound on team_moves rows
  MaxFaults, MaxDiscards, MaxErasures   \* bounds on how often they happen

MoveIds == 1 .. MaxMoves
TeamIds == 1 .. MaxTeams
MoveTypes == {"lateral", "promotion", "in_house_entry"}

\* What _persist files: title_from, partner_tier and effective_date are contested
\* and scored exactly as title_to is, or not at all, and are left out.
Report == [item : Items, name : Spellings, to_firm : Firms \cup {Unstated},
           from_firm : Firms \cup {Unstated}, office : STRING, title_to : STRING,
           move_type : MoveTypes, announced : Nat,
           sure : BOOLEAN,      \* not needs_review
           placed : BOOLEAN]    \* the classifier found a practice group

\* The deferred trigger moves_firm_kind_agrees, for the types modelled.
FirmKindAgrees(r) ==
  r.move_type = "in_house_entry" => r.from_firm \in InHouse \cup {Unstated}

ASSUME DedupeAssumption ==
  /\ Spellings # {}
  /\ SourceOf \in [Items -> Sources]
  /\ TierOf \in [Sources -> Nat]
  /\ Unstated \notin Firms
  /\ InHouse \subseteq Firms
  /\ VariantsOf \in [Spellings -> SUBSET Spellings]
  /\ \A s \in Spellings : s \in VariantsOf[s]
  /\ Reports \subseteq Report
  /\ \A r \in Reports : FirmKindAgrees(r)
  /\ Faults \subseteq {"kill", "interrupt"}
  /\ MaxMoves \in Nat \ {0} /\ MaxTeams \in Nat
  /\ MaxFaults \in Nat /\ MaxDiscards \in Nat /\ MaxErasures \in Nat

VARIABLES
  disk,      \* the committed database
  txn,       \* the database as the stage's transaction sees it
  pc,        \* where the stage is
  plan,      \* components not yet merged
  asked,     \* ambiguous pairs not yet queued
  ordered,   \* the component in hand, strongest report first
  merged,    \* the row made of it
  crew,      \* the cluster a team_moves row was just inserted for
  queued,    \* stats["queued"]
  run,       \* status of the last pipeline_runs row of the stage
  faults, discards, erasures

local == <<plan, asked, ordered, merged, crew, queued>>
environment == <<faults, discards, erasures>>
vars == <<disk, txn, pc, local, run, environment>>

-----------------------------------------------------------------------------
(* The database.                                                            *)

ReviewStates == {"absent", "auto_accepted", "pending_review", "superseded", "rejected"}

\* What a column holds that reports fill: what one of them states, or nothing.
Offices == {r.office : r \in Reports} \cup {Unstated}
Titles == {r.title_to : r \in Reports} \cup {Unstated}

Row == [review_state  : ReviewStates,            \* "absent": there is no such row
        origin        : SUBSET Reports,          \* fingerprint; {} on a merged row
        person        : Spellings, to_firm : Firms \cup {Unstated},
        from_firm     : Firms \cup {Unstated}, office : Offices, title_to : Titles,
        move_type     : MoveTypes, announced : Nat,
        items         : SUBSET Items,            \* move_sources
        primary       : SUBSET Items,            \* the one with is_primary
        superseded_by : 0 .. MaxMoves,
        team          : 0 .. MaxTeams,
        corroboration : Nat,                     \* sources counted into confidence
        classified    : BOOLEAN,                 \* classification_state
        grouped       : BOOLEAN]                 \* has its practice groups

\* people is keyed by canonical_name, which extraction never files twice; the
\* value is name_variants, {} where there is no such person.
Database == [moves : [MoveIds -> Row], people : [Spellings -> SUBSET Spellings],
             filed : SUBSET Reports,             \* read out of an extracted item
             queue : SUBSET (MoveIds \X MoveIds), teams : SUBSET TeamIds,
             suppressed : SUBSET Spellings]

NoRow(s) == [review_state |-> "absent", origin |-> {}, person |-> s,
             to_firm |-> Unstated, from_firm |-> Unstated, office |-> Unstated,
             title_to |-> Unstated, move_type |-> "lateral", announced |-> 0,
             items |-> {}, primary |-> {}, superseded_by |-> 0, team |-> 0,
             corroboration |-> 0, classified |-> FALSE, grouped |-> FALSE]
Absent == NoRow(CHOOSE s \in Spellings : TRUE)

EmptyDatabase ==
  [moves |-> [m \in MoveIds |-> Absent], people |-> [s \in Spellings |-> {}],
   filed |-> {}, queue |-> {}, teams |-> {}, suppressed |-> {}]

live(db) == {m \in MoveIds : db.moves[m].review_state # "absent"}

canonical_moves(db) ==
  {m \in live(db) : db.moves[m].superseded_by = 0 /\ db.moves[m].review_state # "rejected"}

persons(db) == {s \in Spellings : db.people[s] # {}}

\* A row id above every id in use, so a merged row is numbered after its inputs.
IsNewId(db, m) == \A n \in live(db) : n < m
NewId(db) == CHOOSE m \in MoveIds : IsNewId(db, m) /\ \A n \in MoveIds : IsNewId(db, n) => m <= n
HasRoom(db) == MaxMoves \notin live(db)

partner_count(db, t) ==
  Cardinality({m \in live(db) : db.moves[m].team = t /\ db.moves[m].superseded_by = 0})

\* What a deferred constraint trigger refuses at COMMIT.
Committable(db) ==
  \A m \in live(db) : /\ db.moves[m].classified => db.moves[m].grouped
                      /\ FirmKindAgrees(db.moves[m])

-----------------------------------------------------------------------------
(* Scoring a block.                                                         *)

\* _CANDIDATE_SQL
candidates(db) ==
  {m \in canonical_moves(db) : db.moves[m].primary # {} /\ db.moves[m].to_firm # Unstated}

AsReport(db, m) ==
  [name |-> db.moves[m].person, variants |-> db.people[db.moves[m].person],
   from_firm |-> db.moves[m].from_firm, office |-> db.moves[m].office,
   title_to |-> db.moves[m].title_to, announced |-> db.moves[m].announced]

\* Same surname and destination, announced inside the window.
Blocked(db, m, n) ==
  /\ m # n
  /\ SurnameKey[db.moves[m].person] = SurnameKey[db.moves[n].person]
  /\ db.moves[m].to_firm = db.moves[n].to_firm
  /\ DaysApart(db.moves[m], db.moves[n]) <= WINDOW_DAYS

Scored(db, verdict) ==
  {p \in candidates(db) \X candidates(db) :
     /\ Blocked(db, p[1], p[2])
     /\ score_pair(AsReport(db, p[1]), AsReport(db, p[2])) = verdict}

\* _Union: connected components are the smallest sets no merge leads out of.
Closed(edges, c) == \A e \in edges : e[1] \in c <=> e[2] \in c

Components(db) ==
  LET edges == Scored(db, "merge")
      joined == {e[1] : e \in edges}
  IN {c \in SUBSET joined :
        /\ c # {} /\ Closed(edges, c)
        /\ \A d \in SUBSET c : Closed(edges, d) => d \in {{}, c}}

\* Ambiguous pairs of rows that both stay, in either order when the dates tie.
Questions(db) ==
  {p \in Scored(db, "ambiguous") :
     /\ db.moves[p[1]].announced <= db.moves[p[2]].announced
     /\ {p[1], p[2]} \cap UNION Components(db) = {}}

OneOrder(pairs) ==
  {q \in SUBSET pairs : \A p \in pairs : (p \in q) # (<<p[2], p[1]>> \in q)}

\* What `tracker dedupe` without --apply reports as sent to the review queue.
DryRunQueued(db) == Cardinality({{p[1], p[2]} : p \in Questions(db)})

\* sorted(members, key=_authority); confidence, which breaks ties, is left open.
PrimarySource(db, m) == SourceOf[CHOOSE i \in db.moves[m].primary : TRUE]
Tier(db, m) == TierOf[PrimarySource(db, m)]

Orderings(db, c) ==
  {o \in [1 .. Cardinality(c) -> c] :
     /\ \A m \in c : \E k \in DOMAIN o : o[k] = m
     /\ \A j, k \in DOMAIN o : j < k => Tier(db, o[j]) <= Tier(db, o[k])}

\* The rows of the component in hand, and the first of them.
Members == {ordered[k] : k \in DOMAIN ordered}
winner == disk.moves[ordered[1]]

\* _resolve_fields: the strongest report that states a field wins it, and another
\* stated value is a conflict.
Stating(o, f) == {k \in DOMAIN o : disk.moves[o[k]][f] # Unstated}

Winning(o, f) ==
  IF Stating(o, f) = {} THEN Unstated
  ELSE disk.moves[o[CHOOSE k \in Stating(o, f) : \A j \in Stating(o, f) : k <= j]][f]

Contested(o, f) ==
  \E k \in Stating(o, f) : disk.moves[o[k]][f] # Winning(o, f)

conflicts(o) ==
  \E f \in {"from_firm", "office", "title_to", "move_type"} : Contested(o, f)

Earliest(o) ==
  LET days == {disk.moves[o[k]].announced : k \in DOMAIN o}
  IN CHOOSE d \in days : \A e \in days : d <= e

\* The schema's promotion and same-firm CHECKs, guarded before the INSERT.
GuardedOrigin(o) ==
  LET first == disk.moves[o[1]]
  IN CASE first.move_type = "promotion" -> first.to_firm
       [] first.move_type # "promotion" /\ Winning(o, "from_firm") = first.to_firm -> Unstated
       [] OTHER -> Winning(o, "from_firm")

MergedRow(o, needs_human) ==
  [disk.moves[o[1]] EXCEPT
     !.review_state = IF needs_human THEN "pending_review" ELSE "auto_accepted",
     !.origin = {}, !.from_firm = GuardedOrigin(o), !.office = Winning(o, "office"),
     !.title_to = Winning(o, "title_to"), !.announced = Earliest(o),
     !.items = {}, !.primary = {}, !.superseded_by = 0, !.team = 0, !.grouped = FALSE,
     !.corroboration = Cardinality({PrimarySource(disk, o[k]) : k \in DOMAIN o})]

\* Lift-outs: rows of one firm pair, clustered greedily from the earliest date.
Movers(db) ==
  {m \in canonical_moves(db) :
     /\ Unstated \notin {db.moves[m].from_firm, db.moves[m].to_firm}
     /\ db.moves[m].from_firm # db.moves[m].to_firm
     /\ db.moves[m].team = 0}

\* Mutant: one firm pair is one team, whatever the dates.
OneCluster(db, group) == {group}

Clusters(db, group) ==
  LET days == {db.moves[m].announced : m \in group}
      starts == CHOOSE s \in SUBSET days :
                  \A d \in days : d \in s <=> \A e \in s : e < d => d - e > WINDOW_DAYS
  IN {{m \in group : db.moves[m].announced \in d .. d + WINDOW_DAYS} : d \in starts}

SamePair(db, m) ==
  {n \in Movers(db) : /\ db.moves[n].from_firm = db.moves[m].from_firm
                      /\ db.moves[n].to_firm = db.moves[m].to_firm}

Crews(db) ==
  {c \in UNION {Clusters(db, SamePair(db, m)) : m \in Movers(db)} :
     Cardinality({db.moves[m].person : m \in c}) >= 2}

-----------------------------------------------------------------------------
(* How a run ends.                                                          *)

EndRun(db, status) ==
  /\ disk' = db
  /\ txn' = db
  /\ run' = status
  /\ pc' = "idle"
  /\ plan' = {}
  /\ asked' = {}
  /\ ordered' = <<>>
  /\ merged' = 0
  /\ crew' = {}
  /\ queued' = 0

\* A Python exception on a usable connection: record's finally commits, unless
\* a deferred trigger refuses the COMMIT.
Unwind ==
  \/ Committable(txn) /\ EndRun(txn, "failed")
  \/ ~Committable(txn) /\ EndRun(disk, run)

\* A refused statement: the UPDATE in record's finally raises too.
Abort == EndRun(disk, run)

Write(db, stage) ==
  /\ txn' = db
  /\ pc' = stage
  /\ UNCHANGED <<disk, run, environment>>

-----------------------------------------------------------------------------
(* The stage, with --apply.                                                 *)

Init ==
  /\ disk = EmptyDatabase
  /\ txn = EmptyDatabase
  /\ pc = "idle"
  /\ plan = {}
  /\ asked = {}
  /\ ordered = <<>>
  /\ merged = 0
  /\ crew = {}
  /\ queued = 0
  /\ run = "none"
  /\ faults = 0
  /\ discards = 0
  /\ erasures = 0

StartDedupe ==
  /\ pc = "idle"
  /\ plan' = Components(disk)
  /\ asked' \in OneOrder(Questions(disk))
  /\ run' = "running"
  /\ pc' = "merge"
  /\ UNCHANGED <<disk, txn, ordered, merged, crew, queued, environment>>

InsertMerged ==
  /\ pc = "merge"
  /\ HasRoom(txn)
  /\ \E c \in plan : \E o \in Orderings(disk, c) : \E weak \in BOOLEAN :
       LET needs_human == conflicts(o) \/ weak
       IN /\ Write([txn EXCEPT !.moves[NewId(txn)] = MergedRow(o, needs_human)], "source")
          /\ ordered' = o
          /\ plan' = plan \ {c}
          /\ queued' = queued + (IF needs_human THEN 1 ELSE 0)
  /\ merged' = NewId(txn)
  /\ UNCHANGED <<asked, crew>>

\* Mutant: only the sources of the winning row follow.
CopyWinnersSources ==
  /\ pc = "source"
  /\ Write([txn EXCEPT !.moves[merged].items = winner.items,
                       !.moves[merged].primary = winner.primary], "group")
  /\ UNCHANGED local

\* ON CONFLICT DO NOTHING keeps the first of two links to one item, whichever it
\* is, so an item shared with another input may lose its is_primary.
CopySources ==
  /\ pc = "source"
  /\ LET shared == UNION {disk.moves[m].items : m \in Members \ {ordered[1]}}
     IN \E kept \in SUBSET winner.primary :
          /\ winner.primary \ shared \subseteq kept
          /\ Write([txn EXCEPT
                !.moves[merged].items = UNION {disk.moves[m].items : m \in Members},
                !.moves[merged].primary = kept], "group")
  /\ UNCHANGED local

CopyGroups ==
  /\ pc = "group"
  /\ Write([txn EXCEPT !.moves[merged].grouped = winner.grouped], "learn")
  /\ UNCHANGED local

\* The person keeps every spelling of the inputs' people, as they were read.
Spelled == txn.people[winner.person]
             \cup UNION {disk.people[disk.moves[m].person] \cup {disk.moves[m].person} : m \in Members}

LearnSpellings ==
  /\ pc = "learn"
  /\ ({winner.person} \cup Spelled) \cap txn.suppressed = {}
  /\ Write([txn EXCEPT !.people[winner.person] = Spelled], "supersede")
  /\ UNCHANGED local

\* The trigger people_reject_suppressed refuses the UPDATE.
RefuseSpellings ==
  /\ pc = "learn"
  /\ ({winner.person} \cup Spelled) \cap txn.suppressed # {}
  /\ Abort
  /\ UNCHANGED environment

\* Mutant: the winning row stays canonical beside the merged one.
SupersedeLosers ==
  /\ pc = "supersede"
  /\ Write([txn EXCEPT !.moves =
               [m \in MoveIds |-> IF m \in Members \ {ordered[1]}
                                  THEN [@[m] EXCEPT !.superseded_by = merged,
                                                    !.review_state = "superseded"]
                                  ELSE @[m]]], "merge")
  /\ ordered' = <<>>
  /\ merged' = 0
  /\ UNCHANGED <<plan, asked, crew, queued>>

Supersede ==
  /\ pc = "supersede"
  /\ Write([txn EXCEPT !.moves =
               [m \in MoveIds |-> IF m \in Members
                                  THEN [@[m] EXCEPT !.superseded_by = merged,
                                                    !.review_state = "superseded"]
                                  ELSE @[m]]], "merge")
  /\ ordered' = <<>>
  /\ merged' = 0
  /\ UNCHANGED <<plan, asked, crew, queued>>

\* _queue: a pair that is already open is not opened again.
QueueQuestion ==
  /\ pc = "merge"
  /\ plan = {}
  /\ \E p \in asked :
       /\ Write([txn EXCEPT !.queue = @ \cup {p}], "merge")
       /\ asked' = asked \ {p}
       /\ queued' = queued + (IF p \in txn.queue THEN 0 ELSE 1)
  /\ UNCHANGED <<plan, ordered, merged, crew>>

InsertTeam ==
  /\ pc = "merge"
  /\ plan = {}
  /\ asked = {}
  /\ \E t \in TeamIds \ txn.teams :
       /\ \A u \in TeamIds \ txn.teams : t <= u
       /\ Write([txn EXCEPT !.teams = @ \cup {t}], "staff")
       /\ merged' = t
  /\ crew' \in Crews(txn)
  /\ UNCHANGED <<plan, asked, ordered, queued>>

StaffTeam ==
  /\ pc = "staff"
  /\ Write([txn EXCEPT !.moves =
               [m \in MoveIds |-> IF m \in crew THEN [@[m] EXCEPT !.team = merged] ELSE @[m]]],
           "merge")
  /\ crew' = {}
  /\ merged' = 0
  /\ UNCHANGED <<plan, asked, ordered, queued>>

FinishDedupe ==
  /\ pc = "merge"
  /\ plan = {}
  /\ asked = {}
  /\ Crews(txn) = {}
  /\ \/ Committable(txn) /\ EndRun(txn, "succeeded")
     \/ ~Committable(txn) /\ EndRun(disk, "failed")
  /\ UNCHANGED environment

-----------------------------------------------------------------------------
(* What changes the table between two runs.                                 *)

Operator(db) ==
  /\ pc = "idle"
  /\ disk' = db
  /\ txn' = db
  /\ UNCHANGED <<pc, local, run, faults>>

\* _resolve_person: the people a name may be filed under.
Namesakes(db, s) ==
  {p \in persons(db) : SurnameKey[p] = SurnameKey[s] /\ s \in {p} \cup db.people[p]}

FiledRow(r, person) ==
  [review_state |-> IF r.sure THEN "auto_accepted" ELSE "pending_review",
   origin |-> {r}, person |-> person, to_firm |-> r.to_firm, from_firm |-> r.from_firm,
   office |-> r.office, title_to |-> r.title_to, move_type |-> r.move_type,
   announced |-> r.announced, items |-> {r.item}, primary |-> {r.item},
   superseded_by |-> 0, team |-> 0, corroboration |-> 1, classified |-> r.placed, grouped |-> TRUE]

FileUnder(r, person, variants) ==
  LET m == NewId(disk)
  IN Operator([disk EXCEPT
        !.moves[m] = FiledRow(r, person),
        !.people[person] = variants,
        !.filed = @ \cup {r},
        !.queue = IF r.sure /\ r.placed THEN @ ELSE @ \cup {<<m, m>>}])

\* Mutant: a report whose row was merged away is filed again.
FileAgain(r) ==
  /\ \A m \in canonical_moves(disk) : r \notin disk.moves[m].origin
  /\ HasRoom(disk)
  /\ FileUnder(r, r.name, VariantsOf[r.name] \cup disk.people[r.name])
  /\ UNCHANGED <<discards, erasures>>

\* The extract stage commits a move. It is refused where the name is suppressed.
FileReport(r) ==
  /\ r \notin disk.filed
  /\ HasRoom(disk)
  /\ \/ \E p \in Namesakes(disk, r.name) : FileUnder(r, p, disk.people[p])
     \/ /\ Namesakes(disk, r.name) = {}
        /\ VariantsOf[r.name] \cap disk.suppressed = {}
        /\ FileUnder(r, r.name, VariantsOf[r.name])
  /\ UNCHANGED <<discards, erasures>>

\* Rows that go take their review items with them.
WithoutRows(db, gone) ==
  [db EXCEPT !.moves = [m \in MoveIds |-> IF m \in gone THEN Absent ELSE @[m]],
             !.queue = {q \in @ : {q[1], q[2]} \cap gone = {}}]

\* people and team_moves rows that nothing points at any more; a superseded row
\* lets go of its team (team_move_id is ON DELETE SET NULL).
Swept(db) ==
  LET kept == {t \in db.teams : partner_count(db, t) > 0}
  IN [db EXCEPT
        !.moves = [m \in MoveIds |-> IF @[m].team \in kept THEN @[m] ELSE [@[m] EXCEPT !.team = 0]],
        !.people = [s \in Spellings |->
                      IF \E m \in live(db) : db.moves[m].person = s THEN @[s] ELSE {}],
        !.teams = kept]

DiscardScopes == {{s} : s \in Sources} \cup {Sources}

ReadFrom(scope) == {m \in live(disk) : \E i \in disk.moves[m].items : SourceOf[i] \in scope}

\* superseded_by_move_id is ON DELETE RESTRICT: the DELETE fails while a row that
\* stays points at one that goes.
Restricted(gone) ==
  \E m \in live(disk) \ gone : disk.moves[m].superseded_by \in gone

\* `tracker reextract --apply`
Discard(scope) ==
  LET gone == ReadFrom(scope)
  IN /\ discards < MaxDiscards
     /\ discards' = discards + 1
     /\ ~Restricted(gone)
     /\ Operator([Swept(WithoutRows(disk, gone)) EXCEPT
                    !.filed = {r \in @ : SourceOf[r.item] \notin scope}])
     /\ UNCHANGED erasures

\* erase_person(): links into the set that goes are broken first.
Unlinked(db, gone) ==
  [db EXCEPT !.moves =
     [m \in MoveIds |-> IF @[m].superseded_by \in gone
                        THEN [@[m] EXCEPT !.superseded_by = 0, !.review_state = "rejected"]
                        ELSE @[m]]]

Erase(p) ==
  LET gone == {m \in live(disk) : disk.moves[m].person = p}
  IN /\ erasures < MaxErasures
     /\ erasures' = erasures + 1
     /\ p \in persons(disk)
     /\ Operator([WithoutRows(Unlinked(disk, gone), gone) EXCEPT
                    !.people[p] = {},
                    !.suppressed = @ \cup {p} \cup disk.people[p]])
     /\ UNCHANGED discards

Fault(kind) ==
  /\ kind \in Faults
  /\ pc # "idle"
  /\ faults < MaxFaults
  /\ faults' = faults + 1
  /\ UNCHANGED <<discards, erasures>>

Kill == Fault("kill") /\ EndRun(disk, run)

Interrupt == Fault("interrupt") /\ (Unwind \/ Abort)

-----------------------------------------------------------------------------

Step ==
  \/ InsertMerged \/ CopySources \/ CopyGroups \/ LearnSpellings \/ RefuseSpellings
  \/ Supersede \/ QueueQuestion \/ InsertTeam \/ StaffTeam \/ FinishDedupe

Next ==
  \/ StartDedupe
  \/ Step
  \/ \E r \in Reports : FileReport(r)
  \/ \E scope \in DiscardScopes : Discard(scope)
  \/ \E p \in Spellings : Erase(p)
  \/ Kill
  \/ Interrupt

Spec == Init /\ [][Next]_vars
-----------------------------------------------------------------------------
(* Properties.                                                              *)

Stages == {"idle", "merge", "source", "group", "learn", "supersede", "staff"}
InHand == pc \in {"source", "group", "learn", "supersede"}

\* Types of all variables; a component in hand is a nonempty sequence of rows of
\* the committed database, and the row made of it is new.
TypeOK ==
  /\ disk \in Database
  /\ txn \in Database
  /\ pc \in Stages
  /\ plan \in SUBSET SUBSET MoveIds
  /\ asked \in SUBSET (MoveIds \X MoveIds)
  /\ merged \in Nat
  /\ crew \in SUBSET MoveIds
  /\ queued \in Nat
  /\ run \in {"none", "running", "succeeded", "failed"}
  /\ faults \in 0 .. MaxFaults
  /\ discards \in 0 .. MaxDiscards
  /\ erasures \in 0 .. MaxErasures
  /\ InHand => /\ ordered \in [1 .. Len(ordered) -> live(disk)]
               /\ Len(ordered) > 0
               /\ merged \in MoveIds \ live(disk)

\* A superseded row points at a later row of the same surname and destination,
\* announced no later, that carries every source of the row it replaced: a merge
\* can be read backwards and never runs in a circle (_merge_component, 171-295).
SupersededBy(db, m, n) ==
  /\ n \in live(db)
  /\ m < n
  /\ db.moves[m].items \subseteq db.moves[n].items
  /\ db.moves[n].to_firm = db.moves[m].to_firm
  /\ db.moves[n].announced <= db.moves[m].announced
  /\ SurnameKey[db.moves[n].person] = SurnameKey[db.moves[m].person]

SupersessionSound ==
  \A m \in live(disk) :
    /\ disk.moves[m].superseded_by # 0 <=> disk.moves[m].review_state = "superseded"
    /\ disk.moves[m].superseded_by # 0 => SupersededBy(disk, m, disk.moves[m].superseded_by)

\* Two canonical rows count one item twice only where the item reports two moves
\* (one component collapses once, in one transaction).
ReportedOnce ==
  \A m, n \in canonical_moves(disk) :
    m # n => \A i \in disk.moves[m].items \cap disk.moves[n].items :
               Cardinality({r \in disk.filed : r.item = i}) > 1

\* No run of the stage takes an item out of the canonical view, whatever stops it
\* ("keeps everything the losing rows said").
Covered(db) == UNION {db.moves[m].items : m \in canonical_moves(db)}
CoverageKept ==
  [][<<discards, erasures>>' = <<discards, erasures>> => Covered(disk) \subseteq Covered(disk)']_vars

\* The rows of one team left one firm for another inside one window.
TeamsAreLiftOuts ==
  \A m, n \in live(disk) :
    disk.moves[m].team = disk.moves[n].team /\ disk.moves[m].team # 0 =>
      /\ disk.moves[m].to_firm = disk.moves[n].to_firm
      /\ disk.moves[m].from_firm = disk.moves[n].from_firm
      /\ DaysApart(disk.moves[m], disk.moves[n]) <= WINDOW_DAYS

\* The promise: a partition of the reports into events. A report belongs to the
\* canonical row its supersession links lead to.
Trail(db, m) ==
  CHOOSE s \in SUBSET live(db) :
    /\ m \in s
    /\ \A n \in s : db.moves[n].superseded_by \in s \cup {0}
    /\ \A n \in s \ {m} : \E k \in s : db.moves[k].superseded_by = n

EventOf(db, c) == UNION {db.moves[m].origin : m \in {n \in live(db) : c \in Trail(db, n)}}

EventsOf(db) == {EventOf(db, c) : c \in canonical_moves(db)}

Events == INSTANCE MoveEvents WITH events <- EventsOf(disk)

EventsSpec == Events!Spec
=============================================================================
