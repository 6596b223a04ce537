------------------------- MODULE DedupeStageProofs -------------------------
(***************************************************************************)
(* What deduplication keeps for any reports, sources, spellings and any    *)
(* number of rows.                                                         *)
(***************************************************************************)
EXTENDS DedupeStage, FiniteSetTheorems, FunctionTheorems, WellFoundedInduction, TLAPS

-----------------------------------------------------------------------------
(* Numbers that are chosen.                                                 *)

LEMMA NatLeast ==
  ASSUME NEW S, S \subseteq Nat, S # {}
  PROVE  \E k \in S : \A j \in S : k <= j
<1>1. PICK k \in S : \A j \in S : ~ (<<j, k>> \in OpToRel(<, Nat))
  BY WFMin, NatLessThanWellFounded, Zenon
<1>2. \A j \in S : k <= j
  <2> TAKE j \in S
  <2>1. k \in Nat /\ j \in Nat /\ <<j, k>> \in Nat \X Nat
    OBVIOUS
  <2>2. ~(j < k)
    BY <1>1, <2>1 DEF OpToRel
  <2> QED
    BY <2>1, <2>2
<1> QED
  BY <1>2

LEMMA Ids == MoveIds \subseteq Nat \ {0} /\ MaxMoves \in MoveIds /\ IsFiniteSet(MoveIds)
<1>1. MaxMoves \in Nat \ {0}
  BY DedupeAssumption
<1>2. 1 \in Int /\ MaxMoves \in Int
  BY <1>1
<1>3. IsFiniteSet(1 .. MaxMoves)
  BY <1>2, FS_Interval
<1> QED
  BY <1>1, <1>3 DEF MoveIds

\* While there is room, a new row is numbered above every row there is.
LEMMA NewIdAbove ==
  ASSUME NEW db, HasRoom(db)
  PROVE  /\ NewId(db) \in MoveIds
         /\ \A n \in live(db) : n < NewId(db)
         /\ NewId(db) \notin live(db)
<1> DEFINE S == {m \in MoveIds : IsNewId(db, m)}
<1>1. live(db) \subseteq MoveIds
  BY DEF live
<1>2. MaxMoves \in S
  <2>1. ASSUME NEW n \in live(db) PROVE n < MaxMoves
    BY <1>1, DedupeAssumption DEF HasRoom, MoveIds
  <2> QED
    BY <2>1, Ids DEF IsNewId
<1>3. PICK k \in S : \A j \in S : k <= j
  <2>1. S \subseteq Nat /\ S # {}
    BY <1>2, Ids
  <2> HIDE DEF S
  <2> QED
    BY <2>1, NatLeast
<1>4. NewId(db) \in MoveIds /\ IsNewId(db, NewId(db))
  <2>1. k \in MoveIds /\ IsNewId(db, k) /\ \A n \in MoveIds : IsNewId(db, n) => k <= n
    BY <1>3
  <2> QED
    BY <2>1 DEF NewId
<1>5. NewId(db) \notin live(db)
  <2> SUFFICES ASSUME NewId(db) \in live(db) PROVE FALSE
    OBVIOUS
  <2>1. NewId(db) < NewId(db) /\ NewId(db) \in Nat
    BY <1>4, Ids DEF IsNewId
  <2> QED
    BY <2>1
<1> QED
  BY <1>4, <1>5 DEF IsNewId

\* A set of row ids is finite and has a size.
LEMMA RowsAreFinite ==
  ASSUME NEW c \in SUBSET MoveIds
  PROVE  /\ IsFiniteSet(c) /\ Cardinality(c) \in Nat
         /\ c # {} => Cardinality(c) > 0
<1>1. IsFiniteSet(c)
  BY Ids, FS_Subset
<1>2. Cardinality(c) \in Nat /\ (Cardinality(c) = 0 <=> c = {})
  BY <1>1, FS_CardinalityType, FS_EmptySet
<1> QED
  BY <1>1, <1>2

-----------------------------------------------------------------------------
(* Databases and what is written into them.                                 *)

LEMMA AbsentType == \A s \in Spellings : NoRow(s) \in Row
<1>1. 0 \in 0 .. MaxMoves /\ 0 \in 0 .. MaxTeams /\ 0 \in Nat
  BY DedupeAssumption
<1>2. Unstated \in Offices /\ Unstated \in Titles
  BY DEF Offices, Titles
<1> QED
  BY <1>1, <1>2 DEF NoRow, Row, ReviewStates, MoveTypes

\* A row that is written, and one whose fields change.
LEMMA WriteRow ==
  ASSUME NEW db \in Database, NEW m \in MoveIds, NEW r \in Row
  PROVE  /\ [db EXCEPT !.moves[m] = r] \in Database
         /\ [db EXCEPT !.moves[m] = r].moves = [db.moves EXCEPT ![m] = r]
         /\ [db EXCEPT !.moves[m] = r].filed = db.filed
         /\ [db EXCEPT !.moves[m] = r].teams = db.teams
         /\ [db EXCEPT !.moves[m] = r].people = db.people
BY DEF Database

LEMMA WriteMoves ==
  ASSUME NEW db \in Database, NEW moves \in [MoveIds -> Row]
  PROVE  /\ [db EXCEPT !.moves = moves] \in Database
         /\ [db EXCEPT !.moves = moves].moves = moves
         /\ [db EXCEPT !.moves = moves].filed = db.filed
         /\ [db EXCEPT !.moves = moves].teams = db.teams
         /\ [db EXCEPT !.moves = moves].people = db.people
BY DEF Database

LEMMA FieldTypes ==
  ASSUME NEW db \in Database, NEW m \in MoveIds
  PROVE  /\ db.moves[m] \in Row
         /\ db.moves[m].origin \in SUBSET Reports
         /\ db.moves[m].person \in Spellings
         /\ db.moves[m].to_firm \in Firms \cup {Unstated}
         /\ db.moves[m].from_firm \in Firms \cup {Unstated}
         /\ db.moves[m].office \in Offices /\ db.moves[m].title_to \in Titles
         /\ db.moves[m].move_type \in MoveTypes
         /\ db.moves[m].announced \in Nat
         /\ db.moves[m].items \in SUBSET Items
         /\ db.moves[m].primary \in SUBSET Items
         /\ db.moves[m].superseded_by \in 0 .. MaxMoves
         /\ db.moves[m].team \in 0 .. MaxTeams
BY DEF Database, Row

-----------------------------------------------------------------------------
(* Components.                                                              *)

\* The rows of one surname and destination: blocking never pairs two others.
Akin(db, m, n) ==
  /\ SurnameKey[db.moves[m].person] = SurnameKey[db.moves[n].person]
  /\ db.moves[m].to_firm = db.moves[n].to_firm

\* Merging is transitive, and what it is the closure of is not: but no component
\* leaves its block.
LEMMA ComponentIsAkin ==
  ASSUME NEW db, NEW c \in Components(db)
  PROVE  /\ c # {} /\ c \subseteq candidates(db)
         /\ \A m, n \in c : Akin(db, m, n)
<1> DEFINE edges == Scored(db, "merge")
           joined == {e[1] : e \in edges}
<1>1. \A e \in edges : /\ e \in candidates(db) \X candidates(db)
                       /\ Akin(db, e[1], e[2])
  BY DEF Scored, Blocked, Akin
<1>2. /\ c \in SUBSET joined /\ c # {} /\ Closed(edges, c)
      /\ \A d \in SUBSET c : Closed(edges, d) => d \in {{}, c}
  BY DEF Components
<1> HIDE DEF edges
<1>3. c \subseteq candidates(db)
  BY <1>1, <1>2
<1>4. ASSUME NEW m \in c, NEW n \in c PROVE Akin(db, m, n)
  <2> DEFINE d == {k \in c : Akin(db, m, k)}
  <2>1. Closed(edges, d)
    <3> SUFFICES ASSUME NEW e \in edges PROVE e[1] \in d <=> e[2] \in d
      BY DEF Closed
    <3>1. e[1] \in c <=> e[2] \in c
      BY <1>2 DEF Closed
    <3>2. Akin(db, e[1], e[2])
      BY <1>1
    <3> QED
      BY <3>1, <3>2 DEF Akin
  <2>2. m \in d
    BY DEF Akin
  <2>3. d = c
    BY <1>2, <2>1, <2>2
  <2> QED
    BY <2>3
<1> QED
  BY <1>2, <1>3, <1>4

LEMMA ComponentsAreDisjoint ==
  ASSUME NEW db, NEW c \in Components(db), NEW d \in Components(db), c # d
  PROVE  c \cap d = {}
<1> DEFINE edges == Scored(db, "merge")
<1>1. /\ Closed(edges, c) /\ \A e \in SUBSET c : Closed(edges, e) => e \in {{}, c}
      /\ Closed(edges, d) /\ \A e \in SUBSET d : Closed(edges, e) => e \in {{}, d}
  BY DEF Components
<1>2. Closed(edges, c \cap d)
  BY <1>1 DEF Closed
<1> QED
  BY <1>1, <1>2

\* The reports of a component in order of authority are its rows, each at least once.
LEMMA OrderingOf ==
  ASSUME NEW db, NEW c \in SUBSET MoveIds, c # {}, NEW o \in Orderings(db, c)
  PROVE  /\ Len(o) \in Nat \ {0}
         /\ o \in [1 .. Len(o) -> c]
         /\ o[1] \in c
         /\ {o[k] : k \in DOMAIN o} = c
<1>1. Cardinality(c) \in Nat \ {0}
  BY RowsAreFinite
<1>2. o \in [1 .. Cardinality(c) -> c] /\ \A m \in c : \E k \in DOMAIN o : o[k] = m
  BY DEF Orderings
<1>3. Len(o) = Cardinality(c)
  BY <1>1, <1>2
<1> QED
  BY <1>1, <1>2, <1>3

-----------------------------------------------------------------------------
(* The row made of a component.                                             *)

LEMMA WinningIsStated ==
  ASSUME NEW n \in Nat, NEW o, DOMAIN o = 1 .. n, NEW f
  PROVE  Winning(o, f) = Unstated \/ \E k \in DOMAIN o : Winning(o, f) = disk.moves[o[k]][f]
<1>1. CASE Stating(o, f) = {}
  BY <1>1 DEF Winning
<1>2. CASE Stating(o, f) # {}
  <2>1. Stating(o, f) \subseteq DOMAIN o /\ Stating(o, f) \subseteq Nat
    BY DEF Stating
  <2>2. \E k \in Stating(o, f) : \A j \in Stating(o, f) : k <= j
    BY <1>2, <2>1, NatLeast
  <2>3. (CHOOSE k \in Stating(o, f) : \A j \in Stating(o, f) : k <= j) \in Stating(o, f)
    BY <2>2
  <2> QED
    BY <1>2, <2>1, <2>3 DEF Winning
<1> QED
  BY <1>1, <1>2

LEMMA EarliestIsFirst ==
  ASSUME disk \in Database, NEW n \in Nat \ {0}, NEW o \in [1 .. n -> MoveIds]
  PROVE  /\ Earliest(o) \in Nat
         /\ \A k \in 1 .. n : Earliest(o) <= disk.moves[o[k]].announced
<1> DEFINE days == {disk.moves[o[k]].announced : k \in DOMAIN o}
<1>1. days \subseteq Nat /\ days # {}
  <2>1. \A k \in 1 .. n : disk.moves[o[k]].announced \in Nat
    BY FieldTypes
  <2>2. 1 \in DOMAIN o /\ DOMAIN o = 1 .. n
    OBVIOUS
  <2> QED
    BY <2>1, <2>2
<1> HIDE DEF days
<1>2. \E d \in days : \A e \in days : d <= e
  BY <1>1, NatLeast
<1>3. Earliest(o) \in days /\ \A e \in days : Earliest(o) <= e
  BY <1>2 DEF Earliest, days
<1> QED
  BY <1>1, <1>3 DEF days

LEMMA MergedRowIs ==
  ASSUME disk \in Database, NEW n \in Nat \ {0}, NEW o \in [1 .. n -> MoveIds],
         NEW needs_human \in BOOLEAN
  PROVE  LET r == MergedRow(o, needs_human)
             first == disk.moves[o[1]]
         IN /\ r \in Row
            /\ r.review_state \in {"pending_review", "auto_accepted"}
            /\ r.origin = {} /\ r.items = {} /\ r.superseded_by = 0 /\ r.team = 0
            /\ r.person = first.person /\ r.to_firm = first.to_firm
            /\ r.announced = Earliest(o)
<1> DEFINE first == disk.moves[o[1]]
<1>0. o[1] \in MoveIds /\ DOMAIN o = 1 .. n /\ \A k \in 1 .. n : o[k] \in MoveIds
  OBVIOUS
<1>1. first \in Row
  BY <1>0, FieldTypes
<1>2. /\ Winning(o, "from_firm") \in Firms \cup {Unstated}
  <2>1. \A k \in 1 .. n : disk.moves[o[k]]["from_firm"] \in Firms \cup {Unstated}
    BY <1>0, FieldTypes
  <2> QED
    BY <1>0, <2>1, WinningIsStated
<1>3. Winning(o, "office") \in Offices
  <2>1. \A k \in 1 .. n : disk.moves[o[k]]["office"] \in Offices
    BY <1>0, FieldTypes
  <2> QED
    BY <1>0, <2>1, WinningIsStated DEF Offices
<1>4. Winning(o, "title_to") \in Titles
  <2>1. \A k \in 1 .. n : disk.moves[o[k]]["title_to"] \in Titles
    BY <1>0, FieldTypes
  <2> QED
    BY <1>0, <2>1, WinningIsStated DEF Titles
<1>5. GuardedOrigin(o) \in Firms \cup {Unstated}
  BY <1>1, <1>2 DEF GuardedOrigin, Row
<1>6. Earliest(o) \in Nat
  BY EarliestIsFirst
<1>7. Cardinality({PrimarySource(disk, o[k]) : k \in DOMAIN o}) \in Nat
  <2> DEFINE source == [k \in 1 .. n |-> PrimarySource(disk, o[k])]
             T == {source[k] : k \in 1 .. n}
  <2>1. source \in [1 .. n -> T] /\ \A t \in T : \E k \in 1 .. n : source[k] = t
    OBVIOUS
  <2>2. T = {PrimarySource(disk, o[k]) : k \in DOMAIN o}
    BY <1>0
  <2> HIDE DEF source, T
  <2>3. source \in Surjection(1 .. n, T)
    BY <2>1, Fun_IsSurj
  <2>4. IsFiniteSet(1 .. n)
    BY FS_Interval
  <2>5. IsFiniteSet(T)
    BY <2>3, <2>4, FS_Surjection
  <2> QED
    BY <2>2, <2>5, FS_CardinalityType
<1>8. 0 \in 0 .. MaxMoves /\ 0 \in 0 .. MaxTeams
  BY DedupeAssumption
<1> DEFINE state == IF needs_human THEN "pending_review" ELSE "auto_accepted"
           origin == GuardedOrigin(o)
           office == Winning(o, "office")
           title == Winning(o, "title_to")
           earliest == Earliest(o)
           sources == Cardinality({PrimarySource(disk, o[k]) : k \in DOMAIN o})
<1>9. state \in {"pending_review", "auto_accepted"}
  OBVIOUS
<1>10. MergedRow(o, needs_human) =
         [first EXCEPT !.review_state = state, !.origin = {}, !.from_firm = origin,
                       !.office = office, !.title_to = title, !.announced = earliest,
                       !.items = {}, !.primary = {}, !.superseded_by = 0, !.team = 0,
                       !.grouped = FALSE, !.corroboration = sources]
  BY DEF MergedRow
<1>11. earliest = Earliest(o)
  OBVIOUS
<1> HIDE DEF first, state, origin, office, title, earliest, sources
<1>12. /\ origin \in Firms \cup {Unstated} /\ office \in Offices /\ title \in Titles
       /\ earliest \in Nat /\ sources \in Nat
  BY <1>3, <1>4, <1>5, <1>6, <1>7 DEF origin, office, title, earliest, sources
<1>13. MergedRow(o, needs_human) \in Row
  <2> DEFINE new == MergedRow(o, needs_human)
  <2>1. new = [first EXCEPT !.review_state = state, !.origin = {}, !.from_firm = origin,
                       !.office = office, !.title_to = title, !.announced = earliest,
                       !.items = {}, !.primary = {}, !.superseded_by = 0, !.team = 0,
                       !.grouped = FALSE, !.corroboration = sources]
    BY <1>10
  <2> HIDE DEF new
  <2>2. first.person \in Spellings /\ first.to_firm \in Firms \cup {Unstated}
        /\ first.move_type \in MoveTypes /\ first.classified \in BOOLEAN
    BY <1>1 DEF Row
  <2>3. new = [review_state |-> state, origin |-> {}, person |-> first.person,
               to_firm |-> first.to_firm, from_firm |-> origin, office |-> office,
               title_to |-> title, move_type |-> first.move_type, announced |-> earliest,
               items |-> {}, primary |-> {}, superseded_by |-> 0, team |-> 0,
               corroboration |-> sources, classified |-> first.classified, grouped |-> FALSE]
    BY <1>1, <2>1 DEF Row
  <2> QED
    BY <1>8, <1>9, <1>12, <2>2, <2>3 DEF Row, ReviewStates, new
<1>14. LET r == MergedRow(o, needs_human)
       IN /\ r.review_state = state
          /\ r.origin = {} /\ r.items = {} /\ r.superseded_by = 0 /\ r.team = 0
          /\ r.person = first.person /\ r.to_firm = first.to_firm
          /\ r.announced = earliest
  BY <1>1, <1>10 DEF Row
<1> QED
  BY <1>9, <1>11, <1>13, <1>14 DEF first

-----------------------------------------------------------------------------
(* Types.                                                                   *)

\* The stage deletes no row, and of the rows the run found it changes only where
\* they stand: their review state, their link and their team.
Kept(before, after) ==
  \A m \in live(before) :
    /\ m \in live(after)
    /\ after.moves[m].origin = before.moves[m].origin
    /\ after.moves[m].person = before.moves[m].person
    /\ after.moves[m].to_firm = before.moves[m].to_firm
    /\ after.moves[m].announced = before.moves[m].announced
    /\ after.moves[m].items = before.moves[m].items

\* What is left to merge are rows of the committed database, each component in one
\* block and apart from the others.
PlanInv ==
  /\ \A c \in plan : /\ c # {} /\ c \subseteq candidates(disk)
                     /\ \A m, n \in c : Akin(disk, m, n)
  /\ \A c, d \in plan : c # d => c \cap d = {}

Shape ==
  /\ pc = "idle" => plan = {} /\ txn = disk
  /\ pc = "staff" => merged \in TeamIds
  /\ Kept(disk, txn)
  /\ PlanInv

TypeInv == TypeOK /\ Shape

LEMMA LiveRows == \A db : live(db) \subseteq MoveIds /\ candidates(db) \subseteq live(db)
BY DEF live, candidates, canonical_moves

LEMMA KeptSame == \A db : Kept(db, db)
BY DEF Kept

LEMMA EndRunTyped ==
  ASSUME TypeInv, NEW db \in Database, EndRun(db, run) \/ EndRun(db, "failed") \/ EndRun(db, "succeeded"),
         faults' \in 0 .. MaxFaults, UNCHANGED <<discards, erasures>>
  PROVE  TypeInv'
<1>1. /\ disk' = db /\ txn' = db /\ pc' = "idle" /\ plan' = {} /\ asked' = {} /\ merged' = 0
      /\ crew' = {} /\ queued' = 0 /\ run' \in {run, "failed", "succeeded"}
  BY DEF EndRun
<1>2. Shape'
  BY <1>1, KeptSame DEF Shape, PlanInv
<1> QED
  BY <1>1, <1>2 DEF TypeInv, TypeOK, Stages, InHand

LEMMA UnwindTyped ==
  ASSUME TypeInv, Unwind, faults' \in 0 .. MaxFaults, UNCHANGED <<discards, erasures>>
  PROVE  TypeInv'
<1>1. disk \in Database /\ txn \in Database
  BY DEF TypeInv, TypeOK
<1> QED
  BY <1>1, EndRunTyped DEF Unwind

\* A step of the stage that writes typed rows.
LEMMA WriteTyped ==
  ASSUME TypeInv, NEW db \in Database, NEW stage \in Stages \ {"idle"}, Write(db, stage),
         Kept(disk, db),
         plan' \subseteq plan, asked' \in SUBSET (MoveIds \X MoveIds), merged' \in Nat,
         crew' \in SUBSET MoveIds, queued' \in Nat,
         stage = "staff" => merged' \in TeamIds,
         stage \in {"source", "group", "learn", "supersede"} =>
           /\ ordered' \in [1 .. Len(ordered') -> live(disk)]
           /\ Len(ordered') > 0
           /\ merged' \in MoveIds \ live(disk)
  PROVE  TypeInv'
<1>1. /\ txn' = db /\ pc' = stage
      /\ UNCHANGED <<disk, run, faults, discards, erasures>>
  BY DEF Write, environment
<1>2. Shape'
  BY <1>1 DEF TypeInv, Shape, PlanInv
<1>3. TypeOK'
  BY <1>1 DEF TypeInv, TypeOK, Stages, InHand
<1> QED
  BY <1>2, <1>3 DEF TypeInv

\* A row that goes on in hand.
LEMMA HandTyped ==
  ASSUME TypeInv, InHand, NEW db \in Database, NEW stage \in {"group", "learn", "supersede"},
         Write(db, stage), Kept(disk, db), UNCHANGED local
  PROVE  TypeInv'
<1>1. /\ plan' = plan /\ asked' = asked /\ merged' = merged /\ crew' = crew /\ queued' = queued
      /\ ordered' = ordered
  BY DEF local
<1>2. /\ ordered \in [1 .. Len(ordered) -> live(disk)] /\ Len(ordered) > 0
      /\ merged \in MoveIds \ live(disk)
      /\ asked \in SUBSET (MoveIds \X MoveIds) /\ merged \in Nat
      /\ crew \in SUBSET MoveIds /\ queued \in Nat
  BY DEF TypeInv, TypeOK
<1>3. stage \in Stages \ {"idle"} /\ stage # "staff"
  BY DEF Stages
<1> QED
  BY <1>1, <1>2, <1>3, WriteTyped

\* A write to a row the run did not find.
LEMMA KeptBeside ==
  ASSUME TypeInv, NEW m \in MoveIds \ live(disk), NEW r \in Row
  PROVE  Kept(disk, [txn EXCEPT !.moves[m] = r])
<1>1. txn \in Database /\ Kept(disk, txn)
  BY DEF TypeInv, TypeOK, Shape
<1>2. [txn EXCEPT !.moves[m] = r].moves = [txn.moves EXCEPT ![m] = r]
  BY <1>1, WriteRow
<1>3. txn.moves \in [MoveIds -> Row]
  BY <1>1 DEF Database
<1> QED
  BY <1>1, <1>2, <1>3 DEF Kept, live

\* A component taken from the plan, and the order of its reports.
Inserted(c, o) ==
  \E weak \in BOOLEAN :
    /\ Write([txn EXCEPT !.moves[NewId(txn)] = MergedRow(o, conflicts(o) \/ weak)], "source")
    /\ ordered' = o
    /\ plan' = plan \ {c}
    /\ queued' = queued + (IF conflicts(o) \/ weak THEN 1 ELSE 0)
    /\ merged' = NewId(txn)

LEMMA InsertMergedTyped ==
  ASSUME TypeInv, InsertMerged
  PROVE  TypeInv'
<1> DEFINE id == NewId(txn)
<1>1. /\ id \in MoveIds /\ id \notin live(txn) /\ \A n \in live(txn) : n < id
  BY NewIdAbove DEF InsertMerged
<1>a. PICK c \in plan : \E o \in Orderings(disk, c) : Inserted(c, o)
  BY DEF InsertMerged, Inserted
<1>b. PICK o \in Orderings(disk, c) : Inserted(c, o)
  BY <1>a
<1>2. PICK weak \in BOOLEAN :
        /\ Write([txn EXCEPT !.moves[id] = MergedRow(o, conflicts(o) \/ weak)], "source")
        /\ ordered' = o /\ plan' = plan \ {c}
        /\ queued' = queued + (IF conflicts(o) \/ weak THEN 1 ELSE 0)
        /\ merged' = id
  BY <1>b DEF Inserted
<1>3. c # {} /\ c \in SUBSET MoveIds /\ c \subseteq live(disk)
  BY LiveRows DEF TypeInv, Shape, PlanInv
<1>4. Len(o) \in Nat \ {0} /\ o \in [1 .. Len(o) -> c]
  BY <1>3, OrderingOf
<1>5. disk \in Database /\ txn \in Database /\ Kept(disk, txn) /\ queued \in Nat
  BY DEF TypeInv, TypeOK, Shape
<1>6. MergedRow(o, conflicts(o) \/ weak) \in Row
  <2>1. o \in [1 .. Len(o) -> MoveIds] /\ (conflicts(o) \/ weak) \in BOOLEAN
    BY <1>3, <1>4 DEF conflicts
  <2> QED
    BY <1>4, <1>5, <2>1, MergedRowIs
<1>7. id \notin live(disk)
  BY <1>1, <1>5 DEF Kept
<1> HIDE DEF id
<1>8. /\ [txn EXCEPT !.moves[id] = MergedRow(o, conflicts(o) \/ weak)] \in Database
      /\ Kept(disk, [txn EXCEPT !.moves[id] = MergedRow(o, conflicts(o) \/ weak)])
  BY <1>1, <1>5, <1>6, <1>7, WriteRow, KeptBeside
<1>9. queued' \in Nat
  BY <1>2, <1>5
<1>10. UNCHANGED <<asked, crew>>
  BY DEF InsertMerged
<1>11. ordered' \in [1 .. Len(ordered') -> live(disk)] /\ Len(ordered') > 0
  BY <1>2, <1>3, <1>4
<1>12. asked' \in SUBSET (MoveIds \X MoveIds) /\ merged' \in Nat /\ crew' \in SUBSET MoveIds
  BY <1>1, <1>2, <1>10, Ids DEF TypeInv, TypeOK
<1>13. "source" \in Stages \ {"idle"} /\ plan' \subseteq plan
  BY <1>2 DEF Stages
<1> QED
  BY <1>1, <1>2, <1>7, <1>8, <1>9, <1>11, <1>12, <1>13, WriteTyped

LEMMA MembersAre ==
  ASSUME TypeInv, InHand
  PROVE  /\ Members \subseteq live(disk) /\ Members # {}
         /\ ordered[1] \in Members
         /\ merged \in MoveIds \ live(disk)
         /\ winner.person \in Spellings
<1>1. /\ ordered \in [1 .. Len(ordered) -> live(disk)] /\ Len(ordered) > 0
      /\ merged \in MoveIds \ live(disk) /\ disk \in Database
  BY DEF TypeInv, TypeOK
<1>2. Len(ordered) \in Int
  BY <1>1 DEF TypeInv, TypeOK
<1>3. 1 \in DOMAIN ordered /\ DOMAIN ordered = 1 .. Len(ordered)
  BY <1>1, <1>2
<1>4. ordered[1] \in MoveIds
  BY <1>1, <1>3, LiveRows
<1> QED
  BY <1>1, <1>3, <1>4, FieldTypes DEF Members, winner

LEMMA CopySourcesTyped == ASSUME TypeInv, CopySources PROVE TypeInv'
<1>1. PICK kept \in SUBSET winner.primary :
        Write([txn EXCEPT
          !.moves[merged].items = UNION {disk.moves[m].items : m \in Members},
          !.moves[merged].primary = kept], "group")
  BY DEF CopySources
<1> DEFINE all == UNION {disk.moves[m].items : m \in Members}
           r == [txn.moves[merged] EXCEPT !.items = all, !.primary = kept]
<1>2. InHand /\ disk \in Database /\ txn \in Database
  BY DEF CopySources, InHand, TypeInv, TypeOK
<1>3. Members \subseteq live(disk) /\ merged \in MoveIds \ live(disk) /\ ordered[1] \in MoveIds
  BY <1>2, MembersAre, LiveRows
<1>4. all \in SUBSET Items
  BY <1>2, <1>3, FieldTypes, LiveRows
<1>5. kept \in SUBSET Items
  BY <1>2, <1>3, FieldTypes DEF winner
<1> HIDE DEF all
<1>6. r \in Row
  <2>1. txn.moves[merged] \in Row
    BY <1>2, <1>3, FieldTypes
  <2> QED
    BY <1>4, <1>5, <2>1 DEF Row
<1>7. [txn EXCEPT !.moves[merged].items = all, !.moves[merged].primary = kept]
        = [txn EXCEPT !.moves[merged] = r]
  BY <1>2, <1>3 DEF Database
<1>8. Write([txn EXCEPT !.moves[merged] = r], "group")
  BY <1>1, <1>7 DEF all
<1>9. Kept(disk, [txn EXCEPT !.moves[merged] = r]) /\ [txn EXCEPT !.moves[merged] = r] \in Database
  BY <1>2, <1>3, <1>6, KeptBeside, WriteRow
<1> QED
  BY <1>2, <1>8, <1>9, HandTyped DEF CopySources

LEMMA CopyGroupsTyped == ASSUME TypeInv, CopyGroups PROVE TypeInv'
<1> DEFINE r == [txn.moves[merged] EXCEPT !.grouped = winner.grouped]
<1>2. InHand /\ disk \in Database /\ txn \in Database
  BY DEF CopyGroups, InHand, TypeInv, TypeOK
<1>3. merged \in MoveIds \ live(disk) /\ ordered[1] \in MoveIds
  BY <1>2, MembersAre, LiveRows
<1>4. winner.grouped \in BOOLEAN
  BY <1>2, <1>3 DEF winner, Database, Row
<1>6. r \in Row
  BY <1>2, <1>3, <1>4, FieldTypes DEF Row
<1>7. [txn EXCEPT !.moves[merged].grouped = winner.grouped] = [txn EXCEPT !.moves[merged] = r]
  BY <1>2, <1>3 DEF Database
<1>9. Kept(disk, [txn EXCEPT !.moves[merged] = r]) /\ [txn EXCEPT !.moves[merged] = r] \in Database
  BY <1>2, <1>3, <1>6, KeptBeside, WriteRow
<1> QED
  BY <1>2, <1>7, <1>9, HandTyped DEF CopyGroups

\* A write that is no write to the rows.
LEMMA KeptRows ==
  ASSUME TypeInv, NEW db, db.moves = txn.moves
  PROVE  Kept(disk, db)
<1>1. Kept(disk, txn)
  BY DEF TypeInv, Shape
<1> QED
  BY <1>1 DEF Kept, live

LEMMA LearnTyped == ASSUME TypeInv, LearnSpellings PROVE TypeInv'
<1>2. InHand /\ disk \in Database /\ txn \in Database
  BY DEF LearnSpellings, InHand, TypeInv, TypeOK
<1>3. Members \subseteq MoveIds /\ winner.person \in Spellings
  BY <1>2, MembersAre, LiveRows
<1>4. Spelled \in SUBSET Spellings
  <2>1. \A m \in Members : disk.moves[m].person \in Spellings
    BY <1>2, <1>3, FieldTypes
  <2>2. \A p \in Spellings : disk.people[p] \in SUBSET Spellings /\ txn.people[p] \in SUBSET Spellings
    BY <1>2 DEF Database
  <2> QED
    BY <1>3, <2>1, <2>2 DEF Spelled
<1> DEFINE db == [txn EXCEPT !.people[winner.person] = Spelled]
<1>5. db \in Database /\ db.moves = txn.moves
  BY <1>2, <1>3, <1>4 DEF Database
<1>6. Kept(disk, db)
  BY <1>5, KeptRows
<1> QED
  BY <1>2, <1>5, <1>6, HandTyped DEF LearnSpellings

\* Fields that merging and staffing leave alone.
LEMMA RestampTyped ==
  ASSUME TypeInv, NEW moves \in [MoveIds -> Row],
         \A m \in MoveIds : /\ moves[m].review_state = "absent" => txn.moves[m].review_state = "absent"
                            /\ moves[m].origin = txn.moves[m].origin
                            /\ moves[m].person = txn.moves[m].person
                            /\ moves[m].to_firm = txn.moves[m].to_firm
                            /\ moves[m].announced = txn.moves[m].announced
                            /\ moves[m].items = txn.moves[m].items
  PROVE  /\ Kept(disk, [txn EXCEPT !.moves = moves])
         /\ [txn EXCEPT !.moves = moves] \in Database
<1>1. txn \in Database /\ Kept(disk, txn)
  BY DEF TypeInv, TypeOK, Shape
<1>2. [txn EXCEPT !.moves = moves].moves = moves /\ [txn EXCEPT !.moves = moves] \in Database
  BY <1>1, WriteMoves
<1> QED
  BY <1>1, <1>2 DEF Kept, live

LEMMA SupersedeTyped == ASSUME TypeInv, Supersede PROVE TypeInv'
<1> DEFINE moves == [m \in MoveIds |->
                       IF m \in Members
                       THEN [txn.moves[m] EXCEPT !.superseded_by = merged, !.review_state = "superseded"]
                       ELSE txn.moves[m]]
<1>1. InHand /\ txn \in Database /\ merged \in MoveIds /\ MoveIds = 1 .. MaxMoves
  <2>1. InHand
    BY DEF Supersede, InHand
  <2> QED
    BY <2>1, MembersAre DEF TypeInv, TypeOK, MoveIds
<1>2. merged \in 0 .. MaxMoves
  BY <1>1, DedupeAssumption
<1>3. /\ moves \in [MoveIds -> Row]
      /\ \A m \in MoveIds : /\ moves[m].review_state = "absent" => txn.moves[m].review_state = "absent"
                            /\ moves[m].origin = txn.moves[m].origin
                            /\ moves[m].person = txn.moves[m].person
                            /\ moves[m].to_firm = txn.moves[m].to_firm
                            /\ moves[m].announced = txn.moves[m].announced
                            /\ moves[m].items = txn.moves[m].items
  <2>1. \A m \in MoveIds : txn.moves[m] \in Row
    BY <1>1, FieldTypes
  <2>s. \A r \in Row : [r EXCEPT !.superseded_by = merged, !.review_state = "superseded"] \in Row
    BY <1>2 DEF Row, ReviewStates
  <2>2. \A m \in MoveIds : moves[m] \in Row
    BY <2>s, <2>1
  <2>3. \A m \in MoveIds : moves[m].review_state = "absent" => txn.moves[m].review_state = "absent"
    BY <2>1 DEF Row
  <2> QED
    BY <2>1, <2>2, <2>3 DEF Row
<1>4. Write([txn EXCEPT !.moves = moves], "merge") /\ merged' = 0
      /\ UNCHANGED <<plan, asked, crew, queued>>
  BY DEF Supersede
<1> HIDE DEF moves
<1>5. Kept(disk, [txn EXCEPT !.moves = moves]) /\ [txn EXCEPT !.moves = moves] \in Database
  BY <1>3, RestampTyped
<1>6. /\ plan' \subseteq plan /\ asked' \in SUBSET (MoveIds \X MoveIds) /\ merged' \in Nat
      /\ crew' \in SUBSET MoveIds /\ queued' \in Nat /\ "merge" \in Stages \ {"idle"}
  BY <1>4 DEF TypeInv, TypeOK, Stages
<1> QED
  BY <1>4, <1>5, <1>6, WriteTyped

LEMMA QueueTyped == ASSUME TypeInv, QueueQuestion PROVE TypeInv'
<1>1. PICK p \in asked :
        /\ Write([txn EXCEPT !.queue = @ \cup {p}], "merge")
        /\ asked' = asked \ {p}
        /\ queued' = queued + (IF p \in txn.queue THEN 0 ELSE 1)
  BY DEF QueueQuestion
<1>2. txn \in Database /\ p \in MoveIds \X MoveIds /\ queued \in Nat
      /\ asked \in SUBSET (MoveIds \X MoveIds) /\ merged \in Nat /\ crew \in SUBSET MoveIds
  BY DEF TypeInv, TypeOK
<1> DEFINE db == [txn EXCEPT !.queue = @ \cup {p}]
<1>3. db \in Database /\ db.moves = txn.moves
  BY <1>2 DEF Database
<1>4. Kept(disk, db)
  BY <1>3, KeptRows
<1> HIDE DEF db
<1>5. Write(db, "merge") /\ "merge" \in Stages \ {"idle"}
  BY <1>1 DEF db, Stages
<1>6. /\ plan' \subseteq plan /\ asked' \in SUBSET (MoveIds \X MoveIds) /\ merged' \in Nat
      /\ crew' \in SUBSET MoveIds
  BY <1>1, <1>2 DEF QueueQuestion
<1>7. queued' \in Nat
  BY <1>1, <1>2
<1> QED
  BY <1>3, <1>4, <1>5, <1>6, <1>7, WriteTyped

LEMMA TeamTyped == ASSUME TypeInv, InsertTeam PROVE TypeInv'
<1>1. PICK t \in TeamIds : Write([txn EXCEPT !.teams = @ \cup {t}], "staff") /\ merged' = t
  BY DEF InsertTeam
<1>2. txn \in Database /\ queued \in Nat /\ asked \in SUBSET (MoveIds \X MoveIds)
      /\ TeamIds \subseteq Nat
  BY DedupeAssumption DEF TypeInv, TypeOK, TeamIds
<1> DEFINE db == [txn EXCEPT !.teams = @ \cup {t}]
<1>3. db \in Database /\ db.moves = txn.moves
  BY <1>2 DEF Database
<1>4. Kept(disk, db)
  BY <1>3, KeptRows
<1>5. crew' \in SUBSET MoveIds
  <2>1. crew' \in Crews(txn)
    BY DEF InsertTeam
  <2>2. \A g : \A c \in Clusters(txn, g) : c \subseteq g
    BY DEF Clusters
  <2>3. \A m : SamePair(txn, m) \subseteq MoveIds
    BY LiveRows DEF SamePair, Movers, canonical_moves
  <2> QED
    BY <2>1, <2>2, <2>3 DEF Crews
<1> HIDE DEF db
<1>6. Write(db, "staff") /\ "staff" \in Stages \ {"idle"}
  BY <1>1 DEF db, Stages
<1>7. /\ plan' \subseteq plan /\ asked' \in SUBSET (MoveIds \X MoveIds) /\ merged' \in Nat
      /\ queued' \in Nat /\ merged' \in TeamIds
  BY <1>1, <1>2 DEF InsertTeam
<1> QED
  BY <1>3, <1>4, <1>5, <1>6, <1>7, WriteTyped

LEMMA StaffTyped == ASSUME TypeInv, StaffTeam PROVE TypeInv'
<1> DEFINE moves == [m \in MoveIds |-> IF m \in crew THEN [txn.moves[m] EXCEPT !.team = merged]
                                       ELSE txn.moves[m]]
<1>1. txn \in Database /\ merged \in TeamIds
  BY DEF TypeInv, TypeOK, Shape, StaffTeam
<1>2. merged \in 0 .. MaxTeams
  BY <1>1, DedupeAssumption DEF TeamIds
<1>3. /\ moves \in [MoveIds -> Row]
      /\ \A m \in MoveIds : /\ moves[m].review_state = "absent" => txn.moves[m].review_state = "absent"
                            /\ moves[m].origin = txn.moves[m].origin
                            /\ moves[m].person = txn.moves[m].person
                            /\ moves[m].to_firm = txn.moves[m].to_firm
                            /\ moves[m].announced = txn.moves[m].announced
                            /\ moves[m].items = txn.moves[m].items
  BY <1>1, <1>2, FieldTypes DEF Row
<1>4. Write([txn EXCEPT !.moves = moves], "merge") /\ merged' = 0 /\ crew' = {}
      /\ UNCHANGED <<plan, asked, queued>>
  BY DEF StaffTeam
<1> HIDE DEF moves
<1>5. Kept(disk, [txn EXCEPT !.moves = moves]) /\ [txn EXCEPT !.moves = moves] \in Database
  BY <1>3, RestampTyped
<1>6. /\ plan' \subseteq plan /\ asked' \in SUBSET (MoveIds \X MoveIds) /\ merged' \in Nat
      /\ crew' \in SUBSET MoveIds /\ queued' \in Nat /\ "merge" \in Stages \ {"idle"}
  BY <1>4 DEF TypeInv, TypeOK, Stages
<1> QED
  BY <1>4, <1>5, <1>6, WriteTyped

\* An operator's command between two runs.
LEMMA OperatorTyped ==
  ASSUME TypeInv, NEW db \in Database, Operator(db),
         discards' \in 0 .. MaxDiscards, erasures' \in 0 .. MaxErasures
  PROVE  TypeInv'
<1>1. /\ disk' = db /\ txn' = db /\ pc = "idle" /\ pc' = "idle" /\ plan' = plan /\ plan = {}
      /\ UNCHANGED <<asked, merged, crew, queued, run, faults>>
  BY DEF Operator, local, TypeInv, Shape
<1>2. Shape'
  BY <1>1, KeptSame DEF Shape, PlanInv
<1> QED
  BY <1>1, <1>2 DEF TypeInv, TypeOK, InHand

\* A report that is filed under a person.
FiledUnder(r, person, variants) ==
  [disk EXCEPT !.moves[NewId(disk)] = FiledRow(r, person),
               !.people[person] = variants,
               !.filed = @ \cup {r},
               !.queue = IF r.sure /\ r.placed THEN @ ELSE @ \cup {<<NewId(disk), NewId(disk)>>}]

LEMMA FiledRowIs ==
  ASSUME NEW r \in Reports, NEW person \in Spellings
  PROVE  LET new == FiledRow(r, person)
         IN /\ new \in Row
            /\ new.review_state \in {"auto_accepted", "pending_review"}
            /\ new.origin = {r} /\ new.person = person /\ new.items = {r.item}
            /\ new.superseded_by = 0 /\ new.team = 0
<1>1. r \in Report
  BY DedupeAssumption
<1>2. 0 \in 0 .. MaxMoves /\ 0 \in 0 .. MaxTeams /\ 1 \in Nat
  BY DedupeAssumption
<1>3. r.office \in Offices /\ r.title_to \in Titles
  BY DEF Offices, Titles
<1> QED
  BY <1>1, <1>2, <1>3 DEF FiledRow, Report, Row, ReviewStates

LEMMA FiledUnderTyped ==
  ASSUME disk \in Database, NEW r \in Reports, NEW person \in Spellings,
         NEW variants \in SUBSET Spellings, NewId(disk) \in MoveIds
  PROVE  LET db == FiledUnder(r, person, variants)
         IN /\ db \in Database
            /\ db.moves = [disk.moves EXCEPT ![NewId(disk)] = FiledRow(r, person)]
            /\ db.filed = disk.filed \cup {r}
            /\ db.teams = disk.teams
<1> DEFINE id == NewId(disk)
           row == FiledRow(r, person)
           open == IF r.sure /\ r.placed THEN disk.queue ELSE disk.queue \cup {<<id, id>>}
           db == FiledUnder(r, person, variants)
<1>1. row \in Row
  BY FiledRowIs
<1>2. open \in SUBSET (MoveIds \X MoveIds)
  BY DEF Database
<1> DEFINE moves == [disk.moves EXCEPT ![id] = row]
           people == [disk.people EXCEPT ![person] = variants]
           filed == disk.filed \cup {r}
<1>3. /\ moves \in [MoveIds -> Row] /\ people \in [Spellings -> SUBSET Spellings]
      /\ filed \in SUBSET Reports
  BY <1>1 DEF Database
<1>4. db = [disk EXCEPT !.moves[id] = row, !.people[person] = variants, !.filed = filed, !.queue = open]
  BY DEF FiledUnder
<1> HIDE DEF id, row, open, db, filed
<1>5. db = [disk EXCEPT !.moves = moves, !.people = people, !.filed = filed, !.queue = open]
  BY <1>4
<1> HIDE DEF moves, people
<1>6. /\ db \in Database /\ db.moves = moves /\ db.people = people /\ db.filed = filed
      /\ db.teams = disk.teams
  BY <1>2, <1>3, <1>5 DEF Database
<1> QED
  BY <1>6 DEF id, row, db, moves, people, filed

\* What FileReport comes to.
LEMMA FilingIs ==
  ASSUME TypeOK, NEW r \in Reports, FileReport(r)
  PROVE  /\ r \notin disk.filed /\ HasRoom(disk) /\ UNCHANGED <<discards, erasures>>
         /\ \E person \in Spellings, variants \in SUBSET Spellings :
              Operator(FiledUnder(r, person, variants))
<1>1. disk \in Database /\ r.name \in Spellings
  BY DedupeAssumption DEF TypeOK, Report
<1>2. VariantsOf[r.name] \in SUBSET Spellings
  BY <1>1, DedupeAssumption
<1>3. \A p \in Namesakes(disk, r.name) : p \in Spellings /\ disk.people[p] \in SUBSET Spellings
  BY <1>1 DEF Namesakes, persons, Database
<1> QED
  BY <1>1, <1>2, <1>3 DEF FileReport, FileUnder, FiledUnder

LEMMA FileTyped == ASSUME TypeInv, NEW r \in Reports, FileReport(r) PROVE TypeInv'
<1>1. TypeOK /\ disk \in Database
  BY DEF TypeInv, TypeOK
<1>2. PICK person \in Spellings, variants \in SUBSET Spellings :
        Operator(FiledUnder(r, person, variants))
  BY <1>1, FilingIs
<1>3. NewId(disk) \in MoveIds
  BY <1>1, FilingIs, NewIdAbove
<1>4. FiledUnder(r, person, variants) \in Database
  BY <1>1, <1>3, FiledUnderTyped
<1>5. discards' \in 0 .. MaxDiscards /\ erasures' \in 0 .. MaxErasures
  BY <1>1, FilingIs DEF TypeOK
<1> QED
  BY <1>2, <1>4, <1>5, OperatorTyped

\* A reextract leaves the rows it does not take, without the teams that dissolve.
LEMMA SweptIs ==
  ASSUME NEW db \in Database, NEW gone \in SUBSET MoveIds
  PROVE  LET new == Swept(WithoutRows(db, gone))
             rows == WithoutRows(db, gone).moves
         IN /\ new \in Database /\ new.filed = db.filed
            /\ new.teams \subseteq db.teams
            /\ \A m \in MoveIds :
                 /\ rows[m] = IF m \in gone THEN Absent ELSE db.moves[m]
                 /\ \/ new.moves[m] = rows[m] /\ rows[m].team \in new.teams
                    \/ new.moves[m] = [rows[m] EXCEPT !.team = 0]
<1> DEFINE less == WithoutRows(db, gone)
           kept == {t \in less.teams : partner_count(less, t) > 0}
           new == Swept(less)
<1>1. Absent \in Row
  <2>1. PICK s \in Spellings : TRUE
    BY DedupeAssumption
  <2> QED
    BY <2>1, AbsentType DEF Absent
<1>2. /\ less \in Database /\ less.teams = db.teams /\ less.filed = db.filed
      /\ less.moves = [m \in MoveIds |-> IF m \in gone THEN Absent ELSE db.moves[m]]
  BY <1>1 DEF WithoutRows, Database
<1> HIDE DEF less
<1> DEFINE moves == [m \in MoveIds |-> IF less.moves[m].team \in kept THEN less.moves[m]
                                        ELSE [less.moves[m] EXCEPT !.team = 0]]
           people == [s \in Spellings |->
                        IF \E m \in live(less) : less.moves[m].person = s THEN less.people[s] ELSE {}]
<1>3. new = [less EXCEPT !.moves = moves, !.people = people, !.teams = kept]
  BY <1>2 DEF Swept, Database
<1>4. kept \in SUBSET TeamIds /\ kept \subseteq less.teams
  BY <1>2 DEF Database
<1> HIDE DEF kept
<1>5. \A m \in MoveIds : [less.moves[m] EXCEPT !.team = 0] \in Row
  <2>1. 0 \in 0 .. MaxTeams
    BY DedupeAssumption
  <2>2. \A m \in MoveIds : less.moves[m] \in Row
    BY <1>2, FieldTypes
  <2> QED
    BY <2>1, <2>2 DEF Row
<1>6. moves \in [MoveIds -> Row]
  BY <1>2, <1>5, FieldTypes
<1>7. people \in [Spellings -> SUBSET Spellings]
  BY <1>2 DEF Database
<1>8. \A m \in MoveIds : \/ moves[m] = less.moves[m] /\ less.moves[m].team \in kept
                        \/ moves[m] = [less.moves[m] EXCEPT !.team = 0]
  OBVIOUS
<1> HIDE DEF moves, people, new
<1>9. new \in Database /\ new.moves = moves /\ new.filed = less.filed /\ new.teams = kept
  BY <1>2, <1>3, <1>4, <1>6, <1>7 DEF Database
<1> QED
  BY <1>2, <1>4, <1>8, <1>9 DEF less, new

Reextracted(scope) ==
  [Swept(WithoutRows(disk, ReadFrom(scope))) EXCEPT
     !.filed = {r \in @ : SourceOf[r.item] \notin scope}]

LEMMA ReextractedIs ==
  ASSUME disk \in Database, NEW scope
  PROVE  LET new == Reextracted(scope)
             swept == Swept(WithoutRows(disk, ReadFrom(scope)))
         IN /\ new \in Database
            /\ new.filed = {r \in disk.filed : SourceOf[r.item] \notin scope}
            /\ new.moves = swept.moves /\ new.teams = swept.teams
<1> DEFINE swept == Swept(WithoutRows(disk, ReadFrom(scope)))
<1>1. ReadFrom(scope) \in SUBSET MoveIds
  BY DEF ReadFrom, live
<1>2. swept \in Database /\ swept.filed = disk.filed
  BY <1>1, SweptIs
<1> HIDE DEF swept
<1>3. Reextracted(scope) = [swept EXCEPT !.filed = {r \in @ : SourceOf[r.item] \notin scope}]
  BY DEF Reextracted, swept
<1>4. {r \in swept.filed : SourceOf[r.item] \notin scope} \in SUBSET Reports
  BY <1>2 DEF Database
<1> QED
  BY <1>2, <1>3, <1>4 DEF Database, swept

LEMMA DiscardTyped ==
  ASSUME TypeInv, NEW scope \in DiscardScopes, Discard(scope)
  PROVE  TypeInv'
<1>1. disk \in Database /\ discards \in 0 .. MaxDiscards /\ erasures \in 0 .. MaxErasures
  BY DEF TypeInv, TypeOK
<1>2. Operator(Reextracted(scope)) /\ discards < MaxDiscards /\ discards' = discards + 1
      /\ erasures' = erasures
  BY DEF Discard, Reextracted
<1>3. Reextracted(scope) \in Database
  BY <1>1, ReextractedIs
<1>4. discards' \in 0 .. MaxDiscards /\ erasures' \in 0 .. MaxErasures
  BY <1>1, <1>2, DedupeAssumption
<1> QED
  BY <1>2, <1>3, <1>4, OperatorTyped

\* An erasure takes the rows of one person, and rejects those that pointed at them.
RowsOf(p) == {m \in live(disk) : disk.moves[m].person = p}

Erased(p) ==
  [WithoutRows(Unlinked(disk, RowsOf(p)), RowsOf(p)) EXCEPT
     !.people[p] = {}, !.suppressed = @ \cup {p} \cup disk.people[p]]

LEMMA ErasedIs ==
  ASSUME disk \in Database, NEW p \in Spellings
  PROVE  LET new == Erased(p)
         IN /\ new \in Database /\ new.filed = disk.filed /\ new.teams = disk.teams
            /\ \A m \in MoveIds :
                 new.moves[m] =
                   IF m \in RowsOf(p) THEN Absent
                   ELSE IF disk.moves[m].superseded_by \in RowsOf(p)
                        THEN [disk.moves[m] EXCEPT !.superseded_by = 0, !.review_state = "rejected"]
                        ELSE disk.moves[m]
<1> DEFINE gone == RowsOf(p)
           moves == [m \in MoveIds |->
                       IF m \in gone THEN Absent
                       ELSE IF disk.moves[m].superseded_by \in gone
                            THEN [disk.moves[m] EXCEPT !.superseded_by = 0, !.review_state = "rejected"]
                            ELSE disk.moves[m]]
           less == WithoutRows(Unlinked(disk, gone), gone)
           unlinked == Unlinked(disk, gone)
<1>1. Absent \in Row
  <2>1. PICK s \in Spellings : TRUE
    BY DedupeAssumption
  <2> QED
    BY <2>1, AbsentType DEF Absent
<1>2. \A m \in MoveIds : [disk.moves[m] EXCEPT !.superseded_by = 0, !.review_state = "rejected"] \in Row
  <2>1. 0 \in 0 .. MaxMoves
    BY DedupeAssumption
  <2>2. \A m \in MoveIds : disk.moves[m] \in Row
    BY FieldTypes
  <2>3. \A r \in Row : [r EXCEPT !.superseded_by = 0, !.review_state = "rejected"] \in Row
    BY <2>1 DEF Row, ReviewStates
  <2> QED
    BY <2>2, <2>3
<1>3. \A m \in MoveIds : disk.moves[m] \in Row
  BY FieldTypes
<1>4. moves \in [MoveIds -> Row]
  BY <1>1, <1>2, <1>3
<1>5. /\ unlinked \in Database /\ unlinked.filed = disk.filed /\ unlinked.teams = disk.teams
      /\ unlinked.people = disk.people /\ unlinked.suppressed = disk.suppressed
      /\ unlinked.moves = [m \in MoveIds |->
                            IF disk.moves[m].superseded_by \in gone
                            THEN [disk.moves[m] EXCEPT !.superseded_by = 0, !.review_state = "rejected"]
                            ELSE disk.moves[m]]
  <2> DEFINE links == [m \in MoveIds |->
                        IF disk.moves[m].superseded_by \in gone
                        THEN [disk.moves[m] EXCEPT !.superseded_by = 0, !.review_state = "rejected"]
                        ELSE disk.moves[m]]
  <2>1. links \in [MoveIds -> Row]
    BY <1>2, <1>3
  <2>2. unlinked = [disk EXCEPT !.moves = links]
    BY DEF Unlinked, Database
  <2> HIDE DEF links, unlinked
  <2>3. /\ unlinked \in Database /\ unlinked.filed = disk.filed /\ unlinked.teams = disk.teams
        /\ unlinked.people = disk.people /\ unlinked.suppressed = disk.suppressed
        /\ unlinked.moves = links
    BY <2>1, <2>2 DEF Database
  <2> QED
    BY <2>3 DEF links
<1> HIDE DEF unlinked
<1>6. less.moves = moves
  BY <1>5 DEF WithoutRows, Database, unlinked
<1>7. /\ less \in Database /\ less.filed = disk.filed /\ less.teams = disk.teams
      /\ less.people = disk.people /\ less.suppressed = disk.suppressed
  <2> DEFINE queue == {q \in unlinked.queue : {q[1], q[2]} \cap gone = {}}
  <2>1. queue \in SUBSET (MoveIds \X MoveIds)
    BY <1>5 DEF Database
  <2>2. [m \in MoveIds |-> IF m \in gone THEN Absent ELSE unlinked.moves[m]] = moves
    BY <1>5
  <2>3. less = [unlinked EXCEPT !.moves = [m \in MoveIds |-> IF m \in gone THEN Absent ELSE @[m]],
                               !.queue = queue]
    BY DEF WithoutRows, unlinked
  <2> HIDE DEF queue, less, moves
  <2>4. less = [unlinked EXCEPT !.moves = moves, !.queue = queue]
    BY <2>2, <2>3
  <2> QED
    BY <1>4, <1>5, <2>1, <2>4 DEF Database
<1> DEFINE people == [disk.people EXCEPT ![p] = {}]
           suppressed == disk.suppressed \cup {p} \cup disk.people[p]
<1>8. people \in [Spellings -> SUBSET Spellings] /\ suppressed \in SUBSET Spellings
  BY DEF Database
<1>9. Erased(p) = [less EXCEPT !.people[p] = {}, !.suppressed = @ \cup {p} \cup disk.people[p]]
  BY DEF Erased
<1> HIDE DEF less
<1>10. Erased(p) = [less EXCEPT !.people = people, !.suppressed = suppressed]
  BY <1>7, <1>9
<1> HIDE DEF people, suppressed
<1>11. /\ Erased(p) \in Database /\ Erased(p).filed = disk.filed /\ Erased(p).teams = disk.teams
       /\ Erased(p).moves = less.moves
  BY <1>7, <1>8, <1>10 DEF Database
<1> QED
  BY <1>6, <1>11

LEMMA EraseTyped ==
  ASSUME TypeInv, NEW p \in Spellings, Erase(p)
  PROVE  TypeInv'
<1>1. disk \in Database /\ discards \in 0 .. MaxDiscards /\ erasures \in 0 .. MaxErasures
  BY DEF TypeInv, TypeOK
<1>2. Operator(Erased(p)) /\ erasures < MaxErasures /\ erasures' = erasures + 1
      /\ discards' = discards
  BY DEF Erase, Erased, RowsOf
<1>3. Erased(p) \in Database
  BY <1>1, ErasedIs
<1>4. discards' \in 0 .. MaxDiscards /\ erasures' \in 0 .. MaxErasures
  BY <1>1, <1>2, DedupeAssumption
<1> QED
  BY <1>2, <1>3, <1>4, OperatorTyped

LEMMA StartTyped == ASSUME TypeInv, StartDedupe PROVE TypeInv'
<1>1. /\ plan' = Components(disk) /\ asked' \in OneOrder(Questions(disk)) /\ run' = "running"
      /\ pc' = "merge"
      /\ UNCHANGED <<disk, txn, merged, crew, queued, faults, discards, erasures>>
  BY DEF StartDedupe, environment
<1>2. PlanInv'
  BY <1>1, ComponentIsAkin, ComponentsAreDisjoint DEF PlanInv
<1>3. plan' \in SUBSET SUBSET MoveIds
  BY <1>1, ComponentIsAkin, LiveRows
<1>4. asked' \in SUBSET (MoveIds \X MoveIds)
  BY <1>1, LiveRows DEF OneOrder, Questions, Scored
<1>5. Shape'
  BY <1>1, <1>2 DEF Shape, TypeInv
<1> QED
  BY <1>1, <1>3, <1>4, <1>5 DEF TypeInv, TypeOK, Stages, InHand

LEMMA FaultBounded == ASSUME TypeInv, NEW kind, Fault(kind)
                      PROVE  faults' \in 0 .. MaxFaults /\ UNCHANGED <<discards, erasures>>
BY DedupeAssumption DEF Fault, TypeInv, TypeOK

LEMMA RefuseTyped == ASSUME TypeInv, RefuseSpellings PROVE TypeInv'
<1>1. disk \in Database /\ faults' \in 0 .. MaxFaults /\ UNCHANGED <<discards, erasures>>
  BY DEF TypeInv, TypeOK, RefuseSpellings, environment
<1> QED
  BY <1>1, EndRunTyped DEF RefuseSpellings, Abort

LEMMA FinishTyped == ASSUME TypeInv, FinishDedupe PROVE TypeInv'
<1>1. /\ disk \in Database /\ txn \in Database
      /\ faults' \in 0 .. MaxFaults /\ UNCHANGED <<discards, erasures>>
  BY DEF TypeInv, TypeOK, FinishDedupe, environment
<1> QED
  BY <1>1, EndRunTyped DEF FinishDedupe

LEMMA KillTyped == ASSUME TypeInv, Kill PROVE TypeInv'
<1>1. disk \in Database
  BY DEF TypeInv, TypeOK
<1> QED
  BY <1>1, FaultBounded, EndRunTyped DEF Kill

LEMMA InterruptTyped == ASSUME TypeInv, Interrupt PROVE TypeInv'
<1>1. disk \in Database
  BY DEF TypeInv, TypeOK
<1> QED
  BY <1>1, FaultBounded, EndRunTyped, UnwindTyped DEF Interrupt, Abort

LEMMA InitTyped == Init => TypeInv
<1> SUFFICES ASSUME Init PROVE TypeInv
  OBVIOUS
<1>1. Absent \in Row
  <2>1. PICK s \in Spellings : TRUE
    BY DedupeAssumption
  <2> QED
    BY <2>1, AbsentType DEF Absent
<1>2. EmptyDatabase \in Database
  BY <1>1 DEF EmptyDatabase, Database
<1>3. Shape
  BY KeptSame DEF Init, Shape, PlanInv
<1> QED
  BY <1>2, <1>3, DedupeAssumption DEF Init, TypeInv, TypeOK, Stages, InHand

LEMMA NextTyped == TypeInv /\ [Next]_vars => TypeInv'
<1> SUFFICES ASSUME TypeInv, [Next]_vars PROVE TypeInv'
  OBVIOUS
<1>1. CASE StartDedupe
  BY <1>1, StartTyped
<1>2. CASE Step
  BY <1>2, InsertMergedTyped, CopySourcesTyped, CopyGroupsTyped, LearnTyped, RefuseTyped,
     SupersedeTyped, QueueTyped, TeamTyped, StaffTyped, FinishTyped DEF Step
<1>3. ASSUME NEW r \in Reports, FileReport(r) PROVE TypeInv'
  BY <1>3, FileTyped
<1>4. ASSUME NEW scope \in DiscardScopes, Discard(scope) PROVE TypeInv'
  BY <1>4, DiscardTyped
<1>5. ASSUME NEW p \in Spellings, Erase(p) PROVE TypeInv'
  BY <1>5, EraseTyped
<1>6. CASE Kill
  BY <1>6, KillTyped
<1>7. CASE Interrupt
  BY <1>7, InterruptTyped
<1>8. CASE UNCHANGED vars
  BY <1>8 DEF vars, local, environment, TypeInv, TypeOK, Shape, PlanInv, InHand
<1> QED
  BY <1>1, <1>2, <1>3, <1>4, <1>5, <1>6, <1>7, <1>8 DEF Next

LEMMA TypeInvariant == Spec => []TypeInv
<1>1. Init => TypeInv
  BY InitTyped
<1>2. TypeInv /\ [Next]_vars => TypeInv'
  BY NextTyped
<1> QED
  BY <1>1, <1>2, PTL DEF Spec

\* The types of every state the stage and its operator reach.
THEOREM TypeCorrect == Spec => []TypeOK
<1>1. TypeInv => TypeOK
  BY DEF TypeInv
<1> QED
  BY <1>1, TypeInvariant, PTL

-----------------------------------------------------------------------------
(* What each statement of the stage writes.                                 *)

\* The stage writes its own transaction only.
Beside(stage) == /\ disk' = disk /\ pc' = stage /\ UNCHANGED <<discards, erasures>>
                 /\ txn'.filed = txn.filed

\* The row a component becomes, as it is inserted.
LEMMA InsertedIs ==
  ASSUME TypeInv, InsertMerged
  PROVE  /\ Beside("source") /\ txn'.teams = txn.teams
         /\ merged' \in MoveIds \ live(txn) /\ \A n \in live(txn) : n < merged'
         /\ \E c \in plan, r \in Row :
              /\ plan' = plan \ {c} /\ Members' = c /\ ordered'[1] \in c
              /\ txn'.moves = [txn.moves EXCEPT ![merged'] = r]
              /\ r.review_state \in {"pending_review", "auto_accepted"}
              /\ r.origin = {} /\ r.items = {} /\ r.superseded_by = 0 /\ r.team = 0
              /\ r.person = winner'.person /\ r.to_firm = winner'.to_firm
              /\ \A m \in c : r.announced <= disk.moves[m].announced
<1> DEFINE id == NewId(txn)
<1>1. id \in MoveIds \ live(txn) /\ \A n \in live(txn) : n < id
  BY NewIdAbove DEF InsertMerged
<1>a. PICK c \in plan : \E o \in Orderings(disk, c) : Inserted(c, o)
  BY DEF InsertMerged, Inserted
<1>b. PICK o \in Orderings(disk, c) : Inserted(c, o)
  BY <1>a
<1>2. PICK weak \in BOOLEAN :
        /\ Write([txn EXCEPT !.moves[id] = MergedRow(o, conflicts(o) \/ weak)], "source")
        /\ ordered' = o /\ plan' = plan \ {c} /\ merged' = id
  BY <1>b DEF Inserted
<1> DEFINE r == MergedRow(o, conflicts(o) \/ weak)
<1>3. disk \in Database /\ txn \in Database /\ c # {} /\ c \in SUBSET MoveIds
  BY LiveRows DEF TypeInv, TypeOK, Shape, PlanInv
<1>4. Len(o) \in Nat \ {0} /\ o \in [1 .. Len(o) -> c] /\ o[1] \in c /\ {o[k] : k \in DOMAIN o} = c
  BY <1>3, OrderingOf
<1>5. o \in [1 .. Len(o) -> MoveIds] /\ (conflicts(o) \/ weak) \in BOOLEAN
  BY <1>3, <1>4 DEF conflicts
<1>6. /\ r \in Row /\ r.review_state \in {"pending_review", "auto_accepted"}
      /\ r.origin = {} /\ r.items = {} /\ r.superseded_by = 0 /\ r.team = 0
      /\ r.person = disk.moves[o[1]].person /\ r.to_firm = disk.moves[o[1]].to_firm
      /\ r.announced = Earliest(o)
  BY <1>3, <1>4, <1>5, MergedRowIs
<1>7. \A m \in c : Earliest(o) <= disk.moves[m].announced
  <2>1. \A k \in 1 .. Len(o) : Earliest(o) <= disk.moves[o[k]].announced
    BY <1>3, <1>4, <1>5, EarliestIsFirst
  <2> QED
    BY <1>4, <2>1
<1> HIDE DEF id, r
<1>8. /\ disk' = disk /\ pc' = "source" /\ discards' = discards /\ erasures' = erasures
      /\ txn' = [txn EXCEPT !.moves[id] = r]
  BY <1>2 DEF Write, environment, r
<1>9. /\ txn'.moves = [txn.moves EXCEPT ![id] = r]
      /\ txn'.filed = txn.filed /\ txn'.teams = txn.teams
  BY <1>1, <1>3, <1>6, <1>8, WriteRow
<1>10. Members' = c /\ winner' = disk.moves[o[1]]
  BY <1>2, <1>4, <1>8 DEF Members, winner
<1>11. Beside("source") /\ txn'.teams = txn.teams /\ merged' = id
  BY <1>2, <1>8, <1>9 DEF Beside
<1>12. /\ plan' = plan \ {c} /\ Members' = c /\ ordered'[1] \in c
       /\ txn'.moves = [txn.moves EXCEPT ![merged'] = r]
       /\ r.review_state \in {"pending_review", "auto_accepted"}
       /\ r.origin = {} /\ r.items = {} /\ r.superseded_by = 0 /\ r.team = 0
       /\ r.person = winner'.person /\ r.to_firm = winner'.to_firm
       /\ \A m \in c : r.announced <= disk.moves[m].announced
  BY <1>2, <1>4, <1>6, <1>7, <1>9, <1>10
<1>13. c \in plan /\ r \in Row
  BY <1>6
<1> QED
  BY <1>1, <1>11, <1>12, <1>13

\* The component in hand goes on, and only its new row is written.
LEMMA CopiedIs ==
  ASSUME TypeInv, CopySources \/ CopyGroups \/ LearnSpellings
  PROVE  /\ InHand /\ Beside(pc') /\ UNCHANGED <<plan, ordered, merged>>
         /\ txn'.teams = txn.teams /\ pc' \in {"group", "learn", "supersede"}
         /\ pc = "source" <=> CopySources
         /\ \E r \in Row :
              /\ txn'.moves = [txn.moves EXCEPT ![merged] = r]
              /\ r.review_state = txn.moves[merged].review_state
              /\ r.origin = txn.moves[merged].origin /\ r.person = txn.moves[merged].person
              /\ r.to_firm = txn.moves[merged].to_firm /\ r.from_firm = txn.moves[merged].from_firm
              /\ r.announced = txn.moves[merged].announced
              /\ r.superseded_by = txn.moves[merged].superseded_by
              /\ r.team = txn.moves[merged].team
              /\ r.items = IF CopySources THEN UNION {disk.moves[m].items : m \in Members}
                           ELSE txn.moves[merged].items
<1>0. InHand
  BY DEF CopySources, CopyGroups, LearnSpellings, InHand
<1>1. /\ disk \in Database /\ txn \in Database /\ Members \subseteq MoveIds
      /\ ordered[1] \in MoveIds /\ merged \in MoveIds /\ winner.person \in Spellings
  BY <1>0, MembersAre, LiveRows DEF TypeInv, TypeOK
<1>2. txn.moves[merged] \in Row /\ txn.moves \in [MoveIds -> Row]
  BY <1>1, FieldTypes DEF Database
<1>3. CASE CopySources
  <2> DEFINE all == UNION {disk.moves[m].items : m \in Members}
  <2>1. PICK kept \in SUBSET winner.primary :
          Write([txn EXCEPT !.moves[merged].items = all, !.moves[merged].primary = kept], "group")
    BY <1>3 DEF CopySources
  <2> DEFINE r == [txn.moves[merged] EXCEPT !.items = all, !.primary = kept]
  <2>2. all \in SUBSET Items /\ kept \in SUBSET Items
    BY <1>1, FieldTypes DEF winner
  <2>3. r \in Row
    BY <1>2, <2>2 DEF Row
  <2>4. txn' = [txn EXCEPT !.moves[merged] = r]
    BY <1>1, <2>1 DEF Write, Database
  <2>5. /\ txn'.moves = [txn.moves EXCEPT ![merged] = r]
        /\ txn'.filed = txn.filed /\ txn'.teams = txn.teams
    BY <1>1, <2>3, <2>4, WriteRow
  <2>6. /\ disk' = disk /\ pc' = "group" /\ UNCHANGED <<plan, ordered, merged, discards, erasures>>
        /\ pc = "source"
    BY <1>3, <2>1 DEF Write, environment, local, CopySources
  <2> HIDE DEF all
  <2>7. /\ r.review_state = txn.moves[merged].review_state
        /\ r.origin = txn.moves[merged].origin /\ r.person = txn.moves[merged].person
        /\ r.to_firm = txn.moves[merged].to_firm /\ r.from_firm = txn.moves[merged].from_firm
        /\ r.announced = txn.moves[merged].announced
        /\ r.superseded_by = txn.moves[merged].superseded_by
        /\ r.team = txn.moves[merged].team /\ r.items = all
    BY <1>2 DEF Row
  <2> HIDE DEF r
  <2> QED
    BY <1>0, <1>3, <2>3, <2>5, <2>6, <2>7 DEF Beside, all
<1>4. CASE CopyGroups
  <2> DEFINE r == [txn.moves[merged] EXCEPT !.grouped = winner.grouped]
  <2>3. r \in Row
    BY <1>1, <1>2 DEF Row, winner, Database
  <2>4. txn' = [txn EXCEPT !.moves[merged] = r]
    BY <1>1, <1>4 DEF Write, Database, CopyGroups
  <2>5. /\ txn'.moves = [txn.moves EXCEPT ![merged] = r]
        /\ txn'.filed = txn.filed /\ txn'.teams = txn.teams
    BY <1>1, <2>3, <2>4, WriteRow
  <2>6. /\ disk' = disk /\ pc' = "learn" /\ UNCHANGED <<plan, ordered, merged, discards, erasures>>
        /\ pc = "group"
    BY <1>4 DEF Write, environment, local, CopyGroups
  <2>7. /\ r.review_state = txn.moves[merged].review_state
        /\ r.origin = txn.moves[merged].origin /\ r.person = txn.moves[merged].person
        /\ r.to_firm = txn.moves[merged].to_firm /\ r.from_firm = txn.moves[merged].from_firm
        /\ r.announced = txn.moves[merged].announced
        /\ r.superseded_by = txn.moves[merged].superseded_by
        /\ r.team = txn.moves[merged].team /\ r.items = txn.moves[merged].items
    BY <1>2 DEF Row
  <2>8. ~CopySources
    BY <2>6 DEF CopySources
  <2> HIDE DEF r
  <2> QED
    BY <1>0, <2>3, <2>5, <2>6, <2>7, <2>8 DEF Beside
<1>5. CASE LearnSpellings
  <2>1. /\ disk' = disk /\ pc' = "supersede" /\ UNCHANGED <<plan, ordered, merged, discards, erasures>>
        /\ pc = "learn" /\ txn' = [txn EXCEPT !.people[winner.person] = Spelled]
    BY <1>5 DEF Write, environment, local, LearnSpellings
  <2>2. txn'.moves = txn.moves /\ txn'.filed = txn.filed /\ txn'.teams = txn.teams
    BY <1>1, <2>1 DEF Database
  <2>3. txn.moves = [txn.moves EXCEPT ![merged] = txn.moves[merged]]
    BY <1>1, <1>2
  <2>4. ~CopySources
    BY <2>1 DEF CopySources
  <2> QED
    BY <1>0, <1>2, <2>1, <2>2, <2>3, <2>4 DEF Beside
<1> QED
  BY <1>3, <1>4, <1>5

LEMMA SupersededIs ==
  ASSUME TypeInv, Supersede
  PROVE  /\ InHand /\ Beside("merge") /\ plan' = plan /\ txn'.teams = txn.teams
         /\ \A m \in MoveIds :
              txn'.moves[m] = IF m \in Members
                              THEN [txn.moves[m] EXCEPT !.superseded_by = merged,
                                                        !.review_state = "superseded"]
                              ELSE txn.moves[m]
<1> DEFINE moves == [m \in MoveIds |->
                       IF m \in Members
                       THEN [txn.moves[m] EXCEPT !.superseded_by = merged, !.review_state = "superseded"]
                       ELSE txn.moves[m]]
<1>1. txn \in Database
  BY DEF TypeInv, TypeOK
<1>2. /\ txn' = [txn EXCEPT !.moves = moves] /\ disk' = disk /\ pc' = "merge" /\ plan' = plan
      /\ UNCHANGED <<discards, erasures>>
  BY DEF Supersede, Write, environment
<1> HIDE DEF moves
<1>3. txn'.moves = moves /\ txn'.filed = txn.filed /\ txn'.teams = txn.teams
  BY <1>1, <1>2 DEF Database
<1>4. InHand
  BY DEF Supersede, InHand
<1> QED
  BY <1>2, <1>3, <1>4 DEF moves, Beside

\* Opening a review item or a team writes no row.
LEMMA OpenedIs ==
  ASSUME TypeInv, QueueQuestion \/ InsertTeam
  PROVE  /\ pc = "merge" /\ Beside(pc') /\ pc' \in {"merge", "staff"} /\ plan' = plan
         /\ txn'.moves = txn.moves
         /\ QueueQuestion => pc' = "merge" /\ txn'.teams = txn.teams
         /\ InsertTeam => /\ merged' \in TeamIds \ txn.teams /\ txn'.teams = txn.teams \cup {merged'}
                          /\ crew' \in Crews(txn)
<1>1. txn \in Database
  BY DEF TypeInv, TypeOK
<1>2. CASE QueueQuestion
  <2>1. PICK p \in asked : Write([txn EXCEPT !.queue = @ \cup {p}], "merge")
    BY <1>2 DEF QueueQuestion
  <2>2. /\ disk' = disk /\ pc' = "merge" /\ plan' = plan /\ pc = "merge" /\ discards' = discards
        /\ erasures' = erasures /\ txn' = [txn EXCEPT !.queue = @ \cup {p}]
    BY <1>2, <2>1 DEF Write, environment, QueueQuestion
  <2>3. txn'.moves = txn.moves /\ txn'.filed = txn.filed /\ txn'.teams = txn.teams
    BY <1>1, <2>2 DEF Database
  <2>4. ~InsertTeam
    BY <2>2 DEF InsertTeam, Write
  <2> QED
    BY <2>2, <2>3, <2>4 DEF Beside
<1>3. CASE InsertTeam
  <2>1. PICK t \in TeamIds \ txn.teams :
          Write([txn EXCEPT !.teams = @ \cup {t}], "staff") /\ merged' = t
    BY <1>3 DEF InsertTeam
  <2>2. /\ disk' = disk /\ pc' = "staff" /\ plan' = plan /\ pc = "merge" /\ discards' = discards
        /\ erasures' = erasures /\ txn' = [txn EXCEPT !.teams = @ \cup {t}] /\ crew' \in Crews(txn)
    BY <1>3, <2>1 DEF Write, environment, InsertTeam
  <2>3. txn'.moves = txn.moves /\ txn'.filed = txn.filed /\ txn'.teams = txn.teams \cup {t}
    BY <1>1, <2>2 DEF Database
  <2>4. ~QueueQuestion
    BY <2>2 DEF QueueQuestion, Write
  <2> QED
    BY <2>1, <2>2, <2>3, <2>4 DEF Beside
<1> QED
  BY <1>2, <1>3

LEMMA StaffedIs ==
  ASSUME TypeInv, StaffTeam
  PROVE  /\ pc = "staff" /\ Beside("merge") /\ plan' = plan /\ txn'.teams = txn.teams
         /\ \A m \in MoveIds : txn'.moves[m] = IF m \in crew THEN [txn.moves[m] EXCEPT !.team = merged]
                                               ELSE txn.moves[m]
<1> DEFINE moves == [m \in MoveIds |-> IF m \in crew THEN [txn.moves[m] EXCEPT !.team = merged]
                                       ELSE txn.moves[m]]
<1>1. txn \in Database
  BY DEF TypeInv, TypeOK
<1>2. /\ txn' = [txn EXCEPT !.moves = moves] /\ disk' = disk /\ pc' = "merge" /\ plan' = plan
      /\ UNCHANGED <<discards, erasures>> /\ pc = "staff"
  BY DEF StaffTeam, Write, environment
<1> HIDE DEF moves
<1>3. txn'.moves = moves /\ txn'.filed = txn.filed /\ txn'.teams = txn.teams
  BY <1>1, <1>2 DEF Database
<1> QED
  BY <1>2, <1>3 DEF moves, Beside

\* A run ends with everything it wrote or with nothing of it.
Ends(db) == disk' = db /\ txn' = db /\ pc' = "idle" /\ plan' = {} /\ UNCHANGED <<discards, erasures>>

LEMMA EndedIs ==
  ASSUME TypeInv, RefuseSpellings \/ FinishDedupe \/ Kill \/ Interrupt
  PROVE  Ends(disk) \/ (Ends(txn) /\ (pc = "merge" \/ "interrupt" \in Faults))
BY DEF RefuseSpellings, FinishDedupe, Kill, Interrupt, Unwind, Abort, EndRun, Fault, Ends, environment

\* Between two runs.
LEMMA FiledIs ==
  ASSUME TypeInv, NEW r \in Reports, FileReport(r)
  PROVE  /\ disk' = txn' /\ pc = "idle" /\ pc' = "idle" /\ plan' = {}
         /\ UNCHANGED <<discards, erasures>>
         /\ r \notin disk.filed /\ disk'.filed = disk.filed \cup {r} /\ disk'.teams = disk.teams
         /\ \E id \in MoveIds \ live(disk), new \in Row :
              /\ disk'.moves = [disk.moves EXCEPT ![id] = new]
              /\ new.review_state \in {"auto_accepted", "pending_review"}
              /\ new.origin = {r} /\ new.items = {r.item}
              /\ new.superseded_by = 0 /\ new.team = 0
<1>1. TypeOK /\ disk \in Database /\ plan = (IF pc = "idle" THEN {} ELSE plan)
  BY DEF TypeInv, TypeOK, Shape
<1>2. PICK person \in Spellings, variants \in SUBSET Spellings :
        Operator(FiledUnder(r, person, variants))
  BY <1>1, FilingIs
<1>3. r \notin disk.filed /\ UNCHANGED <<discards, erasures>> /\ NewId(disk) \in MoveIds \ live(disk)
  BY <1>1, FilingIs, NewIdAbove
<1> DEFINE db == FiledUnder(r, person, variants)
<1>4. /\ db.moves = [disk.moves EXCEPT ![NewId(disk)] = FiledRow(r, person)]
      /\ db.filed = disk.filed \cup {r} /\ db.teams = disk.teams
  <2>1. NewId(disk) \in MoveIds
    BY <1>3
  <2> QED
    BY <1>1, <2>1, FiledUnderTyped
<1> HIDE DEF db
<1>5. disk' = db /\ txn' = db /\ pc = "idle" /\ pc' = "idle" /\ plan' = plan /\ plan = {}
  BY <1>1, <1>2 DEF Operator, local, db
<1> DEFINE id == NewId(disk)
           new == FiledRow(r, person)
<1>6. /\ new \in Row /\ new.review_state \in {"auto_accepted", "pending_review"}
      /\ new.origin = {r} /\ new.items = {r.item} /\ new.superseded_by = 0 /\ new.team = 0
  BY FiledRowIs
<1>7. id \in MoveIds \ live(disk) /\ disk'.moves = [disk.moves EXCEPT ![id] = new]
  BY <1>3, <1>4, <1>5
<1> HIDE DEF id, new
<1>8. /\ disk' = txn' /\ pc = "idle" /\ pc' = "idle" /\ plan' = {}
      /\ disk'.filed = disk.filed \cup {r} /\ disk'.teams = disk.teams
  BY <1>4, <1>5
<1> QED
  BY <1>3, <1>6, <1>7, <1>8

LEMMA DiscardedIs ==
  ASSUME TypeInv, NEW scope \in DiscardScopes, Discard(scope)
  PROVE  /\ disk' = txn' /\ pc = "idle" /\ pc' = "idle" /\ plan' = {} /\ discards' # discards
         /\ disk'.filed = {r \in disk.filed : SourceOf[r.item] \notin scope}
         /\ disk'.teams \subseteq disk.teams
         /\ ~Restricted(ReadFrom(scope)) /\ ReadFrom(scope) \subseteq live(disk)
         /\ \A m \in MoveIds :
              LET r == IF m \in ReadFrom(scope) THEN Absent ELSE disk.moves[m]
              IN \/ disk'.moves[m] = r /\ r.team \in disk'.teams
                 \/ disk'.moves[m] = [r EXCEPT !.team = 0]
<1> DEFINE db == Reextracted(scope)
           gone == ReadFrom(scope)
           swept == Swept(WithoutRows(disk, gone))
<1>1. disk \in Database /\ discards \in Nat /\ (pc = "idle" => plan = {})
  BY DedupeAssumption DEF TypeInv, TypeOK, Shape
<1>2. Operator(db) /\ discards' = discards + 1 /\ ~Restricted(gone)
  BY DEF Discard, Reextracted
<1>3. /\ db.filed = {r \in disk.filed : SourceOf[r.item] \notin scope}
      /\ db.moves = swept.moves /\ db.teams = swept.teams
  BY <1>1, ReextractedIs
<1>4. gone \subseteq live(disk) /\ gone \in SUBSET MoveIds
  BY DEF ReadFrom, live
<1>5. /\ swept.teams \subseteq disk.teams
      /\ \A m \in MoveIds :
           LET r == IF m \in gone THEN Absent ELSE disk.moves[m]
           IN \/ swept.moves[m] = r /\ r.team \in swept.teams
              \/ swept.moves[m] = [r EXCEPT !.team = 0]
  <2> DEFINE rows == WithoutRows(disk, gone).moves
  <2>1. /\ swept.teams \subseteq disk.teams
        /\ \A m \in MoveIds :
             /\ rows[m] = IF m \in gone THEN Absent ELSE disk.moves[m]
             /\ \/ swept.moves[m] = rows[m] /\ rows[m].team \in swept.teams
                \/ swept.moves[m] = [rows[m] EXCEPT !.team = 0]
    <3> HIDE DEF gone
    <3> QED
      BY <1>1, <1>4, SweptIs
  <2> HIDE DEF gone, swept, rows
  <2> QED
    BY <2>1
<1> HIDE DEF db, gone, swept
<1>6. disk' = db /\ txn' = db /\ pc = "idle" /\ pc' = "idle" /\ plan' = {}
  BY <1>1, <1>2 DEF Operator, local
<1>7. discards' # discards
  BY <1>1, <1>2
<1> QED
  BY <1>2, <1>3, <1>4, <1>5, <1>6, <1>7 DEF gone

LEMMA ErasedAre ==
  ASSUME TypeInv, NEW p \in Spellings, Erase(p)
  PROVE  /\ disk' = txn' /\ pc = "idle" /\ pc' = "idle" /\ plan' = {} /\ erasures' # erasures
         /\ disk'.filed = disk.filed /\ disk'.teams = disk.teams
         /\ \A m \in MoveIds :
              disk'.moves[m] =
                IF m \in RowsOf(p) THEN Absent
                ELSE IF disk.moves[m].superseded_by \in RowsOf(p)
                     THEN [disk.moves[m] EXCEPT !.superseded_by = 0, !.review_state = "rejected"]
                     ELSE disk.moves[m]
<1>1. disk \in Database /\ erasures \in Nat /\ (pc = "idle" => plan = {})
  BY DedupeAssumption DEF TypeInv, TypeOK, Shape
<1>2. Operator(Erased(p)) /\ erasures' = erasures + 1
  BY DEF Erase, Erased, RowsOf
<1>6. disk' = Erased(p) /\ txn' = Erased(p) /\ pc = "idle" /\ pc' = "idle" /\ plan' = {}
  BY <1>1, <1>2 DEF Operator, local
<1>7. erasures' # erasures
  BY <1>1, <1>2
<1> QED
  BY <1>1, <1>6, <1>7, ErasedIs

LEMMA StartedIs ==
  ASSUME TypeInv, StartDedupe
  PROVE  /\ disk' = disk /\ txn' = txn /\ txn = disk /\ pc' = "merge"
         /\ plan' = Components(disk) /\ UNCHANGED <<discards, erasures>>
BY DEF StartDedupe, environment, TypeInv, Shape

-----------------------------------------------------------------------------
(* A row that does not exist has no content, whichever row it once was.      *)

Blank(db) == \A m \in MoveIds \ live(db) : db.moves[m] = Absent

\* Neither does the stage write to a row there is not.
BlankInv ==
  /\ Blank(disk) /\ Blank(txn)
  /\ pc = "staff" => crew \subseteq live(txn)
  /\ InHand => merged \in live(txn)

\* What the run found is there as it was.
LEMMA FoundIs ==
  ASSUME TypeInv, NEW m \in live(disk)
  PROVE  /\ m \in live(txn) /\ m \in MoveIds
         /\ txn.moves[m].origin = disk.moves[m].origin
         /\ txn.moves[m].person = disk.moves[m].person
         /\ txn.moves[m].to_firm = disk.moves[m].to_firm
         /\ txn.moves[m].announced = disk.moves[m].announced
         /\ txn.moves[m].items = disk.moves[m].items
BY LiveRows DEF TypeInv, Shape, Kept

LEMMA AbsentIs ==
  /\ Absent.review_state = "absent" /\ Absent.superseded_by = 0 /\ Absent.team = 0
  /\ Absent.items = {} /\ Absent.origin = {} /\ Absent = [Absent EXCEPT !.team = 0]
<1> DEFINE s == CHOOSE s \in Spellings : TRUE
<1>1. Absent = NoRow(s)
  BY DEF Absent
<1> HIDE DEF s
<1>2. Absent.team = 0
  BY <1>1 DEF NoRow
<1>3. NoRow(s) = [NoRow(s) EXCEPT !.team = 0]
  <2>1. NoRow(s) \in Row /\ NoRow(s).team = 0
    BY DedupeAssumption, AbsentType DEF NoRow, s
  <2>2. \A r \in Row : r.team = 0 => r = [r EXCEPT !.team = 0]
    BY DEF Row
  <2> QED
    BY <2>1, <2>2
<1> QED
  BY <1>1, <1>2, <1>3 DEF NoRow

LEMMA BlankBeside ==
  ASSUME NEW db \in Database, NEW new, Blank(db), NEW id \in MoveIds, NEW r,
         new.moves = [db.moves EXCEPT ![id] = r], r.review_state # "absent"
  PROVE  Blank(new)
BY DEF Blank, live, Database

LEMMA CrewsAreLive == \A db : \A c \in Crews(db) : c \subseteq Movers(db) /\ c \subseteq live(db)
<1>1. \A db, g : \A c \in Clusters(db, g) : c \subseteq g
  BY DEF Clusters
<1>2. \A db, m : SamePair(db, m) \subseteq Movers(db)
  BY DEF SamePair
<1>3. \A db : Movers(db) \subseteq live(db)
  BY DEF Movers, canonical_moves
<1> QED
  BY <1>1, <1>2, <1>3 DEF Crews

LEMMA BlankStep ==
  ASSUME TypeInv, BlankInv, [Next]_vars
  PROVE  BlankInv'
<1>0. disk \in Database /\ txn \in Database
  BY DEF TypeInv, TypeOK
<1>1. CASE InsertMerged
  <2>1. disk' = disk /\ merged' \in MoveIds /\ pc' = "source"
    BY <1>1, InsertedIs DEF Beside
  <2>2. PICK c \in plan, r \in Row :
          /\ txn'.moves = [txn.moves EXCEPT ![merged'] = r]
          /\ r.review_state \in {"pending_review", "auto_accepted"}
    BY <1>1, InsertedIs
  <2>3. Blank(txn')
    BY <1>0, <2>1, <2>2, BlankBeside DEF BlankInv
  <2>4. merged' \in live(txn')
    BY <1>0, <2>1, <2>2 DEF live, Database
  <2> QED
    BY <2>1, <2>3, <2>4 DEF BlankInv
<1>2. CASE CopySources \/ CopyGroups \/ LearnSpellings
  <2>1. disk' = disk /\ pc' # "staff" /\ merged \in MoveIds
    BY <1>2, CopiedIs, MembersAre DEF Beside
  <2>2. PICK r \in Row :
          /\ txn'.moves = [txn.moves EXCEPT ![merged] = r]
          /\ r.review_state = txn.moves[merged].review_state
          /\ r.origin = txn.moves[merged].origin
    BY <1>2, CopiedIs
  <2>3. InHand
    BY <1>2, CopiedIs
  <2>4. r.review_state # "absent" /\ txn'.moves[merged] = r /\ merged' = merged
    BY <1>0, <1>2, <2>1, <2>2, <2>3, CopiedIs DEF BlankInv, live, Database
  <2>5. Blank(txn')
    BY <1>0, <2>1, <2>2, <2>4, BlankBeside DEF BlankInv
  <2> QED
    BY <2>1, <2>4, <2>5 DEF BlankInv, live
<1>3. CASE Supersede
  <2>1. /\ disk' = disk /\ pc' = "merge" /\ InHand
        /\ \A m \in MoveIds :
             txn'.moves[m] = IF m \in Members
                             THEN [txn.moves[m] EXCEPT !.superseded_by = merged,
                                                       !.review_state = "superseded"]
                             ELSE txn.moves[m]
    BY <1>3, SupersededIs DEF Beside
  <2>2. Members \subseteq live(txn)
    BY <2>1, MembersAre, FoundIs
  <2>3. \A m \in MoveIds : txn.moves[m] \in Row
    BY <1>0, FieldTypes
  <2>4. \A m \in MoveIds : txn.moves[m].review_state # "absent" => txn'.moves[m].review_state # "absent"
    BY <2>1, <2>3 DEF Row
  <2>5. Blank(txn')
    BY <2>1, <2>2, <2>4 DEF Blank, BlankInv, live
  <2> QED
    BY <2>1, <2>5 DEF BlankInv, InHand
<1>4. CASE QueueQuestion \/ InsertTeam
  <2>1. /\ disk' = disk /\ txn'.moves = txn.moves
        /\ (pc' = "staff" => crew' \in Crews(txn)) /\ ~InHand'
    BY <1>4, OpenedIs DEF Beside, InHand
  <2> QED
    BY <2>1, CrewsAreLive DEF BlankInv, Blank, live
<1>5. CASE StaffTeam
  <2>1. /\ disk' = disk /\ pc' = "merge" /\ pc = "staff"
        /\ \A m \in MoveIds : txn'.moves[m] = IF m \in crew THEN [txn.moves[m] EXCEPT !.team = merged]
                                              ELSE txn.moves[m]
    BY <1>5, StaffedIs DEF Beside
  <2>2. \A m \in MoveIds : txn.moves[m] \in Row
    BY <1>0, FieldTypes
  <2>3. \A m \in MoveIds : txn'.moves[m].review_state = txn.moves[m].review_state
    BY <2>1, <2>2 DEF Row
  <2>4. Blank(txn')
    BY <2>1, <2>3 DEF Blank, BlankInv, live
  <2> QED
    BY <2>1, <2>4 DEF BlankInv, InHand
<1>6. CASE RefuseSpellings \/ FinishDedupe \/ Kill \/ Interrupt
  BY <1>6, EndedIs DEF Ends, BlankInv, InHand
<1>7. CASE StartDedupe
  BY <1>7, StartedIs DEF BlankInv, InHand
<1>8. ASSUME NEW r \in Reports, FileReport(r) PROVE BlankInv'
  <2>1. disk' = txn' /\ pc' = "idle"
    BY <1>8, FiledIs
  <2>2. PICK id \in MoveIds \ live(disk), new \in Row :
          /\ disk'.moves = [disk.moves EXCEPT ![id] = new]
          /\ new.review_state \in {"auto_accepted", "pending_review"}
    BY <1>8, FiledIs
  <2>3. Blank(disk')
    BY <1>0, <2>2, BlankBeside DEF BlankInv
  <2> QED
    BY <2>1, <2>3 DEF BlankInv, InHand
<1>9. ASSUME NEW scope \in DiscardScopes, Discard(scope) PROVE BlankInv'
  <2> DEFINE gone == ReadFrom(scope)
  <2>1. /\ disk' = txn' /\ pc' = "idle"
        /\ \A m \in MoveIds :
              LET r == IF m \in gone THEN Absent ELSE disk.moves[m]
              IN disk'.moves[m] = r \/ disk'.moves[m] = [r EXCEPT !.team = 0]
    BY <1>9, DiscardedIs
  <2>2. \A m \in MoveIds : disk.moves[m] \in Row
    BY <1>0, FieldTypes
  <2> HIDE DEF gone
  <2>3. \A m \in MoveIds \ gone : disk'.moves[m].review_state = disk.moves[m].review_state
    BY <2>1, <2>2 DEF Row
  <2>4. \A m \in MoveIds : disk.moves[m] = Absent => disk'.moves[m] = Absent
    BY <2>1, AbsentIs
  <2>5. \A m \in gone : m \in MoveIds => disk'.moves[m] = Absent
    BY <2>1, AbsentIs
  <2>6. Blank(disk')
    BY <2>3, <2>4, <2>5 DEF Blank, BlankInv, live
  <2> QED
    BY <2>1, <2>6 DEF BlankInv, InHand
<1>10. ASSUME NEW p \in Spellings, Erase(p) PROVE BlankInv'
  <2> DEFINE gone == RowsOf(p)
  <2>1. /\ disk' = txn' /\ pc' = "idle" /\ gone \subseteq live(disk)
        /\ \A m \in MoveIds :
             disk'.moves[m] =
               IF m \in gone THEN Absent
               ELSE IF disk.moves[m].superseded_by \in gone
                    THEN [disk.moves[m] EXCEPT !.superseded_by = 0, !.review_state = "rejected"]
                    ELSE disk.moves[m]
    BY <1>10, ErasedAre DEF RowsOf
  <2>2. 0 \notin gone
    BY <2>1, LiveRows, Ids
  <2>3. \A m \in MoveIds : disk.moves[m] \in Row
    BY <1>0, FieldTypes
  <2> HIDE DEF gone
  <2>4. ASSUME NEW m \in MoveIds \ live(disk) PROVE disk'.moves[m] = Absent
    <3>1. disk.moves[m] = Absent /\ m \notin gone
      BY <2>1 DEF Blank, BlankInv
    <3>2. disk.moves[m].superseded_by \notin gone
      BY <2>2, <3>1, AbsentIs
    <3> QED
      BY <2>1, <3>1, <3>2
  <2>5. \A m \in live(disk) \ gone : disk'.moves[m].review_state # "absent"
    BY <2>1, <2>3 DEF live, Row
  <2>6. Blank(disk')
    BY <2>1, <2>4, <2>5 DEF Blank, live
  <2> QED
    BY <2>1, <2>6 DEF BlankInv, InHand
<1>11. CASE UNCHANGED vars
  BY <1>11 DEF vars, local, BlankInv, InHand
<1> QED
  BY <1>1, <1>2, <1>3, <1>4, <1>5, <1>6, <1>7, <1>8, <1>9, <1>10, <1>11 DEF Next, Step

LEMMA BlankInvariant == Spec => []BlankInv
<1>1. Init => BlankInv
  BY DEF Init, BlankInv, Blank, EmptyDatabase, InHand
<1>2. TypeInv /\ BlankInv /\ [Next]_vars => BlankInv'
  BY BlankStep
<1> QED
  BY <1>1, <1>2, TypeInvariant, PTL DEF Spec

-----------------------------------------------------------------------------
(* Supersession.                                                            *)

Sound(db) ==
  \A m \in live(db) :
    /\ db.moves[m].superseded_by # 0 <=> db.moves[m].review_state = "superseded"
    /\ db.moves[m].superseded_by # 0 => SupersededBy(db, m, db.moves[m].superseded_by)

\* The row made of the component in hand stands for all of it before any of its
\* rows points there.
HandInv ==
  InHand =>
    /\ \A m, n \in Members : Akin(disk, m, n)
    /\ \A m \in live(disk) : m < merged
    /\ txn.moves[merged].review_state \in {"pending_review", "auto_accepted"}
    /\ txn.moves[merged].superseded_by = 0
    /\ txn.moves[merged].person = winner.person
    /\ txn.moves[merged].to_firm = winner.to_firm
    /\ \A m \in Members : txn.moves[merged].announced <= disk.moves[m].announced
    /\ txn.moves[merged].items =
         IF pc = "source" THEN {} ELSE UNION {disk.moves[m].items : m \in Members}

SoundInv == Sound(disk) /\ Sound(txn) /\ HandInv

LEMMA SoundBeside ==
  ASSUME NEW db \in Database, NEW new \in Database, NEW id \in MoveIds \ live(db), NEW r,
         new.moves = [db.moves EXCEPT ![id] = r],
         r.superseded_by = 0, r.review_state # "superseded", Sound(db)
  PROVE  Sound(new)
<1> SUFFICES ASSUME NEW m \in live(new)
             PROVE  /\ new.moves[m].superseded_by # 0 <=> new.moves[m].review_state = "superseded"
                    /\ new.moves[m].superseded_by # 0 =>
                         SupersededBy(new, m, new.moves[m].superseded_by)
  BY DEF Sound
<1>1. db.moves \in [MoveIds -> Row] /\ m \in MoveIds
  BY DEF Database, live
<1>2. CASE m = id
  BY <1>1, <1>2
<1>3. CASE m # id
  <2>1. m \in live(db) /\ new.moves[m] = db.moves[m]
    BY <1>1, <1>3 DEF live
  <2>2. ASSUME NEW n \in live(db) PROVE n \in live(new) /\ new.moves[n] = db.moves[n]
    <3>1. n \in MoveIds /\ n # id
      BY DEF live
    <3>2. new.moves[n] = db.moves[n]
      BY <1>1, <3>1
    <3> QED
      BY <3>2 DEF live
  <2> QED
    BY <2>1, <2>2 DEF Sound, SupersededBy
<1> QED
  BY <1>2, <1>3

\* Rows that keep what supersession is about.
LEMMA SoundSame ==
  ASSUME NEW db, NEW new, Sound(db),
         \A m \in MoveIds :
           /\ new.moves[m].review_state = db.moves[m].review_state
           /\ new.moves[m].superseded_by = db.moves[m].superseded_by
           /\ new.moves[m].person = db.moves[m].person
           /\ new.moves[m].to_firm = db.moves[m].to_firm
           /\ new.moves[m].announced = db.moves[m].announced
           /\ db.moves[m].items \subseteq new.moves[m].items
           /\ db.moves[m].superseded_by # 0 => new.moves[m].items = db.moves[m].items
  PROVE  Sound(new)
<1>1. live(new) = live(db) /\ live(db) \subseteq MoveIds
  BY DEF live
<1>2. ASSUME NEW m \in live(db), NEW n \in live(db), SupersededBy(db, m, n),
             db.moves[m].superseded_by # 0
      PROVE  SupersededBy(new, m, n)
  BY <1>1, <1>2 DEF SupersededBy
<1>3. \A m \in live(db) : db.moves[m].superseded_by # 0 => db.moves[m].superseded_by \in live(db)
  BY DEF Sound, SupersededBy
<1> QED
  BY <1>1, <1>2, <1>3 DEF Sound

\* Rows that go, where no link of a row that stays leads to one of them any more.
LEMMA SoundLess ==
  ASSUME NEW db, NEW new, Sound(db), NEW gone \in SUBSET MoveIds,
         \A m \in gone : new.moves[m].review_state = "absent",
         \A m \in MoveIds \ gone :
           db.moves[m].review_state = "absent" => new.moves[m].review_state = "absent",
         \A m \in live(db) \ gone :
           /\ new.moves[m].review_state # "absent"
           /\ new.moves[m].person = db.moves[m].person
           /\ new.moves[m].to_firm = db.moves[m].to_firm
           /\ new.moves[m].announced = db.moves[m].announced
           /\ new.moves[m].items = db.moves[m].items
           /\ \/ /\ new.moves[m].review_state = db.moves[m].review_state
                 /\ new.moves[m].superseded_by = db.moves[m].superseded_by
                 /\ db.moves[m].superseded_by \notin gone
              \/ new.moves[m].superseded_by = 0 /\ new.moves[m].review_state # "superseded"
  PROVE  Sound(new)
<1>1. live(new) = live(db) \ gone
  BY DEF live
<1>2. ASSUME NEW m \in live(db) \ gone, NEW n \in live(db) \ gone, SupersededBy(db, m, n)
      PROVE  SupersededBy(new, m, n)
  BY <1>1, <1>2 DEF SupersededBy
<1>3. \A m \in live(db) : db.moves[m].superseded_by # 0 =>
        db.moves[m].superseded_by \in live(db) /\ SupersededBy(db, m, db.moves[m].superseded_by)
  BY DEF Sound, SupersededBy
<1> QED
  BY <1>1, <1>2, <1>3 DEF Sound

LEMMA MergedIsLive ==
  ASSUME TypeInv, HandInv, InHand
  PROVE  merged \in live(txn) /\ merged \notin Members
BY MembersAre DEF HandInv, live

LEMMA SoundMerge ==
  ASSUME TypeInv, SoundInv, Supersede
  PROVE  Sound(txn')
<1>1. /\ InHand /\ pc = "supersede"
      /\ \A m \in MoveIds :
           txn'.moves[m] = IF m \in Members
                           THEN [txn.moves[m] EXCEPT !.superseded_by = merged,
                                                     !.review_state = "superseded"]
                           ELSE txn.moves[m]
  BY SupersededIs DEF Supersede
<1>2. /\ Members \subseteq live(disk) /\ ordered[1] \in Members /\ merged \in live(txn)
      /\ merged \notin Members /\ merged \in MoveIds /\ MoveIds \subseteq Nat \ {0}
  BY <1>1, MembersAre, MergedIsLive, Ids DEF SoundInv
<1>3. \A m \in MoveIds : txn.moves[m] \in Row
  BY FieldTypes DEF TypeInv, TypeOK
<1>4. \A m \in MoveIds :
        /\ txn'.moves[m].person = txn.moves[m].person
        /\ txn'.moves[m].to_firm = txn.moves[m].to_firm
        /\ txn'.moves[m].announced = txn.moves[m].announced
        /\ txn'.moves[m].items = txn.moves[m].items
        /\ m \in Members => /\ txn'.moves[m].superseded_by = merged
                            /\ txn'.moves[m].review_state = "superseded"
        /\ m \notin Members => txn'.moves[m] = txn.moves[m]
  <2> TAKE m \in MoveIds
  <2> DEFINE old == txn.moves[m]
             new == txn'.moves[m]
             heir == merged
  <2>1. /\ old \in Row
        /\ m \in Members => new = [old EXCEPT !.review_state = "superseded", !.superseded_by = heir]
        /\ m \notin Members => new = old
    BY <1>1, <1>3
  <2> HIDE DEF old, new, heir
  <2>2. /\ new.person = old.person /\ new.to_firm = old.to_firm
        /\ new.announced = old.announced /\ new.items = old.items
        /\ m \in Members => new.superseded_by = heir /\ new.review_state = "superseded"
        /\ m \notin Members => new = old
    BY <2>1 DEF Row
  <2> QED
    BY <2>2 DEF old, new, heir
<1>5. live(txn') = live(txn)
  BY <1>2, <1>4, FoundIs DEF live
<1>6. \A m \in live(txn), n \in live(txn) : SupersededBy(txn, m, n) => SupersededBy(txn', m, n)
  BY <1>4, <1>5, LiveRows DEF SupersededBy
<1>7. ASSUME NEW m \in Members PROVE SupersededBy(txn', m, merged)
  <2>1. m \in live(disk) /\ m \in MoveIds /\ Akin(disk, m, ordered[1])
    BY <1>1, <1>2, LiveRows DEF SoundInv, HandInv
  <2>2. /\ m < merged
        /\ txn.moves[merged].person = disk.moves[ordered[1]].person
        /\ txn.moves[merged].to_firm = disk.moves[ordered[1]].to_firm
        /\ txn.moves[merged].announced <= disk.moves[m].announced
        /\ disk.moves[m].items \subseteq txn.moves[merged].items
    BY <1>1, <2>1 DEF SoundInv, HandInv, winner
  <2>3. /\ txn.moves[m].person = disk.moves[m].person
        /\ txn.moves[m].to_firm = disk.moves[m].to_firm
        /\ txn.moves[m].announced = disk.moves[m].announced
        /\ txn.moves[m].items = disk.moves[m].items
    BY <2>1, FoundIs
  <2> QED
    BY <1>2, <1>4, <1>5, <2>1, <2>2, <2>3 DEF SupersededBy, Akin
<1>8. \A m \in live(txn) : txn.moves[m].superseded_by # 0 => txn.moves[m].superseded_by \in live(txn)
  BY DEF SoundInv, Sound, SupersededBy
<1>9. Sound(txn)
  BY DEF SoundInv
<1>10. ASSUME NEW m \in live(txn')
       PROVE  /\ txn'.moves[m].superseded_by # 0 <=> txn'.moves[m].review_state = "superseded"
              /\ txn'.moves[m].superseded_by # 0 => SupersededBy(txn', m, txn'.moves[m].superseded_by)
  <2>1. m \in live(txn) /\ m \in MoveIds
    BY <1>5, LiveRows
  <2>2. CASE m \in Members
    BY <1>2, <1>4, <1>7, <2>1, <2>2
  <2>3. CASE m \notin Members
    BY <1>4, <1>6, <1>8, <1>9, <2>1, <2>3 DEF Sound
  <2> QED
    BY <2>2, <2>3
<1> QED
  BY <1>10 DEF Sound

LEMMA HandInserted == ASSUME TypeInv, InsertMerged PROVE HandInv'
<1>1. /\ disk' = disk /\ pc' = "source"
      /\ merged' \in MoveIds \ live(txn) /\ \A n \in live(txn) : n < merged'
  BY InsertedIs DEF Beside
<1>2. PICK c \in plan, r \in Row :
        /\ Members' = c
        /\ txn'.moves = [txn.moves EXCEPT ![merged'] = r]
        /\ r.review_state \in {"pending_review", "auto_accepted"}
        /\ r.items = {} /\ r.superseded_by = 0
        /\ r.person = winner'.person /\ r.to_firm = winner'.to_firm
        /\ \A m \in c : r.announced <= disk.moves[m].announced
  BY InsertedIs
<1>3. txn'.moves[merged'] = r
  BY <1>1, <1>2 DEF TypeInv, TypeOK, Database
<1>4. \A m, n \in c : Akin(disk, m, n)
  BY DEF TypeInv, Shape, PlanInv
<1>5. \A m \in live(disk) : m < merged'
  BY <1>1, FoundIs
<1> QED
  BY <1>1, <1>2, <1>3, <1>4, <1>5 DEF HandInv, Akin

LEMMA HandCopied ==
  ASSUME TypeInv, HandInv, CopySources \/ CopyGroups \/ LearnSpellings
  PROVE  HandInv'
<1>1. /\ InHand /\ disk' = disk /\ ordered' = ordered /\ merged' = merged
      /\ pc' \in {"group", "learn", "supersede"} /\ (pc = "source" <=> CopySources)
  BY CopiedIs DEF Beside
<1>2. PICK r \in Row :
        /\ txn'.moves = [txn.moves EXCEPT ![merged] = r]
        /\ r.review_state = txn.moves[merged].review_state
        /\ r.person = txn.moves[merged].person
        /\ r.to_firm = txn.moves[merged].to_firm
        /\ r.announced = txn.moves[merged].announced
        /\ r.superseded_by = txn.moves[merged].superseded_by
        /\ r.items = IF CopySources THEN UNION {disk.moves[m].items : m \in Members}
                     ELSE txn.moves[merged].items
  BY CopiedIs
<1>3. merged \in MoveIds
  BY <1>1, MembersAre
<1>4. txn'.moves[merged'] = r
  BY <1>1, <1>2, <1>3 DEF TypeInv, TypeOK, Database
<1>5. Members' = Members /\ winner' = winner
  BY <1>1 DEF Members, winner
<1>6. r.items = UNION {disk.moves[m].items : m \in Members}
  BY <1>1, <1>2 DEF HandInv
<1>7. /\ \A m, n \in Members : Akin(disk, m, n) /\ Akin(disk', m, n)
      /\ \A m \in live(disk) : m < merged
      /\ \A m \in Members : r.announced <= disk.moves[m].announced
      /\ r.review_state \in {"pending_review", "auto_accepted"} /\ r.superseded_by = 0
      /\ r.person = winner.person /\ r.to_firm = winner.to_firm
  BY <1>1, <1>2 DEF HandInv
<1> QED
  BY <1>1, <1>4, <1>5, <1>6, <1>7 DEF HandInv

LEMMA SoundStep ==
  ASSUME TypeInv, BlankInv, SoundInv, [Next]_vars
  PROVE  SoundInv'
<1>0. disk \in Database /\ txn \in Database /\ disk' \in Database /\ txn' \in Database /\ TypeInv'
  BY NextTyped DEF TypeInv, TypeOK
<1>1. CASE InsertMerged
  <2>1. disk' = disk /\ merged' \in MoveIds \ live(txn)
    BY <1>1, InsertedIs DEF Beside
  <2>2. PICK c \in plan, r \in Row :
          /\ txn'.moves = [txn.moves EXCEPT ![merged'] = r]
          /\ r.review_state \in {"pending_review", "auto_accepted"} /\ r.superseded_by = 0
    BY <1>1, InsertedIs
  <2>3. Sound(txn')
    BY <1>0, <2>1, <2>2, SoundBeside DEF SoundInv
  <2> QED
    BY <1>1, <2>1, <2>3, HandInserted DEF SoundInv
<1>2. CASE CopySources \/ CopyGroups \/ LearnSpellings
  <2>1. InHand /\ disk' = disk /\ merged' = merged /\ (pc = "source" <=> CopySources)
    BY <1>2, CopiedIs DEF Beside
  <2>2. PICK r \in Row :
          /\ txn'.moves = [txn.moves EXCEPT ![merged] = r]
          /\ r.review_state = txn.moves[merged].review_state
          /\ r.person = txn.moves[merged].person
          /\ r.to_firm = txn.moves[merged].to_firm
          /\ r.announced = txn.moves[merged].announced
          /\ r.superseded_by = txn.moves[merged].superseded_by
          /\ r.items = IF CopySources THEN UNION {disk.moves[m].items : m \in Members}
                       ELSE txn.moves[merged].items
    BY <1>2, CopiedIs
  <2>3. txn.moves[merged].superseded_by = 0 /\ txn.moves[merged].items \subseteq r.items
    BY <2>1, <2>2 DEF SoundInv, HandInv
  <2>4. \A m \in MoveIds : txn'.moves[m] = IF m = merged THEN r ELSE txn.moves[m]
    BY <1>0, <2>2 DEF Database
  <2>5. Sound(txn')
    BY <2>2, <2>3, <2>4, SoundSame DEF SoundInv
  <2> QED
    BY <1>2, <2>1, <2>5, HandCopied DEF SoundInv
<1>3. CASE Supersede
  <2>1. disk' = disk /\ ~InHand'
    BY <1>3, SupersededIs DEF Beside, InHand
  <2> QED
    BY <1>3, <2>1, SoundMerge DEF SoundInv, HandInv
<1>4. CASE QueueQuestion \/ InsertTeam
  <2>1. disk' = disk /\ txn'.moves = txn.moves /\ ~InHand'
    BY <1>4, OpenedIs DEF Beside, InHand
  <2>2. Sound(txn')
    BY <2>1, SoundSame DEF SoundInv
  <2> QED
    BY <2>1, <2>2 DEF SoundInv, HandInv
<1>5. CASE StaffTeam
  <2>1. disk' = disk /\ ~InHand'
        /\ \A m \in MoveIds : txn'.moves[m] = IF m \in crew THEN [txn.moves[m] EXCEPT !.team = merged]
                                              ELSE txn.moves[m]
    BY <1>5, StaffedIs DEF Beside, InHand
  <2>2. \A m \in MoveIds : txn.moves[m] \in Row
    BY <1>0, FieldTypes
  <2>3. \A m \in MoveIds :
           /\ txn'.moves[m].review_state = txn.moves[m].review_state
           /\ txn'.moves[m].superseded_by = txn.moves[m].superseded_by
           /\ txn'.moves[m].person = txn.moves[m].person
           /\ txn'.moves[m].to_firm = txn.moves[m].to_firm
           /\ txn'.moves[m].announced = txn.moves[m].announced
           /\ txn'.moves[m].items = txn.moves[m].items
    BY <2>1, <2>2 DEF Row
  <2>4. Sound(txn')
    BY <2>3, SoundSame DEF SoundInv
  <2> QED
    BY <2>1, <2>4 DEF SoundInv, HandInv
<1>6. CASE RefuseSpellings \/ FinishDedupe \/ Kill \/ Interrupt
  BY <1>6, EndedIs DEF Ends, InHand, SoundInv, HandInv
<1>7. CASE StartDedupe
  BY <1>7, StartedIs DEF InHand, SoundInv, HandInv
<1>8. ASSUME NEW r \in Reports, FileReport(r) PROVE SoundInv'
  <2>1. disk' = txn' /\ ~InHand'
    BY <1>8, FiledIs DEF InHand
  <2>2. PICK id \in MoveIds \ live(disk), new \in Row :
          /\ disk'.moves = [disk.moves EXCEPT ![id] = new]
          /\ new.review_state \in {"auto_accepted", "pending_review"}
          /\ new.origin = {r} /\ new.items = {r.item}
          /\ new.superseded_by = 0 /\ new.team = 0
    BY <1>8, FiledIs
  <2>3. Sound(disk')
    BY <1>0, <2>2, SoundBeside DEF SoundInv
  <2> QED
    BY <2>1, <2>3 DEF SoundInv, HandInv
<1>9. ASSUME NEW scope \in DiscardScopes, Discard(scope) PROVE SoundInv'
  <2> DEFINE gone == ReadFrom(scope)
  <2>1. /\ disk' = txn' /\ ~InHand' /\ ~Restricted(gone) /\ gone \in SUBSET MoveIds
        /\ \A m \in MoveIds :
              LET r == IF m \in gone THEN Absent ELSE disk.moves[m]
              IN disk'.moves[m] = r \/ disk'.moves[m] = [r EXCEPT !.team = 0]
    BY <1>9, DiscardedIs, LiveRows DEF InHand
  <2>2. Absent.review_state = "absent" /\ Absent = [Absent EXCEPT !.team = 0]
    BY DEF Absent, NoRow
  <2>3. \A m \in MoveIds : disk.moves[m] \in Row
    BY <1>0, FieldTypes
  <2> HIDE DEF gone
  <2>4. \A m \in gone : disk'.moves[m].review_state = "absent"
    BY <2>1, <2>2
  <2>5. \A m \in MoveIds \ gone :
          /\ disk'.moves[m].review_state = disk.moves[m].review_state
          /\ disk'.moves[m].superseded_by = disk.moves[m].superseded_by
          /\ disk'.moves[m].person = disk.moves[m].person
          /\ disk'.moves[m].to_firm = disk.moves[m].to_firm
          /\ disk'.moves[m].announced = disk.moves[m].announced
          /\ disk'.moves[m].items = disk.moves[m].items
    <3> TAKE m \in MoveIds \ gone
    <3> DEFINE old == disk.moves[m]
               new == disk'.moves[m]
    <3>1. old \in Row /\ (new = old \/ new = [old EXCEPT !.team = 0])
      BY <2>1, <2>3
    <3> HIDE DEF old, new
    <3>2. /\ new.review_state = old.review_state /\ new.superseded_by = old.superseded_by
          /\ new.person = old.person /\ new.to_firm = old.to_firm
          /\ new.announced = old.announced /\ new.items = old.items
      BY <3>1 DEF Row
    <3> QED
      BY <3>2 DEF old, new
  <2>6. \A m \in live(disk) \ gone : disk.moves[m].superseded_by \notin gone
    BY <2>1 DEF Restricted
  <2>7. Sound(disk')
    BY <2>1, <2>4, <2>5, <2>6, SoundLess DEF SoundInv, live
  <2> QED
    BY <2>1, <2>7 DEF SoundInv, HandInv
<1>10. ASSUME NEW p \in Spellings, Erase(p) PROVE SoundInv'
  <2> DEFINE gone == RowsOf(p)
  <2>1. /\ disk' = txn' /\ ~InHand' /\ gone \in SUBSET MoveIds
        /\ \A m \in MoveIds :
             disk'.moves[m] =
               IF m \in gone THEN Absent
               ELSE IF disk.moves[m].superseded_by \in gone
                    THEN [disk.moves[m] EXCEPT !.superseded_by = 0, !.review_state = "rejected"]
                    ELSE disk.moves[m]
    BY <1>10, ErasedAre DEF InHand, RowsOf, live
  <2>2. Absent.review_state = "absent"
    BY DEF Absent, NoRow
  <2>3. \A m \in MoveIds : disk.moves[m] \in Row
    BY <1>0, FieldTypes
  <2> HIDE DEF gone
  <2>a. \A r \in Row : LET new == [r EXCEPT !.superseded_by = 0, !.review_state = "rejected"]
                      IN /\ new.review_state = "rejected" /\ new.superseded_by = 0
                         /\ new.person = r.person /\ new.to_firm = r.to_firm
                         /\ new.announced = r.announced /\ new.items = r.items
    BY DEF Row
  <2>4. \A m \in MoveIds \ gone : disk.moves[m].superseded_by \in gone =>
          /\ disk'.moves[m].review_state = "rejected" /\ disk'.moves[m].superseded_by = 0
          /\ disk'.moves[m].person = disk.moves[m].person
          /\ disk'.moves[m].to_firm = disk.moves[m].to_firm
          /\ disk'.moves[m].announced = disk.moves[m].announced
          /\ disk'.moves[m].items = disk.moves[m].items
    <3> SUFFICES ASSUME NEW m \in MoveIds \ gone, disk.moves[m].superseded_by \in gone PROVE
          /\ disk'.moves[m].review_state = "rejected" /\ disk'.moves[m].superseded_by = 0
          /\ disk'.moves[m].person = disk.moves[m].person
          /\ disk'.moves[m].to_firm = disk.moves[m].to_firm
          /\ disk'.moves[m].announced = disk.moves[m].announced
          /\ disk'.moves[m].items = disk.moves[m].items
      OBVIOUS
    <3>1. disk.moves[m] \in Row
      BY <2>3
    <3>2. disk'.moves[m] = [disk.moves[m] EXCEPT !.superseded_by = 0, !.review_state = "rejected"]
      BY <2>1
    <3> QED
      BY <2>a, <3>1, <3>2
  <2>5. ASSUME NEW m \in MoveIds \ gone, disk.moves[m].review_state = "absent"
        PROVE  disk'.moves[m].review_state = "absent"
    <3>1. disk.moves[m] = Absent
      BY <2>5 DEF BlankInv, Blank, live
    <3>2. 0 \notin gone
      BY <2>1, Ids
    <3> QED
      BY <2>1, <3>1, <3>2, AbsentIs
  <2>6. \A m \in live(disk) \ gone :
          /\ disk'.moves[m].review_state # "absent"
          /\ disk'.moves[m].person = disk.moves[m].person
          /\ disk'.moves[m].to_firm = disk.moves[m].to_firm
          /\ disk'.moves[m].announced = disk.moves[m].announced
          /\ disk'.moves[m].items = disk.moves[m].items
          /\ \/ /\ disk'.moves[m].review_state = disk.moves[m].review_state
                /\ disk'.moves[m].superseded_by = disk.moves[m].superseded_by
                /\ disk.moves[m].superseded_by \notin gone
             \/ disk'.moves[m].superseded_by = 0 /\ disk'.moves[m].review_state # "superseded"
    <3> SUFFICES ASSUME NEW m \in live(disk) \ gone PROVE
          /\ disk'.moves[m].review_state # "absent"
          /\ disk'.moves[m].person = disk.moves[m].person
          /\ disk'.moves[m].to_firm = disk.moves[m].to_firm
          /\ disk'.moves[m].announced = disk.moves[m].announced
          /\ disk'.moves[m].items = disk.moves[m].items
          /\ \/ /\ disk'.moves[m].review_state = disk.moves[m].review_state
                /\ disk'.moves[m].superseded_by = disk.moves[m].superseded_by
                /\ disk.moves[m].superseded_by \notin gone
             \/ disk'.moves[m].superseded_by = 0 /\ disk'.moves[m].review_state # "superseded"
      OBVIOUS
    <3>0. m \in MoveIds \ gone /\ disk.moves[m].review_state # "absent"
      BY DEF live
    <3>1. CASE disk.moves[m].superseded_by \in gone
      BY <2>4, <3>0, <3>1
    <3>2. CASE disk.moves[m].superseded_by \notin gone
      BY <2>1, <3>0, <3>2
    <3> QED
      BY <3>1, <3>2
  <2>7. Sound(disk')
    <3>1. /\ Sound(disk) /\ gone \in SUBSET MoveIds
          /\ \A m \in gone : disk'.moves[m].review_state = "absent"
      BY <2>1, <2>2 DEF SoundInv
    <3> QED
      BY <2>5, <2>6, <3>1, SoundLess
  <2> QED
    BY <2>1, <2>7 DEF SoundInv, HandInv
<1>11. CASE UNCHANGED vars
  BY <1>11 DEF vars, local, SoundInv, HandInv, InHand, Members, winner
<1> QED
  BY <1>1, <1>2, <1>3, <1>4, <1>5, <1>6, <1>7, <1>8, <1>9, <1>10, <1>11 DEF Next, Step

LEMMA SoundInvariant == Spec => []SoundInv
<1>1. Init => SoundInv
  BY DEF Init, SoundInv, Sound, HandInv, InHand, EmptyDatabase, live, Absent, NoRow
<1>2. TypeInv /\ BlankInv /\ SoundInv /\ [Next]_vars => SoundInv'
  BY SoundStep
<1> QED
  BY <1>1, <1>2, TypeInvariant, BlankInvariant, PTL DEF Spec

\* Every link of supersession points at a later, live row that carries what the
\* replaced one said, whatever stops the stage and whatever is discarded or erased.
THEOREM MergesReadBackwards == Spec => []SupersessionSound
<1>1. SoundInv => SupersessionSound
  BY DEF SoundInv, Sound, SupersessionSound
<1> QED
  BY <1>1, SoundInvariant, PTL

-----------------------------------------------------------------------------
(* Coverage.                                                                *)

\* Each canonical row is there, or another says everything it said.
LEMMA CoverGrows ==
  ASSUME NEW db, NEW new,
         \A m \in canonical_moves(db) : \E n \in canonical_moves(new) :
           db.moves[m].items \subseteq new.moves[n].items
  PROVE  Covered(db) \subseteq Covered(new)
BY DEF Covered

LEMMA CanonicalRows ==
  \A db, m : m \in canonical_moves(db) <=> /\ m \in MoveIds /\ db.moves[m].review_state # "absent"
                                           /\ db.moves[m].superseded_by = 0
                                           /\ db.moves[m].review_state # "rejected"
BY DEF canonical_moves, live

Statement ==
  InsertMerged \/ CopySources \/ CopyGroups \/ LearnSpellings \/ Supersede
    \/ QueueQuestion \/ InsertTeam \/ StaffTeam

\* No statement of the stage takes an item out of the canonical view.
LEMMA StatementCovers ==
  ASSUME TypeInv, HandInv, Statement
  PROVE  disk' = disk /\ Covered(txn) \subseteq Covered(txn')
<1>0. txn \in Database /\ txn.moves \in [MoveIds -> Row]
  BY DEF TypeInv, TypeOK, Database
<1>1. CASE InsertMerged
  <2>1. disk' = disk /\ merged' \in MoveIds \ live(txn)
    BY <1>1, InsertedIs DEF Beside
  <2>2. PICK c \in plan, r \in Row : txn'.moves = [txn.moves EXCEPT ![merged'] = r]
    BY <1>1, InsertedIs
  <2>3. \A m \in live(txn) : txn'.moves[m] = txn.moves[m]
    BY <1>0, <2>1, <2>2 DEF live
  <2>4. \A m \in canonical_moves(txn) : m \in canonical_moves(txn') /\ txn'.moves[m] = txn.moves[m]
    BY <2>3, CanonicalRows DEF live
  <2> QED
    BY <2>1, <2>4, CoverGrows
<1>2. CASE CopySources \/ CopyGroups \/ LearnSpellings
  <2>1. InHand /\ disk' = disk /\ (pc = "source" <=> CopySources)
    BY <1>2, CopiedIs DEF Beside
  <2>2. PICK r \in Row :
          /\ txn'.moves = [txn.moves EXCEPT ![merged] = r]
          /\ r.review_state = txn.moves[merged].review_state
          /\ r.origin = txn.moves[merged].origin /\ r.person = txn.moves[merged].person
          /\ r.to_firm = txn.moves[merged].to_firm /\ r.from_firm = txn.moves[merged].from_firm
          /\ r.announced = txn.moves[merged].announced
          /\ r.superseded_by = txn.moves[merged].superseded_by
          /\ r.team = txn.moves[merged].team
          /\ r.items = IF CopySources THEN UNION {disk.moves[m].items : m \in Members}
                       ELSE txn.moves[merged].items
    BY <1>2, CopiedIs
  <2>3. txn.moves[merged].items \subseteq r.items
    BY <2>1, <2>2 DEF HandInv
  <2>4. \A m \in MoveIds : txn'.moves[m] = IF m = merged THEN r ELSE txn.moves[m]
    BY <1>0, <2>2
  <2>5. \A m \in canonical_moves(txn) : m \in canonical_moves(txn')
                                        /\ txn.moves[m].items \subseteq txn'.moves[m].items
    <3>1. \A m \in MoveIds : /\ txn'.moves[m].review_state = txn.moves[m].review_state
                             /\ txn'.moves[m].superseded_by = txn.moves[m].superseded_by
                             /\ txn.moves[m].items \subseteq txn'.moves[m].items
      BY <2>2, <2>3, <2>4
    <3> QED
      BY <3>1, CanonicalRows
  <2> QED
    BY <2>1, <2>5, CoverGrows
<1>3. CASE Supersede
  <2>1. /\ disk' = disk /\ InHand /\ pc = "supersede"
        /\ \A m \in MoveIds :
             txn'.moves[m] = IF m \in Members
                             THEN [txn.moves[m] EXCEPT !.superseded_by = merged,
                                                       !.review_state = "superseded"]
                             ELSE txn.moves[m]
    BY <1>3, SupersededIs DEF Beside, Supersede
  <2>2. Members \subseteq live(disk) /\ merged \notin Members /\ merged \in MoveIds
    BY <2>1, MembersAre
  <2>3. txn'.moves[merged] = txn.moves[merged]
    BY <2>1, <2>2
  <2>4. merged \in canonical_moves(txn')
    BY <2>1, <2>2, <2>3, CanonicalRows DEF HandInv
  <2>5. ASSUME NEW m \in canonical_moves(txn)
        PROVE  \E n \in canonical_moves(txn') : txn.moves[m].items \subseteq txn'.moves[n].items
    <3>1. m \in MoveIds
      BY CanonicalRows
    <3>2. CASE m \in Members
      <4>1. txn.moves[m].items = disk.moves[m].items
        BY <2>2, <3>2, FoundIs
      <4>2. disk.moves[m].items \subseteq txn.moves[merged].items
        BY <2>1, <3>2 DEF HandInv
      <4> QED
        BY <2>3, <2>4, <4>1, <4>2
    <3>3. CASE m \notin Members
      <4>1. txn'.moves[m] = txn.moves[m]
        BY <2>1, <3>1, <3>3
      <4>2. m \in canonical_moves(txn')
        BY <4>1, CanonicalRows
      <4> QED
        BY <4>1, <4>2
    <3> QED
      BY <3>2, <3>3
  <2> QED
    BY <2>1, <2>5, CoverGrows
<1>4. CASE QueueQuestion \/ InsertTeam
  <2>1. disk' = disk /\ txn'.moves = txn.moves
    BY <1>4, OpenedIs DEF Beside
  <2> QED
    BY <2>1 DEF Covered, canonical_moves, live
<1>5. CASE StaffTeam
  <2>1. disk' = disk
        /\ \A m \in MoveIds : txn'.moves[m] = IF m \in crew THEN [txn.moves[m] EXCEPT !.team = merged]
                                              ELSE txn.moves[m]
    BY <1>5, StaffedIs DEF Beside
  <2>2. \A m \in MoveIds : /\ txn'.moves[m].review_state = txn.moves[m].review_state
                           /\ txn'.moves[m].superseded_by = txn.moves[m].superseded_by
                           /\ txn'.moves[m].items = txn.moves[m].items
    BY <1>0, <2>1 DEF Row
  <2>3. \A m \in canonical_moves(txn) : m \in canonical_moves(txn')
                                        /\ txn.moves[m].items \subseteq txn'.moves[m].items
    BY <2>2, CanonicalRows
  <2> QED
    BY <2>1, <2>3, CoverGrows
<1> QED
  BY <1>1, <1>2, <1>3, <1>4, <1>5 DEF Statement

CoverInv == Covered(disk) \subseteq Covered(txn)

LEMMA CoverStep ==
  ASSUME TypeInv, SoundInv, CoverInv, [Next]_vars
  PROVE  /\ CoverInv'
         /\ <<discards, erasures>>' = <<discards, erasures>> => Covered(disk) \subseteq Covered(disk)'
<1>1. CASE Statement
  <2>1. disk' = disk /\ Covered(txn) \subseteq Covered(txn')
    BY <1>1, StatementCovers DEF SoundInv
  <2>2. Covered(disk') = Covered(disk)
    BY <2>1
  <2> QED
    BY <2>1, <2>2 DEF CoverInv
<1>2. CASE RefuseSpellings \/ FinishDedupe \/ Kill \/ Interrupt
  <2>1. (disk' = disk \/ disk' = txn) /\ txn' = disk'
    BY <1>2, EndedIs DEF Ends
  <2> QED
    BY <2>1 DEF CoverInv
<1>3. CASE StartDedupe
  BY <1>3, StartedIs DEF CoverInv
<1>4. ASSUME NEW r \in Reports, FileReport(r)
      PROVE  CoverInv' /\ Covered(disk) \subseteq Covered(disk')
  <2>1. disk' = txn'
    BY <1>4, FiledIs
  <2>2. PICK id \in MoveIds \ live(disk), new \in Row :
          /\ disk'.moves = [disk.moves EXCEPT ![id] = new]
          /\ new.review_state \in {"auto_accepted", "pending_review"}
          /\ new.origin = {r} /\ new.items = {r.item}
          /\ new.superseded_by = 0 /\ new.team = 0
    BY <1>4, FiledIs
  <2>3. \A m \in live(disk) : disk'.moves[m] = disk.moves[m]
    BY <2>2 DEF live, TypeInv, TypeOK, Database
  <2>4. \A m \in canonical_moves(disk) : m \in canonical_moves(disk') /\ disk'.moves[m] = disk.moves[m]
    BY <2>3, CanonicalRows DEF live
  <2>5. Covered(disk) \subseteq Covered(disk')
    BY <2>4, CoverGrows
  <2> QED
    BY <2>1, <2>5 DEF CoverInv
<1>5. ASSUME NEW scope \in DiscardScopes, Discard(scope)
      PROVE  CoverInv' /\ <<discards, erasures>>' # <<discards, erasures>>
  BY <1>5, DiscardedIs DEF CoverInv
<1>6. ASSUME NEW p \in Spellings, Erase(p)
      PROVE  CoverInv' /\ <<discards, erasures>>' # <<discards, erasures>>
  BY <1>6, ErasedAre DEF CoverInv
<1>7. CASE UNCHANGED vars
  BY <1>7 DEF vars, CoverInv
<1> QED
  BY <1>1, <1>2, <1>3, <1>4, <1>5, <1>6, <1>7 DEF Next, Step, Statement

\* No run of the stage takes an item out of the canonical view, whatever stops it.
THEOREM NothingSaidIsLost == Spec => CoverageKept
<1>1. Init => CoverInv
  BY DEF Init, CoverInv
<1>2. TypeInv /\ SoundInv /\ CoverInv /\ [Next]_vars => CoverInv'
  BY CoverStep
<1>3. TypeInv /\ SoundInv /\ CoverInv /\ [Next]_vars =>
        [<<discards, erasures>>' = <<discards, erasures>> => Covered(disk) \subseteq Covered(disk)']_vars
  BY CoverStep
<1> QED
  BY <1>1, <1>2, <1>3, TypeInvariant, SoundInvariant, PTL DEF Spec, CoverageKept

-----------------------------------------------------------------------------
(* Lift-outs.                                                               *)

\* The greedy clustering has an answer for any set of dates below a bound: the
\* earliest date starts a cluster, and so does each one past the window of all starts
\* before it.
LEMMA StartsExist ==
  ASSUME NEW days \in SUBSET Nat, NEW b \in Nat, \A d \in days : d < b
  PROVE  \E s \in SUBSET days : \A d \in days : d \in s <=> \A e \in s : e < d => d - e > WINDOW_DAYS
<1> DEFINE Upto(n) == {d \in days : d < n}
           Fits(d, s) == \A e \in s : e < d => d - e > WINDOW_DAYS
           Answer(s, n) == \A d \in Upto(n) : d \in s <=> Fits(d, s)
           Bad == {n \in Nat : ~ \E s \in SUBSET Upto(n) : Answer(s, n)}
<1>0. \A d \in days : d \in Nat
  OBVIOUS
<1>1. 0 \notin Bad
  <2>1. Upto(0) = {}
    <3>1. \A d \in days : ~(d < 0)
      BY <1>0
    <3> QED
      BY <3>1
  <2>2. {} \in SUBSET Upto(0) /\ Answer({}, 0)
    BY <2>1
  <2> QED
    BY <2>2
<1>2. ASSUME NEW n \in Nat, n \notin Bad PROVE n + 1 \notin Bad
  <2>1. PICK s \in SUBSET Upto(n) : Answer(s, n)
    BY <1>2
  <2> DEFINE t == IF n \in days /\ Fits(n, s) THEN s \cup {n} ELSE s
  <2>2. /\ Upto(n + 1) = Upto(n) \cup (days \cap {n}) /\ s \subseteq t /\ t \subseteq s \cup {n}
        /\ t \in SUBSET Upto(n + 1) /\ n \notin s /\ \A e \in s : e \in Nat /\ e < n
        /\ \A d \in Upto(n) : d \in Nat /\ d < n /\ d # n
    <3>1. \A d \in days : d < n + 1 <=> d < n \/ d = n
      BY <1>0
    <3>2. n \in days => n \in Upto(n + 1)
      BY <3>1
    <3>3. Upto(n + 1) = Upto(n) \cup (days \cap {n})
      BY <3>1
    <3>4. /\ \A d \in Upto(n) : d \in Nat /\ d < n /\ d # n
          /\ \A e \in s : e \in Upto(n)
      BY <1>0
    <3>5. s \subseteq t /\ t \subseteq s \cup (days \cap {n})
      OBVIOUS
    <3> HIDE DEF Upto, t
    <3> QED
      BY <3>3, <3>4, <3>5
  <2>3. \A d \in Upto(n) : Fits(d, t) <=> Fits(d, s)
    BY <2>2
  <2>4. Fits(n, t) <=> Fits(n, s)
    BY <2>2
  <2>5. \A d \in Upto(n) : d \in t <=> Fits(d, t)
    <3> HIDE DEF Fits, Upto
    <3> QED
      BY <2>1, <2>2, <2>3
  <2>6. n \in days => (n \in t <=> Fits(n, t))
    <3> HIDE DEF Fits, Upto
    <3> QED
      BY <2>2, <2>4
  <2>7. Answer(t, n + 1)
    <3> HIDE DEF Fits, Upto, t
    <3> QED
      BY <2>2, <2>5, <2>6
  <2> QED
    BY <2>2, <2>7
<1> HIDE DEF Upto, Answer
<1>3. Bad = {}
  <2> SUFFICES ASSUME Bad # {} PROVE FALSE
    OBVIOUS
  <2>1. Bad \subseteq Nat
    OBVIOUS
  <2> HIDE DEF Bad
  <2>2. PICK k \in Bad : \A j \in Bad : k <= j
    BY <2>1, NatLeast
  <2>3. k \in Nat /\ k # 0 /\ k - 1 \in Nat /\ ~(k <= k - 1)
    BY <1>1, <2>1
  <2>4. k - 1 \notin Bad
    BY <2>2, <2>3
  <2>5. (k - 1) + 1 \notin Bad
    BY <1>2, <2>3, <2>4
  <2> QED
    BY <2>3, <2>5
<1>4. PICK s \in SUBSET Upto(b) : Answer(s, b)
  BY <1>3
<1>5. Upto(b) = days
  BY DEF Upto
<1> QED
  BY <1>4, <1>5 DEF Answer

\* There is a day after every announcement.
LEMMA LastDay ==
  ASSUME NEW db \in Database
  PROVE  \E b \in Nat : \A m \in MoveIds : db.moves[m].announced < b
<1> DEFINE Bad == {n \in Nat : n <= MaxMoves
                               /\ ~ \E b \in Nat : \A m \in 1 .. n : db.moves[m].announced < b}
<1>1. \A m \in MoveIds : db.moves[m].announced \in Nat
  BY FieldTypes
<1>2. 0 \notin Bad /\ Bad \subseteq Nat
  <2>1. \A m \in 1 .. 0 : db.moves[m].announced < 0
    OBVIOUS
  <2> QED
    BY <2>1
<1>3. ASSUME NEW n \in Nat, n \notin Bad, n + 1 <= MaxMoves PROVE n + 1 \notin Bad
  <2>1. MaxMoves \in Nat /\ n <= MaxMoves
    BY <1>3, DedupeAssumption
  <2>2. PICK b \in Nat : \A m \in 1 .. n : db.moves[m].announced < b
    BY <1>3, <2>1
  <2> DEFINE day == db.moves[n + 1].announced
  <2>3. day \in Nat
    BY <1>1, <1>3, <2>1 DEF MoveIds
  <2>4. \A m \in 1 .. n : db.moves[m].announced \in Nat
    BY <1>1, <2>1 DEF MoveIds
  <2> HIDE DEF day
  <2>5. b + day + 1 \in Nat /\ day < b + day + 1
        /\ \A m \in 1 .. n : db.moves[m].announced < b + day + 1
    BY <2>2, <2>3, <2>4
  <2>6. \A m \in 1 .. (n + 1) : m \in 1 .. n \/ m = n + 1
    OBVIOUS
  <2>7. \A m \in 1 .. (n + 1) : db.moves[m].announced < b + day + 1
    BY <2>5, <2>6 DEF day
  <2> QED
    BY <2>5, <2>7
<1> HIDE DEF Bad
<1>4. Bad = {}
  <2> SUFFICES ASSUME Bad # {} PROVE FALSE
    OBVIOUS
  <2>1. PICK k \in Bad : \A j \in Bad : k <= j
    BY <1>2, NatLeast
  <2>2. k \in Nat /\ k # 0 /\ k - 1 \in Nat /\ ~(k <= k - 1) /\ k <= MaxMoves
    BY <1>2 DEF Bad
  <2>3. k - 1 \notin Bad
    BY <2>1, <2>2
  <2>4. (k - 1) + 1 \notin Bad
    BY <1>3, <2>2, <2>3
  <2> QED
    BY <2>2, <2>4
<1>5. MaxMoves \in Nat /\ MaxMoves <= MaxMoves
  BY DedupeAssumption
<1> QED
  BY <1>4, <1>5 DEF Bad, MoveIds

\* Rows of one firm pair inside one window.
Together(db, m, n) ==
  /\ db.moves[m].to_firm = db.moves[n].to_firm
  /\ db.moves[m].from_firm = db.moves[n].from_firm
  /\ DaysApart(db.moves[m], db.moves[n]) <= WINDOW_DAYS

LEMMA CrewIsTogether ==
  ASSUME NEW db \in Database, NEW c \in Crews(db)
  PROVE  \A m, n \in c : Together(db, m, n)
<1>1. PICK k \in Movers(db) : c \in Clusters(db, SamePair(db, k))
  BY DEF Crews
<1> DEFINE group == SamePair(db, k)
           days == {db.moves[m].announced : m \in group}
           Answers(s) == \A d \in days : d \in s <=> \A e \in s : e < d => d - e > WINDOW_DAYS
           starts == CHOOSE s \in SUBSET days : Answers(s)
<1>2. group \subseteq MoveIds
  BY LiveRows DEF SamePair, Movers, canonical_moves
<1>3. days \in SUBSET Nat
  BY <1>2, FieldTypes
<1>4. \E s \in SUBSET days : Answers(s)
  <2>1. PICK b \in Nat : \A m \in MoveIds : db.moves[m].announced < b
    BY LastDay
  <2>2. \A d \in days : d < b
    BY <1>2, <2>1
  <2> HIDE DEF days
  <2> QED
    BY <1>3, <2>1, <2>2, StartsExist
<1>5. starts \in SUBSET days
  <2> HIDE DEF days, Answers
  <2> QED
    BY <1>4
<1>6. PICK d \in starts : c = {m \in group : db.moves[m].announced \in d .. d + WINDOW_DAYS}
  BY <1>1 DEF Clusters
<1>7. d \in Nat
  BY <1>3, <1>5
<1> HIDE DEF starts, days, Answers
<1>8. ASSUME NEW m \in c, NEW n \in c PROVE Together(db, m, n)
  <2>1. /\ m \in group /\ n \in group
        /\ db.moves[m].announced \in d .. d + WINDOW_DAYS
        /\ db.moves[n].announced \in d .. d + WINDOW_DAYS
    BY <1>6
  <2>2. /\ db.moves[m].to_firm = db.moves[n].to_firm
        /\ db.moves[m].from_firm = db.moves[n].from_firm
    BY <2>1 DEF SamePair
  <2>3. DaysApart(db.moves[m], db.moves[n]) <= WINDOW_DAYS
    BY <1>7, <2>1 DEF DaysApart, WINDOW_DAYS
  <2> QED
    BY <2>2, <2>3 DEF Together
<1> QED
  BY <1>8

\* A team is a row of team_moves, and those in it moved together.
LiftOuts(db) ==
  /\ \A m \in MoveIds : db.moves[m].team # 0 => db.moves[m].team \in db.teams
  /\ \A m, n \in MoveIds :
       db.moves[m].team = db.moves[n].team /\ db.moves[m].team # 0 => Together(db, m, n)

\* Before it is staffed a new team has nobody.
TeamInv ==
  /\ LiftOuts(disk) /\ LiftOuts(txn)
  /\ pc = "staff" =>
       /\ merged \in txn.teams
       /\ \A m \in MoveIds : txn.moves[m].team # merged
       /\ \A m, n \in crew : Together(txn, m, n)

\* Rows that leave their team, or stay in it as they were.
LEMMA LiftOutsKept ==
  ASSUME NEW db, NEW new, LiftOuts(db),
         \A m \in MoveIds :
           \/ new.moves[m].team = 0
           \/ /\ new.moves[m].team = db.moves[m].team /\ new.moves[m].team \in new.teams
              /\ new.moves[m].to_firm = db.moves[m].to_firm
              /\ new.moves[m].from_firm = db.moves[m].from_firm
              /\ new.moves[m].announced = db.moves[m].announced
  PROVE  LiftOuts(new)
<1>1. ASSUME NEW m \in MoveIds, NEW n \in MoveIds,
             new.moves[m].team = new.moves[n].team, new.moves[m].team # 0
      PROVE  Together(new, m, n)
  <2>1. Together(db, m, n)
    BY <1>1 DEF LiftOuts
  <2> QED
    BY <1>1, <2>1 DEF Together, DaysApart
<1> QED
  BY <1>1 DEF LiftOuts

LEMMA LiftOutsSame ==
  ASSUME NEW db, NEW new, LiftOuts(db), db.teams \subseteq new.teams,
         \A m \in MoveIds :
           \/ new.moves[m].team = 0
           \/ /\ new.moves[m].team = db.moves[m].team
              /\ new.moves[m].to_firm = db.moves[m].to_firm
              /\ new.moves[m].from_firm = db.moves[m].from_firm
              /\ new.moves[m].announced = db.moves[m].announced
  PROVE  LiftOuts(new)
<1>1. \A m \in MoveIds : new.moves[m].team = db.moves[m].team =>
                           new.moves[m].team = 0 \/ new.moves[m].team \in new.teams
  BY DEF LiftOuts
<1> QED
  BY <1>1, LiftOutsKept

LEMMA StaffLiftsOut ==
  ASSUME TypeInv, TeamInv, StaffTeam
  PROVE  LiftOuts(txn')
<1>1. /\ pc = "staff" /\ txn'.teams = txn.teams
      /\ \A m \in MoveIds : txn'.moves[m] = IF m \in crew THEN [txn.moves[m] EXCEPT !.team = merged]
                                            ELSE txn.moves[m]
  BY StaffedIs
<1>2. /\ merged \in txn.teams /\ LiftOuts(txn)
      /\ \A m \in MoveIds : txn.moves[m].team # merged
      /\ \A m, n \in crew : Together(txn, m, n)
  BY <1>1 DEF TeamInv
<1>3. \A m \in MoveIds : txn.moves[m] \in Row
  BY FieldTypes DEF TypeInv, TypeOK
<1>4. \A m \in MoveIds :
        /\ txn'.moves[m].team = IF m \in crew THEN merged ELSE txn.moves[m].team
        /\ txn'.moves[m].to_firm = txn.moves[m].to_firm
        /\ txn'.moves[m].from_firm = txn.moves[m].from_firm
        /\ txn'.moves[m].announced = txn.moves[m].announced
  BY <1>1, <1>3 DEF Row
<1>5. \A m, n \in MoveIds : Together(txn, m, n) => Together(txn', m, n)
  BY <1>4 DEF Together, DaysApart
<1>6. ASSUME NEW m \in MoveIds, NEW n \in MoveIds,
             txn'.moves[m].team = txn'.moves[n].team, txn'.moves[m].team # 0
      PROVE  Together(txn', m, n)
  <2>1. m \in crew <=> n \in crew
    BY <1>2, <1>4, <1>6
  <2>2. Together(txn, m, n)
    BY <1>2, <1>4, <1>6, <2>1 DEF LiftOuts
  <2> QED
    BY <1>5, <2>2
<1> QED
  BY <1>1, <1>2, <1>4, <1>6 DEF LiftOuts

LEMMA TeamStep ==
  ASSUME TypeInv, TeamInv, [Next]_vars
  PROVE  TeamInv'
<1>0. /\ disk \in Database /\ txn \in Database
      /\ \A m \in MoveIds : disk.moves[m] \in Row /\ txn.moves[m] \in Row
      /\ LiftOuts(disk) /\ LiftOuts(txn)
  BY FieldTypes DEF TypeInv, TypeOK, TeamInv
<1>1. CASE InsertMerged
  <2>1. disk' = disk /\ pc' = "source" /\ txn'.teams = txn.teams
    BY <1>1, InsertedIs DEF Beside
  <2>2. PICK c \in plan, r \in Row :
          /\ plan' = plan \ {c} /\ Members' = c /\ ordered'[1] \in c
          /\ txn'.moves = [txn.moves EXCEPT ![merged'] = r]
          /\ r.review_state \in {"pending_review", "auto_accepted"}
          /\ r.origin = {} /\ r.items = {} /\ r.superseded_by = 0 /\ r.team = 0
          /\ r.person = winner'.person /\ r.to_firm = winner'.to_firm
          /\ \A m \in c : r.announced <= disk.moves[m].announced
    BY <1>1, InsertedIs
  <2>3. \A m \in MoveIds : txn'.moves[m] = txn.moves[m] \/ txn'.moves[m] = r
    BY <1>0, <2>2 DEF Database
  <2>4. LiftOuts(txn')
    BY <1>0, <2>1, <2>2, <2>3, LiftOutsSame
  <2> QED
    BY <1>0, <2>1, <2>4 DEF TeamInv
<1>2. CASE CopySources \/ CopyGroups \/ LearnSpellings
  <2>1. disk' = disk /\ pc' # "staff" /\ txn'.teams = txn.teams
    BY <1>2, CopiedIs DEF Beside
  <2>2. PICK r \in Row :
          /\ txn'.moves = [txn.moves EXCEPT ![merged] = r]
          /\ r.review_state = txn.moves[merged].review_state
          /\ r.origin = txn.moves[merged].origin /\ r.person = txn.moves[merged].person
          /\ r.to_firm = txn.moves[merged].to_firm /\ r.from_firm = txn.moves[merged].from_firm
          /\ r.announced = txn.moves[merged].announced
          /\ r.superseded_by = txn.moves[merged].superseded_by
          /\ r.team = txn.moves[merged].team
          /\ r.items = IF CopySources THEN UNION {disk.moves[m].items : m \in Members}
                       ELSE txn.moves[merged].items
    BY <1>2, CopiedIs
  <2>3. \A m \in MoveIds : txn'.moves[m] = IF m = merged THEN r ELSE txn.moves[m]
    BY <1>0, <2>2 DEF Database
  <2>4. \A m \in MoveIds :
           /\ txn'.moves[m].team = txn.moves[m].team
           /\ txn'.moves[m].to_firm = txn.moves[m].to_firm
           /\ txn'.moves[m].from_firm = txn.moves[m].from_firm
           /\ txn'.moves[m].announced = txn.moves[m].announced
    BY <2>2, <2>3
  <2>5. LiftOuts(txn')
    BY <1>0, <2>1, <2>4, LiftOutsSame
  <2> QED
    BY <1>0, <2>1, <2>5 DEF TeamInv
<1>3. CASE Supersede
  <2>1. /\ disk' = disk /\ pc' = "merge" /\ txn'.teams = txn.teams
        /\ \A m \in MoveIds :
             txn'.moves[m] = IF m \in Members
                             THEN [txn.moves[m] EXCEPT !.superseded_by = merged,
                                                       !.review_state = "superseded"]
                             ELSE txn.moves[m]
    BY <1>3, SupersededIs DEF Beside
  <2>2. \A m \in MoveIds :
           /\ txn'.moves[m].team = txn.moves[m].team
           /\ txn'.moves[m].to_firm = txn.moves[m].to_firm
           /\ txn'.moves[m].from_firm = txn.moves[m].from_firm
           /\ txn'.moves[m].announced = txn.moves[m].announced
    BY <1>0, <2>1 DEF Row
  <2>3. LiftOuts(txn')
    BY <1>0, <2>1, <2>2, LiftOutsSame
  <2> QED
    BY <1>0, <2>1, <2>3 DEF TeamInv
<1>4. CASE QueueQuestion
  <2>1. disk' = disk /\ txn'.moves = txn.moves /\ txn'.teams = txn.teams /\ pc' = "merge"
    BY <1>4, OpenedIs DEF Beside
  <2>2. LiftOuts(txn')
    BY <1>0, <2>1 DEF LiftOuts, Together
  <2> QED
    BY <1>0, <2>1, <2>2 DEF TeamInv
<1>5. CASE InsertTeam
  <2>1. /\ disk' = disk /\ txn'.moves = txn.moves
        /\ merged' \in TeamIds \ txn.teams /\ txn'.teams = txn.teams \cup {merged'}
        /\ crew' \in Crews(txn)
    BY <1>5, OpenedIs DEF Beside
  <2>2. LiftOuts(txn')
    BY <1>0, <2>1 DEF LiftOuts, Together
  <2>3. \A m \in MoveIds : txn'.moves[m].team # merged'
    <3>1. merged' # 0
      BY <2>1 DEF TeamIds
    <3> QED
      BY <1>0, <2>1, <3>1 DEF LiftOuts
  <2>4. \A m, n \in crew' : Together(txn', m, n)
    BY <1>0, <2>1, CrewIsTogether DEF Together
  <2> QED
    BY <1>0, <2>1, <2>2, <2>3, <2>4 DEF TeamInv
<1>6. CASE StaffTeam
  <2>1. disk' = disk /\ pc' = "merge"
    BY <1>6, StaffedIs DEF Beside
  <2> QED
    BY <1>0, <1>6, <2>1, StaffLiftsOut DEF TeamInv
<1>7. CASE RefuseSpellings \/ FinishDedupe \/ Kill \/ Interrupt
  BY <1>0, <1>7, EndedIs DEF Ends, TeamInv
<1>8. CASE StartDedupe
  BY <1>0, <1>8, StartedIs DEF TeamInv
<1>9. ASSUME NEW r \in Reports, FileReport(r) PROVE TeamInv'
  <2>1. disk' = txn' /\ pc' = "idle" /\ disk'.teams = disk.teams
    BY <1>9, FiledIs
  <2>2. PICK id \in MoveIds \ live(disk), new \in Row :
          /\ disk'.moves = [disk.moves EXCEPT ![id] = new]
          /\ new.review_state \in {"auto_accepted", "pending_review"}
          /\ new.origin = {r} /\ new.items = {r.item}
          /\ new.superseded_by = 0 /\ new.team = 0
    BY <1>9, FiledIs
  <2>3. \A m \in MoveIds : disk'.moves[m] = disk.moves[m] \/ disk'.moves[m] = new
    BY <1>0, <2>2 DEF Database
  <2>4. LiftOuts(disk')
    BY <1>0, <2>1, <2>2, <2>3, LiftOutsSame
  <2> QED
    BY <2>1, <2>4 DEF TeamInv
<1>10. ASSUME NEW scope \in DiscardScopes, Discard(scope) PROVE TeamInv'
  <2> DEFINE gone == ReadFrom(scope)
  <2>1. /\ disk' = txn' /\ pc' = "idle"
        /\ \A m \in MoveIds :
             LET r == IF m \in gone THEN Absent ELSE disk.moves[m]
             IN \/ disk'.moves[m] = r /\ r.team \in disk'.teams
                \/ disk'.moves[m] = [r EXCEPT !.team = 0]
    BY <1>10, DiscardedIs
  <2> HIDE DEF gone
  <2>2. ASSUME NEW m \in MoveIds
        PROVE  \/ disk'.moves[m].team = 0
               \/ /\ disk'.moves[m].team = disk.moves[m].team /\ disk'.moves[m].team \in disk'.teams
                  /\ disk'.moves[m].to_firm = disk.moves[m].to_firm
                  /\ disk'.moves[m].from_firm = disk.moves[m].from_firm
                  /\ disk'.moves[m].announced = disk.moves[m].announced
    <3>1. CASE m \in gone
      BY <2>1, <3>1, AbsentIs
    <3>2. CASE m \notin gone
      BY <1>0, <2>1, <3>2 DEF Row
    <3> QED
      BY <3>1, <3>2
  <2>3. LiftOuts(disk')
    BY <1>0, <2>2, LiftOutsKept
  <2> QED
    BY <2>1, <2>3 DEF TeamInv
<1>11. ASSUME NEW p \in Spellings, Erase(p) PROVE TeamInv'
  <2> DEFINE gone == RowsOf(p)
  <2>1. /\ disk' = txn' /\ pc' = "idle" /\ disk'.teams = disk.teams
        /\ \A m \in MoveIds :
             disk'.moves[m] =
               IF m \in gone THEN Absent
               ELSE IF disk.moves[m].superseded_by \in gone
                    THEN [disk.moves[m] EXCEPT !.superseded_by = 0, !.review_state = "rejected"]
                    ELSE disk.moves[m]
    BY <1>11, ErasedAre
  <2> HIDE DEF gone
  <2>2. ASSUME NEW m \in MoveIds
        PROVE  \/ disk'.moves[m].team = 0
               \/ /\ disk'.moves[m].team = disk.moves[m].team
                  /\ disk'.moves[m].to_firm = disk.moves[m].to_firm
                  /\ disk'.moves[m].from_firm = disk.moves[m].from_firm
                  /\ disk'.moves[m].announced = disk.moves[m].announced
    <3>1. CASE m \in gone
      BY <2>1, <3>1, AbsentIs
    <3>2. CASE m \notin gone
      <4>1. \A r \in Row : LET new == [r EXCEPT !.superseded_by = 0, !.review_state = "rejected"]
                           IN /\ new.team = r.team /\ new.to_firm = r.to_firm
                              /\ new.from_firm = r.from_firm /\ new.announced = r.announced
        BY DEF Row
      <4> DEFINE old == disk.moves[m]
                 new == disk'.moves[m]
      <4>2. old \in Row /\ \/ new = old
                           \/ new = [old EXCEPT !.superseded_by = 0, !.review_state = "rejected"]
        BY <1>0, <2>1, <3>2
      <4> HIDE DEF old, new
      <4>3. /\ new.team = old.team /\ new.to_firm = old.to_firm
            /\ new.from_firm = old.from_firm /\ new.announced = old.announced
        BY <4>1, <4>2
      <4> QED
        BY <4>3 DEF old, new
    <3> QED
      BY <3>1, <3>2
  <2>3. LiftOuts(disk')
    BY <1>0, <2>1, <2>2, LiftOutsSame
  <2> QED
    BY <2>1, <2>3 DEF TeamInv
<1>12. CASE UNCHANGED vars
  BY <1>12 DEF vars, local, TeamInv
<1> QED
  BY <1>1, <1>2, <1>3, <1>4, <1>5, <1>6, <1>7, <1>8, <1>9, <1>10, <1>11, <1>12 DEF Next, Step

\* Everyone in a team left one firm for another inside one window: greedy clustering
\* finds it so for any dates, and no later merge, discard or erasure undoes it.
THEOREM TeamsHoldTogether == Spec => []TeamsAreLiftOuts
<1>1. Init => TeamInv
  BY AbsentIs DEF Init, TeamInv, LiftOuts, EmptyDatabase
<1>2. TypeInv /\ TeamInv /\ [Next]_vars => TeamInv'
  BY TeamStep
<1>3. TeamInv => TeamsAreLiftOuts
  BY LiveRows DEF TeamInv, LiftOuts, Together, TeamsAreLiftOuts
<1> QED
  BY <1>1, <1>2, <1>3, TypeInvariant, PTL DEF Spec

-----------------------------------------------------------------------------
(* One item, one canonical row.                                             *)

Once(db, i) == \E r \in db.filed : r.item = i
Twice(db, i) == \E r, s \in db.filed : r # s /\ r.item = i /\ s.item = i

Told(db) == \A m \in live(db) : \A i \in db.moves[m].items : Once(db, i)

Apart(db, rows) ==
  \A m, n \in rows : m # n => \A i \in db.moves[m].items \cap db.moves[n].items : Twice(db, i)

\* The canonical rows of the transaction, without the one that repeats the component
\* in hand.
InView == IF InHand THEN canonical_moves(txn) \ {merged} ELSE canonical_moves(txn)

\* What is left to merge, in hand or planned, is canonical until it is superseded,
\* and nothing in hand is planned as well.
OnceInv ==
  /\ IsFiniteSet(disk.filed) /\ txn.filed = disk.filed
  /\ Told(disk) /\ Told(txn)
  /\ Apart(disk, canonical_moves(disk)) /\ Apart(txn, InView)
  /\ \A c \in plan : c \subseteq canonical_moves(txn)
  /\ InHand => Members \subseteq canonical_moves(txn) /\ \A c \in plan : Members \cap c = {}

\* Fewer rows, or rows that say as much about no more than the same items.
LEMMA ApartKept ==
  ASSUME NEW db, NEW new, NEW rows, NEW newrows, Apart(db, rows), newrows \subseteq rows,
         \A m \in newrows : new.moves[m].items = db.moves[m].items,
         \A m \in newrows : \A i \in db.moves[m].items : Twice(db, i) => Twice(new, i)
  PROVE  Apart(new, newrows)
BY DEF Apart

LEMMA ToldKept ==
  ASSUME NEW db, NEW new, Told(db), live(new) \subseteq live(db),
         \A m \in live(new) : new.moves[m].items = db.moves[m].items,
         \A m \in live(new) : \A i \in db.moves[m].items : Once(db, i) => Once(new, i)
  PROVE  Told(new)
BY DEF Told

LEMMA CanonicalSame ==
  ASSUME NEW db, NEW new,
         \A m \in MoveIds : /\ new.moves[m].review_state = db.moves[m].review_state
                            /\ new.moves[m].superseded_by = db.moves[m].superseded_by
  PROVE  canonical_moves(new) = canonical_moves(db) /\ live(new) = live(db)
BY DEF canonical_moves, live

\* The row a component is to become is not in view yet.
LEMMA ViewInserted ==
  ASSUME TypeInv, InsertMerged
  PROVE  /\ InView' = canonical_moves(txn) /\ InView = canonical_moves(txn)
         /\ canonical_moves(txn') = canonical_moves(txn) \cup {merged'}
<1>0. txn.moves \in [MoveIds -> Row] /\ ~InHand
  BY DEF TypeInv, TypeOK, Database, InsertMerged, InHand
<1>1. merged' \in MoveIds \ live(txn) /\ InHand'
  BY InsertedIs DEF Beside, InHand
<1>2. PICK r \in Row : /\ txn'.moves = [txn.moves EXCEPT ![merged'] = r]
                       /\ r.review_state \in {"pending_review", "auto_accepted"}
                       /\ r.superseded_by = 0
  BY InsertedIs
<1>3. /\ txn'.moves[merged'] = r
      /\ \A m \in MoveIds : m # merged' => txn'.moves[m] = txn.moves[m]
  BY <1>0, <1>1, <1>2
<1>4. merged' \notin canonical_moves(txn) /\ merged' \in MoveIds
  BY <1>1 DEF canonical_moves
<1>5. merged' \in canonical_moves(txn')
  BY <1>2, <1>3, <1>4, CanonicalRows
<1>6. \A m \in MoveIds : m # merged' => (m \in canonical_moves(txn') <=> m \in canonical_moves(txn))
  BY <1>3, CanonicalRows
<1>7. canonical_moves(txn') = canonical_moves(txn) \cup {merged'}
  BY <1>4, <1>5, <1>6, CanonicalRows
<1> QED
  BY <1>0, <1>1, <1>4, <1>7 DEF InView

LEMMA OnceInserted == ASSUME TypeInv, OnceInv, InsertMerged PROVE OnceInv'
<1>0. /\ txn \in Database /\ txn.moves \in [MoveIds -> Row] /\ ~InHand
      /\ \A c, d \in plan : c # d => c \cap d = {}
  BY DEF TypeInv, TypeOK, Database, Shape, PlanInv, InsertMerged, InHand
<1>1. /\ disk' = disk /\ pc' = "source" /\ txn'.filed = txn.filed
      /\ merged' \in MoveIds \ live(txn) /\ InHand'
  BY InsertedIs DEF Beside, InHand
<1>2. PICK c \in plan, r \in Row :
        /\ plan' = plan \ {c} /\ Members' = c /\ ordered'[1] \in c
        /\ txn'.moves = [txn.moves EXCEPT ![merged'] = r]
        /\ r.review_state \in {"pending_review", "auto_accepted"}
        /\ r.origin = {} /\ r.items = {} /\ r.superseded_by = 0 /\ r.team = 0
        /\ r.person = winner'.person /\ r.to_firm = winner'.to_firm
        /\ \A m \in c : r.announced <= disk.moves[m].announced
  BY InsertedIs
<1>3. /\ txn'.moves[merged'] = r
      /\ \A m \in MoveIds : m # merged' => txn'.moves[m] = txn.moves[m]
  BY <1>0, <1>1, <1>2
<1>5. /\ InView' = InView /\ InView = canonical_moves(txn)
      /\ canonical_moves(txn') = canonical_moves(txn) \cup {merged'} /\ merged' \notin canonical_moves(txn)
  BY <1>1, ViewInserted DEF canonical_moves
<1>6. \A i : /\ Twice(txn, i) => Twice(txn', i)
             /\ Once(txn, i) => Once(txn', i)
  BY <1>1 DEF Twice, Once
<1>7. Apart(txn', InView')
  <2>1. \A m \in InView' : txn'.moves[m].items = txn.moves[m].items
    BY <1>1, <1>3, <1>5, CanonicalRows
  <2> QED
    BY <1>5, <1>6, <2>1, ApartKept DEF OnceInv
<1>8. Told(txn')
  <2>1. \A m \in live(txn') : m \in MoveIds /\ (m = merged' \/ (m \in live(txn) /\ txn'.moves[m] = txn.moves[m]))
    BY <1>3 DEF live
  <2> QED
    BY <1>2, <1>3, <1>6, <2>1 DEF Told, OnceInv
<1>9. /\ \A d \in plan' : d \subseteq canonical_moves(txn')
      /\ Members' \subseteq canonical_moves(txn') /\ \A d \in plan' : Members' \cap d = {}
  BY <1>0, <1>2, <1>5 DEF OnceInv
<1>10. /\ Apart(disk', canonical_moves(disk')) /\ Told(disk') /\ txn'.filed = disk'.filed
       /\ IsFiniteSet(disk'.filed)
  BY <1>1 DEF OnceInv
<1> QED
  BY <1>1, <1>7, <1>8, <1>9, <1>10 DEF OnceInv

LEMMA OnceCopied ==
  ASSUME TypeInv, HandInv, OnceInv, CopySources \/ CopyGroups \/ LearnSpellings
  PROVE  OnceInv'
<1>0. txn \in Database /\ txn.moves \in [MoveIds -> Row]
  BY DEF TypeInv, TypeOK, Database
<1>1. /\ disk' = disk /\ ordered' = ordered /\ merged' = merged /\ plan' = plan
      /\ txn'.filed = txn.filed /\ InHand /\ InHand' /\ (pc = "source" <=> CopySources)
      /\ merged \in MoveIds /\ Members \subseteq live(disk)
  BY CopiedIs, MembersAre DEF Beside, InHand
<1>2. PICK r \in Row :
        /\ txn'.moves = [txn.moves EXCEPT ![merged] = r]
        /\ r.review_state = txn.moves[merged].review_state
        /\ r.origin = txn.moves[merged].origin /\ r.person = txn.moves[merged].person
        /\ r.to_firm = txn.moves[merged].to_firm /\ r.from_firm = txn.moves[merged].from_firm
        /\ r.announced = txn.moves[merged].announced
        /\ r.superseded_by = txn.moves[merged].superseded_by
        /\ r.team = txn.moves[merged].team
        /\ r.items = IF CopySources THEN UNION {disk.moves[m].items : m \in Members}
                     ELSE txn.moves[merged].items
  BY CopiedIs
<1>3. txn'.moves[merged] = r /\ \A m \in MoveIds : m # merged => txn'.moves[m] = txn.moves[m]
  BY <1>0, <1>1, <1>2
<1>4. canonical_moves(txn') = canonical_moves(txn)
  <2>1. \A m \in MoveIds : /\ txn'.moves[m].review_state = txn.moves[m].review_state
                           /\ txn'.moves[m].superseded_by = txn.moves[m].superseded_by
    BY <1>2, <1>3
  <2> QED
    BY <2>1, CanonicalSame
<1>5. Members' = Members /\ InView' = InView /\ merged \notin InView
  BY <1>1, <1>4 DEF Members, InView
<1>6. \A i : /\ Twice(txn, i) => Twice(txn', i)
             /\ Once(txn, i) => Once(txn', i)
             /\ Once(disk, i) => Once(txn', i)
  BY <1>1 DEF Twice, Once, OnceInv
<1>7. Apart(txn', InView')
  <2>1. \A m \in InView' : txn'.moves[m].items = txn.moves[m].items
    BY <1>3, <1>5, CanonicalRows DEF InView
  <2> QED
    BY <1>5, <1>6, <2>1, ApartKept DEF OnceInv
<1>8. Told(txn')
  <2> SUFFICES ASSUME NEW m \in live(txn'), NEW i \in txn'.moves[m].items PROVE Once(txn', i)
    BY DEF Told
  <2>1. m \in MoveIds
    BY DEF live
  <2>2. CASE m # merged
    BY <1>3, <1>6, <2>1, <2>2 DEF Told, OnceInv, live
  <2>3. CASE m = merged /\ CopySources
    <3>1. PICK k \in Members : i \in disk.moves[k].items
      BY <1>2, <1>3, <2>3
    <3> QED
      BY <1>1, <1>6, <3>1 DEF Told, OnceInv
  <2>4. CASE m = merged /\ ~CopySources
    BY <1>2, <1>3, <1>6, <2>1, <2>4 DEF Told, OnceInv, live
  <2> QED
    BY <2>2, <2>3, <2>4
<1>10. /\ Apart(disk', canonical_moves(disk')) /\ Told(disk') /\ txn'.filed = disk'.filed
       /\ IsFiniteSet(disk'.filed)
  BY <1>1 DEF OnceInv
<1>11. /\ \A c \in plan' : c \subseteq canonical_moves(txn')
       /\ Members' \subseteq canonical_moves(txn') /\ \A c \in plan' : Members' \cap c = {}
  BY <1>1, <1>4, <1>5 DEF OnceInv
<1> QED
  BY <1>7, <1>8, <1>10, <1>11 DEF OnceInv

\* The merged row takes the place of its component in every pair.
LEMMA OnceSuperseded == ASSUME TypeInv, HandInv, OnceInv, Supersede PROVE OnceInv'
<1>0. \A m \in MoveIds : txn.moves[m] \in Row
  BY FieldTypes DEF TypeInv, TypeOK
<1>1. /\ disk' = disk /\ plan' = plan /\ txn'.filed = txn.filed /\ InHand /\ ~InHand'
      /\ pc = "supersede"
      /\ \A m \in MoveIds :
           txn'.moves[m] = IF m \in Members
                           THEN [txn.moves[m] EXCEPT !.superseded_by = merged,
                                                     !.review_state = "superseded"]
                           ELSE txn.moves[m]
  BY SupersededIs DEF Beside, InHand, Supersede
<1>2. merged \in MoveIds \ live(disk) /\ Members \subseteq live(disk) /\ merged # 0
  BY <1>1, MembersAre, Ids
<1>3. \A m \in MoveIds :
        /\ txn'.moves[m].items = txn.moves[m].items
        /\ txn'.moves[m].review_state = IF m \in Members THEN "superseded" ELSE txn.moves[m].review_state
        /\ txn'.moves[m].superseded_by = IF m \in Members THEN merged ELSE txn.moves[m].superseded_by
  BY <1>0, <1>1 DEF Row
<1>4. canonical_moves(txn') = canonical_moves(txn) \ Members
  BY <1>2, <1>3, CanonicalRows
<1>5. InView' = canonical_moves(txn') /\ InView = canonical_moves(txn) \ {merged}
  BY <1>1 DEF InView
<1>6. \A i : /\ Twice(txn, i) => Twice(txn', i)
             /\ Once(txn, i) => Once(txn', i)
  BY <1>1 DEF Twice, Once, OnceInv
<1>7. ASSUME NEW n \in InView', n # merged,
             NEW i \in txn.moves[merged].items \cap txn.moves[n].items
      PROVE  Twice(txn, i)
  <2>0. txn.moves[merged].items = UNION {disk.moves[m].items : m \in Members}
    BY <1>1 DEF HandInv
  <2>1. PICK k \in Members : i \in disk.moves[k].items
    BY <2>0
  <2>2. i \in txn.moves[k].items /\ k # merged /\ k \in canonical_moves(txn)
    BY <1>1, <1>2, <2>1, FoundIs DEF OnceInv
  <2>3. n \in InView /\ k \in InView /\ k # n
    BY <1>4, <1>5, <1>7, <2>1, <2>2
  <2> QED
    BY <1>7, <2>2, <2>3 DEF OnceInv, Apart
<1>8. Apart(txn', InView')
  <2> SUFFICES ASSUME NEW m \in InView', NEW n \in InView', m # n,
                      NEW i \in txn'.moves[m].items \cap txn'.moves[n].items
               PROVE  Twice(txn, i)
    BY <1>6 DEF Apart
  <2>1. m \in MoveIds /\ n \in MoveIds /\ i \in txn.moves[m].items \cap txn.moves[n].items
    BY <1>3, <1>5, CanonicalRows
  <2>2. CASE m = merged
    BY <1>7, <2>1, <2>2
  <2>3. CASE n = merged
    BY <1>7, <2>1, <2>3
  <2>4. CASE m # merged /\ n # merged
    <3>1. m \in InView /\ n \in InView
      BY <1>4, <1>5, <2>4
    <3> QED
      BY <2>1, <3>1 DEF OnceInv, Apart
  <2> QED
    BY <2>2, <2>3, <2>4
<1>9. Told(txn')
  <2>1. \A m \in MoveIds : m \in live(txn') => m \in live(txn)
    BY <1>2, <1>3, FoundIs DEF live
  <2>2. live(txn') \subseteq live(txn) /\ \A m \in live(txn') : txn'.moves[m].items = txn.moves[m].items
    BY <1>3, <2>1, LiveRows
  <2> QED
    BY <1>6, <2>2, ToldKept DEF OnceInv
<1>10. /\ Apart(disk', canonical_moves(disk')) /\ Told(disk') /\ txn'.filed = disk'.filed
       /\ IsFiniteSet(disk'.filed)
  BY <1>1 DEF OnceInv
<1>11. \A c \in plan' : c \subseteq canonical_moves(txn')
  BY <1>1, <1>4 DEF OnceInv
<1> QED
  BY <1>1, <1>8, <1>9, <1>10, <1>11 DEF OnceInv

LEMMA OnceFiled == ASSUME TypeInv, OnceInv, NEW r \in Reports, FileReport(r) PROVE OnceInv'
<1>0. disk.moves \in [MoveIds -> Row]
  BY DEF TypeInv, TypeOK, Database
<1>1. /\ disk' = txn' /\ ~InHand' /\ plan' = {} /\ r \notin disk.filed
      /\ disk'.filed = disk.filed \cup {r}
  BY FiledIs DEF InHand
<1>2. PICK id \in MoveIds \ live(disk), new \in Row :
        /\ disk'.moves = [disk.moves EXCEPT ![id] = new]
        /\ new.review_state \in {"auto_accepted", "pending_review"}
        /\ new.origin = {r} /\ new.items = {r.item}
        /\ new.superseded_by = 0 /\ new.team = 0
  BY FiledIs
<1>3. disk'.moves[id] = new /\ \A m \in MoveIds : m # id => disk'.moves[m] = disk.moves[m]
  BY <1>0, <1>2
<1>4. \A m \in canonical_moves(disk') : m = id \/ (m \in canonical_moves(disk) /\ disk'.moves[m] = disk.moves[m])
  BY <1>3, CanonicalRows
<1>5. \A i : /\ Twice(disk, i) => Twice(disk', i)
             /\ Once(disk, i) => Once(disk', i)
             /\ i = r.item => Once(disk', i)
             /\ i = r.item /\ Once(disk, i) => Twice(disk', i)
  BY <1>1 DEF Twice, Once
<1>6. Told(disk')
  <2>1. \A m \in live(disk') : m = id \/ (m \in live(disk) /\ disk'.moves[m] = disk.moves[m])
    BY <1>3 DEF live
  <2> QED
    BY <1>2, <1>3, <1>5, <2>1 DEF Told, OnceInv
<1>7. Apart(disk', canonical_moves(disk'))
  <2> SUFFICES ASSUME NEW m \in canonical_moves(disk'), NEW n \in canonical_moves(disk'), m # n,
                      NEW i \in disk'.moves[m].items \cap disk'.moves[n].items
               PROVE  Twice(disk', i)
    BY DEF Apart
  <2>0. canonical_moves(disk) \subseteq live(disk)
    BY DEF canonical_moves
  <2>1. CASE m = id
    BY <1>2, <1>3, <1>4, <1>5, <2>0, <2>1 DEF OnceInv, Told
  <2>2. CASE n = id
    BY <1>2, <1>3, <1>4, <1>5, <2>0, <2>2 DEF OnceInv, Told
  <2>3. CASE m # id /\ n # id
    BY <1>4, <1>5, <2>3 DEF OnceInv, Apart
  <2> QED
    BY <2>1, <2>2, <2>3
<1>8. IsFiniteSet(disk'.filed)
  BY <1>1, FS_AddElement DEF OnceInv
<1>9. InView' = canonical_moves(disk')
  BY <1>1 DEF InView
<1> QED
  BY <1>1, <1>6, <1>7, <1>8, <1>9 DEF OnceInv

LEMMA OnceDiscarded ==
  ASSUME TypeInv, OnceInv, NEW scope \in DiscardScopes, Discard(scope)
  PROVE  OnceInv'
<1> DEFINE gone == ReadFrom(scope)
<1>0. \A m \in MoveIds : disk.moves[m] \in Row
  BY FieldTypes DEF TypeInv, TypeOK
<1>1. /\ disk' = txn' /\ ~InHand' /\ plan' = {}
      /\ disk'.filed = {r \in disk.filed : SourceOf[r.item] \notin scope}
      /\ \A m \in MoveIds :
            LET r == IF m \in gone THEN Absent ELSE disk.moves[m]
            IN disk'.moves[m] = r \/ disk'.moves[m] = [r EXCEPT !.team = 0]
  BY DiscardedIs DEF InHand
<1>2. \A m \in live(disk) \ gone : \A i \in disk.moves[m].items : SourceOf[i] \notin scope
  BY DEF ReadFrom
<1> HIDE DEF gone
<1>3. \A m \in MoveIds \ gone :
        /\ disk'.moves[m].review_state = disk.moves[m].review_state
        /\ disk'.moves[m].superseded_by = disk.moves[m].superseded_by
        /\ disk'.moves[m].items = disk.moves[m].items
  <2> TAKE m \in MoveIds \ gone
  <2> DEFINE old == disk.moves[m]
             new == disk'.moves[m]
  <2>1. old \in Row /\ (new = old \/ new = [old EXCEPT !.team = 0])
    BY <1>0, <1>1
  <2> HIDE DEF old, new
  <2>2. /\ new.review_state = old.review_state /\ new.superseded_by = old.superseded_by
        /\ new.items = old.items
    BY <2>1 DEF Row
  <2> QED
    BY <2>2 DEF old, new
<1>4. \A m \in MoveIds : m \in gone => disk'.moves[m].review_state = "absent"
  BY <1>1, AbsentIs
<1>5. live(disk') \subseteq live(disk) \ gone
  BY <1>3, <1>4 DEF live
<1>6. canonical_moves(disk') \subseteq canonical_moves(disk) \ gone
  BY <1>3, <1>4, CanonicalRows
<1>7. \A i : SourceOf[i] \notin scope => /\ Twice(disk, i) => Twice(disk', i)
                                         /\ Once(disk, i) => Once(disk', i)
  BY <1>1 DEF Twice, Once
<1>8. Told(disk')
  <2>1. \A m \in live(disk') : disk'.moves[m].items = disk.moves[m].items
    BY <1>3, <1>5, LiveRows
  <2> QED
    BY <1>2, <1>5, <1>7, <2>1, ToldKept DEF OnceInv
<1>9. Apart(disk', canonical_moves(disk'))
  <2>1. \A m \in canonical_moves(disk') : m \in live(disk) \ gone /\ m \in MoveIds
    BY <1>6, LiveRows DEF canonical_moves
  <2>2. \A m \in canonical_moves(disk') : disk'.moves[m].items = disk.moves[m].items
    BY <1>3, <2>1
  <2>3. \A m \in canonical_moves(disk') : \A i \in disk.moves[m].items : Twice(disk, i) => Twice(disk', i)
    BY <1>2, <1>7, <2>1
  <2> QED
    BY <1>6, <2>2, <2>3, ApartKept DEF OnceInv
<1>10. IsFiniteSet(disk'.filed)
  BY <1>1, FS_Subset DEF OnceInv
<1>11. InView' = canonical_moves(disk')
  BY <1>1 DEF InView
<1> QED
  BY <1>1, <1>8, <1>9, <1>10, <1>11 DEF OnceInv

LEMMA OnceErased ==
  ASSUME TypeInv, BlankInv, OnceInv, NEW p \in Spellings, Erase(p)
  PROVE  OnceInv'
<1> DEFINE gone == RowsOf(p)
<1>0. \A m \in MoveIds : disk.moves[m] \in Row
  BY FieldTypes DEF TypeInv, TypeOK
<1>1. /\ disk' = txn' /\ ~InHand' /\ plan' = {} /\ disk'.filed = disk.filed /\ 0 \notin gone
      /\ \A m \in MoveIds :
           disk'.moves[m] =
             IF m \in gone THEN Absent
             ELSE IF disk.moves[m].superseded_by \in gone
                  THEN [disk.moves[m] EXCEPT !.superseded_by = 0, !.review_state = "rejected"]
                  ELSE disk.moves[m]
  BY ErasedAre, Ids DEF InHand, RowsOf, live
<1> HIDE DEF gone
<1>2. \A r \in Row : LET new == [r EXCEPT !.superseded_by = 0, !.review_state = "rejected"]
                     IN new.review_state = "rejected" /\ new.items = r.items
  BY DEF Row
<1>3. ASSUME NEW m \in live(disk')
      PROVE  m \in live(disk) /\ disk'.moves[m].items = disk.moves[m].items
  <2>1. m \in MoveIds /\ m \notin gone
    BY <1>1, AbsentIs DEF live
  <2>2. m \in live(disk)
    <3> SUFFICES ASSUME m \notin live(disk) PROVE FALSE
      OBVIOUS
    <3>1. disk.moves[m] = Absent
      BY <2>1 DEF BlankInv, Blank
    <3>2. disk'.moves[m] = Absent
      BY <1>1, <2>1, <3>1, AbsentIs
    <3> QED
      BY <3>2, AbsentIs DEF live
  <2> QED
    BY <1>0, <1>1, <1>2, <2>1, <2>2
<1>4. ASSUME NEW m \in canonical_moves(disk')
      PROVE  m \in canonical_moves(disk) /\ disk'.moves[m].items = disk.moves[m].items
  <2>0. m \in live(disk') /\ m \in MoveIds
    BY DEF canonical_moves, live
  <2>1. m \in live(disk) /\ m \notin gone
    BY <1>1, <1>3, <2>0, AbsentIs DEF live
  <2>2. CASE disk.moves[m].superseded_by \in gone
    <3>1. disk'.moves[m] = [disk.moves[m] EXCEPT !.superseded_by = 0, !.review_state = "rejected"]
      BY <1>1, <2>0, <2>1, <2>2
    <3>2. disk'.moves[m].review_state = "rejected"
      BY <1>0, <1>2, <2>0, <3>1
    <3> QED
      BY <3>2, CanonicalRows
  <2>3. CASE disk.moves[m].superseded_by \notin gone
    <3>1. disk'.moves[m] = disk.moves[m]
      BY <1>1, <2>0, <2>1, <2>3
    <3> QED
      BY <3>1, CanonicalRows
  <2> QED
    BY <2>2, <2>3
<1>5. \A i : /\ Twice(disk, i) => Twice(disk', i)
             /\ Once(disk, i) => Once(disk', i)
  BY <1>1 DEF Twice, Once
<1>6. Told(disk')
  <2>1. live(disk') \subseteq live(disk)
    BY <1>3
  <2> QED
    BY <1>3, <1>5, <2>1, ToldKept DEF OnceInv
<1>7. Apart(disk', canonical_moves(disk'))
  <2>1. canonical_moves(disk') \subseteq canonical_moves(disk)
    BY <1>4
  <2> QED
    BY <1>4, <1>5, <2>1, ApartKept DEF OnceInv
<1>11. InView' = canonical_moves(disk')
  BY <1>1 DEF InView
<1> QED
  BY <1>1, <1>6, <1>7, <1>11 DEF OnceInv

LEMMA OnceStep ==
  ASSUME "interrupt" \notin Faults, TypeInv, BlankInv, HandInv, OnceInv, [Next]_vars
  PROVE  OnceInv'
<1>1. CASE InsertMerged
  BY <1>1, OnceInserted
<1>2. CASE CopySources \/ CopyGroups \/ LearnSpellings
  BY <1>2, OnceCopied
<1>3. CASE Supersede
  BY <1>3, OnceSuperseded
<1>4. CASE QueueQuestion \/ InsertTeam
  <2>1. /\ disk' = disk /\ txn'.moves = txn.moves /\ txn'.filed = txn.filed /\ plan' = plan
        /\ ~InHand /\ ~InHand'
    BY <1>4, OpenedIs DEF Beside, InHand
  <2>2. canonical_moves(txn') = canonical_moves(txn) /\ live(txn') = live(txn)
    BY <2>1 DEF canonical_moves, live
  <2>3. InView' = canonical_moves(txn') /\ InView = canonical_moves(txn)
    BY <2>1 DEF InView
  <2>4. Apart(txn', InView') /\ Told(txn')
    BY <2>1, <2>2, <2>3 DEF OnceInv, Apart, Told, Once, Twice
  <2> QED
    BY <2>1, <2>2, <2>4 DEF OnceInv
<1>5. CASE StaffTeam
  <2>0. \A m \in MoveIds : txn.moves[m] \in Row
    BY FieldTypes DEF TypeInv, TypeOK
  <2>1. /\ disk' = disk /\ txn'.filed = txn.filed /\ plan' = plan /\ ~InHand /\ ~InHand'
        /\ \A m \in MoveIds : txn'.moves[m] = IF m \in crew THEN [txn.moves[m] EXCEPT !.team = merged]
                                              ELSE txn.moves[m]
    BY <1>5, StaffedIs DEF Beside, InHand
  <2>2. \A m \in MoveIds : /\ txn'.moves[m].review_state = txn.moves[m].review_state
                           /\ txn'.moves[m].superseded_by = txn.moves[m].superseded_by
                           /\ txn'.moves[m].items = txn.moves[m].items
    BY <2>0, <2>1 DEF Row
  <2>3. canonical_moves(txn') = canonical_moves(txn) /\ live(txn') = live(txn)
    BY <2>2 DEF canonical_moves, live
  <2>4. InView' = canonical_moves(txn') /\ InView = canonical_moves(txn)
    BY <2>1 DEF InView
  <2>5. \A i : (Twice(txn, i) => Twice(txn', i)) /\ (Once(txn, i) => Once(txn', i))
    BY <2>1 DEF Twice, Once
  <2>6. Apart(txn', InView') /\ Told(txn')
    <3>1. \A m \in live(txn') : txn'.moves[m].items = txn.moves[m].items
      BY <2>2, LiveRows
    <3>2. canonical_moves(txn') \subseteq live(txn')
      BY DEF canonical_moves
    <3> QED
      BY <2>3, <2>4, <2>5, <3>1, <3>2, ApartKept, ToldKept DEF OnceInv
  <2> QED
    BY <2>1, <2>3, <2>6 DEF OnceInv
<1>6. CASE RefuseSpellings \/ FinishDedupe \/ Kill \/ Interrupt
  <2>1. Ends(disk) \/ (Ends(txn) /\ pc = "merge")
    BY <1>6, EndedIs
  <2>2. ~InHand' /\ plan' = {} /\ txn' = disk' /\ (disk' = disk \/ (disk' = txn /\ ~InHand))
    BY <2>1 DEF Ends, InHand
  <2>3. InView' = canonical_moves(disk')
    BY <2>2 DEF InView
  <2>4. CASE disk' = disk
    BY <2>2, <2>3, <2>4 DEF OnceInv
  <2>5. CASE disk' = txn /\ ~InHand
    <3>1. InView = canonical_moves(txn)
      BY <2>5 DEF InView
    <3> QED
      BY <2>2, <2>3, <2>5, <3>1 DEF OnceInv
  <2> QED
    BY <2>2, <2>4, <2>5
<1>7. CASE StartDedupe
  <2>1. disk' = disk /\ txn' = disk /\ txn = disk /\ ~InHand' /\ plan' = Components(disk)
    BY <1>7, StartedIs DEF InHand
  <2>2. \A c \in plan' : c \subseteq canonical_moves(disk)
    BY <2>1, ComponentIsAkin DEF candidates
  <2>3. InView' = canonical_moves(disk)
    BY <2>1 DEF InView
  <2> QED
    BY <2>1, <2>2, <2>3 DEF OnceInv
<1>8. ASSUME NEW r \in Reports, FileReport(r) PROVE OnceInv'
  BY <1>8, OnceFiled
<1>9. ASSUME NEW scope \in DiscardScopes, Discard(scope) PROVE OnceInv'
  BY <1>9, OnceDiscarded
<1>10. ASSUME NEW p \in Spellings, Erase(p) PROVE OnceInv'
  BY <1>10, OnceErased
<1>11. CASE UNCHANGED vars
  BY <1>11 DEF vars, local, OnceInv, InHand, InView, Members, Apart, Told, Once, Twice
<1> QED
  BY <1>1, <1>2, <1>3, <1>4, <1>5, <1>6, <1>7, <1>8, <1>9, <1>10, <1>11 DEF Next, Step

LEMMA TwoReports ==
  ASSUME NEW db, IsFiniteSet(db.filed), NEW i, Twice(db, i)
  PROVE  Cardinality({r \in db.filed : r.item = i}) > 1
<1> DEFINE told == {r \in db.filed : r.item = i}
<1>1. PICK r \in told, s \in told : r # s
  BY DEF Twice
<1>2. IsFiniteSet(told)
  BY FS_Subset
<1> HIDE DEF told
<1>3. {r, s} \subseteq told /\ IsFiniteSet({r, s}) /\ Cardinality({r, s}) = 2
  <2>1. IsFiniteSet({r}) /\ Cardinality({r}) = 1
    BY FS_Singleton
  <2>2. Cardinality({r} \cup {s}) = Cardinality({r}) + 1 /\ IsFiniteSet({r} \cup {s})
    <3>1. s \notin {r}
      BY <1>1
    <3> QED
      BY <2>1, <3>1, FS_AddElement
  <2>3. {r, s} = {r} \cup {s}
    OBVIOUS
  <2> QED
    BY <2>1, <2>2, <2>3
<1>4. Cardinality({r, s}) <= Cardinality(told) /\ Cardinality(told) \in Nat
  BY <1>2, <1>3, FS_Subset, FS_CardinalityType
<1> QED
  BY <1>3, <1>4 DEF told

LEMMA OnceInvariant ==
  ASSUME "interrupt" \notin Faults
  PROVE  Spec => []OnceInv
<1>1. Init => OnceInv
  <2> SUFFICES ASSUME Init PROVE OnceInv
    OBVIOUS
  <2>1. disk = EmptyDatabase /\ txn = EmptyDatabase /\ plan = {} /\ ~InHand
    BY DEF Init, InHand
  <2>2. live(disk) = {} /\ canonical_moves(disk) = {} /\ disk.filed = {}
    BY <2>1, AbsentIs DEF live, canonical_moves, EmptyDatabase
  <2>3. IsFiniteSet({})
    BY FS_EmptySet
  <2> QED
    BY <2>1, <2>2, <2>3 DEF OnceInv, Told, Apart, InView
<1>2. TypeInv /\ BlankInv /\ SoundInv /\ OnceInv /\ [Next]_vars => OnceInv'
  BY OnceStep DEF SoundInv
<1> QED
  BY <1>1, <1>2, TypeInvariant, BlankInvariant, SoundInvariant, PTL DEF Spec

\* Without a Ctrl-C in the middle of a component, whatever the process dies of, two
\* canonical rows count one item twice only where the item reports two moves.
THEOREM EachItemCountsOnce ==
  ASSUME "interrupt" \notin Faults
  PROVE  Spec => []ReportedOnce
<1>1. OnceInv => ReportedOnce
  BY TwoReports DEF OnceInv, Apart, ReportedOnce
<1> QED
  BY <1>1, OnceInvariant, PTL

-----------------------------------------------------------------------------
(* The chain of rows that supersession leads to.                            *)

\* Sets of rows that no link leads out of, and the least one with a given row.
Onward(db, s) == \A n \in s : db.moves[n].superseded_by \in s \cup {0}

Path(db, n) ==
  {k \in live(db) : \A s \in SUBSET live(db) : n \in s /\ Onward(db, s) => k \in s}

LEMMA PathIs ==
  ASSUME NEW db, Sound(db), NEW n \in live(db)
  PROVE  /\ n \in Path(db, n) /\ Path(db, n) \subseteq live(db) /\ Onward(db, Path(db, n))
         /\ \A s \in SUBSET live(db) : n \in s /\ Onward(db, s) => Path(db, n) \subseteq s
<1>1. Onward(db, Path(db, n))
  <2> SUFFICES ASSUME NEW k \in Path(db, n), db.moves[k].superseded_by # 0
               PROVE  db.moves[k].superseded_by \in Path(db, n)
    BY DEF Onward
  <2>1. db.moves[k].superseded_by \in live(db)
    BY DEF Path, Sound, SupersededBy
  <2>2. ASSUME NEW s \in SUBSET live(db), n \in s, Onward(db, s)
        PROVE  db.moves[k].superseded_by \in s
    <3>1. k \in s
      BY <2>2 DEF Path
    <3> QED
      BY <2>2, <3>1 DEF Onward
  <2> QED
    BY <2>1, <2>2 DEF Path
<1> QED
  BY <1>1 DEF Path

LEMMA PathInside ==
  ASSUME NEW db, Sound(db), NEW n \in live(db), NEW k \in Path(db, n)
  PROVE  Path(db, k) \subseteq Path(db, n)
BY PathIs

LEMMA PathStep ==
  ASSUME NEW db, Sound(db), NEW k \in live(db)
  PROVE  /\ db.moves[k].superseded_by = 0 => Path(db, k) = {k}
         /\ db.moves[k].superseded_by # 0 =>
              /\ db.moves[k].superseded_by \in live(db)
              /\ Path(db, k) \subseteq {k} \cup Path(db, db.moves[k].superseded_by)
<1>1. CASE db.moves[k].superseded_by = 0
  <2>1. Onward(db, {k}) /\ {k} \in SUBSET live(db) /\ k \in {k}
    BY <1>1 DEF Onward
  <2>2. Path(db, k) \subseteq {k} /\ k \in Path(db, k)
    BY <2>1, PathIs
  <2> QED
    BY <1>1, <2>2
<1>2. CASE db.moves[k].superseded_by # 0
  <2> DEFINE j == db.moves[k].superseded_by
             s == {k} \cup Path(db, j)
  <2>1. j \in live(db)
    BY <1>2 DEF Sound, SupersededBy
  <2>2. j \in Path(db, j) /\ Path(db, j) \subseteq live(db) /\ Onward(db, Path(db, j))
    BY <2>1, PathIs
  <2>3. Onward(db, s) /\ s \in SUBSET live(db) /\ k \in s
    BY <2>2 DEF Onward
  <2>4. Path(db, k) \subseteq s
    BY <2>3, PathIs
  <2> QED
    BY <1>2, <2>1, <2>4
<1> QED
  BY <1>1, <1>2

\* A chain has one end.
LEMMA OneEnd ==
  ASSUME NEW db, Sound(db), NEW n \in live(db), NEW c \in Path(db, n), NEW d \in Path(db, n),
         db.moves[c].superseded_by = 0, db.moves[d].superseded_by = 0
  PROVE  c = d
<1> DEFINE s == {k \in Path(db, n) : c \in Path(db, k)}
<1>1. Path(db, n) \subseteq live(db) /\ n \in Path(db, n) /\ Onward(db, Path(db, n))
  BY PathIs
<1>2. Onward(db, s)
  <2> SUFFICES ASSUME NEW k \in s, db.moves[k].superseded_by # 0
               PROVE  db.moves[k].superseded_by \in s
    BY DEF Onward
  <2>1. Path(db, k) \subseteq {k} \cup Path(db, db.moves[k].superseded_by)
    BY <1>1, PathStep
  <2>2. c \in Path(db, db.moves[k].superseded_by)
    BY <2>1
  <2>3. db.moves[k].superseded_by \in Path(db, n)
    BY <1>1 DEF Onward
  <2> QED
    BY <2>2, <2>3
<1>3. n \in s /\ s \in SUBSET live(db)
  BY <1>1
<1>4. d \in s
  BY <1>2, <1>3, PathIs
<1>5. Path(db, d) = {d}
  BY <1>1, PathStep
<1> QED
  BY <1>4, <1>5

\* The trail of a row is its path.
LEMMA TrailIsPath ==
  ASSUME NEW db, Sound(db), NEW m \in live(db)
  PROVE  Trail(db, m) = Path(db, m)
<1> DEFINE IsTrail(s) ==
             /\ m \in s
             /\ \A n \in s : db.moves[n].superseded_by \in s \cup {0}
             /\ \A n \in s \ {m} : \E k \in s : db.moves[k].superseded_by = n
<1>0. /\ m \in Path(db, m) /\ Path(db, m) \subseteq live(db) /\ Onward(db, Path(db, m))
      /\ \A s \in SUBSET live(db) : m \in s /\ Onward(db, s) => Path(db, m) \subseteq s
  BY PathIs
<1>1. IsTrail(Path(db, m))
  <2>1. ASSUME NEW n \in Path(db, m) \ {m}, \A k \in Path(db, m) : db.moves[k].superseded_by # n
        PROVE  FALSE
    <3> DEFINE s == Path(db, m) \ {n}
    <3>1. s \in SUBSET live(db) /\ m \in s /\ Onward(db, s)
      BY <1>0, <2>1 DEF Onward
    <3>2. Path(db, m) \subseteq s
      BY <1>0, <3>1
    <3> QED
      BY <3>2
  <2> QED
    BY <1>0, <2>1 DEF Onward
<1>2. ASSUME NEW s \in SUBSET live(db), IsTrail(s) PROVE s = Path(db, m)
  <2>1. Path(db, m) \subseteq s
    BY <1>0, <1>2 DEF Onward
  <2> DEFINE beyond == s \ Path(db, m)
  <2>2. beyond = {}
    <3> SUFFICES ASSUME beyond # {} PROVE FALSE
      OBVIOUS
    <3>1. beyond \subseteq Nat /\ 0 \notin beyond
      BY LiveRows, Ids
    <3> HIDE DEF beyond
    <3>2. PICK x \in beyond : \A y \in beyond : x <= y
      BY <3>1, NatLeast
    <3>3. x \in s /\ x \notin Path(db, m) /\ x # m /\ x \in Nat /\ x # 0
      BY <1>0, <3>1 DEF beyond
    <3>4. PICK k \in s : db.moves[k].superseded_by = x
      BY <1>2, <3>3
    <3>5. k < x /\ k \in Nat
      BY <3>3, <3>4, LiveRows, Ids DEF Sound, SupersededBy
    <3>6. k \in Path(db, m)
      BY <3>2, <3>3, <3>5 DEF beyond
    <3>7. x \in Path(db, m)
      BY <1>0, <3>3, <3>4, <3>6 DEF Onward
    <3> QED
      BY <3>3, <3>7
  <2> QED
    BY <2>1, <2>2
<1>3. Path(db, m) \in SUBSET live(db)
  BY <1>0
<1>4. Trail(db, m) = CHOOSE s \in SUBSET live(db) : IsTrail(s)
  BY DEF Trail
<1> HIDE DEF IsTrail
<1> QED
  BY <1>1, <1>2, <1>3, <1>4

\* A chain whose rows keep their links is the same chain.
LEMMA PathKept ==
  ASSUME NEW db, NEW new, Sound(db), Sound(new), NEW n \in live(db),
         \A k \in Path(db, n) : /\ k \in live(new)
                                /\ new.moves[k].superseded_by = db.moves[k].superseded_by
  PROVE  Path(new, n) = Path(db, n)
<1> DEFINE p == Path(db, n)
           q == Path(new, n)
<1>1. n \in p /\ p \in SUBSET live(db) /\ Onward(db, p)
  BY PathIs
<1>2. p \in SUBSET live(new) /\ Onward(new, p)
  BY <1>1 DEF Onward
<1>3. q \subseteq p /\ n \in q /\ Onward(new, q)
  BY <1>1, <1>2, PathIs
<1>4. q \in SUBSET live(db) /\ Onward(db, q)
  BY <1>1, <1>3 DEF Onward
<1>5. p \subseteq q
  BY <1>3, <1>4, PathIs
<1> QED
  BY <1>3, <1>5

-----------------------------------------------------------------------------
(* The stage implements MoveEvents.                                         *)

Behind(db, c) == {n \in live(db) : c \in Path(db, n)}
Event(db, c) == UNION {db.moves[m].origin : m \in Behind(db, c)}
EventsIn(db, rows) == {Event(db, c) : c \in rows}

LEMMA EventIs ==
  ASSUME NEW db, Sound(db)
  PROVE  EventsOf(db) = EventsIn(db, canonical_moves(db))
<1>1. \A m \in live(db) : Trail(db, m) = Path(db, m)
  BY TrailIsPath
<1>2. \A c : {n \in live(db) : c \in Trail(db, n)} = Behind(db, c)
  BY <1>1 DEF Behind
<1> QED
  BY <1>2 DEF EventsOf, EventOf, Event, EventsIn

\* A report was filed once, from one item, and stays with the row it was filed as.
Origins(db) ==
  /\ \A m, n \in live(db) : m # n => db.moves[m].origin \cap db.moves[n].origin = {}
  /\ \A m \in live(db) : \A r \in db.moves[m].origin :
       r \in db.filed /\ db.moves[m].items = {r.item}

\* A row that was not filed itself was made of one of the same person.
Heired(db, rows) ==
  \A n \in rows : \/ db.moves[n].origin # {}
                  \/ \E k \in live(db) : /\ db.moves[k].superseded_by = n
                                         /\ db.moves[k].person = db.moves[n].person

Joins(E, F) ==
  /\ UNION F = UNION E
  /\ \A e \in F : e # {} /\ \A f \in E : f \subseteq e \/ f \cap e = {}

LEMMA JoinsOn ==
  ASSUME NEW E, NEW F, NEW G, Joins(E, F), Joins(F, G)
  PROVE  Joins(E, G)
<1>1. ASSUME NEW g \in G, NEW f \in E, NEW r \in f \cap g PROVE f \subseteq g
  <2>1. PICK e \in F : r \in e
    BY DEF Joins
  <2>2. f \subseteq e /\ e \subseteq g
    BY <2>1 DEF Joins
  <2> QED
    BY <2>2
<1> QED
  BY <1>1 DEF Joins

\* No report counts in two events.
LEMMA EventsApart ==
  ASSUME NEW db, Sound(db), Origins(db), NEW c, NEW d, c # d,
         db.moves[c].superseded_by = 0, db.moves[d].superseded_by = 0
  PROVE  Event(db, c) \cap Event(db, d) = {}
<1> SUFFICES ASSUME NEW r \in Event(db, c) \cap Event(db, d) PROVE FALSE
  OBVIOUS
<1>1. PICK m \in Behind(db, c) : r \in db.moves[m].origin
  BY DEF Event
<1>2. PICK n \in Behind(db, d) : r \in db.moves[n].origin
  BY DEF Event
<1>3. m = n
  BY <1>1, <1>2 DEF Origins, Behind
<1> QED
  BY <1>3, OneEnd DEF Behind

\* The earliest row of an event was filed.
LEMMA EventIsSomething ==
  ASSUME NEW db, Sound(db), NEW c \in live(db), Heired(db, Behind(db, c))
  PROVE  Event(db, c) # {}
<1>1. Behind(db, c) \subseteq Nat /\ c \in Behind(db, c)
  BY PathIs, LiveRows, Ids DEF Behind
<1>2. PICK n \in Behind(db, c) : \A j \in Behind(db, c) : n <= j
  BY <1>1, NatLeast
<1>3. ASSUME db.moves[n].origin = {} PROVE FALSE
  <2>1. PICK k \in live(db) : db.moves[k].superseded_by = n
    BY <1>3 DEF Heired
  <2>2. n # 0 /\ n \in live(db) /\ c \in Path(db, n)
    BY <1>1, LiveRows, Ids DEF Behind
  <2>3. k < n /\ k \in Nat /\ n \in Nat
    BY <2>1, <2>2, LiveRows, Ids DEF Sound, SupersededBy
  <2>4. n \in Path(db, k)
    BY <2>1, <2>2, PathIs DEF Onward
  <2>5. c \in Path(db, k)
    BY <2>2, <2>4, PathInside
  <2>6. k \in Behind(db, c)
    BY <2>5 DEF Behind
  <2> QED
    BY <1>2, <2>3, <2>6
<1> QED
  BY <1>2, <1>3 DEF Event

LEMMA SelfJoin ==
  ASSUME NEW db, Sound(db), Origins(db), Heired(db, live(db))
  PROVE  Joins(EventsIn(db, canonical_moves(db)), EventsIn(db, canonical_moves(db)))
<1>1. ASSUME NEW c \in canonical_moves(db) PROVE Event(db, c) # {}
  <2>1. c \in live(db) /\ Behind(db, c) \subseteq live(db)
    BY DEF canonical_moves, Behind
  <2>2. Heired(db, Behind(db, c))
    BY <2>1 DEF Heired
  <2> QED
    BY <2>1, <2>2, EventIsSomething
<1>2. \A c, d \in canonical_moves(db) : c # d => Event(db, c) \cap Event(db, d) = {}
  BY EventsApart, CanonicalRows
<1> QED
  BY <1>1, <1>2 DEF Joins, EventsIn

\* Events are what links and origins make of them.
LEMMA EventsSame ==
  ASSUME NEW db, NEW new, Sound(db), Sound(new), live(new) = live(db),
         \A m \in live(db) : /\ new.moves[m].superseded_by = db.moves[m].superseded_by
                             /\ new.moves[m].origin = db.moves[m].origin
  PROVE  \A c : Event(new, c) = Event(db, c)
<1>1. \A n \in live(db) : Path(new, n) = Path(db, n)
  BY PathKept, PathIs
<1>2. \A c : Behind(new, c) = Behind(db, c) /\ Behind(db, c) \subseteq live(db)
  BY <1>1 DEF Behind
<1> QED
  BY <1>2 DEF Event

\* A new row is an event of its own and in no other.
LEMMA EventBeside ==
  ASSUME NEW db \in Database, NEW new \in Database, Sound(db), Sound(new),
         NEW id \in MoveIds \ live(db), NEW r,
         new.moves = [db.moves EXCEPT ![id] = r],
         r.superseded_by = 0, r.review_state # "absent"
  PROVE  /\ Event(new, id) = r.origin
         /\ \A c \in live(db) : Event(new, c) = Event(db, c)
<1>1. /\ new.moves[id] = r /\ live(new) = live(db) \cup {id}
      /\ \A m \in MoveIds : m # id => new.moves[m] = db.moves[m]
  BY DEF Database, live
<1>2. Path(new, id) = {id}
  BY <1>1, PathStep
<1>3. ASSUME NEW n \in live(db) PROVE Path(new, n) = Path(db, n) /\ Path(db, n) \subseteq live(db)
  <2>1. Path(db, n) \subseteq live(db)
    BY PathIs
  <2>2. \A k \in Path(db, n) : k \in live(new) /\ new.moves[k].superseded_by = db.moves[k].superseded_by
    BY <1>1, <2>1, LiveRows
  <2> QED
    BY <2>1, <2>2, PathKept
<1>4. Behind(new, id) = {id}
  BY <1>1, <1>2, <1>3 DEF Behind
<1>5. ASSUME NEW c \in live(db) PROVE Event(new, c) = Event(db, c)
  <2>1. Behind(new, c) = Behind(db, c)
    BY <1>1, <1>2, <1>3 DEF Behind
  <2>2. \A m \in Behind(db, c) : new.moves[m].origin = db.moves[m].origin
    BY <1>1, LiveRows DEF Behind
  <2> QED
    BY <2>1, <2>2 DEF Event
<1> QED
  BY <1>1, <1>4, <1>5 DEF Event

\* The events the stage is making: those of the committed database, some of them
\* joined.  The row made of a component comes from nowhere until the component is
\* superseded by it, and then stands for all of it.
EventInv ==
  /\ Origins(disk) /\ Origins(txn)
  /\ Heired(disk, live(disk))
  /\ Heired(txn, IF InHand THEN live(txn) \ {merged} ELSE live(txn))
  /\ Joins(EventsIn(disk, canonical_moves(disk)), EventsIn(txn, InView))
  /\ InHand => /\ txn.moves[merged].origin = {}
               /\ \A k \in live(txn) : txn.moves[k].superseded_by # merged

\* Rows that keep their links, origins and people.
LEMMA SameEvents ==
  ASSUME NEW db, NEW new, Sound(db), Sound(new), Origins(db), new.filed = db.filed,
         NEW rows \in SUBSET live(db), Heired(db, rows),
         \A m \in MoveIds : /\ new.moves[m].review_state = db.moves[m].review_state
                            /\ new.moves[m].superseded_by = db.moves[m].superseded_by
                            /\ new.moves[m].origin = db.moves[m].origin
                            /\ new.moves[m].person = db.moves[m].person
                            /\ db.moves[m].origin # {} => new.moves[m].items = db.moves[m].items
  PROVE  /\ Origins(new) /\ Heired(new, rows)
         /\ \A view : EventsIn(new, view) = EventsIn(db, view)
         /\ canonical_moves(new) = canonical_moves(db) /\ live(new) = live(db)
<1>1. canonical_moves(new) = canonical_moves(db) /\ live(new) = live(db)
  BY CanonicalSame
<1>2. \A c : Event(new, c) = Event(db, c)
  BY <1>1, LiveRows, EventsSame
<1>3. Origins(new)
  BY <1>1, LiveRows DEF Origins
<1>4. Heired(new, rows)
  BY <1>1, LiveRows DEF Heired
<1> QED
  BY <1>1, <1>2, <1>3, <1>4 DEF EventsIn

\* A new row leaves the origins and the heirs of the others alone.
LEMMA OriginsBeside ==
  ASSUME NEW db \in Database, NEW new \in Database, Origins(db), Heired(db, live(db)),
         NEW id \in MoveIds \ live(db), NEW r,
         new.moves = [db.moves EXCEPT ![id] = r], r.review_state # "absent",
         db.filed \cup r.origin \subseteq new.filed, r.origin \cap db.filed = {},
         \A s \in r.origin : r.items = {s.item}
  PROVE  Origins(new) /\ Heired(new, live(db)) /\ live(new) = live(db) \cup {id}
<1>1. /\ new.moves[id] = r /\ live(new) = live(db) \cup {id}
      /\ \A m \in MoveIds : m # id => new.moves[m] = db.moves[m]
  BY DEF Database, live
<1>2. \A m \in live(db) : m # id /\ m \in MoveIds /\ new.moves[m] = db.moves[m]
  BY <1>1, LiveRows
<1>3. Heired(new, live(db))
  BY <1>1, <1>2 DEF Heired
<1>4. \A m \in live(new) : m = id \/ m \in live(db)
  BY <1>1
<1>5. \A m \in live(db) : db.moves[m].origin \subseteq db.filed
  BY DEF Origins
<1>6. \A m, n \in live(new) : m # n => new.moves[m].origin \cap new.moves[n].origin = {}
  BY <1>1, <1>2, <1>4, <1>5 DEF Origins
<1>7. \A m \in live(new) : \A s \in new.moves[m].origin :
        s \in new.filed /\ new.moves[m].items = {s.item}
  BY <1>1, <1>2, <1>4 DEF Origins
<1> QED
  BY <1>1, <1>3, <1>6, <1>7 DEF Origins

\* A run that has not written yet, and a run that is over, has joined no events.
LEMMA EventsAtRest ==
  ASSUME txn' = disk', ~InHand', Sound(disk'), Origins(disk'), Heired(disk', live(disk'))
  PROVE  EventInv'
<1>1. InView' = canonical_moves(disk')
  BY DEF InView
<1>2. \A db : Sound(db) /\ Origins(db) /\ Heired(db, live(db)) =>
        Joins(EventsIn(db, canonical_moves(db)), EventsIn(db, canonical_moves(db)))
  BY SelfJoin
<1>3. Joins(EventsIn(disk', canonical_moves(disk')), EventsIn(disk', canonical_moves(disk')))
  BY <1>2
<1> QED
  BY <1>1, <1>3 DEF EventInv

LEMMA EventsInserted ==
  ASSUME TypeInv, SoundInv, EventInv, InsertMerged, TypeInv', SoundInv'
  PROVE  EventInv'
<1>0. /\ txn \in Database /\ txn' \in Database /\ ~InHand /\ InHand'
      /\ disk' = disk /\ txn'.filed = txn.filed /\ merged' \in MoveIds \ live(txn)
  BY InsertedIs DEF TypeInv, TypeOK, InsertMerged, InHand, Beside
<1>1. PICK c \in plan, r \in Row :
        /\ plan' = plan \ {c} /\ Members' = c /\ ordered'[1] \in c
        /\ txn'.moves = [txn.moves EXCEPT ![merged'] = r]
        /\ r.review_state \in {"pending_review", "auto_accepted"}
        /\ r.origin = {} /\ r.items = {} /\ r.superseded_by = 0 /\ r.team = 0
        /\ r.person = winner'.person /\ r.to_firm = winner'.to_firm
        /\ \A m \in c : r.announced <= disk.moves[m].announced
  BY InsertedIs
<1>2. /\ Origins(txn') /\ Heired(txn', live(txn)) /\ live(txn') = live(txn) \cup {merged'}
      /\ txn'.moves[merged'] = r
  <2>1. Origins(txn) /\ Heired(txn, live(txn))
    BY <1>0 DEF EventInv
  <2>2. /\ txn.filed \cup r.origin \subseteq txn'.filed /\ r.review_state # "absent"
        /\ r.origin \cap txn.filed = {} /\ \A s \in r.origin : r.items = {s.item}
    BY <1>0, <1>1
  <2>3. txn \in Database /\ txn' \in Database /\ txn'.moves = [txn.moves EXCEPT ![merged'] = r]
    BY <1>0, <1>1
  <2>4. merged' \in MoveIds \ live(txn)
    BY <1>0
  <2>5. Origins(txn') /\ Heired(txn', live(txn)) /\ live(txn') = live(txn) \cup {merged'}
    BY <2>1, <2>2, <2>3, <2>4, OriginsBeside
  <2> QED
    BY <2>3, <2>4, <2>5 DEF Database
<1>3. InView' = canonical_moves(txn) /\ InView = canonical_moves(txn) /\ canonical_moves(txn) \subseteq live(txn)
  BY <1>0, <1>1, ViewInserted DEF canonical_moves
<1>4. EventsIn(txn', InView') = EventsIn(txn, InView)
  <2>1. \A c1 \in live(txn) : Event(txn', c1) = Event(txn, c1)
    <3>1. Sound(txn) /\ Sound(txn')
      BY DEF SoundInv
    <3> QED
      BY <1>0, <1>1, <3>1, EventBeside
  <2> QED
    BY <1>3, <2>1 DEF EventsIn
<1>5. \A k \in live(txn') : txn'.moves[k].superseded_by # merged'
  <2> TAKE k \in live(txn')
  <2>1. CASE k = merged'
    BY <1>0, <1>1, <1>2, <2>1, Ids
  <2>2. CASE k # merged'
    <3>1. k \in live(txn) /\ txn'.moves[k] = txn.moves[k]
      BY <1>0, <1>1, <1>2, <2>2, LiveRows DEF Database
    <3>2. txn.moves[k].superseded_by \in live(txn) \cup {0}
      BY <3>1 DEF SoundInv, Sound, SupersededBy
    <3> QED
      BY <1>0, <3>1, <3>2, Ids
  <2> QED
    BY <2>1, <2>2
<1>6. live(txn') \ {merged'} = live(txn)
  BY <1>0, <1>2
<1> QED
  BY <1>0, <1>1, <1>2, <1>4, <1>5, <1>6 DEF EventInv

LEMMA EventsCopied ==
  ASSUME TypeInv, SoundInv, EventInv, CopySources \/ CopyGroups \/ LearnSpellings, SoundInv'
  PROVE  EventInv'
<1>0. txn \in Database /\ txn.moves \in [MoveIds -> Row]
  BY DEF TypeInv, TypeOK, Database
<1>1. /\ disk' = disk /\ merged' = merged /\ txn'.filed = txn.filed /\ InHand /\ InHand'
      /\ merged \in MoveIds
  BY CopiedIs, MembersAre DEF Beside, InHand
<1>2. PICK r \in Row :
        /\ txn'.moves = [txn.moves EXCEPT ![merged] = r]
        /\ r.review_state = txn.moves[merged].review_state
        /\ r.origin = txn.moves[merged].origin /\ r.person = txn.moves[merged].person
        /\ r.to_firm = txn.moves[merged].to_firm /\ r.from_firm = txn.moves[merged].from_firm
        /\ r.announced = txn.moves[merged].announced
        /\ r.superseded_by = txn.moves[merged].superseded_by
        /\ r.team = txn.moves[merged].team
        /\ r.items = IF CopySources THEN UNION {disk.moves[m].items : m \in Members}
                     ELSE txn.moves[merged].items
  BY CopiedIs
<1>3. txn'.moves[merged] = r /\ \A m \in MoveIds : m # merged => txn'.moves[m] = txn.moves[m]
  BY <1>0, <1>1, <1>2
<1>4. txn.moves[merged].origin = {}
  BY <1>1 DEF EventInv
<1>5. \A m \in MoveIds : /\ txn'.moves[m].review_state = txn.moves[m].review_state
                         /\ txn'.moves[m].superseded_by = txn.moves[m].superseded_by
                         /\ txn'.moves[m].origin = txn.moves[m].origin
                         /\ txn'.moves[m].person = txn.moves[m].person
                         /\ txn.moves[m].origin # {} => txn'.moves[m].items = txn.moves[m].items
  BY <1>2, <1>3, <1>4
<1>6. Sound(txn) /\ Sound(txn') /\ Origins(txn) /\ Heired(txn, live(txn) \ {merged})
  BY <1>1 DEF SoundInv, EventInv
<1>7. /\ Origins(txn') /\ Heired(txn', live(txn) \ {merged})
      /\ \A view : EventsIn(txn', view) = EventsIn(txn, view)
      /\ canonical_moves(txn') = canonical_moves(txn) /\ live(txn') = live(txn)
  <2>1. live(txn) \ {merged} \in SUBSET live(txn)
    OBVIOUS
  <2> QED
    BY <1>1, <1>5, <1>6, <2>1, SameEvents
<1>8. InView' = InView
  BY <1>1, <1>7 DEF InView
<1>9. /\ txn'.moves[merged].origin = {}
      /\ \A k \in live(txn') : txn'.moves[k].superseded_by # merged
  BY <1>1, <1>4, <1>5, <1>7, LiveRows DEF EventInv
<1> QED
  BY <1>1, <1>7, <1>8, <1>9 DEF EventInv

\* Neither a review item nor a team touches an event.
LEMMA EventsOpened ==
  ASSUME TypeInv, SoundInv, EventInv, QueueQuestion \/ InsertTeam \/ StaffTeam, SoundInv'
  PROVE  EventInv'
<1>1. /\ disk' = disk /\ txn'.filed = txn.filed /\ ~InHand /\ ~InHand'
      /\ \A m \in MoveIds : txn'.moves[m] = txn.moves[m] \/ txn'.moves[m] = [txn.moves[m] EXCEPT !.team = merged]
  BY OpenedIs, StaffedIs DEF Beside, InHand
<1>2. \A m \in MoveIds : txn.moves[m] \in Row
  BY FieldTypes DEF TypeInv, TypeOK
<1>3. ASSUME NEW r \in Row
      PROVE  /\ [r EXCEPT !.team = merged].review_state = r.review_state
             /\ [r EXCEPT !.team = merged].superseded_by = r.superseded_by
             /\ [r EXCEPT !.team = merged].origin = r.origin
             /\ [r EXCEPT !.team = merged].person = r.person
             /\ [r EXCEPT !.team = merged].items = r.items
  BY DEF Row
<1>4. \A m \in MoveIds : /\ txn'.moves[m].review_state = txn.moves[m].review_state
                         /\ txn'.moves[m].superseded_by = txn.moves[m].superseded_by
                         /\ txn'.moves[m].origin = txn.moves[m].origin
                         /\ txn'.moves[m].person = txn.moves[m].person
                         /\ txn.moves[m].origin # {} => txn'.moves[m].items = txn.moves[m].items
  <2> TAKE m \in MoveIds
  <2>1. CASE txn'.moves[m] = txn.moves[m]
    BY <2>1
  <2>2. CASE txn'.moves[m] = [txn.moves[m] EXCEPT !.team = merged]
    BY <1>2, <1>3, <2>2
  <2> QED
    BY <1>1, <2>1, <2>2
<1>5. Sound(txn) /\ Sound(txn') /\ Origins(txn) /\ Heired(txn, live(txn))
  BY <1>1 DEF SoundInv, EventInv
<1>6. /\ Origins(txn') /\ Heired(txn', live(txn))
      /\ \A view : EventsIn(txn', view) = EventsIn(txn, view)
      /\ canonical_moves(txn') = canonical_moves(txn) /\ live(txn') = live(txn)
  <2>1. live(txn) \in SUBSET live(txn)
    OBVIOUS
  <2> QED
    BY <1>1, <1>4, <1>5, <2>1, SameEvents
<1>7. InView' = InView
  BY <1>1, <1>6 DEF InView
<1> QED
  BY <1>1, <1>6, <1>7 DEF EventInv

\* Superseding a component by a row that came from nowhere joins its events.
LEMMA EventsJoined ==
  ASSUME NEW db, NEW new, Sound(db), Sound(new), Origins(db), new.filed = db.filed,
         NEW id \in canonical_moves(db), NEW W \in SUBSET (canonical_moves(db) \ {id}), NEW h \in W,
         Heired(db, live(db) \ {id}), db.moves[id].origin = {},
         db.moves[h].person = db.moves[id].person,
         \A k \in live(db) : db.moves[k].superseded_by # id,
         live(new) = live(db), canonical_moves(new) = canonical_moves(db) \ W,
         \A m \in live(db) :
           /\ new.moves[m].origin = db.moves[m].origin
           /\ new.moves[m].items = db.moves[m].items
           /\ new.moves[m].person = db.moves[m].person
           /\ new.moves[m].superseded_by = IF m \in W THEN id ELSE db.moves[m].superseded_by
  PROVE  /\ Origins(new) /\ Heired(new, live(new))
         /\ Joins(EventsIn(db, canonical_moves(db) \ {id}), EventsIn(new, canonical_moves(new)))
<1>1. /\ id \in live(db) /\ W \subseteq live(db) /\ id \notin W /\ id # 0
      /\ \A w \in W : db.moves[w].superseded_by = 0
      /\ db.moves[id].superseded_by = 0 /\ new.moves[id].superseded_by = 0
  BY CanonicalRows, LiveRows, Ids DEF canonical_moves
<1>2. Origins(new)
  BY DEF Origins
<1>3. Heired(new, live(new))
  <2> SUFFICES ASSUME NEW n \in live(db), db.moves[n].origin = {}
               PROVE  \E k \in live(db) : /\ new.moves[k].superseded_by = n
                                          /\ db.moves[k].person = db.moves[n].person
    BY DEF Heired
  <2>1. CASE n = id
    BY <1>1, <2>1
  <2>2. CASE n # id
    <3>1. PICK k \in live(db) : db.moves[k].superseded_by = n /\ db.moves[k].person = db.moves[n].person
      BY <2>2 DEF Heired
    <3>2. k \notin W
      BY <1>1, <3>1, LiveRows, Ids
    <3> QED
      BY <3>1, <3>2
  <2> QED
    BY <2>1, <2>2
<1>4. Path(new, id) = {id} /\ Path(db, id) = {id}
  BY <1>1, PathStep
<1>5. ASSUME NEW n \in live(db), n # id PROVE id \notin Path(db, n)
  <2> DEFINE s == live(db) \ {id}
  <2>1. n \in s /\ s \in SUBSET live(db)
    BY <1>5
  <2>2. Onward(db, s)
    BY DEF Onward, Sound, SupersededBy
  <2>3. Path(db, n) \subseteq s
    BY <2>1, <2>2, PathIs
  <2> QED
    BY <2>3
<1>6. ASSUME NEW n \in live(db), n # id, Path(db, n) \cap W = {} PROVE Path(new, n) = Path(db, n)
  <2>1. \A k \in Path(db, n) : k \in live(db) /\ k \notin W
    BY <1>6, PathIs
  <2>2. \A k \in Path(db, n) : k \in live(new) /\ new.moves[k].superseded_by = db.moves[k].superseded_by
    BY <2>1
  <2> QED
    BY <2>2, PathKept
<1>7. ASSUME NEW n \in live(db), Path(db, n) \cap W # {} PROVE id \in Path(new, n)
  <2>0. n \in Path(new, n) /\ Path(new, n) \subseteq live(db) /\ Onward(new, Path(new, n))
    BY PathIs
  <2>1. Onward(db, Path(new, n))
    BY <1>1, <2>0 DEF Onward
  <2>2. Path(db, n) \subseteq Path(new, n)
    BY <2>0, <2>1, PathIs
  <2>3. PICK w \in W : w \in Path(new, n)
    BY <1>7, <2>2
  <2> QED
    BY <1>1, <2>0, <2>3 DEF Onward
<1>8. ASSUME NEW c \in canonical_moves(new), c # id PROVE Event(new, c) = Event(db, c)
  <2>0. /\ c \in live(db) /\ c \notin W /\ db.moves[c].superseded_by = 0
        /\ new.moves[c].superseded_by = 0
    BY CanonicalRows DEF canonical_moves
  <2>1. ASSUME NEW n \in live(db) PROVE c \in Path(new, n) <=> c \in Path(db, n)
    <3>1. CASE n = id
      BY <1>4, <1>8, <3>1
    <3>2. CASE n # id /\ Path(db, n) \cap W = {}
      BY <1>6, <3>2
    <3>3. CASE Path(db, n) \cap W # {}
      <4>1. c \notin Path(new, n)
        BY <1>1, <1>7, <1>8, <2>0, <3>3, OneEnd
      <4>2. c \notin Path(db, n)
        BY <1>1, <2>0, <3>3, OneEnd
      <4> QED
        BY <4>1, <4>2
    <3> QED
      BY <3>1, <3>2, <3>3
  <2>2. Behind(new, c) = Behind(db, c) /\ Behind(db, c) \subseteq live(db)
    BY <2>1 DEF Behind
  <2> QED
    BY <2>2 DEF Event
<1>9. Event(new, id) = UNION {Event(db, w) : w \in W}
  <2>1. ASSUME NEW n \in live(db), n # id PROVE id \in Path(new, n) <=> \E w \in W : w \in Path(db, n)
    BY <1>5, <1>6, <1>7, <2>1
  <2>2. \A n : n \in Behind(new, id) <=> n = id \/ \E w \in W : n \in Behind(db, w)
    BY <1>1, <1>4, <2>1 DEF Behind
  <2>3. \A n \in Behind(new, id) : new.moves[n].origin = db.moves[n].origin
    BY DEF Behind
  <2>4. ASSUME NEW r \in Event(new, id) PROVE r \in UNION {Event(db, w) : w \in W}
    <3>1. PICK n \in Behind(new, id) : r \in db.moves[n].origin
      BY <2>3 DEF Event
    <3>2. PICK w \in W : n \in Behind(db, w)
      BY <2>2, <3>1
    <3> QED
      BY <3>1, <3>2 DEF Event
  <2>5. ASSUME NEW w \in W, NEW r \in Event(db, w) PROVE r \in Event(new, id)
    <3>1. PICK n \in Behind(db, w) : r \in db.moves[n].origin
      BY DEF Event
    <3>2. n \in Behind(new, id) /\ r \in new.moves[n].origin
      BY <2>2, <2>3, <3>1
    <3> QED
      BY <3>2 DEF Event
  <2> QED
    BY <2>4, <2>5
<1> DEFINE old == canonical_moves(db) \ {id}
<1>10. id \in canonical_moves(new) /\ canonical_moves(new) \ {id} = old \ W /\ W \subseteq old
  BY <1>1
<1>11. UNION EventsIn(new, canonical_moves(new)) = UNION EventsIn(db, old)
  BY <1>8, <1>9, <1>10 DEF EventsIn
<1>12. ASSUME NEW c \in canonical_moves(new) PROVE Event(new, c) # {}
  <2>1. c \in live(new) /\ Behind(new, c) \subseteq live(new)
    BY DEF canonical_moves, Behind
  <2>2. Heired(new, Behind(new, c))
    BY <1>3, <2>1 DEF Heired
  <2> QED
    BY <2>1, <2>2, EventIsSomething
<1>13. \A c, d \in old : c # d => Event(db, c) \cap Event(db, d) = {}
  BY EventsApart, CanonicalRows
<1>14. ASSUME NEW c \in canonical_moves(new), NEW d \in old
       PROVE  Event(db, d) \subseteq Event(new, c) \/ Event(db, d) \cap Event(new, c) = {}
  <2>1. CASE c # id
    <3>1. c \in old /\ Event(new, c) = Event(db, c)
      BY <1>8, <1>10, <2>1
    <3> QED
      BY <1>13, <3>1
  <2>2. CASE c = id /\ d \in W
    BY <1>9, <2>2
  <2>3. CASE c = id /\ d \notin W
    <3>1. \A w \in W : Event(db, d) \cap Event(db, w) = {}
      BY <1>10, <1>13, <2>3
    <3> QED
      BY <1>9, <2>3, <3>1
  <2> QED
    BY <2>1, <2>2, <2>3
<1>15. Joins(EventsIn(db, old), EventsIn(new, canonical_moves(new)))
  BY <1>11, <1>12, <1>14 DEF Joins, EventsIn
<1> QED
  BY <1>2, <1>3, <1>15

LEMMA EventsSuperseded ==
  ASSUME TypeInv, SoundInv, OnceInv, EventInv, Supersede, SoundInv'
  PROVE  EventInv'
<1>0. \A m \in MoveIds : txn.moves[m] \in Row
  BY FieldTypes DEF TypeInv, TypeOK
<1>1. /\ disk' = disk /\ txn'.filed = txn.filed /\ InHand /\ ~InHand'
      /\ \A m \in MoveIds :
           txn'.moves[m] = IF m \in Members
                           THEN [txn.moves[m] EXCEPT !.superseded_by = merged,
                                                     !.review_state = "superseded"]
                           ELSE txn.moves[m]
  BY SupersededIs DEF Beside, InHand, Supersede
<1>2. /\ ordered[1] \in Members /\ Members \subseteq live(disk)
      /\ merged \in MoveIds \ live(disk) /\ merged # 0 /\ merged \notin Members
  BY <1>1, MembersAre, Ids
<1>3. \A m \in MoveIds :
        /\ txn'.moves[m].items = txn.moves[m].items
        /\ txn'.moves[m].origin = txn.moves[m].origin
        /\ txn'.moves[m].person = txn.moves[m].person
        /\ txn'.moves[m].review_state = IF m \in Members THEN "superseded" ELSE txn.moves[m].review_state
        /\ txn'.moves[m].superseded_by = IF m \in Members THEN merged ELSE txn.moves[m].superseded_by
  BY <1>0, <1>1 DEF Row
<1>4. Members \subseteq canonical_moves(txn) /\ merged \in canonical_moves(txn)
  BY <1>1, <1>2, CanonicalRows DEF OnceInv, SoundInv, HandInv
<1>5. canonical_moves(txn') = canonical_moves(txn) \ Members
  BY <1>2, <1>3, CanonicalRows
<1>6. live(txn') = live(txn) /\ live(txn) \subseteq MoveIds
  BY <1>3, <1>4 DEF live, canonical_moves
<1>7. txn.moves[ordered[1]].person = txn.moves[merged].person
  BY <1>1, <1>2, FoundIs DEF SoundInv, HandInv, winner
<1>8. /\ Sound(txn) /\ Sound(txn') /\ Origins(txn) /\ Heired(txn, live(txn) \ {merged})
      /\ txn.moves[merged].origin = {} /\ \A k \in live(txn) : txn.moves[k].superseded_by # merged
  BY <1>1 DEF SoundInv, EventInv
<1>9. Members \in SUBSET (canonical_moves(txn) \ {merged})
  BY <1>2, <1>4
<1>10. /\ Origins(txn') /\ Heired(txn', live(txn'))
       /\ Joins(EventsIn(txn, canonical_moves(txn) \ {merged}), EventsIn(txn', canonical_moves(txn')))
  <2>1. \A m \in live(txn) :
          /\ txn'.moves[m].origin = txn.moves[m].origin
          /\ txn'.moves[m].items = txn.moves[m].items
          /\ txn'.moves[m].person = txn.moves[m].person
          /\ txn'.moves[m].superseded_by = IF m \in Members THEN merged ELSE txn.moves[m].superseded_by
    BY <1>3, <1>6
  <2> QED
    BY <1>1, <1>2, <1>4, <1>5, <1>6, <1>7, <1>8, <1>9, <2>1, EventsJoined
<1>11. InView = canonical_moves(txn) \ {merged} /\ InView' = canonical_moves(txn')
  BY <1>1 DEF InView
<1>12. Joins(EventsIn(disk, canonical_moves(disk)), EventsIn(txn', canonical_moves(txn')))
  <2>1. Joins(EventsIn(disk, canonical_moves(disk)), EventsIn(txn, canonical_moves(txn) \ {merged}))
    BY <1>11 DEF EventInv
  <2> QED
    BY <1>10, <2>1, JoinsOn
<1> QED
  BY <1>1, <1>10, <1>11, <1>12 DEF EventInv

\* What goes with the rows that go: all that was merged into them.
Into(db, gone) == {n \in live(db) : Path(db, n) \cap gone # {}}
Lost(db, gone) == UNION {db.moves[n].origin : n \in Into(db, gone)}
Less(E, gone) == {e \ gone : e \in E} \ {{}}

LEMMA EventsLess ==
  ASSUME NEW db, NEW new, Sound(db), Sound(new), Origins(db), Heired(new, live(new)),
         NEW gone \in SUBSET live(db), live(new) = live(db) \ gone,
         canonical_moves(new) = canonical_moves(db) \ gone,
         \A m \in live(new) :
           /\ new.moves[m].origin = db.moves[m].origin
           /\ new.moves[m].superseded_by =
                IF db.moves[m].superseded_by \in gone THEN 0 ELSE db.moves[m].superseded_by
  PROVE  EventsIn(new, canonical_moves(new)) = Less(EventsIn(db, canonical_moves(db)), Lost(db, gone))
<1> DEFINE into == Into(db, gone)
<1>1. gone \subseteq into /\ into \subseteq live(db)
  BY PathIs DEF Into
<1>2. ASSUME NEW n \in live(db) \ into PROVE Path(new, n) = Path(db, n)
  <2>1. /\ n \in live(db) /\ Path(db, n) \subseteq live(db) /\ Onward(db, Path(db, n))
        /\ Path(db, n) \cap gone = {}
    BY PathIs DEF Into
  <2>2. \A k \in Path(db, n) : k \in live(new) /\ new.moves[k].superseded_by = db.moves[k].superseded_by
    BY <2>1 DEF Onward
  <2> QED
    BY <2>1, <2>2, PathKept
<1>3. ASSUME NEW c \in canonical_moves(db) \ gone PROVE c \notin into
  <2>1. c \in live(db) /\ db.moves[c].superseded_by = 0
    BY CanonicalRows DEF canonical_moves
  <2>2. Path(db, c) = {c}
    BY <2>1, PathStep
  <2> QED
    BY <2>2 DEF Into
<1>4. ASSUME NEW n \in into \ gone PROVE Path(new, n) \subseteq into \ gone
  <2> DEFINE s == into \ gone
  <2>1. s \in SUBSET live(new) /\ n \in s
    BY <1>1
  <2>2. Onward(new, s)
    <3> SUFFICES ASSUME NEW k \in s, db.moves[k].superseded_by \notin gone
                 PROVE  db.moves[k].superseded_by \in s
      BY <2>1 DEF Onward
    <3>1. k \in live(db) /\ k \notin gone /\ Path(db, k) \cap gone # {}
      BY DEF Into
    <3>2. db.moves[k].superseded_by # 0
      BY <3>1, PathStep
    <3>3. /\ db.moves[k].superseded_by \in live(db)
          /\ Path(db, k) \subseteq {k} \cup Path(db, db.moves[k].superseded_by)
      BY <3>1, <3>2, PathStep
    <3>4. Path(db, db.moves[k].superseded_by) \cap gone # {}
      BY <3>1, <3>3
    <3> QED
      BY <3>3, <3>4 DEF Into
  <2> QED
    BY <2>1, <2>2, PathIs
<1>5. ASSUME NEW c \in canonical_moves(new)
      PROVE  /\ Behind(new, c) = Behind(db, c) \ into
             /\ Event(new, c) = Event(db, c) \ Lost(db, gone)
             /\ Event(new, c) # {}
  <2>1. c \in canonical_moves(db) \ gone /\ c \in live(new)
    BY DEF canonical_moves
  <2>2. \A n \in live(db) : n \in Behind(new, c) <=> n \in Behind(db, c) \ into
    BY <1>1, <1>2, <1>3, <1>4, <2>1 DEF Behind
  <2>3. Behind(new, c) = Behind(db, c) \ into
    BY <2>2 DEF Behind
  <2>4. \A n \in Behind(new, c) : new.moves[n].origin = db.moves[n].origin
    BY DEF Behind
  <2>5. ASSUME NEW r \in Event(new, c) PROVE r \in Event(db, c) \ Lost(db, gone)
    <3>1. PICK n \in Behind(db, c) \ into : r \in db.moves[n].origin
      BY <2>3, <2>4 DEF Event
    <3>2. ASSUME NEW k \in into, r \in db.moves[k].origin PROVE FALSE
      <4>1. k \in live(db) /\ n \in live(db) /\ k # n
        BY <1>1, <3>1 DEF Behind
      <4> QED
        BY <3>1, <3>2, <4>1 DEF Origins
    <3> QED
      BY <3>1, <3>2 DEF Event, Lost
  <2>6. ASSUME NEW r \in Event(db, c) \ Lost(db, gone) PROVE r \in Event(new, c)
    <3>1. PICK n \in Behind(db, c) : r \in db.moves[n].origin
      BY DEF Event
    <3>2. n \notin into
      BY <3>1 DEF Lost
    <3> QED
      BY <2>3, <2>4, <3>1, <3>2 DEF Event
  <2>7. Heired(new, Behind(new, c))
    BY DEF Heired, Behind
  <2>8. Event(new, c) # {}
    BY <2>1, <2>7, EventIsSomething
  <2> QED
    BY <2>3, <2>5, <2>6, <2>8
<1>6. ASSUME NEW c \in canonical_moves(db) \cap gone PROVE Event(db, c) \ Lost(db, gone) = {}
  <2>1. Behind(db, c) \subseteq into
    BY DEF Behind, Into
  <2> QED
    BY <2>1 DEF Event, Lost
<1> DEFINE left == Less(EventsIn(db, canonical_moves(db)), Lost(db, gone))
<1>7. EventsIn(new, canonical_moves(new)) \subseteq left
  <2> SUFFICES ASSUME NEW c \in canonical_moves(new) PROVE Event(new, c) \in left
    BY DEF EventsIn
  <2>1. c \in canonical_moves(db)
    OBVIOUS
  <2> QED
    BY <1>5, <2>1 DEF EventsIn, Less
<1>8. ASSUME NEW c \in canonical_moves(db), Event(db, c) \ Lost(db, gone) # {}
      PROVE  Event(db, c) \ Lost(db, gone) \in EventsIn(new, canonical_moves(new))
  <2>1. c \in canonical_moves(new)
    BY <1>6, <1>8
  <2> QED
    BY <1>5, <2>1 DEF EventsIn
<1>9. left \subseteq EventsIn(new, canonical_moves(new))
  <2> SUFFICES ASSUME NEW x \in left PROVE x \in EventsIn(new, canonical_moves(new))
    OBVIOUS
  <2>1. PICK c \in canonical_moves(db) : x = Event(db, c) \ Lost(db, gone)
    BY DEF EventsIn, Less
  <2>2. x # {}
    BY DEF Less
  <2> QED
    BY <1>8, <2>1, <2>2
<1> QED
  BY <1>7, <1>9

Seen == EventsIn(disk, canonical_moves(disk))

\* A report that is filed is an event of its own.
LEMMA EventFiled ==
  ASSUME TypeInv, SoundInv, EventInv, NEW r \in Reports, FileReport(r), TypeInv', SoundInv'
  PROVE  EventInv' /\ r \notin UNION Seen /\ Seen' = Seen \cup {{r}}
<1>0. disk \in Database /\ disk' \in Database /\ Sound(disk) /\ Sound(disk')
  BY DEF TypeInv, TypeOK, SoundInv
<1>1. /\ disk' = txn' /\ ~InHand' /\ r \notin disk.filed /\ disk'.filed = disk.filed \cup {r}
  BY FiledIs DEF InHand
<1>2. PICK id \in MoveIds \ live(disk), new \in Row :
        /\ disk'.moves = [disk.moves EXCEPT ![id] = new]
        /\ new.review_state \in {"auto_accepted", "pending_review"}
        /\ new.origin = {r} /\ new.items = {r.item}
        /\ new.superseded_by = 0 /\ new.team = 0
  BY FiledIs
<1>3. Origins(disk) /\ Heired(disk, live(disk))
  BY DEF EventInv
<1>4. Origins(disk') /\ Heired(disk', live(disk)) /\ live(disk') = live(disk) \cup {id}
  <2>1. /\ disk.filed \cup new.origin \subseteq disk'.filed /\ new.review_state # "absent"
        /\ new.origin \cap disk.filed = {} /\ \A s \in new.origin : new.items = {s.item}
    BY <1>1, <1>2
  <2>2. id \in MoveIds \ live(disk) /\ disk'.moves = [disk.moves EXCEPT ![id] = new]
    BY <1>2
  <2> QED
    BY <1>0, <1>3, <2>1, <2>2, OriginsBeside
<1>5. disk'.moves[id] = new /\ \A m \in MoveIds : m # id => disk'.moves[m] = disk.moves[m]
  BY <1>0, <1>2 DEF Database
<1>6. Heired(disk', live(disk'))
  BY <1>2, <1>4, <1>5 DEF Heired
<1>7. EventInv'
  BY <1>0, <1>1, <1>4, <1>6, EventsAtRest
<1>8. Event(disk', id) = {r} /\ \A c \in live(disk) : Event(disk', c) = Event(disk, c)
  <2>1. new.superseded_by = 0 /\ new.review_state # "absent" /\ new.origin = {r}
    BY <1>2
  <2>2. id \in MoveIds \ live(disk) /\ disk'.moves = [disk.moves EXCEPT ![id] = new]
    BY <1>2
  <2> QED
    BY <1>0, <2>1, <2>2, EventBeside
<1>9. canonical_moves(disk') = canonical_moves(disk) \cup {id} /\ canonical_moves(disk) \subseteq live(disk)
  <2>1. \A m \in MoveIds : m # id => (m \in canonical_moves(disk') <=> m \in canonical_moves(disk))
    BY <1>5, CanonicalRows
  <2>2. id \in canonical_moves(disk')
    BY <1>2, <1>5, CanonicalRows
  <2> QED
    BY <1>2, <2>1, <2>2, CanonicalRows DEF canonical_moves
<1>10. Seen' = Seen \cup {{r}}
  BY <1>8, <1>9 DEF Seen, EventsIn
<1>11. r \notin UNION Seen
  BY <1>1, <1>3 DEF Seen, EventsIn, Event, Behind, Origins
<1> QED
  BY <1>7, <1>10, <1>11

\* A reextract forgets what it discards.
LEMMA EventsDiscarded ==
  ASSUME TypeInv, SoundInv, EventInv, NEW scope \in DiscardScopes, Discard(scope), TypeInv', SoundInv'
  PROVE  EventInv' /\ Seen' = Less(Seen, Lost(disk, ReadFrom(scope)))
<1> DEFINE gone == ReadFrom(scope)
<1>0. /\ disk \in Database /\ disk' \in Database /\ Sound(disk) /\ Sound(disk')
      /\ Origins(disk) /\ Heired(disk, live(disk))
  BY DEF TypeInv, TypeOK, SoundInv, EventInv
<1>1. /\ disk' = txn' /\ ~InHand' /\ disk'.filed = {r \in disk.filed : SourceOf[r.item] \notin scope}
      /\ gone \subseteq live(disk) /\ ~Restricted(gone)
      /\ \A m \in MoveIds :
           LET r == IF m \in gone THEN Absent ELSE disk.moves[m]
           IN disk'.moves[m] = r \/ disk'.moves[m] = [r EXCEPT !.team = 0]
  BY DiscardedIs DEF InHand
<1>2. \A m \in MoveIds : disk.moves[m] \in Row
  BY <1>0, FieldTypes
<1>3. ASSUME NEW r \in Row
      PROVE  /\ [r EXCEPT !.team = 0].review_state = r.review_state
             /\ [r EXCEPT !.team = 0].superseded_by = r.superseded_by
             /\ [r EXCEPT !.team = 0].origin = r.origin
             /\ [r EXCEPT !.team = 0].person = r.person
             /\ [r EXCEPT !.team = 0].items = r.items
  BY DEF Row
<1>4. \A m \in MoveIds \ gone : /\ disk'.moves[m].review_state = disk.moves[m].review_state
                                /\ disk'.moves[m].superseded_by = disk.moves[m].superseded_by
                                /\ disk'.moves[m].origin = disk.moves[m].origin
                                /\ disk'.moves[m].person = disk.moves[m].person
                                /\ disk'.moves[m].items = disk.moves[m].items
  <2> TAKE m \in MoveIds \ gone
  <2>1. disk'.moves[m] = disk.moves[m] \/ disk'.moves[m] = [disk.moves[m] EXCEPT !.team = 0]
    BY <1>1
  <2> QED
    BY <1>2, <1>3, <2>1
<1>5. \A m \in gone : disk'.moves[m].review_state = "absent"
  <2> TAKE m \in gone
  <2>1. disk'.moves[m] = Absent \/ disk'.moves[m] = [Absent EXCEPT !.team = 0]
    BY <1>1, LiveRows
  <2> QED
    BY <2>1, AbsentIs
<1>6. live(disk') = live(disk) \ gone
  BY <1>1, <1>4, <1>5, LiveRows DEF live
<1>7. canonical_moves(disk') = canonical_moves(disk) \ gone
  BY <1>1, <1>4, <1>6, LiveRows DEF canonical_moves
<1>8. \A m \in live(disk') : m \in MoveIds \ gone /\ m \in live(disk) /\ disk.moves[m].superseded_by \notin gone
  BY <1>1, <1>6, LiveRows DEF Restricted
<1>9. ASSUME NEW k \in gone, disk.moves[k].superseded_by # 0
      PROVE  disk.moves[k].superseded_by \in gone
  BY <1>0, <1>1, <1>9 DEF ReadFrom, Sound, SupersededBy
<1>10. Heired(disk', live(disk'))
  <2> SUFFICES ASSUME NEW n \in live(disk'), disk.moves[n].origin = {}
               PROVE  \E k \in live(disk') : /\ disk'.moves[k].superseded_by = n
                                             /\ disk'.moves[k].person = disk'.moves[n].person
    BY <1>4, <1>8 DEF Heired
  <2>1. PICK k \in live(disk) : disk.moves[k].superseded_by = n /\ disk.moves[k].person = disk.moves[n].person
    BY <1>0, <1>8 DEF Heired
  <2>2. k \notin gone
    BY <1>8, <1>9, <2>1, Ids
  <2> QED
    BY <1>4, <1>6, <1>8, <2>1, <2>2
<1>11. Origins(disk')
  <2>1. \A m \in live(disk') : \A r \in disk'.moves[m].origin :
          r \in disk'.filed /\ disk'.moves[m].items = {r.item}
    <3> TAKE m \in live(disk')
    <3> TAKE r \in disk'.moves[m].origin
    <3>1. r \in disk.filed /\ disk.moves[m].items = {r.item} /\ disk'.moves[m].items = {r.item}
      BY <1>0, <1>4, <1>8 DEF Origins
    <3>2. SourceOf[r.item] \notin scope
      BY <1>8, <3>1 DEF ReadFrom
    <3> QED
      BY <1>1, <3>1, <3>2
  <2>2. \A m, n \in live(disk') : m # n => disk'.moves[m].origin \cap disk'.moves[n].origin = {}
    BY <1>0, <1>4, <1>8 DEF Origins
  <2> QED
    BY <2>1, <2>2 DEF Origins
<1>12. EventInv'
  BY <1>0, <1>1, <1>10, <1>11, EventsAtRest
<1>13. Seen' = Less(Seen, Lost(disk, gone))
  <2>1. \A m \in live(disk') :
          /\ disk'.moves[m].origin = disk.moves[m].origin
          /\ disk'.moves[m].superseded_by =
               IF disk.moves[m].superseded_by \in gone THEN 0 ELSE disk.moves[m].superseded_by
    BY <1>4, <1>8
  <2>2. gone \in SUBSET live(disk)
    BY <1>1
  <2> HIDE DEF gone
  <2>3. EventsIn(disk', canonical_moves(disk')) =
          Less(EventsIn(disk, canonical_moves(disk)), Lost(disk, gone))
    BY <1>0, <1>6, <1>7, <1>10, <2>1, <2>2, EventsLess
  <2> QED
    BY <2>3 DEF Seen
<1> QED
  BY <1>12, <1>13

\* An erasure forgets the person's rows and what was merged into them.
LEMMA EventsErased ==
  ASSUME TypeInv, BlankInv, SoundInv, EventInv, NEW p \in Spellings, Erase(p), TypeInv', SoundInv'
  PROVE  EventInv' /\ Seen' = Less(Seen, Lost(disk, RowsOf(p)))
<1> DEFINE gone == RowsOf(p)
<1>0. /\ disk \in Database /\ disk' \in Database /\ Sound(disk) /\ Sound(disk')
      /\ Origins(disk) /\ Heired(disk, live(disk))
  BY DEF TypeInv, TypeOK, SoundInv, EventInv
<1>1. /\ disk' = txn' /\ ~InHand' /\ disk'.filed = disk.filed
      /\ \A m \in MoveIds :
           disk'.moves[m] =
             IF m \in gone THEN Absent
             ELSE IF disk.moves[m].superseded_by \in gone
                  THEN [disk.moves[m] EXCEPT !.superseded_by = 0, !.review_state = "rejected"]
                  ELSE disk.moves[m]
  BY ErasedAre DEF InHand
<1>2. gone \subseteq live(disk) /\ gone \subseteq MoveIds
  BY LiveRows DEF RowsOf
<1>3. \A m \in MoveIds : disk.moves[m] \in Row
  BY <1>0, FieldTypes
<1>4. ASSUME NEW r \in Row
      PROVE  LET q == [r EXCEPT !.superseded_by = 0, !.review_state = "rejected"]
             IN /\ q.review_state = "rejected" /\ q.superseded_by = 0
                /\ q.origin = r.origin /\ q.person = r.person /\ q.items = r.items
  BY DEF Row
<1>5. \A m \in MoveIds \ gone :
        /\ disk'.moves[m].review_state =
             IF disk.moves[m].superseded_by \in gone THEN "rejected" ELSE disk.moves[m].review_state
        /\ disk'.moves[m].superseded_by =
             IF disk.moves[m].superseded_by \in gone THEN 0 ELSE disk.moves[m].superseded_by
        /\ disk'.moves[m].origin = disk.moves[m].origin
        /\ disk'.moves[m].person = disk.moves[m].person
        /\ disk'.moves[m].items = disk.moves[m].items
  <2> TAKE m \in MoveIds \ gone
  <2>1. CASE disk.moves[m].superseded_by \in gone
    <3> DEFINE q == [disk.moves[m] EXCEPT !.superseded_by = 0, !.review_state = "rejected"]
    <3>1. disk'.moves[m] = q
      BY <1>1, <2>1
    <3>2. /\ q.review_state = "rejected" /\ q.superseded_by = 0 /\ q.origin = disk.moves[m].origin
          /\ q.person = disk.moves[m].person /\ q.items = disk.moves[m].items
      BY <1>3, <1>4
    <3> HIDE DEF q
    <3> QED
      BY <2>1, <3>1, <3>2
  <2>2. CASE disk.moves[m].superseded_by \notin gone
    BY <1>1, <2>2
  <2> QED
    BY <2>1, <2>2
<1>6. \A m \in gone : disk'.moves[m].review_state = "absent"
  BY <1>1, <1>2, AbsentIs
<1>7. \A m \in MoveIds : disk.moves[m].superseded_by \in gone =>
        disk.moves[m].superseded_by # 0
  BY <1>2, Ids
<1>9. live(disk') = live(disk) \ gone
  <2>1. \A m \in MoveIds \ live(disk) : disk.moves[m].superseded_by \notin gone
    BY <1>7, AbsentIs DEF BlankInv, Blank
  <2> QED
    BY <1>2, <1>5, <1>6, <2>1, LiveRows DEF live
<1>10. canonical_moves(disk') = canonical_moves(disk) \ gone
  BY <1>2, <1>5, <1>7, <1>9, LiveRows DEF canonical_moves
<1>11. \A m \in live(disk') : m \in MoveIds \ gone /\ m \in live(disk)
  BY <1>9, LiveRows
<1>12. Heired(disk', live(disk'))
  <2> SUFFICES ASSUME NEW n \in live(disk'), disk.moves[n].origin = {}
               PROVE  \E k \in live(disk') : /\ disk'.moves[k].superseded_by = n
                                             /\ disk'.moves[k].person = disk'.moves[n].person
    BY <1>5, <1>11 DEF Heired
  <2>1. PICK k \in live(disk) : disk.moves[k].superseded_by = n /\ disk.moves[k].person = disk.moves[n].person
    BY <1>0, <1>11 DEF Heired
  <2>2. k \notin gone
    BY <1>11, <2>1 DEF RowsOf
  <2> QED
    BY <1>5, <1>9, <1>11, <2>1, <2>2
<1>13. Origins(disk')
  <2>1. \A m \in live(disk') : /\ m \in live(disk) /\ disk'.moves[m].origin = disk.moves[m].origin
                               /\ disk'.moves[m].items = disk.moves[m].items
    BY <1>5, <1>11
  <2>2. \A m, n \in live(disk') : m # n => disk'.moves[m].origin \cap disk'.moves[n].origin = {}
    BY <1>0, <2>1 DEF Origins
  <2>3. \A m \in live(disk') : \A r \in disk'.moves[m].origin :
          r \in disk'.filed /\ disk'.moves[m].items = {r.item}
    <3>1. disk'.filed = disk.filed
      BY <1>1
    <3> QED
      BY <1>0, <2>1, <3>1 DEF Origins
  <2> QED
    BY <2>2, <2>3 DEF Origins
<1>14. EventInv'
  BY <1>0, <1>1, <1>12, <1>13, EventsAtRest
<1>15. Seen' = Less(Seen, Lost(disk, gone))
  <2>1. \A m \in live(disk') :
          /\ disk'.moves[m].origin = disk.moves[m].origin
          /\ disk'.moves[m].superseded_by =
               IF disk.moves[m].superseded_by \in gone THEN 0 ELSE disk.moves[m].superseded_by
    BY <1>5, <1>11
  <2>2. gone \in SUBSET live(disk)
    BY <1>2
  <2> HIDE DEF gone
  <2>3. EventsIn(disk', canonical_moves(disk')) =
          Less(EventsIn(disk, canonical_moves(disk)), Lost(disk, gone))
    BY <1>0, <1>9, <1>10, <1>12, <2>1, <2>2, EventsLess
  <2> QED
    BY <2>3 DEF Seen
<1> QED
  BY <1>14, <1>15

LEMMA EventStep ==
  ASSUME "interrupt" \notin Faults, TypeInv, BlankInv, SoundInv, OnceInv, EventInv, [Next]_vars,
         TypeInv', SoundInv'
  PROVE  /\ EventInv'
         /\ \/ Seen' = Seen
            \/ \E r \in Reports : r \notin UNION Seen /\ Seen' = Seen \cup {{r}}
            \/ Joins(Seen, Seen')
            \/ \E gone : Seen' = Less(Seen, Lost(disk, gone))
<1>0. \A db, other : db = other => EventsIn(db, canonical_moves(db)) = EventsIn(other, canonical_moves(other))
  OBVIOUS
<1>1. CASE InsertMerged
  BY <1>0, <1>1, InsertedIs, EventsInserted DEF Beside, Seen
<1>2. CASE CopySources \/ CopyGroups \/ LearnSpellings
  BY <1>0, <1>2, CopiedIs, EventsCopied DEF Beside, Seen
<1>3. CASE Supersede
  BY <1>0, <1>3, SupersededIs, EventsSuperseded DEF Beside, Seen
<1>4. CASE QueueQuestion \/ InsertTeam \/ StaffTeam
  BY <1>0, <1>4, OpenedIs, StaffedIs, EventsOpened DEF Beside, Seen
<1>5. CASE RefuseSpellings \/ FinishDedupe \/ Kill \/ Interrupt
  <2>1. Ends(disk) \/ (Ends(txn) /\ pc = "merge")
    BY <1>5, EndedIs
  <2>2. CASE Ends(disk)
    <3>1. disk' = disk /\ txn' = disk' /\ ~InHand'
      BY <2>2 DEF Ends, InHand
    <3>2. Sound(disk') /\ Origins(disk') /\ Heired(disk', live(disk'))
      BY <3>1 DEF SoundInv, EventInv
    <3>3. EventInv'
      BY <3>1, <3>2, EventsAtRest
    <3> QED
      BY <1>0, <3>1, <3>3 DEF Seen
  <2>3. CASE Ends(txn) /\ pc = "merge"
    <3>1. disk' = txn /\ txn' = disk' /\ ~InHand' /\ ~InHand
      BY <2>3 DEF Ends, InHand
    <3>2. Sound(disk') /\ Origins(disk') /\ Heired(disk', live(disk'))
      BY <3>1 DEF SoundInv, EventInv
    <3>3. EventInv'
      BY <3>1, <3>2, EventsAtRest
    <3>4. Joins(EventsIn(disk, canonical_moves(disk)), EventsIn(txn, canonical_moves(txn)))
      BY <3>1 DEF EventInv, InView
    <3>5. Seen' = EventsIn(txn, canonical_moves(txn))
      BY <3>1 DEF Seen
    <3> QED
      BY <3>3, <3>4, <3>5 DEF Seen
  <2> QED
    BY <2>1, <2>2, <2>3
<1>6. CASE StartDedupe
  <2>1. disk' = disk /\ txn' = disk' /\ ~InHand'
    BY <1>6, StartedIs DEF InHand
  <2>2. Sound(disk') /\ Origins(disk') /\ Heired(disk', live(disk'))
    BY <2>1 DEF SoundInv, EventInv
  <2>3. EventInv'
    BY <2>1, <2>2, EventsAtRest
  <2> QED
    BY <1>0, <2>1, <2>3 DEF Seen
<1>7. CASE \E r \in Reports : FileReport(r)
  BY <1>7, EventFiled
<1>8. CASE \E scope \in DiscardScopes : Discard(scope)
  BY <1>8, EventsDiscarded
<1>9. CASE \E p \in Spellings : Erase(p)
  BY <1>9, EventsErased
<1>10. CASE UNCHANGED vars
  <2>1. disk' = disk /\ txn' = txn /\ pc' = pc /\ merged' = merged
    BY <1>10 DEF vars, local
  <2>2. InView' = InView /\ InHand' = InHand
    BY <2>1 DEF InView, InHand
  <2> QED
    BY <1>0, <2>1, <2>2 DEF EventInv, Seen
<1> QED
  BY <1>1, <1>2, <1>3, <1>4, <1>5, <1>6, <1>7, <1>8, <1>9, <1>10 DEF Next, Step

LEMMA EventStart == Init => EventInv /\ EventsOf(disk) = {}
<1> SUFFICES ASSUME Init PROVE EventInv /\ EventsOf(disk) = {}
  OBVIOUS
<1>1. disk = EmptyDatabase /\ txn = EmptyDatabase /\ ~InHand
  BY DEF Init, InHand
<1>2. live(disk) = {} /\ canonical_moves(disk) = {}
  BY <1>1, AbsentIs DEF live, canonical_moves, EmptyDatabase
<1> QED
  BY <1>1, <1>2 DEF EventInv, EventsOf, Origins, Heired, Joins, EventsIn, InView

LEMMA EventStepImplements ==
  ASSUME "interrupt" \notin Faults, TypeInv, BlankInv, SoundInv, OnceInv, EventInv, [Next]_vars
  PROVE  EventInv' /\ (Events!Next \/ UNCHANGED EventsOf(disk))
<1>1. TypeInv' /\ SoundInv'
  BY NextTyped, SoundStep
<1>2. EventsOf(disk) = Seen /\ EventsOf(disk') = Seen'
  BY <1>1, EventIs DEF SoundInv, Seen
<1>3. EventInv'
  BY <1>1, EventStep
<1>4. CASE Seen' = Seen
  BY <1>2, <1>3, <1>4
<1>5. CASE \E r \in Reports : r \notin UNION Seen /\ Seen' = Seen \cup {{r}}
  BY <1>2, <1>3, <1>5 DEF Events!Next, Events!Enter, Events!Known
<1>6. CASE Joins(Seen, Seen')
  BY <1>2, <1>3, <1>6 DEF Events!Next, Events!Join, Events!Known, Joins
<1>7. CASE \E gone : Seen' = Less(Seen, Lost(disk, gone))
  <2>1. PICK gone : Seen' = Less(Seen, Lost(disk, gone))
    BY <1>7
  <2>2. Lost(disk, gone) \in SUBSET Reports
    BY FieldTypes, LiveRows DEF Lost, Into, TypeInv, TypeOK
  <2>3. Events!Forget(Lost(disk, gone))
    BY <1>2, <2>1 DEF Events!Forget, Less
  <2> QED
    BY <1>3, <2>2, <2>3 DEF Events!Next
<1> QED
  BY <1>1, <1>4, <1>5, <1>6, <1>7, EventStep

\* Without a Ctrl-C in the middle of a component the stage, the extract stage that
\* fills its table, reextract and erase_person together implement MoveEvents: the
\* events the table shows are a partition of reports, a run only ever joins them.
THEOREM DedupeRefines ==
  ASSUME "interrupt" \notin Faults
  PROVE  Spec => EventsSpec
<1>1. Init => EventInv /\ Events!Init
  BY EventStart DEF Events!Init
<1>2. TypeInv /\ BlankInv /\ SoundInv /\ OnceInv /\ EventInv /\ [Next]_vars
        => EventInv' /\ [Events!Next]_(EventsOf(disk))
  BY EventStepImplements
<1> QED
  BY <1>1, <1>2, TypeInvariant, BlankInvariant, SoundInvariant, OnceInvariant, PTL
     DEF Spec, EventsSpec, Events!Spec
=============================================================================
