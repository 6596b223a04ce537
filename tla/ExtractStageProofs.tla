------------------------- MODULE ExtractStageProofs -------------------------
(***************************************************************************)
(* Theorems about ExtractStage, for every set of items, readings and       *)
(* faults the assumptions of that module allow.                            *)
(***************************************************************************)
EXTENDS ExtractStage, TLAPS

-----------------------------------------------------------------------------
(* Type correctness.                                                        *)

\* The empty database is a database.
LEMMA EmptyDatabaseType == EmptyDatabase \in Database
  BY ExtractAssumption DEF EmptyDatabase, Database

\* No moves is a sequence of moves.
LEMMA EmptySeqType == <<>> \in Seq(Move)
  OBVIOUS

\* However a run ends, the stage's variables keep their types.
LEMMA EndRunType ==
  ASSUME NEW db \in Database, StageType,
         EndRun(db, run) \/ EndRun(db, "failed") \/ EndRun(db, "succeeded")
  PROVE  StageType'
<1>1. disk' \in Database /\ txn' \in Database
  BY DEF EndRun
<1>2. pc' \in Stages /\ spent' \in BOOLEAN
  BY DEF EndRun, Stages
<1>3. todo' \in SUBSET Items /\ cur' \in Items \cup {NoItem} /\ fresh' \in SUBSET Firms
  BY DEF EndRun
<1>4. moves' \in Seq(Move)
  BY EmptySeqType DEF EndRun
<1>5. slot' \in Nat \ {0}
  BY DEF EndRun
<1>6. run' \in {"none", "running", "succeeded", "failed"}
  BY DEF EndRun, StageType
<1>7. (Busy => cur \in Items)'
  BY DEF EndRun, Busy
<1>8. (pc \in {"insert", "source", "classify", "queue"} => slot \in DOMAIN moves)'
  BY DEF EndRun
<1>9. QED
  BY <1>1, <1>2, <1>3, <1>4, <1>5, <1>6, <1>7, <1>8 DEF StageType

\* An exception that unwinds through record() keeps the types.
LEMMA UnwindType ==
  ASSUME StageType, Unwind PROVE StageType'
<1>1. disk \in Database /\ txn \in Database
  BY DEF StageType
<1>2. QED
  BY <1>1, EndRunType DEF Unwind

\* A commit at the end of an item keeps the types.
LEMMA CommitItemType ==
  ASSUME StageType, NEW db \in Database, CommitItem(db)
  PROVE  StageType'
<1>1. CASE EndRun(disk, "failed")
  <2>1. disk \in Database
    BY DEF StageType
  <2>2. QED
    BY <1>1, <2>1, EndRunType
<1>2. CASE ~EndRun(disk, "failed")
  <2>1. disk' \in Database /\ txn' \in Database
    BY <1>2 DEF CommitItem
  <2>2. pc' \in Stages /\ spent' \in BOOLEAN
    BY <1>2 DEF CommitItem, Stages
  <2>3. todo' \in SUBSET Items /\ cur' \in Items \cup {NoItem} /\ fresh' \in SUBSET Firms
    BY <1>2 DEF CommitItem, StageType
  <2>4. moves' \in Seq(Move)
    BY <1>2, EmptySeqType DEF CommitItem
  <2>5. slot' \in Nat \ {0}
    BY <1>2 DEF CommitItem
  <2>6. run' \in {"none", "running", "succeeded", "failed"}
    BY <1>2 DEF CommitItem, StageType
  <2>7. (Busy => cur \in Items)'
    BY <1>2 DEF CommitItem, Busy
  <2>8. (pc \in {"insert", "source", "classify", "queue"} => slot \in DOMAIN moves)'
    BY <1>2 DEF CommitItem
  <2>9. QED
    BY <2>1, <2>2, <2>3, <2>4, <2>5, <2>6, <2>7, <2>8 DEF StageType
<1>3. QED
  BY <1>1, <1>2

\* A step that stays on the item in hand: the types of what it changes suffice.
LEMMA StatementType ==
  ASSUME StageType, Busy, txn' \in Database, slot' \in Nat \ {0}, fresh' \in SUBSET Firms,
         pc' \in {"persist", "source", "classify", "queue", "insert"},
         pc' # "persist" => slot' \in DOMAIN moves,
         UNCHANGED <<disk, todo, cur, moves, spent, run>>
  PROVE  StageType'
<1>1. disk' \in Database /\ todo' \in SUBSET Items /\ cur' \in Items \cup {NoItem}
  BY DEF StageType
<1>2. moves' \in Seq(Move) /\ spent' \in BOOLEAN
  BY DEF StageType
<1>3. run' \in {"none", "running", "succeeded", "failed"}
  BY DEF StageType
<1>4. pc' \in Stages
  BY DEF Stages
<1>5. (Busy => cur \in Items)'
  BY DEF StageType, Busy
<1>6. (pc \in {"insert", "source", "classify", "queue"} => slot \in DOMAIN moves)'
  OBVIOUS
<1>7. QED
  BY <1>1, <1>2, <1>3, <1>4, <1>5, <1>6 DEF StageType

\* The row in hand is a fingerprint while there is a move in hand.
LEMMA RowType ==
  ASSUME StageType, slot \in DOMAIN moves, cur \in Items
  PROVE  row \in Fingerprint /\ moves[slot] \in Move /\ moves[slot].firms \in SUBSET Firms
<1>1. moves[slot] \in Move
  BY DEF StageType
<1>2. QED
  BY <1>1 DEF StageType, row, fingerprint, Fingerprint, Move

\* Every step of the specification keeps the types of the stage's variables.
LEMMA StageTypeStep ==
  ASSUME TypeOK, [Next]_vars PROVE StageType'
<1> USE DEF TypeOK
<1> disk \in Database /\ txn \in Database
  BY DEF StageType
<1>1. CASE StartRun
  <2>1. todo' \in SUBSET Items
    BY <1>1 DEF StartRun, Batches, pending_items
  <2>2. pc' \in Stages /\ run' \in {"none", "running", "succeeded", "failed"}
    BY <1>1 DEF StartRun, Stages
  <2>3. QED
    BY <1>1, <2>1, <2>2 DEF StartRun, StageType, Busy
<1>2. CASE FinishRun
  BY <1>2, EndRunType DEF FinishRun
<1>3. CASE OpenItem
  <2>1. PICK i \in todo : cur' = i /\ todo' = todo \ {i}
                          /\ \E bodyRead \in SUBSET {i} : txn' = [txn EXCEPT !.full = @ \cup bodyRead]
    BY <1>3 DEF OpenItem
  <2>2. i \in Items
    BY DEF StageType
  <2>3. txn' \in Database
    BY <2>1, <2>2 DEF Database
  <2>4. pc' \in Stages
    BY <1>3 DEF OpenItem, Stages
  <2>5. cur' \in Items /\ todo' \in SUBSET Items
    BY <2>1, <2>2 DEF StageType
  <2>6. QED
    BY <1>3, <2>3, <2>4, <2>5 DEF OpenItem, StageType
<1>4. CASE SettleWithoutMoves
  <2>1. cur \in Items
    BY <1>4 DEF SettleWithoutMoves, StageType, Busy
  <2>2. \A status \in {"rejected", "error"} : [txn EXCEPT !.state[cur] = status] \in Database
    BY <2>1 DEF Database
  <2>3. QED
    BY <1>4, <2>2, CommitItemType DEF SettleWithoutMoves
<1>5. CASE ReadMoves
  <2>1. cur \in Items
    BY <1>5 DEF ReadMoves, StageType, Busy
  <2>2. moves' \in Seq(Move)
    BY <1>5, <2>1, ExtractAssumption DEF ReadMoves, Reading
  <2>3. pc' \in Stages /\ slot' \in Nat \ {0}
    BY <1>5 DEF ReadMoves, Stages
  <2>4. QED
    BY <1>5, <2>1, <2>2, <2>3 DEF ReadMoves, StageType
<1>6. CASE HitCostCeiling
  BY <1>6, EndRunType DEF HitCostCeiling
<1>7. CASE SkipPersisted
  <2>1. slot' \in Nat \ {0}
    BY <1>7 DEF SkipPersisted, StageType
  <2>2. QED
    BY <1>7, <2>1 DEF SkipPersisted, StageType, Busy
<1>8. CASE Resolve
  <2>1. Busy /\ cur \in Items /\ slot \in DOMAIN moves
    BY <1>8 DEF Resolve, StageType, Busy
  <2>2. moves[slot].firms \in SUBSET Firms
    BY <2>1, RowType
  <2>3. txn' \in Database
    BY <1>8, <2>2 DEF Resolve, Database
  <2>4. QED
    BY <1>8, <2>1, <2>2, <2>3, StatementType DEF Resolve, StageType
<1>9. CASE InsertMove
  <2>1. Busy /\ cur \in Items /\ slot \in DOMAIN moves
    BY <1>9 DEF InsertMove, StageType, Busy
  <2>2. row \in Fingerprint
    BY <2>1, RowType
  <2>3. txn' \in Database
    <3> DEFINE rows == txn.moves \cup {row}
               pending == IF needs_review THEN txn.pending \cup {row} ELSE txn.pending
               deferred == IF moves[slot].refusedBy = "deferred trigger"
                           THEN txn.deferred \cup {row} ELSE txn.deferred
    <3>1. txn \in Database
      BY DEF StageType
    <3>2. rows \subseteq Fingerprint /\ pending \subseteq Fingerprint /\ deferred \subseteq Fingerprint
      BY <2>2, <3>1 DEF Database
    <3>3. txn' = [txn EXCEPT !.moves = rows, !.pending = pending, !.deferred = deferred]
      BY <1>9 DEF InsertMove
    <3> HIDE DEF rows, pending, deferred
    <3> QED
      BY <3>1, <3>2, <3>3 DEF Database
  <2>4. QED
    BY <1>9, <2>1, <2>3, StatementType DEF InsertMove, StageType, local
<1>10. CASE RefuseStatement
  BY <1>10, EndRunType DEF RefuseStatement, Abort
<1>11. CASE LinkSource
  <2>1. Busy /\ cur \in Items /\ slot \in DOMAIN moves
    BY <1>11 DEF LinkSource, StageType, Busy
  <2>2. row \in Fingerprint
    BY <2>1, RowType
  <2>3. txn' \in Database
    BY <1>11, <2>2 DEF LinkSource, Database
  <2>4. QED
    BY <1>11, <2>1, <2>3, StatementType DEF LinkSource, StageType, local
<1>12. CASE Classify
  <2>1. Busy /\ cur \in Items /\ slot \in DOMAIN moves
    BY <1>12 DEF Classify, StageType, Busy
  <2>2. row \in Fingerprint
    BY <2>1, RowType
  <2>3. txn' \in Database
    BY <1>12, <2>2 DEF Classify, Database
  <2>4. QED
    BY <1>12, <2>1, <2>3, StatementType DEF Classify, StageType, local
<1>13. CASE FailClassify
  BY <1>13, UnwindType DEF FailClassify
<1>14. CASE QueueReview
  <2>1. Busy /\ cur \in Items /\ slot \in DOMAIN moves
    BY <1>14 DEF QueueReview, StageType, Busy
  <2>2. row \in Fingerprint
    BY <2>1, RowType
  <2>3. txn' \in Database
    <3> DEFINE queued == IF needs_review \/ moves[slot].unplaced
                         THEN txn.queued \cup {row} ELSE txn.queued
               flags == IF needs_review THEN txn.flags \cup ({row} \X fresh) ELSE txn.flags
    <3>1. txn \in Database /\ fresh \subseteq Firms
      BY DEF StageType
    <3>2. queued \subseteq Fingerprint
      BY <2>2, <3>1 DEF Database
    <3>3. flags \subseteq Fingerprint \X Firms
      BY <2>2, <3>1 DEF Database
    <3>4. txn' = [txn EXCEPT !.queued = queued, !.flags = flags]
      BY <1>14 DEF QueueReview
    <3> HIDE DEF queued, flags
    <3> QED
      BY <3>1, <3>2, <3>3, <3>4 DEF Database
  <2>4. slot' \in Nat \ {0}
    BY <1>14 DEF QueueReview, StageType
  <2>5. QED
    BY <1>14, <2>1, <2>3, <2>4, StatementType DEF QueueReview, StageType
<1>15. CASE MarkExtracted
  <2>1. cur \in Items
    BY <1>15 DEF MarkExtracted, StageType, Busy
  <2>2. [txn EXCEPT !.state[cur] = "extracted"] \in Database
    BY <2>1 DEF Database
  <2>3. QED
    BY <1>15, <2>2, CommitItemType DEF MarkExtracted
<1>16. CASE LoadTaxonomy
  BY <1>16 DEF LoadTaxonomy, StageType, local, Busy
<1>17. CASE Kill
  BY <1>17, EndRunType DEF Kill
<1>18. CASE Interrupt
  BY <1>18, UnwindType, EndRunType DEF Interrupt, Abort
<1>19. ASSUME NEW scope \in DiscardScopes, Discard(scope) PROVE StageType'
  <2>1. disk' \in Database /\ txn' \in Database
    BY <1>19 DEF Discard, Database, WithoutMoves
  <2>2. QED
    BY <1>19, <2>1 DEF Discard, StageType, local, Busy
<1>20. CASE UNCHANGED vars
  BY <1>20 DEF vars, local, StageType, Busy
<1>21. QED
  BY <1>1, <1>2, <1>3, <1>4, <1>5, <1>6, <1>7, <1>8, <1>9, <1>10, <1>11, <1>12, <1>13,
     <1>14, <1>15, <1>16, <1>17, <1>18, <1>19, <1>20 DEF Next, Step

\* Every variable keeps its type, whatever faults may happen.
THEOREM TypeCorrect == Spec => []TypeOK
<1>1. Init => TypeOK
  <2> SUFFICES ASSUME Init PROVE TypeOK
    OBVIOUS
  <2>1. disk \in Database /\ txn \in Database /\ moves \in Seq(Move)
    BY EmptyDatabaseType, EmptySeqType DEF Init
  <2>2. StageType
    <3>1. pc \in Stages /\ ~Busy /\ pc \notin {"insert", "source", "classify", "queue"}
      BY DEF Init, Stages, Busy
    <3>2. todo \in SUBSET Items /\ cur \in Items \cup {NoItem} /\ fresh \in SUBSET Firms
      BY DEF Init
    <3>3. slot \in Nat \ {0}
      BY DEF Init
    <3>4. spent \in BOOLEAN
      BY DEF Init
    <3>5. run \in {"none", "running", "succeeded", "failed"}
      BY DEF Init
    <3>6. QED
      BY <2>1, <3>1, <3>2, <3>3, <3>4, <3>5 DEF StageType
  <2>3. QED
    BY <2>2, ExtractAssumption DEF Init, TypeOK
<1>2. TypeOK /\ [Next]_vars => TypeOK'
  <2> SUFFICES ASSUME TypeOK, [Next]_vars PROVE TypeOK'
    OBVIOUS
  <2>1. StageType'
    BY StageTypeStep
  <2>2. \/ UNCHANGED environment
        \/ taxonomy' = TRUE /\ UNCHANGED <<faults, discards>>
        \/ faults < MaxFaults /\ faults' = faults + 1 /\ UNCHANGED <<taxonomy, discards>>
        \/ discards < MaxDiscards /\ discards' = discards + 1 /\ UNCHANGED <<taxonomy, faults>>
    <3>1. Step => UNCHANGED environment
      BY DEF Step, FinishRun, OpenItem, SettleWithoutMoves, ReadMoves, SkipPersisted, Resolve,
             InsertMove, RefuseStatement, LinkSource, Classify, FailClassify, QueueReview,
             MarkExtracted
    <3>2. StartRun \/ HitCostCeiling \/ UNCHANGED vars => UNCHANGED environment
      BY DEF StartRun, HitCostCeiling, vars, environment
    <3>3. Kill \/ Interrupt => /\ faults < MaxFaults /\ faults' = faults + 1
                              /\ UNCHANGED <<taxonomy, discards>>
      BY DEF Kill, Interrupt, Fault
    <3>4. LoadTaxonomy => taxonomy' = TRUE /\ UNCHANGED <<faults, discards>>
      BY DEF LoadTaxonomy
    <3>5. (\E scope \in DiscardScopes : Discard(scope)) =>
             discards < MaxDiscards /\ discards' = discards + 1 /\ UNCHANGED <<taxonomy, faults>>
      BY DEF Discard
    <3>6. QED
      BY <3>1, <3>2, <3>3, <3>4, <3>5 DEF Next
  <2>3. taxonomy' \in BOOLEAN
    BY <2>2 DEF TypeOK, environment
  <2>4. faults' \in 0 .. MaxFaults
    BY <2>2, ExtractAssumption DEF TypeOK, environment
  <2>5. discards' \in 0 .. MaxDiscards
    BY <2>2, ExtractAssumption DEF TypeOK, environment
  <2>6. QED
    BY <2>1, <2>3, <2>4, <2>5 DEF TypeOK
<1>3. QED
  BY <1>1, <1>2, PTL DEF Spec

-----------------------------------------------------------------------------
(* Atomicity of an item.                                                    *)

\* A run that ends with the committed database keeps the invariant.
LEMMA RollbackKeepsInv ==
  ASSUME IInv, EndRun(disk, run) \/ EndRun(disk, "failed") \/ EndRun(disk, "succeeded"),
         taxonomy' = taxonomy
  PROVE  IInv'
<1>1. disk' = disk /\ txn' = disk /\ pc' = "idle" /\ todo' = {}
  BY DEF EndRun
<1>2. DiskInv'
  BY <1>1 DEF IInv, DiskInv, ItemAtomic, EveryMoveComplete, MovesOf
<1>3. BusyInv' /\ ItemInv' /\ AnswerInv' /\ RowInv'
  BY <1>1 DEF BusyInv, ItemInv, AnswerInv, RowInv, Busy, Persisting
<1>4. TodoInv'
  BY <1>1 DEF TodoInv, EndRun
<1>5. QED
  BY <1>2, <1>3, <1>4 DEF IInv

\* While the stage works on an item, what holds of the disk goes on holding.
LEMMA DiskUntouched ==
  ASSUME IInv, UNCHANGED <<disk, todo, cur>>, Busy'
  PROVE  DiskInv' /\ TodoInv'
BY DEF IInv, DiskInv, TodoInv, ItemAtomic, EveryMoveComplete, MovesOf, Busy

\* The row in hand is on neither database before InsertMove writes it: the
\* fingerprint check of a run that was never interrupted finds nothing.
LEMMA RowIsNew ==
  ASSUME TypeOK, IInv, pc \in {"persist", "insert"}, slot \in DOMAIN moves
  PROVE  row \notin txn.moves
<1>1. cur \in Items /\ disk.state[cur] = "new"
  BY DEF TypeOK, StageType, IInv, BusyInv, Busy
<1>2. MovesOf(disk, cur) = {}
  BY <1>1 DEF IInv, DiskInv, ItemAtomic
<1>3. row \notin disk.moves
  BY <1>2 DEF MovesOf, row, fingerprint
<1>4. row \notin Written
  <2>1. LastWritten = slot - 1 /\ slot \in Nat
    BY DEF LastWritten, TypeOK, StageType
  <2>2. \A s \in 1 .. slot - 1 : s # slot
    BY <2>1
  <2>3. \A f \in Written : f.slot \in 1 .. slot - 1
    BY <2>1 DEF Written, fingerprint
  <2>4. row.slot = slot
    BY DEF row, fingerprint
  <2>5. QED
    BY <2>2, <2>3, <2>4
<1>5. QED
  BY <1>3, <1>4 DEF IInv, AnswerInv, Persisting

\* Every step keeps IInv when no exception may strike inside an item.
LEMMA InvStep ==
  ASSUME "interrupt" \notin Faults, TypeOK, IInv, [Next]_vars
  PROVE  IInv'
<1> taxonomy /\ DiskInv /\ BusyInv /\ ItemInv /\ AnswerInv /\ RowInv /\ TodoInv
  BY DEF IInv
<1>1. CASE StartRun
  <2>1. DiskInv'
    BY <1>1 DEF StartRun, DiskInv, ItemAtomic, EveryMoveComplete, MovesOf, Busy
  <2>2. TodoInv'
    BY <1>1, ExtractAssumption DEF StartRun, TodoInv, Batches, pending_items, Busy
  <2>3. QED
    BY <1>1, <2>1, <2>2 DEF StartRun, IInv, BusyInv, ItemInv, AnswerInv, RowInv, Busy,
                            Persisting, environment
<1>2. CASE FinishRun
  BY <1>2, RollbackKeepsInv DEF FinishRun, environment
<1>3. CASE OpenItem
  <2>1. PICK i \in todo : /\ cur' = i
                          /\ todo' = todo \ {i}
                          /\ \E bodyRead \in SUBSET {i} :
                               txn' = [txn EXCEPT !.full = @ \cup bodyRead]
    BY <1>3 DEF OpenItem
  <2>2. txn = disk
    BY <1>3 DEF OpenItem, DiskInv, Busy
  <2>3. disk.state[i] = "new" /\ disk' = disk
    BY <1>3 DEF OpenItem, TodoInv
  <2>4. ItemInv' /\ txn'.state = disk'.state
    BY <2>1, <2>2, <2>3 DEF ItemInv, TypeOK, StageType, Database
  <2>5. DiskInv'
    BY <1>3 DEF OpenItem, DiskInv, ItemAtomic, EveryMoveComplete, MovesOf, Busy
  <2>6. BusyInv'
    BY <2>1, <2>3, <2>4 DEF BusyInv
  <2>7. AnswerInv' /\ RowInv'
    BY <1>3 DEF OpenItem, AnswerInv, RowInv, Persisting
  <2>8. TodoInv'
    BY <1>3, <2>1, <2>3 DEF TodoInv, OpenItem, Busy
  <2>9. QED
    BY <1>3, <2>4, <2>5, <2>6, <2>7, <2>8 DEF OpenItem, IInv, environment
<1>4. CASE SettleWithoutMoves
  <2>1. PICK reading \in Readings[cur], status \in {"rejected", "error"} :
           CommitItem([txn EXCEPT !.state[cur] = status])
    BY <1>4 DEF SettleWithoutMoves
  <2> DEFINE db == [txn EXCEPT !.state[cur] = status]
  <2>2. pc = "extract" /\ Busy /\ cur \in Items /\ disk.state[cur] = "new"
    BY <1>4 DEF SettleWithoutMoves, BusyInv, Busy, TypeOK, StageType
  <2>3. CASE EndRun(disk, "failed")
    BY <1>4, <2>3, RollbackKeepsInv DEF SettleWithoutMoves, environment
  <2>4. CASE ~EndRun(disk, "failed")
    <3>1. disk' = db /\ txn' = db /\ pc' = "next" /\ cur' = NoItem /\ todo' = todo
      BY <2>1, <2>4 DEF CommitItem
    <3>2. /\ db.moves = disk.moves /\ db.pending = disk.pending /\ db.unplaced = disk.unplaced
          /\ db.sourced = disk.sourced /\ db.placed = disk.placed /\ db.queued = disk.queued
          /\ db.deferred = disk.deferred
      BY <2>2 DEF ItemInv, TypeOK, StageType, Database
    <3>3. db.state = [disk.state EXCEPT ![cur] = status]
      BY <2>2 DEF BusyInv, TypeOK, StageType, Database
    <3>4. ItemAtomic'
      <4>1. \A i \in Items : MovesOf(disk, i)' = MovesOf(disk, i)
        BY <3>1, <3>2 DEF MovesOf
      <4>2. \A i \in Items \ {cur} : disk'.state[i] = disk.state[i]
        BY <3>1, <3>3 DEF TypeOK, StageType, Database
      <4>3. disk'.state[cur] = status /\ MovesOf(disk, cur) = {}
        BY <2>2, <3>1, <3>3 DEF DiskInv, ItemAtomic, TypeOK, StageType, Database
      <4>4. QED
        BY <2>2, <4>1, <4>2, <4>3 DEF DiskInv, ItemAtomic
    <3>5. DiskInv'
      BY <3>1, <3>2, <3>4 DEF DiskInv, EveryMoveComplete
    <3>6. BusyInv' /\ ItemInv' /\ AnswerInv' /\ RowInv'
      BY <3>1 DEF BusyInv, ItemInv, AnswerInv, RowInv, Busy, Persisting
    <3>7. TodoInv'
      BY <2>2, <3>1, <3>3, ExtractAssumption DEF TodoInv, Busy, TypeOK, StageType, Database
    <3>8. QED
      BY <1>4, <3>5, <3>6, <3>7 DEF SettleWithoutMoves, IInv, environment
  <2>5. QED
    BY <2>3, <2>4
<1>5. CASE ReadMoves
  <2>1. PICK reading \in Readings[cur] : reading.kind = "moves" /\ moves' = reading.moves
    BY <1>5 DEF ReadMoves
  <2>2. pc = "extract" /\ Busy /\ pc' = "persist" /\ slot' = 1 /\ UNCHANGED <<disk, txn, cur, todo>>
    BY <1>5 DEF ReadMoves, Busy
  <2>3. DiskInv' /\ TodoInv'
    BY <2>2, DiskUntouched DEF Busy
  <2>4. BusyInv' /\ ItemInv'
    BY <2>2 DEF BusyInv, ItemInv, Busy
  <2>5. txn.moves = disk.moves /\ txn.pending = disk.pending /\ txn.unplaced = disk.unplaced
        /\ txn.sourced = disk.sourced /\ txn.placed = disk.placed /\ txn.queued = disk.queued
    BY <2>2 DEF ItemInv, TypeOK, StageType, Database
  <2>6. AnswerInv'
    <3>1. Written' = {}
      BY <2>2 DEF Written, LastWritten
    <3>2. Len(moves') \in Nat
      BY <2>1, <2>2, ExtractAssumption DEF Reading, TypeOK, StageType, Busy
    <3>3. QED
      BY <2>1, <2>2, <2>5, <3>1, <3>2 DEF AnswerInv
  <2>7. RowInv'
    BY <2>2, <2>5 DEF RowInv, InHand, DiskInv, EveryMoveComplete
  <2>8. QED
    BY <1>5, <2>3, <2>4, <2>6, <2>7 DEF ReadMoves, IInv, environment
<1>6. CASE HitCostCeiling
  <2>1. disk' = txn /\ txn' = txn /\ pc = "extract" /\ pc' = "idle" /\ todo' = {} /\ cur' = NoItem
    BY <1>6 DEF HitCostCeiling, EndRun
  <2>2. /\ txn.moves = disk.moves /\ txn.pending = disk.pending /\ txn.unplaced = disk.unplaced
        /\ txn.sourced = disk.sourced /\ txn.placed = disk.placed /\ txn.queued = disk.queued
        /\ txn.deferred = disk.deferred /\ txn.state = disk.state
    BY <2>1 DEF ItemInv, TypeOK, StageType, Database
  <2>3. DiskInv'
    BY <2>1, <2>2 DEF DiskInv, ItemAtomic, EveryMoveComplete, MovesOf
  <2>4. BusyInv' /\ ItemInv' /\ AnswerInv' /\ RowInv' /\ TodoInv'
    BY <2>1 DEF BusyInv, ItemInv, AnswerInv, RowInv, TodoInv, Busy, Persisting
  <2>5. QED
    BY <1>6, <2>3, <2>4 DEF HitCostCeiling, IInv, environment
<1>7. CASE SkipPersisted
  BY <1>7, RowIsNew DEF SkipPersisted
<1>8. CASE Resolve
  <2>1. /\ pc = "persist" /\ pc' = "insert" /\ slot \in DOMAIN moves
        /\ UNCHANGED <<disk, todo, cur, moves, slot>>
    BY <1>8 DEF Resolve
  <2>2. DiskInv' /\ TodoInv'
    BY <2>1, DiskUntouched DEF Busy
  <2>3. /\ txn'.moves = txn.moves /\ txn'.pending = txn.pending /\ txn'.unplaced = txn.unplaced
        /\ txn'.sourced = txn.sourced /\ txn'.placed = txn.placed /\ txn'.queued = txn.queued
        /\ txn'.state = txn.state
    BY <1>8 DEF Resolve, TypeOK, StageType, Database
  <2>4. BusyInv' /\ ItemInv'
    BY <2>1, <2>3 DEF BusyInv, ItemInv, Busy
  <2>5. Written' = Written
    BY <2>1 DEF Written, LastWritten
  <2>6. AnswerInv'
    BY <2>1, <2>3, <2>5 DEF AnswerInv, Persisting, TypeOK, StageType
  <2>7. RowInv'
    BY <2>1, <2>3 DEF RowInv, Persisting, InHand
  <2>8. QED
    BY <1>8, <2>2, <2>4, <2>6, <2>7 DEF Resolve, IInv, environment
<1>9. CASE InsertMove
  <2>1. /\ pc = "insert" /\ pc' = "source" /\ slot \in DOMAIN moves
        /\ UNCHANGED <<disk, todo, cur, moves, slot, fresh>>
    BY <1>9 DEF InsertMove, local, TypeOK, StageType
  <2>2. DiskInv' /\ TodoInv'
    BY <2>1, DiskUntouched DEF Busy
  <2>3. /\ txn'.moves = txn.moves \cup {row}
        /\ txn'.pending = IF needs_review THEN txn.pending \cup {row} ELSE txn.pending
        /\ txn'.unplaced = txn.unplaced /\ txn'.state = txn.state
        /\ txn'.sourced = txn.sourced /\ txn'.placed = txn.placed /\ txn'.queued = txn.queued
    BY <1>9 DEF InsertMove, TypeOK, StageType, Database
  <2>4. BusyInv' /\ ItemInv'
    BY <2>1, <2>3 DEF BusyInv, ItemInv, Busy
  <2>5. row' = row /\ needs_review' = needs_review
    BY <2>1 DEF row, needs_review
  <2>6. Written' = Written \cup {row}
    <3>1. slot \in Nat \ {0} /\ LastWritten = slot - 1 /\ LastWritten' = slot
      BY <2>1 DEF LastWritten, TypeOK, StageType
    <3>2. 1 .. slot = (1 .. slot - 1) \cup {slot}
      BY <3>1
    <3>3. Written' = {fingerprint(cur, moves[s].person, s) : s \in 1 .. slot}
      BY <2>1, <3>1 DEF Written
    <3>4. Written = {fingerprint(cur, moves[s].person, s) : s \in 1 .. slot - 1}
      BY <3>1 DEF Written
    <3>5. QED
      BY <3>2, <3>3, <3>4 DEF row
  <2>7. AnswerInv'
    BY <2>1, <2>3, <2>6 DEF AnswerInv, Persisting
  <2>8. row \notin txn.moves
    BY <2>1, RowIsNew
  <2>9. RowInv'
    BY <2>1, <2>3, <2>5, <2>8 DEF RowInv, Persisting, InHand
  <2>10. QED
    BY <1>9, <2>2, <2>4, <2>7, <2>9 DEF InsertMove, IInv, environment
<1>10. CASE RefuseStatement
  BY <1>10, RollbackKeepsInv DEF RefuseStatement, Abort, environment
<1>11. CASE LinkSource
  <2>1. /\ pc = "source" /\ pc' = "classify" /\ UNCHANGED <<disk, todo, cur, moves, slot, fresh>>
    BY <1>11 DEF LinkSource, local
  <2>2. DiskInv' /\ TodoInv'
    BY <2>1, DiskUntouched DEF Busy
  <2>3. /\ txn'.sourced = txn.sourced \cup {row}
        /\ txn'.moves = txn.moves /\ txn'.pending = txn.pending /\ txn'.unplaced = txn.unplaced
        /\ txn'.state = txn.state /\ txn'.placed = txn.placed /\ txn'.queued = txn.queued
    BY <1>11 DEF LinkSource, TypeOK, StageType, Database
  <2>4. BusyInv' /\ ItemInv'
    BY <2>1, <2>3 DEF BusyInv, ItemInv, Busy
  <2>5. row' = row /\ needs_review' = needs_review /\ Written' = Written
    BY <2>1 DEF row, needs_review, Written, LastWritten
  <2>6. AnswerInv'
    BY <2>1, <2>3, <2>5 DEF AnswerInv, Persisting
  <2>7. RowInv'
    BY <2>1, <2>3, <2>5 DEF RowInv, Persisting, InHand
  <2>8. QED
    BY <1>11, <2>2, <2>4, <2>6, <2>7 DEF LinkSource, IInv, environment
<1>12. CASE Classify
  <2>1. /\ pc = "classify" /\ pc' = "queue" /\ UNCHANGED <<disk, todo, cur, moves, slot, fresh>>
    BY <1>12 DEF Classify, local
  <2>2. DiskInv' /\ TodoInv'
    BY <2>1, DiskUntouched DEF Busy
  <2>3. /\ txn'.placed = txn.placed \cup {row}
        /\ txn'.unplaced = IF moves[slot].unplaced THEN txn.unplaced \cup {row} ELSE txn.unplaced
        /\ txn'.moves = txn.moves /\ txn'.pending = txn.pending
        /\ txn'.state = txn.state /\ txn'.sourced = txn.sourced /\ txn'.queued = txn.queued
    BY <1>12 DEF Classify, TypeOK, StageType, Database
  <2>4. BusyInv' /\ ItemInv'
    BY <2>1, <2>3 DEF BusyInv, ItemInv, Busy
  <2>5. row' = row /\ needs_review' = needs_review /\ Written' = Written
    BY <2>1 DEF row, needs_review, Written, LastWritten
  <2>6. AnswerInv'
    BY <2>1, <2>3, <2>5 DEF AnswerInv, Persisting
  <2>7. row \in txn.moves
    <3>1. slot \in 1 .. LastWritten
      BY <2>1 DEF LastWritten, TypeOK, StageType
    <3>2. row \in Written
      BY <3>1 DEF row, Written
    <3>3. QED
      BY <2>1, <3>2 DEF AnswerInv, Persisting
  <2>8. RowInv'
    BY <2>1, <2>3, <2>5, <2>7 DEF RowInv, Persisting, InHand
  <2>9. QED
    BY <1>12, <2>2, <2>4, <2>6, <2>8 DEF Classify, IInv, environment
<1>13. CASE FailClassify
  BY <1>13 DEF FailClassify
<1>14. CASE QueueReview
  <2>1. /\ pc = "queue" /\ pc' = "persist" /\ slot' = slot + 1
        /\ UNCHANGED <<disk, todo, cur, moves>>
    BY <1>14 DEF QueueReview
  <2>2. DiskInv' /\ TodoInv'
    BY <2>1, DiskUntouched DEF Busy
  <2>3. /\ txn'.queued = IF needs_review \/ moves[slot].unplaced
                         THEN txn.queued \cup {row} ELSE txn.queued
        /\ txn'.moves = txn.moves /\ txn'.pending = txn.pending /\ txn'.unplaced = txn.unplaced
        /\ txn'.state = txn.state /\ txn'.sourced = txn.sourced /\ txn'.placed = txn.placed
    BY <1>14 DEF QueueReview, TypeOK, StageType, Database
  <2>4. BusyInv' /\ ItemInv'
    BY <2>1, <2>3 DEF BusyInv, ItemInv, Busy
  <2>5. Written' = Written
    <3>1. LastWritten' = LastWritten
      BY <2>1 DEF LastWritten, TypeOK, StageType
    <3>2. QED
      BY <2>1, <3>1 DEF Written
  <2>6. AnswerInv'
    <3>1. slot \in Nat /\ slot <= Len(moves) /\ Len(moves) \in Nat
      BY <2>1 DEF AnswerInv, Persisting, TypeOK, StageType
    <3>2. QED
      BY <2>1, <2>3, <2>5, <3>1 DEF AnswerInv, Persisting
  <2>7. RowInv'
    BY <2>1, <2>3 DEF RowInv, Persisting, InHand
  <2>8. QED
    BY <1>14, <2>2, <2>4, <2>6, <2>7 DEF QueueReview, IInv, environment
<1>15. CASE MarkExtracted
  <2> DEFINE db == [txn EXCEPT !.state[cur] = "extracted"]
  <2>1. /\ pc = "persist" /\ slot \notin DOMAIN moves /\ CommitItem(db)
        /\ cur \in Items /\ disk.state[cur] = "new" /\ Persisting
    BY <1>15 DEF MarkExtracted, BusyInv, Busy, Persisting, TypeOK, StageType
  <2>2. CASE EndRun(disk, "failed")
    BY <1>15, <2>2, RollbackKeepsInv DEF MarkExtracted, environment
  <2>3. CASE ~EndRun(disk, "failed")
    <3>1. /\ disk' = db /\ txn' = db /\ pc' = "next" /\ cur' = NoItem /\ todo' = todo
          /\ db.deferred = {}
      BY <2>1, <2>3 DEF CommitItem
    <3>2. db.moves = disk.moves \cup Written
      BY <2>1 DEF AnswerInv, TypeOK, StageType, Database
    <3>3. db.state = [disk.state EXCEPT ![cur] = "extracted"]
      BY <2>1 DEF BusyInv, Busy, TypeOK, StageType, Database
    <3>4. PICK reading \in Readings[cur] : reading.kind = "moves" /\ reading.moves = moves
      BY <2>1 DEF AnswerInv
    <3>5. Written = MovesIn(cur, reading)
      <4>1. LastWritten = Len(moves) /\ DOMAIN moves = 1 .. Len(moves)
        BY <2>1 DEF LastWritten, AnswerInv, TypeOK, StageType
      <4>2. QED
        BY <3>4, <4>1 DEF Written, MovesIn
    <3>6. ItemAtomic'
      <4>1. MovesOf(disk, cur) = {}
        BY <2>1 DEF DiskInv, ItemAtomic
      <4>2. \A f \in Written : f.item = cur
        BY DEF Written, fingerprint
      <4>3. MovesOf(disk', cur) = MovesIn(cur, reading)
        <5>1. {f \in db.moves : f.item = cur} = Written
          BY <3>2, <4>1, <4>2 DEF MovesOf
        <5>2. QED
          BY <3>1, <3>5, <5>1 DEF MovesOf
      <4>4. \A i \in Items \ {cur} : MovesOf(disk', i) = MovesOf(disk, i)
        BY <3>1, <3>2, <4>2 DEF MovesOf
      <4>5. \A i \in Items \ {cur} : disk'.state[i] = disk.state[i]
        BY <3>1, <3>3 DEF TypeOK, StageType, Database
      <4>6. disk'.state[cur] = "extracted"
        BY <2>1, <3>1, <3>3 DEF TypeOK, StageType, Database
      <4>7. ASSUME NEW i \in Items
            PROVE  IF disk'.state[i] = "extracted"
                   THEN \E r \in Readings[i] :
                          r.kind = "moves" /\ MovesOf(disk', i) = MovesIn(i, r)
                   ELSE MovesOf(disk', i) = {}
        <5>1. CASE i = cur
          BY <3>4, <4>3, <4>6, <5>1
        <5>2. CASE i # cur
          BY <4>4, <4>5, <5>2 DEF DiskInv, ItemAtomic
        <5>3. QED
          BY <5>1, <5>2
      <4>8. QED
        BY <4>7 DEF ItemAtomic
    <3>7. DiskInv'
      <4>1. /\ db.pending = txn.pending /\ db.unplaced = txn.unplaced /\ db.sourced = txn.sourced
            /\ db.placed = txn.placed /\ db.queued = txn.queued /\ db.moves = txn.moves
        BY DEF TypeOK, StageType, Database
      <4>2. /\ txn.pending \cup txn.unplaced \subseteq txn.moves
            /\ txn.moves \subseteq txn.sourced /\ txn.moves \subseteq txn.placed
            /\ txn.pending \cup txn.unplaced \subseteq txn.queued
        BY <2>1 DEF RowInv, InHand
      <4>3. QED
        BY <3>1, <3>6, <4>1, <4>2 DEF DiskInv, EveryMoveComplete
    <3>8. BusyInv' /\ ItemInv' /\ AnswerInv' /\ RowInv'
      BY <3>1 DEF BusyInv, ItemInv, AnswerInv, RowInv, Busy, Persisting
    <3>9. TodoInv'
      BY <2>1, <3>1, <3>3, ExtractAssumption DEF TodoInv, Busy, TypeOK, StageType, Database
    <3>10. QED
      BY <1>15, <3>7, <3>8, <3>9 DEF MarkExtracted, IInv, environment
  <2>4. QED
    BY <2>2, <2>3
<1>16. CASE LoadTaxonomy
  BY <1>16 DEF LoadTaxonomy
<1>17. CASE Kill
  BY <1>17, RollbackKeepsInv DEF Kill, Fault
<1>18. CASE Interrupt
  BY <1>18 DEF Interrupt, Fault
<1>19. ASSUME NEW scope \in DiscardScopes, Discard(scope) PROVE IInv'
  <2> DEFINE gone == {f \in disk.sourced : SourceOf[f.item] \in scope}
             db == [WithoutMoves(disk, gone) EXCEPT !.state =
                      [i \in Items |-> IF SourceOf[i] \in scope THEN "new" ELSE @[i]]]
  <2>1. /\ pc = "idle" /\ disk' = db /\ txn' = db /\ pc' = pc /\ todo' = todo /\ cur' = cur
        /\ taxonomy' = taxonomy
    BY <1>19 DEF Discard, local
  <2>2. /\ db.moves = disk.moves \ gone /\ db.pending = disk.pending \ gone
        /\ db.sourced = disk.sourced \ gone /\ db.placed = disk.placed \ gone
        /\ db.unplaced = disk.unplaced \ gone /\ db.queued = disk.queued \ gone
        /\ db.deferred = disk.deferred
        /\ db.state = [i \in Items |-> IF SourceOf[i] \in scope THEN "new" ELSE disk.state[i]]
    BY DEF WithoutMoves, TypeOK, StageType, Database
  <2>3. ItemAtomic'
    <3>1. \A i \in Items : SourceOf[i] \in scope =>
             disk'.state[i] = "new" /\ MovesOf(disk, i)' = {}
      BY <2>1, <2>2 DEF MovesOf, DiskInv, EveryMoveComplete
    <3>2. \A i \in Items : SourceOf[i] \notin scope =>
             disk'.state[i] = disk.state[i] /\ MovesOf(disk, i)' = MovesOf(disk, i)
      BY <2>1, <2>2 DEF MovesOf
    <3>3. QED
      BY <3>1, <3>2 DEF DiskInv, ItemAtomic
  <2>4. DiskInv'
    BY <2>1, <2>2, <2>3 DEF DiskInv, EveryMoveComplete
  <2>5. BusyInv' /\ ItemInv' /\ AnswerInv' /\ RowInv'
    BY <2>1 DEF BusyInv, ItemInv, AnswerInv, RowInv, Busy, Persisting
  <2>6. TodoInv'
    BY <2>1, <2>2 DEF TodoInv, Busy, TypeOK, StageType
  <2>7. QED
    BY <2>1, <2>4, <2>5, <2>6 DEF IInv
<1>20. CASE UNCHANGED vars
  BY <1>20 DEF vars, local, IInv, DiskInv, BusyInv, ItemInv, AnswerInv, RowInv, TodoInv,
               ItemAtomic, EveryMoveComplete, MovesOf, Busy, Persisting, InHand, Written,
               LastWritten, row, needs_review
<1>21. QED
  BY <1>1, <1>2, <1>3, <1>4, <1>5, <1>6, <1>7, <1>8, <1>9, <1>10, <1>11, <1>12, <1>13,
     <1>14, <1>15, <1>16, <1>17, <1>18, <1>19, <1>20 DEF Next, Step

\* Without interrupts, and with the taxonomy loaded before the first run, IInv is
\* an invariant.
LEMMA Invariance ==
  ASSUME "interrupt" \notin Faults, TaxonomyLoaded
  PROVE  Spec => []IInv
<1>1. Init => IInv
  <2> SUFFICES ASSUME Init PROVE IInv
    OBVIOUS
  <2>1. DiskInv
    BY DEF Init, EmptyDatabase, DiskInv, ItemAtomic, EveryMoveComplete, MovesOf
  <2>2. QED
    BY <2>1 DEF Init, IInv, BusyInv, ItemInv, AnswerInv, RowInv, TodoInv, Busy, Persisting
<1>2. TypeOK /\ IInv /\ [Next]_vars => IInv'
  BY InvStep
<1>3. QED
  BY <1>1, <1>2, TypeCorrect, PTL DEF Spec

\* An item's moves reach the disk all together or not at all, and only those of
\* one answer: true of every run that is not interrupted, whatever crashes,
\* refused rows, failed commits and discards happen.
THEOREM ItemsAreAtomic ==
  ASSUME "interrupt" \notin Faults, TaxonomyLoaded
  PROVE  Spec => []ItemAtomic
<1>1. IInv => ItemAtomic
  BY DEF IInv, DiskInv
<1>2. QED
  BY <1>1, Invariance, PTL

\* Under the same conditions every committed move is sourced, placed and, when it
\* awaits a human, queued.
THEOREM MovesAreComplete ==
  ASSUME "interrupt" \notin Faults, TaxonomyLoaded
  PROVE  Spec => []EveryMoveComplete
<1>1. IInv => EveryMoveComplete
  BY DEF IInv, DiskInv
<1>2. QED
  BY <1>1, Invariance, PTL

-----------------------------------------------------------------------------
(* The firms extraction creates.                                            *)

\* Every firm of db that the register did not bring is named in the review item of
\* a move of db, or was created for the row in hand.
Flagged(db, inHand) ==
  \A firm \in db.firms \ RegisterFirms :
    firm \in inHand \/ \E f \in db.moves : <<f, firm>> \in db.flags

Created == IF pc \in {"insert", "source", "classify", "queue"} THEN fresh ELSE {}

FlagInv == discards = 0 => Flagged(disk, {}) /\ Flagged(txn, Created)

\* What a statement adds to the moves and to the review items takes no flag away.
LEMMA FlagsGrow ==
  ASSUME NEW before, NEW after, NEW had, NEW has, Flagged(before, had),
         before.moves \subseteq after.moves, before.flags \subseteq after.flags,
         \A firm \in after.firms \ RegisterFirms :
           \/ firm \in before.firms /\ (firm \in had => firm \in has)
           \/ firm \in has
  PROVE  Flagged(after, has)
BY DEF Flagged

LEMMA FlagStep ==
  ASSUME "interrupt" \notin Faults, TypeOK, IInv, FlagInv, [Next]_vars
  PROVE  FlagInv'
<1> SUFFICES ASSUME discards = 0, discards' = 0
             PROVE  Flagged(disk', {}) /\ Flagged(txn', Created')
  <2>1. ASSUME NEW scope \in DiscardScopes, Discard(scope) PROVE discards' # 0
    BY <2>1 DEF Discard, TypeOK
  <2>2. CASE ~ \E scope \in DiscardScopes : Discard(scope)
    <3>1. CASE Step
      BY <3>1 DEF Step, environment, FinishRun, OpenItem, SettleWithoutMoves, ReadMoves,
                  SkipPersisted, Resolve, InsertMove, RefuseStatement, LinkSource, Classify,
                  FailClassify, QueueReview, MarkExtracted, FlagInv
    <3>2. CASE ~Step
      BY <2>2, <3>2 DEF Next, vars, environment, StartRun, HitCostCeiling, LoadTaxonomy, Kill,
                        Interrupt, Fault, FlagInv
    <3> QED
      BY <3>1, <3>2
  <2> QED
    BY <2>1, <2>2 DEF FlagInv
<1>0. Flagged(disk, {}) /\ Flagged(txn, Created)
  BY DEF FlagInv
<1>1. disk \in Database /\ txn \in Database
  BY DEF TypeOK, StageType
<1>2. ASSUME NEW status, EndRun(disk, status) PROVE Flagged(disk', {}) /\ Flagged(txn', Created')
  BY <1>0, <1>2 DEF EndRun, Created
<1>3. ASSUME NEW db, CommitItem(db), db.moves = txn.moves, db.flags = txn.flags,
             db.firms = txn.firms, Created = {}
      PROVE  Flagged(disk', {}) /\ Flagged(txn', Created')
  <2>1. Flagged(db, {})
    BY <1>0, <1>3, FlagsGrow
  <2> QED
    BY <1>2, <1>3, <2>1 DEF CommitItem, Created
<1>4. ASSUME disk' = disk, txn'.moves = txn.moves, txn'.flags = txn.flags, txn'.firms = txn.firms,
             Created \subseteq Created'
      PROVE  Flagged(disk', {}) /\ Flagged(txn', Created')
  BY <1>0, <1>4, FlagsGrow
<1>5. CASE StartRun
  BY <1>4, <1>5 DEF StartRun, Created
<1>6. CASE FinishRun \/ RefuseStatement \/ Kill
  BY <1>2, <1>6 DEF FinishRun, RefuseStatement, Abort, Kill
<1>7. CASE OpenItem
  <2>1. PICK read \in SUBSET Items : txn' = [txn EXCEPT !.full = @ \cup read]
    BY <1>7 DEF OpenItem, TypeOK, StageType
  <2>2. txn'.moves = txn.moves /\ txn'.flags = txn.flags /\ txn'.firms = txn.firms
    BY <1>1, <2>1 DEF Database
  <2> QED
    BY <1>4, <1>7, <2>2 DEF OpenItem, Created
<1>8. CASE SettleWithoutMoves
  <2>1. PICK state : CommitItem([txn EXCEPT !.state[cur] = state])
    BY <1>8 DEF SettleWithoutMoves
  <2> DEFINE db == [txn EXCEPT !.state[cur] = state]
  <2>2. db.moves = txn.moves /\ db.flags = txn.flags /\ db.firms = txn.firms
    BY <1>1 DEF Database
  <2>3. Created = {}
    BY <1>8 DEF SettleWithoutMoves, Created
  <2> QED
    BY <1>3, <2>1, <2>2, <2>3
<1>9. CASE ReadMoves \/ SkipPersisted \/ LoadTaxonomy \/ UNCHANGED vars
  BY <1>4, <1>9 DEF ReadMoves, SkipPersisted, LoadTaxonomy, vars, local, Created
<1>10. CASE Resolve
  <2>1. /\ txn'.firms = txn.firms \cup moves[slot].firms
        /\ txn'.moves = txn.moves /\ txn'.flags = txn.flags
    BY <1>1, <1>10 DEF Resolve, Database
  <2>2. Created = {} /\ Created' = moves[slot].firms \ txn.firms /\ disk' = disk
    BY <1>10 DEF Resolve, Created
  <2> QED
    BY <1>0, <2>1, <2>2, FlagsGrow
<1>11. CASE InsertMove
  <2>1. txn'.moves = txn.moves \cup {row} /\ txn'.flags = txn.flags /\ txn'.firms = txn.firms
    BY <1>1, <1>11 DEF InsertMove, Database
  <2>2. Created = fresh /\ Created' = fresh /\ disk' = disk
    BY <1>11 DEF InsertMove, Created, local
  <2> QED
    BY <1>0, <2>1, <2>2, FlagsGrow
<1>12. CASE LinkSource \/ Classify
  <2>1. txn'.moves = txn.moves /\ txn'.flags = txn.flags /\ txn'.firms = txn.firms
    <3>1. CASE LinkSource
      BY <1>1, <3>1 DEF LinkSource, Database
    <3>2. CASE Classify
      BY <1>1, <3>2 DEF Classify, Database
    <3> QED
      BY <1>12, <3>1, <3>2
  <2>2. disk' = disk /\ Created = Created'
    BY <1>12 DEF LinkSource, Classify, Created, local
  <2> QED
    BY <1>4, <2>1, <2>2
<1>13. CASE QueueReview
  <2>1. /\ txn'.moves = txn.moves /\ txn'.firms = txn.firms /\ disk' = disk
        /\ txn'.flags = IF needs_review THEN txn.flags \cup ({row} \X fresh) ELSE txn.flags
    BY <1>1, <1>13 DEF QueueReview, Database
  <2>2. Created = fresh /\ Created' = {}
    BY <1>13 DEF QueueReview, Created
  <2>3. row \in txn.moves
    <3>1. Persisting /\ LastWritten = slot /\ slot \in 1 .. slot
      BY <1>13 DEF QueueReview, Persisting, LastWritten, TypeOK, StageType
    <3>2. row \in Written
      BY <3>1 DEF Written, row
    <3> QED
      BY <3>1, <3>2 DEF IInv, AnswerInv
  <2>4. ASSUME NEW firm \in txn.firms \ RegisterFirms
        PROVE  \E f \in txn'.moves : <<f, firm>> \in txn'.flags
    <3>1. CASE firm \in fresh
      <4>1. <<row, firm>> \in txn'.flags
        BY <2>1, <3>1 DEF needs_review
      <4> QED
        BY <2>1, <2>3, <4>1
    <3>2. CASE \E f \in txn.moves : <<f, firm>> \in txn.flags
      BY <2>1, <3>2
    <3> QED
      BY <1>0, <2>2, <3>1, <3>2 DEF Flagged
  <2> QED
    BY <1>0, <2>1, <2>2, <2>4 DEF Flagged
<1>14. CASE MarkExtracted
  <2> DEFINE db == [txn EXCEPT !.state[cur] = "extracted"]
  <2>1. db.moves = txn.moves /\ db.flags = txn.flags /\ db.firms = txn.firms
    BY <1>1 DEF Database
  <2>2. Created = {} /\ CommitItem(db)
    BY <1>14 DEF MarkExtracted, Created
  <2> QED
    BY <1>3, <2>1, <2>2
<1>15. CASE HitCostCeiling
  <2>1. /\ pc = "extract" /\ disk' = txn /\ txn' = txn /\ pc' = "idle"
    BY <1>15 DEF HitCostCeiling, EndRun
  <2> QED
    BY <1>0, <2>1 DEF Created
<1>16. CASE FailClassify \/ Interrupt
  BY <1>16 DEF FailClassify, Interrupt, Fault, IInv
<1>17. ASSUME NEW scope \in DiscardScopes, Discard(scope)
       PROVE  FALSE
  BY <1>17 DEF Discard, TypeOK
<1> QED
  BY <1>5, <1>6, <1>7, <1>8, <1>9, <1>10, <1>11, <1>12, <1>13, <1>14, <1>15, <1>16, <1>17
  DEF Next, Step

\* No failure separates a firm from its flag: as long as no reextract deletes the
\* review items, every firm that extraction created is named in one.
THEOREM CreatedFirmsAreFlagged ==
  ASSUME "interrupt" \notin Faults, TaxonomyLoaded
  PROVE  Spec => []NewFirmsFlagged
<1>1. Init => FlagInv
  BY DEF Init, EmptyDatabase, FlagInv, Flagged, Created
<1>2. TypeOK /\ IInv /\ FlagInv /\ [Next]_vars => FlagInv'
  BY FlagStep
<1>3. FlagInv => NewFirmsFlagged
  BY DEF FlagInv, Flagged, NewFirmsFlagged
<1>4. QED
  BY <1>1, <1>2, <1>3, TypeCorrect, Invariance, PTL DEF Spec

-----------------------------------------------------------------------------
(* The stage implements ItemLedger.                                         *)

Entry(db, i) == [state |-> db.state[i], moves |-> MovesOf(db, i)]

\* A commit that writes the outcome and the moves of one answer is a Settle.
LEMMA CommitIsSettle ==
  ASSUME IInv, TypeOK, cur \in Items, disk.state[cur] = "new",
         NEW reading \in Readings[cur],
         Entry(disk', cur) = Ledger!Verdict(cur, reading),
         \A j \in Items \ {cur} : Entry(disk', j) = Entry(disk, j)
  PROVE  Ledger!Settle(cur)
<1>1. MovesOf(disk, cur) = {}
  BY DEF IInv, DiskInv, ItemAtomic
<1>2. Entry(disk, cur) = Ledger!Untouched
  BY <1>1 DEF Entry, Ledger!Untouched
<1>3. [i \in Items |-> Entry(disk', i)] =
        [[i \in Items |-> Entry(disk, i)] EXCEPT ![cur] = Ledger!Verdict(cur, reading)]
  OBVIOUS
<1>4. QED
  BY <1>2, <1>3 DEF Ledger!Settle, Entry

\* Every step of the stage settles one item, discards some, or changes no entry.
LEMMA StepRefines ==
  ASSUME "interrupt" \notin Faults, TypeOK, IInv, IInv', [Next]_vars
  PROVE  Ledger!Next \/ \A i \in Items : Entry(disk', i) = Entry(disk, i)
<1>1. CASE disk' = disk
  BY <1>1
<1>2. CASE SettleWithoutMoves /\ disk' # disk
  <2>1. PICK reading \in Readings[cur] :
          /\ reading.kind # "moves"
          /\ disk' = [txn EXCEPT !.state[cur] =
                        IF reading.kind = "no_move" THEN "rejected" ELSE "error"]
    BY <1>2 DEF SettleWithoutMoves, CommitItem, EndRun
  <2>2. pc = "extract" /\ cur \in Items /\ disk.state[cur] = "new"
    BY <1>2 DEF SettleWithoutMoves, IInv, BusyInv, Busy, TypeOK, StageType
  <2>3. disk'.moves = disk.moves /\ disk'.state = [disk.state EXCEPT ![cur] = Ledger!OutcomeOf(reading)]
    <3>1. txn.moves = disk.moves /\ txn.state = disk.state
      BY <2>2 DEF IInv, ItemInv, TypeOK, StageType, Database
    <3>2. Ledger!OutcomeOf(reading) = IF reading.kind = "no_move" THEN "rejected" ELSE "error"
      BY <2>1 DEF Ledger!OutcomeOf
    <3>3. QED
      BY <2>1, <3>1, <3>2 DEF TypeOK, StageType, Database
  <2>4. MovesOf(disk', cur) = Ledger!MovesIn(cur, reading)
    <3>1. reading.moves = <<>>
      BY <2>1, <2>2, ExtractAssumption
    <3>2. MovesOf(disk, cur) = {}
      BY <2>2 DEF IInv, DiskInv, ItemAtomic
    <3>3. QED
      BY <2>3, <3>1, <3>2 DEF MovesOf, Ledger!MovesIn
  <2>5. disk.state \in [Items -> {"new", "extracted", "rejected", "error"}]
    BY DEF TypeOK, StageType, Database
  <2>6. Entry(disk', cur) = Ledger!Verdict(cur, reading)
    BY <2>2, <2>3, <2>4, <2>5 DEF Entry, Ledger!Verdict
  <2>7. \A j \in Items \ {cur} : Entry(disk', j) = Entry(disk, j)
    BY <2>3, <2>5 DEF Entry, MovesOf
  <2>8. Ledger!Settle(cur)
    BY <2>2, <2>6, <2>7, CommitIsSettle
  <2>9. QED
    BY <2>2, <2>8 DEF Ledger!Next, Ledger!Settle
<1>3. CASE MarkExtracted /\ disk' # disk
  <2>1. disk' = [txn EXCEPT !.state[cur] = "extracted"]
    BY <1>3 DEF MarkExtracted, CommitItem, EndRun
  <2>2. pc = "persist" /\ Persisting /\ cur \in Items /\ disk.state[cur] = "new"
    BY <1>3 DEF MarkExtracted, IInv, BusyInv, Busy, Persisting, TypeOK, StageType
  <2>3. disk'.moves = disk.moves \cup Written
        /\ disk'.state = [disk.state EXCEPT ![cur] = "extracted"]
    BY <2>1, <2>2 DEF IInv, AnswerInv, BusyInv, Busy, TypeOK, StageType, Database
  <2>4. disk.state \in [Items -> {"new", "extracted", "rejected", "error"}]
    BY DEF TypeOK, StageType, Database
  <2>5. PICK reading \in Readings[cur] :
          reading.kind = "moves" /\ MovesOf(disk', cur) = MovesIn(cur, reading)
    <3>1. disk'.state[cur] = "extracted"
      BY <2>2, <2>3, <2>4
    <3>2. ItemAtomic'
      BY DEF IInv, DiskInv
    <3>3. \A i \in Items : disk'.state[i] = "extracted" =>
             \E r \in Readings[i] : r.kind = "moves" /\ MovesOf(disk', i) = MovesIn(i, r)
      BY <3>2 DEF ItemAtomic, MovesOf
    <3>4. QED
      BY <2>2, <3>1, <3>3
  <2>6. Entry(disk', cur) = Ledger!Verdict(cur, reading)
    BY <2>2, <2>3, <2>4, <2>5
       DEF Entry, Ledger!Verdict, Ledger!OutcomeOf, MovesIn, Ledger!MovesIn, fingerprint
  <2>7. \A j \in Items \ {cur} : Entry(disk', j) = Entry(disk, j)
    BY <2>3, <2>4 DEF Entry, MovesOf, Written, fingerprint
  <2>8. Ledger!Settle(cur)
    BY <2>2, <2>6, <2>7, CommitIsSettle
  <2>9. QED
    BY <2>2, <2>8 DEF Ledger!Next, Ledger!Settle
<1>4. CASE HitCostCeiling
  <2>1. disk' = txn /\ pc = "extract"
    BY <1>4 DEF HitCostCeiling, EndRun
  <2>2. txn.moves = disk.moves /\ txn.state = disk.state
    BY <2>1 DEF IInv, ItemInv, TypeOK, StageType, Database
  <2>3. \A i : MovesOf(disk', i) = MovesOf(disk, i)
    BY <2>1, <2>2 DEF MovesOf
  <2>4. disk'.state = disk.state
    BY <2>1, <2>2
  <2>5. QED
    BY <2>3, <2>4 DEF Entry
<1>5. ASSUME NEW scope \in DiscardScopes, Discard(scope)
      PROVE  Ledger!Next
  <2>1. /\ disk'.state = [i \in Items |-> IF SourceOf[i] \in scope THEN "new" ELSE disk.state[i]]
        /\ disk'.moves = disk.moves \ {f \in disk.sourced : SourceOf[f.item] \in scope}
    BY <1>5 DEF Discard, WithoutMoves, TypeOK, StageType, Database
  <2>2. disk.moves \subseteq disk.sourced
    BY DEF IInv, DiskInv, EveryMoveComplete
  <2>3. \A i \in Items : Entry(disk', i) =
          IF SourceOf[i] \in scope THEN Ledger!Untouched ELSE Entry(disk, i)
    <3>1. \A i \in Items : SourceOf[i] \in scope =>
            MovesOf(disk', i) = {} /\ disk'.state[i] = "new"
      BY <2>1, <2>2 DEF MovesOf
    <3>2. \A i \in Items : SourceOf[i] \notin scope =>
            MovesOf(disk', i) = MovesOf(disk, i) /\ disk'.state[i] = disk.state[i]
      BY <2>1 DEF MovesOf
    <3>3. QED
      BY <3>1, <3>2 DEF Entry, Ledger!Untouched
  <2>4. Ledger!Discard(scope)
    BY <2>3 DEF Ledger!Discard, Entry
  <2>5. QED
    BY <2>4 DEF Ledger!Next, DiscardScopes, Ledger!DiscardScopes
<1>6. CASE /\ disk' # disk
           /\ ~ (SettleWithoutMoves \/ MarkExtracted \/ HitCostCeiling)
           /\ ~ \E scope \in DiscardScopes : Discard(scope)
  <2>1. taxonomy
    BY DEF IInv
  <2>2. ~FailClassify /\ ~Interrupt
    BY <2>1 DEF FailClassify, Interrupt, Fault
  <2>3. FinishRun \/ RefuseStatement \/ Kill => disk' = disk
    BY DEF FinishRun, RefuseStatement, Abort, Kill, EndRun
  <2>4. StartRun \/ OpenItem \/ ReadMoves \/ SkipPersisted \/ Resolve => disk' = disk
    BY DEF StartRun, OpenItem, ReadMoves, SkipPersisted, Resolve
  <2>5. InsertMove \/ LinkSource \/ Classify \/ QueueReview \/ LoadTaxonomy \/ UNCHANGED vars
          => disk' = disk
    BY DEF InsertMove, LinkSource, Classify, QueueReview, LoadTaxonomy, vars
  <2>6. QED
    BY <1>6, <2>2, <2>3, <2>4, <2>5 DEF Next, Step
<1>7. QED
  BY <1>1, <1>2, <1>3, <1>4, <1>5, <1>6

\* The extract stage implements the item ledger: seen from the committed database,
\* an item goes from untouched to settled in one step.
THEOREM ImplementsLedger ==
  ASSUME "interrupt" \notin Faults, TaxonomyLoaded
  PROVE  Spec => LedgerSpec
<1> DEFINE entries == [i \in Items |-> [state |-> disk.state[i], moves |-> MovesOf(disk, i)]]
<1>1. Init => Ledger!Init
  BY DEF Init, EmptyDatabase, MovesOf, Ledger!Init, Ledger!Untouched
<1>2. TypeOK /\ IInv /\ IInv' /\ [Next]_vars => [Ledger!Next]_entries
  <2> SUFFICES ASSUME TypeOK, IInv, IInv', [Next]_vars, ~Ledger!Next
               PROVE  entries' = entries
    OBVIOUS
  <2>1. \A i \in Items : Entry(disk', i) = Entry(disk, i)
    BY StepRefines
  <2>2. QED
    BY <2>1 DEF Entry, MovesOf
<1>3. QED
  BY <1>1, <1>2, TypeCorrect, Invariance, PTL DEF Spec, LedgerSpec, Ledger!Spec

-----------------------------------------------------------------------------
(* A commit costs or settles one item, whatever the faults.                 *)

\* What the open transaction has that the disk has not is of the item in hand.
OneItemInv == \A j \in Items : ~Busy \/ j # cur => Entry(txn, j) = Entry(disk, j)

\* Only one entry differs from what it was.
OneChanged ==
  \A i, j \in Items : Entry(disk', i) # Entry(disk, i) /\ Entry(disk', j) # Entry(disk, j) => i = j

\* What a commit puts on the disk, of a transaction that differs in one item.
LEMMA CommitOfOne ==
  ASSUME OneItemInv, NEW db, \A j \in Items : j # cur => Entry(db, j) = Entry(disk, j)
  PROVE  /\ CommitItem(db) \/ EndRun(db, "failed") => OneChanged /\ OneItemInv'
         /\ \A status : EndRun(disk, status) => OneChanged /\ OneItemInv'
<1>1. ASSUME disk' = db \/ disk' = disk PROVE OneChanged
  BY <1>1 DEF OneChanged
<1>2. ASSUME txn' = disk', pc' \in {"idle", "next"} PROVE OneItemInv'
  BY <1>2 DEF OneItemInv, Entry, MovesOf, Busy
<1> QED BY <1>1, <1>2 DEF CommitItem, EndRun

\* A statement writes rows of the item in hand only.
LEMMA StatementOfOne ==
  ASSUME OneItemInv, Busy, Busy', UNCHANGED <<disk, cur>>,
         txn'.state = txn.state,
         txn'.moves \in {txn.moves, txn.moves \cup {row}}
  PROVE  OneChanged /\ OneItemInv'
<1>1. OneChanged
  BY DEF OneChanged
<1>2. ASSUME NEW j \in Items, j # cur PROVE Entry(txn', j) = Entry(txn, j)
  <2>1. row.item = cur
    BY DEF row, fingerprint
  <2>2. MovesOf(txn', j) = MovesOf(txn, j)
    BY <1>2, <2>1 DEF MovesOf
  <2> QED BY <2>2 DEF Entry
<1>3. \A j \in Items : j # cur => Entry(txn', j) = Entry(disk', j)
  BY <1>2 DEF OneItemInv
<1> QED BY <1>1, <1>3 DEF OneItemInv, Entry, MovesOf

\* No step, not even one that commits half an item, touches a second item.
LEMMA OneItemStep ==
  ASSUME TypeOK, OneItemInv, [Next]_vars
  PROVE  OneItemInv' /\ (discards' = discards => OneChanged)
<1>1. \A j \in Items : j # cur => Entry(txn, j) = Entry(disk, j)
  BY DEF OneItemInv
<1>2. disk \in Database /\ txn \in Database
  BY DEF TypeOK, StageType
<1>3. ASSUME NEW status
      PROVE  \A j \in Items : j # cur => Entry([txn EXCEPT !.state[cur] = status], j) = Entry(disk, j)
  BY <1>1, <1>2 DEF Entry, MovesOf, Database
<1>4. CASE FinishRun \/ RefuseStatement \/ Kill
  BY <1>1, <1>4, CommitOfOne DEF FinishRun, RefuseStatement, Kill, Abort
<1>5. CASE HitCostCeiling \/ FailClassify \/ Interrupt
  BY <1>1, <1>5, CommitOfOne DEF HitCostCeiling, FailClassify, Interrupt, Unwind, Abort
<1>6. CASE SettleWithoutMoves \/ MarkExtracted
  BY <1>3, <1>6, CommitOfOne DEF SettleWithoutMoves, MarkExtracted
<1>7. CASE StartRun \/ LoadTaxonomy \/ UNCHANGED vars
  <2>1. UNCHANGED <<disk, txn, cur>> /\ Busy' = Busy
    BY <1>7 DEF StartRun, LoadTaxonomy, vars, local, Busy
  <2> QED BY <2>1 DEF OneItemInv, OneChanged, Entry, MovesOf
<1>8. CASE OpenItem
  <2>1. /\ ~Busy /\ Busy' /\ disk' = disk
        /\ txn'.state = txn.state /\ txn'.moves = txn.moves
    BY <1>2, <1>8 DEF OpenItem, Busy, Database
  <2> QED BY <2>1 DEF OneItemInv, OneChanged, Entry, MovesOf
<1>9. CASE ReadMoves \/ SkipPersisted \/ Resolve \/ LinkSource \/ Classify \/ QueueReview
  <2>1. Busy /\ Busy' /\ UNCHANGED <<disk, cur>>
    BY <1>9 DEF ReadMoves, SkipPersisted, Resolve, LinkSource, Classify, QueueReview, Busy, local
  <2>2. txn'.state = txn.state /\ txn'.moves = txn.moves
    <3>1. CASE ReadMoves \/ SkipPersisted
      BY <3>1 DEF ReadMoves, SkipPersisted
    <3>2. CASE Resolve \/ LinkSource
      BY <1>2, <3>2 DEF Resolve, LinkSource, Database
    <3>3. CASE Classify
      BY <1>2, <3>3 DEF Classify, Database
    <3>4. CASE QueueReview
      BY <1>2, <3>4 DEF QueueReview, Database
    <3> QED BY <1>9, <3>1, <3>2, <3>3, <3>4
  <2> QED BY <2>1, <2>2, StatementOfOne
<1>10. CASE InsertMove
  <2>1. /\ Busy /\ Busy' /\ UNCHANGED <<disk, cur>>
        /\ txn'.state = txn.state /\ txn'.moves = txn.moves \cup {row}
    BY <1>2, <1>10 DEF InsertMove, Busy, Database, local
  <2> QED BY <2>1, StatementOfOne
<1>11. ASSUME NEW scope \in DiscardScopes, Discard(scope)
       PROVE  OneItemInv' /\ discards' # discards
  <2>1. txn' = disk' /\ discards' # discards
    BY <1>11 DEF Discard, TypeOK
  <2> QED BY <2>1 DEF OneItemInv, Entry, MovesOf
<1> QED BY <1>4, <1>5, <1>6, <1>7, <1>8, <1>9, <1>10, <1>11 DEF Next, Step

\* Every commit but a reextract's changes the outcome or the moves of one item at
\* most, even the commit that record() makes of what an exception left behind.
THEOREM CommitsAreOfOneItem == Spec => CommitTouchesOneItem
<1>1. Init => OneItemInv
  BY DEF Init, OneItemInv
<1>2. TypeOK /\ OneItemInv /\ [Next]_vars => OneItemInv'
  BY OneItemStep
<1>3. TypeOK /\ OneItemInv /\ [Next]_vars =>
        [discards' = discards =>
           \A i, j \in Items :
             /\ <<disk.state[i], MovesOf(disk, i)>> # <<disk.state[i], MovesOf(disk, i)>>'
             /\ <<disk.state[j], MovesOf(disk, j)>> # <<disk.state[j], MovesOf(disk, j)>>'
             => i = j]_vars
  <2> SUFFICES ASSUME TypeOK, OneItemInv, [Next]_vars, discards' = discards,
                      NEW i \in Items, NEW j \in Items,
                      <<disk.state[i], MovesOf(disk, i)>> # <<disk'.state[i], MovesOf(disk', i)>>,
                      <<disk.state[j], MovesOf(disk, j)>> # <<disk'.state[j], MovesOf(disk', j)>>
               PROVE  i = j
    BY DEF MovesOf
  <2>1. Entry(disk', i) # Entry(disk, i) /\ Entry(disk', j) # Entry(disk, j)
    BY DEF Entry
  <2> QED BY <2>1, OneItemStep DEF OneChanged
<1> QED BY <1>1, <1>2, <1>3, TypeCorrect, PTL DEF Spec, CommitTouchesOneItem
=============================================================================
