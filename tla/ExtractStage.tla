---------------------------- MODULE ExtractStage ----------------------------
(***************************************************************************)
(* tracker/pipeline/extract.py run inside tracker/pipeline/runs.py record: *)
(* raw_items -> firms, moves, evidence and review queue.                   *)
(*                                                                         *)
(* `disk` is the committed database, `txn` what the connection's open      *)
(* transaction sees.  Every SQL statement is a step on txn, so that a      *)
(* fault can fall between any two of them.  A fault ends the process in    *)
(* one of three ways: the process dies and the server rolls back; a        *)
(* statement is refused, which leaves the connection unusable; or a Python *)
(* exception unwinds through the `finally` of record, which commits.       *)
(***************************************************************************)
EXTENDS Integers, Sequences

CONSTANTS
  Items,           \* raw_items rows with gate_passed
  Sources,         \* sources rows
  SourceOf,        \* [Items -> Sources]
  PublishedAt,     \* [Items -> Nat], raw_items.published_at
  Persons,         \* surname keys a reading may name
  Firms,           \* firm names a reading may name
  RegisterFirms,   \* the firms the register has synced
  Readings,        \* [Items -> SUBSET Reading], the answers of the extractor
  Costly,          \* items one call on which is projected above the whole ceiling
  TaxonomyLoaded,  \* whether `tracker taxonomy --load` has run at the start
  Faults,          \* which of "kill", "interrupt" may happen
  MaxFaults,       \* bound on how often they do
  MaxDiscards      \* bound on the number of reextract commands

NoItem == "no item"

\* ExtractedMove, reduced to what _persist branches on. refusedBy says which
\* database rule the row breaks: the suppression trigger on people, a CHECK of
\* moves, or a deferred trigger that is only evaluated by COMMIT.
Move == [person    : Persons,
         firms     : SUBSET Firms,
         weak      : BOOLEAN,    \* move.needs_review
         unplaced  : BOOLEAN,    \* classify_from answers `unclassified`
         refusedBy : {"nothing", "tombstone", "check", "deferred trigger"}]

Reading == [kind : {"moves", "no_move", "error"}, moves : Seq(Move)]

ASSUME ExtractAssumption ==
  /\ NoItem \notin Items
  /\ SourceOf \in [Items -> Sources]
  /\ PublishedAt \in [Items -> Nat]
  /\ RegisterFirms \subseteq Firms
  /\ Readings \in [Items -> SUBSET Reading]
  /\ \A i \in Items : Readings[i] # {}
  /\ \A i \in Items : \A r \in Readings[i] : r.kind = "moves" <=> r.moves # <<>>
  /\ Costly \subseteq Items
  /\ TaxonomyLoaded \in BOOLEAN
  /\ Faults \subseteq {"kill", "interrupt"}
  /\ MaxFaults \in Nat
  /\ MaxDiscards \in Nat

VARIABLES
  disk,      \* the committed database
  txn,       \* the database as the stage's transaction sees it
  pc,        \* where the stage is
  todo,      \* items of the batch not yet opened
  cur,       \* the item being worked on
  moves,     \* result.moves of the current item
  slot,      \* index into moves
  fresh,     \* firms _resolve_firm created for the current move
  spent,     \* whether this process has finished an extractor call
  run,       \* status of the last pipeline_runs row
  taxonomy,  \* whether practice_groups holds the nodes of the taxonomy file
  faults, discards

local == <<todo, cur, moves, slot, fresh, spent>>
vars == <<disk, txn, pc, local, run, taxonomy, faults, discards>>

-----------------------------------------------------------------------------
(* The database. A moves row is identified by its extraction_fingerprint.   *)

Fingerprint == [item : Items, person : Persons, slot : Nat]

fingerprint(i, person, s) == [item |-> i, person |-> person, slot |-> s]

Database ==
  [state    : [Items -> {"new", "extracted", "rejected", "error"}],
   full     : SUBSET Items,                   \* source_access = 'full_public'
   firms    : SUBSET Firms,
   moves    : SUBSET Fingerprint,
   pending  : SUBSET Fingerprint,             \* review_state = 'pending_review'
   deferred : SUBSET Fingerprint,             \* rows COMMIT will refuse
   sourced  : SUBSET Fingerprint,             \* has its move_sources row
   placed   : SUBSET Fingerprint,             \* has a primary practice group
   unplaced : SUBSET Fingerprint,             \* ... and it is `unclassified`
   queued   : SUBSET Fingerprint,             \* has an open review_queue item
   flags    : SUBSET (Fingerprint \X Firms)]  \* new_firms of those items

EmptyDatabase ==
  [state |-> [i \in Items |-> "new"], full |-> {}, firms |-> RegisterFirms,
   moves |-> {}, pending |-> {}, deferred |-> {}, sourced |-> {}, placed |-> {},
   unplaced |-> {}, queued |-> {}, flags |-> {}]

MovesOf(db, i) == {f \in db.moves : f.item = i}

\* Mutant: items that failed are tried again.
RetryErrors(db) == {i \in Items : db.state[i] \in {"new", "error"}}

pending_items(db) == {i \in Items : db.state[i] = "new"}

\* ORDER BY published_at DESC LIMIT n, for every n >= 1.
Batches(db) ==
  {b \in SUBSET pending_items(db) :
     /\ b = {} => pending_items(db) = {}
     /\ \A i \in b, j \in pending_items(db) \ b : PublishedAt[i] >= PublishedAt[j]}

-----------------------------------------------------------------------------
(* How a run ends.                                                          *)

EndRun(db, status) ==
  /\ disk' = db
  /\ txn' = db
  /\ run' = status
  /\ pc' = "idle"
  /\ todo' = {}
  /\ cur' = NoItem
  /\ moves' = <<>>
  /\ slot' = 1
  /\ fresh' = {}
  /\ spent' = FALSE

\* A Python exception while the connection is usable: record() writes the
\* failed status and commits, and with it whatever the stage had written.
Unwind ==
  \/ txn.deferred = {} /\ EndRun(txn, "failed")
  \/ txn.deferred # {} /\ EndRun(disk, run)

\* A refused statement: the connection is in a failed transaction, so the
\* UPDATE in record's finally raises too and the row keeps its status.
Abort == EndRun(disk, run)

\* Mutant: the item is written but not committed.
CommitLater(db) ==
  /\ txn' = db
  /\ pc' = "next"
  /\ cur' = NoItem
  /\ moves' = <<>>
  /\ slot' = 1
  /\ fresh' = {}
  /\ spent' = TRUE
  /\ UNCHANGED <<disk, todo, run>>

\* conn.commit() at the end of an item. COMMIT evaluates the deferred triggers;
\* when one raises, the rollback leaves the connection idle and usable.
CommitItem(db) ==
  \/ /\ db.deferred = {}
     /\ disk' = db
     /\ txn' = db
     /\ pc' = "next"
     /\ cur' = NoItem
     /\ moves' = <<>>
     /\ slot' = 1
     /\ fresh' = {}
     /\ spent' = TRUE
     /\ UNCHANGED <<todo, run>>
  \/ db.deferred # {} /\ EndRun(disk, "failed")

environment == <<taxonomy, faults, discards>>

-----------------------------------------------------------------------------
(* The stage.                                                               *)

Init ==
  /\ disk = EmptyDatabase
  /\ txn = EmptyDatabase
  /\ pc = "idle"
  /\ todo = {}
  /\ cur = NoItem
  /\ moves = <<>>
  /\ slot = 1
  /\ fresh = {}
  /\ spent = FALSE
  /\ run = "none"
  /\ taxonomy = TaxonomyLoaded
  /\ faults = 0
  /\ discards = 0

StartRun ==
  /\ pc = "idle"
  /\ \E batch \in Batches(disk) : todo' = batch
  /\ run' = "running"
  /\ pc' = "next"
  /\ UNCHANGED <<disk, txn, cur, moves, slot, fresh, spent, environment>>

FinishRun ==
  /\ pc = "next"
  /\ todo = {}
  /\ EndRun(disk, "succeeded")
  /\ UNCHANGED environment

\* The next item, newest first, and its text: a body read from the feed, the
\* cache or the page lifts source_access before the extractor sees the item.
OpenItem ==
  /\ pc = "next"
  /\ \E i \in todo :
       /\ \A j \in todo : PublishedAt[i] >= PublishedAt[j]
       /\ cur' = i
       /\ todo' = todo \ {i}
       /\ \E bodyRead \in SUBSET {i} : txn' = [txn EXCEPT !.full = @ \cup bodyRead]
  /\ pc' = "extract"
  /\ UNCHANGED <<disk, moves, slot, fresh, spent, run, environment>>

\* The extractor failed or found no move: _mark and commit.
SettleWithoutMoves ==
  /\ pc = "extract"
  /\ \E reading \in Readings[cur] :
       /\ reading.kind # "moves"
       /\ CommitItem([txn EXCEPT !.state[cur] =
                        IF reading.kind = "no_move" THEN "rejected" ELSE "error"])
  /\ UNCHANGED environment

ReadMoves ==
  /\ pc = "extract"
  /\ \E reading \in Readings[cur] :
       /\ reading.kind = "moves"
       /\ moves' = reading.moves
  /\ slot' = 1
  /\ pc' = "persist"
  /\ UNCHANGED <<disk, txn, todo, cur, fresh, spent, run, environment>>

\* CostCeilingExceeded is raised before a call, on what is spent and the projection.
HitCostCeiling ==
  /\ pc = "extract"
  /\ spent \/ cur \in Costly
  /\ EndRun(txn, "failed")
  /\ UNCHANGED environment

row == fingerprint(cur, moves[slot].person, slot)

\* Mutant: no early return, so the INSERT meets the unique fingerprint index.
InsertPersisted ==
  /\ pc = "persist"
  /\ slot \in DOMAIN moves
  /\ row \in txn.moves
  /\ Abort
  /\ UNCHANGED environment

\* _persist's early return: the fingerprint is already there.
SkipPersisted ==
  /\ pc = "persist"
  /\ slot \in DOMAIN moves
  /\ row \in txn.moves
  /\ slot' = slot + 1
  /\ UNCHANGED <<disk, txn, pc, todo, cur, moves, fresh, spent, run, environment>>

\* _resolve_person and _resolve_firm; a firm nobody has heard of is created.
Resolve ==
  /\ pc = "persist"
  /\ slot \in DOMAIN moves
  /\ row \notin txn.moves
  /\ moves[slot].refusedBy # "tombstone"
  /\ fresh' = moves[slot].firms \ txn.firms
  /\ txn' = [txn EXCEPT !.firms = @ \cup moves[slot].firms]
  /\ pc' = "insert"
  /\ UNCHANGED <<disk, todo, cur, moves, slot, spent, run, environment>>

\* Mutant: a firm created on the way is no reason for review.
NewFirmsUnseen == moves[slot].weak

needs_review == moves[slot].weak \/ fresh # {}

InsertMove ==
  /\ pc = "insert"
  /\ moves[slot].refusedBy # "check"
  /\ txn' = [txn EXCEPT
               !.moves = @ \cup {row},
               !.pending = IF needs_review THEN @ \cup {row} ELSE @,
               !.deferred = IF moves[slot].refusedBy = "deferred trigger"
                            THEN @ \cup {row} ELSE @]
  /\ pc' = "source"
  /\ UNCHANGED <<disk, local, run, environment>>

\* The people trigger or a CHECK of moves refuses the row.
RefuseStatement ==
  /\ \/ /\ pc = "persist"
        /\ slot \in DOMAIN moves
        /\ row \notin txn.moves
        /\ moves[slot].refusedBy = "tombstone"
     \/ /\ pc = "insert"
        /\ moves[slot].refusedBy = "check"
  /\ Abort
  /\ UNCHANGED environment

\* move_sources, and the field evidence that follows it.
LinkSource ==
  /\ pc = "source"
  /\ txn' = [txn EXCEPT !.sourced = @ \cup {row}]
  /\ pc' = "classify"
  /\ UNCHANGED <<disk, local, run, environment>>

Classify ==
  /\ pc = "classify"
  /\ taxonomy
  /\ txn' = [txn EXCEPT
               !.placed = @ \cup {row},
               !.unplaced = IF moves[slot].unplaced THEN @ \cup {row} ELSE @]
  /\ pc' = "queue"
  /\ UNCHANGED <<disk, local, run, environment>>

\* _classify finds no node of the taxonomy file's version: a ValueError.
FailClassify ==
  /\ pc = "classify"
  /\ ~taxonomy
  /\ Unwind
  /\ UNCHANGED environment

\* Mutant: the next move is inserted without the bound being looked at.
QueueThenInsert ==
  /\ pc = "queue"
  /\ slot' = slot + 1
  /\ fresh' = {}
  /\ pc' = "insert"
  /\ UNCHANGED <<disk, txn, todo, cur, moves, spent, run, environment>>

\* Mutant: one commit per move.
QueueAndCommit ==
  /\ pc = "queue"
  /\ disk' = txn
  /\ slot' = slot + 1
  /\ fresh' = {}
  /\ pc' = "persist"
  /\ UNCHANGED <<txn, todo, cur, moves, spent, run, environment>>

\* Mutant: an unclassified move is not queued.
QueueWeakOnly ==
  /\ pc = "queue"
  /\ txn' = [txn EXCEPT !.queued = IF needs_review THEN @ \cup {row} ELSE @]
  /\ slot' = slot + 1
  /\ fresh' = {}
  /\ pc' = "persist"
  /\ UNCHANGED <<disk, todo, cur, moves, spent, run, environment>>

\* Open a review item when the move asks for one, and go to the next slot.
QueueReview ==
  /\ pc = "queue"
  /\ txn' = [txn EXCEPT
               !.queued = IF needs_review \/ moves[slot].unplaced
                          THEN @ \cup {row} ELSE @,
               !.flags = IF needs_review THEN @ \cup ({row} \X fresh) ELSE @]
  /\ slot' = slot + 1
  /\ fresh' = {}
  /\ pc' = "persist"
  /\ UNCHANGED <<disk, todo, cur, moves, spent, run, environment>>

MarkExtracted ==
  /\ pc = "persist"
  /\ slot \notin DOMAIN moves
  /\ CommitItem([txn EXCEPT !.state[cur] = "extracted"])
  /\ UNCHANGED environment

-----------------------------------------------------------------------------
(* Operators, and what can befall the process.                              *)

LoadTaxonomy ==
  /\ ~taxonomy
  /\ taxonomy' = TRUE
  /\ UNCHANGED <<disk, txn, pc, local, run, faults, discards>>

Fault(kind) ==
  /\ kind \in Faults
  /\ pc # "idle"
  /\ faults < MaxFaults
  /\ faults' = faults + 1
  /\ UNCHANGED <<taxonomy, discards>>

\* SIGKILL, a lost runner, a dropped connection: the server rolls back.
Kill == Fault("kill") /\ EndRun(disk, run)

\* KeyboardInterrupt: an exception like any other between two statements; in
\* the middle of one, psycopg cancels it and the transaction has failed.
Interrupt == Fault("interrupt") /\ (Unwind \/ Abort)

\* Deleting a moves row cascades to its sources, practice groups and queue items.
WithoutMoves(db, gone) ==
  [db EXCEPT !.moves = @ \ gone, !.pending = @ \ gone, !.sourced = @ \ gone,
             !.placed = @ \ gone, !.unplaced = @ \ gone, !.queued = @ \ gone,
             !.flags = {flag \in @ : flag[1] \notin gone}]

DiscardScopes == {{s} : s \in Sources} \cup {Sources}

\* `tracker reextract --apply`, which finds moves through move_sources.
Discard(scope) ==
  LET gone == {f \in disk.sourced : SourceOf[f.item] \in scope}
      db == [WithoutMoves(disk, gone) EXCEPT !.state =
               [i \in Items |-> IF SourceOf[i] \in scope THEN "new" ELSE @[i]]]
  IN /\ pc = "idle"
     /\ discards < MaxDiscards
     /\ discards' = discards + 1
     /\ disk' = db
     /\ txn' = db
     /\ UNCHANGED <<pc, local, run, taxonomy, faults>>

-----------------------------------------------------------------------------

Step ==
  \/ FinishRun \/ OpenItem \/ SettleWithoutMoves \/ ReadMoves \/ SkipPersisted
  \/ Resolve \/ InsertMove \/ RefuseStatement \/ LinkSource \/ Classify
  \/ FailClassify \/ QueueReview \/ MarkExtracted

Next ==
  \/ StartRun
  \/ Step
  \/ HitCostCeiling
  \/ LoadTaxonomy
  \/ Kill
  \/ Interrupt
  \/ \E scope \in DiscardScopes : Discard(scope)

Spec == Init /\ [][Next]_vars

\* A running process takes its next step, and the operator keeps starting runs
\* (catch-up every few months) and loads the taxonomy when told to.
FairSpec ==
  /\ Spec
  /\ WF_vars(Step)
  /\ WF_vars(StartRun)
  /\ WF_vars(LoadTaxonomy)

-----------------------------------------------------------------------------
(* Properties.                                                              *)

Stages == {"idle", "next", "extract", "persist", "insert", "source", "classify", "queue"}

Busy == pc \notin {"idle", "next"}

StageType ==
  /\ disk \in Database
  /\ txn \in Database
  /\ pc \in Stages
  /\ todo \in SUBSET Items
  /\ cur \in Items \cup {NoItem}
  /\ moves \in Seq(Move)
  /\ slot \in Nat \ {0}
  /\ fresh \in SUBSET Firms
  /\ spent \in BOOLEAN
  /\ run \in {"none", "running", "succeeded", "failed"}
  /\ Busy => cur \in Items
  /\ pc \in {"insert", "source", "classify", "queue"} => slot \in DOMAIN moves

\* Types of all variables; a stage at work has an item, and a move in hand while
\* it writes one.
TypeOK ==
  /\ StageType
  /\ taxonomy \in BOOLEAN
  /\ faults \in 0 .. MaxFaults
  /\ discards \in 0 .. MaxDiscards

MovesIn(i, reading) ==
  {fingerprint(i, reading.moves[s].person, s) : s \in DOMAIN reading.moves}

\* An item that is not settled has no move on disk, and an extracted item has
\* exactly the moves of one answer of the extractor: no move of an abandoned
\* attempt survives beside those of the retry (extract.py run, 131-256).
ItemAtomic ==
  \A i \in Items :
    IF disk.state[i] = "extracted"
    THEN \E reading \in Readings[i] :
           reading.kind = "moves" /\ MovesOf(disk, i) = MovesIn(i, reading)
    ELSE MovesOf(disk, i) = {}

\* A committed move has its source and its practice group, and one that waits
\* for a human, for any reason, has an open review item (_persist, 450-593).
EveryMoveComplete ==
  /\ disk.moves \subseteq disk.sourced
  /\ disk.moves \subseteq disk.placed
  /\ disk.pending \cup disk.unplaced \subseteq disk.queued

\* A firm that extraction created is named in an open review item
\* (_resolve_firm, 378-409: "created as 'other' and flagged"), until a reextract
\* deletes review items.
NewFirmsFlagged ==
  discards = 0 => \A firm \in disk.firms \ RegisterFirms : \E f \in disk.moves : <<f, firm>> \in disk.flags

\* One commit settles or fills at most one item, so a failure costs at most the
\* item in hand (run commits after each item).
CommitTouchesOneItem ==
  [][discards' = discards =>
       \A i, j \in Items :
         /\ <<disk.state[i], MovesOf(disk, i)>> # <<disk.state[i], MovesOf(disk, i)>>'
         /\ <<disk.state[j], MovesOf(disk, j)>> # <<disk.state[j], MovesOf(disk, j)>>'
         => i = j]_vars

\* Every pending item is settled, whatever the batch limit, the faults and the
\* items published after it.
EveryItemSettles ==
  \A i \in Items : disk.state[i] = "new" ~> disk.state[i] # "new"

\* Why the safety properties hold when no exception unwinds in mid-item: the
\* transaction is the committed database plus the moves of one answer up to the
\* current slot, and only the row in hand may be incomplete.
Persisting == pc \in {"persist", "insert", "source", "classify", "queue"}
InHand(stages) == IF pc \in stages THEN {row} ELSE {}
LastWritten == IF pc \in {"source", "classify", "queue"} THEN slot ELSE slot - 1
Written == {fingerprint(cur, moves[s].person, s) : s \in 1 .. LastWritten}

DiskInv ==
  /\ ItemAtomic
  /\ EveryMoveComplete
  /\ disk.pending \cup disk.unplaced \subseteq disk.moves
  /\ disk.deferred = {}
  /\ ~Busy => txn = disk

BusyInv ==
  Busy => /\ disk.state[cur] = "new"
          /\ txn.state = disk.state

ItemInv ==
  pc = "extract" => [txn EXCEPT !.full = disk.full] = disk

AnswerInv ==
  Persisting =>
    /\ \E reading \in Readings[cur] : reading.kind = "moves" /\ reading.moves = moves
    /\ slot <= Len(moves) + 1
    /\ pc # "persist" => slot <= Len(moves)
    /\ txn.moves = disk.moves \cup Written

RowInv ==
  Persisting =>
    /\ txn.pending \cup txn.unplaced \subseteq txn.moves
    /\ txn.moves \ InHand({"source"}) \subseteq txn.sourced
    /\ txn.moves \ InHand({"source", "classify"}) \subseteq txn.placed
    /\ (txn.pending \cup txn.unplaced) \ InHand({"source", "classify", "queue"})
         \subseteq txn.queued
    /\ pc \in {"source", "classify", "queue"} =>
         /\ row \in txn.pending => needs_review
         /\ row \in txn.unplaced => moves[slot].unplaced

TodoInv ==
  /\ \A i \in todo : disk.state[i] = "new" /\ i # cur
  /\ ~Busy => cur = NoItem

IInv == DiskInv /\ BusyInv /\ ItemInv /\ AnswerInv /\ RowInv /\ TodoInv /\ taxonomy

\* The promise the stage implements.
Ledger == INSTANCE ItemLedger WITH
  ledger <- [i \in Items |-> [state |-> disk.state[i], moves |-> MovesOf(disk, i)]]

LedgerSpec == Ledger!Spec
=============================================================================
