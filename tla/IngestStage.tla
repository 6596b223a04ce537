----------------------------- MODULE IngestStage -----------------------------
(***************************************************************************)
(* tracker/pipeline/ingest.py under `tracker catch-up`: the live feeds,    *)
(* then the archives, each inside runs.record, over a window that starts   *)
(* two weeks before the last run that succeeded.  Time is counted in days  *)
(* and stands still while a command runs (a job is cut off after 330       *)
(* minutes).  What a live feed still lists, or an archive that cannot be   *)
(* read whole, is any part of what its outlet published; the other         *)
(* archives keep everything.  A read may outlast the connection the run    *)
(* was opened on: db.live replaces it for the stage, not for record.       *)
(***************************************************************************)
EXTENDS Integers, FiniteSets

CONSTANTS
  Sources,      \* active, collectable sources
  Archives,     \* those with an adapter of BACKFILL_ADAPTERS
  Unreadable,   \* sources whose reads may fail or come back short
  PollInterval, \* [Sources -> days]
  Items,        \* what the outlets publish
  SourceOf,     \* [Items -> Sources]
  DateOf,       \* [Items -> day], published_at
  AppearsAt,    \* [Items -> day] from which on the outlet lists it
  Refused,      \* items whose row breaks a CHECK of raw_items
  Commands,     \* `tracker ingest` and `tracker backfill` as the operator gives them
  Days,         \* days on which the operator may act
  Faults,       \* which of "kill", "interrupt", "drop" may happen
  MaxFaults     \* bound on how often they happen

OVERLAP == 14
FIRST_WINDOW == 90
Never == -1000     \* NULL
Newest == -2000    \* no --since: the first page of each source

Command == [stage : {"ingest", "backfill"}, only : SUBSET Sources, since : Int]

ASSUME IngestAssumption ==
  /\ Archives \subseteq Sources /\ Unreadable \subseteq Sources
  /\ PollInterval \in [Sources -> Nat \ {0}]
  /\ SourceOf \in [Items -> Sources]
  /\ DateOf \in [Items -> Int] /\ AppearsAt \in [Items -> Int]
  /\ Refused \subseteq Items
  /\ Commands \subseteq Command
  /\ Days \subseteq Nat /\ 0 \in Days
  /\ Faults \subseteq {"kill", "interrupt", "drop"}
  /\ MaxFaults \in Nat

\* "outlets publish late": an outlet dates an item back by no more than the
\* overlap leaves beside the poll interval.
ASSUME LatenessAssumption ==
  \A i \in Items : AppearsAt[i] - DateOf[i] + PollInterval[SourceOf[i]] <= OVERLAP

VARIABLES
  now,
  disk,      \* the committed database
  txn,       \* the database as the stage's connection sees it
  stale,     \* record's connection is not the stage's any more
  pc,        \* where the command is
  stage,     \* which of the two it is running
  rest,      \* whether archives follow the feeds
  since,     \* start of the window
  todo,      \* sources the stage has not read
  cur,       \* the source in hand
  found,     \* its items not yet inserted
  faults

local == <<stale, pc, stage, rest, since, todo, cur, found>>
vars == <<now, disk, txn, local, faults>>

NoSource == "no source"

Database == [raw : SUBSET Items,                       \* raw_items
             polled : [Sources -> Days \cup {Never}],  \* last_polled_at
             walked : SUBSET Sources,                  \* backfill_completed_at is set
             succeeded : Days \cup {Never},            \* started_at of the last success
             first : Days \cup {Never}]                \* ... and of the first one

EmptyDatabase == [raw |-> {}, polled |-> [s \in Sources |-> Never], walked |-> {},
                  succeeded |-> Never, first |-> Never]

-----------------------------------------------------------------------------
(* What is read.                                                            *)

\* Mutant: no overlap.
LastSuccess(db) == IF db.succeeded = Never THEN now - FIRST_WINDOW ELSE db.succeeded

\* The window of a catch-up without --since.
Window(db) == IF db.succeeded = Never THEN now - FIRST_WINDOW ELSE db.succeeded - OVERLAP

due_sources(db) ==
  {s \in Sources : db.polled[s] = Never \/ db.polled[s] + PollInterval[s] <= now}

\* Mutant: the archives wait for their poll interval.
DueArchives(db) == Archives \cap due_sources(db)

archives(db) == Archives

Listed(s, from) == {i \in Items : SourceOf[i] = s /\ AppearsAt[i] <= now /\ DateOf[i] >= from}

\* Sources whose every listed item comes back from a read.
Whole == Archives \ Unreadable

Reads(s) == IF s \in Whole /\ since # Newest THEN {Listed(s, since)}
            ELSE SUBSET Listed(s, since)

-----------------------------------------------------------------------------
(* How a stage ends.                                                        *)

EndCommand(db) ==
  /\ disk' = db
  /\ txn' = db
  /\ stale' = FALSE
  /\ pc' = "idle"
  /\ stage' = "none"
  /\ rest' = FALSE
  /\ since' = 0
  /\ todo' = {}
  /\ cur' = NoSource
  /\ found' = {}

Open(stg, sources, from, more) ==
  /\ pc' = "sources"
  /\ stage' = stg
  /\ rest' = more
  /\ since' = from
  /\ todo' = sources
  /\ UNCHANGED <<disk, txn, stale, cur, found>>

\* Mutant: the run that an exception ends counts as a success.
UnwindAsSuccess ==
  \/ stale /\ EndCommand(disk)
  \/ ~stale /\ EndCommand([txn EXCEPT !.succeeded = now])

\* A Python exception while the connection is usable: record() commits what the
\* stage has written, unless its own connection is gone.
Unwind ==
  \/ stale /\ EndCommand(disk)
  \/ ~stale /\ EndCommand(txn)

\* The row of the run that has succeeded, in the database.
Succeeded(db) ==
  [db EXCEPT !.succeeded = now,
             !.first = IF db.succeeded = Never THEN now ELSE @]

-----------------------------------------------------------------------------

Init ==
  /\ now = 0
  /\ disk = EmptyDatabase
  /\ txn = EmptyDatabase
  /\ stale = FALSE
  /\ pc = "idle"
  /\ stage = "none"
  /\ rest = FALSE
  /\ since = 0
  /\ todo = {}
  /\ cur = NoSource
  /\ found = {}
  /\ faults = 0

\* Nobody runs the tracker for some days.
Tick ==
  /\ pc = "idle"
  /\ now' \in {d \in Days : d > now}
  /\ UNCHANGED <<disk, txn, local, faults>>

CatchUp ==
  /\ pc = "idle"
  /\ Open("ingest", due_sources(disk), Window(disk), TRUE)
  /\ UNCHANGED <<now, faults>>

RunCommand(c) ==
  /\ pc = "idle"
  /\ \/ c.stage = "ingest" /\ Open("ingest", c.only \cap due_sources(disk), c.since, FALSE)
     \/ c.stage = "backfill" /\ Open("backfill", c.only \cap archives(disk), c.since, FALSE)
  /\ UNCHANGED <<now, faults>>

\* The order of the sources: due ones by last_polled_at, archives as registered.
First(s) ==
  s \in todo /\ (stage = "ingest" => \A r \in todo : txn.polled[s] <= txn.polled[r])

\* adapter.fetch, and db.live before anything is written.
ReadSource ==
  /\ pc = "sources"
  /\ \E s \in Sources :
       /\ First(s)
       /\ todo' = todo \ {s}
       /\ cur' = s
       /\ found' \in Reads(s)
  /\ pc' = "writing"
  /\ UNCHANGED <<now, disk, txn, stale, stage, rest, since, faults>>

\* The read fails: the yield is recorded and the stage goes on. A feed raises, a
\* mailbox too; pages and sitemaps that fail come back as a short read.
FailRead ==
  /\ pc = "sources"
  /\ \E s \in Unreadable :
       /\ First(s)
       /\ todo' = todo \ {s}
       /\ IF stage = "backfill" THEN cur' = s /\ pc' = "walked" ELSE UNCHANGED <<cur, pc>>
  /\ UNCHANGED <<now, disk, txn, stale, stage, rest, since, found, faults>>

\* INSERT ... ON CONFLICT (url) DO NOTHING
InsertItem ==
  /\ pc = "writing"
  /\ \E i \in found \ Refused :
       /\ found' = found \ {i}
       /\ txn' = [txn EXCEPT !.raw = @ \cup {i}]
  /\ UNCHANGED <<now, disk, stale, pc, stage, rest, since, todo, cur, faults>>

\* The database refuses the row: nothing catches the error before record, whose own
\* UPDATE fails on the aborted transaction.
RefuseItem ==
  /\ pc = "writing"
  /\ found \cap Refused # {}
  /\ EndCommand(disk)
  /\ UNCHANGED <<now, faults>>

\* Mutant: the poll is committed with the next source.
CommitLater(db) ==
  /\ txn' = db
  /\ UNCHANGED disk

Commit(db) ==
  /\ disk' = db
  /\ txn' = db

\* All items are in: last_polled_at, and commit.
FinishSource ==
  /\ pc = "writing"
  /\ found = {}
  /\ Commit([txn EXCEPT !.polled[cur] = now])
  /\ IF stage = "backfill" THEN pc' = "walked" /\ UNCHANGED cur
     ELSE pc' = "sources" /\ cur' = NoSource
  /\ UNCHANGED <<now, stale, stage, rest, since, todo, found, faults>>

\* backfilled_to and backfill_completed_at, whether the read failed or not.
MarkWalked ==
  /\ pc = "walked"
  /\ Commit([txn EXCEPT !.walked = @ \cup {cur}])
  /\ pc' = "sources"
  /\ cur' = NoSource
  /\ UNCHANGED <<now, stale, stage, rest, since, todo, found, faults>>

\* The stage returns. record closes the run on the connection it was given, and
\* a catch-up that read its feeds goes on to the archives.
FinishStage ==
  /\ pc = "sources"
  /\ todo = {}
  /\ \/ stale /\ EndCommand(txn)
     \/ /\ ~stale /\ ~rest
        /\ EndCommand(Succeeded(txn))
     \/ /\ ~stale /\ rest
        /\ Commit(Succeeded(txn))
        /\ stage' = "backfill"
        /\ rest' = FALSE
        /\ todo' = archives(disk)
        /\ UNCHANGED <<stale, pc, since, cur, found>>
  /\ UNCHANGED <<now, faults>>

-----------------------------------------------------------------------------
(* What can befall a command.                                               *)

Fault(kind) ==
  /\ kind \in Faults
  /\ pc # "idle"
  /\ faults < MaxFaults
  /\ faults' = faults + 1
  /\ UNCHANGED now

Kill == Fault("kill") /\ EndCommand(disk)

\* Ctrl-C between two statements, or in the middle of one.
Interrupt == Fault("interrupt") /\ (Unwind \/ EndCommand(disk))

\* The server closes the connection during a read; what was not committed on it
\* goes, and the stage continues on a new one.
Drop ==
  /\ Fault("drop")
  /\ pc = "sources"
  /\ todo # {}
  /\ txn' = disk
  /\ stale' = TRUE
  /\ UNCHANGED <<disk, pc, stage, rest, since, todo, cur, found>>

Step == ReadSource \/ FailRead \/ InsertItem \/ RefuseItem \/ FinishSource \/ MarkWalked \/ FinishStage

Next ==
  \/ Tick \/ CatchUp \/ Step
  \/ \E c \in Commands : RunCommand(c)
  \/ Kill \/ Interrupt \/ Drop

Spec == Init /\ [][Next]_vars

\* A running command takes its next step, and the operator does not give up
\* catching up, whatever else he runs in between.
FairSpec == Spec /\ WF_vars(Step) /\ SF_vars(CatchUp)

-----------------------------------------------------------------------------
(* Properties.                                                              *)

\* Types of all variables; a source is in hand while its items are written.
TypeOK ==
  /\ now \in Days
  /\ disk \in Database /\ txn \in Database
  /\ stale \in BOOLEAN /\ rest \in BOOLEAN
  /\ pc \in {"idle", "sources", "writing", "walked"}
  /\ stage \in {"none", "ingest", "backfill"}
  /\ pc = "idle" <=> stage = "none"
  /\ since \in Int
  /\ todo \subseteq Sources
  /\ cur \in Sources \cup {NoSource}
  /\ pc \in {"writing", "walked"} => cur \in Sources
  /\ found \subseteq Items
  /\ faults \in 0 .. MaxFaults

\* The start of the first window of a catch-up that succeeded.
Floor == (IF disk.first = Never THEN now ELSE disk.first) - FIRST_WINDOW

\* What lies behind the window of the next catch-up is in the database, back to
\* where the first one started: no item of an archive falls between two windows,
\* whatever was cut off, not due or published late (catch_up_cmd, 493-496:
\* "Overlap the window deliberately").
NothingMissed ==
  disk.succeeded # Never =>
    \A i \in Items :
      /\ SourceOf[i] \in Whole
      /\ DateOf[i] >= Floor
      /\ DateOf[i] < disk.succeeded - OVERLAP
      => i \in disk.raw

\* The watermark is one for all sources; it never runs ahead of an archive by
\* its poll interval or more (due_sources 156-170, record 96-143).
WatermarkCovers ==
  disk.succeeded # Never =>
    \A s \in Whole :
      disk.polled[s] # Never /\ disk.succeeded - disk.polled[s] < PollInterval[s]

\* A commit brings items of one source at most, and the poll date of a source
\* never without all it listed in the window (_ingest_one, 311-331).
CommitPerSource ==
  [][/\ \A i, j \in disk'.raw \ disk.raw : SourceOf[i] = SourceOf[j]
     /\ \A s \in Whole :
          disk'.polled[s] # disk.polled[s] /\ since # Newest =>
            Listed(s, since) \subseteq disk'.raw]_vars

\* What an archive lists inside the window comes in, however often the command is
\* cut off (backfill: "an interrupted backfill is continued by re-running"), unless
\* some outlet lists a row there that the database refuses.
WindowIsRead ==
  \A i \in Items :
    /\ SourceOf[i] \in Whole
    /\ AppearsAt[i] <= now
    /\ disk.succeeded # Never
    /\ DateOf[i] >= Window(disk)
    ~> i \in disk.raw \/ \E r \in Refused : r \in Listed(SourceOf[r], Window(disk))

\* The commands under which the windows join: every source, and further back than
\* any catch-up reads.
WideCommands ==
  \A c \in Commands :
    c.only = Sources /\ c.since # Newest /\ c.since <= -FIRST_WINDOW

\* Why nothing is missed. An archive has been read up to its poll date; what is
\* older than the window of the command in hand is known; and each archive is
\* still to be read, in hand, or was polled within its interval.
ReadUpTo ==
  \A i \in Items :
    /\ SourceOf[i] \in Whole
    /\ disk.polled[SourceOf[i]] # Never
    /\ AppearsAt[i] <= disk.polled[SourceOf[i]]
    /\ DateOf[i] >= Floor
    => i \in disk.raw

DiskInv ==
  /\ disk.succeeded = Never <=> disk.first = Never
  /\ \A d \in {disk.succeeded, disk.first} \cup {disk.polled[s] : s \in Sources} : d <= now
  /\ NothingMissed
  /\ WatermarkCovers
  /\ ReadUpTo

TxnInv ==
  /\ pc # "writing" => txn = disk
  /\ txn = [disk EXCEPT !.raw = txn.raw]
  /\ disk.raw \subseteq txn.raw

WindowInv ==
  pc # "idle" =>
    /\ since # Newest
    /\ \A i \in Items :
         SourceOf[i] \in Whole /\ DateOf[i] \in Floor .. since - 1 => i \in disk.raw

TodoInv ==
  /\ pc # "idle" =>
       \A s \in Whole \ todo :
         \/ pc = "writing" /\ cur = s
         \/ disk.polled[s] # Never /\ now - disk.polled[s] < PollInterval[s]
  /\ pc = "writing" /\ cur \in Whole => Listed(cur, since) \subseteq txn.raw \cup found

StageInv == DiskInv /\ TxnInv /\ WindowInv /\ TodoInv

\* Only items of the source in hand are written and not committed.
HandInv ==
  \A i \in (txn.raw \ disk.raw) \cup found : pc = "writing" /\ SourceOf[i] = cur

IInv == StageInv /\ HandInv
=============================================================================
