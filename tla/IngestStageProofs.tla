-------------------------- MODULE IngestStageProofs --------------------------
(***************************************************************************)
(* No item of a readable archive falls between two windows, for every      *)
(* register of sources, every stock of items that is late by no more than  *)
(* the overlap allows, and every way in which commands are cut off.        *)
(***************************************************************************)
EXTENDS IngestStage, TLAPS

Inv == TypeOK /\ StageInv

\* Where nothing is missed is a question of days only.
LEMMA NeverIsNoDay == Never \notin Days /\ Days \cup {Never} \subseteq Int
  BY IngestAssumption, SMT DEF Never

LEMMA InitInv == Init => Inv
<1> SUFFICES ASSUME Init PROVE Inv
  OBVIOUS
<1> USE DEF Init
<1>1. TypeOK
  <2>1. EmptyDatabase \in Database
    BY DEF EmptyDatabase, Database
  <2>2. stale \in BOOLEAN /\ rest \in BOOLEAN
    BY Zenon
  <2> QED
    BY <2>1, <2>2, IngestAssumption DEF TypeOK
<1>2. DiskInv
  BY IngestAssumption DEF DiskInv, NothingMissed, WatermarkCovers, ReadUpTo, EmptyDatabase, Never, Whole
<1>3. TxnInv /\ WindowInv /\ TodoInv
  BY DEF TxnInv, WindowInv, TodoInv, EmptyDatabase
<1> QED
  BY <1>1, <1>2, <1>3 DEF Inv, StageInv

-----------------------------------------------------------------------------
(* Types.                                                                   *)

LEMMA EndTyped ==
  ASSUME NEW db \in Database, now \in Days, EndCommand(db), now' = now, faults' \in 0 .. MaxFaults
  PROVE  TypeOK'
<1>1. stale' \in BOOLEAN /\ rest' \in BOOLEAN
  BY Zenon DEF EndCommand
<1> QED
  BY <1>1, IngestAssumption DEF EndCommand, TypeOK

LEMMA TypeStep == TypeOK /\ [Next]_vars => TypeOK'
<1> SUFFICES ASSUME TypeOK, [Next]_vars PROVE TypeOK'
  OBVIOUS
<1> USE IngestAssumption
<1>1. CASE Tick
  BY <1>1 DEF Tick, TypeOK, local
<1>2. CASE CatchUp
  <2>1. Window(disk) \in Int
    <3>1. now \in Int /\ disk.succeeded \in Int
      BY NeverIsNoDay DEF TypeOK, Database
    <3> QED
      BY <3>1 DEF Window, FIRST_WINDOW, OVERLAP
  <2> QED
    BY <1>2, <2>1 DEF CatchUp, Open, TypeOK, due_sources
<1>3. ASSUME NEW c \in Commands, RunCommand(c) PROVE TypeOK'
  <2>1. c \in Command
    OBVIOUS
  <2> QED
    BY <1>3, <2>1 DEF RunCommand, Open, TypeOK, due_sources, archives, Command
<1>4. CASE ReadSource
  BY <1>4 DEF ReadSource, TypeOK, Reads, Listed, First
<1>5. CASE FailRead
  BY <1>5 DEF FailRead, TypeOK, First
<1>6. CASE InsertItem
  <2>1. txn' \in Database
    BY <1>6 DEF InsertItem, TypeOK, Database
  <2> QED
    BY <1>6, <2>1 DEF InsertItem, TypeOK
<1>7. CASE FinishSource
  <2>1. [txn EXCEPT !.polled[cur] = now] \in Database
    BY <1>7 DEF FinishSource, TypeOK, Database
  <2> QED
    BY <1>7, <2>1 DEF FinishSource, Commit, TypeOK
<1>8. CASE MarkWalked
  <2>1. [txn EXCEPT !.walked = @ \cup {cur}] \in Database
    BY <1>8 DEF MarkWalked, TypeOK, Database
  <2> QED
    BY <1>8, <2>1 DEF MarkWalked, Commit, TypeOK
<1>9. CASE FinishStage
  <2>1. Succeeded(txn) \in Database
    BY DEF Succeeded, TypeOK, Database
  <2>2. CASE stale /\ EndCommand(txn)
    BY <1>9, <2>2, EndTyped DEF FinishStage, TypeOK
  <2>3. CASE ~stale /\ ~rest /\ EndCommand(Succeeded(txn))
    BY <1>9, <2>1, <2>3, EndTyped DEF FinishStage, TypeOK
  <2>4. CASE ~stale /\ rest /\ pc' = pc /\ stage' = "backfill"
    BY <1>9, <2>1, <2>4 DEF FinishStage, EndCommand, Commit, TypeOK, archives
  <2> QED
    BY <1>9, <2>2, <2>3, <2>4 DEF FinishStage
<1>10. ASSUME NEW kind, Fault(kind) PROVE now' = now /\ faults' \in 0 .. MaxFaults
  BY <1>10 DEF Fault, TypeOK
<1>11. CASE Kill
  BY <1>10, <1>11, EndTyped DEF Kill, TypeOK
<1>12. CASE Interrupt
  BY <1>10, <1>12, EndTyped DEF Interrupt, Unwind, TypeOK
<1>13. CASE Drop
  BY <1>10, <1>13 DEF Drop, TypeOK
<1>14. CASE RefuseItem
  BY <1>14, EndTyped DEF RefuseItem, TypeOK
<1>15. CASE UNCHANGED vars
  BY <1>15 DEF vars, local, TypeOK
<1> QED
  BY <1>1, <1>2, <1>3, <1>4, <1>5, <1>6, <1>7, <1>8, <1>9, <1>11, <1>12, <1>13, <1>14,
     <1>15
     DEF Next, Step

-----------------------------------------------------------------------------
(* The inductive step.                                                      *)

\* More items, on the same day: the disk stays sound.
LEMMA MoreItems ==
  ASSUME TypeOK, DiskInv, now' = now, NEW R, disk.raw \subseteq R,
         disk' = [disk EXCEPT !.raw = R]
  PROVE  DiskInv'
<1>1. /\ disk'.succeeded = disk.succeeded /\ disk'.first = disk.first
      /\ disk'.polled = disk.polled /\ disk'.raw = R
  BY DEF TypeOK, Database
<1>2. Floor' = Floor
  BY <1>1 DEF Floor
<1>3. NothingMissed' /\ WatermarkCovers' /\ ReadUpTo'
  BY <1>1, <1>2 DEF DiskInv, NothingMissed, WatermarkCovers, ReadUpTo
<1> QED
  BY <1>1, <1>3 DEF DiskInv

\* A command ends without success: by a kill, a lost connection or an exception.
LEMMA EndStep ==
  ASSUME Inv, now' = now, EndCommand(disk) \/ EndCommand(txn)
  PROVE  StageInv'
<1>1. PICK db \in {disk, txn} : EndCommand(db)
  OBVIOUS
<1>2. db = [disk EXCEPT !.raw = db.raw] /\ disk.raw \subseteq db.raw
  BY DEF Inv, StageInv, TxnInv, TypeOK, Database
<1>3. DiskInv'
  BY <1>1, <1>2, MoreItems DEF EndCommand, Inv, StageInv
<1>4. TxnInv' /\ WindowInv' /\ TodoInv'
  BY <1>1, <1>2 DEF EndCommand, TxnInv, WindowInv, TodoInv, Inv, TypeOK, Database
<1> QED
  BY <1>3, <1>4 DEF StageInv

\* When the last source is done every archive was polled within its interval.
\* What is older than the overlap was listed by then, and read.
LEMMA SuccessStep ==
  ASSUME Inv, pc = "sources", todo = {}, now' = now, disk' = Succeeded(txn)
  PROVE  DiskInv' /\ disk'.raw = disk.raw /\ Floor' = Floor /\ disk'.polled = disk.polled
<1> USE IngestAssumption DEF Inv, TypeOK
<1>1. txn = disk
  BY DEF StageInv, TxnInv
<1>2. /\ disk'.raw = disk.raw /\ disk'.polled = disk.polled /\ disk'.succeeded = now
      /\ disk'.first = IF disk.succeeded = Never THEN now ELSE disk.first
  BY <1>1 DEF Succeeded, Database
<1>3. Floor' = Floor
  BY <1>2, NeverIsNoDay DEF Floor, StageInv, DiskInv
<1>4. WatermarkCovers'
  BY <1>2 DEF WatermarkCovers, StageInv, TodoInv, Whole
<1>5. ASSUME NEW i \in Items, SourceOf[i] \in Whole, DateOf[i] >= Floor, DateOf[i] < now - OVERLAP
      PROVE  i \in disk.raw
  <2> DEFINE s == SourceOf[i]
  <2>1. disk.polled[s] # Never /\ now - disk.polled[s] < PollInterval[s]
    BY <1>5 DEF StageInv, TodoInv
  <2>3. disk.polled[s] \in Int
    <3>1. s \in Sources /\ disk.polled \in [Sources -> Days \cup {Never}]
      BY <1>5 DEF Database
    <3> HIDE DEF s
    <3> QED
      BY <3>1, NeverIsNoDay
  <2>2. AppearsAt[i] <= disk.polled[s]
    BY <1>5, <2>1, <2>3, LatenessAssumption DEF OVERLAP
  <2> QED
    BY <1>5, <2>1, <2>2 DEF StageInv, DiskInv, ReadUpTo
<1>6. NothingMissed'
  BY <1>2, <1>3, <1>5 DEF NothingMissed
<1>7. ReadUpTo'
  BY <1>2, <1>3 DEF ReadUpTo, StageInv, DiskInv
<1>8. disk'.first \in Days \cup {Never} /\ disk'.first <= now /\ disk'.first # Never
  BY <1>2, NeverIsNoDay DEF StageInv, DiskInv, Database
<1>9. /\ disk'.succeeded = Never <=> disk'.first = Never
      /\ \A d \in {disk'.succeeded, disk'.first} \cup {disk'.polled[s] : s \in Sources} : d <= now
  BY <1>2, <1>8, NeverIsNoDay DEF StageInv, DiskInv
<1> QED
  BY <1>2, <1>3, <1>4, <1>6, <1>7, <1>9 DEF DiskInv

\* A command opens on the database as it is.
LEMMA OpenStep ==
  ASSUME Inv, now' = now, pc = "idle", NEW stg, NEW S, NEW from, NEW more,
         Open(stg, S, from, more), from # Newest,
         \A i \in Items : SourceOf[i] \in Whole /\ DateOf[i] \in Floor .. from - 1 => i \in disk.raw,
         \A s \in Whole \ S :
           disk.polled[s] # Never /\ now - disk.polled[s] < PollInterval[s]
  PROVE  StageInv'
<1>1. Floor' = Floor
  BY DEF Open, Floor
<1>2. DiskInv'
  BY <1>1 DEF Open, Inv, StageInv, DiskInv, NothingMissed, WatermarkCovers, ReadUpTo
<1>3. TxnInv'
  BY DEF Open, Inv, StageInv, TxnInv
<1>4. WindowInv' /\ TodoInv'
  BY <1>1 DEF Open, WindowInv, TodoInv
<1> QED
  BY <1>2, <1>3, <1>4 DEF StageInv

\* The disk stays as it is on that day.
LEMMA SameDisk ==
  ASSUME DiskInv, now' = now, disk'.raw = disk.raw, disk'.polled = disk.polled,
         disk'.succeeded = disk.succeeded, disk'.first = disk.first
  PROVE  DiskInv' /\ Floor' = Floor
<1>1. Floor' = Floor
  BY DEF Floor
<1> QED
  BY <1>1 DEF DiskInv, NothingMissed, WatermarkCovers, ReadUpTo

\* Only until the first success does the floor move with the days.
LEMMA FloorMoves ==
  ASSUME now \in Int, now' \in Int, now' > now, disk' = disk, disk.first \in Int
  PROVE  /\ Floor \in Int /\ Floor' \in Int /\ Floor' >= Floor
         /\ disk.first # Never => Floor' = Floor
<1>1. CASE disk.first = Never
  <2>1. Floor = now - FIRST_WINDOW /\ Floor' = now' - FIRST_WINDOW
    BY <1>1 DEF Floor
  <2> QED
    <3>1. \A a, b \in Int : b > a => a - 90 \in Int /\ b - 90 \in Int /\ b - 90 >= a - 90
      OBVIOUS
    <3>2. Floor \in Int /\ Floor' \in Int /\ Floor' >= Floor
      BY <2>1, <3>1 DEF FIRST_WINDOW
    <3> QED
      BY <1>1, <3>2, Zenon
<1>2. CASE disk.first # Never
  <2>1. Floor = disk.first - FIRST_WINDOW /\ Floor' = Floor
    BY <1>2 DEF Floor
  <2> QED
    BY <1>2, <2>1 DEF FIRST_WINDOW
<1> QED
  BY <1>1, <1>2

LEMMA TickStep == Inv /\ Tick /\ TypeOK' => StageInv'
<1> SUFFICES ASSUME Inv, Tick, TypeOK' PROVE StageInv'
  OBVIOUS
<1> USE DEF Inv, TypeOK
<1>1. now \in Int /\ now' \in Int /\ now' > now /\ disk' = disk
  BY IngestAssumption DEF Tick
<1>2. disk.first \in Int
  BY NeverIsNoDay DEF Database
<1>3. Floor \in Int /\ Floor' \in Int /\ Floor' >= Floor /\ (disk.first # Never => Floor' = Floor)
  BY <1>1, <1>2, FloorMoves
<1>4. NothingMissed'
  BY <1>1, <1>3 DEF NothingMissed, StageInv, DiskInv
<1>5. ReadUpTo'
  BY <1>1, <1>3, IngestAssumption DEF ReadUpTo, StageInv, DiskInv
<1>6. \A d \in {disk.succeeded, disk.first} \cup {disk.polled[s] : s \in Sources} : d <= now'
  <2>1. ASSUME NEW d \in {disk.succeeded, disk.first} \cup {disk.polled[s] : s \in Sources}
        PROVE  d <= now'
    <3>1. d \in Int
      BY NeverIsNoDay DEF Database
    <3>2. d <= now
      BY DEF StageInv, DiskInv
    <3> HIDE DEF TypeOK
    <3> QED
      BY <1>1, <3>1, <3>2
  <2> QED
    BY <2>1
<1>7. DiskInv'
  BY <1>1, <1>4, <1>5, <1>6 DEF StageInv, DiskInv, WatermarkCovers
<1>8. TxnInv' /\ WindowInv' /\ TodoInv'
  BY DEF Tick, local, StageInv, TxnInv, WindowInv, TodoInv
<1> QED
  BY <1>7, <1>8 DEF StageInv

\* Behind the window of a catch-up everything is known (NothingMissed); a command
\* by hand reads further back than any catch-up has.
LEMMA StartStep ==
  WideCommands /\ Inv /\ (CatchUp \/ \E c \in Commands : RunCommand(c)) => StageInv'
<1> SUFFICES ASSUME WideCommands, Inv, CatchUp \/ \E c \in Commands : RunCommand(c) PROVE StageInv'
  OBVIOUS
<1> USE DEF Inv, TypeOK
<1>1. now \in Nat /\ disk.succeeded \in Int /\ disk.first \in Int
  BY NeverIsNoDay, IngestAssumption DEF Database
<1>2. disk.first = Never \/ disk.first \in Nat
  BY IngestAssumption DEF Database
<1>3. Floor \in Int /\ Floor >= -FIRST_WINDOW
  BY <1>1, <1>2 DEF Floor, FIRST_WINDOW
<1>4. ASSUME NEW s \in Whole \ due_sources(disk)
      PROVE  disk.polled[s] # Never /\ now - disk.polled[s] < PollInterval[s]
  <2>1. s \in Sources /\ disk.polled[s] \in Int /\ PollInterval[s] \in Int
    BY NeverIsNoDay, IngestAssumption DEF Whole, Database
  <2> QED
    BY <1>1, <1>4, <2>1 DEF due_sources
<1>5. CASE CatchUp
  <2>1. Window(disk) # Newest
    BY <1>1, IngestAssumption DEF Window, Newest, FIRST_WINDOW, OVERLAP, Database, Never
  <2>2. ASSUME NEW i \in Items, SourceOf[i] \in Whole, DateOf[i] \in Floor .. Window(disk) - 1
        PROVE  i \in disk.raw
    <3>1. CASE disk.succeeded = Never
      <4>1. Window(disk) = Floor
        BY <3>1 DEF Window, Floor, StageInv, DiskInv
      <4> QED
        BY <1>3, <2>2, <4>1
    <3>2. CASE disk.succeeded # Never
      <4>1. DateOf[i] >= Floor /\ DateOf[i] < disk.succeeded - OVERLAP
        BY <1>1, <1>3, <2>2, <3>2, IngestAssumption DEF Window, OVERLAP
      <4> QED
        BY <2>2, <3>2, <4>1 DEF StageInv, DiskInv, NothingMissed
    <3> QED
      BY <3>1, <3>2
  <2> QED
    BY <1>4, <1>5, <2>1, <2>2, OpenStep DEF CatchUp
<1>6. ASSUME NEW c \in Commands, RunCommand(c) PROVE StageInv'
  <2>1. c.only = Sources /\ c.since # Newest /\ c.since <= -FIRST_WINDOW /\ c.since \in Int
    BY IngestAssumption DEF WideCommands, Command
  <2>2. Floor .. c.since - 1 = {}
    BY <1>3, <2>1 DEF FIRST_WINDOW
  <2>3. CASE Open("ingest", c.only \cap due_sources(disk), c.since, FALSE)
    <3>1. c.only \cap due_sources(disk) = due_sources(disk)
      BY <2>1 DEF due_sources
    <3> QED
      BY <1>4, <1>6, <2>1, <2>2, <2>3, <3>1, OpenStep DEF RunCommand
  <2>4. CASE Open("backfill", c.only \cap archives(disk), c.since, FALSE)
    <3>1. Whole \subseteq c.only \cap archives(disk)
      BY <2>1, IngestAssumption DEF archives, Whole
    <3> QED
      BY <1>6, <2>1, <2>2, <2>4, <3>1, OpenStep DEF RunCommand
  <2> QED
    BY <1>6, <2>3, <2>4 DEF RunCommand
<1> QED
  BY <1>5, <1>6

LEMMA ReadStep == Inv /\ (ReadSource \/ FailRead) => StageInv'
<1> SUFFICES ASSUME Inv, ReadSource \/ FailRead PROVE StageInv'
  OBVIOUS
<1> USE DEF Inv, TypeOK
<1>1. pc = "sources" /\ disk' = disk /\ txn' = txn /\ now' = now /\ since' = since /\ pc' # "idle"
  BY DEF ReadSource, FailRead
<1>2. DiskInv' /\ Floor' = Floor
  BY <1>1, SameDisk DEF StageInv
<1>3. TxnInv' /\ WindowInv'
  BY <1>1, <1>2 DEF StageInv, TxnInv, WindowInv
<1>4. \A s \in Whole \ todo :
        disk.polled[s] # Never /\ now - disk.polled[s] < PollInterval[s]
  BY <1>1 DEF StageInv, TodoInv
<1>5. CASE ReadSource
  <2>1. pc' = "writing" /\ todo' = todo \ {cur'} /\ found' \in Reads(cur')
    BY <1>5 DEF ReadSource
  <2>2. cur' \in Whole => found' = Listed(cur', since)
    BY <1>1, <2>1 DEF Reads, StageInv, WindowInv
  <2>3. cur' \in Whole => Listed(cur, since)' \subseteq found'
    BY <1>1, <2>2 DEF Listed
  <2>4. \A s \in Whole \ todo' : s = cur' \/ s \in Whole \ todo
    BY <2>1
  <2>5. TodoInv'
    BY <1>1, <1>4, <2>1, <2>3, <2>4 DEF TodoInv
  <2> QED
    BY <1>2, <1>3, <2>5 DEF StageInv
<1>6. CASE FailRead
  <2>1. Whole \ todo' = Whole \ todo /\ pc' # "writing"
    BY <1>1, <1>6 DEF FailRead, Whole
  <2> QED
    BY <1>1, <1>2, <1>3, <1>4, <2>1 DEF StageInv, TodoInv
<1> QED
  BY <1>5, <1>6

LEMMA InsertStep == Inv /\ InsertItem => StageInv'
<1> SUFFICES ASSUME Inv, InsertItem PROVE StageInv'
  OBVIOUS
<1>1. /\ pc = "writing" /\ pc' = pc /\ disk' = disk /\ now' = now /\ since' = since
      /\ todo' = todo /\ cur' = cur
  BY DEF InsertItem
<1>2. PICK i \in found : found' = found \ {i} /\ txn' = [txn EXCEPT !.raw = @ \cup {i}]
  BY DEF InsertItem
<1>3. DiskInv' /\ Floor' = Floor
  BY <1>1, SameDisk DEF Inv, StageInv
<1>4. txn'.raw = txn.raw \cup {i}
  BY <1>2 DEF Inv, TypeOK, Database
<1>5. TxnInv'
  BY <1>1, <1>2, <1>4 DEF Inv, StageInv, TxnInv, TypeOK, Database
<1>6. WindowInv'
  BY <1>1, <1>3 DEF Inv, StageInv, WindowInv
<1>7. TodoInv'
  BY <1>1, <1>2, <1>4 DEF Inv, StageInv, TodoInv, Listed
<1> QED
  BY <1>3, <1>5, <1>6, <1>7 DEF StageInv

\* The poll date moves to today: what the archive lists is in, what is older than
\* the window was known.
LEMMA FinishSourceStep == Inv /\ FinishSource /\ TypeOK' => StageInv'
<1> SUFFICES ASSUME Inv, FinishSource, TypeOK' PROVE StageInv'
  OBVIOUS
<1> USE DEF Inv, TypeOK
<1>1. /\ pc = "writing" /\ pc' \in {"sources", "walked"} /\ found = {} /\ now' = now
      /\ since' = since /\ todo' = todo /\ cur \in Sources /\ txn' = disk'
  BY DEF FinishSource, Commit
<1>2. /\ disk'.polled = [disk.polled EXCEPT ![cur] = now] /\ disk'.raw = txn.raw
      /\ disk'.succeeded = disk.succeeded /\ disk'.first = disk.first
  BY DEF FinishSource, Commit, StageInv, TxnInv, Database
<1>3. Floor' = Floor /\ Floor \in Int /\ disk.raw \subseteq disk'.raw
  BY <1>1, <1>2, NeverIsNoDay DEF Floor, FIRST_WINDOW, StageInv, TxnInv, Database
<1>4. disk.polled \in [Sources -> Days \cup {Never}] /\ now \in Days /\ now \in Int /\ now # Never
  BY NeverIsNoDay DEF Database
<1>5. /\ disk'.polled[cur] = now
      /\ \A s \in Sources \ {cur} : disk'.polled[s] = disk.polled[s]
  BY <1>1, <1>2, <1>4
<1>6. NothingMissed'
  BY <1>2, <1>3 DEF NothingMissed, StageInv, DiskInv
<1>7. ASSUME NEW s \in Whole
      PROVE  disk'.succeeded - disk'.polled[s] < PollInterval[s] \/ disk'.succeeded = Never
  <2>1. s \in Sources /\ PollInterval[s] \in Nat \ {0} /\ disk.succeeded \in Int /\ disk.succeeded <= now
    BY IngestAssumption, NeverIsNoDay DEF Whole, Database, StageInv, DiskInv
  <2>2. CASE s = cur
    <3>1. disk.succeeded - now < PollInterval[s]
      BY <1>4, <2>1
    <3> QED
      BY <1>2, <1>5, <2>2, <3>1
  <2>3. CASE s # cur
    BY <1>2, <1>5, <2>1, <2>3 DEF StageInv, DiskInv, WatermarkCovers
  <2> QED
    BY <2>2, <2>3
<1>8. WatermarkCovers'
  BY <1>2, <1>4, <1>5, <1>7, IngestAssumption DEF WatermarkCovers, StageInv, DiskInv, Whole
<1>9. ASSUME NEW i \in Items, SourceOf[i] \in Whole, disk'.polled[SourceOf[i]] # Never,
             AppearsAt[i] <= disk'.polled[SourceOf[i]], DateOf[i] >= Floor
      PROVE  i \in disk'.raw
  <2>1. SourceOf[i] \in Sources /\ DateOf[i] \in Int /\ since \in Int
    BY IngestAssumption
  <2>2. CASE SourceOf[i] = cur /\ DateOf[i] >= since
    <3>1. i \in Listed(cur, since)
      BY <1>5, <1>9, <2>2 DEF Listed
    <3>2. cur \in Whole
      BY <1>9, <2>2
    <3> QED
      BY <1>1, <1>2, <3>1, <3>2 DEF StageInv, TodoInv
  <2>3. CASE SourceOf[i] = cur /\ ~(DateOf[i] >= since)
    <3>1. DateOf[i] \in Floor .. since - 1
      BY <1>3, <1>9, <2>1, <2>3
    <3> QED
      BY <1>1, <1>3, <1>9, <3>1 DEF StageInv, WindowInv
  <2>4. CASE SourceOf[i] # cur
    BY <1>3, <1>5, <1>9, <2>1, <2>4 DEF StageInv, DiskInv, ReadUpTo
  <2> QED
    BY <2>2, <2>3, <2>4
<1>10. ReadUpTo'
  BY <1>3, <1>9 DEF ReadUpTo, Whole
<1>11. \A d \in {disk'.succeeded, disk'.first} \cup {disk'.polled[s] : s \in Sources} : d <= now
  BY <1>2, <1>4, <1>5 DEF StageInv, DiskInv
<1>12. DiskInv'
  BY <1>1, <1>2, <1>6, <1>8, <1>10, <1>11 DEF StageInv, DiskInv
<1>13. TxnInv'
  BY <1>1 DEF TxnInv, Database
<1>14. WindowInv'
  BY <1>1, <1>3 DEF StageInv, WindowInv
<1>15. TodoInv'
  <2>1. ASSUME NEW s \in Whole \ todo
        PROVE  disk'.polled[s] # Never /\ now - disk'.polled[s] < PollInterval[s]
    <3>1. s \in Sources /\ PollInterval[s] \in Nat \ {0}
      BY IngestAssumption DEF Whole
    <3>2. CASE s = cur
      BY <1>4, <1>5, <3>1, <3>2
    <3>3. CASE s # cur
      BY <1>1, <1>5, <3>1, <3>3 DEF StageInv, TodoInv
    <3> QED
      BY <3>2, <3>3
  <2> QED
    BY <1>1, <2>1 DEF TodoInv
<1> QED
  BY <1>12, <1>13, <1>14, <1>15 DEF StageInv

LEMMA MarkStep == Inv /\ MarkWalked => StageInv'
<1> SUFFICES ASSUME Inv, MarkWalked PROVE StageInv'
  OBVIOUS
<1>1. /\ pc = "walked" /\ pc' = "sources" /\ now' = now /\ since' = since /\ todo' = todo
      /\ txn = disk /\ txn' = disk' /\ disk' = [disk EXCEPT !.walked = @ \cup {cur}]
  BY DEF MarkWalked, Commit, Inv, StageInv, TxnInv
<1>2. /\ disk'.raw = disk.raw /\ disk'.polled = disk.polled
      /\ disk'.succeeded = disk.succeeded /\ disk'.first = disk.first
      /\ disk' = [disk' EXCEPT !.raw = disk'.raw]
  BY <1>1 DEF Inv, TypeOK, Database
<1>3. DiskInv' /\ Floor' = Floor
  BY <1>1, <1>2, SameDisk DEF Inv, StageInv
<1>4. TxnInv'
  BY <1>1, <1>2 DEF TxnInv
<1>5. WindowInv'
  BY <1>1, <1>2, <1>3 DEF Inv, StageInv, WindowInv
<1>6. TodoInv'
  BY <1>1, <1>2 DEF Inv, StageInv, TodoInv
<1> QED
  BY <1>3, <1>4, <1>5, <1>6 DEF StageInv

LEMMA FinishStageStep == Inv /\ FinishStage /\ TypeOK' => StageInv'
<1> SUFFICES ASSUME Inv, FinishStage, TypeOK' PROVE StageInv'
  OBVIOUS
<1>1. pc = "sources" /\ todo = {} /\ now' = now
  BY DEF FinishStage
<1>2. CASE EndCommand(txn)
  BY <1>1, <1>2, EndStep
<1>3. CASE disk' = Succeeded(txn) /\ txn' = disk'
  <2>1. DiskInv' /\ disk'.raw = disk.raw /\ Floor' = Floor /\ disk'.polled = disk.polled
    BY <1>1, <1>3, SuccessStep
  <2>2. TxnInv'
    BY <1>3 DEF TxnInv, TypeOK, Database
  <2>3. CASE pc' = "idle"
    BY <2>1, <2>2, <2>3 DEF StageInv, WindowInv, TodoInv
  <2>4. CASE pc' = pc /\ since' = since /\ todo' = Archives
    <3>1. WindowInv'
      BY <1>1, <2>1, <2>4 DEF Inv, StageInv, WindowInv
    <3>2. TodoInv'
      BY <1>1, <2>4 DEF TodoInv, Whole
    <3> QED
      BY <2>1, <2>2, <3>1, <3>2 DEF StageInv
  <2> QED
    BY <1>3, <2>3, <2>4 DEF FinishStage, EndCommand, Commit, archives
<1> QED
  BY <1>2, <1>3 DEF FinishStage, EndCommand, Commit

LEMMA RefuseStep == Inv /\ RefuseItem => StageInv'
  BY EndStep DEF RefuseItem

LEMMA FaultStep == Inv /\ (Kill \/ Interrupt \/ Drop) => StageInv'
<1> SUFFICES ASSUME Inv, Kill \/ Interrupt \/ Drop PROVE StageInv'
  OBVIOUS
<1>1. now' = now
  BY DEF Kill, Interrupt, Drop, Fault
<1>2. CASE Kill
  BY <1>1, <1>2, EndStep DEF Kill
<1>3. CASE Interrupt
  BY <1>1, <1>3, EndStep DEF Interrupt, Unwind
<1>4. CASE Drop
  <2>1. /\ disk' = disk /\ txn' = disk /\ txn = disk /\ pc = "sources" /\ pc' = pc
        /\ since' = since /\ todo' = todo /\ cur' = cur
    BY <1>4 DEF Drop, Inv, StageInv, TxnInv
  <2>2. DiskInv' /\ Floor' = Floor
    BY <1>1, <2>1, SameDisk DEF Inv, StageInv
  <2> QED
    BY <1>1, <2>1, <2>2 DEF Inv, StageInv, TxnInv, WindowInv, TodoInv
<1> QED
  BY <1>2, <1>3, <1>4

LEMMA StutterStep == Inv /\ UNCHANGED vars => StageInv'
<1> SUFFICES ASSUME Inv, UNCHANGED vars PROVE StageInv'
  OBVIOUS
<1>1. DiskInv' /\ Floor' = Floor
  BY SameDisk DEF vars, Inv, StageInv
<1> QED
  BY <1>1 DEF vars, local, Inv, StageInv, TxnInv, WindowInv, TodoInv, Listed

LEMMA InvStep == WideCommands /\ Inv /\ [Next]_vars => Inv'
<1> SUFFICES ASSUME WideCommands, Inv, [Next]_vars PROVE Inv'
  OBVIOUS
<1>1. TypeOK'
  BY TypeStep DEF Inv
<1>2. CASE Step
  BY <1>1, <1>2, ReadStep, InsertStep, RefuseStep, FinishSourceStep, MarkStep, FinishStageStep
     DEF Step, Inv
<1>3. CASE ~Step
  BY <1>1, <1>3, TickStep, StartStep, FaultStep, StutterStep DEF Next, Inv
<1> QED
  BY <1>2, <1>3

-----------------------------------------------------------------------------

\* Every reachable state is well typed.
THEOREM TypeCorrect == Spec => []TypeOK
<1>1. Init => TypeOK
  BY InitInv DEF Inv
<1> QED
  BY <1>1, TypeStep, PTL DEF Spec

\* No item of a readable archive is left behind a window: none that is published
\* late by less than the overlap leaves, whatever was cut off or not yet due.
THEOREM NothingFallsBetween ==
  ASSUME WideCommands
  PROVE  Spec => []NothingMissed
<1>1. Inv => NothingMissed
  BY DEF Inv, StageInv, DiskInv
<1> QED
  BY <1>1, InitInv, InvStep, PTL DEF Spec

\* The shared watermark is never a poll interval ahead of a readable archive.
THEOREM WatermarkIsCovered ==
  ASSUME WideCommands
  PROVE  Spec => []WatermarkCovers
<1>1. Inv => WatermarkCovers
  BY DEF Inv, StageInv, DiskInv
<1> QED
  BY <1>1, InitInv, InvStep, PTL DEF Spec

-----------------------------------------------------------------------------
(* One source per commit.                                                   *)

LEMMA HandStep == Inv /\ HandInv /\ [Next]_vars => HandInv'
<1> SUFFICES ASSUME Inv, HandInv, [Next]_vars PROVE HandInv'
  OBVIOUS
<1> USE DEF HandInv, Inv, TypeOK
<1>1. ASSUME NEW db, EndCommand(db) PROVE HandInv'
  BY <1>1 DEF EndCommand
<1>2. CASE Tick \/ CatchUp \/ FailRead \/ UNCHANGED vars
  BY <1>2 DEF Tick, CatchUp, Open, FailRead, vars, local
<1>3. ASSUME NEW c \in Commands, RunCommand(c) PROVE HandInv'
  BY <1>3 DEF RunCommand, Open
<1>4. CASE ReadSource
  <2>1. found' \subseteq {i \in Items : SourceOf[i] = cur'}
    BY <1>4 DEF ReadSource, Reads, Listed
  <2> QED
    BY <1>4, <2>1 DEF ReadSource
<1>5. CASE InsertItem
  <2>1. PICK i \in found : found' = found \ {i} /\ txn' = [txn EXCEPT !.raw = @ \cup {i}]
    BY <1>5 DEF InsertItem
  <2>2. txn'.raw = txn.raw \cup {i}
    BY <2>1 DEF Database
  <2> QED
    BY <1>5, <2>1, <2>2 DEF InsertItem
<1>6. CASE FinishSource \/ MarkWalked
  BY <1>6 DEF FinishSource, MarkWalked, Commit
<1>7. CASE FinishStage
  BY <1>1, <1>7 DEF FinishStage, Commit
<1>8. CASE Kill \/ Interrupt \/ RefuseItem
  BY <1>1, <1>8 DEF Kill, Interrupt, Unwind, RefuseItem
<1>9. CASE Drop
  BY <1>9 DEF Drop
<1> QED
  BY <1>2, <1>3, <1>4, <1>5, <1>6, <1>7, <1>8, <1>9 DEF Next, Step

\* What a step may do to the committed database.
LEMMA CommitStep ==
  ASSUME Inv, HandInv, [Next]_vars
  PROVE  /\ \A i, j \in disk'.raw \ disk.raw : SourceOf[i] = SourceOf[j]
         /\ \A s \in Whole :
              disk'.polled[s] # disk.polled[s] /\ since # Newest =>
                Listed(s, since) \subseteq disk'.raw
<1> USE DEF Inv, TypeOK
<1> DEFINE Kept(db) == db.raw \subseteq txn.raw \cup disk.raw /\ db.polled = disk.polled
<1>1. Kept(disk) /\ Kept(txn) /\ Kept(Succeeded(txn))
  BY DEF StageInv, TxnInv, Succeeded, Database
<1>2. ASSUME Kept(disk')
      PROVE  /\ \A i, j \in disk'.raw \ disk.raw : SourceOf[i] = SourceOf[j]
             /\ \A s \in Whole : disk'.polled[s] = disk.polled[s]
  BY <1>2 DEF HandInv
<1>3. CASE FinishSource
  <2>1. /\ pc = "writing" /\ found = {} /\ cur \in Sources
        /\ disk'.raw = txn.raw /\ disk'.polled = [disk.polled EXCEPT ![cur] = now]
    BY <1>3 DEF FinishSource, Commit, StageInv, TxnInv, Database
  <2>2. \A i, j \in disk'.raw \ disk.raw : SourceOf[i] = SourceOf[j]
    BY <2>1 DEF HandInv
  <2>3. ASSUME NEW s \in Whole, disk'.polled[s] # disk.polled[s]
        PROVE  Listed(s, since) \subseteq disk'.raw
    <3>1. s \in Sources /\ disk.polled \in [Sources -> Days \cup {Never}]
      BY IngestAssumption DEF Whole, Database
    <3>2. s = cur
      BY <2>1, <2>3, <3>1
    <3> QED
      BY <2>1, <3>2 DEF StageInv, TodoInv
  <2> QED
    BY <2>2, <2>3
<1>4. CASE MarkWalked
  <2>1. Kept(disk')
    BY <1>1, <1>4 DEF MarkWalked, Commit, Database
  <2> QED
    BY <1>2, <2>1
<1>5. CASE FinishStage \/ RefuseItem \/ Kill \/ Interrupt
  <2>1. disk' \in {disk, txn, Succeeded(txn)}
    BY <1>5 DEF FinishStage, RefuseItem, EndCommand, Commit, Kill, Interrupt, Unwind
  <2> QED
    BY <1>1, <1>2, <2>1
<1>6. CASE disk' = disk
  BY <1>1, <1>2, <1>6
<1>7. Tick \/ CatchUp \/ ReadSource \/ FailRead \/ InsertItem \/ Drop => disk' = disk
  BY DEF Tick, CatchUp, Open, ReadSource, FailRead, InsertItem, Drop
<1>8. (\E c \in Commands : RunCommand(c)) \/ UNCHANGED vars => disk' = disk
  BY DEF RunCommand, Open, vars
<1> QED
  BY <1>3, <1>4, <1>5, <1>6, <1>7, <1>8 DEF Next, Step

\* The poll date of an archive moves only when all it lists in the window is in,
\* and no commit brings items of two sources (_ingest_one, 311-331).
THEOREM CommitsAreWhole ==
  ASSUME WideCommands
  PROVE  Spec => CommitPerSource
<1>1. Init => HandInv
  BY DEF Init, HandInv, EmptyDatabase
<1>2. Inv /\ HandInv /\ [Next]_vars =>
        [/\ \A i, j \in disk'.raw \ disk.raw : SourceOf[i] = SourceOf[j]
         /\ \A s \in Whole :
              disk'.polled[s] # disk.polled[s] /\ since # Newest =>
                Listed(s, since) \subseteq disk'.raw]_vars
  BY CommitStep
<1> QED
  BY <1>1, <1>2, InitInv, InvStep, HandStep, PTL DEF Spec, CommitPerSource
=============================================================================
