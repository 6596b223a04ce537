--------------------------- MODULE MigrationRunner ---------------------------
(***************************************************************************)
(* tracker/migrate.py under `tracker db migrate`: several runners (the     *)
(* catch-up job, a deploy, a laptop), each with a checkout of its own, on  *)
(* one database.  Migration files are numbered without a gap from 1        *)
(* (tests/test_migrations.py), so a checkout is the sequence of their      *)
(* texts.  Each file runs in its own transaction with the row that records *)
(* it.  db_migrate asks for the status before upgrade asks again: the      *)
(* first answer only decides whether anything is printed.                  *)
(***************************************************************************)
EXTENDS Integers, Sequences, FiniteSets

CONSTANTS
  Runners,
  Last,       \* bound on the number of migration files
  Texts,      \* what a file may say
  Targets,    \* what --target may be; no --target is Last
  MaxEdits,   \* bound on edits to files of main
  MaxFaults   \* bound on runs cut short: SQL errors, kills, lost connections

ASSUME MigrationAssumption ==
  /\ Last \in Nat \ {0} /\ MaxEdits \in Nat /\ MaxFaults \in Nat
  /\ Targets \subseteq 1 .. Last

Versions == 1 .. Last
Absent == "absent"

ASSUME AbsentAssumption == Absent \notin Texts

VARIABLES
  main,      \* the files of the main branch
  checkout,  \* [Runners -> files]
  table,     \* schema_migrations: [Versions -> checksum]
  schema,    \* <<version, text>> of the SQL that is in the database, oldest first
  pc,        \* where each runner is
  read,      \* the files it discovered
  target,    \* its --target
  todo,      \* versions it has yet to apply
  edits, faults

run == <<pc, read, target, todo>>
vars == <<main, checkout, table, schema, run, edits, faults>>

Files == {f \in Seq(Texts) : Len(f) <= Last}

Busy == {"apply", "record", "commit"}

-----------------------------------------------------------------------------

\* _verify_unchanged: what is applied and on disk is the same text.
Unchanged(files) ==
  \A v \in DOMAIN files : table[v] # Absent => table[v] = files[v]

\* Mutant: the version named by --target is left out.
PendingBefore(files, upto) == {v \in DOMAIN files : table[v] = Absent /\ v < upto}

Pending(files, upto) == {v \in DOMAIN files : table[v] = Absent /\ v <= upto}

\* Mutant: the files come in the order of the directory.
LastOf(r) == CHOOSE v \in todo[r] : \A w \in todo[r] : w <= v

\* "applied in filename order".
Current(r) == CHOOSE v \in todo[r] : \A w \in todo[r] : v <= w

-----------------------------------------------------------------------------

\* The exception ends the command; its transaction is rolled back, SQL included.
Fail(r) ==
  /\ pc' = [pc EXCEPT ![r] = "failed"]
  /\ read' = [read EXCEPT ![r] = <<>>]
  /\ target' = [target EXCEPT ![r] = Last]
  /\ todo' = [todo EXCEPT ![r] = {}]
  /\ UNCHANGED <<main, checkout, table, schema, edits>>

Init ==
  /\ main = <<>>
  /\ checkout = [r \in Runners |-> <<>>]
  /\ table = [v \in Versions |-> Absent]
  /\ schema = <<>>
  /\ pc = [r \in Runners |-> "idle"]
  /\ read = [r \in Runners |-> <<>>]
  /\ target = [r \in Runners |-> Last]
  /\ todo = [r \in Runners |-> {}]
  /\ edits = 0 /\ faults = 0

AddFile(text) ==
  /\ Len(main) < Last
  /\ main' = Append(main, text)
  /\ UNCHANGED <<checkout, table, schema, run, edits, faults>>

EditFile(v, text) ==
  /\ edits < MaxEdits
  /\ main[v] # text
  /\ main' = [main EXCEPT ![v] = text]
  /\ edits' = edits + 1
  /\ UNCHANGED <<checkout, table, schema, run, faults>>

Pull(r) ==
  /\ pc[r] \notin Busy
  /\ checkout[r] # main
  /\ checkout' = [checkout EXCEPT ![r] = main]
  /\ UNCHANGED <<main, table, schema, run, edits, faults>>

Status(r, upto) ==
  /\ pc[r] \notin Busy
  /\ Unchanged(checkout[r])
  /\ pc' = [pc EXCEPT ![r] = "apply"]
  /\ read' = [read EXCEPT ![r] = checkout[r]]
  /\ target' = [target EXCEPT ![r] = upto]
  /\ todo' = [todo EXCEPT ![r] = Pending(checkout[r], upto)]
  /\ UNCHANGED <<main, checkout, table, schema, edits, faults>>

\* MigrationError: a file has changed since it was applied.
Refuse(r) ==
  /\ pc[r] \notin Busy
  /\ ~Unchanged(checkout[r])
  /\ Fail(r)
  /\ UNCHANGED faults

\* Mutant: the SQL is committed by itself, before the row that records it.
ExecuteAlone(r) ==
  /\ pc[r] = "apply"
  /\ todo[r] # {}
  /\ pc' = [pc EXCEPT ![r] = "record"]
  /\ schema' = Append(schema, <<Current(r), read[r][Current(r)]>>)
  /\ UNCHANGED <<main, checkout, table, read, target, todo, edits, faults>>

\* cur.execute(m.sql), seen by this transaction alone.
Execute(r) ==
  /\ pc[r] = "apply"
  /\ todo[r] # {}
  /\ pc' = [pc EXCEPT ![r] = "record"]
  /\ UNCHANGED <<main, checkout, table, schema, read, target, todo, edits, faults>>

\* The INSERT waits for another transaction that has inserted the same key.
Record(r) ==
  /\ pc[r] = "record"
  /\ table[Current(r)] = Absent
  /\ \A q \in Runners : pc[q] = "commit" => Current(q) # Current(r)
  /\ pc' = [pc EXCEPT ![r] = "commit"]
  /\ UNCHANGED <<main, checkout, table, schema, read, target, todo, edits, faults>>

\* Mutant: ON CONFLICT DO NOTHING.
Skip(r) ==
  /\ pc[r] = "record"
  /\ table[Current(r)] # Absent
  /\ pc' = [pc EXCEPT ![r] = "apply"]
  /\ todo' = [todo EXCEPT ![r] = @ \ {Current(r)}]
  /\ UNCHANGED <<main, checkout, table, schema, read, target, edits, faults>>

\* The primary key refuses the row.
Collide(r) ==
  /\ pc[r] = "record"
  /\ table[Current(r)] # Absent
  /\ Fail(r)
  /\ UNCHANGED faults

Commit(r) ==
  /\ pc[r] = "commit"
  /\ table' = [table EXCEPT ![Current(r)] = read[r][Current(r)]]
  /\ schema' = Append(schema, <<Current(r), read[r][Current(r)]>>)
  /\ todo' = [todo EXCEPT ![r] = @ \ {Current(r)}]
  /\ pc' = [pc EXCEPT ![r] = "apply"]
  /\ UNCHANGED <<main, checkout, read, target, edits, faults>>

Finish(r) ==
  /\ pc[r] = "apply"
  /\ todo[r] = {}
  /\ pc' = [pc EXCEPT ![r] = "done"]
  /\ UNCHANGED <<main, checkout, table, schema, read, target, todo, edits, faults>>

\* An SQL error, a kill or a lost connection.
Break(r) ==
  /\ pc[r] \in Busy
  /\ faults < MaxFaults
  /\ Fail(r)
  /\ faults' = faults + 1

Step(r) == Execute(r) \/ Record(r) \/ Collide(r) \/ Commit(r) \/ Finish(r)

Next ==
  \/ \E text \in Texts : AddFile(text)
  \/ \E v \in DOMAIN main, text \in Texts : EditFile(v, text)
  \/ \E r \in Runners :
       \/ Pull(r)
       \/ \E upto \in Targets \cup {Last} : Status(r, upto)
       \/ Refuse(r)
       \/ Step(r)
       \/ Break(r)

Spec == Init /\ [][Next]_vars

\* A run that has begun goes on; the catch-up job checks main out and migrates
\* without --target every time it is dispatched.
FairSpec ==
  /\ Spec
  /\ \A r \in Runners : WF_vars(Step(r)) /\ SF_vars(Pull(r)) /\ SF_vars(Status(r, Last))

-----------------------------------------------------------------------------

TypeOK ==
  /\ main \in Files
  /\ checkout \in [Runners -> Files]
  /\ table \in [Versions -> Texts \cup {Absent}]
  /\ schema \in Seq(Versions \X Texts)
  /\ pc \in [Runners -> Busy \cup {"idle", "failed", "done"}]
  /\ read \in [Runners -> Files]
  /\ target \in [Runners -> Versions]
  /\ todo \in [Runners -> SUBSET Versions]
  /\ edits \in 0 .. MaxEdits /\ faults \in 0 .. MaxFaults

\* A runner that reports success leaves a database in which every file it was
\* asked for is applied with the text it has on disk, whatever other runners,
\* with other checkouts, did meanwhile (migrate.py 7-10).
DoneMeansAgreed ==
  \A r \in Runners : pc[r] = "done" =>
    \A v \in DOMAIN read[r] : v <= target[r] => table[v] = read[r][v]

\* schema_migrations tells, version by version, what SQL is in the schema.
TableTellsSchema ==
  /\ \A i \in DOMAIN schema : schema[i] = <<i, table[i]>>
  /\ \A v \in Versions : table[v] # Absent => v \in DOMAIN schema

\* The strengthening: a runner has behind it only files that are applied as it
\* read them, and what it is about to commit nobody else has committed.
Behind(r) ==
  \A v \in DOMAIN read[r] :
    v <= target[r] /\ v \notin todo[r] => table[v] = read[r][v]

RunInv ==
  \A r \in Runners :
    /\ pc[r] \in Busy \cup {"done"} => Behind(r)
    /\ pc[r] = "done" => todo[r] = {}
    /\ pc[r] \in {"record", "commit"} => todo[r] # {}
    /\ pc[r] \in Busy => \A v \in todo[r] : v \in DOMAIN read[r] /\ v <= target[r]
    /\ pc[r] = "commit" =>
         /\ table[Current(r)] = Absent
         /\ \A q \in Runners : pc[q] = "commit" /\ Current(q) = Current(r) => q = r

IInv == TypeOK /\ TableTellsSchema /\ RunInv

\* The database's schema is the history of versions 1, 2, 3, ..., each executed
\* once and whole, under any interleaving of runners and any run cut short.
History == INSTANCE AppliedHistory WITH history <- schema
HistorySpec == History!Spec

\* Every migration that reaches main is applied in the end, unless a file that
\* was already applied says something else there.
Diverged == \E v \in DOMAIN main : table[v] # Absent /\ table[v] # main[v]

EveryFileApplied ==
  \A v \in Versions : (v <= Len(main)) ~> (table[v] # Absent \/ Diverged)
=============================================================================
