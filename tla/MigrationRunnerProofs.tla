----------------------- MODULE MigrationRunnerProofs -----------------------
(***************************************************************************)
(* A runner that reports success agrees with its database, and the schema  *)
(* is versions 1, 2, 3, ..., each executed once, for any number of runners *)
(* and of files, any edits, targets and runs cut short.                    *)
(***************************************************************************)
EXTENDS MigrationRunner, WellFoundedInduction, TLAPS

LEMMA InitInv == Init => IInv
<1> SUFFICES ASSUME Init PROVE IInv
  OBVIOUS
<1> USE MigrationAssumption DEF Init
<1>1. TypeOK
  BY DEF TypeOK, Files, Versions, Busy
<1>2. TableTellsSchema /\ RunInv
  BY DEF TableTellsSchema, RunInv, Busy
<1> QED
  BY <1>1, <1>2 DEF IInv

\* A runner with files to apply has a first one.
LEMMA FirstOfTodo ==
  ASSUME NEW r \in Runners, TypeOK, todo[r] # {}
  PROVE  Current(r) \in todo[r] /\ \A w \in todo[r] : Current(r) <= w
<1>1. todo[r] \subseteq Nat
  BY MigrationAssumption DEF TypeOK, Versions
<1>2. PICK v \in todo[r] : \A w \in todo[r] : ~ (<<w, v>> \in OpToRel(<, Nat))
  BY <1>1, WFMin, NatLessThanWellFounded, Zenon
<1>3. \A w \in todo[r] : v <= w
  <2> TAKE w \in todo[r]
  <2>1. v \in Nat /\ w \in Nat /\ <<w, v>> \in Nat \X Nat
    BY <1>1
  <2>2. ~(w < v)
    BY <1>2, <2>1 DEF OpToRel
  <2> QED
    BY <2>1, <2>2
<1> QED
  BY <1>3 DEF Current

-----------------------------------------------------------------------------
(* Types.                                                                   *)

LEMMA FailTyped ==
  ASSUME TypeOK, NEW r \in Runners, Fail(r), faults' \in 0 .. MaxFaults
  PROVE  TypeOK'
<1>1. <<>> \in Files /\ Last \in Versions
  BY MigrationAssumption DEF Files, Versions
<1> QED
  BY <1>1 DEF Fail, TypeOK

LEMMA CommitTyped ==
  ASSUME TypeOK, RunInv, NEW r \in Runners, Commit(r)
  PROVE  /\ TypeOK'
         /\ Current(r) \in Versions /\ Current(r) \in DOMAIN read[r]
         /\ read[r][Current(r)] \in Texts
<1>1. todo[r] # {}
  BY DEF Commit, RunInv
<1>2. Current(r) \in todo[r]
  BY <1>1, FirstOfTodo
<1>3. Current(r) \in Versions /\ Current(r) \in DOMAIN read[r]
  BY <1>2 DEF Commit, RunInv, TypeOK, Busy
<1>4. read[r] \in Seq(Texts)
  BY DEF TypeOK, Files
<1>5. read[r][Current(r)] \in Texts
  BY <1>3, <1>4
<1>6. schema' \in Seq(Versions \X Texts)
  BY <1>3, <1>5 DEF Commit, TypeOK
<1>7. /\ table' \in [Versions -> Texts \cup {Absent}]
      /\ todo' \in [Runners -> SUBSET Versions]
      /\ pc' \in [Runners -> Busy \cup {"idle", "failed", "done"}]
  BY <1>3, <1>5 DEF Commit, TypeOK, Busy
<1> QED
  BY <1>3, <1>5, <1>6, <1>7 DEF Commit, TypeOK

LEMMA TypeStep == TypeOK /\ RunInv /\ [Next]_vars => TypeOK'
<1> SUFFICES ASSUME TypeOK, RunInv, [Next]_vars PROVE TypeOK'
  OBVIOUS
<1> USE MigrationAssumption
<1>1. ASSUME NEW text \in Texts, AddFile(text) PROVE TypeOK'
  <2>1. Append(main, text) \in Files
    BY <1>1 DEF AddFile, TypeOK, Files
  <2> QED
    BY <1>1, <2>1 DEF AddFile, TypeOK, run
<1>2. ASSUME NEW v \in DOMAIN main, NEW text \in Texts, EditFile(v, text) PROVE TypeOK'
  <2>1. main' \in Files
    BY <1>2 DEF EditFile, TypeOK, Files
  <2> QED
    BY <1>2, <2>1 DEF EditFile, TypeOK, run
<1>3. ASSUME NEW r \in Runners, Pull(r) PROVE TypeOK'
  BY <1>3 DEF Pull, TypeOK, run
<1>4. ASSUME NEW r \in Runners, NEW upto \in Targets \cup {Last}, Status(r, upto) PROVE TypeOK'
  <2>1. upto \in Versions
    BY DEF Versions
  <2>2. Pending(checkout[r], upto) \subseteq Versions
    BY DEF Pending, TypeOK, Files, Versions
  <2> QED
    BY <1>4, <2>1, <2>2 DEF Status, TypeOK, Busy
<1>5. ASSUME NEW r \in Runners, Refuse(r) \/ Collide(r) \/ Break(r) PROVE TypeOK'
  <2>1. Fail(r) /\ faults' \in 0 .. MaxFaults
    BY <1>5 DEF Refuse, Collide, Break, TypeOK
  <2> QED
    BY <2>1, FailTyped
<1>6. ASSUME NEW r \in Runners, Execute(r) \/ Record(r) \/ Finish(r) PROVE TypeOK'
  BY <1>6 DEF Execute, Record, Finish, TypeOK, Busy
<1>7. ASSUME NEW r \in Runners, Commit(r) PROVE TypeOK'
  BY <1>7, CommitTyped
<1>8. CASE UNCHANGED vars
  BY <1>8 DEF vars, run, TypeOK
<1> QED
  BY <1>1, <1>2, <1>3, <1>4, <1>5, <1>6, <1>7, <1>8 DEF Next, Step

-----------------------------------------------------------------------------
(* The schema.                                                              *)

\* The file to be committed is the first that is not in the schema.
LEMMA CurrentIsNext ==
  ASSUME IInv, NEW r \in Runners, Commit(r)
  PROVE  Current(r) = Len(schema) + 1
<1> DEFINE c == Current(r)
<1>1. c \in Versions /\ c \in DOMAIN read[r]
  BY CommitTyped DEF IInv
<1>2. todo[r] # {} /\ table[c] = Absent
  BY DEF Commit, IInv, RunInv
<1>3. c \in todo[r] /\ \A w \in todo[r] : c <= w
  BY <1>2, FirstOfTodo DEF IInv
<1>4. c <= target[r] /\ target[r] \in Nat /\ c \in Nat \ {0}
  BY <1>1, <1>3, MigrationAssumption DEF Commit, IInv, RunInv, TypeOK, Busy, Versions
<1>5. read[r] \in Seq(Texts) /\ schema \in Seq(Versions \X Texts)
  BY DEF IInv, TypeOK, Files
<1>6. c \notin DOMAIN schema
  <2> SUFFICES ASSUME c \in DOMAIN schema PROVE FALSE
    OBVIOUS
  <2>1. schema[c] = <<c, table[c]>> /\ schema[c] \in Versions \X Texts
    BY <1>5 DEF IInv, TableTellsSchema
  <2>2. table[c] \in Texts
    BY <2>1
  <2> QED
    BY <1>2, <2>2, AbsentAssumption
<1>7. \A v \in 1 .. c - 1 : v \in DOMAIN schema
  <2> SUFFICES ASSUME NEW v \in 1 .. c - 1 PROVE v \in DOMAIN schema
    OBVIOUS
  <2>1. v \in DOMAIN read[r] /\ v <= target[r] /\ v \notin todo[r]
    BY <1>1, <1>3, <1>4, <1>5
  <2>2. table[v] = read[r][v] /\ read[r][v] \in Texts
    BY <1>5, <2>1 DEF Commit, IInv, RunInv, Behind, Busy
  <2>3. v \in Versions
    BY <1>1, <1>4, MigrationAssumption DEF Versions
  <2> QED
    BY <2>2, <2>3, AbsentAssumption DEF IInv, TableTellsSchema
<1>8. DOMAIN schema = 1 .. Len(schema) /\ Len(schema) \in Nat
  BY <1>5
<1>9. c > Len(schema)
  BY <1>4, <1>6, <1>8
<1>10. c = 1 \/ c - 1 \in 1 .. Len(schema)
  BY <1>4, <1>7, <1>8
<1> QED
  BY <1>4, <1>8, <1>9, <1>10

LEMMA SchemaStep == IInv /\ [Next]_vars => TableTellsSchema'
<1> SUFFICES ASSUME IInv, [Next]_vars PROVE TableTellsSchema'
  OBVIOUS
<1>1. ASSUME NEW r \in Runners, Commit(r) PROVE TableTellsSchema'
  <2> DEFINE c == Current(r)
  <2>1. c = Len(schema) + 1 /\ c \in Versions
    BY <1>1, CurrentIsNext, CommitTyped DEF IInv
  <2>2. /\ schema \in Seq(Versions \X Texts)
        /\ table \in [Versions -> Texts \cup {Absent}]
    BY DEF IInv, TypeOK
  <2>3. /\ table' = [table EXCEPT ![c] = read[r][c]]
        /\ schema' = Append(schema, <<c, read[r][c]>>)
    BY <1>1 DEF Commit
  <2>4. /\ DOMAIN schema' = DOMAIN schema \cup {c}
        /\ schema'[c] = <<c, table'[c]>>
    BY <2>1, <2>2, <2>3
  <2>5. \A i \in DOMAIN schema : schema'[i] = <<i, table'[i]>>
    BY <2>1, <2>2, <2>3 DEF IInv, TableTellsSchema
  <2>6. \A v \in Versions : table'[v] # Absent => v \in DOMAIN schema'
    BY <2>2, <2>3, <2>4 DEF IInv, TableTellsSchema
  <2> QED
    BY <2>4, <2>5, <2>6 DEF TableTellsSchema
<1>2. CASE UNCHANGED <<table, schema>>
  BY <1>2 DEF IInv, TableTellsSchema
<1>3. Next => (\E r \in Runners : Commit(r)) \/ UNCHANGED <<table, schema>>
  BY DEF Next, AddFile, EditFile, Pull, Status, Refuse, Step, Execute, Record, Collide, Finish, Break, Fail
<1> QED
  BY <1>1, <1>2, <1>3 DEF vars

-----------------------------------------------------------------------------
(* The runners.                                                             *)

\* What RunInv says of one runner, and of the one that commits.
Own(r) ==
  /\ pc[r] \in Busy \cup {"done"} => Behind(r)
  /\ pc[r] = "done" => todo[r] = {}
  /\ pc[r] \in {"record", "commit"} => todo[r] # {}
  /\ pc[r] \in Busy => \A v \in todo[r] : v \in DOMAIN read[r] /\ v <= target[r]

Alone(r) ==
  pc[r] = "commit" =>
    /\ table[Current(r)] = Absent
    /\ \A q \in Runners : pc[q] = "commit" /\ Current(q) = Current(r) => q = r

LEMMA RunInvParts == RunInv <=> \A r \in Runners : Own(r) /\ Alone(r)
BY DEF RunInv, Own, Alone

\* The state of runner q, and what it is about to do.
Same(q) == pc'[q] = pc[q] /\ read'[q] = read[q] /\ target'[q] = target[q] /\ todo'[q] = todo[q]

Kept == \A v \in Versions : table[v] # Absent => table'[v] = table[v]

LEMMA ReadTyped ==
  ASSUME TypeOK, NEW r \in Runners, NEW v \in DOMAIN read[r]
  PROVE  v \in Versions /\ read[r][v] \in Texts /\ read[r][v] # Absent
<1>1. read[r] \in Seq(Texts) /\ Len(read[r]) <= Last
  BY DEF TypeOK, Files
<1> QED
  BY <1>1, MigrationAssumption, AbsentAssumption DEF Versions

\* Another runner's commit adds to the table and takes nothing away.
LEMMA OwnKept ==
  ASSUME IInv, NEW q \in Runners, Same(q), Kept
  PROVE  Own(q)'
<1>1. Own(q)
  BY RunInvParts DEF IInv
<1>2. ASSUME pc[q] \in Busy \cup {"done"} PROVE Behind(q)'
  <2> SUFFICES ASSUME NEW v \in DOMAIN read[q], v <= target[q], v \notin todo[q]
               PROVE  table'[v] = read[q][v]
    BY DEF Behind, Same
  <2>1. table[v] = read[q][v] /\ v \in Versions /\ read[q][v] # Absent
    BY <1>1, <1>2, ReadTyped DEF Own, Behind, IInv
  <2> QED
    BY <2>1 DEF Kept
<1> QED
  BY <1>1, <1>2 DEF Own, Same

LEMMA AloneKept ==
  ASSUME IInv, table' = table, NEW r \in Runners, pc'[r] # "commit",
         \A q \in Runners \ {r} : Same(q), NEW q \in Runners
  PROVE  Alone(q)'
<1>1. CASE q = r
  BY <1>1 DEF Alone
<1>2. CASE q # r
  <2>1. Alone(q)
    BY RunInvParts DEF IInv
  <2>2. \A p \in Runners : pc'[p] = "commit" => p # r /\ pc[p] = "commit" /\ Current(p)' = Current(p)
    BY DEF Same, Current
  <2>3. pc'[q] = pc[q] /\ Current(q)' = Current(q)
    BY <1>2 DEF Same, Current
  <2> QED
    BY <2>1, <2>2, <2>3 DEF Alone
<1> QED
  BY <1>1, <1>2

\* A step of runner r that does not touch the table or end in a commit.
LEMMA PrivateStep ==
  ASSUME IInv, table' = table, NEW r \in Runners, pc'[r] # "commit", Own(r)',
         \A q \in Runners \ {r} : Same(q)
  PROVE  RunInv'
<1>1. Kept
  BY DEF Kept
<1>2. \A q \in Runners : Own(q)'
  BY <1>1, OwnKept
<1>3. \A q \in Runners : Alone(q)'
  BY AloneKept
<1> QED
  BY <1>2, <1>3 DEF RunInv, Own, Alone

\* What Status leaves out of its list is applied as it is on disk.
LEMMA StatusOwn ==
  ASSUME IInv, NEW r \in Runners, NEW upto \in Targets \cup {Last}, Status(r, upto)
  PROVE  Own(r)'
<1>1. /\ pc'[r] = "apply" /\ read'[r] = checkout[r] /\ target'[r] = upto
      /\ todo'[r] = Pending(checkout[r], upto) /\ table' = table
  BY DEF Status, IInv, TypeOK
<1>2. Behind(r)'
  BY <1>1 DEF Behind, Pending, Status, Unchanged
<1> QED
  BY <1>1, <1>2 DEF Own, Pending, Busy

LEMMA FailOwn ==
  ASSUME IInv, NEW r \in Runners, Fail(r)
  PROVE  RunInv'
<1>1. pc'[r] = "failed" /\ table' = table /\ \A q \in Runners \ {r} : Same(q)
  BY DEF Fail, IInv, TypeOK, Same
<1>2. Own(r)'
  BY <1>1 DEF Own, Busy
<1> QED
  BY <1>1, <1>2, PrivateStep

\* The row waits while another transaction holds the same key.
LEMMA RecordStep ==
  ASSUME IInv, NEW r \in Runners, Record(r)
  PROVE  RunInv'
<1>1. /\ table' = table /\ todo' = todo /\ read' = read /\ target' = target
      /\ pc'[r] = "commit" /\ \A q \in Runners \ {r} : pc'[q] = pc[q]
  BY DEF Record, IInv, TypeOK
<1>2. \A q \in Runners : Current(q)' = Current(q)
  BY <1>1 DEF Current
<1>3. \A q \in Runners : Own(q) /\ Alone(q)
  BY RunInvParts DEF IInv
<1>4. \A q \in Runners : Behind(q)' <=> Behind(q)
  BY <1>1 DEF Behind
<1>5. \A q \in Runners : Own(q)'
  BY <1>1, <1>3, <1>4 DEF Own, Record, Busy
<1>6. \A q \in Runners : Alone(q)'
  BY <1>1, <1>2, <1>3 DEF Alone, Record
<1> QED
  BY <1>5, <1>6 DEF RunInv, Own, Alone

LEMMA CommitStep ==
  ASSUME IInv, NEW r \in Runners, Commit(r)
  PROVE  RunInv'
<1> DEFINE c == Current(r)
<1>1. c \in Versions /\ c \in DOMAIN read[r] /\ read[r][c] \in Texts
  BY CommitTyped DEF IInv
<1>2. \A q \in Runners : Own(q) /\ Alone(q)
  BY RunInvParts DEF IInv
<1>3. /\ pc'[r] = "apply" /\ read' = read /\ target' = target
      /\ todo'[r] = todo[r] \ {c} /\ table' = [table EXCEPT ![c] = read[r][c]]
      /\ \A q \in Runners \ {r} : Same(q)
  BY DEF Commit, IInv, TypeOK, Same
<1>4. table[c] = Absent /\ table \in [Versions -> Texts \cup {Absent}]
  BY <1>2 DEF Alone, Commit, IInv, TypeOK
<1>5. Kept
  BY <1>3, <1>4 DEF Kept
<1>6. Behind(r)'
  <2> SUFFICES ASSUME NEW v \in DOMAIN read[r], v <= target[r], v \notin todo[r] \ {c}
               PROVE  table'[v] = read[r][v]
    BY <1>3 DEF Behind
  <2>1. CASE v = c
    BY <2>1, <1>1, <1>3, <1>4
  <2>2. CASE v # c
    <3>1. table[v] = read[r][v]
      BY <2>2, <1>2 DEF Own, Behind, Commit, Busy
    <3> QED
      BY <3>1, <2>2, <1>3, <1>4, ReadTyped DEF IInv
  <2> QED
    BY <2>1, <2>2
<1>7. Own(r)'
  BY <1>2, <1>3, <1>6 DEF Own, Commit, Busy
<1>8. ASSUME NEW q \in Runners \ {r} PROVE Alone(q)'
  <2> SUFFICES ASSUME pc[q] = "commit"
               PROVE  /\ table'[Current(q)] = Absent
                      /\ \A p \in Runners : pc'[p] = "commit" /\ Current(p)' = Current(q) => p = q
    BY <1>3 DEF Alone, Same, Current
  <2>1. Current(q) # c
    BY <1>2 DEF Alone, Commit
  <2>2. table[Current(q)] = Absent
    BY <1>2 DEF Alone
  <2>3. Current(q) \in Versions
    <3>1. todo[q] # {} /\ todo[q] \subseteq Versions
      BY <1>2 DEF Own, IInv, TypeOK
    <3> QED
      BY <3>1, FirstOfTodo DEF IInv
  <2>4. table'[Current(q)] = Absent
    BY <1>3, <1>4, <2>1, <2>2, <2>3
  <2>5. \A p \in Runners : pc'[p] = "commit" => p # r /\ pc[p] = "commit" /\ Current(p)' = Current(p)
    BY <1>3 DEF Same, Current
  <2> QED
    BY <1>2, <2>4, <2>5 DEF Alone
<1>9. Alone(r)'
  BY <1>3 DEF Alone
<1>10. \A q \in Runners : Own(q)'
  BY <1>3, <1>5, <1>7, OwnKept
<1> QED
  BY <1>8, <1>9, <1>10 DEF RunInv, Own, Alone

LEMMA RunStep == IInv /\ [Next]_vars => RunInv'
<1> SUFFICES ASSUME IInv, [Next]_vars PROVE RunInv'
  OBVIOUS
<1>1. CASE UNCHANGED <<table, run>>
  BY <1>1 DEF IInv, RunInv, Behind, Current, run
<1>2. ASSUME NEW r \in Runners, NEW upto \in Targets \cup {Last}, Status(r, upto) PROVE RunInv'
  <2>1. table' = table /\ pc'[r] = "apply" /\ \A q \in Runners \ {r} : Same(q)
    BY <1>2 DEF Status, IInv, TypeOK, Same
  <2> QED
    BY <1>2, <2>1, StatusOwn, PrivateStep
<1>3. ASSUME NEW r \in Runners, Refuse(r) \/ Collide(r) \/ Break(r) PROVE RunInv'
  BY <1>3, FailOwn DEF Refuse, Collide, Break
<1>4. ASSUME NEW r \in Runners, Execute(r) \/ Finish(r) PROVE RunInv'
  <2>1. /\ table' = table /\ pc'[r] \in {"record", "done"}
        /\ Behind(r)' <=> Behind(r)
        /\ \A q \in Runners \ {r} : Same(q)
    BY <1>4 DEF Execute, Finish, IInv, TypeOK, Same, Behind
  <2>2. Own(r)
    BY RunInvParts DEF IInv
  <2>3. Own(r)'
    BY <1>4, <2>1, <2>2 DEF Own, Execute, Finish, Busy, IInv, TypeOK
  <2> QED
    BY <2>1, <2>3, PrivateStep
<1>5. ASSUME NEW r \in Runners, Record(r) PROVE RunInv'
  BY <1>5, RecordStep
<1>6. ASSUME NEW r \in Runners, Commit(r) PROVE RunInv'
  BY <1>6, CommitStep
<1>7. Next => \/ UNCHANGED <<table, run>>
              \/ \E r \in Runners :
                   \/ \E upto \in Targets \cup {Last} : Status(r, upto)
                   \/ Refuse(r) \/ Collide(r) \/ Break(r)
                   \/ Execute(r) \/ Finish(r) \/ Record(r) \/ Commit(r)
  BY DEF Next, Step, AddFile, EditFile, Pull
<1> QED
  BY <1>1, <1>2, <1>3, <1>4, <1>5, <1>6, <1>7 DEF vars

-----------------------------------------------------------------------------

\* The types, the schema and the runners hold together, whatever the runners and
\* the branch do.
THEOREM InductiveInvariant == Spec => []IInv
<1>1. IInv /\ [Next]_vars => IInv'
  BY TypeStep, SchemaStep, RunStep DEF IInv
<1> QED
  BY <1>1, InitInv, PTL DEF Spec

\* A runner that reports success leaves every file it was asked for applied with
\* the text it has on disk.
THEOREM RunnersAgree == Spec => []DoneMeansAgreed
<1>1. IInv => DoneMeansAgreed
  BY DEF IInv, RunInv, Behind, DoneMeansAgreed
<1> QED
  BY <1>1, InductiveInvariant, PTL

\* The table of applied migrations tells what SQL is in the schema.
THEOREM TableIsTrue == Spec => []TableTellsSchema
<1>1. IInv => TableTellsSchema
  BY DEF IInv
<1> QED
  BY <1>1, InductiveInvariant, PTL

\* The schema is a history of versions 1, 2, 3, ..., each executed once and whole.
THEOREM ImplementsHistory == Spec => HistorySpec
<1>1. Init => History!Init
  BY DEF Init, History!Init
<1>2. IInv /\ [Next]_vars => [History!Next]_schema
  <2> SUFFICES ASSUME IInv, [Next]_vars, schema' # schema PROVE History!Next
    OBVIOUS
  <2>1. PICK r \in Runners : Commit(r)
    BY DEF Next, Step, vars, AddFile, EditFile, Pull, Status, Refuse, Execute, Record, Collide,
           Finish, Break, Fail
  <2>2. Current(r) = Len(schema) + 1 /\ Current(r) \in Versions /\ read[r][Current(r)] \in Texts
    BY <2>1, CurrentIsNext, CommitTyped DEF IInv
  <2>3. Len(schema) < Last
    BY <2>2, MigrationAssumption DEF Versions, IInv, TypeOK
  <2>4. History!Apply(read[r][Current(r)])
    BY <2>1, <2>2, <2>3 DEF Commit, History!Apply
  <2> QED
    BY <2>2, <2>4 DEF History!Next
<1> QED
  BY <1>1, <1>2, InductiveInvariant, PTL DEF Spec, HistorySpec, History!Spec
=============================================================================
