----------------------- MODULE ArticleCampaignProofs -----------------------
(***************************************************************************)
(* What a campaign of article reads keeps for any items, costs, ceiling    *)
(* and number of pages between two writes: the budget's overrun is one     *)
(* call's, with the two commands side by side or not, and what an end      *)
(* takes with it is less than a write's worth, when they are not.          *)
(***************************************************************************)
EXTENDS ArticleCampaign, FiniteSetTheorems, TLAPS

\* The pages fetched since the last write, counted.
LEMMA Counted ==
  ASSUME NEW n \in Nat, NEW every \in Nat \ {0}
  PROVE /\ n % every \in 0 .. every - 1
        /\ n < every => n % every = n
        /\ n = every => n % every = 0
OBVIOUS

\* A command that has an item in hand took it from the items.
InHand == \A p \in Commands : pc[p] \in {"saving", "reading"} => cur[p] \in Items

TypeInv == TypeOK /\ InHand

LEMMA TypeStep ==
  ASSUME TypeInv, [Next]_vars
  PROVE TypeInv'
<1> USE DEF TypeInv, TypeOK, InHand, Commands, Entry
<1>0. /\ SaveEvery \in Nat \ {0} /\ Costs \subseteq Nat /\ MaxFaults \in Nat
      /\ Engines \subseteq {"rules", "llm", "auto"}
  BY CampaignAssumption
<1>f. /\ fetched \in [Commands -> 0 .. SaveEvery]
      /\ spent \in [Commands -> Nat]
      /\ failed \in [Commands -> Nat]
      /\ faults \in 0 .. MaxFaults
  OBVIOUS
<1>w. WriteFails => faults' \in 0 .. MaxFaults /\ file' \in [Items -> Entry] \cup CutShort
  <2>1. WriteFails => file' \in [Items -> Entry] \cup CutShort
    BY DEF WriteFails
  <2>2. WriteFails => faults' \in 0 .. MaxFaults
    <3> HIDE DEF TypeInv, TypeOK, InHand, Commands, Entry
    <3> QED
      BY <1>0, <1>f DEF WriteFails
  <2> QED
    BY <2>1, <2>2
<1>1. OnDisk \in [Items -> Entry] /\ Unread \in [Items -> Entry]
  BY DEF OnDisk, Unread
<1>2. \A p \in Commands : Count(p) \in 1 .. SaveEvery
  <2> SUFFICES ASSUME NEW p \in Commands PROVE Count(p) \in 1 .. SaveEvery
    OBVIOUS
  <2> HIDE DEF TypeInv, TypeOK, InHand, Commands, Entry
  <2>1. fetched[p] \in Nat
    BY <1>0, <1>f
  <2>2. fetched[p] % SaveEvery \in 0 .. SaveEvery - 1
    BY <1>0, <2>1, Counted
  <2> QED
    BY <1>0, <2>2 DEF Count
<1>3. ASSUME NEW p \in Commands, End(p), UNCHANGED settled,
             file' \in [Items -> Entry] \cup CutShort, faults' \in 0 .. MaxFaults
      PROVE TypeInv'
  <2>1. /\ pc' \in [Commands -> {"off", "items", "saving", "reading", "closing"}]
        /\ memory' \in [Commands -> [Items -> Entry]]
        /\ engine' \in [Commands -> {"none", "rules", "llm", "auto"}]
        /\ todo' \in [Commands -> SUBSET Items]
        /\ cur' \in [Commands -> Items \cup {NoItem}]
    BY <1>1, <1>3 DEF End
  <2>2. /\ fetched' \in [Commands -> 0 .. SaveEvery] /\ spent' \in [Commands -> Nat]
        /\ failed' \in [Commands -> Nat]
    <3> HIDE DEF TypeInv, TypeOK, InHand, Commands, Entry
    <3> QED
      BY <1>0, <1>3, <1>f DEF End
  <2>3. InHand'
    BY <1>3 DEF End
  <2> QED
    BY <1>3, <2>1, <2>2, <2>3
<1>4. ASSUME NEW p \in Commands, NEW kind \in Engines, Begin(p, kind)
      PROVE TypeInv'
  BY <1>0, <1>1, <1>4 DEF Begin
<1>5. ASSUME NEW p \in Commands, NEW i \in Items, Fetch(p, i)
      PROVE TypeInv'
  <2>1. Fetched(p) \subseteq Entry
    BY DEF Fetched
  <2>2. memory' \in [Commands -> [Items -> Entry]]
    <3>1. PICK answer \in Fetched(p) : memory' = [memory EXCEPT ![p][i] = answer]
      BY <1>5 DEF Fetch
    <3> QED
      BY <2>1, <3>1
  <2>3. fetched' \in [Commands -> 0 .. SaveEvery]
    <3> HIDE DEF TypeInv, TypeOK, InHand, Commands, Entry
    <3>1. Count(p) \in 0 .. SaveEvery
      BY <1>0, <1>2
    <3> QED
      BY <1>5, <1>f, <3>1 DEF Fetch
  <2> QED
    BY <1>5, <2>2, <2>3 DEF Fetch
<1>6. ASSUME NEW p \in Commands, NEW i \in Items, Recall(p, i)
      PROVE TypeInv'
  BY <1>6 DEF Recall
<1>7. ASSUME NEW p \in Commands, Save(p)
      PROVE TypeInv'
  <2>1. CASE p = "collect" /\ WriteFails /\ End(p)
    BY <1>3, <1>7, <1>w, <2>1 DEF Save
  <2>2. CASE /\ file' = memory[p]
             /\ failed' = [failed EXCEPT ![p] = 0]
             /\ pc' = [pc EXCEPT ![p] = "reading"]
             /\ UNCHANGED <<memory, engine, todo, cur, fetched, spent, faults>>
    <3>1. failed' \in [Commands -> Nat]
      <4> HIDE DEF TypeInv, TypeOK, InHand, Commands, Entry
      <4> QED
        BY <1>0, <1>f, <2>2
    <3> QED
      BY <1>7, <2>2, <3>1 DEF Save
  <2>3. CASE /\ p = "extract" /\ WriteFails
             /\ failed' = [failed EXCEPT ![p] = @ + 1]
             /\ pc' = [pc EXCEPT ![p] = "reading"]
             /\ UNCHANGED <<memory, engine, todo, cur, fetched, spent>>
    <3>1. failed' \in [Commands -> Nat]
      <4> HIDE DEF TypeInv, TypeOK, InHand, Commands, Entry
      <4> QED
        BY <1>f, <2>3
    <3> QED
      BY <1>7, <1>w, <2>3, <3>1 DEF Save
  <2> QED
    BY <1>7, <2>1, <2>2, <2>3 DEF Save
<1>8. ASSUME NEW p \in Commands, Answered(p), pc[p] = "reading", spent' \in [Commands -> Nat]
      PROVE TypeInv'
  BY <1>8 DEF Answered
<1>9. ASSUME NEW p \in Commands, ReadByRules(p)
      PROVE TypeInv'
  BY <1>8, <1>9 DEF ReadByRules
<1>10. ASSUME NEW p \in Commands, ReadByModel(p)
       PROVE TypeInv'
  <2>1. PICK cost \in Costs : spent' = [spent EXCEPT ![p] = @ + cost]
    BY <1>10 DEF ReadByModel
  <2>2. spent' \in [Commands -> Nat]
    <3> HIDE DEF TypeInv, TypeOK, InHand, Commands, Entry
    <3> QED
      BY <1>0, <1>f, <2>1
  <2> QED
    BY <1>8, <1>10, <2>2 DEF ReadByModel
<1>11. ASSUME NEW p \in Commands, StopAtCeiling(p) \/ Choke(p)
       PROVE TypeInv'
  BY <1>3, <1>11 DEF StopAtCeiling, Choke
<1>12. ASSUME NEW p \in Commands, Finish(p)
       PROVE TypeInv'
  <2>1. CASE pc' = [pc EXCEPT ![p] = "closing"] /\ UNCHANGED <<memory, engine, todo, cur, fetched, spent, failed>>
    BY <1>12, <2>1 DEF Finish
  <2>2. CASE End(p)
    BY <1>3, <1>12, <2>2 DEF Finish
  <2> QED
    BY <1>12, <2>1, <2>2 DEF Finish
<1>13. ASSUME NEW p \in Commands, Close(p)
       PROVE TypeInv'
  BY <1>3, <1>13, <1>w DEF Close
<1>14. ASSUME NEW p \in Commands, Kill(p)
       PROVE TypeInv'
  <2>1. faults' \in 0 .. MaxFaults
    <3> HIDE DEF TypeInv, TypeOK, InHand, Commands, Entry
    <3> QED
      BY <1>0, <1>f, <1>14 DEF Kill
  <2> QED
    BY <1>3, <1>14, <2>1 DEF Kill
<1>15. ASSUME Purge PROVE TypeInv'
  BY <1>1, <1>15 DEF Purge, own
<1>16. CASE UNCHANGED vars
  BY <1>16 DEF vars, own
<1> QED
  BY <1>4, <1>5, <1>6, <1>7, <1>9, <1>10, <1>11, <1>12, <1>13, <1>14, <1>15, <1>16
  DEF Next, Step

LEMMA TypeInvariant == Spec => []TypeInv
<1>1. Init => TypeInv
  BY CampaignAssumption DEF Init, TypeInv, TypeOK, InHand, Unread, Entry, Commands
<1>2. TypeInv /\ [Next]_vars => TypeInv'
  BY TypeStep
<1> QED
  BY <1>1, <1>2, PTL DEF Spec

\* Every variable keeps its type.
THEOREM TypeCorrect == Spec => []TypeOK
<1>1. TypeInv => TypeOK
  BY DEF TypeInv
<1> QED
  BY <1>1, TypeInvariant, PTL

-----------------------------------------------------------------------------
(* The ceiling.                                                             *)

\* Whatever the calls cost, and whether or not the two commands overlap, a run
\* spends at most the ceiling, or what the last call it could still afford cost
\* above its projection.
THEOREM OverrunBounded == Spec => []OverrunByOneCall
<1> USE CampaignAssumption
<1>1. Init => OverrunByOneCall
  BY DEF Init, OverrunByOneCall
<1>2. TypeInv /\ OverrunByOneCall /\ [Next]_vars => OverrunByOneCall'
  <2> SUFFICES ASSUME TypeInv, OverrunByOneCall, [Next]_vars,
                      NEW q \in Commands, NEW cost \in Costs, \A c \in Costs : c <= cost
               PROVE spent'[q] <= Ceiling \/ spent'[q] <= Ceiling - Projection + cost
    BY DEF OverrunByOneCall
  <2>0. spent \in [Commands -> Nat]
    BY DEF TypeInv, TypeOK
  <2>1. spent[q] <= Ceiling \/ spent[q] <= Ceiling - Projection + cost
    BY DEF OverrunByOneCall
  <2>2. ASSUME NEW p \in Commands, ReadByModel(p)
        PROVE spent'[q] <= Ceiling \/ spent'[q] <= Ceiling - Projection + cost
    <3>1. PICK c \in Costs : spent' = [spent EXCEPT ![p] = @ + c]
      BY <2>2 DEF ReadByModel
    <3>2. c <= cost /\ spent[p] \in Nat /\ c \in Nat /\ cost \in Nat
      BY <2>0
    <3>3. CASE p = q
      <4>1. spent'[q] = spent[p] + c /\ spent[p] + Projection <= Ceiling
        BY <2>0, <2>2, <3>1, <3>3 DEF ReadByModel, Affordable
      <4> QED
        BY <3>2, <4>1
    <3>4. CASE p # q
      BY <2>0, <2>1, <3>1, <3>4
    <3> QED
      BY <3>3, <3>4
  <2>3. ASSUME NEW p \in Commands, End(p)
        PROVE spent'[q] \in {spent[q], 0}
    BY <2>0, <2>3 DEF End
  <2>4. CASE spent'[q] \in {spent[q], 0}
    BY <2>1, <2>4
  <2>5. CASE \E p \in Commands : ReadByModel(p)
    BY <2>2, <2>5
  <2>6. CASE ~ \E p \in Commands : ReadByModel(p)
    <3>1. UNCHANGED spent \/ \E p \in Commands : End(p)
      BY <2>6 DEF Next, Step, Begin, Fetch, Recall, Save, ReadByRules, StopAtCeiling,
                  Choke, Finish, Close, Kill, Purge, vars, own
    <3> QED
      BY <2>3, <2>4, <3>1
  <2> QED
    BY <2>5, <2>6
<1> QED
  BY <1>1, <1>2, TypeInvariant, PTL DEF Spec

-----------------------------------------------------------------------------
(* What an end takes with it.                                               *)

\* One command at a time: what the others remember is nothing, and what the one
\* has fetched and not written is what it counted since the last write it tried,
\* and a write's worth for each that failed before, unless one emptied the file.
Alone ==
  /\ \A p, q \in Commands : pc[p] # "off" /\ pc[q] # "off" => p = q
  /\ \A p \in Commands : pc[p] = "off" => memory[p] = Unread

Behind(p) == IF pc[p] = "saving" THEN SaveEvery ELSE fetched[p] % SaveEvery

Emptied(p) == failed[p] > 0 /\ file \in CutShort

Spared(p) == Cardinality(Unsaved(p)) <= Behind(p) + SaveEvery * failed[p]

LostInv == Alone /\ \A p \in Commands : Emptied(p) \/ Spared(p)

\* One more failed write is one more write's worth.
LEMMA OneMore ==
  ASSUME NEW every \in Nat, NEW n \in Nat
  PROVE every * n \in Nat /\ every * (n + 1) = every * n + every
OBVIOUS

LEMMA SavedSpared ==
  ASSUME NEW p \in Commands, TypeInv, Unsaved(p) = {}
  PROVE Spared(p)
<1>1. fetched[p] \in Nat /\ SaveEvery \in Nat \ {0} /\ failed[p] \in Nat
  BY CampaignAssumption DEF TypeInv, TypeOK
<1>2. fetched[p] % SaveEvery \in Nat
  BY <1>1, Counted
<1>3. Cardinality(Unsaved(p)) = 0
  BY FS_EmptySet
<1>4. SaveEvery * failed[p] \in Nat
  BY <1>1, OneMore
<1>5. Behind(p) \in Nat
  BY <1>1, <1>2 DEF Behind
<1> QED
  BY <1>3, <1>4, <1>5 DEF Spared

LEMMA LostStep ==
  ASSUME ~Overlap, TypeInv, TypeInv', LostInv, [Next]_vars
  PROVE LostInv'
<1> DEFINE Kept(p) == Emptied(p) \/ Spared(p)
<1>0. \A p \in Commands : IsFiniteSet(Unsaved(p)) /\ Cardinality(Unsaved(p)) \in Nat
  <2> SUFFICES ASSUME NEW p \in Commands
               PROVE IsFiniteSet(Unsaved(p)) /\ Cardinality(Unsaved(p)) \in Nat
    OBVIOUS
  <2>1. Unsaved(p) \in SUBSET Items /\ IsFiniteSet(Items)
    BY CampaignAssumption DEF Unsaved
  <2> QED
    BY <2>1, FS_Subset, FS_CardinalityType
<1>t. /\ pc \in [Commands -> {"off", "items", "saving", "reading", "closing"}]
      /\ memory \in [Commands -> [Items -> Entry]]
      /\ fetched \in [Commands -> 0 .. SaveEvery]
      /\ failed \in [Commands -> Nat]
  BY DEF TypeInv, TypeOK
<1>f. SaveEvery \in Nat \ {0} /\ \A p \in Commands : fetched[p] \in Nat /\ failed[p] \in Nat
  BY <1>t, CampaignAssumption
<1>e. ASSUME NEW q \in Commands, Unsaved(q)' = {} PROVE Kept(q)'
  <2>1. /\ fetched'[q] \in Nat /\ failed'[q] \in Nat
    BY <1>f DEF TypeInv, TypeOK
  <2>2. fetched'[q] % SaveEvery \in Nat
    BY <1>f, <2>1, Counted
  <2>3. Cardinality(Unsaved(q)') = 0
    BY <1>e, FS_EmptySet
  <2>4. SaveEvery * failed'[q] \in Nat
    BY <1>f, <2>1, OneMore
  <2>5. Behind(q)' \in Nat
    BY <1>f, <2>2 DEF Behind
  <2> QED
    BY <2>3, <2>4, <2>5 DEF Spared
<1>k. ASSUME NEW q \in Commands, UNCHANGED file, memory'[q] = memory[q], fetched'[q] = fetched[q],
             failed'[q] = failed[q], pc'[q] = "saving" <=> pc[q] = "saving"
      PROVE Kept(q)'
  BY <1>k DEF LostInv, Unsaved, OnDisk, Behind, Emptied, Spared
<1>n. \A q \in Commands : memory'[q] = Unread => Unsaved(q)' = {}
  BY DEF Unsaved, Unread
<1> HIDE DEF Kept
\* Nobody else is running, and of an empty memory nothing is lost.
<1>a. ASSUME NEW p \in Commands, pc[p] # "off", Alone', Kept(p)',
             \A q \in Commands \ {p} : memory'[q] = memory[q]
      PROVE LostInv'
  <2>1. ASSUME NEW q \in Commands, q # p PROVE Kept(q)'
    <3>1. memory'[q] = Unread
      BY <1>a, <2>1 DEF LostInv, Alone
    <3> QED
      BY <1>e, <1>n, <3>1
  <2> QED
    BY <1>a, <2>1 DEF LostInv, Kept
<1>1. ASSUME NEW p \in Commands, pc[p] # "off", End(p) PROVE LostInv'
  <2>1. Alone' /\ memory'[p] = Unread /\ \A q \in Commands \ {p} : memory'[q] = memory[q]
    BY <1>1, <1>t DEF End, LostInv, Alone
  <2> QED
    BY <1>1, <1>a, <1>e, <1>n, <2>1
<1>2. ASSUME NEW p \in Commands, pc[p] # "off", pc'[p] # "off", UNCHANGED memory,
             \A q \in Commands \ {p} : pc'[q] = pc[q], Kept(p)'
      PROVE LostInv'
  <2>1. Alone'
    BY <1>2 DEF LostInv, Alone
  <2> QED
    BY <1>2, <1>a, <2>1
<1>3. ASSUME NEW p \in Commands, NEW kind \in Engines, Begin(p, kind)
      PROVE LostInv'
  <2>1. \A q \in Commands : pc[q] = "off" /\ memory[q] = Unread
    BY <1>3 DEF Begin, LostInv, Alone
  <2>2. Alone'
    BY <1>3, <1>t, <2>1 DEF Begin, Alone
  <2>3. ASSUME NEW q \in Commands PROVE Unsaved(q)' = {}
    <3>1. memory'[q] = Unread \/ memory'[q] = OnDisk'
      BY <1>3, <1>t, <2>1 DEF Begin, OnDisk
    <3> QED
      BY <3>1 DEF Unsaved, Unread
  <2> QED
    BY <1>e, <2>2, <2>3 DEF LostInv, Kept
<1>4. ASSUME NEW p \in Commands, NEW i \in Items, Fetch(p, i)
      PROVE LostInv'
  <2>1. PICK answer \in Fetched(p) : memory' = [memory EXCEPT ![p][i] = answer]
    BY <1>4 DEF Fetch
  <2>2. \A q \in Commands \ {p} : memory'[q] = memory[q]
    BY <1>t, <2>1
  <2>3. Alone'
    BY <1>4, <1>t, <2>2 DEF Fetch, LostInv, Alone
  <2>4. Unsaved(p)' \subseteq Unsaved(p) \cup {i}
    BY <1>4, <1>t, <2>1 DEF Fetch, Unsaved, OnDisk
  <2>5. Cardinality(Unsaved(p)') <= Cardinality(Unsaved(p)) + 1
    <3>1. /\ IsFiniteSet(Unsaved(p) \cup {i})
          /\ Cardinality(Unsaved(p) \cup {i}) <= Cardinality(Unsaved(p)) + 1
      <4>1. /\ IsFiniteSet(Unsaved(p) \cup {i})
            /\ Cardinality(Unsaved(p) \cup {i}) =
                 IF i \in Unsaved(p) THEN Cardinality(Unsaved(p))
                 ELSE Cardinality(Unsaved(p)) + 1
        BY <1>0, FS_AddElement
      <4> QED
        BY <1>0, <4>1
    <3>2. Unsaved(p)' \in SUBSET (Unsaved(p) \cup {i})
      BY <2>4
    <3>3. Cardinality(Unsaved(p)') <= Cardinality(Unsaved(p) \cup {i})
      BY <3>1, <3>2, FS_Subset
    <3>4. /\ Cardinality(Unsaved(p)') \in Nat
          /\ Cardinality(Unsaved(p) \cup {i}) \in Nat
          /\ Cardinality(Unsaved(p)) \in Nat
      BY <1>0, <3>1, <3>2, FS_Subset, FS_CardinalityType
    <3> QED
      BY <3>1, <3>3, <3>4
  <2>6. Emptied(p) \/ Cardinality(Unsaved(p)) <= (fetched[p] % SaveEvery) + SaveEvery * failed[p]
    BY <1>4 DEF Fetch, LostInv, Behind, Spared
  <2>7. fetched'[p] = Count(p) /\ (pc'[p] = "saving" <=> Count(p) = SaveEvery)
    BY <1>4, <1>t DEF Fetch, SaveDue
  <2>8. fetched[p] % SaveEvery \in 0 .. SaveEvery - 1
    BY <1>f, Counted
  <2>9. /\ Cardinality(Unsaved(p)') \in Nat /\ Cardinality(Unsaved(p)) \in Nat
    <3>1. Unsaved(p)' \in SUBSET Items /\ IsFiniteSet(Items)
      BY CampaignAssumption DEF Unsaved
    <3> QED
      BY <1>0, <3>1, FS_Subset, FS_CardinalityType
  <2>15. SaveEvery * failed[p] \in Nat
    BY <1>f, OneMore
  <2>10. Emptied(p) \/ Cardinality(Unsaved(p)') <= Count(p) + SaveEvery * failed[p]
    BY <2>5, <2>6, <2>8, <2>9, <2>15, <1>f DEF Count
  <2>11. Count(p) < SaveEvery => Count(p) % SaveEvery = Count(p)
    BY <1>f, <2>8, Counted DEF Count
  <2>12. Count(p) <= SaveEvery /\ Count(p) \in Nat
    BY <1>f, <2>8 DEF Count
  <2>13. Behind(p)' = IF Count(p) = SaveEvery THEN SaveEvery ELSE Count(p) % SaveEvery
    BY <2>7 DEF Behind
  <2>16. Behind(p)' = Count(p)
    BY <1>f, <2>11, <2>12, <2>13
  <2>17. failed' = failed /\ file' = file
    BY <1>4 DEF Fetch
  <2>14. Kept(p)'
    BY <2>10, <2>16, <2>17 DEF Kept, Emptied, Spared
  <2> QED
    BY <1>4, <1>a, <2>2, <2>3, <2>14 DEF Fetch
<1>5. ASSUME NEW p \in Commands, NEW i \in Items, Recall(p, i)
      PROVE LostInv'
  <2>1. Kept(p)'
    BY <1>5, <1>k, <1>t DEF Recall
  <2> QED
    BY <1>2, <1>5, <1>t, <2>1 DEF Recall
<1>6. ASSUME NEW p \in Commands, Save(p)
      PROVE LostInv'
  <2>1. CASE p = "collect" /\ WriteFails /\ End(p)
    BY <1>1, <1>6, <2>1 DEF Save
  <2>2. CASE file' = memory[p] /\ pc' = [pc EXCEPT ![p] = "reading"] /\ UNCHANGED memory
    <3>1. \A i \in Items : memory'[p][i] = OnDisk'[i]
      <4>1. memory[p] \in [Items -> Entry]
        BY <1>t
      <4>2. ASSUME NEW i \in Items PROVE memory[p] \notin CutShort
        BY <4>1 DEF Torn, Garbled, CutShort, Entry
      <4> QED
        BY <2>2, <4>1, <4>2 DEF OnDisk
    <3>2. Kept(p)'
      BY <1>e, <3>1 DEF Unsaved
    <3> QED
      BY <1>2, <1>6, <1>t, <2>2, <3>2 DEF Save
  <2>3. CASE /\ WriteFails
             /\ failed' = [failed EXCEPT ![p] = @ + 1]
             /\ pc' = [pc EXCEPT ![p] = "reading"]
             /\ UNCHANGED <<memory, fetched>>
    <3>1. failed'[p] = failed[p] + 1 /\ failed'[p] > 0
      BY <1>f, <1>t, <2>3
    <3>2. ASSUME file' \in CutShort PROVE Kept(p)'
      BY <3>1, <3>2 DEF Kept, Emptied
    <3>3. ASSUME file' \notin CutShort PROVE Kept(p)'
      <4>1. file' = file
        BY <2>3, <3>3 DEF WriteFails
      <4>2. Spared(p)
        BY <3>3, <4>1 DEF LostInv, Emptied
      <4>3. Unsaved(p)' = Unsaved(p)
        BY <2>3, <4>1 DEF Unsaved, OnDisk
      <4>4. Cardinality(Unsaved(p)) <= SaveEvery + SaveEvery * failed[p]
        BY <1>6, <4>2 DEF Save, Spared, Behind
      <4>5. /\ SaveEvery * failed'[p] = SaveEvery * failed[p] + SaveEvery
            /\ SaveEvery * failed[p] \in Nat /\ SaveEvery * failed'[p] \in Nat
        BY <1>f, <3>1, OneMore
      <4>6. Behind(p)' \in Nat
        <5>1. pc'[p] = "reading" /\ fetched'[p] = fetched[p]
          BY <1>t, <2>3
        <5>2. fetched[p] % SaveEvery \in Nat
          BY <1>f, Counted
        <5> QED
          BY <5>1, <5>2 DEF Behind
      <4>7. Cardinality(Unsaved(p)') <= Behind(p)' + SaveEvery * failed'[p]
        BY <1>0, <1>f, <4>3, <4>4, <4>5, <4>6
      <4> QED
        BY <4>7 DEF Kept, Spared
    <3>4. Kept(p)'
      BY <3>2, <3>3
    <3> QED
      BY <1>2, <1>6, <1>t, <2>3, <3>4 DEF Save
  <2> QED
    BY <1>6, <2>1, <2>2, <2>3 DEF Save
<1>7. ASSUME NEW p \in Commands, Answered(p), pc[p] = "reading"
      PROVE LostInv'
  <2>1. Kept(p)'
    BY <1>7, <1>k, <1>t DEF Answered
  <2> QED
    BY <1>2, <1>7, <1>t, <2>1 DEF Answered
<1>8. ASSUME NEW p \in Commands, Finish(p)
      PROVE LostInv'
  <2>1. CASE End(p)
    BY <1>1, <1>8, <2>1 DEF Finish
  <2>2. CASE pc' = [pc EXCEPT ![p] = "closing"] /\ UNCHANGED <<memory, fetched, failed, file>>
    <3>1. Kept(p)'
      BY <1>8, <2>2, <1>k, <1>t DEF Finish
    <3> QED
      BY <1>2, <1>8, <1>t, <2>2, <3>1 DEF Finish
  <2> QED
    BY <1>8, <2>1, <2>2 DEF Finish
<1>9. ASSUME Purge PROVE LostInv'
  <2>1. \A q \in Commands : memory'[q] = Unread
    BY <1>9 DEF Purge, own, LostInv, Alone
  <2>2. Alone'
    BY <1>9 DEF Purge, own, LostInv, Alone
  <2> QED
    BY <1>e, <1>n, <2>1, <2>2 DEF LostInv, Kept
<1>10. CASE UNCHANGED vars
  BY <1>10, <1>k DEF vars, own, LostInv, Alone, Kept
<1> QED
  BY <1>1, <1>3, <1>4, <1>5, <1>6, <1>7, <1>8, <1>9, <1>10
  DEF Next, Step, ReadByRules, ReadByModel, StopAtCeiling, Choke, Close, Kill

\* When the commands take turns, whatever ends one - the ceiling, a kill, a page it
\* chokes on - takes fewer pages with it than lie between two writes of the cache,
\* and as many more for each write that failed, however many fail; while no failed
\* write has emptied the file.
THEOREM LittleLost == ASSUME ~Overlap PROVE Spec => []LittleIsLost
<1>1. Init /\ TypeInv => LostInv
  <2> SUFFICES ASSUME Init, TypeInv PROVE LostInv
    OBVIOUS
  <2>1. \A p \in Commands : Unsaved(p) = {}
    BY DEF Init, Unsaved, Unread
  <2> QED
    BY <2>1, SavedSpared DEF Init, LostInv, Alone
<1>2. TypeInv /\ TypeInv' /\ LostInv /\ [Next]_vars => LostInv'
  BY LostStep
<1>3. TypeInv /\ LostInv => LittleIsLost
  <2> SUFFICES ASSUME TypeInv, LostInv, NEW p \in Commands, pc[p] # "saving", ~Emptied(p)
               PROVE Cardinality(Unsaved(p)) < SaveEvery * (failed[p] + 1)
    BY DEF LittleIsLost, Emptied
  <2>1. fetched[p] \in Nat /\ SaveEvery \in Nat \ {0} /\ failed[p] \in Nat
    BY CampaignAssumption DEF TypeInv, TypeOK
  <2>2. fetched[p] % SaveEvery \in 0 .. SaveEvery - 1
    BY <2>1, Counted
  <2>3. Cardinality(Unsaved(p)) <= (fetched[p] % SaveEvery) + SaveEvery * failed[p]
    BY DEF LostInv, Behind, Spared
  <2>4. Cardinality(Unsaved(p)) \in Nat
    <3>1. Unsaved(p) \in SUBSET Items /\ IsFiniteSet(Items)
      BY CampaignAssumption DEF Unsaved
    <3> QED
      BY <3>1, FS_Subset, FS_CardinalityType
  <2>5. /\ SaveEvery * (failed[p] + 1) = SaveEvery * failed[p] + SaveEvery
        /\ SaveEvery * failed[p] \in Nat
    BY <2>1, OneMore
  <2> QED
    BY <2>1, <2>2, <2>3, <2>4, <2>5
<1> QED
  BY <1>1, <1>2, <1>3, TypeInvariant, PTL DEF Spec
=============================================================================
