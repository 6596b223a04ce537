--------------------------- MODULE ArticleCampaign ---------------------------
(***************************************************************************)
(* Reading article pages and paying a model for them: `tracker extract`    *)
(* (pipeline/extract.py run) and `tracker collect` (cli.py), which keep    *)
(* what they fetched in one file, article_cache.json, and stop at the cost *)
(* ceiling of a run (extract/extractor.py CostLedger).  The file is read   *)
(* when a command begins and written whole: after every tenth page and at  *)
(* a normal end.  The items are gate-passed items of a source whose terms  *)
(* were reviewed and whose feed gave no text; what becomes of an item in   *)
(* the database is ExtractStage's subject, here it is settled or it is not.*)
(***************************************************************************)
EXTENDS Integers, FiniteSets

CONSTANTS
  Items,
  Engines,     \* --extractor as it may be given
  SaveEvery,   \* 10: pages between two writes of the cache
  Ceiling,     \* TRACKER_LLM_COST_CEILING_USD_PER_RUN
  Projection,  \* what the ledger expects a call to cost
  Costs,       \* what a call may cost; 0 is a call the API refused
  Overlap,     \* whether the two commands may run side by side
  MaxFaults    \* bound on kills and on writes the disk refuses

ASSUME CampaignAssumption ==
  /\ IsFiniteSet(Items)
  /\ Engines \subseteq {"rules", "llm", "auto"}
  /\ SaveEvery \in Nat \ {0}
  /\ Ceiling \in Nat /\ Projection \in Nat /\ Costs \subseteq Nat
  /\ Overlap \in BOOLEAN /\ MaxFaults \in Nat

Commands == {"extract", "collect"}

\* What the cache says of a page.  extract writes {"title", "body"}, collect the
\* body as a string; a page that could not be had is kept as an empty answer.
Entry == {"unread", "record", "empty record", "string", "empty string"}
Unread == [i \in Items |-> "unread"]
\* A write cut short leaves a text that does not parse or, where the cut is inside
\* a character (the text is written as UTF-8), one that does not decode.
Torn == [i \in Items |-> "torn"]
Garbled == [i \in Items |-> "garbled"]
CutShort == {Torn, Garbled}

Fetched(p) == IF p = "extract" THEN {"record", "empty record"}
              ELSE {"string", "empty string"}

VARIABLES
  file,     \* article_cache.json: [Items -> Entry], Torn or Garbled
  settled,  \* items the extract stage has committed an outcome for
  pc,       \* where each command is
  memory,   \* its copy of the cache
  engine,   \* its extractor
  todo,     \* items it has not looked at
  cur,      \* the item in hand
  fetched,  \* pages it fetched up to its last write or since; 0 is none at all
  spent,    \* its ledger
  failed,   \* its writes that failed since the last good one (history)
  faults

own == <<pc, memory, engine, todo, cur, fetched, spent, failed>>
vars == <<file, settled, own, faults>>

NoItem == "no item"

-----------------------------------------------------------------------------

OnDisk == IF file \in CutShort THEN Unread ELSE file

Unsaved(p) == {i \in Items : memory[p][i] # "unread" /\ OnDisk[i] = "unread"}

\* With the page in hand.
Count(p) == (fetched[p] % SaveEvery) + 1

\* Mutant: the cache is written at the end alone.
AtTheEnd(p) == FALSE

SaveDue(p) == Count(p) = SaveEvery

\* Mutant: the ceiling is compared with what was spent.
NotYetSpent(p) == spent[p] <= Ceiling

\* check_before
Affordable(p) == spent[p] + Projection <= Ceiling

\* Mutant: the ledger outlives its run.
EndAndRemember(p) ==
  /\ pc' = [pc EXCEPT ![p] = "off"]
  /\ memory' = [memory EXCEPT ![p] = Unread]
  /\ engine' = [engine EXCEPT ![p] = "none"]
  /\ todo' = [todo EXCEPT ![p] = {}]
  /\ cur' = [cur EXCEPT ![p] = NoItem]
  /\ fetched' = [fetched EXCEPT ![p] = 0]
  /\ failed' = [failed EXCEPT ![p] = 0]
  /\ UNCHANGED spent

End(p) ==
  /\ pc' = [pc EXCEPT ![p] = "off"]
  /\ memory' = [memory EXCEPT ![p] = Unread]
  /\ engine' = [engine EXCEPT ![p] = "none"]
  /\ todo' = [todo EXCEPT ![p] = {}]
  /\ cur' = [cur EXCEPT ![p] = NoItem]
  /\ fetched' = [fetched EXCEPT ![p] = 0]
  /\ spent' = [spent EXCEPT ![p] = 0]
  /\ failed' = [failed EXCEPT ![p] = 0]

Init ==
  /\ file = Unread
  /\ settled = {}
  /\ pc = [p \in Commands |-> "off"]
  /\ memory = [p \in Commands |-> Unread]
  /\ engine = [p \in Commands |-> "none"]
  /\ todo = [p \in Commands |-> {}]
  /\ cur = [p \in Commands |-> NoItem]
  /\ fetched = [p \in Commands |-> 0]
  /\ spent = [p \in Commands |-> 0]
  /\ failed = [p \in Commands |-> 0]
  /\ faults = 0

\* extract returns before it looks when nothing is pending, starts empty on a file
\* that does not parse and raises on one that does not decode; collect reads every
\* item and raises on either.
Begin(p, kind) ==
  /\ pc[p] = "off"
  /\ Overlap \/ \A q \in Commands : pc[q] = "off"
  /\ IF p = "extract" THEN settled # Items /\ file # Garbled ELSE file \notin CutShort
  /\ pc' = [pc EXCEPT ![p] = "items"]
  /\ memory' = [memory EXCEPT ![p] = OnDisk]
  /\ engine' = [engine EXCEPT ![p] = kind]
  /\ todo' = [todo EXCEPT ![p] = IF p = "extract" THEN Items \ settled ELSE Items]
  /\ UNCHANGED <<file, settled, cur, fetched, spent, failed, faults>>

Fetch(p, i) ==
  /\ pc[p] = "items" /\ i \in todo[p]
  /\ memory[p][i] = "unread"
  /\ \E answer \in Fetched(p) : memory' = [memory EXCEPT ![p][i] = answer]
  /\ fetched' = [fetched EXCEPT ![p] = Count(p)]
  /\ cur' = [cur EXCEPT ![p] = i]
  /\ pc' = [pc EXCEPT ![p] = IF SaveDue(p) THEN "saving" ELSE "reading"]
  /\ UNCHANGED <<file, settled, engine, todo, spent, failed, faults>>

Recall(p, i) ==
  /\ pc[p] = "items" /\ i \in todo[p]
  /\ memory[p][i] # "unread"
  /\ cur' = [cur EXCEPT ![p] = i]
  /\ pc' = [pc EXCEPT ![p] = "reading"]
  /\ UNCHANGED <<file, settled, memory, engine, todo, fetched, spent, failed, faults>>

WriteFails ==
  /\ faults < MaxFaults /\ faults' = faults + 1
  /\ file' \in {file} \cup CutShort

\* extract logs a write the disk refuses and goes on; collect raises.
Save(p) ==
  /\ pc[p] = "saving"
  /\ \/ /\ file' = memory[p]
        /\ failed' = [failed EXCEPT ![p] = 0]
        /\ pc' = [pc EXCEPT ![p] = "reading"]
        /\ UNCHANGED <<memory, engine, todo, cur, fetched, spent, faults>>
     \/ /\ p = "extract" /\ WriteFails
        /\ failed' = [failed EXCEPT ![p] = @ + 1]
        /\ pc' = [pc EXCEPT ![p] = "reading"]
        /\ UNCHANGED <<memory, engine, todo, cur, fetched, spent>>
     \/ p = "collect" /\ WriteFails /\ End(p)
  /\ UNCHANGED settled

\* What the extractor answered is committed with the item; collect only lists it.
Answered(p) ==
  /\ settled' = IF p = "extract" THEN settled \cup {cur[p]} ELSE settled
  /\ todo' = [todo EXCEPT ![p] = @ \ {cur[p]}]
  /\ cur' = [cur EXCEPT ![p] = NoItem]
  /\ pc' = [pc EXCEPT ![p] = "items"]
  /\ UNCHANGED <<file, memory, engine, fetched, failed, faults>>

\* The rules answer, or abstain with nobody behind them.
ReadByRules(p) ==
  /\ pc[p] = "reading"
  /\ engine[p] \in {"rules", "auto"}
  /\ Answered(p)
  /\ UNCHANGED spent

\* The model is asked, at once or because the rules found no move.
ReadByModel(p) ==
  /\ pc[p] = "reading"
  /\ engine[p] \in {"llm", "auto"}
  /\ Affordable(p)
  /\ \E cost \in Costs : spent' = [spent EXCEPT ![p] = @ + cost]
  /\ Answered(p)

\* CostCeilingExceeded ends the command; the pages since the last write go with it.
StopAtCeiling(p) ==
  /\ pc[p] = "reading"
  /\ engine[p] \in {"llm", "auto"}
  /\ ~Affordable(p)
  /\ End(p)
  /\ UNCHANGED <<file, settled, faults>>

\* collect takes the record that extract cached for the body: the rules' regular
\* expressions want a string.
Choke(p) ==
  /\ p = "collect" /\ pc[p] = "reading"
  /\ engine[p] \in {"rules", "auto"}
  /\ memory[p][cur[p]] \in {"record", "empty record"}
  /\ End(p)
  /\ UNCHANGED <<file, settled, faults>>

\* The last write: by extract if it fetched at all, by collect always.
Finish(p) ==
  /\ pc[p] = "items" /\ todo[p] = {}
  /\ IF p = "collect" \/ fetched[p] > 0
     THEN pc' = [pc EXCEPT ![p] = "closing"] /\ UNCHANGED <<memory, engine, todo, cur, fetched, spent, failed>>
     ELSE End(p)
  /\ UNCHANGED <<file, settled, faults>>

Close(p) ==
  /\ pc[p] = "closing"
  /\ WriteFails \/ (file' = memory[p] /\ UNCHANGED faults)
  /\ End(p)
  /\ UNCHANGED settled

\* tracker cache purge, when the campaign is finished; it reads the file first.
Purge ==
  /\ \A p \in Commands : pc[p] = "off"
  /\ file \notin CutShort
  /\ file' = Unread
  /\ UNCHANGED <<settled, own, faults>>

\* Killed; in the middle of a write, what is on disk is cut short.
Kill(p) ==
  /\ pc[p] # "off" /\ faults < MaxFaults
  /\ faults' = faults + 1
  /\ \/ UNCHANGED file
     \/ pc[p] \in {"saving", "closing"} /\ file' \in CutShort
  /\ End(p)
  /\ UNCHANGED settled

Step(p) ==
  \/ \E i \in Items : Fetch(p, i) \/ Recall(p, i)
  \/ Save(p) \/ ReadByRules(p) \/ ReadByModel(p) \/ StopAtCeiling(p) \/ Choke(p)
  \/ Finish(p) \/ Close(p)

Next ==
  \/ \E p \in Commands : (\E kind \in Engines : Begin(p, kind)) \/ Step(p) \/ Kill(p)
  \/ Purge

Spec == Init /\ [][Next]_vars

\* A command that has begun goes on, and extract is run again as long as items
\* are pending (the catch-up workflow is, with whatever extractor it is given).
FairSpec ==
  /\ Spec
  /\ \A p \in Commands : WF_vars(Step(p))
  /\ SF_vars(\E kind \in Engines : Begin("extract", kind))

-----------------------------------------------------------------------------

TypeOK ==
  /\ file \in [Items -> Entry] \cup CutShort
  /\ settled \subseteq Items
  /\ pc \in [Commands -> {"off", "items", "saving", "reading", "closing"}]
  /\ memory \in [Commands -> [Items -> Entry]]
  /\ engine \in [Commands -> {"none", "rules", "llm", "auto"}]
  /\ todo \in [Commands -> SUBSET Items]
  /\ cur \in [Commands -> Items \cup {NoItem}]
  /\ fetched \in [Commands -> 0 .. SaveEvery]
  /\ spent \in [Commands -> Nat]
  /\ failed \in [Commands -> Nat]
  /\ faults \in 0 .. MaxFaults

\* Whatever ends a command between two writes - the ceiling, a kill, an article
\* it chokes on - costs fewer than SaveEvery pages (extract.py 182, cli.py 396),
\* and as many more for each write that failed since the last good one; unless
\* one of these emptied the file, when only the next good write brings it back.
LittleIsLost ==
  \A p \in Commands :
    \/ Cardinality(Unsaved(p)) < SaveEvery * (failed[p] + 1)
    \/ pc[p] = "saving"
    \/ failed[p] > 0 /\ file \in CutShort

\* The ledger looks before each call: what a run spends exceeds the ceiling by
\* no more than the last call costs above its projection (extractor.py 120-124).
OverrunByOneCall ==
  \A p \in Commands, cost \in Costs :
    (\A c \in Costs : c <= cost) =>
      spent[p] <= Ceiling \/ spent[p] <= Ceiling - Projection + cost

\* Runs that stop at the ceiling, lose pages, fail to write or find a cache that
\* does not parse still work the queue off, as long as one call is affordable;
\* only a cache that does not decode keeps it where it is (extract.py 94).
QueueDrains == <>[](file = Garbled) \/ \A i \in Items : <>(i \in settled)
=============================================================================
