------------------------- MODULE MCArticleCampaign -------------------------
(***************************************************************************)
(* Three pages and a write every second one: a run may end with a page in  *)
(* memory only.  A ceiling two projected calls fit under, and calls that   *)
(* cost nothing, half or twice the projection.                             *)
(***************************************************************************)
EXTENDS ArticleCampaign

(* What comments of the code say, refuted by hand (README section 5).       *)

\* extract.py 95: "article cache at %s is unreadable; starting empty".  A run that
\* finds items pending and a cache cut short begins, whatever way it was cut.
UnreadableStartsEmpty ==
  (file \in CutShort /\ pc["extract"] = "off" /\ settled # Items)
    ~> (pc["extract"] # "off" \/ file \notin CutShort)

\* extractor.py 121: "Deliberately pessimistic, so the ceiling is hit before it
\* is breached."
CeilingKept == \A p \in Commands : spent[p] <= Ceiling

\* cli.py 340: "Bodies are cached on disk so an interrupted run does not
\* re-fetch what it already has."
InterruptKeepsPages ==
  [][\A p \in Commands : Kill(p) =>
       \A i \in Items : memory[p][i] # "unread" => OnDisk'[i] # "unread"]_vars

\* extract.py 81: "Article bodies already fetched, shared with `tracker collect`."
CollectReadsTheCache == [][\A p \in Commands : ~Choke(p)]_vars
=============================================================================
