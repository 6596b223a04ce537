---------------------------- MODULE ExtractClaims ----------------------------
(***************************************************************************)
(* What comments of the repository say of the extract stage and its code   *)
(* does not keep; the refuting configurations are those of README.md.      *)
(***************************************************************************)
EXTENDS MCExtractStage

\* Re-extracting an item adds no second move for a person it already has one
\* for (fingerprint: "Deterministic per (item, person)").
OneMovePerPerson ==
  \A f, g \in disk.moves : f.item = g.item /\ f.person = g.person => f = g

\* When no process is running, the last pipeline_runs row is closed
\* (runs.py record: "close it whatever happens").
RunClosed == pc = "idle" => run # "running"

\* An unknown firm stays flagged as long as the database has it
\* (_resolve_firm, 404: "flagged, rather than guessed at").
FlagsSurvive ==
  \A firm \in disk.firms \ RegisterFirms : \E f \in disk.moves : <<f, firm>> \in disk.flags
=============================================================================
