---------------------------- MODULE MCIngestStage ----------------------------
(***************************************************************************)
(* Three sources: an archive that is always readable, an archive and a     *)
(* live feed that are not.  The items of the first fall before, on and     *)
(* between the windows: published late, and listed after the day on which  *)
(* the source was last polled.  On the last day the feed lists an entry    *)
(* whose link is no URL.                                                   *)
(***************************************************************************)
EXTENDS IngestStage

CONSTANTS archive, flaky, feed

MCSources == {archive, flaky, feed}
MCArchives == {archive, flaky}
MCUnreadable == {flaky, feed}
MCPollInterval == [s \in MCSources |-> IF s = archive THEN 4 ELSE 1]

\* <<source, published, listed from>>
MCItems == {<<archive, -80, -70>>, <<archive, -8, 2>>, <<archive, 2, 12>>,
            <<flaky, 1, 3>>, <<feed, 20, 31>>}
MCSourceOf == [i \in MCItems |-> i[1]]
MCDateOf == [i \in MCItems |-> i[2]]
MCAppearsAt == [i \in MCItems |-> i[3]]

MCRefused == {<<feed, 20, 31>>}

MCDays == {0, 3, 16, 31}

\* The whole archive once, and every source by hand.
MCWide == {[stage |-> stg, only |-> MCSources, since |-> -FIRST_WINDOW] :
             stg \in {"ingest", "backfill"}}

\* docs/HANDOFF.md 145: one source, by hand.
MCOneSource == {[stage |-> "backfill", only |-> {flaky}, since |-> -FIRST_WINDOW]}

\* `tracker ingest` without --since.
MCDaily == {[stage |-> "ingest", only |-> MCSources, since |-> Newest]}

-----------------------------------------------------------------------------
(* What comments and docs say and the code keeps only in part (README         *)
(* section 5).                                                              *)

\* The record is up to date for every archive, also one that could not be read
\* for a while: a failed read does not fail the run, and the watermark moves on
\* (catch_up_cmd, 474: "Bring the record up to date").
RecordUpToDate ==
  pc = "idle" /\ disk.succeeded # Never =>
    \A i \in Items :
      /\ SourceOf[i] \in Archives
      /\ DateOf[i] >= Floor
      /\ DateOf[i] < disk.succeeded - OVERLAP
      => i \in disk.raw

\* No source ends the run of all (_ingest_one, 295: "one bad source must not end the
\* run"), not so when the database refuses one of its rows.
OneBadSource ==
  [][pc # "idle" /\ pc' = "idle" /\ faults' = faults => todo = {}]_vars

\* A stage that returns is recorded as succeeded (record, 104: "close it whatever
\* happens"; db.live, 50: "Nothing is lost on a reconnect"), not so when its
\* connection was replaced.
ReconnectIsHarmless ==
  [][pc = "sources" /\ todo = {} /\ faults' = faults => disk'.succeeded = now]_vars
=============================================================================
