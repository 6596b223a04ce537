----------------------------- MODULE MoveEvents -----------------------------
(***************************************************************************)
(* What deduplication promises.  The reports in the database are           *)
(* partitioned into events.  A report enters as an event of its own, a     *)
(* merge only joins events, and a reextract or an erasure forgets reports: *)
(* no report is ever counted in two events, moved from one event to        *)
(* another, or lost by a merge.                                            *)
(***************************************************************************)
CONSTANT Reports    \* the moves extraction reads out of the items

VARIABLE events     \* set of disjoint nonempty sets of reports

Known == UNION events

Init == events = {}

Enter(r) == r \notin Known /\ events' = events \cup {{r}}

\* Every event of the result is a union of events of before.
Join ==
  /\ UNION events' = Known
  /\ \A e \in events' : e # {} /\ \A f \in events : f \subseteq e \/ f \cap e = {}

Forget(gone) == events' = {e \ gone : e \in events} \ {{}}

Next == \/ \E r \in Reports : Enter(r)
        \/ Join
        \/ \E gone \in SUBSET Reports : Forget(gone)

Spec == Init /\ [][Next]_events
=============================================================================
