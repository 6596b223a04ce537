------------------------- MODULE MCMigrationRunner -------------------------
(***************************************************************************)
(* Two runners, two files, one of which may be edited once: enough for a *)
(* runner to read before the other commits, to hold an older checkout or   *)
(* an edited one, to stop at a target and to be cut short at any step.     *)
(***************************************************************************)
EXTENDS MigrationRunner

MCTargets == {1}
=============================================================================
