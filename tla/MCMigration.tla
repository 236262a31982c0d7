---------------------------- MODULE MCMigration ----------------------------
(* Two swtpm processes around one state directory, for TLC.                *)
EXTENDS Migration

CONSTANTS a, b

MCProcs == {a, b}
=============================================================================
