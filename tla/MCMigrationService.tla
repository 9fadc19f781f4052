------------------------- MODULE MCMigrationService -------------------------
(***************************************************************************)
(* Instances of MigrationService for TLC: requests that compete for a key.  *)
(***************************************************************************)
EXTENDS MigrationService

CONSTANTS j1, j2, k1  \* model values

OneKey == [j \in Jobs |-> k1]
=============================================================================
