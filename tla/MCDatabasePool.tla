--------------------------- MODULE MCDatabasePool ---------------------------
(***************************************************************************)
(* Instances of the connection pool for TLC.                               *)
(***************************************************************************)
EXTENDS DatabasePool, TLC

Symmetry == Permutations(Threads \ Nested)
=============================================================================
