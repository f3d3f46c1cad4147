-------------------------- MODULE MCStorageLedger --------------------------
(***************************************************************************)
(* Instances of the storage ledger for TLC.                                *)
(***************************************************************************)
EXTENDS StorageLedger, TLC

Symmetry == Permutations(FileIds) \cup Permutations(Collectors)
               \cup Permutations(Folders) \cup Permutations(Names)
=============================================================================
