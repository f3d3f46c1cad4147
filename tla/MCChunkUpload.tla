--------------------------- MODULE MCChunkUpload ---------------------------
(***************************************************************************)
(* Instances of the chunked upload for TLC.                                *)
(***************************************************************************)
EXTENDS ChunkUpload, TLC

Symmetry == Permutations(FileIds) \cup Permutations(Uploads)
               \cup Permutations(Recoveries) \cup Permutations(Collectors)
=============================================================================
