---------------------------- MODULE MCDownloads ----------------------------
(***************************************************************************)
(* Instances of the downloads for TLC, with the sizes of the code.         *)
(***************************************************************************)
EXTENDS Downloads

\* No chunk, one, one that is full, two that are, and a byte more.
MCSizes == {0, 1, ChunkSize, 2 * ChunkSize, 2 * ChunkSize + 1}

\* Version 1, a thumbnail, and the metadata that just fits the first range
\* and that just does not.
MCMetas == {0, 900, Window - NonceSize - 16 - MacSize,
            Window - NonceSize - 16 - MacSize + 1}

\* The whole file, and what a loss leaves of it: one byte less, the header
\* cut before and after the magic bytes, no chunk, one chunk.
MCKept(f) ==
    {EncryptedSize(f)} \cup
    ({EncryptedSize(f) - 1, 0, NonceSize, NonceSize + 8, NonceSize + 15,
      NonceSize + 16, HeaderSize(f), Start(1, f)} \cap 0..EncryptedSize(f))

MCFiles ==
    UNION {{[f EXCEPT !.kept = k] : k \in MCKept(f)} :
        f \in {[size |-> n, meta |-> m, kept |-> 0] :
                   n \in MCSizes, m \in MCMetas}}
=============================================================================
