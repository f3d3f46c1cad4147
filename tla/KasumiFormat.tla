---------------------------- MODULE KasumiFormat ----------------------------
(***************************************************************************)
(* The encrypted file: a header, with a block of metadata in version 2,    *)
(* and one authenticated piece per chunk of the file. KasumiCryptoService  *)
(* writes and reads it, the file routes of the server cut ranges out of    *)
(* it. A cipher is abstracted to which bytes open under which nonce.       *)
(*                                                                         *)
(* A stored file f has the size of its plaintext, the size of its metadata *)
(* (0: version 1) and the number of its bytes that the storage still has.  *)
(***************************************************************************)
EXTENDS Integers, FiniteSets, Sequences

CONSTANTS ChunkSize,  \* bytes of a chunk
          NonceSize,  \* bytes of the base nonce, the first of the header
          MacSize,    \* bytes of an authentication tag
          MetaIndex,  \* the index that stands for the metadata block
          Window,     \* bytes that are asked for to read a header
          MaxRange,   \* the longest range the server answers
          MaxWhole    \* the longest file the server answers without a range

ASSUME FormatAssumption ==
    /\ {ChunkSize, NonceSize, MacSize, MetaIndex, Window} \subseteq Nat \ {0}
    /\ {MaxRange, MaxWhole} \subseteq Nat
    /\ MaxRange >= ChunkSize + MacSize
    /\ Window >= NonceSize + 16 /\ Window <= MaxRange

Shorter(a, b) == IF a <= b THEN a ELSE b

-----------------------------------------------------------------------------
(* The layout that encryptFile writes.                                     *)

\* The base nonce and the size; version 2 adds the four magic bytes, the
\* size of the metadata, and the metadata with its tag.
HeaderSize(f) == IF f.meta = 0 THEN NonceSize + 8
                               ELSE NonceSize + 16 + MacSize + f.meta

ChunkIndices(n) == {i \in 0..(n \div ChunkSize) : i * ChunkSize < n}

\* The bytes of the i-th chunk, and where its tag and ciphertext begin.
PlainSize(i, n) == Shorter(ChunkSize, n - i * ChunkSize)

Start(i, f) == HeaderSize(f) + i * (MacSize + ChunkSize)

EncryptedSize(f) ==
    HeaderSize(f) + f.size + MacSize * Cardinality(ChunkIndices(f.size))

Whole(f) == f.kept = EncryptedSize(f)

\* What the last eight bytes of a chunk's nonce are XORed with: the bytes
\* of its index, the lowest first.
NonceDigits(i) ==
    LET q1 == i \div 256   q2 == q1 \div 256  q3 == q2 \div 256
        q4 == q3 \div 256  q5 == q4 \div 256  q6 == q5 \div 256
        q7 == q6 \div 256
    IN  <<i % 256, q1 % 256, q2 % 256, q3 % 256,
          q4 % 256, q5 % 256, q6 % 256, q7 % 256>>

\* The indices under which one call of encryptFile encrypts.
IndicesUsed(f) ==
    ChunkIndices(f.size) \cup (IF f.meta = 0 THEN {} ELSE {MetaIndex})

-----------------------------------------------------------------------------
(* Reading it.                                                             *)

\* The bytes from start on open under the nonce of index i: they are what
\* encryptFile made of that chunk, whole.
Opens(f, start, length, i) ==
    /\ i \in ChunkIndices(f.size)
    /\ start = Start(i, f) /\ length = MacSize + PlainSize(i, f.size)
    /\ start + length <= f.kept

\* A blob too short for the magic bytes is taken for version 1.
SeenMeta(f, bytes) == IF bytes >= NonceSize + 16 THEN f.meta ELSE 0

\* extractMetadata on the first bytes of the file.
HeaderReadable(f) ==
    LET bytes == Shorter(Window, f.kept)
    IN  /\ bytes >= NonceSize + 8
        /\ SeenMeta(f, bytes) # 0 => bytes >= HeaderSize(f)

DataOffset(f, bytes) == HeaderSize([f EXCEPT !.meta = SeenMeta(f, bytes)])

\* The loop of decryptFile: piece after piece while bytes are left, each of
\* the size that the size in the header leaves.
Decrypted(f) ==
    LET Piece(s, i) ==
            LET plain == Shorter(ChunkSize, f.size - s.total)
            IN  [at    |-> s.at + MacSize + plain,
                 total |-> s.total + plain,
                 ok    |-> Opens(f, s.at, MacSize + plain, i)]
        rounds == f.size \div ChunkSize + 2
        round[i \in 0..rounds] ==
            IF i = 0
            THEN [at |-> DataOffset(f, f.kept), total |-> 0,
                  ok |-> f.kept >= NonceSize + 8]
            ELSE IF round[i - 1].ok /\ round[i - 1].at < f.kept
                 THEN Piece(round[i - 1], i - 1) ELSE round[i - 1]
    IN  round[rounds]

\* Mutant of DecryptFile: the sizes are not compared at the end.
DecryptFileAny(f) == Decrypted(f).ok

\* decryptFile succeeds if every piece opens and the sizes agree.
DecryptFile(f) == Decrypted(f).ok /\ Decrypted(f).total = f.size

\* The bytes that the server sends for "bytes=start-end", 0 when it refuses.
ServedRange(f, start, end) ==
    LET last   == Shorter(end, f.kept - 1)
        length == last - start + 1
    IN  IF start < f.kept /\ start <= last /\ length <= MaxRange
        THEN length ELSE 0

ServedWhole(f) == f.kept <= MaxWhole
=============================================================================
