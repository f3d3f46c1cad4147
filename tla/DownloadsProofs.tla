--------------------------- MODULE DownloadsProofs ---------------------------
(***************************************************************************)
(* Proofs about KasumiFormat and Downloads.                                *)
(*                                                                         *)
(* The layout of an encrypted file, for every size of file, chunk, nonce   *)
(* and tag: its pieces tile it, no two pieces of one encryption are sealed *)
(* under the same nonce, and decryptFile accepts the file exactly when all *)
(* of it is there. And the downloads, for every set of files, way of       *)
(* fetching and number of loops: what is saved is the whole file, the      *)
(* panel tells what happened, and a download fails only for a cause.       *)
(***************************************************************************)
EXTENDS Downloads, FiniteSetTheorems, WellFoundedInduction, TLAPS

-----------------------------------------------------------------------------
(* The encrypted file. *)

Stored == [size : Nat, meta : Nat, kept : Nat]

LEMMA HeaderIsNat == \A f \in Stored : HeaderSize(f) \in Nat
    BY FormatAssumption DEF HeaderSize, Stored

\* An index of a chunk is one that begins within the file.
LEMMA IndexWithin ==
    ASSUME NEW n \in Nat, NEW i \in ChunkIndices(n)
    PROVE  /\ i \in Nat /\ i * ChunkSize \in Nat /\ i * ChunkSize < n
           /\ PlainSize(i, n) \in 1..ChunkSize
           /\ PlainSize(i, n) <= n - i * ChunkSize
<1>1. ChunkSize \in Nat /\ ChunkSize > 0
    BY FormatAssumption
<1>2. i \in Nat /\ i * ChunkSize < n
    BY <1>1 DEF ChunkIndices
<1>3. i * ChunkSize \in Nat
    BY <1>1, <1>2
<1>. QED
    BY <1>1, <1>2, <1>3 DEF PlainSize, Shorter

\* When the first k are chunks of the file and they reach its end, there are
\* no others: this is how often the loops of encryptFile and of the download
\* go round.
LEMMA ChunksCounted ==
    ASSUME NEW n \in Nat, NEW k \in Nat, n <= k * ChunkSize,
           \A i \in 0..(k - 1) : i \in ChunkIndices(n)
    PROVE  ChunkIndices(n) = 0..(k - 1) /\ Cardinality(ChunkIndices(n)) = k
<1>1. ChunkSize \in Nat /\ ChunkSize > 0
    BY FormatAssumption
<1>2. ASSUME NEW i \in ChunkIndices(n) PROVE i \in 0..(k - 1)
    <2>1. i \in Nat /\ i * ChunkSize < n
        BY IndexWithin
    <2>2. CASE i >= k
        <3>1. i * ChunkSize >= k * ChunkSize
            BY <1>1, <2>1, <2>2
        <3>. QED
            BY <1>1, <2>1, <3>1
    <2>. QED
        BY <2>1, <2>2
<1>3. ChunkIndices(n) = 0..(k - 1)
    BY <1>2
<1>4. Cardinality(0..(k - 1)) = k
    BY FS_Interval
<1>. QED
    BY <1>3, <1>4

\* Where one piece ends the next begins: encryptFile appends them, and the
\* downloads add up the same offsets.
THEOREM PiecesTile ==
    ASSUME NEW f \in Stored, NEW i \in ChunkIndices(f.size)
    PROVE  /\ i + 1 \in ChunkIndices(f.size) =>
                Start(i, f) + MacSize + PlainSize(i, f.size) = Start(i + 1, f)
           /\ f.size <= (i + 1) * ChunkSize =>
                Start(i, f) + MacSize + PlainSize(i, f.size)
                    = HeaderSize(f) + f.size + MacSize * (i + 1)
<1>1. /\ ChunkSize \in Nat /\ MacSize \in Nat /\ f.size \in Nat
      /\ HeaderSize(f) \in Nat
    BY FormatAssumption, HeaderIsNat DEF Stored
<1>2. i \in Nat
    BY <1>1, IndexWithin
<1>3. /\ (i + 1) * ChunkSize = i * ChunkSize + ChunkSize
      /\ i * ChunkSize \in Nat /\ i * MacSize \in Nat
      /\ (i + 1) * MacSize = i * MacSize + MacSize
      /\ MacSize * (i + 1) = i * MacSize + MacSize
      /\ i * (MacSize + ChunkSize) = i * MacSize + i * ChunkSize
      /\ (i + 1) * (MacSize + ChunkSize)
             = i * MacSize + i * ChunkSize + MacSize + ChunkSize
    BY <1>1, <1>2, SMTT(30)
<1>4. ASSUME i + 1 \in ChunkIndices(f.size)
      PROVE  Start(i, f) + MacSize + PlainSize(i, f.size) = Start(i + 1, f)
    <2>1. (i + 1) * ChunkSize < f.size
        BY <1>1, <1>4, IndexWithin
    <2>2. PlainSize(i, f.size) = ChunkSize
        BY <1>1, <1>3, <2>1 DEF PlainSize, Shorter
    <2>. QED
        BY <1>1, <1>3, <2>2 DEF Start
<1>5. ASSUME f.size <= (i + 1) * ChunkSize
      PROVE  Start(i, f) + MacSize + PlainSize(i, f.size)
                 = HeaderSize(f) + f.size + MacSize * (i + 1)
    <2>1. PlainSize(i, f.size) = f.size - i * ChunkSize
        BY <1>1, <1>3, <1>5 DEF PlainSize, Shorter
    <2>. QED
        BY <1>1, <1>3, <2>1 DEF Start
<1>. QED
    BY <1>4, <1>5

\* A byte and the rest of a number determine it.
LEMMA BytesDetermine ==
    \A a, b \in Nat :
        a % 256 = b % 256 /\ a \div 256 = b \div 256 => a = b
    BY SMTT(30)

LEMMA RestIsNat == \A a \in Nat : a \div 256 \in Nat
    BY SMTT(30)

\* Eight bytes hold every number below 2^64.
LEMMA LastByte ==
    ASSUME NEW a \in Nat, NEW m \in Nat, a < m * 256
    PROVE  a \div 256 < m
    BY SMTT(30)

\* The nonces of one encryption differ: two chunks, and a chunk and the
\* metadata, are never sealed under the same one: deriveChunkNonce keeps all
\* of an index of 64 bits.
THEOREM NoncesDiffer ==
    ASSUME NEW i \in Nat, NEW j \in Nat, i # j,
           i < 18446744073709551616, j < 18446744073709551616
    PROVE  NonceDigits(i) # NonceDigits(j)
<1>. SUFFICES ASSUME NonceDigits(i) = NonceDigits(j) PROVE FALSE
    OBVIOUS
<1>. DEFINE R(a) == a \div 256
            i1 == R(i)   i2 == R(i1)  i3 == R(i2)  i4 == R(i3)
            i5 == R(i4)  i6 == R(i5)  i7 == R(i6)  i8 == R(i7)
            j1 == R(j)   j2 == R(j1)  j3 == R(j2)  j4 == R(j3)
            j5 == R(j4)  j6 == R(j5)  j7 == R(j6)  j8 == R(j7)
<1>1. /\ i % 256 = j % 256 /\ i1 % 256 = j1 % 256 /\ i2 % 256 = j2 % 256
      /\ i3 % 256 = j3 % 256 /\ i4 % 256 = j4 % 256 /\ i5 % 256 = j5 % 256
      /\ i6 % 256 = j6 % 256 /\ i7 % 256 = j7 % 256
    BY DEF NonceDigits
<1>2. /\ {i1, i2, i3, i4, i5, i6, i7, i8} \subseteq Nat
      /\ {j1, j2, j3, j4, j5, j6, j7, j8} \subseteq Nat
    BY RestIsNat
<1>3. i8 = j8
    <2>1. i1 < 72057594037927936 /\ j1 < 72057594037927936
        BY LastByte
    <2>2. i2 < 281474976710656 /\ j2 < 281474976710656
        BY <1>2, <2>1, LastByte
    <2>3. i3 < 1099511627776 /\ j3 < 1099511627776
        BY <1>2, <2>2, LastByte
    <2>4. i4 < 4294967296 /\ j4 < 4294967296
        BY <1>2, <2>3, LastByte
    <2>5. i5 < 16777216 /\ j5 < 16777216
        BY <1>2, <2>4, LastByte
    <2>6. i6 < 65536 /\ j6 < 65536
        BY <1>2, <2>5, LastByte
    <2>7. i7 < 256 /\ j7 < 256
        BY <1>2, <2>6, LastByte
    <2>8. i8 < 1 /\ j8 < 1
        BY <1>2, <2>7, LastByte
    <2>. QED
        BY <1>2, <2>8
<1>4. i7 = j7 /\ i6 = j6
    <2>1. i7 = j7
        BY <1>1, <1>2, <1>3, BytesDetermine
    <2>. QED
        BY <1>1, <1>2, <2>1, BytesDetermine
<1>5. i5 = j5 /\ i4 = j4
    <2>1. i5 = j5
        BY <1>1, <1>2, <1>4, BytesDetermine
    <2>. QED
        BY <1>1, <1>2, <2>1, BytesDetermine
<1>6. i3 = j3 /\ i2 = j2
    <2>1. i3 = j3
        BY <1>1, <1>2, <1>5, BytesDetermine
    <2>. QED
        BY <1>1, <1>2, <2>1, BytesDetermine
<1>7. i1 = j1
    BY <1>1, <1>2, <1>6, BytesDetermine
<1>. QED
    BY <1>1, <1>7, BytesDetermine

\* One call of encryptFile seals nothing twice under one nonce, the metadata
\* included, unless the file has more chunks than the metadata's index says.
THEOREM NoNonceTwice ==
    ASSUME NEW f \in Stored, f.size <= MetaIndex * ChunkSize,
           MetaIndex < 18446744073709551616,
           NEW i \in IndicesUsed(f), NEW j \in IndicesUsed(f), i # j
    PROVE  NonceDigits(i) # NonceDigits(j)
<1>1. f.size \in Nat /\ MetaIndex \in Nat /\ ChunkSize \in Nat
    BY FormatAssumption DEF Stored
<1>2. ASSUME NEW k \in ChunkIndices(f.size) PROVE k \in Nat /\ k < MetaIndex
    <2>1. k \in Nat /\ k * ChunkSize < f.size
        BY <1>1, IndexWithin
    <2>2. CASE k >= MetaIndex
        <3>1. k * ChunkSize >= MetaIndex * ChunkSize
            BY <1>1, <2>1, <2>2
        <3>. QED
            BY <1>1, <2>1, <3>1
    <2>. QED
        BY <1>1, <2>1, <2>2
<1>3. ASSUME NEW k \in IndicesUsed(f)
      PROVE  k \in Nat /\ k < 18446744073709551616
    BY <1>1, <1>2 DEF IndicesUsed
<1>. QED
    BY <1>3, NoncesDiffer

-----------------------------------------------------------------------------
(* Induction, on sets of numbers.                                          *)

LEMMA LeastNat ==
    ASSUME NEW T, T \subseteq Nat, NEW n \in T
    PROVE  \E m \in T : \A k \in T : m <= k
<1>. DEFINE R == {ss \in Nat \X Nat : ss[1] < ss[2]}
<1>1. IsWellFoundedOn(R, Nat)
    BY NatLessThanWellFounded DEF OpToRel
<1>2. \A j, k \in Nat : j < k => <<j, k>> \in R
    OBVIOUS
<1>. HIDE DEF R
<1>3. PICK m \in T : \A k \in T : ~ (<<k, m>> \in R)
    BY <1>1, WFMin
<1>4. ASSUME NEW k \in T PROVE m <= k
    <2>1. m \in Nat /\ k \in Nat /\ ~(k < m)
        BY <1>2, <1>3
    <2>. QED
        BY <2>1
<1>. QED
    BY <1>4

LEMMA SetInduction ==
    ASSUME NEW S, 0 \in S, \A n \in Nat : n \in S => n + 1 \in S
    PROVE  Nat \subseteq S
<1>. SUFFICES ASSUME NEW n \in Nat \ S PROVE FALSE
    OBVIOUS
<1>1. PICK m \in Nat \ S : \A k \in Nat \ S : m <= k
    BY LeastNat
<1>2. m - 1 \in Nat /\ m - 1 \in S
    BY <1>1
<1>. QED
    BY <1>2

-----------------------------------------------------------------------------
(* The loop of decryptFile.                                                *)

\* One round of it, and what it begins with.
Round(f, s, i) ==
    LET plain == Shorter(ChunkSize, f.size - s.total)
    IN  IF s.ok /\ s.at < f.kept
        THEN [at    |-> s.at + MacSize + plain,
              total |-> s.total + plain,
              ok    |-> Opens(f, s.at, MacSize + plain, i)]
        ELSE s

First(f) == [at |-> DataOffset(f, f.kept), total |-> 0,
             ok |-> f.kept >= NonceSize + 8]

AreRounds(f, n, g) ==
    g = [i \in 0..n |-> IF i = 0 THEN First(f) ELSE Round(f, g[i - 1], i - 1)]

\* The definition of the rounds by recursion has a solution.
LEMMA RoundsExist ==
    ASSUME NEW f PROVE \A n \in Nat : \E g : AreRounds(f, n, g)
<1>. DEFINE S == {n \in Nat : \E g : AreRounds(f, n, g)}
<1>1. 0 \in S
    <2>. DEFINE g == [i \in 0..0 |-> First(f)]
    <2>1. AreRounds(f, 0, g)
        BY DEF AreRounds
    <2>. QED
        BY <2>1
<1>2. ASSUME NEW n \in Nat, n \in S PROVE n + 1 \in S
    <2>1. PICK g : AreRounds(f, n, g)
        BY <1>2
    <2>. DEFINE h == [i \in 0..(n + 1) |-> IF i = n + 1 THEN Round(f, g[n], n) ELSE g[i]]
    <2>2. \A i \in 0..n : g[i] = IF i = 0 THEN First(f) ELSE Round(f, g[i - 1], i - 1)
        BY <2>1 DEF AreRounds
    <2>3. ASSUME NEW i \in 0..(n + 1)
          PROVE  h[i] = IF i = 0 THEN First(f) ELSE Round(f, h[i - 1], i - 1)
        <3>1. CASE i = 0
            BY <2>2, <3>1
        <3>2. CASE i # 0 /\ i # n + 1
            <4>1. i \in 0..n /\ i - 1 \in 0..n /\ h[i] = g[i] /\ h[i - 1] = g[i - 1]
                BY <3>2
            <4>. QED
                BY <2>2, <3>2, <4>1
        <3>3. CASE i = n + 1
            <4>1. h[i] = Round(f, g[n], n) /\ i - 1 = n /\ h[n] = g[n] /\ i # 0
                BY <3>3
            <4>. QED
                BY <4>1
        <3>. QED
            BY <3>1, <3>2, <3>3
    <2>4. h = [i \in 0..(n + 1) |-> h[i]]
        OBVIOUS
    <2>. HIDE DEF h
    <2>5. AreRounds(f, n + 1, h)
        BY <2>3, <2>4 DEF AreRounds
    <2>. QED
        BY <2>5
<1>. HIDE DEF S
<1>3. Nat \subseteq S
    BY <1>1, <1>2, SetInduction
<1>. QED
    BY <1>3 DEF S

LastRound(f) == f.size \div ChunkSize + 2

LEMMA DecryptedRounds ==
    ASSUME NEW f \in Stored
    PROVE  \E g : AreRounds(f, LastRound(f), g) /\ Decrypted(f) = g[LastRound(f)]
<1>1. LastRound(f) \in Nat
    BY FormatAssumption DEF LastRound, Stored
<1>. DEFINE g == CHOOSE g : AreRounds(f, LastRound(f), g)
<1>2. AreRounds(f, LastRound(f), g)
    BY <1>1, RoundsExist
<1>3. Decrypted(f) = g[LastRound(f)]
    BY DEF Decrypted, AreRounds, Round, First, LastRound
<1>. QED
    BY <1>2, <1>3

\* After m rounds the loop has decrypted the first m chunks.
Stage(f, m, s) ==
    /\ s.total = Shorter(f.size, m * ChunkSize)
    /\ s.at = HeaderSize(f) + m * MacSize + s.total
    /\ \A k \in 0..(m - 1) : k \in ChunkIndices(f.size)

LEMMA Sizes ==
    ASSUME NEW f \in Stored
    PROVE  /\ ChunkSize \in Nat /\ ChunkSize > 0 /\ MacSize \in Nat /\ MacSize > 0
           /\ NonceSize \in Nat /\ f.size \in Nat /\ f.kept \in Nat /\ f.meta \in Nat
           /\ HeaderSize(f) \in Nat /\ f.size \div ChunkSize \in Nat
           /\ HeaderSize(f) >= NonceSize + 8
           /\ f.meta # 0 => HeaderSize(f) >= NonceSize + 16
<1>1. /\ ChunkSize \in Nat /\ ChunkSize > 0 /\ MacSize \in Nat /\ MacSize > 0
      /\ NonceSize \in Nat /\ f.size \in Nat /\ f.kept \in Nat /\ f.meta \in Nat
      /\ HeaderSize(f) \in Nat
    BY FormatAssumption, HeaderIsNat DEF Stored
<1>2. /\ HeaderSize(f) >= NonceSize + 8
      /\ f.meta # 0 => HeaderSize(f) >= NonceSize + 16
    BY <1>1 DEF HeaderSize
<1>. QED
    BY <1>1, <1>2

\* The index of a chunk, and how many there are before it.
LEMMA IndexIs ==
    ASSUME NEW n \in Nat, NEW m \in Nat
    PROVE  m \in ChunkIndices(n) <=> m * ChunkSize < n
<1>1. ChunkSize \in Nat /\ ChunkSize > 0
    BY FormatAssumption
<1>2. ASSUME m * ChunkSize < n PROVE m <= n \div ChunkSize
    <2>. DEFINE q == n \div ChunkSize
    <2>1. q \in Nat /\ n < (q + 1) * ChunkSize
        BY <1>1, SMTT(30)
    <2>. HIDE DEF q
    <2>2. CASE m >= q + 1
        <3>1. m * ChunkSize >= (q + 1) * ChunkSize
            BY <1>1, <2>1, <2>2
        <3>2. m * ChunkSize \in Nat /\ (q + 1) * ChunkSize \in Nat
            BY <1>1, <2>1
        <3>. QED
            BY <1>2, <2>1, <3>1, <3>2
    <2>. QED
        BY <2>1, <2>2 DEF q
<1>3. n \div ChunkSize \in Nat
    BY <1>1
<1>. QED
    BY <1>1, <1>2, <1>3 DEF ChunkIndices

LEMMA ChunksAtLeast ==
    ASSUME NEW n \in Nat, NEW m \in Nat, \A k \in 0..m : k \in ChunkIndices(n)
    PROVE  Cardinality(ChunkIndices(n)) \in Nat /\ Cardinality(ChunkIndices(n)) >= m + 1
<1>1. n \div ChunkSize \in Nat
    BY FormatAssumption
<1>2. IsFiniteSet(ChunkIndices(n))
    <2>1. IsFiniteSet(0..(n \div ChunkSize))
        BY <1>1, FS_Interval
    <2>. QED
        BY <2>1, FS_Subset DEF ChunkIndices
<1>3. Cardinality(0..m) = m + 1
    BY FS_Interval
<1>4. 0..m \subseteq ChunkIndices(n)
    OBVIOUS
<1>. QED
    BY <1>2, <1>3, <1>4, FS_Subset, FS_CardinalityType

\* A round takes the loop to the next stage; its piece opens if all of it is
\* there.
LEMMA NextStage ==
    ASSUME NEW f \in Stored, NEW m \in Nat, NEW s, Stage(f, m, s), s.ok,
           s.at < f.kept, m \in ChunkIndices(f.size)
    PROVE  LET t == Round(f, s, m)
           IN  Stage(f, m + 1, t) /\ (t.ok <=> t.at <= f.kept)
<1>. DEFINE c == m * ChunkSize
            plain == Shorter(ChunkSize, f.size - s.total)
            t == Round(f, s, m)
<1>1. /\ m * ChunkSize \in Nat /\ m * MacSize \in Nat
      /\ (m + 1) * ChunkSize = m * ChunkSize + ChunkSize
      /\ (m + 1) * MacSize = m * MacSize + MacSize
      /\ m * (MacSize + ChunkSize) = m * MacSize + m * ChunkSize
      /\ (m + 1) * ChunkSize \in Nat
    BY Sizes, SMTT(30)
<1>2. c < f.size /\ c \in Nat
    BY <1>1, IndexWithin, Sizes
<1>3. s.total = c /\ s.at = HeaderSize(f) + m * MacSize + c
    BY <1>1, <1>2, Sizes DEF Stage, Shorter
<1>4. plain = PlainSize(m, f.size) /\ plain \in Nat /\ plain > 0
    BY <1>2, <1>3, Sizes DEF PlainSize, Shorter
<1>5. s.at = Start(m, f)
    BY <1>1, <1>3, Sizes DEF Start
<1>6. /\ t.at = s.at + MacSize + plain /\ t.total = s.total + plain
      /\ t.ok = Opens(f, s.at, MacSize + plain, m)
    BY DEF Round
<1>7. t.ok <=> t.at <= f.kept
    <2>1. s.at \in Nat
        BY <1>1, <1>2, <1>3, Sizes
    <2>2. s.at + (MacSize + plain) = s.at + MacSize + plain
        BY <1>4, <2>1, Sizes
    <2>. HIDE DEF plain, t
    <2>. QED
        BY <1>4, <1>5, <1>6, <2>2 DEF Opens
<1>8. t.total = Shorter(f.size, (m + 1) * ChunkSize)
    BY <1>1, <1>2, <1>3, <1>6, Sizes DEF Shorter
<1>9. t.at = HeaderSize(f) + (m + 1) * MacSize + t.total
    <2>. HIDE DEF plain, t, c
    <2>. QED
        BY <1>1, <1>2, <1>3, <1>4, <1>6, Sizes
<1>10. \A k \in 0..m : k \in ChunkIndices(f.size)
    BY DEF Stage
<1>. QED
    BY <1>7, <1>8, <1>9, <1>10 DEF Stage

\* The loop has gone as far as the bytes and the pieces that open.
Gone(f, i, s) ==
    \/ s = First(f) /\ (i = 0 \/ ~(s.at < f.kept))
    \/ \E m \in 1..i : /\ Stage(f, m, s) /\ s.at <= f.kept
                       /\ m = i \/ ~(s.at < f.kept)

LEMMA RoundsGo ==
    ASSUME NEW f \in Stored, NEW n \in Nat, NEW g, AreRounds(f, n, g)
    PROVE  \A i \in 0..n : g[i].ok => Gone(f, i, g[i])
<1>. DEFINE S == {i \in Nat : i <= n => (g[i].ok => Gone(f, i, g[i]))}
<1>0. \A i \in 0..n : g[i] = IF i = 0 THEN First(f) ELSE Round(f, g[i - 1], i - 1)
    BY DEF AreRounds
<1>1. 0 \in S
    BY <1>0 DEF Gone
<1>2. ASSUME NEW i \in Nat, i \in S PROVE i + 1 \in S
    <2>. SUFFICES ASSUME i + 1 <= n, g[i + 1].ok PROVE Gone(f, i + 1, g[i + 1])
        OBVIOUS
    <2>. DEFINE s == g[i]
                t == g[i + 1]
    <2>1. t = Round(f, s, i)
        <3>1. i + 1 \in 0..n /\ i + 1 # 0 /\ (i + 1) - 1 = i
            OBVIOUS
        <3>. QED
            BY <1>0, <3>1
    <2>2. s.ok
        BY <2>1 DEF Round
    <2>3. Gone(f, i, s)
        BY <1>2, <2>2
    <2>. HIDE DEF s, t
    <2>4. CASE ~(s.at < f.kept)
        <3>1. t = s
            BY <2>1, <2>4 DEF Round
        <3>. QED
            BY <2>3, <2>4, <3>1 DEF Gone, t
    <2>5. CASE s.at < f.kept
        <3>1. \/ i = 0 /\ s = First(f)
              \/ i > 0 /\ Stage(f, i, s)
            BY <2>3, <2>5 DEF Gone
        <3>2. t.ok
            BY DEF t
        <3>3. i \in ChunkIndices(f.size) /\ s.at = Start(i, f)
            BY <2>1, <2>2, <2>5, <3>2 DEF Round, Opens
        <3>4. Stage(f, i, s)
            <4>1. CASE i = 0 /\ s = First(f)
                <5>1. s.total = 0 /\ s.at = HeaderSize(f)
                    BY <3>3, <4>1, Sizes DEF First, Start
                <5>. QED
                    BY <4>1, <5>1, Sizes DEF Stage, Shorter
            <4>. QED
                BY <3>1, <4>1
        <3>5. Stage(f, i + 1, t) /\ t.at <= f.kept
            BY <2>1, <2>2, <2>5, <3>2, <3>3, <3>4, NextStage
        <3>. QED
            BY <3>5 DEF Gone, t
    <2>. QED
        BY <2>4, <2>5
<1>. HIDE DEF S
<1>3. Nat \subseteq S
    BY <1>1, <1>2, SetInduction
<1>. QED
    BY <1>3 DEF S

\* What decryptFile accepts is whole, unless it is empty: an empty file has
\* no piece that would be opened.
LEMMA AcceptedIsWhole ==
    ASSUME NEW f \in Stored, f.size > 0, DecryptFile(f)
    PROVE  Whole(f)
<1>. DEFINE n == LastRound(f)
<1>1. n \in Nat /\ n = f.size \div ChunkSize + 2
    BY Sizes DEF LastRound
<1>2. PICK g : AreRounds(f, n, g) /\ Decrypted(f) = g[n]
    BY DecryptedRounds
<1>. DEFINE s == g[n]
<1>3. s.ok /\ s.total = f.size
    BY <1>2 DEF DecryptFile
<1>. HIDE DEF n
<1>4. Gone(f, n, s)
    BY <1>1, <1>2, <1>3, RoundsGo
<1>. HIDE DEF s
<1>5. s # First(f)
    BY <1>3 DEF First
<1>6. PICK m \in 1..n : Stage(f, m, s) /\ s.at <= f.kept /\ (m = n \/ ~(s.at < f.kept))
    BY <1>4, <1>5 DEF Gone
<1>7. f.size <= m * ChunkSize
    <2>1. m * ChunkSize \in Nat
        BY <1>1, <1>6, Sizes
    <2>. QED
        BY <1>3, <1>6, <2>1, Sizes DEF Stage, Shorter
<1>8. Cardinality(ChunkIndices(f.size)) = m
    BY <1>1, <1>6, <1>7, ChunksCounted, Sizes DEF Stage
<1>9. m # n
    <2>1. m - 1 \in ChunkIndices(f.size)
        BY <1>1, <1>6 DEF Stage
    <2>2. m - 1 <= f.size \div ChunkSize
        BY <2>1, Sizes DEF ChunkIndices
    <2>. QED
        BY <1>1, <2>2, Sizes
<1>10. s.at = HeaderSize(f) + f.size + MacSize * m
    <2>1. m * MacSize = MacSize * m /\ m * MacSize \in Nat
        BY <1>1, <1>6, Sizes
    <2>2. s.at = HeaderSize(f) + m * MacSize + f.size
        BY <1>3, <1>6 DEF Stage
    <2>. QED
        BY <2>1, <2>2, Sizes
<1>11. s.at \in Nat
    <2>1. MacSize * m \in Nat
        BY <1>1, <1>6, Sizes
    <2>. QED
        BY <1>10, <2>1, Sizes
<1>12. s.at = f.kept
    BY <1>6, <1>9, <1>11, Sizes
<1>. QED
    BY <1>8, <1>10, <1>12 DEF Whole, EncryptedSize

\* The header of a whole file is where decryptFile looks for the first piece.
LEMMA HeaderFound ==
    ASSUME NEW f \in Stored, NEW n \in Nat, f.meta # 0 => n >= NonceSize + 16
    PROVE  DataOffset(f, n) = HeaderSize(f)
<1>1. SeenMeta(f, n) = f.meta
    BY Sizes DEF SeenMeta
<1>2. [f EXCEPT !.meta = f.meta] = f
    BY DEF Stored
<1>. QED
    BY <1>1, <1>2 DEF DataOffset

LEMMA RoundsReach ==
    ASSUME NEW f \in Stored, NEW n \in Nat, NEW g, AreRounds(f, n, g), Whole(f)
    PROVE  \A i \in 0..n :
               /\ g[i].ok
               /\ \E m \in Nat : Stage(f, m, g[i]) /\ (m = i \/ f.size <= m * ChunkSize)
<1>. DEFINE P(i) == /\ g[i].ok
                    /\ \E m \in Nat : /\ Stage(f, m, g[i])
                                      /\ m = i \/ f.size <= m * ChunkSize
            S == {i \in Nat : i <= n => P(i)}
            count == Cardinality(ChunkIndices(f.size))
<1>0. \A i \in 0..n : g[i] = IF i = 0 THEN First(f) ELSE Round(f, g[i - 1], i - 1)
    BY DEF AreRounds
<1>1. ASSUME NEW m \in Nat, m \in ChunkIndices(f.size),
             \A k \in 0..(m - 1) : k \in ChunkIndices(f.size)
      PROVE  count \in Nat /\ count >= m + 1
    <2>1. \A k \in 0..m : k \in ChunkIndices(f.size)
        BY <1>1
    <2>. QED
        BY <2>1, ChunksAtLeast, Sizes
<1>2. f.kept = HeaderSize(f) + f.size + MacSize * count
    BY DEF Whole, EncryptedSize
<1>3. count \in Nat /\ MacSize * count \in Nat
    <2>1. IsFiniteSet(ChunkIndices(f.size))
        <3>1. IsFiniteSet(0..(f.size \div ChunkSize))
            BY Sizes, FS_Interval
        <3>. QED
            BY <3>1, FS_Subset DEF ChunkIndices
    <2>2. count \in Nat
        BY <2>1, FS_CardinalityType
    <2>. QED
        BY <2>2, Sizes
<1>4. P(0)
    <2>1. DataOffset(f, f.kept) = HeaderSize(f)
        <3>1. f.meta # 0 => f.kept >= NonceSize + 16
            BY <1>2, <1>3, Sizes
        <3>. QED
            BY <3>1, HeaderFound, Sizes
    <2>2. g[0] = First(f)
        BY <1>0
    <2>3. g[0].ok
        <3>1. f.kept >= NonceSize + 8
            BY <1>2, <1>3, Sizes
        <3>2. First(f).ok = (f.kept >= NonceSize + 8)
            BY DEF First
        <3>. QED
            BY <2>2, <3>1, <3>2, Zenon
    <2>4. Stage(f, 0, g[0])
        BY <2>1, <2>2, Sizes DEF Stage, First, Shorter
    <2>. QED
        BY <2>3, <2>4
<1>5. ASSUME NEW i \in Nat, i + 1 <= n, P(i) PROVE P(i + 1)
    <2>. DEFINE s == g[i]
                t == g[i + 1]
    <2>1. t = Round(f, s, i)
        <3>1. i + 1 \in 0..n /\ i + 1 # 0 /\ (i + 1) - 1 = i
            BY <1>5
        <3>. QED
            BY <1>0, <3>1
    <2>2. PICK m \in Nat : s.ok /\ Stage(f, m, s) /\ (m = i \/ f.size <= m * ChunkSize)
        BY <1>5
    <2>. HIDE DEF s, t, P
    <2>3. /\ m * ChunkSize \in Nat /\ m * MacSize \in Nat
          /\ s.total = Shorter(f.size, m * ChunkSize)
          /\ s.at = HeaderSize(f) + m * MacSize + s.total
        BY <2>2, Sizes DEF Stage
    <2>4. CASE f.size <= m * ChunkSize
        <3>1. count = m
            BY <2>2, <2>4, ChunksCounted, Sizes DEF Stage
        <3>2. MacSize * count = m * MacSize
            BY <3>1, Sizes
        <3>3. s.total = f.size
            BY <2>3, <2>4, Sizes DEF Shorter
        <3>4. ~(s.at < f.kept)
            BY <1>2, <2>3, <3>2, <3>3, Sizes
        <3>5. t = s
            BY <2>1, <3>4 DEF Round
        <3>. QED
            BY <2>2, <2>4, <3>5 DEF P, t, s
    <2>5. CASE ~(f.size <= m * ChunkSize)
        <3>1. m \in ChunkIndices(f.size) /\ m = i
            BY <2>2, <2>3, <2>5, IndexIs, Sizes
        <3>2. count >= m + 1
            BY <1>1, <2>2, <3>1 DEF Stage
        <3>3. MacSize * count >= (m + 1) * MacSize /\ (m + 1) * MacSize = m * MacSize + MacSize
            <4>1. count - (m + 1) \in Nat
                BY <1>3, <3>2
            <4>2. (count - (m + 1)) * MacSize \in Nat
                BY <4>1, Sizes
            <4>3. (count - (m + 1)) * MacSize = MacSize * count - (m + 1) * MacSize
                BY <1>3, Sizes, SMTT(30)
            <4>4. (m + 1) * MacSize = m * MacSize + MacSize
                BY Sizes, SMTT(30)
            <4>. QED
                BY <1>3, <2>3, <4>2, <4>3, <4>4, Sizes
        <3>4. s.total = m * ChunkSize
            BY <2>3, <2>5, Sizes DEF Shorter
        <3>5. s.at < f.kept
            BY <1>2, <1>3, <2>3, <2>5, <3>3, <3>4, Sizes
        <3>6. Stage(f, i + 1, t) /\ (t.ok <=> t.at <= f.kept)
            BY <2>1, <2>2, <3>1, <3>5, NextStage
        <3>7. t.total <= f.size /\ t.total \in Nat
            <4>1. (i + 1) * ChunkSize \in Nat
                BY Sizes
            <4>. QED
                BY <3>6, <4>1, Sizes DEF Stage, Shorter
        <3>8. t.at = HeaderSize(f) + (m + 1) * MacSize + t.total
            BY <3>1, <3>6 DEF Stage
        <3>9. t.at <= f.kept
            BY <1>2, <1>3, <2>3, <3>3, <3>7, <3>8, Sizes
        <3>. QED
            BY <3>6, <3>9 DEF P, t
    <2>. QED
        BY <2>4, <2>5
<1>6. 0 \in S /\ \A i \in Nat : i \in S => i + 1 \in S
    <2>. HIDE DEF P
    <2>. QED
        BY <1>4, <1>5
<1>. HIDE DEF S
<1>7. Nat \subseteq S
    BY <1>6, SetInduction
<1>. QED
    BY <1>7 DEF S

LEMMA WholeIsAccepted ==
    ASSUME NEW f \in Stored, Whole(f)
    PROVE  DecryptFile(f)
<1>. DEFINE n == LastRound(f)
<1>1. n \in Nat /\ n = f.size \div ChunkSize + 2
    BY Sizes DEF LastRound
<1>2. PICK g : AreRounds(f, n, g) /\ Decrypted(f) = g[n]
    BY DecryptedRounds
<1>. HIDE DEF n
<1>3. g[n].ok /\ \E m \in Nat : Stage(f, m, g[n]) /\ (m = n \/ f.size <= m * ChunkSize)
    BY <1>1, <1>2, RoundsReach
<1>4. PICK m \in Nat : Stage(f, m, g[n]) /\ (m = n \/ f.size <= m * ChunkSize)
    BY <1>3
<1>5. f.size <= m * ChunkSize
    <2>1. CASE m = n
        <3>1. n - 1 \in ChunkIndices(f.size)
            BY <1>1, <1>4, <2>1, Sizes DEF Stage
        <3>2. n - 1 <= f.size \div ChunkSize
            BY <3>1, Sizes DEF ChunkIndices
        <3>. QED
            BY <1>1, <3>2, Sizes
    <2>. QED
        BY <1>4, <2>1
<1>6. g[n].total = f.size
    <2>1. m * ChunkSize \in Nat
        BY Sizes
    <2>. QED
        BY <1>4, <1>5, <2>1, Sizes DEF Stage, Shorter
<1>. QED
    BY <1>2, <1>3, <1>6 DEF DecryptFile

\* decryptFile accepts a file of one byte or more if and only if all that
\* encryptFile wrote of it is there, whatever the sizes: a file that was cut
\* short, at a piece or within one, is never taken for a shorter one.
THEOREM AcceptsTheWhole ==
    \A f \in Stored : f.size > 0 => (DecryptFile(f) <=> Whole(f))
    BY AcceptedIsWhole, WholeIsAccepted

-----------------------------------------------------------------------------
(* The downloads. *)

\* The progress that the loops share: the first index chunks are there, in
\* order, and total is how many bytes they are.
Progress(s) ==
    /\ s.total = Shorter(file.size, s.index * ChunkSize)
    /\ \A k \in 0..(s.index - 1) : k \in ChunkIndices(file.size)
    /\ s.pieces = [k \in 1..s.index |-> k - 1]

\* The inductive invariant behind SavedIsWhole.
SavedInv == TypeOK /\ Progress(state) /\ SavedIsWhole

States == [index : Nat, offset : Nat, total : Nat, pieces : Seq(Nat)]

Loop == [at : Places, start : Nat, plain : Nat]

LEMMA FilesAreStored == Files \subseteq Stored
    BY DownloadsAssumption DEF Stored

LEMMA TypeFacts ==
    ASSUME TypeOK
    PROVE  /\ file \in Stored /\ file.size \in Nat /\ file.meta \in Nat
           /\ file.kept \in Nat /\ ChunkSize \in Nat /\ MacSize \in Nat
           /\ ChunkSize > 0
    BY FilesAreStored, FormatAssumption DEF TypeOK, Stored

\* No two chunks begin at the same byte.
LEMMA StartInjective ==
    ASSUME NEW f \in Stored, NEW i \in Nat, NEW j \in Nat,
           Start(i, f) = Start(j, f)
    PROVE  i = j
<1>. DEFINE c == MacSize + ChunkSize
<1>1. c \in Nat /\ c > 0 /\ HeaderSize(f) \in Nat
    BY FormatAssumption, HeaderIsNat
<1>2. i * c \in Nat /\ j * c \in Nat /\ i * c = j * c
    BY <1>1 DEF Start
<1>3. ASSUME NEW a \in Nat, NEW b \in Nat, a < b PROVE a * c # b * c
    <2>1. a * c + c <= b * c
        <3>1. (a + 1) * c <= b * c
            BY <1>1, <1>3
        <3>. QED
            BY <1>1, <3>1
    <2>2. a * c \in Nat /\ b * c \in Nat
        BY <1>1
    <2>. QED
        BY <1>1, <2>1, <2>2
<1>. QED
    BY <1>2, <1>3

LEMMA OffsetIsNat ==
    ASSUME NEW f \in Stored, NEW n \in Nat
    PROVE  DataOffset(f, n) \in Nat
<1>1. SeenMeta(f, n) \in Nat
    BY DEF SeenMeta, Stored
<1>2. [f EXCEPT !.meta = SeenMeta(f, n)] \in Stored
    BY <1>1 DEF Stored
<1>. QED
    BY <1>2, HeaderIsNat DEF DataOffset

\* When the loop of ranges has all the bytes it has all the chunks.
LEMMA FullIsContent ==
    ASSUME TypeOK, NEW s \in States, Progress(s), s.total >= file.size
    PROVE  s.pieces = Content(file)
<1>1. s.index \in Nat /\ s.index * ChunkSize \in Nat
    BY TypeFacts DEF States
<1>2. file.size <= s.index * ChunkSize
    BY <1>1, TypeFacts DEF Progress, Shorter
<1>3. Cardinality(ChunkIndices(file.size)) = s.index
    BY <1>1, <1>2, TypeFacts, ChunksCounted DEF Progress
<1>. QED
    BY <1>3 DEF Progress, Content

\* The state when the range that loop l has asked for is decrypted.
Further(l) == [index  |-> state.index + 1,
               offset |-> state.offset + (MacSize + loop[l].plain),
               total  |-> state.total + loop[l].plain,
               pieces |-> Append(state.pieces, Asked(l))]

\* A range that opens is the next chunk, so the progress stays one.
LEMMA OpenedProgress ==
    ASSUME TypeOK, Progress(state), NEW l \in Loops, Opened(l)
    PROVE  Further(l) \in States /\ Progress(Further(l))
<1>. DEFINE i == state.index
            n == file.size
<1>1. /\ i \in Nat /\ state.total \in Nat /\ state.offset \in Nat
      /\ state.pieces \in Seq(Nat) /\ loop[l].plain \in Nat
      /\ loop[l].start \in Nat
    BY DEF TypeOK
<1>2. /\ i \in ChunkIndices(n) /\ loop[l].start = Start(i, file)
      /\ MacSize + loop[l].plain = MacSize + PlainSize(i, n)
    BY DEF Opened, Opens
<1>3. PlainSize(i, n) \in Nat /\ i * ChunkSize \in Nat /\ i * ChunkSize < n
    BY <1>2, TypeFacts, IndexWithin
<1>4. loop[l].plain = PlainSize(i, n)
    BY <1>1, <1>2, <1>3, TypeFacts
<1>5. Asked(l) = i
    <2>1. ASSUME NEW j \in ChunkIndices(n), loop[l].start = Start(j, file)
          PROVE  j = i
        BY <1>1, <1>2, <2>1, TypeFacts, StartInjective, IndexWithin
    <2>. QED
        BY <1>2, <2>1 DEF Asked
<1>6. state.total + loop[l].plain = Shorter(n, (i + 1) * ChunkSize)
    <2>1. (i + 1) * ChunkSize = i * ChunkSize + ChunkSize
        BY <1>1, TypeFacts
    <2>2. state.total = i * ChunkSize
        BY <1>3, TypeFacts DEF Progress, Shorter
    <2>. QED
        BY <1>3, <1>4, <2>1, <2>2, TypeFacts DEF PlainSize, Shorter
<1>7. \A k \in 0..i : k \in ChunkIndices(n)
    BY <1>1, <1>2 DEF Progress
<1>8. Append(state.pieces, i) = [k \in 1..(i + 1) |-> k - 1]
    <2>1. state.pieces = [k \in 1..i |-> k - 1]
        BY DEF Progress
    <2>2. Len(state.pieces) = i
        BY <1>1, <2>1
    <2>. QED
        BY <1>1, <2>1, <2>2
<1>9. /\ Further(l).index = i + 1 /\ Further(l).index \in Nat
      /\ Further(l).total = state.total + loop[l].plain
      /\ Further(l).total \in Nat
      /\ Further(l).offset \in Nat
      /\ Further(l).pieces = Append(state.pieces, i)
      /\ Further(l).pieces \in Seq(Nat)
    <2>1. Append(state.pieces, i) \in Seq(Nat)
        BY <1>1
    <2>2. /\ Further(l).index = i + 1
          /\ Further(l).total = state.total + loop[l].plain
          /\ Further(l).offset = state.offset + (MacSize + loop[l].plain)
          /\ Further(l).pieces = Append(state.pieces, i)
        BY <1>5 DEF Further
    <2>3. MacSize \in Nat
        BY TypeFacts
    <2>4. /\ i + 1 \in Nat /\ state.total + loop[l].plain \in Nat
          /\ state.offset + (MacSize + loop[l].plain) \in Nat
        BY <1>1, <2>3
    <2>. HIDE DEF i
    <2>. QED
        BY <2>1, <2>2, <2>4, Zenon
<1>10. Further(l) \in States
    BY <1>9 DEF Further, States
<1>. QED
    BY <1>1, <1>6, <1>7, <1>8, <1>9, <1>10 DEF Progress

-----------------------------------------------------------------------------
(* What is saved.                                                          *)

LEMMA ContentIsSeq ==
    ASSUME TypeOK
    PROVE  Content(file) \in Seq(Nat)
<1>1. IsFiniteSet(0..(file.size \div ChunkSize))
    <2>1. file.size \div ChunkSize \in Nat
        BY TypeFacts
    <2>. QED
        BY <2>1, FS_Interval
<1>2. IsFiniteSet(ChunkIndices(file.size))
    BY <1>1, FS_Subset DEF ChunkIndices
<1>3. Cardinality(ChunkIndices(file.size)) \in Nat
    BY <1>2, FS_CardinalityType
<1>. QED
    BY <1>3 DEF Content

LEMMA AppendWhole ==
    ASSUME TypeOK, SavedIsWhole
    PROVE  LET more == Append(saved, Content(file))
           IN  /\ more \in Seq(Seq(Nat))
               /\ \A i \in DOMAIN more : more[i] = Content(file)
    BY ContentIsSeq DEF TypeOK, SavedIsWhole

\* The end of a loop and of a transfer.
LEMMA SaveKeeps ==
    ASSUME TypeOK, SavedIsWhole, NEW l \in Loops, file' = file,
           Save(l, Content(file))
    PROVE  /\ SavedIsWhole' /\ saved' \in Seq(Seq(Nat))
           /\ status' \in Statuses /\ held' \in BOOLEAN
           /\ loop' \in [Loops -> Loop]
<1>1. SavedIsWhole' /\ saved' \in Seq(Seq(Nat))
    BY AppendWhole DEF Save, SavedIsWhole, Content
<1>2. Waiting("ended") \in Loop
    BY DEF Waiting, Loop, Places
<1>. QED
    BY <1>1, <1>2 DEF Save, Updated, TypeOK, Statuses, Loop

LEMMA AbandonKeeps ==
    ASSUME TypeOK, NEW l \in Loops, Abandon(l)
    PROVE  /\ status' \in Statuses /\ held' \in BOOLEAN
           /\ loop' \in [Loops -> Loop]
<1>1. Waiting("ended") \in Loop
    BY DEF Waiting, Loop, Places
<1>. QED
    BY <1>1 DEF Abandon, Updated, TypeOK, Statuses, Loop

\* The head of the loop of ranges.
LEMMA ProceedKeeps ==
    ASSUME TypeOK, SavedIsWhole, NEW l \in Loops, file' = file,
           NEW s \in States, Progress(s), NEW p \in BOOLEAN,
           NEW st \in Statuses, NEW h \in BOOLEAN,
           Proceed(l, s, p, st, h)
    PROVE  /\ SavedIsWhole' /\ saved' \in Seq(Seq(Nat))
           /\ status' \in Statuses /\ held' \in BOOLEAN
           /\ loop' \in [Loops -> Loop]
<1>1. s.total \in Nat /\ s.offset \in Nat
    BY DEF States
<1>2. CASE s.total >= file.size
    <2>1. Save(l, s.pieces)
        BY <1>2 DEF Proceed
    <2>2. s.pieces = Content(file)
        BY <1>2, FullIsContent
    <2>. QED
        BY <2>1, <2>2, SaveKeeps
<1>3. CASE ~(s.total >= file.size) /\ p
    <2>1. Waiting("ended") \in Loop
        BY DEF Waiting, Loop, Places
    <2>2. /\ loop' = [loop EXCEPT ![l] = Waiting("ended")]
          /\ status' = Updated("paused") /\ held' = h /\ UNCHANGED saved
        BY <1>3 DEF Proceed
    <2>. QED
        BY <2>1, <2>2 DEF Updated, TypeOK, Statuses, Loop, SavedIsWhole, Content
<1>4. CASE ~(s.total >= file.size) /\ ~p
    <2>. DEFINE next == [at |-> "asked", start |-> s.offset,
                         plain |-> Shorter(ChunkSize, file.size - s.total)]
    <2>1. Shorter(ChunkSize, file.size - s.total) \in Nat
        BY <1>1, <1>4, TypeFacts DEF Shorter
    <2>2. next \in Loop
        BY <1>1, <2>1 DEF Loop, Places
    <2>3. /\ loop' = [loop EXCEPT ![l] = next]
          /\ status' = st /\ held' = h /\ UNCHANGED saved
        BY <1>4 DEF Proceed
    <2>. HIDE DEF next
    <2>. QED
        BY <2>2, <2>3 DEF TypeOK, Loop, SavedIsWhole, Content
<1>. QED
    BY <1>2, <1>3, <1>4

LEMMA FreshProgress ==
    ASSUME TypeOK, NEW n \in Nat
    PROVE  Fresh(n) \in States /\ Progress(Fresh(n))
<1>1. Fresh(n).total = Shorter(file.size, Fresh(n).index * ChunkSize)
    BY TypeFacts DEF Fresh, Shorter
<1>2. Fresh(n).pieces = [k \in 1..Fresh(n).index |-> k - 1]
    <2>1. [k \in 1..0 |-> k - 1] = <<>>
        OBVIOUS
    <2>. QED
        BY <2>1 DEF Fresh
<1>3. \A k \in 0..(Fresh(n).index - 1) : k \in ChunkIndices(file.size)
    BY DEF Fresh
<1>4. Fresh(n) \in States
    BY DEF Fresh, States
<1>. QED
    BY <1>1, <1>2, <1>3, <1>4 DEF Progress

LEMMA SavedStart == Init => SavedInv
<1>. SUFFICES ASSUME Init PROVE SavedInv
    OBVIOUS
<1>1. TypeOK
    <2>1. Waiting("unborn") \in Loop
        BY DEF Waiting, Loop, Places
    <2>2. Fresh(0) \in States
        BY DEF Fresh, States
    <2>3. saved \in Seq(Seq(Nat))
        BY DEF Init
    <2>. QED
        BY <2>1, <2>2, <2>3 DEF Init, TypeOK, Statuses, Loop, States
<1>2. Progress(state)
    BY <1>1, FreshProgress DEF Init
<1>. QED
    BY <1>1, <1>2 DEF SavedInv, SavedIsWhole, Init

\* What no action changes but the two that read ranges.
LEMMA StateStays ==
    ASSUME SavedInv, UNCHANGED <<file, state>>
    PROVE  Progress(state)'
    BY DEF SavedInv, Progress

LEMMA SavedStays ==
    ASSUME SavedInv, UNCHANGED <<file, saved>>
    PROVE  SavedIsWhole'
    BY DEF SavedInv, SavedIsWhole, Content

LEMMA SavedStep == SavedInv /\ [Next]_vars => SavedInv'
<1>. SUFFICES ASSUME SavedInv, [Next]_vars PROVE SavedInv'
    OBVIOUS
<1>. USE DEF SavedInv
<1>1. ASSUME DownloadFile PROVE SavedInv'
    <2>1. Waiting("asked") \in Loop /\ Waiting("preparing") \in Loop
        BY DEF Waiting, Loop, Places
    <2>2. TypeOK'
        BY <1>1, <2>1 DEF DownloadFile, TypeOK, Statuses, Loop
    <2>. QED
        BY <1>1, <2>2, StateStays, SavedStays DEF DownloadFile
<1>2. ASSUME HeaderRead PROVE SavedInv'
    <2>1. 1 \in Loops
        BY DownloadsAssumption
    <2>2. CASE Abandon(1) /\ UNCHANGED <<state, saved>>
        <3>1. TypeOK'
            BY <1>2, <2>1, <2>2, AbandonKeeps DEF HeaderRead, TypeOK, Loop
        <3>. QED
            BY <1>2, <2>2, <3>1, StateStays, SavedStays DEF HeaderRead
    <2>3. CASE /\ state' = Fresh(DataOffset(file, Shorter(Window, file.kept)))
               /\ Proceed(1, state', paused, status, TRUE)
        <3>1. Shorter(Window, file.kept) \in Nat
            BY TypeFacts, FormatAssumption DEF Shorter
        <3>2. DataOffset(file, Shorter(Window, file.kept)) \in Nat
            BY <3>1, OffsetIsNat, TypeFacts
        <3>3. state' \in States /\ Progress(state')
            BY <2>3, <3>2, FreshProgress
        <3>4. /\ SavedIsWhole' /\ saved' \in Seq(Seq(Nat))
              /\ status' \in Statuses /\ held' \in BOOLEAN
              /\ loop' \in [Loops -> Loop]
            BY <1>2, <2>1, <2>3, <3>3, ProceedKeeps DEF HeaderRead, TypeOK
        <3>5. TypeOK'
            BY <1>2, <3>3, <3>4 DEF HeaderRead, TypeOK, Loop, States
        <3>. QED
            BY <1>2, <3>3, <3>4, <3>5 DEF HeaderRead, Progress
    <2>. QED
        BY <1>2, <2>2, <2>3 DEF HeaderRead
<1>3. ASSUME MetadataRead PROVE SavedInv'
    <2>1. Waiting("asked") \in Loop
        BY DEF Waiting, Loop, Places
    <2>2. TypeOK'
        BY <1>3, <2>1 DEF MetadataRead, TypeOK, Loop
    <2>. QED
        BY <1>3, <2>2, StateStays, SavedStays DEF MetadataRead
<1>4. ASSUME NEW l \in Loops, RangeRead(l) PROVE SavedInv'
    <2>1. CASE Abandon(l) /\ UNCHANGED <<state, saved>>
        <3>1. TypeOK'
            BY <1>4, <2>1, AbandonKeeps DEF RangeRead, TypeOK, Loop
        <3>. QED
            BY <1>4, <2>1, <3>1, StateStays, SavedStays DEF RangeRead
    <2>2. CASE /\ Opened(l) /\ state' = Further(l)
               /\ Proceed(l, state', paused, status, held)
        <3>1. state' \in States /\ Progress(state')
            BY <2>2, OpenedProgress
        <3>2. /\ SavedIsWhole' /\ saved' \in Seq(Seq(Nat))
              /\ status' \in Statuses /\ held' \in BOOLEAN
              /\ loop' \in [Loops -> Loop]
            BY <1>4, <2>2, <3>1, ProceedKeeps DEF RangeRead, TypeOK
        <3>3. TypeOK'
            BY <1>4, <3>1, <3>2 DEF RangeRead, TypeOK, Loop, States
        <3>. QED
            BY <1>4, <3>1, <3>2, <3>3 DEF RangeRead, Progress
    <2>. QED
        BY <1>4, <2>1, <2>2 DEF RangeRead, Further
<1>5. ASSUME NEW l \in Loops, WholeRead(l) PROVE SavedInv'
    <2>1. Waiting("ended") \in Loop /\ Waiting("decrypting") \in Loop
        BY DEF Waiting, Loop, Places
    <2>2. /\ status' \in Statuses /\ held' \in BOOLEAN
          /\ loop' \in [Loops -> Loop]
        BY <1>5, <2>1, AbandonKeeps
           DEF WholeRead, TypeOK, Updated, Statuses, Loop
    <2>3. TypeOK'
        BY <1>5, <2>2 DEF WholeRead, TypeOK, Loop
    <2>. QED
        BY <1>5, <2>3, StateStays, SavedStays DEF WholeRead
<1>6. ASSUME NEW l \in Loops, WholeDecrypted(l) PROVE SavedInv'
    <2>1. /\ SavedIsWhole' /\ saved' \in Seq(Seq(Nat))
          /\ status' \in Statuses /\ held' \in BOOLEAN
          /\ loop' \in [Loops -> Loop]
        <3>1. CASE Save(l, Content(file))
            BY <1>6, <3>1, SaveKeeps DEF WholeDecrypted
        <3>2. CASE Abandon(l) /\ UNCHANGED saved
            BY <1>6, <3>2, AbandonKeeps, SavedStays DEF WholeDecrypted, TypeOK
        <3>. QED
            BY <1>6, <3>1, <3>2 DEF WholeDecrypted
    <2>2. TypeOK'
        BY <1>6, <2>1 DEF WholeDecrypted, TypeOK, Loop
    <2>. QED
        BY <1>6, <2>1, <2>2, StateStays DEF WholeDecrypted
<1>7. ASSUME NEW l \in Loops, RequestFails(l) PROVE SavedInv'
    <2>1. TypeOK'
        BY <1>7, AbandonKeeps DEF RequestFails, TypeOK, Loop
    <2>. QED
        BY <1>7, <2>1, StateStays, SavedStays DEF RequestFails
<1>8. ASSUME NEW l \in Loops, ResumeDownload(l) PROVE SavedInv'
    <2>1. /\ SavedIsWhole' /\ saved' \in Seq(Seq(Nat))
          /\ status' \in Statuses /\ held' \in BOOLEAN
          /\ loop' \in [Loops -> Loop]
        <3>1. CASE Proceed(l, state, FALSE, "processing", held)
            <4>1. "processing" \in Statuses
                BY DEF Statuses
            <4>2. state \in States /\ held \in BOOLEAN
                BY DEF TypeOK, States
            <4>. QED
                BY <1>8, <3>1, <4>1, <4>2, ProceedKeeps DEF ResumeDownload
        <3>2. CASE /\ loop' = [loop EXCEPT ![l] = Waiting("asked")]
                   /\ status' = "processing" /\ UNCHANGED <<held, saved>>
            <4>1. Waiting("asked") \in Loop
                BY DEF Waiting, Loop, Places
            <4>. QED
                BY <1>8, <3>2, <4>1, SavedStays
                   DEF ResumeDownload, TypeOK, Statuses, Loop
        <3>. QED
            BY <1>8, <3>1, <3>2 DEF ResumeDownload
    <2>2. TypeOK'
        BY <1>8, <2>1 DEF ResumeDownload, TypeOK, Loop
    <2>. QED
        BY <1>8, <2>1, <2>2, StateStays DEF ResumeDownload
<1>9. ASSUME PauseTransfer PROVE SavedInv'
    <2>1. TypeOK'
        BY <1>9 DEF PauseTransfer, TypeOK, Statuses
    <2>. QED
        BY <1>9, <2>1, StateStays, SavedStays DEF PauseTransfer
<1>10. ASSUME CancelTransfer PROVE SavedInv'
    <2>1. TypeOK'
        BY <1>10 DEF CancelTransfer, TypeOK, Statuses
    <2>. QED
        BY <1>10, <2>1, StateStays, SavedStays DEF CancelTransfer
<1>11. ASSUME UNCHANGED vars PROVE SavedInv'
    <2>1. TypeOK'
        BY <1>11 DEF vars, TypeOK
    <2>. QED
        BY <1>11, <2>1, StateStays, SavedStays DEF vars
<1>. QED
    BY <1>1, <1>2, <1>3, <1>4, <1>5, <1>6, <1>7, <1>8, <1>9, <1>10, <1>11
       DEF Next

\* Whatever the user and the network do, and on files of any size and any
\* number of loops: what the browser is handed is the whole file.
THEOREM WholeSaved == Spec => []SavedIsWhole
<1>1. SavedInv => SavedIsWhole
    BY DEF SavedInv
<1>. QED
    BY <1>1, SavedStart, SavedStep, PTL DEF Spec

\* Every variable keeps its type, for any file and any number of loops
\* (DriveStore.runDownload and the three ways of fetching).
THEOREM DownloadTypes == Spec => []TypeOK
<1>1. SavedInv => TypeOK
    BY DEF SavedInv
<1>. QED
    BY <1>1, SavedStart, SavedStep, PTL DEF Spec

-----------------------------------------------------------------------------
(* What the panel shows.                                                   *)

\* Where a loop can be, seen from the transfer, and the other way round. At
\* most one loop runs as long as none was begun while another one ran.
OneLoop == \A k, l \in Loops : Running(k) /\ Running(l) => k = l

LoopShown ==
    \A l \in Loops :
        /\ loop[l].at = "preparing" => l = 1
        /\ Running(l) =>
               /\ saved = <<>> /\ status \in {"processing", "paused", "gone"}
               /\ channel = "link" => status = "processing"
               /\ channel # "link" /\ status # "gone"
                      /\ loop[l].at # "preparing" => held

StatusMeant ==
    /\ status = "none" =>
           ~held /\ saved = <<>> /\ \A l \in Loops : loop[l].at = "unborn"
    /\ status = "processing" => \E l \in Loops : Running(l)
    /\ status = "success" => Len(saved) = 1
    /\ status \in {"paused", "error"} => saved = <<>>
    /\ status = "paused" =>
           /\ channel # "link"
           /\ held \/ \E l \in Loops : loop[l].at = "preparing"

Shown == OneLoop /\ LoopShown /\ StatusMeant

\* The inductive invariant behind PanelTellsTrue.
PanelInv == TypeOK /\ (~overlap => Shown)

\* A step that ends loop l and leaves the transfer in a state that is true.
LEMMA LoopEnds ==
    ASSUME TypeOK, Shown, NEW l \in Loops, Running(l), channel' = channel,
           loop' = [loop EXCEPT ![l] = Waiting("ended")],
           \/ status' = Updated("success") /\ Len(saved') = 1
           \/ status' = Updated("error") /\ saved' = saved
           \/ /\ status' = Updated("paused") /\ saved' = saved
              /\ channel # "link" /\ (status # "gone" => held')
    PROVE  Shown'
<1>1. \A k \in Loops : k # l => ~Running(k)
    BY DEF Shown, OneLoop
<1>2. /\ loop'[l].at = "ended"
      /\ \A k \in Loops : k # l => loop'[k] = loop[k]
    BY DEF TypeOK, Waiting
<1>3. \A k \in Loops : ~Running(k)'
    BY <1>1, <1>2 DEF Running
<1>4. saved = <<>> /\ status \in {"processing", "paused", "gone"}
    BY DEF Shown, LoopShown
<1>5. LoopShown' /\ OneLoop'
    BY <1>3 DEF LoopShown, OneLoop, Running
<1>6. StatusMeant'
    BY <1>4 DEF StatusMeant, Updated
<1>. QED
    BY <1>5, <1>6 DEF Shown

\* A step that moves the only loop that runs to its next wait.
LEMMA LoopMoves ==
    ASSUME TypeOK, Shown, NEW l \in Loops, NEW w \in Loop, channel' = channel,
           w.at \in {"asked", "decrypting"}, loop' = [loop EXCEPT ![l] = w],
           saved' = saved, saved = <<>>,
           \A k \in Loops : Running(k) => k = l,
           \/ Running(l) /\ status' = status
           \/ status = "paused" /\ status' = "processing",
           channel # "link" /\ status' # "gone" => held'
    PROVE  Shown'
<1>1. /\ loop'[l] = w
      /\ \A k \in Loops : k # l => loop'[k] = loop[k]
    BY DEF TypeOK, Loop
<1>2. Running(l)' /\ \A k \in Loops : k # l => ~Running(k)'
    BY <1>1 DEF Running
<1>3. OneLoop'
    BY <1>2 DEF OneLoop
<1>4. /\ status' \in {"processing", "paused", "gone"}
      /\ channel = "link" => status' = "processing"
      /\ status' = "paused" => channel # "link"
    BY DEF Shown, LoopShown, StatusMeant
<1>5. LoopShown'
    BY <1>1, <1>2, <1>4 DEF LoopShown, Running
<1>6. StatusMeant'
    BY <1>2, <1>4 DEF StatusMeant
<1>. QED
    BY <1>3, <1>5, <1>6 DEF Shown

\* The head of the loop of ranges.
LEMMA ProceedShows ==
    ASSUME TypeOK, Shown, NEW l \in Loops, NEW s \in States,
           NEW p \in BOOLEAN, NEW st \in Statuses, NEW h \in BOOLEAN,
           channel' = channel, channel # "link", saved = <<>>,
           \A k \in Loops : Running(k) => k = l,
           \/ Running(l) /\ st = status
           \/ status = "paused" /\ st = "processing" /\ p = FALSE,
           status # "gone" => h,
           Proceed(l, s, p, st, h)
    PROVE  Shown'
<1>1. s.total \in Nat /\ s.offset \in Nat
    BY DEF States
<1>2. /\ Len(Append(saved, s.pieces)) = 1
      /\ \A x, k : k = 1 => Len(Append(<<>>, x)) = 1
    OBVIOUS
<1>3. CASE s.total >= file.size /\ Running(l)
    <2>1. /\ loop' = [loop EXCEPT ![l] = Waiting("ended")]
          /\ status' = Updated("success") /\ Len(saved') = 1
        BY <1>2, <1>3 DEF Proceed, Save
    <2>. QED
        BY <1>3, <2>1, LoopEnds
<1>4. CASE s.total >= file.size /\ ~Running(l)
    <2>1. /\ loop' = [loop EXCEPT ![l] = Waiting("ended")]
          /\ status' = "success" /\ Len(saved') = 1
        BY <1>2, <1>4 DEF Proceed, Save, Updated
    <2>2. \A k \in Loops : ~Running(k)'
        BY <1>4, <2>1 DEF Running, Waiting, TypeOK
    <2>3. LoopShown' /\ OneLoop'
        BY <2>2 DEF LoopShown, OneLoop, Running
    <2>4. StatusMeant'
        BY <2>1 DEF StatusMeant
    <2>. QED
        BY <2>3, <2>4 DEF Shown
<1>5. CASE ~(s.total >= file.size) /\ p
    <2>1. /\ loop' = [loop EXCEPT ![l] = Waiting("ended")]
          /\ status' = Updated("paused") /\ saved' = saved
          /\ status # "gone" => held'
        BY <1>5 DEF Proceed
    <2>. QED
        BY <1>5, <2>1, LoopEnds
<1>6. CASE ~(s.total >= file.size) /\ ~p
    <2>. DEFINE next == [at |-> "asked", start |-> s.offset,
                         plain |-> Shorter(ChunkSize, file.size - s.total)]
    <2>1. Shorter(ChunkSize, file.size - s.total) \in Nat
        BY <1>1, <1>6, TypeFacts DEF Shorter
    <2>2. next \in Loop /\ next.at = "asked"
        BY <1>1, <2>1 DEF Loop, Places
    <2>3. /\ loop' = [loop EXCEPT ![l] = next] /\ saved' = saved
          /\ status' = st /\ held' = h
        BY <1>6 DEF Proceed
    <2>4. channel # "link" /\ status' # "gone" => held'
        BY <2>3
    <2>. HIDE DEF next
    <2>. QED
        BY <2>2, <2>3, <2>4, LoopMoves
<1>. QED
    BY <1>3, <1>4, <1>5, <1>6

LEMMA PanelStart == Init => PanelInv
<1>. SUFFICES ASSUME Init PROVE PanelInv
    OBVIOUS
<1>1. TypeOK
    BY SavedStart DEF SavedInv
<1>2. \A l \in Loops : loop[l].at = "unborn"
    BY DEF Init, Waiting
<1>. QED
    BY <1>1, <1>2
       DEF PanelInv, Shown, OneLoop, LoopShown, StatusMeant, Running, Init

LEMMA PanelStep ==
    PanelInv /\ TypeOK' /\ [Next]_vars => PanelInv'
<1>. SUFFICES ASSUME PanelInv, TypeOK', [Next]_vars, ~overlap'
              PROVE  Shown'
    BY DEF PanelInv
<1>1. TypeOK
    BY DEF PanelInv
<1>2. ~overlap /\ Shown
    <2>1. \/ overlap' = overlap
          \/ overlap' = (overlap \/ \E k \in Loops : Running(k))
        BY DEF Next, vars, DownloadFile, HeaderRead, MetadataRead, RangeRead,
               WholeRead, WholeDecrypted, RequestFails, ResumeDownload,
               PauseTransfer, CancelTransfer
    <2>2. ~overlap
        <3>1. CASE overlap' = overlap
            BY <3>1
        <3>2. CASE overlap' = (overlap \/ \E k \in Loops : Running(k))
            BY <3>2, Zenon
        <3>. QED
            BY <2>1, <3>1, <3>2
    <2>. QED
        BY <2>2 DEF PanelInv
<1>3. 1 \in Loops /\ \A l \in Loops : l \in Nat
    BY DownloadsAssumption
<1>4. ASSUME NEW l \in Loops, Running(l)
      PROVE  /\ \A k \in Loops : Running(k) => k = l
             /\ saved = <<>> /\ status \in {"processing", "paused", "gone"}
             /\ channel = "link" => status = "processing"
    BY <1>2, <1>4 DEF Shown, OneLoop, LoopShown
<1>5. ASSUME NEW l \in Loops, Running(l), Abandon(l), channel' = channel,
             saved' = saved
      PROVE  Shown'
    BY <1>1, <1>2, <1>5, LoopEnds DEF Abandon
<1>6. ASSUME DownloadFile PROVE Shown'
    <2>1. /\ \A l \in Loops : loop[l].at = "unborn"
          /\ ~held /\ saved = <<>>
        BY <1>2, <1>6 DEF DownloadFile, Shown, StatusMeant
    <2>2. /\ loop'[1].at = IF channel = "link" THEN "asked" ELSE "preparing"
          /\ \A l \in Loops : l # 1 => loop'[l].at = "unborn"
        BY <1>1, <1>3, <1>6, <2>1 DEF DownloadFile, Waiting, TypeOK
    <2>3. /\ status' = "processing" /\ saved' = <<>> /\ channel' = channel
        BY <1>6, <2>1 DEF DownloadFile
    <2>. QED
        BY <1>3, <2>2, <2>3
           DEF Shown, OneLoop, LoopShown, StatusMeant, Running
<1>7. ASSUME HeaderRead PROVE Shown'
    <2>1. Running(1)
        BY <1>7 DEF HeaderRead, Running
    <2>2. CASE Abandon(1) /\ UNCHANGED saved
        BY <1>3, <1>5, <1>7, <2>1, <2>2 DEF HeaderRead
    <2>3. CASE Proceed(1, state', paused, status, TRUE)
        <3>1. state' \in States /\ paused \in BOOLEAN /\ status \in Statuses
            BY <1>1, TypeOK' DEF TypeOK, States
        <3>2. channel' = channel /\ channel # "link"
            BY <1>7 DEF HeaderRead
        <3>. QED
            BY <1>1, <1>2, <1>3, <1>4, <2>1, <2>3, <3>1, <3>2, ProceedShows
    <2>. QED
        BY <1>7, <2>2, <2>3 DEF HeaderRead
<1>8. ASSUME MetadataRead PROVE Shown'
    <2>1. Running(1)
        BY <1>8 DEF MetadataRead, Running
    <2>2. Waiting("asked") \in Loop /\ Waiting("asked").at = "asked"
        BY DEF Waiting, Loop, Places
    <2>. QED
        BY <1>1, <1>2, <1>3, <1>4, <1>8, <2>1, <2>2, LoopMoves
           DEF MetadataRead
<1>9. ASSUME NEW l \in Loops, RangeRead(l) PROVE Shown'
    <2>1. Running(l)
        BY <1>9 DEF RangeRead, Running
    <2>2. CASE Abandon(l) /\ UNCHANGED saved
        BY <1>5, <1>9, <2>1, <2>2 DEF RangeRead
    <2>3. CASE Proceed(l, state', paused, status, held)
        <3>1. /\ state' \in States /\ paused \in BOOLEAN
              /\ status \in Statuses /\ held \in BOOLEAN
            BY <1>1, TypeOK' DEF TypeOK, States
        <3>2. channel' = channel /\ channel # "link"
            BY <1>9 DEF RangeRead
        <3>3. status # "gone" => held
            BY <1>2, <1>9, <2>1, <3>2 DEF RangeRead, Shown, LoopShown
        <3>4. saved = <<>> /\ \A k \in Loops : Running(k) => k = l
            BY <1>4, <2>1
        <3>. QED
            BY <1>1, <1>2, <2>1, <2>3, <3>1, <3>2, <3>3, <3>4, ProceedShows,
               Zenon
    <2>. QED
        BY <1>9, <2>2, <2>3 DEF RangeRead
<1>10. ASSUME NEW l \in Loops, WholeRead(l) PROVE Shown'
    <2>1. Running(l) /\ channel' = channel /\ saved' = saved
        BY <1>10 DEF WholeRead, Running
    <2>2. channel # "link" /\ status # "gone" => held
        BY <1>2, <1>10, <2>1 DEF WholeRead, Shown, LoopShown
    <2>3. CASE Abandon(l)
        BY <1>5, <2>1, <2>3
    <2>4. CASE /\ channel = "google"
               /\ loop' = [loop EXCEPT ![l] = Waiting("ended")]
               /\ status' = Updated("paused") /\ UNCHANGED held
        BY <1>1, <1>2, <2>1, <2>2, <2>4, LoopEnds
    <2>5. CASE /\ loop' = [loop EXCEPT ![l] = Waiting("decrypting")]
               /\ UNCHANGED <<status, held>>
        <3>1. /\ Waiting("decrypting") \in Loop
              /\ Waiting("decrypting").at = "decrypting"
            BY DEF Waiting, Loop, Places
        <3>. QED
            BY <1>1, <1>2, <1>4, <2>1, <2>2, <2>5, <3>1, LoopMoves
    <2>. QED
        BY <1>10, <2>3, <2>4, <2>5 DEF WholeRead
<1>11. ASSUME NEW l \in Loops, WholeDecrypted(l) PROVE Shown'
    <2>1. Running(l) /\ channel' = channel
        BY <1>11 DEF WholeDecrypted, Running
    <2>2. CASE Abandon(l) /\ UNCHANGED saved
        BY <1>5, <2>1, <2>2
    <2>3. CASE Save(l, Content(file))
        <3>1. saved = <<>> /\ Len(Append(<<>>, Content(file))) = 1
            BY <1>4, <2>1
        <3>. QED
            BY <1>1, <1>2, <2>1, <2>3, <3>1, LoopEnds DEF Save
    <2>. QED
        BY <1>11, <2>2, <2>3 DEF WholeDecrypted
<1>12. ASSUME NEW l \in Loops, RequestFails(l) PROVE Shown'
    <2>1. Running(l)
        BY <1>12 DEF RequestFails, Running
    <2>. QED
        BY <1>5, <1>12, <2>1 DEF RequestFails
<1>13. ASSUME NEW l \in Loops, ResumeDownload(l) PROVE Shown'
    <2>1. /\ \A k \in Loops : ~Running(k)
          /\ status = "paused" /\ held /\ channel' = channel
        BY <1>1, <1>13 DEF ResumeDownload, TypeOK
    <2>2. saved = <<>> /\ channel # "link"
        BY <1>2, <2>1 DEF Shown, StatusMeant
    <2>3. CASE Proceed(l, state, FALSE, "processing", held)
        <3>1. state \in States /\ held \in BOOLEAN
            BY <1>1 DEF TypeOK, States
        <3>2. "processing" \in Statuses /\ FALSE \in BOOLEAN
            BY DEF Statuses
        <3>. QED
            BY <1>1, <1>2, <2>1, <2>2, <2>3, <3>1, <3>2, ProceedShows
    <2>4. CASE /\ loop' = [loop EXCEPT ![l] = Waiting("asked")]
               /\ status' = "processing" /\ UNCHANGED <<held, saved>>
        <3>1. Waiting("asked") \in Loop /\ Waiting("asked").at = "asked"
            BY DEF Waiting, Loop, Places
        <3>. QED
            BY <1>1, <1>2, <2>1, <2>2, <2>4, <3>1, LoopMoves
    <2>. QED
        BY <1>13, <2>3, <2>4 DEF ResumeDownload
<1>14. ASSUME PauseTransfer PROVE Shown'
    <2>1. /\ status = "processing" /\ status' = "paused"
          /\ channel # "link" /\ UNCHANGED <<channel, held, loop, saved>>
        BY <1>14 DEF PauseTransfer
    <2>2. PICK l \in Loops : Running(l)
        BY <1>2, <2>1 DEF Shown, StatusMeant
    <2>3. saved = <<>> /\ (held \/ loop[l].at = "preparing")
        BY <1>2, <2>1, <2>2 DEF Shown, LoopShown
    <2>4. OneLoop' /\ LoopShown'
        BY <1>2, <2>1 DEF Shown, OneLoop, LoopShown, Running
    <2>5. StatusMeant'
        BY <2>1, <2>3 DEF StatusMeant
    <2>. QED
        BY <2>4, <2>5 DEF Shown
<1>15. ASSUME CancelTransfer PROVE Shown'
    <2>1. /\ status = "paused" /\ status' = "gone"
          /\ UNCHANGED <<channel, loop, saved>>
        BY <1>15 DEF CancelTransfer
    <2>2. OneLoop' /\ LoopShown'
        BY <1>2, <2>1 DEF Shown, OneLoop, LoopShown, StatusMeant, Running
    <2>3. StatusMeant'
        BY <2>1 DEF StatusMeant
    <2>. QED
        BY <2>2, <2>3 DEF Shown
<1>16. ASSUME UNCHANGED vars PROVE Shown'
    BY <1>2, <1>16
       DEF vars, Shown, OneLoop, LoopShown, StatusMeant, Running
<1>. QED
    BY <1>6, <1>7, <1>8, <1>9, <1>10, <1>11, <1>12, <1>13, <1>14, <1>15,
       <1>16 DEF Next

LEMMA ShownIsTrue == PanelInv => PanelTellsTrue
<1>. SUFFICES ASSUME PanelInv, status # "none", ~overlap,
                     \A l \in Loops : ~Running(l)
              PROVE  /\ status # "processing"
                     /\ status = "success" => Len(saved) = 1
                     /\ status \in {"paused", "error"} => saved = <<>>
                     /\ status = "paused" => held
    BY DEF PanelTellsTrue
<1>1. StatusMeant
    BY DEF PanelInv, Shown
<1>. QED
    BY <1>1 DEF StatusMeant, Running

\* For any file and any number of loops, when nothing runs and no loop was
\* begun beside another: "done" means saved, "failed" and "paused" mean not
\* saved, and what is paused can be resumed.
THEOREM PanelTrue == Spec => []PanelTellsTrue
<1>1. Spec => []TypeOK
    BY DownloadTypes
<1>. QED
    BY <1>1, ShownIsTrue, PanelStart, PanelStep, PTL DEF Spec
-----------------------------------------------------------------------------
(* Why a download fails.                                                   *)

\* A file that can be read has all the bytes of each of its pieces.
LEMMA PieceThere ==
    ASSUME NEW f \in Stored, Whole(f), NEW i \in ChunkIndices(f.size)
    PROVE  Start(i, f) + MacSize + PlainSize(i, f.size) <= f.kept
<1>. DEFINE count == Cardinality(ChunkIndices(f.size))
            plain == PlainSize(i, f.size)
<1>1. /\ i \in Nat /\ i * ChunkSize \in Nat /\ plain \in Nat
      /\ i * ChunkSize + plain <= f.size
    BY IndexWithin, Sizes
<1>2. \A k \in 0..i : k \in ChunkIndices(f.size)
    <2>1. ASSUME NEW k \in 0..i PROVE k * ChunkSize < f.size
        <3>1. k * ChunkSize <= i * ChunkSize /\ k * ChunkSize \in Nat
            BY <1>1, Sizes
        <3>. QED
            BY <1>1, <3>1, IndexWithin, Sizes
    <2>. QED
        BY <1>1, <2>1, IndexIs, Sizes
<1>3. count \in Nat /\ count >= i + 1
    BY <1>1, <1>2, ChunksAtLeast, Sizes
<1>4. i * MacSize + MacSize <= MacSize * count
    <2>1. (count - (i + 1)) * MacSize \in Nat
        BY <1>1, <1>3, Sizes
    <2>2. (count - (i + 1)) * MacSize = MacSize * count - (i * MacSize + MacSize)
        BY <1>1, <1>3, Sizes, SMTT(30)
    <2>3. MacSize * count \in Nat /\ i * MacSize \in Nat
        BY <1>1, <1>3, Sizes
    <2>. QED
        BY <2>1, <2>2, <2>3, Sizes
<1>5. i * (MacSize + ChunkSize) = i * MacSize + i * ChunkSize /\ i * MacSize \in Nat
    BY <1>1, Sizes, SMTT(30)
<1>6. f.kept = HeaderSize(f) + f.size + MacSize * count /\ MacSize * count \in Nat
    BY <1>3, Sizes DEF Whole, EncryptedSize
<1>. HIDE DEF count, plain
<1>7. Start(i, f) = HeaderSize(f) + i * MacSize + i * ChunkSize
    BY <1>1, <1>5, Sizes DEF Start
<1>8. Start(i, f) + MacSize + plain <= f.kept
    BY <1>1, <1>4, <1>5, <1>6, <1>7, Sizes
<1>. QED
    BY <1>8 DEF plain

\* The next range begins where the chunks that are there end, and a loop that
\* waits for a range waits for the next one.
Placed == state.offset = HeaderSize(file) + state.index * MacSize + state.total

AsksNext(l) ==
    /\ loop[l].start = state.offset /\ state.total < file.size
    /\ loop[l].plain = Shorter(ChunkSize, file.size - state.total)

Going ==
    /\ status # "error"
    /\ channel = "ranges" =>
           /\ file.size > 0 /\ held => Placed
           /\ \A l \in Loops : loop[l].at = "asked" => Placed /\ AsksNext(l)

\* The inductive invariant behind ErrorsHaveCauses.
CausesInv ==
    /\ SavedInv /\ PanelInv
    /\ ~overlap /\ ~failed /\ Readable => Going

\* The range that such a loop waits for is served, and opens.
LEMMA NextOpens ==
    ASSUME SavedInv, Readable, NEW l \in Loops, channel = "ranges", Placed, AsksNext(l)
    PROVE  /\ Opened(l)
           /\ LET length == MacSize + loop[l].plain
              IN  ServedRange(file, loop[l].start, loop[l].start + length - 1) >= length
<1>. DEFINE i == state.index
            plain == loop[l].plain
            length == MacSize + plain
            start == loop[l].start
<1>1. /\ file \in Stored /\ i \in Nat /\ state.total \in Nat /\ start \in Nat
      /\ file.size \in Nat
    BY TypeFacts DEF SavedInv, TypeOK
<1>2. Whole(file)
    BY <1>1, AcceptedIsWhole DEF Readable, AsksNext
<1>3. i * ChunkSize \in Nat /\ i * MacSize \in Nat
      /\ i * (MacSize + ChunkSize) = i * MacSize + i * ChunkSize
    BY <1>1, Sizes, SMTT(30)
<1>4. state.total = i * ChunkSize /\ i * ChunkSize < file.size
    BY <1>1, <1>3 DEF SavedInv, Progress, AsksNext, Shorter
<1>5. i \in ChunkIndices(file.size)
    BY <1>1, <1>4, IndexIs
<1>6. plain = PlainSize(i, file.size) /\ plain \in 1..ChunkSize
    BY <1>1, <1>4, <1>5, IndexWithin DEF AsksNext, PlainSize
<1>7. start = Start(i, file)
    <2>1. start = HeaderSize(file) + i * MacSize + i * ChunkSize
        BY <1>4 DEF AsksNext, Placed
    <2>. QED
        BY <1>1, <1>3, <2>1, Sizes DEF Start
<1>8. start + MacSize + plain <= file.kept
    BY <1>1, <1>2, <1>5, <1>6, <1>7, PieceThere
<1>9. start + length <= file.kept /\ start + length = start + MacSize + plain
    BY <1>1, <1>6, <1>8, Sizes
<1>10. Opened(l)
    BY <1>5, <1>6, <1>7, <1>9 DEF Opened, Opens
<1>11. length \in Nat /\ length > 0 /\ length <= MaxRange /\ MaxRange \in Nat
    BY <1>1, <1>6, Sizes, FormatAssumption
<1>. HIDE DEF length, start
<1>12. start + length <= file.kept /\ file.kept \in Nat /\ start \in Nat
    BY <1>1, <1>9, Sizes DEF start
<1>13. ServedRange(file, start, start + length - 1) = length
    BY <1>11, <1>12 DEF ServedRange, Shorter
<1>. QED
    BY <1>10, <1>11, <1>13 DEF length, start

\* The first range is served, and says where the pieces begin.
LEMMA HeaderServed ==
    ASSUME TypeOK, Readable, channel = "ranges"
    PROVE  /\ ServedRange(file, 0, Window - 1) > 0 /\ HeaderReadable(file)
           /\ file.size > 0 =>
                  DataOffset(file, Shorter(Window, file.kept)) = HeaderSize(file)
<1>1. file \in Stored /\ file.kept \in Nat /\ file.size \in Nat
    BY TypeFacts
<1>2. /\ Window \in Nat /\ Window >= NonceSize + 16 /\ Window <= MaxRange
      /\ MaxRange \in Nat /\ NonceSize \in Nat
    BY FormatAssumption
<1>3. HeaderReadable(file)
    BY DEF Readable
<1>4. file.kept > 0
    BY <1>1, <1>2, <1>3 DEF HeaderReadable, Shorter
<1>5. ServedRange(file, 0, Window - 1) > 0
    BY <1>1, <1>2, <1>4 DEF ServedRange, Shorter
<1>6. ASSUME file.size > 0
      PROVE  DataOffset(file, Shorter(Window, file.kept)) = HeaderSize(file)
    <2>1. Whole(file)
        BY <1>1, <1>6, AcceptedIsWhole DEF Readable
    <2>2. file.kept >= HeaderSize(file)
        <3>1. Cardinality(ChunkIndices(file.size)) \in Nat
            <4>1. 0 \in ChunkIndices(file.size)
                BY <1>1, <1>6, IndexIs, Sizes
            <4>2. \A k \in 0..0 : k \in ChunkIndices(file.size)
                BY <4>1
            <4>. QED
                BY <1>1, <4>2, ChunksAtLeast
        <3>2. MacSize * Cardinality(ChunkIndices(file.size)) \in Nat
            BY <1>1, <3>1, Sizes
        <3>. QED
            BY <1>1, <2>1, <3>2, Sizes DEF Whole, EncryptedSize
    <2>3. file.meta # 0 => Shorter(Window, file.kept) >= NonceSize + 16
        BY <1>1, <1>2, <2>2, Sizes DEF Shorter
    <2>4. Shorter(Window, file.kept) \in Nat
        BY <1>1, <1>2 DEF Shorter
    <2>. QED
        BY <1>1, <2>3, <2>4, HeaderFound
<1>. QED
    BY <1>3, <1>5, <1>6

LEMMA ProceedGoes ==
    ASSUME TypeOK, NEW l \in Loops, NEW p, NEW st, NEW h, NEW s,
           Proceed(l, s, p, st, h), state' = s, UNCHANGED <<file, channel>>,
           st # "error", s \in States,
           \A k \in Loops \ {l} : loop[k].at # "asked",
           file.size > 0 =>
               s.offset = HeaderSize(file) + s.index * MacSize + s.total
    PROVE  Going'
<1>0. s.total \in Nat /\ file.size \in Nat
    BY TypeFacts DEF States
<1>1. CASE s.total >= file.size
    <2>1. /\ loop' = [loop EXCEPT ![l] = Waiting("ended")] /\ held' = FALSE
          /\ status' = Updated("success")
        BY <1>1 DEF Proceed, Save
    <2>2. \A k \in Loops : loop'[k].at # "asked"
        BY <2>1 DEF Waiting, TypeOK
    <2>. QED
        BY <2>1, <2>2 DEF Going, Updated
<1>2. CASE ~(s.total >= file.size) /\ p
    <2>1. /\ loop' = [loop EXCEPT ![l] = Waiting("ended")]
          /\ status' = Updated("paused")
        BY <1>2 DEF Proceed
    <2>2. \A k \in Loops : loop'[k].at # "asked"
        BY <2>1 DEF Waiting, TypeOK
    <2>. QED
        BY <2>1, <2>2 DEF Going, Updated, Placed
<1>3. CASE ~(s.total >= file.size) /\ ~p
    <2>. DEFINE next == [at |-> "asked", start |-> s.offset,
                         plain |-> Shorter(ChunkSize, file.size - s.total)]
    <2>1. loop' = [loop EXCEPT ![l] = next] /\ status' = st
        BY <1>3 DEF Proceed
    <2>2. loop'[l] = next /\ \A k \in Loops \ {l} : loop'[k].at # "asked"
        BY <2>1 DEF TypeOK
    <2>3. Placed' /\ AsksNext(l)'
        BY <1>0, <1>3, <2>2 DEF Placed, AsksNext
    <2>. QED
        BY <2>1, <2>2, <2>3 DEF Going
<1>. QED
    BY <1>1, <1>2, <1>3

\* What leaves the shared state, and asks for no range, leaves the loops going.
LEMMA StillGoing ==
    ASSUME TypeOK, Going, UNCHANGED <<file, channel, state>>, status' # "error",
           channel = "ranges" =>
               /\ held' => held
               /\ \A l \in Loops : loop'[l].at = "asked" => loop'[l] = loop[l]
    PROVE  Going'
    BY DEF Going, Placed, AsksNext

LEMMA LoopWaits ==
    ASSUME TypeOK, NEW l \in Loops, NEW at, at # "asked",
           loop' = [loop EXCEPT ![l] = Waiting(at)]
    PROVE  \A k \in Loops : loop'[k].at = "asked" => loop'[k] = loop[k]
    BY DEF TypeOK, Waiting

LEMMA CausesStep ==
    CausesInv /\ SavedInv' /\ PanelInv' /\ [Next]_vars => CausesInv'
<1>. SUFFICES ASSUME CausesInv, SavedInv', PanelInv', [Next]_vars,
                     ~overlap', ~failed', Readable'
              PROVE  Going'
    BY DEF CausesInv
<1>1. /\ overlap => overlap'
      /\ failed => failed'
      /\ UNCHANGED <<file, channel>>
    <2>1. /\ \/ overlap' = overlap
             \/ overlap' = (overlap \/ \E k \in Loops : Running(k))
          /\ failed' = failed \/ failed' = TRUE
          /\ UNCHANGED <<file, channel>>
        BY DEF Next, vars, DownloadFile, HeaderRead, MetadataRead, RangeRead,
               WholeRead, WholeDecrypted, RequestFails, ResumeDownload,
               PauseTransfer, CancelTransfer
    <2>2. overlap => overlap'
        <3>1. CASE overlap' = overlap
            BY <3>1
        <3>2. CASE overlap' = (overlap \/ \E k \in Loops : Running(k))
            BY <3>2, Zenon
        <3>. QED
            BY <2>1, <3>1, <3>2
    <2>. QED
        BY <2>1, <2>2
<1>2. Readable
    BY <1>1 DEF Readable
<1>3. Going /\ OneLoop /\ TypeOK /\ SavedInv /\ Shown
    BY <1>1, <1>2 DEF CausesInv, PanelInv, Shown, SavedInv
<1>4. 1 \in Loops
    BY DownloadsAssumption
<1>5. status # "error" /\ \A s : s # "error" => Updated(s) # "error"
    BY <1>3 DEF Going, Updated
<1>6. state' \in States /\ TypeOK'
    BY DEF SavedInv, TypeOK, States
<1>7. CASE DownloadFile
    <2>1. channel = "ranges" =>
              \A l \in Loops : loop'[l].at = "asked" => loop'[l] = loop[l]
        BY <1>3, <1>4, <1>7, LoopWaits DEF DownloadFile
    <2>. QED
        BY <1>1, <1>3, <1>7, <2>1, StillGoing DEF DownloadFile
<1>8. CASE HeaderRead
    <2>1. /\ ServedRange(file, 0, Window - 1) > 0 /\ HeaderReadable(file)
          /\ file.size > 0 =>
                 DataOffset(file, Shorter(Window, file.kept)) = HeaderSize(file)
        BY <1>2, <1>3, <1>8, HeaderServed DEF HeaderRead
    <2>2. /\ state' = Fresh(DataOffset(file, Shorter(Window, file.kept)))
          /\ Proceed(1, state', paused, status, TRUE)
        BY <1>8, <2>1 DEF HeaderRead
    <2>3. \A k \in Loops \ {1} : loop[k].at # "asked"
        BY <1>3, <1>4, <1>8 DEF HeaderRead, OneLoop, Running
    <2>4. file.size > 0 =>
              state'.offset = HeaderSize(file) + state'.index * MacSize + state'.total
        <3>1. /\ state'.index = 0 /\ state'.total = 0
              /\ state'.offset = DataOffset(file, Shorter(Window, file.kept))
            BY <2>2 DEF Fresh
        <3>. QED
            BY <1>3, <2>1, <3>1, TypeFacts, Sizes
    <2>. QED
        BY <1>1, <1>3, <1>4, <1>5, <1>6, <2>2, <2>3, <2>4, ProceedGoes
<1>9. CASE MetadataRead
    BY <1>1, <1>3, <1>5, <1>9, StillGoing DEF MetadataRead
<1>10. ASSUME NEW l \in Loops, RangeRead(l) PROVE Going'
    <2>1. channel = "ranges" /\ loop[l].at = "asked" /\ Placed /\ AsksNext(l)
        BY <1>3, <1>10 DEF RangeRead, Going
    <2>2. /\ state' = Further(l)
          /\ Proceed(l, state', paused, status, held)
        BY <1>2, <1>3, <1>10, <2>1, NextOpens DEF RangeRead, Further
    <2>3. \A k \in Loops \ {l} : loop[k].at # "asked"
        BY <1>3, <2>1 DEF OneLoop, Running
    <2>4. state'.offset = HeaderSize(file) + state'.index * MacSize + state'.total
        <3>1. /\ state.index \in Nat /\ state.total \in Nat /\ loop[l].plain \in Nat
              /\ file \in Stored /\ state.offset \in Nat
            BY <1>3, TypeFacts DEF TypeOK
        <3>2. /\ state'.index = state.index + 1
              /\ state'.offset = state.offset + (MacSize + loop[l].plain)
              /\ state'.total = state.total + loop[l].plain
            BY <2>2 DEF Further
        <3>3. /\ (state.index + 1) * MacSize = state.index * MacSize + MacSize
              /\ state.index * MacSize \in Nat
            BY <3>1, Sizes, SMTT(30)
        <3>4. state.offset = HeaderSize(file) + state.index * MacSize + state.total
            BY <2>1 DEF Placed
        <3>. QED
            BY <3>1, <3>2, <3>3, <3>4, Sizes
    <2>. QED
        BY <1>1, <1>3, <1>5, <1>6, <2>2, <2>3, <2>4, ProceedGoes
<1>11. ASSUME NEW l \in Loops, WholeRead(l) PROVE Going'
    <2>1. channel # "ranges" /\ UNCHANGED state
        BY <1>11 DEF WholeRead
    <2>2. status' # "error"
        <3>1. ~(channel = "link" /\ ~ServedWhole(file))
            BY <1>2 DEF Readable
        <3>. QED
            BY <1>5, <1>11, <3>1 DEF WholeRead
    <2>. QED
        BY <1>1, <1>3, <2>1, <2>2, StillGoing
<1>12. ASSUME NEW l \in Loops, WholeDecrypted(l) PROVE Going'
    <2>1. Save(l, Content(file)) /\ UNCHANGED state
        BY <1>2, <1>12 DEF WholeDecrypted, Readable
    <2>2. \A k \in Loops : loop'[k].at = "asked" => loop'[k] = loop[k]
        BY <1>3, <2>1, LoopWaits DEF Save
    <2>3. status' # "error" /\ ~held'
        BY <1>5, <2>1 DEF Save
    <2>. QED
        BY <1>1, <1>3, <2>1, <2>2, <2>3, StillGoing
<1>13. ASSUME NEW l \in Loops, RequestFails(l) PROVE Going'
    BY <1>13 DEF RequestFails
<1>14. ASSUME NEW l \in Loops, ResumeDownload(l) PROVE Going'
    <2>1. CASE channel = "ranges" /\ Proceed(l, state, FALSE, "processing", held)
        <3>1. \A k \in Loops : ~Running(k)
            BY <1>14 DEF ResumeDownload, CausesInv
        <3>2. \A k \in Loops \ {l} : loop[k].at # "asked"
            BY <3>1 DEF Running
        <3>3. state' = state /\ held
            BY <1>14 DEF ResumeDownload
        <3>4. file.size > 0 =>
                  state.offset = HeaderSize(file) + state.index * MacSize + state.total
            BY <1>3, <2>1, <3>3 DEF Going, Placed
        <3>5. state \in States
            BY <1>3 DEF TypeOK, States
        <3>. QED
            BY <1>1, <1>3, <2>1, <3>2, <3>3, <3>4, <3>5, ProceedGoes
    <2>2. CASE channel = "google" /\ status' = "processing"
        BY <1>1, <1>3, <1>14, <2>2, StillGoing DEF ResumeDownload
    <2>. QED
        BY <1>14, <2>1, <2>2 DEF ResumeDownload
<1>15. CASE PauseTransfer
    BY <1>1, <1>3, <1>15, StillGoing DEF PauseTransfer
<1>16. CASE CancelTransfer
    BY <1>1, <1>3, <1>16, StillGoing DEF CancelTransfer
<1>17. CASE UNCHANGED vars
    BY <1>1, <1>3, <1>5, <1>17, StillGoing DEF vars
<1>. QED
    BY <1>7, <1>8, <1>9, <1>10, <1>11, <1>12, <1>13, <1>14, <1>15, <1>16, <1>17
       DEF Next

LEMMA CausesStart == Init => CausesInv
<1>. SUFFICES ASSUME Init PROVE CausesInv
    OBVIOUS
<1>1. Going
    BY DEF Init, Going, Waiting
<1>. QED
    BY <1>1, SavedStart, PanelStart DEF CausesInv

\* A download whose requests succeed, of a file that can be read, does not end
\* in an error unless it was resumed while its old loop still waited, for files
\* of any size (DriveStore.runDownloadLoop, runGoogleDriveDownload and the page
\* of a shared link).
THEOREM CausesKnown == Spec => []ErrorsHaveCauses
<1>1. CausesInv => ErrorsHaveCauses
    BY DEF CausesInv, Going, ErrorsHaveCauses
<1>2. SavedInv /\ [Next]_vars => SavedInv'
    BY SavedStep
<1>3. PanelInv /\ SavedInv' /\ [Next]_vars => PanelInv'
    BY PanelStep DEF SavedInv
<1>4. CausesInv /\ [Next]_vars => CausesInv'
    BY <1>2, <1>3, CausesStep DEF CausesInv
<1>. QED
    BY <1>1, <1>4, CausesStart, PTL DEF Spec

\* In every state, decryptFile accepts the file of the download if and only if
\* all its bytes are there (the loop of KasumiCryptoService.decryptFile).
THEOREM WholeReads == Spec => []WholeMeansReadable
<1>1. SavedInv => WholeMeansReadable
    BY AcceptsTheWhole, TypeFacts DEF SavedInv, WholeMeansReadable
<1>. QED
    BY <1>1, SavedStart, SavedStep, PTL DEF Spec
=============================================================================
