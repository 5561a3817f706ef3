-------------------------- MODULE OperationsProofs --------------------------
(***************************************************************************)
(* Proofs about CCacheOutStream, the stream that every zip archive is      *)
(* written through, about the extraction from a 7z archive, and about      *)
(* COutMultiVolStream, the volumes of an archive, as parts of MCOperations.*)
(***************************************************************************)
EXTENDS MCOperations, SequenceTheorems, WellFoundedInduction, TLAPS

-----------------------------------------------------------------------------
(* The ring of the cached stream                                           *)

\* The numbers among the constants.
LEMMA Numbers ==
  /\ CacheSize \in Nat \ {0} /\ BlockSize \in Nat \ {0} /\ BlockSize <= CacheSize
  /\ MaxSize \in Nat /\ Places \subseteq 0..MaxSize
BY OutStreamAssumption DEF OutStreamAssumption

\* The remainder of a division is determined by the number that is divided.
LEMMA RemainderUnique ==
  ASSUME NEW n \in Nat \ {0}, NEW a \in Int, NEW q \in Int, NEW r \in 0..(n - 1), a = n * q + r
  PROVE  a % n = r
<1> DEFINE p == a \div n
           s == a % n
<1>1. p \in Int /\ s \in 0..(n - 1) /\ a = n * p + s
  OBVIOUS
<1> HIDE DEF p, s
<1>2. s = r
  <2>1. CASE p = q
    BY <1>1, <2>1
  <2>2. CASE p >= q + 1
    <3>1. n * p >= n * (q + 1) /\ n * (q + 1) = n * q + n
      BY <1>1, <2>2
    <3> QED
      BY <1>1, <3>1
  <2>3. CASE q >= p + 1
    <3>1. n * q >= n * (p + 1) /\ n * (p + 1) = n * p + n
      BY <1>1, <2>3
    <3> QED
      BY <1>1, <3>1
  <2> QED
    BY <1>1, <2>1, <2>2, <2>3
<1> QED
  BY <1>2 DEF s

\* A slot is within the ring.
LEMMA SlotRange ==
  ASSUME NEW p \in Nat
  PROVE  C!Slot(p) \in 0..(CacheSize - 1)
<1>1. CacheSize \in Nat \ {0}
  BY Numbers
<1> QED
  BY <1>1 DEF C!Slot

\* A number is a number of rounds and a remainder.
LEMMA DivisionIs ==
  ASSUME NEW n \in Nat \ {0}, NEW a \in Int
  PROVE  a \div n \in Int /\ a % n \in 0..(n - 1) /\ a = n * (a \div n) + (a % n)
OBVIOUS

\* A position is a number of rounds of the ring and a slot.
LEMMA SlotOf ==
  ASSUME NEW p \in Nat
  PROVE  \E q \in Int : p = CacheSize * q + C!Slot(p)
<1>1. CacheSize \in Nat \ {0}
  BY Numbers
<1>2. p \div CacheSize \in Int /\ p = CacheSize * (p \div CacheSize) + (p % CacheSize)
  BY <1>1, DivisionIs
<1>3. p = CacheSize * (p \div CacheSize) + C!Slot(p)
  BY <1>2 DEF C!Slot
<1> DEFINE q == p \div CacheSize
<1>4. q \in Int /\ p = CacheSize * q + C!Slot(p)
  BY <1>2, <1>3
<1> HIDE DEF q
<1> QED
  BY <1>4

\* Bytes that lie next to each other in the file lie next to each other in the ring, up
\* to its end.
LEMMA SlotNext ==
  ASSUME NEW p \in Nat, NEW j \in Nat, C!Slot(p) + j < CacheSize
  PROVE  C!Slot(p + j) = C!Slot(p) + j
<1>1. PICK q \in Int : p = CacheSize * q + C!Slot(p)
  BY SlotOf
<1>2. /\ C!Slot(p) + j \in 0..(CacheSize - 1) /\ CacheSize \in Nat \ {0}
      /\ C!Slot(p) \in Int
  BY SlotRange, Numbers
<1>3. p + j = CacheSize * q + (C!Slot(p) + j)
  <2>1. CacheSize * q \in Int
    BY <1>2
  <2> QED
    BY <1>1, <1>2, <2>1
<1>4. (p + j) % CacheSize = C!Slot(p) + j
  <2>1. p + j \in Int
    OBVIOUS
  <2> QED
    BY <1>2, <1>3, <2>1, RemainderUnique
<1> QED
  BY <1>4 DEF C!Slot

\* Behind the end of the ring the next bytes are at its start.
LEMMA SlotWraps ==
  ASSUME NEW p \in Nat, NEW j \in 0..CacheSize, C!Slot(p) + j >= CacheSize
  PROVE  C!Slot(p + j) = C!Slot(p) + j - CacheSize
<1>1. PICK q \in Int : p = CacheSize * q + C!Slot(p)
  BY SlotOf
<1>2. /\ C!Slot(p) + j - CacheSize \in 0..(CacheSize - 1) /\ CacheSize \in Nat \ {0}
      /\ C!Slot(p) \in Int
  BY SlotRange, Numbers
<1>3. p + j = CacheSize * (q + 1) + (C!Slot(p) + j - CacheSize)
  <2>1. CacheSize * q \in Int /\ CacheSize * (q + 1) = CacheSize * q + CacheSize
    BY <1>2
  <2> QED
    BY <1>1, <1>2, <2>1
<1>4. (p + j) % CacheSize = C!Slot(p) + j - CacheSize
  <2>1. p + j \in Int /\ q + 1 \in Int
    OBVIOUS
  <2> QED
    BY <1>2, <1>3, <2>1, RemainderUnique
<1> QED
  BY <1>4 DEF C!Slot

\* Two bytes less than a ring apart have slots of their own.
LEMMA SlotsDiffer ==
  ASSUME NEW p \in Nat, NEW q \in Nat, p < q, q - p < CacheSize
  PROVE  C!Slot(p) # C!Slot(q)
<1>1. q = p + (q - p) /\ q - p \in Nat /\ C!Slot(p) \in 0..(CacheSize - 1) /\ CacheSize \in Nat
  BY SlotRange, Numbers
<1>2. CASE C!Slot(p) + (q - p) < CacheSize
  <2>1. C!Slot(p + (q - p)) = C!Slot(p) + (q - p)
    BY <1>1, <1>2, SlotNext
  <2> QED
    BY <1>1, <2>1
<1>3. CASE C!Slot(p) + (q - p) >= CacheSize
  <2>1. C!Slot(p + (q - p)) = C!Slot(p) + (q - p) - CacheSize
    BY <1>1, <1>3, SlotWraps
  <2> QED
    BY <1>1, <2>1
<1> QED
  BY <1>1, <1>2, <1>3

\* A byte that is in the ring with the byte at p, within Slot(p) .. Slot(p) + n - 1, is one
\* of the n bytes from p on.
LEMMA SlotWithin ==
  ASSUME NEW p \in Nat, NEW q \in Nat, NEW n \in Nat, C!Slot(p) + n <= CacheSize,
         q - p < CacheSize, p + n - q <= CacheSize
  PROVE  C!Slot(q) - C!Slot(p) \in 0..(n - 1) <=> q \in p..(p + n - 1)
<1>1. C!Slot(p) \in 0..(CacheSize - 1) /\ C!Slot(q) \in 0..(CacheSize - 1) /\ CacheSize \in Nat
  BY SlotRange, Numbers
<1>2. ASSUME q \in p..(p + n - 1)
      PROVE  C!Slot(q) - C!Slot(p) \in 0..(n - 1)
  <2>1. q = p + (q - p) /\ q - p \in Nat /\ C!Slot(p) + (q - p) < CacheSize
    BY <1>1, <1>2
  <2>2. C!Slot(q) = C!Slot(p) + (q - p)
    BY <2>1, SlotNext
  <2> QED
    BY <1>1, <1>2, <2>2
<1>3. ASSUME C!Slot(q) - C!Slot(p) \in 0..(n - 1), q \notin p..(p + n - 1)
      PROVE  FALSE
  <2> DEFINE x == p + (C!Slot(q) - C!Slot(p))
  <2>1. x \in Nat /\ x \in p..(p + n - 1) /\ C!Slot(x) = C!Slot(q)
    <3>1. C!Slot(p + (C!Slot(q) - C!Slot(p))) = C!Slot(p) + (C!Slot(q) - C!Slot(p))
      BY <1>1, <1>3, SlotNext
    <3> QED
      BY <1>1, <1>3, <3>1
  <2> HIDE DEF x
  <2>2. x # q
    BY <1>3, <2>1
  <2>3. x < q => q - x < CacheSize
    BY <2>1, <1>1
  <2>4. q < x => x - q < CacheSize
    BY <2>1, <1>1
  <2> QED
    BY <2>1, <2>2, <2>3, <2>4, <1>1, SlotsDiffer
<1> QED
  BY <1>2, <1>3

\* A function on 1..n is a sequence.
LEMMA FunctionIsSeq ==
  ASSUME NEW n \in Nat, NEW S, NEW f \in [1..n -> S]
  PROVE  f \in Seq(S) /\ Len(f) = n
OBVIOUS

\* What the file below holds after some bytes have been stored in it.
Overwritten(g, S, f, p, d) ==
  /\ g \in Seq(S)
  /\ Len(g) = IF Len(f) < p + Len(d) THEN p + Len(d) ELSE Len(f)
  /\ \A k \in 1..Len(g) :
       g[k] = IF k \in (p + 1)..(p + Len(d)) THEN d[k - p]
              ELSE IF k <= Len(f) THEN f[k] ELSE Zero

LEMMA StoredIs ==
  ASSUME NEW S, Zero \in S, NEW f \in Seq(S), NEW p \in Nat, NEW d \in Seq(S)
  PROVE  Overwritten(C!O!Stored(f, p, d), S, f, p, d)
<1> DEFINE size == IF Len(f) < p + Len(d) THEN p + Len(d) ELSE Len(f)
           val(k) == IF k - p \in DOMAIN d THEN d[k - p]
                     ELSE IF k <= Len(f) THEN f[k] ELSE Zero
           g == C!O!Stored(f, p, d)
<1>1. Len(f) \in Nat /\ Len(d) \in Nat /\ DOMAIN d = 1..Len(d) /\ DOMAIN f = 1..Len(f)
  OBVIOUS
<1>2. size \in Nat
  BY <1>1
<1>3. g = [k \in 1..size |-> val(k)]
  BY <1>1, <1>2 DEF C!O!Stored, C!O!Resized
<1>4. ASSUME NEW k \in 1..size PROVE val(k) \in S
  <2>1. CASE k - p \in DOMAIN d
    BY <2>1
  <2>2. CASE k - p \notin DOMAIN d /\ k <= Len(f)
    <3>1. k \in 1..Len(f)
      BY <2>2, <1>1, <1>2
    <3> QED
      BY <2>2, <3>1
  <2>3. CASE k - p \notin DOMAIN d /\ ~(k <= Len(f))
    BY <2>3
  <2> QED
    BY <2>1, <2>2, <2>3
<1> HIDE DEF g
<1>5. g \in [1..size -> S]
  BY <1>3, <1>4
<1>6. g \in Seq(S) /\ Len(g) = size
  BY <1>2, <1>5, FunctionIsSeq
<1>7. ASSUME NEW k \in 1..size
      PROVE  k - p \in DOMAIN d <=> k \in (p + 1)..(p + Len(d))
  BY <1>1, <1>2
<1>8. \A k \in 1..size : g[k] = val(k)
  BY <1>3
<1> QED
  BY <1>6, <1>7, <1>8 DEF g, Overwritten

\* What it holds after its size has been set.
LEMMA ResizedIs ==
  ASSUME NEW S, Zero \in S, NEW f \in Seq(S), NEW n \in Nat
  PROVE  LET g == C!O!Resized(f, n)
         IN  /\ g \in Seq(S) /\ Len(g) = n
             /\ \A k \in 1..n : g[k] = IF k <= Len(f) THEN f[k] ELSE Zero
<1> DEFINE g == C!O!Resized(f, n)
<1>1. g = [k \in 1..n |-> IF k <= Len(f) THEN f[k] ELSE Zero]
  BY DEF C!O!Resized
<1>2. ASSUME NEW k \in 1..n PROVE (IF k <= Len(f) THEN f[k] ELSE Zero) \in S
  <2>1. CASE k <= Len(f)
    <3>1. k \in 1..Len(f)
      BY <2>1
    <3> QED
      BY <2>1, <3>1
  <2> QED
    BY <2>1
<1> HIDE DEF g
<1>3. g \in [1..n -> S]
  BY <1>1, <1>2
<1>4. g \in Seq(S) /\ Len(g) = n
  BY <1>3, FunctionIsSeq
<1>5. \A k \in 1..n : g[k] = IF k <= Len(f) THEN f[k] ELSE Zero
  BY <1>1
<1> QED
  BY <1>4, <1>5 DEF g

-----------------------------------------------------------------------------
(* The invariant of the cached stream                                      *)

\* Byte k of the file, for the zip writer, wherever it is; Virtual ends at virtSize.
ByteAt(k) ==
  IF k - 1 \in cCachedPos..(C!cachedEnd - 1) THEN cCache[C!Slot(k - 1)]
  ELSE IF k <= Len(cPhys) THEN cPhys[k] ELSE Zero

\* No error so far.  The destructor overlooks its own errors, so that one that may fail
\* promises nothing.
Intact == ~cFailed /\ (cPc \in {"release", "closed"} => "release" \notin MayFail)

\* The parameters of the calls, and how far the file below may be from phyPos.
CallInv ==
  /\ cPc \in {"gap", "zeros", "store"} =>
       ~cFailed /\ cData \in Data /\ cVirtPos + Len(cData) <= MaxSize
  /\ cPc \in {"idle", "closed"} => cLeft = 0
  /\ C!cachedEnd <= MaxSize
  /\ cPc # "closed" /\ (cPc = "release" => cLeft > 0) => cFilePos - cPhyPos \in 0..(CacheSize - 1)

\* Where the cached bytes are, in each part of a call.
Placed ==
  /\ cPc \in {"idle", "gap", "release"} =>
       cPhySize <= cVirtSize /\ (cCachedSize > 0 => C!cachedEnd <= cVirtSize)
  /\ cPc = "gap" =>
       /\ cLeft > 0 => cLeft = cCachedSize
       /\ cLeft = 0 /\ cCachedSize > 0 => ~C!FlushBefore
  /\ cPc = "zeros" =>
       cCachedPos <= cPhySize /\ cPhySize <= C!cachedEnd /\ C!cachedEnd <= cVirtPos
  /\ cPc = "store" =>
       /\ cPhySize <= cVirtSize \/ cPhySize <= cVirtPos
       /\ cCachedSize > 0 =>
            /\ cCachedPos <= cVirtPos /\ cVirtPos <= C!cachedEnd
            /\ C!cachedEnd <= cVirtSize \/ C!cachedEnd = cVirtPos
       /\ cCachedSize = 0 => cVirtPos <= cPhySize
       /\ cLeft > 0 => cVirtPos = C!cachedEnd
  /\ cPc = "release" => cLeft = cCachedSize

\* As long as there was no error the fields tell the truth, no byte is missing between the
\* file and the cached bytes, and all that is beyond the end is zero, as it would be read
\* if the file grew.
DataInv ==
  Intact /\ cPc # "closed" =>
    /\ cFilePos = cPhyPos /\ cPhySize = Len(cPhys)
    /\ cCachedSize > 0 => cCachedPos <= cPhySize
    /\ \A k \in Nat : k > cVirtSize => ByteAt(k) = Zero
    /\ Placed

CacheInv == C!TypeOK /\ CallInv /\ DataInv

\* The types, as facts about numbers.
LEMMA CacheTypes ==
  ASSUME C!TypeOK
  PROVE  /\ cPhys \in Seq(Byte) /\ cFilePos \in Nat /\ cPhyPos \in Nat /\ cPhySize \in Nat
         /\ cVirtPos \in Nat /\ cVirtSize \in Nat /\ cCachedPos \in Nat /\ cCachedSize \in Nat
         /\ cCachedSize <= CacheSize /\ cLeft \in Nat /\ C!cachedEnd \in Nat
         /\ C!cachedEnd = cCachedPos + cCachedSize /\ Len(cPhys) \in Nat
         /\ Zero \in Byte
BY Numbers, OutStreamAssumption DEF OutStreamAssumption, C!TypeOK, C!cachedEnd

\* A round of MyWrite takes bytes that lie next to each other in the ring, and at least
\* one if there are any.
LEMMA ChunkIs ==
  ASSUME C!TypeOK, cLeft > 0
  PROVE  /\ C!Chunk \in 0..cCachedSize /\ C!Chunk <= cLeft
         /\ C!Slot(cCachedPos) + C!Chunk <= CacheSize
         /\ cCachedSize > 0 => C!Chunk > 0
<1>1. C!Slot(cCachedPos) \in 0..(CacheSize - 1)
  BY CacheTypes, SlotRange
<1>2. /\ CacheSize \in Nat /\ cCachedSize \in Nat /\ cLeft \in Nat
      /\ CacheSize - C!Slot(cCachedPos) \in Nat \ {0}
  BY <1>1, Numbers, CacheTypes
<1> DEFINE a == C!MinOf(CacheSize - C!Slot(cCachedPos), cCachedSize)
<1>3. /\ a \in Nat /\ a <= CacheSize - C!Slot(cCachedPos) /\ a <= cCachedSize
      /\ cCachedSize > 0 => a > 0
  BY <1>2 DEF C!MinOf
<1>4. C!Chunk = IF a < cLeft THEN a ELSE cLeft
  BY DEF C!Chunk, C!MinOf
<1> HIDE DEF a
<1> QED
  BY <1>1, <1>2, <1>3, <1>4

\* These bytes.
LEMMA BytesIs ==
  ASSUME C!TypeOK, cLeft > 0, NEW n \in 0..C!Chunk
  PROVE  /\ C!Bytes(n) \in Seq(Byte) /\ Len(C!Bytes(n)) = n
         /\ \A k \in 1..n : C!Bytes(n)[k] = cCache[C!Slot(cCachedPos + k - 1)]
<1>1. C!Slot(cCachedPos) \in 0..(CacheSize - 1)
  BY CacheTypes, SlotRange
<1>2. n \in Nat /\ C!Slot(cCachedPos) + n <= CacheSize
  <2>1. PICK c : c = C!Chunk
    OBVIOUS
  <2>2. c \in 0..cCachedSize /\ C!Slot(cCachedPos) + c <= CacheSize /\ n \in 0..c
    BY <2>1, ChunkIs
  <2>3. CacheSize \in Nat /\ cCachedSize \in Nat
    BY Numbers, CacheTypes
  <2> QED
    BY <1>1, <2>2, <2>3
<1>3. ASSUME NEW k \in 1..n
      PROVE  /\ C!Slot(cCachedPos) + k - 1 \in 0..(CacheSize - 1)
             /\ C!Slot(cCachedPos + k - 1) = C!Slot(cCachedPos) + k - 1
  <2>1. k - 1 \in Nat /\ C!Slot(cCachedPos) + (k - 1) < CacheSize /\ cCachedPos \in Nat
    BY SMTT(30), <1>1, <1>2, Numbers, CacheTypes
  <2>2. C!Slot(cCachedPos + (k - 1)) = C!Slot(cCachedPos) + (k - 1)
    BY <2>1, SlotNext
  <2>3. cCachedPos + (k - 1) = cCachedPos + k - 1
    BY <2>1
  <2> QED
    BY <2>1, <2>2, <2>3, <1>1, Numbers
<1>4. cCache \in [0..(CacheSize - 1) -> Byte]
  BY DEF C!TypeOK
<1>5. C!Bytes(n) = [k \in 1..n |-> cCache[C!Slot(cCachedPos) + k - 1]]
  BY DEF C!Bytes
<1>6. C!Bytes(n) \in [1..n -> Byte]
  BY <1>3, <1>4, <1>5
<1>7. C!Bytes(n) \in Seq(Byte) /\ Len(C!Bytes(n)) = n
  BY <1>2, <1>6, FunctionIsSeq
<1>8. ASSUME NEW k \in 1..n
      PROVE  C!Bytes(n)[k] = cCache[C!Slot(cCachedPos + k - 1)]
  BY <1>3, <1>5
<1> QED
  BY <1>7, <1>8

-----------------------------------------------------------------------------
(* MyWrite                                                                 *)

\* MyWrite moves bytes from the cache to the file and leaves every byte as it is.
LEMMA MyWriteKeepsBytes ==
  ASSUME C!TypeOK, C!MyWrite, cFilePos = cPhyPos, cPhySize = Len(cPhys)
  PROVE  /\ cPhySize' = Len(cPhys') /\ cFilePos' = cPhyPos'
         /\ \A k \in Nat : k > 0 => ByteAt(k)' = ByteAt(k)
<1> DEFINE n == C!Chunk
           d == C!Bytes(n)
<1>1. /\ cCachedPos \in Nat /\ cCachedSize \in Nat /\ cPhys \in Seq(Byte) /\ Len(cPhys) \in Nat
      /\ C!cachedEnd = cCachedPos + cCachedSize /\ Zero \in Byte /\ cFilePos \in Nat
  BY CacheTypes
<1>2. n \in Nat /\ n <= cCachedSize
  BY ChunkIs, CacheTypes DEF C!MyWrite
<1>3. /\ d \in Seq(Byte) /\ Len(d) = n
      /\ \A k \in 1..n : d[k] = cCache[C!Slot(cCachedPos + k - 1)]
  BY <1>2, BytesIs DEF C!MyWrite
<1>4. C!Target = cCachedPos
  BY DEF C!Target
<1>5. /\ cPhys' = C!O!Stored(cPhys, cCachedPos, d)
      /\ cFilePos' = cCachedPos + n /\ cPhyPos' = cCachedPos + n
      /\ cPhySize' = C!MaxOf(cPhySize, cCachedPos + n)
      /\ cCachedPos' = cCachedPos + n /\ cCachedSize' = cCachedSize - n
      /\ cCache' = cCache
  BY <1>4 DEF C!MyWrite
<1> HIDE DEF n, d
<1>6. /\ cPhys' \in Seq(Byte)
      /\ Len(cPhys') = IF Len(cPhys) < cCachedPos + n THEN cCachedPos + n ELSE Len(cPhys)
      /\ \A k \in 1..Len(cPhys') :
           cPhys'[k] = IF k \in (cCachedPos + 1)..(cCachedPos + n) THEN d[k - cCachedPos]
                       ELSE IF k <= Len(cPhys) THEN cPhys[k] ELSE Zero
  <2> DEFINE g == C!O!Stored(cPhys, cCachedPos, d)
  <2>1. /\ g \in Seq(Byte)
        /\ Len(g) = IF Len(cPhys) < cCachedPos + Len(d) THEN cCachedPos + Len(d) ELSE Len(cPhys)
        /\ \A k \in 1..Len(g) :
             g[k] = IF k \in (cCachedPos + 1)..(cCachedPos + Len(d)) THEN d[k - cCachedPos]
                    ELSE IF k <= Len(cPhys) THEN cPhys[k] ELSE Zero
    BY <1>1, <1>3, StoredIs DEF Overwritten
  <2> HIDE DEF g
  <2>2. cPhys' = g
    BY <1>5 DEF g
  <2> QED
    BY <1>3, <2>1, <2>2
<1>7. cPhySize' = Len(cPhys')
  BY <1>1, <1>2, <1>5, <1>6 DEF C!MaxOf
<1>8. C!cachedEnd' = C!cachedEnd
  BY <1>1, <1>2, <1>5 DEF C!cachedEnd
<1>9. ASSUME NEW k \in Nat, k > 0
      PROVE  ByteAt(k)' = ByteAt(k)
  <2>1. CASE k - 1 \in cCachedPos..(cCachedPos + n - 1)
    <3>1. k - 1 \in cCachedPos..(C!cachedEnd - 1) /\ ~(k - 1 \in cCachedPos'..(C!cachedEnd' - 1))
      BY <1>1, <1>2, <1>5, <1>8, <2>1
    <3>2. /\ k \in 1..Len(cPhys') /\ k \in (cCachedPos + 1)..(cCachedPos + n)
          /\ k - cCachedPos \in 1..n /\ cCachedPos + (k - cCachedPos) - 1 = k - 1
      <4>1. Len(cPhys') \in Nat /\ Len(cPhys') >= cCachedPos + n
        BY <1>1, <1>2, <1>6
      <4> QED
        BY <1>1, <1>2, <4>1, <2>1, <1>9
    <3>3. ByteAt(k)' = d[k - cCachedPos]
      BY <3>1, <3>2, <1>6 DEF ByteAt
    <3>4. d[k - cCachedPos] = cCache[C!Slot(k - 1)]
      <4>1. d[k - cCachedPos] = cCache[C!Slot(cCachedPos + (k - cCachedPos) - 1)]
        BY <3>2, <1>3
      <4> QED
        BY <4>1, <3>2
    <3> QED
      BY <3>1, <3>3, <3>4 DEF ByteAt
  <2>2. CASE k - 1 \in (cCachedPos + n)..(C!cachedEnd - 1)
    <3>1. k - 1 \in cCachedPos..(C!cachedEnd - 1) /\ k - 1 \in cCachedPos'..(C!cachedEnd' - 1)
      BY <1>1, <1>2, <1>5, <1>8, <2>2
    <3> QED
      BY <3>1, <1>5 DEF ByteAt, C!Slot
  <2>3. CASE k - 1 \notin cCachedPos..(C!cachedEnd - 1)
    <3>1. ~(k - 1 \in cCachedPos'..(C!cachedEnd' - 1)) /\ ~(k \in (cCachedPos + 1)..(cCachedPos + n))
      BY <1>1, <1>2, <1>5, <1>8, <2>3
    <3>2. CASE k <= Len(cPhys')
      <4>1. k \in 1..Len(cPhys')
        BY <3>2, <1>9, <1>6, <1>1, <1>2
      <4> QED
        BY <3>1, <3>2, <4>1, <1>6, <2>3 DEF ByteAt
    <3>3. CASE ~(k <= Len(cPhys'))
      <4>1. ~(k <= Len(cPhys))
        BY <3>3, <1>1, <1>2, <1>6
      <4> QED
        BY <3>1, <3>3, <4>1, <2>3 DEF ByteAt
    <3> QED
      BY <3>2, <3>3
  <2> QED
    BY <1>1, <1>2, <2>1, <2>2, <2>3
<1> QED
  BY <1>5, <1>7, <1>9

\* The types after a round of MyWrite, also of the destructor after an error.
LEMMA MyWriteTypes ==
  ASSUME C!TypeOK, CallInv, C!MyWrite
  PROVE  C!TypeOK' /\ CallInv'
<1> DEFINE n == C!Chunk
<1>1. /\ cCachedPos \in Nat /\ cCachedSize \in Nat /\ cPhys \in Seq(Byte) /\ Len(cPhys) \in Nat
      /\ C!cachedEnd = cCachedPos + cCachedSize /\ Zero \in Byte /\ cFilePos \in Nat
      /\ cPhyPos \in Nat /\ cPhySize \in Nat /\ cLeft \in Nat /\ cCachedSize <= CacheSize
  BY CacheTypes
<1>2. n \in Nat /\ n <= cCachedSize /\ n <= cLeft
  BY ChunkIs, CacheTypes DEF C!MyWrite
<1>3. C!Bytes(n) \in Seq(Byte)
  BY <1>2, BytesIs DEF C!MyWrite
<1>4. /\ cPhys' = C!O!Stored(cPhys, C!Target, C!Bytes(n))
      /\ cFilePos' = C!Target + n /\ cPhyPos' = cCachedPos + n
      /\ cPhySize' = C!MaxOf(cPhySize, cCachedPos + n)
      /\ cCachedPos' = cCachedPos + n /\ cCachedSize' = cCachedSize - n
      /\ cLeft' = IF cCachedSize = n THEN 0 ELSE cLeft - n
      /\ UNCHANGED <<cVirtPos, cVirtSize, cCache, cPc, cData, cFailed>> /\ cLeft > 0
  BY DEF C!MyWrite, C!virtVars
<1>5. /\ C!Target = IF cPhyPos = cCachedPos THEN cFilePos ELSE cCachedPos
      /\ C!cachedEnd <= MaxSize /\ MaxSize \in Nat /\ CacheSize \in Nat \ {0}
      /\ cFilePos - cPhyPos \in 0..(CacheSize - 1)
  BY <1>4, Numbers DEF C!Target, CallInv
<1> HIDE DEF n
<1>6. C!Target \in Nat /\ C!Target - cCachedPos \in 0..(CacheSize - 1)
  BY <1>1, <1>5
<1>7. cPhys' \in Seq(Byte)
  BY <1>1, <1>3, <1>4, <1>6, StoredIs DEF Overwritten
<1>8. /\ cFilePos' \in 0..(MaxSize + CacheSize) /\ cPhyPos' \in 0..MaxSize
      /\ cFilePos' - cPhyPos' \in 0..(CacheSize - 1)
      /\ cCachedPos' \in 0..MaxSize /\ cCachedSize' \in 0..CacheSize
      /\ cCachedPos' + cCachedSize' = C!cachedEnd
  BY <1>1, <1>2, <1>4, <1>5, <1>6
<1>9. cPhySize' \in 0..MaxSize
  <2>1. cPhySize \in 0..MaxSize
    BY DEF C!TypeOK
  <2> QED
    BY <1>1, <1>2, <1>4, <1>5, <2>1 DEF C!MaxOf
<1>10. cLeft' \in 0..CacheSize
  <2>1. cLeft \in 0..CacheSize
    BY DEF C!TypeOK
  <2> QED
    BY <1>1, <1>2, <1>4, <1>5, <2>1
<1>11. C!TypeOK'
  BY <1>4, <1>7, <1>8, <1>9, <1>10 DEF C!TypeOK
<1>12. CallInv'
  BY <1>4, <1>5, <1>8 DEF CallInv, C!cachedEnd
<1> QED
  BY <1>11, <1>12

\* Whatever part of a call it belongs to, it leaves the cached bytes well placed.
LEMMA MyWriteStep ==
  ASSUME CacheInv, C!MyWrite
  PROVE  /\ CacheInv'
         /\ Intact => \A k \in Nat : k > 0 => ByteAt(k)' = ByteAt(k)
<1> DEFINE n == C!Chunk
<1>1. C!TypeOK' /\ CallInv'
  BY MyWriteTypes DEF CacheInv
<1>2. /\ cCachedPos \in Nat /\ cCachedSize \in Nat /\ Len(cPhys) \in Nat
      /\ C!cachedEnd = cCachedPos + cCachedSize /\ cVirtPos \in Nat /\ cVirtSize \in Nat
      /\ cPhySize \in Nat /\ cLeft \in Nat
  BY CacheTypes DEF CacheInv
<1>3. n \in Nat /\ n <= cCachedSize /\ n <= cLeft
  BY ChunkIs, <1>2 DEF C!MyWrite, CacheInv
<1>4. /\ cPhySize' = C!MaxOf(cPhySize, cCachedPos + n)
      /\ cCachedPos' = cCachedPos + n /\ cCachedSize' = cCachedSize - n
      /\ cLeft' = IF cCachedSize = n THEN 0 ELSE cLeft - n
      /\ cLeft > 0
      /\ UNCHANGED <<cVirtPos, cVirtSize, cCache, cPc, cData, cFailed>>
  BY DEF C!MyWrite, C!virtVars
<1> HIDE DEF n
<1>5. cPc # "closed" /\ cPc # "idle" /\ Intact' = Intact
  BY <1>4 DEF CacheInv, CallInv, Intact
<1>6. SUFFICES ASSUME Intact
               PROVE  DataInv' /\ \A k \in Nat : k > 0 => ByteAt(k)' = ByteAt(k)
  BY <1>1, <1>5 DEF CacheInv, DataInv
<1>7. /\ cFilePos = cPhyPos /\ cPhySize = Len(cPhys)
      /\ \A k \in Nat : k > cVirtSize => ByteAt(k) = Zero
      /\ cCachedSize > 0 => cCachedPos <= cPhySize
      /\ Placed
  BY <1>5, <1>6 DEF CacheInv, DataInv
<1>8. /\ cPhySize' = Len(cPhys') /\ cFilePos' = cPhyPos'
      /\ \A k \in Nat : k > 0 => ByteAt(k)' = ByteAt(k)
  BY <1>7, MyWriteKeepsBytes DEF CacheInv
<1>9. \A k \in Nat : k > cVirtSize => ByteAt(k)' = Zero
  <2> TAKE k \in Nat
  <2> HAVE k > cVirtSize
  <2>1. k > 0
    BY <1>2
  <2> QED
    BY <2>1, <1>7, <1>8
<1>10. /\ cPhySize' = IF cPhySize < cCachedPos + n THEN cCachedPos + n ELSE cPhySize
       /\ C!cachedEnd' = C!cachedEnd
  BY <1>2, <1>3, <1>4 DEF C!MaxOf, C!cachedEnd
<1>11. cCachedPos' <= cPhySize'
  BY <1>2, <1>3, <1>4, <1>10
<1>12. Placed'
  <2>1. CASE cPc = "gap"
    BY <1>2, <1>3, <1>4, <1>7, <1>10, <2>1 DEF Placed
  <2>2. CASE cPc = "zeros"
    BY <1>2, <1>3, <1>4, <1>7, <1>10, <2>2 DEF Placed
  <2>3. CASE cPc = "store"
    BY <1>2, <1>3, <1>4, <1>7, <1>10, <2>3 DEF Placed
  <2>4. CASE cPc = "release"
    BY <1>2, <1>3, <1>4, <1>7, <1>10, <2>4 DEF Placed
  <2> QED
    BY <1>4, <1>5, <2>1, <2>2, <2>3, <2>4, <1>1 DEF C!TypeOK, C!Place, Placed
<1> QED
  BY <1>4, <1>8, <1>9, <1>11, <1>12 DEF DataInv

\* A round that failed: the error is returned, or this is the destructor.
LEMMA MyWriteFailsStep ==
  ASSUME CacheInv, C!MyWriteFails
  PROVE  CacheInv'
<1>1. /\ cCachedPos \in Nat /\ cCachedSize \in Nat /\ cPhys \in Seq(Byte) /\ Len(cPhys) \in Nat
      /\ C!cachedEnd = cCachedPos + cCachedSize /\ Zero \in Byte /\ cFilePos \in Nat
      /\ cPhyPos \in Nat /\ cLeft \in Nat /\ cCachedSize <= CacheSize /\ C!TypeOK /\ cLeft > 0
  BY CacheTypes DEF CacheInv, C!MyWriteFails
<1>2. PICK n \in 0..(C!Chunk - 1) :
        cPhys' = C!O!Stored(cPhys, C!Target, C!Bytes(n)) /\ cFilePos' = C!Target + n
  BY DEF C!MyWriteFails
<1>3. n \in Nat /\ n < cCachedSize /\ n \in 0..C!Chunk
  BY <1>1, <1>2, ChunkIs
<1>4. C!Bytes(n) \in Seq(Byte)
  BY <1>1, <1>3, BytesIs
<1>5. /\ cPhyPos' = cCachedPos /\ cLeft' = 0
      /\ cPc = "release" => UNCHANGED <<cPc, cData, cFailed>> /\ "release" \in MayFail
      /\ cPc # "release" => cPc' = "idle" /\ cData' = <<>> /\ cFailed' = TRUE
      /\ UNCHANGED <<cPhySize, cVirtPos, cVirtSize, cCachedPos, cCachedSize, cCache>>
  BY DEF C!MyWriteFails, C!virtVars, C!cacheVars
<1>6. /\ C!Target = IF cPhyPos = cCachedPos THEN cFilePos ELSE cCachedPos
      /\ C!cachedEnd <= MaxSize /\ MaxSize \in Nat /\ CacheSize \in Nat \ {0}
      /\ cPc # "closed" /\ cPc # "idle" /\ cFilePos - cPhyPos \in 0..(CacheSize - 1)
  BY <1>1, Numbers DEF C!Target, CacheInv, CallInv
<1>7. C!Target \in Nat /\ C!Target - cCachedPos \in 0..(CacheSize - 1)
  BY <1>1, <1>6
<1>8. cPhys' \in Seq(Byte)
  BY <1>1, <1>2, <1>4, <1>7, StoredIs DEF Overwritten
<1>9. cFilePos' \in 0..(MaxSize + CacheSize) /\ cPhyPos' \in 0..MaxSize
  BY <1>1, <1>2, <1>3, <1>5, <1>6, <1>7
<1>10. C!TypeOK'
  <2>1. cPc' \in C!Place /\ cData' \in Data \cup {<<>>} /\ cFailed' \in BOOLEAN
    BY <1>1, <1>5 DEF C!TypeOK, C!Place
  <2>2. cLeft' \in 0..CacheSize
    BY <1>5, Numbers
  <2>3. /\ cPhySize' \in 0..MaxSize /\ cVirtPos' \in 0..MaxSize /\ cVirtSize' \in 0..MaxSize
        /\ cCachedPos' \in 0..MaxSize /\ cCachedSize' \in 0..CacheSize
        /\ cCache' \in [0..(CacheSize - 1) -> Byte]
    BY <1>1, <1>5 DEF C!TypeOK
  <2> QED
    BY <1>8, <1>9, <2>1, <2>2, <2>3 DEF C!TypeOK
<1>11. cPc # "release" => cFilePos' - cPhyPos' \in 0..(CacheSize - 1)
  <2>1. cPc # "release" => ~cFailed
    BY <1>6, <1>1 DEF CacheInv, CallInv, C!TypeOK, C!Place
  <2>2. cPc # "release" => cFilePos = cPhyPos
    BY <2>1, <1>6 DEF CacheInv, DataInv, Intact
  <2> QED
    BY <1>1, <1>2, <1>3, <1>5, <1>6, <2>2
<1>12. CallInv'
  BY <1>1, <1>5, <1>6, <1>11 DEF CallInv, CacheInv, C!cachedEnd
<1>13. DataInv'
  BY <1>5 DEF DataInv, Intact
<1> QED
  BY <1>10, <1>12, <1>13 DEF CacheInv

-----------------------------------------------------------------------------
(* Write                                                                   *)

\* A block boundary is less than a block away.
LEMMA ToBlockEndIs ==
  ASSUME C!TypeOK
  PROVE  C!ToBlockEnd \in 1..CacheSize
<1>1. cCachedPos \in Nat /\ BlockSize \in Nat \ {0} /\ BlockSize <= CacheSize /\ CacheSize \in Nat
  BY Numbers, CacheTypes
<1>2. cCachedPos % BlockSize \in 0..(BlockSize - 1)
  BY <1>1, DivisionIs
<1> QED
  BY <1>1, <1>2 DEF C!ToBlockEnd

\* A call of Write begins, and perhaps flushes the cached bytes.
LEMMA CacheWriteStep ==
  ASSUME CacheInv, NEW d \in Data, C!Write(d)
  PROVE  CacheInv'
<1>1. /\ cPc = "idle" /\ cPc' = "gap" /\ ~cFailed /\ cVirtPos + Len(d) <= MaxSize /\ cData' = d
      /\ cLeft' = IF cCachedSize # 0 /\ C!FlushBefore THEN cCachedSize ELSE 0
      /\ UNCHANGED <<cPhys, cFilePos, cPhyPos, cPhySize, cVirtPos, cVirtSize,
                     cCachedPos, cCachedSize, cCache, cFailed>>
  BY DEF C!Write, C!phyVars, C!virtVars, C!cacheVars
<1>2. C!TypeOK /\ CallInv /\ DataInv /\ cCachedSize \in Nat
  BY CacheTypes DEF CacheInv
<1>3. C!TypeOK'
  BY <1>1, <1>2, Numbers DEF C!TypeOK, C!Place
<1>4. CallInv'
  BY <1>1, <1>2 DEF CallInv, C!cachedEnd
<1>5. DataInv'
  <2>1. C!cachedEnd' = C!cachedEnd /\ C!FlushBefore' = C!FlushBefore
    BY <1>1 DEF C!cachedEnd, C!FlushBefore
  <2>2. \A k \in Nat : ByteAt(k)' = ByteAt(k)
    BY <1>1, <2>1 DEF ByteAt, C!Slot
  <2> QED
    BY <1>1, <1>2, <2>1, <2>2 DEF DataInv, Intact, Placed
<1> QED
  BY <1>3, <1>4, <1>5 DEF CacheInv

\* It looks for a gap; cachedPos moves only when nothing is cached.
LEMMA FindGapStep ==
  ASSUME CacheInv, C!FindGap
  PROVE  CacheInv' /\ \A k \in Nat : ByteAt(k)' = ByteAt(k)
<1>1. /\ cPc = "gap" /\ cLeft = 0
      /\ cCachedPos' = IF cCachedSize = 0 /\ cPhySize < cVirtPos THEN cPhySize ELSE cCachedPos
      /\ cPc' = IF (cCachedSize = 0 /\ cPhySize < cVirtPos) \/ (cCachedSize # 0 /\ C!cachedEnd < cVirtPos)
                THEN "zeros" ELSE "store"
      /\ UNCHANGED <<cPhys, cFilePos, cPhyPos, cPhySize, cVirtPos, cVirtSize,
                     cCachedSize, cCache, cData, cLeft, cFailed>>
  BY DEF C!FindGap, C!phyVars, C!virtVars
<1>2. /\ cCachedPos \in Nat /\ cCachedSize \in Nat /\ C!cachedEnd = cCachedPos + cCachedSize
      /\ cVirtPos \in Nat /\ cVirtSize \in Nat /\ cPhySize \in Nat
      /\ C!TypeOK /\ CallInv /\ DataInv /\ MaxSize \in Nat
  BY CacheTypes, Numbers DEF CacheInv
<1>3. C!TypeOK' /\ C!cachedEnd' = cCachedPos' + cCachedSize'
  BY <1>1, <1>2 DEF C!TypeOK, C!Place, C!cachedEnd
<1>4. CallInv'
  <2>1. cPhySize <= MaxSize /\ cPhySize \in Nat
    BY <1>2 DEF C!TypeOK
  <2> QED
    BY <1>1, <1>2, <1>3, <2>1 DEF CallInv
<1>5. \A k \in Nat : ByteAt(k)' = ByteAt(k)
  <2>1. CASE cCachedSize = 0
    <3> TAKE k \in Nat
    <3>1. ~(k - 1 \in cCachedPos..(C!cachedEnd - 1)) /\ ~(k - 1 \in cCachedPos'..(C!cachedEnd' - 1))
      BY <1>1, <1>2, <1>3, <2>1
    <3> QED
      BY <1>1, <3>1 DEF ByteAt
  <2>2. CASE cCachedSize # 0
    <3>1. cCachedPos' = cCachedPos /\ C!cachedEnd' = C!cachedEnd
      BY <1>1, <1>2, <1>3, <2>2
    <3> QED
      BY <1>1, <3>1 DEF ByteAt, C!Slot
  <2> QED
    BY <2>1, <2>2
<1>6. (Intact /\ ~C!FlushBefore) \/ cCachedSize = 0
  BY <1>1, <1>2 DEF CallInv, DataInv, Intact, Placed
<1>7. Placed'
  BY <1>1, <1>2, <1>3, <1>6 DEF CallInv, DataInv, Intact, Placed, C!FlushBefore
<1>8. DataInv'
  BY <1>1, <1>2, <1>5, <1>7 DEF DataInv, Intact
<1> QED
  BY <1>3, <1>4, <1>5, <1>8 DEF CacheInv

\* It fills the gap with zeros, which are read there already, or makes room for them.
LEMMA FillZerosStep ==
  ASSUME CacheInv, C!FillZeros
  PROVE  CacheInv' /\ \A k \in Nat : k > 0 => ByteAt(k)' = ByteAt(k)
<1> DEFINE e == C!cachedEnd
           n == C!MinOf(CacheSize - C!Slot(e), cVirtPos - e)
<1>1. /\ cCachedPos \in Nat /\ cCachedSize \in Nat /\ e = cCachedPos + cCachedSize
      /\ cVirtPos \in Nat /\ cVirtSize \in Nat /\ cPhySize \in Nat /\ Len(cPhys) \in Nat
      /\ cCachedSize <= CacheSize /\ CacheSize \in Nat \ {0} /\ MaxSize \in Nat
      /\ C!TypeOK /\ CallInv /\ DataInv
  BY CacheTypes, Numbers DEF CacheInv
<1>2. /\ cPc = "zeros" /\ cLeft = 0
      /\ UNCHANGED <<cPhys, cFilePos, cPhyPos, cPhySize, cVirtPos, cVirtSize, cCachedPos,
                     cData, cFailed>>
  BY DEF C!FillZeros, C!phyVars, C!virtVars
<1>3. /\ Intact /\ ~cFailed
      /\ cCachedPos <= cPhySize /\ cPhySize <= e /\ e <= cVirtPos
      /\ cPhySize = Len(cPhys) /\ cFilePos = cPhyPos
      /\ \A k \in Nat : k > cVirtSize => ByteAt(k) = Zero
      /\ cVirtPos <= MaxSize
  BY <1>1, <1>2 DEF CallInv, DataInv, Intact, Placed, C!TypeOK
<1>4. C!Slot(e) \in 0..(CacheSize - 1) /\ e \in Nat
  BY <1>1, SlotRange
<1>5. n \in Nat /\ C!Slot(e) + n <= CacheSize /\ e + n <= cVirtPos /\ (n = 0 => e = cVirtPos)
  BY <1>1, <1>3, <1>4 DEF C!MinOf
<1>6. CASE n > CacheSize - cCachedSize
  <2>1. cLeft' = C!ToBlockEnd /\ UNCHANGED <<cCachedSize, cCache, cPc>>
    BY <1>6 DEF C!FillZeros
  <2>2. C!ToBlockEnd \in 1..CacheSize
    BY <1>1, ToBlockEndIs
  <2>3. e' = e /\ \A k \in Nat : ByteAt(k)' = ByteAt(k)
    BY <1>2, <2>1 DEF ByteAt, C!cachedEnd, C!Slot
  <2>4. C!TypeOK'
    BY <1>1, <1>2, <2>1, <2>2 DEF C!TypeOK
  <2>5. CallInv'
    BY <1>1, <1>2, <2>1, <2>3 DEF CallInv
  <2>6. DataInv'
    BY <1>1, <1>2, <2>1, <2>3 DEF DataInv, Intact, Placed
  <2> QED
    BY <2>3, <2>4, <2>5, <2>6 DEF CacheInv
<1>7. CASE ~(n > CacheSize - cCachedSize)
  <2>1. /\ cCache' = [k \in DOMAIN cCache |->
                        IF k - C!Slot(e) \in 0..(n - 1) THEN Zero ELSE cCache[k]]
        /\ cCachedSize' = cCachedSize + n /\ cLeft' = cLeft
        /\ cPc' = IF n = 0 THEN "store" ELSE "zeros"
    BY <1>7 DEF C!FillZeros
  <2> HIDE DEF n
  <2>2. e' = e + n /\ cCachedSize + n <= CacheSize
    BY <1>1, <1>2, <1>5, <1>7, <2>1 DEF C!cachedEnd
  <2> HIDE DEF e
  <2>3. cCache \in [0..(CacheSize - 1) -> Byte] /\ Zero \in Byte
    BY <1>1, CacheTypes DEF C!TypeOK
  <2>4. cCache' \in [0..(CacheSize - 1) -> Byte]
    BY <2>1, <2>3
  <2>5. ASSUME NEW k \in Nat, k > 0
        PROVE  ByteAt(k)' = ByteAt(k)
    <3>1. k - 1 \in Nat
      BY <2>5
    <3>2. C!Slot(k - 1) \in 0..(CacheSize - 1)
      BY <3>1, SlotRange
    <3>3. CASE k - 1 \in e..(e + n - 1)
      <4>1. C!Slot(k - 1) - C!Slot(e) \in 0..(n - 1)
        <5>1. (k - 1) - e < CacheSize /\ e + n - (k - 1) <= CacheSize
          BY <1>1, <1>4, <1>5, <3>1, <3>3, <2>2
        <5> QED
          BY <1>4, <1>5, <3>1, <3>3, <5>1, SlotWithin
      <4>2. cCache'[C!Slot(k - 1)] = Zero
        BY <2>1, <2>3, <3>2, <4>1
      <4>3. k - 1 \in cCachedPos'..(e' - 1)
        BY <1>1, <1>2, <1>3, <1>4, <1>5, <2>2, <3>3
      <4>4. ~(k - 1 \in cCachedPos..(e - 1)) /\ ~(k <= Len(cPhys))
        BY <1>1, <1>3, <1>4, <3>1, <3>3
      <4>5. ByteAt(k)' = Zero
        BY <4>2, <4>3 DEF ByteAt, e, C!Slot
      <4>6. ByteAt(k) = Zero
        BY <4>4 DEF ByteAt, e
      <4> QED
        BY <4>5, <4>6
    <3>4. CASE k - 1 \in cCachedPos..(e - 1)
      <4>1. ~(C!Slot(k - 1) - C!Slot(e) \in 0..(n - 1))
        <5>1. (k - 1) - e < CacheSize /\ e + n - (k - 1) <= CacheSize /\ ~(k - 1 \in e..(e + n - 1))
          BY <1>1, <1>4, <1>5, <3>1, <3>4, <2>2
        <5> QED
          BY <1>4, <1>5, <3>1, <5>1, SlotWithin
      <4>2. cCache'[C!Slot(k - 1)] = cCache[C!Slot(k - 1)]
        BY <2>1, <2>3, <3>2, <4>1
      <4>3. k - 1 \in cCachedPos'..(e' - 1)
        BY <1>1, <1>2, <1>4, <1>5, <2>2, <3>4
      <4> QED
        BY <3>4, <4>2, <4>3 DEF ByteAt, e, C!Slot
    <3>5. CASE ~(k - 1 \in cCachedPos..(e + n - 1))
      <4>1. ~(k - 1 \in cCachedPos'..(e' - 1)) /\ ~(k - 1 \in cCachedPos..(e - 1))
        BY <1>1, <1>2, <1>4, <1>5, <2>2, <3>1, <3>5
      <4> QED
        BY <4>1, <1>2 DEF ByteAt, e
    <3> QED
      BY <1>1, <1>4, <1>5, <3>1, <3>3, <3>4, <3>5
  <2>6. C!TypeOK'
    BY <1>1, <1>2, <1>5, <2>1, <2>2, <2>4 DEF C!TypeOK, C!Place
  <2>7. CallInv'
    BY <1>1, <1>2, <1>3, <1>5, <2>1, <2>2 DEF CallInv, e
  <2>8. \A k \in Nat : k > cVirtSize => ByteAt(k)' = Zero
    <3> TAKE k \in Nat
    <3> HAVE k > cVirtSize
    <3>1. k > 0
      BY <1>1
    <3> QED
      BY <3>1, <1>3, <2>5
  <2>9. Placed'
    BY <1>1, <1>2, <1>3, <1>4, <1>5, <2>1, <2>2 DEF Placed, e
  <2>10. DataInv'
    BY <1>2, <1>3, <2>8, <2>9, <2>1 DEF DataInv
  <2> QED
    BY <2>5, <2>6, <2>7, <2>10 DEF CacheInv
<1> QED
  BY <1>6, <1>7

\* The first cached byte, when the bytes are stored.
First == IF cCachedSize = 0 THEN cVirtPos ELSE cCachedPos

\* There is room for at least one byte, and all of them lie next to each other in the
\* ring: they overwrite cached bytes or come right behind them.
LEMMA RoomIs ==
  ASSUME CacheInv, cPc = "store", ~(cCachedSize = CacheSize /\ cVirtPos = C!cachedEnd)
  PROVE  /\ First \in Nat /\ First <= cVirtPos /\ cVirtPos <= First + cCachedSize
         /\ C!Room(First) \in Nat \ {0}
         /\ C!Slot(cVirtPos) + C!Room(First) <= CacheSize
         /\ IF cVirtPos = First + cCachedSize THEN cCachedSize + C!Room(First) <= CacheSize
            ELSE cVirtPos + C!Room(First) <= First + cCachedSize
<1> DEFINE v == cVirtPos
           f == First
           s == cCachedSize
           toEnd == CacheSize - C!Slot(v)
<1>1. /\ cCachedPos \in Nat /\ s \in Nat /\ C!cachedEnd = cCachedPos + s /\ v \in Nat
      /\ s <= CacheSize /\ CacheSize \in Nat \ {0} /\ CallInv /\ DataInv
  BY CacheTypes, Numbers DEF CacheInv
<1>2. s > 0 => cCachedPos <= v /\ v <= cCachedPos + s
  BY <1>1 DEF CallInv, DataInv, Intact, Placed
<1>3. f \in Nat /\ f <= v /\ v <= f + s
  BY <1>1, <1>2 DEF First
<1>4. C!Slot(v) \in 0..(CacheSize - 1) /\ C!Slot(f) \in 0..(CacheSize - 1)
  BY <1>1, <1>3, SlotRange
<1>5. C!Room(f) = IF f + s - v # 0 THEN C!MinOf(toEnd, f + s - v)
                  ELSE IF C!Slot(f) > C!Slot(v) THEN C!Slot(f) - C!Slot(v) ELSE toEnd
  BY DEF C!Room
<1>6. v = f + s => s < CacheSize
  BY <1>1 DEF First
<1> HIDE DEF v, f, s
<1>7. toEnd \in Nat \ {0}
  BY <1>1, <1>4
<1>8. CASE v # f + s
  <2>1. f + s - v \in Nat \ {0}
    BY <1>1, <1>3, <1>8
  <2>2. C!Room(f) = IF toEnd < f + s - v THEN toEnd ELSE f + s - v
    BY <2>1, <1>5 DEF C!MinOf
  <2> QED
    BY <1>1, <1>3, <1>4, <1>7, <1>8, <2>1, <2>2 DEF v, f, s
<1>9. CASE v = f + s
  <2>1. C!Room(f) = IF C!Slot(f) > C!Slot(v) THEN C!Slot(f) - C!Slot(v) ELSE toEnd
    BY <1>1, <1>3, <1>5, <1>9
  <2>2. CASE C!Slot(f) + s < CacheSize
    <3>1. C!Slot(v) = C!Slot(f) + s
      BY <1>1, <1>3, <1>9, <2>2, SlotNext
    <3> QED
      BY <1>1, <1>3, <1>4, <1>9, <2>1, <2>2, <3>1 DEF v, f, s
  <2>3. CASE C!Slot(f) + s >= CacheSize
    <3>1. C!Slot(v) = C!Slot(f) + s - CacheSize
      BY <1>1, <1>3, <1>9, <2>3, SlotWraps
    <3> QED
      BY <1>1, <1>3, <1>4, <1>6, <1>9, <2>1, <2>3, <3>1 DEF v, f, s
  <2> QED
    BY <1>1, <1>4, <2>2, <2>3
<1> QED
  BY <1>8, <1>9

\* How many bytes are stored at once.
Fits == C!MinOf(Len(cData), C!Room(First))

\* The bytes are stored at the position, and no others are changed.
LEMMA StoreBytes ==
  ASSUME CacheInv, C!Store, ~(cCachedSize = CacheSize /\ cVirtPos = C!cachedEnd)
  PROVE  /\ Fits \in 1..Len(cData)
         /\ cCache' \in [0..(CacheSize - 1) -> Byte]
         /\ \A k \in Nat : k > 0 =>
              ByteAt(k)' = IF k \in (cVirtPos + 1)..(cVirtPos + Fits) THEN cData[k - cVirtPos]
                           ELSE ByteAt(k)
<1> DEFINE v == cVirtPos
           f == First
           s == cCachedSize
           n == Fits
<1>1. /\ cCachedPos \in Nat /\ s \in Nat /\ C!cachedEnd = cCachedPos + s /\ v \in Nat
      /\ s <= CacheSize /\ CacheSize \in Nat \ {0} /\ CallInv /\ C!TypeOK
  BY CacheTypes, Numbers DEF CacheInv
<1>2. /\ cPc = "store"
      /\ cCache' = [k \in DOMAIN cCache |->
                      IF k - C!Slot(v) \in 0..(n - 1) THEN cData[k - C!Slot(v) + 1] ELSE cCache[k]]
      /\ cCachedPos' = f /\ cCachedSize' = IF v = f + s THEN s + n ELSE s
      /\ cPhys' = cPhys
  BY DEF C!Store, C!phyVars, First, Fits
<1>3. /\ f \in Nat /\ f <= v /\ v <= f + s
      /\ C!Room(f) \in Nat \ {0} /\ C!Slot(v) + C!Room(f) <= CacheSize
      /\ IF v = f + s THEN s + C!Room(f) <= CacheSize ELSE v + C!Room(f) <= f + s
  BY <1>2, RoomIs
<1>4. cData \in Seq(Byte) /\ Len(cData) \in Nat \ {0}
  <2>1. cData \in Data /\ Data \subseteq Seq(Byte) /\ <<>> \notin Data
    BY <1>1, <1>2, OutStreamAssumption DEF CallInv, OutStreamAssumption
  <2>2. cData \in Seq(Byte) /\ cData # <<>>
    BY <2>1
  <2> QED
    BY <2>2, EmptySeq
<1>5. n \in 1..Len(cData) /\ n <= C!Room(f)
  BY <1>3, <1>4 DEF Fits, C!MinOf
<1> HIDE DEF n, f, s, v
<1>6. C!Slot(v) \in 0..(CacheSize - 1) /\ C!Slot(v) + n <= CacheSize /\ n \in Nat \ {0}
  <2>1. C!Slot(v) \in 0..(CacheSize - 1)
    BY <1>1, SlotRange
  <2>2. n \in Nat \ {0}
    BY <1>4, <1>5
  <2> QED
    BY <1>1, <1>3, <1>5, <2>1, <2>2
<1>7. IF v = f + s THEN s + n <= CacheSize ELSE v + n <= f + s
  BY <1>1, <1>3, <1>5, <1>6
<1>8. cCache \in [0..(CacheSize - 1) -> Byte]
  BY <1>1 DEF C!TypeOK
<1>9. cCache' \in [0..(CacheSize - 1) -> Byte]
  <2>1. ASSUME NEW k \in 0..(CacheSize - 1), k - C!Slot(v) \in 0..(n - 1)
        PROVE  cData[k - C!Slot(v) + 1] \in Byte
    <3>1. k - C!Slot(v) + 1 \in 1..Len(cData)
      BY <1>1, <1>4, <1>5, <1>6, <2>1
    <3> QED
      BY <1>4, <3>1
  <2> QED
    BY <1>2, <1>8, <2>1
<1>10. /\ C!cachedEnd' = IF v = f + s THEN v + n ELSE f + s
       /\ s > 0 => f = cCachedPos
  BY <1>1, <1>2, <1>3, <1>6 DEF C!cachedEnd, First, f, s
<1>11. ASSUME NEW k \in Nat, k > 0
       PROVE  ByteAt(k)' = IF k \in (v + 1)..(v + n) THEN cData[k - v] ELSE ByteAt(k)
  <2> DEFINE q == k - 1
  <2>1. q \in Nat /\ C!Slot(q) \in 0..(CacheSize - 1)
    BY <1>11, SlotRange
  <2>2. CASE q \in v..(v + n - 1)
    <3>1. /\ k \in (v + 1)..(v + n) /\ q \in cCachedPos'..(C!cachedEnd' - 1)
      BY <1>1, <1>2, <1>3, <1>5, <1>6, <1>7, <1>10, <2>2, <1>11
    <3>2. C!Slot(q) = C!Slot(v) + (q - v)
      <4>1. q - v \in Nat /\ C!Slot(v) + (q - v) < CacheSize /\ q = v + (q - v)
        BY <1>1, <1>6, <2>1, <2>2
      <4>2. C!Slot(v + (q - v)) = C!Slot(v) + (q - v)
        BY <1>1, <4>1, SlotNext
      <4> QED
        BY <4>1, <4>2
    <3>3. C!Slot(q) - C!Slot(v) \in 0..(n - 1) /\ C!Slot(q) - C!Slot(v) + 1 = k - v
      BY <1>1, <1>6, <2>1, <2>2, <3>2
    <3>4. cCache'[C!Slot(q)] = cData[k - v]
      BY <1>2, <1>8, <2>1, <3>3
    <3> QED
      BY <3>1, <3>4 DEF ByteAt, C!Slot
  <2>3. CASE ~(q \in v..(v + n - 1)) /\ q \in f..(f + s - 1)
    <3>1. /\ ~(k \in (v + 1)..(v + n)) /\ q \in cCachedPos'..(C!cachedEnd' - 1)
          /\ q \in cCachedPos..(C!cachedEnd - 1)
      BY <1>1, <1>2, <1>3, <1>5, <1>6, <1>7, <1>10, <2>1, <2>3, <1>11
    <3>2. ~(C!Slot(q) - C!Slot(v) \in 0..(n - 1))
      <4>1. q - v < CacheSize /\ v + n - q <= CacheSize
        BY <1>1, <1>3, <1>6, <1>7, <2>1, <2>3
      <4> QED
        BY <1>1, <1>6, <2>1, <2>3, <4>1, SlotWithin
    <3>3. cCache'[C!Slot(q)] = cCache[C!Slot(q)]
      BY <1>2, <1>8, <2>1, <3>2
    <3> QED
      BY <3>1, <3>3 DEF ByteAt, C!Slot
  <2>4. CASE ~(q \in v..(v + n - 1)) /\ ~(q \in f..(f + s - 1))
    <3>1. /\ ~(k \in (v + 1)..(v + n)) /\ ~(q \in cCachedPos'..(C!cachedEnd' - 1))
          /\ ~(q \in cCachedPos..(C!cachedEnd - 1))
      BY <1>1, <1>2, <1>3, <1>5, <1>6, <1>7, <1>10, <2>1, <2>4, <1>11
    <3> QED
      BY <3>1, <1>2 DEF ByteAt
  <2> QED
    BY <2>2, <2>3, <2>4
<1> QED
  BY <1>5, <1>9, <1>11 DEF n, v

\* The end of Write: the cache is full, or bytes are stored.
LEMMA StoreStep ==
  ASSUME CacheInv, C!Store
  PROVE  CacheInv'
<1>1. /\ cCachedPos \in Nat /\ cCachedSize \in Nat /\ C!cachedEnd = cCachedPos + cCachedSize
      /\ cVirtPos \in Nat /\ cVirtSize \in Nat /\ cPhySize \in Nat /\ Len(cPhys) \in Nat
      /\ cCachedSize <= CacheSize /\ CacheSize \in Nat \ {0} /\ MaxSize \in Nat
      /\ C!TypeOK /\ CallInv /\ DataInv
  BY CacheTypes, Numbers DEF CacheInv
<1>2. /\ cPc = "store" /\ cLeft = 0
      /\ UNCHANGED <<cPhys, cFilePos, cPhyPos, cPhySize, cFailed>>
  BY DEF C!Store, C!phyVars
<1>3. Intact /\ ~cFailed /\ cVirtPos + Len(cData) <= MaxSize /\ cData \in Data
  BY <1>1, <1>2 DEF CallInv, Intact
<1>4. /\ cPhySize = Len(cPhys) /\ cFilePos = cPhyPos
      /\ cCachedSize > 0 => cCachedPos <= cPhySize
      /\ \A k \in Nat : k > cVirtSize => ByteAt(k) = Zero
      /\ Placed
  BY <1>1, <1>2, <1>3 DEF DataInv
<1>5. CASE cCachedSize = CacheSize /\ cVirtPos = C!cachedEnd
  <2>1. cLeft' = C!ToBlockEnd
        /\ UNCHANGED <<cVirtPos, cVirtSize, cCachedPos, cCachedSize, cCache, cPc, cData>>
    BY <1>5 DEF C!Store, C!virtVars, C!cacheVars
  <2>2. C!ToBlockEnd \in 1..CacheSize
    BY <1>1, ToBlockEndIs
  <2>3. C!cachedEnd' = C!cachedEnd /\ \A k \in Nat : ByteAt(k)' = ByteAt(k)
    BY <1>2, <2>1 DEF ByteAt, C!cachedEnd, C!Slot
  <2>4. C!TypeOK'
    BY <1>1, <1>2, <2>1, <2>2 DEF C!TypeOK
  <2>5. CallInv'
    BY <1>1, <1>2, <2>1, <2>3 DEF CallInv
  <2>6. DataInv'
    BY <1>1, <1>2, <1>4, <1>5, <2>1, <2>3 DEF DataInv, Placed
  <2> QED
    BY <2>4, <2>5, <2>6 DEF CacheInv
<1>6. CASE ~(cCachedSize = CacheSize /\ cVirtPos = C!cachedEnd)
  <2> DEFINE f == First
             n == Fits
  <2>1. /\ cCachedPos' = f
        /\ cCachedSize' = IF cVirtPos = f + cCachedSize THEN cCachedSize + n ELSE cCachedSize
        /\ cVirtPos' = cVirtPos + n /\ cVirtSize' = C!MaxOf(cVirtSize, cVirtPos + n)
        /\ cPc' = "idle" /\ cData' = <<>> /\ cLeft' = cLeft
    BY <1>6 DEF C!Store, First, Fits
  <2>2. /\ n \in 1..Len(cData) /\ cCache' \in [0..(CacheSize - 1) -> Byte]
        /\ \A k \in Nat : k > 0 =>
             ByteAt(k)' = IF k \in (cVirtPos + 1)..(cVirtPos + n) THEN cData[k - cVirtPos]
                          ELSE ByteAt(k)
    BY <1>6, StoreBytes
  <2>3. /\ f \in Nat /\ f <= cVirtPos /\ cVirtPos <= f + cCachedSize
        /\ C!Room(f) \in Nat \ {0}
        /\ IF cVirtPos = f + cCachedSize THEN cCachedSize + C!Room(f) <= CacheSize
           ELSE cVirtPos + C!Room(f) <= f + cCachedSize
    BY <1>2, <1>6, RoomIs
  <2>4. Len(cData) \in Nat
    BY <1>3, OutStreamAssumption DEF OutStreamAssumption
  <2>5. n <= C!Room(f) /\ n \in Nat \ {0} /\ cVirtPos + n <= MaxSize
    BY <1>1, <1>3, <2>2, <2>3, <2>4 DEF Fits, C!MinOf
  <2>6. cCachedSize > 0 => f = cCachedPos
    BY <1>1 DEF First
  <2>7. cCachedSize = 0 => f = cVirtPos
    BY DEF First
  <2> HIDE DEF n, f
  <2>8. cVirtSize' = IF cVirtSize < cVirtPos + n THEN cVirtPos + n ELSE cVirtSize
    BY <2>1 DEF C!MaxOf
  <2>9. C!cachedEnd' = IF cVirtPos = f + cCachedSize THEN cVirtPos + n ELSE C!cachedEnd
    BY <1>1, <2>1, <2>3, <2>5, <2>6, <2>7 DEF C!cachedEnd
  <2>10. /\ cCachedPos' \in 0..MaxSize /\ cCachedSize' \in 0..CacheSize
         /\ cVirtPos' \in 0..MaxSize /\ cVirtSize' \in 0..MaxSize
    <3>1. cVirtSize \in 0..MaxSize
      BY <1>1 DEF C!TypeOK
    <3> QED
      BY <1>1, <2>1, <2>3, <2>5, <2>8, <3>1
  <2>11. C!TypeOK'
    BY <1>1, <1>2, <2>1, <2>2, <2>10 DEF C!TypeOK, C!Place
  <2>12. C!cachedEnd' <= MaxSize
    BY <1>1, <2>5, <2>9 DEF CallInv
  <2>13. CallInv'
    BY <1>1, <1>2, <2>1, <2>12 DEF CallInv
  <2>14. \A k \in Nat : k > cVirtSize' => ByteAt(k)' = Zero
    <3> TAKE k \in Nat
    <3> HAVE k > cVirtSize'
    <3>1. k > 0 /\ k > cVirtSize /\ ~(k \in (cVirtPos + 1)..(cVirtPos + n))
      BY <1>1, <2>5, <2>8
    <3> QED
      BY <3>1, <1>4, <2>2
  <2>15. cPhySize <= cVirtSize' /\ C!cachedEnd' <= cVirtSize'
    BY <1>1, <1>2, <1>4, <2>5, <2>6, <2>7, <2>8, <2>9 DEF Placed
  <2>16. cCachedPos' <= cPhySize
    BY <1>1, <1>2, <1>4, <2>1, <2>6, <2>7 DEF Placed
  <2>17. Placed'
    BY <1>2, <2>1, <2>15 DEF Placed
  <2>18. DataInv'
    BY <1>2, <1>4, <2>14, <2>16, <2>17 DEF DataInv
  <2> QED
    BY <2>11, <2>13, <2>18 DEF CacheInv
<1> QED
  BY <1>5, <1>6

-----------------------------------------------------------------------------
(* The other operations of the cached stream                               *)

LEMMA CacheSeekStep ==
  ASSUME CacheInv, NEW p \in Places, C!Seek(p)
  PROVE  CacheInv'
<1>1. /\ cPc = "idle" /\ cVirtPos' = p /\ p \in 0..MaxSize
      /\ UNCHANGED <<cPhys, cFilePos, cPhyPos, cPhySize, cVirtSize, cCachedPos, cCachedSize,
                     cCache, cPc, cData, cLeft, cFailed>>
  BY Numbers DEF C!Seek, C!phyVars, C!cacheVars
<1>2. C!TypeOK'
  BY <1>1 DEF CacheInv, C!TypeOK
<1>3. CallInv'
  BY <1>1 DEF CacheInv, CallInv, C!cachedEnd
<1>4. \A k \in Nat : ByteAt(k)' = ByteAt(k)
  BY <1>1 DEF ByteAt, C!Slot, C!cachedEnd
<1>5. DataInv'
  BY <1>1, <1>4 DEF CacheInv, DataInv, Intact, Placed, C!cachedEnd
<1> QED
  BY <1>2, <1>3, <1>5 DEF CacheInv

\* SetSize cuts off what is behind the new end, in the file and in the cache, and no more.
LEMMA CacheSetSizeStep ==
  ASSUME CacheInv, NEW p \in Places, C!SetSize(p)
  PROVE  CacheInv' /\ \A k \in Nat : k > 0 => ByteAt(k)' = IF k <= p THEN ByteAt(k) ELSE Zero
<1>1. /\ cPc = "idle" /\ ~cFailed /\ cVirtSize' = p /\ p \in Nat /\ p <= MaxSize
      /\ cPhys' = IF p < cPhySize THEN C!O!Resized(cPhys, p) ELSE cPhys
      /\ cPhySize' = C!MinOf(cPhySize, p)
      /\ cCachedPos' = C!MinOf(cCachedPos, p)
      /\ cCachedSize' = IF p <= cCachedPos THEN 0 ELSE C!MinOf(cCachedSize, p - cCachedPos)
      /\ UNCHANGED <<cFilePos, cPhyPos, cVirtPos, cCache, cPc, cData, cLeft, cFailed>>
  BY Numbers DEF C!SetSize, C!Kept
<1>2. /\ cCachedPos \in Nat /\ cCachedSize \in Nat /\ C!cachedEnd = cCachedPos + cCachedSize
      /\ cVirtSize \in Nat /\ cPhySize \in Nat /\ Len(cPhys) \in Nat /\ cPhys \in Seq(Byte)
      /\ cCachedSize <= CacheSize /\ CacheSize \in Nat \ {0} /\ MaxSize \in Nat /\ Zero \in Byte
      /\ C!TypeOK /\ CallInv /\ DataInv
  BY CacheTypes, Numbers DEF CacheInv
<1>3. /\ cPhySize = Len(cPhys) /\ cFilePos = cPhyPos
      /\ cCachedSize > 0 => cCachedPos <= cPhySize
      /\ \A k \in Nat : k > cVirtSize => ByteAt(k) = Zero
      /\ cPhySize <= cVirtSize /\ (cCachedSize > 0 => C!cachedEnd <= cVirtSize)
      /\ Intact /\ C!cachedEnd <= MaxSize
  BY <1>1, <1>2 DEF DataInv, CallInv, Intact, Placed
<1>4. /\ cPhySize' = IF cPhySize < p THEN cPhySize ELSE p
      /\ cCachedPos' = IF cCachedPos < p THEN cCachedPos ELSE p
      /\ cCachedSize' = IF p <= cCachedPos THEN 0
                        ELSE IF cCachedSize < p - cCachedPos THEN cCachedSize ELSE p - cCachedPos
  BY <1>1 DEF C!MinOf
<1>5. /\ cCachedPos' \in Nat /\ cCachedSize' \in Nat /\ C!cachedEnd' = cCachedPos' + cCachedSize'
      /\ cCachedSize' <= cCachedSize /\ C!cachedEnd' <= p
  BY <1>1, <1>2, <1>4 DEF C!cachedEnd
<1>6. /\ cPhys' \in Seq(Byte) /\ Len(cPhys') = cPhySize'
      /\ \A k \in 1..Len(cPhys') : cPhys'[k] = cPhys[k]
  <2>1. CASE p < cPhySize
    <3>1. /\ cPhys' \in Seq(Byte) /\ Len(cPhys') = p
          /\ \A k \in 1..p : cPhys'[k] = IF k <= Len(cPhys) THEN cPhys[k] ELSE Zero
      BY <1>1, <1>2, <2>1, ResizedIs
    <3> QED
      BY <1>1, <1>2, <1>3, <1>4, <2>1, <3>1
  <2>2. CASE ~(p < cPhySize)
    BY <1>1, <1>2, <1>3, <1>4, <2>2
  <2> QED
    BY <2>1, <2>2
<1>7. ASSUME NEW k \in Nat, k > 0
      PROVE  ByteAt(k)' = IF k <= p THEN ByteAt(k) ELSE Zero
  <2>1. CASE k <= p
    <3>1. k - 1 \in cCachedPos'..(C!cachedEnd' - 1) <=> k - 1 \in cCachedPos..(C!cachedEnd - 1)
      BY <1>1, <1>2, <1>4, <1>5, <1>7, <2>1
    <3>2. k <= Len(cPhys') <=> k <= Len(cPhys)
      BY <1>1, <1>2, <1>3, <1>4, <1>6, <1>7, <2>1
    <3>3. k <= Len(cPhys) => cPhys'[k] = cPhys[k]
      <4>1. k <= Len(cPhys) => k \in 1..Len(cPhys')
        BY <3>2, <1>1, <1>2, <1>4, <1>6, <1>7
      <4> QED
        BY <4>1, <1>6
    <3> QED
      BY <1>1, <2>1, <3>1, <3>2, <3>3 DEF ByteAt, C!Slot
  <2>2. CASE ~(k <= p)
    <3>1. ~(k - 1 \in cCachedPos'..(C!cachedEnd' - 1)) /\ ~(k <= Len(cPhys'))
      BY <1>1, <1>2, <1>4, <1>5, <1>6, <1>7, <2>2
    <3> QED
      BY <2>2, <3>1 DEF ByteAt
  <2> QED
    BY <2>1, <2>2
<1>8. C!TypeOK'
  <2>1. cPhySize' \in 0..MaxSize /\ cCachedPos' \in 0..MaxSize /\ cCachedSize' \in 0..CacheSize
    BY <1>1, <1>2, <1>4, <1>5
  <2> QED
    BY <1>1, <1>2, <1>6, <2>1 DEF C!TypeOK
<1>9. CallInv'
  <2>1. C!cachedEnd' <= MaxSize
    BY <1>1, <1>2, <1>5
  <2> QED
    BY <1>1, <1>2, <2>1 DEF CallInv
<1>10. Placed'
  <2>1. cPhySize' <= p
    BY <1>1, <1>2, <1>4
  <2> QED
    BY <1>1, <1>5, <2>1 DEF Placed
<1>11. \A k \in Nat : k > cVirtSize' => ByteAt(k)' = Zero
  <2> TAKE k \in Nat
  <2> HAVE k > cVirtSize'
  <2>1. k > 0 /\ ~(k <= p)
    BY <1>1
  <2> QED
    BY <2>1, <1>7
<1>12. cCachedSize' > 0 => cCachedPos' <= cPhySize'
  BY <1>1, <1>2, <1>3, <1>4
<1>13. DataInv'
  BY <1>1, <1>3, <1>6, <1>10, <1>11, <1>12 DEF DataInv
<1> QED
  BY <1>7, <1>8, <1>9, <1>13 DEF CacheInv

LEMMA CacheSetSizeFailsStep ==
  ASSUME CacheInv, NEW p \in Places, C!SetSizeFails(p)
  PROVE  CacheInv'
<1>1. /\ cPc = "idle" /\ cVirtSize' = p /\ p \in 0..MaxSize /\ cFailed' = TRUE
      /\ UNCHANGED <<cPhys, cFilePos, cPhyPos, cPhySize, cVirtPos, cCachedPos, cCachedSize,
                     cCache, cPc, cData, cLeft>>
  BY Numbers DEF C!SetSizeFails, C!phyVars, C!cacheVars
<1>2. C!TypeOK'
  BY <1>1 DEF CacheInv, C!TypeOK
<1>3. CallInv'
  BY <1>1 DEF CacheInv, CallInv, C!cachedEnd
<1>4. DataInv'
  BY <1>1 DEF DataInv, Intact
<1> QED
  BY <1>2, <1>3, <1>4 DEF CacheInv

LEMMA CacheReleaseStep ==
  ASSUME CacheInv, C!Release
  PROVE  CacheInv'
<1>1. /\ cPc = "idle" /\ cPc' = "release" /\ cLeft' = cCachedSize
      /\ UNCHANGED <<cPhys, cFilePos, cPhyPos, cPhySize, cVirtPos, cVirtSize, cCachedPos,
                     cCachedSize, cCache, cData, cFailed>>
  BY DEF C!Release, C!phyVars, C!virtVars, C!cacheVars
<1>2. C!TypeOK'
  BY <1>1 DEF CacheInv, C!TypeOK, C!Place
<1>3. CallInv'
  BY <1>1 DEF CacheInv, CallInv, C!cachedEnd
<1>4. \A k \in Nat : ByteAt(k)' = ByteAt(k)
  BY <1>1 DEF ByteAt, C!Slot, C!cachedEnd
<1>5. DataInv'
  BY <1>1, <1>4 DEF CacheInv, DataInv, Intact, Placed, C!cachedEnd
<1> QED
  BY <1>2, <1>3, <1>5 DEF CacheInv

LEMMA CacheCloseStep ==
  ASSUME CacheInv, C!Close
  PROVE  CacheInv'
<1>1. /\ cPc = "release" /\ cLeft = 0 /\ cPc' = "closed"
      /\ cPhys' = C!SetToSize(cVirtSize)
      /\ cFilePos' = IF cVirtPos # cPhyPos THEN cVirtPos ELSE cFilePos
      /\ UNCHANGED <<cPhyPos, cPhySize, cVirtPos, cVirtSize, cCachedPos, cCachedSize, cCache,
                     cData, cLeft, cFailed>>
  BY DEF C!Close, C!virtVars, C!cacheVars
<1>2. cPhys \in Seq(Byte) /\ Zero \in Byte /\ cVirtSize \in Nat /\ C!TypeOK
  BY CacheTypes DEF CacheInv
<1>3. cPhys' \in Seq(Byte)
  BY <1>1, <1>2, ResizedIs DEF C!SetToSize
<1>4. cFilePos' \in 0..(MaxSize + CacheSize)
  BY <1>1, <1>2, Numbers DEF C!TypeOK
<1>5. C!TypeOK'
  BY <1>1, <1>2, <1>3, <1>4 DEF C!TypeOK, C!Place
<1>6. CallInv'
  BY <1>1 DEF CacheInv, CallInv, C!cachedEnd
<1>7. DataInv'
  BY <1>1 DEF DataInv
<1> QED
  BY <1>5, <1>6, <1>7 DEF CacheInv

-----------------------------------------------------------------------------
(* What holds of the cached stream                                         *)

LEMMA CacheInitial == C!Init => CacheInv
<1> SUFFICES ASSUME C!Init PROVE CacheInv
  OBVIOUS
<1>1. /\ cPhys = <<>> /\ cFilePos = 0 /\ cPhyPos = 0 /\ cPhySize = 0
      /\ cVirtPos = 0 /\ cVirtSize = 0 /\ cCachedPos = 0 /\ cCachedSize = 0
      /\ cCache = [k \in 0..(CacheSize - 1) |-> Zero]
      /\ cPc = "idle" /\ cData = <<>> /\ cLeft = 0 /\ cFailed = FALSE
  BY DEF C!Init
<1>2. Zero \in Byte /\ MaxSize \in Nat /\ CacheSize \in Nat \ {0}
  BY Numbers, OutStreamAssumption DEF OutStreamAssumption
<1>3. C!TypeOK
  BY <1>1, <1>2 DEF C!TypeOK, C!Place
<1>4. C!cachedEnd = 0
  BY <1>1 DEF C!cachedEnd
<1>5. CallInv
  BY <1>1, <1>2, <1>4 DEF CallInv
<1>6. ASSUME NEW k \in Nat, k > cVirtSize PROVE ByteAt(k) = Zero
  <2>1. ~(k - 1 \in cCachedPos..(C!cachedEnd - 1)) /\ ~(k <= Len(cPhys))
    BY <1>1, <1>4, <1>6
  <2> QED
    BY <2>1 DEF ByteAt
<1>7. Placed
  BY <1>1, <1>4 DEF Placed
<1>8. DataInv
  BY <1>1, <1>6, <1>7 DEF DataInv
<1> QED
  BY <1>3, <1>5, <1>8 DEF CacheInv

LEMMA CacheStep == CacheInv /\ [C!Next]_(C!vars) => CacheInv'
<1> SUFFICES ASSUME CacheInv, [C!Next]_(C!vars) PROVE CacheInv'
  OBVIOUS
<1>1. CASE C!MyWrite
  BY <1>1, MyWriteStep
<1>2. CASE C!MyWriteFails
  BY <1>2, MyWriteFailsStep
<1>3. ASSUME NEW d \in Data, C!Write(d) PROVE CacheInv'
  BY <1>3, CacheWriteStep
<1>4. CASE C!FindGap
  BY <1>4, FindGapStep
<1>5. CASE C!FillZeros
  BY <1>5, FillZerosStep
<1>6. CASE C!Store
  BY <1>6, StoreStep
<1>7. ASSUME NEW p \in Places, C!Seek(p) PROVE CacheInv'
  BY <1>7, CacheSeekStep
<1>8. ASSUME NEW p \in Places, C!SetSize(p) PROVE CacheInv'
  BY <1>8, CacheSetSizeStep
<1>9. ASSUME NEW p \in Places, C!SetSizeFails(p) PROVE CacheInv'
  BY <1>9, CacheSetSizeFailsStep
<1>10. CASE C!Release
  BY <1>10, CacheReleaseStep
<1>11. CASE C!Close
  BY <1>11, CacheCloseStep
<1>12. CASE C!Terminating \/ UNCHANGED C!vars
  <2>1. UNCHANGED <<cPhys, cFilePos, cPhyPos, cPhySize, cVirtPos, cVirtSize, cCachedPos,
                    cCachedSize, cCache, cPc, cData, cLeft, cFailed>>
    BY <1>12 DEF C!Terminating, C!vars, C!phyVars, C!virtVars, C!cacheVars
  <2>2. C!TypeOK' /\ CallInv'
    BY <2>1 DEF CacheInv, C!TypeOK, CallInv, C!cachedEnd
  <2>3. \A k \in Nat : ByteAt(k)' = ByteAt(k)
    BY <2>1 DEF ByteAt, C!Slot, C!cachedEnd
  <2>4. DataInv'
    BY <2>1, <2>3 DEF CacheInv, DataInv, Intact, Placed, C!cachedEnd, C!FlushBefore
  <2> QED
    BY <2>2, <2>4 DEF CacheInv
<1> QED
  BY <1>1, <1>2, <1>3, <1>4, <1>5, <1>6, <1>7, <1>8, <1>9, <1>10, <1>11, <1>12 DEF C!Next

\* Between two calls the fields tell the truth about the file, and no byte is missing
\* between it and the cached bytes.
LEMMA CacheInvImplies == CacheInv => C!FieldsAgree
<1> SUFFICES ASSUME CacheInv PROVE C!FieldsAgree
  OBVIOUS
<1>1. C!TypeOK
  BY DEF CacheInv
<1>2. ASSUME cPc = "idle", ~cFailed
      PROVE  /\ cPhySize = Len(cPhys) /\ cPhySize <= cVirtSize
             /\ cCachedSize > 0 => cCachedPos <= cPhySize /\ C!cachedEnd <= cVirtSize
  BY <1>2 DEF CacheInv, DataInv, Intact, Placed
<1> QED
  BY <1>1, <1>2 DEF C!FieldsAgree

\* The comments at _phySize and _cachedPos hold, for any sizes of the ring, the blocks and
\* the calls, whatever fails.
THEOREM CacheFieldsAgree == C!Spec => []C!FieldsAgree
<1>1. C!Spec => []CacheInv
  BY CacheInitial, CacheStep, PTL DEF C!Spec
<1> QED
  BY <1>1, CacheInvImplies, PTL

-----------------------------------------------------------------------------
(* The cached stream is a plain file                                       *)

\* The variables of OutFile.
FileContent == IF cFailed THEN <<>> ELSE C!Virtual
FileState == IF cPc = "closed" THEN "closed" ELSE IF cFailed THEN "failed" ELSE "open"
FileDisk == IF cPc = "closed" THEN cPhys ELSE <<>>

\* What the actions of OutFile say of them.
LEMMA FileActions ==
  /\ (C!O!fileVars)' = C!O!fileVars <=>
       /\ FileContent' = FileContent /\ cVirtPos' = cVirtPos
       /\ FileState' = FileState /\ FileDisk' = FileDisk
  /\ \A d : C!O!Write(d) <=>
       /\ FileState = "open"
       /\ \E n \in 1..Len(d) :
            /\ FileContent' = C!O!Stored(FileContent, cVirtPos, SubSeq(d, 1, n))
            /\ cVirtPos' = cVirtPos + n
       /\ FileState' = FileState /\ FileDisk' = FileDisk
  /\ \A p : C!O!Seek(p) <=>
       /\ FileState = "open" /\ cVirtPos' = p
       /\ FileContent' = FileContent /\ FileState' = FileState /\ FileDisk' = FileDisk
  /\ \A p : C!O!SetSize(p) <=>
       /\ FileState = "open" /\ FileContent' = C!O!Resized(FileContent, p)
       /\ cVirtPos' = cVirtPos /\ FileState' = FileState /\ FileDisk' = FileDisk
  /\ C!O!Fail <=>
       /\ FileState = "open" /\ FileState' = "failed" /\ FileContent' = <<>>
       /\ cVirtPos' = cVirtPos /\ FileDisk' = FileDisk
  /\ C!O!Close <=>
       /\ FileState # "closed" /\ FileState' = "closed"
       /\ FileDisk' \in Seq(Byte) /\ (FileState = "open" => FileDisk' = FileContent)
       /\ FileContent' = FileContent /\ cVirtPos' = cVirtPos
BY DEF C!O!fileVars, C!O!Write, C!O!Seek, C!O!SetSize, C!O!Fail, C!O!Close, FileContent,
       FileState, FileDisk

\* Every byte is a byte.
LEMMA ByteAtType ==
  ASSUME C!TypeOK, NEW k \in Nat, k > 0
  PROVE  ByteAt(k) \in Byte
<1>1. cPhys \in Seq(Byte) /\ cCache \in [0..(CacheSize - 1) -> Byte] /\ Zero \in Byte
  BY CacheTypes DEF C!TypeOK
<1>2. C!Slot(k - 1) \in 0..(CacheSize - 1)
  <2>1. k - 1 \in Nat
    OBVIOUS
  <2> QED
    BY <2>1, SlotRange
<1>3. k <= Len(cPhys) => k \in 1..Len(cPhys)
  BY <1>1
<1> QED
  BY <1>1, <1>2, <1>3 DEF ByteAt

\* The file is what ByteAt says, up to its size.
LEMMA VirtualIs ==
  ASSUME C!TypeOK
  PROVE  /\ C!Virtual \in Seq(Byte) /\ Len(C!Virtual) = cVirtSize
         /\ \A k \in 1..cVirtSize : C!Virtual[k] = ByteAt(k)
<1>1. C!Virtual = [k \in 1..cVirtSize |-> ByteAt(k)]
  BY DEF C!Virtual, ByteAt
<1>2. cVirtSize \in Nat
  BY CacheTypes
<1>3. \A k \in 1..cVirtSize : ByteAt(k) \in Byte
  BY <1>2, ByteAtType
<1>4. C!Virtual \in [1..cVirtSize -> Byte]
  BY <1>1, <1>3
<1>5. C!Virtual \in Seq(Byte) /\ Len(C!Virtual) = cVirtSize
  BY <1>2, <1>4, FunctionIsSeq
<1> QED
  BY <1>1, <1>5

\* The same of the state after a step.
LEMMA VirtualIsNext ==
  C!TypeOK' => (/\ C!Virtual \in Seq(Byte) /\ Len(C!Virtual) = cVirtSize
                /\ \A k \in 1..cVirtSize : C!Virtual[k] = ByteAt(k))'
<1>1. C!TypeOK => /\ C!Virtual \in Seq(Byte) /\ Len(C!Virtual) = cVirtSize
                  /\ \A k \in 1..cVirtSize : C!Virtual[k] = ByteAt(k)
  BY VirtualIs
<1> QED
  BY <1>1, PTL

\* So it stays the same if its bytes and its size do.
LEMMA VirtualKept ==
  ASSUME cVirtSize \in Nat, cVirtSize' = cVirtSize, \A k \in Nat : k > 0 => ByteAt(k)' = ByteAt(k)
  PROVE  C!Virtual' = C!Virtual
<1>1. C!Virtual = [k \in 1..cVirtSize |-> ByteAt(k)]
  BY DEF C!Virtual, ByteAt
<1>2. C!Virtual' = [k \in 1..cVirtSize' |-> ByteAt(k)']
  BY DEF C!Virtual, ByteAt, C!cachedEnd, C!Slot
<1>3. \A k \in 1..cVirtSize : ByteAt(k)' = ByteAt(k)
  OBVIOUS
<1> QED
  BY <1>1, <1>2, <1>3

\* Two files are the same if they have the same size and the same bytes.
LEMMA SameFile ==
  ASSUME NEW f \in Seq(Byte), NEW g \in Seq(Byte), Len(f) = Len(g), \A k \in 1..Len(f) : f[k] = g[k]
  PROVE  f = g
BY SeqEqual

\* The bytes stored by a step are those that Write of OutFile stores.
LEMMA StoreIsWrite ==
  ASSUME CacheInv, C!Store
  PROVE  C!O!Write(cData) \/ (C!O!fileVars)' = C!O!fileVars
<1>1. /\ cVirtPos \in Nat /\ cVirtSize \in Nat /\ Zero \in Byte /\ C!TypeOK /\ CallInv
      /\ C!TypeOK'
  BY CacheTypes, StoreStep DEF CacheInv
<1>2. cPc = "store" /\ ~cFailed /\ cFailed' = cFailed /\ cPhys' = cPhys /\ cData \in Seq(Byte)
  BY <1>1, OutStreamAssumption DEF C!Store, C!phyVars, CallInv, OutStreamAssumption
<1>3. CASE cCachedSize = CacheSize /\ cVirtPos = C!cachedEnd
  <2>1. UNCHANGED <<cVirtPos, cVirtSize, cCachedPos, cCachedSize, cCache, cPc>>
    BY <1>3 DEF C!Store, C!virtVars, C!cacheVars
  <2>2. \A k \in Nat : k > 0 => ByteAt(k)' = ByteAt(k)
    BY <1>2, <2>1 DEF ByteAt, C!Slot, C!cachedEnd
  <2>3. C!Virtual' = C!Virtual
    BY <1>1, <2>1, <2>2, VirtualKept
  <2> QED
    BY <1>2, <2>1, <2>3, FileActions DEF FileContent, FileState, FileDisk
<1>4. CASE ~(cCachedSize = CacheSize /\ cVirtPos = C!cachedEnd)
  <2> DEFINE n == Fits
             d == SubSeq(cData, 1, n)
             g == C!O!Stored(C!Virtual, cVirtPos, d)
  <2>1. /\ cVirtPos' = cVirtPos + n /\ cVirtSize' = C!MaxOf(cVirtSize, cVirtPos + n)
        /\ cPc' = "idle"
    BY <1>4 DEF C!Store, First, Fits
  <2>2. /\ n \in 1..Len(cData)
        /\ \A k \in Nat : k > 0 =>
             ByteAt(k)' = IF k \in (cVirtPos + 1)..(cVirtPos + n) THEN cData[k - cVirtPos]
                          ELSE ByteAt(k)
    BY <1>4, StoreBytes
  <2>3. \A k \in Nat : k > cVirtSize => ByteAt(k) = Zero
    BY <1>2 DEF CacheInv, DataInv, Intact
  <2> HIDE DEF n
  <2>4. n \in Nat /\ d \in Seq(Byte) /\ Len(d) = n /\ \A k \in 1..n : d[k] = cData[k]
    BY <1>2, <2>2, SubSeqProperties
  <2> HIDE DEF d
  <2>5. /\ C!Virtual \in Seq(Byte) /\ Len(C!Virtual) = cVirtSize
        /\ \A k \in 1..cVirtSize : C!Virtual[k] = ByteAt(k)
    BY <1>1, VirtualIs
  <2>6. /\ C!Virtual' \in Seq(Byte) /\ Len(C!Virtual') = cVirtSize'
        /\ \A k \in 1..cVirtSize' : C!Virtual'[k] = ByteAt(k)'
    BY <1>1, VirtualIsNext
  <2>7. /\ g \in Seq(Byte)
        /\ Len(g) = IF cVirtSize < cVirtPos + n THEN cVirtPos + n ELSE cVirtSize
        /\ \A k \in 1..Len(g) :
             g[k] = IF k \in (cVirtPos + 1)..(cVirtPos + n) THEN d[k - cVirtPos]
                    ELSE IF k <= cVirtSize THEN C!Virtual[k] ELSE Zero
    <3>1. /\ g \in Seq(Byte)
          /\ Len(g) = IF Len(C!Virtual) < cVirtPos + Len(d) THEN cVirtPos + Len(d)
                      ELSE Len(C!Virtual)
          /\ \A k \in 1..Len(g) :
               g[k] = IF k \in (cVirtPos + 1)..(cVirtPos + Len(d)) THEN d[k - cVirtPos]
                      ELSE IF k <= Len(C!Virtual) THEN C!Virtual[k] ELSE Zero
      <4>1. Overwritten(g, Byte, C!Virtual, cVirtPos, d)
        BY <1>1, <2>4, <2>5, StoredIs
      <4> QED
        BY <4>1 DEF Overwritten
    <3> HIDE DEF g
    <3> QED
      BY <3>1, <2>4, <2>5
  <2> HIDE DEF g
  <2>8. cVirtSize' = Len(g) /\ cVirtSize' \in Nat
    BY <1>1, <2>1, <2>4, <2>7 DEF C!MaxOf
  <2>9. ASSUME NEW k \in 1..Len(g)
        PROVE  g[k] = ByteAt(k)'
    <3>1. k \in Nat /\ k > 0
      BY <2>8
    <3>2. CASE k \in (cVirtPos + 1)..(cVirtPos + n)
      <4>1. k - cVirtPos \in 1..n
        BY <1>1, <2>4, <3>1, <3>2
      <4> QED
        BY <2>2, <2>4, <2>7, <3>1, <3>2, <4>1
    <3>3. CASE ~(k \in (cVirtPos + 1)..(cVirtPos + n)) /\ k <= cVirtSize
      <4>1. k \in 1..cVirtSize
        BY <1>1, <3>1, <3>3
      <4> QED
        BY <2>2, <2>5, <2>7, <3>1, <3>3, <4>1
    <3>4. CASE ~(k \in (cVirtPos + 1)..(cVirtPos + n)) /\ ~(k <= cVirtSize)
      <4>1. k > cVirtSize
        BY <1>1, <3>1, <3>4
      <4> QED
        BY <2>2, <2>3, <2>7, <3>1, <3>4, <4>1
    <3> QED
      BY <3>2, <3>3, <3>4
  <2>10. C!Virtual' = g
    BY <2>6, <2>7, <2>8, <2>9, SameFile
  <2>11. FileContent' = C!O!Stored(FileContent, cVirtPos, SubSeq(cData, 1, n))
    BY <1>2, <2>10 DEF FileContent, g, d
  <2>12. FileState = "open" /\ FileState' = FileState /\ FileDisk' = FileDisk
    BY <1>2, <2>1 DEF FileState, FileDisk
  <2> QED
    BY <2>1, <2>2, <2>11, <2>12, FileActions
<1> QED
  BY <1>3, <1>4

\* SetSize.
LEMMA SetSizeIsSetSize ==
  ASSUME CacheInv, NEW p \in Places, C!SetSize(p)
  PROVE  C!O!SetSize(p)
<1> DEFINE g == C!O!Resized(C!Virtual, p)
<1>1. /\ cPc = "idle" /\ ~cFailed /\ cVirtSize' = p /\ p \in Nat
      /\ UNCHANGED <<cVirtPos, cPc, cFailed>>
  BY Numbers DEF C!SetSize
<1>2. /\ cVirtSize \in Nat /\ Zero \in Byte /\ C!TypeOK /\ C!TypeOK'
      /\ \A k \in Nat : k > 0 => ByteAt(k)' = IF k <= p THEN ByteAt(k) ELSE Zero
  BY CacheTypes, CacheSetSizeStep DEF CacheInv
<1>3. \A k \in Nat : k > cVirtSize => ByteAt(k) = Zero
  BY <1>1 DEF CacheInv, DataInv, Intact
<1>4. /\ C!Virtual \in Seq(Byte) /\ Len(C!Virtual) = cVirtSize
      /\ \A k \in 1..cVirtSize : C!Virtual[k] = ByteAt(k)
  BY <1>2, VirtualIs
<1>5. /\ C!Virtual' \in Seq(Byte) /\ Len(C!Virtual') = p
      /\ \A k \in 1..p : C!Virtual'[k] = ByteAt(k)'
  BY <1>1, <1>2, VirtualIsNext
<1>6. /\ g \in Seq(Byte) /\ Len(g) = p
      /\ \A k \in 1..p : g[k] = IF k <= Len(C!Virtual) THEN C!Virtual[k] ELSE Zero
  BY <1>1, <1>2, <1>4, ResizedIs
<1> HIDE DEF g
<1>7. ASSUME NEW k \in 1..p
      PROVE  C!Virtual'[k] = g[k]
  <2>1. k \in Nat /\ k > 0 /\ k <= p
    BY <1>1
  <2>2. CASE k <= cVirtSize
    <3>1. k \in 1..cVirtSize
      BY <1>2, <2>1, <2>2
    <3> QED
      BY <1>2, <1>4, <1>5, <1>6, <2>1, <2>2, <3>1
  <2>3. CASE ~(k <= cVirtSize)
    <3>1. k > cVirtSize
      BY <1>2, <2>1, <2>3
    <3> QED
      BY <1>2, <1>3, <1>4, <1>5, <1>6, <2>1, <2>3, <3>1
  <2> QED
    BY <2>2, <2>3
<1>8. C!Virtual' = g
  BY <1>5, <1>6, <1>7, SameFile
<1>9. FileContent' = C!O!Resized(FileContent, p)
  BY <1>1, <1>8 DEF FileContent, g
<1> QED
  BY <1>1, <1>9, FileActions DEF FileState, FileDisk

\* When the stream is released the disk has all of it, if the destructor does not fail:
\* what was cached has been written, and the size is set right.
LEMMA CloseIsClose ==
  ASSUME CacheInv, C!Close, "release" \notin MayFail
  PROVE  C!O!Close
<1>1. /\ cPc = "release" /\ cLeft = 0 /\ cPc' = "closed" /\ cPhys' = C!SetToSize(cVirtSize)
      /\ UNCHANGED <<cVirtPos, cVirtSize, cCachedPos, cCachedSize, cCache, cFailed, cPhySize>>
  BY DEF C!Close, C!virtVars, C!cacheVars
<1>2. /\ cVirtSize \in Nat /\ Zero \in Byte /\ cPhys \in Seq(Byte) /\ cCachedPos \in Nat
      /\ C!cachedEnd = cCachedPos + cCachedSize /\ C!TypeOK /\ C!TypeOK' /\ Len(cPhys) \in Nat
  BY CacheTypes, CacheCloseStep DEF CacheInv
<1>3. cPhys' \in Seq(Byte)
  BY <1>2 DEF C!TypeOK
<1>4. FileState # "closed" /\ FileState' = "closed" /\ FileDisk' = cPhys'
  BY <1>1 DEF FileState, FileDisk
<1>5. CASE cFailed
  BY <1>1, <1>3, <1>4, <1>5, FileActions DEF FileContent, FileState
<1>6. CASE ~cFailed
  <2>1. cCachedSize = 0 /\ cPhySize = Len(cPhys)
    BY <1>1, <1>6 DEF CacheInv, DataInv, Intact, Placed
  <2>2. \A k \in Nat : k > 0 =>
          /\ ByteAt(k) = IF k <= Len(cPhys) THEN cPhys[k] ELSE Zero
          /\ ByteAt(k)' = IF k <= Len(cPhys') THEN cPhys'[k] ELSE Zero
    <3> TAKE k \in Nat
    <3> HAVE k > 0
    <3>1. C!cachedEnd' = C!cachedEnd /\ cCachedPos' = cCachedPos
      BY <1>1 DEF C!cachedEnd
    <3>2. ~(k - 1 \in cCachedPos..(C!cachedEnd - 1))
      BY <1>2, <2>1
    <3> QED
      BY <3>1, <3>2 DEF ByteAt
  <2>3. /\ Len(cPhys') = cVirtSize
        /\ \A k \in 1..cVirtSize : cPhys'[k] = IF k <= Len(cPhys) THEN cPhys[k] ELSE Zero
    <3>1. CASE cVirtSize # cPhySize
      <4>1. cPhys' = C!O!Resized(cPhys, cVirtSize)
        BY <1>1, <3>1 DEF C!SetToSize
      <4> QED
        BY <1>2, <4>1, ResizedIs
    <3>2. CASE cVirtSize = cPhySize
      <4>1. cPhys' = cPhys
        BY <1>1, <3>2 DEF C!SetToSize
      <4> QED
        BY <1>2, <2>1, <3>2, <4>1
    <3> QED
      BY <3>1, <3>2
  <2>4. /\ C!Virtual \in Seq(Byte) /\ Len(C!Virtual) = cVirtSize
        /\ \A k \in 1..cVirtSize : C!Virtual[k] = ByteAt(k)
    BY <1>2, VirtualIs
  <2>5. /\ C!Virtual' \in Seq(Byte) /\ Len(C!Virtual') = cVirtSize
        /\ \A k \in 1..cVirtSize : C!Virtual'[k] = ByteAt(k)'
    BY <1>1, <1>2, VirtualIsNext
  <2>6. ASSUME NEW k \in 1..cVirtSize
        PROVE  cPhys'[k] = C!Virtual[k] /\ C!Virtual'[k] = C!Virtual[k]
    <3>1. k \in Nat /\ k > 0 /\ k <= Len(cPhys')
      BY <1>2, <2>3
    <3> QED
      BY <2>2, <2>3, <2>4, <2>5, <3>1
  <2>7. cPhys' = C!Virtual
    BY <1>3, <2>3, <2>4, <2>6, SameFile
  <2>8. C!Virtual' = C!Virtual
    BY <2>4, <2>5, <2>6, SameFile
  <2> QED
    BY <1>1, <1>3, <1>4, <1>6, <2>7, <2>8, FileActions DEF FileContent
<1> QED
  BY <1>5, <1>6

\* The steps of a call before it takes effect do not change the file.
LEMMA CacheStutters ==
  ASSUME CacheInv, cVirtSize' = cVirtSize, cVirtPos' = cVirtPos, cFailed' = cFailed,
         cPc # "closed", cPc' # "closed",
         ~cFailed => \A k \in Nat : k > 0 => ByteAt(k)' = ByteAt(k)
  PROVE  (C!O!fileVars)' = C!O!fileVars
<1>1. cVirtSize \in Nat
  BY CacheTypes DEF CacheInv
<1>2. ~cFailed => C!Virtual' = C!Virtual
  BY <1>1, VirtualKept
<1>3. FileContent' = FileContent
  BY <1>2 DEF FileContent
<1> QED
  BY <1>3, FileActions DEF FileState, FileDisk

\* A step that leaves the stream alone leaves the file alone.
LEMMA CacheUnchanged ==
  ASSUME CacheInv, UNCHANGED C!vars
  PROVE  UNCHANGED C!O!fileVars
<1>1. UNCHANGED <<cPhys, cVirtPos, cVirtSize, cCachedPos, cCachedSize, cCache, cPc, cFailed>>
  BY DEF C!vars, C!phyVars, C!virtVars, C!cacheVars
<1>2. \A k \in Nat : ByteAt(k)' = ByteAt(k)
  BY <1>1 DEF ByteAt, C!Slot, C!cachedEnd
<1>3. C!Virtual' = C!Virtual
  BY <1>1, <1>2, CacheTypes, VirtualKept DEF CacheInv
<1> QED
  BY <1>1, <1>3, FileActions DEF FileContent, FileState, FileDisk

\* Every step is one of the plain file, if the file below does not fail in the destructor.
LEMMA CacheRefines ==
  ASSUME CacheInv, [C!Next]_(C!vars), "release" \notin MayFail
  PROVE  [C!O!Next]_(C!O!fileVars)
<1>1. CASE C!MyWrite
  <2>1. /\ UNCHANGED <<cVirtPos, cVirtSize, cPc, cFailed>> /\ cPc # "closed"
    BY <1>1 DEF C!MyWrite, C!virtVars, CacheInv, CallInv
  <2>2. ~cFailed => \A k \in Nat : k > 0 => ByteAt(k)' = ByteAt(k)
    BY <1>1, MyWriteStep DEF Intact
  <2> QED
    BY <2>1, <2>2, CacheStutters
<1>2. CASE C!MyWriteFails
  <2>1. /\ cPc # "release" /\ cPc # "closed" /\ cPc # "idle" /\ cPc' = "idle"
        /\ cFailed' = TRUE /\ cVirtPos' = cVirtPos
    BY <1>2 DEF C!MyWriteFails, C!virtVars, CacheInv, CallInv
  <2>2. ~cFailed
    BY <2>1 DEF CacheInv, CallInv, C!TypeOK, C!Place
  <2> QED
    BY <2>1, <2>2, FileActions DEF C!O!Next, FileContent, FileState, FileDisk
<1>3. ASSUME NEW d \in Data, C!Write(d) PROVE (C!O!fileVars)' = C!O!fileVars
  <2>1. /\ UNCHANGED <<cVirtPos, cVirtSize, cFailed, cPhys, cCachedPos, cCachedSize, cCache>>
        /\ cPc = "idle" /\ cPc' = "gap"
    BY <1>3 DEF C!Write, C!phyVars, C!virtVars, C!cacheVars
  <2>2. \A k \in Nat : ByteAt(k)' = ByteAt(k)
    BY <2>1 DEF ByteAt, C!Slot, C!cachedEnd
  <2> QED
    BY <2>1, <2>2, CacheStutters
<1>4. CASE C!FindGap
  <2>1. UNCHANGED <<cVirtPos, cVirtSize, cFailed>> /\ cPc = "gap" /\ cPc' # "closed"
    BY <1>4 DEF C!FindGap, C!virtVars
  <2> QED
    BY <1>4, <2>1, FindGapStep, CacheStutters
<1>5. CASE C!FillZeros
  <2>1. UNCHANGED <<cVirtPos, cVirtSize, cFailed>> /\ cPc = "zeros" /\ cPc' # "closed"
    BY <1>5 DEF C!FillZeros, C!virtVars
  <2> QED
    BY <1>5, <2>1, FillZerosStep, CacheStutters
<1>6. CASE C!Store
  <2>1. cData \in Data
    BY <1>6 DEF C!Store, CacheInv, CallInv
  <2> QED
    BY <1>6, <2>1, StoreIsWrite DEF C!O!Next
<1>7. ASSUME NEW p \in Places, C!Seek(p) PROVE C!O!Seek(p)
  <2>1. /\ UNCHANGED <<cVirtSize, cFailed, cPhys, cCachedPos, cCachedSize, cCache, cPc>>
        /\ cPc = "idle" /\ ~cFailed /\ cVirtPos' = p
    BY <1>7 DEF C!Seek, C!phyVars, C!cacheVars
  <2>2. \A k \in Nat : ByteAt(k)' = ByteAt(k)
    BY <2>1 DEF ByteAt, C!Slot, C!cachedEnd
  <2>3. C!Virtual' = C!Virtual
    BY <2>1, <2>2, CacheTypes, VirtualKept DEF CacheInv
  <2> QED
    BY <2>1, <2>3, FileActions DEF FileContent, FileState, FileDisk
<1>8. ASSUME NEW p \in Places, C!SetSize(p) PROVE C!O!SetSize(p)
  BY <1>8, SetSizeIsSetSize
<1>9. ASSUME NEW p \in Places, C!SetSizeFails(p) PROVE C!O!Fail
  <2>1. cPc = "idle" /\ cPc' = "idle" /\ ~cFailed /\ cFailed' = TRUE /\ cVirtPos' = cVirtPos
    BY <1>9 DEF C!SetSizeFails
  <2> QED
    BY <2>1, FileActions DEF FileContent, FileState, FileDisk
<1>10. CASE C!Release
  <2>1. /\ UNCHANGED <<cVirtPos, cVirtSize, cFailed, cPhys, cCachedPos, cCachedSize, cCache>>
        /\ cPc = "idle" /\ cPc' = "release"
    BY <1>10 DEF C!Release, C!phyVars, C!virtVars, C!cacheVars
  <2>2. \A k \in Nat : ByteAt(k)' = ByteAt(k)
    BY <2>1 DEF ByteAt, C!Slot, C!cachedEnd
  <2> QED
    BY <2>1, <2>2, CacheStutters
<1>11. CASE C!Close
  BY <1>11, CloseIsClose DEF C!O!Next
<1>12. CASE C!Terminating \/ UNCHANGED C!vars
  BY <1>12, CacheUnchanged DEF C!Terminating
<1> QED
  BY <1>1, <1>2, <1>3, <1>4, <1>5, <1>6, <1>7, <1>8, <1>9, <1>10, <1>11, <1>12
  DEF C!Next, C!O!Next

\* At the start the file is empty.
LEMMA CacheRefinesInit == C!Init => C!O!Init
<1> SUFFICES ASSUME C!Init PROVE C!O!Init
  OBVIOUS
<1>1. /\ cVirtPos = 0 /\ cVirtSize = 0 /\ cPc = "idle" /\ cFailed = FALSE
  BY DEF C!Init
<1>2. C!TypeOK
  BY CacheInitial DEF CacheInv
<1>3. C!Virtual \in Seq(Byte) /\ Len(C!Virtual) = 0
  BY <1>1, <1>2, VirtualIs
<1>4. C!Virtual = <<>>
  BY <1>3, EmptySeq
<1> QED
  BY <1>1, <1>4 DEF C!O!Init

\* With its cache, gaps, seeks and truncations the stream is a plain file, and if no call
\* has failed the disk holds all of it when it is released.  The hypothesis leaves out the
\* errors that the destructor ignores (ZipUpdate.cpp:898).
THEOREM CacheRefinesOutFile ==
  ASSUME "release" \notin MayFail
  PROVE  C!Spec => C!ImplementsOutFile
<1>1. C!Spec => []CacheInv
  BY CacheInitial, CacheStep, PTL DEF C!Spec
<1>2. CacheInv /\ [C!Next]_(C!vars) => [C!O!Next]_(C!O!fileVars)
  BY CacheRefines
<1> QED
  BY <1>1, <1>2, CacheRefinesInit, PTL DEF C!Spec, C!ImplementsOutFile, C!O!Spec

-----------------------------------------------------------------------------
(* The parts of MCOperations                                               *)

\* A behaviour of MCOperations is one of the cached stream that may stop for ever.
LEMMA CachePart ==
  /\ mcInit => C!Init
  /\ [mcNext]_mcVars => (part = "cache" /\ C!Next) \/ UNCHANGED C!vars
<1>1. mcInit => C!Init
  BY DEF mcInit
<1>2. [mcNext]_mcVars => (part = "cache" /\ C!Next) \/ UNCHANGED C!vars
  BY DEF mcNext, mcVars, cVars, C!vars, C!phyVars, C!virtVars, C!cacheVars
<1> QED
  BY <1>1, <1>2

\* The invariant of the cached stream holds in every part.
LEMMA CacheInvHolds == mcSpec => []CacheInv
<1>1. mcInit => CacheInv
  BY CachePart, CacheInitial
<1>2. CacheInv /\ [mcNext]_mcVars => CacheInv'
  BY CachePart, CacheStep
<1> QED
  BY <1>1, <1>2, PTL DEF mcSpec

\* The part of MCOperations with the cached stream of zip is a plain file, which the
\* run operations checks on its instance.
THEOREM CachedStreamIsAFile ==
  ASSUME "release" \notin MayFail
  PROVE  mcSpec => ImplementsOutFile
<1>1. mcInit => C!O!Init
  BY CachePart, CacheRefinesInit
<1>2. CacheInv /\ [mcNext]_mcVars => [part = "cache" /\ C!O!Next]_(C!O!fileVars)
  <2> SUFFICES ASSUME CacheInv, [mcNext]_mcVars
               PROVE  [part = "cache" /\ C!O!Next]_(C!O!fileVars)
    OBVIOUS
  <2>1. CASE part = "cache" /\ C!Next
    BY <2>1, CacheRefines
  <2>2. CASE UNCHANGED C!vars
    BY <2>2, CacheUnchanged
  <2> QED
    BY <2>1, <2>2, CachePart
<1> QED
  BY <1>1, <1>2, CacheInvHolds, PTL DEF mcSpec, ImplementsOutFile

-----------------------------------------------------------------------------
(* Induction, and functions defined by recursion                           *)

\* A set that has 0, and the successor of each number it has, has all of them.
LEMMA NatInd ==
  ASSUME NEW S, 0 \in S, \A k \in Nat : k \in S => k + 1 \in S
  PROVE  \A k \in Nat : k \in S
<1> DEFINE T == Nat \ S
<1> SUFFICES ASSUME T # {} PROVE FALSE
  OBVIOUS
<1>1. PICK c \in T : \A d \in T : ~(<<d, c>> \in OpToRel(<, Nat))
  <2> T \subseteq Nat
    OBVIOUS
  <2> HIDE DEF T
  <2> QED
    BY WFMin, NatLessThanWellFounded, Zenon
<1>2. c \in Nat /\ c # 0 /\ c - 1 \in Nat
  OBVIOUS
<1>3. c - 1 \notin T
  <2> DEFINE p == <<c - 1, c>>
  <2>1. p \in Nat \X Nat /\ p[1] = c - 1 /\ p[2] = c
    BY <1>2
  <2> HIDE DEF p
  <2>2. p[1] < p[2]
    BY <1>2, <2>1
  <2>3. p \in OpToRel(<, Nat)
    BY <2>1, <2>2, Zenon DEF OpToRel
  <2> QED
    BY <1>1, <2>3, Zenon DEF p
<1>4. c - 1 \in S /\ (c - 1) + 1 = c
  BY <1>2, <1>3
<1> QED
  BY <1>2, <1>4

\* A recursion over 1..n has a value.
Follows(g, Vals, v, n, step) ==
  g \in [0..n -> Vals] /\ g[0] = v /\ \A i \in 1..n : g[i] = step[i][g[i - 1]]

LEMMA Recursion ==
  ASSUME NEW Vals, NEW v \in Vals, NEW n \in Nat, NEW step \in [1..n -> [Vals -> Vals]]
  PROVE  \E g : Follows(g, Vals, v, n, step)
<1> DEFINE Good(g, m) == g \in [0..m -> Vals] /\ g[0] = v /\ \A i \in 1..m : g[i] = step[i][g[i - 1]]
           S == {m \in Nat : m <= n => \E g : Good(g, m)}
<1>1. 0 \in S
  <2> DEFINE g == [i \in 0..0 |-> v]
  <2>1. Good(g, 0)
    OBVIOUS
  <2> QED
    BY <2>1
<1>2. ASSUME NEW k \in Nat, k \in S PROVE k + 1 \in S
  <2> SUFFICES ASSUME k + 1 <= n PROVE \E g : Good(g, k + 1)
    OBVIOUS
  <2>1. PICK g : Good(g, k)
    BY <1>2
  <2>2. g \in [0..k -> Vals] /\ g[k] \in Vals /\ step[k + 1] \in [Vals -> Vals]
    BY <2>1
  <2> DEFINE top == step[k + 1][g[k]]
             e == [i \in 0..(k + 1) |-> IF i <= k THEN g[i] ELSE top]
  <2>3. top \in Vals
    BY <2>2
  <2> HIDE DEF top
  <2>4. e \in [0..(k + 1) -> Vals] /\ e[0] = v
    BY <2>1, <2>2, <2>3
  <2>5. ASSUME NEW i \in 1..(k + 1) PROVE e[i] = step[i][e[i - 1]]
    <3>1. CASE i \in 1..k
      <4>1. e[i] = g[i] /\ e[i - 1] = g[i - 1]
        BY <3>1
      <4> QED
        BY <2>1, <3>1, <4>1
    <3>2. CASE i = k + 1
      <4>1. e[i] = top /\ e[i - 1] = g[k]
        BY <3>2
      <4> QED
        BY <3>2, <4>1 DEF top
    <3> QED
      BY <3>1, <3>2
  <2>6. Good(e, k + 1)
    BY <2>4, <2>5
  <2> QED
    BY <2>6
<1>3. \A m \in Nat : m \in S
  <2> HIDE DEF S
  <2> QED
    BY <1>1, <1>2, NatInd
<1> QED
  BY <1>3 DEF Follows

-----------------------------------------------------------------------------
(* Extraction: where a file of the user can be lost                         *)

\* A range of numbers.
Range1 == {v \in (1..MaxSuffix) \X (1..MaxSuffix) : v[1] <= v[2]}

\* A round of the search stays within its range.
LEMMA HalvedIs ==
  ASSUME NEW p, NEW v \in Range1
  PROVE  X!Halved(p, v[1], v[2]) \in Range1
<1>1. MaxSuffix \in Nat \ {0}
  BY ExtractAssumption
<1> DEFINE l == v[1]
           r == v[2]
           mid == (l + r) \div 2
<1>2. l \in 1..MaxSuffix /\ r \in 1..MaxSuffix /\ l <= r
  BY DEF Range1
<1>3. mid \in Int /\ (l # r => l <= mid /\ mid + 1 <= r)
  BY <1>1, <1>2
<1> HIDE DEF mid, l, r
<1>4. /\ l = r => <<l, r>> \in Range1
      /\ l # r => <<mid + 1, r>> \in Range1 /\ <<l, mid>> \in Range1
  BY <1>1, <1>2, <1>3 DEF Range1
<1>5. X!Halved(p, l, r) = IF l = r THEN <<l, r>>
                          ELSE IF X!Exists(<<p[1], mid>>) THEN <<mid + 1, r>> ELSE <<l, mid>>
  BY DEF X!Halved, mid
<1>6. X!Halved(p, l, r) \in Range1
  BY <1>4, <1>5
<1> QED
  BY <1>6 DEF l, r

\* The search for a free number ends with a number.
LEMMA FreeNumber ==
  ASSUME NEW p, p[1] \in ItemName
  PROVE  X!AutoRename(p) \in DiskPath /\ X!AutoRename(p)[1] = p[1]
<1> DEFINE n == MaxSuffix
           IsSearch(h) ==
             h = [k \in 0..n |-> IF k = 0 THEN <<1, n>> ELSE X!Halved(p, h[k - 1][1], h[k - 1][2])]
           search == CHOOSE h : IsSearch(h)
<1>1. n \in Nat \ {0} /\ <<1, n>> \in Range1
  BY ExtractAssumption DEF Range1
<1>2. X!AutoRename(p) = <<p[1], search[n][2]>>
  BY DEF X!AutoRename
<1> HIDE DEF n
<1>3. PICK g : g \in [0..n -> Range1] /\ g[0] = <<1, n>>
               /\ \A i \in 1..n : g[i] = X!Halved(p, g[i - 1][1], g[i - 1][2])
  <2> DEFINE Vals == Range1
             step == [i \in 1..n |-> [v \in Vals |-> X!Halved(p, v[1], v[2])]]
  <2>1. step \in [1..n -> [Vals -> Vals]] /\ <<1, n>> \in Vals
    BY <1>1, HalvedIs
  <2>2. PICK g : Follows(g, Vals, <<1, n>>, n, step)
    <3> HIDE DEF step, Vals
    <3> QED
      BY <1>1, <2>1, Recursion
  <2>3. g \in [0..n -> Vals] /\ g[0] = <<1, n>> /\ \A i \in 1..n : g[i] = step[i][g[i - 1]]
    BY <2>2 DEF Follows
  <2>4. \A i \in 1..n : g[i - 1] \in Vals
    BY <1>1, <2>3
  <2>5. \A i \in 1..n : step[i][g[i - 1]] = X!Halved(p, g[i - 1][1], g[i - 1][2])
    BY <2>4
  <2> QED
    BY <2>3, <2>5
<1>4. IsSearch(g)
  <2>1. g = [k \in 0..n |-> g[k]]
    BY <1>3
  <2>2. \A k \in 0..n : k = 0 \/ k \in 1..n
    BY <1>1
  <2>3. \A k \in 0..n : g[k] = IF k = 0 THEN <<1, n>> ELSE X!Halved(p, g[k - 1][1], g[k - 1][2])
    BY <1>3, <2>2
  <2> QED
    BY <2>1, <2>3
<1>5. IsSearch(search)
  BY <1>4
<1> HIDE DEF search
<1>6. search[0] = <<1, n>> /\ \A k \in 1..n : search[k] = X!Halved(p, search[k - 1][1], search[k - 1][2])
  <2>1. 0 \in 0..n /\ \A k \in 1..n : k \in 0..n /\ k # 0
    BY <1>1
  <2> QED
    BY <1>5, <2>1
<1> DEFINE S == {k \in Nat : k <= n => search[k] \in Range1}
<1>7. 0 \in S
  BY <1>1, <1>6
<1>8. ASSUME NEW k \in Nat, k \in S PROVE k + 1 \in S
  <2> SUFFICES ASSUME k + 1 <= n PROVE search[k + 1] \in Range1
    OBVIOUS
  <2>1. k + 1 \in 1..n /\ (k + 1) - 1 = k /\ search[k] \in Range1
    BY <1>1, <1>8
  <2>2. search[k + 1] = X!Halved(p, search[k][1], search[k][2])
    BY <1>6, <2>1
  <2> QED
    BY <2>1, <2>2, HalvedIs
<1>9. \A k \in Nat : k \in S
  <2> HIDE DEF S
  <2> QED
    BY <1>7, <1>8, NatInd
<1>10. search[n] \in Range1
  BY <1>1, <1>9
<1>11. search[n][2] \in 0..MaxSuffix
  BY <1>1, <1>10 DEF Range1
<1> QED
  BY <1>2, <1>11 DEF DiskPath

\* The table of the sums of s.
IsSum(t, s, n) == t \in [0..n -> Nat] /\ t[0] = 0 /\ \A j \in 1..n : t[j] = t[j - 1] + s[j]

LEMMA SumExists ==
  ASSUME NEW n \in Nat, NEW s \in [1..n -> Nat]
  PROVE  \E t : IsSum(t, s, n)
<1> DEFINE Vals == Nat
           step == [j \in 1..n |-> [v \in Vals |-> v + s[j]]]
<1>1. step \in [1..n -> [Vals -> Vals]] /\ 0 \in Vals
  OBVIOUS
<1>2. \A j \in 1..n, v \in Nat : step[j][v] = v + s[j]
  OBVIOUS
<1> HIDE DEF step, Vals
<1>3. PICK t : Follows(t, Vals, 0, n, step)
  BY <1>1, Recursion
<1>4. t \in [0..n -> Nat] /\ t[0] = 0 /\ \A j \in 1..n : t[j] = step[j][t[j - 1]]
  BY <1>3 DEF Follows, Vals
<1>5. ASSUME NEW j \in 1..n PROVE t[j] = t[j - 1] + s[j]
  <2>1. j - 1 \in 0..n
    OBVIOUS
  <2>2. t[j - 1] \in Nat
    BY <1>4, <2>1
  <2> QED
    BY <1>2, <1>4, <2>2
<1> QED
  BY <1>4, <1>5 DEF IsSum

-----------------------------------------------------------------------------
(* Extraction: the folders of the items                                     *)

\* The folder at work and the streams used of it after each item.
At ==
  LET at[i \in 0..Len(X!Items)] ==
        IF i = 0 THEN <<1, 0>>
        ELSE IF X!Size(i) = 0 THEN at[i - 1]
        ELSE IF at[i - 1][2] + 1 = X!Folders[at[i - 1][1]] THEN <<at[i - 1][1] + 1, 0>>
        ELSE <<at[i - 1][1], at[i - 1][2] + 1>>
  IN  at

\* The step of FillFolderStartFileIndex from a folder and a stream v over item i.
AfterItem(i, v) ==
  IF X!Size(i) = 0 THEN v
  ELSE IF v[2] + 1 = X!Folders[v[1]] THEN <<v[1] + 1, 0>>
  ELSE <<v[1], v[2] + 1>>

\* What is asked for is an archive and some of its items.
AskedOK == xAsked.arc \in Archives /\ xAsked.wanted \subseteq DOMAIN X!Items

LEMMA ItemTypes ==
  ASSUME AskedOK
  PROVE  /\ Len(X!Items) \in Nat /\ DOMAIN X!Items = 1..Len(X!Items)
         /\ \A i \in 1..Len(X!Items) : X!Items[i] \in ArchiveItem /\ X!Size(i) \in Nat
                                       /\ X!Items[i].path \in ItemName
<1>1. X!Items \in Seq(ArchiveItem)
  BY ExtractAssumption DEF AskedOK, X!Items
<1>2. Len(X!Items) \in Nat /\ DOMAIN X!Items = 1..Len(X!Items)
  BY <1>1, LenProperties
<1>3. \A i \in 1..Len(X!Items) : X!Items[i] \in ArchiveItem
  BY <1>1, ElementOfSeq
<1> QED
  BY <1>2, <1>3 DEF ArchiveItem, X!Size

LEMMA AtIs ==
  ASSUME AskedOK
  PROVE  /\ \A i \in 0..Len(X!Items) : At[i] \in Nat \X Nat /\ At[i][1] >= 1
         /\ \A i \in 1..Len(X!Items) : At[i] = AfterItem(i, At[i - 1])
<1> DEFINE n == Len(X!Items)
           Vals == {v \in Nat \X Nat : v[1] >= 1}
           IsAt(e) ==
             e = [i \in 0..Len(X!Items) |->
                   IF i = 0 THEN <<1, 0>>
                   ELSE IF X!Size(i) = 0 THEN e[i - 1]
                   ELSE IF e[i - 1][2] + 1 = X!Folders[e[i - 1][1]] THEN <<e[i - 1][1] + 1, 0>>
                   ELSE <<e[i - 1][1], e[i - 1][2] + 1>>]
<1>1. n \in Nat /\ <<1, 0>> \in Vals
  BY ItemTypes
<1>2. \A i \in 1..n, v \in Vals : AfterItem(i, v) \in Vals
  BY DEF AfterItem
<1>3. ASSUME NEW e
      PROVE  IsAt(e) <=> e = [i \in 0..n |-> IF i = 0 THEN <<1, 0>> ELSE AfterItem(i, e[i - 1])]
  BY DEF AfterItem
<1>4. At = CHOOSE e : IsAt(e)
  BY DEF At
<1> HIDE DEF n, Vals, IsAt
<1>5. PICK g : g \in [0..n -> Vals] /\ g[0] = <<1, 0>> /\ \A i \in 1..n : g[i] = AfterItem(i, g[i - 1])
  <2> DEFINE step == [i \in 1..n |-> [v \in Vals |-> AfterItem(i, v)]]
  <2>1. step \in [1..n -> [Vals -> Vals]]
    BY <1>2
  <2>2. PICK g : Follows(g, Vals, <<1, 0>>, n, step)
    <3> HIDE DEF step
    <3> QED
      BY <1>1, <2>1, Recursion
  <2>3. g \in [0..n -> Vals] /\ g[0] = <<1, 0>> /\ \A i \in 1..n : g[i] = step[i][g[i - 1]]
    BY <2>2 DEF Follows
  <2>4. \A i \in 1..n : g[i - 1] \in Vals
    BY <1>1, <2>3
  <2> QED
    BY <2>3, <2>4
<1>6. IsAt(g)
  <2>1. g = [k \in 0..n |-> g[k]]
    BY <1>5
  <2>2. \A k \in 0..n : k = 0 \/ (k # 0 /\ k \in 1..n)
    BY <1>1
  <2>3. \A k \in 0..n : g[k] = IF k = 0 THEN <<1, 0>> ELSE AfterItem(k, g[k - 1])
    BY <1>5, <2>2
  <2>4. g = [k \in 0..n |-> IF k = 0 THEN <<1, 0>> ELSE AfterItem(k, g[k - 1])]
    BY <2>1, <2>3
  <2> QED
    BY <1>3, <2>4
<1>7. IsAt(At)
  BY <1>4, <1>6
<1> DEFINE a == At
<1>8. a = [i \in 0..n |-> IF i = 0 THEN <<1, 0>> ELSE AfterItem(i, a[i - 1])]
  BY <1>3, <1>7
<1> HIDE DEF a
<1>9. a[0] = <<1, 0>> /\ \A i \in 1..n : a[i] = AfterItem(i, a[i - 1])
  <2>1. 0 \in 0..n /\ \A i \in 1..n : i \in 0..n /\ i # 0
    BY <1>1
  <2> QED
    BY <1>8, <2>1
<1> DEFINE S == {k \in Nat : k <= n => a[k] \in Vals}
<1>10. 0 \in S
  BY <1>1, <1>9
<1>11. ASSUME NEW k \in Nat, k \in S PROVE k + 1 \in S
  <2> SUFFICES ASSUME k + 1 <= n PROVE a[k + 1] \in Vals
    OBVIOUS
  <2>1. k + 1 \in 1..n /\ (k + 1) - 1 = k /\ a[k] \in Vals
    BY <1>1, <1>11
  <2> QED
    BY <1>2, <1>9, <2>1
<1>12. \A k \in Nat : k \in S
  <2> HIDE DEF S
  <2> QED
    BY <1>10, <1>11, NatInd
<1>13. \A k \in 0..n : a[k] \in Vals
  BY <1>1, <1>12
<1> QED
  BY <1>9, <1>13 DEF a, n, Vals

LEMMA FolderOfIs ==
  ASSUME AskedOK, NEW i \in 1..Len(X!Items)
  PROVE  /\ X!FolderOf[i] = IF X!Size(i) = 0 /\ At[i - 1][2] = 0 THEN 0 ELSE At[i - 1][1]
         /\ X!FolderOf[i] \in Nat
         /\ X!FolderOf[i] = 0 <=> X!Size(i) = 0 /\ At[i - 1][2] = 0
<1>1. X!FolderOf = [k \in 1..Len(X!Items) |->
                     IF X!Size(k) = 0 /\ At[k - 1][2] = 0 THEN 0 ELSE At[k - 1][1]]
  BY DEF X!FolderOf, At
<1>2. i - 1 \in 0..Len(X!Items)
  BY ItemTypes
<1>3. At[i - 1] \in Nat \X Nat /\ At[i - 1][1] >= 1
  BY <1>2, AtIs
<1> QED
  BY <1>1, <1>3

\* Folders come one after the other.
LEMMA AtGrows ==
  ASSUME AskedOK, NEW i \in 0..Len(X!Items), NEW j \in 0..Len(X!Items), i <= j
  PROVE  At[i][1] <= At[j][1]
<1> DEFINE n == Len(X!Items)
           S == {k \in Nat : i + k <= n => At[i][1] <= At[i + k][1]}
<1>1. n \in Nat /\ i \in 0..n /\ \A k \in 0..n : At[k][1] \in Nat /\ At[k][2] \in Nat
  BY ItemTypes, AtIs
<1>2. \A k \in 1..n : At[k] = AfterItem(k, At[k - 1])
  BY AtIs
<1> HIDE DEF n
<1>3. 0 \in S
  BY <1>1
<1>4. ASSUME NEW k \in Nat, k \in S PROVE k + 1 \in S
  <2> SUFFICES ASSUME i + (k + 1) <= n PROVE At[i][1] <= At[i + (k + 1)][1]
    OBVIOUS
  <2>1. PICK m : m = i + k
    OBVIOUS
  <2>2. i + (k + 1) = m + 1 /\ m \in 0..n /\ m + 1 \in 1..n /\ (m + 1) - 1 = m /\ i + k <= n
    BY <1>1, <2>1
  <2>3. At[i][1] <= At[m][1]
    BY <1>4, <2>1, <2>2
  <2>4. At[m + 1] = AfterItem(m + 1, At[m])
    BY <1>2, <2>2
  <2>5. At[m + 1][1] = At[m][1] \/ At[m + 1][1] = At[m][1] + 1
    BY <2>4 DEF AfterItem
  <2>6. At[m][1] \in Nat /\ At[i][1] \in Nat /\ At[m + 1][1] \in Nat
    BY <1>1, <2>2
  <2>7. At[i][1] <= At[m + 1][1]
    BY <2>3, <2>5, <2>6
  <2> QED
    BY <2>2, <2>7
<1>5. \A k \in Nat : k \in S
  <2> HIDE DEF S
  <2> QED
    BY <1>3, <1>4, NatInd
<1>6. PICK k \in Nat : j = i + k /\ i + k <= n
  <2>1. i \in Nat /\ j \in Nat /\ j <= n
    BY <1>1 DEF n
  <2> QED
    BY <2>1
<1>7. At[i][1] <= At[i + k][1]
  BY <1>5, <1>6
<1> QED
  BY <1>6, <1>7

\* The items of a folder are neighbours.
LEMMA FolderIsTogether ==
  ASSUME AskedOK, NEW a \in 1..Len(X!Items), NEW b \in 1..Len(X!Items), NEW c \in 1..Len(X!Items),
         a <= b, b <= c, X!FolderOf[a] # 0, X!FolderOf[a] = X!FolderOf[c]
  PROVE  X!FolderOf[b] = X!FolderOf[a]
<1> SUFFICES ASSUME a < b PROVE X!FolderOf[b] = X!FolderOf[a]
  BY ItemTypes
<1> DEFINE n == Len(X!Items)
           f == X!FolderOf[a]
<1>1. n \in Nat /\ \A k \in 0..n : At[k] \in Nat \X Nat /\ At[k][1] \in Nat /\ At[k][2] \in Nat
  BY ItemTypes, AtIs
<1>2. \A k \in 1..n : At[k] = AfterItem(k, At[k - 1])
  BY AtIs
<1>3. /\ a \in Nat /\ a >= 1 /\ a - 1 \in 0..n /\ a \in 0..n /\ b - 1 \in 0..n /\ c - 1 \in 0..n
      /\ a - 1 <= a /\ a <= b - 1 /\ b - 1 <= c - 1 /\ a \in 1..n /\ b \in 1..n /\ c \in 1..n
  <2>1. n \in Nat /\ a \in 1..n /\ b \in 1..n /\ c \in 1..n
    BY <1>1
  <2> HIDE DEF n
  <2> QED
    BY <2>1
<1>4. At[a - 1][1] = f /\ ~(X!Size(a) = 0 /\ At[a - 1][2] = 0) /\ At[c - 1][1] = f
  BY FolderOfIs
<1>5. At[a - 1][1] <= At[a][1] /\ At[a][1] <= At[b - 1][1] /\ At[b - 1][1] <= At[c - 1][1]
  <2> HIDE DEF f
  <2>1. n = Len(X!Items)
    OBVIOUS
  <2> HIDE DEF n
  <2> QED
    BY <1>3, <2>1, AtGrows
<1>6. At[a][1] = f /\ At[b - 1][1] = f
  <2> HIDE DEF n, f
  <2>1. At[a][1] \in Nat /\ At[b - 1][1] \in Nat /\ At[a - 1][1] \in Nat
    BY <1>1, <1>3
  <2> QED
    BY <1>4, <1>5, <2>1
<1> HIDE DEF n, f
<1>7. At[a][2] > 0
  <2>1. At[a] = AfterItem(a, At[a - 1])
    BY <1>2, <1>3
  <2>2. At[a - 1][1] \in Nat /\ At[a - 1][2] \in Nat
    BY <1>1, <1>3
  <2>3. CASE X!Size(a) = 0
    BY <1>4, <2>1, <2>2, <2>3 DEF AfterItem
  <2>4. CASE X!Size(a) # 0
    BY <1>4, <1>6, <2>1, <2>2, <2>4 DEF AfterItem
  <2> QED
    BY <2>3, <2>4
<1> DEFINE S == {k \in Nat : a + k <= b - 1 => At[a + k][2] > 0}
<1>8. 0 \in S
  BY <1>3, <1>7
<1>9. ASSUME NEW k \in Nat, k \in S PROVE k + 1 \in S
  <2> SUFFICES ASSUME a + (k + 1) <= b - 1 PROVE At[a + (k + 1)][2] > 0
    OBVIOUS
  <2>1. PICK m : m = a + k
    OBVIOUS
  <2>2. /\ a + (k + 1) = m + 1 /\ m \in 0..n /\ m + 1 \in 1..n /\ (m + 1) - 1 = m /\ m + 1 \in 0..n
        /\ a <= m /\ m <= m + 1 /\ m + 1 <= b - 1 /\ a + k <= b - 1
    BY <1>1, <1>3, <2>1
  <2>3. At[m][2] > 0
    BY <1>9, <2>1, <2>2
  <2>4. At[m + 1] = AfterItem(m + 1, At[m])
    BY <1>2, <2>2
  <2>5. At[a][1] <= At[m][1] /\ At[m][1] <= At[m + 1][1] /\ At[m + 1][1] <= At[b - 1][1]
    BY <1>3, <2>2, AtGrows DEF n
  <2>6. At[m][1] \in Nat /\ At[m][2] \in Nat /\ At[m + 1][1] \in Nat /\ At[a][1] \in Nat /\ At[b - 1][1] \in Nat
    BY <1>1, <1>3, <2>2
  <2>7. At[m + 1][1] = At[m][1]
    BY SMTT(30), <1>6, <2>5, <2>6
  <2>8. At[m + 1][2] > 0
    BY <2>3, <2>4, <2>6, <2>7 DEF AfterItem
  <2> QED
    BY <2>2, <2>8
<1>10. \A k \in Nat : k \in S
  <2> HIDE DEF S
  <2> QED
    BY <1>8, <1>9, NatInd
<1>11. At[b - 1][2] > 0
  <2>1. PICK k \in Nat : a + k = b - 1
    BY <1>1, <1>3
  <2> QED
    BY <1>3, <1>10, <2>1
<1>12. X!FolderOf[b] = At[b - 1][1]
  <2>1. At[b - 1][2] # 0
    BY <1>1, <1>3, <1>11
  <2> QED
    BY <2>1, FolderOfIs
<1> QED
  BY <1>6, <1>12 DEF f

\* The first item of a folder.
LEMMA FirstOfIs ==
  ASSUME AskedOK, NEW i \in 1..Len(X!Items)
  PROVE  /\ X!FirstOf(X!FolderOf[i]) \in 1..i
         /\ X!FolderOf[X!FirstOf(X!FolderOf[i])] = X!FolderOf[i]
<1> DEFINE n == Len(X!Items)
           f == X!FolderOf[i]
           T == {j \in 1..n : X!FolderOf[j] = f}
<1>1. n \in Nat /\ DOMAIN X!Items = 1..n
  BY ItemTypes
<1> HIDE DEF n
<1>2. PICK c \in T : \A d \in T : ~(<<d, c>> \in OpToRel(<, Nat))
  <2>1. T \subseteq Nat /\ T # {}
    BY <1>1 DEF n
  <2> HIDE DEF T
  <2> QED
    BY <2>1, WFMin, NatLessThanWellFounded, Zenon
<1>3. \A d \in T : c <= d
  <2>0. c \in Nat /\ \A d \in T : d \in Nat
    BY <1>1
  <2> HIDE DEF T
  <2> SUFFICES ASSUME NEW d \in T, d < c PROVE FALSE
    BY <2>0
  <2> DEFINE p == <<d, c>>
  <2>1. p \in Nat \X Nat /\ p[1] = d /\ p[2] = c
    BY <2>0
  <2> HIDE DEF p
  <2>2. p[1] < p[2]
    BY <2>1
  <2>3. p \in OpToRel(<, Nat)
    BY <2>1, <2>2, Zenon DEF OpToRel
  <2> QED
    BY <1>2, <2>3, Zenon DEF p
<1> DEFINE IsFirst(k) == X!FolderOf[k] = f /\ \A j \in DOMAIN X!Items : X!FolderOf[j] = f => k <= j
<1>4. c \in DOMAIN X!Items /\ IsFirst(c)
  BY <1>1, <1>2, <1>3
<1>5. X!FirstOf(f) = CHOOSE k \in DOMAIN X!Items : IsFirst(k)
  BY DEF X!FirstOf
<1>6. X!FirstOf(f) \in DOMAIN X!Items /\ IsFirst(X!FirstOf(f))
  <2> HIDE DEF IsFirst, f
  <2> QED
    BY <1>4, <1>5
<1>7. X!FirstOf(f) <= i
  BY <1>1, <1>6 DEF n
<1> QED
  BY <1>1, <1>6, <1>7

-----------------------------------------------------------------------------
(* Extraction: extractFolderInfoVector                                      *)

EntryRecord == [folder : Nat, start : Nat, statuses : Seq(BOOLEAN)]
Wanted(i) == i \in xAsked.wanted

\* The last item of an entry.
Stop(e) == e.start + Len(e.statuses) - 1

\* An entry goes from the first item of its folder to another item of it and says
\* which of them are wanted.
EntryRight(e) ==
  /\ e.start >= 1 /\ Len(e.statuses) >= 1 /\ Stop(e) <= Len(X!Items)
  /\ X!FolderOf[Stop(e)] = e.folder
  /\ e.folder = 0 => Len(e.statuses) = 1
  /\ e.folder # 0 => e.start = X!FirstOf(e.folder)
  /\ \A k \in 1..Len(e.statuses) : e.statuses[k] <=> Wanted(e.start + k - 1)

\* The entries d have each wanted item up to item i, in the order of the archive.
EntriesUpTo(d, i) ==
  /\ d \in Seq(EntryRecord)
  /\ \A a \in 1..Len(d) : EntryRight(d[a]) /\ Stop(d[a]) <= i
  /\ \A a, b \in 1..Len(d) : a < b => Stop(d[a]) < d[b].start
  /\ \A k \in 1..i : Wanted(k) => \E a \in 1..Len(d) : d[a].start <= k /\ k <= Stop(d[a])

\* What Extract does of item i, with the entries d that it has so far.
AddItem(i, d) ==
  IF i \notin xAsked.wanted THEN d
  ELSE IF X!FolderOf[i] = 0 THEN Append(d, X!Entry(0, i, <<TRUE>>))
  ELSE IF d = <<>> \/ (d # <<>> /\ d[Len(d)].folder # X!FolderOf[i])
  THEN Append(d, X!Fill(X!Entry(X!FolderOf[i], X!FirstOf(X!FolderOf[i]), <<>>), i))
  ELSE [d EXCEPT ![Len(d)] = X!Fill(@, i)]

\* An entry with no status or the one of the last folder is filled up to a wanted item.
LEMMA FillIs ==
  ASSUME AskedOK, NEW i \in 1..Len(X!Items), Wanted(i), NEW e \in EntryRecord,
         e.start >= 1, e.start + Len(e.statuses) <= i, e.folder = X!FolderOf[i], e.folder # 0,
         e.start = X!FirstOf(e.folder),
         \A k \in 1..Len(e.statuses) : e.statuses[k] <=> Wanted(e.start + k - 1),
         \A k \in (e.start + Len(e.statuses))..(i - 1) : ~Wanted(k)
  PROVE  /\ X!Fill(e, i) \in EntryRecord /\ EntryRight(X!Fill(e, i))
         /\ X!Fill(e, i).start = e.start /\ Stop(X!Fill(e, i)) = i
<1> DEFINE m == Len(e.statuses)
           s == e.start
           n == i - s + 1
           st == [k \in 1..n |-> IF k <= m THEN e.statuses[k] ELSE k = n]
           r == X!Fill(e, i)
<1>1. /\ i \in Nat /\ i <= Len(X!Items) /\ s \in Nat /\ e.folder \in Nat /\ e.statuses \in Seq(BOOLEAN)
  BY ItemTypes DEF EntryRecord
<1>2. m \in Nat /\ \A k \in 1..m : e.statuses[k] \in BOOLEAN
  BY <1>1, LenProperties, ElementOfSeq
<1>3. n \in Nat /\ n >= 1 /\ m < n /\ s + n - 1 = i
  BY <1>1, <1>2
<1>4. r = [folder |-> e.folder, start |-> s, statuses |-> st]
  <2>1. r = [e EXCEPT !.statuses = st]
    BY Zenon DEF X!Fill
  <2> HIDE DEF r, st
  <2> QED
    BY <2>1 DEF EntryRecord
<1> HIDE DEF m, n, r
<1>5. \A k \in 1..n : st[k] \in BOOLEAN /\ (st[k] <=> Wanted(s + k - 1))
  <2> SUFFICES ASSUME NEW k \in 1..n PROVE st[k] \in BOOLEAN /\ (st[k] <=> Wanted(s + k - 1))
    OBVIOUS
  <2>1. CASE k <= m
    <3>1. k \in 1..m
      BY <1>2, <1>3, <2>1
    <3>2. st[k] = e.statuses[k]
      BY <2>1, Zenon
    <3>3. e.statuses[k] \in BOOLEAN
      BY <1>2, <3>1
    <3>4. e.statuses[k] <=> Wanted(s + k - 1)
      BY <3>1, Zenon DEF m
    <3> QED
      BY <3>2, <3>3, <3>4, Zenon
  <2>2. CASE k > m /\ k # n
    <3>0. ~(k <= m)
      BY <1>2, <1>3, <2>2
    <3>1. st[k] = FALSE
      BY <2>2, <3>0, Zenon
    <3>2. s + k - 1 \in (s + m)..(i - 1)
      BY <1>1, <1>2, <1>3, <2>2
    <3>3. ~Wanted(s + k - 1)
      BY <3>2 DEF m
    <3> QED
      BY <3>1, <3>3
  <2>3. CASE k = n
    <3>0. ~(k <= m)
      BY <1>2, <1>3, <2>3
    <3>1. st[k] = TRUE
      BY <2>3, <3>0, Zenon
    <3>2. s + k - 1 = i
      BY <1>3, <2>3
    <3> QED
      BY <3>1, <3>2
  <2> QED
    BY <1>2, <1>3, <2>1, <2>2, <2>3
<1>6. st \in Seq(BOOLEAN) /\ Len(st) = n
  <2>1. st \in [1..n -> BOOLEAN]
    BY <1>5
  <2> HIDE DEF st
  <2> QED
    BY <1>3, <2>1, SeqDef, LenProperties
<1> HIDE DEF st
<1>7. r \in EntryRecord /\ r.start = s /\ r.folder = e.folder /\ r.statuses = st
  BY <1>1, <1>4, <1>6 DEF EntryRecord
<1>8. Stop(r) = i /\ Len(r.statuses) = n
  BY <1>1, <1>3, <1>6, <1>7 DEF Stop
<1>9. EntryRight(r)
  BY <1>1, <1>3, <1>5, <1>6, <1>7, <1>8 DEF EntryRight
<1> QED
  BY <1>7, <1>8, <1>9 DEF r

\* One item more.
LEMMA AddItemIs ==
  ASSUME AskedOK, NEW i \in 1..Len(X!Items), NEW d, EntriesUpTo(d, i - 1)
  PROVE  EntriesUpTo(AddItem(i, d), i)
<1> DEFINE f == X!FolderOf[i]
           m == Len(d)
<1>1. i \in Nat /\ i >= 1 /\ i <= Len(X!Items) /\ Len(X!Items) \in Nat /\ i - 1 \in Nat
  BY ItemTypes
<1>2. /\ d \in Seq(EntryRecord)
      /\ \A a \in 1..m : EntryRight(d[a]) /\ Stop(d[a]) <= i - 1
      /\ \A a, b \in 1..m : a < b => Stop(d[a]) < d[b].start
      /\ \A k \in 1..(i - 1) : Wanted(k) => \E a \in 1..m : d[a].start <= k /\ k <= Stop(d[a])
  BY DEF EntriesUpTo
<1>3. m \in Nat /\ \A a \in 1..m : d[a] \in EntryRecord
  BY <1>2, LenProperties, ElementOfSeq
<1>4. \A a \in 1..m : /\ d[a].start \in Nat /\ d[a].folder \in Nat /\ d[a].statuses \in Seq(BOOLEAN)
                      /\ Len(d[a].statuses) \in Nat /\ Stop(d[a]) \in Nat /\ d[a].start <= Stop(d[a])
  <2> SUFFICES ASSUME NEW a \in 1..m
               PROVE  /\ d[a].start \in Nat /\ d[a].folder \in Nat /\ d[a].statuses \in Seq(BOOLEAN)
                      /\ Len(d[a].statuses) \in Nat /\ Stop(d[a]) \in Nat /\ d[a].start <= Stop(d[a])
    OBVIOUS
  <2>1. d[a] \in EntryRecord /\ EntryRight(d[a])
    BY <1>2, <1>3
  <2>2. d[a].start \in Nat /\ d[a].folder \in Nat /\ d[a].statuses \in Seq(BOOLEAN)
    BY <2>1 DEF EntryRecord
  <2>3. Len(d[a].statuses) \in Nat
    BY <2>2, LenProperties
  <2> QED
    BY <2>1, <2>2, <2>3 DEF EntryRight, Stop
<1>5. f \in Nat
  BY FolderOfIs
<1>6. f # 0 => X!FirstOf(f) \in 1..i /\ X!FolderOf[X!FirstOf(f)] = f
  BY FirstOfIs
<1> HIDE DEF f
\* The wanted items so far do not go beyond the last entry.
<1>7. ASSUME NEW k \in 1..(i - 1), Wanted(k)
      PROVE  m >= 1 /\ k <= Stop(d[m])
  <2>1. PICK a \in 1..m : d[a].start <= k /\ k <= Stop(d[a])
    BY <1>2, <1>7
  <2>2. m \in 1..m /\ (a = m \/ a < m)
    BY <1>3
  <2>3. a < m => Stop(d[a]) < d[m].start
    BY <1>2, <2>2
  <2> QED
    BY SMTT(30), <1>1, <1>4, <2>1, <2>2, <2>3
\* An entry that is appended.
<1>8. ASSUME Wanted(i), NEW e \in EntryRecord, EntryRight(e), Stop(e) = i,
             m >= 1 => Stop(d[m]) < e.start
      PROVE  EntriesUpTo(Append(d, e), i)
  <2> DEFINE r == Append(d, e)
  <2>1. /\ r \in Seq(EntryRecord) /\ Len(r) = m + 1 /\ r[m + 1] = e
        /\ \A a \in 1..m : r[a] = d[a]
    BY <1>2, <1>8, AppendProperties
  <2> HIDE DEF r, m
  <2>2. \A a \in 1..(m + 1) : a \in 1..m \/ a = m + 1
    BY <1>3
  <2>3. ASSUME NEW a \in 1..(m + 1) PROVE EntryRight(r[a]) /\ Stop(r[a]) <= i
    <3>1. CASE a = m + 1
      BY <1>1, <1>8, <2>1, <3>1
    <3>2. CASE a \in 1..m
      <4>1. EntryRight(d[a]) /\ Stop(d[a]) <= i - 1 /\ Stop(d[a]) \in Nat
        BY <1>2, <1>4, <3>2
      <4> QED
        BY <1>1, <2>1, <3>2, <4>1
    <3> QED
      BY <2>2, <3>1, <3>2
  <2>4. ASSUME NEW a \in 1..(m + 1), NEW b \in 1..(m + 1), a < b PROVE Stop(r[a]) < r[b].start
    <3>1. a \in 1..m
      BY <1>3, <2>4
    <3>2. CASE b \in 1..m
      BY <1>2, <2>1, <2>4, <3>1, <3>2
    <3>3. CASE b = m + 1
      <4>1. m \in 1..m /\ m >= 1 /\ (a = m \/ a < m)
        BY <1>3, <3>1
      <4>2. a < m => Stop(d[a]) < d[m].start
        BY <1>2, <3>1, <4>1
      <4>3. Stop(d[m]) < e.start
        BY <1>8, <4>1
      <4>4. e.start \in Nat /\ Stop(d[m]) \in Nat /\ Stop(d[a]) \in Nat /\ d[m].start \in Nat
            /\ d[m].start <= Stop(d[m])
        BY <1>4, <3>1, <4>1 DEF EntryRecord
      <4>5. Stop(d[a]) < e.start
        BY <4>1, <4>2, <4>3, <4>4
      <4> QED
        BY <2>1, <3>1, <3>3, <4>5
    <3> QED
      BY <2>2, <3>2, <3>3
  <2>5. ASSUME NEW k \in 1..i, Wanted(k)
        PROVE  \E a \in 1..(m + 1) : r[a].start <= k /\ k <= Stop(r[a])
    <3>1. CASE k = i
      <4>1. e.start <= i
        <5>1. e.start \in Nat /\ e.statuses \in Seq(BOOLEAN)
          BY DEF EntryRecord
        <5>2. Len(e.statuses) \in Nat
          BY <5>1, LenProperties
        <5> QED
          BY <1>1, <1>8, <5>1, <5>2 DEF EntryRight, Stop
      <4>2. m + 1 \in 1..(m + 1)
        BY <1>3
      <4> QED
        BY <1>1, <1>8, <2>1, <3>1, <4>1, <4>2
    <3>2. CASE k # i
      <4>1. k \in 1..(i - 1)
        BY <1>1, <3>2
      <4>2. PICK a \in 1..m : d[a].start <= k /\ k <= Stop(d[a])
        BY <1>2, <2>5, <4>1
      <4>3. a \in 1..(m + 1)
        BY <1>3
      <4> QED
        BY <2>1, <4>2, <4>3
    <3> QED
      BY <3>1, <3>2
  <2>6. EntriesUpTo(r, i)
    BY <2>1, <2>3, <2>4, <2>5 DEF EntriesUpTo
  <2> QED
    BY <2>6 DEF r
<1>9. CASE ~Wanted(i)
  <2>1. AddItem(i, d) = d
    BY <1>9 DEF AddItem, Wanted
  <2>2. \A k \in 1..i : Wanted(k) => k \in 1..(i - 1)
    BY <1>1, <1>9
  <2>3. \A a \in 1..m : Stop(d[a]) <= i
    BY <1>1, <1>2, <1>4
  <2> QED
    BY <1>2, <2>1, <2>2, <2>3 DEF EntriesUpTo
<1>10. CASE Wanted(i) /\ f = 0
  <2> DEFINE e == X!Entry(0, i, <<TRUE>>)
  <2>1. AddItem(i, d) = Append(d, e)
    BY <1>10 DEF AddItem, Wanted, f
  <2>2. e.start = i /\ e.folder = 0 /\ e.statuses = <<TRUE>> /\ e \in EntryRecord
    <3>1. e = [folder |-> 0, start |-> i, statuses |-> <<TRUE>>]
      BY DEF X!Entry
    <3>2. <<TRUE>> \in Seq(BOOLEAN)
      OBVIOUS
    <3> DEFINE st == <<TRUE>>
    <3> HIDE DEF st, e
    <3>3. e.start = i /\ e.folder = 0 /\ e.statuses = st /\ e \in EntryRecord
      BY <1>1, <3>1, <3>2 DEF EntryRecord, st
    <3> QED
      BY <3>3 DEF st
  <2> HIDE DEF e
  <2>3. Len(e.statuses) = 1 /\ e.statuses[1] = TRUE /\ Stop(e) = i
    BY <1>1, <2>2 DEF Stop
  <2>4. EntryRight(e)
    <3>1. \A k \in 1..Len(e.statuses) : e.statuses[k] <=> Wanted(e.start + k - 1)
      <4>1. \A k \in 1..Len(e.statuses) : k = 1 /\ e.start + k - 1 = i
        BY <1>1, <2>2, <2>3
      <4> QED
        BY <1>10, <2>3, <4>1
    <3> QED
      BY <1>1, <1>10, <2>2, <2>3, <3>1 DEF EntryRight, f
  <2>5. m >= 1 => Stop(d[m]) < e.start
    BY <1>1, <1>2, <1>3, <1>4, <2>2
  <2> QED
    BY <1>8, <1>10, <2>1, <2>2, <2>3, <2>4, <2>5
<1>11. CASE Wanted(i) /\ f # 0 /\ (m = 0 \/ d[m].folder # f)
  <2> DEFINE s == X!FirstOf(f)
             e == X!Entry(f, s, <<>>)
             r == X!Fill(e, i)
  <2>1. d = <<>> <=> m = 0
    BY <1>2, EmptySeq
  <2>2. AddItem(i, d) = Append(d, r)
    BY <1>11, <2>1 DEF AddItem, Wanted, f
  <2>3. e.start = s /\ e.folder = f /\ e.statuses = <<>> /\ e \in EntryRecord
    BY <1>5, <1>6, <1>11 DEF X!Entry, EntryRecord
  <2>4. s \in 1..i /\ X!FolderOf[s] = f
    BY <1>6, <1>11
  <2> HIDE DEF e, s
  <2>5. m >= 1 => Stop(d[m]) < s
    <3> SUFFICES ASSUME m >= 1, s <= Stop(d[m]) PROVE FALSE
      BY <1>1, <1>3, <1>4, <2>4
    <3>1. m \in 1..m
      BY <1>3
    <3>2. EntryRight(d[m]) /\ Stop(d[m]) <= i - 1 /\ Stop(d[m]) \in Nat
      BY <1>2, <1>4, <3>1
    <3>3. s \in 1..Len(X!Items) /\ Stop(d[m]) \in 1..Len(X!Items) /\ Stop(d[m]) <= i
      BY <1>1, <2>4, <3>2
    <3>4. X!FolderOf[Stop(d[m])] = f
      BY <1>11, <2>4, <3>3, FolderIsTogether DEF f
    <3> QED
      BY <1>11, <3>2, <3>4 DEF EntryRight
  <2>6. \A k \in s..(i - 1) : ~Wanted(k)
    <3> SUFFICES ASSUME NEW k \in s..(i - 1), Wanted(k) PROVE FALSE
      OBVIOUS
    <3>1. k \in 1..(i - 1) /\ s <= k
      BY <1>1, <2>4
    <3>2. m >= 1 /\ k <= Stop(d[m])
      BY <1>7, <3>1
    <3>3. m \in 1..m
      BY <1>3, <3>2
    <3> QED
      BY SMTT(30), <1>1, <1>4, <2>4, <2>5, <3>1, <3>2, <3>3
  <2>7. /\ e.start >= 1 /\ Len(e.statuses) = 0 /\ e.start + Len(e.statuses) <= i
        /\ e.start + Len(e.statuses) = s
    BY <1>1, <2>3, <2>4
  <2>8. /\ r \in EntryRecord /\ EntryRight(r) /\ r.start = s /\ Stop(r) = i
    <3>1. \A k \in 1..Len(e.statuses) : e.statuses[k] <=> Wanted(e.start + k - 1)
      BY <2>7
    <3>2. \A k \in (e.start + Len(e.statuses))..(i - 1) : ~Wanted(k)
      BY <2>6, <2>7
    <3>3. e.start = X!FirstOf(e.folder)
      BY <2>3 DEF s
    <3> QED
      BY <1>11, <2>3, <2>7, <3>1, <3>2, <3>3, FillIs DEF f
  <2> QED
    BY <1>8, <1>11, <2>2, <2>5, <2>8
<1>12. CASE Wanted(i) /\ f # 0 /\ m # 0 /\ d[m].folder = f
  <2> DEFINE e == d[m]
             r == X!Fill(e, i)
             w == [d EXCEPT ![m] = r]
  <2>1. d # <<>> /\ m \in 1..m
    BY <1>2, <1>3, <1>12, EmptySeq
  <2>2. AddItem(i, d) = w
    BY <1>12, <2>1 DEF AddItem, Wanted, f
  <2>3. e \in EntryRecord /\ EntryRight(e) /\ Stop(e) <= i - 1
    BY <1>2, <1>3, <2>1
  <2>4. e.start \in Nat /\ Len(e.statuses) \in Nat
    BY <1>4, <2>1
  <2>5. e.start + Len(e.statuses) = Stop(e) + 1 /\ Stop(e) \in Nat /\ Stop(e) >= 0
    <3>1. Stop(e) \in Nat
      BY <1>4, <2>1
    <3> HIDE DEF e
    <3> QED
      BY <2>4, <3>1 DEF Stop
  <2> HIDE DEF e
  <2>6. \A k \in (e.start + Len(e.statuses))..(i - 1) : ~Wanted(k)
    <3> SUFFICES ASSUME NEW k \in (e.start + Len(e.statuses))..(i - 1), Wanted(k) PROVE FALSE
      OBVIOUS
    <3>1. k \in (Stop(e) + 1)..(i - 1)
      BY <2>5
    <3>2. k \in 1..(i - 1) /\ k > Stop(e)
      BY <1>1, <2>5, <3>1
    <3>3. k <= Stop(e)
      BY <1>7, <3>2 DEF e
    <3> QED
      BY <1>1, <2>5, <3>2, <3>3
  <2>7. r \in EntryRecord /\ EntryRight(r) /\ r.start = e.start /\ Stop(r) = i
    <3>1. e.start >= 1 /\ \A k \in 1..Len(e.statuses) : e.statuses[k] <=> Wanted(e.start + k - 1)
      BY <2>3 DEF EntryRight
    <3>2. e.start + Len(e.statuses) <= i
      BY <1>1, <2>3, <2>5
    <3>3. e.folder = X!FolderOf[i] /\ e.folder # 0
      BY <1>12 DEF e, f
    <3>4. e.start = X!FirstOf(e.folder)
      BY <2>3, <3>3 DEF EntryRight
    <3> QED
      BY <1>12, <2>3, <2>6, <3>1, <3>2, <3>3, <3>4, FillIs
  <2> HIDE DEF r
  <2>8. /\ w \in Seq(EntryRecord) /\ Len(w) = m /\ w[m] = r /\ \A a \in 1..m : a # m => w[a] = d[a]
    BY <1>2, <2>1, <2>7, ExceptSeq
  <2> HIDE DEF w, m
  <2>9. \A a \in 1..m : w[a].start = d[a].start
    BY <2>7, <2>8 DEF e
  <2>10. ASSUME NEW a \in 1..m PROVE EntryRight(w[a]) /\ Stop(w[a]) <= i /\ Stop(d[a]) <= Stop(w[a])
    <3>1. CASE a = m
      BY <1>1, <2>3, <2>5, <2>7, <2>8, <3>1 DEF e
    <3>2. CASE a # m
      BY SMTT(30), <1>1, <1>2, <1>4, <2>8, <3>2
    <3> QED
      BY <3>1, <3>2
  <2>11. ASSUME NEW a \in 1..m, NEW b \in 1..m, a < b PROVE Stop(w[a]) < w[b].start
    <3>1. a # m
      BY <1>3, <2>11
    <3> QED
      BY <1>2, <2>8, <2>9, <2>11, <3>1
  <2>12. ASSUME NEW k \in 1..i, Wanted(k) PROVE \E a \in 1..m : w[a].start <= k /\ k <= Stop(w[a])
    <3>1. CASE k = i
      <4>1. w[m].start <= i /\ Stop(w[m]) = i
        BY SMTT(30), <1>1, <2>3, <2>4, <2>5, <2>7, <2>8, <1>4, <2>1 DEF e
      <4> QED
        BY <1>1, <2>1, <3>1, <4>1
    <3>2. CASE k # i
      <4>1. k \in 1..(i - 1)
        BY <1>1, <3>2
      <4>2. PICK a \in 1..m : d[a].start <= k /\ k <= Stop(d[a])
        BY <1>2, <2>12, <4>1
      <4>3. w[a].start = d[a].start /\ Stop(d[a]) <= Stop(w[a])
        BY <2>9, <2>10
      <4>4. Stop(w[a]) \in Nat /\ Stop(d[a]) \in Nat
        <5>1. a = m => Stop(w[a]) = i
          BY <2>7, <2>8
        <5>2. a # m => Stop(w[a]) = Stop(d[a])
          BY <2>8
        <5> QED
          BY <1>1, <1>4, <5>1, <5>2
      <4>5. k <= Stop(w[a])
        BY <1>1, <4>1, <4>2, <4>3, <4>4
      <4> QED
        BY <4>2, <4>3, <4>5
    <3> QED
      BY <3>1, <3>2
  <2> QED
    BY <2>2, <2>8, <2>10, <2>11, <2>12 DEF EntriesUpTo
<1> QED
  BY <1>3, <1>9, <1>10, <1>11, <1>12

\* extractFolderInfoVector has the wanted items, in the order of the archive.
LEMMA EntriesAre ==
  ASSUME AskedOK
  PROVE  EntriesUpTo(X!Entries, Len(X!Items))
<1> DEFINE n == Len(X!Items)
           Vals == Seq(EntryRecord)
           IsList(e) ==
             e = [i \in 0..Len(X!Items) |->
                   IF i = 0 THEN <<>>
                   ELSE LET done == e[i - 1]
                            f == X!FolderOf[i]
                        IN  IF i \notin xAsked.wanted THEN done
                            ELSE IF f = 0 THEN Append(done, X!Entry(0, i, <<TRUE>>))
                            ELSE IF done = <<>> \/ (done # <<>> /\ done[Len(done)].folder # f)
                            THEN Append(done, X!Fill(X!Entry(f, X!FirstOf(f), <<>>), i))
                            ELSE [done EXCEPT ![Len(done)] = X!Fill(@, i)]]
           list == CHOOSE e : IsList(e)
<1>1. n \in Nat /\ <<>> \in Vals /\ EntriesUpTo(<<>>, 0)
  <2>1. n \in Nat /\ <<>> \in Vals /\ Len(<<>>) = 0
    BY ItemTypes, EmptySeq
  <2> QED
    BY <2>1 DEF EntriesUpTo
<1>2. ASSUME NEW e
      PROVE  IsList(e) <=> e = [i \in 0..n |-> IF i = 0 THEN <<>> ELSE AddItem(i, e[i - 1])]
  BY Zenon DEF AddItem
<1>3. X!Entries = list[n]
  BY DEF X!Entries
<1>4. \A i \in 1..n : \A d : EntriesUpTo(d, i - 1) => EntriesUpTo(AddItem(i, d), i)
  BY AddItemIs
<1>5. \A i, d : EntriesUpTo(d, i) => d \in Vals
  BY DEF EntriesUpTo
<1> HIDE DEF n, Vals, IsList
<1>6. PICK g : g \in [0..n -> Vals] /\ g[0] = <<>>
               /\ \A i \in 1..n : AddItem(i, g[i - 1]) \in Vals => g[i] = AddItem(i, g[i - 1])
  <2> DEFINE step == [i \in 1..n |-> [d \in Vals |-> IF AddItem(i, d) \in Vals THEN AddItem(i, d) ELSE d]]
  <2>1. step \in [1..n -> [Vals -> Vals]]
    OBVIOUS
  <2>2. PICK g : Follows(g, Vals, <<>>, n, step)
    <3> HIDE DEF step
    <3> QED
      BY <1>1, <2>1, Recursion
  <2>3. g \in [0..n -> Vals] /\ g[0] = <<>> /\ \A i \in 1..n : g[i] = step[i][g[i - 1]]
    BY <2>2 DEF Follows
  <2>4. \A i \in 1..n : g[i - 1] \in Vals
    BY <1>1, <2>3
  <2> QED
    BY <2>3, <2>4
<1> DEFINE S == {k \in Nat : k <= n => EntriesUpTo(g[k], k)}
<1>7. 0 \in S
  BY <1>1, <1>6
<1>8. ASSUME NEW k \in Nat, k \in S PROVE k + 1 \in S
  <2> SUFFICES ASSUME k + 1 <= n PROVE EntriesUpTo(g[k + 1], k + 1)
    OBVIOUS
  <2>1. k + 1 \in 1..n /\ (k + 1) - 1 = k /\ EntriesUpTo(g[k], k)
    BY <1>1, <1>8
  <2>2. EntriesUpTo(AddItem(k + 1, g[k]), k + 1)
    BY <1>4, <2>1
  <2>3. g[k + 1] = AddItem(k + 1, g[k])
    BY <1>5, <1>6, <2>1, <2>2
  <2> QED
    BY <2>2, <2>3
<1>9. \A k \in Nat : k \in S
  <2> HIDE DEF S
  <2> QED
    BY <1>7, <1>8, NatInd
<1>10. \A k \in 0..n : EntriesUpTo(g[k], k)
  BY <1>1, <1>9
<1>11. \A i \in 1..n : g[i] = AddItem(i, g[i - 1])
  <2> SUFFICES ASSUME NEW i \in 1..n PROVE g[i] = AddItem(i, g[i - 1])
    OBVIOUS
  <2>1. i - 1 \in 0..n
    BY <1>1
  <2>2. EntriesUpTo(AddItem(i, g[i - 1]), i)
    BY <1>4, <1>10, <2>1
  <2> QED
    BY <1>5, <1>6, <2>2
<1>12. IsList(g)
  <2>1. g = [k \in 0..n |-> g[k]]
    BY <1>6
  <2>2. \A k \in 0..n : k = 0 \/ (k # 0 /\ k \in 1..n)
    BY <1>1
  <2>3. \A k \in 0..n : g[k] = IF k = 0 THEN <<>> ELSE AddItem(k, g[k - 1])
    BY <1>6, <1>11, <2>2
  <2>4. g = [k \in 0..n |-> IF k = 0 THEN <<>> ELSE AddItem(k, g[k - 1])]
    BY <2>1, <2>3
  <2> QED
    BY <1>2, <2>4
<1>13. IsList(list)
  BY <1>12
<1> DEFINE a == list
<1>14. a = [i \in 0..n |-> IF i = 0 THEN <<>> ELSE AddItem(i, a[i - 1])]
  BY <1>2, <1>13
<1> HIDE DEF list, a
<1>15. a[0] = <<>> /\ \A i \in 1..n : a[i] = AddItem(i, a[i - 1])
  <2>1. 0 \in 0..n /\ \A i \in 1..n : i \in 0..n /\ i # 0
    BY <1>1
  <2> QED
    BY <1>14, <2>1
<1> DEFINE R == {k \in Nat : k <= n => EntriesUpTo(a[k], k)}
<1>16. 0 \in R
  BY <1>1, <1>15
<1>17. ASSUME NEW k \in Nat, k \in R PROVE k + 1 \in R
  <2> SUFFICES ASSUME k + 1 <= n PROVE EntriesUpTo(a[k + 1], k + 1)
    OBVIOUS
  <2>1. k + 1 \in 1..n /\ (k + 1) - 1 = k /\ EntriesUpTo(a[k], k)
    BY <1>1, <1>17
  <2> QED
    BY <1>4, <1>15, <2>1
<1>18. \A k \in Nat : k \in R
  <2> HIDE DEF R
  <2> QED
    BY <1>16, <1>17, NatInd
<1>19. EntriesUpTo(a[n], n)
  BY <1>1, <1>18
<1> QED
  BY <1>3, <1>19 DEF a, n

-----------------------------------------------------------------------------
(* Extraction: where an item is in its folder                               *)

LEMMA Difference ==
  ASSUME NEW i \in Nat, NEW a \in Nat, a <= i
  PROVE  i - a \in Nat /\ a + (i - a) = i /\ a + (i - a) - 1 = i - 1
OBVIOUS

\* The bytes before an item are those of the items from the first one of the folder on.
LEMMA TotalIs ==
  ASSUME AskedOK, NEW i \in 1..Len(X!Items), NEW a \in 1..i, a = X!FirstOf(X!FolderOf[i]),
         NEW t, t \in [0..Len(X!Items) -> Nat],
         \A j \in 1..Len(X!Items) : t[j] = t[j - 1] + X!Size(j)
  PROVE  X!TotalBefore(i) = t[i - 1] - t[a - 1]
<1> DEFINE n == Len(X!Items)
           Tables(f) == f = [j \in X!FirstOf(X!FolderOf[i])..i |->
                              IF j = X!FirstOf(X!FolderOf[i]) THEN 0 ELSE f[j - 1] + X!Size(j - 1)]
           sum == CHOOSE f : Tables(f)
           w == [j \in a..i |-> t[j - 1] - t[a - 1]]
<1>1. n \in Nat /\ i \in Nat /\ a \in Nat /\ a >= 1 /\ a <= i /\ i <= n
  BY ItemTypes
<1>2. X!TotalBefore(i) = sum[i]
  BY DEF X!TotalBefore
<1>3. \A j \in 0..n : t[j] \in Nat
  OBVIOUS
<1>4. \A j \in 1..n : t[j] = t[j - 1] + X!Size(j)
  OBVIOUS
<1> HIDE DEF n
<1>5. Tables(w)
  <2>1. ASSUME NEW j \in a..i
        PROVE  w[j] = IF j = a THEN 0 ELSE w[j - 1] + X!Size(j - 1)
    <3>1. j \in Nat /\ j - 1 \in 0..n /\ a - 1 \in 0..n
      BY <1>1
    <3>2. t[j - 1] \in Nat /\ t[a - 1] \in Nat /\ w[j] = t[j - 1] - t[a - 1]
      BY <1>3, <3>1
    <3>3. CASE j = a
      BY <3>2, <3>3
    <3>4. CASE j # a
      <4>1. j - 1 \in a..i /\ j - 1 \in 1..n /\ j - 2 \in 0..n /\ (j - 1) - 1 = j - 2
        BY <1>1, <3>1, <3>4
      <4>2. w[j - 1] = t[j - 2] - t[a - 1]
        BY <4>1
      <4>3. t[j - 1] = t[j - 2] + X!Size(j - 1) /\ t[j - 2] \in Nat
        BY <1>3, <1>4, <4>1
      <4>4. X!Size(j - 1) \in Nat
        BY <4>1, ItemTypes DEF n
      <4> HIDE DEF w
      <4>5. w[j - 1] + X!Size(j - 1) = t[j - 1] - t[a - 1]
        BY <3>2, <4>2, <4>3, <4>4
      <4> QED
        BY <3>2, <3>4, <4>5
    <3> QED
      BY <3>3, <3>4
  <2>2. w = [j \in a..i |-> w[j]]
    OBVIOUS
  <2> HIDE DEF w
  <2>3. w = [j \in a..i |-> IF j = a THEN 0 ELSE w[j - 1] + X!Size(j - 1)]
    BY <2>1, <2>2
  <2> QED
    BY <2>3
<1>6. Tables(sum)
  <2> HIDE DEF Tables, w
  <2> QED
    BY <1>5
<1>7. \A j \in a..i : sum[j] = IF j = a THEN 0 ELSE sum[j - 1] + X!Size(j - 1)
  <2> HIDE DEF sum
  <2> QED
    BY <1>6, Zenon
<1> HIDE DEF sum
<1> DEFINE S == {k \in Nat : a + k <= i => sum[a + k] = t[a + k - 1] - t[a - 1]}
<1>8. 0 \in S
  <2>1. a \in a..i /\ a - 1 \in 0..n /\ a + 0 = a
    BY <1>1
  <2>2. sum[a] = 0 /\ t[a - 1] \in Nat
    BY <1>3, <1>7, <2>1
  <2> QED
    BY <1>1, <2>1, <2>2
<1>9. ASSUME NEW k \in Nat, k \in S PROVE k + 1 \in S
  <2> SUFFICES ASSUME a + (k + 1) <= i PROVE sum[a + (k + 1)] = t[a + (k + 1) - 1] - t[a - 1]
    OBVIOUS
  <2>1. PICK m : m = a + k
    OBVIOUS
  <2>2. /\ a + (k + 1) = m + 1 /\ a + (k + 1) - 1 = m /\ a + k - 1 = m - 1 /\ m \in Nat
        /\ m + 1 \in a..i /\ m + 1 # a /\ (m + 1) - 1 = m /\ m \in 1..n /\ m - 1 \in 0..n
        /\ a - 1 \in 0..n /\ a + k <= i
    BY <1>1, <2>1
  <2>3. sum[m] = t[m - 1] - t[a - 1]
    BY <1>9, <2>1, <2>2
  <2>4. sum[m + 1] = sum[m] + X!Size(m)
    BY <1>7, <2>2
  <2>5. t[m] = t[m - 1] + X!Size(m) /\ t[m - 1] \in Nat /\ t[a - 1] \in Nat
    BY <1>3, <1>4, <2>2
  <2>6. X!Size(m) \in Nat
    BY <2>2, ItemTypes DEF n
  <2>7. sum[m + 1] = t[m] - t[a - 1]
    BY <2>3, <2>4, <2>5, <2>6
  <2> QED
    BY <2>2, <2>7
<1>10. \A k \in Nat : k \in S
  <2> HIDE DEF S
  <2> QED
    BY <1>8, <1>9, NatInd
<1>11. PICK k : k = i - a
  OBVIOUS
<1>12. sum[i] = t[i - 1] - t[a - 1]
  <2>1. k \in Nat /\ a + k = i /\ a + k - 1 = i - 1
    <3>1. i - a \in Nat /\ a + (i - a) = i /\ a + (i - a) - 1 = i - 1
      BY <1>1, Difference
    <3> QED
      BY <1>11, <3>1
  <2>2. a + k <= i
    BY <1>1, <2>1
  <2>3. sum[a + k] = t[a + k - 1] - t[a - 1]
    BY <1>10, <2>1, <2>2
  <2> QED
    BY <2>1, <2>3
<1> QED
  BY <1>2, <1>12

\* The items of an entry with a folder lie one after the other from its first byte on.
LEMMA EntryTotals ==
  ASSUME AskedOK, NEW e \in EntryRecord, EntryRight(e), e.folder # 0
  PROVE  /\ \A k \in e.start..Stop(e) : k \in 1..Len(X!Items) /\ X!TotalBefore(k) \in Int
         /\ X!TotalBefore(e.start) = 0
         /\ \A k \in e.start..Stop(e) :
              k # Stop(e) => X!TotalBefore(k + 1) = X!TotalBefore(k) + X!Size(k)
<1> DEFINE n == Len(X!Items)
           a == e.start
           z == Stop(e)
           f == e.folder
<1>1. n \in Nat /\ a \in Nat /\ a >= 1 /\ z \in Int /\ a <= z /\ z <= n
  <2>1. a \in Nat /\ e.statuses \in Seq(BOOLEAN)
    BY DEF EntryRecord
  <2>2. Len(e.statuses) \in Nat /\ Len(e.statuses) >= 1
    BY <2>1, LenProperties DEF EntryRight
  <2>3. n \in Nat
    BY ItemTypes
  <2> QED
    BY <2>1, <2>2, <2>3 DEF EntryRight, Stop
<1>2. X!FolderOf[z] = f /\ a = X!FirstOf(f)
  BY DEF EntryRight
<1>3. a \in 1..n /\ z \in 1..n
  <2> HIDE DEF n, a, z
  <2> QED
    BY <1>1
<1>4. X!FolderOf[a] = f
  BY <1>2, <1>3, FirstOfIs
<1>5. ASSUME NEW k \in a..z
      PROVE  k \in Nat /\ k \in 1..n /\ a \in 1..k /\ a = X!FirstOf(X!FolderOf[k])
  <2>1. k \in Nat /\ k \in 1..n /\ a <= k /\ k <= z /\ a \in 1..k
    <3> HIDE DEF n, a, z
    <3> QED
      BY <1>1, <1>5
  <2>2. X!FolderOf[k] = f
    BY <1>2, <1>3, <1>4, <2>1, FolderIsTogether
  <2> QED
    BY <1>2, <2>1, <2>2
<1>6. PICK t : t \in [0..n -> Nat] /\ \A j \in 1..n : t[j] = t[j - 1] + X!Size(j)
  <2> DEFINE s == [j \in 1..n |-> X!Size(j)]
  <2>1. s \in [1..n -> Nat]
    BY ItemTypes
  <2>2. \A j \in 1..n : s[j] = X!Size(j)
    OBVIOUS
  <2> HIDE DEF s, n
  <2>3. PICK t : IsSum(t, s, n)
    BY <1>1, <2>1, SumExists
  <2> QED
    BY <2>2, <2>3 DEF IsSum
<1>7. \A k \in a..z : X!TotalBefore(k) = t[k - 1] - t[a - 1]
  BY <1>5, <1>6, TotalIs
<1> HIDE DEF n, a, z
<1>8. \A k \in a..z : t[k - 1] \in Nat /\ t[a - 1] \in Nat
  BY <1>1, <1>6
<1>9. ASSUME NEW k \in a..z, k # z
      PROVE  X!TotalBefore(k + 1) = X!TotalBefore(k) + X!Size(k)
  <2>1. k + 1 \in a..z /\ (k + 1) - 1 = k /\ k \in 1..n
    BY <1>1, <1>9
  <2>2. t[k] = t[k - 1] + X!Size(k) /\ t[k - 1] \in Nat /\ t[a - 1] \in Nat
    BY <1>6, <1>8, <2>1
  <2>3. X!TotalBefore(k + 1) = t[k] - t[a - 1] /\ X!TotalBefore(k) = t[k - 1] - t[a - 1]
    BY <1>7, <2>1
  <2>4. X!Size(k) \in Nat
    BY <2>1, ItemTypes DEF n
  <2> QED
    BY <2>2, <2>3, <2>4
<1>10. a \in a..z /\ X!TotalBefore(a) = 0
  BY <1>1, <1>7, <1>8
<1>11. \A k \in a..z : X!TotalBefore(k) \in Int
  BY <1>7, <1>8
<1> QED
  BY <1>5, <1>9, <1>10, <1>11 DEF n, a, z

-----------------------------------------------------------------------------
(* Extraction: what GetStream does to the disk                              *)

\* No path is taken for "no stream".
LEMMA NoneIsNoPath ==
  ASSUME NEW q \in DiskPath
  PROVE  q # X!None
BY DEF DiskPath, X!None

\* The file itself, before it is renamed or given a free name.
PathOf(i) == <<X!Items[i].path, 0>>
Free(i) == X!AutoRename(PathOf(i))

\* d is the disk when the file t is about to be created.
MayCreate(g, d, t) ==
  \/ g.disk = d /\ g.stream = X!None
  \/ g.disk = [d EXCEPT ![t] = <<>>] /\ g.stream = t

\* The file is not created, and nothing changes.
NotCreated(g) ==
  /\ g.disk = xDisk /\ g.stream = X!None /\ g.agreed = xAgreed
  /\ g.mode = xMode \/ (g.mode \in {"skip", "overwrite"} /\ xMode = "ask")

\* What GetStream can do when the file is to be extracted.
LEMMA GetStreamIs ==
  ASSUME xMode \in X!Modes, NEW i, NEW g \in X!GetStream(i, "extract")
  PROVE  \/ NotCreated(g)
         \/ /\ g.disk = xDisk /\ g.stream = X!None /\ g.mode = "ask" /\ xMode = "ask"
            /\ g.agreed = xAgreed \cup {PathOf(i)}
         \/ /\ MayCreate(g, xDisk, PathOf(i)) /\ ~X!Exists(PathOf(i))
            /\ g.mode = xMode /\ g.agreed = xAgreed
         \/ /\ MayCreate(g, xDisk, Free(i)) /\ ~X!Exists(Free(i))
            /\ g.mode = "rename" /\ xMode \in {"ask", "rename"} /\ g.agreed = xAgreed
         \/ /\ MayCreate(g, [xDisk EXCEPT ![Free(i)] = xDisk[PathOf(i)], ![PathOf(i)] = X!None], PathOf(i))
            /\ X!Exists(PathOf(i)) /\ ~X!Exists(Free(i))
            /\ g.mode = "renameExisting" /\ xMode = "renameExisting" /\ g.agreed = xAgreed
         \/ /\ MayCreate(g, [xDisk EXCEPT ![PathOf(i)] = X!None], PathOf(i))
            /\ \/ g.mode = "ask" /\ xMode = "ask" /\ g.agreed = xAgreed \cup {PathOf(i)}
               \/ g.mode = "overwrite" /\ xMode \in {"ask", "overwrite"} /\ g.agreed = xAgreed
<1> DEFINE p == PathOf(i)
           anti == X!Items[i].anti
           f == Free(i)
           moved == [xDisk EXCEPT ![f] = xDisk[p], ![p] = X!None]
           gone == [xDisk EXCEPT ![p] = X!None]
\* What the operators return.
<1>1. ASSUME NEW d, NEW m, NEW a, NEW t, g \in X!Creates(d, m, a, t, anti)
      PROVE  MayCreate(g, d, t) /\ g.mode = m /\ g.agreed = a
  BY <1>1 DEF X!Creates, X!Answer, MayCreate
<1>2. ASSUME NEW d, NEW m, NEW a, g = X!Answer(d, m, a, FALSE, X!None) \/ g = X!Answer(d, m, a, TRUE, X!None)
      PROVE  g.disk = d /\ g.stream = X!None /\ g.mode = m /\ g.agreed = a
  BY <1>2 DEF X!Answer
<1>3. ASSUME NEW a, g \in X!Replaces("rename", a, p, anti)
      PROVE  MayCreate(g, xDisk, f) /\ ~X!Exists(f) /\ g.mode = "rename" /\ g.agreed = a
  <2>1. ~X!Exists(f) /\ g \in X!Creates(xDisk, "rename", a, f, anti)
    BY <1>3 DEF X!Replaces, Free
  <2> QED
    BY <1>1, <2>1
<1>4. ASSUME NEW a, g \in X!Replaces("renameExisting", a, p, anti)
      PROVE  MayCreate(g, moved, p) /\ ~X!Exists(f) /\ g.mode = "renameExisting" /\ g.agreed = a
  <2>1. ~X!Exists(f) /\ g \in X!Creates(moved, "renameExisting", a, p, anti)
    BY <1>4 DEF X!Replaces, Free
  <2> HIDE DEF moved
  <2> QED
    BY <1>1, <2>1
<1>5. ASSUME NEW a, NEW m \in {"ask", "overwrite"}, g \in X!Replaces(m, a, p, anti)
      PROVE  /\ MayCreate(g, gone, p) \/ (g.disk = xDisk /\ g.stream = X!None)
             /\ g.mode = m /\ g.agreed = a
  <2>1. g \in X!Creates(gone, m, a, p, anti) \/ g = X!Answer(xDisk, m, a, TRUE, X!None)
    BY <1>5 DEF X!Replaces, Free
  <2> HIDE DEF gone
  <2> QED
    BY <1>1, <1>2, <2>1
<1> HIDE DEF moved, gone
<1>6. CASE ~X!Exists(p)
  <2>1. g \in X!Creates(xDisk, xMode, xAgreed, p, anti)
    BY <1>6 DEF X!GetStream, PathOf
  <2> QED
    BY <1>1, <1>6, <2>1
<1>7. CASE X!Exists(p) /\ xMode = "skip"
  <2>1. g = X!Answer(xDisk, xMode, xAgreed, FALSE, X!None)
    BY <1>7 DEF X!GetStream, PathOf
  <2> QED
    BY <1>2, <2>1 DEF NotCreated
<1>8. CASE X!Exists(p) /\ xMode = "ask"
  <2>1. g \in X!Answers(p, anti)
    BY <1>8 DEF X!GetStream, PathOf
  <2>2. CASE g = X!Answer(xDisk, xMode, xAgreed, FALSE, X!None)
    BY <1>2, <2>2 DEF NotCreated
  <2>3. CASE g = X!Answer(xDisk, "skip", xAgreed, FALSE, X!None)
    BY <1>2, <1>8, <2>3 DEF NotCreated
  <2>4. CASE g \in X!Replaces("ask", xAgreed \cup {p}, p, anti)
    BY <1>5, <1>8, <2>4 DEF gone
  <2>5. CASE g \in X!Replaces("overwrite", xAgreed, p, anti)
    BY <1>5, <1>8, <2>5 DEF gone, NotCreated
  <2>6. CASE g \in X!Replaces("rename", xAgreed, p, anti)
    BY <1>3, <1>8, <2>6
  <2> QED
    BY <2>1, <2>2, <2>3, <2>4, <2>5, <2>6 DEF X!Answers
<1>9. CASE X!Exists(p) /\ xMode \in {"rename", "renameExisting", "overwrite"}
  <2>1. g \in X!Replaces(xMode, xAgreed, p, anti)
    BY <1>9 DEF X!GetStream, PathOf
  <2>2. CASE xMode = "rename"
    BY <1>3, <2>1, <2>2
  <2>3. CASE xMode = "renameExisting"
    BY <1>4, <1>9, <2>1, <2>3 DEF moved
  <2>4. CASE xMode = "overwrite"
    BY <1>5, <2>1, <2>4 DEF gone, NotCreated
  <2> QED
    BY <1>9, <2>2, <2>3, <2>4
<1> QED
  BY <1>6, <1>7, <1>8, <1>9 DEF X!Modes

\* What is good of an item is said by the archive and the command.
LEMMA SameItems ==
  ASSUME xAsked' = xAsked
  PROVE  /\ X!Items' = X!Items /\ X!FolderOf' = X!FolderOf
         /\ \A f : X!FirstOf(f)' = X!FirstOf(f)
         /\ \A i : X!Size(i)' = X!Size(i) /\ X!TotalBefore(i)' = X!TotalBefore(i)
         /\ \A i, got : X!IsGood(i, got)' <=> X!IsGood(i, got)
<1>1. X!Items' = X!Items /\ X!Folders' = X!Folders
  BY DEF X!Items, X!Folders
<1>2. X!FolderOf' = X!FolderOf
  BY <1>1 DEF X!FolderOf, X!Size
<1>3. \A f : X!FirstOf(f)' = X!FirstOf(f)
  BY <1>1, <1>2 DEF X!FirstOf
<1>4. \A i : X!Size(i)' = X!Size(i)
  BY <1>1 DEF X!Size
<1>5. \A i : X!TotalBefore(i)' = X!TotalBefore(i)
  BY <1>2, <1>3, <1>4 DEF X!TotalBefore
<1>6. \A i : X!Contents(i)' = X!Contents(i)
  BY <1>4, <1>5 DEF X!Contents
<1>7. \A i : X!CrcTested(i)' <=> X!CrcTested(i)
  BY <1>1 DEF X!CrcTested
<1>8. \A i, got : X!OwnBytes(i, got)' <=> X!OwnBytes(i, got)
  BY <1>4, <1>5 DEF X!OwnBytes
<1>9. \A i, got : X!IsGood(i, got)' <=> X!IsGood(i, got)
  BY <1>6, <1>7, <1>8 DEF X!IsGood
<1> QED
  BY <1>1, <1>2, <1>3, <1>4, <1>5, <1>9

\* Without consent, what a path held is still somewhere, and not in the file that is
\* being written; unless files are renamed, it is where it was.
KeptSomewhere(p) ==
  \E q \in DiskPath : /\ xDisk[q] = xAsked.disk[p] /\ q # xFile.stream
                      /\ xMode # "renameExisting" => q = p
SafeInv ==
  xMode # "overwrite" =>
    \A p \in DiskPath \ xAgreed : xAsked.disk[p] # X!None => KeptSomewhere(p)

\* GetStream touches only paths with the name of the item.
LEMMA DiskStep ==
  ASSUME AskedOK, DOMAIN xDisk = DiskPath, xMode \in X!Modes, NEW i \in 1..Len(X!Items), NEW ask,
         NEW g \in X!GetStream(i, ask)
  PROVE  /\ DOMAIN g.disk = DiskPath /\ g.mode \in X!Modes
         /\ \A q \in DiskPath : q[1] # X!Items[i].path => g.disk[q] = xDisk[q]
         /\ g.stream # X!None =>
              /\ ask = "extract" /\ g.stream \in DiskPath
              /\ g.stream[1] = X!Items[i].path /\ g.disk[g.stream] = <<>>
<1> DEFINE p == PathOf(i)
           f == Free(i)
           d == [xDisk EXCEPT ![f] = xDisk[p], ![p] = X!None]
           e == [xDisk EXCEPT ![p] = X!None]
<1>1. p \in DiskPath /\ p[1] = X!Items[i].path
  BY ItemTypes, ExtractAssumption DEF PathOf, DiskPath
<1>2. f \in DiskPath /\ f[1] = X!Items[i].path
  <2>1. p[1] \in ItemName
    BY <1>1, ItemTypes
  <2> HIDE DEF p
  <2> QED
    BY <1>1, <2>1, FreeNumber DEF Free, p
<1>3. CASE ask # "extract"
  <2>1. g = X!Answer(xDisk, xMode, xAgreed, FALSE, X!None)
    BY <1>3 DEF X!GetStream
  <2> QED
    BY <2>1 DEF X!Answer
<1>4. CASE ask = "extract"
  <2> HIDE DEF p, f
  <2>1. ASSUME NEW c, NEW t, DOMAIN c = DiskPath, t \in DiskPath, t[1] = X!Items[i].path, MayCreate(g, c, t),
               \A q \in DiskPath : q[1] # X!Items[i].path => c[q] = xDisk[q]
        PROVE  /\ DOMAIN g.disk = DiskPath
               /\ \A q \in DiskPath : q[1] # X!Items[i].path => g.disk[q] = xDisk[q]
               /\ g.stream # X!None => /\ g.stream \in DiskPath /\ g.stream[1] = X!Items[i].path
                                       /\ g.disk[g.stream] = <<>>
    <3>1. CASE g.disk = c /\ g.stream = X!None
      BY <2>1, <3>1
    <3>2. CASE g.disk = [c EXCEPT ![t] = <<>>] /\ g.stream = t
      BY <2>1, <3>2
    <3> QED
      BY <2>1, <3>1, <3>2 DEF MayCreate
  <2>2. g.mode \in X!Modes
    BY <1>4, GetStreamIs DEF NotCreated, X!Modes
  <2>3. DOMAIN d = DiskPath /\ \A q \in DiskPath : q[1] # X!Items[i].path => d[q] = xDisk[q]
    BY <1>1, <1>2
  <2>4. DOMAIN e = DiskPath /\ \A q \in DiskPath : q[1] # X!Items[i].path => e[q] = xDisk[q]
    BY <1>1
  <2>5. \/ g.disk = xDisk /\ g.stream = X!None
        \/ MayCreate(g, xDisk, p) \/ MayCreate(g, xDisk, f) \/ MayCreate(g, d, p) \/ MayCreate(g, e, p)
    BY <1>4, GetStreamIs DEF NotCreated, p, f
  <2> HIDE DEF d, e
  <2>6. CASE g.disk = xDisk /\ g.stream = X!None
    BY <2>2, <2>6
  <2>7. CASE MayCreate(g, xDisk, p)
    BY <1>1, <1>4, <2>1, <2>2, <2>7
  <2>8. CASE MayCreate(g, xDisk, f)
    BY <1>2, <1>4, <2>1, <2>2, <2>8
  <2>9. CASE MayCreate(g, d, p)
    BY <1>1, <1>4, <2>1, <2>2, <2>3, <2>9
  <2>10. CASE MayCreate(g, e, p)
    BY <1>1, <1>4, <2>1, <2>2, <2>4, <2>10
  <2> QED
    BY <2>5, <2>6, <2>7, <2>8, <2>9, <2>10
<1> QED
  BY <1>3, <1>4

\* GetStream loses nothing without consent, and does not give out a stream to what
\* is to be kept.
LEMMA GetStreamKeeps ==
  ASSUME AskedOK, DOMAIN xDisk = DiskPath, xMode \in X!Modes, SafeInv, NEW i \in 1..Len(X!Items),
         NEW ask, NEW g \in X!GetStream(i, ask), g.mode # "overwrite",
         NEW o \in DiskPath \ g.agreed, xAsked.disk[o] # X!None
  PROVE  /\ o \notin xAgreed /\ xMode # "overwrite"
         /\ \E q \in DiskPath : /\ g.disk[q] = xAsked.disk[o] /\ q # g.stream
                                /\ g.mode # "renameExisting" => q = o
<1> DEFINE p == PathOf(i)
           f == Free(i)
           d == [xDisk EXCEPT ![f] = xDisk[p], ![p] = X!None]
           e == [xDisk EXCEPT ![p] = X!None]
<1>1. p \in DiskPath /\ f \in DiskPath
  <2>1. p \in DiskPath /\ p[1] \in ItemName
    BY ItemTypes, ExtractAssumption DEF PathOf, DiskPath
  <2> HIDE DEF p
  <2> QED
    BY <2>1, FreeNumber DEF Free, p
<1>2. ask = "extract" \/ NotCreated(g)
  BY DEF X!GetStream, X!Answer, NotCreated
<1> HIDE DEF p, f
<1>3. o \notin xAgreed /\ xMode # "overwrite"
  BY <1>2, GetStreamIs DEF NotCreated, p
<1>4. PICK q \in DiskPath : /\ xDisk[q] = xAsked.disk[o] /\ q # xFile.stream
                            /\ xMode # "renameExisting" => q = o
  BY <1>3 DEF SafeInv, KeptSomewhere
<1>5. X!Exists(q) /\ q # X!None
  BY <1>4, NoneIsNoPath DEF X!Exists
<1>6. ASSUME NEW t \in DiskPath, t # q, NEW c, DOMAIN c = DiskPath, c[q] = xDisk[q], MayCreate(g, c, t)
      PROVE  g.disk[q] = xAsked.disk[o] /\ q # g.stream
  <2>1. CASE g.disk = c /\ g.stream = X!None
    BY <1>4, <1>5, <1>6, <2>1
  <2>2. CASE g.disk = [c EXCEPT ![t] = <<>>] /\ g.stream = t
    BY <1>4, <1>6, <2>2
  <2> QED
    BY <1>6, <2>1, <2>2 DEF MayCreate
<1>7. DOMAIN d = DiskPath /\ DOMAIN e = DiskPath
  OBVIOUS
<1>8. CASE NotCreated(g)
  <2>1. g.mode # "renameExisting" => xMode # "renameExisting"
    BY <1>8 DEF NotCreated
  <2> QED
    BY <1>3, <1>4, <1>5, <1>8, <2>1 DEF NotCreated
<1>9. CASE /\ g.disk = xDisk /\ g.stream = X!None /\ g.mode = "ask" /\ xMode = "ask"
  BY <1>3, <1>4, <1>5, <1>9
<1>10. CASE /\ MayCreate(g, xDisk, p) /\ ~X!Exists(p) /\ g.mode = xMode
  <2>1. p # q
    BY <1>5, <1>10
  <2> QED
    BY <1>1, <1>3, <1>4, <1>6, <1>10, <2>1
<1>11. CASE MayCreate(g, xDisk, f) /\ ~X!Exists(f) /\ g.mode = "rename" /\ xMode \in {"ask", "rename"}
  <2>1. f # q
    BY <1>5, <1>11
  <2> QED
    BY <1>1, <1>3, <1>4, <1>6, <1>11, <2>1
<1>12. CASE /\ MayCreate(g, d, p) /\ X!Exists(p) /\ ~X!Exists(f) /\ g.mode = "renameExisting"
  <2>1. f # q /\ f # p
    BY <1>5, <1>12
  <2>2. CASE q = p
    <3>1. d[f] = xAsked.disk[o]
      BY <1>1, <1>4, <2>1, <2>2
    <3>2. g.disk[f] = d[f] /\ f # g.stream
      <4>1. CASE g.disk = d /\ g.stream = X!None
        BY <1>1, <4>1, NoneIsNoPath
      <4>2. CASE g.disk = [d EXCEPT ![p] = <<>>] /\ g.stream = p
        BY <1>1, <1>7, <2>1, <4>2
      <4> QED
        BY <1>12, <4>1, <4>2 DEF MayCreate
    <3> QED
      BY <1>1, <1>3, <1>12, <3>1, <3>2
  <2>3. CASE q # p
    <3>1. d[q] = xDisk[q]
      BY <1>1, <2>1, <2>3
    <3>2. g.disk[q] = xAsked.disk[o] /\ q # g.stream
      <4> HIDE DEF d
      <4> QED
        BY <1>1, <1>6, <1>7, <1>12, <2>3, <3>1
    <3> QED
      BY <1>3, <1>12, <3>2
  <2> QED
    BY <2>2, <2>3
<1>13. CASE MayCreate(g, e, p) /\ g.mode = "ask" /\ xMode = "ask" /\ g.agreed = xAgreed \cup {p}
  <2>1. q = o /\ p # q
    BY <1>4, <1>13
  <2>2. e[q] = xDisk[q]
    BY <2>1
  <2>3. g.disk[q] = xAsked.disk[o] /\ q # g.stream
    <3> HIDE DEF e
    <3> QED
      BY <1>1, <1>6, <1>7, <1>13, <2>1, <2>2
  <2> QED
    BY <1>3, <2>1, <2>3
<1> QED
  BY <1>2, <1>8, <1>9, <1>10, <1>11, <1>12, <1>13, GetStreamIs DEF p, f

-----------------------------------------------------------------------------
(* Extraction: the invariant                                                *)

\* A sequence, of whatever.
Listed(s) == \E S : s \in Seq(S)

LEMMA AppendListed ==
  ASSUME NEW s, Listed(s), NEW e
  PROVE  /\ Listed(Append(s, e)) /\ Len(s) \in Nat /\ Len(Append(s, e)) = Len(s) + 1
         /\ \A k \in 1..Len(s) : Append(s, e)[k] = s[k]
         /\ Append(s, e)[Len(s) + 1] = e
<1>1. PICK S : s \in Seq(S)
  BY DEF Listed
<1> DEFINE T == S \cup {e}
<1>2. s \in Seq(T) /\ e \in T
  <2>1. Len(s) \in Nat /\ s \in [1..Len(s) -> S]
    BY <1>1, LenProperties
  <2>2. s \in [1..Len(s) -> T]
    BY <2>1
  <2> HIDE DEF T
  <2>3. s \in Seq(T)
    BY <2>1, <2>2, SeqDef
  <2> QED
    BY <2>3 DEF T
<1> HIDE DEF T
<1>3. Append(s, e) \in Seq(T)
  BY <1>2, AppendProperties
<1> QED
  BY <1>2, <1>3, AppendProperties, LenProperties DEF Listed

LEMMA DomainListed ==
  ASSUME NEW s, Listed(s)
  PROVE  Len(s) \in Nat /\ DOMAIN s = 1..Len(s)
BY LenProperties DEF Listed

InFolder == {"empties", "write", "decode", "flush"}

ControlInv ==
  /\ AskedOK /\ EntriesUpTo(xEfis, Len(X!Items))
  /\ DOMAIN xDisk = DiskPath /\ xMode \in X!Modes /\ xErrors \in BOOLEAN
  /\ xFlush \in {"data", "unsupported"}
  /\ xEfi \in 0..Len(xEfis)
  /\ xPc \in InFolder \cup {"folder", "ended", "failed"}
  /\ xEfi = 0 => xPc \notin InFolder /\ xResults = <<>>
  /\ xEfi >= 1 => xCur \in 1..(Len(X!E.statuses) + 1)
  /\ xPc \in {"folder", "ended"} /\ xEfi >= 1 => X!AtEnd
  /\ xPc = "ended" => xEfi = Len(xEfis)
  /\ xFile = X!Closed \/ \E g, t, a : xFile = [open |-> TRUE, got |-> g, stream |-> t, ask |-> a]
  /\ xFile.open => xEfi >= 1 /\ ~X!AtEnd /\ xPc \in {"write", "decode", "flush", "failed"}
  /\ xEfi >= 1 /\ X!E.folder = 0 => xOut.size = 0 /\ xPc \notin {"write", "decode", "flush"}

\* The open file is that of the present item, which was asked for.
FileInv ==
  /\ xFile.stream # X!None =>
       xFile.stream \in DiskPath /\ xFile.stream[1] = X!Items[X!Index].path /\ Wanted(X!Index)
  /\ xFile.open /\ xFile.ask = "extract" => X!Items[X!Index].anti \/ xFile.stream # X!None

\* Some first bytes of item i, each the byte of its place or one the decoder made wrong.
FirstBytes(i, got) ==
  /\ got \in Seq(Int) /\ Len(got) <= X!Size(i)
  /\ \A k \in 1..Len(got) : got[k] \in {0, X!TotalBefore(i) + k}

\* While a folder is decoded, what has been decoded of it lies in the items before the
\* present one and in the open file.
Decoding == xPc \in {"empties", "write", "decode"}
OutType(o) == \E p, s \in Int, w \in BOOLEAN : o = [pos |-> p, size |-> s, wrong |-> w]

\* Nothing of a folder is decoded yet.
LEMMA OutStarts == OutType([pos |-> 0, size |-> 0, wrong |-> FALSE])
<1>1. PICK z, f : z = 0 /\ f = FALSE
  OBVIOUS
<1>2. z \in Int /\ f \in BOOLEAN
  <2>1. z \in Int
    BY <1>1
  <2>2. f \in BOOLEAN
    BY <1>1, Zenon
  <2> QED
    BY <2>1, <2>2
<1>3. OutType([pos |-> z, size |-> z, wrong |-> f])
  BY <1>2 DEF OutType
<1> QED
  BY <1>1, <1>3

PlaceInv ==
  /\ OutType(xOut)
  /\ Decoding /\ X!E.folder # 0 /\ ~X!AtEnd =>
       FirstBytes(X!Index, xFile.got) /\ xOut.pos = X!TotalBefore(X!Index) + Len(xFile.got)

\* The wanted items before the present one have been reported.
ReportInv ==
  /\ Listed(xResults)
  /\ \A k, l \in 1..Len(xResults) : k < l => xResults[k].index < xResults[l].index
  /\ \A k \in 1..Len(xResults) :
       /\ xResults[k].index \in 1..Len(X!Items) /\ xResults[k].index < X!Index
       /\ xResults[k].res = "ok" => X!IsGood(xResults[k].index, xResults[k].got)
  /\ xEfi >= 1 => \A i \in 1..Len(X!Items) :
       Wanted(i) /\ i < X!Index => \E k \in 1..Len(xResults) : xResults[k].index = i

\* No other wanted item has the path of item i.
HasOwnPath(i) == {j \in xAsked.wanted : X!Items[j].path = X!Items[i].path} = {i}
IsStored(i) == \E p \in DiskPath : p[1] = X!Items[i].path /\ X!IsGood(i, xDisk[p])
StoredInv ==
  ~xErrors => \A k \in 1..Len(xResults) :
    /\ xResults[k].ask = "extract" /\ ~X!Items[xResults[k].index].anti
    /\ HasOwnPath(xResults[k].index)
    => IsStored(xResults[k].index)

ExtractInv == ControlInv /\ FileInv /\ SafeInv /\ PlaceInv /\ ReportInv /\ StoredInv

\* The entry at work.
LEMMA PresentEntry ==
  ASSUME ControlInv, xEfi >= 1
  PROVE  /\ xEfi \in 1..Len(xEfis) /\ X!E \in EntryRecord /\ EntryRight(X!E)
         /\ Len(X!E.statuses) \in Nat /\ X!E.start \in Nat /\ X!E.start >= 1
         /\ X!Index = X!E.start + xCur - 1 /\ X!Index \in Nat
         /\ ~X!AtEnd <=> xCur <= Len(X!E.statuses)
         /\ ~X!AtEnd => /\ xCur \in 1..Len(X!E.statuses) /\ X!Index \in 1..Len(X!Items)
                        /\ (X!E.statuses[xCur] <=> Wanted(X!Index))
<1>1. xEfis \in Seq(EntryRecord) /\ Len(xEfis) \in Nat
  BY LenProperties DEF ControlInv, EntriesUpTo
<1>2. xEfi \in 1..Len(xEfis)
  BY <1>1 DEF ControlInv
<1>3. X!E \in EntryRecord
  BY <1>1, <1>2, ElementOfSeq DEF X!E
<1>4. EntryRight(X!E)
  BY <1>2 DEF X!E, ControlInv, EntriesUpTo
<1>5. X!E.statuses \in Seq(BOOLEAN) /\ X!E.start \in Nat /\ X!E.start >= 1
  BY <1>3, <1>4 DEF EntryRecord, EntryRight
<1>6. Len(X!E.statuses) \in Nat
  BY <1>5, LenProperties
<1>7. xCur \in 1..(Len(X!E.statuses) + 1)
  BY DEF ControlInv
<1>8. X!Index = X!E.start + xCur - 1 /\ X!Index \in Nat
  BY <1>5, <1>6, <1>7 DEF X!Index
<1>9. ~X!AtEnd <=> xCur <= Len(X!E.statuses)
  BY <1>6, <1>7 DEF X!AtEnd
<1>10. ASSUME ~X!AtEnd
       PROVE  /\ xCur \in 1..Len(X!E.statuses) /\ X!Index \in 1..Len(X!Items)
              /\ (X!E.statuses[xCur] <=> Wanted(X!Index))
  <2>1. xCur \in 1..Len(X!E.statuses)
    BY <1>6, <1>7, <1>9, <1>10
  <2>2. X!E.start + Len(X!E.statuses) - 1 <= Len(X!Items) /\ Len(X!Items) \in Nat
    BY <1>4, ItemTypes DEF EntryRight, Stop, ControlInv
  <2>3. X!Index \in 1..Len(X!Items)
    BY <1>5, <1>6, <1>8, <2>1, <2>2
  <2>4. X!E.statuses[xCur] <=> Wanted(X!E.start + xCur - 1)
    BY <1>4, <2>1, Zenon DEF EntryRight
  <2>5. X!E.statuses[xCur] <=> Wanted(X!Index)
    BY <1>8, <2>4, Zenon
  <2> QED
    BY <2>1, <2>3, <2>5, Zenon
<1> QED
  BY <1>2, <1>3, <1>4, <1>5, <1>6, <1>8, <1>9, <1>10, Zenon

\* Only paths of the present item changed, and those only if it is wanted.
TouchesPresent ==
  \A q \in DiskPath : xDisk'[q] # xDisk[q] => q[1] = X!Items[X!Index].path /\ Wanted(X!Index)

\* OpenFile, with the file kept open or closed at once.
LEMMA OpenStep ==
  ASSUME ExtractInv, xEfi >= 1, ~X!AtEnd, NEW g \in X!Streams, X!Take(g), xAsked' = xAsked,
         xFile' = X!FileOf(g) \/ (xFile' = xFile /\ xFile = X!Closed)
  PROVE  /\ DOMAIN xDisk' = DiskPath /\ xMode' \in X!Modes /\ SafeInv' /\ TouchesPresent
         /\ X!FileOf(g).open = TRUE /\ X!FileOf(g).got = <<>> /\ X!FileOf(g).stream = g.stream
         /\ g.stream # X!None =>
              /\ g.stream \in DiskPath /\ g.stream[1] = X!Items[X!Index].path
              /\ Wanted(X!Index) /\ xDisk'[g.stream] = <<>>
         /\ X!FileOf(g).ask = "extract" => X!Items[X!Index].anti \/ g.stream # X!None
<1> DEFINE i == X!Index
<1>1. /\ ControlInv /\ SafeInv /\ AskedOK /\ DOMAIN xDisk = DiskPath /\ xMode \in X!Modes
  BY DEF ExtractInv, ControlInv
<1>2. i \in 1..Len(X!Items) /\ (X!E.statuses[xCur] <=> Wanted(i))
  BY <1>1, PresentEntry, Zenon
<1>3. X!Ask = "extract" => Wanted(i)
  <2>1. X!Ask = "extract" => X!E.statuses[xCur]
    BY DEF X!Ask
  <2> QED
    BY <1>2, <2>1, Zenon
<1> HIDE DEF i
<1>4. g \in X!GetStream(i, X!Ask) /\ xDisk' = g.disk /\ xMode' = g.mode /\ xAgreed' = g.agreed
  BY DEF X!Streams, X!Take, i
<1>5. /\ DOMAIN g.disk = DiskPath /\ g.mode \in X!Modes
      /\ \A q \in DiskPath : q[1] # X!Items[i].path => g.disk[q] = xDisk[q]
      /\ g.stream # X!None =>
           /\ X!Ask = "extract" /\ g.stream \in DiskPath
           /\ g.stream[1] = X!Items[i].path /\ g.disk[g.stream] = <<>>
  BY <1>1, <1>2, <1>4, DiskStep
<1>6. X!Ask # "extract" => g.disk = xDisk
  BY <1>4 DEF X!GetStream, X!Answer
<1>7. TouchesPresent
  BY <1>3, <1>4, <1>5, <1>6 DEF TouchesPresent, i
<1>8. SafeInv'
  <2> SUFFICES ASSUME xMode' # "overwrite", NEW o \in DiskPath, o \notin xAgreed',
                      xAsked'.disk[o] # X!None
               PROVE  \E q \in DiskPath : /\ xDisk'[q] = xAsked'.disk[o] /\ q # xFile'.stream
                                          /\ xMode' # "renameExisting" => q = o
    BY DEF SafeInv, KeptSomewhere, X!None
  <2>1. \E q \in DiskPath : /\ g.disk[q] = xAsked.disk[o] /\ q # g.stream
                            /\ g.mode # "renameExisting" => q = o
    BY <1>1, <1>2, <1>4, GetStreamKeeps
  <2>2. xFile'.stream \in {g.stream, X!None}
    BY DEF X!FileOf, X!Opened, X!Closed
  <2> QED
    BY <1>4, <2>1, <2>2, NoneIsNoPath
<1>9. /\ X!FileOf(g).open = TRUE /\ X!FileOf(g).got = <<>> /\ X!FileOf(g).stream = g.stream
      /\ X!FileOf(g).ask = "extract" => X!Items[i].anti \/ g.stream # X!None
  BY DEF X!FileOf, X!Opened, i
<1> QED
  BY <1>3, <1>4, <1>5, <1>7, <1>8, <1>9 DEF i

\* What has been stored stays, while other paths change.
LEMMA StoredStays ==
  ASSUME ExtractInv, xEfi >= 1, ~X!AtEnd, TouchesPresent, xAsked' = xAsked, ~xErrors,
         NEW k \in 1..Len(xResults), xResults[k].ask = "extract",
         ~X!Items[xResults[k].index].anti, HasOwnPath(xResults[k].index)
  PROVE  \E p \in DiskPath : /\ p[1] = X!Items[xResults[k].index].path
                              /\ X!IsGood(xResults[k].index, xDisk'[p])
<1> DEFINE i == xResults[k].index
           j == X!Index
<1>1. IsStored(i)
  BY DEF ExtractInv, StoredInv
<1>2. i \in 1..Len(X!Items) /\ i < j /\ j \in 1..Len(X!Items)
  <2>1. ControlInv /\ ReportInv
    BY DEF ExtractInv
  <2> QED
    BY <2>1, PresentEntry, Zenon DEF ReportInv
<1>3. i # j
  <2>1. Len(X!Items) \in Nat
    BY ItemTypes DEF ExtractInv, ControlInv
  <2> HIDE DEF i, j
  <2> QED
    BY <1>2, <2>1
<1>4. X!Items[j].path = X!Items[i].path => ~Wanted(j)
  <2> SUFFICES ASSUME X!Items[j].path = X!Items[i].path, Wanted(j) PROVE FALSE
    OBVIOUS
  <2>1. j \in {h \in xAsked.wanted : X!Items[h].path = X!Items[i].path}
    BY DEF Wanted
  <2> QED
    BY <1>3, <2>1 DEF HasOwnPath
<1>5. PICK p \in DiskPath : p[1] = X!Items[i].path /\ X!IsGood(i, xDisk[p])
  BY <1>1 DEF IsStored
<1> HIDE DEF i, j
<1>6. xDisk'[p] = xDisk[p]
  BY <1>4, <1>5 DEF TouchesPresent, j
<1> QED
  BY <1>5, <1>6 DEF i

\* CloseFileAndSetResult
LEMMA ReportStep ==
  ASSUME ControlInv, ReportInv, xEfi >= 1, ~X!AtEnd, NEW f, NEW res, X!Report(f, res),
         UNCHANGED <<xAsked, xEfis, xEfi>>, res = "ok" => X!IsGood(X!Index, f.got)
  PROVE  /\ ReportInv' /\ xCur' \in 1..(Len(X!E.statuses) + 1) /\ X!Index' = X!Index + 1
         /\ Len(xResults) \in Nat /\ Len(xResults') = Len(xResults) + 1
         /\ \A k \in 1..Len(xResults) : xResults'[k] = xResults[k]
         /\ xResults'[Len(xResults) + 1] = [index |-> X!Index, ask |-> f.ask, got |-> f.got, res |-> res]
<1> DEFINE r == [index |-> X!Index, ask |-> f.ask, got |-> f.got, res |-> res]
           m == Len(xResults)
           j == X!Index
           n == Len(X!Items)
<1>1. xResults' = Append(xResults, r) /\ xCur' = xCur + 1
  BY DEF X!Report
<1>2. /\ Listed(xResults') /\ m \in Nat /\ Len(xResults') = m + 1
      /\ \A k \in 1..m : xResults'[k] = xResults[k]
      /\ xResults'[m + 1] = r
  BY <1>1, AppendListed DEF ReportInv
<1>3. X!E' = X!E /\ j \in 1..n /\ xCur \in 1..Len(X!E.statuses) /\ Len(X!E.statuses) \in Nat
      /\ j = X!E.start + xCur - 1 /\ X!E.start \in Nat
  <2>1. X!E' = X!E
    BY DEF X!E
  <2> QED
    BY <2>1, PresentEntry, Zenon
<1>4. X!Index' = j + 1 /\ n \in Nat /\ j \in Nat
  <2>1. X!Index' = X!E.start + xCur' - 1
    BY <1>3 DEF X!Index
  <2>2. n \in Nat
    BY ItemTypes DEF ControlInv
  <2> HIDE DEF j, n
  <2> QED
    BY <1>1, <1>3, <2>1, <2>2
<1>5. xCur' \in 1..(Len(X!E.statuses) + 1)
  BY <1>1, <1>3
<1>6. X!Items' = X!Items /\ \A i, got : X!IsGood(i, got)' <=> X!IsGood(i, got)
  BY SameItems
<1>7. \A k \in 1..(m + 1) : k \in 1..m \/ k = m + 1
  BY <1>2
<1>8. r.index = j /\ r.res = res /\ r.got = f.got
  OBVIOUS
<1>9. \A k \in 1..m : /\ xResults[k].index \in 1..n /\ xResults[k].index < j
                      /\ xResults[k].res = "ok" => X!IsGood(xResults[k].index, xResults[k].got)
  BY DEF ReportInv
<1>10. \A k, l \in 1..m : k < l => xResults[k].index < xResults[l].index
  BY DEF ReportInv
<1>11. \A i \in 1..n : Wanted(i) /\ i < j => \E k \in 1..m : xResults[k].index = i
  BY DEF ReportInv
<1>12. res = "ok" => X!IsGood(j, f.got)
  OBVIOUS
<1> HIDE DEF r, m, j, n
<1>13. ASSUME NEW k \in 1..(m + 1)
       PROVE  /\ xResults'[k].index \in 1..n /\ xResults'[k].index < j + 1
              /\ xResults'[k].res = "ok" => X!IsGood(xResults'[k].index, xResults'[k].got)
  <2>1. CASE k \in 1..m
    <3>1. xResults[k].index \in Nat
      BY <1>4, <1>9, <2>1
    <3> QED
      BY <1>2, <1>4, <1>9, <2>1, <3>1
  <2>2. CASE k = m + 1
    BY <1>2, <1>3, <1>4, <1>8, <1>12, <2>2
  <2> QED
    BY <1>7, <2>1, <2>2
<1>14. ASSUME NEW k \in 1..(m + 1), NEW l \in 1..(m + 1), k < l
       PROVE  xResults'[k].index < xResults'[l].index
  <2>1. k \in 1..m
    BY <1>2, <1>14
  <2>2. CASE l \in 1..m
    BY <1>2, <1>10, <1>14, <2>1, <2>2
  <2>3. CASE l = m + 1
    BY <1>2, <1>8, <1>9, <2>1, <2>3
  <2> QED
    BY <1>7, <2>2, <2>3
<1>15. ASSUME NEW i \in 1..n, Wanted(i), i < j + 1
       PROVE  \E k \in 1..(m + 1) : xResults'[k].index = i
  <2>1. CASE i = j
    <3>1. m + 1 \in 1..(m + 1)
      BY <1>2
    <3> QED
      BY <1>2, <1>8, <2>1, <3>1
  <2>2. CASE i < j
    <3>1. PICK k \in 1..m : xResults[k].index = i
      BY <1>11, <1>15, <2>2
    <3>2. k \in 1..(m + 1)
      BY <1>2
    <3> QED
      BY <1>2, <3>1, <3>2
  <2> QED
    BY <1>4, <1>15, <2>1, <2>2
<1>16. ReportInv'
  <2>1. Len(X!Items)' = n /\ X!Index' = j + 1 /\ Len(xResults)' = m + 1
    BY <1>2, <1>4, <1>6 DEF n
  <2>2. \A i : Wanted(i)' <=> Wanted(i)
    BY DEF Wanted
  <2> QED
    BY <1>2, <1>6, <1>13, <1>14, <1>15, <2>1, <2>2 DEF ReportInv
<1> QED
  BY <1>2, <1>4, <1>5, <1>16 DEF m, j, r

\* A file is open, or there is none.
LEMMA OpenOrClosed ==
  ASSUME ControlInv
  PROVE  /\ xFile.open \in BOOLEAN /\ (~xFile.open => xFile = X!Closed)
         /\ xFile.open => \E g, t, a : xFile = [open |-> TRUE, got |-> g, stream |-> t, ask |-> a]
<1>1. CASE xFile = X!Closed
  BY <1>1 DEF X!Closed
<1>2. CASE \E g, t, a : xFile = [open |-> TRUE, got |-> g, stream |-> t, ask |-> a]
  <2>1. xFile.open = TRUE
    BY <1>2
  <2> QED
    BY <1>2, <2>1, Zenon
<1> QED
  BY <1>1, <1>2 DEF ControlInv

\* The entries and what was asked do not change.
LEMMA SameEntries ==
  ASSUME ControlInv, UNCHANGED <<xAsked, xEfis>>
  PROVE  AskedOK' /\ EntriesUpTo(xEfis, Len(X!Items))'
<1>1. /\ X!Items' = X!Items /\ X!FolderOf' = X!FolderOf /\ \A i : Wanted(i)' <=> Wanted(i)
      /\ \A f : X!FirstOf(f)' = X!FirstOf(f)
  BY SameItems DEF Wanted
<1>2. AskedOK'
  BY <1>1 DEF AskedOK, ControlInv
<1>3. \A e : EntryRight(e)' <=> EntryRight(e)
  BY <1>1 DEF EntryRight, Stop
<1>4. EntriesUpTo(xEfis, Len(X!Items))'
  BY <1>1, <1>3 DEF EntriesUpTo, Stop, ControlInv
<1> QED
  BY <1>2, <1>4

\* Nothing is reported while only the present item is touched.
LEMMA StoredKept ==
  ASSUME ExtractInv, UNCHANGED <<xAsked, xResults>>, ~xErrors' => ~xErrors,
         xDisk' = xDisk \/ (TouchesPresent /\ xEfi >= 1 /\ ~X!AtEnd)
  PROVE  StoredInv'
<1> SUFFICES ASSUME ~xErrors', NEW k \in 1..Len(xResults), xResults[k].ask = "extract",
                    ~X!Items[xResults[k].index].anti, HasOwnPath(xResults[k].index)
             PROVE  \E p \in DiskPath : /\ p[1] = X!Items[xResults[k].index].path
                                        /\ X!IsGood(xResults[k].index, xDisk'[p])
  <2>1. X!Items' = X!Items /\ \A i, got : X!IsGood(i, got)' <=> X!IsGood(i, got)
    BY SameItems
  <2> QED
    BY <2>1 DEF StoredInv, IsStored, HasOwnPath
<1>1. CASE xDisk' = xDisk
  BY <1>1 DEF ExtractInv, StoredInv, IsStored
<1>2. CASE TouchesPresent /\ xEfi >= 1 /\ ~X!AtEnd
  BY <1>2, StoredStays
<1> QED
  BY <1>1, <1>2

\* A report, with the file on the disk if it was to be written and no error counted.
LEMMA StoredReport ==
  ASSUME ExtractInv, xEfi >= 1, ~X!AtEnd, TouchesPresent, NEW f, NEW res, X!Report(f, res),
         UNCHANGED <<xAsked, xEfis, xEfi>>, res = "ok" => X!IsGood(X!Index, f.got),
         ~xErrors' => ~xErrors,
         ~xErrors' /\ f.ask = "extract" /\ ~X!Items[X!Index].anti =>
           \E p \in DiskPath : p[1] = X!Items[X!Index].path /\ X!IsGood(X!Index, xDisk'[p])
  PROVE  StoredInv'
<1> DEFINE m == Len(xResults)
<1>1. /\ m \in Nat /\ Len(xResults') = m + 1 /\ \A k \in 1..m : xResults'[k] = xResults[k]
      /\ xResults'[m + 1] = [index |-> X!Index, ask |-> f.ask, got |-> f.got, res |-> res]
  BY ReportStep DEF ExtractInv
<1>2. xResults'[m + 1].index = X!Index /\ xResults'[m + 1].ask = f.ask
  BY <1>1
<1> SUFFICES ASSUME ~xErrors', NEW k \in 1..Len(xResults'), xResults'[k].ask = "extract",
                    ~X!Items[xResults'[k].index].anti, HasOwnPath(xResults'[k].index)
             PROVE  \E p \in DiskPath : /\ p[1] = X!Items[xResults'[k].index].path
                                        /\ X!IsGood(xResults'[k].index, xDisk'[p])
  <2>1. X!Items' = X!Items /\ \A i, got : X!IsGood(i, got)' <=> X!IsGood(i, got)
    BY SameItems
  <2> QED
    BY <2>1 DEF StoredInv, IsStored, HasOwnPath
<1>3. CASE k \in 1..m
  <2>1. xResults'[k] = xResults[k]
    BY <1>1, <1>3
  <2> QED
    BY <1>3, <2>1, StoredStays
<1>4. CASE k = m + 1
  BY <1>2, <1>4
<1>5. k \in 1..m \/ k = m + 1
  <2> HIDE DEF m
  <2> QED
    BY <1>1
<1> QED
  BY <1>3, <1>4, <1>5

\* The report part does not change while the present item stays.
LEMMA ReportsKept ==
  ASSUME ReportInv, UNCHANGED <<xAsked, xEfis, xEfi, xCur, xResults>>
  PROVE  ReportInv'
<1>1. X!Items' = X!Items /\ (\A i, got : X!IsGood(i, got)' <=> X!IsGood(i, got)) /\ \A i : Wanted(i)' <=> Wanted(i)
  BY SameItems DEF Wanted
<1>2. X!Index' = X!Index
  BY DEF X!Index, X!E
<1> QED
  BY <1>1, <1>2 DEF ReportInv

\* SafeInv when no path of the disk changes and no stream is opened.
LEMMA SafeKept ==
  ASSUME SafeInv, UNCHANGED <<xAsked, xMode, xAgreed, xDisk>>, xFile'.stream \in {xFile.stream, X!None}
  PROVE  SafeInv'
<1> SUFFICES ASSUME xMode # "overwrite", NEW p \in DiskPath, p \notin xAgreed, xAsked.disk[p] # X!None
             PROVE  \E q \in DiskPath : /\ xDisk[q] = xAsked.disk[p] /\ q # xFile'.stream
                                        /\ xMode # "renameExisting" => q = p
  BY DEF SafeInv, KeptSomewhere, X!None
<1> QED
  BY NoneIsNoPath DEF SafeInv, KeptSomewhere

-----------------------------------------------------------------------------
(* Extraction: the steps                                                    *)

\* In a folder there is an entry at work.
LEMMA AtWork ==
  ASSUME ControlInv
  PROVE  xEfi \in Nat /\ Len(xEfis) \in Nat /\ (xPc \in InFolder \/ xFile.open => xEfi >= 1)
<1>1. Len(xEfis) \in Nat
  BY LenProperties DEF ControlInv, EntriesUpTo
<1> QED
  BY <1>1 DEF ControlInv

IsOpenFile(f) == \E g, t, a : f = [open |-> TRUE, got |-> g, stream |-> t, ask |-> a]

\* A step inside a folder.
LEMMA ControlKept ==
  ASSUME ControlInv, UNCHANGED <<xAsked, xEfis, xEfi>>, xEfi >= 1,
         DOMAIN xDisk' = DiskPath, xMode' \in X!Modes, xErrors' \in BOOLEAN,
         xFlush' \in {"data", "unsupported"}, xCur' \in 1..(Len(X!E.statuses) + 1),
         xPc' \in InFolder \cup {"folder"}, xPc' = "folder" => xCur' > Len(X!E.statuses),
         xFile' = X!Closed \/ IsOpenFile(xFile'),
         xFile'.open => ~(xCur' > Len(X!E.statuses)) /\ xPc' \in {"write", "decode", "flush"},
         X!E.folder = 0 => xOut'.size = 0 /\ xPc' \notin {"write", "decode", "flush"}
  PROVE  ControlInv'
<1>1. X!E' = X!E
  BY DEF X!E
<1>2. AskedOK' /\ EntriesUpTo(xEfis, Len(X!Items))'
  BY SameEntries
<1>3. X!AtEnd' = (xCur' > Len(X!E.statuses))
  BY <1>1 DEF X!AtEnd
<1>4. xEfi' \in 0..Len(xEfis') /\ xEfi' # 0 /\ xPc' # "ended"
  BY DEF ControlInv, InFolder
<1> QED
  BY <1>1, <1>2, <1>3, <1>4 DEF ControlInv, IsOpenFile, X!Modes, X!Closed, X!None

\* An entry without a folder has one item, which is empty.
LEMMA NoFolder ==
  ASSUME ControlInv, xEfi >= 1, X!E.folder = 0, ~X!AtEnd
  PROVE  X!Size(X!Index) = 0
<1>1. EntryRight(X!E) /\ Len(X!E.statuses) = 1 /\ X!E.start \in Nat
  BY PresentEntry DEF EntryRight
<1>2. xCur = 1 /\ X!Index = X!E.start /\ X!Index \in 1..Len(X!Items)
  BY <1>1, PresentEntry
<1>3. X!FolderOf[X!Index] = 0
  BY <1>1, <1>2 DEF EntryRight, Stop
<1> QED
  BY <1>2, <1>3, FolderOfIs DEF ControlInv

\* Nothing is in a file that is not open.
LEMMA NoBytes ==
  ASSUME AskedOK, NEW i \in 1..Len(X!Items)
  PROVE  FirstBytes(i, <<>>) /\ X!Closed.got = <<>> /\ Len(<<>>) = 0
<1>1. X!Size(i) \in Nat /\ <<>> \in Seq(Int) /\ Len(<<>>) = 0
  BY ItemTypes
<1>2. FirstBytes(i, <<>>)
  BY <1>1 DEF FirstBytes
<1> QED
  BY <1>1, <1>2 DEF X!Closed

\* The place of the present item in its folder.
LEMMA PresentPlace ==
  ASSUME ControlInv, xEfi >= 1, X!E.folder # 0, ~X!AtEnd
  PROVE  /\ X!Index \in 1..Len(X!Items) /\ X!Index \in Nat
         /\ X!TotalBefore(X!Index) \in Int /\ X!Size(X!Index) \in Nat
         /\ ~(xCur + 1 > Len(X!E.statuses)) =>
              /\ X!Index + 1 \in 1..Len(X!Items)
              /\ X!TotalBefore(X!Index + 1) = X!TotalBefore(X!Index) + X!Size(X!Index)
<1>1. /\ X!E \in EntryRecord /\ EntryRight(X!E) /\ AskedOK
      /\ Len(X!E.statuses) \in Nat /\ X!E.start \in Nat
      /\ X!Index = X!E.start + xCur - 1 /\ xCur \in 1..Len(X!E.statuses)
      /\ X!Index \in 1..Len(X!Items) /\ X!Index \in Nat
  BY PresentEntry DEF ControlInv
<1>2. Stop(X!E) = X!E.start + Len(X!E.statuses) - 1
  BY DEF Stop
<1>3. PICK l : l = Len(X!E.statuses)
  OBVIOUS
<1>4. PICK b : b = X!E.start
  OBVIOUS
<1>5. PICK c : c = xCur
  OBVIOUS
<1>6. PICK i : i = X!Index
  OBVIOUS
<1>7. PICK z : z = Stop(X!E)
  OBVIOUS
<1>8. /\ l \in Nat /\ b \in Nat /\ c \in 1..l /\ i = b + c - 1 /\ z = b + l - 1 /\ i \in Nat
  BY <1>1, <1>2, <1>3, <1>4, <1>5, <1>6, <1>7
<1>9. /\ i \in b..z
      /\ ~(c + 1 > l) => i # z /\ i + 1 \in b..z
  BY <1>8
<1>10. /\ \A k \in b..z : k \in 1..Len(X!Items) /\ X!TotalBefore(k) \in Int
       /\ \A k \in b..z : k # z => X!TotalBefore(k + 1) = X!TotalBefore(k) + X!Size(k)
  BY <1>1, <1>4, <1>7, EntryTotals
<1>11. X!TotalBefore(i) \in Int /\ X!Size(i) \in Nat
  BY <1>1, <1>6, <1>9, <1>10, ItemTypes
<1>12. ~(c + 1 > l) =>
         i + 1 \in 1..Len(X!Items) /\ X!TotalBefore(i + 1) = X!TotalBefore(i) + X!Size(i)
  BY <1>9, <1>10
<1> QED
  BY <1>1, <1>3, <1>5, <1>6, <1>11, <1>12

\* While the file stays as it is, or is opened, and nothing is decoded.
LEMMA PlaceKept ==
  ASSUME PlaceInv, UNCHANGED <<xAsked, xEfis, xEfi, xCur>>, xFile'.got = xFile.got, OutType(xOut'),
         Decoding' /\ ~X!AtEnd => Decoding /\ xOut'.pos = xOut.pos
  PROVE  PlaceInv'
<1>1. X!E' = X!E /\ X!AtEnd' = X!AtEnd /\ X!Index' = X!Index
  BY DEF X!E, X!AtEnd, X!Index
<1>2. \A i : X!Size(i)' = X!Size(i) /\ X!TotalBefore(i)' = X!TotalBefore(i)
  BY SameItems
<1>3. \A i, got : FirstBytes(i, got)' <=> FirstBytes(i, got)
  BY <1>2 DEF FirstBytes
<1> QED
  BY <1>1, <1>2, <1>3 DEF PlaceInv

\* The present item is complete: the next one begins.
LEMMA PlaceNext ==
  ASSUME ControlInv, xEfi >= 1, X!E.folder # 0, ~X!AtEnd, OutType(xOut'),
         UNCHANGED <<xAsked, xEfis, xEfi>>, xCur' = xCur + 1, X!Index' = X!Index + 1,
         xFile' = X!Closed, xOut'.pos = X!TotalBefore(X!Index) + X!Size(X!Index)
  PROVE  PlaceInv'
<1>1. X!E' = X!E /\ (X!AtEnd' <=> xCur + 1 > Len(X!E.statuses)) /\ AskedOK
  BY DEF X!E, X!AtEnd, ControlInv
<1>2. \A i : X!Size(i)' = X!Size(i) /\ X!TotalBefore(i)' = X!TotalBefore(i)
  BY SameItems
<1>3. \A i, got : FirstBytes(i, got)' <=> FirstBytes(i, got)
  BY <1>2 DEF FirstBytes
<1>4. PICK j : j = X!Index + 1
  OBVIOUS
<1>5. ASSUME ~(xCur + 1 > Len(X!E.statuses))
      PROVE  /\ FirstBytes(j, xFile'.got) /\ Len(xFile'.got) = 0
             /\ xOut'.pos = X!TotalBefore(j) + 0
  <2>1. /\ j \in 1..Len(X!Items) /\ X!TotalBefore(X!Index) \in Int /\ X!Size(X!Index) \in Nat
        /\ X!TotalBefore(j) = X!TotalBefore(X!Index) + X!Size(X!Index)
    BY <1>4, <1>5, PresentPlace
  <2>2. FirstBytes(j, <<>>) /\ xFile'.got = <<>> /\ Len(<<>>) = 0
    BY <1>1, <2>1, NoBytes
  <2> QED
    BY <2>1, <2>2
<1> QED
  BY <1>1, <1>2, <1>3, <1>4, <1>5 DEF PlaceInv

LEMMA NextFolderStep ==
  ASSUME ExtractInv, X!NextFolder
  PROVE  ExtractInv'
<1>1. ControlInv /\ FileInv /\ SafeInv /\ PlaceInv /\ ReportInv /\ StoredInv
  BY DEF ExtractInv
<1>2. /\ xPc = "folder" /\ xEfi < Len(xEfis) /\ xEfi' = xEfi + 1 /\ xCur' = 1 /\ xPc' = "empties"
      /\ xOut' = [pos |-> 0, size |-> 0, wrong |-> FALSE] /\ xOut'.size = 0 /\ xOut'.pos = 0
      /\ UNCHANGED <<xDisk, xAsked, xEfis, xMode, xFile, xFlush, xResults, xErrors, xAgreed>>
  BY DEF X!NextFolder
<1>3. xEfi \in Nat /\ Len(xEfis) \in Nat /\ xEfi' \in 1..Len(xEfis)
  BY <1>1, <1>2, AtWork
<1>4. xFile.open = FALSE /\ xFile = X!Closed
  BY <1>1, <1>2, OpenOrClosed DEF ControlInv
<1> DEFINE e == xEfis[xEfi + 1]
<1>5. X!E' = e /\ EntryRight(e) /\ e \in EntryRecord /\ X!Index' = e.start + 1 - 1
  <2>1. xEfis \in Seq(EntryRecord) /\ \A a \in 1..Len(xEfis) : EntryRight(xEfis[a])
    BY <1>1 DEF ControlInv, EntriesUpTo
  <2>2. X!E' = e
    BY <1>2 DEF X!E
  <2>3. e \in EntryRecord /\ EntryRight(e)
    BY <1>2, <1>3, <2>1, ElementOfSeq
  <2> QED
    BY <1>2, <2>2, <2>3 DEF X!Index
<1>6. e.start \in Nat /\ Len(e.statuses) \in Nat /\ X!Index' = e.start
  <2>1. e.start \in Nat /\ e.statuses \in Seq(BOOLEAN)
    BY <1>5 DEF EntryRecord
  <2> HIDE DEF e
  <2> QED
    BY <1>5, <2>1, LenProperties
<1>7. ControlInv'
  <2>1. AskedOK' /\ EntriesUpTo(xEfis, Len(X!Items))'
    BY <1>1, <1>2, SameEntries
  <2>2. xEfi' \in 0..Len(xEfis') /\ xEfi' # 0
    BY <1>2, <1>3
  <2>3. xCur' \in 1..(Len(X!E.statuses) + 1)'
    BY <1>2, <1>5, <1>6
  <2> HIDE DEF e
  <2> QED
    BY <1>1, <1>2, <1>4, <2>1, <2>2, <2>3 DEF ControlInv, InFolder, X!Modes, X!Closed, X!None
<1>8. FileInv'
  BY <1>2, <1>4 DEF FileInv, X!Closed, X!None
<1>9. SafeInv'
  BY <1>1, <1>2, SafeKept
<1>10. StoredInv'
  BY <1>1, <1>2, StoredKept
\* It begins with the first byte of the folder.
<1>13. PlaceInv'
  <2>1. OutType(xOut')
    BY <1>2, OutStarts
  <2>2. \A i : X!Size(i)' = X!Size(i) /\ X!TotalBefore(i)' = X!TotalBefore(i)
    BY <1>2, SameItems
  <2>3. \A i, got : FirstBytes(i, got)' <=> FirstBytes(i, got)
    BY <2>2 DEF FirstBytes
  <2>4. ASSUME e.folder # 0
        PROVE  FirstBytes(e.start, <<>>) /\ X!TotalBefore(e.start) = 0 /\ Len(<<>>) = 0
    <3>1. AskedOK
      BY <1>1 DEF ControlInv
    <3>2. e.start \in e.start..Stop(e)
      BY <1>5, <1>6 DEF EntryRight, Stop
    <3>3. e.start \in 1..Len(X!Items) /\ X!TotalBefore(e.start) = 0
      BY <1>5, <2>4, <3>1, <3>2, EntryTotals
    <3> QED
      BY <3>1, <3>3, NoBytes
  <2>5. xFile'.got = <<>>
    BY <1>2, <1>4 DEF X!Closed
  <2> HIDE DEF e
  <2> QED
    BY <1>2, <1>5, <1>6, <2>1, <2>2, <2>3, <2>4, <2>5 DEF PlaceInv
\* The next entry is behind the one that is finished.
<1>11. xEfi >= 1 => /\ X!Index = Stop(xEfis[xEfi]) + 1 /\ Stop(xEfis[xEfi]) < e.start
                    /\ Stop(xEfis[xEfi]) \in Int /\ X!Index <= e.start
  <2> SUFFICES ASSUME xEfi >= 1
               PROVE  /\ X!Index = Stop(xEfis[xEfi]) + 1 /\ Stop(xEfis[xEfi]) < e.start
                      /\ Stop(xEfis[xEfi]) \in Int /\ X!Index <= e.start
    OBVIOUS
  <2>1. X!AtEnd
    BY <1>1, <1>2 DEF ControlInv
  <2>2. /\ X!Index = X!E.start + xCur - 1 /\ Len(X!E.statuses) \in Nat /\ X!E.start \in Nat
        /\ ~(xCur <= Len(X!E.statuses))
    BY <1>1, <2>1, PresentEntry
  <2>3. xCur = Len(X!E.statuses) + 1
    BY <1>1, <2>2 DEF ControlInv
  <2>4. Stop(X!E) = X!E.start + Len(X!E.statuses) - 1 /\ X!E = xEfis[xEfi]
    BY DEF Stop, X!E
  <2>5. xEfi \in 1..Len(xEfis) /\ xEfi + 1 \in 1..Len(xEfis) /\ xEfi < xEfi + 1
    BY <1>2, <1>3
  <2>6. Stop(xEfis[xEfi]) < e.start
    BY <1>1, <2>5 DEF ControlInv, EntriesUpTo
  <2>7. PICK stop : stop = Stop(xEfis[xEfi])
    OBVIOUS
  <2>8. PICK l : l = Len(X!E.statuses)
    OBVIOUS
  <2>9. PICK b : b = X!E.start
    OBVIOUS
  <2>10. l \in Nat /\ b \in Nat /\ stop = b + l - 1 /\ X!Index = b + l
    BY <2>2, <2>3, <2>4, <2>7, <2>8, <2>9
  <2> HIDE DEF e
  <2> QED
    BY <1>6, <2>6, <2>7, <2>10
<1>12. ReportInv'
  <2>1. X!Items' = X!Items /\ (\A i, got : X!IsGood(i, got)' <=> X!IsGood(i, got)) /\ \A i : Wanted(i)' <=> Wanted(i)
    BY <1>2, SameItems DEF Wanted
  <2>2. \A k \in 1..Len(xResults) : xResults[k].index < e.start
    <3>1. CASE xEfi = 0
      <4>1. Len(xResults) = 0
        BY <1>1, <3>1 DEF ControlInv
      <4> QED
        BY <4>1
    <3>2. CASE xEfi >= 1
      <4> SUFFICES ASSUME NEW k \in 1..Len(xResults) PROVE xResults[k].index < e.start
        OBVIOUS
      <4>1. xResults[k].index < X!Index /\ xResults[k].index \in Int
        BY <1>1, ItemTypes DEF ReportInv, ControlInv
      <4>2. X!Index <= e.start /\ X!Index \in Int
        BY <1>1, <1>11, <3>2, PresentEntry
      <4> HIDE DEF e
      <4> QED
        BY <1>6, <4>1, <4>2
    <3> QED
      BY <1>3, <3>1, <3>2
  <2>3. ASSUME NEW i \in 1..Len(X!Items), Wanted(i), i < e.start
        PROVE  \E k \in 1..Len(xResults) : xResults[k].index = i
    <3>1. PICK a \in 1..Len(xEfis) : xEfis[a].start <= i /\ i <= Stop(xEfis[a])
      BY <1>1, <2>3 DEF ControlInv, EntriesUpTo
    <3>2. i \in Nat /\ a \in Nat
      BY <1>1, ItemTypes DEF ControlInv
    <3>3. \A c, d \in 1..Len(xEfis) : c < d => Stop(xEfis[c]) < xEfis[d].start
      BY <1>1 DEF ControlInv, EntriesUpTo
    <3>4. \A c \in 1..Len(xEfis) : xEfis[c].start \in Nat /\ Stop(xEfis[c]) \in Int
                                   /\ xEfis[c].start <= Stop(xEfis[c])
      <4> SUFFICES ASSUME NEW c \in 1..Len(xEfis)
                   PROVE  xEfis[c].start \in Nat /\ Stop(xEfis[c]) \in Int
                          /\ xEfis[c].start <= Stop(xEfis[c])
        OBVIOUS
      <4>1. xEfis[c] \in EntryRecord /\ EntryRight(xEfis[c])
        BY <1>1, ElementOfSeq DEF ControlInv, EntriesUpTo
      <4>2. xEfis[c].start \in Nat /\ xEfis[c].statuses \in Seq(BOOLEAN)
        BY <4>1 DEF EntryRecord
      <4>3. Len(xEfis[c].statuses) \in Nat /\ Len(xEfis[c].statuses) >= 1
        BY <4>1, <4>2, LenProperties DEF EntryRight
      <4> QED
        BY <4>2, <4>3 DEF Stop
    <3>5. xEfi + 1 \in 1..Len(xEfis)
      BY <1>2, <1>3
    <3>6. a < xEfi + 1
      <4> SUFFICES ASSUME ~(a < xEfi + 1) PROVE FALSE
        OBVIOUS
      <4>1. a = xEfi + 1 \/ xEfi + 1 < a
        BY <1>3, <3>2
      <4>2. CASE a = xEfi + 1
        BY <1>6, <2>3, <3>1, <3>2, <4>2
      <4>3. CASE xEfi + 1 < a
        <5>1. Stop(e) < xEfis[a].start /\ e.start <= Stop(e) /\ Stop(e) \in Int /\ xEfis[a].start \in Int
          BY <3>3, <3>4, <3>5, <4>3
        <5> HIDE DEF e
        <5> QED
          BY <1>6, <2>3, <3>1, <3>2, <5>1
      <4> QED
        BY <4>1, <4>2, <4>3
    <3>7. xEfi >= 1 /\ xEfi \in 1..Len(xEfis) /\ (a = xEfi \/ a < xEfi)
      BY <1>3, <3>2, <3>6, <3>5
    <3>8. i <= Stop(xEfis[xEfi])
      <4>1. CASE a = xEfi
        BY <3>1, <4>1
      <4>2. CASE a < xEfi
        <5>1. Stop(xEfis[a]) < xEfis[xEfi].start /\ xEfis[xEfi].start <= Stop(xEfis[xEfi])
              /\ Stop(xEfis[a]) \in Int /\ xEfis[xEfi].start \in Int /\ Stop(xEfis[xEfi]) \in Int
          BY <3>3, <3>4, <3>7, <4>2
        <5> QED
          BY <3>1, <3>2, <5>1
      <4> QED
        BY <3>7, <4>1, <4>2
    <3>9. i < X!Index
      <4>1. X!Index = Stop(xEfis[xEfi]) + 1 /\ Stop(xEfis[xEfi]) \in Int
        BY <1>11, <3>7
      <4> QED
        BY <3>2, <3>8, <4>1
    <3> QED
      BY <1>1, <2>3, <3>7, <3>9 DEF ReportInv
  <2> HIDE DEF e
  <2> QED
    BY <1>1, <1>2, <1>6, <2>1, <2>2, <2>3 DEF ReportInv
<1> QED
  BY <1>7, <1>8, <1>9, <1>10, <1>12, <1>13 DEF ExtractInv

LEMMA EmptyFileStep ==
  ASSUME ExtractInv, X!EmptyFile
  PROVE  ExtractInv'
<1>1. ControlInv /\ FileInv /\ SafeInv /\ PlaceInv /\ ReportInv /\ StoredInv
  BY DEF ExtractInv
<1>2. /\ xPc = "empties" /\ ~X!AtEnd /\ X!Size(X!Index) = 0
      /\ UNCHANGED <<xAsked, xEfis, xPc, xEfi, xFile, xOut, xFlush>>
  BY DEF X!EmptyFile, X!AtEmptyFile
<1>3. PICK g \in X!Streams : X!Take(g) /\ X!Report(X!FileOf(g), "ok") /\ xErrors' = (xErrors \/ g.error)
  BY DEF X!EmptyFile
<1>4. xEfi >= 1
  BY <1>1, <1>2, AtWork DEF InFolder
<1>5. xFile.open = FALSE /\ xFile = X!Closed
  BY <1>1, <1>2, OpenOrClosed DEF ControlInv
<1>6. /\ DOMAIN xDisk' = DiskPath /\ xMode' \in X!Modes /\ SafeInv' /\ TouchesPresent
      /\ X!FileOf(g).got = <<>>
      /\ X!FileOf(g).stream = g.stream
      /\ g.stream # X!None =>
           /\ g.stream \in DiskPath /\ g.stream[1] = X!Items[X!Index].path
           /\ Wanted(X!Index) /\ xDisk'[g.stream] = <<>>
      /\ X!FileOf(g).ask = "extract" => X!Items[X!Index].anti \/ g.stream # X!None
  BY <1>2, <1>3, <1>4, <1>5, OpenStep
<1>7. X!IsGood(X!Index, <<>>)
  <2>1. X!Index \in 1..Len(X!Items) /\ AskedOK
    BY <1>1, <1>2, <1>4, PresentEntry DEF ControlInv
  <2>2. Len(<<>>) = 0 /\ 1..X!Size(X!Index) = {} /\ X!Contents(X!Index) = <<>>
    BY <1>2, <2>1, NoBytes DEF X!Contents
  <2> QED
    BY <1>2, <2>2 DEF X!IsGood, X!OwnBytes
<1>8. X!Index' = X!Index + 1 /\ xCur' = xCur + 1 /\ ReportInv' /\ xCur' \in 1..(Len(X!E.statuses) + 1)
  BY <1>1, <1>2, <1>3, <1>4, <1>6, <1>7, ReportStep DEF X!Report
<1>9. (~xErrors' => ~xErrors) /\ xErrors' \in BOOLEAN
  BY <1>3
<1>10. StoredInv'
  <2>1. X!FileOf(g).ask = "extract" /\ ~X!Items[X!Index].anti =>
          \E p \in DiskPath : p[1] = X!Items[X!Index].path /\ X!IsGood(X!Index, xDisk'[p])
    BY <1>6, <1>7
  <2> QED
    BY <1>2, <1>3, <1>4, <1>6, <1>7, <1>9, <2>1, StoredReport
<1>11. ControlInv'
  <2>1. X!E.folder = 0 => xOut'.size = 0 /\ xPc' \notin {"write", "decode", "flush"}
    BY <1>1, <1>2, <1>4 DEF ControlInv
  <2>2. xFlush' \in {"data", "unsupported"}
    BY <1>1, <1>2 DEF ControlInv
  <2> QED
    BY <1>1, <1>2, <1>4, <1>5, <1>6, <1>8, <1>9, <2>1, <2>2, ControlKept DEF InFolder
<1>12. FileInv'
  BY <1>2, <1>5 DEF FileInv, X!Closed, X!None
<1>13. PlaceInv'
  <2>1. OutType(xOut') /\ OutType(xOut)
    BY <1>1, <1>2 DEF PlaceInv
  <2>2. CASE X!E.folder = 0
    <3>1. X!E'.folder = 0
      BY <1>2, <2>2 DEF X!E
    <3> QED
      BY <2>1, <3>1 DEF PlaceInv
  <2>3. CASE X!E.folder # 0
    <3>1. /\ xOut.pos = X!TotalBefore(X!Index) + Len(xFile.got) /\ Len(xFile.got) = 0
          /\ X!TotalBefore(X!Index) \in Int
      BY <1>1, <1>2, <1>4, <1>5, <2>3, PresentPlace, NoBytes DEF PlaceInv, Decoding, ControlInv
    <3>2. xOut'.pos = X!TotalBefore(X!Index) + X!Size(X!Index)
      BY <1>2, <3>1
    <3> QED
      BY <1>1, <1>2, <1>4, <1>5, <1>8, <2>1, <2>3, <3>2, PlaceNext
  <2> QED
    BY <2>2, <2>3
<1> QED
  BY <1>6, <1>8, <1>10, <1>11, <1>12, <1>13 DEF ExtractInv

\* A step that only changes the place in the code, or what the decoder gave.
LEMMA QuietStep ==
  ASSUME ExtractInv, xEfi >= 1,
         UNCHANGED <<xDisk, xAsked, xEfis, xMode, xEfi, xCur, xFile, xResults, xErrors, xAgreed>>,
         xFlush' \in {"data", "unsupported"},
         xPc' \in InFolder \cup {"folder"}, xPc' = "folder" => X!AtEnd,
         xFile.open => xPc' \in {"write", "decode", "flush"},
         X!E.folder = 0 => xOut'.size = 0 /\ xPc' \notin {"write", "decode", "flush"},
         OutType(xOut'), Decoding' /\ ~X!AtEnd => Decoding /\ xOut'.pos = xOut.pos
  PROVE  ExtractInv'
<1>1. ControlInv /\ FileInv /\ SafeInv /\ PlaceInv /\ ReportInv /\ StoredInv
  BY DEF ExtractInv
<1>2. ControlInv'
  <2>1. /\ DOMAIN xDisk' = DiskPath /\ xMode' \in X!Modes /\ xErrors' \in BOOLEAN
        /\ xCur' \in 1..(Len(X!E.statuses) + 1) /\ (xFile' = X!Closed \/ IsOpenFile(xFile'))
    BY <1>1 DEF ControlInv, IsOpenFile
  <2>2. xPc' = "folder" => xCur' > Len(X!E.statuses)
    BY DEF X!AtEnd
  <2>3. xFile'.open => ~(xCur' > Len(X!E.statuses)) /\ xPc' \in {"write", "decode", "flush"}
    BY <1>1 DEF ControlInv, X!AtEnd
  <2> QED
    BY <1>1, <2>1, <2>2, <2>3, ControlKept
<1>3. FileInv'
  <2>1. X!Items' = X!Items /\ X!Index' = X!Index /\ \A i : Wanted(i)' <=> Wanted(i)
    BY SameItems DEF Wanted, X!Index, X!E
  <2> QED
    BY <1>1, <2>1 DEF FileInv, X!None
<1>4. SafeInv'
  BY <1>1, SafeKept
<1>5. ReportInv' /\ StoredInv'
  BY <1>1, ReportsKept, StoredKept
<1>6. PlaceInv'
  BY <1>1, PlaceKept
<1> QED
  BY <1>2, <1>3, <1>4, <1>5, <1>6 DEF ExtractInv

LEMMA EmptyFilesEndStep ==
  ASSUME ExtractInv, X!EmptyFilesEnd
  PROVE  ExtractInv'
<1>1. ControlInv
  BY DEF ExtractInv
<1>2. /\ xPc = "empties" /\ ~X!AtEmptyFile
      /\ xPc' = IF xOut.size > 0 THEN "write" ELSE IF X!E.folder = 0 THEN "folder" ELSE "decode"
      /\ UNCHANGED <<xDisk, xAsked, xEfis, xMode, xEfi, xCur, xFile, xOut, xFlush, xResults,
                     xErrors, xAgreed>>
  BY DEF X!EmptyFilesEnd
<1>3. xEfi >= 1 /\ xFlush' \in {"data", "unsupported"}
  BY <1>1, <1>2, AtWork DEF InFolder, ControlInv
<1>4. ~xFile.open
  BY <1>1, <1>2 DEF ControlInv
<1>5. X!E.folder = 0 => X!AtEnd
  BY <1>1, <1>2, <1>3, NoFolder DEF X!AtEmptyFile
<1>6. X!E.folder = 0 => xOut.size = 0 /\ xPc' = "folder"
  BY <1>1, <1>2, <1>3 DEF ControlInv
<1>7. xPc' \in {"write", "folder", "decode"} /\ (xPc' = "folder" => X!E.folder = 0)
  BY <1>2
<1>8. OutType(xOut') /\ (Decoding' => Decoding /\ xOut'.pos = xOut.pos)
  BY <1>2 DEF ExtractInv, PlaceInv, Decoding
<1> QED
  BY <1>2, <1>3, <1>4, <1>5, <1>6, <1>7, <1>8, QuietStep DEF InFolder

LEMMA DecodeSteps ==
  ASSUME ExtractInv, X!Decode \/ X!DecodeEnds \/ X!WriteEnds \/ X!FlushEnds
  PROVE  ExtractInv'
<1>1. ControlInv
  BY DEF ExtractInv
<1>2. /\ xPc \in {"decode", "write", "flush"} /\ xPc' \in {"write", "flush", "decode", "folder"}
      /\ xFlush' = xFlush \/ xFlush' \in {"data", "unsupported"}
      /\ xPc' = "folder" => X!AtEnd
      /\ UNCHANGED <<xDisk, xAsked, xEfis, xMode, xEfi, xCur, xFile, xResults, xErrors, xAgreed>>
  BY DEF X!Decode, X!DecodeEnds, X!WriteEnds, X!FlushEnds
<1>3. xEfi >= 1 /\ xFlush' \in {"data", "unsupported"}
  BY <1>1, <1>2, AtWork DEF InFolder, ControlInv
<1>4. X!E.folder # 0
  BY <1>1, <1>2, <1>3 DEF ControlInv
<1>5. xFile.open => xPc' \in {"write", "decode", "flush"}
  BY <1>1, <1>2 DEF ControlInv
<1>6. OutType(xOut') /\ xOut'.pos = xOut.pos
  <2>1. PICK p \in Int, s \in Int, w \in BOOLEAN : xOut = [pos |-> p, size |-> s, wrong |-> w]
    BY DEF ExtractInv, PlaceInv, OutType
  <2>2. CASE xOut' = xOut
    BY <2>1, <2>2 DEF OutType
  <2>3. CASE X!Decode
    <3>1. PICK n \in 1..(X!FolderSize(X!E.folder) - xOut.pos), v \in BOOLEAN :
            xOut' = [xOut EXCEPT !.size = n, !.wrong = v]
      BY <2>3 DEF X!Decode
    <3>2. n \in Int
      BY <3>1
    <3>3. xOut' = [pos |-> p, size |-> n, wrong |-> v]
      BY <2>1, <3>1
    <3> QED
      BY <2>1, <3>2, <3>3 DEF OutType
  <2> QED
    BY <2>2, <2>3 DEF X!DecodeEnds, X!WriteEnds, X!FlushEnds
<1>7. Decoding' => Decoding
  BY DEF X!Decode, X!DecodeEnds, X!WriteEnds, X!FlushEnds, Decoding
<1> QED
  BY <1>2, <1>3, <1>4, <1>5, <1>6, <1>7, QuietStep DEF InFolder

\* OpenFile, and the file stays open.
LEMMA OpensStep ==
  ASSUME ExtractInv, xPc \in {"write", "flush"}, ~xFile.open, ~X!AtEnd,
         NEW g \in X!Streams, X!Take(g), xFile' = X!FileOf(g), xErrors' = (xErrors \/ g.error),
         UNCHANGED <<xAsked, xEfis, xPc, xEfi, xCur, xOut, xFlush, xResults>>
  PROVE  ExtractInv'
<1>1. ControlInv /\ FileInv /\ SafeInv /\ PlaceInv /\ ReportInv /\ StoredInv
  BY DEF ExtractInv
<1>2. xEfi >= 1
  BY <1>1, AtWork DEF InFolder
<1>3. /\ DOMAIN xDisk' = DiskPath /\ xMode' \in X!Modes /\ SafeInv' /\ TouchesPresent
      /\ X!FileOf(g).got = <<>> /\ X!FileOf(g).stream = g.stream
      /\ g.stream # X!None =>
           /\ g.stream \in DiskPath /\ g.stream[1] = X!Items[X!Index].path /\ Wanted(X!Index)
      /\ X!FileOf(g).ask = "extract" => X!Items[X!Index].anti \/ g.stream # X!None
  BY <1>2, OpenStep
<1>4. ControlInv'
  <2>1. IsOpenFile(xFile')
    BY DEF X!FileOf, X!Opened, IsOpenFile
  <2>2. X!E.folder # 0
    BY <1>1, <1>2 DEF ControlInv
  <2>3. xErrors' \in BOOLEAN /\ xFlush' \in {"data", "unsupported"} /\ xCur' \in 1..(Len(X!E.statuses) + 1)
    BY <1>1, <1>2 DEF ControlInv
  <2>4. ~(xCur' > Len(X!E.statuses))
    BY DEF X!AtEnd
  <2> QED
    BY <1>1, <1>2, <1>3, <2>1, <2>2, <2>3, <2>4, ControlKept DEF InFolder
<1>5. FileInv'
  <2>1. X!Items' = X!Items /\ X!Index' = X!Index /\ \A i : Wanted(i)' <=> Wanted(i)
    BY SameItems DEF Wanted, X!Index, X!E
  <2> QED
    BY <1>3, <2>1 DEF FileInv, X!None
<1>6. ReportInv' /\ StoredInv'
  BY <1>1, <1>2, <1>3, ReportsKept, StoredKept
<1>7. PlaceInv'
  <2>1. xFile'.got = xFile.got
    BY <1>1, <1>3, OpenOrClosed DEF X!Closed
  <2>2. OutType(xOut') /\ (Decoding' => Decoding)
    BY <1>1 DEF PlaceInv, Decoding
  <2> QED
    BY <1>1, <2>1, <2>2, PlaceKept
<1> QED
  BY <1>3, <1>4, <1>5, <1>6, <1>7 DEF ExtractInv

LEMMA WriteOpensStep ==
  ASSUME ExtractInv, X!WriteOpens
  PROVE  ExtractInv'
<1>1. CASE X!AtEnd
  <2>1. ControlInv
    BY DEF ExtractInv
  <2>2. /\ xPc = "write" /\ xPc' = "write" /\ xFlush' = xFlush
        /\ UNCHANGED <<xDisk, xAsked, xEfis, xMode, xEfi, xCur, xFile, xResults, xErrors, xAgreed>>
    BY <1>1 DEF X!WriteOpens
  <2>3. xEfi >= 1 /\ xFlush' \in {"data", "unsupported"}
    BY <2>1, <2>2, AtWork DEF InFolder, ControlInv
  <2>4. X!E.folder # 0
    BY <2>1, <2>2, <2>3 DEF ControlInv
  <2>5. OutType(xOut')
    <3>1. PICK p \in Int, s \in Int, w \in BOOLEAN : xOut = [pos |-> p, size |-> s, wrong |-> w]
      BY DEF ExtractInv, PlaceInv, OutType
    <3>2. xOut' = [pos |-> p + s, size |-> 0, wrong |-> w]
      BY <1>1, <3>1 DEF X!WriteOpens
    <3>3. p + s \in Int
      OBVIOUS
    <3> QED
      BY <3>2, <3>3 DEF OutType
  <2> QED
    BY <1>1, <2>2, <2>3, <2>4, <2>5, QuietStep DEF InFolder
<1>2. CASE ~X!AtEnd
  <2>1. PICK g \in X!Streams : /\ X!Take(g) /\ xFile' = X!FileOf(g) /\ xErrors' = (xErrors \/ g.error)
                               /\ xOut' = xOut
    BY <1>2 DEF X!WriteOpens
  <2>2. xPc = "write" /\ ~xFile.open /\ UNCHANGED <<xAsked, xEfis, xPc, xEfi, xCur, xFlush, xResults>>
    BY DEF X!WriteOpens
  <2> QED
    BY <1>2, <2>1, <2>2, OpensStep
<1> QED
  BY <1>1, <1>2

LEMMA FlushOpensStep ==
  ASSUME ExtractInv, X!FlushOpens
  PROVE  ExtractInv'
<1>1. PICK g \in X!Streams : X!Take(g) /\ xFile' = X!FileOf(g) /\ xErrors' = (xErrors \/ g.error)
  BY DEF X!FlushOpens
<1>2. xPc = "flush" /\ ~xFile.open /\ ~X!AtEnd
      /\ UNCHANGED <<xAsked, xEfis, xPc, xEfi, xCur, xOut, xFlush, xResults>>
  BY DEF X!FlushOpens
<1> QED
  BY <1>1, <1>2, OpensStep

\* The sequence u is s followed by t.
Joined(s, t, u) ==
  /\ u \in Seq(Int) /\ Len(u) = Len(s) + Len(t)
  /\ \A k \in 1..(Len(s) + Len(t)) : u[k] = IF k <= Len(s) THEN s[k] ELSE t[k - Len(s)]

LEMMA ConcatJoins ==
  ASSUME NEW s \in Seq(Int), NEW t \in Seq(Int)
  PROVE  Joined(s, t, s \o t)
BY ConcatProperties DEF Joined

\* The bytes of the decoder that go into the open file are those of its places.
LEMMA FileGets ==
  ASSUME ControlInv, PlaceInv, xPc = "write", xOut.size > 0, xFile.open, xEfi >= 1, ~X!AtEnd,
         X!E.folder # 0, NEW n, n = X!Taken, NEW got, got = xFile.got \o X!Bytes(n)
  PROVE  /\ FirstBytes(X!Index, got) /\ n \in Int
         /\ xOut.pos + n = X!TotalBefore(X!Index) + Len(got) /\ Len(got) \in Nat
         /\ n >= X!Rem => Len(got) = X!Size(X!Index)
<1> DEFINE old == xFile.got
           new == X!Bytes(n)
<1>1. PICK p \in Int, s \in Int, w \in BOOLEAN : xOut = [pos |-> p, size |-> s, wrong |-> w]
  BY DEF PlaceInv, OutType
<1>2. xOut.pos = p /\ xOut.size = s /\ xOut.wrong = w
  BY <1>1
<1>3. PICK z : z = X!Size(X!Index)
  OBVIOUS
<1>4. PICK b : b = X!TotalBefore(X!Index)
  OBVIOUS
<1>5. FirstBytes(X!Index, old) /\ p = b + Len(old)
  BY <1>2, <1>4 DEF PlaceInv, Decoding
<1>6. /\ old \in Seq(Int) /\ Len(old) <= z /\ Len(old) \in Nat
      /\ \A k \in 1..Len(old) : old[k] \in {0, b + k}
  BY <1>3, <1>4, <1>5, LenProperties DEF FirstBytes
<1>7. z \in Nat /\ b \in Int
  BY <1>3, <1>4, PresentPlace
<1>8. PICK l : l = Len(old)
  OBVIOUS
<1>9. l \in Nat /\ l <= z /\ p = b + l /\ s > 0
  BY <1>2, <1>5, <1>6, <1>8
<1>10. X!Rem = z - l
  BY <1>3, <1>8 DEF X!Rem
<1>11. n \in Nat /\ n <= z - l /\ (n >= X!Rem => n = z - l)
  <2>1. n = IF s < X!Rem THEN s ELSE X!Rem
    BY <1>2 DEF X!Taken, X!MinOf
  <2> QED
    BY <1>7, <1>9, <1>10, <2>1
<1>12. /\ new \in Seq(Int) /\ Len(new) = n
       /\ \A k \in 1..n : new[k] \in {0, p + k}
  <2>1. new = [k \in 1..n |-> IF w THEN 0 ELSE p + k]
    BY <1>2 DEF X!Bytes
  <2>2. new \in [1..n -> Int] /\ \A k \in 1..n : new[k] \in {0, p + k}
    BY <1>11, <2>1
  <2> HIDE DEF new
  <2> QED
    BY <1>11, <2>2, SeqDef, LenProperties
<1> HIDE DEF old, new
<1>13. /\ got \in Seq(Int) /\ Len(got) = l + n
       /\ \A k \in 1..(l + n) : got[k] = IF k <= l THEN old[k] ELSE new[k - l]
  <2>1. got = old \o new
    BY DEF old, new
  <2>2. Joined(old, new, got)
    BY <1>6, <1>12, <2>1, ConcatJoins
  <2>3. /\ got \in Seq(Int) /\ Len(got) = Len(old) + Len(new)
        /\ \A k \in 1..(Len(old) + Len(new)) :
             got[k] = IF k <= Len(old) THEN old[k] ELSE new[k - Len(old)]
    BY <2>2, Zenon DEF Joined
  <2>4. Len(old) = l /\ Len(new) = n
    BY <1>8, <1>12
  <2> QED
    BY <2>3, <2>4
<1>14. ASSUME NEW k \in 1..(l + n) PROVE got[k] \in {0, b + k}
  <2>1. CASE k <= l
    <3>1. k \in 1..l
      BY <1>9, <1>11, <2>1
    <3> QED
      BY <1>6, <1>8, <1>13, <2>1, <3>1
  <2>2. CASE ~(k <= l)
    <3>1. k - l \in 1..n /\ p + (k - l) = b + k
      BY <1>7, <1>9, <1>11, <2>2
    <3>2. new[k - l] \in {0, p + (k - l)}
      BY <1>12, <3>1
    <3>3. got[k] = new[k - l]
      BY <1>13, <2>2
    <3> QED
      BY <3>1, <3>2, <3>3
  <2> QED
    BY <2>1, <2>2
<1>15. Len(got) <= z /\ Len(got) \in Nat /\ p + n = b + Len(got)
  BY <1>7, <1>9, <1>11, <1>13
<1>16. FirstBytes(X!Index, got)
  BY <1>3, <1>4, <1>13, <1>14, <1>15 DEF FirstBytes
<1>17. n >= X!Rem => Len(got) = z
  BY <1>7, <1>9, <1>11, <1>13
<1> QED
  BY <1>2, <1>3, <1>4, <1>11, <1>15, <1>16, <1>17

\* Bytes go into the open file, which is closed when it has them all.
LEMMA WriteToFileStep ==
  ASSUME ExtractInv, X!WriteToFile
  PROVE  ExtractInv'
<1> DEFINE n == X!Taken
           got == xFile.got \o X!Bytes(n)
           f == [xFile EXCEPT !.got = got]
<1>1. ControlInv /\ FileInv /\ SafeInv /\ PlaceInv /\ ReportInv /\ StoredInv
  BY DEF ExtractInv
<1>2. /\ xPc = "write" /\ xFile.open /\ xOut.size > 0
      /\ xOut' = [xOut EXCEPT !.pos = @ + n, !.size = @ - n]
      /\ xDisk' = IF xFile.stream = X!None THEN xDisk ELSE [xDisk EXCEPT ![xFile.stream] = got]
      /\ UNCHANGED <<xAsked, xEfis, xMode, xEfi, xFlush, xAgreed>>
      /\ \/ /\ X!Report(f, X!CrcResult(got)) /\ xErrors' = (xErrors \/ X!CrcResult(got) # "ok")
            /\ xFile' = X!Closed /\ xPc' = "empties" /\ n >= X!Rem
         \/ xFile' = f /\ UNCHANGED <<xPc, xCur, xResults, xErrors>>
  BY DEF X!WriteToFile
<1>3. xEfi >= 1 /\ ~X!AtEnd
  BY <1>1, <1>2, AtWork DEF ControlInv
<1>4. PICK g0, t, a : xFile = [open |-> TRUE, got |-> g0, stream |-> t, ask |-> a]
  BY <1>1, <1>2, OpenOrClosed
<1>5. X!E.folder # 0
  BY <1>1, <1>2, <1>3 DEF ControlInv
<1>18. /\ FirstBytes(X!Index, got) /\ n \in Int
       /\ xOut.pos + n = X!TotalBefore(X!Index) + Len(got) /\ Len(got) \in Nat
       /\ n >= X!Rem => Len(got) = X!Size(X!Index)
  BY <1>1, <1>2, <1>3, <1>5, FileGets
<1>19. OutType(xOut') /\ xOut'.pos = X!TotalBefore(X!Index) + Len(got)
  <2> HIDE DEF n, got
  <2>1. PICK p \in Int, s \in Int, w \in BOOLEAN : xOut = [pos |-> p, size |-> s, wrong |-> w]
    BY <1>1 DEF PlaceInv, OutType
  <2>2. xOut' = [pos |-> p + n, size |-> s - n, wrong |-> w]
    BY <1>2, <2>1
  <2>3. p + n \in Int /\ s - n \in Int
    BY <1>18
  <2> QED
    BY <1>18, <2>1, <2>2, <2>3 DEF OutType
<1>6. n >= X!Rem /\ X!CrcResult(got) = "ok" => X!IsGood(X!Index, got)
  BY <1>18 DEF X!CrcResult, X!IsGood, X!OwnBytes, FirstBytes
<1> HIDE DEF got, n
<1>7. f = [open |-> TRUE, got |-> got, stream |-> t, ask |-> a]
  <2> DEFINE o == [open |-> TRUE, got |-> g0, stream |-> t, ask |-> a]
  <2>1. f = [o EXCEPT !.got = got]
    BY <1>4, Zenon
  <2> HIDE DEF f
  <2> QED
    BY <2>1
<1>8. /\ f.got = got /\ f.stream = t /\ f.ask = a /\ f.open = TRUE
      /\ xFile.stream = t /\ xFile.ask = a
  BY <1>4, <1>7
<1>9. IsOpenFile(f)
  BY <1>7 DEF IsOpenFile
<1> HIDE DEF f
<1>10. /\ t # X!None => t \in DiskPath /\ t[1] = X!Items[X!Index].path /\ Wanted(X!Index)
       /\ a = "extract" => X!Items[X!Index].anti \/ t # X!None
  BY <1>1, <1>2, <1>8 DEF FileInv
<1>11. DOMAIN xDisk = DiskPath
  BY <1>1 DEF ControlInv
<1>12. /\ DOMAIN xDisk' = DiskPath
       /\ \A q \in DiskPath : q # t => xDisk'[q] = xDisk[q]
       /\ t # X!None => xDisk'[t] = got
  BY <1>2, <1>8, <1>10, <1>11
<1>13. TouchesPresent
  <2> SUFFICES ASSUME NEW q \in DiskPath, xDisk'[q] # xDisk[q]
               PROVE  q[1] = X!Items[X!Index].path /\ Wanted(X!Index)
    BY DEF TouchesPresent
  <2>1. q = t /\ t # X!None
    BY <1>12, NoneIsNoPath
  <2> QED
    BY <1>10, <2>1
<1>14. SafeInv'
  <2>1. xFile'.stream \in {t, X!None}
    BY <1>2, <1>8 DEF X!Closed
  <2> SUFFICES ASSUME xMode # "overwrite", NEW p \in DiskPath, p \notin xAgreed, xAsked.disk[p] # X!None
               PROVE  \E q \in DiskPath : /\ xDisk'[q] = xAsked.disk[p] /\ q # xFile'.stream
                                          /\ xMode # "renameExisting" => q = p
    BY <1>2 DEF SafeInv, KeptSomewhere, X!None
  <2>2. PICK q \in DiskPath : /\ xDisk[q] = xAsked.disk[p] /\ q # t
                              /\ xMode # "renameExisting" => q = p
    BY <1>1, <1>8 DEF SafeInv, KeptSomewhere
  <2> QED
    BY <1>12, <2>1, <2>2, NoneIsNoPath
<1>15. xFlush' \in {"data", "unsupported"} /\ xMode' \in X!Modes /\ xErrors' \in BOOLEAN
  BY <1>1, <1>2 DEF ControlInv
<1>16. CASE /\ X!Report(f, X!CrcResult(got)) /\ xErrors' = (xErrors \/ X!CrcResult(got) # "ok")
            /\ xFile' = X!Closed /\ xPc' = "empties" /\ n >= X!Rem
  <2>1. X!CrcResult(got) = "ok" => X!IsGood(X!Index, f.got)
    BY <1>6, <1>8, <1>16
  <2>2. X!Index' = X!Index + 1 /\ xCur' = xCur + 1 /\ ReportInv' /\ xCur' \in 1..(Len(X!E.statuses) + 1)
    BY <1>1, <1>2, <1>3, <1>16, <2>1, ReportStep DEF X!Report
  <2>3. (~xErrors' => ~xErrors) /\ (~xErrors' => X!IsGood(X!Index, got))
    BY <1>6, <1>16
  <2>4. ~xErrors' /\ f.ask = "extract" /\ ~X!Items[X!Index].anti =>
          \E p \in DiskPath : p[1] = X!Items[X!Index].path /\ X!IsGood(X!Index, xDisk'[p])
    BY <1>8, <1>10, <1>12, <2>3
  <2>5. StoredInv'
    BY <1>2, <1>3, <1>13, <1>16, <2>1, <2>3, <2>4, StoredReport
  <2>6. ControlInv'
    <3>1. xFile' = X!Closed /\ ~xFile'.open
      BY <1>16 DEF X!Closed
    <3> QED
      BY <1>1, <1>2, <1>3, <1>5, <1>12, <1>15, <1>16, <2>2, <3>1, ControlKept DEF InFolder
  <2>7. FileInv'
    BY <1>16 DEF FileInv, X!Closed, X!None
  <2>8. PlaceInv'
    <3>1. xOut'.pos = X!TotalBefore(X!Index) + X!Size(X!Index)
      BY <1>16, <1>18, <1>19
    <3> QED
      BY <1>1, <1>2, <1>3, <1>5, <1>16, <1>19, <2>2, <3>1, PlaceNext
  <2> QED
    BY <1>14, <2>2, <2>5, <2>6, <2>7, <2>8 DEF ExtractInv
<1>17. CASE xFile' = f /\ UNCHANGED <<xPc, xCur, xResults, xErrors>>
  <2>1. ControlInv'
    <3>1. xCur \in 1..(Len(X!E.statuses) + 1) /\ ~(xCur > Len(X!E.statuses))
      BY <1>1, <1>3 DEF ControlInv, X!AtEnd
    <3> QED
      BY <1>1, <1>2, <1>3, <1>5, <1>9, <1>12, <1>15, <1>17, <3>1, ControlKept DEF InFolder
  <2>2. FileInv'
    <3>1. X!Items' = X!Items /\ X!Index' = X!Index /\ \A i : Wanted(i)' <=> Wanted(i)
      BY <1>2, <1>17, SameItems DEF Wanted, X!Index, X!E
    <3> QED
      BY <1>8, <1>10, <1>17, <3>1 DEF FileInv, X!None
  <2>3. ReportInv' /\ StoredInv'
    BY <1>1, <1>2, <1>3, <1>13, <1>17, ReportsKept, StoredKept
  <2>4. PlaceInv'
    <3>1. X!Index' = X!Index
      BY <1>2, <1>17 DEF X!Index, X!E
    <3>2. \A i : X!Size(i)' = X!Size(i) /\ X!TotalBefore(i)' = X!TotalBefore(i)
      BY <1>2, SameItems
    <3>3. \A i, c : FirstBytes(i, c)' <=> FirstBytes(i, c)
      BY <3>2 DEF FirstBytes
    <3>4. xFile'.got = got
      BY <1>8, <1>17
    <3> QED
      BY <1>18, <1>19, <3>1, <3>2, <3>3, <3>4 DEF PlaceInv
  <2> QED
    BY <1>14, <2>1, <2>2, <2>3, <2>4 DEF ExtractInv
<1> QED
  BY <1>2, <1>16, <1>17

LEMMA FlushClosesStep ==
  ASSUME ExtractInv, X!FlushCloses
  PROVE  ExtractInv'
<1>1. ControlInv /\ FileInv /\ SafeInv /\ PlaceInv /\ ReportInv /\ StoredInv
  BY DEF ExtractInv
<1>2. /\ xPc = "flush" /\ ~X!AtEnd /\ xFile.open /\ X!Report(xFile, xFlush) /\ xErrors' = TRUE
      /\ xFile' = X!Closed
      /\ UNCHANGED <<xDisk, xAsked, xEfis, xMode, xPc, xEfi, xOut, xFlush, xAgreed>>
  BY DEF X!FlushCloses
<1>3. xEfi >= 1 /\ xFlush \in {"data", "unsupported"}
  BY <1>1, <1>2, AtWork DEF ControlInv
<1>4. ReportInv' /\ xCur' \in 1..(Len(X!E.statuses) + 1)
  BY <1>1, <1>2, <1>3, ReportStep
<1>5. ControlInv'
  <2>1. X!E.folder # 0 /\ DOMAIN xDisk' = DiskPath /\ xMode' \in X!Modes
    BY <1>1, <1>2, <1>3 DEF ControlInv
  <2>2. ~xFile'.open
    BY <1>2 DEF X!Closed
  <2> QED
    BY <1>1, <1>2, <1>3, <1>4, <2>1, <2>2, ControlKept DEF InFolder
<1>6. FileInv'
  BY <1>2 DEF FileInv, X!Closed, X!None
<1>7. SafeInv'
  <2>1. xFile'.stream = X!None
    BY <1>2 DEF X!Closed
  <2> QED
    BY <1>1, <1>2, <2>1, SafeKept
<1>8. StoredInv'
  BY <1>2 DEF StoredInv
<1>9. PlaceInv'
  BY <1>1, <1>2 DEF PlaceInv, Decoding
<1> QED
  BY <1>4, <1>5, <1>6, <1>7, <1>8, <1>9 DEF ExtractInv

\* The end of the run, a run that is broken off, and a step of another part.
LEMMA EndsSteps ==
  ASSUME ExtractInv, X!Ends \/ X!Fails \/ UNCHANGED X!vars
  PROVE  ExtractInv'
<1>1. ControlInv /\ FileInv /\ SafeInv /\ PlaceInv /\ ReportInv /\ StoredInv
  BY DEF ExtractInv
<1>2. /\ UNCHANGED <<xDisk, xAsked, xEfis, xMode, xEfi, xCur, xFile, xOut, xFlush, xResults, xAgreed>>
      /\ \/ xPc = "folder" /\ xEfi = Len(xEfis) /\ xPc' = "ended" /\ xErrors' = xErrors
         \/ xPc' = "failed" /\ xErrors' = TRUE
         \/ xPc' = xPc /\ xErrors' = xErrors
  BY DEF X!Ends, X!Fails, X!vars
<1>3. X!E' = X!E /\ X!AtEnd' = X!AtEnd /\ X!Index' = X!Index
  BY <1>2 DEF X!E, X!AtEnd, X!Index
<1>4. ControlInv'
  <2>1. AskedOK' /\ EntriesUpTo(xEfis, Len(X!Items))'
    BY <1>1, <1>2, SameEntries
  <2>2. xFile.open => xPc # "folder"
    BY <1>1 DEF ControlInv
  <2>3. CASE xPc = "folder" /\ xEfi = Len(xEfis) /\ xPc' = "ended" /\ xErrors' = xErrors
    BY <1>1, <1>2, <1>3, <2>1, <2>2, <2>3 DEF ControlInv, InFolder, X!Modes, X!Closed, X!None
  <2>4. CASE xPc' = "failed" /\ xErrors' = TRUE
    BY <1>1, <1>2, <1>3, <2>1, <2>4 DEF ControlInv, InFolder, X!Modes, X!Closed, X!None
  <2>5. CASE xPc' = xPc /\ xErrors' = xErrors
    BY <1>1, <1>2, <1>3, <2>1, <2>5 DEF ControlInv, InFolder, X!Modes, X!Closed, X!None
  <2> QED
    BY <1>2, <2>3, <2>4, <2>5
<1>5. FileInv'
  <2>1. X!Items' = X!Items /\ \A i : Wanted(i)' <=> Wanted(i)
    BY <1>2, SameItems DEF Wanted
  <2> QED
    BY <1>1, <1>2, <1>3, <2>1 DEF FileInv, X!None
<1>6. SafeInv' /\ ReportInv'
  BY <1>1, <1>2, SafeKept, ReportsKept
<1>7. StoredInv'
  <2>1. ~xErrors' => ~xErrors
    BY <1>2
  <2> QED
    BY <1>2, <2>1, StoredKept
<1>8. PlaceInv'
  <2>1. OutType(xOut') /\ (Decoding' => Decoding)
    BY <1>1, <1>2 DEF PlaceInv, Decoding
  <2> QED
    BY <1>1, <1>2, <2>1, PlaceKept
<1> QED
  BY <1>4, <1>5, <1>6, <1>7, <1>8 DEF ExtractInv

\* Extraction keeps the invariant.
LEMMA ExtractStep ==
  ASSUME ExtractInv, X!Next \/ UNCHANGED X!vars
  PROVE  ExtractInv'
BY NextFolderStep, EmptyFileStep, EmptyFilesEndStep, DecodeSteps, WriteToFileStep, WriteOpensStep,
   FlushClosesStep, FlushOpensStep, EndsSteps
   DEF X!Next

\* It starts with it.
LEMMA ExtractInitial ==
  ASSUME X!Init
  PROVE  ExtractInv
<1>1. /\ xDisk \in Disks /\ xEfis = X!Entries /\ xPc = "folder" /\ xEfi = 0 /\ xCur = 1
      /\ xFile = X!Closed /\ xFlush = "data" /\ xResults = <<>> /\ xErrors = FALSE /\ xAgreed = {}
  BY DEF X!Init
<1>2. PICK a \in Archives : xAsked \in [arc : {a}, wanted : SUBSET DOMAIN a.items \ {{}},
                                         test : BOOLEAN, checkCrc : BOOLEAN, disk : {xDisk}]
  BY DEF X!Init
<1>3. AskedOK /\ xAsked.disk = xDisk
  BY <1>2 DEF AskedOK, X!Items
<1>4. xMode \in X!Modes
  BY DEF X!Init, X!Modes
<1>5. DOMAIN xDisk = DiskPath
  BY <1>1, ExtractAssumption
<1>6. EntriesUpTo(xEfis, Len(X!Items))
  BY <1>1, <1>3, EntriesAre
<1>7. Len(xEfis) \in Nat
  BY <1>6, LenProperties DEF EntriesUpTo
<1>8. xFile.open = FALSE /\ xFile.stream = X!None
  BY <1>1 DEF X!Closed
<1>9. ControlInv
  <2>1. xEfi \in 0..Len(xEfis) /\ ~(xEfi >= 1)
    BY <1>1, <1>7
  <2> QED
    BY <1>1, <1>3, <1>4, <1>5, <1>6, <1>8, <2>1 DEF ControlInv, InFolder
<1>10. FileInv
  BY <1>8 DEF FileInv
<1>11. SafeInv
  BY <1>3, <1>8, NoneIsNoPath DEF SafeInv, KeptSomewhere
<1>12. ReportInv /\ StoredInv
  <2>1. Listed(xResults) /\ Len(xResults) = 0 /\ 1..Len(xResults) = {}
    <3>1. xResults \in Seq(Nat) /\ Len(xResults) = 0
      BY <1>1
    <3> QED
      BY <3>1 DEF Listed
  <2> QED
    BY <1>1, <2>1 DEF ReportInv, StoredInv
<1>13. PlaceInv
  <2>1. xOut = [pos |-> 0, size |-> 0, wrong |-> FALSE] /\ xPc = "folder"
    BY DEF X!Init
  <2>2. OutType(xOut) /\ ~Decoding
    BY <2>1, OutStarts DEF Decoding
  <2> QED
    BY <2>2 DEF PlaceInv
<1> QED
  BY <1>9, <1>10, <1>11, <1>12, <1>13 DEF ExtractInv

\* The invariant holds in every part.
LEMMA ExtractInvHolds == mcSpec => []ExtractInv
<1>1. mcInit => X!Init
  BY DEF mcInit, NoExtract
<1>2. [mcNext]_mcVars => X!Next \/ UNCHANGED X!vars
  BY DEF mcNext, mcVars, xVars, X!vars
<1>3. mcInit => ExtractInv
  BY <1>1, ExtractInitial
<1>4. ExtractInv /\ [mcNext]_mcVars => ExtractInv'
  BY <1>2, ExtractStep
<1> QED
  BY <1>3, <1>4, PTL DEF mcSpec

\* A file of the user is lost by an extraction only with consent: also when two items
\* have the same path, and when the answer changes the mode on the way.
THEOREM NoFileIsLostUnasked == mcSpec => []NothingLostUnasked
<1>1. ExtractInv => NothingLostUnasked
  <2> SUFFICES ASSUME ExtractInv PROVE X!NothingLostUnasked
    BY DEF NothingLostUnasked
  <2>1. SafeInv
    BY DEF ExtractInv
  <2> QED
    BY <2>1 DEF SafeInv, KeptSomewhere, X!NothingLostUnasked, X!DiskPath, DiskPath
<1> QED
  BY <1>1, ExtractInvHolds, PTL

\* However the decoder cuts its output, and wherever empty items lie, the wanted items
\* are reported once each, in order, and those reported as good got their own part of
\* the folder, with the right contents where there is a CRC and it is tested.
THEOREM ItemsAreReportedOnce == mcSpec => []EachItemReportedOnce
<1>1. ExtractInv => EachItemReportedOnce
  <2> SUFFICES ASSUME ExtractInv PROVE X!EachItemReportedOnce
    BY DEF EachItemReportedOnce
  <2>1. ControlInv /\ ReportInv
    BY DEF ExtractInv
  <2>2. DOMAIN xResults = 1..Len(xResults) /\ Len(xResults) \in Nat
    BY <2>1, DomainListed DEF ReportInv
  <2>3. xEfi \in Nat /\ Len(xEfis) \in Nat
    BY <2>1, AtWork
  <2>4. \A i : Wanted(i) => i \in 1..Len(X!Items) /\ i \in Nat
    BY <2>1, ItemTypes DEF Wanted, ControlInv, AskedOK
  <2>5. ASSUME NEW i \in xAsked.wanted,
               xPc = "ended" \/ \E k \in 1..Len(xResults) : i <= xResults[k].index
        PROVE  \E k \in 1..Len(xResults) : xResults[k].index = i
    <3>1. Wanted(i) /\ i \in 1..Len(X!Items) /\ i \in Nat
      BY <2>4 DEF Wanted
    <3>2. xEfi >= 1 /\ i < X!Index
      <4>1. CASE xPc = "ended"
        <5>1. xEfi = Len(xEfis)
          BY <2>1, <4>1 DEF ControlInv
        <5>2. PICK a \in 1..Len(xEfis) : xEfis[a].start <= i /\ i <= Stop(xEfis[a])
          BY <2>1, <3>1 DEF ControlInv, EntriesUpTo
        <5>3. xEfi >= 1 /\ xEfi \in 1..Len(xEfis)
          BY <2>3, <5>1, <5>2
        <5>4. X!AtEnd
          BY <2>1, <4>1, <5>3 DEF ControlInv
        <5>5. /\ X!Index = X!E.start + xCur - 1 /\ Len(X!E.statuses) \in Nat /\ X!E.start \in Nat
              /\ ~(xCur <= Len(X!E.statuses)) /\ xCur \in 1..(Len(X!E.statuses) + 1)
          BY <2>1, <5>3, <5>4, PresentEntry DEF ControlInv
        <5>6. Stop(X!E) < X!Index /\ Stop(X!E) \in Int /\ X!Index \in Int /\ X!E.start <= Stop(X!E)
          <6>1. Len(X!E.statuses) >= 1
            BY <2>1, <5>3, PresentEntry DEF EntryRight
          <6>2. Stop(X!E) = X!E.start + Len(X!E.statuses) - 1
            BY DEF Stop
          <6>3. PICK l : l = Len(X!E.statuses)
            OBVIOUS
          <6>4. PICK b : b = X!E.start
            OBVIOUS
          <6>5. PICK c : c = xCur
            OBVIOUS
          <6>6. /\ l \in Nat /\ l >= 1 /\ b \in Nat /\ c \in Nat /\ ~(c <= l)
                /\ Stop(X!E) = b + l - 1 /\ X!Index = b + c - 1
            BY <5>5, <6>1, <6>2, <6>3, <6>4, <6>5
          <6> QED
            BY <6>4, <6>6
        <5>7. i <= Stop(X!E)
          <6>1. CASE a = xEfi
            BY <5>2, <6>1 DEF X!E
          <6>2. CASE a < xEfi
            <7>1. Stop(xEfis[a]) < X!E.start
              BY <2>1, <5>3, <6>2 DEF ControlInv, EntriesUpTo, X!E
            <7>2. Stop(xEfis[a]) \in Int
              <8>1. xEfis[a] \in EntryRecord
                BY <2>1, ElementOfSeq DEF ControlInv, EntriesUpTo
              <8>2. xEfis[a].start \in Nat /\ xEfis[a].statuses \in Seq(BOOLEAN)
                BY <8>1 DEF EntryRecord
              <8>3. Len(xEfis[a].statuses) \in Nat
                BY <8>2, LenProperties
              <8> QED
                BY <8>2, <8>3 DEF Stop
            <7> QED
              BY <3>1, <5>2, <5>5, <5>6, <7>1, <7>2
          <6> QED
            BY <2>3, <5>1, <6>1, <6>2
        <5> QED
          BY <3>1, <5>3, <5>6, <5>7
      <4>2. CASE \E k \in 1..Len(xResults) : i <= xResults[k].index
        <5>1. PICK k \in 1..Len(xResults) : i <= xResults[k].index
          BY <4>2
        <5>2. xEfi >= 1
          <6>1. xEfi = 0 => Len(xResults) = 0
            BY <2>1 DEF ControlInv
          <6> QED
            BY <2>2, <2>3, <5>1, <6>1
        <5>3. xResults[k].index < X!Index /\ xResults[k].index \in Nat
          BY <2>1, <5>1, ItemTypes DEF ReportInv, ControlInv
        <5>4. X!Index \in Nat
          BY <2>1, <5>2, PresentEntry
        <5> QED
          BY <3>1, <5>1, <5>2, <5>3, <5>4
      <4> QED
        BY <2>5, <4>1, <4>2
    <3> QED
      BY <2>1, <3>1, <3>2 DEF ReportInv
  <2> QED
    BY <2>1, <2>2, <2>5 DEF ReportInv, X!EachItemReportedOnce
<1> QED
  BY <1>1, ExtractInvHolds, PTL

\* Exit code 0 of an extraction means that each item that was to be written lies on the
\* disk, its own part of the folder and with the right contents where there is a CRC and
\* it is tested, unless another item that was asked for has the same path.
THEOREM SuccessMeansExtracted == mcSpec => []SuccessIsExtracted
<1>1. ExtractInv => SuccessIsExtracted
  <2> SUFFICES ASSUME ExtractInv PROVE X!SuccessIsExtracted
    BY DEF SuccessIsExtracted
  <2>1. DOMAIN xResults = 1..Len(xResults)
    BY DomainListed DEF ExtractInv, ReportInv
  <2> QED
    BY <2>1 DEF ExtractInv, StoredInv, HasOwnPath, IsStored, X!SuccessIsExtracted,
                X!DiskPath, DiskPath
<1> QED
  BY <1>1, ExtractInvHolds, PTL

-----------------------------------------------------------------------------
(* Volumes: where each of them is                                           *)

\* The sum of the sizes before a volume.
LEMMA SumIs ==
  ASSUME NEW i \in Nat \ {0}, NEW s, NEW t, IsSum(t, s, i - 1)
  PROVE  V!SumBefore(s, i) = t[i - 1]
<1> DEFINE n == i - 1
           Tables(f) == f = [j \in 0..(i - 1) |-> IF j = 0 THEN 0 ELSE f[j - 1] + s[j]]
           sum == CHOOSE f : Tables(f)
<1>1. n \in Nat
  OBVIOUS
<1>2. V!SumBefore(s, i) = sum[n]
  BY DEF V!SumBefore
<1>3. Tables(t)
  <2>1. t \in [0..n -> Nat] /\ t[0] = 0 /\ \A j \in 1..n : t[j] = t[j - 1] + s[j]
    BY DEF IsSum
  <2>2. \A j \in 0..n : j = 0 \/ j \in 1..n
    BY <1>1
  <2> QED
    BY <2>1, <2>2
<1>4. Tables(sum)
  <2> HIDE DEF Tables
  <2> QED
    BY <1>3
<1>5. sum[0] = 0 /\ \A j \in 1..n : sum[j] = sum[j - 1] + s[j]
  <2> HIDE DEF sum
  <2>1. \A j \in 0..n : sum[j] = IF j = 0 THEN 0 ELSE sum[j - 1] + s[j]
    BY <1>4, Zenon
  <2>2. 0 \in 0..n /\ \A j \in 1..n : j \in 0..n /\ j # 0
    BY <1>1
  <2> QED
    BY <2>1, <2>2
<1> HIDE DEF sum, n
<1> DEFINE S == {k \in Nat : k <= n => sum[k] = t[k]}
<1>6. 0 \in S
  BY <1>5 DEF IsSum
<1>7. ASSUME NEW k \in Nat, k \in S PROVE k + 1 \in S
  <2> SUFFICES ASSUME k + 1 <= n PROVE sum[k + 1] = t[k + 1]
    OBVIOUS
  <2>1. k + 1 \in 1..n /\ (k + 1) - 1 = k /\ sum[k] = t[k]
    BY <1>1, <1>7
  <2>2. t[k + 1] = t[k] + s[k + 1]
    BY <2>1 DEF IsSum, n
  <2>3. sum[k + 1] = sum[k] + s[k + 1]
    BY <1>5, <2>1
  <2> QED
    BY <2>1, <2>2, <2>3
<1>8. \A k \in Nat : k \in S
  <2> HIDE DEF S
  <2> QED
    BY <1>6, <1>7, NatInd
<1> QED
  BY <1>1, <1>2, <1>8 DEF n

\* A volume takes bytes.
LEMMA VolSizeIs ==
  ASSUME NEW i \in Nat \ {0}
  PROVE  V!VolSize(i) \in Nat \ {0}
<1>1. Sizes \in Seq(Nat \ {0}) /\ Sizes # <<>>
  BY OutStreamAssumption
<1>2. Len(Sizes) \in Nat \ {0}
  BY <1>1
<1>3. V!MinOf(i, Len(Sizes)) \in 1..Len(Sizes)
  BY <1>2 DEF V!MinOf
<1> QED
  BY <1>1, <1>3, ElementOfSeq DEF V!VolSize

\* The volumes lie one behind the other.
LEMMA PlaceIs ==
  /\ V!PlaceOf(1) = 0
  /\ \A i \in Nat \ {0} : /\ V!PlaceOf(i) \in Nat /\ V!VolSize(i) \in Nat /\ V!VolSize(i) > 0
                          /\ V!PlaceOf(i + 1) = V!PlaceOf(i) + V!VolSize(i)
<1> DEFINE s(n) == [j \in 1..n |-> V!VolSize(j)]
<1>0. \A i \in Nat \ {0} : V!VolSize(i) \in Nat /\ V!VolSize(i) > 0
  BY VolSizeIs
<1>1. \A n \in Nat : s(n) \in [1..n -> Nat]
  BY <1>0
<1>2. ASSUME NEW i \in Nat \ {0}
      PROVE  /\ V!PlaceOf(i) \in Nat
             /\ V!PlaceOf(i + 1) = V!PlaceOf(i) + V!VolSize(i)
  <2>1. PICK t : IsSum(t, s(i), i)
    <3> HIDE DEF s
    <3> QED
      BY <1>1, SumExists
  <2> DEFINE r == [j \in 0..(i - 1) |-> t[j]]
  <2>2. IsSum(r, s(i - 1), i - 1)
    BY <2>1 DEF IsSum
  <2>3. V!PlaceOf(i) = r[i - 1]
    <3> HIDE DEF s, r
    <3>1. V!SumBefore(s(i - 1), i) = r[i - 1]
      BY <2>2, SumIs
    <3> QED
      BY <3>1 DEF V!PlaceOf, s
  <2>4. V!PlaceOf(i + 1) = t[i]
    <3>0. PICK m : m = i + 1
      OBVIOUS
    <3>1. m - 1 = i /\ m \in Nat \ {0}
      BY <3>0
    <3> HIDE DEF s
    <3>2. V!SumBefore(s(i), m) = t[i]
      BY <2>1, <3>1, SumIs
    <3>3. V!PlaceOf(m) = V!SumBefore(s(m - 1), m)
      BY DEF V!PlaceOf, s
    <3> QED
      BY <3>0, <3>1, <3>2, <3>3
  <2>5. t[i] = t[i - 1] + s(i)[i] /\ t[i - 1] \in Nat
    BY <2>1 DEF IsSum
  <2>6. s(i)[i] = V!VolSize(i) /\ r[i - 1] = t[i - 1]
    OBVIOUS
  <2> HIDE DEF s, r
  <2> QED
    BY <2>3, <2>4, <2>5, <2>6
<1>3. V!PlaceOf(1) = 0
  <2> DEFINE t == [j \in 0..0 |-> 0]
  <2>1. IsSum(t, s(0), 1 - 1)
    BY DEF IsSum
  <2>2. V!SumBefore(s(0), 1) = t[1 - 1]
    <3> HIDE DEF t, s
    <3> QED
      BY <2>1, SumIs
  <2>3. V!PlaceOf(1) = V!SumBefore(s(1 - 1), 1) /\ 1 - 1 = 0
    BY DEF V!PlaceOf
  <2> QED
    BY <2>2, <2>3
<1> QED
  BY <1>0, <1>2, <1>3

LEMMA PlacesGrow ==
  ASSUME NEW i \in Nat \ {0}, NEW j \in Nat \ {0}, i < j
  PROVE  V!PlaceOf(i) + V!VolSize(i) <= V!PlaceOf(j)
<1> DEFINE S == {k \in Nat : V!PlaceOf(i + 1) <= V!PlaceOf(i + 1 + k)}
<1>1. 0 \in S
  BY PlaceIs
<1>2. ASSUME NEW k \in Nat, k \in S PROVE k + 1 \in S
  <2>1. PICK m : m = i + 1 + k
    OBVIOUS
  <2>2. m \in Nat \ {0} /\ i + 1 + (k + 1) = m + 1 /\ i + 1 \in Nat \ {0}
    BY <2>1
  <2>3. V!PlaceOf(m + 1) = V!PlaceOf(m) + V!VolSize(m) /\ V!PlaceOf(m) \in Nat /\ V!VolSize(m) \in Nat
        /\ V!PlaceOf(i + 1) \in Nat
    BY <2>2, PlaceIs
  <2>4. V!PlaceOf(i + 1) <= V!PlaceOf(m)
    BY <1>2, <2>1
  <2>5. V!PlaceOf(i + 1) <= V!PlaceOf(m + 1)
    BY <2>3, <2>4
  <2> QED
    BY <2>2, <2>5
<1>3. \A k \in Nat : k \in S
  <2> HIDE DEF S
  <2> QED
    BY <1>1, <1>2, NatInd
<1>4. PICK k \in Nat : j = i + 1 + k
  <2>1. j - i - 1 \in Nat /\ j = i + 1 + (j - i - 1)
    OBVIOUS
  <2> QED
    BY <2>1
<1>5. V!PlaceOf(i + 1) <= V!PlaceOf(j)
  BY <1>3, <1>4
<1> QED
  BY <1>5, PlaceIs

\* Position k of the file is in volume i.
In(k, i) == k - V!PlaceOf(i) \in 1..V!VolSize(i)

\* Each position is in one volume.
LEMMA VolumeExists ==
  ASSUME NEW k \in Nat \ {0}
  PROVE  \E i \in Nat \ {0} : In(k, i)
<1> DEFINE S == {n \in Nat : \E i \in Nat \ {0} : In(n + 1, i)}
<1>1. 0 \in S
  <2>1. In(0 + 1, 1)
    BY PlaceIs DEF In
  <2> QED
    BY <2>1
<1>2. ASSUME NEW n \in Nat, n \in S PROVE n + 1 \in S
  <2>1. PICK i \in Nat \ {0} : In(n + 1, i)
    BY <1>2
  <2>2. PICK j \in Nat \ {0} : j = i + 1
    OBVIOUS
  <2>3. /\ V!PlaceOf(i) \in Nat /\ V!VolSize(i) \in Nat /\ V!VolSize(j) \in Nat /\ V!VolSize(j) > 0
        /\ V!PlaceOf(j) = V!PlaceOf(i) + V!VolSize(i)
    BY <2>2, PlaceIs
  <2>4. In(n + 1 + 1, i) \/ In(n + 1 + 1, j)
    BY <2>1, <2>3 DEF In
  <2> QED
    BY <2>4
<1>3. \A n \in Nat : n \in S
  <2> HIDE DEF S
  <2> QED
    BY <1>1, <1>2, NatInd
<1>4. PICK n \in Nat : k = n + 1
  <2>1. k - 1 \in Nat /\ k = (k - 1) + 1
    OBVIOUS
  <2> QED
    BY <2>1
<1> QED
  BY <1>3, <1>4

LEMMA VolumeIsUnique ==
  ASSUME NEW k \in Int, NEW i \in Nat \ {0}, NEW j \in Nat \ {0}, In(k, i), In(k, j)
  PROVE  i = j
<1>1. /\ V!PlaceOf(i) \in Nat /\ V!VolSize(i) \in Nat /\ V!PlaceOf(j) \in Nat /\ V!VolSize(j) \in Nat
  BY PlaceIs
<1>2. CASE i < j
  BY <1>1, <1>2, PlacesGrow DEF In
<1>3. CASE j < i
  BY <1>1, <1>3, PlacesGrow DEF In
<1> QED
  BY <1>2, <1>3

-----------------------------------------------------------------------------
(* Volumes: the file they hold                                              *)

VolRecord == [bytes : Seq(Byte), pos : Nat, realSize : Nat]

\* Volumes that have their size on record and are not too long.
VolsRight(w) ==
  /\ w \in Seq(VolRecord)
  /\ \A i \in 1..Len(w) : w[i].realSize = Len(w[i].bytes) /\ Len(w[i].bytes) <= V!VolSize(i)

\* Where the last byte of volume i is; the end of the file.
EndOf(w, i) == V!PlaceOf(i) + Len(w[i].bytes)
EndsAt(w, l) ==
  /\ l \in Nat
  /\ \A i \in 1..Len(w) : Len(w[i].bytes) > 0 => EndOf(w, i) <= l
  /\ l = 0 \/ \E i \in 1..Len(w) : Len(w[i].bytes) > 0 /\ EndOf(w, i) = l

\* Byte k of the file, in volume i.
ByteIn(w, i, k) ==
  IF k - V!PlaceOf(i) <= Len(w[i].bytes) THEN w[i].bytes[k - V!PlaceOf(i)] ELSE Zero

LEMMA VolTypes ==
  ASSUME NEW w, VolsRight(w)
  PROVE  /\ Len(w) \in Nat /\ DOMAIN w = 1..Len(w)
         /\ \A i \in 1..Len(w) :
              /\ w[i] \in VolRecord /\ w[i].bytes \in Seq(Byte) /\ Len(w[i].bytes) \in Nat
              /\ w[i].realSize = Len(w[i].bytes) /\ Len(w[i].bytes) <= V!VolSize(i)
              /\ i \in Nat \ {0} /\ V!PlaceOf(i) \in Nat /\ V!VolSize(i) \in Nat /\ V!VolSize(i) > 0
              /\ EndOf(w, i) \in Nat
<1>1. w \in Seq(VolRecord) /\ Len(w) \in Nat /\ DOMAIN w = 1..Len(w)
  BY LenProperties DEF VolsRight
<1>2. ASSUME NEW i \in 1..Len(w)
      PROVE  /\ w[i] \in VolRecord /\ w[i].bytes \in Seq(Byte) /\ Len(w[i].bytes) \in Nat
             /\ i \in Nat \ {0} /\ V!PlaceOf(i) \in Nat /\ V!VolSize(i) \in Nat /\ V!VolSize(i) > 0
             /\ EndOf(w, i) \in Nat
  <2>1. w[i] \in VolRecord
    BY <1>1, ElementOfSeq
  <2>2. w[i].bytes \in Seq(Byte)
    BY <2>1 DEF VolRecord
  <2>3. Len(w[i].bytes) \in Nat
    BY <2>2, LenProperties
  <2>4. i \in Nat \ {0}
    BY <1>1
  <2>5. V!PlaceOf(i) \in Nat /\ V!VolSize(i) \in Nat /\ V!VolSize(i) > 0
    BY <2>4, PlaceIs
  <2> QED
    BY <2>1, <2>2, <2>3, <2>4, <2>5 DEF EndOf
<1> QED
  BY <1>1, <1>2 DEF VolsRight

LEMMA EndExists ==
  ASSUME NEW w, VolsRight(w)
  PROVE  \E l : EndsAt(w, l)
<1> DEFINE Ends(n, l) ==
             /\ l \in Nat
             /\ \A i \in 1..n : Len(w[i].bytes) > 0 => EndOf(w, i) <= l
             /\ l = 0 \/ \E i \in 1..n : Len(w[i].bytes) > 0 /\ EndOf(w, i) = l
           S == {n \in Nat : n <= Len(w) => \E l : Ends(n, l)}
<1>1. 0 \in S
  <2>1. Ends(0, 0)
    OBVIOUS
  <2> QED
    BY <2>1
<1>2. ASSUME NEW n \in Nat, n \in S PROVE n + 1 \in S
  <2> SUFFICES ASSUME n + 1 <= Len(w) PROVE \E l : Ends(n + 1, l)
    OBVIOUS
  <2>1. n + 1 \in 1..Len(w) /\ n <= Len(w)
    BY VolTypes
  <2>2. PICK l : Ends(n, l)
    BY <1>2, <2>1
  <2>3. PICK m : m = n + 1
    OBVIOUS
  <2>4. m \in 1..Len(w) /\ m \in 1..m /\ \A i \in 1..m : i = m \/ i \in 1..n
    BY <2>1, <2>3
  <2>5. EndOf(w, m) \in Nat /\ Len(w[m].bytes) \in Nat /\ \A i \in 1..n : EndOf(w, i) \in Nat
    <3>1. \A i \in 1..n : i \in 1..Len(w)
      BY <2>1, VolTypes
    <3> QED
      BY <2>4, <3>1, VolTypes
  <2>6. CASE Len(w[m].bytes) > 0 /\ EndOf(w, m) > l
    <3> DEFINE e == EndOf(w, m)
    <3>0. e \in Nat /\ e > l /\ l \in Nat
      BY <2>2, <2>5, <2>6
    <3>2. ASSUME NEW i \in 1..m, Len(w[i].bytes) > 0 PROVE EndOf(w, i) <= e
      <4>1. CASE i = m
        BY <3>0, <4>1
      <4>2. CASE i \in 1..n
        <5>1. EndOf(w, i) <= l /\ EndOf(w, i) \in Nat
          BY <2>2, <2>5, <3>2, <4>2
        <5> HIDE DEF e
        <5> QED
          BY <3>0, <5>1
      <4> QED
        BY <2>4, <4>1, <4>2
    <3>1. Ends(m, e)
      BY <2>4, <2>6, <3>0, <3>2
    <3> QED
      BY <2>3, <3>1
  <2>7. CASE ~(Len(w[m].bytes) > 0 /\ EndOf(w, m) > l)
    <3>1. \A i \in 1..n : i \in 1..m
      BY <2>3
    <3>3. ASSUME NEW i \in 1..m, Len(w[i].bytes) > 0 PROVE EndOf(w, i) <= l
      <4>1. CASE i = m
        BY <2>2, <2>5, <2>7, <3>3, <4>1
      <4>2. CASE i \in 1..n
        BY <2>2, <3>3, <4>2
      <4> QED
        BY <2>4, <4>1, <4>2
    <3>4. l = 0 \/ \E i \in 1..m : Len(w[i].bytes) > 0 /\ EndOf(w, i) = l
      BY <2>2, <3>1
    <3>2. Ends(m, l)
      BY <2>2, <3>3, <3>4
    <3> QED
      BY <2>3, <3>2
  <2> QED
    BY <2>6, <2>7
<1>3. \A n \in Nat : n \in S
  <2> HIDE DEF S
  <2> QED
    BY <1>1, <1>2, NatInd
<1>4. \E l : Ends(Len(w), l)
  <2>1. Len(w) \in S /\ Len(w) <= Len(w)
    <3>1. Len(w) \in Nat
      BY VolTypes
    <3> HIDE DEF S
    <3> QED
      BY <1>3, <3>1
  <2> QED
    BY <2>1
<1> QED
  BY <1>4 DEF EndsAt

\* The file has the bytes of the volumes, each volume at its place.
FileRight(w, l) ==
  /\ V!FileIn(w) \in Seq(Byte) /\ Len(V!FileIn(w)) = l
  /\ \A k \in 1..l : \E i \in 1..Len(w) : In(k, i)
  /\ \A k \in 1..l : \A i \in 1..Len(w) : In(k, i) => V!FileIn(w)[k] = ByteIn(w, i, k)

LEMMA FileIs ==
  ASSUME NEW w, VolsRight(w), NEW l, EndsAt(w, l)
  PROVE  FileRight(w, l)
<1> DEFINE ends == {0} \cup {V!PlaceOf(i) + Len(w[i].bytes) : i \in {j \in DOMAIN w : w[j].bytes # <<>>}}
           IsEnd(m) == \A e \in ends : e <= m
           size == CHOOSE m \in ends : IsEnd(m)
           vol(k) == CHOOSE i \in DOMAIN w : k - V!PlaceOf(i) \in 1..V!VolSize(i)
           byte(k) == IF k - V!PlaceOf(vol(k)) <= Len(w[vol(k)].bytes)
                      THEN w[vol(k)].bytes[k - V!PlaceOf(vol(k))] ELSE Zero
           f == V!FileIn(w)
<1>1. f = [k \in 1..size |-> byte(k)]
  BY DEF V!FileIn
<1>2. l \in Nat /\ Len(w) \in Nat /\ DOMAIN w = 1..Len(w)
  BY VolTypes DEF EndsAt
<1>3. \A i \in 1..Len(w) : w[i].bytes # <<>> <=> Len(w[i].bytes) > 0
  <2>1. \A i \in 1..Len(w) : w[i].bytes \in Seq(Byte)
    BY VolTypes
  <2>2. \A b \in Seq(Byte) : b # <<>> <=> Len(b) > 0
    BY EmptySeq, LenProperties
  <2> QED
    BY <2>1, <2>2
<1>4. l \in ends /\ IsEnd(l)
  <2>1. \A e \in ends : e = 0 \/ \E i \in 1..Len(w) : Len(w[i].bytes) > 0 /\ e = EndOf(w, i)
    BY <1>2, <1>3 DEF EndOf
  <2>2. \A i \in 1..Len(w) : Len(w[i].bytes) > 0 => EndOf(w, i) \in ends
    BY <1>2, <1>3 DEF EndOf
  <2>3. 0 \in ends
    OBVIOUS
  <2> HIDE DEF ends
  <2> QED
    BY <1>2, <2>1, <2>2, <2>3 DEF EndsAt
<1>5. ends \subseteq Nat
  BY <1>2, VolTypes
<1>6. size = l
  <2>1. size \in ends /\ IsEnd(size)
    <3> HIDE DEF ends, IsEnd
    <3> QED
      BY <1>4
  <2>2. size <= l /\ l <= size /\ size \in Nat
    <3> HIDE DEF ends, size
    <3> QED
      BY <1>4, <1>5, <2>1
  <2> HIDE DEF size
  <2> QED
    BY <1>2, <2>2
<1> HIDE DEF f, size, ends
<1>7. ASSUME NEW k \in 1..l
      PROVE  /\ \E i \in 1..Len(w) : In(k, i)
             /\ \A i \in 1..Len(w) : In(k, i) => byte(k) = ByteIn(w, i, k)
             /\ byte(k) \in Byte
  <2>1. PICK m \in 1..Len(w) : Len(w[m].bytes) > 0 /\ EndOf(w, m) = l
    BY <1>2 DEF EndsAt
  <2>2. PICK j \in Nat \ {0} : In(k, j)
    BY SMTT(30), VolumeExists
  <2>3. j <= m
    <3> SUFFICES ASSUME m < j PROVE FALSE
      BY <1>2
    <3>1. m \in Nat \ {0} /\ V!PlaceOf(m) + V!VolSize(m) <= V!PlaceOf(j)
      BY <1>2, PlacesGrow
    <3>2. /\ Len(w[m].bytes) <= V!VolSize(m) /\ V!VolSize(m) \in Nat /\ Len(w[m].bytes) \in Nat
          /\ V!PlaceOf(m) \in Nat /\ V!PlaceOf(j) \in Nat /\ V!VolSize(j) \in Nat
      BY VolTypes, PlaceIs
    <3> QED
      BY <1>2, <2>1, <2>2, <3>1, <3>2 DEF In, EndOf
  <2>4. j \in 1..Len(w)
    BY <1>2, <2>3
  <2>5. vol(k) \in DOMAIN w /\ In(k, vol(k))
    BY <1>2, <2>2, <2>4 DEF In
  <2> HIDE DEF vol
  <2>6. ASSUME NEW i \in 1..Len(w), In(k, i) PROVE byte(k) = ByteIn(w, i, k)
    <3>1. i = vol(k)
      BY <1>2, <2>5, <2>6, VolumeIsUnique
    <3> QED
      BY <3>1 DEF ByteIn
  <2>7. byte(k) \in Byte
    <3>1. ByteIn(w, j, k) \in Byte
      <4>1. /\ w[j].bytes \in Seq(Byte) /\ Len(w[j].bytes) \in Nat
            /\ V!PlaceOf(j) \in Nat /\ Zero \in Byte
        BY <2>4, VolTypes, OutStreamAssumption
      <4> QED
        BY <1>2, <2>2, <4>1, ElementOfSeq DEF ByteIn, In
    <3> HIDE DEF byte
    <3> QED
      BY <2>2, <2>4, <2>6, <3>1
  <2> QED
    BY <2>2, <2>4, <2>6, <2>7
<1> HIDE DEF byte
<1>8. f \in [1..l -> Byte]
  BY <1>1, <1>6, <1>7
<1>9. f \in Seq(Byte) /\ Len(f) = l
  BY <1>2, <1>8, FunctionIsSeq
<1>10. \A k \in 1..l : f[k] = byte(k)
  BY <1>1, <1>6
<1> QED
  BY <1>7, <1>9, <1>10 DEF FileRight, f

\* Where bytes of the file are missing, they are among those that were left out.
Covered(w, l, S) ==
  \A i \in 1..Len(w) : \A k \in 1..l :
    In(k, i) /\ k - V!PlaceOf(i) > Len(w[i].bytes) => k - 1 \in S

\* f has l bytes, those of the volumes.
SameBytes(w, l, f) ==
  /\ f \in Seq(Byte) /\ Len(f) = l
  /\ \A k \in 1..l : \A i \in 1..Len(w) : In(k, i) => f[k] = ByteIn(w, i, k)

HasFile(w, f) == V!FileIn(w) = f

LEMMA SameVolumes ==
  ASSUME NEW w, NEW l, FileRight(w, l), NEW f, SameBytes(w, l, f)
  PROVE  HasFile(w, f)
<1>1. PICK g : g = V!FileIn(w)
  OBVIOUS
<1>2. /\ g \in Seq(Byte) /\ Len(g) = l /\ f \in Seq(Byte) /\ Len(f) = l
      /\ \A k \in 1..l : g[k] = f[k]
  BY <1>1 DEF FileRight, SameBytes
<1>3. g = f
  BY <1>2, SeqEqual
<1> QED
  BY <1>1, <1>3 DEF HasFile

\* An empty volume is added.
Created(w, u) ==
  /\ u \in Seq(VolRecord) /\ Len(u) = Len(w) + 1
  /\ \A i \in 1..Len(w) : u[i] = w[i]
  /\ \A i \in 1..Len(u) : i > Len(w) => u[i].bytes = <<>> /\ u[i].realSize = 0

LEMMA CreatedFile ==
  ASSUME NEW w, VolsRight(w), NEW l, EndsAt(w, l), NEW u, Created(w, u)
  PROVE  /\ VolsRight(u) /\ EndsAt(u, l) /\ V!FileIn(u) = V!FileIn(w)
         /\ \A S : Covered(w, l, S) => Covered(u, l, S)
<1>1. PICK n, m : n = Len(w) /\ m = Len(u)
  OBVIOUS
<1>2. n \in Nat /\ l \in Nat /\ m = n + 1 /\ \A i \in 1..m : i \in 1..n \/ (i > n /\ i \in Nat \ {0})
  BY <1>1, VolTypes DEF EndsAt, Created
<1>3. /\ u \in Seq(VolRecord) /\ \A i \in 1..n : u[i] = w[i] /\ i \in 1..m
      /\ \A i \in 1..m : i > n => u[i].bytes = <<>> /\ u[i].realSize = 0 /\ Len(u[i].bytes) = 0
  BY <1>1, <1>2, EmptySeq DEF Created
<1>4. VolsRight(u)
  <2>1. ASSUME NEW i \in 1..m
        PROVE  u[i].realSize = Len(u[i].bytes) /\ Len(u[i].bytes) <= V!VolSize(i)
    <3>1. CASE i \in 1..n
      BY <1>1, <1>3, <3>1 DEF VolsRight
    <3>2. CASE i > n /\ i \in Nat \ {0}
      <4>1. V!VolSize(i) \in Nat
        BY <3>2, PlaceIs
      <4> QED
        BY <1>3, <3>2, <4>1
    <3> QED
      BY <1>2, <3>1, <3>2
  <2> QED
    BY <1>1, <1>3, <2>1 DEF VolsRight
<1>5. EndsAt(u, l)
  <2>1. ASSUME NEW i \in 1..m, Len(u[i].bytes) > 0
        PROVE  EndOf(u, i) <= l
    <3>1. i \in 1..n
      BY <1>2, <1>3, <2>1
    <3> QED
      BY <1>1, <1>3, <2>1, <3>1 DEF EndsAt, EndOf
  <2>2. l = 0 \/ \E i \in 1..m : Len(u[i].bytes) > 0 /\ EndOf(u, i) = l
    <3> SUFFICES ASSUME l # 0 PROVE \E i \in 1..m : Len(u[i].bytes) > 0 /\ EndOf(u, i) = l
      OBVIOUS
    <3>1. PICK i \in 1..n : Len(w[i].bytes) > 0 /\ EndOf(w, i) = l
      BY <1>1 DEF EndsAt
    <3>2. i \in 1..m /\ u[i] = w[i]
      BY <1>3
    <3> QED
      BY <3>1, <3>2 DEF EndOf
  <2> QED
    BY <1>1, <1>2, <2>1, <2>2 DEF EndsAt
<1>6. FileRight(w, l) /\ FileRight(u, l)
  BY <1>4, <1>5, FileIs
<1>7. ASSUME NEW k \in 1..l, NEW i \in 1..m, In(k, i) PROVE i \in 1..n
  <2>1. PICK j \in 1..n : In(k, j)
    BY <1>1, <1>6 DEF FileRight
  <2>2. i \in Nat \ {0} /\ j \in Nat \ {0} /\ k \in Int
    BY <1>2
  <2>3. i = j
    BY <1>7, <2>1, <2>2, VolumeIsUnique
  <2> QED
    BY <2>1, <2>3
<1>8. V!FileIn(u) = V!FileIn(w)
  <2>1. ASSUME NEW k \in 1..l, NEW i \in 1..m, In(k, i)
        PROVE  V!FileIn(w)[k] = ByteIn(u, i, k)
    <3>1. i \in 1..n /\ u[i] = w[i]
      BY <1>3, <1>7, <2>1
    <3>2. V!FileIn(w)[k] = ByteIn(w, i, k)
      BY <1>1, <1>6, <2>1, <3>1 DEF FileRight
    <3> QED
      BY <3>1, <3>2 DEF ByteIn
  <2>2. SameBytes(u, l, V!FileIn(w))
    BY <1>1, <1>6, <2>1 DEF FileRight, SameBytes
  <2> QED
    BY <1>2, <1>6, <2>2, SameVolumes DEF HasFile
<1>9. ASSUME NEW S, Covered(w, l, S) PROVE Covered(u, l, S)
  <2> SUFFICES ASSUME NEW i \in 1..m, NEW k \in 1..l, In(k, i), k - V!PlaceOf(i) > Len(u[i].bytes)
               PROVE  k - 1 \in S
    BY <1>1 DEF Covered
  <2>1. i \in 1..n /\ u[i] = w[i]
    BY <1>3, <1>7
  <2> QED
    BY <1>1, <1>9, <2>1 DEF Covered
<1> QED
  BY <1>4, <1>5, <1>8, <1>9

\* Bytes d are written at off in volume s.
Rewritten(w, u, s, off, d) ==
  /\ u \in Seq(VolRecord) /\ Len(u) = Len(w)
  /\ \A i \in 1..Len(w) : i # s => u[i] = w[i]
  /\ Overwritten(u[s].bytes, Byte, w[s].bytes, off, d)
  /\ u[s].realSize = Len(u[s].bytes)
\* There is room for them.
HasRoom(w, s, off, d) ==
  /\ s \in 1..Len(w) /\ off \in Nat /\ d \in Seq(Byte) /\ Len(d) > 0
  /\ off + Len(d) <= V!VolSize(s)

\* q bytes in the volume before and r after, at base in the file.
WriteSizes(w, u, l, s, off, m, base, q, r) ==
  /\ l \in Nat /\ m \in Nat /\ m > 0 /\ off \in Nat /\ q \in Nat /\ r \in Nat
  /\ base \in Nat /\ s \in Nat \ {0}
  /\ base = V!PlaceOf(s) /\ q = Len(w[s].bytes) /\ r = Len(u[s].bytes)
  /\ q <= V!VolSize(s) /\ r <= V!VolSize(s) /\ off + m <= V!VolSize(s) /\ V!VolSize(s) \in Nat
  /\ r >= q /\ r >= off + m /\ (r = q \/ r = off + m)
  /\ q > 0 => base + q <= l

LEMMA WriteSizesAre ==
  ASSUME NEW w, VolsRight(w), NEW l, EndsAt(w, l), NEW s, NEW off, NEW d, HasRoom(w, s, off, d),
         NEW u, Rewritten(w, u, s, off, d)
  PROVE  WriteSizes(w, u, l, s, off, Len(d), V!PlaceOf(s), Len(w[s].bytes), Len(u[s].bytes))
<1>1. PICK m, q, r, v, base : /\ m = Len(d) /\ q = Len(w[s].bytes) /\ r = Len(u[s].bytes)
                               /\ v = V!VolSize(s) /\ base = V!PlaceOf(s)
  OBVIOUS
<1>2. l \in Nat /\ m \in Nat /\ m > 0 /\ off \in Nat /\ off + m <= v /\ s \in 1..Len(w)
  BY <1>1, LenProperties DEF EndsAt, HasRoom
<1>3. q \in Nat /\ base \in Nat /\ s \in Nat \ {0} /\ q <= v /\ v \in Nat
  BY <1>1, <1>2, VolTypes
<1>4. r = IF q < off + m THEN off + m ELSE q
  BY <1>1 DEF Rewritten, Overwritten
<1>5. q > 0 => base + q <= l
  BY <1>1, <1>2 DEF EndsAt, EndOf
<1>6. r \in Nat /\ r >= q /\ r >= off + m /\ (r = q \/ r = off + m) /\ r <= v
  BY <1>2, <1>3, <1>4
<1> QED
  BY <1>1, <1>2, <1>3, <1>5, <1>6 DEF WriteSizes

LEMMA WriteKeepsRight ==
  ASSUME NEW w, VolsRight(w), NEW l, EndsAt(w, l), NEW s, NEW off, NEW d, HasRoom(w, s, off, d),
         NEW u, Rewritten(w, u, s, off, d)
  PROVE  VolsRight(u)
<1>1. PICK n : n = Len(w)
  OBVIOUS
<1>2. u \in Seq(VolRecord) /\ Len(u) = n /\ \A i \in 1..n : i # s => u[i] = w[i]
  BY <1>1 DEF Rewritten
<1>3. u[s].realSize = Len(u[s].bytes) /\ Len(u[s].bytes) <= V!VolSize(s)
  BY WriteSizesAre DEF WriteSizes, Rewritten
<1>4. ASSUME NEW i \in 1..n
      PROVE  u[i].realSize = Len(u[i].bytes) /\ Len(u[i].bytes) <= V!VolSize(i)
  <2>1. CASE i # s
    BY <1>1, <1>2, <2>1 DEF VolsRight
  <2>2. CASE i = s
    BY <1>3, <2>2
  <2> QED
    BY <2>1, <2>2
<1> QED
  BY <1>2, <1>4 DEF VolsRight

\* The end of the file after a write of m bytes at position a.
LEMMA WriteEnds ==
  ASSUME NEW w, VolsRight(w), NEW l, EndsAt(w, l), NEW s, NEW off, NEW d, HasRoom(w, s, off, d),
         NEW u, Rewritten(w, u, s, off, d),
         NEW top, top = IF l < V!PlaceOf(s) + off + Len(d) THEN V!PlaceOf(s) + off + Len(d) ELSE l
  PROVE  EndsAt(u, top)
<1>1. PICK n, m, base, q, r : /\ n = Len(w) /\ m = Len(d) /\ base = V!PlaceOf(s)
                               /\ q = Len(w[s].bytes) /\ r = Len(u[s].bytes)
  OBVIOUS
<1>2. WriteSizes(w, u, l, s, off, m, base, q, r)
  BY <1>1, WriteSizesAre
<1>3. /\ n \in Nat /\ s \in 1..n /\ Len(u) = n /\ \A i \in 1..n : i # s => u[i] = w[i]
  BY <1>1, VolTypes DEF Rewritten, HasRoom
<1>4. /\ l \in Nat /\ m \in Nat /\ m > 0 /\ off \in Nat /\ q \in Nat /\ r \in Nat /\ base \in Nat
      /\ r >= q /\ r >= off + m /\ (r = q \/ r = off + m) /\ (q > 0 => base + q <= l)
  BY <1>2 DEF WriteSizes
<1>5. top = IF l < base + off + m THEN base + off + m ELSE l
  BY <1>1
<1>6. /\ top \in Nat /\ top >= l /\ base + r <= top /\ r > 0
      /\ top = l \/ top = base + r
      /\ top = l => l > 0 /\ (base + q = l /\ q > 0 => base + r = l)
  BY <1>4, <1>5
<1>7. EndOf(u, s) = base + r
  BY <1>1 DEF EndOf
<1>8. ASSUME NEW i \in 1..n, Len(u[i].bytes) > 0 PROVE EndOf(u, i) <= top
  <2>1. CASE i # s
    <3>1. EndOf(u, i) = EndOf(w, i) /\ Len(w[i].bytes) > 0
      BY <1>3, <1>8, <2>1 DEF EndOf
    <3>2. EndOf(w, i) <= l /\ EndOf(w, i) \in Nat
      BY <1>1, <3>1, VolTypes DEF EndsAt
    <3> QED
      BY <1>4, <1>6, <3>1, <3>2
  <2>2. CASE i = s
    BY <1>6, <1>7, <2>2
  <2> QED
    BY <2>1, <2>2
<1>9. \E i \in 1..n : Len(u[i].bytes) > 0 /\ EndOf(u, i) = top
  <2>1. CASE top = base + r
    BY <1>1, <1>3, <1>6, <1>7, <2>1
  <2>2. CASE top = l
    <3>1. PICK i \in 1..n : Len(w[i].bytes) > 0 /\ EndOf(w, i) = l
      BY <1>1, <1>4, <1>6, <2>2 DEF EndsAt
    <3>2. CASE i # s
      BY <1>3, <2>2, <3>1, <3>2 DEF EndOf
    <3>3. CASE i = s
      <4>1. base + q = l /\ q > 0
        BY <1>1, <3>1, <3>3 DEF EndOf
      <4> QED
        BY <1>1, <1>6, <1>7, <2>2, <3>3, <4>1
    <3> QED
      BY <3>2, <3>3
  <2> QED
    BY <1>6, <2>1, <2>2
<1> QED
  BY <1>3, <1>6, <1>8, <1>9 DEF EndsAt

\* A byte of the file behind the end of its volume is a zero.
LEMMA BeyondEnd ==
  ASSUME NEW w, VolsRight(w), NEW l, EndsAt(w, l), NEW i \in 1..Len(w), NEW k \in Nat, k > l
  PROVE  ~(k - V!PlaceOf(i) <= Len(w[i].bytes) /\ k - V!PlaceOf(i) >= 1)
<1>1. PICK base, q : base = V!PlaceOf(i) /\ q = Len(w[i].bytes)
  OBVIOUS
<1>2. base \in Nat /\ q \in Nat /\ l \in Nat
  BY <1>1, VolTypes DEF EndsAt
<1>3. q > 0 => base + q <= l
  BY <1>1 DEF EndsAt, EndOf
<1> QED
  BY <1>1, <1>2, <1>3

\* Position k is in the part written if it is there in the volume.
InPart(k, a, m) == k \in (a + 1)..(a + m)
PartAgrees(k, s, off, m, a, j) ==
  /\ InPart(k, a, m) => In(k, s)
  /\ InPart(k, a, m) <=> InPart(j, off, m)

LEMMA InWritten ==
  ASSUME NEW k \in Nat, NEW s \in Nat \ {0}, NEW off \in Nat, NEW m \in Nat,
         off + m <= V!VolSize(s), NEW a, a = V!PlaceOf(s) + off,
         NEW j, j = k - V!PlaceOf(s)
  PROVE  PartAgrees(k, s, off, m, a, j)
<1>1. PICK v, base : v = V!VolSize(s) /\ base = V!PlaceOf(s)
  OBVIOUS
<1>2. base \in Nat /\ v \in Nat
  BY <1>1, PlaceIs
<1>3. InPart(k, a, m) <=> InPart(j, off, m)
  BY <1>1, <1>2 DEF InPart
<1>4. InPart(k, a, m) => k - base \in 1..v
  BY <1>1, <1>2 DEF InPart
<1> QED
  BY <1>1, <1>3, <1>4 DEF In, PartAgrees

\* g is the file of w after d was written at a.
Changed(g, w, a, d) == Overwritten(g, Byte, V!FileIn(w), a, d)

LEMMA WriteBytes ==
  ASSUME NEW w, VolsRight(w), NEW l, EndsAt(w, l), NEW s, NEW off, NEW d, HasRoom(w, s, off, d),
         NEW u, Rewritten(w, u, s, off, d),
         NEW a, a = V!PlaceOf(s) + off,
         NEW g, Changed(g, w, a, d)
  PROVE  V!FileIn(u) = g /\ EndsAt(u, Len(g))
<1>1. PICK n, m, base, q, r, b, c, f, top :
        /\ n = Len(w) /\ m = Len(d) /\ base = V!PlaceOf(s)
        /\ q = Len(w[s].bytes) /\ r = Len(u[s].bytes) /\ b = u[s].bytes /\ c = w[s].bytes
        /\ f = V!FileIn(w) /\ top = Len(g)
  OBVIOUS
<1>2. WriteSizes(w, u, l, s, off, m, base, q, r)
  BY <1>1, WriteSizesAre
<1>3. /\ n \in Nat /\ s \in 1..n /\ s \in Nat \ {0}
      /\ Len(u) = n /\ \A i \in 1..n : i # s => u[i] = w[i]
  BY <1>1, VolTypes DEF Rewritten, HasRoom
<1>4. /\ l \in Nat /\ m \in Nat /\ m > 0 /\ off \in Nat /\ q \in Nat /\ r \in Nat /\ base \in Nat
      /\ r >= q /\ r >= off + m /\ off + m <= V!VolSize(s) /\ a = base + off
  BY <1>1, <1>2 DEF WriteSizes
<1>0. base = V!PlaceOf(s)
  BY <1>1
<1>5. FileRight(w, l)
  BY FileIs
<1>6. f \in Seq(Byte) /\ Len(f) = l
  BY <1>1, <1>5 DEF FileRight
<1>7. /\ g \in Seq(Byte) /\ top = IF l < a + m THEN a + m ELSE l
      /\ \A k \in 1..top : g[k] = IF k \in (a + 1)..(a + m) THEN d[k - a]
                                  ELSE IF k <= l THEN f[k] ELSE Zero
  BY <1>1, <1>6 DEF Changed, Overwritten
<1>8. EndsAt(u, top)
  BY <1>1, <1>7, WriteEnds
<1>9. VolsRight(u)
  BY WriteKeepsRight
<1>10. FileRight(u, top) /\ top \in Nat
  BY <1>8, <1>9, FileIs DEF EndsAt
<1>11. \A j \in 1..r : b[j] = IF j \in (off + 1)..(off + m) THEN d[j - off]
                              ELSE IF j <= q THEN c[j] ELSE Zero
  BY <1>1 DEF Rewritten, Overwritten
<1>12. ASSUME NEW k \in 1..top, NEW i \in 1..n, In(k, i)
       PROVE  g[k] = ByteIn(u, i, k)
  <2>1. g[k] = IF k \in (a + 1)..(a + m) THEN d[k - a] ELSE IF k <= l THEN f[k] ELSE Zero
    BY <1>7
  <2>2. k <= l => f[k] = ByteIn(w, i, k)
    <3>1. k <= l => k \in 1..l
      BY <1>4, <1>10
    <3> QED
      BY <1>1, <1>5, <1>12, <3>1 DEF FileRight
  <2>3. k \in Nat /\ i \in Nat \ {0} /\ a \in Nat
    BY SMTT(30), <1>1, <1>3, <1>4, <1>10
  <2>4. k > l => ~(k - V!PlaceOf(i) <= Len(w[i].bytes))
    <3>1. k - V!PlaceOf(i) >= 1
      BY <1>12, <2>3, PlaceIs DEF In
    <3> QED
      BY <1>1, <2>3, <3>1, BeyondEnd
  <2>5. k > l => ByteIn(w, i, k) = Zero
    BY <2>4 DEF ByteIn
  <2>6. g[k] = IF k \in (a + 1)..(a + m) THEN d[k - a] ELSE ByteIn(w, i, k)
    <3>1. k <= l \/ k > l
      BY <1>4, <2>3
    <3>2. k > l => ~(k <= l)
      BY <1>4, <2>3
    <3> QED
      BY <2>1, <2>2, <2>5, <3>1, <3>2
  <2>7. CASE i # s
    <3>1. k \notin (a + 1)..(a + m)
      <4> SUFFICES ASSUME k \in (a + 1)..(a + m) PROVE FALSE
        OBVIOUS
      <4>1. In(k, s)
        <5>1. PICK j : j = k - base
          OBVIOUS
        <5>2. InPart(k, a, m)
          BY DEF InPart
        <5>3. j = k - V!PlaceOf(s) /\ a = V!PlaceOf(s) + off
          BY <1>0, <5>1
        <5>4. PartAgrees(k, s, off, m, a, j)
          BY <1>3, <1>4, <2>3, <5>3, InWritten
        <5> QED
          BY <5>2, <5>4 DEF PartAgrees
      <4> QED
        BY <1>3, <1>12, <2>3, <2>7, <4>1, VolumeIsUnique
    <3>2. ByteIn(u, i, k) = ByteIn(w, i, k)
      BY <1>3, <2>7 DEF ByteIn
    <3> QED
      BY <2>6, <3>1, <3>2
  <2>8. CASE i = s
    <3>1. PICK j : j = k - base
      OBVIOUS
    <3>2. ByteIn(u, i, k) = IF j <= r THEN b[j] ELSE Zero
      BY <1>1, <2>8, <3>1 DEF ByteIn
    <3>3. ByteIn(w, i, k) = IF j <= q THEN c[j] ELSE Zero
      BY <1>1, <2>8, <3>1 DEF ByteIn
    <3>4. k - V!PlaceOf(s) >= 1
      BY <1>12, <2>3, <2>8, PlaceIs DEF In
    <3>5. j \in Nat /\ j >= 1
      <4>1. j = k - V!PlaceOf(s) /\ base \in Nat
        BY <1>0, <1>4, <3>1
      <4>2. j >= 1 /\ j \in Int
        BY <2>3, <3>1, <3>4, <4>1
      <4> QED
        BY <4>2
    <3>6. k \in (a + 1)..(a + m) <=> j \in (off + 1)..(off + m)
      <4>1. j = k - V!PlaceOf(s) /\ a = V!PlaceOf(s) + off
        BY <1>0, <3>1
      <4>2. PartAgrees(k, s, off, m, a, j)
        BY <1>3, <1>4, <2>3, <4>1, InWritten
      <4> QED
        BY <4>2 DEF InPart, PartAgrees
    <3>7. k - a = j - off
      <4>1. a = base + off
        BY <1>1
      <4> QED
        BY <1>4, <2>3, <3>1, <4>1
    <3>8. CASE j <= r
      <4>1. j \in 1..r
        BY <1>4, <3>5, <3>8
      <4>2. b[j] = IF j \in (off + 1)..(off + m) THEN d[j - off]
                   ELSE IF j <= q THEN c[j] ELSE Zero
        BY <1>11, <4>1
      <4> QED
        BY <2>6, <3>2, <3>3, <3>6, <3>7, <3>8, <4>2
    <3>9. CASE ~(j <= r)
      <4>1. ~(j <= q) /\ j \notin (off + 1)..(off + m)
        BY <1>4, <3>5, <3>9
      <4> QED
        BY <2>6, <3>2, <3>3, <3>6, <3>9, <4>1
    <3> QED
      BY <3>8, <3>9
  <2> QED
    BY <2>7, <2>8
<1>13. SameBytes(u, top, g)
  BY <1>1, <1>3, <1>7, <1>12 DEF SameBytes
<1>14. V!FileIn(u) = g
  BY <1>10, <1>13, SameVolumes DEF HasFile
<1> QED
  BY <1>1, <1>8, <1>14

\* What a write leaves out or fills.
LEMMA WriteCovered ==
  ASSUME NEW w, VolsRight(w), NEW l, EndsAt(w, l), NEW s, NEW off, NEW d, HasRoom(w, s, off, d),
         NEW u, Rewritten(w, u, s, off, d), NEW a, a = V!PlaceOf(s) + off,
         NEW top, top = IF l < a + Len(d) THEN a + Len(d) ELSE l,
         NEW S, Covered(w, l, S)
  PROVE  Covered(u, top, (S \cup l..(a - 1)) \ a..(a + Len(d) - 1))
<1>1. PICK n, m, base, q, r :
        /\ n = Len(w) /\ m = Len(d) /\ base = V!PlaceOf(s)
        /\ q = Len(w[s].bytes) /\ r = Len(u[s].bytes)
  OBVIOUS
<1>2. WriteSizes(w, u, l, s, off, m, base, q, r)
  BY <1>1, WriteSizesAre
<1>3. /\ n \in Nat /\ s \in 1..n /\ s \in Nat \ {0}
      /\ Len(u) = n /\ \A i \in 1..n : i # s => u[i] = w[i]
  BY <1>1, VolTypes DEF Rewritten, HasRoom
<1>4. /\ l \in Nat /\ m \in Nat /\ m > 0 /\ off \in Nat /\ q \in Nat /\ r \in Nat /\ base \in Nat
      /\ r >= q /\ r >= off + m /\ off + m <= V!VolSize(s) /\ a = base + off
  BY <1>1, <1>2 DEF WriteSizes
<1>10. top = (IF l < a + m THEN a + m ELSE l) /\ top \in Nat
  <2>1. top = IF l < a + m THEN a + m ELSE l
    BY <1>1
  <2>2. a + m \in Nat
    BY <1>4
  <2> QED
    BY <1>4, <2>1, <2>2
<1> SUFFICES ASSUME NEW i \in 1..n, NEW k \in 1..top, In(k, i), k - V!PlaceOf(i) > Len(u[i].bytes)
             PROVE  k - 1 \in (S \cup l..(a - 1)) \ a..(a + m - 1)
  BY <1>1, <1>3 DEF Covered
<1>5. k \in Nat /\ i \in Nat \ {0} /\ k >= 1 /\ top = IF l < a + m THEN a + m ELSE l
  <2>1. k \in Nat /\ k >= 1
    BY <1>10
  <2>2. i \in Nat \ {0}
    BY <1>3
  <2> QED
    BY <1>10, <2>1, <2>2
<1>6. k <= top
  BY <1>4, <1>5
<1>7. k - 1 \notin a..(a + m - 1)
  <2> SUFFICES ASSUME k - 1 \in a..(a + m - 1) PROVE FALSE
    OBVIOUS
  <2>1. k \in (a + 1)..(a + m)
    BY <1>4, <1>5
  <2>2. In(k, s) /\ k - base \in (off + 1)..(off + m)
    <3>1. PICK j : j = k - base
      OBVIOUS
    <3>2. InPart(k, a, m)
      BY <2>1 DEF InPart
    <3>3. In(k, s) /\ InPart(j, off, m)
      <4>1. j = k - V!PlaceOf(s) /\ a = V!PlaceOf(s) + off
        BY <1>1, <3>1
      <4>2. PartAgrees(k, s, off, m, a, j)
        BY <1>3, <1>4, <1>5, <4>1, InWritten
      <4> QED
        BY <3>2, <4>2 DEF PartAgrees
    <3> QED
      BY <3>1, <3>3 DEF InPart
  <2>3. i = s
    BY <1>3, <1>5, <2>2, VolumeIsUnique
  <2>4. k - base > r
    BY <1>1, <2>3
  <2> QED
    BY <1>4, <1>5, <2>2, <2>4
<1>8. CASE k > l
  BY <1>4, <1>5, <1>6, <1>7, <1>8
<1>9. CASE k <= l
  <2>1. k \in 1..l
    BY <1>4, <1>5, <1>9
  <2>2. k - V!PlaceOf(i) > Len(w[i].bytes)
    <3>1. CASE i = s
      <4>1. k - base > r
        BY <1>1, <3>1
      <4>2. k - base > q
        BY <1>4, <1>5, <4>1
      <4> QED
        BY <1>1, <3>1, <4>2
    <3>2. CASE i # s
      BY <1>3, <3>2
    <3> QED
      BY <3>1, <3>2
  <2>3. k - 1 \in S
    BY <1>1, <2>1, <2>2 DEF Covered
  <2> QED
    BY <1>7, <2>3
<1> QED
  BY <1>4, <1>5, <1>8, <1>9

-----------------------------------------------------------------------------
(* Volumes: the size of the file is cut, and the volumes are put together    *)

\* The part of the first l bytes that lies before volume i.
Before(i, l) == IF V!PlaceOf(i) <= l THEN V!PlaceOf(i) ELSE l

LEMMA BeforeIs ==
  ASSUME NEW l \in Nat
  PROVE  Before(1, l) = 0 /\ \A i \in Nat \ {0} : Before(i, l) \in Nat /\ Before(i, l) <= l
BY PlaceIs DEF Before

\* If nothing is left out, each volume has what its place has of the file.
LEMMA VolumesAreFull ==
  ASSUME NEW w, VolsRight(w), NEW l, EndsAt(w, l), Covered(w, l, {}),
         NEW i \in 1..Len(w), NEW j, j = i + 1
  PROVE  Before(j, l) = Before(i, l) + Len(w[i].bytes)
<1>1. PICK p, v, q, e : /\ p = V!PlaceOf(i) /\ v = V!VolSize(i) /\ q = Len(w[i].bytes)
                        /\ e = V!PlaceOf(j)
  OBVIOUS
<1>2. p \in Nat /\ v \in Nat /\ v > 0 /\ q \in Nat /\ q <= v /\ l \in Nat /\ i \in Nat \ {0}
  BY <1>1, VolTypes DEF EndsAt
<1>3. e = p + v
  BY <1>1, <1>2, PlaceIs
<1>4. q > 0 => p + q <= l
  BY <1>1 DEF EndsAt, EndOf
<1>5. ASSUME NEW k \in 1..l, k - p \in 1..v PROVE k - p <= q
  BY <1>1, <1>2, <1>5 DEF Covered, In
<1>6. p < l => q >= 1 /\ (q = v \/ p + q = l)
  <2> SUFFICES ASSUME p < l PROVE q >= 1 /\ (q = v \/ p + q = l)
    OBVIOUS
  <2>1. CASE p + v <= l
    <3>1. p + v \in 1..l /\ (p + v) - p = v /\ (p + v) - p \in 1..v
      BY <1>2, <2>1
    <3>2. v <= q
      BY <1>5, <3>1
    <3> QED
      BY <1>2, <3>2
  <2>2. CASE p + v > l
    <3>1. l \in 1..l /\ l - p \in 1..v
      BY <1>2, <2>2
    <3>2. l - p <= q
      BY <1>5, <3>1
    <3> QED
      BY <1>2, <1>4, <3>2
  <2> QED
    BY <1>2, <2>1, <2>2
<1>7. Before(i, l) = IF p <= l THEN p ELSE l
  BY <1>1 DEF Before
<1>8. Before(j, l) = IF e <= l THEN e ELSE l
  BY <1>1 DEF Before
<1>9. Before(j, l) = Before(i, l) + q
  <2>1. CASE p < l
    <3>1. Before(i, l) = p /\ q >= 1 /\ p + q <= l
      BY <1>2, <1>4, <1>6, <1>7, <2>1
    <3>2. CASE q = v
      <4>1. e = p + q /\ e <= l
        BY <1>3, <3>1, <3>2
      <4> QED
        BY <1>8, <3>1, <4>1
    <3>3. CASE p + q = l
      <4>1. l <= e
        BY <1>2, <1>3, <3>3
      <4>2. Before(j, l) = l
        BY <1>2, <1>3, <1>8, <4>1
      <4> QED
        BY <3>1, <3>3, <4>2
    <3> QED
      BY <1>6, <2>1, <3>2, <3>3
  <2>2. CASE ~(p < l)
    <3>1. q = 0 /\ Before(i, l) = l
      BY <1>2, <1>4, <1>7, <2>2
    <3>2. ~(e <= l)
      BY <1>2, <1>3, <2>2
    <3>3. Before(j, l) = l
      BY <1>8, <3>2
    <3> QED
      BY <1>2, <3>1, <3>3
  <2> QED
    BY <2>1, <2>2
<1> QED
  BY <1>1, <1>9

\* The sizes on record add up.
SizesBefore(w, i) == V!SumBefore([j \in 1..(i - 1) |-> w[j].realSize], i)

LEMMA SizesBeforeAre ==
  ASSUME NEW w, VolsRight(w), NEW l, EndsAt(w, l), Covered(w, l, {}), NEW i \in 1..Len(w)
  PROVE  SizesBefore(w, i) = Before(i, l)
<1> DEFINE s == [j \in 1..(i - 1) |-> w[j].realSize]
           t == [j \in 0..(i - 1) |-> Before(j + 1, l)]
<1>1. l \in Nat /\ i \in Nat \ {0} /\ Len(w) \in Nat
  BY VolTypes DEF EndsAt
<1>2. \A j \in 0..(i - 1) : j + 1 \in Nat \ {0}
  BY <1>1
<1>3. t \in [0..(i - 1) -> Nat] /\ t[0] = 0
  <2>1. \A j \in 0..(i - 1) : Before(j + 1, l) \in Nat
    BY <1>1, <1>2, BeforeIs
  <2>2. t[0] = Before(0 + 1, l)
    BY <1>1
  <2>3. Before(0 + 1, l) = 0
    <3>1. 0 + 1 = 1
      OBVIOUS
    <3> QED
      BY <1>1, <3>1, BeforeIs
  <2>4. t \in [0..(i - 1) -> Nat]
    BY <2>1
  <2> QED
    BY <2>2, <2>3, <2>4
<1>4. ASSUME NEW j \in 1..(i - 1) PROVE t[j] = t[j - 1] + s[j]
  <2>1. j \in 1..Len(w) /\ j - 1 \in 0..(i - 1) /\ j \in 0..(i - 1) /\ (j - 1) + 1 = j
    BY <1>1
  <2>2. PICK m : m = j + 1
    OBVIOUS
  <2>3. Before(m, l) = Before(j, l) + Len(w[j].bytes)
    BY <2>1, <2>2, VolumesAreFull
  <2>4. w[j].realSize = Len(w[j].bytes)
    BY <2>1, VolTypes
  <2>5. t[j] = Before(m, l) /\ t[j - 1] = Before(j, l) /\ s[j] = w[j].realSize
    BY <2>1, <2>2
  <2> QED
    BY <2>3, <2>4, <2>5
<1>5. IsSum(t, s, i - 1)
  BY <1>3, <1>4 DEF IsSum
<1>6. V!SumBefore(s, i) = t[i - 1]
  <2> HIDE DEF s, t
  <2> QED
    BY <1>1, <1>5, SumIs
<1>7. t[i - 1] = Before(i, l)
  <2>1. i - 1 \in 0..(i - 1) /\ (i - 1) + 1 = i
    BY <1>1
  <2> QED
    BY <2>1
<1> QED
  BY <1>6, <1>7 DEF SizesBefore

\* Volume c is cut behind its first n bytes, and those behind it are deleted.
CutTo(w, u, c, n) ==
  /\ c \in 1..Len(w) /\ n \in Nat /\ n < Len(w[c].bytes)
  /\ u \in Seq(VolRecord) /\ Len(u) = c
  /\ \A i \in 1..c : i # c => u[i] = w[i]
  /\ u[c].bytes = SubSeq(w[c].bytes, 1, n) /\ u[c].realSize = n

LEMMA CutBytes ==
  ASSUME NEW w, VolsRight(w), NEW u, NEW c, NEW n, CutTo(w, u, c, n)
  PROVE  /\ Len(u[c].bytes) = n
         /\ \A k \in 1..n : u[c].bytes[k] = w[c].bytes[k]
<1>1. PICK b, d : b = w[c].bytes /\ d = u[c].bytes
  OBVIOUS
<1>2. b \in Seq(Byte) /\ Len(b) \in Nat
  BY <1>1, VolTypes DEF CutTo
<1>3. d = SubSeq(b, 1, n) /\ n \in Nat /\ n < Len(b)
  BY <1>1 DEF CutTo
<1>4. Len(d) = n /\ \A k \in 1..n : d[k] = b[k]
  BY <1>2, <1>3
<1> QED
  BY <1>1, <1>4

LEMMA CutRight ==
  ASSUME NEW w, VolsRight(w), NEW u, NEW c, NEW n, CutTo(w, u, c, n)
  PROVE  VolsRight(u)
<1>1. \A i \in 1..c : i \in 1..Len(w)
  BY VolTypes DEF CutTo
<1>2. ASSUME NEW i \in 1..c
      PROVE  u[i].realSize = Len(u[i].bytes) /\ Len(u[i].bytes) <= V!VolSize(i)
  <2>1. CASE i # c
    BY <1>1, <2>1 DEF CutTo, VolsRight
  <2>2. CASE i = c
    <3>1. PICK q, v : q = Len(w[c].bytes) /\ v = V!VolSize(c)
      OBVIOUS
    <3>2. q \in Nat /\ v \in Nat /\ q <= v
      BY <1>1, <2>2, <3>1, VolTypes
    <3>3. n \in Nat /\ n < q
      BY <3>1 DEF CutTo
    <3>4. n <= v
      BY <3>2, <3>3
    <3> QED
      BY <2>2, <3>1, <3>4, CutBytes DEF CutTo
  <2> QED
    BY <2>1, <2>2
<1> QED
  BY <1>2 DEF CutTo, VolsRight

LEMMA CutEnds ==
  ASSUME NEW w, VolsRight(w), NEW l, EndsAt(w, l), Covered(w, l, {}),
         NEW size \in Nat, size < l,
         NEW u, NEW c, NEW n, CutTo(w, u, c, n), V!PlaceOf(c) + n = size
  PROVE  EndsAt(u, size)
<1>1. /\ c \in 1..Len(w) /\ c \in Nat \ {0} /\ n \in Nat /\ Len(w) \in Nat /\ Len(u) = c
      /\ V!PlaceOf(c) \in Nat
  BY VolTypes DEF CutTo
<1>2. \A i \in 1..c : i # c => u[i] = w[i] /\ i \in 1..Len(w) /\ i \in Nat \ {0} /\ i < c
  BY <1>1 DEF CutTo
<1>3. EndOf(u, c) = size /\ Len(u[c].bytes) = n
  BY CutBytes DEF EndOf
<1>4. ASSUME NEW i \in 1..c PROVE EndOf(u, i) <= size
  <2>1. CASE i # c
    <3>1. PICK p, v, q, e : /\ p = V!PlaceOf(i) /\ v = V!VolSize(i) /\ q = Len(w[i].bytes)
                            /\ e = V!PlaceOf(c)
      OBVIOUS
    <3>2. p + v <= e
      BY <1>1, <1>2, <2>1, <3>1, PlacesGrow
    <3>3. p \in Nat /\ v \in Nat /\ q \in Nat /\ q <= v
      BY <1>2, <2>1, <3>1, VolTypes
    <3>4. EndOf(u, i) = p + q
      BY <1>2, <2>1, <3>1 DEF EndOf
    <3>5. e + n = size /\ e \in Nat
      BY <1>1, <3>1
    <3> QED
      BY <1>1, <3>2, <3>3, <3>4, <3>5
  <2>2. CASE i = c
    BY <1>3, <2>2
  <2> QED
    BY <2>1, <2>2
<1>5. size = 0 \/ \E i \in 1..c : Len(u[i].bytes) > 0 /\ EndOf(u, i) = size
  <2>1. CASE n > 0
    BY <1>1, <1>3, <2>1
  <2>2. CASE n = 0 /\ c = 1
    BY <2>2, PlaceIs
  <2>3. CASE n = 0 /\ c # 1
    <3>1. PICK i : i = c - 1
      OBVIOUS
    <3>2. i \in 1..c /\ i # c /\ c = i + 1 /\ i \in Nat \ {0} /\ i \in 1..Len(w)
      BY <1>1, <2>3, <3>1
    <3>3. PICK p, v, q, e : /\ p = V!PlaceOf(i) /\ v = V!VolSize(i) /\ q = Len(w[i].bytes)
                            /\ e = V!PlaceOf(c)
      OBVIOUS
    <3>4. p \in Nat /\ v \in Nat /\ v > 0 /\ q \in Nat /\ q <= v /\ e = p + v
      BY <3>2, <3>3, VolTypes, PlaceIs
    <3>5. e = size /\ l \in Nat
      BY <1>1, <2>3, <3>3 DEF EndsAt
    <3>6. In(e, i) /\ e \in 1..l
      BY <3>3, <3>4, <3>5 DEF In
    <3>7. ~(e - p > q)
      BY <3>2, <3>3, <3>6 DEF Covered
    <3>8. q = v
      BY <3>4, <3>7
    <3>9. Len(u[i].bytes) = q /\ EndOf(u, i) = p + q
      BY <1>2, <3>2, <3>3 DEF EndOf
    <3> QED
      BY <3>2, <3>4, <3>5, <3>8, <3>9
  <2> QED
    BY <1>1, <2>1, <2>2, <2>3
<1> QED
  BY <1>1, <1>4, <1>5 DEF EndsAt

\* Of the file f, size bytes are left.
Cropped(w, size, g) ==
  /\ g \in Seq(Byte) /\ Len(g) = size
  /\ \A k \in 1..size : g[k] = V!FileIn(w)[k]

LEMMA CutFile ==
  ASSUME NEW w, VolsRight(w), NEW l, EndsAt(w, l), Covered(w, l, {}),
         NEW size \in Nat, size < l,
         NEW u, NEW c, NEW n, CutTo(w, u, c, n), V!PlaceOf(c) + n = size,
         NEW g, Cropped(w, size, g)
  PROVE  /\ VolsRight(u) /\ EndsAt(u, size) /\ HasFile(u, g)
         /\ Covered(u, size, {})
<1>1. VolsRight(u) /\ EndsAt(u, size)
  BY CutRight, CutEnds
<1>2. FileRight(u, size) /\ FileRight(w, l)
  BY <1>1, FileIs
<1>3. /\ c \in 1..Len(w) /\ c \in Nat \ {0} /\ n \in Nat /\ Len(w) \in Nat /\ Len(u) = c
      /\ V!PlaceOf(c) \in Nat /\ l \in Nat /\ n < Len(w[c].bytes) /\ Len(w[c].bytes) \in Nat
  BY VolTypes DEF CutTo, EndsAt
<1>4. \A i \in 1..c : i # c => u[i] = w[i]
  BY DEF CutTo
<1>5. \A k \in 1..size : k \in 1..l
  BY <1>3
<1>6. ASSUME NEW k \in 1..size, NEW i \in 1..c, In(k, i)
      PROVE  ByteIn(w, i, k) = ByteIn(u, i, k) /\ (i = c => k - V!PlaceOf(i) <= Len(u[i].bytes))
  <2>1. CASE i # c
    BY <1>4, <2>1 DEF ByteIn
  <2>2. CASE i = c
    <3>1. PICK j : j = k - V!PlaceOf(c)
      OBVIOUS
    <3>2. j \in 1..n
      <4>1. j \in 1..V!VolSize(c) /\ V!VolSize(c) \in Nat
        BY <1>3, <1>6, <2>2, <3>1, PlaceIs DEF In
      <4>2. k <= size /\ k \in Nat
        OBVIOUS
      <4> QED
        BY <1>3, <3>1, <4>1, <4>2
    <3>3. Len(u[c].bytes) = n /\ u[c].bytes[j] = w[c].bytes[j]
      BY <3>2, CutBytes
    <3>4. j <= Len(w[c].bytes) /\ j <= n
      BY <1>3, <3>2
    <3>5. ByteIn(w, c, k) = w[c].bytes[j]
      BY <3>1, <3>4 DEF ByteIn
    <3>6. ByteIn(u, c, k) = u[c].bytes[j]
      BY <3>1, <3>3, <3>4 DEF ByteIn
    <3> QED
      BY <2>2, <3>1, <3>3, <3>4, <3>5, <3>6
  <2> QED
    BY <2>1, <2>2
<1>7. \A i \in 1..c : i \in 1..Len(w)
  BY <1>3
<1>8. SameBytes(u, size, g)
  <2>1. ASSUME NEW k \in 1..size, NEW i \in 1..c, In(k, i)
        PROVE  g[k] = ByteIn(u, i, k)
    <3>1. V!FileIn(w)[k] = ByteIn(w, i, k)
      BY <1>2, <1>5, <1>7, <2>1 DEF FileRight
    <3> QED
      BY <1>6, <2>1, <3>1 DEF Cropped
  <2> QED
    BY <1>3, <2>1 DEF SameBytes, Cropped
<1>9. HasFile(u, g)
  BY <1>2, <1>8, SameVolumes
<1>10. Covered(u, size, {})
  <2> SUFFICES ASSUME NEW k \in 1..size, NEW i \in 1..c, In(k, i), k - V!PlaceOf(i) > Len(u[i].bytes)
               PROVE  FALSE
    BY <1>3 DEF Covered
  <2>1. CASE i # c
    BY <1>4, <1>5, <1>7, <2>1 DEF Covered
  <2>2. CASE i = c
    <3>1. k - V!PlaceOf(c) <= Len(u[c].bytes)
      BY <1>6, <2>2
    <3>2. Len(u[c].bytes) = n
      BY CutBytes
    <3> QED
      BY <1>3, <2>2, <3>1, <3>2
  <2> QED
    BY <2>1, <2>2
<1> QED
  BY <1>1, <1>9, <1>10

\* The volumes that are longer than what is left of the new size, and the first of them.
Longer(w, size) == {i \in DOMAIN w : size - SizesBefore(w, i) < w[i].realSize}

LEMMA LongerIs ==
  ASSUME NEW w, VolsRight(w), NEW l, EndsAt(w, l), Covered(w, l, {}), NEW size \in Nat, size <= l,
         NEW i \in 1..Len(w)
  PROVE  i \in Longer(w, size) <=> size < Before(i, l) + Len(w[i].bytes)
<1>1. PICK b, q : b = Before(i, l) /\ q = Len(w[i].bytes)
  OBVIOUS
<1>2. l \in Nat /\ i \in Nat \ {0} /\ q \in Nat /\ w[i].realSize = q /\ i \in DOMAIN w
  BY <1>1, VolTypes DEF EndsAt
<1>3. b \in Nat
  BY <1>1, <1>2, BeforeIs
<1>4. SizesBefore(w, i) = b
  BY <1>1, SizesBeforeAre
<1>5. size - b < q <=> size < b + q
  BY <1>2, <1>3
<1> QED
  BY <1>1, <1>2, <1>4, <1>5 DEF Longer

\* No volume is longer if the size stays.
LEMMA NoneLonger ==
  ASSUME NEW w, VolsRight(w), NEW l, EndsAt(w, l), Covered(w, l, {})
  PROVE  Longer(w, l) = {}
<1> SUFFICES ASSUME NEW i \in 1..Len(w), i \in Longer(w, l) PROVE FALSE
  <2>1. DOMAIN w = 1..Len(w)
    BY VolTypes
  <2> QED
    BY <2>1 DEF Longer
<1>1. PICK b, q, p : b = Before(i, l) /\ q = Len(w[i].bytes) /\ p = V!PlaceOf(i)
  OBVIOUS
<1>2. l \in Nat /\ q \in Nat /\ p \in Nat /\ (q > 0 => p + q <= l)
  BY <1>1, VolTypes DEF EndsAt, EndOf
<1>3. l < b + q
  BY <1>1, <1>2, LongerIs
<1>4. b = IF p <= l THEN p ELSE l
  BY <1>1 DEF Before
<1> QED
  BY <1>2, <1>3, <1>4

\* The volume that is cut is the one of the first byte behind the new size.
FirstLonger(w, size, c) ==
  /\ c \in Longer(w, size) /\ \A j \in Longer(w, size) : c <= j
  /\ c \in 1..Len(w) /\ SizesBefore(w, c) = V!PlaceOf(c)
  /\ V!PlaceOf(c) <= size /\ size - V!PlaceOf(c) < Len(w[c].bytes)

LEMMA CutVolume ==
  ASSUME NEW w, VolsRight(w), NEW l, EndsAt(w, l), Covered(w, l, {}), NEW size \in Nat, size < l
  PROVE  \E c : FirstLonger(w, size, c)
<1>1. l \in Nat /\ Len(w) \in Nat /\ DOMAIN w = 1..Len(w)
  BY VolTypes DEF EndsAt
<1>2. PICK k : k = size + 1
  OBVIOUS
<1>3. k \in 1..l
  BY <1>1, <1>2
<1>4. PICK c \in 1..Len(w) : In(k, c)
  BY <1>3, FileIs DEF FileRight
<1>5. PICK p, v, q : p = V!PlaceOf(c) /\ v = V!VolSize(c) /\ q = Len(w[c].bytes)
  OBVIOUS
<1>6. c \in Nat \ {0} /\ p \in Nat /\ v \in Nat /\ q \in Nat
  BY <1>4, <1>5, VolTypes
<1>7. k - p \in 1..v /\ k - p <= q
  BY <1>3, <1>4, <1>5, <1>6 DEF In, Covered
<1>8. p <= size /\ size - p < q
  BY <1>2, <1>6, <1>7
<1>9. Before(c, l) = p
  BY <1>1, <1>5, <1>6, <1>8 DEF Before
<1>10. c \in Longer(w, size)
  <2>1. size < Before(c, l) + Len(w[c].bytes) /\ size <= l
    BY <1>1, <1>5, <1>6, <1>8, <1>9
  <2> QED
    BY <1>4, <2>1, LongerIs
<1>11. ASSUME NEW i \in Longer(w, size) PROVE c <= i
  <2> SUFFICES ASSUME i < c PROVE FALSE
    BY <1>1, <1>4 DEF Longer
  <2>1. i \in 1..Len(w) /\ i \in Nat \ {0}
    BY <1>1 DEF Longer
  <2>2. PICK p2, v2, q2, b2 : /\ p2 = V!PlaceOf(i) /\ v2 = V!VolSize(i) /\ q2 = Len(w[i].bytes)
                              /\ b2 = Before(i, l)
    OBVIOUS
  <2>3. p2 \in Nat /\ v2 \in Nat /\ q2 \in Nat /\ q2 <= v2
    BY <2>1, <2>2, VolTypes
  <2>4. p2 + v2 <= p
    BY <1>5, <1>6, <2>1, <2>2, PlacesGrow
  <2>5. b2 = IF p2 <= l THEN p2 ELSE l
    BY <2>2 DEF Before
  <2>6. size < b2 + q2
    <3>1. size <= l
      BY <1>1
    <3> QED
      BY <2>1, <2>2, <3>1, LongerIs
  <2> QED
    BY <1>1, <1>6, <1>8, <2>3, <2>4, <2>5, <2>6
<1>12. SizesBefore(w, c) = p
  BY <1>4, <1>9, SizesBeforeAre
<1> QED
  BY <1>4, <1>5, <1>8, <1>10, <1>11, <1>12 DEF FirstLonger

\* The table of the volumes put together.
IsJoin(t, w, n) ==
  t \in [0..n -> Seq(Byte)] /\ t[0] = <<>> /\ \A j \in 1..n : t[j] = t[j - 1] \o w[j].bytes

LEMMA JoinExists ==
  ASSUME NEW w, VolsRight(w)
  PROVE  \E t : IsJoin(t, w, Len(w))
<1> DEFINE n == Len(w)
           Vals == Seq(Byte)
           step == [j \in 1..n |-> [v \in Vals |-> v \o w[j].bytes]]
<1>0. n \in Nat /\ \A j \in 1..n : w[j].bytes \in Seq(Byte)
  BY VolTypes
<1>1. step \in [1..n -> [Vals -> Vals]] /\ <<>> \in Vals
  <2>1. \A v \in Vals, x \in Vals : v \o x \in Vals
    BY ConcatProperties
  <2> QED
    BY <1>0, <2>1
<1>2. \A j \in 1..n, v \in Seq(Byte) : step[j][v] = v \o w[j].bytes
  OBVIOUS
<1> HIDE DEF step, Vals, n
<1>3. PICK t : Follows(t, Vals, <<>>, n, step)
  BY <1>0, <1>1, Recursion
<1>4. t \in [0..n -> Seq(Byte)] /\ t[0] = <<>> /\ \A j \in 1..n : t[j] = step[j][t[j - 1]]
  BY <1>3 DEF Follows, Vals
<1>5. ASSUME NEW j \in 1..n PROVE t[j] = t[j - 1] \o w[j].bytes
  <2>1. j - 1 \in 0..n
    BY <1>0
  <2>2. t[j - 1] \in Seq(Byte)
    BY <1>4, <2>1
  <2> QED
    BY <1>2, <1>4, <2>2
<1> QED
  BY <1>4, <1>5 DEF IsJoin, n

\* Such a table has the value of the operator.
Joins(t, w, x) == x = t[Len(w)]
JoinOf(w) ==
  LET joined[i \in 0..Len(w)] == IF i = 0 THEN <<>> ELSE joined[i - 1] \o w[i].bytes
  IN  joined[Len(w)]

LEMMA JoinIs ==
  ASSUME NEW w, Len(w) \in Nat, NEW t, IsJoin(t, w, Len(w))
  PROVE  Joins(t, w, JoinOf(w))
<1> DEFINE n == Len(w)
           Tables(f) == f = [i \in 0..Len(w) |-> IF i = 0 THEN <<>> ELSE f[i - 1] \o w[i].bytes]
           sum == CHOOSE f : Tables(f)
<1>2. JoinOf(w) = sum[n]
  BY DEF JoinOf
<1>3. Tables(t)
  <2>1. t \in [0..n -> Seq(Byte)] /\ t[0] = <<>> /\ \A j \in 1..n : t[j] = t[j - 1] \o w[j].bytes
    BY DEF IsJoin
  <2>2. \A j \in 0..n : j = 0 \/ (j \in 1..n /\ j # 0)
    OBVIOUS
  <2>3. \A j \in 0..n : t[j] = IF j = 0 THEN <<>> ELSE t[j - 1] \o w[j].bytes
    BY <2>1, <2>2
  <2> QED
    BY <2>1, <2>3
<1>4. Tables(sum)
  <2> HIDE DEF Tables
  <2> QED
    BY <1>3
<1>5. sum[0] = <<>> /\ \A j \in 1..n : sum[j] = sum[j - 1] \o w[j].bytes
  <2> HIDE DEF sum
  <2>1. \A j \in 0..n : sum[j] = IF j = 0 THEN <<>> ELSE sum[j - 1] \o w[j].bytes
    BY <1>4, Zenon
  <2>2. 0 \in 0..n /\ \A j \in 1..n : j \in 0..n /\ j # 0
    OBVIOUS
  <2> QED
    BY <2>1, <2>2
<1>1. n \in Nat
  OBVIOUS
<1> HIDE DEF sum, n
<1> DEFINE S == {k \in Nat : k <= n => sum[k] = t[k]}
<1>6. 0 \in S
  BY <1>5 DEF IsJoin
<1>7. ASSUME NEW k \in Nat, k \in S PROVE k + 1 \in S
  <2> SUFFICES ASSUME k + 1 <= n PROVE sum[k + 1] = t[k + 1]
    OBVIOUS
  <2>1. k + 1 \in 1..n /\ (k + 1) - 1 = k /\ sum[k] = t[k]
    BY <1>1, <1>7
  <2>2. t[k + 1] = t[k] \o w[k + 1].bytes
    BY <2>1 DEF IsJoin, n
  <2>3. sum[k + 1] = sum[k] \o w[k + 1].bytes
    BY <1>5, <2>1
  <2> QED
    BY <2>1, <2>2, <2>3
<1>8. \A k \in Nat : k \in S
  <2> HIDE DEF S
  <2> QED
    BY <1>6, <1>7, NatInd
<1> QED
  BY <1>1, <1>2, <1>8 DEF n, Joins

LEMMA JoinedType ==
  ASSUME NEW w, VolsRight(w)
  PROVE  JoinOf(w) \in Seq(Byte)
<1>1. PICK t : IsJoin(t, w, Len(w))
  BY JoinExists
<1>2. Len(w) \in Nat
  BY VolTypes
<1>3. Joins(t, w, JoinOf(w))
  BY <1>1, <1>2, JoinIs
<1> QED
  BY <1>1, <1>2, <1>3 DEF IsJoin, Joins

\* The first n volumes have the first bytes of the file f.
IsPrefix(x, f, n, l) ==
  /\ x \in Seq(Byte) /\ Len(x) = Before(n + 1, l)
  /\ \A k \in 1..Len(x) : x[k] = f[k]

\* One sequence put behind another.
IsConcat(y, x, b) ==
  /\ y \in Seq(Byte) /\ Len(y) = Len(x) + Len(b)
  /\ \A k \in 1..(Len(x) + Len(b)) : y[k] = IF k <= Len(x) THEN x[k] ELSE b[k - Len(x)]

LEMMA ConcatIs ==
  ASSUME NEW x \in Seq(Byte), NEW b \in Seq(Byte)
  PROVE  IsConcat(x \o b, x, b)
<1>1. /\ x \o b \in Seq(Byte) /\ Len(x \o b) = Len(x) + Len(b)
      /\ \A k \in 1..(Len(x) + Len(b)) : (x \o b)[k] = IF k <= Len(x) THEN x[k] ELSE b[k - Len(x)]
  BY ConcatProperties
<1> QED
  BY <1>1 DEF IsConcat

LEMMA PrefixStep ==
  ASSUME NEW w, VolsRight(w), NEW l, EndsAt(w, l), Covered(w, l, {}),
         NEW n \in Nat, NEW i \in 1..Len(w), i = n + 1,
         NEW x, IsPrefix(x, V!FileIn(w), n, l), NEW y, y = x \o w[i].bytes
  PROVE  IsPrefix(y, V!FileIn(w), i, l)
<1>1. PICK f, b, q, p, h, v, j, h2 :
        /\ f = V!FileIn(w) /\ b = w[i].bytes /\ q = Len(w[i].bytes) /\ p = V!PlaceOf(i)
        /\ h = Before(i, l) /\ v = V!VolSize(i) /\ j = i + 1 /\ h2 = Before(j, l)
  OBVIOUS
<1>2. /\ b \in Seq(Byte) /\ q = Len(b) /\ q \in Nat /\ p \in Nat /\ v \in Nat /\ l \in Nat
      /\ i \in Nat \ {0} /\ q <= v
  BY <1>1, VolTypes DEF EndsAt
<1>3. h \in Nat /\ h2 = h + q
  <2>1. j = i + 1
    BY <1>1
  <2>2. Before(j, l) = Before(i, l) + Len(w[i].bytes)
    BY <2>1, VolumesAreFull
  <2>3. Before(i, l) \in Nat
    BY <1>2, BeforeIs
  <2> QED
    BY <1>1, <2>2, <2>3
<1>4. x \in Seq(Byte) /\ Len(x) = h /\ \A k \in 1..h : x[k] = f[k]
  BY <1>1 DEF IsPrefix
<1>5. y = x \o b
  BY <1>1
<1>6. /\ y \in Seq(Byte) /\ Len(y) = h2
      /\ \A k \in 1..h2 : y[k] = IF k <= h THEN x[k] ELSE b[k - h]
  <2>1. IsConcat(x \o b, x, b)
    BY <1>2, <1>4, ConcatIs
  <2>2. /\ y \in Seq(Byte) /\ Len(y) = Len(x) + Len(b)
        /\ \A k \in 1..(Len(x) + Len(b)) : y[k] = IF k <= Len(x) THEN x[k] ELSE b[k - Len(x)]
    BY <1>5, <2>1 DEF IsConcat
  <2>3. Len(x) = h /\ Len(b) = q /\ h2 = h + q
    BY <1>2, <1>3, <1>4
  <2> QED
    BY <2>2, <2>3
<1>7. ASSUME NEW k \in 1..h2 PROVE y[k] = f[k]
  <2>1. CASE k <= h
    <3>1. k \in 1..h
      BY <1>3, <2>1
    <3> QED
      BY <1>4, <1>6, <2>1, <3>1
  <2>2. CASE ~(k <= h)
    <3>1. y[k] = b[k - h]
      BY <1>6, <2>2
    <3>2. h = IF p <= l THEN p ELSE l
      BY <1>1 DEF Before
    <3>3. q > 0 => p + q <= l
      BY <1>1 DEF EndsAt, EndOf
    <3>4. h = p /\ k - p \in 1..q /\ k - p \in 1..v /\ k \in 1..l /\ k - p <= q
      BY <1>2, <1>3, <2>2, <3>2, <3>3
    <3>5. f[k] = ByteIn(w, i, k)
      <4>1. FileRight(w, l) /\ In(k, i)
        BY <1>1, <3>4, FileIs DEF In
      <4> QED
        BY <1>1, <3>4, <4>1 DEF FileRight
    <3>6. ByteIn(w, i, k) = b[k - p]
      BY <1>1, <3>4 DEF ByteIn
    <3> QED
      BY <3>1, <3>4, <3>5, <3>6
  <2> QED
    BY <2>1, <2>2
<1> QED
  BY <1>1, <1>6, <1>7 DEF IsPrefix

LEMMA JoinedFile ==
  ASSUME NEW w, VolsRight(w), NEW l, EndsAt(w, l), Covered(w, l, {})
  PROVE  HasFile(w, JoinOf(w))
<1>1. PICK t, n, f : IsJoin(t, w, Len(w)) /\ n = Len(w) /\ f = V!FileIn(w)
  BY JoinExists
<1>2. n \in Nat /\ l \in Nat
  BY <1>1, VolTypes DEF EndsAt
<1> DEFINE S == {k \in Nat : k <= n => IsPrefix(t[k], f, k, l)}
<1>3. 0 \in S
  <2>1. t[0] = <<>> /\ <<>> \in Seq(Byte) /\ Len(<<>>) = 0
    BY <1>1 DEF IsJoin
  <2>2. Before(0 + 1, l) = 0
    <3>1. 0 + 1 = 1
      OBVIOUS
    <3> QED
      BY <1>2, <3>1, BeforeIs
  <2>3. IsPrefix(t[0], f, 0, l)
    BY <2>1, <2>2 DEF IsPrefix
  <2> QED
    BY <2>3
<1>4. ASSUME NEW k \in Nat, k \in S PROVE k + 1 \in S
  <2> SUFFICES ASSUME k + 1 <= n PROVE IsPrefix(t[k + 1], f, k + 1, l)
    OBVIOUS
  <2>1. PICK i : i = k + 1
    OBVIOUS
  <2>2. i \in 1..n /\ i - 1 = k /\ k <= n
    BY <1>2, <2>1
  <2>3. IsPrefix(t[k], f, k, l)
    BY <1>4, <2>2
  <2>4. t[i] = t[k] \o w[i].bytes
    BY <1>1, <2>2 DEF IsJoin
  <2>5. IsPrefix(t[i], f, i, l)
    BY <1>1, <2>1, <2>2, <2>3, <2>4, PrefixStep
  <2> QED
    BY <2>1, <2>5
<1>5. \A k \in Nat : k \in S
  <2> HIDE DEF S
  <2> QED
    BY <1>3, <1>4, NatInd
<1>6. IsPrefix(t[n], f, n, l)
  BY <1>2, <1>5
<1>7. f \in Seq(Byte) /\ Len(f) = l
  BY <1>1, FileIs DEF FileRight
<1>8. Before(n + 1, l) = l
  <2>1. CASE l = 0
    <3>1. PICK m : m = n + 1
      OBVIOUS
    <3>2. Before(m, l) \in Nat /\ Before(m, l) <= l
      BY <1>2, <3>1, BeforeIs
    <3> QED
      BY <2>1, <3>1, <3>2
  <2>2. CASE l # 0
    <3>1. PICK i \in 1..n : Len(w[i].bytes) > 0 /\ EndOf(w, i) = l
      BY <1>1, <2>2 DEF EndsAt
    <3>2. PICK m, p, v, q, e : /\ m = n + 1 /\ p = V!PlaceOf(i) /\ v = V!VolSize(i)
                               /\ q = Len(w[i].bytes) /\ e = V!PlaceOf(m)
      OBVIOUS
    <3>3. i \in Nat \ {0} /\ m \in Nat \ {0} /\ i < m
      BY <1>2, <3>1, <3>2
    <3>4. p + v <= e /\ p \in Nat /\ v \in Nat /\ e \in Nat
      BY <3>2, <3>3, PlacesGrow, PlaceIs
    <3>5. q \in Nat /\ q <= v /\ l = p + q
      BY <1>1, <3>1, <3>2, VolTypes DEF EndOf
    <3>6. Before(m, l) = IF e <= l THEN e ELSE l
      BY <3>2 DEF Before
    <3> QED
      BY SMTT(30), <1>2, <3>2, <3>4, <3>5, <3>6
  <2> QED
    BY <2>1, <2>2
<1>9. t[n] = f
  <2>1. PICK x : x = t[n]
    OBVIOUS
  <2>2. x \in Seq(Byte) /\ Len(x) = l /\ \A k \in 1..l : x[k] = f[k]
    BY <1>6, <1>8, <2>1 DEF IsPrefix
  <2>3. x = f
    BY <1>7, <2>2, SeqEqual
  <2> QED
    BY <2>1, <2>3
<1>10. Joins(t, w, JoinOf(w))
  BY <1>1, <1>2, JoinIs
<1> QED
  BY <1>1, <1>9, <1>10 DEF Joins, HasFile

-----------------------------------------------------------------------------
(* Volumes: the stream                                                      *)

VolInv ==
  /\ V!TypeOK /\ VolsRight(vVols)
  /\ V!PlaceOf(vStreamIndex) + vOffsetPos = vAbsPos
  /\ vPc = "write" => ~vFailed /\ vData \in Data /\ vAbsPos + Len(vData) <= MaxSize
  /\ Covered(vVols, Len(V!Content), vSkipped)

\* The file of the volumes has an end.
LEMMA ContentIs ==
  ASSUME VolsRight(vVols)
  PROVE  /\ EndsAt(vVols, Len(V!Content)) /\ FileRight(vVols, Len(V!Content))
         /\ V!Content \in Seq(Byte) /\ Len(V!Content) \in Nat
<1>1. PICK l : EndsAt(vVols, l)
  BY EndExists
<1>2. FileRight(vVols, l)
  BY <1>1, FileIs
<1>3. V!Content \in Seq(Byte) /\ Len(V!Content) = l
  BY <1>2 DEF FileRight, V!Content
<1> QED
  BY <1>1, <1>2, <1>3 DEF EndsAt

LEMMA StreamTypes ==
  ASSUME VolInv
  PROVE  /\ vStreamIndex \in Nat \ {0} /\ vOffsetPos \in Nat /\ vAbsPos \in Nat /\ vAbsPos <= MaxSize
         /\ MaxSize \in Nat /\ vSkipped \subseteq 0..(MaxSize - 1) /\ vFailed \in BOOLEAN
         /\ vPc \in {"idle", "write", "closed"} /\ vData \in Data \cup {<<>>}
         /\ Len(vVols) \in Nat /\ vVols \in Seq(VolRecord)
         /\ Places \subseteq 0..MaxSize
         /\ V!PlaceOf(vStreamIndex) \in Nat /\ V!VolSize(vStreamIndex) \in Nat
         /\ V!PlaceOf(vStreamIndex) + vOffsetPos = vAbsPos
<1>1. MaxSize \in Nat /\ Places \subseteq 0..MaxSize
  BY Numbers
<1>2. vAbsPos \in 0..MaxSize /\ vStreamIndex \in Nat \ {0}
  BY DEF VolInv, V!TypeOK
<1>3. V!PlaceOf(vStreamIndex) \in Nat /\ V!VolSize(vStreamIndex) \in Nat
  BY <1>2, PlaceIs
<1>4. Len(vVols) \in Nat /\ vVols \in Seq(VolRecord)
  BY VolTypes DEF VolInv, VolsRight
<1> QED
  BY <1>1, <1>2, <1>3, <1>4 DEF VolInv, V!TypeOK

\* The invariant again, for volumes that are right.
LEMMA VolInvAgain ==
  ASSUME VolsRight(vVols)',
         vStreamIndex' \in Nat \ {0}, vOffsetPos' \in Nat, vAbsPos' \in 0..MaxSize,
         vPc' \in {"idle", "write", "closed"}, vData' \in Data \cup {<<>>},
         vSkipped' \subseteq 0..(MaxSize - 1), vFailed' \in BOOLEAN,
         V!PlaceOf(vStreamIndex)' + vOffsetPos' = vAbsPos',
         vPc' = "write" => ~vFailed' /\ vData' \in Data /\ vAbsPos' + Len(vData') <= MaxSize,
         Covered(vVols, Len(V!Content), vSkipped)'
  PROVE  VolInv'
<1>1. vVols' \in Seq([bytes : Seq(Byte), pos : Nat, realSize : Nat])
  BY DEF VolsRight, VolRecord
<1> QED
  BY <1>1 DEF VolInv, V!TypeOK

LEMMA VolInitial == V!Init => VolInv
<1> SUFFICES ASSUME V!Init PROVE VolInv
  OBVIOUS
<1>1. vVols = <<>> /\ vStreamIndex = 1 /\ vOffsetPos = 0 /\ vAbsPos = 0
  BY DEF V!Init
<1>2. Len(vVols) = 0 /\ vVols \in Seq(VolRecord)
  BY <1>1
<1>3. VolsRight(vVols)
  BY <1>2 DEF VolsRight
<1>4. Covered(vVols, Len(V!Content), vSkipped)
  BY <1>2 DEF Covered
<1>5. V!TypeOK
  <2>1. vVols \in Seq([bytes : Seq(Byte), pos : Nat, realSize : Nat])
    BY <1>2 DEF VolRecord
  <2>2. 0 \in 0..MaxSize /\ 1 \in Nat \ {0} /\ 0 \in Nat
    BY Numbers
  <2>3. vPc = "idle" /\ vData = <<>> /\ vSkipped = {} /\ vFailed = FALSE
    BY DEF V!Init
  <2> QED
    BY <1>1, <2>1, <2>2, <2>3 DEF V!TypeOK
<1>6. V!PlaceOf(vStreamIndex) + vOffsetPos = vAbsPos
  BY <1>1, PlaceIs
<1> QED
  BY <1>3, <1>4, <1>5, <1>6 DEF VolInv, V!Init

LEMMA VolInitialFile == V!Init => V!O!Init
<1> SUFFICES ASSUME V!Init PROVE V!O!Init
  OBVIOUS
<1>1. vVols = <<>> /\ vAbsPos = 0 /\ vPc = "idle" /\ ~vFailed
  BY DEF V!Init
<1>2. Len(vVols) = 0
  BY <1>1
<1>3. VolsRight(vVols)
  BY VolInitial DEF VolInv
<1>4. EndsAt(vVols, Len(V!Content)) /\ V!Content \in Seq(Byte)
  BY <1>3, ContentIs
<1>5. Len(V!Content) = 0
  BY <1>2, <1>4 DEF EndsAt
<1>6. V!Content = <<>>
  BY <1>4, <1>5, EmptySeq
<1> QED
  BY <1>1, <1>6 DEF V!O!Init

\* What a step of the stream is of the file.
FileStep == V!O!Next \/ UNCHANGED V!O!fileVars

\* The file stays as it is while a call is at work.
LEMMA FileStays ==
  ASSUME vFailed' = vFailed, vAbsPos' = vAbsPos, vPc # "closed", vPc' # "closed",
         V!Content' = V!Content
  PROVE  FileStep
<1> QED
  BY DEF FileStep, V!O!fileVars

\* Write begins: nothing has changed.
LEMMA WriteKeeps ==
  ASSUME VolInv, NEW d \in Data, V!Write(d)
  PROVE  VolInv' /\ FileStep
<1>1. /\ vPc = "idle" /\ ~vFailed /\ vAbsPos + Len(d) <= MaxSize /\ vPc' = "write" /\ vData' = d
      /\ vVols' = vVols /\ vStreamIndex' = vStreamIndex /\ vOffsetPos' = vOffsetPos
      /\ vAbsPos' = vAbsPos /\ vSkipped' = vSkipped /\ vFailed' = vFailed
  BY DEF V!Write
<1>2. V!Content' = V!Content
  BY <1>1 DEF V!Content
<1>3. VolInv'
  <2>1. VolsRight(vVols)' /\ Covered(vVols, Len(V!Content), vSkipped)'
    BY <1>1, <1>2 DEF VolInv
  <2>2. V!PlaceOf(vStreamIndex)' + vOffsetPos' = vAbsPos'
    BY <1>1 DEF VolInv
  <2>3. V!TypeOK
    BY DEF VolInv
  <2> QED
    BY <1>1, <2>1, <2>2, <2>3, VolInvAgain DEF V!TypeOK
<1>4. FileStep
  BY <1>1, <1>2, FileStays
<1> QED
  BY <1>3, <1>4

\* A volume is created.
LEMMA CreateKeeps ==
  ASSUME VolInv, V!CreateVolume
  PROVE  VolInv' /\ FileStep
<1> DEFINE v == [bytes |-> <<>>, pos |-> 0, realSize |-> 0]
<1>1. /\ vPc = "write" /\ vPc' = vPc /\ vData' = vData
      /\ vVols' = Append(vVols, v) /\ vStreamIndex' = vStreamIndex /\ vOffsetPos' = vOffsetPos
      /\ vAbsPos' = vAbsPos /\ vSkipped' = vSkipped /\ vFailed' = vFailed
  BY DEF V!CreateVolume
<1>2. v \in VolRecord /\ v.bytes = <<>> /\ v.realSize = 0
  BY DEF VolRecord
<1> HIDE DEF v
<1>3. Created(vVols, vVols')
  <2>1. vVols \in Seq(VolRecord) /\ Len(vVols) \in Nat
    BY StreamTypes
  <2>2. /\ vVols' \in Seq(VolRecord) /\ Len(vVols') = Len(vVols) + 1
        /\ \A i \in 1..Len(vVols) : vVols'[i] = vVols[i]
        /\ vVols'[Len(vVols) + 1] = v
    BY <1>1, <1>2, <2>1, AppendProperties
  <2>3. \A i \in 1..Len(vVols') : i > Len(vVols) => i = Len(vVols) + 1
    BY <2>1, <2>2
  <2> QED
    BY <1>2, <2>2, <2>3 DEF Created
<1>4. VolsRight(vVols) /\ EndsAt(vVols, Len(V!Content)) /\ Covered(vVols, Len(V!Content), vSkipped)
  BY ContentIs DEF VolInv
<1>5. /\ VolsRight(vVols') /\ V!FileIn(vVols') = V!FileIn(vVols)
      /\ Covered(vVols', Len(V!Content), vSkipped)
  BY <1>3, <1>4, CreatedFile
<1>6. V!Content' = V!Content
  BY <1>5 DEF V!Content
<1>7. VolInv'
  <2>1. VolsRight(vVols)' /\ Covered(vVols, Len(V!Content), vSkipped)'
    BY <1>1, <1>5, <1>6
  <2>2. V!PlaceOf(vStreamIndex)' + vOffsetPos' = vAbsPos'
    BY <1>1 DEF VolInv
  <2>3. V!TypeOK
    BY DEF VolInv
  <2>4. vPc' = "write" => ~vFailed' /\ vData' \in Data /\ vAbsPos' + Len(vData') <= MaxSize
    BY <1>1 DEF VolInv
  <2> QED
    BY <1>1, <2>1, <2>2, <2>3, <2>4, VolInvAgain DEF V!TypeOK
<1>8. FileStep
  BY <1>1, <1>6, FileStays
<1> QED
  BY <1>7, <1>8

\* The walk goes on to the next volume.
LEMMA WalkKeeps ==
  ASSUME VolInv, V!NextVolume
  PROVE  VolInv' /\ FileStep
<1>1. /\ vPc = "write" /\ vPc' = vPc /\ vData' = vData /\ ~(vOffsetPos < V!VolSize(vStreamIndex))
      /\ vVols' = vVols /\ vStreamIndex' = vStreamIndex + 1
      /\ vOffsetPos' = vOffsetPos - V!VolSize(vStreamIndex)
      /\ vAbsPos' = vAbsPos /\ vSkipped' = vSkipped /\ vFailed' = vFailed
  BY DEF V!NextVolume, V!InVolume
<1>2. V!Content' = V!Content
  BY <1>1 DEF V!Content
<1>3. VolInv'
  <2>1. VolsRight(vVols)' /\ Covered(vVols, Len(V!Content), vSkipped)'
    BY <1>1, <1>2 DEF VolInv
  <2>2. V!PlaceOf(vStreamIndex)' + vOffsetPos' = vAbsPos' /\ vOffsetPos' \in Nat
        /\ vStreamIndex' \in Nat \ {0}
    <3>1. PICK i, j, p, v, e : /\ i = vStreamIndex /\ j = vStreamIndex' /\ p = V!PlaceOf(i)
                               /\ v = V!VolSize(i) /\ e = V!PlaceOf(j)
      OBVIOUS
    <3>2. i \in Nat \ {0} /\ j = i + 1 /\ p \in Nat /\ v \in Nat /\ p + vOffsetPos = vAbsPos
          /\ vOffsetPos \in Nat /\ vAbsPos \in Nat
      BY <1>1, <3>1, StreamTypes
    <3>3. e = p + v
      BY <3>1, <3>2, PlaceIs
    <3>4. ~(vOffsetPos < v) /\ vOffsetPos' = vOffsetPos - v
      BY <1>1, <3>1
    <3>5. vOffsetPos' \in Nat /\ e + vOffsetPos' = vAbsPos /\ j \in Nat \ {0}
      BY <3>2, <3>3, <3>4
    <3>6. V!PlaceOf(vStreamIndex)' = e
      BY <3>1 DEF V!PlaceOf, V!VolSize
    <3> QED
      BY <1>1, <3>1, <3>5, <3>6
  <2>3. V!TypeOK
    BY DEF VolInv
  <2>4. vPc' = "write" => ~vFailed' /\ vData' \in Data /\ vAbsPos' + Len(vData') <= MaxSize
    BY <1>1 DEF VolInv
  <2> QED
    BY <1>1, <2>1, <2>2, <2>3, <2>4, VolInvAgain DEF V!TypeOK
<1>4. FileStep
  BY <1>1, <1>2, FileStays
<1> QED
  BY <1>3, <1>4

\* A call fails.
LEMMA FailKeeps ==
  ASSUME VolInv, V!WriteFails \/ V!SetSizeFails
  PROVE  VolInv' /\ FileStep
<1>1. /\ vPc \in {"write", "idle"} /\ vPc' = "idle" /\ vData' \in Data \cup {<<>>} /\ vFailed' = TRUE
      /\ vVols' = vVols /\ vStreamIndex' = vStreamIndex /\ vOffsetPos' = vOffsetPos
      /\ vAbsPos' = vAbsPos /\ vSkipped' = vSkipped /\ ~vFailed
  BY DEF V!WriteFails, V!SetSizeFails, VolInv, V!TypeOK
<1>2. V!Content' = V!Content
  BY <1>1 DEF V!Content
<1>3. VolInv'
  <2>1. VolsRight(vVols)' /\ Covered(vVols, Len(V!Content), vSkipped)'
    BY <1>1, <1>2 DEF VolInv
  <2>2. V!PlaceOf(vStreamIndex)' + vOffsetPos' = vAbsPos'
    BY <1>1 DEF VolInv
  <2>3. V!TypeOK
    BY DEF VolInv
  <2> QED
    BY <1>1, <2>1, <2>2, <2>3, VolInvAgain DEF V!TypeOK
<1>4. V!O!Fail
  BY <1>1 DEF V!O!Fail
<1> QED
  BY <1>3, <1>4 DEF FileStep, V!O!Next

\* Seek only sets the position.
LEMMA SeekKeeps ==
  ASSUME VolInv, NEW p \in Places, V!Seek(p)
  PROVE  VolInv' /\ FileStep
<1>1. /\ vPc = "idle" /\ ~vFailed /\ vPc' = vPc /\ vData' = vData /\ vFailed' = vFailed
      /\ vVols' = vVols /\ vStreamIndex' = 1 /\ vOffsetPos' = p
      /\ vAbsPos' = p /\ vSkipped' = vSkipped
  BY DEF V!Seek, V!WalkFrom
<1>2. V!Content' = V!Content
  BY <1>1 DEF V!Content
<1>3. VolInv'
  <2>1. VolsRight(vVols)' /\ Covered(vVols, Len(V!Content), vSkipped)'
    BY <1>1, <1>2 DEF VolInv
  <2>2. p \in 0..MaxSize /\ p \in Nat
    BY StreamTypes
  <2>3. V!PlaceOf(vStreamIndex)' + vOffsetPos' = vAbsPos'
    <3>1. V!PlaceOf(vStreamIndex)' = V!PlaceOf(vStreamIndex')
      BY DEF V!PlaceOf, V!VolSize
    <3> QED
      BY <1>1, <2>2, <3>1, PlaceIs
  <2>4. V!TypeOK
    BY DEF VolInv
  <2> QED
    BY <1>1, <2>1, <2>2, <2>3, <2>4, VolInvAgain DEF V!TypeOK
<1>4. V!O!Seek(p)
  BY <1>1, <1>2 DEF V!O!Seek
<1> QED
  BY <1>3, <1>4 DEF FileStep, V!O!Next

\* Close puts the volumes together.
LEMMA CloseKeeps ==
  ASSUME VolInv, V!Close
  PROVE  VolInv' /\ FileStep
<1>1. /\ vPc = "idle" /\ (vFailed \/ vSkipped = {}) /\ vPc' = "closed" /\ vData' = vData
      /\ vFailed' = vFailed /\ vVols' = vVols /\ vStreamIndex' = vStreamIndex
      /\ vOffsetPos' = vOffsetPos /\ vAbsPos' = vAbsPos /\ vSkipped' = vSkipped
  BY DEF V!Close
<1>2. V!Content' = V!Content
  BY <1>1 DEF V!Content
<1>3. VolInv'
  <2>1. VolsRight(vVols)' /\ Covered(vVols, Len(V!Content), vSkipped)'
    BY <1>1, <1>2 DEF VolInv
  <2>2. V!PlaceOf(vStreamIndex)' + vOffsetPos' = vAbsPos'
    BY <1>1 DEF VolInv
  <2>3. V!TypeOK
    BY DEF VolInv
  <2> QED
    BY <1>1, <2>1, <2>2, <2>3, VolInvAgain DEF V!TypeOK
<1>4. V!O!Close
  <2>1. V!Joined = JoinOf(vVols)
    BY DEF V!Joined, JoinOf
  <2>2. V!Joined' = V!Joined
    BY <1>1 DEF V!Joined
  <2>3. V!Joined \in Seq(Byte)
    BY <2>1, JoinedType DEF VolInv
  <2>4. ~vFailed => V!Joined = V!Content
    <3> SUFFICES ASSUME ~vFailed PROVE V!Joined = V!Content
      OBVIOUS
    <3>1. VolsRight(vVols) /\ EndsAt(vVols, Len(V!Content)) /\ Covered(vVols, Len(V!Content), {})
      BY <1>1, ContentIs DEF VolInv
    <3>2. HasFile(vVols, JoinOf(vVols))
      BY <3>1, JoinedFile
    <3> QED
      BY <2>1, <3>2 DEF HasFile, V!Content
  <2> HIDE DEF VolInv
  <2> QED
    BY <1>1, <1>2, <2>2, <2>3, <2>4 DEF V!O!Close
<1> QED
  BY <1>3, <1>4 DEF FileStep, V!O!Next

\* Bytes are written into a volume.
LEMMA StoreKeeps ==
  ASSUME VolInv, V!WriteToVolume
  PROVE  VolInv' /\ FileStep
<1>1. PICK s, off, a, l, w, v : /\ s = vStreamIndex /\ off = vOffsetPos /\ a = vAbsPos
                                /\ l = Len(V!Content) /\ w = vVols /\ v = V!VolSize(s)
  OBVIOUS
<1>2. /\ vPc = "write" /\ s <= Len(w) /\ off < v /\ vPc' = "idle" /\ vData' = <<>>
      /\ vFailed' = vFailed
  BY <1>1 DEF V!WriteToVolume, V!InVolume
<1>3. PICK n \in 1..V!MinOf(Len(vData), v - off) :
       /\ vVols' = [w EXCEPT ![s] =
                     [bytes |-> V!O!Stored(@.bytes, off, SubSeq(vData, 1, n)),
                      pos |-> off + n,
                      realSize |-> V!MaxOf(@.realSize, off + n)]]
       /\ vAbsPos' = a + n
       /\ vSkipped' = (vSkipped \cup l..(a - 1)) \ a..(a + n - 1)
       /\ IF off + n = v
          THEN vStreamIndex' = s + 1 /\ vOffsetPos' = 0
          ELSE vStreamIndex' = s /\ vOffsetPos' = off + n
  BY <1>1 DEF V!WriteToVolume
<1>4. /\ s \in Nat \ {0} /\ off \in Nat /\ a \in Nat /\ l \in Nat /\ v \in Nat /\ Len(w) \in Nat
      /\ V!PlaceOf(s) \in Nat /\ V!PlaceOf(s) + off = a /\ w \in Seq(VolRecord) /\ MaxSize \in Nat
      /\ VolsRight(w) /\ EndsAt(w, l) /\ Covered(w, l, vSkipped) /\ V!FileIn(w) = V!Content
      /\ vSkipped \subseteq 0..(MaxSize - 1)
  BY <1>1, StreamTypes, ContentIs DEF VolInv, V!Content
<1>5. /\ vData \in Data /\ ~vFailed /\ a + Len(vData) <= MaxSize /\ vData \in Seq(Byte)
      /\ Len(vData) \in Nat
  <2>1. Data \subseteq Seq(Byte)
    BY OutStreamAssumption
  <2> QED
    BY <1>1, <1>2, <2>1, LenProperties DEF VolInv
<1>6. n \in Nat /\ n > 0 /\ n <= Len(vData) /\ off + n <= v /\ s \in 1..Len(w) /\ a + n <= MaxSize
  BY <1>2, <1>4, <1>5 DEF V!MinOf
<1>7. PICK d : d = SubSeq(vData, 1, n)
  OBVIOUS
<1>8. d \in Seq(Byte) /\ Len(d) = n
  BY <1>5, <1>6, <1>7
<1>9. PICK b, x : /\ b = V!O!Stored(w[s].bytes, off, d)
                  /\ x = [bytes |-> b, pos |-> off + n, realSize |-> V!MaxOf(w[s].realSize, off + n)]
  OBVIOUS
<1>10. vVols' = [w EXCEPT ![s] = x]
  BY <1>3, <1>7, <1>9
<1>11. w[s].bytes \in Seq(Byte) /\ Len(w[s].bytes) \in Nat /\ w[s].realSize = Len(w[s].bytes)
  BY <1>4, <1>6, VolTypes
<1>12. Overwritten(b, Byte, w[s].bytes, off, d)
  <2>1. b = C!O!Stored(w[s].bytes, off, d)
    BY <1>9 DEF V!O!Stored, V!O!Resized, C!O!Stored, C!O!Resized
  <2>2. Zero \in Byte
    BY OutStreamAssumption
  <2> QED
    BY <1>4, <1>8, <1>11, <2>1, <2>2, StoredIs
<1>13. x \in VolRecord /\ x.bytes = b /\ x.realSize = Len(b)
  <2>1. x.bytes = b /\ x.pos = off + n /\ x.realSize = V!MaxOf(w[s].realSize, off + n)
        /\ x = [bytes |-> b, pos |-> off + n, realSize |-> x.realSize]
    BY <1>9
  <2>2. b \in Seq(Byte) /\ Len(b) = IF Len(w[s].bytes) < off + n THEN off + n ELSE Len(w[s].bytes)
    BY <1>8, <1>12 DEF Overwritten
  <2>3. x.realSize = Len(b)
    BY <1>11, <2>1, <2>2 DEF V!MaxOf
  <2>4. Len(b) \in Nat /\ off + n \in Nat
    BY <1>4, <1>6, <2>2, LenProperties
  <2> QED
    BY <2>1, <2>2, <2>3, <2>4 DEF VolRecord
<1>14. Rewritten(w, vVols', s, off, d)
  <2>1. /\ vVols' \in Seq(VolRecord) /\ Len(vVols') = Len(w) /\ vVols'[s] = x
        /\ \A i \in 1..Len(w) : i # s => vVols'[i] = w[i]
    BY <1>4, <1>6, <1>10, <1>13
  <2> QED
    BY <1>12, <1>13, <2>1 DEF Rewritten
<1>15. HasRoom(w, s, off, d)
  BY <1>1, <1>4, <1>6, <1>8 DEF HasRoom
<1>16. PICK g : g = V!O!Stored(V!Content, a, d)
  OBVIOUS
<1>17. Overwritten(g, Byte, V!Content, a, d)
  <2>1. g = C!O!Stored(V!Content, a, d)
    BY <1>16 DEF V!O!Stored, V!O!Resized, C!O!Stored, C!O!Resized
  <2>2. Zero \in Byte /\ V!Content \in Seq(Byte)
    BY OutStreamAssumption, ContentIs DEF VolInv
  <2> QED
    BY <1>4, <1>8, <2>1, <2>2, StoredIs
<1>18. V!FileIn(vVols') = g /\ Len(g) \in Nat
  <2>1. Changed(g, w, a, d) /\ a = V!PlaceOf(s) + off
    BY <1>4, <1>17 DEF Changed
  <2>2. V!FileIn(vVols') = g
    BY <1>4, <1>14, <1>15, <2>1, WriteBytes
  <2>3. g \in Seq(Byte)
    BY <1>17 DEF Overwritten
  <2> QED
    BY <2>2, <2>3, LenProperties
<1>19. V!Content' = g
  BY <1>18 DEF V!Content
<1>20. Len(g) = IF l < a + Len(d) THEN a + Len(d) ELSE l
  BY <1>1, <1>17 DEF Overwritten
<1>21. Covered(vVols', Len(g), (vSkipped \cup l..(a - 1)) \ a..(a + Len(d) - 1))
  <2>1. a = V!PlaceOf(s) + off
    BY <1>4
  <2> QED
    BY <1>4, <1>14, <1>15, <1>20, <2>1, WriteCovered
<1>22. VolInv'
  <2>1. VolsRight(vVols)'
    <3>1. VolsRight(vVols')
      BY <1>4, <1>14, <1>15, WriteKeepsRight
    <3> QED
      BY <3>1 DEF VolsRight, VolRecord, V!VolSize
  <2>2. Covered(vVols, Len(V!Content), vSkipped)'
    <3>1. Covered(vVols', Len(V!Content'), vSkipped')
      BY <1>3, <1>8, <1>19, <1>21
    <3> QED
      BY <3>1 DEF Covered, In, V!PlaceOf, V!VolSize
  <2>3. vStreamIndex' \in Nat \ {0} /\ vOffsetPos' \in Nat /\ V!PlaceOf(vStreamIndex') + vOffsetPos' = a + n
    <3>1. CASE off + n = v
      <4>1. vStreamIndex' = s + 1 /\ vOffsetPos' = 0
        BY <1>3, <3>1
      <4>2. V!PlaceOf(s + 1) = V!PlaceOf(s) + v
        BY <1>1, <1>4, PlaceIs
      <4>3. V!PlaceOf(vStreamIndex') = V!PlaceOf(s) + v
        BY <4>1, <4>2
      <4> QED
        BY SMTT(30), <1>4, <1>6, <3>1, <4>1, <4>3
    <3>2. CASE off + n # v
      <4>1. vStreamIndex' = s /\ vOffsetPos' = off + n
        BY <1>3, <3>2
      <4> QED
        BY <1>4, <1>6, <4>1
    <3> QED
      BY <3>1, <3>2
  <2>4. V!PlaceOf(vStreamIndex)' + vOffsetPos' = vAbsPos'
    <3>1. V!PlaceOf(vStreamIndex)' = V!PlaceOf(vStreamIndex')
      BY DEF V!PlaceOf, V!VolSize
    <3> QED
      BY <1>3, <2>3, <3>1
  <2>5. vSkipped' \subseteq 0..(MaxSize - 1)
    <3>1. l..(a - 1) \subseteq 0..(MaxSize - 1)
      BY <1>4, <1>6
    <3> QED
      BY <1>3, <1>4, <3>1
  <2>6. vAbsPos' \in 0..MaxSize
    BY <1>3, <1>4, <1>6
  <2>7. /\ vPc' \in {"idle", "write", "closed"} /\ vData' \in Data \cup {<<>>}
        /\ vFailed' \in BOOLEAN /\ vPc' # "write"
    BY <1>2, StreamTypes
  <2>8. vPc' = "write" => ~vFailed' /\ vData' \in Data /\ vAbsPos' + Len(vData') <= MaxSize
    BY <2>7
  <2>9. vStreamIndex' \in Nat \ {0} /\ vOffsetPos' \in Nat
    BY <2>3
  <2> QED
    BY <2>1, <2>2, <2>4, <2>5, <2>6, <2>7, <2>8, <2>9, VolInvAgain
<1>23. V!O!Write(vData)
  <2>1. n \in 1..Len(vData)
    BY <1>5, <1>6
  <2> QED
    BY <1>1, <1>2, <1>3, <1>5, <1>7, <1>16, <1>19, <2>1 DEF V!O!Write
<1> QED
  BY <1>5, <1>22, <1>23 DEF FileStep, V!O!Next

\* The file is cut, of which volumes behind the end are deleted.
LEMMA CutKeeps ==
  ASSUME VolInv, NEW size \in Places, V!SetSize(size)
  PROVE  VolInv' /\ FileStep
<1>1. PICK l, w, longer, cut, rest :
        /\ l = Len(V!Content) /\ w = vVols
        /\ longer = {i \in DOMAIN w : size - V!SizeBefore(i) < w[i].realSize}
        /\ cut = CHOOSE i \in longer : \A j \in longer : i <= j
        /\ rest = size - V!SizeBefore(cut)
  OBVIOUS
<1>2. /\ vPc = "idle" /\ ~vFailed /\ vSkipped = {} /\ size <= l
      /\ vPc' = vPc /\ vData' = vData /\ vFailed' = vFailed /\ vSkipped' = vSkipped
      /\ vAbsPos' = vAbsPos /\ vStreamIndex' = 1 /\ vOffsetPos' = vAbsPos
  BY <1>1 DEF V!SetSize, V!WalkFrom
<1>3. vVols' = IF longer = {} THEN w
               ELSE [SubSeq(w, 1, cut) EXCEPT ![cut].bytes = SubSeq(@, 1, rest),
                                              ![cut].realSize = rest]
  BY SMTT(30), <1>1 DEF V!SetSize
<1>4. /\ l \in Nat /\ size \in Nat /\ VolsRight(w) /\ EndsAt(w, l) /\ Covered(w, l, {})
      /\ V!FileIn(w) = V!Content /\ w \in Seq(VolRecord) /\ Len(w) \in Nat
      /\ V!Content \in Seq(Byte)
  <2>1. Places \subseteq 0..MaxSize /\ MaxSize \in Nat
    BY Numbers
  <2> QED
    BY <1>1, <1>2, <2>1, StreamTypes, ContentIs DEF VolInv, V!Content
<1>5. \A i : V!SizeBefore(i) = SizesBefore(w, i)
  BY <1>1 DEF V!SizeBefore, SizesBefore
<1>6. longer = Longer(w, size)
  BY <1>1, <1>5 DEF Longer
<1>7. PICK g : g = [k \in 1..size |-> V!Content[k]]
  OBVIOUS
<1>8. Cropped(w, size, g)
  <2>1. \A k \in 1..size : V!Content[k] \in Byte
    <3>1. \A k \in 1..size : k \in 1..l
      BY <1>2, <1>4
    <3> QED
      BY <1>1, <1>4, <3>1, ElementOfSeq
  <2>2. g \in Seq(Byte) /\ Len(g) = size
    BY <1>4, <1>7, <2>1, FunctionIsSeq
  <2> QED
    BY <1>4, <1>7, <2>2 DEF Cropped
<1>9. VolsRight(vVols') /\ HasFile(vVols', g) /\ Covered(vVols', size, {})
  <2>1. CASE size = l
    <3>1. vVols' = w
      BY <1>3, <1>4, <1>6, <2>1, NoneLonger
    <3>2. g = V!Content
      <4>1. g \in Seq(Byte) /\ Len(g) = size /\ \A k \in 1..size : g[k] = V!Content[k]
        BY <1>4, <1>8 DEF Cropped
      <4> QED
        BY <1>1, <1>4, <2>1, <4>1, SeqEqual
    <3> QED
      BY <1>4, <2>1, <3>1, <3>2 DEF HasFile
  <2>2. CASE size # l
    <3>0. size < l
      BY <1>2, <1>4, <2>2
    <3>1. PICK c : FirstLonger(w, size, c)
      BY <1>4, <3>0, CutVolume
    <3>2. c \in longer /\ (\A j \in longer : c <= j) /\ c \in 1..Len(w)
      BY <1>6, <3>1 DEF FirstLonger
    <3>3. longer \subseteq Nat
      BY <1>1, <1>4
    <3>4. cut = c
      <4>1. cut \in longer /\ \A j \in longer : cut <= j
        BY <1>1, <3>2
      <4>2. cut \in Nat /\ c \in Nat /\ cut <= c /\ c <= cut
        BY <3>2, <3>3, <4>1
      <4> QED
        BY <4>2
    <3>5. rest = size - V!PlaceOf(c) /\ V!PlaceOf(c) \in Nat /\ V!PlaceOf(c) <= size
      <4>1. rest = size - V!SizeBefore(c)
        BY <1>1, <3>4
      <4>2. V!SizeBefore(c) = V!PlaceOf(c)
        BY <1>5, <3>1 DEF FirstLonger
      <4>3. c \in Nat \ {0} /\ V!PlaceOf(c) <= size
        BY <1>4, <3>1, <3>2 DEF FirstLonger
      <4> QED
        BY <4>1, <4>2, <4>3, PlaceIs
    <3>6. rest \in Nat /\ V!PlaceOf(c) + rest = size
      BY <1>4, <3>5
    <3>7. CutTo(w, vVols', c, rest)
      <4>1. PICK x, y : /\ x = SubSeq(w, 1, c)
                        /\ y = [bytes |-> SubSeq(w[c].bytes, 1, rest), pos |-> w[c].pos, realSize |-> rest]
        OBVIOUS
      <4>2. x \in Seq(VolRecord) /\ Len(x) = c /\ \A i \in 1..c : x[i] = w[i]
        BY <1>4, <3>2, <4>1
      <4>3. c \in 1..c /\ x[c] = w[c] /\ w[c] \in VolRecord
        BY <1>4, <3>2, <4>2, VolTypes
      <4>4. y \in VolRecord
        <5>1. w[c].bytes \in Seq(Byte) /\ Len(w[c].bytes) \in Nat /\ w[c].pos \in Nat
          BY <1>4, <3>2, <4>3, VolTypes DEF VolRecord
        <5>2. rest < Len(w[c].bytes)
          BY <3>1, <3>5 DEF FirstLonger
        <5>3. SubSeq(w[c].bytes, 1, rest) \in Seq(Byte)
          BY <3>6, <5>1, <5>2
        <5> QED
          BY <3>6, <4>1, <5>1, <5>3 DEF VolRecord
      <4>5. vVols' = [x EXCEPT ![c] = y]
        <5>1. longer # {}
          BY <3>2
        <5>2. vVols' = [x EXCEPT ![c].bytes = SubSeq(@, 1, rest), ![c].realSize = rest]
          BY <1>3, <3>4, <4>1, <5>1
        <5>3. [[x[c] EXCEPT !.bytes = SubSeq(@, 1, rest)] EXCEPT !.realSize = rest] = y
          <6>1. PICK r : r = x[c]
            OBVIOUS
          <6>2. r \in [bytes : Seq(Byte), pos : Nat, realSize : Nat] /\ r = w[c]
            BY <4>3, <6>1 DEF VolRecord
          <6>3. PICK b : b = SubSeq(r.bytes, 1, rest)
            OBVIOUS
          <6>4. PICK t : t = [r EXCEPT !.bytes = b]
            OBVIOUS
          <6>5. t = [bytes |-> b, pos |-> r.pos, realSize |-> r.realSize]
            BY <6>2, <6>4
          <6>6. [t EXCEPT !.realSize = rest] = [bytes |-> b, pos |-> r.pos, realSize |-> rest]
            BY <6>5
          <6>7. [[x[c] EXCEPT !.bytes = SubSeq(@, 1, rest)] EXCEPT !.realSize = rest]
                  = [t EXCEPT !.realSize = rest]
            BY <6>1, <6>3, <6>4
          <6>8. y = [bytes |-> b, pos |-> r.pos, realSize |-> rest]
            BY <4>1, <6>2, <6>3
          <6> QED
            BY <6>6, <6>7, <6>8
        <5> QED
          BY <4>2, <4>3, <5>2, <5>3
      <4>6. /\ vVols' \in Seq(VolRecord) /\ Len(vVols') = c /\ vVols'[c] = y
            /\ \A i \in 1..c : i # c => vVols'[i] = w[i]
        BY <4>2, <4>3, <4>4, <4>5
      <4>7. y.bytes = SubSeq(w[c].bytes, 1, rest) /\ y.realSize = rest
        BY <4>1
      <4>8. rest < Len(w[c].bytes)
        BY <3>1, <3>5 DEF FirstLonger
      <4> QED
        BY <3>2, <3>6, <4>6, <4>7, <4>8 DEF CutTo
    <3> QED
      BY <1>4, <1>8, <3>0, <3>6, <3>7, CutFile
  <2> QED
    BY <2>1, <2>2
<1>10. V!Content' = g /\ Len(g) = size
  BY <1>8, <1>9 DEF V!Content, HasFile, Cropped
<1>11. VolInv'
  <2>1. VolsRight(vVols)'
    BY <1>9 DEF VolsRight, VolRecord, V!VolSize
  <2>2. Covered(vVols, Len(V!Content), vSkipped)'
    <3>1. Covered(vVols', Len(V!Content'), vSkipped')
      BY <1>2, <1>9, <1>10
    <3> QED
      BY <3>1 DEF Covered, In, V!PlaceOf, V!VolSize
  <2>3. V!PlaceOf(vStreamIndex)' + vOffsetPos' = vAbsPos' /\ vAbsPos \in Nat
    <3>1. V!PlaceOf(vStreamIndex)' = V!PlaceOf(vStreamIndex')
      BY DEF V!PlaceOf, V!VolSize
    <3> QED
      BY <1>2, <3>1, StreamTypes, PlaceIs
  <2>4. V!TypeOK
    BY DEF VolInv
  <2> QED
    BY <1>2, <2>1, <2>2, <2>3, <2>4, VolInvAgain DEF V!TypeOK
<1>12. V!O!SetSize(size)
  <2>1. V!O!Resized(V!Content, size) = g
    <3>1. \A k \in 1..size : k <= l
      BY <1>2, <1>4
    <3> QED
      BY <1>1, <1>7, <3>1 DEF V!O!Resized
  <2> QED
    BY <1>2, <1>10, <2>1 DEF V!O!SetSize
<1> QED
  BY <1>11, <1>12 DEF FileStep, V!O!Next

\* Every step keeps the invariant and is one of the file.
LEMMA VolStep ==
  ASSUME VolInv, [V!Next]_(V!vars)
  PROVE  VolInv' /\ FileStep
<1>1. CASE \E d \in Data : V!Write(d)
  BY <1>1, WriteKeeps
<1>2. CASE V!CreateVolume
  BY <1>2, CreateKeeps
<1>3. CASE V!NextVolume
  BY <1>3, WalkKeeps
<1>4. CASE V!WriteToVolume
  BY <1>4, StoreKeeps
<1>5. CASE V!WriteFails \/ V!SetSizeFails
  BY <1>5, FailKeeps
<1>6. CASE \E p \in Places : V!Seek(p)
  BY <1>6, SeekKeeps
<1>7. CASE \E p \in Places : V!SetSize(p)
  BY <1>7, CutKeeps
<1>8. CASE V!Close
  BY <1>8, CloseKeeps
<1>9. CASE UNCHANGED V!vars
  <2>1. /\ vVols' = vVols /\ vStreamIndex' = vStreamIndex /\ vOffsetPos' = vOffsetPos
        /\ vAbsPos' = vAbsPos /\ vPc' = vPc /\ vData' = vData /\ vSkipped' = vSkipped
        /\ vFailed' = vFailed
    BY <1>9 DEF V!vars
  <2>2. V!Content' = V!Content
    BY <2>1 DEF V!Content
  <2>3. V!Joined' = V!Joined
    BY <2>1 DEF V!Joined
  <2>4. VolInv'
    <3>1. VolsRight(vVols)' /\ Covered(vVols, Len(V!Content), vSkipped)'
      BY <2>1, <2>2 DEF VolInv
    <3>2. V!PlaceOf(vStreamIndex)' + vOffsetPos' = vAbsPos'
      BY <2>1 DEF VolInv
    <3>3. vPc' = "write" => ~vFailed' /\ vData' \in Data /\ vAbsPos' + Len(vData') <= MaxSize
      BY <2>1 DEF VolInv
    <3>4. V!TypeOK
      BY DEF VolInv
    <3> QED
      BY <2>1, <3>1, <3>2, <3>3, <3>4, VolInvAgain DEF V!TypeOK
  <2>5. UNCHANGED V!O!fileVars
    BY <2>1, <2>2, <2>3 DEF V!O!fileVars
  <2> QED
    BY <2>4, <2>5 DEF FileStep
<1> QED
  BY <1>1, <1>2, <1>3, <1>4, <1>5, <1>6, <1>7, <1>8, <1>9 DEF V!Next, V!Terminating

\* A behaviour of MCOperations is one of the volumes that may stop for ever.
LEMMA VolumesPart ==
  /\ mcInit => V!Init
  /\ [mcNext]_mcVars => (part = "volumes" /\ V!Next) \/ UNCHANGED V!vars
<1>1. mcInit => V!Init
  BY DEF mcInit
<1>2. [mcNext]_mcVars => (part = "volumes" /\ V!Next) \/ UNCHANGED V!vars
  BY DEF mcNext, mcVars, vVars, V!vars
<1> QED
  BY <1>1, <1>2

LEMMA VolInvHolds == mcSpec => []VolInv
<1>1. mcInit => VolInv
  BY VolumesPart, VolInitial
<1>2. VolInv /\ [mcNext]_mcVars => VolInv'
  BY VolumesPart, VolStep
<1> QED
  BY <1>1, <1>2, PTL DEF mcSpec

\* COutMultiVolStream, with the volumes put together, is a plain file: over writes that cross
\* borders, gaps, and cuts inside and between volumes, whatever their sizes.
THEOREM VolumesAreAFile == mcSpec => VolumesImplementOutFile
<1>1. mcInit => V!O!Init
  BY VolumesPart, VolInitialFile
<1>2. VolInv /\ [mcNext]_mcVars => [part = "volumes" /\ V!O!Next]_(V!O!fileVars)
  <2> SUFFICES ASSUME VolInv, [mcNext]_mcVars
               PROVE  [part = "volumes" /\ V!O!Next]_(V!O!fileVars)
    OBVIOUS
  <2>1. CASE part = "volumes" /\ V!Next
    BY <2>1, VolStep DEF FileStep
  <2>2. CASE UNCHANGED V!vars
    <3>1. vVols' = vVols /\ vAbsPos' = vAbsPos /\ vPc' = vPc /\ vFailed' = vFailed
      BY <2>2 DEF V!vars
    <3>2. V!Content' = V!Content /\ V!Joined' = V!Joined
      BY <3>1 DEF V!Content, V!Joined
    <3> QED
      BY <3>1, <3>2 DEF V!O!fileVars
  <2> QED
    BY <2>1, <2>2, VolumesPart
<1> QED
  BY <1>1, <1>2, VolInvHolds, PTL DEF mcSpec, VolumesImplementOutFile

\* The fields of the cached stream mirror the file below (the comments of ZipUpdate.cpp:825-826),
\* and those of the volumes stay in range, in particular no offset passes below zero.
THEOREM StreamFieldsAgree == mcSpec => []FieldsAgree
<1>1. CacheInv /\ VolInv => FieldsAgree
  <2>1. VolInv => V!TypeOK
    BY DEF VolInv
  <2> QED
    BY <2>1, CacheInvImplies DEF FieldsAgree
<1> QED
  BY <1>1, CacheInvHolds, VolInvHolds, PTL

=============================================================================
