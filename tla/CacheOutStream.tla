--------------------------- MODULE CacheOutStream ---------------------------
(***************************************************************************)
(* CCacheOutStream of CPP/7zip/Archive/Zip/ZipUpdate.cpp, the stream that  *)
(* every zip archive is written through.  The bytes of the file from       *)
(* cachedPos on, cachedSize of them, are in the ring cache and not yet in  *)
(* the file below (phys), which is written in blocks.  The zip writer      *)
(* seeks back to store a local header when the data after it is known.     *)
(*                                                                         *)
(* A call is a sequence of steps: each round of the loop of MyWrite and of *)
(* the loop that fills a gap with zeros is one.  After a call that failed  *)
(* the caller gives up and releases the stream.                            *)
(***************************************************************************)
EXTENDS OutStreams

VARIABLES
  phys,        \* what the file below holds
  filePos,     \* the position of the file below, which phyPos stands for
  phyPos, phySize, virtPos, virtSize, cachedPos, cachedSize, cache,  \* the fields
  pc,          \* where the present call is
  data,        \* what Write has been given
  left,        \* the parameter size of the MyWrite in progress
  failed       \* a call has returned an error

phyVars == <<phys, filePos, phyPos, phySize>>
virtVars == <<virtPos, virtSize>>
cacheVars == <<cachedPos, cachedSize, cache>>
vars == <<phyVars, virtVars, cacheVars, pc, data, left, failed>>

\* "gap", "zeros" and "store" are the parts of Write.
Place == {"idle", "gap", "zeros", "store", "release", "closed"}

TypeOK ==
  /\ phys \in Seq(Byte) /\ filePos \in 0..(MaxSize + CacheSize)
  /\ phyPos \in 0..MaxSize /\ phySize \in 0..MaxSize
  /\ virtPos \in 0..MaxSize /\ virtSize \in 0..MaxSize
  /\ cachedPos \in 0..MaxSize /\ cachedSize \in 0..CacheSize
  /\ cache \in [0..(CacheSize - 1) -> Byte]
  /\ pc \in Place /\ data \in Data \cup {<<>>}
  /\ left \in 0..CacheSize /\ failed \in BOOLEAN

\* Allocate and Init for an empty file.
Init ==
  /\ phys = <<>> /\ filePos = 0 /\ phyPos = 0 /\ phySize = 0
  /\ virtPos = 0 /\ virtSize = 0
  /\ cachedPos = 0 /\ cachedSize = 0 /\ cache = [k \in 0..(CacheSize - 1) |-> Zero]
  /\ pc = "idle" /\ data = <<>> /\ left = 0 /\ failed = FALSE

MinOf(a, b) == IF a < b THEN a ELSE b
MaxOf(a, b) == IF a < b THEN b ELSE a
cachedEnd == cachedPos + cachedSize
Slot(p) == p % CacheSize    \* p & kCacheMask

\* The file as the zip writer sees it: cached bytes hide those of the file.
Virtual ==
  [k \in 1..virtSize |->
     IF k - 1 \in cachedPos..(cachedEnd - 1) THEN cache[Slot(k - 1)]
     ELSE IF k <= Len(phys) THEN phys[k] ELSE Zero]

O == INSTANCE OutFile WITH
  content <- IF failed THEN <<>> ELSE Virtual, pos <- virtPos,
  state <- IF pc = "closed" THEN "closed" ELSE IF failed THEN "failed" ELSE "open",
  disk <- IF pc = "closed" THEN phys ELSE <<>>

-----------------------------------------------------------------------------
(* MyWrite                                                                 *)

\* What MyWriteBlock asks for: the bytes up to the next block boundary.
ToBlockEnd == BlockSize - (cachedPos % BlockSize)

\* The bytes written in one round: they lie next to each other in the ring.
Chunk == MinOf(MinOf(CacheSize - Slot(cachedPos), cachedSize), left)
Bytes(n) == [k \in 1..n |-> cache[Slot(cachedPos) + k - 1]]

\* Where the bytes go: a Seek is made only if phyPos says that it is needed.
Target == IF phyPos # cachedPos THEN cachedPos ELSE filePos

\* Seek if need be, WriteStream, and the fields are brought up to date.
MyWrite ==
  /\ left > 0
  /\ phys' = O!Stored(phys, Target, Bytes(Chunk))
  /\ filePos' = Target + Chunk
  /\ phyPos' = cachedPos + Chunk
  /\ phySize' = MaxOf(phySize, cachedPos + Chunk)
  /\ cachedPos' = cachedPos + Chunk
  /\ cachedSize' = cachedSize - Chunk
  /\ left' = IF cachedSize = Chunk THEN 0 ELSE left - Chunk
  /\ UNCHANGED <<virtVars, cache, pc, data, failed>>

\* The file below fails, perhaps after some bytes, which the fields then know
\* nothing of.  Write returns the error; the destructor does not look at it.
MyWriteFails ==
  /\ left > 0
  /\ (IF pc = "release" THEN "release" ELSE "call") \in MayFail
  /\ \E n \in 0..(Chunk - 1) :
       phys' = O!Stored(phys, Target, Bytes(n)) /\ filePos' = Target + n
  /\ phyPos' = cachedPos
  /\ left' = 0
  /\ IF pc = "release" THEN UNCHANGED <<pc, data, failed>>
       ELSE pc' = "idle" /\ data' = <<>> /\ failed' = TRUE
  /\ UNCHANGED <<phySize, virtVars, cacheVars>>

-----------------------------------------------------------------------------
(* Write                                                                   *)

\* The position is before the cached bytes, or behind them with bytes of the
\* file between.
FlushBefore == virtPos < cachedPos \/ (cachedEnd < virtPos /\ cachedEnd < phySize)

Write(d) ==
  /\ pc = "idle" /\ ~failed /\ virtPos + Len(d) <= MaxSize
  /\ pc' = "gap" /\ data' = d
  /\ left' = IF cachedSize # 0 /\ FlushBefore THEN cachedSize ELSE 0
  /\ UNCHANGED <<phyVars, virtVars, cacheVars, failed>>

\* Is there a gap before the position, from the cached bytes or from the end of
\* the file on?
FindGap ==
  /\ pc = "gap" /\ left = 0
  /\ LET afterFile == cachedSize = 0 /\ phySize < virtPos
         afterCache == cachedSize # 0 /\ cachedEnd < virtPos
     IN  /\ cachedPos' = IF afterFile THEN phySize ELSE cachedPos
         /\ pc' = IF afterFile \/ afterCache THEN "zeros" ELSE "store"
  /\ UNCHANGED <<phyVars, virtVars, cachedSize, cache, data, left, failed>>

FillZeros ==
  /\ pc = "zeros" /\ left = 0
  /\ LET n == MinOf(CacheSize - Slot(cachedEnd), virtPos - cachedEnd)
     IN  IF n > CacheSize - cachedSize
         THEN left' = ToBlockEnd /\ UNCHANGED <<cachedSize, cache, pc>>
         ELSE /\ cache' = [k \in DOMAIN cache |->
                     IF k - Slot(cachedEnd) \in 0..(n - 1) THEN Zero ELSE cache[k]]
              /\ cachedSize' = cachedSize + n
              /\ pc' = IF n = 0 THEN "store" ELSE "zeros"
              /\ UNCHANGED left
  /\ UNCHANGED <<phyVars, virtVars, cachedPos, data, failed>>

\* How many bytes can be stored at the position, if the first cached byte is at
\* first: up to the end of the ring, of the cached bytes that are overwritten,
\* or of the free part.
Room(first) ==
  LET toEnd == CacheSize - Slot(virtPos)
      cached == first + cachedSize - virtPos
  IN  IF cached # 0 THEN MinOf(toEnd, cached)
      ELSE IF Slot(first) > Slot(virtPos) THEN Slot(first) - Slot(virtPos)
      ELSE toEnd

Store ==
  LET first == IF cachedSize = 0 THEN virtPos ELSE cachedPos
      n == MinOf(Len(data), Room(first))
  IN
  /\ pc = "store" /\ left = 0
  /\ IF cachedSize = CacheSize /\ virtPos = cachedEnd
     THEN left' = ToBlockEnd /\ UNCHANGED <<virtVars, cacheVars, pc, data>>
     ELSE /\ cache' = [k \in DOMAIN cache |->
                 IF k - Slot(virtPos) \in 0..(n - 1) THEN data[k - Slot(virtPos) + 1] ELSE cache[k]]
          /\ cachedPos' = first
          /\ cachedSize' = IF virtPos = first + cachedSize THEN cachedSize + n ELSE cachedSize
          /\ virtPos' = virtPos + n
          /\ virtSize' = MaxOf(virtSize, virtPos + n)
          /\ pc' = "idle" /\ data' = <<>>
          /\ UNCHANGED left
  /\ UNCHANGED <<phyVars, failed>>

-----------------------------------------------------------------------------
Seek(p) ==
  /\ pc = "idle" /\ ~failed
  /\ virtPos' = p
  /\ UNCHANGED <<phyVars, virtSize, cacheVars, pc, data, left, failed>>

\* A slip: the cached bytes that straddle the new end are all kept.
KeptWhole(size) == IF size <= cachedPos THEN 0 ELSE cachedSize

\* How many cached bytes are before the new end.
Kept(size) == IF size <= cachedPos THEN 0 ELSE MinOf(cachedSize, size - cachedPos)

SetSize(size) ==
  /\ pc = "idle" /\ ~failed
  /\ virtSize' = size
  /\ phys' = IF size < phySize THEN O!Resized(phys, size) ELSE phys
  /\ phySize' = MinOf(phySize, size)
  /\ cachedPos' = MinOf(cachedPos, size)
  /\ cachedSize' = Kept(size)
  /\ UNCHANGED <<filePos, phyPos, virtPos, cache, pc, data, left, failed>>

SetSizeFails(size) ==
  /\ pc = "idle" /\ ~failed /\ size < phySize /\ "call" \in MayFail
  /\ virtSize' = size /\ failed' = TRUE
  /\ UNCHANGED <<phyVars, virtPos, cacheVars, pc, data, left>>

\* The destructor: FlushCache, then the size is set right.
Release ==
  /\ pc = "idle"
  /\ pc' = "release" /\ left' = cachedSize
  /\ UNCHANGED <<phyVars, virtVars, cacheVars, data, failed>>

\* A slip: the file is only made shorter.
SetToSizeDown(size) == IF size < phySize THEN O!Resized(phys, size) ELSE phys

SetToSize(size) == IF size # phySize THEN O!Resized(phys, size) ELSE phys

Close ==
  /\ pc = "release" /\ left = 0
  /\ phys' = SetToSize(virtSize)
  /\ filePos' = IF virtPos # phyPos THEN virtPos ELSE filePos
  /\ pc' = "closed"
  /\ UNCHANGED <<phyPos, phySize, virtVars, cacheVars, data, left, failed>>

Terminating == pc = "closed" /\ UNCHANGED vars

Next ==
  \/ MyWrite \/ MyWriteFails
  \/ \E d \in Data : Write(d)
  \/ FindGap \/ FillZeros \/ Store
  \/ \E p \in Places : Seek(p) \/ SetSize(p) \/ SetSizeFails(p)
  \/ Release \/ Close
  \/ Terminating

Spec == Init /\ [][Next]_vars

-----------------------------------------------------------------------------
\* The ring never holds more than its size (TypeOK); between two calls the
\* comments at _phySize and _cachedPos hold, the fields tell the truth about the
\* file, and no byte is missing between it and the cached bytes.
FieldsAgree ==
  /\ TypeOK
  /\ pc = "idle" /\ ~failed =>
       /\ phySize = Len(phys) /\ phySize <= virtSize
       /\ cachedSize > 0 => cachedPos <= phySize /\ cachedEnd <= virtSize

\* With its cache, gaps, seeks and truncations the stream is still a plain file,
\* and if no call has failed the disk holds all of it when it is released.
ImplementsOutFile == O!Spec
=============================================================================
