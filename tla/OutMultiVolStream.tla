------------------------- MODULE OutMultiVolStream -------------------------
(***************************************************************************)
(* COutMultiVolStream of UI/Common/Update.cpp (the switch -v): an archive  *)
(* that is written as files .001, .002 and so on, each of a given size.    *)
(* Formats seek back over the borders to store headers, and zip cuts off   *)
(* what a second attempt at a file makes needless.  The stream promises    *)
(* what OutFile promises, of the volumes put together.                     *)
(*                                                                         *)
(* After Seek the volume of a position is found by walking from the first  *)
(* one; a volume that does not exist is created.  7z skips the place of    *)
(* its start header and comes back to it at the end, so that for a while   *)
(* volumes in the middle are short.  The callers cut a file off only where *)
(* nothing is skipped, and fill what they skipped before the end.          *)
(***************************************************************************)
EXTENDS OutStreams

VARIABLES
  vols,         \* Streams: [bytes, pos, realSize] of each volume
  streamIndex,  \* _streamIndex, from 1 on
  offsetPos,    \* _offsetPos
  absPos,       \* _absPos
  pc,           \* "idle", "write" in the loop of Write, "closed"
  data,         \* what Write has been given
  skipped,      \* the positions that the caller has left out so far
  failed        \* a call has returned an error

vars == <<vols, streamIndex, offsetPos, absPos, pc, data, skipped, failed>>

MinOf(a, b) == IF a < b THEN a ELSE b
MaxOf(a, b) == IF a < b THEN b ELSE a

VolSize(i) == Sizes[MinOf(i, Len(Sizes))]

\* The sum of s[1] .. s[i - 1].
SumBefore(s, i) ==
  LET sum[j \in 0..(i - 1)] == IF j = 0 THEN 0 ELSE sum[j - 1] + s[j] IN sum[i - 1]

\* The sums of VolSize and of RealSize over the volumes before volume i.
PlaceOf(i) == SumBefore([j \in 1..(i - 1) |-> VolSize(j)], i)
SizeBefore(i) == SumBefore([j \in 1..(i - 1) |-> vols[j].realSize], i)

\* What a reader finds who puts the volumes together.
Joined ==
  LET joined[i \in 0..Len(vols)] == IF i = 0 THEN <<>> ELSE joined[i - 1] \o vols[i].bytes
  IN  joined[Len(vols)]

\* The file that the volumes w hold while there may be gaps: each volume is at its
\* place.
FileIn(w) ==
  LET ends == {0} \cup {PlaceOf(i) + Len(w[i].bytes) : i \in {j \in DOMAIN w : w[j].bytes # <<>>}}
      size == CHOOSE m \in ends : \A e \in ends : e <= m
      byte(k) ==
        LET i == CHOOSE i \in DOMAIN w : k - PlaceOf(i) \in 1..VolSize(i)
        IN  IF k - PlaceOf(i) <= Len(w[i].bytes) THEN w[i].bytes[k - PlaceOf(i)] ELSE Zero
  IN  [k \in 1..size |-> byte(k)]
Content == FileIn(vols)

O == INSTANCE OutFile WITH
  content <- IF failed THEN <<>> ELSE Content, pos <- absPos,
  state <- IF pc = "closed" THEN "closed" ELSE IF failed THEN "failed" ELSE "open",
  disk <- IF pc = "closed" THEN Joined ELSE <<>>

TypeOK ==
  /\ vols \in Seq([bytes : Seq(Byte), pos : Nat, realSize : Nat])
  /\ streamIndex \in Nat \ {0} /\ offsetPos \in Nat /\ absPos \in 0..MaxSize
  /\ pc \in {"idle", "write", "closed"} /\ data \in Data \cup {<<>>}
  /\ skipped \subseteq 0..(MaxSize - 1) /\ failed \in BOOLEAN

Init ==
  /\ vols = <<>> /\ streamIndex = 1 /\ offsetPos = 0 /\ absPos = 0
  /\ pc = "idle" /\ data = <<>> /\ skipped = {} /\ failed = FALSE
-----------------------------------------------------------------------------
Write(d) ==
  /\ pc = "idle" /\ ~failed /\ absPos + Len(d) <= MaxSize
  /\ pc' = "write" /\ data' = d
  /\ UNCHANGED <<vols, streamIndex, offsetPos, absPos, skipped, failed>>

CreateVolume ==
  /\ pc = "write" /\ streamIndex > Len(vols)
  /\ vols' = Append(vols, [bytes |-> <<>>, pos |-> 0, realSize |-> 0])
  /\ UNCHANGED <<streamIndex, offsetPos, absPos, pc, data, skipped, failed>>

InVolume == offsetPos < VolSize(streamIndex)

NextVolume ==
  /\ pc = "write" /\ streamIndex <= Len(vols) /\ ~InVolume
  /\ offsetPos' = offsetPos - VolSize(streamIndex)
  /\ streamIndex' = streamIndex + 1
  /\ UNCHANGED <<vols, absPos, pc, data, skipped, failed>>

\* Seek if need be, and Write of what fits; the file may take less of it.
WriteToVolume ==
  /\ pc = "write" /\ streamIndex <= Len(vols) /\ InVolume
  /\ \E n \in 1..MinOf(Len(data), VolSize(streamIndex) - offsetPos) :
       /\ vols' = [vols EXCEPT ![streamIndex] =
                     [bytes |-> O!Stored(@.bytes, offsetPos, SubSeq(data, 1, n)),
                      pos |-> offsetPos + n,
                      realSize |-> MaxOf(@.realSize, offsetPos + n)]]
       /\ absPos' = absPos + n
       /\ skipped' = (skipped \cup Len(Content)..(absPos - 1)) \ absPos..(absPos + n - 1)
       /\ IF offsetPos + n = VolSize(streamIndex)
          THEN streamIndex' = streamIndex + 1 /\ offsetPos' = 0
          ELSE UNCHANGED streamIndex /\ offsetPos' = offsetPos + n
  /\ pc' = "idle" /\ data' = <<>>
  /\ UNCHANGED failed

\* Create, Seek or Write of the volume fails.
WriteFails ==
  /\ pc = "write" /\ "call" \in MayFail
  /\ failed' = TRUE
  /\ pc' = "idle" /\ data' = <<>>
  /\ UNCHANGED <<vols, streamIndex, offsetPos, absPos, skipped>>

\* Mutant of WalkFrom: the walk goes on from the present volume.
WalkOn(p) == offsetPos' = p /\ UNCHANGED streamIndex

\* The next Write walks from the first volume to position p.
WalkFrom(p) == offsetPos' = p /\ streamIndex' = 1

Seek(p) ==
  /\ pc = "idle" /\ ~failed
  /\ absPos' = p
  /\ WalkFrom(p)
  /\ UNCHANGED <<vols, pc, data, skipped, failed>>

\* The first volume that is longer than what is left of the new size is cut,
\* those behind it are deleted (it does not look whether that succeeded).
SetSize(size) ==
  LET longer == {i \in DOMAIN vols : size - SizeBefore(i) < vols[i].realSize}
      cut == CHOOSE i \in longer : \A j \in longer : i <= j
      rest == size - SizeBefore(cut)
  IN
  /\ pc = "idle" /\ ~failed /\ skipped = {} /\ size <= Len(Content)
  /\ vols' = IF longer = {} THEN vols
             ELSE [SubSeq(vols, 1, cut) EXCEPT ![cut].bytes = SubSeq(@, 1, rest),
                                                ![cut].realSize = rest]
  /\ WalkFrom(absPos)
  /\ UNCHANGED <<absPos, pc, data, skipped, failed>>

SetSizeFails ==
  /\ pc = "idle" /\ ~failed /\ vols # <<>> /\ "call" \in MayFail
  /\ failed' = TRUE
  /\ UNCHANGED <<vols, streamIndex, offsetPos, absPos, pc, data, skipped>>

\* (An error that closing a volume gives is returned as the error of the update.)
Close ==
  /\ pc = "idle" /\ (failed \/ skipped = {})
  /\ pc' = "closed"
  /\ UNCHANGED <<vols, streamIndex, offsetPos, absPos, data, skipped, failed>>

Terminating == pc = "closed" /\ UNCHANGED vars

Next ==
  \/ \E d \in Data : Write(d)
  \/ CreateVolume \/ NextVolume \/ WriteToVolume \/ WriteFails
  \/ \E p \in Places : Seek(p) \/ SetSize(p)
  \/ SetSizeFails \/ Close \/ Terminating

Spec == Init /\ [][Next]_vars
-----------------------------------------------------------------------------
\* Whatever was written, skipped, overwritten and cut, across any borders, the
\* volumes put together are the file (Update.cpp:108, 186 and 209).
VolumesImplementOutFile == O!Spec
=============================================================================
