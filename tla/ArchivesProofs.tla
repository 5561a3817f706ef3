---------------------------- MODULE ArchivesProofs ----------------------------
(***************************************************************************)
(* Proofs about the threads of MCArchives: about ZipUpdateMt for any list  *)
(* of items, any number of threads and blocks, whatever fails; about       *)
(* StreamBinder (B) for any sizes of the reads and writes and any number   *)
(* of files; about FolderRepack (R) for any old archives.                  *)
(***************************************************************************)
EXTENDS MCArchives, FunctionTheorems, FiniteSetTheorems, SequenceTheorems, WellFoundedInduction, TLAPS

\* The types without the bounds that need the sizes of the items or the sum of
\* the blocks.
AnyPiece == Nat \X Nat \X Nat
ThreadRecord ==
  [pc : {"none", "idle", "attempt", "write", "report", "exited"},
   item : Nat, attempt : Nat, pos : Nat, blocks : Seq(AnyPiece), total : Nat,
   real : BOOLEAN, sent : BOOLEAN, toReal : BOOLEAN, stop : BOOLEAN,
   compress : BOOLEAN, completed : BOOLEAN, exit : BOOLEAN, free : BOOLEAN,
   result : {"ok", "fail"}]
KeptRecord == [state : {"none", "defined", "skip"}, size : Nat, data : Seq(AnyPiece)]

Types ==
  /\ mpc \in {"create", "loop", "open", "enter", "stop", "join", "done"}
  /\ itemIndex \in 1..(Len(Items) + 1) /\ mtItemIndex \in 1..(Len(Items) + 1)
  /\ threadIndices \in Seq(Thread)
  /\ th \in [Thread -> ThreadRecord]
  /\ refs \in [Index -> KeptRecord]
  /\ joined \in 0..NumThreads /\ (mpc # "done" => joined < NumThreads)

\* The blocks up to TotalSize are there.
TotalFits == \A t \in Thread : th[t].total <= Len(th[t].blocks)

\* A thread that has a file, and is in Compress with it or will be.
Compressing(t) == th[t].pc \in {"attempt", "write", "report"}
Given(t) == th[t].compress /\ ~th[t].exit
Busy(t) == Compressing(t) \/ Given(t)

ThreadsAgree ==
  \A t \in Thread :
    /\ th[t].completed \/ th[t].free => ~Busy(t)
    /\ th[t].free => ~th[t].completed
    /\ Compressing(t) => ~Given(t)

\* Update2 has not returned.
Running == mpc \in {"create", "loop", "open", "enter"}

FileOf(k) == th[threadIndices[k]].item
InWork == 1..Len(threadIndices)

\* threadIndices has the threads that are not free, in the order of their files,
\* and every file between the two indices is with one of them, kept or skipped.
WorkIsInOrder ==
  Running =>
    /\ \A t \in Thread : ~th[t].exit /\ (~th[t].free <=> \E k \in InWork : threadIndices[k] = t)
    /\ \A k \in InWork : /\ FileOf(k) \in itemIndex..(mtItemIndex - 1) /\ FileOf(k) \in Index
                         /\ IsFile(FileOf(k)) /\ refs[FileOf(k)].state = "none"
    /\ \A j, k \in InWork : j < k => FileOf(j) < FileOf(k)
    /\ \A i \in itemIndex..(mtItemIndex - 1) :
         IsFile(i) /\ refs[i].state = "none" => \E k \in InWork : FileOf(k) = i
    /\ \A i \in Index : i >= mtItemIndex => refs[i].state = "none"
    /\ itemIndex <= mtItemIndex
    /\ mpc \in {"open", "enter"} =>
         mtItemIndex \in Index /\ IsFile(mtItemIndex) /\ Len(threadIndices) < NumThreads
    /\ mpc = "create" => threadIndices = <<>> /\ itemIndex = 1 /\ mtItemIndex = 1

\* Only the thread of the next file writes to the archive or is told to do so.
RealHasTheTurn ==
  \A t \in Thread : Busy(t) /\ (th[t].real \/ th[t].toReal) => th[t].item = itemIndex

ZipInv == Types /\ TotalFits /\ ThreadsAgree /\ WorkIsInOrder /\ RealHasTheTurn

LEMMA InitInv == Init => ZipInv
<1> SUFFICES ASSUME Init PROVE ZipInv
  OBVIOUS
<1> USE DEF Init
<1>1. Items \in Seq(Seq(Nat)) /\ Len(Items) \in Nat /\ NumThreads \in Nat /\ NumThreads > 1
  BY ZipAssumption, LenProperties
<1>2. <<>> \in Seq(AnyPiece) /\ <<>> \in Seq(Thread) /\ Len(<<>>) = 0
  BY EmptySeq
<1>3. th \in [Thread -> ThreadRecord] /\ refs \in [Index -> KeptRecord]
  BY <1>2 DEF ThreadRecord, KeptRecord, nothing
<1>4. Types
  BY <1>1, <1>2, <1>3 DEF Types
<1>5. TotalFits /\ ThreadsAgree /\ RealHasTheTurn
  BY <1>2 DEF TotalFits, ThreadsAgree, RealHasTheTurn, Busy, Compressing, Given
<1>6. WorkIsInOrder
  BY <1>1, <1>2 DEF WorkIsInOrder, Running, InWork, FileOf, Index, nothing
<1> QED
  BY <1>4, <1>5, <1>6 DEF ZipInv

-----------------------------------------------------------------------------
(* A step of a thread.                                                      *)

\* The larger of two numbers is one of them.
LEMMA MaxOfTwo ==
  ASSUME NEW a \in Nat, NEW b \in Nat
  PROVE  Max({a, b}) \in Nat /\ (Max({a, b}) = a \/ Max({a, b}) = b)
<1>1. \E x \in {a, b} : \A y \in {a, b} : x >= y
  <2>1. CASE a >= b
    BY <2>1
  <2>2. CASE b >= a
    BY <2>2
  <2> QED
    BY <2>1, <2>2
<1>2. Max({a, b}) \in {a, b}
  BY <1>1 DEF Max
<1> QED
  BY <1>2

\* What may become of the record r of a thread in one of its own steps.
GoesOn(r, new) ==
  /\ new \in ThreadRecord /\ new.total <= Len(new.blocks)
  /\ new.item = r.item /\ new.free = r.free /\ new.exit = r.exit /\ new.compress = r.compress
  /\ new.real \/ new.toReal => r.real \/ r.toReal
  /\ r.pc \in {"attempt", "write", "report"}
  /\ new.completed => r.completed \/ new.pc = "idle"
  /\ new.pc \in {"attempt", "write", "report", "idle"}

LEMMA StoreSteps ==
  ASSUME Types, TotalFits, NEW t \in Thread,
         WriteInBlock(t) \/ WaitStopped(t) \/ WaitReal(t) \/ WaitBlock(t) \/ WriteReal(t)
  PROVE  \E new : th' = [th EXCEPT ![t] = new] /\ GoesOn(th[t], new)
<1> DEFINE r == th[t]
           piece == NextPiece(t)
           next == r.pos + 1
<1>1. /\ r \in ThreadRecord /\ r.total <= Len(r.blocks) /\ r.blocks \in Seq(AnyPiece)
      /\ r.item \in Nat /\ r.attempt \in Nat /\ r.pos \in Nat /\ r.total \in Nat
      /\ Len(r.blocks) \in Nat /\ th \in [Thread -> ThreadRecord]
  BY LenProperties DEF Types, TotalFits, ThreadRecord
<1>1a. next \in Nat
  BY <1>1
<1>2. piece \in AnyPiece
  BY <1>1 DEF NextPiece, AnyPiece
<1>3. r.pc = "write"
  BY DEF WriteInBlock, WaitStopped, WaitReal, WaitBlock, WriteReal, NeedsBlock, Writing
<1> DEFINE top == Max({r.total, r.pos + 1})
<1>4. top \in Nat /\ (top = r.total \/ top = r.pos + 1)
  BY <1>1, MaxOfTwo
<1>5. CASE WriteInBlock(t)
  <2> DEFINE blocks == [r.blocks EXCEPT ![r.pos + 1] = piece]
  <2>1. r.pos + 1 \in 1..Len(r.blocks)
    BY <1>1, <1>5 DEF WriteInBlock
  <2>2. blocks \in Seq(AnyPiece) /\ Len(blocks) = Len(r.blocks)
    BY <1>1, <1>2, <2>1, ExceptSeq
  <2> DEFINE new == [r EXCEPT !.pos = next, !.blocks = blocks, !.total = top]
  <2>3. th' = [th EXCEPT ![t] = new]
    BY <1>1, <1>5 DEF WriteInBlock, ThreadRecord
  <2> HIDE DEF blocks, top, piece, next
  <2>4. GoesOn(r, new)
    <3>1. new \in ThreadRecord
      BY <1>1, <1>4, <1>1a, <2>2 DEF ThreadRecord
    <3>2. /\ new.pc = r.pc /\ new.item = r.item /\ new.real = r.real /\ new.toReal = r.toReal
         /\ new.compress = r.compress /\ new.completed = r.completed /\ new.exit = r.exit
         /\ new.free = r.free /\ new.blocks = blocks /\ new.total = top
      BY <1>1 DEF ThreadRecord
    <3> HIDE DEF new
    <3> QED
      BY <3>1, <3>2, <1>1, <1>3, <1>4, <2>1, <2>2 DEF GoesOn
  <2> QED
    BY <2>3, <2>4
<1>6. CASE WaitStopped(t)
  <2> DEFINE new == [r EXCEPT !.pc = "idle", !.result = "fail", !.completed = TRUE, !.stop = FALSE]
  <2>1. th' = [th EXCEPT ![t] = new]
    BY <1>1, <1>6 DEF WaitStopped, Complete, ThreadRecord
  <2>2. GoesOn(r, new)
    BY <1>1, <1>3 DEF GoesOn, ThreadRecord
  <2> QED
    BY <2>1, <2>2
<1>7. CASE WaitReal(t)
  <2> DEFINE new == [r EXCEPT !.toReal = FALSE, !.real = TRUE, !.blocks = <<>>, !.total = 0]
  <2>1. th' = [th EXCEPT ![t] = new] /\ r.toReal
    BY <1>1, <1>7 DEF WaitReal, ThreadRecord
  <2>2. <<>> \in Seq(AnyPiece) /\ Len(<<>>) = 0
    BY EmptySeq
  <2>3. GoesOn(r, new)
    <3>1. new \in ThreadRecord
      BY <1>1, <2>2 DEF ThreadRecord
    <3>2. /\ new.pc = r.pc /\ new.item = r.item /\ new.compress = r.compress
         /\ new.completed = r.completed /\ new.exit = r.exit /\ new.free = r.free
         /\ new.toReal = FALSE /\ new.real = TRUE /\ new.blocks = <<>> /\ new.total = 0
      BY <1>1 DEF ThreadRecord
    <3> HIDE DEF new
    <3> QED
      BY <3>1, <3>2, <1>1, <1>3, <2>1, <2>2 DEF GoesOn
  <2> QED
    BY <2>1, <2>3
<1>8. CASE WaitBlock(t)
  <2> DEFINE blocks == Append(r.blocks, piece)
  <2>1. blocks \in Seq(AnyPiece) /\ Len(blocks) = Len(r.blocks) + 1
    BY <1>1, <1>2
  <2>2. r.pos = Len(r.blocks)
    BY <1>8 DEF WaitBlock, NeedsBlock
  <2> DEFINE new == [r EXCEPT !.blocks = blocks, !.pos = next, !.total = top]
  <2>3. th' = [th EXCEPT ![t] = new]
    BY <1>1, <1>8 DEF WaitBlock, ThreadRecord
  <2> HIDE DEF blocks, top, piece, next
  <2>4. GoesOn(r, new)
    <3>1. new \in ThreadRecord
      BY <1>1, <1>4, <1>1a, <2>1 DEF ThreadRecord
    <3>2. /\ new.pc = r.pc /\ new.item = r.item /\ new.real = r.real /\ new.toReal = r.toReal
         /\ new.compress = r.compress /\ new.completed = r.completed /\ new.exit = r.exit
         /\ new.free = r.free /\ new.blocks = blocks /\ new.total = top
      BY <1>1 DEF ThreadRecord
    <3> HIDE DEF new
    <3> QED
      BY <3>1, <3>2, <1>1, <1>3, <1>4, <2>1, <2>2 DEF GoesOn
  <2> QED
    BY <2>3, <2>4
<1>9. CASE WriteReal(t)
  <2> DEFINE new == [r EXCEPT !.pos = next]
  <2>1. th' = [th EXCEPT ![t] = new]
    BY <1>1, <1>9 DEF WriteReal, ThreadRecord
  <2> HIDE DEF next
  <2>2. GoesOn(r, new)
    <3>1. new \in ThreadRecord
      BY <1>1, <1>1a DEF ThreadRecord
    <3>2. /\ new.pc = r.pc /\ new.item = r.item /\ new.total = r.total /\ new.blocks = r.blocks
         /\ new.real = r.real /\ new.toReal = r.toReal /\ new.compress = r.compress
         /\ new.completed = r.completed /\ new.exit = r.exit /\ new.free = r.free
      BY <1>1 DEF ThreadRecord
    <3> HIDE DEF new
    <3> QED
      BY <3>1, <3>2, <1>1, <1>3 DEF GoesOn
  <2> QED
    BY <2>1, <2>2
<1> QED
  BY <1>5, <1>6, <1>7, <1>8, <1>9

LEMMA CompressSteps ==
  ASSUME Types, TotalFits, NEW t \in Thread,
         StartAttempt(t) \/ EndAttempt(t) \/ Report(t) \/ CompressFails(t)
  PROVE  \E new : th' = [th EXCEPT ![t] = new] /\ GoesOn(th[t], new)
<1> DEFINE r == th[t]
<1>1. /\ r \in ThreadRecord /\ r.total <= Len(r.blocks) /\ r.attempt \in Nat /\ r.total \in Nat
      /\ Len(r.blocks) \in Nat /\ th \in [Thread -> ThreadRecord]
  BY LenProperties DEF Types, TotalFits, ThreadRecord
<1>2. CASE StartAttempt(t)
  <2> DEFINE new == [r EXCEPT !.pc = "write", !.pos = 0, !.total = IF r.real THEN r.total ELSE 0]
  <2>1. th' = [th EXCEPT ![t] = new]
    BY <1>1, <1>2 DEF StartAttempt, ThreadRecord
  <2> r.pc = "attempt"
    BY <1>2 DEF StartAttempt
  <2>2. GoesOn(r, new)
    <3>1. new \in ThreadRecord
      BY <1>1 DEF ThreadRecord
    <3>2. /\ new.item = r.item /\ new.blocks = r.blocks /\ new.real = r.real
         /\ new.toReal = r.toReal /\ new.compress = r.compress /\ new.completed = r.completed
         /\ new.exit = r.exit /\ new.free = r.free /\ new.pc = "write"
         /\ new.total = IF r.real THEN r.total ELSE 0
      BY <1>1 DEF ThreadRecord
    <3> HIDE DEF new
    <3> QED
      BY <3>1, <3>2, <1>1 DEF GoesOn
  <2> QED
    BY <2>1, <2>2
<1>3. CASE EndAttempt(t)
  <2> DEFINE new == [r EXCEPT !.pc = "report"]
  <2>1. th' = [th EXCEPT ![t] = new]
    BY <1>1, <1>3 DEF EndAttempt, ThreadRecord
  <2>2. GoesOn(r, new)
    BY <1>1, <1>3 DEF EndAttempt, GoesOn, ThreadRecord
  <2> QED
    BY <2>1, <2>2
<1>4. CASE Report(t)
  <2> DEFINE next == r.attempt + 1
             again == [r EXCEPT !.pc = "attempt", !.attempt = next]
             done == [r EXCEPT !.pc = "idle", !.result = "ok", !.completed = TRUE]
  <2>1. th' = [th EXCEPT ![t] = again] \/ th' = [th EXCEPT ![t] = done]
    BY <1>4 DEF Report, Complete
  <2> r.pc = "report"
    BY <1>4 DEF Report
  <2>4. next \in Nat
    BY <1>1
  <2> HIDE DEF next
  <2>2. GoesOn(r, again)
    <3>1. again \in ThreadRecord
      BY <1>1, <2>4 DEF ThreadRecord
    <3>2. /\ again.item = r.item /\ again.total = r.total /\ again.blocks = r.blocks
         /\ again.real = r.real /\ again.toReal = r.toReal /\ again.compress = r.compress
         /\ again.completed = r.completed /\ again.exit = r.exit /\ again.free = r.free
         /\ again.pc = "attempt"
      BY <1>1 DEF ThreadRecord
    <3> HIDE DEF again
    <3> QED
      BY <3>1, <3>2, <1>1 DEF GoesOn
  <2>3. GoesOn(r, done)
    <3>1. done \in ThreadRecord
      BY <1>1 DEF ThreadRecord
    <3>2. /\ done.item = r.item /\ done.total = r.total /\ done.blocks = r.blocks
         /\ done.real = r.real /\ done.toReal = r.toReal /\ done.compress = r.compress
         /\ done.exit = r.exit /\ done.free = r.free /\ done.pc = "idle"
         /\ done.completed = TRUE
      BY <1>1 DEF ThreadRecord
    <3> HIDE DEF done
    <3> QED
      BY <3>1, <3>2, <1>1 DEF GoesOn
  <2> QED
    BY <2>1, <2>2, <2>3
<1>5. CASE CompressFails(t)
  <2> DEFINE new == [r EXCEPT !.pc = "idle", !.result = "fail", !.completed = TRUE]
  <2>1. th' = [th EXCEPT ![t] = new]
    BY <1>5 DEF CompressFails, Complete
  <2>2. GoesOn(r, new)
    BY <1>1, <1>5 DEF CompressFails, GoesOn, ThreadRecord
  <2> QED
    BY <2>1, <2>2
<1> QED
  BY <1>2, <1>3, <1>4, <1>5

\* A step that leaves Update2 alone, and of the threads changes no more than
\* this, keeps the order of the work.
LEMMA ThreadInv ==
  ASSUME ZipInv, NEW t \in Thread, ThreadNext(t)
  PROVE  ZipInv'
<1>1. Types /\ TotalFits /\ ThreadsAgree /\ WorkIsInOrder /\ RealHasTheTurn
  BY DEF ZipInv
<1>2. /\ mpc' = mpc /\ itemIndex' = itemIndex /\ mtItemIndex' = mtItemIndex
      /\ threadIndices' = threadIndices /\ refs' = refs /\ joined' = joined
  BY DEF ThreadNext, Proceed, mainVars, Begin, StartAttempt, EndAttempt, Report, WriteInBlock,
         WaitStopped, WaitReal, WaitBlock, WriteReal, CompressFails
<1>3. /\ th[t] \in ThreadRecord /\ th[t].total <= Len(th[t].blocks)
      /\ th \in [Thread -> ThreadRecord]
  BY <1>1 DEF Types, TotalFits
<1>4. PICK new : /\ th' = [th EXCEPT ![t] = new]
                 /\ new \in ThreadRecord /\ new.total <= Len(new.blocks)
                 /\ new.item = th[t].item /\ new.free = th[t].free /\ new.exit = th[t].exit
                 /\ new.real \/ new.toReal => th[t].real \/ th[t].toReal
                 /\ new.pc \in {"attempt", "write", "report"} \/ (new.compress /\ ~new.exit) => Busy(t)
                 /\ new.completed \/ new.free =>
                      new.pc \notin {"attempt", "write", "report"} /\ ~(new.compress /\ ~new.exit)
                 /\ new.free => ~new.completed
                 /\ new.pc \in {"attempt", "write", "report"} => ~(new.compress /\ ~new.exit)
  <2>1. CASE Begin(t)
    <3> DEFINE new == [th[t] EXCEPT !.compress = FALSE, !.attempt = 1,
                                    !.pc = IF th[t].exit THEN "exited" ELSE "attempt"]
    <3>1. th' = [th EXCEPT ![t] = new] /\ th[t].compress /\ th[t].pc = "idle"
      BY <1>3, <2>1 DEF Begin, ThreadRecord
    <3>2. /\ new \in ThreadRecord /\ new.total = th[t].total /\ new.blocks = th[t].blocks
          /\ new.item = th[t].item /\ new.free = th[t].free /\ new.exit = th[t].exit
          /\ new.real = th[t].real /\ new.toReal = th[t].toReal
          /\ new.completed = th[t].completed /\ ~new.compress
          /\ new.pc = IF th[t].exit THEN "exited" ELSE "attempt"
      BY <1>3 DEF ThreadRecord
    <3>3. new.pc = "attempt" => Busy(t)
      BY <3>1, <3>2 DEF Busy, Given
    <3>4. (th[t].completed \/ th[t].free => ~Busy(t)) /\ (th[t].free => ~th[t].completed)
      BY <1>1 DEF ThreadsAgree
    <3> HIDE DEF new
    <3> QED
      BY <1>3, <3>1, <3>2, <3>3, <3>4
  <2>2. CASE ~Begin(t)
    <3>1. PICK new : th' = [th EXCEPT ![t] = new] /\ GoesOn(th[t], new)
      BY <1>1, <2>2, StoreSteps, CompressSteps DEF ThreadNext, Proceed
    <3>2. Busy(t) /\ ~Given(t) /\ ~th[t].completed /\ ~th[t].free
      BY <1>1, <3>1 DEF GoesOn, Busy, Compressing, ThreadsAgree
    <3> QED
      BY <3>1, <3>2 DEF GoesOn, Given
  <2> QED
    BY <2>1, <2>2
<1>5. /\ th' \in [Thread -> ThreadRecord] /\ th'[t] = new
      /\ \A u \in Thread : u # t => th'[u] = th[u]
  BY <1>3, <1>4
<1>6. ASSUME NEW u \in Thread
      PROVE  /\ th'[u].total <= Len(th'[u].blocks)
             /\ th'[u].item = th[u].item /\ th'[u].free = th[u].free /\ th'[u].exit = th[u].exit
             /\ th'[u].real \/ th'[u].toReal => th[u].real \/ th[u].toReal
             /\ Busy(u)' => Busy(u)
             /\ th'[u].completed \/ th'[u].free => ~Busy(u)'
             /\ th'[u].free => ~th'[u].completed
             /\ Compressing(u)' => ~Given(u)'
  BY <1>1, <1>4, <1>5 DEF Busy, Compressing, Given, TotalFits, ThreadsAgree
<1>7. Types' /\ TotalFits' /\ ThreadsAgree' /\ RealHasTheTurn'
  <2>1. Types'
    BY <1>1, <1>2, <1>5 DEF Types
  <2>2. TotalFits' /\ ThreadsAgree'
    BY <1>6 DEF TotalFits, ThreadsAgree
  <2>3. RealHasTheTurn'
    BY <1>1, <1>2, <1>6 DEF RealHasTheTurn
  <2> QED
    BY <2>1, <2>2, <2>3
<1>8. WorkIsInOrder'
  <2>1. \A k \in InWork : threadIndices[k] \in Thread
    BY <1>1 DEF Types, InWork
  <2>2. InWork' = InWork /\ \A k \in InWork : th'[threadIndices[k]].item = FileOf(k)
    BY <1>2, <1>6, <2>1 DEF InWork, FileOf
  <2> QED
    BY <1>1, <1>2, <1>6, <2>2 DEF WorkIsInOrder, Running, FileOf
<1> QED
  BY <1>7, <1>8 DEF ZipInv

-----------------------------------------------------------------------------
(* A step of Update2.                                                       *)

LEMMA MinIsIn ==
  ASSUME NEW S, S \subseteq Nat, S # {}
  PROVE  Min(S) \in S
<1>1. PICK c \in S : \A d \in S : ~(<<d, c>> \in OpToRel(<, Nat))
  BY WFMin, NatLessThanWellFounded, Zenon
<1>2. ASSUME NEW d \in S PROVE c <= d
  <2>1. c \in Nat /\ d \in Nat
    OBVIOUS
  <2>2. d < c => <<d, c>> \in OpToRel(<, Nat)
    <3> DEFINE dc == <<d, c>>
    <3>1. dc \in Nat \X Nat /\ dc[1] = d /\ dc[2] = c
      BY <2>1
    <3> HIDE DEF dc
    <3>2. d < c => dc[1] < dc[2]
      BY <3>1
    <3>3. d < c => dc \in OpToRel(<, Nat)
      BY <3>1, <3>2, Zenon DEF OpToRel
    <3> QED
      BY <3>3, Zenon DEF dc
  <2>3. ~(d < c)
    BY <1>1, <2>2, Zenon
  <2> QED
    BY <2>1, <2>3
<1>3. \E x \in S : \A y \in S : x <= y
  BY <1>2
<1> QED
  BY <1>3 DEF Min

\* The numbers that the steps of Update2 count with.
LEMMA Numbers ==
  ASSUME Types
  PROVE  /\ Len(Items) \in Nat /\ NumThreads \in Nat /\ NumThreads > 1 /\ PoolBlocks \in Nat
         /\ itemIndex \in Nat /\ mtItemIndex \in Nat /\ Len(threadIndices) \in Nat
         /\ Index \subseteq Nat /\ Thread \subseteq Nat
         /\ InWork \subseteq Nat /\ \A k \in InWork : threadIndices[k] \in Thread
         /\ \A i \in Nat : i >= 1 /\ i <= Len(Items) <=> i \in Index
BY ZipAssumption, LenProperties DEF Types, Index, Thread, InWork

\* The order of the work is not touched.
LEMMA SameWork ==
  ASSUME Types, WorkIsInOrder,
         itemIndex' = itemIndex, mtItemIndex' = mtItemIndex, threadIndices' = threadIndices,
         refs' = refs, Running' => Running, mpc' = "create" => mpc = "create",
         mpc' \in {"open", "enter"} =>
           mtItemIndex \in Index /\ IsFile(mtItemIndex) /\ Len(threadIndices) < NumThreads,
         ASSUME NEW u \in Thread
         PROVE  /\ th'[u].item = th[u].item /\ th'[u].free = th[u].free
                /\ Running' => th'[u].exit = th[u].exit
  PROVE  WorkIsInOrder'
<1>1. \A k \in InWork : threadIndices[k] \in Thread
  BY DEF Types, InWork
<1>2. InWork' = InWork /\ \A k \in InWork : th'[threadIndices[k]].item = FileOf(k)
  BY <1>1 DEF InWork, FileOf
<1>3. \A u \in Thread : /\ th'[u].free = th[u].free
                        /\ Running' => th'[u].exit = th[u].exit
  OBVIOUS
<1> QED
  BY <1>2, <1>3 DEF WorkIsInOrder, Running, FileOf

\* What ThreadsAgree, TotalFits and the types say of one record.
RecordAgrees(r) ==
  /\ r \in ThreadRecord /\ r.total <= Len(r.blocks)
  /\ r.completed \/ r.free =>
       r.pc \notin {"attempt", "write", "report"} /\ ~(r.compress /\ ~r.exit)
  /\ r.free => ~r.completed
  /\ r.pc \in {"attempt", "write", "report"} => ~(r.compress /\ ~r.exit)

LEMMA RecordsAgree ==
  /\ Types /\ TotalFits /\ ThreadsAgree => \A u \in Thread : RecordAgrees(th[u])
  /\ (\A u \in Thread : RecordAgrees(th'[u])) => TotalFits' /\ ThreadsAgree'
BY DEF Types, TotalFits, ThreadsAgree, RecordAgrees, Busy, Compressing, Given

\* A step that gives one thread a new record.
LEMMA OneRecord ==
  ASSUME Types, TotalFits, ThreadsAgree, NEW t \in Thread, NEW new, RecordAgrees(new),
         th' = [th EXCEPT ![t] = new]
  PROVE  /\ th' \in [Thread -> ThreadRecord] /\ TotalFits' /\ ThreadsAgree' /\ th'[t] = new
         /\ \A u \in Thread : u # t => th'[u] = th[u]
<1>1. th \in [Thread -> ThreadRecord] /\ new \in ThreadRecord
  BY DEF Types, RecordAgrees
<1>2. /\ th' \in [Thread -> ThreadRecord] /\ th'[t] = new
      /\ \A u \in Thread : u # t => th'[u] = th[u]
  BY <1>1
<1>3. \A u \in Thread : RecordAgrees(th'[u])
  BY <1>2, RecordsAgree
<1> QED
  BY <1>2, <1>3, RecordsAgree

LEMMA CreateThreadInv ==
  ASSUME ZipInv, CreateThread
  PROVE  ZipInv'
<1>1. Types /\ TotalFits /\ ThreadsAgree /\ WorkIsInOrder /\ RealHasTheTurn
  BY DEF ZipInv
<1>2. /\ mpc = "create" /\ mpc' \in {"create", "loop", "stop"} /\ itemIndex' = itemIndex
      /\ mtItemIndex' = mtItemIndex /\ threadIndices' = threadIndices /\ refs' = refs /\ joined' = joined
  BY DEF CreateThread, Return
<1> DEFINE t == Min({u \in Thread : th[u].pc = "none"})
           new == [th[t] EXCEPT !.pc = "idle"]
<1>3. th' = th \/ th' = [th EXCEPT ![t] = new]
  BY DEF CreateThread
<1>4. th \in [Thread -> ThreadRecord]
  BY <1>1 DEF Types
<1> HIDE DEF t
<1>5. /\ th' \in [Thread -> ThreadRecord] /\ TotalFits' /\ ThreadsAgree'
      /\ \A u \in Thread : /\ th'[u].item = th[u].item /\ th'[u].free = th[u].free
                           /\ th'[u].exit = th[u].exit /\ th'[u].compress = th[u].compress
                           /\ th'[u].real = th[u].real /\ th'[u].toReal = th[u].toReal
                           /\ th'[u].pc = th[u].pc \/ th'[u].pc = "idle"
  <2>1. CASE th' = [th EXCEPT ![t] = new] /\ t \in Thread
    <3>1. RecordAgrees(th[t])
      BY <1>1, <2>1, RecordsAgree
    <3>2. new \in ThreadRecord
      <4>1. th[t] \in ThreadRecord
        BY <3>1 DEF RecordAgrees
      <4> QED
        BY <4>1 DEF ThreadRecord
    <3>3. /\ new.item = th[t].item /\ new.free = th[t].free /\ new.exit = th[t].exit
          /\ new.compress = th[t].compress /\ new.real = th[t].real /\ new.toReal = th[t].toReal
          /\ new.completed = th[t].completed /\ new.total = th[t].total
          /\ new.blocks = th[t].blocks /\ new.pc = "idle"
      BY <1>4, <2>1 DEF ThreadRecord
    <3> HIDE DEF new
    <3>4. RecordAgrees(new)
      BY <3>1, <3>2, <3>3 DEF RecordAgrees
    <3>5. /\ th' \in [Thread -> ThreadRecord] /\ TotalFits' /\ ThreadsAgree' /\ th'[t] = new
          /\ \A u \in Thread : u # t => th'[u] = th[u]
      BY <1>1, <2>1, <3>4, OneRecord
    <3> QED
      BY <3>3, <3>5
  <2>2. CASE th' = th
    BY <1>1, <1>4, <2>2 DEF TotalFits, ThreadsAgree, Busy, Compressing, Given
  <2>3. CASE th' = [th EXCEPT ![t] = new] /\ t \notin Thread
    <3>1. th' = th
      BY <1>4, <2>3
    <3> QED
      BY <2>2, <3>1
  <2> QED
    BY <1>3, <2>1, <2>2, <2>3
<1>6. Types'
  BY <1>1, <1>2, <1>5 DEF Types
<1>7. RealHasTheTurn'
  BY <1>1, <1>2, <1>5 DEF RealHasTheTurn, Busy, Compressing, Given
<1>8. WorkIsInOrder'
  BY <1>1, <1>2, <1>5, SameWork DEF Running
<1> QED
  BY <1>5, <1>6, <1>7, <1>8 DEF ZipInv

\* The steps of Update2 that change neither a thread nor the order of the work.
LEMMA PlainSteps ==
  ASSUME ZipInv, EnterMixer \/ NotOpened \/ Finish \/ JoinThread
  PROVE  ZipInv'
<1>1. Types /\ TotalFits /\ ThreadsAgree /\ WorkIsInOrder /\ RealHasTheTurn
  BY DEF ZipInv
<1>2. /\ itemIndex' = itemIndex /\ mtItemIndex' = mtItemIndex /\ threadIndices' = threadIndices
      /\ refs' = refs /\ th' = th
  BY DEF EnterMixer, NotOpened, Finish, JoinThread, Return
<1>3. /\ Running' => Running
      /\ mpc' # "create" /\ mpc' \in {"open", "enter", "stop", "done"}
      /\ mpc' \in {"open", "enter"} =>
           mtItemIndex \in Index /\ IsFile(mtItemIndex) /\ Len(threadIndices) < NumThreads
  <2>1. CASE EnterMixer
    BY <1>1, <2>1, Numbers DEF EnterMixer, Assigning, InLoop, Running, Types, Index
  <2>2. CASE NotOpened
    BY <1>1, <2>2 DEF NotOpened, Return, Running, WorkIsInOrder
  <2>3. CASE Finish \/ JoinThread
    BY <2>3 DEF Finish, JoinThread, Return, Running
  <2> QED
    BY <2>1, <2>2, <2>3
<1>4. Types'
  <2>1. joined' \in 0..NumThreads /\ (mpc' # "done" => joined' < NumThreads)
    BY <1>1, Numbers DEF Types, EnterMixer, NotOpened, Finish, JoinThread, Return, Assigning, InLoop
  <2> QED
    BY <1>1, <1>2, <1>3, <2>1 DEF Types
<1>5. TotalFits' /\ ThreadsAgree' /\ RealHasTheTurn'
  BY <1>1, <1>2 DEF TotalFits, ThreadsAgree, RealHasTheTurn, Busy, Compressing, Given
<1>6. WorkIsInOrder'
  BY <1>1, <1>2, <1>3, SameWork
<1> QED
  BY <1>4, <1>5, <1>6 DEF ZipInv

LEMMA StopThreadInv ==
  ASSUME ZipInv, StopThread
  PROVE  ZipInv'
<1>1. Types /\ TotalFits /\ ThreadsAgree /\ WorkIsInOrder /\ RealHasTheTurn
  BY DEF ZipInv
<1>2. /\ itemIndex' = itemIndex /\ mtItemIndex' = mtItemIndex /\ threadIndices' = threadIndices
      /\ refs' = refs /\ joined' = joined /\ mpc = "stop" /\ mpc' = "join"
      /\ th' = [th EXCEPT ![joined + 1].exit = TRUE, ![joined + 1].stop = TRUE,
                          ![joined + 1].compress = TRUE]
  BY DEF StopThread
<1> DEFINE t == joined + 1
           new == [th[t] EXCEPT !.exit = TRUE, !.stop = TRUE, !.compress = TRUE]
<1>3. t \in Thread /\ th \in [Thread -> ThreadRecord]
  BY <1>1, <1>2, Numbers DEF Types, Thread
<1>4. RecordAgrees(th[t]) /\ th[t] \in ThreadRecord
  BY <1>1, <1>3, RecordsAgree
<1> HIDE DEF t
<1>5. th' = [th EXCEPT ![t] = new]
  BY <1>2, <1>3, <1>4 DEF t, ThreadRecord
<1>6. new \in ThreadRecord
  BY <1>4 DEF ThreadRecord
<1>7. /\ new.item = th[t].item /\ new.free = th[t].free /\ new.exit = TRUE
      /\ new.real = th[t].real /\ new.toReal = th[t].toReal
      /\ new.completed = th[t].completed /\ new.total = th[t].total
      /\ new.blocks = th[t].blocks /\ new.pc = th[t].pc
  BY <1>4 DEF ThreadRecord
<1> HIDE DEF new
<1>8. RecordAgrees(new)
  BY <1>4, <1>6, <1>7 DEF RecordAgrees
<1>9. /\ th' \in [Thread -> ThreadRecord] /\ TotalFits' /\ ThreadsAgree' /\ th'[t] = new
      /\ \A u \in Thread : u # t => th'[u] = th[u]
  BY <1>1, <1>3, <1>5, <1>8, OneRecord
<1>10. Types'
  BY <1>1, <1>2, <1>9 DEF Types
<1>11. RealHasTheTurn'
  BY <1>1, <1>2, <1>7, <1>9 DEF RealHasTheTurn, Busy, Compressing, Given
<1>12. WorkIsInOrder'
  BY <1>2 DEF WorkIsInOrder, Running
<1> QED
  BY <1>9, <1>10, <1>11, <1>12 DEF ZipInv

\* Update2 stores items up to the first file that no thread has begun.
LEMMA StoringIsBehind ==
  ASSUME ZipInv, Storing
  PROVE  /\ itemIndex < mtItemIndex /\ itemIndex \in Index /\ mpc = "loop" /\ Running
         /\ itemIndex + 1 \in 1..(Len(Items) + 1)
<1>1. Types /\ WorkIsInOrder /\ mpc = "loop" /\ Running /\ itemIndex <= Len(Items)
  BY DEF ZipInv, Storing, InLoop, Running
<1>2. itemIndex \in Index /\ itemIndex + 1 \in 1..(Len(Items) + 1)
  BY <1>1, Numbers DEF Types, Index
<1>3. CASE mtItemIndex > Len(Items)
  BY <1>1, <1>2, <1>3, Numbers
<1>4. CASE Len(threadIndices) >= NumThreads
  <2>1. 1 \in InWork
    BY <1>1, <1>4, Numbers DEF InWork
  <2>2. FileOf(1) \in itemIndex..(mtItemIndex - 1)
    BY <1>1, <2>1 DEF WorkIsInOrder
  <2> QED
    BY <1>1, <1>2, <2>2, Numbers
<1> QED
  BY <1>1, <1>2, <1>3, <1>4, Numbers DEF Storing, Assigning

\* The thread with the next file is the first of threadIndices.
LEMMA FrontHasTheTurn ==
  ASSUME ZipInv, Waiting
  PROVE  1 \in InWork /\ FrontThread \in Thread /\ FileOf(1) = itemIndex
<1>1. Types /\ WorkIsInOrder /\ Running /\ itemIndex < mtItemIndex
  BY StoringIsBehind DEF ZipInv, Waiting
<1>2. PICK k \in InWork : FileOf(k) = itemIndex
  BY <1>1, Numbers DEF Waiting, WorkIsInOrder
<1>3. 1 \in InWork /\ k \in Nat /\ k >= 1
  BY <1>1, <1>2, Numbers DEF InWork
<1>4. FileOf(1) >= itemIndex /\ FileOf(1) \in Nat
  BY <1>1, <1>3, Numbers DEF WorkIsInOrder
<1>5. k > 1 => FileOf(1) < FileOf(k)
  BY <1>1, <1>2, <1>3 DEF WorkIsInOrder
<1>6. FileOf(1) = itemIndex
  BY <1>1, <1>2, <1>3, <1>4, <1>5, Numbers
<1> QED
  BY <1>1, <1>3, <1>6, Numbers DEF FrontThread

LEMMA SetRealInv ==
  ASSUME ZipInv, SetRealStreamMode
  PROVE  ZipInv'
<1>1. Types /\ TotalFits /\ ThreadsAgree /\ WorkIsInOrder /\ RealHasTheTurn /\ Waiting
  BY DEF ZipInv, SetRealStreamMode
<1>2. /\ itemIndex' = itemIndex /\ mtItemIndex' = mtItemIndex /\ threadIndices' = threadIndices
      /\ refs' = refs /\ joined' = joined /\ mpc' = mpc
      /\ th' = [th EXCEPT ![FrontThread].sent = TRUE, ![FrontThread].toReal = TRUE]
  BY DEF SetRealStreamMode, mainVars
<1> DEFINE t == FrontThread
           new == [th[t] EXCEPT !.sent = TRUE, !.toReal = TRUE]
<1>3. t \in Thread /\ th \in [Thread -> ThreadRecord] /\ th[t].item = itemIndex
  BY <1>1, FrontHasTheTurn DEF Types, FrontThread, FileOf
<1>4. RecordAgrees(th[t]) /\ th[t] \in ThreadRecord
  BY <1>1, <1>3, RecordsAgree
<1> HIDE DEF t
<1>5. th' = [th EXCEPT ![t] = new]
  BY <1>2, <1>3, <1>4 DEF t, ThreadRecord
<1>6. new \in ThreadRecord
  BY <1>4 DEF ThreadRecord
<1>7. /\ new.item = th[t].item /\ new.free = th[t].free /\ new.exit = th[t].exit
      /\ new.compress = th[t].compress
      /\ new.completed = th[t].completed /\ new.total = th[t].total
      /\ new.blocks = th[t].blocks /\ new.pc = th[t].pc
  BY <1>4 DEF ThreadRecord
<1> HIDE DEF new
<1>8. RecordAgrees(new)
  BY <1>4, <1>6, <1>7 DEF RecordAgrees
<1>9. /\ th' \in [Thread -> ThreadRecord] /\ TotalFits' /\ ThreadsAgree' /\ th'[t] = new
      /\ \A u \in Thread : u # t => th'[u] = th[u]
  BY <1>1, <1>3, <1>5, <1>8, OneRecord
<1>10. Types'
  BY <1>1, <1>2, <1>9 DEF Types
<1>11. RealHasTheTurn'
  <2>1. ASSUME NEW u \in Thread, Busy(u)', th'[u].real \/ th'[u].toReal
        PROVE  th'[u].item = itemIndex
    <3>1. CASE u = t
      BY <1>3, <1>7, <1>9, <3>1
    <3>2. CASE u # t
      <4>1. th'[u] = th[u]
        BY <1>9, <3>2
      <4>2. Busy(u)
        BY <2>1, <4>1 DEF Busy, Compressing, Given
      <4> QED
        BY <1>1, <2>1, <4>1, <4>2 DEF RealHasTheTurn
    <3> QED
      BY <3>1, <3>2
  <2> QED
    BY <1>2, <2>1 DEF RealHasTheTurn
<1>12. WorkIsInOrder'
  <2>1. mpc = "loop"
    BY <1>1 DEF Waiting, Storing, InLoop
  <2>2. \A u \in Thread : /\ th'[u].item = th[u].item /\ th'[u].free = th[u].free
                          /\ th'[u].exit = th[u].exit
    BY <1>7, <1>9
  <2> QED
    BY <1>1, <1>2, <2>1, <2>2, SameWork DEF Running
<1> QED
  BY <1>9, <1>10, <1>11, <1>12 DEF ZipInv

\* The next item is stored: no thread is at work with it.
LEMMA Advance ==
  ASSUME ZipInv, Storing, mpc' = mpc, itemIndex' = itemIndex + 1, mtItemIndex' = mtItemIndex,
         threadIndices' = threadIndices, th' = th, joined' = joined,
         refs' \in [Index -> KeptRecord],
         \A i \in Index : i # itemIndex => refs'[i] = refs[i],
         ~IsFile(itemIndex) \/ refs[itemIndex].state # "none"
  PROVE  ZipInv'
<1>1. Types /\ TotalFits /\ ThreadsAgree /\ WorkIsInOrder /\ RealHasTheTurn
  BY DEF ZipInv
<1>2. /\ itemIndex < mtItemIndex /\ itemIndex \in Index /\ mpc = "loop" /\ Running
      /\ itemIndex + 1 \in 1..(Len(Items) + 1)
  BY StoringIsBehind
<1>3. Types' /\ TotalFits' /\ ThreadsAgree'
  BY <1>1, <1>2 DEF Types, TotalFits, ThreadsAgree, Busy, Compressing, Given
<1>4. InWork' = InWork /\ \A k \in InWork : FileOf(k)' = FileOf(k)
  BY DEF InWork, FileOf
<1>5. ASSUME NEW k \in InWork
      PROVE  /\ FileOf(k) \in itemIndex'..(mtItemIndex - 1) /\ FileOf(k) \in Index
             /\ IsFile(FileOf(k)) /\ refs'[FileOf(k)].state = "none"
  <2>1. /\ FileOf(k) \in itemIndex..(mtItemIndex - 1) /\ FileOf(k) \in Index
        /\ IsFile(FileOf(k)) /\ refs[FileOf(k)].state = "none"
    BY <1>1, <1>2 DEF WorkIsInOrder
  <2>2. FileOf(k) # itemIndex
    BY <2>1
  <2> QED
    BY <1>1, <2>1, <2>2, Numbers
<1>6. ASSUME NEW i \in itemIndex'..(mtItemIndex - 1), IsFile(i), refs'[i].state = "none"
      PROVE  \E k \in InWork : FileOf(k) = i
  <2>1. /\ itemIndex \in Nat /\ mtItemIndex \in Nat /\ Len(Items) \in Nat
        /\ mtItemIndex <= Len(Items) + 1
    BY <1>1, Numbers DEF Types
  <2>2. i \in Nat /\ i > itemIndex /\ i < mtItemIndex
    BY <1>6, <2>1
  <2>3. i \in itemIndex..(mtItemIndex - 1) /\ i # itemIndex /\ i \in Index
    BY <2>1, <2>2 DEF Index
  <2> QED
    BY <1>1, <1>2, <1>6, <2>3 DEF WorkIsInOrder
<1>7. WorkIsInOrder'
  <2>1. \A t \in Thread : ~th'[t].exit /\ (~th'[t].free <=> \E k \in InWork' : threadIndices'[k] = t)
    BY <1>1, <1>2, <1>4 DEF WorkIsInOrder
  <2>2. \A k \in InWork' : /\ FileOf(k)' \in itemIndex'..(mtItemIndex' - 1) /\ FileOf(k)' \in Index
                           /\ IsFile(FileOf(k)') /\ refs'[FileOf(k)'].state = "none"
    BY <1>4, <1>5 DEF FileOf
  <2>3. \A j, k \in InWork' : j < k => FileOf(j)' < FileOf(k)'
    BY <1>1, <1>2, <1>4 DEF WorkIsInOrder, FileOf
  <2>4. \A i \in itemIndex'..(mtItemIndex' - 1) :
          IsFile(i) /\ refs'[i].state = "none" => \E k \in InWork' : FileOf(k)' = i
    BY <1>4, <1>6 DEF FileOf
  <2>5. \A i \in Index : i >= mtItemIndex' => refs'[i].state = "none"
    BY <1>1, <1>2, Numbers DEF WorkIsInOrder
  <2>6. itemIndex' <= mtItemIndex' /\ mpc' = "loop"
    BY <1>1, <1>2, Numbers
  <2> QED
    BY <2>1, <2>2, <2>3, <2>4, <2>5, <2>6 DEF WorkIsInOrder, FileOf
<1>8. RealHasTheTurn'
  <2>1. ASSUME NEW t \in Thread, Busy(t), th[t].real \/ th[t].toReal
        PROVE  FALSE
    <3>1. th[t].item = itemIndex /\ ~th[t].free
      BY <1>1, <2>1 DEF RealHasTheTurn, ThreadsAgree
    <3>2. PICK k \in InWork : threadIndices[k] = t
      BY <1>1, <1>2, <3>1 DEF WorkIsInOrder
    <3>3. FileOf(k) = itemIndex
      BY <3>1, <3>2 DEF FileOf
    <3>4. IsFile(itemIndex) /\ refs[itemIndex].state = "none"
      BY <1>1, <1>2, <3>2, <3>3 DEF WorkIsInOrder
    <3> QED
      BY <3>4
  <2> QED
    BY <2>1 DEF RealHasTheTurn, Busy, Compressing, Given
<1> QED
  BY <1>3, <1>7, <1>8 DEF ZipInv

LEMMA StoringSteps ==
  ASSUME ZipInv, PassSkipped \/ StoreOther \/ StoreDetached
  PROVE  ZipInv'
<1>1. Types /\ TotalFits /\ ThreadsAgree /\ WorkIsInOrder /\ RealHasTheTurn
  BY DEF ZipInv
<1>2. Storing /\ mtItemIndex' = mtItemIndex /\ threadIndices' = threadIndices /\ th' = th /\ joined' = joined
  BY DEF PassSkipped, StoreOther, StoreDetached
<1>3. refs \in [Index -> KeptRecord] /\ itemIndex \in Index
  BY <1>1, <1>2, StoringIsBehind DEF Types
<1>4. CASE PassSkipped
  <2>1. /\ mpc' = mpc /\ itemIndex' = itemIndex + 1 /\ refs' = refs
        /\ refs[itemIndex].state # "none"
    BY <1>4 DEF PassSkipped
  <2> QED
    BY <1>2, <1>3, <2>1, Advance
<1>5. CASE StoreOther
  <2>1. refs' = refs /\ ~IsFile(itemIndex)
    BY <1>5 DEF StoreOther
  <2>2. CASE mpc' = mpc /\ itemIndex' = itemIndex + 1
    BY <1>2, <1>3, <2>1, <2>2, Advance
  <2>3. CASE mpc' = "stop" /\ itemIndex' = itemIndex
    <3>1. Types' /\ TotalFits' /\ ThreadsAgree' /\ RealHasTheTurn'
      BY <1>1, <1>2, <2>1, <2>3, StoringIsBehind DEF Types, TotalFits, ThreadsAgree, RealHasTheTurn,
         Busy, Compressing, Given
    <3>2. WorkIsInOrder'
      BY <2>3 DEF WorkIsInOrder, Running
    <3> QED
      BY <3>1, <3>2 DEF ZipInv
  <2> QED
    BY <1>5, <2>2, <2>3 DEF StoreOther, WriteLocalHeader, Return
<1>6. CASE StoreDetached
  <2>1. /\ mpc' = mpc /\ itemIndex' = itemIndex + 1 /\ refs' = [refs EXCEPT ![itemIndex] = nothing]
        /\ refs[itemIndex].state # "none"
    BY <1>6 DEF StoreDetached, WriteLocalHeader
  <2>2. nothing \in KeptRecord
    BY EmptySeq DEF nothing, KeptRecord
  <2>3. refs' \in [Index -> KeptRecord] /\ \A i \in Index : i # itemIndex => refs'[i] = refs[i]
    BY <1>3, <2>1, <2>2
  <2> QED
    BY <1>2, <2>1, <2>3, Advance
<1> QED
  BY <1>4, <1>5, <1>6

\* An item that no thread is to compress is passed over, or skipped.
LEMMA PassSteps ==
  ASSUME ZipInv, PassOver \/ Skip
  PROVE  ZipInv'
<1>1. Types /\ TotalFits /\ ThreadsAgree /\ WorkIsInOrder /\ RealHasTheTurn
  BY DEF ZipInv
<1>2. /\ mtItemIndex' = mtItemIndex + 1 /\ itemIndex' = itemIndex /\ mpc' = "loop" /\ Running
      /\ threadIndices' = threadIndices /\ th' = th /\ joined' = joined
  BY DEF PassOver, Skip, Assigning, InLoop, Running
<1>3. mtItemIndex \in Index /\ mtItemIndex + 1 \in 1..(Len(Items) + 1)
  <2>1. mtItemIndex <= Len(Items)
    BY <1>1, Numbers DEF PassOver, Skip, Assigning, WorkIsInOrder, Running
  <2> QED
    BY <1>1, <2>1, Numbers DEF Types, Index
<1>4. /\ refs' \in [Index -> KeptRecord]
      /\ \A i \in Index : i # mtItemIndex => refs'[i] = refs[i]
      /\ ~IsFile(mtItemIndex) \/ refs'[mtItemIndex].state # "none"
  <2>1. refs \in [Index -> KeptRecord]
    BY <1>1 DEF Types
  <2>2. CASE PassOver
    BY <2>1, <2>2 DEF PassOver
  <2>3. CASE Skip
    <3>1. refs' = [refs EXCEPT ![mtItemIndex].state = "skip"]
      BY <2>3 DEF Skip
    <3> QED
      BY <1>3, <2>1, <3>1 DEF KeptRecord
  <2> QED
    BY <2>2, <2>3
<1>5. Types' /\ TotalFits' /\ ThreadsAgree' /\ RealHasTheTurn'
  <2>1. Types'
    BY <1>1, <1>2, <1>3, <1>4, Zenon DEF Types, Running
  <2>2. TotalFits' /\ ThreadsAgree' /\ RealHasTheTurn'
    BY <1>1, <1>2 DEF TotalFits, ThreadsAgree, RealHasTheTurn, Busy, Compressing, Given
  <2> QED
    BY <2>1, <2>2
<1>6. InWork' = InWork /\ \A k \in InWork : FileOf(k)' = FileOf(k)
  BY <1>2 DEF InWork, FileOf
<1>7. ASSUME NEW k \in InWork
      PROVE  /\ FileOf(k) \in itemIndex..(mtItemIndex' - 1) /\ FileOf(k) \in Index
             /\ IsFile(FileOf(k)) /\ refs'[FileOf(k)].state = "none"
  <2>1. /\ FileOf(k) \in itemIndex..(mtItemIndex - 1) /\ FileOf(k) \in Index
        /\ IsFile(FileOf(k)) /\ refs[FileOf(k)].state = "none"
    BY <1>1, <1>2 DEF WorkIsInOrder
  <2>2. FileOf(k) # mtItemIndex
    BY <1>1, <2>1, Numbers
  <2> QED
    BY <1>1, <1>2, <1>4, <2>1, <2>2, Numbers, SMTT(30)
<1>8. ASSUME NEW i \in itemIndex..(mtItemIndex' - 1), IsFile(i), refs'[i].state = "none"
      PROVE  \E k \in InWork : FileOf(k) = i
  <2>1. i # mtItemIndex
    BY <1>4, <1>8
  <2>2. i \in itemIndex..(mtItemIndex - 1) /\ i \in Index
    <3>1. itemIndex \in Nat /\ itemIndex >= 1 /\ mtItemIndex \in Nat /\ mtItemIndex <= Len(Items)
      BY <1>1, <1>3, Numbers DEF Types, Index
    <3>2. i \in itemIndex..mtItemIndex
      BY <1>2, <1>8, <3>1
    <3>3. i \in Nat /\ i >= itemIndex /\ i < mtItemIndex
      BY <2>1, <3>1, <3>2
    <3> QED
      BY <1>1, <3>1, <3>3, Numbers
  <2> QED
    BY <1>1, <1>2, <1>4, <1>8, <2>1, <2>2 DEF WorkIsInOrder
<1>9. WorkIsInOrder'
  <2>1. \A t \in Thread : ~th'[t].exit /\ (~th'[t].free <=> \E k \in InWork' : threadIndices'[k] = t)
    BY <1>1, <1>2, <1>6 DEF WorkIsInOrder
  <2>2. \A k \in InWork' : /\ FileOf(k)' \in itemIndex'..(mtItemIndex' - 1) /\ FileOf(k)' \in Index
                           /\ IsFile(FileOf(k)') /\ refs'[FileOf(k)'].state = "none"
    BY <1>2, <1>6, <1>7 DEF FileOf
  <2>3. \A j, k \in InWork' : j < k => FileOf(j)' < FileOf(k)'
    BY <1>1, <1>2, <1>6 DEF WorkIsInOrder, FileOf
  <2>4. \A i \in itemIndex'..(mtItemIndex' - 1) :
          IsFile(i) /\ refs'[i].state = "none" => \E k \in InWork' : FileOf(k)' = i
    BY <1>2, <1>6, <1>8 DEF FileOf
  <2>5. \A i \in Index : i >= mtItemIndex' => refs'[i].state = "none"
    BY <1>1, <1>2, <1>4, Numbers DEF WorkIsInOrder
  <2>6. itemIndex' <= mtItemIndex'
    BY <1>1, <1>2, Numbers DEF WorkIsInOrder
  <2> QED
    BY <1>2, <2>1, <2>2, <2>3, <2>4, <2>5, <2>6 DEF WorkIsInOrder, FileOf
<1> QED
  BY <1>5, <1>9 DEF ZipInv

\* As long as there are fewer files at work than threads, a thread is free.
LEMMA OneIsFree ==
  ASSUME ZipInv, Running, Len(threadIndices) < NumThreads
  PROVE  \E t \in Thread : th[t].free
<1> SUFFICES ASSUME \A t \in Thread : ~th[t].free PROVE FALSE
  OBVIOUS
<1>1. Types /\ WorkIsInOrder
  BY DEF ZipInv
<1> DEFINE n == Len(threadIndices)
<1>2. n \in Nat /\ threadIndices \in [1..n -> Thread]
  BY <1>1, LenProperties DEF Types
<1>3. \A t \in Thread : \E k \in 1..n : threadIndices[k] = t
  BY <1>1 DEF WorkIsInOrder, InWork
<1>4. threadIndices \in Surjection(1..n, Thread)
  BY <1>2, <1>3 DEF Surjection
<1>5. Cardinality(Thread) <= n
  BY <1>2, <1>4, FS_SurjCardinalityBound DEF ExistsSurjection
<1>6. Cardinality(Thread) = NumThreads
  BY FS_Interval, ZipAssumption DEF Thread
<1> QED
  BY <1>1, <1>2, <1>5, <1>6, Numbers

LEMMA OpenedInv ==
  ASSUME ZipInv, Opened
  PROVE  ZipInv'
<1>1. Types /\ TotalFits /\ ThreadsAgree /\ WorkIsInOrder /\ RealHasTheTurn
  BY DEF ZipInv
<1> DEFINE idle == {u \in Thread : th[u].free}
           t == Min(idle)
           new == [th[t] EXCEPT !.free = FALSE, !.item = mtItemIndex,
              !.compress = TRUE, !.toReal = FALSE, !.sent = FALSE, !.real = FALSE,
              !.blocks = <<>>, !.total = 0, !.pos = 0]
<1>2. /\ mpc = "open" /\ mpc' = "loop" /\ mtItemIndex' = mtItemIndex + 1 /\ itemIndex' = itemIndex
      /\ refs' = refs /\ joined' = joined /\ Running
      /\ threadIndices' = Append(threadIndices, t) /\ th' = [th EXCEPT ![t] = new]
  BY DEF Opened, Running
<1>3. mtItemIndex \in Index /\ IsFile(mtItemIndex) /\ Len(threadIndices) < NumThreads
  BY <1>1, <1>2 DEF WorkIsInOrder
<1>4. t \in idle
  <2>1. idle \subseteq Nat /\ idle # {}
    BY <1>1, <1>2, <1>3, OneIsFree, Numbers
  <2> HIDE DEF idle
  <2> QED
    BY <2>1, MinIsIn
<1>5. t \in Thread /\ th[t].free
  BY <1>4
<1> HIDE DEF t, idle
<1>6. RecordAgrees(th[t]) /\ th[t] \in ThreadRecord /\ ~th[t].exit
  BY <1>1, <1>2, <1>5, RecordsAgree DEF RecordAgrees, WorkIsInOrder
<1>7. mtItemIndex \in Nat /\ <<>> \in Seq(AnyPiece) /\ Len(<<>>) = 0
  BY <1>1, Numbers, EmptySeq
<1>8. new \in ThreadRecord
  BY <1>6, <1>7 DEF ThreadRecord
<1>9. /\ new.item = mtItemIndex /\ ~new.free /\ new.exit = th[t].exit
      /\ new.completed = th[t].completed /\ new.total = 0 /\ new.blocks = <<>>
      /\ ~new.real /\ ~new.toReal /\ new.pc = th[t].pc
  BY <1>6 DEF ThreadRecord
<1> HIDE DEF new
<1>10. RecordAgrees(new)
  BY <1>5, <1>6, <1>7, <1>8, <1>9 DEF RecordAgrees
<1>11. /\ th' \in [Thread -> ThreadRecord] /\ TotalFits' /\ ThreadsAgree' /\ th'[t] = new
       /\ \A u \in Thread : u # t => th'[u] = th[u]
  BY <1>1, <1>2, <1>5, <1>10, OneRecord
<1>0. PICK n : n = Len(threadIndices)
  OBVIOUS
<1>12. /\ threadIndices \in Seq(Thread) /\ n \in Nat /\ InWork = 1..n
       /\ mtItemIndex + 1 \in 1..(Len(Items) + 1)
  BY <1>0, <1>1, <1>3, Numbers DEF Types, InWork, Index
<1>13. /\ threadIndices' \in Seq(Thread) /\ InWork' = 1..(n + 1)
       /\ threadIndices'[n + 1] = t /\ \A k \in InWork : threadIndices'[k] = threadIndices[k]
  BY <1>0, <1>2, <1>5, <1>12 DEF InWork
<1>14. Types'
  BY <1>1, <1>2, <1>11, <1>12, <1>13 DEF Types
<1>15. RealHasTheTurn'
  <2>1. ASSUME NEW u \in Thread, Busy(u)', th'[u].real \/ th'[u].toReal
        PROVE  th'[u].item = itemIndex
    <3>1. u # t /\ th'[u] = th[u]
      BY <1>9, <1>11, <2>1
    <3> QED
      BY <1>1, <2>1, <3>1 DEF RealHasTheTurn, Busy, Compressing, Given
  <2> QED
    BY <1>2, <2>1 DEF RealHasTheTurn
<1>16. ASSUME NEW k \in InWork
       PROVE  /\ threadIndices[k] # t /\ FileOf(k)' = FileOf(k)
              /\ FileOf(k) \in itemIndex..(mtItemIndex - 1) /\ FileOf(k) \in Index
              /\ IsFile(FileOf(k)) /\ refs[FileOf(k)].state = "none"
  <2>1. threadIndices[k] \in Thread /\ threadIndices[k] # t
    BY <1>1, <1>2, <1>5, Numbers DEF WorkIsInOrder
  <2>2. FileOf(k)' = FileOf(k)
    BY <1>11, <1>13, <2>1 DEF FileOf
  <2> QED
    BY <1>1, <1>2, <2>1, <2>2 DEF WorkIsInOrder
<1>17. FileOf(n + 1)' = mtItemIndex
  BY <1>9, <1>11, <1>13 DEF FileOf
<1>18. itemIndex \in Nat /\ mtItemIndex \in Nat /\ itemIndex <= mtItemIndex
  BY <1>1, <1>2, Numbers DEF WorkIsInOrder
<1>19. refs[mtItemIndex].state = "none"
  BY <1>1, <1>2, <1>3, <1>18 DEF WorkIsInOrder
<1>20. WorkIsInOrder'
  <2>1. ASSUME NEW u \in Thread
        PROVE  ~th'[u].exit /\ (~th'[u].free <=> \E k \in InWork' : threadIndices'[k] = u)
    <3>1. CASE u = t
      BY <1>6, <1>9, <1>11, <1>12, <1>13, <3>1
    <3>2. CASE u # t
      <4>1. ~th'[u].exit /\ (~th'[u].free <=> \E k \in InWork : threadIndices[k] = u)
        BY <1>1, <1>2, <1>11, <3>2 DEF WorkIsInOrder
      <4>2. \A k \in InWork : k \in InWork' /\ threadIndices'[k] = threadIndices[k]
        BY <1>12, <1>13
      <4>3. \A k \in InWork' : k \in InWork \/ threadIndices'[k] # u
        <5>1. \A k \in InWork' : k \in InWork \/ k = n + 1
          BY <1>12, <1>13
        <5> QED
          BY <1>13, <3>2, <5>1
      <4>4. (\E k \in InWork : threadIndices[k] = u) <=> \E k \in InWork' : threadIndices'[k] = u
        BY <4>2, <4>3, Zenon
      <4> QED
        BY <4>1, <4>4
    <3> QED
      BY <3>1, <3>2
  <2>2. ASSUME NEW k \in InWork'
        PROVE  /\ FileOf(k)' \in itemIndex..mtItemIndex /\ FileOf(k)' \in Index
               /\ IsFile(FileOf(k)') /\ refs[FileOf(k)'].state = "none"
    <3>1. CASE k \in InWork
      BY <1>16, <1>18, <3>1
    <3>2. CASE k = n + 1
      BY <1>3, <1>17, <1>18, <1>19, <3>2
    <3> QED
      BY <1>12, <1>13, <3>1, <3>2
  <2>3. ASSUME NEW j \in InWork', NEW k \in InWork', j < k
        PROVE  FileOf(j)' < FileOf(k)'
    <3>1. j \in InWork /\ FileOf(j)' = FileOf(j) /\ FileOf(j) \in itemIndex..(mtItemIndex - 1)
      BY <1>12, <1>13, <1>16, <2>3
    <3>2. CASE k \in InWork
      BY <1>1, <1>2, <1>16, <2>3, <3>1, <3>2 DEF WorkIsInOrder
    <3>3. CASE k = n + 1
      BY <1>17, <1>18, <3>1, <3>3
    <3> QED
      BY <1>12, <1>13, <3>2, <3>3
  <2>4. ASSUME NEW i \in itemIndex..mtItemIndex, IsFile(i), refs[i].state = "none"
        PROVE  \E k \in InWork' : FileOf(k)' = i
    <3>1. CASE i = mtItemIndex
      BY <1>12, <1>13, <1>17, <3>1
    <3>2. CASE i \in itemIndex..(mtItemIndex - 1)
      <4>1. PICK k \in InWork : FileOf(k) = i
        BY <1>1, <1>2, <2>4, <3>2 DEF WorkIsInOrder
      <4> QED
        BY <1>12, <1>13, <1>16, <4>1
    <3> QED
      BY <1>18, <3>1, <3>2
  <2>5. \A i \in Index : i >= mtItemIndex' => refs'[i].state = "none"
    BY <1>1, <1>2, <1>18, Numbers DEF WorkIsInOrder
  <2>6. mtItemIndex' - 1 = mtItemIndex /\ itemIndex' <= mtItemIndex'
    BY <1>2, <1>18
  <2> QED
    BY <1>2, <2>1, <2>2, <2>3, <2>4, <2>5, <2>6 DEF WorkIsInOrder, FileOf
<1> QED
  BY <1>11, <1>14, <1>15, <1>20 DEF ZipInv

\* rest is the list threads without its j-th element.
Old(k, j) == IF k < j THEN k ELSE k + 1
Without(threads, j, rest) ==
  /\ rest \in Seq(Thread) /\ Len(rest) = Len(threads) - 1
  /\ \A k \in 1..(Len(threads) - 1) : rest[k] = threads[Old(k, j)]

\* Tail, and what the code does to threadIndices, leave out one thread.
LEMMA TakenOut ==
  ASSUME NEW threads \in Seq(Thread), NEW j \in 1..Len(threads)
  PROVE  /\ j = 1 => Without(threads, j, Tail(threads))
         /\ Without(threads, j, SubSeq(threads, 1, j - 1)
                                  \o SubSeq(threads, j + 1, Len(threads)))
<1> DEFINE n == Len(threads)
           a == SubSeq(threads, 1, j - 1)
           b == SubSeq(threads, j + 1, n)
<1>1. n \in Nat /\ j \in Nat /\ j >= 1 /\ j <= n /\ \A k \in 1..n : threads[k] \in Thread
  BY LenProperties
<1>2. j = 1 => Without(threads, j, Tail(threads))
  <2> HAVE j = 1
  <2>1. threads # <<>>
    BY <1>1
  <2>2. /\ Tail(threads) \in Seq(Thread) /\ Len(Tail(threads)) = n - 1
        /\ \A k \in 1..Len(Tail(threads)) : Tail(threads)[k] = threads[k + 1]
    BY <2>1, HeadTailProperties
  <2> QED
    BY <1>1, <2>2 DEF Without, Old
<1>3. /\ a \in Seq(Thread) /\ Len(a) = j - 1 /\ \A k \in 1..(j - 1) : a[k] = threads[k]
  <2>1. 1 \in Int /\ j - 1 \in Int /\ \A k \in 1..(j - 1) : threads[k] \in Thread
    BY <1>1
  <2>2. /\ a \in Seq(Thread) /\ Len(a) = IF 1 <= j - 1 THEN j - 1 - 1 + 1 ELSE 0
        /\ \A k \in 1..(j - 1 - 1 + 1) : a[k] = threads[1 + k - 1]
    BY <2>1, SubSeqProperties
  <2> HIDE DEF a
  <2> QED
    BY <1>1, <2>2
<1>4. /\ b \in Seq(Thread) /\ Len(b) = n - j /\ \A k \in 1..(n - j) : b[k] = threads[j + k]
  <2>1. j + 1 \in Int /\ n \in Int /\ \A k \in (j + 1)..n : threads[k] \in Thread
    BY <1>1
  <2> HIDE DEF n
  <2>2. /\ b \in Seq(Thread) /\ Len(b) = IF j + 1 <= n THEN n - (j + 1) + 1 ELSE 0
        /\ \A k \in 1..(n - (j + 1) + 1) : b[k] = threads[j + 1 + k - 1]
    BY <2>1, SubSeqProperties
  <2> HIDE DEF b
  <2> QED
    BY <1>1, <2>2
<1> HIDE DEF a, b, n
<1>5. /\ a \o b \in Seq(Thread) /\ Len(a \o b) = n - 1
      /\ \A k \in 1..(n - 1) : (a \o b)[k] = IF k <= j - 1 THEN a[k] ELSE b[k - (j - 1)]
  <2>1. /\ a \o b \in Seq(Thread) /\ Len(a \o b) = Len(a) + Len(b)
        /\ \A k \in 1..Len(a) + Len(b) : (a \o b)[k] = IF k <= Len(a) THEN a[k] ELSE b[k - Len(a)]
    BY <1>3, <1>4, ConcatProperties
  <2>2. Len(a) + Len(b) = n - 1
    BY <1>1, <1>3, <1>4
  <2> QED
    BY <1>3, <2>1, <2>2
<1>6. ASSUME NEW k \in 1..(n - 1)
      PROVE  (a \o b)[k] = threads[Old(k, j)]
  <2>1. CASE k < j
    <3>1. k \in 1..(j - 1) /\ k <= j - 1
      BY <1>1, <2>1
    <3> QED
      BY <1>3, <1>5, <2>1, <3>1 DEF Old
  <2>2. CASE ~(k < j)
    <3> DEFINE m == k - (j - 1)
    <3>1. m \in 1..(n - j) /\ ~(k <= j - 1) /\ j + m = k + 1
      BY <1>1, <2>2
    <3>2. (a \o b)[k] = b[m]
      BY <1>5, <3>1
    <3> HIDE DEF m
    <3> QED
      BY <1>4, <2>2, <3>1, <3>2 DEF Old
  <2> QED
    BY <2>1, <2>2
<1>7. Without(threads, j, a \o b)
  BY <1>5, <1>6 DEF Without, n
<1> QED
  BY <1>2, <1>7 DEF a, b, n

\* The file of one thread is done: it is in the archive, or its data are kept.
LEMMA FileIsDone ==
  ASSUME ZipInv, Storing, NEW j \in InWork, NEW new, RecordAgrees(new), new.free,
         th' = [th EXCEPT ![threadIndices[j]] = new], new.exit = th[threadIndices[j]].exit,
         Without(threadIndices, j, threadIndices'),
         mpc' = mpc, mtItemIndex' = mtItemIndex, joined' = joined,
         refs' \in [Index -> KeptRecord],
         \A i \in Index : i # FileOf(j) => refs'[i] = refs[i],
         \/ itemIndex' = itemIndex + 1 /\ FileOf(j) = itemIndex
         \/ itemIndex' = itemIndex /\ refs'[FileOf(j)].state # "none"
  PROVE  ZipInv'
<1>1. Types /\ TotalFits /\ ThreadsAgree /\ WorkIsInOrder /\ RealHasTheTurn
  BY DEF ZipInv
<1>2. /\ itemIndex < mtItemIndex /\ itemIndex \in Index /\ mpc = "loop" /\ Running
      /\ itemIndex + 1 \in 1..(Len(Items) + 1)
  BY StoringIsBehind
<1>3. PICK n : n = Len(threadIndices)
  OBVIOUS
<1>4. PICK t : t = threadIndices[j]
  OBVIOUS
<1>5. PICK file : file = FileOf(j)
  OBVIOUS
<1>6. n \in Nat /\ InWork = 1..n /\ j \in Nat /\ j >= 1 /\ j <= n /\ t \in Thread
  BY <1>1, <1>3, <1>4, Numbers DEF InWork
<1>7. /\ th' \in [Thread -> ThreadRecord] /\ TotalFits' /\ ThreadsAgree' /\ th'[t] = new
      /\ \A u \in Thread : u # t => th'[u] = th[u]
  BY <1>1, <1>4, <1>6, OneRecord
<1>8. /\ threadIndices' \in Seq(Thread) /\ Len(threadIndices') = n - 1 /\ InWork' = 1..(n - 1)
      /\ \A k \in InWork' : threadIndices'[k] = threadIndices[Old(k, j)]
  BY <1>3 DEF Without, InWork
<1>9. ASSUME NEW k \in InWork, k # j
      PROVE  threadIndices[k] # t /\ FileOf(k) # file
  <2>1. FileOf(k) < FileOf(j) \/ FileOf(j) < FileOf(k)
    BY <1>1, <1>2, <1>6, <1>9 DEF WorkIsInOrder
  <2>2. FileOf(k) \in Nat /\ FileOf(j) \in Nat
    BY <1>1, <1>2, Numbers DEF WorkIsInOrder
  <2>3. FileOf(k) # FileOf(j)
    BY <2>1, <2>2
  <2> QED
    BY <1>4, <1>5, <2>3 DEF FileOf
<1>10. ASSUME NEW k \in InWork'
       PROVE  /\ Old(k, j) \in InWork /\ Old(k, j) # j
              /\ FileOf(k)' = FileOf(Old(k, j)) /\ threadIndices'[k] = threadIndices[Old(k, j)]
  <2>1. Old(k, j) \in InWork /\ Old(k, j) # j
    BY <1>6, <1>8 DEF Old
  <2>2. threadIndices'[k] = threadIndices[Old(k, j)] /\ threadIndices[Old(k, j)] # t
    BY <1>8, <1>9, <2>1
  <2>3. threadIndices[Old(k, j)] \in Thread
    BY <1>1, <2>1, Numbers
  <2> QED
    BY <1>7, <2>1, <2>2, <2>3 DEF FileOf
<1>11. ASSUME NEW m \in InWork, m # j
       PROVE  \E k \in InWork' : Old(k, j) = m
  <2>1. CASE m < j
    <3>1. m \in InWork' /\ Old(m, j) = m
      BY <1>6, <1>8, <2>1 DEF Old
    <3> QED
      BY <3>1
  <2>2. CASE m > j
    <3>1. m - 1 \in InWork' /\ Old(m - 1, j) = m
      BY <1>6, <1>8, <2>2 DEF Old
    <3> QED
      BY <3>1
  <2> QED
    BY <1>6, <1>11, <2>1, <2>2
<1>12. file \in Index /\ file >= itemIndex /\ file < mtItemIndex /\ itemIndex \in Nat /\ mtItemIndex \in Nat
  BY <1>1, <1>2, <1>5, Numbers DEF WorkIsInOrder
<1>13. itemIndex' \in 1..(Len(Items) + 1) /\ itemIndex' >= itemIndex /\ itemIndex' <= mtItemIndex
  BY <1>1, <1>2, <1>12 DEF Types
<1>14. Types'
  BY <1>1, <1>2, <1>7, <1>8, <1>13 DEF Types
<1>15. ASSUME NEW k \in InWork, k # j
       PROVE  /\ FileOf(k) \in itemIndex'..(mtItemIndex - 1) /\ FileOf(k) \in Index
              /\ IsFile(FileOf(k)) /\ refs'[FileOf(k)].state = "none"
  <2>1. /\ FileOf(k) \in itemIndex..(mtItemIndex - 1) /\ FileOf(k) \in Index
        /\ IsFile(FileOf(k)) /\ refs[FileOf(k)].state = "none"
    BY <1>1, <1>2 DEF WorkIsInOrder
  <2>2. FileOf(k) # file
    BY <1>9, <1>15
  <2> QED
    BY <1>5, <1>12, <2>1, <2>2
<1>16. WorkIsInOrder'
  <2>1. ASSUME NEW u \in Thread
        PROVE  ~th'[u].exit /\ (~th'[u].free <=> \E k \in InWork' : threadIndices'[k] = u)
    <3>1. ~th[u].exit /\ (~th[u].free <=> \E k \in InWork : threadIndices[k] = u)
      BY <1>1, <1>2 DEF WorkIsInOrder
    <3>2. CASE u = t
      <4>1. \A k \in InWork' : threadIndices'[k] # t
        BY <1>9, <1>10
      <4> QED
        BY <1>4, <1>7, <3>1, <3>2, <4>1
    <3>3. CASE u # t
      <4>1. (\E k \in InWork : threadIndices[k] = u) => \E k \in InWork' : threadIndices'[k] = u
        BY <1>4, <1>10, <1>11, <3>3
      <4>2. (\E k \in InWork' : threadIndices'[k] = u) => \E k \in InWork : threadIndices[k] = u
        BY <1>10
      <4> QED
        BY <1>7, <3>1, <3>3, <4>1, <4>2
    <3> QED
      BY <3>2, <3>3
  <2>2. \A k \in InWork' : /\ FileOf(k)' \in itemIndex'..(mtItemIndex' - 1) /\ FileOf(k)' \in Index
                           /\ IsFile(FileOf(k)') /\ refs'[FileOf(k)'].state = "none"
    BY <1>10, <1>15
  <2>3. ASSUME NEW a \in InWork', NEW b \in InWork', a < b
        PROVE  FileOf(a)' < FileOf(b)'
    <3>1. Old(a, j) < Old(b, j)
      BY <1>6, <1>8, <2>3 DEF Old
    <3> QED
      BY <1>1, <1>2, <1>10, <3>1 DEF WorkIsInOrder
  <2>4. ASSUME NEW i \in itemIndex'..(mtItemIndex - 1), IsFile(i), refs'[i].state = "none"
        PROVE  \E k \in InWork' : FileOf(k)' = i
    <3>1. i # file /\ i \in itemIndex..(mtItemIndex - 1)
      BY <1>5, <1>12, <1>13, <2>4
    <3>2. i \in Index
      BY <1>1, <1>12, <3>1, Numbers DEF Types
    <3>3. PICK m \in InWork : FileOf(m) = i
      BY <1>1, <1>2, <1>5, <2>4, <3>1, <3>2 DEF WorkIsInOrder
    <3> QED
      BY <1>5, <1>10, <1>11, <3>1, <3>3
  <2>5. \A i \in Index : i >= mtItemIndex => refs'[i].state = "none"
    BY <1>1, <1>2, <1>5, <1>12, Numbers, SMTT(30) DEF WorkIsInOrder
  <2> QED
    BY <1>2, <1>13, <2>1, <2>2, <2>3, <2>4, <2>5 DEF WorkIsInOrder, FileOf
<1>17. RealHasTheTurn'
  <2>1. ASSUME NEW u \in Thread, Busy(u)', th'[u].real \/ th'[u].toReal
        PROVE  th'[u].item = itemIndex'
    <3>1. u # t
      BY <1>7, <2>1 DEF ThreadsAgree
    <3>2. th'[u] = th[u] /\ Busy(u) /\ th[u].item = itemIndex /\ ~th[u].free
      BY <1>1, <1>7, <2>1, <3>1 DEF RealHasTheTurn, Busy, Compressing, Given, ThreadsAgree
    <3>3. PICK k \in InWork : threadIndices[k] = u
      BY <1>1, <1>2, <3>2 DEF WorkIsInOrder
    <3>4. k # j /\ FileOf(k) = itemIndex
      BY <1>4, <3>1, <3>2, <3>3 DEF FileOf
    <3>5. FileOf(k) # file
      BY <1>9, <3>4
    <3> QED
      BY <1>5, <3>2, <3>4, <3>5
  <2> QED
    BY <2>1 DEF RealHasTheTurn
<1> QED
  BY <1>7, <1>14, <1>16, <1>17 DEF ZipInv

LEMMA WaitCompletedInv ==
  ASSUME ZipInv, WaitCompleted
  PROVE  ZipInv'
<1>1. Types /\ TotalFits /\ ThreadsAgree /\ WorkIsInOrder /\ RealHasTheTurn
  BY DEF ZipInv
<1>2. Storing /\ Waiting /\ Ready # {} /\ mtItemIndex' = mtItemIndex /\ joined' = joined
  BY DEF WaitCompleted, Waiting
<1>3. Running /\ itemIndex \in Index /\ itemIndex + 1 \in 1..(Len(Items) + 1)
  BY <1>2, StoringIsBehind
<1>4. Ready \subseteq InWork /\ InWork \subseteq Nat
  BY SMTT(30), <1>1, Numbers DEF Ready, InWork, Types
<1>5. PICK j : j = Min(Ready)
  OBVIOUS
<1>6. j \in Ready
  BY <1>2, <1>4, <1>5, MinIsIn
<1>7. PICK t : t = threadIndices[j]
  OBVIOUS
<1>8. j \in InWork /\ j \in Nat /\ j >= 1 /\ t \in Thread /\ th[t].completed /\ j \in 1..Len(threadIndices)
  BY <1>1, <1>4, <1>6, <1>7, Numbers DEF Ready, InWork
<1>9. RecordAgrees(th[t]) /\ th[t] \in ThreadRecord /\ threadIndices \in Seq(Thread)
  BY <1>1, <1>8, RecordsAgree DEF Types
<1> DEFINE done == [th[t] EXCEPT !.completed = FALSE, !.free = TRUE]
           emptied == [done EXCEPT !.blocks = <<>>, !.total = 0]
           data == Written(th[t].blocks, th[t].total)
<1>10. <<>> \in Seq(AnyPiece) /\ Len(<<>>) = 0
  BY EmptySeq
<1>11. RecordAgrees(done) /\ done.free /\ done.exit = th[t].exit /\ ~done.completed
       /\ done.compress = th[t].compress /\ done.pc = th[t].pc
  <2>1. done \in ThreadRecord
    BY <1>9 DEF ThreadRecord
  <2>2. /\ done.free /\ done.exit = th[t].exit /\ ~done.completed
        /\ done.compress = th[t].compress /\ done.pc = th[t].pc
        /\ done.total = th[t].total /\ done.blocks = th[t].blocks
    BY <1>9 DEF ThreadRecord
  <2> HIDE DEF done
  <2> QED
    BY <1>8, <1>9, <2>1, <2>2 DEF RecordAgrees
<1>12. RecordAgrees(emptied) /\ emptied.free /\ emptied.exit = th[t].exit
  <2>1. done \in ThreadRecord
    BY <1>11 DEF RecordAgrees
  <2> HIDE DEF done
  <2>2. emptied \in ThreadRecord
    BY <1>10, <2>1 DEF ThreadRecord
  <2>3. /\ emptied.free = done.free /\ emptied.exit = done.exit /\ emptied.completed = done.completed
        /\ emptied.compress = done.compress /\ emptied.pc = done.pc
        /\ emptied.total = 0 /\ emptied.blocks = <<>>
    BY <2>1 DEF ThreadRecord
  <2> HIDE DEF emptied
  <2> QED
    BY <1>8, <1>9, <1>10, <1>11, <2>2, <2>3 DEF RecordAgrees
<1>13. data \in Seq(AnyPiece)
  <2>1. th[t].blocks \in Seq(AnyPiece) /\ th[t].total \in Nat /\ th[t].total <= Len(th[t].blocks)
    BY <1>9 DEF RecordAgrees, ThreadRecord
  <2>2. 1 \in Int /\ th[t].total \in Int /\ \A k \in 1..th[t].total : th[t].blocks[k] \in AnyPiece
    BY <2>1, LenProperties
  <2> QED
    BY <2>2, SubSeqProperties DEF Written
<1>14. \/ mpc' = "stop" /\ itemIndex' = itemIndex /\ refs' = refs
          /\ th' = [th EXCEPT ![t] = done]
          /\ (threadIndices' = threadIndices \/ (j = 1 /\ threadIndices' = Tail(threadIndices)))
       \/ j = 1 /\ mpc' = mpc /\ itemIndex' = itemIndex + 1 /\ refs' = refs
          /\ th' = [th EXCEPT ![t] = emptied] /\ threadIndices' = Tail(threadIndices)
       \/ j > 1 /\ mpc' = mpc /\ itemIndex' = itemIndex
          /\ refs' = [refs EXCEPT ![th[t].item] =
               [state |-> "defined", size |-> th[t].pos, data |-> data]]
          /\ th' = [th EXCEPT ![t] = emptied]
          /\ threadIndices' = SubSeq(threadIndices, 1, j - 1)
               \o SubSeq(threadIndices, j + 1, Len(threadIndices))
  BY <1>5, <1>7 DEF WaitCompleted, WriteLocalHeader, Return
<1> HIDE DEF done, emptied, data
<1>15. CASE mpc' = "stop" /\ itemIndex' = itemIndex /\ refs' = refs
            /\ th' = [th EXCEPT ![t] = done]
            /\ (threadIndices' = threadIndices \/ (j = 1 /\ threadIndices' = Tail(threadIndices)))
  <2>1. /\ th' \in [Thread -> ThreadRecord] /\ TotalFits' /\ ThreadsAgree' /\ th'[t] = done
        /\ \A u \in Thread : u # t => th'[u] = th[u]
    BY <1>1, <1>8, <1>11, <1>15, OneRecord
  <2>2. threadIndices' \in Seq(Thread)
    BY <1>8, <1>9, <1>15, TakenOut DEF Without
  <2>3. Types'
    BY <1>1, <1>2, <1>3, <1>15, <2>1, <2>2 DEF Types, Running
  <2>4. RealHasTheTurn'
    <3>1. ASSUME NEW u \in Thread, Busy(u)', th'[u].real \/ th'[u].toReal
          PROVE  th'[u].item = itemIndex
      <4>1. u # t
        BY <1>11, <2>1, <3>1 DEF ThreadsAgree
      <4> QED
        BY <1>1, <2>1, <3>1, <4>1 DEF RealHasTheTurn, Busy, Compressing, Given
    <3> QED
      BY <1>15, <3>1 DEF RealHasTheTurn
  <2>5. WorkIsInOrder'
    BY <1>15 DEF WorkIsInOrder, Running
  <2> QED
    BY <2>1, <2>3, <2>4, <2>5 DEF ZipInv
<1>16. refs \in [Index -> KeptRecord] /\ FileOf(j) = th[t].item /\ FileOf(j) \in Index
  BY <1>1, <1>3, <1>7, <1>8 DEF Types, FileOf, WorkIsInOrder
<1>17. CASE j = 1 /\ mpc' = mpc /\ itemIndex' = itemIndex + 1 /\ refs' = refs
            /\ th' = [th EXCEPT ![t] = emptied] /\ threadIndices' = Tail(threadIndices)
  <2>1. FileOf(j) = itemIndex
    BY <1>2, <1>17, FrontHasTheTurn
  <2>2. Without(threadIndices, j, threadIndices')
    BY <1>8, <1>9, <1>17, TakenOut
  <2> QED
    BY <1>2, <1>7, <1>8, <1>12, <1>16, <1>17, <2>1, <2>2, FileIsDone
<1>18. CASE j > 1 /\ mpc' = mpc /\ itemIndex' = itemIndex
            /\ refs' = [refs EXCEPT ![th[t].item] =
                 [state |-> "defined", size |-> th[t].pos, data |-> data]]
            /\ th' = [th EXCEPT ![t] = emptied]
            /\ threadIndices' = SubSeq(threadIndices, 1, j - 1)
                 \o SubSeq(threadIndices, j + 1, Len(threadIndices))
  <2>1. Without(threadIndices, j, threadIndices')
    BY <1>8, <1>9, <1>18, TakenOut
  <2> DEFINE kept == [state |-> "defined", size |-> th[t].pos, data |-> data]
  <2>2. kept \in KeptRecord /\ kept.state # "none"
    BY <1>9, <1>13 DEF ThreadRecord, KeptRecord
  <2>3. refs' = [refs EXCEPT ![FileOf(j)] = kept]
    BY <1>16, <1>18
  <2> HIDE DEF kept
  <2>4. /\ refs' \in [Index -> KeptRecord] /\ refs'[FileOf(j)].state # "none"
        /\ \A i \in Index : i # FileOf(j) => refs'[i] = refs[i]
    BY <1>16, <2>2, <2>3
  <2> QED
    BY <1>2, <1>7, <1>8, <1>12, <1>18, <2>1, <2>4, FileIsDone
<1> QED
  BY <1>14, <1>15, <1>17, <1>18

-----------------------------------------------------------------------------
(* The theorems.                                                            *)

LEMMA StepInv == ZipInv /\ [Next]_vars => ZipInv'
<1> SUFFICES ASSUME ZipInv, [Next]_vars PROVE ZipInv'
  OBVIOUS
<1>1. CASE MainNext
  BY <1>1, CreateThreadInv, PlainSteps, StopThreadInv, SetRealInv, StoringSteps, PassSteps,
     OpenedInv, WaitCompletedInv DEF MainNext
<1>2. CASE \E t \in Thread : ThreadNext(t)
  BY <1>2, ThreadInv
<1>3. CASE UNCHANGED vars
  BY <1>3 DEF vars, mainVars, ZipInv, Types, TotalFits, ThreadsAgree, WorkIsInOrder, RealHasTheTurn,
     Busy, Compressing, Given, Running, InWork, FileOf
<1> QED
  BY <1>1, <1>2, <1>3 DEF Next, Terminating

\* The invariant of Update2: as long as it runs, threadIndices has the threads
\* that are not free, in the order of their files, and every file between
\* itemIndex and mtItemIndex is with one of them, kept in refs or skipped.
THEOREM ZipInvariant == Spec => []ZipInv
BY InitInv, StepInv, PTL DEF Spec

\* Of the threads that compress, only the one with the file of itemIndex writes
\* to the archive: SetRealStreamMode goes to the first of threadIndices.
THEOREM OneWriter == Spec => []WriterHasTheTurn
<1>1. ZipInv => WriterHasTheTurn
  BY DEF ZipInv, RealHasTheTurn, WriterHasTheTurn, Busy, Compressing
<1> QED
  BY <1>1, ZipInvariant, PTL

-----------------------------------------------------------------------------
(* The data.                                                                *)

\* The pieces of an attempt to compress a file, as far as they have been stored.
Pieces(i, attempt, pos) == [k \in 1..pos |-> <<i, attempt, k>>]

\* What a thread stored of its present attempt is in its blocks, or in the archive
\* if it writes there; cur is what follows the last item of the archive.
Stored(r, cur) ==
  \/ r.real /\ r.blocks = <<>> /\ r.total = 0 /\ cur = Pieces(r.item, r.attempt, r.pos)
  \/ ~r.real /\ r.total = r.pos /\ r.pos <= Len(r.blocks)
     /\ \A k \in 1..r.pos : r.blocks[k] = <<r.item, r.attempt, k>>

\* What the record r of a thread with a file says of the data.
RecordIsRight(r, cur, turn) ==
  /\ r.real \/ r.toReal => r.item = turn
  /\ r.compress => r.blocks = <<>> /\ r.total = 0 /\ ~r.real
  /\ r.pc \in {"attempt", "write", "report"} => r.attempt \in 1..Len(Items[r.item])
  /\ r.pc = "attempt" /\ r.real => r.blocks = <<>> /\ r.total = 0
  /\ r.pc \in {"write", "report"} => r.pos <= Items[r.item][r.attempt] /\ Stored(r, cur)
  /\ r.pc = "report" => r.pos = Items[r.item][r.attempt]
  /\ r.completed /\ r.result = "ok" =>
       /\ r.attempt = Len(Items[r.item]) /\ r.pos = Items[r.item][r.attempt]
       /\ Stored(r, cur)

ThreadsAreRight ==
  Running =>
    /\ \A t \in Thread : ~th[t].free => RecordIsRight(th[t], current, itemIndex)
    /\ (\A t \in Thread : th[t].free \/ ~th[t].real) => current = <<>>

\* What is kept of a file is all of its last attempt.
KeptIsRight ==
  Running =>
    \A i \in Index :
      /\ refs[i].state # "none" => IsFile(i)
      /\ refs[i].state = "defined" =>
           /\ refs[i].data = Data(i, Len(Items[i])) /\ refs[i].size = Len(refs[i].data)

\* An item of the archive has all its data.
EntryIsRight(e) ==
  /\ e.data = IF IsFile(e.item) THEN Data(e.item, Len(Items[e.item])) ELSE <<>>
  /\ e.size = Len(e.data)

\* The archive has the items before itemIndex, those that were skipped excepted.
ArchiveIsRight ==
  /\ archive \in Seq([item : Index, size : Nat, data : Seq(AnyPiece)])
  /\ Running => ret = "ok"
  /\ ret = "ok" =>
       /\ Running \/ itemIndex = Len(Items) + 1
       /\ {archive[k].item : k \in 1..Len(archive)}
            = {i \in Index : i < itemIndex /\ refs[i].state # "skip"}
       /\ \A k \in 1..(Len(archive) - 1) : archive[k].item < archive[k + 1].item
       /\ \A k \in 1..Len(archive) : EntryIsRight(archive[k])

DataInv == ThreadsAreRight /\ KeptIsRight /\ ArchiveIsRight

LEMMA InitData == Init => DataInv
<1> SUFFICES ASSUME Init PROVE DataInv
  OBVIOUS
<1> USE DEF Init
<1>1. Len(Items) \in Nat
  BY ZipAssumption, LenProperties
<1>2. <<>> \in Seq([item : Index, size : Nat, data : Seq(AnyPiece)]) /\ Len(<<>>) = 0
  BY EmptySeq
<1>3. ThreadsAreRight /\ KeptIsRight
  BY DEF ThreadsAreRight, KeptIsRight, nothing
<1>4. ArchiveIsRight
  <2>1. {archive[k].item : k \in 1..Len(archive)} = {i \in Index : i < itemIndex /\ refs[i].state # "skip"}
    BY <1>1, <1>2 DEF Index
  <2> QED
    BY <1>2, <2>1 DEF ArchiveIsRight, Running
<1> QED
  BY <1>3, <1>4 DEF DataInv

LEMMA PiecesProperties ==
  ASSUME NEW i \in Nat, NEW a \in Nat, NEW n \in Nat
  PROVE  /\ Pieces(i, a, n) \in Seq(AnyPiece) /\ Len(Pieces(i, a, n)) = n
         /\ \A k \in 1..n : Pieces(i, a, n)[k] = <<i, a, k>>
<1>1. \A k \in 1..n : <<i, a, k>> \in AnyPiece
  BY DEF AnyPiece
<1>2. Pieces(i, a, n) \in [1..n -> AnyPiece]
  BY <1>1 DEF Pieces
<1>3. Pieces(i, a, n) \in Seq(AnyPiece)
  BY <1>2
<1>4. DOMAIN Pieces(i, a, n) = 1..n /\ Len(Pieces(i, a, n)) \in Nat
      /\ DOMAIN Pieces(i, a, n) = 1..Len(Pieces(i, a, n))
  BY <1>2, <1>3, LenProperties
<1>5. Len(Pieces(i, a, n)) = n
  BY <1>4
<1> QED
  BY <1>3, <1>5 DEF Pieces

\* Nothing stored, and one piece more.
LEMMA PiecesGrow ==
  ASSUME NEW i \in Nat, NEW a \in Nat, NEW n \in Nat
  PROVE  /\ Pieces(i, a, 0) = <<>>
         /\ Append(Pieces(i, a, n), <<i, a, n + 1>>) = Pieces(i, a, n + 1)
<1>1. Pieces(i, a, 0) = <<>>
  <2>1. Pieces(i, a, 0) \in Seq(AnyPiece) /\ Len(Pieces(i, a, 0)) = 0
    BY PiecesProperties
  <2> QED
    BY <2>1, EmptySeq
<1> DEFINE s == Pieces(i, a, n)
           p == <<i, a, n + 1>>
           more == Pieces(i, a, n + 1)
<1>2. s \in Seq(AnyPiece) /\ Len(s) = n /\ \A k \in 1..n : s[k] = <<i, a, k>>
  BY PiecesProperties
<1>3. n + 1 \in Nat /\ p \in AnyPiece
  BY DEF AnyPiece
<1>4. more \in Seq(AnyPiece) /\ Len(more) = n + 1 /\ \A k \in 1..(n + 1) : more[k] = <<i, a, k>>
  BY <1>3, PiecesProperties
<1> DEFINE t == Append(s, p)
<1> HIDE DEF s, p, more
<1>5. t \in Seq(AnyPiece) /\ Len(t) = n + 1 /\ (\A k \in 1..n : t[k] = s[k]) /\ t[n + 1] = p
  BY <1>2, <1>3, AppendProperties
<1> HIDE DEF t
<1>6. ASSUME NEW k \in 1..(n + 1) PROVE t[k] = more[k]
  <2>1. CASE k = n + 1
    BY <1>4, <1>5, <2>1 DEF p
  <2>2. CASE k \in 1..n
    BY <1>2, <1>4, <1>5, <2>2
  <2> QED
    BY <2>1, <2>2
<1>7. t = more
  <2>1. Len(t) = Len(more) /\ \A k \in 1..Len(t) : t[k] = more[k]
    BY <1>4, <1>5, <1>6
  <2> QED
    BY <1>4, <1>5, <2>1, SeqEqual
<1> QED
  BY <1>1, <1>7 DEF s, p, more, t

\* What WriteToStream and Detach take from the blocks.
LEMMA WrittenArePieces ==
  ASSUME NEW blocks \in Seq(AnyPiece), NEW i \in Nat, NEW a \in Nat, NEW n \in Nat,
         n <= Len(blocks), \A k \in 1..n : blocks[k] = <<i, a, k>>
  PROVE  Written(blocks, n) = Pieces(i, a, n)
<1> DEFINE w == SubSeq(blocks, 1, n)
           s == Pieces(i, a, n)
<1>1. s \in Seq(AnyPiece) /\ Len(s) = n /\ \A k \in 1..n : s[k] = <<i, a, k>>
  BY PiecesProperties
<1>2. \A k \in 1..n : blocks[k] \in AnyPiece
  BY DEF AnyPiece
<1>3. /\ w \in Seq(AnyPiece) /\ Len(w) = IF 1 <= n THEN n - 1 + 1 ELSE 0
      /\ \A k \in 1..(n - 1 + 1) : w[k] = blocks[1 + k - 1]
  BY <1>2, SubSeqProperties
<1> HIDE DEF w, s
<1>4. Len(w) = n
  BY <1>3
<1>5. ASSUME NEW k \in 1..n PROVE w[k] = s[k]
  <2>1. k \in 1..(n - 1 + 1) /\ 1 + k - 1 = k
    OBVIOUS
  <2>2. w[k] = blocks[k]
    BY <1>3, <2>1
  <2> QED
    BY <1>1, <2>2
<1>6. w = s
  BY <1>1, <1>3, <1>4, <1>5, SeqEqual
<1> QED
  BY <1>6 DEF Written, w, s

\* A thread that is not free has a file of its own, which is neither kept nor skipped.
LEMMA WorkersHaveFiles ==
  ASSUME ZipInv, Running, NEW t \in Thread, ~th[t].free
  PROVE  /\ th[t].item \in Index /\ th[t].item \in Nat /\ IsFile(th[t].item)
         /\ refs[th[t].item].state = "none" /\ ~th[t].exit
         /\ th[t].item >= itemIndex /\ th[t].item < mtItemIndex
         /\ Items[th[t].item] \in Seq(Nat) /\ Len(Items[th[t].item]) \in Nat
         /\ Len(Items[th[t].item]) >= 1
         /\ \A a \in 1..Len(Items[th[t].item]) : Items[th[t].item][a] \in Nat
         /\ \A u \in Thread : u # t /\ ~th[u].free => th[u].item # th[t].item
<1>1. Types /\ WorkIsInOrder
  BY DEF ZipInv
<1>2. PICK k \in InWork : threadIndices[k] = t
  BY <1>1 DEF WorkIsInOrder
<1>3. FileOf(k) = th[t].item
  BY <1>2 DEF FileOf
<1>4. /\ th[t].item \in Index /\ IsFile(th[t].item) /\ refs[th[t].item].state = "none" /\ ~th[t].exit
      /\ th[t].item \in itemIndex..(mtItemIndex - 1)
  BY <1>1, <1>2, <1>3 DEF WorkIsInOrder
<1>5. th[t].item \in Nat /\ th[t].item >= itemIndex /\ th[t].item < mtItemIndex
  BY <1>1, <1>4, Numbers
<1>6. /\ Items[th[t].item] \in Seq(Nat) /\ Len(Items[th[t].item]) \in Nat
      /\ \A a \in 1..Len(Items[th[t].item]) : Items[th[t].item][a] \in Nat
  <2>1. Items \in Seq(Seq(Nat)) /\ th[t].item \in 1..Len(Items)
    BY <1>4, ZipAssumption DEF Index
  <2>2. Items[th[t].item] \in Seq(Nat)
    BY <2>1, ElementOfSeq
  <2> QED
    BY <2>2, LenProperties, ElementOfSeq
<1>7. Len(Items[th[t].item]) >= 1
  BY <1>4, <1>6, EmptySeq DEF IsFile
<1>8. ASSUME NEW u \in Thread, u # t, ~th[u].free
      PROVE  th[u].item # th[t].item
  <2>1. PICK m \in InWork : threadIndices[m] = u
    BY <1>1, <1>8 DEF WorkIsInOrder
  <2>2. m # k /\ FileOf(m) = th[u].item
    BY <1>2, <1>8, <2>1 DEF FileOf
  <2>3. m \in Nat /\ k \in Nat
    BY <1>1, Numbers
  <2>4. m < k \/ k < m
    BY <2>2, <2>3
  <2>5. FileOf(m) < FileOf(k) \/ FileOf(k) < FileOf(m)
    BY <1>1, <2>4 DEF WorkIsInOrder
  <2>6. FileOf(m) \in Nat /\ FileOf(k) \in Nat
    BY <1>1, Numbers DEF WorkIsInOrder
  <2>7. FileOf(m) # FileOf(k)
    BY <2>5, <2>6
  <2> QED
    BY <1>3, <2>2, <2>7
<1> QED
  BY <1>4, <1>5, <1>6, <1>7, <1>8

\* What a step of a thread that has a file makes of its record r and of the data
\* behind the last item of the archive.
GoesOnRightly(r, new, cur, newCur) ==
  /\ ~new.free /\ new.item = r.item /\ RecordIsRight(new, newCur, itemIndex)
  /\ new.real \/ newCur = cur
  /\ new.real \/ ~r.real

\* The facts about the record of a thread that its steps need.
CanStep(r) ==
  /\ r \in ThreadRecord /\ ~r.free /\ ~r.exit
  /\ r.item \in Nat /\ r.attempt \in Nat /\ r.pos \in Nat /\ r.total \in Nat
  /\ r.blocks \in Seq(AnyPiece) /\ Len(r.blocks) \in Nat
  /\ RecordIsRight(r, current, itemIndex)
  /\ r.toReal /\ ~r.real => current = <<>>
  /\ Len(Items[r.item]) \in Nat /\ Len(Items[r.item]) >= 1
  /\ \A a \in 1..Len(Items[r.item]) : Items[r.item][a] \in Nat

LEMMA BlockIsRight ==
  ASSUME NEW t \in Thread, th \in [Thread -> ThreadRecord], CanStep(th[t]),
         ~th[t].completed, ~th[t].compress,
         WriteInBlock(t) \/ WaitBlock(t)
  PROVE  \E new : th' = [th EXCEPT ![t] = new] /\ GoesOnRightly(th[t], new, current, current')
<1> DEFINE r == th[t]
           piece == NextPiece(t)
           next == r.pos + 1
           top == Max({r.total, r.pos + 1})
<1>1. /\ r \in ThreadRecord /\ r.item \in Nat /\ r.attempt \in Nat /\ r.pos \in Nat
      /\ r.total \in Nat /\ r.blocks \in Seq(AnyPiece) /\ Len(r.blocks) \in Nat
      /\ RecordIsRight(r, current, itemIndex) /\ ~r.free
      /\ \A a \in 1..Len(Items[r.item]) : Items[r.item][a] \in Nat
  BY DEF CanStep
<1>2. r.pc = "write" /\ ~r.real /\ r.pos < Items[r.item][r.attempt] /\ current' = current
  BY DEF WriteInBlock, WaitBlock, NeedsBlock, Writing
<1>3. /\ r.total = r.pos /\ r.pos <= Len(r.blocks) /\ r.attempt \in 1..Len(Items[r.item])
      /\ \A k \in 1..r.pos : r.blocks[k] = <<r.item, r.attempt, k>>
  BY <1>1, <1>2 DEF RecordIsRight, Stored
<1>4. next \in Nat /\ piece = <<r.item, r.attempt, next>> /\ piece \in AnyPiece
  BY <1>1 DEF NextPiece, AnyPiece
<1>5. top = next
  <2>1. \E x \in {r.total, next} : \A y \in {r.total, next} : x >= y
    BY <1>1, <1>3
  <2>2. top \in {r.total, next} /\ top >= next
    BY <1>3, <2>1 DEF Max
  <2> QED
    BY <1>1, <1>3, <2>2
<1>6. next <= Items[r.item][r.attempt]
  BY <1>1, <1>2, <1>3
<1>7. PICK blocks \in Seq(AnyPiece) :
        /\ th' = [th EXCEPT ![t] = [r EXCEPT !.pos = next, !.blocks = blocks, !.total = top]]
        /\ next <= Len(blocks)
        /\ \A k \in 1..next : blocks[k] = <<r.item, r.attempt, k>>
  <2>1. CASE WriteInBlock(t)
    <3> DEFINE b == [r.blocks EXCEPT ![r.pos + 1] = piece]
    <3>1. r.pos + 1 \in 1..Len(r.blocks)
      BY <1>1, <2>1 DEF WriteInBlock
    <3>2. b \in Seq(AnyPiece) /\ Len(b) = Len(r.blocks) /\ next <= Len(b)
      BY <1>1, <1>4, <3>1, ExceptSeq
    <3>3. th' = [th EXCEPT ![t] = [r EXCEPT !.pos = next, !.blocks = b, !.total = top]]
      BY <1>1, <2>1 DEF WriteInBlock, ThreadRecord
    <3>4. ASSUME NEW k \in 1..next PROVE b[k] = <<r.item, r.attempt, k>>
      <4>1. k \in 1..Len(r.blocks) /\ DOMAIN r.blocks = 1..Len(r.blocks)
        BY <1>1, <3>1, LenProperties
      <4>2. b[k] = IF k = r.pos + 1 THEN piece ELSE r.blocks[k]
        BY <4>1
      <4>3. k # r.pos + 1 => k \in 1..r.pos
        BY <1>1
      <4> HIDE DEF b, piece
      <4> QED
        BY <1>3, <1>4, <4>2, <4>3
    <3> HIDE DEF b
    <3> QED
      BY <3>2, <3>3, <3>4
  <2>2. CASE WaitBlock(t)
    <3> DEFINE b == Append(r.blocks, piece)
    <3>1. r.pos = Len(r.blocks)
      BY <2>2 DEF WaitBlock, NeedsBlock
    <3> HIDE DEF piece
    <3>2. /\ b \in Seq(AnyPiece) /\ Len(b) = next
          /\ (\A k \in 1..Len(r.blocks) : b[k] = r.blocks[k]) /\ b[next] = piece
      BY <1>1, <1>4, <3>1, AppendProperties, SMTT(30)
    <3>3. th' = [th EXCEPT ![t] = [r EXCEPT !.pos = next, !.blocks = b, !.total = top]]
      BY <1>1, <2>2 DEF WaitBlock, ThreadRecord, piece
    <3> HIDE DEF b
    <3>4. ASSUME NEW k \in 1..next PROVE b[k] = <<r.item, r.attempt, k>>
      <4>1. k = next \/ k \in 1..r.pos
        BY <1>1
      <4> QED
        BY <1>3, <1>4, <3>1, <3>2, <4>1
    <3>5. next <= Len(b)
      BY <1>4, <3>2
    <3> HIDE DEF next, top
    <3> QED
      BY <3>2, <3>3, <3>4, <3>5
  <2> QED
    BY <2>1, <2>2
<1> DEFINE new == [r EXCEPT !.pos = next, !.blocks = blocks, !.total = top]
<1> HIDE DEF next, piece, top
<1>8. /\ new.pc = "write" /\ new.item = r.item /\ new.attempt = r.attempt /\ new.pos = next
      /\ new.blocks = blocks /\ new.total = next /\ new.real = r.real /\ new.toReal = r.toReal
      /\ new.compress = r.compress /\ new.completed = r.completed /\ new.free = r.free
  BY <1>1, <1>2, <1>5 DEF ThreadRecord
<1> HIDE DEF new
<1>9. Stored(new, current)
  BY <1>2, <1>7, <1>8 DEF Stored
<1>10. r.real \/ r.toReal => r.item = itemIndex
  BY <1>1 DEF RecordIsRight
<1>11. RecordIsRight(new, current, itemIndex)
  BY <1>2, <1>3, <1>6, <1>8, <1>9, <1>10 DEF RecordIsRight
<1>12. GoesOnRightly(r, new, current, current')
  BY <1>1, <1>2, <1>8, <1>11 DEF GoesOnRightly
<1> QED
  BY <1>7, <1>12 DEF new

LEMMA RealIsRight ==
  ASSUME NEW t \in Thread, th \in [Thread -> ThreadRecord], CanStep(th[t]),
         ~th[t].completed, ~th[t].compress,
         WaitReal(t) \/ WriteReal(t)
  PROVE  \E new : th' = [th EXCEPT ![t] = new] /\ GoesOnRightly(th[t], new, current, current')
<1> DEFINE r == th[t]
           piece == NextPiece(t)
           next == r.pos + 1
<1>1. /\ r \in ThreadRecord /\ r.item \in Nat /\ r.attempt \in Nat /\ r.pos \in Nat
      /\ r.total \in Nat /\ r.blocks \in Seq(AnyPiece) /\ Len(r.blocks) \in Nat
      /\ RecordIsRight(r, current, itemIndex) /\ ~r.free
      /\ \A a \in 1..Len(Items[r.item]) : Items[r.item][a] \in Nat
  BY DEF CanStep
<1>2. r.pc = "write" /\ r.pos < Items[r.item][r.attempt]
  BY DEF WaitReal, WriteReal, NeedsBlock, Writing
<1>3. r.attempt \in 1..Len(Items[r.item]) /\ Stored(r, current)
  BY <1>1, <1>2 DEF RecordIsRight
<1>4. next \in Nat /\ piece = <<r.item, r.attempt, next>> /\ next <= Items[r.item][r.attempt]
  BY <1>1, <1>2, <1>3 DEF NextPiece
<1>5. CASE WaitReal(t)
  <2> DEFINE new == [r EXCEPT !.toReal = FALSE, !.real = TRUE, !.blocks = <<>>, !.total = 0]
  <2>1. th' = [th EXCEPT ![t] = new] /\ r.toReal /\ ~r.real
    BY <1>1, <1>5 DEF WaitReal, NeedsBlock, ThreadRecord
  <2>2. /\ r.total = r.pos /\ r.pos <= Len(r.blocks) /\ current = <<>> /\ r.item = itemIndex
        /\ \A k \in 1..r.pos : r.blocks[k] = <<r.item, r.attempt, k>>
    BY <1>1, <1>3, <2>1 DEF Stored, CanStep, RecordIsRight
  <2>3. Written(r.blocks, r.total) = Pieces(r.item, r.attempt, r.pos)
    <3>1. Written(r.blocks, r.pos) = Pieces(r.item, r.attempt, r.pos)
      <4>1. /\ r.blocks \in Seq(AnyPiece) /\ r.item \in Nat /\ r.attempt \in Nat /\ r.pos \in Nat
            /\ r.pos <= Len(r.blocks)
            /\ \A k \in 1..r.pos : r.blocks[k] = <<r.item, r.attempt, k>>
        BY <1>1, <2>2
      <4> HIDE DEF r
      <4> QED
        BY <4>1, WrittenArePieces
    <3> QED
      BY <2>2, <3>1
  <2>4. current' = Pieces(r.item, r.attempt, r.pos)
    <3>1. Pieces(r.item, r.attempt, r.pos) \in Seq(AnyPiece)
      BY <1>1, PiecesProperties
    <3>2. <<>> \o Pieces(r.item, r.attempt, r.pos) = Pieces(r.item, r.attempt, r.pos)
      BY <3>1, ConcatEmptySeq
    <3> QED
      BY <1>5, <2>2, <2>3, <3>2 DEF WaitReal
  <2>5. /\ new.pc = "write" /\ new.item = r.item /\ new.attempt = r.attempt /\ new.pos = r.pos
        /\ new.blocks = <<>> /\ new.total = 0 /\ new.real /\ ~new.toReal
        /\ new.compress = r.compress /\ new.completed = r.completed /\ new.free = r.free
    BY <1>1, <1>2 DEF ThreadRecord
  <2> HIDE DEF new
  <2>6. Stored(new, current')
    BY <2>4, <2>5 DEF Stored
  <2>7. RecordIsRight(new, current', itemIndex)
    BY <1>1, <1>2, <1>3, <2>2, <2>5, <2>6 DEF RecordIsRight
  <2>8. GoesOnRightly(r, new, current, current')
    BY <1>1, <2>5, <2>7 DEF GoesOnRightly
  <2> QED
    BY <2>1, <2>8
<1>6. CASE WriteReal(t)
  <2> DEFINE new == [r EXCEPT !.pos = next]
  <2>1. th' = [th EXCEPT ![t] = new] /\ r.real /\ current' = Append(current, piece)
    BY <1>1, <1>6 DEF WriteReal, ThreadRecord
  <2>2. current = Pieces(r.item, r.attempt, r.pos) /\ r.blocks = <<>> /\ r.total = 0 /\ r.item = itemIndex
    BY <1>1, <1>3, <2>1 DEF Stored, RecordIsRight
  <2>3. current' = Pieces(r.item, r.attempt, next)
    <3>1. Append(Pieces(r.item, r.attempt, r.pos), <<r.item, r.attempt, r.pos + 1>>)
            = Pieces(r.item, r.attempt, r.pos + 1)
      BY <1>1, PiecesGrow
    <3> QED
      BY <1>4, <2>1, <2>2, <3>1
  <2> HIDE DEF next, piece
  <2>4. /\ new.pc = "write" /\ new.item = r.item /\ new.attempt = r.attempt /\ new.pos = next
        /\ new.blocks = r.blocks /\ new.total = r.total /\ new.real = r.real
        /\ new.compress = r.compress /\ new.completed = r.completed /\ new.free = r.free
    BY <1>1, <1>2 DEF ThreadRecord
  <2> HIDE DEF new
  <2>5. Stored(new, current')
    BY <2>1, <2>2, <2>3, <2>4 DEF Stored
  <2>6. RecordIsRight(new, current', itemIndex)
    BY <1>1, <1>2, <1>3, <1>4, <2>2, <2>4, <2>5 DEF RecordIsRight
  <2>7. GoesOnRightly(r, new, current, current')
    BY <1>1, <2>1, <2>4, <2>6 DEF GoesOnRightly
  <2> QED
    BY <2>1, <2>7
<1> QED
  BY <1>5, <1>6

LEMMA CompressIsRight ==
  ASSUME NEW t \in Thread, th \in [Thread -> ThreadRecord], CanStep(th[t]), ~th[t].completed,
         Begin(t) \/ ~th[t].compress,
         \/ Begin(t) \/ StartAttempt(t) \/ EndAttempt(t) \/ Report(t)
         \/ WaitStopped(t) \/ CompressFails(t)
  PROVE  \E new : th' = [th EXCEPT ![t] = new] /\ GoesOnRightly(th[t], new, current, current')
<1> DEFINE r == th[t]
<1>1. /\ r \in ThreadRecord /\ r.item \in Nat /\ r.attempt \in Nat /\ r.pos \in Nat
      /\ r.total \in Nat /\ r.blocks \in Seq(AnyPiece) /\ Len(r.blocks) \in Nat
      /\ RecordIsRight(r, current, itemIndex) /\ ~r.free /\ ~r.exit
      /\ Len(Items[r.item]) \in Nat /\ Len(Items[r.item]) >= 1
      /\ \A a \in 1..Len(Items[r.item]) : Items[r.item][a] \in Nat
  BY DEF CanStep
<1>2. r.real \/ r.toReal => r.item = itemIndex
  BY <1>1 DEF RecordIsRight
<1>3. CASE Begin(t)
  <2> DEFINE new == [r EXCEPT !.compress = FALSE, !.attempt = 1, !.pc = "attempt"]
  <2>1. th' = [th EXCEPT ![t] = new] /\ r.compress /\ current' = current
    BY <1>1, <1>3 DEF Begin, ThreadRecord
  <2>2. /\ new.pc = "attempt" /\ new.item = r.item /\ new.attempt = 1 /\ ~new.compress
        /\ new.blocks = r.blocks /\ new.total = r.total /\ new.real = r.real
        /\ new.toReal = r.toReal /\ new.completed = r.completed /\ new.free = r.free
    BY <1>1 DEF ThreadRecord
  <2> HIDE DEF new
  <2>3. ~r.real
    BY <1>1, <2>1 DEF RecordIsRight
  <2>4. RecordIsRight(new, current, itemIndex)
    BY <1>1, <1>2, <2>2, <2>3 DEF RecordIsRight
  <2> QED
    BY <1>1, <2>1, <2>2, <2>3, <2>4 DEF GoesOnRightly
<1>4. CASE StartAttempt(t)
  <2> DEFINE new == [r EXCEPT !.pc = "write", !.pos = 0, !.total = IF r.real THEN r.total ELSE 0]
  <2>1. /\ th' = [th EXCEPT ![t] = new] /\ r.pc = "attempt" /\ ~r.compress
        /\ current' = IF r.real THEN <<>> ELSE current
    BY <1>1, <1>4 DEF StartAttempt, Begin, ThreadRecord
  <2>2. /\ new.pc = "write" /\ new.item = r.item /\ new.attempt = r.attempt /\ new.pos = 0
        /\ new.blocks = r.blocks /\ new.total = (IF r.real THEN r.total ELSE 0)
        /\ new.real = r.real /\ new.toReal = r.toReal /\ new.compress = r.compress
        /\ new.completed = r.completed /\ new.free = r.free
    BY <1>1 DEF ThreadRecord
  <2> HIDE DEF new
  <2>3. r.attempt \in 1..Len(Items[r.item]) /\ (r.real => r.blocks = <<>> /\ r.total = 0)
    BY <1>1, <2>1 DEF RecordIsRight
  <2>4. Stored(new, current')
    <3>1. CASE r.real
      <4>1. Pieces(r.item, r.attempt, 0) = <<>>
        BY <1>1, PiecesGrow
      <4> QED
        BY <2>1, <2>2, <2>3, <3>1, <4>1 DEF Stored
    <3>2. CASE ~r.real
      BY <1>1, <2>2, <3>2 DEF Stored
    <3> QED
      BY <3>1, <3>2
  <2>5. RecordIsRight(new, current', itemIndex)
    BY <1>1, <1>2, <2>1, <2>2, <2>3, <2>4 DEF RecordIsRight
  <2> QED
    BY <1>1, <2>1, <2>2, <2>5 DEF GoesOnRightly
<1>5. CASE EndAttempt(t)
  <2> DEFINE new == [r EXCEPT !.pc = "report"]
  <2>1. /\ th' = [th EXCEPT ![t] = new] /\ r.pc = "write" /\ ~(r.pos < Items[r.item][r.attempt])
        /\ ~r.compress /\ current' = current
    BY <1>1, <1>5 DEF EndAttempt, Writing, Begin
  <2>2. /\ new.pc = "report" /\ new.item = r.item /\ new.attempt = r.attempt /\ new.pos = r.pos
        /\ new.blocks = r.blocks /\ new.total = r.total
        /\ new.real = r.real /\ new.toReal = r.toReal /\ new.compress = r.compress
        /\ new.completed = r.completed /\ new.free = r.free
    BY <1>1 DEF ThreadRecord
  <2> HIDE DEF new
  <2>3. /\ r.attempt \in 1..Len(Items[r.item]) /\ r.pos <= Items[r.item][r.attempt]
        /\ Stored(r, current)
    BY <1>1, <2>1 DEF RecordIsRight
  <2>4. r.pos = Items[r.item][r.attempt]
    BY <1>1, <2>1, <2>3
  <2>5. Stored(new, current)
    BY <2>2, <2>3 DEF Stored
  <2>6. RecordIsRight(new, current, itemIndex)
    BY <1>1, <1>2, <2>1, <2>2, <2>3, <2>4, <2>5 DEF RecordIsRight
  <2> QED
    BY <1>1, <2>1, <2>2, <2>6 DEF GoesOnRightly
<1>6. CASE Report(t)
  <2>1. r.pc = "report" /\ ~r.compress /\ current' = current
    BY <1>6 DEF Report, Begin
  <2>2. /\ r.attempt \in 1..Len(Items[r.item]) /\ r.pos = Items[r.item][r.attempt]
        /\ Stored(r, current)
    BY <1>1, <2>1 DEF RecordIsRight
  <2>3. CASE r.attempt < Len(Items[r.item])
    <3> DEFINE next == r.attempt + 1
               new == [r EXCEPT !.pc = "attempt", !.attempt = next]
    <3>1. th' = [th EXCEPT ![t] = new]
      BY <1>6, <2>3 DEF Report
    <3>2. next \in 1..Len(Items[r.item])
      BY <1>1, <2>2, <2>3
    <3> HIDE DEF next
    <3>3. /\ new.pc = "attempt" /\ new.item = r.item /\ new.attempt = next
          /\ new.blocks = r.blocks /\ new.total = r.total
          /\ new.real = r.real /\ new.toReal = r.toReal /\ new.compress = r.compress
          /\ new.completed = r.completed /\ new.free = r.free
      BY <1>1 DEF ThreadRecord
    <3> HIDE DEF new
    <3>4. r.real => r.blocks = <<>> /\ r.total = 0
      BY <2>2 DEF Stored
    <3>5. RecordIsRight(new, current, itemIndex)
      BY <1>1, <1>2, <2>1, <3>2, <3>3, <3>4 DEF RecordIsRight
    <3> QED
      BY <1>1, <2>1, <3>1, <3>3, <3>5 DEF GoesOnRightly
  <2>4. CASE ~(r.attempt < Len(Items[r.item]))
    <3> DEFINE new == [r EXCEPT !.pc = "idle", !.result = "ok", !.completed = TRUE]
    <3>1. th' = [th EXCEPT ![t] = new]
      BY <1>6, <2>4 DEF Report, Complete
    <3>2. r.attempt = Len(Items[r.item])
      BY <1>1, <2>2, <2>4
    <3>3. /\ new.pc = "idle" /\ new.item = r.item /\ new.attempt = r.attempt /\ new.pos = r.pos
          /\ new.blocks = r.blocks /\ new.total = r.total
          /\ new.real = r.real /\ new.toReal = r.toReal /\ new.compress = r.compress
          /\ new.free = r.free
      BY <1>1 DEF ThreadRecord
    <3> HIDE DEF new
    <3>4. Stored(new, current)
      BY <2>2, <3>3 DEF Stored
    <3>5. RecordIsRight(new, current, itemIndex)
      BY <1>2, <2>1, <2>2, <3>2, <3>3, <3>4 DEF RecordIsRight
    <3> QED
      BY <1>1, <2>1, <3>1, <3>3, <3>5 DEF GoesOnRightly
  <2> QED
    BY <2>3, <2>4
<1>7. CASE WaitStopped(t) \/ CompressFails(t)
  <2>1. PICK stop \in BOOLEAN :
          th' = [th EXCEPT ![t] = [r EXCEPT !.pc = "idle", !.result = "fail", !.completed = TRUE,
                                            !.stop = stop]]
    <3>1. CASE WaitStopped(t)
      BY <1>1, <3>1 DEF WaitStopped, Complete, ThreadRecord
    <3>2. CASE CompressFails(t)
      <4>1. [r EXCEPT !.pc = "idle", !.result = "fail", !.completed = TRUE]
              = [r EXCEPT !.pc = "idle", !.result = "fail", !.completed = TRUE, !.stop = r.stop]
        BY <1>1 DEF ThreadRecord
      <4>2. r.stop \in BOOLEAN
        BY <1>1 DEF ThreadRecord
      <4> QED
        BY <3>2, <4>1, <4>2 DEF CompressFails, Complete
    <3> QED
      BY <1>7, <3>1, <3>2
  <2> DEFINE new == [r EXCEPT !.pc = "idle", !.result = "fail", !.completed = TRUE, !.stop = stop]
  <2>2. r.pc \in {"write", "report"} /\ ~r.compress /\ current' = current
    BY <1>7 DEF WaitStopped, CompressFails, NeedsBlock, Writing, Begin
  <2>3. /\ new.pc = "idle" /\ new.result = "fail" /\ new.item = r.item
        /\ new.real = r.real /\ new.toReal = r.toReal /\ new.compress = r.compress
        /\ new.free = r.free
    BY <1>1 DEF ThreadRecord
  <2> HIDE DEF new
  <2>4. RecordIsRight(new, current, itemIndex)
    BY <1>2, <2>2, <2>3 DEF RecordIsRight
  <2>5. GoesOnRightly(r, new, current, current')
    BY <1>1, <2>2, <2>3, <2>4 DEF GoesOnRightly
  <2> QED
    BY <2>1, <2>5 DEF new
<1> QED
  BY <1>3, <1>4, <1>5, <1>6, <1>7

\* The record of another thread stays right when the data behind the last item change.
LEMMA OthersStayRight ==
  ASSUME NEW r, NEW cur, NEW newCur, NEW turn, NEW newTurn, RecordIsRight(r, cur, turn),
         newCur = cur \/ ~r.real,
         newTurn = turn \/ (~r.real /\ ~r.toReal)
  PROVE  RecordIsRight(r, newCur, newTurn)
<1>1. Stored(r, cur) => Stored(r, newCur)
  BY DEF Stored
<1> QED
  BY <1>1 DEF RecordIsRight

LEMMA ThreadData ==
  ASSUME ZipInv, DataInv, NEW t \in Thread, ThreadNext(t)
  PROVE  DataInv'
<1>1. Types /\ TotalFits /\ ThreadsAgree /\ WorkIsInOrder
  BY DEF ZipInv
<1>2. /\ mpc' = mpc /\ itemIndex' = itemIndex /\ refs' = refs /\ archive' = archive /\ ret' = ret
  BY DEF ThreadNext, Proceed, mainVars, Begin, StartAttempt, EndAttempt, Report, WriteInBlock,
         WaitStopped, WaitReal, WaitBlock, WriteReal, CompressFails
<1>3. KeptIsRight' /\ ArchiveIsRight'
  BY <1>2 DEF DataInv, KeptIsRight, ArchiveIsRight, Running
<1>4. ASSUME Running
      PROVE  /\ \A u \in Thread : ~th'[u].free => RecordIsRight(th'[u], current', itemIndex)
             /\ (\A u \in Thread : th'[u].free \/ ~th'[u].real) => current' = <<>>
  <2>1. /\ \A u \in Thread : ~th[u].free => RecordIsRight(th[u], current, itemIndex)
        /\ (\A u \in Thread : th[u].free \/ ~th[u].real) => current = <<>>
    BY <1>4 DEF DataInv, ThreadsAreRight
  <2>2. th \in [Thread -> ThreadRecord] /\ th[t] \in ThreadRecord /\ ~th[t].exit
    BY <1>1, <1>4 DEF Types, WorkIsInOrder
  <2>3. Busy(t) /\ (Begin(t) \/ Compressing(t))
    BY <2>2 DEF ThreadNext, Proceed, Begin, StartAttempt, EndAttempt, Report, WriteInBlock,
       WaitStopped, WaitReal, WaitBlock, WriteReal, CompressFails, NeedsBlock, Writing,
       Busy, Compressing, Given
  <2>4. ~th[t].free /\ ~th[t].completed /\ (Begin(t) \/ ~th[t].compress)
    BY <1>1, <2>2, <2>3 DEF ThreadsAgree, Given
  <2>5. \A u \in Thread : u # t /\ ~th[u].free => th[u].item # th[t].item
    BY <1>4, <2>4, WorkersHaveFiles
  <2>6. th[t].toReal /\ ~th[t].real => current = <<>>
    <3> HAVE th[t].toReal /\ ~th[t].real
    <3>1. th[t].item = itemIndex
      BY <2>1, <2>4 DEF RecordIsRight
    <3>2. \A u \in Thread : th[u].free \/ ~th[u].real
      BY <2>1, <2>5, <3>1 DEF RecordIsRight
    <3> QED
      BY <2>1, <3>2
  <2>7. CanStep(th[t])
    <3>1. /\ Len(Items[th[t].item]) \in Nat /\ Len(Items[th[t].item]) >= 1
          /\ \A a \in 1..Len(Items[th[t].item]) : Items[th[t].item][a] \in Nat
      BY <1>4, <2>4, WorkersHaveFiles
    <3> QED
      BY <2>1, <2>2, <2>4, <2>6, <3>1, LenProperties DEF CanStep, ThreadRecord
  <2>8. PICK new : th' = [th EXCEPT ![t] = new] /\ GoesOnRightly(th[t], new, current, current')
    BY <2>2, <2>4, <2>7, BlockIsRight, RealIsRight, CompressIsRight DEF ThreadNext, Proceed
  <2>9. th'[t] = new /\ \A u \in Thread : u # t => th'[u] = th[u]
    BY <2>2, <2>8
  <2>10. /\ ~new.free /\ new.item = th[t].item /\ RecordIsRight(new, current', itemIndex)
         /\ new.real \/ current' = current
         /\ new.real \/ ~th[t].real
    BY <2>8 DEF GoesOnRightly
  <2>11. ASSUME NEW u \in Thread, u # t, ~th[u].free
         PROVE  RecordIsRight(th[u], current', itemIndex)
    <3>1. current' = current \/ ~th[u].real
      <4>1. CASE new.real
        <5>1. new.item = itemIndex /\ new.item = th[t].item
          BY <2>10, <4>1 DEF RecordIsRight
        <5> QED
          BY <2>1, <2>5, <2>11, <5>1 DEF RecordIsRight
      <4> QED
        BY <2>10, <4>1
    <3> QED
      BY <2>1, <2>11, <3>1, OthersStayRight
  <2>12. (\A u \in Thread : th'[u].free \/ ~th'[u].real) => current' = <<>>
    <3> HAVE \A u \in Thread : th'[u].free \/ ~th'[u].real
    <3>1. ~new.real /\ current' = current /\ ~th[t].real
      BY <2>9, <2>10
    <3> QED
      BY <2>1, <2>9, <3>1
  <2> QED
    BY <2>9, <2>10, <2>11, <2>12
<1>5. ThreadsAreRight'
  BY <1>2, <1>4 DEF ThreadsAreRight, Running
<1> QED
  BY <1>3, <1>5 DEF DataInv

\* Update2 returns: it failed, or it has come to the end of the items.
LEMMA ReturnData ==
  ASSUME DataInv, ~Running', archive' = archive,
         ret' = "ok" => /\ ret = "ok" /\ itemIndex' = Len(Items) + 1
                        /\ itemIndex' = itemIndex /\ refs' = refs
  PROVE  DataInv'
<1>1. ThreadsAreRight' /\ KeptIsRight'
  BY DEF ThreadsAreRight, KeptIsRight
<1>2. ArchiveIsRight'
  BY DEF DataInv, ArchiveIsRight
<1> QED
  BY <1>1, <1>2 DEF DataInv

\* Nothing is put in the archive, and no item before itemIndex changes.
LEMMA ArchiveStays ==
  ASSUME DataInv, Running, Running', archive' = archive, ret' = ret,
         {i \in Index : i < itemIndex' /\ refs'[i].state # "skip"}
           = {i \in Index : i < itemIndex /\ refs[i].state # "skip"}
  PROVE  ArchiveIsRight'
BY DEF DataInv, ArchiveIsRight

\* The item of itemIndex is put in the archive.
LEMMA ArchiveGrows ==
  ASSUME ZipInv, DataInv, Storing, NEW size \in Nat, NEW data \in Seq(AnyPiece),
         archive' = Append(archive, [item |-> itemIndex, size |-> size, data |-> data]),
         EntryIsRight([item |-> itemIndex, size |-> size, data |-> data]),
         itemIndex' = itemIndex + 1, Running', ret' = ret,
         refs'[itemIndex].state # "skip", \A i \in Index : i # itemIndex => refs'[i] = refs[i]
  PROVE  ArchiveIsRight'
<1> DEFINE e == [item |-> itemIndex, size |-> size, data |-> data]
           n == Len(archive)
           EntrySet == [item : Index, size : Nat, data : Seq(AnyPiece)]
<1>1. itemIndex \in Index /\ Running /\ itemIndex \in Nat /\ Index \subseteq Nat
  BY StoringIsBehind, Numbers DEF ZipInv
<1>2. /\ archive \in Seq(EntrySet) /\ ret = "ok"
      /\ {archive[k].item : k \in 1..n} = {i \in Index : i < itemIndex /\ refs[i].state # "skip"}
      /\ \A k \in 1..(n - 1) : archive[k].item < archive[k + 1].item
      /\ \A k \in 1..n : EntryIsRight(archive[k])
  BY <1>1 DEF DataInv, ArchiveIsRight
<1>3. e \in EntrySet /\ e.item = itemIndex /\ EntryIsRight(e)
  BY <1>1
<1> HIDE DEF e, EntrySet
<1>4. n \in Nat
  BY <1>2, LenProperties
<1>5. /\ archive' \in Seq(EntrySet) /\ Len(archive') = n + 1
      /\ \A k \in 1..n : archive'[k] = archive[k]
      /\ archive'[n + 1] = e
  <2>1. archive' = Append(archive, e)
    BY DEF e
  <2> QED
    BY <1>2, <1>3, <2>1, AppendProperties
<1> HIDE DEF n
<1>6. ASSUME NEW k \in 1..(n + 1)
      PROVE  /\ EntryIsRight(archive'[k])
             /\ k <= n => archive'[k].item = archive[k].item /\ archive[k].item < itemIndex
  <2>1. CASE k = n + 1
    BY <1>3, <1>4, <1>5, <2>1
  <2>2. CASE k \in 1..n
    BY <1>2, <1>5, <2>2
  <2>3. k = n + 1 \/ k \in 1..n
    BY <1>4
  <2> QED
    BY <2>1, <2>2, <2>3
<1>7. \A k \in 1..(Len(archive') - 1) : archive'[k].item < archive'[k + 1].item
  <2> SUFFICES ASSUME NEW k \in 1..n
               PROVE  archive'[k].item < archive'[k + 1].item
    BY <1>4, <1>5
  <2>1. archive'[k] = archive[k] /\ archive[k].item < itemIndex
    BY <1>4, <1>5, <1>6
  <2>2. CASE k = n
    BY <1>3, <1>5, <2>1, <2>2
  <2>3. CASE k # n
    <3>1. k \in 1..(n - 1) /\ k + 1 \in 1..n
      BY <1>4, <2>3
    <3> QED
      BY <1>2, <1>5, <2>1, <3>1
  <2> QED
    BY <2>2, <2>3
<1>8. {archive'[k].item : k \in 1..Len(archive')}
        = {i \in Index : i < itemIndex' /\ refs'[i].state # "skip"}
  <2>1. {archive'[k].item : k \in 1..(n + 1)} = {archive[k].item : k \in 1..n} \cup {itemIndex}
    <3>1. ASSUME NEW k \in 1..(n + 1)
          PROVE  archive'[k].item \in {archive[m].item : m \in 1..n} \cup {itemIndex}
      <4>1. k = n + 1 \/ k \in 1..n
        BY <1>4
      <4> QED
        BY <1>3, <1>5, <4>1
    <3>2. ASSUME NEW i \in {archive[m].item : m \in 1..n} \cup {itemIndex}
          PROVE  \E k \in 1..(n + 1) : archive'[k].item = i
      <4>1. CASE i = itemIndex
        <5>1. n + 1 \in 1..(n + 1)
          BY <1>4
        <5> QED
          BY <1>3, <1>5, <4>1, <5>1
      <4>2. CASE i # itemIndex
        <5>1. PICK m \in 1..n : archive[m].item = i
          BY <3>2, <4>2
        <5>2. m \in 1..(n + 1)
          BY <1>4
        <5> QED
          BY <1>5, <5>1, <5>2
      <4> QED
        BY <4>1, <4>2
    <3> DEFINE new == {archive'[k].item : k \in 1..(n + 1)}
               old == {archive[k].item : k \in 1..n} \cup {itemIndex}
    <3>3. \A i \in new : i \in old
      BY <3>1
    <3>4. \A i \in old : i \in new
      BY <3>2
    <3> HIDE DEF new, old
    <3>5. new = old
      BY <3>3, <3>4
    <3> QED
      BY <3>5 DEF new, old
  <2>2. ASSUME NEW i \in Index
        PROVE  i < itemIndex' /\ refs'[i].state # "skip"
                 <=> i = itemIndex \/ (i < itemIndex /\ refs[i].state # "skip")
    <3>1. i \in Nat /\ (i < itemIndex + 1 <=> i = itemIndex \/ i < itemIndex)
      BY <1>1
    <3>2. i # itemIndex => refs'[i].state = refs[i].state
      OBVIOUS
    <3>3. itemIndex' = itemIndex + 1 /\ refs'[itemIndex].state # "skip" /\ ~(itemIndex < itemIndex)
      BY <1>1
    <3> QED
      BY <3>1, <3>2, <3>3
  <2>3. {i \in Index : i < itemIndex' /\ refs'[i].state # "skip"}
          = {i \in Index : i < itemIndex /\ refs[i].state # "skip"} \cup {itemIndex}
    BY <1>1, <2>2
  <2> QED
    BY <1>2, <1>5, <2>1, <2>3
<1>9. \A k \in 1..Len(archive') : EntryIsRight(archive'[k])
  BY <1>5, <1>6
<1> QED
  BY <1>2, <1>5, <1>7, <1>8, <1>9 DEF ArchiveIsRight, EntrySet

\* The next item has its turn, and no thread has the file before it.
LEMMA NextTurn ==
  ASSUME DataInv, Running, current' = <<>>,
         \A u \in Thread : ~th'[u].free => th'[u] = th[u] /\ th[u].item # itemIndex
  PROVE  ThreadsAreRight'
<1>1. ASSUME NEW u \in Thread, ~th'[u].free
      PROVE  RecordIsRight(th'[u], current', itemIndex') /\ ~th'[u].real
  <2>1. th'[u] = th[u] /\ RecordIsRight(th[u], current, itemIndex)
    BY <1>1 DEF DataInv, ThreadsAreRight
  <2>2. ~th[u].real /\ ~th[u].toReal
    BY <1>1, <2>1 DEF RecordIsRight
  <2> QED
    BY <2>1, <2>2, OthersStayRight
<1> QED
  BY <1>1 DEF ThreadsAreRight

\* Update2 goes on, and no file with a thread or before itemIndex changes.
LEMMA QuietData ==
  ASSUME ZipInv, DataInv,
         PassOver \/ EnterMixer \/ NotOpened \/ Skip \/ Finish \/ StopThread \/ JoinThread
  PROVE  DataInv'
<1>1. Types /\ WorkIsInOrder
  BY DEF ZipInv
<1>2. CASE Finish
  <2>1. Running /\ ret = "ok"
    BY <1>2 DEF Finish, Running, DataInv, ArchiveIsRight
  <2>2. itemIndex = Len(Items) + 1
    BY <1>1, <1>2, Numbers DEF Types, Finish
  <2> QED
    BY <1>2, <2>1, <2>2, ReturnData DEF Finish, Return, Running
<1>3. CASE StopThread \/ JoinThread
  <2>1. ~Running /\ ~Running' /\ archive' = archive /\ ret' = ret /\ itemIndex' = itemIndex /\ refs' = refs
    BY <1>3 DEF StopThread, JoinThread, Running
  <2>2. ret = "ok" => itemIndex = Len(Items) + 1
    BY <2>1 DEF DataInv, ArchiveIsRight
  <2> QED
    BY <2>1, <2>2, ReturnData
<1>4. CASE NotOpened /\ mpc' = "stop"
  BY <1>4, ReturnData DEF NotOpened, Return, Running
<1>5. CASE PassOver \/ EnterMixer \/ Skip \/ (NotOpened /\ mpc' # "stop")
  <2>1. /\ Running /\ Running' /\ th' = th /\ current' = current /\ archive' = archive
        /\ itemIndex' = itemIndex /\ ret' = ret
    BY <1>5 DEF PassOver, EnterMixer, Skip, NotOpened, Return, Assigning, InLoop, Running
  <2>2. \/ refs' = refs
        \/ Skip /\ refs' = [refs EXCEPT ![mtItemIndex].state = "skip"]
    BY <1>5 DEF PassOver, EnterMixer, Skip, NotOpened
  <2>3. ThreadsAreRight'
    BY <2>1 DEF DataInv, ThreadsAreRight
  <2>4. refs \in [Index -> KeptRecord] /\ itemIndex <= mtItemIndex /\ Index \subseteq Nat
        /\ itemIndex \in Nat /\ mtItemIndex \in Nat
    BY <1>1, <2>1, Numbers DEF Types, WorkIsInOrder
  <2>5. \A i \in Index : \/ refs'[i] = refs[i]
                         \/ i >= itemIndex /\ IsFile(i) /\ refs'[i].state = "skip"
    <3>1. CASE refs' = refs
      BY <3>1
    <3>2. CASE Skip /\ refs' = [refs EXCEPT ![mtItemIndex].state = "skip"]
      <4>1. mtItemIndex \in Index /\ IsFile(mtItemIndex)
        BY <1>1, <2>1, <3>2 DEF Skip, WorkIsInOrder
      <4>2. \A i \in Index : i # mtItemIndex => refs'[i] = refs[i]
        BY <2>4, <3>2
      <4>3. refs'[mtItemIndex].state = "skip"
        BY <2>4, <3>2, <4>1 DEF KeptRecord
      <4> QED
        BY <2>4, <4>1, <4>2, <4>3
    <3> QED
      BY <2>2, <3>1, <3>2
  <2>6. KeptIsRight'
    BY <2>1, <2>5 DEF DataInv, KeptIsRight
  <2>7. ArchiveIsRight'
    <3>1. {i \in Index : i < itemIndex' /\ refs'[i].state # "skip"}
            = {i \in Index : i < itemIndex /\ refs[i].state # "skip"}
      <4>1. \A i \in Index : i < itemIndex => refs'[i] = refs[i]
        BY <2>4, <2>5
      <4> QED
        BY <2>1, <4>1
    <3> QED
      BY <2>1, <3>1, ArchiveStays
  <2> QED
    BY <2>3, <2>6, <2>7 DEF DataInv
<1> QED
  BY <1>2, <1>3, <1>4, <1>5

LEMMA CreateThreadData ==
  ASSUME ZipInv, DataInv, CreateThread
  PROVE  DataInv'
<1>1. Types /\ WorkIsInOrder /\ Running
  BY DEF ZipInv, CreateThread, Running
<1>2. /\ archive' = archive /\ itemIndex' = itemIndex /\ refs' = refs /\ current' = current
      /\ (mpc' = "stop" /\ ret' = "fail") \/ (Running' /\ ret' = ret)
  BY DEF CreateThread, Return, Running
<1>3. CASE mpc' = "stop" /\ ret' = "fail"
  BY <1>2, <1>3, ReturnData DEF Running
<1>4. CASE Running' /\ ret' = ret
  <2>1. KeptIsRight' /\ ArchiveIsRight'
    BY <1>1, <1>2, <1>4, ArchiveStays DEF DataInv, KeptIsRight
  <2>2. \A u \in Thread : th[u].free
    <3>1. InWork = {}
      BY <1>1, EmptySeq DEF WorkIsInOrder, CreateThread, InWork
    <3> QED
      BY <1>1, <3>1 DEF WorkIsInOrder
  <2>3. \A u \in Thread : th'[u].free
    <3>1. th \in [Thread -> ThreadRecord]
      BY <1>1 DEF Types
    <3>2. PICK t : th' = [th EXCEPT ![t].pc = "idle"] \/ th' = th
      BY DEF CreateThread
    <3>3. ASSUME NEW u \in Thread PROVE th'[u] = th[u] \/ th'[u] = [th[u] EXCEPT !.pc = "idle"]
      BY <3>1, <3>2
    <3>4. ASSUME NEW u \in Thread PROVE [th[u] EXCEPT !.pc = "idle"].free = th[u].free
      BY <3>1 DEF ThreadRecord
    <3> QED
      BY <2>2, <3>3, <3>4
  <2>4. current = <<>>
    BY <1>1, <2>2 DEF DataInv, ThreadsAreRight
  <2> QED
    BY <1>2, <2>1, <2>3, <2>4 DEF DataInv, ThreadsAreRight
<1> QED
  BY <1>2, <1>3, <1>4

LEMMA SetRealData ==
  ASSUME ZipInv, DataInv, SetRealStreamMode
  PROVE  DataInv'
<1>1. Types /\ Waiting /\ Running
  BY StoringIsBehind DEF ZipInv, SetRealStreamMode, Waiting
<1>2. /\ mpc' = mpc /\ itemIndex' = itemIndex /\ refs' = refs /\ archive' = archive /\ ret' = ret
      /\ current' = current
      /\ th' = [th EXCEPT ![FrontThread].sent = TRUE, ![FrontThread].toReal = TRUE]
  BY DEF SetRealStreamMode, mainVars
<1>3. KeptIsRight' /\ ArchiveIsRight'
  BY <1>2 DEF DataInv, KeptIsRight, ArchiveIsRight, Running
<1> DEFINE t == FrontThread
           new == [th[t] EXCEPT !.sent = TRUE, !.toReal = TRUE]
<1>4. t \in Thread /\ th \in [Thread -> ThreadRecord] /\ th[t].item = itemIndex
  BY <1>1, FrontHasTheTurn DEF Types, FrontThread, FileOf
<1>5. th[t] \in ThreadRecord
  BY <1>4
<1> HIDE DEF t
<1>6. th' = [th EXCEPT ![t] = new]
  BY <1>2, <1>4, <1>5 DEF t, ThreadRecord
<1>7. /\ new.pc = th[t].pc /\ new.item = th[t].item /\ new.attempt = th[t].attempt
      /\ new.pos = th[t].pos /\ new.blocks = th[t].blocks /\ new.total = th[t].total
      /\ new.real = th[t].real /\ new.compress = th[t].compress
      /\ new.completed = th[t].completed /\ new.free = th[t].free /\ new.result = th[t].result
  BY <1>5 DEF ThreadRecord
<1> HIDE DEF new
<1>8. th'[t] = new /\ \A u \in Thread : u # t => th'[u] = th[u]
  BY <1>4, <1>6
<1>9. ~th[t].free => RecordIsRight(new, current, itemIndex)
  <2> HAVE ~th[t].free
  <2>1. RecordIsRight(th[t], current, itemIndex)
    BY <1>1, <1>4 DEF DataInv, ThreadsAreRight
  <2>2. Stored(th[t], current) => Stored(new, current)
    BY <1>7 DEF Stored
  <2> QED
    BY <1>4, <1>7, <2>1, <2>2 DEF RecordIsRight
<1>10. ThreadsAreRight'
  <2>1. /\ \A u \in Thread : ~th[u].free => RecordIsRight(th[u], current, itemIndex)
        /\ (\A u \in Thread : th[u].free \/ ~th[u].real) => current = <<>>
    BY <1>1 DEF DataInv, ThreadsAreRight
  <2>2. \A u \in Thread : ~th'[u].free => RecordIsRight(th'[u], current, itemIndex)
    BY <1>7, <1>8, <1>9, <2>1
  <2>3. (\A u \in Thread : th'[u].free \/ ~th'[u].real) => current = <<>>
    BY <1>7, <1>8, <2>1
  <2> QED
    BY <1>2, <2>2, <2>3 DEF ThreadsAreRight
<1> QED
  BY <1>3, <1>10 DEF DataInv

LEMMA OpenedData ==
  ASSUME ZipInv, DataInv, Opened
  PROVE  DataInv'
<1>1. Types /\ TotalFits /\ ThreadsAgree /\ WorkIsInOrder
  BY DEF ZipInv
<1> DEFINE idle == {u \in Thread : th[u].free}
           t == Min(idle)
           new == [th[t] EXCEPT !.free = FALSE, !.item = mtItemIndex,
              !.compress = TRUE, !.toReal = FALSE, !.sent = FALSE, !.real = FALSE,
              !.blocks = <<>>, !.total = 0, !.pos = 0]
<1>2. /\ mpc = "open" /\ itemIndex' = itemIndex /\ refs' = refs /\ archive' = archive
      /\ ret' = ret /\ current' = current /\ Running /\ Running'
      /\ th' = [th EXCEPT ![t] = new]
  BY DEF Opened, Running
<1>3. KeptIsRight' /\ ArchiveIsRight'
  BY <1>2, ArchiveStays DEF DataInv, KeptIsRight
<1>4. t \in idle
  <2>1. Len(threadIndices) < NumThreads
    BY <1>1, <1>2 DEF WorkIsInOrder
  <2>2. idle \subseteq Nat /\ idle # {}
    BY <1>1, <1>2, <2>1, OneIsFree, Numbers
  <2> HIDE DEF idle
  <2> QED
    BY <2>2, MinIsIn
<1>5. t \in Thread /\ th[t].free
  BY <1>4
<1> HIDE DEF t, idle
<1>6. /\ th[t] \in ThreadRecord /\ ~th[t].completed
      /\ th[t].pc \notin {"attempt", "write", "report"} /\ th \in [Thread -> ThreadRecord]
  BY <1>1, <1>5 DEF Types, ThreadsAgree, Busy, Compressing
<1>7. /\ new.pc = th[t].pc /\ ~new.free /\ new.blocks = <<>> /\ new.total = 0
      /\ ~new.real /\ ~new.toReal /\ new.completed = th[t].completed
  BY <1>6 DEF ThreadRecord
<1> HIDE DEF new
<1>8. th'[t] = new /\ \A u \in Thread : u # t => th'[u] = th[u]
  BY <1>2, <1>5, <1>6
<1>9. RecordIsRight(new, current, itemIndex)
  BY <1>6, <1>7 DEF RecordIsRight
<1>10. ThreadsAreRight'
  <2>1. /\ \A u \in Thread : ~th[u].free => RecordIsRight(th[u], current, itemIndex)
        /\ (\A u \in Thread : th[u].free \/ ~th[u].real) => current = <<>>
    BY <1>2 DEF DataInv, ThreadsAreRight
  <2>2. \A u \in Thread : ~th'[u].free => RecordIsRight(th'[u], current, itemIndex)
    BY <1>8, <1>9, <2>1
  <2>3. (\A u \in Thread : th'[u].free \/ ~th'[u].real) => current = <<>>
    BY <1>5, <1>8, <2>1
  <2> QED
    BY <1>2, <2>2, <2>3 DEF ThreadsAreRight
<1> QED
  BY <1>3, <1>10 DEF DataInv

\* Storing goes on with what is kept of the item as it is.
LEMMA StoringData ==
  ASSUME ZipInv, DataInv, "detached" \notin MayFail, PassSkipped \/ StoreOther \/ StoreDetached
  PROVE  DataInv'
<1>1. Types /\ WorkIsInOrder
  BY DEF ZipInv
<1>2. Storing /\ Running /\ itemIndex \in Index /\ itemIndex \in Nat /\ Index \subseteq Nat /\ th' = th
      /\ refs \in [Index -> KeptRecord] /\ mpc = "loop"
  BY <1>1, StoringIsBehind, Numbers DEF PassSkipped, StoreOther, StoreDetached, Types
<1>3. refs[itemIndex].state # "none" => IsFile(itemIndex)
  BY <1>2 DEF DataInv, KeptIsRight
<1>4. CASE StoreOther /\ mpc' = "stop" /\ ret' = "fail" /\ archive' = archive
  BY <1>4, ReturnData DEF Running
<1>5. CASE /\ mpc' = mpc /\ ret' = ret /\ itemIndex' = itemIndex + 1
           /\ PassSkipped \/ StoreOther \/ StoreDetached
  <2>1. Running'
    BY <1>2, <1>5 DEF Running
  <2>2. ~IsFile(itemIndex) \/ refs[itemIndex].state # "none"
    BY <1>5 DEF PassSkipped, StoreOther, StoreDetached
  <2>3. \A u \in Thread : ~th[u].free => th[u].item # itemIndex
    BY <1>2, <2>2, WorkersHaveFiles
  <2>4. current' = <<>>
    <3>1. CASE PassSkipped
      <4>1. \A u \in Thread : th[u].free \/ ~th[u].real
        BY <1>2, <2>3 DEF DataInv, ThreadsAreRight, RecordIsRight
      <4> QED
        BY <1>2, <3>1, <4>1 DEF DataInv, ThreadsAreRight, PassSkipped
    <3>2. CASE StoreOther \/ StoreDetached
      BY <1>2, <1>5, <3>2 DEF StoreOther, StoreDetached, WriteLocalHeader, Return
    <3> QED
      BY <1>5, <3>1, <3>2
  <2>5. ThreadsAreRight'
    BY <1>2, <2>3, <2>4, NextTurn
  <2>6. \/ refs' = refs
        \/ StoreDetached /\ refs' = [refs EXCEPT ![itemIndex] = nothing]
    BY <1>5 DEF PassSkipped, StoreOther, StoreDetached
  <2>7. \A i \in Index : refs'[i] = refs[i] \/ (i = itemIndex /\ refs'[i] = nothing)
    BY <1>2, <2>6
  <2>8. KeptIsRight'
    <3>1. nothing.state = "none"
      BY DEF nothing
    <3> QED
      BY <1>2, <2>7, <3>1 DEF DataInv, KeptIsRight
  <2>9. CASE PassSkipped
    <3>1. refs' = refs /\ archive' = archive /\ refs[itemIndex].state = "skip"
      BY <2>9 DEF PassSkipped
    <3>2. {i \in Index : i < itemIndex' /\ refs'[i].state # "skip"}
            = {i \in Index : i < itemIndex /\ refs[i].state # "skip"}
      <4>1. \A i \in Index : i < itemIndex + 1 <=> i < itemIndex \/ i = itemIndex
        BY <1>2
      <4> QED
        BY <1>5, <3>1, <4>1
    <3>3. ArchiveIsRight'
      BY <1>2, <1>5, <2>1, <3>1, <3>2, ArchiveStays
    <3> QED
      BY <2>5, <2>8, <3>3 DEF DataInv
  <2>10. CASE StoreOther
    <3>1. /\ archive' = Append(archive, [item |-> itemIndex, size |-> 0, data |-> <<>>])
          /\ refs' = refs /\ ~IsFile(itemIndex)
      BY <1>2, <1>5, <2>10 DEF StoreOther, WriteLocalHeader, Return
    <3>2. <<>> \in Seq(AnyPiece) /\ Len(<<>>) = 0 /\ 0 \in Nat
      BY EmptySeq
    <3>3. EntryIsRight([item |-> itemIndex, size |-> 0, data |-> <<>>])
      BY <3>1, <3>2 DEF EntryIsRight
    <3>4. refs'[itemIndex].state # "skip" /\ \A i \in Index : i # itemIndex => refs'[i] = refs[i]
      BY <1>3, <3>1
    <3>5. ArchiveIsRight'
      BY <1>2, <1>5, <2>1, <3>1, <3>2, <3>3, <3>4, ArchiveGrows
    <3> QED
      BY <2>5, <2>8, <3>5 DEF DataInv
  <2>11. CASE StoreDetached
    <3> DEFINE size == refs[itemIndex].size
               data == refs[itemIndex].data
    <3>1. /\ archive' = Append(archive, [item |-> itemIndex, size |-> size, data |-> data])
          /\ refs' = [refs EXCEPT ![itemIndex] = nothing] /\ refs[itemIndex].state = "defined"
      BY <2>11 DEF StoreDetached, WriteLocalHeader
    <3>2. size \in Nat /\ data \in Seq(AnyPiece)
      BY <1>2 DEF KeptRecord
    <3>3. data = Data(itemIndex, Len(Items[itemIndex])) /\ size = Len(data) /\ IsFile(itemIndex)
      BY <1>2, <3>1 DEF DataInv, KeptIsRight
    <3>4. EntryIsRight([item |-> itemIndex, size |-> size, data |-> data])
      BY <3>3 DEF EntryIsRight
    <3>5. refs'[itemIndex].state # "skip" /\ \A i \in Index : i # itemIndex => refs'[i] = refs[i]
      BY <1>2, <3>1 DEF nothing
    <3> HIDE DEF size, data
    <3>6. ArchiveIsRight'
      BY <1>2, <1>5, <2>1, <3>1, <3>2, <3>4, <3>5, ArchiveGrows
    <3> QED
      BY <2>5, <2>8, <3>6 DEF DataInv
  <2> QED
    BY <1>5, <2>9, <2>10, <2>11
<1>6. \/ StoreOther /\ mpc' = "stop" /\ ret' = "fail" /\ archive' = archive
      \/ /\ mpc' = mpc /\ ret' = ret /\ itemIndex' = itemIndex + 1
         /\ PassSkipped \/ StoreOther \/ StoreDetached
  BY DEF PassSkipped, StoreOther, StoreDetached, WriteLocalHeader, Return
<1> QED
  BY <1>4, <1>5, <1>6

\* The data of a file that is done are those of its last attempt.
LEMMA DoneIsRight ==
  ASSUME ZipInv, DataInv, Running, NEW t \in Thread, ~th[t].free, th[t].completed, th[t].result = "ok"
  PROVE  LET data == Written(th[t].blocks, th[t].total)
             whole == Data(th[t].item, Len(Items[th[t].item]))
         IN  /\ th[t].item = itemIndex => current \o data = whole
             /\ th[t].item # itemIndex => data = whole /\ ~th[t].real
             /\ whole \in Seq(AnyPiece) /\ th[t].pos = Len(whole)
<1> DEFINE r == th[t]
           data == Written(r.blocks, r.total)
           whole == Data(r.item, Len(Items[r.item]))
<1>1. /\ r \in ThreadRecord /\ r.item \in Nat /\ r.attempt \in Nat /\ r.pos \in Nat
      /\ r.blocks \in Seq(AnyPiece)
  BY DEF ZipInv, Types, ThreadRecord
<1>2. RecordIsRight(r, current, itemIndex)
  BY DEF DataInv, ThreadsAreRight
<1>3. /\ r.attempt = Len(Items[r.item]) /\ r.pos = Items[r.item][r.attempt] /\ Stored(r, current)
      /\ r.real => r.item = itemIndex
  BY <1>2 DEF RecordIsRight
<1>4. whole = Pieces(r.item, r.attempt, r.pos)
  BY <1>3 DEF Data, Pieces
<1>5. whole \in Seq(AnyPiece) /\ Len(whole) = r.pos
  <2>1. /\ Pieces(r.item, r.attempt, r.pos) \in Seq(AnyPiece)
        /\ Len(Pieces(r.item, r.attempt, r.pos)) = r.pos
    BY <1>1, PiecesProperties
  <2> QED
    BY <1>4, <2>1
<1>6. CASE r.real
  <2>1. r.blocks = <<>> /\ r.total = 0 /\ current = whole
    BY <1>3, <1>4, <1>6 DEF Stored
  <2>2. SubSeq(<<>>, 1, 0) = <<>>
    BY SubSeqEmpty
  <2>3. data = <<>>
    BY <2>1, <2>2 DEF Written
  <2>4. whole \o <<>> = whole
    BY <1>5, ConcatEmptySeq
  <2> QED
    BY <1>3, <1>5, <1>6, <2>1, <2>3, <2>4
<1>7. CASE ~r.real
  <2>1. /\ r.total = r.pos /\ r.pos <= Len(r.blocks)
        /\ \A k \in 1..r.pos : r.blocks[k] = <<r.item, r.attempt, k>>
    BY <1>3, <1>7 DEF Stored
  <2>2. data = whole
    <3>1. Written(r.blocks, r.pos) = Pieces(r.item, r.attempt, r.pos)
      BY <1>1, <2>1, WrittenArePieces
    <3> QED
      BY <1>4, <2>1, <3>1
  <2>3. r.item = itemIndex => current = <<>>
    <3> HAVE r.item = itemIndex
    <3>1. \A u \in Thread : u # t /\ ~th[u].free => th[u].item # itemIndex
      BY WorkersHaveFiles
    <3>2. \A u \in Thread : th[u].free \/ ~th[u].real
      BY <1>7, <3>1 DEF DataInv, ThreadsAreRight, RecordIsRight
    <3> QED
      BY <3>2 DEF DataInv, ThreadsAreRight
  <2>4. <<>> \o whole = whole
    BY <1>5, ConcatEmptySeq
  <2> QED
    BY <1>5, <1>7, <2>2, <2>3, <2>4
<1> QED
  BY <1>6, <1>7

LEMMA WaitCompletedData ==
  ASSUME ZipInv, DataInv, WaitCompleted
  PROVE  DataInv'
<1>1. Types /\ ThreadsAgree /\ WorkIsInOrder
  BY DEF ZipInv
<1>2. Storing /\ Waiting /\ Ready # {} /\ mtItemIndex' = mtItemIndex
  BY DEF WaitCompleted, Waiting
<1>3. /\ Running /\ itemIndex \in Index /\ itemIndex \in Nat /\ Index \subseteq Nat
      /\ refs \in [Index -> KeptRecord] /\ th \in [Thread -> ThreadRecord]
  BY <1>1, <1>2, StoringIsBehind, Numbers DEF Types
<1>4. Ready \subseteq InWork /\ InWork \subseteq Nat
  BY SMTT(30), <1>1, Numbers DEF Ready, InWork, Types
<1>5. PICK j : j = Min(Ready)
  OBVIOUS
<1>6. j \in Ready
  BY <1>2, <1>4, <1>5, MinIsIn
<1>7. PICK t : t = threadIndices[j]
  OBVIOUS
<1>8. j \in InWork /\ j \in Nat /\ j >= 1 /\ t \in Thread /\ th[t].completed /\ ~th[t].free
  BY <1>1, <1>3, <1>4, <1>6, <1>7, Numbers DEF Ready, InWork, WorkIsInOrder
<1>9. th[t].item = FileOf(j) /\ 1 \in InWork /\ FileOf(1) = itemIndex
  BY <1>2, <1>7, FrontHasTheTurn DEF FileOf
<1>10. th[t].item = itemIndex <=> j = 1
  <2>1. j > 1 => FileOf(1) < FileOf(j)
    BY <1>1, <1>3, <1>8, <1>9 DEF WorkIsInOrder
  <2> QED
    BY <1>3, <1>8, <1>9, <2>1
<1> DEFINE data == Written(th[t].blocks, th[t].total)
           whole == Data(th[t].item, Len(Items[th[t].item]))
           kept == [state |-> "defined", size |-> th[t].pos, data |-> data]
<1>11. \/ mpc' = "stop" /\ ret' = "fail" /\ archive' = archive
       \/ /\ th[t].result = "ok" /\ j = 1 /\ mpc' = mpc /\ ret' = ret /\ itemIndex' = itemIndex + 1
          /\ archive' = Append(archive, [item |-> itemIndex, size |-> th[t].pos,
                                         data |-> current \o data])
          /\ current' = <<>> /\ refs' = refs
       \/ /\ th[t].result = "ok" /\ j > 1 /\ mpc' = mpc /\ ret' = ret /\ itemIndex' = itemIndex
          /\ archive' = archive /\ current' = current /\ refs' = [refs EXCEPT ![th[t].item] = kept]
  BY <1>5, <1>7 DEF WaitCompleted, WriteLocalHeader, Return
<1>12. th'[t].free /\ \A u \in Thread : u # t => th'[u] = th[u]
  <2> DEFINE done == [th[t] EXCEPT !.completed = FALSE, !.free = TRUE]
             emptied == [done EXCEPT !.blocks = <<>>, !.total = 0]
  <2>1. th' = [th EXCEPT ![t] = done] \/ th' = [th EXCEPT ![t] = emptied]
    BY <1>5, <1>7 DEF WaitCompleted
  <2>2. done.free /\ emptied.free
    BY <1>3, <1>8 DEF ThreadRecord
  <2> HIDE DEF done, emptied
  <2> QED
    BY <1>3, <1>8, <2>1, <2>2
<1>13. \A u \in Thread : u # t /\ ~th[u].free => th[u].item # th[t].item
  BY <1>3, <1>8, WorkersHaveFiles
<1>14. th[t].item \in Index /\ IsFile(th[t].item) /\ refs[th[t].item].state = "none"
       /\ th[t].item >= itemIndex /\ th[t].pos \in Nat
  BY <1>3, <1>8, WorkersHaveFiles DEF ThreadRecord
<1>15. th[t].result = "ok" =>
         /\ th[t].item = itemIndex => current \o data = whole
         /\ th[t].item # itemIndex => data = whole /\ ~th[t].real
         /\ whole \in Seq(AnyPiece) /\ th[t].pos = Len(whole)
  BY <1>3, <1>8, DoneIsRight
<1> HIDE DEF data
<1>16. CASE mpc' = "stop" /\ ret' = "fail" /\ archive' = archive
  BY <1>16, ReturnData DEF Running
<1>17. CASE /\ th[t].result = "ok" /\ j = 1 /\ mpc' = mpc /\ ret' = ret /\ itemIndex' = itemIndex + 1
            /\ archive' = Append(archive, [item |-> itemIndex, size |-> th[t].pos,
                                           data |-> current \o data])
            /\ current' = <<>> /\ refs' = refs
  <2>1. Running' /\ th[t].item = itemIndex /\ current \o data = whole
    BY <1>3, <1>10, <1>15, <1>17 DEF Running
  <2>2. ThreadsAreRight'
    BY <1>3, <1>12, <1>13, <1>17, <2>1, NextTurn
  <2>3. KeptIsRight'
    BY <1>3, <1>17 DEF DataInv, KeptIsRight
  <2>4. EntryIsRight([item |-> itemIndex, size |-> th[t].pos, data |-> whole])
    BY <1>14, <1>15, <1>17, <2>1 DEF EntryIsRight
  <2>5. whole \in Seq(AnyPiece) /\ refs'[itemIndex].state # "skip"
    BY <1>14, <1>15, <1>17, <2>1
  <2> HIDE DEF whole
  <2>6. ArchiveIsRight'
    BY <1>2, <1>14, <1>17, <2>1, <2>4, <2>5, ArchiveGrows
  <2> QED
    BY <2>2, <2>3, <2>6 DEF DataInv
<1>18. CASE /\ th[t].result = "ok" /\ j > 1 /\ mpc' = mpc /\ ret' = ret /\ itemIndex' = itemIndex
            /\ archive' = archive /\ current' = current /\ refs' = [refs EXCEPT ![th[t].item] = kept]
  <2>1. Running' /\ th[t].item # itemIndex /\ data = whole /\ ~th[t].real
    BY <1>3, <1>10, <1>15, <1>18 DEF Running
  <2>2. refs'[th[t].item] = kept /\ \A i \in Index : i # th[t].item => refs'[i] = refs[i]
    BY <1>3, <1>14, <1>18
  <2>3. kept.state = "defined" /\ kept.size = th[t].pos /\ kept.data = whole
    BY <2>1
  <2> HIDE DEF kept, whole
  <2>4. KeptIsRight'
    BY <1>3, <1>14, <1>15, <1>18, <2>2, <2>3 DEF DataInv, KeptIsRight, whole
  <2>5. ArchiveIsRight'
    <3>1. \A i \in Index : i < itemIndex => i # th[t].item
      BY <1>3, <1>14
    <3>2. {i \in Index : i < itemIndex' /\ refs'[i].state # "skip"}
            = {i \in Index : i < itemIndex /\ refs[i].state # "skip"}
      BY <1>18, <2>2, <3>1
    <3> QED
      BY <1>3, <1>18, <2>1, <3>2, ArchiveStays
  <2>6. ThreadsAreRight'
    <3>1. /\ \A u \in Thread : ~th[u].free => RecordIsRight(th[u], current, itemIndex)
          /\ (\A u \in Thread : th[u].free \/ ~th[u].real) => current = <<>>
      BY <1>3 DEF DataInv, ThreadsAreRight
    <3>2. (\A u \in Thread : th'[u].free \/ ~th'[u].real) => current = <<>>
      BY <1>12, <2>1, <3>1
    <3> QED
      BY <1>12, <1>18, <3>1, <3>2 DEF ThreadsAreRight
  <2> QED
    BY <2>4, <2>5, <2>6 DEF DataInv
<1> QED
  BY <1>11, <1>16, <1>17, <1>18

LEMMA StepData ==
  ASSUME "detached" \notin MayFail
  PROVE  ZipInv /\ DataInv /\ [Next]_vars => DataInv'
<1> SUFFICES ASSUME ZipInv, DataInv, [Next]_vars PROVE DataInv'
  OBVIOUS
<1>1. CASE MainNext
  BY <1>1, QuietData, CreateThreadData, SetRealData, OpenedData, StoringData,
     WaitCompletedData DEF MainNext
<1>2. CASE \E t \in Thread : ThreadNext(t)
  BY <1>2, ThreadData
<1>3. CASE UNCHANGED vars
  BY <1>3 DEF vars, mainVars, DataInv, ThreadsAreRight, KeptIsRight, ArchiveIsRight, Running
<1> QED
  BY <1>1, <1>2, <1>3 DEF Next, Terminating

\* If Update2 succeeds, every item that was not skipped is in the archive, in order,
\* with the data of its last attempt and their size, whichever threads were done
\* first and wherever they wrote; unless WriteToStream of kept data fails, whose
\* result the code does not look at.
THEOREM EverythingIsStored ==
  ASSUME "detached" \notin MayFail
  PROVE  Spec => []SuccessIsComplete
<1>1. Init => DataInv
  BY InitData
<1>2. ZipInv /\ DataInv /\ [Next]_vars => DataInv'
  BY StepData
<1>3. ZipInv /\ DataInv => SuccessIsComplete
  <2> SUFFICES ASSUME ZipInv, DataInv, mpc = "done", ret = "ok"
               PROVE  SuccessIsComplete
    BY DEF SuccessIsComplete
  <2>1. ArchiveIsRight /\ itemIndex = Len(Items) + 1 /\ Len(Items) \in Nat
    BY Numbers DEF DataInv, ArchiveIsRight, Running, ZipInv
  <2>2. \A i \in Index : i < itemIndex
    BY <2>1 DEF Index
  <2>3. {archive[k].item : k \in 1..Len(archive)} = {i \in Index : refs[i].state # "skip"}
    BY <2>1, <2>2 DEF ArchiveIsRight
  <2> QED
    BY <2>1, <2>3 DEF ArchiveIsRight, EntryIsRight, SuccessIsComplete
<1> QED
  BY <1>1, <1>2, <1>3, ZipInvariant, PTL DEF Spec

-----------------------------------------------------------------------------
(* Sums over a finite set, by induction on the number of elements.          *)

\* A set that has 0, and the successor of each number it has, has all of them.
LEMMA NatInd ==
  ASSUME NEW S, 0 \in S, \A k \in Nat : k \in S => k + 1 \in S
  PROVE  \A k \in Nat : k \in S
<1> DEFINE T == Nat \ S
<1> SUFFICES ASSUME T # {} PROVE FALSE
  OBVIOUS
<1>1. PICK c \in T : \A d \in T : ~(<<d, c>> \in OpToRel(<, Nat))
  <2> T \subseteq Nat
    OBVIOUS
  <2> HIDE DEF T
  <2> QED
    BY WFMin, NatLessThanWellFounded, Zenon
<1>2. c \in Nat /\ c # 0 /\ c - 1 \in Nat
  OBVIOUS
<1>3. c - 1 \notin T
  <2> DEFINE p == <<c - 1, c>>
  <2>1. p \in Nat \X Nat /\ p[1] = c - 1 /\ p[2] = c
    BY <1>2
  <2> HIDE DEF p
  <2>2. p[1] < p[2]
    BY <1>2, <2>1
  <2>3. p \in OpToRel(<, Nat)
    BY <2>1, <2>2, Zenon DEF OpToRel
  <2> QED
    BY <1>1, <2>3, Zenon DEF p
<1>4. c - 1 \in S /\ (c - 1) + 1 = c
  BY <1>2, <1>3
<1> QED
  BY <1>2, <1>4

\* The element that a sum begins with.
First(s) == CHOOSE x \in s : TRUE

\* g has the sum of f over each subset of S.
IsTable(g, f, S) ==
  g = [s \in SUBSET S |-> IF s = {} THEN 0 ELSE f[First(s)] + g[s \ {First(s)}]]

Sum(f, S) == (CHOOSE g : IsTable(g, f, S))[S]

\* A subset of a finite set without one of its elements.
LEMMA OneLess ==
  ASSUME NEW S, IsFiniteSet(S), NEW s \in SUBSET S, NEW x \in s
  PROVE  /\ s \ {x} \in SUBSET S /\ Cardinality(s) \in Nat
         /\ Cardinality(s \ {x}) \in Nat /\ Cardinality(s) = Cardinality(s \ {x}) + 1
<1>1. IsFiniteSet(s) /\ IsFiniteSet(s \ {x})
  BY FS_Subset
<1>2. Cardinality(s) \in Nat /\ Cardinality(s \ {x}) = Cardinality(s) - 1
  BY <1>1, FS_CardinalityType, FS_RemoveElement
<1>3. Cardinality(s \ {x}) \in Nat
  BY <1>1, FS_CardinalityType
<1> QED
  BY <1>2, <1>3

LEMMA FirstIsIn ==
  ASSUME NEW s, s # {}
  PROVE  First(s) \in s
BY DEF First

\* There is such a table: one of the subsets of up to k elements, for each k.
LEMMA TableExists ==
  ASSUME NEW S, IsFiniteSet(S), NEW f \in [S -> Nat]
  PROVE  \E g : IsTable(g, f, S)
<1> DEFINE Upto(k) == {s \in SUBSET S : Cardinality(s) <= k}
           Next1(g, k) == g = [s \in Upto(k) |-> IF s = {} THEN 0 ELSE f[First(s)] + g[s \ {First(s)}]]
           K == {k \in Nat : \E g : Next1(g, k)}
<1>1. 0 \in K
  <2> DEFINE g == [s \in Upto(0) |-> 0]
  <2>1. \A s \in Upto(0) : s = {}
    <3> SUFFICES ASSUME NEW s \in Upto(0), s # {} PROVE FALSE
      OBVIOUS
    <3>1. First(s) \in s /\ Cardinality(s) <= 0
      BY FirstIsIn
    <3>2. Cardinality(s) \in Nat /\ Cardinality(s \ {First(s)}) \in Nat
          /\ Cardinality(s) = Cardinality(s \ {First(s)}) + 1
      BY <3>1, OneLess
    <3> QED
      BY <3>1, <3>2
  <2>2. Next1(g, 0)
    BY <2>1
  <2> QED
    BY <2>2
<1>2. ASSUME NEW k \in Nat, k \in K
      PROVE  k + 1 \in K
  <2>1. PICK g : Next1(g, k)
    BY <1>2
  <2> DEFINE h == [s \in Upto(k + 1) |-> IF s = {} THEN 0 ELSE f[First(s)] + g[s \ {First(s)}]]
  <2>2. ASSUME NEW s \in Upto(k + 1), s # {}
        PROVE  s \ {First(s)} \in Upto(k) /\ s \ {First(s)} \in Upto(k + 1)
    <3>1. First(s) \in s
      BY <2>2, FirstIsIn
    <3> QED
      BY <2>2, <3>1, OneLess
  <2>3. ASSUME NEW s \in Upto(k)
        PROVE  h[s] = g[s]
    <3>1. s \in Upto(k + 1)
      <4>1. Cardinality(s) \in Nat
        BY FS_Subset, FS_CardinalityType
      <4> QED
        BY <4>1
    <3>2. g[s] = IF s = {} THEN 0 ELSE f[First(s)] + g[s \ {First(s)}]
      <4> HIDE DEF Upto
      <4> QED
        BY <2>1
    <3> HIDE DEF Upto
    <3> QED
      BY <3>1, <3>2
  <2>4. Next1(h, k + 1)
    <3>1. h = [s \in Upto(k + 1) |-> IF s = {} THEN 0 ELSE f[First(s)] + g[s \ {First(s)}]]
      OBVIOUS
    <3> HIDE DEF h, Upto
    <3> QED
      BY <2>2, <2>3, <3>1
  <2> HIDE DEF Next1, h
  <2>5. k + 1 \in Nat
    OBVIOUS
  <2> QED
    BY <2>4, <2>5
<1> HIDE DEF K
<1>3. \A k \in Nat : k \in K
  BY <1>1, <1>2, NatInd
<1> DEFINE n == Cardinality(S)
<1>4. n \in Nat
  BY FS_CardinalityType
<1>5. PICK g : Next1(g, n)
  BY <1>3, <1>4 DEF K
<1>6. Upto(n) = SUBSET S
  BY FS_Subset
<1> HIDE DEF Upto
<1> QED
  BY <1>5, <1>6 DEF IsTable

\* A table has numbers, and every element may be taken out first.
LEMMA TableStep ==
  ASSUME NEW S, IsFiniteSet(S), NEW f \in [S -> Nat], NEW g, IsTable(g, f, S)
  PROVE  /\ g[{}] = 0
         /\ \A s \in SUBSET S : g[s] \in Nat
         /\ \A s \in SUBSET S : \A x \in s : g[s] = f[x] + g[s \ {x}]
<1>1. \A s \in SUBSET S : g[s] = IF s = {} THEN 0 ELSE f[First(s)] + g[s \ {First(s)}]
  BY DEF IsTable
<1>2. g[{}] = 0
  BY <1>1
<1>3. ASSUME NEW s \in SUBSET S, s # {}
      PROVE  /\ First(s) \in s /\ First(s) \in S /\ f[First(s)] \in Nat
             /\ g[s] = f[First(s)] + g[s \ {First(s)}]
             /\ Cardinality(s) \in Nat /\ s \ {First(s)} \in SUBSET S
             /\ Cardinality(s \ {First(s)}) \in Nat
             /\ Cardinality(s) = Cardinality(s \ {First(s)}) + 1
  <2>1. First(s) \in s
    BY <1>3, FirstIsIn
  <2> QED
    BY <1>1, <1>3, <2>1, OneLess
<1>4. \A s \in SUBSET S : Cardinality(s) \in Nat /\ (Cardinality(s) = 0 => s = {})
  <2> SUFFICES ASSUME NEW s \in SUBSET S
               PROVE  Cardinality(s) \in Nat /\ (Cardinality(s) = 0 => s = {})
    OBVIOUS
  <2>1. Cardinality({}) = 0
    BY FS_EmptySet
  <2>2. ASSUME s # {}
        PROVE  Cardinality(s) \in Nat /\ Cardinality(s) # 0
    <3> DEFINE k == Cardinality(s)
               m == Cardinality(s \ {First(s)})
    <3>1. k \in Nat /\ m \in Nat /\ k = m + 1
      BY <1>3, <2>2
    <3> HIDE DEF k, m
    <3>2. k \in Nat /\ k # 0
      BY <3>1
    <3> QED
      BY <3>2 DEF k
  <2> QED
    BY <2>1, <2>2
<1>5. \A s \in SUBSET S : g[s] \in Nat
  <2> DEFINE K == {k \in Nat : \A s \in SUBSET S : Cardinality(s) = k => g[s] \in Nat}
  <2>1. 0 \in K
    BY <1>2, <1>4
  <2>2. ASSUME NEW k \in Nat, k \in K
        PROVE  k + 1 \in K
    <3> SUFFICES ASSUME NEW s \in SUBSET S, Cardinality(s) = k + 1
                 PROVE  g[s] \in Nat
      OBVIOUS
    <3>1. s # {}
      <4>1. Cardinality({}) = 0
        BY FS_EmptySet
      <4> QED
        BY <4>1
    <3>2. g[s \ {First(s)}] \in Nat
      BY <1>3, <2>2, <3>1
    <3> QED
      BY <1>3, <3>1, <3>2
  <2> HIDE DEF K
  <2>3. \A k \in Nat : k \in K
    BY <2>1, <2>2, NatInd
  <2> QED
    BY <1>4, <2>3 DEF K
<1>6. \A s \in SUBSET S : \A x \in s : g[s] = f[x] + g[s \ {x}]
  <2> DEFINE K == {k \in Nat : \A s \in SUBSET S : Cardinality(s) = k =>
                     \A x \in s : g[s] = f[x] + g[s \ {x}]}
  <2>1. 0 \in K
    BY <1>4
  <2>2. ASSUME NEW k \in Nat, k \in K
        PROVE  k + 1 \in K
    <3> SUFFICES ASSUME NEW s \in SUBSET S, Cardinality(s) = k + 1, NEW x \in s, x # First(s)
                 PROVE  g[s] = f[x] + g[s \ {x}]
      BY <1>3
    <3>1. PICK c : c = First(s)
      OBVIOUS
    <3> DEFINE r == s \ {c}
               q == s \ {x}
    <3>2. /\ c \in s /\ f[c] \in Nat /\ g[s] = f[c] + g[r]
          /\ r \in SUBSET S /\ Cardinality(r) = k
      BY <1>3, <3>1
    <3>3. q \in SUBSET S /\ Cardinality(q) = k
      BY <1>4, OneLess
    <3>4. c \in q /\ q \ {c} = r \ {x} /\ x \in r /\ f[x] \in Nat /\ r \ {x} \in SUBSET S
      BY <3>1, <3>2
    <3> DEFINE w == r \ {x}
    <3>5. g[q] = f[c] + g[w] /\ g[r] = f[x] + g[w]
      <4>1. g[q] = f[c] + g[q \ {c}] /\ g[r] = f[x] + g[r \ {x}]
        BY <2>2, <3>2, <3>3, <3>4
      <4>2. q \ {c} = w
        BY <3>4
      <4> HIDE DEF q, r
      <4> QED
        BY <4>1, <4>2, Zenon
    <3>6. g[w] \in Nat
      BY <1>5, <3>4
    <3>7. f[c] \in Nat /\ f[x] \in Nat /\ g[s] = f[c] + g[r]
      BY <3>2, <3>4
    <3> HIDE DEF q, r, w
    <3>8. g[s] = f[x] + g[q]
      BY <3>5, <3>6, <3>7
    <3> QED
      BY <3>8 DEF q
  <2> HIDE DEF K
  <2>3. \A k \in Nat : k \in K
    BY <2>1, <2>2, NatInd
  <2> QED
    BY <1>4, <2>3 DEF K
<1> QED
  BY <1>2, <1>5, <1>6

\* Two tables agree on the sets on which the functions agree.
LEMMA TablesAgree ==
  ASSUME NEW S, IsFiniteSet(S), NEW f \in [S -> Nat], NEW g, IsTable(g, f, S),
         NEW e \in [S -> Nat], NEW h, IsTable(h, e, S),
         NEW r \in SUBSET S, \A x \in r : e[x] = f[x]
  PROVE  h[r] = g[r]
<1>1. /\ g[{}] = 0 /\ h[{}] = 0
      /\ \A s \in SUBSET S : \A x \in s : g[s] = f[x] + g[s \ {x}] /\ h[s] = e[x] + h[s \ {x}]
  BY TableStep
<1> DEFINE K == {k \in Nat : \A s \in SUBSET r : Cardinality(s) = k => h[s] = g[s]}
<1>2. \A s \in SUBSET r : \A x \in s :
        /\ s \ {x} \in SUBSET r /\ Cardinality(s \ {x}) \in Nat
        /\ Cardinality(s) = Cardinality(s \ {x}) + 1
  BY OneLess
<1>3. 0 \in K
  <2> SUFFICES ASSUME NEW s \in SUBSET r, Cardinality(s) = 0, NEW x \in s
               PROVE  FALSE
    BY <1>1
  <2> DEFINE m == Cardinality(s \ {x})
  <2>1. m \in Nat /\ 0 = m + 1
    BY <1>2
  <2> HIDE DEF m
  <2> QED
    BY <2>1
<1>4. ASSUME NEW k \in Nat, k \in K
      PROVE  k + 1 \in K
  <2> SUFFICES ASSUME NEW s \in SUBSET r, Cardinality(s) = k + 1
               PROVE  h[s] = g[s]
    OBVIOUS
  <2>1. s # {}
    <3>1. Cardinality({}) = 0
      BY FS_EmptySet
    <3> QED
      BY <3>1
  <2>2. PICK x \in s : TRUE
    BY <2>1
  <2>3. h[s \ {x}] = g[s \ {x}]
    BY <1>2, <1>4
  <2>4. g[s] = f[x] + g[s \ {x}] /\ h[s] = e[x] + h[s \ {x}] /\ e[x] = f[x]
    BY <1>1
  <2> QED
    BY <2>3, <2>4
<1> HIDE DEF K
<1>5. \A k \in Nat : k \in K
  BY <1>3, <1>4, NatInd
<1>6. Cardinality(r) \in Nat
  BY FS_Subset, FS_CardinalityType
<1> QED
  BY <1>5, <1>6 DEF K

\* The sum over S is that of one element and of the others.
LEMMA TakeOut ==
  ASSUME NEW S, IsFiniteSet(S), NEW f \in [S -> Nat], NEW g, IsTable(g, f, S), NEW t \in S
  PROVE  g[S] \in Nat /\ g[S \ {t}] \in Nat /\ g[S] = f[t] + g[S \ {t}]
<1>1. S \in SUBSET S /\ S \ {t} \in SUBSET S
  OBVIOUS
<1> QED
  BY <1>1, TableStep

\* So any table gives the sum, and when the value of one element changes the sum
\* changes by as much.
LEMMA SumIs ==
  ASSUME NEW S, IsFiniteSet(S), NEW f \in [S -> Nat]
  PROVE  /\ Sum(f, S) \in Nat
         /\ \A g : IsTable(g, f, S) => g[S] = Sum(f, S)
<1> DEFINE h == CHOOSE g : IsTable(g, f, S)
<1>1. IsTable(h, f, S)
  BY TableExists
<1> HIDE DEF h
<1>2. h[S] \in Nat
  BY <1>1, TableStep
<1>3. \A g : IsTable(g, f, S) => g[S] = h[S]
  BY <1>1, TablesAgree
<1> QED
  BY <1>2, <1>3 DEF Sum, h

LEMMA SumChanges ==
  ASSUME NEW S, IsFiniteSet(S), NEW f \in [S -> Nat], NEW e \in [S -> Nat], NEW t \in S,
         \A x \in S : x # t => e[x] = f[x]
  PROVE  /\ Sum(f, S) \in Nat /\ Sum(e, S) \in Nat
         /\ Sum(e, S) + f[t] = Sum(f, S) + e[t]
<1> DEFINE r == S \ {t}
<1>1. S \in SUBSET S /\ r \in SUBSET S
  OBVIOUS
<1>2. ASSUME NEW g, IsTable(g, f, S), NEW h, IsTable(h, e, S)
      PROVE  h[S] + f[t] = g[S] + e[t]
  <2>1. h[r] = g[r]
    BY <1>2, TablesAgree
  <2>2. g[r] \in Nat /\ g[S] = f[t] + g[r]
    BY <1>2, TakeOut
  <2>3. h[S] = e[t] + h[r]
    BY <1>2, TakeOut
  <2>4. f[t] \in Nat /\ e[t] \in Nat
    OBVIOUS
  <2> HIDE DEF r
  <2> QED
    BY <2>1, <2>2, <2>3, <2>4
<1>3. PICK g : IsTable(g, f, S)
  BY TableExists
<1>4. PICK h : IsTable(h, e, S)
  BY TableExists
<1>5. h[S] + f[t] = g[S] + e[t]
  BY <1>2, <1>3, <1>4
<1>6. Sum(f, S) = g[S] /\ Sum(e, S) = h[S] /\ Sum(f, S) \in Nat /\ Sum(e, S) \in Nat
  BY <1>3, <1>4, SumIs
<1> QED
  BY <1>5, <1>6

\* A sum with nothing to add.
LEMMA SumOfNone ==
  ASSUME NEW S, IsFiniteSet(S), NEW f \in [S -> Nat], \A x \in S : f[x] = 0
  PROVE  Sum(f, S) = 0
<1>1. PICK g : IsTable(g, f, S)
  BY TableExists
<1> DEFINE h == [s \in SUBSET S |-> 0]
<1>2. IsTable(h, f, S)
  <2>1. \A s \in SUBSET S : s # {} => f[First(s)] + h[s \ {First(s)}] = 0
    BY FirstIsIn
  <2> QED
    BY <2>1 DEF IsTable
<1>3. h[S] = Sum(f, S)
  BY <1>2, SumIs
<1> QED
  BY <1>3

-----------------------------------------------------------------------------
(* The blocks.                                                              *)

\* The blocks that each thread has, and those that are kept for each item.
BlocksOf == [t \in Thread |-> Len(th[t].blocks)]
BlocksKept == [i \in Index |-> Len(refs[i].data)]

LEMMA FiniteSets ==
  IsFiniteSet(Thread) /\ IsFiniteSet(Index)
<1>1. NumThreads \in Int /\ Len(Items) \in Int
  BY ZipAssumption, LenProperties
<1> QED
  BY <1>1, FS_Interval DEF Thread, Index

\* The sums of the model are those of the tables.
ThreadTable(g) ==
  g = [s \in SUBSET Thread |->
        IF s = {} THEN 0 ELSE Len(th[First(s)].blocks) + g[s \ {First(s)}]]
KeptTable(g) ==
  g = [s \in SUBSET Index |->
        IF s = {} THEN 0 ELSE Len(refs[First(s)].data) + g[s \ {First(s)}]]

LEMMA ThreadSum ==
  ASSUME BlocksOf \in [Thread -> Nat]
  PROVE  MapThenSumSet(LAMBDA t : Len(th[t].blocks), Thread) = Sum(BlocksOf, Thread)
<1>1. ASSUME NEW g PROVE ThreadTable(g) <=> IsTable(g, BlocksOf, Thread)
  <2>1. \A s \in SUBSET Thread : s # {} => BlocksOf[First(s)] = Len(th[First(s)].blocks)
    BY FirstIsIn DEF BlocksOf
  <2> QED
    BY <2>1 DEF ThreadTable, IsTable
<1>2. PICK g : IsTable(g, BlocksOf, Thread)
  BY TableExists, FiniteSets
<1> DEFINE h == CHOOSE e : e = [s \in SUBSET Thread |->
         IF s = {} THEN 0 ELSE Len(th[First(s)].blocks) + e[s \ {First(s)}]]
<1>3. ThreadTable(g)
  BY <1>1, <1>2
<1>4. ThreadTable(h)
  BY <1>3 DEF ThreadTable
<1>5. MapThenSumSet(LAMBDA t : Len(th[t].blocks), Thread) = h[Thread]
  BY Zenon DEF MapThenSumSet, MapThenFoldSet, First
<1> HIDE DEF h
<1>6. h[Thread] = Sum(BlocksOf, Thread)
  BY <1>1, <1>4, SumIs, FiniteSets
<1> QED
  BY <1>5, <1>6, Zenon

LEMMA KeptSum ==
  ASSUME BlocksKept \in [Index -> Nat]
  PROVE  MapThenSumSet(LAMBDA i : Len(refs[i].data), Index) = Sum(BlocksKept, Index)
<1>1. ASSUME NEW g PROVE KeptTable(g) <=> IsTable(g, BlocksKept, Index)
  <2>1. \A s \in SUBSET Index : s # {} => BlocksKept[First(s)] = Len(refs[First(s)].data)
    BY FirstIsIn DEF BlocksKept
  <2> QED
    BY <2>1 DEF KeptTable, IsTable
<1>2. PICK g : IsTable(g, BlocksKept, Index)
  BY TableExists, FiniteSets
<1> DEFINE h == CHOOSE e : e = [s \in SUBSET Index |->
         IF s = {} THEN 0 ELSE Len(refs[First(s)].data) + e[s \ {First(s)}]]
<1>3. KeptTable(g)
  BY <1>1, <1>2
<1>4. KeptTable(h)
  BY <1>3 DEF KeptTable
<1>5. MapThenSumSet(LAMBDA i : Len(refs[i].data), Index) = h[Index]
  BY Zenon DEF MapThenSumSet, MapThenFoldSet, First
<1> HIDE DEF h
<1>6. h[Index] = Sum(BlocksKept, Index)
  BY <1>1, <1>4, SumIs, FiniteSets
<1> QED
  BY <1>5, <1>6, Zenon

\* Every piece is one of a file, and what is not kept takes no block.
PiecesAreTyped ==
  /\ th \in [Thread -> ThreadState] /\ \A t \in Thread : Busy(t) => th[t].item \in Index
  /\ refs \in [Index -> Kept] /\ \A i \in Index : refs[i].state # "defined" => refs[i].data = <<>>
  /\ archive \in Seq(Entry) /\ current \in Seq(Piece)
  /\ mixer \in {"none", "main"} /\ ret \in {"ok", "fail"}

BlocksAreCounted ==
  permits \in Nat /\ permits + Sum(BlocksOf, Thread) + Sum(BlocksKept, Index) = PoolBlocks

BlockInv == PiecesAreTyped /\ BlocksAreCounted

LEMMA BlockTypes ==
  ASSUME PiecesAreTyped
  PROVE  /\ BlocksOf \in [Thread -> Nat] /\ BlocksKept \in [Index -> Nat]
         /\ Sum(BlocksOf, Thread) \in Nat /\ Sum(BlocksKept, Index) \in Nat
<1>1. \A t \in Thread : Len(th[t].blocks) \in Nat
  BY LenProperties DEF PiecesAreTyped, ThreadState
<1>2. \A i \in Index : Len(refs[i].data) \in Nat
  BY LenProperties DEF PiecesAreTyped, Kept
<1>3. BlocksOf \in [Thread -> Nat] /\ BlocksKept \in [Index -> Nat]
  BY <1>1, <1>2 DEF BlocksOf, BlocksKept
<1> QED
  BY <1>3, SumIs, FiniteSets

LEMMA BlockTypesNext ==
  PiecesAreTyped' => (/\ BlocksOf \in [Thread -> Nat] /\ BlocksKept \in [Index -> Nat]
                      /\ Sum(BlocksOf, Thread) \in Nat /\ Sum(BlocksKept, Index) \in Nat)'
<1>1. PiecesAreTyped => (/\ BlocksOf \in [Thread -> Nat] /\ BlocksKept \in [Index -> Nat]
                         /\ Sum(BlocksOf, Thread) \in Nat /\ Sum(BlocksKept, Index) \in Nat)
  BY BlockTypes
<1> QED
  BY <1>1, PTL

\* The blocks that a thread gets or gives away.
LEMMA ThreadChanges ==
  ASSUME PiecesAreTyped, PiecesAreTyped', NEW t \in Thread,
         \A u \in Thread : u # t => th'[u] = th[u]
  PROVE  Sum(BlocksOf', Thread) + Len(th[t].blocks) = Sum(BlocksOf, Thread) + Len(th'[t].blocks)
<1>1. BlocksOf \in [Thread -> Nat] /\ BlocksOf' \in [Thread -> Nat]
  BY BlockTypes, BlockTypesNext
<1>2. \A u \in Thread : BlocksOf[u] = Len(th[u].blocks) /\ BlocksOf'[u] = Len(th'[u].blocks)
  BY DEF BlocksOf
<1>3. \A u \in Thread : u # t => BlocksOf'[u] = BlocksOf[u]
  BY <1>2
<1> DEFINE f == BlocksOf
           e == BlocksOf'
<1> HIDE DEF f, e
<1>4. Sum(e, Thread) + f[t] = Sum(f, Thread) + e[t]
  <2>1. f \in [Thread -> Nat] /\ e \in [Thread -> Nat] /\ \A u \in Thread : u # t => e[u] = f[u]
    BY <1>1, <1>3 DEF f, e
  <2> QED
    BY <2>1, SumChanges, FiniteSets
<1> QED
  BY <1>2, <1>4 DEF f, e

\* The blocks that are kept of a file.
LEMMA KeptChanges ==
  ASSUME PiecesAreTyped, PiecesAreTyped', NEW j \in Index,
         \A i \in Index : i # j => refs'[i] = refs[i]
  PROVE  Sum(BlocksKept', Index) + Len(refs[j].data) = Sum(BlocksKept, Index) + Len(refs'[j].data)
<1>1. BlocksKept \in [Index -> Nat] /\ BlocksKept' \in [Index -> Nat]
  BY BlockTypes, BlockTypesNext
<1>2. \A u \in Index : BlocksKept[u] = Len(refs[u].data) /\ BlocksKept'[u] = Len(refs'[u].data)
  BY DEF BlocksKept
<1>3. \A u \in Index : u # j => BlocksKept'[u] = BlocksKept[u]
  BY <1>2
<1> DEFINE f == BlocksKept
           e == BlocksKept'
<1> HIDE DEF f, e
<1>4. Sum(e, Index) + f[j] = Sum(f, Index) + e[j]
  <2>1. f \in [Index -> Nat] /\ e \in [Index -> Nat] /\ \A u \in Index : u # j => e[u] = f[u]
    BY <1>1, <1>3 DEF f, e
  <2> QED
    BY <2>1, SumChanges, FiniteSets
<1> QED
  BY <1>2, <1>4 DEF f, e

-----------------------------------------------------------------------------
(* What the steps do with the blocks.                                       *)

\* What PiecesAreTyped says of one thread.
HasItsFile(r) ==
  /\ r \in ThreadState
  /\ r.pc \in {"attempt", "write", "report"} \/ (r.compress /\ ~r.exit) => r.item \in Index

LEMMA ThreadsHaveFiles ==
  PiecesAreTyped => \A t \in Thread :
    /\ HasItsFile(th[t]) /\ th[t] \in ThreadState
    /\ th[t].blocks \in Seq(Piece) /\ Len(th[t].blocks) \in Nat
    /\ th[t].pos \in Nat /\ th[t].total \in Nat /\ th[t].attempt \in Nat \ {0}
    /\ Compressing(t) => th[t].item \in Index
BY LenProperties DEF PiecesAreTyped, HasItsFile, Busy, Compressing, Given, ThreadState

\* What Update2 changes without the threads and the blocks has its type.
RestIsTyped ==
  /\ archive' \in Seq(Entry) /\ current' \in Seq(Piece)
  /\ mixer' \in {"none", "main"} /\ ret' \in {"ok", "fail"}

LEMMA RestStays ==
  ASSUME PiecesAreTyped, archive' = archive, current' = current,
         mixer' \in {mixer, "none", "main"}, ret' \in {ret, "ok", "fail"}
  PROVE  RestIsTyped
BY DEF PiecesAreTyped, RestIsTyped

LEMMA BlocksStay ==
  ASSUME BlockInv, th' = th, refs' = refs, permits' = permits, RestIsTyped
  PROVE  BlockInv'
<1>1. PiecesAreTyped'
  BY DEF BlockInv, PiecesAreTyped, RestIsTyped, Busy, Compressing, Given
<1>2. BlocksOf' = BlocksOf /\ BlocksKept' = BlocksKept
  BY DEF BlocksOf, BlocksKept
<1>3. Sum(BlocksOf', Thread) = Sum(BlocksOf, Thread) /\ Sum(BlocksKept', Index) = Sum(BlocksKept, Index)
  BY <1>2
<1> QED
  BY <1>1, <1>3 DEF BlockInv, BlocksAreCounted

LEMMA Balance ==
  ASSUME NEW p \in Nat, NEW q \in Nat, NEW a \in Nat, NEW b \in Nat, NEW k \in Nat,
         NEW m \in Nat, NEW n \in Nat, NEW sum, p + a + k = sum, b + m = a + n, q + n = p + m
  PROVE  q + b + k = sum
OBVIOUS

\* Thread t has a new record, and the blocks that it has no more are free.
LEMMA ThreadMoves ==
  ASSUME BlockInv, NEW t \in Thread, NEW new, HasItsFile(new), th' = [th EXCEPT ![t] = new],
         refs' = refs, permits' \in Nat,
         permits' + Len(new.blocks) = permits + Len(th[t].blocks), RestIsTyped
  PROVE  BlockInv'
<1>1. /\ th' \in [Thread -> ThreadState] /\ th'[t] = new
      /\ \A u \in Thread : u # t => th'[u] = th[u]
  BY DEF BlockInv, PiecesAreTyped, HasItsFile
<1>2. \A u \in Thread : Busy(u)' => th'[u].item \in Index
  BY <1>1 DEF BlockInv, PiecesAreTyped, HasItsFile, Busy, Compressing, Given
<1>3. PiecesAreTyped'
  BY <1>1, <1>2 DEF BlockInv, PiecesAreTyped, RestIsTyped
<1>4. Sum(BlocksOf', Thread) + Len(th[t].blocks) = Sum(BlocksOf, Thread) + Len(new.blocks)
  BY <1>1, <1>3, ThreadChanges DEF BlockInv
<1>5. BlocksKept' = BlocksKept
  BY DEF BlocksKept
<1>6. Sum(BlocksKept', Index) = Sum(BlocksKept, Index)
  BY <1>5
<1>7. /\ Sum(BlocksOf, Thread) \in Nat /\ Sum(BlocksKept, Index) \in Nat
      /\ Sum(BlocksOf', Thread) \in Nat /\ Len(th[t].blocks) \in Nat /\ Len(new.blocks) \in Nat
  BY <1>3, BlockTypes, BlockTypesNext, ThreadsHaveFiles, LenProperties
  DEF BlockInv, HasItsFile, ThreadState
<1>8. permits' + Sum(BlocksOf', Thread) + Sum(BlocksKept', Index) = PoolBlocks
  <2> DEFINE a == Sum(BlocksOf, Thread)
             b == Sum(BlocksOf', Thread)
             k == Sum(BlocksKept, Index)
             m == Len(th[t].blocks)
             n == Len(new.blocks)
  <2>1. b + m = a + n /\ a \in Nat /\ b \in Nat /\ k \in Nat /\ m \in Nat /\ n \in Nat
    BY <1>4, <1>7
  <2>2. permits \in Nat /\ permits' \in Nat /\ permits + a + k = PoolBlocks /\ permits' + n = permits + m
    BY DEF BlockInv, BlocksAreCounted
  <2> HIDE DEF a, b, k, m, n
  <2> DEFINE q == permits'
  <2>3. q \in Nat /\ q + n = permits + m
    BY <2>2
  <2> HIDE DEF q
  <2>4. q + b + k = PoolBlocks
    BY <2>1, <2>2, <2>3, Balance
  <2> QED
    BY <1>6, <2>4 DEF b, k, q
<1> QED
  BY <1>3, <1>8 DEF BlockInv, BlocksAreCounted

LEMMA InitBlocks == Init => BlockInv
<1> SUFFICES ASSUME Init PROVE BlockInv
  OBVIOUS
<1>1. /\ <<>> \in Seq(Piece) /\ <<>> \in Seq(Entry) /\ Len(<<>>) = 0
  BY EmptySeq
<1>2. PiecesAreTyped
  BY <1>1 DEF Init, PiecesAreTyped, ThreadState, Kept, nothing, Busy, Compressing, Given
<1>3. (\A t \in Thread : BlocksOf[t] = 0) /\ (\A i \in Index : BlocksKept[i] = 0)
  BY <1>1 DEF Init, BlocksOf, BlocksKept, nothing
<1>4. Sum(BlocksOf, Thread) = 0 /\ Sum(BlocksKept, Index) = 0
  BY <1>2, <1>3, BlockTypes, SumOfNone, FiniteSets
<1>5. permits = PoolBlocks /\ PoolBlocks \in Nat
  BY ZipAssumption DEF Init
<1> QED
  BY <1>2, <1>4, <1>5 DEF BlockInv, BlocksAreCounted

\* The blocks up to TotalSize.
LEMMA WrittenIsTyped ==
  ASSUME NEW blocks \in Seq(Piece), NEW total \in Nat, total <= Len(blocks)
  PROVE  Written(blocks, total) \in Seq(Piece) /\ Len(Written(blocks, total)) = total
<1>1. Len(blocks) \in Nat
  BY LenProperties
<1>2. CASE total = 0
  BY <1>1, <1>2, SubSeqProperties, EmptySeq DEF Written
<1>3. CASE total >= 1
  <2>1. 1 \in 1..Len(blocks) /\ total \in 1..Len(blocks)
    BY <1>1, <1>3
  <2> QED
    BY <1>1, <2>1, SubSeqProperties DEF Written
<1> QED
  BY <1>2, <1>3

\* A thread writes to a block or to the archive.
LEMMA StoreBlocks ==
  ASSUME BlockInv, TotalFits, NEW t \in Thread,
         WriteInBlock(t) \/ WaitStopped(t) \/ WaitReal(t) \/ WaitBlock(t) \/ WriteReal(t)
  PROVE  BlockInv'
<1> DEFINE r == th[t]
           piece == NextPiece(t)
           next == r.pos + 1
           top == Max({r.total, r.pos + 1})
<1>1. /\ r \in ThreadState /\ r.blocks \in Seq(Piece) /\ Len(r.blocks) \in Nat
      /\ r.pos \in Nat /\ r.total \in Nat /\ r.attempt \in Nat \ {0} /\ th \in [Thread -> ThreadState]
      /\ Compressing(t) => r.item \in Index
  BY ThreadsHaveFiles DEF BlockInv, PiecesAreTyped
<1>2. r.pc = "write" /\ r.item \in Index
  BY <1>1 DEF WriteInBlock, WaitStopped, WaitReal, WaitBlock, WriteReal, NeedsBlock, Writing, Compressing
<1>3. piece \in Piece /\ next \in Nat /\ top \in Nat
  <2>1. next \in Nat /\ top \in Nat
    BY <1>1, MaxOfTwo
  <2> QED
    BY <1>1, <1>2, <2>1 DEF NextPiece, Piece
<1>4. refs' = refs /\ archive' = archive /\ mixer' = mixer /\ ret' = ret
  BY DEF WriteInBlock, WaitStopped, WaitReal, WaitBlock, WriteReal, mainVars
<1>5. permits \in Nat /\ current \in Seq(Piece)
  BY DEF BlockInv, PiecesAreTyped, BlocksAreCounted
<1>6. current' \in Seq(Piece) => RestIsTyped
  BY <1>4 DEF BlockInv, PiecesAreTyped, RestIsTyped
<1>7. CASE WriteInBlock(t)
  <2> DEFINE blocks == [r.blocks EXCEPT ![r.pos + 1] = piece]
             new == [r EXCEPT !.pos = next, !.blocks = blocks, !.total = top]
  <2>1. r.pos + 1 \in 1..Len(r.blocks)
    BY <1>1, <1>7 DEF WriteInBlock
  <2>2. blocks \in Seq(Piece) /\ Len(blocks) = Len(r.blocks)
    BY <1>1, <1>3, <2>1, ExceptSeq
  <2>3. th' = [th EXCEPT ![t] = new] /\ permits' = permits /\ current' = current
    BY <1>1, <1>7 DEF WriteInBlock, ThreadState
  <2> HIDE DEF blocks, top, piece, next
  <2>4. new \in ThreadState
    BY <1>1, <1>3, <2>2 DEF ThreadState
  <2>5. new.item = r.item /\ new.blocks = blocks
    BY <1>1 DEF ThreadState
  <2> HIDE DEF new
  <2>6. HasItsFile(new)
    BY <1>2, <2>4, <2>5 DEF HasItsFile
  <2>7. permits' \in Nat /\ permits' + Len(new.blocks) = permits + Len(r.blocks)
    BY <1>1, <1>5, <2>2, <2>3, <2>5
  <2> QED
    BY <1>4, <1>5, <1>6, <2>3, <2>6, <2>7, ThreadMoves
<1>8. CASE WaitStopped(t)
  <2> DEFINE new == [r EXCEPT !.pc = "idle", !.result = "fail", !.completed = TRUE, !.stop = FALSE]
  <2>1. th' = [th EXCEPT ![t] = new] /\ permits' = permits /\ current' = current
    BY <1>1, <1>8 DEF WaitStopped, Complete, ThreadState
  <2>2. new \in ThreadState
    BY <1>1 DEF ThreadState
  <2>3. new.item = r.item /\ new.blocks = r.blocks
    BY <1>1 DEF ThreadState
  <2> HIDE DEF new
  <2>4. HasItsFile(new)
    BY <1>2, <2>2, <2>3 DEF HasItsFile
  <2>5. permits' \in Nat /\ permits' + Len(new.blocks) = permits + Len(r.blocks)
    BY <1>5, <2>1, <2>3
  <2> QED
    BY <1>4, <1>5, <1>6, <2>1, <2>4, <2>5, ThreadMoves
<1>9. CASE WaitReal(t)
  <2> DEFINE new == [r EXCEPT !.toReal = FALSE, !.real = TRUE, !.blocks = <<>>, !.total = 0]
  <2>1. /\ th' = [th EXCEPT ![t] = new] /\ permits' = permits + Len(r.blocks)
        /\ current' = current \o Written(r.blocks, r.total)
    BY <1>1, <1>9 DEF WaitReal, ThreadState
  <2>2. <<>> \in Seq(Piece) /\ Len(<<>>) = 0
    BY EmptySeq
  <2>3. new \in ThreadState
    BY <1>1, <2>2 DEF ThreadState
  <2>4. new.item = r.item /\ new.blocks = <<>>
    BY <1>1 DEF ThreadState
  <2> HIDE DEF new
  <2>5. HasItsFile(new)
    BY <1>2, <2>3, <2>4 DEF HasItsFile
  <2>6. permits' \in Nat /\ permits' + Len(new.blocks) = permits + Len(r.blocks)
    BY <1>1, <1>5, <2>1, <2>2, <2>4
  <2>7. current' \in Seq(Piece)
    <3>1. Written(r.blocks, r.total) \in Seq(Piece)
      <4>1. r.total <= Len(r.blocks)
        BY DEF TotalFits
      <4> QED
        BY <1>1, <4>1, WrittenIsTyped
    <3> QED
      BY <1>5, <2>1, <3>1, ConcatProperties
  <2> QED
    BY <1>4, <1>6, <2>1, <2>5, <2>6, <2>7, ThreadMoves
<1>10. CASE WaitBlock(t)
  <2> DEFINE blocks == Append(r.blocks, piece)
             new == [r EXCEPT !.blocks = blocks, !.pos = next, !.total = top]
  <2>1. blocks \in Seq(Piece) /\ Len(blocks) = Len(r.blocks) + 1
    BY <1>1, <1>3
  <2>2. /\ th' = [th EXCEPT ![t] = new] /\ permits' = permits - 1 /\ permits > 0
        /\ current' = current
    BY <1>1, <1>10 DEF WaitBlock, ThreadState, mainVars
  <2> HIDE DEF blocks, top, piece, next
  <2>3. new \in ThreadState
    BY <1>1, <1>3, <2>1 DEF ThreadState
  <2>4. new.item = r.item /\ new.blocks = blocks
    BY <1>1 DEF ThreadState
  <2> HIDE DEF new
  <2>5. HasItsFile(new)
    BY <1>2, <2>3, <2>4 DEF HasItsFile
  <2>6. permits' \in Nat /\ permits' + Len(new.blocks) = permits + Len(r.blocks)
    <3>1. Len(new.blocks) = Len(r.blocks) + 1
      BY <2>1, <2>4
    <3> QED
      BY <1>1, <1>5, <2>2, <3>1
  <2> QED
    BY <1>4, <1>5, <1>6, <2>2, <2>5, <2>6, ThreadMoves
<1>11. CASE WriteReal(t)
  <2> DEFINE new == [r EXCEPT !.pos = next]
  <2>1. /\ th' = [th EXCEPT ![t] = new] /\ permits' = permits /\ current' = Append(current, piece)
    BY <1>1, <1>11 DEF WriteReal, ThreadState
  <2> HIDE DEF next, piece
  <2>2. new \in ThreadState
    BY <1>1, <1>3 DEF ThreadState
  <2>3. new.item = r.item /\ new.blocks = r.blocks
    BY <1>1 DEF ThreadState
  <2> HIDE DEF new
  <2>4. HasItsFile(new)
    BY <1>2, <2>2, <2>3 DEF HasItsFile
  <2>5. permits' \in Nat /\ permits' + Len(new.blocks) = permits + Len(r.blocks)
    BY <1>5, <2>1, <2>3
  <2>6. current' \in Seq(Piece)
    BY <1>3, <1>5, <2>1
  <2> QED
    BY <1>4, <1>6, <2>1, <2>4, <2>5, <2>6, ThreadMoves
<1> QED
  BY <1>7, <1>8, <1>9, <1>10, <1>11

\* The other steps of a thread leave the blocks alone.
LEMMA CompressBlocks ==
  ASSUME BlockInv, NEW t \in Thread,
         Begin(t) \/ StartAttempt(t) \/ EndAttempt(t) \/ Report(t) \/ CompressFails(t)
  PROVE  BlockInv'
<1> DEFINE r == th[t]
<1>1. /\ r \in ThreadState /\ HasItsFile(r) /\ Len(r.blocks) \in Nat /\ r.attempt \in Nat \ {0}
      /\ th \in [Thread -> ThreadState]
  BY ThreadsHaveFiles DEF BlockInv, PiecesAreTyped
<1>2. refs' = refs /\ archive' = archive /\ mixer' = mixer /\ ret' = ret /\ permits' = permits
  BY DEF Begin, StartAttempt, EndAttempt, Report, CompressFails, mainVars
<1>3. permits \in Nat /\ current \in Seq(Piece) /\ <<>> \in Seq(Piece)
  BY EmptySeq DEF BlockInv, PiecesAreTyped, BlocksAreCounted
<1>4. current' = current \/ current' = <<>>
  BY DEF Begin, StartAttempt, EndAttempt, Report, CompressFails
<1>5. RestIsTyped
  BY <1>2, <1>3, <1>4 DEF BlockInv, PiecesAreTyped, RestIsTyped
<1>6. ASSUME NEW new, new \in ThreadState, new.blocks = r.blocks, new.item = r.item,
             new.pc \in {"attempt", "write", "report"} \/ (new.compress /\ ~new.exit) =>
               r.pc \in {"attempt", "write", "report"} \/ (r.compress /\ ~r.exit),
             th' = [th EXCEPT ![t] = new]
      PROVE  BlockInv'
  <2>1. HasItsFile(new)
    BY <1>1, <1>6 DEF HasItsFile
  <2> QED
    BY <1>2, <1>3, <1>5, <1>6, <2>1, ThreadMoves
<1>7. CASE Begin(t)
  <2> DEFINE pc == IF r.exit THEN "exited" ELSE "attempt"
             new == [r EXCEPT !.compress = FALSE, !.attempt = 1, !.pc = pc]
  <2>1. th' = [th EXCEPT ![t] = new] /\ r.compress
    BY <1>1, <1>7 DEF Begin, ThreadState
  <2>2. pc \in {"exited", "attempt"} /\ (pc = "attempt" => ~r.exit) /\ 1 \in Nat \ {0}
    OBVIOUS
  <2> HIDE DEF pc
  <2>3. new \in ThreadState
    BY <1>1, <2>2 DEF ThreadState
  <2>4. new.blocks = r.blocks /\ new.item = r.item /\ new.compress = FALSE /\ new.pc = pc
    BY <1>1 DEF ThreadState
  <2> HIDE DEF new
  <2> QED
    BY <1>6, <2>1, <2>2, <2>3, <2>4
<1>8. CASE StartAttempt(t)
  <2> DEFINE new == [r EXCEPT !.pc = "write", !.pos = 0, !.total = IF r.real THEN r.total ELSE 0]
  <2>1. th' = [th EXCEPT ![t] = new] /\ r.pc = "attempt"
    BY <1>1, <1>8 DEF StartAttempt, ThreadState
  <2>2. new \in ThreadState
    BY <1>1 DEF ThreadState
  <2>3. new.blocks = r.blocks /\ new.item = r.item
    BY <1>1 DEF ThreadState
  <2> HIDE DEF new
  <2> QED
    BY <1>6, <2>1, <2>2, <2>3
<1>9. CASE EndAttempt(t)
  <2> DEFINE new == [r EXCEPT !.pc = "report"]
  <2>1. th' = [th EXCEPT ![t] = new] /\ r.pc = "write"
    BY <1>1, <1>9 DEF EndAttempt, ThreadState
  <2>2. new \in ThreadState /\ new.blocks = r.blocks /\ new.item = r.item
    BY <1>1 DEF ThreadState
  <2> HIDE DEF new
  <2> QED
    BY <1>6, <2>1, <2>2
<1>10. CASE Report(t)
  <2> DEFINE next == r.attempt + 1
             again == [r EXCEPT !.pc = "attempt", !.attempt = next]
             done == [r EXCEPT !.pc = "idle", !.result = "ok", !.completed = TRUE]
  <2>1. /\ th' = [th EXCEPT ![t] = again] \/ th' = [th EXCEPT ![t] = done]
        /\ r.pc = "report"
    BY <1>10 DEF Report, Complete
  <2>2. next \in Nat \ {0}
    BY <1>1
  <2> HIDE DEF next
  <2>3. again \in ThreadState
    BY <1>1, <2>2 DEF ThreadState
  <2>4. again.blocks = r.blocks /\ again.item = r.item
    BY <1>1 DEF ThreadState
  <2>5. done \in ThreadState
    BY <1>1 DEF ThreadState
  <2>6. done.blocks = r.blocks /\ done.item = r.item
    BY <1>1 DEF ThreadState
  <2> HIDE DEF again, done
  <2> QED
    BY <1>6, <2>1, <2>3, <2>4, <2>5, <2>6
<1>11. CASE CompressFails(t)
  <2> DEFINE new == [r EXCEPT !.pc = "idle", !.result = "fail", !.completed = TRUE]
  <2>1. th' = [th EXCEPT ![t] = new] /\ r.pc \in {"write", "report"}
    BY <1>11 DEF CompressFails, Complete
  <2>2. new \in ThreadState
    BY <1>1 DEF ThreadState
  <2>3. new.blocks = r.blocks /\ new.item = r.item
    BY <1>1 DEF ThreadState
  <2> HIDE DEF new
  <2> QED
    BY <1>6, <2>1, <2>2, <2>3
<1> QED
  BY <1>7, <1>8, <1>9, <1>10, <1>11

\* The blocks of a thread and those that are kept of a file change together.
LEMMA KeptMoves ==
  ASSUME BlockInv, NEW t \in Thread, NEW new, HasItsFile(new), th' = [th EXCEPT ![t] = new],
         NEW j \in Index, NEW kept \in Kept, kept.state # "defined" => kept.data = <<>>,
         refs' = [refs EXCEPT ![j] = kept], permits' \in Nat,
         permits' + Len(new.blocks) + Len(kept.data)
           = permits + Len(th[t].blocks) + Len(refs[j].data),
         RestIsTyped
  PROVE  BlockInv'
<1>1. /\ th' \in [Thread -> ThreadState] /\ th'[t] = new
      /\ \A u \in Thread : u # t => th'[u] = th[u]
  BY DEF BlockInv, PiecesAreTyped, HasItsFile
<1>2. \A u \in Thread : Busy(u)' => th'[u].item \in Index
  BY <1>1 DEF BlockInv, PiecesAreTyped, HasItsFile, Busy, Compressing, Given
<1>3. /\ refs' \in [Index -> Kept] /\ refs'[j] = kept
      /\ \A i \in Index : i # j => refs'[i] = refs[i]
  BY DEF BlockInv, PiecesAreTyped
<1>4. \A i \in Index : refs'[i].state # "defined" => refs'[i].data = <<>>
  BY <1>3 DEF BlockInv, PiecesAreTyped
<1>5. PiecesAreTyped'
  BY <1>1, <1>2, <1>3, <1>4 DEF PiecesAreTyped, RestIsTyped
<1>6. Sum(BlocksOf', Thread) + Len(th[t].blocks) = Sum(BlocksOf, Thread) + Len(new.blocks)
  BY <1>1, <1>5, ThreadChanges DEF BlockInv
<1>7. Sum(BlocksKept', Index) + Len(refs[j].data) = Sum(BlocksKept, Index) + Len(kept.data)
  BY <1>3, <1>5, KeptChanges DEF BlockInv
<1>8. /\ Sum(BlocksOf, Thread) \in Nat /\ Sum(BlocksKept, Index) \in Nat
      /\ Sum(BlocksOf', Thread) \in Nat /\ Sum(BlocksKept', Index) \in Nat
  BY <1>5, BlockTypes, BlockTypesNext DEF BlockInv
<1>9. /\ Len(th[t].blocks) \in Nat /\ Len(new.blocks) \in Nat
      /\ Len(refs[j].data) \in Nat /\ Len(kept.data) \in Nat
  BY ThreadsHaveFiles, LenProperties DEF BlockInv, PiecesAreTyped, HasItsFile, ThreadState, Kept
<1> DEFINE a == Sum(BlocksOf, Thread)
           b == Sum(BlocksOf', Thread)
           k == Sum(BlocksKept, Index)
           l == Sum(BlocksKept', Index)
           m == Len(th[t].blocks)
           n == Len(new.blocks)
           d == Len(refs[j].data)
           e == Len(kept.data)
           q == permits'
<1>10. /\ permits \in Nat /\ permits + a + k = PoolBlocks /\ q \in Nat
       /\ q + n + e = permits + m + d /\ b + m = a + n /\ l + d = k + e
  BY <1>6, <1>7 DEF BlockInv, BlocksAreCounted
<1>11. /\ a \in Nat /\ b \in Nat /\ k \in Nat /\ l \in Nat
       /\ m \in Nat /\ n \in Nat /\ d \in Nat /\ e \in Nat
  BY <1>8, <1>9
<1> HIDE DEF a, b, k, l, m, n, d, e, q
<1>12. q + b + l = PoolBlocks
  BY <1>10, <1>11
<1> QED
  BY <1>5, <1>10, <1>12 DEF BlockInv, BlocksAreCounted, q, b, l

\* The steps of Update2 with no block.
LEMMA QuietBlocks ==
  ASSUME BlockInv, PassOver \/ EnterMixer \/ NotOpened \/ PassSkipped \/ Finish \/ JoinThread
  PROVE  BlockInv'
<1>1. /\ th' = th /\ refs' = refs /\ permits' = permits /\ archive' = archive /\ current' = current
      /\ mixer' \in {mixer, "none", "main"} /\ ret' \in {ret, "ok", "fail"}
  BY DEF PassOver, EnterMixer, NotOpened, PassSkipped, Finish, JoinThread, Return
<1> QED
  BY <1>1, RestStays, BlocksStay DEF BlockInv

\* A directory or an item that is copied.
LEMMA StoreOtherBlocks ==
  ASSUME BlockInv, ZipInv, StoreOther
  PROVE  BlockInv'
<1>1. itemIndex \in Index
  BY StoringIsBehind DEF StoreOther
<1>2. th' = th /\ refs' = refs /\ permits' = permits /\ mixer' = mixer /\ ret' \in {ret, "fail"}
  BY DEF StoreOther, Return
<1>3. <<>> \in Seq(Piece) /\ [item |-> itemIndex, size |-> 0, data |-> <<>>] \in Entry
  BY <1>1, EmptySeq DEF Entry
<1>4. archive' \in Seq(Entry) /\ current' \in Seq(Piece)
  <2>1. archive \in Seq(Entry) /\ current \in Seq(Piece)
    BY DEF BlockInv, PiecesAreTyped
  <2> DEFINE e == [item |-> itemIndex, size |-> 0, data |-> <<>>]
  <2>2. archive' = Append(archive, e) \/ archive' = archive
    BY DEF StoreOther, WriteLocalHeader
  <2>3. current' = <<>> \/ current' = current
    BY DEF StoreOther, WriteLocalHeader
  <2>4. e \in Entry
    BY <1>3
  <2> HIDE DEF e
  <2>5. Append(archive, e) \in Seq(Entry)
    BY <2>1, <2>4, AppendProperties
  <2> QED
    BY <1>3, <2>1, <2>2, <2>3, <2>5
<1>5. RestIsTyped
  BY <1>2, <1>4 DEF RestIsTyped, BlockInv, PiecesAreTyped
<1> QED
  BY <1>2, <1>5, BlocksStay

\* A thread is created, told to write to the archive or told to stop.
LEMMA EventBlocks ==
  ASSUME BlockInv, ZipInv, CreateThread \/ SetRealStreamMode \/ StopThread
  PROVE  BlockInv'
<1>1. /\ refs' = refs /\ permits' = permits /\ archive' = archive /\ current' = current
      /\ mixer' \in {mixer, "none", "main"} /\ ret' \in {ret, "ok", "fail"}
  BY DEF CreateThread, SetRealStreamMode, StopThread, Return, mainVars
<1>2. RestIsTyped /\ permits \in Nat /\ th \in [Thread -> ThreadState]
  BY <1>1, RestStays DEF BlockInv, BlocksAreCounted, PiecesAreTyped
<1>3. ASSUME NEW t \in Thread, NEW new \in ThreadState, new.blocks = th[t].blocks,
             new.item = th[t].item, th' = [th EXCEPT ![t] = new],
             new.pc \in {"attempt", "write", "report"} \/ (new.compress /\ ~new.exit) =>
               th[t].pc \in {"attempt", "write", "report"} \/ (th[t].compress /\ ~th[t].exit)
      PROVE  BlockInv'
  <2>1. HasItsFile(new)
    BY <1>3, ThreadsHaveFiles DEF HasItsFile, BlockInv
  <2> QED
    BY <1>1, <1>2, <1>3, <2>1, ThreadMoves
<1>4. CASE CreateThread
  <2> DEFINE t == Min({u \in Thread : th[u].pc = "none"})
             new == [th[t] EXCEPT !.pc = "idle"]
  <2>1. th' = th \/ th' = [th EXCEPT ![t] = new]
    BY <1>4 DEF CreateThread
  <2> HIDE DEF t
  <2>2. CASE th' = th
    BY <1>1, <1>2, <2>2, BlocksStay
  <2>3. CASE th' = [th EXCEPT ![t] = new] /\ t \in Thread
    <3>1. th[t] \in ThreadState
      BY <1>2, <2>3
    <3>2. new \in ThreadState
      BY <3>1 DEF ThreadState
    <3>3. /\ new.blocks = th[t].blocks /\ new.item = th[t].item /\ new.pc = "idle"
          /\ new.compress = th[t].compress /\ new.exit = th[t].exit
      BY <3>1 DEF ThreadState
    <3> HIDE DEF new
    <3> QED
      BY <1>3, <2>3, <3>2, <3>3
  <2>4. CASE th' = [th EXCEPT ![t] = new] /\ t \notin Thread
    <3>1. th' = th
      BY <1>2, <2>4
    <3> QED
      BY <2>2, <3>1
  <2> QED
    BY <2>1, <2>2, <2>3, <2>4
<1>5. CASE SetRealStreamMode
  <2> DEFINE t == FrontThread
             new == [th[t] EXCEPT !.sent = TRUE, !.toReal = TRUE]
  <2>1. t \in Thread
    BY <1>5, FrontHasTheTurn DEF SetRealStreamMode
  <2> HIDE DEF t
  <2>2. th[t] \in ThreadState
    BY <1>2, <2>1
  <2>3. th' = [th EXCEPT ![t] = new]
    BY <1>5, <2>1, <1>2, <2>2 DEF t, SetRealStreamMode, ThreadState
  <2>4. new \in ThreadState
    BY <2>2 DEF ThreadState
  <2>5. /\ new.blocks = th[t].blocks /\ new.item = th[t].item /\ new.pc = th[t].pc
        /\ new.compress = th[t].compress /\ new.exit = th[t].exit
    BY <2>2 DEF ThreadState
  <2> HIDE DEF new
  <2> QED
    BY <1>3, <2>1, <2>3, <2>4, <2>5
<1>6. CASE StopThread
  <2> DEFINE t == joined + 1
             new == [th[t] EXCEPT !.exit = TRUE, !.stop = TRUE, !.compress = TRUE]
  <2>1. t \in Thread
    <3>1. Types /\ mpc = "stop"
      BY <1>6 DEF ZipInv, StopThread
    <3> QED
      BY <3>1, Numbers DEF Types, Thread
  <2> HIDE DEF t
  <2>2. th[t] \in ThreadState
    BY <1>2, <2>1
  <2>3. th' = [th EXCEPT ![t] = new]
    BY <1>6, <2>1, <1>2, <2>2 DEF t, StopThread, ThreadState
  <2>4. new \in ThreadState
    BY <2>2 DEF ThreadState
  <2>5. /\ new.blocks = th[t].blocks /\ new.item = th[t].item /\ new.pc = th[t].pc
        /\ new.exit = TRUE
    BY <2>2 DEF ThreadState
  <2> HIDE DEF new
  <2> QED
    BY <1>3, <2>1, <2>3, <2>4, <2>5
<1> QED
  BY <1>4, <1>5, <1>6

\* The thread that gets a file gives back the blocks of the last one.
LEMMA OpenedBlocks ==
  ASSUME BlockInv, ZipInv, Opened
  PROVE  BlockInv'
<1> DEFINE idle == {u \in Thread : th[u].free}
           t == Min(idle)
           new == [th[t] EXCEPT !.free = FALSE, !.item = mtItemIndex,
              !.compress = TRUE, !.toReal = FALSE, !.sent = FALSE, !.real = FALSE,
              !.blocks = <<>>, !.total = 0, !.pos = 0]
<1>1. /\ th' = [th EXCEPT ![t] = new] /\ permits' = permits + Len(th[t].blocks)
      /\ refs' = refs /\ archive' = archive /\ current' = current /\ ret' = ret /\ mixer' = "none"
      /\ mpc = "open" /\ Running
  BY DEF Opened, Running
<1>2. mtItemIndex \in Index /\ Len(threadIndices) < NumThreads /\ Types
  BY <1>1 DEF ZipInv, WorkIsInOrder
<1>3. t \in idle
  <2>1. idle \subseteq Nat /\ idle # {}
    BY <1>1, <1>2, OneIsFree, Numbers
  <2> HIDE DEF idle
  <2> QED
    BY <2>1, MinIsIn
<1>4. t \in Thread
  BY <1>3
<1> HIDE DEF t, idle
<1>5. th[t] \in ThreadState /\ Len(th[t].blocks) \in Nat /\ permits \in Nat
  BY <1>4, ThreadsHaveFiles DEF BlockInv, BlocksAreCounted
<1>6. <<>> \in Seq(Piece) /\ Len(<<>>) = 0
  BY EmptySeq
<1>7. new \in ThreadState
  BY <1>2, <1>5, <1>6 DEF ThreadState
<1>8. new.item = mtItemIndex /\ new.blocks = <<>>
  BY <1>5 DEF ThreadState
<1> HIDE DEF new
<1>9. HasItsFile(new)
  BY <1>2, <1>7, <1>8 DEF HasItsFile
<1>10. permits' \in Nat /\ permits' + Len(new.blocks) = permits + Len(th[t].blocks)
  BY <1>1, <1>5, <1>6, <1>8
<1>11. RestIsTyped
  BY <1>1, RestStays DEF BlockInv
<1> QED
  BY <1>1, <1>4, <1>9, <1>10, <1>11, ThreadMoves

\* What Update2 does with the blocks that are kept of a file.
LEMMA KeptBlocks ==
  ASSUME BlockInv, ZipInv, Skip \/ StoreDetached
  PROVE  BlockInv'
<1>1. permits \in Nat /\ refs \in [Index -> Kept] /\ th \in [Thread -> ThreadState] /\ Types
  BY DEF BlockInv, BlocksAreCounted, PiecesAreTyped, ZipInv
<1>2. 1 \in Thread /\ th' = th /\ th' = [th EXCEPT ![1] = th[1]]
  BY <1>1, ZipAssumption DEF Thread, Skip, StoreDetached
<1>3. HasItsFile(th[1]) /\ Len(th[1].blocks) \in Nat /\ <<>> \in Seq(Piece) /\ Len(<<>>) = 0
  BY <1>2, ThreadsHaveFiles, EmptySeq DEF BlockInv
<1>4. CASE Skip
  <2> DEFINE j == mtItemIndex
             kept == [refs[j] EXCEPT !.state = "skip"]
  <2>1. Running /\ mpc \in {"open", "enter"}
    BY <1>4 DEF Skip, Running
  <2>2. j \in Index /\ refs[j].state = "none"
    BY <1>1, <2>1, Numbers DEF ZipInv, WorkIsInOrder
  <2>3. refs[j].data = <<>> /\ refs[j] \in Kept
    BY <1>1, <2>2 DEF BlockInv, PiecesAreTyped
  <2>4. refs' = [refs EXCEPT ![j] = kept] /\ permits' = permits
    BY <1>1, <1>4, <2>3 DEF Skip, Kept
  <2>5. kept \in Kept /\ kept.data = <<>>
    BY <2>3 DEF Kept
  <2>6. RestIsTyped
    BY <1>4, RestStays DEF Skip, BlockInv
  <2> HIDE DEF j, kept
  <2>7. permits' \in Nat /\ permits' + Len(th[1].blocks) + Len(kept.data)
                              = permits + Len(th[1].blocks) + Len(refs[j].data)
    BY <1>1, <1>3, <2>3, <2>4, <2>5
  <2> QED
    BY <1>2, <1>3, <2>2, <2>4, <2>5, <2>6, <2>7, KeptMoves
<1>5. CASE StoreDetached
  <2> DEFINE j == itemIndex
  <2>1. j \in Index
    BY <1>5, StoringIsBehind DEF StoreDetached
  <2>2. refs[j] \in Kept /\ refs[j].data \in Seq(Piece) /\ Len(refs[j].data) \in Nat /\ refs[j].size \in Nat
    BY <1>1, <2>1, LenProperties DEF Kept
  <2>3. PICK data \in {refs[j].data, <<>>} : WriteLocalHeader(data, refs[j].size)
    BY <1>5 DEF StoreDetached
  <2>4. archive' \in Seq(Entry) /\ current' \in Seq(Piece)
    <3>1. [item |-> itemIndex, size |-> refs[j].size, data |-> data] \in Entry
      BY <1>3, <2>1, <2>2, <2>3 DEF Entry
    <3> QED
      BY <1>3, <2>3, <3>1 DEF WriteLocalHeader, BlockInv, PiecesAreTyped
  <2>5. RestIsTyped
    BY <1>5, <2>4 DEF StoreDetached, RestIsTyped, BlockInv, PiecesAreTyped
  <2>6. refs' = [refs EXCEPT ![j] = nothing] /\ permits' = permits + Len(refs[j].data)
    BY <1>5 DEF StoreDetached
  <2>8. nothing \in Kept /\ nothing.data = <<>>
    BY <1>3 DEF nothing, Kept
  <2> DEFINE kept == nothing
             d == Len(refs[j].data)
             m == Len(th[1].blocks)
             q == permits'
  <2>9. kept \in Kept /\ kept.data = <<>> /\ Len(kept.data) = 0 /\ refs' = [refs EXCEPT ![j] = kept]
    BY <1>3, <2>6, <2>8
  <2>10. d \in Nat /\ m \in Nat /\ q = permits + d
    BY <1>3, <2>2, <2>6
  <2> HIDE DEF kept, d, m, q
  <2>11. q \in Nat /\ q + m + 0 = permits + m + d
    BY <1>1, <2>10
  <2>7. permits' \in Nat /\ permits' + Len(th[1].blocks) + Len(kept.data)
                              = permits + Len(th[1].blocks) + Len(refs[j].data)
    BY <2>9, <2>11 DEF d, m, q
  <2> HIDE DEF j
  <2> QED
    BY <1>2, <1>3, <2>1, <2>5, <2>7, <2>9, KeptMoves
<1> QED
  BY <1>4, <1>5

\* A file is ready.
LEMMA WaitCompletedBlocks ==
  ASSUME BlockInv, ZipInv, WaitCompleted
  PROVE  BlockInv'
<1>1. Types /\ TotalFits /\ WorkIsInOrder /\ Storing /\ Waiting /\ Ready # {}
  BY DEF ZipInv, WaitCompleted, Waiting
<1>2. Running /\ itemIndex \in Index
  BY <1>1, StoringIsBehind
<1>3. Ready \subseteq InWork /\ InWork \subseteq Nat
  BY SMTT(30), <1>1, Numbers DEF Ready, InWork, Types
<1>4. PICK j : j = Min(Ready)
  OBVIOUS
<1>5. j \in Ready
  BY <1>1, <1>3, <1>4, MinIsIn
<1>6. PICK t : t = threadIndices[j]
  OBVIOUS
<1>7. t \in Thread /\ ~th[t].free
  BY <1>1, <1>2, <1>3, <1>5, <1>6, Numbers DEF WorkIsInOrder
<1>8. th[t].item \in Index /\ refs[th[t].item].state = "none"
  BY <1>2, <1>7, WorkersHaveFiles
<1> DEFINE r == th[t]
           i == r.item
           done == [r EXCEPT !.completed = FALSE, !.free = TRUE]
           emptied == [done EXCEPT !.blocks = <<>>, !.total = 0]
           data == Written(r.blocks, r.total)
           kept == [state |-> "defined", size |-> r.pos, data |-> data]
<1>9. \/ th' = [th EXCEPT ![t] = done] /\ UNCHANGED <<refs, archive, current, permits>>
         /\ ret' = "fail"
      \/ /\ th' = [th EXCEPT ![t] = emptied] /\ permits' = permits + Len(r.blocks)
         /\ UNCHANGED refs /\ WriteLocalHeader(current \o data, r.pos) /\ ret' = ret
      \/ /\ th' = [th EXCEPT ![t] = emptied] /\ permits' = permits + Surplus(r.blocks, r.total)
         /\ refs' = [refs EXCEPT ![i] = kept] /\ UNCHANGED <<archive, current>> /\ ret' = ret
  BY <1>4, <1>6 DEF WaitCompleted, Return
<1>10. mixer' = mixer
  BY DEF WaitCompleted
<1>11. /\ r \in ThreadState /\ HasItsFile(r) /\ r.blocks \in Seq(Piece) /\ Len(r.blocks) \in Nat
       /\ r.total \in Nat /\ r.pos \in Nat /\ r.total <= Len(r.blocks) /\ permits \in Nat
       /\ current \in Seq(Piece)
  BY <1>1, <1>7, ThreadsHaveFiles DEF BlockInv, BlocksAreCounted, PiecesAreTyped, TotalFits
<1>12. data \in Seq(Piece) /\ Len(data) = r.total
  BY <1>11, WrittenIsTyped
<1>13. <<>> \in Seq(Piece) /\ Len(<<>>) = 0
  BY EmptySeq
<1>14. HasItsFile(done) /\ done.blocks = r.blocks /\ done \in ThreadState
  <2>1. done \in ThreadState
    BY <1>11 DEF ThreadState
  <2>2. done.item = i /\ done.blocks = r.blocks
    BY <1>11 DEF ThreadState
  <2> HIDE DEF done
  <2> QED
    BY <1>8, <2>1, <2>2 DEF HasItsFile
<1> HIDE DEF data
<1>15. HasItsFile(emptied) /\ emptied.blocks = <<>>
  <2> HIDE DEF done
  <2>1. emptied \in ThreadState
    BY <1>13, <1>14 DEF ThreadState
  <2>2. emptied.item = done.item /\ emptied.blocks = <<>>
    BY <1>14 DEF ThreadState
  <2>3. done.item = i
    BY <1>11 DEF done, ThreadState
  <2> HIDE DEF emptied
  <2> QED
    BY <1>8, <2>1, <2>2, <2>3 DEF HasItsFile
<1> HIDE DEF done, emptied
<1>16. CASE th' = [th EXCEPT ![t] = done] /\ UNCHANGED <<refs, archive, current, permits>>
            /\ ret' = "fail"
  <2>1. RestIsTyped
    BY <1>10, <1>16, RestStays DEF BlockInv
  <2>2. permits' \in Nat /\ permits' + Len(done.blocks) = permits + Len(r.blocks)
    BY <1>11, <1>14, <1>16
  <2> QED
    BY <1>7, <1>14, <1>16, <2>1, <2>2, ThreadMoves
<1>17. CASE /\ th' = [th EXCEPT ![t] = emptied] /\ permits' = permits + Len(r.blocks)
            /\ UNCHANGED refs /\ WriteLocalHeader(current \o data, r.pos) /\ ret' = ret
  <2>1. current \o data \in Seq(Piece)
    BY <1>11, <1>12, ConcatProperties
  <2>2. [item |-> itemIndex, size |-> r.pos, data |-> current \o data] \in Entry
    BY <1>2, <1>11, <2>1 DEF Entry
  <2>3. RestIsTyped
    BY <1>10, <1>13, <1>17, <2>2 DEF WriteLocalHeader, RestIsTyped, BlockInv, PiecesAreTyped
  <2>4. permits' \in Nat /\ permits' + Len(emptied.blocks) = permits + Len(r.blocks)
    BY <1>11, <1>13, <1>15, <1>17
  <2> QED
    BY <1>7, <1>15, <1>17, <2>3, <2>4, ThreadMoves
<1>18. CASE /\ th' = [th EXCEPT ![t] = emptied] /\ permits' = permits + Surplus(r.blocks, r.total)
            /\ refs' = [refs EXCEPT ![i] = kept] /\ UNCHANGED <<archive, current>> /\ ret' = ret
  <2>1. RestIsTyped
    BY <1>10, <1>18, RestStays DEF BlockInv
  <2>2. kept \in Kept /\ kept.state = "defined" /\ kept.data = data
    BY <1>11, <1>12 DEF Kept
  <2>3. refs[i].data = <<>>
    BY <1>8 DEF BlockInv, PiecesAreTyped
  <2>4. permits' \in Nat /\ permits' = permits + (Len(r.blocks) - r.total)
    BY SMTT(30), <1>11, <1>18 DEF Surplus
  <2>5. Len(emptied.blocks) = 0 /\ Len(kept.data) = r.total /\ Len(refs[i].data) = 0
    BY <1>12, <1>13, <1>15, <2>2, <2>3
  <2> HIDE DEF kept
  <2>6. permits' + Len(emptied.blocks) + Len(kept.data)
          = permits + Len(r.blocks) + Len(refs[i].data)
    BY SMTT(30), <1>11, <2>4, <2>5
  <2> QED
    BY <1>7, <1>8, <1>15, <1>18, <2>1, <2>2, <2>4, <2>6, KeptMoves
<1> QED
  BY <1>9, <1>16, <1>17, <1>18

LEMMA StepBlocks == ZipInv /\ BlockInv /\ [Next]_vars => BlockInv'
<1> SUFFICES ASSUME ZipInv, BlockInv, [Next]_vars PROVE BlockInv'
  OBVIOUS
<1>1. CASE MainNext
  BY <1>1, QuietBlocks, StoreOtherBlocks, EventBlocks, OpenedBlocks, KeptBlocks, WaitCompletedBlocks
  DEF MainNext
<1>2. CASE \E t \in Thread : ThreadNext(t)
  <2>1. TotalFits
    BY DEF ZipInv
  <2> QED
    BY <1>2, <2>1, StoreBlocks, CompressBlocks DEF ThreadNext, Proceed
<1>3. CASE UNCHANGED vars
  <2>1. /\ th' = th /\ refs' = refs /\ permits' = permits /\ archive' = archive
        /\ current' = current /\ mixer' = mixer /\ ret' = ret
    BY <1>3 DEF vars, mainVars
  <2> QED
    BY <2>1, RestStays, BlocksStay DEF BlockInv
<1> QED
  BY <1>1, <1>2, <1>3 DEF Next, Terminating

\* The blocks of the pool: those that are free, that the threads have and that are
\* kept for later files are all there are, at any number of threads and blocks and
\* whatever fails; no block is lost or given back twice, neither when an attempt is
\* done again over the blocks of the one before, nor when Detach gives back those
\* behind the end of the file.
THEOREM PoolIsComplete == Spec => []NoBlockLost
<1>1. ZipInv /\ BlockInv => NoBlockLost
  <2> SUFFICES ASSUME ZipInv, BlockInv PROVE NoBlockLost
    OBVIOUS
  <2>1. /\ Types /\ PiecesAreTyped /\ permits \in Nat /\ PoolBlocks \in Nat
        /\ permits + Sum(BlocksOf, Thread) + Sum(BlocksKept, Index) = PoolBlocks
    BY ZipAssumption DEF ZipInv, BlockInv, BlocksAreCounted
  <2>2. Sum(BlocksOf, Thread) \in Nat /\ Sum(BlocksKept, Index) \in Nat
        /\ BlocksOf \in [Thread -> Nat] /\ BlocksKept \in [Index -> Nat]
    BY <2>1, BlockTypes
  <2>3. permits \in 0..PoolBlocks
    BY <2>1, <2>2
  <2>4. TypeOK
    BY <2>1, <2>3 DEF Types, PiecesAreTyped, TypeOK
  <2>5. permits + MapThenSumSet(LAMBDA t : Len(th[t].blocks), Thread)
          + MapThenSumSet(LAMBDA i : Len(refs[i].data), Index)
            = permits + Sum(BlocksOf, Thread) + Sum(BlocksKept, Index)
    BY <2>2, ThreadSum, KeptSum, Zenon
  <2> QED
    BY <2>1, <2>4, <2>5, Zenon DEF NoBlockLost
<1>2. Init => ZipInv /\ BlockInv
  BY InitInv, InitBlocks
<1>3. ZipInv /\ BlockInv /\ [Next]_vars => (ZipInv /\ BlockInv)'
  BY StepInv, StepBlocks
<1> QED
  BY <1>1, <1>2, <1>3, PTL DEF Spec

-----------------------------------------------------------------------------
(* The stream binder.                                                       *)

\* Appending the next n bytes to the first m ones gives the first m + n.
LEMMA AppendBytes ==
  ASSUME NEW m \in Nat, NEW n \in Nat, NEW s \in Seq(Nat),
         Len(s) = m, s = [i \in 1..m |-> i]
  PROVE  /\ s \o [i \in 1..n |-> m + i] \in Seq(Nat)
         /\ Len(s \o [i \in 1..n |-> m + i]) = m + n
         /\ s \o [i \in 1..n |-> m + i] = [i \in 1..(m + n) |-> i]
<1> DEFINE u == [i \in 1..n |-> m + i]
           t == s \o u
<1>1. u \in Seq(Nat) /\ Len(u) = n
  OBVIOUS
<1>2. t \in Seq(Nat) /\ Len(t) = m + n
  BY <1>1
<1>3. \A i \in 1..(m + n) : t[i] = i
  BY <1>1
<1> QED
  BY <1>2, <1>3

LEMMA BinderInit == B!Init => B!BinderInv
<1> SUFFICES ASSUME B!Init PROVE B!BinderInv
  OBVIOUS
<1>1. B!ProcessedSize = 0 /\ bReceived \in Seq(Nat)
  BY DEF B!Init, B!ProcessedSize
<1>2. B!InOrder
  BY <1>1 DEF B!Init, B!InOrder
<1>3. /\ bOffered \in 0..MaxBytes /\ bSize \in 0..MaxWrite /\ bSizeToRead \in 0..MaxRead
      /\ bBuffer \in Nat /\ bBufferSize \in Nat
  BY BinderAssumption DEF B!Init
<1>4. /\ bResult \in {"S_OK", "S_FALSE"} /\ bWpc \in B!WriterAt /\ bRpc \in B!ReaderAt
      /\ bThereAreBytesToRead \in BOOLEAN /\ bAllBytesAreWritten \in BOOLEAN
      /\ bReadStreamIsClosed \in BOOLEAN
  BY DEF B!Init, B!WriterAt, B!ReaderAt
<1>5. B!Phase
  BY <1>1 DEF B!Init, B!Phase, B!Drained
<1> QED
  BY <1>1, <1>2, <1>3, <1>4, <1>5 DEF B!Init, B!BinderInv, B!TypeOK

\* A step that delivers no byte changes neither the number nor the order.
LEMMA SameBytes ==
  ASSUME B!TypeOK, B!InOrder, bReceived' = bReceived
  PROVE  /\ B!ProcessedSize \in Nat
         /\ B!ProcessedSize' = B!ProcessedSize
         /\ B!InOrder'
BY DEF B!TypeOK, B!InOrder, B!ProcessedSize

\* Each step of each thread preserves the invariant.
LEMMA BinderStep ==
  ASSUME B!BinderInv, [B!Next]_(B!vars)
  PROVE  B!BinderInv'
<1> USE BinderAssumption
    DEF B!BinderInv, B!TypeOK, B!WriterAt, B!ReaderAt, B!Phase, B!Abandoned, B!Remaining, B!Drained,
        B!events, B!writerVars, B!readerVars
<1>1. ASSUME NEW n \in 1..MaxWrite, B!Write(n) PROVE B!BinderInv'
  BY <1>1, SameBytes DEF B!Write
<1>2. ASSUME B!StoreBuffer PROVE B!BinderInv'
  BY <1>2, SameBytes DEF B!StoreBuffer
<1>3. ASSUME B!ResetAllBytesAreWritten PROVE B!BinderInv'
  BY <1>3, SameBytes DEF B!ResetAllBytesAreWritten
<1>4. ASSUME B!SetThereAreBytesToRead PROVE B!BinderInv'
  BY <1>4, SameBytes DEF B!SetThereAreBytesToRead
<1>5. ASSUME B!WriteSucceeds PROVE B!BinderInv'
  BY <1>5, SameBytes DEF B!WriteSucceeds
<1>6. ASSUME B!WriteFails PROVE B!BinderInv'
  BY <1>6, SameBytes DEF B!WriteFails
<1>7. ASSUME B!CloseWrite PROVE B!BinderInv'
  BY <1>7, SameBytes DEF B!CloseWrite
<1>8. ASSUME NEW n \in 1..MaxRead, B!Read(n) PROVE B!BinderInv'
  BY <1>8, SameBytes DEF B!Read
<1>9. ASSUME B!LockThereAreBytesToRead PROVE B!BinderInv'
  BY <1>9, SameBytes DEF B!LockThereAreBytesToRead
<1>10. ASSUME B!CopyBytes PROVE B!BinderInv'
  <2> DEFINE n == IF bBufferSize < bSizeToRead THEN bBufferSize ELSE bSizeToRead
  <2>1. n \in Nat /\ B!ProcessedSize \in Nat
    BY DEF B!ProcessedSize
  <2>2. CASE bWpc = "wait"
    <3>1. B!Remaining /\ bBufferSize > 0 /\ n > 0 /\ n <= bBufferSize
      BY <1>10, <2>2 DEF B!CopyBytes
    <3>2. bReceived' = bReceived \o [i \in 1..n |-> B!ProcessedSize + i]
      BY <1>10, <3>1 DEF B!CopyBytes
    <3>3. /\ bReceived' \in Seq(Nat)
          /\ B!ProcessedSize' = B!ProcessedSize + n
          /\ B!InOrder'
      <4> HIDE DEF n
      <4>1. bReceived \in Seq(Nat) /\ Len(bReceived) = B!ProcessedSize
        BY DEF B!ProcessedSize
      <4>2. bReceived = [i \in 1..B!ProcessedSize |-> i]
        BY DEF B!InOrder
      <4>3. /\ bReceived' \in Seq(Nat)
            /\ Len(bReceived') = B!ProcessedSize + n
            /\ bReceived' = [i \in 1..(B!ProcessedSize + n) |-> i]
        BY <2>1, <3>2, <4>1, <4>2, AppendBytes
      <4> QED
        BY <4>3 DEF B!ProcessedSize, B!InOrder
    <3>4. /\ bRpc = "copy" /\ bRpc' = IF bBufferSize = n THEN "reset" ELSE "idle"
          /\ bBuffer' = bBuffer + n /\ bBufferSize' = bBufferSize - n
          /\ UNCHANGED <<B!events, B!writerVars, bSizeToRead>>
      BY <1>10, <3>1 DEF B!CopyBytes
    <3> HIDE DEF n
    <3>5. IF bBufferSize = n THEN B!Drained' ELSE B!Remaining' /\ bBufferSize' > 0
      BY <2>1, <3>1, <3>3, <3>4
    <3> QED
      BY <2>1, <2>2, <3>1, <3>3, <3>4, <3>5
  <2>3. CASE bWpc # "wait"
    <3>1. bWpc = "closed" /\ B!Drained /\ n = 0
      BY <1>10, <2>3 DEF B!CopyBytes
    <3>2. bReceived' = bReceived
      BY <1>10, <2>1, <3>1 DEF B!CopyBytes
    <3>3. /\ UNCHANGED <<B!events, B!writerVars, bBuffer, bBufferSize, bSizeToRead>>
          /\ bRpc = "copy" /\ bRpc' = "idle"
      <4>1. /\ bBufferSize' = bBufferSize - n /\ bBuffer' = bBuffer + n
            /\ bRpc = "copy"
            /\ bRpc' = IF bBufferSize > 0 /\ bBufferSize = n THEN "reset" ELSE "idle"
            /\ UNCHANGED <<B!events, B!writerVars, bSizeToRead>>
        BY <1>10 DEF B!CopyBytes
      <4> HIDE DEF n
      <4> QED
        BY <3>1, <4>1
    <3> HIDE DEF n
    <3> QED
      BY <3>1, <3>2, <3>3, SameBytes
  <2> QED
    BY <2>2, <2>3
<1>11. ASSUME B!ResetThereAreBytesToRead PROVE B!BinderInv'
  BY <1>11, SameBytes DEF B!ResetThereAreBytesToRead
<1>12. ASSUME B!SetAllBytesAreWritten PROVE B!BinderInv'
  BY <1>12, SameBytes DEF B!SetAllBytesAreWritten
<1>13. ASSUME B!CloseRead PROVE B!BinderInv'
  BY <1>13, SameBytes DEF B!CloseRead
<1>14. ASSUME B!ReInit PROVE B!BinderInv'
  <2>1. B!ProcessedSize' = 0 /\ B!InOrder' /\ bReceived' \in Seq(Nat)
    BY <1>14 DEF B!ReInit, B!ProcessedSize, B!InOrder
  <2>2. B!TypeOK'
    <3>1. (bBuffer \in Nat /\ bBufferSize \in Nat)'
      BY <1>14, <2>1 DEF B!ReInit
    <3>2. (bOffered \in 0..MaxBytes)'
      BY <1>14, <2>1 DEF B!ReInit
    <3>3. (bSize \in 0..MaxWrite)'
      BY <1>14, <2>1 DEF B!ReInit
    <3>4. (bSizeToRead \in 0..MaxRead)'
      BY <1>14, <2>1 DEF B!ReInit
    <3>5. (bResult \in {"S_OK", "S_FALSE"} /\ bWpc \in B!WriterAt /\ bRpc \in B!ReaderAt)'
      BY <1>14, <2>1 DEF B!ReInit
    <3>6. (bThereAreBytesToRead \in BOOLEAN /\ bAllBytesAreWritten \in BOOLEAN)'
      BY <1>14, <2>1 DEF B!ReInit
    <3>7. (bReadStreamIsClosed \in BOOLEAN)'
      BY <1>14, <2>1 DEF B!ReInit
    <3> QED
     BY <2>1, <3>1, <3>2, <3>3, <3>4, <3>5, <3>6, <3>7
  <2>3. B!Drained' /\ ~bThereAreBytesToRead' /\ bWpc' = "idle" /\ bRpc' = "idle"
    BY <1>14, <2>1 DEF B!ReInit
  <2> QED
    BY <1>14, <2>1, <2>2, <2>3 DEF B!ReInit
<1>15. CASE UNCHANGED B!vars
  BY <1>15, SameBytes DEF B!vars
<1> QED
  BY <1>1, <1>2, <1>3, <1>4, <1>5, <1>6, <1>7, <1>8, <1>9, <1>10, <1>11, <1>12, <1>13, <1>14, <1>15
  DEF B!Next, B!WriterStep, B!ReaderStep
THEOREM BinderInvariant == B!Spec => []B!BinderInv
BY BinderInit, BinderStep, PTL DEF B!Spec

\* The types; in particular _bufferSize, a UInt32, never passes below zero.
THEOREM BinderTypeCorrect == B!Spec => []B!TypeOK
<1>1. B!BinderInv => B!TypeOK
  BY DEF B!BinderInv
<1> QED
  BY <1>1, BinderInvariant, PTL

\* Read copies only from the memory of a Write that has not returned, and
\* only bytes that it has not delivered before.
THEOREM BufferIsAlwaysValid == B!Spec => []B!BufferIsValid
<1>1. B!BinderInv => B!BufferIsValid
  BY DEF B!BinderInv, B!Phase, B!Drained, B!Remaining, B!BufferIsValid, B!TypeOK
<1> QED
  BY <1>1, BinderInvariant, PTL

\* The comment of StreamBinder.cpp:52 is right: past the event, an empty
\* buffer means the end of the stream.
THEOREM EmptyAlwaysMeansFinished == B!Spec => []B!EmptyMeansFinished
<1>1. B!BinderInv => B!EmptyMeansFinished
  BY DEF B!BinderInv, B!Phase, B!Drained, B!Remaining, B!EmptyMeansFinished, B!TypeOK
<1> QED
  BY <1>1, BinderInvariant, PTL

\* CStreamBinder implements a rendezvous pipe.  The invariant supplies, for
\* each return of Write and of Read, what the other side has done.
THEOREM BinderRefinesPipe == B!Spec => B!ImplementsPipe
<1> USE DEF B!ProcessedSize
<1>1. B!Init => B!P!Init
  BY DEF B!Init, B!P!Init, B!writerBar, B!readerBar
<1>2. B!BinderInv /\ [B!Next]_(B!vars) => [B!P!Next]_(B!P!pipeVars)
  <2> SUFFICES ASSUME B!BinderInv, [B!Next]_(B!vars)
               PROVE  B!P!Next \/ UNCHANGED B!P!pipeVars
    OBVIOUS
  <2> USE DEF B!writerBar, B!readerBar, B!events, B!writerVars, B!readerVars
  <2>1. ASSUME NEW n \in 1..MaxWrite, B!Write(n) PROVE B!P!BeginWrite(n)
    BY <2>1 DEF B!Write, B!P!BeginWrite
  <2>2. ASSUME B!StoreBuffer \/ B!ResetAllBytesAreWritten \/ B!SetThereAreBytesToRead
        PROVE  UNCHANGED B!P!pipeVars
    BY <2>2 DEF B!StoreBuffer, B!ResetAllBytesAreWritten, B!SetThereAreBytesToRead, B!P!pipeVars
  <2>3. ASSUME B!WriteSucceeds PROVE B!P!WriteSucceeds
    BY <2>3 DEF B!WriteSucceeds, B!P!WriteSucceeds, B!BinderInv, B!Phase, B!Abandoned, B!Drained
  <2>4. ASSUME B!WriteFails PROVE B!P!WriteFails
    <3>1. B!ProcessedSize \in Nat /\ bOffered \in Nat
      BY BinderAssumption DEF B!BinderInv, B!TypeOK
    <3> QED
      BY <2>4, <3>1 DEF B!WriteFails, B!P!WriteFails, B!BinderInv, B!Abandoned
  <2>5. ASSUME B!CloseWrite PROVE B!P!CloseWrite
    BY <2>5 DEF B!CloseWrite, B!P!CloseWrite
  <2>6. ASSUME NEW n \in 1..MaxRead, B!Read(n) PROVE B!P!BeginRead
    BY <2>6 DEF B!Read, B!P!BeginRead
  <2>7. ASSUME B!LockThereAreBytesToRead PROVE UNCHANGED B!P!pipeVars
    BY <2>7 DEF B!LockThereAreBytesToRead, B!P!pipeVars
  <2>8. ASSUME B!CopyBytes PROVE B!P!EndOfStream \/ \E n \in 1..MaxRead : B!P!Deliver(n)
    <3> DEFINE n == IF bBufferSize < bSizeToRead THEN bBufferSize ELSE bSizeToRead
    <3>1. /\ bRpc = "copy" /\ bRpc' # "closed" /\ bRpc' \notin {"lock", "copy"}
          /\ bReceived' = bReceived \o [i \in 1..n |-> bBuffer + i]
          /\ UNCHANGED <<bWpc, bResult, bOffered>>
      BY <2>8 DEF B!CopyBytes
    <3>2. CASE bWpc = "wait"
      <4>1. B!Remaining /\ n \in 1..MaxRead /\ n <= bBufferSize
        BY <2>8, <3>2, BinderAssumption DEF B!CopyBytes, B!BinderInv, B!TypeOK, B!Phase
      <4>2. B!ProcessedSize \in Nat /\ bBufferSize \in Nat
        BY DEF B!BinderInv, B!TypeOK
      <4> HIDE DEF n
      <4>3. B!P!Deliver(n)
        BY <3>1, <3>2, <4>1, <4>2 DEF B!Remaining, B!P!Deliver
      <4> QED
        BY <4>1, <4>3
    <3>3. CASE bWpc # "wait"
      <4>1. bWpc = "closed" /\ B!Drained /\ n = 0 /\ bBuffer \in Nat
        BY <2>8, <3>3, BinderAssumption DEF B!CopyBytes, B!BinderInv, B!TypeOK, B!Phase, B!Drained
      <4>2. bReceived \in Seq(Nat)
        BY DEF B!BinderInv, B!TypeOK
      <4> HIDE DEF n
      <4>3. bReceived' = bReceived
        BY <3>1, <4>1, <4>2
      <4> QED
        BY <3>1, <4>1, <4>3 DEF B!Drained, B!P!EndOfStream
    <3> QED
      BY <3>2, <3>3
  <2>9. ASSUME B!ResetThereAreBytesToRead \/ B!SetAllBytesAreWritten PROVE UNCHANGED B!P!pipeVars
    BY <2>9 DEF B!ResetThereAreBytesToRead, B!SetAllBytesAreWritten, B!P!pipeVars
  <2>10. ASSUME B!CloseRead PROVE B!P!CloseRead
    BY <2>10 DEF B!CloseRead, B!P!CloseRead
  <2>11. ASSUME B!ReInit PROVE B!P!Restart
    BY <2>11 DEF B!ReInit, B!P!Restart
  <2>12. CASE UNCHANGED B!vars
    BY <2>12 DEF B!vars, B!P!pipeVars
  <2> QED
    BY <2>1, <2>2, <2>3, <2>4, <2>5, <2>6, <2>7, <2>8, <2>9, <2>10, <2>11, <2>12
    DEF B!Next, B!WriterStep, B!ReaderStep, B!P!Next
<1> QED
  BY <1>1, <1>2, BinderInvariant, PTL DEF B!Spec, B!ImplementsPipe, B!P!Spec

-----------------------------------------------------------------------------
(* The folders of a 7z archive.                                             *)

\* A recursion over 1..n has a value.
Follows(g, V, v, n, step) ==
  g \in [0..n -> V] /\ g[0] = v /\ \A i \in 1..n : g[i] = step[i][g[i - 1]]

LEMMA Recursion ==
  ASSUME NEW V, NEW v \in V, NEW n \in Nat, NEW step \in [1..n -> [V -> V]]
  PROVE  \E g : Follows(g, V, v, n, step)
<1> DEFINE Good(g, m) == g \in [0..m -> V] /\ g[0] = v /\ \A i \in 1..m : g[i] = step[i][g[i - 1]]
           S == {m \in Nat : m <= n => \E g : Good(g, m)}
<1>1. 0 \in S
  <2> DEFINE g == [i \in 0..0 |-> v]
  <2>1. Good(g, 0)
    OBVIOUS
  <2> QED
    BY <2>1
<1>2. ASSUME NEW k \in Nat, k \in S PROVE k + 1 \in S
  <2> SUFFICES ASSUME k + 1 <= n PROVE \E g : Good(g, k + 1)
    OBVIOUS
  <2>1. PICK g : Good(g, k)
    BY <1>2
  <2>2. g \in [0..k -> V] /\ g[k] \in V /\ step[k + 1] \in [V -> V]
    BY <2>1
  <2> DEFINE top == step[k + 1][g[k]]
             e == [i \in 0..(k + 1) |-> IF i <= k THEN g[i] ELSE top]
  <2>3. top \in V
    BY <2>2
  <2> HIDE DEF top
  <2>4. e \in [0..(k + 1) -> V] /\ e[0] = v
    BY <2>1, <2>2, <2>3
  <2>5. ASSUME NEW i \in 1..(k + 1) PROVE e[i] = step[i][e[i - 1]]
    <3>1. CASE i \in 1..k
      <4>1. e[i] = g[i] /\ e[i - 1] = g[i - 1]
        BY <3>1
      <4> QED
        BY <2>1, <3>1, <4>1
    <3>2. CASE i = k + 1
      <4>1. e[i] = top /\ e[i - 1] = g[k]
        BY <3>2
      <4> QED
        BY <3>2, <4>1 DEF top
    <3> QED
      BY <3>1, <3>2
  <2>6. Good(e, k + 1)
    BY <2>4, <2>5
  <2> QED
    BY <2>6
<1>3. \A m \in Nat : m \in S
  <2> HIDE DEF S
  <2> QED
    BY <1>1, <1>2, NatInd
<1> QED
  BY <1>3 DEF Follows

\* The files of a folder, and bytes of it.
Byte == Nat \X Nat
NumFiles(f) == Len(rFolders[f])
FileSize(f, i) == rFolders[f][i].size
IsWanted(f, i) == rFolders[f][i].wanted
BytesOf(f, from, n) == [k \in 1..n |-> <<f, from + k>>]

LEMMA FoldersAreTyped ==
  ASSUME rFolders \in Databases, NEW f \in 1..Len(rFolders)
  PROVE  /\ Len(rFolders) \in Nat /\ f \in Nat
         /\ rFolders[f] \in Seq(OldFile) /\ NumFiles(f) \in Nat /\ NumFiles(f) >= 1
         /\ \A i \in 1..NumFiles(f) :
              rFolders[f][i] \in OldFile /\ FileSize(f, i) \in Nat /\ IsWanted(f, i) \in BOOLEAN
<1>1. rFolders \in Seq(Seq(OldFile) \ {<<>>})
  BY RepackAssumption
<1>2. Len(rFolders) \in Nat /\ f \in Nat /\ rFolders[f] \in Seq(OldFile) /\ rFolders[f] # <<>>
  BY <1>1, LenProperties, ElementOfSeq
<1>3. NumFiles(f) \in Nat /\ NumFiles(f) # 0
  BY <1>2, LenProperties, EmptySeq DEF NumFiles
<1>4. \A i \in 1..NumFiles(f) : rFolders[f][i] \in OldFile
  BY <1>2, ElementOfSeq DEF NumFiles
<1> QED
  BY <1>2, <1>3, <1>4 DEF OldFile, FileSize, IsWanted

\* The bytes before a file.
LEMMA BeforeIs ==
  ASSUME rFolders \in Databases, NEW f \in 1..Len(rFolders)
  PROVE  /\ \A i \in 1..(NumFiles(f) + 1) : R!Before(f, i) \in Nat
         /\ R!Before(f, 1) = 0
         /\ \A i \in 1..NumFiles(f) : R!Before(f, i + 1) = R!Before(f, i) + FileSize(f, i)
<1> DEFINE n == NumFiles(f)
<1>1. n \in Nat /\ \A i \in 1..n : FileSize(f, i) \in Nat
  BY FoldersAreTyped
<1> HIDE DEF n
<1>2. PICK b \in [0..n -> Nat] : b[0] = 0 /\ \A i \in 1..n : b[i] = b[i - 1] + FileSize(f, i)
  <2> DEFINE step == [i \in 1..n |-> [s \in Nat |-> s + FileSize(f, i)]]
  <2>1. step \in [1..n -> [Nat -> Nat]]
    BY <1>1
  <2>2. PICK b \in [0..n -> Nat] : b[0] = 0 /\ \A i \in 1..n : b[i] = step[i][b[i - 1]]
    <3>1. 0 \in Nat
      OBVIOUS
    <3> HIDE DEF step
    <3> DEFINE V == Nat
    <3>2. step \in [1..n -> [V -> V]] /\ 0 \in V
      BY <2>1, <3>1
    <3> HIDE DEF V
    <3>3. \E b : Follows(b, V, 0, n, step)
      BY <1>1, <3>2, Recursion
    <3> QED
      BY <3>3 DEF V, Follows
  <2>3. \A i \in 1..n : b[i - 1] \in Nat
    BY <1>1
  <2> QED
    BY <2>2, <2>3
<1>3. ASSUME NEW i \in 1..(n + 1)
      PROVE  R!Before(f, i) = b[i - 1]
  <2> DEFINE IsSum(g) == g = [k \in 1..i |-> IF k = 1 THEN 0 ELSE g[k - 1] + rFolders[f][k - 1].size]
             h == CHOOSE g : IsSum(g)
  <2>1. IsSum([k \in 1..i |-> b[k - 1]])
    <3> DEFINE g == [k \in 1..i |-> b[k - 1]]
    <3>1. ASSUME NEW k \in 1..i PROVE b[k - 1] = IF k = 1 THEN 0 ELSE g[k - 1] + rFolders[f][k - 1].size
      <4>1. CASE k = 1
        BY <1>2, <4>1
      <4>2. CASE k # 1
        <5>1. k - 1 \in 1..n /\ k - 1 \in 1..i /\ (k - 1) - 1 = k - 2
          BY <1>1, <4>2
        <5>2. b[k - 1] = b[(k - 1) - 1] + FileSize(f, k - 1)
          BY <1>2, <5>1
        <5>3. g[k - 1] = b[(k - 1) - 1]
          BY <5>1
        <5> QED
          BY <4>2, <5>2, <5>3 DEF FileSize
      <4> QED
        BY <4>1, <4>2
    <3> QED
      BY <3>1
  <2>2. IsSum(h)
    BY <2>1
  <2>3. R!Before(f, i) = h[i]
    BY DEF R!Before
  <2> HIDE DEF h
  <2>4. \A k \in 1..i : h[k] = IF k = 1 THEN 0 ELSE h[k - 1] + FileSize(f, k - 1)
    BY <2>2 DEF FileSize
  <2> DEFINE S == {k \in Nat : k + 1 <= i => h[k + 1] = b[k]}
  <2>5. 0 \in S
    BY <1>1, <1>2, <2>4
  <2>6. ASSUME NEW k \in Nat, k \in S PROVE k + 1 \in S
    <3> SUFFICES ASSUME (k + 1) + 1 <= i PROVE h[(k + 1) + 1] = b[k + 1]
      OBVIOUS
    <3>1. (k + 1) + 1 \in 1..i /\ (k + 1) + 1 # 1 /\ ((k + 1) + 1) - 1 = k + 1 /\ k + 1 \in 1..n
          /\ (k + 1) - 1 = k /\ k + 1 <= i
      BY <1>1
    <3>2. h[(k + 1) + 1] = h[k + 1] + FileSize(f, k + 1)
      BY <2>4, <3>1
    <3>3. b[k + 1] = b[k] + FileSize(f, k + 1)
      BY <1>2, <3>1
    <3> QED
      BY <2>6, <3>1, <3>2, <3>3
  <2>7. \A k \in Nat : k \in S
    <3> HIDE DEF S
    <3> QED
      BY <2>5, <2>6, NatInd
  <2>8. i - 1 \in Nat /\ (i - 1) + 1 = i
    BY <1>1
  <2> QED
    BY <2>3, <2>7, <2>8
<1>4. \A i \in 1..(n + 1) : R!Before(f, i) \in Nat
  BY <1>1, <1>2, <1>3
<1>5. R!Before(f, 1) = 0
  BY <1>1, <1>2, <1>3
<1>6. ASSUME NEW i \in 1..n PROVE R!Before(f, i + 1) = R!Before(f, i) + FileSize(f, i)
  <2>1. i + 1 \in 1..(n + 1) /\ i \in 1..(n + 1) /\ (i + 1) - 1 = i
    BY <1>1
  <2> QED
    BY <1>2, <1>3, <2>1
<1> QED
  BY <1>4, <1>5, <1>6 DEF n

\* The wanted bytes of the first files of a folder.
Upto(f) ==
  LET upto[i \in 0..Len(rFolders[f])] ==
        IF i = 0 THEN <<>>
        ELSE IF ~rFolders[f][i].wanted THEN upto[i - 1]
        ELSE upto[i - 1] \o [k \in 1..rFolders[f][i].size |-> <<f, R!Before(f, i) + k>>]
  IN  upto

\* The same with k bytes of file i, if it is wanted.
Part(f, i, k) ==
  IF IsWanted(f, i) THEN Upto(f)[i - 1] \o BytesOf(f, R!Before(f, i), k) ELSE Upto(f)[i - 1]

LEMMA BytesAreTyped ==
  ASSUME NEW f \in Nat, NEW from \in Nat, NEW n \in Nat
  PROVE  /\ BytesOf(f, from, n) \in Seq(Byte) /\ Len(BytesOf(f, from, n)) = n
         /\ \A k \in 1..n : BytesOf(f, from, n)[k] = <<f, from + k>>
<1>1. \A k \in 1..n : <<f, from + k>> \in Byte
  BY DEF Byte
<1>2. BytesOf(f, from, n) \in [1..n -> Byte]
  BY <1>1 DEF BytesOf
<1> QED
  BY SMTT(30), <1>2, SeqDef, LenProperties DEF BytesOf

LEMMA UptoIs ==
  ASSUME rFolders \in Databases, NEW f \in 1..Len(rFolders)
  PROVE  /\ Upto(f) \in [0..NumFiles(f) -> Seq(Byte)] /\ Upto(f)[0] = <<>>
         /\ \A i \in 1..NumFiles(f) : Upto(f)[i] = Part(f, i, FileSize(f, i))
         /\ R!Wanted(f) = Upto(f)[NumFiles(f)]
<1> DEFINE n == NumFiles(f)
<1>1. f \in Nat /\ n \in Nat /\ \A i \in 1..n : FileSize(f, i) \in Nat /\ R!Before(f, i) \in Nat
  BY FoldersAreTyped, BeforeIs
<1> DEFINE all(i) == BytesOf(f, R!Before(f, i), FileSize(f, i))
           IsUpto(e) ==
             e = [i \in 0..Len(rFolders[f]) |->
                   IF i = 0 THEN <<>>
                   ELSE IF ~rFolders[f][i].wanted THEN e[i - 1]
                   ELSE e[i - 1] \o [k \in 1..rFolders[f][i].size |-> <<f, R!Before(f, i) + k>>]]
<1>2. \A i \in 1..n : all(i) \in Seq(Byte)
  BY <1>1, BytesAreTyped
<1> HIDE DEF n, all, IsUpto
<1>3. PICK w \in [0..n -> Seq(Byte)] :
        w[0] = <<>> /\ \A i \in 1..n : w[i] = IF ~IsWanted(f, i) THEN w[i - 1] ELSE w[i - 1] \o all(i)
  <2> DEFINE step == [i \in 1..n |-> [s \in Seq(Byte) |-> IF ~IsWanted(f, i) THEN s ELSE s \o all(i)]]
  <2>1. step \in [1..n -> [Seq(Byte) -> Seq(Byte)]]
    BY <1>2, ConcatProperties
  <2>2. <<>> \in Seq(Byte)
    BY EmptySeq
  <2>3. PICK w \in [0..n -> Seq(Byte)] : w[0] = <<>> /\ \A i \in 1..n : w[i] = step[i][w[i - 1]]
    <3> HIDE DEF step
    <3> DEFINE V == Seq(Byte)
    <3>1. step \in [1..n -> [V -> V]] /\ <<>> \in V
      BY <2>1, <2>2
    <3> HIDE DEF V
    <3>2. \E w : Follows(w, V, <<>>, n, step)
      BY <1>1, <3>1, Recursion
    <3> QED
      BY <3>2 DEF V, Follows
  <2>4. \A i \in 1..n : w[i - 1] \in Seq(Byte)
    BY <1>1
  <2> QED
    BY <2>3, <2>4
<1>4. ASSUME NEW e
      PROVE  IsUpto(e) <=> e = [i \in 0..n |-> IF i = 0 THEN <<>>
                                    ELSE IF ~IsWanted(f, i) THEN e[i - 1] ELSE e[i - 1] \o all(i)]
  BY DEF IsUpto, n, NumFiles, IsWanted, all, BytesOf, FileSize
<1>5. IsUpto(w)
  <2>1. w = [i \in 0..n |-> w[i]]
    OBVIOUS
  <2>2. \A i \in 0..n : w[i] = IF i = 0 THEN <<>>
                               ELSE IF ~IsWanted(f, i) THEN w[i - 1] ELSE w[i - 1] \o all(i)
    <3>1. \A i \in 0..n : i = 0 \/ (i # 0 /\ i \in 1..n)
      BY <1>1
    <3> QED
      BY <1>3, <3>1
  <2>3. w = [i \in 0..n |-> IF i = 0 THEN <<>>
                            ELSE IF ~IsWanted(f, i) THEN w[i - 1] ELSE w[i - 1] \o all(i)]
    BY <2>1, <2>2
  <2> QED
    BY <1>4, <2>3
<1>6. IsUpto(Upto(f))
  BY <1>5 DEF IsUpto, Upto
<1>7. R!Wanted(f) = Upto(f)[n]
  BY DEF R!Wanted, Upto, n, NumFiles
<1> DEFINE u == Upto(f)
<1> HIDE DEF u
<1>8. /\ u[0] = <<>> /\ \A i \in 1..n : u[i] = IF ~IsWanted(f, i) THEN u[i - 1] ELSE u[i - 1] \o all(i)
      /\ DOMAIN u = 0..n /\ u = [i \in 0..n |-> u[i]]
  <2>1. u = [i \in 0..n |-> IF i = 0 THEN <<>>
                            ELSE IF ~IsWanted(f, i) THEN u[i - 1] ELSE u[i - 1] \o all(i)]
    BY <1>4, <1>6 DEF u
  <2>2. 0 \in 0..n /\ \A i \in 1..n : i \in 0..n /\ i # 0
    BY <1>1
  <2>3. \A i \in 0..n : u[i] = IF i = 0 THEN <<>>
                               ELSE IF ~IsWanted(f, i) THEN u[i - 1] ELSE u[i - 1] \o all(i)
    BY <2>1
  <2>4. DOMAIN u = 0..n
    BY <2>1
  <2>5. u = [i \in 0..n |-> u[i]]
    BY <2>1
  <2> QED
    BY <2>2, <2>3, <2>4, <2>5
<1> DEFINE S == {k \in Nat : k <= n => u[k] \in Seq(Byte)}
<1>9. 0 \in S
  BY <1>8, EmptySeq
<1>10. ASSUME NEW k \in Nat, k \in S PROVE k + 1 \in S
  <2> SUFFICES ASSUME k + 1 <= n PROVE u[k + 1] \in Seq(Byte)
    OBVIOUS
  <2>1. k + 1 \in 1..n /\ (k + 1) - 1 = k /\ u[k] \in Seq(Byte)
    BY <1>1, <1>10
  <2>2. u[k + 1] = u[k] \/ u[k + 1] = u[k] \o all(k + 1)
    BY <1>8, <2>1
  <2> QED
    BY ZenonT(40), <1>2, <2>1, <2>2, ConcatProperties
<1>11. \A k \in Nat : k \in S
  <2> HIDE DEF S
  <2> QED
    BY <1>9, <1>10, NatInd
<1>12. u \in [0..n -> Seq(Byte)]
  BY <1>1, <1>8, <1>11
<1>13. \A i \in 1..n : u[i] = Part(f, i, FileSize(f, i))
  BY <1>8 DEF Part, all, u
<1> QED
  BY <1>7, <1>8, <1>12, <1>13 DEF u, n

-----------------------------------------------------------------------------
(* What the operators of FolderRepack say of a folder.                      *)

\* k bytes and the m bytes that follow them.
Joins(f, from, k, m) ==
  BytesOf(f, from, k + m) = BytesOf(f, from, k) \o BytesOf(f, from + k, m)

LEMMA BytesJoin ==
  ASSUME NEW f \in Nat, NEW from \in Nat, NEW k \in Nat, NEW m \in Nat
  PROVE  Joins(f, from, k, m)
<1> DEFINE a == BytesOf(f, from, k)
           b == BytesOf(f, from + k, m)
           c == BytesOf(f, from, k + m)
<1>1. /\ a \in Seq(Byte) /\ Len(a) = k /\ \A j \in 1..k : a[j] = <<f, from + j>>
      /\ c \in Seq(Byte) /\ Len(c) = k + m /\ \A j \in 1..(k + m) : c[j] = <<f, from + j>>
  <2>1. k + m \in Nat
    OBVIOUS
  <2> QED
    BY ZenonT(40), <2>1, BytesAreTyped
<1>2. b \in Seq(Byte) /\ Len(b) = m /\ \A j \in 1..m : b[j] = <<f, (from + k) + j>>
  <2>1. from + k \in Nat
    OBVIOUS
  <2> QED
    BY <2>1, BytesAreTyped
<1> HIDE DEF a, b, c
<1>3. a \o b \in Seq(Byte) /\ Len(a \o b) = k + m
      /\ \A j \in 1..(k + m) : (a \o b)[j] = IF j <= k THEN a[j] ELSE b[j - k]
  BY <1>1, <1>2, ConcatProperties
<1>4. ASSUME NEW j \in 1..(k + m) PROVE c[j] = (a \o b)[j]
  <2>1. CASE j <= k
    <3>1. (a \o b)[j] = a[j] /\ j \in 1..k
      BY <1>3, <2>1
    <3> QED
      BY <1>1, <3>1
  <2>2. CASE ~(j <= k)
    <3>1. j - k \in 1..m /\ (from + k) + (j - k) = from + j
      BY <2>2
    <3>2. (a \o b)[j] = <<f, from + j>>
      BY <1>2, <1>3, <2>2, <3>1
    <3> QED
      BY <1>1, <3>2
  <2> QED
    BY <2>1, <2>2
<1>5. c = a \o b
  BY <1>1, <1>3, <1>4, SeqEqual
<1> QED
  BY <1>5 DEF a, b, c, Joins

LEMMA BytesInThree ==
  ASSUME NEW s \in Seq(Byte), NEW t \in Seq(Byte), NEW u \in Seq(Byte)
  PROVE  (s \o t) \o u = s \o (t \o u)
<1> DEFINE a == s \o t
           b == t \o u
           l == a \o u
           r == s \o b
<1>1. /\ a \in Seq(Byte) /\ Len(a) = Len(s) + Len(t)
      /\ \A i \in 1..(Len(s) + Len(t)) : a[i] = IF i <= Len(s) THEN s[i] ELSE t[i - Len(s)]
      /\ b \in Seq(Byte) /\ Len(b) = Len(t) + Len(u)
      /\ \A i \in 1..(Len(t) + Len(u)) : b[i] = IF i <= Len(t) THEN t[i] ELSE u[i - Len(t)]
  BY ConcatProperties
<1> HIDE DEF a, b
<1>2. /\ l \in Seq(Byte) /\ Len(l) = Len(a) + Len(u)
      /\ \A i \in 1..(Len(a) + Len(u)) : l[i] = IF i <= Len(a) THEN a[i] ELSE u[i - Len(a)]
  <2>1. a \in Seq(Byte)
    BY <1>1
  <2> QED
    BY <2>1, ConcatProperties
<1>3. /\ r \in Seq(Byte) /\ Len(r) = Len(s) + Len(b)
      /\ \A i \in 1..(Len(s) + Len(b)) : r[i] = IF i <= Len(s) THEN s[i] ELSE b[i - Len(s)]
  <2>1. b \in Seq(Byte)
    BY <1>1
  <2> QED
    BY <2>1, ConcatProperties
<1> HIDE DEF l, r
<1>4. /\ Len(s) \in Nat /\ Len(t) \in Nat /\ Len(u) \in Nat
      /\ Len(l) = (Len(s) + Len(t)) + Len(u) /\ Len(r) = (Len(s) + Len(t)) + Len(u)
  <2>1. Len(s) \in Nat /\ Len(t) \in Nat /\ Len(u) \in Nat
    BY LenProperties
  <2> QED
    BY <1>1, <1>2, <1>3, <2>1
<1>5. ASSUME NEW i \in 1..Len(l) PROVE l[i] = r[i]
  <2>1. i \in Nat /\ i >= 1 /\ i <= (Len(s) + Len(t)) + Len(u)
    BY <1>4
  <2>2. CASE i <= Len(s)
    <3>1. l[i] = a[i] /\ a[i] = s[i]
      BY <1>1, <1>2, <1>4, <2>1, <2>2
    <3>2. r[i] = s[i]
      BY <1>1, <1>3, <1>4, <2>1, <2>2
    <3> QED
      BY <3>1, <3>2
  <2>3. CASE ~(i <= Len(s)) /\ i <= Len(s) + Len(t)
    <3>1. l[i] = a[i] /\ a[i] = t[i - Len(s)]
      BY <1>1, <1>2, <1>4, <2>1, <2>3
    <3>2. r[i] = b[i - Len(s)]
      BY <1>1, <1>3, <1>4, <2>1, <2>3
    <3>3. i - Len(s) \in 1..(Len(t) + Len(u)) /\ i - Len(s) <= Len(t)
      BY <1>4, <2>1, <2>3
    <3>4. b[i - Len(s)] = t[i - Len(s)]
      BY <1>1, <3>3
    <3> QED
      BY <3>1, <3>2, <3>4
  <2>4. CASE ~(i <= Len(s) + Len(t))
    <3>1. l[i] = u[i - (Len(s) + Len(t))]
      BY <1>1, <1>2, <1>4, <2>1, <2>4
    <3>2. r[i] = b[i - Len(s)]
      BY <1>1, <1>3, <1>4, <2>1, <2>4
    <3>3. /\ i - Len(s) \in 1..(Len(t) + Len(u)) /\ ~(i - Len(s) <= Len(t))
          /\ (i - Len(s)) - Len(t) = i - (Len(s) + Len(t))
      BY <1>4, <2>1, <2>4
    <3>4. b[i - Len(s)] = u[(i - Len(s)) - Len(t)]
      BY <1>1, <3>3
    <3> QED
      BY <3>1, <3>2, <3>3, <3>4
  <2> QED
    BY <2>2, <2>3, <2>4
<1>6. l = r
  <2>1. l \in Seq(Byte) /\ r \in Seq(Byte) /\ Len(l) = Len(r)
    BY <1>2, <1>3, <1>4
  <2> QED
    BY <1>5, <2>1, SeqEqual
<1> QED
  BY <1>6 DEF a, b, l, r

LEMMA PartGrows ==
  ASSUME rFolders \in Databases, NEW f \in 1..Len(rFolders), NEW i \in 1..NumFiles(f),
         NEW k \in Nat, NEW m \in Nat
  PROVE  /\ Part(f, i, k) \in Seq(Byte)
         /\ Part(f, i, 0) = Upto(f)[i - 1]
         /\ ~IsWanted(f, i) => Part(f, i, k + m) = Part(f, i, k)
         /\ IsWanted(f, i) =>
              Part(f, i, k + m) = Part(f, i, k) \o BytesOf(f, R!Before(f, i) + k, m)
<1>1. f \in Nat /\ R!Before(f, i) \in Nat /\ NumFiles(f) \in Nat
  BY FoldersAreTyped, BeforeIs
<1> DEFINE from == R!Before(f, i)
           before == Upto(f)[i - 1]
<1>2. from \in Nat /\ before \in Seq(Byte)
  <2>1. i - 1 \in 0..NumFiles(f)
    BY <1>1
  <2> QED
    BY <1>1, <2>1, UptoIs
<1> HIDE DEF from, before
<1>3. \A n \in Nat : /\ BytesOf(f, from, n) \in Seq(Byte) /\ Len(BytesOf(f, from, n)) = n
                     /\ \A j \in 1..n : BytesOf(f, from, n)[j] = <<f, from + j>>
  BY <1>1, <1>2, BytesAreTyped
<1>4. \A n : Part(f, i, n) = IF IsWanted(f, i) THEN before \o BytesOf(f, from, n) ELSE before
  BY DEF Part, from, before
<1>5. Part(f, i, k) \in Seq(Byte)
  BY <1>2, <1>3, <1>4, ConcatProperties
<1>6. Part(f, i, 0) = before
  <2>1. BytesOf(f, from, 0) = <<>>
    BY <1>3, EmptySeq
  <2> QED
    BY <1>2, <1>4, <2>1, ConcatEmptySeq
<1>7. BytesOf(f, from, k + m) = BytesOf(f, from, k) \o BytesOf(f, from + k, m)
  <2> HIDE DEF from
  <2>1. f \in Nat /\ from \in Nat
    BY <1>1, <1>2
  <2>2. Joins(f, from, k, m)
    BY <2>1, BytesJoin
  <2> QED
    BY <2>2 DEF Joins
<1>8. ASSUME IsWanted(f, i)
      PROVE  Part(f, i, k + m) = Part(f, i, k) \o BytesOf(f, from + k, m)
  <2>1. from + k \in Nat
    BY <1>2
  <2>2. BytesOf(f, from, k) \in Seq(Byte) /\ BytesOf(f, from + k, m) \in Seq(Byte)
    BY <1>1, <1>3, <2>1, BytesAreTyped
  <2>3. Part(f, i, k + m) = before \o BytesOf(f, from, k + m)
        /\ Part(f, i, k) = before \o BytesOf(f, from, k)
    BY <1>4, <1>8, Zenon
  <2> DEFINE a == BytesOf(f, from, k)
             b == BytesOf(f, from + k, m)
  <2>4. a \in Seq(Byte) /\ b \in Seq(Byte)
        /\ Part(f, i, k + m) = before \o (a \o b) /\ Part(f, i, k) = before \o a
    BY <1>7, <2>2, <2>3
  <2> HIDE DEF a, b
  <2>5. (before \o a) \o b = before \o (a \o b)
    BY <1>2, <2>4, BytesInThree
  <2>6. Part(f, i, k + m) = Part(f, i, k) \o b
    BY <2>4, <2>5
  <2> QED
    BY <2>6 DEF b
<1> QED
  BY <1>4, <1>5, <1>6, <1>8 DEF from, before

\* The empty files that are passed over change nothing.
LEMMA PassEmptyIs ==
  ASSUME rFolders \in Databases, rRep \in 1..Len(rFolders), NEW i \in 1..(NumFiles(rRep) + 1)
  PROVE  /\ R!PassEmpty(i) \in 1..(NumFiles(rRep) + 1)
         /\ R!Before(rRep, R!PassEmpty(i)) = R!Before(rRep, i)
         /\ Upto(rRep)[R!PassEmpty(i) - 1] = Upto(rRep)[i - 1]
<1> DEFINE n == NumFiles(rRep)
           Ends(j) == j <= n => FileSize(rRep, j) > 0
           Passes(j) == /\ \A k \in i..(j - 1) : FileSize(rRep, k) = 0
                        /\ Ends(j)
<1>1. n \in Nat /\ n >= 1 /\ rRep \in Nat /\ \A k \in 1..n : FileSize(rRep, k) \in Nat
  BY FoldersAreTyped
<1>2. \E j \in i..(n + 1) : Passes(j)
  <2> SUFFICES ASSUME \A j \in i..(n + 1) : ~Passes(j) PROVE FALSE
    OBVIOUS
  <2> DEFINE S == {m \in Nat : i + m <= n + 1 => \A k \in i..((i + m) - 1) : FileSize(rRep, k) = 0}
  <2>1. 0 \in S
    BY <1>1
  <2>2. ASSUME NEW m \in Nat, m \in S PROVE m + 1 \in S
    <3> SUFFICES ASSUME i + (m + 1) <= n + 1
                 PROVE  \A k \in i..((i + (m + 1)) - 1) : FileSize(rRep, k) = 0
      OBVIOUS
    <3>1. i + m \in i..(n + 1) /\ i + m \in 1..n /\ i + m <= n + 1
      BY <1>1
    <3>2. \A k \in i..((i + m) - 1) : FileSize(rRep, k) = 0
      BY <2>2, <3>1
    <3>3. FileSize(rRep, i + m) = 0
      <4>1. ~Ends(i + m)
        BY <3>1, <3>2
      <4>2. FileSize(rRep, i + m) \in Nat
        BY <1>1, <3>1
      <4> HIDE DEF S
      <4> QED
        BY <4>1, <4>2
    <3>4. \A k \in i..((i + (m + 1)) - 1) : k \in i..((i + m) - 1) \/ k = i + m
      BY <1>1
    <3> QED
      BY <3>2, <3>3, <3>4
  <2>3. \A m \in Nat : m \in S
    <3> HIDE DEF S
    <3> QED
      BY <2>1, <2>2, NatInd
  <2>4. PICK m \in Nat : i + m = n + 1
    <3>1. (n + 1) - i \in Nat /\ i + ((n + 1) - i) = n + 1
      BY <1>1
    <3> QED
      BY <3>1
  <2>5. \A k \in i..((n + 1) - 1) : FileSize(rRep, k) = 0
    <3>1. m \in S
      BY <2>3
    <3>2. i + m <= n + 1
      BY <1>1, <2>4
    <3>3. \A k \in i..((i + m) - 1) : FileSize(rRep, k) = 0
      BY <3>1, <3>2
    <3> QED
      BY <2>4, <3>3
  <2>6. n + 1 \in i..(n + 1) /\ Ends(n + 1)
    BY <1>1
  <2> QED
    BY <2>5, <2>6
<1> DEFINE p == R!PassEmpty(i)
<1>3. p \in i..(n + 1) /\ Passes(p)
  BY <1>2 DEF R!PassEmpty, R!Folder, FileSize, NumFiles
<1>4. p \in Nat /\ p >= i /\ p <= n + 1 /\ i \in Nat /\ i >= 1
  BY <1>1, <1>3
<1> DEFINE Same(j) == R!Before(rRep, j) = R!Before(rRep, i)
                      /\ Upto(rRep)[j - 1] = Upto(rRep)[i - 1]
           S == {m \in Nat : i + m <= p => Same(i + m)}
<1>5. 0 \in S
  BY <1>4
<1>6. ASSUME NEW m \in Nat, m \in S PROVE m + 1 \in S
  <2> SUFFICES ASSUME i + (m + 1) <= p PROVE Same(i + (m + 1))
    OBVIOUS
  <2> DEFINE j == i + m
  <2>1. j \in i..(p - 1) /\ j \in 1..n /\ j <= p /\ i + (m + 1) = j + 1 /\ (j + 1) - 1 = j
    BY <1>1, <1>4
  <2>2. Same(j) /\ FileSize(rRep, j) = 0
    BY <1>3, <1>6, <2>1
  <2> HIDE DEF j
  <2>3. R!Before(rRep, j) \in Nat /\ R!Before(rRep, j + 1) = R!Before(rRep, j) + 0
    BY <1>1, <2>1, <2>2, BeforeIs
  <2>4. Upto(rRep)[j] = Part(rRep, j, 0) /\ Part(rRep, j, 0) = Upto(rRep)[j - 1]
    BY <2>1, <2>2, UptoIs, PartGrows
  <2> QED
    BY <2>1, <2>2, <2>3, <2>4
<1>7. \A m \in Nat : m \in S
  <2> HIDE DEF S
  <2> QED
    BY <1>5, <1>6, NatInd
<1>8. PICK m \in Nat : i + m = p
  <2>1. p - i \in Nat /\ i + (p - i) = p
    BY <1>4
  <2> QED
    BY <2>1
<1>9. Same(p)
  <2>1. m \in S /\ i + m <= p
    BY <1>4, <1>7, <1>8
  <2>2. Same(i + m)
    BY <2>1
  <2> HIDE DEF p, S
  <2> QED
    BY <1>8, <2>2, Zenon
<1> QED
  BY <1>1, <1>4, <1>9 DEF n

\* A folder of which all files stay is its wanted bytes.
LEMMA CopyIsRight ==
  ASSUME rFolders \in Databases, rRep \in 1..Len(rFolders), R!AllStay
  PROVE  R!Total(rRep) \in Nat /\ BytesOf(rRep, 0, R!Total(rRep)) = R!Wanted(rRep)
<1> DEFINE n == NumFiles(rRep)
<1>1. /\ n \in Nat /\ n >= 1 /\ rRep \in Nat
      /\ \A i \in 1..n : /\ FileSize(rRep, i) \in Nat /\ IsWanted(rRep, i) \in BOOLEAN
                         /\ FileSize(rRep, i) > 0 => IsWanted(rRep, i)
  <2>1. rFolders[rRep] \in Seq(OldFile)
    BY FoldersAreTyped
  <2>2. DOMAIN rFolders[rRep] = 1..n
    BY <2>1, LenProperties DEF NumFiles
  <2> QED
    BY <2>2, FoldersAreTyped DEF R!AllStay, R!Folder, FileSize, IsWanted
<1> DEFINE before(i) == R!Before(rRep, i)
           S == {i \in Nat : i <= n => Upto(rRep)[i] = BytesOf(rRep, 0, before(i + 1))}
<1>2. before(1) = 0 /\ \A i \in 1..n : before(i) \in Nat /\ before(i + 1) = before(i) + FileSize(rRep, i)
  <2>1. \A i \in 1..n : i \in 1..(n + 1)
    BY <1>1
  <2> QED
    BY <2>1, BeforeIs DEF n
<1>3. 0 \in S
  <2>1. BytesOf(rRep, 0, 0) = <<>>
    BY <1>1, BytesAreTyped, EmptySeq
  <2>2. 0 + 1 = 1
    OBVIOUS
  <2> QED
    BY <1>2, <2>1, <2>2, UptoIs
<1>4. ASSUME NEW k \in Nat, k \in S PROVE k + 1 \in S
  <2> SUFFICES ASSUME k + 1 <= n PROVE Upto(rRep)[k + 1] = BytesOf(rRep, 0, before((k + 1) + 1))
    OBVIOUS
  <2> DEFINE i == k + 1
  <2>1. i \in 1..n /\ i - 1 = k
    BY <1>1
  <2>2. Upto(rRep)[i - 1] = BytesOf(rRep, 0, before(i))
    <3>1. k <= n
      BY <1>1
    <3>2. Upto(rRep)[k] = BytesOf(rRep, 0, before(k + 1))
      BY <1>4, <3>1
    <3> QED
      BY <2>1, <3>2
  <2>3. Upto(rRep)[i] = Part(rRep, i, FileSize(rRep, i))
    BY <2>1, UptoIs
  <2> HIDE DEF i
  <2>4. before(i) \in Nat /\ FileSize(rRep, i) \in Nat /\ before(i + 1) = before(i) + FileSize(rRep, i)
    BY <1>1, <1>2, <2>1
  <2> DEFINE s == FileSize(rRep, i)
  <2> HIDE DEF before, s
  <2>5. Part(rRep, i, s) = BytesOf(rRep, 0, before(i) + s)
    <3>1. CASE IsWanted(rRep, i)
      <4>1. Part(rRep, i, s) = BytesOf(rRep, 0, before(i)) \o BytesOf(rRep, before(i), s)
        BY <2>2, <3>1 DEF Part, before
      <4>2. s \in Nat /\ before(i) \in Nat /\ rRep \in Nat /\ 0 \in Nat /\ 0 + before(i) = before(i)
        BY <1>1, <2>4 DEF s
      <4>3. BytesOf(rRep, 0, before(i) + s) = BytesOf(rRep, 0, before(i)) \o BytesOf(rRep, 0 + before(i), s)
        <5>1. Joins(rRep, 0, before(i), s)
          BY <4>2, BytesJoin
        <5> QED
          BY <5>1 DEF Joins
      <4> QED
        BY <4>1, <4>2, <4>3
    <3>2. CASE ~IsWanted(rRep, i)
      <4>1. s = 0
        BY <1>1, <2>1, <3>2 DEF s
      <4> QED
        BY <2>2, <2>4, <3>2, <4>1 DEF Part
    <3> QED
      BY <3>1, <3>2
  <2> QED
    BY <2>3, <2>4, <2>5 DEF s, i
<1>5. \A k \in Nat : k \in S
  <2> HIDE DEF S
  <2> QED
    BY <1>3, <1>4, NatInd
<1>6. Upto(rRep)[n] = BytesOf(rRep, 0, before(n + 1))
  BY <1>1, <1>5
<1>7. R!Total(rRep) = before(n) + FileSize(rRep, n)
  BY DEF R!Total, n, NumFiles, FileSize
<1>8. n \in 1..n
  BY <1>1
<1> QED
  BY SMTT(30), <1>1, <1>2, <1>6, <1>7, <1>8, UptoIs

-----------------------------------------------------------------------------
(* The invariant of the update of a 7z archive.                             *)

\* The caller can only go on to the end of the update.
FailedHere == rMain \in {"free", "close", "exit", "startEvent", "join", "ended", "crashed"}

\* The thread waits, and nothing is left to be waited for.
Idle == rAt = "start" /\ ~rEv.start /\ ~rEv.finished

\* Nothing has gone through the binder.
Fresh ==
  /\ rOffered = 0 /\ rReceived = <<>> /\ rSent = <<>> /\ rWriter = "idle"
  /\ rOut = R!NoOut /\ rFos = R!FosInit

\* The n-th byte that was read is the n-th that was written.
PipeIsRight ==
  /\ rOffered \in Nat /\ rSent \in Seq(Byte) /\ Len(rSent) = rOffered
  /\ rReceived \in Seq(Nat) /\ Len(rReceived) <= rOffered
  /\ \A k \in 1..Len(rReceived) : rReceived[k] = k
Settled == rWriter # "writing" /\ Len(rReceived) = rOffered

\* The bytes that the decoder has passed of the folder.
FosRecord == [index : Nat, open : BOOLEAN, toPipe : BOOLEAN, rem : Nat, crcOk : BOOLEAN]
OutRecord == [pos : Nat, size : Nat, wrong : BOOLEAN]
FosTyped ==
  /\ rFos \in FosRecord /\ rOut \in OutRecord
  /\ rFos.index \in 1..(NumFiles(rRep) + 1)
Between == /\ ~rFos.open
        /\ rOut.pos = R!Before(rRep, rFos.index)
        /\ rSent = Upto(rRep)[rFos.index - 1]
OpenPos ==
  /\ rFos.open /\ rFos.index \in 1..NumFiles(rRep)
  /\ rFos.rem <= FileSize(rRep, rFos.index)
  /\ rFos.toPipe = IsWanted(rRep, rFos.index)
  /\ rOut.pos = R!Before(rRep, rFos.index) + (FileSize(rRep, rFos.index) - rFos.rem)
\* All that was passed of the file, and n more bytes, are with the binder.
SentIs(n) == rSent = Part(rRep, rFos.index, (FileSize(rRep, rFos.index) - rFos.rem) + n)
InFile == OpenPos /\ (rFos.crcOk => SentIs(0))

Done == Settled /\ rSent = R!Wanted(rRep)

\* Where the thread is while Update encodes, or waits for it.
AtWork ==
  /\ ~rEv.start /\ ~rEv.finished
  /\ rAt \in {"decode", "write", "check"} => Settled /\ FosTyped /\ (Between \/ InFile)
  /\ rAt = "empties" => Settled /\ FosTyped /\ Between
  /\ rAt = "pipe" => /\ FosTyped /\ OpenPos /\ rFos.toPipe
                     /\ (rFos.crcOk /\ ~rOut.wrong => SentIs(R!Cur))
  /\ rAt \in {"release", "finish"} => (rResult = "ok" => Done)
  /\ rAt \in {"decode", "write", "pipe", "empties", "check", "release", "finish"}
Called == rAt = "start" /\ rEv.start /\ ~rEv.finished /\ Fresh
Answered == rAt = "start" /\ ~rEv.start /\ rEv.finished /\ (rResult = "ok" => Done)

\* What holds until the first error.
NoErrorYet ==
  /\ rMain = "create" => rAt = "none" /\ rRep = 1 /\ Len(rNewDb) = 0
                         /\ ~rEv.start /\ ~rEv.finished
  /\ rMain = "next" => Idle /\ Len(rNewDb) = rRep - 1
  /\ rMain = "start" => Idle /\ Fresh /\ Len(rNewDb) = rRep - 1 /\ rRep <= Len(rFolders)
  /\ rMain \in {"encode", "wait"} =>
       /\ Len(rNewDb) = rRep - 1 /\ rRep <= Len(rFolders)
       /\ ~rEv.exit /\ PipeIsRight
       /\ Called \/ AtWork \/ Answered
  /\ rMain \in {"free", "close"} => Idle /\ Len(rNewDb) = rRep /\ rRep <= Len(rFolders)
  /\ rMain \in {"exit", "startEvent", "join", "ended"} => Len(rNewDb) = Len(rFolders)

\* The archive that has been written so far.
DbIsRight ==
  /\ rNewDb \in Seq(Seq(Byte))
  /\ \A f \in 1..Len(rNewDb) : rNewDb[f] = R!Wanted(f)

RepackInv ==
  /\ R!TypeOK
  /\ DbIsRight
  /\ rRet = "ok" \/ FailedHere
  /\ rRet = "ok" => NoErrorYet

LEMMA SameFolder ==
  ASSUME rFolders' = rFolders, rRep' = rRep
  PROVE  /\ NumFiles(rRep)' = NumFiles(rRep) /\ Upto(rRep)' = Upto(rRep)
         /\ R!Wanted(rRep)' = R!Wanted(rRep) /\ R!FosInit' = R!FosInit
         /\ \A i : R!Before(rRep, i)' = R!Before(rRep, i)
         /\ \A i : FileSize(rRep, i)' = FileSize(rRep, i)
         /\ \A i : IsWanted(rRep, i)' = IsWanted(rRep, i)
         /\ \A i, k : Part(rRep, i, k)' = Part(rRep, i, k)
<1>1. NumFiles(rRep)' = NumFiles(rRep) /\ Upto(rRep)' = Upto(rRep)
      /\ R!Wanted(rRep)' = R!Wanted(rRep)
  BY DEF NumFiles, Upto, R!Wanted, R!Before
<1>2. R!FosInit' = R!FosInit
  BY DEF R!FosInit, R!PassEmpty, R!Folder
<1>3. \A i : R!Before(rRep, i)' = R!Before(rRep, i)
  BY DEF R!Before
<1>4. \A i : FileSize(rRep, i)' = FileSize(rRep, i) /\ IsWanted(rRep, i)' = IsWanted(rRep, i)
  BY DEF FileSize, IsWanted
<1>5. \A i, k : Part(rRep, i, k)' = Part(rRep, i, k)
  BY DEF Part, IsWanted, BytesOf, Upto, R!Before
<1> QED
  BY <1>1, <1>2, <1>3, <1>4, <1>5

LEMMA SameWanted ==
  ASSUME rFolders' = rFolders
  PROVE  \A f : R!Wanted(f)' = R!Wanted(f)
BY DEF R!Wanted, R!Before

LEMMA DbStays ==
  ASSUME DbIsRight, UNCHANGED <<rFolders, rNewDb>>
  PROVE  DbIsRight'
<1>1. \A f : R!Wanted(f)' = R!Wanted(f)
  BY SameWanted
<1> QED
  BY <1>1 DEF DbIsRight

\* A folder is appended to it.
LEMMA DbGrows ==
  ASSUME DbIsRight, NEW w \in Seq(Byte), w = R!Wanted(Len(rNewDb) + 1),
         rFolders' = rFolders, rNewDb' = Append(rNewDb, w)
  PROVE  DbIsRight' /\ Len(rNewDb') = Len(rNewDb) + 1
<1>1. \A f : R!Wanted(f)' = R!Wanted(f)
  BY SameWanted
<1>2. /\ rNewDb' \in Seq(Seq(Byte)) /\ Len(rNewDb') = Len(rNewDb) + 1
      /\ \A f \in 1..(Len(rNewDb) + 1) : rNewDb'[f] = IF f = Len(rNewDb) + 1 THEN w ELSE rNewDb[f]
      /\ Len(rNewDb) \in Nat
  BY AppendProperties, LenProperties DEF DbIsRight
<1>3. \A f \in 1..(Len(rNewDb) + 1) : f = Len(rNewDb) + 1 \/ f \in 1..Len(rNewDb)
  BY <1>2
<1>4. \A f \in 1..Len(rNewDb') : rNewDb'[f] = R!Wanted(f)
  BY <1>2, <1>3 DEF DbIsRight
<1> QED
  BY <1>1, <1>2, <1>4 DEF DbIsRight

-----------------------------------------------------------------------------
(* A step of the thread.                                                    *)

\* What its step relies on while Update encodes.
Unpacking ==
  /\ rFolders \in Databases /\ rRep \in 1..Len(rFolders)
  /\ ~rEv.exit /\ rEv \in [start : BOOLEAN, finished : BOOLEAN, exit : BOOLEAN]
  /\ PipeIsRight

LEMMA CurIs ==
  ASSUME FosTyped
  PROVE  R!Cur \in Nat /\ R!Cur <= rFos.rem /\ R!Cur <= rOut.size
BY DEF FosTyped, FosRecord, OutRecord, R!Cur, R!MinOf

\* The folder at hand.
LEMMA FolderIs ==
  ASSUME Unpacking
  PROVE  /\ rRep \in Nat /\ NumFiles(rRep) \in Nat /\ NumFiles(rRep) >= 1
         /\ \A i \in 1..NumFiles(rRep) :
              /\ FileSize(rRep, i) \in Nat /\ IsWanted(rRep, i) \in BOOLEAN
              /\ R!Before(rRep, i) \in Nat
              /\ R!Before(rRep, i + 1) = R!Before(rRep, i) + FileSize(rRep, i)
         /\ R!Total(rRep) \in Nat
<1>1. /\ rRep \in Nat /\ NumFiles(rRep) \in Nat /\ NumFiles(rRep) >= 1
      /\ \A i \in 1..NumFiles(rRep) : FileSize(rRep, i) \in Nat /\ IsWanted(rRep, i) \in BOOLEAN
  BY FoldersAreTyped DEF Unpacking
<1>2. \A i \in 1..(NumFiles(rRep) + 1) : R!Before(rRep, i) \in Nat
  BY BeforeIs DEF Unpacking
<1>3. \A i \in 1..NumFiles(rRep) : R!Before(rRep, i + 1) = R!Before(rRep, i) + FileSize(rRep, i)
  BY BeforeIs DEF Unpacking
<1>4. R!Total(rRep) = R!Before(rRep, NumFiles(rRep)) + FileSize(rRep, NumFiles(rRep))
  BY DEF R!Total, NumFiles, FileSize
<1>5. NumFiles(rRep) \in 1..NumFiles(rRep) /\ \A i \in 1..NumFiles(rRep) : i \in 1..(NumFiles(rRep) + 1)
  BY <1>1
<1> QED
  BY <1>1, <1>2, <1>3, <1>4, <1>5

\* The records of the decoder after n bytes.
LEMMA OutMoves ==
  ASSUME NEW r \in OutRecord, NEW n \in Nat, n <= r.size, NEW new,
         new = [r EXCEPT !.pos = @ + n, !.size = @ - n]
  PROVE  new \in OutRecord /\ new.pos = r.pos + n
<1>1. r.pos + n \in Nat /\ r.size - n \in Nat
  BY DEF OutRecord
<1> QED
  BY <1>1 DEF OutRecord

LEMMA FosMoves ==
  ASSUME NEW r \in FosRecord, NEW n \in Nat, n <= r.rem, NEW new,
         new = [r EXCEPT !.rem = @ - n, !.crcOk = new.crcOk], new.crcOk \in BOOLEAN
  PROVE  /\ new \in FosRecord /\ new.open = r.open /\ new.index = r.index
         /\ new.toPipe = r.toPipe /\ new.rem = r.rem - n
<1>1. r.rem - n \in Nat
  BY DEF FosRecord
<1> QED
  BY <1>1 DEF FosRecord

LEMMA FosCloses ==
  ASSUME NEW r \in FosRecord, NEW new,
         new = [r EXCEPT !.rem = 0, !.open = FALSE, !.index = @ + 1]
  PROVE  new \in FosRecord /\ ~new.open /\ new.index = r.index + 1
<1>1. r.index + 1 \in Nat
  BY DEF FosRecord
<1> QED
  BY <1>1 DEF FosRecord

\* Bytes of the open file have gone to the binder, or were left out.
LEMMA PassedIsRight ==
  ASSUME Unpacking, FosTyped, OpenPos, rFos.crcOk /\ ~rOut.wrong => SentIs(R!Cur),
         R!Passed, UNCHANGED <<rFolders, rRep, rSent>>
  PROVE  /\ FosTyped'
         /\ rAt' = "write" => (Between \/ InFile)'
         /\ rAt' = "empties" => Between'
         /\ rAt' \in {"write", "empties"} \/ (rAt' = "release" /\ rResult' = "error")
<1> DEFINE n == R!Cur
           i == rFos.index
           size == FileSize(rRep, i)
           good == rFos.crcOk /\ ~rOut.wrong
<1>1. /\ n \in Nat /\ n <= rFos.rem /\ n <= rOut.size
      /\ rFos \in FosRecord /\ rOut \in OutRecord
  BY CurIs DEF FosTyped
<1>2. /\ rFos.open /\ i \in 1..NumFiles(rRep) /\ i \in Nat /\ rFos.rem \in Nat /\ rFos.rem <= size
      /\ rFos.toPipe = IsWanted(rRep, i) /\ rOut.pos = R!Before(rRep, i) + (size - rFos.rem)
      /\ rOut.pos \in Nat /\ rOut.size \in Nat
      /\ NumFiles(rRep) \in Nat
  BY <1>1, FolderIs DEF OpenPos, FosRecord, OutRecord
<1>3. /\ size \in Nat /\ R!Before(rRep, i) \in Nat
      /\ R!Before(rRep, i + 1) = R!Before(rRep, i) + size
  BY <1>2, FolderIs
<1>4. good => rSent = Part(rRep, i, (size - rFos.rem) + n)
  BY DEF SentIs
<1>5. rOut' = [rOut EXCEPT !.pos = @ + n, !.size = @ - n]
  BY DEF R!Passed
<1>6. rOut' \in OutRecord /\ rOut'.pos = rOut.pos + n
  <2> HIDE DEF n
  <2> QED
    BY <1>1, <1>5, OutMoves
<1>7. CASE n < rFos.rem
  <2>1. /\ rFos' = [rFos EXCEPT !.rem = @ - n, !.crcOk = good] /\ rAt' = "write"
    BY <1>7 DEF R!Passed
  <2>2. /\ rFos' \in FosRecord
        /\ rFos'.open /\ rFos'.index = i /\ rFos'.toPipe = rFos.toPipe
        /\ rFos'.rem = rFos.rem - n /\ rFos'.crcOk = good
    <3>1. good \in BOOLEAN
      BY <1>1 DEF FosRecord, OutRecord
    <3> HIDE DEF n, good
    <3>2. rFos \in FosRecord /\ n \in Nat /\ n <= rFos.rem
      BY <1>1
    <3>3. rFos' = [rFos EXCEPT !.rem = @ - n, !.crcOk = good]
      BY <2>1
    <3>4. /\ rFos' \in FosRecord /\ rFos'.open = rFos.open /\ rFos'.index = rFos.index
          /\ rFos'.toPipe = rFos.toPipe /\ rFos'.rem = rFos.rem - n /\ rFos'.crcOk = good
      <4>1. rFos'.crcOk = good
        BY <3>2, <3>3 DEF FosRecord
      <4>2. rFos' = [rFos EXCEPT !.rem = @ - n, !.crcOk = rFos'.crcOk] /\ rFos'.crcOk \in BOOLEAN
        BY <3>1, <3>3, <4>1
      <4>3. /\ rFos' \in FosRecord /\ rFos'.open = rFos.open /\ rFos'.index = rFos.index
            /\ rFos'.toPipe = rFos.toPipe /\ rFos'.rem = rFos.rem - n
        BY <3>2, <4>2, FosMoves
      <4> QED
        BY <4>1, <4>3
    <3> QED
      BY <1>2, <3>4
  <2> HIDE DEF n
  <2>3. FosTyped'
    BY <1>2, <1>6, <2>2, SameFolder DEF FosTyped
  <2>4. size - rFos'.rem = (size - rFos.rem) + n /\ rFos'.rem <= size
        /\ (size - rFos'.rem) + 0 = (size - rFos.rem) + n
    BY <1>1, <1>2, <1>3, <2>2
  <2>5. rOut'.pos = R!Before(rRep, i) + (size - rFos'.rem)
    BY <1>1, <1>2, <1>3, <1>6, <2>4
  <2>6. OpenPos'
    BY <1>2, <2>2, <2>4, <2>5, SameFolder DEF OpenPos
  <2>7. (rFos.crcOk => SentIs(0))'
    <3>1. good => rSent' = Part(rRep, i, (size - rFos'.rem) + 0)
      BY <1>4, <2>4
    <3>2. FileSize(rRep, rFos.index)' = size /\ \A k : Part(rRep, rFos.index, k)' = Part(rRep, i, k)
      BY <2>2, SameFolder
    <3>3. SentIs(0)' <=> rSent' = Part(rRep, rFos.index, (FileSize(rRep, rFos.index) - rFos.rem) + 0)'
      BY DEF SentIs
    <3> HIDE DEF good, size, i
    <3> QED
      BY <2>2, <3>1, <3>2, <3>3
  <2> QED
    BY <2>1, <2>3, <2>6, <2>7 DEF InFile
<1>8. CASE ~(n < rFos.rem)
  <2>1. n = rFos.rem
    BY <1>1, <1>2, <1>8
  <2>2. /\ rFos' = [rFos EXCEPT !.rem = 0, !.open = FALSE, !.index = @ + 1]
        /\ good => rAt' = "empties"
        /\ ~good => rAt' = "release" /\ rResult' = "error"
    BY <1>8 DEF R!Passed, R!Fails
  <2> HIDE DEF n
  <2>3. /\ rFos' \in FosRecord
        /\ ~rFos'.open /\ rFos'.index = i + 1 /\ rFos'.index \in 1..(NumFiles(rRep) + 1)
        /\ rFos'.index - 1 = i
    <3>1. rFos' \in FosRecord /\ ~rFos'.open /\ rFos'.index = i + 1
      BY <1>1, <2>2, FosCloses
    <3> QED
      BY <1>2, <3>1
  <2>4. FosTyped'
    BY <1>6, <2>3, SameFolder DEF FosTyped
  <2>5. (size - rFos.rem) + n = size
    BY <1>2, <1>3, <2>1
  <2>6. rOut'.pos = R!Before(rRep, i + 1)
    BY <1>2, <1>3, <1>6, <2>1
  <2>7. good => rSent = Upto(rRep)[i]
    BY <1>2, <1>4, <2>5, UptoIs DEF Unpacking
  <2>8. good => Between'
    BY <2>3, <2>6, <2>7, SameFolder DEF Between
  <2> QED
    BY <2>2, <2>4, <2>8
<1> QED
  BY <1>7, <1>8

\* A state of the thread with Update encoding, or waiting for it.
ThreadIsRight == Unpacking /\ (Called \/ AtWork \/ Answered)

LEMMA PipeStays ==
  ASSUME PipeIsRight, UNCHANGED <<rOffered, rReceived, rSent>>
  PROVE  PipeIsRight'
BY DEF PipeIsRight

LEMMA FosStays ==
  ASSUME UNCHANGED <<rFolders, rRep, rFos>>
  PROVE  /\ FosTyped /\ rOut' \in OutRecord => FosTyped'
         /\ UNCHANGED rSent /\ SentIs(0) => SentIs(0)'
         /\ OpenPos /\ rOut'.pos = rOut.pos => OpenPos'
         /\ Between /\ UNCHANGED rSent /\ rOut'.pos = rOut.pos => Between'
         /\ InFile /\ UNCHANGED rSent /\ rOut'.pos = rOut.pos => InFile'
<1>1. FosTyped /\ rOut' \in OutRecord => FosTyped'
  BY SameFolder DEF FosTyped
<1>2. UNCHANGED rSent /\ SentIs(0) => SentIs(0)'
  BY SameFolder DEF SentIs
<1>3. OpenPos /\ rOut'.pos = rOut.pos => OpenPos'
  BY SameFolder DEF OpenPos
<1>4. Between /\ UNCHANGED rSent /\ rOut'.pos = rOut.pos => Between'
  BY SameFolder DEF Between
<1> QED
  BY <1>1, <1>2, <1>3, <1>4 DEF InFile

LEMMA StartIsRight ==
  ASSUME ThreadIsRight, R!ThreadStarts, UNCHANGED <<rFolders, rRep>>
  PROVE  ThreadIsRight'
<1>1. Called /\ Unpacking
  BY DEF ThreadIsRight, R!ThreadStarts, AtWork, Answered
<1>2. rAt' = "decode" /\ ~rEv'.start /\ ~rEv'.finished /\ ~rEv'.exit
      /\ rEv' \in [start : BOOLEAN, finished : BOOLEAN, exit : BOOLEAN]
  BY <1>1 DEF R!ThreadStarts, Called, Unpacking
<1>3. UNCHANGED <<rFos, rOut, rSent, rOffered, rReceived, rWriter>>
  BY DEF R!ThreadStarts, R!pipeVars
<1>4. Settled
  BY <1>1, EmptySeq DEF Called, Fresh, Settled
<1>5. /\ R!PassEmpty(1) \in 1..(NumFiles(rRep) + 1) /\ R!Before(rRep, R!PassEmpty(1)) = 0
      /\ Upto(rRep)[R!PassEmpty(1) - 1] = <<>>
  <2>1. 1 \in 1..(NumFiles(rRep) + 1) /\ 1 - 1 = 0
    BY <1>1, FolderIs
  <2>2. R!Before(rRep, 1) = 0 /\ Upto(rRep)[0] = <<>>
    BY <1>1, BeforeIs, UptoIs DEF Unpacking
  <2> QED
    BY <1>1, <2>1, <2>2, PassEmptyIs DEF Unpacking
<1>6. FosTyped /\ Between
  <2>1. /\ rFos = [index |-> R!PassEmpty(1), open |-> FALSE, toPipe |-> FALSE, rem |-> 0, crcOk |-> TRUE]
        /\ rOut = [pos |-> 0, size |-> 0, wrong |-> FALSE] /\ rSent = <<>>
    BY <1>1 DEF Called, Fresh, R!FosInit, R!NoOut
  <2>2. R!PassEmpty(1) \in Nat
    BY <1>1, <1>5, FolderIs
  <2>3. rFos \in FosRecord /\ rOut \in OutRecord
    BY <2>1, <2>2 DEF FosRecord, OutRecord
  <2> QED
    BY <1>5, <2>1, <2>3 DEF FosTyped, Between
<1>7. FosTyped' /\ Between'
  BY <1>3, <1>6, FosStays DEF FosTyped
<1>8. Unpacking'
  BY <1>1, <1>2, <1>3, PipeStays DEF Unpacking
<1>9. AtWork'
  BY <1>2, <1>3, <1>4, <1>7 DEF AtWork, Settled
<1> QED
  BY <1>8, <1>9 DEF ThreadIsRight

LEMMA QuietThread ==
  ASSUME ThreadIsRight, UNCHANGED <<rFolders, rRep>>,
         R!Decode \/ R!DecodeReturns \/ R!PipeBroken \/ R!WriteEnds
           \/ R!ReleaseOutStream \/ R!SetFinishedEvent
  PROVE  ThreadIsRight'
<1>1. AtWork /\ Unpacking
  BY DEF ThreadIsRight, R!Decode, R!DecodeReturns, R!PipeBroken, R!WriteEnds,
         R!ReleaseOutStream, R!SetFinishedEvent, Called, Answered
<1>2. UNCHANGED <<rFos, rSent, rOffered, rReceived>>
  BY DEF R!Decode, R!DecodeReturns, R!PipeBroken, R!WriteEnds, R!ReleaseOutStream,
         R!SetFinishedEvent, R!pipeVars, R!P!WriteFails, R!P!CloseWrite
<1>3. PipeIsRight'
  BY <1>1, <1>2, PipeStays DEF Unpacking
<1>4. Done => rSent' = R!Wanted(rRep)'
  BY <1>2, SameFolder DEF Done
<1>5. CASE R!Decode
  <2>1. /\ rAt = "decode" /\ rAt' = "write" /\ UNCHANGED <<rEv, rWriter>>
    BY <1>5 DEF R!Decode, R!pipeVars
  <2>2. PICK n \in 1..(R!Total(rRep) + 1 - rOut.pos), wrong \in BOOLEAN :
          rOut' = [rOut EXCEPT !.size = n, !.wrong = wrong]
    BY <1>5 DEF R!Decode
  <2>3. FosTyped /\ rOut \in OutRecord
    BY <1>1, <2>1 DEF AtWork, FosTyped
  <2>4. n \in Nat
    <3>1. R!Total(rRep) \in Nat /\ rOut.pos \in Nat
      BY <1>1, <2>3, FolderIs DEF OutRecord
    <3> QED
      BY <3>1
  <2>5. rOut' \in OutRecord /\ rOut'.pos = rOut.pos
    BY <2>2, <2>3, <2>4 DEF OutRecord
  <2>6. FosTyped' /\ (Between \/ InFile)'
    BY <1>1, <1>2, <2>1, <2>5, FosStays DEF AtWork
  <2>7. AtWork'
    BY <1>1, <1>2, <2>1, <2>6 DEF AtWork, Settled
  <2> QED
    BY <1>1, <1>3, <2>1, <2>7 DEF ThreadIsRight, Unpacking
<1>6. CASE R!DecodeReturns
  <2>1. /\ rAt = "decode" /\ UNCHANGED <<rEv, rWriter, rOut>>
        /\ rAt' = "check" \/ (rAt' = "release" /\ rResult' = "error")
    BY <1>6 DEF R!DecodeReturns, R!Fails, R!pipeVars
  <2>2. FosTyped' /\ (Between \/ InFile)'
    BY <1>1, <1>2, <2>1, FosStays DEF AtWork, FosTyped
  <2>3. AtWork'
    BY <1>1, <1>2, <2>1, <2>2 DEF AtWork, Settled
  <2> QED
    BY <1>1, <1>3, <2>1, <2>3 DEF ThreadIsRight, Unpacking
<1>7. CASE R!PipeBroken
  <2>1. rAt' = "release" /\ rResult' = "error" /\ UNCHANGED rEv
    BY <1>7 DEF R!PipeBroken, R!Fails
  <2>2. AtWork'
    BY <1>1, <2>1 DEF AtWork
  <2> QED
    BY <1>1, <1>3, <2>1, <2>2 DEF ThreadIsRight, Unpacking
<1>8. CASE R!WriteEnds
  <2>1. rAt = "write" /\ rAt' = "decode" /\ UNCHANGED <<rEv, rWriter, rOut>>
    BY <1>8 DEF R!WriteEnds, R!pipeVars
  <2>2. FosTyped' /\ (Between \/ InFile)'
    BY <1>1, <1>2, <2>1, FosStays DEF AtWork, FosTyped
  <2>3. AtWork'
    BY <1>1, <1>2, <2>1, <2>2 DEF AtWork, Settled
  <2> QED
    BY <1>1, <1>3, <2>1, <2>3 DEF ThreadIsRight, Unpacking
<1>9. CASE R!ReleaseOutStream
  <2>1. /\ rAt = "release" /\ rAt' = "finish" /\ UNCHANGED <<rEv, rResult>> /\ rWriter' = "closed"
    BY <1>9 DEF R!ReleaseOutStream, R!P!CloseWrite
  <2>2. rResult' = "ok" => Done'
    BY <1>1, <1>2, <1>4, <2>1 DEF AtWork, Done, Settled
  <2>3. AtWork'
    BY <1>1, <2>1, <2>2 DEF AtWork
  <2> QED
    BY <1>1, <1>3, <2>1, <2>3 DEF ThreadIsRight, Unpacking
<1>10. CASE R!SetFinishedEvent
  <2>1. /\ rAt = "finish" /\ rAt' = "start" /\ UNCHANGED <<rResult, rWriter>>
        /\ rEv' = [rEv EXCEPT !.finished = TRUE]
    BY <1>10 DEF R!SetFinishedEvent, R!pipeVars
  <2>2. /\ ~rEv'.start /\ rEv'.finished /\ ~rEv'.exit
        /\ rEv' \in [start : BOOLEAN, finished : BOOLEAN, exit : BOOLEAN]
    BY <1>1, <2>1 DEF AtWork, Unpacking
  <2>3. rResult' = "ok" => Done'
    BY <1>1, <1>2, <1>4, <2>1 DEF AtWork, Done, Settled
  <2> QED
    BY <1>1, <1>3, <2>1, <2>2, <2>3 DEF ThreadIsRight, Unpacking, Answered
<1> QED
  BY <1>5, <1>6, <1>7, <1>8, <1>9, <1>10

LEMMA SkipIsRight ==
  ASSUME ThreadIsRight, UNCHANGED <<rFolders, rRep>>, R!Skip
  PROVE  ThreadIsRight'
<1>1. /\ AtWork /\ Unpacking /\ rAt = "write" /\ rFos.open /\ ~rFos.toPipe /\ R!Passed
      /\ UNCHANGED <<rSent, rOffered, rReceived, rWriter, rEv>>
  BY DEF ThreadIsRight, R!Skip, R!pipeVars, Called, Answered
<1>2. Settled /\ FosTyped /\ InFile
  BY <1>1 DEF AtWork, Between
<1>3. rFos.crcOk /\ ~rOut.wrong => SentIs(R!Cur)
  <2> DEFINE i == rFos.index
             k == FileSize(rRep, i) - rFos.rem
  <2>1. i \in 1..NumFiles(rRep) /\ k \in Nat /\ ~IsWanted(rRep, i) /\ R!Cur \in Nat
    <3>1. i \in 1..NumFiles(rRep) /\ rFos.rem \in Nat /\ rFos.rem <= FileSize(rRep, i)
      BY <1>2 DEF InFile, OpenPos, FosTyped, FosRecord
    <3>2. FileSize(rRep, i) \in Nat
      BY <1>1, <3>1, FolderIs
    <3> QED
      BY <1>1, <1>2, <3>1, <3>2, CurIs DEF InFile, OpenPos
  <2>2. k + 0 = k
    BY <2>1
  <2> HIDE DEF i, k
  <2>3. Part(rRep, i, k + R!Cur) = Part(rRep, i, k)
    BY <1>1, <2>1, PartGrows DEF Unpacking
  <2>4. rFos.crcOk => rSent = Part(rRep, i, k)
    BY <1>2, <2>2 DEF InFile, SentIs, i, k
  <2> QED
    BY <2>3, <2>4 DEF SentIs, i, k
<1>4. /\ FosTyped'
      /\ rAt' = "write" => (Between \/ InFile)'
      /\ rAt' = "empties" => Between'
      /\ rAt' \in {"write", "empties"} \/ (rAt' = "release" /\ rResult' = "error")
  BY <1>1, <1>2, <1>3, PassedIsRight DEF InFile
<1>5. AtWork'
  BY <1>1, <1>2, <1>4 DEF AtWork, Settled
<1>6. Unpacking'
  BY <1>1, PipeStays DEF Unpacking
<1> QED
  BY <1>5, <1>6 DEF ThreadIsRight

LEMMA WrittenIsRight ==
  ASSUME ThreadIsRight, UNCHANGED <<rFolders, rRep>>, R!PipeWritten
  PROVE  ThreadIsRight'
<1>1. /\ AtWork /\ Unpacking /\ rAt = "pipe" /\ R!Passed
      /\ UNCHANGED <<rSent, rOffered, rReceived, rEv>>
      /\ rWriter' = "idle" /\ Len(rReceived) = rOffered
  BY DEF ThreadIsRight, R!PipeWritten, R!P!WriteSucceeds, Called, Answered
<1>2. FosTyped /\ OpenPos /\ (rFos.crcOk /\ ~rOut.wrong => SentIs(R!Cur))
  BY <1>1 DEF AtWork
<1>3. /\ FosTyped'
      /\ rAt' = "write" => (Between \/ InFile)'
      /\ rAt' = "empties" => Between'
      /\ rAt' \in {"write", "empties"} \/ (rAt' = "release" /\ rResult' = "error")
  BY <1>1, <1>2, PassedIsRight
<1>4. Settled'
  BY <1>1 DEF Settled
<1>5. AtWork'
  BY <1>1, <1>3, <1>4 DEF AtWork
<1>6. Unpacking'
  BY <1>1, PipeStays DEF Unpacking
<1> QED
  BY <1>5, <1>6 DEF ThreadIsRight

\* The bytes that are passed to the binder are the next ones of the file, unless
\* they are wrong.
LEMMA BytesArePassed ==
  ASSUME Unpacking, FosTyped, InFile, rFos.toPipe, NEW more,
         more = [k \in 1..R!Cur |-> <<rRep, IF rOut.wrong THEN 0 ELSE rOut.pos + k>>]
  PROVE  /\ more \in Seq(Byte) /\ Len(more) = R!Cur
         /\ rFos.crcOk /\ ~rOut.wrong =>
              rSent \o more = Part(rRep, rFos.index, (FileSize(rRep, rFos.index) - rFos.rem) + R!Cur)
<1> DEFINE i == rFos.index
           k == FileSize(rRep, i) - rFos.rem
           n == R!Cur
<1>1. i \in 1..NumFiles(rRep) /\ k \in Nat /\ IsWanted(rRep, i) /\ n \in Nat
      /\ rOut.pos = R!Before(rRep, i) + k /\ rOut.pos \in Nat /\ rRep \in Nat
  <2>1. /\ i \in 1..NumFiles(rRep) /\ rFos.rem \in Nat /\ rFos.rem <= FileSize(rRep, i)
        /\ rOut.pos \in Nat
    BY DEF InFile, OpenPos, FosTyped, FosRecord, OutRecord
  <2>2. FileSize(rRep, i) \in Nat
    BY <2>1, FolderIs
  <2> QED
    BY SMTT(30), <2>1, <2>2, FolderIs, CurIs DEF InFile, OpenPos
<1> HIDE DEF n
<1>2. more \in Seq(Byte) /\ Len(more) = n
  <2>1. \A j \in 1..n : <<rRep, IF rOut.wrong THEN 0 ELSE rOut.pos + j>> \in Byte
    <3>1. \A j \in 1..n : (IF rOut.wrong THEN 0 ELSE rOut.pos + j) \in Nat
      BY <1>1
    <3> QED
      BY <1>1, <3>1 DEF Byte
  <2>2. more = [j \in 1..n |-> <<rRep, IF rOut.wrong THEN 0 ELSE rOut.pos + j>>]
    BY DEF n
  <2>3. more \in [1..n -> Byte]
    BY <2>1, <2>2
  <2>4. more \in Seq(Byte)
    BY ZenonT(40), <1>1, <2>3, SeqDef
  <2>5. DOMAIN more = 1..n /\ DOMAIN more = 1..Len(more) /\ Len(more) \in Nat
    BY <2>3, <2>4, LenProperties
  <2> DEFINE l == Len(more)
  <2>6. 1..n = 1..l /\ n \in Nat /\ l \in Nat
    BY <1>1, <2>5
  <2> HIDE DEF l
  <2>7. (n = 0 \/ n \in 1..n) /\ (l = 0 \/ l \in 1..l)
    BY <2>6
  <2>8. (n = 0 \/ n \in 1..l) /\ (l = 0 \/ l \in 1..n)
    BY <2>6, <2>7
  <2>9. n = l
    BY <2>6, <2>8
  <2> QED
    BY <2>4, <2>9 DEF l
<1>3. ASSUME rFos.crcOk, ~rOut.wrong
      PROVE  rSent \o more = Part(rRep, i, k + n)
  <2>1. more = BytesOf(rRep, R!Before(rRep, i) + k, n)
    BY <1>1, <1>3 DEF BytesOf, n
  <2>2. rSent = Part(rRep, i, k)
    <3>1. k + 0 = k
      BY <1>1
    <3> QED
      BY <1>3, <3>1 DEF InFile, SentIs
  <2> HIDE DEF i, k
  <2>3. Part(rRep, i, k + n) = Part(rRep, i, k) \o BytesOf(rRep, R!Before(rRep, i) + k, n)
    <3>1. rRep \in 1..Len(rFolders) /\ rFolders \in Databases
      BY DEF Unpacking
    <3> QED
      BY <1>1, <3>1, PartGrows
  <2> QED
    BY <2>1, <2>2, <2>3
<1> QED
  BY <1>2, <1>3 DEF n

LEMMA ToPipeIsRight ==
  ASSUME ThreadIsRight, UNCHANGED <<rFolders, rRep>>, R!WriteToPipe
  PROVE  ThreadIsRight'
<1> DEFINE more == [k \in 1..R!Cur |-> <<rRep, IF rOut.wrong THEN 0 ELSE rOut.pos + k>>]
<1>1. /\ AtWork /\ Unpacking /\ rAt = "write" /\ rAt' = "pipe" /\ rFos.open /\ rFos.toPipe
      /\ rSent' = rSent \o more /\ rOffered' = rOffered + R!Cur
      /\ UNCHANGED <<rFos, rOut, rReceived, rEv>>
  BY DEF ThreadIsRight, R!WriteToPipe, R!P!BeginWrite, Called, Answered
<1>2. Settled /\ FosTyped /\ InFile
  BY <1>1 DEF AtWork, Between
<1>3. more \in Seq(Byte) /\ Len(more) = R!Cur
      /\ (rFos.crcOk /\ ~rOut.wrong =>
            rSent \o more = Part(rRep, rFos.index, (FileSize(rRep, rFos.index) - rFos.rem) + R!Cur))
  BY <1>1, <1>2, BytesArePassed
<1> HIDE DEF more
<1>4. R!Cur \in Nat /\ R!Cur' = R!Cur
  BY <1>1, <1>2, CurIs DEF R!Cur, R!MinOf
<1>5. PipeIsRight'
  <2>1. /\ rOffered \in Nat /\ rSent \in Seq(Byte) /\ Len(rSent) = rOffered
        /\ rReceived \in Seq(Nat) /\ Len(rReceived) <= rOffered
        /\ \A k \in 1..Len(rReceived) : rReceived[k] = k
    BY <1>1 DEF Unpacking, PipeIsRight
  <2>2. rSent' \in Seq(Byte) /\ Len(rSent') = Len(rSent) + R!Cur
    BY <1>1, <1>3, <2>1, ConcatProperties
  <2>3. Len(rReceived) \in Nat
    BY <2>1, LenProperties
  <2>4. rOffered' \in Nat /\ Len(rReceived) <= rOffered' /\ Len(rSent') = rOffered'
    BY <1>1, <1>4, <2>1, <2>2, <2>3
  <2> QED
    BY <1>1, <2>1, <2>2, <2>4 DEF PipeIsRight
<1>6. FosTyped' /\ OpenPos'
  BY <1>1, <1>2, FosStays DEF FosTyped, InFile
<1>7. (rFos.crcOk /\ ~rOut.wrong => SentIs(R!Cur))'
  <2>1. rFos.crcOk /\ ~rOut.wrong =>
          rSent' = Part(rRep, rFos.index, (FileSize(rRep, rFos.index) - rFos.rem) + R!Cur)
    BY <1>1, <1>3
  <2> QED
    BY <1>1, <1>4, <2>1, SameFolder DEF SentIs
<1>8. AtWork'
  BY <1>1, <1>6, <1>7 DEF AtWork
<1> QED
  BY <1>1, <1>5, <1>8 DEF ThreadIsRight, Unpacking

LEMMA StatusesAreRead ==
  ASSUME ThreadIsRight, UNCHANGED <<rFolders, rRep>>, R!ReadStatuses
  PROVE  ThreadIsRight'
<1>1. /\ AtWork /\ Unpacking
      /\ UNCHANGED <<rEv, rOut, rSent, rWriter, rOffered, rReceived>>
  BY DEF ThreadIsRight, R!ReadStatuses, R!Check, R!ProcessEmptyFiles, R!OpenFile, R!pipeVars,
         Called, Answered
<1>2. Unpacking'
  BY <1>1, PipeStays DEF Unpacking
<1>3. Len(rFolders[rRep]) = NumFiles(rRep) /\ NumFiles(rRep) \in Nat
  BY <1>1, FolderIs DEF NumFiles
<1>4. CASE R!Check
  <2>1. /\ rAt = "check" /\ rAt' = "release" /\ UNCHANGED rFos
        /\ rResult' = "ok" => rFos.index = NumFiles(rRep) + 1
    BY <1>3, <1>4 DEF R!Check, R!Folder
  <2>2. Settled /\ (Between \/ InFile)
    BY <1>1, <2>1 DEF AtWork
  <2>3. ASSUME rResult' = "ok" PROVE rSent = R!Wanted(rRep)
    <3>1. Between /\ rFos.index - 1 = NumFiles(rRep)
      BY <1>3, <2>1, <2>2, <2>3 DEF InFile, OpenPos
    <3>2. rSent = Upto(rRep)[NumFiles(rRep)]
      BY <3>1 DEF Between
    <3> QED
      BY <1>1, <3>2, UptoIs DEF Unpacking
  <2>4. rResult' = "ok" => Done'
    BY <1>1, <2>2, <2>3, SameFolder DEF Done, Settled
  <2>5. AtWork'
    BY <1>1, <2>1, <2>4 DEF AtWork
  <2> QED
    BY <1>2, <2>5 DEF ThreadIsRight
<1>5. CASE R!ProcessEmptyFiles
  <2>1. rAt = "empties" /\ Settled /\ FosTyped /\ Between
    BY <1>1, <1>5 DEF R!ProcessEmptyFiles, AtWork
  <2>2. CASE rAt' = "release" /\ rResult' = "error"
    <3>1. AtWork'
      BY <1>1, <2>2 DEF AtWork
    <3> QED
      BY <1>2, <3>1 DEF ThreadIsRight
  <2>3. CASE rAt' = "write" /\ rFos' = [rFos EXCEPT !.index = R!PassEmpty(rFos.index)]
    <3> DEFINE p == R!PassEmpty(rFos.index)
    <3>1. /\ p \in 1..(NumFiles(rRep) + 1)
          /\ R!Before(rRep, p) = R!Before(rRep, rFos.index)
          /\ Upto(rRep)[p - 1] = Upto(rRep)[rFos.index - 1]
      BY <1>1, <2>1, PassEmptyIs DEF FosTyped, Unpacking
    <3> HIDE DEF p
    <3>2. rFos' \in FosRecord /\ rFos'.index = p /\ ~rFos'.open
      <4>1. p \in Nat /\ rFos \in FosRecord /\ ~rFos.open
        BY <1>3, <2>1, <3>1 DEF FosTyped, Between
      <4> QED
        BY <2>3, <4>1 DEF FosRecord, p
    <3>3. FosTyped'
      BY <1>1, <2>1, <3>1, <3>2, SameFolder DEF FosTyped
    <3>4. Between'
      BY <1>1, <2>1, <3>1, <3>2, SameFolder DEF Between
    <3>5. AtWork'
      BY <1>1, <2>1, <2>3, <3>3, <3>4 DEF AtWork, Settled
    <3> QED
      BY <1>2, <3>5 DEF ThreadIsRight
  <2> QED
    BY <1>5, <2>2, <2>3 DEF R!ProcessEmptyFiles, R!Fails
<1>6. CASE R!OpenFile
  <2>1. rAt = "write" /\ Settled /\ FosTyped /\ Between
    BY <1>1, <1>6 DEF R!OpenFile, AtWork, InFile, OpenPos
  <2>2. CASE rFos.index > Len(rFolders[rRep])
    <3>1. rAt' = "release" /\ rResult' = "error"
      BY <1>6, <2>2 DEF R!OpenFile, R!Folder, R!Fails
    <3>2. AtWork'
      BY <1>1, <3>1 DEF AtWork
    <3> QED
      BY <1>2, <3>2 DEF ThreadIsRight
  <2>3. CASE ~(rFos.index > Len(rFolders[rRep]))
    <3> DEFINE i == rFos.index
    <3>1. /\ rAt' = "write"
          /\ rFos' = [rFos EXCEPT !.open = TRUE, !.crcOk = TRUE, !.toPipe = IsWanted(rRep, i),
                        !.rem = FileSize(rRep, i)]
      BY <1>6, <2>1, <2>3 DEF R!OpenFile, R!Folder, IsWanted, FileSize
    <3>2. i \in 1..NumFiles(rRep) /\ rFos \in FosRecord /\ i \in Nat
      BY <1>3, <2>1, <2>3 DEF FosTyped
    <3>3. FileSize(rRep, i) \in Nat /\ IsWanted(rRep, i) \in BOOLEAN /\ R!Before(rRep, i) \in Nat
      BY <1>1, <3>2, FolderIs
    <3>4. rFos' \in FosRecord /\ rFos'.index = i /\ rFos'.open /\ rFos'.crcOk
          /\ rFos'.toPipe = IsWanted(rRep, i) /\ rFos'.rem = FileSize(rRep, i)
      <4> HIDE DEF i
      <4>1. rFos.index = i
        BY DEF i
      <4> QED
        BY <3>1, <3>2, <3>3, <4>1 DEF FosRecord
    <3>5. FosTyped'
      BY <1>1, <2>1, <3>4, SameFolder DEF FosTyped
    <3> HIDE DEF i
    <3>6. FileSize(rRep, rFos.index)' = FileSize(rRep, i) /\ IsWanted(rRep, rFos.index)' = IsWanted(rRep, i)
          /\ R!Before(rRep, rFos.index)' = R!Before(rRep, i)
          /\ Part(rRep, rFos.index, 0)' = Part(rRep, i, 0)
      BY <3>4, SameFolder
    <3>7. FileSize(rRep, i) - rFos'.rem = 0 /\ (FileSize(rRep, i) - rFos'.rem) + 0 = 0
          /\ rFos'.rem <= FileSize(rRep, i)
      BY <3>3, <3>4
    <3>8. rOut.pos = R!Before(rRep, i) /\ rSent = Upto(rRep)[i - 1]
      BY <2>1 DEF Between, i
    <3>9. OpenPos'
      <4>1. rOut'.pos = R!Before(rRep, i) + (FileSize(rRep, i) - rFos'.rem)
        BY <1>1, <3>3, <3>7, <3>8
      <4> QED
        BY <3>2, <3>4, <3>6, <3>7, <4>1, SameFolder DEF OpenPos
    <3>10. SentIs(0)'
      <4>1. rSent' = Part(rRep, i, 0)
        BY <1>1, <3>2, <3>8, PartGrows DEF Unpacking
      <4> QED
        BY <3>4, <3>6, <3>7, <4>1, SameFolder DEF SentIs
    <3>11. AtWork'
      BY <1>1, <2>1, <3>1, <3>5, <3>9, <3>10 DEF AtWork, InFile, Settled
    <3> QED
      BY <1>2, <3>11 DEF ThreadIsRight
  <2> QED
    BY <2>2, <2>3
<1> QED
  BY <1>4, <1>5, <1>6 DEF R!ReadStatuses

LEMMA ThreadGoesOn ==
  ASSUME ThreadIsRight, R!ThreadStep
  PROVE  ThreadIsRight' /\ UNCHANGED <<rFolders, rRep>>
<1>1. UNCHANGED <<rFolders, rRep>>
  BY DEF R!ThreadStep, R!mainVars, R!ThreadStarts, R!Decode, R!DecodeReturns, R!Skip, R!WriteToPipe,
         R!PipeWritten, R!PipeBroken, R!ReadStatuses, R!WriteEnds, R!ReleaseOutStream, R!SetFinishedEvent
<1> QED
  BY <1>1, StartIsRight, QuietThread, SkipIsRight, ToPipeIsRight, WrittenIsRight, StatusesAreRead
  DEF R!ThreadStep

-----------------------------------------------------------------------------
(* A step of either.                                                        *)

LEMMA RepackInit == R!Init => RepackInv
<1> SUFFICES ASSUME R!Init PROVE RepackInv
  OBVIOUS
<1> USE DEF R!Init
<1>1. rFolders \in Seq(Seq(OldFile) \ {<<>>}) /\ Len(rFolders) \in Nat
  BY RepackAssumption, LenProperties
<1>2. <<>> \in Seq(Seq(Byte)) /\ Len(<<>>) = 0
  BY EmptySeq
<1>3. R!TypeOK
  <2>1. 1 \in 1..(Len(rFolders) + 1)
    BY <1>1
  <2>2. rEv \in [start : BOOLEAN, finished : BOOLEAN, exit : BOOLEAN]
    OBVIOUS
  <2> QED
    BY <2>1, <2>2 DEF R!TypeOK
<1>4. DbIsRight
  BY <1>2 DEF DbIsRight
<1> QED
  BY <1>2, <1>3, <1>4 DEF RepackInv, NoErrorYet

LEMMA RepackNumbers ==
  ASSUME RepackInv
  PROVE  Len(rFolders) \in Nat /\ rRep \in Nat /\ rRep >= 1 /\ Len(rNewDb) \in Nat
<1>1. rFolders \in Seq(Seq(OldFile) \ {<<>>}) /\ Len(rFolders) \in Nat
  BY RepackAssumption, LenProperties DEF RepackInv, R!TypeOK
<1> QED
  BY <1>1, LenProperties DEF RepackInv, R!TypeOK, DbIsRight

LEMMA WorkIsRight ==
  ASSUME RepackInv, rRet = "ok", rMain \in {"encode", "wait"}
  PROVE  ThreadIsRight /\ Len(rNewDb) = rRep - 1 /\ rRep <= Len(rFolders)
<1>1. rRep \in 1..Len(rFolders)
  BY RepackNumbers DEF RepackInv, NoErrorYet
<1> QED
  BY <1>1 DEF RepackInv, NoErrorYet, ThreadIsRight, Unpacking, R!TypeOK

LEMMA ThreadStepInv ==
  ASSUME RepackInv, R!ThreadStep
  PROVE  RepackInv'
<1>1. UNCHANGED <<rFolders, rRep, rRet, rNewDb, rEof>> /\ rMain' \in {rMain, "crashed"}
  BY RepackAssumption
  DEF R!ThreadStep, R!mainVars, R!ThreadStarts, R!Decode, R!DecodeReturns, R!Skip, R!WriteToPipe,
      R!PipeWritten, R!PipeBroken, R!ReadStatuses, R!WriteEnds, R!ReleaseOutStream, R!SetFinishedEvent
<1>2. /\ rAt' \in {"none", "start", "decode", "write", "pipe", "empties", "check",
                   "release", "finish", "exited"}
      /\ rResult' \in {"ok", "error"} /\ rStatuses' \in BOOLEAN
      /\ rEv' \in [start : BOOLEAN, finished : BOOLEAN, exit : BOOLEAN]
  BY DEF RepackInv, R!TypeOK, R!ThreadStep, R!mainVars, R!ThreadStarts, R!Decode, R!DecodeReturns,
      R!Skip, R!WriteToPipe, R!PipeWritten, R!PipeBroken, R!ReadStatuses, R!WriteEnds,
      R!ReleaseOutStream, R!SetFinishedEvent, R!Passed, R!Fails, R!Check, R!ProcessEmptyFiles,
      R!OpenFile
<1>3. R!TypeOK'
  BY <1>1, <1>2 DEF RepackInv, R!TypeOK
<1>4. DbIsRight'
  BY <1>1, DbStays DEF RepackInv
<1>5. rRet' = "ok" \/ FailedHere'
  BY <1>1 DEF RepackInv, FailedHere
<1>6. ASSUME rRet' = "ok" PROVE NoErrorYet'
  <2>1. NoErrorYet /\ rRet = "ok"
    BY <1>1, <1>6 DEF RepackInv
  <2>2. CASE rMain' = "crashed"
    BY <2>2 DEF NoErrorYet
  <2>3. CASE rMain' = rMain /\ rMain \in {"encode", "wait"}
    <3>1. ThreadIsRight' /\ Len(rNewDb) = rRep - 1 /\ rRep <= Len(rFolders)
      BY <2>1, <2>3, WorkIsRight, ThreadGoesOn
    <3> QED
      BY <1>1, <2>3, <3>1 DEF NoErrorYet, ThreadIsRight, Unpacking
  <2>4. CASE rMain \in {"create", "next", "start", "free", "close"}
    <3>1. (rAt = "none" \/ rAt = "start") /\ ~rEv.start
      BY <2>1, <2>4 DEF NoErrorYet, Idle
    <3> QED
      BY <3>1 DEF R!ThreadStep, R!ThreadStarts, R!Decode, R!DecodeReturns, R!Skip, R!WriteToPipe,
                  R!PipeWritten, R!PipeBroken, R!ReadStatuses, R!Check, R!ProcessEmptyFiles,
                  R!OpenFile, R!WriteEnds, R!ReleaseOutStream, R!SetFinishedEvent
  <2>5. CASE rMain' = rMain /\ rMain \in {"exit", "startEvent", "join", "ended", "crashed"}
    BY <1>1, <2>1, <2>5 DEF NoErrorYet
  <2> QED
    BY <1>1, <2>2, <2>3, <2>4, <2>5 DEF RepackInv, R!TypeOK
<1> QED
  BY <1>3, <1>4, <1>5, <1>6 DEF RepackInv

\* The folder is done.
LEMMA InputIsRight ==
  ASSUME PipeIsRight, Done
  PROVE  R!Input \in Seq(Byte) /\ R!Input = R!Wanted(rRep)
<1>1. /\ rSent \in Seq(Byte) /\ Len(rSent) = Len(rReceived) /\ Len(rReceived) \in Nat
      /\ DOMAIN rReceived = 1..Len(rReceived)
      /\ \A k \in 1..Len(rReceived) : rReceived[k] = k
  BY LenProperties DEF PipeIsRight, Done, Settled
<1>2. R!Input = [k \in 1..Len(rSent) |-> rSent[k]]
  BY <1>1 DEF R!Input
<1>3. rSent = [k \in 1..Len(rSent) |-> rSent[k]]
  BY <1>1, LenProperties
<1> QED
  BY <1>1, <1>2, <1>3 DEF Done

\* The binder takes part in the steps of both.
LEMMA ReadIsRight ==
  ASSUME RepackInv, R!EncoderReads \/ R!ReadReturns
  PROVE  RepackInv'
<1>1. /\ UNCHANGED <<rFolders, rMain, rRep, rRet, rStatuses, rNewDb, rAt, rResult, rFos, rOut, rSent,
                     rEv, rWriter, rOffered>>
      /\ rEof' \in BOOLEAN
  BY DEF RepackInv, R!TypeOK, R!EncoderReads, R!ReadReturns, R!mainVars, R!threadVars,
         R!P!BeginRead, R!P!Deliver, R!P!EndOfStream
<1>2. R!TypeOK'
  BY <1>1 DEF RepackInv, R!TypeOK
<1>3. DbIsRight' /\ (rRet' = "ok" \/ FailedHere')
  BY <1>1, DbStays DEF RepackInv, FailedHere
<1>4. rReceived' = rReceived
        \/ \E n \in 1..MaxRead : /\ rWriter = "writing" /\ Len(rReceived) + n <= rOffered
                                /\ rReceived' = rReceived \o [i \in 1..n |-> Len(rReceived) + i]
  BY DEF R!EncoderReads, R!ReadReturns, R!P!BeginRead, R!P!Deliver, R!P!EndOfStream
<1>5. ASSUME rRet = "ok", rMain \in {"encode", "wait"}
      PROVE  PipeIsRight' /\ (Called \/ AtWork \/ Answered)'
  <2>1. ThreadIsRight /\ Unpacking /\ PipeIsRight
    BY <1>5, WorkIsRight DEF ThreadIsRight, Unpacking
  <2>2. PipeIsRight'
    <3>1. CASE rReceived' = rReceived
      BY <1>1, <2>1, <3>1, PipeStays
    <3>2. ASSUME NEW n \in 1..MaxRead, Len(rReceived) + n <= rOffered,
                 rReceived' = rReceived \o [i \in 1..n |-> Len(rReceived) + i]
          PROVE  PipeIsRight'
      <4>1. n \in Nat /\ rReceived \in Seq(Nat) /\ Len(rReceived) \in Nat
        BY <2>1, <3>2, BinderAssumption, LenProperties DEF PipeIsRight
      <4> DEFINE more == [i \in 1..n |-> Len(rReceived) + i]
      <4>2. more \in Seq(Nat) /\ Len(more) = n /\ \A i \in 1..n : more[i] = Len(rReceived) + i
        BY <4>1, SeqDef, LenProperties
      <4> HIDE DEF more
      <4>3. /\ rReceived' \in Seq(Nat) /\ Len(rReceived') = Len(rReceived) + n
            /\ \A i \in 1..(Len(rReceived) + n) :
                 rReceived'[i] = IF i <= Len(rReceived) THEN rReceived[i] ELSE more[i - Len(rReceived)]
        BY <3>2, <4>1, <4>2, ConcatProperties DEF more
      <4>4. ASSUME NEW i \in 1..(Len(rReceived) + n) PROVE rReceived'[i] = i
        <5>1. CASE i <= Len(rReceived)
          <6>1. i \in 1..Len(rReceived)
            BY <4>1, <5>1
          <6> QED
            BY <2>1, <4>3, <5>1, <6>1 DEF PipeIsRight
        <5>2. CASE ~(i <= Len(rReceived))
          <6>1. i - Len(rReceived) \in 1..n /\ Len(rReceived) + (i - Len(rReceived)) = i
            BY <4>1, <5>2
          <6> QED
            BY <4>2, <4>3, <5>2, <6>1
        <5> QED
          BY <5>1, <5>2
      <4> QED
        BY <1>1, <2>1, <3>2, <4>3, <4>4 DEF PipeIsRight
    <3> QED
      BY <1>4, <3>1, <3>2
  <2>3. CASE rReceived' = rReceived
    <3>1. Called => Called'
      BY <1>1, <2>3, SameFolder DEF Called, Fresh, R!NoOut
    <3>2. Settled => Settled'
      BY <1>1, <2>3 DEF Settled
    <3>3. Done => Done'
      BY <1>1, <3>2, SameFolder DEF Done
    <3>4. /\ FosTyped => FosTyped'
          /\ OpenPos => OpenPos'
          /\ Between => Between'
          /\ InFile => InFile'
      BY <1>1, FosStays DEF FosTyped
    <3>5. SentIs(R!Cur) => SentIs(R!Cur)'
      BY <1>1, SameFolder DEF SentIs, R!Cur, R!MinOf
    <3>6. ASSUME AtWork PROVE AtWork'
      <4>1. CASE rAt \in {"decode", "write", "check", "empties"}
        <5>1. Settled /\ FosTyped /\ (Between \/ InFile) /\ (rAt = "empties" => Between)
          BY <3>6, <4>1 DEF AtWork
        <5>2. Settled' /\ FosTyped' /\ (Between \/ InFile)' /\ (rAt = "empties" => Between')
          BY <3>2, <3>4, <5>1
        <5>3. ~rEv'.start /\ ~rEv'.finished /\ rAt' = rAt
          BY <1>1, <3>6 DEF AtWork
        <5> QED
          BY <4>1, <5>2, <5>3 DEF AtWork
      <4>2. CASE rAt = "pipe"
        <5>1. FosTyped /\ OpenPos /\ rFos.toPipe /\ (rFos.crcOk /\ ~rOut.wrong => SentIs(R!Cur))
          BY <3>6, <4>2 DEF AtWork
        <5>2. FosTyped' /\ OpenPos' /\ rFos'.toPipe
              /\ (rFos'.crcOk /\ ~rOut'.wrong => SentIs(R!Cur)')
          BY <1>1, <3>4, <3>5, <5>1
        <5>3. ~rEv'.start /\ ~rEv'.finished /\ rAt' = rAt
          BY <1>1, <3>6 DEF AtWork
        <5> QED
          BY <4>2, <5>2, <5>3 DEF AtWork
      <4>3. CASE rAt \in {"release", "finish"}
        BY <1>1, <3>3, <3>6, <4>3 DEF AtWork
      <4> QED
        BY <3>6, <4>1, <4>2, <4>3 DEF AtWork
    <3>7. Answered => Answered'
      BY <1>1, <3>3 DEF Answered
    <3> QED
      BY <2>1, <2>2, <3>1, <3>6, <3>7 DEF ThreadIsRight
  <2>4. CASE rWriter = "writing"
    <3>1. ~Settled /\ ~Called /\ ~Done
      BY <2>4 DEF Settled, Called, Fresh, Done
    <3>2. /\ FosTyped => FosTyped'
          /\ OpenPos => OpenPos'
      BY <1>1, FosStays DEF FosTyped
    <3>3. SentIs(R!Cur) => SentIs(R!Cur)'
      BY <1>1, SameFolder DEF SentIs, R!Cur, R!MinOf
    <3>4. AtWork => AtWork'
      BY <1>1, <3>1, <3>2, <3>3 DEF AtWork
    <3>5. Answered => Answered'
      BY <1>1, <3>1 DEF Answered
    <3> QED
      BY <2>1, <2>2, <3>1, <3>4, <3>5 DEF ThreadIsRight
  <2> QED
    BY <1>4, <2>3, <2>4
<1>6. ASSUME rRet = "ok" PROVE NoErrorYet'
  <2>1. NoErrorYet
    BY <1>6 DEF RepackInv
  <2>2. CASE rMain \in {"encode", "wait"}
    BY <1>1, <1>5, <1>6, <2>1, <2>2 DEF NoErrorYet
  <2>3. CASE rMain = "start"
    <3>1. Fresh /\ Idle
      BY <2>1, <2>3 DEF NoErrorYet
    <3>2. rReceived' = rReceived
      BY <1>4, <3>1 DEF Fresh
    <3>3. Fresh' /\ Idle'
      BY <1>1, <3>1, <3>2, SameFolder DEF Fresh, Idle, R!NoOut
    <3> QED
      BY <1>1, <2>1, <2>3, <3>3 DEF NoErrorYet
  <2>4. CASE rMain \notin {"encode", "wait", "start"}
    <3>1. Idle => Idle'
      BY <1>1 DEF Idle
    <3> QED
      BY <1>1, <2>1, <2>4, <3>1 DEF NoErrorYet
  <2> QED
    BY <2>2, <2>3, <2>4
<1> QED
  BY <1>1, <1>2, <1>3, <1>6 DEF RepackInv

\* A step of the caller that leaves the archive as it is.
LEMMA CallerInv ==
  ASSUME RepackInv, R!TypeOK', UNCHANGED <<rFolders, rNewDb>>,
         rRet' = "ok" \/ FailedHere', rRet' = "ok" => NoErrorYet'
  PROVE  RepackInv'
BY DbStays DEF RepackInv

LEMMA LoopInv ==
  ASSUME RepackInv, R!Create \/ R!CopyFolder \/ R!Prepare \/ R!Start
  PROVE  RepackInv'
<1>1. rRet = "ok"
  BY DEF RepackInv, FailedHere, R!Create, R!CopyFolder, R!Prepare, R!Start, R!InLoop
<1>2. NoErrorYet /\ R!TypeOK /\ DbIsRight
  BY <1>1 DEF RepackInv
<1>3. Len(rFolders) \in Nat /\ rRep \in Nat /\ rRep >= 1 /\ Len(rNewDb) \in Nat
  BY RepackNumbers
<1>4. CASE R!Create
  <2>1. /\ UNCHANGED <<rFolders, rRep, rRet, rStatuses, rNewDb, rEof, rResult, rEv>>
        /\ rMain = "create" /\ rMain' = "next" /\ rAt' = "start"
    BY <1>4 DEF R!Create
  <2>2. R!TypeOK'
    BY <1>2, <2>1 DEF R!TypeOK
  <2>3. NoErrorYet'
    BY <1>2, <1>3, <2>1 DEF NoErrorYet, Idle
  <2> QED
    BY <1>1, <2>1, <2>2, <2>3, CallerInv
<1>5. CASE R!CopyFolder
  <2>1. /\ rMain = "next" /\ rRep <= Len(rFolders) /\ R!AllStay /\ rRep' = rRep + 1
        /\ UNCHANGED <<rFolders, rMain, rRet, rStatuses, rEof, rAt, rResult, rEv>>
        /\ rNewDb' = Append(rNewDb, [k \in 1..R!Total(rRep) |-> <<rRep, k>>])
    BY <1>5 DEF R!CopyFolder, R!InLoop, R!threadVars
  <2>2. rRep \in 1..Len(rFolders) /\ rFolders \in Databases
    BY <1>2, <1>3, <2>1 DEF R!TypeOK
  <2>3. R!Total(rRep) \in Nat /\ BytesOf(rRep, 0, R!Total(rRep)) = R!Wanted(rRep)
    BY <2>1, <2>2, CopyIsRight
  <2>4. BytesOf(rRep, 0, R!Total(rRep)) \in Seq(Byte)
    BY <1>3, <2>3, BytesAreTyped
  <2>5. [k \in 1..R!Total(rRep) |-> <<rRep, k>>] = BytesOf(rRep, 0, R!Total(rRep))
    <3>1. \A k \in 1..R!Total(rRep) : 0 + k = k
      BY <2>3
    <3> QED
      BY <3>1 DEF BytesOf
  <2>6. Len(rNewDb) = rRep - 1 /\ Idle /\ Len(rNewDb) + 1 = rRep
    BY <1>2, <1>3, <2>1 DEF NoErrorYet
  <2> DEFINE w == R!Wanted(rRep)
  <2>7. w \in Seq(Byte) /\ w = R!Wanted(Len(rNewDb) + 1) /\ rNewDb' = Append(rNewDb, w)
    BY <2>1, <2>3, <2>4, <2>5, <2>6
  <2> HIDE DEF w
  <2>8. DbIsRight' /\ Len(rNewDb') = Len(rNewDb) + 1
    BY <1>2, <2>1, <2>7, DbGrows
  <2>9. R!TypeOK'
    BY <1>2, <1>3, <2>1 DEF R!TypeOK
  <2>10. NoErrorYet'
    BY <1>3, <2>1, <2>6, <2>8 DEF NoErrorYet, Idle
  <2> QED
    BY <1>1, <2>1, <2>8, <2>9, <2>10 DEF RepackInv
<1>6. CASE R!Prepare
  <2>1. /\ rMain = "next" /\ rRep <= Len(rFolders)
        /\ UNCHANGED <<rFolders, rRep, rNewDb, rAt, rResult, rEv>>
        /\ rStatuses' = TRUE /\ rEof' = FALSE
        /\ rFos' = R!FosInit /\ rOut' = R!NoOut /\ rSent' = <<>>
        /\ rWriter' = "idle" /\ rOffered' = 0 /\ rReceived' = <<>>
        /\ (rMain' = "start" /\ rRet' = rRet) \/ (rMain' = "free" /\ rRet' = "error")
    BY <1>6 DEF R!Prepare, R!InLoop, R!P!Restart
  <2>2. R!TypeOK'
    BY <1>1, <1>2, <2>1 DEF R!TypeOK
  <2>3. Fresh'
    BY <2>1, SameFolder DEF Fresh, R!NoOut
  <2>4. rMain' = "start" => NoErrorYet'
    BY <1>2, <2>1, <2>3 DEF NoErrorYet, Idle
  <2> QED
    BY <1>1, <2>1, <2>2, <2>4, CallerInv DEF FailedHere
<1>7. CASE R!Start
  <2>1. /\ rMain = "start" /\ rMain' = "encode"
        /\ rEv' = [rEv EXCEPT !.exit = FALSE, !.start = TRUE]
        /\ UNCHANGED <<rFolders, rRep, rRet, rStatuses, rNewDb, rEof, rAt, rResult, rFos, rOut, rSent,
                       rWriter, rOffered, rReceived>>
    BY <1>7 DEF R!Start, R!threadVars, R!pipeVars
  <2>2. rEv' \in [start : BOOLEAN, finished : BOOLEAN, exit : BOOLEAN]
        /\ ~rEv'.exit /\ rEv'.start /\ rEv'.finished = rEv.finished
    BY <1>2, <2>1 DEF R!TypeOK
  <2>3. R!TypeOK'
    BY <1>2, <2>1, <2>2 DEF R!TypeOK
  <2>4. Idle /\ Fresh /\ Len(rNewDb) = rRep - 1 /\ rRep <= Len(rFolders)
    BY <1>2, <2>1 DEF NoErrorYet
  <2>5. Called'
    BY <2>1, <2>2, <2>4, SameFolder DEF Called, Idle, Fresh, R!NoOut
  <2>6. PipeIsRight'
    <3>1. rOffered' = 0 /\ rSent' = <<>> /\ rReceived' = <<>>
      BY <2>1, <2>4 DEF Fresh
    <3>2. <<>> \in Seq(Byte) /\ <<>> \in Seq(Nat) /\ Len(<<>>) = 0 /\ 1..0 = {}
      BY EmptySeq
    <3> QED
      BY <3>1, <3>2 DEF PipeIsRight
  <2>7. NoErrorYet'
    BY <2>1, <2>2, <2>4, <2>5, <2>6 DEF NoErrorYet
  <2> QED
    BY <1>1, <2>1, <2>3, <2>7, CallerInv
<1> QED
  BY <1>4, <1>5, <1>6, <1>7

LEMMA EncodeInv ==
  ASSUME RepackInv, R!CreateFails \/ R!EncodeSucceeds \/ R!EncodeFails \/ R!WaitFinish
  PROVE  RepackInv'
<1>1. R!TypeOK
  BY DEF RepackInv
<1>2. CASE R!CreateFails \/ R!EncodeFails
  <2>1. /\ rMain' \in {"ended", "free"} /\ rRet' = "error"
        /\ UNCHANGED <<rFolders, rRep, rStatuses, rNewDb, rEof, rAt, rResult, rEv>>
    BY <1>2 DEF R!CreateFails, R!EncodeFails, R!threadVars
  <2>2. R!TypeOK'
    BY <1>1, <2>1 DEF R!TypeOK
  <2> QED
    BY <2>1, <2>2, CallerInv DEF FailedHere
<1>3. CASE R!EncodeSucceeds
  <2>1. /\ rMain = "encode" /\ rMain' = "wait"
        /\ UNCHANGED <<rFolders, rRep, rRet, rStatuses, rNewDb, rEof, rAt, rResult, rFos, rOut, rSent,
                       rEv, rWriter, rOffered, rReceived>>
    BY <1>3 DEF R!EncodeSucceeds, R!threadVars, R!pipeVars
  <2>2. R!TypeOK'
    BY <1>1, <2>1 DEF R!TypeOK
  <2>3. rRet = "ok" /\ NoErrorYet
    BY <2>1 DEF RepackInv, FailedHere
  <2>4. Called => Called'
    BY <2>1, SameFolder DEF Called, Fresh, R!NoOut
  <2>5. Done => Done'
    BY <2>1, SameFolder DEF Done, Settled
  <2>6. AtWork => AtWork'
    <3>1. /\ Settled => Settled'
          /\ FosTyped => FosTyped'
          /\ OpenPos => OpenPos'
          /\ Between => Between'
          /\ InFile => InFile'
      BY <2>1, FosStays DEF FosTyped, Settled
    <3>2. SentIs(R!Cur) => SentIs(R!Cur)'
      BY <2>1, SameFolder DEF SentIs, R!Cur, R!MinOf
    <3> QED
      BY <2>1, <2>5, <3>1, <3>2 DEF AtWork
  <2>7. Answered => Answered'
    BY <2>1, <2>5 DEF Answered
  <2>8. PipeIsRight => PipeIsRight'
    BY <2>1, PipeStays
  <2>9. NoErrorYet'
    BY <2>1, <2>3, <2>4, <2>6, <2>7, <2>8 DEF NoErrorYet
  <2> QED
    BY <2>1, <2>2, <2>3, <2>9, CallerInv
<1>4. CASE R!WaitFinish
  <2>1. /\ rMain = "wait" /\ rEv.finished /\ rMain' = "free"
        /\ rEv' = [rEv EXCEPT !.finished = FALSE]
        /\ UNCHANGED <<rFolders, rRep, rStatuses, rEof, rAt, rResult>>
        /\ IF rResult = "ok" THEN rNewDb' = Append(rNewDb, R!Input) /\ rRet' = rRet
           ELSE rRet' = "error" /\ rNewDb' = rNewDb
    BY <1>4 DEF R!WaitFinish, R!threadVars
  <2>2. rRet = "ok" /\ DbIsRight
    BY <2>1 DEF RepackInv, FailedHere
  <2>3. ThreadIsRight /\ Len(rNewDb) = rRep - 1 /\ rRep <= Len(rFolders)
    BY <2>1, <2>2, WorkIsRight
  <2>4. /\ rAt = "start" /\ ~rEv.start /\ PipeIsRight
        /\ rResult = "ok" => Done
    BY <2>1, <2>3 DEF ThreadIsRight, Unpacking, Called, AtWork, Answered
  <2>5. rEv' \in [start : BOOLEAN, finished : BOOLEAN, exit : BOOLEAN]
        /\ ~rEv'.finished /\ ~rEv'.start
    BY <1>1, <2>1, <2>4 DEF R!TypeOK
  <2>6. R!TypeOK'
    BY <1>1, <2>1, <2>2, <2>5 DEF R!TypeOK
  <2>7. CASE rResult # "ok"
    BY <2>1, <2>6, <2>7, CallerInv DEF FailedHere
  <2>8. CASE rResult = "ok"
    <3>1. R!Input \in Seq(Byte) /\ R!Input = R!Wanted(rRep)
      BY <2>4, <2>8, InputIsRight
    <3>2. Len(rNewDb) + 1 = rRep /\ Len(rNewDb) \in Nat
      BY <2>3, RepackNumbers
    <3> DEFINE w == R!Input
    <3>3. w \in Seq(Byte) /\ w = R!Wanted(Len(rNewDb) + 1) /\ rNewDb' = Append(rNewDb, w)
      BY <2>1, <2>8, <3>1, <3>2
    <3> HIDE DEF w
    <3>4. DbIsRight' /\ Len(rNewDb') = Len(rNewDb) + 1
      BY <2>1, <2>2, <3>3, DbGrows
    <3>5. NoErrorYet'
      BY <2>1, <2>3, <2>4, <2>5, <3>2, <3>4 DEF NoErrorYet, Idle
    <3> QED
      BY <2>1, <2>2, <2>6, <2>8, <3>4, <3>5 DEF RepackInv
  <2> QED
    BY <2>7, <2>8
<1> QED
  BY <1>2, <1>3, <1>4

LEMMA EndInv ==
  ASSUME RepackInv,
         R!FreeStatuses \/ R!ReleaseInStream \/ R!LoopEnds \/ R!SetExitEvent \/ R!SetStartEvent
           \/ R!Join
  PROVE  RepackInv'
<1>1. R!TypeOK /\ (rRet = "ok" => NoErrorYet)
  BY DEF RepackInv
<1>2. UNCHANGED <<rFolders, rNewDb, rAt, rResult, rEof>>
  BY DEF R!FreeStatuses, R!ReleaseInStream, R!LoopEnds, R!SetExitEvent, R!SetStartEvent, R!Join,
         R!threadVars
<1>3. Len(rFolders) \in Nat /\ rRep \in Nat /\ rRep >= 1 /\ Len(rNewDb) \in Nat /\ rRep <= Len(rFolders) + 1
  BY <1>1, RepackNumbers DEF R!TypeOK
<1>4. CASE R!FreeStatuses
  <2>1. rMain = "free" /\ rMain' = "close" /\ rStatuses' = FALSE /\ UNCHANGED <<rRep, rRet, rEv>>
    BY <1>4 DEF R!FreeStatuses
  <2>2. R!TypeOK'
    BY <1>1, <1>2, <2>1 DEF R!TypeOK
  <2>3. rRet' = "ok" => NoErrorYet'
    BY <1>1, <1>2, <2>1 DEF NoErrorYet, Idle
  <2> QED
    BY <1>2, <2>1, <2>2, <2>3, CallerInv DEF FailedHere
<1>5. CASE R!ReleaseInStream
  <2>1. /\ rMain = "close" /\ UNCHANGED <<rRet, rStatuses, rEv>>
        /\ IF rRet = "ok" THEN rMain' = "next" /\ rRep' = rRep + 1
           ELSE rMain' = "exit" /\ rRep' = rRep
    BY <1>5 DEF R!ReleaseInStream
  <2>2. rRet = "ok" => Idle /\ Len(rNewDb) = rRep /\ rRep <= Len(rFolders)
    BY <1>1, <2>1 DEF NoErrorYet
  <2>3. rRep' \in 1..(Len(rFolders) + 1)
    BY <1>3, <2>1, <2>2
  <2>4. R!TypeOK'
    BY <1>1, <1>2, <2>1, <2>3 DEF R!TypeOK
  <2>5. rRet = "ok" => NoErrorYet'
    BY <1>2, <1>3, <2>1, <2>2 DEF NoErrorYet, Idle
  <2>6. rRet = "ok" \/ rRet = "error"
    BY <1>1 DEF R!TypeOK
  <2> QED
    BY <1>2, <2>1, <2>4, <2>5, <2>6, CallerInv DEF FailedHere
<1>6. CASE R!LoopEnds
  <2>1. /\ rMain = "next" /\ rMain' = "exit" /\ UNCHANGED <<rRep, rStatuses, rEv>>
        /\ (rRep > Len(rFolders) /\ rRet' = rRet) \/ rRet' = "error"
    BY <1>6 DEF R!LoopEnds
  <2>2. R!TypeOK'
    BY <1>1, <1>2, <2>1 DEF R!TypeOK
  <2>3. rRet' = "ok" => Len(rNewDb) = rRep - 1 /\ rRep > Len(rFolders)
    BY <1>1, <2>1 DEF NoErrorYet
  <2>4. rRet' = "ok" => NoErrorYet'
    BY <1>2, <1>3, <2>1, <2>3 DEF NoErrorYet
  <2> QED
    BY <1>2, <2>1, <2>2, <2>4, CallerInv DEF FailedHere
<1>7. CASE R!SetExitEvent \/ R!SetStartEvent \/ R!Join
  <2>1. /\ rMain \in {"exit", "startEvent", "join"} /\ rMain' \in {"startEvent", "join", "ended"}
        /\ UNCHANGED <<rRep, rRet, rStatuses>>
        /\ rEv' \in {rEv, [rEv EXCEPT !.exit = TRUE], [rEv EXCEPT !.start = TRUE]}
    BY <1>7 DEF R!SetExitEvent, R!SetStartEvent, R!Join
  <2>2. rEv' \in [start : BOOLEAN, finished : BOOLEAN, exit : BOOLEAN]
    BY <1>1, <2>1 DEF R!TypeOK
  <2>3. R!TypeOK'
    BY <1>1, <1>2, <2>1, <2>2 DEF R!TypeOK
  <2>4. rRet' = "ok" => NoErrorYet'
    BY <1>1, <1>2, <2>1 DEF NoErrorYet
  <2> QED
    BY <1>2, <2>1, <2>3, <2>4, CallerInv DEF FailedHere
<1> QED
  BY <1>4, <1>5, <1>6, <1>7

LEMMA RepackStays ==
  ASSUME RepackInv, UNCHANGED R!vars
  PROVE  RepackInv'
<1>1. UNCHANGED <<rFolders, rMain, rRep, rRet, rStatuses, rNewDb, rEof, rAt, rResult, rFos, rOut,
                  rSent, rEv, rWriter, rReader, rWritten, rOffered, rReceived>>
  BY DEF R!vars, R!mainVars, R!threadVars, R!pipeVars
<1>2. R!TypeOK'
  BY <1>1 DEF RepackInv, R!TypeOK
<1>3. Done => Done'
  BY <1>1, SameFolder DEF Done, Settled
<1>4. /\ Settled => Settled'
      /\ FosTyped => FosTyped'
      /\ OpenPos => OpenPos'
      /\ Between => Between'
      /\ InFile => InFile'
  BY <1>1, FosStays DEF FosTyped, Settled
<1>5. SentIs(R!Cur) => SentIs(R!Cur)'
  BY <1>1, SameFolder DEF SentIs, R!Cur, R!MinOf
<1>6. AtWork => AtWork'
  BY <1>1, <1>3, <1>4, <1>5 DEF AtWork
<1>7. /\ Fresh => Fresh'
      /\ Called => Called'
      /\ Answered => Answered'
      /\ PipeIsRight => PipeIsRight'
  BY <1>1, <1>3, PipeStays, SameFolder DEF Called, Fresh, R!NoOut, Answered
<1>8. NoErrorYet => NoErrorYet'
  BY <1>1, <1>6, <1>7 DEF NoErrorYet, Idle
<1> QED
  BY <1>1, <1>2, <1>8, CallerInv DEF RepackInv, FailedHere

LEMMA RepackStep == RepackInv /\ [R!Next]_(R!vars) => RepackInv'
<1> SUFFICES ASSUME RepackInv, [R!Next]_(R!vars) PROVE RepackInv'
  OBVIOUS
<1>1. CASE R!Next
  BY <1>1, LoopInv, EncodeInv, EndInv, ReadIsRight, ThreadStepInv, RepackStays
  DEF R!Next, R!MainStep, R!Terminating
<1>2. CASE UNCHANGED R!vars
  BY <1>2, RepackStays
<1> QED
  BY <1>1, <1>2

LEMMA RepackIsRight == RepackInv => R!FoldersAreRight
<1> SUFFICES ASSUME RepackInv PROVE R!FoldersAreRight
  OBVIOUS
<1>1. DOMAIN rNewDb = 1..Len(rNewDb)
  BY LenProperties DEF RepackInv, DbIsRight
<1> QED
  BY <1>1 DEF RepackInv, DbIsRight, NoErrorYet, R!FoldersAreRight

\* Whatever the decoder and the encoder do, every folder that is written to the new
\* archive holds the wanted files of the old one, complete, in order and right, and
\* an update that returns S_OK has all the folders (CThreadDecoder,
\* CFolderOutStream2 and the loop of Update in 7zUpdate.cpp).
THEOREM EveryFolderIsRight == R!Spec => []R!FoldersAreRight
BY RepackInit, RepackStep, RepackIsRight, PTL DEF R!Spec

-----------------------------------------------------------------------------
(* All parts together.                                                      *)

LEMMA PartsAgree == mcSpec => mcInit /\ [][mcNext]_mcVars
BY PTL DEF mcSpec

LEMMA PartOfZip == [mcNext]_mcVars => [Next]_vars
BY DEF mcNext, mcVars, Binder, Zip, Repack

LEMMA PartOfRepack == [mcNext]_mcVars => [R!Next]_(R!vars)
<1>1. UNCHANGED rVars => UNCHANGED R!vars
  BY DEF rVars, R!vars, R!mainVars, R!threadVars, R!pipeVars
<1> QED
  BY <1>1 DEF mcNext, mcVars, Binder, Zip, Repack

LEMMA PartOfBinder == mcSpec => B!Spec
<1>1. mcInit => B!Init
  BY DEF mcInit
<1>2. [mcNext]_mcVars => [B!Next]_(B!vars)
  <2>1. UNCHANGED bVars => UNCHANGED B!vars
    BY DEF bVars, B!vars, B!events, B!writerVars, B!readerVars
  <2> QED
    BY <2>1 DEF mcNext, mcVars, Binder, Zip, Repack
<1> QED
  BY <1>1, <1>2, PartsAgree, PTL DEF B!Spec

\* In the run of all parts, too, Read copies only from memory that is still there.
THEOREM MemoryIsAlwaysValid == mcSpec => []BufferIsValid
<1>1. B!Spec => []B!BufferIsValid
  BY BufferIsAlwaysValid
<1> QED
  BY <1>1, PartOfBinder, PTL DEF BufferIsValid

\* In the run of all parts, too, the binder is a pipe between its two coders.
THEOREM BinderIsAPipe == mcSpec => ImplementsPipe
BY PartOfBinder, BinderRefinesPipe DEF ImplementsPipe

\* An update that returns S_OK has made a complete archive, in either format.
THEOREM EveryUpdateIsComplete ==
  ASSUME "detached" \notin MayFail
  PROVE  mcSpec => []UpdatesAreComplete
<1>1. mcSpec => Spec /\ R!Spec
  <2>1. mcInit => Init /\ R!Init
    BY DEF mcInit
  <2> QED
    BY <2>1, PartsAgree, PartOfZip, PartOfRepack, PTL DEF Spec, R!Spec
<1>2. Spec => []SuccessIsComplete
  BY EverythingIsStored
<1> QED
  BY <1>1, <1>2, EveryFolderIsRight, PTL DEF UpdatesAreComplete
=============================================================================
