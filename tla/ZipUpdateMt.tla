----------------------------- MODULE ZipUpdateMt -----------------------------
(***************************************************************************)
(* The multithreaded update of zip archives: Update2 and CThreadInfo of    *)
(* CPP/7zip/Archive/Zip/ZipUpdate.cpp, with COutMemStream and the block    *)
(* pool of CPP/7zip/Common/OutMemStream.cpp and MemBlocks.cpp.             *)
(*                                                                         *)
(* Each file is compressed by one of the threads into blocks of a shared   *)
(* pool.  The thread of the first file that is not in the archive yet is   *)
(* told to flush its blocks and to write to the archive itself; a file     *)
(* that is ready before its turn has its blocks detached and kept.  A      *)
(* piece of data is what fits in a block.  A file that did not shrink is   *)
(* compressed again, with another method (CAddCommon::Compress).           *)
(***************************************************************************)
EXTENDS ZipItems, FiniteSets, FiniteSetsExt

VARIABLES
  mpc,         \* where Update2 is
  mtItemIndex, itemIndex,
  threadIndices,  \* the threads at work, in the order of their files
  th,          \* CThreadInfo and its COutMemStream
  refs,        \* by item: what is kept of a file that is ready before its turn
  mixer,       \* the holder of Mixer2->CriticalSection: "none", "main"
  permits,     \* of the semaphore that counts the free blocks
  archive,     \* the items whose local header has been written
  current,     \* the data behind them
  joined,      \* how many threads CThreads has stopped
  ret          \* what Update2 returns

mainVars == <<mpc, mtItemIndex, itemIndex, threadIndices, refs, mixer, archive, joined, ret>>
vars == <<mainVars, th, permits, current>>

Thread == 1..NumThreads
Index == 1..Len(Items)
IsFile(i) == Items[i] # <<>>
Data(i, attempt) == [k \in 1..Items[i][attempt] |-> <<i, attempt, k>>]
Piece == Index \X (Nat \ {0}) \X Nat   \* of which file, attempt, and which one of it

Entry == [item : Index, size : Nat, data : Seq(Piece)]
Kept == [state : {"none", "defined", "skip"}, size : Nat, data : Seq(Piece)]
nothing == [state |-> "none", size |-> 0, data |-> <<>>]

\* "attempt", "write" and "report" are the parts of Compress.
ThreadState ==
  [pc : {"none", "idle", "attempt", "write", "report", "exited"},
   item : Index \cup {0}, attempt : Nat \ {0},
   pos : Nat, blocks : Seq(Piece), total : Nat,     \* _curBlockIndex, Blocks, TotalSize
   real : BOOLEAN, sent : BOOLEAN,                  \* _realStreamMode, _unlockEventWasSent
   toReal : BOOLEAN, stop : BOOLEAN,                \* the events of COutMemStream
   compress : BOOLEAN, completed : BOOLEAN,         \* the events of CThreadInfo
   exit : BOOLEAN, free : BOOLEAN, result : {"ok", "fail"}]

TypeOK ==
  /\ mpc \in {"create", "loop", "open", "enter", "stop", "join", "done"}
  /\ mtItemIndex \in 1..(Len(Items) + 1) /\ itemIndex \in 1..(Len(Items) + 1)
  /\ threadIndices \in Seq(Thread) /\ th \in [Thread -> ThreadState]
  /\ refs \in [Index -> Kept] /\ mixer \in {"none", "main"}
  /\ permits \in 0..PoolBlocks
  /\ archive \in Seq(Entry) /\ current \in Seq(Piece)
  /\ joined \in 0..NumThreads /\ ret \in {"ok", "fail"}

Init ==
  /\ mpc = "create" /\ mtItemIndex = 1 /\ itemIndex = 1 /\ threadIndices = <<>>
  /\ th = [t \in Thread |->
       [pc |-> "none", item |-> 0, attempt |-> 1, pos |-> 0, blocks |-> <<>>, total |-> 0,
        real |-> FALSE, sent |-> FALSE, toReal |-> FALSE, stop |-> FALSE,
        compress |-> FALSE, completed |-> FALSE, exit |-> FALSE, free |-> TRUE, result |-> "ok"]]
  /\ refs = [i \in Index |-> nothing] /\ mixer = "none" /\ permits = PoolBlocks
  /\ archive = <<>> /\ current = <<>> /\ joined = 0 /\ ret = "ok"

\* Update2 returns, by way of the destructor of CThreads.
Return(r) == mpc' = "stop" /\ ret' = r

-----------------------------------------------------------------------------
(* COutMemStream                                                           *)

\* A slip: all the blocks are written, not only what the last attempt stored.
AllWritten(blocks, total) == blocks

\* CMemBlocks::WriteToStream and Detach: the blocks up to TotalSize.
Written(blocks, total) == SubSeq(blocks, 1, total)

Complete(t, r) == [th[t] EXCEPT !.pc = "idle", !.result = r, !.completed = TRUE]

Writing(t) == th[t].pc = "write" /\ th[t].pos < Items[th[t].item][th[t].attempt]
NextPiece(t) == <<th[t].item, th[t].attempt, th[t].pos + 1>>

\* The next piece goes to a block left by an attempt before.
WriteInBlock(t) ==
  /\ Writing(t) /\ ~th[t].real /\ th[t].pos < Len(th[t].blocks)
  /\ th' = [th EXCEPT ![t].pos = @ + 1, ![t].blocks[th[t].pos + 1] = NextPiece(t),
                      ![t].total = Max({@, th[t].pos + 1})]
  /\ UNCHANGED <<mainVars, permits, current>>

\* Otherwise Write waits for three objects, in the order of their priority.
NeedsBlock(t) == Writing(t) /\ ~th[t].real /\ th[t].pos = Len(th[t].blocks)

WaitStopped(t) ==
  /\ NeedsBlock(t) /\ th[t].stop
  /\ th' = [th EXCEPT ![t] = [Complete(t, "fail") EXCEPT !.stop = FALSE]]
  /\ UNCHANGED <<mainVars, permits, current>>

WaitReal(t) ==
  /\ NeedsBlock(t) /\ ~th[t].stop /\ th[t].toReal
  /\ current' = current \o Written(th[t].blocks, th[t].total)
  /\ permits' = permits + Len(th[t].blocks)
  /\ th' = [th EXCEPT ![t].toReal = FALSE, ![t].real = TRUE, ![t].blocks = <<>>, ![t].total = 0]
  /\ UNCHANGED mainVars

WaitBlock(t) ==
  /\ NeedsBlock(t) /\ ~th[t].stop /\ ~th[t].toReal /\ permits > 0
  /\ permits' = permits - 1
  /\ th' = [th EXCEPT ![t].blocks = Append(@, NextPiece(t)), ![t].pos = @ + 1,
                      ![t].total = Max({@, th[t].pos + 1})]
  /\ UNCHANGED <<mainVars, current>>

WriteReal(t) ==
  /\ Writing(t) /\ th[t].real
  /\ current' = Append(current, NextPiece(t))
  /\ th' = [th EXCEPT ![t].pos = @ + 1]
  /\ UNCHANGED <<mainVars, permits>>

-----------------------------------------------------------------------------
(* The thread: WaitAndCode and CAddCommon::Compress                        *)

Begin(t) ==
  /\ th[t].pc = "idle" /\ th[t].compress
  /\ th' = [th EXCEPT ![t].compress = FALSE, ![t].attempt = 1,
                      ![t].pc = IF th[t].exit THEN "exited" ELSE "attempt"]
  /\ UNCHANGED <<mainVars, permits, current>>

\* SetSize(0) and Seek(0) of COutMemStream: the blocks are kept.
StartAttempt(t) ==
  /\ th[t].pc = "attempt"
  /\ current' = IF th[t].real THEN <<>> ELSE current
  /\ th' = [th EXCEPT ![t].pc = "write", ![t].pos = 0,
                      ![t].total = IF th[t].real THEN @ ELSE 0]
  /\ UNCHANGED <<mainVars, permits>>

EndAttempt(t) ==
  /\ th[t].pc = "write" /\ ~Writing(t)
  /\ th' = [th EXCEPT ![t].pc = "report"]
  /\ UNCHANGED <<mainVars, permits, current>>

\* The progress of all threads goes through Mixer2->CriticalSection.
Report(t) ==
  /\ th[t].pc = "report" /\ mixer = "none"
  /\ th' = [th EXCEPT ![t] =
       IF th[t].attempt < Len(Items[th[t].item])
       THEN [th[t] EXCEPT !.pc = "attempt", !.attempt = @ + 1]
       ELSE Complete(t, "ok")]
  /\ UNCHANGED <<mainVars, permits, current>>

\* Reading, coding, writing to the archive or reporting fails.
CompressFails(t) ==
  /\ "code" \in MayFail
  /\ th[t].pc = "write" \/ (th[t].pc = "report" /\ mixer = "none")
  /\ th' = [th EXCEPT ![t] = Complete(t, "fail")]
  /\ UNCHANGED <<mainVars, permits, current>>

Proceed(t) ==
  \/ Begin(t) \/ StartAttempt(t) \/ EndAttempt(t) \/ Report(t)
  \/ WriteInBlock(t) \/ WaitStopped(t) \/ WaitReal(t) \/ WaitBlock(t) \/ WriteReal(t)

ThreadNext(t) == Proceed(t) \/ CompressFails(t)

-----------------------------------------------------------------------------
(* Update2: files are given to the threads                                 *)

CreateThread ==
  /\ mpc = "create"
  /\ LET t == Min({u \in Thread : th[u].pc = "none"})
     IN  \/ /\ th' = [th EXCEPT ![t].pc = "idle"]
            /\ mpc' = IF t = NumThreads THEN "loop" ELSE "create"
            /\ UNCHANGED ret
         \/ "thread" \in MayFail /\ Return("fail") /\ UNCHANGED th
  /\ UNCHANGED <<mtItemIndex, itemIndex, threadIndices, refs, mixer, archive, joined, permits, current>>

InLoop == mpc = "loop" /\ itemIndex <= Len(Items)
Assigning == InLoop /\ Len(threadIndices) < NumThreads /\ mtItemIndex <= Len(Items)

PassOver ==
  /\ Assigning /\ ~IsFile(mtItemIndex)
  /\ mtItemIndex' = mtItemIndex + 1
  /\ UNCHANGED <<mpc, itemIndex, threadIndices, refs, mixer, archive, joined, ret, th, permits, current>>

\* GetStream is called in the critical section of the progress.
EnterMixer ==
  /\ Assigning /\ IsFile(mtItemIndex) /\ mixer = "none"
  /\ mixer' = "main" /\ mpc' = "open"
  /\ UNCHANGED <<mtItemIndex, itemIndex, threadIndices, refs, archive, joined, ret, th, permits, current>>

\* A free thread gets the file: COutMemStream::Init and CompressEvent.Set.
Opened ==
  /\ mpc = "open"
  /\ LET t == Min({u \in Thread : th[u].free})
     IN  /\ th' = [th EXCEPT ![t] = [@ EXCEPT !.free = FALSE, !.item = mtItemIndex,
              !.compress = TRUE, !.toReal = FALSE, !.sent = FALSE, !.real = FALSE,
              !.blocks = <<>>, !.total = 0, !.pos = 0]]
         /\ threadIndices' = Append(threadIndices, t)
         /\ permits' = permits + Len(th[t].blocks)
  /\ mixer' = "none" /\ mpc' = "loop" /\ mtItemIndex' = mtItemIndex + 1
  /\ UNCHANGED <<itemIndex, refs, archive, joined, ret, current>>

NotOpened ==
  /\ mpc = "open"
  /\ \/ "open" \in MayFail /\ mixer' = "none" /\ Return("fail")
     \/ "locked" \in MayFail /\ mpc' = "enter" /\ UNCHANGED <<mixer, ret>>
  /\ UNCHANGED <<mtItemIndex, itemIndex, threadIndices, refs, archive, joined, th, permits, current>>

\* GetStream returned S_FALSE: SetProgressOffset enters the critical section again.
Skip ==
  /\ mpc = "enter" /\ (mixer = "none" \/ Reentrant)
  /\ refs' = [refs EXCEPT ![mtItemIndex].state = "skip"]
  /\ mixer' = "none" /\ mpc' = "loop" /\ mtItemIndex' = mtItemIndex + 1
  /\ UNCHANGED <<itemIndex, threadIndices, archive, joined, ret, th, permits, current>>

-----------------------------------------------------------------------------
(* Update2: the items are put in the archive, in their order               *)

Storing == InLoop /\ ~Assigning

PassSkipped ==
  /\ Storing /\ refs[itemIndex].state = "skip"
  /\ itemIndex' = itemIndex + 1
  /\ UNCHANGED <<mpc, mtItemIndex, threadIndices, refs, mixer, archive, joined, ret, th, permits, current>>

\* The local header is written when the data are there: data of the present
\* item, whose packed size the coder has reported.
WriteLocalHeader(data, size) ==
  /\ archive' = Append(archive, [item |-> itemIndex, size |-> size, data |-> data])
  /\ current' = <<>> /\ itemIndex' = itemIndex + 1

\* A directory, or an item copied from the old archive.
StoreOther ==
  /\ Storing /\ ~IsFile(itemIndex)
  /\ \/ WriteLocalHeader(<<>>, 0) /\ UNCHANGED <<mpc, ret>>
     \/ "write" \in MayFail /\ Return("fail") /\ UNCHANGED <<archive, current, itemIndex>>
  /\ UNCHANGED <<mtItemIndex, threadIndices, refs, mixer, joined, th, permits>>

\* The result of WriteToStream is not looked at.
StoreDetached ==
  /\ Storing /\ refs[itemIndex].state = "defined"
  /\ \E data \in {refs[itemIndex].data} \cup (IF "detached" \in MayFail THEN {<<>>} ELSE {}) :
       WriteLocalHeader(data, refs[itemIndex].size)
  /\ permits' = permits + Len(refs[itemIndex].data)
  /\ refs' = [refs EXCEPT ![itemIndex] = nothing]
  /\ UNCHANGED <<mpc, mtItemIndex, threadIndices, mixer, joined, ret, th>>

Waiting == Storing /\ IsFile(itemIndex) /\ refs[itemIndex].state = "none"

\* A slip: the thread that was given its file last.
LastThread == threadIndices[Len(threadIndices)]

FrontThread == threadIndices[1]

\* A slip: nobody is told to write to the archive.
NeedNoRealMode(t) == FALSE

NeedsRealMode(t) == ~th[t].sent

SetRealStreamMode ==
  /\ Waiting /\ NeedsRealMode(FrontThread)
  /\ th' = [th EXCEPT ![FrontThread].sent = TRUE, ![FrontThread].toReal = TRUE]
  /\ UNCHANGED <<mainVars, permits, current>>

Ready == {j \in DOMAIN threadIndices : th[threadIndices[j]].completed}

\* A slip: the blocks behind the end of the file are lost.
NoneFreed(blocks, total) == 0

\* Detach frees the blocks behind the end of the file.
Surplus(blocks, total) == Len(blocks) - total

\* WaitForMultipleObjects returns the first event that is set.
WaitCompleted ==
  /\ Waiting /\ ~NeedsRealMode(FrontThread) /\ Ready # {}
  /\ LET j == Min(Ready)
         t == threadIndices[j]
         done == [th[t] EXCEPT !.completed = FALSE, !.free = TRUE]
         emptied == [done EXCEPT !.blocks = <<>>, !.total = 0]
         data == Written(th[t].blocks, th[t].total)
     IN  \/ /\ th[t].result = "fail"
            /\ th' = [th EXCEPT ![t] = done] /\ Return("fail")
            /\ UNCHANGED <<threadIndices, refs, archive, current, itemIndex, permits>>
         \/ /\ th[t].result = "ok" /\ j = 1 /\ "write" \in MayFail /\ data # <<>>
            /\ th' = [th EXCEPT ![t] = done] /\ Return("fail")
            /\ threadIndices' = Tail(threadIndices)
            /\ UNCHANGED <<refs, archive, current, itemIndex, permits>>
         \/ /\ th[t].result = "ok" /\ j = 1
            /\ WriteLocalHeader(current \o data, th[t].pos)
            /\ th' = [th EXCEPT ![t] = emptied]
            /\ permits' = permits + Len(th[t].blocks)
            /\ threadIndices' = Tail(threadIndices)
            /\ UNCHANGED <<refs, mpc, ret>>
         \/ /\ th[t].result = "ok" /\ j > 1
            /\ refs' = [refs EXCEPT ![th[t].item] =
                 [state |-> "defined", size |-> th[t].pos, data |-> data]]
            /\ th' = [th EXCEPT ![t] = emptied]
            /\ permits' = permits + Surplus(th[t].blocks, th[t].total)
            /\ threadIndices' = SubSeq(threadIndices, 1, j - 1)
                 \o SubSeq(threadIndices, j + 1, Len(threadIndices))
            /\ UNCHANGED <<archive, current, itemIndex, mpc, ret>>
  /\ UNCHANGED <<mtItemIndex, mixer, joined>>

Finish ==
  /\ mpc = "loop" /\ itemIndex > Len(Items)
  /\ Return("ok")
  /\ UNCHANGED <<mtItemIndex, itemIndex, threadIndices, refs, mixer, archive, joined, th, permits, current>>

-----------------------------------------------------------------------------
(* CThreads::~CThreads                                                     *)

StopThread ==
  /\ mpc = "stop"
  /\ th' = [th EXCEPT ![joined + 1].exit = TRUE, ![joined + 1].stop = TRUE,
                      ![joined + 1].compress = TRUE]
  /\ mpc' = "join"
  /\ UNCHANGED <<mtItemIndex, itemIndex, threadIndices, refs, mixer, archive, joined, ret, permits, current>>

JoinThread ==
  /\ mpc = "join" /\ th[joined + 1].pc \in {"none", "exited"}
  /\ joined' = joined + 1
  /\ mpc' = IF joined + 1 = NumThreads THEN "done" ELSE "stop"
  /\ UNCHANGED <<mtItemIndex, itemIndex, threadIndices, refs, mixer, archive, ret, th, permits, current>>

MainNext ==
  \/ CreateThread \/ PassOver \/ EnterMixer \/ Opened \/ NotOpened \/ Skip
  \/ PassSkipped \/ StoreOther \/ StoreDetached \/ SetRealStreamMode \/ WaitCompleted \/ Finish
  \/ StopThread \/ JoinThread

Terminating == mpc = "done" /\ UNCHANGED vars

Next == MainNext \/ (\E t \in Thread : ThreadNext(t)) \/ Terminating

Spec == Init /\ [][Next]_vars

\* The scheduler runs every thread that can go on; no thread has to fail.
FairSpec == Spec /\ WF_vars(MainNext) /\ \A t \in Thread : WF_vars(Proceed(t))

-----------------------------------------------------------------------------
\* At most one thread writes to the archive, and it has the file whose turn it is.
WriterHasTheTurn ==
  \A t \in Thread :
    th[t].pc \in {"attempt", "write", "report"} /\ th[t].real => th[t].item = itemIndex

\* The semaphore counts the blocks that nobody has: AllocateBlock finds one
\* whenever the wait for the semaphore has returned, and no block is lost.
NoBlockLost ==
  /\ TypeOK
  /\ permits + MapThenSumSet(LAMBDA t : Len(th[t].blocks), Thread)
       + MapThenSumSet(LAMBDA i : Len(refs[i].data), Index) = PoolBlocks

\* If Update2 succeeds, the archive has every item that was not skipped, in order,
\* with the data of the last attempt alone and the right size in its header.
SuccessIsComplete ==
  mpc = "done" /\ ret = "ok" =>
    LET n == Len(archive) IN
    /\ {archive[k].item : k \in 1..n} = {i \in Index : refs[i].state # "skip"}
    /\ \A k \in 1..(n - 1) : archive[k].item < archive[k + 1].item
    /\ \A k \in 1..n : LET e == archive[k] IN
         /\ e.data = IF IsFile(e.item) THEN Data(e.item, Len(Items[e.item])) ELSE <<>>
         /\ e.size = Len(e.data)

\* Update2 always returns: the pool never stops all the threads for ever, and a
\* failure does not leave a thread that waits.
UpdateReturns == <>(mpc = "done")
=============================================================================
