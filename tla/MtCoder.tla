------------------------------- MODULE MtCoder -------------------------------
(***************************************************************************)
(* C/MtCoder.c: the threads of the LZMA2 encoder.  Thread t reads a block, *)
(* lets thread t+1 read the next one, codes its block, waits for its turn  *)
(* to write, writes it and lets thread t+1 write.  The turns are the       *)
(* auto-reset events canRead and canWrite, which go round in a ring; the   *)
(* flags stopReading and stopWriting go round with them.                   *)
(*                                                                         *)
(* The coder is mtCallback->Code as C/Lzma2Enc.c implements it: it calls   *)
(* MtProgress_Set and gives up with PROGRESS when that fails.  Its own     *)
(* SZ_ERROR_FAIL is left out, so that FAIL is always the result of a       *)
(* thread that was told to stop.  The events are those of Threads.c (see   *)
(* module Threads); their functions do not fail.                           *)
(***************************************************************************)
EXTENDS Naturals

CONSTANTS
  MaxThreads,  \* NUM_MT_CODER_THREADS_MAX
  MaxBlocks,   \* bound on the number of blocks of an input
  CoderError   \* what Lzma2EncInt_* return when they fail, for example MEM

ASSUME MtCoderAssumption ==
  /\ MaxThreads \in Nat /\ MaxThreads >= 2
  /\ MaxBlocks \in Nat \ {0}
  /\ {"OK", "FAIL", "PROGRESS"} \cap CoderError = {}

Thread == 0..(MaxThreads - 1)
Error == CoderError \cup {"READ", "WRITE", "PROGRESS", "MEM", "THREAD"}
SRes == Error \cup {"OK", "FAIL"}

VARIABLES
  main,        \* where the caller is
  call,        \* its variables: i, the index of its loop; numThreads; blocks,
               \* the size of the input; res, the local variable; ret, the result
  res, progressRes,   \* CMtCoder::res and CMtProgress::res
  read,        \* number of blocks read
  written,     \* the block written last
  pc,          \* [Thread -> place]
  th           \* [Thread -> CMtThread]: events and flags; block, what is in its
               \* buffers; err, the variable res of ThreadFunc

callVars == <<main, call>>
streamVars == <<read, written>>
resVars == <<res, progressRes>>
vars == <<callVars, resVars, streamVars, pc, th>>

Main == {"idle", "prepare", "create", "start", "setWrite", "setRead", "wait",
         "close", "return", "destruct", "stop", "join", "destroyed"}

\* "none": no thread; "start": Event_Wait(&startEvent) of LoopThreadFunc;
\* then the statements of MtThread_Process and of the error branch of
\* ThreadFunc; "finish": Event_Set(&finishedEvent).
Place == {"none", "start", "canRead", "testReading", "passRead", "read",
          "setRead", "code", "canWrite", "testWriting", "write", "setWrite",
          "error", "errorProgress", "errorReading", "errorWriting",
          "errorSetRead", "errorSetWrite", "finish", "exited"}

CMtThread == [canRead : BOOLEAN, canWrite : BOOLEAN,
              startEvent : BOOLEAN, finishedEvent : BOOLEAN,
              stopReading : BOOLEAN, stopWriting : BOOLEAN, stop : BOOLEAN,
              block : 0..MaxBlocks, err : SRes]

TypeOK ==
  /\ main \in Main
  /\ call \in [i : 0..MaxThreads, numThreads : 2..MaxThreads, blocks : 1..MaxBlocks,
               res : {"OK", "MEM", "THREAD"}, ret : SRes]
  /\ res \in SRes /\ progressRes \in SRes
  /\ read \in 0..call.blocks /\ written \in 0..call.blocks
  /\ pc \in [Thread -> Place] /\ th \in [Thread -> CMtThread]

\* After MtCoder_Construct.
Init ==
  /\ main = "idle"
  /\ call = [i |-> 0, numThreads |-> 2, blocks |-> 1, res |-> "OK", ret |-> "OK"]
  /\ res = "OK" /\ progressRes = "OK" /\ read = 0 /\ written = 0
  /\ pc = [t \in Thread |-> "none"]
  /\ th = [t \in Thread |->
       [canRead |-> FALSE, canWrite |-> FALSE, startEvent |-> FALSE,
        finishedEvent |-> FALSE, stopReading |-> FALSE, stopWriting |-> FALSE,
        stop |-> FALSE, block |-> 0, err |-> "OK"]]

\* GET_NEXT_THREAD
NextThread(t) == IF t = call.numThreads - 1 THEN 0 ELSE t + 1

Step(t, from, to) == pc[t] = from /\ pc' = [pc EXCEPT ![t] = to]

-----------------------------------------------------------------------------
(* A thread: LoopThreadFunc, ThreadFunc and MtThread_Process.              *)

WaitStart(t) ==
  /\ Step(t, "start", IF th[t].stop THEN "exited" ELSE "canRead")
  /\ th[t].startEvent /\ th' = [th EXCEPT ![t].startEvent = FALSE]
  /\ UNCHANGED <<callVars, resVars, streamVars>>

\* A slip: canRead is a manual-reset event.
WaitReadKeepsEvent(t) ==
  /\ Step(t, "canRead", "testReading") /\ th[t].canRead
  /\ UNCHANGED <<callVars, resVars, streamVars, th>>

WaitRead(t) ==
  /\ Step(t, "canRead", "testReading")
  /\ th[t].canRead /\ th' = [th EXCEPT ![t].canRead = FALSE]
  /\ UNCHANGED <<callVars, resVars, streamVars>>

GoesOnReading(t) ==
  /\ Step(t, "testReading", "read") /\ ~th[t].stopReading
  /\ UNCHANGED <<callVars, resVars, streamVars, th>>

\* if (p->stopReading) next->stopReading = True
StopsReading(t) ==
  /\ Step(t, "testReading", "passRead") /\ th[t].stopReading
  /\ th' = [th EXCEPT ![NextThread(t)].stopReading = TRUE]
  /\ UNCHANGED <<callVars, resVars, streamVars>>

\* FullRead has filled inBuf; a block that is not full is the last one.
ReadBlock(t) ==
  /\ Step(t, "read", "setRead")
  /\ read' = read + 1
  /\ th' = [th EXCEPT ![t].block = read + 1,
                     ![NextThread(t)].stopReading = read + 1 >= call.blocks]
  /\ UNCHANGED <<callVars, resVars, written>>

\* Event_Set(&next->canRead): after a block was read, when stopReading is passed
\* on, and in the error branch of ThreadFunc.
SetNextRead(t) ==
  /\ \/ Step(t, "setRead", "code")
     \/ Step(t, "passRead", "finish")
     \/ Step(t, "errorSetRead", "errorSetWrite")
  /\ th' = [th EXCEPT ![NextThread(t)].canRead = TRUE]
  /\ UNCHANGED <<callVars, resVars, streamVars>>

CodeSucceeds(t) ==
  /\ Step(t, "code", "canWrite")
  /\ UNCHANGED <<callVars, resVars, streamVars, th>>

\* FullRead, mtCallback->Code or outStream->Write fails with e.  MtProgress_Set
\* fails when another thread did.
Fails(t) ==
  /\ \E from \in {"read", "code", "write"} :
       /\ Step(t, from, "error")
       /\ \E e \in IF from = "read" THEN {"READ"}
                 ELSE IF from = "write" THEN {"WRITE"}
                 ELSE CoderError \cup (IF progressRes = "OK" THEN {} ELSE {"PROGRESS"}) :
            th' = [th EXCEPT ![t].err = e]
  /\ UNCHANGED <<callVars, resVars, streamVars>>

\* MtProgress_Set asks the callback of the user, unless there was an error.
ProgressBreaks(t) ==
  /\ Step(t, "code", "error") /\ progressRes = "OK"
  /\ progressRes' = "PROGRESS" /\ th' = [th EXCEPT ![t].err = "PROGRESS"]
  /\ UNCHANGED <<callVars, res, streamVars>>

WaitWrite(t) ==
  /\ Step(t, "canWrite", "testWriting")
  /\ th[t].canWrite /\ th' = [th EXCEPT ![t].canWrite = FALSE]
  /\ UNCHANGED <<callVars, resVars, streamVars>>

\* A slip: stopWriting is not looked at.
TestWritingNot(t) ==
  /\ Step(t, "testWriting", "write")
  /\ UNCHANGED <<callVars, resVars, streamVars, th>>

TestWriting(t) ==
  /\ Step(t, "testWriting", IF th[t].stopWriting THEN "error" ELSE "write")
  /\ th' = IF th[t].stopWriting THEN [th EXCEPT ![t].err = "FAIL"] ELSE th
  /\ UNCHANGED <<callVars, resVars, streamVars>>

WriteBlock(t) ==
  /\ Step(t, "write", "setWrite")
  /\ written' = th[t].block
  /\ UNCHANGED <<callVars, resVars, read, th>>

\* *stop is set if the block was the last one.
SetNextWrite(t) ==
  /\ Step(t, "setWrite", IF th[t].block >= call.blocks THEN "finish" ELSE "canRead")
  /\ th' = [th EXCEPT ![NextThread(t)].canWrite = TRUE, ![t].block = 0]
  /\ UNCHANGED <<callVars, resVars, streamVars>>

(* The error branch of ThreadFunc, statement by statement.                 *)

\* A slip: MtProgress_SetError comes before MtCoder_SetError.
SetErrorLast(t) ==
  \/ /\ progressRes = "OK" /\ pc[t] = "error" /\ progressRes' = th[t].err
     /\ UNCHANGED <<callVars, res, streamVars, pc, th>>
  \/ /\ progressRes # "OK" /\ Step(t, "error", "errorProgress")
     /\ res' = IF res = "OK" THEN th[t].err ELSE res
     /\ UNCHANGED <<callVars, progressRes, streamVars, th>>

SetError(t) ==
  /\ Step(t, "error", "errorProgress")
  /\ res' = IF res = "OK" THEN th[t].err ELSE res
  /\ UNCHANGED <<callVars, progressRes, streamVars, th>>

SetProgressError(t) ==
  /\ Step(t, "errorProgress", "errorReading")
  /\ progressRes' = IF progressRes = "OK" THEN th[t].err ELSE progressRes
  /\ th' = [th EXCEPT ![t].err = "OK", ![t].block = 0]
  /\ UNCHANGED <<callVars, res, streamVars>>

StopNextReading(t) ==
  /\ Step(t, "errorReading", "errorWriting")
  /\ th' = [th EXCEPT ![NextThread(t)].stopReading = TRUE]
  /\ UNCHANGED <<callVars, resVars, streamVars>>

StopNextWriting(t) ==
  /\ Step(t, "errorWriting", "errorSetRead")
  /\ th' = [th EXCEPT ![NextThread(t)].stopWriting = TRUE]
  /\ UNCHANGED <<callVars, resVars, streamVars>>

\* A slip: the next thread is left waiting for its turn to write.
WakeNextWriterNot(t) ==
  /\ Step(t, "errorSetWrite", "finish")
  /\ UNCHANGED <<callVars, resVars, streamVars, th>>

WakeNextWriter(t) ==
  /\ Step(t, "errorSetWrite", "finish")
  /\ th' = [th EXCEPT ![NextThread(t)].canWrite = TRUE]
  /\ UNCHANGED <<callVars, resVars, streamVars>>

Finish(t) ==
  /\ Step(t, "finish", "start")
  /\ th' = [th EXCEPT ![t].finishedEvent = TRUE]
  /\ UNCHANGED <<callVars, resVars, streamVars>>

-----------------------------------------------------------------------------
(* The caller: MtCoder_Code and MtCoder_Destruct.                          *)

MainStep(from, to) == main = from /\ main' = to

\* MtCoder_Code with numThreads = n for an input of b blocks; Lzma2Enc_Encode
\* uses it for two threads and more.
Code(n, b) ==
  /\ MainStep("idle", "prepare")
  /\ call' = [call EXCEPT !.i = 0, !.numThreads = n, !.blocks = b, !.res = "OK"]
  /\ res' = "OK" /\ progressRes' = "OK" /\ read' = 0 /\ written' = 0
  /\ UNCHANGED <<pc, th>>

\* CMtThread_Prepare of the threads below k.
PrepareUpTo(k) ==
  th' = [t \in Thread |->
          IF t >= k THEN th[t]
          ELSE [th[t] EXCEPT !.canRead = FALSE, !.canWrite = FALSE,
                             !.stopReading = FALSE, !.stopWriting = FALSE]]

Prepare ==
  /\ MainStep("prepare", "create")
  /\ PrepareUpTo(call.numThreads)
  /\ UNCHANGED <<call, resVars, streamVars, pc>>

PrepareFails ==
  /\ MainStep("prepare", "return")
  /\ \E k \in 0..(call.numThreads - 1) : PrepareUpTo(k)
  /\ call' = [call EXCEPT !.res = "MEM"]
  /\ UNCHANGED <<resVars, streamVars, pc>>

\* LoopThread_Create of those threads below k that do not exist.
CreateUpTo(k) ==
  LET new == {t \in Thread : t < k /\ pc[t] = "none"}
  IN  /\ pc' = [t \in Thread |-> IF t \in new THEN "start" ELSE pc[t]]
      /\ th' = [t \in Thread |->
            IF t \notin new THEN th[t]
            ELSE [th[t] EXCEPT !.stop = FALSE, !.startEvent = FALSE, !.finishedEvent = FALSE]]

Create ==
  /\ MainStep("create", "start")
  /\ CreateUpTo(call.numThreads)
  /\ UNCHANGED <<call, resVars, streamVars>>

CreateFails ==
  /\ MainStep("create", "close")
  /\ \E k \in 0..(call.numThreads - 1) : pc[k] = "none" /\ CreateUpTo(k)
  /\ call' = [call EXCEPT !.res = "THREAD"]
  /\ UNCHANGED <<resVars, streamVars>>

\* A loop over the threads: from one to the next, or on to the statement to.
LoopStep(from, to) ==
  /\ MainStep(from, IF call.i = call.numThreads - 1 THEN to ELSE from)
  /\ call' = [call EXCEPT !.i = NextThread(@)]

\* LoopThread_StartSubThread
StartSubThread ==
  /\ LoopStep("start", "setWrite")
  /\ th' = [th EXCEPT ![call.i].startEvent = TRUE]
  /\ UNCHANGED <<resVars, streamVars, pc>>

SetFirstWrite ==
  /\ MainStep("setWrite", "setRead")
  /\ th' = [th EXCEPT ![0].canWrite = TRUE]
  /\ UNCHANGED <<call, resVars, streamVars, pc>>

SetFirstRead ==
  /\ MainStep("setRead", "wait")
  /\ th' = [th EXCEPT ![0].canRead = TRUE]
  /\ UNCHANGED <<call, resVars, streamVars, pc>>

\* A slip: only one thread is waited for.
WaitFirstThread ==
  /\ MainStep("wait", "close")
  /\ th[0].finishedEvent /\ th' = [th EXCEPT ![0].finishedEvent = FALSE]
  /\ UNCHANGED <<call, resVars, streamVars, pc>>

\* LoopThread_WaitSubThread
WaitSubThread ==
  /\ LoopStep("wait", "close")
  /\ th[call.i].finishedEvent /\ th' = [th EXCEPT ![call.i].finishedEvent = FALSE]
  /\ UNCHANGED <<resVars, streamVars, pc>>

\* CMtThread_CloseEvents for all threads of this call.
CloseEvents ==
  /\ MainStep("close", "return")
  /\ th' = [t \in Thread |->
          IF t >= call.numThreads THEN th[t]
          ELSE [th[t] EXCEPT !.canRead = FALSE, !.canWrite = FALSE]]
  /\ UNCHANGED <<call, resVars, streamVars, pc>>

Return ==
  /\ MainStep("return", "idle")
  /\ call' = [call EXCEPT !.ret = IF call.res = "OK" THEN res ELSE call.res]
  /\ UNCHANGED <<resVars, streamVars, pc, th>>

Destruct ==
  /\ MainStep("idle", "destruct")
  /\ call' = [call EXCEPT !.i = 0]
  /\ UNCHANGED <<resVars, streamVars, pc, th>>

\* LoopThread_StopAndWait of thread i, if it was created.
SetStop ==
  /\ MainStep("destruct", "stop") /\ call.i < MaxThreads
  /\ th' = [th EXCEPT ![call.i].stop = @ \/ pc[call.i] # "none"]
  /\ UNCHANGED <<call, resVars, streamVars, pc>>

SetStartToStop ==
  /\ MainStep("stop", "join")
  /\ th' = [th EXCEPT ![call.i].startEvent = @ \/ pc[call.i] # "none"]
  /\ UNCHANGED <<call, resVars, streamVars, pc>>

Join ==
  /\ MainStep("join", "destruct") /\ pc[call.i] \in {"none", "exited"}
  /\ call' = [call EXCEPT !.i = @ + 1]
  /\ UNCHANGED <<resVars, streamVars, pc, th>>

Destructed ==
  /\ MainStep("destruct", "destroyed") /\ call.i = MaxThreads
  /\ UNCHANGED <<call, resVars, streamVars, pc, th>>

Terminating == main = "destroyed" /\ UNCHANGED vars

-----------------------------------------------------------------------------
ThreadStep(t) ==
  \/ WaitStart(t) \/ WaitRead(t) \/ GoesOnReading(t) \/ StopsReading(t)
  \/ ReadBlock(t) \/ SetNextRead(t) \/ CodeSucceeds(t) \/ Fails(t) \/ ProgressBreaks(t)
  \/ WaitWrite(t) \/ TestWriting(t) \/ WriteBlock(t) \/ SetNextWrite(t)
  \/ SetError(t) \/ SetProgressError(t) \/ StopNextReading(t)
  \/ StopNextWriting(t) \/ WakeNextWriter(t) \/ Finish(t)

CallerStep ==
  \/ Prepare \/ PrepareFails \/ Create \/ CreateFails
  \/ StartSubThread \/ SetFirstWrite \/ SetFirstRead \/ WaitSubThread
  \/ CloseEvents \/ Return
  \/ SetStop \/ SetStartToStop \/ Join \/ Destructed

Next ==
  \/ \E t \in Thread : ThreadStep(t)
  \/ CallerStep
  \/ \E n \in 2..MaxThreads, b \in 1..MaxBlocks : Code(n, b)
  \/ Destruct
  \/ Terminating

Spec == Init /\ [][Next]_vars

\* The scheduler runs every thread that can run; reading, coding and writing
\* a block end.  The user need not call MtCoder_Code or MtCoder_Destruct.
FairSpec ==
  /\ Spec
  /\ WF_vars(CallerStep)
  /\ \A t \in Thread : WF_vars(ThreadStep(t))

-----------------------------------------------------------------------------
\* The streams of the caller are not made for several threads: at most one
\* thread is in FullRead, and at most one in outStream->Write.
StreamsHaveOneUser ==
  /\ TypeOK
  /\ \A t, u \in Thread : t # u =>
       {pc[t], pc[u]} # {"read"} /\ {pc[t], pc[u]} # {"write"}

\* A thread that is told by MtProgress_Set to stop returns PROGRESS; this
\* never replaces the error that made it stop (the order of the two SetError
\* calls in ThreadFunc).
CauseIsReported == res = "PROGRESS" => progressRes = "PROGRESS"

\* When MtCoder_Code closes canRead and canWrite, no thread waits on one of
\* them or is about to use it, and no event is left that would start a thread
\* or end a wait of the next call too early.
EventsAreUnused ==
  main \in {"idle", "close", "return"} =>
    \A t \in Thread : pc[t] \in {"none", "start"} /\ ~th[t].startEvent /\ ~th[t].finishedEvent

\* MtCoder_Code is a sequential coder of blocks: it writes them in order, each
\* of them once, and returns the first error, never the FAIL of a thread that
\* was only told to stop.
inCode == main \notin {"idle", "destruct", "stop", "join", "destroyed"}
firstError == IF call.res = "OK" THEN res ELSE call.res
Seq == INSTANCE BlockCoder WITH
  coding <- inCode, blocks <- call.blocks, error <- firstError, ret <- call.ret
ImplementsBlockCoder == Seq!Spec

\* MtCoder_Code returns, whichever threads fail and however they interleave,
\* and MtCoder_Destruct joins all threads, also those that a failed call created.
CallsReturn == main # "idle" ~> main \in {"idle", "destroyed"}
=============================================================================
