--------------------------- MODULE BZip2EncoderMt ---------------------------
(***************************************************************************)
(* The multithreaded part of CPP/7zip/Compress/BZip2Encoder.cpp.  The      *)
(* threads read blocks one after the other under the critical section CS,  *)
(* encode them at the same time and write them in the order of the blocks: *)
(* the thread that has written block k sets the CanWriteEvent of the place *)
(* of block k + 1 in the ring ThreadsInfo.  CodeReal waits until every     *)
(* thread has finished the stream, closes the gate CanProcessEvent, and    *)
(* only then lets the threads go back to that gate (CanStartWaitingEvent,  *)
(* WaitingWasStartedEvent).                                                *)
(*                                                                         *)
(* A block is its number.  The callers set the number of threads once, and *)
(* give the encoder up when it could not create them all.                  *)
(***************************************************************************)
EXTENDS BZip2Ring

VARIABLES
  main,     \* where the caller is in CEncoder
  i,        \* the index t of its current loop
  ret,      \* what the last Code returned
  blocks,   \* the number of blocks of the input of this call
  enc,      \* the shared fields of CEncoder
  pc,       \* [Thread -> place in ThreadFunc]
  th,       \* [Thread -> the fields and local variables of a thread]
  numRead, written   \* blocks read, and blocks in m_OutStream, in this call

mainVars == <<main, i, ret, blocks>>
vars == <<mainVars, enc, pc, th, numRead, written>>

Main == {"idle", "create", "prepare", "start", "finish", "gate", "allow",
         "waiting", "return", "join", "destroyed"}

\* "locked" to "leave" are inside the critical section unless "fail" and
\* "finish" were reached after it was left.
Place == {"none", "canProcess", "locked", "canWrite", "write", "next",
          "fail", "finish", "leave", "canStartWaiting", "waitingWasStarted", "exited"}

Result == {"OK", "MEMORY", "THREAD"} \cup Failure

CEncoder ==
  [CanProcessEvent : BOOLEAN, CanStartWaitingEvent : BOOLEAN,
   CS : Thread \cup {NumThreads},      \* NumThreads: nobody is inside
   CloseThreads : BOOLEAN, StreamWasFinished : BOOLEAN,
   NextBlockIndex : Thread, Result : Result]

CThreadInfo ==
  [StreamWasFinishedEvent : BOOLEAN, WaitingWasStartedEvent : BOOLEAN,
   CanWriteEvent : BOOLEAN, m_BlockIndex : Thread, block : 0..MaxBlocks, res : Result]

TypeOK ==
  /\ main \in Main /\ i \in 0..NumThreads /\ ret \in Result
  /\ blocks \in 0..MaxBlocks /\ numRead \in 0..blocks /\ written \in 0..numRead
  /\ enc \in CEncoder
  /\ pc \in [Thread -> Place]
  /\ th \in [Thread -> CThreadInfo]

Init ==
  /\ main = "idle" /\ i = 0 /\ ret = "OK" /\ blocks = 0
  /\ enc = [CanProcessEvent |-> FALSE, CanStartWaitingEvent |-> FALSE, CS |-> NumThreads,
            CloseThreads |-> FALSE, StreamWasFinished |-> FALSE,
            NextBlockIndex |-> 0, Result |-> "OK"]
  /\ pc = [t \in Thread |-> "none"]
  /\ th = [t \in Thread |->
             [StreamWasFinishedEvent |-> FALSE, WaitingWasStartedEvent |-> FALSE,
              CanWriteEvent |-> FALSE, m_BlockIndex |-> 0, block |-> 0, res |-> "OK"]]
  /\ numRead = 0 /\ written = 0

-----------------------------------------------------------------------------
(* ThreadFunc                                                              *)

Step(t, from, to) == pc[t] = from /\ pc' = [pc EXCEPT ![t] = to] /\ UNCHANGED mainVars
InCS(t) == enc.CS = t

\* CanProcessEvent.Lock() and CS.Enter(): the gate stays open until every thread
\* has finished, so nothing is lost between the two.
Enter(t) ==
  /\ Step(t, "canProcess", "locked") /\ enc.CanProcessEvent /\ enc.CS = NumThreads
  /\ enc' = [enc EXCEPT !.CS = t]
  /\ UNCHANGED <<th, numRead, written>>

Exit(t) ==
  /\ Step(t, "locked", "exited") /\ enc.CloseThreads
  /\ enc' = [enc EXCEPT !.CS = NumThreads]
  /\ UNCHANGED <<th, numRead, written>>

SeeFinished(t) ==
  /\ Step(t, "locked", "finish") /\ ~enc.CloseThreads /\ enc.StreamWasFinished
  /\ UNCHANGED <<enc, th, numRead, written>>

Reads == ~enc.CloseThreads /\ ~enc.StreamWasFinished

ReadFails(t) ==
  /\ Step(t, "locked", "fail") /\ Reads /\ "READ" \in Failure
  /\ th' = [th EXCEPT ![t].res = "READ"]
  /\ UNCHANGED <<enc, numRead, written>>

\* ReadRleBlock gives a block, and the lock is left.
ReadBlock(t) ==
  /\ Step(t, "locked", "canWrite") /\ Reads /\ numRead < blocks
  /\ th' = [th EXCEPT ![t].m_BlockIndex = enc.NextBlockIndex, ![t].block = numRead]
  /\ enc' = [enc EXCEPT !.NextBlockIndex = NextInRing(enc.NextBlockIndex), !.CS = NumThreads]
  /\ numRead' = numRead + 1
  /\ UNCHANGED written

\* ReadRleBlock gives no bytes: the end of the stream.
ReadEnd(t) ==
  /\ Step(t, "locked", "finish") /\ Reads /\ numRead = blocks
  /\ th' = [th EXCEPT ![t].m_BlockIndex = enc.NextBlockIndex]
  /\ enc' = [enc EXCEPT !.NextBlockIndex = NextInRing(enc.NextBlockIndex)]
  /\ UNCHANGED <<numRead, written>>

WaitCanWrite(t) ==
  LET k == th[t].m_BlockIndex IN
  /\ Step(t, "canWrite", "write") /\ th[k].CanWriteEvent
  /\ th' = [th EXCEPT ![k].CanWriteEvent = FALSE]
  /\ UNCHANGED <<enc, numRead, written>>

\* CombinedCrc.Update and WriteBytes; COutBuffer throws if the stream fails.
WriteBlock(t) ==
  \E r \in {"OK"} \cup (Failure \cap {"WRITE"}) :
    /\ Step(t, "write", IF r = "OK" THEN "next" ELSE "fail")
    /\ th' = [th EXCEPT ![t].res = r]
    /\ written' = IF r = "OK" THEN written + 1 ELSE written
    /\ UNCHANGED <<enc, numRead>>

\* SetRatioInfo may fail; then the next CanWriteEvent is set.
SetCanWrite(t) ==
  LET k == NextInRing(th[t].m_BlockIndex) IN
  \/ /\ Step(t, "next", "canProcess")
     /\ th' = [th EXCEPT ![k].CanWriteEvent = TRUE]
     /\ UNCHANGED <<enc, numRead, written>>
  \/ /\ Step(t, "next", "fail") /\ "PROGRESS" \in Failure
     /\ th' = [th EXCEPT ![k].CanWriteEvent = TRUE, ![t].res = "PROGRESS"]
     /\ UNCHANGED <<enc, numRead, written>>

\* Encoder->Result = res, with or without the lock.
Fail(t) ==
  /\ Step(t, "fail", "finish")
  /\ enc' = [enc EXCEPT !.Result = th[t].res]
  /\ th' = [th EXCEPT ![t].res = "OK"]
  /\ UNCHANGED <<numRead, written>>

\* FinishStream: needLeave is true if the lock is still held.
FinishStream(t) ==
  /\ Step(t, "finish", IF InCS(t) THEN "leave" ELSE "canStartWaiting")
  /\ enc' = [enc EXCEPT !.StreamWasFinished = TRUE]
  /\ th' = [th EXCEPT ![t].StreamWasFinishedEvent = TRUE]
  /\ UNCHANGED <<numRead, written>>

Leave(t) ==
  /\ Step(t, "leave", "canStartWaiting")
  /\ enc' = [enc EXCEPT !.CS = NumThreads]
  /\ UNCHANGED <<th, numRead, written>>

WaitCanStartWaiting(t) ==
  /\ Step(t, "canStartWaiting", "waitingWasStarted") /\ enc.CanStartWaitingEvent
  /\ UNCHANGED <<enc, th, numRead, written>>

SetWaitingWasStarted(t) ==
  /\ Step(t, "waitingWasStarted", "canProcess")
  /\ th' = [th EXCEPT ![t].WaitingWasStartedEvent = TRUE]
  /\ UNCHANGED <<enc, numRead, written>>

ThreadStep(t) ==
  \/ Enter(t) \/ Exit(t) \/ SeeFinished(t)
  \/ ReadFails(t) \/ ReadBlock(t) \/ ReadEnd(t)
  \/ WaitCanWrite(t) \/ WriteBlock(t) \/ SetCanWrite(t)
  \/ Fail(t) \/ FinishStream(t) \/ Leave(t)
  \/ WaitCanStartWaiting(t) \/ SetWaitingWasStarted(t)

-----------------------------------------------------------------------------
(* CEncoder                                                                *)

MainStep(from, to) == main = from /\ main' = to
LoopStep(loop) == main = loop /\ i < NumThreads /\ i' = i + 1 /\ UNCHANGED <<main, ret, blocks>>
LoopEnds(from, to) == MainStep(from, to) /\ i = NumThreads /\ i' = 0 /\ UNCHANGED <<ret, blocks>>

\* CodeReal up to Create, which makes the threads of the first call.
Code ==
  /\ MainStep("idle", IF pc[0] = "none" THEN "create" ELSE "prepare")
  /\ blocks' \in 0..MaxBlocks
  /\ numRead' = 0 /\ written' = 0
  /\ UNCHANGED <<i, ret, enc, pc, th>>

CreateThread ==
  /\ LoopStep("create")
  /\ pc' = [pc EXCEPT ![i] = "canProcess"]
  /\ UNCHANGED <<enc, th, numRead, written>>

\* An event or a thread cannot be created: Free joins the threads there are.
CreateFails ==
  /\ MainStep("create", "join") /\ i < NumThreads
  /\ i' = 0 /\ ret' = "THREAD"
  /\ enc' = [enc EXCEPT !.CloseThreads = TRUE, !.CanProcessEvent = TRUE]
  /\ UNCHANGED <<blocks, pc, th, numRead, written>>

CreateEnds == LoopEnds("create", "prepare") /\ UNCHANGED <<enc, pc, th, numRead, written>>

\* The loop that resets the events and allocates the buffers of the threads,
\* which all wait for CanProcessEvent; then the fields for this stream.  (The
\* last block of a thread is forgotten, only to have fewer states.)
Prepare ==
  /\ MainStep("prepare", "start")
  /\ th' = [t \in Thread |-> [th[t] EXCEPT
              !.StreamWasFinishedEvent = FALSE, !.WaitingWasStartedEvent = FALSE,
              !.CanWriteEvent = FALSE, !.m_BlockIndex = 0, !.block = 0]]
  /\ enc' = [enc EXCEPT !.NextBlockIndex = 0, !.StreamWasFinished = FALSE,
                        !.CloseThreads = FALSE, !.CanStartWaitingEvent = FALSE]
  /\ UNCHANGED <<i, ret, blocks, pc, numRead, written>>

AllocFails ==
  /\ MainStep("prepare", "idle") /\ ret' = "MEMORY"
  /\ UNCHANGED <<i, blocks, enc, pc, th, numRead, written>>

OpenGate ==
  /\ MainStep("start", "finish")
  /\ th' = [th EXCEPT ![0].CanWriteEvent = TRUE]
  /\ enc' = [enc EXCEPT !.Result = "OK", !.CanProcessEvent = TRUE]
  /\ UNCHANGED <<i, ret, blocks, pc, numRead, written>>

WaitFinished ==
  /\ LoopStep("finish") /\ th[i].StreamWasFinishedEvent
  /\ th' = [th EXCEPT ![i].StreamWasFinishedEvent = FALSE]
  /\ UNCHANGED <<enc, pc, numRead, written>>

\* A slip: the threads may go back to the gate while it is still open.
CloseGateNot ==
  /\ LoopEnds("finish", "allow")
  /\ UNCHANGED <<enc, pc, th, numRead, written>>

\* CanProcessEvent.Reset().
CloseGate ==
  /\ LoopEnds("finish", "allow")
  /\ enc' = [enc EXCEPT !.CanProcessEvent = FALSE]
  /\ UNCHANGED <<pc, th, numRead, written>>

AllowWaiting ==
  /\ MainStep("allow", "waiting")
  /\ enc' = [enc EXCEPT !.CanStartWaitingEvent = TRUE]
  /\ UNCHANGED <<i, ret, blocks, pc, th, numRead, written>>

WaitWaiting ==
  /\ LoopStep("waiting") /\ th[i].WaitingWasStartedEvent
  /\ th' = [th EXCEPT ![i].WaitingWasStartedEvent = FALSE]
  /\ UNCHANGED <<enc, pc, numRead, written>>

WaitingEnds ==
  /\ LoopEnds("waiting", "return")
  /\ enc' = [enc EXCEPT !.CanStartWaitingEvent = FALSE]
  /\ UNCHANGED <<pc, th, numRead, written>>

\* RINOK(Result), and the end of the stream is flushed.
Return ==
  /\ MainStep("return", "idle")
  /\ ret' \in IF enc.Result = "OK" THEN {"OK"} \cup (Failure \cap {"WRITE"}) ELSE {enc.Result}
  /\ UNCHANGED <<i, blocks, enc, pc, th, numRead, written>>

\* ~CEncoder: Free.
Free ==
  /\ MainStep("idle", "join")
  /\ enc' = IF pc[0] = "none" THEN enc
            ELSE [enc EXCEPT !.CloseThreads = TRUE, !.CanProcessEvent = TRUE]
  /\ UNCHANGED <<i, ret, blocks, pc, th, numRead, written>>

JoinThread ==
  /\ LoopStep("join") /\ pc[i] \in {"none", "exited"}
  /\ UNCHANGED <<enc, pc, th, numRead, written>>

Freed == LoopEnds("join", "destroyed") /\ UNCHANGED <<enc, pc, th, numRead, written>>

Terminating == main = "destroyed" /\ UNCHANGED vars

CallerStep ==
  \/ CreateThread \/ CreateFails \/ CreateEnds
  \/ Prepare \/ AllocFails \/ OpenGate
  \/ WaitFinished \/ CloseGate \/ AllowWaiting \/ WaitWaiting \/ WaitingEnds \/ Return
  \/ JoinThread \/ Freed

Next ==
  \/ Code \/ Free
  \/ CallerStep
  \/ \E t \in Thread : ThreadStep(t)
  \/ Terminating

Spec == Init /\ [][Next]_vars

\* The threads are scheduled; a file has so few blocks that no thread can
\* keep another one from the critical section for ever.
FairSpec == Spec /\ WF_vars(CallerStep) /\ \A t \in Thread : WF_vars(ThreadStep(t))

-----------------------------------------------------------------------------
\* Whatever threads wait for their turn, the block that is written next is the
\* next one of the file, by one thread at a time, so the combined CRC and the
\* blocks of the archive are in the order of the file.
BlocksInOrder ==
  \A t \in Thread :
    /\ pc[t] = "write" => th[t].block = written
    /\ pc[t] = "next" => th[t].block = written - 1

\* Code returns S_OK only if every block of the file was written; so no error
\* of a thread is lost, though the threads set Result without a lock.
SuccessIsComplete == main = "idle" /\ ret = "OK" => written = blocks

\* When Code returns, all threads wait at the closed gate, so that the loop
\* that prepares the next stream is alone, and no event is left that would end
\* a wait of the next call too early.
ThreadsAreParked ==
  main \in {"prepare", "start", "return", "idle"} =>
    /\ ~enc.CanProcessEvent /\ ~enc.CanStartWaitingEvent /\ enc.CS = NumThreads
    /\ \A t \in Thread :
         /\ pc[t] \in {"none", "canProcess"}
         /\ ~th[t].StreamWasFinishedEvent /\ ~th[t].WaitingWasStartedEvent

\* Code returns, with the error if there was one, and ~CEncoder joins all
\* threads.
CallsReturn == main # "idle" ~> main \in {"idle", "destroyed"}
=============================================================================
