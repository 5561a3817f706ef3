--------------------------- MODULE BZip2DecoderMt ---------------------------
(***************************************************************************)
(* The multithreaded part of CPP/7zip/Compress/BZip2Decoder.cpp.  As in    *)
(* the encoder the threads read one after the other under CS, decode at    *)
(* the same time and write in the order of the blocks.  There are two ends *)
(* of a stream: StreamWasFinished1 says that nothing is left to read, and  *)
(* StreamWasFinished2 that nothing may be written any more because a block *)
(* was bad; a thread whose turn comes then passes it on and stops.         *)
(*                                                                         *)
(* A block is its number.  As in the model of the encoder, the number of   *)
(* threads is set once.                                                    *)
(***************************************************************************)
EXTENDS BZip2Ring

VARIABLES
  main,     \* where the caller is in CDecoder
  i,        \* the index t of its current loop
  ret,      \* what the last Code returned
  file,     \* what will happen to the input of this call
  dec,      \* the shared fields of CDecoder
  pc,       \* [Thread -> place in ThreadFunc]
  th,       \* [Thread -> the fields and local variables of a CState]
  numRead, written   \* blocks read, and good blocks in m_OutStream

mainVars == <<main, i, ret, file>>
vars == <<mainVars, dec, pc, th, numRead, written>>

Main == {"idle", "create", "prepare", "start", "finish", "gate", "allow",
         "waiting", "return", "join", "destroyed"}

\* "locked" to "leave" are inside the critical section.
Place == {"none", "canProcess", "locked", "finish", "leave",
          "canWrite", "write", "fail", "next", "finished",
          "canStartWaiting", "waitingWasStarted", "exited"}

Result == {"OK", "NOTBZ", "MEMORY", "THREAD", "S_FALSE"} \cup Failure

\* Block number bad is the first that cannot be decoded or written, for the
\* reason why, or after which progress stops the decoder; tail is what is
\* found behind the last block.
File == {f \in [blocks : 0..MaxBlocks, bad : 0..MaxBlocks,
                why : {"S_FALSE"} \cup (Failure \cap {"WRITE", "PROGRESS"}),
                tail : {"OK", "S_FALSE"} \cup (Failure \cap {"READ"})] :
           f.bad <= f.blocks /\ (f.bad = f.blocks => f.why = "S_FALSE")}
NoFile == [blocks |-> 0, bad |-> 0, why |-> "S_FALSE", tail |-> "OK"]

CDecoder ==
  [CanProcessEvent : BOOLEAN, CanStartWaitingEvent : BOOLEAN,
   CS : Thread \cup {NumThreads},      \* NumThreads: nobody is inside
   CloseThreads : BOOLEAN, StreamWasFinished1 : BOOLEAN, StreamWasFinished2 : BOOLEAN,
   NextBlockIndex : Thread, Result1 : Result, Result2 : Result]

CState ==
  [StreamWasFinishedEvent : BOOLEAN, WaitingWasStartedEvent : BOOLEAN,
   CanWriteEvent : BOOLEAN, blockIndex : Thread, block : 0..MaxBlocks,
   res : Result, needFinish : BOOLEAN]

TypeOK ==
  /\ main \in Main /\ i \in 0..NumThreads /\ ret \in Result
  /\ file \in File /\ numRead \in 0..file.blocks /\ written \in 0..numRead
  /\ dec \in CDecoder
  /\ pc \in [Thread -> Place]
  /\ th \in [Thread -> CState]

Init ==
  /\ main = "idle" /\ i = 0 /\ ret = "OK" /\ file = NoFile
  /\ dec = [CanProcessEvent |-> FALSE, CanStartWaitingEvent |-> FALSE, CS |-> NumThreads,
            CloseThreads |-> FALSE, StreamWasFinished1 |-> FALSE,
            StreamWasFinished2 |-> FALSE, NextBlockIndex |-> 0,
            Result1 |-> "OK", Result2 |-> "OK"]
  /\ pc = [t \in Thread |-> "none"]
  /\ th = [t \in Thread |->
             [StreamWasFinishedEvent |-> FALSE, WaitingWasStartedEvent |-> FALSE,
              CanWriteEvent |-> FALSE, blockIndex |-> 0, block |-> 0,
              res |-> "OK", needFinish |-> FALSE]]
  /\ numRead = 0 /\ written = 0

-----------------------------------------------------------------------------
(* ThreadFunc                                                              *)

Step(t, from, to) == pc[t] = from /\ pc' = [pc EXCEPT ![t] = to] /\ UNCHANGED mainVars

\* CanProcessEvent.Lock() and CS.Enter(): the gate stays open until every thread
\* has finished, so nothing is lost between the two.
Enter(t) ==
  /\ Step(t, "canProcess", "locked") /\ dec.CanProcessEvent /\ dec.CS = NumThreads
  /\ dec' = [dec EXCEPT !.CS = t]
  /\ UNCHANGED <<th, numRead, written>>

Exit(t) ==
  /\ Step(t, "locked", "exited") /\ dec.CloseThreads
  /\ dec' = [dec EXCEPT !.CS = NumThreads]
  /\ UNCHANGED <<th, numRead, written>>

SeeFinished(t) ==
  /\ Step(t, "locked", "finish") /\ ~dec.CloseThreads /\ dec.StreamWasFinished1
  /\ UNCHANGED <<dec, th, numRead, written>>

Reads == ~dec.CloseThreads /\ ~dec.StreamWasFinished1

\* ReadSignatures and ReadBlock succeed, and the lock is left.
ReadBlock(t) ==
  LET k == dec.NextBlockIndex IN
  /\ Step(t, "locked", "canWrite") /\ Reads /\ numRead < file.blocks
  /\ th' = [th EXCEPT ![t].blockIndex = k, ![t].block = numRead]
  /\ dec' = [dec EXCEPT !.NextBlockIndex = NextInRing(k), !.CS = NumThreads]
  /\ numRead' = numRead + 1
  /\ UNCHANGED written

\* The signature of the end, a wrong signature, checksum or block, or an
\* exception of the input buffer.
ReadEnd(t) ==
  /\ Step(t, "locked", "finish") /\ Reads /\ numRead = file.blocks
  /\ dec' = [dec EXCEPT !.NextBlockIndex = NextInRing(dec.NextBlockIndex), !.Result1 = file.tail]
  /\ UNCHANGED <<th, numRead, written>>

FinishStream(t) ==
  /\ Step(t, "finish", "leave")
  /\ dec' = [dec EXCEPT !.StreamWasFinished1 = TRUE]
  /\ th' = [th EXCEPT ![t].StreamWasFinishedEvent = TRUE]
  /\ UNCHANGED <<numRead, written>>

Leave(t) ==
  /\ Step(t, "leave", "canStartWaiting")
  /\ dec' = [dec EXCEPT !.CS = NumThreads]
  /\ UNCHANGED <<th, numRead, written>>

\* A slip: a thread whose turn comes after an error goes on.
WaitCanWriteAlways(t) ==
  LET k == th[t].blockIndex IN
  /\ Step(t, "canWrite", "write") /\ th[k].CanWriteEvent
  /\ th' = [th EXCEPT ![k].CanWriteEvent = FALSE]
  /\ UNCHANGED <<dec, numRead, written>>

WaitCanWrite(t) ==
  LET k == th[t].blockIndex IN
  /\ Step(t, "canWrite", IF dec.StreamWasFinished2 THEN "next" ELSE "write")
  /\ th[k].CanWriteEvent
  /\ th' = [[th EXCEPT ![k].CanWriteEvent = FALSE]
               EXCEPT ![t].needFinish = dec.StreamWasFinished2]
  /\ UNCHANGED <<dec, numRead, written>>

\* DecodeBlock2 and the comparison of the checksum, then SetRatioProgress.
WriteBlock(t) ==
  LET isBad == th[t].block = file.bad IN
  /\ Step(t, "write", IF isBad THEN "fail" ELSE "next")
  /\ th' = [th EXCEPT ![t].res = IF isBad THEN file.why ELSE "OK"]
  /\ written' = IF isBad /\ file.why # "PROGRESS" THEN written ELSE written + 1
  /\ UNCHANGED <<dec, numRead>>

Fail(t) ==
  /\ Step(t, "fail", "next")
  /\ dec' = [dec EXCEPT !.Result2 = th[t].res, !.StreamWasFinished2 = TRUE]
  /\ UNCHANGED <<th, numRead, written>>

Stops(t) == th[t].res # "OK" \/ th[t].needFinish

\* A slip: a thread that stops does not pass the turn on.
SetCanWriteUnlessStopped(t) ==
  LET k == NextInRing(th[t].blockIndex) IN
  /\ Step(t, "next", IF Stops(t) THEN "finished" ELSE "canProcess")
  /\ th' = IF Stops(t) THEN th ELSE [th EXCEPT ![k].CanWriteEvent = TRUE]
  /\ UNCHANGED <<dec, numRead, written>>

SetCanWrite(t) ==
  LET k == NextInRing(th[t].blockIndex) IN
  /\ Step(t, "next", IF Stops(t) THEN "finished" ELSE "canProcess")
  /\ th' = [th EXCEPT ![k].CanWriteEvent = TRUE]
  /\ UNCHANGED <<dec, numRead, written>>

SetFinished(t) ==
  /\ Step(t, "finished", "canStartWaiting")
  /\ th' = [th EXCEPT ![t].StreamWasFinishedEvent = TRUE, ![t].res = "OK", ![t].needFinish = FALSE]
  /\ UNCHANGED <<dec, numRead, written>>

WaitCanStartWaiting(t) ==
  /\ Step(t, "canStartWaiting", "waitingWasStarted") /\ dec.CanStartWaitingEvent
  /\ UNCHANGED <<dec, th, numRead, written>>

SetWaitingWasStarted(t) ==
  /\ Step(t, "waitingWasStarted", "canProcess")
  /\ th' = [th EXCEPT ![t].WaitingWasStartedEvent = TRUE]
  /\ UNCHANGED <<dec, numRead, written>>

ThreadStep(t) ==
  \/ Enter(t) \/ Exit(t) \/ SeeFinished(t)
  \/ ReadBlock(t) \/ ReadEnd(t) \/ FinishStream(t) \/ Leave(t)
  \/ WaitCanWrite(t) \/ WriteBlock(t) \/ Fail(t) \/ SetCanWrite(t) \/ SetFinished(t)
  \/ WaitCanStartWaiting(t) \/ SetWaitingWasStarted(t)

-----------------------------------------------------------------------------
(* CDecoder                                                                *)

MainStep(from, to) == main = from /\ main' = to
LoopStep(loop) == main = loop /\ i < NumThreads /\ i' = i + 1 /\ UNCHANGED <<main, ret, file>>
LoopEnds(from, to) == MainStep(from, to) /\ i = NumThreads /\ i' = 0 /\ UNCHANGED <<ret, file>>

\* CodeReal, and DecodeFile up to Create, which makes the threads of the first
\* call.  (The last result is forgotten, only to have fewer states.)
Code ==
  /\ MainStep("idle", IF pc[0] = "none" THEN "create" ELSE "prepare")
  /\ file' \in File /\ ret' = "OK"
  /\ numRead' = 0 /\ written' = 0
  /\ UNCHANGED <<i, dec, pc, th>>

CreateThread ==
  /\ LoopStep("create")
  /\ pc' = [pc EXCEPT ![i] = "canProcess"]
  /\ UNCHANGED <<dec, th, numRead, written>>

\* An event or a thread cannot be created: Free joins the threads there are.
CreateFails ==
  /\ MainStep("create", "join") /\ i < NumThreads
  /\ i' = 0 /\ ret' = "THREAD"
  /\ dec' = [dec EXCEPT !.CloseThreads = TRUE, !.CanProcessEvent = TRUE]
  /\ UNCHANGED <<file, pc, th, numRead, written>>

CreateEnds == LoopEnds("create", "prepare") /\ UNCHANGED <<dec, pc, th, numRead, written>>

\* The loop that allocates the buffers and resets the events of the threads,
\* which all wait for CanProcessEvent; then the header is read.  (The last
\* block of a thread is forgotten, only to have fewer states.)
Prepare ==
  /\ MainStep("prepare", "start")
  /\ th' = [t \in Thread |-> [th[t] EXCEPT
              !.StreamWasFinishedEvent = FALSE, !.WaitingWasStartedEvent = FALSE,
              !.CanWriteEvent = FALSE, !.blockIndex = 0, !.block = 0]]
  /\ UNCHANGED <<i, ret, file, dec, pc, numRead, written>>

AllocFails ==
  /\ MainStep("prepare", "idle") /\ ret' = "MEMORY"
  /\ UNCHANGED <<i, file, dec, pc, th, numRead, written>>

\* The header cannot be read or is not one of BZip2.
NotBZip2 ==
  /\ MainStep("start", "idle") /\ ret' \in {"NOTBZ"} \cup (Failure \cap {"READ"})
  /\ UNCHANGED <<i, file, dec, pc, th, numRead, written>>

\* A slip: Result2 is that of the stream before.
OpenGateStale ==
  /\ MainStep("start", "finish")
  /\ dec' = [dec EXCEPT !.NextBlockIndex = 0, !.StreamWasFinished1 = FALSE,
               !.StreamWasFinished2 = FALSE, !.CloseThreads = FALSE,
               !.CanStartWaitingEvent = FALSE, !.Result1 = "OK",
               !.CanProcessEvent = TRUE]
  /\ th' = [th EXCEPT ![0].CanWriteEvent = TRUE]
  /\ UNCHANGED <<i, ret, file, pc, numRead, written>>

OpenGate ==
  /\ MainStep("start", "finish")
  /\ dec' = [dec EXCEPT !.NextBlockIndex = 0, !.StreamWasFinished1 = FALSE,
               !.StreamWasFinished2 = FALSE, !.CloseThreads = FALSE,
               !.CanStartWaitingEvent = FALSE, !.Result1 = "OK", !.Result2 = "OK",
               !.CanProcessEvent = TRUE]
  /\ th' = [th EXCEPT ![0].CanWriteEvent = TRUE]
  /\ UNCHANGED <<i, ret, file, pc, numRead, written>>

WaitFinished ==
  /\ LoopStep("finish") /\ th[i].StreamWasFinishedEvent
  /\ th' = [th EXCEPT ![i].StreamWasFinishedEvent = FALSE]
  /\ UNCHANGED <<dec, pc, numRead, written>>

CloseGate ==
  /\ LoopEnds("finish", "allow")
  /\ dec' = [dec EXCEPT !.CanProcessEvent = FALSE]
  /\ UNCHANGED <<pc, th, numRead, written>>

AllowWaiting ==
  /\ MainStep("allow", "waiting")
  /\ dec' = [dec EXCEPT !.CanStartWaitingEvent = TRUE]
  /\ UNCHANGED <<i, ret, file, pc, th, numRead, written>>

WaitWaiting ==
  /\ LoopStep("waiting") /\ th[i].WaitingWasStartedEvent
  /\ th' = [th EXCEPT ![i].WaitingWasStartedEvent = FALSE]
  /\ UNCHANGED <<dec, pc, numRead, written>>

WaitingEnds ==
  /\ LoopEnds("waiting", "return")
  /\ dec' = [dec EXCEPT !.CanStartWaitingEvent = FALSE]
  /\ UNCHANGED <<pc, th, numRead, written>>

\* RINOK(Result2), RINOK(Result1), then the last SetRatioProgress and Flush.
Return ==
  /\ MainStep("return", "idle")
  /\ ret' \in IF dec.Result2 # "OK" THEN {dec.Result2}
              ELSE IF dec.Result1 # "OK" THEN {dec.Result1}
              ELSE {"OK"} \cup (Failure \cap {"PROGRESS", "WRITE"})
  /\ UNCHANGED <<i, file, dec, pc, th, numRead, written>>

\* ~CDecoder: Free.
Free ==
  /\ MainStep("idle", "join")
  /\ dec' = IF pc[0] = "none" THEN dec
            ELSE [dec EXCEPT !.CloseThreads = TRUE, !.CanProcessEvent = TRUE]
  /\ UNCHANGED <<i, ret, file, pc, th, numRead, written>>

JoinThread ==
  /\ LoopStep("join") /\ pc[i] \in {"none", "exited"}
  /\ UNCHANGED <<dec, pc, th, numRead, written>>

Freed == LoopEnds("join", "destroyed") /\ UNCHANGED <<dec, pc, th, numRead, written>>

Terminating == main = "destroyed" /\ UNCHANGED vars

CallerStep ==
  \/ CreateThread \/ CreateFails \/ CreateEnds
  \/ Prepare \/ AllocFails \/ NotBZip2 \/ OpenGate
  \/ WaitFinished \/ CloseGate \/ AllowWaiting \/ WaitWaiting \/ WaitingEnds \/ Return
  \/ JoinThread \/ Freed

Next ==
  \/ Code \/ Free
  \/ CallerStep
  \/ \E t \in Thread : ThreadStep(t)
  \/ Terminating

Spec == Init /\ [][Next]_vars

\* As for the encoder: the threads are scheduled.
FairSpec == Spec /\ WF_vars(CallerStep) /\ \A t \in Thread : WF_vars(ThreadStep(t))

-----------------------------------------------------------------------------
\* The loop of DecodeFile for one thread: how many good blocks f gives, and
\* with which result it ends.
SingleThreaded(f) ==
  IF f.bad = f.blocks THEN [written |-> f.blocks, res |-> f.tail]
  ELSE [written |-> IF f.why = "PROGRESS" THEN f.bad + 1 ELSE f.bad, res |-> f.why]

\* Whatever threads wait for their turn, the block that is written next is the
\* next one of the file, and nothing is written behind a bad block.
BlocksInOrder ==
  \A t \in Thread :
    /\ pc[t] = "write" => th[t].block = written /\ ~dec.StreamWasFinished2
    /\ pc[t] = "next" /\ ~Stops(t) => th[t].block = written - 1

\* Code gives the blocks and the result that one thread would have given: of
\* several errors, that of the first block in the order of the file, though
\* another thread may have met its own earlier.
AsOneThread ==
  main = "return" =>
    /\ written = SingleThreaded(file).written
    /\ SingleThreaded(file).res = IF dec.Result2 # "OK" THEN dec.Result2 ELSE dec.Result1

\* When Code returns, all threads wait at the closed gate and no event is left
\* that would end a wait of the next call too early.
ThreadsAreParked ==
  main \in {"prepare", "start", "return", "idle"} =>
    /\ ~dec.CanProcessEvent /\ ~dec.CanStartWaitingEvent /\ dec.CS = NumThreads
    /\ \A t \in Thread :
         /\ pc[t] \in {"none", "canProcess"} /\ ~Stops(t)
         /\ ~th[t].StreamWasFinishedEvent /\ ~th[t].WaitingWasStartedEvent

\* Code returns whatever blocks are bad, and ~CDecoder joins all threads.
CallsReturn == main # "idle" ~> main \in {"idle", "destroyed"}
=============================================================================
