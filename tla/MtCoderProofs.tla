--------------------------- MODULE MtCoderProofs ---------------------------
(***************************************************************************)
(* Proofs about MtCoder for any number of threads, any number of blocks    *)
(* and any number of calls.                                                *)
(***************************************************************************)
EXTENDS MtCoder, TLAPS

\* At StartEvent, with nothing that would start it or end a wait for it.
Parked(t) == pc[t] \in {"none", "start"} /\ ~th[t].startEvent /\ ~th[t].finishedEvent

\* In MtThread_Process or the error branch.
Working(t) == pc[t] \notin {"none", "start", "exited"}

\* Started before the turns exist: it cannot get further than its first wait.
Fresh(t) ==
  /\ ~th[t].finishedEvent
  /\ \/ pc[t] = "start" /\ th[t].startEvent
     \/ pc[t] = "canRead" /\ ~th[t].startEvent

\* From LoopThread_StartSubThread to LoopThread_WaitSubThread.
Started(t) ==
  \/ pc[t] = "start" /\ th[t].startEvent /\ ~th[t].finishedEvent
  \/ Working(t) /\ ~th[t].startEvent /\ ~th[t].finishedEvent
  \/ pc[t] = "start" /\ ~th[t].startEvent /\ th[t].finishedEvent

Used(t) == t < call.numThreads
Ending == {"destruct", "stop", "join", "destroyed"}

\* In each place of the caller, where the threads are.
Phase ==
  /\ main \in {"idle", "prepare", "create", "close", "return"} => \A t \in Thread : Parked(t)
  /\ main \in {"start", "setWrite", "setRead"} =>
       \A t \in Thread :
         /\ Used(t) => ~th[t].stopReading /\ ~th[t].stopWriting
         /\ IF Used(t) /\ (main = "start" => t < call.i) THEN Fresh(t)
            ELSE Parked(t) /\ (Used(t) => pc[t] = "start")
  /\ main = "wait" =>
       \A t \in Thread : IF Used(t) /\ t >= call.i THEN Started(t) ELSE Parked(t)
  /\ main \in Ending => \A t \in Thread :
       pc[t] \in {"none", "start", "exited"} /\ (th[t].startEvent => th[t].stop)
  /\ main \notin Ending => \A t \in Thread : pc[t] # "none" => ~th[t].stop
  /\ main \in {"start", "wait"} => call.i < call.numThreads
  /\ main \in {"setWrite", "setRead"} => call.i = 0
  /\ main \in {"prepare", "create"} => call.i = 0
  /\ main = "create" => \A t \in Thread : Used(t) => ~th[t].stopReading /\ ~th[t].stopWriting
  /\ main \in {"stop", "join"} => call.i < MaxThreads
  /\ main = "stop" => (pc[call.i] # "none" => th[call.i].stop)

\* What is in the buffers of the threads has been read.
BlocksAreRead ==
  \A t \in Thread :
    /\ th[t].block <= read
    /\ th[t].block # 0 => pc[t] \in {"setRead", "code", "canWrite", "testWriting", "write",
                                     "setWrite", "error", "errorProgress"}

\* The turn to read that is worth something: the event of a thread that is not
\* told to stop, and the thread that has taken it.
MayRead(t) == th[t].canRead /\ ~th[t].stopReading
HasRead(t) ==
  \/ pc[t] = "testReading" /\ ~th[t].stopReading
  \/ pc[t] = "read"
  \/ pc[t] = "setRead" /\ ~th[NextThread(t)].stopReading

\* There is one at most; only the thread before sets the flag of a thread, and
\* it does so when it has read for the last time.
ReadTurn ==
  /\ \A t, u \in Thread : /\ MayRead(t) /\ MayRead(u) => t = u
                          /\ HasRead(t) /\ HasRead(u) => t = u
                          /\ ~(MayRead(t) /\ HasRead(u))
  /\ \A t \in Thread : MayRead(t) \/ HasRead(t) => read < call.blocks
  /\ \A t \in Thread : th[t].canRead => Used(t) /\ main \in {"wait", "close"}

StopFlags ==
  \A t \in Thread : Used(t) =>
    /\ th[NextThread(t)].stopReading =>
         \/ pc[t] \in {"passRead", "errorWriting", "errorSetRead", "errorSetWrite",
                       "finish", "none", "exited"}
         \/ pc[t] = "start" /\ ~th[t].startEvent
         \/ read >= call.blocks
         \/ main \in Ending
    /\ pc[t] \in {"passRead", "errorWriting", "errorSetRead"} => th[NextThread(t)].stopReading
    /\ pc[t] \in {"errorSetRead", "errorSetWrite"} => th[NextThread(t)].stopWriting

\* The same of the turn to write.
MayWrite(t) == th[t].canWrite /\ ~th[t].stopWriting
HasWrite(t) ==
  \/ pc[t] = "testWriting" /\ ~th[t].stopWriting
  \/ pc[t] \in {"write", "setWrite"}

WriteTurn ==
  /\ \A t, u \in Thread : /\ MayWrite(t) /\ MayWrite(u) => t = u
                          /\ HasWrite(t) /\ HasWrite(u) => t = u
                          /\ ~(MayWrite(t) /\ HasWrite(u))
  /\ \A t \in Thread : th[t].canWrite => Used(t) /\ main \in {"setRead", "wait", "close"}

\* The error that MtProgress_Set passes on is in CMtCoder::res already, unless
\* it is the callback of the user that ended the call.
Errors ==
  /\ \A t \in Thread :
       /\ pc[t] \in {"error", "errorProgress"} => th[t].err # "OK"
       /\ pc[t] \in {"error", "errorProgress"} /\ th[t].err = "PROGRESS" => progressRes # "OK"
       /\ pc[t] = "errorProgress" => res # "OK"
  /\ res = "PROGRESS" => progressRes = "PROGRESS"
  /\ progressRes \notin {"OK", "PROGRESS"} => res # "OK"

\* Nothing is read before the turns are given.
NotYetRead == main \in {"prepare", "create", "start", "setWrite", "setRead"} => read = 0

MtInv ==
  TypeOK /\ Phase /\ NotYetRead /\ BlocksAreRead /\ ReadTurn /\ StopFlags /\ WriteTurn /\ Errors

LEMMA InitInv == Init => MtInv
<1> SUFFICES ASSUME Init PROVE MtInv
  OBVIOUS
<1> USE MtCoderAssumption DEF Init
<1>1. TypeOK
  <2>1. call \in [i : 0..MaxThreads, numThreads : 2..MaxThreads, blocks : 1..MaxBlocks,
                  res : {"OK", "MEM", "THREAD"}, ret : SRes]
    BY DEF SRes
  <2>2. th \in [Thread -> CMtThread]
    BY DEF CMtThread, SRes
  <2> QED
    BY <2>1, <2>2 DEF TypeOK, Main, SRes, Place
<1>2. Phase /\ NotYetRead
  BY DEF Phase, NotYetRead, Parked, Ending
<1>3. BlocksAreRead /\ ReadTurn /\ StopFlags /\ WriteTurn /\ Errors
  <2>1. \A t \in Thread : /\ pc[t] = "none" /\ th[t].block = 0 /\ ~th[t].canRead /\ ~th[t].canWrite
    OBVIOUS
  <2> QED
    BY <2>1 DEF BlocksAreRead, ReadTurn, MayRead, HasRead, StopFlags, WriteTurn, MayWrite,
                HasWrite, Errors
<1> QED
  BY <1>1, <1>2, <1>3 DEF MtInv

\* The threads of a call in their ring.
LEMMA Ring ==
  ASSUME TypeOK
  PROVE  /\ \A t \in Thread : t \in Nat
         /\ call.numThreads \in 2..MaxThreads /\ call.i \in 0..MaxThreads
         /\ \A t \in Thread : Used(t) =>
              NextThread(t) \in Thread /\ Used(NextThread(t)) /\ NextThread(t) # t
         /\ \A t, u \in Thread : Used(t) /\ Used(u) /\ t # u => NextThread(t) # NextThread(u)
<1>1. call.numThreads \in 2..MaxThreads /\ call.i \in 0..MaxThreads
  BY DEF TypeOK
<1> QED
  BY <1>1, MtCoderAssumption DEF Thread, Used, NextThread

\* A thread at work is one of the present call, and the caller waits for it.
LEMMA Work ==
  ASSUME TypeOK, Phase, NEW t \in Thread, Working(t)
  PROVE  /\ Used(t) /\ ~th[t].startEvent /\ ~th[t].finishedEvent /\ ~th[t].stop
         /\ main \in {"start", "setWrite", "setRead", "wait"}
         /\ main = "start" => t < call.i
         /\ main = "wait" => t >= call.i
         /\ pc[t] # "canRead" => main = "wait"
<1>1. main \in Main /\ call.numThreads \in Nat /\ t \in Nat
  BY Ring DEF TypeOK
<1>2. main \notin {"idle", "prepare", "create", "close", "return"} /\ main \notin Ending
  BY DEF Phase, Parked, Working
<1>3. main \in {"start", "setWrite", "setRead", "wait"}
  BY <1>1, <1>2 DEF Main, Ending
<1>4. CASE main = "wait"
  BY <1>2, <1>4 DEF Phase, Parked, Working, Started
<1>5. CASE main \in {"start", "setWrite", "setRead"}
  BY <1>2, <1>5 DEF Phase, Parked, Working, Fresh
<1> QED
  BY <1>3, <1>4, <1>5

-----------------------------------------------------------------------------
(* A step of a thread.                                                      *)

\* A thread takes a step from its StartEvent or at work.
LEMMA StepsAreWork ==
  ASSUME NEW t \in Thread, ThreadStep(t)
  PROVE  WaitStart(t) \/ Working(t)
BY DEF ThreadStep, Step, Working, WaitRead, GoesOnReading, StopsReading, ReadBlock, SetNextRead,
       CodeSucceeds, Fails, ProgressBreaks, WaitWrite, TestWriting, WriteBlock, SetNextWrite,
       SetError, SetProgressError, StopNextReading, StopNextWriting, WakeNextWriter, Finish

LEMMA ThreadType ==
  ASSUME MtInv, NEW t \in Thread, ThreadStep(t)
  PROVE  TypeOK'
<1>1. TypeOK /\ Phase /\ BlocksAreRead /\ ReadTurn
  BY DEF MtInv
<1>2. Working(t) => NextThread(t) \in Thread
  BY <1>1, Ring, Work
<1>3. th \in [Thread -> CMtThread] /\ pc \in [Thread -> Place] /\ res \in SRes /\ progressRes \in SRes
  BY <1>1 DEF TypeOK
<1>4. th[t] \in CMtThread
  BY <1>3
<1> SUFFICES /\ call' = call /\ main' = main
             /\ res' \in SRes /\ progressRes' \in SRes
             /\ read' \in 0..call.blocks /\ written' \in 0..call.blocks
             /\ pc' \in [Thread -> Place] /\ th' \in [Thread -> CMtThread]
  BY <1>1 DEF TypeOK
<1>5. call' = call /\ main' = main
  BY DEF ThreadStep, callVars, WaitStart, WaitRead, GoesOnReading, StopsReading, ReadBlock, SetNextRead,
       CodeSucceeds, Fails, ProgressBreaks, WaitWrite, TestWriting, WriteBlock, SetNextWrite,
       SetError, SetProgressError, StopNextReading, StopNextWriting, WakeNextWriter, Finish
<1>6. pc' \in [Thread -> Place]
  BY <1>3 DEF Place, ThreadStep, Step, WaitStart, WaitRead, GoesOnReading, StopsReading, ReadBlock, SetNextRead,
       CodeSucceeds, Fails, ProgressBreaks, WaitWrite, TestWriting, WriteBlock, SetNextWrite,
       SetError, SetProgressError, StopNextReading, StopNextWriting, WakeNextWriter, Finish
<1>7. res' \in SRes /\ progressRes' \in SRes
  <2>1. th[t].err \in SRes
    BY <1>4 DEF CMtThread
  <2> QED
    BY <1>3, <2>1
       DEF SRes, Error, ThreadStep, resVars, WaitStart, WaitRead, GoesOnReading, StopsReading, ReadBlock,
       SetNextRead,
       CodeSucceeds, Fails, ProgressBreaks, WaitWrite, TestWriting, WriteBlock, SetNextWrite,
       SetError, SetProgressError, StopNextReading, StopNextWriting, WakeNextWriter, Finish
<1>8. read \in 0..call.blocks /\ written \in 0..call.blocks /\ call.blocks \in 1..MaxBlocks
  BY <1>1 DEF TypeOK
<1>9. read' \in 0..call.blocks
  <2>1. CASE ReadBlock(t)
    <3>1. read < call.blocks
      BY <1>1, <2>1 DEF ReadTurn, HasRead, ReadBlock, Step
    <3> QED
      BY <1>8, <2>1, <3>1 DEF ReadBlock
  <2>2. CASE ~ReadBlock(t)
    BY <1>8, <2>2
       DEF ThreadStep, streamVars, WaitStart, WaitRead, GoesOnReading, StopsReading, SetNextRead,
       CodeSucceeds, Fails, ProgressBreaks, WaitWrite, TestWriting, WriteBlock, SetNextWrite,
       SetError, SetProgressError, StopNextReading, StopNextWriting, WakeNextWriter, Finish
  <2> QED
    BY <2>1, <2>2
<1>10. written' \in 0..call.blocks
  <2>1. th[t].block \in Nat /\ th[t].block <= read
    BY <1>1, <1>4, MtCoderAssumption DEF BlocksAreRead, CMtThread
  <2> QED
    BY <1>8, <2>1
       DEF ThreadStep, streamVars, WaitStart, WaitRead, GoesOnReading, StopsReading, ReadBlock, SetNextRead,
       CodeSucceeds, Fails, ProgressBreaks, WaitWrite, TestWriting, WriteBlock, SetNextWrite,
       SetError, SetProgressError, StopNextReading, StopNextWriting, WakeNextWriter, Finish
<1>11. th' \in [Thread -> CMtThread]
  <2> USE <1>3 DEF CMtThread
  <2>1. CASE WaitStart(t)
    BY <2>1 DEF WaitStart
  <2>2. CASE WaitRead(t)
    BY <2>2 DEF WaitRead
  <2>3. CASE WaitWrite(t)
    BY <2>3 DEF WaitWrite
  <2>4. CASE Finish(t)
    BY <2>4 DEF Finish
  <2>5. CASE StopsReading(t)
    BY <2>5 DEF StopsReading
  <2>6. CASE SetNextRead(t)
    BY <2>6 DEF SetNextRead
  <2>7. CASE StopNextReading(t)
    BY <2>7 DEF StopNextReading
  <2>8. CASE StopNextWriting(t)
    BY <2>8 DEF StopNextWriting
  <2>9. CASE WakeNextWriter(t)
    BY <2>9 DEF WakeNextWriter
  <2>10. CASE GoesOnReading(t) \/ CodeSucceeds(t) \/ WriteBlock(t) \/ SetError(t)
    BY <2>10 DEF GoesOnReading, CodeSucceeds, WriteBlock, SetError
  <2>11. CASE ReadBlock(t)
    <3>1. read + 1 \in 0..MaxBlocks
      BY <1>8, <1>9, <2>11, MtCoderAssumption DEF ReadBlock
    <3> DEFINE last == read + 1 >= call.blocks
               th1 == [th EXCEPT ![t].block = read + 1]
    <3>2. last \in BOOLEAN
      OBVIOUS
    <3>3. th1 \in [Thread -> CMtThread]
      BY <3>1
    <3>4. th' = [th1 EXCEPT ![NextThread(t)].stopReading = last]
      BY <2>11 DEF ReadBlock
    <3> HIDE DEF th1, last
    <3> QED
      BY <3>2, <3>3, <3>4
  <2>12. CASE Fails(t) \/ ProgressBreaks(t) \/ TestWriting(t)
    <3>1. \/ th' = th
          \/ \E e \in SRes : th' = [th EXCEPT ![t].err = e]
      BY <2>12 DEF Fails, ProgressBreaks, TestWriting, SRes, Error
    <3> QED
      BY <3>1
  <2>13. CASE SetNextWrite(t)
    <3> DEFINE th1 == [th EXCEPT ![NextThread(t)].canWrite = TRUE]
    <3>1. th1 \in [Thread -> CMtThread]
      OBVIOUS
    <3>2. th' = [th1 EXCEPT ![t].block = 0]
      BY <2>13 DEF SetNextWrite
    <3> HIDE DEF th1
    <3> QED
      BY <3>1, <3>2, MtCoderAssumption
  <2>14. CASE SetProgressError(t)
    <3> DEFINE th1 == [th EXCEPT ![t].err = "OK"]
    <3>1. th1 \in [Thread -> CMtThread]
      BY DEF SRes
    <3>2. th' = [th1 EXCEPT ![t].block = 0]
      BY <2>14 DEF SetProgressError
    <3> HIDE DEF th1
    <3> QED
      BY <3>1, <3>2, MtCoderAssumption
  <2> QED
    BY <2>1, <2>2, <2>3, <2>4, <2>5, <2>6, <2>7, <2>8, <2>9, <2>10, <2>11, <2>12, <2>13, <2>14 DEF ThreadStep
<1> QED
  BY <1>5, <1>6, <1>7, <1>9, <1>10, <1>11

\* What a step of thread t leaves alone: the caller, the places of the other
\* threads and, of their fields, all but the turns and flags of the next one.
LEMMA ThreadFrame ==
  ASSUME MtInv, NEW t \in Thread, ThreadStep(t)
  PROVE  /\ call' = call /\ main' = main
         /\ \A u \in Thread : u # t => pc'[u] = pc[u]
         /\ \A u \in Thread : u # t =>
              /\ th'[u].startEvent = th[u].startEvent
              /\ th'[u].finishedEvent = th[u].finishedEvent
              /\ th'[u].stop = th[u].stop
              /\ th'[u].block = th[u].block
              /\ th'[u].err = th[u].err
         /\ \A u \in Thread : u # t /\ u # NextThread(t) => th'[u] = th[u]
<1>1. pc \in [Thread -> Place] /\ th \in [Thread -> CMtThread]
  BY DEF MtInv, TypeOK
<1>2. call' = call /\ main' = main
  BY DEF ThreadStep, callVars, WaitStart, WaitRead, GoesOnReading, StopsReading, ReadBlock, SetNextRead,
       CodeSucceeds, Fails, ProgressBreaks, WaitWrite, TestWriting, WriteBlock, SetNextWrite,
       SetError, SetProgressError, StopNextReading, StopNextWriting, WakeNextWriter, Finish
<1>3. \A u \in Thread : u # t => pc'[u] = pc[u]
  BY <1>1 DEF ThreadStep, Step, WaitStart, WaitRead, GoesOnReading, StopsReading, ReadBlock, SetNextRead,
       CodeSucceeds, Fails, ProgressBreaks, WaitWrite, TestWriting, WriteBlock, SetNextWrite,
       SetError, SetProgressError, StopNextReading, StopNextWriting, WakeNextWriter, Finish
<1>4. \A u \in Thread : u # t /\ u # NextThread(t) => th'[u] = th[u]
  BY <1>1 DEF ThreadStep, WaitStart, WaitRead, GoesOnReading, StopsReading, ReadBlock, SetNextRead,
       CodeSucceeds, Fails, ProgressBreaks, WaitWrite, TestWriting, WriteBlock, SetNextWrite,
       SetError, SetProgressError, StopNextReading, StopNextWriting, WakeNextWriter, Finish
<1>5. ASSUME NEW u \in Thread, u # t
      PROVE  /\ th'[u].startEvent = th[u].startEvent
             /\ th'[u].finishedEvent = th[u].finishedEvent
             /\ th'[u].stop = th[u].stop
             /\ th'[u].block = th[u].block
             /\ th'[u].err = th[u].err
  <2>1. CASE u # NextThread(t)
    BY <1>4, <1>5, <2>1
  <2>2. CASE u = NextThread(t)
    <3> USE <1>1, <1>5, <2>2 DEF CMtThread
    <3>1. CASE WaitStart(t) \/ WaitRead(t) \/ WaitWrite(t) \/ Finish(t)
      BY <3>1 DEF WaitStart, WaitRead, WaitWrite, Finish
    <3>2. CASE GoesOnReading(t) \/ CodeSucceeds(t) \/ WriteBlock(t) \/ SetError(t)
      BY <3>2 DEF GoesOnReading, CodeSucceeds, WriteBlock, SetError
    <3>3. CASE StopsReading(t) \/ StopNextReading(t) \/ StopNextWriting(t)
      BY <3>3 DEF StopsReading, StopNextReading, StopNextWriting
    <3>4. CASE SetNextRead(t) \/ WakeNextWriter(t)
      BY <3>4 DEF SetNextRead, WakeNextWriter
    <3>5. CASE ReadBlock(t)
      BY <3>5 DEF ReadBlock
    <3>6. CASE Fails(t) \/ ProgressBreaks(t) \/ TestWriting(t)
      BY <3>6 DEF Fails, ProgressBreaks, TestWriting
    <3>7. CASE SetNextWrite(t)
      BY <3>7 DEF SetNextWrite
    <3>8. CASE SetProgressError(t)
      BY <3>8 DEF SetProgressError
    <3> QED
      BY <3>1, <3>2, <3>3, <3>4, <3>5, <3>6, <3>7, <3>8 DEF ThreadStep
  <2> QED
    BY <2>1, <2>2
<1> QED
  BY <1>2, <1>3, <1>4, <1>5

\* The thread itself: it is started, stays at work, or finishes.
LEMMA OwnStep ==
  ASSUME MtInv, NEW t \in Thread, ThreadStep(t)
  PROVE  \/ /\ pc[t] = "start" /\ th[t].startEvent /\ ~th'[t].startEvent
            /\ th'[t].finishedEvent = th[t].finishedEvent /\ th'[t].stop = th[t].stop
            /\ pc'[t] = IF th[t].stop THEN "exited" ELSE "canRead"
         \/ /\ Working(t) /\ Working(t)' /\ UNCHANGED <<th[t].startEvent, th[t].finishedEvent, th[t].stop>>
            /\ pc'[t] # "canRead" => pc[t] # "canRead" \/ th[t].canRead
         \/ /\ Working(t) /\ pc[t] = "finish" /\ pc'[t] = "start" /\ th'[t].finishedEvent
            /\ th'[t].startEvent = th[t].startEvent /\ th'[t].stop = th[t].stop
<1>1. TypeOK /\ Phase /\ pc \in [Thread -> Place] /\ th \in [Thread -> CMtThread]
  BY DEF MtInv, TypeOK
<1>2. CASE WaitStart(t)
  BY <1>1, <1>2 DEF WaitStart, Step, CMtThread
<1>3. CASE Finish(t)
  BY <1>1, <1>3 DEF Finish, Step, CMtThread, Working
<1>4. CASE ~WaitStart(t) /\ ~Finish(t)
  <2>1. Working(t)
    BY <1>4, StepsAreWork
  <2>2. NextThread(t) # t
    BY <1>1, <2>1, Ring, Work
  <2>3. pc'[t] \notin {"none", "start", "exited"}
    BY <1>1, <1>4 DEF ThreadStep, Step, WaitRead, GoesOnReading, StopsReading, ReadBlock, SetNextRead,
       CodeSucceeds, Fails, ProgressBreaks, WaitWrite, TestWriting, WriteBlock, SetNextWrite,
       SetError, SetProgressError, StopNextReading, StopNextWriting, WakeNextWriter
  <2>4. pc'[t] # "canRead" => pc[t] # "canRead" \/ th[t].canRead
    BY <1>1, <1>4 DEF ThreadStep, Step, WaitRead, GoesOnReading, StopsReading, ReadBlock, SetNextRead,
       CodeSucceeds, Fails, ProgressBreaks, WaitWrite, TestWriting, WriteBlock, SetNextWrite,
       SetError, SetProgressError, StopNextReading, StopNextWriting, WakeNextWriter
  <2>5. UNCHANGED <<th[t].startEvent, th[t].finishedEvent, th[t].stop>>
    <3> USE <1>1, <2>2 DEF CMtThread
    <3>1. CASE WaitRead(t) \/ WaitWrite(t)
      BY <3>1 DEF WaitRead, WaitWrite
    <3>2. CASE GoesOnReading(t) \/ CodeSucceeds(t) \/ WriteBlock(t) \/ SetError(t)
      BY <3>2 DEF GoesOnReading, CodeSucceeds, WriteBlock, SetError
    <3>3. CASE StopsReading(t) \/ StopNextReading(t) \/ StopNextWriting(t)
      BY <3>3 DEF StopsReading, StopNextReading, StopNextWriting
    <3>4. CASE SetNextRead(t) \/ WakeNextWriter(t)
      BY <3>4 DEF SetNextRead, WakeNextWriter
    <3>5. CASE ReadBlock(t)
      BY <3>5 DEF ReadBlock
    <3>6. CASE Fails(t) \/ ProgressBreaks(t) \/ TestWriting(t)
      BY <3>6 DEF Fails, ProgressBreaks, TestWriting
    <3>7. CASE SetNextWrite(t)
      BY <3>7 DEF SetNextWrite
    <3>8. CASE SetProgressError(t)
      BY <3>8 DEF SetProgressError
    <3> QED
      BY <1>4, <3>1, <3>2, <3>3, <3>4, <3>5, <3>6, <3>7, <3>8 DEF ThreadStep
  <2> QED
    BY <2>1, <2>3, <2>4, <2>5 DEF Working
<1> QED
  BY <1>2, <1>3, <1>4

LEMMA ThreadPhase ==
  ASSUME MtInv, NEW t \in Thread, ThreadStep(t)
  PROVE  Phase'
<1>1. TypeOK /\ Phase /\ ReadTurn
  BY DEF MtInv
<1>2. call' = call /\ main' = main
  BY ThreadFrame
<1>3. ASSUME NEW u \in Thread, u # t
      PROVE  /\ Parked(u) => Parked(u)'
             /\ Fresh(u) => Fresh(u)'
             /\ Started(u) => Started(u)'
             /\ pc'[u] = pc[u] /\ th'[u].startEvent = th[u].startEvent /\ th'[u].stop = th[u].stop
  BY <1>3, ThreadFrame DEF Parked, Fresh, Started, Working
<1>4. ~Parked(t)
  BY OwnStep DEF Parked, Working
<1>5. CASE main \in {"idle", "prepare", "create", "close", "return"}
  BY <1>1, <1>4, <1>5 DEF Phase
<1>6. CASE main \in {"start", "setWrite", "setRead"}
  <2>1. ~th[t].canRead
    BY <1>1, <1>6 DEF ReadTurn
  <2>2. Fresh(t) /\ Used(t) /\ (main = "start" => t < call.i)
    BY <1>1, <1>4, <1>6 DEF Phase
  <2>3. ~th[t].stop
    BY <1>1, <1>6, <2>2 DEF Phase, Ending, Fresh
  <2>4. pc[t] = "start" /\ pc'[t] = "canRead" /\ ~th'[t].startEvent
        /\ ~th'[t].finishedEvent /\ th'[t].stop = th[t].stop /\ WaitStart(t)
    <3>1. WaitStart(t)
      BY <2>1, <2>2, StepsAreWork DEF Fresh, Working, ThreadStep, Step, WaitRead, GoesOnReading, StopsReading, ReadBlock, SetNextRead,
       CodeSucceeds, Fails, ProgressBreaks, WaitWrite, TestWriting, WriteBlock, SetNextWrite,
       SetError, SetProgressError, StopNextReading, StopNextWriting, WakeNextWriter, Finish
    <3> QED
      BY <2>2, <2>3, <3>1, OwnStep DEF WaitStart, Step, Fresh, Working
  <2>5. Fresh(t)'
    BY <2>4 DEF Fresh
  <2>6. \A u \in Thread : th'[u].stopReading = th[u].stopReading /\ th'[u].stopWriting = th[u].stopWriting
    BY <1>1, <2>4 DEF WaitStart, TypeOK, CMtThread
  <2> QED
    BY <1>1, <1>2, <1>3, <1>6, <2>2, <2>3, <2>4, <2>5, <2>6 DEF Phase, Used, Ending
<1>7. CASE main = "wait"
  <2>1. Used(t) /\ t >= call.i /\ Started(t)
    BY <1>1, <1>4, <1>7 DEF Phase
  <2>2. ~th[t].stop
    BY <1>1, <1>7, <2>1 DEF Phase, Ending, Started, Working
  <2>3. Started(t)' /\ th'[t].stop = th[t].stop
    BY <2>1, <2>2, OwnStep DEF Started, Working
  <2> QED
    BY <1>1, <1>2, <1>3, <1>7, <2>1, <2>2, <2>3 DEF Phase, Used, Ending
<1>8. CASE main \in Ending
  <2>1. pc[t] = "start" /\ th[t].stop /\ pc'[t] = "exited" /\ ~th'[t].startEvent /\ th'[t].stop
    BY <1>1, <1>8, OwnStep DEF Phase, Working
  <2>2. ASSUME main = "stop" PROVE pc'[call.i] # "none" => th'[call.i].stop
    <3>1. call.i \in Thread
      BY <1>1, <2>2, Ring, MtCoderAssumption DEF Phase, Thread
    <3> QED
      BY <1>1, <1>3, <2>1, <2>2, <3>1 DEF Phase
  <2>3. main' \in {"stop", "join"} => call'.i < MaxThreads
    BY <1>1, <1>2 DEF Phase
  <2> QED
    BY <1>1, <1>2, <1>3, <1>8, <2>1, <2>2, <2>3 DEF Phase, Ending
<1> QED
  BY <1>1, <1>5, <1>6, <1>7, <1>8 DEF TypeOK, Main, Ending

LEMMA ThreadNotYetRead ==
  ASSUME MtInv, NEW t \in Thread, ThreadStep(t)
  PROVE  NotYetRead'
<1>1. TypeOK /\ Phase /\ NotYetRead /\ main' = main
  BY ThreadFrame DEF MtInv
<1>2. CASE ReadBlock(t)
  <2>1. main = "wait"
    BY <1>1, <1>2, Work DEF ReadBlock, Step, Working
  <2> QED
    BY <1>1, <2>1 DEF NotYetRead
<1>3. CASE ~ReadBlock(t)
  <2>1. read' = read
    BY <1>3 DEF ThreadStep, streamVars, WaitStart, WaitRead, GoesOnReading, StopsReading, SetNextRead,
       CodeSucceeds, Fails, ProgressBreaks, WaitWrite, TestWriting, WriteBlock, SetNextWrite,
       SetError, SetProgressError, StopNextReading, StopNextWriting, WakeNextWriter, Finish
  <2> QED
    BY <1>1, <2>1 DEF NotYetRead
<1> QED
  BY <1>2, <1>3

LEMMA ThreadBlocks ==
  ASSUME MtInv, NEW t \in Thread, ThreadStep(t)
  PROVE  BlocksAreRead'
<1>1. TypeOK /\ BlocksAreRead /\ pc \in [Thread -> Place] /\ th \in [Thread -> CMtThread] /\ read \in Nat
  BY DEF MtInv, TypeOK
<1>2. read' \in Nat /\ read' >= read
  BY <1>1 DEF ThreadStep, streamVars, WaitRead, ReadBlock, SetNextRead, WaitStart, GoesOnReading, StopsReading,
       CodeSucceeds, Fails, ProgressBreaks, WaitWrite, TestWriting, WriteBlock, SetNextWrite,
       SetError, SetProgressError, StopNextReading, StopNextWriting, WakeNextWriter, Finish
<1>3. ASSUME NEW u \in Thread, u # t
      PROVE  pc'[u] = pc[u] /\ th'[u].block = th[u].block /\ th[u].block \in Nat
  BY <1>1, <1>3, ThreadFrame, MtCoderAssumption DEF CMtThread
<1>4. Working(t) => NextThread(t) # t
  BY <1>1, Ring, Work DEF MtInv
<1>5. /\ th'[t].block <= read'
      /\ th'[t].block # 0 => pc'[t] \in {"setRead", "code", "canWrite", "testWriting", "write",
                                       "setWrite", "error", "errorProgress"}
  <2>1. th[t].block \in Nat /\ th[t].block <= read
    BY <1>1, MtCoderAssumption DEF BlocksAreRead, CMtThread
  <2>2. th[t].block # 0 => pc[t] \in {"setRead", "code", "canWrite", "testWriting", "write",
                                     "setWrite", "error", "errorProgress"}
    BY <1>1 DEF BlocksAreRead
  <2> USE <1>1, <1>2, <2>1, <2>2, <1>4 DEF CMtThread, Step, Working
  <2>3. CASE WaitStart(t) \/ WaitRead(t) \/ WaitWrite(t) \/ Finish(t)
    BY <2>3 DEF WaitStart, WaitRead, WaitWrite, Finish
  <2>4. CASE GoesOnReading(t) \/ CodeSucceeds(t) \/ WriteBlock(t) \/ SetError(t)
    BY <2>4 DEF GoesOnReading, CodeSucceeds, WriteBlock, SetError
  <2>5. CASE StopsReading(t) \/ StopNextReading(t) \/ StopNextWriting(t)
    BY <2>5 DEF StopsReading, StopNextReading, StopNextWriting
  <2>6. CASE SetNextRead(t) \/ WakeNextWriter(t)
    BY <2>6 DEF SetNextRead, WakeNextWriter
  <2>7. CASE ReadBlock(t)
    <3>1. th'[t].block = read + 1 /\ pc'[t] = "setRead" /\ read' = read + 1
      BY <2>7 DEF ReadBlock
    <3> QED
      BY <3>1
  <2>8. CASE Fails(t) \/ ProgressBreaks(t) \/ TestWriting(t)
    BY <2>8 DEF Fails, ProgressBreaks, TestWriting
  <2>9. CASE SetNextWrite(t) \/ SetProgressError(t)
    <3>1. th'[t].block = 0
      BY <2>9 DEF SetNextWrite, SetProgressError
    <3> QED
      BY <3>1
  <2> QED
    BY <2>3, <2>4, <2>5, <2>6, <2>7, <2>8, <2>9 DEF ThreadStep
<1> QED
  BY <1>1, <1>2, <1>3, <1>5 DEF BlocksAreRead

\* A step that gives nobody the turn to read leaves it to one at most.
LEMMA ReadTurnKept ==
  ASSUME ReadTurn, call' = call, main' = main, read' = read,
         ASSUME NEW u \in Thread
         PROVE  /\ MayRead(u)' => MayRead(u)
                /\ HasRead(u)' => HasRead(u)
                /\ th'[u].canRead => th[u].canRead
  PROVE  ReadTurn'
<1>1. ASSUME NEW u \in Thread, NEW v \in Thread
      PROVE  /\ MayRead(u)' /\ MayRead(v)' => u = v
             /\ HasRead(u)' /\ HasRead(v)' => u = v
             /\ ~(MayRead(u)' /\ HasRead(v)')
  BY DEF ReadTurn
<1>2. ASSUME NEW u \in Thread
      PROVE  /\ MayRead(u)' \/ HasRead(u)' => read' < call'.blocks
             /\ th'[u].canRead => Used(u)' /\ main' \in {"wait", "close"}
  BY DEF ReadTurn, Used
<1> QED
  BY <1>1, <1>2 DEF ReadTurn

LEMMA ThreadReadTurn ==
  ASSUME MtInv, NEW t \in Thread, ThreadStep(t)
  PROVE  ReadTurn'
<1> DEFINE n == NextThread(t)
<1>1. TypeOK /\ Phase /\ ReadTurn /\ StopFlags /\ pc \in [Thread -> Place] /\ th \in [Thread -> CMtThread]
  BY DEF MtInv, TypeOK
<1>2. call' = call /\ main' = main /\ \A u : NextThread(u)' = NextThread(u) /\ (Used(u)' <=> Used(u))
  BY ThreadFrame DEF NextThread, Used
<1>3. ASSUME NEW u \in Thread, Working(u)
      PROVE  Used(u) /\ NextThread(u) \in Thread /\ (u # t /\ Working(t) => NextThread(u) # n)
  BY <1>1, <1>3, Ring, Work
<1>4. Working(t) => Used(t) /\ n \in Thread /\ n # t /\ Used(n)
  BY <1>1, Ring, Work
<1>5. \A u \in Thread : u # t => pc'[u] = pc[u]
  BY ThreadFrame
<1>6. CASE WaitRead(t)
  <2>1. /\ pc[t] = "canRead" /\ pc'[t] = "testReading" /\ read' = read
        /\ th[t].canRead /\ ~th'[t].canRead
        /\ \A u \in Thread : th'[u].stopReading = th[u].stopReading
        /\ \A u \in Thread : u # t => th'[u].canRead = th[u].canRead
    BY <1>1, <1>6 DEF WaitRead, Step, streamVars, CMtThread
  <2>2. ~MayRead(t)' /\ (HasRead(t)' => MayRead(t))
    BY <1>2, <2>1 DEF MayRead, HasRead
  <2>3. ASSUME NEW u \in Thread, u # t
        PROVE  (MayRead(u)' => MayRead(u)) /\ (HasRead(u)' => HasRead(u))
    BY <1>2, <1>3, <1>5, <2>1, <2>3 DEF MayRead, HasRead, Working
  <2> QED
    BY <1>1, <1>2, <2>1, <2>2, <2>3 DEF ReadTurn
<1>7. CASE ReadBlock(t)
  <2>1. pc[t] = "read" /\ Working(t) /\ HasRead(t) /\ read < call.blocks /\ main = "wait"
    BY <1>1, <1>7, Work DEF ReadBlock, Step, HasRead, ReadTurn, Working
  <2>2. ~th[n].stopReading
    BY <1>1, <1>4, <2>1 DEF StopFlags, TypeOK, Ending
  <2>3. pc'[t] = "setRead" /\ read' = read + 1
    BY <1>1, <1>7 DEF ReadBlock, Step
  <2>4. /\ \A u \in Thread : th'[u].canRead = th[u].canRead
        /\ \A u \in Thread : u # n => th'[u].stopReading = th[u].stopReading
    BY <1>1, <1>7, <1>4, <2>1 DEF ReadBlock, CMtThread
  <2>5. ~th'[n].stopReading => read' < call.blocks
    <3> DEFINE last == read + 1 >= call.blocks
    <3>1. th' = [th EXCEPT ![t].block = read + 1, ![n].stopReading = last]
      BY <1>7, Zenon DEF ReadBlock
    <3>2. th'[n].stopReading = last
      <4> HIDE DEF last
      <4> QED
        BY <1>1, <1>4, <2>1, <3>1 DEF CMtThread
    <3>3. read \in Nat /\ call.blocks \in Nat
      BY <1>1 DEF TypeOK
    <3>4. ~last => read + 1 < call.blocks
      BY <3>3
    <3> HIDE DEF last
    <3> QED
      BY <2>3, <3>2, <3>4
  <2>6. \A u \in Thread : ~MayRead(u) /\ (u # t => ~HasRead(u))
    BY <1>1, <2>1 DEF ReadTurn
  <2>7. \A u \in Thread : ~MayRead(u)'
    BY <2>2, <2>4, <2>6 DEF MayRead
  <2>8. ASSUME NEW u \in Thread, u # t PROVE ~HasRead(u)'
    BY <1>2, <1>3, <1>5, <2>1, <2>2, <2>4, <2>6, <2>8 DEF HasRead, Working
  <2>9. HasRead(t)' => read' < call.blocks
    BY <1>2, <2>3, <2>5 DEF HasRead
  <2> QED
    BY <1>1, <1>2, <2>4, <2>7, <2>8, <2>9 DEF ReadTurn
<1>8. CASE SetNextRead(t)
  <2>1. Working(t) /\ main = "wait" /\ n \in Thread /\ n # t /\ Used(n)
    BY <1>1, <1>4, <1>8, Work DEF SetNextRead, Step, Working
  <2>2. /\ th'[n].canRead /\ read' = read
        /\ \A u \in Thread : u # n => th'[u].canRead = th[u].canRead
        /\ \A u \in Thread : th'[u].stopReading = th[u].stopReading
    BY <1>1, <1>8, <2>1 DEF SetNextRead, CMtThread, streamVars
  <2>3. pc'[t] \in {"code", "finish", "errorSetWrite"} /\ pc[t] \in {"setRead", "passRead", "errorSetRead"}
    BY <1>1, <1>8 DEF SetNextRead, Step
  <2>4. pc[t] # "setRead" => th[n].stopReading
    BY <1>1, <1>4, <2>1, <2>3 DEF StopFlags
  <2>5. ~HasRead(t)' /\ (MayRead(n)' => HasRead(t))
    BY <1>2, <2>1, <2>2, <2>3, <2>4 DEF HasRead, MayRead
  <2>6. ASSUME NEW u \in Thread
        PROVE  /\ u # n => (MayRead(u)' => MayRead(u))
               /\ u # t => (HasRead(u)' => HasRead(u))
    BY <1>2, <1>3, <1>5, <2>2 DEF HasRead, MayRead, Working
  <2> QED
    BY <1>1, <1>2, <2>1, <2>2, <2>5, <2>6 DEF ReadTurn
<1>9. CASE ~WaitRead(t) /\ ~ReadBlock(t) /\ ~SetNextRead(t)
  <2> USE <1>1, <1>9 DEF ThreadStep
  <2>1. read' = read
    BY DEF streamVars, WaitStart, GoesOnReading, StopsReading,
       CodeSucceeds, Fails, ProgressBreaks, WaitWrite, TestWriting, WriteBlock, SetNextWrite,
       SetError, SetProgressError, StopNextReading, StopNextWriting, WakeNextWriter, Finish
  <2>2. /\ pc'[t] \notin {"testReading", "setRead"}
        /\ pc'[t] = "read" => pc[t] = "testReading" /\ ~th[t].stopReading
    BY DEF Step, WaitStart, GoesOnReading, StopsReading,
       CodeSucceeds, Fails, ProgressBreaks, WaitWrite, TestWriting, WriteBlock, SetNextWrite,
       SetError, SetProgressError, StopNextReading, StopNextWriting, WakeNextWriter, Finish
  <2>3. ASSUME NEW u \in Thread
        PROVE  th'[u].canRead = th[u].canRead /\ (th[u].stopReading => th'[u].stopReading)
    <3> USE DEF CMtThread
    <3>1. CASE WaitStart(t) \/ WaitWrite(t) \/ Finish(t)
      BY <3>1 DEF WaitStart, WaitWrite, Finish
    <3>2. CASE GoesOnReading(t) \/ CodeSucceeds(t) \/ WriteBlock(t) \/ SetError(t)
      BY <3>2 DEF GoesOnReading, CodeSucceeds, WriteBlock, SetError
    <3>3. CASE StopsReading(t) \/ StopNextReading(t) \/ StopNextWriting(t)
      BY <3>3 DEF StopsReading, StopNextReading, StopNextWriting
    <3>4. CASE WakeNextWriter(t) \/ SetNextWrite(t) \/ SetProgressError(t)
      BY <3>4 DEF WakeNextWriter, SetNextWrite, SetProgressError
    <3>5. CASE Fails(t) \/ ProgressBreaks(t) \/ TestWriting(t)
      BY <3>5 DEF Fails, ProgressBreaks, TestWriting
    <3> QED
      BY <3>1, <3>2, <3>3, <3>4, <3>5
  <2>4. ASSUME NEW u \in Thread
        PROVE  (MayRead(u)' => MayRead(u)) /\ (HasRead(u)' => HasRead(u))
    BY <1>2, <1>3, <1>5, <2>2, <2>3 DEF MayRead, HasRead, Working
  <2> QED
    BY <1>2, <2>1, <2>3, <2>4, ReadTurnKept
<1> QED
  BY <1>6, <1>7, <1>8, <1>9

\* The flags of a thread are set by the one before it, and never reset but by
\* ReadBlock.
LEMMA ThreadFlags ==
  ASSUME MtInv, NEW t \in Thread, ThreadStep(t)
  PROVE  /\ \A u \in Thread : u # NextThread(t) => /\ th'[u].stopReading = th[u].stopReading
                                                  /\ th'[u].stopWriting = th[u].stopWriting
         /\ \A u \in Thread : th[u].stopWriting => th'[u].stopWriting
         /\ \A u \in Thread : th[u].stopReading /\ ~ReadBlock(t) => th'[u].stopReading
<1>1. th \in [Thread -> CMtThread]
  BY DEF MtInv, TypeOK
<1> USE <1>1 DEF CMtThread
<1>2. CASE WaitStart(t) \/ WaitRead(t) \/ WaitWrite(t) \/ Finish(t)
  BY <1>2 DEF WaitStart, WaitRead, WaitWrite, Finish
<1>3. CASE GoesOnReading(t) \/ CodeSucceeds(t) \/ WriteBlock(t) \/ SetError(t)
  BY <1>3 DEF GoesOnReading, CodeSucceeds, WriteBlock, SetError
<1>4. CASE StopsReading(t) \/ StopNextReading(t) \/ StopNextWriting(t)
  BY <1>4 DEF StopsReading, StopNextReading, StopNextWriting
<1>5. CASE SetNextRead(t) \/ WakeNextWriter(t)
  BY <1>5 DEF SetNextRead, WakeNextWriter
<1>6. CASE ReadBlock(t)
  BY <1>6 DEF ReadBlock
<1>7. CASE Fails(t) \/ ProgressBreaks(t) \/ TestWriting(t)
  BY <1>7 DEF Fails, ProgressBreaks, TestWriting
<1>8. CASE SetNextWrite(t) \/ SetProgressError(t)
  BY <1>8 DEF SetNextWrite, SetProgressError
<1> QED
  BY <1>2, <1>3, <1>4, <1>5, <1>6, <1>7, <1>8 DEF ThreadStep

LEMMA ThreadStopFlags ==
  ASSUME MtInv, NEW t \in Thread, ThreadStep(t)
  PROVE  StopFlags'
<1> DEFINE n == NextThread(t)
           Past == {"passRead", "errorWriting", "errorSetRead", "errorSetWrite",
                    "finish", "none", "exited"}
<1>1. TypeOK /\ Phase /\ StopFlags /\ pc \in [Thread -> Place] /\ th \in [Thread -> CMtThread]
  BY DEF MtInv, TypeOK
<1>2. call' = call /\ main' = main /\ \A u : NextThread(u)' = NextThread(u) /\ (Used(u)' <=> Used(u))
  BY ThreadFrame DEF NextThread, Used
<1>3. read \in Nat /\ call.blocks \in Nat /\ read' \in Nat /\ (read >= call.blocks => read' >= call.blocks)
  <2>1. read \in Nat /\ call.blocks \in Nat
    BY <1>1 DEF TypeOK
  <2>2. read' = read \/ read' = read + 1
    BY DEF ThreadStep, streamVars, WaitRead, ReadBlock, SetNextRead, WaitStart, GoesOnReading, StopsReading,
       CodeSucceeds, Fails, ProgressBreaks, WaitWrite, TestWriting, WriteBlock, SetNextWrite,
       SetError, SetProgressError, StopNextReading, StopNextWriting, WakeNextWriter, Finish
  <2> QED
    BY <2>1, <2>2
<1>4. ASSUME NEW u \in Thread, Used(u), u # t
      PROVE  /\ th'[NextThread(u)].stopReading =>
                  pc'[u] \in Past \/ (pc'[u] = "start" /\ ~th'[u].startEvent)
                    \/ read' >= call.blocks \/ main \in Ending
             /\ pc'[u] \in {"passRead", "errorWriting", "errorSetRead"} => th'[NextThread(u)].stopReading
             /\ pc'[u] \in {"errorSetRead", "errorSetWrite"} => th'[NextThread(u)].stopWriting
  <2>1. pc'[u] = pc[u] /\ th'[u].startEvent = th[u].startEvent
    BY <1>4, ThreadFrame
  <2>2. NextThread(u) \in Thread /\ (Used(t) => NextThread(u) # n)
    BY <1>1, <1>4, Ring
  <2>3. th'[NextThread(u)].stopReading = th[NextThread(u)].stopReading
        /\ th'[NextThread(u)].stopWriting = th[NextThread(u)].stopWriting
    <3>1. CASE Used(t)
      BY <2>2, <3>1, ThreadFlags
    <3>2. CASE ~Used(t)
      <4>1. WaitStart(t)
        BY <1>1, <3>2, StepsAreWork, Work
      <4> QED
        BY <1>1, <2>2, <4>1 DEF WaitStart, CMtThread
    <3> QED
      BY <3>1, <3>2
  <2>4. /\ th[NextThread(u)].stopReading =>
                  pc[u] \in Past \/ (pc[u] = "start" /\ ~th[u].startEvent)
                    \/ read >= call.blocks \/ main \in Ending
        /\ pc[u] \in {"passRead", "errorWriting", "errorSetRead"} => th[NextThread(u)].stopReading
        /\ pc[u] \in {"errorSetRead", "errorSetWrite"} => th[NextThread(u)].stopWriting
    BY <1>1, <1>4 DEF StopFlags
  <2> QED
    BY <1>3, <2>1, <2>3, <2>4
<1>5. ASSUME Used(t)
      PROVE  /\ th'[n].stopReading =>
                  pc'[t] \in Past \/ (pc'[t] = "start" /\ ~th'[t].startEvent)
                    \/ read' >= call.blocks \/ main \in Ending
             /\ pc'[t] \in {"passRead", "errorWriting", "errorSetRead"} => th'[n].stopReading
             /\ pc'[t] \in {"errorSetRead", "errorSetWrite"} => th'[n].stopWriting
  <2> USE <1>1, <1>3 DEF Step
  <2>1. n \in Thread /\ n # t
    BY <1>5, Ring
  <2>2. /\ th[n].stopReading => pc[t] \in Past \/ (pc[t] = "start" /\ ~th[t].startEvent)
                                  \/ read >= call.blocks \/ main \in Ending
        /\ pc[t] \in {"passRead", "errorWriting", "errorSetRead"} => th[n].stopReading
        /\ pc[t] \in {"errorSetRead", "errorSetWrite"} => th[n].stopWriting
    BY <1>1, <1>5 DEF StopFlags
  <2>3. th[n].stopWriting => th'[n].stopWriting
    BY <2>1, ThreadFlags
  <2>4. CASE WaitStart(t)
    <3>1. th'[n].stopReading = th[n].stopReading /\ pc[t] = "start" /\ th[t].startEvent
          /\ pc'[t] \in {"exited", "canRead"}
      BY <2>1, <2>4 DEF WaitStart, CMtThread
    <3> QED
      BY <2>2, <3>1
  <2>5. CASE ReadBlock(t)
    <3> DEFINE last == read + 1 >= call.blocks
    <3>1. th' = [th EXCEPT ![t].block = read + 1, ![n].stopReading = last]
      BY <2>5, Zenon DEF ReadBlock
    <3>2. th'[n].stopReading = last
      <4> HIDE DEF last
      <4> QED
        BY <2>1, <3>1 DEF CMtThread
    <3>3. pc'[t] = "setRead" /\ read' = read + 1
      BY <2>5 DEF ReadBlock
    <3>4. last => read' >= call.blocks
      BY <3>3
    <3> HIDE DEF last
    <3> QED
      BY <3>2, <3>3, <3>4
  <2>6. CASE StopsReading(t) \/ StopNextReading(t)
    <3>1. th'[n].stopReading /\ pc'[t] \in {"passRead", "errorWriting"}
      BY <2>1, <2>6 DEF StopsReading, StopNextReading, CMtThread
    <3> QED
      BY <3>1
  <2>7. CASE StopNextWriting(t)
    BY <2>1, <2>2, <2>7 DEF StopNextWriting, CMtThread
  <2>8. CASE SetNextRead(t) \/ WakeNextWriter(t)
    BY <2>1, <2>2, <2>8 DEF SetNextRead, WakeNextWriter, CMtThread
  <2>9. CASE Finish(t)
    <3>1. ~th[t].startEvent
      BY <2>9, Work DEF Finish, Working
    <3> QED
      BY <2>9, <3>1 DEF Finish, CMtThread
  <2>10. CASE WaitRead(t) \/ WaitWrite(t)
    BY <2>1, <2>2, <2>10 DEF WaitRead, WaitWrite, CMtThread
  <2>11. CASE GoesOnReading(t) \/ CodeSucceeds(t) \/ WriteBlock(t) \/ SetError(t)
    BY <2>1, <2>2, <2>11 DEF GoesOnReading, CodeSucceeds, WriteBlock, SetError
  <2>12. CASE Fails(t) \/ ProgressBreaks(t) \/ TestWriting(t)
    <3>1. /\ pc[t] \in {"read", "code", "write", "testWriting"} /\ pc'[t] \in {"error", "write"}
          /\ th'[n].stopReading = th[n].stopReading
      BY <2>1, <2>12 DEF Fails, ProgressBreaks, TestWriting, CMtThread
    <3> QED
      BY <2>2, <3>1
  <2>13. CASE SetNextWrite(t)
    <3>1. /\ pc[t] = "setWrite" /\ pc'[t] \in {"finish", "canRead"}
          /\ th'[n].stopReading = th[n].stopReading
      BY <2>1, <2>13 DEF SetNextWrite, CMtThread
    <3> QED
      BY <2>2, <3>1
  <2>14. CASE SetProgressError(t)
    BY <2>1, <2>2, <2>14 DEF SetProgressError, CMtThread
  <2> QED
    BY <2>4, <2>5, <2>6, <2>7, <2>8, <2>9, <2>10, <2>11, <2>12, <2>13, <2>14 DEF ThreadStep
<1> QED
  BY <1>2, <1>4, <1>5 DEF StopFlags

LEMMA ThreadWriteTurn ==
  ASSUME MtInv, NEW t \in Thread, ThreadStep(t)
  PROVE  WriteTurn'
<1> DEFINE n == NextThread(t)
<1>1. /\ TypeOK /\ Phase /\ WriteTurn /\ StopFlags
      /\ pc \in [Thread -> Place] /\ th \in [Thread -> CMtThread]
  BY DEF MtInv, TypeOK
<1>2. main' = main /\ n' = n /\ \A u : Used(u)' <=> Used(u)
  BY ThreadFrame DEF NextThread, Used
<1>3. \A u \in Thread : u # t => pc'[u] = pc[u]
  BY ThreadFrame
<1>4. Working(t) => Used(t) /\ n \in Thread /\ n # t /\ Used(n)
  BY <1>1, Ring, Work
<1>5. \A u \in Thread : th[u].stopWriting => th'[u].stopWriting
  BY ThreadFlags
<1>6. CASE WaitWrite(t)
  <2>1. /\ pc[t] = "canWrite" /\ pc'[t] = "testWriting"
        /\ th[t].canWrite /\ ~th'[t].canWrite
        /\ \A u \in Thread : th'[u].stopWriting = th[u].stopWriting
        /\ \A u \in Thread : u # t => th'[u].canWrite = th[u].canWrite
    BY <1>1, <1>6 DEF WaitWrite, Step, CMtThread
  <2>2. ~MayWrite(t)' /\ (HasWrite(t)' => MayWrite(t))
    BY <2>1 DEF MayWrite, HasWrite
  <2>3. ASSUME NEW u \in Thread, u # t
        PROVE  (MayWrite(u)' => MayWrite(u)) /\ (HasWrite(u)' => HasWrite(u))
    BY <1>3, <2>1, <2>3 DEF MayWrite, HasWrite
  <2> QED
    BY <1>1, <1>2, <2>1, <2>2, <2>3 DEF WriteTurn
<1>7. CASE SetNextWrite(t) \/ WakeNextWriter(t)
  <2>1. Working(t) /\ main = "wait" /\ n \in Thread /\ n # t /\ Used(n)
    BY <1>1, <1>4, <1>7, Work DEF SetNextWrite, WakeNextWriter, Step, Working
  <2>2. /\ th'[n].canWrite
        /\ \A u \in Thread : u # n => th'[u].canWrite = th[u].canWrite
        /\ \A u \in Thread : th'[u].stopWriting = th[u].stopWriting
    BY <1>1, <1>7, <2>1 DEF SetNextWrite, WakeNextWriter, CMtThread
  <2>3. pc'[t] \in {"canRead", "finish"} /\ pc[t] \in {"setWrite", "errorSetWrite"}
    BY <1>1, <1>7 DEF SetNextWrite, WakeNextWriter, Step
  <2>4. pc[t] # "setWrite" => th[n].stopWriting
    BY <1>1, <1>4, <2>1, <2>3 DEF StopFlags
  <2>5. ~HasWrite(t)' /\ (MayWrite(n)' => HasWrite(t))
    BY <1>2, <2>1, <2>2, <2>3, <2>4 DEF HasWrite, MayWrite
  <2>6. ASSUME NEW u \in Thread
        PROVE  /\ u # n => (MayWrite(u)' => MayWrite(u))
               /\ u # t => (HasWrite(u)' => HasWrite(u))
    BY <1>3, <2>2 DEF HasWrite, MayWrite
  <2> QED
    BY <1>1, <1>2, <2>1, <2>2, <2>5, <2>6 DEF WriteTurn
<1>8. CASE ~WaitWrite(t) /\ ~SetNextWrite(t) /\ ~WakeNextWriter(t)
  <2> USE <1>1, <1>8 DEF ThreadStep
  <2>1. /\ pc'[t] # "testWriting"
        /\ pc'[t] = "write" => pc[t] = "testWriting" /\ ~th[t].stopWriting
        /\ pc'[t] = "setWrite" => pc[t] = "write"
    BY DEF Step, WaitStart, WaitRead, GoesOnReading, StopsReading, ReadBlock, SetNextRead,
       CodeSucceeds, Fails, ProgressBreaks, TestWriting, WriteBlock,
       SetError, SetProgressError, StopNextReading, StopNextWriting, Finish
  <2>2. ASSUME NEW u \in Thread
        PROVE  th'[u].canWrite = th[u].canWrite
    <3> USE DEF CMtThread
    <3>1. CASE WaitStart(t) \/ WaitRead(t) \/ Finish(t)
      BY <3>1 DEF WaitStart, WaitRead, Finish
    <3>2. CASE GoesOnReading(t) \/ CodeSucceeds(t) \/ WriteBlock(t) \/ SetError(t)
      BY <3>2 DEF GoesOnReading, CodeSucceeds, WriteBlock, SetError
    <3>3. CASE StopsReading(t) \/ StopNextReading(t) \/ StopNextWriting(t)
      BY <3>3 DEF StopsReading, StopNextReading, StopNextWriting
    <3>4. CASE SetNextRead(t) \/ ReadBlock(t) \/ SetProgressError(t)
      BY <3>4 DEF SetNextRead, ReadBlock, SetProgressError
    <3>5. CASE Fails(t) \/ ProgressBreaks(t) \/ TestWriting(t)
      BY <3>5 DEF Fails, ProgressBreaks, TestWriting
    <3> QED
      BY <3>1, <3>2, <3>3, <3>4, <3>5
  <2>3. ASSUME NEW u \in Thread
        PROVE  (MayWrite(u)' => MayWrite(u)) /\ (HasWrite(u)' => HasWrite(u))
    BY <1>3, <1>5, <2>1, <2>2 DEF MayWrite, HasWrite
  <2> QED
    BY <1>2, <2>2, <2>3 DEF WriteTurn
<1> QED
  BY <1>6, <1>7, <1>8

LEMMA ThreadErrors ==
  ASSUME MtInv, NEW t \in Thread, ThreadStep(t)
  PROVE  Errors'
<1>1. /\ TypeOK /\ Phase /\ Errors
      /\ pc \in [Thread -> Place] /\ th \in [Thread -> CMtThread]
  BY DEF MtInv, TypeOK
<1>2. \A u \in Thread : u # t => pc'[u] = pc[u] /\ th'[u].err = th[u].err
  BY ThreadFrame
<1> USE MtCoderAssumption DEF Step
<1>3. CASE Fails(t)
  <2>1. PICK e : /\ th' = [th EXCEPT ![t].err = e] /\ e # "OK"
                 /\ e = "PROGRESS" => progressRes # "OK"
    BY <1>1, <1>3 DEF Fails
  <2>2. th'[t].err = e /\ pc'[t] = "error" /\ res' = res /\ progressRes' = progressRes
    BY <1>1, <1>3, <2>1 DEF Fails, resVars, CMtThread
  <2> QED
    BY <1>1, <1>2, <2>1, <2>2 DEF Errors
<1>4. CASE ProgressBreaks(t)
  <2>1. /\ th'[t].err = "PROGRESS" /\ pc'[t] = "error" /\ res' = res
        /\ progressRes = "OK" /\ progressRes' = "PROGRESS"
    BY <1>1, <1>4 DEF ProgressBreaks, CMtThread
  <2> QED
    BY <1>1, <1>2, <2>1 DEF Errors
<1>5. CASE TestWriting(t)
  <2>1. /\ res' = res /\ progressRes' = progressRes
        /\ pc'[t] = "write" \/ (pc'[t] = "error" /\ th'[t].err = "FAIL")
    BY <1>1, <1>5 DEF TestWriting, resVars, CMtThread
  <2> QED
    BY <1>1, <1>2, <2>1 DEF Errors
<1>6. CASE SetError(t)
  <2>1. /\ pc[t] = "error" /\ pc'[t] = "errorProgress" /\ th' = th /\ progressRes' = progressRes
        /\ res' = IF res = "OK" THEN th[t].err ELSE res
    BY <1>1, <1>6 DEF SetError
  <2>2. th[t].err # "OK" /\ (th[t].err = "PROGRESS" => progressRes # "OK")
    BY <1>1, <2>1 DEF Errors
  <2>3. res' # "OK" /\ (res' = "PROGRESS" => progressRes' = "PROGRESS")
    BY <1>1, <2>1, <2>2 DEF Errors
  <2>4. \A u \in Thread : /\ pc'[u] \in {"error", "errorProgress"} => pc[u] \in {"error", "errorProgress"}
                          /\ th'[u].err = th[u].err
    BY <1>2, <2>1
  <2> QED
    BY <1>1, <2>1, <2>2, <2>3, <2>4 DEF Errors
<1>7. CASE SetProgressError(t)
  <2>1. /\ pc[t] = "errorProgress" /\ pc'[t] = "errorReading" /\ res' = res
        /\ progressRes' = IF progressRes = "OK" THEN th[t].err ELSE progressRes
    BY <1>1, <1>7 DEF SetProgressError
  <2>2. /\ th[t].err # "OK" /\ res # "OK" /\ (th[t].err = "PROGRESS" => progressRes # "OK")
        /\ res = "PROGRESS" => progressRes = "PROGRESS"
    BY <1>1, <2>1 DEF Errors
  <2>3. /\ progressRes' # "OK" /\ res' # "OK"
        /\ res' = "PROGRESS" => progressRes' = "PROGRESS"
    BY <2>1, <2>2
  <2>4. \A u \in Thread : u # t =>
          /\ pc[u] \in {"error", "errorProgress"} => th[u].err # "OK"
    BY <1>1 DEF Errors
  <2> QED
    BY <1>2, <2>1, <2>3, <2>4 DEF Errors
<1>8. CASE ~Fails(t) /\ ~ProgressBreaks(t) /\ ~TestWriting(t) /\ ~SetError(t) /\ ~SetProgressError(t)
  <2> USE <1>1, <1>8 DEF ThreadStep
  <2>1. res' = res /\ progressRes' = progressRes
    BY DEF resVars, WaitStart, WaitRead, GoesOnReading, StopsReading, ReadBlock, SetNextRead, CodeSucceeds,
           WaitWrite, WriteBlock, SetNextWrite, StopNextReading, StopNextWriting, WakeNextWriter, Finish
  <2>2. pc'[t] \notin {"error", "errorProgress"}
    BY DEF WaitStart, WaitRead, GoesOnReading, StopsReading, ReadBlock, SetNextRead, CodeSucceeds,
           WaitWrite, WriteBlock, SetNextWrite, StopNextReading, StopNextWriting, WakeNextWriter, Finish
  <2> QED
    BY <1>2, <2>1, <2>2 DEF Errors
<1> QED
  BY <1>3, <1>4, <1>5, <1>6, <1>7, <1>8

LEMMA ThreadInv ==
  ASSUME MtInv, NEW t \in Thread, ThreadStep(t)
  PROVE  MtInv'
BY ThreadType, ThreadPhase, ThreadNotYetRead, ThreadBlocks, ThreadReadTurn, ThreadStopFlags, ThreadWriteTurn,
   ThreadErrors DEF MtInv

-----------------------------------------------------------------------------
(* A step of the caller.                                                    *)

\* No thread is at work, no event is left, no buffer holds a block.
Resting ==
  \A t \in Thread :
    /\ pc[t] \in {"none", "start"} /\ ~th[t].startEvent /\ ~th[t].finishedEvent
    /\ ~th[t].canRead /\ ~th[t].canWrite /\ th[t].block = 0
    /\ pc[t] # "none" => ~th[t].stop

\* Nobody is told to stop reading or writing.
FlagsAreClear == \A t \in Thread : Used(t) => ~th[t].stopReading /\ ~th[t].stopWriting

\* What Errors says of the results alone.
ResultsAgree ==
  /\ res = "PROGRESS" => progressRes = "PROGRESS"
  /\ progressRes \notin {"OK", "PROGRESS"} => res # "OK"

\* When no thread is at work and no turn is given, the invariant says little.
LEMMA StillIsEnough ==
  ASSUME TypeOK', Phase', NotYetRead', ResultsAgree',
         \A t \in Thread : /\ pc'[t] \in {"none", "start", "exited"}
                           /\ ~th'[t].canRead /\ ~th'[t].canWrite /\ th'[t].block = 0,
         main' \in Ending \/ \A t \in Thread : ~th'[t].startEvent
  PROVE  MtInv'
<1>1. read' \in Nat
  BY DEF TypeOK
<1>2. BlocksAreRead'
  BY <1>1 DEF BlocksAreRead
<1>3. ReadTurn'
  BY DEF ReadTurn, MayRead, HasRead
<1>4. WriteTurn'
  BY DEF WriteTurn, MayWrite, HasWrite
<1>5. StopFlags'
  BY DEF StopFlags
<1>6. Errors'
  BY DEF Errors, ResultsAgree
<1> QED
  BY <1>2, <1>3, <1>4, <1>5, <1>6 DEF MtInv

LEMMA RestIsEnough ==
  ASSUME TypeOK', Resting', ResultsAgree', NotYetRead',
         main' \in {"idle", "prepare", "create", "close", "return"},
         main' \in {"prepare", "create"} => call.i' = 0,
         main' = "create" => FlagsAreClear'
  PROVE  MtInv'
<1>1. Phase'
  BY DEF Phase, Parked, Ending, Resting, FlagsAreClear
<1> QED
  BY <1>1, StillIsEnough DEF Resting

\* What is known while the caller is between calls or prepares one.
LEMMA Quiet ==
  ASSUME MtInv, main \in {"idle", "prepare", "create", "close", "return"}
  PROVE  /\ TypeOK /\ ResultsAgree /\ NotYetRead
         /\ main \in {"prepare", "create"} => call.i = 0
         /\ main = "create" => FlagsAreClear
         /\ main # "close" => Resting
         /\ \A t \in Thread :
              /\ pc[t] \in {"none", "start"} /\ ~th[t].startEvent /\ ~th[t].finishedEvent
              /\ ~Used(t) => ~th[t].canRead /\ ~th[t].canWrite
              /\ th[t].block = 0
              /\ pc[t] # "none" => ~th[t].stop
<1>1. TypeOK /\ Phase /\ NotYetRead /\ BlocksAreRead /\ ReadTurn /\ WriteTurn /\ Errors
  BY DEF MtInv
<1>2. \A t \in Thread : Parked(t)
  BY <1>1 DEF Phase
<1>3. \A t \in Thread : th[t].block = 0
  BY <1>1, <1>2 DEF BlocksAreRead, Parked
<1>4. \A t \in Thread : /\ main # "close" => ~th[t].canRead /\ ~th[t].canWrite
                        /\ ~Used(t) => ~th[t].canRead /\ ~th[t].canWrite
  BY <1>1 DEF ReadTurn, WriteTurn
<1>5. \A t \in Thread : pc[t] # "none" => ~th[t].stop
  BY <1>1 DEF Phase, Ending
<1>6. (main \in {"prepare", "create"} => call.i = 0) /\ (main = "create" => FlagsAreClear)
  BY <1>1 DEF Phase, FlagsAreClear
<1>7. ResultsAgree
  BY <1>1 DEF Errors, ResultsAgree
<1> QED
  BY <1>1, <1>2, <1>3, <1>4, <1>5, <1>6, <1>7 DEF Parked, Resting

\* CMtThread_Prepare leaves no event and no flag.
LEMMA PrepareRests ==
  ASSUME TypeOK, Resting, NEW k, PrepareUpTo(k), pc' = pc
  PROVE  /\ th' \in [Thread -> CMtThread] /\ Resting'
         /\ \A t \in Thread : ~(t >= k) => ~th'[t].stopReading /\ ~th'[t].stopWriting
<1>1. th \in [Thread -> CMtThread]
  BY DEF TypeOK
<1>2. ASSUME NEW t \in Thread
      PROVE  th'[t] = IF t >= k THEN th[t]
                      ELSE [th[t] EXCEPT !.canRead = FALSE, !.canWrite = FALSE,
                                         !.stopReading = FALSE, !.stopWriting = FALSE]
  BY DEF PrepareUpTo
<1>3. ASSUME NEW t \in Thread
      PROVE  /\ th'[t] \in CMtThread
             /\ ~th'[t].startEvent /\ ~th'[t].finishedEvent
             /\ ~th'[t].canRead /\ ~th'[t].canWrite /\ th'[t].block = 0
             /\ th'[t].stop = th[t].stop
             /\ ~(t >= k) => ~th'[t].stopReading /\ ~th'[t].stopWriting
  <2>1. th[t] \in CMtThread
    BY <1>1
  <2>2. CASE t >= k
    BY <1>2, <2>1, <2>2 DEF Resting
  <2>3. CASE ~(t >= k)
    <3>1. th'[t] = [th[t] EXCEPT !.canRead = FALSE, !.canWrite = FALSE,
                                 !.stopReading = FALSE, !.stopWriting = FALSE]
      BY <1>2, <2>3
    <3>2. th'[t] \in CMtThread
      BY <2>1, <3>1 DEF CMtThread
    <3>3. /\ th'[t].startEvent = th[t].startEvent /\ th'[t].finishedEvent = th[t].finishedEvent
          /\ th'[t].block = th[t].block /\ th'[t].stop = th[t].stop
      BY <2>1, <3>1 DEF CMtThread
    <3>4. ~th'[t].canRead /\ ~th'[t].canWrite /\ ~th'[t].stopReading /\ ~th'[t].stopWriting
      BY <2>1, <3>1 DEF CMtThread
    <3> QED
      BY <3>2, <3>3, <3>4 DEF Resting
  <2> QED
    BY <2>2, <2>3
<1>4. th' \in [Thread -> CMtThread]
  BY <1>3 DEF PrepareUpTo
<1> QED
  BY <1>3, <1>4 DEF Resting

\* LoopThread_Create leaves a new thread at its StartEvent.
LEMMA CreateRests ==
  ASSUME TypeOK, Resting, NEW k, CreateUpTo(k)
  PROVE  /\ th' \in [Thread -> CMtThread] /\ pc' \in [Thread -> Place] /\ Resting'
         /\ \A t \in Thread : /\ t < k => pc'[t] = "start"
                              /\ th'[t].stopReading = th[t].stopReading
                              /\ th'[t].stopWriting = th[t].stopWriting
<1>1. th \in [Thread -> CMtThread]
  BY DEF TypeOK
<1>2. ASSUME NEW t \in Thread
      PROVE  /\ pc'[t] = IF t < k /\ pc[t] = "none" THEN "start" ELSE pc[t]
             /\ th'[t] = IF t < k /\ pc[t] = "none"
                  THEN [th[t] EXCEPT !.stop = FALSE, !.startEvent = FALSE, !.finishedEvent = FALSE]
                  ELSE th[t]
  BY DEF CreateUpTo
<1>3. ASSUME NEW t \in Thread
      PROVE  /\ th'[t] \in CMtThread
             /\ pc'[t] \in {"none", "start"} /\ (t < k => pc'[t] = "start")
             /\ ~th'[t].startEvent /\ ~th'[t].finishedEvent
             /\ ~th'[t].canRead /\ ~th'[t].canWrite /\ th'[t].block = 0
             /\ pc'[t] # "none" => ~th'[t].stop
             /\ th'[t].stopReading = th[t].stopReading
             /\ th'[t].stopWriting = th[t].stopWriting
  <2>1. th[t] \in CMtThread
    BY <1>1
  <2>2. CASE t < k /\ pc[t] = "none"
    <3>1. /\ pc'[t] = "start"
          /\ th'[t] = [th[t] EXCEPT !.stop = FALSE, !.startEvent = FALSE, !.finishedEvent = FALSE]
      BY <1>2, <2>2
    <3>2. th'[t] \in CMtThread
      BY <2>1, <3>1 DEF CMtThread
    <3>3. /\ th'[t].canRead = th[t].canRead /\ th'[t].canWrite = th[t].canWrite
          /\ th'[t].block = th[t].block
          /\ th'[t].stopReading = th[t].stopReading /\ th'[t].stopWriting = th[t].stopWriting
      BY <2>1, <3>1 DEF CMtThread
    <3>4. ~th'[t].stop /\ ~th'[t].startEvent /\ ~th'[t].finishedEvent
      BY <2>1, <3>1 DEF CMtThread
    <3> QED
      BY <3>1, <3>2, <3>3, <3>4 DEF Resting
  <2>3. CASE ~(t < k /\ pc[t] = "none")
    <3>1. pc'[t] = pc[t] /\ th'[t] = th[t]
      BY <1>2, <2>3
    <3>2. pc[t] \in {"none", "start"} /\ (t < k => pc[t] = "start")
      BY <2>3 DEF Resting
    <3> QED
      BY <2>1, <3>1, <3>2 DEF Resting
  <2> QED
    BY <2>2, <2>3
<1>4. th' \in [Thread -> CMtThread]
  BY <1>3 DEF CreateUpTo
<1>5. pc' \in [Thread -> Place]
  BY DEF CreateUpTo, TypeOK, Place
<1> QED
  BY <1>3, <1>4, <1>5 DEF Resting

\* The steps of the caller that leave all threads at rest.
LEMMA RestingSteps ==
  ASSUME MtInv,
         \/ \E n \in 2..MaxThreads, b \in 1..MaxBlocks : Code(n, b)
         \/ Prepare \/ PrepareFails \/ CreateFails \/ CloseEvents \/ Return
  PROVE  MtInv'
<1> USE DEF MainStep, resVars, streamVars
<1>1. CASE \E n \in 2..MaxThreads, b \in 1..MaxBlocks : Code(n, b)
  <2>1. PICK n \in 2..MaxThreads, b \in 1..MaxBlocks : Code(n, b)
    BY <1>1
  <2>2. /\ main = "idle" /\ main' = "prepare" /\ res' = "OK" /\ progressRes' = "OK"
        /\ read' = 0 /\ written' = 0 /\ pc' = pc /\ th' = th
        /\ call' = [call EXCEPT !.i = 0, !.numThreads = n, !.blocks = b, !.res = "OK"]
    BY <2>1 DEF Code
  <2>3. TypeOK /\ Resting
    BY <2>2, Quiet
  <2>4. /\ call.i' = 0 /\ call.blocks' = b
        /\ call' \in [i : 0..MaxThreads, numThreads : 2..MaxThreads, blocks : 1..MaxBlocks,
                      res : {"OK", "MEM", "THREAD"}, ret : SRes]
    <3>1. 0 \in 0..MaxThreads
      BY MtCoderAssumption
    <3> QED
      BY <2>1, <2>2, <2>3, <3>1 DEF TypeOK
  <2>5. TypeOK'
    BY <2>2, <2>3, <2>4 DEF TypeOK, Main, SRes
  <2>6. Resting' /\ ResultsAgree' /\ NotYetRead'
    BY <2>2, <2>3 DEF Resting, ResultsAgree, NotYetRead
  <2> QED
    BY <2>2, <2>4, <2>5, <2>6, RestIsEnough
<1>2. CASE Prepare
  <2>1. /\ main = "prepare" /\ main' = "create" /\ PrepareUpTo(call.numThreads)
        /\ call' = call /\ res' = res /\ progressRes' = progressRes
        /\ read' = read /\ written' = written /\ pc' = pc
    BY <1>2 DEF Prepare
  <2>2. TypeOK /\ Resting /\ call.i = 0 /\ ResultsAgree /\ NotYetRead
    BY <2>1, Quiet
  <2>3. /\ th' \in [Thread -> CMtThread] /\ Resting'
        /\ \A t \in Thread : ~(t >= call.numThreads) => ~th'[t].stopReading /\ ~th'[t].stopWriting
    BY <2>1, <2>2, PrepareRests
  <2>4. TypeOK' /\ ResultsAgree' /\ NotYetRead'
    BY <2>1, <2>2, <2>3 DEF TypeOK, Main, ResultsAgree, NotYetRead
  <2>5. FlagsAreClear'
    BY <2>1, <2>2, <2>3, Ring DEF FlagsAreClear, Used
  <2> QED
    BY <2>1, <2>2, <2>3, <2>4, <2>5, RestIsEnough
<1>3. CASE PrepareFails
  <2>1. /\ main = "prepare" /\ main' = "return" /\ call' = [call EXCEPT !.res = "MEM"]
        /\ res' = res /\ progressRes' = progressRes
        /\ read' = read /\ written' = written /\ pc' = pc
    BY <1>3 DEF PrepareFails
  <2>2. TypeOK /\ Resting /\ ResultsAgree /\ NotYetRead
    BY <2>1, Quiet
  <2>3. th' \in [Thread -> CMtThread] /\ Resting'
    BY <1>3, <2>1, <2>2, PrepareRests DEF PrepareFails
  <2>4. TypeOK' /\ ResultsAgree' /\ NotYetRead'
    BY <2>1, <2>2, <2>3 DEF TypeOK, Main, ResultsAgree, NotYetRead
  <2> QED
    BY <2>1, <2>3, <2>4, RestIsEnough
<1>4. CASE CreateFails
  <2>1. /\ main = "create" /\ main' = "close" /\ call' = [call EXCEPT !.res = "THREAD"]
        /\ res' = res /\ progressRes' = progressRes
        /\ read' = read /\ written' = written
    BY <1>4 DEF CreateFails
  <2>2. TypeOK /\ Resting /\ ResultsAgree /\ NotYetRead
    BY <2>1, Quiet
  <2>3. th' \in [Thread -> CMtThread] /\ pc' \in [Thread -> Place] /\ Resting'
    BY <1>4, <2>2, CreateRests DEF CreateFails
  <2>4. TypeOK' /\ ResultsAgree' /\ NotYetRead'
    BY <2>1, <2>2, <2>3 DEF TypeOK, Main, ResultsAgree, NotYetRead
  <2> QED
    BY <2>1, <2>3, <2>4, RestIsEnough
<1>5. CASE CloseEvents
  <2>1. /\ main = "close" /\ main' = "return" /\ call' = call
        /\ res' = res /\ progressRes' = progressRes
        /\ read' = read /\ written' = written /\ pc' = pc
    BY <1>5 DEF CloseEvents
  <2>2. /\ TypeOK /\ ResultsAgree /\ NotYetRead
        /\ \A t \in Thread :
              /\ pc[t] \in {"none", "start"} /\ ~th[t].startEvent /\ ~th[t].finishedEvent
              /\ ~Used(t) => ~th[t].canRead /\ ~th[t].canWrite
              /\ th[t].block = 0
              /\ pc[t] # "none" => ~th[t].stop
    BY <2>1, Quiet
  <2>3. th \in [Thread -> CMtThread] /\ call.numThreads \in Nat /\ \A t \in Thread : t \in Nat
    BY <2>2, Ring DEF TypeOK
  <2>4. ASSUME NEW t \in Thread
        PROVE  th'[t] = IF Used(t) THEN [th[t] EXCEPT !.canRead = FALSE, !.canWrite = FALSE]
                        ELSE th[t]
    <3>1. th'[t] = IF t >= call.numThreads THEN th[t]
                   ELSE [th[t] EXCEPT !.canRead = FALSE, !.canWrite = FALSE]
      BY <1>5 DEF CloseEvents
    <3>2. t >= call.numThreads <=> ~Used(t)
      BY <2>3 DEF Used
    <3> QED
      BY <3>1, <3>2
  <2>5. ASSUME NEW t \in Thread
        PROVE  /\ th'[t] \in CMtThread
               /\ ~th'[t].startEvent /\ ~th'[t].finishedEvent
               /\ ~th'[t].canRead /\ ~th'[t].canWrite /\ th'[t].block = 0
               /\ th'[t].stop = th[t].stop
    <3>1. th[t] \in CMtThread
      BY <2>3
    <3>2. CASE Used(t)
      <4>1. th'[t] = [th[t] EXCEPT !.canRead = FALSE, !.canWrite = FALSE]
        BY <2>4, <3>2
      <4>2. th'[t] \in CMtThread
        BY <3>1, <4>1 DEF CMtThread
      <4>3. /\ th'[t].startEvent = th[t].startEvent /\ th'[t].finishedEvent = th[t].finishedEvent
            /\ th'[t].block = th[t].block /\ th'[t].stop = th[t].stop
            /\ ~th'[t].canRead /\ ~th'[t].canWrite
        BY <3>1, <4>1 DEF CMtThread
      <4> QED
        BY <2>2, <4>2, <4>3
    <3>3. CASE ~Used(t)
      BY <2>2, <2>4, <3>1, <3>3
    <3> QED
      BY <3>2, <3>3
  <2>6. th' \in [Thread -> CMtThread]
    BY <1>5, <2>5 DEF CloseEvents
  <2>7. TypeOK' /\ ResultsAgree' /\ NotYetRead'
    BY <2>1, <2>2, <2>6 DEF TypeOK, Main, ResultsAgree, NotYetRead
  <2>8. Resting'
    BY <2>1, <2>2, <2>5 DEF Resting
  <2> QED
    BY <2>1, <2>7, <2>8, RestIsEnough
<1>6. CASE Return
  <2>1. /\ main = "return" /\ main' = "idle"
        /\ call' = [call EXCEPT !.ret = IF call.res = "OK" THEN res ELSE call.res]
        /\ res' = res /\ progressRes' = progressRes
        /\ read' = read /\ written' = written /\ pc' = pc /\ th' = th
    BY <1>6 DEF Return
  <2>2. TypeOK /\ Resting /\ ResultsAgree /\ NotYetRead
    BY <2>1, Quiet
  <2>3. TypeOK'
    BY <2>1, <2>2 DEF TypeOK, Main, SRes, Error
  <2>4. Resting' /\ ResultsAgree' /\ NotYetRead'
    BY <2>1, <2>2 DEF Resting, ResultsAgree, NotYetRead
  <2> QED
    BY <2>1, <2>3, <2>4, RestIsEnough
<1> QED
  BY <1>1, <1>2, <1>3, <1>4, <1>5, <1>6

\* What is known while the caller starts the threads.
LEMMA Starting ==
  ASSUME MtInv, main \in {"start", "setWrite", "setRead"}
  PROVE  /\ TypeOK /\ ResultsAgree /\ read = 0 /\ call.blocks \in Nat /\ call.blocks >= 1
         /\ \A t \in Thread : /\ pc[t] \in {"none", "start", "canRead"} /\ th[t].block = 0
                              /\ Used(t) => ~th[t].stopReading /\ ~th[t].stopWriting
                              /\ ~th[t].canRead
                              /\ th[t].canWrite => Used(t) /\ main = "setRead"
                              /\ pc[t] # "none" => ~th[t].stop
         /\ \A t, u \in Thread : th[t].canWrite /\ th[u].canWrite => t = u
<1>1. TypeOK /\ Phase /\ NotYetRead /\ BlocksAreRead /\ ReadTurn /\ WriteTurn /\ Errors
  BY DEF MtInv
<1>2. \A t \in Thread : /\ pc[t] \in {"none", "start", "canRead"}
                        /\ Used(t) => ~th[t].stopReading /\ ~th[t].stopWriting
                        /\ pc[t] # "none" => ~th[t].stop
  BY <1>1 DEF Phase, Fresh, Parked, Ending
<1>3. \A t \in Thread : ~th[t].canRead /\ (th[t].canWrite => Used(t) /\ main = "setRead")
  BY <1>1 DEF ReadTurn, WriteTurn
<1>4. \A t, u \in Thread : th[t].canWrite /\ th[u].canWrite => t = u
  BY <1>1, <1>2, <1>3 DEF WriteTurn, MayWrite
<1>5. \A t \in Thread : th[t].block = 0
  BY <1>1, <1>2 DEF BlocksAreRead
<1>6. read = 0 /\ ResultsAgree /\ call.blocks \in Nat /\ call.blocks >= 1
  BY <1>1, MtCoderAssumption DEF NotYetRead, Errors, ResultsAgree, TypeOK
<1> QED
  BY <1>1, <1>2, <1>3, <1>4, <1>5, <1>6

\* The first turns are the only ones.
LEMMA FreshIsEnough ==
  ASSUME TypeOK', Phase', ResultsAgree', read' = 0, call.blocks' >= 1,
         main' \in {"start", "setWrite", "setRead", "wait"},
         \A t \in Thread : /\ pc'[t] \in {"none", "start", "canRead"} /\ th'[t].block = 0
                           /\ t < call.numThreads' => ~th'[t].stopReading /\ ~th'[t].stopWriting
                           /\ th'[t].canRead => t = 0 /\ main' = "wait"
                           /\ th'[t].canWrite => t < call.numThreads' /\ main' \in {"setRead", "wait"},
         \A t, u \in Thread : th'[t].canWrite /\ th'[u].canWrite => t = u
  PROVE  MtInv'
<1>1. call.numThreads' \in 2..MaxThreads /\ call.blocks' \in Nat /\ \A t \in Thread : t \in Nat
  BY MtCoderAssumption DEF TypeOK, Thread
<1>2. NotYetRead'
  BY DEF NotYetRead
<1>3. BlocksAreRead'
  BY <1>1 DEF BlocksAreRead
<1>4. ReadTurn'
  <2>1. ASSUME NEW t \in Thread
        PROVE  ~HasRead(t)' /\ (MayRead(t)' => t = 0)
    BY DEF HasRead, MayRead
  <2>2. ASSUME NEW t \in Thread
        PROVE  th'[t].canRead => t < call.numThreads' /\ main' \in {"wait", "close"}
    BY <1>1
  <2>3. read' < call.blocks'
    BY <1>1
  <2> QED
    BY <2>1, <2>2, <2>3 DEF ReadTurn, Used
<1>5. WriteTurn'
  <2>1. ASSUME NEW t \in Thread
        PROVE  ~HasWrite(t)' /\ (MayWrite(t)' => th'[t].canWrite)
    BY DEF HasWrite, MayWrite
  <2> QED
    BY <2>1 DEF WriteTurn, Used
<1>6. StopFlags'
  <2>1. ASSUME NEW t \in Thread, Used(t)'
        PROVE  ~th'[NextThread(t)'].stopReading
    <3>1. NextThread(t)' \in Thread /\ NextThread(t)' < call.numThreads'
      BY <1>1, <2>1, MtCoderAssumption DEF Thread, Used, NextThread
    <3> QED
      BY <3>1
  <2> QED
    BY <2>1 DEF StopFlags
<1>7. Errors'
  BY DEF Errors, ResultsAgree
<1> QED
  BY <1>2, <1>3, <1>4, <1>5, <1>6, <1>7 DEF MtInv

LEMMA CreateStarts ==
  ASSUME MtInv, Create
  PROVE  MtInv'
<1>1. /\ main = "create" /\ main' = "start" /\ CreateUpTo(call.numThreads) /\ call' = call
      /\ res' = res /\ progressRes' = progressRes /\ read' = read /\ written' = written
  BY DEF Create, MainStep, resVars, streamVars
<1>2. TypeOK /\ Resting /\ call.i = 0 /\ ResultsAgree /\ NotYetRead /\ FlagsAreClear
  BY <1>1, Quiet
<1>3. /\ th' \in [Thread -> CMtThread] /\ pc' \in [Thread -> Place] /\ Resting'
      /\ \A t \in Thread : /\ t < call.numThreads => pc'[t] = "start"
                           /\ th'[t].stopReading = th[t].stopReading
                           /\ th'[t].stopWriting = th[t].stopWriting
  BY <1>1, <1>2, CreateRests
<1>4. TypeOK' /\ ResultsAgree' /\ NotYetRead'
  BY <1>1, <1>2, <1>3 DEF TypeOK, Main, ResultsAgree, NotYetRead
<1>5. call.numThreads \in Nat /\ call.numThreads > 0 /\ \A t \in Thread : t \in Nat
  BY <1>2, Ring, MtCoderAssumption
<1>6. FlagsAreClear'
  BY <1>1, <1>2, <1>3 DEF FlagsAreClear, Used
<1>7. Phase'
  BY <1>1, <1>2, <1>3, <1>5, <1>6 DEF Phase, Parked, Ending, Resting, FlagsAreClear, Used
<1> QED
  BY <1>1, <1>3, <1>4, <1>7, StillIsEnough DEF Resting

LEMMA StartSubThreadInv ==
  ASSUME MtInv, StartSubThread
  PROVE  MtInv'
<1>1. /\ main = "start" /\ main' = IF call.i = call.numThreads - 1 THEN "setWrite" ELSE "start"
      /\ call' = [call EXCEPT !.i = NextThread(@)] /\ th' = [th EXCEPT ![call.i].startEvent = TRUE]
      /\ res' = res /\ progressRes' = progressRes /\ read' = read /\ written' = written /\ pc' = pc
  BY DEF StartSubThread, LoopStep, MainStep, resVars, streamVars
<1>2. Phase /\ TypeOK
  BY DEF MtInv
<1>3. call.i \in Thread /\ Used(call.i)
  BY <1>1, <1>2, Ring, MtCoderAssumption DEF Phase, Thread, Used
<1>4. /\ call.numThreads' = call.numThreads /\ call.blocks' = call.blocks
      /\ call.i' = IF call.i = call.numThreads - 1 THEN 0 ELSE call.i + 1
      /\ NextThread(call.i) \in 0..MaxThreads
      /\ call' \in [i : 0..MaxThreads, numThreads : 2..MaxThreads, blocks : 1..MaxBlocks,
                    res : {"OK", "MEM", "THREAD"}, ret : SRes]
  <2>1. NextThread(call.i) \in 0..MaxThreads
    BY <1>2, <1>3, Ring, MtCoderAssumption DEF Thread
  <2> QED
    BY <1>1, <1>2, <2>1 DEF TypeOK, NextThread
<1>5. /\ th' \in [Thread -> CMtThread]
      /\ \A t \in Thread : /\ th'[t].startEvent = IF t = call.i THEN TRUE ELSE th[t].startEvent
                           /\ th'[t].finishedEvent = th[t].finishedEvent
                           /\ th'[t].stop = th[t].stop /\ th'[t].block = th[t].block
                           /\ th'[t].canRead = th[t].canRead /\ th'[t].canWrite = th[t].canWrite
                           /\ th'[t].stopReading = th[t].stopReading
                           /\ th'[t].stopWriting = th[t].stopWriting
  <2>1. th \in [Thread -> CMtThread] /\ th' = [th EXCEPT ![call.i].startEvent = TRUE]
    BY <1>1, <1>2 DEF TypeOK
  <2>2. th' \in [Thread -> CMtThread]
    BY <1>3, <2>1 DEF CMtThread
  <2>3. ASSUME NEW t \in Thread
        PROVE  /\ th'[t].startEvent = IF t = call.i THEN TRUE ELSE th[t].startEvent
               /\ th'[t].finishedEvent = th[t].finishedEvent
               /\ th'[t].stop = th[t].stop /\ th'[t].block = th[t].block
    BY <1>3, <2>1 DEF CMtThread
  <2>4. ASSUME NEW t \in Thread
        PROVE  /\ th'[t].canRead = th[t].canRead /\ th'[t].canWrite = th[t].canWrite
               /\ th'[t].stopReading = th[t].stopReading /\ th'[t].stopWriting = th[t].stopWriting
    BY <1>3, <2>1 DEF CMtThread
  <2> QED
    BY <2>2, <2>3, <2>4
<1>6. TypeOK'
  BY <1>1, <1>2, <1>4, <1>5 DEF TypeOK, Main
<1>7. Phase'
  <2>1. ASSUME NEW t \in Thread
        PROVE  IF Used(t)' /\ (main' = "start" => t < call.i') THEN Fresh(t)'
               ELSE Parked(t)' /\ (Used(t)' => pc'[t] = "start")
    <3>1. IF Used(t) /\ t < call.i THEN Fresh(t) ELSE Parked(t) /\ (Used(t) => pc[t] = "start")
      BY <1>1, <1>2 DEF Phase
    <3>2. /\ call.i \in Nat /\ t \in Nat /\ call.numThreads \in Nat /\ call.i < call.numThreads
          /\ Used(t) <=> Used(t)'
      BY <1>2, <1>3, <1>4, Ring DEF Used
    <3>3. CASE t = call.i
      BY <1>1, <1>3, <1>4, <1>5, <3>1, <3>2, <3>3 DEF Used, Fresh, Parked
    <3>4. CASE t < call.i
      BY <1>1, <1>4, <1>5, <3>1, <3>2, <3>4 DEF Used, Fresh
    <3>5. CASE t > call.i
      BY <1>1, <1>4, <1>5, <3>1, <3>2, <3>5 DEF Used, Parked
    <3> QED
      BY <3>2, <3>3, <3>4, <3>5
  <2>2. call.i' < call.numThreads' /\ (main' = "setWrite" => call.i' = 0)
    BY <1>1, <1>2, <1>3, <1>4, Ring DEF Used
  <2>3. ASSUME NEW t \in Thread
        PROVE  /\ Used(t)' => ~th'[t].stopReading /\ ~th'[t].stopWriting
               /\ pc'[t] # "none" => ~th'[t].stop
    BY <1>1, <1>4, <1>5, Starting DEF Used
  <2> QED
    BY <1>1, <2>1, <2>2, <2>3 DEF Phase, Ending
<1>8. ResultsAgree' /\ read' = 0 /\ call.blocks' >= 1
  BY <1>1, <1>4, Starting DEF ResultsAgree
<1> QED
  BY <1>1, <1>4, <1>5, <1>6, <1>7, <1>8, Starting, FreshIsEnough DEF Used

\* Zero is a thread of every call.
LEMMA FirstThread == ASSUME TypeOK PROVE 0 \in Thread /\ Used(0)
BY Ring, MtCoderAssumption DEF Thread, Used

LEMMA SetFirstInv ==
  ASSUME MtInv, SetFirstWrite \/ SetFirstRead
  PROVE  MtInv'
<1>1. /\ call' = call /\ pc' = pc /\ res' = res /\ progressRes' = progressRes
      /\ read' = read /\ written' = written /\ TypeOK /\ Phase
      /\ main \in {"setWrite", "setRead"} /\ main' = IF main = "setWrite" THEN "setRead" ELSE "wait"
  BY DEF SetFirstWrite, SetFirstRead, MainStep, resVars, streamVars, MtInv
<1>2. 0 \in Thread /\ Used(0) /\ th \in [Thread -> CMtThread]
  BY <1>1, FirstThread DEF TypeOK
<1>3. /\ th' \in [Thread -> CMtThread]
      /\ \A t \in Thread : /\ th'[t].startEvent = th[t].startEvent
                           /\ th'[t].finishedEvent = th[t].finishedEvent
                           /\ th'[t].stop = th[t].stop /\ th'[t].block = th[t].block
                           /\ th'[t].canRead => th[t].canRead \/ (t = 0 /\ main' = "wait")
                           /\ th'[t].canWrite => th[t].canWrite \/ (t = 0 /\ main = "setWrite")
                           /\ th'[t].stopReading = th[t].stopReading
                           /\ th'[t].stopWriting = th[t].stopWriting
  <2>1. CASE SetFirstWrite
    <3>1. main = "setWrite" /\ th' = [th EXCEPT ![0].canWrite = TRUE]
      BY <2>1 DEF SetFirstWrite, MainStep
    <3> QED
      BY <1>2, <3>1 DEF CMtThread
  <2>2. CASE SetFirstRead
    <3>1. main' = "wait" /\ th' = [th EXCEPT ![0].canRead = TRUE]
      BY <2>2 DEF SetFirstRead, MainStep
    <3> QED
      BY <1>2, <3>1 DEF CMtThread
  <2> QED
    BY <2>1, <2>2
<1>4. TypeOK'
  BY <1>1, <1>3 DEF TypeOK, Main
<1>5. call.i = 0 /\ call.numThreads \in Nat /\ call.numThreads > 0 /\ \A t \in Thread : t \in Nat
  BY <1>1, Ring DEF Phase
<1>6. Phase'
  <2>1. ASSUME NEW t \in Thread
        PROVE  /\ IF Used(t)' THEN Fresh(t)' ELSE Parked(t)'
               /\ Fresh(t)' => Started(t)'
    <3>1. IF Used(t) THEN Fresh(t) ELSE Parked(t)
      BY <1>1 DEF Phase
    <3> QED
      BY <1>1, <1>3, <3>1 DEF Used, Fresh, Parked, Started, Working
  <2>2. ASSUME NEW t \in Thread
        PROVE  /\ Used(t)' => ~th'[t].stopReading /\ ~th'[t].stopWriting
               /\ pc'[t] # "none" => ~th'[t].stop
    BY <1>1, <1>3, Starting DEF Used
  <2>3. \A t \in Thread : t >= call.i'
    BY <1>1, <1>5
  <2> QED
    BY <1>1, <1>5, <2>1, <2>2, <2>3 DEF Phase, Ending
<1>7. ResultsAgree' /\ read' = 0 /\ call.blocks' >= 1
  BY <1>1, Starting DEF ResultsAgree
<1>8. \A t \in Thread : /\ pc'[t] \in {"none", "start", "canRead"} /\ th'[t].block = 0
                        /\ t < call.numThreads' => ~th'[t].stopReading /\ ~th'[t].stopWriting
                        /\ th'[t].canRead => t = 0 /\ main' = "wait"
                        /\ th'[t].canWrite => t < call.numThreads' /\ main' \in {"setRead", "wait"}
  <2>1. ASSUME NEW t \in Thread
        PROVE  /\ pc[t] \in {"none", "start", "canRead"} /\ th[t].block = 0
               /\ Used(t) => ~th[t].stopReading /\ ~th[t].stopWriting
               /\ ~th[t].canRead /\ (th[t].canWrite => Used(t) /\ main = "setRead")
    BY <1>1, Starting
  <2>2. ASSUME NEW t \in Thread
        PROVE  /\ th'[t].canRead => t = 0 /\ main' = "wait"
               /\ th'[t].canWrite => Used(t) /\ main' \in {"setRead", "wait"}
    BY <1>1, <1>2, <1>3, <2>1
  <2>3. ASSUME NEW t \in Thread
        PROVE  /\ pc'[t] \in {"none", "start", "canRead"} /\ th'[t].block = 0
               /\ Used(t) => ~th'[t].stopReading /\ ~th'[t].stopWriting
    BY <1>1, <1>3, <2>1
  <2> QED
    BY <1>1, <2>2, <2>3 DEF Used
<1>9. \A t, u \in Thread : th'[t].canWrite /\ th'[u].canWrite => t = u
  BY <1>1, <1>3, Starting
<1> QED
  BY <1>1, <1>4, <1>6, <1>7, <1>8, <1>9, FreshIsEnough

\* A thread that is waited for has returned to its StartEvent.
LEMMA WaitSubThreadInv ==
  ASSUME MtInv, WaitSubThread
  PROVE  MtInv'
<1>1. /\ main = "wait" /\ main' = IF call.i = call.numThreads - 1 THEN "close" ELSE "wait"
      /\ call' = [call EXCEPT !.i = NextThread(@)]
      /\ th[call.i].finishedEvent /\ th' = [th EXCEPT ![call.i].finishedEvent = FALSE]
      /\ res' = res /\ progressRes' = progressRes /\ read' = read /\ written' = written /\ pc' = pc
  BY DEF WaitSubThread, LoopStep, MainStep, resVars, streamVars
<1>2. TypeOK /\ Phase /\ NotYetRead /\ BlocksAreRead /\ ReadTurn /\ StopFlags /\ WriteTurn /\ Errors
  BY DEF MtInv
<1>3. call.i \in Thread /\ Used(call.i)
  BY <1>1, <1>2, Ring, MtCoderAssumption DEF Phase, Thread, Used
<1>4. /\ call.numThreads' = call.numThreads /\ call.blocks' = call.blocks
      /\ call.i' = IF call.i = call.numThreads - 1 THEN 0 ELSE call.i + 1
      /\ call' \in [i : 0..MaxThreads, numThreads : 2..MaxThreads, blocks : 1..MaxBlocks,
                    res : {"OK", "MEM", "THREAD"}, ret : SRes]
  <2>1. NextThread(call.i) \in 0..MaxThreads
    BY <1>2, <1>3, Ring, MtCoderAssumption DEF Thread
  <2> QED
    BY <1>1, <1>2, <2>1 DEF TypeOK, NextThread
<1>5. /\ th' \in [Thread -> CMtThread]
      /\ \A t \in Thread : /\ th'[t].finishedEvent = IF t = call.i THEN FALSE ELSE th[t].finishedEvent
                           /\ th'[t].startEvent = th[t].startEvent
                           /\ th'[t].stop = th[t].stop /\ th'[t].block = th[t].block
                           /\ th'[t].canRead = th[t].canRead /\ th'[t].canWrite = th[t].canWrite
                           /\ th'[t].stopReading = th[t].stopReading
                           /\ th'[t].stopWriting = th[t].stopWriting /\ th'[t].err = th[t].err
  BY <1>1, <1>2, <1>3 DEF TypeOK, CMtThread
<1>6. TypeOK'
  BY <1>1, <1>2, <1>4, <1>5 DEF TypeOK, Main
<1>7. Phase'
  <2>1. ASSUME NEW t \in Thread
        PROVE  IF Used(t)' /\ main' = "wait" /\ t >= call.i' THEN Started(t)' ELSE Parked(t)'
    <3>1. IF Used(t) /\ t >= call.i THEN Started(t) ELSE Parked(t)
      BY <1>1, <1>2 DEF Phase
    <3>2. /\ call.i \in Nat /\ t \in Nat /\ call.numThreads \in Nat /\ call.i < call.numThreads
          /\ Used(t) <=> Used(t)'
      BY <1>2, <1>3, <1>4, Ring DEF Used
    <3>3. CASE t = call.i
      <4>1. Parked(t)'
        BY <1>1, <1>3, <1>5, <3>1, <3>2, <3>3 DEF Started, Parked
      <4>2. ~(main' = "wait" /\ t >= call.i')
        BY <1>1, <1>4, <3>2, <3>3
      <4> QED
        BY <4>1, <4>2
    <3>4. CASE t < call.i
      <4>1. Parked(t)'
        BY <1>1, <1>5, <3>1, <3>2, <3>4 DEF Parked
      <4>2. ~(main' = "wait" /\ t >= call.i')
        BY <1>1, <1>4, <3>2, <3>4
      <4> QED
        BY <4>1, <4>2
    <3>5. CASE t > call.i
      <4>1. Used(t) => main' = "wait" /\ t >= call.i'
        BY <1>1, <1>4, <3>2, <3>5 DEF Used
      <4>2. Used(t) => Started(t)'
        BY <1>1, <1>5, <3>1, <3>2, <3>5 DEF Started, Working
      <4>3. ~Used(t) => Parked(t)'
        BY <1>1, <1>5, <3>1, <3>5 DEF Parked
      <4> QED
        BY <3>2, <4>1, <4>2, <4>3
    <3> QED
      BY <3>2, <3>3, <3>4, <3>5
  <2>2. main' = "wait" => call.i' < call.numThreads'
    BY <1>1, <1>2, <1>3, <1>4, Ring DEF Used
  <2>3. ASSUME NEW t \in Thread PROVE pc'[t] # "none" => ~th'[t].stop
    BY <1>1, <1>2, <1>5 DEF Phase, Ending
  <2> QED
    BY <1>1, <2>1, <2>2, <2>3 DEF Phase, Ending
<1>8. NotYetRead' /\ BlocksAreRead' /\ Errors'
  BY <1>1, <1>2, <1>5 DEF NotYetRead, BlocksAreRead, Errors
<1>9. ReadTurn' /\ WriteTurn' /\ StopFlags'
  <2>1. ASSUME NEW t \in Thread
        PROVE  /\ Used(t)' <=> Used(t)
               /\ NextThread(t)' = NextThread(t)
               /\ MayRead(t)' <=> MayRead(t)
               /\ MayWrite(t)' <=> MayWrite(t)
    BY <1>4, <1>5 DEF Used, NextThread, MayRead, MayWrite
  <2>2. ASSUME NEW t \in Thread
        PROVE  HasWrite(t)' <=> HasWrite(t)
    BY <1>1, <1>5 DEF HasWrite
  <2>3. ASSUME NEW t \in Thread, Used(t)
        PROVE  /\ HasRead(t)' <=> HasRead(t)
               /\ NextThread(t)' \in Thread
               /\ th'[NextThread(t)'].stopReading = th[NextThread(t)].stopReading
               /\ th'[NextThread(t)'].stopWriting = th[NextThread(t)].stopWriting
    <3>1. NextThread(t)' = NextThread(t) /\ NextThread(t) \in Thread
      BY <1>2, <2>1, <2>3, Ring
    <3> QED
      BY <1>1, <1>5, <3>1 DEF HasRead
  <2>4. ASSUME NEW t \in Thread, ~Used(t)
        PROVE  ~HasRead(t)'
    <3>1. pc[t] \in {"none", "start"}
      BY <1>1, <1>2, <2>4 DEF Phase, Parked
    <3> QED
      BY <1>1, <3>1 DEF HasRead
  <2>5. ReadTurn'
    <3>1. ASSUME NEW t \in Thread
          PROVE  HasRead(t)' => HasRead(t)
      BY <2>3, <2>4
    <3>2. ASSUME NEW t \in Thread, NEW u \in Thread
          PROVE  /\ MayRead(t)' /\ MayRead(u)' => t = u
                 /\ HasRead(t)' /\ HasRead(u)' => t = u
                 /\ ~(MayRead(t)' /\ HasRead(u)')
      BY <1>2, <2>1, <3>1 DEF ReadTurn
    <3>3. ASSUME NEW t \in Thread
          PROVE  /\ MayRead(t)' \/ HasRead(t)' => read' < call.blocks'
                 /\ th'[t].canRead => Used(t)' /\ main' \in {"wait", "close"}
      BY <1>1, <1>2, <1>4, <1>5, <2>1, <3>1 DEF ReadTurn
    <3> QED
      BY <3>2, <3>3 DEF ReadTurn
  <2>6. WriteTurn'
    <3>1. ASSUME NEW t \in Thread, NEW u \in Thread
          PROVE  /\ MayWrite(t)' /\ MayWrite(u)' => t = u
                 /\ HasWrite(t)' /\ HasWrite(u)' => t = u
                 /\ ~(MayWrite(t)' /\ HasWrite(u)')
      BY <1>2, <2>1, <2>2 DEF WriteTurn
    <3>2. ASSUME NEW t \in Thread
          PROVE  th'[t].canWrite => Used(t)' /\ main' \in {"setRead", "wait", "close"}
      BY <1>1, <1>2, <1>5, <2>1 DEF WriteTurn
    <3> QED
      BY <3>1, <3>2 DEF WriteTurn
  <2>7. StopFlags'
    <3>1. ASSUME NEW t \in Thread, Used(t)'
          PROVE  /\ th'[NextThread(t)'].stopReading =>
                      \/ pc'[t] \in {"passRead", "errorWriting", "errorSetRead", "errorSetWrite",
                                     "finish", "none", "exited"}
                      \/ pc'[t] = "start" /\ ~th'[t].startEvent
                      \/ read' >= call.blocks'
                 /\ pc'[t] \in {"passRead", "errorWriting", "errorSetRead"} =>
                      th'[NextThread(t)'].stopReading
                 /\ pc'[t] \in {"errorSetRead", "errorSetWrite"} => th'[NextThread(t)'].stopWriting
      <4>1. Used(t)
        BY <2>1, <3>1
      <4>2. main \notin Ending
        BY <1>1 DEF Ending
      <4> QED
        BY <1>1, <1>2, <1>4, <1>5, <2>3, <4>1, <4>2 DEF StopFlags
    <3> QED
      BY <3>1 DEF StopFlags
  <2> QED
    BY <2>5, <2>6, <2>7
<1> QED
  BY <1>6, <1>7, <1>8, <1>9 DEF MtInv

\* MtCoder_Destruct: the threads rest, have been told to stop or are gone.
LEMMA EndingInv ==
  ASSUME MtInv, Destruct \/ SetStop \/ SetStartToStop \/ Join \/ Destructed
  PROVE  MtInv'
<1>1. /\ pc' = pc /\ res' = res /\ progressRes' = progressRes /\ read' = read /\ written' = written
      /\ main \in {"idle", "destruct", "stop", "join"} /\ main' \in Ending
  BY DEF Destruct, SetStop, SetStartToStop, Join, Destructed, MainStep, resVars, streamVars, Ending
<1>2. TypeOK /\ Phase /\ BlocksAreRead /\ ReadTurn /\ WriteTurn /\ Errors
  BY DEF MtInv
<1>3. \A t \in Thread : /\ pc[t] \in {"none", "start", "exited"} /\ th[t].block = 0
                        /\ ~th[t].canRead /\ ~th[t].canWrite
                        /\ th[t].startEvent => th[t].stop
  <2>1. \A t \in Thread : pc[t] \in {"none", "start", "exited"} /\ (th[t].startEvent => th[t].stop)
    BY <1>1, <1>2 DEF Phase, Parked, Ending
  <2> QED
    BY <1>1, <1>2, <2>1 DEF BlocksAreRead, ReadTurn, WriteTurn, Ending
<1>4. main \in {"stop", "join"} => call.i < MaxThreads /\ call.i \in Thread
  BY <1>2, Ring, MtCoderAssumption DEF Phase, Thread
<1>5. th \in [Thread -> CMtThread] /\ call.i \in 0..MaxThreads /\ MaxThreads \in Nat
  BY <1>2, Ring, MtCoderAssumption DEF TypeOK
<1>6. ResultsAgree' /\ NotYetRead'
  BY <1>1, <1>2 DEF Errors, ResultsAgree, NotYetRead, Ending
<1>7. CASE Destruct
  <2>1. main' = "destruct" /\ call' = [call EXCEPT !.i = 0] /\ th' = th
    BY <1>7 DEF Destruct, MainStep
  <2>2. 0 \in 0..MaxThreads
    BY <1>5
  <2>3. TypeOK'
    BY <1>1, <1>2, <2>1, <2>2 DEF TypeOK, Main
  <2>4. Phase'
    BY <1>1, <1>3, <2>1 DEF Phase, Ending
  <2> QED
    BY <1>1, <1>3, <1>6, <2>1, <2>3, <2>4, StillIsEnough
<1>8. CASE SetStop
  <2>1. /\ main = "destruct" /\ call.i < MaxThreads /\ main' = "stop" /\ call' = call
        /\ th' = [th EXCEPT ![call.i].stop = @ \/ pc[call.i] # "none"]
    BY <1>8 DEF SetStop, MainStep
  <2>2. call.i \in Thread
    BY <1>5, <2>1, MtCoderAssumption DEF Thread
  <2> DEFINE told == th[call.i].stop \/ pc[call.i] # "none"
  <2>3. th' = [th EXCEPT ![call.i].stop = told] /\ told \in BOOLEAN
    BY <1>5, <2>1, <2>2 DEF CMtThread
  <2>4. (pc[call.i] # "none" => told) /\ (th[call.i].stop => told)
    OBVIOUS
  <2> HIDE DEF told
  <2>5. /\ th' \in [Thread -> CMtThread]
        /\ \A t \in Thread : /\ th'[t].stop = IF t = call.i THEN told ELSE th[t].stop
                             /\ th'[t].startEvent = th[t].startEvent /\ th'[t].block = th[t].block
                             /\ th'[t].canRead = th[t].canRead /\ th'[t].canWrite = th[t].canWrite
    BY <1>5, <2>2, <2>3 DEF CMtThread
  <2>6. TypeOK'
    BY <1>1, <1>2, <2>1, <2>5 DEF TypeOK, Main
  <2>7. Phase'
    BY <1>1, <1>3, <2>1, <2>2, <2>4, <2>5 DEF Phase, Ending
  <2> QED
    BY <1>1, <1>3, <1>6, <2>5, <2>6, <2>7, StillIsEnough
<1>9. CASE SetStartToStop
  <2>1. /\ main = "stop" /\ main' = "join" /\ call' = call
        /\ th' = [th EXCEPT ![call.i].startEvent = @ \/ pc[call.i] # "none"]
    BY <1>9 DEF SetStartToStop, MainStep
  <2>2. call.i \in Thread /\ call.i < MaxThreads /\ (pc[call.i] # "none" => th[call.i].stop)
    BY <1>2, <1>4, <2>1 DEF Phase
  <2> DEFINE told == th[call.i].startEvent \/ pc[call.i] # "none"
  <2>3. th' = [th EXCEPT ![call.i].startEvent = told] /\ told \in BOOLEAN
    BY <1>5, <2>1, <2>2 DEF CMtThread
  <2>4. told => th[call.i].stop
    BY <1>3, <2>2
  <2> HIDE DEF told
  <2>5. /\ th' \in [Thread -> CMtThread]
        /\ \A t \in Thread : /\ th'[t].startEvent = IF t = call.i THEN told ELSE th[t].startEvent
                             /\ th'[t].stop = th[t].stop /\ th'[t].block = th[t].block
                             /\ th'[t].canRead = th[t].canRead /\ th'[t].canWrite = th[t].canWrite
    BY <1>5, <2>2, <2>3 DEF CMtThread
  <2>6. TypeOK'
    BY <1>1, <1>2, <2>1, <2>5 DEF TypeOK, Main
  <2>7. Phase'
    BY <1>1, <1>3, <2>1, <2>2, <2>4, <2>5 DEF Phase, Ending
  <2> QED
    BY <1>1, <1>3, <1>6, <2>5, <2>6, <2>7, StillIsEnough
<1>10. CASE Join
  <2>1. main = "join" /\ main' = "destruct" /\ call' = [call EXCEPT !.i = @ + 1] /\ th' = th
    BY <1>10 DEF Join, MainStep
  <2>2. call.i + 1 \in 0..MaxThreads
    BY <1>4, <1>5, <2>1
  <2>3. TypeOK'
    BY <1>1, <1>2, <2>1, <2>2 DEF TypeOK, Main
  <2>4. Phase'
    BY <1>1, <1>3, <2>1 DEF Phase, Ending
  <2> QED
    BY <1>1, <1>3, <1>6, <2>1, <2>3, <2>4, StillIsEnough
<1>11. CASE Destructed
  <2>1. main' = "destroyed" /\ call' = call /\ th' = th
    BY <1>11 DEF Destructed, MainStep
  <2>2. TypeOK'
    BY <1>1, <1>2, <2>1 DEF TypeOK, Main
  <2>3. Phase'
    BY <1>1, <1>3, <2>1 DEF Phase, Ending
  <2> QED
    BY <1>1, <1>3, <1>6, <2>1, <2>2, <2>3, StillIsEnough
<1> QED
  BY <1>7, <1>8, <1>9, <1>10, <1>11

-----------------------------------------------------------------------------
LEMMA StepInv == MtInv /\ [Next]_vars => MtInv'
<1> SUFFICES ASSUME MtInv, [Next]_vars PROVE MtInv'
  OBVIOUS
<1>1. CASE \E t \in Thread : ThreadStep(t)
  BY <1>1, ThreadInv
<1>2. CASE CallerStep
  BY <1>2, RestingSteps, CreateStarts, StartSubThreadInv, SetFirstInv, WaitSubThreadInv, EndingInv
     DEF CallerStep
<1>3. CASE \E n \in 2..MaxThreads, b \in 1..MaxBlocks : Code(n, b)
  BY <1>3, RestingSteps
<1>4. CASE Destruct
  BY <1>4, EndingInv
<1>5. CASE UNCHANGED vars
  <2>1. /\ main' = main /\ call' = call /\ res' = res /\ progressRes' = progressRes
        /\ read' = read /\ written' = written /\ pc' = pc /\ th' = th
    BY <1>5 DEF vars, callVars, resVars, streamVars
  <2>2. TypeOK' /\ Phase' /\ NotYetRead' /\ BlocksAreRead' /\ Errors'
    BY <2>1 DEF MtInv, TypeOK, Phase, Parked, Fresh, Started, Working, Used, NotYetRead,
                BlocksAreRead, Errors
  <2>3. ReadTurn' /\ WriteTurn' /\ StopFlags'
    BY <2>1 DEF MtInv, ReadTurn, MayRead, HasRead, WriteTurn, MayWrite, HasWrite, StopFlags,
                Used, NextThread
  <2> QED
    BY <2>2, <2>3 DEF MtInv
<1> QED
  BY <1>1, <1>2, <1>3, <1>4, <1>5 DEF Next, Terminating

\* The invariant of MtCoder.c: where the threads are in each phase of a call,
\* that there is one turn to read and one to write, who may have set the flags
\* that stop a thread, and which errors have been recorded.
THEOREM MtInvariant == Spec => []MtInv
<1>1. Init => MtInv
  BY InitInv
<1>2. MtInv /\ [Next]_vars => MtInv'
  BY StepInv
<1> QED
  BY <1>1, <1>2, PTL DEF Spec

\* At most one thread reads the input of the caller, and at most one writes to
\* its output (FullRead and outStream->Write in MtThread_Process).
THEOREM OneUserPerStream == Spec => []StreamsHaveOneUser
<1>1. MtInv => StreamsHaveOneUser
  <2> SUFFICES ASSUME MtInv, NEW t \in Thread, NEW u \in Thread, t # u
               PROVE  {pc[t], pc[u]} # {"read"} /\ {pc[t], pc[u]} # {"write"}
    BY DEF StreamsHaveOneUser, MtInv
  <2>1. ~(pc[t] = "read" /\ pc[u] = "read")
    BY DEF MtInv, ReadTurn, HasRead
  <2>2. ~(pc[t] = "write" /\ pc[u] = "write")
    BY DEF MtInv, WriteTurn, HasWrite
  <2> QED
    BY <2>1, <2>2
<1> QED
  BY <1>1, MtInvariant, PTL

\* The error that stopped the others is in CMtCoder::res before MtProgress_Set
\* passes it on as PROGRESS (the order of the calls in ThreadFunc).
THEOREM TheCauseIsReported == Spec => []CauseIsReported
<1>1. MtInv => CauseIsReported
  BY DEF MtInv, Errors, CauseIsReported
<1> QED
  BY <1>1, MtInvariant, PTL

\* Between two calls, and when the events of a call are closed, all threads are
\* at StartEvent, and no event is left over.
THEOREM NoEventIsInUse == Spec => []EventsAreUnused
<1>1. MtInv => EventsAreUnused
  BY DEF MtInv, Phase, Parked, EventsAreUnused
<1> QED
  BY <1>1, MtInvariant, PTL

-----------------------------------------------------------------------------
(* The order of the blocks.                                                 *)

\* What is in the buffers of a thread from ReadBlock to SetNextWrite.
Holding == {"setRead", "code", "canWrite", "testWriting", "write", "setWrite"}

\* It reads and writes no more in this call.
Over(t) ==
  \/ pc[t] \in {"passRead", "errorReading", "errorWriting", "errorSetRead", "errorSetWrite",
                "finish", "none", "exited"}
  \/ pc[t] = "start" /\ ~th[t].startEvent

\* The blocks that are read and not written are with the threads.
Blocks ==
  /\ written <= read
  /\ \A t \in Thread :
       /\ th[t].block # 0 => IF pc[t] = "setWrite" THEN th[t].block = written
                                                   ELSE written < th[t].block
       /\ pc[t] \in Holding => th[t].block # 0
       /\ pc[t] = "setRead" => th[t].block = read
  /\ \A t, u \in Thread : th[t].block # 0 /\ th[t].block = th[u].block => t = u

\* After a block comes that of the next thread, unless the next thread has failed
\* with it, or it is to read it yet.
Follows(t, u) ==
  \/ th[u].block = th[t].block + 1
  \/ Over(u) /\ res # "OK"
  \/ read = th[t].block /\ th[u].block < th[t].block
Chain == \A t \in Thread : Used(t) /\ th[t].block # 0 => Follows(t, NextThread(t))

\* The turn to read is with the thread after that of the last block.
Reads(t) == MayRead(t) \/ (HasRead(t) /\ pc[t] # "setRead")
ReadsNext ==
  \A t, u \in Thread : Used(t) /\ Reads(u) /\ th[t].block = read /\ read # 0 => NextThread(t) = u

\* The turn to write is with the thread of the next block, or with the one that will
\* read it, or with one that has failed.
WritesNext ==
  /\ \A t \in Thread : MayWrite(t) =>
       \/ th[t].block = written + 1
       \/ th[t].block = 0 /\ read = written
       \/ th[t].block = 0 /\ Over(t) /\ res # "OK"
  /\ \A t \in Thread : HasWrite(t) /\ pc[t] # "setWrite" => th[t].block = written + 1
  /\ \A t, u \in Thread : MayWrite(t) /\ th[t].block = 0 /\ read = written /\ Reads(u) => t = u

\* Only an error stops a thread before all blocks are read.
Causes ==
  main = "wait" => \A t \in Thread : Used(t) =>
    /\ pc[t] \in {"errorReading", "errorWriting"} => res # "OK"
    /\ pc[t] = "error" /\ th[t].err = "FAIL" => res # "OK"
    /\ th[t].stopWriting => res # "OK"
    /\ th[t].stopReading => res # "OK" \/ read = call.blocks
    /\ Over(t) => res # "OK" \/ read = call.blocks

\* Until all blocks are written somebody has the turn to write or fails.
GoesOn ==
  /\ main = "setRead" => MayWrite(0)
  /\ main = "wait" /\ written < call.blocks /\ res = "OK" =>
       \E t \in Thread : Used(t) /\ (MayWrite(t) \/ HasWrite(t) \/ pc[t] = "error")

Results ==
  /\ main \in {"prepare", "create", "start", "setWrite", "setRead"} => res = "OK"
  /\ main \in {"prepare", "create", "start", "setWrite", "setRead", "wait"} => call.res = "OK"
  /\ main \in {"close", "return"} /\ call.res = "OK" /\ res = "OK" => written = call.blocks

OrderInv == Blocks /\ Chain /\ ReadsNext /\ WritesNext /\ Causes /\ GoesOn /\ Results

-----------------------------------------------------------------------------
(* What a step of a thread does to the blocks and to the turns.             *)

\* A step other than the four that move a block.
BlocksStay ==
  /\ read' = read /\ written' = written
  /\ \A u \in Thread : th'[u].block = th[u].block

LEMMA OtherSteps ==
  ASSUME MtInv, NEW t \in Thread, ThreadStep(t),
         ~ReadBlock(t), ~WriteBlock(t), ~SetNextWrite(t), ~SetProgressError(t)
  PROVE  /\ BlocksStay
         /\ pc[t] # "setWrite" /\ pc'[t] \notin {"setWrite", "setRead"}
         /\ pc'[t] \in Holding => pc[t] \in Holding
         /\ \A u \in Thread : Over(u) => Over(u)'
<1>1. TypeOK /\ Phase /\ pc \in [Thread -> Place] /\ th \in [Thread -> CMtThread]
  BY DEF MtInv, TypeOK
<1>2. read' = read /\ written' = written
  BY DEF ThreadStep, streamVars, WaitStart, WaitRead, GoesOnReading, StopsReading, SetNextRead,
       CodeSucceeds, Fails, ProgressBreaks, WaitWrite, TestWriting,
       SetError, StopNextReading, StopNextWriting, WakeNextWriter, Finish
<1>3. th'[t].block = th[t].block
  <2> USE <1>1 DEF CMtThread
  <2>1. CASE WaitStart(t) \/ WaitRead(t) \/ WaitWrite(t) \/ Finish(t)
    BY <2>1 DEF WaitStart, WaitRead, WaitWrite, Finish
  <2>2. CASE GoesOnReading(t) \/ CodeSucceeds(t) \/ SetError(t)
    BY <2>2 DEF GoesOnReading, CodeSucceeds, SetError
  <2>3. CASE StopsReading(t) \/ StopNextReading(t) \/ StopNextWriting(t)
    BY <2>3 DEF StopsReading, StopNextReading, StopNextWriting
  <2>4. CASE SetNextRead(t) \/ WakeNextWriter(t)
    BY <2>4 DEF SetNextRead, WakeNextWriter
  <2>5. CASE Fails(t) \/ ProgressBreaks(t) \/ TestWriting(t)
    BY <2>5 DEF Fails, ProgressBreaks, TestWriting
  <2> QED
    BY <2>1, <2>2, <2>3, <2>4, <2>5 DEF ThreadStep
<1>4. /\ pc[t] # "setWrite" /\ pc'[t] \notin {"setWrite", "setRead"}
      /\ pc'[t] \in Holding => pc[t] \in Holding
  BY <1>1 DEF Holding, ThreadStep, Step, WaitStart, WaitRead, GoesOnReading, StopsReading,
       SetNextRead, CodeSucceeds, Fails, ProgressBreaks, WaitWrite, TestWriting,
       SetError, StopNextReading, StopNextWriting, WakeNextWriter, Finish
<1>5. ASSUME Over(t) PROVE Over(t)'
  <2>1. \/ Finish(t) \/ SetNextRead(t) \/ StopNextReading(t) \/ StopNextWriting(t)
        \/ WakeNextWriter(t)
    BY <1>5 DEF Over, ThreadStep, Step, WaitStart, WaitRead, GoesOnReading, StopsReading,
       CodeSucceeds, Fails, ProgressBreaks, WaitWrite, TestWriting, SetError
  <2>2. CASE Finish(t)
    <3>1. ~th[t].startEvent /\ pc'[t] = "start"
      BY <1>1, <2>2, Work DEF Finish, Step, Working
    <3>2. ~th'[t].startEvent
      BY <1>1, <2>2, <3>1 DEF Finish, CMtThread
    <3> QED
      BY <3>1, <3>2 DEF Over
  <2>3. CASE ~Finish(t)
    BY <1>1, <1>5, <2>1, <2>3
       DEF Over, Step, SetNextRead, StopNextReading, StopNextWriting, WakeNextWriter
  <2> QED
    BY <2>2, <2>3
<1>6. ASSUME NEW u \in Thread, u # t
      PROVE  th'[u].block = th[u].block /\ (Over(u) => Over(u)')
  BY <1>6, ThreadFrame DEF Over
<1> QED
  BY <1>2, <1>3, <1>4, <1>5, <1>6 DEF BlocksStay

\* Over(u) of another thread; results are not reset.
LEMMA OthersStay ==
  ASSUME MtInv, NEW t \in Thread, ThreadStep(t)
  PROVE  /\ \A u \in Thread : u # t => /\ pc'[u] = pc[u] /\ th'[u].block = th[u].block
                                       /\ Over(u)' <=> Over(u)
         /\ res # "OK" => res' # "OK"
         /\ ~SetError(t) => res' = res
         /\ \A u : NextThread(u)' = NextThread(u) /\ (Used(u)' <=> Used(u))
         /\ call' = call /\ main' = main
<1>1. \A u \in Thread : u # t => /\ pc'[u] = pc[u] /\ th'[u].block = th[u].block
                                 /\ Over(u)' <=> Over(u)
  BY ThreadFrame DEF Over
<1>2. ~SetError(t) => res' = res
  BY DEF resVars, ThreadStep, WaitStart, WaitRead, GoesOnReading, StopsReading, ReadBlock,
       SetNextRead, CodeSucceeds, Fails, ProgressBreaks, WaitWrite, TestWriting, WriteBlock,
       SetNextWrite, SetProgressError, StopNextReading, StopNextWriting, WakeNextWriter, Finish
<1>3. SetError(t) => (res # "OK" => res' # "OK")
  BY DEF SetError
<1>4. call' = call /\ main' = main
  BY ThreadFrame
<1> QED
  BY <1>1, <1>2, <1>3, <1>4 DEF NextThread, Used

\* A turn to read comes from the thread that had it.
LEMMA ReadsMove ==
  ASSUME MtInv, NEW t \in Thread, ThreadStep(t), NEW u \in Thread, Reads(u)'
  PROVE  \/ Reads(u) /\ ~ReadBlock(t)
         \/ SetNextRead(t) /\ pc[t] = "setRead" /\ u = NextThread(t)
<1> DEFINE n == NextThread(t)
<1>1. /\ TypeOK /\ Phase /\ ReadTurn /\ StopFlags
      /\ pc \in [Thread -> Place] /\ th \in [Thread -> CMtThread]
  BY DEF MtInv, TypeOK
<1>2. Working(t) => Used(t) /\ n \in Thread /\ n # t
  BY <1>1, Ring, Work
<1>3. MayRead(u)' \/ (HasRead(u)' /\ pc'[u] # "setRead")
  BY DEF Reads
<1>4. CASE WaitRead(t)
  <2>1. /\ pc[t] = "canRead" /\ pc'[t] = "testReading"
        /\ th[t].canRead /\ ~th'[t].canRead /\ th'[u].stopReading = th[u].stopReading
        /\ u # t => th'[u].canRead = th[u].canRead /\ pc'[u] = pc[u]
    BY <1>1, <1>4 DEF WaitRead, Step, CMtThread
  <2>2. ~ReadBlock(t)
    BY <2>1 DEF ReadBlock, Step
  <2> QED
    BY <1>3, <2>1, <2>2 DEF Reads, MayRead, HasRead
<1>5. CASE ReadBlock(t)
  <2>1. pc'[t] = "setRead" /\ ReadTurn' /\ StopFlags' /\ TypeOK'
    BY <1>1, <1>5, ThreadInv DEF ReadBlock, Step, MtInv
  <2>2. HasRead(t)
    BY <1>5 DEF ReadBlock, Step, HasRead
  <2>3. ~MayRead(u) /\ (u # t => ~HasRead(u)) /\ read < call.blocks
    BY <1>1, <2>2 DEF ReadTurn
  <2>4. u # t => pc'[u] = pc[u]
    BY OthersStay
  <2>5. Working(t) /\ main = "wait"
    BY <1>1, <1>5, Work DEF ReadBlock, Step, Working
  <2>6. ~th[n].stopReading
    BY <1>1, <1>2, <1>5, <2>3, <2>5 DEF StopFlags, TypeOK, Ending, ReadBlock, Step
  <2>7. th'[u].stopReading = th[u].stopReading \/ u = n
    BY <1>1, <1>5 DEF ReadBlock, CMtThread
  <2>8. th'[u].canRead = th[u].canRead
    BY <1>1, <1>5 DEF ReadBlock, CMtThread
  <2>9. ~MayRead(u)'
    BY <2>3, <2>6, <2>7, <2>8 DEF MayRead
  <2>10. u # t
    BY <1>3, <2>1, <2>9
  <2>11. HasRead(u) \/ (pc[u] = "testReading" /\ u = n)
    BY <1>3, <2>4, <2>7, <2>9, <2>10 DEF HasRead
  <2> QED
    BY <1>3, <2>3, <2>4, <2>6, <2>9, <2>10, <2>11 DEF HasRead
<1>6. CASE SetNextRead(t)
  <2>1. Working(t) /\ pc[t] \in {"setRead", "passRead", "errorSetRead"}
        /\ pc'[t] \in {"code", "finish", "errorSetWrite"}
    BY <1>1, <1>6 DEF SetNextRead, Step, Working
  <2>2. /\ u # n => th'[u].canRead = th[u].canRead
        /\ th'[u].stopReading = th[u].stopReading
    BY <1>1, <1>2, <1>6, <2>1 DEF SetNextRead, CMtThread
  <2>3. pc[t] # "setRead" => th[n].stopReading
    BY <1>1, <1>2, <2>1 DEF StopFlags
  <2>4. ~ReadBlock(t)
    BY <2>1 DEF ReadBlock, Step
  <2>5. CASE MayRead(u)'
    <3>1. CASE u = n
      BY <1>6, <2>2, <2>3, <2>5, <3>1 DEF MayRead
    <3>2. CASE u # n
      BY <2>2, <2>4, <2>5, <3>2 DEF MayRead, Reads
    <3> QED
      BY <3>1, <3>2
  <2>6. CASE HasRead(u)' /\ pc'[u] # "setRead"
    <3>1. u # t
      BY <2>1, <2>6 DEF HasRead
    <3>2. pc'[u] = pc[u]
      BY <3>1, OthersStay
    <3> QED
      BY <2>2, <2>4, <2>6, <3>2 DEF HasRead, Reads
  <2> QED
    BY <1>3, <2>5, <2>6
<1>7. CASE ~WaitRead(t) /\ ~ReadBlock(t) /\ ~SetNextRead(t)
  <2>1. /\ pc'[t] \notin {"testReading", "setRead"}
        /\ pc'[t] = "read" => pc[t] = "testReading" /\ ~th[t].stopReading
    BY <1>1, <1>7 DEF ThreadStep, Step, WaitStart, GoesOnReading, StopsReading,
       CodeSucceeds, Fails, ProgressBreaks, WaitWrite, TestWriting, WriteBlock, SetNextWrite,
       SetError, SetProgressError, StopNextReading, StopNextWriting, WakeNextWriter, Finish
  <2>2. th[u].stopReading => th'[u].stopReading
    BY <1>7, ThreadFlags
  <2>3. th'[u].canRead = th[u].canRead
    <3> USE <1>1 DEF CMtThread
    <3>1. CASE WaitStart(t) \/ WaitWrite(t) \/ Finish(t)
      BY <3>1 DEF WaitStart, WaitWrite, Finish
    <3>2. CASE GoesOnReading(t) \/ CodeSucceeds(t) \/ WriteBlock(t) \/ SetError(t)
      BY <3>2 DEF GoesOnReading, CodeSucceeds, WriteBlock, SetError
    <3>3. CASE StopsReading(t) \/ StopNextReading(t) \/ StopNextWriting(t)
      BY <3>3 DEF StopsReading, StopNextReading, StopNextWriting
    <3>4. CASE WakeNextWriter(t) \/ SetNextWrite(t) \/ SetProgressError(t)
      BY <3>4 DEF WakeNextWriter, SetNextWrite, SetProgressError
    <3>5. CASE Fails(t) \/ ProgressBreaks(t) \/ TestWriting(t)
      BY <3>5 DEF Fails, ProgressBreaks, TestWriting
    <3> QED
      BY <1>7, <3>1, <3>2, <3>3, <3>4, <3>5 DEF ThreadStep
  <2>4. u # t => pc'[u] = pc[u]
    BY OthersStay
  <2> QED
    BY <1>3, <1>7, <2>1, <2>2, <2>3, <2>4 DEF Reads, MayRead, HasRead
<1> QED
  BY <1>4, <1>5, <1>6, <1>7

\* So does a turn to write; the next thread gets it with the last statement of a
\* thread that has written.
LEMMA WritesMove ==
  ASSUME MtInv, NEW t \in Thread, ThreadStep(t), NEW u \in Thread
  PROVE  /\ MayWrite(u)' => MayWrite(u) \/ (SetNextWrite(t) /\ u = NextThread(t))
         /\ HasWrite(u)' /\ pc'[u] # "setWrite" =>
              \/ HasWrite(u) /\ pc[u] # "setWrite"
              \/ u = t /\ WaitWrite(t) /\ MayWrite(t)
<1> DEFINE n == NextThread(t)
<1>1. TypeOK /\ Phase /\ StopFlags /\ pc \in [Thread -> Place] /\ th \in [Thread -> CMtThread]
  BY DEF MtInv, TypeOK
<1>2. Working(t) => Used(t) /\ n \in Thread /\ n # t
  BY <1>1, Ring, Work
<1>3. (u # t => pc'[u] = pc[u]) /\ (th[u].stopWriting => th'[u].stopWriting)
  BY OthersStay, ThreadFlags
<1>4. CASE WaitWrite(t)
  <2>1. /\ pc[t] = "canWrite" /\ pc'[t] = "testWriting"
        /\ th[t].canWrite /\ ~th'[t].canWrite /\ th'[u].stopWriting = th[u].stopWriting
        /\ u # t => th'[u].canWrite = th[u].canWrite
    BY <1>1, <1>4 DEF WaitWrite, Step, CMtThread
  <2> QED
    BY <1>3, <1>4, <2>1 DEF MayWrite, HasWrite
<1>5. CASE SetNextWrite(t) \/ WakeNextWriter(t)
  <2>1. /\ Working(t) /\ pc'[t] \in {"canRead", "finish"}
        /\ SetNextWrite(t) \/ pc[t] = "errorSetWrite"
    BY <1>1, <1>5 DEF SetNextWrite, WakeNextWriter, Step, Working
  <2>2. /\ u # n => th'[u].canWrite = th[u].canWrite
        /\ th'[u].stopWriting = th[u].stopWriting
    BY <1>1, <1>2, <1>5, <2>1 DEF SetNextWrite, WakeNextWriter, CMtThread
  <2>3. SetNextWrite(t) \/ th[n].stopWriting
    BY <1>1, <1>2, <2>1 DEF StopFlags
  <2> QED
    BY <1>3, <2>1, <2>2, <2>3 DEF MayWrite, HasWrite
<1>6. CASE ~WaitWrite(t) /\ ~SetNextWrite(t) /\ ~WakeNextWriter(t)
  <2>1. /\ pc'[t] # "testWriting"
        /\ pc'[t] = "write" => pc[t] = "testWriting" /\ ~th[t].stopWriting
    BY <1>1, <1>6 DEF ThreadStep, Step, WaitStart, WaitRead, GoesOnReading, StopsReading, ReadBlock,
       SetNextRead, CodeSucceeds, Fails, ProgressBreaks, TestWriting, WriteBlock,
       SetError, SetProgressError, StopNextReading, StopNextWriting, Finish
  <2>2. th'[u].canWrite = th[u].canWrite
    <3> USE <1>1 DEF CMtThread
    <3>1. CASE WaitStart(t) \/ WaitRead(t) \/ Finish(t)
      BY <3>1 DEF WaitStart, WaitRead, Finish
    <3>2. CASE GoesOnReading(t) \/ CodeSucceeds(t) \/ WriteBlock(t) \/ SetError(t)
      BY <3>2 DEF GoesOnReading, CodeSucceeds, WriteBlock, SetError
    <3>3. CASE StopsReading(t) \/ StopNextReading(t) \/ StopNextWriting(t)
      BY <3>3 DEF StopsReading, StopNextReading, StopNextWriting
    <3>4. CASE SetNextRead(t) \/ ReadBlock(t) \/ SetProgressError(t)
      BY <3>4 DEF SetNextRead, ReadBlock, SetProgressError
    <3>5. CASE Fails(t) \/ ProgressBreaks(t) \/ TestWriting(t)
      BY <3>5 DEF Fails, ProgressBreaks, TestWriting
    <3> QED
      BY <1>6, <3>1, <3>2, <3>3, <3>4, <3>5 DEF ThreadStep
  <2> QED
    BY <1>3, <2>1, <2>2 DEF MayWrite, HasWrite
<1> QED
  BY <1>4, <1>5, <1>6

\* The four steps that move a block.
LEMMA MovedBlock ==
  ASSUME MtInv, NEW t \in Thread, ThreadStep(t)
  PROVE  /\ ReadBlock(t) =>
              /\ pc[t] = "read" /\ pc'[t] = "setRead" /\ HasRead(t)
              /\ read' = read + 1 /\ written' = written /\ read < call.blocks
              /\ th[t].block = 0 /\ th'[t].block = read + 1
         /\ WriteBlock(t) =>
              /\ pc[t] = "write" /\ pc'[t] = "setWrite" /\ HasWrite(t)
              /\ read' = read /\ written' = th[t].block /\ th'[t].block = th[t].block
         /\ SetNextWrite(t) =>
              /\ pc[t] = "setWrite" /\ HasWrite(t)
              /\ pc'[t] = IF th[t].block >= call.blocks THEN "finish" ELSE "canRead"
              /\ read' = read /\ written' = written /\ th'[t].block = 0
         /\ SetProgressError(t) =>
              /\ pc[t] = "errorProgress" /\ pc'[t] = "errorReading"
              /\ res # "OK" /\ res' # "OK"
              /\ read' = read /\ written' = written /\ th'[t].block = 0
<1>1. /\ TypeOK /\ Phase /\ ReadTurn /\ BlocksAreRead /\ Errors
      /\ pc \in [Thread -> Place] /\ th \in [Thread -> CMtThread]
  BY DEF MtInv, TypeOK
<1>2. Working(t) => NextThread(t) \in Thread /\ NextThread(t) # t
  BY <1>1, Ring, Work
<1>3. ASSUME ReadBlock(t)
      PROVE  /\ pc[t] = "read" /\ pc'[t] = "setRead" /\ HasRead(t)
             /\ read' = read + 1 /\ written' = written /\ read < call.blocks
             /\ th[t].block = 0 /\ th'[t].block = read + 1
  <2>1. pc[t] = "read" /\ pc'[t] = "setRead" /\ read' = read + 1 /\ written' = written /\ Working(t)
    BY <1>1, <1>3 DEF ReadBlock, Step, Working
  <2>2. HasRead(t) /\ th[t].block = 0
    BY <1>1, <2>1 DEF HasRead, BlocksAreRead
  <2>3. th'[t].block = read + 1
    BY <1>1, <1>2, <1>3, <2>1 DEF ReadBlock, CMtThread
  <2> QED
    BY <1>1, <2>1, <2>2, <2>3 DEF ReadTurn
<1>4. ASSUME WriteBlock(t)
      PROVE  /\ pc[t] = "write" /\ pc'[t] = "setWrite" /\ HasWrite(t)
             /\ read' = read /\ written' = th[t].block /\ th'[t].block = th[t].block
  BY <1>1, <1>4 DEF WriteBlock, Step, HasWrite
<1>5. ASSUME SetNextWrite(t)
      PROVE  /\ pc[t] = "setWrite" /\ HasWrite(t)
             /\ pc'[t] = IF th[t].block >= call.blocks THEN "finish" ELSE "canRead"
             /\ read' = read /\ written' = written /\ th'[t].block = 0
  BY <1>1, <1>2, <1>5 DEF SetNextWrite, Step, HasWrite, streamVars, CMtThread
<1>6. ASSUME SetProgressError(t)
      PROVE  /\ pc[t] = "errorProgress" /\ pc'[t] = "errorReading"
             /\ res # "OK" /\ res' # "OK"
             /\ read' = read /\ written' = written /\ th'[t].block = 0
  BY <1>1, <1>6 DEF SetProgressError, Step, streamVars, CMtThread, Errors
<1> QED
  BY <1>3, <1>4, <1>5, <1>6

\* The numbers, and where a thread at work is.
LEMMA Numbers ==
  ASSUME MtInv
  PROVE  /\ read \in Nat /\ written \in Nat /\ call.blocks \in Nat /\ read <= call.blocks
         /\ \A t \in Thread : th[t].block \in Nat /\ th[t].block <= read
         /\ \A t \in Thread : Over(t) => th[t].block = 0
         /\ \A t \in Thread : Working(t) => /\ Used(t) /\ NextThread(t) \in Thread
                                            /\ NextThread(t) # t /\ Used(NextThread(t))
                                            /\ pc[t] # "canRead" => main = "wait"
<1>1. TypeOK /\ Phase /\ BlocksAreRead /\ th \in [Thread -> CMtThread]
  BY DEF MtInv, TypeOK
<1>2. read \in Nat /\ written \in Nat /\ call.blocks \in Nat /\ read <= call.blocks
  BY <1>1, MtCoderAssumption DEF TypeOK
<1>3. \A t \in Thread : th[t].block \in Nat /\ th[t].block <= read
  BY <1>1, MtCoderAssumption DEF BlocksAreRead, CMtThread
<1>4. \A t \in Thread : Over(t) => th[t].block = 0
  BY <1>1 DEF BlocksAreRead, Over
<1> QED
  BY <1>1, <1>2, <1>3, <1>4, Ring, Work

-----------------------------------------------------------------------------
(* A step of a thread keeps the order.                                      *)

LEMMA ThreadOrder ==
  ASSUME MtInv, Blocks, WritesNext, NEW t \in Thread, ThreadStep(t)
  PROVE  Blocks'
<1>1. /\ read \in Nat /\ written \in Nat
      /\ \A u \in Thread : th[u].block \in Nat /\ th[u].block <= read
  BY Numbers
<1>2. ASSUME NEW u \in Thread, u # t
      PROVE  pc'[u] = pc[u] /\ th'[u].block = th[u].block
  BY <1>2, OthersStay
<1>3. ReadTurn /\ WriteTurn /\ StopFlags /\ TypeOK /\ Phase
  BY DEF MtInv
<1>4. CASE ReadBlock(t)
  <2>1. /\ pc[t] = "read" /\ pc'[t] = "setRead" /\ HasRead(t)
        /\ read' = read + 1 /\ written' = written /\ read < call.blocks
        /\ th[t].block = 0 /\ th'[t].block = read + 1
    BY <1>4, MovedBlock
  <2>2. ASSUME NEW u \in Thread, u # t PROVE pc[u] # "setRead"
    <3> SUFFICES ASSUME pc[u] = "setRead" PROVE FALSE
      OBVIOUS
    <3>1. Used(u) /\ main = "wait"
      BY Numbers DEF Working
    <3>2. ~HasRead(u)
      BY <1>3, <2>1, <2>2 DEF ReadTurn
    <3>3. th[NextThread(u)].stopReading
      BY <3>2 DEF HasRead
    <3> QED
      BY <1>1, <1>3, <2>1, <3>1, <3>3, Numbers DEF StopFlags, Ending
  <2>3. written' <= read /\ written' <= read'
    BY <1>1, <2>1 DEF Blocks
  <2>4. ASSUME NEW u \in Thread
        PROVE  /\ th'[u].block # 0 => IF pc'[u] = "setWrite" THEN th'[u].block = written'
                                                             ELSE written' < th'[u].block
               /\ pc'[u] \in Holding => th'[u].block # 0
               /\ pc'[u] = "setRead" => th'[u].block = read'
    <3>1. CASE u = t
      BY <1>1, <2>1, <2>3, <3>1
    <3>2. CASE u # t
      BY <1>2, <2>1, <2>2, <3>2 DEF Blocks
    <3> QED
      BY <3>1, <3>2
  <2>5. ASSUME NEW u \in Thread, NEW v \in Thread, th'[u].block # 0, th'[u].block = th'[v].block
        PROVE  u = v
    <3>1. \A w \in Thread : w # t => th[w].block # read + 1
      BY <1>1
    <3>2. CASE u = t \/ v = t
      BY <1>2, <2>1, <2>5, <3>1, <3>2
    <3>3. CASE u # t /\ v # t
      BY <1>2, <2>5, <3>3 DEF Blocks
    <3> QED
      BY <3>2, <3>3
  <2> QED
    BY <2>3, <2>4, <2>5 DEF Blocks
<1>5. CASE WriteBlock(t)
  <2>1. /\ pc[t] = "write" /\ pc'[t] = "setWrite" /\ HasWrite(t)
        /\ read' = read /\ written' = th[t].block /\ th'[t].block = th[t].block
    BY <1>5, MovedBlock
  <2>2. th[t].block = written + 1
    BY <2>1 DEF WritesNext
  <2>3. ASSUME NEW u \in Thread, u # t
        PROVE  pc[u] # "setWrite" /\ (th[u].block # 0 => written + 1 < th[u].block)
    <3>1. pc[u] # "setWrite"
      BY <1>3, <2>1, <2>3 DEF WriteTurn, HasWrite
    <3>2. th[u].block # written + 1
      BY <1>1, <2>2, <2>3 DEF Blocks
    <3> QED
      BY <1>1, <3>1, <3>2 DEF Blocks
  <2>4. ASSUME NEW u \in Thread
        PROVE  /\ th'[u].block # 0 => IF pc'[u] = "setWrite" THEN th'[u].block = written'
                                                             ELSE written' < th'[u].block
               /\ pc'[u] \in Holding => th'[u].block # 0
               /\ pc'[u] = "setRead" => th'[u].block = read'
    <3>1. CASE u = t
      BY <1>1, <2>1, <2>2, <3>1
    <3>2. CASE u # t
      BY <1>2, <2>1, <2>2, <2>3, <3>2 DEF Blocks
    <3> QED
      BY <3>1, <3>2
  <2>5. \A u \in Thread : th'[u].block = th[u].block
    BY <1>2, <2>1
  <2> QED
    BY <1>1, <2>1, <2>4, <2>5 DEF Blocks
<1>6. CASE SetNextWrite(t) \/ SetProgressError(t)
  <2>1. /\ read' = read /\ written' = written /\ th'[t].block = 0
        /\ pc'[t] \notin Holding
    BY <1>6, MovedBlock DEF Holding
  <2>2. ASSUME NEW u \in Thread
        PROVE  /\ th'[u].block # 0 => IF pc'[u] = "setWrite" THEN th'[u].block = written'
                                                             ELSE written' < th'[u].block
               /\ pc'[u] \in Holding => th'[u].block # 0
               /\ pc'[u] = "setRead" => th'[u].block = read'
    <3>1. CASE u = t
      BY <2>1, <3>1 DEF Holding
    <3>2. CASE u # t
      BY <1>2, <2>1, <3>2 DEF Blocks
    <3> QED
      BY <3>1, <3>2
  <2>3. ASSUME NEW u \in Thread, NEW v \in Thread, th'[u].block # 0, th'[u].block = th'[v].block
        PROVE  u = v
    BY <1>2, <2>1, <2>3 DEF Blocks
  <2> QED
    BY <2>1, <2>2, <2>3 DEF Blocks
<1>7. CASE ~ReadBlock(t) /\ ~WriteBlock(t) /\ ~SetNextWrite(t) /\ ~SetProgressError(t)
  <2>1. /\ read' = read /\ written' = written /\ \A u \in Thread : th'[u].block = th[u].block
        /\ pc[t] # "setWrite" /\ pc'[t] \notin {"setWrite", "setRead"}
        /\ pc'[t] \in Holding => pc[t] \in Holding
    BY <1>7, OtherSteps DEF BlocksStay
  <2>2. ASSUME NEW u \in Thread
        PROVE  /\ pc'[u] = "setWrite" <=> pc[u] = "setWrite"
               /\ pc'[u] = "setRead" => pc[u] = "setRead"
               /\ pc'[u] \in Holding => pc[u] \in Holding
    BY <1>2, <2>1
  <2> QED
    BY <2>1, <2>2 DEF Blocks
<1> QED
  BY <1>4, <1>5, <1>6, <1>7

LEMMA ThreadChain ==
  ASSUME MtInv, Blocks, Chain, ReadsNext, NEW t \in Thread, ThreadStep(t)
  PROVE  Chain'
<1>1. /\ read \in Nat /\ written \in Nat
      /\ \A u \in Thread : th[u].block \in Nat /\ th[u].block <= read
  BY Numbers
<1>2. TypeOK
  BY DEF MtInv
<1> SUFFICES ASSUME NEW v \in Thread, Used(v)', th'[v].block # 0,
                    NEW w, w = NextThread(v)'
             PROVE  Follows(v, w)'
  BY DEF Chain, Follows, Over
<1>3. w \in Thread /\ w = NextThread(v) /\ w # v /\ Used(v)
  BY <1>2, Ring, OthersStay
<1>4. th[v].block # 0 => Follows(v, w)
  BY <1>3 DEF Chain, Follows, Over
<1>5. /\ \A u \in Thread : u # t => pc'[u] = pc[u] /\ th'[u].block = th[u].block /\ (Over(u)' <=> Over(u))
      /\ res # "OK" => res' # "OK"
  BY OthersStay
<1>6. CASE ReadBlock(t)
  <2>1. /\ pc[t] = "read" /\ HasRead(t) /\ read' = read + 1
        /\ th[t].block = 0 /\ th'[t].block = read + 1
    BY <1>6, MovedBlock
  <2>2. Reads(t) /\ ~Over(t)
    BY <2>1 DEF Reads, Over
  <2>3. CASE v = t
    <3>1. th'[w].block < th'[v].block /\ read' = th'[v].block
      BY <1>1, <1>3, <1>5, <2>1, <2>3
    <3> QED
      BY <1>3, <3>1 DEF Follows
  <2>4. CASE v # t /\ w = t
    <3>1. th[v].block # 0 /\ th'[v].block = th[v].block
      BY <1>5, <2>4
    <3>2. read = th[v].block
      BY <1>1, <1>4, <2>1, <2>2, <2>4, <3>1 DEF Follows
    <3> QED
      BY <1>3, <2>1, <2>4, <3>1, <3>2 DEF Follows
  <2>5. CASE v # t /\ w # t
    <3>1. th[v].block # 0 /\ th'[v].block = th[v].block /\ th'[w].block = th[w].block
      BY <1>3, <1>5, <2>5
    <3>2. read # th[v].block
      BY <1>1, <1>3, <2>2, <2>5, <3>1 DEF ReadsNext
    <3> QED
      BY <1>3, <1>4, <1>5, <2>5, <3>1, <3>2 DEF Follows
  <2> QED
    BY <2>3, <2>4, <2>5
<1>7. CASE WriteBlock(t)
  <2>1. /\ pc[t] = "write" /\ read' = read /\ \A u \in Thread : th'[u].block = th[u].block
    BY <1>5, <1>7, MovedBlock
  <2>2. Over(w) => Over(w)'
    BY <1>3, <1>5, <2>1 DEF Over
  <2> QED
    BY <1>3, <1>4, <1>5, <2>1, <2>2 DEF Follows
<1>8. CASE SetNextWrite(t)
  <2>1. pc[t] = "setWrite" /\ HasWrite(t) /\ read' = read /\ th'[t].block = 0
    BY <1>8, MovedBlock
  <2>2. v # t /\ th[v].block # 0 /\ th'[v].block = th[v].block
    BY <1>5, <2>1
  <2>3. CASE w = t
    <3>1. th[t].block # th[v].block + 1
      <4>1. th[t].block = written
        BY <2>1 DEF Blocks, Holding
      <4>2. written <= th[v].block
        BY <1>1, <2>2 DEF Blocks
      <4> QED
        BY <1>1, <4>1, <4>2
    <3>2. read = th[v].block
      BY <1>4, <2>1, <2>2, <2>3, <3>1 DEF Follows, Over
    <3> QED
      BY <1>1, <1>3, <2>1, <2>2, <2>3, <3>2 DEF Follows
  <2>4. CASE w # t
    BY <1>3, <1>4, <1>5, <2>1, <2>2, <2>4 DEF Follows
  <2> QED
    BY <2>3, <2>4
<1>9. CASE SetProgressError(t)
  <2>1. pc'[t] = "errorReading" /\ res' # "OK" /\ read' = read /\ th'[t].block = 0
    BY <1>9, MovedBlock
  <2>2. v # t /\ th[v].block # 0 /\ th'[v].block = th[v].block
    BY <1>5, <2>1
  <2>3. CASE w = t
    BY <1>3, <2>1, <2>3 DEF Follows, Over
  <2>4. CASE w # t
    BY <1>3, <1>4, <1>5, <2>1, <2>2, <2>4 DEF Follows
  <2> QED
    BY <2>3, <2>4
<1>10. CASE ~ReadBlock(t) /\ ~WriteBlock(t) /\ ~SetNextWrite(t) /\ ~SetProgressError(t)
  <2>1. /\ read' = read /\ \A u \in Thread : th'[u].block = th[u].block
        /\ \A u \in Thread : Over(u) => Over(u)'
    BY <1>10, OtherSteps DEF BlocksStay
  <2> QED
    BY <1>3, <1>4, <1>5, <2>1 DEF Follows
<1> QED
  BY <1>6, <1>7, <1>8, <1>9, <1>10

LEMMA ThreadReadsNext ==
  ASSUME MtInv, Blocks, ReadsNext, NEW t \in Thread, ThreadStep(t)
  PROVE  ReadsNext'
<1> SUFFICES ASSUME NEW v \in Thread, NEW u \in Thread, Used(v)', Reads(u)',
                    th'[v].block = read', read' # 0
             PROVE  NextThread(v)' = u
  BY DEF ReadsNext
<1>1. NextThread(v)' = NextThread(v) /\ Used(v) /\ (v # t => th'[v].block = th[v].block)
  BY OthersStay
<1>2. \/ Reads(u) /\ ~ReadBlock(t)
      \/ SetNextRead(t) /\ pc[t] = "setRead" /\ u = NextThread(t)
  BY ReadsMove
<1>3. ~ReadBlock(t)
  BY <1>2 DEF SetNextRead, ReadBlock, Step
<1>4. read' = read /\ th'[v].block = th[v].block
  <2>1. CASE WriteBlock(t) \/ SetNextWrite(t) \/ SetProgressError(t)
    BY <1>1, <2>1, MovedBlock
  <2>2. CASE ~WriteBlock(t) /\ ~SetNextWrite(t) /\ ~SetProgressError(t)
    BY <1>3, <2>2, OtherSteps DEF BlocksStay
  <2> QED
    BY <2>1, <2>2
<1>5. CASE Reads(u)
  BY <1>1, <1>4, <1>5 DEF ReadsNext
<1>6. CASE SetNextRead(t) /\ pc[t] = "setRead" /\ u = NextThread(t)
  <2>1. th[t].block = read
    BY <1>6 DEF Blocks
  <2>2. v = t
    BY <1>4, <2>1 DEF Blocks
  <2> QED
    BY <1>1, <1>6, <2>2
<1> QED
  BY <1>2, <1>5, <1>6

\* A step of a thread that has written, or is about to, finds nobody with the turn.
LEMMA WriterIsAlone ==
  ASSUME WriteTurn, NEW t \in Thread, HasWrite(t)
  PROVE  \A u \in Thread : ~MayWrite(u) /\ (HasWrite(u) => u = t)
BY DEF WriteTurn

LEMMA ThreadWritesNext ==
  ASSUME MtInv, Blocks, Chain, ReadsNext, WritesNext, NEW t \in Thread, ThreadStep(t)
  PROVE  WritesNext'
<1> DEFINE n == NextThread(t)
<1>1. /\ read \in Nat /\ written \in Nat
      /\ \A u \in Thread : th[u].block \in Nat /\ th[u].block <= read
      /\ \A u \in Thread : Over(u) => th[u].block = 0
      /\ WriteTurn
  BY Numbers DEF MtInv
<1>2. /\ \A u \in Thread : u # t => pc'[u] = pc[u] /\ th'[u].block = th[u].block /\ (Over(u)' <=> Over(u))
      /\ res # "OK" => res' # "OK"
  BY OthersStay
<1>3. SetNextWrite(t) =>
        /\ Used(t) /\ n \in Thread /\ n # t /\ th[t].block = written /\ th[t].block # 0
        /\ HasWrite(t)
  BY MovedBlock, Numbers DEF Working, Blocks, Holding
<1>4. SetNextWrite(t) => \/ th[n].block = written + 1
                         \/ th[n].block = 0 /\ Over(n) /\ res # "OK"
                         \/ th[n].block = 0 /\ read = written
  <2> SUFFICES ASSUME SetNextWrite(t)
               PROVE  \/ th[n].block = written + 1
                      \/ th[n].block = 0 /\ Over(n) /\ res # "OK"
                      \/ th[n].block = 0 /\ read = written
    OBVIOUS
  <2>1. Follows(t, n)
    BY <1>3 DEF Chain
  <2>2. CASE th[n].block < th[t].block /\ read = th[t].block
    <3>1. pc[n] # "setWrite"
      BY <1>1, <1>3, WriterIsAlone DEF HasWrite
    <3>2. th[n].block = 0
      BY <1>1, <1>3, <2>2, <3>1 DEF Blocks
    <3> QED
      BY <1>3, <2>2, <3>2
  <2> QED
    BY <1>1, <1>3, <2>1, <2>2 DEF Follows
<1>5. ASSUME NEW u \in Thread, MayWrite(u)'
      PROVE  \/ th'[u].block = written' + 1
             \/ th'[u].block = 0 /\ read' = written'
             \/ th'[u].block = 0 /\ Over(u)' /\ res' # "OK"
  <2>1. MayWrite(u) \/ (SetNextWrite(t) /\ u = n)
    BY <1>5, WritesMove
  <2>2. CASE SetNextWrite(t) /\ u = n
    <3>1. u # t /\ read' = read /\ written' = written /\ th'[u].block = th[u].block
      BY <1>2, <1>3, <2>2, MovedBlock
    <3> QED
      BY <1>2, <1>4, <2>2, <3>1
  <2>3. CASE MayWrite(u)
    <3>1. ~WriteBlock(t) /\ ~SetNextWrite(t)
      BY <1>1, <2>3, MovedBlock, WriterIsAlone
    <3>2. \/ th[u].block = written + 1
          \/ th[u].block = 0 /\ read = written
          \/ th[u].block = 0 /\ Over(u) /\ res # "OK"
      BY <2>3 DEF WritesNext
    <3>3. CASE ReadBlock(t)
      <4>1. /\ read' = read + 1 /\ written' = written /\ th[t].block = 0 /\ th'[t].block = read + 1
            /\ pc[t] = "read" /\ HasRead(t)
        BY <3>3, MovedBlock
      <4>2. Reads(t) /\ ~Over(t)
        BY <4>1 DEF Reads, Over
      <4>3. CASE u = t
        BY <1>1, <3>2, <4>1, <4>2, <4>3
      <4>4. CASE u # t
        <5>1. ~(th[u].block = 0 /\ read = written)
          BY <2>3, <4>2, <4>4 DEF WritesNext
        <5> QED
          BY <1>2, <3>2, <4>1, <4>4, <5>1
      <4> QED
        BY <4>3, <4>4
    <3>4. CASE SetProgressError(t)
      <4>1. /\ read' = read /\ written' = written /\ th'[t].block = 0
            /\ pc'[t] = "errorReading" /\ res' # "OK"
        BY <3>4, MovedBlock
      <4>2. Over(t)'
        BY <4>1 DEF Over
      <4> QED
        BY <1>2, <3>2, <4>1, <4>2
    <3>5. CASE ~ReadBlock(t) /\ ~SetProgressError(t)
      BY <1>2, <3>1, <3>2, <3>5, OtherSteps DEF BlocksStay
    <3> QED
      BY <3>3, <3>4, <3>5
  <2> QED
    BY <2>1, <2>2, <2>3
<1>6. ASSUME NEW u \in Thread, HasWrite(u)', pc'[u] # "setWrite"
      PROVE  th'[u].block = written' + 1
  <2>1. \/ HasWrite(u) /\ pc[u] # "setWrite"
        \/ u = t /\ WaitWrite(t) /\ MayWrite(t)
    BY <1>6, WritesMove
  <2>2. th[u].block = written + 1
    <3>1. CASE HasWrite(u) /\ pc[u] # "setWrite"
      BY <3>1 DEF WritesNext
    <3>2. CASE u = t /\ WaitWrite(t) /\ MayWrite(t)
      <4>1. pc[t] = "canWrite"
        BY <3>2 DEF WaitWrite, Step
      <4>2. th[t].block # 0 /\ ~Over(t)
        BY <4>1 DEF Blocks, Holding, Over
      <4> QED
        BY <3>2, <4>2 DEF WritesNext
    <3> QED
      BY <2>1, <3>1, <3>2
  <2>3. ~WriteBlock(t) /\ ~SetNextWrite(t)
    <3>1. u = t => pc[t] \in {"testWriting", "write", "canWrite"}
      BY <2>1 DEF HasWrite, WaitWrite, Step
    <3>2. ~SetNextWrite(t)
      BY <1>1, <1>3, <2>1, <3>1, MovedBlock, WriterIsAlone
    <3>3. ~WriteBlock(t)
      BY <1>1, <1>6, <2>1, MovedBlock, WriterIsAlone
    <3> QED
      BY <3>2, <3>3
  <2>4. CASE ReadBlock(t) \/ SetProgressError(t)
    <3>1. pc[t] \in {"read", "errorProgress"} /\ written' = written
      BY <2>4, MovedBlock
    <3>2. u # t
      BY <2>1, <3>1 DEF HasWrite, WaitWrite, Step
    <3> QED
      BY <1>2, <2>2, <3>1, <3>2
  <2>5. CASE ~ReadBlock(t) /\ ~SetProgressError(t)
    BY <2>2, <2>3, <2>5, OtherSteps DEF BlocksStay
  <2> QED
    BY <2>4, <2>5
<1>7. ASSUME NEW u \in Thread, NEW r \in Thread,
             MayWrite(u)', th'[u].block = 0, read' = written', Reads(r)'
      PROVE  u = r
  <2>0. read' = written'
    BY <1>7, Zenon
  <2>1. \/ Reads(r) /\ ~ReadBlock(t)
        \/ SetNextRead(t) /\ pc[t] = "setRead"
    BY <1>7, ReadsMove
  <2>2. CASE SetNextRead(t) /\ pc[t] = "setRead"
    <3>1. ~ReadBlock(t) /\ ~WriteBlock(t) /\ ~SetNextWrite(t) /\ ~SetProgressError(t)
      BY <2>2 DEF ReadBlock, WriteBlock, SetNextWrite, SetProgressError, Step
    <3>2. read' = read /\ written' = written
      BY <3>1, OtherSteps DEF BlocksStay
    <3>3. written < read
      BY <2>2 DEF Blocks, Holding
    <3>4. read = written
      BY <2>0, <3>2
    <3> QED
      BY <3>3, <3>4, Numbers
  <2>3. CASE Reads(r) /\ ~ReadBlock(t)
    <3>1. MayWrite(u) \/ (SetNextWrite(t) /\ u = n)
      BY <1>7, WritesMove
    <3>2. CASE SetNextWrite(t) /\ u = n
      <4>1. read' = read /\ written' = written
        BY <3>2, MovedBlock
      <4>2. th[t].block = read /\ read # 0 /\ Used(t)
        BY <1>3, <1>7, <3>2, <4>1
      <4> QED
        BY <2>3, <3>2, <4>2 DEF ReadsNext
    <3>3. CASE MayWrite(u)
      <4>1. ~WriteBlock(t) /\ ~SetNextWrite(t)
        BY <1>1, <3>3, MovedBlock, WriterIsAlone
      <4>2. read' = read /\ written' = written
        <5>1. CASE SetProgressError(t)
          BY <5>1, MovedBlock
        <5>2. CASE ~SetProgressError(t)
          BY <2>3, <4>1, <5>2, OtherSteps DEF BlocksStay
        <5> QED
          BY <5>1, <5>2
      <4>3. th[u].block = 0
        <5>1. CASE SetProgressError(t) /\ u = t
          <6>1. th[t].block # written + 1
            <7>1. read = written
              BY <2>0, <4>2
            <7> QED
              BY <7>1, Numbers
          <6> QED
            BY <3>3, <5>1, <6>1 DEF WritesNext
        <5>2. CASE ~(SetProgressError(t) /\ u = t)
          <6>1. CASE u # t
            BY <1>2, <1>7, <6>1
          <6>2. CASE ~SetProgressError(t)
            BY <1>7, <2>3, <4>1, <6>2, OtherSteps DEF BlocksStay
          <6> QED
            BY <5>2, <6>1, <6>2
        <5> QED
          BY <5>1, <5>2
      <4> QED
        BY <1>7, <2>3, <3>3, <4>2, <4>3 DEF WritesNext
    <3> QED
      BY <3>1, <3>2, <3>3
  <2> QED
    BY <2>1, <2>2, <2>3
<1> QED
  BY <1>5, <1>6, <1>7 DEF WritesNext

\* Who sets a flag, and who takes a turn to write.
LEMMA FlagsMove ==
  ASSUME MtInv, NEW t \in Thread, ThreadStep(t), NEW u \in Thread
  PROVE  /\ th'[u].stopReading => \/ th[u].stopReading
                                  \/ StopsReading(t) /\ th[t].stopReading
                                  \/ StopNextReading(t)
                                  \/ ReadBlock(t) /\ read + 1 >= call.blocks
         /\ th'[u].stopWriting => th[u].stopWriting \/ StopNextWriting(t)
         /\ th[u].canWrite => th'[u].canWrite \/ (WaitWrite(t) /\ u = t)
<1>1. th \in [Thread -> CMtThread] /\ (Working(t) => NextThread(t) # t)
  BY Numbers DEF MtInv, TypeOK
<1> USE <1>1 DEF CMtThread
<1>2. CASE WaitStart(t) \/ WaitRead(t) \/ WaitWrite(t) \/ Finish(t)
  BY <1>2 DEF WaitStart, WaitRead, WaitWrite, Finish
<1>3. CASE GoesOnReading(t) \/ CodeSucceeds(t) \/ WriteBlock(t) \/ SetError(t)
  BY <1>3 DEF GoesOnReading, CodeSucceeds, WriteBlock, SetError
<1>4. CASE StopsReading(t) \/ StopNextReading(t) \/ StopNextWriting(t)
  BY <1>4 DEF StopsReading, StopNextReading, StopNextWriting
<1>5. CASE SetNextRead(t) \/ WakeNextWriter(t)
  BY <1>5 DEF SetNextRead, WakeNextWriter
<1>6. CASE ReadBlock(t)
  <2> DEFINE last == read + 1 >= call.blocks
  <2>1. th' = [th EXCEPT ![t].block = read + 1, ![NextThread(t)].stopReading = last]
    BY <1>6, Zenon DEF ReadBlock
  <2>2. last \in BOOLEAN
    OBVIOUS
  <2>3. th'[u].stopReading => th[u].stopReading \/ last
    <3> HIDE DEF last
    <3> QED
      BY <2>1, <2>2
  <2>4. th'[u].stopWriting = th[u].stopWriting /\ th'[u].canWrite = th[u].canWrite
    <3> HIDE DEF last
    <3> QED
      BY <2>1, <2>2
  <2> QED
    BY <1>6, <2>3, <2>4
<1>7. CASE Fails(t) \/ ProgressBreaks(t) \/ TestWriting(t)
  BY <1>7 DEF Fails, ProgressBreaks, TestWriting
<1>8. CASE SetNextWrite(t) \/ SetProgressError(t)
  BY <1>8 DEF SetNextWrite, SetProgressError
<1> QED
  BY <1>2, <1>3, <1>4, <1>5, <1>6, <1>7, <1>8 DEF ThreadStep

LEMMA ThreadCauses ==
  ASSUME MtInv, Causes, NEW t \in Thread, ThreadStep(t)
  PROVE  Causes'
<1>1. /\ TypeOK /\ Phase /\ ReadTurn /\ Errors
      /\ pc \in [Thread -> Place] /\ th \in [Thread -> CMtThread]
  BY DEF MtInv, TypeOK
<1>2. /\ main' = main /\ call' = call /\ (res # "OK" => res' # "OK")
      /\ \A u : Used(u)' <=> Used(u)
      /\ \A u \in Thread : u # t => pc'[u] = pc[u] /\ th'[u].err = th[u].err /\ (Over(u)' <=> Over(u))
  BY OthersStay, ThreadFrame
<1> SUFFICES ASSUME main = "wait", NEW u \in Thread, Used(u)
             PROVE  /\ pc'[u] \in {"errorReading", "errorWriting"} => res' # "OK"
                    /\ pc'[u] = "error" /\ th'[u].err = "FAIL" => res' # "OK"
                    /\ th'[u].stopWriting => res' # "OK"
                    /\ th'[u].stopReading => res' # "OK" \/ read' = call'.blocks
                    /\ Over(u)' => res' # "OK" \/ read' = call'.blocks
  BY <1>2 DEF Causes
<1>3. /\ read \in Nat /\ call.blocks \in Nat /\ read <= call.blocks
      /\ Working(t) => Used(t)
  BY Numbers
<1>4. pc[t] \in {"errorReading", "errorWriting"} => res # "OK"
  BY <1>3 DEF Causes, Working
<1>5. ReadBlock(t) => read < call.blocks /\ read' = read + 1
  BY MovedBlock
<1>6. ~ReadBlock(t) => read' = read
  <2>1. CASE WriteBlock(t) \/ SetNextWrite(t) \/ SetProgressError(t)
    BY <2>1, MovedBlock
  <2>2. CASE ~WriteBlock(t) /\ ~SetNextWrite(t) /\ ~SetProgressError(t)
    BY <2>2, OtherSteps DEF BlocksStay
  <2> QED
    BY <2>1, <2>2
<1>7. res # "OK" \/ read = call.blocks => res' # "OK" \/ read' = call'.blocks
  BY <1>2, <1>3, <1>5, <1>6
<1>8. pc'[u] \in {"errorReading", "errorWriting"} => res' # "OK"
  <2>1. CASE u # t
    BY <1>2, <2>1 DEF Causes
  <2>2. CASE SetProgressError(t)
    BY <1>2, <2>2, MovedBlock
  <2>3. CASE StopNextReading(t)
    BY <1>2, <1>4, <2>3 DEF StopNextReading, Step
  <2>4. CASE ~SetProgressError(t) /\ ~StopNextReading(t)
    <3>1. pc'[t] \notin {"errorReading", "errorWriting"}
      BY <1>1, <2>4 DEF ThreadStep, Step, WaitStart, WaitRead, GoesOnReading, StopsReading, ReadBlock,
       SetNextRead, CodeSucceeds, Fails, ProgressBreaks, WaitWrite, TestWriting, WriteBlock,
       SetNextWrite, SetError, StopNextWriting, WakeNextWriter, Finish
    <3> QED
      BY <2>1, <3>1
  <2> QED
    BY <2>1, <2>2, <2>3, <2>4
<1>9. pc'[u] = "error" /\ th'[u].err = "FAIL" => res' # "OK"
  <2>1. CASE u # t
    BY <1>2, <2>1 DEF Causes
  <2>2. CASE u = t /\ (Fails(t) \/ ProgressBreaks(t))
    <3>1. \E e \in Error : th' = [th EXCEPT ![t].err = e]
      BY <2>2 DEF Fails, ProgressBreaks, Error
    <3>2. th'[t].err \in Error
      BY <1>1, <3>1 DEF CMtThread
    <3>3. "FAIL" \notin Error
      BY MtCoderAssumption DEF Error
    <3> QED
      BY <2>2, <3>2, <3>3
  <2>3. CASE u = t /\ TestWriting(t)
    <3>1. pc'[t] = "error" => th[t].stopWriting
      BY <1>1, <2>3 DEF TestWriting, Step
    <3> QED
      BY <1>2, <2>3, <3>1 DEF Causes
  <2>4. CASE u = t /\ ~Fails(t) /\ ~ProgressBreaks(t) /\ ~TestWriting(t)
    <3>1. pc'[t] # "error"
      BY <1>1, <2>4 DEF ThreadStep, Step, WaitStart, WaitRead, GoesOnReading, StopsReading, ReadBlock,
       SetNextRead, CodeSucceeds, WaitWrite, WriteBlock, SetNextWrite, SetError,
       SetProgressError, StopNextReading, StopNextWriting, WakeNextWriter, Finish
    <3> QED
      BY <2>4, <3>1
  <2> QED
    BY <2>1, <2>2, <2>3, <2>4
<1>10. th'[u].stopWriting => res' # "OK"
  <2>1. th'[u].stopWriting => th[u].stopWriting \/ StopNextWriting(t)
    BY FlagsMove
  <2>2. StopNextWriting(t) => res # "OK"
    BY <1>4 DEF StopNextWriting, Step
  <2> QED
    BY <1>2, <2>1, <2>2 DEF Causes
<1>11. th'[u].stopReading => res' # "OK" \/ read' = call'.blocks
  <2>1. th'[u].stopReading => \/ th[u].stopReading
                              \/ StopsReading(t) /\ th[t].stopReading
                              \/ StopNextReading(t)
                              \/ ReadBlock(t) /\ read + 1 >= call.blocks
    BY FlagsMove
  <2>2. StopNextReading(t) => res # "OK"
    BY <1>4 DEF StopNextReading, Step
  <2>3. StopsReading(t) /\ th[t].stopReading => res # "OK" \/ read = call.blocks
    BY <1>3 DEF StopsReading, Step, Working, Causes
  <2>4. th[u].stopReading => res # "OK" \/ read = call.blocks
    BY DEF Causes
  <2>5. ReadBlock(t) /\ read + 1 >= call.blocks => read' = call'.blocks
    BY <1>2, <1>3, <1>5
  <2> QED
    BY <1>7, <2>1, <2>2, <2>3, <2>4, <2>5
<1>12. Over(u)' => res' # "OK" \/ read' = call'.blocks
  <2>1. Over(u) => res # "OK" \/ read = call.blocks
    BY DEF Causes
  <2>2. CASE u # t \/ Over(u)
    BY <1>2, <1>7, <2>1, <2>2
  <2>3. CASE u = t /\ ~Over(t)
    <3>1. CASE StopsReading(t)
      BY <1>7, <2>3, <3>1 DEF StopsReading, Causes
    <3>2. CASE SetProgressError(t)
      BY <3>2, MovedBlock
    <3>3. CASE SetNextWrite(t)
      <4>1. pc'[t] = IF th[t].block >= call.blocks THEN "finish" ELSE "canRead"
        BY <3>3, MovedBlock
      <4>2. th[t].block >= call.blocks => read = call.blocks
        BY <1>3, Numbers
      <4>3. pc'[t] = "canRead" => ~Over(t)'
        BY DEF Over
      <4> QED
        BY <1>7, <2>3, <4>1, <4>2, <4>3
    <3>4. CASE WaitStart(t)
      <4>1. pc[t] = "start" /\ ~th[t].stop
        BY <1>1, <3>4 DEF Phase, Ending, WaitStart, Step
      <4>2. pc'[t] = "canRead"
        BY <1>1, <3>4, <4>1 DEF WaitStart, Step
      <4> QED
        BY <2>3, <4>2 DEF Over
    <3>5. CASE ~StopsReading(t) /\ ~SetProgressError(t) /\ ~SetNextWrite(t) /\ ~WaitStart(t)
      <4>1. pc'[t] \notin {"passRead", "errorReading", "errorWriting", "errorSetRead", "errorSetWrite",
                "finish", "none", "exited", "start"}
        BY <1>1, <2>3, <3>5 DEF Over, ThreadStep, Step, WaitRead, GoesOnReading, ReadBlock,
       SetNextRead, CodeSucceeds, Fails, ProgressBreaks, WaitWrite, TestWriting, WriteBlock,
       SetError, StopNextReading, StopNextWriting, WakeNextWriter, Finish
      <4> QED
        BY <2>3, <4>1 DEF Over
    <3> QED
      BY <3>1, <3>2, <3>3, <3>4, <3>5
  <2> QED
    BY <2>2, <2>3
<1> QED
  BY <1>8, <1>9, <1>10, <1>11, <1>12

LEMMA ThreadResults ==
  ASSUME MtInv, Results, NEW t \in Thread, ThreadStep(t)
  PROVE  Results'
<1>1. main' = main /\ call' = call
  BY OthersStay
<1>2. main = "wait" \/ (res' = res /\ written' = written)
  <2>1. CASE SetError(t) \/ WriteBlock(t)
    BY <2>1, Numbers DEF SetError, WriteBlock, Step, Working
  <2>2. CASE ~SetError(t) /\ ~WriteBlock(t)
    <3>1. res' = res
      BY <2>2, OthersStay
    <3>2. CASE ReadBlock(t) \/ SetNextWrite(t) \/ SetProgressError(t)
      BY <3>1, <3>2, MovedBlock
    <3>3. CASE ~ReadBlock(t) /\ ~SetNextWrite(t) /\ ~SetProgressError(t)
      BY <2>2, <3>1, <3>3, OtherSteps DEF BlocksStay
    <3> QED
      BY <3>2, <3>3
  <2> QED
    BY <2>1, <2>2
<1> QED
  BY <1>1, <1>2 DEF Results

LEMMA ThreadGoesOn ==
  ASSUME MtInv, WritesNext, Causes, GoesOn, NEW t \in Thread, ThreadStep(t)
  PROVE  GoesOn'
<1> DEFINE n == NextThread(t)
<1>1. /\ TypeOK /\ Phase /\ ReadTurn /\ Errors
      /\ pc \in [Thread -> Place] /\ th \in [Thread -> CMtThread]
  BY DEF MtInv, TypeOK
<1>2. /\ main' = main /\ call' = call /\ (res # "OK" => res' # "OK")
      /\ \A u : Used(u)' <=> Used(u)
      /\ \A u \in Thread : u # t => pc'[u] = pc[u]
  BY OthersStay
<1>3. main = "setRead" => MayWrite(0)'
  <2> SUFFICES ASSUME main = "setRead" PROVE MayWrite(0)'
    OBVIOUS
  <2>1. 0 \in Thread /\ MayWrite(0)
    BY <1>1, FirstThread DEF GoesOn
  <2>2. ~Working(t) \/ pc[t] = "canRead"
    BY Numbers
  <2>3. ~th[t].canRead
    BY <1>1 DEF ReadTurn
  <2>4. ~StopNextWriting(t) /\ ~WaitWrite(t)
    BY <2>2 DEF StopNextWriting, WaitWrite, Step, Working
  <2> QED
    BY <2>1, <2>4, FlagsMove DEF MayWrite
<1> SUFFICES ASSUME main = "wait", written' < call.blocks, res' = "OK"
             PROVE  \E u \in Thread : Used(u) /\ (MayWrite(u)' \/ HasWrite(u)' \/ pc'[u] = "error")
  BY <1>2, <1>3 DEF GoesOn
<1>4. res = "OK"
  BY <1>2
<1>5. written <= written' /\ written < call.blocks
  <2>1. WriteBlock(t) => written' = written + 1
    BY MovedBlock DEF WritesNext
  <2>2. ~WriteBlock(t) => written' = written
    <3>1. CASE ReadBlock(t) \/ SetNextWrite(t) \/ SetProgressError(t)
      BY <3>1, MovedBlock
    <3>2. CASE ~ReadBlock(t) /\ ~SetNextWrite(t) /\ ~SetProgressError(t)
      BY <3>2, OtherSteps DEF BlocksStay
    <3> QED
      BY <3>1, <3>2
  <2> QED
    BY <2>1, <2>2, Numbers
<1>6. PICK u \in Thread : Used(u) /\ (MayWrite(u) \/ HasWrite(u) \/ pc[u] = "error")
  BY <1>4, <1>5 DEF GoesOn
<1>7. \A v \in Thread : Used(v) => ~th[v].stopWriting
  BY <1>4 DEF Causes
<1>8. \A v \in Thread : Used(v) => ~th'[v].stopWriting
  <2>1. Working(t) => Used(t)
    BY Numbers
  <2>2. ~StopNextWriting(t)
    BY <1>4, <2>1 DEF StopNextWriting, Step, Working, Causes
  <2> QED
    BY <1>7, <2>2, FlagsMove
<1>9. CASE MayWrite(u)
  <2>1. th'[u].canWrite \/ (WaitWrite(t) /\ u = t)
    BY <1>9, FlagsMove DEF MayWrite
  <2>2. WaitWrite(t) => pc'[t] = "testWriting"
    BY <1>1 DEF WaitWrite, Step
  <2> QED
    BY <1>6, <1>8, <2>1, <2>2 DEF MayWrite, HasWrite
<1>10. CASE HasWrite(u) \/ pc[u] = "error"
  <2>1. CASE u # t
    BY <1>2, <1>6, <1>8, <1>10, <2>1 DEF HasWrite
  <2>2. CASE u = t /\ SetNextWrite(t)
    <3>1. n \in Thread /\ n # t /\ Used(n)
      BY <2>2, Numbers DEF SetNextWrite, Step, Working
    <3>2. th'[n].canWrite
      BY <1>1, <2>2, <3>1 DEF SetNextWrite, CMtThread
    <3> QED
      BY <1>8, <3>1, <3>2 DEF MayWrite
  <2>3. CASE u = t /\ ~SetNextWrite(t)
    <3>1. pc[t] \in {"testWriting", "write", "setWrite", "error"}
      BY <1>10, <2>3 DEF HasWrite
    <3>2. ~SetError(t)
      BY <1>1, <1>4 DEF SetError, Step, Errors
    <3>3. pc'[t] \in {"write", "setWrite", "error"}
      BY <1>1, <2>3, <3>1, <3>2 DEF ThreadStep, Step, WaitStart, WaitRead, GoesOnReading, StopsReading,
       ReadBlock, SetNextRead, CodeSucceeds, Fails, ProgressBreaks, WaitWrite, TestWriting, WriteBlock,
       SetProgressError, StopNextReading, StopNextWriting, WakeNextWriter, Finish
    <3> QED
      BY <1>6, <2>3, <3>3 DEF HasWrite
  <2> QED
    BY <2>1, <2>2, <2>3
<1> QED
  BY <1>6, <1>9, <1>10

LEMMA ThreadOrderInv ==
  ASSUME MtInv, OrderInv, NEW t \in Thread, ThreadStep(t)
  PROVE  OrderInv'
BY ThreadOrder, ThreadChain, ThreadReadsNext, ThreadWritesNext, ThreadCauses, ThreadGoesOn,
   ThreadResults DEF OrderInv

-----------------------------------------------------------------------------
(* The steps of the caller.                                                 *)

\* When the caller does not wait, no thread has a block.
LEMMA QuietOrder ==
  ASSUME MtInv', main' # "wait", written' <= read',
         main' = "close" => \A t \in Thread : ~th'[t].canWrite
  PROVE  Blocks' /\ Chain' /\ ReadsNext' /\ WritesNext'
<1>1. /\ TypeOK' /\ Phase' /\ NotYetRead' /\ BlocksAreRead' /\ ReadTurn' /\ WriteTurn'
      /\ read' \in Nat /\ written' \in Nat
  BY DEF MtInv, TypeOK
<1>2. ASSUME NEW t \in Thread
      PROVE  pc'[t] \in {"none", "start", "exited", "canRead"} /\ th'[t].block = 0
  <2>1. main' \in Main
    BY <1>1 DEF TypeOK
  <2>2. pc'[t] \in {"none", "start", "exited", "canRead"}
    <3>1. CASE main' \in {"idle", "prepare", "create", "close", "return"}
      BY <1>1, <3>1 DEF Phase, Parked
    <3>2. CASE main' \in {"start", "setWrite", "setRead"}
      BY <1>1, <3>2 DEF Phase, Parked, Fresh
    <3>3. CASE main' \in Ending
      BY <1>1, <3>3 DEF Phase
    <3> QED
      BY <2>1, <3>1, <3>2, <3>3 DEF Main, Ending
  <2>3. th'[t].block = 0
    BY <1>1, <2>2 DEF BlocksAreRead
  <2> QED
    BY <2>2, <2>3
<1>3. ASSUME NEW t \in Thread, th'[t].canWrite
      PROVE  main' = "setRead" /\ read' = written'
  <2>1. main' = "setRead"
    BY <1>1, <1>3 DEF WriteTurn
  <2> QED
    BY <1>1, <2>1 DEF NotYetRead
<1>4. ASSUME NEW t \in Thread, th'[t].canRead PROVE main' = "close"
  BY <1>1, <1>4 DEF ReadTurn
<1>5. Blocks'
  BY <1>2 DEF Blocks, Holding
<1>6. Chain'
  BY <1>2 DEF Chain
<1>7. ReadsNext'
  BY <1>2 DEF ReadsNext
<1>8. WritesNext'
  <2>1. ASSUME NEW t \in Thread, MayWrite(t)'
        PROVE  th'[t].block = 0 /\ read' = written' /\ main' = "setRead"
    BY <1>2, <1>3, <2>1 DEF MayWrite
  <2>2. \A t \in Thread : ~HasWrite(t)'
    BY <1>2 DEF HasWrite
  <2>3. ASSUME NEW t \in Thread, main' = "setRead" PROVE ~Reads(t)'
    BY <1>2, <1>4, <2>3 DEF Reads, MayRead, HasRead
  <2> QED
    BY <2>1, <2>2, <2>3 DEF WritesNext
<1> QED
  BY <1>5, <1>6, <1>7, <1>8

\* What the steps of the caller do to what the order is about.
LEMMA CallerFrame ==
  ASSUME MtInv, CallerStep
  PROVE  /\ read' = read /\ written' = written /\ res' = res
         /\ call'.blocks = call.blocks /\ call'.numThreads = call.numThreads
         /\ ~Return => call'.ret = call.ret
         /\ ~PrepareFails /\ ~CreateFails => call'.res = call.res
         /\ PrepareFails => main = "prepare" /\ main' = "return" /\ call'.res = "MEM"
         /\ CreateFails => main = "create" /\ main' = "close" /\ call'.res = "THREAD"
         /\ Return => /\ main = "return" /\ main' = "idle"
                      /\ call'.ret = IF call.res = "OK" THEN res ELSE call.res
         /\ <<main, main'>> \in
              {<<"prepare", "create">>, <<"prepare", "return">>, <<"create", "start">>,
               <<"create", "close">>, <<"start", "start">>, <<"start", "setWrite">>,
               <<"setWrite", "setRead">>, <<"setRead", "wait">>, <<"wait", "wait">>,
               <<"wait", "close">>, <<"close", "return">>, <<"return", "idle">>,
               <<"destruct", "stop">>, <<"stop", "join">>, <<"join", "destruct">>,
               <<"destruct", "destroyed">>}
         /\ main' = "wait" => SetFirstRead \/ WaitSubThread
         /\ main' = "close" => CreateFails \/ WaitSubThread
         /\ main' = "setRead" => SetFirstWrite
<1>1. call \in [i : 0..MaxThreads, numThreads : 2..MaxThreads, blocks : 1..MaxBlocks,
                res : {"OK", "MEM", "THREAD"}, ret : SRes]
  BY DEF MtInv, TypeOK
<1> USE <1>1 DEF CallerStep, MainStep, LoopStep, resVars, streamVars
<1>2. read' = read /\ written' = written /\ res' = res
  BY DEF Prepare, PrepareFails, Create, CreateFails, StartSubThread, SetFirstWrite, SetFirstRead,
         WaitSubThread, CloseEvents, Return, SetStop, SetStartToStop, Join, Destructed
<1>3. CASE Prepare \/ Create \/ SetFirstWrite \/ SetFirstRead
  BY <1>2, <1>3 DEF Prepare, Create, SetFirstWrite, SetFirstRead, PrepareFails, CreateFails, Return
<1>4. CASE PrepareFails \/ CreateFails
  BY <1>2, <1>4 DEF PrepareFails, CreateFails, Return
<1>5. CASE StartSubThread \/ WaitSubThread
  BY <1>2, <1>5 DEF StartSubThread, WaitSubThread, PrepareFails, CreateFails, Return
<1>6. CASE CloseEvents \/ Return
  BY <1>2, <1>6 DEF CloseEvents, Return, PrepareFails, CreateFails
<1>7. CASE SetStop \/ SetStartToStop \/ Join \/ Destructed
  BY <1>2, <1>7 DEF SetStop, SetStartToStop, Join, Destructed, PrepareFails, CreateFails, Return
<1> QED
  BY <1>3, <1>4, <1>5, <1>6, <1>7

\* The turn to read the first block is given to the thread that has the turn to write it.
LEMMA SetFirstReadOrder ==
  ASSUME MtInv, MtInv', OrderInv, SetFirstRead
  PROVE  OrderInv'
<1>1. /\ main = "setRead" /\ main' = "wait" /\ call' = call /\ pc' = pc /\ res' = res
      /\ read' = read /\ written' = written /\ th' = [th EXCEPT ![0].canRead = TRUE]
  BY DEF SetFirstRead, MainStep, resVars, streamVars
<1>2. /\ TypeOK /\ Phase /\ 0 \in Thread /\ Used(0) /\ th \in [Thread -> CMtThread]
      /\ Blocks /\ GoesOn /\ Results
  BY FirstThread DEF MtInv, TypeOK, OrderInv
<1>3. ASSUME NEW t \in Thread
      PROVE  /\ pc[t] \in {"none", "start", "canRead"} /\ th[t].block = 0
             /\ Used(t) => ~th[t].stopReading /\ ~th[t].stopWriting
             /\ Used(t) => pc[t] # "none" /\ (pc[t] = "start" => th[t].startEvent)
             /\ ~th[t].canRead /\ (th[t].canWrite => t = 0)
             /\ th[0].canWrite
  <2>1. /\ pc[t] \in {"none", "start", "canRead"} /\ th[t].block = 0
        /\ Used(t) => ~th[t].stopReading /\ ~th[t].stopWriting
        /\ ~th[t].canRead
    BY <1>1, Starting
  <2>2. th[0].canWrite
    BY <1>1, <1>2 DEF GoesOn, MayWrite
  <2>3. th[t].canWrite => t = 0
    BY <1>1, <1>2, <2>2, Starting
  <2>4. Used(t) => Fresh(t)
    BY <1>1, <1>2 DEF Phase
  <2> QED
    BY <2>1, <2>2, <2>3, <2>4 DEF Fresh
<1>4. ASSUME NEW t \in Thread
      PROVE  /\ th'[t].canRead => t = 0
             /\ th'[t].block = 0 /\ th'[t].canWrite = th[t].canWrite
             /\ th'[t].stopReading = th[t].stopReading /\ th'[t].stopWriting = th[t].stopWriting
             /\ th'[t].startEvent = th[t].startEvent
  BY <1>1, <1>2, <1>3 DEF CMtThread
<1>5. read = 0 /\ written = 0
  <2>1. read = 0
    BY <1>1, Starting
  <2> QED
    BY <1>2, <2>1, Numbers DEF Blocks
<1>6. Blocks' /\ Chain' /\ ReadsNext'
  BY <1>1, <1>3, <1>4, <1>5 DEF Blocks, Holding, Chain, ReadsNext
<1>7. WritesNext'
  <2>1. ASSUME NEW t \in Thread
        PROVE  /\ MayWrite(t)' => t = 0 /\ th'[t].block = 0 /\ read' = written'
               /\ ~HasWrite(t)'
               /\ Reads(t)' => t = 0
    BY <1>1, <1>3, <1>4, <1>5 DEF MayWrite, HasWrite, Reads, MayRead, HasRead
  <2> QED
    BY <2>1 DEF WritesNext
<1>8. Causes'
  <2>1. ASSUME NEW t \in Thread, Used(t)'
        PROVE  /\ pc'[t] \notin {"error", "errorReading", "errorWriting"}
               /\ ~th'[t].stopWriting /\ ~th'[t].stopReading /\ ~Over(t)'
    <3>1. Used(t)
      BY <1>1, <2>1 DEF Used
    <3> QED
      BY <1>1, <1>3, <1>4, <3>1 DEF Over
  <2> QED
    BY <2>1 DEF Causes
<1>9. GoesOn'
  <2>1. Used(0)' /\ MayWrite(0)'
    BY <1>1, <1>2, <1>3, <1>4 DEF Used, MayWrite
  <2> QED
    BY <1>1, <1>2, <2>1 DEF GoesOn
<1>10. Results'
  BY <1>1, <1>2 DEF Results
<1> QED
  BY <1>6, <1>7, <1>8, <1>9, <1>10 DEF OrderInv

\* When the last thread has been waited for without an error, no thread has the
\* turn to read, and the turn to write is that of a block that is not read.
LEMMA WaitSubThreadOrder ==
  ASSUME MtInv, MtInv', OrderInv, WaitSubThread
  PROVE  OrderInv'
<1>1. /\ main = "wait" /\ main' \in {"wait", "close"} /\ pc' = pc /\ res' = res
      /\ read' = read /\ written' = written /\ th' = [th EXCEPT ![call.i].finishedEvent = FALSE]
  BY DEF WaitSubThread, LoopStep, MainStep, resVars, streamVars
<1>2. call'.blocks = call.blocks /\ call'.numThreads = call.numThreads /\ call'.res = call.res
  BY CallerFrame DEF CallerStep, WaitSubThread, LoopStep, MainStep, PrepareFails, CreateFails
<1>3. /\ TypeOK /\ th \in [Thread -> CMtThread] /\ Phase' /\ BlocksAreRead'
      /\ Blocks /\ Chain /\ ReadsNext /\ WritesNext /\ Causes /\ GoesOn /\ Results
  BY DEF MtInv, TypeOK, OrderInv
<1>4. ASSUME NEW t \in Thread
      PROVE  /\ th'[t].canRead = th[t].canRead /\ th'[t].canWrite = th[t].canWrite
             /\ th'[t].stopReading = th[t].stopReading /\ th'[t].stopWriting = th[t].stopWriting
             /\ th'[t].startEvent = th[t].startEvent /\ th'[t].block = th[t].block
             /\ th'[t].err = th[t].err
  BY <1>1, <1>3 DEF CMtThread
<1>5. ASSUME NEW t \in Thread
      PROVE  /\ Used(t)' <=> Used(t)
             /\ NextThread(t)' = NextThread(t)
             /\ Over(t)' <=> Over(t)
             /\ MayRead(t)' <=> MayRead(t)
             /\ MayWrite(t)' <=> MayWrite(t)
             /\ HasWrite(t)' <=> HasWrite(t)
  BY <1>1, <1>2, <1>4 DEF Used, NextThread, Over, MayRead, MayWrite, HasWrite
<1>6. ASSUME NEW t \in Thread
      PROVE  Reads(t)' <=> Reads(t)
  BY <1>1, <1>4, <1>5 DEF Reads, HasRead
<1>7. Blocks'
  BY <1>1, <1>3, <1>4 DEF Blocks
<1>8. Chain'
  <2> SUFFICES ASSUME NEW t \in Thread, Used(t)', th'[t].block # 0,
                      NEW w, w = NextThread(t)'
               PROVE  Follows(t, w)'
    BY DEF Chain, Follows, Over
  <2>1. w = NextThread(t) /\ w \in Thread /\ Used(t)
    BY <1>3, <1>5, Ring
  <2>2. Follows(t, w)
    BY <1>3, <1>4, <2>1 DEF Chain, Follows, Over
  <2> QED
    BY <1>1, <1>4, <1>5, <2>1, <2>2 DEF Follows
<1>9. ReadsNext'
  BY <1>1, <1>3, <1>4, <1>5, <1>6 DEF ReadsNext
<1>10. WritesNext'
  BY <1>1, <1>3, <1>4, <1>5, <1>6 DEF WritesNext
<1>11. Causes'
  BY <1>1, <1>2, <1>3, <1>4, <1>5 DEF Causes
<1>12. GoesOn'
  <2> SUFFICES ASSUME written < call.blocks, res = "OK"
               PROVE  \E t \in Thread : Used(t)' /\ (MayWrite(t)' \/ HasWrite(t)' \/ pc'[t] = "error")
    BY <1>1, <1>2 DEF GoesOn
  <2>1. PICK t \in Thread : Used(t) /\ (MayWrite(t) \/ HasWrite(t) \/ pc[t] = "error")
    BY <1>1, <1>3 DEF GoesOn
  <2> QED
    BY <1>1, <1>5, <2>1
<1>13. Results'
  <2> SUFFICES ASSUME main' = "close", res = "OK", written # call.blocks
               PROVE  FALSE
    BY <1>1, <1>2, <1>3 DEF Results
  <2>1. written < call.blocks
    BY <1>3, Numbers DEF Blocks
  <2>2. PICK t \in Thread : Used(t) /\ (MayWrite(t) \/ HasWrite(t) \/ pc[t] = "error")
    BY <1>1, <1>3, <2>1 DEF GoesOn
  <2>3. pc[t] \in {"none", "start"} /\ ~th[t].startEvent
    BY <1>1, <1>3, <1>4 DEF Phase, Parked
  <2>4. Over(t) /\ th[t].block = 0 /\ MayWrite(t)
    BY <2>2, <2>3, Numbers DEF Over, HasWrite
  <2>5. read = written
    BY <1>3, <2>4, Numbers DEF WritesNext
  <2>6. read = call.blocks
    BY <1>1, <1>3, <2>2, <2>4 DEF Causes
  <2> QED
    BY <2>1, <2>5, <2>6, Numbers
<1> QED
  BY <1>7, <1>8, <1>9, <1>10, <1>11, <1>12, <1>13 DEF OrderInv

LEMMA CallerOrder ==
  ASSUME MtInv, MtInv', OrderInv, CallerStep
  PROVE  OrderInv'
<1>1. CASE SetFirstRead \/ WaitSubThread
  BY <1>1, SetFirstReadOrder, WaitSubThreadOrder
<1>2. CASE ~SetFirstRead /\ ~WaitSubThread
  <2>1. /\ read' = read /\ written' = written /\ res' = res /\ main' # "wait"
        /\ main' = "close" => CreateFails
        /\ main' = "setRead" => SetFirstWrite
    BY <1>2, CallerFrame
  <2>2. CreateFails => \A t \in Thread : ~th'[t].canWrite
    <3> SUFFICES ASSUME CreateFails PROVE \A t \in Thread : ~th'[t].canWrite
      OBVIOUS
    <3>1. main = "create" /\ \E k \in 0..(call.numThreads - 1) : CreateUpTo(k)
      BY DEF CreateFails, MainStep
    <3>2. TypeOK /\ Resting
      BY <3>1, Quiet
    <3> QED
      BY <3>1, <3>2, CreateRests DEF Resting
  <2>3. written' <= read'
    BY <2>1 DEF OrderInv, Blocks
  <2>4. Blocks' /\ Chain' /\ ReadsNext' /\ WritesNext'
    BY <2>1, <2>2, <2>3, QuietOrder
  <2>5. Causes'
    BY <2>1 DEF Causes
  <2>6. GoesOn'
    <3>1. main' = "setRead" => MayWrite(0)'
      <4> SUFFICES ASSUME SetFirstWrite PROVE MayWrite(0)'
        BY <2>1
      <4>1. /\ main = "setWrite" /\ th' = [th EXCEPT ![0].canWrite = TRUE]
            /\ 0 \in Thread /\ Used(0) /\ th \in [Thread -> CMtThread]
        BY FirstThread DEF SetFirstWrite, MainStep, MtInv, TypeOK
      <4>2. ~th[0].stopWriting
        BY <4>1, Starting
      <4> QED
        BY <4>1, <4>2 DEF MayWrite, CMtThread
    <3> QED
      BY <2>1, <3>1 DEF GoesOn
  <2>7. Results'
    <3>1. /\ Results /\ call'.blocks = call.blocks
          /\ ~PrepareFails /\ ~CreateFails => call'.res = call.res
          /\ PrepareFails => main' = "return" /\ call'.res = "MEM"
          /\ CreateFails => main' = "close" /\ call'.res = "THREAD"
      BY CallerFrame DEF OrderInv
    <3>2. /\ main' \in {"prepare", "create", "start", "setWrite", "setRead"} =>
               main \in {"prepare", "create", "start", "setWrite", "setRead"}
          /\ main' \in {"close", "return"} =>
               PrepareFails \/ CreateFails \/ main = "close"
      <4>1. <<main, main'>> \in
              {<<"prepare", "create">>, <<"prepare", "return">>, <<"create", "start">>,
               <<"create", "close">>, <<"start", "start">>, <<"start", "setWrite">>,
               <<"setWrite", "setRead">>, <<"setRead", "wait">>, <<"wait", "wait">>,
               <<"wait", "close">>, <<"close", "return">>, <<"return", "idle">>,
               <<"destruct", "stop">>, <<"stop", "join">>, <<"join", "destruct">>,
               <<"destruct", "destroyed">>}
        BY CallerFrame
      <4>2. main = "prepare" => Prepare \/ PrepareFails
        BY DEF CallerStep, MainStep, LoopStep, CreateFails, Create, StartSubThread, SetFirstWrite,
               SetFirstRead, WaitSubThread, CloseEvents, Return, SetStop, SetStartToStop, Join, Destructed
      <4>3. Prepare => main' = "create"
        BY DEF Prepare, MainStep
      <4> QED
        BY <2>1, <4>1, <4>2, <4>3
    <3> QED
      BY <2>1, <3>1, <3>2 DEF Results
  <2> QED
    BY <2>4, <2>5, <2>6, <2>7 DEF OrderInv
<1> QED
  BY <1>1, <1>2

LEMMA InitOrder == Init => OrderInv
<1> SUFFICES ASSUME Init PROVE OrderInv
  OBVIOUS
<1>1. /\ main = "idle" /\ read = 0 /\ written = 0
      /\ \A t \in Thread : /\ pc[t] = "none" /\ th[t].block = 0 /\ ~th[t].canRead /\ ~th[t].canWrite
  BY DEF Init
<1>2. Blocks /\ Chain /\ ReadsNext
  BY <1>1 DEF Blocks, Holding, Chain, ReadsNext
<1>3. WritesNext
  BY <1>1 DEF WritesNext, MayWrite, HasWrite
<1>4. Causes /\ GoesOn /\ Results
  BY <1>1 DEF Causes, GoesOn, Results
<1> QED
  BY <1>2, <1>3, <1>4 DEF OrderInv

LEMMA StepOrder == MtInv /\ OrderInv /\ [Next]_vars => OrderInv'
<1> SUFFICES ASSUME MtInv, OrderInv, [Next]_vars PROVE OrderInv'
  OBVIOUS
<1>1. MtInv'
  BY StepInv
<1>2. CASE \E t \in Thread : ThreadStep(t)
  BY <1>2, ThreadOrderInv
<1>3. CASE CallerStep
  BY <1>1, <1>3, CallerOrder
<1>4. CASE (\E n \in 2..MaxThreads, b \in 1..MaxBlocks : Code(n, b)) \/ Destruct
  <2>1. /\ main' \in {"prepare", "destruct"}
        /\ main' = "prepare" => read' = 0 /\ written' = 0 /\ res' = "OK" /\ call'.res = "OK"
        /\ main' = "destruct" => read' = read /\ written' = written
    BY <1>4 DEF Code, Destruct, MainStep, streamVars, MtInv, TypeOK
  <2>2. written' <= read'
    BY <2>1 DEF OrderInv, Blocks
  <2>3. Blocks' /\ Chain' /\ ReadsNext' /\ WritesNext'
    BY <1>1, <2>1, <2>2, QuietOrder
  <2>4. Causes' /\ GoesOn' /\ Results'
    BY <2>1 DEF Causes, GoesOn, Results
  <2> QED
    BY <2>3, <2>4 DEF OrderInv
<1>5. CASE UNCHANGED vars
  <2>1. /\ main' = main /\ call' = call /\ res' = res /\ progressRes' = progressRes
        /\ read' = read /\ written' = written /\ pc' = pc /\ th' = th
    BY <1>5 DEF vars, callVars, resVars, streamVars
  <2>2. Blocks' /\ Causes' /\ GoesOn' /\ Results'
    BY <2>1 DEF OrderInv, Blocks, Causes, GoesOn, Results, Used, Over, MayWrite, HasWrite
  <2>3. Chain' /\ ReadsNext' /\ WritesNext'
    BY <2>1 DEF OrderInv, Chain, Follows, ReadsNext, WritesNext, Used, Over, NextThread,
                Reads, MayRead, HasRead, MayWrite, HasWrite
  <2> QED
    BY <2>2, <2>3 DEF OrderInv
<1> QED
  BY <1>2, <1>3, <1>4, <1>5 DEF Next, Terminating

\* MtCoder_Code, with its threads, is a sequential coder of blocks (BlockCoder):
\* the blocks are written in their order, each of them once, success means that
\* all of them were written, and what is returned is the first error, never the
\* FAIL of a thread that was only told to stop.
THEOREM CoderRefinesBlockCoder == Spec => ImplementsBlockCoder
<1>1. Init => Seq!Init
  BY DEF Init, Seq!Init, inCode, firstError
<1>2. MtInv /\ OrderInv /\ [Next]_vars => [Seq!Next]_Seq!vars
  <2> SUFFICES ASSUME MtInv, OrderInv, [Next]_vars
               PROVE  Seq!Next \/ UNCHANGED Seq!vars
    OBVIOUS
  <2>1. /\ TypeOK /\ Results /\ read \in Nat /\ written \in Nat /\ call.blocks \in Nat
        /\ written <= read /\ read <= call.blocks
    BY Numbers DEF MtInv, OrderInv, Blocks
  <2>2. ASSUME NEW t \in Thread, WriteBlock(t), ThreadStep(t)
        PROVE  Seq!WriteBlock
    <3>1. /\ main = "wait" /\ call' = call /\ main' = main /\ res' = res
      BY <2>2, Numbers, OthersStay DEF WriteBlock, resVars, Step, Working
    <3>2. written' = th[t].block /\ HasWrite(t) /\ pc[t] # "setWrite"
      BY <2>2, MovedBlock
    <3>3. th[t].block = written + 1 /\ th[t].block <= read
      BY <3>2, Numbers DEF OrderInv, WritesNext
    <3> QED
      BY <2>1, <3>1, <3>2, <3>3 DEF Seq!WriteBlock, inCode, firstError
  <2>3. ASSUME NEW t \in Thread, SetError(t), ThreadStep(t)
        PROVE  Seq!Fail \/ UNCHANGED Seq!vars
    <3>1. /\ main = "wait" /\ call' = call /\ main' = main /\ written' = written /\ pc[t] = "error"
          /\ res' = IF res = "OK" THEN th[t].err ELSE res
      BY <2>3, Numbers, OthersStay DEF SetError, streamVars, Step, Working
    <3>2. call.res = "OK"
      BY <2>1, <3>1 DEF Results
    <3>3. CASE res = "OK"
      <4>1. th[t].err \in SRes /\ th[t].err # "OK"
        BY <3>1 DEF MtInv, TypeOK, CMtThread, Errors
      <4>2. th[t].err # "FAIL"
        BY <3>1, <3>3, Numbers DEF OrderInv, Causes, Working
      <4>3. th[t].err \in Error
        BY <4>1, <4>2 DEF SRes
      <4> QED
        BY <3>1, <3>2, <3>3, <4>3 DEF Seq!Fail, inCode, firstError
    <3>4. CASE res # "OK"
      BY <3>1, <3>2, <3>4 DEF Seq!vars, inCode, firstError
    <3> QED
      BY <3>3, <3>4
  <2>4. ASSUME NEW t \in Thread, ThreadStep(t), ~WriteBlock(t), ~SetError(t)
        PROVE  UNCHANGED Seq!vars
    <3>1. call' = call /\ main' = main /\ res' = res
      BY <2>4, OthersStay
    <3>2. written' = written
      <4>1. CASE ReadBlock(t) \/ SetNextWrite(t) \/ SetProgressError(t)
        BY <2>4, <4>1, MovedBlock
      <4>2. CASE ~ReadBlock(t) /\ ~SetNextWrite(t) /\ ~SetProgressError(t)
        BY <2>4, <4>2, OtherSteps DEF BlocksStay
      <4> QED
        BY <4>1, <4>2
    <3> QED
      BY <3>1, <3>2 DEF Seq!vars, inCode, firstError
  <2>5. ASSUME NEW n \in 2..MaxThreads, NEW b \in 1..MaxBlocks, Code(n, b)
        PROVE  Seq!Begin
    <3>1. /\ main = "idle" /\ main' = "prepare" /\ res' = "OK" /\ written' = 0
          /\ call'.blocks = b /\ call'.res = "OK" /\ call'.ret = call.ret
      BY <2>1, <2>5 DEF Code, MainStep, TypeOK
    <3> QED
      BY <3>1 DEF Seq!Begin, inCode, firstError
  <2>6. ASSUME CallerStep
        PROVE  Seq!Next \/ UNCHANGED Seq!vars
    <3>1. /\ written' = written /\ res' = res /\ call'.blocks = call.blocks
          /\ ~Return => call'.ret = call.ret
          /\ ~PrepareFails /\ ~CreateFails => call'.res = call.res
      BY <2>6, CallerFrame
    <3>2. CASE PrepareFails \/ CreateFails
      <4>1. /\ main \in {"prepare", "create"} /\ main' \in {"return", "close"}
            /\ call'.res \in {"MEM", "THREAD"} /\ call'.ret = call.ret
        BY <2>6, <3>1, <3>2, CallerFrame
      <4>2. res = "OK" /\ call.res = "OK"
        BY <2>1, <4>1 DEF Results
      <4> QED
        BY <3>1, <4>1, <4>2 DEF Seq!Next, Seq!Fail, inCode, firstError, Error
    <3>3. CASE Return
      <4>1. /\ main = "return" /\ main' = "idle" /\ call'.res = call.res
            /\ call'.ret = IF call.res = "OK" THEN res ELSE call.res
        BY <2>6, <3>1, <3>3, CallerFrame DEF Return, PrepareFails, CreateFails, MainStep
      <4>2. call.res = "OK" /\ res = "OK" => written = call.blocks
        BY <2>1, <4>1 DEF Results
      <4> QED
        BY <3>1, <4>1, <4>2 DEF Seq!Next, Seq!Return, inCode, firstError
    <3>4. CASE ~PrepareFails /\ ~CreateFails /\ ~Return
      <4>1. ~(main' = "idle")
        BY <2>6, <3>4 DEF CallerStep, MainStep, LoopStep, Prepare, Create, StartSubThread, SetFirstWrite,
               SetFirstRead, WaitSubThread, CloseEvents, SetStop, SetStartToStop, Join, Destructed
      <4>2. inCode' = inCode
        <5>1. <<main, main'>> \in
                {<<"prepare", "create">>, <<"prepare", "return">>, <<"create", "start">>,
                 <<"create", "close">>, <<"start", "start">>, <<"start", "setWrite">>,
                 <<"setWrite", "setRead">>, <<"setRead", "wait">>, <<"wait", "wait">>,
                 <<"wait", "close">>, <<"close", "return">>, <<"return", "idle">>,
                 <<"destruct", "stop">>, <<"stop", "join">>, <<"join", "destruct">>,
                 <<"destruct", "destroyed">>}
          BY <2>6, CallerFrame
        <5> QED
          BY <4>1, <5>1 DEF inCode
      <4> QED
        BY <3>1, <3>4, <4>2 DEF Seq!vars, firstError
    <3> QED
      BY <3>2, <3>3, <3>4
  <2>7. ASSUME Destruct PROVE UNCHANGED Seq!vars
    <3>1. /\ main = "idle" /\ main' = "destruct" /\ res' = res /\ written' = written
          /\ call'.blocks = call.blocks /\ call'.res = call.res /\ call'.ret = call.ret
      BY <2>1, <2>7 DEF Destruct, MainStep, resVars, streamVars, TypeOK
    <3> QED
      BY <3>1 DEF Seq!vars, inCode, firstError
  <2>8. ASSUME UNCHANGED vars PROVE UNCHANGED Seq!vars
    BY <2>8 DEF vars, callVars, resVars, streamVars, Seq!vars, inCode, firstError
  <2>9. ASSUME NEW t \in Thread, ThreadStep(t) PROVE Seq!Next \/ UNCHANGED Seq!vars
    BY <2>2, <2>3, <2>4, <2>9 DEF Seq!Next
  <2> QED
    BY <2>5, <2>6, <2>7, <2>8, <2>9 DEF Next, Terminating, Seq!Next
<1> QED
  BY <1>1, <1>2, InitInv, StepInv, InitOrder, StepOrder, PTL DEF Spec, ImplementsBlockCoder, Seq!Spec
=============================================================================
