----------------------------- MODULE BZip2Proofs -----------------------------
(***************************************************************************)
(* Proofs about BZip2EncoderMt and BZip2DecoderMt for any number of        *)
(* threads and of blocks and for any failures.  The decoder is the         *)
(* instance Decoder of MCBZip2.                                            *)
(***************************************************************************)
EXTENDS MCBZip2, FunctionTheorems, FiniteSetTheorems, TLAPS

-----------------------------------------------------------------------------
(* The inductive invariants.  What is common to both programs is stated    *)
(* once: they share the names of the variables and of these fields.        *)

Parked(t) == pc[t] = "canProcess"
Done(t) == pc[t] \in {"leave", "canStartWaiting"}

\* Where the caller is says where the threads may be, whether the two gates are
\* open, and which events of the threads it still has to wait for.
Phases ==
  /\ main # "gate" /\ (main \notin {"create", "finish", "waiting", "join"} => i = 0)
  /\ main \in {"prepare", "start", "return"} => \A t \in Thread : Parked(t)
  /\ main = "idle" => (\A t \in Thread : pc[t] = "none") \/ (\A t \in Thread : Parked(t))
  /\ main = "create" => \A t \in Thread : IF t < i THEN Parked(t) ELSE pc[t] = "none"
  /\ main = "finish" => \A t \in Thread :
       pc[t] \notin {"none", "waitingWasStarted", "exited"} /\ (t < i => Done(t))
  /\ main = "allow" => \A t \in Thread : Done(t)
  /\ main = "waiting" => \A t \in Thread :
       (Done(t) \/ pc[t] = "waitingWasStarted" \/ Parked(t)) /\ (t < i => Parked(t))
  /\ main \in {"join", "destroyed"} => \A t \in Thread :
       pc[t] \in {"none", "canProcess", "exited"} \/ (pc[t] = "locked" /\ enc.CloseThreads)
  /\ IF main \in {"join", "destroyed"} THEN enc.CanProcessEvent => enc.CloseThreads
     ELSE enc.CanProcessEvent <=> (main = "finish")
  /\ enc.CanStartWaitingEvent <=> (main = "waiting")
  /\ \A t \in Thread :
       /\ th[t].StreamWasFinishedEvent <=> (main = "finish" /\ i <= t /\ Done(t))
       /\ th[t].WaitingWasStartedEvent <=> (main = "waiting" /\ i <= t /\ Parked(t))

\* Before a call opens the gate the counters are zero and, after Prepare, no thread
\* has the turn; the threads of a call are not told to exit.
Prepared ==
  /\ main \in {"create", "prepare", "start"} => numRead = 0 /\ written = 0
  /\ main = "start" => \A t \in Thread : ~th[t].CanWriteEvent
  /\ main = "finish" => ~enc.CloseThreads

\* The index that the next block gets, while there may be one.
NextIndex(finished) ==
  ~finished /\ (enc.CS = NumThreads \/ pc[enc.CS] = "locked")
    => enc.NextBlockIndex = numRead % NumThreads

\* No two threads at the places P have the same block; the turn to write is an event
\* at the place of block `turn' in the ring, or with the only thread at the places W.
Distinct(P) ==
  \A t, u \in Thread : t # u /\ pc[t] \in P /\ pc[u] \in P => th[t].block # th[u].block
OneTurn(W, turn) ==
  /\ \A k \in Thread : th[k].CanWriteEvent =>
       k = turn % NumThreads /\ \A t \in Thread : pc[t] \notin W
  /\ \A t, u \in Thread : pc[t] \in W /\ pc[u] \in W => t = u

CSHeld(P, Q) ==
  \A t \in Thread : (pc[t] \in P => enc.CS = t) /\ (enc.CS = t => pc[t] \in P \cup Q)

(* The encoder                                                             *)

\* A thread that failed, or stopped because of a failure.
Failed(t) ==
  pc[t] = "fail" \/ (pc[t] \in {"finish", "leave", "canStartWaiting"} /\ enc.Result # "OK")

\* A block that was read and is not written is with a thread, which may have failed.
HasBlock(t, b) ==
  th[t].block = b /\ (pc[t] \in {"canWrite", "write"} \/ Failed(t))

EncoderThread(t) ==
  /\ pc[t] \in {"canWrite", "write"} => th[t].block \in written..(numRead - 1)
  /\ pc[t] \in {"canWrite", "write", "next"} =>
       th[t].m_BlockIndex = th[t].block % NumThreads
  /\ pc[t] = "write" => th[t].block = written
  /\ pc[t] = "next" => th[t].block = written - 1
  /\ pc[t] = "fail" => th[t].res # "OK"
  /\ pc[t] = "finish" /\ enc.Result = "OK" => numRead = blocks
  /\ Done(t) => enc.StreamWasFinished

EncoderRing ==
  main = "finish" =>
    /\ NextIndex(enc.StreamWasFinished)
    /\ \A t \in Thread : EncoderThread(t)
    /\ Distinct({"canWrite", "write"})
    /\ OneTurn({"write", "next"}, written)
    /\ \A b \in written..(numRead - 1) : \E t \in Thread : HasBlock(t, b)
    /\ enc.StreamWasFinished /\ enc.Result = "OK" => numRead = blocks

EncoderEnds ==
  /\ main = "start" =>
       ~enc.StreamWasFinished /\ ~enc.CloseThreads /\ enc.NextBlockIndex = 0
  /\ main \in {"allow", "waiting", "return"} /\ enc.Result = "OK" => written = blocks
  /\ SuccessIsComplete

EncoderInv ==
  /\ TypeOK /\ Phases /\ Prepared /\ CSHeld({"locked", "leave"}, {"fail", "finish"})
  /\ EncoderRing /\ EncoderEnds

(* The decoder                                                             *)

\* The places of a thread that has a block, and of the one that has the turn too.
HasDecoded == {"canWrite", "write", "fail", "next"}
HasTurn == {"write", "fail", "next"}

DecoderThread(t, turn) ==
  LET f == blocks IN
  /\ pc[t] \in HasDecoded =>
       /\ th[t].block \in turn..(numRead - 1)
       /\ th[t].blockIndex = th[t].block % NumThreads
  /\ pc[t] \in HasTurn => th[t].block = turn
  /\ pc[t] = "write" => ~enc.StreamWasFinished2
  /\ pc[t] = "fail" => ~enc.StreamWasFinished2 /\ turn = f.bad /\ th[t].res = f.why
                         /\ written = Decoder!SingleThreaded(f).written
  /\ pc[t] = "next" /\ Decoder!Stops(t) => enc.StreamWasFinished2
  /\ pc[t] = "next" /\ ~Decoder!Stops(t) =>
       ~enc.StreamWasFinished2 /\ written = turn + 1 /\ turn < f.bad
  /\ pc[t] = "finished" => enc.StreamWasFinished2
  /\ pc[t] = "finish" => numRead = f.blocks /\ enc.Result1 = f.tail
  /\ pc[t] = "leave" => enc.StreamWasFinished1
  /\ pc[t] = "canStartWaiting" => enc.StreamWasFinished1 \/ enc.StreamWasFinished2

\* `turn' is the number of turns that were passed on: behind a bad block the turn goes
\* on, though nothing is written any more.
DecoderRing(turn) ==
  LET f == blocks IN
  /\ NextIndex(enc.StreamWasFinished1)
  /\ \A t \in Thread : DecoderThread(t, turn)
  /\ Distinct(HasDecoded) /\ OneTurn(HasTurn, turn)
  /\ \A b \in turn..(numRead - 1) : \E t \in Thread : th[t].block = b /\ pc[t] \in HasDecoded
  /\ enc.StreamWasFinished1 => numRead = f.blocks /\ enc.Result1 = f.tail
  /\ enc.StreamWasFinished2 =>
       /\ enc.Result2 = f.why /\ f.bad <= turn /\ f.bad < f.blocks
       /\ written = Decoder!SingleThreaded(f).written
  /\ ~enc.StreamWasFinished2 =>
       /\ enc.Result2 = "OK" /\ turn <= f.bad
       /\ (\A t \in Thread : pc[t] \notin {"fail", "next"}) => written = turn

SomeTurn == main = "finish" => \E turn \in 0..numRead : DecoderRing(turn)

DecoderEnds ==
  /\ \A t \in Thread : Decoder!Stops(t) => pc[t] \in {"fail", "next", "finished"}
  /\ main \in {"allow", "waiting", "return"} =>
       /\ written = Decoder!SingleThreaded(blocks).written
       /\ Decoder!SingleThreaded(blocks).res =
            IF enc.Result2 # "OK" THEN enc.Result2 ELSE enc.Result1

DecoderInv ==
  /\ Decoder!TypeOK /\ Phases /\ Prepared /\ CSHeld({"locked", "finish", "leave"}, {})
  /\ SomeTurn /\ DecoderEnds

\* Quotient and remainder are unique.
LEMMA DivisionUnique ==
  ASSUME NEW n \in Nat, NEW p \in Nat, NEW q \in Nat, NEW r \in 0..(n - 1), NEW s \in 0..(n - 1),
         n * p + r = n * q + s
  PROVE  p = q /\ r = s
<1>1. CASE q >= p + 1
  <2>1. n * q >= n * (p + 1) /\ n * (p + 1) = n * p + n
    BY <1>1
  <2> QED BY <2>1
<1>2. CASE p >= q + 1
  <2>1. n * p >= n * (q + 1) /\ n * (q + 1) = n * q + n
    BY <1>2
  <2> QED BY <2>1
<1> QED BY <1>1, <1>2

\* NextInRing goes from the place of block x to the place of block x + 1.
LEMMA RingNext ==
  ASSUME NEW x \in Nat
  PROVE  /\ x % NumThreads \in Thread /\ NextInRing(x % NumThreads) = (x + 1) % NumThreads
<1>1. NumThreads \in Nat /\ NumThreads > 1
  BY BZip2Assumption
<1> DEFINE r == x % NumThreads
           q == x \div NumThreads
           s == (x + 1) % NumThreads
           p == (x + 1) \div NumThreads
<1>2. /\ r \in 0..(NumThreads - 1) /\ q \in Nat /\ x = NumThreads * q + r
      /\ s \in 0..(NumThreads - 1) /\ p \in Nat /\ x + 1 = NumThreads * p + s
  BY <1>1
<1> HIDE DEF p, q, r, s
<1>3. CASE r + 1 = NumThreads
  <2>1. NumThreads * (q + 1) = NumThreads * q + NumThreads
    BY <1>1, <1>2
  <2>2. NumThreads * (q + 1) + 0 = NumThreads * p + s /\ q + 1 \in Nat
    BY <1>1, <1>2, <1>3, <2>1
  <2>3. s = 0
    BY <1>1, <1>2, <2>2, DivisionUnique
  <2> QED BY <1>1, <1>2, <1>3, <2>3 DEF NextInRing, Thread, r, s
<1>4. CASE r + 1 < NumThreads
  <2>1. NumThreads * q + (r + 1) = NumThreads * p + s /\ r + 1 \in 0..(NumThreads - 1)
    BY <1>1, <1>2, <1>4
  <2>2. s = r + 1
    BY <1>1, <1>2, <2>1, DivisionUnique
  <2> QED BY <1>1, <1>2, <1>4, <2>2 DEF NextInRing, Thread, r, s
<1> QED BY <1>1, <1>2, <1>3, <1>4

\* Of NumThreads successive blocks no two have the same place in the ring.
LEMMA RingDistinct ==
  ASSUME NEW a \in Nat, NEW b \in Nat, a <= b, b < a + NumThreads,
         a % NumThreads = b % NumThreads
  PROVE  a = b
<1>1. NumThreads \in Nat /\ NumThreads > 1
  BY BZip2Assumption
<1> DEFINE p == a \div NumThreads
           q == b \div NumThreads
           r == a % NumThreads
<1>2. /\ r \in 0..(NumThreads - 1) /\ p \in Nat /\ q \in Nat
      /\ a = NumThreads * p + r /\ b = NumThreads * q + r
  BY <1>1
<1> HIDE DEF p, q, r
<1>3. CASE q >= p + 1
  <2>1. NumThreads * q >= NumThreads * (p + 1) /\ NumThreads * (p + 1) = NumThreads * p + NumThreads
    BY <1>1, <1>2, <1>3
  <2> QED BY <1>1, <1>2, <2>1
<1>4. CASE p >= q + 1
  <2>1. NumThreads * p >= NumThreads * (q + 1) /\ NumThreads * (q + 1) = NumThreads * q + NumThreads
    BY <1>1, <1>2, <1>4
  <2> QED BY <1>1, <1>2, <2>1
<1> QED BY <1>1, <1>2, <1>3, <1>4

\* If every outstanding block is with a thread of its own, there are not more of them
\* than threads.
LEMMA AsManyAsThreads ==
  ASSUME NEW turn \in Nat, NEW r \in Nat, turn <= r, NEW at,
         \A b \in turn..(r - 1) : \E t \in Thread : at[t] = b
  PROVE  r <= turn + NumThreads
<1>1. NumThreads \in Nat /\ NumThreads > 1
  BY BZip2Assumption
<1> DEFINE B == turn..(r - 1)
           f == [b \in B |-> CHOOSE t \in Thread : at[t] = b]
<1>2. \A b \in B : f[b] \in Thread /\ at[f[b]] = b
  OBVIOUS
<1> HIDE DEF f
<1>3. f \in [B -> Thread]
  BY <1>2 DEF f
<1>4. f \in Injection(B, Thread)
  BY <1>2, <1>3 DEF Injection, IsInjective
<1>5. IsFiniteSet(Thread) /\ Cardinality(Thread) = NumThreads
  BY <1>1, FS_Interval DEF Thread
<1>6. Cardinality(B) <= NumThreads
  BY <1>4, <1>5, FS_Injection
<1>7. CASE turn < r
  BY <1>1, <1>6, <1>7, FS_Interval
<1> QED BY <1>1, <1>7

-----------------------------------------------------------------------------
(* The encoder, step by step.                                              *)

\* What the proofs below need of the constants.
LEMMA Constants ==
  /\ NumThreads \in Nat /\ NumThreads > 1 /\ MaxBlocks \in Nat /\ 0 \in Thread
  /\ NumThreads \notin Thread /\ Thread \subseteq 0..NumThreads
  /\ \A t \in Thread : t \in Nat /\ t < NumThreads
  /\ \A k \in 0..NumThreads : k < NumThreads => k \in Thread /\ k + 1 \in 0..NumThreads
  /\ 0 \in 0..NumThreads /\ Failure \subseteq {"READ", "WRITE", "PROGRESS"}
  /\ \A k \in Thread : NextInRing(k) \in Thread
BY BZip2Assumption DEF Thread, NextInRing

\* What Prepare makes of the fields of a thread.
LEMMA PreparedThread ==
  ASSUME NEW r \in CThreadInfo
  PROVE  LET s == [r EXCEPT
                     !.StreamWasFinishedEvent = FALSE, !.WaitingWasStartedEvent = FALSE,
                     !.CanWriteEvent = FALSE, !.m_BlockIndex = 0, !.block = 0]
         IN  /\ s \in CThreadInfo
             /\ ~s.StreamWasFinishedEvent /\ ~s.WaitingWasStartedEvent /\ ~s.CanWriteEvent
<1>1. 0 \in Thread /\ 0 \in 0..MaxBlocks
  BY Constants
<1> QED
  BY <1>1 DEF CThreadInfo

\* The types, of all but the counter of the blocks that are written.
LEMMA EncoderTypes ==
  ASSUME TypeOK, Next, written' \in 0..numRead'
  PROVE  TypeOK'
<1> USE Constants DEF TypeOK, mainVars
<1>1. CASE Code
  BY <1>1 DEF Code, MainStep, Main
<1>2. CASE Free
  BY <1>2 DEF Free, MainStep, Main, CEncoder
<1>3. CASE CallerStep
  <2> USE DEF MainStep, LoopStep, LoopEnds
  <2>1. CASE CreateThread
    <3>1. pc' \in [Thread -> Place]
      BY <2>1 DEF CreateThread, Place
    <3> QED BY <2>1, <3>1 DEF CreateThread
  <2>2. CASE CreateFails
    <3>1. enc' \in CEncoder
      BY <2>2 DEF CreateFails, CEncoder
    <3> QED BY <2>2, <3>1 DEF CreateFails, Main, Result
  <2>3. CASE CreateEnds
    BY <2>3 DEF CreateEnds, Main
  <2>4. CASE Prepare
    <3>1. enc' \in CEncoder
      BY <2>4 DEF Prepare, CEncoder
    <3>2. th' \in [Thread -> CThreadInfo]
      BY <2>4, PreparedThread DEF Prepare
    <3> QED BY <2>4, <3>1, <3>2 DEF Prepare, Main
  <2>5. CASE AllocFails
    BY <2>5 DEF AllocFails, Result, Main
  <2>6. CASE OpenGate
    <3>1. enc' \in CEncoder
      BY <2>6 DEF OpenGate, CEncoder, Result
    <3>2. th' \in [Thread -> CThreadInfo]
      BY <2>6 DEF OpenGate, CThreadInfo
    <3> QED BY <2>6, <3>1, <3>2 DEF OpenGate, Main
  <2>7. CASE WaitFinished
    <3>1. th' \in [Thread -> CThreadInfo]
      BY <2>7 DEF WaitFinished, CThreadInfo
    <3> QED BY <2>7, <3>1 DEF WaitFinished
  <2>8. CASE CloseGate
    <3>1. enc' \in CEncoder
      BY <2>8 DEF CloseGate, CEncoder
    <3> QED BY <2>8, <3>1 DEF CloseGate, Main
  <2>9. CASE AllowWaiting
    <3>1. enc' \in CEncoder
      BY <2>9 DEF AllowWaiting, CEncoder
    <3> QED BY <2>9, <3>1 DEF AllowWaiting, Main
  <2>10. CASE WaitWaiting
    <3>1. th' \in [Thread -> CThreadInfo]
      BY <2>10 DEF WaitWaiting, CThreadInfo
    <3> QED BY <2>10, <3>1 DEF WaitWaiting
  <2>11. CASE WaitingEnds
    <3>1. enc' \in CEncoder
      BY <2>11 DEF WaitingEnds, CEncoder
    <3> QED BY <2>11, <3>1 DEF WaitingEnds, Main
  <2>12. CASE Return
    BY <2>12 DEF Return, CEncoder, Result, Main
  <2>13. CASE JoinThread
    BY <2>13 DEF JoinThread
  <2>14. CASE Freed
    BY <2>14 DEF Freed, Main
  <2> QED
    BY <1>3, <2>1, <2>2, <2>3, <2>4, <2>5, <2>6, <2>7, <2>8, <2>9, <2>10, <2>11, <2>12,
       <2>13, <2>14 DEF CallerStep
<1>4. ASSUME NEW t \in Thread, ThreadStep(t) PROVE TypeOK'
  <2>1. pc' \in [Thread -> Place] /\ UNCHANGED mainVars
    BY <1>4 DEF ThreadStep, Enter, Exit, SeeFinished, ReadFails, ReadBlock, ReadEnd,
       WaitCanWrite, WriteBlock, SetCanWrite, Fail, FinishStream, Leave,
       WaitCanStartWaiting, SetWaitingWasStarted, Step, Place
  <2>2. enc' \in CEncoder
    <3>1. th[t].res \in Result /\ NextInRing(enc.NextBlockIndex) \in Thread
      BY DEF CThreadInfo, CEncoder
    <3>2. CASE ReadBlock(t) \/ ReadEnd(t)
      BY <3>1, <3>2 DEF ReadBlock, ReadEnd, CEncoder
    <3>3. CASE Fail(t)
      BY <3>1, <3>3 DEF Fail, CEncoder
    <3>4. CASE Enter(t) \/ Exit(t) \/ Leave(t) \/ FinishStream(t)
      BY <3>4 DEF Enter, Exit, Leave, FinishStream, CEncoder
    <3>5. CASE UNCHANGED enc
      BY <3>5
    <3> QED
      BY <1>4, <3>2, <3>3, <3>4, <3>5 DEF ThreadStep, SeeFinished, ReadFails, WaitCanWrite,
         WriteBlock, SetCanWrite, WaitCanStartWaiting, SetWaitingWasStarted
  <2>3. numRead' \in 0..blocks'
    BY <1>4, <2>1 DEF ThreadStep, Enter, Exit, SeeFinished, ReadFails, ReadBlock, ReadEnd,
       WaitCanWrite, WriteBlock, SetCanWrite, Fail, FinishStream, Leave,
       WaitCanStartWaiting, SetWaitingWasStarted
  <2>4. th' \in [Thread -> CThreadInfo]
    <3>1. /\ th[t] \in CThreadInfo /\ th[t].m_BlockIndex \in Thread
          /\ enc.NextBlockIndex \in Thread /\ {"OK", "READ", "PROGRESS"} \cap Failure \subseteq Result
      BY DEF CThreadInfo, CEncoder, Result
    <3>2. CASE ReadFails(t)
      BY <3>1, <3>2 DEF ReadFails, CThreadInfo, Result
    <3>3. CASE ReadBlock(t)
      <4>1. numRead \in 0..MaxBlocks
        BY <3>3
      <4> QED BY <3>1, <3>3, <4>1 DEF ReadBlock, CThreadInfo
    <3>4. CASE ReadEnd(t)
      BY <3>1, <3>4 DEF ReadEnd, CThreadInfo
    <3>5. CASE WaitCanWrite(t)
      <4> DEFINE k == th[t].m_BlockIndex
      <4>1. [th[k] EXCEPT !.CanWriteEvent = FALSE] \in CThreadInfo
        BY <3>1 DEF CThreadInfo
      <4> QED BY <3>1, <3>5, <4>1 DEF WaitCanWrite
    <3>6. CASE WriteBlock(t)
      BY <3>1, <3>6 DEF WriteBlock, CThreadInfo, Result
    <3>7. CASE SetCanWrite(t)
      <4> DEFINE k == NextInRing(th[t].m_BlockIndex)
      <4>1. k \in Thread /\ [th[k] EXCEPT !.CanWriteEvent = TRUE] \in CThreadInfo
        BY <3>1 DEF CThreadInfo
      <4> DEFINE th1 == [th EXCEPT ![k].CanWriteEvent = TRUE]
      <4>2. th1 \in [Thread -> CThreadInfo]
        BY <4>1
      <4>3. ASSUME NEW r \in CThreadInfo, "PROGRESS" \in Failure
            PROVE  [r EXCEPT !.res = "PROGRESS"] \in CThreadInfo
        BY <4>3 DEF CThreadInfo, Result
      <4>4. \/ th' = th1
            \/ "PROGRESS" \in Failure /\ th' = [th1 EXCEPT ![t].res = "PROGRESS"]
        BY <3>7 DEF SetCanWrite
      <4> HIDE DEF th1
      <4> QED BY <4>2, <4>3, <4>4
    <3>8. CASE Fail(t)
      BY <3>1, <3>8 DEF Fail, CThreadInfo, Result
    <3>9. CASE FinishStream(t)
      <4>1. [th[t] EXCEPT !.StreamWasFinishedEvent = TRUE] \in CThreadInfo
        BY <3>1 DEF CThreadInfo
      <4> QED BY <3>9, <4>1 DEF FinishStream
    <3>10. CASE SetWaitingWasStarted(t)
      BY <3>1, <3>10 DEF SetWaitingWasStarted, CThreadInfo
    <3> QED
      BY <1>4, <3>2, <3>3, <3>4, <3>5, <3>6, <3>7, <3>8, <3>9, <3>10 DEF ThreadStep, Enter,
         Exit, SeeFinished, Leave, WaitCanStartWaiting
  <2> QED
    BY <2>1, <2>2, <2>3, <2>4
<1>5. CASE Terminating
  BY <1>5 DEF Terminating, vars
<1> QED
  BY <1>1, <1>2, <1>3, <1>4, <1>5 DEF Next

\* Where a step of the caller leads: only OpenGate gives threads and ring to do, and
\* only CloseGate may rely on what they have done.
LEMMA EncoderCallerPhases ==
  ASSUME EncoderInv, Code \/ Free \/ CallerStep \/ Terminating
  PROVE  Phases' /\ Prepared' /\ CSHeld({"locked", "leave"}, {"fail", "finish"})'
<1> USE Constants DEF EncoderInv, Phases, Prepared, CSHeld, Parked, Done, mainVars
<1>0. /\ i \in 0..NumThreads /\ enc \in CEncoder /\ th \in [Thread -> CThreadInfo]
      /\ pc \in [Thread -> Place] /\ main \in Main
  BY DEF TypeOK
<1> USE <1>0
<1>1. CASE Code
  BY <1>1 DEF Code, MainStep
<1>2. CASE Free
  BY <1>2 DEF Free, MainStep, CEncoder
<1>3. CASE CallerStep
  <2> USE DEF MainStep, LoopStep, LoopEnds
  <2>1. CASE CreateThread
    BY <2>1 DEF CreateThread
  <2>2. CASE CreateFails
    BY <2>2 DEF CreateFails, CEncoder
  <2>3. CASE CreateEnds
    BY <2>3 DEF CreateEnds
  <2>4. CASE Prepare
    <3>0. main = "prepare" /\ main' = "start" /\ UNCHANGED <<i, pc, numRead, written>>
      BY <2>4 DEF Prepare
    <3>1. /\ enc'.CS = enc.CS
          /\ enc'.CanProcessEvent <=> enc.CanProcessEvent
          /\ enc'.CanStartWaitingEvent <=> FALSE
      BY <2>4 DEF Prepare, CEncoder
    <3>2. \A t \in Thread : ~th'[t].StreamWasFinishedEvent /\ ~th'[t].WaitingWasStartedEvent
                           /\ ~th'[t].CanWriteEvent
      BY <2>4, PreparedThread DEF Prepare
    <3>3. Phases'
      BY <3>0, <3>1, <3>2
    <3>4. Prepared'
      BY <3>0, <3>1, <3>2
    <3>5. CSHeld({"locked", "leave"}, {"fail", "finish"})'
      BY <3>0, <3>1, <3>2
    <3> QED BY <3>3, <3>4, <3>5
  <2>5. CASE AllocFails
    BY <2>5 DEF AllocFails
  <2>6. CASE OpenGate
    <3>1. /\ enc'.CS = enc.CS
          /\ enc'.CanProcessEvent <=> TRUE
          /\ enc'.CanStartWaitingEvent <=> enc.CanStartWaitingEvent
          /\ enc'.CloseThreads <=> enc.CloseThreads
      BY <2>6 DEF OpenGate, CEncoder
    <3>2. \A t \in Thread :
            /\ th'[t].StreamWasFinishedEvent <=> th[t].StreamWasFinishedEvent
            /\ th'[t].WaitingWasStartedEvent <=> th[t].WaitingWasStartedEvent
      BY <2>6 DEF OpenGate, CThreadInfo
    <3>3. Phases'
      BY <2>6, <3>1, <3>2 DEF OpenGate
    <3>4. Prepared'
      BY <2>6, <3>1, <3>2 DEF OpenGate, EncoderEnds
    <3>5. CSHeld({"locked", "leave"}, {"fail", "finish"})'
      BY <2>6, <3>1, <3>2 DEF OpenGate
    <3> QED BY <3>3, <3>4, <3>5
  <2>7. CASE WaitFinished
    <3>1. \A t \in Thread :
            /\ th'[t].StreamWasFinishedEvent <=> (t # i /\ th[t].StreamWasFinishedEvent)
            /\ th'[t].WaitingWasStartedEvent <=> th[t].WaitingWasStartedEvent
      <4> HIDE DEF EncoderInv, Phases
      <4> QED BY <2>7 DEF WaitFinished, CThreadInfo
    <3>3. Phases'
      BY <2>7, <3>1 DEF WaitFinished
    <3>4. Prepared'
      BY <2>7, <3>1 DEF WaitFinished
    <3>5. CSHeld({"locked", "leave"}, {"fail", "finish"})'
      BY <2>7, <3>1 DEF WaitFinished
    <3> QED BY <3>3, <3>4, <3>5
  <2>8. CASE CloseGate
    <3>1. /\ enc'.CS = enc.CS
          /\ enc'.CanProcessEvent <=> FALSE
          /\ enc'.CanStartWaitingEvent <=> enc.CanStartWaitingEvent
      BY <2>8 DEF CloseGate, CEncoder
    <3>3. Phases'
      BY <2>8, <3>1 DEF CloseGate
    <3>4. Prepared'
      BY <2>8, <3>1 DEF CloseGate
    <3>5. CSHeld({"locked", "leave"}, {"fail", "finish"})'
      BY <2>8, <3>1 DEF CloseGate
    <3> QED BY <3>3, <3>4, <3>5
  <2>9. CASE AllowWaiting
    <3>1. /\ enc'.CS = enc.CS
          /\ enc'.CanProcessEvent <=> enc.CanProcessEvent
          /\ enc'.CanStartWaitingEvent <=> TRUE
      BY <2>9 DEF AllowWaiting, CEncoder
    <3>3. Phases'
      BY <2>9, <3>1 DEF AllowWaiting
    <3>4. Prepared'
      BY <2>9, <3>1 DEF AllowWaiting
    <3>5. CSHeld({"locked", "leave"}, {"fail", "finish"})'
      BY <2>9, <3>1 DEF AllowWaiting
    <3> QED BY <3>3, <3>4, <3>5
  <2>10. CASE WaitWaiting
    <3>1. \A t \in Thread :
            /\ th'[t].WaitingWasStartedEvent <=> (t # i /\ th[t].WaitingWasStartedEvent)
            /\ th'[t].StreamWasFinishedEvent <=> th[t].StreamWasFinishedEvent
      <4> HIDE DEF EncoderInv, Phases
      <4> QED BY <2>10 DEF WaitWaiting, CThreadInfo
    <3>3. Phases'
      BY <2>10, <3>1 DEF WaitWaiting
    <3>4. Prepared'
      BY <2>10, <3>1 DEF WaitWaiting
    <3>5. CSHeld({"locked", "leave"}, {"fail", "finish"})'
      BY <2>10, <3>1 DEF WaitWaiting
    <3> QED BY <3>3, <3>4, <3>5
  <2>11. CASE WaitingEnds
    <3>1. /\ enc'.CS = enc.CS
          /\ enc'.CanProcessEvent <=> enc.CanProcessEvent
          /\ enc'.CanStartWaitingEvent <=> FALSE
      BY <2>11 DEF WaitingEnds, CEncoder
    <3>3. Phases'
      BY <2>11, <3>1 DEF WaitingEnds
    <3>4. Prepared'
      BY <2>11, <3>1 DEF WaitingEnds
    <3>5. CSHeld({"locked", "leave"}, {"fail", "finish"})'
      BY <2>11, <3>1 DEF WaitingEnds
    <3> QED BY <3>3, <3>4, <3>5
  <2>12. CASE Return
    BY <2>12 DEF Return
  <2>13. CASE JoinThread
    BY <2>13 DEF JoinThread
  <2>14. CASE Freed
    BY <2>14 DEF Freed
  <2> QED
    BY <1>3, <2>1, <2>2, <2>3, <2>4, <2>5, <2>6, <2>7, <2>8, <2>9, <2>10, <2>11, <2>12,
       <2>13, <2>14 DEF CallerStep
<1>4. CASE Terminating
  BY <1>4 DEF Terminating, vars
<1> QED
  BY <1>1, <1>2, <1>3, <1>4

\* The ring before, during and after a step of the caller.
LEMMA EncoderCallerRing ==
  ASSUME EncoderInv, Code \/ Free \/ CallerStep \/ Terminating
  PROVE  EncoderRing' /\ EncoderEnds' /\ written' \in 0..numRead'
<1> USE Constants DEF MainStep, LoopStep, LoopEnds, EncoderEnds, SuccessIsComplete
<1>0. /\ TypeOK /\ Phases /\ EncoderRing /\ EncoderEnds /\ Prepared
      /\ i \in 0..NumThreads /\ enc \in CEncoder /\ th \in [Thread -> CThreadInfo]
      /\ written \in 0..numRead /\ numRead \in Nat
  BY DEF TypeOK, EncoderInv
<1>1. CASE main' # "finish" /\ main # "finish"
  <2>1. EncoderRing'
    BY <1>1 DEF EncoderRing
  <2>2. CASE Code
    BY <1>0, <2>1, <2>2 DEF Code
  <2>3. CASE Free
    BY <1>0, <2>1, <2>3 DEF Free
  <2>4. CASE Prepare
    <3>1. main' = "start" /\ UNCHANGED <<ret, blocks, numRead, written>>
      BY <2>4 DEF Prepare
    <3>2. ~enc'.StreamWasFinished /\ ~enc'.CloseThreads /\ enc'.NextBlockIndex = 0
      BY <1>0, <2>4 DEF Prepare, CEncoder
    <3> QED BY <1>0, <2>1, <3>1, <3>2
  <2>5. CASE AllowWaiting
    <3>1. enc'.Result = enc.Result
      BY <1>0, <2>5 DEF AllowWaiting, CEncoder
    <3> QED BY <1>0, <2>1, <2>5, <3>1 DEF AllowWaiting
  <2>6. CASE WaitingEnds
    <3>1. enc'.Result = enc.Result
      BY <1>0, <2>6 DEF WaitingEnds, CEncoder
    <3> QED BY <1>0, <2>1, <2>6, <3>1 DEF WaitingEnds
  <2>7. CASE Return
    BY <1>0, <2>1, <2>7 DEF Return
  <2>8. CASE CreateThread \/ CreateFails \/ CreateEnds \/ AllocFails
    BY <1>0, <2>1, <2>8 DEF CreateThread, CreateFails, CreateEnds, AllocFails
  <2>9. CASE WaitWaiting \/ JoinThread \/ Freed
    BY <1>0, <2>1, <2>9 DEF WaitWaiting, JoinThread, Freed
  <2>10. CASE Terminating
    BY <1>0, <2>1, <2>10 DEF Terminating, vars, mainVars
  <2>11. CASE OpenGate \/ WaitFinished \/ CloseGate
    BY <1>1, <2>11 DEF OpenGate, WaitFinished, CloseGate
  <2> QED
    BY <2>2, <2>3, <2>4, <2>5, <2>6, <2>7, <2>8, <2>9, <2>10, <2>11 DEF CallerStep
<1>2. CASE main' = "finish" /\ main # "finish"
  <2>1. OpenGate
    BY <1>2 DEF Code, Free, CallerStep, CreateThread, CreateFails, CreateEnds, Prepare,
       AllocFails, WaitFinished, CloseGate, AllowWaiting, WaitWaiting, WaitingEnds, Return,
       JoinThread, Freed, Terminating, vars, mainVars
  <2>2. /\ main = "start" /\ UNCHANGED <<pc, numRead, written>>
        /\ numRead = 0 /\ written = 0 /\ \A t \in Thread : pc[t] = "canProcess"
        /\ \A k \in Thread : ~th[k].CanWriteEvent
    BY <1>0, <2>1 DEF OpenGate, Prepared, Phases, Parked
  <2>3. ~enc'.StreamWasFinished /\ enc'.NextBlockIndex = 0
    BY <1>0, <2>1 DEF OpenGate, CEncoder
  <2>4. \A k \in Thread : th'[k].CanWriteEvent => k = 0
    BY <1>0, <2>1, <2>2 DEF OpenGate, CThreadInfo
  <2>5. 0 % NumThreads = 0
    OBVIOUS
  <2>6. EncoderRing'
    BY <1>2, <2>2, <2>3, <2>4, <2>5 DEF EncoderRing, NextIndex, EncoderThread, HasBlock, Distinct, OneTurn,
         Failed, Done
  <2> QED
    BY <1>0, <1>2, <2>2, <2>6
<1>3. CASE main' = "finish" /\ main = "finish"
  <2>1. WaitFinished
    BY <1>3 DEF Code, Free, CallerStep, CreateThread, CreateFails, CreateEnds, Prepare,
       AllocFails, OpenGate, CloseGate, AllowWaiting, WaitWaiting, WaitingEnds, Return,
       JoinThread, Freed, Terminating, vars, mainVars
  <2>2. UNCHANGED <<main, blocks, enc, pc, numRead, written>>
    BY <2>1 DEF WaitFinished
  <2>3. \A t \in Thread : /\ th'[t].CanWriteEvent <=> th[t].CanWriteEvent
                          /\ th'[t].m_BlockIndex = th[t].m_BlockIndex
                          /\ th'[t].block = th[t].block /\ th'[t].res = th[t].res
    BY <1>0, <2>1 DEF WaitFinished, CThreadInfo
  <2>4. EncoderRing'
    BY <1>0, <1>3, <2>2, <2>3 DEF EncoderRing, NextIndex, EncoderThread, HasBlock, Distinct, OneTurn,
         Failed, Done
  <2> QED
    BY <1>0, <1>3, <2>2, <2>4
<1>4. CASE main = "finish" /\ main' # "finish"
  <2>1. CloseGate
    BY <1>4 DEF Code, Free, CallerStep, CreateThread, CreateFails, CreateEnds, Prepare,
       AllocFails, OpenGate, WaitFinished, AllowWaiting, WaitWaiting, WaitingEnds, Return,
       JoinThread, Freed, Terminating, vars, mainVars
  <2>2. main' = "allow" /\ i = NumThreads /\ UNCHANGED <<ret, blocks, numRead, written>>
    BY <2>1 DEF CloseGate
  <2>3. enc'.Result = enc.Result
    BY <1>0, <2>1 DEF CloseGate, CEncoder
  <2>4. \A t \in Thread : Done(t)
    BY <1>0, <1>4, <2>2 DEF Phases
  <2>5. ASSUME enc.Result = "OK" PROVE written = blocks
    <3>1. numRead = blocks
      BY Constants, <1>0, <1>4, <2>4, <2>5 DEF EncoderRing, EncoderThread
    <3>2. ASSUME written < numRead PROVE FALSE
      <4>1. written \in written..(numRead - 1)
        BY <1>0, <3>2
      <4>2. PICK t \in Thread : pc[t] \in {"canWrite", "write"} \/ Failed(t)
        BY <1>0, <1>4, <4>1 DEF EncoderRing, HasBlock
      <4> QED
        BY <2>4, <2>5, <4>2 DEF Failed, Done
    <3> QED
      BY <1>0, <3>1, <3>2
  <2>6. EncoderRing'
    BY <2>2 DEF EncoderRing
  <2> QED
    BY <1>0, <2>2, <2>3, <2>5, <2>6
<1> QED
  BY <1>1, <1>2, <1>3, <1>4

\* What a step of a thread does to the phases: only "canProcess", with the gate open,
\* "leave" and the places of the waiting phase are ever reached or left.
LEMMA EncoderThreadPhases ==
  ASSUME EncoderInv, NEW t \in Thread, ThreadStep(t)
  PROVE  Phases' /\ Prepared' /\ CSHeld({"locked", "leave"}, {"fail", "finish"})'
<1> USE Constants DEF Prepared, CSHeld, Parked, Done, mainVars, Step
<1>0. /\ Phases /\ Prepared /\ CSHeld({"locked", "leave"}, {"fail", "finish"})
      /\ i \in 0..NumThreads /\ enc \in CEncoder /\ th \in [Thread -> CThreadInfo]
      /\ pc \in [Thread -> Place] /\ main \in Main /\ th[t].m_BlockIndex \in Thread
  BY DEF TypeOK, EncoderInv, CThreadInfo
<1> USE <1>0
<1>a. /\ pc[t] \in {"canWrite", "write", "next", "fail", "finish"} => main = "finish"
      /\ pc[t] = "locked" /\ ~enc.CloseThreads => main = "finish"
      /\ pc[t] = "waitingWasStarted" => main = "waiting"
  BY DEF Phases, Main
<1>1. CASE Enter(t)
  <2>1. /\ enc'.CS = t
        /\ enc'.CanProcessEvent <=> enc.CanProcessEvent
        /\ enc'.CanStartWaitingEvent <=> enc.CanStartWaitingEvent
        /\ enc'.CloseThreads <=> enc.CloseThreads
    BY <1>1 DEF Enter, CEncoder
  <2> QED BY <1>1, <2>1 DEF Enter, Phases
<1>2. CASE Exit(t) \/ Leave(t)
  <2>1. /\ enc'.CS = NumThreads
        /\ enc'.CanProcessEvent <=> enc.CanProcessEvent
        /\ enc'.CanStartWaitingEvent <=> enc.CanStartWaitingEvent
        /\ enc'.CloseThreads <=> enc.CloseThreads
    BY <1>2 DEF Exit, Leave, CEncoder
  <2>2. CASE Exit(t)
    BY <2>1, <2>2 DEF Exit, Phases
  <2>3. CASE Leave(t)
    BY <2>1, <2>3 DEF Leave, Phases
  <2> QED BY <1>2, <2>2, <2>3
<1>3. CASE SeeFinished(t)
  BY <1>3, <1>a DEF SeeFinished, Phases
<1>4. CASE ReadFails(t)
  <2>1. \A u \in Thread :
          /\ th'[u].StreamWasFinishedEvent <=> th[u].StreamWasFinishedEvent
          /\ th'[u].WaitingWasStartedEvent <=> th[u].WaitingWasStartedEvent
    BY <1>4 DEF ReadFails, CThreadInfo
  <2> QED BY <1>4, <1>a, <2>1 DEF ReadFails, Reads, Phases
<1>5. CASE ReadBlock(t)
  <2>1. \A u \in Thread :
          /\ th'[u].StreamWasFinishedEvent <=> th[u].StreamWasFinishedEvent
          /\ th'[u].WaitingWasStartedEvent <=> th[u].WaitingWasStartedEvent
    BY <1>5 DEF ReadBlock, CThreadInfo
  <2>2. /\ enc'.CS = NumThreads
        /\ enc'.CanProcessEvent <=> enc.CanProcessEvent
        /\ enc'.CanStartWaitingEvent <=> enc.CanStartWaitingEvent
        /\ enc'.CloseThreads <=> enc.CloseThreads
    BY <1>5 DEF ReadBlock, CEncoder
  <2> QED BY <1>5, <1>a, <2>1, <2>2 DEF ReadBlock, Reads, Phases
<1>6. CASE ReadEnd(t)
  <2>1. \A u \in Thread :
          /\ th'[u].StreamWasFinishedEvent <=> th[u].StreamWasFinishedEvent
          /\ th'[u].WaitingWasStartedEvent <=> th[u].WaitingWasStartedEvent
    BY <1>6 DEF ReadEnd, CThreadInfo
  <2>2. /\ enc'.CS = enc.CS
        /\ enc'.CanProcessEvent <=> enc.CanProcessEvent
        /\ enc'.CanStartWaitingEvent <=> enc.CanStartWaitingEvent
        /\ enc'.CloseThreads <=> enc.CloseThreads
    BY <1>6 DEF ReadEnd, CEncoder
  <2> QED BY <1>6, <1>a, <2>1, <2>2 DEF ReadEnd, Reads, Phases
<1>7. CASE WaitCanWrite(t)
  <2>1. \A u \in Thread :
          /\ th'[u].StreamWasFinishedEvent <=> th[u].StreamWasFinishedEvent
          /\ th'[u].WaitingWasStartedEvent <=> th[u].WaitingWasStartedEvent
    BY <1>7 DEF WaitCanWrite, CThreadInfo
  <2> QED BY <1>7, <2>1 DEF WaitCanWrite, Phases
<1>8. CASE WriteBlock(t)
  <2>1. \A u \in Thread :
          /\ th'[u].StreamWasFinishedEvent <=> th[u].StreamWasFinishedEvent
          /\ th'[u].WaitingWasStartedEvent <=> th[u].WaitingWasStartedEvent
    BY <1>8 DEF WriteBlock, CThreadInfo
  <2> QED BY <1>8, <2>1 DEF WriteBlock, Phases
<1>9. CASE SetCanWrite(t)
  <2>1. \A u \in Thread :
          /\ th'[u].StreamWasFinishedEvent <=> th[u].StreamWasFinishedEvent
          /\ th'[u].WaitingWasStartedEvent <=> th[u].WaitingWasStartedEvent
    BY <1>9 DEF SetCanWrite, CThreadInfo
  <2> QED BY <1>9, <2>1 DEF SetCanWrite, Phases
<1>10. CASE Fail(t)
  <2>1. \A u \in Thread :
          /\ th'[u].StreamWasFinishedEvent <=> th[u].StreamWasFinishedEvent
          /\ th'[u].WaitingWasStartedEvent <=> th[u].WaitingWasStartedEvent
    BY <1>10 DEF Fail, CThreadInfo
  <2>2. /\ enc'.CS = enc.CS
        /\ enc'.CanProcessEvent <=> enc.CanProcessEvent
        /\ enc'.CanStartWaitingEvent <=> enc.CanStartWaitingEvent
        /\ enc'.CloseThreads <=> enc.CloseThreads
    BY <1>10 DEF Fail, CEncoder
  <2> QED BY <1>10, <2>1, <2>2 DEF Fail, Phases
<1>11. CASE FinishStream(t)
  <2>1. \A u \in Thread :
          /\ th'[u].StreamWasFinishedEvent <=> (u = t \/ th[u].StreamWasFinishedEvent)
          /\ th'[u].WaitingWasStartedEvent <=> th[u].WaitingWasStartedEvent
    BY <1>11 DEF FinishStream, CThreadInfo
  <2>2. /\ enc'.CS = enc.CS
        /\ enc'.CanProcessEvent <=> enc.CanProcessEvent
        /\ enc'.CanStartWaitingEvent <=> enc.CanStartWaitingEvent
        /\ enc'.CloseThreads <=> enc.CloseThreads
    BY <1>11 DEF FinishStream, CEncoder
  <2>3. main = "finish" /\ pc[t] = "finish"
    BY <1>11, <1>a DEF FinishStream
  <2>4. Phases'
    BY <1>11, <2>1, <2>2, <2>3 DEF FinishStream, Phases
  <2>5. Prepared'
    BY <1>11, <2>2, <2>3 DEF FinishStream
  <2>6. CSHeld({"locked", "leave"}, {"fail", "finish"})'
    BY <1>11, <2>2, <2>3 DEF FinishStream, InCS
  <2> QED BY <2>4, <2>5, <2>6
<1>12. CASE WaitCanStartWaiting(t)
  BY <1>12 DEF WaitCanStartWaiting, Phases
<1>13. CASE SetWaitingWasStarted(t)
  <2>1. \A u \in Thread :
          /\ th'[u].StreamWasFinishedEvent <=> th[u].StreamWasFinishedEvent
          /\ th'[u].WaitingWasStartedEvent <=> (u = t \/ th[u].WaitingWasStartedEvent)
    BY <1>13 DEF SetWaitingWasStarted, CThreadInfo
  <2>2. main = "waiting" /\ pc[t] = "waitingWasStarted"
    BY <1>13, <1>a DEF SetWaitingWasStarted
  <2>3. Phases'
    BY <1>13, <2>1, <2>2 DEF SetWaitingWasStarted, Phases
  <2> QED BY <1>13, <2>2, <2>3 DEF SetWaitingWasStarted
<1> QED
  BY <1>6, <1>1, <1>2, <1>3, <1>4, <1>5, <1>7, <1>8, <1>9, <1>10, <1>11, <1>12, <1>13 DEF ThreadStep

\* The threads outside of a call of Code touch neither ring nor result.
LEMMA EncoderThreadEnds ==
  ASSUME EncoderInv, NEW t \in Thread, ThreadStep(t), main # "finish"
  PROVE  EncoderRing' /\ EncoderEnds' /\ written' \in 0..numRead'
<1>1. /\ TypeOK /\ Phases /\ EncoderEnds /\ main' = main /\ enc \in CEncoder
      /\ pc[t] \in {"canProcess", "locked", "leave", "canStartWaiting", "waitingWasStarted"}
      /\ pc[t] = "canProcess" /\ enc.CanProcessEvent => main \in {"join", "destroyed"}
      /\ pc[t] = "locked" => main \in {"join", "destroyed"} /\ enc.CloseThreads
      /\ pc[t] = "leave" => main \in {"allow", "waiting"}
  BY DEF EncoderInv, TypeOK, Main, Phases, Done, Parked, ThreadStep, Enter, Exit, SeeFinished,
     ReadFails, ReadBlock, ReadEnd, WaitCanWrite, WriteBlock, SetCanWrite, Fail, FinishStream,
     Leave, WaitCanStartWaiting, SetWaitingWasStarted, Step, mainVars
<1>2. Enter(t) \/ Exit(t) \/ Leave(t) \/ WaitCanStartWaiting(t) \/ SetWaitingWasStarted(t)
  BY <1>1 DEF ThreadStep, SeeFinished, ReadFails, ReadBlock, ReadEnd, Reads, WaitCanWrite,
     WriteBlock, SetCanWrite, Fail, FinishStream, Step
<1>3. enc'.Result = enc.Result /\ UNCHANGED <<mainVars, numRead, written>>
  BY <1>1, <1>2 DEF Enter, Exit, Leave, WaitCanStartWaiting, SetWaitingWasStarted, Step, CEncoder
<1>4. main # "start"
  BY <1>1, <1>2 DEF Phases, Parked, Enter, Exit, Leave, WaitCanStartWaiting,
     SetWaitingWasStarted, Step
<1> QED
  BY <1>1, <1>3, <1>4 DEF EncoderRing, EncoderEnds, SuccessIsComplete, TypeOK, mainVars

\* Not more blocks are between the one written next and the one read next than
\* there are threads.
LEMMA EncoderOutstanding ==
  ASSUME TypeOK, EncoderRing, main = "finish"
  PROVE  numRead <= written + NumThreads
<1> DEFINE at == [t \in Thread |-> th[t].block]
<1>1. written \in Nat /\ numRead \in Nat /\ written <= numRead
  BY Constants DEF TypeOK
<1>2. \A b \in written..(numRead - 1) : \E t \in Thread : at[t] = b
  BY DEF EncoderRing, HasBlock
<1> HIDE DEF at
<1> QED
  BY <1>1, <1>2, AsManyAsThreads

\* The ring, step by step.
LEMMA EncoderThreadRing ==
  ASSUME EncoderInv, NEW t \in Thread, ThreadStep(t), main = "finish"
  PROVE  EncoderRing' /\ written' \in 0..numRead'
<1> USE Constants DEF Step, mainVars
<1>0. /\ TypeOK /\ EncoderRing
      /\ pc[t] \in {"locked", "leave"} => enc.CS = t
      /\ enc.CS = t => pc[t] \in {"locked", "leave", "fail", "finish"}
      /\ ~enc.CloseThreads /\ ~enc.CanStartWaitingEvent
      /\ \A u \in Thread : pc[u] \notin {"none", "waitingWasStarted", "exited"}
  BY DEF EncoderInv, Phases, CSHeld, Prepared
<1>1. /\ numRead \in Nat /\ written \in Nat /\ written <= numRead /\ written \in 0..numRead
      /\ enc \in CEncoder /\ th \in [Thread -> CThreadInfo] /\ pc \in [Thread -> Place]
      /\ \A u \in Thread : th[u].m_BlockIndex \in Thread /\ th[u].block \in Nat
  <2>1. /\ enc \in CEncoder /\ th \in [Thread -> CThreadInfo] /\ pc \in [Thread -> Place]
        /\ blocks \in 0..MaxBlocks /\ numRead \in 0..blocks /\ written \in 0..numRead
    BY <1>0 DEF TypeOK
  <2>2. \A u \in Thread : th[u].m_BlockIndex \in Thread /\ th[u].block \in 0..MaxBlocks
    BY <2>1 DEF CThreadInfo
  <2> QED
    BY <2>1, <2>2
<1>2. /\ NextIndex(enc.StreamWasFinished)
      /\ \A u \in Thread : EncoderThread(u)
      /\ Distinct({"canWrite", "write"}) /\ OneTurn({"write", "next"}, written)
      /\ \A b \in written..(numRead - 1) : \E u \in Thread : HasBlock(u, b)
      /\ enc.StreamWasFinished /\ enc.Result = "OK" => numRead = blocks
  BY <1>0 DEF EncoderRing
<1>3. CASE Enter(t)
  <2>1. /\ enc'.CS = t /\ enc.CS = NumThreads
        /\ enc'.NextBlockIndex = enc.NextBlockIndex /\ enc'.Result = enc.Result
        /\ enc'.StreamWasFinished <=> enc.StreamWasFinished
        /\ pc[t] = "canProcess" /\ pc' = [pc EXCEPT ![t] = "locked"]
        /\ UNCHANGED <<mainVars, th, numRead, written>>
    BY <1>1, <1>3 DEF Enter, CEncoder
  <2>2. NextIndex(enc.StreamWasFinished)'
    BY <1>1, <1>2, <2>1 DEF NextIndex
  <2>3. \A u \in Thread : EncoderThread(u)'
    BY <1>1, <1>2, <2>1 DEF EncoderThread, Done
  <2>4. \A u \in Thread : /\ pc'[u] \in {"canWrite", "write"} <=> pc[u] \in {"canWrite", "write"}
                          /\ pc'[u] \in {"write", "next"} <=> pc[u] \in {"write", "next"}
                          /\ Failed(u) => Failed(u)'
    BY <1>1, <2>1 DEF Failed
  <2>5. Distinct({"canWrite", "write"})' /\ OneTurn({"write", "next"}, written)'
    <3>1. Distinct({"canWrite", "write"})'
      BY <1>2, <2>1, <2>4 DEF Distinct
    <3>2. OneTurn({"write", "next"}, written)'
      BY <1>2, <2>1, <2>4 DEF OneTurn
    <3> QED BY <3>1, <3>2
  <2>6. ASSUME NEW b \in written..(numRead - 1) PROVE \E u \in Thread : HasBlock(u, b)'
    BY <1>2, <2>1, <2>4 DEF HasBlock
  <2> QED
    BY <1>1, <1>2, <2>1, <2>2, <2>3, <2>5, <2>6 DEF EncoderRing
<1>4. CASE SeeFinished(t)
  <2>1. /\ pc[t] = "locked" /\ pc' = [pc EXCEPT ![t] = "finish"] /\ enc.StreamWasFinished
        /\ UNCHANGED <<mainVars, enc, th, numRead, written>>
    BY <1>4 DEF SeeFinished
  <2>2. NextIndex(enc.StreamWasFinished)'
    BY <2>1 DEF NextIndex
  <2>3. \A u \in Thread : EncoderThread(u)'
    BY <1>1, <1>2, <2>1 DEF EncoderThread, Done
  <2>4. \A u \in Thread : /\ pc'[u] \in {"canWrite", "write"} <=> pc[u] \in {"canWrite", "write"}
                          /\ pc'[u] \in {"write", "next"} <=> pc[u] \in {"write", "next"}
                          /\ Failed(u) => Failed(u)'
    BY <1>1, <2>1 DEF Failed
  <2>5. Distinct({"canWrite", "write"})' /\ OneTurn({"write", "next"}, written)'
    <3>1. Distinct({"canWrite", "write"})'
      BY <1>2, <2>1, <2>4 DEF Distinct
    <3>2. OneTurn({"write", "next"}, written)'
      BY <1>2, <2>1, <2>4 DEF OneTurn
    <3> QED BY <3>1, <3>2
  <2>6. ASSUME NEW b \in written..(numRead - 1) PROVE \E u \in Thread : HasBlock(u, b)'
    BY <1>2, <2>1, <2>4 DEF HasBlock
  <2> QED
    BY <1>1, <1>2, <2>1, <2>2, <2>3, <2>5, <2>6 DEF EncoderRing
<1>5. CASE ReadFails(t)
  <2>1. /\ pc[t] = "locked" /\ pc' = [pc EXCEPT ![t] = "fail"] /\ enc.CS = t
        /\ UNCHANGED <<mainVars, enc, numRead, written>>
        /\ th'[t].res = "READ"
        /\ \A u \in Thread : /\ th'[u].CanWriteEvent <=> th[u].CanWriteEvent
                             /\ th'[u].m_BlockIndex = th[u].m_BlockIndex
                             /\ th'[u].block = th[u].block
                             /\ u # t => th'[u].res = th[u].res
    BY <1>0, <1>1, <1>5 DEF ReadFails, CThreadInfo
  <2>2. NextIndex(enc.StreamWasFinished)'
    BY <1>1, <2>1 DEF NextIndex
  <2>3. \A u \in Thread : EncoderThread(u)'
    BY <1>1, <1>2, <2>1 DEF EncoderThread, Done
  <2>4. \A u \in Thread : /\ pc'[u] \in {"canWrite", "write"} <=> pc[u] \in {"canWrite", "write"}
                          /\ pc'[u] \in {"write", "next"} <=> pc[u] \in {"write", "next"}
                          /\ Failed(u) => Failed(u)'
    BY <1>1, <2>1 DEF Failed
  <2>5. Distinct({"canWrite", "write"})' /\ OneTurn({"write", "next"}, written)'
    <3>1. Distinct({"canWrite", "write"})'
      BY <1>2, <2>1, <2>4 DEF Distinct
    <3>2. OneTurn({"write", "next"}, written)'
      BY <1>2, <2>1, <2>4 DEF OneTurn
    <3> QED BY <3>1, <3>2
  <2>6. ASSUME NEW b \in written..(numRead - 1) PROVE \E u \in Thread : HasBlock(u, b)'
    BY <1>2, <2>1, <2>4 DEF HasBlock
  <2> QED
    BY <1>1, <1>2, <2>1, <2>2, <2>3, <2>5, <2>6 DEF EncoderRing
<1>6. CASE ReadBlock(t)
  <2>1. /\ pc[t] = "locked" /\ pc' = [pc EXCEPT ![t] = "canWrite"] /\ enc.CS = t
        /\ UNCHANGED <<mainVars, written>> /\ numRead' = numRead + 1 /\ numRead < blocks
        /\ ~enc.StreamWasFinished
        /\ th'[t].block = numRead /\ th'[t].m_BlockIndex = enc.NextBlockIndex
        /\ \A u \in Thread : /\ th'[u].CanWriteEvent <=> th[u].CanWriteEvent
                             /\ u # t => th'[u].m_BlockIndex = th[u].m_BlockIndex
                             /\ u # t => th'[u].block = th[u].block
                             /\ th'[u].res = th[u].res
    BY <1>0, <1>1, <1>6 DEF ReadBlock, Reads, CThreadInfo
  <2>2. /\ enc'.CS = NumThreads /\ enc'.Result = enc.Result
        /\ enc'.StreamWasFinished <=> enc.StreamWasFinished
        /\ enc'.NextBlockIndex = NextInRing(enc.NextBlockIndex)
    BY <1>1, <1>6 DEF ReadBlock, CEncoder
  <2>3. enc.NextBlockIndex = numRead % NumThreads
    BY <1>2, <2>1 DEF NextIndex
  <2>4. NextIndex(enc.StreamWasFinished)'
    BY <1>1, <2>1, <2>2, <2>3, RingNext DEF NextIndex
  <2>5. ASSUME NEW u \in Thread PROVE EncoderThread(u)'
    <3>1. CASE u = t
      BY <1>1, <2>1, <2>3, <3>1 DEF EncoderThread, Done
    <3>2. CASE u # t
      <4>1. pc'[u] = pc[u] /\ th'[u].block = th[u].block /\ th'[u].m_BlockIndex = th[u].m_BlockIndex
        BY <1>1, <2>1, <3>2
      <4>2. EncoderThread(u) /\ th'[u].res = th[u].res
        BY <1>2, <2>1
      <4>3. pc[u] \in {"canWrite", "write"} => th[u].block \in written..(numRead' - 1)
        BY <1>1, <2>1, <4>2 DEF EncoderThread
      <4>4. pc[u] = "finish" => enc.Result # "OK"
        BY <1>1, <2>1, <4>2 DEF EncoderThread
      <4>5. ~Done(u)
        BY <2>1, <4>2 DEF EncoderThread
      <4> QED
        BY <2>1, <2>2, <4>1, <4>2, <4>3, <4>4, <4>5 DEF EncoderThread, Done
    <3> QED BY <3>1, <3>2
  <2>6. Distinct({"canWrite", "write"})'
    BY <1>1, <1>2, <2>1 DEF Distinct, EncoderThread
  <2>7. OneTurn({"write", "next"}, written)'
    BY <1>1, <1>2, <2>1 DEF OneTurn
  <2>8. ASSUME NEW b \in written..(numRead' - 1) PROVE \E u \in Thread : HasBlock(u, b)'
    <3>1. CASE b = numRead
      BY <1>1, <2>1, <3>1 DEF HasBlock
    <3>2. CASE b # numRead
      <4>0. b \in written..(numRead - 1)
        BY <1>1, <2>1, <3>2
      <4>1. PICK u \in Thread : HasBlock(u, b)
        BY <1>2, <4>0
      <4> QED
        BY <1>1, <2>1, <2>2, <4>1 DEF HasBlock, Failed
    <3> QED BY <3>1, <3>2
  <2>9. UNCHANGED <<main, blocks, written>> /\ ~enc'.StreamWasFinished
    BY <2>1, <2>2
  <2>10. written' \in 0..numRead'
    BY <1>1, <2>1
  <2> QED
    BY <2>4, <2>5, <2>6, <2>7, <2>8, <2>9, <2>10 DEF EncoderRing
<1>7. CASE ReadEnd(t)
  <2>1. /\ pc[t] = "locked" /\ pc' = [pc EXCEPT ![t] = "finish"] /\ enc.CS = t
        /\ UNCHANGED <<mainVars, numRead, written>> /\ numRead = blocks
        /\ \A u \in Thread : /\ th'[u].CanWriteEvent <=> th[u].CanWriteEvent
                             /\ u # t => th'[u].m_BlockIndex = th[u].m_BlockIndex
                             /\ th'[u].block = th[u].block
                             /\ th'[u].res = th[u].res
    BY <1>0, <1>1, <1>7 DEF ReadEnd, CThreadInfo
  <2>2. /\ enc'.CS = t /\ enc'.Result = enc.Result
        /\ enc'.StreamWasFinished <=> enc.StreamWasFinished
    BY <1>1, <1>7, <2>1 DEF ReadEnd, CEncoder
  <2>3. NextIndex(enc.StreamWasFinished)'
    BY <1>1, <2>1, <2>2 DEF NextIndex
  <2>4. \A u \in Thread : EncoderThread(u)'
    BY <1>1, <1>2, <2>1, <2>2 DEF EncoderThread, Done
  <2>5. Distinct({"canWrite", "write"})' /\ OneTurn({"write", "next"}, written)'
    BY <1>1, <1>2, <2>1 DEF Distinct, OneTurn
  <2>6. \A b \in written..(numRead - 1) : \E u \in Thread : HasBlock(u, b)'
    BY <1>1, <1>2, <2>1, <2>2 DEF HasBlock, Failed
  <2> QED
    BY <1>1, <1>2, <2>1, <2>2, <2>3, <2>4, <2>5, <2>6 DEF EncoderRing
<1>8. CASE WaitCanWrite(t)
  <2> DEFINE k == th[t].m_BlockIndex
  <2>1. /\ pc[t] = "canWrite" /\ pc' = [pc EXCEPT ![t] = "write"] /\ th[k].CanWriteEvent
        /\ UNCHANGED <<mainVars, enc, numRead, written>>
        /\ \A u \in Thread : /\ th'[u].CanWriteEvent <=> (u # k /\ th[u].CanWriteEvent)
                             /\ th'[u].m_BlockIndex = th[u].m_BlockIndex
                             /\ th'[u].block = th[u].block
                             /\ th'[u].res = th[u].res
    BY <1>1, <1>8 DEF WaitCanWrite, CThreadInfo
  <2>2. /\ k = th[t].block % NumThreads /\ th[t].block \in written..(numRead - 1)
        /\ k = written % NumThreads /\ \A u \in Thread : pc[u] \notin {"write", "next"}
    BY <1>1, <1>2, <2>1 DEF EncoderThread, OneTurn
  <2>3. th[t].block = written
    <3>1. numRead <= written + NumThreads
      BY <1>0, EncoderOutstanding
    <3> QED
      BY <1>1, <2>2, <3>1, RingDistinct
  <2>4. NextIndex(enc.StreamWasFinished)'
    BY <1>0, <1>1, <1>2, <2>1 DEF NextIndex
  <2>5. \A u \in Thread : EncoderThread(u)'
    BY <1>1, <1>2, <2>1, <2>2, <2>3 DEF EncoderThread, Done
  <2>6. Distinct({"canWrite", "write"})'
    BY <1>1, <1>2, <2>1 DEF Distinct
  <2>7. OneTurn({"write", "next"}, written)'
    <3>1. \A u \in Thread : ~th'[u].CanWriteEvent
      BY <1>1, <1>2, <2>1, <2>2 DEF OneTurn
    <3> QED
      BY <1>1, <2>1, <2>2, <3>1 DEF OneTurn
  <2>8. \A b \in written..(numRead - 1) : \E u \in Thread : HasBlock(u, b)'
    BY <1>1, <1>2, <2>1 DEF HasBlock, Failed
  <2> QED
    BY <1>1, <1>2, <2>1, <2>4, <2>5, <2>6, <2>7, <2>8 DEF EncoderRing
<1>9. CASE WriteBlock(t)
  <2>1. /\ pc[t] = "write" /\ UNCHANGED <<mainVars, enc, numRead>>
        /\ \A u \in Thread : /\ th'[u].CanWriteEvent <=> th[u].CanWriteEvent
                             /\ th'[u].m_BlockIndex = th[u].m_BlockIndex
                             /\ th'[u].block = th[u].block
                             /\ u # t => th'[u].res = th[u].res
    BY <1>1, <1>9 DEF WriteBlock, CThreadInfo
  <2>2. \/ pc' = [pc EXCEPT ![t] = "next"] /\ written' = written + 1
        \/ pc' = [pc EXCEPT ![t] = "fail"] /\ written' = written /\ th'[t].res = "WRITE"
    <3>1. PICK r \in {"OK"} \cup (Failure \cap {"WRITE"}) :
            /\ pc' = [pc EXCEPT ![t] = IF r = "OK" THEN "next" ELSE "fail"]
            /\ th' = [th EXCEPT ![t].res = r]
            /\ written' = IF r = "OK" THEN written + 1 ELSE written
      BY <1>9 DEF WriteBlock
    <3>2. r = "OK" \/ r = "WRITE"
      OBVIOUS
    <3>3. th'[t].res = r
      BY <1>1, <3>1 DEF CThreadInfo
    <3> QED
      BY <3>1, <3>2, <3>3
  <2>3. /\ th[t].block = written /\ written < numRead
        /\ \A u \in Thread : u # t => pc[u] \notin {"write", "next"}
        /\ \A u \in Thread : ~th[u].CanWriteEvent
    BY <1>1, <1>2, <2>1 DEF EncoderThread, OneTurn
  <2>4. NextIndex(enc.StreamWasFinished)'
    <3>1. enc.CS \in Thread => pc'[enc.CS] = pc[enc.CS]
      BY <1>0, <1>1, <2>1, <2>2
    <3>2. enc.CS \in Thread \cup {NumThreads}
      BY <1>1 DEF CEncoder
    <3> QED
      BY <1>2, <2>1, <3>1, <3>2 DEF NextIndex
  <2>5. ASSUME NEW u \in Thread PROVE EncoderThread(u)'
    <3>1. CASE u = t
      BY <1>1, <1>2, <2>1, <2>2, <2>3, <3>1 DEF EncoderThread, Done
    <3>2. CASE u # t
      <4>1. pc'[u] = pc[u]
        BY <1>1, <2>2, <3>2
      <4>2. pc[u] = "canWrite" => th[u].block # written
        BY <1>2, <2>1, <2>3, <3>2 DEF Distinct
      <4>3. pc[u] \in {"canWrite", "write"} => th[u].block \in written'..(numRead - 1)
        BY <1>1, <1>2, <2>2, <2>3, <3>2, <4>2 DEF EncoderThread
      <4> QED
        BY <1>1, <1>2, <2>1, <2>3, <3>2, <4>1, <4>3 DEF EncoderThread, Done
    <3> QED BY <3>1, <3>2
  <2>6. Distinct({"canWrite", "write"})'
    BY <1>1, <1>2, <2>1, <2>2 DEF Distinct
  <2>7. OneTurn({"write", "next"}, written)'
    BY <1>1, <2>1, <2>2, <2>3 DEF OneTurn
  <2>8. ASSUME NEW b \in written'..(numRead - 1) PROVE \E u \in Thread : HasBlock(u, b)'
    <3>1. b \in written..(numRead - 1) /\ (b = written => pc'[t] = "fail")
      BY <1>1, <2>2
    <3>2. PICK u \in Thread : HasBlock(u, b)
      BY <1>2, <3>1
    <3>3. CASE u = t
      BY <1>1, <2>1, <2>2, <2>3, <3>1, <3>2, <3>3 DEF HasBlock, Failed
    <3>4. CASE u # t
      BY <1>1, <2>1, <2>2, <3>2, <3>4 DEF HasBlock, Failed
    <3> QED BY <3>3, <3>4
  <2>9. written' \in 0..numRead'
    BY <1>1, <2>1, <2>2, <2>3
  <2> QED
    BY <1>1, <1>2, <2>1, <2>4, <2>5, <2>6, <2>7, <2>8, <2>9 DEF EncoderRing
<1>10. CASE SetCanWrite(t)
  <2> DEFINE k == NextInRing(th[t].m_BlockIndex)
  <2>1. /\ pc[t] = "next" /\ UNCHANGED <<mainVars, enc, numRead, written>>
        /\ \/ pc' = [pc EXCEPT ![t] = "canProcess"]
           \/ pc' = [pc EXCEPT ![t] = "fail"] /\ th'[t].res = "PROGRESS"
        /\ \A u \in Thread : /\ th'[u].CanWriteEvent <=> (u = k \/ th[u].CanWriteEvent)
                             /\ th'[u].m_BlockIndex = th[u].m_BlockIndex
                             /\ th'[u].block = th[u].block
                             /\ u # t => th'[u].res = th[u].res
    BY <1>1, <1>10 DEF SetCanWrite, CThreadInfo
  <2>2. /\ th[t].block = written - 1 /\ th[t].m_BlockIndex = th[t].block % NumThreads
        /\ \A u \in Thread : u # t => pc[u] \notin {"write", "next"}
        /\ \A u \in Thread : ~th[u].CanWriteEvent
    BY <1>1, <1>2, <2>1 DEF EncoderThread, OneTurn
  <2>3. k = written % NumThreads
    <3>1. th[t].block \in Nat /\ th[t].block + 1 = written
      BY <1>1, <2>2
    <3> QED
      BY <2>2, <3>1, RingNext
  <2>4. NextIndex(enc.StreamWasFinished)'
    <3>1. enc.CS \in Thread => pc'[enc.CS] = pc[enc.CS]
      BY <1>0, <1>1, <2>1
    <3>2. enc.CS \in Thread \cup {NumThreads}
      BY <1>1 DEF CEncoder
    <3> QED
      BY <1>2, <2>1, <3>1, <3>2 DEF NextIndex
  <2>5. \A u \in Thread : EncoderThread(u)'
    BY <1>1, <1>2, <2>1 DEF EncoderThread, Done
  <2>6. Distinct({"canWrite", "write"})'
    <3>1. \A u \in Thread : pc'[u] \in {"canWrite", "write"} => pc[u] \in {"canWrite", "write"}
      BY <1>1, <2>1
    <3> QED
      BY <1>2, <2>1, <3>1 DEF Distinct
  <2>7. OneTurn({"write", "next"}, written)'
    <3>1. \A u \in Thread : pc'[u] \notin {"write", "next"}
      BY <1>1, <2>1, <2>2
    <3>2. \A u \in Thread : th'[u].CanWriteEvent => u = written % NumThreads
      BY <2>1, <2>2, <2>3
    <3> QED
      BY <2>1, <3>1, <3>2 DEF OneTurn
  <2>8. \A b \in written..(numRead - 1) : \E u \in Thread : HasBlock(u, b)'
    BY <1>1, <1>2, <2>1 DEF HasBlock, Failed
  <2> QED
    BY <1>1, <1>2, <2>1, <2>4, <2>5, <2>6, <2>7, <2>8 DEF EncoderRing
<1>11. CASE Fail(t)
  <2>1. /\ pc[t] = "fail" /\ pc' = [pc EXCEPT ![t] = "finish"]
        /\ UNCHANGED <<mainVars, numRead, written>>
        /\ \A u \in Thread : /\ th'[u].CanWriteEvent <=> th[u].CanWriteEvent
                             /\ th'[u].m_BlockIndex = th[u].m_BlockIndex
                             /\ th'[u].block = th[u].block
                             /\ u # t => th'[u].res = th[u].res
    BY <1>1, <1>11 DEF Fail, CThreadInfo
  <2>2. /\ enc'.CS = enc.CS /\ enc'.Result # "OK"
        /\ enc'.StreamWasFinished <=> enc.StreamWasFinished
        /\ enc'.NextBlockIndex = enc.NextBlockIndex
    BY <1>1, <1>2, <1>11, <2>1 DEF Fail, CEncoder, EncoderThread
  <2>3. NextIndex(enc.StreamWasFinished)'
    BY <1>0, <1>1, <1>2, <2>1, <2>2 DEF NextIndex
  <2>4. \A u \in Thread : EncoderThread(u)'
    BY <1>1, <1>2, <2>1, <2>2 DEF EncoderThread, Done
  <2>5. Distinct({"canWrite", "write"})' /\ OneTurn({"write", "next"}, written)'
    BY <1>1, <1>2, <2>1 DEF Distinct, OneTurn
  <2>6. \A b \in written..(numRead - 1) : \E u \in Thread : HasBlock(u, b)'
    BY <1>1, <1>2, <2>1, <2>2 DEF HasBlock, Failed
  <2> QED
    BY <1>1, <1>2, <2>1, <2>2, <2>3, <2>4, <2>5, <2>6 DEF EncoderRing
<1>12. CASE FinishStream(t)
  <2>1. /\ pc[t] = "finish" /\ UNCHANGED <<mainVars, numRead, written>>
        /\ \/ pc' = [pc EXCEPT ![t] = "leave"]
           \/ pc' = [pc EXCEPT ![t] = "canStartWaiting"]
        /\ th' = [th EXCEPT ![t].StreamWasFinishedEvent = TRUE]
    BY <1>12 DEF FinishStream
  <2>2. \A u \in Thread : /\ th'[u].CanWriteEvent <=> th[u].CanWriteEvent
                          /\ th'[u].m_BlockIndex = th[u].m_BlockIndex
                          /\ th'[u].block = th[u].block
                          /\ th'[u].res = th[u].res
    BY <1>1, <2>1 DEF CThreadInfo
  <2>3. enc'.Result = enc.Result /\ enc'.StreamWasFinished
    BY <1>1, <1>12 DEF FinishStream, CEncoder
  <2>4. NextIndex(enc.StreamWasFinished)'
    BY <2>3 DEF NextIndex
  <2>5. \A u \in Thread : EncoderThread(u)'
    BY <1>1, <1>2, <2>1, <2>3, <2>2 DEF EncoderThread, Done
  <2>6. Distinct({"canWrite", "write"})' /\ OneTurn({"write", "next"}, written)'
    BY <1>1, <1>2, <2>1, <2>2 DEF Distinct, OneTurn
  <2>7. \A b \in written..(numRead - 1) : \E u \in Thread : HasBlock(u, b)'
    BY <1>1, <1>2, <2>1, <2>3, <2>2 DEF HasBlock, Failed
  <2>8. enc'.Result = "OK" => numRead = blocks
    BY <1>2, <2>1, <2>3 DEF EncoderThread
  <2> QED
    BY <1>1, <1>2, <2>1, <2>3, <2>4, <2>5, <2>6, <2>7, <2>8 DEF EncoderRing
<1>13. CASE Leave(t)
  <2>1. /\ pc[t] = "leave" /\ pc' = [pc EXCEPT ![t] = "canStartWaiting"]
        /\ UNCHANGED <<mainVars, th, numRead, written>>
        /\ enc'.Result = enc.Result
        /\ enc'.StreamWasFinished <=> enc.StreamWasFinished
    BY <1>1, <1>13 DEF Leave, CEncoder
  <2>2. NextIndex(enc.StreamWasFinished)'
    BY <1>2, <2>1 DEF NextIndex, EncoderThread, Done
  <2>3. \A u \in Thread : EncoderThread(u)'
    BY <1>1, <1>2, <2>1 DEF EncoderThread, Done
  <2>4. Distinct({"canWrite", "write"})' /\ OneTurn({"write", "next"}, written)'
    BY <1>1, <1>2, <2>1 DEF Distinct, OneTurn
  <2>5. \A b \in written..(numRead - 1) : \E u \in Thread : HasBlock(u, b)'
    BY <1>1, <1>2, <2>1 DEF HasBlock, Failed
  <2> QED
    BY <1>1, <1>2, <2>1, <2>2, <2>3, <2>4, <2>5 DEF EncoderRing
<1> QED
  BY <1>0, <1>3, <1>4, <1>5, <1>6, <1>7, <1>8, <1>9, <1>10, <1>11, <1>12, <1>13
     DEF ThreadStep, Exit, WaitCanStartWaiting, SetWaitingWasStarted

\* The invariant holds before the first call of the encoder.
LEMMA EncoderInitial == Init => EncoderInv
<1> SUFFICES ASSUME Init PROVE EncoderInv
  OBVIOUS
<1> USE Constants DEF Init
<1>1. TypeOK
  <2>1. enc \in CEncoder
    BY DEF CEncoder, Result
  <2>2. [StreamWasFinishedEvent |-> FALSE, WaitingWasStartedEvent |-> FALSE,
         CanWriteEvent |-> FALSE, m_BlockIndex |-> 0, block |-> 0, res |-> "OK"] \in CThreadInfo
    <3>1. 0 \in Thread /\ 0 \in 0..MaxBlocks
      OBVIOUS
    <3> QED BY <3>1 DEF CThreadInfo, Result
  <2> QED
    BY <2>1, <2>2 DEF TypeOK, Main, Place, Result
<1>2. Phases
  BY DEF Phases, Parked, Done
<1>3. Prepared /\ CSHeld({"locked", "leave"}, {"fail", "finish"})
  BY DEF Prepared, CSHeld
<1>4. EncoderRing /\ EncoderEnds
  BY DEF EncoderRing, EncoderEnds, SuccessIsComplete
<1> QED
  BY <1>1, <1>2, <1>3, <1>4 DEF EncoderInv

\* Every step of the encoder keeps it.
LEMMA EncoderStep == EncoderInv /\ [Next]_vars => EncoderInv'
<1> SUFFICES ASSUME EncoderInv, [Next]_vars PROVE EncoderInv'
  OBVIOUS
<1>1. CASE Code \/ Free \/ CallerStep \/ Terminating
  <2>1. TypeOK'
    BY <1>1, EncoderTypes, EncoderCallerRing DEF EncoderInv, Next
  <2> QED
    BY <1>1, <2>1, EncoderCallerPhases, EncoderCallerRing DEF EncoderInv
<1>2. ASSUME NEW t \in Thread, ThreadStep(t) PROVE EncoderInv'
  <2>1. EncoderRing' /\ EncoderEnds' /\ written' \in 0..numRead'
    <3>1. CASE main = "finish"
      <4>1. main' = main /\ EncoderRing' /\ written' \in 0..numRead'
        BY <1>2, <3>1, EncoderThreadRing DEF ThreadStep, Enter, Exit, SeeFinished, ReadFails,
           ReadBlock, ReadEnd, WaitCanWrite, WriteBlock, SetCanWrite, Fail, FinishStream,
           Leave, WaitCanStartWaiting, SetWaitingWasStarted, Step, mainVars
      <4> QED
        BY <3>1, <4>1 DEF EncoderEnds, SuccessIsComplete
    <3> QED
      BY <1>2, <3>1, EncoderThreadEnds
  <2>2. TypeOK'
    BY <1>2, <2>1, EncoderTypes DEF EncoderInv, Next
  <2> QED
    BY <1>2, <2>1, <2>2, EncoderThreadPhases DEF EncoderInv
<1>3. CASE UNCHANGED vars
  BY <1>3 DEF vars, mainVars, EncoderInv, TypeOK, Phases, Parked, Done, Prepared, CSHeld,
     EncoderRing, NextIndex, EncoderThread, Distinct, OneTurn, HasBlock, Failed, EncoderEnds,
     SuccessIsComplete
<1> QED
  BY <1>1, <1>2, <1>3 DEF Next

\* The invariant gives the properties that the run checks.
LEMMA EncoderInvImplies ==
  EncoderInv => TypeOK /\ BlocksInOrder /\ SuccessIsComplete /\ ThreadsAreParked
<1> SUFFICES ASSUME EncoderInv PROVE BlocksInOrder /\ ThreadsAreParked
  BY DEF EncoderInv, EncoderEnds
<1>0. TypeOK /\ Phases /\ EncoderRing /\ CSHeld({"locked", "leave"}, {"fail", "finish"})
  BY DEF EncoderInv
<1>1. BlocksInOrder
  <2>1. ASSUME NEW t \in Thread, pc[t] \in {"write", "next"} PROVE main = "finish"
    BY <1>0, <2>1 DEF Phases, Parked, Done, TypeOK, Main
  <2> QED
    BY <1>0, <2>1 DEF BlocksInOrder, EncoderRing, EncoderThread
<1>2. ASSUME main \in {"prepare", "start", "return", "idle"} PROVE ThreadsAreParked
  <2>1. \A t \in Thread : pc[t] \in {"none", "canProcess"}
    BY <1>0, <1>2 DEF Phases, Parked
  <2>2. enc.CS = NumThreads
    <3>1. enc.CS \in Thread \cup {NumThreads}
      BY <1>0 DEF TypeOK, CEncoder
    <3> QED BY <1>0, <2>1, <3>1 DEF CSHeld
  <2>3. ~enc.CanProcessEvent /\ ~enc.CanStartWaitingEvent
    BY <1>0, <1>2 DEF Phases
  <2>4. \A t \in Thread : ~th[t].StreamWasFinishedEvent /\ ~th[t].WaitingWasStartedEvent
    BY <1>0, <1>2 DEF Phases
  <2> QED
    BY <2>1, <2>2, <2>3, <2>4 DEF ThreadsAreParked
<1> QED
  BY <1>1, <1>2 DEF ThreadsAreParked

\* For any number of threads and blocks, and whatever of reading, writing and progress
\* fails, the encoder writes the blocks in the order of the file, returns S_OK only if it
\* wrote all of them, and leaves its threads at the closed gate.
THEOREM EncoderCorrect ==
  Spec => [](TypeOK /\ BlocksInOrder /\ SuccessIsComplete /\ ThreadsAreParked)
<1>1. Spec => []EncoderInv
  BY EncoderInitial, EncoderStep, PTL DEF Spec
<1> QED
  BY <1>1, EncoderInvImplies, PTL

-----------------------------------------------------------------------------
(* The decoder, step by step.                                              *)

\* The instance has the same threads in the same ring.
LEMMA DecoderConstants ==
  /\ Decoder!Thread = Thread /\ \A k \in Thread : Decoder!NextInRing(k) = NextInRing(k)
BY DEF Thread, Decoder!Thread, NextInRing, Decoder!NextInRing

\* What Prepare makes of the fields of a thread.
LEMMA DecoderPreparedThread ==
  ASSUME NEW r \in Decoder!CState
  PROVE  LET s == [r EXCEPT
                     !.StreamWasFinishedEvent = FALSE, !.WaitingWasStartedEvent = FALSE,
                     !.CanWriteEvent = FALSE, !.blockIndex = 0, !.block = 0]
         IN  /\ s \in Decoder!CState
             /\ ~s.StreamWasFinishedEvent /\ ~s.WaitingWasStartedEvent /\ ~s.CanWriteEvent
             /\ s.res = r.res /\ s.needFinish = r.needFinish
<1>1. 0 \in Decoder!Thread /\ 0 \in 0..MaxBlocks
  BY Constants, DecoderConstants
<1> QED
  BY <1>1 DEF Decoder!CState

\* A thread whose events are set or reset is still a CState.
LEMMA DecoderEvents ==
  ASSUME NEW r \in Decoder!CState, NEW b \in BOOLEAN
  PROVE  /\ [r EXCEPT !.CanWriteEvent = b] \in Decoder!CState
         /\ [r EXCEPT !.StreamWasFinishedEvent = b] \in Decoder!CState
         /\ [r EXCEPT !.WaitingWasStartedEvent = b] \in Decoder!CState
BY DEF Decoder!CState

\* The types, of all but the counter of the blocks that are written.
LEMMA DecoderTypes ==
  ASSUME Decoder!TypeOK, Decoder!Next, written' \in 0..numRead'
  PROVE  Decoder!TypeOK'
<1> USE Constants, DecoderConstants DEF Decoder!TypeOK, Decoder!mainVars
<1>f. /\ \A f \in Decoder!File :
           /\ f.blocks \in 0..MaxBlocks /\ f.tail \in Decoder!Result /\ f.why \in Decoder!Result
      /\ \A n \in 0..MaxBlocks : 0 \in 0..n
  BY DEF Decoder!File, Decoder!Result
<1>1. CASE Decoder!Code
  BY <1>1, <1>f DEF Decoder!Code, Decoder!MainStep, Decoder!Main, Decoder!Result
<1>2. CASE Decoder!Free
  <2>1. enc' \in Decoder!CDecoder
    BY <1>2 DEF Decoder!Free, Decoder!CDecoder
  <2> QED BY <1>2, <2>1 DEF Decoder!Free, Decoder!MainStep, Decoder!Main
<1>3. CASE Decoder!CallerStep
  <2> USE DEF Decoder!MainStep, Decoder!LoopStep, Decoder!LoopEnds
  <2>1. CASE Decoder!CreateThread
    <3>1. pc' \in [Thread -> Decoder!Place]
      BY <2>1 DEF Decoder!CreateThread, Decoder!Place
    <3> QED BY <2>1, <3>1 DEF Decoder!CreateThread
  <2>2. CASE Decoder!CreateFails
    <3>1. enc' \in Decoder!CDecoder
      BY <2>2 DEF Decoder!CreateFails, Decoder!CDecoder
    <3> QED BY <2>2, <3>1 DEF Decoder!CreateFails, Decoder!Main, Decoder!Result
  <2>3. CASE Decoder!CreateEnds
    BY <2>3 DEF Decoder!CreateEnds, Decoder!Main
  <2>4. CASE Decoder!Prepare
    <3>1. th' \in [Thread -> Decoder!CState]
      BY <2>4, DecoderPreparedThread DEF Decoder!Prepare
    <3> QED BY <2>4, <3>1 DEF Decoder!Prepare, Decoder!Main
  <2>5. CASE Decoder!AllocFails
    BY <2>5 DEF Decoder!AllocFails, Decoder!Result, Decoder!Main
  <2>6. CASE Decoder!NotBZip2
    BY <2>6 DEF Decoder!NotBZip2, Decoder!Result, Decoder!Main
  <2>7. CASE Decoder!OpenGate
    <3>1. enc' \in Decoder!CDecoder
      BY <2>7 DEF Decoder!OpenGate, Decoder!CDecoder, Decoder!Result
    <3>2. th' \in [Thread -> Decoder!CState]
      BY <2>7, DecoderEvents DEF Decoder!OpenGate
    <3> QED BY <2>7, <3>1, <3>2 DEF Decoder!OpenGate, Decoder!Main
  <2>8. CASE Decoder!WaitFinished
    <3>1. th' \in [Thread -> Decoder!CState]
      BY <2>8, DecoderEvents DEF Decoder!WaitFinished
    <3> QED BY <2>8, <3>1 DEF Decoder!WaitFinished
  <2>9. CASE Decoder!CloseGate
    <3>1. enc' \in Decoder!CDecoder
      BY <2>9 DEF Decoder!CloseGate, Decoder!CDecoder
    <3> QED BY <2>9, <3>1 DEF Decoder!CloseGate, Decoder!Main
  <2>10. CASE Decoder!AllowWaiting
    <3>1. enc' \in Decoder!CDecoder
      BY <2>10 DEF Decoder!AllowWaiting, Decoder!CDecoder
    <3> QED BY <2>10, <3>1 DEF Decoder!AllowWaiting, Decoder!Main
  <2>11. CASE Decoder!WaitWaiting
    <3>1. th' \in [Thread -> Decoder!CState]
      BY <2>11, DecoderEvents DEF Decoder!WaitWaiting
    <3> QED BY <2>11, <3>1 DEF Decoder!WaitWaiting
  <2>12. CASE Decoder!WaitingEnds
    <3>1. enc' \in Decoder!CDecoder
      BY <2>12 DEF Decoder!WaitingEnds, Decoder!CDecoder
    <3> QED BY <2>12, <3>1 DEF Decoder!WaitingEnds, Decoder!Main
  <2>13. CASE Decoder!Return
    <3>1. enc.Result1 \in Decoder!Result /\ enc.Result2 \in Decoder!Result
      BY DEF Decoder!CDecoder
    <3> QED BY <2>13, <3>1 DEF Decoder!Return, Decoder!Result, Decoder!Main
  <2>14. CASE Decoder!JoinThread
    BY <2>14 DEF Decoder!JoinThread
  <2>15. CASE Decoder!Freed
    BY <2>15 DEF Decoder!Freed, Decoder!Main
  <2> QED
    BY <1>3, <2>1, <2>2, <2>3, <2>4, <2>5, <2>6, <2>7, <2>8, <2>9, <2>10, <2>11, <2>12,
       <2>13, <2>14, <2>15 DEF Decoder!CallerStep
<1>4. ASSUME NEW t \in Thread, Decoder!ThreadStep(t) PROVE Decoder!TypeOK'
  <2> USE DEF Decoder!ThreadStep, Decoder!Enter, Decoder!Exit, Decoder!SeeFinished,
        Decoder!ReadBlock, Decoder!ReadEnd, Decoder!FinishStream, Decoder!Leave,
        Decoder!WaitCanWrite, Decoder!WriteBlock, Decoder!Fail, Decoder!SetCanWrite,
        Decoder!SetFinished, Decoder!WaitCanStartWaiting, Decoder!SetWaitingWasStarted
  <2>1. pc' \in [Thread -> Decoder!Place] /\ UNCHANGED Decoder!mainVars
    BY <1>4 DEF Decoder!Step, Decoder!Place
  <2>2. enc' \in Decoder!CDecoder
    <3>1. th[t].res \in Decoder!Result /\ blocks.tail \in Decoder!Result
      BY <1>f DEF Decoder!CState
    <3>2. Decoder!NextInRing(enc.NextBlockIndex) \in Thread
      BY DEF Decoder!CDecoder
    <3>3. CASE Decoder!ReadEnd(t)
      BY <3>1, <3>2, <3>3 DEF Decoder!CDecoder
    <3>4. CASE Decoder!ReadBlock(t)
      BY <3>2, <3>4 DEF Decoder!CDecoder
    <3>5. CASE Decoder!Fail(t)
      BY <3>1, <3>5 DEF Decoder!CDecoder
    <3>6. CASE Decoder!Enter(t) \/ Decoder!Exit(t) \/ Decoder!Leave(t)
      BY <3>6 DEF Decoder!CDecoder
    <3>7. CASE Decoder!FinishStream(t)
      BY <3>7 DEF Decoder!CDecoder
    <3>8. CASE UNCHANGED enc
      BY <3>8
    <3> QED BY <1>4, <3>3, <3>4, <3>5, <3>6, <3>7, <3>8
  <2>3. numRead' \in 0..blocks'.blocks
    BY <1>4, <1>f, <2>1
  <2>4. th' \in [Thread -> Decoder!CState]
    <3>1. /\ th[t] \in Decoder!CState /\ th[t].blockIndex \in Thread
          /\ enc.NextBlockIndex \in Thread /\ enc.StreamWasFinished2 \in BOOLEAN
          /\ "OK" \in Decoder!Result /\ blocks.why \in Decoder!Result
      BY <1>f DEF Decoder!CState, Decoder!CDecoder, Decoder!Result
    <3>2. CASE Decoder!ReadBlock(t)
      <4>1. numRead \in 0..MaxBlocks
        BY <1>f, <3>2
      <4>2. [th[t] EXCEPT !.blockIndex = enc.NextBlockIndex, !.block = numRead] \in Decoder!CState
        BY <3>1, <4>1 DEF Decoder!CState
      <4> QED BY <3>2, <4>2
    <3>3. CASE Decoder!FinishStream(t)
      BY <3>1, <3>3 DEF Decoder!CState
    <3>4. CASE Decoder!WaitCanWrite(t)
      <4> DEFINE k == th[t].blockIndex
                 th1 == [th EXCEPT ![k].CanWriteEvent = FALSE]
      <4>1. th1 \in [Thread -> Decoder!CState]
        BY <3>1 DEF Decoder!CState
      <4>2. ASSUME NEW r \in Decoder!CState
            PROVE  [r EXCEPT !.needFinish = enc.StreamWasFinished2] \in Decoder!CState
        BY <3>1 DEF Decoder!CState
      <4>3. th' = [th1 EXCEPT ![t].needFinish = enc.StreamWasFinished2]
        BY <3>4
      <4> HIDE DEF th1
      <4> QED BY <4>1, <4>2, <4>3
    <3>5. CASE Decoder!WriteBlock(t)
      <4>1. \A r \in Decoder!Result : [th[t] EXCEPT !.res = r] \in Decoder!CState
        BY <3>1 DEF Decoder!CState
      <4> QED BY <3>1, <3>5, <4>1
    <3>6. CASE Decoder!SetCanWrite(t)
      <4> DEFINE k == NextInRing(th[t].blockIndex)
      <4>1. k \in Thread /\ [th[k] EXCEPT !.CanWriteEvent = TRUE] \in Decoder!CState
        BY <3>1 DEF Decoder!CState
      <4> QED BY <3>1, <3>6, <4>1
    <3>7. CASE Decoder!SetFinished(t)
      BY <3>1, <3>7 DEF Decoder!CState
    <3>8. CASE Decoder!SetWaitingWasStarted(t)
      BY <3>1, <3>8 DEF Decoder!CState
    <3> QED
      BY <1>4, <3>2, <3>3, <3>4, <3>5, <3>6, <3>7, <3>8
  <2> QED
    BY <2>1, <2>2, <2>3, <2>4
<1>5. CASE Decoder!Terminating
  BY <1>5 DEF Decoder!Terminating, Decoder!vars
<1> QED
  BY <1>1, <1>2, <1>3, <1>4, <1>5 DEF Decoder!Next

\* Where a step of the caller leads: only OpenGate gives threads and ring to do, and
\* only CloseGate may rely on what they have done.
LEMMA DecoderCallerPhases ==
  ASSUME DecoderInv, Decoder!Code \/ Decoder!Free \/ Decoder!CallerStep \/ Decoder!Terminating
  PROVE  Phases' /\ Prepared' /\ CSHeld({"locked", "finish", "leave"}, {})'
<1> USE Constants, DecoderConstants DEF DecoderInv, Phases, Prepared, CSHeld, Parked, Done, Decoder!mainVars
<1>0. /\ i \in 0..NumThreads /\ enc \in Decoder!CDecoder /\ th \in [Thread -> Decoder!CState]
      /\ pc \in [Thread -> Decoder!Place] /\ main \in Decoder!Main
  BY DEF Decoder!TypeOK
<1> USE <1>0
<1>1. CASE Decoder!Code
  BY <1>1 DEF Decoder!Code, Decoder!MainStep
<1>2. CASE Decoder!Free
  BY <1>2 DEF Decoder!Free, Decoder!MainStep, Decoder!CDecoder
<1>3. CASE Decoder!CallerStep
  <2> USE DEF Decoder!MainStep, Decoder!LoopStep, Decoder!LoopEnds
  <2>1. CASE Decoder!CreateThread
    BY <2>1 DEF Decoder!CreateThread
  <2>2. CASE Decoder!CreateFails
    BY <2>2 DEF Decoder!CreateFails, Decoder!CDecoder
  <2>3. CASE Decoder!CreateEnds
    BY <2>3 DEF Decoder!CreateEnds
  <2>4. CASE Decoder!Prepare
    <3>0. main = "prepare" /\ main' = "start" /\ UNCHANGED <<i, pc, numRead, written>>
      BY <2>4 DEF Decoder!Prepare
    <3>1. UNCHANGED enc
      BY <2>4 DEF Decoder!Prepare
    <3>2. \A t \in Thread : ~th'[t].StreamWasFinishedEvent /\ ~th'[t].WaitingWasStartedEvent
                           /\ ~th'[t].CanWriteEvent
      BY <2>4, DecoderPreparedThread DEF Decoder!Prepare
    <3>3. Phases'
      BY <3>0, <3>1, <3>2
    <3>4. Prepared'
      BY <3>0, <3>1, <3>2
    <3>5. CSHeld({"locked", "finish", "leave"}, {})'
      BY <3>0, <3>1, <3>2
    <3> QED BY <3>3, <3>4, <3>5
  <2>5. CASE Decoder!AllocFails
    BY <2>5 DEF Decoder!AllocFails
  <2>6. CASE Decoder!OpenGate
    <3>1. /\ enc'.CS = enc.CS
          /\ enc'.CanProcessEvent <=> TRUE
          /\ ~enc'.CanStartWaitingEvent /\ ~enc'.CloseThreads
      BY <2>6 DEF Decoder!OpenGate, Decoder!CDecoder
    <3>2. \A t \in Thread :
            /\ th'[t].StreamWasFinishedEvent <=> th[t].StreamWasFinishedEvent
            /\ th'[t].WaitingWasStartedEvent <=> th[t].WaitingWasStartedEvent
      BY <2>6 DEF Decoder!OpenGate, Decoder!CState
    <3>3. Phases'
      BY <2>6, <3>1, <3>2 DEF Decoder!OpenGate
    <3>4. Prepared'
      BY <2>6, <3>1, <3>2 DEF Decoder!OpenGate
    <3>5. CSHeld({"locked", "finish", "leave"}, {})'
      BY <2>6, <3>1, <3>2 DEF Decoder!OpenGate
    <3> QED BY <3>3, <3>4, <3>5
  <2>7. CASE Decoder!WaitFinished
    <3>1. \A t \in Thread :
            /\ th'[t].StreamWasFinishedEvent <=> (t # i /\ th[t].StreamWasFinishedEvent)
            /\ th'[t].WaitingWasStartedEvent <=> th[t].WaitingWasStartedEvent
      <4> HIDE DEF DecoderInv, Phases
      <4> QED BY <2>7 DEF Decoder!WaitFinished, Decoder!CState
    <3>2. /\ main = "finish" /\ i \in Thread /\ i' = i + 1 /\ th[i].StreamWasFinishedEvent
          /\ UNCHANGED <<main, enc, pc>>
      BY <2>7 DEF Decoder!WaitFinished
    <3>3. Phases'
      BY <3>1, <3>2
    <3>4. Prepared'
      BY <2>7, <3>1 DEF Decoder!WaitFinished
    <3>5. CSHeld({"locked", "finish", "leave"}, {})'
      BY <2>7, <3>1 DEF Decoder!WaitFinished
    <3> QED BY <3>3, <3>4, <3>5
  <2>8. CASE Decoder!CloseGate
    <3>1. /\ enc'.CS = enc.CS
          /\ enc'.CanProcessEvent <=> FALSE
          /\ enc'.CanStartWaitingEvent <=> enc.CanStartWaitingEvent
      BY <2>8 DEF Decoder!CloseGate, Decoder!CDecoder
    <3>3. Phases'
      BY <2>8, <3>1 DEF Decoder!CloseGate
    <3>4. Prepared'
      BY <2>8, <3>1 DEF Decoder!CloseGate
    <3>5. CSHeld({"locked", "finish", "leave"}, {})'
      BY <2>8, <3>1 DEF Decoder!CloseGate
    <3> QED BY <3>3, <3>4, <3>5
  <2>9. CASE Decoder!AllowWaiting
    <3>1. /\ enc'.CS = enc.CS
          /\ enc'.CanProcessEvent <=> enc.CanProcessEvent
          /\ enc'.CanStartWaitingEvent <=> TRUE
      BY <2>9 DEF Decoder!AllowWaiting, Decoder!CDecoder
    <3>3. Phases'
      BY <2>9, <3>1 DEF Decoder!AllowWaiting
    <3>4. Prepared'
      BY <2>9, <3>1 DEF Decoder!AllowWaiting
    <3>5. CSHeld({"locked", "finish", "leave"}, {})'
      BY <2>9, <3>1 DEF Decoder!AllowWaiting
    <3> QED BY <3>3, <3>4, <3>5
  <2>10. CASE Decoder!WaitWaiting
    <3>1. \A t \in Thread :
            /\ th'[t].WaitingWasStartedEvent <=> (t # i /\ th[t].WaitingWasStartedEvent)
            /\ th'[t].StreamWasFinishedEvent <=> th[t].StreamWasFinishedEvent
      <4> HIDE DEF DecoderInv, Phases
      <4> QED BY <2>10 DEF Decoder!WaitWaiting, Decoder!CState
    <3>2. /\ main = "waiting" /\ i \in Thread /\ i' = i + 1 /\ th[i].WaitingWasStartedEvent
          /\ UNCHANGED <<main, enc, pc>>
      BY <2>10 DEF Decoder!WaitWaiting
    <3>3. Phases'
      BY <3>1, <3>2
    <3>4. Prepared'
      BY <2>10, <3>1 DEF Decoder!WaitWaiting
    <3>5. CSHeld({"locked", "finish", "leave"}, {})'
      BY <2>10, <3>1 DEF Decoder!WaitWaiting
    <3> QED BY <3>3, <3>4, <3>5
  <2>11. CASE Decoder!WaitingEnds
    <3>1. /\ enc'.CS = enc.CS
          /\ enc'.CanProcessEvent <=> enc.CanProcessEvent
          /\ enc'.CanStartWaitingEvent <=> FALSE
      BY <2>11 DEF Decoder!WaitingEnds, Decoder!CDecoder
    <3>3. Phases'
      BY <2>11, <3>1 DEF Decoder!WaitingEnds
    <3>4. Prepared'
      BY <2>11, <3>1 DEF Decoder!WaitingEnds
    <3>5. CSHeld({"locked", "finish", "leave"}, {})'
      BY <2>11, <3>1 DEF Decoder!WaitingEnds
    <3> QED BY <3>3, <3>4, <3>5
  <2>12. CASE Decoder!Return
    BY <2>12 DEF Decoder!Return
  <2>13. CASE Decoder!JoinThread
    BY <2>13 DEF Decoder!JoinThread
  <2>14. CASE Decoder!Freed
    BY <2>14 DEF Decoder!Freed
  <2>15. CASE Decoder!NotBZip2
    BY <2>15 DEF Decoder!NotBZip2
  <2> QED
    BY <1>3, <2>15, <2>1, <2>2, <2>3, <2>4, <2>5, <2>6, <2>7, <2>8, <2>9, <2>10, <2>11, <2>12,
       <2>13, <2>14 DEF Decoder!CallerStep
<1>4. CASE Decoder!Terminating
  BY <1>4 DEF Decoder!Terminating, Decoder!vars
<1> QED
  BY <1>1, <1>2, <1>3, <1>4

\* What a step of a thread does to the phases.
LEMMA DecoderThreadPhases ==
  ASSUME DecoderInv, NEW t \in Thread, Decoder!ThreadStep(t)
  PROVE  Phases' /\ Prepared' /\ CSHeld({"locked", "finish", "leave"}, {})'
<1> USE Constants, DecoderConstants DEF Prepared, CSHeld, Parked, Done, Decoder!mainVars,
      Decoder!Step
<1>0. /\ Phases /\ Prepared /\ CSHeld({"locked", "finish", "leave"}, {})
      /\ i \in 0..NumThreads /\ enc \in Decoder!CDecoder /\ th \in [Thread -> Decoder!CState]
      /\ pc \in [Thread -> Decoder!Place] /\ main \in Decoder!Main /\ th[t].blockIndex \in Thread
  BY DEF Decoder!TypeOK, DecoderInv, Decoder!CState
<1> USE <1>0
<1>a. /\ pc[t] \in {"canWrite", "write", "next", "fail", "finish", "finished"} => main = "finish"
      /\ pc[t] = "locked" /\ ~enc.CloseThreads => main = "finish"
      /\ pc[t] = "waitingWasStarted" => main = "waiting"
  BY DEF Phases, Decoder!Main
<1>1. CASE Decoder!Enter(t)
  <2>1. /\ enc'.CS = t
        /\ enc'.CanProcessEvent <=> enc.CanProcessEvent
        /\ enc'.CanStartWaitingEvent <=> enc.CanStartWaitingEvent
        /\ enc'.CloseThreads <=> enc.CloseThreads
    BY <1>1 DEF Decoder!Enter, Decoder!CDecoder
  <2> QED BY <1>1, <2>1 DEF Decoder!Enter, Phases
<1>2. CASE Decoder!Exit(t) \/ Decoder!Leave(t)
  <2>1. /\ enc'.CS = NumThreads
        /\ enc'.CanProcessEvent <=> enc.CanProcessEvent
        /\ enc'.CanStartWaitingEvent <=> enc.CanStartWaitingEvent
        /\ enc'.CloseThreads <=> enc.CloseThreads
    BY <1>2 DEF Decoder!Exit, Decoder!Leave, Decoder!CDecoder
  <2>2. CASE Decoder!Exit(t)
    BY <2>1, <2>2 DEF Decoder!Exit, Phases
  <2>3. CASE Decoder!Leave(t)
    BY <2>1, <2>3 DEF Decoder!Leave, Phases
  <2> QED BY <1>2, <2>2, <2>3
<1>3. CASE Decoder!SeeFinished(t)
  BY <1>3, <1>a DEF Decoder!SeeFinished, Phases
<1>4. CASE Decoder!SetFinished(t)
  <2>1. \A u \in Thread :
          /\ th'[u].StreamWasFinishedEvent <=> (u = t \/ th[u].StreamWasFinishedEvent)
          /\ th'[u].WaitingWasStartedEvent <=> th[u].WaitingWasStartedEvent
    BY <1>4 DEF Decoder!SetFinished, Decoder!CState
  <2>2. main = "finish" /\ pc[t] = "finished" /\ UNCHANGED <<main, i, enc, numRead, written>>
        /\ pc' = [pc EXCEPT ![t] = "canStartWaiting"]
    BY <1>4, <1>a DEF Decoder!SetFinished
  <2>3. Phases'
    BY <2>1, <2>2 DEF Phases
  <2> QED BY <2>2, <2>3
<1>5. CASE Decoder!ReadBlock(t)
  <2>1. \A u \in Thread :
          /\ th'[u].StreamWasFinishedEvent <=> th[u].StreamWasFinishedEvent
          /\ th'[u].WaitingWasStartedEvent <=> th[u].WaitingWasStartedEvent
    BY <1>5 DEF Decoder!ReadBlock, Decoder!CState
  <2>2. /\ enc'.CS = NumThreads
        /\ enc'.CanProcessEvent <=> enc.CanProcessEvent
        /\ enc'.CanStartWaitingEvent <=> enc.CanStartWaitingEvent
        /\ enc'.CloseThreads <=> enc.CloseThreads
    BY <1>5 DEF Decoder!ReadBlock, Decoder!CDecoder
  <2>3. /\ main = "finish" /\ pc[t] = "locked" /\ UNCHANGED <<main, i, written>>
        /\ pc' = [pc EXCEPT ![t] = "canWrite"]
    BY <1>5, <1>a DEF Decoder!ReadBlock, Decoder!Reads
  <2>4. Phases'
    BY <2>1, <2>2, <2>3 DEF Phases
  <2> QED BY <2>2, <2>3, <2>4
<1>6. CASE Decoder!ReadEnd(t)
  <2>1. \A u \in Thread :
          /\ th'[u].StreamWasFinishedEvent <=> th[u].StreamWasFinishedEvent
          /\ th'[u].WaitingWasStartedEvent <=> th[u].WaitingWasStartedEvent
    BY <1>6 DEF Decoder!ReadEnd, Decoder!CState
  <2>2. /\ enc'.CS = enc.CS
        /\ enc'.CanProcessEvent <=> enc.CanProcessEvent
        /\ enc'.CanStartWaitingEvent <=> enc.CanStartWaitingEvent
        /\ enc'.CloseThreads <=> enc.CloseThreads
    BY <1>6 DEF Decoder!ReadEnd, Decoder!CDecoder
  <2> QED BY <1>6, <1>a, <2>1, <2>2 DEF Decoder!ReadEnd, Decoder!Reads, Phases
<1>7. CASE Decoder!WaitCanWrite(t)
  <2>1. \A u \in Thread :
          /\ th'[u].StreamWasFinishedEvent <=> th[u].StreamWasFinishedEvent
          /\ th'[u].WaitingWasStartedEvent <=> th[u].WaitingWasStartedEvent
    BY <1>7 DEF Decoder!WaitCanWrite, Decoder!CState
  <2>2. /\ main = "finish" /\ pc[t] = "canWrite" /\ UNCHANGED <<main, i, enc, numRead, written>>
        /\ \/ pc' = [pc EXCEPT ![t] = "next"]
           \/ pc' = [pc EXCEPT ![t] = "write"]
    BY <1>7, <1>a DEF Decoder!WaitCanWrite
  <2>3. Phases'
    BY <2>1, <2>2 DEF Phases
  <2> QED BY <2>2, <2>3
<1>8. CASE Decoder!WriteBlock(t)
  <2>1. \A u \in Thread :
          /\ th'[u].StreamWasFinishedEvent <=> th[u].StreamWasFinishedEvent
          /\ th'[u].WaitingWasStartedEvent <=> th[u].WaitingWasStartedEvent
    BY <1>8 DEF Decoder!WriteBlock, Decoder!CState
  <2> QED BY <1>8, <2>1 DEF Decoder!WriteBlock, Phases
<1>9. CASE Decoder!SetCanWrite(t)
  <2>1. \A u \in Thread :
          /\ th'[u].StreamWasFinishedEvent <=> th[u].StreamWasFinishedEvent
          /\ th'[u].WaitingWasStartedEvent <=> th[u].WaitingWasStartedEvent
    BY <1>9 DEF Decoder!SetCanWrite, Decoder!CState
  <2> QED BY <1>9, <2>1 DEF Decoder!SetCanWrite, Phases
<1>10. CASE Decoder!Fail(t)
  <2>1. \A u \in Thread :
          /\ th'[u].StreamWasFinishedEvent <=> th[u].StreamWasFinishedEvent
          /\ th'[u].WaitingWasStartedEvent <=> th[u].WaitingWasStartedEvent
    BY <1>10 DEF Decoder!Fail, Decoder!CState
  <2>2. /\ enc'.CS = enc.CS
        /\ enc'.CanProcessEvent <=> enc.CanProcessEvent
        /\ enc'.CanStartWaitingEvent <=> enc.CanStartWaitingEvent
        /\ enc'.CloseThreads <=> enc.CloseThreads
    BY <1>10 DEF Decoder!Fail, Decoder!CDecoder
  <2> QED BY <1>10, <2>1, <2>2 DEF Decoder!Fail, Phases
<1>11. CASE Decoder!FinishStream(t)
  <2>1. \A u \in Thread :
          /\ th'[u].StreamWasFinishedEvent <=> (u = t \/ th[u].StreamWasFinishedEvent)
          /\ th'[u].WaitingWasStartedEvent <=> th[u].WaitingWasStartedEvent
    BY <1>11 DEF Decoder!FinishStream, Decoder!CState
  <2>2. /\ enc'.CS = enc.CS
        /\ enc'.CanProcessEvent <=> enc.CanProcessEvent
        /\ enc'.CanStartWaitingEvent <=> enc.CanStartWaitingEvent
        /\ enc'.CloseThreads <=> enc.CloseThreads
    BY <1>11 DEF Decoder!FinishStream, Decoder!CDecoder
  <2>3. main = "finish" /\ pc[t] = "finish"
    BY <1>11, <1>a DEF Decoder!FinishStream
  <2>4. Phases'
    BY <1>11, <2>1, <2>2, <2>3 DEF Decoder!FinishStream, Phases
  <2>5. Prepared'
    BY <1>11, <2>2, <2>3 DEF Decoder!FinishStream
  <2>6. CSHeld({"locked", "finish", "leave"}, {})'
    BY <1>11, <2>2, <2>3 DEF Decoder!FinishStream
  <2> QED BY <2>4, <2>5, <2>6
<1>12. CASE Decoder!WaitCanStartWaiting(t)
  BY <1>12 DEF Decoder!WaitCanStartWaiting, Phases
<1>13. CASE Decoder!SetWaitingWasStarted(t)
  <2>1. \A u \in Thread :
          /\ th'[u].StreamWasFinishedEvent <=> th[u].StreamWasFinishedEvent
          /\ th'[u].WaitingWasStartedEvent <=> (u = t \/ th[u].WaitingWasStartedEvent)
    BY <1>13 DEF Decoder!SetWaitingWasStarted, Decoder!CState
  <2>2. main = "waiting" /\ pc[t] = "waitingWasStarted"
    BY <1>13, <1>a DEF Decoder!SetWaitingWasStarted
  <2>3. Phases'
    BY <1>13, <2>1, <2>2 DEF Decoder!SetWaitingWasStarted, Phases
  <2> QED BY <1>13, <2>2, <2>3 DEF Decoder!SetWaitingWasStarted
<1> QED
  BY <1>6, <1>1, <1>2, <1>3, <1>4, <1>5, <1>7, <1>8, <1>9, <1>10, <1>11, <1>12, <1>13 DEF Decoder!ThreadStep

\* When all threads have finished, they have written what one thread would have
\* written, and the result is the one that it would have had.
LEMMA DecoderAsOneThread ==
  ASSUME Decoder!TypeOK, NEW turn \in 0..numRead, DecoderRing(turn), \A t \in Thread : Done(t)
  PROVE  /\ written = Decoder!SingleThreaded(blocks).written
         /\ Decoder!SingleThreaded(blocks).res =
              IF enc.Result2 # "OK" THEN enc.Result2 ELSE enc.Result1
<1>1. /\ blocks.bad \in 0..MaxBlocks /\ blocks.blocks \in 0..MaxBlocks
      /\ blocks.bad <= blocks.blocks /\ blocks.why # "OK"
      /\ numRead \in 0..blocks.blocks
  BY DEF Decoder!TypeOK, Decoder!File
<1>2. turn = numRead
  <2>1. ASSUME turn < numRead PROVE FALSE
    <3>1. turn \in turn..(numRead - 1)
      BY Constants, <1>1, <2>1
    <3>2. PICK t \in Thread : pc[t] \in HasDecoded
      BY <3>1 DEF DecoderRing
    <3> QED
      BY <3>2 DEF Done, HasDecoded
  <2> QED
    BY Constants, <1>1, <2>1
<1>3. CASE enc.StreamWasFinished2
  BY <1>1, <1>3 DEF DecoderRing, Decoder!SingleThreaded
<1>4. CASE ~enc.StreamWasFinished2
  <2>1. enc.StreamWasFinished1
    BY Constants, <1>4 DEF DecoderRing, DecoderThread, Done
  <2>2. \A t \in Thread : pc[t] \notin {"fail", "next"}
    BY DEF Done
  <2>3. /\ numRead = blocks.blocks /\ enc.Result1 = blocks.tail /\ enc.Result2 = "OK"
        /\ turn <= blocks.bad /\ written = turn
    BY <1>4, <2>1, <2>2 DEF DecoderRing
  <2> QED
    BY Constants, <1>1, <1>2, <2>3 DEF Decoder!SingleThreaded
<1> QED
  BY <1>3, <1>4

\* The ring before, during and after a step of the caller.
LEMMA DecoderCallerRing ==
  ASSUME DecoderInv,
         Decoder!Code \/ Decoder!Free \/ Decoder!CallerStep \/ Decoder!Terminating
  PROVE  SomeTurn' /\ DecoderEnds' /\ written' \in 0..numRead'
<1> USE Constants, DecoderConstants DEF Decoder!MainStep, Decoder!LoopStep, Decoder!LoopEnds
<1>0. /\ Decoder!TypeOK /\ Phases /\ SomeTurn /\ DecoderEnds /\ Prepared
      /\ i \in 0..NumThreads /\ enc \in Decoder!CDecoder /\ th \in [Thread -> Decoder!CState]
      /\ pc \in [Thread -> Decoder!Place]
      /\ blocks.blocks \in Nat /\ written \in 0..numRead /\ numRead \in Nat
  BY DEF Decoder!TypeOK, Decoder!File, DecoderInv
<1>1. \A t \in Thread : /\ th'[t].res = th[t].res /\ th'[t].needFinish = th[t].needFinish
                        /\ pc'[t] = pc[t] \/ pc[t] = "none"
  <2> USE <1>0
  <2>1. CASE Decoder!Prepare
    BY <2>1, DecoderPreparedThread DEF Decoder!Prepare
  <2>2. CASE Decoder!OpenGate
    BY <2>2 DEF Decoder!OpenGate, Decoder!CState
  <2>3. CASE Decoder!WaitFinished
    BY <2>3 DEF Decoder!WaitFinished, Decoder!CState
  <2>4. CASE Decoder!WaitWaiting
    BY <2>4 DEF Decoder!WaitWaiting, Decoder!CState
  <2>5. CASE Decoder!CreateThread
    <3>1. pc[i] = "none"
      BY <2>5 DEF Decoder!CreateThread, Phases
    <3> QED BY <2>5, <3>1 DEF Decoder!CreateThread
  <2> QED
    BY <2>1, <2>2, <2>3, <2>4, <2>5 DEF Decoder!Code, Decoder!Free, Decoder!CallerStep,
       Decoder!CreateFails, Decoder!CreateEnds, Decoder!AllocFails, Decoder!NotBZip2,
       Decoder!CloseGate, Decoder!AllowWaiting, Decoder!WaitingEnds, Decoder!Return,
       Decoder!JoinThread, Decoder!Freed, Decoder!Terminating, Decoder!vars
<1>2. \A t \in Thread : Decoder!Stops(t)' => pc'[t] \in {"fail", "next", "finished"}
  BY <1>0, <1>1 DEF DecoderEnds, Decoder!Stops
<1>3. CASE main' # "finish" /\ main # "finish"
  <2>1. SomeTurn'
    BY <1>3 DEF SomeTurn
  <2>2. CASE main' \notin {"allow", "waiting", "return"}
    <3>1. (numRead' = 0 /\ written' = 0) \/ UNCHANGED <<numRead, written>>
      BY DEF Decoder!Code, Decoder!Free, Decoder!CallerStep,
         Decoder!CreateThread, Decoder!CreateFails, Decoder!CreateEnds, Decoder!Prepare,
         Decoder!AllocFails, Decoder!NotBZip2, Decoder!OpenGate, Decoder!WaitFinished,
         Decoder!CloseGate, Decoder!AllowWaiting, Decoder!WaitWaiting, Decoder!WaitingEnds,
         Decoder!Return, Decoder!JoinThread, Decoder!Freed, Decoder!Terminating, Decoder!vars
    <3> QED
      BY <1>0, <1>2, <2>1, <2>2, <3>1 DEF DecoderEnds
  <2>3. CASE main' \in {"allow", "waiting", "return"}
    <3>1. Decoder!AllowWaiting \/ Decoder!WaitWaiting \/ Decoder!WaitingEnds
      BY <1>3, <2>3 DEF Decoder!Code, Decoder!Free, Decoder!CallerStep,
         Decoder!CreateThread, Decoder!CreateFails, Decoder!CreateEnds, Decoder!Prepare,
         Decoder!AllocFails, Decoder!NotBZip2, Decoder!OpenGate, Decoder!WaitFinished,
         Decoder!CloseGate, Decoder!Return, Decoder!JoinThread, Decoder!Freed,
         Decoder!Terminating, Decoder!vars, Decoder!mainVars
    <3>2. /\ main \in {"allow", "waiting"} /\ UNCHANGED <<blocks, numRead, written>>
          /\ enc'.Result1 = enc.Result1 /\ enc'.Result2 = enc.Result2
      BY <1>0, <3>1 DEF Decoder!AllowWaiting, Decoder!WaitWaiting, Decoder!WaitingEnds,
         Decoder!CDecoder
    <3> QED
      BY <1>0, <1>2, <2>1, <3>2 DEF DecoderEnds, Decoder!SingleThreaded
  <2> QED BY <2>2, <2>3
<1>4. CASE main' = "finish" /\ main # "finish"
  <2>1. Decoder!OpenGate
    BY <1>4 DEF Decoder!Code, Decoder!Free, Decoder!CallerStep, Decoder!CreateThread,
       Decoder!CreateFails, Decoder!CreateEnds, Decoder!Prepare, Decoder!AllocFails,
       Decoder!NotBZip2, Decoder!WaitFinished, Decoder!CloseGate, Decoder!AllowWaiting,
       Decoder!WaitWaiting, Decoder!WaitingEnds, Decoder!Return, Decoder!JoinThread,
       Decoder!Freed, Decoder!Terminating, Decoder!vars, Decoder!mainVars
  <2>2. /\ main = "start" /\ UNCHANGED <<blocks, pc, numRead, written>>
        /\ numRead = 0 /\ written = 0 /\ \A t \in Thread : pc[t] = "canProcess"
        /\ \A k \in Thread : ~th[k].CanWriteEvent
    BY <1>0, <2>1 DEF Decoder!OpenGate, Prepared, Phases, Parked
  <2>3. /\ ~enc'.StreamWasFinished1 /\ ~enc'.StreamWasFinished2
        /\ enc'.NextBlockIndex = 0 /\ enc'.Result2 = "OK"
    BY <1>0, <2>1 DEF Decoder!OpenGate, Decoder!CDecoder
  <2>4. \A k \in Thread : th'[k].CanWriteEvent => k = 0
    BY <1>0, <2>1, <2>2 DEF Decoder!OpenGate, Decoder!CState
  <2>5. 0 % NumThreads = 0 /\ 0 <= blocks.bad
    BY <1>0 DEF Decoder!TypeOK, Decoder!File
  <2>6. DecoderRing(0)'
    <3>1. \A t \in Thread : pc'[t] = "canProcess"
      BY <2>2
    <3>2. NextIndex(enc.StreamWasFinished1)'
      BY <2>2, <2>3, <2>5 DEF NextIndex
    <3>3. \A t \in Thread : DecoderThread(t, 0)'
      BY <3>1 DEF DecoderThread, HasDecoded, HasTurn
    <3>4. Distinct(HasDecoded)' /\ OneTurn(HasTurn, 0)'
      BY <2>4, <2>5, <3>1 DEF Distinct, OneTurn, HasDecoded, HasTurn
    <3>5. 0..(numRead' - 1) = {}
      BY <2>2
    <3> QED
      BY <2>2, <2>3, <2>5, <3>2, <3>3, <3>4, <3>5 DEF DecoderRing
  <2>7. SomeTurn'
    BY <2>2, <2>6 DEF SomeTurn
  <2> QED
    BY <1>0, <1>2, <1>4, <2>2, <2>7 DEF DecoderEnds
<1>5. CASE main' = "finish" /\ main = "finish"
  <2>1. Decoder!WaitFinished
    BY <1>5 DEF Decoder!Code, Decoder!Free, Decoder!CallerStep, Decoder!CreateThread,
       Decoder!CreateFails, Decoder!CreateEnds, Decoder!Prepare, Decoder!AllocFails,
       Decoder!NotBZip2, Decoder!OpenGate, Decoder!CloseGate, Decoder!AllowWaiting,
       Decoder!WaitWaiting, Decoder!WaitingEnds, Decoder!Return, Decoder!JoinThread,
       Decoder!Freed, Decoder!Terminating, Decoder!vars, Decoder!mainVars
  <2>2. UNCHANGED <<main, blocks, enc, pc, numRead, written>>
    BY <2>1 DEF Decoder!WaitFinished
  <2>3. \A t \in Thread : /\ th'[t].CanWriteEvent <=> th[t].CanWriteEvent
                          /\ th'[t].blockIndex = th[t].blockIndex
                          /\ th'[t].block = th[t].block
    BY <1>0, <2>1 DEF Decoder!WaitFinished, Decoder!CState
  <2>4. PICK turn \in 0..numRead : DecoderRing(turn)
    BY <1>0, <1>5 DEF SomeTurn
  <2>5. DecoderRing(turn)'
    <3>1. ASSUME NEW t \in Thread PROVE DecoderThread(t, turn)'
      <4>1. (Decoder!Stops(t)' <=> Decoder!Stops(t)) /\ DecoderThread(t, turn)
        BY <1>1, <2>4 DEF DecoderRing, Decoder!Stops
      <4> QED
        BY <1>1, <2>2, <2>3, <4>1 DEF DecoderThread, Decoder!SingleThreaded, Done
    <3>2. Distinct(HasDecoded)' /\ OneTurn(HasTurn, turn)'
      <4>1. Distinct(HasDecoded) /\ OneTurn(HasTurn, turn)
        BY <2>4 DEF DecoderRing
      <4> QED
        BY <2>2, <2>3, <4>1 DEF Distinct, OneTurn
    <3> QED
      BY <2>2, <2>3, <2>4, <3>1, <3>2 DEF DecoderRing, NextIndex, Decoder!SingleThreaded,
         HasDecoded
  <2>6. SomeTurn'
    BY <2>2, <2>5 DEF SomeTurn
  <2> QED
    BY <1>0, <1>2, <1>5, <2>2, <2>6 DEF DecoderEnds
<1>6. CASE main = "finish" /\ main' # "finish"
  <2>1. Decoder!CloseGate
    BY <1>6 DEF Decoder!Code, Decoder!Free, Decoder!CallerStep, Decoder!CreateThread,
       Decoder!CreateFails, Decoder!CreateEnds, Decoder!Prepare, Decoder!AllocFails,
       Decoder!NotBZip2, Decoder!OpenGate, Decoder!WaitFinished, Decoder!AllowWaiting,
       Decoder!WaitWaiting, Decoder!WaitingEnds, Decoder!Return, Decoder!JoinThread,
       Decoder!Freed, Decoder!Terminating, Decoder!vars, Decoder!mainVars
  <2>2. main' = "allow" /\ i = NumThreads /\ UNCHANGED <<blocks, numRead, written>>
    BY <2>1 DEF Decoder!CloseGate
  <2>3. enc'.Result1 = enc.Result1 /\ enc'.Result2 = enc.Result2
    BY <1>0, <2>1 DEF Decoder!CloseGate, Decoder!CDecoder
  <2>4. \A t \in Thread : Done(t)
    BY <1>0, <1>6, <2>2 DEF Phases
  <2>5. PICK turn \in 0..numRead : DecoderRing(turn)
    BY <1>0, <1>6 DEF SomeTurn
  <2>6. /\ written = Decoder!SingleThreaded(blocks).written
        /\ Decoder!SingleThreaded(blocks).res =
              IF enc.Result2 # "OK" THEN enc.Result2 ELSE enc.Result1
    BY <1>0, <2>4, <2>5, DecoderAsOneThread
  <2> QED
    BY <1>0, <1>2, <2>2, <2>3, <2>6 DEF DecoderEnds, SomeTurn, Decoder!SingleThreaded
<1> QED
  BY <1>3, <1>4, <1>5, <1>6

\* The threads outside of a call of Code touch neither ring nor result.
LEMMA DecoderThreadEnds ==
  ASSUME DecoderInv, NEW t \in Thread, Decoder!ThreadStep(t), main # "finish"
  PROVE  SomeTurn' /\ DecoderEnds' /\ written' \in 0..numRead'
<1>1. /\ Decoder!TypeOK /\ Phases /\ DecoderEnds /\ enc \in Decoder!CDecoder
      /\ th \in [Thread -> Decoder!CState] /\ pc \in [Thread -> Decoder!Place]
      /\ pc[t] \in {"none", "canProcess", "locked", "leave", "canStartWaiting",
                    "waitingWasStarted", "exited"}
      /\ pc[t] = "locked" => enc.CloseThreads
  <2>1. Decoder!TypeOK /\ Phases /\ DecoderEnds /\ main \in Decoder!Main
    BY DEF DecoderInv, Decoder!TypeOK
  <2>2. /\ enc \in Decoder!CDecoder /\ th \in [Thread -> Decoder!CState]
        /\ pc \in [Thread -> Decoder!Place]
    BY <2>1, DecoderConstants DEF Decoder!TypeOK
  <2>3. \/ pc[t] \in {"none", "canProcess", "leave", "canStartWaiting", "waitingWasStarted",
                      "exited"}
        \/ pc[t] = "locked" /\ enc.CloseThreads
    BY <2>1 DEF Decoder!Main, Phases, Done, Parked
  <2> QED
    BY <2>1, <2>2, <2>3
<1>2. \/ Decoder!Enter(t) \/ Decoder!Exit(t) \/ Decoder!Leave(t)
      \/ Decoder!WaitCanStartWaiting(t) \/ Decoder!SetWaitingWasStarted(t)
  BY <1>1 DEF Decoder!ThreadStep, Decoder!SeeFinished, Decoder!ReadBlock, Decoder!ReadEnd,
     Decoder!Reads, Decoder!FinishStream, Decoder!WaitCanWrite, Decoder!WriteBlock,
     Decoder!Fail, Decoder!SetCanWrite, Decoder!SetFinished, Decoder!Step
<1>3. /\ enc'.Result1 = enc.Result1 /\ enc'.Result2 = enc.Result2
      /\ UNCHANGED <<main, blocks, numRead, written>>
  BY <1>1, <1>2 DEF Decoder!Enter, Decoder!Exit, Decoder!Leave, Decoder!WaitCanStartWaiting,
     Decoder!SetWaitingWasStarted, Decoder!Step, Decoder!mainVars, Decoder!CDecoder
<1>4. \A u \in Thread : Decoder!Stops(u)' => pc'[u] \in {"fail", "next", "finished"}
  <2>1. \A u \in Thread : th'[u].res = th[u].res /\ th'[u].needFinish = th[u].needFinish
    BY <1>1, <1>2 DEF Decoder!Enter, Decoder!Exit, Decoder!Leave,
       Decoder!WaitCanStartWaiting, Decoder!SetWaitingWasStarted, Decoder!CState
  <2>2. \A u \in Thread : u # t => pc'[u] = pc[u]
    BY <1>1, <1>2 DEF Decoder!Enter, Decoder!Exit, Decoder!Leave,
       Decoder!WaitCanStartWaiting, Decoder!SetWaitingWasStarted, Decoder!Step
  <2> QED
    BY <1>1, <2>1, <2>2 DEF DecoderEnds, Decoder!Stops
<1> QED
  BY <1>1, <1>3, <1>4 DEF SomeTurn, DecoderEnds, Decoder!SingleThreaded, Decoder!TypeOK

\* Not more blocks are between the one whose turn it is and the one read next than
\* there are threads.
LEMMA DecoderOutstanding ==
  ASSUME Decoder!TypeOK, NEW turn \in 0..numRead, DecoderRing(turn)
  PROVE  numRead <= turn + NumThreads
<1> DEFINE at == [t \in Thread |-> th[t].block]
<1>1. turn \in Nat /\ numRead \in Nat /\ turn <= numRead
  BY DEF Decoder!TypeOK, Decoder!File
<1>2. \A b \in turn..(numRead - 1) : \E t \in Thread : at[t] = b
  BY DEF DecoderRing
<1> HIDE DEF at
<1> QED
  BY <1>1, <1>2, AsManyAsThreads

\* The ring, step by step.  Every step has a new turn, the same one but for SetCanWrite.
LEMMA DecoderThreadRing ==
  ASSUME DecoderInv, NEW t \in Thread, Decoder!ThreadStep(t), main = "finish"
  PROVE  SomeTurn' /\ DecoderEnds' /\ written' \in 0..numRead'
<1> USE Constants, DecoderConstants DEF Decoder!Step, Decoder!mainVars
<1>0. /\ Decoder!TypeOK /\ DecoderEnds
      /\ pc[t] \in {"locked", "finish", "leave"} => enc.CS = t
      /\ enc.CS = t => pc[t] \in {"locked", "finish", "leave"}
      /\ ~enc.CloseThreads /\ ~enc.CanStartWaitingEvent
      /\ \A u \in Thread : pc[u] \notin {"none", "waitingWasStarted", "exited"}
  BY DEF DecoderInv, Phases, CSHeld, Prepared
<1>1. /\ numRead \in Nat /\ written \in Nat /\ written <= numRead /\ written \in 0..numRead
      /\ enc \in Decoder!CDecoder /\ th \in [Thread -> Decoder!CState]
      /\ pc \in [Thread -> Decoder!Place] /\ enc.CS \in Thread \cup {NumThreads}
      /\ \A u \in Thread : th[u].blockIndex \in Thread /\ th[u].block \in Nat
      /\ blocks.blocks \in Nat /\ blocks.bad \in Nat /\ blocks.why # "OK"
      /\ numRead <= blocks.blocks
  <2>1. /\ enc \in Decoder!CDecoder /\ th \in [Thread -> Decoder!CState]
        /\ pc \in [Thread -> Decoder!Place] /\ blocks \in Decoder!File
        /\ numRead \in 0..blocks.blocks /\ written \in 0..numRead
    BY <1>0 DEF Decoder!TypeOK
  <2>2. blocks.blocks \in 0..MaxBlocks /\ blocks.bad \in 0..MaxBlocks /\ blocks.why # "OK"
    BY <2>1 DEF Decoder!File
  <2>3. \A u \in Thread : th[u].blockIndex \in Thread /\ th[u].block \in 0..MaxBlocks
    BY <2>1 DEF Decoder!CState
  <2>4. enc.CS \in Thread \cup {NumThreads}
    BY <2>1 DEF Decoder!CDecoder
  <2> QED
    BY <2>1, <2>2, <2>3, <2>4
<1>2. PICK turn \in 0..numRead : DecoderRing(turn)
  BY DEF DecoderInv, SomeTurn
<1>3. /\ NextIndex(enc.StreamWasFinished1) /\ turn \in Nat /\ turn <= numRead
      /\ \A u \in Thread : DecoderThread(u, turn)
      /\ Distinct(HasDecoded) /\ OneTurn(HasTurn, turn)
      /\ \A b \in turn..(numRead - 1) : \E u \in Thread :
           th[u].block = b /\ pc[u] \in HasDecoded
      /\ enc.StreamWasFinished1 => numRead = blocks.blocks /\ enc.Result1 = blocks.tail
      /\ enc.StreamWasFinished2 =>
           /\ enc.Result2 = blocks.why /\ blocks.bad <= turn /\ blocks.bad < blocks.blocks
           /\ written = Decoder!SingleThreaded(blocks).written
      /\ ~enc.StreamWasFinished2 =>
           /\ enc.Result2 = "OK" /\ turn <= blocks.bad
           /\ (\A u \in Thread : pc[u] \notin {"fail", "next"}) => written = turn
      /\ \A u \in Thread : Decoder!Stops(u) => pc[u] \in {"fail", "next", "finished"}
  BY <1>0, <1>1, <1>2 DEF DecoderRing, DecoderEnds
<1>4. /\ UNCHANGED <<main, blocks>>
      /\ Decoder!SingleThreaded(blocks)' = Decoder!SingleThreaded(blocks)
  BY DEF Decoder!SingleThreaded, Decoder!ThreadStep, Decoder!Enter, Decoder!Exit, Decoder!SeeFinished,
        Decoder!ReadBlock, Decoder!ReadEnd, Decoder!FinishStream, Decoder!Leave,
        Decoder!WaitCanWrite, Decoder!WriteBlock, Decoder!Fail, Decoder!SetCanWrite,
        Decoder!SetFinished, Decoder!WaitCanStartWaiting, Decoder!SetWaitingWasStarted
<1>5. ASSUME NEW next \in 0..numRead', DecoderRing(next)', written' \in 0..numRead',
             \A u \in Thread : Decoder!Stops(u)' => pc'[u] \in {"fail", "next", "finished"}
      PROVE  SomeTurn' /\ DecoderEnds' /\ written' \in 0..numRead'
  BY <1>4, <1>5 DEF SomeTurn, DecoderEnds
<1>6. CASE Decoder!Enter(t) \/ Decoder!SeeFinished(t) \/ Decoder!Leave(t)
  <2>1. /\ \/ /\ pc[t] = "canProcess" /\ pc' = [pc EXCEPT ![t] = "locked"]
              /\ enc.CS = NumThreads /\ enc'.CS = t
           \/ /\ pc[t] = "locked" /\ pc' = [pc EXCEPT ![t] = "finish"]
              /\ enc.StreamWasFinished1 /\ enc'.CS = enc.CS
           \/ /\ pc[t] = "leave" /\ pc' = [pc EXCEPT ![t] = "canStartWaiting"]
              /\ enc'.CS = NumThreads
        /\ enc'.NextBlockIndex = enc.NextBlockIndex
        /\ enc'.Result1 = enc.Result1 /\ enc'.Result2 = enc.Result2
        /\ enc'.StreamWasFinished1 <=> enc.StreamWasFinished1
        /\ enc'.StreamWasFinished2 <=> enc.StreamWasFinished2
        /\ UNCHANGED <<th, numRead, written>>
    <3>1. CASE Decoder!Enter(t)
      BY <1>1, <3>1 DEF Decoder!Enter, Decoder!CDecoder
    <3>2. CASE Decoder!SeeFinished(t)
      BY <3>2 DEF Decoder!SeeFinished
    <3>3. CASE Decoder!Leave(t)
      BY <1>1, <3>3 DEF Decoder!Leave, Decoder!CDecoder
    <3> QED BY <1>6, <3>1, <3>2, <3>3
  <2>2. NextIndex(enc.StreamWasFinished1)'
    BY <1>1, <1>3, <2>1 DEF NextIndex, DecoderThread
  <2>3. ASSUME NEW u \in Thread PROVE DecoderThread(u, turn)'
    BY <1>1, <1>3, <1>4, <2>1 DEF DecoderThread, Decoder!SingleThreaded, Decoder!Stops,
       HasDecoded, HasTurn
  <2>4. \A u \in Thread : /\ pc'[u] \in HasDecoded <=> pc[u] \in HasDecoded
                          /\ pc'[u] \in HasTurn <=> pc[u] \in HasTurn
                          /\ pc'[u] \in {"fail", "next"} <=> pc[u] \in {"fail", "next"}
    BY <1>1, <2>1 DEF HasDecoded, HasTurn
  <2>5. Distinct(HasDecoded)' /\ OneTurn(HasTurn, turn)'
    BY <1>3, <2>1, <2>4 DEF Distinct, OneTurn
  <2>6. DecoderRing(turn)'
    BY <1>3, <1>4, <2>1, <2>2, <2>3, <2>4, <2>5 DEF DecoderRing, Decoder!SingleThreaded
  <2>7. ASSUME NEW u \in Thread, Decoder!Stops(u)' PROVE pc'[u] \in {"fail", "next", "finished"}
    <3>1. Decoder!Stops(u)
      BY <2>1, <2>7 DEF Decoder!Stops
    <3>2. pc[u] \in {"fail", "next", "finished"} /\ u # t
      BY <1>3, <2>1, <3>1
    <3> QED BY <1>1, <2>1, <3>2
  <2> QED
    BY <1>1, <1>5, <2>1, <2>6, <2>7
<1>7. CASE Decoder!ReadBlock(t)
  <2>1. /\ pc[t] = "locked" /\ pc' = [pc EXCEPT ![t] = "canWrite"] /\ enc.CS = t
        /\ UNCHANGED <<written>> /\ numRead' = numRead + 1 /\ numRead < blocks.blocks
        /\ ~enc.StreamWasFinished1
    BY <1>0, <1>1, <1>7 DEF Decoder!ReadBlock, Decoder!Reads
  <2>2. /\ enc'.CS = NumThreads
        /\ enc'.Result1 = enc.Result1 /\ enc'.Result2 = enc.Result2
        /\ enc'.StreamWasFinished1 <=> enc.StreamWasFinished1
        /\ enc'.StreamWasFinished2 <=> enc.StreamWasFinished2
        /\ enc'.NextBlockIndex = NextInRing(enc.NextBlockIndex)
    <3>1. enc.NextBlockIndex \in Thread
      BY <1>1 DEF Decoder!CDecoder
    <3> QED BY <1>1, <1>7, <3>1 DEF Decoder!ReadBlock, Decoder!CDecoder
  <2>3. enc.NextBlockIndex = numRead % NumThreads
    BY <1>3, <2>1 DEF NextIndex
  <2>4. /\ th'[t].block = numRead /\ th'[t].blockIndex = numRead % NumThreads
        /\ \A u \in Thread : /\ th'[u].CanWriteEvent <=> th[u].CanWriteEvent
                             /\ u # t => th'[u].blockIndex = th[u].blockIndex
                             /\ u # t => th'[u].block = th[u].block
                             /\ th'[u].res = th[u].res /\ th'[u].needFinish = th[u].needFinish
    BY <1>1, <1>7, <2>3 DEF Decoder!ReadBlock, Decoder!CState
  <2>5. NextIndex(enc.StreamWasFinished1)'
    BY <1>1, <2>1, <2>2, <2>3, RingNext DEF NextIndex
  <2>6. ASSUME NEW u \in Thread PROVE DecoderThread(u, turn)'
    <3>1. CASE u = t
      BY <1>1, <1>3, <1>4, <2>1, <2>2, <2>4, <3>1 DEF DecoderThread, HasDecoded, HasTurn
    <3>2. CASE u # t
      <4>1. /\ pc'[u] = pc[u] /\ th'[u].block = th[u].block
            /\ th'[u].blockIndex = th[u].blockIndex /\ th'[u].res = th[u].res
            /\ Decoder!Stops(u)' <=> Decoder!Stops(u)
        BY <1>1, <2>1, <2>4, <3>2 DEF Decoder!Stops
      <4>2. DecoderThread(u, turn)
        BY <1>3
      <4>3. /\ pc[u] \in HasDecoded => th[u].block \in turn..(numRead' - 1)
            /\ pc[u] # "finish"
        BY <1>1, <1>3, <2>1, <4>2 DEF DecoderThread
      <4>4. UNCHANGED <<blocks, written>>
        BY <1>4, <2>1
      <4> QED
        BY <1>4, <2>2, <4>1, <4>2, <4>3, <4>4, Zenon DEF DecoderThread
    <3> QED BY <3>1, <3>2
  <2>7. Distinct(HasDecoded)'
    <3>1. \A u \in Thread : pc[u] \in HasDecoded => th[u].block # numRead
      BY <1>1, <1>3 DEF DecoderThread
    <3>2. \A u \in Thread : u # t => pc'[u] = pc[u]
      BY <1>1, <2>1
    <3> QED
      BY <1>3, <2>4, <3>1, <3>2 DEF Distinct
  <2>8. OneTurn(HasTurn, turn)'
    <3>1. \A u \in Thread : pc'[u] \in HasTurn <=> pc[u] \in HasTurn
      BY <1>1, <2>1 DEF HasTurn
    <3> QED
      BY <1>3, <2>4, <3>1 DEF OneTurn
  <2>9. ASSUME NEW b \in turn..(numRead' - 1)
        PROVE  \E u \in Thread : th'[u].block = b /\ pc'[u] \in HasDecoded
    <3>1. CASE b = numRead
      BY <1>1, <2>1, <2>4, <3>1 DEF HasDecoded
    <3>2. CASE b # numRead
      <4>1. b \in turn..(numRead - 1)
        BY <1>1, <1>3, <2>1, <3>2
      <4>2. PICK u \in Thread : th[u].block = b /\ pc[u] \in HasDecoded
        BY <1>3, <4>1
      <4>3. u # t
        BY <2>1, <4>2 DEF HasDecoded
      <4> QED
        BY <1>1, <2>1, <2>4, <4>2, <4>3
    <3> QED BY <3>1, <3>2
  <2>10. \A u \in Thread : pc'[u] \in {"fail", "next"} <=> pc[u] \in {"fail", "next"}
    BY <1>1, <2>1
  <2>11. DecoderRing(turn)'
    BY <1>3, <1>4, <2>1, <2>2, <2>5, <2>6, <2>7, <2>8, <2>9, <2>10
       DEF DecoderRing, Decoder!SingleThreaded
  <2>12. ASSUME NEW u \in Thread, Decoder!Stops(u)' PROVE pc'[u] \in {"fail", "next", "finished"}
    <3>1. Decoder!Stops(u)
      BY <2>4, <2>12 DEF Decoder!Stops
    <3>2. pc[u] \in {"fail", "next", "finished"} /\ u # t
      BY <1>3, <2>1, <3>1
    <3> QED BY <1>1, <2>1, <3>2
  <2>13. turn \in 0..numRead' /\ written' \in 0..numRead'
    BY <1>1, <1>3, <2>1
  <2> QED
    BY <1>5, <2>11, <2>12, <2>13
<1>8. CASE Decoder!ReadEnd(t) \/ Decoder!FinishStream(t)
  <2>1. /\ \/ /\ pc[t] = "locked" /\ pc' = [pc EXCEPT ![t] = "finish"]
              /\ numRead = blocks.blocks /\ enc'.Result1 = blocks.tail
              /\ enc'.StreamWasFinished1 <=> enc.StreamWasFinished1
           \/ /\ pc[t] = "finish" /\ pc' = [pc EXCEPT ![t] = "leave"]
              /\ enc'.StreamWasFinished1 /\ enc'.Result1 = enc.Result1
        /\ enc.CS = t /\ enc'.CS = t /\ enc'.Result2 = enc.Result2
        /\ enc'.StreamWasFinished2 <=> enc.StreamWasFinished2
        /\ UNCHANGED <<numRead, written>>
    <3>1. CASE Decoder!ReadEnd(t)
      BY <1>0, <1>1, <3>1 DEF Decoder!ReadEnd, Decoder!CDecoder
    <3>2. CASE Decoder!FinishStream(t)
      BY <1>0, <1>1, <3>2 DEF Decoder!FinishStream, Decoder!CDecoder
    <3> QED BY <1>8, <3>1, <3>2
  <2>2. \A u \in Thread : /\ th'[u].CanWriteEvent <=> th[u].CanWriteEvent
                          /\ th'[u].blockIndex = th[u].blockIndex
                          /\ th'[u].block = th[u].block
                          /\ th'[u].res = th[u].res /\ th'[u].needFinish = th[u].needFinish
    BY <1>1, <1>8 DEF Decoder!ReadEnd, Decoder!FinishStream, Decoder!CState
  <2>3. NextIndex(enc.StreamWasFinished1)'
    BY <1>1, <2>1 DEF NextIndex
  <2>4. numRead = blocks.blocks /\ enc'.Result1 = blocks.tail
    BY <1>3, <2>1 DEF DecoderThread
  <2>5. ASSUME NEW u \in Thread PROVE DecoderThread(u, turn)'
    <3>1. Decoder!Stops(u)' <=> Decoder!Stops(u)
      BY <2>2 DEF Decoder!Stops
    <3> QED
      BY <1>1, <1>3, <1>4, <2>1, <2>2, <2>4, <3>1 DEF DecoderThread, Decoder!SingleThreaded,
         HasDecoded, HasTurn
  <2>6. \A u \in Thread : /\ pc'[u] \in HasDecoded <=> pc[u] \in HasDecoded
                          /\ pc'[u] \in HasTurn <=> pc[u] \in HasTurn
                          /\ pc'[u] \in {"fail", "next"} <=> pc[u] \in {"fail", "next"}
    BY <1>1, <2>1 DEF HasDecoded, HasTurn
  <2>7. Distinct(HasDecoded)' /\ OneTurn(HasTurn, turn)'
    BY <1>3, <2>2, <2>6 DEF Distinct, OneTurn
  <2>8. DecoderRing(turn)'
    BY <1>3, <1>4, <2>1, <2>2, <2>3, <2>4, <2>5, <2>6, <2>7 DEF DecoderRing, Decoder!SingleThreaded
  <2>9. ASSUME NEW u \in Thread, Decoder!Stops(u)' PROVE pc'[u] \in {"fail", "next", "finished"}
    <3>1. Decoder!Stops(u)
      BY <2>2, <2>9 DEF Decoder!Stops
    <3>2. pc[u] \in {"fail", "next", "finished"} /\ u # t
      BY <1>3, <2>1, <3>1
    <3> QED BY <1>1, <2>1, <3>2
  <2> QED
    BY <1>1, <1>5, <2>1, <2>8, <2>9
<1>9. CASE Decoder!WaitCanWrite(t)
  <2> DEFINE k == th[t].blockIndex
  <2>1. /\ pc[t] = "canWrite" /\ th[k].CanWriteEvent /\ UNCHANGED <<enc, numRead, written>>
        /\ \/ pc' = [pc EXCEPT ![t] = "next"] /\ enc.StreamWasFinished2
           \/ pc' = [pc EXCEPT ![t] = "write"] /\ ~enc.StreamWasFinished2
        /\ th' = [[th EXCEPT ![k].CanWriteEvent = FALSE]
                    EXCEPT ![t].needFinish = enc.StreamWasFinished2]
    BY <1>1, <1>9 DEF Decoder!WaitCanWrite
  <2>2. \A u \in Thread : /\ th'[u].CanWriteEvent <=> (u # k /\ th[u].CanWriteEvent)
                          /\ th'[u].blockIndex = th[u].blockIndex
                          /\ th'[u].block = th[u].block /\ th'[u].res = th[u].res
                          /\ u # t => th'[u].needFinish = th[u].needFinish
    BY <1>1, <2>1 DEF Decoder!CState
  <2>3. th'[t].needFinish <=> enc.StreamWasFinished2
    BY <1>1, <2>1 DEF Decoder!CState
  <2>4. /\ k = th[t].block % NumThreads /\ th[t].block \in turn..(numRead - 1)
        /\ k = turn % NumThreads /\ \A u \in Thread : pc[u] \notin HasTurn
    BY <1>1, <1>3, <2>1 DEF DecoderThread, OneTurn, HasDecoded
  <2>5. th[t].block = turn
    <3>1. numRead <= turn + NumThreads
      BY <1>0, <1>2, DecoderOutstanding
    <3>2. /\ turn <= th[t].block /\ th[t].block < turn + NumThreads
          /\ turn % NumThreads = th[t].block % NumThreads
      BY <1>1, <1>3, <2>4, <3>1
    <3> QED
      BY <1>1, <1>3, <3>2, RingDistinct
  <2>6. ~Decoder!Stops(t) /\ (Decoder!Stops(t)' <=> enc.StreamWasFinished2)
    <3>1. ~Decoder!Stops(t)
      BY <1>3, <2>1
    <3> QED
      BY <2>2, <2>3, <3>1 DEF Decoder!Stops
  <2>7. NextIndex(enc.StreamWasFinished1)'
    <3>1. enc.CS \in Thread => pc'[enc.CS] = pc[enc.CS]
      BY <1>0, <1>1, <2>1
    <3> QED
      BY <1>1, <1>3, <2>1, <3>1 DEF NextIndex
  <2>8. ASSUME NEW u \in Thread PROVE DecoderThread(u, turn)'
    <3>1. CASE u = t
      <4>1. /\ th'[u].block = turn /\ th'[u].blockIndex = turn % NumThreads
            /\ turn \in turn..(numRead' - 1)
        BY <1>1, <1>3, <2>1, <2>2, <2>4, <2>5, <3>1
      <4>2. \/ pc'[u] = "next" /\ enc'.StreamWasFinished2 /\ Decoder!Stops(u)'
            \/ pc'[u] = "write" /\ ~enc'.StreamWasFinished2
        BY <1>1, <2>1, <2>6, <3>1
      <4> QED
        BY <4>1, <4>2 DEF DecoderThread, HasDecoded, HasTurn
    <3>2. CASE u # t
      <4>1. pc'[u] = pc[u] /\ (Decoder!Stops(u)' <=> Decoder!Stops(u))
        BY <1>1, <2>1, <2>2, <3>2 DEF Decoder!Stops
      <4>2. /\ DecoderThread(u, turn) /\ th'[u].block = th[u].block
            /\ th'[u].blockIndex = th[u].blockIndex /\ th'[u].res = th[u].res
        BY <1>3, <2>2
      <4> QED
        BY <1>4, <2>1, <4>1, <4>2 DEF DecoderThread
    <3> QED BY <3>1, <3>2
  <2>9. \A u \in Thread : pc'[u] \in HasDecoded <=> pc[u] \in HasDecoded
    BY <1>1, <2>1 DEF HasDecoded
  <2>10. Distinct(HasDecoded)'
    BY <1>3, <2>2, <2>9 DEF Distinct
  <2>11. OneTurn(HasTurn, turn)'
    <3>1. \A u \in Thread : ~th'[u].CanWriteEvent
      BY <1>3, <2>2, <2>4 DEF OneTurn
    <3>2. \A u \in Thread : u # t => pc'[u] \notin HasTurn
      BY <1>1, <2>1, <2>4
    <3> QED
      BY <3>1, <3>2 DEF OneTurn
  <2>12. ~enc.StreamWasFinished2 => written = turn
    BY <1>3, <2>4 DEF HasTurn
  <2>13. DecoderRing(turn)'
    <3>1. ASSUME NEW b \in turn..(numRead - 1)
          PROVE  \E u \in Thread : th'[u].block = b /\ pc'[u] \in HasDecoded
      BY <1>3, <2>2, <2>9
    <3> QED
      BY <1>3, <1>4, <2>1, <2>7, <2>8, <2>10, <2>11, <2>12, <3>1 DEF DecoderRing
  <2>14. ASSUME NEW u \in Thread, Decoder!Stops(u)' PROVE pc'[u] \in {"fail", "next", "finished"}
    <3>1. CASE u = t
      BY <1>1, <2>1, <2>6, <2>14, <3>1
    <3>2. CASE u # t
      <4>1. Decoder!Stops(u)
        BY <2>2, <2>14, <3>2 DEF Decoder!Stops
      <4>2. pc'[u] = pc[u]
        BY <1>1, <2>1, <3>2
      <4> QED BY <1>3, <4>1, <4>2
    <3> QED BY <3>1, <3>2
  <2> QED
    BY <1>1, <1>5, <2>1, <2>13, <2>14
<1>10. CASE Decoder!WriteBlock(t)
  <2> DEFINE isBad == th[t].block = blocks.bad
  <2>1. /\ pc[t] = "write" /\ UNCHANGED <<enc, numRead>>
        /\ pc' = [pc EXCEPT ![t] = IF isBad THEN "fail" ELSE "next"]
        /\ written' = IF isBad /\ blocks.why # "PROGRESS" THEN written ELSE written + 1
        /\ th'[t].res = IF isBad THEN blocks.why ELSE "OK"
        /\ \A u \in Thread : /\ th'[u].CanWriteEvent <=> th[u].CanWriteEvent
                             /\ th'[u].blockIndex = th[u].blockIndex
                             /\ th'[u].block = th[u].block
                             /\ u # t => th'[u].res = th[u].res
                             /\ th'[u].needFinish = th[u].needFinish
    BY <1>1, <1>10 DEF Decoder!WriteBlock, Decoder!CState
  <2>2. /\ th[t].block = turn /\ turn < numRead /\ ~enc.StreamWasFinished2
        /\ \A u \in Thread : u # t => pc[u] \notin HasTurn
        /\ \A u \in Thread : ~th[u].CanWriteEvent
    BY <1>1, <1>3, <2>1 DEF DecoderThread, OneTurn, HasDecoded, HasTurn
  <2>3. /\ written = turn /\ turn <= blocks.bad /\ written' \in 0..numRead'
        /\ turn < blocks.blocks
    BY <1>1, <1>3, <2>1, <2>2 DEF HasTurn
  <2>4. isBad => written' = Decoder!SingleThreaded(blocks).written
    BY <1>1, <2>1, <2>2, <2>3 DEF Decoder!SingleThreaded
  <2>5. ~isBad => written' = turn + 1 /\ turn < blocks.bad
    BY <1>1, <1>3, <2>1, <2>2, <2>3
  <2>6. ~Decoder!Stops(t) /\ (Decoder!Stops(t)' <=> isBad)
    <3>1. ~Decoder!Stops(t)
      BY <1>3, <2>1
    <3> QED
      BY <1>1, <2>1, <3>1 DEF Decoder!Stops
  <2>7. NextIndex(enc.StreamWasFinished1)'
    <3>1. enc.CS \in Thread => pc'[enc.CS] = pc[enc.CS]
      BY <1>0, <1>1, <2>1
    <3> QED
      BY <1>1, <1>3, <2>1, <3>1 DEF NextIndex
  <2>8. ASSUME NEW u \in Thread PROVE DecoderThread(u, turn)'
    <3>1. CASE u = t
      <4>1. pc'[t] = IF isBad THEN "fail" ELSE "next"
        BY <1>1, <2>1
      <4>2. th[t].block \in turn..(numRead - 1) /\ th[t].blockIndex = th[t].block % NumThreads
        BY <1>3, <2>1 DEF DecoderThread, HasDecoded
      <4>3. CASE isBad
        BY <1>4, <2>1, <2>2, <2>4, <3>1, <4>1, <4>2, <4>3
           DEF DecoderThread, Decoder!SingleThreaded
      <4>4. CASE ~isBad
        BY <1>4, <2>1, <2>2, <2>5, <2>6, <3>1, <4>1, <4>2, <4>4 DEF DecoderThread
      <4> QED BY <4>3, <4>4
    <3>2. CASE u # t
      <4>1. pc'[u] = pc[u] /\ pc[u] \notin HasTurn
        BY <1>1, <2>1, <2>2, <3>2
      <4>2. /\ DecoderThread(u, turn)
            /\ th'[u].block = th[u].block /\ th'[u].blockIndex = th[u].blockIndex
        BY <1>3, <2>1
      <4> QED
        BY <1>4, <2>1, <4>1, <4>2 DEF DecoderThread, HasTurn
    <3> QED BY <3>1, <3>2
  <2>9. \A u \in Thread : /\ pc'[u] \in HasDecoded <=> pc[u] \in HasDecoded
                          /\ pc'[u] \in HasTurn <=> pc[u] \in HasTurn
    BY <1>1, <2>1 DEF HasDecoded, HasTurn
  <2>10. Distinct(HasDecoded)' /\ OneTurn(HasTurn, turn)'
    BY <1>3, <2>1, <2>9 DEF Distinct, OneTurn
  <2>11. pc'[t] \in {"fail", "next"}
    BY <1>1, <2>1
  <2>12. DecoderRing(turn)'
    <3>1. ASSUME NEW b \in turn..(numRead - 1)
          PROVE  \E u \in Thread : th'[u].block = b /\ pc'[u] \in HasDecoded
      BY <1>3, <2>1, <2>9
    <3> QED
      BY <1>3, <1>4, <2>1, <2>2, <2>7, <2>8, <2>10, <2>11, <3>1 DEF DecoderRing
  <2>13. \A u \in Thread : Decoder!Stops(u)' => pc'[u] \in {"fail", "next", "finished"}
    BY <1>1, <1>3, <2>1, <2>11 DEF Decoder!Stops
  <2> QED
    BY <1>1, <1>5, <2>1, <2>3, <2>12, <2>13
<1>11. CASE Decoder!Fail(t)
  <2>1. /\ pc[t] = "fail" /\ pc' = [pc EXCEPT ![t] = "next"] /\ UNCHANGED <<th, numRead, written>>
        /\ enc'.CS = enc.CS /\ enc'.NextBlockIndex = enc.NextBlockIndex
        /\ enc'.Result1 = enc.Result1 /\ enc'.Result2 = th[t].res
        /\ enc'.StreamWasFinished2
        /\ enc'.StreamWasFinished1 <=> enc.StreamWasFinished1
    BY <1>1, <1>11 DEF Decoder!Fail, Decoder!CDecoder
  <2>2. /\ th[t].block = turn /\ turn < numRead /\ turn = blocks.bad
        /\ th[t].res = blocks.why /\ written = Decoder!SingleThreaded(blocks).written
        /\ \A u \in Thread : u # t => pc[u] \notin HasTurn
    BY <1>1, <1>3, <2>1 DEF DecoderThread, OneTurn, HasDecoded, HasTurn
  <2>3. Decoder!Stops(t)'
    BY <1>1, <2>1, <2>2 DEF Decoder!Stops
  <2>4. NextIndex(enc.StreamWasFinished1)'
    <3>1. enc.CS \in Thread => pc'[enc.CS] = pc[enc.CS]
      BY <1>0, <1>1, <2>1
    <3> QED
      BY <1>1, <1>3, <2>1, <3>1 DEF NextIndex
  <2>5. ASSUME NEW u \in Thread PROVE DecoderThread(u, turn)'
    <3>1. CASE u = t
      BY <1>1, <1>3, <2>1, <2>2, <2>3, <3>1 DEF DecoderThread, HasDecoded, HasTurn
    <3>2. CASE u # t
      <4>1. pc'[u] = pc[u] /\ pc[u] \notin HasTurn
        BY <1>1, <2>1, <2>2, <3>2
      <4> QED
        BY <1>1, <1>3, <1>4, <2>1, <4>1 DEF DecoderThread, HasTurn
    <3> QED BY <3>1, <3>2
  <2>6. \A u \in Thread : /\ pc'[u] \in HasDecoded <=> pc[u] \in HasDecoded
                          /\ pc'[u] \in HasTurn <=> pc[u] \in HasTurn
    BY <1>1, <2>1 DEF HasDecoded, HasTurn
  <2>7. Distinct(HasDecoded)' /\ OneTurn(HasTurn, turn)'
    BY <1>3, <2>1, <2>6 DEF Distinct, OneTurn
  <2>8. DecoderRing(turn)'
    <3>1. ASSUME NEW b \in turn..(numRead - 1)
          PROVE  \E u \in Thread : th'[u].block = b /\ pc'[u] \in HasDecoded
      BY <1>3, <2>1, <2>6
    <3>2. blocks.bad <= turn /\ blocks.bad < blocks.blocks
      BY <1>1, <1>3, <2>2
    <3> QED
      BY <1>3, <1>4, <2>1, <2>2, <2>4, <2>5, <2>7, <3>1, <3>2 DEF DecoderRing
  <2>9. \A u \in Thread : Decoder!Stops(u)' => pc'[u] \in {"fail", "next", "finished"}
    BY <1>1, <1>3, <2>1 DEF Decoder!Stops
  <2> QED
    BY <1>1, <1>5, <2>1, <2>8, <2>9
<1>12. CASE Decoder!SetCanWrite(t)
  <2> DEFINE k == NextInRing(th[t].blockIndex)
  <2>1. /\ pc[t] = "next" /\ UNCHANGED <<enc, numRead, written>>
        /\ \/ pc' = [pc EXCEPT ![t] = "finished"] /\ Decoder!Stops(t)
           \/ pc' = [pc EXCEPT ![t] = "canProcess"] /\ ~Decoder!Stops(t)
        /\ th' = [th EXCEPT ![k].CanWriteEvent = TRUE]
    BY <1>1, <1>12 DEF Decoder!SetCanWrite
  <2>2. \A u \in Thread : /\ th'[u].CanWriteEvent <=> (u = k \/ th[u].CanWriteEvent)
                          /\ th'[u].blockIndex = th[u].blockIndex
                          /\ th'[u].block = th[u].block /\ th'[u].res = th[u].res
                          /\ th'[u].needFinish = th[u].needFinish
    BY <1>1, <2>1 DEF Decoder!CState
  <2>3. /\ th[t].block = turn /\ turn < numRead /\ th[t].blockIndex = turn % NumThreads
        /\ \A u \in Thread : u # t => pc[u] \notin HasTurn
        /\ \A u \in Thread : ~th[u].CanWriteEvent
    BY <1>1, <1>3, <2>1 DEF DecoderThread, OneTurn, HasDecoded, HasTurn
  <2>4. k = (turn + 1) % NumThreads /\ turn + 1 \in 0..numRead'
    <3>1. NextInRing(turn % NumThreads) = (turn + 1) % NumThreads
      BY <1>3, RingNext
    <3> QED
      BY <1>1, <1>3, <2>1, <2>3, <3>1
  <2>5. /\ Decoder!Stops(t) => enc.StreamWasFinished2
        /\ ~Decoder!Stops(t) => /\ ~enc.StreamWasFinished2 /\ written = turn + 1
                                /\ turn < blocks.bad
    BY <1>3, <2>1 DEF DecoderThread
  <2>6. NextIndex(enc.StreamWasFinished1)'
    <3>1. enc.CS \in Thread => pc'[enc.CS] = pc[enc.CS]
      BY <1>0, <1>1, <2>1
    <3> QED
      BY <1>1, <1>3, <2>1, <3>1 DEF NextIndex
  <2>7. ASSUME NEW u \in Thread PROVE DecoderThread(u, turn + 1)'
    <3>1. CASE u = t
      <4>1. pc'[t] = "finished" \/ pc'[t] = "canProcess"
        BY <1>1, <2>1
      <4>2. pc'[t] = "finished" => enc.StreamWasFinished2
        BY <1>1, <2>1, <2>5
      <4> QED
        BY <2>1, <3>1, <4>1, <4>2 DEF DecoderThread, HasDecoded, HasTurn
    <3>2. CASE u # t
      <4>1. pc'[u] = pc[u] /\ pc[u] \notin HasTurn
        BY <1>1, <2>1, <2>3, <3>2
      <4>2. pc[u] \in HasDecoded => th[u].block \in (turn + 1)..(numRead - 1)
        <5>1. pc[u] \in HasDecoded => th[u].block # turn /\ th[u].block \in turn..(numRead - 1)
          BY <1>3, <2>1, <2>3, <3>2 DEF Distinct, DecoderThread, HasDecoded
        <5> QED
          BY <1>1, <1>3, <5>1
      <4> QED
        BY <1>1, <1>3, <1>4, <2>1, <2>2, <4>1, <4>2 DEF DecoderThread, HasTurn
    <3> QED BY <3>1, <3>2
  <2>8. \A u \in Thread : /\ pc'[u] \in HasDecoded => pc[u] \in HasDecoded
                          /\ pc'[u] \notin HasTurn
    BY <1>1, <2>1, <2>3 DEF HasDecoded, HasTurn
  <2>9. Distinct(HasDecoded)'
    BY <1>3, <2>2, <2>8 DEF Distinct
  <2>10. OneTurn(HasTurn, turn + 1)'
    <3>1. \A u \in Thread : th'[u].CanWriteEvent => u = (turn + 1) % NumThreads
      BY <2>2, <2>3, <2>4
    <3> QED
      BY <2>8, <3>1 DEF OneTurn
  <2>11. ASSUME NEW b \in (turn + 1)..(numRead - 1)
         PROVE  \E u \in Thread : th'[u].block = b /\ pc'[u] \in HasDecoded
    <3>1. b \in turn..(numRead - 1) /\ b # turn
      BY <1>1, <1>3
    <3>2. PICK u \in Thread : th[u].block = b /\ pc[u] \in HasDecoded
      BY <1>3, <3>1
    <3>3. u # t /\ pc'[u] = pc[u]
      BY <1>1, <2>1, <2>3, <3>1, <3>2
    <3> QED
      BY <2>2, <3>2, <3>3
  <2>12. enc.StreamWasFinished2 => blocks.bad <= turn + 1
    BY <1>1, <1>3
  <2>13. ~enc.StreamWasFinished2 => turn + 1 <= blocks.bad /\ written = turn + 1
    BY <1>1, <1>3, <2>5
  <2>14. DecoderRing(turn + 1)'
    BY <1>3, <1>4, <2>1, <2>6, <2>7, <2>9, <2>10, <2>11, <2>12, <2>13
       DEF DecoderRing, Decoder!SingleThreaded
  <2>15. \A u \in Thread : Decoder!Stops(u)' => pc'[u] \in {"fail", "next", "finished"}
    BY <1>1, <1>3, <2>1, <2>2 DEF Decoder!Stops
  <2> QED
    BY <1>1, <1>5, <2>1, <2>4, <2>14, <2>15
<1>13. CASE Decoder!SetFinished(t)
  <2>1. /\ pc[t] = "finished" /\ pc' = [pc EXCEPT ![t] = "canStartWaiting"]
        /\ UNCHANGED <<enc, numRead, written>>
        /\ th'[t].res = "OK" /\ ~th'[t].needFinish
        /\ \A u \in Thread : /\ th'[u].CanWriteEvent <=> th[u].CanWriteEvent
                             /\ th'[u].blockIndex = th[u].blockIndex
                             /\ th'[u].block = th[u].block
                             /\ u # t => th'[u].res = th[u].res
                             /\ u # t => th'[u].needFinish = th[u].needFinish
    <3>1. /\ th'[t] = [th[t] EXCEPT !.StreamWasFinishedEvent = TRUE, !.res = "OK",
                                    !.needFinish = FALSE]
          /\ \A u \in Thread : u # t => th'[u] = th[u]
      BY <1>1, <1>13 DEF Decoder!SetFinished
    <3>2. th[t] \in Decoder!CState
      BY <1>1
    <3>3. th'[t].res = "OK" /\ th'[t].needFinish = FALSE
      BY <3>1, <3>2 DEF Decoder!CState
    <3>4. /\ th'[t].CanWriteEvent = th[t].CanWriteEvent
          /\ th'[t].blockIndex = th[t].blockIndex /\ th'[t].block = th[t].block
      BY <3>1, <3>2 DEF Decoder!CState
    <3>5. /\ pc[t] = "finished" /\ pc' = [pc EXCEPT ![t] = "canStartWaiting"]
          /\ UNCHANGED <<enc, numRead, written>>
      BY <1>13 DEF Decoder!SetFinished
    <3> QED
      BY <3>1, <3>3, <3>4, <3>5
  <2>2. NextIndex(enc.StreamWasFinished1)'
    <3>1. enc.CS \in Thread => pc'[enc.CS] = pc[enc.CS]
      BY <1>0, <1>1, <2>1
    <3> QED
      BY <1>1, <1>3, <2>1, <3>1 DEF NextIndex
  <2>3. ASSUME NEW u \in Thread PROVE DecoderThread(u, turn)'
    <3>1. CASE u = t
      BY <1>1, <1>3, <2>1, <3>1 DEF DecoderThread, HasDecoded, HasTurn
    <3>2. CASE u # t
      <4>1. pc'[u] = pc[u] /\ (Decoder!Stops(u)' <=> Decoder!Stops(u))
        BY <1>1, <2>1, <3>2 DEF Decoder!Stops
      <4>2. /\ DecoderThread(u, turn) /\ th'[u].block = th[u].block
            /\ th'[u].blockIndex = th[u].blockIndex /\ th'[u].res = th[u].res
        BY <1>3, <2>1, <3>2
      <4> QED
        BY <1>4, <2>1, <4>1, <4>2 DEF DecoderThread
    <3> QED BY <3>1, <3>2
  <2>4. \A u \in Thread : /\ pc'[u] \in HasDecoded <=> pc[u] \in HasDecoded
                          /\ pc'[u] \in HasTurn <=> pc[u] \in HasTurn
                          /\ pc'[u] \in {"fail", "next"} <=> pc[u] \in {"fail", "next"}
    BY <1>1, <2>1 DEF HasDecoded, HasTurn
  <2>5. Distinct(HasDecoded)' /\ OneTurn(HasTurn, turn)'
    BY <1>3, <2>1, <2>4 DEF Distinct, OneTurn
  <2>6. DecoderRing(turn)'
    BY <1>3, <1>4, <2>1, <2>2, <2>3, <2>4, <2>5 DEF DecoderRing, Decoder!SingleThreaded
  <2>7. \A u \in Thread : Decoder!Stops(u)' => pc'[u] \in {"fail", "next", "finished"}
    BY <1>1, <1>3, <2>1 DEF Decoder!Stops
  <2> QED
    BY <1>1, <1>5, <2>1, <2>6, <2>7
<1> QED
  BY <1>0, <1>6, <1>7, <1>8, <1>9, <1>10, <1>11, <1>12, <1>13
     DEF Decoder!ThreadStep, Decoder!Exit, Decoder!WaitCanStartWaiting,
         Decoder!SetWaitingWasStarted

\* The invariant holds before the first call of the decoder.
LEMMA DecoderInitial == Decoder!Init => DecoderInv
<1> SUFFICES ASSUME Decoder!Init PROVE DecoderInv
  OBVIOUS
<1> USE Constants, DecoderConstants DEF Decoder!Init
<1>1. Decoder!TypeOK
  <2>1. enc \in Decoder!CDecoder
    BY DEF Decoder!CDecoder, Decoder!Result
  <2>2. [StreamWasFinishedEvent |-> FALSE, WaitingWasStartedEvent |-> FALSE,
         CanWriteEvent |-> FALSE, blockIndex |-> 0, block |-> 0,
         res |-> "OK", needFinish |-> FALSE] \in Decoder!CState
    <3>1. 0 \in Thread /\ 0 \in 0..MaxBlocks
      OBVIOUS
    <3> QED BY <3>1 DEF Decoder!CState, Decoder!Result
  <2>3. blocks \in Decoder!File /\ blocks.blocks = 0
    <3>1. 0 \in 0..MaxBlocks
      OBVIOUS
    <3> QED BY <3>1 DEF Decoder!File, Decoder!NoFile
  <2> QED
    BY <2>1, <2>2, <2>3 DEF Decoder!TypeOK, Decoder!Main, Decoder!Place, Decoder!Result
<1>2. Phases
  BY DEF Phases, Parked, Done
<1>3. Prepared /\ CSHeld({"locked", "finish", "leave"}, {})
  BY DEF Prepared, CSHeld
<1>4. SomeTurn /\ DecoderEnds
  BY DEF SomeTurn, DecoderEnds, Decoder!Stops
<1> QED
  BY <1>1, <1>2, <1>3, <1>4 DEF DecoderInv

\* Every step of the decoder keeps it.
LEMMA DecoderStep == DecoderInv /\ [Decoder!Next]_Decoder!vars => DecoderInv'
<1> SUFFICES ASSUME DecoderInv, [Decoder!Next]_Decoder!vars PROVE DecoderInv'
  OBVIOUS
<1>1. CASE Decoder!Code \/ Decoder!Free \/ Decoder!CallerStep \/ Decoder!Terminating
  <2>1. Decoder!TypeOK'
    BY <1>1, DecoderTypes, DecoderCallerRing DEF DecoderInv, Decoder!Next
  <2> QED
    BY <1>1, <2>1, DecoderCallerPhases, DecoderCallerRing DEF DecoderInv
<1>2. ASSUME NEW t \in Thread, Decoder!ThreadStep(t) PROVE DecoderInv'
  <2>1. SomeTurn' /\ DecoderEnds' /\ written' \in 0..numRead'
    BY <1>2, DecoderThreadEnds, DecoderThreadRing
  <2>2. Decoder!TypeOK'
    BY <1>2, <2>1, DecoderTypes, DecoderConstants DEF DecoderInv, Decoder!Next
  <2> QED
    BY <1>2, <2>1, <2>2, DecoderThreadPhases DEF DecoderInv
<1>3. CASE UNCHANGED Decoder!vars
  <2> USE <1>3 DEF Decoder!vars, Decoder!mainVars, DecoderInv
  <2>1. Decoder!TypeOK' /\ Phases' /\ Prepared' /\ CSHeld({"locked", "finish", "leave"}, {})'
    BY DEF Decoder!TypeOK, Phases, Parked, Done, Prepared, CSHeld
  <2>2. \A turn \in 0..numRead : DecoderRing(turn)' <=> DecoderRing(turn)
    BY DEF DecoderRing, NextIndex, DecoderThread, Distinct, OneTurn, Decoder!SingleThreaded,
       Decoder!Stops
  <2>3. SomeTurn'
    BY <2>2 DEF SomeTurn
  <2>4. DecoderEnds'
    BY DEF DecoderEnds, Decoder!Stops, Decoder!SingleThreaded
  <2> QED
    BY <2>1, <2>3, <2>4
<1> QED
  BY <1>1, <1>2, <1>3, DecoderConstants DEF Decoder!Next

\* The invariant gives the properties that the run checks.
LEMMA DecoderInvImplies ==
  DecoderInv => /\ Decoder!TypeOK /\ Decoder!BlocksInOrder /\ Decoder!AsOneThread
                /\ Decoder!ThreadsAreParked
<1> SUFFICES ASSUME DecoderInv PROVE Decoder!BlocksInOrder /\ Decoder!AsOneThread /\ Decoder!ThreadsAreParked
  BY DEF DecoderInv
<1> USE DecoderConstants
<1>0. /\ Decoder!TypeOK /\ Phases /\ SomeTurn /\ DecoderEnds
      /\ CSHeld({"locked", "finish", "leave"}, {})
  BY DEF DecoderInv
<1>1. ASSUME NEW t \in Thread
      PROVE  /\ pc[t] = "write" => th[t].block = written /\ ~enc.StreamWasFinished2
             /\ pc[t] = "next" /\ ~Decoder!Stops(t) => th[t].block = written - 1
  <2>1. ASSUME pc[t] \in {"write", "next"} PROVE main = "finish"
    BY <1>0, <2>1 DEF Phases, Parked, Done, Decoder!TypeOK, Decoder!Main
  <2>2. ASSUME main = "finish", NEW turn \in 0..numRead, DecoderRing(turn),
               pc[t] \in {"write", "next"}
        PROVE  /\ pc[t] = "write" => th[t].block = written /\ ~enc.StreamWasFinished2
               /\ pc[t] = "next" /\ ~Decoder!Stops(t) => th[t].block = written - 1
    <3>1. DecoderThread(t, turn) /\ OneTurn(HasTurn, turn) /\ turn \in Nat
      BY <1>0, <2>2 DEF DecoderRing, Decoder!TypeOK, Decoder!File
    <3>2. th[t].block = turn
      BY <2>2, <3>1 DEF DecoderThread, HasTurn
    <3>3. CASE pc[t] = "write"
      <4>1. ~enc.StreamWasFinished2 /\ \A u \in Thread : pc[u] \notin {"fail", "next"}
        BY <3>1, <3>3 DEF DecoderThread, OneTurn, HasTurn
      <4> QED
        BY <2>2, <3>2, <3>3, <4>1 DEF DecoderRing
    <3>4. CASE pc[t] = "next"
      <4>1. ~Decoder!Stops(t) => written = turn + 1
        BY <3>1, <3>4 DEF DecoderThread
      <4> QED
        BY <3>1, <3>2, <3>4, <4>1
    <3> QED BY <2>2, <3>3, <3>4
  <2> QED
    BY <1>0, <2>1, <2>2 DEF SomeTurn
<1>2. Decoder!BlocksInOrder
  BY <1>1 DEF Decoder!BlocksInOrder
<1>3. Decoder!AsOneThread
  BY <1>0 DEF DecoderEnds, Decoder!AsOneThread
<1>4. ASSUME main \in {"prepare", "start", "return", "idle"} PROVE Decoder!ThreadsAreParked
  <2>1. \A t \in Thread : pc[t] \in {"none", "canProcess"}
    BY <1>0, <1>4 DEF Phases, Parked
  <2>2. enc.CS = NumThreads
    <3>1. enc.CS \in Thread \cup {NumThreads}
      BY <1>0 DEF Decoder!TypeOK, Decoder!CDecoder
    <3> QED BY <1>0, <2>1, <3>1 DEF CSHeld
  <2>3. ~enc.CanProcessEvent /\ ~enc.CanStartWaitingEvent
    BY <1>0, <1>4 DEF Phases
  <2>4. \A t \in Thread : ~th[t].StreamWasFinishedEvent /\ ~th[t].WaitingWasStartedEvent
    BY <1>0, <1>4 DEF Phases
  <2>5. \A t \in Thread : ~Decoder!Stops(t)
    BY <1>0, <2>1 DEF DecoderEnds
  <2> QED
    BY <2>1, <2>2, <2>3, <2>4, <2>5 DEF Decoder!ThreadsAreParked
<1> QED
  BY <1>2, <1>3, <1>4 DEF Decoder!ThreadsAreParked

\* For any number of threads, any file and any set of failures, the decoder writes the
\* blocks in the order of the file, gives the blocks and the result that one thread would
\* have given, and leaves its threads at the closed gate.
THEOREM DecoderCorrect ==
  Decoder!Spec => [](/\ Decoder!TypeOK /\ Decoder!BlocksInOrder /\ Decoder!AsOneThread
                     /\ Decoder!ThreadsAreParked)
<1>1. Decoder!Spec => []DecoderInv
  BY DecoderInitial, DecoderStep, PTL DEF Decoder!Spec
<1> QED
  BY <1>1, DecoderInvImplies, PTL

-----------------------------------------------------------------------------
(* Both programs, as MCBZip2 runs them.                                    *)

BothInv == \/ codec = "encoder" /\ EncoderInv
           \/ codec = "decoder" /\ DecoderInv

\* The invariant of the one or of the other, as codec never changes.
LEMMA BothInitial == mcInit => BothInv
BY EncoderInitial, DecoderInitial DEF mcInit, BothInv

\* Every step of the one that runs keeps its invariant.
LEMMA BothStep == BothInv /\ [mcNext]_mcVars => BothInv'
<1> SUFFICES ASSUME BothInv, [mcNext]_mcVars PROVE BothInv'
  OBVIOUS
<1>1. UNCHANGED codec
  BY DEF mcNext, mcVars
<1>2. CASE codec = "encoder"
  <2>1. EncoderInv /\ [Next]_vars
    BY <1>2 DEF BothInv, mcNext, mcVars
  <2> QED
    BY <1>1, <1>2, <2>1, EncoderStep DEF BothInv
<1>3. CASE codec = "decoder"
  <2>1. DecoderInv /\ [Decoder!Next]_Decoder!vars
    BY <1>3 DEF BothInv, mcNext, mcVars, vars, mainVars, Decoder!vars, Decoder!mainVars
  <2> QED
    BY <1>1, <1>3, <2>1, DecoderStep DEF BothInv
<1> QED
  BY <1>2, <1>3 DEF BothInv

\* The properties of the run, from those of the two programs.
LEMMA BothInvImplies == BothInv => BothWriteInOrder /\ ResultIsRight /\ BothAreParked
BY EncoderInvImplies, DecoderInvImplies
   DEF BothInv, BothWriteInOrder, ResultIsRight, BothAreParked

\* Encoder and decoder write the blocks in the order of the file, whatever threads wait
\* for their turn.
THEOREM OrderOfTheFile == mcSpec => []BothWriteInOrder
<1>1. mcSpec => []BothInv
  BY BothInitial, BothStep, PTL DEF mcSpec
<1> QED
  BY <1>1, BothInvImplies, PTL

\* The encoder returns S_OK only if it wrote everything, and the decoder returns what one
\* thread would have returned, with the same blocks written.
THEOREM RightResult == mcSpec => []ResultIsRight
<1>1. mcSpec => []BothInv
  BY BothInitial, BothStep, PTL DEF mcSpec
<1> QED
  BY <1>1, BothInvImplies, PTL

\* Between two calls of Code all threads of either wait at the closed gate.
THEOREM ParkedBetweenCalls == mcSpec => []BothAreParked
<1>1. mcSpec => []BothInv
  BY BothInitial, BothStep, PTL DEF mcSpec
<1> QED
  BY <1>1, BothInvImplies, PTL

=============================================================================
