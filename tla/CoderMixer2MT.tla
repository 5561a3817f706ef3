---------------------------- MODULE CoderMixer2MT ----------------------------
(***************************************************************************)
(* CPP/7zip/Archive/Common/CoderMixer2MT.cpp with its threads, the         *)
(* CVirtThread objects of CPP/7zip/Common/VirtThread.cpp: the coders of a  *)
(* 7z folder run at the same time, joined by stream binders.  The binders  *)
(* are the rendezvous pipes of module Pipe, with the number of bytes that  *)
(* a Write still has to deliver abstracted to whether there are any.       *)
(*                                                                         *)
(* A coder (a codec, not modelled) reads and writes its bound streams in   *)
(* any order, and returns any HRESULT at any time; when Write fails it     *)
(* returns that S_FALSE or turns it into E_FAIL (LzmaEncoder.cpp).         *)
(***************************************************************************)
EXTENDS Integers

CONSTANTS
  NumCoders,   \* _coders.Size()
  Binder,      \* the bind pairs
  BindInfo,    \* the ways to bind the coders that are considered
  CoderResult, \* the HRESULTs that coders return of their own accord
  NoBinder

Coder == 1..NumCoders

ASSUME MixerAssumption ==
  /\ NumCoders \in Nat
  /\ BindInfo \subseteq [in : [Binder -> Coder], out : [Binder -> Coder], progress : Coder]
  /\ "S_OK" \in CoderResult /\ "none" \notin CoderResult
  /\ NoBinder \notin Binder

VARIABLES
  bi,      \* the bind info of this mixer
  main,    \* where the caller's thread is in CCoderMixer2MT
  next,    \* the coder index of its current loop
  ret,     \* what the last CCoderMixer2MT::Code returned
  at,      \* [Coder -> place]: where the coder (or its thread) is
  coder,   \* [Coder -> CCoder2]; on is the stream that it waits for
  pipe     \* [Binder -> stream binder]: a Write has bytes left to deliver;
           \* the end of the reader, of the writer is closed

mainVars == <<bi, main, next, ret>>
vars == <<mainVars, at, coder, pipe>>

Main == {"idle", "create", "start", "code", "wait", "results",
         "release", "exit", "join", "destroyed"}

\* "none": no thread; "start": StartEvent.Lock(); "run": in Coder->Code;
\* "release": streams being released; "done": Result and streams are final.
At == {"none", "start", "run", "read", "write", "release", "done", "exited"}
HRESULT == CoderResult \cup {"none", "S_FALSE", "E_FAIL", "E_THREAD"}

CCoder2 == [startEvent : BOOLEAN, finishedEvent : BOOLEAN, exitEvent : BOOLEAN,
            on : Binder \cup {NoBinder}, result : HRESULT]
Pipe == [pending : BOOLEAN, inClosed : BOOLEAN, outClosed : BOOLEAN]

TypeOK ==
  /\ bi \in BindInfo
  /\ main \in Main /\ next \in 1..(NumCoders + 1) /\ ret \in HRESULT
  /\ at \in [Coder -> At]
  /\ coder \in [Coder -> CCoder2]
  /\ pipe \in [Binder -> Pipe]

\* _progressCoderIndex: the coder that runs in the main thread.
Progress == bi.progress

\* The binders that a coder reads from and writes to.
Reads(c) == {b \in Binder : bi.in[b] = c}
Writes(c) == {b \in Binder : bi.out[b] = c}

\* A mixer after SetBindInfo and AddCoder: no stream and no thread exists.
Init ==
  /\ bi \in BindInfo
  /\ main = "idle" /\ next = 1 /\ ret = "none"
  /\ at = [c \in Coder |-> "none"]
  /\ coder = [c \in Coder |-> [startEvent |-> FALSE, finishedEvent |-> FALSE,
                exitEvent |-> FALSE, on |-> NoBinder, result |-> "none"]]
  /\ pipe = [b \in Binder |-> [pending |-> FALSE, inClosed |-> TRUE, outClosed |-> TRUE]]

Step(c, from, to) == at[c] = from /\ at' = [at EXCEPT ![c] = to]

-----------------------------------------------------------------------------
(* A coder: Coder->Code over the bound streams, then the releases.         *)

BeginRead(c, b) ==
  /\ Step(c, "run", "read") /\ b \in Reads(c)
  /\ coder' = [coder EXCEPT ![c].on = b]
  /\ UNCHANGED <<mainVars, pipe>>

\* Read returns some of the bytes of the Write in progress, or all of them.
ReadBytes(c) ==
  /\ Step(c, "read", "run") /\ pipe[coder[c].on].pending
  /\ \E left \in BOOLEAN : pipe' = [pipe EXCEPT ![coder[c].on].pending = left]
  /\ coder' = [coder EXCEPT ![c].on = NoBinder]
  /\ UNCHANGED mainVars

ReadEnds(c) ==
  /\ Step(c, "read", "run")
  /\ ~pipe[coder[c].on].pending /\ pipe[coder[c].on].outClosed
  /\ coder' = [coder EXCEPT ![c].on = NoBinder]
  /\ UNCHANGED <<mainVars, pipe>>

BeginWrite(c, b) ==
  /\ Step(c, "run", "write") /\ b \in Writes(c)
  /\ pipe' = [pipe EXCEPT ![b].pending = TRUE]
  /\ coder' = [coder EXCEPT ![c].on = b]
  /\ UNCHANGED mainVars

WriteSucceeds(c) ==
  /\ Step(c, "write", "run") /\ ~pipe[coder[c].on].pending
  /\ coder' = [coder EXCEPT ![c].on = NoBinder]
  /\ UNCHANGED <<mainVars, pipe>>

WriteFails(c) ==
  /\ Step(c, "write", "release")
  /\ pipe[coder[c].on].pending /\ pipe[coder[c].on].inClosed
  /\ \E r \in {"S_FALSE", "E_FAIL"} :
       coder' = [coder EXCEPT ![c].on = NoBinder, ![c].result = r]
  /\ UNCHANGED <<mainVars, pipe>>

CoderReturns(c) ==
  /\ Step(c, "run", "release")
  /\ \E r \in CoderResult : coder' = [coder EXCEPT ![c].result = r]
  /\ UNCHANGED <<mainVars, pipe>>

\* The loops that release InStreams and then OutStreams; the streams of one
\* loop in any order.
ReleaseInStream(c) ==
  /\ at[c] = "release"
  /\ \E b \in Reads(c) : ~pipe[b].inClosed /\ pipe' = [pipe EXCEPT ![b].inClosed = TRUE]
  /\ UNCHANGED <<mainVars, at, coder>>

ReleaseOutStream(c) ==
  /\ at[c] = "release" /\ \A b \in Reads(c) : pipe[b].inClosed
  /\ \E b \in Writes(c) : ~pipe[b].outClosed /\ pipe' = [pipe EXCEPT ![b].outClosed = TRUE]
  /\ UNCHANGED <<mainVars, at, coder>>

\* The end of CCoder2::Code.
StreamsReleased(c) ==
  /\ Step(c, "release", "done")
  /\ \A b \in Reads(c) : pipe[b].inClosed
  /\ \A b \in Writes(c) : pipe[b].outClosed
  /\ UNCHANGED <<mainVars, coder, pipe>>

-----------------------------------------------------------------------------
(* The loop of CoderThread (VirtThread.cpp).                               *)

\* StartEvent.Lock() takes the auto-reset event; then ExitEvent is looked at.
ThreadStarts(c) ==
  /\ Step(c, "start", IF coder[c].exitEvent THEN "exited" ELSE "run")
  /\ coder[c].startEvent /\ coder' = [coder EXCEPT ![c].startEvent = FALSE]
  /\ UNCHANGED <<mainVars, pipe>>

\* A slip: FinishedEvent is set only after a success.
ThreadFinishesIfOk(c) ==
  /\ c # Progress /\ Step(c, "done", "start")
  /\ coder' = [coder EXCEPT ![c].finishedEvent = @ \/ coder[c].result = "S_OK"]
  /\ UNCHANGED <<mainVars, pipe>>

\* FinishedEvent.Set().
ThreadFinishes(c) ==
  /\ c # Progress /\ Step(c, "done", "start")
  /\ coder' = [coder EXCEPT ![c].finishedEvent = TRUE]
  /\ UNCHANGED <<mainVars, pipe>>

-----------------------------------------------------------------------------
(* The caller's thread.                                                    *)

\* The index of the coder after c that has a thread, or NumCoders + 1.
After(c) == IF c + 1 = Progress THEN c + 2 ELSE c + 1
FirstIndex == After(0)

\* One round of a loop over the coders with a thread, and the end of a loop.
LoopStep(loop) == main = loop /\ next <= NumCoders /\ next' = After(next) /\ UNCHANGED <<main, ret>>
LoopEnds(from, to) == main = from /\ next > NumCoders /\ main' = to /\ next' = FirstIndex /\ UNCHANGED ret

\* ReInit, SetCoderInfo and the call of Code up to the end of Init.
ReInit ==
  /\ main = "idle" /\ main' = "create" /\ next' = FirstIndex
  /\ pipe' = [b \in Binder |-> [pending |-> FALSE, inClosed |-> FALSE, outClosed |-> FALSE]]
  /\ UNCHANGED <<bi, ret, at, coder>>

\* CVirtThread::Create.
CreateThread ==
  /\ LoopStep("create")
  /\ coder' = [coder EXCEPT ![next] =
        [@ EXCEPT !.startEvent = FALSE, !.finishedEvent = FALSE, !.exitEvent = FALSE]]
  /\ at' = [at EXCEPT ![next] = IF @ = "none" THEN "start" ELSE @]
  /\ UNCHANGED <<bi, pipe>>

\* Thread.Create fails: Code returns the error; the callers in Archive/7z
\* give the mixer up.
CreateFails ==
  /\ main = "create" /\ next <= NumCoders /\ at[next] = "none"
  /\ main' = "release" /\ next' = 1 /\ ret' = "E_THREAD"
  /\ UNCHANGED <<bi, at, coder, pipe>>

CreateEnds == LoopEnds("create", "start") /\ UNCHANGED <<bi, at, coder, pipe>>

\* CVirtThread::Start.
StartThread ==
  /\ LoopStep("start")
  /\ coder' = [coder EXCEPT ![next].exitEvent = FALSE, ![next].startEvent = TRUE]
  /\ UNCHANGED <<bi, at, pipe>>

\* _coders[_progressCoderIndex].Code(progress) begins.
ProgressCode ==
  /\ LoopEnds("start", "code")
  /\ at' = [at EXCEPT ![Progress] = "run"]
  /\ UNCHANGED <<bi, coder, pipe>>

\* It has returned.
ProgressCodeReturns ==
  /\ main = "code" /\ at[Progress] = "done"
  /\ main' = "wait" /\ next' = FirstIndex
  /\ UNCHANGED <<bi, ret, at, coder, pipe>>

\* Slips: the wait times out; FinishedEvent is a manual-reset event.
WaitFinishTimesOut ==
  /\ LoopStep("wait")
  /\ coder' = [coder EXCEPT ![next].finishedEvent = FALSE]
  /\ UNCHANGED <<bi, at, pipe>>

WaitFinishKeepsEvent ==
  /\ LoopStep("wait") /\ coder[next].finishedEvent
  /\ UNCHANGED <<bi, at, coder, pipe>>

\* CVirtThread::WaitFinish.
WaitFinish ==
  /\ LoopStep("wait")
  /\ coder[next].finishedEvent /\ coder' = [coder EXCEPT ![next].finishedEvent = FALSE]
  /\ UNCHANGED <<bi, at, pipe>>

WaitEnds == LoopEnds("wait", "results") /\ UNCHANGED <<bi, at, coder, pipe>>

\* The result of the first coder that has one in the set R.
FirstIn(R) ==
  LET C == {c \in Coder : coder[c].result \in R}
  IN  coder[CHOOSE c \in C : \A d \in C : c <= d].result

Results == {coder[c].result : c \in Coder}

\* Slips: only the coder of the main thread is asked; the first error wins.
CodeResultOfProgress == coder[Progress].result
CodeResultFirst == IF Results = {"S_OK"} THEN "S_OK" ELSE FirstIn(HRESULT \ {"S_OK"})

\* The order in which Code looks for a result to return.
CodeResult ==
  LET soft == {"S_OK", "E_FAIL", "S_FALSE"}
  IN  IF "E_ABORT" \in Results THEN "E_ABORT"
      ELSE IF "E_OUTOFMEMORY" \in Results THEN "E_OUTOFMEMORY"
      ELSE IF ~(Results \subseteq soft) THEN FirstIn(HRESULT \ soft)
      ELSE IF "S_FALSE" \in Results THEN "S_FALSE"
      ELSE IF "E_FAIL" \in Results THEN "E_FAIL" ELSE "S_OK"

CodeReturns ==
  /\ main = "results" /\ main' = "idle" /\ next' = 1
  /\ ret' = CodeResult
  /\ UNCHANGED <<bi, at, coder, pipe>>

\* The destructor of the mixer.  ~CCoder2 of each coder in turn releases the
\* streams that it still has, then ~CVirtThread runs WaitThreadFinish.
Destroy ==
  /\ main = "idle" /\ main' = "release" /\ next' = 1
  /\ UNCHANGED <<bi, ret, at, coder, pipe>>

SetExitEvent ==
  /\ main = "release" /\ next <= NumCoders /\ main' = "exit"
  /\ pipe' = [b \in Binder |-> [pipe[b] EXCEPT !.inClosed = @ \/ bi.in[b] = next,
                                              !.outClosed = @ \/ bi.out[b] = next]]
  /\ coder' = [coder EXCEPT ![next].exitEvent = TRUE]
  /\ UNCHANGED <<bi, next, ret, at>>

\* StartEvent.Set(), if the event was created (the difference shows only on a
\* coder without a thread, where nobody waits for it).
SetStartEvent ==
  /\ main = "exit" /\ main' = "join"
  /\ coder' = [coder EXCEPT ![next].startEvent = next # Progress]
  /\ UNCHANGED <<bi, next, ret, at, pipe>>

\* Thread.Wait(), if the thread was created.
JoinThread ==
  /\ main = "join" /\ main' = "release" /\ next' = next + 1
  /\ next = Progress \/ at[next] \in {"none", "exited"}
  /\ UNCHANGED <<bi, ret, at, coder, pipe>>

Destroyed ==
  /\ main = "release" /\ next > NumCoders
  /\ main' = "destroyed" /\ next' = 1
  /\ UNCHANGED <<bi, ret, at, coder, pipe>>

Terminating == main = "destroyed" /\ UNCHANGED vars

CoderStep(c) ==
  \/ ReadBytes(c) \/ ReadEnds(c)
  \/ WriteSucceeds(c) \/ WriteFails(c)
  \/ ReleaseInStream(c) \/ ReleaseOutStream(c) \/ StreamsReleased(c)
  \/ ThreadStarts(c) \/ ThreadFinishes(c)

MainStep ==
  \/ CreateEnds \/ WaitEnds
  \/ CreateThread \/ CreateFails \/ StartThread
  \/ ProgressCode \/ ProgressCodeReturns
  \/ WaitFinish \/ CodeReturns
  \/ SetExitEvent \/ SetStartEvent \/ JoinThread \/ Destroyed

Next ==
  \/ \E c \in Coder :
       \/ \E b \in Binder : BeginRead(c, b) \/ BeginWrite(c, b)
       \/ CoderReturns(c)
       \/ CoderStep(c)
  \/ ReInit
  \/ Destroy
  \/ MainStep
  \/ Terminating

Spec == Init /\ [][Next]_vars

(***************************************************************************)
(* Threads are scheduled, and a coder that is never blocked for ever in    *)
(* the end returns (its input is finite).                                  *)
(***************************************************************************)
FairSpec ==
  /\ Spec
  /\ WF_vars(MainStep)
  /\ \A c \in Coder : WF_vars(CoderStep(c)) /\ SF_vars(CoderReturns(c))

-----------------------------------------------------------------------------
\* When Code looks at the results every coder has finished the present file:
\* no thread can still change its Result, and none is from an earlier file
\* (or was never assigned).
ResultsAreFinal ==
  /\ TypeOK
  /\ main = "results" =>
       /\ \A c \in Coder \ {Progress} : at[c] = "start" /\ ~coder[c].startEvent
       /\ \A c \in Coder : coder[c].result # "none"
       /\ \A b \in Binder : pipe[b].inClosed /\ pipe[b].outClosed

\* Between two files nothing of the first one is left: all streams have been
\* released (CStreamBinder::ReInit relies on that) and no event is signalled,
\* which would start a coder or end a WaitFinish of the next file too early.
NothingLeftBehind ==
  main = "idle" =>
    /\ \A b \in Binder : pipe[b].inClosed /\ pipe[b].outClosed
    /\ \A c \in Coder : ~coder[c].startEvent /\ ~coder[c].finishedEvent

\* Success means that no byte was lost on the way: every Write on every binder
\* was delivered completely.
SuccessLosesNothing ==
  main = "idle" /\ ret = "S_OK" => \A b \in Binder : ~pipe[b].pending

\* The S_FALSE that the neighbours of a failed coder return because their
\* stream broke does not hide the error that started it: if a coder stopped
\* by itself with a hard error, Code returns a hard error, and user break
\* (E_ABORT) wins over all.
CauseIsReported ==
  main = "idle" /\ ret # "none" =>
    /\ (\E c \in Coder : coder[c].result = "E_ABORT") => ret = "E_ABORT"
    /\ (\E c \in Coder : coder[c].result \notin {"S_OK", "S_FALSE", "E_FAIL"})
         => ret \notin {"S_OK", "S_FALSE", "E_FAIL"}
    /\ (\E c \in Coder : coder[c].result # "S_OK") => ret # "S_OK"

\* Whatever the coders do, Code returns: a coder that stops early releases
\* its streams, and that unblocks its neighbours.  The destructor joins every
\* thread, also when only some were created.
CallsReturn == main # "idle" ~> main \in {"idle", "destroyed"}
=============================================================================
