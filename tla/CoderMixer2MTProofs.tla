------------------------ MODULE CoderMixer2MTProofs ------------------------
(***************************************************************************)
(* Proofs about CoderMixer2MT for any number of coders, any way to bind    *)
(* them and any number of files.                                           *)
(***************************************************************************)
EXTENDS CoderMixer2MT, TLAPS, WellFoundedInduction

Others == Coder \ {Progress}

\* The streams of a coder are released; every byte that it wrote was delivered.
Closed(c) == /\ \A b \in Reads(c) : pipe[b].inClosed
             /\ \A b \in Writes(c) : pipe[b].outClosed
Delivered(c) == \A b \in Writes(c) : ~pipe[b].pending

\* A result that belongs to the present file.
Outcome(c) == coder[c].result # "none" /\ (coder[c].result = "S_OK" => Delivered(c))

\* A coder in CCoder2::Code.
AtWork(c) ==
  /\ at[c] \in {"run", "read", "write", "release", "done"}
  /\ at[c] \in {"run", "read"} => Delivered(c)
  /\ at[c] = "write" => \A b \in Writes(c) : b = coder[c].on \/ ~pipe[b].pending
  /\ at[c] \in {"release", "done"} => Outcome(c)
  /\ at[c] = "done" => Closed(c)

Quiet(c) == ~coder[c].startEvent /\ ~coder[c].finishedEvent
Parked(c) == at[c] = "start" /\ Quiet(c)
Finished(c) == Parked(c) /\ Outcome(c) /\ Closed(c)

\* From Start to WaitFinish: about to start, at work, or ready.
Started(c) ==
  \/ /\ at[c] = "start" /\ Delivered(c)
     /\ coder[c].startEvent /\ ~coder[c].finishedEvent /\ ~coder[c].exitEvent
  \/ AtWork(c) /\ Quiet(c)
  \/ /\ at[c] = "start" /\ Outcome(c) /\ Closed(c)
     /\ ~coder[c].startEvent /\ coder[c].finishedEvent

\* The coder of the caller's thread, between files.
NotAtWork == at[Progress] \in {"none", "done"} /\ Quiet(Progress)
HasReturned == at[Progress] = "done" /\ Quiet(Progress) /\ Outcome(Progress) /\ Closed(Progress)

\* In each place of the caller, what is done for the coders before next and what
\* is still to be done.
Phase ==
  /\ main = "idle" =>
       /\ \A b \in Binder : pipe[b].inClosed /\ pipe[b].outClosed
       /\ \A c \in Others : at[c] \in {"none", "start"} /\ Quiet(c)
       /\ NotAtWork
       /\ ret # "none" => ret = CodeResult /\ \A c \in Coder : Outcome(c)
  /\ main = "create" =>
       /\ \A c \in Others : at[c] \in {"none", "start"} /\ Quiet(c) /\ Delivered(c)
                            /\ (c < next => at[c] = "start")
       /\ NotAtWork /\ Delivered(Progress)
  /\ main = "start" =>
       /\ \A c \in Others : IF c < next THEN Started(c) ELSE Parked(c) /\ Delivered(c)
       /\ NotAtWork /\ Delivered(Progress)
  /\ main = "code" =>
       (\A c \in Others : Started(c)) /\ AtWork(Progress) /\ Quiet(Progress)
  /\ main = "wait" =>
       (\A c \in Others : IF c < next THEN Finished(c) ELSE Started(c)) /\ HasReturned
  /\ main = "results" => (\A c \in Others : Finished(c)) /\ HasReturned
  /\ main \in {"create", "start", "wait"} => next # Progress
  /\ main \in {"exit", "join"} => next <= NumCoders

MixerInv == TypeOK /\ Phase

\* The steps of a coder.
CoderAct(c) ==
  \/ \E b \in Binder : BeginRead(c, b) \/ BeginWrite(c, b)
  \/ CoderReturns(c)
  \/ CoderStep(c)

LEMMA InitInv == Init => MixerInv
<1> SUFFICES ASSUME Init PROVE MixerInv
  OBVIOUS
<1>1. bi \in BindInfo /\ Progress \in Coder
  BY MixerAssumption DEF Init, Progress
<1>2. TypeOK
  <2>1. main \in Main /\ next \in 1..(NumCoders + 1) /\ ret \in HRESULT
    BY MixerAssumption DEF Init, Main, HRESULT
  <2>2. at \in [Coder -> At] /\ pipe \in [Binder -> Pipe]
    BY DEF Init, At, Pipe
  <2>3. coder \in [Coder -> CCoder2]
    BY DEF Init, CCoder2, HRESULT
  <2> QED
    BY <1>1, <2>1, <2>2, <2>3 DEF TypeOK
<1>3. Phase
  BY <1>1 DEF Init, Phase, Others, NotAtWork, Quiet
<1> QED
  BY <1>2, <1>3 DEF MixerInv

\* FirstIn finds a result if there is one in the set.
LEMMA FirstInSet ==
  ASSUME TypeOK, NEW R, \E c \in Coder : coder[c].result \in R
  PROVE  FirstIn(R) \in R /\ FirstIn(R) \in Results
<1> DEFINE C == {c \in Coder : coder[c].result \in R}
<1>1. C \subseteq Nat /\ C # {}
  BY DEF Coder
<1>2. PICK c \in C : \A d \in C : ~(<<d, c>> \in OpToRel(<, Nat))
  <2> HIDE DEF C
  <2> QED
    BY <1>1, WFMin, NatLessThanWellFounded, Zenon
<1> HIDE DEF C
<1>3. ASSUME NEW d \in C PROVE c <= d
  <2>1. c \in Nat /\ d \in Nat
    BY <1>1
  <2>2. d < c => <<d, c>> \in OpToRel(<, Nat)
    <3> DEFINE dc == <<d, c>>
    <3>1. dc \in Nat \X Nat /\ dc[1] = d /\ dc[2] = c
      BY <2>1
    <3> HIDE DEF dc
    <3>2. d < c => dc[1] < dc[2]
      BY <3>1
    <3>3. d < c => dc \in OpToRel(<, Nat)
      BY <3>1, <3>2, Zenon DEF OpToRel
    <3> QED
      BY <3>3, Zenon DEF dc
  <2>3. ~(d < c)
    BY <1>2, <2>2, Zenon
  <2> QED
    BY <2>1, <2>3
<1>4. (CHOOSE x \in C : \A d \in C : x <= d) \in C
  BY <1>3
<1> QED
  BY <1>4 DEF FirstIn, Results, C

\* What CodeResult makes of the results.
LEMMA CodeResultIsRight ==
  ASSUME TypeOK
  PROVE  /\ CodeResult \in HRESULT
         /\ "E_ABORT" \in Results => CodeResult = "E_ABORT"
         /\ ~(Results \subseteq {"S_OK", "S_FALSE", "E_FAIL"})
              => CodeResult \notin {"S_OK", "S_FALSE", "E_FAIL"}
         /\ CodeResult = "S_OK" => Results \subseteq {"S_OK"}
<1> DEFINE soft == {"S_OK", "E_FAIL", "S_FALSE"}
<1>1. Results \subseteq HRESULT
  BY DEF Results, TypeOK, CCoder2
<1>2. ~(Results \subseteq soft)
        => FirstIn(HRESULT \ soft) \in HRESULT \ soft
  BY <1>1, FirstInSet DEF Results
<1>3. soft \ {"S_OK"} \subseteq HRESULT
  BY DEF HRESULT
<1> QED
  BY <1>1, <1>2, <1>3, MixerAssumption DEF CodeResult, HRESULT

-----------------------------------------------------------------------------
(* A step of a coder.                                                       *)

\* What a step of coder c leaves alone: the caller, the other coders, and of
\* the binders that an end once closed stays closed and that only the writer
\* starts a Write.
Framed(c) ==
  /\ UNCHANGED mainVars
  /\ \A d \in Coder \ {c} : at'[d] = at[d] /\ coder'[d] = coder[d]
  /\ \A b \in Binder :
       /\ pipe[b].inClosed => pipe'[b].inClosed
       /\ pipe[b].outClosed => pipe'[b].outClosed
       /\ bi.out[b] # c /\ pipe'[b].pending => pipe[b].pending

LEMMA CoderActFrame ==
  ASSUME TypeOK, NEW c \in Coder, CoderAct(c)
  PROVE  TypeOK' /\ Framed(c)
<1>1. ASSUME NEW b \in Binder, BeginRead(c, b) PROVE TypeOK' /\ Framed(c)
  BY <1>1 DEF TypeOK, At, CCoder2, BeginRead, Step, Framed, mainVars
<1>2. ASSUME NEW b \in Binder, BeginWrite(c, b) PROVE TypeOK' /\ Framed(c)
  BY <1>2 DEF TypeOK, At, CCoder2, Pipe, BeginWrite, Writes, Step, Framed, mainVars
<1>3. CASE CoderReturns(c)
  BY <1>3 DEF TypeOK, At, CCoder2, HRESULT, CoderReturns, Step, Framed, mainVars
<1>4. CASE ReadBytes(c)
  <2> PICK left \in BOOLEAN : pipe' = [pipe EXCEPT ![coder[c].on].pending = left]
    BY <1>4 DEF ReadBytes
  <2>1. /\ pipe[coder[c].on].pending /\ UNCHANGED mainVars
        /\ at' = [at EXCEPT ![c] = "run"] /\ coder' = [coder EXCEPT ![c].on = NoBinder]
    BY <1>4 DEF ReadBytes, Step
  <2>2. pipe \in [Binder -> Pipe]
    BY DEF TypeOK
  <2>3. pipe' \in [Binder -> Pipe]
    BY <2>2 DEF Pipe
  <2>4. \A b \in Binder : /\ pipe'[b].inClosed = pipe[b].inClosed
                          /\ pipe'[b].outClosed = pipe[b].outClosed
    BY <2>2 DEF Pipe
  <2>5. \A b \in Binder : pipe'[b].pending => pipe[b].pending
    <3> TAKE b \in Binder
    <3>1. CASE b = coder[c].on
      BY <2>1, <3>1
    <3>2. CASE b # coder[c].on
      BY <2>2, <3>2
    <3> QED
      BY <3>1, <3>2
  <2>6. TypeOK'
    BY <2>1, <2>3 DEF TypeOK, At, CCoder2, mainVars
  <2>7. \A d \in Coder \ {c} : at'[d] = at[d] /\ coder'[d] = coder[d]
    BY <2>1 DEF TypeOK
  <2> QED
    BY <2>1, <2>4, <2>5, <2>6, <2>7 DEF Framed
<1>5. CASE ReadEnds(c)
  BY <1>5 DEF TypeOK, At, CCoder2, ReadEnds, Step, Framed, mainVars
<1>6. CASE WriteSucceeds(c)
  BY <1>6 DEF TypeOK, At, CCoder2, WriteSucceeds, Step, Framed, mainVars
<1>7. CASE WriteFails(c)
  <2> PICK r \in {"S_FALSE", "E_FAIL"} :
             coder' = [coder EXCEPT ![c].on = NoBinder, ![c].result = r]
    BY <1>7 DEF WriteFails
  <2>1. UNCHANGED <<mainVars, pipe>> /\ at' = [at EXCEPT ![c] = "release"]
    BY <1>7 DEF WriteFails, Step
  <2>2. coder' \in [Coder -> CCoder2]
    BY DEF TypeOK, CCoder2, HRESULT
  <2>3. \A d \in Coder \ {c} : coder'[d] = coder[d]
    BY DEF TypeOK
  <2>4. TypeOK'
    BY <2>1, <2>2 DEF TypeOK, At, mainVars
  <2> QED
    BY <2>1, <2>3, <2>4 DEF TypeOK, Framed, mainVars
<1>8. CASE ReleaseInStream(c)
  BY <1>8 DEF TypeOK, Pipe, ReleaseInStream, Framed, mainVars
<1>9. CASE ReleaseOutStream(c)
  BY <1>9 DEF TypeOK, Pipe, ReleaseOutStream, Framed, mainVars
<1>10. CASE StreamsReleased(c)
  BY <1>10 DEF TypeOK, At, StreamsReleased, Step, Framed, mainVars
<1>11. CASE ThreadStarts(c)
  BY <1>11 DEF TypeOK, At, CCoder2, ThreadStarts, Step, Framed, mainVars
<1>12. CASE ThreadFinishes(c)
  BY <1>12 DEF TypeOK, At, CCoder2, ThreadFinishes, Step, Framed, mainVars
<1> QED
  BY <1>1, <1>2, <1>3, <1>4, <1>5, <1>6, <1>7, <1>8, <1>9, <1>10, <1>11, <1>12
     DEF CoderAct, CoderStep

\* What was true of another coder still is.
LEMMA OtherCoder ==
  ASSUME NEW c, NEW d \in Coder \ {c}, Framed(c)
  PROVE  /\ at'[d] = at[d] /\ coder'[d] = coder[d]
         /\ Closed(d) => Closed(d)'
         /\ Delivered(d) => Delivered(d)'
         /\ Outcome(d) => Outcome(d)'
         /\ AtWork(d) => AtWork(d)'
<1>1. at'[d] = at[d] /\ coder'[d] = coder[d]
  BY DEF Framed
<1>2. Reads(d)' = Reads(d) /\ Writes(d)' = Writes(d)
  BY DEF Framed, mainVars, Reads, Writes
<1>3. Closed(d) => Closed(d)'
  BY <1>2 DEF Framed, Closed, Reads, Writes
<1>4. \A b \in Writes(d) : pipe'[b].pending => pipe[b].pending
  BY DEF Framed, Writes
<1>5. Delivered(d) => Delivered(d)'
  BY <1>2, <1>4 DEF Delivered
<1>6. Outcome(d) => Outcome(d)'
  BY <1>1, <1>5 DEF Outcome
<1>7. AtWork(d) => AtWork(d)'
  BY <1>1, <1>2, <1>3, <1>4, <1>5, <1>6 DEF AtWork
<1> QED
  BY <1>1, <1>3, <1>5, <1>6, <1>7

\* A coder that waits without its StartEvent, or has no thread, takes no step;
\* nor does the coder of the caller's thread when it is done.
LEMMA NoStep ==
  ASSUME NEW c \in Coder, CoderAct(c)
  PROVE  /\ ~(at[c] \in {"none", "start"} /\ Quiet(c))
         /\ ~(at[c] = "start" /\ ~coder[c].startEvent)
         /\ ~(c = Progress /\ at[c] \in {"none", "done"})
BY DEF CoderAct, CoderStep, BeginRead, BeginWrite, CoderReturns, ReadBytes, ReadEnds,
       WriteSucceeds, WriteFails, ReleaseInStream, ReleaseOutStream, StreamsReleased,
       ThreadStarts, ThreadFinishes, Step, Quiet

\* A coder at work stays at work, until its thread sets FinishedEvent.
LEMMA WorkStep ==
  ASSUME TypeOK, NEW c \in Coder, CoderAct(c), AtWork(c), Quiet(c)
  PROVE  \/ AtWork(c)' /\ Quiet(c)'
         \/ /\ c \in Others /\ at'[c] = "start" /\ Outcome(c)' /\ Closed(c)'
            /\ ~coder'[c].startEvent /\ coder'[c].finishedEvent
<1> USE DEF Step, AtWork, Quiet, Delivered, Outcome, Closed, Reads, Writes, mainVars
<1>1. ASSUME NEW b \in Binder, BeginRead(c, b) PROVE AtWork(c)' /\ Quiet(c)'
  BY <1>1 DEF TypeOK, CCoder2, BeginRead
<1>2. ASSUME NEW b \in Binder, BeginWrite(c, b) PROVE AtWork(c)' /\ Quiet(c)'
  BY <1>2 DEF TypeOK, CCoder2, Pipe, BeginWrite
<1>3. CASE CoderReturns(c)
  BY <1>3, MixerAssumption DEF TypeOK, CCoder2, CoderReturns
<1>4. CASE ReadBytes(c)
  <2>1. \A b \in Binder : pipe[b].pending \/ ~pipe'[b].pending
    BY <1>4 DEF TypeOK, Pipe, ReadBytes
  <2>2. coder'[c].startEvent = coder[c].startEvent /\ coder'[c].finishedEvent = coder[c].finishedEvent
    BY <1>4 DEF TypeOK, CCoder2, ReadBytes
  <2> QED
    BY <1>4, <2>1, <2>2 DEF TypeOK, ReadBytes
<1>5. CASE ReadEnds(c)
  BY <1>5 DEF TypeOK, CCoder2, ReadEnds
<1>6. CASE WriteSucceeds(c)
  BY <1>6 DEF TypeOK, CCoder2, WriteSucceeds
<1>7. CASE WriteFails(c)
  BY <1>7 DEF TypeOK, CCoder2, WriteFails
<1>8. CASE ReleaseInStream(c)
  BY <1>8 DEF TypeOK, Pipe, ReleaseInStream
<1>9. CASE ReleaseOutStream(c)
  BY <1>9 DEF TypeOK, Pipe, ReleaseOutStream
<1>10. CASE StreamsReleased(c)
  BY <1>10 DEF TypeOK, StreamsReleased
<1>11. CASE ThreadFinishes(c)
  BY <1>11 DEF TypeOK, CCoder2, ThreadFinishes, Others
<1>12. ~ThreadStarts(c)
  BY DEF ThreadStarts
<1> QED
  BY <1>1, <1>2, <1>3, <1>4, <1>5, <1>6, <1>7, <1>8, <1>9, <1>10, <1>11, <1>12
     DEF CoderAct, CoderStep

\* So what Started says of a coder stays true, whatever coder takes a step.
LEMMA StartedStep ==
  ASSUME TypeOK, NEW c \in Coder, CoderAct(c), NEW d \in Others, Started(d)
  PROVE  Started(d)'
<1>1. Framed(c)
  BY CoderActFrame
<1>2. CASE d # c
  BY <1>1, <1>2, OtherCoder DEF Started, Quiet, Others
<1>3. CASE d = c
  <2>1. CASE AtWork(c) /\ Quiet(c)
    BY <1>3, <2>1, WorkStep DEF Started
  <2>2. CASE at[c] = "start" /\ ~coder[c].startEvent
    BY <2>2, NoStep
  <2>3. CASE /\ at[c] = "start" /\ Delivered(c)
             /\ coder[c].startEvent /\ ~coder[c].finishedEvent /\ ~coder[c].exitEvent
    <3>1. ThreadStarts(c)
      BY <2>3 DEF CoderAct, CoderStep, BeginRead, BeginWrite, CoderReturns, ReadBytes, ReadEnds,
           WriteSucceeds, WriteFails, ReleaseInStream, ReleaseOutStream, StreamsReleased,
           ThreadFinishes, Step
    <3>2. at'[c] = "run" /\ Quiet(c)'
      BY <2>3, <3>1 DEF ThreadStarts, Step, Quiet, TypeOK, CCoder2
    <3>3. Delivered(c)'
      BY <2>3, <3>1 DEF ThreadStarts, Delivered, Writes, mainVars
    <3> QED
      BY <1>3, <3>2, <3>3 DEF Started, AtWork
  <2> QED
    BY <1>3, <2>1, <2>2, <2>3 DEF Started
<1> QED
  BY <1>2, <1>3

\* A step of a coder preserves the invariant: what Phase says of each coder
\* rules the step out, is not about that coder, or is kept by it.
LEMMA CoderActInv ==
  ASSUME MixerInv, NEW c \in Coder, CoderAct(c)
  PROVE  MixerInv'
<1>1. TypeOK /\ Phase
  BY DEF MixerInv
<1>2. TypeOK' /\ Framed(c)
  BY <1>1, CoderActFrame
<1>3. UNCHANGED mainVars /\ Progress' = Progress /\ Others' = Others /\ Progress \in Coder
  BY <1>1, <1>2, MixerAssumption DEF Framed, mainVars, Progress, Others, TypeOK
<1>4. ~(at[c] \in {"none", "start"} /\ Quiet(c))
  BY NoStep
<1>5. ASSUME NEW d \in Coder \ {c}
      PROVE  /\ at'[d] = at[d] /\ coder'[d] = coder[d]
             /\ Delivered(d) => Delivered(d)'
             /\ Outcome(d) => Outcome(d)'
             /\ Closed(d) => Closed(d)'
             /\ Parked(d) => Parked(d)'
             /\ Finished(d) => Finished(d)'
             /\ Quiet(d) => Quiet(d)'
  BY <1>2, OtherCoder DEF Parked, Finished, Quiet
<1>6. NotAtWork => c # Progress /\ NotAtWork'
  BY <1>3, <1>5, NoStep DEF NotAtWork, Quiet
<1>7. HasReturned => c # Progress /\ HasReturned'
  BY <1>3, <1>5, NoStep DEF HasReturned
<1>8. main # "idle"
  BY <1>1, <1>3, <1>4, <1>6 DEF Phase, Others
<1>9. main # "create"
  BY <1>1, <1>4, <1>6 DEF Phase, Others
<1>10. CASE main = "start"
  <2>1. c # Progress /\ NotAtWork' /\ Delivered(Progress)'
    BY <1>1, <1>3, <1>5, <1>6, <1>10 DEF Phase
  <2>2. \A d \in Others : IF d < next THEN Started(d)' ELSE Parked(d)' /\ Delivered(d)'
    <3> TAKE d \in Others
    <3>1. CASE d < next
      BY <1>1, <1>10, <3>1, StartedStep DEF Phase
    <3>2. CASE ~(d < next)
      BY <1>1, <1>4, <1>5, <1>10, <3>2 DEF Phase, Parked, Others
    <3> QED
      BY <3>1, <3>2
  <2> QED
    BY <1>1, <1>2, <1>3, <1>10, <2>1, <2>2 DEF MixerInv, Phase, mainVars
<1>11. CASE main = "code"
  <2>1. \A d \in Others : Started(d)'
    BY <1>1, <1>11, StartedStep DEF Phase
  <2>2. AtWork(Progress) /\ Quiet(Progress)
    BY <1>1, <1>11 DEF Phase
  <2>3. (AtWork(Progress) /\ Quiet(Progress))'
    <3>1. CASE c = Progress
      BY <1>1, <1>3, <2>2, <3>1, WorkStep DEF Others
    <3>2. CASE c # Progress
      BY <1>2, <1>3, <1>5, <2>2, <3>2, OtherCoder
    <3> QED
      BY <3>1, <3>2
  <2> QED
    BY <1>2, <1>3, <1>11, <2>1, <2>3 DEF MixerInv, Phase, mainVars
<1>12. CASE main = "wait"
  <2>1. HasReturned'
    BY <1>1, <1>7, <1>12 DEF Phase
  <2>2. \A d \in Others : IF d < next THEN Finished(d)' ELSE Started(d)'
    <3> TAKE d \in Others
    <3>1. CASE d < next
      BY <1>1, <1>4, <1>5, <1>12, <3>1 DEF Phase, Finished, Parked, Others
    <3>2. CASE ~(d < next)
      BY <1>1, <1>12, <3>2, StartedStep DEF Phase
    <3> QED
      BY <3>1, <3>2
  <2> QED
    BY <1>1, <1>2, <1>3, <1>12, <2>1, <2>2 DEF MixerInv, Phase, mainVars
<1>13. main # "results"
  BY <1>1, <1>4, <1>7 DEF Phase, Others, Finished, Parked
<1>14. CASE main \notin {"idle", "create", "start", "code", "wait", "results"}
  BY <1>1, <1>2, <1>3, <1>14 DEF MixerInv, Phase, mainVars
<1> QED
  BY <1>8, <1>9, <1>10, <1>11, <1>12, <1>13, <1>14

-----------------------------------------------------------------------------
(* A step of the caller.                                                    *)

\* The loops visit every coder but Progress.
LEMMA Indices ==
  ASSUME TypeOK
  PROVE  /\ NumCoders \in Nat /\ Progress \in Coder /\ next \in Nat
         /\ FirstIndex \in 1..(NumCoders + 1) /\ FirstIndex # Progress
         /\ \A c \in Others : ~(c < FirstIndex)
         /\ next <= NumCoders =>
              /\ After(next) \in 1..(NumCoders + 1) /\ After(next) # Progress
              /\ \A c \in Others : c < After(next) <=> (c < next \/ c = next)
<1>1. Progress \in 1..NumCoders /\ NumCoders \in Nat
  BY MixerAssumption DEF TypeOK, Progress, Coder
<1> QED
  BY <1>1 DEF TypeOK, After, FirstIndex, Others, Coder

LEMMA CreateInv ==
  ASSUME MixerInv, ReInit \/ CreateThread \/ CreateFails \/ CreateEnds
  PROVE  MixerInv'
<1>1. TypeOK /\ Phase /\ UNCHANGED bi /\ Progress' = Progress /\ Others' = Others
  BY DEF MixerInv, ReInit, CreateThread, CreateFails, CreateEnds, Progress, Others
<1>2. Others \subseteq Coder /\ Progress \in Coder /\ Progress \notin Others
  BY <1>1, Indices DEF Others
<1>3. CASE ReInit
  <2>1. TypeOK'
    BY <1>1, <1>3, Indices DEF TypeOK, ReInit, Main, Pipe
  <2>2. main' = "create" /\ \A b \in Binder : ~pipe'[b].pending
    BY <1>3 DEF ReInit
  <2>3. ASSUME NEW c \in Others
        PROVE  /\ at'[c] \in {"none", "start"} /\ Quiet(c)' /\ Delivered(c)'
               /\ c < next' => at'[c] = "start"
    BY <1>1, <1>3, <2>2, Indices DEF Phase, ReInit, Quiet, Delivered, Writes
  <2>4. NotAtWork' /\ Delivered(Progress)' /\ next' # Progress
    BY <1>1, <1>3, Indices DEF Phase, ReInit, Quiet, NotAtWork, Delivered, Writes
  <2> QED
    BY <1>1, <2>1, <2>2, <2>3, <2>4 DEF MixerInv, Phase
<1>4. CASE CreateThread
  <2>1. /\ main = "create" /\ main' = "create" /\ next \in Coder /\ UNCHANGED <<ret, pipe>>
        /\ next' = After(next) /\ next <= NumCoders
    BY <1>1, <1>4 DEF CreateThread, LoopStep, TypeOK, Coder
  <2>2. TypeOK'
    BY <1>1, <1>4, <2>1, Indices DEF TypeOK, CreateThread, At, CCoder2
  <2>3. \A c \in Coder \ {next} : at'[c] = at[c] /\ coder'[c] = coder[c]
    BY <1>1, <1>4, <2>1 DEF CreateThread, TypeOK
  <2>4. ~coder'[next].startEvent /\ ~coder'[next].finishedEvent
    BY <1>1, <1>4, <2>1 DEF CreateThread, TypeOK, CCoder2, Quiet
  <2>5. at[next] \in {"none", "start"} => at'[next] = "start"
    BY <1>1, <1>4, <2>1 DEF CreateThread, TypeOK
  <2>6. \A c \in Coder : Delivered(c)' <=> Delivered(c)
    BY <1>1, <2>1 DEF Delivered, Writes
  <2>7. NotAtWork' /\ Delivered(Progress)' /\ next' # Progress
    BY <1>1, <1>2, <2>1, <2>3, <2>6, Indices DEF Phase, NotAtWork, Quiet
  <2>8. ASSUME NEW c \in Others
        PROVE  /\ at'[c] \in {"none", "start"} /\ Quiet(c)' /\ Delivered(c)'
               /\ c < next' => at'[c] = "start"
    BY <1>1, <1>2, <2>1, <2>3, <2>4, <2>5, <2>6, Indices DEF Phase, Quiet
  <2> QED
    BY <1>1, <2>1, <2>2, <2>7, <2>8 DEF MixerInv, Phase
<1>5. CASE CreateFails
  BY <1>1, <1>5, Indices DEF MixerInv, TypeOK, Phase, CreateFails, Main, HRESULT
<1>6. CASE CreateEnds
  <2>1. /\ main = "create" /\ main' = "start" /\ next > NumCoders /\ next' = FirstIndex
        /\ UNCHANGED <<bi, ret, at, coder, pipe>>
    BY <1>6 DEF CreateEnds, LoopEnds
  <2>2. TypeOK'
    BY <1>1, <2>1, Indices DEF TypeOK, Main
  <2>3. \A c \in Others : Parked(c)' /\ Delivered(c)' /\ ~(c < next')
    BY <1>1, <2>1, Indices DEF Phase, Parked, Quiet, Delivered, Writes, Others, Coder
  <2>4. NotAtWork' /\ Delivered(Progress)' /\ next' # Progress
    BY <1>1, <2>1, Indices DEF Phase, NotAtWork, Quiet, Delivered, Writes
  <2> QED
    BY <1>1, <2>1, <2>2, <2>3, <2>4 DEF MixerInv, Phase
<1> QED
  BY <1>3, <1>4, <1>5, <1>6

LEMMA StartInv ==
  ASSUME MixerInv, StartThread \/ ProgressCode \/ ProgressCodeReturns
  PROVE  MixerInv'
<1>1. TypeOK /\ Phase /\ UNCHANGED <<bi, ret, pipe>> /\ Progress' = Progress /\ Others' = Others
  BY DEF MixerInv, StartThread, LoopStep, ProgressCode, LoopEnds, ProgressCodeReturns, Progress, Others
<1>2. Others \subseteq Coder /\ Progress \in Coder /\ Progress \notin Others
  BY <1>1, Indices DEF Others
<1>3. CASE StartThread
  <2>1. /\ main = "start" /\ main' = "start" /\ next \in Coder /\ at' = at
        /\ next' = After(next) /\ next <= NumCoders
    BY <1>1, <1>3 DEF StartThread, LoopStep, TypeOK, Coder
  <2>2. TypeOK'
    BY <1>1, <1>3, <2>1, Indices DEF TypeOK, StartThread, CCoder2
  <2>3. ASSUME NEW c \in Coder, c # next
        PROVE  /\ coder'[c] = coder[c] /\ (Delivered(c)' <=> Delivered(c))
               /\ Started(c) => Started(c)'
               /\ Parked(c) => Parked(c)'
    <3>1. coder'[c] = coder[c]
      BY <1>1, <1>3, <2>3 DEF StartThread, TypeOK
    <3> QED
      BY <1>1, <2>1, <3>1 DEF Started, Parked, Quiet, AtWork, Outcome, Closed, Delivered, Reads, Writes
  <2>4. Parked(next) /\ Delivered(next)
    BY <1>1, <2>1, Indices DEF Phase, Others
  <2>5. /\ coder'[next].startEvent /\ ~coder'[next].exitEvent
        /\ coder'[next].finishedEvent = coder[next].finishedEvent
    BY <1>1, <1>3, <2>1 DEF StartThread, TypeOK, CCoder2
  <2>6. ASSUME NEW c \in Others, c = next PROVE Started(c)'
    BY <1>1, <2>1, <2>4, <2>5, <2>6 DEF Started, Parked, Quiet, Delivered, Writes
  <2>7. NotAtWork' /\ Delivered(Progress)' /\ next' # Progress
    BY <1>1, <1>2, <2>1, <2>3, Indices DEF Phase, NotAtWork, Quiet, Delivered, Writes
  <2>8. ASSUME NEW c \in Others
        PROVE  IF c < next' THEN Started(c)' ELSE Parked(c)' /\ Delivered(c)'
    BY <1>1, <1>2, <2>1, <2>3, <2>6, Indices DEF Phase
  <2> QED
    BY <1>1, <2>1, <2>2, <2>7, <2>8 DEF MixerInv, Phase
<1>4. CASE ProgressCode
  <2>1. /\ main = "start" /\ main' = "code" /\ next > NumCoders /\ next' = FirstIndex
        /\ coder' = coder /\ at' = [at EXCEPT ![Progress] = "run"]
    BY <1>4 DEF ProgressCode, LoopEnds
  <2>2. TypeOK'
    BY <1>1, <2>1, Indices DEF TypeOK, Main, At
  <2>3. \A c \in Others : c < next
    BY <1>1, <2>1, Indices DEF Others, Coder
  <2>4. ASSUME NEW c \in Others PROVE Started(c)'
    <3>1. Started(c) /\ at'[c] = at[c]
      BY <1>1, <1>2, <2>1, <2>3 DEF Phase, TypeOK
    <3> QED
      BY <1>1, <2>1, <3>1 DEF Started, Quiet, AtWork, Outcome, Closed, Delivered, Reads, Writes
  <2>5. at'[Progress] = "run"
    BY <1>1, <1>2, <2>1 DEF TypeOK
  <2>6. AtWork(Progress)' /\ Quiet(Progress)'
    BY <1>1, <2>1, <2>5 DEF Phase, NotAtWork, Quiet, AtWork, Delivered, Writes
  <2> QED
    BY <1>1, <2>1, <2>2, <2>4, <2>6 DEF MixerInv, Phase
<1>5. CASE ProgressCodeReturns
  <2>1. /\ main = "code" /\ at[Progress] = "done" /\ main' = "wait" /\ next' = FirstIndex
        /\ UNCHANGED <<at, coder>>
    BY <1>5 DEF ProgressCodeReturns
  <2>2. TypeOK'
    BY <1>1, <2>1, Indices DEF TypeOK, Main
  <2>3. ASSUME NEW c \in Others PROVE Started(c)' /\ ~(c < next')
    <3>1. Started(c) /\ ~(c < next')
      BY <1>1, <2>1, Indices DEF Phase
    <3> QED
      BY <1>1, <2>1, <3>1 DEF Started, Quiet, AtWork, Outcome, Closed, Delivered, Reads, Writes
  <2>4. HasReturned' /\ next' # Progress
    BY <1>1, <2>1, Indices
       DEF Phase, HasReturned, AtWork, Quiet, Outcome, Closed, Delivered, Reads, Writes
  <2> QED
    BY <1>1, <2>1, <2>2, <2>3, <2>4 DEF MixerInv, Phase
<1> QED
  BY <1>3, <1>4, <1>5

LEMMA WaitInv ==
  ASSUME MixerInv, WaitFinish \/ WaitEnds \/ CodeReturns
  PROVE  MixerInv'
<1>1. TypeOK /\ Phase /\ UNCHANGED <<bi, at, pipe>> /\ Progress' = Progress /\ Others' = Others
  BY DEF MixerInv, WaitFinish, LoopStep, WaitEnds, LoopEnds, CodeReturns, Progress, Others
<1>2. Others \subseteq Coder /\ Progress \in Coder /\ Progress \notin Others
  BY <1>1, Indices DEF Others
<1>3. CASE WaitFinish
  <2>1. /\ main = "wait" /\ main' = "wait" /\ next \in Coder /\ ret' = ret
        /\ next' = After(next) /\ next <= NumCoders
    BY <1>1, <1>3 DEF WaitFinish, LoopStep, TypeOK, Coder
  <2>2. TypeOK'
    BY <1>1, <1>3, <2>1, Indices DEF TypeOK, WaitFinish, CCoder2
  <2>3. ASSUME NEW c \in Coder, c # next
        PROVE  /\ coder'[c] = coder[c]
               /\ Started(c) => Started(c)'
               /\ Finished(c) => Finished(c)'
    <3>1. coder'[c] = coder[c]
      BY <1>1, <1>3, <2>3 DEF WaitFinish, TypeOK
    <3> QED
      BY <1>1, <3>1
         DEF Started, Finished, Parked, Quiet, AtWork, Outcome, Closed, Delivered, Reads, Writes
  <2>4. Started(next) /\ coder[next].finishedEvent
    BY <1>1, <1>3, <2>1, Indices DEF Phase, Others, WaitFinish
  <2>5. at[next] = "start" /\ Outcome(next) /\ Closed(next) /\ ~coder[next].startEvent
    BY <2>4 DEF Started, Quiet
  <2>6. /\ ~coder'[next].finishedEvent
        /\ coder'[next].startEvent = coder[next].startEvent
        /\ coder'[next].result = coder[next].result
    BY <1>1, <1>3, <2>1 DEF WaitFinish, TypeOK, CCoder2
  <2>7. ASSUME NEW c \in Others, c = next PROVE Finished(c)'
    BY <1>1, <2>5, <2>6, <2>7
       DEF Finished, Parked, Quiet, Outcome, Closed, Delivered, Reads, Writes
  <2>8. HasReturned' /\ next' # Progress
    BY <1>1, <1>2, <2>1, <2>3, Indices
       DEF Phase, HasReturned, Quiet, Outcome, Closed, Delivered, Reads, Writes
  <2>9. ASSUME NEW c \in Others
        PROVE  IF c < next' THEN Finished(c)' ELSE Started(c)'
    BY <1>1, <1>2, <2>1, <2>3, <2>7, Indices DEF Phase
  <2> QED
    BY <1>1, <2>1, <2>2, <2>8, <2>9 DEF MixerInv, Phase
<1>4. CASE WaitEnds
  <2>1. /\ main = "wait" /\ main' = "results" /\ next > NumCoders /\ next' = FirstIndex
        /\ UNCHANGED <<ret, coder>>
    BY <1>4 DEF WaitEnds, LoopEnds
  <2>2. TypeOK'
    BY <1>1, <2>1, Indices DEF TypeOK, Main
  <2>3. ASSUME NEW c \in Others PROVE Finished(c)'
    <3>1. Finished(c)
      BY <1>1, <2>1, Indices DEF Phase, Others, Coder
    <3> QED
      BY <1>1, <2>1, <3>1 DEF Finished, Parked, Quiet, Outcome, Closed, Delivered, Reads, Writes
  <2>4. HasReturned'
    BY <1>1, <2>1 DEF Phase, HasReturned, Quiet, Outcome, Closed, Delivered, Reads, Writes
  <2> QED
    BY <1>1, <2>1, <2>2, <2>3, <2>4 DEF MixerInv, Phase
<1>5. CASE CodeReturns
  <2>1. /\ main = "results" /\ main' = "idle" /\ next' = 1 /\ ret' = CodeResult /\ coder' = coder
    BY <1>5 DEF CodeReturns
  <2>2. TypeOK'
    BY <1>1, <2>1, Indices, CodeResultIsRight DEF TypeOK, Main
  <2>3. (\A c \in Others : Finished(c)) /\ HasReturned
    BY <1>1, <2>1 DEF Phase
  <2>4. ASSUME NEW c \in Coder PROVE Closed(c) /\ Outcome(c)
    BY <2>3 DEF Others, Finished, HasReturned
  <2>5. \A b \in Binder : pipe'[b].inClosed /\ pipe'[b].outClosed
    <3> TAKE b \in Binder
    <3>1. bi.in[b] \in Coder /\ bi.out[b] \in Coder
      BY <1>1, MixerAssumption DEF TypeOK
    <3> QED
      BY <1>1, <2>4, <3>1 DEF Closed, Reads, Writes
  <2>6. ASSUME NEW c \in Coder PROVE Outcome(c)'
    BY <1>1, <2>1, <2>4 DEF Outcome, Delivered, Writes
  <2>7. ASSUME NEW c \in Others PROVE at'[c] \in {"none", "start"} /\ Quiet(c)'
    BY <1>1, <2>1, <2>3 DEF Finished, Parked, Quiet
  <2>8. NotAtWork'
    BY <1>1, <2>1, <2>3 DEF HasReturned, NotAtWork, Quiet
  <2>9. CodeResult' = CodeResult
    BY <2>1 DEF CodeResult, FirstIn, Results
  <2> QED
    BY <1>1, <2>1, <2>2, <2>5, <2>6, <2>7, <2>8, <2>9 DEF MixerInv, Phase
<1> QED
  BY <1>3, <1>4, <1>5

\* The destructor: only the types are left to keep.
LEMMA DestroyInv ==
  ASSUME MixerInv, Destroy \/ SetExitEvent \/ SetStartEvent \/ JoinThread \/ Destroyed
  PROVE  MixerInv'
<1>1. TypeOK /\ Phase /\ NumCoders \in Nat
  BY Indices DEF MixerInv
<1>2. CASE Destroy
  BY <1>1, <1>2 DEF MixerInv, TypeOK, Phase, Destroy, Main
<1>3. CASE SetExitEvent
  <2>1. /\ main' = "exit" /\ next <= NumCoders /\ UNCHANGED <<bi, next, ret, at>>
    BY <1>3 DEF SetExitEvent
  <2>2. pipe' \in [Binder -> Pipe]
    BY <1>1, <1>3 DEF TypeOK, SetExitEvent, Pipe
  <2>3. coder' \in [Coder -> CCoder2]
    BY <1>1, <1>3 DEF TypeOK, SetExitEvent, CCoder2
  <2> QED
    BY <1>1, <2>1, <2>2, <2>3 DEF MixerInv, TypeOK, Phase, Main
<1>4. CASE SetStartEvent
  <2>1. /\ main' = "join" /\ next <= NumCoders /\ UNCHANGED <<bi, next, ret, at, pipe>>
    BY <1>1, <1>4 DEF SetStartEvent, Phase
  <2>2. coder' \in [Coder -> CCoder2]
    BY <1>1, <1>4 DEF TypeOK, SetStartEvent, CCoder2
  <2> QED
    BY <1>1, <2>1, <2>2 DEF MixerInv, TypeOK, Phase, Main
<1>5. CASE JoinThread
  <2>1. /\ main' = "release" /\ next <= NumCoders /\ next' = next + 1
        /\ UNCHANGED <<bi, ret, at, coder, pipe>>
    BY <1>1, <1>5 DEF JoinThread, Phase
  <2> QED
    BY <1>1, <2>1 DEF MixerInv, TypeOK, Phase, Main
<1>6. CASE Destroyed
  BY <1>1, <1>6 DEF MixerInv, TypeOK, Phase, Destroyed, Main
<1> QED
  BY <1>2, <1>3, <1>4, <1>5, <1>6

LEMMA StutterInv == ASSUME MixerInv, UNCHANGED vars PROVE MixerInv'
<1>1. TypeOK /\ Phase /\ UNCHANGED <<bi, main, next, ret, at, coder, pipe>>
  BY DEF MixerInv, vars, mainVars
<1>2. TypeOK'
  BY <1>1 DEF TypeOK
<1>3. Progress' = Progress /\ Others' = Others /\ CodeResult' = CodeResult
  BY <1>1 DEF Progress, Others, CodeResult, FirstIn, Results
<1>4. ASSUME NEW c
      PROVE  /\ Quiet(c)' <=> Quiet(c)
             /\ Delivered(c)' <=> Delivered(c)
             /\ Outcome(c)' <=> Outcome(c)
             /\ Started(c)' <=> Started(c)
             /\ Parked(c)' <=> Parked(c)
             /\ Finished(c)' <=> Finished(c)
  BY <1>1 DEF Started, Finished, Parked, Quiet, AtWork, Outcome, Closed, Delivered, Reads, Writes
<1>5. /\ NotAtWork' <=> NotAtWork
      /\ HasReturned' <=> HasReturned
      /\ (AtWork(Progress) /\ Quiet(Progress))' <=> AtWork(Progress) /\ Quiet(Progress)
      /\ Delivered(Progress)' <=> Delivered(Progress)
  BY <1>1, <1>3 DEF NotAtWork, HasReturned, AtWork, Quiet, Outcome, Closed, Delivered, Reads, Writes
<1> QED
  BY <1>1, <1>2, <1>3, <1>4, <1>5 DEF MixerInv, Phase

LEMMA StepInv == MixerInv /\ [Next]_vars => MixerInv'
<1> SUFFICES ASSUME MixerInv, [Next]_vars PROVE MixerInv'
  OBVIOUS
<1>1. ASSUME NEW c \in Coder, CoderAct(c) PROVE MixerInv'
  BY <1>1, CoderActInv
<1>2. CASE ReInit \/ CreateThread \/ CreateFails \/ CreateEnds
  BY <1>2, CreateInv
<1>3. CASE StartThread \/ ProgressCode \/ ProgressCodeReturns
  BY <1>3, StartInv
<1>4. CASE WaitFinish \/ WaitEnds \/ CodeReturns
  BY <1>4, WaitInv
<1>5. CASE Destroy \/ SetExitEvent \/ SetStartEvent \/ JoinThread \/ Destroyed
  BY <1>5, DestroyInv
<1>6. CASE UNCHANGED vars \/ Terminating
  BY <1>6, StutterInv DEF Terminating
<1> QED
  BY <1>1, <1>2, <1>3, <1>4, <1>5, <1>6 DEF Next, MainStep, CoderAct

-----------------------------------------------------------------------------
\* The invariant of CCoderMixer2MT::Code holds in every state of every run.
THEOREM MixerInvariant == Spec => []MixerInv
<1> QED
  BY InitInv, StepInv, PTL DEF Spec

\* When Code looks at the results all coders have finished this file: their
\* threads are parked without a StartEvent, each Result was assigned for this
\* file and every stream is released.
THEOREM FinalResults == Spec => []ResultsAreFinal
<1>1. MixerInv => ResultsAreFinal
  <2> SUFFICES ASSUME MixerInv PROVE ResultsAreFinal
    OBVIOUS
  <2>1. TypeOK /\ Progress \in Coder
    BY Indices DEF MixerInv
  <2>2. ASSUME main = "results"
        PROVE  /\ \A c \in Coder \ {Progress} : at[c] = "start" /\ ~coder[c].startEvent
               /\ \A c \in Coder : coder[c].result # "none"
               /\ \A b \in Binder : pipe[b].inClosed /\ pipe[b].outClosed
    <3>1. (\A c \in Others : Finished(c)) /\ HasReturned
      BY <2>2 DEF MixerInv, Phase
    <3>2. \A b \in Binder : bi.in[b] \in Coder /\ bi.out[b] \in Coder
      BY <2>1, MixerAssumption DEF TypeOK
    <3> QED
      BY <3>1, <3>2
         DEF Others, Finished, Parked, Quiet, HasReturned, Outcome, Closed, Reads, Writes
  <2> QED
    BY <2>1, <2>2 DEF ResultsAreFinal
<1> QED
  BY <1>1, MixerInvariant, PTL

\* Between two files all streams are released and no event is signalled, so
\* the next file starts as the first one did.
THEOREM NothingIsLeft == Spec => []NothingLeftBehind
<1>1. MixerInv => NothingLeftBehind
  BY DEF MixerInv, Phase, NothingLeftBehind, Others, NotAtWork, Quiet
<1> QED
  BY <1>1, MixerInvariant, PTL

\* If Code returns S_OK then every Write on every binder was delivered.
THEOREM SuccessIsComplete == Spec => []SuccessLosesNothing
<1>1. MixerInv => SuccessLosesNothing
  <2> SUFFICES ASSUME MixerInv, main = "idle", ret = "S_OK", NEW b \in Binder
               PROVE  ~pipe[b].pending
    BY DEF SuccessLosesNothing
  <2>1. TypeOK /\ CodeResult = "S_OK" /\ \A c \in Coder : Outcome(c)
    BY DEF MixerInv, Phase
  <2>2. \A c \in Coder : coder[c].result = "S_OK"
    BY <2>1, CodeResultIsRight DEF Results
  <2>3. bi.out[b] \in Coder
    BY <2>1, MixerAssumption DEF TypeOK
  <2> QED
    BY <2>1, <2>2, <2>3 DEF Outcome, Delivered, Writes
<1> QED
  BY <1>1, MixerInvariant, PTL

\* A hard error of a coder is reported as one, a break by the user as such,
\* and no failure as success.
THEOREM TheCauseIsReported == Spec => []CauseIsReported
<1>1. MixerInv => CauseIsReported
  <2> SUFFICES ASSUME MixerInv, main = "idle", ret # "none"
               PROVE  CauseIsReported
    BY DEF CauseIsReported
  <2>1. TypeOK /\ ret = CodeResult
    BY DEF MixerInv, Phase
  <2> QED
    BY <2>1, CodeResultIsRight DEF CauseIsReported, Results
<1> QED
  BY <1>1, MixerInvariant, PTL
=============================================================================
