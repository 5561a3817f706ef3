-------------------------- MODULE SyncObjectsProofs --------------------------
(***************************************************************************)
(* Proofs about Threads and MultiWait for any set of threads, of objects   *)
(* and of lists of handles.  Threads is the instance C of MCSyncObjects.   *)
(***************************************************************************)
EXTENDS MCSyncObjects, TLAPS

(* C/Threads.c                                                             *)

\* A UInt32 sum that stays below 2^32 does not wrap.
LEMMA SmallRemainder ==
  ASSUME NEW m \in Nat, NEW x \in 0..(m - 1)
  PROVE  x % m = x
OBVIOUS

\* The types, for every number of threads and objects: in particular no step
\* takes a count below zero or past _maxCount, and an event is 0 or 1.
THEOREM ThreadsTypeCorrect == C!Spec => []C!TypeOK
<1> USE SyncAssumption DEF Event, C!Event, C!Object, C!Call, C!Location, C!At, C!GoTo, C!Obj
<1>1. C!Init => C!TypeOK
  BY DEF C!Init, C!TypeOK
<1>2. C!TypeOK /\ [C!Next]_C!vars => C!TypeOK'
  <2> SUFFICES ASSUME C!TypeOK, [C!Next]_C!vars PROVE C!TypeOK'
    OBVIOUS
  <2> USE DEF C!TypeOK
  <2>1. ASSUME NEW t \in Thread, NEW c \in C!Call, C!Enter(t, c) PROVE C!TypeOK'
    BY <2>1 DEF C!Enter, C!NoCall
  <2>2. ASSUME NEW t \in Thread, C!Lock(t) PROVE C!TypeOK'
    BY <2>2 DEF C!Lock
  <2>3. ASSUME NEW t \in Thread, C!EventSet(t) PROVE C!TypeOK'
    BY <2>3 DEF C!EventSet, C!InBody, C!Broadcast
  <2>4. ASSUME NEW t \in Thread, C!EventReset(t) PROVE C!TypeOK'
    BY <2>4 DEF C!EventReset, C!InBody
  <2>5. ASSUME NEW t \in Thread, C!EventWait(t) PROVE C!TypeOK'
    BY <2>5 DEF C!EventWait, C!InBody
  <2>6. ASSUME NEW t \in Thread, C!SemaphoreReleaseN(t) PROVE C!TypeOK'
    BY <2>6 DEF C!SemaphoreReleaseN, C!InBody, C!Broadcast
  <2>7. ASSUME NEW t \in Thread, C!SemaphoreWait(t) PROVE C!TypeOK'
    BY <2>7 DEF C!SemaphoreWait, C!InBody
  <2>8. ASSUME NEW t \in Thread, C!CondWait(t) PROVE C!TypeOK'
    BY <2>8 DEF C!CondWait
  <2>9. ASSUME NEW t \in Thread, C!SpuriousWakeup(t) PROVE C!TypeOK'
    BY <2>9 DEF C!SpuriousWakeup
  <2>10. ASSUME NEW t \in Thread, C!Unlock(t) PROVE C!TypeOK'
    BY <2>10 DEF C!Unlock
  <2>11. ASSUME NEW t \in Thread, C!NotSignalled(t) PROVE C!TypeOK'
    BY <2>11 DEF C!NotSignalled, C!InBody
  <2>12. CASE UNCHANGED C!vars
    BY <2>12 DEF C!vars
  <2> QED
    BY <2>1, <2>2, <2>3, <2>4, <2>5, <2>6, <2>7, <2>8, <2>9, <2>10, <2>11, <2>12
    DEF C!Next, C!Body
<1> QED
  BY <1>1, <1>2, PTL DEF C!Spec

\* pthread mutexes exclude each other in this code: at most one thread is
\* between lock and unlock of an object, and it owns the mutex.
THEOREM ThreadsMutualExclusion == C!Spec => []C!MutexOwner
<1> USE SyncAssumption DEF Event, C!Event, C!Object, C!Call, C!Location, C!At, C!GoTo, C!Obj,
       C!MutexOwner, C!Owns
<1>1. C!Init => C!MutexOwner
  BY DEF C!Init
<1>2. C!TypeOK /\ C!MutexOwner /\ [C!Next]_C!vars => C!MutexOwner'
  <2> SUFFICES ASSUME C!TypeOK, C!MutexOwner, [C!Next]_C!vars PROVE C!MutexOwner'
    OBVIOUS
  <2> USE DEF C!TypeOK
  <2>1. ASSUME NEW t \in Thread, NEW c \in C!Call, C!Enter(t, c) PROVE C!MutexOwner'
    BY <2>1 DEF C!Enter
  <2>2. ASSUME NEW t \in Thread, C!Lock(t) PROVE C!MutexOwner'
    BY <2>2 DEF C!Lock
  <2>3. ASSUME NEW t \in Thread, C!EventSet(t) PROVE C!MutexOwner'
    BY <2>3 DEF C!EventSet, C!InBody, C!Broadcast
  <2>4. ASSUME NEW t \in Thread, C!EventReset(t) PROVE C!MutexOwner'
    BY <2>4 DEF C!EventReset, C!InBody
  <2>5. ASSUME NEW t \in Thread, C!EventWait(t) PROVE C!MutexOwner'
    BY <2>5 DEF C!EventWait, C!InBody
  <2>6. ASSUME NEW t \in Thread, C!SemaphoreReleaseN(t) PROVE C!MutexOwner'
    BY <2>6 DEF C!SemaphoreReleaseN, C!InBody, C!Broadcast
  <2>7. ASSUME NEW t \in Thread, C!SemaphoreWait(t) PROVE C!MutexOwner'
    BY <2>7 DEF C!SemaphoreWait, C!InBody
  <2>8. ASSUME NEW t \in Thread, C!CondWait(t) PROVE C!MutexOwner'
    BY <2>8 DEF C!CondWait
  <2>9. ASSUME NEW t \in Thread, C!SpuriousWakeup(t) PROVE C!MutexOwner'
    BY <2>9 DEF C!SpuriousWakeup
  <2>10. ASSUME NEW t \in Thread, C!Unlock(t) PROVE C!MutexOwner'
    BY <2>10 DEF C!Unlock
  <2>11. ASSUME NEW t \in Thread, C!NotSignalled(t) PROVE C!MutexOwner'
    BY <2>11 DEF C!NotSignalled, C!InBody
  <2>12. CASE UNCHANGED C!vars
    BY <2>12 DEF C!vars
  <2> QED
    BY <2>1, <2>2, <2>3, <2>4, <2>5, <2>6, <2>7, <2>8, <2>9, <2>10, <2>11, <2>12
    DEF C!Next, C!Body
<1> QED
  BY <1>1, <1>2, ThreadsTypeCorrect, PTL DEF C!Spec

\* No thread sleeps on a signalled object.  Mutual exclusion is what makes
\* this inductive: the signal a waiter has read under the lock cannot change
\* before it sleeps.
THEOREM ThreadsNoWakeupIsLost == C!Spec => []C!NoLostWakeup
<1> USE SyncAssumption DEF Event, C!Event, C!Object, C!Call, C!Location, C!At, C!GoTo, C!Obj,
       C!NoLostWakeup
<1>1. C!Init => C!NoLostWakeup
  BY DEF C!Init
<1>2. C!TypeOK /\ C!MutexOwner /\ C!NoLostWakeup /\ [C!Next]_C!vars => C!NoLostWakeup'
  <2> SUFFICES ASSUME C!TypeOK, C!MutexOwner, C!NoLostWakeup, [C!Next]_C!vars PROVE C!NoLostWakeup'
    OBVIOUS
  <2> USE DEF C!TypeOK, C!MutexOwner, C!Owns
  <2>1. ASSUME NEW t \in Thread, NEW c \in C!Call, C!Enter(t, c) PROVE C!NoLostWakeup'
    BY <2>1 DEF C!Enter
  <2>2. ASSUME NEW t \in Thread, C!Lock(t) PROVE C!NoLostWakeup'
    BY <2>2 DEF C!Lock
  <2>3. ASSUME NEW t \in Thread, C!EventSet(t) PROVE C!NoLostWakeup'
    BY <2>3 DEF C!EventSet, C!InBody, C!Broadcast
  <2>4. ASSUME NEW t \in Thread, C!EventReset(t) PROVE C!NoLostWakeup'
    BY <2>4 DEF C!EventReset, C!InBody
  <2>5. ASSUME NEW t \in Thread, C!EventWait(t) PROVE C!NoLostWakeup'
    BY <2>5 DEF C!EventWait, C!InBody
  <2>6. ASSUME NEW t \in Thread, C!SemaphoreReleaseN(t) PROVE C!NoLostWakeup'
    BY <2>6 DEF C!SemaphoreReleaseN, C!InBody, C!Broadcast
  <2>7. ASSUME NEW t \in Thread, C!SemaphoreWait(t) PROVE C!NoLostWakeup'
    BY <2>7 DEF C!SemaphoreWait, C!InBody
  <2>8. ASSUME NEW t \in Thread, C!CondWait(t) PROVE C!NoLostWakeup'
    BY <2>8 DEF C!CondWait
  <2>9. ASSUME NEW t \in Thread, C!SpuriousWakeup(t) PROVE C!NoLostWakeup'
    BY <2>9 DEF C!SpuriousWakeup
  <2>10. ASSUME NEW t \in Thread, C!Unlock(t) PROVE C!NoLostWakeup'
    BY <2>10 DEF C!Unlock
  <2>11. ASSUME NEW t \in Thread, C!NotSignalled(t) PROVE C!NoLostWakeup'
    BY <2>11 DEF C!NotSignalled, C!InBody
  <2>12. CASE UNCHANGED C!vars
    BY <2>12 DEF C!vars
  <2> QED
    BY <2>1, <2>2, <2>3, <2>4, <2>5, <2>6, <2>7, <2>8, <2>9, <2>10, <2>11, <2>12
    DEF C!Next, C!Body
<1> QED
  BY <1>1, <1>2, ThreadsTypeCorrect, ThreadsMutualExclusion, PTL DEF C!Spec

\* A step that leaves alone the signals and who waits for what is a stutter.
LEMMA ThreadsStutter ==
  ASSUME C!TypeOK, UNCHANGED tSignal,
         \A t \in Thread : /\ C!Waits(t, C!Obj(t)) <=> C!Waits(t, C!Obj(t))'
                          /\ C!Obj(t)' = C!Obj(t)
  PROVE  UNCHANGED C!WaitObj!waitVars
<1>1. C!waitingBar' = C!waitingBar
  BY DEF C!waitingBar
<1> QED
  BY <1>1 DEF C!WaitObj!waitVars, C!retBar

\* The return of a wait, from an event or from a semaphore.
LEMMA ThreadsWaitEnds ==
  ASSUME C!TypeOK, NEW t \in Thread, C!InBody(t, "wait", C!Object),
         tSignal[C!Obj(t)] > 0,
         tSignal' = [tSignal EXCEPT ![C!Obj(t)] = C!WaitObj!Taken(C!Obj(t))],
         C!GoTo(t, "unlock"), UNCHANGED tCall
  PROVE  C!WaitObj!EndWait(t, 1)
<1> USE DEF C!TypeOK, C!InBody, C!Waits, C!At, C!GoTo, C!Obj
<1>1. C!waitingBar[t] = <<C!Obj(t)>>
  BY DEF C!waitingBar
<1>2. C!waitingBar' = [C!waitingBar EXCEPT ![t] = <<>>]
  BY DEF C!waitingBar
<1>3. DOMAIN C!waitingBar[t] = {1} /\ C!waitingBar[t][1] = C!Obj(t)
  BY <1>1
<1>4. C!retBar' = [C!retBar EXCEPT ![t] = 1 - 1]
  BY DEF C!retBar
<1> QED
  BY <1>1, <1>2, <1>3, <1>4 DEF C!WaitObj!EndWait

\* The code of C/Threads.c implements atomic events and semaphores: each step
\* is one operation of the abstract objects or changes nothing that a caller
\* can see.
THEOREM ThreadsRefinesWaitObjects == C!Spec => C!ThreadsImplementWaitObjects
<1> USE SyncAssumption DEF Event, C!Event, C!Object, C!Call, C!Location, C!At, C!GoTo, C!Obj
<1>1. C!Init => C!WaitObj!Init
  BY DEF C!Init, C!WaitObj!Init, C!WaitObj!Event, C!WaitObj!Object, C!Waits, C!waitingBar, C!retBar
<1>2. C!TypeOK /\ [C!Next]_C!vars => [C!WaitObj!Next]_C!WaitObj!waitVars
  <2> SUFFICES ASSUME C!TypeOK, [C!Next]_C!vars
               PROVE  C!WaitObj!Next \/ UNCHANGED C!WaitObj!waitVars
    OBVIOUS
  <2> USE DEF C!TypeOK
  <2>1. ASSUME NEW t \in Thread, NEW c \in C!Call, C!Enter(t, c)
        PROVE  C!WaitObj!Next \/ UNCHANGED C!WaitObj!waitVars
    <3>1. CASE c.op = "wait"
      <4>1. /\ C!waitingBar[t] = <<>>
            /\ C!waitingBar' = [C!waitingBar EXCEPT ![t] = <<c.obj>>]
        BY <2>1, <3>1 DEF C!Enter, C!Waits, C!waitingBar
      <4>2. C!WaitObj!BeginWait(t, <<c.obj>>)
        BY <2>1, <4>1 DEF C!Enter, C!WaitObj!BeginWait, C!retBar
      <4> QED
        BY <4>2 DEF C!WaitObj!Next
    <3>2. CASE c.op # "wait"
      <4>1. C!waitingBar' = C!waitingBar
        BY <2>1, <3>2 DEF C!Enter, C!Waits, C!waitingBar
      <4> QED
        BY <2>1, <4>1 DEF C!Enter, C!WaitObj!waitVars, C!retBar
    <3> QED
      BY <3>1, <3>2
  <2>2. ASSUME NEW t \in Thread, C!Lock(t) PROVE UNCHANGED C!WaitObj!waitVars
    BY <2>2, ThreadsStutter DEF C!Lock, C!Waits
  <2>3. ASSUME NEW t \in Thread, C!EventSet(t) PROVE C!WaitObj!Set(C!Obj(t))
    <3>1. C!waitingBar' = C!waitingBar
      BY <2>3 DEF C!EventSet, C!InBody, C!Broadcast, C!Waits, C!waitingBar
    <3> QED
      BY <2>3, <3>1 DEF C!EventSet, C!InBody, C!WaitObj!Set, C!retBar
  <2>4. ASSUME NEW t \in Thread, C!EventReset(t) PROVE C!WaitObj!Reset(C!Obj(t))
    <3>1. C!waitingBar' = C!waitingBar
      BY <2>4 DEF C!EventReset, C!InBody, C!Waits, C!waitingBar
    <3> QED
      BY <2>4, <3>1 DEF C!EventReset, C!InBody, C!WaitObj!Reset, C!retBar
  <2>5. ASSUME NEW t \in Thread, C!EventWait(t) PROVE C!WaitObj!EndWait(t, 1)
    <3>1. tSignal[C!Obj(t)] = 1 /\ C!Obj(t) \in C!Event
      BY <2>5 DEF C!EventWait, C!InBody
    <3>2. tSignal' = [tSignal EXCEPT ![C!Obj(t)] = C!WaitObj!Taken(C!Obj(t))]
      BY <2>5, <3>1 DEF C!EventWait, C!WaitObj!Taken
    <3>3. /\ C!InBody(t, "wait", C!Object)
          /\ C!GoTo(t, "unlock")
          /\ UNCHANGED tCall
      BY <2>5 DEF C!EventWait, C!InBody
    <3>4. tSignal[C!Obj(t)] > 0
      BY <3>1
    <3> HIDE DEF C!GoTo, C!Obj, C!TypeOK, C!Object
    <3> QED
      BY <3>2, <3>3, <3>4, ThreadsWaitEnds
  <2>6. ASSUME NEW t \in Thread, C!SemaphoreReleaseN(t)
        PROVE  C!WaitObj!Release(C!Obj(t)) \/ UNCHANGED C!WaitObj!waitVars
    <3>1. C!waitingBar' = C!waitingBar
      BY <2>6 DEF C!SemaphoreReleaseN, C!InBody, C!Broadcast, C!Waits, C!waitingBar
    <3> DEFINE newCount == (tSignal[C!Obj(t)] + tCall[t].n) % UIntSize
    <3>2. newCount = tSignal[C!Obj(t)] + tCall[t].n /\ tCall[t].n > 0
      <4>0. tCall[t] \in C!Call /\ C!Obj(t) \in Semaphore /\ tCall[t].op = "release"
        BY <2>6 DEF C!SemaphoreReleaseN, C!InBody
      <4>1. /\ tSignal[C!Obj(t)] \in 0..MaxCount[C!Obj(t)]
            /\ tCall[t].n \in 1..MaxRelease
            /\ MaxCount[C!Obj(t)] \in Nat
            /\ MaxCount[C!Obj(t)] + MaxRelease < UIntSize
        BY <4>0
      <4>2. tSignal[C!Obj(t)] + tCall[t].n \in 0..(UIntSize - 1)
        BY <4>1
      <4>3. newCount = tSignal[C!Obj(t)] + tCall[t].n
        BY <4>2, SmallRemainder DEF SyncAssumption
      <4> QED
        BY <4>1, <4>3
    <3>3. CASE newCount > MaxCount[C!Obj(t)]
      BY <2>6, <3>1, <3>2, <3>3 DEF C!SemaphoreReleaseN, C!InBody, C!WaitObj!waitVars, C!retBar
    <3>4. CASE newCount <= MaxCount[C!Obj(t)]
      BY <2>6, <3>1, <3>2, <3>4 DEF C!SemaphoreReleaseN, C!InBody, C!WaitObj!Release, C!retBar
    <3> QED
      BY <2>6, <3>3, <3>4 DEF C!SemaphoreReleaseN
  <2>7. ASSUME NEW t \in Thread, C!SemaphoreWait(t) PROVE C!WaitObj!EndWait(t, 1)
    <3>1. tSignal[C!Obj(t)] >= 1 /\ C!Obj(t) \in Semaphore
      BY <2>7 DEF C!SemaphoreWait, C!InBody
    <3>2. tSignal' = [tSignal EXCEPT ![C!Obj(t)] = C!WaitObj!Taken(C!Obj(t))]
      BY <2>7, <3>1 DEF C!SemaphoreWait, C!WaitObj!Taken
    <3>3. /\ C!InBody(t, "wait", C!Object)
          /\ C!GoTo(t, "unlock")
          /\ UNCHANGED tCall
      BY <2>7 DEF C!SemaphoreWait, C!InBody
    <3>4. tSignal[C!Obj(t)] > 0
      BY <3>1
    <3> HIDE DEF C!GoTo, C!Obj, C!TypeOK, C!Object
    <3> QED
      BY <3>2, <3>3, <3>4, ThreadsWaitEnds
  <2>8. ASSUME NEW t \in Thread, C!NotSignalled(t) PROVE UNCHANGED C!WaitObj!waitVars
    BY <2>8, ThreadsStutter DEF C!NotSignalled, C!InBody, C!Waits
  <2>9. ASSUME NEW t \in Thread, C!CondWait(t) PROVE UNCHANGED C!WaitObj!waitVars
    BY <2>9, ThreadsStutter DEF C!CondWait, C!Waits
  <2>10. ASSUME NEW t \in Thread, C!SpuriousWakeup(t) PROVE UNCHANGED C!WaitObj!waitVars
    BY <2>10, ThreadsStutter DEF C!SpuriousWakeup, C!Waits
  <2>11. ASSUME NEW t \in Thread, C!Unlock(t) PROVE UNCHANGED C!WaitObj!waitVars
    <3>1. C!waitingBar' = C!waitingBar
      BY <2>11 DEF C!Unlock, C!Waits, C!waitingBar
    <3> QED
      BY <2>11, <3>1 DEF C!Unlock, C!WaitObj!waitVars, C!retBar
  <2>12. CASE UNCHANGED C!vars
    <3>1. C!waitingBar' = C!waitingBar
      BY <2>12 DEF C!vars, C!waitingBar, C!Waits
    <3>2. UNCHANGED tSignal /\ C!retBar' = C!retBar
      BY <2>12 DEF C!vars, C!retBar
    <3> QED
      BY <3>1, <3>2 DEF C!WaitObj!waitVars
  <2>13. QED
    <3>1. ASSUME NEW t \in Thread, NEW i \in DOMAIN C!waitingBar[t], C!WaitObj!EndWait(t, i)
          PROVE  C!WaitObj!Next
      BY <3>1 DEF C!WaitObj!Next
    <3>2. \A t \in Thread : C!WaitObj!EndWait(t, 1) => C!WaitObj!Next
      BY <3>1 DEF C!WaitObj!EndWait
    <3>3. ASSUME NEW t \in Thread, C!EventSet(t) \/ C!EventReset(t) PROVE C!WaitObj!Next
      BY <2>3, <2>4, <3>3 DEF C!EventSet, C!EventReset, C!InBody, C!WaitObj!Next, C!WaitObj!Event
    <3>4. ASSUME NEW t \in Thread, C!SemaphoreReleaseN(t)
          PROVE  C!WaitObj!Next \/ UNCHANGED C!WaitObj!waitVars
      BY <2>6, <3>4 DEF C!SemaphoreReleaseN, C!InBody, C!WaitObj!Next
    <3> HIDE DEF C!TypeOK
    <3> QED
      BY <2>1, <2>2, <2>5, <2>7, <2>8, <2>9, <2>10, <2>11, <2>12, <3>2, <3>3, <3>4
      DEF C!Next, C!Body
<1> QED
  BY <1>1, <1>2, ThreadsTypeCorrect, PTL DEF C!Spec, C!ThreadsImplementWaitObjects, C!WaitObj!Spec
-----------------------------------------------------------------------------
(* WaitForMultipleObjects                                                  *)

\* What a call works on: lists of objects that are not empty.
LEMMA Handles ==
  ASSUME TypeOK, NEW t \in Thread, pc[t] # "idle"
  PROVE  /\ call[t] \in Call
         /\ call[t].handles \in Seq(Object)
         /\ Len(call[t].handles) \in Nat \ {0}
         /\ \A i \in DOMAIN call[t].handles : call[t].handles[i] \in Object
         /\ Obj(t) \in Object
         /\ Obj(t) = call[t].handles[1]
         /\ call[t].op \in {"set", "reset"} => Obj(t) \in Event
         /\ call[t].op = "release" => Obj(t) \in Semaphore /\ call[t].n \in 1..MaxRelease
<1>1. call[t] \in Call
  BY DEF TypeOK
<1>2. CASE call[t].op \in {"set", "reset"}
  <2>1. PICK e \in Event : call[t].handles = <<e>>
    BY <1>1, <1>2 DEF Call
  <2> QED
    BY <1>1, <1>2, <2>1 DEF Obj, Object
<1>3. CASE call[t].op = "release"
  <2>1. PICK s \in Semaphore : call[t].handles = <<s>> /\ call[t].n \in 1..MaxRelease
    BY <1>1, <1>3 DEF Call
  <2> QED
    BY <1>1, <1>3, <2>1 DEF Obj, Object
<1>4. CASE call[t].op = "wait"
  <2>1. call[t].handles \in HandleLists
    BY <1>1, <1>4 DEF Call
  <2>2. /\ call[t].handles \in Seq(Object)
        /\ Len(call[t].handles) \in Nat \ {0}
    BY <2>1, SyncAssumption, HandlesAssumption
  <2> QED
    BY <1>1, <1>4, <2>2 DEF Obj
<1> QED
  BY <1>1, <1>2, <1>3, <1>4 DEF Call

\* The types: no step takes a count below zero or past _maxCount, and the
\* state of an event is a Boolean.
THEOREM TypeCorrect == Spec => []TypeOK
<1> USE SyncAssumption, HandlesAssumption DEF Event, Object, Location, At, GoTo
<1>1. Init => TypeOK
  BY DEF Init, TypeOK
<1>2. TypeOK /\ [Next]_vars => TypeOK'
  <2> SUFFICES ASSUME TypeOK, [Next]_vars PROVE TypeOK'
    OBVIOUS
  <2> USE Handles DEF TypeOK
  <2>1. ASSUME NEW t \in Thread, NEW c \in Call, Begin(t, c) PROVE TypeOK'
    BY <2>1 DEF Begin, Call, NoCall
  <2>2. ASSUME NEW t \in Thread, Enter(t) PROVE TypeOK'
    BY <2>2 DEF Enter
  <2>3. ASSUME NEW t \in Thread, Set(t) PROVE TypeOK'
    BY <2>3 DEF Set, InBody, LeaveAndSignal
  <2>4. ASSUME NEW t \in Thread, Reset(t) PROVE TypeOK'
    BY <2>4 DEF Reset, InBody
  <2>5. ASSUME NEW t \in Thread, Release(t) PROVE TypeOK'
    <3>1. Obj(t) \in Semaphore /\ call[t].n \in 1..MaxRelease
      BY <2>5 DEF Release, InBody
    <3> DEFINE newCount == signal[Obj(t)] + call[t].n
    <3>2. CASE newCount > MaxCount[Obj(t)]
      <4>1. ~ newCount <= MaxCount[Obj(t)]
        BY <3>1, <3>2
      <4>2. UNCHANGED <<signal, owner, call, ret>> /\ GoTo(t, "unlock")
        BY <2>5, <4>1 DEF Release
      <4>3. pc[t] = "locked"
        BY <2>5 DEF Release, InBody
      <4> HIDE DEF newCount
      <4> QED
        BY <4>2, <4>3
    <3>3. CASE newCount <= MaxCount[Obj(t)]
      <4>1. newCount \in 0..MaxCount[Obj(t)]
        BY <3>1, <3>3
      <4>2. /\ signal' = [signal EXCEPT ![Obj(t)] = newCount]
            /\ LeaveAndSignal(t)
            /\ UNCHANGED ret
        BY <2>5, <3>1, <3>3 DEF Release
      <4> HIDE DEF newCount
      <4> QED
        BY <3>1, <4>1, <4>2 DEF LeaveAndSignal
    <3> QED
      BY <2>5, <3>2, <3>3 DEF Release
  <2>6. ASSUME NEW t \in Thread, WaitForMultipleObjects(t) PROVE TypeOK'
    <3> DEFINE h == call[t].handles
    <3>1. PICK i \in DOMAIN h :
            /\ signal[h[i]] > 0
            /\ signal' = [signal EXCEPT ![h[i]] = Update(h[i])]
            /\ ret' = [ret EXCEPT ![t] = i - 1]
      BY <2>6 DEF WaitForMultipleObjects, Signalled
    <3>2. i \in Nat \ {0} /\ h[i] \in Object
      <4>1. h \in Seq(Object) /\ \A k \in DOMAIN h : h[k] \in Object
        BY <2>6, Handles DEF WaitForMultipleObjects, InBody
      <4> QED
        BY <4>1
    <3>3. /\ Update(h[i]) \in Nat
          /\ h[i] \in Event => Update(h[i]) \in {0, 1}
          /\ h[i] \in Semaphore => Update(h[i]) \in 0..MaxCount[h[i]]
      <4> HIDE DEF h
      <4>1. /\ signal[h[i]] \in Nat
            /\ h[i] \in Event => signal[h[i]] \in {0, 1}
            /\ h[i] \in Semaphore => MaxCount[h[i]] \in Nat /\ signal[h[i]] \in 0..MaxCount[h[i]]
        BY <3>2
      <4> QED
        BY <3>1, <4>1 DEF Update
    <3>4. pc[t] = "locked" /\ UNCHANGED <<owner, call>> /\ GoTo(t, "unlock")
      BY <2>6 DEF WaitForMultipleObjects, InBody
    <3> HIDE DEF h
    <3>5. /\ signal' \in [Object -> Nat]
          /\ \A e \in Event : signal'[e] \in {0, 1}
          /\ \A s \in Semaphore : signal'[s] \in 0..MaxCount[s]
      BY <3>1, <3>2, <3>3
    <3>6. ret' \in [Thread -> Nat] /\ pc' \in [Thread -> Location]
      BY <3>1, <3>2, <3>4
    <3> QED
      BY <3>4, <3>5, <3>6
  <2>7. ASSUME NEW t \in Thread, NothingSignalled(t) PROVE TypeOK'
    BY <2>7 DEF NothingSignalled, InBody
  <2>8. ASSUME NEW t \in Thread, WaitCond(t) PROVE TypeOK'
    BY <2>8 DEF WaitCond
  <2>9. ASSUME NEW t \in Thread, SpuriousWakeup(t) PROVE TypeOK'
    BY <2>9 DEF SpuriousWakeup
  <2>10. ASSUME NEW t \in Thread, Leave(t) PROVE TypeOK'
    BY <2>10 DEF Leave
  <2>11. CASE UNCHANGED vars
    BY <2>11 DEF vars
  <2> QED
    BY <2>1, <2>2, <2>3, <2>4, <2>5, <2>6, <2>7, <2>8, <2>9, <2>10, <2>11
    DEF Next, Body
<1> QED
  BY <1>1, <1>2, PTL DEF Spec

\* The shared mutex excludes: it belongs to the one thread that is inside a
\* critical section.
THEOREM MutualExclusion == Spec => []MutexOwner
<1> USE SyncAssumption, HandlesAssumption DEF Location, At, GoTo, MutexOwner, Owns
<1>1. Init => MutexOwner
  BY DEF Init
<1>2. TypeOK /\ MutexOwner /\ [Next]_vars => MutexOwner'
  <2> SUFFICES ASSUME TypeOK, MutexOwner, [Next]_vars PROVE MutexOwner'
    OBVIOUS
  <2> USE DEF TypeOK
  <2>1. ASSUME NEW t \in Thread, NEW c \in Call, Begin(t, c) PROVE MutexOwner'
    BY <2>1 DEF Begin
  <2>2. ASSUME NEW t \in Thread, Enter(t) PROVE MutexOwner'
    BY <2>2 DEF Enter
  <2>3. ASSUME NEW t \in Thread, Set(t) PROVE MutexOwner'
    BY <2>3 DEF Set, InBody, LeaveAndSignal
  <2>4. ASSUME NEW t \in Thread, Reset(t) PROVE MutexOwner'
    BY <2>4 DEF Reset, InBody
  <2>5. ASSUME NEW t \in Thread, Release(t) PROVE MutexOwner'
    BY <2>5 DEF Release, InBody, LeaveAndSignal
  <2>6. ASSUME NEW t \in Thread, WaitForMultipleObjects(t) PROVE MutexOwner'
    BY <2>6 DEF WaitForMultipleObjects, InBody, Update, Signalled
  <2>7. ASSUME NEW t \in Thread, NothingSignalled(t) PROVE MutexOwner'
    BY <2>7 DEF NothingSignalled, InBody
  <2>8. ASSUME NEW t \in Thread, WaitCond(t) PROVE MutexOwner'
    BY <2>8 DEF WaitCond
  <2>9. ASSUME NEW t \in Thread, SpuriousWakeup(t) PROVE MutexOwner'
    BY <2>9 DEF SpuriousWakeup
  <2>10. ASSUME NEW t \in Thread, Leave(t) PROVE MutexOwner'
    BY <2>10 DEF Leave
  <2>11. CASE UNCHANGED vars
    BY <2>11 DEF vars
  <2> QED
    BY <2>1, <2>2, <2>3, <2>4, <2>5, <2>6, <2>7, <2>8, <2>9, <2>10, <2>11
    DEF Next, Body
<1> QED
  BY <1>1, <1>2, TypeCorrect, PTL DEF Spec

\* No thread sleeps while a handle of its list is signalled.  Mutual exclusion
\* keeps the signals still between the scan of the list and the sleep.
THEOREM NoWakeupIsLost == Spec => []NoLostWakeup
<1> USE SyncAssumption, HandlesAssumption DEF Event, Object, Location, At, GoTo, NoLostWakeup
<1>1. Init => NoLostWakeup
  BY DEF Init
<1>2. TypeOK /\ MutexOwner /\ NoLostWakeup /\ [Next]_vars => NoLostWakeup'
  <2> SUFFICES ASSUME TypeOK, MutexOwner, NoLostWakeup, [Next]_vars PROVE NoLostWakeup'
    OBVIOUS
  <2> USE Handles DEF TypeOK, MutexOwner, Owns, Signalled
  <2>1. ASSUME NEW t \in Thread, NEW c \in Call, Begin(t, c) PROVE NoLostWakeup'
    BY <2>1 DEF Begin
  <2>2. ASSUME NEW t \in Thread, Enter(t) PROVE NoLostWakeup'
    BY <2>2 DEF Enter
  <2>3. ASSUME NEW t \in Thread, Set(t) PROVE NoLostWakeup'
    BY <2>3 DEF Set, InBody, LeaveAndSignal
  <2>4. ASSUME NEW t \in Thread, Reset(t) PROVE NoLostWakeup'
    BY <2>4 DEF Reset, InBody
  <2>5. ASSUME NEW t \in Thread, Release(t) PROVE NoLostWakeup'
    BY <2>5 DEF Release, InBody, LeaveAndSignal
  <2>6. ASSUME NEW t \in Thread, WaitForMultipleObjects(t) PROVE NoLostWakeup'
    BY <2>6 DEF WaitForMultipleObjects, InBody, Update
  <2>7. ASSUME NEW t \in Thread, NothingSignalled(t) PROVE NoLostWakeup'
    BY <2>7 DEF NothingSignalled, InBody
  <2>8. ASSUME NEW t \in Thread, WaitCond(t) PROVE NoLostWakeup'
    BY <2>8 DEF WaitCond
  <2>9. ASSUME NEW t \in Thread, SpuriousWakeup(t) PROVE NoLostWakeup'
    BY <2>9 DEF SpuriousWakeup
  <2>10. ASSUME NEW t \in Thread, Leave(t) PROVE NoLostWakeup'
    BY <2>10 DEF Leave
  <2>11. CASE UNCHANGED vars
    BY <2>11 DEF vars
  <2> QED
    BY <2>1, <2>2, <2>3, <2>4, <2>5, <2>6, <2>7, <2>8, <2>9, <2>10, <2>11
    DEF Next, Body
<1> QED
  BY <1>1, <1>2, TypeCorrect, MutualExclusion, PTL DEF Spec

\* A step that leaves alone the signals, the calls and who waits is a stutter.
LEMMA Stutter ==
  ASSUME TypeOK, UNCHANGED <<signal, call, ret>>,
         \A t \in Thread : Waits(t) <=> Waits(t)'
  PROVE  UNCHANGED WaitObj!waitVars
<1>1. waitingBar' = waitingBar
  BY DEF waitingBar
<1> QED
  BY <1>1 DEF WaitObj!waitVars

\* The return of WaitForMultipleObjects is the return of the abstract wait,
\* with the same handle.
LEMMA WaitEnds ==
  ASSUME TypeOK, NEW t \in Thread, WaitForMultipleObjects(t)
  PROVE  \E i \in DOMAIN waitingBar[t] : WaitObj!EndWait(t, i)
<1> DEFINE h == call[t].handles
<1>1. waitingBar[t] = h
  BY DEF waitingBar, Waits, WaitForMultipleObjects, InBody, At
<1>2. PICK i \in DOMAIN h :
        /\ signal[h[i]] > 0
        /\ \A j \in DOMAIN h : signal[h[j]] > 0 => i <= j
        /\ signal' = [signal EXCEPT ![h[i]] = Update(h[i])]
        /\ ret' = [ret EXCEPT ![t] = i - 1]
  BY DEF WaitForMultipleObjects, Signalled
<1>3. waitingBar' = [waitingBar EXCEPT ![t] = <<>>]
  BY DEF WaitForMultipleObjects, InBody, At, GoTo, waitingBar, Waits, TypeOK
<1>4. \A j \in 1..(i - 1) : signal[h[j]] = 0
  <2>1. pc[t] # "idle"
    BY DEF WaitForMultipleObjects, InBody, At
  <2>2. DOMAIN h = 1..Len(h) /\ Len(h) \in Nat
    BY <2>1, Handles
  <2>3. \A j \in DOMAIN h : signal[h[j]] \in Nat
    BY <2>1, Handles DEF TypeOK
  <2> HIDE DEF h
  <2> QED
    BY <1>2, <2>2, <2>3
<1>5. Update(h[i]) = WaitObj!Taken(h[i])
  BY DEF Update, WaitObj!Taken
<1> HIDE DEF h
<1>6. WaitObj!EndWait(t, i)
  BY <1>1, <1>2, <1>3, <1>4, <1>5 DEF WaitObj!EndWait
<1> QED
  BY <1>1, <1>6

\* WaitForMultipleObjects over one mutex and one condition variable implements
\* the abstract wait for the first signalled handle of a list.
THEOREM MultiWaitRefinesWaitObjects == Spec => ImplementsWaitObjects
<1> USE SyncAssumption, HandlesAssumption DEF Event, Object, Location, At, GoTo
<1>1. Init => WaitObj!Init
  BY DEF Init, WaitObj!Init, WaitObj!Event, WaitObj!Object, Waits, waitingBar
<1>2. TypeOK /\ [Next]_vars => [WaitObj!Next]_WaitObj!waitVars
  <2> SUFFICES ASSUME TypeOK, [Next]_vars
               PROVE  WaitObj!Next \/ UNCHANGED WaitObj!waitVars
    OBVIOUS
  <2> DEFINE NextOrStutter == WaitObj!Next \/ UNCHANGED WaitObj!waitVars
  <2> USE DEF TypeOK
  <2>1. ASSUME NEW t \in Thread, NEW c \in Call, Begin(t, c) PROVE NextOrStutter
    <3>1. CASE c.op = "wait"
      <4>1. /\ waitingBar[t] = <<>>
            /\ waitingBar' = [waitingBar EXCEPT ![t] = c.handles]
        BY <2>1, <3>1 DEF Begin, Waits, waitingBar
      <4>2. c.handles \in HandleLists /\ WaitObj!BeginWait(t, c.handles)
        BY <2>1, <3>1, <4>1 DEF Begin, Call, WaitObj!BeginWait
      <4> QED
        BY <4>2 DEF WaitObj!Next
    <3>2. CASE c.op # "wait"
      <4>1. waitingBar' = waitingBar
        BY <2>1, <3>2 DEF Begin, Waits, waitingBar
      <4> QED
        BY <2>1, <4>1 DEF Begin, WaitObj!waitVars
    <3> QED
      BY <3>1, <3>2
  <2>2. ASSUME NEW t \in Thread, Enter(t) PROVE NextOrStutter
    BY <2>2, Stutter DEF Enter, Waits
  <2>3. ASSUME NEW t \in Thread, Set(t) PROVE NextOrStutter
    <3>1. waitingBar' = waitingBar
      BY <2>3 DEF Set, InBody, LeaveAndSignal, Waits, waitingBar
    <3>2. WaitObj!Set(Obj(t)) /\ Obj(t) \in Event
      BY <2>3, <3>1, Handles DEF Set, InBody, WaitObj!Set
    <3> QED
      BY <3>2 DEF WaitObj!Next, WaitObj!Event
  <2>4. ASSUME NEW t \in Thread, Reset(t) PROVE NextOrStutter
    <3>1. waitingBar' = waitingBar
      BY <2>4 DEF Reset, InBody, Waits, waitingBar
    <3>2. WaitObj!Reset(Obj(t)) /\ Obj(t) \in Event
      BY <2>4, <3>1, Handles DEF Reset, InBody, WaitObj!Reset
    <3> QED
      BY <3>2 DEF WaitObj!Next, WaitObj!Event
  <2>5. ASSUME NEW t \in Thread, Release(t) PROVE NextOrStutter
    <3>1. waitingBar' = waitingBar
      BY <2>5 DEF Release, InBody, LeaveAndSignal, Waits, waitingBar
    <3>2. Obj(t) \in Semaphore /\ call[t].n \in 1..MaxRelease
      BY <2>5, Handles DEF Release, InBody
    <3> DEFINE newCount == signal[Obj(t)] + call[t].n
    <3>3. CASE newCount > MaxCount[Obj(t)]
      BY <2>5, <3>1, <3>2, <3>3 DEF Release, WaitObj!waitVars
    <3>4. CASE newCount <= MaxCount[Obj(t)]
      <4>1. newCount \in (signal[Obj(t)] + 1)..MaxCount[Obj(t)]
        BY <3>2, <3>4
      <4>2. signal' = [signal EXCEPT ![Obj(t)] = newCount] /\ UNCHANGED ret
        BY <2>5, <3>2, <3>4 DEF Release
      <4>3. WaitObj!Release(Obj(t))
        BY <3>1, <4>1, <4>2 DEF WaitObj!Release
      <4> QED
        BY <3>2, <4>3 DEF WaitObj!Next
    <3> QED
      BY <2>5, <3>3, <3>4 DEF Release
  <2>6. ASSUME NEW t \in Thread, WaitForMultipleObjects(t) PROVE NextOrStutter
    <3> HIDE DEF TypeOK
    <3>1. PICK i \in DOMAIN waitingBar[t] : WaitObj!EndWait(t, i)
      BY <2>6, WaitEnds
    <3> QED
      BY <3>1 DEF WaitObj!Next
  <2>7. ASSUME NEW t \in Thread, NothingSignalled(t) PROVE NextOrStutter
    BY <2>7, Stutter DEF NothingSignalled, InBody, Waits
  <2>8. ASSUME NEW t \in Thread, WaitCond(t) PROVE NextOrStutter
    BY <2>8, Stutter DEF WaitCond, Waits
  <2>9. ASSUME NEW t \in Thread, SpuriousWakeup(t) PROVE NextOrStutter
    BY <2>9, Stutter DEF SpuriousWakeup, Waits
  <2>10. ASSUME NEW t \in Thread, Leave(t) PROVE NextOrStutter
    <3>1. waitingBar' = waitingBar
      BY <2>10 DEF Leave, Waits, waitingBar
    <3> QED
      BY <2>10, <3>1 DEF Leave, WaitObj!waitVars
  <2>11. CASE UNCHANGED vars
    BY <2>11, Stutter DEF vars, Waits
  <2> HIDE DEF TypeOK
  <2> QED
    BY <2>1, <2>2, <2>3, <2>4, <2>5, <2>6, <2>7, <2>8, <2>9, <2>10, <2>11
    DEF Next, Body
<1> QED
  BY <1>1, <1>2, TypeCorrect, PTL DEF Spec, ImplementsWaitObjects, WaitObj!Spec

-----------------------------------------------------------------------------
(* The run                                                                 *)

\* A step of the run is one of MultiWait or one of Threads and leaves the other alone.
LEMMA BothParts == mcSpec => Spec /\ C!Spec
<1>1. mcInit => Init /\ C!Init
  BY DEF mcInit
<1>2. [mcNext]_mcVars => [Next]_vars /\ [C!Next]_C!vars
  BY DEF mcNext, mcVars, vars, tVars, C!vars
<1> QED
  BY <1>1, <1>2, PTL DEF mcSpec, Spec, C!Spec

\* In the run, too, every call of C/Threads.c takes effect atomically.
THEOREM ThreadsAreAtomic == mcSpec => ThreadsImplementWaitObjects
BY BothParts, ThreadsRefinesWaitObjects DEF ThreadsImplementWaitObjects

=============================================================================
