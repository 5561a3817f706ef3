------------------------------- MODULE Threads -------------------------------
(***************************************************************************)
(* C/Threads.c, POSIX build without DEBUG_SYNCHRO: the events and the      *)
(* semaphores that the C code and NWindows::NSynchronization use, each     *)
(* object with a pthread mutex and a pthread condition variable of its     *)
(* own.  A thread makes one call at a time; every statement that another   *)
(* thread can observe (locking, the body under the lock, sleeping, being   *)
(* woken, unlocking) is a step of its own.                                 *)
(***************************************************************************)
EXTENDS SyncObjects

VARIABLES
  signal,       \* [Object -> Nat]: _state of an event, _count of a semaphore
  mutex,        \* [Object -> Thread \cup {Nobody}]: owner of _mutex
  pc,           \* [Thread -> Location]
  call          \* [Thread -> Call]: the call a thread is making, NoCall if none

vars == <<signal, mutex, pc, call>>

\* "blocked" has found no signal and calls pthread_cond_wait, "asleep" is
\* inside it; a woken thread is at "lock" again.
Location == {"idle", "lock", "locked", "blocked", "asleep", "unlock"}
Call ==
  [op : {"set", "reset"}, obj : Event, n : {1}]
    \cup [op : {"wait"}, obj : Object, n : {1}]
    \cup [op : {"release"}, obj : Semaphore, n : 1..MaxRelease]
NoCall == [op |-> "none"]

TypeOK ==
  /\ signal \in [Object -> Nat]
  /\ \A e \in Event : signal[e] \in {0, 1}
  /\ \A s \in Semaphore : signal[s] \in 0..MaxCount[s]
  /\ mutex \in [Object -> Thread \cup {Nobody}]
  /\ pc \in [Thread -> Location]
  /\ call \in [Thread -> Call \cup {NoCall}]
  /\ \A t \in Thread : call[t] = NoCall <=> pc[t] = "idle"

\* Event_Create and Semaphore_Create: any initial state or count.
Init ==
  /\ signal \in [Object -> 0..(UIntSize - 1)]
  /\ \A e \in Event : signal[e] \in {0, 1}
  /\ \A s \in Semaphore : signal[s] \in 0..MaxCount[s]
  /\ mutex = [o \in Object |-> Nobody]
  /\ pc = [t \in Thread |-> "idle"]
  /\ call = [t \in Thread |-> NoCall]

-----------------------------------------------------------------------------
At(t, loc) == pc[t] = loc
GoTo(t, loc) == pc' = [pc EXCEPT ![t] = loc]
Obj(t) == call[t].obj

\* Inside the critical section of call c, on an object of the set S.
InBody(t, op, S) ==
  /\ At(t, "locked")
  /\ call[t].op = op
  /\ Obj(t) \in S

\* Mutant of Broadcast: pthread_cond_signal.
BroadcastToOne(t) == \E u \in Thread \ {t} :
  pc' = [pc EXCEPT ![t] = "unlock",
                   ![u] = IF At(u, "asleep") /\ Obj(u) = Obj(t) THEN "lock" ELSE @]

\* pthread_cond_broadcast: every sleeper of the object competes for the lock.
Broadcast(t) ==
  pc' = [u \in Thread |->
           IF u = t THEN "unlock"
           ELSE IF At(u, "asleep") /\ Obj(u) = Obj(t) THEN "lock" ELSE pc[u]]

\* A thread starts a call.  (A release of less than one unit returns EINVAL
\* before it touches the object, so there is no such call here.)
Enter(t, c) ==
  /\ At(t, "idle")
  /\ call' = [call EXCEPT ![t] = c]
  /\ GoTo(t, "lock")
  /\ UNCHANGED <<signal, mutex>>

\* pthread_mutex_lock, also the one that ends pthread_cond_wait.
Lock(t) ==
  /\ At(t, "lock")
  /\ mutex[Obj(t)] = Nobody
  /\ mutex' = [mutex EXCEPT ![Obj(t)] = t]
  /\ GoTo(t, "locked")
  /\ UNCHANGED <<signal, call>>

EventSet(t) ==
  /\ InBody(t, "set", Event)
  /\ signal' = [signal EXCEPT ![Obj(t)] = 1]
  /\ Broadcast(t)
  /\ UNCHANGED <<mutex, call>>

EventReset(t) ==
  /\ InBody(t, "reset", Event)
  /\ signal' = [signal EXCEPT ![Obj(t)] = 0]
  /\ GoTo(t, "unlock")
  /\ UNCHANGED <<mutex, call>>

\* Mutant of EventWait: "if" in place of "while", so that a thread that has
\* been woken does not look at the event again.
EventWaitNoRetest(t) ==
  /\ InBody(t, "wait", Event)
  /\ signal' = [signal EXCEPT ![Obj(t)] = IF Obj(t) \in ManualEvent THEN @ ELSE 0]
  /\ GoTo(t, "unlock")
  /\ UNCHANGED <<mutex, call>>

\* The wait finds the event set; an auto-reset event is reset by the waiter.
EventWait(t) ==
  /\ InBody(t, "wait", Event)
  /\ signal[Obj(t)] = 1
  /\ signal' = [signal EXCEPT ![Obj(t)] = IF Obj(t) \in ManualEvent THEN 1 ELSE 0]
  /\ GoTo(t, "unlock")
  /\ UNCHANGED <<mutex, call>>

SemaphoreReleaseN(t) ==
  LET newCount == (signal[Obj(t)] + call[t].n) % UIntSize IN
  /\ InBody(t, "release", Semaphore)
  /\ \/ /\ newCount > MaxCount[Obj(t)]          \* EINVAL
        /\ GoTo(t, "unlock")
        /\ UNCHANGED signal
     \/ /\ newCount <= MaxCount[Obj(t)]
        /\ signal' = [signal EXCEPT ![Obj(t)] = newCount]
        /\ Broadcast(t)
  /\ UNCHANGED <<mutex, call>>

SemaphoreWait(t) ==
  /\ InBody(t, "wait", Semaphore)
  /\ signal[Obj(t)] >= 1
  /\ signal' = [signal EXCEPT ![Obj(t)] = @ - 1]
  /\ GoTo(t, "unlock")
  /\ UNCHANGED <<mutex, call>>

\* The test of the while loops of Event_Wait and Semaphore_Wait fails.
NotSignalled(t) ==
  /\ InBody(t, "wait", Object)
  /\ signal[Obj(t)] < 1
  /\ GoTo(t, "blocked")
  /\ UNCHANGED <<signal, mutex, call>>

\* pthread_cond_wait releases the mutex and sleeps in one step.
CondWait(t) ==
  /\ At(t, "blocked")
  /\ mutex' = [mutex EXCEPT ![Obj(t)] = Nobody]
  /\ GoTo(t, "asleep")
  /\ UNCHANGED <<signal, call>>

\* POSIX lets pthread_cond_wait return without a signal.
SpuriousWakeup(t) ==
  /\ At(t, "asleep")
  /\ GoTo(t, "lock")
  /\ UNCHANGED <<signal, mutex, call>>

Unlock(t) ==
  /\ At(t, "unlock")
  /\ mutex' = [mutex EXCEPT ![Obj(t)] = Nobody]
  /\ call' = [call EXCEPT ![t] = NoCall]
  /\ GoTo(t, "idle")
  /\ UNCHANGED signal

Body(t) ==
  \/ EventSet(t) \/ EventReset(t) \/ EventWait(t)
  \/ SemaphoreReleaseN(t) \/ SemaphoreWait(t)
  \/ NotSignalled(t) \/ CondWait(t)

Next == \E t \in Thread :
  \/ \E c \in Call : Enter(t, c)
  \/ Lock(t)
  \/ Body(t)
  \/ SpuriousWakeup(t)
  \/ Unlock(t)

Spec == Init /\ [][Next]_vars

(***************************************************************************)
(* A running thread is scheduled, and a mutex that is released again and   *)
(* again is eventually granted to every thread that waits for it.  Nothing *)
(* forces a thread to make a call or to be woken spuriously.               *)
(***************************************************************************)
FairSpec ==
  /\ Spec
  /\ \A t \in Thread : SF_vars(Lock(t)) /\ WF_vars(Body(t)) /\ WF_vars(Unlock(t))
-----------------------------------------------------------------------------
Owns(t) == pc[t] \in {"locked", "blocked", "unlock"}

\* Mutual exclusion: a thread between pthread_mutex_lock and unlock owns the
\* mutex of its object, and a mutex is never left locked by a thread that
\* sleeps in pthread_cond_wait or has returned.
MutexOwner ==
  /\ \A t \in Thread : Owns(t) => mutex[Obj(t)] = t
  /\ \A o \in Object : mutex[o] # Nobody => Owns(mutex[o]) /\ Obj(mutex[o]) = o

\* No lost wakeup: whatever the interleaving of Event_Set, Event_Reset,
\* Semaphore_ReleaseN and the waits, no thread sleeps, or is about to sleep, in
\* pthread_cond_wait on an object that is signalled.
NoLostWakeup ==
  \A t \in Thread : pc[t] \in {"blocked", "asleep"} =>
    call[t].op = "wait" /\ signal[Obj(t)] = 0

Waits(t, o) ==
  /\ call[t].op = "wait"
  /\ Obj(t) = o
  /\ pc[t] \in {"lock", "locked", "blocked", "asleep"}

\* The objects seen from outside: the lock and the sleep disappear.
waitingBar == [t \in Thread |-> IF Waits(t, Obj(t)) THEN <<Obj(t)>> ELSE <<>>]
retBar == [t \in Thread |-> 0]

WaitObj == INSTANCE WaitObjects WITH
  HandleLists <- {<<o>> : o \in Object}, waiting <- waitingBar, ret <- retBar

\* Every call of C/Threads.c takes effect atomically: the code implements the
\* abstract events and semaphores that its callers rely on.
ThreadsImplementWaitObjects == WaitObj!Spec

\* A wait returns if its object stays signalled from some moment on: a
\* broadcast wakes all sleepers of a manual-reset event, and while a unit of a
\* semaphore or an auto-reset event stays pending nobody waits for it for ever.
SignalledWaitReturns(t) == ~<>[](Waits(t, Obj(t)) /\ signal[Obj(t)] > 0)
=============================================================================
