------------------------------ MODULE MultiWait ------------------------------
(***************************************************************************)
(* Windows/Synchronization2.h and WaitForMultipleObjects of                *)
(* Windows/Synchronization.cpp: events and semaphores that share one       *)
(* CSynchro, that is one mutex and one condition variable, so that a       *)
(* thread can wait for the first of several of them.                       *)
(***************************************************************************)
EXTENDS SyncObjects

CONSTANT HandleLists  \* the lists of handles that callers wait for

\* All handles of a list have the same CSynchro (a debug build checks that).
ASSUME HandlesAssumption ==
  \A handles \in HandleLists : handles \in Seq(Object) /\ Len(handles) \in Nat \ {0}

VARIABLES
  signal,       \* [Object -> Nat]: _state of an event, _count of a semaphore
  owner,        \* Thread \cup {Nobody}: who holds the mutex of the CSynchro
  pc,           \* [Thread -> Location]
  call,         \* [Thread -> Call]: the call a thread is making, NoCall if none
  ret           \* [Thread -> Nat]: what its last WaitForMultipleObjects returned

vars == <<signal, owner, pc, call, ret>>

Location == {"idle", "lock", "locked", "blocked", "asleep", "unlock"}
Call ==
  [op : {"set", "reset"}, handles : {<<e>> : e \in Event}, n : {1}]
    \cup [op : {"release"}, handles : {<<s>> : s \in Semaphore}, n : 1..MaxRelease]
    \cup [op : {"wait"}, handles : HandleLists, n : {1}]
NoCall == [op |-> "none"]

TypeOK ==
  /\ signal \in [Object -> Nat]
  /\ \A e \in Event : signal[e] \in {0, 1}
  /\ \A s \in Semaphore : signal[s] \in 0..MaxCount[s]
  /\ owner \in Thread \cup {Nobody}
  /\ pc \in [Thread -> Location]
  /\ call \in [Thread -> Call \cup {NoCall}]
  /\ \A t \in Thread : call[t] = NoCall <=> pc[t] = "idle"
  /\ ret \in [Thread -> Nat]

\* CBaseEventWFMO::Create and CSemaphoreWFMO::Create.
Init ==
  /\ signal \in [Object -> 0..LongMax]
  /\ \A e \in Event : signal[e] \in {0, 1}
  /\ \A s \in Semaphore : signal[s] \in 0..MaxCount[s]
  /\ owner = Nobody
  /\ pc = [t \in Thread |-> "idle"]
  /\ call = [t \in Thread |-> NoCall]
  /\ ret = [t \in Thread |-> 0]

-----------------------------------------------------------------------------
At(t, loc) == pc[t] = loc
GoTo(t, loc) == pc' = [pc EXCEPT ![t] = loc]
InBody(t, op) == At(t, "locked") /\ call[t].op = op

\* The object of a set, a reset or a release.
Obj(t) == Head(call[t].handles)

\* The positions of the signalled handles of the list that t waits for.
Signalled(t) == {i \in DOMAIN call[t].handles : signal[call[t].handles[i]] > 0}

\* A thread starts a call; a release of less than one unit returns S_FALSE
\* before it touches the semaphore, so there is no such call here.
Begin(t, c) ==
  /\ At(t, "idle")
  /\ call' = [call EXCEPT ![t] = c]
  /\ GoTo(t, "lock")
  /\ UNCHANGED <<signal, owner, ret>>

\* CSynchro::Enter, and the lock that ends pthread_cond_wait.
Enter(t) ==
  /\ At(t, "lock")
  /\ owner = Nobody
  /\ owner' = t
  /\ GoTo(t, "locked")
  /\ UNCHANGED <<signal, call, ret>>

\* CSynchro::Leave at the end of a call.
Leave(t) ==
  /\ At(t, "unlock")
  /\ owner' = Nobody
  /\ call' = [call EXCEPT ![t] = NoCall]
  /\ GoTo(t, "idle")
  /\ UNCHANGED <<signal, ret>>

\* Mutant of LeaveAndSignal: only one of the sleepers is woken.
LeaveAndSignalOne(t) ==
  /\ owner' = Nobody
  /\ call' = [call EXCEPT ![t] = NoCall]
  /\ \E u \in Thread \ {t} :
       pc' = [pc EXCEPT ![t] = "idle", ![u] = IF @ = "asleep" THEN "lock" ELSE @]

\* CSynchro::LeaveAndSignal: the sleepers of every handle are woken, whatever
\* they wait for, and compete for the mutex.
LeaveAndSignal(t) ==
  /\ owner' = Nobody
  /\ call' = [call EXCEPT ![t] = NoCall]
  /\ pc' = [u \in Thread |->
              IF u = t THEN "idle" ELSE IF At(u, "asleep") THEN "lock" ELSE pc[u]]

Set(t) ==
  /\ InBody(t, "set")
  /\ signal' = [signal EXCEPT ![Obj(t)] = 1]
  /\ LeaveAndSignal(t)
  /\ UNCHANGED ret

Reset(t) ==
  /\ InBody(t, "reset")
  /\ signal' = [signal EXCEPT ![Obj(t)] = 0]
  /\ GoTo(t, "unlock")
  /\ UNCHANGED <<owner, call, ret>>

Release(t) ==
  LET newCount == signal[Obj(t)] + call[t].n IN
  /\ InBody(t, "release")
  /\ \/ /\ newCount > MaxCount[Obj(t)]          \* S_FALSE
        /\ GoTo(t, "unlock")
        /\ UNCHANGED <<signal, owner, call>>
     \/ /\ newCount <= MaxCount[Obj(t)]
        /\ signal' = [signal EXCEPT ![Obj(t)] = newCount]
        /\ LeaveAndSignal(t)
  /\ UNCHANGED ret

\* The virtual IsSignaledAndUpdate of an event and of a semaphore.
Update(o) == IF o \in ManualEvent THEN signal[o] ELSE signal[o] - 1

\* Mutant of WaitForMultipleObjects: any signalled handle ends the wait.
WaitForAnyObject(t) ==
  /\ InBody(t, "wait")
  /\ \E i \in Signalled(t) :
       /\ signal' = [signal EXCEPT ![call[t].handles[i]] = Update(call[t].handles[i])]
       /\ ret' = [ret EXCEPT ![t] = i - 1]
  /\ GoTo(t, "unlock")
  /\ UNCHANGED <<owner, call>>

\* WaitForMultipleObjects finds a signalled handle; the first of the list
\* wins and WAIT_OBJECT_0 + its index is returned.
WaitForMultipleObjects(t) ==
  /\ InBody(t, "wait")
  /\ \E i \in Signalled(t) :
       /\ \A j \in Signalled(t) : i <= j
       /\ signal' = [signal EXCEPT ![call[t].handles[i]] = Update(call[t].handles[i])]
       /\ ret' = [ret EXCEPT ![t] = i - 1]
  /\ GoTo(t, "unlock")
  /\ UNCHANGED <<owner, call>>

\* The scan of WaitForMultipleObjects finds nothing.
NothingSignalled(t) ==
  /\ InBody(t, "wait")
  /\ Signalled(t) = {}
  /\ GoTo(t, "blocked")
  /\ UNCHANGED <<signal, owner, call, ret>>

\* CSynchro::WaitCond releases the mutex and sleeps in one step.
WaitCond(t) ==
  /\ At(t, "blocked")
  /\ owner' = Nobody
  /\ GoTo(t, "asleep")
  /\ UNCHANGED <<signal, call, ret>>

\* POSIX lets pthread_cond_wait return without a signal.
SpuriousWakeup(t) ==
  /\ At(t, "asleep")
  /\ GoTo(t, "lock")
  /\ UNCHANGED <<signal, owner, call, ret>>

Body(t) ==
  \/ Set(t) \/ Reset(t) \/ Release(t)
  \/ WaitForMultipleObjects(t) \/ NothingSignalled(t) \/ WaitCond(t)

Next == \E t \in Thread :
  \/ \E c \in Call : Begin(t, c)
  \/ Enter(t)
  \/ Body(t)
  \/ SpuriousWakeup(t)
  \/ Leave(t)

Spec == Init /\ [][Next]_vars

\* As in Threads: running threads are scheduled and the mutex is granted.
FairSpec ==
  /\ Spec
  /\ \A t \in Thread : SF_vars(Enter(t)) /\ WF_vars(Body(t)) /\ WF_vars(Leave(t))

-----------------------------------------------------------------------------
Owns(t) == pc[t] \in {"locked", "blocked", "unlock"}

\* Mutual exclusion: exactly the thread that is inside a call's critical
\* section owns the mutex that all handles of the CSynchro share.
MutexOwner ==
  /\ \A t \in Thread : Owns(t) => owner = t
  /\ owner # Nobody => Owns(owner)

\* No lost wakeup: no thread sleeps, or is about to sleep, while any handle of
\* its list is signalled, whoever set it and however the waits interleave.
NoLostWakeup ==
  \A t \in Thread : pc[t] \in {"blocked", "asleep"} =>
    call[t].op = "wait" /\ Signalled(t) = {}

Waits(t) == call[t].op = "wait" /\ pc[t] \in {"lock", "locked", "blocked", "asleep"}

\* The objects seen from outside: the mutex and the sleep disappear.
waitingBar == [t \in Thread |-> IF Waits(t) THEN call[t].handles ELSE <<>>]

WaitObj == INSTANCE WaitObjects WITH waiting <- waitingBar

\* Every call takes effect atomically, and a wait on several handles is ended
\* by the first signalled one of its list and by no other.
ImplementsWaitObjects == WaitObj!Spec

\* A wait returns if from some moment on there is always a signalled handle
\* in its list, even if it is not always the same one.
SignalledWaitReturns(t) == ~<>[](Waits(t) /\ Signalled(t) # {})
=============================================================================
