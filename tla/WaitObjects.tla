---------------------------- MODULE WaitObjects ----------------------------
(***************************************************************************)
(* What the rest of the program relies on: the Win32-style synchronization *)
(* objects that p7zip emulates (manual-reset events, auto-reset events and *)
(* semaphores), with Set, Reset, Release and a wait on a list of handles,  *)
(* each an atomic step.  Threads (C/Threads.c) and MultiWait               *)
(* (Windows/Synchronization.cpp) implement it with mutexes and condition   *)
(* variables.                                                              *)
(***************************************************************************)
EXTENDS Integers, Sequences

CONSTANTS
  Thread,      \* the threads of the process
  ManualEvent,  \* the manual-reset events
  AutoEvent,    \* the auto-reset events
  Semaphore,   \* the semaphores
  MaxCount,    \* [Semaphore -> Nat]: the largest count of each
  HandleLists  \* the nonempty lists of handles that a thread may wait for

Event == ManualEvent \cup AutoEvent
Object == Event \cup Semaphore

VARIABLES
  signal,      \* [Object -> Nat]: 0/1 for an event, the count of a semaphore
  waiting,     \* [Thread -> Seq(Object)]: the handles a thread waits for
  ret          \* [Thread -> Nat]: index of the handle that ended its last wait

waitVars == <<signal, waiting, ret>>

TypeOK ==
  /\ signal \in [Object -> Nat]
  /\ \A e \in Event : signal[e] \in {0, 1}
  /\ \A s \in Semaphore : signal[s] \in 0..MaxCount[s]
  /\ waiting \in [Thread -> Seq(Object)]
  /\ ret \in [Thread -> Nat]

Init ==
  /\ signal \in [Object -> Nat]
  /\ \A e \in Event : signal[e] \in {0, 1}
  /\ \A s \in Semaphore : signal[s] \in 0..MaxCount[s]
  /\ waiting = [t \in Thread |-> <<>>]
  /\ ret = [t \in Thread |-> 0]

Set(e) ==
  /\ signal' = [signal EXCEPT ![e] = 1]
  /\ UNCHANGED <<waiting, ret>>

Reset(e) ==
  /\ signal' = [signal EXCEPT ![e] = 0]
  /\ UNCHANGED <<waiting, ret>>

\* A release adds at least one unit and never passes the largest count.
Release(s) == \E count \in (signal[s] + 1)..MaxCount[s] :
  /\ signal' = [signal EXCEPT ![s] = count]
  /\ UNCHANGED <<waiting, ret>>

BeginWait(t, handles) ==
  /\ waiting[t] = <<>>
  /\ waiting' = [waiting EXCEPT ![t] = handles]
  /\ UNCHANGED <<signal, ret>>

\* Taking a signal leaves a manual-reset event set, resets an auto-reset
\* event and takes one unit from a semaphore.
Taken(o) == IF o \in ManualEvent THEN signal[o] ELSE signal[o] - 1

\* The wait ends with the first signalled handle of the list.
EndWait(t, i) ==
  /\ i \in DOMAIN waiting[t]
  /\ signal[waiting[t][i]] > 0
  /\ \A j \in 1..(i - 1) : signal[waiting[t][j]] = 0
  /\ signal' = [signal EXCEPT ![waiting[t][i]] = Taken(waiting[t][i])]
  /\ waiting' = [waiting EXCEPT ![t] = <<>>]
  /\ ret' = [ret EXCEPT ![t] = i - 1]

Next ==
  \/ \E e \in Event : Set(e) \/ Reset(e)
  \/ \E s \in Semaphore : Release(s)
  \/ \E t \in Thread, handles \in HandleLists : BeginWait(t, handles)
  \/ \E t \in Thread : \E i \in DOMAIN waiting[t] : EndWait(t, i)

Spec == Init /\ [][Next]_waitVars
=============================================================================
