--------------------------- MODULE MCSyncObjects ---------------------------
(***************************************************************************)
(* Instances of MultiWait and of Threads for TLC: in a behaviour only the  *)
(* objects of one of them are used.  There is one object of each kind, and *)
(* the list of handles is the one of COutMemStream::Write: an auto-reset   *)
(* event, then a manual-reset event and a semaphore.                       *)
(***************************************************************************)
EXTENDS MultiWait

CONSTANTS t1, t2, t3, man, auto, sem

VARIABLES part, tSignal, tMutex, tPc, tCall

mcMaxCount == [s \in Semaphore |-> 1]

C == INSTANCE Threads WITH
  signal <- tSignal, mutex <- tMutex, pc <- tPc, call <- tCall

mcHandleLists == {<<auto, man, sem>>}
tVars == <<tSignal, tMutex, tPc, tCall>>
mcVars == <<part, vars, tVars>>

Unused(sig) == sig = [o \in Object |-> 0]

mcInit ==
  /\ Init /\ C!Init
  /\ \/ part = "MultiWait" /\ Unused(tSignal)
     \/ part = "Threads" /\ Unused(signal)

mcNext ==
  \/ part = "MultiWait" /\ Next /\ UNCHANGED <<part, tVars>>
  \/ part = "Threads" /\ C!Next /\ UNCHANGED <<part, vars>>

Granted(t) ==
  \/ part = "MultiWait" /\ Enter(t) /\ UNCHANGED <<part, tVars>>
  \/ part = "Threads" /\ C!Lock(t) /\ UNCHANGED <<part, vars>>

Runs(t) ==
  \/ part = "MultiWait" /\ (Body(t) \/ Leave(t)) /\ UNCHANGED <<part, tVars>>
  \/ part = "Threads" /\ (C!Body(t) \/ C!Unlock(t)) /\ UNCHANGED <<part, vars>>

mcSpec ==
  /\ mcInit /\ [][mcNext]_mcVars
  /\ \A t \in Thread : SF_mcVars(Granted(t)) /\ WF_mcVars(Runs(t))

\* Every call of C/Threads.c takes effect atomically: the code implements the
\* abstract events and semaphores that its callers rely on.
ThreadsImplementWaitObjects == C!ThreadsImplementWaitObjects

\* A wait of either kind returns if there is always a signal that could end it.
\* (The threads can be exchanged, so one of them stands for all.)
BothWaitsReturn == SignalledWaitReturns(t1) /\ C!SignalledWaitReturns(t1)
=============================================================================
