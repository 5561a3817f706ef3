---------------------------- MODULE SyncObjects ----------------------------
(***************************************************************************)
(* The objects of an instance of Threads or MultiWait: some events and     *)
(* semaphores, and the threads that use them.                              *)
(***************************************************************************)
EXTENDS Integers, Sequences

CONSTANTS
  Thread,       \* the threads of the process
  ManualEvent,  \* the manual-reset events
  AutoEvent,    \* the auto-reset events
  Semaphore,    \* the semaphores
  MaxCount,     \* [Semaphore -> Nat \ {0}]: _maxCount of each semaphore
  MaxRelease,   \* the largest releaseCount a caller passes
  UIntSize,     \* 2^32, the modulus of a UInt32
  LongMax,      \* 2^31 - 1, the largest LONG
  Nobody        \* the owner of an unlocked mutex

Event == ManualEvent \cup AutoEvent
Object == Event \cup Semaphore

(***************************************************************************)
(* The callers release few units at a time and create small semaphores (of *)
(* at most 64 units in C/LzFindMt.c, of the blocks of a pool in            *)
(* Common/MemBlocks.cpp), so neither the UInt32 sum in Semaphore_ReleaseN  *)
(* nor the LONG sum in CSemaphoreWFMO::Release overflows.                  *)
(***************************************************************************)
ASSUME SyncAssumption ==
  /\ ManualEvent \cap AutoEvent = {}
  /\ Event \cap Semaphore = {}
  /\ MaxCount \in [Semaphore -> Nat \ {0}]
  /\ MaxRelease \in Nat
  /\ UIntSize \in Nat /\ LongMax \in Nat
  /\ \A s \in Semaphore : MaxCount[s] + MaxRelease < UIntSize
  /\ \A s \in Semaphore : MaxCount[s] + MaxRelease <= LongMax
  /\ Nobody \notin Thread
=============================================================================
