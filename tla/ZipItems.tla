------------------------------ MODULE ZipItems ------------------------------
(***************************************************************************)
(* The parameters of an update of a zip archive by several threads.        *)
(***************************************************************************)
EXTENDS Integers, Sequences

CONSTANTS
  NumThreads,  \* numThreads
  Items,       \* updateItems; the pieces of each attempt to compress a file, or
               \* <<>> for an item that is not compressed
  PoolBlocks,  \* the blocks of memManager
  Reentrant,   \* a thread can enter a critical section that it is in: those of
               \* Windows, but not the mutex that C/Threads.c creates
  MayFail      \* what may fail: "thread", "open", "locked", "code", "write", "detached"

ASSUME ZipAssumption ==
  /\ NumThreads \in Nat /\ NumThreads > 1 /\ PoolBlocks \in Nat \ {0}
  /\ Items \in Seq(Seq(Nat)) /\ Reentrant \in BOOLEAN
  /\ MayFail \subseteq {"thread", "open", "locked", "code", "write", "detached"}
=============================================================================
