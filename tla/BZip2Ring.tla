----------------------------- MODULE BZip2Ring -----------------------------
(***************************************************************************)
(* What the multithreaded encoder and decoder of BZip2 have in common: a   *)
(* ring of threads, of which the one with block k passes the turn to write *)
(* on to the one with block k + 1.                                         *)
(***************************************************************************)
EXTENDS Integers

CONSTANTS
  NumThreads,  \* more than one: MtMode
  MaxBlocks,   \* bound on the number of blocks of a stream
  Failure      \* what can fail: "READ", "WRITE" (the streams), "PROGRESS"

ASSUME BZip2Assumption ==
  /\ NumThreads \in Nat /\ NumThreads > 1 /\ MaxBlocks \in Nat
  /\ Failure \subseteq {"READ", "WRITE", "PROGRESS"}

Thread == 0..(NumThreads - 1)

NextInRing(k) == IF k + 1 = NumThreads THEN 0 ELSE k + 1
=============================================================================
