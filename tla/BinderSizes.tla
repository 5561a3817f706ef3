----------------------------- MODULE BinderSizes -----------------------------
(***************************************************************************)
(* The sizes of the calls of a stream binder.                              *)
(***************************************************************************)
EXTENDS Integers, Sequences

CONSTANTS
  MaxWrite,   \* the largest size passed to Write
  MaxRead,    \* the largest size passed to Read
  MaxBytes    \* bound on the bytes that the writer offers in one run

ASSUME BinderAssumption ==
  MaxWrite \in Nat /\ MaxRead \in Nat /\ MaxBytes \in Nat
=============================================================================
