----------------------------- MODULE BlockCoder -----------------------------
(***************************************************************************)
(* What a caller of MtCoder_Code (C/MtCoder.c) is promised: the blocks of  *)
(* the input are coded and written one after the other, as one thread      *)
(* would do it.  Success means that all of them were written; otherwise    *)
(* the first error of the call is what the caller gets.                    *)
(***************************************************************************)
EXTENDS Naturals

CONSTANTS
  MaxBlocks,  \* bound on the number of blocks of an input
  Error       \* what can really go wrong

VARIABLES
  coding,     \* inside MtCoder_Code
  blocks,     \* number of blocks of the present input
  written,    \* number of blocks written
  error,      \* the first error of the call, "OK" if there is none
  ret         \* what the last call returned

vars == <<coding, blocks, written, error, ret>>

Init ==
  /\ coding = FALSE /\ blocks = 1 /\ written = 0
  /\ error = "OK" /\ ret = "OK"

Begin ==
  /\ ~coding
  /\ coding' = TRUE
  /\ blocks' \in 1..MaxBlocks
  /\ written' = 0 /\ error' = "OK"
  /\ UNCHANGED ret

WriteBlock ==
  /\ coding /\ written < blocks
  /\ written' = written + 1
  /\ UNCHANGED <<coding, blocks, error, ret>>

Fail ==
  /\ coding /\ error = "OK"
  /\ error' \in Error
  /\ UNCHANGED <<coding, blocks, written, ret>>

Return ==
  /\ coding
  /\ error = "OK" => written = blocks
  /\ coding' = FALSE /\ ret' = error
  /\ UNCHANGED <<blocks, written, error>>

Next == Begin \/ WriteBlock \/ Fail \/ Return

Spec == Init /\ [][Next]_vars
=============================================================================
