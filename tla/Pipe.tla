-------------------------------- MODULE Pipe --------------------------------
(***************************************************************************)
(* What CStreamBinder promises to the two coders that it joins: a          *)
(* rendezvous pipe.  Bytes arrive in the order in which they were written, *)
(* none twice and none missing; a Write succeeds only when all its bytes   *)
(* were read and fails only when the reader has gone away before that; the *)
(* end of the stream is seen only after the writer has closed it and every *)
(* byte has been read.                                                     *)
(*                                                                         *)
(* The n-th byte that the writer passes to Write is represented by n.      *)
(***************************************************************************)
EXTENDS Integers, Sequences

CONSTANTS
  MaxWrite,   \* the largest size passed to Write
  MaxRead,    \* the largest size passed to Read
  MaxBytes    \* bound on the bytes of one run

VARIABLES
  writer,     \* "idle", "writing" or "closed"
  reader,     \* "idle", "reading" or "closed"
  result,     \* what the last Write returned: "S_OK" or "S_FALSE"
  offered,    \* how many bytes have been passed to Write
  received    \* the bytes that Read has delivered

pipeVars == <<writer, reader, result, offered, received>>

Init ==
  /\ writer = "idle" /\ reader = "idle"
  /\ result = "S_OK" /\ offered = 0 /\ received = <<>>

BeginWrite(n) ==
  /\ writer = "idle"
  /\ offered + n <= MaxBytes
  /\ writer' = "writing"
  /\ offered' = offered + n
  /\ UNCHANGED <<reader, result, received>>

\* S_OK: the reader has taken every byte.
WriteSucceeds ==
  /\ writer = "writing"
  /\ Len(received) = offered
  /\ writer' = "idle"
  /\ result' = "S_OK"
  /\ UNCHANGED <<reader, offered, received>>

\* S_FALSE: the reader closed its end with bytes left.
WriteFails ==
  /\ writer = "writing"
  /\ reader = "closed"
  /\ Len(received) < offered
  /\ writer' = "idle"
  /\ result' = "S_FALSE"
  /\ UNCHANGED <<reader, offered, received>>

CloseWrite ==
  /\ writer = "idle"
  /\ writer' = "closed"
  /\ UNCHANGED <<reader, result, offered, received>>

BeginRead ==
  /\ reader = "idle"
  /\ reader' = "reading"
  /\ UNCHANGED <<writer, result, offered, received>>

\* Read delivers the next bytes of the Write in progress, at least one.
Deliver(n) ==
  /\ reader = "reading"
  /\ writer = "writing"
  /\ Len(received) + n <= offered
  /\ received' = received \o [i \in 1..n |-> Len(received) + i]
  /\ reader' = "idle"
  /\ UNCHANGED <<writer, result, offered>>

\* Read returns no byte: the stream is finished.
EndOfStream ==
  /\ reader = "reading"
  /\ writer = "closed"
  /\ Len(received) = offered
  /\ reader' = "idle"
  /\ UNCHANGED <<writer, result, offered, received>>

CloseRead ==
  /\ reader = "idle"
  /\ reader' = "closed"
  /\ UNCHANGED <<writer, result, offered, received>>

\* The pipe is used again for the next file.
Restart ==
  /\ writer = "closed" /\ reader = "closed"
  /\ writer' = "idle" /\ reader' = "idle"
  /\ result' = "S_OK" /\ offered' = 0 /\ received' = <<>>

Next ==
  \/ \E n \in 1..MaxWrite : BeginWrite(n)
  \/ WriteSucceeds \/ WriteFails \/ CloseWrite
  \/ BeginRead
  \/ \E n \in 1..MaxRead : Deliver(n)
  \/ EndOfStream \/ CloseRead
  \/ Restart

Spec == Init /\ [][Next]_pipeVars
=============================================================================
