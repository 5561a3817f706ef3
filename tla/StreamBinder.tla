---------------------------- MODULE StreamBinder ----------------------------
(***************************************************************************)
(* CPP/7zip/Common/StreamBinder.cpp: the writer coder and the reader coder *)
(* run in threads of their own; Write leaves a pointer to the caller's     *)
(* memory in _buffer and waits, Read copies from there.  Each statement    *)
(* that touches shared state is a step.  The events behave as in           *)
(* WaitObjects (Threads and MultiWait implement those).                    *)
(*                                                                         *)
(* The bytes of a run are numbered: byte n is the n-th one that the writer *)
(* has passed to Write, and _buffer points to byte _buffer + 1.            *)
(***************************************************************************)
EXTENDS BinderSizes

VARIABLES
  thereAreBytesToRead,  \* _thereAreBytesToReadEvent
  allBytesAreWritten,   \* _allBytesAreWritenEvent
  readStreamIsClosed,   \* _readStreamIsClosedEvent
  buffer,               \* _buffer
  bufferSize,           \* _bufferSize
  wpc,                  \* where the writer is
  size,                 \* the size of its Write
  result,               \* what the last Write returned
  offered,              \* the bytes that it has passed to Write so far
  rpc,                  \* where the reader is
  sizeToRead,           \* the size of its Read
  received              \* the bytes it has got; ProcessedSize is the length

events == <<thereAreBytesToRead, allBytesAreWritten, readStreamIsClosed>>
writerVars == <<wpc, size, result, offered>>
readerVars == <<rpc, sizeToRead, received>>
vars == <<events, buffer, bufferSize, writerVars, readerVars>>

ProcessedSize == Len(received)

WriterAt == {"idle", "store", "reset", "set", "wait", "closed"}
ReaderAt == {"idle", "lock", "copy", "reset", "set", "closed"}

TypeOK ==
  /\ thereAreBytesToRead \in BOOLEAN
  /\ allBytesAreWritten \in BOOLEAN
  /\ readStreamIsClosed \in BOOLEAN
  /\ buffer \in Nat
  /\ bufferSize \in Nat
  /\ wpc \in WriterAt
  /\ size \in 0..MaxWrite
  /\ result \in {"S_OK", "S_FALSE"}
  /\ offered \in 0..MaxBytes
  /\ rpc \in ReaderAt
  /\ sizeToRead \in 0..MaxRead
  /\ received \in Seq(Nat)

\* CreateEvents and the first CreateStreams.
Init ==
  /\ thereAreBytesToRead = FALSE
  /\ allBytesAreWritten = TRUE
  /\ readStreamIsClosed = FALSE
  /\ buffer = 0 /\ bufferSize = 0
  /\ wpc = "idle" /\ size = 0 /\ result = "S_OK" /\ offered = 0
  /\ rpc = "idle" /\ sizeToRead = 0 /\ received = <<>>

-----------------------------------------------------------------------------
(* The writer: CStreamBinder::Write, and CloseWrite when the stream object *)
(* is released.                                                            *)

\* A call of Write; a Write of no bytes returns at once and changes nothing.
Write(n) ==
  /\ wpc = "idle"
  /\ offered + n <= MaxBytes
  /\ wpc' = "store"
  /\ size' = n
  /\ offered' = offered + n
  /\ UNCHANGED <<events, buffer, bufferSize, result, readerVars>>

\* _buffer = data; _bufferSize = size.
StoreBuffer ==
  /\ wpc = "store"
  /\ buffer' = offered - size
  /\ bufferSize' = size
  /\ wpc' = "reset"
  /\ UNCHANGED <<events, size, result, offered, readerVars>>

\* Mutant of ResetAllBytesAreWritten: the event of the last Write stays set.
ResetForgotten ==
  /\ wpc = "reset"
  /\ wpc' = "set"
  /\ UNCHANGED <<events, buffer, bufferSize, size, result, offered, readerVars>>

ResetAllBytesAreWritten ==
  /\ wpc = "reset"
  /\ allBytesAreWritten' = FALSE
  /\ wpc' = "set"
  /\ UNCHANGED <<thereAreBytesToRead, readStreamIsClosed, buffer, bufferSize,
                 size, result, offered, readerVars>>

SetThereAreBytesToRead ==
  /\ wpc = "set"
  /\ thereAreBytesToRead' = TRUE
  /\ wpc' = "wait"
  /\ UNCHANGED <<allBytesAreWritten, readStreamIsClosed, buffer, bufferSize,
                 size, result, offered, readerVars>>

\* WaitForMultipleObjects returns WAIT_OBJECT_0 and Write S_OK.
WriteSucceeds ==
  /\ wpc = "wait"
  /\ allBytesAreWritten
  /\ wpc' = "idle"
  /\ result' = "S_OK"
  /\ UNCHANGED <<events, buffer, bufferSize, size, offered, readerVars>>

\* Mutant of WriteFails: the closed reader is looked at first.
WriteFailsFirst ==
  /\ wpc = "wait"
  /\ readStreamIsClosed
  /\ wpc' = "idle"
  /\ result' = "S_FALSE"
  /\ UNCHANGED <<events, buffer, bufferSize, size, offered, readerVars>>

\* It returns WAIT_OBJECT_0 + 1, only if the first event is not set: S_FALSE.
WriteFails ==
  /\ wpc = "wait"
  /\ ~allBytesAreWritten
  /\ readStreamIsClosed
  /\ wpc' = "idle"
  /\ result' = "S_FALSE"
  /\ UNCHANGED <<events, buffer, bufferSize, size, offered, readerVars>>

CloseWrite ==
  /\ wpc = "idle"
  /\ thereAreBytesToRead' = TRUE
  /\ wpc' = "closed"
  /\ UNCHANGED <<allBytesAreWritten, readStreamIsClosed, buffer, bufferSize,
                 size, result, offered, readerVars>>

-----------------------------------------------------------------------------
(* The reader: CStreamBinder::Read, and CloseRead when the stream object   *)
(* is released.                                                            *)

\* A call of Read; a Read of no bytes returns at once and changes nothing.
Read(n) ==
  /\ rpc = "idle"
  /\ rpc' = "lock"
  /\ sizeToRead' = n
  /\ UNCHANGED <<events, buffer, bufferSize, writerVars, received>>

LockThereAreBytesToRead ==
  /\ rpc = "lock"
  /\ thereAreBytesToRead
  /\ rpc' = "copy"
  /\ UNCHANGED <<events, buffer, bufferSize, writerVars, sizeToRead, received>>

\* Mutant of CopyBytes: the size of the Read is not limited by _bufferSize.
CopyTooMuch ==
  /\ rpc = "copy"
  /\ received' = received \o [i \in 1..sizeToRead |-> buffer + i]
  /\ buffer' = buffer + sizeToRead
  /\ bufferSize' = bufferSize - sizeToRead
  /\ rpc' = IF bufferSize = sizeToRead THEN "reset" ELSE "idle"
  /\ UNCHANGED <<events, writerVars, sizeToRead>>

\* MyMin(_bufferSize, size), memcpy, the updates of _buffer and _bufferSize
\* and the test _bufferSize == 0.  With an empty buffer Read returns no bytes.
CopyBytes ==
  LET n == IF bufferSize < sizeToRead THEN bufferSize ELSE sizeToRead IN
  /\ rpc = "copy"
  /\ received' = received \o [i \in 1..n |-> buffer + i]
  /\ buffer' = buffer + n
  /\ bufferSize' = bufferSize - n
  /\ rpc' = IF bufferSize > 0 /\ bufferSize = n THEN "reset" ELSE "idle"
  /\ UNCHANGED <<events, writerVars, sizeToRead>>

ResetThereAreBytesToRead ==
  /\ rpc = "reset"
  /\ thereAreBytesToRead' = FALSE
  /\ rpc' = "set"
  /\ UNCHANGED <<allBytesAreWritten, readStreamIsClosed, buffer, bufferSize,
                 writerVars, sizeToRead, received>>

SetAllBytesAreWritten ==
  /\ rpc = "set"
  /\ allBytesAreWritten' = TRUE
  /\ rpc' = "idle"
  /\ UNCHANGED <<thereAreBytesToRead, readStreamIsClosed, buffer, bufferSize,
                 writerVars, sizeToRead, received>>

\* Mutant of CloseRead: a writer that waits is not told.
CloseReadSilently ==
  /\ rpc = "idle"
  /\ rpc' = "closed"
  /\ UNCHANGED <<events, buffer, bufferSize, writerVars, sizeToRead, received>>

CloseRead ==
  /\ rpc = "idle"
  /\ readStreamIsClosed' = TRUE
  /\ rpc' = "closed"
  /\ UNCHANGED <<thereAreBytesToRead, allBytesAreWritten, buffer, bufferSize,
                 writerVars, sizeToRead, received>>

-----------------------------------------------------------------------------
\* ReInit and CreateStreams for the next file, after both coders have
\* released their streams.  _allBytesAreWritenEvent is not touched.
ReInit ==
  /\ wpc = "closed" /\ rpc = "closed"
  /\ thereAreBytesToRead' = FALSE
  /\ readStreamIsClosed' = FALSE
  /\ buffer' = 0 /\ bufferSize' = 0
  /\ wpc' = "idle" /\ size' = 0 /\ result' = "S_OK" /\ offered' = 0
  /\ rpc' = "idle" /\ sizeToRead' = 0 /\ received' = <<>>
  /\ UNCHANGED allBytesAreWritten

WriterStep ==
  \/ StoreBuffer \/ ResetAllBytesAreWritten \/ SetThereAreBytesToRead
  \/ WriteSucceeds \/ WriteFails

ReaderStep ==
  \/ LockThereAreBytesToRead \/ CopyBytes
  \/ ResetThereAreBytesToRead \/ SetAllBytesAreWritten

Next ==
  \/ \E n \in 1..MaxWrite : Write(n)
  \/ WriterStep
  \/ CloseWrite
  \/ \E n \in 1..MaxRead : Read(n)
  \/ ReaderStep
  \/ CloseRead
  \/ ReInit

Spec == Init /\ [][Next]_vars

(***************************************************************************)
(* Both threads are scheduled, and no coder uses its stream for ever: each *)
(* one in the end releases it (CCoder2::Code does so on every way out).    *)
(***************************************************************************)
FairSpec ==
  /\ Spec
  /\ WF_vars(WriterStep) /\ WF_vars(ReaderStep)
  /\ SF_vars(CloseWrite) /\ SF_vars(CloseRead)

-----------------------------------------------------------------------------
\* The memory that Read copies from belongs to a Write that has not returned,
\* and it holds exactly the bytes that Read has not delivered yet: no copy
\* races with the stores of the next Write or outlives the caller's buffer.
BufferIsValid ==
  rpc = "copy" /\ bufferSize > 0 =>
    /\ wpc = "wait"
    /\ buffer = ProcessedSize
    /\ buffer + bufferSize = offered

\* StreamBinder.cpp:52 "(_thereAreBytesToReadEvent && _bufferSize == 0) means
\* that stream is finished": when Read gets past the event and finds no bytes,
\* the writer has closed the stream and every byte has been delivered.
EmptyMeansFinished ==
  rpc = "copy" /\ bufferSize = 0 => wpc = "closed" /\ ProcessedSize = offered

\* The pipe as the two coders see it.
writerBar == IF wpc \in {"idle", "closed"} THEN wpc ELSE "writing"
readerBar == IF rpc = "closed" THEN "closed"
             ELSE IF rpc \in {"lock", "copy"} THEN "reading" ELSE "idle"

P == INSTANCE Pipe WITH writer <- writerBar, reader <- readerBar

\* The three events and the shared pointer implement a rendezvous pipe, over
\* any number of files: order, completeness, the meaning of S_OK, of S_FALSE
\* and of the end of the stream.
ImplementsPipe == P!Spec

(***************************************************************************)
(* The inductive invariant.  Phase says, for each place of the writer,     *)
(* where the reader can be and what the events and the buffer then hold,   *)
(* as long as the reader has not closed its end.                           *)
(***************************************************************************)
InOrder == received = [i \in 1..ProcessedSize |-> i]

Remaining == buffer = ProcessedSize /\ buffer + bufferSize = offered
Drained == bufferSize = 0 /\ ProcessedSize = offered

Phase ==
  \/ /\ wpc = "idle" /\ rpc \in {"idle", "lock"}
     /\ ~thereAreBytesToRead /\ Drained
  \/ /\ wpc = "store" /\ rpc \in {"idle", "lock"}
     /\ ~thereAreBytesToRead /\ bufferSize = 0 /\ ProcessedSize + size = offered
  \/ /\ wpc = "reset" /\ rpc \in {"idle", "lock"}
     /\ ~thereAreBytesToRead /\ Remaining /\ bufferSize > 0
  \/ /\ wpc = "set" /\ rpc \in {"idle", "lock"}
     /\ ~thereAreBytesToRead /\ ~allBytesAreWritten /\ Remaining /\ bufferSize > 0
  \/ /\ wpc = "wait" /\ rpc \in {"idle", "lock", "copy"}
     /\ thereAreBytesToRead /\ ~allBytesAreWritten /\ Remaining /\ bufferSize > 0
  \/ /\ wpc = "wait" /\ rpc = "reset"
     /\ thereAreBytesToRead /\ ~allBytesAreWritten /\ Drained
  \/ /\ wpc = "wait" /\ rpc = "set"
     /\ ~thereAreBytesToRead /\ ~allBytesAreWritten /\ Drained
  \/ /\ wpc = "wait" /\ rpc \in {"idle", "lock"}
     /\ ~thereAreBytesToRead /\ allBytesAreWritten /\ Drained
  \/ /\ wpc = "closed" /\ rpc \in {"idle", "lock", "copy"}
     /\ thereAreBytesToRead /\ Drained

\* What a closed reader leaves to the writer.
Abandoned ==
  /\ ProcessedSize <= offered
  /\ wpc \in {"store", "reset", "set"} => ProcessedSize < offered
  /\ wpc = "set" => ~allBytesAreWritten
  /\ wpc = "wait" => (allBytesAreWritten <=> ProcessedSize = offered)

BinderInv ==
  /\ TypeOK
  /\ InOrder
  /\ readStreamIsClosed <=> rpc = "closed"
  /\ wpc \in {"store", "reset", "set", "wait"} => size > 0 /\ size <= offered
  /\ rpc \in {"lock", "copy"} => sizeToRead > 0
  /\ IF rpc = "closed" THEN Abandoned ELSE Phase

\* No coder is left blocked in Write or in Read, whatever the other one does:
\* it goes on, or it releases its stream.
CallsReturn ==
  /\ wpc = "wait" ~> wpc # "wait"
  /\ rpc = "lock" ~> rpc # "lock"
=============================================================================
