------------------------------- MODULE OutFile -------------------------------
(***************************************************************************)
(* What the users of an IOutStream rely on: a file with a position.  A     *)
(* write beyond the end fills the gap with zeros, as does SetSize.  When   *)
(* the stream is released and no call has failed, the disk has it all.     *)
(***************************************************************************)
EXTENDS Integers, Sequences

CONSTANTS
  Byte,      \* the values of a byte that are told apart
  Zero,      \* one of them
  Data,      \* what a call of Write stores
  Places     \* where Seek and SetSize go

VARIABLES
  content,   \* the bytes
  pos,       \* the position, from 0 on
  state,     \* "open", "failed" after a call that failed, "closed"
  disk       \* what is on the disk at the end

fileVars == <<content, pos, state, disk>>

Init == content = <<>> /\ pos = 0 /\ state = "open" /\ disk = <<>>

Resized(f, size) == [k \in 1..size |-> IF k <= Len(f) THEN f[k] ELSE Zero]

\* The file f after the bytes d have been stored from position p on.
Stored(f, p, d) ==
  LET size == IF Len(f) < p + Len(d) THEN p + Len(d) ELSE Len(f)
  IN  [k \in 1..size |-> IF k - p \in DOMAIN d THEN d[k - p] ELSE Resized(f, size)[k]]

\* A call stores at least one byte of its data; the caller goes on with the rest.
Write(d) ==
  /\ state = "open"
  /\ \E n \in 1..Len(d) :
       /\ content' = Stored(content, pos, SubSeq(d, 1, n))
       /\ pos' = pos + n
  /\ UNCHANGED <<state, disk>>

Seek(p) ==
  /\ state = "open"
  /\ pos' = p
  /\ UNCHANGED <<content, state, disk>>

SetSize(size) ==
  /\ state = "open"
  /\ content' = Resized(content, size)
  /\ UNCHANGED <<pos, state, disk>>

\* A call returns an error; of what the file holds nothing is promised then.
Fail ==
  /\ state = "open"
  /\ state' = "failed"
  /\ content' = <<>>
  /\ UNCHANGED <<pos, disk>>

Close ==
  /\ state # "closed"
  /\ state' = "closed"
  /\ disk' \in Seq(Byte)
  /\ state = "open" => disk' = content
  /\ UNCHANGED <<content, pos>>

Next ==
  \/ \E d \in Data : Write(d)
  \/ \E p \in Places : Seek(p) \/ SetSize(p)
  \/ Fail
  \/ Close

Spec == Init /\ [][Next]_fileVars
=============================================================================
