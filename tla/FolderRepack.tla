---------------------------- MODULE FolderRepack ----------------------------
(***************************************************************************)
(* How Archive/7z/7zUpdate.cpp takes over the folders of the old archive:  *)
(* a folder of which some files are to go is unpacked by CThreadDecoder,   *)
(* whose CFolderOutStream2 lets only the wanted files through, and packed  *)
(* again by the caller at the same time; between the two is a stream       *)
(* binder (Pipe).  A folder of which all files stay is copied.             *)
(*                                                                         *)
(* Byte n of folder f is <<f, n>>, a wrong one <<f, 0>>.  Every file of    *)
(* the old archive has a CRC, and the CRC tells wrong bytes from right     *)
(* ones; a file without one, whose wrong bytes go unnoticed, is left out.  *)
(* The decoder cuts its output as it likes and may fail at any time; the   *)
(* encoder reads to the end of its input or fails between two reads        *)
(* (CCoderMixer2MT::Code returns when no coder is at work any more).       *)
(***************************************************************************)
EXTENDS OldFolders, BinderSizes

VARIABLES
  folders,     \* the folders to be taken over (folderRefs)
  main, rep,   \* where Update is, and its folderRefIndex
  ret,         \* the result it is going to return
  statuses,    \* does extractStatuses exist?
  newDb,       \* the unpacked contents of the folders of the new archive
  eof,         \* the encoder has read to the end
  at,          \* where the thread of CThreadDecoder is
  ev,          \* StartEvent, FinishedEvent and ExitEvent
  Result,      \* CThreadDecoder::Result
  fos,         \* CFolderOutStream2: index, open, toPipe (has a stream), rem, crcOk
  out,         \* the decoder: bytes passed, those left of this Write, are they wrong
  sent,        \* the bytes passed to the binder
  writer, reader, result, offered, received   \* the binder

pipeVars == <<writer, reader, result, offered, received>>
mainVars == <<folders, main, rep, ret, statuses, newDb, eof>>
threadVars == <<at, Result, fos, out, sent>>
vars == <<mainVars, threadVars, ev, pipeVars>>

P == INSTANCE Pipe
-----------------------------------------------------------------------------
Folder == folders[rep]
MinOf(a, b) == IF a < b THEN a ELSE b

\* The bytes of a folder before a file.
Before(f, i) ==
  LET sum[k \in 1..i] == IF k = 1 THEN 0 ELSE sum[k - 1] + folders[f][k - 1].size
  IN  sum[i]
Total(f) == Before(f, Len(folders[f])) + folders[f][Len(folders[f])].size

\* What a folder of the new archive should hold, its wanted files.
Wanted(f) ==
  LET upto[i \in 0..Len(folders[f])] ==
        IF i = 0 THEN <<>>
        ELSE IF ~folders[f][i].wanted THEN upto[i - 1]
        ELSE upto[i - 1] \o [k \in 1..folders[f][i].size |-> <<f, Before(f, i) + k>>]
  IN  upto[Len(folders[f])]

\* ProcessEmptyFiles: the index of the next file that is not empty.
PassEmpty(i) ==
  CHOOSE j \in i..(Len(Folder) + 1) :
    /\ \A k \in i..(j - 1) : Folder[k].size = 0
    /\ j <= Len(Folder) => Folder[j].size > 0

FosInit == [index |-> PassEmpty(1), open |-> FALSE, toPipe |-> FALSE, rem |-> 0, crcOk |-> TRUE]
NoOut == [pos |-> 0, size |-> 0, wrong |-> FALSE]

\* What the encoder has read.
Input == [k \in DOMAIN received |-> sent[received[k]]]

TypeOK ==
  /\ folders \in Databases /\ rep \in 1..(Len(folders) + 1)
  /\ main \in {"create", "next", "start", "encode", "wait", "free", "close",
               "exit", "startEvent", "join", "ended", "crashed"}
  /\ at \in {"none", "start", "decode", "write", "pipe", "empties", "check",
             "release", "finish", "exited"}
  /\ ret \in {"ok", "error"} /\ Result \in {"ok", "error"}
  /\ statuses \in BOOLEAN /\ eof \in BOOLEAN
  /\ ev \in [start : BOOLEAN, finished : BOOLEAN, exit : BOOLEAN]

Init ==
  /\ folders \in Databases
  /\ main = "create" /\ rep = 1 /\ ret = "ok"
  /\ statuses = FALSE /\ newDb = <<>> /\ eof = FALSE
  /\ at = "none" /\ Result = "error"
  /\ ev = [start |-> FALSE, finished |-> FALSE, exit |-> FALSE]
  /\ fos = [index |-> 1, open |-> FALSE, toPipe |-> FALSE, rem |-> 0, crcOk |-> TRUE]
  /\ out = NoOut /\ sent = <<>>
  /\ writer = "closed" /\ reader = "closed" /\ result = "S_OK"
  /\ offered = 0 /\ received = <<>>
-----------------------------------------------------------------------------
(* Update                                                                  *)

Create ==
  /\ main = "create"
  /\ main' = "next" /\ at' = "start"
  /\ UNCHANGED <<folders, rep, ret, statuses, newDb, eof, Result, fos, out, sent, ev, pipeVars>>

CreateFails ==
  /\ main = "create"
  /\ main' = "ended" /\ ret' = "error"
  /\ UNCHANGED <<folders, rep, statuses, newDb, eof, threadVars, ev, pipeVars>>

InLoop == main = "next" /\ rep <= Len(folders)
AllStay == \A i \in DOMAIN Folder : Folder[i].size > 0 => Folder[i].wanted

\* WriteRange
CopyFolder ==
  /\ InLoop /\ AllStay
  /\ newDb' = Append(newDb, [k \in 1..Total(rep) |-> <<rep, k>>])
  /\ rep' = rep + 1
  /\ UNCHANGED <<folders, main, ret, statuses, eof, threadVars, ev, pipeVars>>

\* The streams of the binder, extractStatuses and FosSpec->Init, which fails when
\* an empty file at the start has a wrong CRC.
Prepare ==
  /\ InLoop /\ ~AllStay
  /\ P!Restart
  /\ statuses' = TRUE
  /\ fos' = FosInit /\ out' = NoOut /\ sent' = <<>> /\ eof' = FALSE
  /\ \/ main' = "start" /\ UNCHANGED ret
     \/ Folder[1].size = 0 /\ main' = "free" /\ ret' = "error"
  /\ UNCHANGED <<folders, rep, newDb, at, Result, ev>>

Start ==
  /\ main = "start"
  /\ main' = "encode"
  /\ ev' = [ev EXCEPT !.exit = FALSE, !.start = TRUE]
  /\ UNCHANGED <<folders, rep, ret, statuses, newDb, eof, threadVars, pipeVars>>

EncoderReads ==
  /\ main = "encode" /\ ~eof
  /\ P!BeginRead
  /\ UNCHANGED <<mainVars, threadVars, ev>>

ReadReturns ==
  /\ \/ \E n \in 1..MaxRead : P!Deliver(n) /\ UNCHANGED eof
     \/ P!EndOfStream /\ eof' = TRUE
  /\ UNCHANGED <<folders, main, rep, ret, statuses, newDb, threadVars, ev>>

EncodeSucceeds ==
  /\ main = "encode" /\ eof /\ reader = "idle"
  /\ main' = "wait"
  /\ UNCHANGED <<folders, rep, ret, statuses, newDb, eof, threadVars, ev, pipeVars>>

\* A break by the user, a failed write to the new archive, and any other error.
EncodeFails ==
  /\ main = "encode" /\ reader = "idle"
  /\ main' = "free" /\ ret' = "error"
  /\ UNCHANGED <<folders, rep, statuses, newDb, eof, threadVars, ev, pipeVars>>

\* WaitFinish, and the test of Result
WaitFinish ==
  /\ main = "wait" /\ ev.finished
  /\ ev' = [ev EXCEPT !.finished = FALSE]
  /\ main' = "free"
  /\ IF Result = "ok" THEN newDb' = Append(newDb, Input) /\ UNCHANGED ret
     ELSE ret' = "error" /\ UNCHANGED newDb
  /\ UNCHANGED <<folders, rep, statuses, eof, threadVars, pipeVars>>

\* The end of the block, or its unwinding: extractStatuses was declared after the
\* streams and goes first.
FreeStatuses ==
  /\ main = "free"
  /\ main' = "close"
  /\ statuses' = FALSE
  /\ UNCHANGED <<folders, rep, ret, newDb, eof, threadVars, ev, pipeVars>>

ReleaseInStream ==
  /\ main = "close"
  /\ P!CloseRead
  /\ IF ret = "ok" THEN main' = "next" /\ rep' = rep + 1
     ELSE main' = "exit" /\ UNCHANGED rep
  /\ UNCHANGED <<folders, ret, statuses, newDb, eof, threadVars, ev>>

\* All folders are done, or WriteRange, or anything that follows, fails.
LoopEnds ==
  /\ main = "next"
  /\ \/ rep > Len(folders) /\ UNCHANGED ret
     \/ ret' = "error"
  /\ main' = "exit"
  /\ UNCHANGED <<folders, rep, statuses, newDb, eof, threadVars, ev, pipeVars>>

\* ~CThreadDecoder: WaitThreadFinish
SetExitEvent ==
  /\ main = "exit"
  /\ main' = "startEvent"
  /\ ev' = [ev EXCEPT !.exit = TRUE]
  /\ UNCHANGED <<folders, rep, ret, statuses, newDb, eof, threadVars, pipeVars>>

SetStartEvent ==
  /\ main = "startEvent"
  /\ main' = "join"
  /\ ev' = [ev EXCEPT !.start = TRUE]
  /\ UNCHANGED <<folders, rep, ret, statuses, newDb, eof, threadVars, pipeVars>>

Join ==
  /\ main = "join" /\ at = "exited"
  /\ main' = "ended"
  /\ UNCHANGED <<folders, rep, ret, statuses, newDb, eof, threadVars, ev, pipeVars>>
-----------------------------------------------------------------------------
(* The thread                                                              *)

Running == main # "crashed"

ThreadStarts ==
  /\ at = "start" /\ ev.start
  /\ at' = IF ev.exit THEN "exited" ELSE "decode"
  /\ ev' = [ev EXCEPT !.start = FALSE]
  /\ UNCHANGED <<mainVars, Result, fos, out, sent, pipeVars>>

\* The decoder calls Write with its next bytes; it may give one too many.
Decode ==
  /\ at = "decode"
  /\ \E n \in 1..(Total(rep) + 1 - out.pos), wrong \in BOOLEAN :
       out' = [out EXCEPT !.size = n, !.wrong = wrong]
  /\ at' = "write"
  /\ UNCHANGED <<mainVars, Result, fos, sent, ev, pipeVars>>

Fails == Result' = "error" /\ at' = "release"

DecodeReturns ==
  /\ at = "decode"
  /\ \/ at' = "check" /\ UNCHANGED Result
     \/ Fails
  /\ UNCHANGED <<mainVars, fos, out, sent, ev, pipeVars>>

\* A slip: a decoder that ends early is not noticed.
CheckNot ==
  /\ at = "check"
  /\ Result' = "ok"
  /\ at' = "release"
  /\ UNCHANGED <<fos, out, sent>>

\* CheckFinishedState
Check ==
  /\ at = "check"
  /\ Result' = IF fos.index = Len(Folder) + 1 THEN "ok" ELSE "error"
  /\ at' = "release"
  /\ UNCHANGED <<fos, out, sent>>

\* Write has passed n bytes of the open file.  With its last byte the file is
\* closed, and its CRC tested.
Cur == MinOf(out.size, fos.rem)
Passed ==
  LET n == Cur
      good == fos.crcOk /\ ~out.wrong
  IN  /\ out' = [out EXCEPT !.pos = @ + n, !.size = @ - n]
      /\ IF n < fos.rem
         THEN /\ fos' = [fos EXCEPT !.rem = @ - n, !.crcOk = good]
              /\ at' = "write" /\ UNCHANGED Result
         ELSE /\ fos' = [fos EXCEPT !.rem = 0, !.open = FALSE, !.index = @ + 1]
              /\ IF good THEN at' = "empties" /\ UNCHANGED Result ELSE Fails

Skip ==
  /\ at = "write" /\ out.size > 0 /\ fos.open /\ ~fos.toPipe
  /\ Passed
  /\ UNCHANGED <<mainVars, sent, ev, pipeVars>>

WriteToPipe ==
  /\ at = "write" /\ out.size > 0 /\ fos.open /\ fos.toPipe
  /\ P!BeginWrite(Cur)
  /\ sent' = sent \o [k \in 1..Cur |-> <<rep, IF out.wrong THEN 0 ELSE out.pos + k>>]
  /\ at' = "pipe"
  /\ UNCHANGED <<mainVars, Result, fos, out, ev>>

PipeWritten ==
  /\ at = "pipe"
  /\ P!WriteSucceeds
  /\ Passed
  /\ UNCHANGED <<mainVars, sent, ev>>

PipeBroken ==
  /\ at = "pipe"
  /\ P!WriteFails
  /\ Fails
  /\ UNCHANGED <<mainVars, fos, out, sent, ev>>

\* An empty file with a wrong CRC is an error.
ProcessEmptyFiles ==
  /\ at = "empties"
  /\ \/ /\ fos' = [fos EXCEPT !.index = PassEmpty(@)]
        /\ at' = "write" /\ UNCHANGED Result
     \/ PassEmpty(fos.index) # fos.index /\ Fails /\ UNCHANGED fos
  /\ UNCHANGED <<out, sent>>

\* OpenFile; nothing may come after the last file.
OpenFile ==
  /\ at = "write" /\ out.size > 0 /\ ~fos.open
  /\ IF fos.index > Len(Folder) THEN Fails /\ UNCHANGED fos
     ELSE /\ fos' = [fos EXCEPT !.open = TRUE, !.crcOk = TRUE,
                       !.toPipe = Folder[fos.index].wanted, !.rem = Folder[fos.index].size]
          /\ UNCHANGED <<at, Result>>
  /\ UNCHANGED <<out, sent>>

WriteEnds ==
  /\ at = "write" /\ out.size = 0
  /\ at' = "decode"
  /\ UNCHANGED <<mainVars, Result, fos, out, sent, ev, pipeVars>>

\* The steps that read *_extractStatuses: those of memory that was freed have the
\* outcomes of the build, which are the old values or a crash of the program.
ReadStatuses ==
  /\ Check \/ ProcessEmptyFiles \/ OpenFile
  /\ main' \in IF statuses THEN {main}
                ELSE {IF w = "old" THEN main ELSE "crashed" : w \in Freed}
  /\ UNCHANGED <<folders, rep, ret, statuses, newDb, eof, ev, pipeVars>>

\* A slip: the stream is kept after a failure.
ReleaseOutStreamIfOk ==
  /\ at = "release"
  /\ IF Result = "ok" THEN P!CloseWrite ELSE UNCHANGED pipeVars
  /\ at' = "finish"
  /\ UNCHANGED <<mainVars, Result, fos, out, sent, ev>>

ReleaseOutStream ==
  /\ at = "release"
  /\ P!CloseWrite
  /\ at' = "finish"
  /\ UNCHANGED <<mainVars, Result, fos, out, sent, ev>>

SetFinishedEvent ==
  /\ at = "finish"
  /\ at' = "start"
  /\ ev' = [ev EXCEPT !.finished = TRUE]
  /\ UNCHANGED <<mainVars, Result, fos, out, sent, pipeVars>>
-----------------------------------------------------------------------------
MainStep ==
  \/ Create \/ CopyFolder \/ Prepare \/ Start \/ EncoderReads \/ ReadReturns
  \/ EncodeSucceeds \/ WaitFinish \/ FreeStatuses \/ ReleaseInStream \/ LoopEnds
  \/ SetExitEvent \/ SetStartEvent \/ Join

ThreadStep ==
  /\ Running
  /\ \/ ThreadStarts \/ Decode \/ DecodeReturns \/ Skip \/ WriteToPipe \/ PipeWritten
     \/ PipeBroken \/ ReadStatuses \/ WriteEnds \/ ReleaseOutStream \/ SetFinishedEvent

Terminating == main \in {"ended", "crashed"} /\ UNCHANGED vars

Next == MainStep \/ CreateFails \/ EncodeFails \/ ThreadStep \/ Terminating

Spec == Init /\ [][Next]_vars

\* Both threads are scheduled; neither the encoder nor the decoder has to fail.
FairSpec == Spec /\ WF_vars(MainStep) /\ WF_vars(ThreadStep)
-----------------------------------------------------------------------------
\* Whatever the decoder and the encoder do: every folder of the new archive holds
\* the wanted files of the old one, complete, in order and right, and an update
\* that returns S_OK has taken over all of them.
FoldersAreRight ==
  /\ TypeOK
  /\ \A f \in DOMAIN newDb : newDb[f] = Wanted(f)
  /\ main = "ended" /\ ret = "ok" => Len(newDb) = Len(folders)

\* Update returns: a decoder that fails closes its end of the binder, an encoder
\* that fails closes the other, and the thread ends.
RepackReturns == <>(main = "ended")

\* The decoder reads the statuses of the files only while they exist: a failed
\* encoder does not bring the program down, but leads to its exit code.
StatusesOutliveDecoder == main # "crashed"
=============================================================================
