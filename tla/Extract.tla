------------------------------ MODULE Extract ------------------------------
(***************************************************************************)
(* Extraction from a 7z archive (x, e, t): CHandler::Extract with its      *)
(* CFolderOutStream, which cuts the stream of a folder into files while    *)
(* the decoder writes it in pieces of any size, CArchiveExtractCallback,   *)
(* which decides what becomes of a file that exists, and the errors that   *)
(* the console counts for its exit code.                                   *)
(*                                                                         *)
(* The bytes of a folder are numbered from 1, a wrong byte is 0.  A stored *)
(* CRC is that of the right contents and tells wrong ones from them: for   *)
(* an item that has one, unless -mcrc=0 turns the test off.  Items are     *)
(* files or anti-items; directories, attributes, times, the test of the    *)
(* wildcard and archives of other formats are left out, and one archive is *)
(* extracted.                                                              *)
(***************************************************************************)
EXTENDS ToExtract

VARIABLES
  disk,      \* path -> contents, or None
  asked,     \* the archive, the items that are wanted, -t, whether CRCs are tested
             \* (FALSE: -mcrc=0), and disk at the start
  efis,      \* extractFolderInfoVector
  mode,      \* CArchiveExtractCallback::_overwriteMode
  pc,        \* where Extract is
  efi,       \* its entry at work
  cur,       \* CFolderOutStream::_currentIndex
  file,      \* the open file: what it got, its stream, the mode of PrepareOperation
  out,       \* [pos, size, wrong]: bytes decoded, those left of this Write, are they wrong
  flush,     \* the result FlushCorrupted reports
  results,   \* calls of SetOperationResult
  errors,    \* NumFileErrors and NumArchiveErrors are not 0
  agreed     \* files the user agreed to lose, one by one

vars == <<disk, asked, efis, mode, pc, efi, cur, file, out, flush, results,
          errors, agreed>>
-----------------------------------------------------------------------------
(* The archive                                                             *)

None == <<-1>>                        \* there is no such file
Items == asked.arc.items
Size(i) == Items[i].size
Folders == asked.arc.folders

\* CInArchive::FillStartFileIndex: the folder of each item, 0 for an item without
\* a stream before the first stream of a folder.
FolderOf ==
  LET at[i \in 0..Len(Items)] ==      \* the folder and the streams used of it
        IF i = 0 THEN <<1, 0>>
        ELSE IF Size(i) = 0 THEN at[i - 1]
        ELSE IF at[i - 1][2] + 1 = Folders[at[i - 1][1]] THEN <<at[i - 1][1] + 1, 0>>
        ELSE <<at[i - 1][1], at[i - 1][2] + 1>>
  IN  [i \in 1..Len(Items) |-> IF Size(i) = 0 /\ at[i - 1][2] = 0 THEN 0
                                ELSE at[i - 1][1]]

FirstOf(f) == CHOOSE i \in DOMAIN Items :
  FolderOf[i] = f /\ \A j \in DOMAIN Items : FolderOf[j] = f => i <= j
TotalBefore(i) ==                     \* bytes of the folder of i before i
  LET sum[j \in FirstOf(FolderOf[i])..i] ==
        IF j = FirstOf(FolderOf[i]) THEN 0 ELSE sum[j - 1] + Size(j - 1)
  IN  sum[i]
FolderSize(f) ==
  LET last == CHOOSE i \in DOMAIN Items :
                FolderOf[i] = f /\ \A j \in DOMAIN Items : FolderOf[j] = f => j <= i
  IN  TotalBefore(last) + Size(last)

\* The contents of an item.
Contents(i) ==
  IF Size(i) = 0 THEN <<>> ELSE [k \in 1..Size(i) |-> TotalBefore(i) + k]
-----------------------------------------------------------------------------
(* extractFolderInfoVector                                                 *)

\* Items start .. start + Len(statuses) - 1 are passed, those with TRUE wanted.
Entry(f, start, statuses) == [folder |-> f, start |-> start, statuses |-> statuses]

\* Mutant of Fill: the items between two wanted ones are not passed over.
FillShort(e, i) == [e EXCEPT !.statuses = Append(@, TRUE)]

\* ExtractStatuses.Add for the indices up to item i.
Fill(e, i) ==
  [e EXCEPT !.statuses = [k \in 1..(i - e.start + 1) |->
                            IF k <= Len(@) THEN @[k] ELSE k = i - e.start + 1]]

Entries ==
  LET upto[i \in 0..Len(Items)] ==
        IF i = 0 THEN <<>>
        ELSE LET done == upto[i - 1]
                 f == FolderOf[i]
             IN  IF i \notin asked.wanted THEN done
                 ELSE IF f = 0 THEN Append(done, Entry(0, i, <<TRUE>>))
                 ELSE IF done = <<>> \/ (done # <<>> /\ done[Len(done)].folder # f)
                 THEN Append(done, Fill(Entry(f, FirstOf(f), <<>>), i))
                 ELSE [done EXCEPT ![Len(done)] = Fill(@, i)]
  IN  upto[Len(Items)]

E == efis[efi]
Index == E.start + cur - 1
AtEnd == cur > Len(E.statuses)
AtEmptyFile == ~AtEnd /\ Size(Index) = 0
-----------------------------------------------------------------------------
(* CArchiveExtractCallback::GetStream                                      *)

Exists(p) == disk[p] # None

\* AutoRenamePath: a binary search for a number that is free; left and right after
\* each round.
Halved(p, left, right) ==
  LET mid == (left + right) \div 2
  IN  IF left = right THEN <<left, right>>
      ELSE IF Exists(<<p[1], mid>>) THEN <<mid + 1, right>> ELSE <<left, mid>>
AutoRename(p) ==
  LET range[k \in 0..MaxSuffix] ==
        IF k = 0 THEN <<1, MaxSuffix>> ELSE Halved(p, range[k - 1][1], range[k - 1][2])
  IN  <<p[1], range[MaxSuffix][2]>>

\* A file that has been opened: the stream is a path, or None.
Opened(stream, ask) == [open |-> TRUE, got |-> <<>>, stream |-> stream, ask |-> ask]
Closed == [open |-> FALSE, got |-> <<>>, stream |-> None, ask |-> "none"]

\* What GetStream leaves: the disk, the mode, whom it asked, whether it reported
\* an error, and the stream; nothing of it when extraction ends.
Answer(d, m, a, e, s) == [disk |-> d, mode |-> m, agreed |-> a, error |-> e, stream |-> s]

\* The file is created, or cannot be; an anti-item has none.
Creates(d, m, a, p, anti) ==
  IF anti THEN {Answer(d, m, a, FALSE, None)}
  ELSE {Answer([d EXCEPT ![p] = <<>>], m, a, FALSE, p), Answer(d, m, a, TRUE, None)}

\* An existing file in a mode that is not "ask" or "skip".
Replaces(m, a, p, anti) ==
  LET free == AutoRename(p) IN
  IF m = "rename"
  THEN IF Exists(free) THEN {} ELSE Creates(disk, m, a, free, anti)
  ELSE IF m = "renameExisting"
  THEN IF Exists(free) THEN {}
       ELSE Creates([disk EXCEPT ![free] = disk[p], ![p] = None], m, a, p, anti)
  ELSE Creates([disk EXCEPT ![p] = None], m, a, p, anti)
         \cup {Answer(disk, m, a, TRUE, None)}

\* Mutant of Answers: the answer "rename automatically" does not set the mode.
AnswersKeepMode(p, anti) ==
  {Answer(disk, mode, agreed, FALSE, None), Answer(disk, "skip", agreed, FALSE, None)}
  \cup Replaces("ask", agreed \cup {p}, p, anti)
  \cup Replaces("overwrite", agreed, p, anti) \cup Replaces("ask", agreed, p, anti)

\* AskOverwrite: no, no to all, yes, yes to all, rename automatically; Cancel is
\* one of the ways in which the run Fails.
Answers(p, anti) ==
  {Answer(disk, mode, agreed, FALSE, None), Answer(disk, "skip", agreed, FALSE, None)}
  \cup Replaces("ask", agreed \cup {p}, p, anti)
  \cup Replaces("overwrite", agreed, p, anti) \cup Replaces("rename", agreed, p, anti)

GetStream(i, ask) ==
  LET p == <<Items[i].path, 0>>
      anti == Items[i].anti
  IN  IF ask # "extract" THEN {Answer(disk, mode, agreed, FALSE, None)}
      ELSE IF ~Exists(p) THEN Creates(disk, mode, agreed, p, anti)
      ELSE IF mode = "skip" THEN {Answer(disk, mode, agreed, FALSE, None)}
      ELSE IF mode = "ask" THEN Answers(p, anti)
      ELSE Replaces(mode, agreed, p, anti)

\* OpenFile: what is asked of GetStream, and what PrepareOperation is told.
Ask == IF ~E.statuses[cur] THEN "skip" ELSE IF asked.test THEN "test" ELSE "extract"
Streams == GetStream(Index, Ask)
FileOf(g) ==
  Opened(g.stream, IF Ask = "extract" /\ g.stream = None /\ ~Items[Index].anti
                   THEN "skip" ELSE Ask)
Take(g) == disk' = g.disk /\ mode' = g.mode /\ agreed' = g.agreed

\* CloseFileAndSetResult
Report(f, res) ==
  /\ results' = Append(results, [index |-> Index, ask |-> f.ask, got |-> f.got, res |-> res])
  /\ cur' = cur + 1

\* Mutant of CrcResult: the CRC is not looked at.
CrcResultOk(got) == "ok"

\* The CRC of item i is tested: it has one, and _checkCrc is set.
CrcTested(i) == Items[i].crcDefined /\ asked.checkCrc
CrcResult(got) == IF CrcTested(Index) /\ got # Contents(Index) THEN "crc" ELSE "ok"
-----------------------------------------------------------------------------
(* CHandler::Extract                                                       *)

\* The next entry, and CFolderOutStream::Init.
NextFolder ==
  /\ pc = "folder" /\ efi < Len(efis)
  /\ efi' = efi + 1
  /\ cur' = 1
  /\ out' = [pos |-> 0, size |-> 0, wrong |-> FALSE]
  /\ pc' = "empties"
  /\ UNCHANGED <<disk, asked, efis, mode, file, flush, results, errors, agreed>>

\* ProcessEmptyFiles: the file is opened and closed at once, with the CRC of nothing.
EmptyFile ==
  /\ pc = "empties" /\ AtEmptyFile
  /\ \E g \in Streams :
       /\ Take(g)
       /\ Report(FileOf(g), "ok")
       /\ errors' = (errors \/ g.error)
  /\ UNCHANGED <<asked, efis, pc, efi, file, out, flush>>

EmptyFilesEnd ==
  /\ pc = "empties"
  /\ ~AtEmptyFile
  /\ pc' = IF out.size > 0 THEN "write" ELSE IF E.folder = 0 THEN "folder" ELSE "decode"
  /\ UNCHANGED <<disk, asked, efis, mode, efi, cur, file, out, flush, results,
                 errors, agreed>>

\* The decoder calls Write with the next bytes of the folder, right or wrong ones.
Decode ==
  /\ pc = "decode"
  /\ \E n \in 1..(FolderSize(E.folder) - out.pos), wrong \in BOOLEAN :
       out' = [out EXCEPT !.size = n, !.wrong = wrong]
  /\ pc' = "write"
  /\ UNCHANGED <<disk, asked, efis, mode, efi, cur, file, flush, results, errors, agreed>>

\* It returns: data error or S_OK when WasWritingFinished says no, and a method
\* that is not supported before the first byte.
DecodeEnds ==
  /\ pc = "decode"
  /\ pc' = "flush"
  /\ flush' \in {"data"} \cup (IF out.pos = 0 THEN {"unsupported"} ELSE {})
  /\ UNCHANGED <<disk, asked, efis, mode, efi, cur, file, out, results, errors, agreed>>

\* Write: the bytes the open file takes of those that are left, at most Rem.
Rem == Size(Index) - Len(file.got)
Bytes(n) == [k \in 1..n |-> IF out.wrong THEN 0 ELSE out.pos + k]
MinOf(a, b) == IF a < b THEN a ELSE b

Taken == MinOf(out.size, Rem)

WriteToFile ==
  /\ pc = "write" /\ out.size > 0 /\ file.open
  /\ LET n == Taken
         got == file.got \o Bytes(n)
     IN  /\ out' = [out EXCEPT !.pos = @ + n, !.size = @ - n]
         /\ disk' = IF file.stream = None THEN disk ELSE [disk EXCEPT ![file.stream] = got]
         /\ IF n >= Rem
            THEN /\ Report([file EXCEPT !.got = got], CrcResult(got))
                 /\ errors' = (errors \/ CrcResult(got) # "ok")
                 /\ file' = Closed
                 /\ pc' = "empties"
            ELSE /\ file' = [file EXCEPT !.got = got]
                 /\ UNCHANGED <<pc, cur, results, errors>>
  /\ UNCHANGED <<asked, efis, mode, efi, flush, agreed>>

\* No file is open: the next one is, or the rest of the folder is not wanted.
WriteOpens ==
  /\ pc = "write" /\ out.size > 0 /\ ~file.open
  /\ IF AtEnd
     THEN /\ out' = [out EXCEPT !.pos = @ + out.size, !.size = 0]
          /\ UNCHANGED <<disk, mode, agreed, file, errors>>
     ELSE \E g \in Streams : /\ Take(g)
                             /\ file' = FileOf(g)
                             /\ errors' = (errors \/ g.error)
                             /\ UNCHANGED out
  /\ UNCHANGED <<asked, efis, pc, efi, cur, flush, results>>

WriteEnds ==
  /\ pc = "write" /\ out.size = 0
  /\ pc' = "decode"
  /\ UNCHANGED <<disk, asked, efis, mode, efi, cur, file, out, flush, results,
                 errors, agreed>>

\* FlushCorrupted: the open file and all that follow get the error.
FlushCloses ==
  /\ pc = "flush" /\ ~AtEnd /\ file.open
  /\ Report(file, flush)
  /\ errors' = TRUE
  /\ file' = Closed
  /\ UNCHANGED <<disk, asked, efis, mode, pc, efi, out, flush, agreed>>

FlushOpens ==
  /\ pc = "flush" /\ ~AtEnd /\ ~file.open
  /\ \E g \in Streams : /\ Take(g)
                        /\ file' = FileOf(g)
                        /\ errors' = (errors \/ g.error)
  /\ UNCHANGED <<asked, efis, pc, efi, cur, out, flush, results>>

FlushEnds ==
  /\ pc = "flush" /\ AtEnd
  /\ pc' = "folder"
  /\ UNCHANGED <<disk, asked, efis, mode, efi, cur, file, out, flush, results,
                 errors, agreed>>

\* The exit code is 0 if nothing was counted.
Ends ==
  /\ pc = "folder" /\ efi = Len(efis)
  /\ pc' = "ended"
  /\ UNCHANGED <<disk, asked, efis, mode, efi, cur, file, out, flush, results,
                 errors, agreed>>

\* Any other error of a call, no free name, a failed write, and a break by the user.
Fails ==
  /\ pc \notin {"ended", "failed"}
  /\ pc' = "failed"
  /\ errors' = TRUE
  /\ UNCHANGED <<disk, asked, efis, mode, efi, cur, file, out, flush, results, agreed>>
-----------------------------------------------------------------------------
Modes == {"ask", "overwrite", "skip", "rename", "renameExisting"}

Init ==
  /\ disk \in Disks
  /\ asked \in UNION {[arc : {a}, wanted : SUBSET DOMAIN a.items \ {{}},
                       test : BOOLEAN, checkCrc : BOOLEAN, disk : {disk}] : a \in Archives}
  /\ efis = Entries
  /\ mode \in IF asked.test THEN {"ask"} ELSE Modes
  /\ pc = "folder" /\ efi = 0 /\ cur = 1
  /\ file = Closed
  /\ out = [pos |-> 0, size |-> 0, wrong |-> FALSE]
  /\ flush = "data" /\ results = <<>> /\ errors = FALSE /\ agreed = {}

Next ==
  \/ NextFolder \/ EmptyFile \/ EmptyFilesEnd \/ Decode \/ DecodeEnds
  \/ WriteToFile \/ WriteOpens \/ WriteEnds
  \/ FlushCloses \/ FlushOpens \/ FlushEnds \/ Ends \/ Fails

Spec == Init /\ [][Next]_vars
-----------------------------------------------------------------------------
(* Correctness                                                             *)

\* A file that was there before is still somewhere on the disk, under its name
\* or another one, unless the user agreed to lose it: also when two items have
\* the same path, and when the answer changes the mode on the way.
NothingLostUnasked ==
  mode # "overwrite" =>
    \A p \in DiskPath \ agreed :
      asked.disk[p] # None => \E q \in DiskPath : disk[q] = asked.disk[p]

\* Of the bytes of the folder, item i got those from its own place on, as many as
\* it has; the decoder may have made some of them wrong.
OwnBytes(i, got) ==
  /\ Len(got) = Size(i)
  /\ \A k \in 1..Size(i) : got[k] \in {0, TotalBefore(i) + k}

\* What "Everything is Ok" promises of an item: its own part of the folder, and no
\* wrong byte if its CRC is tested.
IsGood(i, got) == OwnBytes(i, got) /\ (CrcTested(i) => got = Contents(i))

\* However the decoder cuts its output, wherever empty items lie between the
\* others, and whatever fails: the wanted items are reported once each, in the
\* order of the archive, and an item reported as good got its own part of the
\* folder, with the right contents unless it has no CRC or CRCs are not tested.
EachItemReportedOnce ==
  /\ \A k, l \in DOMAIN results : k < l => results[k].index < results[l].index
  /\ \A i \in asked.wanted :
       (pc = "ended" \/ \E k \in DOMAIN results : i <= results[k].index) =>
          \E k \in DOMAIN results : results[k].index = i
  /\ \A k \in DOMAIN results :
       results[k].res = "ok" => IsGood(results[k].index, results[k].got)

\* Exit code 0 means that every item that was to be written lies on the disk, its
\* own part of the folder and with the right contents if its CRC is tested, unless
\* another item of the archive has the same path.
SuccessIsExtracted ==
  pc = "ended" /\ ~errors => \A k \in DOMAIN results :
    LET i == results[k].index
        same == {j \in asked.wanted : Items[j].path = Items[i].path}
    IN  results[k].ask = "extract" /\ ~Items[i].anti /\ same = {i} =>
          \E p \in DiskPath : p[1] = Items[i].path /\ IsGood(i, disk[p])
=============================================================================
