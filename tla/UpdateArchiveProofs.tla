------------------------ MODULE UpdateArchiveProofs ------------------------
(***************************************************************************)
(* Proofs about UpdateArchive for any names, any command lines and any     *)
(* number of runs: what the merge of the two sorted lists and UpdateProduce *)
(* return, which files a run touches, and what it has made of the archive  *)
(* when it ends or is killed.                                              *)
(***************************************************************************)
EXTENDS UpdateArchive, SequenceTheorems, WellFoundedInduction, TLAPS

(* Which files a run touches                                               *)

\* The paths that commands name, as opposed to temporary files.
Named == {"arc", "other"}

\* Until Paths.Clear all that was made is in the list of temporary files.
Listed == {"open", "scan", "check", "create", "item", "close", "leave"}
Replacing == {"delete", "move", "copy", "unlink"}
PcOK == pc \in Listed \cup Replacing \cup {"idle", "done"}

\* A missing file is a missing file: nothing else has this state.
FilesOK == DOMAIN files = Path /\ \A p \in Path : Has(p) \/ files[p] = NoFile

CommandsOK == /\ cmds \in Seq([dest : Named, set : ActionSet])
              /\ ci \in Nat \ {0}
              /\ pc \in {"create", "item"} => ci <= Len(cmds)
              /\ pc \in {"open", "scan", "check"} => ci = 1 /\ made = {}
              /\ pc = "create" /\ ci = 1 => made = {}

\* What a run has not made is as it was when the run began; the old archive may
\* be gone when it is replaced.
OthersKept ==
  pc # "idle" =>
    \A p \in Path \ made : p # "arc" \/ pc \in Listed => files[p] = before[p]

\* What it has made was not there before.
MadeIsNew ==
  /\ made \subseteq Path /\ paths \subseteq made
  /\ pc \in Listed => paths = made
  /\ pc \in Replacing => paths = {}
  /\ \A p \in made : p # "arc" => before[p] = NoFile
  /\ \A p \in paths : before[p] = NoFile

\* The file that is being written.
BeingWritten ==
  pc = "item" => IF IsTemp THEN \E p \in Path \ Named : paths = {p}
                           ELSE cmds[ci].dest \in paths

\* From the end of the first command on the temporary file is complete.
TempIsWhole ==
  \/ pc \in {"create", "item", "leave"} /\ CreateTempFile /\ (ci > 1 \/ pc = "leave")
  \/ pc \in Replacing
  => \E p \in made \ Named : files[p].state = "whole"

OwnInv == /\ PcOK /\ FilesOK /\ CommandsOK /\ OthersKept /\ MadeIsNew
          /\ BeingWritten /\ TempIsWhole

\* What a step may do to the files.
OwnStep ==
  \A p \in Path : files'[p] # files[p] =>
    \/ before[p] = NoFile
    \/ p = "arc" /\ \E q \in made : files[q].state = "whole"

LEMMA InitOwn == Init => OwnInv
<1> SUFFICES ASSUME Init PROVE OwnInv
  OBVIOUS
<1>1. FilesOK
  BY DEF Init, FilesOK, InitialFile, NoFile, Whole, Has
<1>2. cmds = <<>> /\ cmds \in Seq([dest : Named, set : ActionSet])
  BY DEF Init
<1> QED
  BY <1>1, <1>2 DEF Init, OwnInv, PcOK, Listed, Replacing, CommandsOK, OthersKept,
     MadeIsNew, BeingWritten, TempIsWhole

\* The end of a run, by an error or at the end of the program.
LEMMA ReturnOwn ==
  ASSUME OwnInv, NEW code, Return(code), pc # "idle"
  PROVE  OwnInv' /\ OwnStep
<1> USE DEF OwnInv, Return, run
<1>1. PcOK' /\ CommandsOK' /\ BeingWritten' /\ TempIsWhole' /\ MadeIsNew'
  BY DEF PcOK, CommandsOK, BeingWritten, TempIsWhole, MadeIsNew, Listed, Replacing
<1>2. FilesOK'
  BY DEF FilesOK, Has, NoFile
<1>3. OthersKept'
  BY DEF OthersKept, MadeIsNew, FilesOK, Listed
<1>4. OwnStep
  BY DEF OwnStep, MadeIsNew, FilesOK
<1> QED
  BY <1>1, <1>2, <1>3, <1>4

\* A new run has made nothing.
LEMMA StartOwn == ASSUME OwnInv, Start PROVE OwnInv' /\ OwnStep
<1>1. cmds' \in Seq([dest : Named, set : ActionSet])
  BY UpdateAssumption DEF Start, Named
<1>2. FilesOK' /\ UNCHANGED files
  BY DEF OwnInv, Start, FilesOK, Has
<1> QED
  BY <1>1, <1>2 DEF OwnInv, Start, PcOK, Listed, Replacing, CommandsOK, OthersKept,
     MadeIsNew, BeingWritten, TempIsWhole, OwnStep

\* A killed run forgets what it made and leaves it where it is.
LEMMA KilledOwn == ASSUME OwnInv, Killed PROVE OwnInv' /\ OwnStep
BY DEF OwnInv, Killed, run, PcOK, Listed, Replacing, CommandsOK, OthersKept, FilesOK, Has,
   MadeIsNew, BeingWritten, TempIsWhole, OwnStep

\* Steps before the first file is made.
LEMMA PrepareOwn ==
  ASSUME OwnInv,
         \/ Open \/ Scan
         \/ Check /\ ~Return(2)
         \/ ClearPaths
  PROVE  OwnInv' /\ OwnStep
<1>1. CASE Open \/ Scan
  BY <1>1 DEF OwnInv, Open, Scan, run, PcOK, Listed, Replacing, CommandsOK, OthersKept,
     FilesOK, Has, MadeIsNew, BeingWritten, TempIsWhole, OwnStep
<1>2. CASE Check /\ ~Return(2)
  BY <1>2 DEF OwnInv, Check, Return, run, PcOK, Listed, Replacing, CommandsOK, OthersKept,
     FilesOK, Has, MadeIsNew, BeingWritten, TempIsWhole, OwnStep, CreateTempFile,
     UpdateArchiveItself
<1>3. CASE ClearPaths
  BY <1>3 DEF OwnInv, ClearPaths, Unwind, run, PcOK, Listed, Replacing, CommandsOK, OthersKept,
     FilesOK, Has, MadeIsNew, BeingWritten, TempIsWhole, OwnStep
<1> QED
  BY <1>1, <1>2, <1>3

\* A command names an archive, no temporary file.
LEMMA NamedDest ==
  ASSUME CommandsOK, pc \in {"create", "item"}
  PROVE  cmds[ci].dest \in Named
<1> DEFINE Command == [dest : Named, set : ActionSet]
<1>1. cmds \in Seq(Command) /\ ci \in DOMAIN cmds
  BY DEF CommandsOK
<1>2. cmds[ci] \in Command
  <2> HIDE DEF Command
  <2> QED
    BY <1>1
<1> QED
  BY <1>2

\* The path that Create takes is free.
LEMMA FreePath ==
  ASSUME OwnInv, pc = "create", NEW p \in OutPaths
  PROVE  p \in Path /\ ~Has(p) /\ IF IsTemp THEN p \notin Named ELSE p = cmds[ci].dest
<1>1. CASE IsTemp
  <2>1. PICK i \in DOMAIN TempPath : p = TempPath[i] /\ ~Has(TempPath[i])
    BY <1>1 DEF OutPaths
  <2> QED
    BY <1>1, <2>1 DEF Path, TempPath, Named
<1>2. CASE ~IsTemp
  BY <1>2, NamedDest DEF OutPaths, Path, Named, OwnInv
<1> QED
  BY <1>1, <1>2

\* The file that is being written.
LEMMA OpenPath ==
  ASSUME OwnInv, pc = "item"
  PROVE  /\ OutPath \in paths /\ OutPath \in made /\ OutPath \in Path
         /\ IF IsTemp THEN OutPath \notin Named ELSE OutPath = cmds[ci].dest
<1> USE DEF OwnInv
<1>1. CASE IsTemp
  <2>1. PICK p \in Path \ Named : paths = {p}
    BY <1>1 DEF BeingWritten
  <2>2. OutPath = p
    BY <1>1, <2>1 DEF OutPath, Named
  <2> QED
    BY <1>1, <2>1, <2>2 DEF MadeIsNew
<1>2. CASE ~IsTemp
  BY <1>2 DEF OutPath, BeingWritten, MadeIsNew
<1> QED
  BY <1>1, <1>2

\* What Create takes is free, so it was free when the run began.
LEMMA CreateOwn == ASSUME OwnInv, Create PROVE OwnInv' /\ OwnStep
<1> USE DEF OwnInv
<1>1. PICK p \in OutPaths : /\ files' = [files EXCEPT ![p] = Partial]
                            /\ made' = made \cup {p}
                            /\ paths' = paths \cup {p}
  BY DEF Create, Remember
<1>2. pc = "create" /\ pc' = "item" /\ UNCHANGED <<place, cmds, before, ci, archive>>
  BY DEF Create, run
<1>3. p \in Path /\ ~Has(p) /\ IF IsTemp THEN p \notin Named ELSE p = cmds[ci].dest
  BY <1>2, FreePath
<1>4. before[p] = NoFile
  <2>1. CASE p \in made
    BY <1>2, <2>1 DEF MadeIsNew, Listed
  <2>2. CASE p \notin made
    BY <1>2, <1>3, <2>2 DEF FilesOK, OthersKept, Listed
  <2> QED
    BY <2>1, <2>2
<1>5. PcOK' /\ CommandsOK'
  BY <1>2 DEF PcOK, CommandsOK, Listed
<1>6. FilesOK' /\ \A q \in Path \ {p} : files'[q] = files[q]
  BY <1>1, <1>3 DEF FilesOK, Has, Partial
<1>7. OthersKept' /\ MadeIsNew'
  BY <1>1, <1>2, <1>3, <1>4, <1>6 DEF OthersKept, MadeIsNew, Listed, Replacing
<1>8. BeingWritten'
  <2>1. IsTemp' = IsTemp
    BY <1>2 DEF IsTemp, CreateTempFile, UpdateArchiveItself, IsOpen
  <2>2. CASE IsTemp
    BY <1>1, <1>2, <1>3, <2>1, <2>2 DEF BeingWritten, IsTemp, CommandsOK, MadeIsNew, Listed
  <2>3. CASE ~IsTemp
    BY <1>1, <1>2, <1>3, <2>1, <2>3 DEF BeingWritten
  <2> QED
    BY <2>2, <2>3
<1>9. TempIsWhole'
  <2> SUFFICES ASSUME CreateTempFile', ci' > 1
               PROVE  \E q \in made' \ Named : files'[q].state = "whole"
    BY <1>2 DEF TempIsWhole, Replacing
  <2>1. CreateTempFile /\ ci > 1
    BY <1>2 DEF CreateTempFile, UpdateArchiveItself, IsOpen
  <2>2. PICK q \in made \ Named : files[q].state = "whole"
    BY <1>2, <2>1 DEF TempIsWhole
  <2>3. q \in made' \ Named /\ q # p
    BY <1>1, <1>3, <2>2 DEF Has
  <2> QED
    BY <1>6, <2>2, <2>3 DEF MadeIsNew
<1>10. OwnStep
  BY <1>4, <1>6 DEF OwnStep
<1> QED
  BY <1>5, <1>6, <1>7, <1>8, <1>9, <1>10

\* UpdateItems touches no file before it closes the archive.
LEMMA ItemOwn == ASSUME OwnInv, Item \/ ItemOpensNot PROVE OwnInv' /\ OwnStep
<1>1. /\ pc = "item" /\ pc' = "item"
      /\ UNCHANGED <<files, place, cmds, before, ci, archive, paths, made>>
  BY DEF Item, ItemOpensNot, run
<1> QED
  BY <1>1 DEF OwnInv, PcOK, Listed, Replacing, CommandsOK, OthersKept, FilesOK, Has,
     MadeIsNew, BeingWritten, TempIsWhole, OwnStep, IsTemp, CreateTempFile,
     UpdateArchiveItself, IsOpen

\* Close writes the file that Create has made.
LEMMA CloseOwn == ASSUME OwnInv, Close PROVE OwnInv' /\ OwnStep
<1> USE DEF OwnInv
<1>1. /\ pc = "item" /\ files' = [files EXCEPT ![OutPath] = Whole(written)]
      /\ IF ci = Len(cmds) THEN pc' = "leave" /\ UNCHANGED ci ELSE pc' = "create" /\ ci' = ci + 1
      /\ UNCHANGED <<place, cmds, before, archive, paths, made>>
  BY DEF Close, run
<1>2. /\ OutPath \in paths /\ OutPath \in made /\ OutPath \in Path
      /\ IF IsTemp THEN OutPath \notin Named ELSE OutPath = cmds[ci].dest
  BY <1>1, OpenPath
<1>3. before[OutPath] = NoFile
  BY <1>2 DEF MadeIsNew
<1>4. /\ FilesOK' /\ files'[OutPath].state = "whole"
      /\ \A q \in Path \ {OutPath} : files'[q] = files[q]
  BY <1>1, <1>2, <1>3 DEF FilesOK, Has, Whole
<1>5. PcOK' /\ CommandsOK' /\ BeingWritten'
  BY <1>1 DEF PcOK, CommandsOK, BeingWritten, Listed
<1>6. OthersKept' /\ MadeIsNew'
  BY <1>1, <1>2, <1>3, <1>4 DEF OthersKept, MadeIsNew, Listed, Replacing
<1>7. TempIsWhole'
  <2> SUFFICES ASSUME CreateTempFile'
               PROVE  \E q \in made' \ Named : files'[q].state = "whole"
    BY <1>1 DEF TempIsWhole, Replacing
  <2>1. CreateTempFile
    BY <1>1 DEF CreateTempFile, UpdateArchiveItself, IsOpen
  <2>2. CASE ci = 1
    BY <1>1, <1>2, <1>3, <1>4, <2>1, <2>2 DEF IsTemp
  <2>3. CASE ci # 1
    <3>1. PICK q \in made \ Named : files[q].state = "whole"
      BY <1>1, <2>1, <2>3 DEF TempIsWhole, CommandsOK
    <3>2. OutPath \in Named
      BY <1>1, <1>2, <2>3, NamedDest DEF IsTemp
    <3> QED
      BY <1>1, <1>4, <3>1, <3>2 DEF MadeIsNew
  <2> QED
    BY <2>2, <2>3
<1>8. OwnStep
  BY <1>3, <1>4 DEF OwnStep
<1> QED
  BY <1>4, <1>5, <1>6, <1>7, <1>8

\* The old archive goes only when there is a complete temporary file, and this
\* one only when it has been moved.
LEMMA ReplaceOwn ==
  ASSUME OwnInv, ~Return(2),
         DeleteFileAlways \/ Rename \/ CopyFile \/ CopyFd \/ Unlink
  PROVE  OwnInv' /\ OwnStep
<1> USE DEF OwnInv
<1>1. /\ pc \in Replacing /\ pc' \in Replacing \cup {"done"}
      /\ pc' \in {"move", "copy", "unlink", "done"}
      /\ UNCHANGED <<place, cmds, before, ci, archive, paths>>
  BY DEF DeleteFileAlways, Rename, CopyFile, CopyFd, Unlink, Replacing, Unwind, run
<1>2. PICK t \in made \ Named : files[t].state = "whole"
  BY <1>1 DEF TempIsWhole
<1>3. Temp \in made \ Named /\ Temp \in Path /\ before[Temp] = NoFile
  BY <1>2 DEF Temp, Named, MadeIsNew
<1>4. made \subseteq made' /\ made' \subseteq made \cup {"arc"}
  BY DEF DeleteFileAlways, Rename, CopyFile, CopyFd, Unlink, Unwind
<1>5. /\ FilesOK'
      /\ \A q \in Path \ {"arc", Temp} : files'[q] = files[q]
      /\ pc' \in Replacing => files'[Temp] = files[Temp]
  <2>1. CASE DeleteFileAlways
    BY <1>3, <2>1 DEF DeleteFileAlways, FilesOK, Has, Named, NoFile
  <2>2. CASE Rename
    BY <1>1, <1>3, <2>2 DEF Rename, FilesOK, Has, Named, NoFile, Replacing
  <2>3. CASE CopyFile
    BY <1>3, <2>3 DEF CopyFile, FilesOK, Has, Named, Partial
  <2>4. CASE CopyFd
    BY <1>3, <2>4 DEF CopyFd, FilesOK, Has, Named
  <2>5. CASE Unlink
    BY <1>1, <1>3, <2>5 DEF Unlink, FilesOK, Has, Named, NoFile, Replacing
  <2> QED
    BY <2>1, <2>2, <2>3, <2>4, <2>5
<1>6. PcOK' /\ CommandsOK' /\ BeingWritten'
  BY <1>1 DEF PcOK, CommandsOK, BeingWritten, Replacing
<1>7. OthersKept' /\ MadeIsNew'
  BY <1>1, <1>3, <1>4, <1>5 DEF OthersKept, MadeIsNew, Listed, Replacing, Path
<1>8. TempIsWhole'
  <2> SUFFICES ASSUME pc' \in Replacing
               PROVE  \E q \in made' \ Named : files'[q].state = "whole"
    BY <1>1 DEF TempIsWhole, Replacing
  <2>1. t \in made' \ Named /\ t \in Path /\ t # "arc"
    BY <1>2, <1>4 DEF MadeIsNew, Named
  <2>2. files'[t] = files[t]
    BY <1>5, <2>1
  <2> QED
    BY <1>2, <2>1, <2>2
<1>9. OwnStep
  BY <1>2, <1>3, <1>5 DEF OwnStep
<1> QED
  BY <1>5, <1>6, <1>7, <1>8, <1>9

\* Every step keeps the invariant and touches only what it may touch.
LEMMA NextOwn == ASSUME OwnInv, [Next]_vars PROVE OwnInv' /\ OwnStep
<1>1. CASE Start
  BY <1>1, StartOwn
<1>2. CASE Killed
  BY <1>2, KilledOwn
<1>3. CASE \/ Fails \/ OpensNot \/ CreatesNot
           \/ Return(2) /\ (Check \/ DeleteFileAlways \/ Rename \/ CopyFd \/ Unlink)
  <2>1. Return(2) /\ pc # "idle"
    BY <1>3 DEF Fails, OpensNot, CreatesNot, Check, DeleteFileAlways, Rename, CopyFd, Unlink
  <2> QED
    BY <2>1, ReturnOwn
<1>4. CASE Open \/ Scan \/ ClearPaths \/ (Check /\ ~Return(2))
  BY <1>4, PrepareOwn
<1>5. CASE Create
  BY <1>5, CreateOwn
<1>6. CASE Item \/ ItemOpensNot
  BY <1>6, ItemOwn
<1>7. CASE Close
  BY <1>7, CloseOwn
<1>8. CASE ~Return(2) /\ (DeleteFileAlways \/ Rename \/ CopyFile \/ CopyFd \/ Unlink)
  BY <1>8, ReplaceOwn
<1>9. CASE CopyFile /\ Return(2)
  BY <1>9 DEF CopyFile, Return
<1>10. CASE UNCHANGED vars
  BY <1>10 DEF vars, OwnInv, PcOK, Listed, Replacing, CommandsOK, OthersKept, FilesOK, Has,
     MadeIsNew, BeingWritten, TempIsWhole, OwnStep, IsTemp, CreateTempFile,
     UpdateArchiveItself, IsOpen
<1> QED
  BY <1>1, <1>2, <1>3, <1>4, <1>5, <1>6, <1>7, <1>8, <1>9, <1>10 DEF Next
-----------------------------------------------------------------------------
(* Sequences, by induction on their length                                 *)

\* A set that has 0, and the successor of each number it has, has all of them.
LEMMA NatInd ==
  ASSUME NEW S, 0 \in S, \A k \in Nat : k \in S => k + 1 \in S
  PROVE  \A k \in Nat : k \in S
<1> DEFINE T == Nat \ S
<1> SUFFICES ASSUME T # {} PROVE FALSE
  OBVIOUS
<1>1. PICK c \in T : \A d \in T : ~(<<d, c>> \in OpToRel(<, Nat))
  <2> T \subseteq Nat
    OBVIOUS
  <2> HIDE DEF T
  <2> QED
    BY WFMin, NatLessThanWellFounded, Zenon
<1>2. c \in Nat /\ c # 0 /\ c - 1 \in Nat
  OBVIOUS
<1>3. c - 1 \notin T
  <2> DEFINE p == <<c - 1, c>>
  <2>1. p \in Nat \X Nat /\ p[1] = c - 1 /\ p[2] = c
    BY <1>2
  <2> HIDE DEF p
  <2>2. p[1] < p[2]
    BY <1>2, <2>1
  <2>3. p \in OpToRel(<, Nat)
    BY <2>1, <2>2, Zenon DEF OpToRel
  <2> QED
    BY <1>1, <2>3, Zenon DEF p
<1>4. c - 1 \in S /\ (c - 1) + 1 = c
  BY <1>2, <1>3
<1> QED
  BY <1>2, <1>4

\* The recursive function of Only exists.
LEMMA OnlyIsDefined ==
  ASSUME NEW X, NEW s \in Seq(X), NEW T
  PROVE  \E f : /\ f = [k \in 0..Len(s) |->
                          IF k = 0 THEN <<>>
                          ELSE IF s[k] \in T THEN Append(f[k - 1], s[k]) ELSE f[k - 1]]
                /\ Only(s, T) = f[Len(s)]
<1> DEFINE Body(f, k) == IF k = 0 THEN <<>>
                         ELSE IF s[k] \in T THEN Append(f[k - 1], s[k]) ELSE f[k - 1]
           S == {n \in Nat : \E f : f = [k \in 0..n |-> Body(f, k)]}
<1>1. 0 \in S
  <2> DEFINE f == [k \in 0..0 |-> <<>>]
  <2>1. f = [k \in 0..0 |-> Body(f, k)]
    OBVIOUS
  <2> QED
    BY <2>1
<1>2. ASSUME NEW n \in Nat, n \in S PROVE n + 1 \in S
  <2>1. PICK f : f = [k \in 0..n |-> Body(f, k)]
    BY <1>2
  <2> DEFINE last == Body(f, n + 1)
             g == [k \in 0..(n + 1) |-> IF k = n + 1 THEN last ELSE f[k]]
  <2>2. \A k \in 0..n : k \in 0..(n + 1) /\ k # n + 1 /\ g[k] = f[k]
    OBVIOUS
  <2>3. \A k \in 0..n : f[k] = Body(f, k)
    BY <2>1
  <2>4. n + 1 \in 0..(n + 1) /\ g[n + 1] = last
    OBVIOUS
  <2>5. ASSUME NEW k \in 0..(n + 1)
        PROVE  g[k] = Body(g, k)
    <3> HIDE DEF g
    <3>1. CASE k \in 0..n
      <4>1. k # 0 => g[k - 1] = f[k - 1]
        BY <2>2, <3>1
      <4>2. g[k] = Body(f, k)
        BY <2>2, <2>3, <3>1
      <4> QED
        BY <4>1, <4>2
    <3>2. CASE k = n + 1
      <4>1. k # 0 /\ g[k - 1] = f[k - 1]
        BY <2>2, <3>2
      <4> QED
        BY <2>4, <3>2, <4>1
    <3> QED
      BY <3>1, <3>2
  <2>6. g = [k \in 0..(n + 1) |-> Body(g, k)]
    <3>1. g = [k \in 0..(n + 1) |-> g[k]]
      OBVIOUS
    <3> HIDE DEF g
    <3> QED
      BY <2>5, <3>1
  <2> HIDE DEF g
  <2> QED
    BY <2>6, SMTT(20)
<1>3. Len(s) \in S
  <2> Len(s) \in Nat
    OBVIOUS
  <2> HIDE DEF S
  <2> QED
    BY <1>1, <1>2, NatInd
<1>4. \E f : f = [k \in 0..Len(s) |-> Body(f, k)]
  BY <1>3
<1> DEFINE f == CHOOSE f : f = [k \in 0..Len(s) |-> Body(f, k)]
<1>5. f = [k \in 0..Len(s) |-> Body(f, k)]
  BY <1>4
<1>6. Only(s, T) = f[Len(s)]
  BY DEF Only
<1> HIDE DEF f
<1> QED
  BY <1>5, <1>6

\* r has of the first n elements of s those that are in T.
TakenFrom(r, s, T, n) ==
  /\ \A i \in 1..Len(r) : r[i] \in T /\ \E k \in 1..n : r[i] = s[k]
  /\ \A k \in 1..n : s[k] \in T => \E i \in 1..Len(r) : r[i] = s[k]

\* Sorted, without duplicates.
Increasing(s) == \A i, j \in 1..Len(s) : i < j => s[i] < s[j]

StaysSorted(r, s, X) == X \subseteq Int /\ Increasing(s) => Increasing(r)

Takes(r, s, T, X, n) == r \in Seq(X) /\ TakenFrom(r, s, T, n) /\ StaysSorted(r, s, X)

\* Only(s, T) has the elements of s that are in T, in the order of s.
LEMMA OnlyTakes ==
  ASSUME NEW X, NEW s \in Seq(X), NEW T
  PROVE  /\ Only(s, T) \in Seq(X) /\ TakenFrom(Only(s, T), s, T, Len(s))
         /\ StaysSorted(Only(s, T), s, X)
<1>1. Len(s) \in Nat /\ \A k \in 1..Len(s) : s[k] \in X
  BY LenProperties
<1>2. PICK f : /\ f = [k \in 0..Len(s) |->
                         IF k = 0 THEN <<>>
                         ELSE IF s[k] \in T THEN Append(f[k - 1], s[k]) ELSE f[k - 1]]
               /\ Only(s, T) = f[Len(s)]
  BY OnlyIsDefined
<1> DEFINE S == {n \in Nat : n <= Len(s) => Takes(f[n], s, T, X, n)}
<1>3. 0 \in S
  <2>1. f[0] = <<>>
    BY <1>1, <1>2
  <2>2. <<>> \in Seq(X) /\ Len(<<>>) = 0
    OBVIOUS
  <2> DEFINE e == f[0]
  <2>3. e \in Seq(X) /\ Len(e) = 0
    BY <2>1, <2>2
  <2> HIDE DEF e
  <2>4. TakenFrom(e, s, T, 0) /\ Increasing(e)
    BY <2>3 DEF TakenFrom, Increasing
  <2> QED
    BY <2>3, <2>4 DEF e, StaysSorted, Takes
<1>4. ASSUME NEW n \in Nat, n \in S PROVE n + 1 \in S
  <2> SUFFICES ASSUME n + 1 <= Len(s) PROVE Takes(f[n + 1], s, T, X, n + 1)
    OBVIOUS
  <2> DEFINE x == s[n + 1]
             r == f[n]
  <2>1. Takes(r, s, T, X, n) /\ x \in X
    <3>1. n <= Len(s) /\ n + 1 \in 1..Len(s)
      BY <1>1
    <3>2. n \in S
      BY <1>4
    <3>3. Takes(f[n], s, T, X, n)
      BY <3>1, <3>2, Zenon
    <3> QED
      BY <1>1, <3>1, <3>3
  <2>2. f[n + 1] = IF x \in T THEN Append(r, x) ELSE r
    <3>1. n + 1 \in 0..Len(s) /\ n + 1 # 0 /\ (n + 1) - 1 = n
      BY <1>1
    <3>2. \A k \in 0..Len(s) : k # 0 => f[k] = IF s[k] \in T THEN Append(f[k - 1], s[k]) ELSE f[k - 1]
      BY <1>2
    <3>3. f[n + 1] = IF s[n + 1] \in T THEN Append(f[(n + 1) - 1], s[n + 1]) ELSE f[(n + 1) - 1]
      BY <3>1, <3>2
    <3> QED
      BY <3>1, <3>3
  <2>3. r \in Seq(X) /\ TakenFrom(r, s, T, n) /\ StaysSorted(r, s, X) /\ Len(r) \in Nat
    <3>1. r \in Seq(X) /\ TakenFrom(r, s, T, n) /\ StaysSorted(r, s, X)
      BY <2>1 DEF Takes
    <3> QED
      BY <3>1, LenProperties
  <2>4. CASE x \notin T
    <3>1. f[n + 1] = r
      BY <2>2, <2>4
    <3>2. TakenFrom(r, s, T, n + 1)
      BY <1>1, <2>3, <2>4 DEF TakenFrom
    <3> QED
      BY <2>3, <3>1, <3>2 DEF Takes
  <2>5. CASE x \in T
    <3> DEFINE q == Append(r, x)
    <3>1. f[n + 1] = q
      BY <2>2, <2>5
    <3>2. /\ q \in Seq(X) /\ Len(q) = Len(r) + 1 /\ q[Len(r) + 1] = x
          /\ \A i \in 1..Len(r) : q[i] = r[i]
      BY <2>1, <2>3
    <3> HIDE DEF q, r
    <3>3. TakenFrom(q, s, T, n + 1)
      <4>1. ASSUME NEW i \in 1..Len(q)
            PROVE  q[i] \in T /\ \E k \in 1..(n + 1) : q[i] = s[k]
        <5>1. CASE i \in 1..Len(r)
          BY <2>3, <3>2, <5>1 DEF TakenFrom
        <5>2. CASE i = Len(r) + 1
          BY <1>4, <2>5, <3>2, <5>2
        <5> QED
          BY <2>3, <3>2, <5>1, <5>2
      <4>2. ASSUME NEW k \in 1..(n + 1), s[k] \in T
            PROVE  \E i \in 1..Len(q) : q[i] = s[k]
        <5>1. CASE k \in 1..n
          <6>1. PICK i \in 1..Len(r) : r[i] = s[k]
            BY <2>3, <4>2, <5>1 DEF TakenFrom
          <6> QED
            BY <2>3, <3>2, <6>1
        <5>2. CASE k = n + 1
          BY <2>3, <3>2, <5>2
        <5> QED
          BY <5>1, <5>2
      <4> QED
        BY <4>1, <4>2 DEF TakenFrom
    <3>4. StaysSorted(q, s, X)
      <4> SUFFICES ASSUME X \subseteq Int, Increasing(s), NEW i \in 1..Len(q), NEW j \in 1..Len(q), i < j
                   PROVE  q[i] < q[j]
        BY DEF StaysSorted, Increasing
      <4>1. i \in 1..Len(r)
        BY <2>3, <3>2
      <4>2. CASE j \in 1..Len(r)
        BY <2>3, <3>2, <4>1, <4>2 DEF StaysSorted, Increasing
      <4>3. CASE j = Len(r) + 1
        <5>1. PICK k \in 1..n : r[i] = s[k]
          BY <2>3, <4>1 DEF TakenFrom
        <5>2. s[k] < x
          BY <1>1, <5>1 DEF Increasing
        <5> QED
          BY <3>2, <4>1, <4>3, <5>1, <5>2
      <4> QED
        BY <2>3, <3>2, <4>2, <4>3
    <3> QED
      BY <3>1, <3>2, <3>3, <3>4 DEF Takes
  <2> QED
    BY <2>4, <2>5
<1>5. Len(s) \in S
  <2> HIDE DEF S
  <2> QED
    BY <1>1, <1>3, <1>4, NatInd
<1> QED
  BY <1>1, <1>2, <1>5 DEF Takes

\* A set of names, sorted.
LEMMA InOrderIsSorted ==
  ASSUME NEW S, S \subseteq Name
  PROVE  /\ InOrder(S) \in Seq(Name) /\ Increasing(InOrder(S))
         /\ {InOrder(S)[i] : i \in DOMAIN InOrder(S)} = S
<1> DEFINE all == [i \in Name |-> i]
           r == InOrder(S)
<1>1. all \in Seq(Name) /\ Len(all) = NumNames /\ Increasing(all) /\ \A i \in Name : all[i] = i
  <2>1. NumNames \in Nat
    BY UpdateAssumption
  <2>2. all \in [1..NumNames -> Name] /\ \A i \in Name : all[i] = i
    BY DEF Name
  <2>3. all \in Seq(Name) /\ Len(all) = NumNames
    <3> HIDE DEF all
    <3> QED
      BY <2>1, <2>2
  <2> HIDE DEF all
  <2> QED
    BY <2>2, <2>3 DEF Increasing, Name
<1>2. r = Only(all, S)
  BY DEF InOrder
<1> HIDE DEF all, r
<1>3. r \in Seq(Name) /\ TakenFrom(r, all, S, Len(all)) /\ StaysSorted(r, all, Name)
  BY <1>1, <1>2, OnlyTakes
<1>4. Increasing(r)
  BY <1>1, <1>3, UpdateAssumption DEF StaysSorted, Name
<1>5. Len(r) \in Nat /\ DOMAIN r = 1..Len(r)
  BY <1>3
<1>6. ASSUME NEW x \in S PROVE \E i \in DOMAIN r : r[i] = x
  BY <1>1, <1>3, <1>5, <1>6 DEF TakenFrom, Name
<1>7. \A i \in DOMAIN r : r[i] \in S
  BY <1>3, <1>5 DEF TakenFrom
<1> QED
  BY <1>3, <1>4, <1>6, <1>7 DEF r

\* The merge before its first step.
First == [dirIndex |-> 1, arcIndex |-> 1, pairs |-> <<>>]

\* The recursive function of UpdatePairs exists.
LEMMA MergeIsDefined ==
  ASSUME NEW dir \in Seq(Name), NEW arc \in Seq(Name)
  PROVE  \E f : /\ f = [k \in 0..(Len(dir) + Len(arc)) |->
                          IF k = 0 THEN First ELSE Merged(dir, arc, f[k - 1])]
                /\ UpdatePairs(dir, arc) = f[Len(dir) + Len(arc)].pairs
<1> DEFINE Body(f, k) == IF k = 0 THEN First ELSE Merged(dir, arc, f[k - 1])
           S == {n \in Nat : \E f : f = [k \in 0..n |-> Body(f, k)]}
<1>1. 0 \in S
  <2> DEFINE f == [k \in 0..0 |-> First]
  <2>1. f = [k \in 0..0 |-> Body(f, k)]
    OBVIOUS
  <2> QED
    BY <2>1
<1>2. ASSUME NEW n \in Nat, n \in S PROVE n + 1 \in S
  <2>1. PICK f : f = [k \in 0..n |-> Body(f, k)]
    BY <1>2
  <2> DEFINE last == Body(f, n + 1)
             g == [k \in 0..(n + 1) |-> IF k = n + 1 THEN last ELSE f[k]]
  <2>2. \A k \in 0..n : k \in 0..(n + 1) /\ k # n + 1 /\ g[k] = f[k]
    OBVIOUS
  <2>3. \A k \in 0..n : f[k] = Body(f, k)
    BY <2>1
  <2>4. n + 1 \in 0..(n + 1) /\ g[n + 1] = last
    OBVIOUS
  <2>5. ASSUME NEW k \in 0..(n + 1)
        PROVE  g[k] = Body(g, k)
    <3> HIDE DEF g
    <3>1. CASE k \in 0..n
      <4>1. k # 0 => g[k - 1] = f[k - 1]
        BY <2>2, <3>1
      <4>2. g[k] = Body(f, k)
        BY <2>2, <2>3, <3>1
      <4> QED
        BY <4>1, <4>2
    <3>2. CASE k = n + 1
      <4>1. k # 0 /\ k - 1 = n /\ n \in 0..n
        BY <1>2, <3>2
      <4>2. g[k - 1] = f[k - 1]
        BY <2>2, <4>1
      <4> QED
        BY <2>4, <3>2, <4>1, <4>2
    <3> QED
      BY <3>1, <3>2
  <2>6. g = [k \in 0..(n + 1) |-> Body(g, k)]
    <3>1. g = [k \in 0..(n + 1) |-> g[k]]
      OBVIOUS
    <3> HIDE DEF g
    <3> QED
      BY <2>5, <3>1
  <2> HIDE DEF g
  <2> QED
    BY <2>6
<1> DEFINE n == Len(dir) + Len(arc)
<1>3. n \in S
  <2>1. n \in Nat
    OBVIOUS
  <2> HIDE DEF S, n
  <2> QED
    BY <1>1, <1>2, <2>1, NatInd
<1>4. \E f : f = [k \in 0..n |-> Body(f, k)]
  BY <1>3
<1> DEFINE f == CHOOSE f : f = [k \in 0..n |-> Body(f, k)]
<1>5. f = [k \in 0..n |-> Body(f, k)]
  BY <1>4
<1>6. UpdatePairs(dir, arc) = f[n].pairs
  BY DEF UpdatePairs, First
<1> HIDE DEF f
<1> QED
  BY <1>5, <1>6

\* The state that a name of the two lists gets.
Occurs(n, s) == \E i \in 1..Len(s) : s[i] = n

MergedState(dir, arc, n) ==
  IF ~Occurs(n, dir) THEN ArcState(n) ELSE IF ~Occurs(n, arc) THEN 3 ELSE PairState(n)

\* What the merge has done when it has taken dirIndex - 1 and arcIndex - 1 names.
Bounds(dir, arc, m, k) ==
  /\ m.dirIndex \in 1..(Len(dir) + 1) /\ m.arcIndex \in 1..(Len(arc) + 1)
  /\ \/ m.dirIndex + m.arcIndex >= k + 2
     \/ m.dirIndex > Len(dir) /\ m.arcIndex > Len(arc)

\* What was taken of one list is before what is left of the other.
Apart(dir, arc, m) ==
  /\ \A i \in 1..Len(dir), j \in 1..Len(arc) : i < m.dirIndex /\ j >= m.arcIndex => dir[i] < arc[j]
  /\ \A i \in 1..Len(dir), j \in 1..Len(arc) : j < m.arcIndex /\ i >= m.dirIndex => arc[j] < dir[i]

\* A pair has a name of the lists, and its state.
Right(dir, arc, p) ==
  /\ p \in [name : Name, state : 1..7]
  /\ Occurs(p.name, dir) \/ Occurs(p.name, arc)
  /\ p.state = MergedState(dir, arc, p.name)

\* What was taken has a pair.
AllPaired(dir, arc, m) ==
  /\ \A i \in 1..Len(dir) : i < m.dirIndex => \E q \in 1..Len(m.pairs) : m.pairs[q].name = dir[i]
  /\ \A j \in 1..Len(arc) : j < m.arcIndex => \E q \in 1..Len(m.pairs) : m.pairs[q].name = arc[j]

Merging(dir, arc, m, k) ==
  /\ Bounds(dir, arc, m, k) /\ Apart(dir, arc, m)
  /\ m.pairs \in Seq([name : Name, state : 1..7])
  /\ \A q \in 1..Len(m.pairs) : Right(dir, arc, m.pairs[q])
  /\ AllPaired(dir, arc, m)

\* A step of the merge: while one list is ahead the other gives its names.
LEMMA MergedStep ==
  ASSUME NEW dir \in Seq(Name), NEW arc \in Seq(Name), Increasing(dir), Increasing(arc),
         in \in Inputs, \A i \in 1..Len(dir) : dir[i] \in OnDisk,
         NEW k \in Nat, NEW m, Merging(dir, arc, m, k)
  PROVE  Merging(dir, arc, Merged(dir, arc, m), k + 1)
<1> DEFINE d == m.dirIndex
           a == m.arcIndex
           fromDir == d <= Len(dir) /\ (a <= Len(arc) => dir[d] <= arc[a])
           fromArc == a <= Len(arc) /\ (d <= Len(dir) => arc[a] <= dir[d])
           name == IF fromDir THEN dir[d] ELSE arc[a]
           state == IF ~fromArc THEN 3 ELSE IF fromDir THEN PairState(name) ELSE ArcState(name)
           pair == [name |-> name, state |-> state]
           new == [dirIndex |-> IF fromDir THEN d + 1 ELSE d,
                   arcIndex |-> IF fromArc THEN a + 1 ELSE a,
                   pairs |-> Append(m.pairs, pair)]
<1>1. Merged(dir, arc, m) = IF fromDir \/ fromArc THEN new ELSE m
  BY DEF Merged
<1>2. /\ \A i \in 1..Len(dir) : dir[i] \in Name /\ dir[i] \in Int
      /\ \A j \in 1..Len(arc) : arc[j] \in Name /\ arc[j] \in Int
      /\ Len(dir) \in Nat /\ Len(arc) \in Nat
      /\ \A i, j \in 1..Len(dir) : i <= j => dir[i] <= dir[j]
      /\ \A i, j \in 1..Len(arc) : i <= j => arc[i] <= arc[j]
  <2>1. /\ \A i \in 1..Len(dir) : dir[i] \in Name /\ dir[i] \in Int
        /\ \A j \in 1..Len(arc) : arc[j] \in Name /\ arc[j] \in Int
        /\ Len(dir) \in Nat /\ Len(arc) \in Nat
    BY UpdateAssumption DEF Name
  <2>2. ASSUME NEW i \in 1..Len(dir), NEW j \in 1..Len(dir), i <= j PROVE dir[i] <= dir[j]
    BY <2>1, <2>2 DEF Increasing
  <2>3. ASSUME NEW i \in 1..Len(arc), NEW j \in 1..Len(arc), i <= j PROVE arc[i] <= arc[j]
    BY <2>1, <2>3 DEF Increasing
  <2> QED
    BY <2>1, <2>2, <2>3
<1>3. d \in 1..(Len(dir) + 1) /\ a \in 1..(Len(arc) + 1)
  BY DEF Merging, Bounds
<1>4. CASE ~fromDir /\ ~fromArc
  <2>1. d > Len(dir) /\ a > Len(arc)
    BY <1>2, <1>3, <1>4
  <2> QED
    BY <1>1, <1>4, <2>1 DEF Merging, Bounds
<1>5. CASE fromDir \/ fromArc
  <2>1. /\ name \in Name
        /\ Occurs(name, dir) <=> fromDir
        /\ Occurs(name, arc) <=> fromArc
    <3>1. Apart(dir, arc, m)
      BY DEF Merging
    <3>2. CASE fromDir
      <4>1. name = dir[d] /\ d \in 1..Len(dir)
        BY <1>3, <3>2
      <4>2. ASSUME NEW j \in 1..Len(arc), arc[j] = dir[d]
            PROVE  fromArc
        <5>1. j >= a
          <6> SUFFICES ASSUME j < a PROVE FALSE
            BY <1>3
          <6>1. arc[j] < dir[d]
            BY <1>3, <3>1, <4>1 DEF Apart
          <6> QED
            BY <1>2, <4>1, <4>2, <6>1
        <5>2. a \in 1..Len(arc) /\ arc[a] <= arc[j]
          BY <1>2, <1>3, <5>1
        <5> QED
          BY <1>2, <4>1, <4>2, <5>2
      <4>3. fromArc => a \in 1..Len(arc) /\ arc[a] = dir[d]
        BY <1>2, <1>3, <3>2, <4>1
      <4> HIDE DEF fromDir, fromArc, name, d, a
      <4> QED
        BY <1>2, <3>2, <4>1, <4>2, <4>3 DEF Occurs
    <3>3. CASE ~fromDir /\ fromArc
      <4>1. name = arc[a] /\ a \in 1..Len(arc)
        BY <1>3, <3>3
      <4>2. ASSUME NEW i \in 1..Len(dir), dir[i] = arc[a]
            PROVE  FALSE
        <5>1. i >= d
          <6> SUFFICES ASSUME i < d PROVE FALSE
            BY <1>3
          <6>1. dir[i] < arc[a]
            BY <1>3, <3>1, <4>1, SMTT(20) DEF Apart
          <6> QED
            BY <1>2, <4>1, <4>2, <6>1
        <5>2. d \in 1..Len(dir) /\ dir[d] <= dir[i]
          BY <1>2, <1>3, <5>1
        <5> QED
          BY <1>2, <3>3, <4>1, <4>2, <5>2
      <4> HIDE DEF fromDir, fromArc, name, d, a
      <4> QED
        BY <1>2, <3>3, <4>1, <4>2 DEF Occurs
    <3> QED
      BY <1>5, <3>2, <3>3
  <2>2. state \in 1..7 /\ state = MergedState(dir, arc, name)
    <3>1. fromDir => name \in OnDisk
      BY <1>3
    <3> HIDE DEF name, fromDir, fromArc
    <3>2. state = MergedState(dir, arc, name)
      BY <1>5, <2>1 DEF MergedState
    <3>3. fromDir => PairState(name) \in 1..7
      BY <2>1, <3>1 DEF PairState, OnDisk, Inputs, Kind
    <3>4. ArcState(name) \in 1..7
      BY DEF ArcState
    <3> QED
      BY <3>2, <3>3, <3>4
  <2>3. Right(dir, arc, pair)
    <3> HIDE DEF name, state, fromDir, fromArc
    <3> QED
      BY <1>5, <2>1, <2>2 DEF Right
  <2>4. Bounds(dir, arc, new, k + 1)
    <3>1. d + a >= k + 2 \/ (d > Len(dir) /\ a > Len(arc))
      BY DEF Merging, Bounds
    <3>2. fromDir => d + 1 \in 1..(Len(dir) + 1)
      BY <1>2, <1>3
    <3>3. fromArc => a + 1 \in 1..(Len(arc) + 1)
      BY <1>2, <1>3
    <3>4. d + a >= k + 2
      BY <1>2, <1>3, <1>5, <3>1
    <3> DEFINE e == new.dirIndex
               b == new.arcIndex
    <3>5. e = (IF fromDir THEN d + 1 ELSE d) /\ b = (IF fromArc THEN a + 1 ELSE a)
      OBVIOUS
    <3> HIDE DEF new, d, a, fromDir, fromArc
    <3>6. e \in 1..(Len(dir) + 1) /\ b \in 1..(Len(arc) + 1) /\ e + b >= (k + 1) + 2
      BY <1>2, <1>3, <1>5, <3>2, <3>3, <3>4, <3>5
    <3> QED
      BY <3>6 DEF Bounds
  <2>5. Apart(dir, arc, new)
    <3>1. Apart(dir, arc, m)
      BY DEF Merging
    <3>2. new.dirIndex = (IF fromDir THEN d + 1 ELSE d) /\ new.arcIndex = (IF fromArc THEN a + 1 ELSE a)
      OBVIOUS
    <3>3. ASSUME NEW i \in 1..Len(dir), NEW j \in 1..Len(arc), i < new.dirIndex, j >= new.arcIndex
          PROVE  dir[i] < arc[j]
      <4> HIDE DEF new
      <4>1. CASE i < d
        BY <1>2, <1>3, <3>1, <3>2, <3>3, <4>1 DEF Apart
      <4>2. CASE i = d /\ fromDir
        <5>1. a \in 1..Len(arc) /\ a <= j /\ dir[d] <= arc[a]
          BY <1>2, <1>3, <3>2, <3>3, <4>2
        <5>2. CASE fromArc
          <6>1. a < j
            BY <1>2, <1>3, <3>2, <3>3, <5>2
          <6> QED
            BY <1>2, <4>2, <5>1, <6>1 DEF Increasing
        <5>3. CASE ~fromArc
          <6>1. dir[d] < arc[a]
            BY <1>2, <1>3, <4>2, <5>1, <5>3
          <6>2. arc[a] <= arc[j]
            BY <1>2, <5>1
          <6> QED
            BY <1>2, <4>2, <5>1, <6>1, <6>2
        <5> QED
          BY <5>2, <5>3
      <4> QED
        BY <1>2, <1>3, <3>2, <3>3, <4>1, <4>2
    <3>4. ASSUME NEW i \in 1..Len(dir), NEW j \in 1..Len(arc), j < new.arcIndex, i >= new.dirIndex
          PROVE  arc[j] < dir[i]
      <4> HIDE DEF new
      <4>1. CASE j < a
        BY <1>2, <1>3, <3>1, <3>2, <3>4, <4>1 DEF Apart
      <4>2. CASE j = a /\ fromArc
        <5>1. d \in 1..Len(dir) /\ d <= i /\ arc[a] <= dir[d]
          BY <1>2, <1>3, <3>2, <3>4, <4>2
        <5>2. CASE fromDir
          <6>1. d < i
            BY <1>2, <1>3, <3>2, <3>4, <5>2
          <6> QED
            BY <1>2, <4>2, <5>1, <6>1 DEF Increasing
        <5>3. CASE ~fromDir
          <6>1. arc[a] < dir[d]
            BY <1>2, <1>3, <4>2, <5>1, <5>3
          <6>2. dir[d] <= dir[i]
            BY <1>2, <5>1
          <6> QED
            BY <1>2, <4>2, <5>1, <6>1, <6>2
        <5> QED
          BY <5>2, <5>3
      <4> QED
        BY <1>2, <1>3, <3>2, <3>4, <4>1, <4>2
    <3> HIDE DEF new
    <3> QED
      BY <3>3, <3>4 DEF Apart
  <2>6. /\ new.pairs \in Seq([name : Name, state : 1..7]) /\ Len(new.pairs) = Len(m.pairs) + 1
        /\ new.pairs[Len(m.pairs) + 1] = pair
        /\ \A q \in 1..Len(m.pairs) : new.pairs[q] = m.pairs[q]
        /\ Len(m.pairs) \in Nat
    <3>1. m.pairs \in Seq([name : Name, state : 1..7])
      BY DEF Merging
    <3>2. pair \in [name : Name, state : 1..7] /\ new.pairs = Append(m.pairs, pair)
      BY <2>3 DEF Right
    <3> HIDE DEF pair, new
    <3> QED
      BY <3>1, <3>2
  <2>7. \A q \in 1..Len(new.pairs) : Right(dir, arc, new.pairs[q])
    <3>1. \A q \in 1..Len(m.pairs) : Right(dir, arc, m.pairs[q])
      BY DEF Merging
    <3> HIDE DEF new, pair
    <3> QED
      BY <2>3, <2>6, <3>1
  <2>8. AllPaired(dir, arc, new)
    <3>1. AllPaired(dir, arc, m)
      BY DEF Merging
    <3>2. new.dirIndex = (IF fromDir THEN d + 1 ELSE d) /\ new.arcIndex = (IF fromArc THEN a + 1 ELSE a)
      OBVIOUS
    <3>3. fromDir => pair.name = dir[d]
      OBVIOUS
    <3>4. fromArc => pair.name = arc[a]
      BY <1>2, <1>3
    <3>5. \A q \in 1..Len(m.pairs) : q \in 1..Len(new.pairs)
      <4> HIDE DEF new
      <4> QED
        BY <2>6
    <3> HIDE DEF new, pair, fromDir, fromArc
    <3>6. ASSUME NEW i \in 1..Len(dir), i < new.dirIndex
          PROVE  \E q \in 1..Len(new.pairs) : new.pairs[q].name = dir[i]
      <4>1. CASE i < d
        <5>1. PICK q \in 1..Len(m.pairs) : m.pairs[q].name = dir[i]
          BY <3>1, <4>1 DEF AllPaired
        <5> QED
          BY <2>6, <3>5, <5>1
      <4>2. CASE i = d /\ fromDir
        <5>1. Len(m.pairs) + 1 \in 1..Len(new.pairs)
          BY <2>6
        <5>2. new.pairs[Len(m.pairs) + 1].name = dir[i]
          BY <2>6, <3>3, <4>2
        <5> QED
          BY <5>1, <5>2
      <4> QED
        BY <1>3, <3>2, <3>6, <4>1, <4>2
    <3>7. ASSUME NEW j \in 1..Len(arc), j < new.arcIndex
          PROVE  \E q \in 1..Len(new.pairs) : new.pairs[q].name = arc[j]
      <4>1. CASE j < a
        <5>1. PICK q \in 1..Len(m.pairs) : m.pairs[q].name = arc[j]
          BY <3>1, <4>1 DEF AllPaired
        <5> QED
          BY <2>6, <3>5, <5>1
      <4>2. CASE j = a /\ fromArc
        <5>1. Len(m.pairs) + 1 \in 1..Len(new.pairs)
          BY <2>6
        <5>2. new.pairs[Len(m.pairs) + 1].name = arc[j]
          BY <2>6, <3>4, <4>2
        <5> QED
          BY <5>1, <5>2
      <4> QED
        BY <1>3, <3>2, <3>7, <4>1, <4>2
    <3> QED
      BY <3>6, <3>7 DEF AllPaired
  <2>9. Merged(dir, arc, m) = new
    BY <1>1, <1>5
  <2> HIDE DEF new
  <2> QED
    BY <2>4, <2>5, <2>6, <2>7, <2>8, <2>9 DEF Merging
<1> QED
  BY <1>4, <1>5

\* Each name of the two lists has a pair, and its state.
PairsAreRight(dir, arc, pairs) ==
  /\ pairs \in Seq([name : Name, state : 1..7])
  /\ \A q \in 1..Len(pairs) : Right(dir, arc, pairs[q])
  /\ \A n \in Name : Occurs(n, dir) \/ Occurs(n, arc) =>
       \E q \in 1..Len(pairs) : pairs[q].name = n

\* What the merge returns, by induction on its steps.
LEMMA PairsOfNames ==
  ASSUME NEW dir \in Seq(Name), NEW arc \in Seq(Name), Increasing(dir), Increasing(arc),
         in \in Inputs, \A i \in 1..Len(dir) : dir[i] \in OnDisk
  PROVE  PairsAreRight(dir, arc, UpdatePairs(dir, arc))
<1> DEFINE pairs == UpdatePairs(dir, arc)
<1> DEFINE N == Len(dir) + Len(arc)
<1>1. Len(dir) \in Nat /\ Len(arc) \in Nat /\ N \in Nat
  OBVIOUS
<1>2. PICK f : /\ f = [k \in 0..N |-> IF k = 0 THEN First ELSE Merged(dir, arc, f[k - 1])]
               /\ UpdatePairs(dir, arc) = f[N].pairs
  BY MergeIsDefined
<1> HIDE DEF N, pairs
<1>3. f[0] = First /\ \A k \in 1..N : f[k] = Merged(dir, arc, f[k - 1])
  <2>1. \A k \in 0..N : f[k] = IF k = 0 THEN First ELSE Merged(dir, arc, f[k - 1])
    BY <1>2
  <2>2. 0 \in 0..N /\ \A k \in 1..N : k \in 0..N /\ k # 0
    BY <1>1
  <2> QED
    BY <2>1, <2>2
<1> DEFINE S == {k \in Nat : k <= N => Merging(dir, arc, f[k], k)}
<1>4. 0 \in S
  <2> DEFINE m == First
             none == m.pairs
  <2>1. m.dirIndex = 1 /\ m.arcIndex = 1 /\ none \in Seq([name : Name, state : 1..7]) /\ Len(none) = 0
    BY DEF First
  <2> HIDE DEF m
  <2>2. Merging(dir, arc, m, 0)
    <3>1. Bounds(dir, arc, m, 0)
      BY <1>1, <2>1 DEF Bounds
    <3>2. Apart(dir, arc, m)
      BY <2>1 DEF Apart
    <3> HIDE DEF none
    <3>3. \A q \in 1..Len(none) : Right(dir, arc, none[q])
      BY <2>1
    <3>4. AllPaired(dir, arc, m)
      BY <2>1 DEF AllPaired
    <3> QED
      BY <2>1, <3>1, <3>2, <3>3, <3>4 DEF Merging, none
  <2> QED
    BY <1>3, <2>2 DEF m
<1>5. ASSUME NEW k \in Nat, k \in S PROVE k + 1 \in S
  <2> SUFFICES ASSUME k + 1 <= N PROVE Merging(dir, arc, f[k + 1], k + 1)
    OBVIOUS
  <2>1. k <= N /\ k + 1 \in 1..N /\ (k + 1) - 1 = k
    BY <1>1
  <2>2. Merging(dir, arc, f[k], k)
    BY <1>5, <2>1, Zenon
  <2>3. f[k + 1] = Merged(dir, arc, f[k])
    BY <1>3, <2>1
  <2> HIDE DEF S
  <2> QED
    BY <2>2, <2>3, MergedStep
<1>6. N \in S
  <2> HIDE DEF S
  <2> QED
    BY <1>1, <1>4, <1>5, NatInd
<1> DEFINE m == f[N]
<1>7. Merging(dir, arc, m, N) /\ pairs = m.pairs
  BY <1>1, <1>2, <1>6 DEF pairs
<1> HIDE DEF m
<1>8. m.dirIndex > Len(dir) /\ m.arcIndex > Len(arc)
  BY <1>1, <1>7 DEF Merging, Bounds, N
<1>9. ASSUME NEW n \in Name, Occurs(n, dir) \/ Occurs(n, arc)
      PROVE  \E q \in 1..Len(pairs) : pairs[q].name = n
  <2>1. AllPaired(dir, arc, m)
    BY <1>7 DEF Merging
  <2>2. CASE Occurs(n, dir)
    <3>1. PICK i \in 1..Len(dir) : dir[i] = n
      BY <2>2 DEF Occurs
    <3>2. i < m.dirIndex
      BY <1>1, <1>8, <1>7 DEF Merging, Bounds
    <3> QED
      BY <1>7, <2>1, <3>1, <3>2 DEF AllPaired
  <2>3. CASE Occurs(n, arc)
    <3>1. PICK j \in 1..Len(arc) : arc[j] = n
      BY <2>3 DEF Occurs
    <3>2. j < m.arcIndex
      BY <1>1, <1>8, <1>7 DEF Merging, Bounds
    <3> QED
      BY <1>7, <2>1, <3>1, <3>2 DEF AllPaired
  <2> QED
    BY <1>9, <2>2, <2>3
<1> QED
  BY <1>7, <1>9 DEF Merging, PairsAreRight, pairs

\* What the scan has found.
Scanned ==
  IF \E i \in DOMAIN cmds : NeedScanning(cmds[i].set)
  THEN \E lost \in SUBSET OnDisk : lost \subseteq warned /\ dirItems = Sorted(OnDisk \ lost)
  ELSE dirItems = <<>>

\* What an action puts into the new archive.
Data(action, n) == CASE action = 1 -> archive.items[n]
                     [] action = 2 -> DiskData(archive.items, n)
                     [] OTHER -> Anti

\* The archive that the current command has to make.
Wanted == Manual(archive.items, cmds[ci].set)

\* The plan has an item of this name.
Planned(n, p) == \E i \in 1..Len(p) : p[i].name = n

\* A plan for what the manual wants of the names no warning was given for.
PlanIsRight(p) ==
  /\ \A i \in 1..Len(p) : p[i].action = 1 => p[i].name \in DOMAIN archive.items
  /\ \A i \in 1..Len(p) : p[i].name \notin warned =>
       p[i].name \in DOMAIN Wanted /\ Data(p[i].action, p[i].name) = Wanted[p[i].name]

\* A scan that passes TestDuplicateString is a sorted list of the names on disk.
LEMMA DirInOrder ==
  ASSUME Scanned, \A i \in 1..(Len(dirItems) - 1) : dirItems[i] # dirItems[i + 1]
  PROVE  /\ dirItems \in Seq(Name) /\ Increasing(dirItems)
         /\ \A i \in 1..Len(dirItems) : dirItems[i] \in OnDisk
         /\ IF \E i \in DOMAIN cmds : NeedScanning(cmds[i].set)
            THEN \A n \in OnDisk \ warned : Occurs(n, dirItems)
            ELSE \A n \in Name : ~Occurs(n, dirItems)
<1>1. CASE \E i \in DOMAIN cmds : NeedScanning(cmds[i].set)
  <2>1. PICK lost \in SUBSET OnDisk : lost \subseteq warned /\ dirItems = Sorted(OnDisk \ lost)
    BY <1>1 DEF Scanned
  <2> DEFINE S == OnDisk \ lost
             names == InOrder(S)
  <2>2. S \subseteq Name /\ S \subseteq OnDisk /\ \A n \in OnDisk \ warned : n \in S
    BY <2>1 DEF OnDisk
  <2> HIDE DEF S
  <2>3. names \in Seq(Name) /\ Increasing(names) /\ {names[i] : i \in DOMAIN names} = S
    BY <2>2, InOrderIsSorted
  <2>4. DOMAIN names = 1..Len(names)
    BY <2>3
  <2>5. dirItems = IF in.twice /\ S # {} THEN <<Head(names)>> \o names ELSE names
    BY <2>1 DEF Sorted, S
  <2> HIDE DEF names
  <2>6. dirItems = names
    <3> SUFFICES ASSUME in.twice, S # {} PROVE FALSE
      BY <2>5
    <3>1. Len(names) # 0
      BY <2>3, <2>4
    <3>2. Len(names) \in Nat /\ Head(names) = names[1] /\ Head(names) \in Name
      BY <2>3, <3>1
    <3> DEFINE h == Head(names)
               both == <<h>> \o names
    <3>3. Len(both) = Len(names) + 1 /\ both[1] = h /\ both[2] = names[1]
      <4>1. h \in Name
        BY <3>2
      <4> HIDE DEF h
      <4> QED
        BY <2>3, <3>1, <3>2, <4>1
    <3>4. dirItems = both
      BY <2>5
    <3> HIDE DEF both
    <3>5. 1 \in 1..(Len(dirItems) - 1) /\ dirItems[1] = dirItems[1 + 1]
      BY <3>1, <3>2, <3>3, <3>4
    <3> QED
      BY <3>5
  <2> QED
    BY <1>1, <2>2, <2>3, <2>4, <2>6 DEF Occurs
<1>2. CASE ~(\E i \in DOMAIN cmds : NeedScanning(cmds[i].set))
  <2>1. dirItems = <<>>
    BY <1>2 DEF Scanned
  <2>2. <<>> \in Seq(Name) /\ Len(<<>>) = 0
    OBVIOUS
  <2>3. dirItems \in Seq(Name) /\ Len(dirItems) = 0
    BY <2>1, <2>2
  <2> QED
    BY <1>2, <2>3 DEF Increasing, Occurs
<1> QED
  BY <1>1, <1>2

\* UpdateProduce: the action of each state, without what is ignored.
LEMMA ProducedOf ==
  ASSUME NEW pairs \in Seq([name : Name, state : 1..7]), NEW set \in ActionSet,
         NEW p, p = Produce(pairs, set)
  PROVE  /\ p \in Seq([name : Name, action : 1..3])
         /\ \A i \in 1..Len(p) : \E q \in 1..Len(pairs) :
              /\ p[i].name = pairs[q].name /\ p[i].action = set[pairs[q].state]
              /\ set[pairs[q].state] # 0
         /\ \A q \in 1..Len(pairs) : set[pairs[q].state] # 0 => Planned(pairs[q].name, p)
<1> DEFINE X == [name : Name, state : 1..7]
           T == {x \in X : set[x.state] # 0}
           c == Only(pairs, T)
           Of(x) == [name |-> x.name, action |-> set[x.state]]
<1>1. c \in Seq(X) /\ TakenFrom(c, pairs, T, Len(pairs))
  <2> HIDE DEF T, X
  <2> QED
    BY OnlyTakes DEF X
<1>2. p = [i \in DOMAIN c |-> Of(c[i])]
  BY DEF Produce
<1> HIDE DEF c
<1>3. Len(c) \in Nat /\ DOMAIN c = 1..Len(c) /\ \A i \in 1..Len(c) : c[i] \in X /\ c[i] \in T
  <2>1. Len(c) \in Nat /\ DOMAIN c = 1..Len(c)
    BY <1>1
  <2>2. \A i \in 1..Len(c) : c[i] \in T
    BY <1>1 DEF TakenFrom
  <2> QED
    BY <2>1, <2>2
<1>4. \A x \in T : Of(x) \in [name : Name, action : 1..3]
  BY DEF ActionSet
<1>5. p \in [1..Len(c) -> [name : Name, action : 1..3]]
  <2> DEFINE R == [name : Name, action : 1..3]
  <2>1. \A i \in 1..Len(c) : Of(c[i]) \in R
    BY <1>3, <1>4
  <2>2. DOMAIN p = 1..Len(c) /\ \A i \in 1..Len(c) : p[i] = Of(c[i])
    BY <1>2, <1>3
  <2>3. p = [i \in DOMAIN p |-> p[i]]
    BY <1>2
  <2> HIDE DEF R, Of
  <2>4. \A i \in 1..Len(c) : p[i] \in R
    BY <2>1, <2>2
  <2>5. p \in [1..Len(c) -> R]
    BY <2>2, <2>3, <2>4
  <2> QED
    BY <2>5 DEF R
<1>6. p \in Seq([name : Name, action : 1..3]) /\ Len(p) = Len(c)
  <2> DEFINE R == [name : Name, action : 1..3]
  <2>1. p \in [1..Len(c) -> R]
    BY <1>5
  <2> HIDE DEF R
  <2>2. p \in Seq(R) /\ Len(p) = Len(c)
    BY <1>3, <2>1
  <2> QED
    BY <2>2 DEF R
<1>7. \A i \in 1..Len(c) : p[i].name = c[i].name /\ p[i].action = set[c[i].state]
  BY <1>2, <1>3
<1>8. ASSUME NEW i \in 1..Len(p)
      PROVE  \E q \in 1..Len(pairs) : /\ p[i].name = pairs[q].name
                                      /\ p[i].action = set[pairs[q].state]
                                      /\ set[pairs[q].state] # 0
  <2>1. PICK q \in 1..Len(pairs) : c[i] = pairs[q]
    BY <1>1, <1>6 DEF TakenFrom
  <2>2. set[c[i].state] # 0
    BY <1>3, <1>6
  <2> QED
    BY <1>6, <1>7, <2>1, <2>2
<1>9. ASSUME NEW q \in 1..Len(pairs), set[pairs[q].state] # 0
      PROVE  Planned(pairs[q].name, p)
  <2>1. pairs[q] \in T
    <3>1. pairs[q] \in X
      <4> HIDE DEF X
      <4>1. pairs \in Seq(X)
        BY DEF X
      <4> QED
        BY <4>1
    <3> QED
      BY <1>9, <3>1
  <2>2. PICK i \in 1..Len(c) : c[i] = pairs[q]
    BY <1>1, <2>1 DEF TakenFrom
  <2> QED
    BY <1>6, <1>7, <2>2 DEF Planned
<1> QED
  BY <1>6, <1>8, <1>9

\* What UpdateArchive plans is what the manual's table asks for.
LEMMA ArrangedPlan ==
  ASSUME in \in Inputs, archive.items \in Contents, Scanned, ~Throws,
         ci \in DOMAIN cmds, cmds[ci].set \in ActionSet,
         NEW p, p = Produce(UpdatePairs(dirItems, InOrder(DOMAIN archive.items)), cmds[ci].set)
  PROVE  /\ p \in Seq([name : Name, action : 1..3]) /\ PlanIsRight(p)
         /\ \A n \in Name \ warned : n \in DOMAIN Wanted => Planned(n, p)
<1> DEFINE old == archive.items
           A == DOMAIN old
           arc == InOrder(A)
           pairs == UpdatePairs(dirItems, arc)
           set == cmds[ci].set
<1>1. A \subseteq Name
  BY DEF Contents
<1>2. /\ arc \in Seq(Name) /\ Increasing(arc)
      /\ \A n \in Name : Occurs(n, arc) <=> n \in A
  <2> HIDE DEF A
  <2>1. arc \in Seq(Name) /\ Increasing(arc) /\ {arc[i] : i \in DOMAIN arc} = A
    BY <1>1, InOrderIsSorted
  <2>2. DOMAIN arc = 1..Len(arc)
    BY <2>1
  <2> HIDE DEF arc
  <2> QED
    BY <2>1, <2>2 DEF Occurs
<1>3. /\ dirItems \in Seq(Name) /\ Increasing(dirItems)
      /\ \A i \in 1..Len(dirItems) : dirItems[i] \in OnDisk
      /\ IF \E i \in DOMAIN cmds : NeedScanning(cmds[i].set)
         THEN \A n \in OnDisk \ warned : Occurs(n, dirItems)
         ELSE \A n \in Name : ~Occurs(n, dirItems)
  <2>1. \A i \in 1..(Len(dirItems) - 1) : dirItems[i] # dirItems[i + 1]
    BY DEF Throws
  <2> QED
    BY <2>1, DirInOrder
<1>4. /\ pairs \in Seq([name : Name, state : 1..7])
      /\ \A q \in 1..Len(pairs) : Right(dirItems, arc, pairs[q])
      /\ \A n \in Name : Occurs(n, dirItems) \/ Occurs(n, arc) =>
           \E q \in 1..Len(pairs) : pairs[q].name = n
  <2>1. pairs = UpdatePairs(dirItems, arc)
    OBVIOUS
  <2>2. /\ arc \in Seq(Name) /\ Increasing(arc) /\ dirItems \in Seq(Name) /\ Increasing(dirItems)
        /\ \A i \in 1..Len(dirItems) : dirItems[i] \in OnDisk
    BY <1>2, <1>3
  <2> HIDE DEF arc, pairs
  <2> QED
    BY <2>1, <2>2, PairsOfNames DEF PairsAreRight
<1>5. /\ p \in Seq([name : Name, action : 1..3])
      /\ \A i \in 1..Len(p) : \E q \in 1..Len(pairs) :
           /\ p[i].name = pairs[q].name /\ p[i].action = set[pairs[q].state]
           /\ set[pairs[q].state] # 0
      /\ \A q \in 1..Len(pairs) : set[pairs[q].state] # 0 => Planned(pairs[q].name, p)
  <2>1. p = Produce(pairs, set)
    OBVIOUS
  <2> HIDE DEF pairs, set
  <2> QED
    BY <1>4, <2>1, ProducedOf DEF set
<1>6. /\ \A i \in DOMAIN dirItems : dirItems[i] \notin A \/ in.masked[dirItems[i]]
      /\ \A q \in DOMAIN pairs : /\ ~(pairs[q].state = 3 /\ set[3] = 1)
                                 /\ ~(pairs[q].state < 3 /\ set[pairs[q].state] = 2)
  BY DEF Throws
<1>7. \A q \in 1..Len(pairs) : q \in DOMAIN pairs /\ pairs[q] \in [name : Name, state : 1..7]
  <2> DEFINE X == [name : Name, state : 1..7]
  <2>1. pairs \in Seq(X)
    BY <1>4
  <2> HIDE DEF pairs, X
  <2>2. \A q \in 1..Len(pairs) : q \in DOMAIN pairs /\ pairs[q] \in X
    BY <2>1
  <2> QED
    BY <2>2 DEF X
<1>8. \A n \in Name : Occurs(n, dirItems) => n \in OnDisk /\ (n \notin A \/ in.masked[n])
  <2>1. DOMAIN dirItems = 1..Len(dirItems)
    BY <1>3
  <2> HIDE DEF A
  <2> QED
    BY <1>3, <1>6, <2>1 DEF Occurs
<1>9. ASSUME NEW n \in Name \ warned
      PROVE  /\ Occurs(n, dirItems) \/ n \in A =>
                  set[MergedState(dirItems, arc, n)] = set[ManualState(old, n)]
             /\ n \in DOMAIN Wanted => Occurs(n, dirItems) \/ n \in A
             /\ n \in DOMAIN Wanted <=> n \in A \cup OnDisk /\ set[ManualState(old, n)] # 0
  <2>1. n \in DOMAIN Wanted <=> n \in A \cup OnDisk /\ set[ManualState(old, n)] # 0
    BY DEF Wanted, Manual
  <2>2. in.kind[n] \in Kind /\ (n \in OnDisk <=> in.kind[n] # "absent")
    BY DEF Inputs, OnDisk
  <2> HIDE DEF A
  <2>3. ManualState(old, n) = IF n \notin A THEN 3
          ELSE IF ~in.masked[n] THEN 1
          ELSE CASE in.kind[n] = "absent" -> 2 [] in.kind[n] = "older" -> 4
                 [] in.kind[n] = "newer" -> 5 [] in.kind[n] = "same" -> 6
                 [] in.kind[n] = "unclear" -> 7
    BY DEF ManualState, A
  <2>4. CASE Occurs(n, dirItems)
    <3>1. n \in OnDisk /\ (n \notin A \/ in.masked[n])
      BY <1>8, <2>4
    <3>2. MergedState(dirItems, arc, n) = ManualState(old, n)
      BY <1>2, <2>2, <2>3, <2>4, <3>1 DEF MergedState, PairState, Kind
    <3> QED
      BY <2>1, <2>4, <3>2
  <2>5. CASE ~Occurs(n, dirItems) /\ \E i \in DOMAIN cmds : NeedScanning(cmds[i].set)
    <3>1. n \notin OnDisk
      BY <1>3, <2>5
    <3>2. n \in A => MergedState(dirItems, arc, n) = ManualState(old, n)
      BY <1>2, <2>2, <2>3, <2>5, <3>1 DEF MergedState, ArcState
    <3> QED
      BY <2>1, <2>5, <3>1, <3>2
  <2>6. CASE ~Occurs(n, dirItems) /\ ~\E i \in DOMAIN cmds : NeedScanning(cmds[i].set)
    <3>1. ~NeedScanning(set)
      BY <2>6
    <3> HIDE DEF set
    <3>2. \A i \in 2..7 : set[i] = 0
      BY <3>1 DEF NeedScanning
    <3>3. n \in A => set[MergedState(dirItems, arc, n)] = set[ManualState(old, n)]
      BY <1>2, <2>2, <2>3, <2>6, <3>2 DEF MergedState, ArcState, Kind
    <3>4. n \in DOMAIN Wanted => n \in A
      BY <2>1, <2>3, <3>2
    <3> QED
      BY <2>1, <2>6, <3>3, <3>4
  <2> QED
    BY <2>4, <2>5, <2>6
<1>10. PlanIsRight(p)
  <2>1. ASSUME NEW i \in 1..Len(p), p[i].action = 1
        PROVE  p[i].name \in A
    <3>1. PICK q \in 1..Len(pairs) : p[i].name = pairs[q].name /\ p[i].action = set[pairs[q].state]
      BY <1>5
    <3> DEFINE pair == pairs[q]
    <3>2. pair.state # 3 /\ Right(dirItems, arc, pair) /\ pair.name \in Name
      BY <1>4, <1>6, <1>7, <2>1, <3>1
    <3> HIDE DEF pair, A, arc
    <3>3. pair.name \in A
      BY <1>2, <3>2 DEF Right, MergedState
    <3> QED
      BY <3>1, <3>3 DEF pair
  <2>2. ASSUME NEW i \in 1..Len(p), p[i].name \notin warned
        PROVE  p[i].name \in DOMAIN Wanted /\ Data(p[i].action, p[i].name) = Wanted[p[i].name]
    <3>1. PICK q \in 1..Len(pairs) : /\ p[i].name = pairs[q].name
                                     /\ p[i].action = set[pairs[q].state]
                                     /\ set[pairs[q].state] # 0
      BY <1>5
    <3> DEFINE pair == pairs[q]
    <3>2. Right(dirItems, arc, pair) /\ pair.name \in Name \ warned
      BY <1>4, <1>7, <2>2, <3>1
    <3> DEFINE n == pair.name
    <3>3. n = p[i].name /\ p[i].action = set[pair.state] /\ set[pair.state] # 0
      BY <3>1
    <3> HIDE DEF pair, A, arc, set
    <3>4. (Occurs(n, dirItems) \/ n \in A) /\ pair.state = MergedState(dirItems, arc, n)
      BY <1>2, <3>2 DEF Right
    <3>5. p[i].action = set[ManualState(old, n)] /\ n \in DOMAIN Wanted
      BY <1>8, <1>9, <3>2, <3>3, <3>4
    <3>6. Wanted[n] = Data(set[ManualState(old, n)], n)
      BY <3>5 DEF Wanted, Manual, Data, set
    <3> QED
      BY <3>3, <3>5, <3>6
  <2> QED
    BY <2>1, <2>2 DEF PlanIsRight
<1>11. ASSUME NEW n \in Name \ warned, n \in DOMAIN Wanted
       PROVE  Planned(n, p)
  <2>1. Occurs(n, dirItems) \/ Occurs(n, arc)
    BY <1>2, <1>9, <1>11
  <2>2. PICK q \in 1..Len(pairs) : pairs[q].name = n
    BY <1>4, <2>1
  <2> DEFINE pair == pairs[q]
  <2>3. Right(dirItems, arc, pair) /\ pair.name = n
    BY <1>4, <2>2
  <2> HIDE DEF pair, arc, A, set
  <2>4. pair.state = MergedState(dirItems, arc, n)
    BY <1>2, <2>3 DEF Right
  <2>5. set[pair.state] # 0
    BY <1>2, <1>9, <1>11, <2>1, <2>4
  <2> QED
    BY <1>5, <2>2, <2>5 DEF pair
<1> QED
  BY <1>5, <1>10, <1>11
-----------------------------------------------------------------------------
(* What a run makes of the archive                                         *)

\* The files, the opened archive and the items have their types.
DataOK ==
  /\ files \in [Path -> File] /\ archive \in File /\ in \in Inputs
  /\ cmds \in CommandLists \cup {<<>>}
  /\ plan \in Seq([name : Name, action : 1..3]) /\ written \in Contents

\* When a run begins the files are remembered.
BeforeOK == before \in [Path -> File]

ScannedOK ==
  /\ pc \in {"open", "scan"} => dirItems = <<>>
  /\ pc \in {"check", "create", "item"} => Scanned

\* What is written and what is still planned is together what the manual wants.
PlanOK ==
  pc = "item" =>
    /\ PlanIsRight(plan)
    /\ \A n \in Name \ warned :
         /\ n \in DOMAIN written => n \in DOMAIN Wanted /\ written[n] = Wanted[n]
         /\ n \in DOMAIN Wanted => n \in DOMAIN written \/ Planned(n, plan)

\* A command has one file; it is not whole before it is closed.
OneTemp ==
  /\ \A p, q \in made \ Named : p = q
  /\ made \ Named # {} => CreateTempFile
  /\ \A p \in made \cap Named : \E i \in DOMAIN cmds : p = cmds[i].dest
  /\ pc = "item" => files[OutPath].state = "partial"

\* The new archive is what the manual wants, and counts as a copy to be kept.
TempDone ==
  /\ CreateTempFile /\ files[Temp].state = "whole"
  /\ Matches(files[Temp].items, archive.items, cmds[1].set)
  /\ kept # {} => files[Temp].items \in kept

TempIsWanted ==
  \/ pc \in {"create", "item", "leave"} /\ CreateTempFile /\ (ci > 1 \/ pc = "leave")
  \/ pc \in Replacing
  => TempDone

\* The temporary file goes when its copy has its contents.
CopyIsDone == pc = "unlink" /\ ~ShortWrites => files["arc"] = files[Temp]

\* The archives of the commands that are done.
Done(i) == /\ files[cmds[i].dest].state = "whole"
           /\ Matches(files[cmds[i].dest].items, archive.items, cmds[i].set)

DoneDests ==
  \A i \in DOMAIN cmds :
    /\ (pc \in {"create", "item"} /\ i < ci) \/ pc = "leave" \/ pc \in Replacing
    /\ i > 1 \/ ~CreateTempFile
    /\ pc \in Listed \/ cmds[i].dest # "arc"
    => Done(i)

\* A whole file with contents that had to survive.
KeptFile(p) == files[p].state = "whole" /\ files[p].items \in kept

\* Until Paths.Clear the copy that is kept is no file of this run.
Survives ==
  kept # {} /\ ~ShortWrites =>
    /\ pc \in Listed => \E p \in Path \ made : KeptFile(p)
    /\ pc \in {"idle", "done"} => \E p \in Path : KeptFile(p)

\* No command line names the archive it updates again for another of its commands.
NotTwice ==
  \A list \in CommandLists : \A i \in 2..Len(list) : list[i].dest # list[1].dest

\* What holds when the program ends.
Ends ==
  pc = "done" => /\ exit = 2 => FailureChangesNothing
                 /\ exit # 2 /\ ~ShortWrites /\ NotTwice => SuccessMatchesManual

\* The inductive invariant.
KeptInv == /\ DataOK /\ BeforeOK /\ ScannedOK /\ PlanOK /\ OneTemp /\ TempIsWanted
           /\ CopyIsDone /\ DoneDests /\ Survives /\ Ends

\* What the manual wants depends on the disk and the archive only.
LEMMA SameManual ==
  ASSUME in' = in, NEW old, NEW set
  PROVE  Manual(old, set)' = Manual(old, set)
BY DEF Manual, ManualState, DiskData, OnDisk

\* A warning more, and what matched still matches.
LEMMA StillMatches ==
  ASSUME in' = in, warned \subseteq warned', NEW c, NEW old, NEW set, Matches(c, old, set)
  PROVE  Matches(c, old, set)'
<1>1. Manual(old, set)' = Manual(old, set)
  BY SameManual
<1>2. \A n \in Name \ warned' : n \in Name \ warned
  OBVIOUS
<1> QED
  BY <1>1, <1>2 DEF Matches

\* An archive that is done stays done while nobody writes to it.
LEMMA DoneStays ==
  ASSUME NEW i, Done(i), in' = in, warned \subseteq warned', UNCHANGED <<cmds, archive>>,
         files'[cmds[i].dest] = files[cmds[i].dest]
  PROVE  Done(i)'
<1>1. PICK c : c = files[cmds[i].dest].items
  OBVIOUS
<1>2. PICK old : old = archive.items
  OBVIOUS
<1>3. PICK set : set = cmds[i].set
  OBVIOUS
<1>4. Matches(c, old, set)
  BY <1>1, <1>2, <1>3 DEF Done
<1>5. Matches(c, old, set)'
  BY <1>4, StillMatches
<1>6. c = (files[cmds[i].dest].items)' /\ old = archive'.items /\ set = cmds'[i].set
  BY <1>1, <1>2, <1>3
<1>7. Matches(files[cmds[i].dest].items, archive.items, cmds[i].set)'
  BY <1>5, <1>6
<1> QED
  BY <1>7 DEF Done

\* So does the temporary file.
LEMMA TempStays ==
  ASSUME TempDone, in' = in, warned \subseteq warned', UNCHANGED <<cmds, archive, place>>,
         Temp' = Temp, files'[Temp] = files[Temp], kept \subseteq kept', kept = {} => kept' = {}
  PROVE  TempDone'
<1>1. PICK c : c = files[Temp].items
  OBVIOUS
<1>2. PICK old : old = archive.items
  OBVIOUS
<1>3. PICK set : set = cmds[1].set
  OBVIOUS
<1>4. Matches(c, old, set)
  BY <1>1, <1>2, <1>3 DEF TempDone
<1>5. Matches(c, old, set)'
  BY <1>4, StillMatches
<1>6. c = (files[Temp].items)' /\ old = archive'.items /\ set = cmds'[1].set
  BY <1>1, <1>2, <1>3
<1>7. Matches(files[Temp].items, archive.items, cmds[1].set)'
  BY <1>5, <1>6
<1>8. CreateTempFile'
  BY DEF TempDone, CreateTempFile, UpdateArchiveItself, IsOpen
<1> QED
  BY <1>1, <1>6, <1>7, <1>8 DEF TempDone

\* The one temporary file.
LEMMA TheTemp ==
  ASSUME NEW m, NEW t \in m \ Named, \A p, q \in m \ Named : p = q
  PROVE  (CHOOSE p \in m : p \notin {"arc", "other"}) = t
BY DEF Named

\* Missing, partial and whole files.
LEMMA FileTypes ==
  /\ Empty \in Contents /\ NoFile \in File /\ Partial \in File
  /\ \A c \in Contents : Whole(c) \in File
  /\ \A f \in File : f.items \in Contents
<1>1. Empty \in Contents
  <2>1. Empty \in [{} -> Version \cup {Anti}]
    BY DEF Empty
  <2> QED
    BY <2>1 DEF Contents
<1>2. NoFile \in File /\ Partial \in File /\ \A c \in Contents : Whole(c) \in File
  BY DEF File
<1>3. ASSUME NEW f \in File PROVE f.items \in Contents
  <2>1. NoFile.items = Empty /\ Partial.items = Empty /\ \A c \in Contents : Whole(c).items = c
    BY DEF NoFile, Partial, Whole
  <2> QED
    BY <1>1, <2>1 DEF File
<1> QED
  BY <1>1, <1>2, <1>3

LEMMA InitKept == Init => KeptInv
<1> SUFFICES ASSUME Init PROVE KeptInv
  OBVIOUS
<1>1. InitialFile \subseteq File
  <2>1. ASSUME NEW S \in SUBSET Name PROVE [n \in S |-> 1] \in Contents
    <3>1. [n \in S |-> 1] \in [S -> Version \cup {Anti}]
      BY DEF Version
    <3> QED
      BY <3>1 DEF Contents
  <2> QED
    BY <2>1, FileTypes DEF InitialFile
<1>2. files \in [Path -> File]
  BY <1>1, FileTypes DEF Init
<1>3. in \in Inputs
  BY DEF Init, Inputs, Kind
<1>4. plan \in Seq([name : Name, action : 1..3])
  <2> <<>> \in Seq([name : Name, action : 1..3])
    OBVIOUS
  <2> QED
    BY DEF Init
<1>5. DataOK
  BY <1>2, <1>3, <1>4, FileTypes DEF Init, DataOK
<1>6. before \in [Path -> File]
  BY <1>2 DEF Init
<1> QED
  BY <1>5, <1>6 DEF Init, KeptInv, BeforeOK, ScannedOK, PlanOK, OneTemp, TempIsWanted,
     Replacing, CopyIsDone, DoneDests, Survives, Ends, Listed

\* An error before Paths.Clear removes what was made, a later one nothing.
LEMMA ReturnKept ==
  ASSUME OwnInv, KeptInv, Return(2), pc \in Listed \cup Replacing
  PROVE  KeptInv'
<1> USE DEF OwnInv, KeptInv
<1>1. /\ pc' = "done" /\ exit' = 2
      /\ files' = [p \in Path |-> IF p \in paths THEN NoFile ELSE files[p]]
      /\ UNCHANGED <<place, in, cmds, before, ci, archive, plan, written, warned, made, kept>>
  BY DEF Return, run
<1>2. DataOK' /\ BeforeOK' /\ ScannedOK' /\ PlanOK' /\ CopyIsDone' /\ TempIsWanted' /\ DoneDests'
  <2>1. files' \in [Path -> File]
    BY <1>1, FileTypes DEF DataOK
  <2> QED
    BY <1>1, <2>1 DEF DataOK, BeforeOK, ScannedOK, PlanOK, CopyIsDone, TempIsWanted,
       DoneDests, Replacing, Listed
<1>3. OneTemp'
  BY <1>1 DEF OneTemp, CreateTempFile, UpdateArchiveItself, IsOpen
<1>4. CASE pc \in Listed
  <2>1. paths = made /\ \A p \in Path \ made : files'[p] = files[p] /\ files[p] = before[p]
    BY <1>1, <1>4 DEF MadeIsNew, OthersKept, Listed
  <2>2. \A p \in made : files'[p] = before[p]
    BY <1>1, <2>1 DEF MadeIsNew
  <2>3. files' = before
    BY <1>1, <2>1, <2>2 DEF BeforeOK
  <2>4. Survives'
    BY <1>1, <1>4, <2>1 DEF Survives, KeptFile, Listed
  <2>5. Ends'
    BY <1>1, <2>3 DEF Ends, FailureChangesNothing
  <2> QED
    BY <1>2, <1>3, <2>4, <2>5
<1>5. CASE pc \in Replacing
  <2>1. paths = {} /\ files' = files
    BY <1>1, <1>5 DEF MadeIsNew, DataOK
  <2>2. Temp \in made \ Named /\ Temp \in Path
    BY <1>5 DEF Temp, TempIsWhole, Named, MadeIsNew
  <2>3. TempDone
    BY <1>5 DEF TempIsWanted
  <2>4. Survives'
    BY <1>1, <1>5, <2>1, <2>2, <2>3 DEF Survives, KeptFile, TempDone, Listed
  <2>5. Temp' = Temp
    BY <1>1 DEF Temp
  <2>6. TempDone'
    BY <1>1, <2>1, <2>3, <2>5, TempStays
  <2>7. FailureChangesNothing'
    BY <1>1, <2>2, <2>5, <2>6 DEF TempDone, FailureChangesNothing, Named
  <2> QED
    BY <1>1, <1>2, <1>3, <2>4, <2>7 DEF Ends
<1> QED
  BY <1>4, <1>5

\* What survived the last run is what has to survive this one.
LEMMA StartKept == ASSUME OwnInv, KeptInv, Start PROVE KeptInv'
<1> USE DEF OwnInv, KeptInv
<1>1. /\ pc \in {"idle", "done"} /\ pc' = "open" /\ ci' = 1 /\ made' = {} /\ before' = files
      /\ files' = files /\ archive' = NoFile /\ written' = Empty /\ plan' = <<>> /\ dirItems' = <<>>
      /\ kept' = IF files["arc"].state = "whole" THEN {files["arc"].items} ELSE kept
  BY DEF Start
<1>2. in' \in Inputs
  BY UpdateAssumption DEF Start, Relevant
<1>3. plan' \in Seq([name : Name, action : 1..3])
  <2> <<>> \in Seq([name : Name, action : 1..3])
    OBVIOUS
  <2> QED
    BY <1>1
<1>4. DataOK' /\ BeforeOK'
  <2>1. cmds' \in CommandLists
    BY DEF Start
  <2> QED
    BY <1>1, <1>2, <1>3, <2>1, FileTypes DEF DataOK, BeforeOK
<1>5. Survives'
  <2> SUFFICES ASSUME kept' # {}, ~ShortWrites
               PROVE  \E p \in Path : files[p].state = "whole" /\ files[p].items \in kept'
    BY <1>1 DEF Survives, KeptFile
  <2>1. "arc" \in Path
    BY DEF Path
  <2> QED
    BY <1>1, <2>1 DEF Survives, KeptFile
<1>6. cmds' \in Seq([dest : Named, set : ActionSet])
  BY UpdateAssumption DEF Start, Named
<1> QED
  BY <1>1, <1>4, <1>5, <1>6 DEF ScannedOK, PlanOK, OneTemp, TempIsWanted, CopyIsDone,
     DoneDests, Ends, Replacing

\* SIGKILL leaves the old archive, or the temporary file, or its copy.
LEMMA KilledKept == ASSUME OwnInv, KeptInv, Killed PROVE KeptInv'
<1> USE DEF OwnInv, KeptInv
<1>1. /\ pc \notin {"idle", "done"} /\ pc' = "idle" /\ made' = {} /\ archive' = NoFile
      /\ written' = Empty /\ plan' = <<>> /\ UNCHANGED <<files, in, cmds, before, kept>>
  BY DEF Killed, run
<1>2. plan' \in Seq([name : Name, action : 1..3])
  <2> <<>> \in Seq([name : Name, action : 1..3])
    OBVIOUS
  <2> QED
    BY <1>1
<1>3. DataOK' /\ BeforeOK'
  BY <1>1, <1>2, FileTypes DEF DataOK, BeforeOK
<1>4. Survives'
  <2> SUFFICES ASSUME kept # {}, ~ShortWrites PROVE \E p \in Path : KeptFile(p)
    BY <1>1 DEF Survives, KeptFile, Listed
  <2>1. CASE pc \in Listed
    BY <2>1 DEF Survives
  <2>2. CASE pc \in Replacing
    <3>1. Temp \in Path
      BY <2>2 DEF Temp, TempIsWhole, Named, MadeIsNew
    <3> QED
      BY <2>2, <3>1 DEF TempIsWanted, TempDone, KeptFile
  <2> QED
    BY <1>1, <2>1, <2>2 DEF PcOK
<1> QED
  BY <1>1, <1>3, <1>4 DEF ScannedOK, PlanOK, OneTemp, TempIsWanted, CopyIsDone,
     DoneDests, Ends, Replacing

\* arcLink.Open2
LEMMA OpenKept == ASSUME OwnInv, KeptInv, Open PROVE KeptInv'
<1> USE DEF OwnInv, KeptInv
<1>1. /\ pc = "open" /\ pc' = "scan" /\ archive' = files["arc"]
      /\ UNCHANGED <<files, place, in, cmds, before, ci, dirItems, plan, written, warned, made, kept>>
  BY DEF Open, run
<1>2. DataOK' /\ BeforeOK'
  BY <1>1 DEF DataOK, BeforeOK, Path
<1>3. OneTemp'
  BY <1>1 DEF CommandsOK, OneTemp
<1> QED
  BY <1>1, <1>2, <1>3 DEF ScannedOK, PlanOK, TempIsWanted, CopyIsDone,
     DoneDests, Ends, Replacing, Survives, KeptFile, Listed

\* EnumerateItems
LEMMA ScanKept == ASSUME OwnInv, KeptInv, Scan PROVE KeptInv'
<1> USE DEF OwnInv, KeptInv
<1>1. /\ pc = "scan" /\ pc' = "check" /\ dirItems = <<>>
      /\ UNCHANGED <<files, place, in, cmds, before, ci, archive, plan, written, made, kept>>
  BY DEF Scan, run, ScannedOK
<1>2. Scanned'
  <2>1. CASE \E i \in DOMAIN cmds : NeedScanning(cmds[i].set)
    <3>1. PICK lost \in SUBSET OnDisk : dirItems' = Sorted(OnDisk \ lost) /\ warned' = lost
      BY <2>1 DEF Scan
    <3>2. OnDisk' = OnDisk
      BY <1>1 DEF OnDisk
    <3>3. Sorted(OnDisk \ lost)' = Sorted(OnDisk \ lost)
      BY <1>1, <3>2 DEF Sorted
    <3> QED
      BY <1>1, <2>1, <3>1, <3>2, <3>3 DEF Scanned
  <2>2. CASE ~\E i \in DOMAIN cmds : NeedScanning(cmds[i].set)
    BY <1>1, <2>2 DEF Scan, Scanned
  <2> QED
    BY <2>1, <2>2
<1>3. DataOK' /\ BeforeOK' /\ OneTemp'
  BY <1>1 DEF DataOK, BeforeOK, CommandsOK, OneTemp
<1> QED
  BY <1>1, <1>2, <1>3 DEF ScannedOK, PlanOK, TempIsWanted, CopyIsDone,
     DoneDests, Ends, Replacing, Survives, KeptFile, Listed

\* The tests for files that are there already.
LEMMA CheckKept == ASSUME OwnInv, KeptInv, Check, ~Return(2) PROVE KeptInv'
<1> USE DEF OwnInv, KeptInv
<1>1. /\ pc = "check" /\ pc' = IF cmds = <<>> THEN "leave" ELSE "create"
      /\ UNCHANGED <<files, place, in, cmds, before, ci, archive, dirItems, plan, written, warned, made, kept>>
  BY DEF Check, run
<1>2. DataOK' /\ BeforeOK'
  BY <1>1 DEF DataOK, BeforeOK
<1>3. ci = 1 /\ made = {}
  BY <1>1 DEF CommandsOK
<1>4. ScannedOK'
  BY <1>1 DEF ScannedOK, Scanned, Sorted, OnDisk
<1>5. cmds = <<>> => DOMAIN cmds = {} /\ ~CreateTempFile'
  BY <1>1 DEF CreateTempFile, UpdateArchiveItself
<1>6. \A i \in DOMAIN cmds : ~(i < ci)
  BY <1>3 DEF CommandsOK
<1>7. DoneDests'
  BY <1>1, <1>3, <1>5, <1>6 DEF DoneDests, Replacing
<1>8. TempIsWanted'
  BY <1>1, <1>3, <1>5 DEF TempIsWanted, Replacing
<1> QED
  BY <1>1, <1>2, <1>3, <1>4, <1>7, <1>8 DEF PlanOK, CopyIsDone, OneTemp,
     Ends, Survives, KeptFile, Listed

\* GetUpdatePairInfoList, UpdateProduce and the new file.
LEMMA CreateKept == ASSUME OwnInv, KeptInv, Create PROVE KeptInv'
<1> USE DEF OwnInv, KeptInv
<1>1. PICK p \in OutPaths : /\ files' = [files EXCEPT ![p] = Partial]
                            /\ made' = made \cup {p}
                            /\ paths' = paths \cup {p}
  BY DEF Create, Remember
<1>2. /\ pc = "create" /\ pc' = "item" /\ ~Throws /\ written' = Empty
      /\ plan' = Produce(UpdatePairs(dirItems, InOrder(DOMAIN archive.items)), cmds[ci].set)
      /\ UNCHANGED <<place, in, cmds, before, ci, archive, dirItems, warned, kept>>
  BY DEF Create, run, Arrange
<1>3. p \in Path /\ ~Has(p) /\ IF IsTemp THEN p \notin Named ELSE p = cmds[ci].dest
  BY <1>2, FreePath
<1>4. ci \in DOMAIN cmds /\ cmds[ci].set \in ActionSet
  <2> DEFINE Command == [dest : Named, set : ActionSet]
  <2>1. cmds \in Seq(Command) /\ ci \in DOMAIN cmds
    BY <1>2 DEF CommandsOK
  <2>2. cmds[ci] \in Command
    <3> HIDE DEF Command
    <3> QED
      BY <2>1
  <2> QED
    BY <2>1, <2>2
<1>5. in \in Inputs /\ archive.items \in Contents /\ Scanned
  BY <1>2, FileTypes DEF DataOK, ScannedOK
<1>6. /\ plan' \in Seq([name : Name, action : 1..3]) /\ PlanIsRight(plan')
      /\ \A n \in Name \ warned : n \in DOMAIN Wanted => Planned(n, plan')
  BY <1>2, <1>4, <1>5, ArrangedPlan
<1>7. DataOK'
  BY <1>1, <1>2, <1>3, <1>6, FileTypes DEF DataOK
<1>8. /\ CreateTempFile' = CreateTempFile /\ IsTemp' = IsTemp
      /\ files'[p] = Partial /\ \A q \in Path \ {p} : files'[q] = files[q]
  BY <1>1, <1>2, <1>3 DEF DataOK, IsTemp, CreateTempFile, UpdateArchiveItself, IsOpen
<1>9. ScannedOK'
  <2>1. Scanned
    BY <1>5
  <2> QED
    BY <1>2, <2>1 DEF ScannedOK, Scanned, Sorted, OnDisk
<1>10. PlanOK'
  <2>1. Wanted' = Wanted
    BY <1>2 DEF Wanted, Manual, ManualState, DiskData, OnDisk
  <2>2. PlanIsRight(plan)'
    BY <1>2, <1>6, <2>1 DEF PlanIsRight, Data, DiskData
  <2>3. DOMAIN written' = {}
    BY <1>2 DEF Empty
  <2>4. \A n \in Name \ warned' : n \in DOMAIN Wanted' => Planned(n, plan)'
    BY <1>2, <1>6, <2>1 DEF Planned
  <2> QED
    BY <2>2, <2>3, <2>4 DEF PlanOK
<1>11. OneTemp' /\ (IsTemp => made' = {p})
  <2>1. CASE IsTemp
    <3>1. made = {} /\ CreateTempFile
      BY <1>2, <2>1 DEF CommandsOK, IsTemp
    <3>2. paths' = {p}
      BY <1>1, <3>1 DEF MadeIsNew
    <3>3. OutPath' = p
      BY <1>3, <1>8, <2>1, <3>2 DEF OutPath, Named
    <3> QED
      BY <1>1, <1>2, <1>3, <1>8, <2>1, <3>1, <3>3 DEF OneTemp, Partial
  <2>2. CASE ~IsTemp
    <3>1. p \in Named
      BY <1>2, <1>3, <2>2, NamedDest
    <3>2. OutPath' = p
      BY <1>2, <1>3, <1>8, <2>2 DEF OutPath
    <3>3. made' \ Named = made \ Named
      BY <1>1, <3>1
    <3> QED
      BY <1>1, <1>2, <1>3, <1>4, <1>8, <2>2, <3>2, <3>3 DEF OneTemp, Partial
  <2> QED
    BY <2>1, <2>2
<1>12. TempIsWanted'
  <2> SUFFICES ASSUME CreateTempFile, ci > 1 PROVE TempDone'
    BY <1>2, <1>8 DEF TempIsWanted, Replacing
  <2>1. TempDone /\ \E q \in made \ Named : files[q].state = "whole"
    BY <1>2 DEF TempIsWanted, TempIsWhole
  <2>2. PICK q \in made \ Named : files[q].state = "whole"
    BY <2>1
  <2>3. p \in Named
    BY <1>2, <1>3, NamedDest DEF IsTemp
  <2>4. made' \ Named = made \ Named /\ q \in Path
    BY <1>1, <2>3 DEF MadeIsNew
  <2>5. Temp = q /\ Temp' = q
    <3>1. \A a, b \in made \ Named : a = b
      BY DEF OneTemp
    <3>2. \A a, b \in made' \ Named : a = b
      BY <2>4, <3>1
    <3> QED
      BY <2>2, <2>4, <3>1, <3>2, TheTemp DEF Temp
  <2>6. files'[Temp] = files[Temp]
    BY <1>8, <2>2, <2>3, <2>4, <2>5
  <2> QED
    BY <1>2, <2>1, <2>5, <2>6, TempStays
<1>13. DoneDests'
  <2> SUFFICES ASSUME NEW i \in DOMAIN cmds, i < ci, i > 1 \/ ~CreateTempFile
               PROVE  Done(i)'
    BY <1>2, <1>8 DEF DoneDests, Replacing
  <2>1. Done(i)
    BY <1>2 DEF DoneDests, Listed
  <2>2. cmds[i].dest \in Path /\ cmds[i].dest # p
    <3> DEFINE Command == [dest : Named, set : ActionSet]
    <3>1. cmds[i] \in Command
      <4>1. cmds \in Seq(Command)
        BY DEF CommandsOK
      <4> HIDE DEF Command
      <4> QED
        BY <4>1
    <3> QED
      BY <1>3, <2>1, <3>1 DEF Done, Has, Named, Path
  <2> QED
    BY <1>2, <1>8, <2>1, <2>2, DoneStays
<1>14. Survives'
  BY <1>1, <1>2, <1>3, <1>8 DEF Survives, KeptFile, Has, Listed
<1> QED
  BY <1>2, <1>7, <1>9, <1>10, <1>11, <1>12, <1>13, <1>14 DEF BeforeOK, CopyIsDone, Ends

\* The first item of the plan and the rest.
LEMMA FirstOfPlan ==
  ASSUME DataOK, plan # <<>>, NEW h, h = Head(plan), NEW r, r = Tail(plan)
  PROVE  /\ h \in [name : Name, action : 1..3] /\ r \in Seq([name : Name, action : 1..3])
         /\ 1 \in 1..Len(plan) /\ plan[1] = h
         /\ \A i \in 1..Len(r) : i + 1 \in 1..Len(plan) /\ r[i] = plan[i + 1]
         /\ \A n \in Name : Planned(n, plan) => n = h.name \/ Planned(n, r)
<1> DEFINE X == [name : Name, action : 1..3]
<1>1. plan \in Seq(X)
  BY DEF DataOK
<1> HIDE DEF X
<1>2. /\ h \in X /\ r \in Seq(X) /\ Len(plan) \in Nat /\ Len(plan) # 0 /\ Len(r) = Len(plan) - 1
      /\ h = plan[1] /\ \A i \in 1..Len(r) : r[i] = plan[i + 1]
  BY <1>1
<1>3. ASSUME NEW n \in Name, Planned(n, plan), n # h.name PROVE Planned(n, r)
  <2>1. PICK i \in 1..Len(plan) : plan[i].name = n
    BY <1>3 DEF Planned
  <2>2. i # 1 /\ i - 1 \in 1..Len(r) /\ (i - 1) + 1 = i
    BY <1>2, <1>3, <2>1
  <2>3. r[i - 1] = plan[(i - 1) + 1]
    BY <1>2, <2>2
  <2>4. r[i - 1].name = n
    BY <2>1, <2>2, <2>3
  <2> QED
    BY <2>2, <2>4 DEF Planned
<1> QED
  BY <1>2, <1>3 DEF X

\* An item more.
LEMMA WithType ==
  ASSUME NEW c \in Contents, NEW n \in Name, NEW d \in Version \cup {Anti}
  PROVE  With(c, n, d) \in Contents
<1>1. c \in [DOMAIN c -> Version \cup {Anti}] /\ DOMAIN c \subseteq Name
  BY DEF Contents
<1>2. With(c, n, d) \in [DOMAIN c \cup {n} -> Version \cup {Anti}]
  BY <1>1 DEF With
<1> QED
  BY <1>1, <1>2 DEF Contents

\* What does not change while items are written.
LEMMA ItemFrame ==
  ASSUME OwnInv, KeptInv, pc = "item", pc' = "item", warned \subseteq warned',
         UNCHANGED <<files, place, in, cmds, before, ci, archive, dirItems, paths, made, kept>>
  PROVE  /\ BeforeOK' /\ ScannedOK' /\ OneTemp' /\ TempIsWanted' /\ CopyIsDone' /\ DoneDests'
         /\ Survives' /\ Ends' /\ Wanted' = Wanted
<1> USE DEF OwnInv, KeptInv
<1>1. CreateTempFile' = CreateTempFile /\ IsTemp' = IsTemp /\ Temp' = Temp /\ OutPath' = OutPath
  BY DEF CreateTempFile, UpdateArchiveItself, IsOpen, IsTemp, Temp, OutPath
<1>2. Wanted' = Wanted
  BY DEF Wanted, Manual, ManualState, DiskData, OnDisk
<1>3. ScannedOK'
  BY DEF ScannedOK, Scanned, Sorted, OnDisk
<1>4. OneTemp'
  BY <1>1 DEF OneTemp
<1>5. TempIsWanted'
  <2> SUFFICES ASSUME TempDone PROVE TempDone'
    BY <1>1 DEF TempIsWanted, Replacing
  <2> QED
    BY <1>1, TempStays
<1>6. DoneDests'
  <2> SUFFICES ASSUME NEW i \in DOMAIN cmds, i < ci, i > 1 \/ ~CreateTempFile
               PROVE  Done(i)'
    BY <1>1 DEF DoneDests, Replacing
  <2>1. Done(i)
    BY DEF DoneDests, Listed
  <2> QED
    BY <2>1, DoneStays
<1> QED
  BY <1>2, <1>3, <1>4, <1>5, <1>6 DEF BeforeOK, CopyIsDone, Survives, KeptFile, Ends

\* The first item leaves the plan and is written, or the user is warned.
LEMMA ItemKept == ASSUME OwnInv, KeptInv, Item \/ ItemOpensNot PROVE KeptInv'
<1> USE DEF KeptInv
<1>a. PICK h : h = Head(plan)
  OBVIOUS
<1>b. PICK r : r = Tail(plan)
  OBVIOUS
<1> DEFINE n == h.name
           data == Data(h.action, n)
<1>1. /\ pc = "item" /\ pc' = "item" /\ plan # <<>> /\ plan' = r /\ warned \subseteq warned'
      /\ UNCHANGED <<files, place, in, cmds, before, ci, archive, dirItems, paths, made, kept>>
  BY <1>b DEF Item, ItemOpensNot, run
<1>2. \/ written' = With(written, n, data) /\ warned' = warned
      \/ written' = written /\ n \in warned'
  BY <1>a DEF Item, ItemOpensNot, Data
<1>3. /\ BeforeOK' /\ ScannedOK' /\ OneTemp' /\ TempIsWanted' /\ CopyIsDone' /\ DoneDests'
      /\ Survives' /\ Ends' /\ Wanted' = Wanted
  BY <1>1, ItemFrame
<1>4. /\ h \in [name : Name, action : 1..3] /\ r \in Seq([name : Name, action : 1..3])
      /\ 1 \in 1..Len(plan) /\ plan[1] = h
      /\ \A i \in 1..Len(r) : i + 1 \in 1..Len(plan) /\ r[i] = plan[i + 1]
      /\ \A m \in Name : Planned(m, plan) => m = n \/ Planned(m, r)
  BY <1>1, <1>a, <1>b, FirstOfPlan
<1>5. /\ h.action = 1 => n \in DOMAIN archive.items
      /\ n \notin warned => n \in DOMAIN Wanted /\ data = Wanted[n]
  BY <1>1, <1>4 DEF PlanOK, PlanIsRight
<1>6. data \in Version \cup {Anti}
  <2>1. archive.items \in Contents
    BY FileTypes DEF DataOK
  <2>2. \A m \in DOMAIN archive.items : archive.items[m] \in Version \cup {Anti}
    BY <2>1 DEF Contents
  <2> QED
    BY <1>5, <2>2 DEF Data, DiskData, Version
<1> HIDE DEF data
<1>7. written' \in Contents
  BY <1>2, <1>4, <1>6, WithType DEF DataOK
<1>8. PlanIsRight(plan)'
  <2>1. ASSUME NEW i \in 1..Len(r)
        PROVE  /\ r[i].action = 1 => r[i].name \in DOMAIN archive'.items
               /\ r[i].name \notin warned' =>
                    r[i].name \in DOMAIN Wanted' /\ Data(r[i].action, r[i].name)' = Wanted'[r[i].name]
    <3>1. PICK x : x = r[i]
      OBVIOUS
    <3>2. /\ x.action = 1 => x.name \in DOMAIN archive.items
          /\ x.name \notin warned => x.name \in DOMAIN Wanted /\ Data(x.action, x.name) = Wanted[x.name]
      BY <1>1, <1>4, <3>1 DEF PlanOK, PlanIsRight
    <3>3. Data(x.action, x.name)' = Data(x.action, x.name)
      BY <1>1 DEF Data, DiskData
    <3> QED
      BY <1>1, <1>3, <3>1, <3>2, <3>3
  <2> QED
    BY <1>1, <2>1 DEF PlanIsRight
<1>9. ASSUME NEW m \in Name \ warned'
      PROVE  /\ m \in DOMAIN written' => m \in DOMAIN Wanted /\ written'[m] = Wanted[m]
             /\ m \in DOMAIN Wanted => m \in DOMAIN written' \/ Planned(m, r)
  <2>1. /\ m \in DOMAIN written => m \in DOMAIN Wanted /\ written[m] = Wanted[m]
        /\ m \in DOMAIN Wanted => m \in DOMAIN written \/ m = n \/ Planned(m, r)
    BY <1>1, <1>4 DEF PlanOK
  <2>2. CASE written' = With(written, n, data) /\ warned' = warned
    BY <1>5, <2>1, <2>2 DEF With
  <2>3. CASE written' = written /\ n \in warned'
    BY <2>1, <2>3
  <2> QED
    BY <1>2, <2>2, <2>3
<1>10. PlanOK'
  BY <1>1, <1>3, <1>8, <1>9 DEF PlanOK, Planned
<1>11. DataOK'
  BY <1>1, <1>4, <1>7 DEF DataOK
<1> QED
  BY <1>3, <1>10, <1>11

\* The temporary file of a step that makes no other.
LEMMA SameTemp ==
  ASSUME OneTemp, made' \ Named = made \ Named, NEW t \in made \ Named
  PROVE  Temp = t /\ Temp' = t
<1>1. \A a, b \in made \ Named : a = b
  BY DEF OneTemp
<1>2. t \in made' \ Named /\ \A a, b \in made' \ Named : a = b
  BY <1>1
<1> QED
  BY <1>1, <1>2, TheTemp DEF Temp

\* The commands, with their types.
LEMMA DestIsNamed ==
  ASSUME CommandsOK, NEW i \in DOMAIN cmds
  PROVE  cmds[i].dest \in Named /\ cmds[i].dest \in Path /\ i \in Nat \ {0} /\ i <= Len(cmds)
<1> DEFINE Command == [dest : Named, set : ActionSet]
<1>1. cmds \in Seq(Command)
  BY DEF CommandsOK
<1> HIDE DEF Command
<1>2. cmds[i] \in Command /\ i \in 1..Len(cmds)
  BY <1>1
<1> QED
  BY <1>2 DEF Command, Named, Path

\* Nothing is left of the plan: what is written is what the manual wants.
LEMMA CloseKept == ASSUME OwnInv, KeptInv, Close PROVE KeptInv'
<1> USE DEF OwnInv, KeptInv
<1>1. /\ pc = "item" /\ plan = <<>> /\ files' = [files EXCEPT ![OutPath] = Whole(written)]
      /\ IF ci = Len(cmds) THEN pc' = "leave" /\ UNCHANGED ci ELSE pc' = "create" /\ ci' = ci + 1
      /\ UNCHANGED <<place, in, cmds, before, archive, dirItems, plan, written, warned, paths, made>>
      /\ kept' = IF /\ cmds[ci].dest = "arc" /\ kept # {}
                    /\ Matches(written, archive.items, cmds[ci].set)
                 THEN kept \cup {written} ELSE kept
  BY DEF Close, run
<1>2. /\ OutPath \in made /\ OutPath \in Path
      /\ IF IsTemp THEN OutPath \notin Named ELSE OutPath = cmds[ci].dest
  BY <1>1, OpenPath
<1>3. /\ files'[OutPath] = Whole(written) /\ files[OutPath].state = "partial"
      /\ \A q \in Path \ {OutPath} : files'[q] = files[q]
  BY <1>1, <1>2 DEF DataOK, OneTemp
<1>4. Matches(written, archive.items, cmds[ci].set)
  <2>1. \A n \in Name : ~Planned(n, plan)
    BY <1>1 DEF Planned
  <2> QED
    BY <1>1, <2>1 DEF PlanOK, Matches, Wanted
<1>5. CreateTempFile' = CreateTempFile
  BY <1>1 DEF CreateTempFile, UpdateArchiveItself, IsOpen
<1>6. kept \subseteq kept' /\ (kept' # {} => kept # {}) /\ ci \in Nat \ {0} /\ ci \in DOMAIN cmds
  BY <1>1 DEF CommandsOK
<1>7. DataOK'
  BY <1>1, <1>2, FileTypes DEF DataOK
<1>8. ScannedOK'
  BY <1>1 DEF ScannedOK, Scanned, Sorted, OnDisk
<1>9. OneTemp'
  BY <1>1, <1>5 DEF OneTemp
<1>10. TempIsWanted'
  <2> SUFFICES ASSUME CreateTempFile PROVE TempDone'
    BY <1>1, <1>5 DEF TempIsWanted, Replacing
  <2>1. CASE ci = 1
    <3>1. Temp' = OutPath
      BY <1>1, <1>2, <2>1, SameTemp DEF IsTemp
    <3>2. PICK c : c = written
      OBVIOUS
    <3>3. PICK old : old = archive.items
      OBVIOUS
    <3>4. PICK set : set = cmds[1].set
      OBVIOUS
    <3>5. Matches(c, old, set)'
      BY <1>1, <1>4, <2>1, <3>2, <3>3, <3>4, StillMatches
    <3>6. c = files'[Temp'].items /\ old = archive'.items /\ set = cmds'[1].set /\ files'[Temp'].state = "whole"
      BY <1>1, <1>3, <3>1, <3>2, <3>3, <3>4 DEF Whole
    <3>7. kept' # {} => c \in kept'
      BY <1>1, <1>4, <1>6, <2>1, <3>2 DEF CreateTempFile, UpdateArchiveItself
    <3> QED
      BY <1>5, <3>5, <3>6, <3>7 DEF TempDone
  <2>2. CASE ci # 1
    <3>1. TempDone
      BY <1>1, <1>6, <2>2 DEF TempIsWanted
    <3>2. PICK t \in made \ Named : files[t].state = "whole"
      BY <1>1, <1>6, <2>2 DEF TempIsWhole
    <3>3. Temp = t /\ Temp' = t
      BY <1>1, <3>2, SameTemp
    <3>4. t # OutPath /\ t \in Path
      BY <1>3, <3>2 DEF MadeIsNew
    <3> QED
      BY <1>1, <1>3, <1>6, <3>1, <3>3, <3>4, TempStays
  <2> QED
    BY <2>1, <2>2
<1>11. DoneDests'
  <2> SUFFICES ASSUME NEW i \in DOMAIN cmds, i <= ci, i > 1 \/ ~CreateTempFile PROVE Done(i)'
    <3>1. \A i \in DOMAIN cmds : i \in Nat /\ i <= Len(cmds)
      BY DestIsNamed
    <3> QED
      BY <1>1, <1>5, <1>6, <3>1 DEF DoneDests, Replacing
  <2>1. CASE i = ci
    <3>1. OutPath = cmds[i].dest
      BY <1>2, <2>1 DEF IsTemp
    <3>2. PICK c : c = written
      OBVIOUS
    <3>3. PICK old : old = archive.items
      OBVIOUS
    <3>4. PICK set : set = cmds[i].set
      OBVIOUS
    <3>5. Matches(c, old, set)'
      BY <1>1, <1>4, <2>1, <3>2, <3>3, <3>4, StillMatches
    <3>6. /\ c = files'[cmds'[i].dest].items /\ old = archive'.items /\ set = cmds'[i].set
          /\ files'[cmds'[i].dest].state = "whole"
      BY <1>1, <1>3, <3>1, <3>2, <3>3, <3>4 DEF Whole
    <3> QED
      BY <3>5, <3>6 DEF Done
  <2>2. CASE i # ci
    <3>1. i < ci
      BY <1>6, <2>2, DestIsNamed
    <3>2. Done(i)
      BY <1>1, <3>1 DEF DoneDests, Listed
    <3>3. cmds[i].dest \in Path /\ cmds[i].dest # OutPath
      BY <1>3, <3>2, DestIsNamed DEF Done
    <3> QED
      BY <1>1, <1>3, <3>2, <3>3, DoneStays
  <2> QED
    BY <2>1, <2>2
<1>12. Survives'
  BY <1>1, <1>2, <1>3, <1>6 DEF Survives, KeptFile, Listed
<1> QED
  BY <1>1, <1>7, <1>8, <1>9, <1>10, <1>11, <1>12 DEF BeforeOK, PlanOK, CopyIsDone, Ends

\* Paths.Clear: the end, or the begin of the replacement.
LEMMA ClearPathsKept == ASSUME OwnInv, KeptInv, ClearPaths PROVE KeptInv'
<1> USE DEF OwnInv, KeptInv
<1>1. /\ pc = "leave" /\ paths' = {}
      /\ IF CreateTempFile THEN pc' \in {"delete", "move"} ELSE pc' = "done" /\ exit' = ExitCode
      /\ UNCHANGED <<files, place, in, cmds, before, ci, archive, dirItems, plan, written, warned, made, kept>>
  BY DEF ClearPaths, Unwind, run
<1>2. CreateTempFile' = CreateTempFile /\ Temp' = Temp
  BY <1>1 DEF CreateTempFile, UpdateArchiveItself, IsOpen, Temp
<1>3. DataOK' /\ BeforeOK' /\ ScannedOK' /\ PlanOK' /\ OneTemp' /\ CopyIsDone'
  BY <1>1, <1>2 DEF DataOK, BeforeOK, ScannedOK, PlanOK, OneTemp, CopyIsDone
<1>4. ASSUME NEW i \in DOMAIN cmds, i > 1 \/ ~CreateTempFile PROVE Done(i)'
  <2>1. Done(i)
    BY <1>1, <1>4 DEF DoneDests, Listed
  <2> QED
    BY <1>1, <2>1, DoneStays
<1>5. DoneDests'
  BY <1>1, <1>2, <1>4 DEF DoneDests
<1>6. CASE CreateTempFile
  <2>1. TempDone'
    BY <1>1, <1>2, <1>6, TempStays DEF TempIsWanted
  <2> QED
    BY <1>1, <1>3, <1>5, <1>6, <2>1 DEF TempIsWanted, Survives, Ends, Listed
<1>7. CASE ~CreateTempFile
  <2>1. ASSUME NEW p \in Path, \A i \in DOMAIN cmds : p # cmds[i].dest PROVE files[p] = before[p]
    <3>1. p \notin made
      BY <1>7, <2>1 DEF OneTemp
    <3> QED
      BY <1>1, <3>1 DEF OthersKept, Listed
  <2>2. exit' \in {0, 1} /\ (exit' = 0 <=> warned = {})
    BY <1>1, <1>7 DEF ExitCode
  <2>3. SuccessMatchesManual'
    BY <1>1, <1>4, <1>7, <2>1, <2>2 DEF SuccessMatchesManual, Done
  <2>4. Ends'
    BY <2>2, <2>3 DEF Ends
  <2>5. Survives'
    BY <1>1, <1>7 DEF Survives, KeptFile, Listed
  <2> QED
    BY <1>1, <1>3, <1>5, <1>7, <2>4, <2>5 DEF TempIsWanted, Replacing
<1> QED
  BY <1>6, <1>7

\* While the archive is replaced.
LEMMA InReplacement ==
  ASSUME OwnInv, KeptInv, pc \in Replacing
  PROVE  /\ TempDone /\ cmds[1].dest = "arc" /\ 1 \in DOMAIN cmds
         /\ Temp \in made \ Named /\ Temp \in Path /\ Temp # "arc"
<1> USE DEF OwnInv, KeptInv
<1>1. TempDone
  BY DEF TempIsWanted
<1>2. cmds # <<>> /\ cmds[1].dest = "arc"
  BY <1>1 DEF TempDone, CreateTempFile, UpdateArchiveItself
<1>3. 1 \in DOMAIN cmds
  <2> DEFINE Command == [dest : Named, set : ActionSet]
  <2>1. cmds \in Seq(Command)
    BY DEF CommandsOK
  <2> HIDE DEF Command
  <2> QED
    BY <1>2, <2>1
<1>4. Temp \in made \ Named /\ Temp \in Path /\ Temp # "arc"
  BY DEF Temp, TempIsWhole, Named, MadeIsNew
<1> QED
  BY <1>1, <1>2, <1>3, <1>4

\* A step that leaves the temporary file and the other archives alone.
LEMMA ReplaceStep ==
  ASSUME OwnInv, KeptInv, pc \in Replacing, pc' \in Replacing, files' \in [Path -> File],
         \A p \in Path \ {"arc"} : files'[p] = files[p],
         pc' = "unlink" => ShortWrites \/ files'["arc"] = files[Temp],
         made' = made \/ made' = made \cup {"arc"},
         UNCHANGED <<place, in, cmds, before, ci, archive, dirItems, plan, written, warned, kept>>
  PROVE  KeptInv'
<1> USE DEF OwnInv, KeptInv
<1>1. /\ TempDone /\ cmds[1].dest = "arc" /\ 1 \in DOMAIN cmds
      /\ Temp \in made \ Named /\ Temp \in Path /\ Temp # "arc"
  BY InReplacement
<1>2. CreateTempFile' = CreateTempFile
  BY DEF CreateTempFile, UpdateArchiveItself, IsOpen
<1>3. made' \ Named = made \ Named
  BY DEF Named
<1>4. Temp' = Temp /\ files'[Temp] = files[Temp]
  BY <1>1, <1>3, SameTemp
<1>5. TempDone'
  BY <1>1, <1>4, TempStays
<1>6. DoneDests'
  <2> SUFFICES ASSUME NEW i \in DOMAIN cmds, i > 1 \/ ~CreateTempFile, cmds[i].dest # "arc"
               PROVE  Done(i)'
    BY <1>2 DEF DoneDests, Replacing, Listed
  <2>1. Done(i)
    BY DEF DoneDests
  <2>2. cmds[i].dest \in Path
    BY DestIsNamed
  <2> QED
    BY <2>1, <2>2, DoneStays
<1>7. OneTemp'
  BY <1>1, <1>2, <1>3 DEF OneTemp, Replacing
<1>8. DataOK' /\ BeforeOK' /\ CopyIsDone'
  BY <1>4 DEF DataOK, BeforeOK, CopyIsDone
<1> QED
  BY <1>5, <1>6, <1>7, <1>8 DEF ScannedOK, PlanOK, TempIsWanted, Survives, Ends, Replacing, Listed

\* The end of a run that has replaced the archive.
LEMMA ReplaceEnd ==
  ASSUME OwnInv, KeptInv, pc \in Replacing, pc' = "done", exit' = ExitCode,
         files' \in [Path -> File], files'[Temp] = NoFile,
         ShortWrites \/ files'["arc"] = files[Temp],
         \A p \in Path \ {"arc", Temp} : files'[p] = files[p],
         UNCHANGED <<place, in, cmds, before, ci, archive, dirItems, plan, written, warned, made, kept>>
  PROVE  KeptInv'
<1> USE DEF OwnInv, KeptInv
<1>1. /\ TempDone /\ cmds[1].dest = "arc" /\ 1 \in DOMAIN cmds
      /\ Temp \in made \ Named /\ Temp \in Path /\ Temp # "arc" /\ "arc" \in Path
  BY InReplacement DEF Path
<1>2. CreateTempFile' = CreateTempFile
  BY DEF CreateTempFile, UpdateArchiveItself, IsOpen
<1>3. OneTemp'
  BY <1>2 DEF OneTemp
<1>4. exit' \in {0, 1} /\ (exit' = 0 <=> warned = {})
  BY DEF ExitCode
<1>5. ASSUME ~ShortWrites, NotTwice PROVE SuccessMatchesManual'
  <2>1. ASSUME NEW i \in DOMAIN cmds PROVE Done(i)'
    <3>1. CASE i = 1
      <4>1. PICK c : c = files[Temp].items
        OBVIOUS
      <4>2. PICK old : old = archive.items
        OBVIOUS
      <4>3. PICK set : set = cmds[1].set
        OBVIOUS
      <4>4. Matches(c, old, set)'
        BY <1>1, <4>1, <4>2, <4>3, StillMatches DEF TempDone
      <4>5. files'["arc"] = files[Temp] /\ files[Temp].state = "whole"
        BY <1>1, <1>5 DEF TempDone
      <4>6. /\ c = files'[cmds'[i].dest].items /\ old = archive'.items /\ set = cmds'[i].set
            /\ files'[cmds'[i].dest].state = "whole"
        BY <1>1, <3>1, <4>1, <4>2, <4>3, <4>5
      <4> QED
        BY <4>4, <4>6 DEF Done
    <3>2. CASE i # 1
      <4>1. i \in 2..Len(cmds) /\ cmds[i].dest \in Named /\ cmds[i].dest \in Path
        BY <3>2, DestIsNamed
      <4>2. cmds \in CommandLists
        <5>1. cmds # <<>>
          BY <1>1 DEF TempDone, CreateTempFile, UpdateArchiveItself
        <5> QED
          BY <5>1 DEF DataOK
      <4>3. cmds[i].dest # "arc"
        BY <1>1, <1>5, <4>1, <4>2 DEF NotTwice
      <4>4. Done(i)
        BY <4>1, <4>3 DEF DoneDests
      <4>5. files'[cmds[i].dest] = files[cmds[i].dest]
        BY <1>1, <4>1, <4>3
      <4> QED
        BY <4>4, <4>5, DoneStays
    <3> QED
      BY <3>1, <3>2
  <2>2. ASSUME NEW p \in Path, \A i \in DOMAIN cmds : p # cmds[i].dest PROVE files'[p] = before[p]
    <3>1. p # "arc"
      BY <1>1, <2>2
    <3>2. CASE p = Temp
      BY <1>1, <3>1, <3>2 DEF MadeIsNew
    <3>3. CASE p # Temp
      <4>1. p \notin made
        BY <1>1, <2>2, <3>3 DEF OneTemp
      <4> QED
        BY <3>1, <3>3, <4>1 DEF OthersKept, Replacing
    <3> QED
      BY <3>2, <3>3
  <2> QED
    BY <1>4, <2>1, <2>2 DEF SuccessMatchesManual, Done
<1>6. Ends'
  BY <1>4, <1>5 DEF Ends, NotTwice
<1>7. Survives'
  BY <1>1 DEF Survives, KeptFile, TempDone, Listed
<1>8. DataOK' /\ BeforeOK'
  BY DEF DataOK, BeforeOK
<1> QED
  BY <1>3, <1>6, <1>7, <1>8 DEF ScannedOK, PlanOK, CopyIsDone, TempIsWanted, DoneDests, Replacing

\* DeleteFileAlways and MyMoveFile
LEMMA ReplaceKept ==
  ASSUME OwnInv, KeptInv, ~Return(2),
         DeleteFileAlways \/ Rename \/ CopyFile \/ CopyFd \/ Unlink
  PROVE  KeptInv'
<1> USE DEF OwnInv, KeptInv
<1>1. pc \in Replacing /\ UNCHANGED <<place, in, cmds, before, ci, archive, dirItems, plan, written, warned, kept>>
  BY DEF DeleteFileAlways, Rename, CopyFile, CopyFd, Unlink, Replacing, Unwind, run
<1>2. /\ files \in [Path -> File] /\ "arc" \in Path /\ Temp \in Path /\ Temp # "arc"
      /\ files[Temp] \in File /\ NoFile \in File /\ Partial \in File
  <2>1. files \in [Path -> File] /\ "arc" \in Path
    BY DEF DataOK, Path
  <2>2. Temp \in Path /\ Temp # "arc"
    BY <1>1, InReplacement
  <2> QED
    BY <2>1, <2>2, FileTypes
<1>3. CASE DeleteFileAlways
  <2>1. files' = [files EXCEPT !["arc"] = NoFile] /\ pc' = "move" /\ made' = made
    BY <1>3 DEF DeleteFileAlways, Unwind
  <2> QED
    BY <1>1, <1>2, <2>1, ReplaceStep DEF Replacing
<1>4. CASE Rename
  <2>1. /\ files' = [files EXCEPT !["arc"] = files[Temp], ![Temp] = NoFile]
        /\ pc' = "done" /\ exit' = ExitCode /\ made' = made
    BY <1>4 DEF Rename, Unwind
  <2>2. /\ files' \in [Path -> File] /\ files'[Temp] = NoFile /\ files'["arc"] = files[Temp]
        /\ \A p \in Path \ {"arc", Temp} : files'[p] = files[p]
    BY <1>2, <2>1
  <2> QED
    BY <1>1, <2>1, <2>2, ReplaceEnd
<1>5. CASE CopyFile
  <2>1. files' = [files EXCEPT !["arc"] = Partial] /\ pc' = "copy" /\ made' = made \cup {"arc"}
    BY <1>5 DEF CopyFile
  <2> QED
    BY <1>1, <1>2, <2>1, ReplaceStep DEF Replacing
<1>6. CASE CopyFd
  <2>1. /\ files' = [files EXCEPT !["arc"] = files[Temp]] \/ (ShortWrites /\ files' = files)
        /\ pc' = "unlink" /\ made' = made
    BY <1>6 DEF CopyFd, Unwind
  <2> QED
    BY <1>1, <1>2, <2>1, ReplaceStep DEF Replacing
<1>7. CASE Unlink
  <2>1. /\ files' = [files EXCEPT ![Temp] = NoFile] /\ pc = "unlink"
        /\ pc' = "done" /\ exit' = ExitCode /\ made' = made
    BY <1>7 DEF Unlink, Unwind
  <2>2. /\ files' \in [Path -> File] /\ files'[Temp] = NoFile
        /\ ShortWrites \/ files'["arc"] = files[Temp]
        /\ \A p \in Path \ {"arc", Temp} : files'[p] = files[p]
    BY <1>2, <2>1, UpdateAssumption DEF CopyIsDone
  <2> QED
    BY <1>1, <2>1, <2>2, ReplaceEnd
<1> QED
  BY <1>3, <1>4, <1>5, <1>6, <1>7

\* Every step keeps the invariant.
LEMMA NextKept == ASSUME OwnInv, KeptInv, [Next]_vars PROVE KeptInv'
<1>1. CASE Start
  BY <1>1, StartKept
<1>2. CASE Killed
  BY <1>2, KilledKept
<1>3. CASE \/ Fails \/ OpensNot \/ CreatesNot
           \/ Return(2) /\ (Check \/ DeleteFileAlways \/ Rename \/ CopyFile \/ CopyFd \/ Unlink)
  <2>1. Return(2) /\ pc \in Listed \cup Replacing
    BY <1>3 DEF Fails, OpensNot, CreatesNot, Check, DeleteFileAlways, Rename, CopyFile, CopyFd,
       Unlink, Listed, Replacing
  <2> QED
    BY <2>1, ReturnKept
<1>4. CASE Open
  BY <1>4, OpenKept
<1>5. CASE Scan
  BY <1>5, ScanKept
<1>6. CASE Check /\ ~Return(2)
  BY <1>6, CheckKept
<1>7. CASE Create
  BY <1>7, CreateKept
<1>8. CASE Item \/ ItemOpensNot
  BY <1>8, ItemKept
<1>9. CASE Close
  BY <1>9, CloseKept
<1>10. CASE ClearPaths
  BY <1>10, ClearPathsKept
<1>11. CASE ~Return(2) /\ (DeleteFileAlways \/ Rename \/ CopyFile \/ CopyFd \/ Unlink)
  BY <1>11, ReplaceKept
<1>12. CASE UNCHANGED vars
  <2>1. UNCHANGED <<files, place, runs, pc, in, cmds, ci, archive, dirItems, plan, written, paths,
                    warned, exit, before, made, kept>>
    BY <1>12 DEF vars
  <2> USE DEF KeptInv
  <2>2. CreateTempFile' = CreateTempFile /\ IsTemp' = IsTemp /\ Temp' = Temp /\ OutPath' = OutPath
    BY <2>1 DEF CreateTempFile, UpdateArchiveItself, IsOpen, IsTemp, Temp, OutPath
  <2>3. DataOK' /\ BeforeOK' /\ OneTemp' /\ CopyIsDone' /\ Survives'
    BY <2>1, <2>2 DEF DataOK, BeforeOK, OneTemp, CopyIsDone, Survives, KeptFile
  <2>4. ScannedOK'
    BY <2>1 DEF ScannedOK, Scanned, Sorted, OnDisk
  <2>5. PlanOK'
    <3>1. Wanted' = Wanted
      BY <2>1 DEF Wanted, Manual, ManualState, DiskData, OnDisk
    <3>2. PlanIsRight(plan) => PlanIsRight(plan)'
      BY <2>1, <3>1 DEF PlanIsRight, Data, DiskData
    <3> QED
      BY <2>1, <3>1, <3>2 DEF PlanOK, Planned
  <2>6. TempIsWanted'
    <3>1. TempDone => TempDone'
      BY <2>1, <2>2, TempStays
    <3> QED
      BY <2>1, <2>2, <3>1 DEF TempIsWanted
  <2>7. DoneDests'
    <3>1. \A i \in DOMAIN cmds : Done(i) => Done(i)'
      BY <2>1, DoneStays
    <3> QED
      BY <2>1, <2>2, <3>1 DEF DoneDests
  <2>8. Ends'
    <3>1. \A i \in DOMAIN cmds : Done(i) => Done(i)'
      BY <2>1, DoneStays
    <3>2. SuccessMatchesManual => SuccessMatchesManual'
      BY <2>1, <3>1 DEF SuccessMatchesManual, Done
    <3>3. FailureChangesNothing => FailureChangesNothing'
      <4> SUFFICES ASSUME NEW p \in made, files[p].state = "whole", p # "other",
                          Matches(files[p].items, archive.items, cmds[1].set)
                   PROVE  Matches(files[p].items, archive.items, cmds[1].set)'
        BY <2>1 DEF FailureChangesNothing
      <4>1. PICK c : c = files[p].items
        OBVIOUS
      <4>2. PICK old : old = archive.items
        OBVIOUS
      <4>3. PICK set : set = cmds[1].set
        OBVIOUS
      <4>4. Matches(c, old, set)'
        BY <2>1, <4>1, <4>2, <4>3, StillMatches
      <4>5. c = files'[p].items /\ old = archive'.items /\ set = cmds'[1].set
        BY <2>1, <4>1, <4>2, <4>3
      <4> QED
        BY <4>4, <4>5
    <3> QED
      BY <2>1, <3>2, <3>3 DEF Ends
  <2> QED
    BY <2>3, <2>4, <2>5, <2>6, <2>7, <2>8
<1> QED
  BY <1>1, <1>2, <1>3, <1>4, <1>5, <1>6, <1>7, <1>8, <1>9, <1>10, <1>11, <1>12 DEF Next

\* Both invariants hold in every state.
LEMMA SpecKept == Spec => [](OwnInv /\ KeptInv)
<1>1. Init => OwnInv /\ KeptInv
  BY InitOwn, InitKept
<1>2. OwnInv /\ KeptInv /\ [Next]_vars => (OwnInv /\ KeptInv)'
  BY NextOwn, NextKept
<1> QED
  BY <1>1, <1>2, PTL DEF Spec
-----------------------------------------------------------------------------
(* Theorems                                                                *)

\* Whatever fails and whenever the program is killed, and however often it is run
\* again: what it has not made it leaves alone, leftovers of its own earlier runs
\* and files of others alike, and the old archive is touched only when the
\* temporary file holds a complete new one (tempFiles, Update.cpp:428 and 846).
THEOREM TouchesOnlyOwnFiles == Spec => OnlyOwnFiles
<1>1. Init => OwnInv
  BY InitOwn
<1>2. OwnInv /\ [Next]_vars => OwnInv'
  BY NextOwn
<1>3. OwnInv /\ [Next]_vars => [OwnStep]_vars
  BY NextOwn
<1> QED
  BY <1>1, <1>2, <1>3, PTL DEF Spec, OnlyOwnFiles, OwnStep

\* From the moment the first command is done until its temporary file has taken
\* the place of the archive, this file is complete and, once the replacement has
\* begun, not in the list of files that an error would delete.
THEOREM TempIsKept == Spec => [](TempIsWhole /\ (pc \in Replacing => paths = {}))
<1>1. Init => OwnInv
  BY InitOwn
<1>2. OwnInv /\ [Next]_vars => OwnInv'
  BY NextOwn
<1>3. OwnInv => TempIsWhole /\ (pc \in Replacing => paths = {})
  BY DEF OwnInv, MadeIsNew
<1> QED
  BY <1>1, <1>2, <1>3, PTL DEF Spec

\* Whenever and however often the program is killed, and whichever call fails,
\* a whole file holds the archive as it was or as the manual wants it, if copy_fd
\* notices a short write (DeleteFileAlways and MyMoveFile, Update.cpp:846 on).
THEOREM ACopySurvives == ~ShortWrites => (Spec => []CopiesSurvive)
<1> SUFFICES ASSUME ~ShortWrites PROVE Spec => []CopiesSurvive
  OBVIOUS
<1>1. OwnInv /\ KeptInv => CopiesSurvive
  <2> SUFFICES ASSUME OwnInv, KeptInv, kept # {} PROVE \E p \in Path : KeptFile(p)
    BY DEF CopiesSurvive, KeptFile
  <2>1. CASE pc \in Listed \cup {"idle", "done"}
    BY <2>1 DEF KeptInv, Survives
  <2>2. CASE pc \in Replacing
    BY <2>2, InReplacement DEF TempDone, KeptFile
  <2> QED
    BY <2>1, <2>2 DEF OwnInv, PcOK
<1> QED
  BY <1>1, SpecKept, PTL

\* A run that fails has changed and left nothing, or the complete new archive is
\* there under the name of the temporary file (tempFiles.Paths, Update.cpp:428).
THEOREM FailureIsHarmless == Spec => []FailureChangesNothing
<1>1. KeptInv => FailureChangesNothing
  BY DEF KeptInv, Ends, FailureChangesNothing
<1> QED
  BY <1>1, SpecKept, PTL

\* A run that succeeds has made of every archive it names what the table of the
\* manual makes of the old archive and the disk, but for names it has warned of:
\* scan, sort, merge, UpdateProduce, writing and the replacement together
\* (UpdatePair.cpp:92, UpdateProduce.cpp:11, Update.cpp:428).  copy_fd must notice
\* a short write; and no command may name the archive that the temporary file will
\* replace, as a new one of that name would be overwritten by Rename.
THEOREM SuccessIsWhatTheManualSays ==
  ~ShortWrites /\ NotTwice => (Spec => []SuccessMatchesManual)
<1> SUFFICES ASSUME ~ShortWrites, NotTwice PROVE Spec => []SuccessMatchesManual
  OBVIOUS
<1>1. KeptInv => SuccessMatchesManual
  BY DEF KeptInv, Ends, SuccessMatchesManual
<1> QED
  BY <1>1, SpecKept, PTL
=============================================================================
