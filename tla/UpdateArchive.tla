--------------------------- MODULE UpdateArchive ---------------------------
(***************************************************************************)
(* The update commands of the console program (a, u, d, with -u and -w):   *)
(* UpdateArchive of UI/Common/Update.cpp with GetUpdatePairInfoList,       *)
(* UpdateProduce, CTempFiles and MyMoveFile, and the exit code that Main2  *)
(* makes of the result.  The files outlive the program: it is run several  *)
(* times, and each run may be killed at any step.                          *)
(*                                                                         *)
(* A name is a number (names are compared and sorted), the data of a file  *)
(* a version.  A killed program leaves what it was writing as a partial    *)
(* file; a loss of power, which would need the missing fsync, is left out, *)
(* and so are stdin, stdout, volumes, SFX and e-mail.                      *)
(***************************************************************************)
EXTENDS Integers, Sequences, FiniteSets

CONSTANTS
  NumNames,      \* bound: the names that occur on disk and in archives
  MaxRuns,       \* bound: runs of the program
  CommandLists,  \* lists of [dest, set]: what the command line may ask for
  LaterInputs,   \* bound: the disk and the wildcard in the second and later runs
  ShortWrites    \* TRUE: write() may write less than it was asked to

VARIABLES
  files,    \* path -> file, what the file system holds
  place,    \* -w given, and is the temporary file on another device?
  runs,     \* runs that were started
  pc,       \* where UpdateArchive is
  in,       \* the disk and the wildcard of this run
  cmds,     \* options.Commands
  ci,       \* the command Compress works for
  archive,  \* the opened archive (arcLink), or NoFile
  dirItems, \* names found on disk, sorted
  plan,     \* updatePairs2, the items that are still to come
  written,  \* the items written to the new archive
  paths,    \* CTempFiles::Paths
  warned,   \* callback.CantFindFiles and callback.FailedFiles
  exit,     \* the exit code
  before,   \* files when this run began
  made,     \* the paths this run created
  kept      \* contents of which one must be found in some whole file

vars == <<files, place, runs, pc, in, cmds, ci, archive, dirItems, plan,
          written, paths, warned, exit, before, made, kept>>
run == <<place, runs, in, cmds, before>>
-----------------------------------------------------------------------------
(* Files and archives                                                      *)

Name == 1..NumNames
Version == 1..2
Anti == 0                              \* an anti-item instead of data
TempPath == <<"tmp", "tmp1">>          \* bound: names tried for the new archive
Path == {"arc", "other"} \cup {TempPath[i] : i \in DOMAIN TempPath}

\* The contents of an archive: names with their data.
Contents == UNION {[S -> Version \cup {Anti}] : S \in SUBSET Name}
Empty == [n \in {} |-> Anti]
NoFile == [state |-> "missing", items |-> Empty]
Partial == [state |-> "partial", items |-> Empty]
Whole(c) == [state |-> "whole", items |-> c]
File == {NoFile, Partial} \cup {Whole(c) : c \in Contents}

Has(p) == files[p].state # "missing"
With(c, n, d) == [m \in DOMAIN c \cup {n} |-> IF m = n THEN d ELSE c[m]]

\* What the disk holds under a name, against the item of the archive.  A file
\* of the same time and size holds the same data.
Kind == {"absent", "older", "newer", "same", "unclear"}
Inputs == [kind : [Name -> Kind], masked : [Name -> BOOLEAN], twice : BOOLEAN]
DiskData(c, n) ==
  IF n \notin DOMAIN c THEN 1
  ELSE IF in.kind[n] = "same" THEN c[n] ELSE IF c[n] = 1 THEN 2 ELSE 1
OnDisk == {n \in Name : in.kind[n] # "absent"}

\* For a name that is not in the archive only its presence on disk counts.
Relevant(c) == {i \in Inputs : \A n \in Name \ DOMAIN c :
                  i.masked[n] /\ i.kind[n] \in {"absent", "newer"}}

ActionSet == [1..7 -> 0..3]            \* CActionSet: 0 ignore .. 3 anti

ASSUME UpdateAssumption ==
  /\ NumNames \in Nat \ {0} /\ MaxRuns \in Nat /\ ShortWrites \in BOOLEAN
  /\ CommandLists \subseteq Seq([dest : {"arc", "other"}, set : ActionSet])
  /\ LaterInputs \subseteq Inputs
-----------------------------------------------------------------------------
(* What the manual says of an update (switches/update.htm)                 *)

\* The state of a name, numbered as p q r x y z w.
ManualState(old, n) ==
  IF n \notin DOMAIN old THEN 3
  ELSE IF ~in.masked[n] THEN 1
  ELSE CASE in.kind[n] = "absent" -> 2 [] in.kind[n] = "older" -> 4
         [] in.kind[n] = "newer" -> 5 [] in.kind[n] = "same" -> 6
         [] in.kind[n] = "unclear" -> 7

\* The archive that an action set asks for.
Manual(old, set) ==
  LET action(n) == set[ManualState(old, n)]
      new == {n \in DOMAIN old \cup OnDisk : action(n) # 0}
  IN  [n \in new |-> CASE action(n) = 1 -> old[n]
                       [] action(n) = 2 -> DiskData(old, n) [] OTHER -> Anti]

\* c is that archive, but for names the user was warned of.
Matches(c, old, set) ==
  LET wanted == Manual(old, set) IN
  \A n \in Name \ warned : /\ n \in DOMAIN c <=> n \in DOMAIN wanted
                           /\ n \in DOMAIN c => c[n] = wanted[n]
-----------------------------------------------------------------------------
(* The end of a run                                                        *)

\* ~CTempFiles and the exit code: 2 stands for every code of a failed run.
Return(code) ==
  /\ pc' = "done"
  /\ exit' = code
  /\ files' = [p \in Path |-> IF p \in paths THEN NoFile ELSE files[p]]
  /\ paths' = {}
  /\ UNCHANGED <<run, ci, archive, dirItems, plan, written, warned, made, kept>>

\* Any error and any break by the user before Paths.Clear.
Fails ==
  /\ pc \in {"open", "scan", "check", "create", "item", "close", "leave"}
  /\ Return(2)

\* SIGKILL: nothing is cleaned up, and what the program knew is gone.
Killed ==
  /\ pc \notin {"idle", "done"}
  /\ pc' = "idle"
  /\ archive' = NoFile /\ written' = Empty
  /\ dirItems' = <<>> /\ plan' = <<>>
  /\ paths' = {} /\ warned' = {} /\ made' = {}
  /\ ci' = 1 /\ exit' = 0
  /\ UNCHANGED <<files, run, kept>>
-----------------------------------------------------------------------------
(* UpdateArchive                                                           *)

\* The archive of a run that was not killed becomes what has to survive.
Start ==
  /\ pc \in {"idle", "done"}
  /\ runs < MaxRuns
  /\ \E list \in CommandLists : cmds' = list
  /\ \E i \in IF runs = 0 THEN Relevant(files["arc"].items) ELSE LaterInputs : in' = i
  /\ runs' = runs + 1
  /\ pc' = "open"
  /\ ci' = 1
  /\ archive' = NoFile
  /\ dirItems' = <<>> /\ plan' = <<>>
  /\ written' = Empty
  /\ paths' = {} /\ warned' = {} /\ made' = {}
  /\ before' = files
  /\ kept' = IF files["arc"].state = "whole" THEN {files["arc"].items} ELSE kept
  /\ exit' = 0
  /\ UNCHANGED <<files, place>>

\* arcLink.Open2.  What is not an archive cannot be opened.
Open ==
  /\ pc = "open"
  /\ files["arc"] # Partial
  /\ archive' = files["arc"]
  /\ pc' = "scan"
  /\ UNCHANGED <<files, run, ci, dirItems, plan, written, paths, warned, exit, made, kept>>

OpensNot ==
  /\ pc = "open"
  /\ files["arc"] = Partial
  /\ Return(2)

NeedScanning(set) == \E i \in 1..7 : set[i] = 2 \/ (i > 1 /\ set[i] # 0)

\* The elements of a sequence that are in T.
Only(s, T) ==
  LET upTo[k \in 0..Len(s)] ==
        IF k = 0 THEN <<>>
        ELSE IF s[k] \in T THEN Append(upTo[k - 1], s[k]) ELSE upTo[k - 1]
  IN  upTo[Len(s)]

InOrder(S) == Only([i \in Name |-> i], S)

\* The names of S in order, the first one twice if the command line lists it
\* in two directories.
Sorted(S) ==
  LET names == InOrder(S) IN
  IF in.twice /\ S # {} THEN <<Head(names)>> \o names ELSE names

\* EnumerateItems; a path that cannot be found is put into CantFindFiles.
Scan ==
  /\ pc = "scan"
  /\ IF \E i \in DOMAIN cmds : NeedScanning(cmds[i].set)
     THEN \E lost \in SUBSET OnDisk : /\ dirItems' = Sorted(OnDisk \ lost)
                                      /\ warned' = lost
     ELSE UNCHANGED <<dirItems, warned>>
  /\ pc' = "check"
  /\ UNCHANGED <<files, run, ci, archive, plan, written, paths, exit, made, kept>>

IsOpen == archive # NoFile
UpdateArchiveItself == cmds # <<>> /\ cmds[1].dest = "arc"
CreateTempFile == UpdateArchiveItself /\ (IsOpen \/ place.workDir)

\* "The file already exists": for every archive but the one made by a temp file.
Check ==
  /\ pc = "check"
  /\ IF \E i \in DOMAIN cmds : (i > 1 \/ ~CreateTempFile) /\ Has(cmds[i].dest)
     THEN Return(2)
     ELSE /\ pc' = IF cmds = <<>> THEN "leave" ELSE "create"
          /\ UNCHANGED <<files, run, ci, archive, dirItems, plan, written, paths,
                         warned, exit, made, kept>>
-----------------------------------------------------------------------------
(* GetUpdatePairInfoList and UpdateProduce                                 *)

\* Mutant of PairState: the times are compared the other way round.
PairStateSwapped(n) == [older |-> 5, newer |-> 4, same |-> 6, unclear |-> 7][in.kind[n]]

PairState(n) == [older |-> 4, newer |-> 5, same |-> 6, unclear |-> 7][in.kind[n]]

ArcState(n) == IF in.masked[n] THEN 2 ELSE 1

\* A step of the merge: the smaller of the next two names, or both if they are the same.
Merged(dir, arc, m) ==
  LET fromDir == /\ m.dirIndex <= Len(dir)
                 /\ m.arcIndex <= Len(arc) => dir[m.dirIndex] <= arc[m.arcIndex]
      fromArc == /\ m.arcIndex <= Len(arc)
                 /\ m.dirIndex <= Len(dir) => arc[m.arcIndex] <= dir[m.dirIndex]
      name == IF fromDir THEN dir[m.dirIndex] ELSE arc[m.arcIndex]
      state == IF ~fromArc THEN 3 ELSE IF fromDir THEN PairState(name) ELSE ArcState(name)
  IN  IF fromDir \/ fromArc
      THEN [dirIndex |-> IF fromDir THEN m.dirIndex + 1 ELSE m.dirIndex,
            arcIndex |-> IF fromArc THEN m.arcIndex + 1 ELSE m.arcIndex,
            pairs |-> Append(m.pairs, [name |-> name, state |-> state])]
      ELSE m

\* The merge of the two sorted lists: one pair for each name.
UpdatePairs(dir, arc) ==
  LET after[k \in 0..(Len(dir) + Len(arc))] ==
        IF k = 0 THEN [dirIndex |-> 1, arcIndex |-> 1, pairs |-> <<>>]
        ELSE Merged(dir, arc, after[k - 1])
  IN  after[Len(dir) + Len(arc)].pairs

\* The items of the new archive; what is ignored has none.
Produce(pairs, set) ==
  LET chosen == Only(pairs, {p \in [name : Name, state : 1..7] : set[p.state] # 0})
  IN  [i \in DOMAIN chosen |-> [name |-> chosen[i].name, action |-> set[chosen[i].state]]]

\* TestDuplicateString, a file that collides with an item not matched by the
\* wildcard, and the collisions of UpdateProduce: all of them throw.
Throws ==
  LET arc == DOMAIN archive.items
      set == cmds[ci].set
      pairs == UpdatePairs(dirItems, InOrder(arc))
  IN  \/ \E i \in 1..(Len(dirItems) - 1) : dirItems[i] = dirItems[i + 1]
      \/ \E i \in DOMAIN dirItems : dirItems[i] \in arc /\ ~in.masked[dirItems[i]]
      \/ \E i \in DOMAIN pairs : \/ pairs[i].state = 3 /\ set[3] = 1
                                 \/ pairs[i].state < 3 /\ set[pairs[i].state] = 2
-----------------------------------------------------------------------------
(* Compress                                                                *)

IsTemp == ci = 1 /\ CreateTempFile

\* Mutant of OutPaths: the file is opened without O_EXCL.
OutPathsAny == IF IsTemp THEN {TempPath[1]} ELSE {cmds[ci].dest}

\* The first of the temporary names that is free, or the path of the command.
OutPaths ==
  IF IsTemp
  THEN {TempPath[i] : i \in {j \in DOMAIN TempPath :
         ~Has(TempPath[j]) /\ \A k \in 1..(j - 1) : Has(TempPath[k])}}
  ELSE {cmds[ci].dest} \ {p \in Path : Has(p)}

Arrange ==
  plan' = Produce(UpdatePairs(dirItems, InOrder(DOMAIN archive.items)), cmds[ci].set)

\* Mutant of Remember: the new archive is not put into the list.
RememberNot(p) == paths' = paths

\* tempFiles.Paths.Add
Remember(p) == paths' = paths \cup {p}

Create ==
  /\ pc = "create"
  /\ ~Throws
  /\ Arrange
  /\ \E p \in OutPaths :
       /\ files' = [files EXCEPT ![p] = Partial]
       /\ made' = made \cup {p}
       /\ Remember(p)
  /\ written' = Empty
  /\ pc' = "item"
  /\ UNCHANGED <<run, ci, archive, dirItems, warned, exit, kept>>

CreatesNot ==
  /\ pc = "create"
  /\ Throws \/ OutPaths = {}
  /\ Return(2)

\* UpdateItems: the next item is copied, or compressed, or becomes an anti-item.
Item ==
  /\ pc = "item" /\ plan # <<>>
  /\ LET n == Head(plan).name
         data == CASE Head(plan).action = 1 -> archive.items[n]
                   [] Head(plan).action = 2 -> DiskData(archive.items, n)
                   [] OTHER -> Anti
     IN  written' = With(written, n, data)
  /\ plan' = Tail(plan)
  /\ UNCHANGED <<files, run, pc, ci, archive, dirItems, paths, warned, exit, made, kept>>

\* OpenFileError returns S_FALSE: the handler leaves the item out.
ItemOpensNot ==
  /\ pc = "item" /\ plan # <<>>
  /\ Head(plan).action = 2
  /\ warned' = warned \cup {Head(plan).name}
  /\ plan' = Tail(plan)
  /\ UNCHANGED <<files, run, pc, ci, archive, dirItems, written, paths, exit, made, kept>>

\* The file being written: the last one this command created.
OutPath == IF IsTemp THEN CHOOSE p \in paths : p # "other" ELSE cmds[ci].dest

Close ==
  /\ pc = "item" /\ plan = <<>>
  /\ files' = [files EXCEPT ![OutPath] = Whole(written)]
  /\ kept' = IF /\ cmds[ci].dest = "arc" /\ kept # {}
                /\ Matches(written, archive.items, cmds[ci].set)
             THEN kept \cup {written} ELSE kept
  /\ IF ci = Len(cmds) THEN pc' = "leave" /\ UNCHANGED ci
     ELSE pc' = "create" /\ ci' = ci + 1
  /\ UNCHANGED <<run, archive, dirItems, plan, written, paths, warned, exit, made>>
-----------------------------------------------------------------------------
(* The new archive takes the place of the old one                          *)

Temp == CHOOSE p \in made : p \notin {"arc", "other"}
ExitCode == IF warned = {} THEN 0 ELSE 1
Unwind == <<run, ci, archive, dirItems, plan, written, warned, made, kept>>

\* Mutant of ClearPaths: the list is kept until the end.
ClearPathsNot ==
  /\ pc = "leave"
  /\ UNCHANGED paths
  /\ IF CreateTempFile
     THEN pc' = (IF IsOpen THEN "delete" ELSE "move") /\ UNCHANGED exit
     ELSE pc' = "done" /\ exit' = ExitCode
  /\ UNCHANGED <<files, Unwind>>

\* arcLink.Close and Paths.Clear
ClearPaths ==
  /\ pc = "leave"
  /\ paths' = {}
  /\ IF CreateTempFile
     THEN pc' = (IF IsOpen THEN "delete" ELSE "move") /\ UNCHANGED exit
     ELSE pc' = "done" /\ exit' = ExitCode
  /\ UNCHANGED <<files, Unwind>>

DeleteFileAlways ==
  /\ pc = "delete"
  /\ \/ files' = [files EXCEPT !["arc"] = NoFile] /\ pc' = "move"
        /\ UNCHANGED <<paths, exit, Unwind>>
     \/ Return(2)

\* MyMoveFile on one device, and its failure.
Rename ==
  /\ pc = "move"
  /\ \/ /\ ~place.away
        /\ files' = [files EXCEPT !["arc"] = files[Temp], ![Temp] = NoFile]
        /\ pc' = "done" /\ exit' = ExitCode
        /\ UNCHANGED <<paths, Unwind>>
     \/ Return(2)

\* EXDEV: CopyFile creates the archive.
CopyFile ==
  /\ pc = "move" /\ place.away
  /\ ~Has("arc")
  /\ files' = [files EXCEPT !["arc"] = Partial]
  /\ made' = made \cup {"arc"}
  /\ pc' = "copy"
  /\ UNCHANGED <<paths, exit, run, ci, archive, dirItems, plan, written, warned, kept>>

\* copy_fd goes on after every write of at least one byte: if the last one is
\* short, the bytes that are missing go unnoticed.  A failed write ends it.
CopyFd ==
  /\ pc = "copy"
  /\ \/ files' = [files EXCEPT !["arc"] = files[Temp]] /\ pc' = "unlink"
        /\ UNCHANGED <<paths, exit, Unwind>>
     \/ ShortWrites /\ pc' = "unlink" /\ UNCHANGED <<files, paths, exit, Unwind>>
     \/ Return(2)

\* stat, chmod and unlink of the temporary file
Unlink ==
  /\ pc = "unlink"
  /\ \/ files' = [files EXCEPT ![Temp] = NoFile]
        /\ pc' = "done" /\ exit' = ExitCode
        /\ UNCHANGED <<paths, Unwind>>
     \/ Return(2)
-----------------------------------------------------------------------------
(* The initial archives hold data of version 1; another file may be there. *)
InitialFile == {NoFile} \cup {Whole([n \in S |-> 1]) : S \in SUBSET Name}

Init ==
  /\ files \in {[p \in Path |-> IF p = "arc" THEN a ELSE IF p = "other" THEN o ELSE NoFile] :
                  a \in InitialFile, o \in {NoFile, Whole(Empty)}}
  /\ place \in [workDir : BOOLEAN, away : BOOLEAN]
  /\ runs = 0 /\ pc = "idle"
  /\ in = [kind |-> [n \in Name |-> "absent"], masked |-> [n \in Name |-> TRUE],
           twice |-> FALSE]
  /\ cmds = <<>> /\ ci = 1
  /\ archive = NoFile
  /\ dirItems = <<>> /\ plan = <<>> /\ written = Empty
  /\ paths = {} /\ warned = {} /\ exit = 0
  /\ before = files /\ made = {} /\ kept = {}

Next ==
  \/ Start \/ Open \/ OpensNot \/ Scan \/ Check \/ Create \/ CreatesNot
  \/ Item \/ ItemOpensNot \/ Close \/ ClearPaths \/ DeleteFileAlways \/ Rename
  \/ CopyFile \/ CopyFd \/ Unlink \/ Fails \/ Killed

Spec == Init /\ [][Next]_vars
-----------------------------------------------------------------------------
(* Correctness                                                             *)

TypeOK ==
  /\ files \in [Path -> File] /\ before \in [Path -> File] /\ archive \in File
  /\ place \in [workDir : BOOLEAN, away : BOOLEAN]
  /\ runs \in 0..MaxRuns /\ in \in Inputs /\ cmds \in CommandLists \cup {<<>>}
  /\ ci \in 1..3 /\ exit \in 0..2
  /\ dirItems \in Seq(Name) /\ plan \in Seq([name : Name, action : 1..3])
  /\ written \in Contents /\ kept \subseteq Contents
  /\ paths \subseteq made /\ made \subseteq Path /\ warned \subseteq Name

\* Whenever and however often the program is killed, and whichever system call
\* fails, some whole file holds the archive as it was or as the manual wants it:
\* the old one is deleted only when the new one is complete, and from then on
\* the temporary file is no longer in the list of files to be removed.
CopiesSurvive ==
  kept # {} => \E p \in Path : files[p].state = "whole" /\ files[p].items \in kept

\* A run that ends with an error has changed nothing and left nothing behind, or
\* it failed when it replaced the archive, and the complete new one is there.
FailureChangesNothing ==
  pc = "done" /\ exit = 2 =>
    \/ files = before
    \/ \E p \in made : /\ files[p].state = "whole" /\ p # "other"
                       /\ Matches(files[p].items, archive.items, cmds[1].set)

\* Exit code 0 means that every archive the command line names is what the
\* manual's table makes of the old archive and the disk; 1 that only names the
\* user was warned of differ; and nothing but these archives has changed.
SuccessMatchesManual ==
  pc = "done" /\ exit < 2 =>
    /\ exit = 0 <=> warned = {}
    /\ \A i \in DOMAIN cmds :
         /\ files[cmds[i].dest].state = "whole"
         /\ Matches(files[cmds[i].dest].items, archive.items, cmds[i].set)
    /\ \A p \in Path : (\A i \in DOMAIN cmds : p # cmds[i].dest) => files[p] = before[p]

\* A run changes and deletes no file it found, not even what an earlier run that
\* was killed has left, but for the old archive after the new one is complete.
OnlyOwnFiles ==
  [][\A p \in Path : files'[p] # files[p] =>
       \/ before[p] = NoFile
       \/ p = "arc" /\ \E q \in made : files[q].state = "whole"]_vars
=============================================================================
