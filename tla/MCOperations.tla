--------------------------- MODULE MCOperations ---------------------------
(***************************************************************************)
(* Instances of UpdateArchive and of Extract for TLC, the operations of    *)
(* the console program, and of the streams that archives are written       *)
(* through; a behaviour belongs to one of them.                            *)
(***************************************************************************)
EXTENDS MCUpdateArchive, MCOutStreams, ToExtract

VARIABLES part, xDisk, xAsked, xEfis, xMode, xPc, xEfi, xCur, xFile, xOut,
  xFlush, xResults, xErrors, xAgreed,
  cPhys, cFilePos, cPhyPos, cPhySize, cVirtPos, cVirtSize, cCachedPos,
  cCachedSize, cCache, cPc, cData, cLeft, cFailed,
  vVols, vStreamIndex, vOffsetPos, vAbsPos, vPc, vData, vSkipped, vFailed

It(size, path) ==
  [size |-> size, anti |-> FALSE, path |-> path, crcDefined |-> size > 0]
NoCrc(item) == [item EXCEPT !.crcDefined = FALSE]
AntiIt(path) == [It(0, path) EXCEPT !.anti = TRUE]

\* An empty item in the middle of a folder, before one and between two; two items
\* of the same name in one folder and in two; an anti-item; items without a CRC
\* before and after one that has it.
mcArchives ==
  {[items |-> <<It(2, "a"), It(0, "b"), NoCrc(It(1, "b"))>>, folders |-> <<2>>],
   [items |-> <<It(0, "b"), It(1, "a"), It(1, "a")>>, folders |-> <<1, 1>>],
   [items |-> <<NoCrc(It(1, "a")), It(0, "a"), It(1, "b")>>, folders |-> <<1, 1>>],
   [items |-> <<It(1, "a"), AntiIt("a"), It(1, "a")>>, folders |-> <<2>>]}

\* The user has no file, or a, or a and a_2.
NoFiles == [p \in DiskPath |-> <<-1>>]
mcDisks ==
  {NoFiles} \cup {[p \in DiskPath |-> IF p \in S \cup {<<"a", 0>>}
                                            THEN <<-2 - p[2]>> ELSE <<-1>>] :
                    S \in {{}, {<<"a", 2>>}}}

X == INSTANCE Extract WITH
  disk <- xDisk, asked <- xAsked, efis <- xEfis, mode <- xMode, pc <- xPc,
  efi <- xEfi, cur <- xCur, file <- xFile, out <- xOut, flush <- xFlush,
  results <- xResults, errors <- xErrors, agreed <- xAgreed

C == INSTANCE CacheOutStream WITH
  phys <- cPhys, filePos <- cFilePos, phyPos <- cPhyPos, phySize <- cPhySize,
  virtPos <- cVirtPos, virtSize <- cVirtSize, cachedPos <- cCachedPos,
  cachedSize <- cCachedSize, cache <- cCache, pc <- cPc, data <- cData,
  left <- cLeft, failed <- cFailed
V == INSTANCE OutMultiVolStream WITH
  vols <- vVols, streamIndex <- vStreamIndex, offsetPos <- vOffsetPos,
  absPos <- vAbsPos, pc <- vPc, data <- vData, skipped <- vSkipped, failed <- vFailed

xVars == <<xDisk, xAsked, xEfis, xMode, xPc, xEfi, xCur, xFile, xOut, xFlush,
           xResults, xErrors, xAgreed>>
cVars == <<cPhys, cFilePos, cPhyPos, cPhySize, cVirtPos, cVirtSize, cCachedPos,
           cCachedSize, cCache, cPc, cData, cLeft, cFailed>>
vVars == <<vVols, vStreamIndex, vOffsetPos, vAbsPos, vPc, vData, vSkipped, vFailed>>
mcVars == <<part, vars, xVars, cVars, vVars>>

\* Of the parts that a behaviour does not belong to, one initial state.
NoUpdate ==
  /\ files = [p \in Path |-> NoFile] /\ place = [workDir |-> FALSE, away |-> FALSE]
  /\ Init
NoExtract ==
  LET a == CHOOSE a \in Archives : TRUE
      d == CHOOSE d \in Disks : TRUE
  IN  /\ xDisk = d /\ xMode = "ask"
      /\ xAsked = [arc |-> a, wanted |-> DOMAIN a.items, test |-> TRUE,
                    checkCrc |-> TRUE, disk |-> d]
      /\ X!Init

mcInit ==
  /\ \/ part = "update" /\ Init /\ NoExtract
     \/ part = "extract" /\ X!Init /\ NoUpdate
     \/ part \in {"cache", "volumes"} /\ NoUpdate /\ NoExtract
  /\ C!Init /\ V!Init

mcNext ==
  \/ part = "update" /\ Next /\ UNCHANGED <<part, xVars, cVars, vVars>>
  \/ part = "extract" /\ X!Next /\ UNCHANGED <<part, vars, cVars, vVars>>
  \/ part = "cache" /\ C!Next /\ UNCHANGED <<part, vars, xVars, vVars>>
  \/ part = "volumes" /\ V!Next /\ UNCHANGED <<part, vars, xVars, cVars>>

mcSpec == mcInit /\ [][mcNext]_mcVars

\* No file of the user is lost without consent by an extraction.
NothingLostUnasked == part = "extract" => X!NothingLostUnasked

\* Every item asked for is reported once, in order, with its own result.
EachItemReportedOnce == part = "extract" => X!EachItemReportedOnce

\* Exit code 0 of an extraction means that the files are there.
SuccessIsExtracted == part = "extract" => X!SuccessIsExtracted

\* The fields of the cached stream of zip agree with the file below (and those of
\* the volumes have their types).
FieldsAgree ==
  /\ part = "cache" => C!FieldsAgree
  /\ part = "volumes" => V!TypeOK

\* The cached stream of zip is a plain file.
ImplementsOutFile ==
  C!O!Init /\ [][part = "cache" /\ C!O!Next]_(C!O!fileVars)

\* The volumes of an archive put together are a plain file.
VolumesImplementOutFile ==
  V!O!Init /\ [][part = "volumes" /\ V!O!Next]_(V!O!fileVars)
=============================================================================
