----------------------------- MODULE MCArchives -----------------------------
(***************************************************************************)
(* Instances of StreamBinder, ZipUpdateMt and FolderRepack for TLC: the    *)
(* binder, and the threads of the two archive formats that are updated; a  *)
(* behaviour belongs to one of them.                                       *)
(***************************************************************************)
EXTENDS ZipUpdateMt, BinderSizes, OldFolders

VARIABLES part,
  bThereAreBytesToRead, bAllBytesAreWritten, bReadStreamIsClosed, bBuffer,
  bBufferSize, bWpc, bSize, bResult, bOffered, bRpc, bSizeToRead, bReceived,
  rFolders, rMain, rRep, rRet, rStatuses, rNewDb, rEof, rAt, rEv, rResult, rFos,
  rOut, rSent, rWriter, rReader, rWritten, rOffered, rReceived

\* Files of one and of more blocks than the pool may have left, one of them given to
\* the archive twice, and an item that is copied.
mcItems == << <<2, 1>>, <<>>, <<2, 1>>, <<3>>, <<1>> >>

Stays(n) == [size |-> n, wanted |-> TRUE]
Goes(n) == [size |-> n, wanted |-> FALSE]

\* Files that go before, between and after those that stay, empty files at the start
\* and between, a folder that is copied, and folders that are unpacked in turn.
oneFolder == <<<<Goes(0), Stays(2), Goes(0), Goes(1), Stays(1)>>>>
fourFolders == <<<<Goes(1), Stays(2)>>, <<Stays(1), Goes(0), Stays(1)>>,
                 <<Stays(1), Goes(2)>>, <<Goes(0), Stays(1), Goes(1), Stays(1)>>>>
mcDatabases == {oneFolder, fourFolders}

B == INSTANCE StreamBinder WITH
  thereAreBytesToRead <- bThereAreBytesToRead, allBytesAreWritten <- bAllBytesAreWritten,
  readStreamIsClosed <- bReadStreamIsClosed, buffer <- bBuffer,
  bufferSize <- bBufferSize, wpc <- bWpc, size <- bSize, result <- bResult,
  offered <- bOffered, rpc <- bRpc, sizeToRead <- bSizeToRead, received <- bReceived
R == INSTANCE FolderRepack WITH
  folders <- rFolders, main <- rMain, rep <- rRep, ret <- rRet,
  statuses <- rStatuses, newDb <- rNewDb, eof <- rEof, at <- rAt, ev <- rEv,
  Result <- rResult, fos <- rFos, out <- rOut, sent <- rSent, writer <- rWriter,
  reader <- rReader, result <- rWritten, offered <- rOffered, received <- rReceived

bVars == <<bThereAreBytesToRead, bAllBytesAreWritten, bReadStreamIsClosed, bBuffer,
           bBufferSize, bWpc, bSize, bResult, bOffered, bRpc, bSizeToRead, bReceived>>
rVars == <<rFolders, rMain, rRep, rRet, rStatuses, rNewDb, rEof, rAt, rEv, rResult,
           rFos, rOut, rSent, rWriter, rReader, rWritten, rOffered, rReceived>>
mcVars == <<part, vars, bVars, rVars>>

mcInit ==
  /\ \/ part \in {"binder", "zip"} /\ rFolders = CHOOSE d \in Databases : TRUE
     \/ part = "repack"
  /\ Init /\ B!Init /\ R!Init

Binder(A) == part = "binder" /\ A /\ UNCHANGED <<part, vars, rVars>>
Zip(A) == part = "zip" /\ A /\ UNCHANGED <<part, bVars, rVars>>
Repack(A) == part = "repack" /\ A /\ UNCHANGED <<part, vars, bVars>>

mcNext == Binder(B!Next) \/ Zip(Next) \/ Repack(R!Next)

\* The fairness of the parts: of a caller (or the writer of the binder), and of the
\* threads by their number (or the reader).
mcMainStep == Binder(B!WriterStep) \/ Zip(MainNext) \/ Repack(R!MainStep)
mcThreadStep(t) ==
  \/ Zip(Proceed(t))
  \/ t = 1 /\ (Binder(B!ReaderStep) \/ Repack(R!ThreadStep))

mcSpec ==
  /\ mcInit /\ [][mcNext]_mcVars
  /\ WF_mcVars(mcMainStep)
  /\ \A t \in Thread : WF_mcVars(mcThreadStep(t))
  /\ SF_mcVars(Binder(B!CloseWrite)) /\ SF_mcVars(Binder(B!CloseRead))

\* The memory that Read of the binder copies from belongs to a Write that has not
\* returned, and holds the bytes that Read has not delivered yet.
BufferIsValid == B!BufferIsValid

\* The binder is a pipe, over any number of files.
ImplementsPipe == B!ImplementsPipe

\* No coder is left blocked in a Write or a Read of the binder.
CallsReturn == B!CallsReturn

\* An update of zip that succeeds has every item; one of 7z has taken over the
\* right bytes of every folder.
UpdatesAreComplete == SuccessIsComplete /\ R!FoldersAreRight

\* The updates of both formats return, whatever fails.
UpdatesReturn ==
  <>(IF part = "zip" THEN mpc = "done" ELSE part = "repack" => rMain = "ended")

\* A failed encoder does not bring the program down.
StatusesOutliveDecoder == R!StatusesOutliveDecoder
=============================================================================
