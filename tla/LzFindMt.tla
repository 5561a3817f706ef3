------------------------------ MODULE LzFindMt ------------------------------
(***************************************************************************)
(* C/LzFindMt.c, the multithreaded match finder of the LZMA encoder.  The  *)
(* thread "hash" puts blocks of hash heads into the ring hashBuf; "bt"     *)
(* takes them and puts blocks of matches into the ring btBuf; "lz", the    *)
(* thread of the encoder, takes those.  A CMtSync object joins a producer  *)
(* and its consumer: two semaphores count the free and the filled blocks   *)
(* of the ring, three events start and stop the producer, and the consumer *)
(* holds the mutex cs while it uses a block, so that "hash", which moves   *)
(* the window, can wait until nobody reads it.                             *)
(*                                                                         *)
(* A block is the range of positions it is about.  The file is read ahead  *)
(* by MatchFinder_ReadIfRequired as a whole, and the match lists, the hash *)
(* tables and their normalisation are left out.  LzmaEnc.c calls the       *)
(* functions in this order: Create, then for every file Init, GetNextBlock *)
(* as long as there is data, ReleaseStream; at the end Destruct.           *)
(***************************************************************************)
EXTENDS Integers

CONSTANTS
  NumHashBlocks, NumBtBlocks,   \* kMtHashNumBlocks, kMtBtNumBlocks
  HashBlockSize, BtBlockSize,   \* the most positions in a block of each ring
  NumHashBytes,                 \* CMatchFinder::numHashBytes
  MaxLen                        \* bound on the size of a file

ASSUME LzFindMtAssumption ==
  /\ NumHashBlocks \in Nat \ {0} /\ NumBtBlocks \in Nat \ {0}
  /\ HashBlockSize \in Nat \ {0} /\ BtBlockSize \in Nat \ {0}
  /\ NumHashBytes \in 2..4 /\ MaxLen \in Nat

Thread == {"lz", "bt", "hash"}
Sync == {"bt", "hash"}     \* btSync and hashSync, named like their producers

VARIABLES
  sync,       \* [Sync -> CMtSync]
  pc,         \* [Thread -> place]
  mine,       \* [Sync -> Int]: myNumBlocks in MtSync_StopWriting
  produced,   \* [Sync -> Nat]: blocks produced since canStart (a local variable)
  hashBuf, btBuf,   \* the rings: [slot -> block]
  len,        \* size of the present file
  hashPos, moved,   \* mf->pos; no block since the last MoveBlock
  btPos,      \* the first position without a list in btBuf
  btAvail,    \* hashNumAvail
  btHave,     \* hashBufPosLimit - hashBufPos
  btNum, btHead,    \* number of lists and distances[1] in the block "bt" fills
  lzPos,      \* the first position of the block that "lz" holds or asks for
  lzBlock     \* that block

btVars == <<btPos, btAvail, btHave, btNum, btHead>>
lzVars == <<lzPos, lzBlock>>
hashVars == <<hashPos, moved>>
dataVars == <<produced, hashBuf, btBuf, len, hashVars, btVars, lzVars>>
vars == <<sync, pc, mine, dataVars>>

Uses == [lz |-> "bt", bt |-> "hash"]   \* the sync object of a consumer
NumBlocks == [bt |-> NumBtBlocks, hash |-> NumHashBlocks]

\* limit in BtGetMatches leaves room for the last bytes of a file.
MostLists == BtBlockSize + NumHashBytes - 1

\* A block of positions from first on.  avail is the number of bytes from
\* there to the end of the file; a hash block without heads ends the file.
Block == [first : 0..MaxLen, num : 0..MaxLen, avail : 0..MaxLen]
Stale == [first |-> -1, num |-> 0, avail |-> 0]   \* of an earlier file

CMtSync == [s \in Sync |->
  [needStart : BOOLEAN, exit : BOOLEAN, stopWriting : BOOLEAN,
   canStart : BOOLEAN, wasStarted : BOOLEAN, wasStopped : BOOLEAN,
   freeSemaphore : 0..NumBlocks[s], filledSemaphore : 0..NumBlocks[s],
   cs : Thread \cup {"none"}, csWasEntered : BOOLEAN, numProcessedBlocks : Nat]]

\* Places of producers, then of consumers in MtSync_GetNextBlock ("get...")
\* and MtSync_StopWriting ("stop..."), then of "lz" alone.
Place == {"canStart", "wasStarted", "test", "wasStopped", "free", "filled", "exited",
          "moveBt", "moveHash", "move", "moveLeave", "block",
          "stopHash", "fillEnter", "fill", "fillLeave",
          "getStarted", "getFree", "getFilled", "getEnter", "take",
          "stopLeave", "stopFree", "stopWait", "stopDrain",
          "idle", "use", "exitHash", "joinHash", "exitBt", "joinBt", "destructed"}

TypeOK ==
  /\ \A s \in Sync : sync[s] \in CMtSync[s]
  /\ pc \in [Thread -> Place]
  /\ mine \in [Sync -> Nat] /\ produced \in [Sync -> Nat]
  /\ hashBuf \in [0..(NumHashBlocks - 1) -> Block \cup {Stale}]
  /\ btBuf \in [0..(NumBtBlocks - 1) -> Block \cup {Stale}]
  /\ len \in 0..MaxLen /\ hashPos \in 0..len /\ moved \in BOOLEAN
  /\ btPos \in 0..len /\ btAvail \in 0..len
  /\ btHave \in 0..HashBlockSize /\ btNum \in 0..MostLists /\ btHead \in 0..len
  /\ lzPos \in 0..len /\ lzBlock \in Block \cup {Stale}

\* After MatchFinderMt_Create.
Init ==
  /\ sync = [s \in Sync |->
       [needStart |-> TRUE, exit |-> FALSE, stopWriting |-> FALSE,
        canStart |-> FALSE, wasStarted |-> FALSE, wasStopped |-> FALSE,
        freeSemaphore |-> NumBlocks[s], filledSemaphore |-> 0,
        cs |-> "none", csWasEntered |-> FALSE, numProcessedBlocks |-> 0]]
  /\ pc = [t \in Thread |-> IF t = "lz" THEN "idle" ELSE "canStart"]
  /\ mine = [s \in Sync |-> 0] /\ produced = [s \in Sync |-> 0]
  /\ hashBuf = [k \in 0..(NumHashBlocks - 1) |-> Stale]
  /\ btBuf = [k \in 0..(NumBtBlocks - 1) |-> Stale]
  /\ len = 0 /\ hashPos = 0 /\ moved = FALSE
  /\ btPos = 0 /\ btAvail = 0 /\ btHave = 0 /\ btNum = 0 /\ btHead = 0
  /\ lzPos = 0 /\ lzBlock = Stale

GoTo(t, place) == pc' = [pc EXCEPT ![t] = place]

\* Semaphore_Release1 does nothing if the count is at its maximum.
Released(count, s) == IF count < NumBlocks[s] THEN count + 1 ELSE count

-----------------------------------------------------------------------------
(* MtSync_GetNextBlock(s), called by the consumer c of s.                  *)

GetNextBlock(c, s) ==
  IF sync[s].needStart
  THEN /\ sync' = [sync EXCEPT ![s] = [@ EXCEPT
            !.numProcessedBlocks = 1, !.needStart = FALSE,
            !.stopWriting = FALSE, !.exit = FALSE,
            !.wasStarted = FALSE, !.wasStopped = FALSE, !.canStart = TRUE]]
       /\ GoTo(c, "getStarted")
  ELSE /\ sync' = [sync EXCEPT ![s].cs = "none", ![s].csWasEntered = FALSE,
                               ![s].numProcessedBlocks = @ + 1]
       /\ GoTo(c, "getFree")

GetWaitStarted(c, s) ==
  /\ pc[c] = "getStarted" /\ sync[s].wasStarted
  /\ sync' = [sync EXCEPT ![s].wasStarted = FALSE]
  /\ GoTo(c, "getFilled")
  /\ UNCHANGED <<mine, dataVars>>

\* A slip: the block that was used up is not given back.
GetReleaseFreeNot(c, s) ==
  /\ pc[c] = "getFree"
  /\ GoTo(c, "getFilled")
  /\ UNCHANGED <<sync, mine, dataVars>>

GetReleaseFree(c, s) ==
  /\ pc[c] = "getFree"
  /\ sync' = [sync EXCEPT ![s].freeSemaphore = Released(@, s)]
  /\ GoTo(c, "getFilled")
  /\ UNCHANGED <<mine, dataVars>>

GetWaitFilled(c, s) ==
  /\ pc[c] = "getFilled" /\ sync[s].filledSemaphore > 0
  /\ sync' = [sync EXCEPT ![s].filledSemaphore = @ - 1]
  /\ GoTo(c, "getEnter")
  /\ UNCHANGED <<mine, dataVars>>

GetEnter(c, s) ==
  /\ pc[c] = "getEnter" /\ sync[s].cs = "none"
  /\ sync' = [sync EXCEPT ![s].cs = c, ![s].csWasEntered = TRUE]
  /\ GoTo(c, "take")
  /\ UNCHANGED <<mine, dataVars>>

(* MtSync_StopWriting(s), called by c when the producer was started.       *)

StopWriting(c, s) ==
  /\ mine' = [mine EXCEPT ![s] = sync[s].numProcessedBlocks]
  /\ sync' = [sync EXCEPT ![s].stopWriting = TRUE]
  /\ GoTo(c, "stopLeave")

StopLeave(c, s) ==
  /\ pc[c] = "stopLeave"
  /\ sync' = IF sync[s].csWasEntered
               THEN [sync EXCEPT ![s].cs = "none", ![s].csWasEntered = FALSE]
               ELSE sync
  /\ GoTo(c, "stopFree")
  /\ UNCHANGED <<mine, dataVars>>

StopReleaseFree(c, s) ==
  /\ pc[c] = "stopFree"
  /\ sync' = [sync EXCEPT ![s].freeSemaphore = Released(@, s)]
  /\ GoTo(c, "stopWait")
  /\ UNCHANGED <<mine, dataVars>>

StopWaitStopped(c, s) ==
  /\ pc[c] = "stopWait" /\ sync[s].wasStopped
  /\ sync' = [sync EXCEPT ![s].wasStopped = FALSE]
  /\ GoTo(c, "stopDrain")
  /\ UNCHANGED <<mine, dataVars>>

\* while (myNumBlocks++ != p->numProcessedBlocks)
StopDrain(c, s) ==
  /\ pc[c] = "stopDrain"
  /\ mine[s] # sync[s].numProcessedBlocks
  /\ sync[s].filledSemaphore > 0
  /\ mine' = [mine EXCEPT ![s] = @ + 1]
  /\ sync' = [sync EXCEPT ![s].filledSemaphore = @ - 1,
                          ![s].freeSemaphore = Released(@, s)]
  /\ UNCHANGED <<pc, dataVars>>

\* A slip: the blocks that were produced ahead are not taken back.
StopReturnsAtOnce(c, s) ==
  /\ pc[c] = "stopDrain"
  /\ sync' = [sync EXCEPT ![s].needStart = TRUE]
  /\ GoTo(c, IF c = "lz" THEN "idle" ELSE "wasStopped")
  /\ UNCHANGED <<mine, dataVars>>

StopReturns(c, s) ==
  /\ pc[c] = "stopDrain"
  /\ mine[s] = sync[s].numProcessedBlocks
  /\ sync' = [sync EXCEPT ![s].needStart = TRUE]
  /\ GoTo(c, IF c = "lz" THEN "idle" ELSE "wasStopped")
  /\ UNCHANGED <<mine, dataVars>>

-----------------------------------------------------------------------------
(* What the loops of HashThreadFunc and BtThreadFunc share.                *)

WaitCanStart(p) ==
  /\ pc[p] = "canStart" /\ sync[p].canStart
  /\ sync' = [sync EXCEPT ![p].canStart = FALSE]
  /\ produced' = [produced EXCEPT ![p] = 0]
  /\ GoTo(p, "wasStarted")
  /\ UNCHANGED <<mine, hashBuf, btBuf, len, hashVars, btVars, lzVars>>

SetWasStarted(p) ==
  /\ pc[p] = "wasStarted"
  /\ sync' = [sync EXCEPT ![p].wasStarted = TRUE]
  /\ GoTo(p, "test")
  /\ UNCHANGED <<mine, dataVars>>

Exit(p) ==
  /\ pc[p] = "test" /\ sync[p].exit
  /\ GoTo(p, "exited")
  /\ UNCHANGED <<sync, mine, dataVars>>

SetWasStopped(p) ==
  /\ pc[p] = "wasStopped"
  /\ sync' = [sync EXCEPT ![p].wasStopped = TRUE]
  /\ GoTo(p, "canStart")
  /\ UNCHANGED <<mine, dataVars>>

ReleaseFilled(p) ==
  /\ pc[p] = "filled"
  /\ sync' = [sync EXCEPT ![p].filledSemaphore = Released(@, p)]
  /\ GoTo(p, "test")
  /\ UNCHANGED <<mine, dataVars>>

Goes(p) == pc[p] = "test" /\ ~sync[p].exit

Stops(p) == Goes(p) /\ sync[p].stopWriting
Continues(p) == Goes(p) /\ ~sync[p].stopWriting

-----------------------------------------------------------------------------
(* HashThreadFunc                                                          *)

HashStops ==
  /\ Stops("hash")
  /\ sync' = [sync EXCEPT !["hash"].numProcessedBlocks = produced["hash"]]
  /\ GoTo("hash", "wasStopped")
  /\ UNCHANGED <<mine, dataVars>>

\* MatchFinder_NeedMove; after a move there is room for a block.
HashNeedsMove ==
  /\ Continues("hash") /\ ~moved
  /\ GoTo("hash", "moveBt")
  /\ UNCHANGED <<sync, mine, dataVars>>

MoveEnterBt ==
  /\ pc["hash"] = "moveBt" /\ sync["bt"].cs = "none"
  /\ sync' = [sync EXCEPT !["bt"].cs = "hash"]
  /\ GoTo("hash", "moveHash")
  /\ UNCHANGED <<mine, dataVars>>

\* A slip: only the mutex of btSync is taken.
MoveEnterNot ==
  /\ pc["hash"] = "moveHash"
  /\ GoTo("hash", "move")
  /\ UNCHANGED <<sync, mine, dataVars>>

MoveEnterHash ==
  /\ pc["hash"] = "moveHash" /\ sync["hash"].cs = "none"
  /\ sync' = [sync EXCEPT !["hash"].cs = "hash"]
  /\ GoTo("hash", "move")
  /\ UNCHANGED <<mine, dataVars>>

\* MatchFinder_MoveBlock, and the pointers of the other threads move along.
Move ==
  /\ pc["hash"] = "move"
  /\ sync' = [sync EXCEPT !["bt"].cs = "none"]
  /\ moved' = TRUE
  /\ GoTo("hash", "moveLeave")
  /\ UNCHANGED <<mine, produced, hashBuf, btBuf, len, hashPos, btVars, lzVars>>

MoveLeaveHash ==
  /\ pc["hash"] = "moveLeave"
  /\ sync' = [sync EXCEPT !["hash"].cs = "none"]
  /\ GoTo("hash", "test")
  /\ UNCHANGED <<mine, dataVars>>

HashContinues ==
  /\ Continues("hash")
  /\ GoTo("hash", "free")
  /\ UNCHANGED <<sync, mine, dataVars>>

\* A slip: a block is filled without waiting for a free one.
WaitFreeNot(p) ==
  /\ pc[p] = "free"
  /\ GoTo(p, IF p = "hash" THEN "block" ELSE "fillEnter")
  /\ UNCHANGED <<sync, mine, dataVars>>

WaitFree(p) ==
  /\ pc[p] = "free" /\ sync[p].freeSemaphore > 0
  /\ sync' = [sync EXCEPT ![p].freeSemaphore = @ - 1]
  /\ GoTo(p, IF p = "hash" THEN "block" ELSE "fillEnter")
  /\ UNCHANGED <<mine, dataVars>>

\* The positions of the next hash block: none with a hash at the end.
NumHeads ==
  LET num == len - hashPos - NumHashBytes + 1
  IN  IF num <= 0 THEN 0 ELSE IF num > HashBlockSize THEN HashBlockSize ELSE num

HashFillsBlock ==
  /\ pc["hash"] = "block"
  /\ hashBuf' = [hashBuf EXCEPT ![produced["hash"] % NumHashBlocks] =
                   [first |-> hashPos, num |-> NumHeads, avail |-> len - hashPos]]
  /\ hashPos' = IF NumHeads = 0 THEN len ELSE hashPos + NumHeads
  /\ produced' = [produced EXCEPT !["hash"] = @ + 1]
  /\ moved' = FALSE
  /\ GoTo("hash", "filled")
  /\ UNCHANGED <<sync, mine, btBuf, len, btVars, lzVars>>

-----------------------------------------------------------------------------
(* BtThreadFunc, BtFillBlock and BtGetMatches                              *)

BtStops ==
  /\ Stops("bt")
  /\ sync' = [sync EXCEPT !["bt"].numProcessedBlocks = produced["bt"]]
  /\ GoTo("bt", "stopHash")
  /\ UNCHANGED <<mine, dataVars>>

BtStopsHash ==
  /\ pc["bt"] = "stopHash"
  /\ IF sync["hash"].needStart
       THEN GoTo("bt", "wasStopped") /\ UNCHANGED <<sync, mine>>
       ELSE StopWriting("bt", "hash")
  /\ UNCHANGED dataVars

BtContinues ==
  /\ Continues("bt")
  /\ GoTo("bt", "free")
  /\ UNCHANGED <<sync, mine, dataVars>>

BtFillEnter ==
  /\ pc["bt"] = "fillEnter"
  /\ IF sync["hash"].needStart THEN UNCHANGED sync
       ELSE /\ sync["hash"].cs = "none"
            /\ sync' = [sync EXCEPT !["hash"].cs = "bt", !["hash"].csWasEntered = TRUE]
  /\ btNum' = 0 /\ btHead' = btAvail
  /\ GoTo("bt", "fill")
  /\ UNCHANGED <<mine, produced, hashBuf, btBuf, len, hashVars, btPos, btAvail, btHave, lzVars>>

BtGetsNextBlock ==
  /\ pc["bt"] = "fill" /\ btHave = 0 /\ btNum < BtBlockSize
  /\ GetNextBlock("bt", "hash")
  /\ UNCHANGED <<mine, dataVars>>

\* A slip: numProcessedBlocks instead of numProcessedBlocks - 1.
HashBlockAfter == hashBuf[sync["hash"].numProcessedBlocks % NumHashBlocks]

HashBlock == hashBuf[(sync["hash"].numProcessedBlocks - 1) % NumHashBlocks]

\* The last bytes of the file, which have no hash, get empty lists.
BtTakes ==
  /\ pc["bt"] = "take"
  /\ btHave' = HashBlock.num
  /\ btHead' = btNum + HashBlock.avail
  /\ IF HashBlock.avail >= NumHashBytes
       THEN /\ btAvail' = HashBlock.avail
            /\ GoTo("bt", "fill") /\ UNCHANGED <<btNum, btPos>>
       ELSE /\ btAvail' = 0
            /\ btNum' = btNum + HashBlock.avail
            /\ btPos' = btPos + HashBlock.avail
            /\ GoTo("bt", "fillLeave")
  /\ UNCHANGED <<sync, mine, produced, hashBuf, btBuf, len, hashVars, lzVars>>

BtGetsMatches ==
  /\ pc["bt"] = "fill" /\ btNum < BtBlockSize
  /\ \E k \in 1..btHave :
       /\ btNum + k <= BtBlockSize
       /\ btHave' = btHave - k /\ btAvail' = btAvail - k
       /\ btNum' = btNum + k /\ btPos' = btPos + k
  /\ UNCHANGED <<sync, pc, mine, produced, hashBuf, btBuf, len, hashVars, btHead, lzVars>>

\* curPos >= limit
BtIsFull ==
  /\ pc["bt"] = "fill" /\ btNum > 0
  /\ GoTo("bt", "fillLeave")
  /\ UNCHANGED <<sync, mine, dataVars>>

BtFillLeave ==
  /\ pc["bt"] = "fillLeave"
  /\ btBuf' = [btBuf EXCEPT ![produced["bt"] % NumBtBlocks] =
                 [first |-> btPos - btNum, num |-> btNum, avail |-> btHead]]
  /\ produced' = [produced EXCEPT !["bt"] = @ + 1]
  /\ sync' = IF sync["hash"].needStart THEN sync
               ELSE [sync EXCEPT !["hash"].cs = "none", !["hash"].csWasEntered = FALSE]
  /\ GoTo("bt", "filled")
  /\ UNCHANGED <<mine, hashBuf, len, hashVars, btVars, lzVars>>

-----------------------------------------------------------------------------
(* The thread of the encoder.                                              *)

\* MatchFinderMt_Init for a file of n bytes.  What is left in the rings is
\* not cleared; the model marks it.
InitFile(n) ==
  /\ pc["lz"] = "idle"
  /\ len' = n
  /\ hashBuf' = [k \in DOMAIN hashBuf |-> Stale]
  /\ btBuf' = [k \in DOMAIN btBuf |-> Stale]
  /\ hashPos' = 0 /\ moved' = FALSE
  /\ btPos' = 0 /\ btHave' = 0 /\ btAvail' = 0 /\ btNum' = 0 /\ btHead' = 0
  /\ lzPos' = 0 /\ lzBlock' = Stale
  /\ GoTo("lz", "use")
  /\ UNCHANGED <<sync, mine, produced>>

\* GET_NEXT_BLOCK_IF_REQUIRED, unless GetNumAvailableBytes has returned 0.
LzGetsNextBlock ==
  /\ pc["lz"] = "use"
  /\ lzBlock.first = -1 \/ lzBlock.avail > 0
  /\ lzPos' = lzPos + lzBlock.num
  /\ GetNextBlock("lz", "bt")
  /\ UNCHANGED <<mine, produced, hashBuf, btBuf, len, hashVars, btVars, lzBlock>>

BtBlock == btBuf[(sync["bt"].numProcessedBlocks - 1) % NumBtBlocks]

LzTakes ==
  /\ pc["lz"] = "take"
  /\ lzBlock' = BtBlock
  /\ GoTo("lz", "use")
  /\ UNCHANGED <<sync, mine, produced, hashBuf, btBuf, len, hashVars, btVars, lzPos>>

\* MatchFinderMt_ReleaseStream; the encoder may give up at any time.
ReleaseStream ==
  /\ pc["lz"] = "use"
  /\ IF sync["bt"].needStart
       THEN GoTo("lz", "idle") /\ UNCHANGED <<sync, mine>>
       ELSE StopWriting("lz", "bt")
  /\ UNCHANGED dataVars

\* MatchFinderMt_Destruct: for each CMtSync exit and canStart are set (the
\* thread waits for canStart) and the thread is joined.
Destruct ==
  /\ pc["lz"] = "idle"
  /\ GoTo("lz", "exitHash")
  /\ UNCHANGED <<sync, mine, dataVars>>

SetExit(s, from, to) ==
  /\ pc["lz"] = from
  /\ sync' = [sync EXCEPT ![s].exit = TRUE, ![s].canStart = TRUE]
  /\ GoTo("lz", to)
  /\ UNCHANGED <<mine, dataVars>>

Join(s, from, to) ==
  /\ pc["lz"] = from /\ pc[s] = "exited"
  /\ GoTo("lz", to)
  /\ UNCHANGED <<sync, mine, dataVars>>

Terminating == pc["lz"] = "destructed" /\ UNCHANGED vars

-----------------------------------------------------------------------------
ConsumerStep(c) ==
  LET s == Uses[c]
  IN  \/ GetWaitStarted(c, s) \/ GetReleaseFree(c, s) \/ GetWaitFilled(c, s) \/ GetEnter(c, s)
      \/ StopLeave(c, s) \/ StopReleaseFree(c, s) \/ StopWaitStopped(c, s)
      \/ StopDrain(c, s) \/ StopReturns(c, s)

ProducerStep(p) ==
  \/ WaitCanStart(p) \/ SetWasStarted(p) \/ Exit(p) \/ SetWasStopped(p)
  \/ WaitFree(p) \/ ReleaseFilled(p)

HashStep ==
  \/ ProducerStep("hash")
  \/ HashStops \/ HashNeedsMove \/ MoveEnterBt \/ MoveEnterHash \/ Move
  \/ MoveLeaveHash \/ HashContinues \/ HashFillsBlock

BtStep ==
  \/ ProducerStep("bt") \/ ConsumerStep("bt")
  \/ BtStops \/ BtStopsHash \/ BtContinues \/ BtFillEnter \/ BtGetsNextBlock
  \/ BtTakes \/ BtGetsMatches \/ BtIsFull \/ BtFillLeave

\* Calls of the encoder that run to their end.
LzStep ==
  \/ ConsumerStep("lz") \/ LzTakes
  \/ SetExit("hash", "exitHash", "joinHash") \/ Join("hash", "joinHash", "exitBt")
  \/ SetExit("bt", "exitBt", "joinBt") \/ Join("bt", "joinBt", "destructed")

Next ==
  \/ HashStep \/ BtStep \/ LzStep
  \/ \E n \in 0..MaxLen : InitFile(n)
  \/ LzGetsNextBlock \/ ReleaseStream \/ Destruct
  \/ Terminating

Spec == Init /\ [][Next]_vars

\* Threads are scheduled, and a mutex that stays free is given to a thread that
\* waits for it.  The encoder may do nothing.
FairSpec == Spec /\ WF_vars(HashStep) /\ WF_vars(BtStep) /\ WF_vars(LzStep)

-----------------------------------------------------------------------------
\* Between two files both rings are as MtSync_Create left them: no block is
\* filled, no permit is lost or doubled, no mutex is held and no thread runs.
StoppedMeansReset ==
  pc["lz"] = "idle" =>
    \A s \in Sync :
      /\ sync[s].freeSemaphore = NumBlocks[s] /\ sync[s].filledSemaphore = 0
      /\ sync[s].needStart /\ sync[s].cs = "none" /\ ~sync[s].canStart
      /\ pc[s] = "canStart"

\* The blocks that a consumer gets are those of the present file, in order and
\* without a gap; the number of bytes that goes with one is right, and as long
\* as there are bytes there is a list (LzmaEnc.c trusts this).
BlocksInOrder ==
  /\ TypeOK
  /\ pc["bt"] = "take" => HashBlock.first = btPos /\ HashBlock.avail = len - btPos
  /\ pc["lz"] = "take" =>
       /\ BtBlock.first = lzPos /\ BtBlock.avail = len - lzPos
       /\ BtBlock.avail > 0 => BtBlock.num \in 1..BtBlock.avail

\* A producer never writes into the block that its consumer still reads, and the
\* bytes that "lz" has yet to code are still in the window: "hash" is never
\* further ahead than keepAddBufferBefore in MatchFinderMt_Create allows for.
NothingOverwritten ==
  /\ pc["hash"] = "block" /\ btHave > 0
       /\ pc["bt"] \notin {"stopHash", "stopLeave", "stopFree", "stopWait", "stopDrain"}
       => (sync["hash"].numProcessedBlocks - 1 - produced["hash"]) % NumHashBlocks # 0
  /\ pc["bt"] \in {"fill", "fillLeave", "take", "getFilled"} /\ pc["lz"] = "use" /\ ~sync["bt"].needStart
       => (sync["bt"].numProcessedBlocks - 1 - produced["bt"]) % NumBtBlocks # 0
  /\ pc["lz"] \in {"use", "take", "getFree", "getFilled", "getEnter"} =>
       hashPos - lzPos <=
         NumHashBlocks * HashBlockSize + NumBtBlocks * BtBlockSize + NumHashBytes - 1

\* While MoveBlock moves the window no thread is between two of its calls with
\* a pointer into it.
MoveIsAlone ==
  pc["hash"] = "move" =>
    /\ pc["bt"] \notin {"take", "fill", "fillLeave"}
    /\ pc["lz"] \notin {"take", "use"}

\* The calls of the encoder return: GetNextBlock, because the three threads
\* never wait for each other; ReleaseStream, at whatever time it is called; and
\* Destruct, which joins both threads.
CallsReturn ==
  pc["lz"] \notin {"idle", "use", "destructed"} ~> pc["lz"] \in {"idle", "use", "destructed"}
=============================================================================
