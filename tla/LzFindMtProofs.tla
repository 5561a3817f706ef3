-------------------------- MODULE LzFindMtProofs --------------------------
(***************************************************************************)
(* Proofs about LzFindMt for rings and blocks of any size, files of any    *)
(* length and any number of files.                                         *)
(*                                                                         *)
(* ControlInv is about the two CMtSync objects: what their flags, events   *)
(* and places have to do with each other, that permits are neither lost    *)
(* nor doubled, and who holds the mutexes.  DataInv, which rests on it, is *)
(* about the blocks: those that are in a ring and not given back join each *)
(* other, from the position that the consumer asks for to that of the      *)
(* producer.                                                               *)
(***************************************************************************)
EXTENDS LzFindMt, TLAPS

\* CMtSync without the bounds of the semaphores, which follow from Permits.
Object == [needStart : BOOLEAN, exit : BOOLEAN, stopWriting : BOOLEAN,
           canStart : BOOLEAN, wasStarted : BOOLEAN, wasStopped : BOOLEAN,
           freeSemaphore : Nat, filledSemaphore : Nat,
           cs : Thread \cup {"none"}, csWasEntered : BOOLEAN, numProcessedBlocks : Nat]

\* The consumer of an object, and groups of places.
Consumer == [bt |-> "lz", hash |-> "bt"]
Getting == {"getStarted", "getFree", "getFilled", "getEnter"}
Stopping == {"stopLeave", "stopFree", "stopWait", "stopDrain"}
Exits == {"exitHash", "joinHash", "exitBt", "joinBt", "destructed"}
Told == [bt |-> {"joinBt", "destructed"},   \* exit of the object is set
         hash |-> {"joinHash", "exitBt", "joinBt", "destructed"}]
Loop == {"canStart", "wasStarted", "test", "wasStopped", "free", "filled", "exited"}
Places == [hash |-> Loop \cup {"moveBt", "moveHash", "move", "moveLeave", "block"},
           bt |-> Loop \cup {"stopHash", "fillEnter", "fill", "fillLeave", "take"}
                    \cup Getting \cup Stopping,
           lz |-> {"idle", "use", "take"} \cup Getting \cup Stopping \cup Exits]
Filling == [hash |-> {"block"},             \* the producer has a block and fills it
            bt |-> {"fillEnter", "fill", "fillLeave", "take"} \cup Getting]

One(b) == IF b THEN 1 ELSE 0

\* The blocks that the consumer of s has asked for, and those that were made, since
\* s was started; produced[s] is of the last time until the producer goes on.
Count(s) == IF pc[Consumer[s]] \in Stopping THEN mine[s] ELSE sync[s].numProcessedBlocks
Made(s) == IF pc[Consumer[s]] = "getStarted" /\ pc[s] = "canStart" THEN 0 ELSE produced[s]

CtlType ==
  /\ sync \in [Sync -> Object]
  /\ pc \in [Thread -> Place] /\ \A t \in Thread : pc[t] \in Places[t]
  /\ mine \in [Sync -> Nat] /\ produced \in [Sync -> Nat]

\* Nobody uses the object s.
AtRest(s) ==
  /\ sync[s].freeSemaphore = NumBlocks[s] /\ sync[s].filledSemaphore = 0
  /\ ~sync[s].wasStopped /\ ~sync[s].csWasEntered
  /\ IF pc["lz"] \in Told[s]
       THEN sync[s].exit /\ pc[s] \in {"canStart", "wasStarted", "test", "exited"}
       ELSE /\ ~sync[s].exit /\ ~sync[s].canStart /\ ~sync[s].wasStarted
            /\ pc[s] = "canStart"

\* The producer of s has left its inner loop.
HasEnded(s) ==
  \/ pc[s] \in Stopping \cup {"stopHash", "wasStopped"}
  \/ pc[s] = "canStart" /\ ~sync[s].canStart

\* Where the producer and the consumer of s may be, by the flags and the events of s.
Events(s) ==
  LET c == pc[Consumer[s]]
  IN
  /\ ~sync[s].exit /\ pc[s] # "exited"
  /\ sync[s].stopWriting <=> c \in Stopping
  /\ sync[s].canStart => c = "getStarted" /\ pc[s] = "canStart" /\ ~sync[s].wasStarted
  /\ pc[s] = "wasStarted" => c = "getStarted" /\ ~sync[s].canStart /\ ~sync[s].wasStarted
  /\ sync[s].wasStarted => c = "getStarted"
  /\ c = "getStarted" =>
       /\ sync[s].numProcessedBlocks = 1
       /\ sync[s].canStart \/ pc[s] = "wasStarted" \/ sync[s].wasStarted
  /\ HasEnded(s) => c \in Stopping /\ sync[s].numProcessedBlocks = produced[s]
  /\ pc[s] = "canStart" /\ ~sync[s].canStart => c = "stopDrain" \/ sync[s].wasStopped
  /\ sync[s].wasStopped => c \in Stopping \ {"stopDrain"} /\ pc[s] = "canStart"
  /\ c = "stopDrain" => pc[s] = "canStart"
  /\ c \in Stopping /\ ~HasEnded(s) => mine[s] = sync[s].numProcessedBlocks
  /\ Count(s) >= 1

\* Where the permits of the two semaphores are: every block of the ring is free, is
\* being filled, is filled, or is with the consumer.
Permits(s) ==
  LET c == pc[Consumer[s]]
  IN
  /\ sync[s].filledSemaphore =
       Made(s) - One(pc[s] = "filled") - Count(s)
         + One(c \in {"getStarted", "getFree", "getFilled"})
  /\ sync[s].freeSemaphore =
       NumBlocks[s] - Made(s) - One(pc[s] \in Filling[s]) + Count(s)
         - One(c \notin {"stopWait", "stopDrain"}) - One(c = "getFree")

\* Which objects are started, by the places of their consumers.
Starts ==
  /\ pc["lz"] \in {"idle"} \cup Exits => sync["bt"].needStart /\ sync["hash"].needStart
  /\ pc["lz"] \in Getting \cup Stopping \cup {"take"} => ~sync["bt"].needStart
  /\ pc["bt"] \in {"canStart", "wasStarted", "wasStopped", "exited"} => sync["hash"].needStart
  /\ pc["bt"] \in Getting \cup Stopping \cup {"take"} => ~sync["hash"].needStart

\* Who holds the two mutexes, by the places of the three threads.
Mutexes ==
  /\ \A s \in Sync : sync[s].csWasEntered <=> sync[s].cs = Consumer[s]
  /\ sync["bt"].cs = "hash" <=> pc["hash"] \in {"moveHash", "move"}
  /\ sync["hash"].cs = "hash" <=> pc["hash"] \in {"move", "moveLeave"}
  /\ sync["bt"].cs # "bt" /\ sync["hash"].cs # "lz"
  /\ sync["hash"].csWasEntered => pc["bt"] \in {"take", "fill", "fillLeave"}
  /\ pc["bt"] \in {"take", "fill", "fillLeave"} /\ ~sync["hash"].needStart =>
       sync["hash"].csWasEntered
  /\ sync["bt"].csWasEntered => pc["lz"] \in {"take", "use", "stopLeave"}
  /\ pc["lz"] \in {"take", "use"} /\ ~sync["bt"].needStart => sync["bt"].csWasEntered

Obj(s) == IF sync[s].needStart THEN AtRest(s) ELSE Events(s) /\ Permits(s)
ControlInv ==
  /\ CtlType /\ Starts /\ Mutexes
  /\ \A s \in Sync : Obj(s)

-----------------------------------------------------------------------------
(* The synchronization objects.                                           *)

\* A step that sets one field of an object leaves it an object.
LEMMA ObjectsStay ==
  ASSUME sync \in [Sync -> Object], NEW s \in Sync, NEW c \in Thread, NEW from, NEW to
  PROVE  /\ GetWaitStarted(c, s) => sync' \in [Sync -> Object]
         /\ StopReturns(c, s) => sync' \in [Sync -> Object]
         /\ StopWriting(c, s) => sync' \in [Sync -> Object]
         /\ BtFillLeave => sync' \in [Sync -> Object]
         /\ SetExit(s, from, to) => sync' \in [Sync -> Object]
         /\ StopWaitStopped(c, s) => sync' \in [Sync -> Object]
         /\ WaitCanStart(s) => sync' \in [Sync -> Object]
         /\ SetWasStarted(s) => sync' \in [Sync -> Object]
         /\ SetWasStopped(s) => sync' \in [Sync -> Object]
  <1>1. ASSUME GetWaitStarted(c, s) PROVE sync' \in [Sync -> Object]
    <2>1. [sync[s] EXCEPT !.wasStarted = FALSE] \in Object BY DEF Object
    <2>2. sync' = [sync EXCEPT ![s].wasStarted = FALSE] BY <1>1 DEF GetWaitStarted
    <2> QED BY <2>1, <2>2
  <1>2. ASSUME StopReturns(c, s) PROVE sync' \in [Sync -> Object]
    <2>1. [sync[s] EXCEPT !.needStart = TRUE] \in Object BY DEF Object
    <2>2. sync' = [sync EXCEPT ![s].needStart = TRUE] BY <1>2 DEF StopReturns
    <2> QED BY <2>1, <2>2
  <1>3. ASSUME StopWriting(c, s) PROVE sync' \in [Sync -> Object]
    <2>1. [sync[s] EXCEPT !.stopWriting = TRUE] \in Object BY DEF Object
    <2>2. sync' = [sync EXCEPT ![s].stopWriting = TRUE] BY <1>3 DEF StopWriting
    <2> QED BY <2>1, <2>2
  <1>4. ASSUME BtFillLeave PROVE sync' \in [Sync -> Object]
    <2>1. sync' = sync \/ sync' = [sync EXCEPT !["hash"].cs = "none", !["hash"].csWasEntered = FALSE]
      BY <1>4 DEF BtFillLeave
    <2>2. "hash" \in Sync BY DEF Sync
    <2> QED BY <2>1, <2>2 DEF Object, Thread
  <1>5. ASSUME SetExit(s, from, to) PROVE sync' \in [Sync -> Object]
    <2>1. [sync[s] EXCEPT !.exit = TRUE, !.canStart = TRUE] \in Object BY DEF Object
    <2>2. sync' = [sync EXCEPT ![s] = [@ EXCEPT !.exit = TRUE, !.canStart = TRUE]]
      BY <1>5 DEF SetExit
    <2> QED BY <2>1, <2>2
  <1>6. ASSUME StopWaitStopped(c, s) PROVE sync' \in [Sync -> Object]
    <2>1. [sync[s] EXCEPT !.wasStopped = FALSE] \in Object BY DEF Object
    <2>2. sync' = [sync EXCEPT ![s].wasStopped = FALSE] BY <1>6 DEF StopWaitStopped
    <2> QED BY <2>1, <2>2
  <1>7. ASSUME WaitCanStart(s) PROVE sync' \in [Sync -> Object]
    <2>1. [sync[s] EXCEPT !.canStart = FALSE] \in Object BY DEF Object
    <2>2. sync' = [sync EXCEPT ![s].canStart = FALSE] BY <1>7 DEF WaitCanStart
    <2> QED BY <2>1, <2>2
  <1>8. ASSUME SetWasStarted(s) PROVE sync' \in [Sync -> Object]
    <2>1. [sync[s] EXCEPT !.wasStarted = TRUE] \in Object BY DEF Object
    <2>2. sync' = [sync EXCEPT ![s].wasStarted = TRUE] BY <1>8 DEF SetWasStarted
    <2> QED BY <2>1, <2>2
  <1>9. ASSUME SetWasStopped(s) PROVE sync' \in [Sync -> Object]
    <2>1. [sync[s] EXCEPT !.wasStopped = TRUE] \in Object BY DEF Object
    <2>2. sync' = [sync EXCEPT ![s].wasStopped = TRUE] BY <1>9 DEF SetWasStopped
    <2> QED BY <2>1, <2>2
  <1> QED BY <1>1, <1>2, <1>3, <1>4, <1>5, <1>6, <1>7, <1>8, <1>9

\* What MtSync_GetNextBlock makes of an object: when it is started and when it is not.
LEMMA FirstBlock ==
  ASSUME sync \in [Sync -> Object], NEW s \in Sync, NEW c \in Thread,
         sync[s].needStart, GetNextBlock(c, s)
  PROVE  \E o \in Object : /\ sync' = [sync EXCEPT ![s] = o]
    /\ o.numProcessedBlocks = 1 /\ ~o.needStart /\ ~o.stopWriting /\ ~o.exit
    /\ ~o.wasStarted /\ ~o.wasStopped /\ o.canStart
    /\ o.freeSemaphore = sync[s].freeSemaphore
    /\ o.filledSemaphore = sync[s].filledSemaphore
    /\ o.cs = sync[s].cs /\ o.csWasEntered = sync[s].csWasEntered
  <1>1. sync' = [sync EXCEPT ![s] = [@ EXCEPT
            !.numProcessedBlocks = 1, !.needStart = FALSE,
            !.stopWriting = FALSE, !.exit = FALSE,
            !.wasStarted = FALSE, !.wasStopped = FALSE, !.canStart = TRUE]]
    BY DEF GetNextBlock
  <1>2. PICK r \in Object : r = sync[s] OBVIOUS
  <1>3. PICK o : o = [r EXCEPT
            !.numProcessedBlocks = 1, !.needStart = FALSE,
            !.stopWriting = FALSE, !.exit = FALSE,
            !.wasStarted = FALSE, !.wasStopped = FALSE, !.canStart = TRUE]
    OBVIOUS
  <1>4. o \in Object BY <1>3 DEF Object
  <1>5. /\ o.numProcessedBlocks = 1 /\ ~o.needStart /\ ~o.stopWriting /\ ~o.exit
    /\ ~o.wasStarted /\ ~o.wasStopped /\ o.canStart
    BY <1>3 DEF Object
  <1>6.  /\ o.freeSemaphore = r.freeSemaphore
    /\ o.filledSemaphore = r.filledSemaphore
    /\ o.cs = r.cs /\ o.csWasEntered = r.csWasEntered
    BY <1>3 DEF Object
  <1>7. sync' = [sync EXCEPT ![s] = o] BY <1>1, <1>2, <1>3
  <1> QED BY <1>2, <1>4, <1>5, <1>6, <1>7

LEMMA NextBlock ==
  ASSUME sync \in [Sync -> Object], NEW s \in Sync, NEW c \in Thread,
         ~sync[s].needStart, GetNextBlock(c, s)
  PROVE  \E o \in Object : /\ sync' = [sync EXCEPT ![s] = o]
    /\ o.numProcessedBlocks = sync[s].numProcessedBlocks + 1 /\ ~o.needStart
    /\ o.cs = "none" /\ ~o.csWasEntered
    /\ o.exit = sync[s].exit /\ o.stopWriting = sync[s].stopWriting
    /\ o.canStart = sync[s].canStart /\ o.wasStarted = sync[s].wasStarted
    /\ o.wasStopped = sync[s].wasStopped
    /\ o.freeSemaphore = sync[s].freeSemaphore
    /\ o.filledSemaphore = sync[s].filledSemaphore
  <1>2. PICK r \in Object : r = sync[s] OBVIOUS
  <1>3. PICK o : o = [r EXCEPT
            !.cs = "none", !.csWasEntered = FALSE,
            !.numProcessedBlocks = r.numProcessedBlocks + 1]
    OBVIOUS
  <1>4. o \in Object
    <2>1. r.numProcessedBlocks + 1 \in Nat BY DEF Object
    <2> QED BY <1>3, <2>1 DEF Object
  <1>5. /\ o.numProcessedBlocks = r.numProcessedBlocks + 1
    /\ o.cs = "none" /\ ~o.csWasEntered
    BY <1>3 DEF Object
  <1>6. /\ o.needStart = r.needStart
    /\ o.exit = r.exit /\ o.stopWriting = r.stopWriting
    /\ o.canStart = r.canStart /\ o.wasStarted = r.wasStarted
    /\ o.wasStopped = r.wasStopped
    /\ o.freeSemaphore = r.freeSemaphore
    /\ o.filledSemaphore = r.filledSemaphore
    BY <1>3 DEF Object
  <1>8. ~r.needStart => ~o.needStart
    BY <1>3 DEF Object
  <1>10. ~r.needStart BY <1>2
  <1>9. ~o.needStart BY <1>8, <1>10
  <1>7. sync' = [sync EXCEPT ![s] = o] BY <1>2, <1>3 DEF GetNextBlock
  <1> QED BY <1>2, <1>4, <1>5, <1>6, <1>7, <1>9

USE LzFindMtAssumption
    DEF Thread, Sync, Uses, NumBlocks, Consumer, Getting, Stopping, Exits, Told, Loop, Places,
        Filling

\* Every action keeps ControlInv: in each proof the type, the mutexes and, for each of
\* the two objects, what is so at rest, the events and the permits are taken in turn.
LEMMA StartKeepsControl ==
  ASSUME ControlInv, NEW c \in {"lz", "bt"}, pc[c] \in {"use", "fill"},
         sync[Uses[c]].needStart, GetNextBlock(c, Uses[c]), UNCHANGED <<mine, produced>>
  PROVE  ControlInv'
  <1>0. CtlType /\ Starts /\ Mutexes /\ Obj("bt") /\ Obj("hash")
    BY DEF ControlInv
  <1> DEFINE s == Uses[c]
  <1>a. PICK o \in Object : /\ sync' = [sync EXCEPT ![s] = o]
      /\ o.numProcessedBlocks = 1 /\ ~o.needStart /\ ~o.stopWriting /\ ~o.exit
      /\ ~o.wasStarted /\ ~o.wasStopped /\ o.canStart
      /\ o.freeSemaphore = sync[s].freeSemaphore
      /\ o.filledSemaphore = sync[s].filledSemaphore
      /\ o.cs = sync[s].cs /\ o.csWasEntered = sync[s].csWasEntered
    BY <1>0, FirstBlock DEF CtlType
  <1>b. pc' = [pc EXCEPT ![c] = "getStarted"] BY DEF GetNextBlock, GoTo
  <1>c. c = "lz" \/ c = "bt" OBVIOUS
  <1>d. sync'[s] = o /\ \A t \in Sync \ {s} : sync'[t] = sync[t]
    BY <1>a, <1>0 DEF CtlType
  <1>e. pc["lz"] \notin Told[s]
    BY <1>0, <1>c DEF Starts, Obj, AtRest, CtlType
  <1>1. CtlType'
    <2>1. sync' \in [Sync -> Object]
      BY <1>0, <1>a, <1>c DEF CtlType
    <2>2. pc' \in [Thread -> Place] /\ \A t \in Thread : pc'[t] \in Places[t]
      BY <1>0, <1>b DEF CtlType, Place
    <2> QED BY <2>1, <2>2, <1>0 DEF CtlType
  <1>2. Starts'
    BY <1>0, <1>a, <1>b, <1>d, <1>e DEF CtlType, Starts, Obj, AtRest
  <1>3. Mutexes'
    BY <1>0, <1>a, <1>b, <1>d, <1>e DEF CtlType, Mutexes, Obj, AtRest, Starts
  <1>4. ASSUME NEW t \in Sync PROVE Obj(t)'
    <2>0. Obj(t) BY <1>0
    <2>1. sync[t].needStart' => AtRest(t)'
      BY <1>0, <1>a, <1>b, <1>d, <1>e, <2>0, SMTT(30) DEF CtlType, Obj, AtRest, Starts
    <2>2. ~sync[t].needStart' => Events(t)'
      BY <1>0, <1>a, <1>b, <1>d, <1>e, <2>0, SMTT(30)
         DEF CtlType, Obj, AtRest, Events, HasEnded, Count, Starts
    <2>3. ~sync[t].needStart' => Permits(t)'
      BY <1>0, <1>a, <1>b, <1>d, <1>e, <2>0, SMTT(30)
         DEF CtlType, Obj, AtRest, Permits, Made, Count, One, Starts
    <2> QED BY <2>1, <2>2, <2>3 DEF Obj
  <1> QED BY <1>1, <1>2, <1>3, <1>4 DEF ControlInv

LEMMA GetWaitStartedKeeps ==
  ASSUME ControlInv, NEW c \in {"lz", "bt"}, GetWaitStarted(c, Uses[c])
  PROVE  ControlInv'
  <1> USE DEF GetWaitStarted, GoTo, dataVars, hashVars, btVars, lzVars
  <1>0. CtlType /\ Starts /\ Mutexes /\ Obj("bt") /\ Obj("hash")
    BY DEF ControlInv
  <1>1. CtlType'
    <2>1. sync' \in [Sync -> Object]
      BY <1>0, ObjectsStay DEF CtlType
    <2>2. /\ pc' \in [Thread -> Place] /\ \A t \in Thread : pc'[t] \in Places[t]
          /\ mine' \in [Sync -> Nat] /\ produced' \in [Sync -> Nat]
      BY <1>0 DEF CtlType, Place
    <2> QED BY <2>1, <2>2 DEF CtlType
  <1>2. Starts'
    BY <1>0 DEF CtlType, Starts
  <1>3. Mutexes'
    BY <1>0 DEF CtlType, Mutexes
  <1>4. ASSUME NEW t \in Sync PROVE Obj(t)'
    <2>0. Obj(t) BY <1>0
    <2>1. sync[t].needStart' => AtRest(t)'
      BY <1>0, <2>0 DEF CtlType, Obj, AtRest
    <2>2. ~sync[t].needStart' => Events(t)'
      BY <1>0, <2>0 DEF CtlType, Obj, Events, HasEnded, Count
    <2>3. ~sync[t].needStart' => Permits(t)'
      BY <1>0, <2>0, SMTT(30) DEF CtlType, Obj, Events, HasEnded, Permits, Made, Count,
                                  One, Released, Starts, Object
    <2> QED BY <2>1, <2>2, <2>3 DEF Obj
  <1> QED BY <1>1, <1>2, <1>3, <1>4 DEF ControlInv

LEMMA GetReleaseFreeKeeps ==
  ASSUME ControlInv, NEW c \in {"lz", "bt"}, GetReleaseFree(c, Uses[c])
  PROVE  ControlInv'
  <1> USE DEF GetReleaseFree, GoTo, dataVars, hashVars, btVars, lzVars
  <1>0. CtlType /\ Starts /\ Mutexes /\ Obj("bt") /\ Obj("hash")
    BY DEF ControlInv
  <1>1. CtlType'
    <2>1. sync' \in [Sync -> Object]
      BY <1>0 DEF CtlType, Object, Released
    <2>2. /\ pc' \in [Thread -> Place] /\ \A t \in Thread : pc'[t] \in Places[t]
          /\ mine' \in [Sync -> Nat] /\ produced' \in [Sync -> Nat]
      BY <1>0 DEF CtlType, Place
    <2> QED BY <2>1, <2>2 DEF CtlType
  <1>2. Starts'
    BY <1>0 DEF CtlType, Starts
  <1>3. Mutexes'
    BY <1>0 DEF CtlType, Mutexes
  <1>4. ASSUME NEW t \in Sync PROVE Obj(t)'
    <2>0. Obj(t) BY <1>0
    <2>1. sync[t].needStart' => AtRest(t)'
      BY <1>0, <2>0 DEF CtlType, Obj, AtRest, Starts, Object
    <2>2. ~sync[t].needStart' => Events(t)'
      BY <1>0, <2>0 DEF CtlType, Obj, Events, HasEnded, Count
    <2>3. ~sync[t].needStart' => Permits(t)'
      BY <1>0, <2>0, SMTT(30) DEF CtlType, Obj, Permits, Made, Count, One, Released, Object
    <2> QED BY <2>1, <2>2, <2>3 DEF Obj
  <1> QED BY <1>1, <1>2, <1>3, <1>4 DEF ControlInv

LEMMA GetWaitFilledKeeps ==
  ASSUME ControlInv, NEW c \in {"lz", "bt"}, GetWaitFilled(c, Uses[c])
  PROVE  ControlInv'
  <1> USE DEF GetWaitFilled, GoTo, dataVars, hashVars, btVars, lzVars
  <1>0. CtlType /\ Starts /\ Mutexes /\ Obj("bt") /\ Obj("hash")
    BY DEF ControlInv
  <1>1. CtlType'
    <2>1. sync' \in [Sync -> Object]
      BY <1>0 DEF CtlType, Object
    <2>2. /\ pc' \in [Thread -> Place] /\ \A t \in Thread : pc'[t] \in Places[t]
          /\ mine' \in [Sync -> Nat] /\ produced' \in [Sync -> Nat]
      BY <1>0 DEF CtlType, Place
    <2> QED BY <2>1, <2>2 DEF CtlType
  <1>2. Starts'
    BY <1>0 DEF CtlType, Starts
  <1>3. Mutexes'
    BY <1>0 DEF CtlType, Mutexes
  <1>4. ASSUME NEW t \in Sync PROVE Obj(t)'
    <2>0. Obj(t) BY <1>0
    <2>1. sync[t].needStart' => AtRest(t)'
      BY <1>0, <2>0 DEF CtlType, Obj, AtRest
    <2>2. ~sync[t].needStart' => Events(t)'
      BY <1>0, <2>0 DEF CtlType, Obj, Events, HasEnded, Count
    <2>3. ~sync[t].needStart' => Permits(t)'
      BY <1>0, <2>0, SMTT(30) DEF CtlType, Obj, Permits, Made, Count, One, Released, Object
    <2> QED BY <2>1, <2>2, <2>3 DEF Obj
  <1> QED BY <1>1, <1>2, <1>3, <1>4 DEF ControlInv

LEMMA GetEnterKeeps ==
  ASSUME ControlInv, NEW c \in {"lz", "bt"}, GetEnter(c, Uses[c])
  PROVE  ControlInv'
  <1> USE DEF GetEnter, GoTo, dataVars, hashVars, btVars, lzVars
  <1>0. CtlType /\ Starts /\ Mutexes /\ Obj("bt") /\ Obj("hash")
    BY DEF ControlInv
  <1>1. CtlType'
    <2>1. sync' \in [Sync -> Object]
      BY <1>0 DEF CtlType, Object
    <2>2. /\ pc' \in [Thread -> Place] /\ \A t \in Thread : pc'[t] \in Places[t]
          /\ mine' \in [Sync -> Nat] /\ produced' \in [Sync -> Nat]
      BY <1>0 DEF CtlType, Place
    <2> QED BY <2>1, <2>2 DEF CtlType
  <1>2. Starts'
    BY <1>0 DEF CtlType, Starts
  <1>3. Mutexes'
    BY <1>0 DEF CtlType, Mutexes
  <1>4. ASSUME NEW t \in Sync PROVE Obj(t)'
    <2>0. Obj(t) BY <1>0
    <2>1. sync[t].needStart' => AtRest(t)'
      BY <1>0, <2>0 DEF CtlType, Obj, AtRest, Starts, Object
    <2>2. ~sync[t].needStart' => Events(t)'
      BY <1>0, <2>0 DEF CtlType, Obj, Events, HasEnded, Count
    <2>3. ~sync[t].needStart' => Permits(t)'
      BY <1>0, <2>0 DEF CtlType, Obj, Permits, Made, Count, One
    <2> QED BY <2>1, <2>2, <2>3 DEF Obj
  <1> QED BY <1>1, <1>2, <1>3, <1>4 DEF ControlInv

LEMMA StopLeaveKeeps ==
  ASSUME ControlInv, NEW c \in {"lz", "bt"}, StopLeave(c, Uses[c])
  PROVE  ControlInv'
  <1> USE DEF StopLeave, GoTo, dataVars, hashVars, btVars, lzVars
  <1>0. CtlType /\ Starts /\ Mutexes /\ Obj("bt") /\ Obj("hash")
    BY DEF ControlInv
  <1>1. CtlType'
    <2>1. sync' \in [Sync -> Object]
      BY <1>0 DEF CtlType, Object
    <2>2. /\ pc' \in [Thread -> Place] /\ \A t \in Thread : pc'[t] \in Places[t]
          /\ mine' \in [Sync -> Nat] /\ produced' \in [Sync -> Nat]
      BY <1>0 DEF CtlType, Place
    <2> QED BY <2>1, <2>2 DEF CtlType
  <1>2. Starts'
    BY <1>0 DEF CtlType, Starts
  <1>3. Mutexes'
    BY <1>0 DEF CtlType, Mutexes
  <1>4. ASSUME NEW t \in Sync PROVE Obj(t)'
    <2>0. Obj(t) BY <1>0
    <2>1. sync[t].needStart' => AtRest(t)'
      BY <1>0, <2>0 DEF CtlType, Obj, AtRest
    <2>2. ~sync[t].needStart' => Events(t)'
      BY <1>0, <2>0 DEF CtlType, Obj, Events, HasEnded, Count
    <2>3. ~sync[t].needStart' => Permits(t)'
      BY <1>0, <2>0 DEF CtlType, Obj, Permits, Made, Count, One
    <2> QED BY <2>1, <2>2, <2>3 DEF Obj
  <1> QED BY <1>1, <1>2, <1>3, <1>4 DEF ControlInv

LEMMA StopReleaseFreeKeeps ==
  ASSUME ControlInv, NEW c \in {"lz", "bt"}, StopReleaseFree(c, Uses[c])
  PROVE  ControlInv'
  <1> USE DEF StopReleaseFree, GoTo, dataVars, hashVars, btVars, lzVars
  <1>0. CtlType /\ Starts /\ Mutexes /\ Obj("bt") /\ Obj("hash")
    BY DEF ControlInv
  <1>1. CtlType'
    <2>1. sync' \in [Sync -> Object]
      BY <1>0 DEF CtlType, Object, Released
    <2>2. /\ pc' \in [Thread -> Place] /\ \A t \in Thread : pc'[t] \in Places[t]
          /\ mine' \in [Sync -> Nat] /\ produced' \in [Sync -> Nat]
      BY <1>0 DEF CtlType, Place
    <2> QED BY <2>1, <2>2 DEF CtlType
  <1>2. Starts'
    BY <1>0 DEF CtlType, Starts
  <1>3. Mutexes'
    BY <1>0 DEF CtlType, Mutexes
  <1>4. ASSUME NEW t \in Sync PROVE Obj(t)'
    <2>0. Obj(t) BY <1>0
    <2>1. sync[t].needStart' => AtRest(t)'
      BY <1>0, <2>0 DEF CtlType, Obj, AtRest, Starts, Object
    <2>2. ~sync[t].needStart' => Events(t)'
      BY <1>0, <2>0 DEF CtlType, Obj, Events, HasEnded, Count
    <2>3. ~sync[t].needStart' => Permits(t)'
      BY <1>0, <2>0, SMTT(30) DEF CtlType, Obj, Permits, Made, Count, One, Released, Object
    <2> QED BY <2>1, <2>2, <2>3 DEF Obj
  <1> QED BY <1>1, <1>2, <1>3, <1>4 DEF ControlInv

LEMMA StopWaitStoppedKeeps ==
  ASSUME ControlInv, NEW c \in {"lz", "bt"}, StopWaitStopped(c, Uses[c])
  PROVE  ControlInv'
  <1> USE DEF StopWaitStopped, GoTo, dataVars, hashVars, btVars, lzVars
  <1>0. CtlType /\ Starts /\ Mutexes /\ Obj("bt") /\ Obj("hash")
    BY DEF ControlInv
  <1>1. CtlType'
    <2>1. sync' \in [Sync -> Object]
      BY <1>0, ObjectsStay DEF CtlType
    <2>2. /\ pc' \in [Thread -> Place] /\ \A t \in Thread : pc'[t] \in Places[t]
          /\ mine' \in [Sync -> Nat] /\ produced' \in [Sync -> Nat]
      BY <1>0 DEF CtlType, Place
    <2> QED BY <2>1, <2>2 DEF CtlType
  <1>2. Starts'
    BY <1>0 DEF CtlType, Starts
  <1>3. Mutexes'
    BY <1>0 DEF CtlType, Mutexes
  <1>4. ASSUME NEW t \in Sync PROVE Obj(t)'
    <2>0. Obj(t) BY <1>0
    <2>1. sync[t].needStart' => AtRest(t)'
      BY <1>0, <2>0 DEF CtlType, Obj, AtRest
    <2>2. ~sync[t].needStart' => Events(t)'
      BY <1>0, <2>0 DEF CtlType, Obj, Events, HasEnded, Count
    <2>3. ~sync[t].needStart' => Permits(t)'
      BY <1>0, <2>0 DEF CtlType, Obj, Permits, Made, Count, One
    <2> QED BY <2>1, <2>2, <2>3 DEF Obj
  <1> QED BY <1>1, <1>2, <1>3, <1>4 DEF ControlInv

LEMMA StopReturnsKeeps ==
  ASSUME ControlInv, NEW c \in {"lz", "bt"}, StopReturns(c, Uses[c])
  PROVE  ControlInv'
  <1> USE DEF StopReturns, GoTo, dataVars, hashVars, btVars, lzVars
  <1>0. CtlType /\ Starts /\ Mutexes /\ Obj("bt") /\ Obj("hash")
    BY DEF ControlInv
  <1>1. CtlType'
    <2>1. sync' \in [Sync -> Object]
      BY <1>0, ObjectsStay DEF CtlType
    <2>2. /\ pc' \in [Thread -> Place] /\ \A t \in Thread : pc'[t] \in Places[t]
          /\ mine' \in [Sync -> Nat] /\ produced' \in [Sync -> Nat]
      BY <1>0 DEF CtlType, Place
    <2> QED BY <2>1, <2>2 DEF CtlType
  <1>2. Starts'
    BY <1>0 DEF CtlType, Starts, Obj, AtRest, Events, HasEnded
  <1>3. Mutexes'
    BY <1>0 DEF CtlType, Mutexes
  <1>4. ASSUME NEW t \in Sync PROVE Obj(t)'
    <2>0. Obj(t) BY <1>0
    <2>1. sync[t].needStart' => AtRest(t)'
      <3>1. CASE t = Uses[c]
        <4>1. /\ c = Consumer[t] /\ pc[t] = "canStart" /\ ~sync[t].wasStopped
              /\ ~sync[t].canStart /\ ~sync[t].wasStarted /\ ~sync[t].exit
              /\ ~sync[t].csWasEntered /\ pc["lz"] \notin Told[t]
              /\ mine[t] = produced[t] /\ ~sync[t].needStart /\ pc[c] = "stopDrain"
          BY <1>0, <2>0, <3>1 DEF CtlType, Obj, Events, HasEnded, Starts, Mutexes
        <4>2. sync[t].freeSemaphore = NumBlocks[t] /\ sync[t].filledSemaphore = 0
          BY <1>0, <2>0, <4>1 DEF CtlType, Obj, Permits, Made, Count, One
        <4>3. /\ sync'[t].freeSemaphore = NumBlocks[t] /\ sync'[t].filledSemaphore = 0
              /\ ~sync'[t].wasStopped /\ ~sync'[t].csWasEntered
              /\ ~sync'[t].exit /\ ~sync'[t].canStart /\ ~sync'[t].wasStarted
          <5>1. PICK r \in Object : r = sync[t]
            BY <1>0 DEF CtlType
          <5>2. sync'[t] = [r EXCEPT !.needStart = TRUE]
            BY <1>0, <3>1, <5>1 DEF CtlType
          <5>3. /\ sync'[t].freeSemaphore = r.freeSemaphore
                /\ sync'[t].filledSemaphore = r.filledSemaphore
                /\ sync'[t].wasStopped = r.wasStopped /\ sync'[t].csWasEntered = r.csWasEntered
                /\ sync'[t].exit = r.exit /\ sync'[t].canStart = r.canStart
                /\ sync'[t].wasStarted = r.wasStarted
            BY <5>2 DEF Object
          <5> QED BY <4>1, <4>2, <5>1, <5>3
        <4>4. pc'[t] = "canStart" /\ pc'["lz"] \notin Told[t]
          <5>1. pc' = [pc EXCEPT ![c] = IF c = "lz" THEN "idle" ELSE "wasStopped"]
            OBVIOUS
          <5>2. t # c /\ t \in Thread /\ "lz" \in Thread
            BY <3>1
          <5>3. pc \in [Thread -> Place]
            BY <1>0 DEF CtlType
          <5>4. CASE c = "lz"
            <6>1. pc'[t] = pc[t] /\ pc'["lz"] = "idle"
              BY <5>1, <5>2, <5>3, <5>4
            <6> QED BY <4>1, <6>1
          <5>5. CASE c # "lz"
            <6>1. pc'[t] = pc[t] /\ pc'["lz"] = pc["lz"]
              BY <5>1, <5>2, <5>3, <5>5
            <6> QED BY <4>1, <6>1
          <5> QED BY <5>4, <5>5
        <4> QED BY <4>3, <4>4 DEF AtRest
      <3>2. CASE t # Uses[c]
        <4>1. sync'[t] = sync[t] /\ (pc["lz"] \in Told[t] <=> pc'["lz"] \in Told[t])
          BY <1>0, <3>2 DEF CtlType
        <4>2. sync[t].needStart => pc'[t] = pc[t]
          BY <1>0, <2>0, <3>2 DEF CtlType, Obj, AtRest
        <4> QED BY <2>0, <4>1, <4>2 DEF Obj, AtRest
      <3> QED BY <3>1, <3>2
    <2>2. ~sync[t].needStart' => Events(t)'
      BY <1>0, <2>0 DEF CtlType, Obj, Events, HasEnded, Count
    <2>3. ~sync[t].needStart' => Permits(t)'
      BY <1>0, <2>0 DEF CtlType, Obj, Permits, Made, Count, One
    <2> QED BY <2>1, <2>2, <2>3 DEF Obj
  <1> QED BY <1>1, <1>2, <1>3, <1>4 DEF ControlInv

LEMMA WaitCanStartKeeps ==
  ASSUME ControlInv, NEW p \in Sync, WaitCanStart(p)
  PROVE  ControlInv'
  <1> USE DEF WaitCanStart, GoTo, dataVars, hashVars, btVars, lzVars
  <1>0. CtlType /\ Starts /\ Mutexes /\ Obj("bt") /\ Obj("hash")
    BY DEF ControlInv
  <1>1. CtlType'
    <2>1. sync' \in [Sync -> Object]
      BY <1>0, ObjectsStay DEF CtlType
    <2>2. /\ pc' \in [Thread -> Place] /\ \A t \in Thread : pc'[t] \in Places[t]
          /\ mine' \in [Sync -> Nat] /\ produced' \in [Sync -> Nat]
      BY <1>0 DEF CtlType, Place
    <2> QED BY <2>1, <2>2 DEF CtlType
  <1>2. Starts'
    BY <1>0 DEF CtlType, Starts
  <1>3. Mutexes'
    BY <1>0 DEF CtlType, Mutexes
  <1>4. ASSUME NEW t \in Sync PROVE Obj(t)'
    <2>0. Obj(t) BY <1>0
    <2>1. sync[t].needStart' => AtRest(t)'
      BY <1>0, <2>0 DEF CtlType, Obj, AtRest
    <2>2. ~sync[t].needStart' => Events(t)'
      BY <1>0, <2>0 DEF CtlType, Obj, Events, HasEnded, Count
    <2>3. ~sync[t].needStart' => Permits(t)'
      BY <1>0, <2>0, SMTT(30) DEF CtlType, Obj, Events, HasEnded, Permits, Made, Count,
                                  One, Released, Starts, Object
    <2> QED BY <2>1, <2>2, <2>3 DEF Obj
  <1> QED BY <1>1, <1>2, <1>3, <1>4 DEF ControlInv

LEMMA SetWasStartedKeeps ==
  ASSUME ControlInv, NEW p \in Sync, SetWasStarted(p)
  PROVE  ControlInv'
  <1> USE DEF SetWasStarted, GoTo, dataVars, hashVars, btVars, lzVars
  <1>0. CtlType /\ Starts /\ Mutexes /\ Obj("bt") /\ Obj("hash")
    BY DEF ControlInv
  <1>1. CtlType'
    <2>1. sync' \in [Sync -> Object]
      BY <1>0, ObjectsStay DEF CtlType
    <2>2. /\ pc' \in [Thread -> Place] /\ \A t \in Thread : pc'[t] \in Places[t]
          /\ mine' \in [Sync -> Nat] /\ produced' \in [Sync -> Nat]
      BY <1>0 DEF CtlType, Place
    <2> QED BY <2>1, <2>2 DEF CtlType
  <1>2. Starts'
    BY <1>0 DEF CtlType, Starts
  <1>3. Mutexes'
    BY <1>0 DEF CtlType, Mutexes
  <1>4. ASSUME NEW t \in Sync PROVE Obj(t)'
    <2>0. Obj(t) BY <1>0
    <2>1. sync[t].needStart' => AtRest(t)'
      BY <1>0, <2>0 DEF CtlType, Obj, AtRest
    <2>2. ~sync[t].needStart' => Events(t)'
      BY <1>0, <2>0 DEF CtlType, Obj, Events, HasEnded, Count
    <2>3. ~sync[t].needStart' => Permits(t)'
      BY <1>0, <2>0, SMTT(30) DEF CtlType, Obj, Permits, Made, Count, One, Released, Object
    <2> QED BY <2>1, <2>2, <2>3 DEF Obj
  <1> QED BY <1>1, <1>2, <1>3, <1>4 DEF ControlInv

LEMMA ExitKeeps ==
  ASSUME ControlInv, NEW p \in Sync, Exit(p)
  PROVE  ControlInv'
  <1> USE DEF Exit, GoTo, dataVars, hashVars, btVars, lzVars
  <1>0. CtlType /\ Starts /\ Mutexes /\ Obj("bt") /\ Obj("hash")
    BY DEF ControlInv
  <1>1. CtlType'
    <2>1. sync' \in [Sync -> Object]
      BY <1>0 DEF CtlType
    <2>2. /\ pc' \in [Thread -> Place] /\ \A t \in Thread : pc'[t] \in Places[t]
          /\ mine' \in [Sync -> Nat] /\ produced' \in [Sync -> Nat]
      BY <1>0 DEF CtlType, Place
    <2> QED BY <2>1, <2>2 DEF CtlType
  <1>2. Starts'
    BY <1>0 DEF CtlType, Starts, Obj, AtRest, Events, HasEnded
  <1>3. Mutexes'
    BY <1>0 DEF CtlType, Mutexes
  <1>4. ASSUME NEW t \in Sync PROVE Obj(t)'
    <2>0. Obj(t) BY <1>0
    <2>1. sync[t].needStart' => AtRest(t)'
      BY <1>0, <2>0 DEF CtlType, Obj, AtRest
    <2>2. ~sync[t].needStart' => Events(t)'
      BY <1>0, <2>0 DEF CtlType, Obj, Events, HasEnded, Count
    <2>3. ~sync[t].needStart' => Permits(t)'
      BY <1>0, <2>0 DEF CtlType, Obj, Permits, Made, Count, One
    <2> QED BY <2>1, <2>2, <2>3 DEF Obj
  <1> QED BY <1>1, <1>2, <1>3, <1>4 DEF ControlInv

LEMMA SetWasStoppedKeeps ==
  ASSUME ControlInv, NEW p \in Sync, SetWasStopped(p)
  PROVE  ControlInv'
  <1> USE DEF SetWasStopped, GoTo, dataVars, hashVars, btVars, lzVars
  <1>0. CtlType /\ Starts /\ Mutexes /\ Obj("bt") /\ Obj("hash")
    BY DEF ControlInv
  <1>1. CtlType'
    <2>1. sync' \in [Sync -> Object]
      BY <1>0, ObjectsStay DEF CtlType
    <2>2. /\ pc' \in [Thread -> Place] /\ \A t \in Thread : pc'[t] \in Places[t]
          /\ mine' \in [Sync -> Nat] /\ produced' \in [Sync -> Nat]
      BY <1>0 DEF CtlType, Place
    <2> QED BY <2>1, <2>2 DEF CtlType
  <1>2. Starts'
    BY <1>0 DEF CtlType, Starts
  <1>3. Mutexes'
    BY <1>0 DEF CtlType, Mutexes
  <1>4. ASSUME NEW t \in Sync PROVE Obj(t)'
    <2>0. Obj(t) BY <1>0
    <2>1. sync[t].needStart' => AtRest(t)'
      BY <1>0, <2>0 DEF CtlType, Obj, AtRest
    <2>2. ~sync[t].needStart' => Events(t)'
      BY <1>0, <2>0 DEF CtlType, Obj, Events, HasEnded, Count
    <2>3. ~sync[t].needStart' => Permits(t)'
      BY <1>0, <2>0, SMTT(30) DEF CtlType, Obj, Events, HasEnded, Permits, Made, Count,
                                  One, Released, Starts, Object
    <2> QED BY <2>1, <2>2, <2>3 DEF Obj
  <1> QED BY <1>1, <1>2, <1>3, <1>4 DEF ControlInv

LEMMA WaitFreeKeeps ==
  ASSUME ControlInv, NEW p \in Sync, WaitFree(p)
  PROVE  ControlInv'
  <1> USE DEF WaitFree, GoTo, dataVars, hashVars, btVars, lzVars
  <1>0. CtlType /\ Starts /\ Mutexes /\ Obj("bt") /\ Obj("hash")
    BY DEF ControlInv
  <1>1. CtlType'
    <2>1. sync' \in [Sync -> Object]
      BY <1>0 DEF CtlType, Object
    <2>2. /\ pc' \in [Thread -> Place] /\ \A t \in Thread : pc'[t] \in Places[t]
          /\ mine' \in [Sync -> Nat] /\ produced' \in [Sync -> Nat]
      BY <1>0 DEF CtlType, Place
    <2> QED BY <2>1, <2>2 DEF CtlType
  <1>2. Starts'
    BY <1>0 DEF CtlType, Starts
  <1>3. Mutexes'
    BY <1>0 DEF CtlType, Mutexes
  <1>4. ASSUME NEW t \in Sync PROVE Obj(t)'
    <2>0. Obj(t) BY <1>0
    <2>1. sync[t].needStart' => AtRest(t)'
      BY <1>0, <2>0 DEF CtlType, Obj, AtRest
    <2>2. ~sync[t].needStart' => Events(t)'
      BY <1>0, <2>0 DEF CtlType, Obj, Events, HasEnded, Count
    <2>3. ~sync[t].needStart' => Permits(t)'
      BY <1>0, <2>0, SMTT(30) DEF CtlType, Obj, Permits, Made, Count, One, Released, Object
    <2> QED BY <2>1, <2>2, <2>3 DEF Obj
  <1> QED BY <1>1, <1>2, <1>3, <1>4 DEF ControlInv

LEMMA ReleaseFilledKeeps ==
  ASSUME ControlInv, NEW p \in Sync, ReleaseFilled(p)
  PROVE  ControlInv'
  <1> USE DEF ReleaseFilled, GoTo, dataVars, hashVars, btVars, lzVars
  <1>0. CtlType /\ Starts /\ Mutexes /\ Obj("bt") /\ Obj("hash")
    BY DEF ControlInv
  <1>1. CtlType'
    <2>1. sync' \in [Sync -> Object]
      BY <1>0 DEF CtlType, Object, Released
    <2>2. /\ pc' \in [Thread -> Place] /\ \A t \in Thread : pc'[t] \in Places[t]
          /\ mine' \in [Sync -> Nat] /\ produced' \in [Sync -> Nat]
      BY <1>0 DEF CtlType, Place
    <2> QED BY <2>1, <2>2 DEF CtlType
  <1>2. Starts'
    BY <1>0 DEF CtlType, Starts
  <1>3. Mutexes'
    BY <1>0 DEF CtlType, Mutexes
  <1>4. ASSUME NEW t \in Sync PROVE Obj(t)'
    <2>0. Obj(t) BY <1>0
    <2>1. sync[t].needStart' => AtRest(t)'
      BY <1>0, <2>0 DEF CtlType, Obj, AtRest
    <2>2. ~sync[t].needStart' => Events(t)'
      BY <1>0, <2>0 DEF CtlType, Obj, Events, HasEnded, Count
    <2>3. ~sync[t].needStart' => Permits(t)'
      BY <1>0, <2>0, SMTT(30) DEF CtlType, Obj, Permits, Made, Count, One, Released, Object
    <2> QED BY <2>1, <2>2, <2>3 DEF Obj
  <1> QED BY <1>1, <1>2, <1>3, <1>4 DEF ControlInv

LEMMA HashStopsKeeps ==
  ASSUME ControlInv, HashStops
  PROVE  ControlInv'
  <1> USE DEF HashStops, Stops, Goes, GoTo, dataVars, hashVars, btVars, lzVars
  <1>0. CtlType /\ Starts /\ Mutexes /\ Obj("bt") /\ Obj("hash")
    BY DEF ControlInv
  <1>1. CtlType'
    <2>1. sync' \in [Sync -> Object]
      BY <1>0 DEF CtlType, Object
    <2>2. /\ pc' \in [Thread -> Place] /\ \A t \in Thread : pc'[t] \in Places[t]
          /\ mine' \in [Sync -> Nat] /\ produced' \in [Sync -> Nat]
      BY <1>0 DEF CtlType, Place
    <2> QED BY <2>1, <2>2 DEF CtlType
  <1>2. Starts'
    BY <1>0 DEF CtlType, Starts
  <1>3. Mutexes'
    BY <1>0 DEF CtlType, Mutexes
  <1>4. ASSUME NEW t \in Sync PROVE Obj(t)'
    <2>0. Obj(t) BY <1>0
    <2>1. sync[t].needStart' => AtRest(t)'
      BY <1>0, <2>0 DEF CtlType, Obj, AtRest
    <2>2. ~sync[t].needStart' => Events(t)'
      BY <1>0, <2>0 DEF CtlType, Obj, Events, HasEnded, Count
    <2>3. ~sync[t].needStart' => Permits(t)'
      BY <1>0, <2>0, SMTT(30) DEF CtlType, Obj, Events, HasEnded, Permits, Made, Count,
                                  One, Released, Starts, Object
    <2> QED BY <2>1, <2>2, <2>3 DEF Obj
  <1> QED BY <1>1, <1>2, <1>3, <1>4 DEF ControlInv

LEMMA HashNeedsMoveKeeps ==
  ASSUME ControlInv, HashNeedsMove
  PROVE  ControlInv'
  <1> USE DEF HashNeedsMove, Continues, Goes, GoTo, dataVars, hashVars, btVars, lzVars
  <1>0. CtlType /\ Starts /\ Mutexes /\ Obj("bt") /\ Obj("hash")
    BY DEF ControlInv
  <1>1. CtlType'
    <2>1. sync' \in [Sync -> Object]
      BY <1>0 DEF CtlType
    <2>2. /\ pc' \in [Thread -> Place] /\ \A t \in Thread : pc'[t] \in Places[t]
          /\ mine' \in [Sync -> Nat] /\ produced' \in [Sync -> Nat]
      BY <1>0 DEF CtlType, Place
    <2> QED BY <2>1, <2>2 DEF CtlType
  <1>2. Starts'
    BY <1>0 DEF CtlType, Starts
  <1>3. Mutexes'
    BY <1>0 DEF CtlType, Mutexes
  <1>4. ASSUME NEW t \in Sync PROVE Obj(t)'
    <2>0. Obj(t) BY <1>0
    <2>1. sync[t].needStart' => AtRest(t)'
      BY <1>0, <2>0 DEF CtlType, Obj, AtRest
    <2>2. ~sync[t].needStart' => Events(t)'
      BY <1>0, <2>0 DEF CtlType, Obj, Events, HasEnded, Count
    <2>3. ~sync[t].needStart' => Permits(t)'
      BY <1>0, <2>0 DEF CtlType, Obj, Permits, Made, Count, One
    <2> QED BY <2>1, <2>2, <2>3 DEF Obj
  <1> QED BY <1>1, <1>2, <1>3, <1>4 DEF ControlInv

LEMMA MoveEnterBtKeeps ==
  ASSUME ControlInv, MoveEnterBt
  PROVE  ControlInv'
  <1> USE DEF MoveEnterBt, GoTo, dataVars, hashVars, btVars, lzVars
  <1>0. CtlType /\ Starts /\ Mutexes /\ Obj("bt") /\ Obj("hash")
    BY DEF ControlInv
  <1>1. CtlType'
    <2>1. sync' \in [Sync -> Object]
      BY <1>0 DEF CtlType, Object
    <2>2. /\ pc' \in [Thread -> Place] /\ \A t \in Thread : pc'[t] \in Places[t]
          /\ mine' \in [Sync -> Nat] /\ produced' \in [Sync -> Nat]
      BY <1>0 DEF CtlType, Place
    <2> QED BY <2>1, <2>2 DEF CtlType
  <1>2. Starts'
    BY <1>0 DEF CtlType, Starts
  <1>3. Mutexes'
    BY <1>0 DEF CtlType, Mutexes
  <1>4. ASSUME NEW t \in Sync PROVE Obj(t)'
    <2>0. Obj(t) BY <1>0
    <2>1. sync[t].needStart' => AtRest(t)'
      BY <1>0, <2>0 DEF CtlType, Obj, AtRest
    <2>2. ~sync[t].needStart' => Events(t)'
      BY <1>0, <2>0 DEF CtlType, Obj, Events, HasEnded, Count
    <2>3. ~sync[t].needStart' => Permits(t)'
      BY <1>0, <2>0 DEF CtlType, Obj, Permits, Made, Count, One
    <2> QED BY <2>1, <2>2, <2>3 DEF Obj
  <1> QED BY <1>1, <1>2, <1>3, <1>4 DEF ControlInv

LEMMA MoveEnterHashKeeps ==
  ASSUME ControlInv, MoveEnterHash
  PROVE  ControlInv'
  <1> USE DEF MoveEnterHash, GoTo, dataVars, hashVars, btVars, lzVars
  <1>0. CtlType /\ Starts /\ Mutexes /\ Obj("bt") /\ Obj("hash")
    BY DEF ControlInv
  <1>1. CtlType'
    <2>1. sync' \in [Sync -> Object]
      BY <1>0 DEF CtlType, Object
    <2>2. /\ pc' \in [Thread -> Place] /\ \A t \in Thread : pc'[t] \in Places[t]
          /\ mine' \in [Sync -> Nat] /\ produced' \in [Sync -> Nat]
      BY <1>0 DEF CtlType, Place
    <2> QED BY <2>1, <2>2 DEF CtlType
  <1>2. Starts'
    BY <1>0 DEF CtlType, Starts
  <1>3. Mutexes'
    BY <1>0 DEF CtlType, Mutexes
  <1>4. ASSUME NEW t \in Sync PROVE Obj(t)'
    <2>0. Obj(t) BY <1>0
    <2>1. sync[t].needStart' => AtRest(t)'
      BY <1>0, <2>0 DEF CtlType, Obj, AtRest
    <2>2. ~sync[t].needStart' => Events(t)'
      BY <1>0, <2>0 DEF CtlType, Obj, Events, HasEnded, Count
    <2>3. ~sync[t].needStart' => Permits(t)'
      BY <1>0, <2>0 DEF CtlType, Obj, Permits, Made, Count, One
    <2> QED BY <2>1, <2>2, <2>3 DEF Obj
  <1> QED BY <1>1, <1>2, <1>3, <1>4 DEF ControlInv

LEMMA MoveKeeps ==
  ASSUME ControlInv, Move
  PROVE  ControlInv'
  <1> USE DEF Move, GoTo, dataVars, hashVars, btVars, lzVars
  <1>0. CtlType /\ Starts /\ Mutexes /\ Obj("bt") /\ Obj("hash")
    BY DEF ControlInv
  <1>1. CtlType'
    <2>1. sync' \in [Sync -> Object]
      BY <1>0 DEF CtlType, Object
    <2>2. /\ pc' \in [Thread -> Place] /\ \A t \in Thread : pc'[t] \in Places[t]
          /\ mine' \in [Sync -> Nat] /\ produced' \in [Sync -> Nat]
      BY <1>0 DEF CtlType, Place
    <2> QED BY <2>1, <2>2 DEF CtlType
  <1>2. Starts'
    BY <1>0 DEF CtlType, Starts
  <1>3. Mutexes'
    BY <1>0 DEF CtlType, Mutexes
  <1>4. ASSUME NEW t \in Sync PROVE Obj(t)'
    <2>0. Obj(t) BY <1>0
    <2>1. sync[t].needStart' => AtRest(t)'
      BY <1>0, <2>0 DEF CtlType, Obj, AtRest
    <2>2. ~sync[t].needStart' => Events(t)'
      BY <1>0, <2>0 DEF CtlType, Obj, Events, HasEnded, Count
    <2>3. ~sync[t].needStart' => Permits(t)'
      BY <1>0, <2>0 DEF CtlType, Obj, Permits, Made, Count, One
    <2> QED BY <2>1, <2>2, <2>3 DEF Obj
  <1> QED BY <1>1, <1>2, <1>3, <1>4 DEF ControlInv

LEMMA MoveLeaveHashKeeps ==
  ASSUME ControlInv, MoveLeaveHash
  PROVE  ControlInv'
  <1> USE DEF MoveLeaveHash, GoTo, dataVars, hashVars, btVars, lzVars
  <1>0. CtlType /\ Starts /\ Mutexes /\ Obj("bt") /\ Obj("hash")
    BY DEF ControlInv
  <1>1. CtlType'
    <2>1. sync' \in [Sync -> Object]
      BY <1>0 DEF CtlType, Object
    <2>2. /\ pc' \in [Thread -> Place] /\ \A t \in Thread : pc'[t] \in Places[t]
          /\ mine' \in [Sync -> Nat] /\ produced' \in [Sync -> Nat]
      BY <1>0 DEF CtlType, Place
    <2> QED BY <2>1, <2>2 DEF CtlType
  <1>2. Starts'
    BY <1>0 DEF CtlType, Starts
  <1>3. Mutexes'
    BY <1>0 DEF CtlType, Mutexes
  <1>4. ASSUME NEW t \in Sync PROVE Obj(t)'
    <2>0. Obj(t) BY <1>0
    <2>1. sync[t].needStart' => AtRest(t)'
      BY <1>0, <2>0 DEF CtlType, Obj, AtRest
    <2>2. ~sync[t].needStart' => Events(t)'
      BY <1>0, <2>0 DEF CtlType, Obj, Events, HasEnded, Count
    <2>3. ~sync[t].needStart' => Permits(t)'
      BY <1>0, <2>0 DEF CtlType, Obj, Permits, Made, Count, One
    <2> QED BY <2>1, <2>2, <2>3 DEF Obj
  <1> QED BY <1>1, <1>2, <1>3, <1>4 DEF ControlInv

LEMMA HashContinuesKeeps ==
  ASSUME ControlInv, HashContinues
  PROVE  ControlInv'
  <1> USE DEF HashContinues, Continues, Goes, GoTo, dataVars, hashVars, btVars, lzVars
  <1>0. CtlType /\ Starts /\ Mutexes /\ Obj("bt") /\ Obj("hash")
    BY DEF ControlInv
  <1>1. CtlType'
    <2>1. sync' \in [Sync -> Object]
      BY <1>0 DEF CtlType
    <2>2. /\ pc' \in [Thread -> Place] /\ \A t \in Thread : pc'[t] \in Places[t]
          /\ mine' \in [Sync -> Nat] /\ produced' \in [Sync -> Nat]
      BY <1>0 DEF CtlType, Place
    <2> QED BY <2>1, <2>2 DEF CtlType
  <1>2. Starts'
    BY <1>0 DEF CtlType, Starts
  <1>3. Mutexes'
    BY <1>0 DEF CtlType, Mutexes
  <1>4. ASSUME NEW t \in Sync PROVE Obj(t)'
    <2>0. Obj(t) BY <1>0
    <2>1. sync[t].needStart' => AtRest(t)'
      BY <1>0, <2>0 DEF CtlType, Obj, AtRest
    <2>2. ~sync[t].needStart' => Events(t)'
      BY <1>0, <2>0 DEF CtlType, Obj, Events, HasEnded, Count
    <2>3. ~sync[t].needStart' => Permits(t)'
      BY <1>0, <2>0 DEF CtlType, Obj, Permits, Made, Count, One
    <2> QED BY <2>1, <2>2, <2>3 DEF Obj
  <1> QED BY <1>1, <1>2, <1>3, <1>4 DEF ControlInv

LEMMA HashFillsBlockKeeps ==
  ASSUME ControlInv, HashFillsBlock
  PROVE  ControlInv'
  <1> USE DEF HashFillsBlock, GoTo, dataVars, hashVars, btVars, lzVars
  <1>0. CtlType /\ Starts /\ Mutexes /\ Obj("bt") /\ Obj("hash")
    BY DEF ControlInv
  <1>1. CtlType'
    <2>1. sync' \in [Sync -> Object]
      BY <1>0 DEF CtlType
    <2>2. /\ pc' \in [Thread -> Place] /\ \A t \in Thread : pc'[t] \in Places[t]
          /\ mine' \in [Sync -> Nat] /\ produced' \in [Sync -> Nat]
      BY <1>0 DEF CtlType, Place
    <2> QED BY <2>1, <2>2 DEF CtlType
  <1>2. Starts'
    BY <1>0 DEF CtlType, Starts
  <1>3. Mutexes'
    BY <1>0 DEF CtlType, Mutexes
  <1>4. ASSUME NEW t \in Sync PROVE Obj(t)'
    <2>0. Obj(t) BY <1>0
    <2>1. sync[t].needStart' => AtRest(t)'
      BY <1>0, <2>0 DEF CtlType, Obj, AtRest
    <2>2. ~sync[t].needStart' => Events(t)'
      BY <1>0, <2>0 DEF CtlType, Obj, Events, HasEnded, Count
    <2>3. ~sync[t].needStart' => Permits(t)'
      BY <1>0, <2>0 DEF CtlType, Obj, Permits, Made, Count, One
    <2> QED BY <2>1, <2>2, <2>3 DEF Obj
  <1> QED BY <1>1, <1>2, <1>3, <1>4 DEF ControlInv

LEMMA BtStopsKeeps ==
  ASSUME ControlInv, BtStops
  PROVE  ControlInv'
  <1> USE DEF BtStops, Stops, Goes, GoTo, dataVars, hashVars, btVars, lzVars
  <1>0. CtlType /\ Starts /\ Mutexes /\ Obj("bt") /\ Obj("hash")
    BY DEF ControlInv
  <1>1. CtlType'
    <2>1. sync' \in [Sync -> Object]
      BY <1>0 DEF CtlType, Object
    <2>2. /\ pc' \in [Thread -> Place] /\ \A t \in Thread : pc'[t] \in Places[t]
          /\ mine' \in [Sync -> Nat] /\ produced' \in [Sync -> Nat]
      BY <1>0 DEF CtlType, Place
    <2> QED BY <2>1, <2>2 DEF CtlType
  <1>2. Starts'
    BY <1>0 DEF CtlType, Starts
  <1>3. Mutexes'
    BY <1>0 DEF CtlType, Mutexes
  <1>4. ASSUME NEW t \in Sync PROVE Obj(t)'
    <2>0. Obj(t) BY <1>0
    <2>1. sync[t].needStart' => AtRest(t)'
      BY <1>0, <2>0 DEF CtlType, Obj, AtRest
    <2>2. ~sync[t].needStart' => Events(t)'
      BY <1>0, <2>0 DEF CtlType, Obj, Events, HasEnded, Count
    <2>3. ~sync[t].needStart' => Permits(t)'
      BY <1>0, <2>0, SMTT(30) DEF CtlType, Obj, Events, HasEnded, Permits, Made, Count,
                                  One, Released, Starts, Object
    <2> QED BY <2>1, <2>2, <2>3 DEF Obj
  <1> QED BY <1>1, <1>2, <1>3, <1>4 DEF ControlInv

LEMMA BtStopsHashKeeps ==
  ASSUME ControlInv, BtStopsHash
  PROVE  ControlInv'
  <1> USE DEF BtStopsHash, StopWriting, GoTo, dataVars, hashVars, btVars, lzVars
  <1>0. CtlType /\ Starts /\ Mutexes /\ Obj("bt") /\ Obj("hash")
    BY DEF ControlInv
  <1>1. CtlType'
    <2>1. sync' \in [Sync -> Object]
      BY <1>0, ObjectsStay DEF CtlType
    <2>2. /\ pc' \in [Thread -> Place] /\ \A t \in Thread : pc'[t] \in Places[t]
          /\ mine' \in [Sync -> Nat] /\ produced' \in [Sync -> Nat]
      BY <1>0 DEF CtlType, Place, Object
    <2> QED BY <2>1, <2>2 DEF CtlType
  <1>2. Starts'
    <2>1. CASE sync["hash"].needStart
      BY <1>0, <2>1 DEF CtlType, Starts
    <2>2. CASE ~sync["hash"].needStart
      <3>1. /\ pc' = [pc EXCEPT !["bt"] = "stopLeave"]
            /\ \A t \in Sync : sync'[t].needStart = sync[t].needStart
        BY <1>0, <2>2 DEF CtlType, Object
      <3> QED BY <1>0, <2>2, <3>1 DEF CtlType, Starts
    <2> QED BY <2>1, <2>2
  <1>3. Mutexes'
    BY <1>0 DEF CtlType, Mutexes, Object
  <1>4. ASSUME NEW t \in Sync PROVE Obj(t)'
    <2>0. Obj(t) BY <1>0
    <2>1. sync[t].needStart' => AtRest(t)'
      BY <1>0, <2>0 DEF CtlType, Obj, AtRest, Starts, Object
    <2>2. ~sync[t].needStart' => Events(t)'
      BY <1>0, <2>0, SMTT(30) DEF CtlType, Obj, Events, HasEnded, Count, Starts, Object
    <2>3. ~sync[t].needStart' => Permits(t)'
      BY <1>0, <2>0, SMTT(30) DEF CtlType, Obj, Permits, Made, Count, One, Released, Object
    <2> QED BY <2>1, <2>2, <2>3 DEF Obj
  <1> QED BY <1>1, <1>2, <1>3, <1>4 DEF ControlInv

LEMMA BtContinuesKeeps ==
  ASSUME ControlInv, BtContinues
  PROVE  ControlInv'
  <1> USE DEF BtContinues, Continues, Goes, GoTo, dataVars, hashVars, btVars, lzVars
  <1>0. CtlType /\ Starts /\ Mutexes /\ Obj("bt") /\ Obj("hash")
    BY DEF ControlInv
  <1>1. CtlType'
    <2>1. sync' \in [Sync -> Object]
      BY <1>0 DEF CtlType
    <2>2. /\ pc' \in [Thread -> Place] /\ \A t \in Thread : pc'[t] \in Places[t]
          /\ mine' \in [Sync -> Nat] /\ produced' \in [Sync -> Nat]
      BY <1>0 DEF CtlType, Place
    <2> QED BY <2>1, <2>2 DEF CtlType
  <1>2. Starts'
    BY <1>0 DEF CtlType, Starts
  <1>3. Mutexes'
    BY <1>0 DEF CtlType, Mutexes
  <1>4. ASSUME NEW t \in Sync PROVE Obj(t)'
    <2>0. Obj(t) BY <1>0
    <2>1. sync[t].needStart' => AtRest(t)'
      BY <1>0, <2>0 DEF CtlType, Obj, AtRest
    <2>2. ~sync[t].needStart' => Events(t)'
      BY <1>0, <2>0 DEF CtlType, Obj, Events, HasEnded, Count
    <2>3. ~sync[t].needStart' => Permits(t)'
      BY <1>0, <2>0 DEF CtlType, Obj, Permits, Made, Count, One
    <2> QED BY <2>1, <2>2, <2>3 DEF Obj
  <1> QED BY <1>1, <1>2, <1>3, <1>4 DEF ControlInv

LEMMA BtFillEnterKeeps ==
  ASSUME ControlInv, BtFillEnter
  PROVE  ControlInv'
  <1> USE DEF BtFillEnter, GoTo, dataVars, hashVars, btVars, lzVars
  <1>0. CtlType /\ Starts /\ Mutexes /\ Obj("bt") /\ Obj("hash")
    BY DEF ControlInv
  <1>1. CtlType'
    <2>1. sync' \in [Sync -> Object]
      BY <1>0 DEF CtlType, Object
    <2>2. /\ pc' \in [Thread -> Place] /\ \A t \in Thread : pc'[t] \in Places[t]
          /\ mine' \in [Sync -> Nat] /\ produced' \in [Sync -> Nat]
      BY <1>0 DEF CtlType, Place
    <2> QED BY <2>1, <2>2 DEF CtlType
  <1>2. Starts'
    BY <1>0 DEF CtlType, Starts
  <1>3. Mutexes'
    BY <1>0 DEF CtlType, Mutexes, Object
  <1>4. ASSUME NEW t \in Sync PROVE Obj(t)'
    <2>0. Obj(t) BY <1>0
    <2>1. sync[t].needStart' => AtRest(t)'
      BY <1>0, <2>0 DEF CtlType, Obj, AtRest, Starts, Object
    <2>2. ~sync[t].needStart' => Events(t)'
      BY <1>0, <2>0, SMTT(30) DEF CtlType, Obj, Events, HasEnded, Count, Starts, Object
    <2>3. ~sync[t].needStart' => Permits(t)'
      BY <1>0, <2>0, SMTT(30) DEF CtlType, Obj, Permits, Made, Count, One, Released, Object
    <2> QED BY <2>1, <2>2, <2>3 DEF Obj
  <1> QED BY <1>1, <1>2, <1>3, <1>4 DEF ControlInv

LEMMA BtTakesKeeps ==
  ASSUME ControlInv, BtTakes
  PROVE  ControlInv'
  <1> USE DEF BtTakes, GoTo, dataVars, hashVars, btVars, lzVars
  <1>0. CtlType /\ Starts /\ Mutexes /\ Obj("bt") /\ Obj("hash")
    BY DEF ControlInv
  <1>1. CtlType'
    <2>1. sync' \in [Sync -> Object]
      BY <1>0 DEF CtlType
    <2>2. /\ pc' \in [Thread -> Place] /\ \A t \in Thread : pc'[t] \in Places[t]
          /\ mine' \in [Sync -> Nat] /\ produced' \in [Sync -> Nat]
      BY <1>0 DEF CtlType, Place
    <2> QED BY <2>1, <2>2 DEF CtlType
  <1>2. Starts'
    BY <1>0 DEF CtlType, Starts
  <1>3. Mutexes'
    BY <1>0 DEF CtlType, Mutexes
  <1>4. ASSUME NEW t \in Sync PROVE Obj(t)'
    <2>0. Obj(t) BY <1>0
    <2>1. sync[t].needStart' => AtRest(t)'
      BY <1>0, <2>0 DEF CtlType, Obj, AtRest
    <2>2. ~sync[t].needStart' => Events(t)'
      BY <1>0, <2>0 DEF CtlType, Obj, Events, HasEnded, Count
    <2>3. ~sync[t].needStart' => Permits(t)'
      BY <1>0, <2>0 DEF CtlType, Obj, Permits, Made, Count, One
    <2> QED BY <2>1, <2>2, <2>3 DEF Obj
  <1> QED BY <1>1, <1>2, <1>3, <1>4 DEF ControlInv

LEMMA BtGetsMatchesKeeps ==
  ASSUME ControlInv, BtGetsMatches
  PROVE  ControlInv'
  <1> USE DEF BtGetsMatches, dataVars, hashVars, btVars, lzVars
  <1>0. CtlType /\ Starts /\ Mutexes /\ Obj("bt") /\ Obj("hash")
    BY DEF ControlInv
  <1>1. CtlType'
    <2>1. sync' \in [Sync -> Object]
      BY <1>0 DEF CtlType
    <2>2. /\ pc' \in [Thread -> Place] /\ \A t \in Thread : pc'[t] \in Places[t]
          /\ mine' \in [Sync -> Nat] /\ produced' \in [Sync -> Nat]
      BY <1>0 DEF CtlType, Place
    <2> QED BY <2>1, <2>2 DEF CtlType
  <1>2. Starts'
    BY <1>0 DEF CtlType, Starts
  <1>3. Mutexes'
    BY <1>0 DEF CtlType, Mutexes
  <1>4. ASSUME NEW t \in Sync PROVE Obj(t)'
    <2>0. Obj(t) BY <1>0
    <2>1. sync[t].needStart' => AtRest(t)'
      BY <1>0, <2>0 DEF CtlType, Obj, AtRest
    <2>2. ~sync[t].needStart' => Events(t)'
      BY <1>0, <2>0 DEF CtlType, Obj, Events, HasEnded, Count
    <2>3. ~sync[t].needStart' => Permits(t)'
      BY <1>0, <2>0 DEF CtlType, Obj, Permits, Made, Count, One
    <2> QED BY <2>1, <2>2, <2>3 DEF Obj
  <1> QED BY <1>1, <1>2, <1>3, <1>4 DEF ControlInv

LEMMA BtIsFullKeeps ==
  ASSUME ControlInv, BtIsFull
  PROVE  ControlInv'
  <1> USE DEF BtIsFull, GoTo, dataVars, hashVars, btVars, lzVars
  <1>0. CtlType /\ Starts /\ Mutexes /\ Obj("bt") /\ Obj("hash")
    BY DEF ControlInv
  <1>1. CtlType'
    <2>1. sync' \in [Sync -> Object]
      BY <1>0 DEF CtlType
    <2>2. /\ pc' \in [Thread -> Place] /\ \A t \in Thread : pc'[t] \in Places[t]
          /\ mine' \in [Sync -> Nat] /\ produced' \in [Sync -> Nat]
      BY <1>0 DEF CtlType, Place
    <2> QED BY <2>1, <2>2 DEF CtlType
  <1>2. Starts'
    BY <1>0 DEF CtlType, Starts
  <1>3. Mutexes'
    BY <1>0 DEF CtlType, Mutexes
  <1>4. ASSUME NEW t \in Sync PROVE Obj(t)'
    <2>0. Obj(t) BY <1>0
    <2>1. sync[t].needStart' => AtRest(t)'
      BY <1>0, <2>0 DEF CtlType, Obj, AtRest
    <2>2. ~sync[t].needStart' => Events(t)'
      BY <1>0, <2>0 DEF CtlType, Obj, Events, HasEnded, Count
    <2>3. ~sync[t].needStart' => Permits(t)'
      BY <1>0, <2>0 DEF CtlType, Obj, Permits, Made, Count, One
    <2> QED BY <2>1, <2>2, <2>3 DEF Obj
  <1> QED BY <1>1, <1>2, <1>3, <1>4 DEF ControlInv

LEMMA BtFillLeaveKeeps ==
  ASSUME ControlInv, BtFillLeave
  PROVE  ControlInv'
  <1> USE DEF BtFillLeave, GoTo, dataVars, hashVars, btVars, lzVars
  <1>0. CtlType /\ Starts /\ Mutexes /\ Obj("bt") /\ Obj("hash")
    BY DEF ControlInv
  <1>1. CtlType'
    <2>1. sync' \in [Sync -> Object]
      BY <1>0, ObjectsStay DEF CtlType
    <2>2. /\ pc' \in [Thread -> Place] /\ \A t \in Thread : pc'[t] \in Places[t]
          /\ mine' \in [Sync -> Nat] /\ produced' \in [Sync -> Nat]
      BY <1>0 DEF CtlType, Place
    <2> QED BY <2>1, <2>2 DEF CtlType
  <1>2. Starts'
    BY <1>0 DEF CtlType, Starts
  <1>3. Mutexes'
    BY <1>0 DEF CtlType, Mutexes, Starts, Obj, AtRest, Object
  <1>4. ASSUME NEW t \in Sync PROVE Obj(t)'
    <2>0. Obj(t) BY <1>0
    <2>1. sync[t].needStart' => AtRest(t)'
      BY <1>0, <2>0 DEF CtlType, Obj, AtRest
    <2>2. ~sync[t].needStart' => Events(t)'
      BY <1>0, <2>0 DEF CtlType, Obj, Events, HasEnded, Count
    <2>3. ~sync[t].needStart' => Permits(t)'
      BY <1>0, <2>0 DEF CtlType, Obj, Permits, Made, Count, One
    <2> QED BY <2>1, <2>2, <2>3 DEF Obj
  <1> QED BY <1>1, <1>2, <1>3, <1>4 DEF ControlInv

LEMMA LzTakesKeeps ==
  ASSUME ControlInv, LzTakes
  PROVE  ControlInv'
  <1> USE DEF LzTakes, GoTo, dataVars, hashVars, btVars, lzVars
  <1>0. CtlType /\ Starts /\ Mutexes /\ Obj("bt") /\ Obj("hash")
    BY DEF ControlInv
  <1>1. CtlType'
    <2>1. sync' \in [Sync -> Object]
      BY <1>0 DEF CtlType
    <2>2. /\ pc' \in [Thread -> Place] /\ \A t \in Thread : pc'[t] \in Places[t]
          /\ mine' \in [Sync -> Nat] /\ produced' \in [Sync -> Nat]
      BY <1>0 DEF CtlType, Place
    <2> QED BY <2>1, <2>2 DEF CtlType
  <1>2. Starts'
    BY <1>0 DEF CtlType, Starts
  <1>3. Mutexes'
    BY <1>0 DEF CtlType, Mutexes
  <1>4. ASSUME NEW t \in Sync PROVE Obj(t)'
    <2>0. Obj(t) BY <1>0
    <2>1. sync[t].needStart' => AtRest(t)'
      BY <1>0, <2>0 DEF CtlType, Obj, AtRest
    <2>2. ~sync[t].needStart' => Events(t)'
      BY <1>0, <2>0 DEF CtlType, Obj, Events, HasEnded, Count
    <2>3. ~sync[t].needStart' => Permits(t)'
      BY <1>0, <2>0 DEF CtlType, Obj, Permits, Made, Count, One
    <2> QED BY <2>1, <2>2, <2>3 DEF Obj
  <1> QED BY <1>1, <1>2, <1>3, <1>4 DEF ControlInv

LEMMA ReleaseStreamKeeps ==
  ASSUME ControlInv, ReleaseStream
  PROVE  ControlInv'
  <1> USE DEF ReleaseStream, StopWriting, GoTo, dataVars, hashVars, btVars, lzVars
  <1>0. CtlType /\ Starts /\ Mutexes /\ Obj("bt") /\ Obj("hash")
    BY DEF ControlInv
  <1>1. CtlType'
    <2>1. sync' \in [Sync -> Object]
      BY <1>0, ObjectsStay DEF CtlType
    <2>2. /\ pc' \in [Thread -> Place] /\ \A t \in Thread : pc'[t] \in Places[t]
          /\ mine' \in [Sync -> Nat] /\ produced' \in [Sync -> Nat]
      BY <1>0 DEF CtlType, Place, Object
    <2> QED BY <2>1, <2>2 DEF CtlType
  <1>2. Starts'
    <2>1. CASE sync["bt"].needStart
      <3>1. pc["bt"] = "canStart" /\ pc["lz"] = "use" /\ sync' = sync
        BY <1>0, <2>1 DEF Obj, AtRest
      <3> QED BY <1>0, <2>1, <3>1 DEF CtlType, Starts
    <2>2. CASE ~sync["bt"].needStart
      <3>1. /\ pc' = [pc EXCEPT !["lz"] = "stopLeave"]
            /\ \A t \in Sync : sync'[t].needStart = sync[t].needStart
        BY <1>0, <2>2 DEF CtlType, Object
      <3> QED BY <1>0, <2>2, <3>1 DEF CtlType, Starts
    <2> QED BY <2>1, <2>2
  <1>3. Mutexes'
    BY <1>0 DEF CtlType, Mutexes, Starts, Obj, AtRest, Object
  <1>4. ASSUME NEW t \in Sync PROVE Obj(t)'
    <2>0. Obj(t) BY <1>0
    <2>1. sync[t].needStart' => AtRest(t)'
      BY <1>0, <2>0 DEF CtlType, Obj, AtRest, Starts, Object
    <2>2. ~sync[t].needStart' => Events(t)'
      BY <1>0, <2>0, SMTT(30) DEF CtlType, Obj, Events, HasEnded, Count, Starts, Object
    <2>3. ~sync[t].needStart' => Permits(t)'
      BY <1>0, <2>0, SMTT(30) DEF CtlType, Obj, Permits, Made, Count, One, Released, Object
    <2> QED BY <2>1, <2>2, <2>3 DEF Obj
  <1> QED BY <1>1, <1>2, <1>3, <1>4 DEF ControlInv

LEMMA DestructKeeps ==
  ASSUME ControlInv, Destruct
  PROVE  ControlInv'
  <1> USE DEF Destruct, GoTo, dataVars, hashVars, btVars, lzVars
  <1>0. CtlType /\ Starts /\ Mutexes /\ Obj("bt") /\ Obj("hash")
    BY DEF ControlInv
  <1>1. CtlType'
    <2>1. sync' \in [Sync -> Object]
      BY <1>0 DEF CtlType
    <2>2. /\ pc' \in [Thread -> Place] /\ \A t \in Thread : pc'[t] \in Places[t]
          /\ mine' \in [Sync -> Nat] /\ produced' \in [Sync -> Nat]
      BY <1>0 DEF CtlType, Place
    <2> QED BY <2>1, <2>2 DEF CtlType
  <1>2. Starts'
    BY <1>0 DEF CtlType, Starts
  <1>3. Mutexes'
    BY <1>0 DEF CtlType, Mutexes
  <1>4. ASSUME NEW t \in Sync PROVE Obj(t)'
    <2>0. Obj(t) BY <1>0
    <2>1. sync[t].needStart' => AtRest(t)'
      BY <1>0, <2>0 DEF CtlType, Obj, AtRest
    <2>2. ~sync[t].needStart' => Events(t)'
      BY <1>0, <2>0 DEF CtlType, Obj, Events, HasEnded, Count
    <2>3. ~sync[t].needStart' => Permits(t)'
      BY <1>0, <2>0 DEF CtlType, Obj, Permits, Made, Count, One
    <2> QED BY <2>1, <2>2, <2>3 DEF Obj
  <1> QED BY <1>1, <1>2, <1>3, <1>4 DEF ControlInv

LEMMA SetExit1Keeps ==
  ASSUME ControlInv, SetExit("hash", "exitHash", "joinHash")
  PROVE  ControlInv'
  <1> USE DEF SetExit, GoTo, dataVars, hashVars, btVars, lzVars
  <1>0. CtlType /\ Starts /\ Mutexes /\ Obj("bt") /\ Obj("hash")
    BY DEF ControlInv
  <1>1. CtlType'
    <2>1. sync' \in [Sync -> Object]
      BY <1>0, ObjectsStay DEF CtlType
    <2>2. /\ pc' \in [Thread -> Place] /\ \A t \in Thread : pc'[t] \in Places[t]
          /\ mine' \in [Sync -> Nat] /\ produced' \in [Sync -> Nat]
      BY <1>0 DEF CtlType, Place
    <2> QED BY <2>1, <2>2 DEF CtlType
  <1>2. Starts'
    BY <1>0 DEF CtlType, Starts
  <1>3. Mutexes'
    BY <1>0 DEF CtlType, Mutexes
  <1>4. ASSUME NEW t \in Sync PROVE Obj(t)'
    <2>0. Obj(t) BY <1>0
    <2>1. sync[t].needStart' => AtRest(t)'
      BY <1>0, <2>0 DEF CtlType, Obj, AtRest
    <2>2. ~sync[t].needStart' => Events(t)'
      BY <1>0, <2>0, SMTT(30) DEF CtlType, Obj, Events, HasEnded, Count, Starts, Object
    <2>3. ~sync[t].needStart' => Permits(t)'
      BY <1>0, <2>0 DEF CtlType, Obj, Permits, Made, Count, One
    <2> QED BY <2>1, <2>2, <2>3 DEF Obj
  <1> QED BY <1>1, <1>2, <1>3, <1>4 DEF ControlInv

LEMMA SetExit2Keeps ==
  ASSUME ControlInv, SetExit("bt", "exitBt", "joinBt")
  PROVE  ControlInv'
  <1> USE DEF SetExit, GoTo, dataVars, hashVars, btVars, lzVars
  <1>0. CtlType /\ Starts /\ Mutexes /\ Obj("bt") /\ Obj("hash")
    BY DEF ControlInv
  <1>1. CtlType'
    <2>1. sync' \in [Sync -> Object]
      BY <1>0, ObjectsStay DEF CtlType
    <2>2. /\ pc' \in [Thread -> Place] /\ \A t \in Thread : pc'[t] \in Places[t]
          /\ mine' \in [Sync -> Nat] /\ produced' \in [Sync -> Nat]
      BY <1>0 DEF CtlType, Place
    <2> QED BY <2>1, <2>2 DEF CtlType
  <1>2. Starts'
    BY <1>0 DEF CtlType, Starts
  <1>3. Mutexes'
    BY <1>0 DEF CtlType, Mutexes
  <1>4. ASSUME NEW t \in Sync PROVE Obj(t)'
    <2>0. Obj(t) BY <1>0
    <2>1. sync[t].needStart' => AtRest(t)'
      BY <1>0, <2>0 DEF CtlType, Obj, AtRest
    <2>2. ~sync[t].needStart' => Events(t)'
      BY <1>0, <2>0, SMTT(30) DEF CtlType, Obj, Events, HasEnded, Count, Starts, Object
    <2>3. ~sync[t].needStart' => Permits(t)'
      BY <1>0, <2>0 DEF CtlType, Obj, Permits, Made, Count, One
    <2> QED BY <2>1, <2>2, <2>3 DEF Obj
  <1> QED BY <1>1, <1>2, <1>3, <1>4 DEF ControlInv

LEMMA Join1Keeps ==
  ASSUME ControlInv, Join("hash", "joinHash", "exitBt")
  PROVE  ControlInv'
  <1> USE DEF Join, GoTo, dataVars, hashVars, btVars, lzVars
  <1>0. CtlType /\ Starts /\ Mutexes /\ Obj("bt") /\ Obj("hash")
    BY DEF ControlInv
  <1>1. CtlType'
    <2>1. sync' \in [Sync -> Object]
      BY <1>0 DEF CtlType
    <2>2. /\ pc' \in [Thread -> Place] /\ \A t \in Thread : pc'[t] \in Places[t]
          /\ mine' \in [Sync -> Nat] /\ produced' \in [Sync -> Nat]
      BY <1>0 DEF CtlType, Place
    <2> QED BY <2>1, <2>2 DEF CtlType
  <1>2. Starts'
    BY <1>0 DEF CtlType, Starts
  <1>3. Mutexes'
    BY <1>0 DEF CtlType, Mutexes
  <1>4. ASSUME NEW t \in Sync PROVE Obj(t)'
    <2>0. Obj(t) BY <1>0
    <2>1. sync[t].needStart' => AtRest(t)'
      BY <1>0, <2>0 DEF CtlType, Obj, AtRest
    <2>2. ~sync[t].needStart' => Events(t)'
      BY <1>0, <2>0 DEF CtlType, Obj, Events, HasEnded, Count
    <2>3. ~sync[t].needStart' => Permits(t)'
      BY <1>0, <2>0 DEF CtlType, Obj, Permits, Made, Count, One
    <2> QED BY <2>1, <2>2, <2>3 DEF Obj
  <1> QED BY <1>1, <1>2, <1>3, <1>4 DEF ControlInv

LEMMA Join2Keeps ==
  ASSUME ControlInv, Join("bt", "joinBt", "destructed")
  PROVE  ControlInv'
  <1> USE DEF Join, GoTo, dataVars, hashVars, btVars, lzVars
  <1>0. CtlType /\ Starts /\ Mutexes /\ Obj("bt") /\ Obj("hash")
    BY DEF ControlInv
  <1>1. CtlType'
    <2>1. sync' \in [Sync -> Object]
      BY <1>0 DEF CtlType
    <2>2. /\ pc' \in [Thread -> Place] /\ \A t \in Thread : pc'[t] \in Places[t]
          /\ mine' \in [Sync -> Nat] /\ produced' \in [Sync -> Nat]
      BY <1>0 DEF CtlType, Place
    <2> QED BY <2>1, <2>2 DEF CtlType
  <1>2. Starts'
    BY <1>0 DEF CtlType, Starts
  <1>3. Mutexes'
    BY <1>0 DEF CtlType, Mutexes
  <1>4. ASSUME NEW t \in Sync PROVE Obj(t)'
    <2>0. Obj(t) BY <1>0
    <2>1. sync[t].needStart' => AtRest(t)'
      BY <1>0, <2>0 DEF CtlType, Obj, AtRest
    <2>2. ~sync[t].needStart' => Events(t)'
      BY <1>0, <2>0 DEF CtlType, Obj, Events, HasEnded, Count
    <2>3. ~sync[t].needStart' => Permits(t)'
      BY <1>0, <2>0 DEF CtlType, Obj, Permits, Made, Count, One
    <2> QED BY <2>1, <2>2, <2>3 DEF Obj
  <1> QED BY <1>1, <1>2, <1>3, <1>4 DEF ControlInv

LEMMA InitFileKeeps ==
  ASSUME ControlInv, NEW n \in 0..MaxLen, InitFile(n)
  PROVE  ControlInv'
  <1> USE DEF InitFile, GoTo, dataVars, hashVars, btVars, lzVars
  <1>0. CtlType /\ Starts /\ Mutexes /\ Obj("bt") /\ Obj("hash")
    BY DEF ControlInv
  <1>1. CtlType'
    <2>1. sync' \in [Sync -> Object]
      BY <1>0 DEF CtlType
    <2>2. /\ pc' \in [Thread -> Place] /\ \A t \in Thread : pc'[t] \in Places[t]
          /\ mine' \in [Sync -> Nat] /\ produced' \in [Sync -> Nat]
      BY <1>0 DEF CtlType, Place
    <2> QED BY <2>1, <2>2 DEF CtlType
  <1>2. Starts'
    BY <1>0 DEF CtlType, Starts
  <1>3. Mutexes'
    BY <1>0 DEF CtlType, Mutexes, Starts, Object
  <1>4. ASSUME NEW t \in Sync PROVE Obj(t)'
    <2>0. Obj(t) BY <1>0
    <2>1. sync[t].needStart' => AtRest(t)'
      BY <1>0, <2>0 DEF CtlType, Obj, AtRest
    <2>2. ~sync[t].needStart' => Events(t)'
      BY <1>0, <2>0 DEF CtlType, Obj, Events, HasEnded, Count
    <2>3. ~sync[t].needStart' => Permits(t)'
      BY <1>0, <2>0 DEF CtlType, Obj, Permits, Made, Count, One
    <2> QED BY <2>1, <2>2, <2>3 DEF Obj
  <1> QED BY <1>1, <1>2, <1>3, <1>4 DEF ControlInv

LEMMA DrainedObject ==
  ASSUME sync \in [Sync -> Object], NEW s \in Sync, NEW c \in Thread, StopDrain(c, s)
  PROVE  \E o \in Object :
           /\ sync' = [sync EXCEPT ![s] = o]
           /\ o.needStart = sync[s].needStart /\ o.exit = sync[s].exit
           /\ o.stopWriting = sync[s].stopWriting /\ o.canStart = sync[s].canStart
           /\ o.wasStarted = sync[s].wasStarted /\ o.wasStopped = sync[s].wasStopped
           /\ o.cs = sync[s].cs /\ o.csWasEntered = sync[s].csWasEntered
           /\ o.numProcessedBlocks = sync[s].numProcessedBlocks
           /\ o.filledSemaphore = sync[s].filledSemaphore - 1
           /\ o.freeSemaphore = Released(sync[s].freeSemaphore, s)
  <1>1. PICK r \in Object : r = sync[s] OBVIOUS
  <1>2. PICK o : o = [r EXCEPT !.filledSemaphore = r.filledSemaphore - 1,
                               !.freeSemaphore = Released(r.freeSemaphore, s)]
    OBVIOUS
  <1>3. o \in Object
    <2>1. r.filledSemaphore - 1 \in Nat
      BY <1>1 DEF StopDrain, Object
    <2>2. Released(r.freeSemaphore, s) \in Nat
      BY <1>1 DEF Released, Object
    <2> QED BY <1>2, <2>1, <2>2 DEF Object
  <1>4. sync' = [sync EXCEPT ![s] = o]
    BY <1>1, <1>2 DEF StopDrain
  <1>5. /\ o.needStart = r.needStart /\ o.exit = r.exit
        /\ o.stopWriting = r.stopWriting /\ o.canStart = r.canStart
        /\ o.wasStarted = r.wasStarted /\ o.wasStopped = r.wasStopped
        /\ o.cs = r.cs /\ o.csWasEntered = r.csWasEntered
        /\ o.numProcessedBlocks = r.numProcessedBlocks
    BY <1>2 DEF Object
  <1>6. /\ o.filledSemaphore = r.filledSemaphore - 1
        /\ o.freeSemaphore = Released(r.freeSemaphore, s)
    BY <1>2 DEF Object
  <1> QED BY <1>1, <1>3, <1>4, <1>5, <1>6

LEMMA StopDrainKeeps ==
  ASSUME ControlInv, NEW c \in {"lz", "bt"}, StopDrain(c, Uses[c])
  PROVE  ControlInv'
  <1>0. CtlType /\ Starts /\ Mutexes /\ Obj("bt") /\ Obj("hash")
    BY DEF ControlInv
  <1> DEFINE s == Uses[c]
  <1>a. PICK o \in Object : /\ sync' = [sync EXCEPT ![s] = o]
           /\ o.needStart = sync[s].needStart /\ o.exit = sync[s].exit
           /\ o.stopWriting = sync[s].stopWriting /\ o.canStart = sync[s].canStart
           /\ o.wasStarted = sync[s].wasStarted /\ o.wasStopped = sync[s].wasStopped
           /\ o.cs = sync[s].cs /\ o.csWasEntered = sync[s].csWasEntered
           /\ o.numProcessedBlocks = sync[s].numProcessedBlocks
           /\ o.filledSemaphore = sync[s].filledSemaphore - 1
           /\ o.freeSemaphore = Released(sync[s].freeSemaphore, s)
    BY <1>0, DrainedObject DEF CtlType
  <1>b. /\ pc[c] = "stopDrain" /\ pc' = pc /\ produced' = produced
        /\ mine' = [mine EXCEPT ![s] = @ + 1] /\ mine[s] # sync[s].numProcessedBlocks
    BY DEF StopDrain, dataVars
  <1>d. sync'[s] = o /\ \A t \in Sync \ {s} : sync'[t] = sync[t]
    BY <1>a, <1>0 DEF CtlType
  <1>1. CtlType'
    BY <1>0, <1>a, <1>b DEF CtlType
  <1>2. Starts'
    BY <1>0, <1>b, <1>a, <1>d DEF CtlType, Starts
  <1>3. Mutexes'
    BY <1>0, <1>b, <1>a, <1>d DEF CtlType, Mutexes
  <1>4. ASSUME NEW t \in Sync PROVE Obj(t)'
    <2>0. Obj(t) BY <1>0
    <2>1. sync[t].needStart' => AtRest(t)'
      BY <1>0, <1>a, <1>b, <1>d, <2>0 DEF CtlType, Obj, AtRest, Starts
    <2>2. ~sync[t].needStart' => Events(t)'
      BY <1>0, <1>a, <1>b, <1>d, <2>0 DEF CtlType, Obj, Events, HasEnded, Count, Starts
    <2>3. ~sync[t].needStart' => Permits(t)'
      <3>1. CASE t = s
        <4>1. /\ Consumer[t] = c /\ ~sync[t].needStart /\ pc[t] = "canStart"
              /\ Count(t) = mine[t] /\ Count(t)' = mine[t] + 1
              /\ Made(t) = produced[t] /\ Made(t)' = produced[t]
          BY <1>0, <1>b, <1>d, <2>0, <3>1 DEF CtlType, Obj, Events, Starts, Count, Made
        <4>2. /\ sync[t].filledSemaphore = produced[t] - mine[t]
              /\ sync[t].freeSemaphore = NumBlocks[t] - produced[t] + mine[t]
          BY <1>0, <1>b, <2>0, <4>1 DEF Obj, Permits, One, CtlType
        <4>3. sync[t].filledSemaphore > 0
          BY <3>1 DEF StopDrain
        <4>4. /\ sync'[t].filledSemaphore = produced[t] - mine[t] - 1
              /\ sync'[t].freeSemaphore = NumBlocks[t] - produced[t] + mine[t] + 1
          BY <1>0, <1>a, <1>d, <3>1, <4>2, <4>3 DEF Released, CtlType, Object
        <4> QED BY <1>0, <1>b, <4>1, <4>4 DEF Permits, One, CtlType
      <3>2. CASE t # s
        BY <1>0, <1>a, <1>b, <1>d, <2>0, <3>2 DEF CtlType, Obj, Permits, One, Made, Count
      <3> QED BY <3>1, <3>2
    <2> QED BY <2>1, <2>2, <2>3 DEF Obj
  <1> QED BY <1>1, <1>2, <1>3, <1>4 DEF ControlInv

LEMMA NextKeepsControl ==
  ASSUME ControlInv, NEW c \in {"lz", "bt"}, pc[c] \in {"use", "fill"},
         ~sync[Uses[c]].needStart, GetNextBlock(c, Uses[c]), UNCHANGED <<mine, produced>>
  PROVE  ControlInv'
  <1>0. CtlType /\ Starts /\ Mutexes /\ Obj("bt") /\ Obj("hash")
    BY DEF ControlInv
  <1> DEFINE s == Uses[c]
  <1>a. PICK o \in Object : /\ sync' = [sync EXCEPT ![s] = o]
    /\ o.numProcessedBlocks = sync[s].numProcessedBlocks + 1 /\ ~o.needStart
    /\ o.cs = "none" /\ ~o.csWasEntered
    /\ o.exit = sync[s].exit /\ o.stopWriting = sync[s].stopWriting
    /\ o.canStart = sync[s].canStart /\ o.wasStarted = sync[s].wasStarted
    /\ o.wasStopped = sync[s].wasStopped
    /\ o.freeSemaphore = sync[s].freeSemaphore
    /\ o.filledSemaphore = sync[s].filledSemaphore
    BY <1>0, NextBlock DEF CtlType
  <1>b. pc' = [pc EXCEPT ![c] = "getFree"] BY DEF GetNextBlock, GoTo
  <1>c. c = "lz" \/ c = "bt" OBVIOUS
  <1>d. sync'[s] = o /\ \A t \in Sync \ {s} : sync'[t] = sync[t]
    BY <1>a, <1>0 DEF CtlType
  <1>1. CtlType'
    <2>1. sync' \in [Sync -> Object]
      BY <1>0, <1>a, <1>c DEF CtlType
    <2>2. pc' \in [Thread -> Place] /\ \A t \in Thread : pc'[t] \in Places[t]
      BY <1>0, <1>b DEF CtlType, Place
    <2> QED BY <2>1, <2>2, <1>0 DEF CtlType
  <1>2. Starts'
    BY <1>0, <1>a, <1>b, <1>d DEF CtlType, Starts
  <1>3. Mutexes'
    BY <1>0, <1>a, <1>b, <1>d DEF CtlType, Mutexes
  <1>4. ASSUME NEW t \in Sync PROVE Obj(t)'
    <2>0. Obj(t) BY <1>0
    <2>1. sync[t].needStart' => AtRest(t)'
      BY <1>0, <1>a, <1>b, <1>d, <2>0 DEF CtlType, Obj, AtRest, Starts
    <2>2. ~sync[t].needStart' => Events(t)'
      BY <1>0, <1>a, <1>b, <1>d, <2>0, SMTT(30)
         DEF CtlType, Obj, Events, HasEnded, Count, Starts, Object
    <2>3. ~sync[t].needStart' => Permits(t)'
      BY <1>0, <1>a, <1>b, <1>d, <2>0, SMTT(30)
         DEF CtlType, Obj, Permits, Made, Count, One, Starts, Object
    <2> QED BY <2>1, <2>2, <2>3 DEF Obj
  <1> QED BY <1>1, <1>2, <1>3, <1>4 DEF ControlInv

\* The control invariant holds at first, every step keeps it, so it always holds.
LEMMA InitControl == Init => ControlInv
  <1> SUFFICES ASSUME Init PROVE ControlInv
    OBVIOUS
  <1>1. CtlType
    BY DEF Init, CtlType, Object, Place
  <1>2. Starts /\ Mutexes
    BY DEF Init, Starts, Mutexes
  <1>3. \A s \in Sync : Obj(s)
    BY DEF Init, Obj, AtRest
  <1> QED BY <1>1, <1>2, <1>3 DEF ControlInv

LEMMA ControlIsInductive == ControlInv /\ [Next]_vars => ControlInv'
  <1> SUFFICES ASSUME ControlInv, [Next]_vars PROVE ControlInv'
    OBVIOUS
  <1>1. ASSUME NEW c \in {"lz", "bt"}, ConsumerStep(c) PROVE ControlInv'
    BY <1>1, GetWaitStartedKeeps, GetReleaseFreeKeeps, GetWaitFilledKeeps, GetEnterKeeps,
       StopLeaveKeeps, StopReleaseFreeKeeps, StopWaitStoppedKeeps, StopDrainKeeps,
       StopReturnsKeeps DEF ConsumerStep
  <1>2. ASSUME NEW p \in Sync, ProducerStep(p) PROVE ControlInv'
    BY <1>2, WaitCanStartKeeps, SetWasStartedKeeps, ExitKeeps, SetWasStoppedKeeps,
       WaitFreeKeeps, ReleaseFilledKeeps DEF ProducerStep
  <1>3. ASSUME HashStep PROVE ControlInv'
    BY <1>2, <1>3, HashStopsKeeps, HashNeedsMoveKeeps, MoveEnterBtKeeps,
       MoveEnterHashKeeps, MoveKeeps, MoveLeaveHashKeeps, HashContinuesKeeps,
       HashFillsBlockKeeps DEF HashStep
  <1>4. ASSUME BtGetsNextBlock \/ LzGetsNextBlock PROVE ControlInv'
    <2>1. \E c \in {"lz", "bt"} :
            /\ pc[c] \in {"use", "fill"} /\ GetNextBlock(c, Uses[c])
            /\ UNCHANGED <<mine, produced>>
      BY <1>4 DEF BtGetsNextBlock, LzGetsNextBlock, dataVars
    <2> QED BY <2>1, StartKeepsControl, NextKeepsControl
  <1>5. ASSUME BtStep PROVE ControlInv'
    BY <1>1, <1>2, <1>4, <1>5, BtStopsKeeps, BtStopsHashKeeps, BtContinuesKeeps,
       BtFillEnterKeeps, BtTakesKeeps, BtGetsMatchesKeeps, BtIsFullKeeps, BtFillLeaveKeeps
       DEF BtStep
  <1>6. ASSUME LzStep PROVE ControlInv'
    BY <1>1, <1>6, LzTakesKeeps, SetExit1Keeps, SetExit2Keeps, Join1Keeps, Join2Keeps
       DEF LzStep
  <1>7. ASSUME UNCHANGED vars PROVE ControlInv'
    <2>1. sync' = sync /\ pc' = pc /\ mine' = mine /\ produced' = produced
      BY <1>7 DEF vars, dataVars
    <2>2. CtlType' /\ Starts' /\ Mutexes'
      BY <2>1 DEF ControlInv, CtlType, Starts, Mutexes
    <2>3. \A s \in Sync : Obj(s)'
      BY <2>1 DEF ControlInv, Obj, AtRest, Events, HasEnded, Permits, Count, Made
    <2> QED BY <2>2, <2>3 DEF ControlInv
  <1> QED
    BY <1>3, <1>4, <1>5, <1>6, <1>7, InitFileKeeps, ReleaseStreamKeeps, DestructKeeps
       DEF Next, Terminating

LEMMA SpecControl == Spec => []ControlInv
  BY InitControl, ControlIsInductive, PTL DEF Spec

\* Between two files, whatever the encoder did with the last one and whenever it
\* gave up, both objects are as MtSync_Create made them: MtSync_StopWriting takes back
\* exactly the permits that were on their way.
THEOREM RingsAreReset == Spec => []StoppedMeansReset
  <1>1. ControlInv => StoppedMeansReset
    <2> SUFFICES ASSUME ControlInv, pc["lz"] = "idle", NEW s \in Sync
                 PROVE  /\ sync[s].freeSemaphore = NumBlocks[s] /\ sync[s].filledSemaphore = 0
                        /\ sync[s].needStart /\ sync[s].cs = "none" /\ ~sync[s].canStart
                        /\ pc[s] = "canStart"
      BY DEF StoppedMeansReset
    <2>1. \A t \in Sync : sync[t].needStart /\ AtRest(t) /\ pc[t] = "canStart"
      BY DEF ControlInv, Starts, Obj, AtRest
    <2>2. sync[s].cs = "none"
      BY <2>1 DEF ControlInv, CtlType, Object, Mutexes, AtRest
    <2> QED BY <2>1, <2>2 DEF AtRest
  <1> QED BY <1>1, SpecControl, PTL

\* "hash" moves the window only while neither "bt" nor "lz" is between two of its calls
\* with a pointer into it: the mutexes of the two objects keep them apart.
THEOREM NobodyReadsDuringAMove == Spec => []MoveIsAlone
  <1>1. ControlInv => MoveIsAlone
    <2> SUFFICES ASSUME ControlInv, pc["hash"] = "move"
                 PROVE  /\ pc["bt"] \notin {"take", "fill", "fillLeave"}
                        /\ pc["lz"] \notin {"take", "use"}
      BY DEF MoveIsAlone
    <2>1. ~sync["hash"].needStart
      BY DEF ControlInv, Obj, AtRest
    <2>2. ~sync["bt"].needStart \/ pc["lz"] \notin {"take", "use"}
      BY <2>1 DEF ControlInv, Obj, AtRest, Starts
    <2> QED BY <2>1, <2>2 DEF ControlInv, Mutexes
  <1> QED BY <1>1, SpecControl, PTL

-----------------------------------------------------------------------------
(* The blocks.                                                              *)

\* NumHeads at the position p and the position after that block; HeadsEnd is the end of
\* the positions that have a hash, Within(p) the part of them before p.
HeadsAt(p) ==
  LET num == len - p - NumHashBytes + 1
  IN  IF num <= 0 THEN 0 ELSE IF num > HashBlockSize THEN HashBlockSize ELSE num
HashNext(p) == IF HeadsAt(p) = 0 THEN len ELSE p + HeadsAt(p)
HeadsEnd == IF len < NumHashBytes THEN 0 ELSE len - NumHashBytes + 1
Within(p) == IF p < HeadsEnd THEN p ELSE HeadsEnd

\* HashStart(i, hi) is the first position of the block i of the ring, if it has hi blocks
\* since the start: the position of the producer, if the block is not there yet.
HashN == sync["hash"].numProcessedBlocks
HashSlot(i) == hashBuf[i % NumHashBlocks]
HashStart(i, hi) == IF i = hi THEN hashPos ELSE HashSlot(i).first

\* The ring is in use: its producer runs for its consumer.
HashLive == ~sync["hash"].needStart /\ pc["bt"] \notin Stopping

\* The same of the other ring; BtEdge is where the block that "bt" fills begins.
BtN == sync["bt"].numProcessedBlocks
BtSlot(j) == btBuf[j % NumBtBlocks]

\* "bt" is in BtFillBlock and has not left it.
BtIn == {"fill", "fillLeave", "take"} \cup Getting
BtEdge == IF pc["bt"] \in BtIn THEN btPos - btNum ELSE btPos
BtStart(j, hi) == IF j = hi THEN BtEdge ELSE BtSlot(j).first
BtLive == ~sync["bt"].needStart /\ pc["lz"] \notin Stopping

DataType ==
  /\ hashBuf \in [0..(NumHashBlocks - 1) -> Block \cup {Stale}]
  /\ btBuf \in [0..(NumBtBlocks - 1) -> Block \cup {Stale}]
  /\ len \in 0..MaxLen /\ hashPos \in 0..len /\ moved \in BOOLEAN
  /\ btPos \in 0..len /\ btAvail \in 0..len
  /\ btHave \in 0..HashBlockSize /\ btNum \in 0..MostLists /\ btHead \in 0..len
  /\ lzPos \in 0..len /\ lzBlock \in Block \cup {Stale}

\* "hash" has not been started for the present file, so nothing has been read.
IsFresh ==
  /\ sync["hash"].needStart /\ pc["lz"] \notin Exits
  /\ \/ pc["bt"] \in {"wasStarted", "test", "free", "fillEnter", "fill"}
     \/ sync["bt"].canStart
     \/ pc["lz"] = "use"
Fresh ==
  IsFresh => /\ hashPos = 0 /\ btPos = 0 /\ btHave = 0 /\ btNum = 0 /\ btAvail = 0 /\ lzPos = 0
             /\ BtLive => Made("bt") = 0

\* The block i is right and block k = i + 1 begins at its end; and the producer is no
\* further ahead of it than the blocks between them have room for.
HashLink(i, k, hi) ==
  \E p \in 0..len :
    /\ HashSlot(i) = [first |-> p, num |-> HeadsAt(p), avail |-> len - p]
    /\ HashStart(k, hi) = HashNext(p)
    /\ Within(hashPos) - Within(p) <= (hi - i) * HashBlockSize
HashChain(lo, hi) == \A i, k \in lo..hi : k = i + 1 => HashLink(i, k, hi)
HashRing == HashLive => HashChain(HashN - 1, Made("hash"))

\* Where "bt" is in the ring of "hash": before the block it asks for, or in a block.
BtAsks == pc["bt"] \in Getting \cup {"take"}
BtReads ==
  HashLive =>
    /\ BtAsks => /\ btHave = 0 /\ btNum < BtBlockSize
                 /\ HashStart(HashN - 1, Made("hash")) = btPos
    /\ ~BtAsks => /\ HashStart(HashN, Made("hash")) = btPos + btHave
                  /\ btAvail = len - btPos

\* The block that "bt" fills.
BtWrites ==
  /\ pc["bt"] \in BtIn => btNum <= btPos
  /\ pc["bt"] = "fill" => btNum <= BtBlockSize
  /\ pc["bt"] = "fillLeave" => /\ Within(btPos) - Within(btPos - btNum) <= BtBlockSize
                               /\ btHead > 0 => btNum > 0
  /\ pc["bt"] \in {"fillLeave", "filled"} => ~sync["hash"].needStart
  /\ pc["bt"] \in {"fill", "fillLeave"} /\ ~sync["hash"].needStart =>
       btHead = len - (btPos - btNum)

\* HashLink for the ring of "bt".
BtLink(j, k, hi) ==
  \E p, num \in 0..len :
    /\ BtSlot(j) = [first |-> p, num |-> num, avail |-> len - p]
    /\ num <= len - p /\ (p < len => num > 0)
    /\ BtStart(k, hi) = p + num
    /\ Within(BtEdge) - Within(p) <= (hi - j) * BtBlockSize
BtChain(lo, hi) == \A j, k \in lo..hi : k = j + 1 => BtLink(j, k, hi)
BtRing == BtLive => BtChain(BtN - 1, Made("bt"))

\* Where "lz" is in the ring of "bt".
LzReads ==
  /\ BtLive => /\ BtStart(BtN - 1, Made("bt")) = lzPos
               /\ pc["lz"] = "use" => lzBlock = BtSlot(BtN - 1)
  /\ sync["bt"].needStart /\ pc["lz"] = "use" => lzBlock = Stale

DataInv == DataType /\ Fresh /\ HashRing /\ BtReads /\ BtWrites /\ BtRing /\ LzReads

\* A step that touches no block: it may end the use of a ring, but not begin it.
DataSame ==
  UNCHANGED <<hashBuf, btBuf, len, hashPos, btVars, lzVars>> /\ moved' \in BOOLEAN
HashSame ==
  HashLive' => HashLive /\ HashN' = HashN /\ Made("hash")' = Made("hash")
BtSame ==
  BtLive' => BtLive /\ BtN' = BtN /\ Made("bt")' = Made("bt") /\ BtEdge' = BtEdge
LzSame ==
  pc'["lz"] = "use" => pc["lz"] = "use" /\ (sync'["bt"].needStart <=> sync["bt"].needStart)
PlaceSame ==
  /\ HashLive' => (BtAsks' <=> BtAsks)
  /\ pc'["bt"] \in BtIn => pc["bt"] \in BtIn
  /\ pc'["bt"] \in {"fill", "fillLeave", "filled"} =>
       pc["bt"] = pc'["bt"] /\ (sync'["hash"].needStart <=> sync["hash"].needStart)
QuietStep == DataSame /\ HashSame /\ BtSame /\ LzSame /\ PlaceSame /\ (IsFresh' => IsFresh)

-----------------------------------------------------------------------------
(* What stays the same while nobody touches a block.                        *)

\* Two blocks less than a ring apart are in different slots.
LEMMA ModDiffers ==
  ASSUME NEW n \in Nat \ {0}, NEW a \in Int, NEW b \in Int, a < b, b - a < n
  PROVE  a % n # b % n
  <1>1. a = n * (a \div n) + (a % n) /\ a % n \in 0..(n - 1)
    OBVIOUS
  <1>2. b = n * (b \div n) + (b % n) /\ b % n \in 0..(n - 1)
    OBVIOUS
  <1>3. (a \div n) \in Int /\ (b \div n) \in Int
    OBVIOUS
  <1> DEFINE p == a \div n
             q == b \div n
  <1>4. SUFFICES ASSUME a % n = b % n PROVE FALSE
    OBVIOUS
  <1>5. b - a = n * q - n * p
    BY <1>1, <1>2, <1>4
  <1>6. n * q - n * p = n * (q - p)
    BY <1>3
  <1> HIDE DEF p, q
  <1>7. p \in Int /\ q \in Int
    BY <1>3 DEF p, q
  <1>8. CASE q - p <= 0
    <2>1. n * (q - p) <= 0
      BY <1>7, <1>8
    <2> QED BY <2>1, <1>5, <1>6
  <1>9. CASE q - p >= 1
    <2>1. n * (q - p) >= n
      BY <1>7, <1>9
    <2> QED BY <2>1, <1>5, <1>6
  <1> QED BY <1>7, <1>8, <1>9

\* What is in a ring stays as it is when no block, position or count changes.
LEMMA HashRingKept ==
  ASSUME HashRing, HashSame, hashBuf' = hashBuf, len' = len, hashPos' = hashPos
  PROVE  HashRing'
  <1> SUFFICES ASSUME HashLive' PROVE HashChain(HashN - 1, Made("hash"))'
    BY DEF HashRing
  <1>1. PICK lo, hi : lo = HashN - 1 /\ hi = Made("hash")
    OBVIOUS
  <1>2. HashChain(lo, hi)
    BY <1>1 DEF HashRing, HashSame
  <1>3. HashChain(lo, hi)'
    BY <1>2 DEF HashChain, HashLink, HashSlot, HashStart, HashNext, HeadsAt, Within,
                HeadsEnd
  <1>4. lo = (HashN - 1)' /\ hi = Made("hash")'
    BY <1>1 DEF HashSame
  <1> QED BY <1>3, <1>4

LEMMA BtRingKept ==
  ASSUME BtRing, LzReads, BtSame, LzSame, btBuf' = btBuf, len' = len, UNCHANGED lzVars
  PROVE  BtRing' /\ LzReads'
  <1>1. ASSUME BtLive' PROVE BtChain(BtN - 1, Made("bt"))'
    <2>1. PICK lo, hi : lo = BtN - 1 /\ hi = Made("bt")
      OBVIOUS
    <2>2. BtChain(lo, hi) /\ BtEdge' = BtEdge
      BY <1>1, <2>1 DEF BtRing, BtSame
    <2>3. BtChain(lo, hi)'
      BY <2>2 DEF BtChain, BtLink, BtSlot, BtStart, Within, HeadsEnd
    <2>4. lo = (BtN - 1)' /\ hi = Made("bt")'
      BY <1>1, <2>1 DEF BtSame
    <2> QED BY <2>3, <2>4
  <1>2. LzReads'
    BY DEF LzReads, lzVars, BtStart, BtSlot, BtSame, LzSame
  <1> QED BY <1>1, <1>2 DEF BtRing

LEMMA QuietKeeps ==
  ASSUME DataInv, QuietStep
  PROVE  DataInv'
  <1>0. /\ hashBuf' = hashBuf /\ btBuf' = btBuf /\ len' = len /\ hashPos' = hashPos
        /\ moved' \in BOOLEAN /\ btPos' = btPos /\ btAvail' = btAvail /\ btHave' = btHave
        /\ btNum' = btNum /\ btHead' = btHead /\ lzPos' = lzPos /\ lzBlock' = lzBlock
    BY DEF QuietStep, DataSame, btVars, lzVars
  <1>1. DataType'
    BY <1>0 DEF DataInv, DataType
  <1>2. Fresh'
    BY <1>0 DEF DataInv, Fresh, QuietStep, BtSame
  <1>3. HashRing'
    BY <1>0, HashRingKept DEF DataInv, QuietStep
  <1>4. BtReads'
    BY <1>0 DEF DataInv, BtReads, QuietStep, HashSame, PlaceSame, HashStart, HashSlot
  <1>5. BtWrites'
    BY <1>0 DEF DataInv, BtWrites, QuietStep, PlaceSame, Within, HeadsEnd
  <1>6. BtRing' /\ LzReads'
    BY <1>0, BtRingKept DEF DataInv, QuietStep, lzVars
  <1> QED BY <1>1, <1>2, <1>3, <1>4, <1>5, <1>6 DEF DataInv

\* The number of blocks between the consumer and the producer, by the permits.
LEMMA HashWindow ==
  ASSUME ControlInv, HashLive
  PROVE  /\ HashN \in Nat /\ HashN >= 1 /\ Made("hash") \in Nat
         /\ HashN - 1 <= Made("hash")
         /\ pc["bt"] \notin {"getStarted", "getFree", "getFilled"} => HashN <= Made("hash")
         /\ Made("hash") + One(pc["hash"] = "block") <= NumHashBlocks + HashN - 1
  <1>1. CtlType /\ Obj("hash") /\ ~sync["hash"].needStart
    BY DEF ControlInv, HashLive
  <1>2. HashN \in Nat /\ HashN >= 1 /\ Made("hash") \in Nat
    BY <1>1 DEF CtlType, Object, Obj, Events, Count, HashN, HashLive, Made
  <1>3. sync["hash"].freeSemaphore \in Nat /\ sync["hash"].filledSemaphore \in Nat
    BY <1>1 DEF CtlType, Object
  <1> QED BY <1>1, <1>2, <1>3 DEF Obj, Permits, One, HashN, HashLive, Count

LEMMA BtWindow ==
  ASSUME ControlInv, BtLive
  PROVE  /\ BtN \in Nat /\ BtN >= 1 /\ Made("bt") \in Nat
         /\ BtN - 1 <= Made("bt")
         /\ pc["lz"] \notin {"getStarted", "getFree", "getFilled"} => BtN <= Made("bt")
         /\ Made("bt") + One(pc["bt"] \in Filling["bt"]) <= NumBtBlocks + BtN - 1
  <1>1. CtlType /\ Obj("bt") /\ ~sync["bt"].needStart
    BY DEF ControlInv, BtLive
  <1>2. BtN \in Nat /\ BtN >= 1 /\ Made("bt") \in Nat
    BY <1>1 DEF CtlType, Object, Obj, Events, Count, BtN, BtLive, Made
  <1>3. sync["bt"].freeSemaphore \in Nat /\ sync["bt"].filledSemaphore \in Nat
    BY <1>1 DEF CtlType, Object
  <1> QED BY <1>1, <1>2, <1>3 DEF Obj, Permits, One, BtN, BtLive, Count

\* Actions that touch no block.
LEMMA ConsumerIsQuiet ==
  ASSUME ControlInv, ControlInv', DataInv,
         NEW c \in {"lz", "bt"}, ConsumerStep(c)
  PROVE  QuietStep
  <1>1. /\ CtlType /\ Starts /\ Obj("bt") /\ Obj("hash")
        /\ pc["bt"] \in {"fillLeave", "filled"} => ~sync["hash"].needStart
    BY DEF ControlInv, DataInv, BtWrites
  <1>2. DataSame
    BY DEF DataSame, DataInv, DataType, dataVars, hashVars, btVars, lzVars, GoTo,
           ConsumerStep, GetWaitStarted, GetReleaseFree, GetWaitFilled, GetEnter,
           StopLeave, StopReleaseFree, StopWaitStopped, StopDrain, StopReturns
  <1>3. HashSame
    BY <1>1 DEF HashSame, HashLive, HashN, Made, dataVars, CtlType, Object, Starts, Obj,
                Events, HasEnded, AtRest, GoTo, ConsumerStep, GetWaitStarted,
                GetReleaseFree, GetWaitFilled, GetEnter, StopLeave, StopReleaseFree,
                StopWaitStopped, StopDrain, StopReturns
  <1>4. BtSame
    BY <1>1 DEF BtSame, BtLive, BtN, BtEdge, BtIn, Made, dataVars, btVars, CtlType, Object,
                Starts, Obj, Events, HasEnded, AtRest, GoTo, ConsumerStep, GetWaitStarted,
                GetReleaseFree, GetWaitFilled, GetEnter, StopLeave, StopReleaseFree,
                StopWaitStopped, StopDrain, StopReturns
  <1>5. LzSame
    BY <1>1 DEF LzSame, CtlType, Object, GoTo, ConsumerStep, GetWaitStarted,
                GetReleaseFree, GetWaitFilled, GetEnter, StopLeave, StopReleaseFree,
                StopWaitStopped, StopDrain, StopReturns
  <1>6. PlaceSame
    BY <1>1 DEF PlaceSame, BtIn, BtAsks, HashLive, CtlType, Object, Starts, GoTo,
                ConsumerStep, GetWaitStarted, GetReleaseFree, GetWaitFilled, GetEnter,
                StopLeave, StopReleaseFree, StopWaitStopped, StopDrain, StopReturns
  <1>7. IsFresh' => IsFresh
    BY <1>1, SMTT(30) DEF IsFresh, CtlType, Object, Starts, Obj, Events, HasEnded, AtRest, GoTo,
                ConsumerStep, GetWaitStarted, GetReleaseFree, GetWaitFilled, GetEnter,
                StopLeave, StopReleaseFree, StopWaitStopped, StopDrain, StopReturns
  <1> QED BY <1>2, <1>3, <1>4, <1>5, <1>6, <1>7 DEF QuietStep

LEMMA ProducerIsQuiet ==
  ASSUME ControlInv, ControlInv', DataInv,
         NEW p \in Sync, ProducerStep(p)
  PROVE  QuietStep
  <1>1. /\ CtlType /\ Starts /\ Obj("bt") /\ Obj("hash")
        /\ pc["bt"] \in {"fillLeave", "filled"} => ~sync["hash"].needStart
    BY DEF ControlInv, DataInv, BtWrites
  <1>2. DataSame
    BY DEF DataSame, DataInv, DataType, dataVars, hashVars, btVars, lzVars, GoTo,
           ProducerStep, WaitCanStart, SetWasStarted, Exit, SetWasStopped, WaitFree,
           ReleaseFilled
  <1>3. HashSame
    BY <1>1 DEF HashSame, HashLive, HashN, Made, dataVars, CtlType, Object, Starts, Obj,
                Events, HasEnded, AtRest, GoTo, ProducerStep, WaitCanStart, SetWasStarted,
                Exit, SetWasStopped, WaitFree, ReleaseFilled
  <1>4. BtSame
    BY <1>1 DEF BtSame, BtLive, BtN, BtEdge, BtIn, Made, dataVars, btVars, CtlType, Object,
                Starts, Obj, Events, HasEnded, AtRest, GoTo, ProducerStep, WaitCanStart,
                SetWasStarted, Exit, SetWasStopped, WaitFree, ReleaseFilled
  <1>5. LzSame
    BY <1>1 DEF LzSame, CtlType, Object, GoTo, ProducerStep, WaitCanStart, SetWasStarted,
                Exit, SetWasStopped, WaitFree, ReleaseFilled
  <1>6. PlaceSame
    BY <1>1 DEF PlaceSame, BtIn, BtAsks, HashLive, CtlType, Object, Starts, GoTo,
                ProducerStep, WaitCanStart, SetWasStarted, Exit, SetWasStopped, WaitFree,
                ReleaseFilled
  <1>7. IsFresh' => IsFresh
    BY <1>1 DEF IsFresh, CtlType, Object, Starts, Obj, Events, HasEnded, AtRest, GoTo,
                ProducerStep, WaitCanStart, SetWasStarted, Exit, SetWasStopped, WaitFree,
                ReleaseFilled
  <1> QED BY <1>2, <1>3, <1>4, <1>5, <1>6, <1>7 DEF QuietStep

LEMMA HashItselfIsQuiet ==
  ASSUME ControlInv, ControlInv', DataInv,
         HashStops \/ HashNeedsMove \/ MoveEnterBt \/ MoveEnterHash \/ Move
            \/ MoveLeaveHash \/ HashContinues
  PROVE  QuietStep
  <1>1. /\ CtlType /\ Starts /\ Obj("bt") /\ Obj("hash")
        /\ pc["bt"] \in {"fillLeave", "filled"} => ~sync["hash"].needStart
    BY DEF ControlInv, DataInv, BtWrites
  <1>2. DataSame
    BY DEF DataSame, DataInv, DataType, dataVars, hashVars, btVars, lzVars, GoTo,
           HashStops, HashNeedsMove, MoveEnterBt, MoveEnterHash, Move, MoveLeaveHash,
           HashContinues, Goes, Stops, Continues
  <1>3. HashSame
    BY <1>1 DEF HashSame, HashLive, HashN, Made, dataVars, CtlType, Object, Starts, Obj,
                Events, HasEnded, AtRest, GoTo, HashStops, HashNeedsMove, MoveEnterBt,
                MoveEnterHash, Move, MoveLeaveHash, HashContinues, Goes, Stops, Continues
  <1>4. BtSame
    BY <1>1 DEF BtSame, BtLive, BtN, BtEdge, BtIn, Made, dataVars, btVars, CtlType, Object,
                Starts, Obj, Events, HasEnded, AtRest, GoTo, HashStops, HashNeedsMove,
                MoveEnterBt, MoveEnterHash, Move, MoveLeaveHash, HashContinues, Goes,
                Stops, Continues
  <1>5. LzSame
    BY <1>1 DEF LzSame, CtlType, Object, GoTo, HashStops, HashNeedsMove, MoveEnterBt,
                MoveEnterHash, Move, MoveLeaveHash, HashContinues, Goes, Stops, Continues
  <1>6. PlaceSame
    BY <1>1 DEF PlaceSame, BtIn, BtAsks, HashLive, CtlType, Object, Starts, GoTo,
                HashStops, HashNeedsMove, MoveEnterBt, MoveEnterHash, Move, MoveLeaveHash,
                HashContinues, Goes, Stops, Continues
  <1>7. IsFresh' => IsFresh
    BY <1>1 DEF IsFresh, CtlType, Object, Starts, Obj, Events, HasEnded, AtRest, GoTo,
                HashStops, HashNeedsMove, MoveEnterBt, MoveEnterHash, Move, MoveLeaveHash,
                HashContinues, Goes, Stops, Continues
  <1> QED BY <1>2, <1>3, <1>4, <1>5, <1>6, <1>7 DEF QuietStep

LEMMA BtItselfIsQuiet ==
  ASSUME ControlInv, ControlInv', DataInv,
         BtStops \/ BtStopsHash \/ BtContinues
  PROVE  QuietStep
  <1>1. /\ CtlType /\ Starts /\ Obj("bt") /\ Obj("hash")
        /\ pc["bt"] \in {"fillLeave", "filled"} => ~sync["hash"].needStart
    BY DEF ControlInv, DataInv, BtWrites
  <1>2. DataSame
    BY DEF DataSame, DataInv, DataType, dataVars, hashVars, btVars, lzVars, GoTo, BtStops,
           BtStopsHash, StopWriting, BtContinues, Goes, Stops, Continues
  <1>3. HashSame
    BY <1>1 DEF HashSame, HashLive, HashN, Made, dataVars, CtlType, Object, Starts, Obj,
                Events, HasEnded, AtRest, GoTo, BtStops, BtStopsHash, StopWriting,
                BtContinues, Goes, Stops, Continues
  <1>4. BtSame
    BY <1>1 DEF BtSame, BtLive, BtN, BtEdge, BtIn, Made, dataVars, btVars, CtlType, Object,
                Starts, Obj, Events, HasEnded, AtRest, GoTo, BtStops, BtStopsHash,
                StopWriting, BtContinues, Goes, Stops, Continues
  <1>5. LzSame
    BY <1>1 DEF LzSame, CtlType, Object, GoTo, BtStops, BtStopsHash, StopWriting,
                BtContinues, Goes, Stops, Continues
  <1>6. PlaceSame
    BY <1>1 DEF PlaceSame, BtIn, BtAsks, HashLive, CtlType, Object, Starts, GoTo, BtStops,
                BtStopsHash, StopWriting, BtContinues, Goes, Stops, Continues
  <1>7. IsFresh' => IsFresh
    BY <1>1 DEF IsFresh, CtlType, Object, Starts, Obj, Events, HasEnded, AtRest, GoTo,
                BtStops, BtStopsHash, StopWriting, BtContinues, Goes, Stops, Continues
  <1> QED BY <1>2, <1>3, <1>4, <1>5, <1>6, <1>7 DEF QuietStep

LEMMA LzItselfIsQuiet ==
  ASSUME ControlInv, ControlInv', DataInv,
         \/ ReleaseStream \/ Destruct
         \/ SetExit("hash", "exitHash", "joinHash") \/ Join("hash", "joinHash", "exitBt")
         \/ SetExit("bt", "exitBt", "joinBt") \/ Join("bt", "joinBt", "destructed")
  PROVE  QuietStep
  <1>1. /\ CtlType /\ Starts /\ Obj("bt") /\ Obj("hash")
        /\ pc["bt"] \in {"fillLeave", "filled"} => ~sync["hash"].needStart
    BY DEF ControlInv, DataInv, BtWrites
  <1>2. DataSame
    BY DEF DataSame, DataInv, DataType, dataVars, hashVars, btVars, lzVars, GoTo,
           ReleaseStream, StopWriting, Destruct, SetExit, Join
  <1>3. HashSame
    BY <1>1 DEF HashSame, HashLive, HashN, Made, dataVars, CtlType, Object, Starts, Obj,
                Events, HasEnded, AtRest, GoTo, ReleaseStream, StopWriting, Destruct,
                SetExit, Join
  <1>4. BtSame
    BY <1>1 DEF BtSame, BtLive, BtN, BtEdge, BtIn, Made, dataVars, btVars, CtlType, Object,
                Starts, Obj, Events, HasEnded, AtRest, GoTo, ReleaseStream, StopWriting,
                Destruct, SetExit, Join
  <1>5. LzSame
    BY <1>1 DEF LzSame, CtlType, Object, GoTo, ReleaseStream, StopWriting, Destruct,
                SetExit, Join
  <1>6. PlaceSame
    BY <1>1 DEF PlaceSame, BtIn, BtAsks, HashLive, CtlType, Object, Starts, GoTo,
                ReleaseStream, StopWriting, Destruct, SetExit, Join
  <1>7. IsFresh' => IsFresh
    BY <1>1 DEF IsFresh, CtlType, Object, Starts, Obj, Events, HasEnded, AtRest, GoTo,
                ReleaseStream, StopWriting, Destruct, SetExit, Join
  <1> QED BY <1>2, <1>3, <1>4, <1>5, <1>6, <1>7 DEF QuietStep

-----------------------------------------------------------------------------
(* The actions that fill, take and give back blocks.                        *)

\* The block that HashThreadFunc makes, and the part of a file that has hashes.
LEMMA NumHeadsIs == NumHeads = HeadsAt(hashPos)
  BY DEF NumHeads, HeadsAt

LEMMA Heads ==
  ASSUME DataType, NEW p \in 0..len
  PROVE  /\ HeadsAt(p) \in 0..HashBlockSize /\ HashNext(p) \in p..len
         /\ HeadsAt(p) + p <= len
         /\ Within(HashNext(p)) - Within(p) <= HashBlockSize
         /\ len - p >= NumHashBytes => HeadsAt(p) > 0
         /\ len - p < NumHashBytes => HeadsAt(p) = 0 /\ Within(p) = HeadsEnd
  BY DEF DataType, HeadsAt, HashNext, Within, HeadsEnd

LEMMA WithinGrows ==
  ASSUME DataType, NEW p \in Int, NEW q \in Int, p <= q
  PROVE  Within(p) \in Int /\ Within(q) \in Int /\ Within(p) <= Within(q) /\ Within(q) - Within(p) <= q - p
  BY DEF DataType, Within, HeadsEnd

LEMMA Longer ==
  ASSUME NEW k \in Int, NEW h \in Nat
  PROVE  (k + 1) * h = k * h + h
  OBVIOUS

LEMMA HashFillsBlockKeepsData ==
  ASSUME ControlInv, ControlInv', DataInv, HashFillsBlock
  PROVE  DataInv'
  <1>1. /\ pc["hash"] = "block" /\ sync' = sync /\ btBuf' = btBuf /\ len' = len /\ lzPos' = lzPos
        /\ lzBlock' = lzBlock /\ btPos' = btPos /\ btAvail' = btAvail /\ btHave' = btHave
        /\ btNum' = btNum /\ btHead' = btHead /\ moved' = FALSE
        /\ pc' = [pc EXCEPT !["hash"] = "filled"]
        /\ produced' = [produced EXCEPT !["hash"] = @ + 1]
    BY DEF HashFillsBlock, GoTo, btVars, lzVars
  <1>2. DataType /\ CtlType /\ pc \in [Thread -> Place] /\ produced \in [Sync -> Nat]
    BY DEF DataInv, ControlInv, CtlType
  <1>3. ~sync["hash"].needStart
    BY <1>1 DEF ControlInv, Obj, AtRest
  <1> DEFINE new == [first |-> hashPos, num |-> HeadsAt(hashPos), avail |-> len - hashPos]
  <1>4. /\ hashBuf' = [hashBuf EXCEPT ![produced["hash"] % NumHashBlocks] = new]
        /\ hashPos' = HashNext(hashPos)
    BY NumHeadsIs DEF HashFillsBlock, HashNext
  <1>5. /\ hashPos \in 0..len /\ len \in 0..MaxLen /\ new \in Block /\ hashPos' \in hashPos..len
        /\ Within(hashPos') - Within(hashPos) <= HashBlockSize
    <2>1. hashPos \in 0..len /\ len \in 0..MaxLen
      BY <1>2 DEF DataType
    <2>2. /\ HeadsAt(hashPos) \in 0..HashBlockSize /\ HashNext(hashPos) \in hashPos..len
          /\ HeadsAt(hashPos) + hashPos <= len
          /\ Within(HashNext(hashPos)) - Within(hashPos) <= HashBlockSize
      BY <1>2, <2>1, Heads
    <2>3. new \in Block
      BY <2>1, <2>2 DEF Block
    <2> QED BY <1>4, <2>1, <2>2, <2>3
  <1> HIDE DEF new
  <1>6. DataType'
    <2>1. hashBuf' \in [0..(NumHashBlocks - 1) -> Block \cup {Stale}]
      BY <1>2, <1>4, <1>5 DEF DataType
    <2>2. hashPos' \in 0..len'
      BY <1>1, <1>5
    <2>3. Block' = Block /\ Stale' = Stale
      BY DEF Block, Stale
    <2> QED BY <1>1, <1>2, <2>1, <2>2, <2>3 DEF DataType
  <1>7. Fresh'
    BY <1>1, <1>3 DEF Fresh, IsFresh
  <1>8. HashLive' = HashLive /\ HashN' = HashN /\ (BtAsks' <=> BtAsks)
    BY <1>1, <1>2 DEF HashLive, HashN, BtAsks
  <1>9. Made("hash") = produced["hash"] /\ Made("hash")' = produced["hash"] + 1
    BY <1>1, <1>2 DEF Made
  <1>10. ASSUME HashLive PROVE HashRing' /\ BtReads'
    <2>1. PICK lo, hi : lo = HashN - 1 /\ hi = Made("hash")
      OBVIOUS
    <2>2. /\ lo \in Nat /\ hi \in Nat /\ lo <= hi /\ hi + 1 <= NumHashBlocks + lo
          /\ ~BtAsks => lo < hi
      BY <1>1, <1>10, <2>1, HashWindow DEF One, BtAsks
    <2>3. HashChain(lo, hi)
      BY <1>10, <2>1 DEF DataInv, HashRing
    <2>4. HashSlot(hi)' = new
      BY <1>2, <1>4, <1>9, <2>1, <2>2 DEF HashSlot, DataType
    <2>5. ASSUME NEW i \in lo..(hi - 1) PROVE HashSlot(i)' = HashSlot(i)
      <3>1. i % NumHashBlocks # hi % NumHashBlocks
        <4>1. i \in Int /\ hi \in Int /\ i < hi /\ hi - i < NumHashBlocks
          BY <2>2
        <4> QED BY <4>1, ModDiffers
      <3> QED BY <1>2, <1>4, <1>9, <2>1, <3>1 DEF HashSlot, DataType
    <2>6. ASSUME NEW i \in lo..hi PROVE HashStart(i, hi + 1)' = HashStart(i, hi)
      BY <2>2, <2>4, <2>5 DEF HashStart, new
    <2>7. ASSUME NEW i \in lo..hi, NEW k, NEW top, k = i + 1, top = hi + 1
          PROVE  HashLink(i, k, top)'
      <3>1. PICK p : /\ p \in 0..len /\ HashSlot(i)' = [first |-> p, num |-> HeadsAt(p), avail |-> len - p]
                     /\ HashStart(k, top)' = HashNext(p)
                     /\ Within(hashPos') - Within(p) <= (top - i) * HashBlockSize
        <4>1. CASE i = hi
          <5>1. HashSlot(i)' = [first |-> hashPos, num |-> HeadsAt(hashPos), avail |-> len - hashPos]
            BY <2>4, <4>1 DEF new
          <5>2. HashStart(k, top)' = HashNext(hashPos)
            BY <1>4, <2>7, <4>1 DEF HashStart
          <5>3. (top - i) * HashBlockSize = HashBlockSize
            BY <2>2, <2>7, <4>1
          <5> QED BY <1>5, <5>1, <5>2, <5>3
        <4>2. CASE i # hi
          <5>1. i \in lo..(hi - 1) /\ k \in lo..hi /\ i \in lo..hi
            BY <2>2, <2>7, <4>2
          <5>2. HashLink(i, k, hi)
            BY <2>3, <2>7, <5>1 DEF HashChain
          <5>3. PICK p \in 0..len :
                  /\ HashSlot(i) = [first |-> p, num |-> HeadsAt(p), avail |-> len - p]
                  /\ HashStart(k, hi) = HashNext(p)
                  /\ Within(hashPos) - Within(p) <= (hi - i) * HashBlockSize
            BY <5>2 DEF HashLink
          <5>4. HashSlot(i)' = HashSlot(i) /\ HashStart(k, top)' = HashStart(k, hi)
            BY <2>5, <2>6, <2>7, <5>1
          <5>5. Within(hashPos') - Within(p) <= (top - i) * HashBlockSize
            <6>1. Within(hashPos) \in Int /\ Within(p) \in Int /\ Within(hashPos') \in Int
              BY <1>2, <1>5 DEF Within, HeadsEnd, DataType
            <6>2. (hi - i + 1) * HashBlockSize = (hi - i) * HashBlockSize + HashBlockSize
              BY <2>2, Longer
            <6>3. top - i = hi - i + 1 /\ (hi - i) * HashBlockSize \in Int
              BY <2>2, <2>7
            <6>4. PICK room \in Int : room = (hi - i) * HashBlockSize
              BY <6>3
            <6> QED BY <1>5, <5>3, <6>1, <6>2, <6>3, <6>4
          <5> QED BY <5>3, <5>4, <5>5
        <4> QED BY <4>1, <4>2
      <3>2. /\ p \in 0..len' /\ HeadsAt(p)' = HeadsAt(p) /\ HashNext(p)' = HashNext(p) /\ Within(p)' = Within(p)
            /\ len' = len
        BY <1>1, <3>1 DEF HeadsAt, HashNext, Within, HeadsEnd
      <3>3. Within(hashPos)' = Within(hashPos')
        BY <1>1 DEF Within, HeadsEnd
      <3> QED BY <3>1, <3>2, <3>3 DEF HashLink
    <2>8. HashRing'
      <3>1. HashChain(lo, hi + 1)'
        <4>1. PICK top : top = hi + 1
          OBVIOUS
        <4>2. HashChain(lo, top)'
          <5> SUFFICES ASSUME NEW i \in lo..top, NEW k \in lo..top, k = i + 1
                       PROVE  HashLink(i, k, top)'
            BY DEF HashChain
          <5>1. i \in lo..hi
            BY <2>2, <4>1
          <5> QED BY <2>7, <4>1, <5>1
        <4> QED BY <4>1, <4>2
      <3> QED BY <1>8, <1>9, <2>1, <3>1 DEF HashRing
    <2>9. BtReads'
      <3>1. BtAsks => HashStart(lo, hi + 1)' = HashStart(lo, hi)
        BY <2>2, <2>6
      <3>2. ~BtAsks => HashStart(lo + 1, hi + 1)' = HashStart(lo + 1, hi)
        BY <2>2, <2>6
      <3>3. lo + 1 = HashN
        BY <1>10, <2>1, HashWindow
      <3> QED BY <1>1, <1>8, <1>9, <1>10, <2>1, <3>1, <3>2, <3>3 DEF DataInv, BtReads
    <2> QED BY <2>8, <2>9
  <1>11. HashRing' /\ BtReads'
    BY <1>8, <1>10 DEF HashRing, BtReads
  <1>12. BtWrites'
    BY <1>1, <1>2 DEF DataInv, BtWrites, BtIn, Within, HeadsEnd
  <1>13. BtRing' /\ LzReads'
    <2>1. BtSame
      BY <1>1, <1>2 DEF BtSame, BtLive, BtN, Made, BtEdge, BtIn
    <2>2. LzSame
      BY <1>1, <1>2 DEF LzSame
    <2> QED BY <1>1, <2>1, <2>2, BtRingKept DEF DataInv, lzVars
  <1> QED BY <1>6, <1>7, <1>11, <1>12, <1>13 DEF DataInv

\* The first positions of the blocks that are in the rings, and the blocks that "bt"
\* and "lz" take.
LEMMA HashStarts ==
  ASSUME ControlInv, DataInv, HashLive, NEW i \in (HashN - 1)..Made("hash")
  PROVE  /\ HashStart(i, Made("hash")) \in 0..len
         /\ Within(hashPos) - Within(HashStart(i, Made("hash"))) <= (Made("hash") - i) * HashBlockSize
  <1>1. DataType /\ HashChain(HashN - 1, Made("hash"))
    BY DEF DataInv, HashRing
  <1>2. PICK lo, hi : lo = HashN - 1 /\ hi = Made("hash")
    OBVIOUS
  <1>3. lo \in Nat /\ hi \in Nat /\ i \in lo..hi
    BY <1>2, HashWindow
  <1>4. CASE i = hi
    <2>1. HashStart(i, hi) = hashPos /\ (hi - i) * HashBlockSize = 0
      BY <1>3, <1>4 DEF HashStart
    <2>2. Within(hashPos) \in Int /\ hashPos \in 0..len
      BY <1>1 DEF DataType, Within, HeadsEnd
    <2> QED BY <1>2, <2>1, <2>2
  <1>5. CASE i # hi
    <2>1. PICK k : k = i + 1
      OBVIOUS
    <2>2. HashLink(i, k, hi)
      BY <1>1, <1>2, <1>3, <1>5, <2>1 DEF HashChain
    <2>3. HashStart(i, hi) = HashSlot(i).first
      BY <1>5 DEF HashStart
    <2> QED BY <1>2, <2>2, <2>3 DEF HashLink
  <1> QED BY <1>4, <1>5

LEMMA BtStarts ==
  ASSUME ControlInv, DataInv, BtLive, NEW j \in (BtN - 1)..Made("bt")
  PROVE  /\ BtEdge \in 0..len /\ BtStart(j, Made("bt")) \in 0..len
         /\ Within(BtEdge) - Within(BtStart(j, Made("bt"))) <= (Made("bt") - j) * BtBlockSize
  <1>1. DataType /\ BtWrites /\ BtChain(BtN - 1, Made("bt"))
    BY DEF DataInv, BtRing
  <1>2. PICK lo, hi : lo = BtN - 1 /\ hi = Made("bt")
    OBVIOUS
  <1>3. lo \in Nat /\ hi \in Nat /\ j \in lo..hi
    BY <1>2, BtWindow
  <1>4. BtEdge \in 0..len
    BY <1>1 DEF DataType, BtWrites, BtEdge
  <1>5. CASE j = hi
    <2>1. BtStart(j, hi) = BtEdge /\ (hi - j) * BtBlockSize = 0
      BY <1>3, <1>5 DEF BtStart
    <2>2. Within(BtEdge) \in Int
      BY <1>1, <1>4 DEF DataType, Within, HeadsEnd
    <2> QED BY <1>2, <1>4, <2>1, <2>2
  <1>6. CASE j # hi
    <2>1. PICK k : k = j + 1
      OBVIOUS
    <2>2. BtLink(j, k, hi)
      BY <1>1, <1>2, <1>3, <1>6, <2>1 DEF BtChain
    <2>3. BtStart(j, hi) = BtSlot(j).first
      BY <1>6 DEF BtStart
    <2> QED BY <1>2, <1>4, <2>2, <2>3 DEF BtLink
  <1> QED BY <1>5, <1>6

LEMMA HashBlockIs ==
  ASSUME ControlInv, DataInv, pc["bt"] = "take"
  PROVE  /\ HashLive /\ HashBlock = [first |-> btPos, num |-> HeadsAt(btPos), avail |-> len - btPos]
         /\ HashStart(HashN, Made("hash")) = HashNext(btPos)
  <1>1. HashLive /\ BtAsks
    BY DEF ControlInv, Starts, HashLive, BtAsks
  <1>2. PICK i, k, hi : i = HashN - 1 /\ k = HashN /\ hi = Made("hash")
    OBVIOUS
  <1>3. i \in Nat /\ hi \in Nat /\ k = i + 1 /\ k <= hi
    BY <1>1, <1>2, HashWindow
  <1>4. HashLink(i, k, hi)
    BY <1>1, <1>2, <1>3 DEF DataInv, HashRing, HashChain
  <1>5. HashStart(i, hi) = btPos /\ HashStart(i, hi) = HashSlot(i).first
    BY <1>1, <1>2, <1>3 DEF DataInv, BtReads, HashStart
  <1>6. HashBlock = HashSlot(i)
    BY <1>2 DEF HashBlock, HashSlot, HashN
  <1> QED BY <1>1, <1>2, <1>4, <1>5, <1>6 DEF HashLink

LEMMA BtBlockIs ==
  ASSUME ControlInv, DataInv, BtLive, pc["lz"] \in {"take", "use"}
  PROVE  /\ BtBlock = BtSlot(BtN - 1)
         /\ \E num \in 0..len :
              /\ BtBlock = [first |-> lzPos, num |-> num, avail |-> len - lzPos]
              /\ num <= len - lzPos /\ (lzPos < len => num > 0)
              /\ BtStart(BtN, Made("bt")) = lzPos + num
         /\ ~sync["hash"].needStart
  <1>2. PICK j, k, hi : j = BtN - 1 /\ k = BtN /\ hi = Made("bt")
    OBVIOUS
  <1>3. j \in Nat /\ hi \in Nat /\ k = j + 1 /\ k <= hi
    BY <1>2, BtWindow
  <1>4. BtLink(j, k, hi)
    BY <1>2, <1>3 DEF DataInv, BtRing, BtChain
  <1>5. BtStart(j, hi) = lzPos /\ BtStart(j, hi) = BtSlot(j).first
    BY <1>2, <1>3 DEF DataInv, LzReads, BtStart
  <1>6. BtBlock = BtSlot(j)
    BY <1>2 DEF BtBlock, BtSlot, BtN
  <1>7. ~sync["hash"].needStart
    <2>1. Events("bt") /\ pc["bt"] \in Places["bt"] /\ Starts
      BY DEF BtLive, ControlInv, CtlType, Obj
    <2>2. sync["hash"].needStart => IsFresh
      BY <2>1 DEF Events, HasEnded, Starts, IsFresh, DataInv, BtWrites
    <2> QED BY <1>2, <1>3, <2>2 DEF DataInv, Fresh
  <1> QED BY <1>2, <1>4, <1>5, <1>6, <1>7 DEF BtLink

\* MtSync_GetNextBlock again, as the actions below see it.
LEMMA NewBlock ==
  ASSUME CtlType, NEW s \in Sync, NEW c \in Thread, GetNextBlock(c, s)
  PROVE  /\ \A t \in Sync : t # s => sync'[t] = sync[t]
         /\ ~sync'[s].needStart
         /\ \E place \in {"getStarted", "getFree"} : pc' = [pc EXCEPT ![c] = place]
         /\ sync[s].needStart =>
              /\ sync'[s].numProcessedBlocks = 1 /\ sync'[s].canStart
              /\ pc' = [pc EXCEPT ![c] = "getStarted"]
         /\ ~sync[s].needStart =>
              /\ sync'[s].numProcessedBlocks = sync[s].numProcessedBlocks + 1
              /\ pc' = [pc EXCEPT ![c] = "getFree"]
  <1>1. sync \in [Sync -> Object]
    BY DEF CtlType
  <1>2. CASE sync[s].needStart
    <2>1. PICK o \in Object : /\ sync' = [sync EXCEPT ![s] = o]
                              /\ o.numProcessedBlocks = 1 /\ ~o.needStart /\ o.canStart
      BY <1>1, <1>2, FirstBlock
    <2> QED BY <1>1, <1>2, <2>1 DEF GetNextBlock, GoTo
  <1>3. CASE ~sync[s].needStart
    <2>1. PICK o \in Object : /\ sync' = [sync EXCEPT ![s] = o] /\ ~o.needStart
                              /\ o.numProcessedBlocks = sync[s].numProcessedBlocks + 1
      BY <1>1, <1>3, NextBlock
    <2> QED BY <1>1, <1>3, <2>1 DEF GetNextBlock, GoTo
  <1> QED BY <1>2, <1>3

LEMMA BtFillEnterKeepsData ==
  ASSUME ControlInv, ControlInv', DataInv, BtFillEnter
  PROVE  DataInv'
  <1>1. /\ pc["bt"] = "fillEnter" /\ hashBuf' = hashBuf /\ btBuf' = btBuf /\ len' = len
        /\ hashPos' = hashPos /\ moved' = moved /\ lzPos' = lzPos /\ lzBlock' = lzBlock
        /\ btPos' = btPos /\ btAvail' = btAvail /\ btHave' = btHave
        /\ btNum' = 0 /\ btHead' = btAvail /\ produced' = produced
        /\ pc' = [pc EXCEPT !["bt"] = "fill"]
    BY DEF BtFillEnter, GoTo, hashVars, lzVars
  <1>2. DataType /\ CtlType /\ pc \in [Thread -> Place]
    BY DEF DataInv, ControlInv, CtlType
  <1>3. /\ sync' \in [Sync -> Object] /\ sync'["bt"] = sync["bt"]
        /\ sync'["hash"].needStart = sync["hash"].needStart
        /\ sync'["hash"].numProcessedBlocks = sync["hash"].numProcessedBlocks
    BY <1>2 DEF BtFillEnter, CtlType, Object, ControlInv
  <1>4. HashSame /\ BtAsks' = BtAsks /\ HashLive' = HashLive
    BY <1>1, <1>2, <1>3 DEF HashSame, HashLive, HashN, Made, BtAsks
  <1>5. BtSame /\ LzSame
    BY <1>1, <1>2, <1>3 DEF BtSame, LzSame, BtLive, BtN, Made, BtEdge, BtIn, DataType
  <1>6. DataType'
    BY <1>1, <1>2 DEF DataType, MostLists
  <1>7. Fresh'
    BY <1>1, <1>2, <1>3, <1>5 DEF DataInv, Fresh, IsFresh, BtSame
  <1>8. HashRing'
    BY <1>1, <1>4, HashRingKept DEF DataInv
  <1>9. BtReads'
    BY <1>1, <1>4 DEF DataInv, BtReads, HashSame, HashStart, HashSlot, BtAsks
  <1>10. BtWrites'
    BY <1>1, <1>2, <1>3 DEF DataInv, BtWrites, BtReads, BtAsks, HashLive, BtIn, DataType
  <1>11. BtRing' /\ LzReads'
    BY <1>1, <1>5, BtRingKept DEF DataInv, lzVars
  <1> QED BY <1>6, <1>7, <1>8, <1>9, <1>10, <1>11 DEF DataInv

LEMMA BtGetsNextBlockKeepsData ==
  ASSUME ControlInv, ControlInv', DataInv, BtGetsNextBlock
  PROVE  DataInv'
  <1>1. /\ pc["bt"] = "fill" /\ btHave = 0 /\ btNum < BtBlockSize
        /\ hashBuf' = hashBuf /\ btBuf' = btBuf /\ len' = len
        /\ hashPos' = hashPos /\ moved' = moved /\ lzPos' = lzPos /\ lzBlock' = lzBlock
        /\ btPos' = btPos /\ btAvail' = btAvail /\ btHave' = btHave
        /\ btNum' = btNum /\ btHead' = btHead /\ produced' = produced
    BY DEF BtGetsNextBlock, hashVars, lzVars, btVars, dataVars
  <1>2. DataType /\ CtlType /\ pc \in [Thread -> Place]
    BY DEF DataInv, ControlInv, CtlType
  <1>3. /\ sync'["bt"] = sync["bt"] /\ ~sync'["hash"].needStart
        /\ pc' = [pc EXCEPT !["bt"] = pc'["bt"]] /\ pc'["bt"] \in Getting
        /\ IF sync["hash"].needStart THEN HashN' = 1 /\ pc'["bt"] = "getStarted" /\ sync'["hash"].canStart
                                     ELSE HashN' = HashN + 1 /\ pc'["bt"] = "getFree"
    <2>1. GetNextBlock("bt", "hash")
      BY DEF BtGetsNextBlock
    <2> QED BY <1>2, <2>1, NewBlock DEF HashN
  <1>4. BtSame /\ LzSame
    BY <1>1, <1>2, <1>3 DEF BtSame, LzSame, BtLive, BtN, Made, BtEdge, BtIn, DataType
  <1>6. DataType'
    BY <1>1, <1>2 DEF DataType
  <1>7. Fresh'
    BY <1>3 DEF Fresh, IsFresh
  <1>8. HashLive' /\ BtAsks'
    BY <1>3 DEF HashLive, BtAsks
  <1>9. HashRing' /\ BtReads'
    <2>1. CASE sync["hash"].needStart
      <3>1. Made("hash")' = 0 /\ HashN' = 1
        BY <1>1, <1>2, <1>3, <1>8, <2>1 DEF ControlInv, Obj, AtRest, Events, Made,
                                            HashLive, Starts
      <3>2. HashChain(0, 0)'
        BY DEF HashChain
      <3>3. HashStart(0, 0)' = hashPos
        BY <1>1 DEF HashStart
      <3>4. pc["lz"] \notin Exits
        BY <1>1, <1>2, <2>1 DEF ControlInv, Starts, Obj, AtRest
      <3>5. hashPos = btPos
        BY <1>1, <2>1, <3>4 DEF DataInv, Fresh, IsFresh
      <3> QED BY <1>1, <1>8, <3>1, <3>2, <3>3, <3>5 DEF HashRing, BtReads
    <2>2. CASE ~sync["hash"].needStart
      <3>1. HashLive /\ ~BtAsks
        BY <1>1, <2>2 DEF HashLive, BtAsks
      <3>2. PICK lo, hi : lo = HashN - 1 /\ hi = Made("hash")
        OBVIOUS
      <3>3. lo \in Nat /\ hi \in Nat /\ HashN = lo + 1
        BY <3>1, <3>2, HashWindow
      <3>4. Made("hash")' = hi /\ HashN' - 1 = lo + 1
        BY <1>1, <1>2, <1>3, <2>2, <3>2, <3>3 DEF Made
      <3>5. PICK mid : mid = lo + 1
        OBVIOUS
      <3>6. HashChain(lo, hi)
        BY <3>1, <3>2 DEF DataInv, HashRing
      <3>7. HashChain(mid, hi)
        BY <3>3, <3>5, <3>6 DEF HashChain
      <3>8. HashChain(mid, hi)'
        BY <1>1, <3>7 DEF HashChain, HashLink, HashSlot, HashStart, HashNext, HeadsAt,
                          Within, HeadsEnd
      <3>9. HashStart(mid, hi) = btPos + btHave
        BY <3>1, <3>2, <3>3, <3>5 DEF DataInv, BtReads
      <3>10. HashStart(mid, hi)' = btPos
        BY <1>1, <1>2, <3>9 DEF HashStart, HashSlot, DataType
      <3> QED BY <1>1, <1>8, <3>4, <3>5, <3>8, <3>10 DEF HashRing, BtReads
    <2> QED BY <2>1, <2>2
  <1>10. BtWrites'
    BY <1>1, <1>3 DEF DataInv, BtWrites, BtIn
  <1>11. BtRing' /\ LzReads'
    BY <1>1, <1>4, BtRingKept DEF DataInv, lzVars
  <1> QED BY <1>6, <1>7, <1>9, <1>10, <1>11 DEF DataInv

LEMMA BtTakesKeepsData ==
  ASSUME ControlInv, ControlInv', DataInv, BtTakes
  PROVE  DataInv'
  <1>1. /\ pc["bt"] = "take" /\ sync' = sync /\ produced' = produced /\ hashBuf' = hashBuf
        /\ btBuf' = btBuf /\ len' = len /\ hashPos' = hashPos /\ moved' = moved
        /\ lzPos' = lzPos /\ lzBlock' = lzBlock
        /\ pc' = [pc EXCEPT !["bt"] = pc'["bt"]] /\ pc'["bt"] \in {"fill", "fillLeave"}
    BY DEF BtTakes, GoTo, hashVars, lzVars, ControlInv, CtlType
  <1>2. DataType /\ CtlType /\ pc \in [Thread -> Place]
    BY DEF DataInv, ControlInv, CtlType
  <1>3. /\ HashLive /\ HashBlock = [first |-> btPos, num |-> HeadsAt(btPos), avail |-> len - btPos]
        /\ HashStart(HashN, Made("hash")) = HashNext(btPos)
    BY <1>1, HashBlockIs
  <1>4. /\ BtAsks /\ btHave = 0 /\ btNum < BtBlockSize /\ btNum <= btPos
        /\ btPos \in 0..len /\ btNum \in Nat /\ len \in 0..MaxLen
    BY <1>1, <1>2, <1>3 DEF BtAsks, DataInv, BtReads, BtWrites, BtIn, DataType
  <1> DEFINE avail == len - btPos
  <1>5. /\ btHave' = HeadsAt(btPos) /\ btHead' = btNum + avail
        /\ IF avail >= NumHashBytes
             THEN btAvail' = avail /\ btNum' = btNum /\ btPos' = btPos /\ pc'["bt"] = "fill"
             ELSE /\ btAvail' = 0 /\ btNum' = btNum + avail /\ btPos' = btPos + avail
                  /\ pc'["bt"] = "fillLeave"
    BY <1>2, <1>3 DEF BtTakes, GoTo
  <1>6. /\ HeadsAt(btPos) \in 0..HashBlockSize /\ HashNext(btPos) \in btPos..len
        /\ avail >= NumHashBytes => HeadsAt(btPos) > 0
        /\ avail < NumHashBytes => HeadsAt(btPos) = 0 /\ Within(btPos) = HeadsEnd
    BY <1>2, <1>4, Heads
  <1>7. DataType'
    <2>1. btHead' \in 0..len /\ btPos' \in 0..len /\ btAvail' \in 0..len /\ btNum' \in 0..MostLists
      BY <1>4, <1>5 DEF MostLists
    <2> QED BY <1>1, <1>2, <1>5, <1>6, <2>1 DEF DataType
  <1>8. Fresh'
    BY <1>1, <1>3 DEF Fresh, IsFresh, HashLive
  <1>9. HashSame /\ HashLive' /\ ~BtAsks'
    BY <1>1, <1>2, <1>3 DEF HashSame, HashLive, HashN, Made, BtAsks
  <1>10. HashRing'
    BY <1>1, <1>9, HashRingKept DEF DataInv
  <1>11. BtReads'
    <2>1. PICK k, hi : k = HashN /\ hi = Made("hash")
      OBVIOUS
    <2>2. k = HashN' /\ hi = Made("hash")'
      BY <1>9, <2>1 DEF HashSame
    <2>3. HashStart(k, hi)' = HashStart(k, hi)
      BY <1>1 DEF HashStart, HashSlot
    <2>4. HashStart(k, hi)' = btPos' + btHave'
      BY <1>3, <1>4, <1>5, <1>6, <2>1, <2>3 DEF HashNext
    <2>5. btAvail' = len' - btPos'
      BY <1>1, <1>4, <1>5
    <2> QED BY <1>9, <2>2, <2>4, <2>5 DEF BtReads
  <1>12. BtWrites'
    <2>1. btNum' <= btPos' /\ btPos' - btNum' = btPos - btNum /\ btHead' = len - (btPos - btNum)
      BY <1>4, <1>5
    <2>2. CASE pc'["bt"] = "fill"
      BY <1>1, <1>4, <1>5, <2>1, <2>2 DEF BtWrites
    <2>3. CASE pc'["bt"] = "fillLeave"
      <3>1. avail < NumHashBytes /\ avail \in Nat
        BY <1>4, <1>5, <2>3
      <3>2. btHead' > 0 => btNum' > 0
        BY <1>4, <1>5, <3>1
      <3>3. Within(len) - Within(btPos - btNum) <= BtBlockSize
        BY <1>2, <1>4, <1>6, <3>1 DEF Within, HeadsEnd
      <3>4. Within(btPos)' = Within(len) /\ Within(btPos - btNum)' = Within(btPos - btNum)
        <4>1. btPos' = len /\ btPos' - btNum' = btPos - btNum
          BY <1>4, <1>5, <2>1, <3>1
        <4> QED BY <1>1, <4>1 DEF Within, HeadsEnd
      <3> QED BY <1>1, <1>3, <2>1, <2>3, <3>2, <3>3, <3>4 DEF BtWrites, HashLive
    <2> QED BY <1>1, <2>2, <2>3
  <1>13. BtSame /\ LzSame
    <2>1. btPos' - btNum' = btPos - btNum
      BY <1>4, <1>5
    <2> QED BY <1>1, <1>2, <2>1 DEF BtSame, LzSame, BtLive, BtN, Made, BtEdge, BtIn
  <1>14. BtRing' /\ LzReads'
    BY <1>1, <1>13, BtRingKept DEF DataInv, lzVars
  <1> QED BY <1>7, <1>8, <1>10, <1>11, <1>12, <1>14 DEF DataInv

LEMMA BtGetsMatchesKeepsData ==
  ASSUME ControlInv, ControlInv', DataInv, BtGetsMatches
  PROVE  DataInv'
  <1>1. /\ pc["bt"] = "fill" /\ btNum < BtBlockSize /\ pc' = pc /\ sync' = sync
        /\ hashBuf' = hashBuf /\ btBuf' = btBuf /\ len' = len /\ produced' = produced
        /\ hashPos' = hashPos /\ moved' = moved /\ lzPos' = lzPos /\ lzBlock' = lzBlock
        /\ btHead' = btHead
    BY DEF BtGetsMatches, hashVars, lzVars
  <1>2. PICK k \in 1..btHave :
          /\ btNum + k <= BtBlockSize /\ btHave' = btHave - k /\ btAvail' = btAvail - k
          /\ btNum' = btNum + k /\ btPos' = btPos + k
    BY DEF BtGetsMatches
  <1>3. DataType /\ CtlType
    BY DEF DataInv, ControlInv
  <1>4. k \in Nat \ {0} /\ btHave > 0 /\ btNum \in Nat /\ btPos \in Nat /\ btHave \in Nat
    BY <1>2, <1>3 DEF DataType
  <1>5. ~sync["hash"].needStart
    <2>1. pc["lz"] \notin Exits
      BY <1>1, <1>3 DEF ControlInv, Starts, Obj, AtRest
    <2> QED BY <1>1, <1>4, <2>1 DEF DataInv, Fresh, IsFresh
  <1>6. HashLive /\ ~BtAsks
    BY <1>1, <1>5 DEF HashLive, BtAsks
  <1>7. HashStart(HashN, Made("hash")) = btPos + btHave /\ btAvail = len - btPos
    BY <1>6 DEF DataInv, BtReads
  <1>8. btPos + btHave \in 0..len
    <2>1. HashN \in (HashN - 1)..Made("hash")
      BY <1>1, <1>6, HashWindow
    <2> QED BY <1>6, <1>7, <2>1, HashStarts
  <1>9. /\ btPos' \in 0..len /\ btAvail' \in 0..len /\ btHave' \in 0..HashBlockSize
        /\ btNum' \in 0..MostLists /\ btPos' - btNum' = btPos - btNum
        /\ btPos' + btHave' = btPos + btHave /\ btAvail' = len - btPos'
    BY <1>2, <1>3, <1>4, <1>7, <1>8 DEF DataType, MostLists
  <1>10. DataType'
    BY <1>1, <1>3, <1>9 DEF DataType
  <1>11. Fresh'
    BY <1>1, <1>5 DEF Fresh, IsFresh
  <1>12. HashSame /\ HashLive' /\ ~BtAsks'
    BY <1>1, <1>6 DEF HashSame, HashLive, HashN, Made, BtAsks
  <1>13. HashRing'
    BY <1>1, <1>12, HashRingKept DEF DataInv
  <1>14. BtReads'
    BY <1>1, <1>7, <1>9, <1>12 DEF BtReads, HashSame, HashStart, HashSlot
  <1>15. BtWrites'
    BY <1>1, <1>2, <1>4, <1>9 DEF DataInv, BtWrites, BtIn
  <1>16. BtSame /\ LzSame
    BY <1>1, <1>9 DEF BtSame, LzSame, BtLive, BtN, Made, BtEdge, BtIn
  <1>17. BtRing' /\ LzReads'
    BY <1>1, <1>16, BtRingKept DEF DataInv, lzVars
  <1> QED BY <1>10, <1>11, <1>13, <1>14, <1>15, <1>17 DEF DataInv

LEMMA BtIsFullKeepsData ==
  ASSUME ControlInv, ControlInv', DataInv, BtIsFull
  PROVE  DataInv'
  <1>1. /\ pc["bt"] = "fill" /\ btNum > 0 /\ sync' = sync /\ produced' = produced
        /\ hashBuf' = hashBuf /\ btBuf' = btBuf /\ len' = len
        /\ hashPos' = hashPos /\ moved' = moved /\ lzPos' = lzPos /\ lzBlock' = lzBlock
        /\ btPos' = btPos /\ btAvail' = btAvail /\ btHave' = btHave
        /\ btNum' = btNum /\ btHead' = btHead /\ pc' = [pc EXCEPT !["bt"] = "fillLeave"]
    BY DEF BtIsFull, GoTo, hashVars, lzVars, btVars, dataVars
  <1>2. DataType /\ CtlType /\ pc \in [Thread -> Place]
    BY DEF DataInv, ControlInv, CtlType
  <1>3. ~sync["hash"].needStart
    <2>1. pc["lz"] \notin Exits
      BY <1>1, <1>2 DEF ControlInv, Starts, Obj, AtRest
    <2> QED BY <1>1, <2>1 DEF DataInv, Fresh, IsFresh
  <1>4. DataType' /\ Fresh'
    BY <1>1, <1>2, <1>3 DEF DataType, Fresh, IsFresh
  <1>5. HashSame /\ HashLive' = HashLive /\ BtAsks' = BtAsks
    BY <1>1, <1>2 DEF HashSame, HashLive, HashN, Made, BtAsks
  <1>6. HashRing'
    BY <1>1, <1>5, HashRingKept DEF DataInv
  <1>7. BtReads'
    BY <1>1, <1>5 DEF DataInv, BtReads, HashSame, HashStart, HashSlot
  <1>8. BtWrites'
    <2>1. btNum <= btPos /\ btNum <= BtBlockSize /\ btHead = len - (btPos - btNum)
      BY <1>1, <1>3 DEF DataInv, BtWrites, BtIn
    <2>2. Within(btPos) - Within(btPos - btNum) <= BtBlockSize
      <3>1. btPos \in Nat /\ btNum \in Nat
        BY <1>2 DEF DataType
      <3> QED BY <1>2, <2>1, <3>1, WithinGrows
    <2>3. Within(btPos)' = Within(btPos) /\ Within(btPos - btNum)' = Within(btPos - btNum)
      BY <1>1 DEF Within, HeadsEnd
    <2> QED BY <1>1, <1>2, <1>3, <2>1, <2>2, <2>3 DEF BtWrites
  <1>9. BtSame /\ LzSame
    BY <1>1, <1>2 DEF BtSame, LzSame, BtLive, BtN, Made, BtEdge, BtIn
  <1>10. BtRing' /\ LzReads'
    BY <1>1, <1>9, BtRingKept DEF DataInv, lzVars
  <1> QED BY <1>4, <1>6, <1>7, <1>8, <1>10 DEF DataInv

LEMMA BtFillLeaveKeepsData ==
  ASSUME ControlInv, ControlInv', DataInv, BtFillLeave
  PROVE  DataInv'
  <1>1. /\ pc["bt"] = "fillLeave" /\ hashBuf' = hashBuf /\ len' = len
        /\ hashPos' = hashPos /\ moved' = moved /\ lzPos' = lzPos /\ lzBlock' = lzBlock
        /\ btPos' = btPos /\ btAvail' = btAvail /\ btHave' = btHave
        /\ btNum' = btNum /\ btHead' = btHead
        /\ produced' = [produced EXCEPT !["bt"] = @ + 1]
        /\ pc' = [pc EXCEPT !["bt"] = "filled"]
    BY DEF BtFillLeave, GoTo, hashVars, lzVars, btVars
  <1>2. DataType /\ CtlType /\ pc \in [Thread -> Place] /\ produced \in [Sync -> Nat]
    BY DEF DataInv, ControlInv, CtlType
  <1>3. /\ sync'["bt"] = sync["bt"]
        /\ sync'["hash"].needStart = sync["hash"].needStart
        /\ sync'["hash"].numProcessedBlocks = sync["hash"].numProcessedBlocks
    BY <1>2 DEF BtFillLeave, CtlType, Object
  <1>4. ~sync["hash"].needStart /\ ~sync["bt"].needStart
    BY <1>1, <1>2 DEF DataInv, BtWrites, ControlInv, Obj, AtRest
  <1> DEFINE start == btPos - btNum
             new == [first |-> start, num |-> btNum, avail |-> btHead]
  <1>5. /\ start \in 0..len /\ btHead = len - start /\ btNum \in 0..len /\ btNum <= len - start
        /\ start < len => btNum > 0
        /\ Within(btPos) - Within(start) <= BtBlockSize
        /\ btPos = start + btNum /\ btPos \in 0..len /\ len \in 0..MaxLen
    <2>1. /\ btNum <= btPos /\ btHead = len - (btPos - btNum) /\ (btHead > 0 => btNum > 0)
          /\ Within(btPos) - Within(btPos - btNum) <= BtBlockSize
      BY <1>1, <1>4 DEF DataInv, BtWrites, BtIn
    <2>2. btNum \in Nat /\ btPos \in 0..len /\ len \in 0..MaxLen
      BY <1>2 DEF DataType
    <2> QED BY <2>1, <2>2
  <1>6. new \in Block
    BY <1>5 DEF Block
  <1>7. btBuf' = [btBuf EXCEPT ![produced["bt"] % NumBtBlocks] = new]
    BY DEF BtFillLeave
  <1> HIDE DEF new, start
  <1>8. DataType'
    <2>1. btBuf' \in [0..(NumBtBlocks - 1) -> Block \cup {Stale}]
      BY <1>2, <1>6, <1>7 DEF DataType
    <2>2. Block' = Block /\ Stale' = Stale
      BY DEF Block, Stale
    <2> QED BY <1>1, <1>2, <2>1, <2>2 DEF DataType
  <1>9. Fresh'
    BY <1>3, <1>4 DEF Fresh, IsFresh
  <1>10. HashSame /\ HashLive' = HashLive /\ BtAsks' = BtAsks
    BY <1>1, <1>2, <1>3 DEF HashSame, HashLive, HashN, Made, BtAsks
  <1>11. HashRing'
    BY <1>1, <1>10, HashRingKept DEF DataInv
  <1>12. BtReads'
    BY <1>1, <1>10 DEF DataInv, BtReads, HashSame, HashStart, HashSlot
  <1>13. BtWrites'
    BY <1>1, <1>2, <1>3, <1>4 DEF BtWrites, BtIn
  <1>14. /\ BtLive' = BtLive /\ BtN' = BtN /\ BtEdge = start /\ BtEdge' = btPos
         /\ Made("bt") = produced["bt"] /\ Made("bt")' = produced["bt"] + 1
         /\ sync'["bt"].needStart = sync["bt"].needStart /\ pc'["lz"] = pc["lz"]
    BY <1>1, <1>2, <1>3 DEF BtLive, BtN, BtEdge, BtIn, Made, start
  <1>15. ASSUME BtLive PROVE BtRing' /\ LzReads'
    <2>1. PICK lo, hi : lo = BtN - 1 /\ hi = Made("bt")
      OBVIOUS
    <2>2. /\ lo \in Nat /\ hi \in Nat /\ lo <= hi /\ hi + 1 <= NumBtBlocks + lo
          /\ pc["lz"] = "use" => lo < hi
      BY <1>1, <1>15, <2>1, BtWindow DEF One
    <2>3. BtChain(lo, hi)
      BY <1>15, <2>1 DEF DataInv, BtRing
    <2>4. BtSlot(hi)' = new
      BY <1>2, <1>7, <1>14, <2>1, <2>2 DEF BtSlot, DataType
    <2>5. ASSUME NEW j \in lo..(hi - 1) PROVE BtSlot(j)' = BtSlot(j)
      <3>1. j % NumBtBlocks # hi % NumBtBlocks
        <4>1. j \in Int /\ hi \in Int /\ j < hi /\ hi - j < NumBtBlocks
          BY <2>2
        <4> QED BY <4>1, ModDiffers
      <3> QED BY <1>2, <1>7, <1>14, <2>1, <3>1 DEF BtSlot, DataType
    <2>6. ASSUME NEW j \in lo..hi, NEW top, top = hi + 1 PROVE BtStart(j, top)' = BtStart(j, hi)
      BY <1>14, <2>2, <2>4, <2>5, <2>6 DEF BtStart, new
    <2>7. ASSUME NEW j \in lo..hi, NEW k, NEW top, k = j + 1, top = hi + 1
          PROVE  BtLink(j, k, top)'
      <3>1. PICK p \in 0..len, num \in 0..len :
              /\ BtSlot(j)' = [first |-> p, num |-> num, avail |-> len - p]
              /\ num <= len - p /\ (p < len => num > 0)
              /\ BtStart(k, top)' = p + num
              /\ Within(btPos) - Within(p) <= (top - j) * BtBlockSize
        <4>1. CASE j = hi
          <5>1. BtSlot(j)' = [first |-> start, num |-> btNum, avail |-> len - start]
            BY <1>5, <2>4, <4>1 DEF new
          <5>2. BtStart(k, top)' = btPos
            BY <1>14, <2>7, <4>1 DEF BtStart
          <5>3. (top - j) * BtBlockSize = BtBlockSize
            BY <2>2, <2>7, <4>1
          <5> QED BY <1>5, <5>1, <5>2, <5>3
        <4>2. CASE j # hi
          <5>1. j \in lo..(hi - 1) /\ k \in lo..hi /\ j \in lo..hi
            BY <2>2, <2>7, <4>2
          <5>2. BtLink(j, k, hi)
            BY <2>3, <2>7, <5>1 DEF BtChain
          <5>3. PICK p \in 0..len, num \in 0..len :
                  /\ BtSlot(j) = [first |-> p, num |-> num, avail |-> len - p]
                  /\ num <= len - p /\ (p < len => num > 0)
                  /\ BtStart(k, hi) = p + num
                  /\ Within(start) - Within(p) <= (hi - j) * BtBlockSize
            BY <1>14, <5>2 DEF BtLink
          <5>4. BtSlot(j)' = BtSlot(j) /\ BtStart(k, top)' = BtStart(k, hi)
            BY <2>5, <2>6, <2>7, <5>1
          <5>5. Within(btPos) - Within(p) <= (top - j) * BtBlockSize
            <6>1. Within(start) \in Int /\ Within(p) \in Int /\ Within(btPos) \in Int
              BY <1>2, <1>5 DEF Within, HeadsEnd, DataType
            <6>2. (hi - j + 1) * BtBlockSize = (hi - j) * BtBlockSize + BtBlockSize
              BY <2>2, Longer
            <6>3. top - j = hi - j + 1 /\ (hi - j) * BtBlockSize \in Int
              BY <2>2, <2>7
            <6>4. PICK room \in Int : room = (hi - j) * BtBlockSize
              BY <6>3
            <6> QED BY <1>5, <5>3, <6>1, <6>2, <6>3, <6>4
          <5> QED BY <5>3, <5>4, <5>5
        <4> QED BY <4>1, <4>2
      <3>2. Within(p)' = Within(p) /\ len' = len
        BY <1>1 DEF Within, HeadsEnd
      <3>3. Within(BtEdge)' = Within(btPos)
        BY <1>1, <1>14 DEF Within, HeadsEnd
      <3> QED BY <3>1, <3>2, <3>3 DEF BtLink
    <2>8. PICK top : top = hi + 1
      OBVIOUS
    <2>9. BtRing'
      <3>1. BtChain(lo, top)'
        <4> SUFFICES ASSUME NEW j \in lo..top, NEW k \in lo..top, k = j + 1
                     PROVE  BtLink(j, k, top)'
          BY DEF BtChain
        <4>1. j \in lo..hi
          BY <2>2, <2>8
        <4> QED BY <2>7, <2>8, <4>1
      <3> QED BY <1>14, <2>1, <2>8, <3>1 DEF BtRing
    <2>10. LzReads'
      <3>1. BtStart(lo, top)' = BtStart(lo, hi)
        BY <2>2, <2>6, <2>8
      <3>2. pc["lz"] = "use" => BtSlot(lo)' = BtSlot(lo)
        BY <2>2, <2>5
      <3> QED BY <1>1, <1>14, <1>15, <2>1, <2>8, <3>1, <3>2 DEF DataInv, LzReads
    <2> QED BY <2>9, <2>10
  <1>16. BtRing' /\ LzReads'
    <2>1. ~BtLive => LzReads'
      BY <1>4, <1>14 DEF LzReads
    <2> QED BY <1>14, <1>15, <2>1 DEF BtRing
  <1> QED BY <1>8, <1>9, <1>11, <1>12, <1>13, <1>16 DEF DataInv

LEMMA LzGetsNextBlockKeepsData ==
  ASSUME ControlInv, ControlInv', DataInv, LzGetsNextBlock
  PROVE  DataInv'
  <1>1. /\ pc["lz"] = "use" /\ hashBuf' = hashBuf /\ btBuf' = btBuf /\ len' = len
        /\ hashPos' = hashPos /\ moved' = moved /\ lzBlock' = lzBlock
        /\ btPos' = btPos /\ btAvail' = btAvail /\ btHave' = btHave
        /\ btNum' = btNum /\ btHead' = btHead /\ produced' = produced
        /\ lzPos' = lzPos + lzBlock.num /\ GetNextBlock("lz", "bt")
    BY DEF LzGetsNextBlock, hashVars, btVars
  <1>2. DataType /\ CtlType /\ pc \in [Thread -> Place]
    BY DEF DataInv, ControlInv, CtlType
  <1>3. /\ sync'["hash"] = sync["hash"] /\ ~sync'["bt"].needStart
        /\ pc' = [pc EXCEPT !["lz"] = pc'["lz"]] /\ pc'["lz"] \in Getting
        /\ IF sync["bt"].needStart
             THEN BtN' = 1 /\ pc'["lz"] = "getStarted" /\ sync'["bt"].canStart
             ELSE BtN' = BtN + 1 /\ pc'["lz"] = "getFree"
    BY <1>1, <1>2, NewBlock DEF BtN
  <1>4. HashSame /\ HashLive' = HashLive /\ BtAsks' = BtAsks
    BY <1>1, <1>2, <1>3 DEF HashSame, HashLive, HashN, Made, BtAsks
  <1>5. HashRing'
    BY <1>1, <1>4, HashRingKept DEF DataInv
  <1>6. BtReads'
    BY <1>1, <1>4 DEF DataInv, BtReads, HashSame, HashStart, HashSlot
  <1>7. BtWrites'
    BY <1>1, <1>2, <1>3 DEF DataInv, BtWrites, BtIn, Within, HeadsEnd
  <1>8. BtLive' /\ BtEdge' = BtEdge
    BY <1>1, <1>2, <1>3 DEF BtLive, BtEdge, BtIn
  <1>9. CASE sync["bt"].needStart
    <2>1. lzBlock = Stale /\ lzPos' = lzPos
      BY <1>1, <1>2, <1>9 DEF DataInv, LzReads, Stale, DataType
    <2>2. sync["hash"].needStart /\ pc["bt"] = "canStart"
      BY <1>1, <1>9 DEF ControlInv, Obj, AtRest, Starts
    <2>3. hashPos = 0 /\ btPos = 0 /\ btHave = 0 /\ btNum = 0 /\ btAvail = 0 /\ lzPos = 0
      BY <1>1, <2>2 DEF DataInv, Fresh, IsFresh
    <2>4. Made("bt")' = 0 /\ BtN' = 1
      BY <1>1, <1>2, <1>3, <1>9, <2>2 DEF Made
    <2>5. DataType' /\ Fresh'
      BY <1>1, <1>2, <2>1, <2>3, <2>4 DEF DataType, Fresh
    <2>6. BtChain(0, 0)'
      BY DEF BtChain
    <2>7. BtStart(0, 0)' = 0
      BY <1>8, <2>3 DEF BtStart, BtEdge
    <2>8. BtRing' /\ LzReads'
      BY <1>3, <1>8, <2>1, <2>3, <2>4, <2>6, <2>7 DEF BtRing, LzReads
    <2> QED BY <1>5, <1>6, <1>7, <2>5, <2>8 DEF DataInv
  <1>10. CASE ~sync["bt"].needStart
    <2>1. BtLive
      BY <1>1, <1>10 DEF BtLive
    <2>2. /\ lzBlock = BtBlock /\ ~sync["hash"].needStart
          /\ \E num \in 0..len : /\ BtBlock = [first |-> lzPos, num |-> num, avail |-> len - lzPos]
                                 /\ num <= len - lzPos /\ BtStart(BtN, Made("bt")) = lzPos + num
      BY <1>1, <2>1, BtBlockIs DEF DataInv, LzReads
    <2>3. lzPos' \in 0..len /\ lzPos' = BtStart(BtN, Made("bt"))
      BY <1>1, <1>2, <2>2 DEF DataType
    <2>4. DataType' /\ Fresh'
      BY <1>1, <1>2, <1>3, <2>2, <2>3 DEF DataType, Fresh, IsFresh
    <2>5. PICK lo, mid, hi : lo = BtN - 1 /\ mid = BtN /\ hi = Made("bt")
      OBVIOUS
    <2>6. lo \in Nat /\ hi \in Nat /\ mid = lo + 1
      BY <2>1, <2>5, BtWindow
    <2>7. Made("bt")' = hi /\ BtN' - 1 = mid
      BY <1>1, <1>2, <1>3, <1>10, <2>5, <2>6 DEF Made
    <2>8. BtChain(lo, hi)
      BY <2>1, <2>5 DEF DataInv, BtRing
    <2>9. BtChain(mid, hi)
      BY <2>6, <2>8 DEF BtChain
    <2>10. BtChain(mid, hi)'
      BY <1>1, <1>8, <2>9 DEF BtChain, BtLink, BtSlot, BtStart, Within, HeadsEnd
    <2>11. BtStart(mid, hi)' = lzPos'
      BY <1>1, <1>8, <2>3, <2>5 DEF BtStart, BtSlot
    <2>12. BtRing' /\ LzReads'
      BY <1>3, <1>8, <2>7, <2>10, <2>11 DEF BtRing, LzReads
    <2> QED BY <1>5, <1>6, <1>7, <2>4, <2>12 DEF DataInv
  <1> QED BY <1>9, <1>10

LEMMA LzTakesKeepsData ==
  ASSUME ControlInv, ControlInv', DataInv, LzTakes
  PROVE  DataInv'
  <1>1. /\ pc["lz"] = "take" /\ sync' = sync /\ hashBuf' = hashBuf /\ btBuf' = btBuf /\ len' = len
        /\ hashPos' = hashPos /\ moved' = moved /\ lzPos' = lzPos /\ lzBlock' = BtBlock
        /\ btPos' = btPos /\ btAvail' = btAvail /\ btHave' = btHave
        /\ btNum' = btNum /\ btHead' = btHead /\ produced' = produced
        /\ pc' = [pc EXCEPT !["lz"] = "use"]
    BY DEF LzTakes, GoTo, hashVars, btVars
  <1>2. DataType /\ CtlType /\ pc \in [Thread -> Place]
    BY DEF DataInv, ControlInv, CtlType
  <1>3. BtLive /\ ~sync["bt"].needStart
    BY <1>1 DEF ControlInv, Starts, BtLive
  <1>4. /\ BtBlock = BtSlot(BtN - 1) /\ ~sync["hash"].needStart
        /\ \E num \in 0..len : BtBlock = [first |-> lzPos, num |-> num, avail |-> len - lzPos]
    BY <1>1, <1>3, BtBlockIs
  <1>5. BtBlock \in Block
    BY <1>2, <1>4 DEF DataType, Block
  <1>6. DataType' /\ Fresh'
    BY <1>1, <1>2, <1>4, <1>5 DEF DataType, Fresh, IsFresh
  <1>7. HashSame /\ HashLive' = HashLive /\ BtAsks' = BtAsks
    BY <1>1, <1>2 DEF HashSame, HashLive, HashN, Made, BtAsks
  <1>8. HashRing'
    BY <1>1, <1>7, HashRingKept DEF DataInv
  <1>9. BtReads'
    BY <1>1, <1>7 DEF DataInv, BtReads, HashSame, HashStart, HashSlot
  <1>10. BtWrites'
    BY <1>1, <1>2 DEF DataInv, BtWrites, BtIn, Within, HeadsEnd
  <1>11. PICK lo, hi : lo = BtN - 1 /\ hi = Made("bt")
    OBVIOUS
  <1>12. BtLive' /\ BtEdge' = BtEdge /\ lo = (BtN - 1)' /\ hi = Made("bt")'
    BY <1>1, <1>2, <1>3, <1>11 DEF BtLive, BtEdge, BtIn, BtN, Made
  <1>13. BtRing'
    <2>1. BtChain(lo, hi)
      BY <1>3, <1>11 DEF DataInv, BtRing
    <2>2. BtChain(lo, hi)'
      BY <1>1, <1>12, <2>1 DEF BtChain, BtLink, BtSlot, BtStart, Within, HeadsEnd
    <2> QED BY <1>12, <2>2 DEF BtRing
  <1>14. LzReads'
    <2>1. BtStart(lo, hi)' = lzPos
      BY <1>1, <1>3, <1>11, <1>12 DEF DataInv, LzReads, BtStart, BtSlot
    <2>2. BtSlot(lo)' = BtBlock
      BY <1>1, <1>4, <1>11 DEF BtSlot
    <2> QED BY <1>1, <1>3, <1>12, <2>1, <2>2 DEF LzReads
  <1> QED BY <1>6, <1>8, <1>9, <1>10, <1>13, <1>14 DEF DataInv

LEMMA InitFileKeepsData ==
  ASSUME ControlInv, DataInv, NEW n \in 0..MaxLen, InitFile(n) PROVE DataInv'
  <1>1. /\ pc["lz"] = "idle" /\ sync' = sync /\ len' = n /\ hashPos' = 0 /\ moved' = FALSE
        /\ btPos' = 0 /\ btHave' = 0 /\ btAvail' = 0 /\ btNum' = 0 /\ btHead' = 0
        /\ lzPos' = 0 /\ lzBlock' = Stale /\ pc' = [pc EXCEPT !["lz"] = "use"]
        /\ hashBuf' = [k \in DOMAIN hashBuf |-> Stale] /\ btBuf' = [k \in DOMAIN btBuf |-> Stale]
    BY DEF InitFile, GoTo
  <1>2. DataType /\ CtlType /\ pc \in [Thread -> Place]
    BY DEF DataInv, ControlInv, CtlType
  <1>3. sync["bt"].needStart /\ sync["hash"].needStart /\ pc["bt"] = "canStart"
    BY <1>1 DEF ControlInv, Starts, Obj, AtRest
  <1>4. DataType'
    <2>1. /\ hashBuf' \in [0..(NumHashBlocks - 1) -> Block \cup {Stale}]
          /\ btBuf' \in [0..(NumBtBlocks - 1) -> Block \cup {Stale}]
      BY <1>1, <1>2 DEF DataType
    <2>2. Block' = Block /\ Stale' = Stale
      BY DEF Block, Stale
    <2>3. 0 \in 0..n /\ 0 \in 0..HashBlockSize /\ 0 \in 0..MostLists /\ n \in 0..MaxLen
      BY DEF MostLists
    <2> QED BY <1>1, <2>1, <2>2, <2>3 DEF DataType
  <1>5. Fresh'
    BY <1>1, <1>3 DEF Fresh, BtLive
  <1>6. HashRing' /\ BtReads' /\ BtRing'
    BY <1>1, <1>3 DEF HashRing, BtReads, BtRing, HashLive, BtLive
  <1>7. BtWrites'
    BY <1>1, <1>2, <1>3 DEF BtWrites, BtIn
  <1>8. LzReads'
    BY <1>1, <1>3 DEF LzReads, BtLive
  <1> QED BY <1>4, <1>5, <1>6, <1>7, <1>8 DEF DataInv

LEMMA InitData == Init => DataInv
  <1> SUFFICES ASSUME Init PROVE DataInv
    OBVIOUS
  <1>1. sync["bt"].needStart /\ sync["hash"].needStart /\ pc["bt"] = "canStart" /\ pc["lz"] = "idle"
    BY DEF Init
  <1>2. DataType
    <2>1. /\ hashBuf \in [0..(NumHashBlocks - 1) -> Block \cup {Stale}]
          /\ btBuf \in [0..(NumBtBlocks - 1) -> Block \cup {Stale}]
      BY DEF Init
    <2>2. 0 \in 0..0 /\ 0 \in 0..MaxLen /\ 0 \in 0..HashBlockSize /\ 0 \in 0..MostLists
      BY DEF MostLists
    <2> QED BY <2>1, <2>2 DEF Init, DataType
  <1>3. Fresh /\ HashRing /\ BtReads /\ BtRing /\ BtWrites /\ LzReads
    BY <1>1 DEF Init, Fresh, HashRing, BtReads, BtRing, BtWrites, LzReads, HashLive,
                BtLive, BtIn
  <1> QED BY <1>2, <1>3 DEF DataInv

-----------------------------------------------------------------------------
(* The invariant, and what it says.                                         *)

LEMMA NothingKeepsData ==
  ASSUME DataInv, UNCHANGED vars
  PROVE  DataInv'
  <1>1. /\ sync' = sync /\ pc' = pc /\ produced' = produced /\ hashBuf' = hashBuf
        /\ btBuf' = btBuf /\ len' = len /\ hashPos' = hashPos /\ moved' = moved
        /\ UNCHANGED btVars /\ UNCHANGED lzVars
    BY DEF vars, dataVars, hashVars
  <1>2. DataSame
    BY <1>1 DEF DataSame, DataInv, DataType
  <1>3. HashSame /\ BtSame /\ LzSame
    BY <1>1 DEF HashSame, BtSame, LzSame, HashLive, HashN, Made, BtLive, BtN, BtEdge, BtIn,
                btVars
  <1>4. PlaceSame /\ (IsFresh' => IsFresh)
    BY <1>1 DEF PlaceSame, HashLive, BtIn, BtAsks, IsFresh
  <1> QED BY <1>2, <1>3, <1>4, QuietKeeps DEF QuietStep

LEMMA DataIsInductive == ControlInv /\ ControlInv' /\ DataInv /\ [Next]_vars => DataInv'
  <1> SUFFICES ASSUME ControlInv, ControlInv', DataInv, [Next]_vars PROVE DataInv'
    OBVIOUS
  <1>1. ASSUME HashStep PROVE DataInv'
    <2>1. CASE ProducerStep("hash")
      BY <2>1, ProducerIsQuiet, QuietKeeps
    <2>2. CASE HashFillsBlock
      BY <2>2, HashFillsBlockKeepsData
    <2>3. CASE \/ HashStops \/ HashNeedsMove \/ MoveEnterBt \/ MoveEnterHash \/ Move
               \/ MoveLeaveHash \/ HashContinues
      BY <2>3, HashItselfIsQuiet, QuietKeeps
    <2> QED BY <1>1, <2>1, <2>2, <2>3 DEF HashStep
  <1>2. ASSUME BtStep PROVE DataInv'
    <2>1. CASE ProducerStep("bt") \/ ConsumerStep("bt")
      BY <2>1, ProducerIsQuiet, ConsumerIsQuiet, QuietKeeps
    <2>2. CASE BtStops \/ BtStopsHash \/ BtContinues
      BY <2>2, BtItselfIsQuiet, QuietKeeps
    <2> QED
      BY <1>2, <2>1, <2>2, BtFillEnterKeepsData, BtGetsNextBlockKeepsData,
         BtTakesKeepsData, BtGetsMatchesKeepsData, BtIsFullKeepsData, BtFillLeaveKeepsData
         DEF BtStep
  <1>3. ASSUME LzStep \/ ReleaseStream \/ Destruct PROVE DataInv'
    <2>1. CASE ConsumerStep("lz")
      BY <2>1, ConsumerIsQuiet, QuietKeeps
    <2>2. CASE LzTakes
      BY <2>2, LzTakesKeepsData
    <2>3. CASE \/ ReleaseStream \/ Destruct
               \/ SetExit("hash", "exitHash", "joinHash") \/ Join("hash", "joinHash", "exitBt")
               \/ SetExit("bt", "exitBt", "joinBt") \/ Join("bt", "joinBt", "destructed")
      BY <2>3, LzItselfIsQuiet, QuietKeeps
    <2> QED BY <1>3, <2>1, <2>2, <2>3 DEF LzStep
  <1> QED
    BY <1>1, <1>2, <1>3, InitFileKeepsData, LzGetsNextBlockKeepsData, NothingKeepsData
       DEF Next, Terminating

LEMMA SpecData == Spec => [](ControlInv /\ DataInv)
  BY InitControl, ControlIsInductive, InitData, DataIsInductive, PTL DEF Spec

\* The permits bound the semaphores, so the type invariant follows.
LEMMA TypesHold == ControlInv /\ DataInv => TypeOK
  <1> SUFFICES ASSUME ControlInv, DataInv PROVE TypeOK
    OBVIOUS
  <1>1. CtlType /\ DataType
    BY DEF ControlInv, DataInv
  <1>2. ASSUME NEW s \in Sync PROVE sync[s] \in CMtSync[s]
    <2>1. sync[s] \in Object /\ Obj(s) /\ produced[s] \in Nat
      BY <1>1 DEF CtlType, ControlInv
    <2>2. /\ sync[s].freeSemaphore \in Nat /\ sync[s].filledSemaphore \in Nat
          /\ sync[s].numProcessedBlocks \in Nat /\ mine[s] \in Nat
      BY <1>1, <2>1 DEF Object, CtlType
    <2>3. sync[s].freeSemaphore <= NumBlocks[s] /\ sync[s].filledSemaphore <= NumBlocks[s]
      BY <2>1, <2>2 DEF Obj, AtRest, Events, Permits, Made, Count, One
    <2>4. NumBlocks[s] \in Nat
      OBVIOUS
    <2>5. sync[s].freeSemaphore \in 0..NumBlocks[s] /\ sync[s].filledSemaphore \in 0..NumBlocks[s]
      BY <2>2, <2>3, <2>4
    <2> QED BY <2>1, <2>5 DEF Object, CMtSync
  <1> QED BY <1>1, <1>2 DEF TypeOK, CtlType, DataType

\* "bt" and "lz" get the blocks of the present file, in order and without a gap, with
\* the right number of bytes; there is never a block of an earlier file among them, and
\* none without a list while there are bytes.
THEOREM BlocksAreInOrder == Spec => []BlocksInOrder
  <1>1. ControlInv /\ DataInv => BlocksInOrder
    <2> SUFFICES ASSUME ControlInv, DataInv PROVE BlocksInOrder
      OBVIOUS
    <2>1. TypeOK
      BY TypesHold
    <2>2. ASSUME pc["bt"] = "take" PROVE HashBlock.first = btPos /\ HashBlock.avail = len - btPos
      BY <2>2, HashBlockIs
    <2>3. ASSUME pc["lz"] = "take"
          PROVE  /\ BtBlock.first = lzPos /\ BtBlock.avail = len - lzPos
                 /\ BtBlock.avail > 0 => BtBlock.num \in 1..BtBlock.avail
      <3>1. BtLive
        BY <2>3 DEF ControlInv, Starts, BtLive
      <3>2. PICK num \in 0..len :
              /\ BtBlock = [first |-> lzPos, num |-> num, avail |-> len - lzPos]
              /\ num <= len - lzPos /\ (lzPos < len => num > 0)
        BY <2>3, <3>1, BtBlockIs
      <3>3. lzPos \in 0..len /\ len \in 0..MaxLen
        BY DEF DataInv, DataType
      <3> QED BY <3>2, <3>3
    <2> QED BY <2>1, <2>2, <2>3 DEF BlocksInOrder
  <1> QED BY <1>1, SpecData, PTL

LEMMA MoreRoom ==
  ASSUME NEW a \in Int, NEW b \in Int, NEW h \in Nat, a <= b
  PROVE  a * h <= b * h
  <1>1. PICK d \in Nat : d = b - a
    OBVIOUS
  <1>2. b * h = a * h + d * h
    BY <1>1
  <1>3. d * h \in Nat
    OBVIOUS
  <1>4. PICK x \in Int, y \in Int, z \in Nat : x = a * h /\ y = b * h /\ z = d * h
    BY <1>3
  <1> QED BY <1>2, <1>4

LEMMA NotAMultiple ==
  ASSUME NEW n \in Nat \ {0}, NEW d \in Int, d < 0, -d < n
  PROVE  (d % n) # 0
  OBVIOUS

\* From the position that "lz" asks for to hashPos there are, but for the last bytes of
\* the file, no more positions than the two rings have room for.
LEMMA HashIsNotFarAhead ==
  ASSUME ControlInv, DataInv, HashLive, BtLive
  PROVE  hashPos - lzPos <=
           NumHashBlocks * HashBlockSize + NumBtBlocks * BtBlockSize + NumHashBytes - 1
  <1>1. DataType /\ BtReads /\ BtWrites /\ LzReads
    BY DEF DataInv
  <1>2. /\ hashPos \in Nat /\ hashPos <= len /\ len \in Nat /\ lzPos \in Nat
        /\ btPos \in Nat /\ btNum \in Nat /\ btHave \in 0..HashBlockSize /\ HeadsEnd \in Nat
    BY <1>1 DEF DataType, HeadsEnd
  <1>3. PICK n, made, m, made2 : /\ n = HashN /\ made = Made("hash")
                                 /\ m = BtN /\ made2 = Made("bt")
    OBVIOUS
  <1>4. /\ n \in Nat /\ made \in Nat /\ n - 1 <= made /\ made - n + 1 <= NumHashBlocks
        /\ ~BtAsks => n <= made
    BY <1>3, HashWindow DEF One, BtAsks
  <1>5. /\ m \in Nat /\ made2 \in Nat /\ m - 1 <= made2
        /\ made2 + One(pc["bt"] \in Filling["bt"]) <= NumBtBlocks + m - 1
    BY <1>3, BtWindow
  <1>6. hashPos <= Within(hashPos) + NumHashBytes - 1 /\ Within(lzPos) <= lzPos
    BY <1>2 DEF Within, HeadsEnd
  <1>7. /\ Within(hashPos) \in Int /\ Within(btPos) \in Int /\ Within(lzPos) \in Int
        /\ BtEdge \in Int /\ Within(BtEdge) \in Int
    BY <1>2 DEF Within, BtEdge
  <1>8. Within(hashPos) - Within(btPos) <= NumHashBlocks * HashBlockSize
    <2>1. (made - n + 1) * HashBlockSize <= NumHashBlocks * HashBlockSize
      <3>1. made - n + 1 \in Int /\ NumHashBlocks \in Int
        BY <1>4
      <3> QED BY <1>4, <3>1, MoreRoom
    <2>2. Within(hashPos) - Within(btPos) <= (made - n + 1) * HashBlockSize
      <3>1. CASE BtAsks
        <4>1. PICK i : i = n - 1
          OBVIOUS
        <4>2. i \in (HashN - 1)..Made("hash") /\ HashStart(i, Made("hash")) = btPos
          BY <1>1, <1>3, <1>4, <3>1, <4>1 DEF BtReads
        <4>3. Within(hashPos) - Within(btPos) <= (made - i) * HashBlockSize
          BY <1>3, <4>2, HashStarts
        <4>4. made - i = made - n + 1
          BY <1>4, <4>1
        <4> QED BY <4>3, <4>4
      <3>2. CASE ~BtAsks
        <4>1. n \in (HashN - 1)..Made("hash") /\ HashStart(n, Made("hash")) = btPos + btHave
          BY <1>1, <1>3, <1>4, <3>2 DEF BtReads
        <4>2. Within(hashPos) - Within(btPos + btHave) <= (made - n) * HashBlockSize
          BY <1>3, <4>1, HashStarts
        <4>3. Within(btPos + btHave) - Within(btPos) <= HashBlockSize
              /\ Within(btPos + btHave) \in Int
          BY <1>2 DEF Within
        <4>4. (made - n + 1) * HashBlockSize = (made - n) * HashBlockSize + HashBlockSize
              /\ (made - n) * HashBlockSize \in Int
          BY <1>4, Longer
        <4>5. PICK room \in Int : room = (made - n) * HashBlockSize
          BY <4>4
        <4> QED BY <1>7, <4>2, <4>3, <4>4, <4>5
      <3> QED BY <3>1, <3>2
    <2>3. PICK room \in Int, all \in Int : /\ room = (made - n + 1) * HashBlockSize
                                           /\ all = NumHashBlocks * HashBlockSize
      BY <1>4
    <2> QED BY <1>7, <2>1, <2>2, <2>3
  <1>9. Within(btPos) - Within(lzPos) <= NumBtBlocks * BtBlockSize
    <2> DEFINE one == One(pc["bt"] \in Filling["bt"])
    <2>1. one \in {0, 1} /\ made2 - m + 1 + one <= NumBtBlocks
      BY <1>5 DEF One
    <2> HIDE DEF one
    <2>2. (made2 - m + 1 + one) * BtBlockSize <= NumBtBlocks * BtBlockSize
      <3>1. made2 - m + 1 + one \in Int /\ NumBtBlocks \in Int
        BY <1>5, <2>1
      <3> QED BY <2>1, <3>1, MoreRoom
    <2>3. Within(btPos) - Within(BtEdge) <= one * BtBlockSize
      <3>1. CASE pc["bt"] \in Filling["bt"]
        <4>1. Within(btPos) - Within(BtEdge) <= BtBlockSize
          <5>1. CASE pc["bt"] = "fillLeave"
            BY <1>1, <5>1 DEF BtWrites, BtEdge, BtIn
          <5>2. CASE pc["bt"] = "fillEnter"
            BY <1>7, <5>2 DEF BtEdge, BtIn
          <5>3. CASE pc["bt"] \in Filling["bt"] \ {"fillLeave", "fillEnter"}
            <6>1. BtEdge = btPos - btNum /\ btNum <= BtBlockSize
              <7>1. pc["bt"] # "fill" => HashLive
                BY <5>3 DEF ControlInv, Starts, HashLive
              <7> QED BY <1>1, <1>2, <5>3, <7>1 DEF BtEdge, BtIn, BtWrites, BtReads, BtAsks
            <6> QED BY <1>1, <1>2, <1>7, <6>1, WithinGrows
          <5> QED BY <3>1, <5>1, <5>2, <5>3
        <4>2. one = 1
          BY <3>1 DEF one, One
        <4> QED BY <4>1, <4>2
      <3>2. CASE pc["bt"] \notin Filling["bt"]
        <4>1. BtEdge = btPos
          BY <3>2 DEF BtEdge, BtIn
        <4>2. one * BtBlockSize \in Nat
          BY <2>1
        <4> QED BY <1>7, <4>1, <4>2
      <3> QED BY <3>1, <3>2
    <2>4. Within(BtEdge) - Within(lzPos) <= (made2 - m + 1) * BtBlockSize
      <3>1. PICK j : j = m - 1
        OBVIOUS
      <3>2. j \in (BtN - 1)..Made("bt") /\ BtStart(j, Made("bt")) = lzPos
        BY <1>1, <1>3, <1>5, <3>1 DEF LzReads
      <3>3. Within(BtEdge) - Within(lzPos) <= (made2 - j) * BtBlockSize
        BY <1>3, <3>2, BtStarts
      <3>4. made2 - j = made2 - m + 1
        BY <1>5, <3>1
      <3> QED BY <3>3, <3>4
    <2>5. (made2 - m + 1 + one) * BtBlockSize = (made2 - m + 1) * BtBlockSize + one * BtBlockSize
      BY <1>5, <2>1, SMT
    <2>6. PICK room \in Int, more \in Int, all \in Int :
            /\ room = (made2 - m + 1) * BtBlockSize /\ more = one * BtBlockSize
            /\ all = NumBtBlocks * BtBlockSize
      BY <1>5, <2>1
    <2> QED BY <1>7, <2>2, <2>3, <2>4, <2>5, <2>6
  <1>10. PICK hall \in Int, ball \in Int :
           hall = NumHashBlocks * HashBlockSize /\ ball = NumBtBlocks * BtBlockSize
    OBVIOUS
  <1> QED BY <1>2, <1>6, <1>7, <1>8, <1>9, <1>10

\* No producer writes into the block that its consumer reads, and "hash" is never so far
\* ahead of "lz" that the bytes "lz" has yet to code could have left the window.
THEOREM NothingIsOverwritten == Spec => []NothingOverwritten
  <1>1. ControlInv /\ DataInv => NothingOverwritten
    <2> SUFFICES ASSUME ControlInv, DataInv PROVE NothingOverwritten
      OBVIOUS
    <2>1. ASSUME pc["hash"] = "block", btHave > 0, pc["bt"] \notin {"stopHash"} \cup Stopping
          PROVE  (sync["hash"].numProcessedBlocks - 1 - produced["hash"]) % NumHashBlocks # 0
      <3>1. HashLive
        BY <2>1 DEF ControlInv, Obj, AtRest, HashLive
      <3>2. ~BtAsks
        BY <2>1, <3>1 DEF DataInv, BtReads
      <3>3. Made("hash") = produced["hash"]
        BY <2>1 DEF Made
      <3>4. PICK d : d = HashN - 1 - Made("hash")
        OBVIOUS
      <3>5. d \in Int /\ d < 0 /\ -d < NumHashBlocks
        BY <2>1, <3>1, <3>2, <3>4, HashWindow DEF One, BtAsks
      <3>6. d % NumHashBlocks # 0
        BY <3>5, NotAMultiple
      <3> QED BY <3>3, <3>4, <3>6 DEF HashN
    <2>2. ASSUME pc["bt"] \in {"fill", "fillLeave", "take", "getFilled"}, pc["lz"] = "use",
                 ~sync["bt"].needStart
          PROVE  (sync["bt"].numProcessedBlocks - 1 - produced["bt"]) % NumBtBlocks # 0
      <3>1. BtLive
        BY <2>2 DEF BtLive
      <3>2. Made("bt") = produced["bt"]
        BY <2>2 DEF Made
      <3>3. PICK d : d = BtN - 1 - Made("bt")
        OBVIOUS
      <3>4. d \in Int /\ d < 0 /\ -d < NumBtBlocks
        BY <2>2, <3>1, <3>3, BtWindow DEF One
      <3>5. d % NumBtBlocks # 0
        BY <3>4, NotAMultiple
      <3> QED BY <3>2, <3>3, <3>5 DEF BtN
    <2>3. ASSUME pc["lz"] \in {"use", "take", "getFree", "getFilled", "getEnter"}
          PROVE  hashPos - lzPos <=
                   NumHashBlocks * HashBlockSize + NumBtBlocks * BtBlockSize + NumHashBytes - 1
      <3>1. PICK hall \in Nat, ball \in Nat :
              hall = NumHashBlocks * HashBlockSize /\ ball = NumBtBlocks * BtBlockSize
        OBVIOUS
      <3>2. CASE sync["hash"].needStart
        <4>1. IsFresh
          <5>1. CASE sync["bt"].needStart
            BY <2>3, <3>2, <5>1 DEF ControlInv, Starts, IsFresh
          <5>2. CASE ~sync["bt"].needStart
            <6>1. Events("bt") /\ pc["bt"] \in Places["bt"] /\ Starts
              BY <5>2 DEF ControlInv, CtlType, Obj
            <6> QED BY <2>3, <3>2, <6>1 DEF Events, HasEnded, Starts, IsFresh, DataInv,
                                            BtWrites
          <5> QED BY <5>1, <5>2
        <4>2. hashPos = 0 /\ lzPos = 0
          BY <4>1 DEF DataInv, Fresh
        <4> QED BY <3>1, <4>2
      <3>3. CASE ~sync["hash"].needStart
        <4>1. ~sync["bt"].needStart
          BY <2>3, <3>3 DEF ControlInv, Obj, AtRest, Starts
        <4>2. HashLive /\ BtLive
          BY <2>3, <3>3, <4>1 DEF ControlInv, Obj, Events, HasEnded, HashLive, BtLive
        <4> QED BY <4>2, HashIsNotFarAhead
      <3> QED BY <3>2, <3>3
    <2> QED BY <2>1, <2>2, <2>3 DEF NothingOverwritten
  <1> QED BY <1>1, SpecData, PTL
=============================================================================
