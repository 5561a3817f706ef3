# Formal models of p7zip-hybrid

p7zip is the POSIX port of the archiver 7-Zip 9.20; this repository is a modified copy. The
specifications here are about the parts of it that are hardest to get right and to test: the
threads, the streams that stand between threads, coders and files, and the operations of the
program on files that must survive a crash. They are written in
TLA+, checked on small instances with TLC and, where the table of theorems says so, proved for
all instances with TLAPS. Paths are relative to `src/p7zip/`.

## 1. Inventory

### The parts with a life of their own

| part | state | operations | interacts with |
|---|---|---|---|
| synchronization objects, `C/Threads.c` | a counter or flag, a mutex and a condition variable per object | set, reset, release, wait | everything below |
| wait for several objects, `CPP/Windows/Synchronization.cpp`, `Synchronization2.h` | flags and counters; one mutex and condition variable per `CSynchro` | the same, and `WaitForMultipleObjects` | stream binder, zip update |
| stream binder, `CPP/7zip/Common/StreamBinder.cpp` | pointer into the writer's memory, `_bufferSize`, three events | `Write`, `Read`, close of either end, `ReInit` | two coder threads |
| coder mixer, `CPP/7zip/Archive/Common/CoderMixer2MT.cpp`, `CPP/7zip/Common/VirtThread.cpp` | a thread, two events and a result per coder; a binder per bound stream | `ReInit`, `Init`, `Code`, destructor | codecs, binders |
| block threads of LZMA2, `C/MtCoder.c` | per thread four events and three flags; the first error | `MtCoder_Code`, `MtCoder_Destruct` | `C/Lzma2Enc.c`, streams, progress |
| match finder, `C/LzFindMt.c` | two rings of blocks, each with a `CMtSync`: two semaphores, three events, a mutex | `Create`, `Init`, `GetNextBlock`, `ReleaseStream`, `Destruct` | `C/LzmaEnc.c` |
| BZip2 encoder, `CPP/7zip/Compress/BZip2Encoder.cpp` | ring of threads with `CanWriteEvent`, a gate, two end-of-stream handshakes | `Code`, `Free` | streams, progress |
| cached stream of zip, `CPP/7zip/Archive/Zip/ZipUpdate.cpp` | a ring of cached bytes and six positions and sizes | `Write`, `Seek`, `SetSize`, destructor | zip writer, archive file |
| multithreaded zip update, `ZipUpdate.cpp`, `CPP/7zip/Common/OutMemStream.cpp`, `MemBlocks.cpp` | list of working threads, kept files, a pool of blocks with its semaphore, events per thread | `Update2`, the threads, the destructor of `CThreads` | user callbacks, codecs, archive |
| BZip2 decoder, `CPP/7zip/Compress/BZip2Decoder.cpp` | ring of threads with `CanWriteEvent`, a gate, two end flags, two results | `CodeReal`, `Free` | streams, progress |
| update of archives, `CPP/7zip/UI/Common/Update.cpp`, `UpdateProduce.cpp`, `UpdatePair.cpp`, `TempFiles.cpp`, `CPP/Windows/FileDir.cpp` | files on disk, the list of temporary files, warnings | the commands a, u, d | file system, handlers, the next run |
| volumes of an archive, `COutMultiVolStream` in `Update.cpp` | the volumes with position and real size each, one position | `Write`, `Seek`, `SetSize`, `Close` | archive handlers, files |
| extraction from 7z, `CPP/7zip/Archive/7z/7zExtract.cpp`, `7zFolderOutStream.cpp`, `CPP/7zip/UI/Common/ArchiveExtractCallback.cpp` | the open file and folder, the overwrite mode, files on disk | `Extract`, `Write`, `GetStream`, `SetOperationResult` | decoders, the user, file system |
| progress of several threads, `CPP/7zip/Common/ProgressMt.cpp` | totals under a lock | `SetRatioInfo`, `Reinit` | all coder threads |
| 7z update, `CPP/7zip/Archive/7z/7zUpdate.cpp` | a decoder thread behind a binder, the statuses of the files of a folder, the new database | `Update`, `CThreadDecoder`, `CFolderOutStream2::Write` | mixer, binder |

What makes them correct, and what is hard about it:

* Synchronization objects: no lost wakeup, an auto-reset event or a unit of a semaphore ends one
  wait only, the first signalled handle of a list wins. Every interleaving of lock, test, sleep
  and broadcast counts.
* Binder: bytes arrive in order and once, `Read` copies only while the memory belongs to a
  `Write` that has not returned, an early close of either end releases the other.
* Mixer: results are final when they are read, a coder that stops early releases its
  neighbours, the cause of a failure is not hidden by its consequences, nothing is left
  signalled for the next file.
* MtCoder, BZip2 encoder and decoder: blocks are coded in any order and written in order; after
  a failure anywhere every thread gets back to its start and the call returns, with the result
  that one thread alone would have had.
* LzFindMt: permits are conserved over start, stop and abandoned files; the window is moved only
  while nobody uses it; three threads, two mutexes and four semaphores never stop each other.
* Update: at every moment a complete copy of the old or of the new archive exists, whatever is
  killed or fails; files of others, leftovers of a killed run among them, are left alone; exit
  code 0 means that the archive is what the command asks for.
* Volumes: put together they are a plain file, over writes, gaps and truncations at borders.
* Extraction: each file gets its own part of the folder and one report, however the decoder cuts
  its output, and a file with a CRC is reported good only if its contents are right;
  no file of the user is lost without consent.
* 7z update: a folder is unpacked and packed again by two threads at once; what is wanted arrives
  complete and right or the update fails, and when either thread fails the other one ends too,
  before anything that it uses is freed.
* Zip: one writer of the archive at a time, in its turn; a bounded pool that never stops
  everybody; positions of the cached stream that always agree.

### The rest

Parsers and writers of some forty archive formats, codecs and filters, cryptography, stream
adapters, the operations and front ends of the user interfaces, strings and containers, the
emulation of the Windows file API, a vendored detector of encodings and the build files.
`PROJECT.json` lists each with the reason why it is not modelled; most are sequential
transformations of bytes whose correctness is not about states and steps. The pure decisions
among them that can be checked over bounded inputs are in the plan (section 7).

## 2. The modules and the code

Lower modules are assumed by the ones above them: `Threads` and `MultiWait` show that events and
semaphores are atomic objects (`WaitObjects`), and every other module uses them as such, an event
being a Boolean and a semaphore a number in one step. `StreamBinder` shows that a binder is a
rendezvous pipe (`Pipe`), and `CoderMixer2MT` uses pipes, with the number of bytes in flight
reduced to whether there are any.

| module | code | specifies |
|---|---|---|
| `SyncObjects` | constants and helpers common to the next three | helper |
| `WaitObjects` | the Win32 semantics that callers rely on | abstract |
| `Threads` | `C/Threads.c` without `DEBUG_SYNCHRO` | implements `WaitObjects` |
| `MultiWait` | `WaitForMultipleObjects` and the objects with a shared `CSynchro` | implements `WaitObjects` |
| `Pipe` | what two coders rely on | abstract |
| `StreamBinder` | `StreamBinder.cpp` | implements `Pipe` |
| `CoderMixer2MT` | `CoderMixer2MT.cpp`, `VirtThread.cpp` | |
| `FolderRepack` | the folders that `7zUpdate.cpp` takes over, `CThreadDecoder`, `CFolderOutStream2`; uses `Pipe` | |
| `BlockCoder` | what `Lzma2Enc.c` relies on: blocks in order, the first error | abstract |
| `MtCoder` | `C/MtCoder.c` | implements `BlockCoder` |
| `LzFindMt` | `C/LzFindMt.c` | |
| `BZip2Ring` | what encoder and decoder have in common: the ring of turns | helper |
| `BZip2EncoderMt` | `BZip2Encoder.cpp`, multithreaded part | |
| `BZip2DecoderMt` | `BZip2Decoder.cpp`, multithreaded part, with the loop for one thread as reference | |
| `OutFile` | what users of an `IOutStream` rely on: a file with a position | abstract |
| `OutStreams` | constants and assumptions common to the two output streams | helper |
| `CacheOutStream` | `CCacheOutStream` | implements `OutFile` |
| `OutMultiVolStream` | `COutMultiVolStream` of `Update.cpp` | implements `OutFile` |
| `UpdateArchive` | `UpdateArchive` of `Update.cpp` and what it calls, several runs of the program | |
| `Extract` | extraction from a 7z archive, `CFolderOutStream`, `CArchiveExtractCallback` | |
| `ZipItems` | constants and assumptions of the zip update | helper |
| `ZipUpdateMt` | `Update2`, `CThreadInfo`, `COutMemStream`, `CMemBlockManagerMt` | |
| `BinderSizes` | constants and assumptions of `StreamBinder` | helper |
| `OldFolders` | constants and assumptions of `FolderRepack` | helper |
| `ToExtract` | constants and assumptions of `Extract` | helper |
| `MCArchives` | `ZipUpdateMt`, `StreamBinder`, `FolderRepack` as parts of one run | |
| `MCOperations` | `UpdateArchive`, `Extract`, `CacheOutStream`, `OutMultiVolStream` as parts of one run | |
| `SyncObjectsProofs` | of `Threads`, `MultiWait` | proofs |
| `ArchivesProofs` | of `StreamBinder`, `ZipUpdateMt`, `FolderRepack`, and of the run `archives` | proofs |
| `CoderMixer2MTProofs`, `MtCoderProofs`, `LzFindMtProofs`, `UpdateArchiveProofs` | of the modules they are named after | proofs |
| `BZip2Proofs` | of `BZip2EncoderMt`, `BZip2DecoderMt`, and of the run `bzip2` | proofs |
| `OperationsProofs` | of `CacheOutStream`, `OutMultiVolStream`, `Extract`, and of the run `operations` | proofs |

How a model corresponds to its code:

* **Threads, MultiWait.** `pc` is where a thread is in its call: before the lock, in the body
  under the lock, about to sleep, asleep in `pthread_cond_wait`, before the unlock. `Body` has
  the assignments of each function; a broadcast wakes all sleepers of the object (of the
  `CSynchro`), and spurious wakeups are possible. Counts are `UInt32` and `LONG` sums.
* **StreamBinder.** A byte is its number; `buffer` points into the writer's memory by number.
  Each statement of `Read` and `Write` that touches shared state is a step of its own.
* **CoderMixer2MT.** `at[c]` is where the thread of coder `c` is, `main` and `next` where the
  caller is in `Code` and in which round of a loop. A codec reads and writes its streams in any
  order and may return anything at any time. Thread creation may fail.
* **FolderRepack.** `main` follows `Update` through the loop over `folderRefs` and the unwinding of
  each early return, `at` follows `CoderThread` and `CThreadDecoder::Execute`. The decoder gives
  its output in pieces of any size, right or wrong, and may end at any moment; the encoder may fail
  between two reads. `ReadStatuses` has the steps that read `extractStatuses`, and `Freed` says what
  reading them does after they were freed.
* **MtCoder.** `pc[t]` follows `ThreadFunc` and `MtThread_Process`; `call.i` is the loop index of
  the caller. The error paths, flags and events are those of the code, in its order.
* **LzFindMt.** A block is the range of positions it describes; one step per statement on a
  semaphore, event or mutex, between which the local work of a thread is one step.
* **BZip2EncoderMt.** A block is its number; the critical section, the ring of `CanWriteEvent`
  and the handshake at the gate are as in the code.
* **BZip2DecoderMt.** A file is a number of blocks, the first bad one, and how it ends.
  `ThreadFunc` is followed from lock to lock; `Alone` is what the
  loop for one thread returns and writes for the same file.
* **UpdateArchive.** An archive is a function from names to data, a file is missing, partial or
  whole. `pc` follows `UpdateArchive` from opening to the clean-up of `~CTempFiles`; a step is a
  system call or the work on one item. `Killed` may happen at every step and loses all but
  `files`; `Start` runs the program again on what is there. The manual's table of states and
  actions (`Manual`) is the reference for what `UpdatePairs` and `Produce` compute.
* **OutMultiVolStream.** `vols` are the open volumes with the fields of `CSubStreamInfo`; a round
  of the loop of `Write` is a step. `skipped` is a history variable: the places of gaps.
* **Extract.** `efis` is `extractFolderInfoVector`, `cur` is `_currentIndex`, and `pc` follows
  `Extract`, `Write`, `ProcessEmptyFiles` and `FlushCorrupted`. The decoder writes pieces of any
  size, right or wrong, and may end at any moment. `GetStream` has the answers of the user. An item
  may lack a CRC (`crcDefined`), and `-mcrc=0` turns the test of all of them off (`checkCrc`): then
  `CrcResult` says `"ok"` whatever the item got (`7zFolderOutStream.cpp:69`), and `IsGood`
  promises that the bytes are those of the item's own places, each as the decoder gave it. An empty
  item has no stream and no CRC (`7zIn.cpp:1059`), and a CRC that is stored is that of the right contents.
* **CacheOutStream.** The fields have the names of the code. A round of a loop is a step;
  `filePos` is the position of the file below, which `_phyPos` is meant to mirror, so that a
  `Seek` that is missing or left out after a failure shows.
* **ZipUpdateMt.** `th[t]` has the fields of `CThreadInfo` and of its `COutMemStream`; a piece of
  data fills a block, and is tagged with its file and attempt so that mixed data show. `Return`
  leads through `~CThreads`, as every early return of the code does.

Abstractions that matter to a reader: payloads are numbers or tags; the contents of compressed
blocks, wording and progress values are left out; `ASSUME`s state what callers guarantee
(`SyncAssumption`, `HandlesAssumption`: releases do not overflow a counter, and lists of handles
hold known objects; `BinderAssumption`, `OutStreamAssumption`, `UpdateAssumption`: sizes and
bounds; `BZip2Assumption`, `MixerAssumption`, `MtCoderAssumption`, `LzFindMtAssumption`,
`ZipAssumption`, `RepackAssumption`, `ExtractAssumption`: numbers of threads and blocks, and the
shapes of old archives).

## 3. The runs

Components that do not interact share a run where the cost of a run of their own would not
show more: `part` (or `codec`) says which of them a behaviour is about, and the others stay in
their initial states. Each module's type invariant is checked as a conjunct of one of its safety
invariants, or proved.

Every property of a passing run has a mutant: a plausible slip in one definition that makes TLC
report the property violated under the same configuration. Slips are marked as such in the
modules and stand before the definition that they would replace.

| run | instance | what it shows |
|---|---|---|
| `synchro` | 3 threads, one object of each kind; `MultiWait` with the list of `COutMemStream::Write`, and `Threads` | `NoLostWakeup`; `ImplementsWaitObjects` and `ThreadsImplementWaitObjects`; `BothWaitsReturn`: a wait on objects that stay signalled returns |
| `archives` | binder: writes of 1..4, reads of 1..3 bytes, 12 bytes a file, any number of files; zip: 3 threads, 5 items, 3 blocks, all failures but one (below); 7z: an old archive of one folder of five files, and one of four folders, all failures | `BufferIsValid`, `ImplementsPipe`, `CallsReturn` for the binder; `WriterHasTheTurn`, `NoBlockLost` for zip; `UpdatesAreComplete`, `UpdatesReturn` for zip and 7z |
| `repack_abandoned` | the same, reading freed memory may crash | **violated**: see section 6 |
| `cacheout_release` | cached stream as in `operations`, the file below failing in the destructor | **violated** |
| `mixer` | 3 coders, as a chain and as a join (BCJ2), three results of their own | `ResultsAreFinal`, `NothingLeftBehind`, `SuccessLosesNothing`, `CauseIsReported`, `CallsReturn` |
| `mtcoder` | 2 or 3 threads, up to 3 blocks, all failures, any number of calls | `StreamsHaveOneUser`, `CauseIsReported`, `EventsAreUnused`, `ImplementsBlockCoder`, `CallsReturn` |
| `bzip2` | 3 threads, 0..4 blocks, for the encoder and for the decoder, failing input and progress in the encoder, damaged files in the decoder | `BothWriteInOrder`, `ResultIsRight` (the decoder returns and writes what one thread would), `BothAreParked`, `CallsReturn` |
| `bzip2enc_write` | 2 threads, a failing output | **violated** |
| `lzfindmt` | rings of 2 and 1 blocks of 2 and 1 positions, files of 0..7 bytes | `StoppedMeansReset`, `BlocksInOrder`, `NothingOverwritten`, `MoveIsAlone`, `CallsReturn` |
| `zip_locked` | 2 threads, a file that cannot be opened | **violated** |
| `operations` | update: 2 names, 2 runs of the program, 2 temporary names, killed and failing anywhere; extraction: 4 archives of 3 items with and without CRCs, `file_1`..`file_3`; cached stream: ring of 2 blocks of 2 bytes; volumes of 2, 3, 3, ... bytes; files of up to 6 bytes, the file below failing in any call | `CopiesSurvive`, `FailureChangesNothing`, `SuccessMatchesManual`, `OnlyOwnFiles`; `NothingLostUnasked`, `EachItemReportedOnce`, `SuccessIsExtracted`; `FieldsAgree`, `ImplementsOutFile` for the cached stream; `VolumesImplementOutFile` |
| `update_short` | update: 1 name, 1 run, `write` may write less than asked | **violated** |

Why the bounds are enough for the cases that matter:

* Three threads are the least with two waiters and a waker, or two neighbours of a failing
  thread of which one waits to read and one to write. Two threads of a ring are both neighbours
  of each other; `mtcoder` has both sizes, and calls follow each other without a bound, so that
  state left by one call meets the next.
* The binder's sizes let a write be delivered by several reads and a read be shorter than what
  is there; the theorems hold for all sizes.
* `lzfindmt`: the file is longer than both rings together (2*2 + 1*1 = 5 < 7), so each producer
  wraps and blocks on a full ring; the last bytes are fewer than `NumHashBytes`; a file may be
  given up at every moment.
* `operations`, cached stream: the file (6) is longer than the ring (4) by a block, so the ring
  wraps, fills, is flushed by blocks at positions inside and at the ends of blocks; seeks go to
  the start, inside a block, across the ring and near the end (`Places`). Bytes are 0 or 1, and
  writes store ones: a zero is a byte of a gap, a one in a gap is stale.
* `operations`, volumes: 2 + 3 + 3 bytes hold the file of 6 with borders at 2 and 5; a write of 3
  crosses one border anywhere and two volumes from 1; a seek to 5 from an empty file leaves a gap
  that spans two whole volumes; sizes that lie on a border and inside a volume are set.
* `synchro`: a semaphore of 1 is full after one release, so that a second one is refused; three
  threads are enough for two waiters of the same object and one that signals it.
* `bzip2`: four blocks are one more than there are threads, so that a thread gets a second turn
  while others still hold the first; damage may lie in every block or at the end of the file. The failures
  of reading, writing and progress in the decoder (`Failure` of `BZip2DecoderMt`) lead through the
  same steps as a bad block or a bad end and are left out of the run.
* `operations`, update: two runs are enough for what a killed run leaves to meet the next one; two
  names have one that is in the archive, on disk or both, in all states of the manual's table;
  both temporary names may be taken. The disk of the second run is one (`LaterInputs`), on
  which one name is newer and the other has gone, as what matters there is the state of the files. Commands are add, update, delete, synchronize and
  the differential update of the manual, alone and together.
* `operations`, extraction: the archives have empty items at the start, in the middle and between
  two wanted ones, two items of the same path in one folder and in two, an anti-item, and items
  without a CRC before and behind one that has it; CRCs are tested or not; the disk
  has no file, has the path taken, or the path and the number `_2`, so that the binary search meets
  numbers that are not consecutive (`_1` is taken by the first of two items of one path).
* `archives`, zip: three pieces in one file, two of two pieces that shrink to one at the second attempt,
  and a pool of three blocks, so that three threads can hold all blocks and all need another.
* `archives`, 7z: wanted files at the end and in the middle of a folder, files that go before,
  between and after them, empty files at the start and between; pieces of the decoder that end
  inside, at the end of and beyond a file, up to a byte more than there should be; a folder that is
  copied between folders that are unpacked by the same thread. The pipe passes two bytes at a time.
  Every file of the old archive has a CRC: the bytes of one that has none are not looked at
  (`7zUpdate.cpp:553`), and what the update makes of wrong ones is not modelled.

`CacheOutStream` and `ZipUpdateMt` say with the constant `MayFail` what may fail. The `archives` run
leaves out `"detached"`: the code ignores the result of writing a kept file (`ZipUpdate.cpp:748`),
and with `"detached"` `UpdatesAreComplete` fails. It takes a write error that does not occur
again before the end, so it is listed as a hazard, which no property of the run covers. The constant `Reentrant` says whether a thread
may enter a critical section twice. The `archives` run sets it, to follow what `Update2` does after
skipping a file; it has no other effect. `zip_locked` has the mutex of `C/Threads.c`. `Freed` is
`{"old"}` in `archives`: the freed statuses still hold their values, which is the outcome that
lets the update go on; `repack_abandoned` adds the crash.

The `operations` run has `ShortWrites = FALSE`; with short writes, `SuccessMatchesManual` fails
(`update_short`).

`CHECK_DEADLOCK FALSE` is used in `bzip2enc_write` and `zip_locked`, where the program really
stops, and in `operations` and `update_short`, where an extraction or the last run has ended.

## 4. Fairness

* Threads are scheduled preemptively, so a step that stays possible is taken: weak fairness for
  each thread, and for the caller.
* A pthread mutex that is released again and again is in the end granted: strong fairness for
  `Lock` and `Enter`, which only `synchro` needs.
* A coder in the end returns or releases its stream, however its reads and writes alternate:
  strong fairness of `CloseWrite`, `CloseRead` and `CoderReturns`. Nothing obliges it to go on
  reading or writing.
* Nothing is assumed about failures: no thread has to fail, and in `ZipUpdateMt` `CompressFails`
  is outside the fairness condition, so that a blocked thread is not freed by failing.

## 5. What is proved

The theorems hold for every value of the constants that satisfies the named assumption.

| theorem | module | assumption |
|---|---|---|
| `ThreadsTypeCorrect`, `ThreadsMutualExclusion`, `ThreadsNoWakeupIsLost`, `ThreadsRefinesWaitObjects` | `SyncObjectsProofs` | `SyncAssumption` |
| `TypeCorrect`, `MutualExclusion`, `NoWakeupIsLost`, `MultiWaitRefinesWaitObjects`, `ThreadsAreAtomic` | `SyncObjectsProofs` | `SyncAssumption`, `HandlesAssumption` |
| `BinderTypeCorrect`, `BufferIsAlwaysValid`, `EmptyAlwaysMeansFinished`, `BinderRefinesPipe`, `MemoryIsAlwaysValid`, `BinderIsAPipe` | `ArchivesProofs` | `BinderAssumption` |
| `MixerInvariant`, `FinalResults`, `NothingIsLeft`, `SuccessIsComplete`, `TheCauseIsReported` | `CoderMixer2MTProofs` | `MixerAssumption` |
| `MtInvariant`, `OneUserPerStream`, `TheCauseIsReported`, `NoEventIsInUse`, `CoderRefinesBlockCoder` | `MtCoderProofs` | `MtCoderAssumption` |
| `ZipInvariant`, `OneWriter`, `EverythingIsStored`, `PoolIsComplete` | `ArchivesProofs` | `ZipAssumption`; for `EverythingIsStored`, `"detached" \notin MayFail` |
| `EveryFolderIsRight` | `ArchivesProofs` | `RepackAssumption`, `BinderAssumption`; in the model every old file has a CRC |
| `EveryUpdateIsComplete` | `ArchivesProofs` | `ZipAssumption`, `RepackAssumption`, `BinderAssumption`, `"detached" \notin MayFail`; every old file has a CRC |
| `TouchesOnlyOwnFiles`, `TempIsKept`, `ACopySurvives`, `FailureIsHarmless`, `SuccessIsWhatTheManualSays` | `UpdateArchiveProofs` | `UpdateAssumption` |
| `RingsAreReset`, `NobodyReadsDuringAMove`, `BlocksAreInOrder`, `NothingIsOverwritten` | `LzFindMtProofs` | `LzFindMtAssumption` |
| `EncoderCorrect`, `DecoderCorrect`, `OrderOfTheFile`, `RightResult`, `ParkedBetweenCalls` | `BZip2Proofs` | `BZip2Assumption` |
| `CacheFieldsAgree`, `CacheRefinesOutFile`, `CachedStreamIsAFile` | `OperationsProofs` | `OutStreamAssumption`; for the last two, `"release" \notin MayFail` |
| `VolumesAreAFile`, `StreamFieldsAgree` | `OperationsProofs` | `OutStreamAssumption` |
| `NoFileIsLostUnasked`, `ItemsAreReportedOnce`, `SuccessMeansExtracted` | `OperationsProofs` | `ExtractAssumption` |

The arguments:

* **No lost wakeup.** `NoLostWakeup` alone is not inductive: a thread that has found its object
  unsignalled could be overtaken before it sleeps. `MutexOwner` (a thread between lock and unlock
  owns the mutex, and nobody else does) forbids that, and `TypeOK`, `MutexOwner` and
  `NoLostWakeup` together are preserved by every step. `TypeOK` needs that a release does not
  wrap the counter, which is what the assumption on `MaxCount` and `MaxRelease` is for.
* **Atomic objects.** Under the refinement mapping a call takes effect in `Body`; locking,
  sleeping, waking and unlocking are stutters (`Stutter`). The wait for several handles returns
  the first signalled one (`WaitEnds`). The same `WaitObjects` serves both, with lists of length
  one for `Threads`.
* **Binder.** `BinderInv` is the inductive invariant: `Phase` lists, for each place of the writer,
  where the reader can be and what events and buffer then hold; once the reader has closed its
  end, `Abandoned` takes its place. It implies `BufferIsValid` and the comment of
  `StreamBinder.cpp:52` (`EmptyMeansFinished`), and supplies what each returning `Read` and `Write`
  needs to be a step of `Pipe`.
* **Mixer.** `MixerInv` says in its `Phase`, for each place of `CCoderMixer2MT::Code`, what has been
  done for the coders before the index of the loop and what is still to be done for the others: a
  coder is `Parked`, then `Started` (about to start, `AtWork`, or ready with `FinishedEvent` set),
  then `Finished`. `AtWork` carries the fact about the data: a coder that runs or has ended in
  success has no undelivered `Write`. Nobody but the writer starts a `Write` and a closed end stays
  closed (`Framed`), so a step of one coder keeps what is known of the others; the four invariants of
  the run follow. That the result chosen is the first hard one needs that a set of coders has a
  least member (`FirstInSet`).
* **MtCoder.** The events go round in a ring, and after an error each of them may be set twice, so
  counting them proves nothing: in the error branch a thread sets `canRead` of the next one whether
  or not it had the turn. What is unique (`ReadTurn`) is a turn that is worth something: the event of a
  thread that is not told to stop (`MayRead`) or a thread on its way through the critical section
  (`HasRead`). `StopFlags` is why: only the thread before sets the flag of a thread, when it has
  left the loop, so that a `canRead` set in the error branch goes to a thread that stops; the
  same holds of `canWrite` and `stopWriting` (`WriteTurn`). `Phase` says where the threads are while the caller is
  between two statements, `Errors` in which order the results are recorded.
* **MtCoder as a coder of blocks.** That the block written next is the next one (`BlockCoder`) needs
  where the numbers of the blocks are, `OrderInv`. What is read and not written is with the threads,
  each block with one (`Blocks`), and consecutive blocks are with consecutive threads (`Chain`), unless
  the next thread has failed with its block or has yet to read it. The turn to read is with the
  thread after that of the last block (`ReadsNext`), the turn to write with the thread of block
  `written + 1`, with the one that will read it, or with one that has failed and writes no more
  (`WritesNext`). That success means all blocks needs the converse as well: only an error stops a
  thread before the input ends (`Causes`), and until all is written somebody has the turn to write or
  fails (`GoesOn`). So when the last thread has been waited for without an error, the turn is with
  a thread that has stopped because everything was read, and everything read has been written. `Causes` is
  also why the first error is never the `FAIL` of a thread that was told to stop.
* **Zip update.** `WorkIsInOrder` is what makes `threadIndices[0]` the right thread for
  `SetRealStreamMode`: the list has exactly the threads that are not free, sorted by their files, and
  every file between the two indices of `Update2` is with one of them, kept in `refs` or skipped.
  So, when `Update2` waits for the file of `itemIndex`, that file is with the first of the list
  (`FrontHasTheTurn`), and when a free thread is looked for, there is one (`OneIsFree`, by
  cardinality). `ThreadsAgree` says when a thread can still write: a free or completed one cannot, so
  that `itemIndex` moves on only when nobody writes to the archive.
* **Data of a zip update.** `EverythingIsStored` (`UpdatesAreComplete` in the `archives` run) needs to
  follow the data of a file through the four places where they can be. `RecordIsRight`: what a thread has
  of its present attempt is in its blocks up to `TotalSize`, or behind the last item of the archive if
  it was told to write there (`Stored`); nothing of an earlier attempt is left, because
  `StartAttempt` truncates either of them, and a thread that is done is done with its last attempt.
  Since files are distinct (`WorkersHaveFiles`) and only the one of `itemIndex` is written directly,
  there is nothing behind the last item when no such thread exists, so that what comes from
  blocks starts a fresh item (`ThreadsAreRight`). `KeptIsRight` is about the data in `refs`, and
  `ArchiveIsRight` says that the archive has the items before `itemIndex` except the skipped ones. The
  hypothesis leaves out the one failure the code overlooks (`ZipUpdate.cpp:748`); every other failure of
  `MayFail` is allowed.
* **Blocks of a zip update.** `PoolIsComplete` (`NoBlockLost`) adds up the blocks of all threads and
  of all kept files. The sums are tables over finite sets, a function from the subsets of a set,
  and `BlockInv` says that permits, blocks of threads and blocks of `refs` are `PoolBlocks`
  together. Each step moves blocks between two of these places and leaves the rest alone; what is
  needed for `Detach` is that a kept file has no more blocks than its pieces fill (`TotalFits`).
* **Folders of a 7z update.** `RepackInv` holds until the first error: the new database has the
  `rep - 1` folders before the present one, each right. What is known of the two threads depends on
  whether `Update` encodes, waits or unwinds; the byte that the reader received as number `k` is
  number `k` of what was passed; while a file is open and right so far, the bytes sent are the wanted
  bytes of the files before it and those passed of its own. Empty files that are passed over change
  no sum. A wrong CRC leads to an error of the thread, which `Update` sees before it takes over the
  folder. That nothing is left in the binder when the thread is not in a `Write` makes what the
  encoder read the whole folder. The pipe is the abstract one, which `BinderRefinesPipe` justifies.
* **Files of an update.** `OwnInv`: the temporary archive exists only between `OpenTemp` and its
  deletion or its move over the archive, and the places in between only touch that one, the output
  and, once the output is complete, the files to delete.
* **Contents of an update.** `KeptInv` says what the files hold. While items are written, what is in
  the new archive and what `plan` still has are together what the manual's table makes of the old
  archive and the disk (`PlanOK`); the temporary archive is complete from the end of the first
  command on (`TempIsWanted`), and a copied one goes only when the copy has its contents
  (`CopyIsDone`). That `plan` is right when it is made is proved of the merge itself: `InOrder`
  yields the names of a set once and sorted (`InOrderIsSorted`), each step of the merge of two
  sorted lists takes the least name that is left (`MergedStep`), so `UpdatePairs` has one pair for
  every name, with its state (`PairsOfNames`), and `UpdateProduce` gives each its action
  (`ArrangedPlan`). `FailureIsHarmless` has no hypothesis. `ACopySurvives` and
  `SuccessIsWhatTheManualSays` are about a `copy_fd` that notices a short write
  (`~ShortWrites`; finding 4 is what happens otherwise). The latter also needs `NotTwice`: no later
  command of a command line names the archive of the first one, as `-u` with `!` could; the
  replacement would put the first archive over the other. The command lines of the runs satisfy it.
* **Match finder, synchronization.** `ControlInv` is about one `CMtSync` at a time, with the places of its
  producer and its consumer. `Events` says which flags and events go with which places; `Permits` where
  the permits of both semaphores are: each block of the ring is free, being filled, filled, or with
  the consumer, and the counts of the two sides (`Count`, `Made`) differ by exactly that. The point of
  the proof is `MtSync_StopWriting`: the consumer gives up at an unknown place, the producer may be
  waiting for a free block, and `Permits` shows that the extra permit and the drained blocks add up
  (`RingsAreReset`). `Mutexes` says who holds `cs`, from which `NobodyReadsDuringAMove` follows.
* **Match finder, data.** `DataInv` chains the blocks of a ring: block `i` begins where block `i - 1` ends,
  from the position the consumer asks for to that of the producer (`HashRing`, `BtRing`), and `BtReads`,
  `BtWrites` and `LzReads` join the chains to the local variables of the threads. `Permits` bounds
  the number of blocks between the two sides, so a slot is written only when its block was given
  back (`HashWindow`, `BtWindow`, `ModDiffers`), and the distance of "hash" from "lz" is at most
  what both rings have room for (`HashIsNotFarAhead`). Positions at the end of a file, which have no
  hash, belong to no block of heads; `Within` leaves them out of the count. A ring counts as
  filled from its start only: before that nothing of the present file has been read (`Fresh`).

* **BZip2.** `EncoderInv` and `DecoderInv` have the phases of the caller, which say at which places
  the threads can be while it starts, waits or stops them, and the ring. There is one turn, the event
  of the thread of the next block; each block that is read and not written is with a thread of its
  own, so no more than `NumThreads` of them are outstanding, and consecutive blocks are with
  consecutive threads. The event at a distance `k` from the turn therefore belongs to the block that
  is `k` after the next one. In the decoder a bad block does not stop the turn, which goes on behind
  it: the threads after it pass it on and write nothing, so the result kept is the one of the first bad
  block, as with one thread (`AsOneThread`). `EncoderInv` holds for every set of failures the
  module allows; the failing output of finding 1 breaks no safety property.
* **Cached stream.** `CacheInv` says where a byte of the file is: in the ring, if its position lies in
  the cached range, and else in the file below (`ByteAt`). A position has one slot of the ring, and
  two positions of a range no longer than the ring have two (`Placed`); so a write into the ring, a
  flush of its first block and a cut change the bytes that they are meant to change. Each step maps to a step
  of `OutFile` or to a stutter, as long as the destructor's flush does not fail (finding 2).
* **Volumes.** `VolInv`: the sizes of the volumes cut the file into places, and each byte lies in
  one of them (`VolumeExists`, `VolumeIsUnique`); the size on record of a volume is its length and no
  more than its place; `_streamIndex` and `_offsetPos` say where `_absPos` is; and where bytes of a volume
  are missing, their positions are among those left out (`Covered`). A write changes the bytes
  of one volume and, in the file put together, the same bytes (`WriteBytes`). With nothing left out each
  volume is full up to the end of the file (`VolumesAreFull`), so that the volume that `SetSize` finds by
  adding up the sizes on record is the one of the new end (`CutVolume`), and the volumes behind each
  other are the file (`JoinedFile`). `Write`, `SetSize` and `Close` map to steps of `OutFile`, the creation of a
  volume and the walk over borders to stutters. There is no hypothesis on failures.
* **Extraction.** `ControlInv`: the items of a folder are neighbours (`Entries`), and the entries made
  are the items up to the present one. `FileInv`: the stream that is open is that of the current
  item, at a path with its name. `SafeInv`: unless the mode is "overwrite", what a path held that the user did not agree to give up is in some file other
  than the one being written; unless existing files are renamed, at its own path. That the name is free
  follows from the binary search of `AutoRename`, modelled by its rounds (`Halved`), whose upper end
  is free throughout. `PlaceInv`: what has been decoded of a folder are the items before the present
  one and what the open file got, and the file has the bytes of its places; the places of items follow
  each other because an entry starts at the first item of its folder (`EntryTotals`). `ReportInv`: the
  items reported are the wanted ones before `Index`, in order, and those reported as good are good
  (`IsGood`). `StoredInv`: while there was no error, an item that was reported, and whose path
  no other wanted item has, lies good on the disk. `ExtractInv` is their conjunction.

Induction over data is done in first-order steps where it was needed (`UpdateArchiveProofs`,
`ArchivesProofs`, `OperationsProofs`): induction over the numbers with a set in place of the
predicate (`NatInd`), and the existence of a recursive function from its bounded versions
(`OnlyIsDefined`, `MergeIsDefined`, `Recursion`, `SumExists`).

Only model-checked: liveness (`CallsReturn`, `UpdatesReturn`, `BothWaitsReturn`; temporal reasoning
with fairness is out of reach of the prover) and the counterexamples of section 6. Every other property
of the passing runs is stated by a theorem, for the specification that the run checks or for the
module itself. The type invariants of `Threads`, `MultiWait` and `StreamBinder` are proved and
therefore not repeated in their runs. The theorems take the assumptions for
granted; that no caller lets a counter overflow, for instance (`SyncAssumption`), is not shown.

## 6. Findings

1. `bzip2enc_write`: when the output of the BZip2 encoder fails, the exception leaves
   `EncodeBlock3` before the turn to write is passed on (`BZip2Encoder.cpp:689`). A thread that
   waits for its turn waits for ever, and so does the caller.
2. `cacheout_release`: `~CCacheOutStream` ignores the result of the last flush
   (`ZipUpdate.cpp:898`). A disk that is full at that moment yields an incomplete archive and
   exit code 0; up to 4 MB of the archive, all of a small one, are written only there.
3. `zip_locked`: a file that cannot be opened during a multithreaded zip update makes `Update2`
   lock a mutex that it holds (`ZipUpdate.cpp:676`); `C/Threads.c:563-566` creates a mutex that is
   not recursive. POSIX leaves the behaviour of a default mutex open here; it hangs with the
   common implementations. The manual promises a warning.

4. `update_short`: when the temporary archive is copied to another device, `copy_fd`
   (`CPP/Windows/FileDir.cpp:277`) only tests that `write` took at least one byte. If it takes less
   than the block and that was the last block, the archive is truncated, the complete temporary
   file is unlinked and the exit code is 0.

5. `repack_abandoned`: when the encoder of a 7z folder fails (the disk is full, the user stops it),
   the early return (`7zUpdate.cpp:1004`) frees `extractStatuses` while the decoder thread, which
   reads it for every file (`7zUpdate.cpp:536, 558, 593`), is still at work: the streams of the
   binder, declared before it, are released after it, and the thread is joined later still. If this
   read crashes, the program ends without the exit code of `exit_codes.htm`. The model shows too
   that nothing else goes wrong: with the old values the decoder finds the binder closed and ends.

Checked and found right: the comments at `_phySize` and `_cachedPos` (`ZipUpdate.cpp:825-826`), in
`FieldsAgree`, and the one at `StreamBinder.cpp:52`, proved; the table of states and actions of the
manual (`switches/update.htm`), in `SuccessMatchesManual`.

Observed while modelling, outside of what the runs check: without `-w` the temporary archive is
made in the current directory, not in that of the old archive as `switches/working_dir.htm:13-15`
says (`TempPrefix` stays empty); `COutMultiVolStream::SetSize` ignores failures of
`DeleteFileAlways`, does not make a file larger, and leaves `_length` at the remainder, which only
a later seek from the end would read (the callers do that at the start only).

## 7. Not modelled

* Inside the modelled parts: `stdin`, `stdout`, SFX modules and e-mail of an update; the walk over
  directories and the opening of archives; directories, attributes, times, split files, several
  archives, and in 7z archives folders without streams and streams of size 0, in an extraction; files
  without a CRC in the old archive of a 7z update; archives with several items of one name in an update; a loss of power
  (the program calls no `fsync`: after a loss of power nothing could be promised); the totals of
  `CMtProgress`; match lists, hash tables and their normalisation; the coding of blocks.
* The header that `SetFileHeader` writes after a file was compressed again (`ZipUpdate.cpp:784`)
  and the normalisation of positions by the three threads of `LzFindMt.c:189`: both are hazards
  that depend on data the models abstract from.
* Builds for BeOS and with `DEBUG_SYNCHRO`; the Windows branches of shared files.
* Parsers of archive formats, codecs, filters and cryptography: sequential transformations of
  bytes. A model could only repeat them on tiny inputs.
* Dialogs, command lines, messages; the detector of encodings, which is third-party code.

## 8. Plan

Done, in this order: synchronization objects, several objects, binder and pipe, mixer, MtCoder,
match finder, BZip2 encoder, cached stream, zip update, BZip2 decoder, volumes, update of archives,
extraction, the folders of a 7z update.

To come, models: `ProgressMt` with `CMtProgressMixer2`; adapters as implementations of an abstract
stream (`COutBuffer`, `CFilterCoder`, `CInOutTempBuffer`, `CMultiStream`); `CBindInfo` and its
reversal; normalisation in `LzFind.c`.

Proofs: what is left is liveness, which needs a prover with temporal reasoning under fairness.
