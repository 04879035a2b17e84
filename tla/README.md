# Formal verification of the CERN Tape Archive (CTA)

TLA+ modules, TLC configurations and TLAPS proofs about the core of CTA: the
object store in which the scheduler keeps archive and retrieve requests, the
life of an archive request from the moment a front end queues it to the moment
its owner is told that the file is on tape, the threads of the sessions that
write tapes and read them, and the catalogue's record of what is on which tape.

## 1. The system

CTA stores files on tape. *Front ends* accept archive and retrieve requests and
queue them; *tape servers* run one process per drive that mounts tapes and
transfers queued files; *maintenance processes* report results to the disk
system, expand and report repack requests, and collect what dead processes left
behind. There is no server in the middle: the processes meet in an *object
store* (files or Rados objects, each with a lock) and in a relational
*catalogue*.

| Component | State it keeps | Operations | Interacts with | What is hard | What makes it correct |
|---|---|---|---|---|---|
| Object back end (`BackendVFS`, `BackendRados`) | named objects, locks | create, atomic overwrite, read, remove, lock, asynchronous update under lock | everything | lock recovery, backoff | an object is updated by one locker at a time; a dead process holds no lock |
| Agent, AgentRegister, AgentReference, BackendPopulator | ownership list of each process, register of agents (tracked or not) | add/remove (batches), insert, register, track, untrack, remove | every operation brackets its work with list updates | crash between two commits; threads that share an agent | every owned object is reachable from a list or a queue |
| ContainerAlgorithms (`Algorithms.hpp`) | - | referenceAndSwitchOwnership, ...IfNecessary, popNextBatch, ...AndSwitchStatus | queues, requests, agents | three kinds of objects change in separate commits, without a common lock | no job lost, none handed out twice |
| Archive/Retrieve/Repack queues and shards | references to requests, summaries | add, remove, trim | root entry, algorithms | stale references, summaries in step with contents | the queue references every job it owns |
| RootEntry, Helpers | addresses of queues and registers | look up, create, trim | all | look-up races trimming | one queue per pool/VID and type |
| ArchiveRequest | per copy: status, owner, retry counters; request: report decision, failed flag | addTransferFailure, addReportFailure, asyncUpdateTransferSuccessful, garbageCollect, asyncDelete | queues by owner address | copies are processed concurrently by different mounts | who reports what, retry limits, no job without an owner |
| RetrieveRequest, RepackRequest, RepackIndex | active copy, repack subrequests | select copy, fail, report, expand | catalogue, queues | re-selection of copies, partial expansion | subrequest accounting |
| GarbageCollector, AgentWatchdog, heartbeat | watched agents | trim targets, acquire, clean up | register, agents, queues | the collector dies too; lock-free snapshot | dead jobs come back, one collector per agent |
| Scheduler, OStoreDB, mounts, MemQueues | drive register, global lock, in-memory batches | queue, cancel, mount decision, next batch, set transferred/reported/failed | object store, catalogue | batches with partial failures | |
| DiskReportRunner, repack threads | - | report batches | disk system | delivery before recording | |
| Tape daemon (ProcessManager, DriveHandler, MaintenanceHandler, SignalHandler) | child process states, timeouts | fork, supervise, kill, restart | sessions by socket pair | timeouts racing answers | |
| Migration session | task queues, free blocks, pipelines, error flag, reports | inject, provide, read, write, flush, report, drain | drive, scheduler, catalogue, disk | four kinds of threads wait for each other's blocks and end marks; one error flag for all | report only after flush; one outcome per file; blocks come back; session ends |
| Recall session | jobs held, task queues, free blocks, block queues, promises, reports | fetch, reserve, inject, read, write, report, end | drive, scheduler, disk | last calls race new jobs; two sides decide who ends the session | delivered means whole; no job forgotten; session ends |
| Catalogue, rdbms | tapes, archive files, tape files, recycle log; connection pools | report, delete, restore, reclaim; transactions, retries | sessions, front ends | read in one transaction, write in the next; lost answers to commits | a row points at what is on the tape |
| Disk reporters, media changer, front ends, admin commands, statistics | - | calls to external services | | | |

`PROJECT.json` lists the components with their sources and says which are modelled.

## 2. Modules

### ObjectOwnership - who owns a job

Translated from `objectstore/Algorithms.hpp`, `ArchiveQueueAlgorithms.hpp`,
`ArchiveRequest.cpp` (asynchronous ownership updates), `Agent.cpp`,
`AgentRegister.cpp`, `AgentReference.cpp`, `BackendPopulator.cpp`,
`GarbageCollector.cpp` and the archive half of `OStoreDB.cpp`.

*State.* `owner[r][p]` is the owner field of the job of request `r` in tape pool
`p`, `type` the queue type its status implies, `refs[q]` the references in queue
`q`, `list[a]` the ownership list in the agent object of `a`, `agObj`, `agOwner`
the agent objects and their owners, `registered`, `untracked` the agent
register. Each thread has a program counter `pc` and the local variables of the
operation it is in; `held[a]` is what `popNextBatch()` returned to session `a`.
Several threads may share the agent of a process (`AgentOf`). The history variable
`forsaken` has a pair of a request and the agent or queue that may own one of its jobs
and not point to it: a thread is about to dereference, or has dereferenced, a request
that another thread of its process took again, or a switch to a queue failed after its commit
and the queue's reference was removed. The code does both (section 4, items 1 and 11),
nothing else adds to it.

*Actions.* One action per commit to the store:

* process life: `StartRegister`, `StartInsert` (`insertAndRegisterSelf`), `Crash`,
  `ExitLeavingObjects`, `ExitRemove`, `ExitUnregister` (`~BackendPopulator`,
  `removeAndUnregisterSelf`);
* `queueArchive`: `QueueArchiveReference`, `QueueArchiveInsert`, then the
  enqueueing task `BottomHalfLock`, `BottomHalfReference`, `BottomHalfCommit`
  per copy, `Dereference`; `CancelArchive`;
* `popNextBatch`: `PopReference`, `PopSwitch` per element, `PopSwitchError`,
  `PopCommit`, `Dereference`;
* what a session does with a job: `UpdateStatus` followed by
  `referenceAndSwitchOwnership` (`RequeueReference`, `RequeueSwitch`,
  `RequeueSwitchError`, which may have committed before it failed, `RequeueCommit`,
  `Dereference`), `CompleteJob`, `DeleteReported`, `ForgetGone`;
* `cleanupDeadAgent`: `GcReference`, `GcOwn`, `GcTrack`, `GcFetch`, `GcSort`, per
  queue `GcRequeueReference`, `GcSwitch`, `GcRequeueCommit`, `GcErase`, per agent
  the dead collector was cleaning `GcUntrack`, `GcHandBack`, `GcRelinquish`, then
  `GcRemove`, `GcUnregister`, `GcDone`.

A lock is held exactly in a section of the program counter (`HoldsQueue`,
`HoldsRequest`, `HoldsAgent`); a crash resets the program counter and so frees
the lock, as the back ends do.

*Abstractions.* A queue is the set of its references; a queue that does not
exist is an empty one (look-up, creation and trimming are the subject of
`QueueLookup`).
Report queues are keyed by tape VID in the code and by pool here. Death is
exact: a collector only takes agents whose process is down (`Watchdog` says when
that is true of the code). `AgentReference` operations are atomic list updates;
that they are is what the module `AgentReference` shows.

### OwnershipList and AgentReference - threads that share an agent

`OwnershipList` is the abstract specification: a thread calls, the stored list
changes by its operation at one moment, the call returns, normally or with an
exception; once a collector has claimed the agent no call changes the list.

`AgentReference` is translated from `AgentReference.cpp`
(`queueAndExecuteAction()`, `appyAction()`) and `AgentHeartbeatThread.cpp`. The
threads of a process do not write the agent object themselves: the first one
opens a queue and becomes its leader (`OpenQueue`), others append their action to
it (`JoinQueue`) and wait for a promise; the leader waits for the previous leader
(`next`, the chain of futures), closes its queue (`CloseQueue`), locks and fetches
the agent (`FetchAgent`, `FindCollected`), applies its own action and the queued
ones (`ApplyOwn`, `ApplyQueued`), commits (`Commit`; `StoreError` and
`NoSuchObject` are its exception paths, a commit that failed may have been
written), sets the promises and lets the next leader go on (`PassTurn`,
`Release`), and everybody returns (`Return`). The heartbeat thread bumps the
heartbeat by the same way; it ends the process if that throws (`ExitAfter`) or is
too slow (`SlowHeartbeat`). A collector claims the agent at any time (`Claim`)
and takes its objects (`CollectObject`, `EndCollection`).

### Watchdog - how a death is noticed

Translated from `AgentHeartbeatThread.cpp`, `AgentWatchdog.hpp` and
`GarbageCollector.cpp` (`trimGoneTargets`, `acquireTargets`, `checkHeartbeats`).
Time passes in `Tick`; `clock` is the heartbeat thread's (waiting, then updating),
`timer` the watchdog's. `Bump` stores a new counter at any moment of an update,
`Return` judges how long it took; `ReadGCData` and `Judge` are the two halves of
`checkAlive()`, with heartbeats in between. The counter itself is abstracted to
`fresh`: whether it differs from the remembered one. The history variables `silence` and
`longest` measure how long the stored counter has stood still, now and at most.

### ArchiveJobs - what happens to the copies of a request

Translated from `ArchiveRequest.cpp`, the archive job and mount methods of
`OStoreDB.cpp`, `ArchiveMount.cpp`, `ArchiveJob.cpp`,
`Scheduler::reportArchiveJobsBatch` and `MigrationReportPacker.cpp`. One request
with `NbCopies` jobs: status, owner, retry counters, the request's
`reportDecided` and `isFailed`; the processes that have the jobs in memory
(`holder`, `stage`, `target`, `reportType`); the catalogue and the reports sent.
An update of the request under its lock is one action, moving the job to a
queue is another (the process may stop in between); how the move itself is made
safe is the subject of `ObjectOwnership`. `GarbageCollect` requeues a job of a dead
process, `GarbageCollectError` is its `catch (...)`: the job becomes `AJS_Failed` and
stays with the dead agent (`Orphan`). Three history variables (`history`) record what the
code gives up: `borrowed` (a job was given the status of another one), `undone` (a
report failure overtook a completed job) and `gcFailed` (the collector could not requeue
a job). `AJS_Abandoned` and the repack statuses do not occur for user requests.

### QueueLookup - finding, creating and removing a queue

Translated from `Helpers.cpp` (`getLockedAndFetchedJobQueue`), `RootEntry.cpp`
(`addOrGetArchiveQueueAndCommit`, `removeArchiveQueueAndCommit`) and
`ArchiveQueueAlgorithms.hpp` (`getLockedAndFetchedNoCreate`,
`trimContainerIfNeeded`); retrieve and repack queues have the same code. It
follows one pointer of the root entry (`root`), the queue objects (`queues`), the
number of jobs in each (`content`) and, as a history variable, the number of jobs
that were added and not popped (`queued`). A call to add or pop reads the pointer
without a lock (`FindQueue`), creates the queue if needed (`GetQueue`,
`AddPointer`, `InsertQueue`), locks it (`LockQueue`, `LockFails`), works on it
(`AddJob`, `PopJobs`) and, after a failure or when the queue is empty, removes what
the root entry points to by then (`LockRoot`, `RemoveQueue`, `QueueNotEmpty`,
`Dereference`). `Stop` ends a thread at any step, `StoreError` is a lock that
cannot be had or a fetch that fails; after a failed fetch
`getLockedAndFetchedNoCreate` keeps the queue locked while it removes it from the root
entry, which needs the same lock (`Entangled`). An address that no thread remembers and
that is not in use counts as a new one. The 100 ms of grace in
`removeArchiveQueueAndCommit` are any time.

### MigrationSession - the threads of an archive mount

Translated from `DataTransferSession.cpp` (`executeWrite`), `MigrationTaskInjector`,
`MigrationMemoryManager`, `DataPipeline`, `DiskReadThreadPool`, `DiskReadTask`,
`TapeWriteSingleThread`, `TapeWriteTask`, `WriteSession` (fSeq checks),
`MigrationReportPacker` and `ArchiveMount::reportJobsBatchTransferred`.

*State.* The queues between the threads (`requests` to the injector, `clients` of
the memory manager, `diskTasks`, `tapeTasks`, `reports`), where `End` is the null
pointer that ends a queue; `pool`, the free memory blocks; for the pipeline of
each file how many blocks were `provided`, are `ready` for the reader, hold `data`
for the tape or were `popped`; `errorFlag`; a program counter for each thread.
`onTape` and `safe` (how much of it is flushed), `reported` and `failed` are history,
and so are `lostAnswer` (files the catalogue recorded in a call that threw) and `doubled`
(files with a block that was pushed twice).

*Actions.* Injector: `InjectorCheck`, `GetNextJobBatch`, `GetNextJobBatchError`,
`InjectFile`, `InjectionDone`, `DrainRequests`. Memory manager: `NextClient`,
`ProvideBlock`. Disk reader: `PopAndRequestMore`, `CheckMigrationFailing`,
`DiskProceed`, `DiskOpenError`, `ReadBlock`, `ReadError`, `CirculateAllBlocks`, and for a
file that shrinks `ShortRead`, `PushAgain`, `GetFreeBlockError`. Tape
thread: `MountTape`, `PopTask`, `WriteBlock`, `WriteError`, `CloseFile`,
`CirculateMemBlocks`, `HandlerDone`, `Flush`, `TapeCleaning`, `DrainTask`; `after`
remembers which exception handler is running. Report packer: one action per
report type, `ReportFlushError` for the exceptions of
`reportJobsBatchTransferred()` (`CatalogueUpdateFails`: before or after the commit of the
catalogue), `DrainReports`. `UseDestroyedTask`: a tape write task
that was destroyed is used by another thread, which is undefined; the process
counts as crashed.

*Abstractions.* A block's contents are its mark; once a block has been pushed twice two
tasks use it without a lock, and what either finds in it is any mark (`Contents`).
Thresholds in bytes (flush, batch size, end of the session) may be reached or not at
any file. Left out: drive status, encryption, tape alerts; files of size zero, which
have no disk task and which `Scheduler::queueArchiveWithGivenId` refuses; what becomes
of the process when the exception that ended a disk thread is rethrown in the main
thread (`threadPool.waitThreads()`).

### RecallSession - the threads of a retrieve mount

Translated from `DataTransferSession.cpp` (`executeRead`), `RecallTaskInjector`,
`TapeReadSingleThread`, `TapeReadTask.hpp`, `RecallMemoryManager`, `MemBlock`,
`DiskWriteThreadPool`, `DiskWriteTask`, `RecallReportPacker` and `RetrieveMount`.

*State.* `jobs` are the jobs the injector holds, `batch` those it is injecting;
`requests`, `tapeTasks`, `diskTasks`, `reports` the queues, `fifo[f]` the blocks
between the tape thread and the disk task of file `f`, `free` the pool; the promises
(`raoPromise`, `firstTasksInjected`) and the two flags whose conjunction ends the
session (`tapeDone`, `diskDone`). `validated`, `onDisk`, `completed`, `failed`,
`requeued` and `dropped` (a job destroyed without a report, which the garbage
collector of the agent will find) are history.

*Actions.* Start: `FetchFirst`, `TestReservation`. Injector: `WaitForPromise`,
`ReserveSpace`, `ReservationFails`, `ReservationThrows`, `InjectTask`,
`InjectionDone`, `PopRequest`, `WrapUp`, `DrainRequests`. Tape thread: `MountTape`,
`OpenReadSessionFails`, `WaitForFirstTasks`, `PopTask`, `ReadBlock`,
`ReportErrorToDiskTask`, `TapeCleaning`, `FlushTask`, `SetTapeDone`,
`TapeReportsEnd`. Disk writer: `DiskPop`, `WriteBlock`, `CancelTask`, `WriteError`,
`CloseFile`, `CloseError`, `ReleaseAllBlock`, `DiskExit`, `DiskReportsEnd`. Report
packer: `ReportSuccessful`, `ReportError`, `ReportThrows`, `ReportEnd`,
`DiscardReports`.

*Abstractions.* RAO is any order of the jobs. The disk system has room or not, at
any time. `RequeueJobs` and `FlushSuccessful` may fail for any of the jobs of a batch.
`ReservationThrows` covers the first injection, whose exception ends the injector's thread
(`InjectorDead`). Left out: drive status; the exit of the tape thread from a corrupted
session (`TapeReadSingleThread.cpp:397`), which is never taken with the positioning by
block that the injector sets (`RecallTaskInjector.cpp:264`); what becomes of the process when the exception
of the injector is rethrown in the main thread (`DataTransferSession.cpp:311`).

### TapeFileCatalogue - which file is where on which tape

Translated from `PostgresCatalogue.cpp`, `RdbmsCatalogue.cpp`,
`retryOnLostConnection.hpp` and `common_catalogue_schema.sql`. The tables `TAPE`
(`lastFSeq`, `full`), `ARCHIVE_FILE`, `TAPE_FILE` and `FILE_RECYCLE_LOG`, and `medium`, what
is really on each tape. A tape session mounts a tape, writes after `LAST_FSEQ` and
reports batches (`BeginReport` takes the lock of the `TAPE` row and selects the old
copies, `CommitReport`, `LoseCommit`, `RollbackReport`, `RefuseReport`). Clients delete a
file (`ReadFile`, `CopyToRecycleLog`, `MoveArchiveFile`) or a copy (`ReadCopy`,
`CopyToRecycleLog`, `DeleteTapeFileCopy`), restore a copy (`ReadRecycleLog`, `CheckRestore`, `InsertTapeFile`, `DeleteFromRecycleLog`) and
reclaim a tape (`ReadTape`, `GetNbFilesOnTape`, `DeleteFilesFromRecycleLog`,
`ResetTapeCounters`); each read and each commit is a step. A deletion inserts its
entries in one step and deletes and commits in a later one: under READ COMMITTED two
deletions of the same rows may both have inserted before either commits. `Answer` and `LoseCommit`
repeat a transaction whose answer was lost, as `CatalogueRetryWrapper` does.
`stale` marks tapes on which a client acted on an outdated read; the code has no
protection there, and the properties say so.

Sizes, checksums, statistics and log lines are left out. The drive and the
choice of what to write are external (`WriteItem`, `EndSession`).

### Proof and MC modules

`ObjectOwnershipProofs`, `ArchiveJobsProofs`, `AgentReferenceProofs`, `WatchdogProofs`,
`QueueLookupProofs`, `MigrationSessionProofs`, `RecallSessionProofs` and
`TapeFileCatalogueProofs` hold the theorems about the module they are named after, see
section 5. `MCObjectOwnership`, `MCAgentReference` and `MCTapeFileCatalogue` define the
instances for TLC; the other modules are instantiated by their cfg alone.

## 3. Runs

| Run | Instance | Shows |
|---|---|---|
| `OwnershipCopies` | 1 request, 2 pools, a front end, 2 mounts, 2 collectors (one started late), 2 stops, 2 requeues | `NoLostJob`: the owner of every job points back to it, but for the named cases; `AgentReachable`; `CleanupSucceeds`: `removeAndUnregisterSelf()` never throws `AgentStillOwnsObjects`; `OwnerIsRespected` (action property) |
| `OwnershipRequeue` | 2 requests, 1 pool, 2 queue types, a mount with 2 threads, a reporter, a collector, batches of 2, 1 stop, 1 failing switch, 1 requeue | `NoLostJob`; `HeldIsOwned`: a session only works on what it owns; `QueueMatchesStatus`: frontend, sessions and collector agree about the queue of a job |
| `OwnershipLiveness` | 1 request, 2 pools, a mount, 2 collectors, 2 stops, with fairness | `DeadAgentsRemoved`: the agent of every dead process is cleaned up and removed, which it can only be when its jobs are requeued |
| `OwnershipRetryRace` (violation) | 2 threads share the agent of a mount | `OwnerPointsBack` fails, finding 1 |
| `ArchiveJobsSingle` | 1 copy, 2 mounts, 3 retries in total, 2 within a mount, 2 stops, 3 refusals, 2 errors | `RetryLimit`, `JobsSettle` |
| `ArchiveJobsCopies` | 2 copies, 2 mounts, 2 retries, 2 stops, 1 refusal, 1 error | `CompletionIsTrue`, `LastCopyReports`, `ReportIsCurrent`, `NoJobForgotten` |
| `AgentReferenceBatches` | 2 workers and the heartbeat thread, 1 object, 1 store error, 1 claim, with fairness | `QueueListed`: the internal-consistency exception is never thrown; `ListIsAtomic`: the specification implements `OwnershipList`; `CallsReturn`; `ZombieExits`: a process whose agent is being collected ends |
| `WatchdogSlow` | 30/60/120 s in units of 15 s, updates of up to 90 s, beyond the deadline, reads of at most 15 s, 1 restart | `NeverMistaken`: a running process is declared dead only if its counter stood still for the timeout, but for the delays of `checkAlive()`; `DeadFound` |
| `QueueLookup` | 2 threads, 4 calls, 2 faults, 5 attempts | `NoOrphanQueue`, `JobsReachable`: no job is lost with its queue; `UndisturbedSucceeds`: three attempts repair what a crash left; `CallsEnd` |
| `MigrationSession` | 2 files of 1 or 2 blocks, 2 blocks, 2 disk readers, a flush after 2 files, 1 fault, with fairness | `FlushedBeforeReported`: what is reported as archived is complete on tape and flushed; `OneOutcome`; `SkippedHasPlaceholder`; `BlocksComeBack`; `CleanSessionReportsAll`; `SessionEnds` |
| `TapeFileCatalogue` | 2 tapes of 2 files, 1 file with 2 copies, 2 clients, 3 writes, 3 operations, lost answers or crashes | `RowsAreTrue`: a row of `TAPE_FILE` is what the tape holds, below `LAST_FSEQ`; `RecycledAreTrue`; `OneRowPerCopy`; `EntryPerDeletedFile` |
| `RecallSession` | 2 files of 3 blocks together, one maybe to verify only, 2 blocks, 2 disk writers, with and without RAO, 1 fault, with fairness | `DeliveredIsWhole`; `OneOutcome`; `NoJobForgotten`; `BlocksComeBack`; `SessionEnds` |

The type invariant of a module is `TypeOK`. It is no run's property: for every module
with proofs it is a theorem, or part of the invariant its theorems rest on.

*Bounds.* The counters in the guards (`MaxStops`, `MaxErrors`, `MaxRequeues`,
`MaxReportFailures`) bound faults, not normal work. Two stops are needed for a
collector that dies while it cleans up another process, and for the agent it
leaves to be handed back; two pools for a request that a dead agent owns twice
(`use_count()`); batches of two for a batch that fails in part; two requeues for
a job that goes to the report queue and back; two threads of one mount, for what one of
them does to a job while the other still believes it has it. With two copies a refused
report or a failed update can give a job the status of the other one (section 4,
item 2), after which `CompletionIsTrue`, `LastCopyReports` and `JobsSettle` fail: they
are stated as long as that has not happened (`StatusIsOwn`, the history variable
`borrowed`). One error and one refusal are enough for each of the named cases.
In `AgentReference` two workers and the heartbeat give
a leader, a follower and the leader of the next queue at once; one error is
enough for a batch that fails in the middle of the chain. In `QueueLookup` two
faults allow a crash and a store error in its aftermath, four calls two additions
and two pops; three threads were tried for the safety properties, which are proved
for any number. In the sessions two files and two blocks are enough for a file that
waits for the blocks of another, two disk threads for tasks that finish out of
order, two blocks in a file for an error half way; a batch limit of four makes the
first files arrive in one injection or in several and makes both kinds of request
(`more` and `last`) occur. One fault is what the code is written for; every
operation that can fail may be the one. In `TapeFileCatalogue` two tapes are needed
for two copies and for a copy that is written again elsewhere, three operations for
two deletions and a reclaim or for a delete, a restore and a crash. In `Watchdog` the
timers stop at the largest value they are compared with, so nothing is lost by
their bounds. All runs say
`CHECK_DEADLOCK FALSE`: when every request is finished and the bounded faults
are used up the system rests.

*Fairness.* `ObjectOwnership`: a thread that has begun an operation goes on
(straight-line code with blocking locks whose holders go on as well or die), a
process that is leaving leaves, and a running collector makes passes
(`MaintenanceHandler` calls `runOnePass()` in a loop). Nothing is assumed of
front ends, sessions, crashes or new processes. `ArchiveJobs`: mounts and
reporters keep coming and work on what they pop, a mount without work ends, a
garbage collector runs. Mounts may choose failure for ever only up to the retry
limits, which is what `JobsSettle` tests. `AgentReference`: a thread goes on with
its call, the heartbeat thread keeps calling (its loop has no other exit), a
collector goes on or dies. `Watchdog`: time goes on whenever nothing is due
(strong fairness of `Tick`), and the collector makes passes. `QueueLookup`: a
thread goes on with its call; calls are finitely many, so a waiting thread is not
overtaken for ever. `MigrationSession` and `RecallSession`: every thread runs on unless
it is blocked on a queue, a promise or a memory block (weak fairness per thread);
which outcome an operation has is not constrained. `TapeFileCatalogue` states safety
only.

## 4. Findings

1. **Retry within a mount races the next pop** (`OwnershipRetryRace`).
   `failTransfer()` requeues a job in the transfer queue with
   `referenceAndSwitchOwnership()`, which releases the queue
   (`Algorithms.hpp:73`) before it removes the address from the agent's list. The
   task injector of the same process can pop the job in between; the late removal
   then erases the address of a job the agent owns. `cta.proto:148` calls the
   list an intent log of everything the agent owns; after a crash the garbage
   collector would not find this job.

The disagreements below came up in the same way. They are stated as properties in
the modules and violated by the instances named here, which are not kept as runs
because the other properties of the module are checked beside them.

2. **`addReportFailure()`** returns in the first iteration of its loop
   (`ArchiveRequest.cpp:199`): with several copies the failure of the second
   copy's report is not counted and its next status comes from the first copy.
   The comments say "Find the job and update the number of failures" (`:182`) and
   "Status is unchanged" (`:195`). `ArchiveJobs!ReportFailureOfTheJob`, two copies and a
   refused report.
3. **`asyncUpdateTransferSuccessful()`** tests `reportdecided` of an object that
   was never fetched (`ArchiveRequest.cpp:721`), so a request may be reported both
   failed and complete; "We only do one report per request" (`:712`).
   `ArchiveJobs!OneVerdict`, two copies.
4. **Heartbeat deadline and watchdog timeout do not fit.** `cta.proto:146` lets the
   absence of a new heartbeat for 120 s be taken for failure;
   `AgentHeartbeatThread` waits 30 s and accepts updates of 60 s, so a running
   process may leave the counter unchanged for 150 s: an update stored at its
   beginning, the wait, an update stored at its end. `Watchdog!PunctualIsSpared` on the
   instance of `WatchdogSlow`.
5. **Last flush of a migration session.** When the flush at
   `TapeWriteSingleThread.cpp:417` throws, the end mark has already been popped; the
   handler, reached "because flush failed" (`:456`), empties the task queue up to an
   end mark that does not come any more, and the session waits for ever.
   `MigrationSession!DrainFindsEndMark`, one file, one fault.
6. **Recoverable error in the middle of a file.** `TapeWriteTask.cpp:198` wants "to
   report a failed job and proceed with the mount", but the session's last fSeq is
   not advanced, so `validateNextFSeq()` of the next task throws, outside the try
   block that would circulate its blocks: the task is destroyed while the disk
   reader and the memory manager hold references to it.
   `MigrationSession!RecoverableProceeds`, two files, one fault.
7. **Close of a recalled disk file.** `WriteFile::close()` "may throw"
   (`DiskWriteTask.cpp:116`), but only after the null pointer that ends the file was
   popped; the handler's `releaseAllBlock()` then waits for it.
   `RecallSession!ReleaseFindsEndOfFile`.
8. **Mount failure under RAO.** `setPromise()` is only called after a successful mount
   (`TapeReadSingleThread.cpp:336`); the injector waits for the promise, the tape
   thread, which flushes "the remaining tasks to cleanly exit", for the injector's
   end mark. `RecallSession!FlushIsEnded`.
9. **Two ends of a recall session.** The tape thread and the last disk writer may
   both find all threads done and both report the end ("In the last Thread alive,
   report end of session. Otherwise ...", `DiskWriteThreadPool.cpp:181`). Harmless:
   the second one is discarded. `RecallSession!OneEndOfSession`.
10. **A restore is two transactions.** "We currently do all file copies restoring in a
   single transaction" (`PostgresCatalogue.cpp`, `restoreEntryInRecycleLog`), but
   `insertTapeFile()` commits (`RdbmsCatalogue.cpp:9465`): a crash leaves the copy in
   `TAPE_FILE` and in the recycle log. `TapeFileCatalogue!RestoreIsOneTransaction`.

In the following ones a step of the model does what the code does, a history variable
or a named predicate records it, and the properties of the runs exempt exactly that.

11. **A switch that fails after its commit.** `asyncUpdate()` throws `CouldNotUnlock` when the
   object is written and cannot be unlocked (`BackendVFS.cpp:441`, `BackendRados.cpp:1159`
   and `:1175`). `popNextBatch()` knows ("this element was indeed OK", `Algorithms.hpp:400`);
   `referenceAndSwitchOwnership()` does not (`:66-69`) and removes the queue's reference of
   a job the queue owns by now. `forsaken` in `ObjectOwnership`.
12. **A collector that cannot requeue a job.** `ArchiveRequest::garbageCollect()` sets
   `AJS_Failed` and leaves the dead agent as the owner ("the job is now orphaned",
   `ArchiveRequest.cpp:508`). Another copy of the request then finds nothing left to
   transfer and reports completion. `gcFailed` in `ArchiveJobs`. In the same way
   `failReport()` on a job that its update has already completed makes it `AJS_Failed`
   without an owner (`undone`).
13. **Short read of a disk file.** `DiskReadTask.cpp:116` pushes the block it could not fill,
   and the handler pushes it again (`:159`). When the pipeline has no room for another
   one, `pushDataBlock()` throws (`DataPipeline.hpp:102`) out of `execute()`: the disk thread
   ends with a block in its hands, without being counted out. The doubled block has two
   users, `areBlocksAllBack()` does not notice, and `~MigrationMemoryManager()` deletes it
   twice. What is written wrongly is caught by the checksum when the file is reported.
   When the last reader ends so, the tape thread waits for ever (`NoReaderLeft`), or the
   main thread rethrows the exception (`threadPool.waitThreads()`) and unwinds while the
   report packer runs. `doubled` in `MigrationSession`.
14. **Lost answer of the catalogue in a session.** `retryOnLostConnection()` throws in the end
   also after a commit whose answer was lost (`retryOnLostConnection.hpp:51-65`);
   `MigrationReportPacker.cpp:272-276` then fails transfers of files that the catalogue
   has, and they are written again. `lostAnswer` in `MigrationSession`; that the second
   row replaces the first is `OneRowPerCopy` of `TapeFileCatalogue`.
15. **First injection of a recall.** It is outside the `try` block of the loop
   (`RecallTaskInjector.cpp:409` and `:415`). When the reservation or the requeueing throws,
   the injector's thread ends without an end mark, and the tape thread waits for its
   first tasks (`TapeReadSingleThread.cpp:375`), or the main thread rethrows the
   exception (`DataTransferSession.cpp:311`) and destroys the queues under the other
   threads. `InjectorDead` in `RecallSession`.
16. **A queue that is locked and cannot be fetched.** The handler in
   `getLockedAndFetchedNoCreate()` takes the queue for absent
   (`ArchiveQueueAlgorithms.hpp:293`), locks the root entry and calls
   `removeArchiveQueueAndCommit()`, which locks the queue once more
   (`RootEntry.cpp:250`) although it is released only at `:326`. The thread waits for
   itself, with the root entry locked, or for a thread that has the root entry and
   wants the queue. `flock` waits for ever, a Rados lock expires after 240 s. The retrieve
   queues have the same code (`RetrieveQueueAlgorithms.hpp:242`). `Entangled` in
   `QueueLookup`.

Remarks, without a property: `reclaimTape()` is not a transaction, so a restore
between its count and its reset is overwritten by the next session (the exception
`stale` in `RowsAreTrue`); two concurrent deletions of single copies can leave an
archive file without tape files, which no look-up finds any more; two overlapping
deletions of the same file both leave entries in the recycle log (READ COMMITTED, also
`stale`); a deletion
repeated after a lost answer makes a second entry in the recycle log, which
`restore` then refuses as ambiguous; `MigrationReportPacker.cpp:325` says "we should
never flush after an error!", which does happen after a recoverable error (nothing
is reported then); when one job of a batch is invalid, `ArchiveMount.cpp:266` means to
fail the others, but those behind it stay in the packer's queue and are left to
the garbage collector.

## 5. Proofs

Every invariant and every action property that a passing run checks is also proved for
all values of the constants; what is left to TLC is listed at the end of this section.
The assumptions on the constants are the named `ASSUME`s of the modules (different
processes, queues and addresses are different values, bounds are numbers); theorems
that need more say so. Each inductive invariant was model-checked on the instances of
the runs before it was proved.

### `ObjectOwnershipProofs`

For every number of requests, pools, queue types, processes and threads, and every
value of the bounds:

* `TypeCorrect`, `AgentReachableCorrect`, `CleanupSucceedsCorrect`, `HeldIsOwnedCorrect`,
  `NoLostJobCorrect`, `QueueMatchesStatusCorrect` and the action property
  `OwnerIsRespectedCorrect`.

None of them assumes anything about which threads share an agent.

*From which assumptions.* `RoleAssumption` (front ends, sessions and collectors
are different processes), `QueueAssumption`, `AddressAssumption` (addresses of
different objects differ), `BoundAssumption`.

*Along which argument.* Four inductive invariants, each resting on the ones before.

1. `RegisterInv`: `Roles` (which process may be at which step), `RegisterSound` (an agent
   being cleaned up is down, and stays registered as such) and `OneCollector` (one
   collector at a time).
2. `OwnershipInv`: `FreshUnknown` and `InsertOnce` (a new request is inserted once, by the
   front end that claimed its address, so no insertion overwrites an owner),
   `RequestLockHeld` (the front end that holds a request owns the job it is about to hand
   to a queue), `SwitchResults`, and `HeldByRunning` (only running processes hold jobs).
3. `CleanupInv`, for `AgentReachable` and `CleanupSucceeds`: `AliveHasObject`,
   `VictimSound` and `OthersSound` (the collector owns the agent it cleans up, and
   which of the agents in the victim's list it has still to hand back) and
   `ListSettled`: everything left in the victim's list is in the collector's plan,
   among those agents, or about to be erased.
4. `LostInv`, for the rest. `NoLostJob` alone is far from inductive, because most steps
   remove a reference on the ground of what the thread learnt some steps ago. For each
   operation a predicate says what a thread in its middle relies on (`ThreadSound`):
   `IntentLogged` (what a pop or an insertion works on is in the agent's list already, or
   another thread of the process is about to take it away: `forsaken`), `PopSound` (what
   it gave up does not belong to the queue, what it switched is its agent's),
   `RequeueSound` (the job being requeued is still the session's), `DereferenceSound` (what
   is about to leave the list belongs to somebody else, or is accounted for in
   `forsaken`) and `PlanSound` (the collector's plan is exactly what the victim owns,
   with its current status). Because threads share an agent, three parts relate them:
   `NotReferenced` (a session owns no job its queue references, except one that some
   thread is engaged with), `HandsApart` (a job is in the hand of one thread, or held,
   never both) and `LeaveApart` (what a thread is about to dereference is not what
   another thread of its process is popping, but for `forsaken`). `JobsOfRole` and `QueueLocks` are about all threads.

The proof of `LostInv` is a rely-guarantee argument, since a proof by pairs of actions
would have several hundred cases. `StepRespects(t)` says what a step of `t` may do to
the shared state: take a job only from the queue it has locked, from its own agent or
its victim (`OwnersRespected`), remove only references nobody needs (`RefsRespected`,
`ListsRespected`), lock only what is free (`LocksRespected`), take no job that is in
another thread's hand (`HandsRespected`), record what it pops while another thread is
about to dereference it (`LeavesRespected`), and come to own a job that its queue still
references only in the middle of an operation on both (`QueueRespected`).
`OthersStaySound` and `LostStep` show once that such a step keeps what every other thread relies on; then one
lemma per action shows that it respects the others and leaves its own thread sound.

### `ArchiveJobsProofs`

For every number of copies, mounts, retries and faults: `TypeCorrect` and

* `ReportIsCurrentCorrect`, `NoJobForgottenCorrect`, `CompletionIsTrueCorrect` and
  `LastCopyReportsCorrect`, without hypothesis; the last two properties are themselves
  conditional on `StatusIsOwn`;
* `RetryLimitCorrect` for `MaxTotalRetries > 0`, as long as `StatusIsOwn`.

`StatusIsOwn` says that `addReportFailure()` gave no job the status of another one, which
takes two copies and a refused report or a failed update (item 2 of section 4). It is
needed; TLC has a counterexample without it: copy 2 gets the status
`AJS_ToTransferForUser` of copy 1 and is offered to a mount although it has no attempts
left, or the status `AJS_Complete`, and nobody reports. With a limit of 0 a new job has
used up its attempts before the first.

`ArchiveInv` is a conjunction over the jobs: `JobHeld` (a job in the memory of a process
is owned by it, or complete), `ReportAgrees`, `ReportDue` and `TransferDue` (what is in a
queue, on its way to it or popped from it has the status that goes with the queue),
`AttemptLeft`, `JobOnTape` (what a status says about the catalogue), `JobWritten`,
`JobReportTrue`, `JobNotForgotten`. A step changes one job (`OtherJobs`) and undoes nothing
the others rely on (`Forward`), so each action is proved for its own job only.

### `AgentReferenceProofs`

For every number of threads, objects and faults:

* `TypeCorrect`, `QueueListedCorrect`, `OneServerCorrect`;
* `Implements`: `Spec => ListIsAtomic`. The stored list changes as `OwnershipList`
  allows: `JoinQueue` and `OpenQueue` map to its `Call`, `Commit`, `StoreError` and
  `NoSuchObject` to the effect of every action of the batch, `Return` to `Return`,
  `Claim` and `CollectObject` to a collection, everything else to a stutter.

The inductive invariant `IndInv` is `TypeOK`, `ChainInv` (each leader waits for the
one before it), `LockInv` (only the first of the chain works on the object),
`QueueInv` (whose queue is open; a follower waits in exactly one queue whose
leader will answer it) and `EffectInv` (which actions of a batch the in-memory
list contains).

### `WatchdogProofs`

`WatchdogTyped` and `NeverMistakenCorrect`, for all values of the times: whatever the
updates, the checks and the restarts do, a running process is declared dead only after
its counter stood still for longer than `Timeout - 2 * ReadDelay`. `TimerInv` bounds the
watchdog's timer by the silence of the stored counter: as long as the counter is the
remembered one the timer is at most one reading older, and what has been read may have
been replaced since. Whether a process that keeps its own deadline can be silent for that
long depends on the times: with those of the code it can (item 4 of section 4).

### `QueueLookupProofs`

`NoOrphanQueueCorrect`, `JobsReachableCorrect` and `UndisturbedSucceedsCorrect` for any
number of threads, addresses, attempts, calls and faults. `LookupInv` adds
`OneRoot` and `OneLocked` (the locks exclude each other) and `StepInv`: a thread that
has locked a queue has the one the root entry points to, because a queue that is
still there cannot have lost its pointer; a thread that inserts one finds no other.
For `UndisturbedSucceeds`, `Progress` says what each attempt has achieved (the first finds
the pointer dangling, the second has removed it, the third finds or creates a queue), as
long as nobody interferes (`Undisturbed`); `OthersInterfere` shows that a step of another
thread that changes the pointer or the queue is counted as interference.

### `MigrationSessionProofs`

For any number of files, blocks, disk readers and faults: `TypeCorrect`,
`FlushedBeforeReportedCorrect`, `OneOutcomeCorrect`, `SkippedHasPlaceholderCorrect`,
`BlocksComeBackCorrect` and `CleanSessionReportsAllCorrect`. The invariant `SessionInv` has
the order of the tasks in the queues (`TasksInOrder`), the whereabouts of the memory blocks
(`BlocksAccounted`: pool plus blocks in flight is constant until a block is pushed
twice), what the tape thread knows of
the tape (`TapePosition`), what the report packer may believe (`ReportsTrue`,
`ReportedOnce`, and `FlushCovers`: every file queued for report before a flush is in front
of a flushed tape mark), and what a session looks like while it had no fault (`CleanPipes`,
`CleanSession`, `CleanEnd`).

### `RecallSessionProofs`

For any number of files, blocks, batches, disk writers and faults: `TypeCorrect`,
`DeliveredIsWholeCorrect`, `OneOutcomeCorrect`, `NoJobForgottenCorrect` and
`BlocksComeBackCorrect`. The core of `SessionInv` is `JobsAccounted`: every fetched job is
at exactly one of ten places (`Where`), from the injector's list to its outcome. `FilesFlow`
relates the blocks between the tape thread and a disk writer to what each has done;
`ReadAfterInjected`, `BlocksAccounted` and `ReportsTrue` are as above; `InjectorEnds`,
`WritersEnd` and `ReportsEnd` say that the end marks come last and the end of the session
is reported after all writers have ended; `CleanFiles` and `CleanJobs` hold without a fault.

### `TapeFileCatalogueProofs`

For any number of clients, tapes, files, operations, lost answers and crashes:
`TypeCorrect`, `RowsAreTrueCorrect`, `RecycledAreTrueCorrect`, `OneRowPerCopyCorrect` and the
action property `EntryPerDeletedFileCorrect`. `CatalogueInv` adds `SessionAppends` (a
session writes behind `LAST_FSEQ` and has on tape what is in its batch),
`ReclaimedEmpty` (a tape whose files were counted stays empty until the counters are
reset, unless it is `stale`), `OneBatch` (a copy is in one batch at most) and `OldSelected`
(the old copies that a transaction selected under the lock of its tape are still all
there are, but for restored ones).

### Only model-checked

Liveness, which is out of the prover's reach: `DeadAgentsRemoved`, `JobsSettle`, `CallsReturn`,
`ZombieExits`, `DeadFound`, `CallsEnd` and the two `SessionEnds`. They are checked with TLC on
the instances of their runs only.

## 6. Plan

1. `ObjectOwnership` with its first proofs, `ArchiveJobs`, `AgentReference` with its
   refinement proof, `Watchdog` and `QueueLookup` with their proofs (done).
2. `MigrationSession`, `RecallSession` and `TapeFileCatalogue` (done).
3. Proofs of every invariant and action property the runs check (done). Left: an
   abstract specification of ownership (a job has one owner who can find it) that
   `ObjectOwnership` is shown to implement.
4. Retrieve requests; drive handler; repack accounting; queue summaries; the collector's
   error path in `ObjectOwnership`.

**Known hazards without a property.** The requeueing loop of the repack branch of
`setJobBatchTransferred()` declares its retry counter behind the label it jumps to
(`OStoreDB.cpp:3991`); an ownership switch of the collector that fails with an error
(`GarbageCollector.cpp:561`); a cancelled request in a batch of status updates
(`OStoreDB.cpp:3881`); that the catalogue registers the place of every skipped file; and the
items of section 4 that a run's property exempts, among them what a client does to a
tape with an outdated read (`stale`).

**Not modelled.** Most of the source is outside these modules: the relational
catalogue's configuration tables and listings (inserts, updates and selects of one
statement), the generated schemas, the SCSI and tape format layer and the media
changer (device I/O), RAO (floating-point heuristics), the front ends and the command
line (translation of messages), the statistics and the tests. Of what has behaviour to
check, retrieve and repack requests, the in-memory queues, the mount decision, the
parent process of the tape daemon and the lock protocols of the back ends are still
missing; `PROJECT.json` says so for each component.
