--------------------------- MODULE RecallSession ---------------------------
(***************************************************************************)
(* The threads of a process that reads files from a tape: the task          *)
(* injector, the tape thread, the disk writers and the report packer        *)
(* (DataTransferSession::executeRead()).  For every job the injector        *)
(* creates a task for the tape thread and one for a disk writer; the tape   *)
(* thread takes blocks from a fixed pool, fills them and pushes them into   *)
(* the queue of the disk task, which writes them and returns them.  The     *)
(* last of the tape thread and the disk writers ends the session.           *)
(*                                                                          *)
(* A job is a file.  The contents of a block are its number in the file and *)
(* its mark (MemBlock::AlterationContext).                                  *)
(***************************************************************************)
EXTENDS Naturals, Sequences, FiniteSets, Functions

CONSTANTS
    NbFiles,         \* the jobs queued for this tape
    MaxBlocks,       \* the blocks a file may need
    MaxVolume,       \* bound on the blocks of all files together
    NbBlocks,        \* RecallMemoryManager: numberOfBlocks
    MaxFiles,        \* bulkRequestRecallMaxFiles
    MaxFetch,        \* the jobs the injector may hold: more than MaxFiles under RAO
    RAOModes,        \* the values of DataTransferConfig::useRAO
    DiskThreads,
    VerifyFiles,     \* the files whose request may be `verify only'
    MaxFaults        \* bound on the errors of tape, disk and scheduler

ASSUME RecallAssumption ==
    /\ NbFiles \in Nat /\ MaxBlocks \in Nat /\ MaxVolume \in Nat
    /\ NbBlocks \in Nat \ {0}
    /\ MaxFiles \in Nat \ {0}
    /\ MaxFetch \in Nat /\ MaxFetch >= MaxFiles
    /\ RAOModes \subseteq BOOLEAN
    /\ IsFiniteSet(DiskThreads) /\ DiskThreads # {}
    /\ VerifyFiles \subseteq 1..NbFiles
    /\ MaxFaults \in Nat

Files == 1..NbFiles
End == 0            \* the nullptr that ends a queue of tasks

VARIABLES
    \* what the session finds
    useRAO, need, verifyOnly,
    \* the queues between the threads
    requests, tapeTasks, diskTasks, reports,
    free,       \* number of free blocks
    fifo,       \* the blocks that wait for the disk writer of a file
    \* promises and flags the threads share
    raoPromise, firstTasksInjected, tapeDone, diskDone,
    \* the task injector
    inj, next, jobs, batch, lastCall, reservationFailed, endSignaled,
    \* the tape thread
    tape, tapeFile, tapeBlock,
    \* the disk writers
    disk, diskFile, diskBlock, verifying, active,
    \* the report packer
    packer, successful,
    \* history
    validated,  \* files read from tape whose checksum was right
    onDisk,     \* the blocks in the closed disk file
    completed, failed, requeued,
    dropped,    \* jobs destroyed without a report: left to the garbage collector
    faults

setup == <<useRAO, need, verifyOnly>>
queues == <<requests, tapeTasks, diskTasks, reports>>
flags == <<raoPromise, firstTasksInjected, tapeDone, diskDone>>
injVars == <<inj, next, jobs, batch, lastCall, reservationFailed, endSignaled>>
tapeVars == <<tape, tapeFile, tapeBlock, validated>>
diskVars == <<disk, diskFile, diskBlock, verifying, active, onDisk>>
packerVars == <<packer, successful, completed, failed>>
vars == <<setup, queues, free, fifo, flags, injVars, tapeVars, diskVars, packerVars,
          requeued, dropped, faults>>

\* MemBlock: a block and its mark; the nullptr that ends the blocks of a file.
Block(n) == [mark |-> "data", n |-> n]
Marked(m) == [mark |-> m, n |-> 0]
EndOfFile == Marked("end")

Fault == faults < MaxFaults /\ faults' = faults + 1

-----------------------------------------------------------------------------
(* Start                                                                   *)

\* The blocks of all files.
Volume(n) == FoldFunction(+, 0, n)

\* executeRead() before the threads are started.
Init ==
    /\ useRAO \in RAOModes
    /\ need \in [Files -> 1..MaxBlocks] /\ Volume(need) <= MaxVolume
    /\ verifyOnly \in SUBSET VerifyFiles
    /\ requests = <<>> /\ tapeTasks = <<>> /\ diskTasks = <<>> /\ reports = <<>>
    /\ free = NbBlocks
    /\ fifo = [f \in Files |-> <<>>]
    /\ raoPromise = FALSE /\ firstTasksInjected = FALSE
    /\ tapeDone = FALSE /\ diskDone = FALSE
    /\ inj = "fetch" /\ next = 1 /\ jobs = <<>> /\ batch = <<>>
    /\ lastCall = FALSE /\ reservationFailed = FALSE /\ endSignaled = FALSE
    /\ tape = "off" /\ tapeFile = End /\ tapeBlock = 0
    /\ disk = [d \in DiskThreads |-> "pop"]
    /\ diskFile = [d \in DiskThreads |-> End]
    /\ diskBlock = [d \in DiskThreads |-> 0]
    /\ verifying = [d \in DiskThreads |-> FALSE]
    /\ active = Cardinality(DiskThreads)
    /\ packer = "run" /\ successful = {}
    /\ validated = {} /\ onDisk = [f \in Files |-> 0]
    /\ completed = {} /\ failed = {} /\ requeued = {} /\ dropped = {}
    /\ faults = 0

\* The jobs the injector may hold: the limit of the drive is known when it is
\* mounted and RAO is used.
HoldLimit == IF useRAO /\ raoPromise THEN MaxFetch ELSE MaxFiles

\* synchronousFetch(): the byte limits and a busy queue may make the batch
\* smaller, an error makes it empty.
SynchronousFetch ==
    \E k \in 0..HoldLimit - Len(jobs) :
        /\ next + k - 1 <= NbFiles
        /\ jobs' = jobs \o [i \in 1..k |-> next + i - 1]
        /\ next' = next + k

\* Mutant: the batch is cleared before it is requeued.
ClearJobs(s) == UNCHANGED <<requeued, dropped, faults>>

\* requeueJobBatch(): a request that cannot be put back into its queue is left to
\* the garbage collector, its exception in a promise that nobody reads.
RequeueJobs(s) ==
    \E t \in SUBSET Range(s) :
        /\ requeued' = requeued \cup (Range(s) \ t)
        /\ dropped' = dropped \cup t
        /\ \/ t = {} /\ UNCHANGED faults
           \/ t # {} /\ Fault

\* executeRead(): the first jobs are fetched; without any the mount is empty.
FetchFirst ==
    /\ inj = "fetch"
    /\ SynchronousFetch
    /\ inj' = IF jobs' = <<>> THEN "empty" ELSE "test"
    /\ UNCHANGED <<setup, queues, free, fifo, flags, batch, lastCall, reservationFailed,
                   endSignaled, tapeVars, diskVars, packerVars, requeued, dropped, faults>>

\* testDiskSpaceReservationWorking(): the threads are started when the disk
\* system has room, otherwise the jobs are requeued.
TestReservation ==
    /\ inj = "test"
    /\ \/ /\ inj' = IF useRAO THEN "rao" ELSE "first"
          /\ tape' = "mount"
          /\ UNCHANGED <<jobs, requeued, dropped, faults>>
       \/ /\ inj' = "empty"
          /\ RequeueJobs(jobs)
          /\ jobs' = <<>>
          /\ UNCHANGED tape
    /\ UNCHANGED <<setup, queues, free, fifo, flags, next, batch, lastCall, reservationFailed,
                   endSignaled, tapeFile, tapeBlock, validated, diskVars, packerVars>>

-----------------------------------------------------------------------------
(* The task injector                                                       *)

\* signalEndDataMovement(): once, an end mark for the tape thread and one for
\* each disk writer.
SignalEndDataMovement ==
    /\ endSignaled' = TRUE
    /\ \/ /\ endSignaled
          /\ UNCHANGED <<tapeTasks, diskTasks>>
       \/ /\ ~ endSignaled
          /\ tapeTasks' = Append(tapeTasks, End)
          /\ diskTasks' = diskTasks \o [i \in 1..Cardinality(DiskThreads) |-> End]

\* waitForPromise(): with RAO the drive is needed to order the files, so the
\* injector waits for the mount, then fetches as many jobs as the drive can order.
WaitForPromise ==
    /\ inj = "rao"
    /\ raoPromise
    /\ SynchronousFetch
    /\ inj' = "first"
    /\ UNCHANGED <<setup, queues, free, fifo, flags, batch, lastCall, reservationFailed,
                   endSignaled, tapeVars, diskVars, packerVars, requeued, dropped, faults>>

\* The jobs injectBulkRecalls() selects: the first ones, or any in RAO order, up to
\* MaxFiles of them or to the byte limit; at least one.
Batches ==
    LET n == Len(jobs)
        Take(k) == IF useRAO
                   THEN {[i \in 1..k |-> jobs[o[i]]] : o \in Injection(1..k, 1..n)}
                   ELSE {SubSeq(jobs, 1, k)}
    IN  IF n = 0 THEN {<<>>}
        ELSE UNION {Take(k) : k \in {k \in 1..n : k <= MaxFiles}}

\* Mutant: the jobs of the batch are not erased.
KeepJobs(s) == {jobs}

\* The jobs that are kept for a later injection, in their order: the others have
\* been moved out of their place, which is erased.
Kept(s) ==
    {t \in Surjection(1..Len(jobs) - Len(s), Range(jobs) \ Range(s)) :
        \A i, j \in DOMAIN t :
            i < j => \E a, b \in 1..Len(jobs) : a < b /\ t[i] = jobs[a] /\ t[j] = jobs[b]}

Injecting == inj \in {"first", "inject"}

\* injectBulkRecalls(): the disk space of the batch is reserved ...
ReserveSpace ==
    /\ Injecting
    /\ \E s \in Batches :
         /\ batch' = s
         /\ jobs' \in Kept(s)
    /\ inj' = IF inj = "first" THEN "pushFirst" ELSE "push"
    /\ UNCHANGED <<setup, queues, free, fifo, flags, next, lastCall, reservationFailed,
                   endSignaled, tapeVars, diskVars, packerVars, requeued, dropped, faults>>

\* ... or there is no room: all jobs that are held are requeued and the session
\* is ended.  The injector goes on answering the tape thread, unless this was the
\* first batch: then it only tells the tape thread to start.
ReservationFails ==
    /\ Injecting
    /\ jobs # <<>>
    /\ RequeueJobs(jobs)
    /\ jobs' = <<>>
    /\ reservationFailed' = TRUE
    /\ SignalEndDataMovement
    /\ firstTasksInjected' = TRUE
    /\ inj' = IF inj = "first" \/ lastCall THEN "wrapUp" ELSE "wait"
    /\ lastCall' = FALSE
    /\ UNCHANGED <<setup, requests, reports, free, fifo, raoPromise, tapeDone, diskDone, next,
                   batch, tapeVars, diskVars, packerVars>>

\* What injectBulkRecalls() throws destroys jobs: reserveDiskSpace() the batch,
\* requeueJobBatch() those of all jobs that it has not put back.
ThrowJobs ==
    \/ /\ \E s \in Batches : dropped' = dropped \cup Range(s) /\ jobs' \in Kept(s)
       /\ UNCHANGED requeued
    \/ /\ \E t \in SUBSET Range(jobs) :
            /\ dropped' = dropped \cup t
            /\ requeued' = requeued \cup (Range(jobs) \ t)
       /\ jobs' = <<>>

\* The reservation throws.  In the loop of WorkerThread::run() the session is ended
\* and the requests are discarded; the first injection comes before its try, and
\* the thread of the injector ends without a word to the others.
ReservationThrows ==
    /\ Fault
    /\ ThrowJobs
    /\ \/ /\ inj = "inject"
          /\ SignalEndDataMovement
          /\ requests' = <<>>
          /\ inj' = "wrapUp"
       \/ /\ inj = "first"
          /\ inj' = "dead"
          /\ UNCHANGED <<requests, tapeTasks, diskTasks, endSignaled>>
    /\ lastCall' = FALSE
    /\ UNCHANGED <<setup, reports, free, fifo, flags, next, batch, reservationFailed, tapeVars,
                   diskVars, packerVars>>

\* injectBulkRecalls(): two tasks for each job.
InjectTask ==
    /\ inj \in {"pushFirst", "push"}
    /\ batch # <<>>
    /\ diskTasks' = Append(diskTasks, Head(batch))
    /\ tapeTasks' = Append(tapeTasks, Head(batch))
    /\ batch' = Tail(batch)
    /\ UNCHANGED <<setup, requests, reports, free, fifo, flags, inj, next, jobs, lastCall,
                   reservationFailed, endSignaled, tapeVars, diskVars, packerVars, requeued,
                   dropped, faults>>

\* Mutant: a last call is treated as any other request.
NeverEnds == FALSE

\* WorkerThread::run(): a last call that leaves the injector without jobs ends the
\* session.
EndsSession == jobs = <<>> /\ lastCall

\* The promise for the tape thread, then the end of the loop.
InjectionDone ==
    /\ inj \in {"pushFirst", "push"}
    /\ batch = <<>>
    /\ firstTasksInjected' = TRUE
    /\ \/ /\ inj = "push" /\ EndsSession
          /\ SignalEndDataMovement
          /\ inj' = "wrapUp"
       \/ /\ inj = "pushFirst" \/ ~ EndsSession
          /\ inj' = "wait"
          /\ UNCHANGED <<endSignaled, tapeTasks, diskTasks>>
    /\ lastCall' = FALSE
    /\ UNCHANGED <<setup, requests, reports, free, fifo, raoPromise, tapeDone, diskDone, next,
                   jobs, batch, reservationFailed, tapeVars, diskVars, packerVars,
                   requeued, dropped, faults>>

\* The next request of the tape thread.
PopRequest ==
    /\ inj = "wait"
    /\ requests # <<>>
    /\ requests' = Tail(requests)
    /\ \/ /\ Head(requests) = "end"
          /\ SignalEndDataMovement
          /\ inj' = "wrapUp"
          /\ UNCHANGED <<jobs, next, lastCall>>
       \/ /\ Head(requests) # "end"
          /\ \/ /\ ~ reservationFailed
                /\ SynchronousFetch
                /\ lastCall' = (Head(requests) = "last")
                /\ inj' = "inject"
             \/ /\ reservationFailed
                /\ inj' = IF Head(requests) = "last" THEN "wrapUp" ELSE "wait"
                /\ UNCHANGED <<jobs, next, lastCall>>
          /\ UNCHANGED <<endSignaled, tapeTasks, diskTasks>>
    /\ UNCHANGED <<setup, reports, free, fifo, flags, batch, reservationFailed, tapeVars,
                   diskVars, packerVars, requeued, dropped, faults>>

\* The jobs still held are destroyed with the injector ...
WrapUp ==
    /\ inj = "wrapUp"
    /\ inj' = IF requests = <<>> THEN "done" ELSE "drain"
    /\ dropped' = dropped \cup Range(jobs)
    /\ jobs' = <<>>
    /\ UNCHANGED <<setup, queues, free, fifo, flags, next, batch, lastCall, reservationFailed,
                   endSignaled, tapeVars, diskVars, packerVars, requeued, faults>>

\* ... and the extra requests are discarded up to the end mark, which is the last.
DrainRequests ==
    /\ inj = "drain"
    /\ "end" \in Range(requests)
    /\ requests' = <<>>
    /\ inj' = "done"
    /\ UNCHANGED <<setup, tapeTasks, diskTasks, reports, free, fifo, flags, next, jobs, batch,
                   lastCall, reservationFailed, endSignaled, tapeVars, diskVars, packerVars,
                   requeued, dropped, faults>>

-----------------------------------------------------------------------------
(* The tape thread                                                         *)

\* run(): mounting the tape; with RAO the injector may use the drive from here on.
MountTape ==
    /\ tape = "mount"
    /\ \/ /\ tape' = "label"
          /\ raoPromise' = useRAO
          /\ UNCHANGED faults
       \/ /\ Fault
          /\ tape' = "cleanFailed"
          /\ UNCHANGED raoPromise
    /\ UNCHANGED <<setup, queues, free, fifo, firstTasksInjected, tapeDone, diskDone, injVars,
                   tapeFile, tapeBlock, validated, diskVars, packerVars, requeued, dropped>>

\* openReadSession(): the label of the tape is wrong ...
OpenReadSessionFails ==
    /\ tape = "label"
    /\ Fault
    /\ tape' = "cleanFailed"
    /\ UNCHANGED <<setup, queues, free, fifo, flags, injVars, tapeFile, tapeBlock, validated,
                   diskVars, packerVars, requeued, dropped>>

\* ... or right, then waitForFirstTasksInjectedPromise().
WaitForFirstTasks ==
    /\ tape = "label"
    /\ firstTasksInjected
    /\ tape' = "pop"
    /\ UNCHANGED <<setup, queues, free, fifo, flags, injVars, tapeFile, tapeBlock, validated,
                   diskVars, packerVars, requeued, dropped, faults>>

\* popAndRequestMoreJobs(): the last task of the queue makes a last call, half of
\* a batch a plain request.
PopTask ==
    /\ tape = "pop"
    /\ tapeTasks # <<>>
    /\ tapeTasks' = Tail(tapeTasks)
    /\ requests' = IF Tail(tapeTasks) = <<>> THEN Append(requests, "last")
                   ELSE IF Len(tapeTasks) = MaxFiles \div 2 THEN Append(requests, "more")
                   ELSE requests
    /\ tapeFile' = Head(tapeTasks)
    /\ tape' = IF Head(tapeTasks) = End THEN "clean" ELSE "read"
    /\ UNCHANGED <<setup, diskTasks, reports, free, fifo, flags, injVars, tapeBlock, validated,
                   diskVars, packerVars, requeued, dropped, faults>>

ReadTaskOver == tape' = "pop" /\ tapeFile' = End /\ tapeBlock' = 0

\* getFreeBlock() and pushDataBlock().
PushBlocks(f, s) ==
    /\ free > 0
    /\ free' = free - 1
    /\ fifo' = [fifo EXCEPT ![f] = @ \o s]

\* markAsVerifyOnly() replaces no contents, but nothing of it will be written.
ReadContents(f, n) == IF f \in verifyOnly THEN Marked("verify") ELSE Block(n)

\* TapeReadTask::execute(): a block is filled and pushed; the end of the file is
\* signalled after the last one, whose checksum was right.
ReadBlock ==
    /\ tape = "read"
    /\ LET n == tapeBlock + 1
           b == ReadContents(tapeFile, n)
       IN  \/ /\ n < need[tapeFile]
              /\ PushBlocks(tapeFile, <<b>>)
              /\ tapeBlock' = n
              /\ UNCHANGED <<tape, tapeFile, validated>>
           \/ /\ n = need[tapeFile]
              /\ PushBlocks(tapeFile, <<b, EndOfFile>>)
              /\ validated' = validated \cup {tapeFile}
              /\ ReadTaskOver
    /\ UNCHANGED <<setup, queues, flags, injVars, diskVars, packerVars, requeued, dropped,
                   faults>>

\* Mutant: the mark that nothing has to be written survives.
KeepVerifyMark(f) == IF f \in verifyOnly THEN "verify" ELSE "failed"

\* markAsFailed() replaces the mark of the block.
FailedMark(f) == "failed"

\* reportErrorToDiskTask(): the tape cannot be positioned, a block cannot be read or
\* the checksum of the file is wrong.  The block that is being filled, or a fresh
\* one, is marked as failed.
ReportErrorToDiskTask ==
    /\ tape = "read"
    /\ Fault
    /\ PushBlocks(tapeFile, <<Marked(FailedMark(tapeFile)), EndOfFile>>)
    /\ ReadTaskOver
    /\ UNCHANGED <<setup, queues, flags, injVars, validated, diskVars, packerVars, requeued,
                   dropped>>

\* ~TapeCleaning(): the injector is told that no request will follow, and the tape
\* is unmounted.
TapeCleaning ==
    /\ tape \in {"clean", "cleanFailed"}
    /\ requests' = Append(requests, "end")
    /\ tape' = IF tape = "clean" THEN "complete" ELSE "flush"
    /\ UNCHANGED <<setup, tapeTasks, diskTasks, reports, free, fifo, flags, injVars, tapeFile,
                   tapeBlock, validated, diskVars, packerVars, requeued, dropped, faults>>

\* The handler of run() flushes the remaining tasks: reportCancellationToDiskTask().
FlushTask ==
    /\ tape = "flush"
    /\ tapeTasks # <<>>
    /\ tapeTasks' = Tail(tapeTasks)
    /\ \/ /\ Head(tapeTasks) # End
          /\ PushBlocks(Head(tapeTasks), <<Marked("cancelled")>>)
          /\ UNCHANGED tape
       \/ /\ Head(tapeTasks) = End
          /\ tape' = "complete"
          /\ UNCHANGED <<free, fifo>>
    /\ UNCHANGED <<setup, requests, diskTasks, reports, flags, injVars, tapeFile, tapeBlock,
                   validated, diskVars, packerVars, requeued, dropped, faults>>

SetTapeDone ==
    /\ tape = "complete"
    /\ tapeDone' = TRUE
    /\ tape' = "report"
    /\ UNCHANGED <<setup, queues, free, fifo, raoPromise, firstTasksInjected, diskDone, injVars,
                   tapeFile, tapeBlock, validated, diskVars, packerVars, requeued, dropped,
                   faults>>

\* allThreadsDone()
AllThreadsDone == tapeDone /\ diskDone

\* reportEndOfSession(), with or without errors.
EndReport == [type |-> "end", file |-> End]
ReportEndOfSession ==
    reports' = IF AllThreadsDone THEN Append(reports, EndReport) ELSE reports

TapeReportsEnd ==
    /\ tape = "report"
    /\ ReportEndOfSession
    /\ tape' = "done"
    /\ UNCHANGED <<setup, requests, tapeTasks, diskTasks, free, fifo, flags, injVars, tapeFile,
                   tapeBlock, validated, diskVars, packerVars, requeued, dropped, faults>>

-----------------------------------------------------------------------------
(* The disk writers                                                        *)

\* DiskWriteWorkerThread::run()
DiskPop(d) ==
    /\ disk[d] = "pop"
    /\ diskTasks # <<>>
    /\ diskTasks' = Tail(diskTasks)
    /\ diskFile' = [diskFile EXCEPT ![d] = Head(diskTasks)]
    /\ disk' = [disk EXCEPT ![d] = IF Head(diskTasks) = End THEN "exit" ELSE "write"]
    /\ UNCHANGED <<setup, requests, tapeTasks, reports, free, fifo, flags, injVars, tapeVars,
                   diskBlock, verifying, active, onDisk, packerVars, requeued, dropped, faults>>

\* A writer takes its next task.
WriteTaskOver(d) ==
    /\ disk' = [disk EXCEPT ![d] = "pop"]
    /\ diskFile' = [diskFile EXCEPT ![d] = End]
    /\ diskBlock' = [diskBlock EXCEPT ![d] = 0]
    /\ verifying' = [verifying EXCEPT ![d] = FALSE]

\* Mutant: a cancelled block is lost.
LoseCancelled(b) == free' = IF b.mark \in {"end", "cancelled"} THEN free ELSE free + 1

\* RecallMemoryManager::releaseBlock()
ReleaseBlock(b) == free' = IF b = EndOfFile THEN free ELSE free + 1

FirstBlock(d) == Head(fifo[diskFile[d]])

\* A disk task pops a block, which goes back to the pool when it was used.
PopBlock(d) ==
    /\ fifo[diskFile[d]] # <<>>
    /\ fifo' = [fifo EXCEPT ![diskFile[d]] = Tail(@)]
    /\ ReleaseBlock(FirstBlock(d))

\* checkErrors()
WrongBlock(d) == FirstBlock(d).mark = "failed" \/ FirstBlock(d).n # diskBlock[d] + 1

\* DiskWriteTask::execute(), one block: a block of a file that is only verified is
\* ignored, a right one is written.
WriteBlock(d) ==
    /\ disk[d] = "write"
    /\ PopBlock(d)
    /\ \/ /\ FirstBlock(d).mark = "verify"
          /\ verifying' = [verifying EXCEPT ![d] = TRUE]
          /\ UNCHANGED diskBlock
       \/ /\ FirstBlock(d).mark = "data"
          /\ ~ WrongBlock(d)
          /\ diskBlock' = [diskBlock EXCEPT ![d] = @ + 1]
          /\ UNCHANGED verifying
    /\ UNCHANGED <<setup, queues, flags, injVars, tapeVars, disk, diskFile, active, onDisk,
                   packerVars, requeued, dropped, faults>>

\* A cancelled file is not reported; its job is destroyed with the task.
CancelTask(d) ==
    /\ disk[d] = "write"
    /\ PopBlock(d)
    /\ FirstBlock(d).mark = "cancelled"
    /\ dropped' = dropped \cup {diskFile[d]}
    /\ WriteTaskOver(d)
    /\ UNCHANGED <<setup, queues, flags, injVars, tapeVars, active, onDisk, packerVars, requeued,
                   faults>>

\* A failed block, or the disk file cannot be opened or written: the blocks that
\* still come are returned first.
WriteError(d) ==
    /\ disk[d] = "write"
    /\ PopBlock(d)
    /\ \/ /\ FirstBlock(d).mark \in {"data", "failed"}
          /\ WrongBlock(d)
          /\ UNCHANGED faults
       \/ /\ FirstBlock(d).mark = "data"
          /\ ~ WrongBlock(d)
          /\ Fault
    /\ disk' = [disk EXCEPT ![d] = "release"]
    /\ UNCHANGED <<setup, queues, flags, injVars, tapeVars, diskFile, diskBlock, verifying, active,
                   onDisk, packerVars, requeued, dropped>>

\* reportCompletedJob(), reportFailedJob()
ReportJob(d, t) == reports' = Append(reports, [type |-> t, file |-> diskFile[d]])

\* The end of the file: it is closed, unless it was only verified, and reported.
CloseFile(d) ==
    /\ disk[d] = "write"
    /\ PopBlock(d)
    /\ FirstBlock(d) = EndOfFile
    /\ onDisk' = [onDisk EXCEPT ![diskFile[d]] = diskBlock[d]]
    /\ ReportJob(d, "completed")
    /\ WriteTaskOver(d)
    /\ UNCHANGED <<setup, requests, tapeTasks, diskTasks, flags, injVars, tapeVars, active,
                   packerVars, requeued, dropped, faults>>

\* WriteFile::close() throws: the handler is the same as for a failed block.
CloseError(d) ==
    /\ disk[d] = "write"
    /\ PopBlock(d)
    /\ FirstBlock(d) = EndOfFile
    /\ ~ verifying[d]
    /\ Fault
    /\ disk' = [disk EXCEPT ![d] = "release"]
    /\ UNCHANGED <<setup, queues, flags, injVars, tapeVars, diskFile, diskBlock, verifying, active,
                   onDisk, packerVars, requeued, dropped>>

\* releaseAllBlock() up to the end of the file, then the failure is reported.
ReleaseAllBlock(d) ==
    /\ disk[d] = "release"
    /\ PopBlock(d)
    /\ \/ /\ FirstBlock(d) # EndOfFile
          /\ UNCHANGED <<disk, diskFile, diskBlock, verifying, reports>>
       \/ /\ FirstBlock(d) = EndOfFile
          /\ ReportJob(d, "failed")
          /\ WriteTaskOver(d)
    /\ UNCHANGED <<setup, requests, tapeTasks, diskTasks, flags, injVars, tapeVars, active,
                   onDisk, packerVars, requeued, dropped, faults>>

\* The last writer sets the flag of the disk side ...
DiskExit(d) ==
    /\ disk[d] = "exit"
    /\ active' = active - 1
    /\ diskDone' = (active = 1)
    /\ disk' = [disk EXCEPT ![d] = IF active = 1 THEN "report" ELSE "done"]
    /\ UNCHANGED <<setup, queues, free, fifo, raoPromise, firstTasksInjected, tapeDone, injVars,
                   tapeVars, diskFile, diskBlock, verifying, onDisk, packerVars, requeued,
                   dropped, faults>>

\* ... and ends the session when the tape thread is done too.
DiskReportsEnd(d) ==
    /\ disk[d] = "report"
    /\ ReportEndOfSession
    /\ disk' = [disk EXCEPT ![d] = "done"]
    /\ UNCHANGED <<setup, requests, tapeTasks, diskTasks, free, fifo, flags, injVars, tapeVars,
                   diskFile, diskBlock, verifying, active, onDisk, packerVars, requeued, dropped,
                   faults>>

-----------------------------------------------------------------------------
(* The report packer                                                       *)

NextReport(t) ==
    /\ packer = "run"
    /\ reports # <<>>
    /\ Head(reports).type = t
    /\ reports' = Tail(reports)

\* fullCheckAndFinishAsyncExecute(), flushAsyncSuccessReports(): each job is waited
\* for by itself; one whose update failed is left to the garbage collector.
FlushSuccessful(s) ==
    \E t \in SUBSET s :
        /\ completed' = completed \cup (s \ t)
        /\ dropped' = dropped \cup t
        /\ \/ t = {} /\ UNCHANGED faults
           \/ t # {} /\ Fault

\* ReportSuccessful::execute(): asyncSetSuccessful(); the jobs are flushed when
\* there are many of them or when it is time.
ReportSuccessful ==
    /\ NextReport("completed")
    /\ LET s == successful \cup {Head(reports).file}
       IN  \/ /\ successful' = s
              /\ UNCHANGED <<completed, dropped, faults>>
           \/ /\ successful' = {}
              /\ FlushSuccessful(s)
    /\ UNCHANGED <<setup, requests, tapeTasks, diskTasks, free, fifo, flags, injVars, tapeVars,
                   diskVars, packer, failed, requeued>>

\* ReportError::execute(): transferFailed().
ReportError ==
    /\ NextReport("failed")
    /\ failed' = failed \cup {Head(reports).file}
    /\ UNCHANGED <<setup, requests, tapeTasks, diskTasks, free, fifo, flags, injVars, tapeVars,
                   diskVars, packer, successful, completed, requeued, dropped, faults>>

\* "We can afford to see any report to fail": the job is destroyed.
ReportThrows ==
    /\ \E t \in {"completed", "failed"} : NextReport(t)
    /\ Fault
    /\ dropped' = dropped \cup {Head(reports).file}
    /\ UNCHANGED <<setup, requests, tapeTasks, diskTasks, free, fifo, flags, injVars, tapeVars,
                   diskVars, packerVars, requeued>>

\* The end of session stops the packer, which flushes the last jobs; the reports
\* left in the queue are discarded.
ReportEnd ==
    /\ NextReport("end")
    /\ packer' = "finish"
    /\ successful' = {}
    /\ FlushSuccessful(successful)
    /\ UNCHANGED <<setup, requests, tapeTasks, diskTasks, free, fifo, flags, injVars, tapeVars,
                   diskVars, failed, requeued>>

DiscardReports ==
    /\ packer = "finish"
    /\ reports' = <<>>
    /\ packer' = "done"
    /\ UNCHANGED <<setup, requests, tapeTasks, diskTasks, free, fifo, flags, injVars, tapeVars,
                   diskVars, successful, completed, failed, requeued, dropped, faults>>

-----------------------------------------------------------------------------
Injector ==
    \/ FetchFirst \/ TestReservation \/ WaitForPromise \/ ReserveSpace \/ ReservationFails
    \/ ReservationThrows \/ InjectTask \/ InjectionDone \/ PopRequest \/ WrapUp
    \/ DrainRequests

TapeThread ==
    \/ MountTape \/ OpenReadSessionFails \/ WaitForFirstTasks \/ PopTask \/ ReadBlock
    \/ ReportErrorToDiskTask \/ TapeCleaning \/ FlushTask \/ SetTapeDone \/ TapeReportsEnd

DiskThread(d) ==
    \/ DiskPop(d) \/ WriteBlock(d) \/ CancelTask(d) \/ WriteError(d) \/ CloseFile(d)
    \/ CloseError(d) \/ ReleaseAllBlock(d) \/ DiskExit(d) \/ DiskReportsEnd(d)

ReportPacker ==
    \/ ReportSuccessful \/ ReportError \/ ReportThrows \/ ReportEnd \/ DiscardReports

Next ==
    \/ Injector
    \/ TapeThread
    \/ \E d \in DiskThreads : DiskThread(d)
    \/ ReportPacker

Spec == Init /\ [][Next]_vars

\* Every thread is scheduled again and again; a thread that waits for a queue, a
\* promise or a block is woken when there is one.
LiveSpec ==
    /\ Spec
    /\ WF_vars(Injector) /\ WF_vars(TapeThread) /\ WF_vars(ReportPacker)
    /\ \A d \in DiskThreads : WF_vars(DiskThread(d))

-----------------------------------------------------------------------------
(* Properties                                                              *)

Ended ==
    /\ inj = "done" /\ tape = "done" /\ packer = "done"
    /\ \A d \in DiskThreads : disk[d] = "done"

Blocks == {Block(n) : n \in 1..MaxBlocks}
          \cup {Marked(m) : m \in {"verify", "failed", "cancelled", "end"}}

ReportSet == [type : {"completed", "failed", "end"}, file : Files \cup {End}]

\* What the session finds, and what is in the queues.
QueuesOK ==
    /\ useRAO \in BOOLEAN /\ need \in [Files -> 1..MaxBlocks] /\ verifyOnly \subseteq Files
    /\ requests \in Seq({"more", "last", "end"})
    /\ tapeTasks \in Seq(Files \cup {End}) /\ diskTasks \in Seq(Files \cup {End})
    /\ reports \in Seq(ReportSet)
    /\ free \in 0..NbBlocks
    /\ fifo \in [Files -> Seq(Blocks)]

InjectorOK ==
    /\ raoPromise \in BOOLEAN /\ firstTasksInjected \in BOOLEAN
    /\ inj \in {"fetch", "test", "empty", "rao", "first", "pushFirst", "inject", "push", "wait",
                "wrapUp", "drain", "done", "dead"}
    /\ next \in 1..NbFiles + 1 /\ jobs \in Seq(Files) /\ batch \in Seq(Files)
    /\ lastCall \in BOOLEAN /\ reservationFailed \in BOOLEAN /\ endSignaled \in BOOLEAN

TapeOK ==
    /\ tape \in {"off", "mount", "label", "pop", "read", "clean", "cleanFailed",
                 "flush", "complete", "report", "done"}
    /\ tapeFile \in Files \cup {End} /\ tapeBlock \in 0..MaxBlocks
    /\ validated \subseteq Files /\ tapeDone \in BOOLEAN

DisksOK ==
    /\ disk \in [DiskThreads -> {"pop", "write", "release", "exit", "report", "done"}]
    /\ diskFile \in [DiskThreads -> Files \cup {End}]
    /\ diskBlock \in [DiskThreads -> 0..MaxBlocks]
    /\ verifying \in [DiskThreads -> BOOLEAN]
    /\ onDisk \in [Files -> 0..MaxBlocks]
    /\ active \in 0..Cardinality(DiskThreads) /\ diskDone \in BOOLEAN

OutcomesOK ==
    /\ packer \in {"run", "finish", "done"}
    /\ successful \subseteq Files /\ completed \subseteq Files /\ failed \subseteq Files
    /\ requeued \subseteq Files /\ dropped \subseteq Files
    /\ faults \in 0..MaxFaults

\* The type of the state: in particular the pool never holds more blocks than
\* RecallMemoryManager created, and the writers are counted down to zero.
TypeOK == QueuesOK /\ InjectorOK /\ TapeOK /\ DisksOK /\ OutcomesOK

\* A job is only reported as successful when the tape thread validated the checksum
\* of the file and a disk file with all its blocks was closed, or when the file was
\* only to be verified: not after an error on either side, whichever thread met it.
DeliveredIsWhole ==
    \A f \in successful \cup completed :
        /\ f \in validated
        /\ f \in verifyOnly \/ onDisk[f] = need[f]

\* A job has at most one outcome: it is reported successful, or failed, or requeued
\* for another mount, or left to the garbage collector of its agent.
OneOutcome ==
    LET Outcome == <<successful \cup completed, failed, requeued, dropped>>
    IN  \A i, j \in 1..4 : i # j => Outcome[i] \cap Outcome[j] = {}

\* When the session is over every job it fetched has an outcome, and no job was
\* left behind without an error.
NoJobForgotten ==
    Ended =>
        /\ completed \cup failed \cup requeued \cup dropped = 1..next - 1
        /\ faults = 0 => completed \cup requeued = 1..next - 1

\* The memory blocks are all back when the session is over.
BlocksComeBack == Ended => free = NbBlocks

\* A disk writer whose file could not be closed waits for an end of file that it
\* has taken already.
EndOfFileTaken ==
    \E d \in DiskThreads :
        /\ disk[d] = "release" /\ fifo[diskFile[d]] = <<>> /\ diskFile[d] \in validated

\* The mount failed while the injector waits for the drive.
PromiseBroken == inj = "rao" /\ ~ raoPromise /\ tape = "flush"

\* The injector threw in its first injection: no task, no end mark, no promise.
InjectorDead == inj = "dead"

\* The session ends, whatever fails: no thread waits for ever for a block, a task,
\* a request or a report (but for the close of a disk file, a mount that fails
\* while RAO is used, and an injector that dies in its first injection).
SessionEnds == <>(Ended \/ inj = "empty" \/ EndOfFileTaken \/ PromiseBroken \/ InjectorDead)

\* "there might still be some blocks into m_fifo.  We need to empty it" (the handler
\* of DiskWriteTask::execute()): the end of the file is still to come.
ReleaseFindsEndOfFile == ~ EndOfFileTaken

\* "Flush the remaining tasks to cleanly exit" (the handler of
\* TapeReadSingleThread::run()): the injector will send the end mark.
FlushIsEnded == ~ PromiseBroken /\ ~ (InjectorDead /\ tape = "flush")

\* "In the last Thread alive, report end of session.  Otherwise end of session will
\* be reported in the tape thread" (DiskWriteWorkerThread::run()): one of them.
OneEndOfSession == Cardinality({i \in 1..Len(reports) : reports[i].type = "end"}) <= 1
====
