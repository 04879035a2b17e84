------------------------- MODULE MigrationSession -------------------------
(***************************************************************************)
(* The threads of a process that writes files to a tape: the task injector, *)
(* the memory manager, the disk readers, the tape thread and the report     *)
(* packer (DataTransferSession::executeWrite()).  Files travel as memory    *)
(* blocks through one pipeline per file, from a disk reader to the tape     *)
(* thread; the blocks come from a fixed pool.  When the tape was flushed    *)
(* the report packer reports the files written so far.                      *)
(*                                                                          *)
(* A file is its fSeq.  A block is one of `pool'; only a block in the data  *)
(* queue of a pipeline has contents ("ok", "failed" or "cancelled").        *)
(***************************************************************************)
EXTENDS Naturals, Sequences, FiniteSets

CONSTANTS
    NbFiles,         \* the files that may be queued for this mount
    MaxBlocks,       \* the blocks a file may need
    NbBlocks,        \* MigrationMemoryManager: numberOfBlocks
    MaxFiles,        \* bulkRequestMigrationMaxFiles
    FilesBeforeFlush,
    DiskThreads,
    MaxFaults        \* bound on the errors of disk, tape and catalogue

ASSUME MigrationAssumption ==
    /\ NbFiles \in Nat /\ MaxBlocks \in Nat
    /\ NbBlocks \in Nat \ {0}
    /\ MaxFiles \in Nat \ {0}
    /\ FilesBeforeFlush \in Nat \ {0}
    /\ IsFiniteSet(DiskThreads) /\ DiskThreads # {}
    /\ MaxFaults \in Nat

Files == 1..NbFiles
End == 0            \* the nullptr that ends a queue of tasks or clients

VARIABLES
    need,       \* blocks per file
    next,       \* the next file getNextJobBatch() returns
    errorFlag,  \* MigrationTaskInjector::m_errorFlag, shared by the tasks
    \* the queues between the threads
    requests, clients, diskTasks, tapeTasks, reports,
    \* the pool and the pipelines
    pool,       \* number of free blocks
    provided,   \* blocks given to the pipeline of a file ...
    ready,      \* ... of which so many wait for the disk reader
    data,       \* the blocks that wait for the tape thread
    popped,     \* blocks the tape thread took
    \* the threads
    inj, batch, wrapUp,
    mm, mmFile,
    disk, diskFile, diskBlock,
    tape, tapeFile, after, lastFSeq, files,
    packer, errorHappened, successful, skipped, tapeFull,
    \* history
    onTape,     \* what was written, in order
    safe,       \* how much of it is flushed
    reported, failed,
    lostAnswer, \* recorded by a call to the catalogue that threw all the same
    doubled,    \* files of which a block was pushed a second time
    abandoned,  \* tasks destroyed before their blocks were returned
    faults,
    crashed     \* the process died in an access to a destroyed task

queues == <<requests, clients, diskTasks, tapeTasks, reports>>
pipes == <<provided, ready, data, popped>>
injVars == <<inj, batch, wrapUp, next>>
mmVars == <<mm, mmFile>>
diskVars == <<disk, diskFile, diskBlock, doubled>>
tapeVars == <<tape, tapeFile, after, lastFSeq, files, onTape, safe, abandoned>>
packerVars == <<packer, errorHappened, successful, skipped, tapeFull, reported, failed,
                lostAnswer>>
vars == <<need, next, errorFlag, queues, pool, pipes, inj, batch, wrapUp, mmVars,
          diskVars, tapeVars, packerVars, faults, crashed>>

Pushed(f) == popped[f] + Len(data[f])

-----------------------------------------------------------------------------
(* Start                                                                   *)

FilesFrom(f, k) == [i \in 1..k |-> f + i - 1]

\* executeWrite(): synchronousInjection() popped twice the usual number of files
\* (the mount was not empty), then the threads are started.
Init ==
    /\ need \in [Files -> 1..MaxBlocks]
    /\ \E k \in 1..2 * MaxFiles :
         /\ k <= NbFiles
         /\ next = k + 1
         /\ tapeTasks = FilesFrom(1, k)
         /\ clients = FilesFrom(1, k)
         /\ diskTasks = FilesFrom(1, k)
    /\ errorFlag = FALSE
    /\ requests = <<>> /\ reports = <<>>
    /\ pool = NbBlocks
    /\ provided = [f \in Files |-> 0]
    /\ ready = [f \in Files |-> 0]
    /\ data = [f \in Files |-> <<>>]
    /\ popped = [f \in Files |-> 0]
    /\ inj = "check" /\ batch = <<>> /\ wrapUp = FALSE
    /\ mm = "wait" /\ mmFile = End
    /\ disk = [d \in DiskThreads |-> "idle"]
    /\ diskFile = [d \in DiskThreads |-> End]
    /\ diskBlock = [d \in DiskThreads |-> 0]
    /\ tape = "mount" /\ tapeFile = End /\ after = "none"
    /\ lastFSeq = 0 /\ files = 0
    /\ packer = "run" /\ errorHappened = FALSE /\ successful = {} /\ skipped = {}
    /\ tapeFull = FALSE
    /\ onTape = <<>> /\ safe = 0
    /\ reported = {} /\ failed = {} /\ lostAnswer = {} /\ doubled = {} /\ abandoned = {}
    /\ faults = 0 /\ crashed = FALSE

Fault == faults < MaxFaults /\ faults' = faults + 1

-----------------------------------------------------------------------------
(* The task injector                                                       *)

\* signalEndDataMovement(): an end mark for the tape thread, one for each disk
\* reader and one for the memory manager.
SignalEndDataMovement ==
    /\ tapeTasks' = Append(tapeTasks, End)
    /\ diskTasks' = diskTasks \o [i \in 1..Cardinality(DiskThreads) |-> End]
    /\ clients' = Append(clients, End)
    /\ inj' = "drain"

\* WorkerThread::run(): the error flag ends the session ...
InjectorCheck ==
    /\ inj = "check"
    /\ \/ /\ errorFlag
          /\ SignalEndDataMovement
       \/ /\ ~ errorFlag
          /\ inj' = "wait"
          /\ UNCHANGED <<tapeTasks, diskTasks, clients>>
    /\ UNCHANGED <<need, next, errorFlag, requests, reports, pool, pipes, batch, wrapUp, mmVars,
                   diskVars, tapeVars, packerVars, faults, crashed>>

\* ... otherwise a request is awaited and the next batch is popped.  The session
\* ends when there is nothing after a last call, or when there was little.  How
\* many bytes the files have is left open.
GetNextJobBatch ==
    /\ inj = "wait"
    /\ requests # <<>>
    /\ requests' = Tail(requests)
    /\ \E k \in 0..MaxFiles :
         /\ k = 0 \/ (Head(requests) # "end" /\ next + k - 1 <= NbFiles)
         /\ \/ /\ k = 0 /\ Head(requests) = "more"
               /\ inj' = "check"
               /\ UNCHANGED <<batch, wrapUp, next, tapeTasks, diskTasks, clients>>
            \/ /\ k = 0 /\ Head(requests) # "more"
               /\ SignalEndDataMovement
               /\ UNCHANGED <<batch, wrapUp, next>>
            \/ /\ k > 0
               /\ batch' = FilesFrom(next, k)
               /\ next' = next + k
               /\ wrapUp' \in IF 2 * k < MaxFiles THEN BOOLEAN ELSE {FALSE}
               /\ inj' = "inject"
               /\ UNCHANGED <<tapeTasks, diskTasks, clients>>
    /\ UNCHANGED <<need, errorFlag, reports, pool, pipes, mmVars, diskVars, tapeVars, packerVars,
                   faults, crashed>>

\* The batch could not be popped.
GetNextJobBatchError ==
    /\ inj = "wait"
    /\ requests # <<>>
    /\ requests' = Tail(requests)
    /\ Fault
    /\ SignalEndDataMovement
    /\ UNCHANGED <<need, next, errorFlag, reports, pool, pipes, batch, wrapUp, mmVars, diskVars,
                   tapeVars, packerVars, crashed>>

\* injectBulkMigrations(), one file at a time: the tape write task registers its
\* pipeline with the memory manager, then both tasks are queued.
InjectFile ==
    /\ inj = "inject"
    /\ batch # <<>>
    /\ batch' = Tail(batch)
    /\ tapeTasks' = Append(tapeTasks, Head(batch))
    /\ clients' = Append(clients, Head(batch))
    /\ diskTasks' = Append(diskTasks, Head(batch))
    /\ UNCHANGED <<need, next, errorFlag, requests, reports, pool, pipes, inj, wrapUp, mmVars,
                   diskVars, tapeVars, packerVars, faults, crashed>>

InjectionDone ==
    /\ inj = "inject"
    /\ batch = <<>>
    /\ \/ /\ wrapUp
          /\ SignalEndDataMovement
       \/ /\ ~ wrapUp
          /\ inj' = "check"
          /\ UNCHANGED <<tapeTasks, diskTasks, clients>>
    /\ wrapUp' = FALSE
    /\ UNCHANGED <<need, next, errorFlag, requests, reports, pool, pipes, batch, mmVars,
                   diskVars, tapeVars, packerVars, faults, crashed>>

\* The requests that still come are discarded, up to the end mark.
DrainRequests ==
    /\ inj = "drain"
    /\ requests # <<>>
    /\ requests' = Tail(requests)
    /\ inj' = IF Head(requests) = "end" THEN "done" ELSE "drain"
    /\ UNCHANGED <<need, next, errorFlag, clients, diskTasks, tapeTasks, reports, pool, pipes,
                   batch, wrapUp, mmVars, diskVars, tapeVars, packerVars, faults, crashed>>

-----------------------------------------------------------------------------
(* The memory manager                                                      *)

\* MigrationMemoryManager::run(): the pipelines are served one after the other,
\* each until it has all the blocks it needs.
NextClient ==
    /\ mm = "wait"
    /\ clients # <<>>
    /\ clients' = Tail(clients)
    /\ mmFile' = Head(clients)
    /\ mm' = IF Head(clients) = End THEN "done" ELSE "serve"
    /\ UNCHANGED <<need, errorFlag, requests, diskTasks, tapeTasks, reports, pool, pipes,
                   injVars, diskVars, tapeVars, packerVars, faults, crashed>>

AllBlocksProvided(f) == provided'[f] >= need[f]

ProvideBlock ==
    /\ mm = "serve"
    /\ pool > 0
    /\ pool' = pool - 1
    /\ provided' = [provided EXCEPT ![mmFile] = @ + 1]
    /\ ready' = [ready EXCEPT ![mmFile] = @ + 1]
    /\ IF AllBlocksProvided(mmFile)
       THEN mm' = "wait" /\ mmFile' = End
       ELSE UNCHANGED <<mm, mmFile>>
    /\ UNCHANGED <<need, errorFlag, queues, data, popped, injVars, diskVars, tapeVars,
                   packerVars, faults, crashed>>

-----------------------------------------------------------------------------
(* The disk readers                                                        *)

\* DiskReadThreadPool::popAndRequestMore(): whoever takes the last task asks for
\* more, and so does the one who leaves half a batch.  The last thread to find
\* an end mark tells the injector.
PopAndRequestMore(d) ==
    LET left == Len(diskTasks) - 1
        more == IF left = 0 THEN <<"last">>
                ELSE IF left + 1 = MaxFiles \div 2 THEN <<"more">> ELSE <<>>
        finish == IF \A d2 \in DiskThreads \ {d} : disk[d2] = "done" THEN <<"end">> ELSE <<>> IN
    /\ disk[d] = "idle"
    /\ diskTasks # <<>>
    /\ diskTasks' = Tail(diskTasks)
    /\ diskFile' = [diskFile EXCEPT ![d] = Head(diskTasks)]
    /\ \/ /\ Head(diskTasks) # End
          /\ disk' = [disk EXCEPT ![d] = "open"]
          /\ diskBlock' = [diskBlock EXCEPT ![d] = 0]
          /\ requests' = requests \o more
       \/ /\ Head(diskTasks) = End
          /\ disk' = [disk EXCEPT ![d] = "done"]
          /\ requests' = requests \o more \o finish
          /\ UNCHANGED diskBlock
    /\ UNCHANGED <<doubled, need, errorFlag, clients, tapeTasks, reports, pool, pipes, injVars, mmVars,
                   tapeVars, packerVars, faults, crashed>>

\* checkMigrationFailing(): the task stops reading and only passes blocks on.
CheckMigrationFailing(d) ==
    /\ disk[d] \in {"open", "loop"}
    /\ errorFlag
    /\ disk' = [disk EXCEPT ![d] = "circulate"]
    /\ UNCHANGED <<need, errorFlag, queues, pool, pipes, injVars, mmVars, diskFile, diskBlock, doubled,
                   tapeVars, packerVars, faults, crashed>>

\* The file is opened, or the next block is wanted.
DiskProceed(d) ==
    /\ disk[d] \in {"open", "loop"}
    /\ ~ errorFlag
    /\ disk' = [disk EXCEPT ![d] = "read"]
    /\ UNCHANGED <<need, errorFlag, queues, pool, pipes, injVars, mmVars, diskFile, diskBlock, doubled,
                   tapeVars, packerVars, faults, crashed>>

\* The file cannot be opened or has another size.
DiskOpenError(d) ==
    /\ disk[d] = "open"
    /\ ~ errorFlag
    /\ Fault
    /\ disk' = [disk EXCEPT ![d] = "fail"]
    /\ UNCHANGED <<need, errorFlag, queues, pool, pipes, injVars, mmVars, diskFile, diskBlock, doubled,
                   tapeVars, packerVars, crashed>>

\* pushDataBlock(): a pipeline takes no more blocks than its file needs.  The
\* exception is thrown in a handler of DiskReadTask::execute() and ends the thread,
\* which no longer counts itself out (m_nbActiveThread).
PushDataBlock(d, content, then) ==
    LET f == diskFile[d] IN
    IF Pushed(f) < need[f]
    THEN /\ data' = [data EXCEPT ![f] = Append(@, content)]
         /\ disk' = [disk EXCEPT ![d] = then]
    ELSE /\ disk' = [disk EXCEPT ![d] = "dead"]
         /\ UNCHANGED data

\* getFreeBlock() and pushDataBlock(): a block goes through the reader's hands.
PassBlock(d, content, then, end) ==
    LET f == diskFile[d]
        last == diskBlock[d] + 1 >= need[f] IN
    /\ ready[f] > 0
    /\ ready' = [ready EXCEPT ![f] = @ - 1]
    /\ PushDataBlock(d, content, IF last THEN end ELSE then)
    /\ diskBlock' = [diskBlock EXCEPT ![d] = IF last THEN 0 ELSE @ + 1]
    /\ diskFile' = [diskFile EXCEPT ![d] = IF last THEN End ELSE @]
    /\ UNCHANGED <<need, errorFlag, queues, pool, provided, popped, injVars, mmVars, tapeVars,
                   packerVars, crashed>>

\* Once a block was pushed twice it has two users: a reader may find its block
\* marked as failed, or the tape thread may find it reset or of another file, which
\* it takes as it takes a cancelled one (checkErrors()).
Contents == IF doubled = {} THEN {"ok"} ELSE {"ok", "failed", "cancelled"}

ReadBlock(d) ==
    /\ disk[d] = "read"
    /\ \E content \in Contents : PassBlock(d, content, "loop", "idle")
    /\ UNCHANGED <<doubled, faults>>

\* The exception handler of DiskReadTask::execute(): one failed block tells the
\* tape thread, the rest are passed on as cancelled (circulateAllBlocks()).
ReadError(d) ==
    /\ disk[d] \in {"read", "fail"}
    /\ PassBlock(d, "failed", "circulate", "idle")
    /\ IF disk[d] = "read" THEN Fault ELSE UNCHANGED faults
    /\ UNCHANGED doubled

\* A block is not full and the file is not at its end: the block is marked as failed
\* and pushed, and then an exception is thrown with the block still at hand.  After
\* the last block of the file the handler's push is one too many for the pipeline.
ShortRead(d) ==
    /\ disk[d] = "read"
    /\ Fault
    /\ PassBlock(d, "failed", "again", "dead")
    /\ doubled' = IF diskBlock[d] + 1 >= need[diskFile[d]]
                  THEN doubled ELSE doubled \union {diskFile[d]}

\* The handler pushes the block at hand, which is the tape thread's by now.
PushAgain(d) ==
    /\ disk[d] = "again"
    /\ PushDataBlock(d, "failed", "circulate")
    /\ UNCHANGED <<need, errorFlag, queues, pool, provided, ready, popped, injVars, mmVars,
                   diskFile, diskBlock, doubled, tapeVars, packerVars, faults, crashed>>

\* getFreeBlock() finds a block that is not empty, which another user fills: it throws.
GetFreeBlockError(d) ==
    /\ doubled # {}
    /\ disk[d] \in {"read", "fail", "circulate"}
    /\ ready[diskFile[d]] > 0
    /\ disk' = [disk EXCEPT ![d] = IF disk[d] = "read" THEN "fail" ELSE "dead"]
    /\ UNCHANGED <<need, errorFlag, queues, pool, pipes, injVars, mmVars, diskFile, diskBlock,
                   doubled, tapeVars, packerVars, faults, crashed>>

\* Mutant: the handler leaves the rest of the blocks where they are.
CirculateNothing(d) ==
    /\ disk[d] = "circulate"
    /\ disk' = [disk EXCEPT ![d] = "idle"]
    /\ UNCHANGED <<need, errorFlag, queues, pool, pipes, injVars, mmVars, diskFile, diskBlock, doubled,
                   tapeVars, packerVars, faults, crashed>>

CirculateAllBlocks(d) ==
    /\ disk[d] = "circulate"
    /\ PassBlock(d, "cancelled", "circulate", "idle")
    /\ UNCHANGED <<doubled, faults>>

-----------------------------------------------------------------------------
(* The tape thread                                                         *)

Report(r) == reports' = Append(reports, r)

\* What the tape thread leaves alone.
TapeFrame == UNCHANGED <<need, clients, diskTasks, provided, ready, injVars, mmVars, diskVars,
                         packerVars, crashed>>

\* An exception leaves the scope of TapeCleaning.
Unwind(why) == tape' = "clean" /\ after' = why /\ tapeFile' = End

MountTape ==
    /\ tape = "mount"
    /\ \/ /\ tape' = "next"
          /\ UNCHANGED <<after, tapeFile, faults>>
       \/ Fault /\ Unwind("error")
    /\ TapeFrame
    /\ UNCHANGED <<errorFlag, requests, tapeTasks, reports, pool, data, popped, lastFSeq,
                   files, onTape, safe, abandoned>>

ValidateNextFSeq(f) == f = lastFSeq + 1

\* Mutant: the session ends without a flush.
EndUnflushed == tape' = "clean" /\ after' = "end"

\* No more data to write: flush without asking.
EndOfTasks == tape' = "flush" /\ after' = "end"

\* The next task: the end of the session flushes without asking, a file that does
\* not follow the last one on tape ends it (validateNextFSeq() throws outside the
\* try block of execute(): the task is destroyed as it is), another is opened.
PopTask ==
    LET f == Head(tapeTasks) IN
    /\ tape = "next"
    /\ tapeTasks # <<>>
    /\ tapeTasks' = Tail(tapeTasks)
    /\ \/ /\ f = End
          /\ EndOfTasks
          /\ UNCHANGED <<tapeFile, onTape, abandoned>>
       \/ /\ f # End /\ ~ ValidateNextFSeq(f)
          /\ Unwind("error")
          /\ abandoned' = abandoned \union {f}
          /\ UNCHANGED onTape
       \/ /\ f # End /\ ValidateNextFSeq(f)
          /\ tape' = "data" /\ tapeFile' = f
          /\ onTape' = Append(onTape, <<f, "partial">>)
          /\ UNCHANGED <<after, abandoned>>
    /\ TapeFrame
    /\ UNCHANGED <<errorFlag, requests, reports, pool, data, popped, lastFSeq, files, safe, faults>>

\* The last file on tape gets its trailer.
CloseAs(what) == onTape' = [onTape EXCEPT ![Len(onTape)] = <<tapeFile, what>>]

\* The exception handlers of execute(): the error flag is set, then the blocks of
\* the file are circulated; `after' says what follows.
Fail(why) == errorFlag' = TRUE /\ tape' = "circulate" /\ after' = why

\* popDataBlock() and the release of the block: a file of which nothing could be
\* read leaves a placeholder, one that fails later leaves a partial file.
WriteBlock ==
    LET content == Head(data[tapeFile]) IN
    /\ tape = "data"
    /\ data[tapeFile] # <<>>
    /\ data' = [data EXCEPT ![tapeFile] = Tail(@)]
    /\ popped' = [popped EXCEPT ![tapeFile] = @ + 1]
    /\ pool' = pool + 1
    /\ \/ /\ content = "ok"
          /\ UNCHANGED <<tape, after, errorFlag, onTape>>
       \/ /\ content = "failed" /\ popped[tapeFile] = 0
          /\ CloseAs("placeholder")
          /\ tape' = "circulate" /\ after' = "skip"
          /\ UNCHANGED errorFlag
       \/ /\ content = "failed" /\ popped[tapeFile] > 0
          /\ Fail("recover")
          /\ UNCHANGED onTape
       \/ /\ content = "cancelled"
          /\ Fail("error")
          /\ UNCHANGED onTape
    /\ TapeFrame
    /\ UNCHANGED <<requests, tapeTasks, reports, tapeFile, lastFSeq, files, safe, abandoned, faults>>

\* The drive refuses a header, a block or a trailer, or the tape is full.  The
\* block, if there is one, goes back to the pool.
WriteError ==
    /\ tape = "data"
    /\ Fault
    /\ \E why \in {"error", "full"} :
         /\ Fail(why)
         /\ IF why = "full" THEN Report([kind |-> "full"]) ELSE UNCHANGED reports
    /\ \/ /\ popped[tapeFile] \in {0, need[tapeFile]}
          /\ UNCHANGED <<pool, data, popped>>
       \/ /\ data[tapeFile] # <<>>
          /\ \/ Head(data[tapeFile]) = "ok"
             \/ Head(data[tapeFile]) = "failed" /\ popped[tapeFile] = 0
          /\ data' = [data EXCEPT ![tapeFile] = Tail(@)]
          /\ popped' = [popped EXCEPT ![tapeFile] = @ + 1]
          /\ pool' = pool + 1
    /\ TapeFrame
    /\ UNCHANGED <<requests, tapeTasks, tapeFile, lastFSeq, files, onTape, safe, abandoned>>

\* After a task that did not throw: the flush thresholds.  How many bytes the
\* files have is left open.
EndOfTask ==
    /\ files' = files + 1
    /\ tape' \in IF files + 1 >= FilesBeforeFlush THEN {"flush"} ELSE {"flush", "next"}
    /\ after' = "none" /\ tapeFile' = End

CloseFile ==
    /\ tape = "data"
    /\ popped[tapeFile] = need[tapeFile]
    /\ CloseAs("file")
    /\ lastFSeq' = tapeFile
    /\ Report([kind |-> "ok", file |-> tapeFile])
    /\ EndOfTask
    /\ TapeFrame
    /\ UNCHANGED <<errorFlag, requests, tapeTasks, pool, data, popped, safe, abandoned, faults>>

\* Mutant: the block is taken from the pipeline and not given back.
KeepBlock == UNCHANGED pool

\* releaseBlock()
ReleaseBlock == pool' = pool + 1

\* circulateMemBlocks(): the blocks of the file go back to the pool, whatever
\* they hold, until the pipeline is finished.
CirculateMemBlocks ==
    /\ tape = "circulate"
    /\ popped[tapeFile] < need[tapeFile]
    /\ data[tapeFile] # <<>>
    /\ data' = [data EXCEPT ![tapeFile] = Tail(@)]
    /\ popped' = [popped EXCEPT ![tapeFile] = @ + 1]
    /\ ReleaseBlock
    /\ TapeFrame
    /\ UNCHANGED <<errorFlag, requests, tapeTasks, reports, tape, tapeFile, after, lastFSeq, files,
                   onTape, safe, abandoned, faults>>

\* Mutant: a file that failed half way is reported as skipped.
ReportRecoverableAsSkipped == Report([kind |-> "skip", file |-> tapeFile])

ReportRecoverable == Report([kind |-> "error", file |-> tapeFile])

\* The end of the exception handlers.
HandlerDone ==
    /\ tape = "circulate"
    /\ popped[tapeFile] = need[tapeFile]
    /\ \/ /\ after = "skip"
          /\ lastFSeq' = tapeFile
          /\ Report([kind |-> "skip", file |-> tapeFile])
          /\ EndOfTask
       \/ /\ after = "recover"
          /\ ReportRecoverable
          /\ EndOfTask
          /\ UNCHANGED lastFSeq
       \/ /\ after = "error"
          /\ Report([kind |-> "error", file |-> tapeFile])
          /\ Unwind("error")
          /\ UNCHANGED <<lastFSeq, files>>
       \/ /\ after = "full"
          /\ Unwind("full")
          /\ UNCHANGED <<lastFSeq, files, reports>>
       \/ /\ after = "drain"
          /\ tape' = "drain" /\ after' = "none" /\ tapeFile' = End
          /\ UNCHANGED <<lastFSeq, files, reports>>
    /\ TapeFrame
    /\ UNCHANGED <<errorFlag, requests, tapeTasks, pool, data, popped, onTape, safe, abandoned,
                   faults>>

\* Mutant: the flush is reported but the drive keeps the data in its buffer.
TapeFlushNothing ==
    /\ Report([kind |-> "flush"])
    /\ UNCHANGED safe

\* tapeFlush()
TapeFlush ==
    /\ safe' = Len(onTape)
    /\ Report([kind |-> "flush"])

Flush ==
    /\ tape = "flush"
    /\ \/ /\ TapeFlush
          /\ files' = 0
          /\ tape' = IF after = "end" THEN "clean" ELSE "next"
          /\ UNCHANGED <<after, tapeFile, faults>>
       \/ /\ Fault
          /\ \E why \in {"error", "full"} : Unwind(why)
          /\ UNCHANGED <<safe, files, reports>>
    /\ TapeFrame
    /\ UNCHANGED <<errorFlag, requests, tapeTasks, pool, data, popped, lastFSeq, onTape, abandoned>>

\* The tasks that are left are only drained.
DegradedMode == tape' = "drain"

\* ~TapeCleaning() tells the injector that the session ends; after an exception
\* the error flag is set and the tasks that are left are drained.
TapeCleaning ==
    /\ tape = "clean"
    /\ requests' = Append(requests, "end")
    /\ \/ /\ after = "end"
          /\ tape' = "done"
          /\ Report([kind |-> "end"])
          /\ UNCHANGED errorFlag
       \/ /\ after # "end"
          /\ DegradedMode
          /\ errorFlag' = TRUE
          /\ IF after = "full" THEN Report([kind |-> "full"]) ELSE UNCHANGED reports
    /\ after' = "none"
    /\ TapeFrame
    /\ UNCHANGED <<tapeTasks, pool, data, popped, tapeFile, lastFSeq, files, onTape, safe,
                   abandoned, faults>>

DrainTask ==
    LET f == Head(tapeTasks) IN
    /\ tape = "drain"
    /\ tapeTasks # <<>>
    /\ tapeTasks' = Tail(tapeTasks)
    /\ \/ /\ f = End
          /\ tape' = "done"
          /\ Report([kind |-> "end"])
          /\ UNCHANGED <<tapeFile, after>>
       \/ /\ f # End
          /\ tape' = "circulate" /\ tapeFile' = f /\ after' = "drain"
          /\ UNCHANGED reports
    /\ TapeFrame
    /\ UNCHANGED <<errorFlag, requests, pool, data, popped, lastFSeq, files, onTape, safe,
                   abandoned, faults>>

-----------------------------------------------------------------------------
(* The report packer                                                       *)

\* What the report packer leaves alone.
PackerFrame == UNCHANGED <<need, errorFlag, requests, clients, diskTasks, tapeTasks, pool, pipes,
                           injVars, mmVars, diskVars, tapeVars, crashed>>

NextReport(kind) ==
    /\ packer = "run"
    /\ reports # <<>>
    /\ Head(reports).kind = kind
    /\ reports' = Tail(reports)

ReportSuccessful ==
    /\ NextReport("ok")
    /\ successful' = successful \union {Head(reports).file}
    /\ PackerFrame
    /\ UNCHANGED <<packer, errorHappened, skipped, tapeFull, reported, failed, lostAnswer, faults>>

\* transferFailed() for the file at once, its place on tape with the next flush.
ReportSkipped ==
    /\ NextReport("skip")
    /\ failed' = failed \union {Head(reports).file}
    /\ skipped' = skipped \union {Head(reports).file}
    /\ PackerFrame
    /\ UNCHANGED <<packer, errorHappened, successful, tapeFull, reported, lostAnswer, faults>>

ReportError ==
    /\ NextReport("error")
    /\ errorHappened' = TRUE
    /\ failed' = failed \union {Head(reports).file}
    /\ PackerFrame
    /\ UNCHANGED <<packer, successful, skipped, tapeFull, reported, lostAnswer, faults>>

\* ReportFlush::execute(): nothing is reported after an error.
ReportFlush ==
    /\ NextReport("flush")
    /\ IF errorHappened
       THEN UNCHANGED <<reported, successful, skipped>>
       ELSE /\ reported' = reported \union successful
            /\ successful' = {} /\ skipped' = {}
    /\ PackerFrame
    /\ UNCHANGED <<packer, errorHappened, tapeFull, failed, lostAnswer, faults>>

\* Mutant: the transfers fail although the catalogue has the files.
MoveToQueueFailsTransfers ==
    /\ reported' = reported \union successful
    /\ failed' = failed \union successful
    /\ UNCHANGED lostAnswer

\* FailedReportMoveToQueue: the catalogue has the files, the jobs could not be
\* queued for reporting to the user (failReport()).
MoveToQueueFails ==
    /\ reported' = reported \union successful
    /\ UNCHANGED <<failed, lostAnswer>>

\* updateCatalogueWithTapeFilesWritten() throws, before it has recorded the files or
\* after: the answer to a commit may be lost with the connection, and the attempt
\* that follows is refused.  The transfers have failed in both cases.
CatalogueUpdateFails ==
    /\ failed' = failed \union successful
    /\ \/ UNCHANGED <<reported, lostAnswer>>
       \/ /\ reported' = reported \union successful
          /\ lostAnswer' = lostAnswer \union successful

\* reportJobsBatchTransferred() throws: the transfers have failed, those up to a
\* file that is not valid or all of them, or they could not be queued for
\* reporting.  The exception ends the report packer.
ReportFlushError ==
    /\ NextReport("flush")
    /\ ~ errorHappened
    /\ successful \union skipped # {}
    /\ Fault
    /\ packer' = "drain"
    /\ \/ /\ CatalogueUpdateFails
          /\ successful' = {} /\ skipped' = {}
       \/ \E f \in successful :
             /\ failed' = failed \union {g \in successful : g <= f}
             /\ successful' = {g \in successful : g > f}
             /\ UNCHANGED <<skipped, reported, lostAnswer>>
       \/ /\ MoveToQueueFails
          /\ successful' = {} /\ skipped' = {}
    /\ PackerFrame
    /\ UNCHANGED <<errorHappened, tapeFull>>

ReportTapeFull ==
    /\ NextReport("full")
    /\ tapeFull' = TRUE
    /\ PackerFrame
    /\ UNCHANGED <<packer, errorHappened, successful, skipped, reported, failed, lostAnswer, faults>>

ReportEndofSession ==
    /\ NextReport("end")
    /\ packer' = "drain"
    /\ PackerFrame
    /\ UNCHANGED <<errorHappened, successful, skipped, tapeFull, reported, failed, lostAnswer, faults>>

\* What is in the queue is discarded, then the thread ends: a report that comes
\* later stays in the queue.
DrainReports ==
    /\ packer = "drain"
    /\ packer' = "done"
    /\ reports' = <<>>
    /\ PackerFrame
    /\ UNCHANGED <<errorHappened, successful, skipped, tapeFull, reported, failed, lostAnswer, faults>>

-----------------------------------------------------------------------------

\* A task was destroyed while its disk read task or the memory manager may still
\* hold a reference to it: their next access is undefined.
UseDestroyedTask ==
    /\ \/ mm = "serve" /\ mmFile \in abandoned
       \/ mm = "wait" /\ clients # <<>> /\ Head(clients) \in abandoned
       \/ \E d \in DiskThreads : disk[d] \notin {"idle", "done", "dead"} /\ diskFile[d] \in abandoned
    /\ crashed' = TRUE
    /\ UNCHANGED <<need, next, errorFlag, queues, pool, pipes, inj, batch, wrapUp, mmVars,
                   diskVars, tapeVars, packerVars, faults>>

Injector ==
    \/ InjectorCheck \/ GetNextJobBatch \/ GetNextJobBatchError
    \/ InjectFile \/ InjectionDone \/ DrainRequests

MemoryManager == NextClient \/ ProvideBlock

DiskReader(d) ==
    \/ PopAndRequestMore(d) \/ CheckMigrationFailing(d) \/ DiskProceed(d) \/ DiskOpenError(d)
    \/ ReadBlock(d) \/ ReadError(d) \/ ShortRead(d) \/ PushAgain(d) \/ GetFreeBlockError(d)
    \/ CirculateAllBlocks(d)

TapeThread ==
    \/ MountTape \/ PopTask \/ WriteBlock \/ WriteError \/ CloseFile
    \/ CirculateMemBlocks \/ HandlerDone \/ Flush \/ TapeCleaning \/ DrainTask

Packer ==
    \/ ReportSuccessful \/ ReportSkipped \/ ReportError \/ ReportFlush \/ ReportFlushError
    \/ ReportTapeFull \/ ReportEndofSession \/ DrainReports

\* The process ends when all its threads have.
Ended ==
    /\ inj = "done" /\ mm = "done" /\ tape = "done" /\ packer = "done"
    /\ \A d \in DiskThreads : disk[d] \in {"done", "dead"}

Next ==
    /\ ~ crashed
    /\ \/ Injector \/ MemoryManager \/ TapeThread \/ Packer
       \/ \E d \in DiskThreads : DiskReader(d)
       \/ UseDestroyedTask

Spec == Init /\ [][Next]_vars

\* Every thread runs on as long as it is not blocked on a queue.
LiveSpec ==
    /\ Spec
    /\ WF_vars(Injector /\ ~ crashed) /\ WF_vars(MemoryManager /\ ~ crashed)
    /\ WF_vars(TapeThread /\ ~ crashed) /\ WF_vars(Packer /\ ~ crashed)
    /\ \A d \in DiskThreads : WF_vars(DiskReader(d) /\ ~ crashed)

-----------------------------------------------------------------------------

ReportSet == [kind : {"ok", "skip", "error"}, file : Files] \union [kind : {"flush", "full", "end"}]

\* The queues between the threads and the injector.
QueuesOK ==
    /\ next \in 1..NbFiles + 1
    /\ requests \in Seq({"more", "last", "end"})
    /\ clients \in Seq(Files \union {End})
    /\ diskTasks \in Seq(Files \union {End})
    /\ tapeTasks \in Seq(Files \union {End})
    /\ inj \in {"check", "wait", "inject", "drain", "done"}
    /\ batch \in Seq(Files) /\ wrapUp \in BOOLEAN

\* The pool, the pipelines and the memory manager.
PipesOK ==
    /\ need \in [Files -> 1..MaxBlocks]
    /\ pool \in Nat
    /\ data \in [Files -> Seq({"ok", "failed", "cancelled"})]
    /\ provided \in [Files -> Nat] /\ ready \in [Files -> Nat] /\ popped \in [Files -> Nat]
    /\ \A f \in Files : Pushed(f) <= need[f] /\ provided[f] <= need[f]
    /\ mm \in {"wait", "serve", "done"} /\ mmFile \in Files \union {End}

DisksOK ==
    /\ disk \in [DiskThreads -> {"idle", "open", "loop", "read", "again", "fail", "circulate", "done",
                             "dead"}]
    /\ diskFile \in [DiskThreads -> Files \union {End}]
    /\ diskBlock \in [DiskThreads -> Nat] /\ doubled \subseteq Files
    /\ errorFlag \in BOOLEAN /\ faults \in 0..MaxFaults /\ crashed \in BOOLEAN

TapeOK ==
    /\ tape \in {"mount", "next", "data", "circulate", "flush", "clean", "drain", "done"}
    /\ tapeFile \in Files \union {End}
    /\ after \in {"none", "end", "skip", "recover", "error", "full", "drain"}
    /\ lastFSeq \in 0..NbFiles /\ files \in 0..FilesBeforeFlush
    /\ onTape \in Seq(Files \X {"partial", "file", "placeholder"}) /\ safe \in 0..Len(onTape)
    /\ abandoned \subseteq Files

PackerOK ==
    /\ reports \in Seq(ReportSet)
    /\ packer \in {"run", "drain", "done"} /\ errorHappened \in BOOLEAN /\ tapeFull \in BOOLEAN
    /\ successful \subseteq Files /\ skipped \subseteq Files
    /\ reported \subseteq Files /\ failed \subseteq Files /\ lostAnswer \subseteq Files

TypeOK == QueuesOK /\ PipesOK /\ DisksOK /\ TapeOK /\ PackerOK

\* A file is reported as archived only when it is complete on tape, at the place
\* its fSeq says, and the drive has been flushed since: ReportFlush::execute() may
\* report what came before the flush and nothing else.
FlushedBeforeReported ==
    \A f \in reported : f <= safe /\ onTape[f] = <<f, "file">>

\* No file is both in the catalogue and given back as failed, whatever order the
\* errors of disk, tape and catalogue come in, but for those whose record was
\* committed by a call that threw: ReportFlush::execute() cannot know of them.
OneOutcome == reported \intersect failed \subseteq lostAnswer

\* A place on tape is given up for good when the packer reports it as skipped: the
\* placeholder is there.
SkippedHasPlaceholder ==
    \A f \in skipped : f <= Len(onTape) /\ onTape[f] = <<f, "placeholder">>

\* The blocks a session has taken are back when it ends, unless a task was
\* destroyed with its blocks in flight or a short read pushed a block twice (another
\* is lost in its place).
BlocksComeBack == Ended /\ abandoned = {} /\ doubled = {} => pool = NbBlocks

\* A session without an error reports every file it has taken.
CleanSessionReportsAll == Ended /\ faults = 0 => reported = 1..next - 1

\* The end mark that DrainTask() waits for was consumed before the exception.
EndMarkConsumed ==
    tape = "drain" /\ tapeTasks = <<>> /\ inj \in {"drain", "done"}

\* Short reads have ended every disk reader.
NoReaderLeft == \A d \in DiskThreads : disk[d] = "dead"

\* The session ends, unless a task was destroyed with its blocks in flight, the last
\* flush failed, a short read has given a block two users or the readers have all
\* died of short reads: no thread waits for ever for a block, a task, a request or a
\* report.
SessionEnds ==
    <>(Ended \/ crashed \/ abandoned # {} \/ EndMarkConsumed \/ doubled # {} \/ NoReaderLeft)

\* "we end there because write session could not be opened or because a task
\* failed or because flush failed" (the handler of TapeWriteSingleThread::run()):
\* the handler empties the queue of tasks, so it must find the end mark there.
DrainFindsEndMark == ~ EndMarkConsumed

\* "An error occurred for this file, but migration will proceed as error is
\* recoverable" (TapeWriteTask::execute()): the handler of the recoverable error
\* wants "to report a failed job and proceed with the mount", so that the task
\* that follows is not destroyed by an exception.
RecoverableProceeds == abandoned = {}
====
