---------------------------- MODULE ArchiveJobs ----------------------------
(***************************************************************************)
(* The life of the jobs of one archive request: transfer to tape by mount  *)
(* sessions, retries, the decision whether and what to report to the user, *)
(* the report by the disk reporter, cancellation, and what the garbage     *)
(* collector makes of the jobs of a process that stopped.                  *)
(*                                                                         *)
(* The request is updated under its lock, so an update of the request is   *)
(* one action.  Moving a job to a queue is a second action: the process    *)
(* may stop between the two.  How that move is made safe is the subject of *)
(* ObjectOwnership; here it either happens or fails.                       *)
(***************************************************************************)
EXTENDS Naturals, FiniteSets

CONSTANTS
    NbCopies,              \* number of tape copies, one job each
    Mounts,                \* archive mounts (ids); a mount runs on one drive
    MaxRetriesWithinMount, \* the retry limits stored in the request
    MaxTotalRetries,
    MaxReportRetries,
    MaxStops,              \* bound: processes that crash
    MaxReportFailures,     \* bound: reports the disk system refuses
    MaxErrors              \* bound: errors of the object store

ASSUME LimitAssumption ==
    /\ NbCopies \in Nat \ {0}
    /\ MaxRetriesWithinMount \in Nat
    /\ MaxTotalRetries \in Nat
    /\ MaxReportRetries \in Nat
    /\ MaxStops \in Nat
    /\ MaxReportFailures \in Nat
    /\ MaxErrors \in Nat

Copies == 1 .. NbCopies

TransferQueue == "JobsToTransferForUser"
ReportQueue == "JobsToReportToUser"
FailedQueue == "FailedJobs"
Queues == {TransferQueue, ReportQueue, FailedQueue}

\* The process that runs the DiskReportRunner.
Reporter == "Reporter"
Processes == Mounts \cup {Reporter}
Nobody == ""
Dead == "dead agent"       \* the agent of a process that stopped
Orphan == "forgotten agent" \* the same once its agent object has been removed

ASSUME MountAssumption ==
    Mounts \cap (Queues \cup {Reporter, Nobody, Dead, Orphan}) = {}

Statuses == {"AJS_ToTransferForUser", "AJS_ToReportToUserForTransfer",
             "AJS_ToReportToUserForFailure", "AJS_Complete", "AJS_Failed"}

VARIABLES
    \* the request in the object store
    exists,        \* the object is there
    isFailed,      \* isfailed of the request
    reportDecided, \* reportdecided of the request
    status,        \* status[c]: the status of the job of copy c
    owner,         \* owner[c]: the queue or process that owns it
    total,         \* total[c]: totalretries
    inMount,       \* inMount[c]: retrieswithinmount
    lastMount,     \* lastMount[c]: lastmountwithfailure, Nobody once that mount is over
    reportRetries, \* reportRetries[c]: totalreportretries
    \* the processes
    holder,        \* holder[c]: the process that has the job in memory
    stage,         \* stage[c]: what that process does next with it
    target,        \* target[c]: the queue the job has to be moved to
    reportType,    \* reportType[c]: the kind of report, as decided when it was popped
    \* the catalogue, the disk system
    catalogue,     \* the copies recorded as written to tape
    sent,          \* the reports delivered: <<copy, report type>>
    stops, refusals, errors, \* counters of the bounds
    \* history
    borrowed,      \* a job has been given the status of the first job
    undone,        \* the jobs that were complete when failReport() was called for them
    gcFailed       \* the jobs that garbageCollect() could not requeue and failed

counts == <<total, inMount, lastMount, reportRetries>>
request == <<exists, isFailed, reportDecided, status, owner>>
memory == <<holder, stage, target, reportType>>
outside == <<catalogue, sent>>
bounds == <<stops, refusals, errors>>
history == <<borrowed, undone, gcFailed>>
vars == <<request, counts, memory, outside, bounds, history>>

\* What a process may have to do next with a job: transfer or report it; commit
\* to the scheduler a file that is in the catalogue; wait for that update; move
\* the job to a queue; record a delivered report; nothing more.
Stages == {"none", "held", "written", "updated", "moving", "delivered", "left"}

\* popNextBatch() derives the kind of report from the status it finds.
ReportTypeOf(st) ==
    CASE st = "AJS_ToReportToUserForTransfer" -> "CompletionReport"
      [] st = "AJS_ToReportToUserForFailure" -> "FailureReport"
      [] OTHER -> "NoReportRequired"

\* Mutant: the reports of successful transfers are missing from the set.
QueueableIncomplete == Statuses \ {"AJS_Complete", "AJS_ToReportToUserForTransfer"}

\* c_statusesImplyingQueueing
Queueable == Statuses \ {"AJS_Complete"}

\* getQueueType()
QueueOf(st) ==
    CASE st = "AJS_ToTransferForUser" -> TransferQueue
      [] st \in {"AJS_ToReportToUserForTransfer", "AJS_ToReportToUserForFailure"} -> ReportQueue
      [] OTHER -> FailedQueue

Init ==
    /\ exists = TRUE
    /\ isFailed = FALSE
    /\ reportDecided = FALSE
    /\ status = [c \in Copies |-> "AJS_ToTransferForUser"]
    /\ owner = [c \in Copies |-> TransferQueue]
    /\ total = [c \in Copies |-> 0]
    /\ inMount = [c \in Copies |-> 0]
    /\ lastMount = [c \in Copies |-> Nobody]
    /\ reportRetries = [c \in Copies |-> 0]
    /\ holder = [c \in Copies |-> Nobody]
    /\ stage = [c \in Copies |-> "none"]
    /\ target = [c \in Copies |-> TransferQueue]
    /\ reportType = [c \in Copies |-> "NoReportRequired"]
    /\ catalogue = {}
    /\ sent = {}
    /\ stops = 0
    /\ refusals = 0
    /\ errors = 0
    /\ borrowed = FALSE
    /\ undone = {}
    /\ gcFailed = {}

-----------------------------------------------------------------------------
\* The process lets go of the job.
Drop(c) ==
    /\ holder' = [holder EXCEPT ![c] = Nobody]
    /\ stage' = [stage EXCEPT ![c] = "none"]

\* The process will move the job to queue q.
MoveTo(c, q) ==
    /\ stage' = [stage EXCEPT ![c] = "moving"]
    /\ target' = [target EXCEPT ![c] = q]

\* popNextBatch() by process x from queue q: the job is handed to the process
\* with the kind of report its status asks for.  If the request is gone the
\* reference is dropped from the queue.
Pop(x, q, c) ==
    /\ owner[c] = q
    /\ \/ /\ exists
          /\ owner' = [owner EXCEPT ![c] = x]
          /\ holder' = [holder EXCEPT ![c] = x]
          /\ stage' = [stage EXCEPT ![c] = "held"]
          /\ reportType' = [reportType EXCEPT ![c] = ReportTypeOf(status[c])]
       \/ /\ ~ exists
          /\ owner' = [owner EXCEPT ![c] = Nobody]
          /\ UNCHANGED <<holder, stage, reportType>>
    /\ UNCHANGED <<exists, isFailed, reportDecided, status, counts, target, outside, bounds, history>>

GetNextJobBatch(m, c) == Pop(m, TransferQueue, c)
GetNextArchiveJobsToReportBatch(c) == Pop(Reporter, ReportQueue, c)

-----------------------------------------------------------------------------
(* Transfer                                                                *)

\* ArchiveRequest::determineNextStep() after the last allowed transfer failed:
\* the first job to fail reports the failure, the others are just failed.
TransferGivenUp(c) ==
    /\ reportDecided' = TRUE
    /\ \/ /\ ~ reportDecided
          /\ status' = [status EXCEPT ![c] = "AJS_ToReportToUserForFailure"]
          /\ MoveTo(c, ReportQueue)
          /\ UNCHANGED isFailed
       \/ /\ reportDecided
          /\ status' = [status EXCEPT ![c] = "AJS_Failed"]
          /\ MoveTo(c, FailedQueue)
          /\ isFailed' = TRUE

\* The job may be tried again: now in this mount, or, when this mount has tried
\* often enough, after this mount, by garbage collection.
TransferRetried(c) ==
    /\ status' = [status EXCEPT ![c] = "AJS_ToTransferForUser"]
    /\ \/ /\ inMount'[c] < MaxRetriesWithinMount
          /\ MoveTo(c, TransferQueue)
       \/ /\ inMount'[c] >= MaxRetriesWithinMount
          /\ stage' = [stage EXCEPT ![c] = "left"]
          /\ UNCHANGED target
    /\ UNCHANGED <<reportDecided, isFailed>>

\* Mutant: one attempt too many.
RetriesExhaustedLate(c) == total'[c] > MaxTotalRetries

RetriesExhausted(c) == total'[c] >= MaxTotalRetries

\* ArchiveJob::failTransfer(), with ArchiveRequest::addTransferFailure(): the
\* transfer of the file, or its registration in the catalogue, failed.
FailTransfer(m, c) ==
    /\ holder[c] = m
    /\ stage[c] = "held"
    /\ exists
    /\ inMount' = [inMount EXCEPT ![c] = IF lastMount[c] = m THEN @ + 1 ELSE 1]
    /\ lastMount' = [lastMount EXCEPT ![c] = m]
    /\ total' = [total EXCEPT ![c] = @ + 1]
    /\ IF RetriesExhausted(c) THEN TransferGivenUp(c) ELSE TransferRetried(c)
    /\ UNCHANGED <<exists, owner, reportRetries, holder, reportType, outside, bounds, history>>

\* ArchiveMount::reportJobsBatchTransferred(): after the flush the file goes to
\* the catalogue first ...
FilesWrittenToTape(m, c) ==
    /\ holder[c] = m
    /\ stage[c] = "held"
    /\ catalogue' = catalogue \cup {c}
    /\ stage' = [stage EXCEPT ![c] = "written"]
    /\ UNCHANGED <<request, counts, holder, target, reportType, sent, bounds, history>>

\* The reportdecided that asyncUpdateTransferSuccessful() consults is the one of
\* the job's own ArchiveRequest object, which is never fetched on this path.
FetchedReportDecided == FALSE

\* Mutants: the job looks at itself too, or at no other job.
AnyJobToTransfer(c) == \E c2 \in Copies : status[c2] = "AJS_ToTransferForUser"
NoJobToTransfer(c) == FALSE

OtherJobsToTransfer(c) ==
    \E c2 \in Copies \ {c} : status[c2] = "AJS_ToTransferForUser"

\* ... and then the request is updated.  The last copy to be transferred
\* reports; the others are complete.
UpdateTransferSuccessful(m, c) ==
    /\ holder[c] = m
    /\ stage[c] = "written"
    /\ exists
    /\ \/ /\ OtherJobsToTransfer(c) \/ FetchedReportDecided
          /\ status' = [status EXCEPT ![c] = "AJS_Complete"]
          /\ owner' = [owner EXCEPT ![c] = Nobody]
       \/ /\ ~ (OtherJobsToTransfer(c) \/ FetchedReportDecided)
          /\ status' = [status EXCEPT ![c] = "AJS_ToReportToUserForTransfer"]
          /\ UNCHANGED owner
    /\ stage' = [stage EXCEPT ![c] = "updated"]
    /\ UNCHANGED <<exists, isFailed, reportDecided, counts, holder, target, reportType,
                   outside, bounds, history>>

\* setJobBatchTransferred() has waited for the update: a job that reports is
\* moved to the report queue, another one is forgotten.
WaitAsyncSucceed(m, c) ==
    /\ holder[c] = m
    /\ stage[c] = "updated"
    /\ \/ /\ status[c] = "AJS_ToReportToUserForTransfer"
          /\ MoveTo(c, ReportQueue)
          /\ UNCHANGED holder
       \/ /\ status[c] # "AJS_ToReportToUserForTransfer"
          /\ Drop(c)
          /\ UNCHANGED target
    /\ UNCHANGED <<request, counts, reportType, outside, bounds, history>>

-----------------------------------------------------------------------------
(* Reports                                                                 *)

\* ArchiveJob::failReport(), with ArchiveRequest::addReportFailure(): the loop
\* over the jobs returns in its first iteration, so the failure is counted for
\* the first job only, and the decision and the status come from the first job.
FailReport(c) ==
    LET retries == reportRetries[1] + (IF c = 1 THEN 1 ELSE 0)
        final == retries >= MaxReportRetries IN
    /\ reportRetries' = [reportRetries EXCEPT ![1] = retries]
    /\ status' = [status EXCEPT ![c] = IF final THEN "AJS_Failed" ELSE status[1]]
    /\ \/ /\ ~ final /\ reportType[c] # "NoReportRequired"
          /\ MoveTo(c, ReportQueue)
          /\ UNCHANGED isFailed
       \/ /\ final \/ reportType[c] = "NoReportRequired"
          /\ MoveTo(c, FailedQueue)
          /\ isFailed' = TRUE
    /\ borrowed' = (borrowed \/ c # 1)
    /\ undone' = IF owner[c] = Nobody THEN undone \cup {c} ELSE undone
    /\ UNCHANGED <<exists, reportDecided, owner, total, inMount, lastMount, holder,
                   reportType, gcFailed>>

\* The report is delivered to the disk system (only the two kinds of report
\* have a URL).
AsyncReport(c) ==
    /\ holder[c] = Reporter
    /\ stage[c] = "held"
    /\ reportType[c] # "NoReportRequired"
    /\ sent' = sent \cup {<<c, reportType[c]>>}
    /\ stage' = [stage EXCEPT ![c] = "delivered"]
    /\ UNCHANGED <<request, counts, holder, target, reportType, catalogue, bounds, history>>

\* The disk system refuses the report.
ReportRefused(c) ==
    /\ holder[c] = Reporter
    /\ stage[c] = "held"
    /\ reportType[c] # "NoReportRequired"
    /\ exists
    /\ refusals < MaxReportFailures
    /\ refusals' = refusals + 1
    /\ FailReport(c)
    /\ UNCHANGED <<outside, stops, errors>>

\* There is nothing to report: exceptionThrowingReportURL() throws.
ReportWithoutUrl(c) ==
    /\ holder[c] = Reporter
    /\ stage[c] = "held"
    /\ reportType[c] = "NoReportRequired"
    /\ exists
    /\ FailReport(c)
    /\ UNCHANGED <<outside, bounds>>

\* Scheduler::reportArchiveJobsBatch(), setArchiveJobBatchReported(): after a
\* completion report the request is deleted; after a failure report the job goes
\* to the failed jobs, and its status changes together with its owner.
SetArchiveJobBatchReported(c) ==
    /\ holder[c] = Reporter
    /\ stage[c] = "delivered"
    /\ Drop(c)
    /\ \/ /\ reportType[c] = "CompletionReport"
          /\ exists' = FALSE
          /\ owner' = [owner EXCEPT ![c] = Nobody]
          /\ UNCHANGED status
       \/ /\ reportType[c] = "FailureReport"
          /\ exists
          /\ owner' = [owner EXCEPT ![c] = FailedQueue]
          /\ status' = [status EXCEPT ![c] = "AJS_Failed"]
          /\ UNCHANGED exists
    /\ UNCHANGED <<isFailed, reportDecided, counts, target, reportType, outside, bounds, history>>

-----------------------------------------------------------------------------
(* Moves, errors, cancellation, crashes                                    *)

\* referenceAndSwitchOwnership() succeeds if the process owns the job.
Move(c) ==
    /\ stage[c] = "moving"
    /\ exists
    /\ Drop(c)
    /\ owner' = [owner EXCEPT ![c] = IF @ = holder[c] THEN target[c] ELSE @]
    /\ UNCHANGED <<exists, isFailed, reportDecided, status, counts, target, reportType,
                   outside, bounds, history>>

\* The switch fails: the job stays with the process until that stops.
MoveError(c) ==
    /\ stage[c] = "moving"
    /\ errors < MaxErrors
    /\ errors' = errors + 1
    /\ stage' = [stage EXCEPT ![c] = "left"]
    /\ UNCHANGED <<request, counts, holder, target, reportType, outside, stops, refusals,
                   history>>

\* setJobBatchTransferred() is left by an exception (FailedReportMoveToQueue):
\* failReport() is called for the jobs of the batch, also when their update was
\* made but not waited for.
UpdateError(m, c) ==
    /\ holder[c] = m
    /\ stage[c] \in {"written", "updated"}
    /\ exists
    /\ errors < MaxErrors
    /\ errors' = errors + 1
    /\ FailReport(c)
    /\ UNCHANGED <<outside, stops, refusals>>

\* A call on a request that does not exist any more throws NoSuchObject, and
\* the process forgets the job.
NoSuchObject(c) ==
    /\ ~ exists
    /\ \/ stage[c] \in {"held", "written", "moving"}
       \/ stage[c] = "delivered" /\ reportType[c] = "FailureReport"
    /\ Drop(c)
    /\ UNCHANGED <<request, counts, target, reportType, outside, bounds, history>>

\* OStoreDB::cancelArchive()
CancelArchive ==
    /\ exists
    /\ ~ isFailed
    /\ exists' = FALSE
    /\ UNCHANGED <<isFailed, reportDecided, status, owner, counts, memory, outside, bounds, history>>

\* What remains of the jobs of process x when it stops.  Mount ids are not used
\* again, so no later mount is the last mount with a failure.
Abandon(x) ==
    /\ owner' = [c \in Copies |-> IF owner[c] = x THEN Dead ELSE owner[c]]
    /\ stage' = [c \in Copies |-> IF holder[c] = x THEN "none" ELSE stage[c]]
    /\ holder' = [c \in Copies |-> IF holder[c] = x THEN Nobody ELSE holder[c]]
    /\ lastMount' = [c \in Copies |-> IF lastMount[c] = x THEN Nobody ELSE lastMount[c]]

\* The process x crashes.
Crash(x) ==
    /\ stops < MaxStops
    /\ stops' = stops + 1
    /\ Abandon(x)
    /\ UNCHANGED <<exists, isFailed, reportDecided, status, total, inMount, reportRetries,
                   target, reportType, outside, refusals, errors, history>>

\* The process ends in order (a mount that finds no more jobs, a maintenance
\* process that is restarted), its agent left to be garbage collected if it
\* still owns jobs.
EndOfProcess(x) ==
    /\ \A c \in Copies : holder[c] = x => stage[c] = "left"
    /\ \E c \in Copies : holder[c] = x \/ owner[c] = x \/ lastMount[c] = x
    /\ Abandon(x)
    /\ UNCHANGED <<exists, isFailed, reportDecided, status, total, inMount, reportRetries,
                   target, reportType, outside, bounds, history>>

\* Mutant: the reporter is taken for dead while it runs.
GarbageCollectAlive(c) ==
    /\ owner[c] \in {Dead, Reporter}
    /\ owner' = [owner EXCEPT ![c] = QueueOf(status[c])]
    /\ UNCHANGED <<exists, isFailed, reportDecided, status, counts, memory, outside, bounds, history>>

\* GarbageCollector: a job of a dead agent goes to the queue of its status, or
\* stays as it is when there is none.
GarbageCollect(c) ==
    /\ owner[c] = Dead
    /\ owner' = [owner EXCEPT ![c] =
                   IF ~ exists THEN Nobody
                   ELSE IF status[c] \in Queueable THEN QueueOf(status[c]) ELSE Orphan]
    /\ UNCHANGED <<exists, isFailed, reportDecided, status, counts, memory, outside, bounds, history>>

\* ... unless it cannot be requeued, neither together with the others nor by itself:
\* then it is failed.  It stays with the dead agent, whose object is removed next
\* ("the job is now orphaned"), or it is in the queue it was to go to when only the
\* commit of the new owner failed.
GarbageCollectError(c) ==
    /\ owner[c] = Dead
    /\ exists
    /\ status[c] \in Queueable
    /\ errors < MaxErrors
    /\ errors' = errors + 1
    /\ status' = [status EXCEPT ![c] = "AJS_Failed"]
    /\ \E o \in {Orphan, QueueOf(status[c])} : owner' = [owner EXCEPT ![c] = o]
    /\ gcFailed' = gcFailed \cup {c}
    /\ UNCHANGED <<exists, isFailed, reportDecided, counts, memory, outside, stops, refusals,
                   borrowed, undone>>

-----------------------------------------------------------------------------
\* What a running process does with a job it has.
JobStep(c) ==
    \/ \E m \in Mounts :
         \/ FailTransfer(m, c)
         \/ FilesWrittenToTape(m, c)
         \/ UpdateTransferSuccessful(m, c)
         \/ WaitAsyncSucceed(m, c)
    \/ AsyncReport(c)
    \/ ReportWithoutUrl(c)
    \/ SetArchiveJobBatchReported(c)
    \/ Move(c)
    \/ NoSuchObject(c)

PopStep(c) ==
    \/ \E m \in Mounts : GetNextJobBatch(m, c)
    \/ GetNextArchiveJobsToReportBatch(c)

\* The faults.
FaultStep ==
    \/ \E c \in Copies :
         \/ ReportRefused(c)
         \/ MoveError(c)
         \/ GarbageCollectError(c)
         \/ \E m \in Mounts : UpdateError(m, c)
    \/ \E x \in Processes : Crash(x)

Next ==
    \/ \E c \in Copies : PopStep(c) \/ JobStep(c) \/ GarbageCollect(c)
    \/ \E x \in Processes : EndOfProcess(x)
    \/ CancelArchive
    \/ FaultStep

\* Mounts and reporters keep coming and work on what they pop, a mount that is
\* done ends, and a garbage collector runs.
Fairness ==
    /\ \A c \in Copies :
         WF_vars(PopStep(c)) /\ WF_vars(JobStep(c)) /\ WF_vars(GarbageCollect(c))
    /\ \A m \in Mounts : WF_vars(EndOfProcess(m))

Spec == Init /\ [][Next]_vars
LiveSpec == Spec /\ Fairness

-----------------------------------------------------------------------------
(* Properties                                                              *)

\* The shape of the state.
TypeOK ==
    /\ exists \in BOOLEAN
    /\ isFailed \in BOOLEAN
    /\ reportDecided \in BOOLEAN
    /\ status \in [Copies -> Statuses]
    /\ owner \in [Copies -> Queues \cup Processes \cup {Nobody, Dead, Orphan}]
    /\ total \in [Copies -> Nat]
    /\ inMount \in [Copies -> Nat]
    /\ lastMount \in [Copies -> Mounts \cup {Nobody}]
    /\ reportRetries \in [Copies -> Nat]
    /\ holder \in [Copies -> Processes \cup {Nobody}]
    /\ stage \in [Copies -> Stages]
    /\ target \in [Copies -> Queues]
    /\ reportType \in [Copies -> {"NoReportRequired", "CompletionReport", "FailureReport"}]
    /\ catalogue \subseteq Copies
    /\ sent \subseteq Copies \X {"CompletionReport", "FailureReport"}
    /\ stops \in Nat
    /\ refusals \in Nat
    /\ errors \in Nat
    /\ borrowed \in BOOLEAN
    /\ undone \subseteq Copies
    /\ gcFailed \subseteq Copies

\* What depends on the status of a job is stated for the requests in which no job has
\* been given the status of another one, see ReportFailureOfTheJob.
StatusIsOwn == ~ borrowed

\* The user is told that the file is safe only when it is: the copy that reports
\* is in the catalogue, and so is every other copy, unless the transfer of one was
\* given up, by a mount or by the garbage collector that could not requeue it
\* (asyncUpdateTransferSuccessful(), setJobBatchTransferred()).
CompletionIsTrue ==
    StatusIsOwn => \A c \in Copies : <<c, "CompletionReport">> \in sent =>
        c \in catalogue /\ \A c2 \in Copies : c2 \in catalogue \/ reportDecided \/ c2 \in gcFailed

\* However the transfers of the copies interleave, one of them reports: a
\* request in the store is never left with all its jobs complete, which nobody
\* would look at again.
LastCopyReports ==
    StatusIsOwn /\ exists => \E c \in Copies : status[c] # "AJS_Complete"

\* A job that still has something to be done is owned by a queue or by a process whose
\* agent will be collected: no sequence of updates, store errors, refused reports and
\* crashes leaves it without an owner, but for the two cases in which the code gives it
\* up: garbageCollect() cannot requeue it, and setJobBatchTransferred() calls
\* failReport() for a job that its update has completed.
NoJobForgotten ==
    exists => \A c \in Copies : status[c] # "AJS_Complete" =>
        /\ owner[c] = Nobody => c \in undone
        /\ owner[c] = Orphan => c \in gcFailed

\* The report a reporter is about to deliver, or has delivered and not recorded,
\* is the one the request in the store asks for, although its kind was read
\* when the job was popped.
ReportIsCurrent ==
    exists => \A c \in Copies :
        holder[c] = Reporter /\ stage[c] \in {"held", "delivered"} =>
            owner[c] = Reporter /\ reportType[c] = ReportTypeOf(status[c])

\* A job that used all its transfer attempts is never offered to a mount again,
\* neither by a retry nor by the garbage collector.
RetryLimit ==
    exists => \A c \in Copies :
        total[c] >= MaxTotalRetries =>
            owner[c] # TransferQueue /\ status[c] # "AJS_ToTransferForUser"

\* The life of a request ends: eventually and for ever it is deleted (it was
\* reported complete or cancelled), or each job is complete or among the failed
\* jobs - or still with a reporter that could not move it and goes on running, or given
\* up in one of the two ways of NoJobForgotten.
JobsSettle ==
    <>[](\/ ~ exists \/ ~ StatusIsOwn
         \/ \A c \in Copies :
              \/ status[c] = "AJS_Complete" /\ owner[c] = Nobody
              \/ owner[c] = FailedQueue
              \/ holder[c] = Reporter /\ stage[c] = "left"
              \/ owner[c] = Orphan /\ c \in gcFailed
              \/ owner[c] = Nobody /\ c \in undone)

\* "Non-repack case. We only do one report per request." (ArchiveRequest.cpp,
\* asyncUpdateTransferSuccessful()): the user is never told both that the
\* request succeeded and that it failed.
OneVerdict ==
    ~ \E c1, c2 \in Copies :
        <<c1, "CompletionReport">> \in sent /\ <<c2, "FailureReport">> \in sent

\* "Find the job and update the number of failures", "Status is unchanged"
\* (ArchiveRequest.cpp, addReportFailure()): a failed report is counted for the
\* job it was made for, whose status stays the same or becomes failed.
ReportFailureOfTheJob ==
    [][\A c \in Copies :
         refusals' # refusals /\ stage'[c] # stage[c] =>
             /\ reportRetries'[c] = reportRetries[c] + 1
             /\ status'[c] \in {status[c], "AJS_Failed"}]_vars
=============================================================================
