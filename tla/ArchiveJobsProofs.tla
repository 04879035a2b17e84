------------------------- MODULE ArchiveJobsProofs -------------------------
(***************************************************************************)
(* What becomes of the jobs of an archive request, for every number of     *)
(* copies, mounts, retries and faults.                                     *)
(***************************************************************************)
EXTENDS ArchiveJobs, TLAPS

ReportStatuses == {"AJS_ToReportToUserForTransfer", "AJS_ToReportToUserForFailure"}

\* A copy is on tape, or its transfer was given up.
Safe(c) == c \in catalogue \/ reportDecided \/ c \in gcFailed
AllSafe == \A c \in Copies : Safe(c)

\* A job in the memory of a process is owned by that process, or by nobody once it
\* is complete.
JobHeld(c) ==
    /\ holder[c] = Nobody <=> stage[c] = "none"
    /\ holder[c] # Nobody =>
         \/ owner[c] = holder[c]
         \/ owner[c] = Nobody /\ stage[c] \in {"updated", "moving", "left"}

\* The reporter holds the job and has yet to record what it does with it.
Reporting(c) == holder[c] = Reporter /\ stage[c] \in {"held", "delivered"}

\* What the reporter has in memory agrees with the request, deleted or not.
ReportAgrees(c) == Reporting(c) => reportType[c] = ReportTypeOf(status[c])

\* What goes to the report queue, is there, or was popped from it, has a report to
\* make, or was failed on its way there.
ReportDue(c) ==
    (\/ owner[c] = ReportQueue
     \/ stage[c] = "moving" /\ target[c] = ReportQueue
     \/ Reporting(c))
    => status[c] \in ReportStatuses \cup {"AJS_Failed"}

\* What goes to the transfer queue, or is there, is to be transferred or was failed on
\* its way there, and a mount that works on it has no report to make.
TransferDue(c) ==
    /\ (\/ owner[c] = TransferQueue
        \/ stage[c] = "moving" /\ target[c] = TransferQueue)
       => status[c] \in {"AJS_ToTransferForUser", "AJS_Failed"}
    /\ holder[c] \in Mounts /\ stage[c] \in {"held", "written", "updated"}
       => reportType[c] = "NoReportRequired"

\* A job on its way to a mount, or with one, has an attempt left.
AttemptLeft(c) ==
    (\/ owner[c] = TransferQueue
     \/ status[c] = "AJS_ToTransferForUser"
     \/ stage[c] = "moving" /\ target[c] = TransferQueue
     \/ holder[c] \in Mounts /\ stage[c] \in {"held", "written", "updated"})
    => total[c] < MaxTotalRetries

\* What the status of a job says about the copies on tape.
JobOnTape(c) ==
    /\ status[c] \in {"AJS_Complete", "AJS_ToReportToUserForTransfer"} => c \in catalogue
    /\ status[c] # "AJS_ToTransferForUser" => Safe(c)
    /\ status[c] = "AJS_ToReportToUserForTransfer" => AllSafe

\* A mount that updates a job has written the file.
JobWritten(c) == stage[c] \in {"written", "updated"} => c \in catalogue

JobReportTrue(c) == <<c, "CompletionReport">> \in sent => c \in catalogue /\ AllSafe

JobNotForgotten(c) ==
    exists /\ status[c] # "AJS_Complete" =>
        /\ owner[c] = Nobody => c \in undone
        /\ owner[c] = Orphan => c \in gcFailed

\* A single copy has no other copy to leave the report to.
LoneCopyReports(c) == NbCopies = 1 => status[c] # "AJS_Complete"

JobInv(c) ==
    /\ JobHeld(c)
    /\ ReportAgrees(c)
    /\ JobWritten(c)
    /\ LoneCopyReports(c)
    /\ StatusIsOwn => ReportDue(c)
    /\ StatusIsOwn => TransferDue(c)
    /\ StatusIsOwn => JobOnTape(c)
    /\ StatusIsOwn => JobReportTrue(c)
    /\ StatusIsOwn /\ MaxTotalRetries > 0 => AttemptLeft(c)
    /\ JobNotForgotten(c)

ArchiveInv ==
    /\ TypeOK
    /\ \A c \in Copies : JobInv(c)
    /\ LastCopyReports

-----------------------------------------------------------------------------
\* The owners of a job are told apart.
LEMMA Names ==
  /\ \A m \in Mounts :
       m \notin {Reporter, Nobody, Dead, Orphan, TransferQueue, ReportQueue, FailedQueue}
  /\ Reporter \notin {Nobody, Dead, Orphan, TransferQueue, ReportQueue, FailedQueue}
  /\ Nobody \notin {Dead, Orphan, TransferQueue, ReportQueue, FailedQueue}
  /\ Dead \notin {Orphan, TransferQueue, ReportQueue, FailedQueue}
  /\ Orphan \notin {TransferQueue, ReportQueue, FailedQueue}
  /\ TransferQueue \notin {ReportQueue, FailedQueue}
  /\ ReportQueue # FailedQueue
  BY MountAssumption DEF Queues, Reporter, Nobody, Dead, Orphan, TransferQueue,
     ReportQueue, FailedQueue

\* The process of a step changes one job.
OtherJobs(c) ==
    \A d \in Copies : d # c =>
        /\ status'[d] = status[d]
        /\ owner'[d] = owner[d]
        /\ total'[d] = total[d]
        /\ holder'[d] = holder[d]
        /\ stage'[d] = stage[d]
        /\ target'[d] = target[d]
        /\ reportType'[d] = reportType[d]

\* What no step undoes.
Forward ==
    /\ exists' => exists
    /\ reportDecided => reportDecided'
    /\ catalogue \subseteq catalogue'
    /\ borrowed => borrowed'
    /\ undone \subseteq undone'
    /\ gcFailed \subseteq gcFailed'

\* What is on tape stays there, and a transfer given up is given up for good.
LEMMA AllSafeStays ==
  ASSUME Forward, AllSafe
  PROVE  AllSafe'
  BY DEF Forward, AllSafe, Safe

\* A step on one job keeps the invariant of the others.
LEMMA OtherJobInv ==
  ASSUME TypeOK, TypeOK', Forward, NEW d \in Copies, JobInv(d),
         status'[d] = status[d], owner'[d] = owner[d], total'[d] = total[d],
         holder'[d] = holder[d], stage'[d] = stage[d], target'[d] = target[d],
         reportType'[d] = reportType[d],
         <<d, "CompletionReport">> \in sent' => <<d, "CompletionReport">> \in sent
  PROVE  JobInv(d)'
<1>1. StatusIsOwn' => StatusIsOwn
  BY DEF StatusIsOwn, Forward, TypeOK
<1>2. AllSafe => AllSafe'
  BY AllSafeStays
<1>3. (JobHeld(d) /\ ReportAgrees(d) /\ LoneCopyReports(d) /\ JobWritten(d))'
  BY DEF JobInv, JobHeld, ReportAgrees, Reporting, JobWritten, LoneCopyReports, Forward
<1>4. /\ ReportDue(d) => ReportDue(d)'
      /\ TransferDue(d) => TransferDue(d)'
      /\ AttemptLeft(d) => AttemptLeft(d)'
  BY DEF ReportDue, Reporting, TransferDue, AttemptLeft
<1>5. /\ JobOnTape(d) => JobOnTape(d)'
      /\ JobReportTrue(d) => JobReportTrue(d)'
      /\ JobNotForgotten(d) => JobNotForgotten(d)'
  BY <1>2 DEF JobOnTape, Safe, JobReportTrue, JobNotForgotten, Forward
<1> QED BY <1>1, <1>3, <1>4, <1>5 DEF JobInv

\* A step on one job has to keep the invariant of that job, and a job that is
\* not complete.
LEMMA OneJob ==
  ASSUME ArchiveInv, TypeOK', Forward, NEW c \in Copies, OtherJobs(c), JobInv(c)',
         \A d \in Copies : d # c /\ <<d, "CompletionReport">> \in sent' =>
                             <<d, "CompletionReport">> \in sent,
         StatusIsOwn' /\ exists' =>
             \/ status'[c] # "AJS_Complete" \/ status'[c] = status[c]
             \/ \E d \in Copies \ {c} : status[d] # "AJS_Complete"
  PROVE  ArchiveInv'
<1>1. ASSUME NEW d \in Copies PROVE JobInv(d)'
  <2>1. CASE d = c
    BY <2>1
  <2>2. CASE d # c
    BY <2>2, OtherJobInv DEF ArchiveInv, OtherJobs
  <2> QED BY <2>1, <2>2
<1>2. StatusIsOwn' => StatusIsOwn
  BY DEF StatusIsOwn, Forward, TypeOK, ArchiveInv
<1>3. LastCopyReports'
  <2> SUFFICES ASSUME StatusIsOwn', exists'
               PROVE  \E e \in Copies : status'[e] # "AJS_Complete"
    BY DEF LastCopyReports
  <2>1. PICK e \in Copies : status[e] # "AJS_Complete"
    BY <1>2 DEF ArchiveInv, LastCopyReports, Forward
  <2>2. CASE status'[c] # "AJS_Complete"
    BY <2>2
  <2>3. CASE status'[c] = status[c]
    BY <2>1, <2>3 DEF OtherJobs
  <2>4. CASE \E d \in Copies \ {c} : status[d] # "AJS_Complete"
    BY <2>4 DEF OtherJobs
  <2> QED BY <2>2, <2>3, <2>4
<1> QED BY <1>1, <1>3 DEF ArchiveInv

-----------------------------------------------------------------------------
\* A queue hands a job to a process: nobody had it in memory.
LEMMA PopInv ==
  ASSUME ArchiveInv, NEW x \in Processes, NEW q \in {TransferQueue, ReportQueue},
         NEW c \in Copies, Pop(x, q, c), x = Reporter <=> q = ReportQueue
  PROVE  ArchiveInv'
<1> USE Names
<1>1. TypeOK' /\ Forward /\ OtherJobs(c)
  BY DEF ArchiveInv, TypeOK, Pop, Forward, OtherJobs, counts, outside, bounds, history, Stages,
     Processes, ReportTypeOf
<1>2. /\ owner[c] = q /\ holder[c] = Nobody /\ stage[c] = "none"
      /\ status' = status /\ total' = total /\ target' = target /\ sent' = sent /\ catalogue' = catalogue
      /\ exists' = exists /\ reportDecided' = reportDecided /\ history' = history
      /\ \/ /\ exists /\ owner'[c] = x /\ holder'[c] = x /\ stage'[c] = "held"
            /\ reportType'[c] = ReportTypeOf(status[c])
         \/ /\ ~ exists /\ owner'[c] = Nobody /\ holder'[c] = Nobody /\ stage'[c] = "none"
  BY DEF ArchiveInv, JobInv, JobHeld, Pop, TypeOK, counts, outside, bounds, history, Processes
<1>3. JobInv(c)
  BY DEF ArchiveInv
<1>4. AllSafe' = AllSafe /\ StatusIsOwn' = StatusIsOwn
  BY <1>2 DEF AllSafe, Safe, StatusIsOwn, history
<1>5. (JobHeld(c) /\ ReportAgrees(c) /\ JobWritten(c) /\ LoneCopyReports(c))'
  BY <1>2, <1>3 DEF JobInv, JobHeld, ReportAgrees, Reporting, JobWritten,
     LoneCopyReports, Processes
<1>6. /\ ReportDue(c) => ReportDue(c)'
      /\ TransferDue(c) => TransferDue(c)'
      /\ AttemptLeft(c) => AttemptLeft(c)'
  BY <1>2 DEF ReportDue, TransferDue, AttemptLeft, Reporting, Processes, ReportTypeOf
<1>7. /\ JobOnTape(c) => JobOnTape(c)'
      /\ JobReportTrue(c) => JobReportTrue(c)'
      /\ JobNotForgotten(c) => JobNotForgotten(c)'
  BY <1>2, <1>4 DEF JobOnTape, Safe, JobReportTrue, JobNotForgotten, Processes, history
<1>8. JobInv(c)'
  BY <1>3, <1>4, <1>5, <1>6, <1>7 DEF JobInv
<1> QED BY <1>1, <1>2, <1>8, OneJob

\* A failed transfer: a retry, or the end of the attempts.
LEMMA FailTransferInv ==
  ASSUME ArchiveInv, NEW m \in Mounts, NEW c \in Copies, FailTransfer(m, c)
  PROVE  ArchiveInv'
<1> USE Names
<1>1. TypeOK' /\ Forward /\ OtherJobs(c)
  <2>1. /\ total' = [total EXCEPT ![c] = total[c] + 1]
        /\ inMount' = [inMount EXCEPT ![c] = IF lastMount[c] = m THEN inMount[c] + 1 ELSE 1]
        /\ lastMount' = [lastMount EXCEPT ![c] = m]
        /\ UNCHANGED <<exists, owner, reportRetries, holder, reportType, catalogue, sent,
                       stops, refusals, errors, borrowed, undone,
                       gcFailed>>
    BY DEF FailTransfer, outside, bounds, history
  <2>2. /\ \E st \in Statuses : status' = [status EXCEPT ![c] = st]
        /\ \E sg \in {"moving", "left"} : stage' = [stage EXCEPT ![c] = sg]
        /\ target' = target \/ \E q \in Queues : target' = [target EXCEPT ![c] = q]
        /\ reportDecided' = TRUE \/ reportDecided' = reportDecided
        /\ isFailed' = TRUE \/ isFailed' = isFailed
    BY DEF FailTransfer, TransferGivenUp, TransferRetried, MoveTo, Statuses, Queues
  <2>3. total[c] + 1 \in Nat /\ (IF lastMount[c] = m THEN inMount[c] + 1 ELSE 1) \in Nat
    BY DEF ArchiveInv, TypeOK
  <2>4. /\ reportDecided' \in BOOLEAN /\ isFailed' \in BOOLEAN /\ exists' \in BOOLEAN
        /\ reportDecided => reportDecided'
    <3>1. reportDecided \in BOOLEAN /\ isFailed \in BOOLEAN /\ exists \in BOOLEAN
      BY DEF ArchiveInv, TypeOK
    <3>2. /\ reportDecided' = TRUE \/ reportDecided' = reportDecided
          /\ isFailed' = TRUE \/ isFailed' = isFailed
          /\ exists' = exists
      BY <2>1, <2>2
    <3>3. CASE reportDecided' = TRUE
      BY <3>1, <3>2, <3>3
    <3>4. CASE reportDecided' = reportDecided
      BY <3>1, <3>2, <3>4
    <3> QED BY <3>2, <3>3, <3>4
  <2>5. /\ status' \in [Copies -> Statuses]
        /\ stage' \in [Copies -> Stages] /\ target' \in [Copies -> Queues]
    BY <2>2 DEF ArchiveInv, TypeOK, Stages
  <2>6. TypeOK'
    BY <2>1, <2>3, <2>4, <2>5 DEF ArchiveInv, TypeOK
  <2>7. OtherJobs(c)
    BY <2>1, <2>2 DEF ArchiveInv, TypeOK, OtherJobs
  <2> QED BY <2>1, <2>4, <2>6, <2>7 DEF ArchiveInv, TypeOK, Forward
<1>2. JobInv(c)
  BY DEF ArchiveInv
<1>3. /\ holder[c] = m /\ owner[c] = m /\ holder'[c] = m /\ owner'[c] = m
      /\ sent' = sent /\ total'[c] \in Nat
      /\ \/ /\ total'[c] >= MaxTotalRetries /\ stage'[c] = "moving" /\ reportDecided'
            /\ \/ status'[c] = "AJS_ToReportToUserForFailure" /\ target'[c] = ReportQueue
               \/ status'[c] = "AJS_Failed" /\ target'[c] = FailedQueue
         \/ /\ ~ (total'[c] >= MaxTotalRetries) /\ status'[c] = "AJS_ToTransferForUser"
            /\ \/ stage'[c] = "left"
               \/ stage'[c] = "moving" /\ target'[c] = TransferQueue
  BY <1>2, LimitAssumption DEF FailTransfer, RetriesExhausted, TransferGivenUp,
     TransferRetried, MoveTo, ArchiveInv, TypeOK, Forward, OtherJobs, counts, request,
     memory, outside, bounds, history, Stages, Processes, Queues, Statuses, JobInv, JobHeld
<1>4. /\ StatusIsOwn' => StatusIsOwn
      /\ AllSafe => AllSafe'
  BY <1>1, AllSafeStays DEF StatusIsOwn, Forward, ArchiveInv, TypeOK
<1>5. (JobHeld(c) /\ ReportAgrees(c) /\ JobWritten(c) /\ LoneCopyReports(c))'
  BY <1>1, <1>2, <1>3 DEF JobInv, JobHeld, ReportAgrees, Reporting, JobWritten,
     LoneCopyReports, Forward
<1>6. StatusIsOwn' => ReportDue(c)' /\ TransferDue(c)'
  BY <1>2, <1>3, <1>4 DEF JobInv, ReportDue, Reporting, TransferDue, ReportStatuses
<1>7. StatusIsOwn' /\ MaxTotalRetries > 0 => AttemptLeft(c)'
  BY <1>2, <1>3, <1>4, LimitAssumption DEF JobInv, AttemptLeft
<1>8. StatusIsOwn' => JobOnTape(c)' /\ JobReportTrue(c)'
  BY <1>1, <1>2, <1>3, <1>4 DEF JobInv, JobWritten, JobOnTape, Safe, JobReportTrue, Forward,
     ReportTypeOf
<1>9. JobNotForgotten(c)'
  BY <1>1, <1>2, <1>3, <1>4 DEF JobInv, JobNotForgotten, Forward, Queues
<1>10. JobInv(c)'
  BY <1>5, <1>6, <1>7, <1>8, <1>9 DEF JobInv
<1> QED BY <1>1, <1>3, <1>10, OneJob

\* The file is registered before the request is updated.
LEMMA FilesWrittenToTapeInv ==
  ASSUME ArchiveInv, NEW m \in Mounts, NEW c \in Copies, FilesWrittenToTape(m, c)
  PROVE  ArchiveInv'
<1> USE Names
<1>1. TypeOK' /\ Forward /\ OtherJobs(c)
  BY LimitAssumption DEF FilesWrittenToTape, ArchiveInv, TypeOK, Forward, OtherJobs,
     counts, request, memory, outside, bounds, history, Stages, Processes, Queues, Statuses
<1>2. JobInv(c)
  BY DEF ArchiveInv
<1>3. /\ holder[c] = m /\ owner[c] = m /\ holder'[c] = m /\ owner'[c] = m
      /\ status' = status /\ total' = total /\ reportType' = reportType
      /\ stage[c] = "held" /\ stage'[c] = "written" /\ c \in catalogue' /\ sent' = sent
      /\ exists' = exists
  BY <1>2, LimitAssumption DEF FilesWrittenToTape, ArchiveInv, TypeOK, Forward,
     OtherJobs, counts, request, memory, outside, bounds, history, Stages, Processes, Queues,
     Statuses, JobInv, JobHeld
<1>4. /\ StatusIsOwn' => StatusIsOwn
      /\ AllSafe => AllSafe'
  BY <1>1, AllSafeStays DEF StatusIsOwn, Forward, ArchiveInv, TypeOK
<1>5. (JobHeld(c) /\ ReportAgrees(c) /\ JobWritten(c) /\ LoneCopyReports(c))'
  BY <1>1, <1>2, <1>3 DEF JobInv, JobHeld, ReportAgrees, Reporting, JobWritten,
     LoneCopyReports, Forward
<1>6. StatusIsOwn' => ReportDue(c)' /\ TransferDue(c)'
  BY <1>2, <1>3, <1>4 DEF JobInv, ReportDue, Reporting, TransferDue, ReportStatuses
<1>7. StatusIsOwn' /\ MaxTotalRetries > 0 => AttemptLeft(c)'
  BY <1>2, <1>3, <1>4, LimitAssumption DEF JobInv, AttemptLeft
<1>8. StatusIsOwn' => JobOnTape(c)' /\ JobReportTrue(c)'
  BY <1>1, <1>2, <1>3, <1>4 DEF JobInv, JobWritten, JobOnTape, Safe, JobReportTrue, Forward,
     ReportTypeOf
<1>9. JobNotForgotten(c)'
  BY <1>1, <1>2, <1>3, <1>4 DEF JobInv, JobNotForgotten, Forward, Queues
<1>10. JobInv(c)'
  BY <1>5, <1>6, <1>7, <1>8, <1>9 DEF JobInv
<1> QED BY <1>1, <1>3, <1>10, OneJob

\* The mount moves the job of the report, or forgets the job.
LEMMA WaitAsyncSucceedInv ==
  ASSUME ArchiveInv, NEW m \in Mounts, NEW c \in Copies, WaitAsyncSucceed(m, c)
  PROVE  ArchiveInv'
<1> USE Names
<1>1. TypeOK' /\ Forward /\ OtherJobs(c)
  BY LimitAssumption DEF WaitAsyncSucceed, MoveTo, Drop, ArchiveInv, TypeOK, Forward,
     OtherJobs, counts, request, memory, outside, bounds, history, Stages, Processes, Queues,
     Statuses
<1>2. JobInv(c)
  BY DEF ArchiveInv
<1>3. /\ holder[c] = m /\ owner' = owner /\ owner[c] \in {m, Nobody}
      /\ status' = status /\ total' = total /\ exists' = exists /\ sent' = sent
      /\ \/ /\ status[c] = "AJS_ToReportToUserForTransfer" /\ holder'[c] = m
            /\ stage'[c] = "moving" /\ target'[c] = ReportQueue
         \/ holder'[c] = Nobody /\ stage'[c] = "none"
  BY <1>2, LimitAssumption DEF WaitAsyncSucceed, MoveTo, Drop, ArchiveInv, TypeOK,
     Forward, OtherJobs, counts, request, memory, outside, bounds, history, Stages, Processes,
     Queues, Statuses, JobInv, JobHeld
<1>4. /\ StatusIsOwn' => StatusIsOwn
      /\ AllSafe => AllSafe'
  BY <1>1, AllSafeStays DEF StatusIsOwn, Forward, ArchiveInv, TypeOK
<1>5. (JobHeld(c) /\ ReportAgrees(c) /\ JobWritten(c) /\ LoneCopyReports(c))'
  BY <1>1, <1>2, <1>3 DEF JobInv, JobHeld, ReportAgrees, Reporting, JobWritten,
     LoneCopyReports, Forward
<1>6. StatusIsOwn' => ReportDue(c)' /\ TransferDue(c)'
  BY <1>2, <1>3, <1>4 DEF JobInv, ReportDue, Reporting, TransferDue, ReportStatuses
<1>7. StatusIsOwn' /\ MaxTotalRetries > 0 => AttemptLeft(c)'
  BY <1>2, <1>3, <1>4, LimitAssumption DEF JobInv, AttemptLeft
<1>8. StatusIsOwn' => JobOnTape(c)' /\ JobReportTrue(c)'
  BY <1>1, <1>2, <1>3, <1>4 DEF JobInv, JobWritten, JobOnTape, Safe, JobReportTrue, Forward,
     ReportTypeOf
<1>9. JobNotForgotten(c)'
  BY <1>1, <1>2, <1>3, <1>4 DEF JobInv, JobNotForgotten, Forward, Queues
<1>10. JobInv(c)'
  BY <1>5, <1>6, <1>7, <1>8, <1>9 DEF JobInv
<1> QED BY <1>1, <1>3, <1>10, OneJob

\* The report delivered is the one of the status.
LEMMA AsyncReportInv ==
  ASSUME ArchiveInv, NEW c \in Copies, AsyncReport(c)
  PROVE  ArchiveInv'
<1> USE Names
<1>1. TypeOK' /\ Forward /\ OtherJobs(c)
  BY LimitAssumption DEF AsyncReport, ArchiveInv, TypeOK, Forward, OtherJobs, counts,
     request, memory, outside, bounds, history, Stages, Processes, Queues, Statuses
<1>2. JobInv(c)
  BY DEF ArchiveInv
<1>3. /\ holder[c] = Reporter /\ owner[c] = Reporter /\ holder' = holder /\ owner' = owner
      /\ status' = status /\ total' = total /\ reportType' = reportType /\ exists' = exists
      /\ stage[c] = "held" /\ stage'[c] = "delivered" /\ catalogue' = catalogue
      /\ reportType[c] = ReportTypeOf(status[c]) /\ sent' = sent \cup {<<c, reportType[c]>>}
  BY <1>2, LimitAssumption DEF AsyncReport, ArchiveInv, TypeOK, Forward, OtherJobs,
     counts, request, memory, outside, bounds, history, Stages, Processes, Queues, Statuses,
     JobInv, JobHeld, ReportAgrees, Reporting
<1>4. /\ StatusIsOwn' => StatusIsOwn
      /\ AllSafe => AllSafe'
  BY <1>1, AllSafeStays DEF StatusIsOwn, Forward, ArchiveInv, TypeOK
<1>5. (JobHeld(c) /\ ReportAgrees(c) /\ JobWritten(c) /\ LoneCopyReports(c))'
  BY <1>1, <1>2, <1>3 DEF JobInv, JobHeld, ReportAgrees, Reporting, JobWritten,
     LoneCopyReports, Forward
<1>6. StatusIsOwn' => ReportDue(c)' /\ TransferDue(c)'
  BY <1>2, <1>3, <1>4 DEF JobInv, ReportDue, Reporting, TransferDue, ReportStatuses
<1>7. StatusIsOwn' /\ MaxTotalRetries > 0 => AttemptLeft(c)'
  BY <1>2, <1>3, <1>4, LimitAssumption DEF JobInv, AttemptLeft
<1>8. StatusIsOwn' => JobOnTape(c)' /\ JobReportTrue(c)'
  BY <1>1, <1>2, <1>3, <1>4 DEF JobInv, JobWritten, JobOnTape, Safe, JobReportTrue, Forward,
     ReportTypeOf
<1>9. JobNotForgotten(c)'
  BY <1>1, <1>2, <1>3, <1>4 DEF JobInv, JobNotForgotten, Forward, Queues
<1>10. JobInv(c)'
  BY <1>5, <1>6, <1>7, <1>8, <1>9 DEF JobInv
<1> QED BY <1>1, <1>3, <1>10, OneJob

\* The reporter records the report, or deletes the request.
LEMMA SetArchiveJobBatchReportedInv ==
  ASSUME ArchiveInv, NEW c \in Copies, SetArchiveJobBatchReported(c)
  PROVE  ArchiveInv'
<1> USE Names
<1>1. TypeOK' /\ Forward /\ OtherJobs(c)
  <2>1. /\ holder' = [holder EXCEPT ![c] = Nobody]
        /\ stage' = [stage EXCEPT ![c] = "none"]
        /\ \E q \in {Nobody, FailedQueue} : owner' = [owner EXCEPT ![c] = q]
        /\ status' = status \/ status' = [status EXCEPT ![c] = "AJS_Failed"]
        /\ exists' = FALSE \/ exists' = exists
        /\ UNCHANGED <<isFailed, reportDecided, total, inMount, lastMount, reportRetries, target,
                       reportType, catalogue, sent, stops, refusals, errors, borrowed, undone,
                       gcFailed>>
    BY DEF SetArchiveJobBatchReported, Drop, counts, outside, bounds, history
  <2>2. exists' \in BOOLEAN /\ (exists' => exists)
    <3>1. exists \in BOOLEAN
      BY DEF ArchiveInv, TypeOK
    <3>2. exists' = FALSE \/ exists' = exists
      BY <2>1
    <3>3. CASE exists' = FALSE
      BY <3>3
    <3>4. CASE exists' = exists
      BY <3>1, <3>4
    <3> QED BY <3>2, <3>3, <3>4
  <2>3. /\ status' \in [Copies -> Statuses]
        /\ owner' \in [Copies -> Queues \cup Processes \cup {Nobody, Dead, Orphan}]
    BY <2>1 DEF ArchiveInv, TypeOK, Statuses, Queues
  <2>4. TypeOK'
    BY <2>1, <2>2, <2>3 DEF ArchiveInv, TypeOK, Stages
  <2>5. OtherJobs(c)
    BY <2>1 DEF ArchiveInv, TypeOK, OtherJobs
  <2> QED BY <2>1, <2>2, <2>4, <2>5 DEF ArchiveInv, TypeOK, Forward
<1>2. JobInv(c)
  BY DEF ArchiveInv
<1>3. /\ holder'[c] = Nobody /\ stage'[c] = "none" /\ total' = total /\ sent' = sent
      /\ \/ owner'[c] = Nobody /\ status'[c] = status[c] /\ ~ exists'
         \/ /\ owner'[c] = FailedQueue /\ status'[c] = "AJS_Failed"
            /\ reportType[c] = "FailureReport" /\ status[c] = "AJS_ToReportToUserForFailure"
            /\ status[c] # "AJS_ToTransferForUser"
  BY <1>2, LimitAssumption DEF SetArchiveJobBatchReported, Drop, ArchiveInv, TypeOK,
     Forward, OtherJobs, counts, request, memory, outside, bounds, history, Stages, Processes,
     Queues, Statuses, JobInv, JobHeld, ReportAgrees, Reporting, ReportTypeOf
<1>4. /\ StatusIsOwn' => StatusIsOwn
      /\ AllSafe => AllSafe'
  BY <1>1, AllSafeStays DEF StatusIsOwn, Forward, ArchiveInv, TypeOK
<1>5. (JobHeld(c) /\ ReportAgrees(c) /\ JobWritten(c) /\ LoneCopyReports(c))'
  BY <1>1, <1>2, <1>3 DEF JobInv, JobHeld, ReportAgrees, Reporting, JobWritten,
     LoneCopyReports, Forward
<1>6. StatusIsOwn' => ReportDue(c)' /\ TransferDue(c)'
  BY <1>2, <1>3, <1>4 DEF JobInv, ReportDue, Reporting, TransferDue, ReportStatuses
<1>7. StatusIsOwn' /\ MaxTotalRetries > 0 => AttemptLeft(c)'
  BY <1>2, <1>3, <1>4, LimitAssumption DEF JobInv, AttemptLeft
<1>8. StatusIsOwn' => JobOnTape(c)' /\ JobReportTrue(c)'
  BY <1>1, <1>2, <1>3, <1>4 DEF JobInv, JobWritten, JobOnTape, Safe, JobReportTrue, Forward,
     ReportTypeOf
<1>9. JobNotForgotten(c)'
  BY <1>1, <1>2, <1>3, <1>4 DEF JobInv, JobNotForgotten, Forward, Queues
<1>10. JobInv(c)'
  BY <1>5, <1>6, <1>7, <1>8, <1>9 DEF JobInv
<1> QED BY <1>1, <1>3, <1>10, OneJob

\* A job that moves goes to the queue of its status.
LEMMA MoveInv ==
  ASSUME ArchiveInv, NEW c \in Copies, Move(c)
  PROVE  ArchiveInv'
<1> USE Names
<1>1. TypeOK' /\ Forward /\ OtherJobs(c)
  BY LimitAssumption DEF Move, Drop, ArchiveInv, TypeOK, Forward, OtherJobs, counts,
     request, memory, outside, bounds, history, Stages, Processes, Queues, Statuses
<1>2. JobInv(c)
  BY DEF ArchiveInv
<1>3. /\ holder'[c] = Nobody /\ stage[c] = "moving" /\ stage'[c] = "none" /\ holder[c] # Nobody
      /\ status' = status /\ total' = total /\ exists' = exists /\ sent' = sent
      /\ target[c] \in Queues
      /\ \/ owner[c] = Nobody /\ owner'[c] = Nobody
         \/ owner[c] = holder[c] /\ owner'[c] = target[c]
  BY <1>2, LimitAssumption DEF Move, Drop, ArchiveInv, TypeOK, Forward, OtherJobs,
     counts, request, memory, outside, bounds, history, Stages, Processes, Queues, Statuses,
     JobInv, JobHeld
<1>4. /\ StatusIsOwn' => StatusIsOwn
      /\ AllSafe => AllSafe'
  BY <1>1, AllSafeStays DEF StatusIsOwn, Forward, ArchiveInv, TypeOK
<1>5. (JobHeld(c) /\ ReportAgrees(c) /\ JobWritten(c) /\ LoneCopyReports(c))'
  BY <1>1, <1>2, <1>3 DEF JobInv, JobHeld, ReportAgrees, Reporting, JobWritten,
     LoneCopyReports, Forward
<1>6. StatusIsOwn' => ReportDue(c)' /\ TransferDue(c)'
  BY <1>2, <1>3, <1>4 DEF JobInv, ReportDue, Reporting, TransferDue, ReportStatuses
<1>7. StatusIsOwn' /\ MaxTotalRetries > 0 => AttemptLeft(c)'
  BY <1>2, <1>3, <1>4, LimitAssumption DEF JobInv, AttemptLeft
<1>8. StatusIsOwn' => JobOnTape(c)' /\ JobReportTrue(c)'
  BY <1>1, <1>2, <1>3, <1>4 DEF JobInv, JobWritten, JobOnTape, Safe, JobReportTrue, Forward,
     ReportTypeOf
<1>9. JobNotForgotten(c)'
  BY <1>1, <1>2, <1>3, <1>4 DEF JobInv, JobNotForgotten, Forward, Queues
<1>10. JobInv(c)'
  BY <1>5, <1>6, <1>7, <1>8, <1>9 DEF JobInv
<1> QED BY <1>1, <1>3, <1>10, OneJob

\* A job that could not be moved stays with its process.
LEMMA MoveErrorInv ==
  ASSUME ArchiveInv, NEW c \in Copies, MoveError(c)
  PROVE  ArchiveInv'
<1> USE Names
<1>1. TypeOK' /\ Forward /\ OtherJobs(c)
  BY LimitAssumption DEF MoveError, ArchiveInv, TypeOK, Forward, OtherJobs, counts,
     request, memory, outside, bounds, history, Stages, Processes, Queues, Statuses
<1>2. JobInv(c)
  BY DEF ArchiveInv
<1>3. /\ holder' = holder /\ owner' = owner /\ stage[c] = "moving" /\ stage'[c] = "left"
      /\ status' = status /\ total' = total /\ exists' = exists /\ sent' = sent
  BY <1>2, LimitAssumption DEF MoveError, ArchiveInv, TypeOK, Forward, OtherJobs,
     counts, request, memory, outside, bounds, history, Stages, Processes, Queues, Statuses,
     JobInv, JobHeld
<1>4. /\ StatusIsOwn' => StatusIsOwn
      /\ AllSafe => AllSafe'
  BY <1>1, AllSafeStays DEF StatusIsOwn, Forward, ArchiveInv, TypeOK
<1>5. (JobHeld(c) /\ ReportAgrees(c) /\ JobWritten(c) /\ LoneCopyReports(c))'
  BY <1>1, <1>2, <1>3 DEF JobInv, JobHeld, ReportAgrees, Reporting, JobWritten,
     LoneCopyReports, Forward
<1>6. StatusIsOwn' => ReportDue(c)' /\ TransferDue(c)'
  BY <1>2, <1>3, <1>4 DEF JobInv, ReportDue, Reporting, TransferDue, ReportStatuses
<1>7. StatusIsOwn' /\ MaxTotalRetries > 0 => AttemptLeft(c)'
  BY <1>2, <1>3, <1>4, LimitAssumption DEF JobInv, AttemptLeft
<1>8. StatusIsOwn' => JobOnTape(c)' /\ JobReportTrue(c)'
  BY <1>1, <1>2, <1>3, <1>4 DEF JobInv, JobWritten, JobOnTape, Safe, JobReportTrue, Forward,
     ReportTypeOf
<1>9. JobNotForgotten(c)'
  BY <1>1, <1>2, <1>3, <1>4 DEF JobInv, JobNotForgotten, Forward, Queues
<1>10. JobInv(c)'
  BY <1>5, <1>6, <1>7, <1>8, <1>9 DEF JobInv
<1> QED BY <1>1, <1>3, <1>10, OneJob

\* The process forgets a job of a deleted request.
LEMMA NoSuchObjectInv ==
  ASSUME ArchiveInv, NEW c \in Copies, NoSuchObject(c)
  PROVE  ArchiveInv'
<1> USE Names
<1>1. TypeOK' /\ Forward /\ OtherJobs(c)
  BY LimitAssumption DEF NoSuchObject, Drop, ArchiveInv, TypeOK, Forward, OtherJobs,
     counts, request, memory, outside, bounds, history, Stages, Processes, Queues, Statuses
<1>2. JobInv(c)
  BY DEF ArchiveInv
<1>3. /\ holder'[c] = Nobody /\ stage'[c] = "none" /\ owner' = owner /\ ~ exists'
      /\ status' = status /\ total' = total /\ sent' = sent
  BY <1>2, LimitAssumption DEF NoSuchObject, Drop, ArchiveInv, TypeOK, Forward,
     OtherJobs, counts, request, memory, outside, bounds, history, Stages, Processes, Queues,
     Statuses, JobInv, JobHeld
<1>4. /\ StatusIsOwn' => StatusIsOwn
      /\ AllSafe => AllSafe'
  BY <1>1, AllSafeStays DEF StatusIsOwn, Forward, ArchiveInv, TypeOK
<1>5. (JobHeld(c) /\ ReportAgrees(c) /\ JobWritten(c) /\ LoneCopyReports(c))'
  BY <1>1, <1>2, <1>3 DEF JobInv, JobHeld, ReportAgrees, Reporting, JobWritten,
     LoneCopyReports, Forward
<1>6. StatusIsOwn' => ReportDue(c)' /\ TransferDue(c)'
  BY <1>2, <1>3, <1>4 DEF JobInv, ReportDue, Reporting, TransferDue, ReportStatuses
<1>7. StatusIsOwn' /\ MaxTotalRetries > 0 => AttemptLeft(c)'
  BY <1>2, <1>3, <1>4, LimitAssumption DEF JobInv, AttemptLeft
<1>8. StatusIsOwn' => JobOnTape(c)' /\ JobReportTrue(c)'
  BY <1>1, <1>2, <1>3, <1>4 DEF JobInv, JobWritten, JobOnTape, Safe, JobReportTrue, Forward,
     ReportTypeOf
<1>9. JobNotForgotten(c)'
  BY <1>1, <1>2, <1>3, <1>4 DEF JobInv, JobNotForgotten, Forward, Queues
<1>10. JobInv(c)'
  BY <1>5, <1>6, <1>7, <1>8, <1>9 DEF JobInv
<1> QED BY <1>1, <1>3, <1>10, OneJob

\* The garbage collector queues a job according to its status.
LEMMA GarbageCollectInv ==
  ASSUME ArchiveInv, NEW c \in Copies, GarbageCollect(c)
  PROVE  ArchiveInv'
<1> USE Names
<1>1. TypeOK' /\ Forward /\ OtherJobs(c)
  BY LimitAssumption DEF GarbageCollect, Queueable, QueueOf, ArchiveInv, TypeOK,
     Forward, OtherJobs, counts, request, memory, outside, bounds, history, Stages, Processes,
     Queues, Statuses
<1>2. JobInv(c)
  BY DEF ArchiveInv
<1>3. /\ holder[c] = Nobody /\ holder' = holder /\ stage' = stage /\ total' = total
      /\ stage[c] = "none" /\ status' = status /\ exists' = exists /\ sent' = sent
      /\ \/ ~ exists /\ owner'[c] = Nobody
         \/ status[c] = "AJS_Complete" /\ owner'[c] = Orphan
         \/ status[c] = "AJS_ToTransferForUser" /\ owner'[c] = TransferQueue
         \/ status[c] \in ReportStatuses /\ owner'[c] = ReportQueue
         \/ owner'[c] = FailedQueue
  BY <1>2, LimitAssumption DEF GarbageCollect, Queueable, QueueOf, ArchiveInv, TypeOK,
     Forward, OtherJobs, counts, request, memory, outside, bounds, history, Stages, Processes,
     Queues, Statuses, JobInv, JobHeld, ReportStatuses
<1>4. /\ StatusIsOwn' => StatusIsOwn
      /\ AllSafe => AllSafe'
  BY <1>1, AllSafeStays DEF StatusIsOwn, Forward, ArchiveInv, TypeOK
<1>5. (JobHeld(c) /\ ReportAgrees(c) /\ JobWritten(c) /\ LoneCopyReports(c))'
  BY <1>1, <1>2, <1>3 DEF JobInv, JobHeld, ReportAgrees, Reporting, JobWritten,
     LoneCopyReports, Forward
<1>6. StatusIsOwn' => ReportDue(c)' /\ TransferDue(c)'
  BY <1>2, <1>3, <1>4 DEF JobInv, ReportDue, Reporting, TransferDue, ReportStatuses
<1>7. StatusIsOwn' /\ MaxTotalRetries > 0 => AttemptLeft(c)'
  BY <1>2, <1>3, <1>4, LimitAssumption DEF JobInv, AttemptLeft
<1>8. StatusIsOwn' => JobOnTape(c)' /\ JobReportTrue(c)'
  BY <1>1, <1>2, <1>3, <1>4 DEF JobInv, JobWritten, JobOnTape, Safe, JobReportTrue, Forward,
     ReportTypeOf
<1>9. JobNotForgotten(c)'
  BY <1>1, <1>2, <1>3, <1>4 DEF JobInv, JobNotForgotten, Forward, Queues
<1>10. JobInv(c)'
  BY <1>5, <1>6, <1>7, <1>8, <1>9 DEF JobInv
<1> QED BY <1>1, <1>3, <1>10, OneJob

\* The garbage collector fails a job that it cannot requeue.
LEMMA GarbageCollectErrorInv ==
  ASSUME ArchiveInv, NEW c \in Copies, GarbageCollectError(c)
  PROVE  ArchiveInv'
<1> USE Names
<1>1. TypeOK' /\ Forward /\ OtherJobs(c)
  BY LimitAssumption DEF GarbageCollectError, Queueable, QueueOf, ArchiveInv, TypeOK,
     Forward, OtherJobs, counts, request, memory, outside, bounds, history, Stages, Processes,
     Queues, Statuses
<1>2. JobInv(c)
  BY DEF ArchiveInv
<1>3. /\ holder[c] = Nobody /\ holder' = holder /\ stage' = stage /\ total' = total
      /\ stage[c] = "none" /\ status'[c] = "AJS_Failed" /\ exists' = exists /\ sent' = sent
      /\ c \in gcFailed' /\ owner'[c] # Nobody
      /\ owner'[c] = TransferQueue => status[c] = "AJS_ToTransferForUser"
  BY <1>2, LimitAssumption DEF GarbageCollectError, Queueable, QueueOf, ArchiveInv, TypeOK,
     Forward, OtherJobs, counts, request, memory, outside, bounds, history, Stages, Processes,
     Queues, Statuses, JobInv, JobHeld, ReportStatuses
<1>4. /\ StatusIsOwn' => StatusIsOwn
      /\ AllSafe => AllSafe'
  BY <1>1, AllSafeStays DEF StatusIsOwn, Forward, ArchiveInv, TypeOK
<1>5. (JobHeld(c) /\ ReportAgrees(c) /\ JobWritten(c) /\ LoneCopyReports(c))'
  BY <1>1, <1>2, <1>3 DEF JobInv, JobHeld, ReportAgrees, Reporting, JobWritten,
     LoneCopyReports, Forward
<1>6. StatusIsOwn' => ReportDue(c)' /\ TransferDue(c)'
  BY <1>2, <1>3, <1>4 DEF JobInv, ReportDue, Reporting, TransferDue, ReportStatuses
<1>7. StatusIsOwn' /\ MaxTotalRetries > 0 => AttemptLeft(c)'
  BY <1>2, <1>3, <1>4, LimitAssumption DEF JobInv, AttemptLeft
<1>8. StatusIsOwn' => JobOnTape(c)' /\ JobReportTrue(c)'
  BY <1>1, <1>2, <1>3, <1>4 DEF JobInv, JobWritten, JobOnTape, Safe, JobReportTrue, Forward,
     ReportTypeOf
<1>9. JobNotForgotten(c)'
  BY <1>1, <1>2, <1>3, <1>4 DEF JobInv, JobNotForgotten, Forward, Queues
<1>10. JobInv(c)'
  BY <1>5, <1>6, <1>7, <1>8, <1>9 DEF JobInv
<1> QED BY <1>1, <1>3, <1>10, OneJob

\* The copy that finds no other copy to transfer reports: all copies are on tape, or
\* the transfer of one was given up.
LEMMA UpdateTransferSuccessfulInv ==
  ASSUME ArchiveInv, NEW m \in Mounts, NEW c \in Copies, UpdateTransferSuccessful(m, c)
  PROVE  ArchiveInv'
<1> USE Names
<1>1. TypeOK' /\ Forward /\ OtherJobs(c)
  BY LimitAssumption DEF UpdateTransferSuccessful, FetchedReportDecided, ArchiveInv,
     TypeOK, Forward, OtherJobs, counts, request, memory, outside, bounds, history, Stages,
     Processes, Queues, Statuses
<1>2. JobInv(c)
  BY DEF ArchiveInv
<1>3. /\ holder[c] = m /\ owner[c] = m /\ holder' = holder /\ stage[c] = "written"
      /\ stage'[c] = "updated" /\ total' = total /\ sent' = sent /\ reportType' = reportType
      /\ catalogue' = catalogue /\ reportDecided' = reportDecided
      /\ \/ /\ OtherJobsToTransfer(c) /\ status'[c] = "AJS_Complete" /\ owner'[c] = Nobody
         \/ /\ ~ OtherJobsToTransfer(c) /\ owner'[c] = m
            /\ status'[c] = "AJS_ToReportToUserForTransfer"
  BY <1>2, LimitAssumption DEF UpdateTransferSuccessful, FetchedReportDecided,
     ArchiveInv, TypeOK, Forward, OtherJobs, counts, request, memory, outside, bounds, history,
     Stages, Processes, Queues, Statuses, JobInv, JobHeld
<1>4. /\ OtherJobsToTransfer(c) =>
           NbCopies # 1 /\ \E d \in Copies \ {c} : status[d] # "AJS_Complete"
      /\ StatusIsOwn /\ ~ OtherJobsToTransfer(c) => AllSafe
  <2>1. OtherJobsToTransfer(c) =>
          NbCopies # 1 /\ \E d \in Copies \ {c} : status[d] # "AJS_Complete"
    BY DEF OtherJobsToTransfer, Copies
  <2>2. ASSUME StatusIsOwn, ~ OtherJobsToTransfer(c), NEW d \in Copies
        PROVE  Safe(d)
    BY <1>2, <1>3, <2>2 DEF ArchiveInv, JobInv, JobWritten, JobOnTape, Safe,
       OtherJobsToTransfer
  <2> QED BY <2>1, <2>2 DEF AllSafe
<1>5. /\ StatusIsOwn' => StatusIsOwn
      /\ AllSafe => AllSafe'
  BY <1>1, AllSafeStays DEF StatusIsOwn, Forward, ArchiveInv, TypeOK
<1>6. (JobHeld(c) /\ ReportAgrees(c) /\ JobWritten(c) /\ LoneCopyReports(c))'
  BY <1>1, <1>2, <1>3, <1>4 DEF JobInv, JobHeld, ReportAgrees, Reporting, JobWritten,
     LoneCopyReports, Forward
<1>7. StatusIsOwn' => ReportDue(c)' /\ TransferDue(c)'
  BY <1>2, <1>3, <1>5 DEF JobInv, ReportDue, Reporting, TransferDue, ReportStatuses
<1>8. StatusIsOwn' /\ MaxTotalRetries > 0 => AttemptLeft(c)'
  BY <1>2, <1>3, <1>5, LimitAssumption DEF JobInv, AttemptLeft
<1>9. StatusIsOwn' => JobOnTape(c)' /\ JobReportTrue(c)'
  BY <1>1, <1>2, <1>3, <1>4, <1>5 DEF JobInv, JobWritten, JobOnTape, Safe, JobReportTrue,
     Forward, ReportTypeOf
<1>10. JobNotForgotten(c)'
  BY <1>1, <1>2, <1>3, <1>5 DEF JobInv, JobNotForgotten, Forward, Queues
<1>11. JobInv(c)'
  BY <1>6, <1>7, <1>8, <1>9, <1>10 DEF JobInv
<1> QED BY <1>1, <1>3, <1>4, <1>11, OneJob

\* What failReport() makes of a job: its status is the one of the first
\* job, or failed.
LEMMA FailReportEffect ==
  ASSUME ArchiveInv, NEW c \in Copies, FailReport(c), UNCHANGED outside,
         refusals' \in Nat, errors' \in Nat, stops' = stops,
         stage[c] \in {"held", "written", "updated"}
  PROVE  /\ TypeOK' /\ Forward /\ OtherJobs(c)
         /\ holder' = holder /\ owner' = owner /\ reportType' = reportType /\ total' = total
         /\ sent' = sent /\ exists' = exists /\ stage'[c] = "moving"
         /\ status'[c] \in {"AJS_Failed", status[1]} /\ 1 \in Copies
         /\ (StatusIsOwn' => c = 1) /\ (owner[c] = Nobody => c \in undone')
         /\ \/ target'[c] = FailedQueue
            \/ reportType[c] # "NoReportRequired" /\ status'[c] = status[1] /\ target'[c] = ReportQueue
<1>1. 1 \in Copies
  BY LimitAssumption DEF Copies
<1> DEFINE retries == reportRetries[1] + (IF c = 1 THEN 1 ELSE 0)
           final == retries >= MaxReportRetries
<1>2. retries \in Nat
  BY <1>1 DEF ArchiveInv, TypeOK
<1>3. /\ reportRetries' = [reportRetries EXCEPT ![1] = retries]
      /\ status' = [status EXCEPT ![c] = IF final THEN "AJS_Failed" ELSE status[1]]
      /\ \/ /\ ~ final /\ reportType[c] # "NoReportRequired"
            /\ MoveTo(c, ReportQueue)
            /\ UNCHANGED isFailed
         \/ /\ final \/ reportType[c] = "NoReportRequired"
            /\ MoveTo(c, FailedQueue)
            /\ isFailed' = TRUE
      /\ UNCHANGED <<exists, reportDecided, owner, total, inMount, lastMount, holder, reportType,
                     gcFailed>>
      /\ borrowed' = (borrowed \/ c # 1)
      /\ undone' = IF owner[c] = Nobody THEN undone \cup {c} ELSE undone
  BY DEF FailReport
<1> HIDE DEF retries, final
<1>4. isFailed' \in BOOLEAN /\ borrowed' \in BOOLEAN /\ undone' \subseteq Copies
  BY <1>3 DEF ArchiveInv, TypeOK
<1>5. /\ status' \in [Copies -> Statuses] /\ stage' \in [Copies -> Stages]
      /\ target' \in [Copies -> Queues] /\ reportRetries' \in [Copies -> Nat]
  BY <1>1, <1>2, <1>3 DEF ArchiveInv, TypeOK, MoveTo, Stages, Queues, Statuses
<1>6. TypeOK'
  BY <1>3, <1>4, <1>5 DEF ArchiveInv, TypeOK, outside
<1>7. Forward /\ OtherJobs(c)
  <2>1. borrowed => borrowed'
    <3>1. borrowed \in BOOLEAN
      BY DEF ArchiveInv, TypeOK
    <3> QED BY <1>3, <3>1
  <2> QED BY <1>3, <2>1 DEF ArchiveInv, TypeOK, MoveTo, Forward, OtherJobs, outside
<1>8. StatusIsOwn' => c = 1
  BY <1>3 DEF StatusIsOwn
<1> QED BY <1>1, <1>3, <1>6, <1>7, <1>8 DEF ArchiveInv, TypeOK, MoveTo, outside

\* A refused report: the status of the job stays its own only if it is the first one.
LEMMA ReportRefusedInv ==
  ASSUME ArchiveInv, NEW c \in Copies, ReportRefused(c)
  PROVE  ArchiveInv'
<1> USE Names
<1>1. /\ TypeOK' /\ Forward /\ OtherJobs(c)
      /\ holder' = holder /\ owner' = owner /\ reportType' = reportType /\ total' = total
      /\ sent' = sent /\ exists' = exists /\ stage'[c] = "moving"
      /\ status'[c] \in {"AJS_Failed", status[1]} /\ 1 \in Copies
      /\ (StatusIsOwn' => c = 1) /\ (owner[c] = Nobody => c \in undone')
      /\ \/ target'[c] = FailedQueue
         \/ reportType[c] # "NoReportRequired" /\ status'[c] = status[1] /\ target'[c] = ReportQueue
  <2>1. refusals + 1 \in Nat /\ errors \in Nat /\ refusals \in Nat
    BY DEF ArchiveInv, TypeOK
  <2> QED BY <2>1, FailReportEffect DEF ReportRefused
<1>2. JobInv(c) /\ JobInv(1)
  BY <1>1 DEF ArchiveInv
<1>3. /\ holder[c] = Reporter /\ owner[c] = Reporter /\ stage[c] = "held"
      /\ status[c] \in ReportStatuses
  BY <1>1, <1>2 DEF ReportRefused, JobInv, JobHeld, ReportAgrees, ReportTypeOf, Reporting,
     ReportStatuses
<1>4. /\ StatusIsOwn' => StatusIsOwn
      /\ AllSafe => AllSafe'
  BY <1>1, AllSafeStays DEF StatusIsOwn, Forward, ArchiveInv, TypeOK
<1>5. (JobHeld(c) /\ ReportAgrees(c) /\ JobWritten(c) /\ LoneCopyReports(c))'
  BY <1>1, <1>2, <1>3 DEF JobInv, JobHeld, ReportAgrees, Reporting, JobWritten,
     LoneCopyReports, Forward
<1>6. StatusIsOwn' => ReportDue(c)' /\ TransferDue(c)'
  BY <1>1, <1>2, <1>3, <1>4 DEF JobInv, ReportDue, Reporting, TransferDue,
     ReportStatuses
<1>7. StatusIsOwn' /\ MaxTotalRetries > 0 => AttemptLeft(c)'
  BY <1>1, <1>2, <1>3, <1>4, LimitAssumption DEF JobInv, AttemptLeft, ReportStatuses,
     TransferDue
<1>8. StatusIsOwn' => JobOnTape(c)' /\ JobReportTrue(c)'
  BY <1>1, <1>2, <1>3, <1>4 DEF JobInv, JobWritten, ReportStatuses, JobOnTape,
     Safe, JobReportTrue, Forward, ReportTypeOf
<1>9. JobNotForgotten(c)'
  BY <1>1, <1>2, <1>3, <1>4 DEF JobInv, JobNotForgotten, LoneCopyReports
<1>10. JobInv(c)'
  BY <1>5, <1>6, <1>7, <1>8, <1>9 DEF JobInv
<1> QED BY <1>1, <1>3, <1>10, OneJob

\* A job without a report to make was given the status of another one.
LEMMA ReportWithoutUrlInv ==
  ASSUME ArchiveInv, NEW c \in Copies, ReportWithoutUrl(c)
  PROVE  ArchiveInv'
<1> USE Names
<1>1. /\ TypeOK' /\ Forward /\ OtherJobs(c)
      /\ holder' = holder /\ owner' = owner /\ reportType' = reportType /\ total' = total
      /\ sent' = sent /\ exists' = exists /\ stage'[c] = "moving"
      /\ status'[c] \in {"AJS_Failed", status[1]} /\ 1 \in Copies
      /\ (StatusIsOwn' => c = 1) /\ (owner[c] = Nobody => c \in undone')
      /\ \/ target'[c] = FailedQueue
         \/ reportType[c] # "NoReportRequired" /\ status'[c] = status[1] /\ target'[c] = ReportQueue
  BY FailReportEffect DEF ReportWithoutUrl, ArchiveInv, TypeOK, bounds, history, outside
<1>2. JobInv(c) /\ JobInv(1)
  BY <1>1 DEF ArchiveInv
<1>3. /\ holder[c] = Reporter /\ owner[c] = Reporter /\ stage[c] = "held"
      /\ reportType[c] = "NoReportRequired"
      /\ StatusIsOwn => status[c] = "AJS_Failed"
  BY <1>1, <1>2 DEF ReportWithoutUrl, JobInv, JobHeld, ReportDue, Reporting,
     ReportAgrees, ReportTypeOf, ReportStatuses
<1>4. /\ StatusIsOwn' => StatusIsOwn
      /\ AllSafe => AllSafe'
  BY <1>1, AllSafeStays DEF StatusIsOwn, Forward, ArchiveInv, TypeOK
<1>5. (JobHeld(c) /\ ReportAgrees(c) /\ JobWritten(c) /\ LoneCopyReports(c))'
  BY <1>1, <1>2, <1>3 DEF JobInv, JobHeld, ReportAgrees, Reporting, JobWritten,
     LoneCopyReports, Forward
<1>6. StatusIsOwn' => ReportDue(c)' /\ TransferDue(c)'
  BY <1>1, <1>2, <1>3, <1>4 DEF JobInv, ReportDue, Reporting, TransferDue,
     ReportStatuses
<1>7. StatusIsOwn' /\ MaxTotalRetries > 0 => AttemptLeft(c)'
  BY <1>1, <1>2, <1>3, <1>4, LimitAssumption DEF JobInv, AttemptLeft, ReportStatuses,
     TransferDue
<1>8. StatusIsOwn' => JobOnTape(c)' /\ JobReportTrue(c)'
  BY <1>1, <1>2, <1>3, <1>4 DEF JobInv, JobWritten, ReportStatuses, JobOnTape,
     Safe, JobReportTrue, Forward, ReportTypeOf
<1>9. JobNotForgotten(c)'
  BY <1>1, <1>2, <1>3, <1>4 DEF JobInv, JobNotForgotten, LoneCopyReports
<1>10. JobInv(c)'
  BY <1>5, <1>6, <1>7, <1>8, <1>9 DEF JobInv
<1> QED BY <1>1, <1>3, <1>4, <1>10, OneJob

\* failReport() for a job of a mount, whose file is on tape.
LEMMA UpdateErrorInv ==
  ASSUME ArchiveInv, NEW m \in Mounts, NEW c \in Copies, UpdateError(m, c)
  PROVE  ArchiveInv'
<1> USE Names
<1>1. /\ TypeOK' /\ Forward /\ OtherJobs(c)
      /\ holder' = holder /\ owner' = owner /\ reportType' = reportType /\ total' = total
      /\ sent' = sent /\ exists' = exists /\ stage'[c] = "moving"
      /\ status'[c] \in {"AJS_Failed", status[1]} /\ 1 \in Copies
      /\ (StatusIsOwn' => c = 1) /\ (owner[c] = Nobody => c \in undone')
      /\ \/ target'[c] = FailedQueue
         \/ reportType[c] # "NoReportRequired" /\ status'[c] = status[1] /\ target'[c] = ReportQueue
  <2>1. errors + 1 \in Nat /\ errors \in Nat /\ refusals \in Nat
    BY DEF ArchiveInv, TypeOK
  <2> QED BY <2>1, FailReportEffect DEF UpdateError
<1>2. JobInv(c) /\ JobInv(1)
  BY <1>1 DEF ArchiveInv
<1>3. /\ holder[c] = m /\ owner[c] \in {m, Nobody} /\ stage[c] \in {"written", "updated"}
      /\ StatusIsOwn' => c = 1
      /\ StatusIsOwn => reportType[c] = "NoReportRequired"
      /\ c \in catalogue
  BY <1>1, <1>2 DEF UpdateError, JobInv, JobHeld, TransferDue, JobWritten,
     Copies, ArchiveInv, TypeOK
<1>4. /\ StatusIsOwn' => StatusIsOwn
      /\ AllSafe => AllSafe'
  BY <1>1, AllSafeStays DEF StatusIsOwn, Forward, ArchiveInv, TypeOK
<1>5. (JobHeld(c) /\ ReportAgrees(c) /\ JobWritten(c) /\ LoneCopyReports(c))'
  BY <1>1, <1>2, <1>3 DEF JobInv, JobHeld, ReportAgrees, Reporting, JobWritten,
     LoneCopyReports, Forward
<1>6. StatusIsOwn' => ReportDue(c)' /\ TransferDue(c)'
  BY <1>1, <1>2, <1>3, <1>4 DEF JobInv, ReportDue, Reporting, TransferDue,
     ReportStatuses
<1>7. StatusIsOwn' /\ MaxTotalRetries > 0 => AttemptLeft(c)'
  BY <1>1, <1>2, <1>3, <1>4, LimitAssumption DEF JobInv, AttemptLeft, ReportStatuses,
     TransferDue
<1>8. StatusIsOwn' => JobOnTape(c)' /\ JobReportTrue(c)'
  BY <1>1, <1>2, <1>3, <1>4 DEF JobInv, JobWritten, ReportStatuses, JobOnTape,
     Safe, JobReportTrue, Forward, ReportTypeOf
<1>9. JobNotForgotten(c)'
  BY <1>1, <1>2, <1>3, <1>4 DEF JobInv, JobNotForgotten, LoneCopyReports
<1>10. JobInv(c)'
  BY <1>5, <1>6, <1>7, <1>8, <1>9 DEF JobInv
<1> QED BY <1>1, <1>3, <1>10, OneJob

\* The object of the request goes away.
LEMMA CancelArchiveInv ==
  ASSUME ArchiveInv, CancelArchive
  PROVE  ArchiveInv'
<1>1. exists' \in BOOLEAN /\ ~ exists'
  BY DEF CancelArchive
<1>2. TypeOK' /\ Forward
  BY <1>1 DEF CancelArchive, ArchiveInv, TypeOK, Forward, counts, memory, outside,
     bounds, history
<1>3. ASSUME NEW c \in Copies PROVE JobInv(c)'
  BY <1>2, OtherJobInv DEF CancelArchive, ArchiveInv, counts, memory, outside
<1> QED BY <1>1, <1>2, <1>3 DEF ArchiveInv, LastCopyReports, CancelArchive

\* A process stops: its jobs are those of a dead agent, in nobody's memory.
LEMMA AbandonInv ==
  ASSUME ArchiveInv, NEW x \in Processes, Abandon(x), stops' \in Nat,
         UNCHANGED <<exists, isFailed, reportDecided, status, total, inMount, reportRetries,
                     target, reportType, outside, refusals, errors, history>>
  PROVE  ArchiveInv'
<1> USE Names
<1>1. TypeOK' /\ Forward
  BY DEF Abandon, ArchiveInv, TypeOK, Forward, outside, history, Stages, Processes
<1>2. /\ StatusIsOwn' = StatusIsOwn /\ AllSafe' = AllSafe
      /\ LastCopyReports' = LastCopyReports
  BY DEF StatusIsOwn, AllSafe, Safe, LastCopyReports, outside, history
<1>3. ASSUME NEW c \in Copies PROVE JobInv(c)'
  <2>1. JobInv(c)
    BY DEF ArchiveInv
  <2>2. /\ owner'[c] = IF owner[c] = x THEN Dead ELSE owner[c]
        /\ stage'[c] = IF holder[c] = x THEN "none" ELSE stage[c]
        /\ holder'[c] = IF holder[c] = x THEN Nobody ELSE holder[c]
        /\ x # Nobody
    BY DEF Abandon, Processes
  <2>3. (JobHeld(c) /\ ReportAgrees(c) /\ JobWritten(c) /\ LoneCopyReports(c))'
    BY <2>1, <2>2 DEF JobInv, JobHeld, ReportAgrees, Reporting, JobWritten,
       LoneCopyReports, outside
  <2>4. /\ ReportDue(c) => ReportDue(c)'
        /\ TransferDue(c) => TransferDue(c)'
        /\ AttemptLeft(c) => AttemptLeft(c)'
    BY <2>2 DEF ReportDue, Reporting, TransferDue, AttemptLeft
  <2>5. /\ JobOnTape(c)' = JobOnTape(c)
        /\ JobReportTrue(c)' = JobReportTrue(c)
        /\ JobNotForgotten(c) => JobNotForgotten(c)'
    BY <1>2, <2>2 DEF JobOnTape, Safe, JobReportTrue, JobNotForgotten, outside, history
  <2> QED BY <1>2, <2>1, <2>3, <2>4, <2>5 DEF JobInv
<1> QED BY <1>1, <1>2, <1>3 DEF ArchiveInv

-----------------------------------------------------------------------------
\* The request as it is queued.
LEMMA InitInv ==
  ASSUME Init
  PROVE  ArchiveInv
<1> USE Names
<1>1. TypeOK
  BY DEF Init, TypeOK, Statuses, Queues, Stages
<1>2. ASSUME NEW c \in Copies PROVE JobInv(c)
  <2>1. /\ status[c] = "AJS_ToTransferForUser" /\ owner[c] = TransferQueue /\ total[c] = 0
        /\ holder[c] = Nobody /\ stage[c] = "none" /\ sent = {}
    BY DEF Init
  <2> QED BY <2>1 DEF JobInv, JobHeld, ReportAgrees, Reporting, JobWritten,
     LoneCopyReports,
          ReportDue, TransferDue, AttemptLeft, JobOnTape, Safe, JobReportTrue, JobNotForgotten
<1>3. LastCopyReports
  BY LimitAssumption DEF Init, LastCopyReports, Copies
<1> QED BY <1>1, <1>2, <1>3 DEF ArchiveInv

\* Every step keeps the invariant.
LEMMA NextInv ==
  ASSUME ArchiveInv, [Next]_vars
  PROVE  ArchiveInv'
<1>1. CASE UNCHANGED vars
  <2>1. TypeOK' /\ Forward
    BY <1>1 DEF vars, request, counts, memory, outside, bounds, history, ArchiveInv, TypeOK,
       Forward
  <2>2. ASSUME NEW c \in Copies PROVE JobInv(c)'
    BY <1>1, <2>1, OtherJobInv DEF vars, request, counts, memory, outside, bounds, history,
       ArchiveInv
  <2>3. LastCopyReports' = LastCopyReports
    BY <1>1 DEF vars, request, bounds, history, LastCopyReports, StatusIsOwn
  <2> QED BY <2>1, <2>2, <2>3 DEF ArchiveInv
<1>2. ASSUME NEW c \in Copies, PopStep(c) PROVE ArchiveInv'
  <2>1. ASSUME NEW m \in Mounts, Pop(m, TransferQueue, c) PROVE ArchiveInv'
    BY <2>1, PopInv, Names DEF Processes
  <2>2. CASE Pop(Reporter, ReportQueue, c)
    BY <2>2, PopInv, Names DEF Processes
  <2> QED BY <1>2, <2>1, <2>2 DEF PopStep, GetNextJobBatch,
     GetNextArchiveJobsToReportBatch
<1>3. ASSUME NEW c \in Copies, JobStep(c) PROVE ArchiveInv'
  BY <1>3, FailTransferInv, FilesWrittenToTapeInv, UpdateTransferSuccessfulInv,
     WaitAsyncSucceedInv,
     AsyncReportInv, ReportWithoutUrlInv, SetArchiveJobBatchReportedInv, MoveInv, NoSuchObjectInv
  DEF JobStep
<1>4. ASSUME NEW c \in Copies, GarbageCollect(c) PROVE ArchiveInv'
  BY <1>4, GarbageCollectInv
<1>5. ASSUME NEW x \in Processes, EndOfProcess(x) PROVE ArchiveInv'
  <2>1. stops' \in Nat
    BY <1>5 DEF EndOfProcess, bounds, history, ArchiveInv, TypeOK
  <2> QED BY <1>5, <2>1, AbandonInv DEF EndOfProcess, bounds, history
<1>6. CASE CancelArchive
  BY <1>6, CancelArchiveInv
<1>7. CASE FaultStep
  <2>1. ASSUME NEW c \in Copies, ReportRefused(c) PROVE ArchiveInv'
    BY <2>1, ReportRefusedInv
  <2>2. ASSUME NEW c \in Copies, MoveError(c) PROVE ArchiveInv'
    BY <2>2, MoveErrorInv
  <2>5. ASSUME NEW c \in Copies, GarbageCollectError(c) PROVE ArchiveInv'
    BY <2>5, GarbageCollectErrorInv
  <2>3. ASSUME NEW c \in Copies, NEW m \in Mounts, UpdateError(m, c) PROVE ArchiveInv'
    BY <2>3, UpdateErrorInv
  <2>4. ASSUME NEW x \in Processes, Crash(x) PROVE ArchiveInv'
    <3>1. stops' \in Nat
      BY <2>4 DEF Crash, ArchiveInv, TypeOK
    <3> QED BY <2>4, <3>1, AbandonInv DEF Crash
  <2> QED BY <1>7, <2>1, <2>2, <2>3, <2>4, <2>5 DEF FaultStep
<1> QED BY <1>1, <1>2, <1>3, <1>4, <1>5, <1>6, <1>7 DEF Next

\* The inductive invariant holds.
LEMMA Invariance == Spec => []ArchiveInv
<1>1. Init => ArchiveInv
  BY InitInv
<1>2. ArchiveInv /\ [Next]_vars => ArchiveInv'
  BY NextInv
<1> QED BY <1>1, <1>2, PTL DEF Spec

\* The type invariant.
THEOREM TypeCorrect == Spec => []TypeOK
<1>1. ArchiveInv => TypeOK
  BY DEF ArchiveInv
<1> QED BY <1>1, Invariance, PTL

\* The report in the reporter's memory is the one the request asks for, for any
\* number of copies, refused reports, errors and crashes: between popNextBatch(),
\* which reads the status, and setArchiveJobBatchReported(), which acts on it, nobody
\* else changes the job.
THEOREM ReportIsCurrentCorrect == Spec => []ReportIsCurrent
<1>1. ArchiveInv => ReportIsCurrent
  BY Names DEF ArchiveInv, ReportIsCurrent, JobInv, JobHeld, ReportAgrees, Reporting
<1> QED BY <1>1, Invariance, PTL

\* The user is told that the file is safe only when it is, whatever the order in which
\* the mounts of the copies update the request.
THEOREM CompletionIsTrueCorrect == Spec => []CompletionIsTrue
<1>1. ArchiveInv => CompletionIsTrue
  BY DEF ArchiveInv, CompletionIsTrue, JobInv, JobReportTrue, AllSafe, Safe
<1> QED BY <1>1, Invariance, PTL

\* A job that used all its transfer attempts is never offered to a mount again, as
\* long as addReportFailure() gave no job the status of another one.
THEOREM RetryLimitCorrect ==
  ASSUME MaxTotalRetries > 0
  PROVE  Spec => [](StatusIsOwn => RetryLimit)
<1>1. ArchiveInv => (StatusIsOwn => RetryLimit)
  BY LimitAssumption DEF ArchiveInv, TypeOK, RetryLimit, JobInv, AttemptLeft
<1> QED BY <1>1, Invariance, PTL

\* A job that still has something to be done has an owner that will see to it, for any
\* number of copies, store errors and crashes, but for the jobs that garbageCollect()
\* could not requeue and those that were complete when failReport() was called for them.
THEOREM NoJobForgottenCorrect == Spec => []NoJobForgotten
<1>1. ArchiveInv => NoJobForgotten
  BY DEF ArchiveInv, NoJobForgotten, JobInv, JobNotForgotten
<1> QED BY <1>1, Invariance, PTL

\* However the transfers of the copies interleave and whatever updates fail, one of the
\* copies reports, as long as addReportFailure() gave no job the status of another one.
THEOREM LastCopyReportsCorrect == Spec => []LastCopyReports
<1>1. ArchiveInv => LastCopyReports
  BY DEF ArchiveInv
<1> QED BY <1>1, Invariance, PTL
============================================================================
