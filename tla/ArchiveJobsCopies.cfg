\* A request with two copies and the retry limits of queueArchive(); processes stop,
\* a report is refused, and an access to the object store fails.
SPECIFICATION Spec
CONSTANTS
  NbCopies = 2
  Mounts = {m1, m2}
  MaxRetriesWithinMount = 2
  MaxTotalRetries = 2
  MaxReportRetries = 2
  MaxStops = 2
  MaxReportFailures = 1
  MaxErrors = 1
INVARIANTS CompletionIsTrue LastCopyReports ReportIsCurrent NoJobForgotten
CHECK_DEADLOCK FALSE
