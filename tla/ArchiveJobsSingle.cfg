\* A request with one copy, all faults; limits chosen so that a mount can use up
\* its own retries before the total is used up.
SPECIFICATION LiveSpec
CONSTANTS
  NbCopies = 1
  Mounts = {m1, m2}
  MaxRetriesWithinMount = 2
  MaxTotalRetries = 3
  MaxReportRetries = 2
  MaxStops = 2
  MaxReportFailures = 3
  MaxErrors = 2
INVARIANT RetryLimit
PROPERTY JobsSettle
CHECK_DEADLOCK FALSE
