\* Two threads, four calls, two faults.
SPECIFICATION LiveSpec
CONSTANTS
  Threads = {t1, t2}
  Addresses = {q1, q2, q3}
  NoQueue = NoQueue
  MaxAttempts = 5
  MaxCalls = 4
  MaxFaults = 2
INVARIANTS NoOrphanQueue JobsReachable UndisturbedSucceeds
PROPERTY CallsEnd

CHECK_DEADLOCK FALSE
