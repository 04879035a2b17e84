\* The times of the code, 30 s, 60 s and 120 s, in units of 15 s; updates of up to 90 s,
\* beyond the deadline, reads of at most 15 s.
SPECIFICATION LiveSpec
CONSTANTS
  HeartRate = 2
  Deadline = 4
  Timeout = 8
  MaxUpdate = 6
  ReadDelay = 1
  MaxRestarts = 1
PROPERTIES NeverMistaken DeadFound

CHECK_DEADLOCK FALSE
