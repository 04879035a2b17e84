\* Two worker threads of a process and its heartbeat thread, an error of the object
\* store, and a collector that takes the process for dead.
SPECIFICATION LiveSpec
CONSTANTS
  w1 = w1  w2 = w2  hb = hb
  Threads = {w1, w2, hb}
  HeartbeatThread = hb
  Objects = {o1}
  NoThread = NoThread
  Collector = Collector
  MaxErrors = 1
  MaxClaims = 1
INVARIANT QueueListed
PROPERTIES ListIsAtomic CallsReturn ZombieExits

CHECK_DEADLOCK FALSE
