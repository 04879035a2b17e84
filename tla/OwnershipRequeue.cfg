\* Two requests in one tape pool, a tape mount whose two threads share its agent and a
\* reporter, batches of two, ownership switches that fail before or after their commit
\* and requeueing between the two queue types.
SPECIFICATION Spec
CONSTANTS
  r1 = r1  r2 = r2  p1 = p1  p2 = p2  f = f  s1 = s1  s2 = s2  g1 = g1  g2 = g2
  Requests = {r1, r2}
  Pools = {p1}
  Types = {"JobsToTransferForUser", "JobsToReportToUser"}
  FirstType = "JobsToTransferForUser"
  Copies <- AllCopies
  CopyNb <- SameOrder
  Agents = {f, s1, s2, g1}
  Frontends = {f}
  Sessions = {s1, s2}
  Collectors = {g1}
  SessionQueue <- MountAndReporter
  Late = {}
  Threads = {f, s1, s2, g1, "thread2"}
  AgentOf <- TwoThreads
  Register = Register
  NoOwner = NoOwner
  MaxBatch = 2
  MaxStops = 1
  MaxErrors = 1
  MaxRequeues = 1
INVARIANTS NoLostJob QueueMatchesStatus HeldIsOwned
SYMMETRY Symmetry
CHECK_DEADLOCK FALSE
