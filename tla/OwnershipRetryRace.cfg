\* A tape mount whose injector and reporter threads share an agent: the reporter
\* requeues a failed job in the very queue the injector pops from.
SPECIFICATION Spec
CONSTANTS
  r1 = r1  r2 = r2  p1 = p1  p2 = p2  f = f  s1 = s1  s2 = s2  g1 = g1  g2 = g2
  Requests = {r1}
  Pools = {p1}
  Types = {"JobsToTransferForUser"}
  FirstType = "JobsToTransferForUser"
  Copies <- AllCopies
  CopyNb <- SameOrder
  Agents = {f, s1}
  Frontends = {f}
  Sessions = {s1}
  Collectors = {}
  SessionQueue <- OneMount
  Late = {}
  Threads = {f, s1, "thread2"}
  AgentOf <- TwoThreads
  Register = Register
  NoOwner = NoOwner
  MaxBatch = 1
  MaxStops = 0
  MaxErrors = 0
  MaxRequeues = 1
INVARIANT OwnerPointsBack
CHECK_DEADLOCK FALSE
