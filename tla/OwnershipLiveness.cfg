\* Liveness: one request with two copies, a mount and two collectors, two of the
\* processes stop.
SPECIFICATION LiveSpec
CONSTANTS
  r1 = r1  r2 = r2  p1 = p1  p2 = p2  f = f  s1 = s1  s2 = s2  g1 = g1  g2 = g2
  Requests = {r1}
  Pools = {p1, p2}
  Types = {"JobsToTransferForUser"}
  FirstType = "JobsToTransferForUser"
  Copies <- AllCopies
  CopyNb <- SameOrder
  Agents = {f, s1, g1, g2}
  Frontends = {f}
  Sessions = {s1}
  Collectors = {g1, g2}
  SessionQueue <- OneMount
  Late = {}
  Threads = {f, s1, g1, g2}
  AgentOf <- OneThread
  Register = Register
  NoOwner = NoOwner
  MaxBatch = 1
  MaxStops = 2
  MaxErrors = 0
  MaxRequeues = 1
PROPERTY DeadAgentsRemoved
CHECK_DEADLOCK FALSE
