\* One request with two copies, two tape mounts, two collectors: crashes of a
\* collector while it cleans up another agent.
SPECIFICATION Spec
CONSTANTS
  r1 = r1  r2 = r2  p1 = p1  p2 = p2  f = f  s1 = s1  s2 = s2  g1 = g1  g2 = g2
  Requests = {r1}
  Pools = {p1, p2}
  Types = {"JobsToTransferForUser"}
  FirstType = "JobsToTransferForUser"
  Copies <- AllCopies
  CopyNb <- SameOrder
  Agents = {f, s1, s2, g1, g2}
  Frontends = {f}
  Sessions = {s1, s2}
  Collectors = {g1, g2}
  SessionQueue <- TwoMounts
  Late = {g2}
  Threads = {f, s1, s2, g1, g2}
  AgentOf <- OneThread
  Register = Register
  NoOwner = NoOwner
  MaxBatch = 1
  MaxStops = 2
  MaxErrors = 0
  MaxRequeues = 2
INVARIANTS NoLostJob AgentReachable CleanupSucceeds
PROPERTY OwnerIsRespected
CHECK_DEADLOCK FALSE
