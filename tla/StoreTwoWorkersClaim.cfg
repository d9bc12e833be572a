\* Two worker processes, each with a lock of its own: a job is claimed twice.
SPECIFICATION Spec
CONSTANTS
  t1 = t1  t2 = t2  w1 = w1  w2 = w2  a1 = a1  a2 = a2  x = x  r1 = r1
  Threads = {t1, t2}
  NoThread = NoThread
  Workers = {w1, w2}
  WorkerOf <- TwoWorkers
  Agents = {a1, a2}
  NoAgent = NoAgent
  Artifacts = {x}
  Reports = {r1}
  NoReport = NoReport
  Timeouts = {1}
  PostedStatuses <- AgentStatuses
  MaxJobs = 1
  MaxClock = 0
  LockWait = 0
  MaxCrashes = 0
INVARIANT GrantedToOwner
