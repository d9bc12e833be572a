\* The server as the CLI starts it: one process, request threads.
SPECIFICATION Spec
CONSTANTS
  t1 = t1  t2 = t2  w1 = w1  w2 = w2  a1 = a1  a2 = a2  x = x  r1 = r1
  Threads = {t1, t2}
  NoThread = NoThread
  Workers = {w1}
  WorkerOf <- OneWorker
  Agents = {a1, a2}
  NoAgent = NoAgent
  Artifacts = {x}
  Reports = {r1}
  NoReport = NoReport
  Timeouts = {1}
  PostedStatuses = {"running", "cancelled"}
  MaxJobs = 2
  MaxClock = 2
  LockWait = 0
  MaxCrashes = 1
SYMMETRY Symmetry
INVARIANTS StoreInv GrantedToOwner RowsStayTrue
PROPERTIES VerdictFinal KeepsPromise
