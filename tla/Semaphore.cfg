\* One CPU, fixed priorities, code that takes and gives two semaphores.
SPECIFICATION SemSpec
CONSTANTS
  t1 = t1
  t2 = t2
  h = h
  s1 = s1
  s2 = s2
  None = None
  UserTask <- MCUserTask
  Handler <- MCHandler
  KernelHandler = None
  External <- MCHandler
  NbrOfCPUs = 1
  Affinity <- MCAffinity
  NonPreemptible = {}
  Policy = "FP"
  Priority <- MCPriority
  Deadline <- MCDeadline
  WCET <- MCWCET
  StartTime <- MCStartTime
  Period <- MCPeriod
  DLHandler <- MCDLHandler
  WCETHandler <- MCWCETHandler
  ContextSwitchTime = 0
  Primitives = {"ttTake", "ttGive"}
  ExecTimes = {0, 1}
  SleepTimes = {1}
  NewDeadlines = {}
  MaxSegment = 3
  MaxCalls = 1
  MaxPending = 2
  MaxTime = 3
  MaxIter = 6
  MaxTimestep = 10
  Semaphore <- MCSemaphores
  InitVal <- MCInitVal
  MaxVal <- MCMaxVal
INVARIANTS
  WaitersMatchValue
  SemaphoreJobsAreQueued
  HighestPriorityRuns
PROPERTIES
  CountingSemaphore
\* the simulation stops at MaxTime or when it is aborted
CHECK_DEADLOCK FALSE
