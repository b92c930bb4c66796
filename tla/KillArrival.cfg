\* The job that ttKillJob releases keeps the arrival time of the killed job.
SPECIFICATION FairSpec
CONSTANTS
  t1 = t1
  t2 = t2
  h = h
  None = None
  UserTask <- MCUserTask
  Handler <- MCHandler
  KernelHandler = None
  External <- MCExternal
  NbrOfCPUs = 1
  Affinity <- MCAffinity
  NonPreemptible = {t2}
  Policy = "FP"
  Priority <- MCPriority
  Deadline <- MCDeadline
  WCET <- MCWCET
  StartTime <- MCStartTime
  Period <- MCPeriod
  DLHandler <- MCDLHandler
  WCETHandler <- MCWCETHandler
  ContextSwitchTime = 0
  Primitives = {"ttCreateJob", "ttKillJob"}
  ExecTimes = {0, 2}
  SleepTimes = {0, 1}
  NewDeadlines = {}
  MaxSegment = 2
  MaxCalls = 1
  MaxPending = 2
  MaxTime = 2
  MaxIter = 7
  MaxTimestep = 10
PROPERTIES
  JobsServedInOrder
\* the simulation stops at MaxTime or when it is aborted
CHECK_DEADLOCK FALSE
