\* A non-preemptible task loses its CPU on a system with two CPUs.
SPECIFICATION FairSpec
CONSTANTS
  t1 = t1
  t2 = t2
  t3 = t3
  h = h
  cs = cs
  None = None
  UserTask <- MCUserTask
  Handler <- MCHandler
  KernelHandler = None
  External <- MCExternal
  NbrOfCPUs = 2
  Affinity <- MCAffinity
  NonPreemptible = {t1}
  Policy = "EDF"
  Priority <- MCPriority
  Deadline <- MCDeadline
  WCET <- MCWCET
  StartTime <- MCStartTime
  Period <- MCPeriod
  DLHandler <- MCDLHandler
  WCETHandler <- MCWCETHandler
  ContextSwitchTime = 0
  Primitives = {"ttSetNextSegment"}
  ExecTimes = {0, 1, 2}
  SleepTimes = {1}
  NewDeadlines = {}
  MaxSegment = 2
  MaxCalls = 1
  MaxPending = 2
  MaxTime = 3
  MaxIter = 7
  MaxTimestep = 10
PROPERTIES
  NonPreemptibleKeepsCPU
\* the simulation stops at MaxTime or when it is aborted
CHECK_DEADLOCK FALSE
