\* Two CPUs, earliest deadline first, context switches that take time.
SPECIFICATION FairSpec
CONSTANTS
  t1 = t1
  t2 = t2
  t3 = t3
  h = h
  cs = cs
  None = None
  UserTask <- MCUserTask
  Handler <- MCHandler
  KernelHandler = cs
  External <- MCExternal
  NbrOfCPUs = 2
  Affinity <- MCAffinity
  NonPreemptible = {cs}
  Policy = "EDF"
  Priority <- MCPriority
  Deadline <- MCDeadline
  WCET <- MCWCET
  StartTime <- MCStartTime
  Period <- MCPeriod
  DLHandler <- MCDLHandler
  WCETHandler <- MCWCETHandler
  ContextSwitchTime = 1
  Primitives = {"ttSleepUntil", "ttSetNextSegment", "ttSetAbsDeadline"}
  ExecTimes = {0, 1}
  SleepTimes = {1}
  NewDeadlines = {1, 3}
  MaxSegment = 2
  MaxCalls = 1
  MaxPending = 2
  MaxTime = 3
  MaxIter = 7
  MaxTimestep = 10
INVARIANTS
  ActiveJobsAreQueued
  HighestPriorityRuns
  NoEventIsMissed
  JobStartsAtFirstSegment
PROPERTIES
  KernelRunsTerminate
\* the simulation stops at MaxTime or when it is aborted
CHECK_DEADLOCK FALSE
