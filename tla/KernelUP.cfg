\* One CPU, earliest deadline first, code that creates jobs and sleeps.
SPECIFICATION Spec
CONSTANTS
  t1 = t1
  t2 = t2
  h = h
  None = None
  UserTask <- MCUserTask
  Handler <- MCHandler
  KernelHandler = None
  External <- MCExternal
  NbrOfCPUs = 1
  Affinity <- MCAffinity
  NonPreemptible = {}
  Policy = "EDF"
  Priority <- MCPriority
  Deadline <- MCDeadline
  WCET <- MCWCET
  StartTime <- MCStartTime
  Period <- MCPeriod
  DLHandler <- MCDLHandler
  WCETHandler <- MCWCETHandler
  ContextSwitchTime = 0
  Primitives = {"ttCreateJob", "ttSleepUntil"}
  ExecTimes = {0, 2}
  SleepTimes = {0, 1}
  NewDeadlines = {}
  MaxSegment = 2
  MaxCalls = 1
  MaxPending = 2
  MaxTime = 3
  MaxIter = 7
  MaxTimestep = 10
INVARIANTS
  TypeOK
  JobAccounting
  ActiveJobsAreQueued
  StateTellsQueue
  TimeQSorted
  ReadyQInOrder
  NoEventIsMissed
  DeadlineTimerFollowsJob
  BudgetTimerFollowsTask
PROPERTIES
  JobsServedInOrder
\* the simulation stops at MaxTime or when it is aborted
CHECK_DEADLOCK FALSE
