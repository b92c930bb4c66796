\* One CPU, fixed priorities, code that uses a monitor and two events.
SPECIFICATION MonSpec
CONSTANTS
  t1 = t1
  t2 = t2
  t3 = t3
  h = h
  mon = mon
  ev = ev
  fe = fe
  None = None
  UserTask <- MCUserTask
  Handler <- MCHandler
  KernelHandler = None
  External = {}
  NbrOfCPUs = 1
  Affinity <- MCAffinity
  NonPreemptible = {}
  Policy = "FP"
  Priority <- MCPriority
  Deadline <- MCDeadline
  WCET <- MCWCET
  StartTime <- MCStartTime
  Period <- MCPeriod
  DLHandler <- MCNoHandlers
  WCETHandler <- MCWCETHandler
  ContextSwitchTime = 0
  Primitives = {"ttEnterMonitor", "ttExitMonitor", "ttWait", "ttNotify", "ttNotifyAll"}
  ExecTimes = {0, 1}
  SleepTimes = {1}
  NewDeadlines = {}
  MaxSegment = 3
  MaxCalls = 1
  MaxPending = 1
  MaxTime = 3
  MaxIter = 7
  MaxTimestep = 10
  Monitor <- MCMonitors
  Event <- MCEvents
  EventMonitor <- MCEventMonitor
INVARIANTS
  MonitorJobsAreQueued
  WaitersHaveHolder
  HolderInherits
  HighestPriorityRuns
\* the simulation stops at MaxTime or when it is aborted
CHECK_DEADLOCK FALSE
