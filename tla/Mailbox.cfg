\* One CPU, fixed priorities, tasks that share a mailbox of size two.
SPECIFICATION MailSpec
CONSTANTS
  t1 = t1
  t2 = t2
  h = h
  box = box
  m1 = m1
  m2 = m2
  None = None
  UserTask <- MCUserTask
  Handler <- MCHandler
  KernelHandler = None
  External <- MCHandler
  NbrOfCPUs = 1
  Affinity <- MCAffinity
  NonPreemptible = {}
  Policy = "FP"
  Priority <- MCPriority
  Deadline <- MCDeadline
  WCET <- MCWCET
  StartTime <- MCStartTime
  Period <- MCPeriod
  DLHandler <- MCDLHandler
  WCETHandler <- MCWCETHandler
  ContextSwitchTime = 0
  Primitives = {"ttFetch", "ttPost", "ttTryFetch", "ttTryPost", "ttRetrieve"}
  ExecTimes = {0, 1}
  SleepTimes = {1}
  NewDeadlines = {}
  MaxSegment = 3
  MaxCalls = 1
  MaxPending = 1
  MaxTime = 2
  MaxIter = 6
  MaxTimestep = 10
  Mailbox = {box}
  MaxSize <- MCMaxSize
  Message = {m1, m2}
SYMMETRY MessageSymmetry
INVARIANTS
  WaitersMatchBuffer
  MailboxJobsAreQueued
PROPERTIES
  MessagesInOrder
\* the simulation stops at MaxTime or when it is aborted
CHECK_DEADLOCK FALSE
