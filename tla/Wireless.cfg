SPECIFICATION Spec
CONSTANTS
  a = a
  b = b
  c = c
  d = d
  NbrOfNodes = 3
  Message <- MCMessage
  Sender <- MCSender
  Receiver <- MCReceiver
  Length <- MCLength
  Minsize = 2
  Datarate = 1
  Predelay <- MCPredelay
  Postdelay <- MCPostdelay
  MaxTimestep = 100
  Level <- MCLevel
  Threshold = 3
  AckTimeout = 1
  RetryLimit = 1
  SlotTime = 1
  DIFS = 2
  CWMin = 1
  CWMax = 2
  UnitBackoff = 1
  IFS = 2
  MinBE = 0
  MaxBE = 1
  MaxCSMABackoffs = 2
  Scenario <- MCScenario
  LastCall = 2
  MaxTime = 18
INVARIANTS
  AirIsSound
  WirelessWakesUp
PROPERTIES
  RetriesAreCounted
  WirelessLinksSpec
CHECK_DEADLOCK FALSE
