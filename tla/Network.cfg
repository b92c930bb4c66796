SPECIFICATION Spec
CONSTANTS
  a = a
  b = b
  c = c
  d = d
  NbrOfNodes = 3
  Message <- MCMessage
  Sender <- MCSender
  Receiver <- MCReceiver
  Length <- MCLength
  MsgPrio <- MCMsgPrio
  Minsize = 2
  Datarate = 1
  Bandwidth <- MCBandwidth
  Predelay <- MCPredelay
  Postdelay <- MCPostdelay
  MaxTimestep = 100
  CollisionWindow = 2
  Static <- MCStatic
  DynSchedule <- MCDynSchedule
  MiniSlotSize = 2
  NIT = 1
  SlotTime = 2
  SwitchMem = 4
  Scenario <- MCScenario
  MaxDraw = 3
  LastCall = 2
  MaxTime = 18
INVARIANTS
  NetworkTypeOK
  TransmissionsAreSound
  NetworkWakesUp
  SwitchMemoryIsAccounted
  SentInTime
PROPERTY LinksSpec
CHECK_DEADLOCK FALSE
