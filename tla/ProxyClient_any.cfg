\* The client on one thread and on two, with packets posted at any time.
SPECIFICATION FairSpec
CONSTANTS
  Endpoints = 2
  MaxPackets = 2
  ConnectTimeout = 1
  ReadTimeout = 1
  WriteTimeout = 1
  HeartbeatPeriod = 1
  Modes = {TRUE, FALSE}
INVARIANTS
  OneWriteAtATime
  NothingHangs
  ReportsPaired
PROPERTIES
  SilentWhenStopped
  DeadlinesFair
  ImplementsOutbox
  RunReturns
CHECK_DEADLOCK FALSE
