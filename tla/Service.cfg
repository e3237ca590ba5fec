SPECIFICATION Spec
CONSTANTS
  N = 3
  SocketFailures = {"bind", "setBroadcast", "receiveBytes", "sendTo"}
INVARIANTS
  ReturnMeansQuiet
  DestroyedMeansQuiet
  WaitingMeansLastRunning
  WaitingMeansAllRunning
PROPERTIES
  StartReturns
  StopEndsProcess
CHECK_DEADLOCK FALSE
