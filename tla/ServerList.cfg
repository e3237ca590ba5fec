SPECIFICATION Spec
CONSTANTS
  N = 3
  SocketFailures = {"bind", "setBroadcast", "receiveBytes", "sendTo"}
INVARIANTS
  StopBeforeConfigIsEnough
  StartedOnceMeansRunning
CHECK_DEADLOCK FALSE
