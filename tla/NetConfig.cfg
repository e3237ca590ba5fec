SPECIFICATION Spec
CONSTANTS
  FailingCalls = {"CoInitializeEx", "CoCreateInstance", "ConnectServer", "CoSetProxyBlanket",
                  "ExecQuery", "Next", "Get", "GetObject", "GetMethod", "ExecMethod"}
  MaxInits = 4
INVARIANTS
  InterfacesAreLive
  LossNeedsFailedInit
CHECK_DEADLOCK FALSE
