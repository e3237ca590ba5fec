SPECIFICATION NetworkSpec
CONSTANTS
  Base = 2
  ServerAddress = 12
  MinAddress = 2
  MaxAddress = 14
  NullId = NullId
  EmptyId = EmptyId
  NoOption = NoOption
  c1 = c1
  c2 = c2
  Identifiers <- TwoClients
  Datagrams <- ClientDatagrams
  LocalAllocFails = FALSE
  SocketFailures = {}
  Unsteady <- FirstClient
  MaxRequests <- OneRequest
  MaxReplies = 1
  MaxRun = 1
PROPERTIES
  ClientsAreServed
  SharingEnds
