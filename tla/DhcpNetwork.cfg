SPECIFICATION NetworkSpec
CONSTANTS
  Base = 2
  ServerAddress = 10
  MinAddress = 2
  MaxAddress = 6
  NullId = NullId
  EmptyId = EmptyId
  NoOption = NoOption
  c1 = c1
  c2 = c2
  Identifiers <- TwoClients
  Datagrams <- ClientDatagrams
  LocalAllocFails = FALSE
  SocketFailures = {}
  Unsteady <- SecondClient
  MaxRequests <- TwoOfTheFirst
  MaxReplies = 1
  MaxRun = 1
INVARIANTS
  SharingNeedsRestart
  LeasesAreOnRecord
  RepliesReachTheirClient
  RefusalMeansExhausted
PROPERTIES
  LeasesEndByRestart
