SPECIFICATION Spec
CONSTANTS
  Base = 2
  ServerAddress = 10
  MinAddress = 2
  MaxAddress = 1
  NullId = NullId
  EmptyId = EmptyId
  NoOption = NoOption
  c1 = c1
  c2 = c2
  Identifiers <- AllIdentifiers
  Datagrams <- AllDatagrams
  LocalAllocFails = TRUE
  SocketFailures = {"bind", "setBroadcast", "receiveBytes", "sendTo"}
INVARIANTS
  TypeOK
  NoAddressShared
  OneLeasePerClient
  ClientsHavePoolAddresses
  RepliesTellTheLease
  NakOnlyForOthersAddress
  RefusalLeavesAtMostLastOffer
  StoppedMeansQuiet
PROPERTIES
  LeasesAreStable
  ImplementsBinding
  TrafficEndsJoins
