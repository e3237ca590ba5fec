SPECIFICATION Spec
CONSTANTS
  Ethernet = Ethernet
  I211 = I211
  Elsewhere = Elsewhere
  NoAddress = NoAddress
  Models <- AllModels
  EthernetModel = Ethernet
  I211Model = I211
  OtherAddresses <- SomeAddresses
  Unset = NoAddress
  Machines <- NoMachines
  FrailMachines <- UsedMachines
  AskedIps <- UsedIps
  LastHost = 30
INVARIANTS
  AlreadyCorrectIsTrue
