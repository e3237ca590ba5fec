SPECIFICATION Spec
CONSTANTS
  Ethernet = Ethernet
  I211 = I211
  Elsewhere = Elsewhere
  NoAddress = NoAddress
  Models <- AllModels
  EthernetModel = Ethernet
  I211Model = I211
  OtherAddresses <- SomeAddresses
  Unset = NoAddress
  Machines <- AllMachines
  FrailMachines <- FewMachines
  AskedIps <- SomeIps
  LastHost = 30
INVARIANTS
  TypeOK
  SegmentsAreConsecutive
  RangesAreProper
  ServersHaveAdapters
