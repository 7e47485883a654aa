SPECIFICATION FairSpec
CONSTANTS
  d1 = d1
  d2 = d2
  d3 = d3
  d4 = d4
  Device <- FourDevices
  Networks <- AllNetworks
  HopLimits <- ThreeProfiles
  MaxConcurrentPeers = 2
  Editors <- TwoEditors
  MaxEvents = 2
INVARIANTS
  TypeOK
  ChainsEnd
  EditReachesTwoLinks
  PlainEditSpreads
PROPERTIES
  CascadeDiesOut
CHECK_DEADLOCK FALSE
