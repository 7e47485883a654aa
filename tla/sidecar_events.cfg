SPECIFICATION FairSpec
CONSTANTS
  p = p
  q = q
  x = x
  d = d
  e = e
  Peers = {p, q, x}
  Devices = {d, e}
  NoDevice = NoDevice
  DeviceOf <- TwoDevices
  NoPeer = NoPeer
  Poll = Poll
  Streams = {s}
  Capacity = 2
  MaxSyncs = 1
  MaxStarts = 2
CHECK_DEADLOCK FALSE
INVARIANTS
  TypeOK
  KeysAnnounced
  TellsApp
PROPERTIES
  ConnectedIsReachable
  AppLearns
