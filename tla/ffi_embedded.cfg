SPECIFICATION FairSpec
CONSTANTS
  Callers = {c1, c2, c3}
  Nobody = Nobody
  Clients = {k}
  MaxPolls = 2
  MaxCalls = 4
CHECK_DEADLOCK FALSE
INVARIANTS
  TypeOK
  OneServer
  PortTruth
PROPERTIES
  LeaseKept
  CallsReturn
