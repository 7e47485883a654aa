SPECIFICATION FairSpec
CONSTANTS
  Note = {n1}
  NoFile = NoFile
  NoRow = NoRow
  NoNote = NoNote
  TTL = 0
  MaxTime = 4
  MaxChanges = 3
  MaxCrashes = 1
INVARIANTS
  TypeOK
  FreshMeansEqual
PROPERTIES
  IndexCatchesUp
  PurgesAreFinished
CHECK_DEADLOCK FALSE
