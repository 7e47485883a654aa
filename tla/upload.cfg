SPECIFICATION FairSpec
CONSTANTS
  Senders = {s1, s2}
  Versions = {v1, v2}
  NoVersion = NoVersion
  Torn = Torn
  Total = 3
  Chunk = 2
  MaxCrashes = 1
  MaxLost = 1
  MaxMerges = 1
  MaxUploads = 2
INVARIANTS TypeOK PartIsPrefix
PROPERTIES  EventuallyRight
CHECK_DEADLOCK FALSE
