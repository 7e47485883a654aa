SPECIFICATION Spec
CONSTANTS
  Senders = {s1}
  Versions = {v1, v2}
  NoVersion = NoVersion
  Torn = Torn
  Total = 3
  Chunk = 2
  MaxCrashes = 1
  MaxLost = 0
  MaxMerges = 0
  MaxUploads = 2
PROPERTIES DoneMeansStored
CHECK_DEADLOCK FALSE
