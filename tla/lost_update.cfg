SPECIFICATION Spec
CONSTANTS
  Bodies = {b1, b2}
  NoBody = NoBody
  Att = {}
  Dev = {d1, d2}
  Notes = {n1}
  NoNote = NoNote
  Ops = {"edit"}
  Clocks = "global"
  Interleaving = "free"
  MaxTime = 3
  MaxWrites = 3
  MaxFaults = 0
SYMMETRY Symmetry
PROPERTIES ReplacedOnlyByNewerOrPurge
