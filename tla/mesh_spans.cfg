SPECIFICATION Spec
CONSTANTS
  Bodies = {b1, b2}
  NoBody = NoBody
  Att = {a1}
  Dev = {d1, d2}
  Notes = {n1}
  NoNote = NoNote
  Ops = {"edit", "attach", "delete", "restore", "rewrite"}
  Clocks = "global"
  Interleaving = "spans"
  MaxTime = 3
  MaxWrites = 3
  MaxFaults = 1
SYMMETRY Symmetry
INVARIANTS TypeOK HeadsDetermineContent
PROPERTIES ReplacedOnlyByNewerOrPurge AckOnlyWhenDelivered
