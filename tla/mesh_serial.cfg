SPECIFICATION Spec
CONSTANTS
  Bodies = {b1, b2}
  NoBody = NoBody
  Att = {}
  Dev = {d1, d2, d3}
  Notes = {n1}
  NoNote = NoNote
  Ops = {"edit", "delete", "restore", "purge"}
  Clocks = "unique"
  Interleaving = "serial"
  MaxTime = 4
  MaxWrites = 4
  MaxFaults = 1
SYMMETRY Symmetry
INVARIANTS SessionReconciles SessionDrainsOutbox
PROPERTIES AckOnlyWhenDelivered
