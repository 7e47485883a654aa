SPECIFICATION FairSpec
CONSTANTS
  a = a
  b = b
  Nodes = {a, b}
  Callers <- ClientOfA
  NoCaller = NoCaller
  NoPeer = NoPeer
  NoCtx = NoCtx
  Routes = {"peer_id", "remote_wire_base"}
  QueueSize = 1
  MaxGen <- AStartsTwice
  MaxCalls = 1
  MaxPushes = 0
  MaxFaults = 0
  Notes = {1}
  NoNote = NoNote
  Files = {}
  NoFile = NoFile
  NoBlob = NoBlob
  MaxBytes = 1
CHECK_DEADLOCK FALSE
PROPERTIES
  SyncReturns
  AbandonedSwarmEnds
