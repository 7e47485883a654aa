SPECIFICATION Spec
CONSTANTS
  a = a
  b = b
  Nodes = {a, b}
  Callers <- ClientOfA
  NoCaller = NoCaller
  NoPeer = NoPeer
  NoCtx = NoCtx
  Routes = {"peer_id", "remote_wire_base"}
  QueueSize = 1
  MaxGen <- EachStartsOnce
  MaxCalls = 1
  MaxPushes = 2
  MaxFaults = 1
  Notes = {1, 2}
  NoNote = NoNote
  Files = {f}
  NoFile = NoFile
  NoBlob = NoBlob
  MaxBytes = 1
CHECK_DEADLOCK FALSE
INVARIANTS
  TypeOK
  ResponsesFit
  CallerIsServed
  SyncMakesEqual
