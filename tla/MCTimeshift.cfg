SPECIFICATION Spec
CONSTANTS
  BufferSize = 19
  Packet = 2
  Gap = 6
  Step = 5
  MaxBytes = 26
  SyncBytes <- MCSyncBytes
INVARIANTS
  UnreadIsKept
  SeekableIsIntact
  BlocksFollow
