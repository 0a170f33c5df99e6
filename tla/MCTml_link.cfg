SPECIFICATION FairSpec
CONSTANTS
  MaxWrites = 2
  MaxPackets = 3
INVARIANTS
  TypeOK
  ResponseAfterCompletion
  BufferStable
  WriteNeverBusy
PROPERTIES
  LinkSpec
CHECK_DEADLOCK FALSE
