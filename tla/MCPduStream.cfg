SPECIFICATION FairSpec
CONSTANTS
  Base = 4
  MaxData = 4
  BufferSize = 4
  Payloads <- SomePayloads
  Space = 3
  EmptyRecvWaits = TRUE
  MayBreak = TRUE
  MaxSends = 3
INVARIANTS
  TypeOK
  ExitOnlyAfterCut
PROPERTIES
  ChannelSpec
CHECK_DEADLOCK FALSE
