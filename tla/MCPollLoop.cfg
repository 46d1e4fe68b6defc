SPECIFICATION Spec
CONSTANTS
  Sockets <- MCSockets
  POLL_SET_SIZE = 2
  AllocMayFail = TRUE
  StdinMayHangUp = TRUE
INVARIANTS
  TypeOK
  WatchesMembers
PROPERTIES
  OnlyStdinMasksSockets
  StarvedOnlyByLower
CHECK_DEADLOCK FALSE
