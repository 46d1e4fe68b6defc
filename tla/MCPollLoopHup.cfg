SPECIFICATION Spec
CONSTANTS
  Sockets <- MCSockets
  POLL_SET_SIZE = 2
  AllocMayFail = TRUE
  StdinMayHangUp = TRUE
PROPERTY ReturnsReadySocket
CHECK_DEADLOCK FALSE
