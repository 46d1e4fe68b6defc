SPECIFICATION Spec
CONSTANTS
  Sockets <- MCSockets
  Handles = {h1, h2, h3}
  NoHandle = NoHandle
  InitialSize = 2
  AllocMayFail = TRUE
  MaxAdds = 5
INVARIANTS
  TypeOK
  HandlesUnique
  CountCoversTable
PROPERTIES
  DirectorySpec
  OverrunNeedsLargeSocket
CHECK_DEADLOCK FALSE
