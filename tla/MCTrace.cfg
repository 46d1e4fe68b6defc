SPECIFICATION Spec
CONSTANTS
  Frames <- MCFrames
  MaxPackets = 2
  AllocMayFail = TRUE
  NoFrame = NoFrame
INVARIANTS
  ReadsInsideFrame
  ChecksumsCoverTheirData
  FieldsAsSent
CHECK_DEADLOCK FALSE
