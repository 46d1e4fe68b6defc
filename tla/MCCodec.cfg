SPECIFICATION Spec
CONSTANTS
  MAXBUF = 1400
  MaxData = 1398
  MAXHANDLE = 100
  MaxText = 200
  DestBuffer = 500
  Requests <- MCRequests
INVARIANTS
  TypeOK
  StaysInside
  ShownAsTyped
  EndTravels
  PiecesMakeTheRest
CHECK_DEADLOCK FALSE
