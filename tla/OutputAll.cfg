SPECIFICATION Spec
CONSTANTS
  Bytes = {1, 145, 240, 247}
  Channels = {3, 5}
  NonVolatile = TRUE
  Room = 1
  MaxTransfer = 4
  MaxUpsets = 2
VIEW LiveState
CHECK_DEADLOCK FALSE
INVARIANTS SameMessage OnDeviceChannel UrbUntouchedInFlight NothingLeftBehind
PROPERTIES AsWritten LostForAReason
