CONSTANTS
  n1 = n1
  n2 = n2
  v1 = v1
  s1 = s1
  NoDevice = NoDevice
  Device = {n1, n2, v1}
  NonVolatile = {n1, n2}
  Setter = {s1}
  NumChannels = 2
SPECIFICATION Spec
SYMMETRY Symmetry
VIEW LiveState
INVARIANTS OwnerAgrees OneChannelUnlessOverlapped StoredUnlessOverlapped
PROPERTY NeverBumped
