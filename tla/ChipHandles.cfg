CONSTANTS
  d1 = d1
  c1 = c1
  c2 = c2
  a1 = a1
  h1 = h1
  h2 = h2
  NoChip = NoChip
  NoOwner = NoOwner
  Device = {d1}
  IfNum = {1, 2}
  CharIf = {1}
  Client = {c1, c2}
  AlsaClient = {a1}
  Chip = {h1, h2}
  NumSlots = 1
  Ops = {"open", "proc", "vendor", "pm", "register"}
  NetlinkMutexInit = 1
  MaxLeak = 0
SPECIFICATION Spec
SYMMETRY Symmetry
VIEW LiveState
CONSTRAINT NotRobbed
INVARIANTS ChipInUseIsLive RegistrationHasFile RefCountBalanced DisconnectedChipReleased
