CONSTANTS
  d1 = d1
  d2 = d2
  c1 = c1
  a1 = a1
  h1 = h1
  h2 = h2
  NoChip = NoChip
  NoOwner = NoOwner
  Device = {d1, d2}
  IfNum = {1}
  CharIf = {1}
  Client = {c1}
  AlsaClient = {a1}
  Chip = {h1, h2}
  NumSlots = 1
  Ops = {"open", "proc", "long_name", "set_channel"}
  NetlinkMutexInit = 1
  MaxLeak = 6
SPECIFICATION Spec
SYMMETRY Symmetry
VIEW LiveState
CONSTRAINT NotRobbed
INVARIANT RegistryInv
PROPERTY ImplementsLifetime
