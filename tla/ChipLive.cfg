CONSTANTS
  d1 = d1
  c1 = c1
  h1 = h1
  h2 = h2
  NoChip = NoChip
  NoOwner = NoOwner
  Device = {d1}
  IfNum = {1, 2}
  CharIf = {1}
  Client = {c1}
  AlsaClient = {}
  Chip = {h1, h2}
  NumSlots = 2
  Ops = {"open", "proc"}
  NetlinkMutexInit = 1
  MaxLeak = 0
VIEW LiveState
SPECIFICATION FairSpec
INVARIANT OneChipPerDevice
PROPERTY EveryCallReturns
