CONSTANTS
  d1 = d1
  c1 = c1
  h1 = h1
  h2 = h2
  NoChip = NoChip
  NoOwner = NoOwner
  Device = {d1}
  IfNum = {1}
  CharIf = {1}
  Client = {c1}
  AlsaClient = {}
  Chip = {h1, h2}
  NumSlots = 1
  Ops = {"open"}
  NetlinkMutexInit = 0
  MaxLeak = 0
SPECIFICATION FairSpec
PROPERTY DescriptorsClose
CHECK_DEADLOCK FALSE
