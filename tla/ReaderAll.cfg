CONSTANTS
  t1 = t1
  t2 = t2
  f1 = f1
  NoFile = NoFile
  Thread = {t1, t2}
  File = {f1}
  NumBuffers = 2
  MaxPackets = 4
SPECIFICATION FairSpec
INVARIANTS ItemsInUse WokenUnlessMissed TakeFindsData
PROPERTIES ImplementsReadQueue SignalledReadersReturn
CHECK_DEADLOCK FALSE
