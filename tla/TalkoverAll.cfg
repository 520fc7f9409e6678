SPECIFICATION TalkSpec
CONSTANTS
  Client = {c1, c2}
  Asks = {0, 1, 10, 20, 32, 40}
  PowerOn = {0, 1, 12}
  MaxCalls = 4
INVARIANTS OffAndOnRestores TalkoverTrue
CHECK_DEADLOCK FALSE
