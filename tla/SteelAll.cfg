SPECIFICATION Spec
CONSTANTS
  Client = {c1, c2}
  NoOne = NoOne
  MaxRetry = 2
  Modes = {"normal", "boot"}
  MaxCalls = 2
  MaxReports = 1
  MaxFailures = 1
INVARIANTS AnswerFromThisCall StoredAsSaid JogKeptIfReported
PROPERTY EveryCallReturns
CHECK_DEADLOCK FALSE
