CONSTANTS
  t1 = t1
  t2 = t2
  l1 = l1
  l2 = l2
  NoOwner = NoOwner
  Requester = {t1, t2}
  Locker = {l1, l2}
  Events = {"timeout", "error", "suspend"}
SPECIFICATION FairSpec
INVARIANTS LockDrains OneRequestUntilGivenUp SuccessUntilUpset
PROPERTY LockReturns
