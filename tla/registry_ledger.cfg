SPECIFICATION FairSpec
CONSTANTS
  Requests = {r1, r2, r3}
  Callers = {c1, c2}
  Suspended = {c2}
  Tools = {t1, t2}
  Cost = 1
  InitialCredits = 2
  Base = 10
  Width = 4
  MaxAttempts = 2
  Faults = {"stale_read", "error", "crash"}
CHECK_DEADLOCK FALSE
INVARIANT NothingFree
PROPERTIES ExchangesFeeForRow BrieflyOutOfPocket
