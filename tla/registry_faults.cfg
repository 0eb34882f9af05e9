SPECIFICATION Spec
CONSTANTS
  Requests = {r1, r2, r3, r4}
  Callers = {c1}
  Suspended = {}
  Tools = {t1}
  Cost = 1
  InitialCredits = 2
  Base = 3
  Width = 1
  MaxAttempts = 2
  Faults = {"stale_read", "error", "lost_reply", "crash"}
CHECK_DEADLOCK FALSE
SYMMETRY Symmetry
INVARIANTS TypeOK NeverOverdrawn TableSound NumbersRunOut
