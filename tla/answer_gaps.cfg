SPECIFICATION FairSpec
CONSTANTS
  Questions = {q1}
  Tools = {t1, t2}
  Seeded = {}
  Environments = {e1}
  K = 5
  TTL = 1
  Lifetime = 1
  MaxTime = 2
  MaxRows = 1
  None = None
  Faults = {"error", "lost_reply", "crash"}
  MaxTurns = 2
  MaxAttempts = 2
  Unmet_ = unmet
  Unknown = unknown
  t1 = t1
  t2 = t2
CHECK_DEADLOCK FALSE
INVARIANTS OneGapPerQuestion GapIsUnmetDemand LoggedMeansLogged DemandIsKept
PROPERTIES FreshListing Answered
