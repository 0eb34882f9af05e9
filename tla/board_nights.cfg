SPECIFICATION FairSpec
CONSTANTS
  Tools = {t1}
  Operators = {o1}
  Edges = {e1}
  Attempts = 3
  MaxRuns = 2
  MaxSales = 2
  Faults = {"death", "unread", "unpublished"}
  t1 = t1
  o1 = o1
  e1 = e1
CHECK_DEADLOCK FALSE
INVARIANT NeverGranted
PROPERTIES WorldHonoursSales PublishedIsSeen NightIsWritten
