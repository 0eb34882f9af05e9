SPECIFICATION FairSpec
CONSTANTS
  Calls = {k1}
  Owners = {alice, bob}
  Tools = {a, b, c}
  Packages <- TreePackages
  Seeded <- TreeSeeded
  Reviewed <- TreeReviewed
  MaxVersion = 2
  MaxReviews = 2
  MaxDepth = 2
  MaxUses = 2
  Faults = {"stale_read"}
  a = a
  b = b
  c = c
  alice = alice
  bob = bob
CHECK_DEADLOCK FALSE
INVARIANTS UnreviewedNeverRuns RunsBounded LogMatchesReply
PROPERTY Answered
