SPECIFICATION Spec
CONSTANTS
  Calls = {k1}
  Owners = {alice, bob}
  Tools = {a, b}
  Packages <- PairPackages
  Seeded <- PairSeeded
  Reviewed <- PairReviewed
  MaxVersion = 2
  MaxReviews = 3
  MaxDepth = 3
  MaxUses = 2
  Faults = {"error", "crash"}
  a = a
  b = b
  c = c
  alice = alice
  bob = bob
CHECK_DEADLOCK FALSE
INVARIANTS TypeOK RevokedStops SuccessHasDependencies
