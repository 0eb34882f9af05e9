SPECIFICATION StandingSpec
CONSTANTS
  Tools = {t1, t2, t3}
  ToolOwner <- OwnersOfTools
  Uses <- BuiltOn
  Callers = {c1, c2, sim, bob}
  Owner <- OwnersOfCallers
  Simulated = {sim}
  Builders = {bob}
  Shortlists <- Lists
  TopN = 2
  MinCoRetrieval = 2
  Window = 0
  Fading <- Faded
  MaxTime = 1
  MaxCalls = 3
  MaxEvents = 6
  None = None
  t1 = t1
  t2 = t2
  t3 = t3
  c1 = c1
  c2 = c2
  sim = sim
  bob = bob
  other1 = other1
  other2 = other2
  mine = mine
  lab = lab
CHECK_DEADLOCK FALSE
INVARIANTS RivalsWereSeenByMany FallsBehindSomebody
PROPERTY InventedUseCountsForNothing
