SPECIFICATION Spec
CONSTANTS
  Queries = {q1, q2, q3}
  Near <- ChainOfQueries
  Callers = {c1, c2, me, sim}
  Owner <- OwnerOf
  Simulated = {sim}
  Creator = other2
  Claimant = mine
  MinCallers = 2
  MinSpread = 1
  MinAdopters = 2
  MaxPhrasings = 2
  MaxGaps = 4
  MaxDay = 1
  None = None
  q1 = q1
  q2 = q2
  q3 = q3
  c1 = c1
  c2 = c2
  me = me
  sim = sim
  other1 = other1
  other2 = other2
  mine = mine
  lab = lab
CHECK_DEADLOCK FALSE
INVARIANTS NeedsAreChains AwardStands
PROPERTIES ConfirmedForGood SimulationMovesNothing
