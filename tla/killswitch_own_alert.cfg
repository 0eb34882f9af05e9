SPECIFICATION FairSpec
CONSTANTS
  Runs = {i1}
  MaxAttempts = 3
  MaxHops = 1
  MaxPending = 1
  MaxCharges = 0
  MaxRestores = 1
  MaxDeaths = 0
PROPERTY FiredByFlood
