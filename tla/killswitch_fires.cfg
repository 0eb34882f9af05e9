SPECIFICATION FairSpec
CONSTANTS
  Runs = {i1, i2}
  MaxAttempts = 3
  MaxHops = 1
  MaxPending = 1
  MaxCharges = 1
  MaxRestores = 1
  MaxDeaths = 2
PROPERTIES FloodShutsEndpoint OperatorIsTold
