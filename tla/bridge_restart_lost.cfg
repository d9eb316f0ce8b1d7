SPECIFICATION Spec
CONSTANTS
  Apps = {a1}
  SerialMod = 4
  MaxEvents = 3
  MaxRestarts = 1
INVARIANT LatestAfterCleanRead
