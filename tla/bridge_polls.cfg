SPECIFICATION FairSpec
CONSTANTS
  Apps = {a1}
  SerialMod = 3
  MaxEvents = 5
  MaxRestarts = 0
INVARIANT LatestAfterCleanRead
PROPERTY CatchesUp
