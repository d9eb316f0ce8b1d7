SPECIFICATION Spec
CONSTANTS
  Apps = {a1}
  SerialMod = 4
  MaxEvents = 3
  MaxRestarts = 0
INVARIANT LatestUnlessNew
