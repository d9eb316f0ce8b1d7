SPECIFICATION FairSpec
CONSTANTS
  Procs = {p1, p2, p3}
  NoProc = NoProc
  Available <- BothBackends
  Events <- UpOnly
  Requests <- TabOnly
PROPERTY CallsReturn
