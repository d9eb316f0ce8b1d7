SPECIFICATION Spec
CONSTANTS
  Procs = {p1, p2, p3}
  NoProc = NoProc
  Available <- BothBackends
  Events <- AllEvents
  Requests <- AllRequests
SYMMETRY ProcSymmetry
INVARIANTS
  TypeOK
  InjectsIntoActive
  InkAgrees
PROPERTY AppliesAtomically
