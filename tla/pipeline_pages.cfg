SPECIFICATION Spec
CONSTANTS
  Available <- BothBackends
  Clients = {c1, c2}
  Pointers = {pencil}
  NoPointer = NoPointer
  MaxHandled = 2
  Tests = {t1, t2}
  TestMoves = 1
SYMMETRY PageSymmetry
INVARIANT PenRests
