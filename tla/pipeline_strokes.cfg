SPECIFICATION FairSpec
CONSTANTS
  Available <- BothBackends
  Clients = {c1}
  Pointers = {pencil, palm}
  NoPointer = NoPointer
  MaxHandled = 4
  Tests = {t1}
  TestMoves = 1
INVARIANTS
  TypeOK
  OneStrokeAtATime
  StrokeKnown
PROPERTY PenLifts
