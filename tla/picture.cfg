SPECIFICATION FairSpec
CONSTANTS
  Ids <- Three
  None = None
  MaxStarts = 2
  Slots <- Two
  MaxChanges = 1
INVARIANTS
  TypeOK
  ObjectsReturned
  OnePicture
  OneLoopPerStart
  StopStops
PROPERTIES
  PicturesMoveForward
  KeepsRefreshing
  PictureCatchesUp
  StopEnds
