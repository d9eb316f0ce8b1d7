SPECIFICATION Spec
CONSTANTS
  Available <- Both
  Den <- Grain
  Word = 32
  Inputs <- EventsSent
  Displays <- Screens
INVARIANTS
  TypeOK
  OnScreen
  PressureMeansContact
  TargetUnderPen
PROPERTIES
  StrokesWhole
  TouchesHit
