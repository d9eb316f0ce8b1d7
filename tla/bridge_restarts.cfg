SPECIFICATION Spec
CONSTANTS
  Apps = {a1}
  SerialMod = 3
  MaxEvents = 3
  MaxRestarts = 2
INVARIANTS
  TypeOK
  FreshFields
  NothingInvented
PROPERTY NeverBackward
