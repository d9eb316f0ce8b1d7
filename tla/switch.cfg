SPECIFICATION FairSpec
CONSTANTS
  Pages = {p1, p2}
  Requests <- Three
  List <- BothInOrder
  None = None
INVARIANTS
  TypeOK
  ShowsUsable
  Truthful
  AnswersOwnSwitch
PROPERTY ButtonComesBack
