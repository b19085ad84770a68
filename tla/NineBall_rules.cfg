SPECIFICATION Spec
CONSTANT Nine = 4
INVARIANTS
  TypeOK
  FoulsCounted
  TableFitsTurn
PROPERTY TurnIsEarned
CHECK_DEADLOCK FALSE
