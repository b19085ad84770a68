SPECIFICATION Spec
CONSTANTS
  Object = {1, 2}
  MaxEvents = 6
  ManyBallEvents = 3
  Delay = {1}
  Near = 0
CONSTRAINT
  Followed
INVARIANTS
  TypeOK
  QueueIsCurrent
  NothingOverdue
  EndsAtRest
PROPERTIES
  ImplementsReport
  EndComesCloser
CHECK_DEADLOCK FALSE
