SPECIFICATION Spec
CONSTANTS
  Solids = {s1, s2}
  Stripes = {t1}
  Eight = eight
  Cue = cue
  NoBall = NoBall
  Limit <- Timed
  Spend = {0, 2}
INVARIANTS
  TypeOK
  ClockCoversUse
  TableFitsTurn
PROPERTIES
  GroupsStay
  WinIsEarned
CHECK_DEADLOCK FALSE
