SPECIFICATION Spec
CONSTANTS
  Solids = {s1}
  Stripes = {t1}
  Eight = eight
  Cue = cue
  NoBall = NoBall
  Limit <- Odd
  Spend = {2}
INVARIANTS
  NoOvertime
CHECK_DEADLOCK FALSE
