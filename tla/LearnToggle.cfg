SPECIFICATION Spec
CONSTANTS
  Workers = {w1, w2}
  Handler = h
  None = none
  Torn = torn
  MaxEvents = 2
INVARIANTS UnsavedLasts
CHECK_DEADLOCK FALSE
