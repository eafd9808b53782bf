SPECIFICATION Spec
CONSTANTS
  Max = 7
  Hdr = 4
  Frame = 2
  Limit = 14
  ShortPwrites = TRUE
INVARIANTS HeaderInPlace
CHECK_DEADLOCK FALSE
