SPECIFICATION PlayerFairSpec
CONSTANTS
  Max = 7
  Hdr = 4
  Frame = 2
  Limit = 14
  ShortPwrites = FALSE
  Files = 3
  Parts = 3
  Period = 2
INVARIANTS OnlyOsErrorsFail OneImage SamplesPaceClock
PROPERTIES ImplementsOutWav PlayerEnds
CHECK_DEADLOCK FALSE
