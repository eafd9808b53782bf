SPECIFICATION FairSpec
CONSTANTS
  Unit = 4
  Page = 4
  Memory = 64
  Esas = {0, 15}
  Edls = {0, 3, 18}
  MaxAge = 8
  MaxDelay = 4
INVARIANTS OffsetInRing DelayIsLength TapsSlide
PROPERTIES WritesInRing RingTurns
