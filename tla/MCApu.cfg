SPECIFICATION FairSpec
CONSTANTS
  Stores <- AllStores
  LoadTimers <- OneTimer
  Snapshots <- OneSnapshots
INVARIANTS
  TypeOK
  TimerOnTime
  TicksConserved
PROPERTIES
  FiresOnPeriod
  TimersComeRound
