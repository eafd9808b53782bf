SPECIFICATION Spec
CONSTANTS
  Stores <- NoStores
  LoadTimers <- AllTimers
  Snapshots <- TimerSnapshots
INVARIANT TicksConserved
