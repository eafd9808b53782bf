SPECIFICATION Spec
CONSTANTS
  Stores <- AllStores
  LoadTimers <- OneTimer
  Snapshots <- OneSnapshots
INVARIANT TimersFollowStores
