SPECIFICATION SignalSpec
ACTION_CONSTRAINT Schedule
CONSTANTS
  gauss <- gauss_table
  Srcn <- MCSrcn
  Base <- MCBase
  Loop <- MCLoop
  Blocks <- MCBlocks
  Pitches = {5000, 16000}
  Shapes <- MCShapes
  Files <- MCFiles
  Unit = 4
  Page = 4
  Memory = 64
  Esas = {0, 15}
  Edls = {1, 2}
  MaxAge = 12
  MaxDelay = 4
  Ram <- MCRam
  Mixes <- MCMixes
  Images <- MCImages
  Others <- MCOthers
  Garbage = {51966}
  MaxStores = 2
  MaxOthers = 1
INVARIANTS EchoDiesOut PlaysAtPitch InterpolationFits
