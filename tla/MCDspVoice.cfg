SPECIFICATION FairSpec
ACTION_CONSTRAINT SameScene
CONSTANTS
  Srcn <- MCSrcn
  Base <- MCBase
  Loop <- MCLoop
  Blocks <- MCBlocks
  Header <- MCHeader
  Pitches <- MCPitches
  Shapes <- MCShapes
  Files <- MCFiles
INVARIANTS TypeOK PrefillInStep OnBlock
PROPERTIES KeyOnHeard EndxMeansLoop ReleasedOnlyFades ReleaseEnds
