SPECIFICATION Spec
CONSTANTS
  Image <- MCImage
  Starts <- MCStarts
  IoBytes = {0, 128}
  Shared <- MCShared
PROPERTIES ReturnsToCaller FlagsRestored WideIsSixteenBit DivIsDivision StoresInPage
CHECK_DEADLOCK FALSE
