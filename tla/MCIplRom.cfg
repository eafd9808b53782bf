SPECIFICATION Spec
CONSTANTS
  Addr <- MCAddr
  RomAddr <- MCRomAddr
  Byte <- MCByte
  ipl_rom <- MCRom
  Files <- MCFiles
  MaxFiles = 1
  StoresUnderRom = FALSE
INVARIANTS
  LoadsAgree
  RamUnderRomKept
PROPERTY ImplementsRomMemory
