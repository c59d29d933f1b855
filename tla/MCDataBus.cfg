CONSTANTS
  RAM = RAM
  UART = UART
  LCD = LCD
  CAN = CAN
  HOLE = HOLE
  NONE = NONE
  Mem <- RAM
  FastPeri <- MCFast
  CanPeri <- MCCan
  Unmapped <- HOLE
  NoAccess <- NONE
  Program <- MCProgram
  Spaced = TRUE
SPECIFICATION FairSpec
INVARIANTS TypeOK CountMatchesInFlight CommandsLand GrantMatchesRequest
PROPERTIES ImplementsObi EveryAccessGranted
