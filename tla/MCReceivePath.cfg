CONSTANTS
  Preamble = 3
  Lengths <- MCLengths
  Gap = 2
  RecvCap = 12
  MaxFrames = 3
  W = 3
  T = 3
  PktCap = 3
SPECIFICATION FairSpec
INVARIANTS TypeOK PacketsIntact FifosSound
PROPERTY AllPacketsOut
