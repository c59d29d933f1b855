CONSTANTS
  Index = {0, 1}
  Data = {0, 1, 2}
  Blank = 0
  Images <- MCImages
  Words = 4
  Space = 6
  MaxPackets = 2
  MaxSoft = 1
SPECIFICATION Spec
INVARIANT PacketsWellFormed
