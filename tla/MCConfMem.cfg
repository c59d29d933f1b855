CONSTANTS
  Index = {0, 1}
  Data = {0, 1, 2}
  Blank = 0
  Images <- MCImages
  Words = 4
  Space = 6
  MaxPackets = 3
  MaxSoft = 0
SPECIFICATION FairSpec
INVARIANTS TypeOK AnswersMatch ConfigurationDone PacketsWellFormed
PROPERTY EveryRequestAnswered
