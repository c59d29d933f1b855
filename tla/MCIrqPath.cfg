CONSTANTS
  Depth = 2
  Release = 3
  MaxBytes = 3
  MaxFrames = 2
  ToRecv <- MCToRecv
SPECIFICATION FairSpec
INVARIANTS TypeOK NoLossNoDup IrqCoversBytes
PROPERTY EverythingHandled
