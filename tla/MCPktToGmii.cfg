CONSTANTS
  W = 4
  Cap = 2
  Payloads <- MCPayloads
  Burst = 8
  MaxPackets = 3
SPECIFICATION FairSpec
INVARIANTS TypeOK FramesOnWire FifoSound
PROPERTY EveryPacketLeaves
