CONSTANTS
  BlockWords <- MC_BlockWords
  Rounds <- MC_Rounds
  Stretch <- MC_Stretch
  SyncLag <- MC_SyncLag
  Burst <- MC_Burst
  Depth <- MC_Depth
  Throttle <- MC_Throttle
  MsgLens = {16, 32, 64}
  Modes = {"dma", "port"}
  Stalls = {TRUE, FALSE}
  MaxJobs = 2
SPECIFICATION FairSpec
INVARIANTS TypeOK StreamIntact WholeBlocks NoOverflow
PROPERTIES ImplementsService SteadyDelivered
