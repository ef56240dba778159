CONSTANTS
  BlockWords <- MC_BlockWords
  Rounds <- MC_Rounds
  Stretch <- MC_Stretch
  SyncLag <- MC_SyncLag
  Burst <- MC_Burst
  Depth <- MC_Depth
  Throttle <- MC_Throttle
  MsgLens = {32}
  Modes = {"port"}
  Stalls = {TRUE}
  MaxJobs = 1
SPECIFICATION FairSpec
PROPERTY PortDigest
