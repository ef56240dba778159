CONSTANTS
  StoreGap <- MC_StoreGap
  SleepGap <- MC_SleepGap
  MoverLag <- MC_MoverLag
  Modes = {"dma", "port"}
  MaxJobs = 3
SPECIFICATION Spec
INVARIANTS TypeOK HalvesOrdered CommandTaken PushLands OwnHash
