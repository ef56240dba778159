CONSTANTS
  Settings <- MC_Settings
  First <- Free
  NoSignal <- Free
  Found <- MC_Found
  Probe = Probe
  Signals = {TRUE, FALSE}
  Lingers <- Steps
  Posted <- MC_Posted
  MaxPosts = 2
  Probes = 2
  Ranges = 2
SPECIFICATION FairSpec
INVARIANTS TypeOK ParamsAgree AcquiredAsProgrammed
PROPERTIES ParamsTaken AutoSetEnds
CHECK_DEADLOCK FALSE
