CONSTANTS
  Settings <- MC_Settings
  First <- Free
  NoSignal <- Free
  Found <- MC_Found
  Probe = Probe
  Signals = {TRUE}
  Lingers = {}
  Posted <- MC_Posted
  MaxPosts = 2
  Probes = 2
  Ranges = 2
SPECIFICATION Spec
PROPERTY ShotsAskedFor
CHECK_DEADLOCK FALSE
