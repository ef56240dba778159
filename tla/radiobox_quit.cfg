CONSTANTS
  Routes <- MC_Routes
  PresetRoute <- MC_PresetRoute
  Qrgs <- MC_Qrgs
  MaxPosts = 1
SPECIFICATION Spec
CHECK_DEADLOCK FALSE
PROPERTY QuitHonoured
