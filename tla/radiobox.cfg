CONSTANTS
  Routes <- MC_Routes
  PresetRoute <- MC_PresetRoute
  Qrgs <- MC_Qrgs
  MaxPosts = 3
SPECIFICATION Spec
CHECK_DEADLOCK FALSE
INVARIANTS TypeOK NothingLost CalibOnce RegistersFollow
PROPERTIES ReplyOneBehind SetReturns
