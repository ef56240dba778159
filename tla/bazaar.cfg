CONSTANTS
  Apps <- MC_Apps
  WsApps <- MC_WsApps
  ImageApps <- MC_ImageApps
  Nobody = Nobody
SPECIFICATION Spec
INVARIANTS TypeOK ServerInsideApp ThreadsInsideApp HandlesHeld LoadedIsReady
PROPERTY ImageUnderNoApp
