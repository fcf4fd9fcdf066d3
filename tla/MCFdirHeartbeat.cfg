SPECIFICATION FairSpec
CONSTANTS
  lidar = lidar
  mux = mux
  Node <- MCNode
  Tier <- MCTier
  ResetMechanism <- MCResetMechanism
  StartupTime <- MCStartupTime
  PowerOffTime = 1
  Period = 2
  MAX_RECOVERY_RETRIES = 1
  Pass = {p1, p2}
  Order <- MCOrder
INVARIANTS
  LockoutFinal
  PulseBounded
PROPERTIES
  EmergencyPrevails
