SPECIFICATION FairSpec
CONSTANTS
  cam = cam
  mux = mux
  Node <- MCNode
  Tier <- MCTier
  ResetMechanism <- MCResetMechanism
  StartupTime <- MCStartupTime
  PowerOffTime = 1
  MAX_RECOVERY_RETRIES = 2
INVARIANTS
  TimingTypeOK
  LockoutIffExhausted
  RelayFollowsCycle
  LockoutTakesAllCycles
  SupervisesItsPolicy
  CycledHasRelay
PROPERTIES
  ImplementsSupervisor
  DischargeHeld
  DeadNodeLockedOut
