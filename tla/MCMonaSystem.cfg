SPECIFICATION FairSpec
CONSTANTS
  safety = safety
  mux = mux
  Others = {}
  Velocity <- MCVelocity
  max_speed_normal = 1
  max_speed_degraded = 1
  QueueDepth = 2
PROPERTIES
  LockoutOvertakesPermission
  RunawayPrevented
  LockoutCutsPower
  PowerReturns
  BlockadeLifts
