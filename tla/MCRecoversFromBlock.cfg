SPECIFICATION Spec
CONSTANTS
  Velocity <- MCVelocity
  cmd_timeout = 1
  manual_timeout = 3
  max_speed_normal = 2
  max_speed_degraded = 1
INVARIANTS
  RecoversFromBlock
CHECK_DEADLOCK FALSE
