SPECIFICATION FairSpec
CONSTANTS
  Velocity <- MCVelocity
  cmd_timeout = 1
  manual_timeout = 3
  max_speed_normal = 2
  max_speed_degraded = 1
INVARIANTS
  TypeOK
  LockoutRespected
  ThrowWindow
PROPERTIES
  ImplementsSource
  BoundedStaleness
  Watchdog
CHECK_DEADLOCK FALSE
