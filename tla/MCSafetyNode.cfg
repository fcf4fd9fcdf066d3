SPECIFICATION Spec
CONSTANTS
  Velocity <- MCVelocity
  max_speed_normal = 2
  max_speed_degraded = 1
INVARIANTS
  TypeOK
  EStopInterlock
  StoppedMeansZero
  BeliefCoversContactors
  InactiveMeansOpen
PROPERTIES
  PowerUpAuthorised
  ImplementsInterlock
CHECK_DEADLOCK FALSE
