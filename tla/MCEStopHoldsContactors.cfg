SPECIFICATION Spec
CONSTANTS
  Reentrant = {r1}
  Default = default
  Executors = {"multi"}
  Level <- MixedLevels
  Velocity <- MCVelocity
INVARIANTS
  EStopHoldsContactors
