SPECIFICATION FairSpec
CONSTANTS
  Reentrant = {r1, r2}
  Default = default
  Executors = {"single", "multi"}
  Level <- MCLevel
  Velocity <- MCVelocity
INVARIANTS
  OneThreadKeepsPromises
PROPERTIES
  PowerOnlyUnlatched
  StopConverges
