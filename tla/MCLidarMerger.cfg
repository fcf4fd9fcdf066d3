SPECIFICATION Spec
CONSTANTS
  Projection <- MCProjection
  PowerDepth = 2
INVARIANTS
  ActiveIsEquipped
  HeaderMatchesData
  MergedAllThatProjected
PROPERTIES
  LastWordOnPower
CHECK_DEADLOCK FALSE
