SPECIFICATION Spec
CONSTANTS
  Reentrant = {r1}
  Default = default
  NoThread = no_thread
INVARIANTS
  CleanupAvoidsSegfault
CHECK_DEADLOCK FALSE
