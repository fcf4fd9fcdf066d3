SPECIFICATION FairSpec
CONSTANTS
  Reentrant = {r1, r2}
  Default = default
  NoThread = no_thread
INVARIANTS
  ThrowCauses
PROPERTIES
  BlockedReportIsTrue
  BlockReachesOutput
CHECK_DEADLOCK FALSE
