SPECIFICATION FairSpec
CONSTANTS
  FWD_MAX_RETRY_COUNT = 1
  MaxConfigs = 1
  MaxFaults = 2
  Mishaps <- AllMishaps
INVARIANTS
  TypeOK
  InitIsReal
  NominalSucceeds
  NoDeadPosts
PROPERTIES
  BindingRequested
  InitReturns
  CrashTold
CHECK_DEADLOCK FALSE
