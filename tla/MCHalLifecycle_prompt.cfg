SPECIFICATION Spec
CONSTANTS
  h1 = h1
  h2 = h2
  NoHost = NoHost
  Hosts <- TwoHosts
  MaxOpens = 2
  MaxExpiries = 1
  PH_UWB_MAX_TIMER = 5
  MayFail <- AllFailures
  Prompt = TRUE
SYMMETRY HostSymmetry
INVARIANTS
  TypeOK
  NoUseAfterRelease
  ClosedReleasesAll
  EventOrder
CHECK_DEADLOCK FALSE
