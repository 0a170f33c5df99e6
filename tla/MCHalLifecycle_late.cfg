SPECIFICATION Spec
CONSTANTS
  h1 = h1
  h2 = h2
  NoHost = NoHost
  Hosts <- TwoHosts
  MaxOpens = 2
  MaxExpiries = 0
  PH_UWB_MAX_TIMER = 5
  MayFail = {}
  Prompt = FALSE
INVARIANTS
  NoUseAfterRelease
CHECK_DEADLOCK FALSE
