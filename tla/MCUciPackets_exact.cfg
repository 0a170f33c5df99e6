SPECIFICATION Spec
CONSTANTS
  AppConfigs <- MCAppConfigs
  Devices <- MCDevices
  AntennaBlocks <- MCAntennaBlocks
  Refusals <- MCRefusals
  MaxPackets = 2
INVARIANTS
  AppConfigExact
  BlockedExactly
  CapsExact
  RefusalCounts
CHECK_DEADLOCK FALSE
