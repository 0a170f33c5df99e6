SPECIFICATION Spec
CONSTANTS
  AppConfigs <- MCAppConfigs
  Devices <- MCDevices
  AntennaBlocks <- MCAntennaBlocks
  Refusals <- MCRefusals
  MaxPackets = 2
INVARIANT AoaFollowsAntennas
CHECK_DEADLOCK FALSE
