SPECIFICATION Spec
CONSTANTS
  Disks <- MCDisks
  Codes <- MCCodes
  ValidCodes <- MCUpper
  UpperCodes <- MCUpper
  Powers <- MCPowers
  PowerRange = 4
  MaxOpens = 2
INVARIANTS
  TypeOK
  UwbOnlyForValidCountry
  CapsWithinRestrictions
  DdfsHasTone
  ChipMatchesFiles
PROPERTY PolicySpec
CHECK_DEADLOCK FALSE
