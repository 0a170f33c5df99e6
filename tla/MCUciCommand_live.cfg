SPECIFICATION FairSpec
CONSTANTS
  Kinds = {"internal"}
  Replies = {"ok"}
  Timely = FALSE
  SpiMayFail = FALSE
  MaxCommands = 2
  MaxNtfs = 0
  MAX_COMMAND_RETRY_COUNT = 2
  MaxInvalidLength = 1
PROPERTIES
  CommandsReturn
CHECK_DEADLOCK FALSE
