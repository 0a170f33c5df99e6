SPECIFICATION Spec
CONSTANTS
  Kinds <- AllKinds
  Replies <- AllReplies
  Timely = TRUE
  SpiMayFail = TRUE
  MaxCommands = 3
  MaxNtfs = 1
  MAX_COMMAND_RETRY_COUNT = 3
  MaxInvalidLength = 2
INVARIANTS
  BoundedTransmissions
  SuccessIsAnswered
  FailureIsReal
  
  NoDeadPosts
PROPERTIES
  CommandService
CHECK_DEADLOCK FALSE
