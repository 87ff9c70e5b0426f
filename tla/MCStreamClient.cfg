CONSTANTS
  StackSize = 2
  Arguments <- MCArguments
  Utf8Args = {FALSE}
  Careful = TRUE
  MaxCalls = 20
  Streams <- MCStreams
  MaxRead = 3
SPECIFICATION ClientSpec
CHECK_DEADLOCK FALSE
INVARIANTS EachOnceInOrder NoByteLost
PROPERTY AllDelivered
