CONSTANTS
  StackSize = 2
  Arguments <- MCArguments
  Whole <- MCEmptyKey
  Parts = {}
  Offsets = {0}
  Utf8Args = {}
  Careful = FALSE
  MaxCalls = 3
SPECIFICATION Spec
INVARIANT FinishedValueIsDecoded
CHECK_DEADLOCK FALSE
