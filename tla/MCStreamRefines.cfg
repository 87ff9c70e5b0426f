CONSTANTS
  StackSize = 2
  Arguments <- MCArguments
  Whole <- MCMessages
  Parts <- MCBytewise
  Offsets = {0}
  Utf8Args = {TRUE}
  Careful = TRUE
  MaxCalls = 4
SPECIFICATION Spec
PROPERTY ImplementsStream
