CONSTANTS
  Arguments <- MCArguments
  Pieces <- MCItems
  Offsets = {0}
  Limits = {0}
  Utf8Args = {TRUE}
  Careful = TRUE
  MaxCalls = 4
SPECIFICATION Spec
PROPERTY ImplementsStream
