CONSTANTS
  Arguments <- MCArguments
  Pieces <- MCCut
  Offsets = {0}
  Limits = {0}
  Utf8Args = {FALSE}
  Careful = TRUE
  MaxCalls = 3
SPECIFICATION Spec
INVARIANT FinishedHasMessage
