CONSTANTS
  Arguments <- MCArguments
  Pieces <- MCCut
  Offsets = {0}
  Limits = {0}
  Utf8Args = {TRUE, FALSE}
  Careful = TRUE
  MaxCalls = 1
SPECIFICATION Spec
INVARIANT UnpackUsesOwnProperty
