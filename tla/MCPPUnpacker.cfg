CONSTANTS
  Arguments <- MCArguments
  Pieces <- MCBytes
  Offsets = {0, 1}
  Limits = {0, 1}
  Utf8Args = {TRUE}
  Careful = FALSE
  MaxCalls = 4
SPECIFICATION Spec
INVARIANTS TypeOK ScannerFindsMessageEnd NothingLeftUnread
PROPERTY Returns
