CONSTANTS
  StackSize = 2
  Arguments <- MCArguments
  Whole <- MCWhole
  Parts <- MCParts
  Offsets = {0, 1}
  Utf8Args = {TRUE, FALSE}
  Careful = TRUE
  MaxCalls = 3
SPECIFICATION Spec
INVARIANTS TypeOK FramesOpen ReadsInBounds NeverUndefined ContextIsFresh FinishedHasData NoDoubleFree
PROPERTIES LeaksOnlyWhenAbandoning Returns
