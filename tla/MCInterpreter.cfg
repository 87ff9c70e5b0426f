CONSTANTS
  Interps = {main, t1, t2}
  Main = main
  NULL = NULL
SYMMETRY Threads
SPECIFICATION InterpSpec
CHECK_DEADLOCK FALSE
INVARIANTS PreferIntegerIsThreadLocal OwnBooleans
