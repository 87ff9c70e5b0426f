CONSTANTS
  InitSize = 4
  Roundings = {0, 3}
  Heaps <- MCHeaps
  Scalars <- MCScalars
  Selves <- MCSelves
  Depths <- MCDepths
SPECIFICATION ClientSpec
INVARIANTS TypeOK BufferHolds RecursionBounded RoundTrip NestingLimit CanonicalIsUnique AgreesWithPP
PROPERTY Finishes
