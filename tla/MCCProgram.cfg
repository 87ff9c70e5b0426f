CONSTANTS
  Platforms <- MCPlatforms
  Early <- MCEarly
  Values <- MCValues
  Reals <- MCReals
  Bodies <- MCBodies
  Lengths = {0, 1, 15, 16, 31, 32, 255, 256, 65535, 65536}
  Sizes = {1, 3, 8}
  MaxCalls = 3
  SizeBits = 5
  SBufferInit = 2
  RefSizes = {0, 9, 10}
  ZInit = 1
  ZReserve = 1
  ZPending = 2
  Align = 4
  ChunkHeader = 4
  ChunkSize = 8
  FirstFinalizers = 2
SPECIFICATION CSpec
CHECK_DEADLOCK FALSE
INVARIANTS OneSystem OrderIsTheMachines WireValue ShortestForm RealOnWire Contents NoDanglingRef ZStream ZoneBlocks
