SPECIFICATION FairPipeline
CONSTANTS
  ChunkKeys = {1, 2, 4, 5, 7}
  MaxRows = 3
  Buffer = 2
  MaxFaults = 2
  MaxStops = 1
  MaxYields = 1
PROPERTIES
  CopiesChunk
  ReaderEnds
  ChunkCopied
CHECK_DEADLOCK FALSE
