\* Ten blocks of memory: buffers of up to nine blocks leave every remainder
\* after zero, one and two quads, at every distance between in and out.
CONSTANTS
  Value <- MCValue
  MemSize = 10
  Memories <- MCMemories
  Cipher <- MCCipher
  XorV <- MCXorV
  MaxCalls = 1
SPECIFICATION BulkSpec
INVARIANTS
  EachBlockOnce
  OnlyOutput
\* After MaxCalls calls the model stops.
CHECK_DEADLOCK FALSE
