SPECIFICATION Spec
CONSTANTS
  Depth = 2
  Buffers = {heap, stack}
  DmaBuffers = {stack}
  Pixels = {p1, p2}
  Freed = Freed
  NoCopy = NoCopy
  MayRunOut = {}
  HeapBuf = heap
  StackBuf = stack
  Rows = 2
  MaxChunks = 4
INVARIANT PointsFaithful
