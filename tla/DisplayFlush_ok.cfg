SPECIFICATION Spec
CONSTANTS
  Depth = 2
  Buffers = {psram, dma, row}
  DmaBuffers = {dma}
  Pixels = {p1, p2}
  Freed = Freed
  NoCopy = NoCopy
  MayRunOut = {dma, row}
  DrawBufs = {psram, dma}
  RowBuf = row
  Rows = 2
  MaxParts = 2
  MaxChunks = 4
INVARIANT IInv RenderExclusive FlushFaithful
PROPERTY ImplementsFrameChannel HandlerReturns FlushCompletes
