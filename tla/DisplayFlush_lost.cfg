SPECIFICATION Spec
CONSTANTS
  Depth = 2
  Buffers = {psram, row}
  DmaBuffers = {}
  Pixels = {p1, p2}
  Freed = Freed
  NoCopy = NoCopy
  MayRunOut = {psram, row}
  DrawBufs = {psram}
  RowBuf = row
  Rows = 2
  MaxParts = 2
  MaxChunks = 4
PROPERTY FlushCompletes
