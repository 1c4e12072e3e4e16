SPECIFICATION Spec
CONSTANTS
  Word = 4
  Block = 2
  Bytes <- MCBytes
  Zero = 0
  Capacity = 3
  Contents <- MCContents
  Offsets = {0, 1, 4, 5}
  Sizes = {0, 2, 3}
  Buffers <- MCBuffers
  RootReadable = TRUE
INVARIANT TruncateSize
