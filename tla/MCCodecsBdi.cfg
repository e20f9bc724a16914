CONSTANTS
  Byte = 4
  PageSet <- MCPages
  PageBytes = 8
  Word = 4
  LineWords = 2
  BlockBytes = 4  SparseMax = 1  RangeBits = 1
  Hash32 = 2  Dict32 = 2  Hash64 = 2  Dict64 = 4
  BdiHeader = 0  WkdmHeader = 1  BlockHeader = 1
  SameBytes = 2
  Near = 1
  Few = 1
  BufferBytes = 16
SPECIFICATION Spec
CHECK_DEADLOCK FALSE
INVARIANT KernelLossless
