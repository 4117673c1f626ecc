\* A region that ends inside a chunk.
SPECIFICATION Spec
CONSTANTS
  Byte <- Bits
  Zero = 0
  Xor <- BitXor
  BUF_SIZE = 2
  USIZE_MOD = 1024
  Files <- MCFiles
  Pads <- MCPads
  Calls <- MCCalls
INVARIANT
  OkTouchesOnlyRegion
CHECK_DEADLOCK FALSE
