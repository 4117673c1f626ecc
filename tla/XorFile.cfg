\* Every file, pad and call of a small instance; a 64-bit usize.
SPECIFICATION Spec
CONSTANTS
  Byte <- Bits
  Zero = 0
  Xor <- BitXor
  BUF_SIZE = 2
  USIZE_MOD = 1024
  Files <- MCFiles
  Pads <- MCPads
  Calls <- MCCalls
INVARIANTS
  TypeOK
  FileIsRegionAfter
  OkXorsRegion
  NoShortRead
  LoopInv
PROPERTIES
  ForwardOnly
  RefinesXorCall
  Returns
CHECK_DEADLOCK FALSE
