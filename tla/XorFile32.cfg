\* A file larger than a usize can count.
SPECIFICATION Spec
CONSTANTS
  Byte <- Bits
  Zero = 0
  Xor <- BitXor
  BUF_SIZE = 2
  USIZE_MOD = 4
  Files <- OneFile
  Pads <- OnePad
  Calls <- WholeFile
INVARIANT
  OkMeansWholeRegion
CHECK_DEADLOCK FALSE
