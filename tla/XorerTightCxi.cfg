\* The README's example on a CXI whose sections follow one another.
SPECIFICATION Spec
CONSTANTS
  Byte <- AtomSets
  Zero <- NoAtoms
  Xor <- SymDiff
  BUF_SIZE = 3
  EXHEADER_SIZE = 2
  EXHEADER_HASHED = 1
  U32_MOD = 1024
  MaxRuns = 1
  Misread <- StrayHeaders
  Images <- TightCxi
  Options <- CleanLine
INVARIANT
  CleanRunDecrypts
CHECK_DEADLOCK FALSE
