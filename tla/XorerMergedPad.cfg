\* A 7.x title and a merged ExeFS pad.
SPECIFICATION Spec
CONSTANTS
  Byte <- AtomSets
  Zero <- NoAtoms
  Xor <- SymDiff
  BUF_SIZE = 3
  EXHEADER_SIZE = 2
  EXHEADER_HASHED = 1
  U32_MOD = 1024
  MaxRuns = 1
  Misread <- StrayHeaders
  Images <- SevenX
  Options <- MergedLine
INVARIANT
  MergedPadAccepted
CHECK_DEADLOCK FALSE
