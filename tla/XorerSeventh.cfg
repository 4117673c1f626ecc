\* A 7.x title with both ExeFS pads, and room between its sections.
SPECIFICATION Spec
CONSTANTS
  Byte <- AtomSets
  Zero <- NoAtoms
  Xor <- SymDiff
  BUF_SIZE = 3
  EXHEADER_SIZE = 2
  EXHEADER_HASHED = 1
  U32_MOD = 1024
  MaxRuns = 1
  Misread <- StrayHeaders
  Images <- RoomySevenX
  Options <- CleanLine
INVARIANT
  CleanRunDecrypts
CHECK_DEADLOCK FALSE
