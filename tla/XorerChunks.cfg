\* Any pads, dumb runs, headers overwritten, and offsets past 32 bits.
SPECIFICATION Spec
CONSTANTS
  Byte <- AtomSets
  Zero <- NoAtoms
  Xor <- SymDiff
  BUF_SIZE = 3
  EXHEADER_SIZE = 2
  EXHEADER_HASHED = 1
  U32_MOD = 6
  MaxRuns = 3
  Misread <- StrayHeaders
  Images <- MixedImages
  Options <- MixedOptions
INVARIANTS
  OkMeansVerified
  UntornOkIsPlaintext
  RoomyRunDecrypts
  DumbXorsWholeFile
PROPERTIES
  InputUntouched
CONSTRAINT
  OwnLines
CHECK_DEADLOCK FALSE
