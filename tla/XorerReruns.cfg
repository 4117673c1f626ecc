\* The right pads, and everything that can go wrong.
SPECIFICATION Spec
CONSTANTS
  Byte <- AtomSets
  Zero <- NoAtoms
  Xor <- SymDiff
  BUF_SIZE = 3
  EXHEADER_SIZE = 2
  EXHEADER_HASHED = 1
  U32_MOD = 1024
  MaxRuns = 3
  Misread <- StrayHeaders
  Images <- RerunImages
  Options <- RerunOptions
INVARIANTS
  TypeOK
  OkMeansVerified
  UntornOkIsPlaintext
  OkOnlyFromCiphertext
  CipherOrPlain
PROPERTIES
  InputUntouched
  OnlyOwnPartition
  Ends
CHECK_DEADLOCK FALSE
