\* Two-bit bytes, blocks of four and three bytes, every cut of the message.
SPECIFICATION Spec
CONSTANTS
  BYTE_MOD = 4
  BITS = 2
  Inputs <- MCInputs
  Block256 = 4
  Rem256 = 2
  Word256 = 16
  Block512 = 3
  Rem512 = 2
  Word512 = 4
INVARIANTS
  TypeOK
  Consumed
  Answered
PROPERTIES
  ResultStays
  RefinesMessageDigest
CHECK_DEADLOCK FALSE
