\* A store of two bytes between an input of up to three and an output of one.
SPECIFICATION Spec
CONSTANTS
  Byte <- MCBytes
  Xor <- BitXor
  Key <- MCKey
  Inputs <- MCInputs
  Capacity = 2
  OutSize = 1
  MaxBytes = 4
INVARIANTS
  TypeOK
  Conserved
  EndsInStep
PROPERTIES
  OverflowMeansFull
  RefinesByteStore
CHECK_DEADLOCK FALSE
