\* Words of 32 and 64 bits, the real constants: the six digests, both engines.
SPECIFICATION Spec
CONSTANTS
  Jobs <- MCJobs
  K32 <- MCK32
  K64 <- MCK64
INVARIANTS
  TypeOK
  RingHoldsSchedule
  KnownAnswers
PROPERTIES
  RefinesSha2Rounds
CHECK_DEADLOCK FALSE
