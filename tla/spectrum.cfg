SPECIFICATION Spec

CONSTANTS
  N = 8
  ByteSize = 16
  Inputs <- ManyInputs

CHECK_DEADLOCK FALSE

INVARIANTS
  RecordIsBandPower
  FftSeesBlock
