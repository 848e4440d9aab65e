SPECIFICATION Spec

CONSTANTS
  N = 8
  ByteSize = 16
  Inputs <- TwoBlocks

CHECK_DEADLOCK FALSE

INVARIANTS
  AveragesPowerLevels
