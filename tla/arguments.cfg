SPECIFICATION Spec

CONSTANTS
  CommandLines <- ShortLines
  Numbers <- SomeNumbers
  WordSize = 16

CHECK_DEADLOCK FALSE

INVARIANTS
  AsGiven
  PipelineGetsTagAndBandwidth

PROPERTIES
  Terminates
