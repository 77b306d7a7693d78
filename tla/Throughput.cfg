CONSTANTS
  start_byte_size = 16
  stop_byte_size = 256
  PerMicro = 2
  Delays = {0, 1, 2, 5}
  StepBy <- MCStepBy
SPECIFICATION Spec
INVARIANTS
  TableInOrder
  AssertDecrypted
PROPERTY Finishes
CHECK_DEADLOCK FALSE
