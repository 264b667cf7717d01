SPECIFICATION LiveSpec
CONSTANTS
  w1 = w1
  w2 = w2
  Writers = {w1}
  Threshold = 1
  MaxFiles = 1
  MaxBatches = 1
PROPERTIES
  CloseReturnsPromptly
CHECK_DEADLOCK FALSE
