SPECIFICATION Spec
CONSTANTS
  Frame <- MCFrame
  ContentLength <- MCContentLength
  MSG_HEAD = 2
  MSG_MAXIMUM = 6
INVARIANTS
  InStep
PROPERTIES
  LossyFifo
  FrameResolved
CHECK_DEADLOCK FALSE
