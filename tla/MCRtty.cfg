SPECIFICATION Spec
CONSTANTS
  NUM_IDLE_BITS = 32
  TX_BUF_MAX_LENGTH = 2
  Buffers <- MCBuffers
INVARIANT RttyInv
PROPERTIES
  SendsFrames
  FrameEnds
