SPECIFICATION Spec
CONSTANTS
  MAX_THREADS = 3
  STACK_SIZE = 3
  FrameWords = 2
INVARIANT PushedStays
