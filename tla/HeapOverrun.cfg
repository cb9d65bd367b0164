CONSTANTS
  MB_HEXA = 256
  PTRS_ARRAY_LENGTH = 3
  FirstSize = 8
  Sizes = {8, 16, 28}
  Warmup = 2
  IntMax = 3
  CounterWraps = FALSE
SPECIFICATION Spec
VIEW ReadView
INVARIANT StaysInHeap
