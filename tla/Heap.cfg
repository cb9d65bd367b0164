CONSTANTS
  MB_HEXA = 320
  PTRS_ARRAY_LENGTH = 4
  FirstSize = 8
  Sizes = {14, 28}
  Warmup = 2
  IntMax = 3
  CounterWraps = FALSE
SPECIFICATION Spec
VIEW ReadView
INVARIANTS
  HeapTypeOK
  Tiled
  ReservedIsHeld
  FreeListComplete
  Coalesced
  TopStaysFree
PROPERTIES
  ImplementsAllocator
