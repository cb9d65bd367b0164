CONSTANTS
  MAX_THREADS = 4
  MAX_PROCESSES = 2
  Below = "foreign"
  PidCap = 0
  Calls = {"EXIT", "EXEC", "GETC", "SLEEP"}
  RingSize = 4
  MaxCycles = 1
  MaxChars = 2
  LOOP_LENGTH = 2
SPECIFICATION ProgramsSpec
INVARIANTS
  ProgramsTypeOK
PROPERTIES
  CountedBeforeFreed
  LowestNeverFalls
  ProcessesEnd
