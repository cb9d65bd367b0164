CONSTANTS
  MAX_THREADS = 5
  MAX_PROCESSES = 3
  Below = "foreign"
  PidCap = 0
  Calls = {"EXIT", "EXEC", "GETC", "SLEEP"}
  RingSize = 4
  MaxCycles = 1
  MaxChars = 2
  LOOP_LENGTH = 2
SPECIFICATION ProgramsSpec
PROPERTY ChildJoinsCreator
