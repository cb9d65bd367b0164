CONSTANTS
  MAX_THREADS = 4
  MAX_PROCESSES = 2
  Below = "foreign"
  PidCap = 0
  Calls = {"EXIT", "EXEC", "SLEEP"}
  RingSize = 1
  MaxCycles = 1
  MaxChars = 0
SPECIFICATION SleepersSpec
PROPERTY SleepsInFull
