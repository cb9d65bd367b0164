CONSTANTS
  MAX_THREADS = 4
  MAX_PROCESSES = 2
  Below = "foreign"
  PidCap = 0
  Calls = {"EXIT", "EXEC", "GETC", "SLEEP", "UNKNOWN"}
  RingSize = 2
  MaxCycles = 1
  MaxChars = 4
SPECIFICATION FairSpec
INVARIANTS
  TypeOK
  OnePlace
  NoLostWakeup
  CharsInOrder
PROPERTIES
  FirstComeFirstServed
  ImplementsProcessTable
  RunsAgain
