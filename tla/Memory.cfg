CONSTANTS
  MAX_THREADS = 4
  MAX_PROCESSES = 3
  Below = "foreign"
  PidCap = 0
  L1_TABLE_SIZE = 60
  SpeculativeWalk = FALSE
SPECIFICATION MemorySpec
INVARIANTS
  TypeOK
  Accounting
  NoProcessLost
  Isolation
  FreeThreadsUnattached
  MemoryTypeOK
  OwnSections
  KernelShielded
PROPERTIES
  OwnerStable
  StartsFromCreator
