CONSTANTS
  MAX_THREADS = 5
  MAX_PROCESSES = 2
  Below = "thread_process_arr"
  PidCap = 3
SPECIFICATION Spec
PROPERTY OwnerStable
