SPECIFICATION Spec
CONSTANTS
  NULL = NULL
  Procs = {kmain, idle, p1, p2}
  KernelMain = kmain
  Idle = idle
  MaxAttempts = 6
  PitHz = 100
  OrphanCalls = TRUE
INVARIANT OnOwnThread
