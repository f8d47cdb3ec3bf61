SPECIFICATION Spec
CONSTANTS
  f1 = f1
  f2 = f2
  f3 = f3
  NULL = NULL
  Garbage = Garbage
  Layout <- MCLayout
  Files = {f1, f2, f3}
  Names = {"a"}
  Made = {"device"}
  Paths <- MCPaths
  NewPaths <- MCNewPaths
  default_tty <- MCtty
  Disk <- MCDisk
  Procs = {"p", "q"}
  Boot = "p"
  CONFIG_MAX_FILE = 1
  STD_FILES = 1
  kMaxMounts = 1
  Modulus = 256
  MaxOffset = 1
CONSTRAINT Few
VIEW FaultView
CHECK_DEADLOCK FALSE
INVARIANTS TypeOK TreeOK LinksResolve EntriesAhead LoadedOnce
PROPERTIES PathStable
