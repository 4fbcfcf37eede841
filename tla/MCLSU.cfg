SPECIFICATION Spec
CONSTANTS
  LQSize = 2
  SQSize = 2
  WindowSize = 3
  Sizes = {1, 2}
  AddrSpace = 3
  MaskSpace = 4
  MemSize = 2
  NumBytes = 2
  Misaligned = FALSE
  SpecDisambig = TRUE
  OracleDisambig = TRUE
  PerfectDcache = FALSE
VIEW View
INVARIANTS RingsExact LoadsAreSequential RetiringLoadIsRight
