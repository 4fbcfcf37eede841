SPECIFICATION Spec
CONSTANTS
  NumLog = 1
  NumPhys = 4
  NumBranches = 1
  DispatchWidth = 2
  IntWidth = 4
  WordWidth = 8
  Kinds = {"alu"}
  NumValues = 1
  KeepOneFree = FALSE
  PerfectBranchPred = FALSE
INVARIANT BundleHasRegisters
