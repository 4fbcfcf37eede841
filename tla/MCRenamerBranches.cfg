SPECIFICATION Spec
CONSTANTS
  NumLog = 2
  NumPhys = 5
  NumBranches = 2
  DispatchWidth = 2
  IntWidth = 4
  WordWidth = 8
  Kinds = {"branch", "jump"}
  NumValues = 1
  KeepOneFree = TRUE
  PerfectBranchPred = FALSE
VIEW View
INVARIANTS TypeOK FreeListExact MapIsProgramOrder ReadyBitsExact CheckpointsExact BranchMasksExact BackendIsActiveList BundleHasCheckpoints BundleHasEntries
