SPECIFICATION FairSpec
CONSTANTS
  NumLog = 1
  NumPhys = 4
  NumBranches = 1
  DispatchWidth = 1
  IntWidth = 4
  WordWidth = 8
  Kinds = {"load", "store", "branch", "csr"}
  NumValues = 2
  KeepOneFree = TRUE
  PerfectBranchPred = FALSE
VIEW TurnedView
INVARIANTS EmptyPipelineConsistent
PROPERTIES ImplementsInOrder HeadLeaves
