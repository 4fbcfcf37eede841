SPECIFICATION Spec
CONSTANTS
  IQSize = 3
  NumParts = 3
  Lanes = 2
  Depth <- MCDepth
  FULanes <- MCFULanes
  Ops <- MCOps
  ActiveSize = 3
  Tags = {0, 1, 2, 3, 4, 5, 6, 7}
  Options <- MCOptions
VIEW StageView
INVARIANTS QueueExact OnePlaceEach WakeupExact ValueInTime
PROPERTY HeadCompletes
