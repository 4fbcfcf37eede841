SPECIFICATION Spec
CONSTANTS
  Width = 10
  Handler = 2
  Interleave = 3
  MaxPending = 2
  Result <- MCResult
  Programs <- MCPrograms
  RetireWidth = 2
  DebugSize = 4
  MaxIdle = 1
INVARIANT RetirementAgrees
PROPERTY ImplementsFunctional ExitStops
