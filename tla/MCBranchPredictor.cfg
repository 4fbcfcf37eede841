SPECIFICATION Spec
CONSTANTS
  CTIQ_SIZE = 4
  BP_TABLE_SIZE = 4
  BTB_SIZE = 1
  HIST_BIT = 2
  HistoryLow = 2
  PCSpan = 4
  Kind <- MCKind
  Target <- MCTarget
  Landings = {3, 4}
  MaxInFlight = 3
  MaxDepth = 2
INVARIANTS QueueExact HistoryExact LookupIsTopOfStack TrainsWhatPredicted VerifyAssertions
VIEW QueueView
