SPECIFICATION Spec
CONSTANTS
  FetchWidth = 2
  DispatchWidth = 2
  FQSize = 5
  ActiveSize = 2
  PaySize = 24
  DebugSize = 12
  Programs <- All
  Target <- MCTarget
  Landings = {1, 2}
  Handler = 0
  LineSize = 2
INVARIANTS PayExact InFlightIsPath CheckerAgrees StallFlagsExact
VIEW RingView
PROPERTY RetiresForever
