SPECIFICATION Spec
CONSTANTS
  Lines = {0, 1, 2}
  Sets <- One
  Assoc <- MCAssoc
  HitLatency <- One
  MissLatency = 2
  NumMHSR <- MCMHSRs
  NumPorts <- One
  PortLatency <- One
VIEW RelativeView
INVARIANTS MHSRsExact NextLevelAccepts
