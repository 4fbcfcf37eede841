SPECIFICATION Spec
CONSTANTS
  H = 4
  S <- MCSingle
  D <- MCDouble
  WideS <- MCWideSingle
  WideD <- MCWideDouble
  Operations <- OnlyMulhsu
  SecondOperands <- MCSecondOperands
  DoubleOperands <- MCDoubleOperands
  Addends <- MCAddends
  Contained <- MCContained
  Readable <- MCReadable
  Writable <- MCWritable
INVARIANT FunctionalAgrees
CHECK_DEADLOCK FALSE
