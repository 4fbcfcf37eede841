SPECIFICATION Spec
CONSTANTS
  H = 4
  S <- MCSingle
  D <- MCDouble
  WideS <- MCWideSingle
  WideD <- MCWideDouble
  Operations <- AllButMulhsu
  SecondOperands <- MCSecondOperands
  DoubleOperands <- MCDoubleOperands
  Addends <- MCAddends
  Contained <- MCContained
  Readable <- MCReadable
  Writable <- MCWritable
INVARIANTS IntegerArithmetic FunctionalAgrees SoftFloatRounds
CHECK_DEADLOCK FALSE
