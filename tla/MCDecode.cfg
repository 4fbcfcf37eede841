SPECIFICATION Spec
CONSTANTS
  InstWords <- AllWords
  OldFlags <- FlagsOfALoad
INVARIANTS DecodersAgree LegalNeverStops
CHECK_DEADLOCK FALSE
