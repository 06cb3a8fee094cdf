SPECIFICATION FairSpec
CONSTANTS
  IOBUFSZ = 9
PROPERTIES
  AnyPieces
CHECK_DEADLOCK FALSE
