CONSTANTS
  Conns = {c1, c2}
SPECIFICATION FairSpec
PROPERTIES
  StopCompletes
CHECK_DEADLOCK FALSE
