CONSTANTS
  Conns = {c1, c2, c3}
SPECIFICATION FairSpec
INVARIANTS
  TypeOK OneLiveConnection StopLeavesNothing
PROPERTIES
  ReplacedConnectionEnds StopCompletesUnraced
CHECK_DEADLOCK FALSE
