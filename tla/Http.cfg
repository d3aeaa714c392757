SPECIFICATION FairSpec
CONSTANTS
  Kinds <- const_Kinds
  MaxNotes = 2
  OutCap = 2
INVARIANT TypeOK
PROPERTIES
  RespondsInOrder
  CallAnswered
  ListenEnds
  KeepAliveEnds
  KeptAlive
