SPECIFICATION Spec
CONSTANTS
  Requests <- const_Requests
  Retries <- const_Retries
  Tools <- const_Tools
  Resources <- const_Resources
  Versions <- const_Versions
  Def <- const_Def
  Offers <- const_Offers
  Initially <- const_Initially
  TTL = 1
  Supported = {"v2026"}
  MaxNow = 4
  MaxChanges = 1
  MaxKey = 2
INVARIANTS
  TypeOK RunsOnlyAgreed ConformingAccepted AnswersCurrent NeverLost FreshStateAccepted
PROPERTY StateBound
