SPECIFICATION Spec
CONSTANTS
  p1 = p1
  p2 = p2
  Procs = {p1, p2}
  Flows = {1, 2}
  Apps = {"cli", "web"}
  Static = {"cli"}
  Logins = {"ann", "eve"}
  Allowed = {"ann"}
  MaxSerial = 2
  MaxTrouble = 1
SYMMETRY Handlers
INVARIANTS
  TypeOK TokensTraceToLogin OneCredential DeliveredTokensWork OneIdentity
CHECK_DEADLOCK FALSE
