CONSTANTS
  Uris = {u1, u2}
  Mutators = {m1, m2}
  Listeners = {l1}
  Filter <- ListOnly
  Cap = 1
  WireCap = 1
  MaxVer = 2
  PageSize = 1
SPECIFICATION FairSpec
INVARIANTS
  TypeOK RegistryConsistent NoLeakedSubscription NoLostChange
PROPERTIES
  CatalogConverges MutatorsNeverStall
CHECK_DEADLOCK FALSE
