CONSTANTS
  call = call
  call2 = call2
  listen = listen
  notif = notif
  i1 = i1
  i2 = i2
  i3 = i3
  noid = noid
  Reqs = {call, listen, notif}
  Ids = {i1, i2}
  NoId = noid
  IdOf <- UniqueIdOf
  Listens = {listen}
  BadLines = {"garbage"}
  Socket = TRUE
  MaxBad = 1
  Cancellable = {i1, i2}
  MaxCancels = 1
  Mixed = TRUE
  InCap = 1
  OutCap = 1
SPECIFICATION Spec
INVARIANTS
  TypeOK CancelFindsRequest NoStaleEntries ListenUndisturbed ServeWaits
PROPERTIES
  SeenInOrder
CHECK_DEADLOCK FALSE
