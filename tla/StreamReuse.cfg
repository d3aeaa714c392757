CONSTANTS
  call = call
  call2 = call2
  listen = listen
  notif = notif
  i1 = i1
  i2 = i2
  i3 = i3
  noid = noid
  Reqs = {call, call2}
  Ids = {i1}
  NoId = noid
  IdOf <- ReusedIdOf
  Listens = {}
  BadLines = {"overlong"}
  Socket = FALSE
  MaxBad = 1
  Cancellable = {i1}
  MaxCancels = 1
  Mixed = TRUE
  InCap = 2
  OutCap = 1
SPECIFICATION Spec
INVARIANTS
  CancelFindsRequest
CHECK_DEADLOCK FALSE
