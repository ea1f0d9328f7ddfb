CONSTANTS
  Device = {s, r}
  Sender = {s}
  Receiver = {r}
  MaxChunks = 2
  MaxPerIp = 1
  Lossy = TRUE
  Failing = TRUE
  Hasty = FALSE
  LateClose = FALSE
  MaxSockets = 3
  MaxCodes = 2
SPECIFICATION LiveSpec
INVARIANTS QuotaExact Paced ScreenTells
PROPERTIES KeepsPromise Settles
CHECK_DEADLOCK FALSE
