CONSTANTS
  Row = {1}
  Device = {d1, d2}
  Stamp <- MCStamp
  Content <- MCContent
  Skew <- MCSkew
  Edits <- MCEdits
  NoRow = NoRow
  MaxPull = 1
  MaxPush = 1
  MaxRows = 9
  ClampAhead = 2
  TombstoneAge = 10
  DeviceActive = 20
  ReseedBuffer = 9
  LateRows = {}
  Modern = {d1, d2}
  Gap = 99
  Repairs = FALSE
  Lossy = TRUE
  FirstHolds = FALSE
  Pruning = FALSE
  Busy = {1, 2}
  MaxTime = 2
  MaxTop = 99
  MaxOrphans = 0
  Listening = {d2}
  Roaming = {d2}
SPECIFICATION PushLiveSpec
CHECK_DEADLOCK FALSE
PROPERTIES OutboxDrains Converges
