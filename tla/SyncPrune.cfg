CONSTANTS
  Row = {1, 2}
  Device = {d1, d2}
  Stamp <- MCStamp
  Content <- MCContent
  Skew <- MCSkew
  Edits <- MCEdits
  Mine = {}
  Theirs = {}
  NoRow = NoRow
  Wrong = {}
  Ahead = 0
  MaxPull = 1
  MaxPush = 1
  MaxRows = 9
  ClampAhead = 2
  TombstoneAge = 10
  DeviceActive = 20
  ReseedBuffer = 9
  LateRows = {}
  Modern = {d1, d2}
  Gap = 15
  Repairs = FALSE
  Lossy = TRUE
  FirstHolds = TRUE
  Pruning = TRUE
  Busy = {1, 18}
  MaxTime = 33
  MaxTop = 3
  MaxOrphans = 1
SYMMETRY DeviceSymmetry
SPECIFICATION SpecWithHistory
INVARIANTS TypeOK CursorTellsTruth
PROPERTIES NoEditDropped
CHECK_DEADLOCK FALSE
