CONSTANTS
  Row = {1, 2, 3}
  Device = {d1, d2}
  Stamp <- MCStamp
  Content <- MCContent
  Skew <- MCSkew
  Edits <- MCEdits
  Mine = {2}
  Theirs = {3}
  NoRow = NoRow
  Wrong = {d1}
  Ahead = 2
  MaxPull = 1
  MaxPush = 2
  MaxRows = 2
  ClampAhead = 2
  TombstoneAge = 10
  DeviceActive = 20
  ReseedBuffer = 9
  LateRows = {2}
  Modern = {d1}
  Gap = 99
  Repairs = FALSE
  Lossy = FALSE
  FirstHolds = FALSE
  Pruning = FALSE
  Busy = {1, 2, 3}
  MaxTime = 3
  MaxTop = 99
  MaxOrphans = 1
SPECIFICATION SpecWithHistory
INVARIANTS CursorTellsTruth Numbered Counted
PROPERTIES NoEditDropped NewestWins
CHECK_DEADLOCK FALSE
