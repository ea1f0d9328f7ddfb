CONSTANTS
  Tab = {t1, t2}
  Call = {c1}
  Unrelated = TRUE
  MaxActs = 3
  MaxTroubles = 2
SPECIFICATION LiveSpec
INVARIANTS HubIsRight
PROPERTIES KeepsPromise Connects ShowsTruth NoFight
CHECK_DEADLOCK FALSE
