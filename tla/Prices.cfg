CONSTANTS
  a = a
  b = b
  eur = eur
  foil = foil
  Card = {a, b}
  Lane = {eur, foil}
  FoilLane = {foil}
  Ours <- MCOurs
  Theirs <- MCTheirs
  Window = 2
  Lag = 0
  Versions <- MCVersions
  Setups <- MCSetups
  Retention = 2
  MaxAttempts = 2
  NoReading = NoReading
  MaxDay = 4
  MaxTroubles = 2
SPECIFICATION LiveSpec
INVARIANTS TypeOK DoneIsThere
PROPERTIES KeepsBook CatchesUp
CHECK_DEADLOCK FALSE
