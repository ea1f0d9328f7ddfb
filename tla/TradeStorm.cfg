CONSTANTS
  Offer = {none, card}
  NoOffer = none
  NoSession = NoSession
  Nothing = Nothing
  Nonce = {1}
  Lossy = TRUE
  LostReplies = TRUE
  Timers = TRUE
  Failing = TRUE
  Impatient = FALSE
  Overtaking = TRUE
  MaxSockets = 3
  MaxPresses <- MCPresses
  Offers = 1
  Accepts = 2
  Unaccepts = 0
  Confirms = 2
  Cancels = 0
SPECIFICATION Spec
INVARIANTS TypeOK
PROPERTIES Agrees
CHECK_DEADLOCK FALSE
