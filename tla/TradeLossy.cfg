CONSTANTS
  Offer = {none, card}
  NoOffer = none
  NoSession = NoSession
  Nothing = Nothing
  Nonce = {1}
  Lossy = TRUE
  LostReplies = FALSE
  Timers = FALSE
  Failing = FALSE
  Impatient = FALSE
  Overtaking = FALSE
  MaxSockets = 3
  MaxPresses <- MCPresses
  Offers = 1
  Accepts = 2
  Unaccepts = 0
  Confirms = 2
  Cancels = 0
SPECIFICATION LiveSpec
INVARIANTS SeatHeld Reached SealedIsKept
PROPERTIES BothRecord
CHECK_DEADLOCK FALSE
