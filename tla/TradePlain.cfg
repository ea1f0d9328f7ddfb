CONSTANTS
  Offer = {none, card}
  NoOffer = none
  NoSession = NoSession
  Nothing = Nothing
  Nonce = {1}
  Lossy = FALSE
  LostReplies = FALSE
  Timers = FALSE
  Failing = FALSE
  Impatient = FALSE
  Overtaking = FALSE
  MaxSockets = 2
  MaxPresses <- MCPresses
  Offers = 2
  Accepts = 4
  Unaccepts = 1
  Confirms = 3
  Cancels = 1
SPECIFICATION Spec
INVARIANTS FlagsMatchState ConfirmedAsSeen
PROPERTIES ConfirmedDealStands
CHECK_DEADLOCK FALSE
