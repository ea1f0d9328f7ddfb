CONSTANTS
  Copy = {c1, c2}
  AnyPrinting = any
  Main = main
  Elsewhere = elsewhere
  Deck = deck
  Binder = binder
  Place <- MCPlace
  DeckOf <- MCDeckOf
  Trade = {t1}
  Troubles = {"rekey", "printing", "redelivered"}
  Limit = 2
  MaxQty = 2
  MaxWrites = 2
  MaxUndos = 2
SYMMETRY CopySymmetry
SPECIFICATION Spec
INVARIANTS OffersAreGood TradeCountsOnce
PROPERTIES KeepsLedger RedoIsSafe
CHECK_DEADLOCK FALSE
