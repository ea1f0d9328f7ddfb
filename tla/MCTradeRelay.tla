--------------------------- MODULE MCTradeRelay ---------------------------
(* One trade between two apps over the relay, for TLC.                     *)
EXTENDS TradeRelay

CONSTANTS Offers, Accepts, Unaccepts, Confirms, Cancels

MCPresses == [offer |-> Offers, accept |-> Accepts, unaccept |-> Unaccepts,
              confirm |-> Confirms, cancel |-> Cancels]
=============================================================================
