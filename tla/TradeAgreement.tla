--------------------------- MODULE TradeAgreement ---------------------------
(***************************************************************************)
(* What a trade over the relay promises its two seats: at most one deal is *)
(* ever sealed, and a seat writes that deal into its own collection, once, *)
(* or nothing. Under FairSpec a sealed deal is written by both.            *)
(***************************************************************************)
CONSTANTS Deal, Seat, Nothing

VARIABLES sealed,    \* the deal both seats confirmed, or Nothing
                  recorded   \* [Seat -> the deals written into that seat's collection]

Init == sealed = Nothing /\ recorded = [s \in Seat |-> <<>>]

Seal(d) == sealed = Nothing /\ sealed' = d /\ UNCHANGED recorded

Record(s) ==
  /\ sealed # Nothing /\ recorded[s] = <<>>
  /\ recorded' = [recorded EXCEPT ![s] = <<sealed>>]
  /\ UNCHANGED sealed

Next == (\E d \in Deal : Seal(d)) \/ (\E s \in Seat : Record(s))

Spec == Init /\ [][Next]_<<sealed, recorded>>
FairSpec == Spec /\ \A s \in Seat : WF_<<sealed, recorded>>(Record(s))
=============================================================================
