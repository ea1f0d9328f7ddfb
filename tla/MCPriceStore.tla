--------------------------- MODULE MCPriceStore ---------------------------
(* A few cards and days, and the two ways a server is set up, for TLC.     *)
EXTENDS PriceStore, TLC

CONSTANTS a, b, eur, foil    \* two cards, a lane and a foil lane

MCTheirs == [d \in 1..MaxDay |-> IF d % 2 = 0 THEN {<<a, eur>>, <<b, foil>>} ELSE {<<a, foil>>, <<a, eur>>}]
MCOurs == [d \in 1..MaxDay |-> IF d % 2 = 1 /\ d < 4 THEN {<<a, eur>>, <<b, eur>>} ELSE {<<a, eur>>, <<a, foil>>}]
MCVersions == <<{a, b}, {a}, {a, b}>>
MCSetups == {[cardDb |-> TRUE, backfill |-> TRUE, monthly |-> FALSE],
             [cardDb |-> FALSE, backfill |-> FALSE, monthly |-> TRUE]}
=============================================================================
