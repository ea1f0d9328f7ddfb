-------------------------- MODULE MCCardHistory --------------------------
(* A card in a few printings, a container or two and a trade, for TLC.     *)
EXTENDS CardHistory, TLC

CONSTANTS Main, Elsewhere, Deck, Binder   \* two boards and their containers

MCPlace == {Main, Elsewhere}
MCDeckOf == (Main :> Deck) @@ (Elsewhere :> Binder)
CopySymmetry == Permutations(Copy)
=============================================================================
