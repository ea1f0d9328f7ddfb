----------------------------- MODULE PriceBook -----------------------------
(***************************************************************************)
(* What a price archive promises: a book of readings, each the price of a  *)
(* card in a lane on a day. Readings are added for days that have none,    *)
(* only true ones, and never changed; they leave when they are older than  *)
(* the book keeps, counted from the newest day in it.                      *)
(***************************************************************************)
EXTENDS Integers

CONSTANTS True,   \* the readings that were ever given out, [card, lane, day, price]
          Keeps   \* how many days the book goes back

VARIABLE book     \* a set of readings

Slot(r) == <<r.card, r.lane, r.day>>

Init == book = {}
Next == LET either == book \cup book'
        IN  /\ book' \subseteq book \cup True
            /\ \A r \in book' \ book : \A s \in either \ {r} : Slot(r) # Slot(s)
            /\ \A r \in book \ book' : \E s \in either : r.day <= s.day - Keeps
Spec == Init /\ [][Next]_book
=============================================================================
