----------------------------- MODULE CardLedger -----------------------------
(***************************************************************************)
(* What the edit history promises: the cards are the sum of the entries    *)
(* that stand. An operation adds entries, undo takes one away whole, hand  *)
(* edits of one slot may fold into the last entry, which only grows; and   *)
(* nothing goes below zero on the way.                                     *)
(***************************************************************************)
EXTENDS Integers, FiniteSetsExt

CONSTANT Thing    \* what is counted: copies, boards of containers, wishes

VARIABLES entries,  \* the entries, each [id, delta] with delta \in [Thing -> Int]
          count     \* [Thing -> Nat], the cards there are

Init == entries = {} /\ count = [t \in Thing |-> 0]

Total(E) == [t \in Thing |-> MapThenSumSet(LAMBDA e : e.delta[t], E)]
Adds(E)  == \A t \in Thing : count'[t] = count[t] + Total(E)[t] /\ count'[t] >= 0

Record   == entries \subseteq entries' /\ Adds(entries' \ entries)
\* One entry goes, with those that count for nothing.
Withdraw == LET gone == entries \ entries'
            IN  /\ entries' \subseteq entries
                /\ Cardinality({e \in gone : \E t \in Thing : e.delta[t] # 0}) <= 1
                /\ \A t \in Thing : count'[t] = count[t] - Total(gone)[t]
Grow     == \E e \in entries : \E f \in entries' :
              /\ e.id = f.id /\ entries' = (entries \ {e}) \cup {f}
              /\ \A t \in Thing : /\ count'[t] = count[t] + f.delta[t] - e.delta[t]
                                  /\ e.delta[t] > 0 => f.delta[t] >= e.delta[t]
                                  /\ e.delta[t] < 0 => f.delta[t] <= e.delta[t]

Next == Record \/ Withdraw \/ Grow
Spec == Init /\ [][Next]_<<entries, count>>
=============================================================================
