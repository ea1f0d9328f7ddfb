-------------------------- MODULE TransferPromise --------------------------
(***************************************************************************)
(* What moving data between two devices promises: a device's data is       *)
(* replaced, if at all, by everything one other device held when the two   *)
(* were connected, never by a part of it or a mixture, and once.           *)
(***************************************************************************)
EXTENDS Sequences

CONSTANT Device, Snapshot   \* a snapshot is all that one device held

VARIABLES taken,    \* [Device -> the snapshots taken of it, a set]
          written   \* [Device -> the snapshots its data was replaced by, a sequence]

Init == /\ taken = [d \in Device |-> {}]
        /\ written = [d \in Device |-> <<>>]

Take(d, s) ==
  /\ \A e \in Device : s \notin taken[e]
  /\ taken' = [taken EXCEPT ![d] = @ \cup {s}]
  /\ UNCHANGED written

Replace(d, e, s) ==
  /\ d # e /\ s \in taken[e]
  /\ \A i \in DOMAIN written[d] : written[d][i] # s
  /\ written' = [written EXCEPT ![d] = Append(@, s)]
  /\ UNCHANGED taken

Next == \E d \in Device, s \in Snapshot :
          Take(d, s) \/ \E e \in Device : Replace(d, e, s)

Spec == Init /\ [][Next]_<<taken, written>>
=============================================================================
