----------------------------- MODULE CallPromise -----------------------------
(***************************************************************************)
(* What the agent bridge promises of a tool call: it is answered once, or  *)
(* fails once; an answer means that the tool ran. That a call failed does  *)
(* not mean that it did not run, or will not.                              *)
(***************************************************************************)
CONSTANT Call

VARIABLES outcome,  \* [Call -> "none", "pending", "answered", "failed"]
          ran       \* the calls whose tool ran

Init == outcome = [i \in Call |-> "none"] /\ ran = {}

Ask(i)    == outcome[i] = "none" /\ outcome' = [outcome EXCEPT ![i] = "pending"] /\ UNCHANGED ran
Run(i)    == outcome[i] # "none" /\ i \notin ran /\ ran' = ran \cup {i} /\ UNCHANGED outcome
Answer(i) == outcome[i] = "pending" /\ i \in ran
             /\ outcome' = [outcome EXCEPT ![i] = "answered"] /\ UNCHANGED ran
\* A tab that goes fails all the calls it had at once; without one a call fails
\* as it is asked.
Fail(C)   == /\ \A i \in C : outcome[i] \in {"none", "pending"}
             /\ outcome' = [i \in Call |-> IF i \in C THEN "failed" ELSE outcome[i]]
             /\ UNCHANGED ran

Next == (\E i \in Call : Ask(i) \/ Run(i) \/ Answer(i)) \/ (\E C \in SUBSET Call : Fail(C))

Spec == Init /\ [][Next]_<<outcome, ran>>

Settles == \A i \in Call : outcome[i] = "pending" ~> outcome[i] # "pending"
=============================================================================
