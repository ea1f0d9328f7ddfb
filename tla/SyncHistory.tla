---------------------------- MODULE SyncHistory ----------------------------
(***************************************************************************)
(* What becomes of the local writes of module SyncEngine, which the state  *)
(* alone does not tell: a record that was pruned leaves no trace of how    *)
(* new it was.                                                             *)
(***************************************************************************)
EXTENDS SyncEngine

VARIABLE had   \* history: [Row -> the newest stamp the server ever had of it]

Remember == had' = [r \in Row |-> IF r \in Kept' /\ had[r] < syncRows'[r].ts
                                 THEN syncRows'[r].ts ELSE had[r]]
InitWithHistory == Init /\ had = [r \in Row |-> 0]
NextWithHistory == Next /\ Remember
SpecWithHistory == InitWithHistory /\ [][NextWithHistory]_<<vars, had>>

\* A staged write leaves the outbox only because a later local write took its
\* place or because the server has, or had until it was pruned, this write or
\* one at least as new: no edit is dropped between the table and the account,
\* whatever is lost or cut short. A reseed's wipe is the next property's.
NoEditDropped ==
  [][\A d \in Device, r \in Row :
       outbox[d][r] # NoRow /\ outbox'[d][r] = NoRow =>
         WipeForResync(d) \/ outbox[d][r].ts <= had[r]]_<<vars, had>>

\* The wipe that a reseed begins with takes no write along that never reached
\* the server ("Our push was applied, so nothing local is lost by starting
\* over", sync/engine.ts:327).
ReseedLosesNothing ==
  [][\A d \in Device, r \in Row :
       WipeForResync(d) /\ outbox[d][r] # NoRow => outbox[d][r].ts <= had[r]]_<<vars, had>>
=============================================================================
