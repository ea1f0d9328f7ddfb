------------------------------ MODULE SyncPush ------------------------------
(***************************************************************************)
(* When the devices of module SyncEngine sync: server/src/syncHub.ts tells *)
(* the sockets of the account that a push was applied, and the listeners   *)
(* and timers of client/src/sync/engine.ts call syncNow. A call that comes *)
(* while a loop runs does nothing (withSyncLock takes the lock only if it  *)
(* is free), so whatever it was about has to be covered by that loop, or   *)
(* by a later call.                                                        *)
(***************************************************************************)
EXTENDS SyncEngine

CONSTANTS
  Listening,  \* bound: the devices whose socket gets through
  Roaming     \* bound: the devices that go offline
ASSUME PushAssumption == Listening \cup Roaming \subseteq Device

VARIABLES
  debounce, retry,  \* [Device -> BOOLEAN], the timers that are set; an offline
                    \* device that is to be online again counts as the second
  linked,           \* [Device -> BOOLEAN], its socket is subscribed
  notes,            \* [Device -> the sync_notify messages on their way to it]
  missed            \* history: [Device -> BOOLEAN], a loop that had its last
                    \* answer made the device ignore a message

timers   == <<debounce, retry>>
pushVars == <<timers, linked, notes, missed>>

-----------------------------------------------------------------------------
PushInit ==
  /\ Init
  /\ debounce = [d \in Device |-> FALSE] /\ retry = [d \in Device |-> FALSE]
  /\ linked = [d \in Device |-> FALSE] /\ notes = [d \in Device |-> {}]
  /\ missed = [d \in Device |-> FALSE]

\* The live query on the outbox: any change that leaves something in it.
Restarts(d) == outbox'[d] # outbox[d] /\ \E r \in Row : outbox'[d][r] # NoRow
Watched(d) == debounce' = [debounce EXCEPT ![d] = @ \/ Restarts(d)]

\* syncNow takes the lock if it is free, and only then stops the retry timer.
StopsRetry(d) == retry' = [retry EXCEPT ![d] = @ /\ pc[d] # "idle"]
SyncNow(d) == StartSync(d) \/ (pc[d] # "idle" /\ UNCHANGED vars)

\* Offline it does nothing: the 'online' event will call it, and what makes that
\* call is kept with the retry timer.
Offline(d) == d \in Roaming /\ UNCHANGED vars /\ retry' = [retry EXCEPT ![d] = TRUE]
Calls(d) == (SyncNow(d) /\ StopsRetry(d)) \/ Offline(d)

TimerFires(d) ==
  /\ debounce[d] /\ debounce' = [debounce EXCEPT ![d] = FALSE]
  /\ Calls(d)
  /\ UNCHANGED <<linked, notes, missed>>
RetryFires(d) ==
  /\ retry[d] /\ retry' = [retry EXCEPT ![d] = FALSE]
  /\ SyncNow(d)
  /\ UNCHANGED <<debounce, linked, notes, missed>>

\* The user comes back: the page is visible again.
Return(d) ==
  /\ StartSync(d) /\ StopsRetry(d)
  /\ UNCHANGED <<debounce, linked, notes, missed>>

\* A socket subscribes, again and again; the answer is the top of the feed.
Silence(d) == notes                                              \* mutation
Welcome(d) == [notes EXCEPT ![d] = @ \cup {maxSeq}]
Link(d) ==
  /\ d \in Listening /\ ~linked[d] /\ linked' = [linked EXCEPT ![d] = TRUE]
  /\ notes' = Welcome(d)
  /\ UNCHANGED <<vars, timers, missed>>
Unlink(d) ==
  /\ Lossy /\ linked[d] /\ linked' = [linked EXCEPT ![d] = FALSE]
  /\ notes' = [notes EXCEPT ![d] = {}]
  /\ UNCHANGED <<vars, timers, missed>>

\* A message names a place in the feed (a page that was cut short, one below
\* the top, so no order is kept among them); what is not new is ignored.
IsNew(d, seq) == seq > saved[d].cursor
Hear(d) == \E seq \in notes[d] :
  /\ notes' = [notes EXCEPT ![d] = @ \ {seq}]
  /\ IF IsNew(d, seq)
     THEN /\ Calls(d)
          /\ missed' = [missed EXCEPT ![d] = @ \/ pc[d] \notin {"idle", "sent"}]
     ELSE UNCHANGED <<vars, retry, missed>>
  /\ UNCHANGED <<debounce, linked>>

\* notify: everybody's sockets but those of the device that pushed.
Notified(d, q) == [e \in Device |->
  IF e # d /\ linked[e] /\ Accepted(q) # {} THEN notes[e] \cup {NewCursor(q)} ELSE notes[e]]

PushServe(d) ==
  /\ Serve(d)
  /\ notes' = Notified(d, RequestOf(loop[d]))
  /\ missed' = [missed EXCEPT ![d] = FALSE]
  /\ UNCHANGED <<timers, linked>>

\* A request or a reply is lost, or the push refused: try again later.
GivesUp(d) == retry                                              \* mutation
TriesAgain(d) == [retry EXCEPT ![d] = TRUE]
SyncFails(d) ==
  /\ (pc[d] \in {"sent", "replied"} /\ Abandon(d)) \/ Refuse(d)
  /\ retry' = TriesAgain(d)
  /\ UNCHANGED <<debounce, linked, notes, missed>>

LoopGoesOn(d) ==
  /\ \/ WipeForResync(d) \/ SaveReset(d) \/ BufferPage(d)
     \/ ApplyServerChanges(d) \/ AckOutbox(d) \/ SaveState(d)
  /\ Watched(d)
  /\ UNCHANGED <<retry, linked, notes, missed>>
PushEdit(d, r, deleted) ==
  /\ Edit(d, r, deleted) /\ Watched(d)
  /\ UNCHANGED <<retry, linked, notes, missed>>

PushNext == \E d \in Device :
  \/ TimerFires(d) \/ RetryFires(d) \/ Return(d) \/ Link(d) \/ Unlink(d) \/ Hear(d)
  \/ PushServe(d) \/ SyncFails(d) \/ LoopGoesOn(d)
  \/ \E r \in Row, deleted \in BOOLEAN : PushEdit(d, r, deleted)

PushSpec == PushInit /\ [][PushNext]_<<vars, pushVars>>

\* The timers fire, the loop goes on, an offline device is online at last and the
\* socket reconnects; a request or a message that is tried for ever gets through.
\* That the user comes back is not assumed.
PushFairness ==
  /\ \A d \in Device : /\ WF_timers(TimerFires(d)) /\ WF_retry(RetryFires(d))
                       /\ SF_pc(PushServe(d)) /\ SF_pc(LoopGoesOn(d))
  /\ \A d \in Listening : WF_linked(Link(d)) /\ SF_notes(Hear(d))
PushLiveSpec == PushSpec /\ PushFairness

-----------------------------------------------------------------------------
(***************************************************************************)
(* Properties.                                                             *)
(***************************************************************************)
\* What is staged gets out by the timers alone, whatever calls were ignored
\* and however often a request fails.
OutboxDrains == \A d \in Device : []<>(Staged(d) = {})

\* A device ends up with the account's rows, and with nothing of its own
\* waiting, though nobody touches it: unless a loop that already had its last
\* answer made it ignore the last message (engine.ts:481).
InSyncAt(d) == Staged(d) = {} /\ \A r \in Row : Knows(d, r) => Matches(d, r)
Converges == <>[](\A d \in Device : missed[d] \/ InSyncAt(d))
=============================================================================
