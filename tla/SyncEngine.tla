----------------------------- MODULE SyncEngine -----------------------------
(***************************************************************************)
(* A user's devices keeping their local tables in step with the account    *)
(* feed: client/src/sync/engine.ts (the sync loop), client/src/sync/       *)
(* outbox.ts and client/src/db/write.ts (local writes staged in the same   *)
(* transaction), the route POST /api/sync between them and the feed of     *)
(* module SyncFeed.                                                        *)
(*                                                                         *)
(* Every await of the loop is a place where the user can edit, another     *)
(* device can sync, the request or the reply can be lost and the tab can   *)
(* be closed, so the loop is cut into one action per await. (One await is   *)
(* folded into the step before it: the outbox read that opens a pass. Only *)
(* a local write could fall between, and it can as well fall before.) A    *)
(* device runs one loop at a time (withSyncLock's Web Lock is per browser).*)
(*                                                                         *)
(* A row's content is the moment of the edit that wrote it, which is       *)
(* unique, and the stamp that edit put on it (the row's own updatedAt).    *)
(***************************************************************************)
EXTENDS SyncFeed

CONSTANTS
  ReseedBuffer,  \* RESEED_BUFFER_MAX
  LateRows,      \* rows of a table that an older build does not know
  Modern,        \* the devices that run the newer build from the start
  Skew,          \* [Device -> Nat]: how far a device's clock runs ahead
  Gap,           \* how long the user may leave every device alone at once
  Repairs,       \* whether an app update carries a one-time repair
  Lossy,         \* whether requests are lost and loops are cut short,
  FirstHolds,    \* except between a first page and the cursor it brings
  Pruning,       \* whether the server's maintenance runs
  Busy,          \* bound: the moments at which the user may edit
  Edits,         \* bound: [Device -> SUBSET Row], the rows edited on each
  MaxTime,       \* bound: the last moment of a behaviour
  MaxTop,        \* bound: the top of the feed up to which loops are cut short
  MaxOrphans     \* bound: requests under way that nobody awaits any more

ASSUME EngineAssumption ==
  /\ ReseedBuffer \in Nat
  /\ LateRows \subseteq Row /\ Modern \subseteq Device
  /\ Skew \in [Device -> Nat]
  /\ Busy \subseteq Nat /\ Edits \in [Device -> SUBSET Row]
  /\ {Gap, MaxTime, MaxTop, MaxOrphans} \subseteq Nat
  /\ Repairs \in BOOLEAN /\ Lossy \in BOOLEAN /\ FirstHolds \in BOOLEAN
  /\ Pruning \in BOOLEAN

\* What an edit writes is a row, and its stamp one that a clock may show.
ASSUME EditAssumption ==
  /\ NoRow \notin Content /\ NoRow \notin Change
  /\ \A t \in Busy, d \in Device : /\ t + Skew[d] \in Stamp
                                   /\ [id |-> t, stamp |-> t + Skew[d]] \in Content

VARIABLES
  local,    \* [Device -> [Row -> row content or NoRow]]: the synced tables
  outbox,   \* [Device -> [Row -> Change or NoRow]]: staged local writes
  saved,    \* [Device -> the SyncState on record: cursor and reseeding]
  updated,  \* [Device -> BOOLEAN]: runs a build that knows LateRows
  pc,       \* [Device -> where the sync loop waits]
  loop,     \* [Device -> what the running loop holds in memory]
  orphans   \* requests still on their way whose sender gave up

clientVars == <<local, outbox, saved, updated, pc, loop, orphans>>
vars == <<syncRows, maxSeq, prunedBelow, devices, usage, now,
          local, outbox, saved, updated, pc, loop, orphans>>

-----------------------------------------------------------------------------
NoRows == [r \in Row |-> NoRow]
Staged(d) == {r \in Row : outbox[d][r] # NoRow}
Knows(d, r) == r \in LateRows => updated[d]

\* The outbox is read in primary-key order, MaxPush entries at a time.
Batch(d) == LET S == {r \in Staged(d) : Cardinality({s \in Staged(d) : s <= r}) <= MaxPush}
            IN  [r \in S |-> outbox[d][r]]

Idle == [cursor |-> 0, fetchFrom |-> 0, reseeding |-> FALSE,
         buffered |-> {}, batch |-> <<>>, reply |-> NoRow]

\* The request a loop sends: it asks from fetchFrom, which runs ahead of the
\* cursor while a reseed is buffered.
RequestOf(l) == [cursor |-> l.fetchFrom, reseeding |-> l.reseeding, changes |-> l.batch]

\* All a loop has to apply; of two changes to one row the later one counts.
Pending(l) == l.buffered \cup l.reply.changes
Newest(l) == {c \in Pending(l) : \A e \in Pending(l) :
                e.row = c.row => e.change.seq <= c.change.seq}

NeverBlocked(d, l) == 0                                         \* mutation
\* The first sequence number this build could not apply; 0 when it could.
Blocked(d, l) == LET B == {c.change.seq : c \in {e \in Pending(l) : ~Knows(d, e.row)}}
                 IN  IF B = {} THEN 0 ELSE CHOOSE b \in B : \A n \in B : b <= n

-----------------------------------------------------------------------------
Init ==
  /\ FeedInit
  /\ local = [d \in Device |-> NoRows]
  /\ outbox = [d \in Device |-> NoRows]
  /\ saved = [d \in Device |-> [cursor |-> 0, reseeding |-> FALSE]]
  /\ updated = [d \in Device |-> d \in Modern]
  /\ pc = [d \in Device |-> "idle"]
  /\ loop = [d \in Device |-> Idle]
  /\ orphans = {}

\* The user writes or deletes a row: table and outbox in one transaction,
\* stamped with the device's clock. A staged write replaces the one before.
Edit(d, r, deleted) ==
  LET soon == {t \in Busy : now < t}
      at == CHOOSE t \in soon : \A u \in soon : t <= u
      row == [id |-> at, stamp |-> at + Skew[d]]
  IN  /\ soon # {}
      /\ Knows(d, r) /\ r \in Edits[d]
      /\ deleted => local[d][r] # NoRow
      /\ Elapse(at)
      /\ local' = [local EXCEPT ![d][r] = IF deleted THEN NoRow ELSE row]
      /\ outbox' = [outbox EXCEPT ![d][r] =
                      [ts |-> row.stamp, deleted |-> deleted, row |-> row]]
      /\ UNCHANGED <<saved, updated, pc, loop, orphans>>

\* The head of a pass: read a batch, send the request.
Pass(d, cursor, fetchFrom, reseeding, buffered) ==
  [cursor |-> cursor, fetchFrom |-> fetchFrom, reseeding |-> reseeding,
   buffered |-> buffered, batch |-> Batch(d), reply |-> NoRow]

\* syncNow takes the lock, reads the state on record and starts the first pass.
StartSync(d) ==
  /\ pc[d] = "idle"
  /\ pc' = [pc EXCEPT ![d] = "sent"]
  /\ loop' = [loop EXCEPT ![d] =
                Pass(d, saved[d].cursor, saved[d].cursor, saved[d].reseeding, {})]
  /\ UNCHANGED <<feedVars, local, outbox, saved, updated, orphans>>

\* The server answers the request.
Serve(d) ==
  /\ pc[d] = "sent"
  /\ SyncApply(d, RequestOf(loop[d]))
  /\ pc' = [pc EXCEPT ![d] = "replied"]
  /\ loop' = [loop EXCEPT ![d].reply = Reply(RequestOf(loop[d]))]
  /\ UNCHANGED <<local, outbox, saved, updated, orphans>>

\* It refuses the push (413): the loop ends with an error.
Refuse(d) ==
  /\ pc[d] = "sent"
  /\ OverCap(RequestOf(loop[d]))
  /\ pc' = [pc EXCEPT ![d] = "idle"]
  /\ loop' = [loop EXCEPT ![d] = Idle]
  /\ UNCHANGED <<feedVars, local, outbox, saved, updated, orphans>>

\* The loop is cut short: the tab closes, the request or its reply is lost,
\* the passes are used up. A request already under way may still arrive.
Abandon(d) ==
  /\ Lossy /\ pc[d] # "idle" /\ maxSeq <= MaxTop
  /\ FirstHolds => 0 < saved[d].cursor \/ pc[d] \in {"sent", "replied"}
  /\ pc' = [pc EXCEPT ![d] = "idle"]
  /\ loop' = [loop EXCEPT ![d] = Idle]
  /\ \/ UNCHANGED orphans
     \/ /\ pc[d] = "sent" /\ Cardinality(orphans) < MaxOrphans
        /\ orphans' = orphans \cup {[from |-> d, request |-> RequestOf(loop[d])]}
  /\ UNCHANGED <<feedVars, local, outbox, saved, updated>>

ServeOrphan(o) ==
  /\ SyncApply(o.from, o.request)
  /\ orphans' = orphans \ {o}
  /\ UNCHANGED <<local, outbox, saved, updated, pc, loop>>

\* The server ordered a reseed: the synced tables and the whole outbox go.
\* (A loop that is already reseeding is never told to: MustResync.)
WipeForResync(d) ==
  /\ pc[d] = "replied" /\ loop[d].reply.resync
  /\ local' = [local EXCEPT ![d] = NoRows]
  /\ outbox' = [outbox EXCEPT ![d] = NoRows]
  /\ pc' = [pc EXCEPT ![d] = "wiped"]
  /\ UNCHANGED <<feedVars, saved, updated, loop, orphans>>

\* Then cursor 0 and the reseeding claim go on record, and the loop restarts.
SaveReset(d) ==
  /\ pc[d] = "wiped"
  /\ saved' = [saved EXCEPT ![d] = [cursor |-> 0, reseeding |-> TRUE]]
  /\ loop' = [loop EXCEPT ![d] = Pass(d, 0, 0, TRUE, {})]
  /\ pc' = [pc EXCEPT ![d] = "sent"]
  /\ UNCHANGED <<feedVars, local, outbox, updated, orphans>>

\* A page of a reseed is held back until the last one, or until the buffer
\* is full.
Holds(l) == /\ l.reseeding /\ l.reply.hasMore
            /\ Cardinality(l.buffered) + Cardinality(l.reply.changes) < ReseedBuffer

BufferPage(d) ==
  /\ pc[d] = "replied" /\ ~loop[d].reply.resync /\ Holds(loop[d])
  /\ loop' = [loop EXCEPT ![d] = Pass(d, @.cursor, @.reply.cursor, TRUE, Pending(@))]
  /\ pc' = [pc EXCEPT ![d] = "sent"]
  /\ UNCHANGED <<feedVars, local, outbox, saved, updated, orphans>>

\* applyServerChanges, one transaction. An incoming change gives way to a
\* newer staged write and to a newer local row; otherwise it is written and
\* drops the staged write it supersedes.
YieldsToTableOnly(d, c) ==                                      \* mutation
  local[d][c.row] # NoRow /\ c.change.ts < local[d][c.row].stamp
Yields(d, c) == \/ outbox[d][c.row] # NoRow /\ c.change.ts < outbox[d][c.row].ts
                \/ local[d][c.row] # NoRow /\ c.change.ts < local[d][c.row].stamp
Written(d) == {c \in Newest(loop[d]) : Knows(d, c.row) /\ ~Yields(d, c)}
NewContent(c) == IF c.change.deleted THEN NoRow ELSE c.change.row

ApplyServerChanges(d) ==
  /\ pc[d] = "replied" /\ ~loop[d].reply.resync /\ ~Holds(loop[d])
  /\ local' = [local EXCEPT ![d] = [r \in Row |->
                 IF \E c \in Written(d) : c.row = r
                 THEN NewContent(CHOOSE c \in Written(d) : c.row = r) ELSE @[r]]]
  /\ outbox' = [outbox EXCEPT ![d] = [r \in Row |->
                  IF \E c \in Written(d) : c.row = r THEN NoRow ELSE @[r]]]
  /\ pc' = [pc EXCEPT ![d] = "applied"]
  /\ UNCHANGED <<feedVars, saved, updated, loop, orphans>>

\* ackOutbox: drop what was pushed unless a newer local write replaced it.
\* A capped pull applied no push, so it acknowledges none.
PushedAtAll(d, r) ==                                            \* mutation
  ~loop[d].reply.hasMore /\ r \in DOMAIN loop[d].batch /\ outbox[d][r] # NoRow
Pushed(d, r) == /\ ~loop[d].reply.hasMore
                /\ r \in DOMAIN loop[d].batch /\ outbox[d][r] # NoRow
                /\ outbox[d][r].ts = loop[d].batch[r].ts
                /\ outbox[d][r].deleted = loop[d].batch[r].deleted

AckOutbox(d) ==
  /\ pc[d] = "applied"
  /\ outbox' = [outbox EXCEPT ![d] = [r \in Row |->
                  IF Pushed(d, r) THEN NoRow ELSE @[r]]]
  /\ pc' = [pc EXCEPT ![d] = "acked"]
  /\ UNCHANGED <<feedVars, local, saved, updated, loop, orphans>>

SavedPastTop(d) ==                                              \* mutation
  [cursor |-> loop[d].reply.cursor + 1,
   reseeding |-> loop[d].reseeding /\ loop[d].reply.hasMore]
\* Put the new cursor on record: just short of anything this build could not
\* apply, never backwards. Then stop when blocked or drained, or go round.
NewSaved(d) ==
  LET l == loop[d]
      b == Blocked(d, l)
      ceiling == IF b # 0 /\ b - 1 < l.reply.cursor THEN b - 1 ELSE l.reply.cursor
  IN  [cursor |-> IF ceiling < l.cursor THEN l.cursor ELSE ceiling,
       reseeding |-> l.reseeding /\ l.reply.hasMore]

SaveState(d) ==
  /\ pc[d] = "acked"
  /\ saved' = [saved EXCEPT ![d] = NewSaved(d)]
  /\ IF \/ Blocked(d, loop[d]) # 0
        \/ ~loop[d].reply.hasMore /\ Staged(d) = {}
     THEN /\ pc' = [pc EXCEPT ![d] = "idle"]
          /\ loop' = [loop EXCEPT ![d] = Idle]
     ELSE /\ pc' = [pc EXCEPT ![d] = "sent"]
          /\ loop' = [loop EXCEPT ![d] = Pass(d, NewSaved(d).cursor, NewSaved(d).cursor,
                                              NewSaved(d).reseeding, {})]
  /\ UNCHANGED <<feedVars, local, outbox, updated, orphans>>

\* The app reloads into a build that knows every table. runOneTimeRepairs
\* rewinds a device that has synced before, so that it pulls everything anew.
Update(d) ==
  /\ ~updated[d]
  /\ pc[d] = "idle"
  /\ updated' = [updated EXCEPT ![d] = TRUE]
  /\ saved' = IF Repairs /\ 0 < saved[d].cursor
              THEN [saved EXCEPT ![d] = [cursor |-> 0, reseeding |-> TRUE]]
              ELSE saved
  /\ UNCHANGED <<feedVars, local, outbox, pc, loop, orphans>>

\* A long time passes with no sync loop or request under way (neither lives
\* for a month).
Leave ==
  /\ now + Gap <= MaxTime
  /\ \A d \in Device : pc[d] = "idle"
  /\ orphans = {}
  /\ Elapse(now + Gap)
  /\ UNCHANGED clientVars

Prune == Pruning /\ PruneTombstones /\ UNCHANGED clientVars

DeviceStep(d) ==
  \/ StartSync(d) \/ WipeForResync(d) \/ SaveReset(d)
  \/ BufferPage(d) \/ ApplyServerChanges(d) \/ AckOutbox(d) \/ SaveState(d)

ServerStep(d) == Serve(d) \/ Refuse(d)

Next ==
  \/ \E d \in Device : DeviceStep(d) \/ ServerStep(d) \/ Abandon(d) \/ Update(d)
  \/ \E d \in Device, r \in Row, deleted \in BOOLEAN : Edit(d, r, deleted)
  \/ \E o \in orphans : ServeOrphan(o)
  \/ Prune
  \/ Leave

Spec == Init /\ [][Next]_vars

-----------------------------------------------------------------------------
(***************************************************************************)
(* Properties.                                                             *)
(***************************************************************************)
ClientChange == [ts : Nat, deleted : BOOLEAN, row : Content]
TypeOK ==
  /\ FeedTypeOK
  /\ local \in [Device -> [Row -> Content \cup {NoRow}]]
  /\ outbox \in [Device -> [Row -> ClientChange \cup {NoRow}]]
  /\ saved \in [Device -> [cursor : 0..maxSeq, reseeding : BOOLEAN]]
  /\ updated \in [Device -> BOOLEAN]
  /\ pc \in [Device -> {"idle", "sent", "replied", "wiped", "applied", "acked"}]
  /\ \A d \in Device : /\ loop[d].cursor \in 0..maxSeq
                       /\ loop[d].fetchFrom \in loop[d].cursor..maxSeq
  /\ Cardinality(orphans) <= MaxOrphans

\* A device has heard all there is to hear about row r: nothing of its own is
\* waiting, the stored record lies at or below its cursor, and the cursor
\* still counts (not reseeding, not below the pruned floor).
Heard(d, r) == /\ Knows(d, r) /\ r \notin Staged(d)
               /\ ~saved[d].reseeding /\ prunedBelow <= saved[d].cursor
               /\ r \in Kept => syncRows[r].seq <= saved[d].cursor

Matches(d, r) == local[d][r] = IF r \in Kept /\ ~syncRows[r].deleted
                               THEN syncRows[r].row ELSE NoRow

\* The cursor tells the truth: whatever a device's recorded cursor says it
\* has applied, its tables hold, deletes included, at every await of the loop
\* and after any crash. (A row skipped below the cursor would never come
\* again: engine.ts calls it "everything below it has been applied locally".)
CursorTellsTruth == \A d \in Device, r \in Row : Heard(d, r) => Matches(d, r)

\* All quiet: nothing staged, every device holds exactly the live rows.
InSync == \A d \in Device : /\ Staged(d) = {}
                            /\ \A r \in Row : Knows(d, r) => Matches(d, r)
=============================================================================
