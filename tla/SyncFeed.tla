------------------------------ MODULE SyncFeed ------------------------------
(***************************************************************************)
(* The account change feed the server keeps for one user: the tables       *)
(* sync_rows, sync_seq, sync_prune, sync_devices and sync_usage of         *)
(* server/src/accountStore.ts, and the two transactions that write them,   *)
(* syncApply (one atomic pull+push) and pruneTombstones.                   *)
(*                                                                         *)
(* A row of the model is a (table, row id) pair; rows are numbers so that  *)
(* a batch can be the first entries of the outbox in primary-key order.    *)
(* What a row says is a member of Content: the server never looks inside.  *)
(* Byte sizes are left out (the row-count cap is kept).                    *)
(***************************************************************************)
EXTENDS Naturals, FiniteSets

CONSTANTS
  Row,           \* the (table, row id) pairs of the account
  Device,        \* client ids
  Stamp,         \* the times a clock may show
  Content,       \* what a live row may say
  NoRow,         \* "no such record"
  MaxPush,       \* SYNC_MAX_PUSH
  MaxPull,       \* SYNC_MAX_PULL
  MaxRows,       \* SYNC_MAX_ROWS_PER_USER
  ClampAhead,    \* how far ahead of the server a stamp may lie (5 minutes)
  TombstoneAge,  \* syncTombstoneMinAgeMs
  DeviceActive   \* syncDeviceActiveMs

ASSUME RowAssumption == Row \subseteq Nat /\ IsFiniteSet(Row)
ASSUME CapAssumption == MaxPush \in Nat \ {0} /\ MaxPull \in Nat \ {0} /\ MaxRows \in Nat
ASSUME ClockAssumption ==
  /\ Stamp \subseteq Nat
  /\ ClampAhead \in Nat
  /\ TombstoneAge \in Nat \ {0}
  /\ DeviceActive \in Nat \ {0}

\* A change as a client pushes it: the comparator `updatedAt`, the tombstone
\* flag and the row (meaningless when deleted).
Change == [ts : Stamp, deleted : BOOLEAN, row : Content]

\* A record of sync_rows: the change as stored, and its sequence number.
Stored == [ts : Nat, deleted : BOOLEAN, row : Content, seq : Nat \ {0}]

\* A record of sync_devices.
Sighting == [cursor : Nat, seen : Nat]

ASSUME NoRowAssumption == NoRow \notin Stored /\ NoRow \notin Sighting

VARIABLES
  syncRows,     \* [Row -> Stored \cup {NoRow}]
  maxSeq,       \* sync_seq.max_seq
  prunedBelow,  \* sync_prune.pruned_below
  devices,      \* [Device -> Sighting \cup {NoRow}]
  usage,        \* sync_usage.rows
  now           \* the server's clock

feedVars == <<syncRows, maxSeq, prunedBelow, devices, usage, now>>

-----------------------------------------------------------------------------
\* One request: the cursor asked from, the reseeding claim, and the pushed
\* changes, at most one per row (the outbox is keyed by (tbl, rowId)) and
\* MaxPush of them. A cursor is a number the server once handed out.
Request == [cursor : 0..maxSeq, reseeding : BOOLEAN,
            changes : UNION {[S -> Change] : S \in {T \in SUBSET Row : Cardinality(T) <= MaxPush}}]

Kept == {r \in Row : syncRows[r] # NoRow}

\* The device fell behind what was pruned and must start over.
NeverResync(q) == FALSE                                         \* mutation
MustResync(q) == ~q.reseeding /\ 0 < q.cursor /\ q.cursor < prunedBelow

\* The rows past a cursor, and the first MaxPull of them in feed order.
Past(c) == {r \in Kept : c < syncRows[r].seq}
UpTo(r, S) == {s \in S : syncRows[s].seq <= syncRows[r].seq}
Page(c) == {r \in Past(c) : Cardinality(UpTo(r, Past(c))) <= MaxPull}

HasMore(q) == ~MustResync(q) /\ MaxPull < Cardinality(Past(q.cursor))
Window(q) == IF MustResync(q) THEN {} ELSE Page(q.cursor)

\* Last write wins: a stamp too far in the future is clamped, a tie goes to
\* the stored row, and nothing is applied while the pull is capped.
Clamped(ts) == IF ts <= now + ClampAhead THEN ts ELSE now + ClampAhead
LosesOnlyToNewer(q, r) ==                                       \* mutation
  r \in Kept /\ Clamped(q.changes[r].ts) < syncRows[r].ts
Loses(q, r) == r \in Kept /\ Clamped(q.changes[r].ts) <= syncRows[r].ts
Accepted(q) == IF HasMore(q) THEN {}
               ELSE {r \in DOMAIN q.changes : ~Loses(q, r)}
Beaten(q) == IF HasMore(q) THEN {} ELSE DOMAIN q.changes \ Accepted(q)

\* A push that would store one row too many is refused as a whole.
NewRows(q) == Accepted(q) \ Kept
OverCapByOne(q) ==                                              \* mutation
  NewRows(q) # {} /\ MaxRows + 1 < usage + Cardinality(NewRows(q))
OverCap(q) == NewRows(q) # {} /\ MaxRows < usage + Cardinality(NewRows(q))

\* The sequence number an accepted row gets: they are handed out one by one,
\* in the order of the batch.
SeqNotCounted(r, A) == maxSeq + 1                               \* mutation
SeqFor(r, A) == maxSeq + Cardinality({s \in A : s <= r})
Store(q, r) == [ts |-> Clamped(q.changes[r].ts), deleted |-> q.changes[r].deleted,
                row |-> q.changes[r].row, seq |-> SeqFor(r, Accepted(q))]

\* The cursor after the call: the end of a capped page, else the new top.
PageEnd(q) == CHOOSE n \in {syncRows[r].seq : r \in Window(q)} :
                \A r \in Window(q) : syncRows[r].seq <= n
CursorAtTop(q) == maxSeq + Cardinality(Accepted(q))             \* mutation
NewCursor(q) == IF HasMore(q) THEN PageEnd(q)
                ELSE maxSeq + Cardinality(Accepted(q))

\* What the server answers: everything in the window, and the stored winner
\* of every pushed change that lost. Never an echo of an accepted push.
Outgoing(q) == {[row |-> r, change |-> syncRows[r]] : r \in Window(q) \cup Beaten(q)}
Reply(q) == [cursor |-> IF MustResync(q) THEN 0 ELSE NewCursor(q),
             changes |-> Outgoing(q),
             hasMore |-> HasMore(q),
             resync |-> MustResync(q)]

\* touchDevice: a device's recorded cursor only ever grows.
Touched(d, c) == [cursor |-> IF devices[d] # NoRow /\ c < devices[d].cursor
                             THEN devices[d].cursor ELSE c,
                  seen |-> now]

-----------------------------------------------------------------------------
FeedInit ==
  /\ syncRows = [r \in Row |-> NoRow]
  /\ maxSeq = 0
  /\ prunedBelow = 0
  /\ devices = [d \in Device |-> NoRow]
  /\ usage = 0
  /\ now = 0

\* syncApply, when it commits.
SyncApply(d, q) ==
  /\ ~OverCap(q)
  /\ syncRows' = [r \in Row |-> IF r \in Accepted(q) THEN Store(q, r) ELSE syncRows[r]]
  /\ maxSeq' = maxSeq + Cardinality(Accepted(q))
  /\ usage' = usage + Cardinality(NewRows(q))
  /\ devices' = [devices EXCEPT ![d] =
                   Touched(d, IF MustResync(q) THEN 0 ELSE NewCursor(q))]
  /\ UNCHANGED <<prunedBelow, now>>

\* The lowest cursor among the devices seen within DeviceActive.
Active == {d \in Device : devices[d] # NoRow /\ now <= devices[d].seen + DeviceActive}
IsFloor(f) == /\ \E d \in Active : devices[d].cursor = f
              /\ \A d \in Active : f <= devices[d].cursor

\* What every live device has applied and is old enough to forget.
Spent(f) == {r \in Kept : /\ syncRows[r].deleted
                          /\ syncRows[r].seq <= f
                          /\ syncRows[r].ts + TombstoneAge < now}

\* pruneTombstones: at boot and hourly. The floor is recorded even when
\* nothing was deleted.
PruneTombstones ==
  \E f \in {devices[d].cursor : d \in Active} :
    /\ IsFloor(f)
    /\ 0 < f
    /\ syncRows' = [r \in Row |-> IF r \in Spent(f) THEN NoRow ELSE syncRows[r]]
    /\ usage' = usage - Cardinality(Spent(f))
    /\ prunedBelow' = IF f < prunedBelow THEN prunedBelow ELSE f
    /\ UNCHANGED <<maxSeq, devices, now>>

Elapse(t) == t > now /\ now' = t /\ UNCHANGED <<syncRows, maxSeq, prunedBelow, devices, usage>>

FeedNext ==
  \/ \E d \in Device, q \in Request : SyncApply(d, q)
  \/ PruneTombstones
  \/ \E t \in Stamp : Elapse(t)

FeedSpec == FeedInit /\ [][FeedNext]_feedVars

-----------------------------------------------------------------------------
(***************************************************************************)
(* Properties.                                                             *)
(***************************************************************************)
FeedTypeOK ==
  /\ syncRows \in [Row -> Stored \cup {NoRow}]
  /\ maxSeq \in Nat
  /\ prunedBelow \in Nat
  /\ devices \in [Device -> Sighting \cup {NoRow}]
  /\ usage \in Nat
  /\ now \in Nat

\* The feed is a sequence: no two rows share a number, none is above the top,
\* so a cursor splits the rows into those a device has and those it lacks
\* (syncApply numbers a whole batch by counting up from max_seq).
SeqsDistinct == \A r, s \in Kept : syncRows[r].seq = syncRows[s].seq => r = s
SeqsBounded == \A r \in Kept : syncRows[r].seq <= maxSeq
\* No device is on record past the top, and neither is the pruned floor: a
\* floor above the top would order a reseed of every device for ever.
CursorsBounded ==
  /\ \A d \in Device : devices[d] # NoRow => devices[d].cursor <= maxSeq
  /\ prunedBelow <= maxSeq
Numbered == SeqsDistinct /\ SeqsBounded /\ CursorsBounded

\* The running row count the storage cap is checked against, kept by deltas
\* in two transactions, is the number of stored rows, and never over the cap.
UsageExact == usage = Cardinality(Kept)
UsageCapped == usage <= MaxRows
Counted == UsageExact /\ UsageCapped

\* Last write wins on the server: what a row holds is only ever replaced by
\* a strictly newer stamp under a number past every number handed out so
\* far, so every device still has it ahead of its cursor. The one way a row
\* leaves is as a tombstone at or below the recorded pruned floor.
NewestWins ==
  [][\A r \in Row :
       syncRows'[r] # syncRows[r] /\ syncRows[r] # NoRow =>
         \/ /\ syncRows'[r] # NoRow
            /\ syncRows[r].ts < syncRows'[r].ts
            /\ maxSeq < syncRows'[r].seq
         \/ /\ syncRows'[r] = NoRow
            /\ syncRows[r].deleted
            /\ syncRows[r].seq <= prunedBelow']_feedVars
=============================================================================
