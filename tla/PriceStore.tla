----------------------------- MODULE PriceStore -----------------------------
(***************************************************************************)
(* The server's price archive (server/src/priceStore.ts) and the three     *)
(* jobs that fill it: the hourly archiver (priceArchive.ts), which appends *)
(* the day that was published; the backfill (priceBackfill.ts), which      *)
(* splices the history of another provider around it; and the import of    *)
(* the monthly file (priceMonthly.ts). They share one process, yield to    *)
(* each other between transactions and lose what they hold in memory when  *)
(* the process restarts.                                                   *)
(*                                                                         *)
(* A price is where it came from and the day it is for. Days are numbers,  *)
(* 0 is never. Left out: reading the provider's files, sizes, statistics.  *)
(***************************************************************************)
EXTENDS Integers, Sequences, FiniteSets, FiniteSetsExt

CONSTANTS
  Card,
  Lane, FoilLane,   \* the price series of a card; some are there only if used
  Ours, Theirs,     \* [Day -> SUBSET (Card \X Lane)], what we and what the
                    \* other provider have prices for
  Window, Lag,      \* how far it goes back, and how far it is behind
  Versions,         \* the monthly files, as a sequence of sets of cards
  Setups,           \* the configurations: [cardDb, backfill, monthly]
  Retention,        \* RETENTION_DAYS, after which a row is purged too
  MaxAttempts,      \* MAX_ATTEMPTS of the backfill
  NoReading,        \* NULL_CENTS
  MaxDay, MaxTroubles  \* bounds: days, and failures and restarts

ASSUME PriceAssumption ==
  /\ FoilLane \subseteq Lane /\ Lane \ FoilLane # {} /\ IsFiniteSet(Lane)
  /\ {Ours, Theirs} \subseteq [1..MaxDay -> SUBSET (Card \X Lane)]
  /\ {Window, Retention, MaxAttempts, MaxDay, MaxTroubles} \subseteq Nat /\ Lag \in Int
  /\ Retention > 0
  /\ Setups \subseteq [cardDb : BOOLEAN, backfill : BOOLEAN, monthly : BOOLEAN]

\* A price is not NULL_CENTS, and whatever is published prices something.
ASSUME ReadingAssumption ==
  /\ NoReading \notin {"ours", "theirs"} \X (1..MaxDay)
  /\ \A day \in 1..MaxDay : Ours[day] # {}

VARIABLES
  setup,     \* what this server is configured to do
  shard,     \* what is published: [day, priced]
  rows,      \* price_history: [Card -> row]
  lastDay,   \* meta last_day
  run,       \* the archiver: [pc, day, priced, todo]
  fill,      \* the backfill: [pc, series, todo]
  done, attempts,   \* its meta rows
  months,    \* price_monthly: [Card -> version of the file its row came from, or 0]
  file,      \* the version of the monthly file that is there
  stamp,     \* meta monthly_import
  read,      \* the import: [pc, stamp, opened, todo]
  troubles,
  archived,  \* history: the readings of the days that were archived
  taken      \* history: the provider's readings of the backfill that was done

daily   == <<shard, rows, lastDay, run, fill, done, attempts, archived, taken>>
monthly == <<months, file, stamp, read>>
vars    == <<setup, daily, monthly, troubles>>

-----------------------------------------------------------------------------
(***************************************************************************)
(* A row: parallel lanes of one cell a day from start on. A foil lane that *)
(* was never used is empty (NULL); a card without a row has none at all.   *)
(***************************************************************************)
Day == 1..MaxDay
NoRow == [start |-> 0, last |-> 0, cells |-> [l \in Lane |-> <<>>]]
RowLen(row) == Len(row.cells[CHOOSE l \in Lane \ FoilLane : TRUE])
Blank(n) == [i \in 1..n |-> NoReading]
At(row, l, d) == LET i == d - row.start + 1
                 IN  IF i \in DOMAIN row.cells[l] THEN row.cells[l][i] ELSE NoReading

\* appendDay, one card: cells are its prices of the day. A row that has the day
\* or a later one stays, and the oldest days give way to the retention.
AlreadyThere(row, day) == day - row.start < RowLen(row)
PadTo(prev, gap, value) == prev \o Blank(gap) \o <<value>>
TrimsLate(days) == IF days > Retention + 1 THEN days - Retention ELSE 0     \* mutation
Trimmed(days) == IF days > Retention THEN days - Retention ELSE 0
Appended(row, day, cells) ==
  LET len == RowLen(row)
      gap == day - row.start - len
      lanes == [l \in Lane |-> IF row.cells[l] # <<>> THEN PadTo(row.cells[l], gap, cells[l])
                               ELSE IF cells[l] = NoReading THEN <<>>
                               ELSE PadTo(Blank(len), gap, cells[l])]
      drop == Trimmed(day - row.start + 1)
  IN  IF row = NoRow
      THEN [start |-> day, last |-> day,
            cells |-> [l \in Lane |-> IF l \in FoilLane /\ cells[l] = NoReading THEN <<>> ELSE <<cells[l]>>]]
      ELSE IF AlreadyThere(row, day) THEN row
      ELSE [start |-> row.start + drop, last |-> day,
            cells |-> [l \in Lane |-> SubSeq(lanes[l], drop + 1, Len(lanes[l]))]]

\* spliceHistories, one card: R has the provider's readings by day. The window
\* grows both ways, as far as the retention lets it; what is there stays.
TheirsFirst(mine, theirs) == IF theirs # NoReading THEN theirs ELSE mine   \* mutation
OursFirst(mine, theirs) == IF mine # NoReading THEN mine ELSE theirs
Spliced(row, R) ==
  LET isNew == row = NoRow
      there == IF isNew THEN {} ELSE {row.start, row.start + RowLen(row) - 1}
      last == Max(DOMAIN R \cup there)
      start == Max({Min(DOMAIN R \cup there), last - Retention + 1})
      used(l) == l \notin FoilLane \/ row.cells[l] # <<>> \/ \E d \in DOMAIN R : R[d][l] # NoReading
      read0(l, d) == IF d \in DOMAIN R THEN R[d][l] ELSE NoReading
      fills == \E d \in DOMAIN R : d >= start /\ \E l \in Lane : R[d][l] # NoReading /\ At(row, l, d) = NoReading
  IN  IF ~fills THEN row
      ELSE [start |-> start, last |-> last,
            cells |-> [l \in Lane |-> IF used(l)
                         THEN [i \in 1..(last - start + 1) |->
                                 OursFirst(At(row, l, start + i - 1), read0(l, start + i - 1))]
                         ELSE <<>>]]

-----------------------------------------------------------------------------
NotRunning == [pc |-> "idle", day |-> 0, priced |-> {}, todo |-> {}]
NotFilling == [pc |-> "idle", series |-> <<>>, todo |-> {}]
NotReading == [pc |-> "idle", stamp |-> 0, opened |-> 0, todo |-> {}]

Init ==
  /\ setup \in Setups
  /\ shard = [day |-> 0, priced |-> {}]
  /\ rows = [c \in Card |-> NoRow] /\ lastDay = 0
  /\ run = NotRunning /\ fill = [NotFilling EXCEPT !.pc = "waits"] /\ read = NotReading
  /\ done = FALSE /\ attempts = 0
  /\ months = [c \in Card |-> 0] /\ file = 0 /\ stamp = 0
  /\ troubles = 0 /\ archived = {} /\ taken = <<>>

\* The pipeline publishes the prices of a later day (manifest and shard).
Publish(day) ==
  /\ setup.cardDb /\ day > shard.day
  /\ shard' = [day |-> day, priced |-> Ours[day]]
  /\ UNCHANGED <<setup, rows, lastDay, run, fill, done, attempts, archived, taken, monthly, troubles>>

-----------------------------------------------------------------------------
(***************************************************************************)
(* archiveOnce, never two at once (jobs.ts): the manifest, the shard it    *)
(* names, a transaction for each batch of cards, and the end.              *)
(***************************************************************************)
ArchiverOnly == UNCHANGED <<setup, shard, fill, done, attempts, taken, monthly>>
Due(day) == day > lastDay
CheckManifest ==
  /\ setup.cardDb /\ run.pc = "idle" /\ Due(shard.day) /\ shard.day > 0
  /\ run' = [NotRunning EXCEPT !.pc = "fetch", !.day = shard.day]
  /\ ArchiverOnly /\ UNCHANGED <<rows, lastDay, archived, troubles>>

\* A shard of another build has another hash.
FetchShard ==
  /\ run.pc = "fetch"
  /\ run' = IF shard.day = run.day
            THEN [run EXCEPT !.pc = "append", !.priced = shard.priced, !.todo = {p[1] : p \in shard.priced}]
            ELSE NotRunning
  /\ ArchiverOnly /\ UNCHANGED <<rows, lastDay, archived, troubles>>

AppendDay(c) ==
  /\ run.pc = "append" /\ c \in run.todo
  /\ rows' = [rows EXCEPT ![c] = Appended(@, run.day,
                [l \in Lane |-> IF <<c, l>> \in run.priced THEN <<"ours", run.day>> ELSE NoReading])]
  /\ run' = [run EXCEPT !.todo = @ \ {c}]
  /\ ArchiverOnly /\ UNCHANGED <<lastDay, archived, troubles>>

Purged == [c \in Card |-> IF rows[c].last < run.day - Retention THEN NoRow ELSE rows[c]]
Finish ==
  /\ run.pc = "append" /\ run.todo = {}
  /\ rows' = Purged
  /\ lastDay' = run.day
  /\ archived' = archived \cup {[card |-> p[1], lane |-> p[2], day |-> run.day] : p \in run.priced}
  /\ run' = NotRunning
  /\ ArchiverOnly /\ UNCHANGED troubles

StaysBusy == [NotRunning EXCEPT !.pc = "failed"]                  \* mutation
Released == NotRunning
ArchiveFails ==
  /\ run.pc # "idle" /\ troubles < MaxTroubles /\ troubles' = troubles + 1
  /\ run' = Released
  /\ ArchiverOnly /\ UNCHANGED <<rows, lastDay, archived>>

-----------------------------------------------------------------------------
(***************************************************************************)
(* backfillFromMtgjson, once after each start of the process until it was  *)
(* done or tried too often. The attempt is counted before the work.        *)
(***************************************************************************)
FillerOnly == UNCHANGED <<setup, shard, lastDay, run, archived, monthly>>
Series ==
  LET days == {d \in Day : shard.day - Window < d /\ d <= shard.day - Lag}
      has(c) == {d \in days : \E l \in Lane : <<c, l>> \in Theirs[d]}
  IN  [c \in {x \in Card : has(x) # {}} |-> [d \in has(c) |->
         [l \in Lane |-> IF <<c, l>> \in Theirs[d] THEN <<"theirs", d>> ELSE NoReading]]]
StartBackfill ==
  /\ setup.backfill /\ fill.pc = "waits" /\ shard.day > 0
  /\ IF done \/ attempts + 1 > MaxAttempts
     THEN fill' = NotFilling /\ UNCHANGED attempts
     ELSE /\ fill' = [pc |-> "splice", series |-> Series, todo |-> DOMAIN Series]
          /\ attempts' = attempts + 1
  /\ FillerOnly /\ UNCHANGED <<rows, done, taken, troubles>>

SpliceHistories(c) ==
  /\ fill.pc = "splice" /\ c \in fill.todo
  /\ rows' = [rows EXCEPT ![c] = Spliced(@, fill.series[c])]
  /\ fill' = [fill EXCEPT !.todo = @ \ {c}]
  /\ FillerOnly /\ UNCHANGED <<done, attempts, taken, troubles>>

DoneEarly == fill.pc = "splice"                                   \* mutation
AllSpliced == fill.pc = "splice" /\ fill.todo = {}
BackfillDone ==
  /\ AllSpliced
  /\ done' = TRUE /\ taken' = fill.series
  /\ fill' = NotFilling
  /\ FillerOnly /\ UNCHANGED <<rows, attempts, troubles>>

BackfillFails ==
  /\ fill.pc = "splice" /\ troubles < MaxTroubles /\ troubles' = troubles + 1
  /\ fill' = NotFilling
  /\ FillerOnly /\ UNCHANGED <<rows, done, attempts, taken>>

-----------------------------------------------------------------------------
(***************************************************************************)
(* importMonthlyOnce: the stamp of the file, then its lines in batches. A  *)
(* file that is replaced meanwhile is read as it was or as it has become.  *)
(***************************************************************************)
ImporterOnly == UNCHANGED <<setup, daily>>
ReplaceFile ==
  /\ setup.monthly /\ file < Len(Versions)
  /\ file' = file + 1
  /\ ImporterOnly /\ UNCHANGED <<months, stamp, read, troubles>>
StatFile ==
  /\ read.pc = "idle" /\ file # 0 /\ stamp # file
  /\ read' = [NotReading EXCEPT !.pc = "open", !.stamp = file]
  /\ ImporterOnly /\ UNCHANGED <<months, file, stamp, troubles>>
OpenFile ==
  /\ read.pc = "open"
  /\ read' = [read EXCEPT !.pc = "lines", !.opened = file, !.todo = Card]
  /\ ImporterOnly /\ UNCHANGED <<months, file, stamp, troubles>>
PutMonthly(c, version) ==
  /\ read.pc = "lines" /\ c \in read.todo /\ version \in {read.opened, file}
  /\ months' = IF c \in Versions[version] THEN [months EXCEPT ![c] = version] ELSE months
  /\ read' = [read EXCEPT !.todo = @ \ {c}]
  /\ ImporterOnly /\ UNCHANGED <<file, stamp, troubles>>
StampBefore == read.stamp
MonthlyDone ==
  /\ read.pc = "lines" /\ read.todo = {}
  /\ stamp' = StampBefore
  /\ read' = NotReading
  /\ ImporterOnly /\ UNCHANGED <<months, file, troubles>>
ImportFails ==
  /\ read.pc # "idle" /\ troubles < MaxTroubles /\ troubles' = troubles + 1
  /\ read' = NotReading
  /\ ImporterOnly /\ UNCHANGED <<months, file, stamp>>

\* The process restarts, possibly right after the archiver purged.
Restart ==
  /\ troubles < MaxTroubles /\ troubles' = troubles + 1
  /\ rows' \in {rows} \cup (IF run.pc = "append" /\ run.todo = {} THEN {Purged} ELSE {})
  /\ run' = NotRunning /\ read' = NotReading
  /\ fill' = [NotFilling EXCEPT !.pc = "waits"]
  /\ UNCHANGED <<setup, shard, lastDay, done, attempts, archived, taken, months, file, stamp>>

Archiver == CheckManifest \/ FetchShard \/ (\E c \in Card : AppendDay(c)) \/ Finish
Backfill == StartBackfill \/ (\E c \in Card : SpliceHistories(c)) \/ BackfillDone
Importer == \/ StatFile \/ OpenFile \/ MonthlyDone
            \/ \E c \in Card, v \in DOMAIN Versions : PutMonthly(c, v)
Next ==
  \/ \E day \in Day : Publish(day)
  \/ Archiver \/ ArchiveFails
  \/ Backfill \/ BackfillFails
  \/ ReplaceFile \/ Importer \/ ImportFails
  \/ Restart
Spec == Init /\ [][Next]_vars
\* The jobs are on timers: each goes on and comes round again.
LiveSpec == Spec /\ WF_run(Archiver) /\ WF_fill(Backfill) /\ WF_read(Importer)

-----------------------------------------------------------------------------
(***************************************************************************)
(* Properties.                                                             *)
(***************************************************************************)
\* The lanes of a row are parallel, reach from its first day to its last day and
\* no further back than the retention.
TypeOK ==
  /\ \A c \in Card : LET row == rows[c] IN
       \/ row = NoRow
       \/ /\ row.last = row.start + RowLen(row) - 1 /\ RowLen(row) \in 1..Retention
          /\ \A l \in Lane : \/ Len(row.cells[l]) = RowLen(row)
                             \/ l \in FoilLane /\ row.cells[l] = <<>>
  /\ lastDay <= shard.day /\ attempts <= MaxAttempts

\* What is recorded stays recorded, as it was and under its own day, until it is
\* older than the archive goes back.
Recorded == {[card |-> c, lane |-> l, day |-> d, price |-> At(rows[c], l, d)] :
               c \in Card, l \in Lane, d \in Day}
Truth == {r \in [card : Card, lane : Lane, day : Day, price : {"ours", "theirs"} \X Day] : r.price[2] = r.day}
Book == INSTANCE PriceBook WITH True <- Truth, Keeps <- Retention,
                                book <- {r \in Recorded : r.price # NoReading}
KeepsBook == Book!Spec

Newest == Max({rows[c].last : c \in Card} \cup {lastDay})
TooOld(d) == d <= Newest - Retention

\* A day that counts as archived is there as we published it, card by card and
\* lane by lane, unless the backfill had written the card that day or later.
ArchivedIsThere == \A r \in archived :
  \/ TooOld(r.day)
  \/ At(rows[r.card], r.lane, r.day) = <<"ours", r.day>>
  \/ \E l \in Lane, d \in r.day..MaxDay : At(rows[r.card], l, d) = <<"theirs", d>>

\* "... what the archiver recorded from our own published shard is the
\* authoritative series, and a backfill only fills the holes around it"
\* (server/src/priceStore.ts:249). Does not hold: README, section 5.
OursIsAuthoritative == \A r \in archived :
  TooOld(r.day) \/ At(rows[r.card], r.lane, r.day) = <<"ours", r.day>>

\* A backfill that counts as done has filled every hole it could, through
\* failures, restarts and whatever the archiver did meanwhile.
FilledIsThere == \A c \in DOMAIN taken : \A d \in DOMAIN taken[c] : \A l \in Lane :
  taken[c][d][l] = NoReading \/ TooOld(d) \/ At(rows[c], l, d) # NoReading

\* A monthly file that counts as imported is in the table, whole.
ImportedIsThere == stamp = file => \A c \in Card : file = 0 \/ (c \in Versions[file] => months[c] = file)

\* What counts as done is there.
DoneIsThere == ArchivedIsThere /\ FilledIsThere /\ ImportedIsThere

\* The jobs get over every failure: in the end the archive has the last day that
\* was published and the last monthly file, and no backfill is half done.
CatchesUp == <>[](/\ lastDay = shard.day /\ stamp = file
                  /\ setup.backfill /\ shard.day > 0 => fill.pc = "idle")
=============================================================================
