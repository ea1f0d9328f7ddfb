# A verification of the protocols of mtg-app

The application manages a Magic card collection on the user's own devices. Its
rows live in each browser; a server keeps an account's devices in step through a
change feed, relays live trades and device transfers between two apps, and
archives prices; a bridge process lets an agent call the app's tools. This
directory models these parts in TLA+, checks them with TLC and proves with TLAPS
what the server's feed, the trade over the relay, the device transfer, the switch
of accounts, the undo history, the agent's bridge and the price archive keep in
every state.

    tlc -workers 2 -config Transfer.cfg MCDeviceTransfer    # one run
    tlapm SyncEngine_proofs.tla                             # one proof module

`PROJECT.json` lists the runs with their properties, for each property of a run a
mutation of the model that must break it, the source lines behind every
definition, the finding, the hazards and the theorems. Operators marked
`\* mutation` in a module are used by no action; they stand beside the
definition they are a wrong form of.

## 1. The system

| Part | State it keeps | Operations | Talks to |
| --- | --- | --- | --- |
| Account feed (`server/src/accountStore.ts`) | rows with stamps and sequence numbers, top number, pruned floor, a cursor per device, row count (SQLite) | `syncApply`, `pruneTombstones` | `POST /api/sync` |
| Sync engine (`client/src/sync`, `client/src/db/write.ts`) | synced tables, outbox, cursor and reseeding flag (IndexedDB); the running loop and its timers (memory) | local write, `syncNow`, `wipeForResync`, `applyServerChanges`, `ackOutbox`, repairs | the feed; other tabs by a Web Lock |
| Live notification (`server/src/syncHub.ts`) | subscribed sockets | subscribe, notify | engine sockets |
| Accounts and sign-in (`client/src/account`, `db/userData.ts`) | session, sync state | register, sign in (resume, seed, pull, ask), replace, sign out, delete, erase | server tokens, sync engine |
| Trade session (`server/src/session.ts`) | state, offers, accepted and confirmed flags, presence, disconnect timers (memory) | create, join, resume, offer, accept, unaccept, confirm, cancel, timers | the relay |
| Trade relay (`server/src/relay.ts`) | which socket holds which seat | one handler per message, socket close | session, both apps |
| Trade hook and board (`client/src/trade`, `routes/Trade.tsx`) | socket, seat and token, last snapshot, stored trade | begin, reconnect, buttons, `onMessage`, `reset` | relay, `applyCompletedTrade` |
| Device transfer (`server/src/transfer.ts`, `codeStore.ts`, `client/src/transfer`) | codes with two sockets, a quota per address; chunks sent, chunks received, a payload under review | join, begin, chunk, ack, cancel, export, verify, apply | relay, the other device |
| Agent bridge (`bridge/src`, `client/src/agent`) | one tab, pending calls; per tab one socket and a reconnect timer | hello, call, result, heartbeat, take-over | the tab, the agent |
| Collection writes and history (`client/src/db`, `client/src/history`) | rows of copies, wishes and slots, event log, redo stack | every writer, undo, redo | sync engine |
| Price archive (`server/src/priceStore.ts` and three jobs) | a row of daily cells per card, last day, what was done; the monthly table | append a day, splice a history, import a file, purge | providers' files |
| Card database, scanning, sealed, search, simulation, screens | caches, rows | mostly sequential transformations | - |

Behaviours that are hard here: every `await` of the sync loop admits local
edits, another device's sync, a lost request or reply, a sign-out and the end of
the tab; clocks of the devices differ; tombstones are forgotten after months;
builds of different age share one account; two people edit one table over
sockets that break, are replaced and close late; a completed trade must move
cards once on each side whatever happens to sockets, tabs and writes; a transfer
exports, hashes and writes in the background of a screen that may be left; two
tabs compete for one bridge; undo rewrites a past that later writes built on;
three jobs write one archive and are restarted at any point.

What makes each part correct:

* feed: a sequence no cursor runs past; the newest stamp wins and stays ahead
  of every cursor; a pruned row is one every live device has seen; the cap holds
  and is computed from an exact count.
* engine: the cursor tells the truth about the tables; no edit leaves the
  outbox unless the server holds it or something newer; quiet devices agree, by
  notifications and timers alone.
* accounts: what is written in one account gets into no other unasked; a device
  mirrors its account through every switch; no staged write is lost on the way.
* session: flags and state tell one story; no edit slips under a confirmation.
* relay and hook: at most one deal, written at most once by each side, and by
  each side in the end; a confirmation is for what its sender saw; a seat whose
  socket lives is held and heard; a sealed deal is not forgotten unwritten.
* transfer: a device's data is replaced by one whole snapshot or not at all; the
  screens say what is so; nobody is left waiting.
* bridge: every call is settled once, by the tab it was sent to; a tab that is
  wanted gets through; tabs do not fight.
* history: the cards are the sum of the entries that stand; what is offered for
  undo works; a trade counts once.
* prices: what was recorded stays; what counts as done is there; the jobs get
  over every failure.

## 2. Modules

| Module | Models | Extends |
| --- | --- | --- |
| `SyncFeed` | the server's tables for one account, one action per transaction | - |
| `SyncEngine` | the devices around the feed, one action per step between two awaits | `SyncFeed` |
| `SyncHistory` | the engine with a history variable, `had`, and the two properties that need it | `SyncEngine` |
| `SyncEngine_proofs` | proofs about the feed and the devices | `SyncHistory` |
| `SyncPush` | what starts their loops: timers, listeners, the notification socket | `SyncEngine` |
| `DeviceAccount` | which account one device belongs to, and its loop meanwhile | - |
| `DeviceAccount_proofs` | proofs about it | `DeviceAccount` |
| `TradeSession` | the server's session, one action per method | - |
| `TradeSession_proofs` | proofs about it | `TradeSession` |
| `TradeRelay` | both apps, the relay and its sockets around the session | `TradeSession` |
| `TradeRelay_proofs` | proofs about it, and that it implements `TradeAgreement` | `TradeRelay`, `TradeSession_proofs` |
| `TradeAgreement` | abstract: what a trade promises | - |
| `DeviceTransfer` | both apps, the relay and the codes of a transfer | - |
| `DeviceTransfer_proofs` | proofs about it, and that it implements `TransferPromise` | `DeviceTransfer` |
| `TransferPromise` | abstract: whole snapshots, once | - |
| `AgentBridge` | the hub, the tabs and their sockets | - |
| `AgentBridge_proofs` | proofs about it, and that it implements `CallPromise` | `AgentBridge` |
| `CallPromise` | abstract: a call is settled once, and in the end | - |
| `CardHistory` | rows, log, undo and redo of one card | - |
| `CardHistory_proofs` | proofs about it | `CardHistory` |
| `CardLedger` | abstract: the cards are the sum of the entries | - |
| `PriceStore` | the archive and its three jobs | - |
| `PriceStore_proofs` | proofs about it, and that it implements `PriceBook` | `PriceStore` |
| `PriceBook` | abstract: readings are added once, never changed | - |
| `MC...` | constants for TLC | the module of that name (`MCSyncEngine`: `SyncHistory`) |

`DeviceAccount` does not extend `SyncEngine`: what a request does in detail does
not depend on the account it is for, and what a switch of accounts does to a loop
does not depend on pages and reseeds. Each keeps the awaits the other needs.

### Account sync

`syncRows`, `maxSeq`, `prunedBelow`, `devices` and `usage` are the tables
`sync_rows`, `sync_seq`, `sync_prune`, `sync_devices` and `sync_usage`; `now` is
the server's clock. `SyncApply` is the whole of `syncApply` when it commits: the
resync decision (`MustResync`), the page (`Page`, `HasMore`), the clamp and
last-write-wins (`Clamped`, `Loses`), the numbering (`SeqFor`), the cap
(`OverCap`, which aborts the transaction), and the device's sighting
(`Touched`). `Reply` is the answer of the route.

`SyncEngine` gives each device its tables (`local`), `outbox`, `saved` (the
recorded `SyncState`), the build it runs (`updated`) and its loop: `pc` is the
await it stands at and `loop` what it holds in memory there.

| Action | Code |
| --- | --- |
| `Edit` | `putSynced`, `deleteSynced`: table and outbox in one transaction |
| `StartSync`, `Pass` | `syncNow` up to `api.sync` |
| `Serve`, `Refuse` | the route: answered, or 413 |
| `WipeForResync`, `SaveReset` | the `res.resync` branch, cut at its await |
| `BufferPage` | holding a page of a reseed |
| `ApplyServerChanges`, `AckOutbox`, `SaveState` | the three transactions that end a pass |
| `Abandon`, `ServeOrphan` | tab closed, request or reply lost, pass limit; a request arriving after its sender gave up |
| `Update` | a reload into a newer build and `runOneTimeRepairs` |
| `Leave`, `Prune` | months pass; maintenance |

A row's content is the moment of the edit that wrote it and the stamp the
device's clock put on it: enough to tell whether a device shows the right
version, and to let stamps tie or run backwards against real time.

`SyncPush` adds the two timers, the socket of each device and the messages on
their way to it, and splits the steps of `SyncEngine` by who starts them.

| Action | Code |
| --- | --- |
| `TimerFires`, `RetryFires`, `Return` | the debounce after an outbox change, the retry after a failure (or, for a device that was `Offline`, the `online` event), visible again |
| `Link`, `Unlink`, `Hear` | `ensureSocket`, the answer to `sync_sub`, `sync_notify` |
| `PushServe` | the route, followed by `notify` to the other devices |
| `SyncFails` | the catch of `syncNow` and the scheduled retry |
| `LoopGoesOn`, `PushEdit` | the other steps of the loop and local writes, watched by the live query on the outbox |

### Accounts

`session` and `state` are the two settings `accountSession` and `syncState`,
`flow` the sign-in or deletion that is under way (where it waits and what it
read before), `loop` a sync loop with the token it was started with. A token is
`current`, `left` (the server never heard of the sign-out) or `dead`.

| Action | Code |
| --- | --- |
| `SignUp`, `SignIn`, `Me`, `MeFails` | `signUp`, `signIn` and its look-up of the account |
| `Seed`, `Pull`, `SaveBase` | `initSeedSync`, `initPullSync`, cut at their awaits |
| `ConfirmReplace` | `confirmReplaceWithAccount` up to `initPullSync` |
| `SignOut`, `DeleteAccount`, `ClearState`, `ClearOutbox` | `signOut`, `deleteAccount` with `clearSyncState` |
| `Edit`, `OtherDevice` | local writes; writes of the account's other devices, already on the server |
| `Erase`, `Replace` | `deleteAllUserData` while signed out; the last write of a transfer |
| `StartSync` ... `SaveState`, `LoopFails`, `CloseTab` | the loop, cut where the account is looked at or written |

`home` remembers for each write which accounts it may be in. `trouble` collects
the known ways in which joining goes wrong (section 5); the properties say which
of them they exclude.

### Live trade

`session` is one entry of the `SessionStore`, or `NoSession`; a method that
throws changes nothing, so its condition is the action's guard. One side's offer
is a member of `Offer`. `grace` says that a disconnect timer is set.

In `TradeRelay` a socket is a record with its two queues, whether each end still
has it open (`open` the client, `served` the relay) and whether the relay has
given it a code and seat (`bound`, the `ctx` of the handler). `attached` is the
relay's map from seat to socket, `client` what the hook holds in refs and state,
`persisted` the stored `activeTrade`, `applying` a running write, `recorded` the
deals written to that side's collection. `sealed` and `saw` are history: the
deal the server completed, and the table each seat saw when it pressed the
confirm that counted.

| Action | Code |
| --- | --- |
| `BeginCreate`, `BeginJoin`, `BeginResume`, `RetryConnect`, `Reconnect` | `begin`, `create`, `join`, `resume`, `retryConnect`, `onclose`, all through `connect` |
| `Break`, `Quit` | the socket goes; the tab is closed or connecting called off |
| `PressOffer` ... `PressCancel` | the board's buttons, through `send` |
| `ClientReceive` | `onMessage`, `handleSnapshot` |
| `Commit`, `Fail`, `RetryApply` | `applyCompletedTrade` and `runApply` |
| `Reset` | "New trade" on a finished one |
| `Handle`, `Close` | the relay's message and close handlers |
| `Lapse`, `Expire` | the disconnect window; the removal timers |

The switches `Lossy`, `LostReplies`, `Timers`, `Failing`, `Impatient` and
`Overtaking` turn on one kind of trouble each, so that a run says under which
circumstances a property holds, and a finding which one it needs. `Impatient` is
a tap on a button before the answer to the last tap came back.

### Device transfer

`transfers`, `ipCounts` and `issued` are the relay's code store; a socket is a
record with its two queues and its two ends; `hook` is the state and the refs of
`useTransfer` on each device; `exporting`, `verifying` and `writing` are the
asynchronous pieces of work that outlive the render that began them. A chunk is a
snapshot and its number, so a mixture of two snapshots can be told.

| Action | Code |
| --- | --- |
| `StartSend`, `StartReceive`, `Reset`, `Leave`, `Apply` | the screen's buttons and leaving it, through `connect` and `closeSocket` |
| `OnCreated`, `OnPeerJoined`, `OnJoined`, `OnAck`, `OnBegin`, `OnChunk`, `OnCancelled`, `OnError`, `OnClose` | `onMessage` by type, and `onclose` |
| `ExportDone`, `ExportFails`, `VerifyDone`, `WriteDone`, `PartStays` or `RolledBack` | the background work coming to its end |
| `HandleCreate`, `HandleJoin`, `Forward`, `Close`, `Expire` | the relay's handlers, `removeCode`, the code's time |

### Agent bridge

`hub` is the tab the hub holds and its missed pings, `pending` its map of calls;
`tabs` is the module state of `agent/bridge.ts` per tab. A tab has two socket
places, one in use and one on its way out, and uses them again, so tabs reconnect
without end in a finite state space.

| Action | Code |
| --- | --- |
| `SwitchOn`, `SwitchOff`, `OtherPref`, `Reload` | the preference and its subscription, `ensureSocket`, `closeSocket` |
| `Opened`, `OnClose`, `TimerFires`, `Receive`, `CallDone` | the socket's events, the reconnect timer, `handleCall` |
| `OnMessage` (`Hello`, `Result`), `OnSocketClose`, `HelloDeadline` | the hub's handlers per socket |
| `Ask`, `CallTimesOut`, `Heartbeat`, `Stop`, `Start` | `callTool`, its timeout, the ping interval, the process |

### History

`rows` are the tables for one card in a few printings: owned and marked copies,
wishes, slots of the boards. `log` is the event table; an entry is the events of
one batch, one trade or one event alone. Each writer is one action with its
guard, what it does to the rows, the events it appends, and for slots the fold
into the last entry (`Step`). `Undo` and `Redo` share `Blocked`: a newer event on
a row they would write refuses them. A trade is delivered again at any time: the
row that says it was applied stops it, after an undo and a redo the row that redo
restores (`Restored`). `trouble` picks, at the start of a
behaviour, at most one thing the code does that the ledger cannot follow.

| Action | Code |
| --- | --- |
| `AddToCollection` ... `Import` | `db/collectionWrites.ts` |
| `AddToWishlist`, `SetWish`, `CorrectWish` | `db/wishlistWrites.ts` |
| `AddDeckCard`, `File`, `Step`, `TakeOut`, `Move`, `Rescan` | `db/slotWrites.ts` |
| `ApplyCompletedTrade` | `db/tradeWrites.ts` |
| `Undo`, `AskRedo`, `Redo`, `Reload` | `db/undo.ts`, `history/`; the stack is lost on a reload |

### Price archive

A row is parallel lanes of one cell a day; a foil lane that was never used is
empty. `run`, `fill` and `read` are the program counters of the three jobs and
what they hold in memory; `shard` and `file` are what the providers publish.

| Action | Code |
| --- | --- |
| `CheckManifest`, `FetchShard`, `AppendDay`, `Finish`, `ArchiveFails` | the archiver around `appendDay`, with its purge |
| `StartBackfill`, `SpliceHistories`, `AllSpliced`, `BackfillDone`, `BackfillFails` | the backfill around `spliceHistories` |
| `StatFile`, `OpenFile`, `PutMonthly`, `MonthlyDone`, `ImportFails` | the monthly import |
| `Publish`, `ReplaceFile`, `Restart` | the world |

## 3. The runs

All runs finish by themselves; none relies on a time limit. Deadlock is not
checked, since users may stop: editing is bounded, a trade ends.

| Run | Question | Result |
| --- | --- | --- |
| `SyncPrune` | `TypeOK`, `CursorTellsTruth`, `NoEditDropped` with lost requests and replies, tabs closed at every await, late requests, long absences, pruning and reseeds | holds |
| `SyncApart` | `CursorTellsTruth`, `NoEditDropped` and the feed's `Numbered`, `Counted`, `NewestWins` with a wrong clock, builds of different age and a row cap that refuses pushes | holds |
| `SyncLive` | `OutboxDrains`, `Converges`: one device edits, one listens and goes offline, everything fails now and then, nobody touches the screen | holds |
| `Account` | `KeptApart`, `Mirrors`, `NothingLost`: signing up, in, out, joining, deleting and switching while a loop goes on | holds |
| `AccountWipe` | `WipesAreSafe`: section 5 | violated |
| `TradePlain` | `FlagsMatchState`, `ConfirmedDealStands`, `ConfirmedAsSeen`: edits, acceptances and confirmations crossing on sockets that hold | holds |
| `TradeLossy` | `SeatHeld`, `Reached`, `SealedIsKept`, and `BothRecord` under fairness: broken sockets and closed tabs | holds |
| `TradeStorm` | `TypeOK`, `Agrees` with every kind of trouble of the network, the server and the write at once | holds |
| `Transfer` | `QuotaExact`, `Paced`, `ScreenTells`, `KeepsPromise`, `Settles`: broken sockets, time-outs, screens left, exports and writes that fail | holds |
| `Bridge` | `HubIsRight`, `KeepsPromise`, `Connects`, `ShowsTruth`, `NoFight`: two tabs, a hub that stops and returns, sockets that break unseen | holds |
| `Undo` | `OffersAreGood`, `KeepsLedger`, `TradeCountsOnce`, `RedoIsSafe`: every writer, undo of any entry, redo | holds |
| `Prices` | `TypeOK`, `DoneIsThere`, `KeepsBook`, `CatchesUp`: three jobs, failures and restarts between any two transactions | holds |

Five properties are refinements of the abstract modules, with a refinement
mapping each:

| Property | Implements | Mapping |
| --- | --- | --- |
| `TradeRelay!Agrees` | `TradeAgreement!Spec`: a deal is sealed once; a side writes that deal, once, or nothing | `sealed`, `recorded` as they are |
| `DeviceTransfer!KeepsPromise` | `TransferPromise!Spec`: data is replaced by one whole snapshot of a peer, once | the chunks of a payload are the snapshot |
| `AgentBridge!KeepsPromise` | `CallPromise!Spec` and `Settles` | `outcome`, `ran` as they are |
| `CardHistory!KeepsLedger` | `CardLedger!Next`: entries come, grow and go whole, and the counts with them | an entry is the sum of the events of one ref; a count sums rows of one kind |
| `PriceStore!KeepsBook` | `PriceBook!Spec`: readings are added for days that have none, never changed | a reading for each cell of each row |

`KeepsLedger` asks for a ledger step only while `trouble = "none"`: a behaviour
of `CardHistory` meets one trouble or none, and what each trouble does is told in
section 5. The other properties of `Undo` name their exceptions themselves.

### Bounds, and why they are enough

* Engine: two devices (a third adds no kind of interference: each only meets
  the feed), two rows for everything about pages, batches and order within them,
  three where one device must be blocked behind more than a page. Two or three
  edits (`Busy`, `MaxTime`): one to be overtaken, one to overtake and one in
  flight. One orphaned request. Pages of one row, so every second row is on a
  later page. `ReseedBuffer` 9 is never full; a buffer that is (twenty thousand
  changes in the code) has a finding of its own in section 5. `MaxTop` stops cutting loops short once the feed is past
  that number; both edits have been pushed by then.
* `SyncApart`: three rows. Row 1 is edited by both devices; row 2, of a table the
  other build does not know, only by `d1`, whose build is the newer one and whose
  clock is two ahead; row 3 only by `d2`. The cap is two rows, so the third to
  arrive is refused, and a push of two meets it in the middle.
* Ages: `TombstoneAge` 10 < `Gap` 15 < `DeviceActive` 20, in the order of the
  code's settings (thirty and sixty days): one gap ages a tombstone, two make a
  device idle. `SyncPrune` lets the users edit before and after an absence.
* `SyncLive`: one row edited twice by one device; the second edit comes at any
  await of the loop that pushes the first, which is what timers have to cover.
  `Roaming` are the devices that may be offline when `syncNow` is called: the
  listening one, which has to miss nothing by it. On the editing one an offline call
  is told from a request that fails only by the loop that does not start.
* `Account`: two accounts, one row, two writes by anybody, three sign-ins: into
  one account, into the other and back. The constraint `OneTrouble` ends a
  behaviour at the second of the troubles; each is explored with all that follows.
* Trade: one code, two people, an offer with or without cards; two or three
  sockets in all, so one reconnect, at any moment and on either side; every button
  as often as its bound says, two edits and two rounds of acceptance and
  confirmation where edits race them (so four accepts in `TradePlain`). `Spare`
  keeps a socket for everybody who has to reconnect, so the bound never strands
  anybody; `MaxPresses` and `Nonce` bound only what people do. One nonce also means that
  nobody enters the code twice, on which `SealedIsKept` depends (section 5).
* Transfer: one sender, one receiver, two chunks, so a first, a last and one of
  each in flight; two codes and three sockets, so one attempt follows another and
  meets its leftovers; a quota of one, so any leak of the counter shows.
* Bridge: two tabs, one call at a time in question, three acts of the user, two
  troubles. Sockets have no bound: places are used again.
* Undo: one card in two printings and as "any printing", two boards of a deck and
  a binder, one trade, two changes and two undos (redo as often as the stack
  allows), up to two copies in a row.
* Prices: two cards, two lanes (one of them foil), four days, a provider's window
  of two and a retention of two, so that what is spliced in front is already
  leaving; two versions of the monthly file; two failures or restarts.

What no bound shows is proved for the feed, the engine, the trade, the transfer, the
accounts, the bridge and the price archive (section 4).

### Fairness

`SyncPush!PushLiveSpec`: weak fairness of the timers and of the reconnecting
socket; strong fairness of answering, of the loop's next step and of hearing a
message, because each of them may be interrupted by losses again and again and is
tried again and again by a timer. Strong fairness says that such attempts do not
fail for ever; it says nothing of a user: `Return` is not fair. Fairness of
`RetryFires` says of an offline device that it is online at last.

`TradeRelay!LiveSpec` has weak fairness of delivery and close on each socket, of
reading, of the reconnect timer, of noticing a dead socket (the relay pings and
terminates, the browser reports close), and of a write coming to its end. No
button has to be pressed and no server timer has to go off. A person who closes
the app must come back and resume; `BothRecord` promises nothing to somebody who
does not.

`DeviceTransfer!LiveSpec`: weak fairness of what the system does by itself:
messages are read and answered, background work ends, a socket closed at one end
closes at the other. Breaking, time-outs and buttons are not fair.

`AgentBridge!LiveSpec`: weak fairness of each tab's timer and sockets, and of the
calls' time-out. The hub's heartbeat, a tool's end and the hub's return are not
assumed.

`PriceStore!LiveSpec`: weak fairness of each job, which is a timer of the
process; failures are bounded by `MaxTroubles`, so `CatchesUp` says that no
failure leaves the archive in a state from which the jobs do not recover.

## 4. What is proved

Of the feed, `SyncEngine_proofs` proves, for any rows, devices, page size, push
size, cap and ages, and for any request of any device:

* `FeedTypeCorrect`: the type of the tables;
* `FeedNumbered`: numbers are distinct, and no row, no recorded cursor and no
  pruned floor is above the top;
* `FeedCounted`: the row count kept by deltas is the number of rows, and stays
  within the cap;
* `FeedNewestWins`: the action property.

The inductive invariant `FeedInv` is the conjunction of the state properties.
They need each other: a batch is numbered by rank above `maxSeq`, so new numbers
are distinct from old ones only because those are bounded by it; the cursor of a
capped page is bounded because it is the number of a stored row; `UsageCapped`
follows from `OverCap` only if the count is exact. The argument rests on small
lemmas about ranks in finite sets of naturals (`RankBounds`, `RankIncreases`,
`RankDistinct`) and on greatest members (`GreatestExists`), which show that
`SeqFor` is injective and bounded and that `PageEnd` exists. `FeedSpec` lets a
device send any request at all, which is more than `SyncEngine` lets it send, so
the theorems carry over to every composition with the feed.

Of the devices around it, it proves, for any rows, devices, edits and clocks, any page and
push size, any cap and any size of the reseed buffer, and for any number of edits,
losses, crashes and late requests:

| Theorem | Of | Holds for |
| --- | --- | --- |
| `EngineInvariant`, `EngineTypeCorrect` | `EngineInv`, `TypeOK` | every setting |
| `EngineDropsNothing` | `NoEditDropped` | `Clocks`: pruning, reseeds and repairs included |
| `EngineTellsTruth` | `CursorTellsTruth` | `Clocks`, `~Pruning`: repairs and builds of any age included |

`Clocks` says that no device's clock is further ahead than the server puts up with
(`Skew[d] <= ClampAhead`, five minutes in the code). It is needed: section 5 has the
counterexample without it. `~Pruning` leaves out the months after which tombstones
are pruned; a device is then never told to start over. With pruning the property is
false in three ways that section 5 names, and `SyncPrune` checks what remains.

* `EngineInv` is `FeedInv` with what a loop holds at each of its awaits: the cursor it
  began with, the one it fetches from and the top of the feed are in this order, a
  batch is no longer than a push may be, and what is staged, read into a batch or
  still under way in an orphaned request was written on that device, under a stamp
  that tells the moment (`Wrote`), so of two writes of one device the later one never
  has the older stamp.
* `HadInv` says that everything a loop brings along is at most as new as what the
  server had: the answer and the buffer because they were stored, the batch because
  an answer without `hasMore` means that it was pushed and either taken or beaten.
  `Clocks` is what keeps the clamp from counting a write as older than it is.
* `TruthInv` takes `CursorTellsTruth` apart by where a change may be between the
  server and the tables. Between loops the tables agree with the cursor on record;
  once a page was applied they agree with the cursor that is about to be recorded
  (`BaseOK`, with `UnknownOK` for the tables a build does not know: the cursor stops
  short of them). What lies between the recorded cursor and the one fetched from is
  in the buffer (`HeldOK`), what lies between that one and the answer's is in the
  answer, unless this very request pushed it (`SentOK`). Whatever is in either place
  is the stored record or one that was overtaken since (`BufferOK`, `ReplyOK`). What
  was pushed is still staged, or a newer write of the row is (`StagedOK`), and the
  server has it or something newer, which the device hears of (`TookOK`): this is why
  the outbox may be cleared before the cursor moves. A reseed whose page was held
  back may bring the same row twice, so `BufferOK` says of each change in the buffer,
  not only of the newest, that it stems from what is stored.

  The steps of a device disturb its own part only; those of the server and of the
  other devices let records grow (`ServerGrows`), and one lemma says what growing
  leaves of each part. The arithmetic of stamps and numbers is in lemmas about one
  row. Dropping from `Yields` the look at the outbox, or from `NewCursor` the limit
  of the page, makes the proofs fail at the conjuncts that need them.

`TradeSession_proofs` proves, for any offers and any number of calls in any
order: `SessionTypeCorrect`, `SessionFlagsMatch` and `SessionDealStands`.
`FlagsMatchState` is not inductive: `join` sets the state to `paired` without
looking at it, which is harmless to the flags only because a seat nobody took has
nothing accepted. `UnjoinedUntouched` says so, and `SessionInv` adds it.

`TradeRelay_proofs` proves, for any cards and any number of sockets, presses and
joins:

| Theorem | Of | Holds for |
| --- | --- | --- |
| `RelayInvariant`, `RelayAgrees` (`Agrees` is a safety property, so this is all of it), `RelayTypeCorrect`, `RelayFlagsMatch`, `RelayDealStands` | `RelayInv`, `Agrees`, `TypeOK`, `FlagsMatchState`, `ConfirmedDealStands` | every setting of the switches |
| `RelayReaches` | `Reached` | `~Overtaking` |
| `RelaySeatHeld` | `SeatHeld` | `~LostReplies` |
| `RelaySealedKept` | `SealedIsKept` | `Steady`: no timer goes off, no cancels, "New trade" waits for the write, everybody enters the code once |
| `RelayConfirmedAsSeen` | `ConfirmedAsSeen` | `Unbroken`: sockets hold (`~Lossy`), and no button is tapped while its last tap goes on (`~Impatient`) |

The last four hypotheses are needed, `Steady` and `Unbroken` in each of their parts:
section 5 has the counterexamples without them. `RelayInv` says what makes one deal of many messages. An app has one open
socket, the newest of its own (`Sockets`). A request for a new session is the first
on its socket, unanswered, and sent by somebody who is not connected any more when
the code is shown, so a second session never replaces one that can be joined
(`Greetings`). Whatever message tells of completion tells of the deal that was
sealed (`Seals`), and whatever an app writes or keeps for writing again is that deal
(`Writes`). It is proved apart for the relay's handlers (`HandleInv`, from what a
handler does to the sockets: `HandleEffect`), the timers, the apps' sockets, buttons
and reading, and the writes. `TypeOK` bounds the number of sockets, which rests on a
count: whoever will have to connect again has a socket in reserve (`Reserve`), the
one place where a step of an app and `Spare` meet. The session's own theorems carry
over because every step of the relay is a step of the session or leaves it alone
(`SessionSteps`). `SeatHeld` needs to know that no seat is taken twice with one
nonce: one join is on its way for each, none that was answered (`JoinOnce`), and
whoever asked waits on the same socket until the answer is there (`Asks`). A lost
reply breaks exactly that.

`SealedIsKept` says of a seat only that its trade is stored or written once the
deal is sealed. Why it is stored then lies far back, so `KeptInv` follows it from
the seat being taken: whoever has the seat's token or anything of the trade on the
screen has it stored, and so has whoever sent an acceptance or a resume that is
still under way, or is told anything but the seat itself (`Fits`, `Calm`). So both
have it stored before the session accepts for them, and before it can seal
(`Pledged`). From then on nothing takes it away: no answer says the trade is gone,
because a socket is bound or its handshake still waits, and the one message that
could be refused, a second join, is never sent; and an app leaves the finished
trade only after its write (`ResetStored`). `Stored`, which is persisted or
written, is never undone (`Lasting`).

`ConfirmedAsSeen` is about the order of everything under way in both directions, and
`SeenInv` puts that order in words. With sockets that hold each person has one
socket as long as anything can still come of the trade (`Lone`, `Guest`; `Ended` says
when nothing can), and that socket is bound once its greeting was handled (`Meets`).
`Story` then follows what one seat is shown: the snapshot on its screen, those on
their way to it, and the session, in this order. An acceptance of its own under way
is the only one, and comes back as the first snapshot that says accepted. What says
accepted from some snapshot up to the session is one deal, which the seat did not
edit meanwhile. `Board` says that the table it works on is the one it was shown,
unless an edit of its own is under way. Hence `Affirms`: a confirmation under way
carries the table that lies there, unless the acceptance it completes is gone by
then, and the session ignores it. A second tap sends a confirmation
`Story` knows nothing of, and an edit lost with its socket breaks `Board`.

`DeviceTransfer_proofs` proves, for any devices, chunks, codes, sockets and, but for
the two theorems told of last, any setting of the switches: `TransferInvariant`, `TransferQuotaExact`,
`TransferOneWay`, `TransferWritesWhole`, and, for devices of which none both
sends and receives, `TransferKeepsPromise`. The quota is exact because a code is asked for only by the
first message of a socket (`Letters`), each code has the socket of its sender, and
the one action that removes a code lowers the counter with it (`Counted`, where
the codes still being asked for count against the bound on codes). That data is
replaced whole is an argument about one snapshot's way: a code is joined once, its
sender is told once and takes one snapshot for it (`OneSnapshot`); that snapshot
is announced once, by one message on one socket, then collected on one device,
checked there, reviewed and written, and each of these excludes the ones behind it
(`OneWay`). Since every socket, queue and piece of background work is quantified
over in it, most of the proof says which messages of interest a step leaves in a
queue (`Less`, `Kept`, `Calm`), and that a step of a hook which starts nothing new
disturbs none of it (`Mild`).

The hypothesis of `TransferKeepsPromise` is that no device sends and receives, as
in the run. Without it "of a peer" is false: a user who starts over while an export
goes on, makes a second code, starts over again and enters that code on the same
device gets the device's own snapshot back. `WrittenWhole`, which says the same of
any device's snapshot, is proved without it.

`TransferPaced` and `TransferScreenTells` need more: that nobody starts over while an
export or a check goes on (`~Hasty`), the second also that a closed socket says so at
once (`~LateClose`); section 5 has what happens otherwise. Neither property is
inductive, since neither says anything of a message before it matters. `PacedInv` says of
every message on its way which snapshot it is of and how far that one has come:
announcements and chunks are of the one snapshot taken for the code of their socket
(`Right`, `OneTaken`), a chunk comes after one that was acknowledged (`InPlace`), an
acknowledgment is of a chunk that was (`Known`). A socket has its code and role from its
first message on and for good (`FreshOK`, `CodesOK`), which is why what the relay
passes on is right at the other end too. A hook then sends only what is of its
socket's code, collects only what is of the code that was entered, and is on one side
only (`Sends`, `Enters`, `Receives`). `HookMovesKept` and `RelayPaced` say once what a
step of a hook, and of the relay, owes the rest; each action is then looked at for
what it posts or delivers. `NoneBehind`, for the screens, says that whatever is
open is what its hook has, in flight.

`DeviceAccount_proofs` proves, for any accounts and rows and any number of
writes and sign-ins: `AccountInvariant` and `AccountsKeptApart`. `StaysApart`
speaks of the server's rows. The invariant (`Apart`) says the same of every place
from which a change may get there: what is staged while the device belongs to the
account, what is staged while it is about to join one, and what a loop has read.
The step that matters is the loop's last: it may go on with what is staged only
because the state it looked at is still there, and that is what the trouble
"overwrite" excepts (the state is read and written in two awaits, section 5). The
argument needs that a new write has a time of its own, so types say that every
stamp in every table is one of `1..now`.

`AccountNothingLost` and `AccountMirrors` speak of a loop that goes on while the
device changes its account. For the first, `LoopInv` says that a loop which
nothing overtook runs for the account the device belongs to (`SameCourse`), that
an account in use is there, and that what a loop which was answered holds, sent or
received, the account has, or something newer (`Held`): its rows only get newer
(`Grows`). For the second, there are two cursors while a loop is under way, the
recorded one and the one it will record, and the tables may be ahead of the first.
`MirrorInv` says at each await which of the two the tables, what is staged and
what the account stores agree with: the answer brings what is news to the old
cursor and was not overwritten by the push (`AnswerOK`), what is about to leave
the outbox is what the account stores (`LetGoOK`), after that the tables agree
with the new cursor (`CursorOK`). A sign-in brings the parts `PullOK`, `BaseOK`
and `GoneOK`. The arithmetic of stamps and sequence numbers is in lemmas about one
row (`AgreesAs`, `StagedAs`, `AnswersAs`, `LetsGoAs`) that know nothing of the
state. `AccountMirrors` is for `Uncounted = {}`, as in the run; section 5 has what
happens otherwise. `AccountMirrorsCounted` needs no such hypothesis and speaks of
the rows that `signIn` counts.

`AgentBridge_proofs` proves, for any tabs and calls, and for any number of
reloads, toggles, stops and lost pings: `BridgeInvariant`, `BridgeHubIsRight`
and `BridgeImplementsPromise` (the safety half of `KeepsPromise`).
`HubSocketInUse` speaks of the hub's socket only and is not inductive; `InUse`
says of every socket that it is open or being opened only as the one its tab has
in use. What the hub may conclude from a message is in the types of the messages:
a call on its way is one that was asked, a result on its way is of a call whose
tool ran. Both sets only grow, so messages keep their types while they travel
(`TypesWiden`), which is all the refinement needs to know of the two queues: a
result that is waited for is `Promise!Answer`, `dropTab` is `Promise!Fail` of all
that is pending, and everything else is one of the other two actions or leaves
the agent's side alone.

`PriceStore_proofs` proves, for any cards, lanes, days, prices, window and
retention, and for any number of failures and restarts: `PriceInvariant`,
`PriceTypeCorrect`, `PriceKeepsBook` (`KeepsBook` is a safety property, so this is
all of it) and `PriceDoneIsThere`. Two ideas carry the first three. One is that a
row is what `At` reads of it: the lemmas `ReadAppended` and `ReadSpliced` say what
an append and a splice leave to be read on each day, after the padding, trimming
and cutting of lanes, and everything after them speaks of readings only. The other
is why a reading may go. `PriceBook` lets it go when the book has a reading so
much newer, so a row must not only reach to its last day but have a price there
(`Priced` in `ProperRow`), and the purge must leave a row of the day that is
archived: a card the archiver is done with has a row up to that day (`RunOK`),
whatever was spliced meanwhile, and something was published (`ReadingAssumption`).

`DoneIsThere` is not inductive: it excuses a reading that is older than the newest
row allows, and a purge may take the newest row. `Aged` excuses it by any row, and
`Stands` and `FilledUp` state the three promises with it. `LastingStep` shows once
that no step of any job ends what stands or is filled; then each job is looked at
alone, for the cards it is done with. That the archiver's own price of one lane
vouches for the other lanes of the day needs `Together`: they were written in one
transaction. An import must not be fooled by a file replaced between `StatFile` and
`OpenFile`; its stamp is from before (`Imports`).

`CardHistory_proofs` proves, for any copies, boards, containers and trades, any size
of the redo stack and any number of writes and undos:

| Theorem | Of | Excepts |
| --- | --- | --- |
| `HistoryInvariant` | `HistoryInv` | each part names its own |
| `HistoryOffersAreGood` | `OffersAreGood` | "hurry", "redelivered" |
| `HistoryTradeCountsOnce` | `TradeCountsOnce` | "hurry", "redelivered" |
| `HistoryRedoIsSafe` | `RedoIsSafe` | "fold" and "hurry", one each |

The exceptions stand in the properties, and section 5 has a counterexample for each.
The proofs speak of events only, never of rows. The idea is that a transaction has
a moment, and all it notes has that moment (`Notes` says what one writer may note;
a lemma for each writer shows that it does). In `HistoryInv`, `EntriesOK` says that
an entry is of one moment and that two entries of one moment share no row
(`Parted`): then a newer event on the same row is newer than the whole entry, so
the two ways of asking, by the newest event of an entry (`Offered`) and by any event
since its oldest (`Blocked`), agree, and the newest entry of all is never blocked.
Redo writes an entry again under its old ref, so `EntriesOK` must also say that a
grouped entry is on the stack or in the log, never both and never twice; for a trade
that takes what was written down (`trades`) and what was undone (`spoiled`). A redo
asked for is one that is on the stack (`StackOK`), each undone at a time of its own,
which is why it is put back once.

Assumptions of the theorems are the `ASSUME`s of the modules: rows are finitely
many numbers, bounds are naturals, stand-in values (`NoRow`, `NoSession`,
`NoReading`, `NoState`, `Absent`, `Nothing`) are none of the values they stand in
for, a nonce is not 0, a day that is published prices something. A theorem that
needs more says so itself, with ASSUME ... PROVE; these hypotheses are named
above, and the runs with these properties meet them.

Model-checked only:

* `CursorTellsTruth` with pruning and reseeds (`SyncPrune`): without the bounds of the
  run it is false;
* everything of `SyncPush`;
* `KeepsLedger`, with the type invariant: counts are sums over sets, and what undo
  and redo do to the rows goes through a fold over the events;
* liveness (`Converges`, `OutboxDrains`, `BothRecord`, `Settles` of the transfer
  and of the calls, `Connects`, `ShowsTruth`, `NoFight`, `CatchesUp`): the prover
  has neither fairness nor `ENABLED`. So would stay induction over data, and what
  a `RECURSIVE` operator computes; no module here declares one.

## 5. Findings, and where the properties stop

One run ends in a counterexample that contradicts a line of the repository.

| Run | What happens | Code | Said at |
| --- | --- | --- | --- |
| `AccountWipe` | signed out, the user erases the device; signing in to the same account resumes the old cursor over the empty tables, so the account's rows never come back to this device | session.ts:80 | Settings.tsx:926, "a local wipe would quietly fall out of sync. Sign out first" |

The other runs state the circumstances in which a property holds by their
switches and constants. The tables below name what happens outside them; where a
change to a configuration is given, TLC finds the counterexample with it.

### Sync

| Take | Change | Then fails | Because |
| --- | --- | --- | --- |
| `SyncPrune` | `Busy = {1, 2, 33}`, `MaxTop = 99`, `MaxOrphans = 0`, not `Lossy` | `ReseedLosesNothing` | an edit staged while the answer that orders a reseed is on its way is wiped with the outbox (engine.ts:331; :327 says nothing local is lost) |
| `SyncPrune` | `FirstHolds = FALSE`, `MaxOrphans = 0`, `Busy = {1, 2, 18}` | `CursorTellsTruth` | a device whose tab is closed between its first page and its first cursor keeps cursor 0, which `MustResync` takes for a new device: rows deleted and pruned since stay (accountStore.ts:479) |
| `SyncPrune` | `Repairs = TRUE`, `Gap = 25`, `MaxTime = 60`, `Modern = {}`, `Busy = {1, 2}`, `Row = {1}`, `MaxOrphans = 0`, not `Lossy` | `CursorTellsTruth` | a repair on a device below the pruned floor claims a reseed without the wipe; deleted rows stay (engine.ts:613) |
| `SyncPrune` | `ReseedBuffer = 1`, `Busy = {1, 2, 33}`, `MaxTime = 63`, `MaxOrphans = 0`, no symmetry, `Wrong = {d2}`, `Mine = {1, 2}` | `CursorTellsTruth` | a reseed too large for the buffer applies its pages as they come. Cut short and taken up again months later, it still claims to be a reseed, so the server does not order another one; what was deleted and pruned meanwhile stays (engine.ts:345, accountStore.ts:479) |
| `SyncApart` | `ClampAhead = 1` | `CursorTellsTruth` | the server clamps the stamp in its column, not in the row: a device whose clock is past the clamp keeps showing its own old row (engine.ts:174) |
| `SyncLive` | `Row = {1, 2}`, `LateRows = {2}`, `Modern = {d1}`, not `Lossy` | `Converges` | a device held behind a full page of a table it does not know gets no further, and misses what comes after (engine.ts:371) |

`Converges` excepts a device that ignored a notification because its loop, which
already had its last answer, still held the lock (engine.ts:481): it learns of
the change with the next one only. And a staged edit older than a tombstone that
was pruned meanwhile revives its row; the server has nothing left to compare it
with.

### Accounts

`Account` excepts five ways of joining an account that `trouble` names, each from
the property it breaks; without the exception TLC finds it.

* "race": a loop that was under way when the device joined another account
  applies its page without looking at the account (engine.ts:351), and its
  acknowledgement can drop rows just staged for the new account under equal
  stamps (:356).
* "overwrite": the state read at engine.ts:363 is written at :366 over whatever
  came between: the new account's, whose rows then come from the wrong cursor and
  may be pushed from one account to the other, or one that was deleted.
* "cut": a tab closed between `deleteAllUserData` or `initSeedSync` and the new
  state leaves the old cursor over other tables (session.ts:115, engine.ts:413).
* "edit": a write between the decision to pull and the emptying of the outbox
  stays in the tables and is never pushed (engine.ts:428).
* "wipe": the finding above, and the same with a transfer onto a signed-out device.

The constant `Uncounted` (empty in the run) holds rows `signIn` does not count,
history, folders and card behaviors: left over from one account, they stay under
the next, which is joined as if the device were empty (session.ts:93).

### Trade

| Take | Change | Then fails | Because |
| --- | --- | --- | --- |
| `TradePlain` | `Impatient = TRUE`, `Accepts = 4`, `Confirms = 1`, `Unaccepts = 0`, `Cancels = 0` | `ConfirmedAsSeen` | a second tap on the one button, sent as Confirm, meets the edited table (session.ts:155) |
| `TradePlain` | `Impatient = TRUE`, `Failing = TRUE` | `SealedIsKept` | "New trade" during the write, and the write fails (useTradeSession.ts:692) |
| `TradeLossy` | `Spec`, `Nonce = {1, 2}` | `SealedIsKept` | someone whose tab was closed after confirming enters the code again, which the page offers beside Resume (TradeHome.tsx:92): the refusal, "session full", forgets the stored trade (useTradeSession.ts:363), and so would a mistyped code |
| `TradePlain` | - | `EditTaken` | the board lets the creator edit before anybody joined, the server refuses it (session.ts:128; Trade.tsx:99, CHANGELOG.md:1929) |
| `TradePlain` | - | `CancelledIsFinal` | joining a cancelled trade opens it again (session.ts:80; "an active trade", :62) |
| `TradeLossy` | `Spec`, `Offers = 2`, `Confirms = 1` | `ConfirmedAsSeen` | an edit sent into a breaking socket is lost while the board goes on showing it (useTradeSession.ts:456) |
| `TradeLossy` | `Spec`, `LostReplies = TRUE` | `SeatHeld` | a join retried after its reply was lost leaves the disconnect window running (session.ts:73) |
| `TradeLossy` | `Spec`, `Overtaking = TRUE` | `Reached` | a resume held up on an abandoned socket takes the seat from the live one (relay.ts:350) |

A revived trade also breaks `SealedIsKept` (the canceller's app forgot it), hence
no cancels in `TradeLossy`; and so does an app that comes back after the session
was removed, which forgets a sealed, unwritten trade (useTradeSession.ts:363,
against :231), hence no timers there. An acceptance that crosses an edit counts
for the edited table, since no message names the table it is for
(session.ts:142): acceptance has no property of its own, only the confirmation
that follows it.

### Transfer, bridge

| Take | Change | Then fails | Because |
| --- | --- | --- | --- |
| `Transfer` | `Spec`, `Hasty = TRUE` | `ReviewIsOfCode` | an export or a check goes on when the user starts over, and what it posts or shows belongs to the attempt before (useTransfer.ts:133, :210) |
| `Transfer` | `Spec`, `Hasty = TRUE`, `MaxSockets = 4` | `SentHasArrived`, `AckPaced` | the same: an old export begins to send over the new connection (useTransfer.ts:142; shared/src/transfer.ts:8) |
| `Transfer` | `Spec`, `LateClose = TRUE` | `NothingBehind` | the close of an old socket fails the attempt after it, whose connection stays open behind the error (useTransfer.ts:264) |
| `Bridge` | `Spec` | `StaysAway` | any change of preferences forgives a replaced tab (bridge.ts:140; status.ts:9 says it stays quiet until re-enabled or reloaded) |

`NeverCorrupted` and `KeepsPromise` hold even with `Hasty`. `NoFight` survives
the forgiven tab, since that takes an act of the user each time.

### History

The six values of `Troubles` are what the code does that the ledger cannot
follow. The run has three of them. Were `KeepsLedger` to ask for a ledger step
always, it would break under the first four with the bounds of the run and under
"fold" with `MaxWrites = 3`.

| Trouble | What happens | Code |
| --- | --- | --- |
| "rekey" | correcting the printing or condition of a copy rekeys its rows without an event: undo of an older entry finds no row, and counts drift | collectionWrites.ts:96 |
| "printing" | a board holds two printings of a card: undo takes from the slot of another one than the entry put in | slotWrites.ts:818 |
| "overtaken" | redo of an entry whose foundation was undone elsewhere meanwhile, dropped from the stack, or is still above it, applies to rows that are not there | undo.ts:193 |
| "hurry" | Ctrl+Y pressed twice quickly puts one item back twice | useUndoShortcut.ts:61 |
| "fold" | a hand edit folds into an event from before a batch that touched the same slot, or into one that redo wrote, of which redo's guard sees nothing: copies appear from nowhere | slotWrites.ts:459 |
| "redelivered" | undoing a trade deletes the row that marks it as applied: delivered again while it is undone, it is applied again | tradeWrites.ts:74, undo.ts:143 |

`OffersAreGood` and `TradeCountsOnce` except "hurry" and "redelivered" (`Orderly`),
which have one entry written by two transactions: with three undos, and two or
three writes, undo is then offered for an entry that it refuses, since something
else came between the two halves. `RedoIsSafe` excepts two things: an item that is
put back twice in a "hurry", and the "fold" of a hand edit into what redo wrote
(three writes). Redo's guard passes over that event as its own, so the edit is a
later decision that redo does stack on. The theorems of section 4 have these
exceptions and no others. `OffersAgree`, that undo is offered exactly where it is
accepted (undoScope.ts:19), does not hold (`Undo`, `MaxWrites = 3`): an addition is
offered although the fulfilled wish noted with it has it refused. Also seen while
modelling, and faithful in the model: a wish for any printing that a trade fulfils
comes back from undo as a wish for the printing received; undoing a fulfilled wish
that stands alone lists it twice; and taking a trade's cards out of their decks is a
batch of its own.

### Prices

| Take | Change | Then fails | Because |
| --- | --- | --- | --- |
| `Prices` | `Spec` | `OursIsAuthoritative` | where the backfill has written a card's row up to a day or past it, `appendDay` leaves the row as it is: for that card our own price of the day is not taken (priceStore.ts:206, against :249) |

A printing that a newer monthly file leaves out keeps its old row
(priceStore.ts:346); `ImportedIsThere` speaks of the printings in the file.

## 6. Not modelled, and why

* Byte sizes, the byte cap, oversized rows; published lists; rate limits. They
  refuse a request as the row cap does.
* Sanitizers, of rows, offers, tools and frames: taken to keep what the
  properties look at. Frames that only another program would send.
* A second tab of one browser: it shares tables and the Web Lock, so its loops
  exclude the first one's, and its edits are edits. The repairs, which run
  outside the lock (engine.ts:607), are modelled for one tab.
* Passwords, invites; tokens that expire or are revoked, after which the engine stops
  until the user signs in again (engine.ts:384); a second sign-in begun before the first is
  done; the buttons that replace or delete, pressed while the account is being
  looked up; an account that was deleted, created anew and filled up to the old
  cursor. How seeding is cut into batches.
* Trade identities (`self_join`), usernames, peer presence, tradelist and
  wishlist exchange: display only, except `self_join`, which refuses a join.
  The end of reconnecting after ten attempts: the same as leaving the app. Solo
  trades, which never reach the relay. A second trade begun over a stored one. An
  app that is told its session is gone and one that never had any are both `Off`:
  what the screen says of it, and buttons pressed on it, which send nothing
  (useTradeSession.ts:456), are left out.
* Codes that are drawn twice; lengths of delays.
* The tools of the agent bridge and their manifest.
* In the history: special conditions, the companion, basics of any printing,
  tags, prices, receipts, deleted decks, and rows that another device changes. A
  slot that adopts a printing which another slot of the board names already is a
  second row of that printing (slotWrites.ts:139); `File` counts the two as one.
  The redo limit of 50 is modelled, but two undos do not reach the run's limit.
* Downloading and parsing price files, statistics, reading the archive; the forced
  backfill (`PRICE_BACKFILL_FORCE`), which repeats one that is done.
* Simulation of decks, card behavior grammar, card parsing, scanning, search,
  sealed products, card data, imports and exports, screens: sequential, numeric
  or textual, and most of the source by size. A model of them would restate
  their text line by line; they have no interleavings, failures or protocols
  that a model checker explores better than the unit tests that are there. This
  is why the models cover a small share of the repository's lines.

## 7. Plan

Done: every protocol above modelled and checked, each with an abstract specification
where one says more than invariants do; all of these specifications but
`CardLedger`, and most invariants, proved.

1. Proofs: `CursorTellsTruth` with pruning, for devices that get through their first
   sync and reseeds that fit the buffer; that the history implements `CardLedger`.
2. The interrupted update of the card database (content-addressed chunks);
   `canPay` of the simulation against its definition; allocation of copies to
   decks by the ownership index against a matching.
