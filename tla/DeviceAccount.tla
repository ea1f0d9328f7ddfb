---------------------------- MODULE DeviceAccount ----------------------------
(***************************************************************************)
(* Which account a device belongs to: signing in, joining, signing out and *)
(* deleting the account (client/src/account/session.ts), erasing or        *)
(* replacing what the device holds (db/userData.ts), and the sync loop of  *)
(* sync/engine.ts that goes on through all of it. One device, several      *)
(* accounts, and the other devices of each.                                *)
(*                                                                         *)
(* What one request does in detail is the subject of SyncFeed and          *)
(* SyncEngine. Here every answer is complete and none orders a reseed, the *)
(* clocks agree, and all that one push brings gets one number.             *)
(***************************************************************************)
EXTENDS Naturals, FiniteSets

CONSTANTS
  User,       \* the accounts
  Row,        \* rows of the synced tables
  Uncounted,  \* the rows signIn does not look at: history, folders, behaviors
  Nobody, NoState, Absent,
  MaxTime,    \* bound: writes, by anybody
  MaxLogins   \* bound: sign-ins and registrations

ASSUME AccountAssumption ==
  /\ Uncounted \subseteq Row
  /\ Nobody \notin User /\ {MaxTime, MaxLogins} \subseteq Nat

\* No state is none of the states, no change none of the changes.
ASSUME NoneAssumption ==
  /\ NoState \notin [account : User, cursor : Nat]
  /\ Absent \notin [ts : Nat, deleted : BOOLEAN]
  /\ Absent \notin [seq : Nat, ts : Nat, deleted : BOOLEAN]

VARIABLES
  server,   \* [User -> does it exist, the top of its feed, its rows]
  session,  \* the user of the device's accountSession
  state,    \* its syncState: account and cursor
  local,    \* [Row -> the stamp of the row in the tables, 0 if there is none]
  outbox,   \* [Row -> the staged change or Absent]
  flow,     \* the sign-in or deletion that is under way
  loop,     \* the sync loop: where it waits, and what it holds there
  now, logins,
  home,     \* history: [stamp -> the accounts what was written then may be in]
  trouble   \* history: "wipe", the tables were erased while the device had a
            \* state; "cut", joining was cut short halfway; "edit", a row was
            \* written between the last two steps of joining; "race", a loop
            \* went on over a join or a wipe; "overwrite", it saved over a new state

deviceVars == <<session, state, local, outbox>>
bounds == <<now, logins>>
history == <<home, trouble>>
vars == <<server, deviceVars, flow, loop, bounds, history>>

-----------------------------------------------------------------------------
Stamp == 1..MaxTime
NoAccount == [exists |-> FALSE, top |-> 0, rows |-> [r \in Row |-> Absent]]
NewAccount == [NoAccount EXCEPT !.exists = TRUE]
Empty == [r \in Row |-> 0]
NothingStaged == [r \in Row |-> Absent]
Staged == {r \in Row : outbox[r] # Absent}

\* A sign-in and a loop hold a token: the session's, one that was left behind
\* by a sign-out the server never heard of, or one that is dead.
NoFlow == [step |-> "none", user |-> Nobody, token |-> "dead", prior |-> NoState]
Resting == [pc |-> "idle", user |-> Nobody, token |-> "dead", cursor |-> 0, stale |-> FALSE,
            batch |-> NothingStaged, changes |-> NothingStaged]

Init ==
  /\ server \in [User -> {NoAccount, NewAccount}]
  /\ session = Nobody /\ state = NoState /\ local = Empty /\ outbox = NothingStaged
  /\ flow = NoFlow /\ loop = Resting
  /\ now = 0 /\ logins = 0
  /\ home = [t \in Stamp |-> {}] /\ trouble = {}

\* Whether the device has joined the account it is signed in to.
Joined == session # Nobody /\ state # NoState /\ state.account = session

-----------------------------------------------------------------------------
(***************************************************************************)
(* Signing in, one step per await. One of these flows goes on at a time;   *)
(* but the screen of a signed-in user is there as soon as the session is,  *)
(* and offers to sign out while the account is looked up and joined.       *)
(***************************************************************************)
Enters(u, step) ==
  /\ flow = NoFlow /\ session = Nobody
  /\ logins < MaxLogins /\ logins' = logins + 1
  /\ session' = u
  /\ flow' = [step |-> step, user |-> u, token |-> "current", prior |-> state]
  /\ UNCHANGED <<state, local, outbox, loop, now, history>>

\* A new account is empty by definition: this device seeds it.
SignUp(u) ==
  /\ ~server[u].exists /\ server' = [server EXCEPT ![u] = NewAccount]
  /\ Enters(u, "seed")

SignIn(u) == server[u].exists /\ Enters(u, "me") /\ UNCHANGED server

\* The account is looked up. The device goes on from its cursor, seeds an empty
\* account, joins with nothing of its own, or has the user asked first.
Resumes(f) == /\ f.prior # NoState /\ f.prior.account = f.user
              /\ 0 < f.prior.cursor /\ f.prior.cursor <= server[f.user].top
HasRows == \E r \in Row \ Uncounted : local[r] # 0
Joins(f) == CASE Resumes(f)             -> "none"
              [] server[f.user].top = 0 -> "seed"
              [] HasRows                -> "none"
              [] OTHER                  -> "pull"
Join(step, u) == [NoFlow EXCEPT !.step = step, !.user = u]
Me ==
  /\ flow.step = "me" /\ flow.token # "dead"
  /\ flow' = LET step == Joins(flow)
             IN  IF step = "none" THEN NoFlow ELSE Join(step, flow.user)
  /\ UNCHANGED <<server, deviceVars, loop, bounds, history>>
MeFails ==
  /\ flow.step = "me" /\ flow' = NoFlow
  /\ UNCHANGED <<server, deviceVars, loop, bounds, history>>

\* A loop that is under way at one of the next steps goes on over the join.
Overtakes == loop' = [loop EXCEPT !.stale = loop.pc # "idle"]

\* Where what is staged now may go: to the account the device belongs to,
\* signed in or not, and to the one it is about to join.
Homes == {u \in User : \/ state # NoState /\ u = state.account
                       \/ flow.step \in {"seed", "base"} /\ u = flow.user}

\* initSeedSync stages every row there is, and nothing else.
Seed ==
  /\ flow.step = "seed" /\ flow' = [flow EXCEPT !.step = "base"]
  /\ outbox' = [r \in Row |-> IF local[r] = 0 THEN Absent
                                              ELSE [ts |-> local[r], deleted |-> FALSE]]
  /\ home' = [t \in Stamp |-> IF \E r \in Row : local[r] = t THEN home[t] \cup Homes ELSE home[t]]
  /\ Overtakes
  /\ UNCHANGED <<server, session, state, local, bounds, trouble>>

\* initPullSync stages nothing.
StillStaged == outbox                                             \* mutation
Unstaged == NothingStaged
Pull ==
  /\ flow.step = "pull" /\ flow' = [flow EXCEPT !.step = "base"]
  /\ outbox' = Unstaged
  /\ Overtakes
  /\ UNCHANGED <<server, session, state, local, bounds, history>>

\* Either then records the account and cursor 0.
PriorKept(u) == [account |-> u,                                   \* mutation
                 cursor |-> IF state = NoState THEN 0 ELSE state.cursor]
BaseState(u) == [account |-> u, cursor |-> 0]
SaveBase ==
  /\ flow.step = "base" /\ flow' = NoFlow
  /\ state' = BaseState(flow.user)
  /\ trouble' = trouble \ {"wipe", "cut"}
  /\ Overtakes
  /\ UNCHANGED <<server, session, local, outbox, bounds, home>>

\* confirmReplaceWithAccount: what the device has is erased first.
ConfirmReplace ==
  /\ flow = NoFlow /\ session # Nobody /\ ~Joined
  /\ flow' = Join("pull", session)
  /\ local' = Empty /\ outbox' = NothingStaged
  /\ Overtakes
  /\ UNCHANGED <<server, session, state, bounds, history>>

\* The server revokes the token, unless it is out of reach; then the session goes,
\* at whatever step a flow is by that time. (What asks with a revoked token before
\* that fails, as any request may.) What the device holds stays, its cursor and
\* outbox included.
Given(holder, fate) == IF holder.token = "current" THEN [holder EXCEPT !.token = fate] ELSE holder
SignOut ==
  /\ session # Nobody
  /\ session' = Nobody
  /\ \E fate \in {"left", "dead"} : flow' = Given(flow, fate) /\ loop' = Given(loop, fate)
  /\ UNCHANGED <<server, state, local, outbox, bounds, history>>

\* The account goes, with its tokens and its feed; then the state, then what
\* was staged.
DeleteAccount ==
  /\ flow = NoFlow /\ session # Nobody
  /\ server' = [server EXCEPT ![session] = NoAccount]
  /\ session' = Nobody
  /\ loop' = IF loop.user = session THEN [loop EXCEPT !.token = "dead"] ELSE loop
  /\ flow' = [NoFlow EXCEPT !.step = "unstate"]
  /\ UNCHANGED <<state, local, outbox, bounds, history>>
ClearState ==
  /\ flow.step = "unstate" /\ flow' = [flow EXCEPT !.step = "unstage"]
  /\ state' = NoState
  /\ UNCHANGED <<server, session, local, outbox, loop, bounds, history>>
ClearOutbox ==
  /\ flow.step = "unstage" /\ flow' = NoFlow
  /\ outbox' = NothingStaged
  /\ UNCHANGED <<server, session, state, local, loop, bounds, history>>

-----------------------------------------------------------------------------
(***************************************************************************)
(* Writes, here and on the other devices of an account.                    *)
(***************************************************************************)
Writing == now < MaxTime /\ now' = now + 1 /\ UNCHANGED logins

\* putSynced, deleteSynced.
Edit(r, deleted) ==
  /\ Writing
  /\ deleted => local[r] # 0
  /\ local' = [local EXCEPT ![r] = IF deleted THEN 0 ELSE now']
  /\ outbox' = [outbox EXCEPT ![r] = [ts |-> now', deleted |-> deleted]]
  /\ home' = [home EXCEPT ![now'] = Homes]
  /\ trouble' = IF flow.step = "pull" THEN trouble \cup {"edit"} ELSE trouble
  /\ UNCHANGED <<server, session, state, flow, loop>>

OtherDevice(u, r, deleted) ==
  LET stored == server[u].rows[r]
      top == server[u].top + 1
  IN  /\ Writing
      /\ server[u].exists /\ (deleted => stored # Absent /\ ~stored.deleted)
      /\ server' = [server EXCEPT ![u].top = top,
           ![u].rows[r] = [seq |-> top, ts |-> now', deleted |-> deleted]]
      /\ home' = [home EXCEPT ![now'] = {u}]
      /\ UNCHANGED <<deviceVars, flow, loop, trouble>>

\* Signed out, the user erases all there is, or takes what another device
\* transfers to this one: nothing is staged, and the state stays as it is.
Unnoticed == trouble \cup {t \in {"wipe", "race"} :
                             state # NoState /\ (t = "race" => loop # Resting)}
Erase ==
  /\ flow = NoFlow /\ session = Nobody /\ (local # Empty \/ Staged # {})
  /\ local' = Empty /\ outbox' = NothingStaged
  /\ trouble' = Unnoticed
  /\ UNCHANGED <<server, session, state, flow, loop, bounds, home>>
Replace(r) ==
  /\ Writing
  /\ flow = NoFlow /\ session = Nobody
  /\ local' = [Empty EXCEPT ![r] = now'] /\ outbox' = NothingStaged
  /\ trouble' = Unnoticed
  /\ UNCHANGED <<server, session, state, flow, loop, home>>

-----------------------------------------------------------------------------
(***************************************************************************)
(* The sync loop. Account, cursor and batch are read in one step.          *)
(***************************************************************************)
Request(l, cursor) == [l EXCEPT !.pc = "sent", !.cursor = cursor, !.batch = outbox,
                                !.changes = NothingStaged]

\* It runs for the account the device has joined, with the token of the day.
MaySync == Joined
StartSync ==
  /\ loop.pc = "idle" /\ MaySync
  /\ loop' = Request([Resting EXCEPT !.user = session, !.token = "current"], state.cursor)
  /\ UNCHANGED <<server, deviceVars, flow, bounds, history>>

\* The server sends what is past the cursor, then takes what is newer than it
\* has and sends back what is not.
Wins(r) == LET stored == server[loop.user].rows[r]
           IN  loop.batch[r] # Absent /\ (stored # Absent => stored.ts < loop.batch[r].ts)
Serve ==
  LET u == loop.user
      won == {r \in Row : Wins(r)}
      top == server[u].top + (IF won = {} THEN 0 ELSE 1)
      sent == {r \in Row : server[u].rows[r] # Absent
                /\ (loop.cursor < server[u].rows[r].seq \/ (loop.batch[r] # Absent /\ r \notin won))}
  IN  /\ loop.pc = "sent" /\ loop.token # "dead"
      /\ server' = [server EXCEPT ![u].top = top, ![u].rows = [r \in Row |->
           IF r \in won THEN [seq |-> top, ts |-> loop.batch[r].ts, deleted |-> loop.batch[r].deleted]
           ELSE @[r]]]
      /\ loop' = [loop EXCEPT !.pc = "replied", !.cursor = top,
           !.changes = [r \in Row |-> IF r \in sent THEN server[u].rows[r] ELSE Absent]]
      /\ UNCHANGED <<deviceVars, flow, bounds, history>>

\* The request or the answer is lost, or the token is not good any more.
LoopFails ==
  /\ loop.pc \in {"sent", "replied"} /\ loop' = Resting
  /\ UNCHANGED <<server, deviceVars, flow, bounds, history>>

SameAccount == state # NoState /\ state.account = loop.user

\* What a loop does that joining has overtaken is trouble, and so is writing a
\* state over one that changed after the loop looked.
Late == loop.stale \/ flow.step = "pull"
Overwrites == loop.pc = "checked" /\ ~SameAccount
Raced == trouble' = trouble \cup {t \in {"race", "overwrite"} :
                      IF t = "race" THEN Late ELSE Overwrites}

Takes(r) == /\ loop.changes[r] # Absent
            /\ outbox[r] # Absent => outbox[r].ts <= loop.changes[r].ts
            /\ local[r] <= loop.changes[r].ts
ApplyServerChanges ==
  /\ loop.pc = "replied" /\ Raced
  /\ local' = [r \in Row |-> IF ~Takes(r) THEN local[r]
                             ELSE IF loop.changes[r].deleted THEN 0 ELSE loop.changes[r].ts]
  /\ outbox' = [r \in Row |-> IF Takes(r) THEN Absent ELSE outbox[r]]
  /\ loop' = [loop EXCEPT !.pc = "applied", !.changes = NothingStaged]
  /\ UNCHANGED <<server, session, state, flow, bounds, home>>

AckedAll(r) == loop.batch[r] # Absent                             \* mutation
Acked(r) == outbox[r] = loop.batch[r]
AckOutbox ==
  /\ loop.pc = "applied" /\ Raced
  /\ outbox' = [r \in Row |-> IF Acked(r) THEN Absent ELSE outbox[r]]
  /\ loop' = [loop EXCEPT !.pc = "acked", !.batch = NothingStaged]
  /\ UNCHANGED <<server, session, state, local, flow, bounds, home>>

\* A state that is gone by now, or another account's, is left alone.
CheckState ==
  /\ loop.pc = "acked"
  /\ loop' = IF SameAccount THEN [loop EXCEPT !.pc = "checked"] ELSE Resting
  /\ UNCHANGED <<server, deviceVars, flow, bounds, history>>

\* The cursor goes on record, and the loop goes round while anything is staged.
SaveState ==
  /\ loop.pc = "checked" /\ Raced
  /\ state' = [account |-> loop.user, cursor |-> loop.cursor]
  /\ loop' = IF Staged = {} THEN Resting ELSE Request(loop, loop.cursor)
  /\ UNCHANGED <<server, session, local, outbox, flow, bounds, home>>

\* The tab is closed; what was under way is not taken up again.
CloseTab ==
  /\ flow # NoFlow \/ loop # Resting
  /\ flow' = NoFlow /\ loop' = Resting
  /\ trouble' = IF flow.step \notin {"none", "me"} /\ state # NoState
                THEN trouble \cup {"cut"} ELSE trouble
  /\ UNCHANGED <<server, deviceVars, bounds, home>>

-----------------------------------------------------------------------------
SignInStep == Me \/ MeFails \/ Seed \/ Pull \/ SaveBase \/ ClearState \/ ClearOutbox
LoopStep == \/ StartSync \/ Serve \/ LoopFails \/ ApplyServerChanges \/ AckOutbox
            \/ CheckState \/ SaveState
Next == \/ \E u \in User : SignUp(u) \/ SignIn(u)
        \/ ConfirmReplace \/ SignOut \/ DeleteAccount \/ Erase \/ CloseTab
        \/ \E r \in Row : Replace(r)
        \/ \E r \in Row, deleted \in BOOLEAN :
             Edit(r, deleted) \/ \E u \in User : OtherDevice(u, r, deleted)
        \/ SignInStep \/ LoopStep

Spec == Init /\ [][Next]_vars

-----------------------------------------------------------------------------
(***************************************************************************)
(* Properties.                                                             *)
(***************************************************************************)
Change == [ts : Stamp, deleted : BOOLEAN]
TypeOK ==
  /\ session \in User \cup {Nobody}
  /\ state # NoState => state.account \in User /\ state.cursor \in Nat
  /\ local \in [Row -> 0..MaxTime] /\ outbox \in [Row -> Change \cup {Absent}]
  /\ flow.step \in {"none", "me", "seed", "pull", "base", "unstate", "unstage"}
  /\ {flow.token, loop.token} \subseteq {"current", "left", "dead"}
  /\ loop.pc \in {"idle", "sent", "replied", "applied", "acked", "checked"}
  /\ trouble \subseteq {"wipe", "cut", "edit", "race", "overwrite"}

\* What the tables hold of row r is what the account has, as far as the cursor
\* says that the device has heard of it and unless a write of its own waits.
Agrees(r) ==
  LET stored == server[state.account].rows[r]
  IN  outbox[r] = Absent /\ (stored # Absent => stored.seq <= state.cursor)
        => local[r] = IF stored = Absent \/ stored.deleted THEN 0 ELSE stored.ts
Settled == /\ state # NoState /\ server[state.account].exists
           /\ flow.step \in {"none", "me"}

\* A device that belongs to an account mirrors it through every sign-out,
\* switch and return, unless one of the troubles got in.
Mirrors == Settled /\ trouble = {} => \A r \in Row : Agrees(r)

\* "a local wipe would quietly fall out of sync. Sign out first"
\* (routes/Settings.tsx:926): signed out, and in again, it is in sync: of what
\* the device has been sent, nothing is missing.
WipesAreSafe ==
  Joined /\ flow = NoFlow /\ trouble \subseteq {"wipe"} =>
    \A r \in Row : LET stored == server[session].rows[r]
                  IN  outbox[r] = Absent /\ stored # Absent /\ ~stored.deleted
                        => state.cursor < stored.seq \/ local[r] # 0

\* What was written in one account gets into no other, except when the user
\* signs in to an empty one with it.
StaysApart == \A u \in User, r \in Row :
  LET stored == server[u].rows[r]
  IN  stored # Absent => u \in home[stored.ts]
KeptApart == TypeOK /\ ("overwrite" \in trouble \/ StaysApart)

\* A staged write goes only to the account the device belongs to, gives way to
\* a newer one there, or goes because the user gave up what the device had.
GivenUp == Seed \/ Pull \/ ConfirmReplace \/ ClearOutbox \/ Erase \/ \E r \in Row : Replace(r)
Arrived(r) == LET stored == server[state.account].rows[r]
              IN  stored # Absent /\ outbox[r].ts <= stored.ts
NothingLost ==
  [][\A r \in Row : outbox[r] # Absent /\ outbox'[r] = Absent =>
       \/ GivenUp \/ state = NoState \/ "race" \in trouble'
       \/ ~server[state.account].exists \/ Arrived(r)]_vars
=============================================================================
