------------------------ MODULE DeviceAccount_proofs ------------------------
(***************************************************************************)
(* For any accounts and rows: what was written in one account gets into no *)
(* other (KeptApart), no write is lost on its way (NothingLost), and a     *)
(* device has of its account what it has been told it has (Mirrors).       *)
(*                                                                         *)
(* A change may go into an account from four places: it is there, it is    *)
(* staged while the device belongs to the account, it is staged while the  *)
(* device is about to join it, or a loop that runs for it has read it.     *)
(***************************************************************************)
EXTENDS DeviceAccount, TLAPS

Written == 1..now
Staging == [Row -> [ts : Written, deleted : BOOLEAN] \cup {Absent}]
Table == [Row -> [seq : Nat, ts : Written, deleted : BOOLEAN] \cup {Absent}]
Account == [exists : BOOLEAN, top : Nat, rows : Table]
State == [account : User, cursor : Nat] \cup {NoState}
Token == {"current", "left", "dead"}
Joining == {"me", "seed", "pull", "base"}
Flow == [step : {"none", "unstate", "unstage"} \cup Joining, user : User \cup {Nobody},
         token : Token, prior : State]
Loop == [pc : {"idle", "sent", "replied", "applied", "acked", "checked"}, user : User \cup {Nobody},
         token : Token, cursor : Nat, stale : BOOLEAN, batch : Staging, changes : Table]

TimeTyped == now \in 0..MaxTime /\ home \in [Stamp -> SUBSET User]
ServerTyped == server \in [User -> Account]
DeviceTyped == /\ session \in User \cup {Nobody} /\ state \in State
               /\ local \in [Row -> 0..now] /\ outbox \in Staging
FlowTyped == flow \in Flow /\ (flow.step \in Joining => flow.user \in User)
LoopTyped == loop \in Loop /\ (loop.pc # "idle" => loop.user \in User)
TroubleTyped == trouble \subseteq {"wipe", "cut", "edit", "race", "overwrite"}
TypeInv == TimeTyped /\ ServerTyped /\ DeviceTyped /\ FlowTyped /\ LoopTyped /\ TroubleTyped

MayGoTo(u, staging) == \A r \in Row : staging[r] # Absent => u \in home[staging[r].ts]
StagedForState == state # NoState => MayGoTo(state.account, outbox)
StagedForFlow == flow.step = "base" => MayGoTo(flow.user, outbox)
ReadForLoop == MayGoTo(loop.user, loop.batch)
Apart == StaysApart /\ StagedForState /\ StagedForFlow /\ ReadForLoop

AccountInv == TypeInv /\ ("overwrite" \in trouble \/ Apart)

-----------------------------------------------------------------------------
(***************************************************************************)
(* Types.                                                                  *)
(***************************************************************************)
\* What is typed stays typed while the clock goes on.
LEMMA TypesWiden ==
  ASSUME now \in Nat, now' \in Nat, now <= now'
  PROVE  /\ Written \subseteq Written' /\ 0..now \subseteq (0..now)' /\ Staging \subseteq Staging'
         /\ Table \subseteq Table' /\ Account \subseteq Account' /\ Loop \subseteq Loop'
<1>1. Written \subseteq Written' /\ 0..now \subseteq (0..now)'
  BY DEF Written
<1>2. Staging \subseteq Staging' /\ Table \subseteq Table'
  BY <1>1 DEF Staging, Table
<1>3. Account \subseteq Account' /\ Loop \subseteq Loop'
  BY <1>2 DEF Account, Loop
<1> QED BY <1>1, <1>2, <1>3

\* They do not depend on anything else.
LEMMA TypesSame ==
  ASSUME UNCHANGED now
  PROVE  /\ Written' = Written /\ (0..now)' = 0..now /\ Staging' = Staging
         /\ Table' = Table /\ Account' = Account /\ Loop' = Loop
BY DEF Written, Staging, Table, Account, Loop

\* So what an action leaves alone stays typed.
LEMMA TimeSame == ASSUME TimeTyped, UNCHANGED <<now, home>> PROVE TimeTyped'
  BY DEF TimeTyped
\* The server's tables.
LEMMA ServerSame == ASSUME ServerTyped, UNCHANGED <<now, server>> PROVE ServerTyped'
  BY TypesSame DEF ServerTyped
\* The device's tables, its session and its state.
LEMMA DeviceSame == ASSUME DeviceTyped, UNCHANGED <<now, deviceVars>> PROVE DeviceTyped'
  BY TypesSame DEF DeviceTyped, deviceVars
\* The sign-in.
LEMMA FlowSame == ASSUME FlowTyped, UNCHANGED flow PROVE FlowTyped'
  BY DEF FlowTyped, Flow, Joining, Token, State
\* The loop.
LEMMA LoopSame == ASSUME LoopTyped, UNCHANGED <<now, loop>> PROVE LoopTyped'
  BY TypesSame DEF LoopTyped

\* Nothing staged, nothing changed, no flow and no loop are well-typed.
LEMMA NothingTyped ==
  /\ NothingStaged \in Staging /\ NothingStaged \in Table /\ NoState \in State
  /\ NoFlow \in Flow /\ Resting \in Loop /\ NoAccount \in Account /\ NewAccount \in Account
  /\ now \in Nat => Empty \in [Row -> 0..now]
<1>1. NothingStaged \in Staging /\ NothingStaged \in Table /\ NoState \in State
  BY DEF NothingStaged, Staging, Table, State
<1>2. NoFlow \in Flow
  BY <1>1 DEF NoFlow, Flow, Token
<1>3. Resting \in Loop
  BY <1>1 DEF Resting, Loop, Token
<1>4. NoAccount \in Account
  BY <1>1 DEF NoAccount, Account, NothingStaged
<1>5. NewAccount \in Account
  BY <1>4 DEF NewAccount, Account
<1>6. now \in Nat => Empty \in [Row -> 0..now]
  BY DEF Empty
<1> QED BY <1>1, <1>2, <1>3, <1>4, <1>5, <1>6

\* A join that is under way, and a token that is given up.
LEMMA JoinTyped ==
  ASSUME NEW u \in User, NEW step \in Joining
  PROVE  Join(step, u) \in Flow /\ Join(step, u).user = u
BY NothingTyped DEF Join, NoFlow, Flow

-----------------------------------------------------------------------------
(***************************************************************************)
(* Every action keeps the types.                                           *)
(***************************************************************************)
\* Signing in, and looking the account up.
LEMMA SignInTyped ==
  ASSUME TypeInv, (\E u \in User : SignUp(u) \/ SignIn(u)) \/ Me \/ MeFails
  PROVE  TypeInv'
<1>1. UNCHANGED <<now, home, deviceVars, trouble>> \/ \E u \in User : session' = u /\ UNCHANGED <<now, home, state, local, outbox, trouble>>
  BY DEF SignUp, SignIn, Enters, Me, MeFails, deviceVars, bounds, history
<1>2. TimeTyped' /\ TroubleTyped' /\ DeviceTyped' /\ UNCHANGED now
  BY <1>1, TypesSame DEF TypeInv, TimeTyped, TroubleTyped, DeviceTyped, deviceVars
<1>3. LoopTyped'
  <2>1. UNCHANGED loop
    BY DEF SignUp, SignIn, Enters, Me, MeFails
  <2> QED BY <1>2, <2>1, LoopSame DEF TypeInv
<1>4. ServerTyped'
  <2>1. ASSUME NEW u \in User, SignUp(u) PROVE server' \in [User -> Account]
    BY <2>1, NothingTyped DEF SignUp, TypeInv, ServerTyped
  <2>2. UNCHANGED server \/ \E u \in User : SignUp(u)
    BY DEF SignIn, Me, MeFails
  <2> QED BY <1>2, <2>1, <2>2, TypesSame DEF TypeInv, ServerTyped
<1>5. FlowTyped'
  <2>1. ASSUME NEW u \in User, NEW step \in {"seed", "me"}, Enters(u, step) PROVE FlowTyped'
    <3>1. flow' = [step |-> step, user |-> u, token |-> "current", prior |-> state]
      BY <2>1 DEF Enters
    <3>2. state \in State
      BY DEF TypeInv, DeviceTyped
    <3> QED BY <3>1, <3>2 DEF FlowTyped, Flow, Joining, Token, State
  <2>2. ASSUME flow' = NoFlow PROVE FlowTyped'
    BY <2>2, NothingTyped DEF FlowTyped, Flow, NoFlow, Joining, Token, State
  <2>3. ASSUME NEW step \in {"seed", "pull"}, flow.step = "me", flow' = Join(step, flow.user)
        PROVE  FlowTyped'
    <3>1. flow.user \in User /\ step \in Joining
      BY <2>3 DEF TypeInv, FlowTyped, Joining
    <3> QED BY <2>3, <3>1, JoinTyped DEF FlowTyped, Flow, Joining, Token, State
  <2>4. ASSUME Me PROVE FlowTyped'
    <3>1. Joins(flow) \in {"none", "seed", "pull"}
      BY DEF Joins
    <3> QED BY <2>2, <2>3, <2>4, <3>1 DEF Me
  <2>5. MeFails => flow' = NoFlow
    BY DEF MeFails
  <2>6. \A u \in User : /\ SignUp(u) => Enters(u, "seed")
                        /\ SignIn(u) => Enters(u, "me")
    BY DEF SignUp, SignIn
  <2> QED BY <2>1, <2>2, <2>4, <2>5, <2>6
<1> QED BY <1>2, <1>3, <1>4, <1>5 DEF TypeInv

\* A loop that is overtaken.
LEMMA OvertakesTyped == ASSUME LoopTyped, Overtakes, UNCHANGED now PROVE LoopTyped'
<1>1. loop' \in Loop /\ loop'.pc = loop.pc /\ loop'.user = loop.user
  BY DEF Overtakes, LoopTyped, Loop
<1> QED BY <1>1, TypesSame DEF LoopTyped

\* A flow that goes on to its next step or ends.
LEMMA StepsTyped ==
  ASSUME FlowTyped, NEW step, flow' = [flow EXCEPT !.step = step],
         step \in {"none", "unstate", "unstage"} \/ (step \in Joining /\ flow.step \in Joining)
  PROVE  FlowTyped'
BY DEF FlowTyped, Flow, Joining, Token, State
\* A flow that is over.
LEMMA EndsTyped == ASSUME flow' = NoFlow PROVE FlowTyped'
  BY NothingTyped DEF FlowTyped, Flow, NoFlow, Joining, Token, State

\* Joining.
LEMMA SeedTyped == ASSUME TypeInv, Seed PROVE TypeInv'
<1> USE DEF TypeInv
<1>1. UNCHANGED <<server, session, state, local, now, trouble>> /\ Overtakes
  BY DEF Seed, bounds
<1>2. FlowTyped'
  BY StepsTyped DEF Seed, Joining
<1>3. DeviceTyped'
  <2>1. ASSUME NEW r \in Row, local[r] # 0
        PROVE  [ts |-> local[r], deleted |-> FALSE] \in [ts : Written, deleted : BOOLEAN]
    BY <2>1 DEF DeviceTyped, TimeTyped, Written
  <2>2. outbox' = [r \in Row |-> IF local[r] = 0 THEN Absent ELSE [ts |-> local[r], deleted |-> FALSE]]
    BY DEF Seed
  <2>3. outbox' \in Staging
    BY <2>1, <2>2 DEF Staging
  <2> QED BY <1>1, <2>3, TypesSame DEF DeviceTyped
<1>4. TimeTyped'
  <2>1. Homes \in SUBSET User
    BY DEF Homes
  <2>2. home' \in [Stamp -> SUBSET User]
    BY <2>1 DEF Seed, TimeTyped
  <2> QED BY <1>1, <2>2 DEF TimeTyped
<1>5. ServerTyped' /\ LoopTyped' /\ TroubleTyped'
  BY <1>1, ServerSame, OvertakesTyped DEF TroubleTyped
<1> QED BY <1>2, <1>3, <1>4, <1>5

\* Joining with nothing staged.
LEMMA PullTyped == ASSUME TypeInv, Pull PROVE TypeInv'
<1> USE DEF TypeInv
<1>1. UNCHANGED <<server, session, state, local, now, home, trouble>> /\ Overtakes
  BY DEF Pull, bounds, history
<1>2. FlowTyped'
  BY StepsTyped DEF Pull, Joining
<1>3. DeviceTyped'
  BY <1>1, NothingTyped, TypesSame DEF Pull, Unstaged, DeviceTyped
<1>4. TimeTyped' /\ ServerTyped' /\ LoopTyped' /\ TroubleTyped'
  BY <1>1, TimeSame, ServerSame, OvertakesTyped DEF TroubleTyped
<1> QED BY <1>2, <1>3, <1>4

\* The account and cursor 0 are recorded.
LEMMA SaveBaseTyped == ASSUME TypeInv, SaveBase PROVE TypeInv'
<1> USE DEF TypeInv
<1>1. UNCHANGED <<server, session, local, outbox, now, home>> /\ Overtakes /\ flow' = NoFlow
  BY DEF SaveBase, bounds
<1>2. DeviceTyped'
  <2>1. flow.user \in User
    BY DEF SaveBase, FlowTyped, Joining
  <2>2. state' \in State
    BY <2>1 DEF SaveBase, BaseState, State
  <2> QED BY <1>1, <2>2, TypesSame DEF DeviceTyped
<1>3. TroubleTyped'
  BY DEF SaveBase, TroubleTyped
<1>4. TimeTyped' /\ ServerTyped' /\ LoopTyped' /\ FlowTyped'
  BY <1>1, TimeSame, ServerSame, OvertakesTyped, EndsTyped
<1> QED BY <1>2, <1>3, <1>4

\* The user has the device's rows replaced.
LEMMA ConfirmReplaceTyped == ASSUME TypeInv, ConfirmReplace PROVE TypeInv'
<1> USE DEF TypeInv
<1>1. UNCHANGED <<server, session, state, now, home, trouble>> /\ Overtakes
  BY DEF ConfirmReplace, bounds, history
<1>2. FlowTyped'
  <2>1. session \in User /\ flow' = Join("pull", session)
    BY DEF ConfirmReplace, DeviceTyped
  <2> QED BY <2>1, JoinTyped DEF FlowTyped, Flow, Joining, Token, State
<1>3. DeviceTyped'
  <2>1. outbox' = NothingStaged /\ local' = Empty /\ now \in Nat
    BY DEF ConfirmReplace, TimeTyped
  <2> QED BY <1>1, <2>1, NothingTyped, TypesSame DEF DeviceTyped
<1>4. TimeTyped' /\ ServerTyped' /\ LoopTyped' /\ TroubleTyped'
  BY <1>1, TimeSame, ServerSame, OvertakesTyped DEF TroubleTyped
<1> QED BY <1>2, <1>3, <1>4

\* Signing out, and deleting the account.
LEMMA SignOutTyped == ASSUME TypeInv, SignOut PROVE TypeInv'
<1> USE DEF TypeInv
<1>1. UNCHANGED <<server, state, local, outbox, now, home, trouble>> /\ session' = Nobody
  BY DEF SignOut, bounds, history
<1>2. PICK fate \in {"left", "dead"} : flow' = Given(flow, fate) /\ loop' = Given(loop, fate)
  BY DEF SignOut
<1>3. FlowTyped'
  BY <1>2 DEF Given, FlowTyped, Flow, Joining, Token, State
<1>4. LoopTyped'
  <2>1. loop' \in Loop /\ loop'.pc = loop.pc /\ loop'.user = loop.user
    BY <1>2 DEF Given, LoopTyped, Loop, Token
  <2> QED BY <1>1, <2>1, TypesSame DEF LoopTyped
<1>5. DeviceTyped'
  BY <1>1, TypesSame DEF DeviceTyped
<1> QED BY <1>1, <1>3, <1>4, <1>5, TimeSame, ServerSame DEF TroubleTyped

\* Deleting the account.
LEMMA DeleteAccountTyped == ASSUME TypeInv, DeleteAccount PROVE TypeInv'
<1> USE DEF TypeInv
<1>1. UNCHANGED <<state, local, outbox, now, home, trouble>> /\ session' = Nobody
  BY DEF DeleteAccount, bounds, history
<1>2. ServerTyped'
  BY <1>1, NothingTyped, TypesSame DEF DeleteAccount, ServerTyped
<1>3. FlowTyped'
  BY NothingTyped DEF DeleteAccount, FlowTyped, NoFlow, Flow, Joining, Token, State
<1>4. LoopTyped'
  <2>1. loop' \in Loop /\ loop'.pc = loop.pc /\ loop'.user = loop.user
    BY DEF DeleteAccount, LoopTyped, Loop, Token
  <2> QED BY <1>1, <2>1, TypesSame DEF LoopTyped
<1>5. DeviceTyped'
  BY <1>1, TypesSame DEF DeviceTyped
<1> QED BY <1>1, <1>2, <1>3, <1>4, <1>5, TimeSame DEF TroubleTyped

\* What the device knows of it goes too.
LEMMA ClearTyped == ASSUME TypeInv, ClearState \/ ClearOutbox PROVE TypeInv'
<1> USE DEF TypeInv
<1>1. UNCHANGED <<server, session, local, loop, now, home, trouble>>
  BY DEF ClearState, ClearOutbox, bounds, history
<1>2. state' \in {state, NoState} /\ outbox' \in {outbox, NothingStaged}
  BY DEF ClearState, ClearOutbox
<1>3. DeviceTyped'
  BY <1>1, <1>2, NothingTyped, TypesSame DEF DeviceTyped
<1>4. FlowTyped'
  BY StepsTyped, EndsTyped DEF ClearState, ClearOutbox
<1> QED BY <1>1, <1>3, <1>4, TimeSame, ServerSame, LoopSame DEF TroubleTyped

\* Writes. The clock goes on by one.
LEMMA WritingFacts ==
  ASSUME TypeInv, Writing
  PROVE  /\ now' \in 0..MaxTime /\ now \in Nat /\ now' \in Nat /\ now <= now' /\ now' \notin Written
         /\ now' \in Stamp /\ now' \in Written'
BY AccountAssumption DEF TypeInv, TimeTyped, Writing, Stamp, Written

\* A write here.
LEMMA EditTyped == ASSUME TypeInv, NEW r \in Row, NEW deleted \in BOOLEAN, Edit(r, deleted) PROVE TypeInv'
<1> USE DEF TypeInv
<1>1. Writing /\ UNCHANGED <<server, session, state, flow, loop>>
  BY DEF Edit
<1>2. /\ now' \in 0..MaxTime /\ now \in Nat /\ now' \in Nat /\ now <= now' /\ now' \in Stamp /\ now' \in Written'
  BY <1>1, WritingFacts
<1>3. TimeTyped'
  <2>1. Homes \in SUBSET User
    BY DEF Homes
  <2> QED BY <1>2, <2>1 DEF Edit, TimeTyped
<1>4. DeviceTyped'
  <2>1. local \in [Row -> (0..now)'] /\ outbox \in Staging'
    BY <1>2, TypesWiden DEF DeviceTyped
  <2>2. local' \in [Row -> (0..now)']
    BY <1>2, <2>1 DEF Edit
  <2>3. outbox' \in Staging'
    <3>1. [ts |-> now', deleted |-> deleted] \in [ts : Written', deleted : BOOLEAN]
      BY <1>2
    <3> QED BY <2>1, <3>1 DEF Edit, Staging
  <2> QED BY <1>1, <2>2, <2>3 DEF DeviceTyped, State
<1>5. ServerTyped' /\ LoopTyped' /\ FlowTyped' /\ TroubleTyped'
  <2>1. ServerTyped' /\ LoopTyped'
    BY <1>1, <1>2, TypesWiden DEF ServerTyped, LoopTyped
  <2> QED BY <1>1, <2>1, FlowSame DEF Edit, TroubleTyped
<1> QED BY <1>3, <1>4, <1>5

\* A write of another device.
LEMMA OtherDeviceTyped ==
  ASSUME TypeInv, NEW u \in User, NEW r \in Row, NEW deleted \in BOOLEAN, OtherDevice(u, r, deleted)
  PROVE  TypeInv'
<1> USE DEF TypeInv
<1>1. Writing /\ UNCHANGED <<deviceVars, flow, loop, trouble>>
  BY DEF OtherDevice
<1>2. /\ now' \in 0..MaxTime /\ now \in Nat /\ now' \in Nat /\ now <= now' /\ now' \in Stamp /\ now' \in Written'
  BY <1>1, WritingFacts
<1>3. TimeTyped'
  BY <1>2 DEF OtherDevice, TimeTyped
<1>4. DeviceTyped'
  BY <1>1, <1>2, TypesWiden DEF DeviceTyped, deviceVars, State
<1>5. ServerTyped'
  <2> DEFINE top == server[u].top + 1
             entry == [seq |-> top, ts |-> now', deleted |-> deleted]
             table == [server[u].rows EXCEPT ![r] = entry]
             account == [server[u] EXCEPT !.top = top, !.rows = table]
  <2>1. server \in [User -> Account']
    BY <1>2, TypesWiden DEF ServerTyped
  <2>2. top \in Nat /\ server[u].rows \in Table'
    BY <2>1 DEF Account
  <2>3. entry \in [seq : Nat, ts : Written', deleted : BOOLEAN]
    BY <1>2, <2>2
  <2> HIDE DEF entry, top
  <2>4. table \in Table'
    BY <2>2, <2>3 DEF Table
  <2> HIDE DEF table
  <2>5. account \in Account'
    BY <2>1, <2>2, <2>4 DEF Account
  <2>6. server' = [server EXCEPT ![u] = account]
    BY DEF OtherDevice, table, entry, top
  <2> HIDE DEF account
  <2> QED BY <2>1, <2>5, <2>6 DEF ServerTyped
<1>6. LoopTyped' /\ FlowTyped' /\ TroubleTyped'
  <2>1. LoopTyped'
    BY <1>1, <1>2, TypesWiden DEF LoopTyped
  <2> QED BY <1>1, <2>1, FlowSame DEF TroubleTyped
<1> QED BY <1>3, <1>4, <1>5, <1>6

\* Erasing all there is.
LEMMA EraseTyped == ASSUME TypeInv, Erase PROVE TypeInv'
<1> USE DEF TypeInv
<1>1. UNCHANGED <<server, session, state, flow, loop, now, home>> /\ local' = Empty /\ outbox' = NothingStaged
  BY DEF Erase, bounds
<1>2. DeviceTyped'
  BY <1>1, NothingTyped, TypesSame DEF DeviceTyped, TimeTyped
<1>3. TroubleTyped'
  BY DEF Erase, Unnoticed, TroubleTyped
<1> QED BY <1>1, <1>2, <1>3, TimeSame, ServerSame, FlowSame, LoopSame

\* Taking another device's data.
LEMMA ReplaceTyped == ASSUME TypeInv, NEW r \in Row, Replace(r) PROVE TypeInv'
<1> USE DEF TypeInv
<1>1. Writing /\ UNCHANGED <<server, session, state, flow, loop, home>>
  BY DEF Replace
<1>2. /\ now' \in 0..MaxTime /\ now \in Nat /\ now' \in Nat /\ now <= now' /\ now' \in Stamp /\ now' \in Written'
  BY <1>1, WritingFacts
<1>3. DeviceTyped'
  <2>1. local' \in [Row -> (0..now)']
    BY <1>2 DEF Replace, Empty
  <2>2. outbox' \in Staging'
    BY DEF Replace, NothingStaged, Staging
  <2> QED BY <1>1, <2>1, <2>2 DEF DeviceTyped, State
<1>4. TroubleTyped'
  BY DEF Replace, Unnoticed, TroubleTyped
<1>5. TimeTyped' /\ ServerTyped' /\ LoopTyped' /\ FlowTyped'
  <2>1. TimeTyped' /\ ServerTyped' /\ LoopTyped'
    BY <1>1, <1>2, TypesWiden DEF TimeTyped, ServerTyped, LoopTyped
  <2> QED BY <1>1, <2>1, FlowSame
<1> QED BY <1>3, <1>4, <1>5

\* A request of the loop.
LEMMA RequestTyped ==
  ASSUME DeviceTyped, NEW l \in Loop, l.user \in User, NEW cursor \in Nat
  PROVE  /\ Request(l, cursor) \in Loop /\ Request(l, cursor).user = l.user
         /\ Request(l, cursor).batch = outbox
BY NothingTyped DEF DeviceTyped, Request, Loop

\* A loop that ends.
LEMMA RestingTyped == ASSUME loop' = Resting, UNCHANGED now PROVE LoopTyped'
<1>1. Resting \in Loop /\ Resting.pc = "idle"
  BY NothingTyped DEF Resting
<1> QED BY <1>1, TypesSame DEF LoopTyped

\* It starts.
LEMMA StartSyncTyped == ASSUME TypeInv, StartSync PROVE TypeInv'
<1> USE DEF TypeInv
<1>1. UNCHANGED <<server, deviceVars, flow, now, home, trouble>>
  BY DEF StartSync, bounds, history
<1>2. LoopTyped'
  <2> DEFINE l == [Resting EXCEPT !.user = session, !.token = "current"]
  <2>1. session \in User /\ state.cursor \in Nat /\ loop' = Request(l, state.cursor)
    BY DEF StartSync, MaySync, Joined, DeviceTyped, State
  <2>2. l \in Loop /\ l.user = session
    BY <2>1, NothingTyped DEF Resting, Loop, Token
  <2> HIDE DEF l
  <2> QED BY <1>1, <2>1, <2>2, RequestTyped, TypesSame DEF LoopTyped
<1> QED BY <1>1, <1>2, TimeSame, ServerSame, DeviceSame, FlowSame DEF TroubleTyped

\* The server's answer.
LEMMA ServeTyped == ASSUME TypeInv, Serve PROVE TypeInv'
<1> USE DEF TypeInv
<1> DEFINE u == loop.user
           won == {r \in Row : Wins(r)}
           top == server[u].top + (IF won = {} THEN 0 ELSE 1)
           sent == {r \in Row : server[u].rows[r] # Absent
                /\ (loop.cursor < server[u].rows[r].seq \/ (loop.batch[r] # Absent /\ r \notin won))}
           table == [r \in Row |->
                       IF r \in won THEN [seq |-> top, ts |-> loop.batch[r].ts, deleted |-> loop.batch[r].deleted]
                       ELSE server[u].rows[r]]
           account == [server[u] EXCEPT !.top = top, !.rows = table]
           changes == [r \in Row |-> IF r \in sent THEN server[u].rows[r] ELSE Absent]
<1>1. UNCHANGED <<deviceVars, flow, now, home, trouble>>
  BY DEF Serve, bounds, history
<1>2. u \in User /\ loop \in Loop /\ server[u] \in Account
  BY DEF Serve, LoopTyped, ServerTyped
<1>3. top \in Nat /\ server[u].rows \in Table /\ loop.batch \in Staging
  BY <1>2 DEF Account, Loop
<1>4. server' = [server EXCEPT ![u] = account]
  BY DEF Serve
<1>5. loop' = [loop EXCEPT !.pc = "replied", !.cursor = top, !.changes = changes]
  BY DEF Serve
<1>6. table \in Table
  <2>1. ASSUME NEW r \in won
        PROVE  [seq |-> top, ts |-> loop.batch[r].ts, deleted |-> loop.batch[r].deleted]
                 \in [seq : Nat, ts : Written, deleted : BOOLEAN]
    <3>1. loop.batch[r] # Absent
      BY DEF Wins
    <3>2. loop.batch[r] \in [ts : Written, deleted : BOOLEAN]
      BY <1>3, <3>1 DEF Staging
    <3> QED BY <1>3, <3>2
  <2> HIDE DEF top, won
  <2> QED BY <1>3, <2>1 DEF Table
<1>7. changes \in Table
  BY <1>3 DEF Table
<1> HIDE DEF top, table, changes
<1>8. account \in Account
  BY <1>2, <1>3, <1>6 DEF Account
<1> HIDE DEF account
<1>9. ServerTyped'
  BY <1>1, <1>2, <1>4, <1>8, TypesSame DEF ServerTyped
<1>10. LoopTyped'
  <2>1. loop' \in Loop /\ loop'.user = u
    BY <1>2, <1>3, <1>5, <1>7 DEF Loop
  <2> QED BY <1>1, <1>2, <2>1, TypesSame DEF LoopTyped
<1> QED BY <1>1, <1>9, <1>10, TimeSame, DeviceSame, FlowSame DEF TroubleTyped

\* It fails.
LEMMA LoopFailsTyped == ASSUME TypeInv, LoopFails PROVE TypeInv'
<1> USE DEF TypeInv
<1>1. UNCHANGED <<server, deviceVars, flow, now, home, trouble>> /\ loop' = Resting
  BY DEF LoopFails, bounds, history
<1> QED BY <1>1, RestingTyped, TimeSame, ServerSame, DeviceSame, FlowSame DEF TroubleTyped

\* The troubles it meets are the known ones.
LEMMA RacedTyped == ASSUME TroubleTyped, Raced PROVE TroubleTyped'
  BY DEF Raced, TroubleTyped

\* What the server sent is applied.
LEMMA ApplyTyped == ASSUME TypeInv, ApplyServerChanges PROVE TypeInv'
<1> USE DEF TypeInv
<1>1. UNCHANGED <<server, session, state, flow, now, home>> /\ Raced /\ loop.pc = "replied"
  BY DEF ApplyServerChanges, bounds
<1>2. DeviceTyped'
  <2>1. ASSUME NEW r \in Row, Takes(r) PROVE loop.changes[r].ts \in 0..now
    <3>1. loop.changes \in Table /\ loop.changes[r] # Absent
      BY <2>1 DEF Takes, LoopTyped, Loop
    <3>2. loop.changes[r] \in [seq : Nat, ts : Written, deleted : BOOLEAN]
      BY <3>1 DEF Table
    <3> QED BY <3>2 DEF Written, TimeTyped
  <2>2. local' \in [Row -> 0..now]
    BY <2>1 DEF ApplyServerChanges, DeviceTyped, TimeTyped
  <2>3. outbox' \in Staging
    BY DEF ApplyServerChanges, DeviceTyped, Staging
  <2> QED BY <1>1, <2>2, <2>3, TypesSame DEF DeviceTyped
<1>3. LoopTyped'
  <2>1. loop' = [loop EXCEPT !.pc = "applied", !.changes = NothingStaged]
    BY DEF ApplyServerChanges
  <2>2. loop' \in Loop /\ loop'.user = loop.user
    BY <2>1, NothingTyped DEF LoopTyped, Loop
  <2> QED BY <1>1, <2>2, TypesSame DEF LoopTyped
<1> QED BY <1>1, <1>2, <1>3, RacedTyped, TimeSame, ServerSame, FlowSame

\* What it has is no longer staged.
LEMMA AckOutboxTyped == ASSUME TypeInv, AckOutbox PROVE TypeInv'
<1> USE DEF TypeInv
<1>1. UNCHANGED <<server, session, state, local, flow, now, home>> /\ Raced /\ loop.pc = "applied"
  BY DEF AckOutbox, bounds
<1>2. DeviceTyped'
  <2>1. outbox' \in Staging
    BY DEF AckOutbox, DeviceTyped, Staging
  <2> QED BY <1>1, <2>1, TypesSame DEF DeviceTyped
<1>3. LoopTyped'
  <2>1. loop' = [loop EXCEPT !.pc = "acked", !.batch = NothingStaged]
    BY DEF AckOutbox
  <2>2. loop' \in Loop /\ loop'.user = loop.user
    BY <2>1, NothingTyped DEF LoopTyped, Loop
  <2> QED BY <1>1, <2>2, TypesSame DEF LoopTyped
<1> QED BY <1>1, <1>2, <1>3, RacedTyped, TimeSame, ServerSame, FlowSame

\* The state is looked at.
LEMMA CheckStateTyped == ASSUME TypeInv, CheckState PROVE TypeInv'
<1> USE DEF TypeInv
<1>1. UNCHANGED <<server, deviceVars, flow, now, home, trouble>>
  BY DEF CheckState, bounds, history
<1>2. LoopTyped'
  <2>1. CASE loop' = Resting
    BY <1>1, <2>1, RestingTyped
  <2>2. CASE loop' = [loop EXCEPT !.pc = "checked"] /\ loop.pc = "acked"
    <3>1. loop' \in Loop /\ loop'.user = loop.user
      BY <2>2 DEF LoopTyped, Loop
    <3> QED BY <1>1, <2>2, <3>1, TypesSame DEF LoopTyped
  <2> QED BY <2>1, <2>2 DEF CheckState
<1> QED BY <1>1, <1>2, TimeSame, ServerSame, DeviceSame, FlowSame DEF TroubleTyped

\* The cursor goes on record.
LEMMA SaveStateTyped == ASSUME TypeInv, SaveState PROVE TypeInv'
<1> USE DEF TypeInv
<1>1. /\ UNCHANGED <<server, session, local, outbox, flow, now, home>> /\ Raced
      /\ loop.pc = "checked" /\ state' = [account |-> loop.user, cursor |-> loop.cursor]
  BY DEF SaveState, bounds
<1>2. loop \in Loop /\ loop.user \in User /\ loop.cursor \in Nat
  BY <1>1 DEF LoopTyped, Loop
<1>3. DeviceTyped'
  <2>1. state' \in State
    BY <1>1, <1>2 DEF State
  <2> QED BY <1>1, <2>1, TypesSame DEF DeviceTyped
<1>4. LoopTyped'
  <2>1. CASE loop' = Resting
    BY <1>1, <2>1, RestingTyped
  <2>2. CASE loop' = Request(loop, loop.cursor)
    BY <1>1, <1>2, <2>2, RequestTyped, TypesSame DEF LoopTyped
  <2> QED BY <2>1, <2>2 DEF SaveState
<1> QED BY <1>1, <1>3, <1>4, RacedTyped, TimeSame, ServerSame, FlowSame

\* The tab is closed.
LEMMA CloseTabTyped == ASSUME TypeInv, CloseTab PROVE TypeInv'
<1> USE DEF TypeInv
<1>1. UNCHANGED <<server, deviceVars, now, home>> /\ flow' = NoFlow /\ loop' = Resting
  BY DEF CloseTab, bounds
<1>2. TroubleTyped'
  BY DEF CloseTab, TroubleTyped
<1> QED BY <1>1, <1>2, EndsTyped, RestingTyped, TimeSame, ServerSame, DeviceSame

\* At first nobody is signed in and nothing is written.
LEMMA InitTyped == Init => TypeInv
<1> SUFFICES ASSUME Init PROVE TypeInv
  OBVIOUS
<1>1. now = 0 /\ home = [t \in Stamp |-> {}] /\ trouble = {} /\ server \in [User -> {NoAccount, NewAccount}]
  BY DEF Init
<1>2. /\ session = Nobody /\ state = NoState /\ local = Empty /\ outbox = NothingStaged
      /\ flow = NoFlow /\ loop = Resting
  BY DEF Init
<1>3. TimeTyped /\ ServerTyped /\ TroubleTyped
  BY <1>1, NothingTyped, AccountAssumption DEF TimeTyped, ServerTyped, TroubleTyped
<1>4. DeviceTyped
  BY <1>1, <1>2, NothingTyped DEF DeviceTyped
<1>5. FlowTyped
  BY <1>2, NothingTyped DEF FlowTyped, NoFlow, Joining
<1>6. LoopTyped
  BY <1>2, NothingTyped DEF LoopTyped, Resting
<1> QED BY <1>3, <1>4, <1>5, <1>6 DEF TypeInv

\* Types, for every step.
LEMMA NextTyped == TypeInv /\ [Next]_vars => TypeInv'
<1> SUFFICES ASSUME TypeInv, [Next]_vars PROVE TypeInv'
  OBVIOUS
<1>1. ASSUME UNCHANGED vars PROVE TypeInv'
  BY <1>1, TimeSame, ServerSame, DeviceSame, FlowSame, LoopSame
     DEF TypeInv, TroubleTyped, vars, deviceVars, bounds, history
<1>2. ASSUME SignInStep PROVE TypeInv'
  BY <1>2, SignInTyped, SeedTyped, PullTyped, SaveBaseTyped, ClearTyped DEF SignInStep
<1>3. ASSUME LoopStep PROVE TypeInv'
  BY <1>3, StartSyncTyped, ServeTyped, LoopFailsTyped, ApplyTyped, AckOutboxTyped, CheckStateTyped,
     SaveStateTyped DEF LoopStep
<1>4. ASSUME NEW r \in Row, NEW deleted \in BOOLEAN, NEW u \in User,
             Edit(r, deleted) \/ OtherDevice(u, r, deleted)
      PROVE  TypeInv'
  BY <1>4, EditTyped, OtherDeviceTyped
<1> QED BY <1>1, <1>2, <1>3, EditTyped, OtherDeviceTyped, SignInTyped, ConfirmReplaceTyped,
           SignOutTyped, DeleteAccountTyped, EraseTyped, CloseTabTyped, ReplaceTyped DEF Next

-----------------------------------------------------------------------------
(***************************************************************************)
(* Every action keeps the accounts apart.                                  *)
(***************************************************************************)
\* Most only drop what may go somewhere, or close a way to it.
LEMMA DroppingKeepsApart ==
  ASSUME Apart, UNCHANGED home, state' \in {state, NoState},
         \A u \in User, r \in Row : server'[u].rows[r] \in {server[u].rows[r], Absent},
         \A r \in Row : outbox'[r] \in {outbox[r], Absent},
         \/ flow'.step # "base"
         \/ flow'.step = flow.step /\ flow'.user = flow.user
         \/ \A r \in Row : outbox'[r] = Absent,
         \/ loop'.user = loop.user /\ loop'.batch = loop.batch
         \/ \A r \in Row : loop'.batch[r] = Absent
  PROVE  Apart'
<1>1. StaysApart'
  BY DEF Apart, StaysApart
<1>2. StagedForState'
  BY DEF Apart, StagedForState, MayGoTo
<1>3. StagedForFlow'
  BY DEF Apart, StagedForFlow, MayGoTo
<1>4. ReadForLoop'
  BY DEF Apart, ReadForLoop, MayGoTo
<1> QED BY <1>1, <1>2, <1>3, <1>4 DEF Apart

\* What is in nobody's way: the tables of an account that is new or gone, ...
LEMMA NobodysRows ==
  /\ \A r \in Row : NoAccount.rows[r] = Absent /\ NewAccount.rows[r] = Absent
  /\ \A r \in Row : NothingStaged[r] = Absent /\ Resting.batch[r] = Absent
  /\ NoFlow.step = "none"
BY DEF NoAccount, NewAccount, NothingStaged, Resting, NoFlow

\* A sign-in that looks the account up puts nothing there.
LEMMA SignInApart ==
  ASSUME TypeInv, Apart, (\E u \in User : SignUp(u) \/ SignIn(u)) \/ Me \/ MeFails
  PROVE  Apart'
<1>1. UNCHANGED <<home, state, outbox, loop>>
  BY DEF SignUp, SignIn, Enters, Me, MeFails, deviceVars, history
<1>2. ASSUME NEW u \in User, NEW r \in Row
      PROVE  server'[u].rows[r] \in {server[u].rows[r], Absent}
  <2>1. UNCHANGED server \/ \E v \in User : server' = [server EXCEPT ![v] = NewAccount]
    BY DEF SignUp, SignIn, Me, MeFails
  <2> QED BY <2>1, NobodysRows DEF TypeInv, ServerTyped
<1>3. flow'.step # "base"
  <2>1. ASSUME NEW u \in User, NEW step \in {"me", "seed"}, Enters(u, step) PROVE flow'.step # "base"
    BY <2>1 DEF Enters
  <2>2. \A u \in User : (SignUp(u) => Enters(u, "seed")) /\ (SignIn(u) => Enters(u, "me"))
    BY DEF SignUp, SignIn
  <2>3. Me => flow'.step # "base"
    BY NobodysRows DEF Me, Joins, Join, NoFlow
  <2>4. MeFails => flow'.step # "base"
    BY NobodysRows DEF MeFails
  <2> QED BY <2>1, <2>2, <2>3, <2>4
<1> QED BY <1>1, <1>2, <1>3, DroppingKeepsApart

\* ... what is given up or erased, ...
LEMMA GivenUpApart ==
  ASSUME TypeInv, Apart,
         Pull \/ ConfirmReplace \/ ClearState \/ ClearOutbox \/ Erase \/ CloseTab \/ \E r \in Row : Replace(r)
  PROVE  Apart'
<1>1. /\ UNCHANGED <<home, server>> /\ state' \in {state, NoState}
      /\ outbox' \in {outbox, NothingStaged}
  BY DEF Pull, Unstaged, ConfirmReplace, ClearState, ClearOutbox, Erase, CloseTab, Replace, deviceVars, history
<1>2. outbox' = NothingStaged \/ flow'.step # "base"
  BY NobodysRows DEF Pull, Unstaged, ConfirmReplace, ClearState, ClearOutbox, Erase, CloseTab, Replace,
     TypeInv, FlowTyped, Flow
<1>3. loop' = Resting \/ (loop'.user = loop.user /\ loop'.batch = loop.batch)
  BY DEF Pull, ConfirmReplace, ClearState, ClearOutbox, Erase, CloseTab, Replace, Overtakes,
     TypeInv, LoopTyped, Loop
<1> QED BY <1>1, <1>2, <1>3, NobodysRows, DroppingKeepsApart

\* ... a token, an account, ...
LEMMA SignOutApart == ASSUME TypeInv, Apart, SignOut \/ DeleteAccount PROVE Apart'
<1>1. UNCHANGED <<home, state, outbox>>
  BY DEF SignOut, DeleteAccount, history
<1>2. ASSUME NEW u \in User, NEW r \in Row
      PROVE  server'[u].rows[r] \in {server[u].rows[r], Absent}
  BY NobodysRows DEF SignOut, DeleteAccount, TypeInv, ServerTyped
<1>3. flow'.step # "base" \/ (flow'.step = flow.step /\ flow'.user = flow.user)
  BY DEF SignOut, DeleteAccount, Given, NoFlow, TypeInv, FlowTyped, Flow
<1>4. loop'.user = loop.user /\ loop'.batch = loop.batch
  BY DEF SignOut, DeleteAccount, Given, TypeInv, LoopTyped, Loop
<1> QED BY <1>1, <1>2, <1>3, <1>4, DroppingKeepsApart

\* ... and what the loop acknowledges, or finds to be older.
LEMMA LoopDropsApart ==
  ASSUME TypeInv, Apart, LoopFails \/ ApplyServerChanges \/ AckOutbox \/ CheckState
  PROVE  Apart'
<1>1. UNCHANGED <<home, server, state, flow>>
  BY DEF LoopFails, ApplyServerChanges, AckOutbox, CheckState, deviceVars, history
<1>2. \A r \in Row : outbox'[r] \in {outbox[r], Absent}
  BY DEF LoopFails, ApplyServerChanges, AckOutbox, CheckState, deviceVars
<1>3. \/ loop'.user = loop.user /\ loop'.batch = loop.batch
      \/ \A r \in Row : loop'.batch[r] = Absent
  <2>1. loop \in Loop
    BY DEF TypeInv, LoopTyped
  <2>2. LoopFails => loop' = Resting
    BY DEF LoopFails
  <2>3. ApplyServerChanges => loop'.user = loop.user /\ loop'.batch = loop.batch
    BY <2>1 DEF ApplyServerChanges, Loop
  <2>4. AckOutbox => loop'.batch = NothingStaged
    BY <2>1 DEF AckOutbox, Loop
  <2>5. CheckState => loop' = Resting \/ (loop'.user = loop.user /\ loop'.batch = loop.batch)
    BY <2>1 DEF CheckState, Loop
  <2> QED BY <2>2, <2>3, <2>4, <2>5, NobodysRows
<1> QED BY <1>1, <1>2, <1>3, DroppingKeepsApart

\* What is written at a new time, or again for an account, goes on to be where
\* it may be.
LEMMA HomesGrow ==
  ASSUME TypeInv, Apart, \A t \in Written : home[t] \subseteq home'[t]
  PROVE  /\ \A u \in User, r \in Row :
              server[u].rows[r] # Absent => u \in home'[server[u].rows[r].ts]
         /\ state # NoState => \A r \in Row : outbox[r] # Absent => state.account \in home'[outbox[r].ts]
         /\ flow.step = "base" => \A r \in Row : outbox[r] # Absent => flow.user \in home'[outbox[r].ts]
         /\ \A r \in Row : loop.batch[r] # Absent => loop.user \in home'[loop.batch[r].ts]
<1>1. ASSUME NEW s \in Staging, NEW r \in Row, s[r] # Absent PROVE home[s[r].ts] \subseteq home'[s[r].ts]
  <2>1. s[r].ts \in Written
    BY <1>1 DEF Staging
  <2> QED BY <2>1
<1>2. outbox \in Staging /\ loop.batch \in Staging
  BY DEF TypeInv, DeviceTyped, LoopTyped, Loop
<1>3. ASSUME NEW u \in User, NEW r \in Row, server[u].rows[r] # Absent
      PROVE  u \in home'[server[u].rows[r].ts]
  <2>1. server[u].rows \in Table
    BY DEF TypeInv, ServerTyped, Account
  <2>2. server[u].rows[r].ts \in Written
    BY <1>3, <2>1 DEF Table
  <2> QED BY <1>3, <2>2 DEF Apart, StaysApart
<1> QED BY <1>1, <1>2, <1>3 DEF Apart, StagedForState, StagedForFlow, ReadForLoop, MayGoTo

\* Every row is staged, and may now be in the account that is joined.
LEMMA SeedApart == ASSUME TypeInv, Apart, Seed PROVE Apart'
<1>1. UNCHANGED <<server, state>> /\ outbox' = [r \in Row |-> IF local[r] = 0 THEN Absent
                                              ELSE [ts |-> local[r], deleted |-> FALSE]]
  BY DEF Seed
<1>2. home' = [t \in Stamp |-> IF \E r \in Row : local[r] = t THEN home[t] \cup Homes ELSE home[t]]
  BY DEF Seed
<1>3. flow.step = "seed" /\ flow.user \in User /\ flow'.user = flow.user
  BY DEF Seed, TypeInv, FlowTyped, Flow, Joining
<1>4. Written \subseteq Stamp
  BY AccountAssumption DEF Written, Stamp, TypeInv, TimeTyped
<1>5. \A t \in Written : home[t] \subseteq home'[t]
  BY <1>2, <1>4
<1>6. ASSUME NEW r \in Row, outbox'[r] # Absent PROVE Homes \subseteq home'[outbox'[r].ts]
  <2>1. local[r] # 0 /\ outbox'[r].ts = local[r]
    BY <1>1, <1>6
  <2>2. local[r] \in Stamp
    BY <1>4, <2>1 DEF TypeInv, DeviceTyped, TimeTyped, Written
  <2> QED BY <1>2, <2>1, <2>2
<1>7. StagedForState'
  <2>1. state # NoState => state.account \in Homes
    BY DEF Homes, TypeInv, DeviceTyped, State
  <2> QED BY <1>1, <1>6, <2>1 DEF StagedForState, MayGoTo
<1>8. StagedForFlow'
  <2>1. flow.user \in Homes
    BY <1>3 DEF Homes
  <2> QED BY <1>3, <1>6, <2>1 DEF StagedForFlow, MayGoTo
<1>9. ReadForLoop'
  <2>1. loop'.user = loop.user /\ loop'.batch = loop.batch
    BY DEF Seed, Overtakes, TypeInv, LoopTyped, Loop
  <2> QED BY <1>5, <2>1, HomesGrow DEF ReadForLoop, MayGoTo
<1>10. StaysApart'
  BY <1>1, <1>5, HomesGrow DEF StaysApart
<1> QED BY <1>7, <1>8, <1>9, <1>10 DEF Apart

\* The device belongs to the account it was joining.
LEMMA SaveBaseApart == ASSUME TypeInv, Apart, SaveBase PROVE Apart'
<1>1. /\ UNCHANGED <<server, outbox, home>> /\ flow.step = "base" /\ flow' = NoFlow
      /\ state' = [account |-> flow.user, cursor |-> 0]
  BY DEF SaveBase, BaseState
<1>2. loop'.user = loop.user /\ loop'.batch = loop.batch
  BY DEF SaveBase, Overtakes, TypeInv, LoopTyped, Loop
<1>3. StagedForState'
  BY <1>1 DEF Apart, StagedForFlow, StagedForState, MayGoTo
<1>4. StagedForFlow'
  BY <1>1, NobodysRows DEF StagedForFlow
<1> QED BY <1>1, <1>2, <1>3, <1>4 DEF Apart, StaysApart, ReadForLoop, MayGoTo

\* A write here may go where the device belongs, and where it is about to.
LEMMA EditApart == ASSUME TypeInv, Apart, NEW r \in Row, NEW deleted \in BOOLEAN, Edit(r, deleted) PROVE Apart'
<1>1. /\ UNCHANGED <<server, state, flow, loop>> /\ home' = [home EXCEPT ![now'] = Homes]
      /\ outbox' = [outbox EXCEPT ![r] = [ts |-> now', deleted |-> deleted]]
  BY DEF Edit
<1>2. now' \notin Written /\ now' \in Stamp
  BY WritingFacts DEF Edit
<1>3. home'[now'] = Homes /\ \A t \in Written : home[t] \subseteq home'[t]
  BY <1>1, <1>2 DEF TypeInv, TimeTyped
<1>4. \A q \in Row : outbox'[q] = outbox[q] \/ outbox'[q].ts = now'
  BY <1>1 DEF TypeInv, DeviceTyped, Staging
<1>5. StagedForState'
  <2>1. state # NoState => state.account \in Homes
    BY DEF Homes, TypeInv, DeviceTyped, State
  <2> QED BY <1>1, <1>3, <1>4, <2>1, HomesGrow DEF StagedForState, MayGoTo
<1>6. StagedForFlow'
  <2>1. flow.step = "base" => flow.user \in Homes
    BY DEF Homes, TypeInv, FlowTyped, Joining
  <2> QED BY <1>1, <1>3, <1>4, <2>1, HomesGrow DEF StagedForFlow, MayGoTo
<1>7. StaysApart' /\ ReadForLoop'
  BY <1>1, <1>3, HomesGrow DEF StaysApart, ReadForLoop, MayGoTo
<1> QED BY <1>5, <1>6, <1>7 DEF Apart

\* A write of another device is in that device's account.
LEMMA OtherDeviceApart ==
  ASSUME TypeInv, Apart, NEW u \in User, NEW r \in Row, NEW deleted \in BOOLEAN, OtherDevice(u, r, deleted)
  PROVE  Apart'
<1>1. UNCHANGED <<state, outbox, flow, loop>> /\ home' = [home EXCEPT ![now'] = {u}]
  BY DEF OtherDevice, deviceVars
<1>2. now' \notin Written /\ now' \in Stamp
  BY WritingFacts DEF OtherDevice
<1>3. home'[now'] = {u} /\ \A t \in Written : home[t] \subseteq home'[t]
  BY <1>1, <1>2 DEF TypeInv, TimeTyped
<1>4. ASSUME NEW v \in User, NEW q \in Row
      PROVE  server'[v].rows[q] = server[v].rows[q] \/ (v = u /\ server'[v].rows[q].ts = now')
  <2> DEFINE top == server[u].top + 1
             entry == [seq |-> top, ts |-> now', deleted |-> deleted]
             table == [server[u].rows EXCEPT ![r] = entry]
             account == [server[u] EXCEPT !.top = top, !.rows = table]
  <2>1. server \in [User -> Account] /\ server[u].rows \in Table
    BY DEF TypeInv, ServerTyped, Account
  <2>2. server' = [server EXCEPT ![u] = account]
    BY DEF OtherDevice
  <2>3. entry.ts = now'
    OBVIOUS
  <2> HIDE DEF entry, top
  <2>4. table[q] = server[u].rows[q] \/ table[q].ts = now'
    BY <2>1, <2>3 DEF Table
  <2> HIDE DEF table
  <2>5. account.rows = table
    BY <2>1 DEF Account
  <2> HIDE DEF account
  <2>6. server'[v] = IF v = u THEN account ELSE server[v]
    BY <2>1, <2>2
  <2> QED BY <2>4, <2>5, <2>6
<1>5. StaysApart'
  BY <1>3, <1>4, HomesGrow DEF StaysApart
<1> QED BY <1>1, <1>3, <1>5, HomesGrow DEF Apart, StagedForState, StagedForFlow, ReadForLoop, MayGoTo

\* The loop reads what is staged for the account it runs for ...
LEMMA StartSyncApart == ASSUME TypeInv, Apart, StartSync PROVE Apart'
<1>1. UNCHANGED <<server, state, outbox, flow, home>>
  BY DEF StartSync, deviceVars, history
<1>2. state # NoState /\ state.account = session /\ session \in User /\ state.cursor \in Nat
  BY DEF StartSync, MaySync, Joined, TypeInv, DeviceTyped, State
<1>3. loop'.user = state.account /\ loop'.batch = outbox
  <2> DEFINE l == [Resting EXCEPT !.user = session, !.token = "current"]
  <2>1. l \in Loop /\ l.user = session
    BY <1>2, NothingTyped DEF Resting, Loop, Token
  <2>2. loop' = Request(l, state.cursor)
    BY DEF StartSync
  <2> HIDE DEF l
  <2> QED BY <1>2, <2>1, <2>2, RequestTyped DEF TypeInv
<1>4. ReadForLoop'
  BY <1>1, <1>2, <1>3 DEF Apart, StagedForState, ReadForLoop, MayGoTo
<1> QED BY <1>1, <1>4 DEF Apart, StaysApart, StagedForState, StagedForFlow, MayGoTo

\* ... which is where the server puts it ...
LEMMA ServeApart == ASSUME TypeInv, Apart, Serve PROVE Apart'
<1>1. UNCHANGED <<state, outbox, flow, home>>
  BY DEF Serve, deviceVars, history
<1>2. loop'.user = loop.user /\ loop'.batch = loop.batch
  BY DEF Serve, TypeInv, LoopTyped, Loop
<1>3. ASSUME NEW v \in User, NEW q \in Row
      PROVE  \/ server'[v].rows[q] = server[v].rows[q]
             \/ v = loop.user /\ loop.batch[q] # Absent /\ server'[v].rows[q].ts = loop.batch[q].ts
  <2> DEFINE u == loop.user
             won == {r \in Row : Wins(r)}
             top == server[u].top + (IF won = {} THEN 0 ELSE 1)
             table == [r \in Row |->
                       IF r \in won THEN [seq |-> top, ts |-> loop.batch[r].ts, deleted |-> loop.batch[r].deleted]
                       ELSE server[u].rows[r]]
             account == [server[u] EXCEPT !.top = top, !.rows = table]
  <2>1. server' = [server EXCEPT ![u] = account]
    BY DEF Serve
  <2>2. server \in [User -> Account] /\ u \in User
    BY DEF Serve, TypeInv, ServerTyped, LoopTyped
  <2>3. table[q] = server[u].rows[q] \/ (loop.batch[q] # Absent /\ table[q].ts = loop.batch[q].ts)
    BY DEF Wins
  <2> HIDE DEF table, top
  <2>4. account.rows = table
    BY <2>2 DEF Account
  <2> HIDE DEF account
  <2>5. server'[v] = IF v = u THEN account ELSE server[v]
    BY <2>1, <2>2
  <2> QED BY <2>3, <2>4, <2>5
<1>4. StaysApart'
  BY <1>1, <1>3 DEF Apart, StaysApart, ReadForLoop, MayGoTo
<1> QED BY <1>1, <1>2, <1>4 DEF Apart, StagedForState, StagedForFlow, ReadForLoop, MayGoTo

\* ... and reads on, as long as the device still belongs to it.
LEMMA SaveStateApart == ASSUME TypeInv, Apart, SaveState, ~Overwrites PROVE Apart'
<1>1. /\ UNCHANGED <<server, outbox, flow, home>> /\ loop.pc = "checked"
      /\ state' = [account |-> loop.user, cursor |-> loop.cursor]
  BY DEF SaveState
<1>2. state # NoState /\ state.account = loop.user
  BY <1>1 DEF Overwrites, SameAccount
<1>3. StagedForState'
  BY <1>1, <1>2 DEF Apart, StagedForState, MayGoTo
<1>4. ReadForLoop'
  <2>1. loop \in Loop /\ loop.user \in User /\ loop.cursor \in Nat
    BY <1>1 DEF TypeInv, LoopTyped, Loop
  <2>2. CASE loop' = Resting
    BY <2>2, NobodysRows DEF ReadForLoop, MayGoTo
  <2>3. CASE loop' = Request(loop, loop.cursor)
    <3>1. loop'.user = loop.user /\ loop'.batch = outbox
      BY <2>1, <2>3, RequestTyped DEF TypeInv
    <3> QED BY <1>1, <1>2, <3>1 DEF Apart, StagedForState, ReadForLoop, MayGoTo
  <2> QED BY <2>2, <2>3 DEF SaveState
<1> QED BY <1>1, <1>3, <1>4 DEF Apart, StaysApart, StagedForFlow, MayGoTo

-----------------------------------------------------------------------------
(***************************************************************************)
(* The whole.                                                              *)
(***************************************************************************)
\* A loop that wrote over another state is remembered.
LEMMA OverwriteStays ==
  ASSUME [Next]_vars, "overwrite" \in trouble
  PROVE  "overwrite" \in trouble'
BY DEF Next, vars, history, SignUp, SignIn, Enters, ConfirmReplace, SignOut, DeleteAccount, Erase, CloseTab,
   Replace, Edit, OtherDevice, Unnoticed, SignInStep, Me, MeFails, Seed, Pull, SaveBase, ClearState,
   ClearOutbox, LoopStep, StartSync, Serve, LoopFails, ApplyServerChanges, AckOutbox, CheckState,
   SaveState, Raced

\* Every other step keeps the accounts apart.
LEMMA NextApart ==
  ASSUME TypeInv, Apart, [Next]_vars
  PROVE  "overwrite" \in trouble' \/ Apart'
<1>1. CASE UNCHANGED vars
  BY <1>1, DroppingKeepsApart DEF vars, deviceVars, history, TypeInv, ServerTyped
<1>2. ASSUME SaveState, Overwrites PROVE "overwrite" \in trouble'
  BY <1>2 DEF SaveState, Raced
<1>3. ASSUME SignInStep PROVE Apart'
  BY <1>3, SignInApart, SeedApart, GivenUpApart, SaveBaseApart DEF SignInStep
<1>4. ASSUME LoopStep PROVE "overwrite" \in trouble' \/ Apart'
  BY <1>2, <1>4, StartSyncApart, ServeApart, LoopDropsApart, SaveStateApart DEF LoopStep
<1> QED BY <1>1, <1>3, <1>4, SignInApart, GivenUpApart, SignOutApart, EditApart, OtherDeviceApart DEF Next

\* For any accounts, rows and number of sign-ins: what goes into an account was
\* written in it, or on a device that belonged to it or was about to join it
\* (account/session.ts:78-106, sync/engine.ts:363).
THEOREM AccountInvariant == Spec => []AccountInv
<1>1. Init => AccountInv
  <2> SUFFICES ASSUME Init PROVE AccountInv
    OBVIOUS
  <2>1. /\ outbox = NothingStaged /\ loop = Resting
        /\ \A u \in User, r \in Row : server[u].rows[r] = Absent
    BY NobodysRows DEF Init
  <2>2. Apart
    BY <2>1, NobodysRows DEF Apart, StaysApart, StagedForState, StagedForFlow, ReadForLoop, MayGoTo
  <2> QED BY <2>2, InitTyped DEF AccountInv
<1>2. AccountInv /\ [Next]_vars => AccountInv'
  BY NextTyped, NextApart, OverwriteStays DEF AccountInv
<1> QED BY <1>1, <1>2, PTL DEF Spec

\* What was written in one account gets into no other, unless a loop that looked
\* before a switch of accounts wrote its old state over the new one.
THEOREM AccountsKeptApart == Spec => []KeptApart
<1>1. AccountInv => KeptApart
  <2> SUFFICES ASSUME AccountInv PROVE KeptApart
    OBVIOUS
  <2> USE DEF AccountInv, TypeInv
  <2>1. Written \subseteq Stamp /\ 0..now \subseteq 0..MaxTime
    BY AccountAssumption DEF TimeTyped, Written, Stamp
  <2>2. session \in User \cup {Nobody} /\ (state # NoState => state.account \in User /\ state.cursor \in Nat)
    BY DEF DeviceTyped, State
  <2>3. local \in [Row -> 0..MaxTime] /\ outbox \in [Row -> Change \cup {Absent}]
    BY <2>1 DEF DeviceTyped, Staging, Change
  <2>4. /\ flow.step \in {"none", "me", "seed", "pull", "base", "unstate", "unstage"}
        /\ {flow.token, loop.token} \subseteq {"current", "left", "dead"}
        /\ loop.pc \in {"idle", "sent", "replied", "applied", "acked", "checked"}
    BY DEF FlowTyped, LoopTyped, Flow, Loop, Joining, Token
  <2> QED BY <2>2, <2>3, <2>4 DEF KeptApart, TypeOK, TroubleTyped, Apart
<1> QED BY <1>1, AccountInvariant, PTL

-----------------------------------------------------------------------------
(***************************************************************************)
(* No write is lost: when a row stops being staged, the account has it.    *)
(*                                                                         *)
(* A loop lets go of a row because the server took it, or because it sent  *)
(* something newer. Between the answer and the moment it lets go, the row  *)
(* may be written on, the account be deleted, and the device join another  *)
(* account; what makes it safe is that a loop which is not overtaken runs  *)
(* for the account the device belongs to, and that what the server has of  *)
(* a row only gets newer.                                                  *)
(***************************************************************************)
Kept(change) == IF change.deleted THEN 0 ELSE change.ts
Reached(u, r) == IF server[u].rows[r] = Absent THEN 0 ELSE server[u].rows[r].ts

Numbered == \A u \in User, r \in Row :
  LET s == server[u].rows[r]
  IN  s # Absent => 0 < s.seq /\ s.seq <= server[u].top
Lives == /\ session # Nobody => server[session].exists
         /\ flow.step \in Joining => server[flow.user].exists /\ session \in {flow.user, Nobody}
         /\ loop.pc # "idle" /\ loop.token # "dead" => server[loop.user].exists
StagedAsKept == \A r \in Row : outbox[r] # Absent => local[r] = Kept(outbox[r])
OnCourse == loop.pc # "idle" /\ ~loop.stale
SameCourse == OnCourse => /\ state = NoState \/ state.account = loop.user
                          /\ flow.step = "base" => state # NoState /\ loop.user = flow.user
HasAtLeast(u, staging) == \A r \in Row :
  staging[r] # Absent => server[u].rows[r] # Absent /\ staging[r].ts <= server[u].rows[r].ts
Waits == OnCourse /\ loop.pc \in {"replied", "applied"} /\ state # NoState
Held == Waits =>
  \/ flow.step = "unstate" /\ ~server[loop.user].exists
  \/ /\ server[loop.user].exists
     /\ HasAtLeast(loop.user, loop.changes) /\ HasAtLeast(loop.user, loop.batch)
LoopInv == Numbered /\ Lives /\ StagedAsKept /\ SameCourse /\ Held

\* An account goes on: its rows are as they were, or newer under a higher number.
Renewed(v, r) ==
  LET s == server'[v].rows[r]
  IN  /\ s # Absent
      /\ server[v].top < s.seq /\ s.seq <= server'[v].top /\ Reached(v, r) < s.ts
Grows(v) == /\ server'[v].exists = server[v].exists /\ server[v].top <= server'[v].top
            /\ \A r \in Row : server'[v].rows[r] = server[v].rows[r] \/ Renewed(v, r)

\* What the server's answer is, row by row: it takes what is newer than it has ...
Answers(r) ==
  LET s == server[loop.user].rows[r]
      b == loop.batch[r]
      c == loop'.changes[r]
      after == server'[loop.user].rows[r]
      newest == server'[loop.user].top
  IN  /\ Wins(r) => /\ b # Absent /\ after # Absent /\ after.seq = newest /\ after.ts = b.ts /\ after.deleted = b.deleted
                    /\ s # Absent => s.ts < b.ts
      /\ ~Wins(r) => /\ after = s
                     /\ b # Absent => s # Absent /\ b.ts <= s.ts /\ c = s
      /\ c # Absent => c = s
      /\ s # Absent /\ loop.cursor < s.seq => c = s

\* ... and the loop goes on with it.
LoopAs(pc, cursor, batch, changes) ==
  /\ loop'.pc = pc /\ loop'.user = loop.user /\ loop'.stale = loop.stale
  /\ loop'.cursor = cursor /\ loop'.batch = batch /\ loop'.changes = changes
Begins ==
  /\ loop'.pc = "sent" /\ loop'.user = session /\ ~loop'.stale
  /\ loop'.cursor = state.cursor /\ loop'.batch = outbox /\ loop'.changes = NothingStaged

\* A loop that is overtaken or ends is not on course any more.
LEMMA OffCourse ==
  ASSUME TypeInv, Overtakes \/ loop' = Resting
  PROVE  ~OnCourse'
<1>1. CASE loop' = Resting
  BY <1>1 DEF Resting, OnCourse
<1>2. CASE Overtakes
  <2>1. loop'.pc = loop.pc /\ loop'.stale = (loop.pc # "idle")
    BY <1>2 DEF Overtakes, TypeInv, LoopTyped, Loop
  <2> QED BY <2>1 DEF OnCourse
<1> QED BY <1>1, <1>2

\* A token that is given up changes nothing else.
LEMMA GivenFacts ==
  ASSUME TypeInv, SignOut \/ DeleteAccount
  PROVE  /\ LoopAs(loop.pc, loop.cursor, loop.batch, loop.changes)
         /\ loop'.token = "dead" \/ loop'.token = loop.token \/ (loop.token = "current" /\ loop'.token = "left")
         /\ SignOut => flow'.step = flow.step /\ flow'.user = flow.user
BY DEF SignOut, DeleteAccount, Given, LoopAs, TypeInv, LoopTyped, Loop, FlowTyped, Flow

\* The loop starts with what is staged, and is on course.
LEMMA BeginsFacts == ASSUME TypeInv, StartSync PROVE Begins /\ session \in User /\ session = state.account /\ state # NoState
<1>1. session \in User /\ state # NoState /\ state.cursor \in Nat /\ state.account = session
  BY DEF StartSync, MaySync, Joined, TypeInv, DeviceTyped, State
<1> DEFINE l == [Resting EXCEPT !.user = session, !.token = "current"]
<1>2. loop' = Request(l, state.cursor)
  BY DEF StartSync
<1>3. l \in Loop /\ l.user = session /\ l.stale = FALSE
  BY <1>1, NothingTyped DEF Resting, Loop, Token
<1> HIDE DEF l
<1>4. Begins
  BY <1>2, <1>3 DEF Begins, Request, Loop
<1> QED BY <1>1, <1>4

\* It goes round with what is staged by then.
LEMMA SavedFacts ==
  ASSUME TypeInv, SaveState
  PROVE  /\ state' = [account |-> loop.user, cursor |-> loop.cursor]
         /\ loop' = Resting \/ LoopAs("sent", loop.cursor, outbox, NothingStaged)
<1>1. loop \in Loop
  BY DEF TypeInv, LoopTyped
<1>2. CASE loop' = Resting
  BY <1>2 DEF SaveState
<1>3. CASE loop' = Request(loop, loop.cursor)
  BY <1>1, <1>3 DEF SaveState, Request, LoopAs, Loop
<1> QED BY <1>2, <1>3 DEF SaveState

\* Another device's write.
LEMMA OtherGrows ==
  ASSUME TypeInv, NEW u \in User, NEW r \in Row, NEW deleted \in BOOLEAN, OtherDevice(u, r, deleted)
  PROVE  \A v \in User : Grows(v)
<1> DEFINE top == server[u].top + 1
           entry == [seq |-> top, ts |-> now', deleted |-> deleted]
           table == [server[u].rows EXCEPT ![r] = entry]
           account == [server[u] EXCEPT !.top = top, !.rows = table]
<1>1. server \in [User -> Account] /\ server[u] \in Account /\ server[u].rows \in Table /\ server[u].top \in Nat
  BY DEF TypeInv, ServerTyped, Account
<1>2. server' = [server EXCEPT ![u] = account]
  BY DEF OtherDevice
<1>3. entry.ts = now' /\ entry.seq = top /\ entry # Absent
  <2>1. entry \in [seq : Nat, ts : Nat, deleted : BOOLEAN]
    BY <1>1, WritingFacts DEF OtherDevice
  <2> QED BY <2>1, NoneAssumption
<1>4. /\ now < now' /\ now \in Nat /\ now' \in Nat
      /\ top \in Nat /\ server[u].top \in Nat /\ server[u].top < top
  BY <1>1 DEF OtherDevice, Writing, TypeInv, TimeTyped
<1> HIDE DEF entry, top
<1>5. table[r] = entry /\ \A q \in Row : q # r => table[q] = server[u].rows[q]
  BY <1>1 DEF Table
<1> HIDE DEF table
<1>6. account.top = top /\ account.rows = table /\ account.exists = server[u].exists
  BY <1>1 DEF Account
<1> HIDE DEF account
<1>7. server'[u] = account /\ \A v \in User : v # u => server'[v] = server[v]
  BY <1>1, <1>2
<1>8. Reached(u, r) <= now
  <2>1. server[u].rows[r] # Absent => server[u].rows[r].ts \in Written
    BY <1>1 DEF Table
  <2> QED BY <1>4, <2>1 DEF Reached, Written
<1>9. Renewed(u, r)
  <2>1. Reached(u, r) \in Nat
    <3>1. server[u].rows[r] # Absent => server[u].rows[r].ts \in Nat
      BY <1>1 DEF Table, Written
    <3> QED BY <3>1 DEF Reached
  <2> QED BY <1>3, <1>4, <1>5, <1>6, <1>7, <1>8, <2>1 DEF Renewed
<1>10. Grows(u)
  BY <1>4, <1>5, <1>6, <1>7, <1>9 DEF Grows
<1>11. \A v \in User : v # u => Grows(v)
  <2>1. \A v \in User : server[v].top \in Nat
    BY <1>1 DEF Account
  <2> QED BY <1>7, <2>1 DEF Grows
<1> QED BY <1>10, <1>11

\* The server's answer, and what it leaves in the account.
LEMMA ServeFacts ==
  ASSUME TypeInv, Serve
  PROVE  /\ loop.user \in User /\ LoopAs("replied", server'[loop.user].top, loop.batch, loop'.changes)
         /\ \A r \in Row : Answers(r)
         /\ \A v \in User : v # loop.user => server'[v] = server[v]
         /\ server'[loop.user].exists = server[loop.user].exists
         /\ server'[loop.user].top \in {server[loop.user].top, server[loop.user].top + 1}
         /\ (\E r \in Row : Wins(r)) => server'[loop.user].top = server[loop.user].top + 1
<1> DEFINE u == loop.user
           won == {r \in Row : Wins(r)}
           top == server[u].top + (IF won = {} THEN 0 ELSE 1)
           sent == {r \in Row : server[u].rows[r] # Absent
                /\ (loop.cursor < server[u].rows[r].seq \/ (loop.batch[r] # Absent /\ r \notin won))}
           entry(r) == [seq |-> top, ts |-> loop.batch[r].ts, deleted |-> loop.batch[r].deleted]
           table == [r \in Row |-> IF r \in won THEN entry(r) ELSE server[u].rows[r]]
           account == [server[u] EXCEPT !.top = top, !.rows = table]
           changes == [r \in Row |-> IF r \in sent THEN server[u].rows[r] ELSE Absent]
<1>1. u \in User /\ loop \in Loop /\ server[u] \in Account /\ server \in [User -> Account] /\ loop.pc = "sent"
  BY DEF Serve, TypeInv, LoopTyped, ServerTyped
<1>2. server' = [server EXCEPT ![u] = account]
  BY DEF Serve
<1>3. loop' = [loop EXCEPT !.pc = "replied", !.cursor = top, !.changes = changes]
  BY DEF Serve
<1>4. top \in {server[u].top, server[u].top + 1} /\ ((\E r \in Row : Wins(r)) => top = server[u].top + 1)
  <2>1. server[u].top \in Nat
    BY <1>1 DEF Account
  <2> QED BY <2>1
<1>5. server'[u] = account /\ \A v \in User : v # u => server'[v] = server[v]
  BY <1>1, <1>2
<1>6. account.top = top /\ account.rows = table /\ account.exists = server[u].exists
  BY <1>1 DEF Account
<1>7. LoopAs("replied", top, loop.batch, changes) /\ loop'.changes = changes
  BY <1>1, <1>3 DEF LoopAs, Loop
<1>8. ASSUME NEW r \in Row PROVE Answers(r)
  <2> DEFINE s == server[u].rows[r]
             b == loop.batch[r]
  <2>1. server[u].rows \in Table /\ loop.batch \in Staging /\ loop.cursor \in Nat
    BY <1>1 DEF Account, Loop
  <2>2. /\ s # Absent => s.ts \in Nat /\ s.seq \in Nat
        /\ b # Absent => b.ts \in Nat /\ b.deleted \in BOOLEAN
    BY <2>1 DEF Table, Staging, Written
  <2>3. r \in won <=> Wins(r)
    OBVIOUS
  <2>4. b # Absent => entry(r) # Absent /\ entry(r).seq = top /\ entry(r).ts = b.ts /\ entry(r).deleted = b.deleted
    <3>1. top \in Nat
      BY <1>1, <1>4 DEF Account
    <3> HIDE DEF top
    <3>2. b # Absent => entry(r) \in [seq : Nat, ts : Nat, deleted : BOOLEAN]
      BY <2>2, <3>1
    <3> QED BY <3>2, NoneAssumption
  <2>5. table[r] = IF Wins(r) THEN entry(r) ELSE s
    BY <2>3
  <2>6. changes[r] = IF s # Absent /\ (loop.cursor < s.seq \/ (b # Absent /\ ~Wins(r))) THEN s ELSE Absent
    BY <2>3
  <2> HIDE DEF entry, table, changes, top, won, sent
  <2>7. server'[u].rows[r] = (IF Wins(r) THEN entry(r) ELSE s) /\ server'[u].top = top
    BY <1>5, <1>6, <2>5
  <2>8. Wins(r) <=> b # Absent /\ (s # Absent => s.ts < b.ts)
    BY DEF Wins
  <2> HIDE DEF account
  <2>9. loop'.changes[r] = changes[r]
    BY <1>7
  <2> QED BY <2>2, <2>4, <2>6, <2>7, <2>8, <2>9 DEF Answers
<1> QED BY <1>1, <1>4, <1>5, <1>6, <1>7, <1>8

\* What it takes is newer, and nothing else changes.
LEMMA ServeGrows == ASSUME TypeInv, Serve PROVE \A v \in User : Grows(v)
<1>1. server \in [User -> Account] /\ loop.batch \in Staging
  BY DEF TypeInv, ServerTyped, LoopTyped, Loop
<1>2. \A v \in User : server[v].top \in Nat /\ server[v].rows \in Table
  BY <1>1 DEF Account
<1>3. \A v \in User : v # loop.user => Grows(v)
  BY <1>2, ServeFacts DEF Grows
<1>4. ASSUME NEW r \in Row PROVE server'[loop.user].rows[r] = server[loop.user].rows[r] \/ Renewed(loop.user, r)
  <2>1. loop.batch[r] # Absent => loop.batch[r].ts \in Written
    BY <1>1 DEF Staging
  <2>2. Answers(r) /\ loop.user \in User /\ (Wins(r) => server'[loop.user].top = server[loop.user].top + 1)
    BY ServeFacts
  <2> QED BY <1>2, <2>1, <2>2 DEF Answers, Renewed, Reached, Written
<1>5. Grows(loop.user)
  <2>1. /\ loop.user \in User /\ server'[loop.user].exists = server[loop.user].exists
        /\ server'[loop.user].top \in {server[loop.user].top, server[loop.user].top + 1}
    BY ServeFacts
  <2>2. server[loop.user].top <= server'[loop.user].top
    BY <1>2, <2>1
  <2> QED BY <1>4, <2>1, <2>2 DEF Grows
<1> QED BY <1>3, <1>5

\* A step ends the loop or overtakes it, leaves it to itself, or is one of its own.
Turns == Seed \/ Pull \/ SaveBase \/ ConfirmReplace \/ CloseTab \/ LoopFails
Aside == \/ \E u \in User : SignUp(u) \/ SignIn(u)
         \/ SignOut \/ DeleteAccount \/ Erase \/ Me \/ MeFails \/ ClearState \/ ClearOutbox
         \/ \E r \in Row : Replace(r)
         \/ \E r \in Row, deleted \in BOOLEAN :
              Edit(r, deleted) \/ \E u \in User : OtherDevice(u, r, deleted)
         \/ UNCHANGED vars
SameLoop == LoopAs(loop.pc, loop.cursor, loop.batch, loop.changes)
LEMMA NextKinds ==
  ASSUME TypeInv, [Next]_vars
  PROVE  \/ Turns \/ Aside
         \/ StartSync \/ Serve \/ ApplyServerChanges \/ AckOutbox \/ CheckState \/ SaveState
BY DEF Next, Turns, Aside, SignInStep, LoopStep

\* What is not the loop's own leaves it on its course or takes it off.
LEMMA TurnsFacts == ASSUME TypeInv, Turns PROVE ~OnCourse'
<1>1. Overtakes \/ loop' = Resting
  BY DEF Turns, Seed, Pull, SaveBase, ConfirmReplace, CloseTab, LoopFails
<1> QED BY <1>1, OffCourse

\* What goes on beside it.
LEMMA AsideFacts == ASSUME TypeInv, Aside PROVE SameLoop
<1>1. CASE SignOut \/ DeleteAccount
  BY <1>1, GivenFacts DEF SameLoop
<1>2. CASE UNCHANGED loop
  BY <1>2 DEF SameLoop, LoopAs
<1>3. SignOut \/ DeleteAccount \/ UNCHANGED loop
  BY DEF Aside, SignUp, SignIn, Enters, Erase, Me, MeFails, ClearState, ClearOutbox, Replace, Edit,
     OtherDevice, vars
<1> QED BY <1>1, <1>2, <1>3

\* Its own steps.
LEMMA ApplyFacts ==
  ASSUME TypeInv, ApplyServerChanges PROVE LoopAs("applied", loop.cursor, loop.batch, NothingStaged)
BY DEF ApplyServerChanges, LoopAs, TypeInv, LoopTyped, Loop
\* It lets go of what the server has.
LEMMA AckFacts ==
  ASSUME TypeInv, AckOutbox PROVE LoopAs("acked", loop.cursor, NothingStaged, loop.changes)
BY DEF AckOutbox, LoopAs, TypeInv, LoopTyped, Loop
\* It looks at the state.
LEMMA CheckFacts ==
  ASSUME TypeInv, CheckState
  PROVE  loop' = Resting \/ (SameAccount /\ LoopAs("checked", loop.cursor, loop.batch, loop.changes))
BY DEF CheckState, LoopAs, TypeInv, LoopTyped, Loop

\* How an account comes and goes.
Unchanged(v) == server'[v] = server[v]
LEMMA AccountMoves ==
  ASSUME TypeInv, [Next]_vars, NEW v \in User
  PROVE  \/ Grows(v)
         \/ SignUp(v) /\ ~server[v].exists /\ server'[v] = NewAccount
         \/ DeleteAccount /\ v = session /\ server'[v] = NoAccount
<1>1. server \in [User -> Account] /\ server[v].top \in Nat
  BY DEF TypeInv, ServerTyped, Account
<1>2. ASSUME Unchanged(v) PROVE Grows(v)
  BY <1>1, <1>2 DEF Unchanged, Grows
<1>3. ASSUME NEW u \in User, SignUp(u)
      PROVE  Unchanged(v) \/ (u = v /\ ~server[v].exists /\ server'[v] = NewAccount)
  BY <1>1, <1>3 DEF SignUp, Unchanged
<1>4. ASSUME DeleteAccount PROVE Unchanged(v) \/ (v = session /\ server'[v] = NoAccount)
  BY <1>1, <1>4 DEF DeleteAccount, Unchanged
<1>5. ASSUME NEW u \in User, NEW r \in Row, NEW deleted \in BOOLEAN, OtherDevice(u, r, deleted) PROVE Grows(v)
  BY <1>5, OtherGrows
<1>6. ASSUME Serve PROVE Grows(v)
  BY <1>6, ServeGrows
<1>7. \/ UNCHANGED server \/ DeleteAccount \/ Serve \/ \E u \in User : SignUp(u)
      \/ \E u \in User, r \in Row, deleted \in BOOLEAN : OtherDevice(u, r, deleted)
  BY DEF Next, vars, SignIn, ConfirmReplace, SignOut, Erase, CloseTab, Replace, Edit, SignInStep, LoopStep,
     Me, MeFails, Seed, Pull, SaveBase, ClearState, ClearOutbox, StartSync, LoopFails, ApplyServerChanges,
     AckOutbox, CheckState, SaveState
<1>8. UNCHANGED server => Unchanged(v)
  BY DEF Unchanged
<1> QED BY <1>2, <1>3, <1>4, <1>5, <1>6, <1>7, <1>8

\* The numbers of the rows stay within the account's.
LEMMA NumberedNext == ASSUME TypeInv, Numbered, [Next]_vars PROVE Numbered'
<1>1. ASSUME NEW v \in User, NEW r \in Row, server'[v].rows[r] # Absent
      PROVE  0 < server'[v].rows[r].seq /\ server'[v].rows[r].seq <= server'[v].top
  <2>1. server[v].top \in Nat /\ server[v].rows \in Table /\ server'[v].top \in Nat /\ server'[v].rows \in Table'
    BY NextTyped DEF TypeInv, ServerTyped, Account
  <2>2. /\ server[v].rows[r] # Absent => server[v].rows[r].seq \in Nat
        /\ server'[v].rows[r].seq \in Nat
    BY <1>1, <2>1 DEF Table
  <2>3. CASE Grows(v)
    BY <1>1, <2>1, <2>2, <2>3 DEF Grows, Renewed, Numbered
  <2>4. CASE server'[v] \in {NewAccount, NoAccount}
    BY <1>1, <2>4, NobodysRows
  <2> QED BY <2>3, <2>4, AccountMoves
<1> QED BY <1>1 DEF Numbered

\* An account lives on unless it is deleted.
LEMMA LivesOn ==
  ASSUME TypeInv, [Next]_vars, NEW v \in User, server[v].exists, DeleteAccount => v # session
  PROVE  server'[v].exists
<1>1. Grows(v) \/ server'[v] = NewAccount
  BY AccountMoves
<1>2. NewAccount.exists
  BY DEF NewAccount, NoAccount
<1> QED BY <1>1, <1>2 DEF Grows

\* Who is signed in.
LEMMA SessionMoves ==
  ASSUME TypeInv, [Next]_vars
  PROVE  \/ session' = session /\ ~DeleteAccount
         \/ session' = Nobody
         \/ \E u \in User : session' = u /\ (SignUp(u) \/ SignIn(u))
<1>1. DeleteAccount => session' = Nobody
  BY DEF DeleteAccount
<1>2. UNCHANGED session \/ session' = Nobody \/ \E u \in User : session' = u /\ (SignUp(u) \/ SignIn(u))
  BY DEF Next, vars, deviceVars, SignUp, SignIn, Enters, ConfirmReplace, SignOut, DeleteAccount, Erase,
     CloseTab, Replace, Edit, OtherDevice, SignInStep, LoopStep, Me, MeFails, Seed, Pull, SaveBase,
     ClearState, ClearOutbox, StartSync, Serve, LoopFails, ApplyServerChanges, AckOutbox, CheckState,
     SaveState
<1> QED BY <1>1, <1>2

\* What is joined.
LEMMA JoinMoves ==
  ASSUME TypeInv, [Next]_vars, flow'.step \in Joining
  PROVE  \/ /\ flow.step \in Joining /\ flow'.user = flow.user
            /\ session' \in {session, Nobody} /\ ~DeleteAccount
         \/ \E u \in User : flow'.user = u /\ session' = u /\ (SignUp(u) \/ SignIn(u))
         \/ ConfirmReplace /\ flow'.user = session /\ session' = session /\ session \in User
<1>1. flow \in Flow /\ session \in User \cup {Nobody} /\ NoFlow.step \notin Joining
  BY DEF TypeInv, FlowTyped, DeviceTyped, NoFlow, Joining
<1>2. ASSUME NEW u \in User, SignUp(u) \/ SignIn(u) PROVE flow'.user = u /\ session' = u
  BY <1>2 DEF SignUp, SignIn, Enters
<1>3. ASSUME Me PROVE flow.step \in Joining /\ flow'.user = flow.user /\ session' = session
  BY <1>1, <1>3 DEF Me, Join, NoFlow, Flow, Joining, deviceVars
<1>4. ASSUME ConfirmReplace PROVE flow'.user = session /\ session' = session /\ session \in User
  BY <1>1, <1>4, JoinTyped DEF ConfirmReplace, Joining
<1>5. ASSUME SignOut PROVE flow.step \in Joining /\ flow'.user = flow.user /\ session' = Nobody
  BY <1>5, GivenFacts DEF SignOut
<1>6. ASSUME DeleteAccount \/ ClearState PROVE FALSE
  BY <1>1, <1>6 DEF DeleteAccount, ClearState, NoFlow, Flow, Joining
<1>7. ASSUME Seed \/ Pull PROVE flow.step \in Joining /\ flow'.user = flow.user /\ session' = session
  BY <1>1, <1>7 DEF Seed, Pull, Flow, Joining
<1>8. ASSUME MeFails \/ SaveBase \/ ClearOutbox \/ CloseTab PROVE FALSE
  BY <1>1, <1>8 DEF MeFails, SaveBase, ClearOutbox, CloseTab
<1>9. \/ UNCHANGED <<flow, session>> \/ (\E u \in User : SignUp(u) \/ SignIn(u)) \/ Me \/ ConfirmReplace
      \/ SignOut \/ DeleteAccount \/ ClearState \/ Seed \/ Pull \/ MeFails \/ SaveBase \/ ClearOutbox \/ CloseTab
  BY DEF Next, vars, deviceVars, Erase, Replace, Edit, OtherDevice, SignInStep, LoopStep, StartSync, Serve,
     LoopFails, ApplyServerChanges, AckOutbox, CheckState, SaveState
<1>10. ASSUME Me \/ SignOut \/ Seed \/ Pull PROVE ~DeleteAccount
  BY <1>6
<1>11. ~DeleteAccount
  BY <1>6
<1> QED BY <1>2, <1>3, <1>4, <1>5, <1>6, <1>7, <1>8, <1>9, <1>11

\* What the loop runs for while its token is good.
LEMMA TokenMoves ==
  ASSUME TypeInv, [Next]_vars, loop'.pc # "idle", loop'.token # "dead"
  PROVE  \/ /\ loop.pc # "idle" /\ loop.token # "dead" /\ loop'.user = loop.user
            /\ DeleteAccount => loop.user # session
         \/ StartSync /\ loop'.user = session /\ session \in User
<1>1. loop \in Loop
  BY DEF TypeInv, LoopTyped
<1>2. CASE DeleteAccount
  BY <1>1, <1>2 DEF DeleteAccount, Loop
<1>3. CASE SignOut
  <2>1. ~DeleteAccount
    BY <1>3 DEF SignOut, DeleteAccount, NoFlow, Given
  <2> QED BY <1>3, <2>1, GivenFacts DEF LoopAs
<1>4. CASE StartSync
  BY <1>4, BeginsFacts DEF Begins
<1>5. CASE ~DeleteAccount /\ (Overtakes \/ Serve \/ ApplyServerChanges \/ AckOutbox)
  BY <1>1, <1>5 DEF Overtakes, Serve, ApplyServerChanges, AckOutbox, Loop
<1>6. CASE ~DeleteAccount /\ (CheckState \/ SaveState)
  <2>1. loop' # Resting
    BY DEF Resting
  <2>2. loop.pc # "idle"
    BY <1>6 DEF CheckState, SaveState
  <2>3. CASE loop' = [loop EXCEPT !.pc = "checked"]
    BY <1>1, <1>6, <2>2, <2>3 DEF Loop
  <2>4. CASE loop' = Request(loop, loop.cursor)
    BY <1>1, <1>6, <2>2, <2>4 DEF Request, Loop
  <2> QED BY <1>6, <2>1, <2>3, <2>4 DEF CheckState, SaveState
<1>7. CASE loop' = Resting
  BY <1>7 DEF Resting
<1>8. CASE UNCHANGED loop /\ ~DeleteAccount
  BY <1>8
<1>9. Turns => Overtakes \/ loop' = Resting
  BY DEF Turns, Seed, Pull, SaveBase, ConfirmReplace, CloseTab, LoopFails
<1>10. Aside => UNCHANGED loop \/ SignOut \/ DeleteAccount
  BY DEF Aside, SignUp, SignIn, Enters, Erase, Me, MeFails, ClearState, ClearOutbox, Replace, Edit,
     OtherDevice, vars
<1>11. \/ Turns \/ Aside
       \/ StartSync \/ Serve \/ ApplyServerChanges \/ AckOutbox \/ CheckState \/ SaveState
  BY NextKinds
<1> QED BY <1>2, <1>3, <1>4, <1>5, <1>6, <1>7, <1>8, <1>9, <1>10, <1>11

\* Whoever is signed in, joins or syncs has an account.
LEMMA LivesNext == ASSUME TypeInv, Lives, [Next]_vars PROVE Lives'
<1>1. \A u \in User : SignUp(u) \/ SignIn(u) => server'[u].exists
  <2>1. ASSUME NEW u \in User, SignUp(u) PROVE server'[u].exists
    BY <2>1 DEF SignUp, NewAccount, NoAccount, TypeInv, ServerTyped
  <2> QED BY <2>1 DEF SignIn
<1>2. session \in User \cup {Nobody} /\ Nobody \notin User
  BY AccountAssumption DEF TypeInv, DeviceTyped
<1>3. ASSUME session' # Nobody PROVE server'[session'].exists
  BY <1>1, <1>2, <1>3, SessionMoves, LivesOn DEF Lives
<1>4. ASSUME flow'.step \in Joining PROVE server'[flow'.user].exists /\ session' \in {flow'.user, Nobody}
  <2>1. CASE /\ flow.step \in Joining /\ flow'.user = flow.user
             /\ session' \in {session, Nobody} /\ ~DeleteAccount
    <3>1. flow.user \in User
      BY <2>1 DEF TypeInv, FlowTyped
    <3> QED BY <2>1, <3>1, LivesOn DEF Lives
  <2>2. CASE ConfirmReplace /\ flow'.user = session /\ session' = session /\ session \in User
    BY <1>2, <1>3, <2>2
  <2> QED BY <1>1, <1>4, <2>1, <2>2, JoinMoves
<1>5. ASSUME loop'.pc # "idle", loop'.token # "dead" PROVE server'[loop'.user].exists
  <2>1. CASE StartSync /\ loop'.user = session /\ session \in User
    BY <1>2, <1>3, <2>1 DEF StartSync, deviceVars
  <2>2. CASE /\ loop.pc # "idle" /\ loop.token # "dead" /\ loop'.user = loop.user
             /\ DeleteAccount => loop.user # session
    <3>1. loop.user \in User
      BY <2>2 DEF TypeInv, LoopTyped
    <3> QED BY <2>2, <3>1, LivesOn DEF Lives
  <2> QED BY <1>5, <2>1, <2>2, TokenMoves
<1> QED BY <1>3, <1>4, <1>5 DEF Lives

\* What is staged of a row is what the tables have of it.
LEMMA StagedNext == ASSUME TypeInv, StagedAsKept, [Next]_vars PROVE StagedAsKept'
<1>1. CASE UNCHANGED <<local, outbox>>
  BY <1>1 DEF StagedAsKept
<1>2. CASE outbox' = NothingStaged
  BY <1>2, NobodysRows DEF StagedAsKept
<1>3. CASE Seed
  BY <1>3 DEF Seed, StagedAsKept, Kept
<1>4. ASSUME NEW r \in Row, NEW deleted \in BOOLEAN, Edit(r, deleted) PROVE StagedAsKept'
  <2>1. outbox \in Staging /\ local \in [Row -> 0..now]
    BY DEF TypeInv, DeviceTyped
  <2>2. /\ local' = [local EXCEPT ![r] = IF deleted THEN 0 ELSE now']
        /\ outbox' = [outbox EXCEPT ![r] = [ts |-> now', deleted |-> deleted]]
    BY <1>4 DEF Edit
  <2>3. \A q \in Row : q # r => outbox'[q] = outbox[q] /\ local'[q] = local[q]
    BY <2>1, <2>2 DEF Staging
  <2>4. local'[r] = Kept(outbox'[r])
    BY <2>1, <2>2 DEF Staging, Kept
  <2> QED BY <2>3, <2>4 DEF StagedAsKept
<1>5. CASE ApplyServerChanges
  BY <1>5 DEF ApplyServerChanges, StagedAsKept
<1>6. CASE AckOutbox
  BY <1>6 DEF AckOutbox, StagedAsKept
<1>7. \/ UNCHANGED <<local, outbox>> \/ outbox' = NothingStaged \/ Seed \/ ApplyServerChanges \/ AckOutbox
      \/ \E r \in Row, deleted \in BOOLEAN : Edit(r, deleted)
  BY DEF Next, vars, deviceVars, SignUp, SignIn, Enters, ConfirmReplace, SignOut, DeleteAccount, Erase,
     CloseTab, Replace, OtherDevice, SignInStep, LoopStep, Me, MeFails, Pull, Unstaged, SaveBase,
     ClearState, ClearOutbox, StartSync, Serve, LoopFails, CheckState, SaveState
<1> QED BY <1>1, <1>2, <1>3, <1>4, <1>5, <1>6, <1>7

\* Beside the loop, the device's state is left alone or given up with its account.
LEMMA AsideState ==
  ASSUME TypeInv, Aside
  PROVE  /\ state' = state \/ (ClearState /\ state' = NoState /\ flow'.step = "unstage")
         /\ flow'.step = "base" => flow.step = "base" /\ flow'.user = flow.user /\ state' = state
<1>1. CASE UNCHANGED <<state, flow>>
  BY <1>1
<1>2. CASE ClearState
  BY <1>2 DEF ClearState, TypeInv, FlowTyped, Flow
<1>3. CASE SignOut \/ DeleteAccount
  <2>1. state' = state /\ (DeleteAccount => flow'.step # "base")
    BY <1>3 DEF SignOut, DeleteAccount, NoFlow
  <2> QED BY <1>3, <2>1, GivenFacts
<1>4. CASE Me \/ MeFails
  <2>1. flow'.step # "base"
    BY <1>4, NobodysRows DEF Me, MeFails, Joins, Join, NoFlow
  <2> QED BY <1>4, <2>1 DEF Me, MeFails, deviceVars
<1>5. CASE ClearOutbox
  BY <1>5, NobodysRows DEF ClearOutbox
<1>6. ASSUME NEW u \in User, SignUp(u) \/ SignIn(u)
      PROVE  state' = state /\ flow'.step # "base"
  BY <1>6 DEF SignUp, SignIn, Enters
<1>7. \/ UNCHANGED <<state, flow>> \/ ClearState \/ SignOut \/ DeleteAccount \/ Me \/ MeFails \/ ClearOutbox
      \/ \E u \in User : SignUp(u) \/ SignIn(u)
  BY DEF Aside, Erase, Replace, Edit, OtherDevice, vars, deviceVars
<1> QED BY <1>1, <1>2, <1>3, <1>4, <1>5, <1>6, <1>7

\* A loop on its course runs for the account the device belongs to.
LEMMA CourseNext == ASSUME TypeInv, Lives, SameCourse, [Next]_vars PROVE SameCourse'
<1>1. CASE Turns
  BY <1>1, TurnsFacts DEF SameCourse
<1>2. CASE Aside
  BY <1>2, AsideFacts, AsideState DEF SameCourse, SameLoop, LoopAs, OnCourse
<1>3. CASE StartSync
  <2>1. Begins /\ session \in User /\ session = state.account /\ state # NoState /\ UNCHANGED <<state, flow>>
    BY <1>3, BeginsFacts DEF StartSync, deviceVars
  <2>2. flow.step = "base" => session = flow.user
    BY <2>1, AccountAssumption DEF Lives, Joining
  <2> QED BY <2>1, <2>2 DEF SameCourse, Begins
<1>4. CASE Serve \/ ApplyServerChanges \/ AckOutbox
  <2>1. loop'.user = loop.user /\ loop'.stale = loop.stale /\ UNCHANGED <<state, flow>> /\ loop.pc # "idle"
    BY <1>4, ServeFacts, ApplyFacts, AckFacts DEF LoopAs, Serve, ApplyServerChanges, AckOutbox, deviceVars
  <2> QED BY <2>1 DEF SameCourse, OnCourse
<1>5. CASE CheckState
  <2>1. UNCHANGED <<state, flow>> /\ loop.pc # "idle"
    BY <1>5 DEF CheckState, deviceVars
  <2>2. loop' = Resting => ~OnCourse'
    BY DEF OnCourse, Resting
  <2> QED BY <1>5, <2>1, <2>2, CheckFacts DEF SameCourse, OnCourse, LoopAs
<1>6. CASE SaveState
  <2>1. UNCHANGED flow /\ loop.pc # "idle" /\ loop.user \in User /\ loop.cursor \in Nat
    BY <1>6 DEF SaveState, TypeInv, LoopTyped, Loop
  <2>2. state' = [account |-> loop.user, cursor |-> loop.cursor]
    BY <1>6, SavedFacts
  <2>3. state' # NoState /\ state'.account = loop.user
    <3>1. state' \in [account : User, cursor : Nat]
      BY <2>1, <2>2
    <3> QED BY <2>2, <3>1, NoneAssumption
  <2>4. loop' = Resting => ~OnCourse'
    BY DEF OnCourse, Resting
  <2>5. loop' = Resting \/ (loop'.user = loop.user /\ loop'.stale = loop.stale)
    BY <1>6, SavedFacts DEF LoopAs
  <2> QED BY <2>1, <2>3, <2>4, <2>5 DEF SameCourse, OnCourse
<1> QED BY <1>1, <1>2, <1>3, <1>4, <1>5, <1>6, NextKinds

\* What an account has only gets newer.
LEMMA StillThere ==
  ASSUME TypeInv, TypeInv', NEW v \in User, Grows(v), NEW r \in Row, server[v].rows[r] # Absent
  PROVE  /\ server'[v].rows[r] # Absent /\ server[v].rows[r].ts <= server'[v].rows[r].ts
         /\ {server[v].rows[r].ts, server'[v].rows[r].ts} \subseteq Nat
<1>1. server[v].rows \in Table /\ server'[v].rows \in Table'
  BY DEF TypeInv, ServerTyped, Account
<1>2. server'[v].rows[r] # Absent
  BY DEF Grows, Renewed
<1>3. server[v].rows[r].ts \in Nat /\ server'[v].rows[r].ts \in Nat
  BY <1>1, <1>2 DEF Table, Written
<1> QED BY <1>2, <1>3 DEF Grows, Renewed, Reached

\* What it has, it goes on to have.
LEMMA StillHas ==
  ASSUME TypeInv, TypeInv', NEW v \in User, Grows(v), SameLoop,
         HasAtLeast(v, loop.changes), HasAtLeast(v, loop.batch)
  PROVE  HasAtLeast(v, loop.changes)' /\ HasAtLeast(v, loop.batch)'
<1>1. loop.changes \in Table /\ loop.batch \in Staging
  BY DEF TypeInv, LoopTyped, Loop
<1>2. ASSUME NEW r \in Row, loop.changes[r] # Absent
      PROVE  server'[v].rows[r] # Absent /\ loop.changes[r].ts <= server'[v].rows[r].ts
  <2>1. loop.changes[r].ts \in Nat
    BY <1>1, <1>2 DEF Table, Written
  <2>2. server[v].rows[r] # Absent /\ loop.changes[r].ts <= server[v].rows[r].ts
    BY <1>2 DEF HasAtLeast
  <2> QED BY <2>1, <2>2, StillThere
<1>3. ASSUME NEW r \in Row, loop.batch[r] # Absent
      PROVE  server'[v].rows[r] # Absent /\ loop.batch[r].ts <= server'[v].rows[r].ts
  <2>1. loop.batch[r].ts \in Nat
    BY <1>1, <1>3 DEF Staging, Written
  <2>2. server[v].rows[r] # Absent /\ loop.batch[r].ts <= server[v].rows[r].ts
    BY <1>3 DEF HasAtLeast
  <2> QED BY <2>1, <2>2, StillThere
<1> QED BY <1>2, <1>3 DEF HasAtLeast, SameLoop, LoopAs

\* Beside the loop, a deletion that is under way goes on, and the account with it.
LEMMA AsideGone ==
  ASSUME TypeInv, [Next]_vars, Aside, flow.step = "unstate", state' # NoState, NEW v \in User, ~server[v].exists
  PROVE  flow'.step = "unstate" /\ ~server'[v].exists
<1>1. flow # NoFlow
  BY DEF NoFlow
<1>2. flow'.step = flow.step /\ ~DeleteAccount /\ ~SignUp(v)
  BY <1>1, GivenFacts DEF Aside, SignUp, SignIn, Enters, DeleteAccount, Erase, Me, MeFails, ClearState, ClearOutbox,
     Replace, Edit, OtherDevice, vars
<1>3. Grows(v)
  BY <1>2, AccountMoves
<1> QED BY <1>2, <1>3 DEF Grows

\* What the server sent and what it was sent is in the account until the loop is
\* done with it.
LEMMA HeldNext == ASSUME TypeInv, LoopInv, [Next]_vars PROVE Held'
<1>1. TypeInv' /\ loop \in Loop /\ (loop.pc # "idle" => loop.user \in User)
  BY NextTyped DEF TypeInv, LoopTyped
<1>2. CASE Turns
  BY <1>2, TurnsFacts DEF Held, Waits
<1>3. CASE Aside
  <2> SUFFICES ASSUME Waits' PROVE Held'
    BY DEF Held
  <2>1. SameLoop /\ state' = state /\ state # NoState /\ loop'.user = loop.user /\ loop'.pc = loop.pc
    BY <1>3, AsideFacts, AsideState DEF Waits, SameLoop, LoopAs
  <2>2. Waits /\ loop.user \in User
    BY <1>1, <2>1 DEF Waits, OnCourse, SameLoop, LoopAs
  <2>3. CASE flow.step = "unstate" /\ ~server[loop.user].exists
    BY <1>3, <2>1, <2>2, <2>3, AsideGone DEF Held
  <2>4. CASE /\ server[loop.user].exists
             /\ HasAtLeast(loop.user, loop.changes) /\ HasAtLeast(loop.user, loop.batch)
    <3>1. CASE DeleteAccount /\ loop.user = session
      <4>1. server'[loop.user] = NoAccount /\ flow'.step = "unstate"
        BY <1>1, <2>2, <3>1 DEF DeleteAccount, TypeInv, ServerTyped, NoFlow
      <4> QED BY <2>1, <4>1 DEF Held, NoAccount
    <3>2. CASE ~(DeleteAccount /\ loop.user = session)
      <4>1. Grows(loop.user)
        BY <2>2, <2>4, <3>2, AccountMoves
      <4>2. server'[loop.user].exists
        BY <2>4, <4>1 DEF Grows
      <4> QED BY <1>1, <2>1, <2>2, <2>4, <4>1, <4>2, StillHas DEF Held
    <3> QED BY <3>1, <3>2
  <2> QED BY <2>2, <2>3, <2>4 DEF Held, LoopInv
<1>4. CASE Serve
  <2>1. /\ loop.user \in User /\ LoopAs("replied", server'[loop.user].top, loop.batch, loop'.changes)
        /\ (\A r \in Row : Answers(r)) /\ server'[loop.user].exists = server[loop.user].exists
        /\ Grows(loop.user)
    BY <1>4, ServeFacts, ServeGrows
  <2>2. server[loop.user].exists
    BY <1>4 DEF Serve, LoopInv, Lives
  <2>3. ASSUME NEW r \in Row, loop'.changes[r] # Absent
        PROVE  server'[loop.user].rows[r] # Absent /\ loop'.changes[r].ts <= server'[loop.user].rows[r].ts
    <3>1. loop'.changes[r] = server[loop.user].rows[r]
      BY <2>1, <2>3 DEF Answers
    <3> QED BY <1>1, <2>1, <2>3, <3>1, StillThere
  <2>4. ASSUME NEW r \in Row, loop.batch[r] # Absent
        PROVE  server'[loop.user].rows[r] # Absent /\ loop.batch[r].ts <= server'[loop.user].rows[r].ts
    <3>1. loop.batch[r].ts \in Nat
      BY <1>1, <2>4 DEF Loop, Staging, Written
    <3> QED BY <2>1, <2>4, <3>1 DEF Answers
  <2> QED BY <2>1, <2>2, <2>3, <2>4 DEF Held, HasAtLeast, LoopAs
<1>5. CASE ApplyServerChanges
  <2>1. LoopAs("applied", loop.cursor, loop.batch, NothingStaged) /\ loop.pc = "replied" /\ UNCHANGED <<server, state, flow>>
    BY <1>5, ApplyFacts DEF ApplyServerChanges
  <2>2. Waits' => Waits
    BY <2>1 DEF Waits, OnCourse, LoopAs
  <2> QED BY <2>1, <2>2, NobodysRows DEF LoopInv, Held, HasAtLeast, LoopAs
<1>6. ASSUME StartSync \/ AckOutbox \/ CheckState \/ SaveState PROVE Held'
  <2>1. loop'.pc \notin {"replied", "applied"}
    BY <1>6, BeginsFacts, AckFacts, CheckFacts, SavedFacts DEF Begins, LoopAs, Resting
  <2> QED BY <2>1 DEF Held, Waits
<1> QED BY <1>2, <1>3, <1>4, <1>5, <1>6, NextKinds

\* All of it holds at first and is kept.
LEMMA LoopInvariant == Spec => [](TypeInv /\ LoopInv)
<1>1. Init => TypeInv /\ LoopInv
  <2> SUFFICES ASSUME Init PROVE LoopInv
    BY InitTyped
  <2>1. /\ session = Nobody /\ outbox = NothingStaged /\ flow = NoFlow /\ loop = Resting
        /\ \A u \in User, r \in Row : server[u].rows[r] = Absent
    BY NobodysRows DEF Init
  <2>2. loop.pc = "idle" /\ flow.step = "none"
    BY <2>1 DEF Resting, NoFlow
  <2> QED BY <2>1, <2>2, NobodysRows DEF LoopInv, Numbered, Lives, Joining, StagedAsKept, SameCourse, Held, Waits, OnCourse
<1>2. TypeInv /\ LoopInv /\ [Next]_vars => TypeInv' /\ LoopInv'
  BY NextTyped, NumberedNext, LivesNext, StagedNext, CourseNext, HeldNext DEF LoopInv
<1> QED BY <1>1, <1>2, PTL DEF Spec

\* Step by step: a row that stops being staged was given up, or is in the
\* account by then, or newer there, or the account is gone.
LEMMA NothingLostStep ==
  ASSUME TypeInv, LoopInv, [Next]_vars, NEW r \in Row, outbox[r] # Absent, outbox'[r] = Absent
  PROVE  \/ GivenUp \/ state = NoState \/ "race" \in trouble'
         \/ ~server[state.account].exists \/ Arrived(r)
<1>1. GivenUp \/ ApplyServerChanges \/ AckOutbox
  <2>1. ASSUME NEW q \in Row, NEW deleted \in BOOLEAN, Edit(q, deleted) PROVE FALSE
    <3>1. outbox \in Staging /\ outbox' = [outbox EXCEPT ![q] = [ts |-> now', deleted |-> deleted]]
      BY <2>1 DEF Edit, TypeInv, DeviceTyped
    <3>2. [ts |-> now', deleted |-> deleted] # Absent
      <4>1. now' \in Nat
        BY <2>1, WritingFacts DEF Edit
      <4> QED BY <4>1, NoneAssumption
    <3> QED BY <3>1, <3>2 DEF Staging
  <2>2. \/ GivenUp \/ ApplyServerChanges \/ AckOutbox \/ UNCHANGED outbox
        \/ \E q \in Row, deleted \in BOOLEAN : Edit(q, deleted)
    BY DEF Next, vars, deviceVars, GivenUp, SignUp, SignIn, Enters, SignOut, DeleteAccount,
       CloseTab, OtherDevice, SignInStep, LoopStep, Me, MeFails, SaveBase,
       ClearState, StartSync, Serve, LoopFails, CheckState, SaveState
  <2> QED BY <2>1, <2>2
<1>2. CASE ApplyServerChanges \/ AckOutbox
  <2> SUFFICES ASSUME state # NoState, "race" \notin trouble' PROVE ~server[state.account].exists \/ Arrived(r)
    OBVIOUS
  <2>1. ~loop.stale /\ loop.pc \in {"replied", "applied"}
    BY <1>2 DEF ApplyServerChanges, AckOutbox, Raced, Late
  <2>2. OnCourse /\ Waits /\ state.account = loop.user
    BY <2>1 DEF OnCourse, Waits, LoopInv, SameCourse
  <2>3. CASE ~server[loop.user].exists
    BY <2>2, <2>3
  <2>4. CASE HasAtLeast(loop.user, loop.changes) /\ HasAtLeast(loop.user, loop.batch)
    <3>1. CASE ApplyServerChanges
      <4>1. Takes(r) /\ loop.changes[r] # Absent /\ outbox[r].ts <= loop.changes[r].ts
        BY <3>1 DEF ApplyServerChanges, Takes
      <4>2. loop.changes \in Table /\ outbox \in Staging /\ server[loop.user].rows \in Table
        BY <2>1 DEF TypeInv, LoopTyped, Loop, DeviceTyped, ServerTyped, Account
      <4>3. server[loop.user].rows[r] # Absent /\ loop.changes[r].ts <= server[loop.user].rows[r].ts
        BY <2>4, <4>1 DEF HasAtLeast
      <4>4. outbox[r].ts \in Nat /\ loop.changes[r].ts \in Nat /\ server[loop.user].rows[r].ts \in Nat
        BY <4>1, <4>2, <4>3 DEF Table, Staging, Written
      <4> QED BY <2>2, <4>1, <4>3, <4>4 DEF Arrived
    <3>2. CASE AckOutbox
      <4>1. loop.batch[r] = outbox[r]
        BY <3>2 DEF AckOutbox, Acked
      <4> QED BY <2>2, <2>4, <4>1 DEF HasAtLeast, Arrived
    <3> QED BY <1>2, <3>1, <3>2
  <2> QED BY <2>2, <2>3, <2>4 DEF LoopInv, Held
<1> QED BY <1>1, <1>2

\* No write is lost, for any accounts, rows and number of sign-ins: what stops
\* being staged (sync/engine.ts:383, 404) was given up by the user, or is in the
\* account the device belongs to, or newer there, or that account is gone.
THEOREM AccountNothingLost == Spec => NothingLost
<1>1. TypeInv /\ LoopInv /\ [Next]_vars =>
        [\A r \in Row : outbox[r] # Absent /\ outbox'[r] = Absent =>
           \/ GivenUp \/ state = NoState \/ "race" \in trouble'
           \/ ~server[state.account].exists \/ Arrived(r)]_vars
  BY NothingLostStep
<1> QED BY <1>1, LoopInvariant, PTL DEF Spec, NothingLost

-----------------------------------------------------------------------------
(***************************************************************************)
(* The device mirrors its account.                                         *)
(*                                                                         *)
(* Of what signIn looks at, a device that joins has nothing it has not     *)
(* staged beyond what the account has; from then on, what it is sent, and  *)
(* what it is told the account has taken, keeps each row at least as new   *)
(* as the cursor says. While a loop is under way there are two cursors,    *)
(* and the rows agree with the state's before the answer is applied and    *)
(* with the loop's after it.                                               *)
(***************************************************************************)
Counted == Row \ Uncounted
Clean == trouble \cap {"edit", "race", "overwrite"} = {}
Same(s, change) == s.ts = change.ts /\ s.deleted = change.deleted

PullOK == flow.step = "pull" /\ Clean => \A r \in Counted : local[r] = 0
BaseOK == flow.step = "base" /\ Clean =>
  \A r \in Counted : outbox[r] = Absent => local[r] <= Reached(flow.user, r)
GoneOK == /\ flow.step = "unstage" /\ Clean => state = NoState
          /\ trouble = {} /\ state # NoState => server[state.account].exists \/ flow.step = "unstate"

\* What the tables have of a row (kept), what is staged of it and what is stored
\* of it agree, as far as a cursor says.
AgreesAs(kept, staged, stored, cursor) == staged = Absent =>
  /\ kept <= IF stored = Absent THEN 0 ELSE stored.ts
  /\ (stored # Absent => stored.seq <= cursor) => kept = IF stored = Absent THEN 0 ELSE Kept(stored)
\* What the loop read is staged still, or something newer is.
StagedAs(staged, read) == read # Absent => staged # Absent /\ read.ts <= staged.ts
\* A row that it pushed is what it pushed, unless it was sent something newer;
\* any other it was sent if it is news; and what it was sent is what there is,
\* unless the row has been written since.
Pushed(read, sent) == read # Absent /\ (sent # Absent => sent.ts < read.ts)
AnswersAs(stored, read, sent, from, to) ==
  /\ Pushed(read, sent) => (stored.seq <= to => Same(stored, read))
  /\ ~Pushed(read, sent) =>
       /\ sent # Absent => stored = sent \/ to < stored.seq
       /\ stored # Absent /\ from < stored.seq /\ stored.seq <= to => sent = stored
\* What it is about to let go of is what the account has.
LetsGoAs(staged, read, stored, to) ==
  read # Absent /\ staged = read /\ stored.seq <= to => Same(stored, read)

AgreesTo(r, cursor) == AgreesAs(local[r], outbox[r], server[state.account].rows[r], cursor)
StillStagedOK(r) == loop.pc \in {"sent", "replied"} => StagedAs(outbox[r], loop.batch[r])
AnswerOK(r) == loop.pc = "replied" =>
  AnswersAs(server[state.account].rows[r], loop.batch[r], loop.changes[r], state.cursor, loop.cursor)
LetGoOK(r) == loop.pc = "applied" =>
  LetsGoAs(outbox[r], loop.batch[r], server[state.account].rows[r], loop.cursor)
CursorOK(r) == loop.pc \in {"applied", "acked", "checked"} => AgreesTo(r, loop.cursor)
LoopAgrees(r) == StillStagedOK(r) /\ AnswerOK(r) /\ LetGoOK(r) /\ CursorOK(r)
CursorsOK == /\ loop.pc = "sent" => loop.cursor = state.cursor
             /\ loop.pc # "sent" => state.cursor <= loop.cursor /\ loop.cursor <= server[state.account].top

Quiet == trouble = {} /\ state # NoState /\ flow.step \in {"none", "me"}
StateAgrees == /\ state.cursor <= server[state.account].top
               /\ \A r \in Counted : AgreesTo(r, state.cursor)
MirrorOK == Quiet => /\ StateAgrees
                     /\ OnCourse => CursorsOK /\ \A r \in Counted : LoopAgrees(r)
MirrorInv == PullOK /\ BaseOK /\ GoneOK /\ MirrorOK

\* What is known of a row's stamps.
ChangeTyped(change) == change # Absent => change.ts \in Nat /\ change.deleted \in BOOLEAN
StoredTyped(stored) == ChangeTyped(stored) /\ (stored # Absent => stored.seq \in Nat)
RowTyped(r) == /\ local[r] \in Nat /\ ChangeTyped(outbox[r]) /\ ChangeTyped(loop.batch[r])
               /\ StoredTyped(server[state.account].rows[r]) /\ StoredTyped(loop.changes[r])
CursorsTyped == /\ state.account \in User /\ state.cursor \in Nat /\ loop.cursor \in Nat
                /\ server[state.account].top \in Nat /\ server[state.account].rows \in Table
LEMMA RowsTyped ==
  ASSUME TypeInv, state # NoState
  PROVE  CursorsTyped /\ \A r \in Row : RowTyped(r)
<1>1. CursorsTyped
  BY DEF TypeInv, DeviceTyped, State, LoopTyped, Loop, ServerTyped, Account, CursorsTyped
<1>2. ASSUME NEW r \in Row PROVE RowTyped(r)
  <2>1. local[r] \in Nat
    BY DEF TypeInv, DeviceTyped, TimeTyped
  <2>2. outbox \in Staging /\ loop.batch \in Staging /\ loop.changes \in Table
    BY DEF TypeInv, DeviceTyped, LoopTyped, Loop
  <2>3. \A t \in Written : t \in Nat
    BY DEF Written
  <2>4. server[state.account].rows \in Table
    BY <1>1 DEF CursorsTyped
  <2>5. ASSUME NEW s \in Staging PROVE ChangeTyped(s[r])
    BY <2>3 DEF Staging, ChangeTyped
  <2>6. ASSUME NEW s \in Table PROVE StoredTyped(s[r])
    BY <2>3 DEF Table, StoredTyped, ChangeTyped
  <2> QED BY <2>1, <2>2, <2>4, <2>5, <2>6 DEF RowTyped
<1> QED BY <1>1, <1>2

LEMMA RowsTypedNext ==
  ASSUME TypeInv', state' # NoState
  PROVE  CursorsTyped' /\ \A r \in Row : RowTyped(r)'
<1>1. CursorsTyped'
  BY DEF TypeInv, DeviceTyped, State, LoopTyped, Loop, ServerTyped, Account, CursorsTyped
<1>2. ASSUME NEW r \in Row PROVE RowTyped(r)'
  <2>1. local'[r] \in Nat
    BY DEF TypeInv, DeviceTyped, TimeTyped
  <2>2. outbox' \in Staging' /\ loop'.batch \in Staging' /\ loop'.changes \in Table'
    BY DEF TypeInv, DeviceTyped, LoopTyped, Loop
  <2>3. \A t \in Written' : t \in Nat
    BY DEF Written
  <2>4. server'[state'.account].rows \in Table'
    BY <1>1 DEF CursorsTyped
  <2>5. ASSUME NEW s \in Staging' PROVE ChangeTyped(s[r])
    BY <2>3 DEF Staging, ChangeTyped
  <2>6. ASSUME NEW s \in Table' PROVE StoredTyped(s[r])
    BY <2>3 DEF Table, StoredTyped, ChangeTyped
  <2> QED BY <2>1, <2>2, <2>4, <2>5, <2>6 DEF RowTyped
<1> QED BY <1>1, <1>2

\* What is kept of a change is no newer than the change.
LEMMA KeptFacts ==
  ASSUME NEW change, change.ts \in Nat, change.deleted \in BOOLEAN
  PROVE  Kept(change) \in Nat /\ Kept(change) <= change.ts
BY DEF Kept

\* Troubles stay, except the two that recording a new state puts right.
LEMMA TroubleStays ==
  ASSUME [Next]_vars
  PROVE  /\ trouble' = {} /\ ~SaveBase => trouble = {}
         /\ Clean' => Clean
         /\ SaveBase /\ trouble' = {} => Clean
<1>1. trouble \subseteq trouble' \/ (SaveBase /\ trouble' = trouble \ {"wipe", "cut"})
  BY DEF Next, vars, history, SignUp, SignIn, Enters, ConfirmReplace, SignOut, DeleteAccount, Erase, CloseTab,
     Replace, Edit, OtherDevice, Unnoticed, SignInStep, Me, MeFails, Seed, Pull, SaveBase, ClearState,
     ClearOutbox, LoopStep, StartSync, Serve, LoopFails, ApplyServerChanges, AckOutbox, CheckState,
     SaveState, Raced
<1> QED BY <1>1 DEF Clean

\* While a flow waits at one of its last steps, only writes and the loop go on,
\* and a sign-out may end.
Goes == \/ UNCHANGED vars \/ LoopStep \/ SignOut
        \/ \E r \in Row, deleted \in BOOLEAN :
             Edit(r, deleted) \/ \E u \in User : OtherDevice(u, r, deleted)
SameFlow == flow'.step = flow.step /\ flow'.user = flow.user
LEMMA FlowMoves ==
  ASSUME TypeInv, [Next]_vars
  PROVE  /\ flow'.step = "pull" => (SameFlow /\ Goes) \/ Me \/ ConfirmReplace
         /\ flow'.step = "base" => (SameFlow /\ Goes) \/ Seed \/ Pull
         /\ flow'.step = "unstage" => (SameFlow /\ Goes) \/ ClearState
<1>1. flow \in Flow /\ NoFlow.step = "none"
  BY DEF TypeInv, FlowTyped, NoFlow
<1>2. ASSUME NEW u \in User, SignUp(u) \/ SignIn(u) PROVE flow'.step \in {"seed", "me"}
  BY <1>2 DEF SignUp, SignIn, Enters
<1>3. ConfirmReplace => flow'.step = "pull"
  BY DEF ConfirmReplace, Join, NoFlow
<1>5. DeleteAccount => flow'.step = "unstate"
  BY DEF DeleteAccount, NoFlow
<1>6. Erase \/ CloseTab \/ (\E r \in Row : Replace(r)) => flow'.step = "none"
  BY <1>1 DEF Erase, CloseTab, Replace
<1>7. Me => flow'.step \in {"none", "seed", "pull"}
  BY <1>1 DEF Me, Joins, Join, NoFlow
<1>8. MeFails \/ SaveBase \/ ClearOutbox => flow'.step = "none"
  BY <1>1 DEF MeFails, SaveBase, ClearOutbox
<1>9. Seed \/ Pull => flow'.step = "base"
  BY <1>1 DEF Seed, Pull, Flow
<1>10. ClearState => flow'.step = "unstage"
  BY <1>1 DEF ClearState, Flow
<1>11. Goes => SameFlow
  BY GivenFacts DEF Goes, SameFlow, vars, LoopStep, Edit, OtherDevice, StartSync, Serve, LoopFails, ApplyServerChanges, AckOutbox,
     CheckState, SaveState
<1>12. \/ Goes \/ (\E u \in User : SignUp(u) \/ SignIn(u)) \/ ConfirmReplace \/ DeleteAccount
       \/ Erase \/ CloseTab \/ (\E r \in Row : Replace(r)) \/ Me \/ MeFails \/ Seed \/ Pull \/ SaveBase
       \/ ClearState \/ ClearOutbox
  BY DEF Next, Goes, SignInStep
<1> QED BY <1>2, <1>3, <1>5, <1>6, <1>7, <1>8, <1>9, <1>10, <1>11, <1>12

\* Before it joins with nothing of its own, the device has nothing.
LEMMA PullNext == ASSUME TypeInv, PullOK, [Next]_vars PROVE PullOK'
<1> SUFFICES ASSUME flow'.step = "pull", Clean', NEW r \in Counted PROVE local'[r] = 0
  BY DEF PullOK
<1>1. Clean /\ r \in Row
  BY TroubleStays DEF Counted
<1>2. CASE Me
  <2>1. Joins(flow) = "pull" /\ UNCHANGED local
    <3>1. Joins(flow) # "none" /\ flow' = Join(Joins(flow), flow.user)
      BY <1>2 DEF Me, NoFlow
    <3> QED BY <1>2, <3>1 DEF Me, Join, NoFlow, deviceVars
  <2>2. ~HasRows
    BY <2>1 DEF Joins
  <2> QED BY <2>1, <2>2 DEF HasRows, Counted
<1>3. CASE ConfirmReplace
  BY <1>1, <1>3 DEF ConfirmReplace, Empty
<1>4. CASE SameFlow /\ Goes
  <2>1. local[r] = 0
    BY <1>1, <1>4 DEF PullOK, SameFlow
  <2>2. ~ApplyServerChanges
    BY <1>4 DEF ApplyServerChanges, Raced, Late, Clean, SameFlow
  <2>3. ASSUME NEW q \in Row, NEW deleted \in BOOLEAN, Edit(q, deleted) PROVE FALSE
    BY <1>4, <2>3 DEF Edit, Clean, SameFlow
  <2>4. UNCHANGED local
    BY <1>4, <2>2, <2>3 DEF Goes, SignOut, vars, deviceVars, LoopStep, OtherDevice, StartSync, Serve, LoopFails,
       AckOutbox, CheckState, SaveState
  <2> QED BY <2>1, <2>4
<1> QED BY <1>2, <1>3, <1>4, FlowMoves

\* What an account has of a row only gets newer.
LEMMA ReachedGrows ==
  ASSUME TypeInv, TypeInv', NEW v \in User, NEW r \in Row, Grows(v)
  PROVE  /\ Reached(v, r) \in Nat /\ Reached(v, r)' \in Nat /\ Reached(v, r) <= Reached(v, r)'
<1>1. CASE server[v].rows[r] = Absent
  <2>1. server'[v].rows[r] # Absent => server'[v].rows[r].ts \in Nat
    BY DEF TypeInv, ServerTyped, Account, Table, Written
  <2> QED BY <1>1, <2>1 DEF Reached
<1>2. CASE server[v].rows[r] # Absent
  BY <1>2, StillThere DEF Reached
<1> QED BY <1>1, <1>2

\* Before the device belongs to the account it joins, what it has and has not
\* staged is no newer than what is there.
LEMMA BaseNext == ASSUME TypeInv, LoopInv, PullOK, BaseOK, [Next]_vars PROVE BaseOK'
<1> SUFFICES ASSUME flow'.step = "base", Clean', NEW r \in Counted, outbox'[r] = Absent
             PROVE  local'[r] <= Reached(flow.user, r)' /\ flow'.user = flow.user
  BY DEF BaseOK, Reached
<1>1. TypeInv' /\ Clean /\ r \in Row
  BY NextTyped, TroubleStays DEF Counted
<1>2. CASE Seed \/ Pull
  <2>1. flow'.user = flow.user /\ flow.user \in User /\ UNCHANGED <<server, local>>
    BY <1>2 DEF Seed, Pull, TypeInv, FlowTyped, Flow, Joining
  <2>2. local[r] = 0
    <3>1. CASE Seed
      <4>1. local[r] \in Nat
        BY <1>1 DEF TypeInv, DeviceTyped, TimeTyped
      <4>2. [ts |-> local[r], deleted |-> FALSE] \in [ts : Nat, deleted : BOOLEAN]
        BY <4>1
      <4>3. [ts |-> local[r], deleted |-> FALSE] # Absent
        BY <4>2, NoneAssumption
      <4> QED BY <1>1, <3>1, <4>3 DEF Seed
    <3>2. CASE Pull
      BY <1>1, <3>2 DEF Pull, PullOK
    <3> QED BY <1>2, <3>1, <3>2
  <2>3. Grows(flow.user)
    <3>1. server[flow.user].top \in Nat
      BY <2>1 DEF TypeInv, ServerTyped, Account
    <3> QED BY <2>1, <3>1 DEF Grows
  <2>4. Reached(flow.user, r)' \in Nat
    BY <1>1, <2>1, <2>3, ReachedGrows DEF Reached
  <2> QED BY <2>1, <2>2, <2>4
<1>3. CASE SameFlow /\ Goes
  <2>1. PICK u \in User : flow.step = "base" /\ u = flow.user
    BY <1>3 DEF SameFlow, TypeInv, FlowTyped, Joining
  <2>u. ASSUME local'[r] <= Reached(u, r)' PROVE local'[r] <= Reached(flow.user, r)' /\ flow'.user = flow.user
    BY <1>3, <2>1, <2>u DEF Reached, SameFlow
  <2>2. Grows(u)
    <3>1. ~DeleteAccount /\ ~SignUp(u)
      BY <1>3, <2>1 DEF SameFlow, DeleteAccount, SignUp, Enters, NoFlow
    <3> QED BY <2>1, <3>1, AccountMoves
  <2>3. Reached(u, r) \in Nat /\ Reached(u, r)' \in Nat /\ Reached(u, r) <= Reached(u, r)' /\ local[r] \in Nat
    BY <1>1, <2>1, <2>2, ReachedGrows DEF TypeInv, DeviceTyped, TimeTyped
  <2>4. CASE UNCHANGED <<local, outbox>>
    <3>1. local[r] <= Reached(u, r)
      BY <1>1, <2>1, <2>4 DEF BaseOK
    <3>2. local'[r] <= Reached(u, r)'
      BY <2>3, <2>4, <3>1
    <3> QED BY <2>u, <3>2
  <2>5. ASSUME NEW q \in Row, NEW deleted \in BOOLEAN, Edit(q, deleted)
        PROVE  outbox'[r] = outbox[r] /\ local'[r] = local[r]
    <3>1. outbox \in Staging /\ local \in [Row -> 0..now] /\ now' \in Nat
      BY <2>5, WritingFacts DEF Edit, TypeInv, DeviceTyped
    <3>2. [ts |-> now', deleted |-> deleted] # Absent
      BY <3>1, NoneAssumption
    <3>3. /\ outbox' = [outbox EXCEPT ![q] = [ts |-> now', deleted |-> deleted]]
          /\ local' = [local EXCEPT ![q] = IF deleted THEN 0 ELSE now']
      BY <2>5 DEF Edit
    <3>4. q # r
      BY <3>1, <3>2, <3>3 DEF Staging
    <3> QED BY <1>1, <3>1, <3>3, <3>4 DEF Staging
  <2>6. ASSUME ApplyServerChanges \/ AckOutbox
        PROVE  /\ u = loop.user /\ UNCHANGED server
               /\ HasAtLeast(u, loop.changes) /\ HasAtLeast(u, loop.batch)
    <3>1. ~loop.stale /\ loop.pc \in {"replied", "applied"} /\ UNCHANGED server
      BY <2>6 DEF ApplyServerChanges, AckOutbox, Raced, Late, Clean
    <3>2. OnCourse /\ state # NoState /\ u = loop.user
      BY <2>1, <3>1 DEF OnCourse, LoopInv, SameCourse
    <3>3. Waits
      BY <3>1, <3>2 DEF Waits
    <3> QED BY <2>1, <3>1, <3>2, <3>3 DEF LoopInv, Held
  <2>7. CASE ApplyServerChanges
    <3>1. CASE Takes(r)
      <4>1. loop.changes[r] # Absent /\ local'[r] = Kept(loop.changes[r])
        BY <1>1, <2>7, <3>1 DEF ApplyServerChanges, Takes, Kept
      <4>2. loop.changes[r].ts \in Nat /\ loop.changes[r].deleted \in BOOLEAN
        BY <1>1, <4>1 DEF TypeInv, LoopTyped, Loop, Table, Written
      <4>3. loop.changes[r].ts <= Reached(u, r)
        BY <1>1, <2>6, <2>7, <4>1 DEF HasAtLeast, Reached
      <4>4. Kept(loop.changes[r]) \in Nat /\ Kept(loop.changes[r]) <= loop.changes[r].ts
        BY <4>2, KeptFacts
      <4>5. local'[r] <= Reached(u, r)'
        BY <2>3, <4>1, <4>2, <4>3, <4>4
      <4> QED BY <2>u, <4>5
    <3>2. CASE ~Takes(r)
      <4>1. outbox[r] = Absent /\ local'[r] = local[r]
        BY <1>1, <2>7, <3>2 DEF ApplyServerChanges
      <4>2. local[r] <= Reached(u, r)
        BY <1>1, <2>1, <4>1 DEF BaseOK
      <4>3. local'[r] <= Reached(u, r)'
        BY <2>3, <4>1, <4>2
      <4> QED BY <2>u, <4>3
    <3> QED BY <3>1, <3>2
  <2>8. CASE AckOutbox
    <3>1. local'[r] = local[r] /\ (outbox[r] = loop.batch[r] \/ outbox[r] = Absent)
      BY <1>1, <2>8 DEF AckOutbox, Acked
    <3>2. local[r] <= Reached(u, r)
      <4>1. CASE outbox[r] = Absent
        BY <1>1, <2>1, <4>1 DEF BaseOK
      <4>2. CASE outbox[r] # Absent /\ outbox[r] = loop.batch[r]
        <5>1. outbox[r].ts \in Nat /\ outbox[r].deleted \in BOOLEAN
          BY <1>1, <4>2 DEF TypeInv, DeviceTyped, Staging, Written
        <5>2. Kept(outbox[r]) \in Nat /\ Kept(outbox[r]) <= outbox[r].ts
          BY <5>1, KeptFacts
        <5>3. outbox[r].ts <= Reached(u, r)
          BY <1>1, <2>6, <2>8, <4>2 DEF HasAtLeast, Reached
        <5>4. local[r] = Kept(outbox[r])
          BY <1>1, <4>2 DEF LoopInv, StagedAsKept
        <5> QED BY <2>3, <5>1, <5>2, <5>3, <5>4
      <4> QED BY <3>1, <4>1, <4>2
    <3>3. local'[r] <= Reached(u, r)'
      BY <2>3, <3>1, <3>2
    <3> QED BY <2>u, <3>3
  <2>9. \/ UNCHANGED <<local, outbox>> \/ ApplyServerChanges \/ AckOutbox
        \/ \E q \in Row, deleted \in BOOLEAN : Edit(q, deleted)
    BY <1>3 DEF Goes, SignOut, vars, deviceVars, LoopStep, OtherDevice, StartSync, Serve, LoopFails,
       CheckState, SaveState
  <2>10. CASE \E q \in Row, deleted \in BOOLEAN : Edit(q, deleted)
    <3>1. outbox'[r] = outbox[r] /\ local'[r] = local[r]
      BY <2>5, <2>10
    <3>2. local[r] <= Reached(u, r)
      BY <1>1, <2>1, <3>1 DEF BaseOK
    <3>3. local'[r] <= Reached(u, r)'
      BY <2>3, <3>1, <3>2
    <3> QED BY <2>u, <3>3
  <2> QED BY <2>4, <2>7, <2>8, <2>9, <2>10
<1> QED BY <1>2, <1>3, FlowMoves

\* Who the device belongs to.
LEMMA StateMoves ==
  ASSUME TypeInv, [Next]_vars
  PROVE  \/ state' = state
         \/ ClearState /\ state' = NoState
         \/ SaveBase /\ state' = [account |-> flow.user, cursor |-> 0] /\ flow.user \in User
         \/ SaveState /\ state' = [account |-> loop.user, cursor |-> loop.cursor] /\ loop.user \in User
<1>1. SaveBase => state' = [account |-> flow.user, cursor |-> 0] /\ flow.user \in User
  BY DEF SaveBase, BaseState, TypeInv, FlowTyped, Joining
<1>2. SaveState => state' = [account |-> loop.user, cursor |-> loop.cursor] /\ loop.user \in User
  BY DEF SaveState, TypeInv, LoopTyped
<1>3. UNCHANGED state \/ (ClearState /\ state' = NoState) \/ SaveBase \/ SaveState
  BY DEF Next, vars, deviceVars, SignUp, SignIn, Enters, ConfirmReplace, SignOut, DeleteAccount, Erase,
     CloseTab, Replace, Edit, OtherDevice, SignInStep, LoopStep, Me, MeFails, Seed, Pull, ClearState,
     ClearOutbox, StartSync, Serve, LoopFails, ApplyServerChanges, AckOutbox, CheckState
<1> QED BY <1>1, <1>2, <1>3

\* An account that is being deleted is not one that lives on.
LEMMA UnstateMoves ==
  ASSUME TypeInv, [Next]_vars, flow.step = "unstate"
  PROVE  flow'.step = "unstate" \/ ClearState \/ CloseTab
<1>1. flow # NoFlow /\ flow \in Flow
  BY DEF NoFlow, TypeInv, FlowTyped
<1>2. flow'.step = flow.step \/ ClearState \/ CloseTab
  BY <1>1, GivenFacts DEF Next, vars, SignUp, SignIn, Enters, ConfirmReplace, DeleteAccount, Erase,
     Replace, Edit, OtherDevice, SignInStep, LoopStep, Me, MeFails, Seed, Pull, SaveBase,
     ClearOutbox, StartSync, Serve, LoopFails, ApplyServerChanges, AckOutbox, CheckState, SaveState
<1> QED BY <1>2

\* A device whose account is deleted gives up its state before what is staged.
LEMMA GoneNext == ASSUME TypeInv, LoopInv, GoneOK, [Next]_vars PROVE GoneOK'
<1>1. ASSUME flow'.step = "unstage", Clean' PROVE state' = NoState
  <2>1. Clean
    BY <1>1, TroubleStays
  <2>2. CASE ClearState
    BY <2>2 DEF ClearState
  <2>3. CASE SameFlow /\ Goes
    <3>1. state = NoState
      BY <1>1, <2>1, <2>3 DEF GoneOK, SameFlow
    <3>2. ~SaveState
      BY <1>1, <3>1 DEF SaveState, Raced, Overwrites, SameAccount, Clean
    <3>3. ~SaveBase
      BY <1>1, <2>3 DEF SaveBase, SameFlow
    <3> QED BY <3>1, <3>2, <3>3, StateMoves
  <2> QED BY <1>1, <2>2, <2>3, FlowMoves
<1>2. ASSUME trouble' = {}, state' # NoState
      PROVE  server'[state'.account].exists \/ flow'.step = "unstate"
  <2>1. ASSUME NEW v \in User, server[v].exists, state'.account = v
        PROVE  server'[state'.account].exists \/ flow'.step = "unstate"
    <3>1. DeleteAccount => flow'.step = "unstate"
      BY DEF DeleteAccount, NoFlow
    <3> QED BY <2>1, <3>1, LivesOn
  <2>2. CASE SaveBase /\ state' = [account |-> flow.user, cursor |-> 0] /\ flow.user \in User
    <3>1. server[flow.user].exists
      BY <2>2 DEF SaveBase, LoopInv, Lives, Joining
    <3> QED BY <2>1, <2>2, <3>1
  <2>3. CASE state # NoState /\ trouble = {} /\ state'.account = state.account
    <3>1. state.account \in User
      BY <2>3 DEF TypeInv, DeviceTyped, State
    <3>2. CASE server[state.account].exists
      BY <2>1, <2>3, <3>1, <3>2
    <3>3. CASE flow.step = "unstate"
      <4>1. ~ClearState
        BY <1>2 DEF ClearState
      <4>2. ~CloseTab
        BY <1>2, <2>3, <3>3 DEF CloseTab
      <4> QED BY <3>3, <4>1, <4>2, UnstateMoves
    <3> QED BY <2>3, <3>2, <3>3 DEF GoneOK
  <2>4. CASE SaveState /\ state' = [account |-> loop.user, cursor |-> loop.cursor] /\ loop.user \in User
    <3>1. ~Overwrites /\ loop.pc = "checked"
      BY <1>2, <2>4 DEF SaveState, Raced
    <3>2. state # NoState /\ state.account = loop.user
      BY <3>1 DEF Overwrites, SameAccount
    <3>3. trouble = {}
      BY <1>2, <2>4 DEF SaveState, Raced
    <3> QED BY <2>3, <2>4, <3>2, <3>3
  <2>5. CASE state' = state /\ ~SaveBase
    <3>1. trouble = {}
      BY <1>2, <2>5, TroubleStays
    <3> QED BY <1>2, <2>3, <2>5, <3>1
  <2>6. SaveBase => state' = [account |-> flow.user, cursor |-> 0] /\ flow.user \in User
    BY DEF SaveBase, BaseState, TypeInv, FlowTyped, Joining
  <2> QED BY <1>2, <2>2, <2>4, <2>5, <2>6, StateMoves
<1> QED BY <1>1, <1>2 DEF GoneOK

\* Row by row. A row that is written under a number past the cursor is unread.
Later(stored, next, top) ==
  \/ next = stored
  \/ next # Absent /\ top < next.seq /\ (IF stored = Absent THEN 0 ELSE stored.ts) < next.ts
LEMMA AgreesLater ==
  ASSUME NEW kept \in Nat, NEW staged, NEW stored, NEW next, NEW cursor \in Nat, NEW top \in Nat,
         StoredTyped(stored), StoredTyped(next), Later(stored, next, top), cursor <= top,
         AgreesAs(kept, staged, stored, cursor)
  PROVE  AgreesAs(kept, staged, next, cursor)
BY DEF AgreesAs, Later, StoredTyped, ChangeTyped
LEMMA AnswersLater ==
  ASSUME NEW read, NEW sent, NEW stored, NEW next, NEW from \in Nat, NEW to \in Nat, NEW top \in Nat,
         StoredTyped(stored), StoredTyped(next), Later(stored, next, top), to <= top,
         AnswersAs(stored, read, sent, from, to)
  PROVE  AnswersAs(next, read, sent, from, to)
BY DEF AnswersAs, Later, StoredTyped, ChangeTyped
LEMMA LetsGoLater ==
  ASSUME NEW staged, NEW read, NEW stored, NEW next, NEW to \in Nat, NEW top \in Nat,
         StoredTyped(stored), StoredTyped(next), Later(stored, next, top), to <= top,
         LetsGoAs(staged, read, stored, to)
  PROVE  LetsGoAs(staged, read, next, to)
BY DEF LetsGoAs, Later, StoredTyped, ChangeTyped

\* The answer, as the account is when it is given.
LEMMA AnswersNow ==
  ASSUME NEW stored, NEW after, NEW read, NEW sent, NEW from \in Nat, NEW to \in Nat, NEW wins \in BOOLEAN,
         StoredTyped(stored), ChangeTyped(read),
         wins => /\ read # Absent /\ after # Absent /\ after.seq = to
                 /\ after.ts = read.ts /\ after.deleted = read.deleted
                 /\ stored # Absent => stored.ts < read.ts,
         ~wins => /\ after = stored
                  /\ read # Absent => stored # Absent /\ read.ts <= stored.ts /\ sent = stored,
         sent # Absent => sent = stored,
         stored # Absent /\ from < stored.seq => sent = stored
  PROVE  AnswersAs(after, read, sent, from, to)
<1>1. CASE wins
  BY <1>1 DEF AnswersAs, Pushed, Same, StoredTyped, ChangeTyped
<1>2. CASE ~wins
  <2>1. ~Pushed(read, sent)
    BY <1>2 DEF Pushed, StoredTyped, ChangeTyped
  <2> QED BY <1>2, <2>1 DEF AnswersAs
<1> QED BY <1>1, <1>2

\* What of it is newer than what the device has is applied.
TakesAs(kept, staged, sent) ==
  sent # Absent /\ (staged # Absent => staged.ts <= sent.ts) /\ kept <= sent.ts
LEMMA AppliedTaken ==
  ASSUME NEW kept \in Nat, NEW staged, NEW stored, NEW read, NEW sent, NEW from \in Nat, NEW to \in Nat,
         ChangeTyped(staged), ChangeTyped(read), StoredTyped(stored), StoredTyped(sent), from <= to,
         StagedAs(staged, read), AnswersAs(stored, read, sent, from, to),
         sent # Absent => stored # Absent /\ sent.ts <= stored.ts,
         TakesAs(kept, staged, sent)
  PROVE  /\ AgreesAs(Kept(sent), Absent, stored, from) /\ AgreesAs(Kept(sent), Absent, stored, to)
         /\ LetsGoAs(Absent, read, stored, to)
<1>1. sent # Absent /\ stored # Absent /\ sent.ts <= stored.ts /\ sent.ts \in Nat /\ stored.ts \in Nat /\ stored.seq \in Nat
  BY DEF TakesAs, StoredTyped, ChangeTyped
<1>2. ~Pushed(read, sent)
  BY <1>1 DEF Pushed, TakesAs, StagedAs, ChangeTyped
<1>3. stored = sent \/ to < stored.seq
  BY <1>1, <1>2 DEF AnswersAs
<1>4. Kept(sent) \in Nat /\ Kept(sent) <= sent.ts
  BY <1>1, KeptFacts DEF StoredTyped, ChangeTyped
<1>5. Kept(sent) <= stored.ts
  BY <1>1, <1>4
<1>6. stored.seq <= to => stored = sent
  BY <1>1, <1>3
<1>7. stored.seq <= from => stored = sent
  BY <1>1, <1>6
<1> QED BY <1>1, <1>5, <1>6, <1>7 DEF AgreesAs, LetsGoAs
LEMMA AppliedLeft ==
  ASSUME NEW kept \in Nat, NEW staged, NEW stored, NEW read, NEW sent, NEW from \in Nat, NEW to \in Nat,
         ChangeTyped(staged), ChangeTyped(read), StoredTyped(stored), StoredTyped(sent), from <= to,
         StagedAs(staged, read), AnswersAs(stored, read, sent, from, to), AgreesAs(kept, staged, stored, from),
         staged # Absent => kept = Kept(staged),
         ~TakesAs(kept, staged, sent)
  PROVE  AgreesAs(kept, staged, stored, to) /\ LetsGoAs(staged, read, stored, to)
<1>1. ASSUME staged = Absent PROVE AgreesAs(kept, staged, stored, to)
  <2>1. read = Absent /\ ~Pushed(read, sent) /\ kept <= IF stored = Absent THEN 0 ELSE stored.ts
    BY <1>1 DEF StagedAs, Pushed, AgreesAs
  <2>2. CASE stored = Absent \/ (stored # Absent /\ stored.seq <= from)
    BY <1>1, <2>1, <2>2 DEF AgreesAs
  <2>3. CASE stored # Absent /\ from < stored.seq /\ stored.seq <= to
    <3>1. sent = stored
      BY <2>1, <2>3 DEF AnswersAs
    <3> QED BY <1>1, <2>1, <2>3, <3>1 DEF TakesAs
  <2>4. CASE stored # Absent /\ ~(stored.seq <= to)
    BY <2>1, <2>4 DEF AgreesAs
  <2> QED BY <2>2, <2>3, <2>4 DEF StoredTyped
<1>2. staged # Absent => AgreesAs(kept, staged, stored, to)
  BY DEF AgreesAs
<1>3. ASSUME read # Absent, staged = read PROVE Pushed(read, sent)
  <2>1. kept <= read.ts /\ read.ts \in Nat
    BY <1>3, KeptFacts DEF ChangeTyped
  <2> QED BY <1>3, <2>1 DEF Pushed, TakesAs, StoredTyped, ChangeTyped
<1>4. LetsGoAs(staged, read, stored, to)
  BY <1>3 DEF LetsGoAs, AnswersAs
<1> QED BY <1>1, <1>2, <1>4

\* What the loop lets go of is what the account has, or older.
LEMMA LetGo ==
  ASSUME NEW kept \in Nat, NEW read, NEW stored, NEW from \in Nat, NEW to \in Nat,
         ChangeTyped(read), StoredTyped(stored), from <= to, read # Absent, kept = Kept(read),
         stored # Absent, read.ts <= stored.ts, LetsGoAs(read, read, stored, to)
  PROVE  AgreesAs(kept, Absent, stored, from) /\ AgreesAs(kept, Absent, stored, to)
<1>1. kept <= read.ts /\ read.ts \in Nat /\ stored.ts \in Nat /\ stored.seq \in Nat
  BY KeptFacts DEF ChangeTyped, StoredTyped
<1>2. stored.seq <= to => kept = Kept(stored)
  BY DEF LetsGoAs, Same, Kept
<1> QED BY <1>1, <1>2 DEF AgreesAs

\* The account while it goes on, row by row.
LEMMA GrowsLater ==
  ASSUME TypeInv, TypeInv', state # NoState, state' # NoState, NEW v \in User, Grows(v), NEW r \in Row
  PROVE  Later(server[v].rows[r], server'[v].rows[r], server[v].top)
BY DEF Grows, Renewed, Reached, Later

\* A quiet device was quiet before, but for the step that records a new state.
LEMMA QuietBefore ==
  ASSUME TypeInv, GoneOK, [Next]_vars, Quiet', ~SaveBase
  PROVE  Quiet /\ state'.account = state.account /\ server[state.account].exists
<1>1. trouble = {} /\ trouble' = {}
  BY TroubleStays DEF Quiet
<1>2. ASSUME state # NoState
      PROVE  flow.step \in {"none", "me"}
  <2>1. ~ClearOutbox
    BY <1>1, <1>2 DEF ClearOutbox, GoneOK, Clean
  <2>2. CloseTab => flow.step \in {"none", "me"}
    BY <1>1, <1>2 DEF CloseTab
  <2>3. SignOut => flow'.step = flow.step
    BY GivenFacts
  <2>4. ASSUME ConfirmReplace \/ DeleteAccount \/ ClearState \/ Seed \/ Pull PROVE FALSE
    <3>1. flow \in Flow
      BY DEF TypeInv, FlowTyped
    <3>2. flow'.step \notin {"none", "me"}
      BY <2>4, <3>1 DEF ConfirmReplace, DeleteAccount, ClearState, Seed, Pull, Join, NoFlow, Flow
    <3> QED BY <3>2 DEF Quiet
  <2>5. ASSUME NEW u \in User, SignUp(u) \/ SignIn(u) PROVE flow.step = "none"
    BY <2>5 DEF SignUp, SignIn, Enters, NoFlow
  <2>6. Me \/ MeFails => flow.step = "me"
    BY DEF Me, MeFails
  <2>7. UNCHANGED flow => flow.step \in {"none", "me"}
    BY DEF Quiet
  <2>8. \/ UNCHANGED flow \/ Me \/ MeFails \/ ConfirmReplace \/ DeleteAccount \/ ClearState \/ Seed \/ Pull
        \/ SignOut \/ CloseTab \/ ClearOutbox \/ \E u \in User : SignUp(u) \/ SignIn(u)
    BY DEF Next, vars, Erase, Replace, Edit, OtherDevice, SignInStep, LoopStep, SaveBase,
       StartSync, Serve, LoopFails, ApplyServerChanges, AckOutbox, CheckState, SaveState
  <2> QED BY <2>1, <2>2, <2>3, <2>4, <2>5, <2>6, <2>7, <2>8 DEF Quiet
<1>3. state # NoState /\ state'.account = state.account
  <2>1. CASE SaveState /\ state' = [account |-> loop.user, cursor |-> loop.cursor]
    <3>1. ~Overwrites /\ loop.pc = "checked"
      BY <1>1, <2>1 DEF SaveState, Raced
    <3> QED BY <2>1, <3>1 DEF Overwrites, SameAccount
  <2>2. CASE state' = state
    BY <2>2 DEF Quiet
  <2>3. ~(ClearState /\ state' = NoState)
    BY DEF Quiet
  <2> QED BY <2>1, <2>2, <2>3, StateMoves
<1>4. server[state.account].exists
  BY <1>1, <1>2, <1>3 DEF GoneOK
<1> QED BY <1>1, <1>2, <1>3, <1>4 DEF Quiet

\* While nothing is written here and the cursor stays, the account's own growth
\* changes nothing for the state's cursor ...
LEMMA StateSteady ==
  ASSUME TypeInv, TypeInv', state # NoState, state' = state, UNCHANGED <<local, outbox>>,
         Grows(state.account), StateAgrees
  PROVE  StateAgrees'
<1>1. CursorsTyped /\ CursorsTyped' /\ (\A r \in Row : RowTyped(r) /\ RowTyped(r)')
  BY RowsTyped, RowsTypedNext
<1>2. state.cursor <= server'[state.account].top
  BY <1>1 DEF CursorsTyped, StateAgrees, Grows
<1>3. ASSUME NEW r \in Counted PROVE AgreesTo(r, state.cursor)'
  <2>1. r \in Row
    BY DEF Counted
  <2>2. Later(server[state.account].rows[r], server'[state.account].rows[r], server[state.account].top)
    BY <1>1, <2>1, GrowsLater DEF CursorsTyped
  <2>3. RowTyped(r) /\ RowTyped(r)' /\ AgreesTo(r, state.cursor)
    BY <1>1, <2>1 DEF StateAgrees
  <2>4. AgreesAs(local[r], outbox[r], server'[state.account].rows[r], state.cursor)
    BY <1>1, <2>2, <2>3, AgreesLater DEF CursorsTyped, StateAgrees, RowTyped, AgreesTo
  <2> QED BY <2>4 DEF AgreesTo
<1> QED BY <1>2, <1>3 DEF StateAgrees

\* ... or for the loop's.
LEMMA LoopSteady ==
  ASSUME TypeInv, TypeInv', state # NoState, state' = state, UNCHANGED <<local, outbox>>, SameLoop,
         Grows(state.account), StateAgrees, OnCourse, CursorsOK, \A r \in Counted : LoopAgrees(r)
  PROVE  CursorsOK' /\ \A r \in Counted : LoopAgrees(r)'
<1>1. CursorsTyped /\ CursorsTyped' /\ (\A r \in Row : RowTyped(r) /\ RowTyped(r)')
  BY RowsTyped, RowsTypedNext
<1>2. /\ loop'.pc = loop.pc /\ loop'.cursor = loop.cursor /\ loop'.batch = loop.batch
      /\ loop'.changes = loop.changes
  BY DEF SameLoop, LoopAs
<1>3. CursorsOK' /\ loop.cursor <= server[state.account].top
  BY <1>1, <1>2 DEF CursorsTyped, CursorsOK, Grows, StateAgrees
<1>4. ASSUME NEW r \in Counted PROVE LoopAgrees(r)'
  <2> DEFINE stored == server[state.account].rows[r]
             next == server'[state.account].rows[r]
  <2>1. r \in Row
    BY DEF Counted
  <2>2. Later(stored, next, server[state.account].top)
    BY <1>1, <2>1, GrowsLater DEF CursorsTyped
  <2>3. /\ local[r] \in Nat /\ StoredTyped(stored) /\ StoredTyped(next)
        /\ state.cursor \in Nat /\ loop.cursor \in Nat /\ server[state.account].top \in Nat
    BY <1>1, <2>1 DEF CursorsTyped, RowTyped
  <2>4. LoopAgrees(r)
    OBVIOUS
  <2>5. StillStagedOK(r)'
    BY <1>2, <2>4 DEF LoopAgrees, StillStagedOK
  <2>6. AnswerOK(r)'
    <3>1. ASSUME loop.pc = "replied"
          PROVE  AnswersAs(next, loop.batch[r], loop.changes[r], state.cursor, loop.cursor)
      <4>1. AnswersAs(stored, loop.batch[r], loop.changes[r], state.cursor, loop.cursor)
        BY <2>4, <3>1 DEF LoopAgrees, AnswerOK
      <4> HIDE DEF stored, next
      <4> QED BY <1>3, <2>2, <2>3, <4>1, AnswersLater
    <3> QED BY <1>2, <3>1 DEF AnswerOK
  <2>7. LetGoOK(r)'
    <3>1. ASSUME loop.pc = "applied" PROVE LetsGoAs(outbox[r], loop.batch[r], next, loop.cursor)
      <4>1. LetsGoAs(outbox[r], loop.batch[r], stored, loop.cursor)
        BY <2>4, <3>1 DEF LoopAgrees, LetGoOK
      <4> HIDE DEF stored, next
      <4> QED BY <1>3, <2>2, <2>3, <4>1, LetsGoLater
    <3> QED BY <1>2, <3>1 DEF LetGoOK
  <2>8. CursorOK(r)'
    <3>1. ASSUME loop.pc \in {"applied", "acked", "checked"}
          PROVE  AgreesAs(local[r], outbox[r], next, loop.cursor)
      <4>1. AgreesAs(local[r], outbox[r], stored, loop.cursor)
        BY <2>4, <3>1 DEF LoopAgrees, CursorOK, AgreesTo
      <4> HIDE DEF stored, next
      <4> QED BY <1>3, <2>2, <2>3, <4>1, AgreesLater
    <3> QED BY <1>2, <3>1 DEF CursorOK, AgreesTo
  <2> QED BY <2>5, <2>6, <2>7, <2>8 DEF LoopAgrees
<1> QED BY <1>3, <1>4

\* A device that has just recorded its state has heard of nothing yet.
LEMMA MirrorSaveBase ==
  ASSUME TypeInv, LoopInv, BaseOK, SaveBase, Quiet', TypeInv', Clean
  PROVE  StateAgrees' /\ ~OnCourse'
<1>1. PICK u \in User : u = flow.user
  BY DEF SaveBase, TypeInv, FlowTyped, Joining
<1>2. UNCHANGED <<server, local, outbox>> /\ state'.account = u /\ state'.cursor = 0 /\ flow.step = "base"
  BY <1>1 DEF SaveBase, BaseState
<1>3. ~OnCourse'
  BY TurnsFacts DEF Turns
<1>4. CursorsTyped' /\ \A r \in Row : RowTyped(r)'
  BY RowsTypedNext DEF Quiet
<1>5. ASSUME NEW r \in Counted PROVE AgreesTo(r, state.cursor)'
  <2>1. r \in Row /\ RowTyped(r)'
    BY <1>4 DEF Counted
  <2>2. outbox[r] = Absent => local[r] <= Reached(u, r)
    BY <1>1, <1>2 DEF BaseOK
  <2>3. server[u].rows[r] # Absent => 0 < server[u].rows[r].seq
    BY <1>1, <2>1 DEF LoopInv, Numbered
  <2>4. server[u].rows[r] # Absent => server[u].rows[r].seq \in Nat
    BY <1>2, <2>1 DEF RowTyped, StoredTyped
  <2>5. local[r] \in Nat
    BY <1>2, <2>1 DEF RowTyped
  <2>6. AgreesAs(local[r], outbox[r], server[u].rows[r], 0)
    BY <2>2, <2>3, <2>4, <2>5 DEF AgreesAs, Reached
  <2> QED BY <1>2, <2>6 DEF AgreesTo
<1>6. state'.cursor <= server'[state'.account].top
  BY <1>2, <1>4 DEF CursorsTyped
<1> QED BY <1>3, <1>5, <1>6 DEF StateAgrees

\* A write here is staged, and newer than what a loop has read.
LEMMA MirrorEdit ==
  ASSUME TypeInv, TypeInv', Quiet, Quiet', MirrorOK, NEW q \in Row, NEW deleted \in BOOLEAN, Edit(q, deleted)
  PROVE  MirrorOK'
<1>1. UNCHANGED <<server, state, flow, loop>> /\ Writing
  BY DEF Edit
<1>2. now' \in Nat /\ now \in Nat /\ now < now'
  BY <1>1 DEF Writing, TypeInv, TimeTyped
<1>3. [ts |-> now', deleted |-> deleted] # Absent
  <2>1. [ts |-> now', deleted |-> deleted] \in [ts : Nat, deleted : BOOLEAN]
    BY <1>2
  <2> QED BY <2>1, NoneAssumption
<1>4. /\ outbox'[q] # Absent /\ outbox'[q].ts = now'
      /\ \A r \in Row : r # q => outbox'[r] = outbox[r] /\ local'[r] = local[r]
  <2>1. outbox \in Staging /\ local \in [Row -> 0..now]
    BY DEF TypeInv, DeviceTyped
  <2>2. /\ outbox' = [outbox EXCEPT ![q] = [ts |-> now', deleted |-> deleted]]
        /\ local' = [local EXCEPT ![q] = IF deleted THEN 0 ELSE now']
    BY DEF Edit
  <2> QED BY <1>3, <2>1, <2>2 DEF Staging
<1>5. loop.batch[q] # Absent => loop.batch[q].ts \in Nat /\ loop.batch[q].ts <= now
  <2>1. loop.batch \in Staging
    BY DEF TypeInv, LoopTyped, Loop
  <2>2. loop.batch[q] # Absent => loop.batch[q].ts \in Written
    BY <2>1 DEF Staging
  <2> QED BY <1>2, <2>2 DEF Written
<1>6. ASSUME NEW r \in Counted, NEW cursor, AgreesTo(r, cursor)
      PROVE  AgreesAs(local'[r], outbox'[r], server'[state'.account].rows[r], cursor)
  BY <1>1, <1>4, <1>6 DEF AgreesTo, AgreesAs, Counted
<1>7. StateAgrees'
  BY <1>1, <1>6 DEF MirrorOK, StateAgrees, AgreesTo
<1>8. ASSUME OnCourse, NEW r \in Counted PROVE LoopAgrees(r)'
  <2>1. LoopAgrees(r) /\ r \in Row
    BY <1>8 DEF MirrorOK, Counted
  <2>2. StillStagedOK(r)'
    BY <1>1, <1>2, <1>4, <1>5, <2>1 DEF LoopAgrees, StillStagedOK, StagedAs
  <2>3. AnswerOK(r)'
    BY <1>1, <2>1 DEF LoopAgrees, AnswerOK
  <2>4. LetGoOK(r)'
    <3>1. CASE r = q
      <4>1. loop.batch[q] # Absent => outbox'[q] # loop.batch[q]
        BY <1>2, <1>4, <1>5
      <4> QED BY <1>1, <3>1, <4>1 DEF LetGoOK, LetsGoAs
    <3>2. CASE r # q
      BY <1>1, <1>4, <2>1, <3>2 DEF LoopAgrees, LetGoOK
    <3> QED BY <3>1, <3>2
  <2>5. CursorOK(r)'
    BY <1>1, <1>6, <2>1 DEF LoopAgrees, CursorOK, AgreesTo
  <2> QED BY <2>2, <2>3, <2>4, <2>5 DEF LoopAgrees
<1>9. OnCourse => CursorsOK'
  BY <1>1 DEF MirrorOK, CursorsOK
<1>10. OnCourse' => OnCourse
  BY <1>1 DEF OnCourse
<1> QED BY <1>7, <1>8, <1>9, <1>10 DEF MirrorOK

\* A loop starts with the state's cursor, and with all that is staged.
LEMMA StartsAgree ==
  ASSUME TypeInv', Quiet', loop'.pc = "sent", loop'.cursor = state'.cursor, loop'.batch = outbox'
  PROVE  CursorsOK' /\ \A r \in Counted : LoopAgrees(r)'
<1>1. \A r \in Row : RowTyped(r)'
  BY RowsTypedNext DEF Quiet
<1>2. ASSUME NEW r \in Counted PROVE LoopAgrees(r)'
  <2>1. RowTyped(r)'
    BY <1>1 DEF Counted
  <2>2. StillStagedOK(r)'
    BY <2>1 DEF StillStagedOK, StagedAs, RowTyped, ChangeTyped
  <2> QED BY <2>2 DEF LoopAgrees, AnswerOK, LetGoOK, CursorOK
<1> QED BY <1>2 DEF CursorsOK

\* The server's answer is what the account is at the answer's cursor.
LEMMA MirrorServe ==
  ASSUME TypeInv, TypeInv', LoopInv, Quiet, Quiet', MirrorOK, Serve
  PROVE  MirrorOK'
<1>1. state' = state /\ UNCHANGED <<local, outbox>> /\ loop.pc = "sent" /\ state # NoState
  BY DEF Serve, deviceVars, Quiet
<1>2. CursorsTyped /\ CursorsTyped' /\ \A r \in Row : RowTyped(r) /\ RowTyped(r)'
  BY <1>1, RowsTyped, RowsTypedNext
<1>3. StateAgrees'
  <2>1. Grows(state.account)
    BY <1>2, ServeGrows DEF CursorsTyped
  <2> QED BY <1>1, <2>1, StateSteady DEF MirrorOK
<1>4. ASSUME OnCourse' PROVE CursorsOK' /\ \A r \in Counted : LoopAgrees(r)'
  <2>1. /\ LoopAs("replied", server'[loop.user].top, loop.batch, loop'.changes)
        /\ \A r \in Row : Answers(r)
    BY ServeFacts
  <2>2. OnCourse /\ loop.user = state.account
    BY <1>1, <1>4, <2>1 DEF OnCourse, LoopAs, LoopInv, SameCourse
  <2>3. loop.cursor = state.cursor /\ \A r \in Counted : LoopAgrees(r)
    BY <1>1, <2>2 DEF MirrorOK, CursorsOK
  <2>4. loop'.pc = "replied" /\ loop'.cursor = server'[state.account].top /\ loop'.batch = loop.batch
    BY <2>1, <2>2 DEF LoopAs
  <2>5. CursorsOK'
    BY <1>1, <1>2, <1>3, <2>4 DEF CursorsOK, StateAgrees, CursorsTyped
  <2>6. ASSUME NEW r \in Counted PROVE LoopAgrees(r)'
    <3> DEFINE stored == server[state.account].rows[r]
               after == server'[state.account].rows[r]
               to == server'[state.account].top
    <3>1. r \in Row /\ LoopAgrees(r) /\ Answers(r)
      BY <2>1, <2>3 DEF Counted
    <3>2. StillStagedOK(r)'
      BY <1>1, <2>4, <3>1 DEF LoopAgrees, StillStagedOK
    <3>3. StoredTyped(stored) /\ ChangeTyped(loop.batch[r]) /\ state.cursor \in Nat /\ to \in Nat
      BY <1>1, <1>2, <3>1 DEF RowTyped, CursorsTyped
    <3>4. PICK wins \in BOOLEAN : wins <=> Wins(r)
      OBVIOUS
    <3>5. /\ wins => /\ loop.batch[r] # Absent /\ after # Absent /\ after.seq = to
                     /\ after.ts = loop.batch[r].ts /\ after.deleted = loop.batch[r].deleted
                     /\ stored # Absent => stored.ts < loop.batch[r].ts
          /\ ~wins => /\ after = stored
                      /\ loop.batch[r] # Absent =>
                           stored # Absent /\ loop.batch[r].ts <= stored.ts /\ loop'.changes[r] = stored
          /\ loop'.changes[r] # Absent => loop'.changes[r] = stored
          /\ stored # Absent /\ state.cursor < stored.seq => loop'.changes[r] = stored
      BY <2>2, <2>3, <3>1, <3>4 DEF Answers
    <3>6. AnswersAs(after, loop.batch[r], loop'.changes[r], state.cursor, to)
      <4> HIDE DEF after, stored, to
      <4> QED BY <3>3, <3>5, AnswersNow
    <3>7. AnswerOK(r)'
      BY <1>1, <2>4, <3>6 DEF AnswerOK
    <3> QED BY <2>4, <3>2, <3>7 DEF LoopAgrees, LetGoOK, CursorOK
  <2> QED BY <2>5, <2>6
<1> QED BY <1>3, <1>4 DEF MirrorOK

\* What a loop that is not overtaken holds of an account that goes on is there.
LEMMA QuietHolds ==
  ASSUME TypeInv, LoopInv, Quiet, loop.pc \in {"replied", "applied"}, ~loop.stale
  PROVE  /\ OnCourse /\ loop.user = state.account
         /\ \A r \in Row : /\ loop.changes[r] # Absent =>
                                /\ server[state.account].rows[r] # Absent
                                /\ loop.changes[r].ts <= server[state.account].rows[r].ts
                           /\ loop.batch[r] # Absent =>
                                /\ server[state.account].rows[r] # Absent
                                /\ loop.batch[r].ts <= server[state.account].rows[r].ts
<1>1. OnCourse /\ Waits /\ flow.step # "unstate"
  BY DEF OnCourse, Waits, Quiet
<1>2. loop.user = state.account
  BY <1>1 DEF LoopInv, SameCourse, Waits
<1> QED BY <1>1, <1>2 DEF LoopInv, Held, HasAtLeast

\* What is applied brings the rows up to the answer's cursor.
LEMMA MirrorApply ==
  ASSUME TypeInv, TypeInv', LoopInv, Quiet, Quiet', MirrorOK, ApplyServerChanges
  PROVE  MirrorOK'
<1>1. /\ UNCHANGED <<server, state, flow>> /\ loop.pc = "replied" /\ ~loop.stale
      /\ LoopAs("applied", loop.cursor, loop.batch, NothingStaged)
  BY ApplyFacts DEF ApplyServerChanges, Raced, Late, Quiet
<1>2. CursorsTyped /\ CursorsTyped' /\ \A r \in Row : RowTyped(r) /\ RowTyped(r)'
  BY RowsTyped, RowsTypedNext DEF Quiet
<1>3. /\ StateAgrees /\ CursorsOK /\ state.cursor <= loop.cursor
      /\ \A r \in Counted : LoopAgrees(r)
  BY <1>1, QuietHolds DEF MirrorOK, CursorsOK
<1>4. loop'.pc = "applied" /\ loop'.cursor = loop.cursor /\ loop'.batch = loop.batch
  BY <1>1 DEF LoopAs
<1>5. ASSUME NEW r \in Counted
      PROVE  /\ AgreesAs(local'[r], outbox'[r], server[state.account].rows[r], state.cursor)
             /\ AgreesAs(local'[r], outbox'[r], server[state.account].rows[r], loop.cursor)
             /\ LetsGoAs(outbox'[r], loop.batch[r], server[state.account].rows[r], loop.cursor)
  <2> DEFINE stored == server[state.account].rows[r]
             read == loop.batch[r]
             sent == loop.changes[r]
  <2>1. r \in Row /\ RowTyped(r) /\ LoopAgrees(r) /\ AgreesTo(r, state.cursor)
    BY <1>2, <1>3 DEF Counted, StateAgrees
  <2>2. /\ local[r] \in Nat /\ ChangeTyped(outbox[r]) /\ ChangeTyped(read)
        /\ StoredTyped(stored) /\ StoredTyped(sent) /\ state.cursor \in Nat /\ loop.cursor \in Nat
    BY <1>2, <2>1 DEF RowTyped, CursorsTyped
  <2>3. /\ StagedAs(outbox[r], read) /\ AnswersAs(stored, read, sent, state.cursor, loop.cursor)
        /\ AgreesAs(local[r], outbox[r], stored, state.cursor)
    BY <1>1, <2>1 DEF LoopAgrees, StillStagedOK, AnswerOK, AgreesTo
  <2>4. sent # Absent => stored # Absent /\ sent.ts <= stored.ts
    BY <1>1, <2>1, QuietHolds
  <2>5. outbox[r] # Absent => local[r] = Kept(outbox[r])
    BY <2>1 DEF LoopInv, StagedAsKept
  <2>6. Takes(r) <=> TakesAs(local[r], outbox[r], sent)
    BY DEF Takes, TakesAs
  <2>7. /\ Takes(r) => local'[r] = Kept(sent) /\ outbox'[r] = Absent
        /\ ~Takes(r) => local'[r] = local[r] /\ outbox'[r] = outbox[r]
    BY <2>1 DEF ApplyServerChanges, Kept
  <2> HIDE DEF stored, read, sent
  <2>8. CASE Takes(r)
    <3>1. /\ AgreesAs(Kept(sent), Absent, stored, state.cursor) /\ AgreesAs(Kept(sent), Absent, stored, loop.cursor)
          /\ LetsGoAs(Absent, read, stored, loop.cursor)
      BY <1>3, <2>2, <2>3, <2>4, <2>6, <2>8, AppliedTaken
    <3> QED BY <2>7, <2>8, <3>1 DEF stored, read
  <2>9. CASE ~Takes(r)
    <3>1. AgreesAs(local[r], outbox[r], stored, loop.cursor) /\ LetsGoAs(outbox[r], read, stored, loop.cursor)
      BY <1>3, <2>2, <2>3, <2>5, <2>6, <2>9, AppliedLeft
    <3> QED BY <2>3, <2>7, <2>9, <3>1 DEF stored, read
  <2> QED BY <2>8, <2>9
<1>6. StateAgrees'
  BY <1>1, <1>3, <1>5 DEF StateAgrees, AgreesTo
<1>7. CursorsOK'
  BY <1>1, <1>3, <1>4 DEF CursorsOK
<1>8. ASSUME NEW r \in Counted PROVE LoopAgrees(r)'
  <2>1. StillStagedOK(r)' /\ AnswerOK(r)'
    BY <1>4 DEF StillStagedOK, AnswerOK
  <2>2. LetGoOK(r)' /\ CursorOK(r)'
    BY <1>1, <1>4, <1>5 DEF LetGoOK, CursorOK, AgreesTo
  <2> QED BY <2>1, <2>2 DEF LoopAgrees
<1> QED BY <1>6, <1>7, <1>8 DEF MirrorOK

\* What the loop lets go of is in the account.
LEMMA MirrorAck ==
  ASSUME TypeInv, TypeInv', LoopInv, Quiet, Quiet', MirrorOK, AckOutbox
  PROVE  MirrorOK'
<1>1. /\ UNCHANGED <<server, state, local, flow>> /\ loop.pc = "applied" /\ ~loop.stale
      /\ LoopAs("acked", loop.cursor, NothingStaged, loop.changes)
  BY AckFacts DEF AckOutbox, Raced, Late, Quiet
<1>2. CursorsTyped /\ \A r \in Row : RowTyped(r)
  BY RowsTyped DEF Quiet
<1>3. /\ StateAgrees /\ CursorsOK /\ state.cursor <= loop.cursor
      /\ \A r \in Counted : LoopAgrees(r)
  BY <1>1, QuietHolds DEF MirrorOK, CursorsOK
<1>4. loop'.pc = "acked" /\ loop'.cursor = loop.cursor
  BY <1>1 DEF LoopAs
<1>5. ASSUME NEW r \in Counted
      PROVE  /\ AgreesAs(local[r], outbox'[r], server[state.account].rows[r], state.cursor)
             /\ AgreesAs(local[r], outbox'[r], server[state.account].rows[r], loop.cursor)
  <2> DEFINE stored == server[state.account].rows[r]
             read == loop.batch[r]
  <2>1. r \in Row /\ RowTyped(r) /\ LoopAgrees(r) /\ AgreesTo(r, state.cursor)
    BY <1>2, <1>3 DEF Counted, StateAgrees
  <2>2. /\ local[r] \in Nat /\ ChangeTyped(read) /\ StoredTyped(stored)
        /\ state.cursor \in Nat /\ loop.cursor \in Nat
    BY <1>2, <2>1 DEF RowTyped, CursorsTyped
  <2>3. /\ AgreesAs(local[r], outbox[r], stored, state.cursor)
        /\ AgreesAs(local[r], outbox[r], stored, loop.cursor)
        /\ LetsGoAs(outbox[r], read, stored, loop.cursor)
    BY <1>1, <2>1 DEF LoopAgrees, LetGoOK, CursorOK, AgreesTo
  <2>4. outbox'[r] = outbox[r] \/ (outbox[r] # Absent /\ outbox[r] = read /\ outbox'[r] = Absent)
    BY <2>1 DEF AckOutbox, Acked
  <2>5. outbox[r] # Absent => local[r] = Kept(outbox[r])
    BY <2>1 DEF LoopInv, StagedAsKept
  <2>6. read # Absent => stored # Absent /\ read.ts <= stored.ts
    BY <1>1, <2>1, QuietHolds
  <2> HIDE DEF stored, read
  <2>7. CASE outbox'[r] = outbox[r]
    BY <2>3, <2>7 DEF stored
  <2>8. CASE outbox[r] # Absent /\ outbox[r] = read /\ outbox'[r] = Absent
    <3>1. AgreesAs(local[r], Absent, stored, state.cursor) /\ AgreesAs(local[r], Absent, stored, loop.cursor)
      BY <1>3, <2>2, <2>3, <2>5, <2>6, <2>8, LetGo
    <3> QED BY <2>8, <3>1 DEF stored
  <2> QED BY <2>4, <2>7, <2>8
<1>6. StateAgrees'
  BY <1>1, <1>3, <1>5 DEF StateAgrees, AgreesTo
<1>7. CursorsOK'
  BY <1>1, <1>3, <1>4 DEF CursorsOK
<1>8. ASSUME NEW r \in Counted PROVE LoopAgrees(r)'
  BY <1>1, <1>4, <1>5 DEF LoopAgrees, StillStagedOK, AnswerOK, LetGoOK, CursorOK, AgreesTo
<1> QED BY <1>6, <1>7, <1>8 DEF MirrorOK

\* A loop that still runs for the device's account goes on with its cursor.
LEMMA MirrorCheck ==
  ASSUME TypeInv, Quiet, Quiet', MirrorOK, CheckState
  PROVE  MirrorOK'
<1>1. UNCHANGED <<server, state, local, outbox, flow>> /\ loop.pc = "acked"
  BY DEF CheckState, deviceVars
<1>2. StateAgrees'
  BY <1>1 DEF MirrorOK, StateAgrees, AgreesTo
<1>3. ASSUME OnCourse' PROVE CursorsOK' /\ \A r \in Counted : LoopAgrees(r)'
  <2>1. LoopAs("checked", loop.cursor, loop.batch, loop.changes)
    BY <1>3, CheckFacts, OffCourse
  <2>2. OnCourse /\ loop'.pc = "checked" /\ loop'.cursor = loop.cursor
    BY <1>1, <1>3, <2>1 DEF OnCourse, LoopAs
  <2>3. CursorsOK'
    BY <1>1, <2>2 DEF MirrorOK, CursorsOK
  <2>4. ASSUME NEW r \in Counted PROVE LoopAgrees(r)'
    <3>1. LoopAgrees(r)
      BY <2>2 DEF MirrorOK
    <3> QED BY <1>1, <2>2, <3>1 DEF LoopAgrees, StillStagedOK, AnswerOK, LetGoOK, CursorOK, AgreesTo
  <2> QED BY <2>3, <2>4
<1> QED BY <1>2, <1>3 DEF MirrorOK

\* Its cursor becomes the state's.
LEMMA MirrorSave ==
  ASSUME TypeInv, TypeInv', Quiet, Quiet', MirrorOK, SaveState
  PROVE  MirrorOK'
<1>1. /\ UNCHANGED <<server, local, outbox, flow>> /\ loop.pc = "checked" /\ ~loop.stale /\ ~Overwrites
  BY DEF SaveState, Raced, Late, Quiet
<1>2. /\ state'.account = state.account /\ state'.cursor = loop.cursor /\ OnCourse
      /\ loop' = Resting \/ LoopAs("sent", loop.cursor, outbox, NothingStaged)
  BY <1>1, SavedFacts DEF Overwrites, SameAccount, OnCourse
<1>3. StateAgrees'
  <2>1. ASSUME NEW r \in Counted PROVE AgreesTo(r, state.cursor)'
    <3>1. AgreesTo(r, loop.cursor)
      BY <1>1, <1>2 DEF MirrorOK, LoopAgrees, CursorOK
    <3> QED BY <1>1, <1>2, <3>1 DEF AgreesTo
  <2> QED BY <1>1, <1>2, <2>1 DEF StateAgrees, MirrorOK, CursorsOK
<1>4. ASSUME OnCourse' PROVE CursorsOK' /\ \A r \in Counted : LoopAgrees(r)'
  <2>1. LoopAs("sent", loop.cursor, outbox, NothingStaged)
    BY <1>2, <1>4, OffCourse
  <2> QED BY <1>1, <1>2, <2>1, StartsAgree DEF LoopAs
<1> QED BY <1>3, <1>4 DEF MirrorOK

\* All other steps leave the device alone, while the account goes on.
LEMMA MirrorRest ==
  ASSUME TypeInv, TypeInv', Quiet, Quiet', MirrorOK, server[state.account].exists, [Next]_vars,
         (Turns /\ ~SaveBase) \/ Aside \/ StartSync,
         ~\E r \in Row, deleted \in BOOLEAN : Edit(r, deleted)
  PROVE  MirrorOK'
<1>1. flow \in Flow /\ state.account \in User
  BY DEF TypeInv, FlowTyped, DeviceTyped, State, Quiet
<1>2. ~Seed /\ ~Pull /\ ~ConfirmReplace /\ ~DeleteAccount /\ ~ClearState /\ ~ClearOutbox
  <2>1. flow'.step \in {"none", "me"} /\ flow.step \in {"none", "me"}
    BY DEF Quiet
  <2>2. Seed \/ Pull => flow'.step = "base"
    BY <1>1 DEF Seed, Pull, Flow
  <2>3. ConfirmReplace => flow'.step = "pull"
    BY DEF ConfirmReplace, Join, NoFlow
  <2>4. DeleteAccount => flow'.step = "unstate"
    BY DEF DeleteAccount, NoFlow
  <2>5. ClearState => flow.step = "unstate"
    BY DEF ClearState
  <2>6. ClearOutbox => flow.step = "unstage"
    BY DEF ClearOutbox
  <2> QED BY <2>1, <2>2, <2>3, <2>4, <2>5, <2>6
<1>3. ~Erase /\ ~\E r \in Row : Replace(r)
  BY DEF Erase, Replace, Unnoticed, Quiet
<1>4. state' = state /\ UNCHANGED <<local, outbox>>
  BY <1>2, <1>3 DEF Turns, Aside, StartSync, SignUp, SignIn, Enters, SignOut, Me, MeFails, OtherDevice,
     CloseTab, LoopFails, vars, deviceVars
<1>5. Grows(state.account)
  <2>1. ~(SignUp(state.account) /\ ~server[state.account].exists)
    OBVIOUS
  <2> QED BY <1>1, <1>2, <2>1, AccountMoves
<1>6. StateAgrees'
  BY <1>4, <1>5, StateSteady DEF MirrorOK, Quiet
<1>7. ASSUME OnCourse' PROVE CursorsOK' /\ \A r \in Counted : LoopAgrees(r)'
  <2>1. ~Turns
    BY <1>7, TurnsFacts
  <2>2. CASE StartSync
    BY <1>4, <2>2, BeginsFacts, StartsAgree DEF Begins
  <2>3. CASE Aside
    <3>1. SameLoop
      BY <2>3, AsideFacts
    <3>2. OnCourse
      BY <1>7, <3>1 DEF SameLoop, LoopAs, OnCourse
    <3> QED BY <1>4, <1>5, <3>1, <3>2, LoopSteady DEF MirrorOK, Quiet
  <2> QED BY <2>1, <2>2, <2>3
<1> QED BY <1>6, <1>7 DEF MirrorOK

\* Every step keeps the mirror.
LEMMA MirrorNext ==
  ASSUME TypeInv, LoopInv, BaseOK, GoneOK, MirrorOK, [Next]_vars
  PROVE  MirrorOK'
<1> SUFFICES ASSUME Quiet' PROVE MirrorOK'
  BY DEF MirrorOK
<1>1. TypeInv'
  BY NextTyped
<1>2. CASE SaveBase
  <2>1. Clean
    BY <1>2, TroubleStays DEF Quiet
  <2>2. StateAgrees' /\ ~OnCourse'
    BY <1>1, <1>2, <2>1, MirrorSaveBase
  <2> QED BY <2>2 DEF MirrorOK
<1>3. CASE ~SaveBase
  <2>1. Quiet /\ server[state.account].exists
    BY <1>3, QuietBefore
  <2>2. CASE \E r \in Row, deleted \in BOOLEAN : Edit(r, deleted)
    BY <1>1, <2>1, <2>2, MirrorEdit
  <2>3. CASE Serve
    BY <1>1, <2>1, <2>3, MirrorServe
  <2>4. CASE ApplyServerChanges
    BY <1>1, <2>1, <2>4, MirrorApply
  <2>5. CASE AckOutbox
    BY <1>1, <2>1, <2>5, MirrorAck
  <2>6. CASE CheckState
    BY <2>1, <2>6, MirrorCheck
  <2>7. CASE SaveState
    BY <1>1, <2>1, <2>7, MirrorSave
  <2>8. CASE /\ Turns \/ Aside \/ StartSync
             /\ ~\E r \in Row, deleted \in BOOLEAN : Edit(r, deleted)
    BY <1>1, <1>3, <2>1, <2>8, MirrorRest
  <2> QED BY <2>2, <2>3, <2>4, <2>5, <2>6, <2>7, <2>8, NextKinds
<1> QED BY <1>2, <1>3

\* All of it, from the start.
LEMMA MirrorInvariant == Spec => [](TypeInv /\ LoopInv /\ MirrorInv)
<1>1. Init => MirrorInv
  <2> SUFFICES ASSUME Init PROVE MirrorInv
    OBVIOUS
  <2>1. flow.step = "none" /\ state = NoState
    BY DEF Init, NoFlow
  <2> QED BY <2>1 DEF MirrorInv, PullOK, BaseOK, GoneOK, MirrorOK, Quiet
<1>2. TypeInv /\ LoopInv /\ MirrorInv /\ [Next]_vars => MirrorInv'
  <2> SUFFICES ASSUME TypeInv, LoopInv, MirrorInv, [Next]_vars PROVE MirrorInv'
    OBVIOUS
  <2>1. PullOK /\ BaseOK /\ GoneOK /\ MirrorOK
    BY DEF MirrorInv
  <2>2. PullOK' /\ BaseOK'
    BY <2>1, PullNext, BaseNext
  <2>3. GoneOK' /\ MirrorOK'
    BY <2>1, GoneNext, MirrorNext
  <2> QED BY <2>2, <2>3 DEF MirrorInv
<1> QED BY <1>1, <1>2, LoopInvariant, PTL DEF Spec

\* What the device has of its account's rows is what the account has, through
\* every sign-out, switch and return, of all rows that signIn looks at
\* (account/session.ts:78-106, sync/engine.ts:363-430).
MirrorsCounted == Settled /\ trouble = {} => \A r \in Row \ Uncounted : Agrees(r)
LEMMA MirroredCounted == TypeInv /\ MirrorInv => MirrorsCounted
<1> SUFFICES ASSUME TypeInv, MirrorInv, Settled, trouble = {}, NEW r \in Row \ Uncounted PROVE Agrees(r)
  BY DEF MirrorsCounted
<1>1. Quiet /\ r \in Counted
  BY DEF Settled, Quiet, Counted
<1>2. AgreesTo(r, state.cursor)
  BY <1>1 DEF MirrorInv, MirrorOK, StateAgrees
<1> QED BY <1>2 DEF AgreesTo, AgreesAs, Agrees, Kept
THEOREM AccountMirrorsCounted == Spec => []MirrorsCounted
BY MirroredCounted, MirrorInvariant, PTL

\* Where signIn looks at every kind of row, all rows are as in the account. (It
\* does not look at history, folders and behaviors: a device that has only those
\* joins an account as if it were empty, and keeps what it has unstaged.)
THEOREM AccountMirrors == ASSUME Uncounted = {} PROVE Spec => []Mirrors
<1>1. TypeInv /\ MirrorInv => Mirrors
  BY MirroredCounted DEF MirrorsCounted, Mirrors
<1> QED BY <1>1, MirrorInvariant, PTL

=============================================================================
