----------------------------- MODULE TradeRelay -----------------------------
(***************************************************************************)
(* Two people trading: the hook useTradeSession in each app                *)
(* (client/src/trade/useTradeSession.ts), the WebSocket relay between them *)
(* (server/src/relay.ts) over the session of module TradeSession, and the  *)
(* write of a completed trade into each collection (db/tradeWrites.ts).    *)
(*                                                                         *)
(* A socket carries messages in order each way until either end closes it; *)
(* what it still carried then may be lost. A client that connects again    *)
(* leaves the old socket behind, and what was sent on it may still arrive, *)
(* before or after what is sent on the new one.                            *)
(*                                                                         *)
(* Left out: refusals that only set an error text (a TransitionError), and *)
(* the messages that only feed the display: peer presence, usernames, and  *)
(* the exchange of tradelists and wishlists.                               *)
(***************************************************************************)
EXTENDS TradeSession, Naturals, Sequences, FiniteSets

CONSTANTS
  Nothing,      \* no deal
  Lossy,        \* whether sockets break and tabs are closed
  LostReplies,  \* whether that may hit a handshake before its answer came
  Timers,       \* whether sessions time out: disconnect window and removal
  Failing,      \* whether the write of a completed trade may fail
  Impatient,    \* whether a button is tapped while what the last tap began goes on
  Overtaking,   \* whether a handshake may arrive after one on a newer socket
  MaxSockets,   \* bound: sockets opened in a behaviour
  MaxPresses    \* bound: how often each button is pressed in a behaviour

ASSUME RelayAssumption ==
  /\ Nothing \notin Deal
  /\ {Lossy, LostReplies, Timers, Failing, Impatient, Overtaking} \subseteq BOOLEAN
  /\ MaxSockets \in Nat /\ MaxPresses \in [DOMAIN Allowed -> Nat] /\ Nonce \subseteq Nat

VARIABLES
  conns,      \* the sockets opened so far, a sequence
  attached,   \* [Seat -> the socket the relay holds for that seat, 0 if none]
  client,     \* [Seat -> what the app holds in memory]
  published,  \* the creator's screen has shown the code
  attempts,   \* how often somebody set out to join
  persisted,  \* [Seat -> BOOLEAN]: the trade is stored for resuming
  applying,   \* [Seat -> the deal being written, or Nothing]
  recorded,   \* [Seat -> the deals written into the collection, a sequence]
  presses,    \* how often each button was pressed
  sealed,     \* history: the deal the server completed, or Nothing
  saw         \* history: [Seat -> the table each seat had before its eyes
              \* when it pressed the confirm that counted, or Nothing]

vars == <<session, conns, attached, client, published, attempts, persisted,
          applying, recorded, presses, sealed, saw>>

-----------------------------------------------------------------------------
\* A message to the server. An edit carries one side of the table; what the
\* sender of a confirmation saw is not part of its message.
Up(type, table) == [type |-> type, table |-> table, side |-> "a", nonce |-> 0]
Edit(side, table) == [Up("offer", table) EXCEPT !.side = side]

NoView == [state |-> "none", deal |-> Empty, accepted |-> Nobody, confirmed |-> Nobody]
Snapshot(v) == [state |-> v.state, deal |-> v.deal,
                accepted |-> v.accepted, confirmed |-> v.confirmed]

\* The app without a trade: no socket, no seat, nothing on the screen.
Off == [ws |-> 0, initial |-> "none", token |-> FALSE, nonce |-> 0, view |-> NoView,
        table |-> Empty, applied |-> FALSE, failed |-> Nothing]

Active(s) == client[s].initial # "none"
Over(s) == client[s].view.state \in {"completed", "cancelled"}
Retrying(s) == Active(s) /\ client[s].ws = 0 /\ ~Over(s)
OnBoard(s) == client[s].ws # 0 /\ client[s].view.state \in PreComplete

\* A socket is kept in reserve for everybody who will have to reconnect.
Unserved(s) == client[s].ws # 0 /\ ~conns[client[s].ws].served
Spare == Len(conns) + Cardinality({s \in Seat : Retrying(s) \/ Unserved(s)}) < MaxSockets

Init ==
  /\ SessionInit
  /\ conns = <<>>
  /\ attached = [s \in Seat |-> 0]
  /\ client = [s \in Seat |-> Off]
  /\ published = FALSE
  /\ attempts = 0
  /\ persisted = [s \in Seat |-> FALSE]
  /\ applying = [s \in Seat |-> Nothing]
  /\ recorded = [s \in Seat |-> <<>>]
  /\ presses = [button \in DOMAIN Allowed |-> 0]
  /\ sealed = Nothing
  /\ saw = [s \in Seat |-> Nothing]

serverVars == <<session, attached, sealed, saw>>
storedVars == <<published, attempts, persisted, applying, recorded, presses>>

-----------------------------------------------------------------------------
(***************************************************************************)
(* The app.                                                                *)
(***************************************************************************)
\* The client's end of a socket is gone; what was on its way down is lost.
HungUp(k) == IF k = 0 THEN conns ELSE [conns EXCEPT ![k].open = FALSE, ![k].down = <<>>]

\* connect: close the socket before it, open a new one, send the handshake.
Connect(s, msg) ==
  conns' = Append(HungUp(client[s].ws),
                  [by |-> s, up |-> <<msg>>, down |-> <<>>,
                   open |-> TRUE, served |-> TRUE, bound |-> FALSE])
StartsOver(c) == [Up(c.initial, Empty) EXCEPT !.nonce = c.nonce]  \* mutation
Handshake(c) == IF c.token THEN Up("resume", Empty)
                           ELSE [Up(c.initial, Empty) EXCEPT !.nonce = c.nonce]
Begun(c) == [c EXCEPT !.ws = Len(conns) + 1]

\* Start a trade, as long as no code was shown to anybody.
BeginCreate ==
  LET c == Begun([Off EXCEPT !.initial = "create"])
  IN  /\ ~Active("a") /\ ~published /\ Spare
      /\ Connect("a", Handshake(c))
      /\ client' = [client EXCEPT !["a"] = c]
      /\ UNCHANGED <<serverVars, storedVars>>

\* Enter the code the other person shows.
BeginJoin ==
  LET c == Begun([Off EXCEPT !.initial = "join", !.nonce = attempts + 1])
  IN  /\ ~Active("b") /\ published /\ Spare
      /\ attempts + 1 \in Nonce
      /\ attempts' = attempts + 1
      /\ Connect("b", Handshake(c))
      /\ client' = [client EXCEPT !["b"] = c]
      /\ UNCHANGED <<serverVars, published, persisted, applying, recorded, presses>>

\* Take up the stored trade again.
BeginResume(s) ==
  LET c == Begun([Off EXCEPT !.initial = "resume", !.token = TRUE])
  IN  /\ ~Active(s) /\ persisted[s] /\ Spare
      /\ Connect(s, Handshake(c))
      /\ client' = [client EXCEPT ![s] = c]
      /\ UNCHANGED <<serverVars, storedVars>>

\* The socket went away: resume the seat once there is one, otherwise send
\* the first handshake again.
Reconnect(s) ==
  /\ Retrying(s)
  /\ Connect(s, Handshake(client[s]))
  /\ client' = [client EXCEPT ![s] = Begun(@)]
  /\ UNCHANGED <<serverVars, storedVars>>

\* Retry on the "can't reach the server" screen, while a socket may be open.
RetryConnect(s) ==
  /\ Lossy /\ LostReplies
  /\ Active(s) /\ client[s].view = NoView /\ client[s].ws # 0 /\ Spare
  /\ Connect(s, Handshake(client[s]))
  /\ client' = [client EXCEPT ![s] = Begun(@)]
  /\ UNCHANGED <<serverVars, storedVars>>

\* The client notices that its socket is gone.
Break(s) ==
  LET k == client[s].ws
  IN  /\ k # 0
      /\ ~conns[k].served \/ (Lossy /\ Spare /\ (LostReplies \/ client[s].view # NoView))
      /\ conns' = HungUp(k)
      /\ client' = [client EXCEPT ![s].ws = 0]
      /\ UNCHANGED <<serverVars, storedVars>>

\* The tab is closed, or connecting is called off. A write under way is rolled
\* back or had already committed; the stored trade stays.
Quit(s) ==
  /\ Lossy /\ (Active(s) \/ applying[s] # Nothing) /\ Spare
  /\ LostReplies \/ ~Active(s) \/ client[s].view # NoView
  /\ conns' = HungUp(client[s].ws)
  /\ client' = [client EXCEPT ![s] = Off]
  /\ applying' = [applying EXCEPT ![s] = Nothing]
  /\ UNCHANGED <<serverVars, published, attempts, persisted, recorded, presses>>

\* What this button began on this socket goes on: the server has not come to
\* it, or what it made of it has not come back.
UnderWay(c, s, type) == \/ \E i \in DOMAIN c.up : c.up[i].type = type
                        \/ \E i \in DOMAIN c.down : c.down[i].cause = <<s, type>>

\* A button of the trade board.
Press(s, msg) ==
  /\ OnBoard(s)
  /\ presses[msg.type] < MaxPresses[msg.type]
  /\ presses' = [presses EXCEPT ![msg.type] = @ + 1]
  /\ Impatient \/ ~UnderWay(conns[client[s].ws], s, msg.type)
  /\ conns' = [conns EXCEPT ![client[s].ws].up = Append(@, msg)]
  /\ UNCHANGED <<serverVars, published, attempts, persisted, applying, recorded>>

\* Any change to either side; the board shows it at once.
PressOffer(s, side, o) ==
  /\ o # client[s].table[side]
  /\ client' = [client EXCEPT ![s].table[side] = o]
  /\ Press(s, Edit(side, client'[s].table))
PressAccept(s) ==
  /\ client[s].view.state # "agreed" /\ ~client[s].view.accepted[s]
  /\ client[s].table # Empty
  /\ Press(s, Up("accept", Empty))
  /\ UNCHANGED client
PressUnaccept(s) ==
  /\ client[s].view.state # "agreed" /\ client[s].view.accepted[s]
  /\ Press(s, Up("unaccept", Empty))
  /\ UNCHANGED client
PressConfirm(s) ==
  /\ client[s].view.state = "agreed" /\ ~client[s].view.confirmed[s]
  /\ Press(s, Up("confirm", client[s].table))
  /\ UNCHANGED client
PressCancel(s) == Press(s, Up("cancel", Empty)) /\ UNCHANGED client

\* "New trade" on the screen of a trade that is over: forget all about it. A
\* write still under way goes on.
Reset(s) ==
  /\ Over(s) /\ client[s].failed = Nothing
  /\ Impatient \/ applying[s] = Nothing
  /\ conns' = HungUp(client[s].ws)
  /\ client' = [client EXCEPT ![s] = Off]
  /\ persisted' = [persisted EXCEPT ![s] = FALSE]
  /\ UNCHANGED <<serverVars, published, attempts, applying, recorded, presses>>

\* onMessage. A snapshot replaces what is on the board; the first completed
\* one starts the write, a cancelled one forgets the stored trade, and so does
\* an error that says the trade is gone; the app is then back where a trade is
\* started (that it may ask once more for the dead seat when this socket goes
\* is left out).
ShownWhole(c, v) == [c EXCEPT !.view = v, !.table = v]          \* mutation
Shown(c, v) == [c EXCEPT !.view = v, !.table = v.deal,
                         !.applied = @ \/ v.state = "completed"]
Applies(c, v) == v.state = "completed" /\ ~c.applied

\* The board stores a trade it has a seat in, and forgets one called off.
ForgetsEarly(s, msg) == msg.type = "seat"                       \* mutation
                        \/ (msg.snap.state \in PreComplete /\ persisted[s])
StaysStored(s, msg) == msg.type = "seat" \/ (msg.snap.state # "cancelled" /\ persisted[s])

ClientReceive(s) ==
  LET k == client[s].ws
      msg == Head(conns[k].down)
      c == IF msg.type = "seat" THEN [client[s] EXCEPT !.token = TRUE, !.applied = FALSE]
                                ELSE client[s]
  IN  /\ k # 0 /\ conns[k].down # <<>>
      /\ \/ /\ msg.type \in {"seat", "sync"}
            /\ conns' = [conns EXCEPT ![k].down = Tail(@)]
            /\ client' = [client EXCEPT ![s] = Shown(c, msg.snap)]
            /\ applying' = [applying EXCEPT ![s] =
                              IF Applies(c, msg.snap) THEN msg.snap.deal ELSE @]
            /\ persisted' = [persisted EXCEPT ![s] = StaysStored(s, msg)]
            /\ published' = (published \/ (s = "a" /\ msg.type = "seat"))
         \/ /\ msg.type = "gone"
            /\ conns' = HungUp(k)
            /\ client' = [client EXCEPT ![s] = Off]
            /\ persisted' = [persisted EXCEPT ![s] = FALSE]
            /\ UNCHANGED <<applying, published>>
      /\ UNCHANGED <<serverVars, attempts, recorded, presses>>

\* applyCompletedTrade commits: keyed on the session, so a second delivery of
\* the same completion writes nothing. Then the stored trade is forgotten,
\* unless the tab is closed in between.
RecordsAgain(s) == Append(recorded[s], applying[s])             \* mutation
Records(s) == IF recorded[s] = <<>> THEN <<applying[s]>> ELSE recorded[s]

Commit(s) ==
  /\ applying[s] # Nothing
  /\ recorded' = [recorded EXCEPT ![s] = Records(s)]
  /\ applying' = [applying EXCEPT ![s] = Nothing]
  /\ \/ /\ persisted' = [persisted EXCEPT ![s] = FALSE]
        /\ UNCHANGED <<conns, client>>
     \/ /\ Lossy /\ Spare
        /\ conns' = HungUp(client[s].ws)
        /\ client' = [client EXCEPT ![s] = Off]
        /\ UNCHANGED persisted
  /\ UNCHANGED <<serverVars, published, attempts, presses>>

\* It is rolled back: Retry is offered and the trade stays stored.
Fail(s) ==
  /\ Failing /\ applying[s] # Nothing
  /\ applying' = [applying EXCEPT ![s] = Nothing]
  /\ client' = [client EXCEPT ![s].failed = IF Active(s) THEN applying[s] ELSE Nothing]
  /\ UNCHANGED <<serverVars, conns, published, attempts, persisted, recorded, presses>>
RetryApply(s) ==
  /\ client[s].failed # Nothing
  /\ applying' = [applying EXCEPT ![s] = client[s].failed]
  /\ client' = [client EXCEPT ![s].failed = Nothing]
  /\ UNCHANGED <<serverVars, conns, published, attempts, persisted, recorded, presses>>

-----------------------------------------------------------------------------
(***************************************************************************)
(* The relay.                                                              *)
(***************************************************************************)
\* A send to a socket that is closed goes nowhere.
Sent(cs, k, msg) == IF k # 0 /\ cs[k].open /\ cs[k].served
                    THEN [cs EXCEPT ![k].down = Append(@, msg)] ELSE cs
Sync(v) == [type |-> "sync", snap |-> Snapshot(v), cause |-> <<>>]
SeatMsg(v) == [type |-> "seat", snap |-> Snapshot(v), cause |-> <<>>]
Gone == [type |-> "gone", snap |-> NoView, cause |-> <<>>]
Broadcast(cs, msg) == Sent(Sent(cs, attached["a"], msg), attached["b"], msg)

Bind(cs, k) == [cs EXCEPT ![k].bound = TRUE]

\* create_session. A socket left behind starts a session nobody will join.
HandleCreate(k, cs) ==
  IF conns[k].open
  THEN /\ Create
       /\ attached' = [s \in Seat |-> IF s = "a" THEN k ELSE 0]
       /\ conns' = Sent(Bind([i \in DOMAIN cs |-> [cs[i] EXCEPT !.bound = FALSE]], k),
                        k, SeatMsg(Fresh))
  ELSE /\ conns' = cs /\ UNCHANGED <<session, attached>>

\* join_session: the joiner gets the seat and the other side the news.
HandleJoin(k, msg, cs) ==
  \/ /\ JoinAnew(msg.nonce) \/ JoinAgain(msg.nonce)
     /\ attached' = [attached EXCEPT !["b"] = k]
     /\ conns' = Sent(Sent(Bind(cs, k), k, SeatMsg(session')), attached["a"], Sync(session'))
  \/ /\ session = NoSession \/ (Seated /\ session.joiner # msg.nonce)
     /\ conns' = Sent(cs, k, Gone)
     /\ UNCHANGED <<session, attached>>

HandleResume(k, s, cs) ==
  \/ /\ Resume(s)
     /\ attached' = [attached EXCEPT ![s] = k]
     /\ conns' = Sent(Bind(cs, k), k, Sync(session'))
  \/ /\ session = NoSession
     /\ conns' = Sent(cs, k, Gone)
     /\ UNCHANGED <<session, attached>>

\* Everything else acts on the session the socket is bound to, and the new
\* state is broadcast; what the session refuses changes nothing.
Does(s, msg) == CASE msg.type = "offer"    -> OfferUpdate(msg.side, msg.table[msg.side])
                  [] msg.type = "accept"   -> Accept(s)
                  [] msg.type = "unaccept" -> Unaccept(s)
                  [] msg.type = "confirm"  -> ConfirmComplete(s)
                  [] msg.type = "cancel"   -> Cancel

HandleAction(k, s, msg, cs) ==
  \/ /\ conns[k].bound
     /\ Does(s, msg)
     /\ conns' = Broadcast(cs, [Sync(session') EXCEPT !.cause = <<s, msg.type>>])
     /\ UNCHANGED attached
  \/ /\ conns[k].bound /\ session # NoSession /\ ~May(msg.type)
     /\ conns' = cs
     /\ UNCHANGED <<session, attached>>
  \/ /\ ~conns[k].bound \/ session = NoSession
     /\ conns' = Sent(cs, k, Gone)
     /\ UNCHANGED <<session, attached>>

Seen(s, msg) == IF msg.type = "confirm" /\ session' # session
                THEN [saw EXCEPT ![s] = msg.table] ELSE saw

Superseded(k) == \E j \in DOMAIN conns : j > k /\ conns[j].by = conns[k].by /\ conns[j].bound

Handle(k) ==
  LET s == conns[k].by
      msg == Head(conns[k].up)
      cs == [conns EXCEPT ![k].up = Tail(@)]
  IN  /\ conns[k].served /\ conns[k].up # <<>>
      /\ msg.type \in DOMAIN Allowed \/ Overtaking \/ ~Superseded(k)
      /\ CASE msg.type = "create" -> HandleCreate(k, cs)
           [] msg.type = "join"   -> HandleJoin(k, msg, cs)
           [] msg.type = "resume" -> HandleResume(k, s, cs)
           [] OTHER               -> HandleAction(k, s, msg, cs)
      /\ sealed' = IF session' # NoSession /\ session'.state = "completed"
                   THEN session'.deal ELSE sealed
      /\ saw' = Seen(s, msg)
      /\ UNCHANGED <<client, storedVars>>

AnyClose(k) == conns[k].bound                                   \* mutation
\* Only the socket still attached to the seat makes the seat absent.
Counts(k) == conns[k].bound /\ attached[conns[k].by] = k

\* The relay sees a socket closed: by the client, or by its own heartbeat.
Close(k) ==
  LET s == conns[k].by
  IN  /\ conns[k].served
      /\ ~conns[k].open \/ (Lossy /\ Spare /\ (LostReplies \/ client[s].view # NoView))
      /\ conns' = [conns EXCEPT ![k].served = FALSE, ![k].up = <<>>, ![k].bound = FALSE]
      /\ IF Counts(k)
         THEN /\ attached' = [attached EXCEPT ![s] = 0]
              /\ IF session = NoSession THEN UNCHANGED session ELSE Drop(s)
         ELSE UNCHANGED <<session, attached>>
      /\ UNCHANGED <<sealed, saw, client, storedVars>>

\* A disconnect window lapses; a trade it ends is broadcast as cancelled.
Lapse(s) ==
  /\ Timers
  /\ GraceExpires(s)
  /\ conns' = IF session'.state # session.state THEN Broadcast(conns, Sync(session')) ELSE conns
  /\ UNCHANGED <<attached, sealed, saw, client, storedVars>>

\* The session is dropped; one that was still going is cancelled first.
Expire ==
  /\ Timers
  /\ Remove
  /\ conns' = IF Live THEN Broadcast(conns, Sync([session EXCEPT !.state = "cancelled"])) ELSE conns
  /\ attached' = [s \in Seat |-> 0]
  /\ UNCHANGED <<sealed, saw, client, storedVars>>

-----------------------------------------------------------------------------
AppStep(s) == \/ BeginResume(s) \/ Reconnect(s) \/ RetryConnect(s) \/ Break(s) \/ Quit(s)
              \/ PressAccept(s) \/ PressUnaccept(s) \/ PressConfirm(s) \/ PressCancel(s)
              \/ Reset(s) \/ ClientReceive(s) \/ Commit(s) \/ Fail(s) \/ RetryApply(s)
              \/ \E side \in Seat, o \in Offer : PressOffer(s, side, o)
RelayStep(k) == Handle(k) \/ Close(k)

Next ==
  \/ BeginCreate \/ BeginJoin
  \/ \E s \in Seat : AppStep(s) \/ Lapse(s)
  \/ \E k \in DOMAIN conns : RelayStep(k)
  \/ Expire

Spec == Init /\ [][Next]_vars

\* A message that was sent arrives, a socket whose client left is closed, a
\* client reads what came and connects again, and a write comes to an end.
\* Nobody has to press anything, and no timer has to go off.
LiveSpec ==
  /\ Spec
  /\ \A k \in 1..MaxSockets : WF_vars(k \in DOMAIN conns /\ RelayStep(k))
  /\ \A s \in Seat : /\ WF_vars(ClientReceive(s)) /\ WF_vars(Reconnect(s))
                     /\ WF_vars(Unserved(s) /\ Break(s))
                     /\ WF_vars(Commit(s))

-----------------------------------------------------------------------------
(***************************************************************************)
(* Properties.                                                             *)
(***************************************************************************)
Tables == Deal \cup {Nothing}
View == [state : TradeState \cup {"none"}, deal : Deal,
         accepted : [Seat -> BOOLEAN], confirmed : [Seat -> BOOLEAN]]
Greeting == {"create", "join", "resume"}
Request == [type : Greeting \cup DOMAIN Allowed,
            table : Deal, side : Seat, nonce : Nonce \cup {0}]
Answer == [type : {"seat", "sync", "gone"}, snap : View,
           cause : {<<>>} \cup (Seat \X DOMAIN Allowed)]

TypeOK ==
  /\ SessionTypeOK
  /\ Len(conns) <= MaxSockets
  /\ \A k \in DOMAIN conns :
       conns[k] \in [by : Seat, up : Seq(Request), down : Seq(Answer),
                     open : BOOLEAN, served : BOOLEAN, bound : BOOLEAN]
  /\ \A s \in Seat : /\ attached[s] \in 0..Len(conns)
                     /\ client[s].ws \in 0..Len(conns)
                     /\ client[s].view \in View
                     /\ client[s].table \in Deal
                     /\ client[s].failed \in Tables
  /\ {published, persisted["a"], persisted["b"]} \subseteq BOOLEAN
  /\ attempts \in Nonce \cup {0} /\ presses \in [DOMAIN Allowed -> Nat]
  /\ applying \in [Seat -> Tables] /\ recorded \in [Seat -> Seq(Deal)] /\ sealed \in Tables

\* Both collections follow the one deal that was sealed, however often its
\* completion is delivered again.
Agreement == INSTANCE TradeAgreement WITH
  Deal <- Deal, Seat <- Seat, Nothing <- Nothing, sealed <- sealed, recorded <- recorded
Agrees == Agreement!Spec

\* And once it is sealed, a side that keeps its app open does write it, however
\* its sockets break (the reconnects and the second delivery are there for
\* this); one that closes it must come back and take up the stored trade.
Followed(s) == recorded[s] # <<>> \/ ~Active(s)
BothRecord == \A s \in Seat : sealed # Nothing ~> Followed(s)

\* A seat with a live socket counts as present and no disconnect window runs
\* for it: the trade of somebody who is there is not called off ("present:
\* Whether each seat currently has a live socket", shared/src/trade.ts:37;
\* relay.ts:174-178).
SeatHeld ==
  session # NoSession =>
    \A s \in Seat : attached[s] # 0 /\ conns[attached[s]].served =>
      session.present[s] /\ ~session.grace[s]

\* An app whose handshake on its current socket was answered is the one the
\* relay answers on that seat: it is heard, and told what the other does.
Reached ==
  \A s \in Seat : client[s].ws # 0 =>
    (conns[client[s].ws].bound /\ session # NoSession => attached[s] = client[s].ws)

\* A confirmation stands for the table its seat had before its eyes, and so a
\* deal goes through only as both saw it.
ConfirmedAsSeen ==
  session # NoSession =>
    \A s \in Seat : session.confirmed[s] => saw[s] = session.deal

\* A sealed deal is in a seat's collection, on its way there, or stored for
\* taking up again: it is not forgotten unwritten ("the trade stays persisted
\* (so resuming it re-delivers `completed` and tries again)",
\* useTradeSession.ts:231).
SealedIsKept ==
  sealed # Nothing =>
    \A s \in Seat : recorded[s] # <<>> \/ applying[s] # Nothing \/ persisted[s]

\* An edit the board offers is taken, while nobody edits against it. Does not
\* hold: README, section 5.
EditTaken ==
  [][\A k \in DOMAIN conns :
       LET msg == Head(conns[k].up)
       IN  Handle(k) /\ msg.type = "offer" /\ conns[k].bound /\ Live =>
             session'.deal[msg.side] = msg.table[msg.side]]_vars
=============================================================================
