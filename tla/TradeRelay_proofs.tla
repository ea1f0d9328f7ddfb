------------------------- MODULE TradeRelay_proofs -------------------------
(***************************************************************************)
(* Proofs about two people trading over the relay, for any cards, any      *)
(* number of sockets, presses and joins, and every setting of the switches *)
(* that let the network, the timers and the write misbehave, but where a   *)
(* theorem says otherwise.                                                 *)
(***************************************************************************)
EXTENDS TradeRelay, TradeSession_proofs, SequenceTheorems, FiniteSetTheorems

Conn == [by : Seat, up : Seq(Request), down : Seq(Answer),
         open : BOOLEAN, served : BOOLEAN, bound : BOOLEAN]
App == [ws : Nat, initial : Greeting \cup {"none"}, token : BOOLEAN,
        nonce : Nonce \cup {0}, view : View, table : Deal, applied : BOOLEAN,
        failed : Tables]

StoredTypes ==
  /\ attempts \in Nonce \cup {0}
  /\ persisted \in [Seat -> BOOLEAN]
  /\ applying \in [Seat -> Tables]
  /\ recorded \in [Seat -> Seq(Deal)]
  /\ presses \in [DOMAIN Allowed -> Nat]
Types ==
  /\ conns \in Seq(Conn)
  /\ attached \in [Seat -> 0..Len(conns)]
  /\ client \in [Seat -> App]
  /\ published \in BOOLEAN
  /\ StoredTypes
  /\ sealed \in Tables
  /\ saw \in [Seat -> Tables]

\* An app has one open socket at most, the newest of those it opened.
Sockets ==
  /\ \A k \in DOMAIN conns : conns[k].open => client[conns[k].by].ws = k
  /\ \A s \in Seat : client[s].ws # 0 =>
       /\ client[s].ws \in DOMAIN conns
       /\ conns[client[s].ws].by = s /\ conns[client[s].ws].open
       /\ \A k \in DOMAIN conns : conns[k].by = s => k <= client[s].ws

\* Who asks for what. A request for a new session is the first on its socket,
\* unanswered, and its sender is gone by the time the code is shown; so no
\* session is started once there is one to join.
Greets(k, i) ==
  /\ conns[k].up[i].type = "create" =>
       /\ i = 1 /\ conns[k].by = "a" /\ conns[k].down = <<>>
       /\ \A s \in Seat : attached[s] # k
       /\ conns[k].open => ~published
  /\ conns[k].up[i].type = "join" =>
       conns[k].by = "b" /\ published /\ conns[k].up[i].nonce # 0
Greetings ==
  /\ \A k \in DOMAIN conns : \A i \in DOMAIN conns[k].up : Greets(k, i)
  /\ client["a"].initial # "join" /\ client["b"].initial # "create"
  /\ client["b"].initial = "join" => published /\ client["b"].nonce # 0
  /\ published /\ client["a"].initial = "create" => client["a"].token

\* Whatever says that the trade is completed tells of the deal that was sealed.
TellsOf(v, d) == v.state = "completed" => v.deal = d
Tells(cs, d) == \A k \in DOMAIN cs : \A i \in DOMAIN cs[k].down : TellsOf(cs[k].down[i].snap, d)
Seals ==
  /\ ~published => sealed = Nothing /\ (session # NoSession => session.joiner = 0)
  /\ sealed # Nothing /\ session # NoSession => session.state = "completed"
  /\ session # NoSession /\ session.state = "completed" => sealed = session.deal
  /\ Tells(conns, sealed)

\* And whatever an app writes, or keeps for writing it again, is that deal.
Writes ==
  \A s \in Seat : /\ applying[s] \in {Nothing, sealed}
                  /\ client[s].failed \in {Nothing, sealed}
                  /\ recorded[s] = <<>> \/ (sealed # Nothing /\ recorded[s] = <<sealed>>)

RelayInv == Types /\ SessionInv /\ Sockets /\ Greetings /\ Seals /\ Writes

-----------------------------------------------------------------------------
(***************************************************************************)
(* The operators the relay is built from.                                  *)
(***************************************************************************)
\* ds is cs after messages went down the sockets of K, and nothing else that
\* tells an app's socket from another.
Answered(cs, ds, K) ==
  /\ ds \in Seq(Conn) /\ Len(ds) = Len(cs)
  /\ \A i \in DOMAIN cs :
       /\ ds[i].by = cs[i].by /\ ds[i].up = cs[i].up
       /\ ds[i].open = cs[i].open /\ ds[i].served = cs[i].served
       /\ i \notin K => ds[i].down = cs[i].down

LEMMA ConnFields ==
  ASSUME NEW cs \in Seq(Conn), NEW k \in DOMAIN cs
  PROVE  /\ cs[k] \in Conn /\ k \in 1..Len(cs)
         /\ cs[k].by \in Seat /\ cs[k].up \in Seq(Request) /\ cs[k].down \in Seq(Answer)
         /\ cs[k].open \in BOOLEAN /\ cs[k].served \in BOOLEAN /\ cs[k].bound \in BOOLEAN
<1>1. k \in 1..Len(cs)
  BY LenProperties
<1>2. cs[k] \in Conn
  BY <1>1, ElementOfSeq
<1> QED
  BY <1>1, <1>2 DEF Conn

\* One socket of a sequence replaced by another.
LEMMA Replaced ==
  ASSUME NEW cs \in Seq(Conn), NEW k \in DOMAIN cs, NEW c \in Conn
  PROVE  LET ds == [cs EXCEPT ![k] = c]
         IN  /\ ds \in Seq(Conn) /\ Len(ds) = Len(cs) /\ DOMAIN ds = DOMAIN cs
             /\ ds[k] = c /\ \A i \in DOMAIN cs : i # k => ds[i] = cs[i]
<1>1. k \in 1..Len(cs) /\ DOMAIN cs = 1..Len(cs)
  BY LenProperties
<1> QED
  BY <1>1, ExceptSeq, LenProperties

LEMMA SnapshotType ==
  ASSUME NEW v \in Session
  PROVE  /\ Snapshot(v) \in View /\ Sync(v) \in Answer /\ SeatMsg(v) \in Answer
         /\ Snapshot(v).state = v.state /\ Snapshot(v).deal = v.deal
         /\ Sync(v).snap = Snapshot(v) /\ SeatMsg(v).snap = Snapshot(v)
BY DEF Session, Snapshot, View, Sync, SeatMsg, Answer

LEMMA GoneType == NoView \in View /\ Gone \in Answer /\ Gone.snap = NoView
BY OfferAssumption DEF NoView, View, Gone, Answer, Nobody, Deal, Empty

LEMMA OffType == Off \in App
<1>1. Empty \in Deal
  BY OfferAssumption DEF Deal, Empty
<1> QED
  BY <1>1, GoneType DEF Off, App, Tables

LEMMA HandshakeType ==
  ASSUME NEW c \in App, c.initial # "none"
  PROVE  /\ Handshake(c) \in Request
         /\ Handshake(c).type = "create" => c.initial = "create" /\ ~c.token
         /\ Handshake(c).type = "join" => c.initial = "join" /\ Handshake(c).nonce = c.nonce
<1>1. Empty \in Deal
  BY OfferAssumption DEF Deal, Empty
<1> QED
  BY <1>1 DEF Handshake, Up, App, Request, Greeting, Seat

LEMMA HungUpFacts ==
  ASSUME conns \in Seq(Conn), NEW k \in 0..Len(conns)
  PROVE  /\ HungUp(k) \in Seq(Conn) /\ Len(HungUp(k)) = Len(conns)
         /\ \A i \in DOMAIN conns :
              /\ HungUp(k)[i].by = conns[i].by /\ HungUp(k)[i].up = conns[i].up
              /\ HungUp(k)[i].served = conns[i].served /\ HungUp(k)[i].bound = conns[i].bound
              /\ i # k => HungUp(k)[i] = conns[i]
              /\ i = k => ~HungUp(k)[i].open /\ HungUp(k)[i].down = <<>>
<1>1. CASE k = 0
  BY <1>1, LenProperties DEF HungUp
<1>2. CASE k # 0
  <2>1. k \in DOMAIN conns
    BY <1>2, LenProperties
  <2> DEFINE c == [conns[k] EXCEPT !.open = FALSE, !.down = <<>>]
  <2>2. c \in Conn /\ c.by = conns[k].by /\ c.up = conns[k].up /\ c.served = conns[k].served
        /\ c.bound = conns[k].bound /\ c.open = FALSE /\ c.down = <<>>
    <3>1. <<>> \in Seq(Answer) /\ conns[k] \in Conn
      BY <2>1, ConnFields, EmptySeq
    <3> QED
      BY <3>1 DEF Conn
  <2>3. HungUp(k) = [conns EXCEPT ![k] = c]
    <3>1. conns \in [DOMAIN conns -> Conn]
      BY LenProperties
    <3> QED
      BY <1>2, <2>1, <3>1 DEF HungUp
  <2> HIDE DEF c
  <2> QED
    BY <2>1, <2>2, <2>3, Replaced
<1> QED
  BY <1>1, <1>2

\* A message sent reaches the end of that one queue, or nowhere.
LEMMA SentFacts ==
  ASSUME NEW cs \in Seq(Conn), NEW k \in 0..Len(cs), NEW msg \in Answer
  PROVE  /\ Answered(cs, Sent(cs, k, msg), {k})
         /\ \A i \in DOMAIN cs : Sent(cs, k, msg)[i].bound = cs[i].bound
         /\ k # 0 => Sent(cs, k, msg)[k].down \in {cs[k].down, Append(cs[k].down, msg)}
<1>1. CASE k # 0 /\ cs[k].open /\ cs[k].served
  <2>1. k \in DOMAIN cs
    BY <1>1, LenProperties
  <2> DEFINE c == [cs[k] EXCEPT !.down = Append(@, msg)]
  <2>2. c \in Conn /\ c.by = cs[k].by /\ c.up = cs[k].up /\ c.open = cs[k].open
        /\ c.served = cs[k].served /\ c.bound = cs[k].bound
        /\ c.down = Append(cs[k].down, msg)
    <3>1. cs[k] \in Conn /\ cs[k].down \in Seq(Answer)
      BY <2>1, ConnFields
    <3>2. Append(cs[k].down, msg) \in Seq(Answer)
      BY <3>1, AppendProperties
    <3> QED
      BY <3>1, <3>2 DEF Conn
  <2>3. Sent(cs, k, msg) = [cs EXCEPT ![k] = c]
    <3>1. cs \in [DOMAIN cs -> Conn]
      BY LenProperties
    <3> QED
      BY <1>1, <2>1, <3>1 DEF Sent
  <2> HIDE DEF c
  <2>4. /\ Sent(cs, k, msg) \in Seq(Conn) /\ Len(Sent(cs, k, msg)) = Len(cs)
        /\ Sent(cs, k, msg)[k] = c /\ \A i \in DOMAIN cs : i # k => Sent(cs, k, msg)[i] = cs[i]
    BY <2>1, <2>2, <2>3, Replaced
  <2> QED
    BY <2>1, <2>2, <2>4 DEF Answered
<1>2. CASE ~(k # 0 /\ cs[k].open /\ cs[k].served)
  BY <1>2 DEF Sent, Answered
<1> QED
  BY <1>1, <1>2

LEMMA SentTells ==
  ASSUME NEW cs \in Seq(Conn), NEW k \in 0..Len(cs), NEW msg \in Answer, NEW d,
         Tells(cs, d), TellsOf(msg.snap, d)
  PROVE  Tells(Sent(cs, k, msg), d)
<1> DEFINE ds == Sent(cs, k, msg)
<1>1. Answered(cs, ds, {k}) /\ (k # 0 => ds[k].down \in {cs[k].down, Append(cs[k].down, msg)})
  BY SentFacts
<1> HIDE DEF ds
<1>2. DOMAIN ds = DOMAIN cs
  BY <1>1, LenProperties DEF Answered
<1>3. ASSUME NEW j \in DOMAIN ds, NEW i \in DOMAIN ds[j].down
      PROVE  TellsOf(ds[j].down[i].snap, d)
  <2>1. CASE ds[j].down = cs[j].down
    BY <1>2, <1>3, <2>1 DEF Tells
  <2>2. CASE ds[j].down # cs[j].down
    <3>1. j = k /\ k # 0 /\ ds[j].down = Append(cs[j].down, msg)
      BY <1>1, <1>2, <2>2, LenProperties DEF Answered
    <3>2. cs[j].down \in Seq(Answer)
      BY <1>2, ConnFields
    <3>3. i \in 1..Len(cs[j].down) \/ i = Len(cs[j].down) + 1
      BY <3>1, <3>2, AppendProperties, LenProperties
    <3>4. CASE i \in 1..Len(cs[j].down)
      <4>1. ds[j].down[i] = cs[j].down[i] /\ i \in DOMAIN cs[j].down
        BY <3>1, <3>2, <3>4, AppendProperties, LenProperties
      <4> QED
        BY <4>1, <1>2 DEF Tells
    <3>5. CASE i = Len(cs[j].down) + 1
      <4>1. ds[j].down[i] = msg
        BY <3>1, <3>2, <3>5, AppendProperties
      <4> QED
        BY <4>1
    <3> QED
      BY <3>3, <3>4, <3>5
  <2> QED
    BY <2>1, <2>2
<1> QED
  BY <1>3 DEF Tells, ds

LEMMA AnsweredTwice ==
  ASSUME NEW cs \in Seq(Conn), NEW ds, NEW es, NEW K, NEW L,
         Answered(cs, ds, K), Answered(ds, es, L)
  PROVE  Answered(cs, es, K \cup L)
<1>1. DOMAIN ds = DOMAIN cs
  BY LenProperties DEF Answered
<1> QED
  BY <1>1 DEF Answered

\* Marking sockets as bound sends nothing.
LEMMA BindFacts ==
  ASSUME NEW cs \in Seq(Conn), NEW k \in DOMAIN cs
  PROVE  /\ Answered(cs, Bind(cs, k), {})
         /\ Bind(cs, k)[k].bound
         /\ \A i \in DOMAIN cs : i # k => Bind(cs, k)[i].bound = cs[i].bound
<1> DEFINE c == [cs[k] EXCEPT !.bound = TRUE]
<1>1. c \in Conn /\ c.by = cs[k].by /\ c.up = cs[k].up /\ c.open = cs[k].open
      /\ c.served = cs[k].served /\ c.bound /\ c.down = cs[k].down
  <2>1. cs[k] \in Conn
    BY ConnFields
  <2> QED
    BY <2>1 DEF Conn
<1>2. Bind(cs, k) = [cs EXCEPT ![k] = c]
  <2>1. cs \in [DOMAIN cs -> Conn]
    BY LenProperties
  <2> QED
    BY <2>1 DEF Bind
<1> HIDE DEF c
<1>3. /\ Bind(cs, k) \in Seq(Conn) /\ Len(Bind(cs, k)) = Len(cs)
      /\ Bind(cs, k)[k] = c /\ \A i \in DOMAIN cs : i # k => Bind(cs, k)[i] = cs[i]
  BY <1>1, <1>2, Replaced
<1> QED
  BY <1>1, <1>3 DEF Answered

LEMMA UnboundFacts ==
  ASSUME NEW cs \in Seq(Conn)
  PROVE  LET ds == [i \in DOMAIN cs |-> [cs[i] EXCEPT !.bound = FALSE]]
         IN  Answered(cs, ds, {}) /\ \A i \in DOMAIN cs : ~ds[i].bound
<1> DEFINE ds == [i \in DOMAIN cs |-> [cs[i] EXCEPT !.bound = FALSE]]
<1>1. \A i \in DOMAIN cs : cs[i] \in Conn
  BY ConnFields
<1>2. ds \in [1..Len(cs) -> Conn] /\ DOMAIN cs = 1..Len(cs) /\ Len(cs) \in Nat
  <2>1. \A i \in DOMAIN cs : [cs[i] EXCEPT !.bound = FALSE] \in Conn
    BY <1>1 DEF Conn
  <2>2. DOMAIN cs = 1..Len(cs) /\ Len(cs) \in Nat
    BY LenProperties
  <2> QED
    BY <2>1, <2>2
<1>3. ds \in Seq(Conn) /\ Len(ds) = Len(cs)
  BY <1>2
<1> QED
  BY <1>1, <1>3 DEF Answered, Conn

\* A message leaves the queue of socket k.
Popped(k) == [conns EXCEPT ![k].up = Tail(@)]

LEMMA PoppedFacts ==
  ASSUME conns \in Seq(Conn), NEW k \in DOMAIN conns, conns[k].up # <<>>
  PROVE  /\ Head(conns[k].up) \in Request /\ Head(conns[k].up) = conns[k].up[1]
         /\ 1 \in DOMAIN conns[k].up
         /\ Popped(k) \in Seq(Conn) /\ Len(Popped(k)) = Len(conns)
         /\ \A i \in DOMAIN conns :
              /\ Popped(k)[i].by = conns[i].by /\ Popped(k)[i].down = conns[i].down
              /\ Popped(k)[i].open = conns[i].open /\ Popped(k)[i].served = conns[i].served
              /\ Popped(k)[i].bound = conns[i].bound
              /\ i # k => Popped(k)[i].up = conns[i].up
         /\ \A j \in DOMAIN Popped(k)[k].up :
              j + 1 \in DOMAIN conns[k].up /\ Popped(k)[k].up[j] = conns[k].up[j + 1]
<1> DEFINE c == [conns[k] EXCEPT !.up = Tail(@)]
<1>1. conns[k] \in Conn /\ conns[k].up \in Seq(Request)
  BY ConnFields
<1>2. /\ Head(conns[k].up) \in Request /\ Head(conns[k].up) = conns[k].up[1]
      /\ Tail(conns[k].up) \in Seq(Request) /\ Len(Tail(conns[k].up)) = Len(conns[k].up) - 1
      /\ \A j \in 1..Len(Tail(conns[k].up)) : Tail(conns[k].up)[j] = conns[k].up[j + 1]
  BY <1>1, HeadTailProperties
<1>3. Len(conns[k].up) \in Nat \ {0} /\ DOMAIN conns[k].up = 1..Len(conns[k].up)
  BY <1>1, EmptySeq, LenProperties
<1>4. c \in Conn /\ c.by = conns[k].by /\ c.down = conns[k].down /\ c.open = conns[k].open
      /\ c.served = conns[k].served /\ c.bound = conns[k].bound /\ c.up = Tail(conns[k].up)
  BY <1>1, <1>2 DEF Conn
<1>5. Popped(k) = [conns EXCEPT ![k] = c]
  <2>1. conns \in [DOMAIN conns -> Conn]
    BY LenProperties
  <2> QED
    BY <2>1 DEF Popped
<1> HIDE DEF c
<1>6. /\ Popped(k) \in Seq(Conn) /\ Len(Popped(k)) = Len(conns)
      /\ Popped(k)[k] = c /\ \A i \in DOMAIN conns : i # k => Popped(k)[i] = conns[i]
  BY <1>4, <1>5, Replaced
<1>7. DOMAIN Tail(conns[k].up) = 1..(Len(conns[k].up) - 1)
  BY <1>2, LenProperties
<1>8. \A j \in DOMAIN Popped(k)[k].up :
         j + 1 \in DOMAIN conns[k].up /\ Popped(k)[k].up[j] = conns[k].up[j + 1]
  <2>1. Popped(k)[k].up = Tail(conns[k].up)
    BY <1>4, <1>6
  <2>2. ASSUME NEW n \in Nat \ {0}, NEW j \in 1..(n - 1) PROVE j + 1 \in 1..n
    OBVIOUS
  <2>3. \A j \in DOMAIN Tail(conns[k].up) : j + 1 \in DOMAIN conns[k].up
    BY <1>3, <1>7, <2>2
  <2> QED
    BY <1>2, <1>7, <2>1, <2>3
<1> QED
  BY <1>2, <1>3, <1>4, <1>6, <1>8

-----------------------------------------------------------------------------
(***************************************************************************)
(* What the calls of the session mean for a deal that was sealed.          *)
(***************************************************************************)
\* The calls that neither start a session nor fill its second seat.
Calls ==
  \/ \E s \in Seat : \/ Resume(s) \/ Drop(s) \/ GraceExpires(s)
                     \/ Accept(s) \/ Unaccept(s) \/ ConfirmComplete(s)
  \/ \E side \in Seat, o \in Offer : OfferUpdate(side, o)
  \/ Cancel
  \/ Remove
  \/ UNCHANGED session

\* A completed deal stays as it is until its session is removed.
StaysSealed ==
  session # NoSession /\ session.state = "completed" /\ session' # NoSession =>
    session'.state = "completed" /\ session'.deal = session.deal

LEMMA CallsInv ==
  ASSUME SessionInv, Calls
  PROVE  /\ SessionInv' /\ StaysSealed
         /\ session = NoSession => session' = NoSession
         /\ session # NoSession /\ session' # NoSession => session'.joiner = session.joiner
<1>1. SessionInv'
  BY NextInv DEF Calls, SessionNext
<1>2. session = NoSession => session' = NoSession
  BY DEF Calls, Resume, Drop, GraceExpires, Accept, Unaccept, ConfirmComplete, OfferUpdate,
         Cancel, Remove, May
<1>3. ASSUME session # NoSession, session' # NoSession
      PROVE  session'.joiner = session.joiner /\ StaysSealed
  <2>1. session \in Session
    BY <1>3 DEF SessionInv, SessionTypeOK
  <2>2. CASE \E s \in Seat : Resume(s) \/ Drop(s) \/ GraceExpires(s)
    BY <2>1, <2>2 DEF Resume, Drop, GraceExpires, Session, StaysSealed, Live, PreComplete
  <2>3. CASE \E s \in Seat : Accept(s) \/ Unaccept(s) \/ ConfirmComplete(s)
    BY <2>1, <2>3 DEF Accept, Unaccept, ConfirmComplete, Session, StaysSealed, May, Allowed
  <2>4. CASE \E side \in Seat, o \in Offer : OfferUpdate(side, o)
    BY <2>1, <2>4 DEF OfferUpdate, Session, StaysSealed, May, Allowed
  <2>5. CASE Cancel
    BY <2>1, <2>5 DEF Cancel, Session, StaysSealed, May, Allowed, PreComplete
  <2>6. CASE Remove \/ UNCHANGED session
    BY <1>3, <2>6 DEF Remove, StaysSealed
  <2> QED
    BY <2>2, <2>3, <2>4, <2>5, <2>6 DEF Calls
<1> QED
  BY <1>1, <1>2, <1>3 DEF StaysSealed

LEMMA JoinsInv ==
  ASSUME NEW n \in Nonce, SessionInv, JoinAnew(n) \/ JoinAgain(n)
  PROVE  SessionInv' /\ StaysSealed /\ session # NoSession /\ session' # NoSession
<1>1. SessionInv'
  BY JoinInv
<1>2. session \in Session /\ session # NoSession
  BY DEF JoinAnew, JoinAgain, Seated, SessionInv, SessionTypeOK
<1>3. CASE JoinAnew(n)
  <2>1. session' \in Session
    BY <1>2, <1>3 DEF JoinAnew, Session, TradeState, PreComplete, Seat
  <2> QED
    BY <1>1, <1>2, <1>3, <2>1, NoSessionAssumption
    DEF JoinAnew, SessionInv, UnjoinedUntouched, StaysSealed
<1>4. CASE JoinAgain(n)
  BY <1>1, <1>2, <1>4 DEF JoinAgain, StaysSealed
<1> QED
  BY <1>3, <1>4

LEMMA DoesCalls ==
  ASSUME NEW s \in Seat, NEW msg \in Request, msg.type \notin Greeting, SessionInv, Does(s, msg)
  PROVE  Calls /\ session # NoSession /\ session' # NoSession
<1>1. msg.type \in DOMAIN Allowed /\ msg.side \in Seat /\ msg.table[msg.side] \in Offer
  BY DEF Request, Deal
<1>2. msg.type \in {"offer", "accept", "unaccept", "confirm", "cancel"}
  BY <1>1 DEF Allowed
<1>3. OfferUpdate(msg.side, msg.table[msg.side]) \/ Accept(s) \/ Unaccept(s)
      \/ ConfirmComplete(s) \/ Cancel
  BY <1>2 DEF Does
<1>4. Calls /\ session # NoSession
  BY <1>1, <1>3 DEF Calls, OfferUpdate, Accept, Unaccept, ConfirmComplete, Cancel, May
<1>5. session \in Session
  BY <1>4 DEF SessionInv, SessionTypeOK
<1>6. session' \in Session
  <2>1. CASE OfferUpdate(msg.side, msg.table[msg.side])
    BY <1>1, <1>5, <2>1 DEF OfferUpdate, Session, TradeState, PreComplete, Deal, Nobody
  <2>2. CASE Accept(s)
    BY <1>5, <2>2 DEF Accept, Session, TradeState, PreComplete
  <2>3. CASE Unaccept(s)
    BY <1>5, <2>3 DEF Unaccept, Session, TradeState, PreComplete, Nobody
  <2>4. CASE ConfirmComplete(s)
    BY <1>5, <2>4 DEF ConfirmComplete, Session, TradeState, PreComplete
  <2>5. CASE Cancel
    BY <1>5, <2>5 DEF Cancel, Session, TradeState
  <2> QED
    BY <1>3, <2>1, <2>2, <2>3, <2>4, <2>5
<1> QED
  BY <1>4, <1>6, NoSessionAssumption

-----------------------------------------------------------------------------
(***************************************************************************)
(* The relay's handlers: what a message does to the sockets and the seats. *)
(***************************************************************************)
Effect(k, cs) ==
  /\ SessionInv'
  /\ Answered(cs, conns', {k, attached["a"], attached["b"]})
  /\ attached' \in [Seat -> 0..Len(conns)]
  /\ \A s \in Seat : attached'[s] \in {attached[s], 0, k}

LEMMA SeatNames == Seat = {"a", "b"}
BY DEF Seat

LEMMA AnsweredMore ==
  ASSUME NEW cs, NEW ds, NEW K, NEW L, Answered(cs, ds, K), K \subseteq L
  PROVE  Answered(cs, ds, L)
BY DEF Answered

LEMMA AnsweredTells ==
  ASSUME NEW cs \in Seq(Conn), NEW ds, NEW d, Answered(cs, ds, {}), Tells(cs, d)
  PROVE  Tells(ds, d)
<1>1. DOMAIN ds = DOMAIN cs /\ \A i \in DOMAIN cs : ds[i].down = cs[i].down
  BY LenProperties DEF Answered
<1> QED
  BY <1>1 DEF Tells

LEMMA CreateEffect ==
  ASSUME Types, SessionInv, NEW cs \in Seq(Conn), Len(cs) = Len(conns),
         NEW k \in DOMAIN conns, HandleCreate(k, cs), NEW d, Tells(cs, d)
  PROVE  /\ Effect(k, cs) /\ Tells(conns', d)
         /\ (conns[k].open /\ session' = Fresh) \/ UNCHANGED <<session, attached>>
<1>1. k \in DOMAIN cs /\ k \in 0..Len(cs) /\ k \in 0..Len(conns) /\ DOMAIN cs = DOMAIN conns
  BY LenProperties DEF Types
<1>2. CASE conns[k].open
  <2> DEFINE ds == [i \in DOMAIN cs |-> [cs[i] EXCEPT !.bound = FALSE]]
  <2>1. Create /\ conns' = Sent(Bind(ds, k), k, SeatMsg(Fresh))
        /\ attached' = [s \in Seat |-> IF s = "a" THEN k ELSE 0]
    BY <1>2 DEF HandleCreate
  <2>2. Answered(cs, ds, {})
    BY UnboundFacts
  <2> HIDE DEF ds
  <2>3. ds \in Seq(Conn) /\ Len(ds) = Len(cs) /\ k \in DOMAIN ds
    BY <1>1, <2>2, LenProperties DEF Answered
  <2>4. Answered(ds, Bind(ds, k), {})
    BY <2>3, BindFacts
  <2>5. Bind(ds, k) \in Seq(Conn) /\ k \in 0..Len(Bind(ds, k))
    BY <1>1, <2>3, <2>4 DEF Answered
  <2>6. SeatMsg(Fresh) \in Answer /\ TellsOf(SeatMsg(Fresh).snap, d)
    BY FreshIsSession, SnapshotType DEF TellsOf, Fresh
  <2>7. Answered(Bind(ds, k), conns', {k})
    BY <2>1, <2>5, <2>6, SentFacts
  <2>8. Answered(cs, conns', {} \cup ({} \cup {k}))
    BY <2>2, <2>3, <2>4, <2>7, AnsweredTwice
  <2>9. Tells(Bind(ds, k), d)
    BY <2>2, <2>3, <2>4, AnsweredTells
  <2>10. Tells(conns', d)
    BY <2>1, <2>5, <2>6, <2>9, SentTells
  <2>11. SessionInv' /\ session' = Fresh
    BY <2>1, CreateInv DEF Create
  <2>12. attached' \in [Seat -> 0..Len(conns)] /\ \A s \in Seat : attached'[s] \in {attached[s], 0, k}
    BY <1>1, <2>1 DEF Types
  <2>13. Answered(cs, conns', {k, attached["a"], attached["b"]})
    BY <2>8, AnsweredMore
  <2> QED
    BY <1>2, <2>10, <2>11, <2>12, <2>13 DEF Effect
<1>3. CASE ~conns[k].open
  <2>1. conns' = cs /\ UNCHANGED <<session, attached>>
    BY <1>3 DEF HandleCreate
  <2> QED
    BY <2>1 DEF Effect, Answered, Types, SessionInv, SessionTypeOK, FlagsMatchState,
                UnjoinedUntouched
<1> QED
  BY <1>2, <1>3

LEMMA GoneEffect ==
  ASSUME Types, SessionInv, NEW cs \in Seq(Conn), Len(cs) = Len(conns),
         NEW k \in DOMAIN conns, NEW d, Tells(cs, d),
         conns' = Sent(cs, k, Gone) \/ conns' = cs, UNCHANGED <<session, attached>>
  PROVE  Effect(k, cs) /\ Tells(conns', d)
<1>1. k \in 0..Len(cs)
  BY LenProperties DEF Types
<1>2. Gone \in Answer /\ TellsOf(Gone.snap, d)
  BY GoneType DEF TellsOf, NoView
<1>3. Answered(cs, conns', {k}) /\ Tells(conns', d)
  BY <1>1, <1>2, SentFacts, SentTells DEF Answered
<1>4. Answered(cs, conns', {k, attached["a"], attached["b"]})
  BY <1>3, AnsweredMore
<1> QED
  BY <1>3, <1>4 DEF Effect, Types, SessionInv, SessionTypeOK, FlagsMatchState, UnjoinedUntouched

LEMMA JoinEffect ==
  ASSUME Types, SessionInv, NEW cs \in Seq(Conn), Len(cs) = Len(conns),
         NEW k \in DOMAIN conns, NEW msg \in Request, msg.nonce # 0, HandleJoin(k, msg, cs),
         NEW d, Tells(cs, d), session' # NoSession => TellsOf(session', d)
  PROVE  /\ Effect(k, cs) /\ Tells(conns', d)
         /\ StaysSealed /\ (session = NoSession => session' = NoSession)
<1>1. k \in DOMAIN cs /\ k \in 0..Len(cs) /\ DOMAIN cs = DOMAIN conns
  BY LenProperties DEF Types
<1>2. msg.nonce \in Nonce
  BY DEF Request
<1>3. CASE JoinAnew(msg.nonce) \/ JoinAgain(msg.nonce)
  <2>0. HandleJoin(k, msg, cs)!1
    <3>1. ~(session = NoSession \/ (Seated /\ session.joiner # msg.nonce))
      BY <1>2, <1>3, OfferAssumption DEF JoinAnew, JoinAgain, Seated
    <3> QED
      BY <3>1 DEF HandleJoin
  <2>1. attached' = [attached EXCEPT !["b"] = k]
        /\ conns' = Sent(Sent(Bind(cs, k), k, SeatMsg(session')), attached["a"], Sync(session'))
    BY <2>0
  <2>2. SessionInv' /\ StaysSealed /\ session # NoSession /\ session' # NoSession
    BY <1>2, <1>3, JoinsInv
  <2>3. session' \in Session
    BY <2>2 DEF SessionInv, SessionTypeOK
  <2> DEFINE ds == Bind(cs, k)
             es == Sent(ds, k, SeatMsg(session'))
  <2>4. Answered(cs, ds, {})
    BY <1>1, BindFacts
  <2>5. /\ SeatMsg(session') \in Answer /\ TellsOf(SeatMsg(session').snap, d)
        /\ Sync(session') \in Answer /\ TellsOf(Sync(session').snap, d)
    BY <2>2, <2>3, SnapshotType DEF TellsOf
  <2>6. ds \in Seq(Conn) /\ k \in 0..Len(ds) /\ Len(ds) = Len(cs)
    BY <1>1, <2>4 DEF Answered
  <2> HIDE DEF ds
  <2>7. Answered(ds, es, {k}) /\ Tells(es, d)
    BY <2>4, <2>5, <2>6, SentFacts, SentTells, AnsweredTells
  <2>8. conns' = Sent(es, attached["a"], Sync(session'))
    BY <2>1 DEF ds
  <2> HIDE DEF es
  <2>9. es \in Seq(Conn) /\ attached["a"] \in 0..Len(es)
    BY <2>6, <2>7 DEF Answered, Types, Seat
  <2>10. Answered(es, conns', {attached["a"]}) /\ Tells(conns', d)
    BY <2>5, <2>7, <2>8, <2>9, SentFacts, SentTells
  <2>11. Answered(cs, conns', {} \cup ({k} \cup {attached["a"]}))
    BY <2>4, <2>6, <2>7, <2>9, <2>10, AnsweredTwice
  <2>12. Answered(cs, conns', {k, attached["a"], attached["b"]})
    BY <2>11, AnsweredMore
  <2>13. attached' \in [Seat -> 0..Len(conns)] /\ \A s \in Seat : attached'[s] \in {attached[s], 0, k}
    BY <1>1, <2>1 DEF Types
  <2> QED
    BY <2>2, <2>10, <2>12, <2>13 DEF Effect
<1>4. CASE ~(JoinAnew(msg.nonce) \/ JoinAgain(msg.nonce))
  <2>1. conns' = Sent(cs, k, Gone) /\ UNCHANGED <<session, attached>>
    BY <1>4 DEF HandleJoin
  <2> QED
    BY <2>1, GoneEffect DEF StaysSealed
<1> QED
  BY <1>3, <1>4

LEMMA BroadcastFacts ==
  ASSUME Types, NEW cs \in Seq(Conn), Len(cs) = Len(conns), NEW msg \in Answer,
         NEW d, Tells(cs, d), TellsOf(msg.snap, d)
  PROVE  /\ Answered(cs, Broadcast(cs, msg), {attached["a"], attached["b"]})
         /\ Tells(Broadcast(cs, msg), d)
<1> DEFINE ds == Sent(cs, attached["a"], msg)
<1>1. attached["a"] \in 0..Len(cs) /\ attached["b"] \in 0..Len(cs)
  BY DEF Types, Seat
<1>2. Answered(cs, ds, {attached["a"]}) /\ Tells(ds, d)
  BY <1>1, SentFacts, SentTells
<1>3. Broadcast(cs, msg) = Sent(ds, attached["b"], msg)
  BY DEF Broadcast
<1> HIDE DEF ds
<1>4. ds \in Seq(Conn) /\ attached["b"] \in 0..Len(ds)
  BY <1>1, <1>2 DEF Answered
<1>5. Answered(ds, Broadcast(cs, msg), {attached["b"]}) /\ Tells(Broadcast(cs, msg), d)
  BY <1>2, <1>3, <1>4, SentFacts, SentTells
<1>6. Answered(cs, Broadcast(cs, msg), {attached["a"]} \cup {attached["b"]})
  BY <1>2, <1>4, <1>5, AnsweredTwice
<1> QED
  BY <1>5, <1>6, AnsweredMore

LEMMA ResumeEffect ==
  ASSUME Types, SessionInv, NEW cs \in Seq(Conn), Len(cs) = Len(conns),
         NEW k \in DOMAIN conns, NEW s \in Seat, HandleResume(k, s, cs),
         NEW d, Tells(cs, d), session' # NoSession => TellsOf(session', d)
  PROVE  Effect(k, cs) /\ Tells(conns', d) /\ Calls
<1>1. k \in DOMAIN cs /\ k \in 0..Len(cs) /\ DOMAIN cs = DOMAIN conns
  BY LenProperties DEF Types
<1>2. CASE Resume(s)
  <2>0. session # NoSession
    BY <1>2 DEF Resume
  <2>1. attached' = [attached EXCEPT ![s] = k]
        /\ conns' = Sent(Bind(cs, k), k, Sync(session'))
    BY <1>2, <2>0 DEF HandleResume
  <2>2. SessionInv' /\ Calls
    BY <1>2, CallsInv DEF Calls
  <2>3. session' \in Session
    <3>1. session \in Session
      BY <2>0 DEF SessionInv, SessionTypeOK
    <3> QED
      BY <1>2, <3>1 DEF Resume, Session
  <2>4. Sync(session') \in Answer /\ TellsOf(Sync(session').snap, d)
    BY <2>3, SnapshotType, NoSessionAssumption DEF TellsOf
  <2>5. Answered(cs, Bind(cs, k), {})
    BY <1>1, BindFacts
  <2>6. Bind(cs, k) \in Seq(Conn) /\ k \in 0..Len(Bind(cs, k))
    BY <1>1, <2>5 DEF Answered
  <2>7. Answered(Bind(cs, k), conns', {k}) /\ Tells(conns', d)
    BY <2>1, <2>4, <2>5, <2>6, SentFacts, SentTells, AnsweredTells
  <2>8. Answered(cs, conns', {} \cup {k})
    BY <2>5, <2>6, <2>7, AnsweredTwice
  <2>9. Answered(cs, conns', {k, attached["a"], attached["b"]})
    BY <2>8, AnsweredMore
  <2>10. attached' \in [Seat -> 0..Len(conns)] /\ \A t \in Seat : attached'[t] \in {attached[t], 0, k}
    BY <1>1, <2>1 DEF Types
  <2> QED
    BY <2>2, <2>7, <2>9, <2>10 DEF Effect
<1>3. CASE ~Resume(s)
  <2>1. conns' = Sent(cs, k, Gone) /\ UNCHANGED <<session, attached>>
    BY <1>3 DEF HandleResume
  <2> QED
    BY <2>1, GoneEffect DEF Calls
<1> QED
  BY <1>2, <1>3

LEMMA ActionEffect ==
  ASSUME Types, SessionInv, NEW cs \in Seq(Conn), Len(cs) = Len(conns),
         NEW k \in DOMAIN conns, NEW s \in Seat, NEW msg \in Request, msg.type \notin Greeting,
         HandleAction(k, s, msg, cs),
         NEW d, Tells(cs, d), session' # NoSession => TellsOf(session', d)
  PROVE  Effect(k, cs) /\ Tells(conns', d) /\ Calls
<1>1. CASE conns[k].bound /\ Does(s, msg) /\ UNCHANGED attached
           /\ conns' = Broadcast(cs, [Sync(session') EXCEPT !.cause = <<s, msg.type>>])
  <2> DEFINE news == [Sync(session') EXCEPT !.cause = <<s, msg.type>>]
  <2>1. Calls /\ session' # NoSession
    BY <1>1, DoesCalls
  <2>2. SessionInv'
    BY <2>1, CallsInv
  <2>3. session' \in Session
    BY <2>1, <2>2 DEF SessionInv, SessionTypeOK
  <2>4. news \in Answer /\ news.snap = Snapshot(session')
    <3>1. msg.type \in DOMAIN Allowed
      BY DEF Request
    <3> QED
      BY <2>3, <3>1, SnapshotType DEF Answer, Sync
  <2>5. TellsOf(news.snap, d)
    BY <2>1, <2>3, <2>4, SnapshotType DEF TellsOf
  <2>6. conns' = Broadcast(cs, news)
    BY <1>1
  <2> HIDE DEF news
  <2>7. Answered(cs, conns', {attached["a"], attached["b"]}) /\ Tells(conns', d)
    BY <2>4, <2>5, <2>6, BroadcastFacts
  <2>8. Answered(cs, conns', {k, attached["a"], attached["b"]})
    BY <2>7, AnsweredMore
  <2> QED
    BY <1>1, <2>1, <2>2, <2>7, <2>8 DEF Effect, Types
<1>2. CASE (conns' = cs \/ conns' = Sent(cs, k, Gone)) /\ UNCHANGED <<session, attached>>
  BY <1>2, GoneEffect DEF Calls
<1> QED
  BY <1>1, <1>2 DEF HandleAction

\* What a session's change does to the history of the sealed deal: a first deal
\* may be sealed, and then it is never another one.
SealStep == sealed' = IF session' # NoSession /\ session'.state = "completed"
                      THEN session'.deal ELSE sealed

SealFacts ==
  /\ sealed' \in Tables
  /\ sealed # Nothing => sealed' = sealed
  /\ ~published => sealed' = Nothing /\ (session' # NoSession => session'.joiner = 0)
  /\ sealed' # Nothing /\ session' # NoSession => session'.state = "completed"
  /\ session' # NoSession /\ session'.state = "completed" => sealed' = session'.deal

LEMMA SealsOnce ==
  ASSUME RelayInv, SessionInv', SealStep,
         \/ session' = Fresh /\ ~published
         \/ /\ StaysSealed /\ (session = NoSession => session' = NoSession)
            /\ ~published /\ session' # NoSession => session'.joiner = session.joiner
  PROVE  SealFacts
<1>1. Seals /\ sealed \in Tables
  BY DEF RelayInv, Types
<1>2. session' # NoSession => session' \in Session
  BY DEF SessionInv, SessionTypeOK
<1>3. CASE session' = Fresh /\ ~published
  <2>1. Fresh.state = "open" /\ Fresh.joiner = 0 /\ sealed = Nothing
    BY <1>1, <1>3 DEF Fresh, Seals
  <2> QED
    BY <1>1, <1>3, <2>1 DEF SealFacts, SealStep
<1>4. CASE /\ StaysSealed /\ (session = NoSession => session' = NoSession)
           /\ ~published /\ session' # NoSession => session'.joiner = session.joiner
  <2>1. sealed' \in Tables
    BY <1>1, <1>2 DEF SealStep, Tables, Session
  <2>2. sealed # Nothing => sealed' = sealed
    BY <1>1, <1>4 DEF Seals, SealStep, StaysSealed
  <2>3. ~published => sealed' = Nothing /\ (session' # NoSession => session'.joiner = 0)
    <3>1. SUFFICES ASSUME ~published
                   PROVE  sealed' = Nothing /\ (session' # NoSession => session'.joiner = 0)
      OBVIOUS
    <3>2. sealed = Nothing /\ (session' # NoSession => session'.joiner = 0)
      BY <1>1, <1>4, <3>1 DEF Seals
    <3>3. session' # NoSession => session'.state \in {"open", "cancelled"}
      BY <3>2 DEF SessionInv, UnjoinedUntouched
    <3> QED
      BY <3>2, <3>3 DEF SealStep
  <2>4. sealed' # Nothing /\ session' # NoSession => session'.state = "completed"
    BY <1>1, <1>4 DEF Seals, SealStep, StaysSealed
  <2> QED
    BY <2>1, <2>2, <2>3, <2>4 DEF SealFacts, SealStep
<1> QED
  BY <1>3, <1>4

LEMMA SealsTell ==
  ASSUME RelayInv, SealFacts, NEW cs \in Seq(Conn), Len(cs) = Len(conns),
         \A i \in DOMAIN conns : cs[i].down = conns[i].down
  PROVE  Tells(cs, sealed')
<1>1. DOMAIN cs = DOMAIN conns /\ conns \in Seq(Conn)
  BY LenProperties DEF RelayInv, Types
<1>2. ASSUME NEW j \in DOMAIN conns, NEW i \in DOMAIN conns[j].down
      PROVE  TellsOf(conns[j].down[i].snap, sealed')
  <2>1. TellsOf(conns[j].down[i].snap, sealed)
    BY <1>2 DEF RelayInv, Seals, Tells
  <2>2. conns[j].down[i].snap.deal \in Deal
    <3>1. conns[j].down \in Seq(Answer)
      BY <1>1, ConnFields
    <3>2. conns[j].down[i] \in Answer
      BY <3>1, <1>2, LenProperties, ElementOfSeq
    <3> QED
      BY <3>2 DEF Answer, View
  <2> QED
    BY <2>1, <2>2, RelayAssumption DEF TellsOf, SealFacts
<1> QED
  BY <1>1, <1>2 DEF Tells

LEMMA HandleEffect ==
  ASSUME RelayInv, NEW k \in DOMAIN conns, Handle(k)
  PROVE  Effect(k, Popped(k)) /\ SealFacts /\ Tells(conns', sealed')
<1> DEFINE s == conns[k].by
           msg == Head(conns[k].up)
           cs == Popped(k)
<1>1. Types /\ SessionInv /\ conns \in Seq(Conn)
  BY DEF RelayInv, Types
<1>2. s \in Seat /\ conns[k].up # <<>>
  BY <1>1, ConnFields DEF Handle
<1>3. /\ msg \in Request /\ msg = conns[k].up[1] /\ 1 \in DOMAIN conns[k].up
      /\ cs \in Seq(Conn) /\ Len(cs) = Len(conns)
      /\ \A i \in DOMAIN conns : cs[i].down = conns[i].down
  BY <1>1, <1>2, PoppedFacts
<1>4. /\ SealStep
      /\ CASE msg.type = "create" -> HandleCreate(k, cs)
           [] msg.type = "join"   -> HandleJoin(k, msg, cs)
           [] msg.type = "resume" -> HandleResume(k, s, cs)
           [] OTHER               -> HandleAction(k, s, msg, cs)
  BY DEF Handle, SealStep, Popped
<1>5. Greets(k, 1)
  BY <1>3 DEF RelayInv, Greetings
<1> HIDE DEF s, msg, cs
<1>6. SealFacts => Tells(cs, sealed')
  BY <1>3, SealsTell
<1>7. SealFacts /\ session' # NoSession => TellsOf(session', sealed')
  BY DEF SealFacts, TellsOf
<1>9. CASE msg.type = "create"
  <2>1. HandleCreate(k, cs) /\ (conns[k].open => ~published)
    BY <1>3, <1>4, <1>5, <1>9 DEF Greets
  <2>2. SessionInv' /\ ((session' = Fresh /\ ~published) \/ UNCHANGED <<session, attached>>)
    <3>1. conns[k].open => Create /\ session' = Fresh
      BY <2>1 DEF HandleCreate, Create
    <3>2. ~conns[k].open => UNCHANGED <<session, attached>>
      BY <2>1 DEF HandleCreate
    <3>3. UNCHANGED session => SessionInv'
      BY <1>1 DEF SessionInv, SessionTypeOK, FlagsMatchState, UnjoinedUntouched
    <3> QED
      BY <2>1, <3>1, <3>2, <3>3, CreateInv
  <2>3. SealFacts
    BY <1>4, <2>2, SealsOnce DEF StaysSealed
  <2> QED
    BY <1>1, <1>3, <1>6, <2>1, <2>3, CreateEffect DEF cs
<1>10. CASE msg.type = "join"
  <2>1. HandleJoin(k, msg, cs) /\ published /\ msg.nonce # 0
    BY <1>3, <1>4, <1>5, <1>10 DEF Greets
  <2>2. msg.nonce \in Nonce
    BY <1>3, <2>1 DEF Request
  <2>3. SessionInv' /\ StaysSealed /\ (session = NoSession => session' = NoSession)
    <3>1. CASE JoinAnew(msg.nonce) \/ JoinAgain(msg.nonce)
      BY <1>1, <2>2, <3>1, JoinsInv
    <3>2. CASE ~(JoinAnew(msg.nonce) \/ JoinAgain(msg.nonce))
      <4>1. UNCHANGED session
        BY <2>1, <3>2 DEF HandleJoin
      <4> QED
        BY <1>1, <4>1, CallsInv DEF Calls
    <3> QED
      BY <3>1, <3>2
  <2>4. SealFacts
    BY <1>4, <2>1, <2>3, SealsOnce
  <2> QED
    BY <1>1, <1>3, <1>6, <1>7, <2>1, <2>4, JoinEffect DEF cs
<1>11. ASSUME Calls PROVE SealFacts
  BY <1>1, <1>4, <1>11, CallsInv, SealsOnce
<1>12. CASE msg.type = "resume"
  <2>1. HandleResume(k, s, cs)
    BY <1>4, <1>12
  <2>2. Calls
    BY <2>1, <1>2 DEF HandleResume, Calls
  <2> QED
    BY <1>1, <1>2, <1>3, <1>6, <1>7, <1>11, <2>1, <2>2, ResumeEffect DEF cs
<1>13. CASE msg.type \notin Greeting
  <2>1. HandleAction(k, s, msg, cs)
    BY <1>4, <1>13 DEF Greeting
  <2>2. Calls
    <3>1. CASE Does(s, msg)
      BY <1>1, <1>2, <1>3, <1>13, <3>1, DoesCalls
    <3>2. CASE ~Does(s, msg)
      BY <2>1, <3>2 DEF HandleAction, Calls
    <3> QED
      BY <3>1, <3>2
  <2> QED
    BY <1>1, <1>2, <1>3, <1>6, <1>7, <1>11, <1>13, <2>1, <2>2, ActionEffect DEF cs
<1> QED
  BY <1>9, <1>10, <1>12, <1>13 DEF Greeting

\* A step of the relay keeps the invariant when what waits to be handled waited
\* before, and no request for a new session waits on the socket it serves.
Waited(k, cs) ==
  \A i \in DOMAIN conns : \A j \in DOMAIN cs[i].up :
    \E l \in DOMAIN conns[i].up : /\ cs[i].up[j] = conns[i].up[l]
                                  /\ cs[i].up[j].type = "create" => j = l /\ i # k

LEMMA RelayKeeps ==
  ASSUME RelayInv, NEW k \in 0..Len(conns), NEW cs \in Seq(Conn), Len(cs) = Len(conns),
         \A i \in DOMAIN conns : /\ cs[i].by = conns[i].by /\ cs[i].open = conns[i].open
                                 /\ cs[i].down = conns[i].down,
         Waited(k, cs), Effect(k, cs), SealFacts, Tells(conns', sealed'),
         saw' \in [Seat -> Tables], UNCHANGED <<client, storedVars>>
  PROVE  RelayInv'
<1>1. /\ conns \in Seq(Conn) /\ DOMAIN conns = 1..Len(conns) /\ DOMAIN cs = DOMAIN conns
      /\ conns' \in Seq(Conn) /\ Len(conns') = Len(conns) /\ DOMAIN conns' = DOMAIN conns
  BY LenProperties DEF RelayInv, Types, Effect, Answered
<1>2. \A i \in DOMAIN conns :
         /\ conns'[i].by = conns[i].by /\ conns'[i].open = conns[i].open
         /\ conns'[i].up = cs[i].up
         /\ i \notin {k, attached["a"], attached["b"]} => conns'[i].down = conns[i].down
  BY <1>1 DEF Effect, Answered
<1>3. Types'
  BY <1>1 DEF RelayInv, Types, StoredTypes, Effect, SealFacts, storedVars
<1>4. Sockets'
  BY <1>1, <1>2 DEF RelayInv, Sockets
<1>5. Greetings'
  <2>1. ASSUME NEW i \in DOMAIN conns, NEW j \in DOMAIN conns'[i].up
        PROVE  Greets(i, j)'
    <3>0. conns'[i].up = cs[i].up /\ j \in DOMAIN cs[i].up
      BY <1>2, <2>1
    <3>1. PICK l \in DOMAIN conns[i].up :
                 /\ conns'[i].up[j] = conns[i].up[l]
                 /\ conns'[i].up[j].type = "create" => j = l /\ i # k
      <4>1. \E l \in DOMAIN conns[i].up :
               /\ cs[i].up[j] = conns[i].up[l]
               /\ cs[i].up[j].type = "create" => j = l /\ i # k
        BY <3>0 DEF Waited
      <4> QED
        BY <3>0, <4>1
    <3>2. Greets(i, l)
      BY DEF RelayInv, Greetings
    <3>3. \A s \in Seat : attached'[s] \in {attached[s], 0, k}
      BY DEF Effect
    <3>4. CASE conns'[i].up[j].type = "create"
      <4>1. \A s \in Seat : attached[s] # i
        BY <3>1, <3>2, <3>4 DEF Greets
      <4>2. i \notin {k, attached["a"], attached["b"]}
        BY <3>1, <3>4, <4>1 DEF Seat
      <4>3. \A s \in Seat : attached'[s] # i
        BY <1>1, <3>3, <4>1, <4>2
      <4> QED
        BY <1>2, <3>1, <3>2, <3>4, <4>2, <4>3 DEF Greets, storedVars
    <3>5. CASE conns'[i].up[j].type # "create"
      BY <1>2, <3>1, <3>2, <3>5 DEF Greets, storedVars
    <3> QED
      BY <3>4, <3>5
  <2> QED
    BY <1>1, <2>1 DEF RelayInv, Greetings, storedVars
<1>6. Seals'
  BY DEF Seals, SealFacts, storedVars
<1>7. Writes'
  BY DEF RelayInv, Writes, SealFacts, storedVars
<1>8. SessionInv'
  BY DEF Effect
<1> QED
  BY <1>3, <1>4, <1>5, <1>6, <1>7, <1>8 DEF RelayInv

LEMMA HandleInv ==
  ASSUME RelayInv, NEW k \in DOMAIN conns, Handle(k)
  PROVE  RelayInv'
<1> DEFINE cs == Popped(k)
<1>1. conns \in Seq(Conn) /\ conns[k].up # <<>> /\ k \in 0..Len(conns)
  BY LenProperties DEF Handle, RelayInv, Types
<1>2. /\ cs \in Seq(Conn) /\ Len(cs) = Len(conns) /\ Head(conns[k].up) \in Request
      /\ \A i \in DOMAIN conns : /\ cs[i].by = conns[i].by /\ cs[i].open = conns[i].open
                                 /\ cs[i].down = conns[i].down
                                 /\ i # k => cs[i].up = conns[i].up
      /\ \A j \in DOMAIN cs[k].up :
           j + 1 \in DOMAIN conns[k].up /\ cs[k].up[j] = conns[k].up[j + 1]
  BY <1>1, PoppedFacts
<1>3. Effect(k, cs) /\ SealFacts /\ Tells(conns', sealed')
  BY HandleEffect
<1> HIDE DEF cs
<1>4. Waited(k, cs)
  <2>1. ASSUME NEW i \in DOMAIN conns, NEW j \in DOMAIN cs[i].up
        PROVE  \E l \in DOMAIN conns[i].up :
                 /\ cs[i].up[j] = conns[i].up[l]
                 /\ cs[i].up[j].type = "create" => j = l /\ i # k
    <3>1. CASE i # k
      BY <1>2, <2>1, <3>1
    <3>2. CASE i = k
      <4>1. j + 1 \in DOMAIN conns[k].up /\ cs[k].up[j] = conns[k].up[j + 1]
        BY <1>2, <3>2
      <4>2. j \in Nat \ {0}
        <5>1. cs[i].up \in Seq(Request)
          <6>1. i \in DOMAIN cs
            BY <1>1, <1>2, LenProperties
          <6> QED
            BY <1>2, <6>1, ConnFields
        <5> QED
          BY <5>1, LenProperties
      <4>3. Greets(k, j + 1)
        BY <4>1 DEF RelayInv, Greetings
      <4>4. conns[k].up[j + 1].type # "create"
        BY <4>2, <4>3 DEF Greets
      <4> QED
        BY <3>2, <4>1, <4>4
    <3> QED
      BY <3>1, <3>2
  <2> QED
    BY <2>1 DEF Waited
<1>5. saw' \in [Seat -> Tables]
  <2>1. saw \in [Seat -> Tables] /\ Head(conns[k].up).table \in Tables
    BY <1>2 DEF RelayInv, Types, Request, Tables
  <2>2. saw' \in {saw, [saw EXCEPT ![conns[k].by] = Head(conns[k].up).table]}
    BY DEF Handle, Seen
  <2> QED
    BY <2>1, <2>2
<1>6. UNCHANGED <<client, storedVars>>
  BY DEF Handle
<1> QED
  BY <1>1, <1>2, <1>3, <1>4, <1>5, <1>6, RelayKeeps

\* Coming, going and timers complete nothing.
LEMMA SealsNothing ==
  ASSUME RelayInv, sealed' = sealed, NEW s \in Seat,
         Drop(s) \/ GraceExpires(s) \/ Remove \/ UNCHANGED session
  PROVE  Calls /\ SessionInv' /\ SealFacts
<1>1. Calls
  BY DEF Calls
<1>2. SessionInv /\ Seals
  BY DEF RelayInv
<1>3. SealStep
  <2>1. SUFFICES ASSUME session' # NoSession /\ session'.state = "completed"
                 PROVE  sealed = session'.deal
    BY DEF SealStep
  <2>2. session # NoSession /\ session \in Session
    BY <1>1, <1>2, <2>1, CallsInv DEF SessionInv, SessionTypeOK
  <2>3. session.state = "completed" /\ session'.deal = session.deal
    BY <2>1, <2>2 DEF Drop, GraceExpires, Remove, Session
  <2> QED
    BY <1>2, <2>2, <2>3 DEF Seals
<1>4. SessionInv' /\ SealFacts
  BY <1>1, <1>2, <1>3, CallsInv, SealsOnce
<1> QED
  BY <1>1, <1>4

LEMMA CloseInv ==
  ASSUME RelayInv, NEW k \in DOMAIN conns, Close(k)
  PROVE  RelayInv'
<1> DEFINE s == conns[k].by
           c == [conns[k] EXCEPT !.served = FALSE, !.up = <<>>, !.bound = FALSE]
<1>1. /\ conns \in Seq(Conn) /\ conns[k] \in Conn /\ s \in Seat /\ k \in 0..Len(conns)
      /\ attached \in [Seat -> 0..Len(conns)]
  BY ConnFields, LenProperties DEF RelayInv, Types
<1>2. c \in Conn /\ c.by = conns[k].by /\ c.open = conns[k].open /\ c.down = conns[k].down
      /\ c.up = <<>>
  <2>1. <<>> \in Seq(Request)
    BY EmptySeq
  <2> QED
    BY <1>1, <2>1 DEF Conn
<1>3. conns' = [conns EXCEPT ![k] = c]
  <2>1. conns \in [DOMAIN conns -> Conn]
    BY <1>1, LenProperties
  <2> QED
    BY <2>1 DEF Close
<1> HIDE DEF c
<1>4. /\ conns' \in Seq(Conn) /\ Len(conns') = Len(conns)
      /\ conns'[k] = c /\ \A i \in DOMAIN conns : i # k => conns'[i] = conns[i]
  BY <1>1, <1>2, <1>3, Replaced
<1>5. Waited(k, conns')
  <2>1. DOMAIN c.up = {}
    BY <1>2
  <2> QED
    BY <1>4, <2>1 DEF Waited
<1>6. sealed' = sealed /\ saw' = saw /\ UNCHANGED <<client, storedVars>>
      /\ (Drop(s) \/ UNCHANGED session)
      /\ (attached' = attached \/ attached' = [attached EXCEPT ![s] = 0])
  BY DEF Close
<1> HIDE DEF s
<1>7. SessionInv' /\ SealFacts
  BY <1>1, <1>6, SealsNothing
<1>8. Tells(conns', sealed')
  BY <1>2, <1>4, <1>7, SealsTell
<1>9. Effect(k, conns')
  BY <1>1, <1>4, <1>6, <1>7 DEF Effect, Answered
<1>10. saw' \in [Seat -> Tables]
  BY <1>6 DEF RelayInv, Types
<1>11. \A i \in DOMAIN conns : /\ conns'[i].by = conns[i].by /\ conns'[i].open = conns[i].open
                               /\ conns'[i].down = conns[i].down
  BY <1>2, <1>4
<1> QED
  BY <1>1, <1>4, <1>5, <1>6, <1>7, <1>8, <1>9, <1>10, <1>11, RelayKeeps

\* The timers: news of a trade that was called off goes to both seats.
LEMMA TimersEffect ==
  ASSUME RelayInv, NEW s \in Seat, Lapse(s) \/ Expire
  PROVE  Effect(0, conns) /\ SealFacts /\ Tells(conns', sealed')
<1>1. /\ Types /\ SessionInv /\ conns \in Seq(Conn) /\ 0 \in 0..Len(conns)
      /\ session # NoSession /\ session \in Session
  BY LenProperties
  DEF RelayInv, Types, Lapse, Expire, GraceExpires, Remove, SessionInv, SessionTypeOK
<1>2. sealed' = sealed /\ saw' = saw /\ UNCHANGED <<client, storedVars>>
      /\ (GraceExpires(s) \/ Remove)
  BY DEF Lapse, Expire
<1>3. SessionInv' /\ SealFacts
  BY <1>2, SealsNothing
<1>4. Tells(conns, sealed')
  BY <1>1, <1>3, SealsTell
<1>5. PICK v \in Session : /\ conns' = Broadcast(conns, Sync(v)) \/ conns' = conns
                           /\ TellsOf(v, sealed')
  <2>1. CASE Lapse(s)
    <3>1. session' \in Session
      BY <1>1, <2>1 DEF Lapse, GraceExpires, Session, TradeState
    <3>2. TellsOf(session', sealed')
      BY <1>3, <3>1, NoSessionAssumption DEF SealFacts, TellsOf
    <3> QED
      BY <2>1, <3>1, <3>2 DEF Lapse
  <2>2. CASE Expire
    <3> DEFINE v == [session EXCEPT !.state = "cancelled"]
    <3>1. v \in Session /\ TellsOf(v, sealed')
      BY <1>1 DEF Session, TradeState, TellsOf
    <3>2. conns' = Broadcast(conns, Sync(v)) \/ conns' = conns
      BY <2>2 DEF Expire
    <3> HIDE DEF v
    <3> QED
      BY <3>1, <3>2
  <2> QED
    BY <2>1, <2>2
<1>6. Sync(v) \in Answer /\ TellsOf(Sync(v).snap, sealed')
  BY <1>5, SnapshotType DEF TellsOf
<1>7. Answered(conns, conns', {attached["a"], attached["b"]}) /\ Tells(conns', sealed')
  <2>1. CASE conns' = conns
    BY <1>1, <1>4, <2>1 DEF Answered
  <2>2. CASE conns' = Broadcast(conns, Sync(v))
    BY <1>1, <1>4, <1>6, <2>2, BroadcastFacts
  <2> QED
    BY <1>5, <2>1, <2>2
<1>8. Answered(conns, conns', {0, attached["a"], attached["b"]})
  BY <1>7, AnsweredMore
<1>9. attached' \in [Seat -> 0..Len(conns)] /\ \A t \in Seat : attached'[t] \in {attached[t], 0}
  BY <1>1 DEF Lapse, Expire, Types
<1>10. Effect(0, conns)
  BY <1>3, <1>8, <1>9 DEF Effect
<1> QED
  BY <1>3, <1>7, <1>10

LEMMA TimersInv ==
  ASSUME RelayInv, NEW s \in Seat, Lapse(s) \/ Expire
  PROVE  RelayInv'
<1>1. conns \in Seq(Conn) /\ 0 \in 0..Len(conns)
  BY LenProperties DEF RelayInv, Types
<1>2. Waited(0, conns)
  <2>1. \A i \in DOMAIN conns : i # 0
    BY <1>1, LenProperties
  <2> QED
    BY <2>1 DEF Waited
<1>3. saw' \in [Seat -> Tables] /\ UNCHANGED <<client, storedVars>>
  BY DEF Lapse, Expire, RelayInv, Types
<1>4. Effect(0, conns) /\ SealFacts /\ Tells(conns', sealed')
  BY TimersEffect
<1> QED
  BY <1>1, <1>2, <1>3, <1>4, RelayKeeps

-----------------------------------------------------------------------------
(***************************************************************************)
(* The app's steps.                                                        *)
(***************************************************************************)
\* What an app may remember of how it came to its seat.
Came(s, c, shown) ==
  /\ c.initial # IF s = "a" THEN "join" ELSE "create"
  /\ c.initial = "join" => shown /\ c.nonce # 0
  /\ c.initial = "create" /\ shown => c.token

LEMMA ClientFields ==
  ASSUME RelayInv, NEW s \in Seat
  PROVE  /\ client[s] \in App /\ client[s].ws \in 0..Len(conns) /\ conns \in Seq(Conn)
         /\ Came(s, client[s], published) /\ client[s].failed \in {Nothing, sealed}
         /\ client \in [Seat -> App]
<1>1. client[s] \in App /\ conns \in Seq(Conn) /\ client \in [Seat -> App]
  BY DEF RelayInv, Types
<1>2. client[s].ws \in 0..Len(conns)
  BY <1>1, LenProperties DEF RelayInv, Sockets, App
<1>3. Came(s, client[s], published)
  BY DEF RelayInv, Greetings, Came, Seat
<1> QED
  BY <1>1, <1>2, <1>3 DEF RelayInv, Writes

LEMMA CameInv ==
  ASSUME \A s \in Seat : Came(s, client'[s], published')
  PROVE  /\ client'["a"].initial # "join" /\ client'["b"].initial # "create"
         /\ client'["b"].initial = "join" => published' /\ client'["b"].nonce # 0
         /\ published' /\ client'["a"].initial = "create" => client'["a"].token
BY DEF Came, Seat

\* Closing one's socket leaves the other app's as it was, and sends nothing.
LEMMA HungUpKeeps ==
  ASSUME RelayInv, NEW s \in Seat
  PROVE  LET hs == HungUp(client[s].ws)
         IN  /\ hs \in Seq(Conn) /\ Len(hs) = Len(conns)
             /\ \A i \in DOMAIN conns :
                  /\ hs[i].by = conns[i].by /\ hs[i].up = conns[i].up
                  /\ conns[i].down = <<>> => hs[i].down = <<>>
                  /\ hs[i].open => conns[i].open /\ conns[i].by # s
                  /\ conns[i].by # s => hs[i] = conns[i]
             /\ Tells(hs, sealed)
<1> DEFINE k == client[s].ws
           hs == HungUp(k)
<1>1. k \in 0..Len(conns) /\ conns \in Seq(Conn)
  BY ClientFields
<1>2. /\ hs \in Seq(Conn) /\ Len(hs) = Len(conns)
      /\ \A i \in DOMAIN conns :
           /\ hs[i].by = conns[i].by /\ hs[i].up = conns[i].up
           /\ i # k => hs[i] = conns[i]
           /\ i = k => ~hs[i].open /\ hs[i].down = <<>>
  BY <1>1, HungUpFacts
<1>3. DOMAIN conns = 1..Len(conns) /\ DOMAIN hs = DOMAIN conns
  BY <1>1, <1>2, LenProperties
<1>4. \A i \in DOMAIN conns : i = k => conns[i].by = s
  BY <1>3 DEF RelayInv, Sockets
<1> HIDE DEF hs
<1>5. \A i \in DOMAIN conns : hs[i].open => conns[i].open /\ conns[i].by # s
  BY <1>2 DEF RelayInv, Sockets, k
<1> HIDE DEF k
<1>6. Tells(hs, sealed)
  <2>1. Tells(conns, sealed)
    BY DEF RelayInv, Seals
  <2>2. \A i \in DOMAIN conns : hs[i].down = conns[i].down \/ DOMAIN hs[i].down = {}
    <3>1. DOMAIN <<>> = {}
      OBVIOUS
    <3> QED
      BY <1>2, <3>1
  <2> QED
    BY <1>3, <2>1, <2>2 DEF Tells
<1> QED
  BY <1>2, <1>4, <1>5, <1>6 DEF hs, k

\* Connecting adds one socket, and hangs up the one before.
LEMMA ConnectFacts ==
  ASSUME RelayInv, NEW s \in Seat, NEW msg, Connect(s, msg), NEW n, n = Len(conns) + 1
  PROVE  /\ DOMAIN conns' = DOMAIN conns \cup {n} /\ n \notin DOMAIN conns
         /\ n \in Nat \ {0} /\ Len(conns') = n
         /\ \A i \in DOMAIN conns :
              /\ conns'[i].by = conns[i].by /\ conns'[i].up = conns[i].up
              /\ conns'[i].served = conns[i].served /\ conns'[i].bound = conns[i].bound
              /\ conns[i].by # s => conns'[i] = conns[i]
         /\ conns'[n].by = s /\ conns'[n].up = <<msg>> /\ conns'[n].down = <<>>
         /\ conns'[n].served /\ ~conns'[n].bound
<1> DEFINE hs == HungUp(client[s].ws)
           new == [by |-> s, up |-> <<msg>>, down |-> <<>>,
                   open |-> TRUE, served |-> TRUE, bound |-> FALSE]
<1>1. conns \in Seq(Conn) /\ client[s].ws \in 0..Len(conns) /\ Len(conns) \in Nat
  BY ClientFields, LenProperties
<1>2. /\ hs \in Seq(Conn) /\ Len(hs) = Len(conns) /\ DOMAIN hs = DOMAIN conns
      /\ \A i \in DOMAIN conns : /\ hs[i].by = conns[i].by /\ hs[i].up = conns[i].up
                                 /\ hs[i].served = conns[i].served /\ hs[i].bound = conns[i].bound
                                 /\ conns[i].by # s => hs[i] = conns[i]
  BY <1>1, HungUpFacts, HungUpKeeps, LenProperties
<1>3. /\ conns' = Append(hs, new) /\ new.by = s /\ new.up = <<msg>> /\ new.down = <<>>
      /\ new.served /\ ~new.bound
  BY DEF Connect
<1> HIDE DEF hs, new
<1>4. /\ conns'[n] = new /\ Len(conns') = n
      /\ \A i \in 1..Len(hs) : conns'[i] = hs[i]
      /\ DOMAIN conns = 1..Len(conns) /\ DOMAIN conns' = 1..n
  BY <1>1, <1>2, <1>3, AppendProperties, LenProperties
<1>5. \A i \in DOMAIN conns : conns'[i] = hs[i]
  BY <1>2, <1>4
<1>6. 1..n = (1..Len(conns)) \cup {n} /\ n \notin 1..Len(conns) /\ n \in Nat \ {0}
  BY <1>1
<1> QED
  BY <1>2, <1>3, <1>4, <1>5, <1>6

\* The new socket carries the one message.
LEMMA ConnectSends ==
  ASSUME RelayInv, NEW s \in Seat, NEW msg, Connect(s, msg), NEW n, n = Len(conns) + 1
  PROVE  /\ conns'[n].up # <<>> /\ conns'[n].up[1] = msg
         /\ \A i \in DOMAIN conns'[n].up : i = 1 /\ conns'[n].up[i] = msg
         /\ conns'[n].down = <<>> /\ conns'[n].served
<1> DEFINE hs == HungUp(client[s].ws)
           new == [by |-> s, up |-> <<msg>>, down |-> <<>>,
                   open |-> TRUE, served |-> TRUE, bound |-> FALSE]
<1>1. hs \in Seq(Conn) /\ Len(hs) = Len(conns)
  BY ClientFields, HungUpFacts
<1>2. conns' = Append(hs, new) /\ new.up = <<msg>> /\ new.down = <<>> /\ new.served
  BY DEF Connect
<1> HIDE DEF hs, new
<1>3. conns'[n] = new
  BY <1>1, <1>2, AppendProperties
<1>4. <<msg>> # <<>> /\ <<msg>>[1] = msg /\ \A i \in DOMAIN <<msg>> : i = 1 /\ <<msg>>[i] = msg
  OBVIOUS
<1> QED
  BY <1>2, <1>3, <1>4, Zenon

\* An app that hangs up: it goes on without a socket or is switched off.
LEMMA HangsUp ==
  ASSUME RelayInv, NEW s \in Seat, NEW c \in App, c.ws = 0, Came(s, c, published),
         conns' = HungUp(client[s].ws), client' = [client EXCEPT ![s] = c],
         UNCHANGED <<serverVars, published>>, StoredTypes', Writes'
  PROVE  RelayInv'
<1> DEFINE hs == HungUp(client[s].ws)
<1>1. /\ hs \in Seq(Conn) /\ Len(hs) = Len(conns)
      /\ \A i \in DOMAIN conns :
           /\ hs[i].by = conns[i].by /\ hs[i].up = conns[i].up
           /\ conns[i].down = <<>> => hs[i].down = <<>>
           /\ hs[i].open => conns[i].open /\ conns[i].by # s
           /\ conns[i].by # s => hs[i] = conns[i]
      /\ Tells(hs, sealed)
  BY HungUpKeeps
<1> HIDE DEF hs
<1>2. conns' = hs
  BY DEF hs
<1>3. /\ conns \in Seq(Conn) /\ DOMAIN hs = DOMAIN conns /\ client \in [Seat -> App]
      /\ client' \in [Seat -> App] /\ client'[s] = c /\ \A t \in Seat : t # s => client'[t] = client[t]
  BY <1>1, LenProperties DEF RelayInv, Types
<1>4. Types'
  BY <1>1, <1>2, <1>3 DEF RelayInv, Types, serverVars
<1>5. Sockets'
  <2>1. ASSUME NEW i \in DOMAIN conns, hs[i].open PROVE client'[hs[i].by].ws = i
    <3>1. conns[i].open /\ conns[i].by # s /\ conns[i].by \in Seat
      BY <1>1, <1>3, <2>1, ConnFields
    <3> QED
      BY <1>1, <1>3, <3>1 DEF RelayInv, Sockets
  <2>2. ASSUME NEW t \in Seat, client'[t].ws # 0
        PROVE  /\ client'[t].ws \in DOMAIN hs
               /\ hs[client'[t].ws].by = t /\ hs[client'[t].ws].open
               /\ \A i \in DOMAIN hs : hs[i].by = t => i <= client'[t].ws
    <3>1. t # s /\ client'[t] = client[t]
      BY <1>3, <2>2
    <3> QED
      BY <1>1, <1>3, <2>2, <3>1 DEF RelayInv, Sockets
  <2> QED
    BY <1>2, <1>3, <2>1, <2>2 DEF Sockets
<1>6. Greetings'
  <2>1. \A t \in Seat : Came(t, client'[t], published')
    BY <1>3, ClientFields DEF serverVars
  <2>2. ASSUME NEW i \in DOMAIN conns, NEW j \in DOMAIN hs[i].up PROVE Greets(i, j)'
    <3>1. hs[i].up = conns[i].up /\ j \in DOMAIN conns[i].up
      BY <1>1, <2>2
    <3>2. Greets(i, j)
      BY <3>1 DEF RelayInv, Greetings
    <3> QED
      BY <1>1, <1>2, <3>1, <3>2 DEF Greets, serverVars
  <2> QED
    BY <1>2, <1>3, <2>1, <2>2, CameInv DEF Greetings
<1>7. Seals'
  BY <1>1, <1>2 DEF RelayInv, Seals, serverVars
<1>8. SessionInv'
  BY DEF RelayInv, SessionInv, SessionTypeOK, FlagsMatchState, UnjoinedUntouched, serverVars
<1> QED
  BY <1>4, <1>5, <1>6, <1>7, <1>8 DEF RelayInv

\* An app that connects: the socket before is closed, a new one is open.
LEMMA Connects ==
  ASSUME RelayInv, NEW s \in Seat, NEW c \in App, c.initial # "none", c.ws = Len(conns) + 1,
         Came(s, c, published), Connect(s, Handshake(c)), client' = [client EXCEPT ![s] = c],
         UNCHANGED <<serverVars, published>>, StoredTypes', Writes'
  PROVE  RelayInv'
<1>0. PICK n : n = Len(conns) + 1
  OBVIOUS
<1> DEFINE hs == HungUp(client[s].ws)
           new == [by |-> s, up |-> <<Handshake(c)>>, down |-> <<>>,
                   open |-> TRUE, served |-> TRUE, bound |-> FALSE]
<1>1. /\ hs \in Seq(Conn) /\ Len(hs) = Len(conns)
      /\ \A i \in DOMAIN conns :
           /\ hs[i].by = conns[i].by /\ hs[i].up = conns[i].up
           /\ conns[i].down = <<>> => hs[i].down = <<>>
           /\ hs[i].open => conns[i].open /\ conns[i].by # s
           /\ conns[i].by # s => hs[i] = conns[i]
      /\ Tells(hs, sealed)
  BY HungUpKeeps
<1>2. /\ Handshake(c) \in Request
      /\ Handshake(c).type = "create" => c.initial = "create" /\ ~c.token
      /\ Handshake(c).type = "join" => c.initial = "join" /\ Handshake(c).nonce = c.nonce
  BY HandshakeType
<1>3. new \in Conn
  <2>1. <<Handshake(c)>> \in Seq(Request) /\ <<>> \in Seq(Answer)
    BY <1>2, EmptySeq
  <2> QED
    BY <2>1 DEF Conn
<1>4. conns' = Append(hs, new)
  BY DEF Connect
<1>5. new.by = s /\ new.down = <<>> /\ new.open /\ new.up = <<Handshake(c)>>
  OBVIOUS
<1> HIDE DEF hs, new
<1>6. /\ conns \in Seq(Conn) /\ Len(conns) \in Nat
      /\ DOMAIN conns = 1..Len(conns) /\ DOMAIN hs = DOMAIN conns
      /\ client \in [Seat -> App] /\ client' \in [Seat -> App] /\ client'[s] = c
      /\ \A t \in Seat : t # s => client'[t] = client[t]
  BY <1>1, LenProperties DEF RelayInv, Types
<1>7. /\ conns' \in Seq(Conn) /\ Len(conns') = n /\ conns'[n] = new
      /\ \A i \in DOMAIN conns : conns'[i] = hs[i]
  BY <1>0, <1>1, <1>3, <1>4, <1>6, AppendProperties
<1>8. DOMAIN conns' = DOMAIN conns \cup {n} /\ n \notin DOMAIN conns
  BY <1>0, <1>6, <1>7, LenProperties
<1>9. Types'
  <2>1. attached' \in [Seat -> 0..Len(conns')]
    BY <1>0, <1>6, <1>7 DEF RelayInv, Types, serverVars
  <2> QED
    BY <1>6, <1>7, <2>1 DEF RelayInv, Types, serverVars
<1>10. Sockets'
  <2>1. ASSUME NEW i \in DOMAIN conns', conns'[i].open PROVE client'[conns'[i].by].ws = i
    <3>1. CASE i = n
      BY <1>0, <1>5, <1>6, <1>7, <3>1
    <3>2. CASE i \in DOMAIN conns
      <4>1. conns[i].open /\ conns[i].by # s /\ conns[i].by \in Seat /\ conns'[i].by = conns[i].by
        BY <1>1, <1>6, <1>7, <2>1, <3>2, ConnFields
      <4> QED
        BY <1>6, <3>2, <4>1 DEF RelayInv, Sockets
    <3> QED
      BY <1>8, <2>1, <3>1, <3>2
  <2>2. ASSUME NEW t \in Seat, client'[t].ws # 0
        PROVE  /\ client'[t].ws \in DOMAIN conns'
               /\ conns'[client'[t].ws].by = t /\ conns'[client'[t].ws].open
               /\ \A i \in DOMAIN conns' : conns'[i].by = t => i <= client'[t].ws
    <3>1. CASE t = s
      BY <1>0, <1>5, <1>6, <1>7, <1>8, <3>1
    <3>2. CASE t # s
      <4>1. client'[t] = client[t] /\ client[t].ws # 0
        BY <1>6, <2>2, <3>2
      <4>2. /\ client[t].ws \in DOMAIN conns
            /\ conns[client[t].ws].by = t /\ conns[client[t].ws].open
            /\ \A i \in DOMAIN conns : conns[i].by = t => i <= client[t].ws
        BY <4>1 DEF RelayInv, Sockets
      <4>3. conns'[client[t].ws] = conns[client[t].ws] /\ client[t].ws \in DOMAIN conns'
        BY <1>1, <1>7, <1>8, <3>2, <4>2
      <4>4. ASSUME NEW i \in DOMAIN conns', conns'[i].by = t PROVE i <= client[t].ws
        <5>1. i # n
          BY <1>5, <1>7, <3>2, <4>4
        <5>2. i \in DOMAIN conns /\ conns[i].by = t
          BY <1>1, <1>7, <1>8, <4>4, <5>1
        <5> QED
          BY <4>2, <5>2
      <4> QED
        BY <4>1, <4>2, <4>3, <4>4
    <3> QED
      BY <3>1, <3>2
  <2> QED
    BY <2>1, <2>2 DEF Sockets
<1>11. Greetings'
  <2>1. \A t \in Seat : Came(t, client'[t], published')
    BY <1>6, ClientFields DEF serverVars
  <2>2. ASSUME NEW i \in DOMAIN conns, NEW j \in DOMAIN conns'[i].up PROVE Greets(i, j)'
    <3>1. conns'[i].up = conns[i].up /\ j \in DOMAIN conns[i].up
      BY <1>1, <1>7, <2>2
    <3>2. Greets(i, j)
      BY <3>1 DEF RelayInv, Greetings
    <3> QED
      BY <1>1, <1>7, <3>1, <3>2 DEF Greets, serverVars
  <2>3. ASSUME NEW j \in DOMAIN conns'[n].up PROVE Greets(n, j)'
    <3>1. j = 1 /\ conns'[n].up[j] = Handshake(c)
      BY <1>5, <1>7, <2>3
    <3>2. \A t \in Seat : attached[t] # n
      BY <1>0, <1>6 DEF RelayInv, Types
    <3>3. Handshake(c).type = "create" => s = "a" /\ ~published
      BY <1>2 DEF Came, Seat
    <3>4. Handshake(c).type = "join" => s = "b" /\ published /\ Handshake(c).nonce # 0
      BY <1>2 DEF Came, Seat
    <3> QED
      BY <1>5, <1>7, <3>1, <3>2, <3>3, <3>4 DEF Greets, serverVars
  <2> QED
    BY <1>8, <2>1, <2>2, <2>3, CameInv DEF Greetings
<1>12. Seals'
  <2>1. Tells(conns', sealed)
    BY <1>1, <1>5, <1>6, <1>7, <1>8 DEF Tells
  <2> QED
    BY <2>1 DEF RelayInv, Seals, serverVars
<1>13. SessionInv'
  BY DEF RelayInv, SessionInv, SessionTypeOK, FlagsMatchState, UnjoinedUntouched, serverVars
<1> QED
  BY <1>9, <1>10, <1>11, <1>12, <1>13 DEF RelayInv

LEMMA Appended ==
  ASSUME NEW S, NEW q \in Seq(S), NEW e \in S
  PROVE  /\ Append(q, e) \in Seq(S)
         /\ DOMAIN Append(q, e) = DOMAIN q \cup {Len(q) + 1}
         /\ \A j \in DOMAIN q : Append(q, e)[j] = q[j]
         /\ Append(q, e)[Len(q) + 1] = e
<1>1. /\ Append(q, e) \in Seq(S) /\ Len(Append(q, e)) = Len(q) + 1
      /\ \A j \in 1..Len(q) : Append(q, e)[j] = q[j]
      /\ Append(q, e)[Len(q) + 1] = e
  BY AppendProperties
<1>2. DOMAIN q = 1..Len(q) /\ Len(q) \in Nat
      /\ DOMAIN Append(q, e) = 1..Len(Append(q, e))
  BY <1>1, LenProperties
<1>3. 1..(Len(q) + 1) = 1..Len(q) \cup {Len(q) + 1}
  BY <1>2
<1> QED
  BY <1>1, <1>2, <1>3

\* A button: one more message, no greeting, waits on the app's socket.
LEMMA PressInv ==
  ASSUME RelayInv, NEW s \in Seat, NEW msg \in Request, msg.type \in DOMAIN Allowed,
         NEW c \in App, c.ws = client[s].ws, Came(s, c, published), c.failed = client[s].failed,
         client' = [client EXCEPT ![s] = c], Press(s, msg)
  PROVE  RelayInv'
<1> DEFINE k == client[s].ws
           new == [conns[k] EXCEPT !.up = Append(@, msg)]
<1>1. /\ client[s] \in App /\ k \in 0..Len(conns) /\ conns \in Seq(Conn) /\ k # 0
      /\ client \in [Seat -> App]
  BY ClientFields DEF Press, OnBoard
<1>2. k \in DOMAIN conns /\ DOMAIN conns = 1..Len(conns)
  BY <1>1, LenProperties
<1>3. /\ conns[k] \in Conn /\ conns[k].up \in Seq(Request)
      /\ Append(conns[k].up, msg) \in Seq(Request)
      /\ DOMAIN Append(conns[k].up, msg) = DOMAIN conns[k].up \cup {Len(conns[k].up) + 1}
      /\ \A j \in DOMAIN conns[k].up : Append(conns[k].up, msg)[j] = conns[k].up[j]
      /\ Append(conns[k].up, msg)[Len(conns[k].up) + 1] = msg
  <2>1. conns[k] \in Conn /\ conns[k].up \in Seq(Request)
    BY <1>1, <1>2, ConnFields
  <2> QED
    BY <2>1, Appended
<1>4. /\ new \in Conn /\ new.by = conns[k].by /\ new.open = conns[k].open
      /\ new.down = conns[k].down /\ new.up = Append(conns[k].up, msg)
  BY <1>3 DEF Conn
<1>5. conns' = [conns EXCEPT ![k] = new]
  <2>1. conns \in [DOMAIN conns -> Conn]
    BY <1>1, LenProperties
  <2> QED
    BY <1>2, <2>1 DEF Press
<1> HIDE DEF new
<1>6. /\ conns' \in Seq(Conn) /\ Len(conns') = Len(conns) /\ DOMAIN conns' = DOMAIN conns
      /\ conns'[k] = new /\ \A i \in DOMAIN conns : i # k => conns'[i] = conns[i]
  BY <1>1, <1>2, <1>4, <1>5, Replaced
<1>7. /\ UNCHANGED <<serverVars, published, attempts, persisted, applying, recorded>>
      /\ presses' = [presses EXCEPT ![msg.type] = @ + 1]
  BY DEF Press
<1>8. /\ client' \in [Seat -> App] /\ client'[s] = c /\ c.ws = k
      /\ \A t \in Seat : /\ t # s => client'[t] = client[t]
                         /\ client'[t].ws = client[t].ws /\ client'[t].failed = client[t].failed
  BY <1>1
<1> HIDE DEF k
<1>9. Types'
  BY <1>6, <1>7, <1>8 DEF RelayInv, Types, StoredTypes, serverVars
<1>10. \A i \in DOMAIN conns : /\ conns'[i].by = conns[i].by /\ conns'[i].open = conns[i].open
                               /\ conns'[i].down = conns[i].down
  BY <1>4, <1>6
<1>11. Sockets'
  <2>1. \A i \in DOMAIN conns : conns[i].by \in Seat
    BY <1>1, ConnFields
  <2>2. \A t \in Seat : client'[t].ws = client[t].ws
    BY <1>8
  <2> QED
    BY <1>6, <1>10, <2>1, <2>2 DEF RelayInv, Sockets
<1>12. Greetings'
  <2>1. \A t \in Seat : Came(t, client'[t], published')
    BY <1>7, <1>8, ClientFields
  <2>2. ASSUME NEW i \in DOMAIN conns, NEW j \in DOMAIN conns'[i].up PROVE Greets(i, j)'
    <3>1. CASE j \in DOMAIN conns[i].up /\ conns'[i].up[j] = conns[i].up[j]
      <4>1. Greets(i, j)
        BY <3>1 DEF RelayInv, Greetings
      <4> QED
        BY <1>7, <1>10, <3>1, <4>1 DEF Greets, serverVars
    <3>2. CASE conns'[i].up[j] = msg
      <4>1. msg.type \notin {"create", "join"}
        BY DEF Allowed
      <4> QED
        BY <3>2, <4>1 DEF Greets
    <3> QED
      BY <1>3, <1>4, <1>6, <2>2, <3>1, <3>2
  <2> QED
    BY <1>6, <2>1, <2>2, CameInv DEF Greetings
<1>13. Seals'
  <2>1. Tells(conns', sealed)
    BY <1>6, <1>10 DEF RelayInv, Seals, Tells
  <2> QED
    BY <1>7, <2>1 DEF RelayInv, Seals, serverVars
<1>14. Writes'
  BY <1>7, <1>8 DEF RelayInv, Writes, serverVars
<1>15. SessionInv'
  BY <1>7 DEF RelayInv, SessionInv, SessionTypeOK, FlagsMatchState, UnjoinedUntouched, serverVars
<1> QED
  BY <1>9, <1>11, <1>12, <1>13, <1>14, <1>15 DEF RelayInv

LEMMA Tailed ==
  ASSUME NEW S, NEW q \in Seq(S), q # <<>>
  PROVE  /\ Head(q) \in S /\ Head(q) = q[1] /\ 1 \in DOMAIN q /\ Tail(q) \in Seq(S)
         /\ \A j \in DOMAIN Tail(q) : /\ j \in Nat \ {0} /\ j + 1 \in DOMAIN q
                                      /\ Tail(q)[j] = q[j + 1]
<1>1. /\ Head(q) \in S /\ Head(q) = q[1] /\ Tail(q) \in Seq(S) /\ Len(Tail(q)) = Len(q) - 1
      /\ \A j \in 1..Len(Tail(q)) : Tail(q)[j] = q[j + 1]
  BY HeadTailProperties
<1>2. /\ DOMAIN q = 1..Len(q) /\ Len(q) \in Nat \ {0}
      /\ DOMAIN Tail(q) = 1..Len(Tail(q))
  BY <1>1, EmptySeq, LenProperties
<1>3. ASSUME NEW n \in Nat \ {0}, NEW j \in 1..(n - 1) PROVE j + 1 \in 1..n /\ j \in Nat \ {0}
  OBVIOUS
<1>4. \A j \in DOMAIN Tail(q) : j + 1 \in DOMAIN q /\ j \in Nat \ {0}
  BY <1>1, <1>2, <1>3
<1> QED
  BY <1>1, <1>2, <1>4

\* An app that reads a snapshot: what it then writes is the sealed deal.
LEMMA ReceiveInv ==
  ASSUME RelayInv, NEW s \in Seat, ClientReceive(s)
  PROVE  RelayInv'
<1> DEFINE k == client[s].ws
           msg == Head(conns[k].down)
           c == IF msg.type = "seat" THEN [client[s] EXCEPT !.token = TRUE, !.applied = FALSE]
                                     ELSE client[s]
           new == [conns[k] EXCEPT !.down = Tail(@)]
<1>1. /\ client[s] \in App /\ k \in 0..Len(conns) /\ conns \in Seq(Conn) /\ k # 0
      /\ Came(s, client[s], published) /\ client[s].failed \in {Nothing, sealed}
      /\ client \in [Seat -> App] /\ conns[k].down # <<>>
  BY ClientFields DEF ClientReceive
<1>2. k \in DOMAIN conns /\ DOMAIN conns = 1..Len(conns)
  BY <1>1, LenProperties
<1>3. /\ conns[k] \in Conn /\ conns[k].down \in Seq(Answer)
      /\ msg \in Answer /\ msg = conns[k].down[1] /\ 1 \in DOMAIN conns[k].down
      /\ Tail(conns[k].down) \in Seq(Answer)
      /\ \A j \in DOMAIN Tail(conns[k].down) :
           j + 1 \in DOMAIN conns[k].down /\ Tail(conns[k].down)[j] = conns[k].down[j + 1]
  <2>1. conns[k] \in Conn /\ conns[k].down \in Seq(Answer)
    BY <1>1, <1>2, ConnFields
  <2> QED
    BY <1>1, <2>1, Tailed
<1>4. /\ new \in Conn /\ new.by = conns[k].by /\ new.open = conns[k].open
      /\ new.up = conns[k].up /\ new.down = Tail(conns[k].down)
  BY <1>3 DEF Conn
<1>5. TellsOf(msg.snap, sealed)
  BY <1>2, <1>3 DEF RelayInv, Seals, Tells
<1>6. /\ c \in App /\ c.ws = k /\ c.initial = client[s].initial /\ c.nonce = client[s].nonce
      /\ c.failed = client[s].failed
      /\ (msg.type = "seat" => c.token) /\ (client[s].token => c.token)
  BY <1>1 DEF App
<1> HIDE DEF c, new
<1>7. CASE msg.type = "gone"
  <2>1. /\ conns' = HungUp(client[s].ws) /\ client' = [client EXCEPT ![s] = Off]
        /\ persisted' = [persisted EXCEPT ![s] = FALSE]
        /\ UNCHANGED <<applying, published, serverVars, attempts, recorded, presses>>
    BY <1>7 DEF ClientReceive
  <2>2. Off \in App /\ Off.ws = 0 /\ Came(s, Off, published) /\ Off.failed = Nothing
    BY OffType DEF Off, Came
  <2> HIDE DEF k, msg
  <2>3. StoredTypes'
    BY <2>1 DEF RelayInv, Types, StoredTypes
  <2>4. Writes'
    BY <1>1, <2>1, <2>2 DEF RelayInv, Writes, serverVars
  <2> QED
    BY <2>1, <2>2, <2>3, <2>4, HangsUp
<1>8. CASE msg.type # "gone"
  <2>1. /\ conns' = [conns EXCEPT ![k].down = Tail(@)]
        /\ client' = [client EXCEPT ![s] = Shown(c, msg.snap)]
        /\ applying' = [applying EXCEPT ![s] =
                          IF Applies(c, msg.snap) THEN msg.snap.deal ELSE @]
        /\ persisted' = [persisted EXCEPT ![s] = StaysStored(s, msg)]
        /\ published' = (published \/ (s = "a" /\ msg.type = "seat"))
        /\ UNCHANGED <<serverVars, attempts, recorded, presses>>
    BY <1>8 DEF ClientReceive, c
  <2> HIDE DEF msg
  <2>2. conns' = [conns EXCEPT ![k] = new]
    <3>1. conns \in [DOMAIN conns -> Conn]
      BY <1>1, LenProperties
    <3> QED
      BY <1>2, <2>1, <3>1 DEF new
  <2>3. /\ conns' \in Seq(Conn) /\ Len(conns') = Len(conns) /\ DOMAIN conns' = DOMAIN conns
        /\ conns'[k] = new /\ \A i \in DOMAIN conns : i # k => conns'[i] = conns[i]
    BY <1>1, <1>2, <1>4, <2>2, Replaced
  <2> DEFINE d == Shown(c, msg.snap)
  <2>4. /\ d \in App /\ d.ws = k /\ d.initial = client[s].initial /\ d.nonce = client[s].nonce
        /\ d.failed = client[s].failed
        /\ (msg.type = "seat" => d.token) /\ (client[s].token => d.token)
    <3>1. msg.snap \in View /\ msg.snap.deal \in Deal
      BY <1>3 DEF Answer, View
    <3> QED
      BY <1>6, <3>1 DEF Shown, App
  <2> HIDE DEF d
  <2>5. client' = [client EXCEPT ![s] = d]
    BY <2>1 DEF d
  <2> HIDE DEF k
  <2>6. /\ client' \in [Seat -> App] /\ client'[s] = d
        /\ \A t \in Seat : /\ t # s => client'[t] = client[t]
                           /\ client'[t].ws = client[t].ws
                           /\ client'[t].failed = client[t].failed
    <3>1. d \in App /\ d.ws = client[s].ws /\ d.failed = client[s].failed
      BY <2>4 DEF k
    <3>2. client \in [Seat -> App]
      BY <1>1
    <3> QED
      BY <2>5, <3>1, <3>2
  <2>7. \A i \in DOMAIN conns : /\ conns'[i].by = conns[i].by /\ conns'[i].open = conns[i].open
                                /\ conns'[i].up = conns[i].up
                                /\ conns[i].down = <<>> => conns'[i].down = conns[i].down
    BY <1>1, <1>4, <2>3 DEF k
  <2>8. applying' \in [Seat -> Tables] /\ \A t \in Seat : applying'[t] \in {applying[t], sealed}
    <3>1. msg.snap.state = "completed" => msg.snap.deal = sealed
      BY <1>5 DEF TellsOf
    <3>2. applying \in [Seat -> Tables] /\ sealed \in Tables
      BY DEF RelayInv, Types, StoredTypes
    <3> QED
      BY <2>1, <3>1, <3>2 DEF Applies
  <2>9. Types'
    <3>1. StaysStored(s, msg) \in BOOLEAN /\ published' \in BOOLEAN
      BY <2>1 DEF StaysStored, RelayInv, Types, StoredTypes
    <3> QED
      BY <2>1, <2>3, <2>6, <2>8, <3>1 DEF RelayInv, Types, StoredTypes, serverVars
  <2>10. Sockets'
    <3>1. \A i \in DOMAIN conns : conns[i].by \in Seat
      BY <1>1, ConnFields
    <3>2. \A t \in Seat : client'[t].ws = client[t].ws
      BY <2>6
    <3> QED
      BY <2>3, <2>7, <3>1, <3>2 DEF RelayInv, Sockets
  <2>11. Greetings'
    <3>0. /\ published => published'
          /\ published' => published \/ (s = "a" /\ msg.type = "seat")
      BY <2>1
    <3>1. Came(s, d, published')
      BY <1>1, <2>4, <3>0 DEF Came, Seat
    <3>2. ASSUME NEW t \in Seat PROVE Came(t, client'[t], published')
      <4>1. CASE t = s
        BY <2>6, <3>1, <4>1
      <4>2. CASE t # s
        <5>1. Came(t, client[t], published) /\ client'[t] = client[t]
          BY <2>6, <4>2, ClientFields
        <5> QED
          BY <3>0, <4>2, <5>1 DEF Came, Seat
      <4> QED
        BY <4>1, <4>2
    <3>3. ASSUME NEW i \in DOMAIN conns, NEW j \in DOMAIN conns'[i].up PROVE Greets(i, j)'
      <4>1. Greets(i, j) /\ conns'[i].up = conns[i].up
        <5>1. conns'[i].up = conns[i].up
          BY <2>7
        <5> QED
          BY <3>3, <5>1 DEF RelayInv, Greetings
      <4>2. CASE conns[i].up[j].type = "create"
        <5>2. /\ j = 1 /\ conns[i].by = "a" /\ conns[i].down = <<>>
              /\ (\A t \in Seat : attached[t] # i) /\ (conns[i].open => ~published)
          BY <4>1, <4>2 DEF Greets
        <5>3. i # k
          BY <1>1, <5>2 DEF k
        <5>4. conns[i].open => s # "a"
          BY <5>2, <5>3 DEF RelayInv, Sockets, k
        <5>5. conns'[i].open => ~published'
          BY <2>1, <2>7, <5>2, <5>4
        <5> QED
          BY <2>1, <2>7, <4>1, <4>2, <5>2, <5>5 DEF Greets, serverVars
      <4>3. CASE conns[i].up[j].type # "create"
        BY <2>1, <2>7, <4>1, <4>3 DEF Greets
      <4> QED
        BY <4>2, <4>3
    <3> QED
      BY <2>3, <3>2, <3>3, CameInv DEF Greetings
  <2>12. Seals'
    <3>1. ASSUME NEW i \in DOMAIN conns, NEW j \in DOMAIN conns'[i].down
          PROVE  TellsOf(conns'[i].down[j].snap, sealed)
      <4>1. CASE i = k
        <5>1. conns'[i].down = Tail(conns[k].down)
          BY <1>4, <2>3, <4>1
        <5>2. j + 1 \in DOMAIN conns[k].down /\ conns'[i].down[j] = conns[k].down[j + 1]
          BY <1>3, <3>1, <5>1
        <5> QED
          BY <1>2, <5>2 DEF RelayInv, Seals, Tells
      <4>2. CASE i # k
        BY <2>3, <3>1, <4>2 DEF RelayInv, Seals, Tells
      <4> QED
        BY <4>1, <4>2
    <3>2. Tells(conns', sealed)
      BY <2>3, <3>1 DEF Tells
    <3> QED
      BY <2>1, <3>2 DEF RelayInv, Seals, serverVars
  <2>13. Writes'
    BY <2>1, <2>6, <2>8 DEF RelayInv, Writes, serverVars
  <2>14. SessionInv'
    BY <2>1
    DEF RelayInv, SessionInv, SessionTypeOK, FlagsMatchState, UnjoinedUntouched, serverVars
  <2> QED
    BY <2>9, <2>10, <2>11, <2>12, <2>13, <2>14 DEF RelayInv
<1> QED
  BY <1>7, <1>8

\* Steps that leave the sockets alone: a write under way, done, failed, retried.
LEMMA WritesInv ==
  ASSUME RelayInv, NEW s \in Seat, NEW c \in App, c.ws = client[s].ws, Came(s, c, published),
         client' = [client EXCEPT ![s] = c], conns' = conns,
         UNCHANGED <<serverVars, published>>, StoredTypes', Writes'
  PROVE  RelayInv'
<1>1. /\ conns \in Seq(Conn) /\ client \in [Seat -> App]
      /\ client' \in [Seat -> App] /\ client'[s] = c
      /\ \A t \in Seat : t # s => client'[t] = client[t]
      /\ \A t \in Seat : client'[t].ws = client[t].ws
  BY ClientFields
<1>2. Types'
  BY <1>1 DEF RelayInv, Types, serverVars
<1>3. Sockets'
  <2>1. \A i \in DOMAIN conns : conns[i].by \in Seat
    BY <1>1, ConnFields
  <2> QED
    BY <1>1, <2>1 DEF RelayInv, Sockets
<1>4. Greetings'
  <2>1. \A t \in Seat : Came(t, client'[t], published')
    BY <1>1, ClientFields
  <2> QED
    BY <2>1, CameInv DEF RelayInv, Greetings, Greets, serverVars
<1>5. Seals' /\ SessionInv'
  BY DEF RelayInv, Seals, serverVars, SessionInv, SessionTypeOK, FlagsMatchState,
         UnjoinedUntouched
<1> QED
  BY <1>2, <1>3, <1>4, <1>5 DEF RelayInv

LEMMA ConnectsInv ==
  ASSUME RelayInv, NEW s \in Seat,
         BeginCreate \/ BeginJoin \/ BeginResume(s) \/ Reconnect(s) \/ RetryConnect(s)
  PROVE  RelayInv'
<1>1. Len(conns) + 1 \in Nat
  BY LenProperties DEF RelayInv, Types
<1>2. Off \in App /\ Off.initial = "none" /\ ~Off.token /\ Off.nonce = 0 /\ Off.failed = Nothing
  BY OffType DEF Off
<1>3. UNCHANGED storedVars => StoredTypes' /\ UNCHANGED <<published, applying, recorded>>
  BY DEF storedVars, RelayInv, Types, StoredTypes
<1>4. ASSUME NEW t \in Seat, NEW c \in App, c.failed \in {Nothing, client[t].failed},
             client' = [client EXCEPT ![t] = c], UNCHANGED <<sealed, applying, recorded>>
      PROVE  Writes'
  <2>1. \A u \in Seat : client'[u].failed \in {Nothing, client[u].failed}
    BY <1>4, ClientFields
  <2> QED
    BY <1>4, <2>1 DEF RelayInv, Writes
<1>5. CASE BeginCreate
  <2> DEFINE c == Begun([Off EXCEPT !.initial = "create"])
  <2>1. /\ c \in App /\ c.initial = "create" /\ c.ws = Len(conns) + 1 /\ c.failed = Nothing
        /\ Came("a", c, published)
    BY <1>1, <1>2, <1>5 DEF Begun, App, Greeting, Came, BeginCreate
  <2>2. /\ Connect("a", Handshake(c)) /\ client' = [client EXCEPT !["a"] = c]
        /\ UNCHANGED <<serverVars, storedVars>>
    BY <1>5 DEF BeginCreate
  <2> HIDE DEF c
  <2>3. "a" \in Seat /\ c.initial # "none"
    BY <2>1 DEF Seat
  <2>4. StoredTypes' /\ UNCHANGED published /\ Writes'
    BY <1>3, <1>4, <2>1, <2>2, <2>3 DEF serverVars
  <2> QED
    BY <2>1, <2>2, <2>3, <2>4, Connects
<1>6. CASE BeginJoin
  <2> DEFINE c == Begun([Off EXCEPT !.initial = "join", !.nonce = attempts + 1])
  <2>1. attempts + 1 \in Nonce /\ attempts + 1 # 0 /\ published /\ attempts' = attempts + 1
    BY <1>6, OfferAssumption DEF BeginJoin
  <2>2. /\ c \in App /\ c.initial = "join" /\ c.ws = Len(conns) + 1 /\ c.failed = Nothing
        /\ Came("b", c, published)
    BY <1>1, <1>2, <2>1 DEF Begun, App, Greeting, Came
  <2>3. /\ Connect("b", Handshake(c)) /\ client' = [client EXCEPT !["b"] = c]
        /\ UNCHANGED <<serverVars, published, persisted, applying, recorded, presses>>
    BY <1>6 DEF BeginJoin
  <2> HIDE DEF c
  <2>4. "b" \in Seat /\ c.initial # "none"
    BY <2>2 DEF Seat
  <2>5. StoredTypes'
    BY <2>1, <2>3 DEF RelayInv, Types, StoredTypes
  <2>6. Writes'
    BY <1>4, <2>2, <2>3, <2>4 DEF serverVars
  <2> QED
    BY <2>2, <2>3, <2>4, <2>5, <2>6, Connects
<1>7. CASE BeginResume(s)
  <2> DEFINE c == Begun([Off EXCEPT !.initial = "resume", !.token = TRUE])
  <2>1. /\ c \in App /\ c.initial = "resume" /\ c.ws = Len(conns) + 1 /\ c.failed = Nothing
        /\ Came(s, c, published)
    BY <1>1, <1>2 DEF Begun, App, Greeting, Came
  <2>2. /\ Connect(s, Handshake(c)) /\ client' = [client EXCEPT ![s] = c]
        /\ UNCHANGED <<serverVars, storedVars>>
    BY <1>7 DEF BeginResume
  <2> HIDE DEF c
  <2>3. StoredTypes' /\ UNCHANGED published /\ Writes' /\ c.initial # "none"
    BY <1>3, <1>4, <2>1, <2>2 DEF serverVars
  <2> QED
    BY <2>1, <2>2, <2>3, Connects
<1>8. CASE Reconnect(s) \/ RetryConnect(s)
  <2> DEFINE c == Begun(client[s])
  <2>1. client[s] \in App /\ Came(s, client[s], published) /\ client[s].initial # "none"
    BY <1>8, ClientFields DEF Reconnect, RetryConnect, Retrying, Active
  <2>2. /\ c \in App /\ c.initial = client[s].initial /\ c.ws = Len(conns) + 1
        /\ c.failed = client[s].failed /\ c.token = client[s].token /\ c.nonce = client[s].nonce
    BY <1>1, <2>1 DEF Begun, App
  <2>3. Handshake(c) = Handshake(client[s])
    BY <2>2 DEF Handshake
  <2>4. /\ Connect(s, Handshake(client[s])) /\ client' = [client EXCEPT ![s] = c]
        /\ UNCHANGED <<serverVars, storedVars>>
    BY <1>8 DEF Reconnect, RetryConnect
  <2> HIDE DEF c
  <2>5. StoredTypes' /\ UNCHANGED published /\ Writes' /\ c.initial # "none"
    BY <1>3, <1>4, <2>1, <2>2, <2>4 DEF serverVars
  <2>6. Came(s, c, published)
    BY <2>1, <2>2 DEF Came
  <2>7. Connect(s, Handshake(c))
    BY <2>3, <2>4
  <2> QED
    BY <2>2, <2>4, <2>5, <2>6, <2>7, Connects
<1> QED
  BY <1>5, <1>6, <1>7, <1>8

Presses(s) == \/ PressAccept(s) \/ PressUnaccept(s) \/ PressConfirm(s) \/ PressCancel(s)
              \/ \E side \in Seat, o \in Offer : PressOffer(s, side, o)

\* What any button does: it sends its message, and changes the table at most.
LEMMA PressParts ==
  ASSUME RelayInv, NEW s \in Seat, Presses(s)
  PROVE  \E msg \in Request, c \in App :
           /\ msg.type \in DOMAIN Allowed /\ Press(s, msg) /\ client' = [client EXCEPT ![s] = c]
           /\ c.ws = client[s].ws /\ c.initial = client[s].initial /\ c.token = client[s].token
           /\ c.nonce = client[s].nonce /\ c.failed = client[s].failed
<1>1. /\ client[s] \in App /\ client \in [Seat -> App] /\ client[s].table \in Deal
  BY ClientFields DEF App
<1>2. \A table \in Deal, type \in DOMAIN Allowed :
         Up(type, table) \in Request /\ Up(type, table).type = type
  BY DEF Up, Request, Seat
<1>3. Empty \in Deal
  BY OfferAssumption DEF Deal, Empty
<1>4. CASE PressAccept(s) \/ PressUnaccept(s) \/ PressConfirm(s) \/ PressCancel(s)
  <2>1. PICK msg \in Request : msg.type \in DOMAIN Allowed /\ Press(s, msg)
    BY <1>1, <1>2, <1>3, <1>4
    DEF PressAccept, PressUnaccept, PressConfirm, PressCancel, Allowed
  <2>2. client' = [client EXCEPT ![s] = client[s]]
    BY <1>1, <1>4 DEF PressAccept, PressUnaccept, PressConfirm, PressCancel
  <2> QED
    BY <1>1, <2>1, <2>2
<1>5. CASE \E side \in Seat, o \in Offer : PressOffer(s, side, o)
  <2>1. PICK side \in Seat, o \in Offer : PressOffer(s, side, o)
    BY <1>5
  <2> DEFINE c == [client[s] EXCEPT !.table[side] = o]
  <2>2. /\ c \in App /\ c.ws = client[s].ws /\ c.initial = client[s].initial
        /\ c.token = client[s].token /\ c.nonce = client[s].nonce /\ c.failed = client[s].failed
        /\ c.table \in Deal
    BY <1>1 DEF App, Deal
  <2>3. client' = [client EXCEPT ![s] = c] /\ client'[s] = c
    BY <1>1, <2>1 DEF PressOffer
  <2> HIDE DEF c
  <2>4. Press(s, Edit(side, c.table))
    BY <2>1, <2>3 DEF PressOffer
  <2>5. Edit(side, c.table) \in Request /\ Edit(side, c.table).type = "offer"
        /\ "offer" \in DOMAIN Allowed
    BY <2>2 DEF Edit, Up, Request, Allowed
  <2> QED
    BY <2>2, <2>3, <2>4, <2>5
<1> QED
  BY <1>4, <1>5 DEF Presses

LEMMA PressesInv ==
  ASSUME RelayInv, NEW s \in Seat, Presses(s)
  PROVE  RelayInv'
<1>1. PICK msg \in Request, c \in App :
        /\ msg.type \in DOMAIN Allowed /\ Press(s, msg) /\ client' = [client EXCEPT ![s] = c]
        /\ c.ws = client[s].ws /\ c.initial = client[s].initial /\ c.token = client[s].token
        /\ c.nonce = client[s].nonce /\ c.failed = client[s].failed
  BY PressParts
<1>2. Came(s, c, published)
  BY <1>1, ClientFields DEF Came
<1> QED
  BY <1>1, <1>2, PressInv

LEMMA HangUpsInv ==
  ASSUME RelayInv, NEW s \in Seat, Break(s) \/ Quit(s) \/ Reset(s)
  PROVE  RelayInv'
<1>1. Off \in App /\ Off.ws = 0 /\ Came(s, Off, published) /\ Off.failed = Nothing
  BY OffType DEF Off, Came
<1>2. /\ client[s] \in App /\ Came(s, client[s], published)
      /\ client[s].failed \in {Nothing, sealed} /\ client \in [Seat -> App]
  BY ClientFields
<1>3. PICK c \in App : /\ c.ws = 0 /\ Came(s, c, published) /\ c.failed \in {Nothing, sealed}
                       /\ client' = [client EXCEPT ![s] = c]
  <2>1. CASE Break(s)
    <3> DEFINE c == [client[s] EXCEPT !.ws = 0]
    <3>1. /\ c \in App /\ c.ws = 0 /\ c.initial = client[s].initial /\ c.token = client[s].token
          /\ c.nonce = client[s].nonce /\ c.failed = client[s].failed
      BY <1>2 DEF App
    <3>2. client' = [client EXCEPT ![s] = c]
      BY <1>2, <2>1 DEF Break
    <3> HIDE DEF c
    <3>3. Came(s, c, published)
      BY <1>2, <3>1 DEF Came
    <3> QED
      BY <1>2, <3>1, <3>2, <3>3
  <2>2. CASE Quit(s) \/ Reset(s)
    BY <1>1, <2>2 DEF Quit, Reset
  <2> QED
    BY <2>1, <2>2
<1>4. /\ conns' = HungUp(client[s].ws) /\ UNCHANGED <<serverVars, published>>
      /\ StoredTypes' /\ UNCHANGED recorded
      /\ \A t \in Seat : applying'[t] \in {applying[t], Nothing}
  BY DEF Break, Quit, Reset, RelayInv, Types, StoredTypes, storedVars, Tables
<1>5. Writes'
  <2>1. \A t \in Seat : client'[t].failed \in {Nothing, sealed}
    BY <1>2, <1>3 DEF RelayInv, Writes
  <2> QED
    BY <1>4, <2>1 DEF RelayInv, Writes, serverVars
<1> QED
  BY <1>3, <1>4, <1>5, HangsUp

LEMMA SealedIsDeal == RelayInv /\ sealed # Nothing => sealed \in Deal
BY DEF RelayInv, Types, Tables

LEMMA RecordsOnce ==
  ASSUME RelayInv, NEW s \in Seat, applying[s] # Nothing
  PROVE  /\ applying[s] = sealed /\ sealed # Nothing /\ Records(s) = <<sealed>>
         /\ recorded[s] # <<>> => recorded[s] = <<sealed>>
BY DEF RelayInv, Writes, Records

LEMMA WriteStepsInv ==
  ASSUME RelayInv, NEW s \in Seat, Commit(s) \/ Fail(s) \/ RetryApply(s)
  PROVE  RelayInv'
<1>1. Off \in App /\ Off.ws = 0 /\ Came(s, Off, published) /\ Off.failed = Nothing
  BY OffType DEF Off, Came
<1>2. /\ client[s] \in App /\ Came(s, client[s], published)
      /\ client[s].failed \in {Nothing, sealed} /\ client \in [Seat -> App]
      /\ sealed \in Tables
  BY ClientFields DEF RelayInv, Types
<1>3. CASE Commit(s)
  <2>1. /\ Records(s) = <<sealed>> /\ sealed # Nothing /\ sealed \in Deal
        /\ recorded' = [recorded EXCEPT ![s] = Records(s)]
        /\ applying' = [applying EXCEPT ![s] = Nothing]
        /\ UNCHANGED <<serverVars, published, attempts, presses>>
    BY <1>3, RecordsOnce, SealedIsDeal DEF Commit
  <2>2. <<sealed>> \in Seq(Deal)
    BY <2>1
  <2>3. StoredTypes'
    <3>1. persisted' \in [Seat -> BOOLEAN]
      BY <1>3 DEF Commit, RelayInv, Types, StoredTypes
    <3> QED
      BY <2>1, <2>2, <3>1 DEF RelayInv, Types, StoredTypes, Tables
  <2>4. ASSUME \A t \in Seat : client'[t].failed \in {Nothing, sealed} PROVE Writes'
    BY <2>1, <2>4 DEF RelayInv, Types, StoredTypes, Writes, serverVars
  <2>5. CASE UNCHANGED <<conns, client>>
    <3>1. client' = [client EXCEPT ![s] = client[s]] /\ conns' = conns
      BY <1>2, <2>5
    <3>2. Writes'
      BY <2>4, <2>5 DEF RelayInv, Writes
    <3> QED
      BY <1>2, <2>1, <2>3, <3>1, <3>2, WritesInv
  <2>6. CASE conns' = HungUp(client[s].ws) /\ client' = [client EXCEPT ![s] = Off]
    <3>1. \A t \in Seat : client'[t].failed \in {Nothing, sealed}
      BY <1>1, <1>2, <2>6 DEF RelayInv, Writes
    <3> QED
      BY <1>1, <2>1, <2>3, <2>4, <2>6, <3>1, HangsUp
  <2> QED
    BY <1>3, <2>5, <2>6 DEF Commit
<1>4. CASE Fail(s) \/ RetryApply(s)
  <2>1. /\ applying[s] \in {Nothing, sealed} /\ applying \in [Seat -> Tables]
    BY DEF RelayInv, Writes, Types, StoredTypes
  <2>2. PICK v \in {Nothing, sealed} : client' = [client EXCEPT ![s].failed = v]
    <3>1. CASE Fail(s)
      BY <2>1, <3>1 DEF Fail
    <3>2. CASE RetryApply(s)
      BY <3>2 DEF RetryApply
    <3> QED
      BY <1>4, <3>1, <3>2
  <2> DEFINE c == [client[s] EXCEPT !.failed = v]
  <2>3. /\ c \in App /\ c.ws = client[s].ws /\ c.initial = client[s].initial
        /\ c.token = client[s].token /\ c.nonce = client[s].nonce /\ c.failed = v
    BY <1>2 DEF App, Tables
  <2>4. client' = [client EXCEPT ![s] = c]
    BY <1>2, <2>2
  <2> HIDE DEF c
  <2>5. /\ UNCHANGED <<serverVars, conns, published, attempts, persisted, recorded, presses>>
        /\ applying' \in [Seat -> Tables]
        /\ \A t \in Seat : applying'[t] \in {Nothing, sealed}
    BY <1>2, <1>4, <2>1 DEF Fail, RetryApply, RelayInv, Writes, Tables
  <2>6. StoredTypes'
    BY <2>5 DEF RelayInv, Types, StoredTypes
  <2>7. Writes'
    <3>1. \A t \in Seat : client'[t].failed \in {Nothing, sealed}
      BY <1>2, <2>3, <2>4 DEF RelayInv, Writes
    <3> QED
      BY <2>5, <3>1 DEF RelayInv, Writes, serverVars
  <2>8. Came(s, c, published)
    BY <1>2, <2>3 DEF Came
  <2> QED
    BY <2>3, <2>4, <2>5, <2>6, <2>7, <2>8, WritesInv
<1> QED
  BY <1>3, <1>4

-----------------------------------------------------------------------------
LEMMA RelayInit == Init => RelayInv
<1> SUFFICES ASSUME Init PROVE RelayInv
  OBVIOUS
<1>1. SessionInv /\ session = NoSession
  BY InitInv DEF Init, SessionInit
<1>2. conns = <<>> /\ conns \in Seq(Conn) /\ Len(conns) = 0 /\ DOMAIN conns = {}
  BY DEF Init
<1>3. \A s \in Seat : /\ client[s] = Off /\ Off \in App /\ Off.ws = 0 /\ Off.initial = "none"
                      /\ Off.failed = Nothing
  BY OffType DEF Init, Off
<1>4. StoredTypes
  BY DEF Init, StoredTypes, Tables
<1>5. Types
  <2>1. client \in [Seat -> App]
    BY OffType DEF Init
  <2>2. attached \in [Seat -> 0..Len(conns)]
    BY <1>2 DEF Init
  <2>3. saw \in [Seat -> Tables] /\ sealed \in Tables /\ published \in BOOLEAN
    BY DEF Init, Tables
  <2> QED
    BY <1>2, <1>4, <2>1, <2>2, <2>3 DEF Types
<1>6. Sockets
  BY <1>2, <1>3 DEF Sockets
<1>7. Greetings
  BY <1>2, <1>3 DEF Greetings, Seat
<1>8. Seals
  BY <1>1, <1>2 DEF Init, Seals, Tells
<1>9. Writes
  BY <1>3 DEF Init, Writes
<1> QED
  BY <1>1, <1>5, <1>6, <1>7, <1>8, <1>9 DEF RelayInv

LEMMA AppInv ==
  ASSUME RelayInv, NEW s \in Seat, AppStep(s)
  PROVE  RelayInv'
<1>1. CASE BeginResume(s) \/ Reconnect(s) \/ RetryConnect(s)
  BY <1>1, ConnectsInv
<1>2. CASE Break(s) \/ Quit(s) \/ Reset(s)
  BY <1>2, HangUpsInv
<1>3. CASE Presses(s)
  BY <1>3, PressesInv
<1>4. CASE ClientReceive(s)
  BY <1>4, ReceiveInv
<1>5. CASE Commit(s) \/ Fail(s) \/ RetryApply(s)
  BY <1>5, WriteStepsInv
<1> QED
  BY <1>1, <1>2, <1>3, <1>4, <1>5 DEF AppStep, Presses

LEMMA RelayNext == RelayInv /\ [Next]_vars => RelayInv'
<1> SUFFICES ASSUME RelayInv, [Next]_vars PROVE RelayInv'
  OBVIOUS
<1>1. CASE BeginCreate \/ BeginJoin
  <2>1. "a" \in Seat
    BY DEF Seat
  <2> QED
    BY <1>1, <2>1, ConnectsInv
<1>2. ASSUME NEW s \in Seat, AppStep(s) PROVE RelayInv'
  BY <1>2, AppInv
<1>3. ASSUME NEW s \in Seat, Lapse(s) \/ Expire PROVE RelayInv'
  BY <1>3, TimersInv
<1>4. ASSUME NEW k \in DOMAIN conns, RelayStep(k) PROVE RelayInv'
  BY <1>4, HandleInv, CloseInv DEF RelayStep
<1>5. CASE Expire
  <2>1. "a" \in Seat
    BY DEF Seat
  <2> QED
    BY <1>3, <1>5, <2>1
<1>6. CASE UNCHANGED vars
  <2>1. UNCHANGED <<serverVars, client, conns, storedVars>>
    BY <1>6 DEF vars, serverVars, storedVars
  <2>2. Types' /\ Sockets'
    BY <2>1 DEF RelayInv, Types, StoredTypes, Sockets, serverVars, storedVars
  <2>3. Greetings' /\ Seals' /\ Writes'
    BY <2>1 DEF RelayInv, Greetings, Greets, Seals, Writes, serverVars, storedVars
  <2>4. SessionInv'
    BY <2>1 DEF RelayInv, SessionInv, SessionTypeOK, FlagsMatchState, UnjoinedUntouched,
                serverVars
  <2> QED
    BY <2>2, <2>3, <2>4 DEF RelayInv
<1> QED
  BY <1>1, <1>2, <1>3, <1>4, <1>5, <1>6 DEF Next

\* The invariant holds in every reachable state, whatever the switches say.
THEOREM RelayInvariant == Spec => []RelayInv
BY RelayInit, RelayNext, PTL DEF Spec

-----------------------------------------------------------------------------
\* Of all sockets, clients and timers of the relay, no step seals a second deal
\* or writes another one than the one sealed, and none writes it twice: the trade
\* over the relay implements what it promises (completion in session.ts, the
\* broadcast of relay.ts, applyCompletedTrade keyed on the session).
THEOREM RelayAgrees == Spec => Agrees
<1>1. Init => Agreement!Init
  BY DEF Init, Agreement!Init
<1>2. ASSUME RelayInv, [Next]_vars PROVE [Agreement!Next]_<<sealed, recorded>>
  <2>1. ASSUME NEW k \in DOMAIN conns, Handle(k) PROVE [Agreement!Next]_<<sealed, recorded>>
    <3>1. SealFacts /\ UNCHANGED recorded
      BY <1>2, <2>1, HandleEffect DEF Handle, storedVars
    <3>2. sealed \in Tables
      BY <1>2 DEF RelayInv, Types
    <3> QED
      BY <3>1, <3>2 DEF SealFacts, Tables, Agreement!Next, Agreement!Seal
  <2>2. ASSUME NEW s \in Seat, Commit(s) PROVE [Agreement!Next]_<<sealed, recorded>>
    <3>1. /\ Records(s) = <<sealed>> /\ sealed # Nothing /\ UNCHANGED sealed
          /\ recorded[s] # <<>> => recorded[s] = <<sealed>>
          /\ recorded' = [recorded EXCEPT ![s] = <<sealed>>]
      BY <1>2, <2>2, RecordsOnce DEF Commit, serverVars
    <3>2. recorded \in [Seat -> Seq(Deal)]
      BY <1>2 DEF RelayInv, Types, StoredTypes
    <3>3. CASE recorded[s] = <<>>
      BY <3>1, <3>3 DEF Agreement!Next, Agreement!Record
    <3>4. CASE recorded[s] # <<>>
      <4>1. recorded' = recorded
        BY <3>1, <3>2, <3>4
      <4> QED
        BY <3>1, <4>1
    <3> QED
      BY <3>3, <3>4
  <2>3. ASSUME NEW s \in Seat, AppStep(s), ~Commit(s) PROVE UNCHANGED <<sealed, recorded>>
    BY <2>3
    DEF AppStep, BeginResume, Reconnect, RetryConnect, Break, Quit, PressAccept, PressUnaccept,
        PressConfirm, PressCancel, PressOffer, Press, Reset, ClientReceive, Fail, RetryApply,
        serverVars, storedVars
  <2>4. ASSUME NEW k \in DOMAIN conns, Close(k) PROVE UNCHANGED <<sealed, recorded>>
    BY <2>4 DEF Close, storedVars
  <2>5. ASSUME NEW s \in Seat, BeginCreate \/ BeginJoin \/ Lapse(s) \/ Expire
        PROVE  UNCHANGED <<sealed, recorded>>
    BY <2>5 DEF BeginCreate, BeginJoin, Lapse, Expire, serverVars, storedVars
  <2>6. "a" \in Seat
    BY DEF Seat
  <2>7. CASE UNCHANGED vars
    BY <2>7 DEF vars
  <2> QED
    BY <1>2, <2>1, <2>2, <2>3, <2>4, <2>5, <2>6, <2>7 DEF Next, RelayStep
<1> QED
  BY <1>1, <1>2, RelayInvariant, PTL DEF Spec, Agrees, Agreement!Spec

-----------------------------------------------------------------------------
(***************************************************************************)
(* The bound on sockets, which the type invariant speaks of: whoever will  *)
(* have to connect again has a socket in reserve.                          *)
(***************************************************************************)
Owed == {s \in Seat : Retrying(s) \/ Unserved(s)}
Reserve == Len(conns) + Cardinality(Owed) <= MaxSockets

LEMMA SeatCount ==
  /\ \A T \in SUBSET Seat : Cardinality(T) \in Nat
  /\ \A S, T \in SUBSET Seat : S \subseteq T => Cardinality(S) <= Cardinality(T)
  /\ \A T \in SUBSET Seat, s \in Seat : /\ Cardinality(T \cup {s}) <= Cardinality(T) + 1
                                        /\ s \in T => Cardinality(T \ {s}) = Cardinality(T) - 1
<1>1. IsFiniteSet({}) /\ IsFiniteSet({} \cup {"a"}) /\ IsFiniteSet(({} \cup {"a"}) \cup {"b"})
  BY FS_EmptySet, FS_AddElement
<1>2. IsFiniteSet(Seat)
  <2>1. Seat = ({} \cup {"a"}) \cup {"b"}
    BY DEF Seat
  <2> QED
    BY <1>1, <2>1
<1>3. ASSUME NEW T \in SUBSET Seat PROVE IsFiniteSet(T) /\ Cardinality(T) \in Nat
  BY <1>2, FS_Subset, FS_CardinalityType
<1>4. ASSUME NEW S \in SUBSET Seat, NEW T \in SUBSET Seat, S \subseteq T
      PROVE  Cardinality(S) <= Cardinality(T)
  BY <1>3, <1>4, FS_Subset
<1>5. ASSUME NEW T \in SUBSET Seat, NEW s \in Seat
      PROVE  Cardinality(T \cup {s}) <= Cardinality(T) + 1
  <2>1. Cardinality(T \cup {s}) = IF s \in T THEN Cardinality(T) ELSE Cardinality(T) + 1
    BY <1>3, FS_AddElement
  <2> QED
    BY <1>3, <2>1
<1>6. ASSUME NEW T \in SUBSET Seat, NEW s \in T
      PROVE  Cardinality(T \ {s}) = Cardinality(T) - 1
  <2>1. Cardinality(T \ {s}) = IF s \in T THEN Cardinality(T) - 1 ELSE Cardinality(T)
    BY <1>3, FS_RemoveElement
  <2> QED
    BY <2>1
<1> QED
  BY <1>3, <1>4, <1>5, <1>6

\* The four ways a step may spend the reserve.
LEMMA Spends ==
  ASSUME conns \in Seq(Conn), conns' \in Seq(Conn), Reserve, NEW s \in Seat,
         \/ Len(conns') = Len(conns) /\ Owed' \subseteq Owed
         \/ Len(conns') = Len(conns) /\ Owed' \subseteq Owed \cup {s} /\ Spare
         \/ Len(conns') = Len(conns) + 1 /\ Owed' \subseteq Owed /\ Spare
         \/ Len(conns') = Len(conns) + 1 /\ Owed' \subseteq Owed \ {s} /\ s \in Owed
  PROVE  Reserve'
<1>1. /\ Owed \in SUBSET Seat /\ Owed' \in SUBSET Seat
      /\ Owed \cup {s} \in SUBSET Seat /\ Owed \ {s} \in SUBSET Seat
  BY DEF Owed
<1>2. Len(conns) \in Nat /\ MaxSockets \in Nat
  BY LenProperties, RelayAssumption
<1>3. Spare <=> Len(conns) + Cardinality(Owed) < MaxSockets
  BY DEF Spare, Owed
<1>4. /\ Cardinality(Owed) \in Nat /\ Cardinality(Owed') \in Nat
      /\ Cardinality(Owed \cup {s}) \in Nat
      /\ Cardinality(Owed \cup {s}) <= Cardinality(Owed) + 1
      /\ s \in Owed => Cardinality(Owed \ {s}) = Cardinality(Owed) - 1
      /\ Owed' \subseteq Owed => Cardinality(Owed') <= Cardinality(Owed)
      /\ Owed' \subseteq Owed \cup {s} => Cardinality(Owed') <= Cardinality(Owed \cup {s})
      /\ Owed' \subseteq Owed \ {s} => Cardinality(Owed') <= Cardinality(Owed \ {s})
  BY <1>1, SeatCount, Zenon
<1>5. Reserve' <=> Len(conns') + Cardinality(Owed') <= MaxSockets
  BY DEF Reserve
<1>6. Len(conns) + Cardinality(Owed) <= MaxSockets
  BY DEF Reserve
<1> DEFINE x == Cardinality(Owed)
           y == Cardinality(Owed')
           z == Cardinality(Owed \cup {s})
           w == Cardinality(Owed \ {s})
<1> HIDE DEF x, y, z, w
<1> QED
  BY <1>2, <1>3, <1>4, <1>5, <1>6 DEF x, y, z, w

\* A seat owes what it owed, as long as its socket is served as before.
LEMMA OwesAlike ==
  ASSUME RelayInv, NEW t \in Seat, client'[t].ws = client[t].ws,
         client[t].ws = 0 => /\ client'[t].initial = client[t].initial
                             /\ client'[t].view = client[t].view,
         \A i \in DOMAIN conns : conns'[i].served = conns[i].served
  PROVE  t \in Owed' <=> t \in Owed
<1>1. client[t].ws # 0 => client[t].ws \in DOMAIN conns
  BY DEF RelayInv, Sockets
<1>2. client[t].ws # 0 => (conns'[client[t].ws].served <=> conns[client[t].ws].served)
  BY <1>1
<1> QED
  BY <1>2 DEF Owed, Retrying, Unserved, Active, Over

LEMMA ServedAlike ==
  ASSUME RelayInv, Reserve, conns' \in Seq(Conn), Len(conns') = Len(conns),
         \A i \in DOMAIN conns : conns'[i].served = conns[i].served,
         NEW s \in Seat, client'[s].ws = client[s].ws,
         client[s].ws = 0 => /\ client'[s].initial = client[s].initial
                             /\ client'[s].view = client[s].view,
         \A t \in Seat : t # s => client'[t] = client[t]
  PROVE  Reserve'
<1>1. ASSUME NEW t \in Seat PROVE t \in Owed' <=> t \in Owed
  BY OwesAlike
<1>2. Owed' \subseteq Owed
  BY <1>1 DEF Owed
<1>3. conns \in Seq(Conn)
  BY DEF RelayInv, Types
<1> QED
  BY <1>2, <1>3, Spends

LEMMA RelayReserve ==
  ASSUME RelayInv, Reserve,
         (\E k \in DOMAIN conns : Handle(k)) \/ (\E s \in Seat : Lapse(s)) \/ Expire
  PROVE  Reserve'
<1>1. "a" \in Seat /\ conns \in Seq(Conn)
  BY DEF Seat, RelayInv, Types
<1>2. client' = client
  BY DEF Handle, Lapse, Expire
<1>3. /\ conns' \in Seq(Conn) /\ Len(conns') = Len(conns)
      /\ \A i \in DOMAIN conns : conns'[i].served = conns[i].served
  <2>1. ASSUME NEW k \in DOMAIN conns, Handle(k)
        PROVE  /\ conns' \in Seq(Conn) /\ Len(conns') = Len(conns)
               /\ \A i \in DOMAIN conns : conns'[i].served = conns[i].served
    <3>1. Answered(Popped(k), conns', {k, attached["a"], attached["b"]})
      BY <2>1, HandleEffect DEF Effect
    <3>2. conns[k].up # <<>>
      BY <2>1 DEF Handle
    <3>3. /\ Popped(k) \in Seq(Conn) /\ Len(Popped(k)) = Len(conns)
          /\ \A i \in DOMAIN conns : Popped(k)[i].served = conns[i].served
      BY <1>1, <3>2, PoppedFacts
    <3>4. DOMAIN Popped(k) = DOMAIN conns
      BY <1>1, <3>3, LenProperties
    <3> QED
      BY <3>1, <3>3, <3>4 DEF Answered
  <2>2. ASSUME NEW s \in Seat, Lapse(s) \/ Expire
        PROVE  /\ conns' \in Seq(Conn) /\ Len(conns') = Len(conns)
               /\ \A i \in DOMAIN conns : conns'[i].served = conns[i].served
    BY <2>2, TimersEffect DEF Effect, Answered
  <2> QED
    BY <1>1, <2>1, <2>2
<1> QED
  BY <1>1, <1>2, <1>3, ServedAlike

\* A socket nobody is behind any more leaves nobody waiting when it is closed.
LEMMA CloseReserve ==
  ASSUME RelayInv, Reserve, NEW k \in DOMAIN conns, Close(k)
  PROVE  Reserve'
<1>1. conns \in Seq(Conn) /\ conns[k] \in Conn /\ conns[k].by \in Seat
  BY ConnFields DEF RelayInv, Types
<1>2. conns' \in Seq(Conn) /\ Len(conns') = Len(conns) /\ client' = client
      /\ \A i \in DOMAIN conns : i # k => conns'[i] = conns[i]
  <2> DEFINE c == [conns[k] EXCEPT !.served = FALSE, !.up = <<>>, !.bound = FALSE]
  <2>1. c \in Conn
    <3>1. <<>> \in Seq(Request)
      BY EmptySeq
    <3> QED
      BY <1>1, <3>1 DEF Conn
  <2>2. conns' = [conns EXCEPT ![k] = c] /\ client' = client
    <3>1. conns \in [DOMAIN conns -> Conn]
      BY <1>1, LenProperties
    <3> QED
      BY <3>1 DEF Close
  <2> HIDE DEF c
  <2> QED
    BY <1>1, <2>1, <2>2, Replaced
<1>3. ASSUME NEW t \in Seat, t \in Owed', t \notin Owed
      PROVE  t = conns[k].by /\ conns[k].open
  <2>1. client[t].ws # 0 /\ client[t].ws \in DOMAIN conns /\ client[t].ws = k
    BY <1>2, <1>3 DEF Owed, Retrying, Unserved, Active, Over, RelayInv, Sockets
  <2> QED
    BY <2>1 DEF RelayInv, Sockets
<1>4. Owed' \subseteq Owed \cup {conns[k].by}
  BY <1>3 DEF Owed
<1>5. conns[k].open => Spare
  BY DEF Close
<1>6. ~conns[k].open => Owed' \subseteq Owed
  BY <1>3 DEF Owed
<1> QED
  BY <1>1, <1>2, <1>4, <1>5, <1>6, Spends

LEMMA ConnectReserve ==
  ASSUME RelayInv, RelayInv', Reserve, NEW s \in Seat, NEW msg, Spare \/ s \in Owed,
         Connect(s, msg), client'[s].ws = Len(conns) + 1,
         \A t \in Seat : t # s => client'[t] = client[t]
  PROVE  Reserve'
<1>0. PICK n : n = Len(conns) + 1
  OBVIOUS
<1>1. conns \in Seq(Conn) /\ conns' \in Seq(Conn)
  BY DEF RelayInv, Types
<1>2. /\ n \in Nat \ {0} /\ Len(conns') = n /\ conns'[n].served
      /\ \A i \in DOMAIN conns : conns'[i].served = conns[i].served
  BY <1>0, ConnectFacts
<1>3. s \notin Owed'
  BY <1>0, <1>2 DEF Owed, Retrying, Unserved
<1>4. \A t \in Seat : t # s => (t \in Owed' <=> t \in Owed)
  BY <1>2, OwesAlike
<1>5. Owed' \subseteq Owed \ {s}
  BY <1>3, <1>4 DEF Owed
<1> QED
  BY <1>0, <1>1, <1>2, <1>5, Spends

LEMMA ConnectsReserve ==
  ASSUME RelayInv, RelayInv', Reserve, NEW s \in Seat,
         BeginCreate \/ BeginJoin \/ BeginResume(s) \/ Reconnect(s) \/ RetryConnect(s)
  PROVE  Reserve'
<1>1. /\ \A t \in Seat : client[t] \in App /\ client \in [Seat -> App]
      /\ "a" \in Seat /\ "b" \in Seat
  BY ClientFields DEF Seat
<1>2. \A c : Begun(c).ws = Len(conns) + 1
  BY DEF Begun
<1>3. CASE BeginCreate
  <2>1. PICK c, msg : /\ c.ws = Len(conns) + 1 /\ Connect("a", msg)
                      /\ client' = [client EXCEPT !["a"] = c] /\ Spare
    BY <1>3, <1>2 DEF BeginCreate
  <2> QED
    BY <1>1, <2>1, ConnectReserve
<1>4. CASE BeginJoin
  <2>1. PICK c, msg : /\ c.ws = Len(conns) + 1 /\ Connect("b", msg)
                      /\ client' = [client EXCEPT !["b"] = c] /\ Spare
    BY <1>4, <1>2 DEF BeginJoin
  <2> QED
    BY <1>1, <2>1, ConnectReserve
<1>5. CASE BeginResume(s) \/ Reconnect(s) \/ RetryConnect(s)
  <2>1. PICK c, msg : /\ c.ws = Len(conns) + 1 /\ Connect(s, msg)
                      /\ client' = [client EXCEPT ![s] = c] /\ (Spare \/ s \in Owed)
    <3>1. CASE BeginResume(s)
      BY <3>1, <1>2 DEF BeginResume
    <3>2. CASE Reconnect(s) \/ RetryConnect(s)
      <4>1. client' = [client EXCEPT ![s] = Begun(client[s])]
        BY <1>1, <3>2 DEF Reconnect, RetryConnect
      <4>2. Connect(s, Handshake(client[s])) /\ (Spare \/ s \in Owed)
        BY <3>2 DEF Reconnect, RetryConnect, Owed
      <4> QED
        BY <1>2, <4>1, <4>2
    <3> QED
      BY <1>5, <3>1, <3>2
  <2> QED
    BY <1>1, <2>1, ConnectReserve
<1> QED
  BY <1>3, <1>4, <1>5

LEMMA HangUpReserve ==
  ASSUME RelayInv, Reserve, NEW s \in Seat, NEW c,
         c.ws = 0, c.initial = "none" \/ Spare \/ s \in Owed,
         conns' = HungUp(client[s].ws), client' = [client EXCEPT ![s] = c]
  PROVE  Reserve'
<1>1. /\ conns \in Seq(Conn) /\ client[s].ws \in 0..Len(conns) /\ client'[s] = c
      /\ \A t \in Seat : t # s => client'[t] = client[t]
  BY ClientFields
<1>2. /\ conns' \in Seq(Conn) /\ Len(conns') = Len(conns)
      /\ \A i \in DOMAIN conns : conns'[i].served = conns[i].served
  BY <1>1, HungUpFacts
<1>3. \A t \in Seat : t # s => (t \in Owed' <=> t \in Owed)
  BY <1>1, <1>2, OwesAlike
<1>4. c.initial = "none" => s \notin Owed'
  BY <1>1 DEF Owed, Retrying, Unserved, Active
<1>5. Owed' \subseteq Owed \cup {s} /\ (c.initial = "none" => Owed' \subseteq Owed)
  BY <1>3, <1>4 DEF Owed
<1>6. s \in Owed => Owed \cup {s} = Owed
  OBVIOUS
<1> QED
  BY <1>1, <1>2, <1>5, <1>6, Spends

LEMMA AppReserve ==
  ASSUME RelayInv, RelayInv', Reserve, NEW s \in Seat, AppStep(s)
  PROVE  Reserve'
<1>1. /\ client[s] \in App /\ client \in [Seat -> App] /\ conns \in Seq(Conn)
      /\ conns' \in Seq(Conn) /\ Off.ws = 0 /\ Off.initial = "none"
      /\ client[s].ws # 0 => client[s].ws \in DOMAIN conns
  BY ClientFields DEF RelayInv, Types, Off, Sockets
<1>2. CASE BeginResume(s) \/ Reconnect(s) \/ RetryConnect(s)
  BY <1>2, ConnectsReserve
<1>3. CASE Break(s)
  <2> DEFINE c == [client[s] EXCEPT !.ws = 0]
  <2>1. c.ws = 0 /\ client' = [client EXCEPT ![s] = c] /\ conns' = HungUp(client[s].ws)
    BY <1>1, <1>3 DEF Break, App
  <2>2. Spare \/ s \in Owed
    BY <1>3 DEF Break, Owed, Unserved
  <2> HIDE DEF c
  <2> QED
    BY <2>1, <2>2, HangUpReserve
<1>4. ASSUME conns' = HungUp(client[s].ws), client' = [client EXCEPT ![s] = Off] PROVE Reserve'
  BY <1>1, <1>4, HangUpReserve
<1>5. CASE Quit(s) \/ Reset(s)
  BY <1>4, <1>5 DEF Quit, Reset
\* The socket is served as before and the app keeps it.
<1>6. ASSUME NEW c, client' = [client EXCEPT ![s] = c], c.ws = client[s].ws,
             client[s].ws = 0 => c.initial = client[s].initial /\ c.view = client[s].view,
             Len(conns') = Len(conns),
             \A i \in DOMAIN conns : conns'[i].served = conns[i].served
      PROVE  Reserve'
  <2>1. client'[s] = c /\ \A t \in Seat : t # s => client'[t] = client[t]
    BY <1>1, <1>6
  <2> QED
    BY <1>1, <1>6, <2>1, ServedAlike
<1>7. ASSUME NEW k \in DOMAIN conns, NEW e \in Conn, conns' = [conns EXCEPT ![k] = e],
             e.served = conns[k].served
      PROVE  Len(conns') = Len(conns) /\ \A i \in DOMAIN conns : conns'[i].served = conns[i].served
  BY <1>1, <1>7, Replaced
<1>8. CASE \/ PressAccept(s) \/ PressUnaccept(s) \/ PressConfirm(s) \/ PressCancel(s)
           \/ \E side \in Seat, o \in Offer : PressOffer(s, side, o)
  <2>1. PICK c \in App : /\ client' = [client EXCEPT ![s] = c] /\ c.ws = client[s].ws
                         /\ c.initial = client[s].initial /\ c.view = client[s].view
    <3>1. CASE PressAccept(s) \/ PressUnaccept(s) \/ PressConfirm(s) \/ PressCancel(s)
      <4>1. client' = [client EXCEPT ![s] = client[s]]
        BY <1>1, <3>1 DEF PressAccept, PressUnaccept, PressConfirm, PressCancel
      <4> QED
        BY <1>1, <4>1
    <3>2. ASSUME NEW side \in Seat, NEW o \in Offer, PressOffer(s, side, o)
          PROVE  \E c \in App : /\ client' = [client EXCEPT ![s] = c] /\ c.ws = client[s].ws
                                /\ c.initial = client[s].initial /\ c.view = client[s].view
      <4> DEFINE c == [client[s] EXCEPT !.table[side] = o]
      <4>1. c \in App /\ c.ws = client[s].ws /\ c.initial = client[s].initial
            /\ c.view = client[s].view
        BY <1>1 DEF App, Deal
      <4>2. client' = [client EXCEPT ![s] = c]
        BY <1>1, <3>2 DEF PressOffer
      <4> HIDE DEF c
      <4> QED
        BY <4>1, <4>2
    <3> QED
      BY <1>8, <3>1, <3>2
  <2>2. PICK msg : Press(s, msg)
    BY <1>8 DEF PressAccept, PressUnaccept, PressConfirm, PressCancel, PressOffer
  <2>3. Len(conns') = Len(conns) /\ \A i \in DOMAIN conns : conns'[i].served = conns[i].served
    BY <1>1, <2>2, LenProperties DEF Press, OnBoard, Conn
  <2> QED
    BY <1>6, <2>1, <2>3
<1>9. CASE ClientReceive(s)
  <2>1. CASE conns' = HungUp(client[s].ws) /\ client' = [client EXCEPT ![s] = Off]
    BY <1>4, <2>1
  <2> DEFINE msg == Head(conns[client[s].ws].down)
             c == IF msg.type = "seat" THEN [client[s] EXCEPT !.token = TRUE, !.applied = FALSE]
                                       ELSE client[s]
             d == Shown(c, msg.snap)
  <2>2. c \in App /\ c.ws = client[s].ws
    BY <1>1 DEF App
  <2> HIDE DEF c
  <2>3. d.ws = client[s].ws
    BY <2>2 DEF Shown, App
  <2>4. CASE client' = [client EXCEPT ![s] = d]
             /\ conns' = [conns EXCEPT ![client[s].ws].down = Tail(@)]
    <3> HIDE DEF d
    <3>1. client[s].ws # 0
      BY <1>9 DEF ClientReceive
    <3>2. Len(conns') = Len(conns) /\ \A i \in DOMAIN conns : conns'[i].served = conns[i].served
      BY <1>1, <2>4, <3>1, LenProperties DEF Conn
    <3> QED
      BY <1>6, <2>3, <2>4, <3>1, <3>2
  <2> QED
    BY <1>9, <2>1, <2>4 DEF ClientReceive, c
<1>10. CASE Commit(s)
  <2>1. CASE UNCHANGED <<conns, client>>
    <3>1. client' = [client EXCEPT ![s] = client[s]]
      BY <1>1, <2>1
    <3> QED
      BY <1>6, <2>1, <3>1
  <2> QED
    BY <1>4, <1>10, <2>1 DEF Commit
<1>11. CASE Fail(s) \/ RetryApply(s)
  <2>1. PICK v : client' = [client EXCEPT ![s].failed = v] /\ conns' = conns
    BY <1>11 DEF Fail, RetryApply
  <2> DEFINE c == [client[s] EXCEPT !.failed = v]
  <2>2. /\ c.ws = client[s].ws /\ c.initial = client[s].initial /\ c.view = client[s].view
        /\ client' = [client EXCEPT ![s] = c]
    BY <1>1, <2>1 DEF App
  <2> HIDE DEF c
  <2> QED
    BY <1>6, <2>1, <2>2
<1> QED
  BY <1>2, <1>3, <1>5, <1>8, <1>9, <1>10, <1>11 DEF AppStep

LEMMA ReserveNext == RelayInv /\ RelayInv' /\ Reserve /\ [Next]_vars => Reserve'
<1> SUFFICES ASSUME RelayInv, RelayInv', Reserve, [Next]_vars PROVE Reserve'
  OBVIOUS
<1>1. "a" \in Seat
  BY DEF Seat
<1>2. CASE BeginCreate \/ BeginJoin
  BY <1>1, <1>2, ConnectsReserve
<1>3. ASSUME NEW s \in Seat, AppStep(s) PROVE Reserve'
  BY <1>3, AppReserve
<1>4. CASE (\E k \in DOMAIN conns : Handle(k)) \/ (\E s \in Seat : Lapse(s)) \/ Expire
  BY <1>4, RelayReserve
<1>5. ASSUME NEW k \in DOMAIN conns, Close(k) PROVE Reserve'
  BY <1>5, CloseReserve
<1>6. CASE UNCHANGED vars
  BY <1>6 DEF vars, Reserve, Owed, Retrying, Unserved, Active, Over
<1> QED
  BY <1>2, <1>3, <1>4, <1>5, <1>6 DEF Next, RelayStep

LEMMA ReserveInit == Init => Reserve
<1> SUFFICES ASSUME Init PROVE Reserve
  OBVIOUS
<1>1. Owed = {} /\ Len(conns) = 0
  BY DEF Init, Owed, Retrying, Unserved, Active, Off
<1> QED
  BY <1>1, FS_EmptySet, RelayAssumption DEF Reserve

\* Every message, socket, app and stored trade is one of those meant, and never
\* more sockets are opened than the bound: the model does not stop somebody who
\* has to reconnect for want of a socket.
THEOREM RelayTypeCorrect == Spec => []TypeOK
<1>1. Spec => []Reserve
  BY RelayInvariant, ReserveInit, ReserveNext, PTL DEF Spec
<1>2. RelayInv /\ Reserve => TypeOK
  <2> SUFFICES ASSUME RelayInv, Reserve PROVE TypeOK
    OBVIOUS
  <2>1. Len(conns) <= MaxSockets
    <3>1. Owed \in SUBSET Seat
      BY DEF Owed
    <3>2. Len(conns) \in Nat /\ Cardinality(Owed) \in Nat /\ MaxSockets \in Nat
      BY <3>1, SeatCount, LenProperties, RelayAssumption DEF RelayInv, Types
    <3> QED
      BY <3>2 DEF Reserve
  <2>2. \A k \in DOMAIN conns :
           conns[k] \in [by : Seat, up : Seq(Request), down : Seq(Answer),
                         open : BOOLEAN, served : BOOLEAN, bound : BOOLEAN]
    <3>1. \A k \in DOMAIN conns : conns[k] \in Conn
      BY ConnFields DEF RelayInv, Types
    <3> QED
      BY <3>1 DEF Conn
  <2>3. \A s \in Seat : /\ attached[s] \in 0..Len(conns)
                        /\ client[s].ws \in 0..Len(conns)
                        /\ client[s].view \in View
                        /\ client[s].table \in Deal
                        /\ client[s].failed \in Tables
    BY ClientFields DEF RelayInv, Types, App
  <2>4. {published, persisted["a"], persisted["b"]} \subseteq BOOLEAN
    BY DEF RelayInv, Types, StoredTypes, Seat
  <2>5. SessionTypeOK
    BY DEF RelayInv, SessionInv
  <2> QED
    BY <2>1, <2>2, <2>3, <2>4, <2>5 DEF TypeOK, RelayInv, Types, StoredTypes
<1> QED
  BY <1>1, <1>2, RelayInvariant, PTL

\* The session's promise holds under the relay's schedule as well: state and
\* flags agree, whichever sockets the calls come over.
THEOREM RelayFlagsMatch == Spec => []FlagsMatchState
<1>1. RelayInv => FlagsMatchState
  BY DEF RelayInv, SessionInv
<1> QED
  BY <1>1, RelayInvariant, PTL

\* Whatever a step of the trade does to the session is a method of the store.
LEMMA SessionSteps ==
  ASSUME RelayInv, [Next]_vars
  PROVE  SessionNext \/ Create \/ UNCHANGED session
<1>1. Types /\ SessionInv /\ conns \in Seq(Conn)
  BY DEF RelayInv, Types
<1>2. ASSUME NEW k \in DOMAIN conns, Handle(k)
      PROVE  SessionNext \/ Create \/ UNCHANGED session
  <2> DEFINE s == conns[k].by
             msg == Head(conns[k].up)
             cs == Popped(k)
  <2>1. s \in Seat /\ conns[k].up # <<>>
    BY <1>1, <1>2, ConnFields DEF Handle
  <2>2. msg \in Request /\ msg = conns[k].up[1] /\ 1 \in DOMAIN conns[k].up
    BY <1>1, <2>1, PoppedFacts
  <2>3. /\ CASE msg.type = "create" -> HandleCreate(k, cs)
             [] msg.type = "join"   -> HandleJoin(k, msg, cs)
             [] msg.type = "resume" -> HandleResume(k, s, cs)
             [] OTHER               -> HandleAction(k, s, msg, cs)
    BY <1>2 DEF Handle, Popped
  <2>4. Greets(k, 1)
    BY <2>2 DEF RelayInv, Greetings
  <2> HIDE DEF s, msg, cs
  <2>5. CASE msg.type = "create"
    BY <2>3, <2>5 DEF HandleCreate
  <2>6. CASE msg.type = "join"
    <3>1. HandleJoin(k, msg, cs) /\ msg.nonce \in Nonce
      BY <2>2, <2>3, <2>4, <2>6 DEF Greets, Request
    <3> QED
      BY <3>1 DEF HandleJoin, SessionNext
  <2>7. CASE msg.type = "resume"
    BY <2>1, <2>3, <2>7 DEF HandleResume, SessionNext
  <2>8. CASE msg.type \notin Greeting
    <3>1. HandleAction(k, s, msg, cs)
      BY <2>3, <2>8 DEF Greeting
    <3>2. CASE Does(s, msg)
      <4>1. Calls
        BY <1>1, <2>1, <2>2, <2>8, <3>2, DoesCalls
      <4> QED
        BY <4>1 DEF Calls, SessionNext
    <3> QED
      BY <3>1, <3>2 DEF HandleAction
  <2> QED
    BY <2>5, <2>6, <2>7, <2>8 DEF Greeting
<1>3. ASSUME NEW k \in DOMAIN conns, Close(k) PROVE SessionNext \/ UNCHANGED session
  <2>1. conns[k].by \in Seat
    BY <1>1, ConnFields
  <2> QED
    BY <1>3, <2>1 DEF Close, SessionNext
<1>4. ASSUME NEW s \in Seat, Lapse(s) \/ Expire PROVE SessionNext
  BY <1>4 DEF Lapse, Expire, SessionNext
<1>5. ASSUME NEW s \in Seat, AppStep(s) PROVE UNCHANGED session
  BY <1>5
  DEF AppStep, BeginResume, Reconnect, RetryConnect, Break, Quit, PressAccept, PressUnaccept,
      PressConfirm, PressCancel, PressOffer, Press, Reset, ClientReceive, Commit, Fail,
      RetryApply, serverVars
<1>6. BeginCreate \/ BeginJoin => UNCHANGED session
  BY DEF BeginCreate, BeginJoin, serverVars
<1>7. "a" \in Seat
  BY DEF Seat
<1> QED
  BY <1>2, <1>3, <1>4, <1>5, <1>6, <1>7 DEF Next, RelayStep, vars

\* No message, socket or timer changes the deal under a confirmation that keeps
\* standing (SessionStore.offerUpdate, called by the relay for either side).
THEOREM RelayDealStands == Spec => ConfirmedDealStands
<1>1. RelayInv /\ [Next]_vars => [DealStands]_session
  BY SessionSteps, DealStandsNext DEF RelayInv
<1> QED
  BY <1>1, RelayInvariant, PTL DEF Spec, ConfirmedDealStands, DealStands

-----------------------------------------------------------------------------
(***************************************************************************)
(* Who sits where: the sockets bound to a session, and the one the relay   *)
(* holds for each seat.                                                    *)
(***************************************************************************)
SameBound(cs, ds) == \A i \in DOMAIN cs : ds[i].bound = cs[i].bound

\* What came first on its way down stays first.
Grows(cs, ds) ==
  \A i \in DOMAIN cs : cs[i].down # <<>> => ds[i].down # <<>> /\ ds[i].down[1] = cs[i].down[1]

Alike(cs, ds) == ds \in Seq(Conn) /\ Len(ds) = Len(cs) /\ SameBound(cs, ds) /\ Grows(cs, ds)

LEMMA SentAlike ==
  ASSUME NEW cs \in Seq(Conn), NEW k \in 0..Len(cs), NEW msg \in Answer
  PROVE  /\ Alike(cs, Sent(cs, k, msg))
         /\ k # 0 /\ cs[k].open /\ cs[k].served /\ cs[k].down = <<>> =>
              Sent(cs, k, msg)[k].down # <<>> /\ Sent(cs, k, msg)[k].down[1] = msg
<1> DEFINE ds == Sent(cs, k, msg)
<1>1. /\ ds \in Seq(Conn) /\ Len(ds) = Len(cs) /\ SameBound(cs, ds)
      /\ \A i \in DOMAIN cs : i # k => ds[i].down = cs[i].down
      /\ k # 0 => ds[k].down \in {cs[k].down, Append(cs[k].down, msg)}
  BY SentFacts DEF Answered, SameBound
<1>2. ASSUME k # 0, cs[k].open, cs[k].served PROVE ds[k].down = Append(cs[k].down, msg)
  <2>1. k \in DOMAIN cs /\ cs[k] \in Conn /\ cs \in [DOMAIN cs -> Conn]
    BY <1>2, ConnFields, LenProperties
  <2> QED
    BY <1>2, <2>1 DEF Sent, Conn
<1> HIDE DEF ds
<1>3. ASSUME NEW i \in DOMAIN cs, cs[i].down # <<>>
      PROVE  ds[i].down # <<>> /\ ds[i].down[1] = cs[i].down[1]
  <2>1. cs[i].down \in Seq(Answer) /\ i \in 1..Len(cs)
    BY ConnFields
  <2>2. Len(cs[i].down) \in Nat /\ Len(cs[i].down) # 0
    BY <1>3, <2>1, EmptySeq, LenProperties
  <2>3. /\ Append(cs[i].down, msg) # <<>>
        /\ Append(cs[i].down, msg)[1] = cs[i].down[1]
    BY <2>1, <2>2, AppendProperties
  <2>4. CASE i = k
    BY <1>1, <1>3, <2>1, <2>3, <2>4
  <2>5. CASE i # k
    BY <1>1, <1>3, <2>5
  <2> QED
    BY <2>4, <2>5
<1>4. Append(<<>>, msg) # <<>> /\ Append(<<>>, msg)[1] = msg
  OBVIOUS
<1> QED
  BY <1>1, <1>2, <1>3, <1>4 DEF Alike, Grows, ds

LEMMA AlikeTwice ==
  ASSUME NEW cs, NEW ds, NEW es, Alike(cs, ds), Alike(ds, es), cs \in Seq(Conn)
  PROVE  Alike(cs, es)
<1>1. DOMAIN ds = DOMAIN cs
  BY LenProperties DEF Alike
<1> QED
  BY <1>1 DEF Alike, SameBound, Grows

LEMMA BroadcastAlike ==
  ASSUME Types, NEW cs \in Seq(Conn), Len(cs) = Len(conns), NEW msg \in Answer
  PROVE  Alike(cs, Broadcast(cs, msg))
<1> DEFINE ds == Sent(cs, attached["a"], msg)
<1>1. attached["a"] \in 0..Len(cs) /\ attached["b"] \in 0..Len(cs)
  BY DEF Types, Seat
<1>2. Alike(cs, ds)
  BY <1>1, SentAlike
<1>3. Broadcast(cs, msg) = Sent(ds, attached["b"], msg)
  BY DEF Broadcast
<1> HIDE DEF ds
<1>4. Alike(ds, Broadcast(cs, msg))
  BY <1>1, <1>2, <1>3, SentAlike DEF Alike
<1> QED
  BY <1>2, <1>4, AlikeTwice

\* What a handled message means for the seats: a new session, somebody seated,
\* or nothing but a call of the session.
Founds(k) ==
  /\ conns[k].by = "a" /\ conns[k].open /\ session' = Fresh
  /\ attached' = [s \in Seat |-> IF s = "a" THEN k ELSE 0]
  /\ \A i \in DOMAIN conns : conns'[i].bound => i = k
Sits(k) ==
  /\ \/ /\ Head(conns[k].up).type = "join" /\ conns[k].by = "b"
        /\ JoinAnew(Head(conns[k].up).nonce) \/ JoinAgain(Head(conns[k].up).nonce)
     \/ Head(conns[k].up).type = "resume" /\ Resume(conns[k].by)
  /\ attached' = [attached EXCEPT ![conns[k].by] = k]
  /\ \A i \in DOMAIN conns : i # k => conns'[i].bound = conns[i].bound
Speaks(k) ==
  /\ \/ UNCHANGED session
     \/ Head(conns[k].up).type \notin Greeting /\ Does(conns[k].by, Head(conns[k].up))
  /\ attached' = attached
  /\ SameBound(conns, conns')

LEMMA HandleSeats ==
  ASSUME RelayInv, NEW k \in DOMAIN conns, Handle(k)
  PROVE  /\ Founds(k) \/ Sits(k) \/ Speaks(k)
         /\ Grows(conns, conns')
         /\ Head(conns[k].up).type = "join" /\ conns[k].open /\ conns[k].down = <<>> =>
              conns'[k].down # <<>> /\ conns'[k].down[1].type \in {"seat", "gone"}
<1> DEFINE s == conns[k].by
           msg == Head(conns[k].up)
           cs == Popped(k)
           Greeted == conns[k].open /\ conns[k].down = <<>> =>
                        conns'[k].down # <<>> /\ conns'[k].down[1].type \in {"seat", "gone"}
<1>1. Types /\ SessionInv /\ conns \in Seq(Conn) /\ conns[k].served /\ conns[k].up # <<>>
  BY DEF RelayInv, Types, Handle
<1>2. s \in Seat /\ k \in 0..Len(conns) /\ k # 0 /\ DOMAIN conns = 1..Len(conns)
  BY <1>1, ConnFields, LenProperties
<1>3. /\ msg \in Request /\ msg = conns[k].up[1] /\ 1 \in DOMAIN conns[k].up
      /\ cs \in Seq(Conn) /\ Len(cs) = Len(conns)
      /\ \A i \in DOMAIN conns : /\ cs[i].down = conns[i].down /\ cs[i].bound = conns[i].bound
                                 /\ cs[i].open = conns[i].open /\ cs[i].served = conns[i].served
  BY <1>1, PoppedFacts
<1>4. /\ CASE msg.type = "create" -> HandleCreate(k, cs)
           [] msg.type = "join"   -> HandleJoin(k, msg, cs)
           [] msg.type = "resume" -> HandleResume(k, s, cs)
           [] OTHER               -> HandleAction(k, s, msg, cs)
  BY DEF Handle, Popped
<1>5. Greets(k, 1)
  BY <1>3 DEF RelayInv, Greetings
<1> HIDE DEF s, msg, cs
<1>6. DOMAIN cs = DOMAIN conns /\ k \in DOMAIN cs /\ k \in 0..Len(cs) /\ Alike(cs, cs)
  BY <1>2, <1>3, LenProperties DEF Alike, SameBound, Grows
<1>7. /\ \A ds : Grows(cs, ds) => Grows(conns, ds)
      /\ \A ds : SameBound(cs, ds) => SameBound(conns, ds)
  BY <1>3, <1>6 DEF Grows, SameBound
<1>8. ASSUME NEW ds \in Seq(Conn), Answered(cs, ds, {}) PROVE Grows(cs, ds)
  BY <1>8 DEF Answered, Grows
<1>9. ASSUME conns' = Sent(cs, k, Gone) \/ conns' = cs
      PROVE  /\ Grows(conns, conns') /\ SameBound(conns, conns')
             /\ conns' = Sent(cs, k, Gone) => Greeted
  <2>1. Gone \in Answer /\ Gone.type = "gone"
    BY GoneType DEF Gone
  <2>2. /\ Alike(cs, Sent(cs, k, Gone))
        /\ conns[k].open /\ conns[k].down = <<>> =>
             Sent(cs, k, Gone)[k].down # <<>> /\ Sent(cs, k, Gone)[k].down[1] = Gone
    BY <1>1, <1>2, <1>3, <1>6, <2>1, SentAlike
  <2> QED
    BY <1>6, <1>7, <1>9, <2>1, <2>2 DEF Alike
<1> HIDE DEF Greeted
<1>10. CASE msg.type = "create"
  <2>1. HandleCreate(k, cs) /\ s = "a"
    BY <1>3, <1>4, <1>5, <1>10 DEF Greets, s
  <2>2. CASE conns[k].open
    <3> DEFINE ds == [i \in DOMAIN cs |-> [cs[i] EXCEPT !.bound = FALSE]]
    <3>1. /\ session' = Fresh /\ conns' = Sent(Bind(ds, k), k, SeatMsg(Fresh))
          /\ attached' = [t \in Seat |-> IF t = "a" THEN k ELSE 0]
      BY <2>1, <2>2 DEF HandleCreate, Create
    <3>2. Answered(cs, ds, {}) /\ \A i \in DOMAIN cs : ~ds[i].bound
      BY <1>3, UnboundFacts
    <3> HIDE DEF ds
    <3>3. ds \in Seq(Conn) /\ Len(ds) = Len(cs) /\ DOMAIN ds = DOMAIN cs
      BY <3>2, LenProperties DEF Answered
    <3>4. /\ Answered(ds, Bind(ds, k), {})
          /\ \A i \in DOMAIN ds : i # k => Bind(ds, k)[i].bound = ds[i].bound
      BY <1>6, <3>3, BindFacts
    <3>5. Answered(cs, Bind(ds, k), {} \cup {})
      BY <1>3, <3>2, <3>4, AnsweredTwice
    <3>6. /\ Bind(ds, k) \in Seq(Conn) /\ Len(Bind(ds, k)) = Len(cs)
          /\ Grows(cs, Bind(ds, k)) /\ DOMAIN Bind(ds, k) = DOMAIN cs
      BY <1>8, <3>5, LenProperties DEF Answered
    <3>7. Alike(Bind(ds, k), conns')
      BY <1>6, <3>1, <3>6, FreshIsSession, SnapshotType, SentAlike
    <3>8. Grows(cs, conns')
      BY <3>6, <3>7 DEF Alike, Grows
    <3>9. \A i \in DOMAIN conns : conns'[i].bound => i = k
      BY <1>6, <3>2, <3>3, <3>4, <3>6, <3>7 DEF Alike, SameBound
    <3> QED
      BY <1>7, <1>10, <2>1, <2>2, <3>1, <3>8, <3>9 DEF Founds, s, msg
  <2>3. CASE ~conns[k].open
    BY <1>9, <1>10, <2>1, <2>3 DEF HandleCreate, Speaks, s, msg
  <2> QED
    BY <2>2, <2>3
<1>11. CASE msg.type = "join"
  <2>1. HandleJoin(k, msg, cs) /\ s = "b" /\ msg.nonce \in Nonce
    BY <1>3, <1>4, <1>5, <1>11 DEF Greets, s, Request
  <2>2. CASE HandleJoin(k, msg, cs)!1
    <3>1. /\ JoinAnew(msg.nonce) \/ JoinAgain(msg.nonce)
          /\ attached' = [attached EXCEPT !["b"] = k]
          /\ conns' = Sent(Sent(Bind(cs, k), k, SeatMsg(session')), attached["a"], Sync(session'))
      BY <2>2
    <3>2. SessionInv' /\ session' # NoSession
      BY <1>1, <2>1, <3>1, JoinsInv
    <3>3. session' \in Session
      BY <3>2 DEF SessionInv, SessionTypeOK
    <3> DEFINE ds == Bind(cs, k)
               es == Sent(ds, k, SeatMsg(session'))
    <3>4. SeatMsg(session') \in Answer /\ Sync(session') \in Answer
          /\ SeatMsg(session').type = "seat"
      BY <3>3, SnapshotType DEF SeatMsg
    <3>5. Answered(cs, ds, {}) /\ \A i \in DOMAIN cs : i # k => ds[i].bound = cs[i].bound
      BY <1>3, <1>6, BindFacts
    <3>6. /\ ds \in Seq(Conn) /\ Len(ds) = Len(cs) /\ DOMAIN ds = DOMAIN cs /\ Grows(cs, ds)
          /\ ds[k].open = conns[k].open /\ ds[k].served /\ ds[k].down = conns[k].down
      BY <1>1, <1>3, <1>6, <1>8, <3>5, LenProperties DEF Answered
    <3> HIDE DEF ds
    <3>7. /\ Alike(ds, es)
          /\ conns[k].open /\ conns[k].down = <<>> =>
               es[k].down # <<>> /\ es[k].down[1] = SeatMsg(session')
      BY <1>2, <1>6, <3>4, <3>6, SentAlike
    <3>8. conns' = Sent(es, attached["a"], Sync(session'))
      BY <3>1 DEF ds
    <3> HIDE DEF es
    <3>9. es \in Seq(Conn) /\ Len(es) = Len(cs) /\ attached["a"] \in 0..Len(es)
      BY <1>1, <1>3, <3>6, <3>7 DEF Alike, Types, Seat
    <3>10. Alike(es, conns')
      BY <3>4, <3>8, <3>9, SentAlike
    <3>11. DOMAIN es = DOMAIN cs /\ Alike(ds, conns')
      BY <1>3, <3>6, <3>7, <3>9, <3>10, LenProperties, AlikeTwice
    <3>12. Grows(cs, conns')
      BY <3>6, <3>11 DEF Alike, Grows
    <3>13. \A i \in DOMAIN conns : i # k => conns'[i].bound = conns[i].bound
      BY <1>3, <1>6, <3>5, <3>6, <3>11 DEF Alike, SameBound
    <3>14. Greeted
      <4>1. SUFFICES ASSUME conns[k].open, conns[k].down = <<>>
                     PROVE  conns'[k].down # <<>> /\ conns'[k].down[1].type = "seat"
        BY DEF Greeted
      <4>2. es[k].down # <<>> /\ es[k].down[1] = SeatMsg(session')
        BY <3>7, <4>1
      <4> QED
        BY <1>6, <3>4, <3>10, <3>11, <4>2 DEF Alike, Grows
    <3> QED
      BY <1>7, <1>11, <2>1, <3>1, <3>12, <3>13, <3>14 DEF Sits, Greeted, s, msg
  <2>3. CASE HandleJoin(k, msg, cs)!2
    BY <1>9, <1>11, <2>3 DEF Speaks, Greeted, s, msg
  <2> QED
    BY <2>1, <2>2, <2>3 DEF HandleJoin
<1>12. CASE msg.type = "resume"
  <2>1. HandleResume(k, s, cs)
    BY <1>4, <1>12
  <2>2. CASE HandleResume(k, s, cs)!1
    <3>1. /\ Resume(s) /\ attached' = [attached EXCEPT ![s] = k]
          /\ conns' = Sent(Bind(cs, k), k, Sync(session'))
      BY <2>2
    <3>2. session' \in Session
      <4>1. session \in Session
        BY <1>1, <3>1 DEF Resume, SessionInv, SessionTypeOK
      <4> QED
        BY <1>2, <3>1, <4>1 DEF Resume, Session
    <3> DEFINE ds == Bind(cs, k)
    <3>3. Answered(cs, ds, {}) /\ \A i \in DOMAIN cs : i # k => ds[i].bound = cs[i].bound
      BY <1>3, <1>6, BindFacts
    <3>4. ds \in Seq(Conn) /\ Len(ds) = Len(cs) /\ DOMAIN ds = DOMAIN cs /\ Grows(cs, ds)
      BY <1>3, <1>8, <3>3, LenProperties DEF Answered
    <3>5. conns' = Sent(ds, k, Sync(session')) /\ Sync(session') \in Answer
      BY <3>1, <3>2, SnapshotType
    <3> HIDE DEF ds
    <3>6. Alike(ds, conns')
      BY <1>6, <3>4, <3>5, SentAlike
    <3>7. Grows(cs, conns')
      BY <3>4, <3>6 DEF Alike, Grows
    <3>8. \A i \in DOMAIN conns : i # k => conns'[i].bound = conns[i].bound
      BY <1>3, <1>6, <3>3, <3>4, <3>6 DEF Alike, SameBound
    <3> QED
      BY <1>7, <1>12, <3>1, <3>7, <3>8 DEF Sits, s, msg
  <2>3. CASE HandleResume(k, s, cs)!2
    BY <1>9, <1>12, <2>3 DEF Speaks, s, msg
  <2> QED
    BY <2>1, <2>2, <2>3 DEF HandleResume
<1>13. CASE msg.type \notin Greeting
  <2>1. HandleAction(k, s, msg, cs)
    BY <1>4, <1>13 DEF Greeting
  <2>2. CASE /\ Does(s, msg) /\ UNCHANGED attached
             /\ conns' = Broadcast(cs, [Sync(session') EXCEPT !.cause = <<s, msg.type>>])
    <3>1. Calls /\ session' # NoSession
      BY <1>1, <1>2, <1>3, <1>13, <2>2, DoesCalls
    <3>2. session' \in Session
      BY <1>1, <3>1, CallsInv DEF SessionInv, SessionTypeOK
    <3>3. [Sync(session') EXCEPT !.cause = <<s, msg.type>>] \in Answer
      <4>1. msg.type \in DOMAIN Allowed
        BY <1>3, <1>13 DEF Request
      <4> QED
        BY <1>2, <3>2, <4>1, SnapshotType DEF Answer, Sync
    <3>4. Alike(cs, conns')
      BY <1>1, <1>3, <2>2, <3>3, BroadcastAlike
    <3> QED
      BY <1>7, <1>13, <2>2, <3>4 DEF Alike, Speaks, s, msg, Greeting
  <2>3. CASE (conns' = cs \/ conns' = Sent(cs, k, Gone)) /\ UNCHANGED <<session, attached>>
    BY <1>9, <1>13, <2>3 DEF Speaks, s, msg, Greeting
  <2> QED
    BY <2>1, <2>2, <2>3 DEF HandleAction
<1> QED
  BY <1>10, <1>11, <1>12, <1>13 DEF Greeting

LEMMA TimersSeats ==
  ASSUME RelayInv, NEW s \in Seat, Lapse(s) \/ Expire
  PROVE  /\ Alike(conns, conns') /\ UNCHANGED client
         /\ (GraceExpires(s) /\ attached' = attached) \/ session' = NoSession
<1>1. /\ Types /\ conns \in Seq(Conn) /\ session \in Session
  BY DEF RelayInv, Types, Lapse, Expire, GraceExpires, Remove, SessionInv, SessionTypeOK
<1>2. Alike(conns, conns)
  BY <1>1 DEF Alike, SameBound, Grows
<1>3. ASSUME NEW v \in Session PROVE Alike(conns, Broadcast(conns, Sync(v)))
  BY <1>1, BroadcastAlike, SnapshotType
<1>4. CASE Lapse(s)
  <2>1. session' \in Session
    BY <1>1, <1>4 DEF Lapse, GraceExpires, Session, TradeState
  <2> QED
    BY <1>2, <1>3, <1>4, <2>1 DEF Lapse
<1>5. CASE Expire
  <2>1. [session EXCEPT !.state = "cancelled"] \in Session
    BY <1>1 DEF Session, TradeState
  <2> QED
    BY <1>2, <1>3, <1>5, <2>1 DEF Expire, Remove
<1> QED
  BY <1>4, <1>5

LEMMA CloseSeats ==
  ASSUME RelayInv, NEW k \in DOMAIN conns, Close(k)
  PROVE  /\ conns' \in Seq(Conn) /\ Len(conns') = Len(conns) /\ DOMAIN conns' = DOMAIN conns
         /\ conns'[k].by = conns[k].by /\ ~conns'[k].served /\ ~conns'[k].bound
         /\ conns'[k].up = <<>> /\ conns'[k].down = conns[k].down
         /\ \A i \in DOMAIN conns : i # k => conns'[i] = conns[i]
         /\ UNCHANGED <<client, storedVars>>
<1>1. conns \in Seq(Conn) /\ conns[k] \in Conn
  BY ConnFields DEF RelayInv, Types
<1> DEFINE c == [conns[k] EXCEPT !.served = FALSE, !.up = <<>>, !.bound = FALSE]
<1>2. c \in Conn /\ c.by = conns[k].by /\ ~c.served /\ ~c.bound /\ c.up = <<>>
      /\ c.down = conns[k].down
  <2>1. <<>> \in Seq(Request)
    BY EmptySeq
  <2> QED
    BY <1>1, <2>1 DEF Conn
<1>3. conns' = [conns EXCEPT ![k] = c] /\ UNCHANGED <<client, storedVars>>
  <2>1. conns \in [DOMAIN conns -> Conn]
    BY <1>1, LenProperties
  <2> QED
    BY <2>1 DEF Close
<1> HIDE DEF c
<1> QED
  BY <1>1, <1>2, <1>3, Replaced

\* One element of a function is changed, and of its record no field but some.
\* An app reaches for its sockets, and for no seat at the server.
SocketsOnly ==
  /\ UNCHANGED <<session, attached>>
  /\ \A i \in DOMAIN conns : /\ i \in DOMAIN conns' /\ conns'[i].by = conns[i].by
                             /\ conns'[i].bound = conns[i].bound
                             /\ conns'[i].served = conns[i].served
  /\ \A t \in Seat : \/ client'[t].ws \in {0, client[t].ws}
                     \/ client'[t].ws = Len(conns) + 1 /\ ~conns'[client'[t].ws].bound

LEMMA ConnectSeats ==
  ASSUME RelayInv, NEW s \in Seat, NEW c, NEW msg, Connect(s, msg), c.ws = Len(conns) + 1,
         client' = [client EXCEPT ![s] = c], UNCHANGED serverVars
  PROVE  SocketsOnly
<1>0. PICK n : n = Len(conns) + 1
  OBVIOUS
<1>1. client'[s] = c /\ \A t \in Seat : t # s => client'[t] = client[t]
  BY ClientFields
<1>2. /\ DOMAIN conns' = DOMAIN conns \cup {n} /\ ~conns'[n].bound
      /\ \A i \in DOMAIN conns :
           /\ conns'[i].by = conns[i].by
           /\ conns'[i].served = conns[i].served /\ conns'[i].bound = conns[i].bound
  BY <1>0, ConnectFacts
<1> QED
  BY <1>0, <1>1, <1>2 DEF SocketsOnly, serverVars

LEMMA AppSeats ==
  ASSUME RelayInv, NEW s \in Seat, AppStep(s) \/ BeginCreate \/ BeginJoin
  PROVE  SocketsOnly
<1>1. /\ client[s] \in App /\ client \in [Seat -> App] /\ conns \in Seq(Conn) /\ Off.ws = 0
      /\ client[s].ws \in 0..Len(conns)
      /\ client[s].ws # 0 => client[s].ws \in DOMAIN conns
      /\ "a" \in Seat /\ "b" \in Seat
  BY ClientFields DEF Off, Sockets, RelayInv, Seat
<1>2. \A c : Begun(c).ws = Len(conns) + 1
  BY DEF Begun
<1>3. CASE BeginCreate \/ BeginJoin \/ BeginResume(s)
  <2>1. PICK t \in Seat :
          \E c, msg : /\ Connect(t, msg) /\ c.ws = Len(conns) + 1
                      /\ client' = [client EXCEPT ![t] = c] /\ UNCHANGED serverVars
    BY <1>1, <1>2, <1>3 DEF BeginCreate, BeginJoin, BeginResume
  <2> QED
    BY <2>1, ConnectSeats
<1>4. CASE Reconnect(s) \/ RetryConnect(s)
  <2>1. /\ Connect(s, Handshake(client[s])) /\ UNCHANGED serverVars
        /\ client' = [client EXCEPT ![s] = Begun(client[s])]
    BY <1>1, <1>4 DEF Reconnect, RetryConnect
  <2> QED
    BY <1>2, <2>1, ConnectSeats
<1>5. ASSUME NEW c, c.ws = 0, conns' = HungUp(client[s].ws), client' = [client EXCEPT ![s] = c],
             UNCHANGED serverVars
      PROVE  SocketsOnly
  <2>1. /\ DOMAIN conns' = DOMAIN conns
        /\ \A i \in DOMAIN conns : /\ conns'[i].bound = conns[i].bound
                                   /\ conns'[i].served = conns[i].served
                                   /\ conns'[i].by = conns[i].by
    BY <1>1, <1>5, HungUpFacts, LenProperties
  <2>2. client'[s] = c /\ \A t \in Seat : t # s => client'[t] = client[t]
    BY <1>1, <1>5
  <2> QED
    BY <1>5, <2>1, <2>2 DEF SocketsOnly, serverVars
<1>6. ASSUME \A t \in Seat : client'[t].ws = client[t].ws, UNCHANGED serverVars,
             \/ conns' = conns
             \/ \E k \in DOMAIN conns : \E q : conns' = [conns EXCEPT ![k].up = q]
             \/ \E k \in DOMAIN conns : \E q : conns' = [conns EXCEPT ![k].down = q]
      PROVE  SocketsOnly
  <2>1. conns \in [DOMAIN conns -> Conn]
    BY <1>1, LenProperties
  <2>2. /\ DOMAIN conns' = DOMAIN conns
        /\ \A i \in DOMAIN conns : /\ conns'[i].bound = conns[i].bound
                                   /\ conns'[i].served = conns[i].served
                                   /\ conns'[i].by = conns[i].by
    <3>1. CASE conns' = conns
      BY <3>1
    <3>2. ASSUME NEW k \in DOMAIN conns, NEW q, conns' = [conns EXCEPT ![k].up = q]
          PROVE  /\ DOMAIN conns' = DOMAIN conns
                 /\ \A i \in DOMAIN conns : /\ conns'[i].bound = conns[i].bound
                                            /\ conns'[i].served = conns[i].served
                                            /\ conns'[i].by = conns[i].by
      <4>1. conns[k] \in Conn
        BY <2>1
      <4> QED
        BY <3>2, <4>1 DEF Conn
    <3>3. ASSUME NEW k \in DOMAIN conns, NEW q, conns' = [conns EXCEPT ![k].down = q]
          PROVE  /\ DOMAIN conns' = DOMAIN conns
                 /\ \A i \in DOMAIN conns : /\ conns'[i].bound = conns[i].bound
                                            /\ conns'[i].served = conns[i].served
                                            /\ conns'[i].by = conns[i].by
      <4>1. conns[k] \in Conn
        BY <2>1
      <4> QED
        BY <3>3, <4>1 DEF Conn
    <3> QED
      BY <1>6, <3>1, <3>2, <3>3
  <2> QED
    BY <1>6, <2>2 DEF SocketsOnly, serverVars
<1>7. CASE Break(s)
  <2>1. client' = [client EXCEPT ![s] = [client[s] EXCEPT !.ws = 0]]
        /\ [client[s] EXCEPT !.ws = 0].ws = 0
    BY <1>1, <1>7 DEF Break, App
  <2> QED
    BY <1>5, <1>7, <2>1 DEF Break
<1>8. CASE Quit(s) \/ Reset(s)
  BY <1>1, <1>5, <1>8 DEF Quit, Reset
<1>9. CASE \/ PressAccept(s) \/ PressUnaccept(s) \/ PressConfirm(s) \/ PressCancel(s)
           \/ \E side \in Seat, o \in Offer : PressOffer(s, side, o)
  <2>1. \A t \in Seat : client'[t].ws = client[t].ws
    <3>1. CASE PressAccept(s) \/ PressUnaccept(s) \/ PressConfirm(s) \/ PressCancel(s)
      BY <3>1 DEF PressAccept, PressUnaccept, PressConfirm, PressCancel
    <3>2. ASSUME NEW side \in Seat, NEW o \in Offer, PressOffer(s, side, o)
          PROVE  \A t \in Seat : client'[t].ws = client[t].ws
      BY <1>1, <3>2 DEF PressOffer, App
    <3> QED
      BY <1>9, <3>1, <3>2
  <2>2. PICK msg : Press(s, msg)
    BY <1>9 DEF PressAccept, PressUnaccept, PressConfirm, PressCancel, PressOffer
  <2> QED
    BY <1>1, <1>6, <2>1, <2>2 DEF Press, OnBoard
<1>10. CASE ClientReceive(s)
  <2> DEFINE msg == Head(conns[client[s].ws].down)
             c == IF msg.type = "seat" THEN [client[s] EXCEPT !.token = TRUE, !.applied = FALSE]
                                       ELSE client[s]
             d == Shown(c, msg.snap)
  <2>1. CASE conns' = HungUp(client[s].ws) /\ client' = [client EXCEPT ![s] = Off]
    BY <1>1, <1>5, <1>10, <2>1 DEF ClientReceive
  <2>2. c \in App /\ c.ws = client[s].ws
    BY <1>1 DEF App
  <2> HIDE DEF c
  <2>3. d.ws = client[s].ws
    BY <2>2 DEF Shown, App
  <2>4. CASE client' = [client EXCEPT ![s] = d]
             /\ conns' = [conns EXCEPT ![client[s].ws].down = Tail(@)]
    <3> HIDE DEF d
    <3>1. \A t \in Seat : client'[t].ws = client[t].ws
      BY <1>1, <2>3, <2>4
    <3> QED
      BY <1>1, <1>6, <1>10, <2>4, <3>1 DEF ClientReceive
  <2> QED
    BY <1>10, <2>1, <2>4 DEF ClientReceive, c
<1>11. CASE Commit(s) \/ Fail(s) \/ RetryApply(s)
  <2>1. CASE Fail(s) \/ RetryApply(s)
    <3>1. PICK v : client' = [client EXCEPT ![s].failed = v]
      BY <2>1 DEF Fail, RetryApply
    <3>2. \A t \in Seat : client'[t].ws = client[t].ws
      BY <1>1, <3>1 DEF App
    <3> QED
      BY <1>6, <2>1, <3>2 DEF Fail, RetryApply
  <2>2. CASE Commit(s)
    BY <1>1, <1>5, <1>6, <2>2 DEF Commit
  <2> QED
    BY <1>11, <2>1, <2>2
<1> QED
  BY <1>3, <1>4, <1>7, <1>8, <1>9, <1>10, <1>11 DEF AppStep

-----------------------------------------------------------------------------
(***************************************************************************)
(* The app that was answered is the one the relay answers.                 *)
(***************************************************************************)
LEMMA ReachedNext ==
  ASSUME ~Overtaking, RelayInv, RelayInv', Reached, [Next]_vars
  PROVE  Reached'
<1>1. conns \in Seq(Conn) /\ \A s \in Seat : client[s].ws \in 0..Len(conns)
  BY ClientFields DEF RelayInv, Types
<1>2. ASSUME NEW k \in DOMAIN conns, Handle(k), NEW t \in Seat, client[t].ws # 0,
             conns'[client[t].ws].bound, session' # NoSession
      PROVE  attached'[t] = client[t].ws
  <2>1. client[t].ws \in DOMAIN conns /\ conns[client[t].ws].by = t
        /\ \A i \in DOMAIN conns : conns[i].by = t => i <= client[t].ws
    BY <1>2 DEF RelayInv, Sockets
  <2>2. CASE Founds(k)
    BY <1>2, <2>1, <2>2 DEF Founds
  <2>3. CASE Speaks(k)
    <3>1. session' # NoSession => session # NoSession
      <4>1. CASE UNCHANGED session
        BY <4>1
      <4>2. CASE Head(conns[k].up).type \notin Greeting /\ Does(conns[k].by, Head(conns[k].up))
        <5>1. conns[k].by \in Seat /\ conns[k].up # <<>>
          BY <1>1, <1>2, ConnFields DEF Handle
        <5>2. Head(conns[k].up) \in Request
          BY <1>1, <5>1, PoppedFacts
        <5> QED
          BY <4>2, <5>1, <5>2, DoesCalls DEF RelayInv
      <4> QED
        BY <2>3, <4>1, <4>2 DEF Speaks
    <3> QED
      BY <1>2, <2>1, <2>3, <3>1 DEF Speaks, SameBound, Reached
  <2>4. CASE Sits(k)
    <3>1. session # NoSession /\ attached \in [Seat -> 0..Len(conns)] /\ k \in 1..Len(conns)
      BY <1>1, <2>4, LenProperties DEF Sits, JoinAnew, JoinAgain, Seated, Resume, RelayInv, Types
    <3>2. CASE client[t].ws = k
      BY <2>1, <2>4, <3>1, <3>2 DEF Sits
    <3>3. CASE client[t].ws # k
      <4>1. conns[client[t].ws].bound /\ attached[t] = client[t].ws
        BY <1>2, <2>1, <2>4, <3>1, <3>3 DEF Sits, Reached
      <4>2. conns[k].by # t
        <5>1. SUFFICES ASSUME conns[k].by = t PROVE FALSE
          OBVIOUS
        <5>2. k <= client[t].ws /\ k < client[t].ws
          BY <1>1, <2>1, <3>1, <3>3, <5>1
        <5>3. Superseded(k)
          BY <2>1, <4>1, <5>1, <5>2 DEF Superseded
        <5>4. Head(conns[k].up).type \notin DOMAIN Allowed
          BY <2>4 DEF Sits, Allowed
        <5> QED
          BY <1>2, <5>3, <5>4 DEF Handle
      <4> QED
        BY <2>4, <3>1, <4>1, <4>2 DEF Sits
    <3> QED
      BY <3>2, <3>3
  <2> QED
    BY <1>2, <2>2, <2>3, <2>4, HandleSeats
<1>3. ASSUME NEW k \in DOMAIN conns, Handle(k) PROVE Reached'
  <2>1. client' = client
    BY <1>3 DEF Handle
  <2> QED
    BY <1>2, <1>3, <2>1 DEF Reached
<1>4. ASSUME NEW k \in DOMAIN conns, Close(k) PROVE Reached'
  <2>1. /\ ~conns'[k].bound /\ client' = client
        /\ \A i \in DOMAIN conns : i # k => conns'[i] = conns[i]
    BY <1>4, CloseSeats
  <2>2. ASSUME NEW t \in Seat, client[t].ws # 0, conns'[client[t].ws].bound,
               session' # NoSession
        PROVE  attached'[t] = client[t].ws
    <3>1. client[t].ws \in DOMAIN conns /\ client[t].ws # k
      BY <2>1, <2>2 DEF RelayInv, Sockets
    <3>2. conns[client[t].ws].bound /\ session # NoSession
      BY <1>4, <2>1, <2>2, <3>1 DEF Close
    <3>3. attached[t] = client[t].ws /\ attached[t] # k
      BY <2>2, <3>1, <3>2 DEF Reached
    <3>4. attached' = attached \/ (Counts(k) /\ attached' = [attached EXCEPT ![conns[k].by] = 0])
      BY <1>4 DEF Close
    <3> QED
      BY <3>3, <3>4 DEF Counts, RelayInv, Types
  <2> QED
    BY <2>1, <2>2 DEF Reached
<1>5. ASSUME NEW s \in Seat, Lapse(s) \/ Expire PROVE Reached'
  <2>1. /\ Alike(conns, conns') /\ client' = client
        /\ (GraceExpires(s) /\ attached' = attached) \/ session' = NoSession
    BY <1>5, TimersSeats
  <2>2. CASE GraceExpires(s) /\ attached' = attached
    <3>1. session # NoSession /\ \A t \in Seat : client[t].ws # 0 => client[t].ws \in DOMAIN conns
      BY <2>2 DEF GraceExpires, RelayInv, Sockets
    <3> QED
      BY <2>1, <2>2, <3>1 DEF Reached, Alike, SameBound
  <2>3. CASE session' = NoSession
    BY <2>3 DEF Reached
  <2> QED
    BY <2>1, <2>2, <2>3
<1>6. ASSUME NEW s \in Seat, AppStep(s) \/ BeginCreate \/ BeginJoin PROVE Reached'
  <2>1. SocketsOnly
    BY <1>6, AppSeats
  <2>2. ASSUME NEW t \in Seat, client'[t].ws # 0, conns'[client'[t].ws].bound,
               session' # NoSession
        PROVE  attached'[t] = client'[t].ws
    <3>1. client'[t].ws = client[t].ws
      BY <2>1, <2>2 DEF SocketsOnly
    <3>2. client[t].ws \in DOMAIN conns
      BY <2>2, <3>1 DEF RelayInv, Sockets
    <3> QED
      BY <2>1, <2>2, <3>1, <3>2 DEF SocketsOnly, Reached
  <2> QED
    BY <2>2 DEF Reached
<1>7. CASE UNCHANGED vars
  BY <1>7 DEF vars, Reached
<1>8. "a" \in Seat
  BY DEF Seat
<1> QED
  BY <1>3, <1>4, <1>5, <1>6, <1>7, <1>8 DEF Next, RelayStep

\* As long as no handshake overtakes one on a newer socket, an app whose socket
\* the relay bound to the session is the one it answers on that seat, whichever
\* sockets were left behind (the handshakes of relay.ts, superseding the seat's
\* socket; the close that only counts for the socket still attached).
THEOREM RelayReaches == ASSUME ~Overtaking PROVE Spec => []Reached
<1>1. Init => Reached
  BY DEF Init, Reached, Off
<1>2. RelayInv /\ RelayInv' /\ Reached /\ [Next]_vars => Reached'
  BY ReachedNext
<1> QED
  BY <1>1, <1>2, RelayInvariant, PTL DEF Spec

-----------------------------------------------------------------------------
(***************************************************************************)
(* Somebody who is there is not called off. A seat nobody took has no      *)
(* socket and no window running; and it is never taken twice with one      *)
(* nonce, since no answer to a join is lost.                               *)
(***************************************************************************)
Places == \A s \in Seat : attached[s] # 0 => conns[attached[s]].by = s
Vacant == session # NoSession /\ session.joiner = 0 => attached["b"] = 0 /\ ~session.grace["b"]

\* One join for each nonce, never one that was answered.
Joins(k, i) == conns[k].up[i].type = "join"
JoinOnce ==
  /\ session # NoSession => session.joiner <= attempts
  /\ \A k \in DOMAIN conns : \A i \in DOMAIN conns[k].up :
       Joins(k, i) => /\ i = 1 /\ conns[k].up[i].nonce <= attempts
                      /\ session # NoSession => session.joiner # conns[k].up[i].nonce
  /\ \A k, l \in DOMAIN conns : \A i \in DOMAIN conns[k].up, j \in DOMAIN conns[l].up :
       Joins(k, i) /\ Joins(l, j) /\ conns[k].up[i].nonce = conns[l].up[j].nonce => k = l

\* Whoever asked to join waits on the same socket until the answer is there.
AsksOn(k) ==
  \/ /\ attached["b"] # k /\ conns[k].down = <<>>
     /\ conns[k].up # <<>> /\ conns[k].up[1].type = "join"
  \/ conns[k].down # <<>> /\ conns[k].down[1].type \in {"seat", "gone"}
Asking(c) == c.initial = "join" /\ ~c.token
Asks ==
  Asking(client["b"]) =>
    /\ client["b"].ws # 0 /\ conns[client["b"].ws].served /\ client["b"].view = NoView
    /\ AsksOn(client["b"].ws)

HeldInv == SeatHeld /\ Places /\ Vacant /\ JoinOnce /\ Asks

LEMMA Attached ==
  ASSUME RelayInv, NEW s \in Seat, attached[s] # 0
  PROVE  attached[s] \in DOMAIN conns
BY LenProperties DEF RelayInv, Types

\* Neither a call of the session nor silence moves anybody.
LEMMA SpeaksSession ==
  ASSUME RelayInv, NEW k \in DOMAIN conns, Handle(k), Speaks(k)
  PROVE  session' # NoSession => /\ session # NoSession
                                 /\ session'.present = session.present
                                 /\ session'.grace = session.grace
                                 /\ session'.joiner = session.joiner
<1>1. CASE UNCHANGED session
  BY <1>1
<1>2. CASE Head(conns[k].up).type \notin Greeting /\ Does(conns[k].by, Head(conns[k].up))
  <2> DEFINE s == conns[k].by
             msg == Head(conns[k].up)
  <2>1. s \in Seat /\ conns[k].up # <<>> /\ conns \in Seq(Conn)
    BY ConnFields DEF Handle, RelayInv, Types
  <2>2. msg \in Request
    BY <2>1, PoppedFacts
  <2> HIDE DEF s, msg
  <2>3. msg.type \notin Greeting /\ Does(s, msg)
    BY <1>2 DEF s, msg
  <2>4. session # NoSession
    BY <2>1, <2>2, <2>3, DoesCalls DEF RelayInv
  <2>5. session \in Session /\ msg.type \in DOMAIN Allowed
    BY <2>2, <2>3, <2>4 DEF RelayInv, SessionInv, SessionTypeOK, Request
  <2>6. \/ OfferUpdate(msg.side, msg.table[msg.side]) \/ Accept(s) \/ Unaccept(s)
        \/ ConfirmComplete(s) \/ Cancel
    BY <2>3, <2>5 DEF Does, Allowed
  <2> QED
    BY <2>4, <2>5, <2>6 DEF OfferUpdate, Accept, Unaccept, ConfirmComplete, Cancel, Session
<1> QED
  BY <1>1, <1>2 DEF Speaks

LEMMA HandleQueues ==
  ASSUME RelayInv, NEW k \in DOMAIN conns, Handle(k)
  PROVE  /\ conns' \in Seq(Conn) /\ DOMAIN conns' = DOMAIN conns
         /\ \A i \in DOMAIN conns :
              /\ conns'[i].by = conns[i].by /\ conns'[i].open = conns[i].open
              /\ conns'[i].served = conns[i].served
              /\ i # k => conns'[i].up = conns[i].up
              /\ i \notin {k, attached["a"], attached["b"]} => conns'[i].down = conns[i].down
         /\ \A j \in DOMAIN conns'[k].up :
              /\ j \in Nat \ {0} /\ j + 1 \in DOMAIN conns[k].up
              /\ conns'[k].up[j] = conns[k].up[j + 1]
         /\ \A s \in Seat : attached'[s] \in {attached[s], 0, k}
         /\ conns[k].by \in Seat /\ 1 \in DOMAIN conns[k].up
         /\ Head(conns[k].up) = conns[k].up[1] /\ Head(conns[k].up) \in Request
         /\ UNCHANGED <<client, storedVars>>
<1>1. conns \in Seq(Conn) /\ conns[k].up # <<>> /\ conns[k].by \in Seat
  BY ConnFields DEF Handle, RelayInv, Types
<1>2. Effect(k, Popped(k))
  BY HandleEffect
<1>3. /\ Popped(k) \in Seq(Conn) /\ Len(Popped(k)) = Len(conns)
      /\ \A i \in DOMAIN conns :
           /\ Popped(k)[i].by = conns[i].by /\ Popped(k)[i].down = conns[i].down
           /\ Popped(k)[i].open = conns[i].open /\ Popped(k)[i].served = conns[i].served
           /\ i # k => Popped(k)[i].up = conns[i].up
      /\ \A j \in DOMAIN Popped(k)[k].up :
           j + 1 \in DOMAIN conns[k].up /\ Popped(k)[k].up[j] = conns[k].up[j + 1]
      /\ Head(conns[k].up) = conns[k].up[1] /\ Head(conns[k].up) \in Request
      /\ 1 \in DOMAIN conns[k].up
  BY <1>1, PoppedFacts
<1>4. DOMAIN Popped(k) = DOMAIN conns /\ DOMAIN conns' = DOMAIN conns /\ conns' \in Seq(Conn)
  BY <1>1, <1>2, <1>3, LenProperties DEF Effect, Answered
<1>5. \A j \in DOMAIN conns'[k].up : j \in Nat \ {0}
  <2>1. conns'[k].up \in Seq(Request)
    BY <1>4, ConnFields
  <2> QED
    BY <2>1, LenProperties
<1>6. conns'[k].up = Popped(k)[k].up
  BY <1>2, <1>4 DEF Effect, Answered
<1> QED
  BY <1>1, <1>2, <1>3, <1>4, <1>5, <1>6 DEF Effect, Answered, Handle

LEMMA HandleHeld ==
  ASSUME ~LostReplies, RelayInv, RelayInv', HeldInv, NEW k \in DOMAIN conns, Handle(k)
  PROVE  HeldInv'
<1> DEFINE s == conns[k].by
           msg == Head(conns[k].up)
<1>1. /\ conns' \in Seq(Conn) /\ DOMAIN conns' = DOMAIN conns
      /\ \A i \in DOMAIN conns :
           /\ conns'[i].by = conns[i].by /\ conns'[i].open = conns[i].open
           /\ conns'[i].served = conns[i].served
           /\ i # k => conns'[i].up = conns[i].up
           /\ i \notin {k, attached["a"], attached["b"]} => conns'[i].down = conns[i].down
      /\ \A j \in DOMAIN conns'[k].up :
           /\ j \in Nat \ {0} /\ j + 1 \in DOMAIN conns[k].up
           /\ conns'[k].up[j] = conns[k].up[j + 1]
      /\ \A t \in Seat : attached'[t] \in {attached[t], 0, k}
      /\ s \in Seat /\ 1 \in DOMAIN conns[k].up /\ msg = conns[k].up[1] /\ msg \in Request
      /\ UNCHANGED <<client, storedVars>>
  BY HandleQueues
<1>2. attached \in [Seat -> 0..Len(conns)] /\ conns \in Seq(Conn) /\ k # 0
      /\ (session # NoSession => session \in Session)
  BY LenProperties DEF RelayInv, Types, SessionInv, SessionTypeOK
<1>3. /\ Founds(k) \/ Sits(k) \/ Speaks(k)
      /\ Grows(conns, conns')
      /\ msg.type = "join" /\ conns[k].open /\ conns[k].down = <<>> =>
           conns'[k].down # <<>> /\ conns'[k].down[1].type \in {"seat", "gone"}
  BY HandleSeats
<1>4. Sits(k) => \/ msg.type = "join" /\ s = "b" /\ JoinAnew(msg.nonce) /\ msg.nonce \in Nonce
                 \/ msg.type = "resume" /\ Resume(s)
  <2>1. msg.type = "join" => ~JoinAgain(msg.nonce)
    BY <1>1 DEF HeldInv, JoinOnce, Joins, JoinAgain, Seated
  <2>2. msg.type = "join" => msg.nonce # 0
    BY <1>1 DEF RelayInv, Greetings, Greets
  <2> QED
    BY <1>1, <2>1, <2>2 DEF Sits, Request
<1>5. Speaks(k) /\ session' # NoSession =>
         /\ session # NoSession /\ session'.present = session.present
         /\ session'.grace = session.grace /\ session'.joiner = session.joiner
  BY SpeaksSession
<1> HIDE DEF s, msg
<1>6. Places'
  <2>1. ASSUME NEW t \in Seat, attached'[t] # 0 PROVE conns'[attached'[t]].by = t
    <3>1. CASE Founds(k)
      BY <1>1, <2>1, <3>1 DEF Founds
    <3>2. CASE Sits(k)
      <4>1. attached' = [attached EXCEPT ![s] = k]
        BY <3>2 DEF Sits, s
      <4>2. CASE t = s
        BY <1>1, <1>2, <4>1, <4>2 DEF s
      <4>3. CASE t # s
        BY <1>1, <1>2, <2>1, <4>1, <4>3, Attached DEF HeldInv, Places
      <4> QED
        BY <4>2, <4>3
    <3>3. CASE Speaks(k)
      BY <1>1, <2>1, <3>3, Attached DEF Speaks, HeldInv, Places
    <3> QED
      BY <1>3, <3>1, <3>2, <3>3
  <2> QED
    BY <2>1 DEF Places
<1>7. SeatHeld'
  <2>1. ASSUME session' # NoSession, NEW t \in Seat, attached'[t] # 0,
               conns'[attached'[t]].served
        PROVE  session'.present[t] /\ ~session'.grace[t]
    <3>1. CASE Founds(k)
      BY <2>1, <3>1 DEF Founds, Fresh, Nobody
    <3>2. ASSUME attached'[t] = attached[t], session # NoSession
          PROVE  session.present[t] /\ ~session.grace[t]
      BY <1>1, <2>1, <3>2, Attached DEF HeldInv, SeatHeld
    <3>3. CASE Sits(k)
      <4>1. attached' = [attached EXCEPT ![s] = k] /\ session \in Session /\ session # NoSession
        BY <1>2, <1>4, <3>3 DEF Sits, s, JoinAnew, Resume
      <4>2. t # s => session.present[t] /\ ~session.grace[t]
        BY <1>2, <3>2, <4>1
      <4>3. CASE Resume(s)
        BY <1>1, <4>1, <4>2, <4>3 DEF Resume, Session
      <4>4. CASE s = "b" /\ JoinAnew(msg.nonce)
        <5>1. ~session.grace["b"]
          BY <4>1, <4>4 DEF JoinAnew, HeldInv, Vacant
        <5> QED
          BY <4>1, <4>2, <4>4, <5>1 DEF JoinAnew, Session, Seat
      <4> QED
        BY <1>4, <3>3, <4>3, <4>4
    <3>4. CASE Speaks(k)
      BY <1>5, <2>1, <3>2, <3>4 DEF Speaks
    <3> QED
      BY <1>3, <3>1, <3>3, <3>4
  <2> QED
    BY <2>1 DEF SeatHeld
<1>8. Vacant'
  <2>1. CASE Founds(k)
    BY <2>1 DEF Founds, Fresh, Nobody, Vacant, Seat
  <2>2. CASE Sits(k)
    <3>1. CASE s = "b" /\ JoinAnew(msg.nonce) /\ msg.nonce \in Nonce
      BY <1>2, <3>1, OfferAssumption DEF JoinAnew, Vacant, Session
    <3>2. CASE Resume(s)
      <4>1. session # NoSession /\ session \in Session /\ session'.joiner = session.joiner
            /\ (session.joiner = 0 => s = "a" /\ session'.grace["b"] = session.grace["b"])
        BY <1>1, <1>2, <3>2 DEF Resume, Seated, Session, Seat
      <4>2. attached' = [attached EXCEPT ![s] = k]
        BY <2>2 DEF Sits, s
      <4> QED
        BY <4>1, <4>2 DEF HeldInv, Vacant
    <3> QED
      BY <1>4, <2>2, <3>1, <3>2
  <2>3. CASE Speaks(k)
    BY <1>5, <2>3 DEF Speaks, HeldInv, Vacant
  <2> QED
    BY <1>3, <2>1, <2>2, <2>3
<1>9. JoinOnce'
  <2>1. ASSUME NEW i \in DOMAIN conns, NEW j \in DOMAIN conns'[i].up, conns'[i].up[j].type = "join"
        PROVE  i # k /\ j \in DOMAIN conns[i].up /\ conns'[i].up[j] = conns[i].up[j]
    <3>1. CASE i # k
      BY <1>1, <2>1, <3>1
    <3>2. CASE i = k
      <4>1. /\ j \in Nat \ {0} /\ j + 1 \in DOMAIN conns[k].up
            /\ conns[k].up[j + 1].type = "join"
        BY <1>1, <2>1, <3>2
      <4>2. j + 1 = 1
        BY <4>1 DEF HeldInv, JoinOnce, Joins
      <4> QED
        BY <4>1, <4>2
    <3> QED
      BY <3>1, <3>2
  <2>2. attempts' = attempts /\ attempts \in Nat
    <3>1. Nonce \subseteq Nat
      BY RelayAssumption
    <3>2. attempts' = attempts
      BY <1>1 DEF storedVars
    <3> QED
      BY <3>1, <3>2 DEF RelayInv, Types, StoredTypes
  <2>3. session' # NoSession /\ session'.joiner # 0 =>
          \/ session # NoSession /\ session'.joiner = session.joiner
          \/ msg.type = "join" /\ session'.joiner = msg.nonce
    <3>1. CASE Founds(k)
      BY <3>1 DEF Founds, Fresh
    <3>2. CASE Sits(k)
      <4>1. session # NoSession /\ session \in Session
        BY <1>2, <1>4, <3>2 DEF JoinAnew, Resume
      <4> QED
        BY <1>4, <3>2, <4>1 DEF JoinAnew, Resume, Session
    <3>3. CASE Speaks(k)
      BY <1>5, <3>3
    <3> QED
      BY <1>3, <3>1, <3>2, <3>3
  <2>4. session' # NoSession => session'.joiner <= attempts'
    <3>1. msg.type = "join" => msg.nonce <= attempts
      BY <1>1 DEF HeldInv, JoinOnce, Joins
    <3> QED
      BY <2>2, <2>3, <3>1 DEF HeldInv, JoinOnce
  <2>5. ASSUME NEW i \in DOMAIN conns, NEW j \in DOMAIN conns'[i].up, conns'[i].up[j].type = "join"
        PROVE  /\ j = 1 /\ conns'[i].up[j].nonce <= attempts'
               /\ session' # NoSession => session'.joiner # conns'[i].up[j].nonce
    <3>1. i # k /\ j \in DOMAIN conns[i].up /\ conns'[i].up[j] = conns[i].up[j]
      BY <2>1, <2>5
    <3>2. /\ j = 1 /\ conns[i].up[j].nonce <= attempts /\ conns[i].up[j].nonce # 0
          /\ session # NoSession => session.joiner # conns[i].up[j].nonce
      BY <2>5, <3>1 DEF HeldInv, JoinOnce, Joins, RelayInv, Greetings, Greets
    <3>3. msg.type = "join" => msg.nonce # conns[i].up[j].nonce
      BY <1>1, <2>5, <3>1 DEF HeldInv, JoinOnce, Joins
    <3> QED
      BY <2>2, <2>3, <3>1, <3>2, <3>3
  <2>6. ASSUME NEW i \in DOMAIN conns, NEW l \in DOMAIN conns,
               NEW j \in DOMAIN conns'[i].up, NEW m \in DOMAIN conns'[l].up,
               conns'[i].up[j].type = "join", conns'[l].up[m].type = "join",
               conns'[i].up[j].nonce = conns'[l].up[m].nonce
        PROVE  i = l
    <3>1. /\ j \in DOMAIN conns[i].up /\ conns'[i].up[j] = conns[i].up[j]
          /\ m \in DOMAIN conns[l].up /\ conns'[l].up[m] = conns[l].up[m]
      BY <2>1, <2>6
    <3> QED
      BY <2>6, <3>1 DEF HeldInv, JoinOnce, Joins
  <2> QED
    BY <1>1, <2>4, <2>5, <2>6 DEF JoinOnce, Joins
<1>10. Asks'
  <2>0. PICK w : w = client["b"].ws
    OBVIOUS
  <2>1. SUFFICES ASSUME Asking(client["b"])
                 PROVE  w # 0 /\ conns'[w].served /\ client["b"].view = NoView /\ AsksOn(w)'
    BY <1>1, <2>0 DEF Asks
  <2>2. w # 0 /\ conns[w].served /\ client["b"].view = NoView /\ AsksOn(w)
    BY <2>0, <2>1 DEF HeldInv, Asks
  <2>3. w \in DOMAIN conns /\ conns[w].by = "b" /\ conns[w].open
    BY <2>0, <2>2 DEF RelayInv, Sockets, Seat
  <2>4. attached["a"] # w
    BY <2>2, <2>3 DEF HeldInv, Places, Seat
  <2>5. CASE conns[w].down # <<>> /\ conns[w].down[1].type \in {"seat", "gone"}
    BY <1>1, <1>3, <2>2, <2>3, <2>5 DEF Grows, AsksOn
  <2>6. CASE /\ attached["b"] # w /\ conns[w].down = <<>>
             /\ conns[w].up # <<>> /\ conns[w].up[1].type = "join"
    <3>1. CASE w = k
      BY <1>1, <1>3, <2>2, <2>3, <2>6, <3>1 DEF AsksOn
    <3>2. CASE w # k
      <4>1. conns'[w].down = <<>> /\ conns'[w].up = conns[w].up /\ attached'["b"] # w
        BY <1>1, <2>2, <2>3, <2>4, <2>6, <3>2 DEF Seat
      <4> QED
        BY <1>1, <2>2, <2>3, <2>6, <4>1 DEF AsksOn
    <3> QED
      BY <3>1, <3>2
  <2> QED
    BY <2>2, <2>5, <2>6 DEF AsksOn
<1> QED
  BY <1>6, <1>7, <1>8, <1>9, <1>10 DEF HeldInv

LEMMA NonceNat == \A n \in Nonce \cup {0} : n \in Nat
<1>1. Nonce \subseteq Nat
  BY RelayAssumption
<1> QED
  BY <1>1

LEMMA WaitingNonce ==
  ASSUME RelayInv, NEW k \in DOMAIN conns, NEW i \in DOMAIN conns[k].up
  PROVE  conns[k].up[i].nonce \in Nat
<1>1. conns[k].up \in Seq(Request)
  BY ConnFields DEF RelayInv, Types
<1>2. PICK q \in Seq(Request) : q = conns[k].up
  BY <1>1
<1>3. i \in 1..Len(q)
  BY <1>2, LenProperties
<1>4. q[i] \in Request
  BY <1>3, ElementOfSeq
<1>5. conns[k].up[i].nonce \in Nonce \cup {0}
  BY <1>2, <1>4 DEF Request
<1> QED
  BY <1>5, NonceNat

\* A step that brings no new join and seats nobody leaves all that as it was.
LEMMA QuietHeld ==
  ASSUME RelayInv, HeldInv, attempts \in Nat, attempts' \in Nat, attempts' >= attempts,
         \/ session' = session
         \/ session' = NoSession
         \/ session # NoSession /\ session'.joiner = session.joiner,
         \A k \in DOMAIN conns' : \A i \in DOMAIN conns'[k].up :
           conns'[k].up[i].type = "join" =>
             /\ k \in DOMAIN conns /\ i \in DOMAIN conns[k].up
             /\ conns'[k].up[i] = conns[k].up[i]
  PROVE  JoinOnce'
<1>1. ASSUME NEW k \in DOMAIN conns', NEW i \in DOMAIN conns'[k].up,
             conns'[k].up[i].type = "join"
      PROVE  /\ k \in DOMAIN conns /\ i \in DOMAIN conns[k].up /\ Joins(k, i)
             /\ conns'[k].up[i] = conns[k].up[i] /\ conns[k].up[i].nonce \in Nat
  <2>1. /\ k \in DOMAIN conns /\ i \in DOMAIN conns[k].up
        /\ conns'[k].up[i] = conns[k].up[i]
    BY <1>1
  <2>4. conns[k].up[i].nonce \in Nat
    BY <2>1, WaitingNonce
  <2>5. Joins(k, i)
    BY <1>1, <2>1 DEF Joins
  <2> QED
    BY <2>1, <2>4, <2>5
<1>2. session # NoSession => session.joiner \in Nat
  <2>1. session # NoSession => session.joiner \in Nonce \cup {0}
    BY DEF RelayInv, SessionInv, SessionTypeOK, Session
  <2> QED
    BY <2>1, NonceNat
<1>3. session' # NoSession =>
        session # NoSession /\ session'.joiner = session.joiner /\ session'.joiner <= attempts'
  BY <1>2 DEF HeldInv, JoinOnce
<1>4. ASSUME NEW k \in DOMAIN conns', NEW i \in DOMAIN conns'[k].up,
             conns'[k].up[i].type = "join"
      PROVE  /\ i = 1 /\ conns'[k].up[i].nonce <= attempts'
             /\ session' # NoSession => session'.joiner # conns'[k].up[i].nonce
  BY <1>1, <1>3, <1>4 DEF HeldInv, JoinOnce
<1>5. ASSUME NEW k \in DOMAIN conns', NEW l \in DOMAIN conns',
             NEW i \in DOMAIN conns'[k].up, NEW j \in DOMAIN conns'[l].up,
             conns'[k].up[i].type = "join", conns'[l].up[j].type = "join",
             conns'[k].up[i].nonce = conns'[l].up[j].nonce
      PROVE  k = l
  BY <1>1, <1>5 DEF HeldInv, JoinOnce
<1> QED
  BY <1>3, <1>4, <1>5 DEF JoinOnce, Joins

LEMMA AttemptsNat == RelayInv => attempts \in Nat
BY NonceNat DEF RelayInv, Types, StoredTypes

LEMMA CloseHeld ==
  ASSUME ~LostReplies, RelayInv, HeldInv, NEW k \in DOMAIN conns, Close(k)
  PROVE  HeldInv'
<1> DEFINE s == conns[k].by
<1>1. /\ DOMAIN conns' = DOMAIN conns
      /\ conns'[k].by = conns[k].by /\ ~conns'[k].served /\ conns'[k].up = <<>>
      /\ conns'[k].down = conns[k].down
      /\ \A i \in DOMAIN conns : i # k => conns'[i] = conns[i]
      /\ UNCHANGED <<client, storedVars>>
  BY CloseSeats
<1>2. /\ attached \in [Seat -> 0..Len(conns)] /\ s \in Seat /\ k # 0
      /\ (session # NoSession => session \in Session)
  BY ConnFields, LenProperties DEF RelayInv, Types, SessionInv, SessionTypeOK
<1>3. /\ session' = session \/ (session # NoSession /\ attached[s] = k /\ Drop(s))
      /\ attached' = attached \/ (attached[s] = k /\ attached' = [attached EXCEPT ![s] = 0])
      /\ session' = session \/ attached' # attached
      /\ session # NoSession /\ attached' # attached => Drop(s)
  BY <1>2 DEF Close, Counts
<1>4. conns[k].open => client[s].view # NoView
  BY DEF Close
<1> HIDE DEF s
<1>5. \A t \in Seat : attached'[t] # 0 =>
         /\ attached'[t] = attached[t] /\ attached[t] \in DOMAIN conns
         /\ session' # NoSession => /\ session # NoSession
                                    /\ session'.present[t] = session.present[t]
                                    /\ session'.grace[t] = session.grace[t]
  <2>1. CASE attached' = attached
    BY <1>2, <1>3, <2>1, Attached
  <2>2. CASE attached[s] = k /\ attached' = [attached EXCEPT ![s] = 0]
    <3>1. \A t \in Seat : attached'[t] # 0 => t # s /\ attached'[t] = attached[t]
      BY <1>2, <2>2
    <3>2. CASE session' = session
      BY <3>1, <3>2, Attached
    <3>3. CASE session # NoSession /\ Drop(s)
      BY <1>2, <3>1, <3>3, Attached DEF Drop, Session
    <3> QED
      BY <1>3, <3>2, <3>3
  <2> QED
    BY <1>3, <2>1, <2>2
<1>6. Places' /\ SeatHeld'
  <2>1. \A t \in Seat : attached'[t] # 0 => conns'[attached'[t]].by = t
    BY <1>1, <1>5 DEF HeldInv, Places
  <2>2. ASSUME session' # NoSession, NEW t \in Seat, attached'[t] # 0,
               conns'[attached'[t]].served
        PROVE  session'.present[t] /\ ~session'.grace[t]
    <3>1. conns[attached[t]].served
      BY <1>1, <1>5, <2>2
    <3> QED
      BY <1>5, <2>2, <3>1 DEF HeldInv, SeatHeld
  <2> QED
    BY <2>1, <2>2 DEF Places, SeatHeld
<1>7. Vacant'
  <2>1. ASSUME session' # NoSession, session'.joiner = 0
        PROVE  attached'["b"] = 0 /\ ~session'.grace["b"]
    <3>1. session # NoSession /\ session.joiner = 0
      BY <1>2, <1>3, <2>1 DEF Drop, Session
    <3>2. attached["b"] = 0 /\ ~session.grace["b"]
      BY <3>1 DEF HeldInv, Vacant
    <3>3. attached'["b"] = 0
      BY <1>2, <1>3, <3>2 DEF Seat
    <3>4. CASE session' = session
      BY <3>2, <3>3, <3>4
    <3>5. CASE attached[s] = k /\ Drop(s)
      <4>1. s = "a"
        BY <1>2, <3>2, <3>5 DEF Seat
      <4> QED
        BY <1>2, <3>1, <3>2, <3>3, <3>5, <4>1 DEF Drop, Session
    <3> QED
      BY <1>3, <3>4, <3>5
  <2> QED
    BY <2>1 DEF Vacant
<1>8. JoinOnce'
  <2>1. \A l \in DOMAIN conns' : \A i \in DOMAIN conns'[l].up :
          l \in DOMAIN conns /\ i \in DOMAIN conns[l].up /\ conns'[l].up[i] = conns[l].up[i]
    <3>1. DOMAIN conns'[k].up = {}
      BY <1>1
    <3> QED
      BY <1>1, <3>1
  <2>2. \/ session' = session
        \/ session # NoSession /\ session'.joiner = session.joiner
    BY <1>2, <1>3 DEF Drop, Session
  <2>3. attempts \in Nat /\ attempts' = attempts
    BY <1>1, AttemptsNat DEF storedVars
  <2> QED
    BY <2>1, <2>2, <2>3, QuietHeld
<1>9. Asks'
  <2>0. PICK w : w = client["b"].ws
    OBVIOUS
  <2>1. SUFFICES ASSUME Asking(client["b"])
                 PROVE  w # 0 /\ conns'[w].served /\ client["b"].view = NoView /\ AsksOn(w)'
    BY <1>1, <2>0 DEF Asks
  <2>2. w # 0 /\ conns[w].served /\ client["b"].view = NoView /\ AsksOn(w)
    BY <2>0, <2>1 DEF HeldInv, Asks
  <2>3. w \in DOMAIN conns /\ conns[w].by = "b" /\ conns[w].open
    BY <2>0, <2>2 DEF RelayInv, Sockets, Seat
  <2>4. w # k
    BY <1>4, <2>2, <2>3 DEF s
  <2>5. attached["b"] # w => attached'["b"] # w
    BY <1>2, <1>3, <2>2 DEF Seat
  <2> QED
    BY <1>1, <2>2, <2>3, <2>4, <2>5 DEF AsksOn
<1> QED
  BY <1>6, <1>7, <1>8, <1>9 DEF HeldInv

LEMMA TimersHeld ==
  ASSUME RelayInv, HeldInv, NEW s \in Seat, Lapse(s) \/ Expire
  PROVE  HeldInv'
<1>1. /\ Effect(0, conns) /\ Alike(conns, conns') /\ UNCHANGED client
      /\ (GraceExpires(s) /\ attached' = attached) \/ session' = NoSession
  BY TimersEffect, TimersSeats
<1>2. /\ conns \in Seq(Conn) /\ DOMAIN conns' = DOMAIN conns /\ 0 \notin DOMAIN conns
      /\ \A i \in DOMAIN conns :
           /\ conns'[i].by = conns[i].by /\ conns'[i].up = conns[i].up
           /\ conns'[i].served = conns[i].served
           /\ i \notin {0, attached["a"], attached["b"]} => conns'[i].down = conns[i].down
  BY <1>1, LenProperties DEF Effect, Answered, RelayInv, Types
<1>3. \A t \in Seat : attached'[t] \in {attached[t], 0}
  BY <1>1 DEF Effect
<1>4. session # NoSession => session \in Session
  BY DEF RelayInv, SessionInv, SessionTypeOK
<1>5. session' # NoSession =>
         /\ session # NoSession /\ session'.present = session.present
         /\ session'.joiner = session.joiner /\ attached' = attached
         /\ \A t \in Seat : session'.grace[t] => session.grace[t]
  BY <1>1, <1>4 DEF GraceExpires, Session
<1>6. Places' /\ SeatHeld' /\ Vacant'
  <2>1. \A t \in Seat : attached'[t] # 0 => attached[t] # 0 /\ attached'[t] = attached[t]
                                            /\ attached[t] \in DOMAIN conns
    BY <1>3, Attached
  <2>2. Places'
    BY <1>2, <2>1 DEF HeldInv, Places
  <2>3. SeatHeld'
    BY <1>2, <1>5, <2>1 DEF HeldInv, SeatHeld
  <2>4. Vacant'
    BY <1>5 DEF HeldInv, Vacant, Seat
  <2> QED
    BY <2>2, <2>3, <2>4
<1>7. JoinOnce'
  <2>1. attempts \in Nat /\ attempts' = attempts
    BY AttemptsNat DEF Lapse, Expire, storedVars
  <2> QED
    BY <1>2, <1>5, <2>1, QuietHeld
<1>8. Asks'
  <2>0. PICK w : w = client["b"].ws
    OBVIOUS
  <2>1. SUFFICES ASSUME Asking(client["b"])
                 PROVE  w # 0 /\ conns'[w].served /\ client["b"].view = NoView /\ AsksOn(w)'
    BY <1>1, <2>0 DEF Asks
  <2>2. w # 0 /\ conns[w].served /\ client["b"].view = NoView /\ AsksOn(w)
    BY <2>0, <2>1 DEF HeldInv, Asks
  <2>3. w \in DOMAIN conns /\ conns[w].by = "b"
    BY <2>0, <2>2 DEF RelayInv, Sockets, Seat
  <2>4. attached["a"] # w
    BY <2>2, <2>3 DEF HeldInv, Places, Seat
  <2>5. CASE conns[w].down # <<>> /\ conns[w].down[1].type \in {"seat", "gone"}
    BY <1>1, <1>2, <2>2, <2>3, <2>5 DEF Alike, Grows, AsksOn
  <2>6. CASE /\ attached["b"] # w /\ conns[w].down = <<>>
             /\ conns[w].up # <<>> /\ conns[w].up[1].type = "join"
    <3>1. conns'[w].down = <<>> /\ attached'["b"] # w
      BY <1>2, <1>3, <2>2, <2>3, <2>4, <2>6 DEF Seat
    <3> QED
      BY <1>2, <2>2, <2>3, <2>6, <3>1 DEF AsksOn
  <2> QED
    BY <2>2, <2>5, <2>6 DEF AsksOn
<1> QED
  BY <1>6, <1>7, <1>8 DEF HeldInv

\* What most steps of an app have in common: no new join is sent, and whoever
\* still asks to join waits as before.
NoNewJoin ==
  \A k \in DOMAIN conns' : \A i \in DOMAIN conns'[k].up :
    conns'[k].up[i].type = "join" => /\ k \in DOMAIN conns /\ i \in DOMAIN conns[k].up
                                     /\ conns'[k].up[i] = conns[k].up[i]
StillAsks ==
  Asking(client'["b"]) => /\ Asking(client["b"])
                          /\ client'["b"].ws = client["b"].ws
                          /\ client'["b"].view = client["b"].view
                          /\ conns'[client["b"].ws] = conns[client["b"].ws]

LEMMA SocketsHeld ==
  ASSUME RelayInv, HeldInv, SocketsOnly
  PROVE  Places' /\ SeatHeld' /\ Vacant'
<1>1. \A t \in Seat : attached'[t] # 0 => attached'[t] = attached[t] /\ attached[t] \in DOMAIN conns
  BY Attached DEF SocketsOnly
<1> QED
  BY <1>1 DEF SocketsOnly, HeldInv, Places, SeatHeld, Vacant

LEMMA StillHeld ==
  ASSUME RelayInv, HeldInv, SocketsOnly, NoNewJoin, StillAsks, UNCHANGED attempts
  PROVE  HeldInv'
<1>1. JoinOnce'
  BY AttemptsNat, QuietHeld DEF SocketsOnly, NoNewJoin
<1>2. Asks'
  <2>0. PICK w : w = client["b"].ws
    OBVIOUS
  <2>1. SUFFICES ASSUME Asking(client'["b"])
                 PROVE  /\ client'["b"].ws # 0 /\ conns'[client'["b"].ws].served
                        /\ client'["b"].view = NoView /\ AsksOn(client["b"].ws)'
    BY DEF Asks, AsksOn, StillAsks
  <2>2. /\ w # 0 /\ conns[w].served /\ client["b"].view = NoView /\ AsksOn(w)
        /\ client'["b"].ws = w /\ client'["b"].view = NoView /\ conns'[w] = conns[w]
    BY <2>0, <2>1 DEF HeldInv, Asks, StillAsks
  <2> QED
    BY <2>0, <2>2 DEF AsksOn, SocketsOnly
<1> QED
  BY <1>1, <1>2, SocketsHeld DEF HeldInv

LEMMA ConnectHeld ==
  ASSUME RelayInv, HeldInv, NEW t \in Seat, NEW c, NEW msg, Connect(t, msg),
         c.ws = Len(conns) + 1, client' = [client EXCEPT ![t] = c],
         msg.type # "join", t = "b" => ~Asking(c), UNCHANGED <<serverVars, attempts>>
  PROVE  HeldInv'
<1>0. PICK n : n = Len(conns) + 1
  OBVIOUS
<1>1. SocketsOnly
  BY ConnectSeats
<1>2. /\ DOMAIN conns' = DOMAIN conns \cup {n}
      /\ \A i \in DOMAIN conns : /\ conns'[i].up = conns[i].up
                                 /\ conns[i].by # t => conns'[i] = conns[i]
  BY <1>0, ConnectFacts
<1>3. NoNewJoin
  <2>1. \A i \in DOMAIN conns'[n].up : conns'[n].up[i] = msg
    BY <1>0, ConnectSends
  <2> QED
    BY <1>2, <2>1 DEF NoNewJoin
<1>4. StillAsks
  <2>1. client'[t] = c /\ \A s \in Seat : s # t => client'[s] = client[s]
    BY ClientFields
  <2>2. CASE t = "b"
    BY <2>1, <2>2 DEF StillAsks
  <2>3. CASE t # "b"
    <3>1. client'["b"] = client["b"] /\ "b" \in Seat
      BY <2>1, <2>3 DEF Seat
    <3>2. Asking(client["b"]) => /\ client["b"].ws \in DOMAIN conns
                                 /\ conns[client["b"].ws].by = "b"
      BY <3>1 DEF HeldInv, Asks, RelayInv, Sockets
    <3> QED
      BY <1>2, <2>3, <3>1, <3>2 DEF StillAsks
  <2> QED
    BY <2>2, <2>3
<1> QED
  BY <1>1, <1>3, <1>4, StillHeld

LEMMA HangUpHeld ==
  ASSUME RelayInv, HeldInv, NEW s \in Seat, NEW c, conns' = HungUp(client[s].ws),
         client' = [client EXCEPT ![s] = c], SocketsOnly,
         s = "b" => ~Asking(c), UNCHANGED attempts
  PROVE  HeldInv'
<1>1. /\ DOMAIN conns' = DOMAIN conns
      /\ \A i \in DOMAIN conns : /\ conns'[i].up = conns[i].up
                                 /\ conns[i].by # s => conns'[i] = conns[i]
  BY HungUpKeeps, LenProperties DEF RelayInv, Types
<1>2. NoNewJoin
  BY <1>1 DEF NoNewJoin
<1>3. StillAsks
  <2>1. client'[s] = c /\ \A t \in Seat : t # s => client'[t] = client[t]
    BY ClientFields
  <2>2. CASE s = "b"
    BY <2>1, <2>2 DEF StillAsks
  <2>3. CASE s # "b"
    <3>1. client'["b"] = client["b"] /\ "b" \in Seat
      BY <2>1, <2>3 DEF Seat
    <3>2. Asking(client["b"]) => /\ client["b"].ws \in DOMAIN conns
                                 /\ conns[client["b"].ws].by = "b"
      BY <3>1 DEF HeldInv, Asks, RelayInv, Sockets
    <3> QED
      BY <1>1, <2>3, <3>1, <3>2 DEF StillAsks
  <2> QED
    BY <2>2, <2>3
<1> QED
  BY <1>2, <1>3, StillHeld

\* One message more or less on the app's own socket.
LEMMA OwnHeld ==
  ASSUME RelayInv, HeldInv, NEW s \in Seat, SocketsOnly, UNCHANGED attempts,
         \A t \in Seat : t # s => client'[t] = client[t],
         DOMAIN conns' = DOMAIN conns,
         \A i \in DOMAIN conns : i # client[s].ws => conns'[i] = conns[i],
         client[s].ws # 0 =>
           \A i \in DOMAIN conns'[client[s].ws].up :
             conns'[client[s].ws].up[i].type = "join" =>
               /\ i \in DOMAIN conns[client[s].ws].up
               /\ conns'[client[s].ws].up[i] = conns[client[s].ws].up[i],
         s = "b" => StillAsks
  PROVE  HeldInv'
<1>1. client[s].ws # 0 => client[s].ws \in DOMAIN conns /\ conns[client[s].ws].by = s
  BY DEF RelayInv, Sockets
<1>2. 0 \notin DOMAIN conns
  BY LenProperties DEF RelayInv, Types
<1>3. NoNewJoin
  BY <1>1, <1>2 DEF NoNewJoin
<1>4. StillAsks
  <2>1. CASE s # "b"
    <3>1. client'["b"] = client["b"] /\ "b" \in Seat
      BY <2>1 DEF Seat
    <3>2. Asking(client["b"]) => /\ client["b"].ws \in DOMAIN conns
                                 /\ conns[client["b"].ws].by = "b"
      BY <3>1 DEF HeldInv, Asks, RelayInv, Sockets
    <3> QED
      BY <1>1, <1>2, <2>1, <3>1, <3>2 DEF StillAsks
  <2> QED
    BY <2>1
<1> QED
  BY <1>3, <1>4, StillHeld

LEMMA ReachesHeld ==
  ASSUME ~LostReplies, RelayInv, HeldInv, NEW s \in Seat,
         BeginCreate \/ BeginResume(s) \/ Reconnect(s) \/ RetryConnect(s)
  PROVE  HeldInv'
<1>1. client[s] \in App /\ "a" \in Seat /\ \A c : Begun(c).ws = Len(conns) + 1
  BY ClientFields DEF Begun, Seat
<1>2. CASE BeginCreate
  <2> DEFINE c == Begun([Off EXCEPT !.initial = "create"])
  <2>1. c.initial = "create" /\ ~c.token
    BY DEF Begun, Off
  <2>2. c.ws = Len(conns) + 1
    BY <1>1
  <2> HIDE DEF c
  <2>3. Connect("a", Handshake(c)) /\ client' = [client EXCEPT !["a"] = c]
        /\ UNCHANGED <<serverVars, attempts>>
    BY <1>2 DEF BeginCreate, c, storedVars
  <2>4. Handshake(c).type # "join"
    BY <2>1 DEF Handshake, Up
  <2> QED
    BY <1>1, <2>2, <2>3, <2>4, ConnectHeld
<1>3. CASE BeginResume(s)
  <2> DEFINE c == Begun([Off EXCEPT !.initial = "resume", !.token = TRUE])
  <2>1. c.token /\ ~Asking(c)
    BY DEF Begun, Off, Asking
  <2>2. c.ws = Len(conns) + 1
    BY <1>1
  <2> HIDE DEF c
  <2>3. Connect(s, Handshake(c)) /\ client' = [client EXCEPT ![s] = c]
        /\ UNCHANGED <<serverVars, attempts>>
    BY <1>3 DEF BeginResume, c, storedVars
  <2>4. Handshake(c).type # "join"
    BY <2>1 DEF Handshake, Up
  <2> QED
    BY <2>1, <2>2, <2>3, <2>4, ConnectHeld
<1>4. CASE Reconnect(s) \/ RetryConnect(s)
  <2>1. /\ Reconnect(s) /\ client[s].ws = 0
        /\ Connect(s, Handshake(client[s])) /\ UNCHANGED <<serverVars, attempts>>
        /\ client' = [client EXCEPT ![s] = Begun(client[s])]
    BY <1>1, <1>4, ClientFields DEF Reconnect, RetryConnect, Retrying, storedVars
  <2>2. ~Asking(client[s])
    <3>1. s = "a" => client[s].initial # "join"
      BY DEF RelayInv, Greetings
    <3>2. s = "b" => ~Asking(client[s])
      BY <2>1 DEF HeldInv, Asks
    <3> QED
      BY <3>1, <3>2 DEF Asking, Seat
  <2>3. Handshake(client[s]).type # "join"
    BY <2>2 DEF Handshake, Up, Asking
  <2>4. Begun(client[s]).initial = client[s].initial /\ Begun(client[s]).token = client[s].token
    BY <1>1 DEF Begun, App
  <2>5. ~Asking(Begun(client[s]))
    BY <2>2, <2>4 DEF Asking
  <2>6. Begun(client[s]).ws = Len(conns) + 1
    BY <1>1
  <2> QED
    BY <2>1, <2>3, <2>5, <2>6, ConnectHeld
<1> QED
  BY <1>2, <1>3, <1>4

\* A new join carries a nonce nobody used before.
LEMMA BeginJoinHeld ==
  ASSUME RelayInv, HeldInv, BeginJoin
  PROVE  HeldInv'
<1> DEFINE c == Begun([Off EXCEPT !.initial = "join", !.nonce = attempts + 1])
           msg == Handshake(c)
<1>0. PICK n : n = Len(conns) + 1
  OBVIOUS
<1>1. c.initial = "join" /\ ~c.token /\ c.nonce = attempts + 1 /\ c.view = NoView
  BY DEF Begun, Off
<1>2. c.ws = n
  BY <1>0 DEF Begun
<1> HIDE DEF c
<1>3. msg.type = "join" /\ msg.nonce = attempts + 1
  BY <1>1 DEF Handshake, Up
<1> HIDE DEF msg
<1>4. /\ Connect("b", msg) /\ client' = [client EXCEPT !["b"] = c]
      /\ attempts' = attempts + 1 /\ attempts \in Nat /\ UNCHANGED serverVars /\ "b" \in Seat
  BY AttemptsNat DEF BeginJoin, c, msg, Seat
<1>5. /\ DOMAIN conns' = DOMAIN conns \cup {n} /\ n \notin DOMAIN conns /\ n \in Nat \ {0}
      /\ \A i \in DOMAIN conns : conns'[i].up = conns[i].up
  BY <1>0, <1>4, ConnectFacts
<1>6. /\ conns'[n].up # <<>> /\ conns'[n].up[1] = msg
      /\ \A i \in DOMAIN conns'[n].up : i = 1 /\ conns'[n].up[i] = msg
      /\ conns'[n].down = <<>> /\ conns'[n].served
  BY <1>0, <1>4, ConnectSends
<1>7. UNCHANGED <<session, attached>>
  BY <1>4 DEF serverVars
<1>8. ASSUME NEW k \in DOMAIN conns', NEW i \in DOMAIN conns'[k].up,
             conns'[k].up[i].type = "join"
      PROVE  \/ /\ k = n /\ i = 1 /\ conns'[k].up[i].nonce = attempts + 1
             \/ /\ k \in DOMAIN conns /\ i \in DOMAIN conns[k].up /\ k # n
                /\ conns'[k].up[i] = conns[k].up[i] /\ i = 1
                /\ conns[k].up[i].nonce \in Nat /\ conns[k].up[i].nonce <= attempts
                /\ session # NoSession => session.joiner # conns[k].up[i].nonce
                /\ Joins(k, i)
  <2>1. CASE k = n
    BY <1>3, <1>6, <1>8, <2>1
  <2>2. CASE k # n
    <3>1. k \in DOMAIN conns /\ conns'[k].up = conns[k].up
      BY <1>5, <2>2
    <3>2. Joins(k, i) /\ i \in DOMAIN conns[k].up
      BY <1>8, <3>1 DEF Joins
    <3>3. conns[k].up[i].nonce \in Nat
      BY <3>1, <3>2, WaitingNonce
    <3> QED
      BY <2>2, <3>1, <3>2, <3>3 DEF HeldInv, JoinOnce
  <2> QED
    BY <2>1, <2>2
<1>9. session # NoSession => session.joiner \in Nat /\ session.joiner <= attempts
  <2>1. session # NoSession => session.joiner \in Nonce \cup {0}
    BY DEF RelayInv, SessionInv, SessionTypeOK, Session
  <2> QED
    BY <2>1, NonceNat DEF HeldInv, JoinOnce
<1>10. JoinOnce'
  <2>1. session' # NoSession => session'.joiner <= attempts'
    BY <1>4, <1>7, <1>9
  <2>2. ASSUME NEW k \in DOMAIN conns', NEW i \in DOMAIN conns'[k].up,
               conns'[k].up[i].type = "join"
        PROVE  /\ i = 1 /\ conns'[k].up[i].nonce <= attempts'
               /\ session' # NoSession => session'.joiner # conns'[k].up[i].nonce
    BY <1>4, <1>7, <1>8, <1>9, <2>2
  <2>3. ASSUME NEW k \in DOMAIN conns', NEW l \in DOMAIN conns',
               NEW i \in DOMAIN conns'[k].up, NEW j \in DOMAIN conns'[l].up,
               conns'[k].up[i].type = "join", conns'[l].up[j].type = "join",
               conns'[k].up[i].nonce = conns'[l].up[j].nonce
        PROVE  k = l
    <3>1. CASE k = n \/ l = n
      BY <1>4, <1>8, <2>3, <3>1
    <3>2. CASE k # n /\ l # n
      BY <1>8, <2>3, <3>2 DEF HeldInv, JoinOnce
    <3> QED
      BY <3>1, <3>2
  <2> QED
    BY <2>1, <2>2, <2>3 DEF JoinOnce, Joins
<1>11. Asks'
  <2>1. client'["b"] = c
    BY <1>4, ClientFields
  <2>2. attached'["b"] # n
    BY <1>0, <1>4, <1>7 DEF RelayInv, Types
  <2> QED
    BY <1>1, <1>2, <1>3, <1>5, <1>6, <2>1, <2>2 DEF Asks, AsksOn
<1>12. SocketsOnly
  BY <1>0, <1>2, <1>4, ConnectSeats
<1> QED
  BY <1>10, <1>11, <1>12, SocketsHeld DEF HeldInv

\* An app that gave up its seat, or lost its socket, no longer asks.
LEMMA HangsUpHeld ==
  ASSUME ~LostReplies, RelayInv, HeldInv, NEW s \in Seat, Break(s) \/ Quit(s) \/ Reset(s)
  PROVE  HeldInv'
<1>1. SocketsOnly /\ client[s] \in App /\ ~Asking(Off)
  BY AppSeats, ClientFields DEF AppStep, Asking, Off
<1>2. CASE Quit(s) \/ Reset(s)
  <2>1. /\ conns' = HungUp(client[s].ws) /\ client' = [client EXCEPT ![s] = Off]
        /\ UNCHANGED attempts
    BY <1>2 DEF Quit, Reset
  <2> QED
    BY <1>1, <2>1, HangUpHeld
<1>3. CASE Break(s)
  <2> DEFINE c == [client[s] EXCEPT !.ws = 0]
  <2>1. /\ conns' = HungUp(client[s].ws) /\ client' = [client EXCEPT ![s] = c]
        /\ UNCHANGED attempts
    BY <1>1, <1>3 DEF Break, App, storedVars
  <2>2. c.initial = client[s].initial /\ c.token = client[s].token
    BY <1>1 DEF App
  <2> HIDE DEF c
  <2>3. s = "b" => ~Asking(client[s])
    BY <1>3 DEF Break, HeldInv, Asks
  <2>4. s = "b" => ~Asking(c)
    BY <2>2, <2>3 DEF Asking
  <2> QED
    BY <1>1, <2>1, <2>4, HangUpHeld
<1> QED
  BY <1>2, <1>3

\* A button is pressed by somebody who is in the trade already.
LEMMA PressHeld ==
  ASSUME RelayInv, HeldInv, NEW s \in Seat, NEW msg, msg.type \in DOMAIN Allowed, msg \in Request,
         Press(s, msg), SocketsOnly, NEW c, client' = [client EXCEPT ![s] = c],
         c.initial = client[s].initial, c.token = client[s].token
  PROVE  HeldInv'
<1> DEFINE k == client[s].ws
<1>1. /\ k \in DOMAIN conns /\ conns \in [DOMAIN conns -> Conn] /\ conns[k].up \in Seq(Request)
      /\ conns[k] \in Conn
  BY ConnFields, ClientFields, LenProperties DEF Press, OnBoard, RelayInv, Sockets
<1>2. conns' = [conns EXCEPT ![k].up = Append(conns[k].up, msg)] /\ UNCHANGED attempts
  BY <1>1 DEF Press
<1>3. client'[s] = c /\ \A t \in Seat : t # s => client'[t] = client[t]
  BY ClientFields
<1> HIDE DEF k
<1>4. /\ DOMAIN conns' = DOMAIN conns
      /\ \A i \in DOMAIN conns : i # k => conns'[i] = conns[i]
      /\ conns'[k].up = Append(conns[k].up, msg)
  BY <1>1, <1>2 DEF Conn
<1>5. \A i \in DOMAIN conns'[k].up :
        conns'[k].up[i].type = "join" =>
          i \in DOMAIN conns[k].up /\ conns'[k].up[i] = conns[k].up[i]
  <2>1. /\ DOMAIN Append(conns[k].up, msg) = DOMAIN conns[k].up \cup {Len(conns[k].up) + 1}
        /\ \A j \in DOMAIN conns[k].up : Append(conns[k].up, msg)[j] = conns[k].up[j]
        /\ Append(conns[k].up, msg)[Len(conns[k].up) + 1] = msg
    BY <1>1, Appended
  <2>2. msg.type # "join"
    BY DEF Allowed
  <2> QED
    BY <1>4, <2>1, <2>2
<1>6. s = "b" => ~Asking(client["b"])
  BY DEF Press, OnBoard, HeldInv, Asks, NoView, PreComplete
<1>7. s = "b" => StillAsks
  BY <1>3, <1>6 DEF StillAsks, Asking
<1> QED
  BY <1>2, <1>3, <1>4, <1>5, <1>7, OwnHeld DEF k

\* The first thing an app that asked to join is told takes it out of asking.
LEMMA ReceiveHeld ==
  ASSUME RelayInv, HeldInv, NEW s \in Seat, ClientReceive(s)
  PROVE  HeldInv'
<1> DEFINE k == client[s].ws
           msg == Head(conns[k].down)
           c == IF msg.type = "seat" THEN [client[s] EXCEPT !.token = TRUE, !.applied = FALSE]
                                     ELSE client[s]
           d == Shown(c, msg.snap)
<1>1. /\ k \in DOMAIN conns /\ conns \in [DOMAIN conns -> Conn] /\ conns[k].down \in Seq(Answer)
      /\ conns[k] \in Conn /\ conns[k].down # <<>> /\ client[s] \in App /\ k # 0
      /\ UNCHANGED attempts
  BY ConnFields, ClientFields, LenProperties DEF ClientReceive, RelayInv, Sockets
<1>2. SocketsOnly
  BY AppSeats DEF AppStep
<1>3. CASE conns' = HungUp(k) /\ client' = [client EXCEPT ![s] = Off]
  <2>1. ~Asking(Off)
    BY DEF Asking, Off
  <2> QED
    BY <1>1, <1>2, <1>3, <2>1, HangUpHeld
<1>4. CASE /\ msg.type \in {"seat", "sync"}
           /\ conns' = [conns EXCEPT ![k].down = Tail(@)]
           /\ client' = [client EXCEPT ![s] = d]
  <2>1. /\ c \in App /\ c.initial = client[s].initial
        /\ c.token = (client[s].token \/ msg.type = "seat")
    BY <1>1 DEF App
  <2>2. msg = conns[k].down[1]
    BY <1>1
  <2> HIDE DEF c, msg
  <2>3. d.initial = client[s].initial /\ d.token = (client[s].token \/ msg.type = "seat")
    BY <2>1 DEF Shown, App
  <2> HIDE DEF d, k
  <2>4. client'[s] = d /\ \A t \in Seat : t # s => client'[t] = client[t]
    BY <1>4, ClientFields
  <2>5. /\ DOMAIN conns' = DOMAIN conns
        /\ \A i \in DOMAIN conns : i # k => conns'[i] = conns[i]
        /\ conns'[k].up = conns[k].up
    BY <1>1, <1>4 DEF Conn
  <2>6. s = "b" => ~Asking(d)
    <3>1. SUFFICES ASSUME s = "b", Asking(client["b"]) PROVE msg.type = "seat"
      BY <2>3 DEF Asking
    <3>2. AsksOn(k)
      BY <3>1 DEF HeldInv, Asks, k
    <3> QED
      BY <1>1, <1>4, <2>2, <3>2 DEF AsksOn
  <2>7. s = "b" => StillAsks
    BY <2>4, <2>6 DEF StillAsks
  <2> QED
    BY <1>1, <1>2, <2>4, <2>5, <2>7, OwnHeld DEF k
<1> QED
  BY <1>3, <1>4 DEF ClientReceive

LEMMA WritesHeld ==
  ASSUME RelayInv, HeldInv, NEW s \in Seat, Commit(s) \/ Fail(s) \/ RetryApply(s)
  PROVE  HeldInv'
<1>1. SocketsOnly /\ client[s] \in App /\ client \in [Seat -> App] /\ ~Asking(Off)
      /\ UNCHANGED attempts
  BY AppSeats, ClientFields DEF AppStep, Asking, Off, Commit, Fail, RetryApply
<1>2. CASE UNCHANGED <<conns, client>>
  BY <1>1, <1>2, StillHeld DEF NoNewJoin, StillAsks
<1>3. CASE conns' = HungUp(client[s].ws) /\ client' = [client EXCEPT ![s] = Off]
  BY <1>1, <1>3, HangUpHeld
<1>4. CASE Fail(s) \/ RetryApply(s)
  <2>1. PICK v : client' = [client EXCEPT ![s].failed = v]
    BY <1>4 DEF Fail, RetryApply
  <2>2. \A t \in Seat : /\ client'[t].ws = client[t].ws /\ client'[t].view = client[t].view
                        /\ client'[t].initial = client[t].initial
                        /\ client'[t].token = client[t].token
    BY <1>1, <2>1 DEF App
  <2>3. conns' = conns /\ "b" \in Seat
    BY <1>4 DEF Fail, RetryApply, Seat
  <2> QED
    BY <1>1, <2>2, <2>3, StillHeld DEF NoNewJoin, StillAsks, Asking
<1> QED
  BY <1>2, <1>3, <1>4 DEF Commit

LEMMA AppHeld ==
  ASSUME ~LostReplies, RelayInv, HeldInv, NEW s \in Seat, AppStep(s)
  PROVE  HeldInv'
<1>1. ASSUME Presses(s) PROVE HeldInv'
  <2>1. PICK msg \in Request, c \in App :
          /\ msg.type \in DOMAIN Allowed /\ Press(s, msg) /\ client' = [client EXCEPT ![s] = c]
          /\ c.ws = client[s].ws /\ c.initial = client[s].initial /\ c.token = client[s].token
          /\ c.nonce = client[s].nonce /\ c.failed = client[s].failed
    BY <1>1, PressParts
  <2> QED
    BY <2>1, AppSeats, PressHeld
<1> QED
  BY <1>1, ReachesHeld, HangsUpHeld, ReceiveHeld, WritesHeld DEF AppStep, Presses

LEMMA HeldInit == Init => HeldInv
<1>1. ASSUME Init PROVE HeldInv
  <2>1. session = NoSession /\ DOMAIN conns = {} /\ (\A s \in Seat : attached[s] = 0)
        /\ client["b"].initial = "none"
    BY <1>1 DEF Init, SessionInit, Off, Seat
  <2> QED
    BY <2>1 DEF HeldInv, SeatHeld, Places, Vacant, JoinOnce, Asks, Asking
<1> QED
  BY <1>1

LEMMA HeldNext ==
  ASSUME ~LostReplies, RelayInv, RelayInv', HeldInv, [Next]_vars
  PROVE  HeldInv'
<1>1. "a" \in Seat
  BY DEF Seat
<1>2. CASE BeginCreate \/ BeginJoin
  BY <1>1, <1>2, ReachesHeld, BeginJoinHeld
<1>3. ASSUME NEW s \in Seat, AppStep(s) \/ Lapse(s) PROVE HeldInv'
  BY <1>3, AppHeld, TimersHeld
<1>4. ASSUME NEW k \in DOMAIN conns, RelayStep(k) PROVE HeldInv'
  BY <1>4, HandleHeld, CloseHeld DEF RelayStep
<1>5. CASE Expire
  BY <1>1, <1>5, TimersHeld
<1>6. CASE UNCHANGED vars
  BY <1>6 DEF vars, HeldInv, SeatHeld, Places, Vacant, JoinOnce, Joins, Asks, Asking, AsksOn
<1> QED
  BY <1>2, <1>3, <1>4, <1>5, <1>6 DEF Next

\* While no answer to a handshake is lost, a seat with a live socket counts as
\* present and no disconnect window runs for it, however sockets break, are
\* replaced and are heard out of order (attachPeer and dropPeer of relay.ts).
THEOREM RelaySeatHeld == ASSUME ~LostReplies PROVE Spec => []SeatHeld
<1>1. HeldInv => SeatHeld
  BY DEF HeldInv
<1>2. RelayInv /\ RelayInv' /\ HeldInv /\ [Next]_vars => HeldInv'
  BY HeldNext
<1> QED
  BY <1>1, <1>2, HeldInit, RelayInvariant, PTL DEF Spec

-----------------------------------------------------------------------------
(***************************************************************************)
(* A sealed deal is not forgotten unwritten, as long as nothing is called  *)
(* off or removed, nobody enters the code a second time, and "New trade"   *)
(* waits for the write. Each of these is needed: README, section 5.        *)
(***************************************************************************)
Steady ==
  /\ ~Timers /\ ~Impatient /\ MaxPresses["cancel"] = 0
  /\ \A m, n \in Nonce : m = n

\* What survives of the trade in an app whose tab is closed.
Stored(s) == persisted[s] \/ recorded[s] # <<>>

\* A live socket is bound, or its handshake still waits to be handled; nobody
\* calls the trade off or hears that it is gone; who asks for the seat again,
\* or accepts, has the trade stored, and so has who is told about it, unless
\* the first news is the seat itself; and without a session nothing happened.
Introduced(k) == conns[k].down # <<>> /\ conns[k].down[1].type = "seat"
Calm(k) ==
  /\ conns[k].open /\ conns[k].served =>
       \/ conns[k].bound
       \/ conns[k].up # <<>> /\ conns[k].up[1].type \in Greeting
  /\ \A i \in DOMAIN conns[k].up :
       /\ conns[k].up[i].type # "cancel"
       /\ conns[k].up[i].type \in {"resume", "accept"} => Stored(conns[k].by)
  /\ \A i \in DOMAIN conns[k].down :
       conns[k].down[i].type # "gone" /\ conns[k].down[i].snap.state # "cancelled"
  /\ conns[k].open /\ (conns[k].down # <<>> \/ \E t \in Seat : attached[t] = k) =>
       Stored(conns[k].by) \/ Introduced(k)
  /\ ~published => conns[k].by = "a"
  /\ session = NoSession =>
       /\ ~conns[k].bound /\ conns[k].down = <<>>
       /\ \A i \in DOMAIN conns[k].up : conns[k].up[i].type # "resume"

\* An app that has a seat, or anything of the trade on its screen, has it
\* stored; and one that took notice of the completion wrote it, is writing it,
\* or offers to try again.
Fits(s, c) ==
  /\ c.view.state # "cancelled"
  /\ c.token \/ c.view.state # "none" => Stored(s)
  /\ c.ws # 0 => c.initial # "none"
  /\ c.initial = "resume" => c.token
  /\ c.view.state = "completed" => c.applied
  /\ c.applied => /\ c.initial # "none"
                  /\ recorded[s] # <<>> \/ applying[s] # Nothing \/ c.failed # Nothing
  /\ session = NoSession => ~persisted[s] /\ ~c.token

\* Both have a deal stored before it is agreed, and from then on.
Pledged ==
  /\ session = NoSession => ~published
  /\ ~published => ~Active("b") /\ ~persisted["b"]
  /\ session # NoSession => session.state # "cancelled"
  /\ session # NoSession => \A s \in Seat : session.accepted[s] => Stored(s)
  /\ sealed # Nothing => \A s \in Seat : Stored(s)

KeptInv == (\A k \in DOMAIN conns : Calm(k)) /\ (\A s \in Seat : Fits(s, client[s])) /\ Pledged

\* No step forgets what is stored; a step that leaves a socket alone, or hangs
\* it up, leaves it calm.
Lasting == (published => published') /\ \A s \in Seat : Stored(s) => Stored(s)'
Shrunk(k) ==
  /\ k \in DOMAIN conns /\ conns'[k].by = conns[k].by /\ conns'[k].up = conns[k].up
  /\ conns'[k].served = conns[k].served /\ conns'[k].bound = conns[k].bound
  /\ \/ conns'[k].open = conns[k].open /\ conns'[k].down = conns[k].down
     \/ ~conns'[k].open /\ conns'[k].down = <<>>

LEMMA CalmShrunk ==
  ASSUME RelayInv, NEW k, Shrunk(k), Calm(k), Lasting, UNCHANGED <<session, attached>>
  PROVE  Calm(k)'
<1>1. conns[k].by \in Seat
  BY ConnFields DEF RelayInv, Types, Shrunk
<1>0. PICK b : b = conns[k].by
  OBVIOUS
<1>3. Stored(b) => Stored(b)'
  BY <1>0, <1>1 DEF Lasting
<1>4. conns'[k].by = b
  BY <1>0 DEF Shrunk
<1>5. Stored(b)' => Stored(conns[k].by)'
  BY <1>4
<1>6. CASE conns'[k].open = conns[k].open /\ conns'[k].down = conns[k].down
  BY <1>0, <1>3, <1>4, <1>5, <1>6 DEF Calm, Shrunk, Lasting, Introduced
<1>7. CASE ~conns'[k].open /\ conns'[k].down = <<>>
  <2>1. DOMAIN conns'[k].down = {}
    BY <1>7
  <2> QED
    BY <1>0, <1>3, <1>4, <1>5, <1>7, <2>1 DEF Calm, Shrunk, Lasting
<1> QED
  BY <1>6, <1>7 DEF Shrunk

\* Neither is anything called off, nor anybody sent away.
Kind(cs) ==
  \A k \in DOMAIN cs : \A i \in DOMAIN cs[k].down :
    cs[k].down[i].type # "gone" /\ cs[k].down[i].snap.state # "cancelled"

LEMMA SentKind ==
  ASSUME NEW cs \in Seq(Conn), NEW k \in 0..Len(cs), NEW msg \in Answer, Kind(cs),
         msg.type # "gone", msg.snap.state # "cancelled"
  PROVE  Kind(Sent(cs, k, msg))
<1> DEFINE ds == Sent(cs, k, msg)
<1>1. Answered(cs, ds, {k}) /\ (k # 0 => ds[k].down \in {cs[k].down, Append(cs[k].down, msg)})
  BY SentFacts
<1> HIDE DEF ds
<1>2. DOMAIN ds = DOMAIN cs
  BY <1>1, LenProperties DEF Answered
<1>3. ASSUME NEW j \in DOMAIN ds, NEW i \in DOMAIN ds[j].down
      PROVE  ds[j].down[i].type # "gone" /\ ds[j].down[i].snap.state # "cancelled"
  <2>1. CASE ds[j].down = cs[j].down
    BY <1>2, <1>3, <2>1 DEF Kind
  <2>2. CASE ds[j].down # cs[j].down
    <3>1. j = k /\ k # 0 /\ ds[j].down = Append(cs[j].down, msg)
      BY <1>1, <1>2, <2>2, LenProperties DEF Answered
    <3>2. cs[j].down \in Seq(Answer)
      BY <1>2, ConnFields
    <3>3. /\ DOMAIN ds[j].down = DOMAIN cs[j].down \cup {Len(cs[j].down) + 1}
          /\ \A l \in DOMAIN cs[j].down : ds[j].down[l] = cs[j].down[l]
          /\ ds[j].down[Len(cs[j].down) + 1] = msg
      BY <3>1, <3>2, Appended
    <3> QED
      BY <1>2, <1>3, <3>3 DEF Kind
  <2> QED
    BY <2>1, <2>2
<1> QED
  BY <1>3 DEF Kind, ds

LEMMA AnsweredKind ==
  ASSUME NEW cs \in Seq(Conn), NEW ds, Answered(cs, ds, {}), Kind(cs)
  PROVE  Kind(ds)
<1>1. DOMAIN ds = DOMAIN cs /\ \A i \in DOMAIN cs : ds[i].down = cs[i].down
  BY LenProperties DEF Answered
<1> QED
  BY <1>1 DEF Kind

LEMMA BroadcastKind ==
  ASSUME Types, NEW cs \in Seq(Conn), Len(cs) = Len(conns), NEW msg \in Answer, Kind(cs),
         msg.type # "gone", msg.snap.state # "cancelled"
  PROVE  Kind(Broadcast(cs, msg))
<1> DEFINE ds == Sent(cs, attached["a"], msg)
<1>1. attached["a"] \in 0..Len(cs) /\ attached["b"] \in 0..Len(cs)
  BY DEF Types, Seat
<1>2. Alike(cs, ds) /\ Kind(ds)
  BY <1>1, SentAlike, SentKind
<1>3. Broadcast(cs, msg) = Sent(ds, attached["b"], msg)
  BY DEF Broadcast
<1> HIDE DEF ds
<1> QED
  BY <1>1, <1>2, <1>3, SentKind DEF Alike

\* What is true when a message was handled in a steady trade.
First(k) ==
  conns[k].open /\ conns[k].down = <<>> /\ (\A t \in Seat : attached[t] # k) =>
    \/ conns'[k].down = <<>> /\ \A t \in Seat : attached'[t] # k
    \/ conns'[k].down # <<>> /\ conns'[k].down[1].type = "seat"
    \/ Head(conns[k].up).type = "resume"
Binds(k) ==
  /\ conns[k].open => conns'[k].bound
  /\ \A i \in DOMAIN conns : i # k /\ conns[i].open /\ conns[i].bound => conns'[i].bound
Goes(k) ==
  /\ session # NoSession => session' # NoSession
  /\ session' # NoSession => session'.state # "cancelled"
  /\ session' = NoSession => conns' = Popped(k)
  /\ \A t \in Seat : session' # NoSession /\ session'.accepted[t] =>
       \/ session # NoSession /\ session.accepted[t]
       \/ conns[k].by = t /\ Head(conns[k].up).type = "accept"
Told(k) == Kind(conns') /\ First(k) /\ Binds(k) /\ Goes(k)

LEMMA KindNow ==
  ASSUME RelayInv, KeptInv, NEW k \in DOMAIN conns, Handle(k)
  PROVE  /\ Types /\ SessionInv /\ conns \in Seq(Conn) /\ conns[k].served /\ conns[k].up # <<>>
         /\ conns[k].by \in Seat /\ k # 0 /\ Kind(Popped(k)) /\ Popped(k) \in Seq(Conn)
         /\ Len(Popped(k)) = Len(conns) /\ DOMAIN Popped(k) = DOMAIN conns /\ k \in 0..Len(conns)
         /\ \A i \in DOMAIN conns :
              /\ Popped(k)[i].by = conns[i].by /\ Popped(k)[i].down = conns[i].down
              /\ Popped(k)[i].open = conns[i].open /\ Popped(k)[i].served = conns[i].served
              /\ Popped(k)[i].bound = conns[i].bound
         /\ Head(conns[k].up) = conns[k].up[1] /\ 1 \in DOMAIN conns[k].up
         /\ Head(conns[k].up) \in Request
         /\ Calm(k) /\ Greets(k, 1)
<1>1. Types /\ SessionInv /\ conns \in Seq(Conn) /\ conns[k].served /\ conns[k].up # <<>>
  BY DEF RelayInv, Types, Handle
<1>2. conns[k].by \in Seat /\ k \in 0..Len(conns) /\ k # 0 /\ DOMAIN conns = 1..Len(conns)
  BY <1>1, ConnFields, LenProperties
<1>3. /\ Head(conns[k].up) \in Request /\ Head(conns[k].up) = conns[k].up[1]
      /\ 1 \in DOMAIN conns[k].up
      /\ Popped(k) \in Seq(Conn) /\ Len(Popped(k)) = Len(conns)
      /\ \A i \in DOMAIN conns :
           /\ Popped(k)[i].by = conns[i].by /\ Popped(k)[i].down = conns[i].down
           /\ Popped(k)[i].open = conns[i].open /\ Popped(k)[i].served = conns[i].served
           /\ Popped(k)[i].bound = conns[i].bound
  BY <1>1, PoppedFacts
<1>4. DOMAIN Popped(k) = DOMAIN conns
  BY <1>1, <1>3, LenProperties
<1>5. Kind(Popped(k))
  BY <1>3, <1>4 DEF Kind, KeptInv, Calm
<1>6. Calm(k) /\ Greets(k, 1)
  BY <1>3 DEF KeptInv, RelayInv, Greetings
<1> QED
  BY <1>1, <1>2, <1>3, <1>4, <1>5, <1>6

LEMMA IdleTold ==
  ASSUME RelayInv, KeptInv, NEW k \in DOMAIN conns, Handle(k),
         conns' = Popped(k), UNCHANGED <<session, attached>>, conns[k].open => conns[k].bound
  PROVE  Told(k)
<1>1. /\ Kind(Popped(k)) /\ \A i \in DOMAIN conns : /\ Popped(k)[i].down = conns[i].down
                                                   /\ Popped(k)[i].bound = conns[i].bound
  BY KindNow
<1>2. First(k) /\ Binds(k)
  BY <1>1 DEF First, Binds
<1>3. Goes(k)
  BY DEF Goes, KeptInv, Pledged
<1> QED
  BY <1>1, <1>2, <1>3 DEF Told

LEMMA CreateTold ==
  ASSUME RelayInv, KeptInv, NEW k \in DOMAIN conns, Handle(k), Head(conns[k].up).type = "create"
  PROVE  Told(k)
<1> DEFINE cs == Popped(k)
           us == [i \in DOMAIN cs |-> [cs[i] EXCEPT !.bound = FALSE]]
           bs == Bind(us, k)
<1>1. /\ conns[k].served /\ k # 0 /\ Kind(cs) /\ cs \in Seq(Conn)
      /\ Len(cs) = Len(conns) /\ DOMAIN cs = DOMAIN conns /\ k \in 0..Len(conns)
      /\ cs[k].down = conns[k].down /\ cs[k].open = conns[k].open /\ cs[k].served = conns[k].served
  BY KindNow
<1>2. conns[k].by = "a" /\ (conns[k].open => ~published)
  BY KindNow DEF Greets
<1>3. HandleCreate(k, cs)
  BY DEF Handle, Popped
<1>4. CASE ~conns[k].open
  <2>1. conns' = cs /\ UNCHANGED <<session, attached>>
    BY <1>3, <1>4 DEF HandleCreate
  <2> QED
    BY <1>4, <2>1, IdleTold
<1>5. CASE conns[k].open
  <2>1. session' = Fresh /\ conns' = Sent(bs, k, SeatMsg(Fresh))
    BY <1>3, <1>5 DEF HandleCreate, Create
  <2>2. Answered(cs, us, {})
    BY <1>1, UnboundFacts
  <2> HIDE DEF us
  <2>3. us \in Seq(Conn) /\ Len(us) = Len(cs) /\ DOMAIN us = DOMAIN cs /\ Kind(us)
    BY <1>1, <2>2, AnsweredKind, LenProperties DEF Answered
  <2>4. Answered(us, bs, {}) /\ bs[k].bound
    BY <1>1, <2>3, BindFacts
  <2> HIDE DEF bs
  <2>5. bs \in Seq(Conn) /\ Len(bs) = Len(conns) /\ Kind(bs) /\ k \in DOMAIN bs
    BY <1>1, <2>3, <2>4, AnsweredKind, LenProperties DEF Answered
  <2>6. bs[k].down = conns[k].down /\ bs[k].open /\ bs[k].served
    BY <1>1, <1>5, <2>2, <2>3, <2>4 DEF Answered
  <2>7. /\ SeatMsg(Fresh) \in Answer /\ SeatMsg(Fresh).type = "seat"
        /\ SeatMsg(Fresh).snap.state = "open"
    BY FreshIsSession, SnapshotType DEF SeatMsg, Fresh
  <2>8. Kind(conns')
    BY <1>1, <2>1, <2>5, <2>7, SentKind
  <2>9. /\ Alike(bs, conns')
        /\ conns[k].down = <<>> => conns'[k].down # <<>> /\ conns'[k].down[1] = SeatMsg(Fresh)
    BY <1>1, <2>1, <2>5, <2>6, <2>7, SentAlike
  <2>10. First(k)
    BY <2>7, <2>9 DEF First
  <2>11. Binds(k)
    <3>1. ASSUME NEW i \in DOMAIN conns, i # k, conns[i].open PROVE FALSE
      <4>1. conns[i].by = "a"
        BY <1>2, <1>5, <3>1 DEF KeptInv, Calm
      <4> QED
        BY <1>2, <1>5, <3>1, <4>1 DEF RelayInv, Sockets
    <3> QED
      BY <2>4, <2>5, <2>9, <3>1 DEF Binds, Alike, SameBound
  <2>12. Goes(k)
    BY <2>1, FreshIsSession, NoSessionAssumption DEF Goes, Fresh, Nobody
  <2> QED
    BY <2>8, <2>10, <2>11, <2>12 DEF Told
<1> QED
  BY <1>4, <1>5

LEMMA JoinTold ==
  ASSUME Steady, RelayInv, KeptInv, NEW k \in DOMAIN conns, Handle(k),
         Head(conns[k].up).type = "join"
  PROVE  Told(k)
<1> DEFINE cs == Popped(k)
           n == Head(conns[k].up).nonce
           bs == Bind(cs, k)
           es == Sent(bs, k, SeatMsg(session'))
<1>1. /\ conns[k].served /\ k # 0 /\ Kind(cs) /\ cs \in Seq(Conn) /\ Types /\ SessionInv
      /\ Len(cs) = Len(conns) /\ DOMAIN cs = DOMAIN conns /\ k \in 0..Len(conns)
      /\ cs[k].down = conns[k].down /\ cs[k].open = conns[k].open /\ cs[k].served = conns[k].served
      /\ \A i \in DOMAIN conns : cs[i].bound = conns[i].bound
  BY KindNow
<1>2. conns[k].by = "b" /\ published /\ n \in Nonce
  <2>1. Head(conns[k].up) \in Request
    BY KindNow
  <2> QED
    BY <2>1, KindNow DEF Greets, Request
<1>3. HandleJoin(k, Head(conns[k].up), cs)
  BY DEF Handle, Popped
<1>4. session # NoSession /\ session.state # "cancelled"
  BY <1>2 DEF KeptInv, Pledged
<1>5. session \in Session /\ (session.joiner = 0 \/ session.joiner = n)
  <2>1. session \in Session
    BY <1>1, <1>4 DEF SessionInv, SessionTypeOK
  <2> QED
    BY <1>2, <2>1 DEF Session, Steady
<1> HIDE DEF n
<1>6. /\ JoinAnew(n) \/ JoinAgain(n)
      /\ attached' = [attached EXCEPT !["b"] = k]
      /\ conns' = Sent(es, attached["a"], Sync(session'))
  BY <1>3, <1>4, <1>5 DEF HandleJoin, Seated, n
<1>7. session' # NoSession /\ session' \in Session
  <2>1. SessionInv' /\ session' # NoSession
    BY <1>1, <1>2, <1>6, JoinsInv
  <2> QED
    BY <2>1 DEF SessionInv, SessionTypeOK
<1>8. session'.state # "cancelled" /\ session'.accepted = session.accepted
  BY <1>4, <1>5, <1>6 DEF JoinAnew, JoinAgain, Session
<1>9. /\ SeatMsg(session') \in Answer /\ SeatMsg(session').type = "seat"
      /\ Sync(session') \in Answer /\ Sync(session').type = "sync"
      /\ SeatMsg(session').snap.state # "cancelled" /\ Sync(session').snap.state # "cancelled"
  BY <1>7, <1>8, SnapshotType DEF SeatMsg, Sync
<1>10. /\ Answered(cs, bs, {}) /\ bs[k].bound
       /\ \A i \in DOMAIN cs : i # k => bs[i].bound = cs[i].bound
  BY <1>1, BindFacts
<1> HIDE DEF bs
<1>11. bs \in Seq(Conn) /\ Len(bs) = Len(conns) /\ Kind(bs) /\ DOMAIN bs = DOMAIN conns
       /\ bs[k].down = conns[k].down /\ bs[k].open = conns[k].open /\ bs[k].served
  BY <1>1, <1>10, AnsweredKind, LenProperties DEF Answered
<1>12. /\ Kind(es) /\ Alike(bs, es)
       /\ conns[k].open /\ conns[k].down = <<>> => es[k].down # <<>> /\ es[k].down[1] = SeatMsg(session')
  BY <1>1, <1>9, <1>11, SentKind, SentAlike
<1> HIDE DEF es
<1>13. es \in Seq(Conn) /\ Len(es) = Len(conns) /\ DOMAIN es = DOMAIN conns
       /\ attached["a"] \in 0..Len(es)
  BY <1>1, <1>11, <1>12, LenProperties DEF Alike, Types, Seat
<1>14. Kind(conns') /\ Alike(es, conns')
  BY <1>6, <1>9, <1>12, <1>13, SentKind, SentAlike
<1>15. First(k)
  BY <1>9, <1>12, <1>13, <1>14 DEF First, Alike, Grows
<1>16. Binds(k)
  BY <1>1, <1>10, <1>11, <1>12, <1>13, <1>14 DEF Binds, Alike, SameBound
<1>17. Goes(k)
  BY <1>4, <1>7, <1>8 DEF Goes
<1> QED
  BY <1>14, <1>15, <1>16, <1>17 DEF Told

LEMMA ResumeTold ==
  ASSUME Steady, RelayInv, KeptInv, NEW k \in DOMAIN conns, Handle(k),
         Head(conns[k].up).type = "resume"
  PROVE  Told(k)
<1> DEFINE s == conns[k].by
           cs == Popped(k)
           bs == Bind(cs, k)
<1>1. /\ conns[k].served /\ k # 0 /\ Kind(cs) /\ cs \in Seq(Conn) /\ Types /\ SessionInv
      /\ Len(cs) = Len(conns) /\ DOMAIN cs = DOMAIN conns /\ k \in 0..Len(conns) /\ s \in Seat
      /\ cs[k].down = conns[k].down /\ cs[k].open = conns[k].open /\ cs[k].served = conns[k].served
      /\ \A i \in DOMAIN conns : cs[i].bound = conns[i].bound
  BY KindNow
<1>2. HandleResume(k, s, cs)
  BY DEF Handle, Popped
<1>3. session # NoSession /\ session.state # "cancelled"
  <2>1. Calm(k) /\ Head(conns[k].up) = conns[k].up[1] /\ 1 \in DOMAIN conns[k].up
    BY KindNow
  <2> QED
    BY <2>1 DEF KeptInv, Pledged, Calm
<1> HIDE DEF s
<1>4. Resume(s) /\ conns' = Sent(bs, k, Sync(session'))
  BY <1>2, <1>3 DEF HandleResume
<1>5. session \in Session
  BY <1>1, <1>3 DEF SessionInv, SessionTypeOK
<1>6. /\ session' \in Session /\ session' # NoSession
      /\ session'.state # "cancelled" /\ session'.accepted = session.accepted
  <2>1. /\ session' \in Session
        /\ session'.state # "cancelled" /\ session'.accepted = session.accepted
    BY <1>1, <1>3, <1>4, <1>5 DEF Resume, Session
  <2> QED
    BY <2>1, NoSessionAssumption
<1>7. Sync(session') \in Answer /\ Sync(session').type = "sync" /\ Sync(session').snap.state # "cancelled"
  BY <1>6, SnapshotType DEF Sync
<1>8. /\ Answered(cs, bs, {}) /\ bs[k].bound
      /\ \A i \in DOMAIN cs : i # k => bs[i].bound = cs[i].bound
  BY <1>1, BindFacts
<1> HIDE DEF bs
<1>9. bs \in Seq(Conn) /\ Len(bs) = Len(conns) /\ Kind(bs) /\ DOMAIN bs = DOMAIN conns
  BY <1>1, <1>8, AnsweredKind, LenProperties DEF Answered
<1>10. Kind(conns') /\ Alike(bs, conns')
  BY <1>1, <1>4, <1>7, <1>9, SentKind, SentAlike
<1>11. First(k)
  BY DEF First
<1>12. Binds(k)
  BY <1>1, <1>8, <1>9, <1>10 DEF Binds, Alike, SameBound
<1>13. Goes(k)
  BY <1>3, <1>6 DEF Goes
<1> QED
  BY <1>10, <1>11, <1>12, <1>13 DEF Told

LEMMA ActionTold ==
  ASSUME Steady, RelayInv, KeptInv, NEW k \in DOMAIN conns, Handle(k),
         Head(conns[k].up).type \notin Greeting
  PROVE  Told(k)
<1> DEFINE s == conns[k].by
           msg == Head(conns[k].up)
           cs == Popped(k)
           news == [Sync(session') EXCEPT !.cause = <<s, msg.type>>]
<1>1. /\ conns[k].served /\ k # 0 /\ Kind(cs) /\ cs \in Seq(Conn) /\ Types /\ SessionInv
      /\ Len(cs) = Len(conns) /\ DOMAIN cs = DOMAIN conns /\ k \in 0..Len(conns) /\ s \in Seat
      /\ msg \in Request
      /\ \A i \in DOMAIN conns : /\ cs[i].bound = conns[i].bound /\ cs[i].open = conns[i].open
                                 /\ cs[i].down = conns[i].down
  BY KindNow
<1>2. HandleAction(k, s, msg, cs)
  BY DEF Handle, Popped, Greeting
<1>3. /\ conns[k].open => conns[k].bound
      /\ msg.type # "cancel"
      /\ session = NoSession => ~conns[k].bound
  <2>1. /\ Calm(k) /\ Head(conns[k].up) = conns[k].up[1] /\ 1 \in DOMAIN conns[k].up
        /\ conns[k].served
    BY KindNow
  <2> QED
    BY <2>1 DEF Calm
<1>4. CASE conns[k].bound /\ Does(s, msg) /\ conns' = Broadcast(cs, news) /\ UNCHANGED attached
  <2> HIDE DEF s, msg, cs
  <2>1. session # NoSession /\ session.state # "cancelled"
    BY <1>3, <1>4 DEF KeptInv, Pledged
  <2>2. Calls /\ session' # NoSession
    BY <1>1, <1>4, DoesCalls DEF msg
  <2>3. session \in Session /\ session' \in Session
    BY <1>1, <2>1, <2>2, CallsInv DEF SessionInv, SessionTypeOK
  <2>4. msg.type \in DOMAIN Allowed
    BY <1>1 DEF Request, msg
  <2>5. \/ OfferUpdate(msg.side, msg.table[msg.side])
        \/ Accept(s) /\ msg.type = "accept"
        \/ Unaccept(s)
        \/ ConfirmComplete(s)
    <3>1. msg.type \in {"offer", "accept", "unaccept", "confirm"}
      BY <1>3, <2>4 DEF Allowed
    <3>2. Does(s, msg)
      BY <1>4
    <3> QED
      BY <3>1, <3>2 DEF Does
  <2>6. session'.state # "cancelled"
    BY <2>1, <2>3, <2>5 DEF OfferUpdate, Accept, Unaccept, ConfirmComplete, Session
  <2>7. \A t \in Seat : session'.accepted[t] =>
          session.accepted[t] \/ (s = t /\ msg.type = "accept")
    <3>1. session.accepted \in [Seat -> BOOLEAN]
      BY <2>3 DEF Session
    <3>2. CASE OfferUpdate(msg.side, msg.table[msg.side])
      BY <2>3, <3>2 DEF OfferUpdate, Session, Nobody
    <3>3. CASE Accept(s) /\ msg.type = "accept"
      <4>1. session'.accepted = [session.accepted EXCEPT ![s] = TRUE]
        BY <2>3, <3>3 DEF Accept, Session
      <4> QED
        BY <3>1, <3>3, <4>1
    <3>4. CASE Unaccept(s)
      <4>1. session'.accepted = [session.accepted EXCEPT ![s] = FALSE]
        BY <2>3, <3>4 DEF Unaccept, Session
      <4> QED
        BY <3>1, <4>1
    <3>5. CASE ConfirmComplete(s)
      BY <2>3, <3>5 DEF ConfirmComplete, Session
    <3> QED
      BY <2>5, <3>2, <3>3, <3>4, <3>5
  <2>8. news \in Answer /\ news.type = "sync" /\ news.snap.state # "cancelled"
    BY <1>1, <2>3, <2>4, <2>6, SnapshotType DEF Answer, Sync
  <2> HIDE DEF news
  <2>9. Kind(conns') /\ Alike(cs, conns')
    BY <1>1, <1>4, <2>8, BroadcastKind, BroadcastAlike
  <2>10. Binds(k)
    BY <1>1, <1>3, <1>4, <2>9 DEF Binds, Alike, SameBound
  <2>11. (\A t \in Seat : attached[t] # k) => conns'[k].down = conns[k].down
    <3>2. attached["a"] \in 0..Len(cs) /\ attached["b"] \in 0..Len(cs)
      BY <1>1 DEF Types, Seat
    <3>3. /\ Answered(cs, Sent(cs, attached["a"], news), {attached["a"]})
      BY <1>1, <2>8, <3>2, SentFacts
    <3> DEFINE ds == Sent(cs, attached["a"], news)
    <3> HIDE DEF ds
    <3>4. ds \in Seq(Conn) /\ Len(ds) = Len(cs) /\ DOMAIN ds = DOMAIN cs
      BY <1>1, <3>3, LenProperties DEF Answered, ds
    <3>5. Answered(ds, Sent(ds, attached["b"], news), {attached["b"]})
      BY <2>8, <3>2, <3>4, SentFacts
    <3>6. conns' = Sent(ds, attached["b"], news)
      BY <1>4 DEF Broadcast, ds
    <3> QED
      BY <1>1, <3>3, <3>4, <3>5, <3>6 DEF Answered, Seat, ds
  <2>12. First(k)
    BY <1>4, <2>11 DEF First
  <2>13. Goes(k)
    BY <2>1, <2>2, <2>6, <2>7 DEF Goes, s, msg
  <2> QED
    BY <2>9, <2>10, <2>12, <2>13 DEF Told
<1>5. CASE ~(conns[k].bound /\ Does(s, msg) /\ conns' = Broadcast(cs, news) /\ UNCHANGED attached)
  <2>1. conns' = cs /\ UNCHANGED <<session, attached>>
    <3>1. CASE conns[k].bound
      BY <1>2, <1>3, <1>5, <3>1 DEF HandleAction
    <3>2. CASE ~conns[k].bound
      <4>1. conns' = Sent(cs, k, Gone) /\ UNCHANGED <<session, attached>>
        BY <1>2, <3>2 DEF HandleAction
      <4>2. ~cs[k].open
        BY <1>1, <1>3, <3>2
      <4> QED
        BY <4>1, <4>2 DEF Sent
    <3> QED
      BY <3>1, <3>2
  <2> QED
    BY <1>3, <2>1, IdleTold
<1> QED
  BY <1>4, <1>5

LEMMA HandleTold ==
  ASSUME Steady, RelayInv, KeptInv, NEW k \in DOMAIN conns, Handle(k)
  PROVE  Told(k)
BY CreateTold, JoinTold, ResumeTold, ActionTold DEF Greeting

LEMMA HandleCalm ==
  ASSUME Steady, RelayInv, KeptInv, NEW k \in DOMAIN conns, Handle(k), NEW i \in DOMAIN conns
  PROVE  Calm(i)'
<1>1. Told(k) /\ Calm(i) /\ Calm(k) /\ Grows(conns, conns')
  BY HandleTold, HandleSeats DEF KeptInv
<1>2. /\ DOMAIN conns' = DOMAIN conns
      /\ conns'[i].by = conns[i].by /\ conns'[i].open = conns[i].open
      /\ conns'[i].served = conns[i].served
      /\ i # k => conns'[i].up = conns[i].up
      /\ i \notin {k, attached["a"], attached["b"]} => conns'[i].down = conns[i].down
      /\ \A j \in DOMAIN conns'[k].up :
           j + 1 \in DOMAIN conns[k].up /\ conns'[k].up[j] = conns[k].up[j + 1]
      /\ \A t \in Seat : attached'[t] \in {attached[t], 0, k}
      /\ Head(conns[k].up) = conns[k].up[1] /\ 1 \in DOMAIN conns[k].up
      /\ UNCHANGED <<client, storedVars>>
  BY HandleQueues
<1>3. PICK b : b = conns[i].by
  OBVIOUS
<1>4. conns'[i].by = b /\ (Stored(b)' <=> Stored(b)) /\ i # 0
  BY <1>2, <1>3, LenProperties DEF Stored, storedVars, RelayInv, Types
<1>5. Stored(conns[i].by)' <=> Stored(b)
  <2>1. Stored(conns[i].by)' <=> Stored(b)'
    BY <1>4
  <2> QED
    BY <1>4, <2>1
<1>6. conns'[i].open /\ conns'[i].served =>
        \/ conns'[i].bound
        \/ conns'[i].up # <<>> /\ conns'[i].up[1].type \in Greeting
  BY <1>1, <1>2 DEF Told, Binds, Calm
<1>7. ASSUME NEW j \in DOMAIN conns'[i].up
      PROVE  \E l \in DOMAIN conns[i].up : conns'[i].up[j] = conns[i].up[l]
  BY <1>2, <1>7
<1>8. \A j \in DOMAIN conns'[i].up :
        /\ conns'[i].up[j].type # "cancel"
        /\ conns'[i].up[j].type \in {"resume", "accept"} => Stored(b)
  BY <1>1, <1>3, <1>7 DEF Calm
<1>9. \A j \in DOMAIN conns'[i].down :
        conns'[i].down[j].type # "gone" /\ conns'[i].down[j].snap.state # "cancelled"
  BY <1>1, <1>2 DEF Told, Kind
<1>10. conns'[i].open /\ (conns'[i].down # <<>> \/ \E t \in Seat : attached'[t] = i) =>
         Stored(b) \/ (conns'[i].down # <<>> /\ conns'[i].down[1].type = "seat")
  <2>1. SUFFICES ASSUME conns[i].open, ~Stored(b),
                        conns'[i].down # <<>> \/ \E t \in Seat : attached'[t] = i
                 PROVE  conns'[i].down # <<>> /\ conns'[i].down[1].type = "seat"
    BY <1>2
  <2>2. CASE conns[i].down # <<>>
    BY <1>1, <1>3, <2>1, <2>2 DEF Calm, Introduced, Grows
  <2>3. CASE conns[i].down = <<>>
    <3>1. \A t \in Seat : attached[t] # i
      BY <1>1, <1>3, <2>1, <2>3 DEF Calm, Introduced
    <3>2. i = k
      BY <1>2, <1>4, <2>1, <2>3, <3>1 DEF Seat
    <3>3. Head(conns[k].up).type # "resume"
      BY <1>1, <1>2, <1>3, <2>1, <3>2 DEF Calm
    <3> QED
      BY <1>1, <2>1, <2>3, <3>1, <3>2, <3>3 DEF Told, First
  <2> QED
    BY <2>2, <2>3
<1>11. ~published' => conns'[i].by = "a"
  BY <1>1, <1>2 DEF Calm, storedVars
<1>12. session' = NoSession =>
         /\ ~conns'[i].bound /\ conns'[i].down = <<>>
         /\ \A j \in DOMAIN conns'[i].up : conns'[i].up[j].type # "resume"
  <2>1. SUFFICES ASSUME session' = NoSession
                 PROVE  /\ ~conns'[i].bound /\ conns'[i].down = <<>>
                        /\ \A j \in DOMAIN conns'[i].up : conns'[i].up[j].type # "resume"
    OBVIOUS
  <2>2. session = NoSession /\ conns' = Popped(k)
    BY <1>1, <2>1 DEF Told, Goes
  <2>3. Popped(k)[i].down = conns[i].down /\ Popped(k)[i].bound = conns[i].bound
    BY KindNow
  <2> QED
    BY <1>1, <1>7, <2>2, <2>3 DEF Calm
<1> QED
  BY <1>4, <1>5, <1>6, <1>8, <1>9, <1>10, <1>11, <1>12 DEF Calm, Introduced

LEMMA HandleKept ==
  ASSUME Steady, RelayInv, RelayInv', KeptInv, NEW k \in DOMAIN conns, Handle(k)
  PROVE  KeptInv'
<1>1. Told(k) /\ DOMAIN conns' = DOMAIN conns /\ UNCHANGED <<client, storedVars>>
  BY HandleTold, HandleQueues
<1>2. session' = NoSession => session = NoSession
  BY <1>1 DEF Told, Goes
<1>3. \A i \in DOMAIN conns' : Calm(i)'
  BY <1>1, HandleCalm
<1>4. \A t \in Seat : Stored(t)' <=> Stored(t)
  BY <1>1 DEF Stored, storedVars
<1>5. \A t \in Seat : Fits(t, client[t])'
  BY <1>1, <1>2, <1>4 DEF KeptInv, Fits, storedVars
<1>6. \A t \in Seat : session' # NoSession /\ session'.accepted[t] => Stored(t)
  <2>1. \A t \in Seat : session' # NoSession /\ session'.accepted[t] =>
          \/ session # NoSession /\ session.accepted[t]
          \/ conns[k].by = t /\ Head(conns[k].up).type = "accept"
    BY <1>1 DEF Told, Goes
  <2>2. Head(conns[k].up).type = "accept" => Stored(conns[k].by)
    BY KindNow DEF Calm
  <2> QED
    BY <2>1, <2>2 DEF KeptInv, Pledged
<1>7. sealed' # Nothing => \A t \in Seat : Stored(t)
  <2>1. CASE session' # NoSession /\ session'.state = "completed"
    <3>1. Both(session'.accepted)
      BY <2>1 DEF RelayInv, SessionInv, FlagsMatchState
    <3> QED
      BY <1>6, <2>1, <3>1 DEF Both, Seat
  <2>2. CASE ~(session' # NoSession /\ session'.state = "completed")
    BY <2>2 DEF Handle, KeptInv, Pledged
  <2> QED
    BY <2>1, <2>2
<1>8. Pledged'
  BY <1>1, <1>2, <1>4, <1>6, <1>7 DEF KeptInv, Pledged, Active, storedVars, Told, Goes
<1> QED
  BY <1>3, <1>5, <1>8 DEF KeptInv

LEMMA CloseKept ==
  ASSUME RelayInv, KeptInv, NEW k \in DOMAIN conns, Close(k)
  PROVE  KeptInv'
<1>1. /\ conns' \in Seq(Conn) /\ DOMAIN conns' = DOMAIN conns
      /\ conns'[k].by = conns[k].by /\ ~conns'[k].served /\ ~conns'[k].bound
      /\ conns'[k].up = <<>> /\ conns'[k].down = conns[k].down
      /\ \A i \in DOMAIN conns : i # k => conns'[i] = conns[i]
      /\ UNCHANGED <<client, storedVars>> /\ sealed' = sealed
  BY CloseSeats DEF Close
<1>2. conns'[k].open = conns[k].open
  <2>1. conns \in [DOMAIN conns -> Conn]
    BY LenProperties DEF RelayInv, Types
  <2> QED
    BY <2>1 DEF Close, Conn
<1>3. \A t \in Seat : attached'[t] \in {attached[t], 0}
  BY DEF Close, RelayInv, Types
<1>4. /\ session' = NoSession <=> session = NoSession
      /\ session # NoSession => /\ session'.state = session.state
                                /\ session'.accepted = session.accepted
  <2>1. CASE session = NoSession
    BY <2>1 DEF Close
  <2>2. CASE session # NoSession
    <3>1. session \in Session /\ conns[k].by \in Seat
      BY <2>2, ConnFields DEF RelayInv, SessionInv, SessionTypeOK, Types
    <3>2. UNCHANGED session \/ Drop(conns[k].by)
      BY <2>2 DEF Close
    <3>3. /\ session' \in Session /\ session'.state = session.state
          /\ session'.accepted = session.accepted
      <4>1. CASE UNCHANGED session
        BY <3>1, <4>1
      <4>2. CASE Drop(conns[k].by)
        <5>1. PICK b \in Seat : Drop(b)
          BY <3>1, <4>2
        <5>2. (session.state \in PreComplete) \in BOOLEAN
          OBVIOUS
        <5> QED
          BY <3>1, <5>1, <5>2 DEF Drop, Session
      <4> QED
        BY <3>2, <4>1, <4>2
    <3> QED
      BY <2>2, <3>3, NoSessionAssumption
  <2> QED
    BY <2>1, <2>2
<1>5. \A t \in Seat : Stored(t)' <=> Stored(t)
  BY <1>1 DEF Stored, storedVars
<1>6. ASSUME NEW i \in DOMAIN conns PROVE Calm(i)'
  <2>1. Calm(i) /\ i # 0 /\ conns[i].by \in Seat
    BY ConnFields, LenProperties DEF KeptInv, RelayInv, Types
  <2>2. PICK b : b = conns[i].by
    OBVIOUS
  <2>3. conns'[i].by = b /\ (Stored(b)' <=> Stored(b)) /\ conns'[i].open = conns[i].open
        /\ conns'[i].down = conns[i].down /\ (conns'[i].bound => conns[i].bound)
    BY <1>1, <1>2, <1>5, <2>1, <2>2
  <2>4. Stored(conns[i].by)' <=> Stored(b)'
    BY <2>3
  <2>5. conns'[i].open /\ conns'[i].served => conns'[i] = conns[i]
    BY <1>1
  <2>6. \A j \in DOMAIN conns'[i].up : j \in DOMAIN conns[i].up /\ conns'[i].up[j] = conns[i].up[j]
    <3>1. DOMAIN <<>> = {}
      OBVIOUS
    <3> QED
      BY <1>1, <3>1
  <2>7. (\E t \in Seat : attached'[t] = i) => \E t \in Seat : attached[t] = i
    BY <1>3, <2>1
  <2>8. published' = published
    BY <1>1 DEF storedVars
  <2>9. conns'[i].open /\ conns'[i].served =>
          \/ conns'[i].bound
          \/ conns'[i].up # <<>> /\ conns'[i].up[1].type \in Greeting
    BY <2>1, <2>5 DEF Calm
  <2>10. \A j \in DOMAIN conns'[i].up :
          /\ conns'[i].up[j].type # "cancel"
          /\ conns'[i].up[j].type \in {"resume", "accept"} => Stored(b)
    BY <2>1, <2>2, <2>6 DEF Calm
  <2>11. conns'[i].open /\ (conns'[i].down # <<>> \/ \E t \in Seat : attached'[t] = i) =>
           Stored(b) \/ (conns'[i].down # <<>> /\ conns'[i].down[1].type = "seat")
    BY <2>1, <2>2, <2>3, <2>7 DEF Calm, Introduced
  <2>12. session' = NoSession =>
         /\ ~conns'[i].bound /\ conns'[i].down = <<>>
         /\ \A j \in DOMAIN conns'[i].up : conns'[i].up[j].type # "resume"
    BY <1>4, <2>1, <2>3, <2>6 DEF Calm
  <2> QED
    BY <2>1, <2>2, <2>3, <2>4, <2>8, <2>9, <2>10, <2>11, <2>12 DEF Calm, Introduced
<1>7. \A t \in Seat : Fits(t, client[t])'
  BY <1>1, <1>4, <1>5 DEF KeptInv, Fits, storedVars
<1>8. Pledged'
  BY <1>1, <1>4, <1>5 DEF KeptInv, Pledged, Active, storedVars
<1> QED
  BY <1>1, <1>6, <1>7, <1>8 DEF KeptInv

\* What a step of an app has to leave as it should be.
LEMMA AppKept ==
  ASSUME RelayInv, KeptInv, Lasting, UNCHANGED <<session, attached, sealed>>,
         NEW s \in Seat, NEW c, client' = [client EXCEPT ![s] = c], Fits(s, c)',
         \A t \in Seat : t # s => /\ persisted'[t] = persisted[t] /\ applying'[t] = applying[t]
                                  /\ recorded'[t] = recorded[t],
         session = NoSession => ~published',
         ~published' /\ s = "b" => c.initial = "none" /\ ~persisted'["b"],
         \A k \in DOMAIN conns' : Calm(k)'
  PROVE  KeptInv'
<1>1. client'[s] = c /\ \A t \in Seat : t # s => client'[t] = client[t]
  BY ClientFields
<1>2. ASSUME NEW t \in Seat PROVE Fits(t, client[t])'
  <2>1. CASE t = s
    BY <1>1, <2>1 DEF Fits, Stored
  <2>2. CASE t # s
    <3>1. Fits(t, client[t]) /\ (Stored(t) => Stored(t)')
      BY DEF KeptInv, Lasting
    <3> QED
      BY <1>1, <2>2, <3>1 DEF Fits
  <2> QED
    BY <2>1, <2>2
<1>3. Pledged'
  <2>1. /\ session' = NoSession => ~published'
        /\ session' # NoSession => session'.state # "cancelled"
        /\ session' # NoSession => \A t \in Seat : session'.accepted[t] => Stored(t)'
        /\ sealed' # Nothing => \A t \in Seat : Stored(t)'
    BY DEF KeptInv, Pledged, Lasting
  <2>2. ~published' => client'["b"].initial = "none" /\ ~persisted'["b"]
    BY <1>1 DEF KeptInv, Pledged, Lasting, Seat, Active
  <2> QED
    BY <2>1, <2>2 DEF Pledged, Active
<1> QED
  BY <1>2, <1>3 DEF KeptInv

LEMMA ConnectKept ==
  ASSUME RelayInv, KeptInv, NEW s \in Seat, NEW c, NEW msg, Connect(s, msg),
         client' = [client EXCEPT ![s] = c], msg.type \in Greeting,
         msg.type = "resume" => c.token, ~published => s = "a", Fits(s, c),
         UNCHANGED <<serverVars, published, persisted, applying, recorded>>
  PROVE  KeptInv'
<1>0. PICK n : n = Len(conns) + 1
  OBVIOUS
<1>1. \A t \in Seat : Stored(t)' <=> Stored(t)
  BY DEF Stored
<1>2. Lasting /\ UNCHANGED <<session, attached, sealed, published>>
  BY <1>1 DEF Lasting, serverVars
<1>3. /\ DOMAIN conns' = DOMAIN conns \cup {n} /\ n \notin DOMAIN conns
      /\ conns'[n].by = s /\ conns'[n].down = <<>> /\ ~conns'[n].bound /\ n \in Nat \ {0}
      /\ \A i \in DOMAIN conns :
           /\ conns'[i].by = conns[i].by /\ conns'[i].up = conns[i].up
           /\ conns'[i].served = conns[i].served /\ conns'[i].bound = conns[i].bound
  BY <1>0, ConnectFacts
<1>4. /\ conns'[n].up # <<>> /\ conns'[n].up[1] = msg
      /\ \A i \in DOMAIN conns'[n].up : conns'[n].up[i] = msg
  BY <1>0, ConnectSends
<1>5. \A i \in DOMAIN conns : conns'[i] = HungUp(client[s].ws)[i]
  <2> DEFINE hs == HungUp(client[s].ws)
  <2>1. hs \in Seq(Conn) /\ Len(hs) = Len(conns) /\ DOMAIN conns = 1..Len(conns)
    BY ClientFields, HungUpFacts, LenProperties
  <2>2. PICK new : conns' = Append(hs, new)
    BY DEF Connect
  <2> HIDE DEF hs
  <2>3. \A i \in 1..Len(hs) : Append(hs, new)[i] = hs[i]
    BY <2>1, AppendProperties
  <2> QED
    BY <2>1, <2>2, <2>3 DEF hs
<1>6. ASSUME NEW i \in DOMAIN conns PROVE Calm(i)'
  <2>1. /\ i # client[s].ws => HungUp(client[s].ws)[i] = conns[i]
        /\ i = client[s].ws => ~HungUp(client[s].ws)[i].open /\ HungUp(client[s].ws)[i].down = <<>>
    BY ClientFields, HungUpFacts
  <2>2. Shrunk(i)
    BY <1>3, <1>5, <2>1 DEF Shrunk
  <2> QED
    BY <1>2, <2>2, CalmShrunk DEF KeptInv
<1>7. Calm(n)'
  <2>1. DOMAIN conns'[n].down = {}
    BY <1>3
  <2>2. \A t \in Seat : attached'[t] # n
    BY <1>2, <1>3, Attached, LenProperties DEF RelayInv, Types
  <2>3. msg.type = "resume" => Stored(s)'
    BY <1>1 DEF Fits
  <2>4. Stored(conns[n].by)' <=> Stored(s)'
    BY <1>3
  <2>5. session' = NoSession => msg.type # "resume"
    BY <1>2 DEF Fits
  <2>6. msg.type \notin {"cancel", "accept"}
    BY DEF Greeting
  <2>7. /\ conns'[n].up # <<>> /\ conns'[n].up[1].type \in Greeting
        /\ \A i \in DOMAIN conns'[n].up :
             /\ conns'[n].up[i].type # "cancel"
             /\ conns'[n].up[i].type \in {"resume", "accept"} => Stored(s)'
             /\ session' = NoSession => conns'[n].up[i].type # "resume"
    BY <1>4, <2>3, <2>5, <2>6
  <2>8. ~published' => s = "a"
    BY <1>2
  <2> QED
    BY <1>3, <2>1, <2>2, <2>4, <2>7, <2>8 DEF Calm
<1>8. Fits(s, c)'
  BY <1>1, <1>2 DEF Fits
<1>9. session = NoSession => ~published'
  BY <1>2 DEF KeptInv, Pledged
<1>10. ~published' /\ s = "b" => c.initial = "none" /\ ~persisted'["b"]
  BY <1>2
<1>11. \A t \in Seat : t # s => /\ persisted'[t] = persisted[t] /\ applying'[t] = applying[t]
                                /\ recorded'[t] = recorded[t]
  OBVIOUS
<1>12. \A k \in DOMAIN conns' : Calm(k)'
  BY <1>3, <1>6, <1>7
<1> QED
  BY <1>2, <1>8, <1>9, <1>10, <1>11, <1>12, AppKept

LEMMA ReachesKept ==
  ASSUME RelayInv, KeptInv, NEW s \in Seat,
         BeginCreate \/ BeginJoin \/ BeginResume(s) \/ Reconnect(s) \/ RetryConnect(s)
  PROVE  KeptInv'
<1>1. client[s] \in App /\ "a" \in Seat /\ "b" \in Seat
  BY ClientFields DEF Seat
<1>2. Off.view.state = "none" /\ ~Off.token /\ ~Off.applied
  BY DEF Off, NoView
<1>3. CASE BeginCreate
  <2> DEFINE c == Begun([Off EXCEPT !.initial = "create"])
  <2>1. c.view.state = "none" /\ ~c.token /\ ~c.applied /\ c.initial = "create"
    BY DEF Begun, Off, NoView
  <2> HIDE DEF c
  <2>2. Fits("a", c)
    BY <1>1, <2>1 DEF KeptInv, Fits
  <2>3. Connect("a", Handshake(c)) /\ client' = [client EXCEPT !["a"] = c]
        /\ UNCHANGED <<serverVars, published, persisted, applying, recorded>>
    BY <1>3 DEF BeginCreate, c, storedVars
  <2>4. Handshake(c).type = "create"
    BY <2>1 DEF Handshake, Up
  <2> QED
    BY <1>1, <2>2, <2>3, <2>4, ConnectKept DEF Greeting
<1>4. CASE BeginJoin
  <2> DEFINE c == Begun([Off EXCEPT !.initial = "join", !.nonce = attempts + 1])
  <2>1. c.view.state = "none" /\ ~c.token /\ ~c.applied /\ c.initial = "join"
    BY DEF Begun, Off, NoView
  <2> HIDE DEF c
  <2>2. Fits("b", c)
    BY <1>1, <2>1 DEF KeptInv, Fits
  <2>3. Connect("b", Handshake(c)) /\ client' = [client EXCEPT !["b"] = c] /\ published
        /\ UNCHANGED <<serverVars, published, persisted, applying, recorded>>
    BY <1>4 DEF BeginJoin, c
  <2>4. Handshake(c).type = "join"
    BY <2>1 DEF Handshake, Up
  <2> QED
    BY <1>1, <2>2, <2>3, <2>4, ConnectKept DEF Greeting
<1>5. CASE BeginResume(s)
  <2> DEFINE c == Begun([Off EXCEPT !.initial = "resume", !.token = TRUE])
  <2>1. c.view.state = "none" /\ c.token /\ ~c.applied /\ c.initial = "resume"
    BY DEF Begun, Off, NoView
  <2> HIDE DEF c
  <2>2. persisted[s] /\ session # NoSession
    BY <1>5 DEF BeginResume, KeptInv, Fits
  <2>3. Fits(s, c)
    BY <1>1, <2>1, <2>2 DEF KeptInv, Fits, Stored
  <2>4. Connect(s, Handshake(c)) /\ client' = [client EXCEPT ![s] = c]
        /\ UNCHANGED <<serverVars, published, persisted, applying, recorded>>
    BY <1>5 DEF BeginResume, c, storedVars
  <2>5. Handshake(c).type = "resume"
    BY <2>1 DEF Handshake, Up
  <2>6. ~published => s = "a"
    BY <2>2 DEF KeptInv, Pledged, Seat
  <2> QED
    BY <1>1, <2>1, <2>3, <2>4, <2>5, <2>6, ConnectKept DEF Greeting
<1>6. CASE Reconnect(s) \/ RetryConnect(s)
  <2> DEFINE c == Begun(client[s])
  <2>1. Active(s) /\ Connect(s, Handshake(client[s])) /\ client' = [client EXCEPT ![s] = c]
        /\ UNCHANGED <<serverVars, published, persisted, applying, recorded>>
    BY <1>1, <1>6 DEF Reconnect, RetryConnect, Retrying, storedVars
  <2>2. /\ c.view = client[s].view /\ c.token = client[s].token /\ c.applied = client[s].applied
        /\ c.initial = client[s].initial /\ c.failed = client[s].failed
    BY <1>1 DEF Begun, App
  <2> HIDE DEF c
  <2>3. Fits(s, client[s])
    BY DEF KeptInv
  <2>4. Fits(s, c)
    BY <2>1, <2>2, <2>3 DEF Fits, Active
  <2>5. /\ Handshake(client[s]).type \in Greeting
        /\ Handshake(client[s]).type = "resume" => c.token
    <3>1. client[s].initial \in Greeting
      BY <1>1, <2>1 DEF Active, App
    <3>2. Handshake(client[s]).type = IF client[s].token THEN "resume" ELSE client[s].initial
      BY DEF Handshake, Up
    <3> QED
      BY <2>2, <2>3, <3>1, <3>2 DEF Greeting, Fits
  <2>6. ~published => s = "a"
    BY <2>1 DEF KeptInv, Pledged, Seat
  <2> QED
    BY <2>1, <2>4, <2>5, <2>6, ConnectKept
<1> QED
  BY <1>3, <1>4, <1>5, <1>6

LEMMA HungUpCalm ==
  ASSUME RelayInv, KeptInv, NEW s \in Seat, conns' = HungUp(client[s].ws), Lasting,
         UNCHANGED <<session, attached>>
  PROVE  \A k \in DOMAIN conns' : Calm(k)'
<1>1. /\ HungUp(client[s].ws) \in Seq(Conn) /\ Len(HungUp(client[s].ws)) = Len(conns)
      /\ \A i \in DOMAIN conns :
           /\ conns'[i].by = conns[i].by /\ conns'[i].up = conns[i].up
           /\ conns'[i].served = conns[i].served /\ conns'[i].bound = conns[i].bound
           /\ i # client[s].ws => conns'[i] = conns[i]
           /\ i = client[s].ws => ~conns'[i].open /\ conns'[i].down = <<>>
  BY ClientFields, HungUpFacts
<1>2. DOMAIN conns' = DOMAIN conns
  BY <1>1, ClientFields, LenProperties
<1>3. ASSUME NEW k \in DOMAIN conns PROVE Shrunk(k)
  BY <1>1 DEF Shrunk
<1> QED
  BY <1>2, <1>3, CalmShrunk DEF KeptInv

\* A seat whose trade is over, written or about to be, may be forgotten once
\* it was written.
LEMMA ResetStored ==
  ASSUME Steady, RelayInv, KeptInv, NEW s \in Seat, Reset(s)
  PROVE  recorded[s] # <<>>
<1>1. /\ client[s].view.state = "completed" /\ client[s].failed = Nothing /\ applying[s] = Nothing
  BY DEF Reset, Over, Steady, KeptInv, Fits
<1> QED
  BY <1>1 DEF KeptInv, Fits

LEMMA HangsUpKept ==
  ASSUME Steady, RelayInv, KeptInv, NEW s \in Seat, Break(s) \/ Quit(s) \/ Reset(s)
  PROVE  KeptInv'
<1>1. /\ conns' = HungUp(client[s].ws) /\ UNCHANGED <<session, attached, sealed, published, recorded>>
      /\ persisted' \in {persisted, [persisted EXCEPT ![s] = FALSE]}
      /\ persisted' # persisted => recorded[s] # <<>>
      /\ applying' \in {applying, [applying EXCEPT ![s] = Nothing]}
      /\ persisted \in [Seat -> BOOLEAN] /\ applying \in [Seat -> Tables]
  BY ResetStored DEF Break, Quit, Reset, serverVars, storedVars, RelayInv, Types, StoredTypes
<1>2. Lasting
  <2>1. ASSUME NEW t \in Seat, Stored(t) PROVE Stored(t)'
    BY <1>1, <2>1 DEF Stored
  <2> QED
    BY <1>1, <2>1 DEF Lasting
<1>3. \A k \in DOMAIN conns' : Calm(k)'
  BY <1>1, <1>2, HungUpCalm
<1>4. \A t \in Seat : t # s => /\ persisted'[t] = persisted[t] /\ applying'[t] = applying[t]
                               /\ recorded'[t] = recorded[t]
  BY <1>1
<1>5. persisted'[s] => persisted[s]
  BY <1>1
<1>6. ~published' => ~persisted'["b"]
  BY <1>1 DEF KeptInv, Pledged, Seat
<1>7. session = NoSession => ~published'
  BY <1>1 DEF KeptInv, Pledged
<1>8. CASE client' = [client EXCEPT ![s] = Off]
  <2>1. session' = NoSession => ~persisted'[s]
    BY <1>1, <1>5 DEF KeptInv, Fits
  <2>2. Fits(s, Off)'
    BY <2>1 DEF Fits, Off, NoView
  <2>3. Off.initial = "none"
    BY DEF Off
  <2> QED
    BY <1>1, <1>2, <1>3, <1>4, <1>6, <1>7, <1>8, <2>2, <2>3, AppKept
<1>9. CASE Break(s)
  <2>0. PICK c : c = [client[s] EXCEPT !.ws = 0]
    OBVIOUS
  <2>1. client' = [client EXCEPT ![s] = c] /\ UNCHANGED <<persisted, applying>>
    BY <1>9, <2>0, ClientFields DEF Break, App, storedVars
  <2>2. /\ c.view = client[s].view /\ c.token = client[s].token /\ c.applied = client[s].applied
        /\ c.initial = client[s].initial /\ c.failed = client[s].failed /\ c.ws = 0
    BY <2>0, ClientFields DEF App
  <2>3. Fits(s, c)
    BY <2>2 DEF KeptInv, Fits
  <2>4. Fits(s, c)'
    BY <1>1, <1>2, <2>1, <2>3 DEF Fits, Lasting
  <2>5. ~published' /\ s = "b" => c.initial = "none"
    BY <1>1, <2>2 DEF KeptInv, Pledged, Active
  <2> QED
    BY <1>1, <1>2, <1>3, <1>4, <1>6, <1>7, <2>1, <2>4, <2>5, AppKept
<1> QED
  BY <1>8, <1>9 DEF Quit, Reset

\* What a button leaves alone in the app, and that nobody calls the trade off.
LEMMA PressLeaves ==
  ASSUME Steady, RelayInv, NEW s \in Seat, Presses(s)
  PROVE  \E msg, c :
           /\ msg \in Request /\ msg.type \in DOMAIN Allowed /\ msg.type # "cancel"
           /\ Press(s, msg) /\ client' = [client EXCEPT ![s] = c]
           /\ c.ws = client[s].ws /\ c.initial = client[s].initial /\ c.token = client[s].token
           /\ c.view = client[s].view /\ c.applied = client[s].applied
           /\ c.failed = client[s].failed
<1>1. PICK msg \in Request, d \in App :
        /\ msg.type \in DOMAIN Allowed /\ Press(s, msg) /\ client' = [client EXCEPT ![s] = d]
        /\ d.ws = client[s].ws /\ d.initial = client[s].initial /\ d.token = client[s].token
        /\ d.nonce = client[s].nonce /\ d.failed = client[s].failed
  BY PressParts
<1>2. client[s] \in App /\ client \in [Seat -> App] /\ client'[s] = d
  BY <1>1, ClientFields
<1>3. client'[s].view = client[s].view /\ client'[s].applied = client[s].applied
  <2>1. CASE UNCHANGED client
    BY <2>1
  <2>2. CASE \E side \in Seat, o \in Offer : PressOffer(s, side, o)
    <3>1. PICK side \in Seat, o \in Offer : PressOffer(s, side, o)
      BY <2>2
    <3>2. client' = [client EXCEPT ![s].table[side] = o]
      BY <3>1 DEF PressOffer
    <3> QED
      BY <1>2, <3>2 DEF App
  <2> QED
    BY <2>1, <2>2 DEF Presses, PressAccept, PressUnaccept, PressConfirm, PressCancel
<1>4. msg.type # "cancel"
  <2>1. "cancel" \in DOMAIN Allowed /\ presses["cancel"] \in Nat
    BY DEF Allowed, RelayInv, Types, StoredTypes
  <2>2. presses[msg.type] < MaxPresses[msg.type]
    BY <1>1 DEF Press
  <2> QED
    BY <2>1, <2>2 DEF Steady
<1> QED
  BY <1>1, <1>2, <1>3, <1>4

LEMMA PressKept ==
  ASSUME Steady, RelayInv, KeptInv, NEW s \in Seat, Presses(s)
  PROVE  KeptInv'
<1>1. PICK msg, c :
        /\ msg \in Request /\ msg.type \in DOMAIN Allowed /\ msg.type # "cancel"
        /\ Press(s, msg) /\ client' = [client EXCEPT ![s] = c]
        /\ c.ws = client[s].ws /\ c.initial = client[s].initial /\ c.token = client[s].token
        /\ c.view = client[s].view /\ c.applied = client[s].applied
        /\ c.failed = client[s].failed
  BY PressLeaves
<1>0. PICK k : k = client[s].ws
  OBVIOUS
<1>2. /\ k \in DOMAIN conns /\ conns \in [DOMAIN conns -> Conn] /\ conns[k].up \in Seq(Request)
      /\ conns[k] \in Conn /\ conns[k].by = s
  BY <1>0, <1>1, ConnFields, ClientFields, LenProperties DEF Press, OnBoard, RelayInv, Sockets
<1>3. conns' = [conns EXCEPT ![k].up = Append(conns[k].up, msg)]
      /\ UNCHANGED <<session, attached, sealed, published, persisted, applying, recorded>>
  BY <1>0, <1>1, <1>2 DEF Press, serverVars
<1>4. /\ DOMAIN conns' = DOMAIN conns
      /\ \A i \in DOMAIN conns : i # k => conns'[i] = conns[i]
      /\ conns'[k].up = Append(conns[k].up, msg) /\ conns'[k].by = s
      /\ conns'[k].down = conns[k].down /\ conns'[k].open = conns[k].open
      /\ conns'[k].served = conns[k].served /\ conns'[k].bound = conns[k].bound
  BY <1>2, <1>3 DEF Conn
<1>5. /\ DOMAIN conns'[k].up = DOMAIN conns[k].up \cup {Len(conns[k].up) + 1}
      /\ \A j \in DOMAIN conns[k].up : conns'[k].up[j] = conns[k].up[j]
      /\ conns'[k].up[Len(conns[k].up) + 1] = msg
  BY <1>2, <1>4, Appended
<1>6. \A t \in Seat : Stored(t)' <=> Stored(t)
  BY <1>3 DEF Stored
<1>7. Lasting
  BY <1>3, <1>6 DEF Lasting
<1>8. Stored(s)
  BY <1>1 DEF Press, OnBoard, KeptInv, Fits, PreComplete
<1>9. ASSUME NEW i \in DOMAIN conns PROVE Calm(i)'
  <2>1. CASE i # k
    <3>1. Shrunk(i)
      BY <1>4, <2>1 DEF Shrunk
    <3> QED
      BY <1>3, <1>7, <3>1, CalmShrunk DEF KeptInv
  <2>2. CASE i = k
    <3>1. Calm(k)
      BY <1>2 DEF KeptInv
    <3>2. \A j \in DOMAIN conns'[k].up :
            /\ conns'[k].up[j].type # "cancel"
            /\ session = NoSession => conns'[k].up[j].type # "resume"
      <4>1. msg.type # "resume"
        BY <1>1 DEF Allowed
      <4> QED
        BY <1>1, <1>5, <3>1, <4>1 DEF Calm
    <3>3. conns[k].up # <<>> => conns'[k].up # <<>> /\ conns'[k].up[1] = conns[k].up[1]
      <4>1. SUFFICES ASSUME conns[k].up # <<>>
                     PROVE  conns'[k].up # <<>> /\ conns'[k].up[1] = conns[k].up[1]
        OBVIOUS
      <4>2. 1 \in DOMAIN conns[k].up
        BY <1>2, <4>1, Tailed
      <4>3. 1 \in DOMAIN conns'[k].up /\ DOMAIN <<>> = {}
        BY <1>5, <4>2
      <4> QED
        BY <1>5, <4>2, <4>3
    <3>4. Stored(conns[k].by)'
      BY <1>4, <1>6, <1>8 DEF Stored
    <3>5. conns'[k].open /\ conns'[k].served =>
            \/ conns'[k].bound
            \/ conns'[k].up # <<>> /\ conns'[k].up[1].type \in Greeting
      BY <1>4, <3>1, <3>3 DEF Calm
    <3>6. \A j \in DOMAIN conns'[k].down :
            conns'[k].down[j].type # "gone" /\ conns'[k].down[j].snap.state # "cancelled"
      BY <1>4, <3>1 DEF Calm
    <3>7. /\ ~published' => conns'[k].by = "a"
          /\ session' = NoSession => ~conns'[k].bound /\ conns'[k].down = <<>>
      BY <1>2, <1>3, <1>4, <3>1 DEF Calm
    <3>8. session' = session
      BY <1>3
    <3>9. Calm(k)'
      BY <3>2, <3>4, <3>5, <3>6, <3>7, <3>8 DEF Calm
    <3> QED
      BY <2>2, <3>9
  <2> QED
    BY <2>1, <2>2
<1>10. Fits(s, client[s])
  BY DEF KeptInv
<1>11. Fits(s, c)'
  BY <1>1, <1>3, <1>6, <1>10 DEF Fits
<1>12. session = NoSession => ~published'
  BY <1>3 DEF KeptInv, Pledged
<1>13. ~published' /\ s = "b" => c.initial = "none" /\ ~persisted'["b"]
  BY <1>1, <1>3 DEF KeptInv, Pledged, Active
<1> QED
  BY <1>1, <1>3, <1>4, <1>7, <1>9, <1>11, <1>12, <1>13, AppKept

\* Whatever an app reads, it has the trade stored afterwards.
LEMMA ReceiveKept ==
  ASSUME RelayInv, KeptInv, NEW s \in Seat, ClientReceive(s)
  PROVE  KeptInv'
<1>0. PICK k : k = client[s].ws
  OBVIOUS
<1>1. /\ k \in DOMAIN conns /\ conns \in [DOMAIN conns -> Conn] /\ conns[k] \in Conn
      /\ conns[k].down \in Seq(Answer) /\ conns[k].down # <<>> /\ conns[k].by = s
      /\ client[s] \in App /\ k # 0 /\ conns[k].open
  BY <1>0, ConnFields, ClientFields, LenProperties DEF ClientReceive, RelayInv, Sockets
<1>2. PICK msg : msg = Head(conns[k].down)
  OBVIOUS
<1>3. /\ msg = conns[k].down[1] /\ msg \in Answer /\ 1 \in DOMAIN conns[k].down
      /\ \A j \in DOMAIN Tail(conns[k].down) :
           j + 1 \in DOMAIN conns[k].down /\ Tail(conns[k].down)[j] = conns[k].down[j + 1]
  BY <1>1, <1>2, Tailed
<1>4. Calm(k) /\ Fits(s, client[s])
  BY <1>1 DEF KeptInv
<1>5. msg.type # "gone" /\ msg.snap.state # "cancelled" /\ session # NoSession
      /\ msg.snap.deal \in Deal
  BY <1>1, <1>3, <1>4 DEF Calm, Answer, View
<1>6. PICK c : c = IF msg.type = "seat" THEN [client[s] EXCEPT !.token = TRUE, !.applied = FALSE]
                                        ELSE client[s]
  OBVIOUS
<1>7. PICK d : d = Shown(c, msg.snap)
  OBVIOUS
<1>8. /\ conns' = [conns EXCEPT ![k].down = Tail(conns[k].down)]
      /\ client' = [client EXCEPT ![s] = d]
      /\ applying' = [applying EXCEPT ![s] =
                        IF Applies(c, msg.snap) THEN msg.snap.deal ELSE applying[s]]
      /\ persisted' = [persisted EXCEPT ![s] = StaysStored(s, msg)]
      /\ published' = (published \/ (s = "a" /\ msg.type = "seat"))
      /\ UNCHANGED <<session, attached, sealed, recorded>>
  BY <1>0, <1>1, <1>2, <1>5, <1>6, <1>7 DEF ClientReceive, serverVars
<1>9. /\ c.view = client[s].view /\ c.initial = client[s].initial /\ c.failed = client[s].failed
      /\ c.ws = k /\ (client[s].token => c.token)
      /\ c.applied => client[s].applied
      /\ c \in App
  BY <1>0, <1>1, <1>6 DEF App
<1>10. /\ d.view = msg.snap /\ d.initial = client[s].initial /\ d.failed = client[s].failed
       /\ d.ws = k /\ (client[s].token => d.token)
       /\ d.applied <=> c.applied \/ msg.snap.state = "completed"
  BY <1>7, <1>9 DEF Shown, App
<1>11. Stored(s)'
  <2>1. Stored(s) \/ msg.type = "seat"
    BY <1>1, <1>3, <1>4 DEF Calm, Introduced
  <2>2. persisted'[s] = (msg.type = "seat" \/ persisted[s])
    BY <1>5, <1>8 DEF StaysStored, RelayInv, Types, StoredTypes
  <2> QED
    BY <1>8, <2>1, <2>2 DEF Stored
<1>12. \A t \in Seat : t # s => /\ persisted'[t] = persisted[t] /\ applying'[t] = applying[t]
                                /\ recorded'[t] = recorded[t]
  BY <1>8 DEF RelayInv, Types, StoredTypes
<1>13. Lasting
  <2>1. ASSUME NEW t \in Seat, Stored(t) PROVE Stored(t)'
    <3>1. CASE t = s
      BY <1>11, <3>1 DEF Stored
    <3>2. CASE t # s
      BY <1>12, <2>1, <3>2 DEF Stored
    <3> QED
      BY <3>1, <3>2
  <2>2. published => published'
    BY <1>8
  <2> QED
    BY <2>1, <2>2 DEF Lasting
<1>14. /\ DOMAIN conns' = DOMAIN conns
       /\ \A i \in DOMAIN conns : i # k => conns'[i] = conns[i]
       /\ conns'[k].down = Tail(conns[k].down) /\ conns'[k].up = conns[k].up
       /\ conns'[k].by = s /\ conns'[k].open = conns[k].open
       /\ conns'[k].served = conns[k].served /\ conns'[k].bound = conns[k].bound
  BY <1>1, <1>8 DEF Conn
<1>15. ASSUME NEW i \in DOMAIN conns PROVE Calm(i)'
  <2>1. CASE i # k
    <3>1. Shrunk(i)
      BY <1>14, <2>1 DEF Shrunk
    <3> QED
      BY <1>8, <1>13, <3>1, CalmShrunk DEF KeptInv
  <2>2. CASE i = k
    <3>1. \A j \in DOMAIN conns'[k].down :
            conns'[k].down[j].type # "gone" /\ conns'[k].down[j].snap.state # "cancelled"
      BY <1>3, <1>4, <1>14 DEF Calm
    <3>2. Stored(conns[k].by)'
      BY <1>11, <1>14 DEF Stored
    <3>3. /\ conns'[k].open /\ conns'[k].served =>
               \/ conns'[k].bound
               \/ conns'[k].up # <<>> /\ conns'[k].up[1].type \in Greeting
          /\ \A j \in DOMAIN conns'[k].up : conns'[k].up[j].type # "cancel"
      BY <1>4, <1>14 DEF Calm
    <3>4. session' # NoSession /\ (~published' => conns'[k].by = "a")
      BY <1>1, <1>4, <1>5, <1>8, <1>14 DEF Calm
    <3>5. Calm(k)'
      BY <3>1, <3>2, <3>3, <3>4 DEF Calm
    <3> QED
      BY <2>2, <3>5
  <2> QED
    BY <2>1, <2>2
<1>16. d.applied => recorded'[s] # <<>> \/ applying'[s] # Nothing \/ d.failed # Nothing
  <2>1. applying'[s] = IF Applies(c, msg.snap) THEN msg.snap.deal ELSE applying[s]
    BY <1>8 DEF RelayInv, Types, StoredTypes
  <2>2. msg.snap.deal # Nothing
    BY <1>5, RelayAssumption
  <2> QED
    BY <1>4, <1>8, <1>9, <1>10, <2>1, <2>2 DEF Applies, Fits
<1>17. Fits(s, d)'
  <2>1. session' # NoSession /\ d.initial # "none"
    BY <1>0, <1>1, <1>4, <1>5, <1>8, <1>10 DEF Fits
  <2>2. d.view.state # "cancelled" /\ (d.view.state = "completed" => d.applied)
        /\ (d.initial = "resume" => d.token)
    BY <1>4, <1>5, <1>10 DEF Fits
  <2> QED
    BY <1>11, <1>16, <2>1, <2>2 DEF Fits
<1>18. session = NoSession => ~published'
  BY <1>5
<1>19. ~published' /\ s = "b" => FALSE
  BY <1>1, <1>4, <1>8 DEF Calm
<1>20. \A i \in DOMAIN conns' : Calm(i)'
  BY <1>14, <1>15
<1>21. UNCHANGED <<session, attached, sealed>> /\ client' = [client EXCEPT ![s] = d]
  BY <1>8
<1> QED
  BY <1>12, <1>13, <1>17, <1>18, <1>19, <1>20, <1>21, AppKept

LEMMA WritesKept ==
  ASSUME RelayInv, KeptInv, NEW s \in Seat, Commit(s) \/ Fail(s) \/ RetryApply(s)
  PROVE  KeptInv'
<1>1. /\ client[s] \in App /\ client \in [Seat -> App] /\ persisted \in [Seat -> BOOLEAN]
      /\ applying \in [Seat -> Tables] /\ recorded \in [Seat -> Seq(Deal)]
      /\ Fits(s, client[s]) /\ (session = NoSession => ~published)
      /\ (~published => client["b"].initial = "none" /\ ~persisted["b"])
  BY ClientFields DEF RelayInv, Types, StoredTypes, KeptInv, Pledged, Active
<1>2. UNCHANGED <<session, attached, sealed, published>>
  BY DEF Commit, Fail, RetryApply, serverVars
<1>3. CASE Commit(s)
  <2>1. /\ recorded' = [recorded EXCEPT ![s] = Records(s)]
        /\ applying' = [applying EXCEPT ![s] = Nothing]
        /\ persisted' \in {persisted, [persisted EXCEPT ![s] = FALSE]}
    BY <1>3 DEF Commit
  <2>2. Records(s) # <<>>
    BY DEF Records
  <2>3. /\ recorded'[s] # <<>>
        /\ \A t \in Seat : t # s => /\ persisted'[t] = persisted[t] /\ applying'[t] = applying[t]
                                    /\ recorded'[t] = recorded[t]
        /\ \A t \in Seat : persisted'[t] => persisted[t]
    BY <1>1, <2>1, <2>2
  <2>4. Lasting
    <3>1. ASSUME NEW t \in Seat, Stored(t) PROVE Stored(t)'
      <4>1. CASE t = s
        BY <2>3, <4>1 DEF Stored
      <4>2. CASE t # s
        BY <2>3, <3>1, <4>2 DEF Stored
      <4> QED
        BY <4>1, <4>2
    <3> QED
      BY <1>2, <3>1 DEF Lasting
  <2>5. session = NoSession => ~published'
    BY <1>1, <1>2
  <2>6. ~published' => client["b"].initial = "none" /\ ~persisted'["b"]
    BY <1>1, <1>2, <2>3 DEF Seat
  <2>7. CASE UNCHANGED <<conns, client>>
    <3>0. PICK c : c = client[s]
      OBVIOUS
    <3>1. client' = [client EXCEPT ![s] = c]
      BY <1>1, <2>7, <3>0
    <3>2. Fits(s, c)'
      BY <1>1, <1>2, <2>3, <3>0 DEF Fits, Stored
    <3>3. ASSUME NEW k \in DOMAIN conns PROVE Calm(k)'
      <4>1. Shrunk(k)
        BY <2>7 DEF Shrunk
      <4> QED
        BY <1>2, <2>4, <4>1, CalmShrunk DEF KeptInv
    <3>4. \A k \in DOMAIN conns' : Calm(k)'
      BY <2>7, <3>3
    <3> QED
      BY <1>2, <2>3, <2>4, <2>5, <2>6, <3>0, <3>1, <3>2, <3>4, AppKept
  <2>8. CASE conns' = HungUp(client[s].ws) /\ client' = [client EXCEPT ![s] = Off]
    <3>1. session' = NoSession => ~persisted'[s]
      BY <1>1, <1>2, <2>3 DEF Fits
    <3>2. Fits(s, Off)' /\ Off.initial = "none"
      BY <3>1 DEF Fits, Off, NoView
    <3>3. \A k \in DOMAIN conns' : Calm(k)'
      BY <1>2, <2>4, <2>8, HungUpCalm
    <3> QED
      BY <1>2, <2>3, <2>4, <2>5, <2>6, <2>8, <3>2, <3>3, AppKept
  <2> QED
    BY <1>3, <2>7, <2>8 DEF Commit
<1>4. CASE Fail(s) \/ RetryApply(s)
  <2>1. UNCHANGED <<conns, persisted, recorded>>
    BY <1>4 DEF Fail, RetryApply
  <2>2. Lasting
    BY <1>2, <2>1 DEF Lasting, Stored
  <2>3. ASSUME NEW k \in DOMAIN conns PROVE Calm(k)'
    <3>1. Shrunk(k)
      BY <2>1 DEF Shrunk
    <3> QED
      BY <1>2, <2>2, <3>1, CalmShrunk DEF KeptInv
  <2>4. \A k \in DOMAIN conns' : Calm(k)'
    BY <2>1, <2>3
  <2>5. PICK v : /\ client' = [client EXCEPT ![s].failed = v]
                 /\ \E w : applying' = [applying EXCEPT ![s] = w] /\ (w # Nothing \/ v # Nothing \/ ~Active(s))
    BY <1>1, <1>4 DEF Fail, RetryApply
  <2>6. PICK c : c = [client[s] EXCEPT !.failed = v]
    OBVIOUS
  <2>7. /\ client' = [client EXCEPT ![s] = c] /\ c.failed = v /\ c.ws = client[s].ws
        /\ c.view = client[s].view /\ c.token = client[s].token /\ c.applied = client[s].applied
        /\ c.initial = client[s].initial
    BY <1>1, <2>5, <2>6 DEF App
  <2>8. \A t \in Seat : t # s => applying'[t] = applying[t]
    BY <1>1, <2>5
  <2>9. c.applied => applying'[s] # Nothing \/ c.failed # Nothing
    BY <1>1, <2>5, <2>7 DEF Fits, Active
  <2>10. Fits(s, c)'
    BY <1>1, <1>2, <2>1, <2>2, <2>7, <2>9 DEF Fits, Lasting
  <2>11. ~published' /\ s = "b" => c.initial = "none" /\ ~persisted'["b"]
    BY <1>1, <1>2, <2>1, <2>7
  <2>12. session = NoSession => ~published'
    BY <1>1, <1>2
  <2> QED
    BY <1>2, <2>1, <2>2, <2>4, <2>7, <2>8, <2>10, <2>11, <2>12, AppKept
<1> QED
  BY <1>3, <1>4

LEMMA KeptInit == Init => KeptInv
<1>1. ASSUME Init PROVE KeptInv
  <2>1. /\ session = NoSession /\ conns = <<>> /\ DOMAIN conns = {} /\ ~published
        /\ \A s \in Seat : ~persisted[s] /\ client[s] = Off
        /\ sealed = Nothing
    BY <1>1 DEF Init, SessionInit
  <2>2. \A s \in Seat : Fits(s, client[s])
    BY <2>1 DEF Fits, Off, NoView
  <2>3. Pledged
    BY <2>1 DEF Pledged, Active, Off, Seat
  <2> QED
    BY <2>1, <2>2, <2>3 DEF KeptInv
<1> QED
  BY <1>1

LEMMA KeptNext ==
  ASSUME Steady, RelayInv, RelayInv', KeptInv, [Next]_vars
  PROVE  KeptInv'
<1>1. CASE BeginCreate \/ BeginJoin
  BY <1>1, ReachesKept DEF Seat
<1>2. ASSUME NEW s \in Seat, AppStep(s) PROVE KeptInv'
  BY <1>2, ReachesKept, HangsUpKept, PressKept, ReceiveKept, WritesKept DEF AppStep, Presses
<1>3. ASSUME NEW s \in Seat, Lapse(s) \/ Expire PROVE FALSE
  BY <1>3 DEF Lapse, Expire, Steady
<1>4. ASSUME NEW k \in DOMAIN conns, RelayStep(k) PROVE KeptInv'
  BY <1>4, HandleKept, CloseKept DEF RelayStep
<1>5. CASE UNCHANGED vars
  <2>1. Lasting
    BY <1>5 DEF vars, Lasting, Stored
  <2>2. ASSUME NEW k \in DOMAIN conns PROVE Calm(k)'
    <3>1. Shrunk(k)
      BY <1>5 DEF vars, Shrunk
    <3> QED
      BY <1>5, <2>1, <3>1, CalmShrunk DEF vars, KeptInv
  <2>3. DOMAIN conns' = DOMAIN conns
    BY <1>5 DEF vars
  <2>4. \A s \in Seat : Fits(s, client[s])'
    BY <1>5 DEF vars, KeptInv, Fits, Stored
  <2>5. Pledged'
    BY <1>5 DEF vars, KeptInv, Pledged, Active, Stored
  <2> QED
    BY <2>2, <2>3, <2>4, <2>5 DEF KeptInv
<1> QED
  BY <1>1, <1>2, <1>3, <1>4, <1>5 DEF Next, Seat

\* A deal that was sealed is in a seat's collection, being written, or stored
\* for taking up again, however sockets break, handshakes arrive late, tabs are
\* closed and writes fail (persist and clearPersisted of useTradeSession.ts).
THEOREM RelaySealedKept == ASSUME Steady PROVE Spec => []SealedIsKept
<1>1. KeptInv => SealedIsKept
  BY DEF KeptInv, Pledged, Stored, SealedIsKept
<1>2. RelayInv /\ RelayInv' /\ KeptInv /\ [Next]_vars => KeptInv'
  BY KeptNext
<1> QED
  BY <1>1, <1>2, KeptInit, RelayInvariant, PTL DEF Spec

-----------------------------------------------------------------------------
(***************************************************************************)
(* A confirmation stands for the table its sender saw, as long as sockets  *)
(* hold and no button is tapped while its last tap goes on. Both are       *)
(* needed: README, section 5.                                              *)
(***************************************************************************)
Unbroken == ~Lossy /\ ~Impatient

\* Nothing more will come of the trade: it was dropped, or is over with both
\* seats taken, so that no join opens it again.
Closed == {"completed", "cancelled"}
Ended == published /\ (session # NoSession => session.joiner # 0 /\ session.state \in Closed)

\* With sockets that hold, the creator has one and the joiner one as long as
\* anything can come of the trade; nobody resumes; and the relay tells each
\* seat on a socket of its own.
Lone ==
  /\ \A k \in DOMAIN conns :
       /\ conns[k].open => conns[k].served
       /\ \A i \in DOMAIN conns[k].up : conns[k].up[i].type # "resume"
       /\ ~published => conns[k].by = "a"
       /\ ~Active(conns[k].by) => published /\ (conns[k].by = "b" => Ended)
       /\ \A j \in DOMAIN conns : conns[j].by = conns[k].by =>
            j = k \/ (conns[k].by = "b" /\ Ended)
  /\ \A s \in Seat : /\ client[s].ws = 0 <=> ~Active(s)
                     /\ persisted[s] => Active(s)
                     /\ attached[s] # 0 => conns[attached[s]].by = s /\ conns[attached[s]].bound
  /\ ~published => ~Active("b") /\ \A s \in Seat : client[s].view = NoView

\* Who sits down has a socket, and who sat down had one.
Guest == session # NoSession /\ session.joiner # 0 => \E k \in DOMAIN conns : conns[k].by = "b"

\* A socket before and after its greeting was handled.
Meets(k) ==
  /\ ~conns[k].bound =>
       /\ \A i \in DOMAIN conns[k].up : i = 1 /\ conns[k].up[i].type \in Greeting
       /\ conns[k].open => conns[k].down = <<>> /\ client[conns[k].by].view = NoView
  /\ conns[k].bound =>
       /\ \A i \in DOMAIN conns[k].up : published /\ conns[k].up[i].type \notin Greeting
       /\ conns[k].open /\ ~published => Introduced(k)
       /\ conns[k].open /\ session # NoSession => attached[conns[k].by] = k
  /\ \A i \in DOMAIN conns[k].down : conns[k].down[i].type # "gone"
  /\ conns[k].by = "b" =>
       /\ session # NoSession => (conns[k].bound <=> session.joiner # 0)
       /\ conns[k].open => client["b"].view.state \notin Closed
       /\ \A i \in DOMAIN conns[k].down : conns[k].down[i].snap.state \notin Closed

\* What a seat is shown, one snapshot after the other: the one on its screen,
\* then those on their way. An acceptance under way is the only one, and comes
\* back as the first snapshot that says accepted; without one, what is not
\* accepted stays so; and what is accepted throughout is one deal, which the
\* seat did not edit meanwhile.
Shows(v, down, i) == IF i = 0 THEN v ELSE down[i].snap
Story(s, v, up, down, now) ==
  /\ \A i \in DOMAIN up : up[i].type = "accept" =>
       /\ \A j \in DOMAIN up : up[j].type = "accept" => j = i
       /\ \A m \in DOMAIN down : down[m].cause # <<s, "accept">>
       /\ \A m \in 0..Len(down) : ~Shows(v, down, m).accepted[s]
       /\ ~now.accepted[s]
  /\ \A m \in DOMAIN down : down[m].cause = <<s, "accept">> =>
       /\ \A j \in DOMAIN down : down[j].cause = <<s, "accept">> => j = m
       /\ \A i \in 0..Len(down) : i < m => ~Shows(v, down, i).accepted[s]
  /\ \A i \in 0..Len(down) :
       /\ ~Shows(v, down, i).accepted[s]
          /\ (\A m \in DOMAIN down : i < m => down[m].cause # <<s, "accept">>) =>
            /\ ~now.accepted[s]
            /\ \A m \in DOMAIN down : i < m => ~down[m].snap.accepted[s]
       /\ Shows(v, down, i).accepted[s] /\ now.accepted[s] =>
            /\ now.deal = Shows(v, down, i).deal
            /\ \A m \in DOMAIN down : i < m => down[m].cause # <<s, "offer">>
       /\ Shows(v, down, i).state = "agreed" => Shows(v, down, i).accepted[s]
       /\ now.joiner = 0 => ~Shows(v, down, i).accepted[s]

\* The table of the board is the one shown, unless an own edit is under way.
Board(s, c, up, down, now) ==
  \/ c.table = c.view.deal
  \/ \E i \in DOMAIN up : up[i].type = "offer"
  \/ \E m \in DOMAIN down : down[m].cause = <<s, "offer">>
  \/ now.state \in Closed
  \/ ~c.view.accepted[s]

\* A confirmation under way is for the table that lies there, unless by the
\* time it arrives there is no acceptance of its sender for it to complete.
Affirms(s, up, now) ==
  \A i \in DOMAIN up : up[i].type = "confirm" =>
    /\ \A j \in DOMAIN up : j < i => up[j].type # "accept"
    /\ now.accepted[s] /\ now.state \notin Closed
       /\ (\A j \in DOMAIN up : j < i => up[j].type # "offer") => up[i].table = now.deal

Tale(k) ==
  LET s == conns[k].by
  IN  session # NoSession =>
        /\ Affirms(s, conns[k].up, session)
        /\ conns[k].open /\ conns[k].bound =>
             /\ Story(s, client[s].view, conns[k].up, conns[k].down, session)
             /\ Board(s, client[s], conns[k].up, conns[k].down, session)

SeenInv ==
  /\ ConfirmedAsSeen
  /\ Lone
  /\ Guest
  /\ ~Ended => \A k \in DOMAIN conns : Meets(k) /\ Tale(k)

\* What happens to the queues of one socket, to what was told.
LEMMA ShowsMore ==
  ASSUME NEW v, NEW down \in Seq(Answer), NEW e \in Answer
  PROVE  /\ Len(down) \in Nat /\ Len(Append(down, e)) = Len(down) + 1
         /\ DOMAIN down = 1..Len(down) /\ DOMAIN Append(down, e) = DOMAIN down \cup {Len(down) + 1}
         /\ \A m \in DOMAIN down : Append(down, e)[m] = down[m]
         /\ Append(down, e)[Len(down) + 1] = e
         /\ \A i \in 0..Len(down) : Shows(v, Append(down, e), i) = Shows(v, down, i)
         /\ Shows(v, Append(down, e), Len(down) + 1) = e.snap
<1>1. /\ Len(down) \in Nat /\ DOMAIN down = 1..Len(down)
      /\ Len(Append(down, e)) = Len(down) + 1
      /\ DOMAIN Append(down, e) = DOMAIN down \cup {Len(down) + 1}
      /\ \A m \in DOMAIN down : Append(down, e)[m] = down[m]
      /\ Append(down, e)[Len(down) + 1] = e
  BY Appended, AppendProperties, LenProperties
<1>2. ASSUME NEW i \in 0..Len(down) PROVE Shows(v, Append(down, e), i) = Shows(v, down, i)
  <2>1. i = 0 \/ i \in DOMAIN down
    BY <1>1
  <2> QED
    BY <1>1, <2>1 DEF Shows
<1>3. Shows(v, Append(down, e), Len(down) + 1) = e.snap
  BY <1>1 DEF Shows
<1> QED
  BY <1>1, <1>2, <1>3

\* A snapshot is sent.
LEMMA StoryTold ==
  ASSUME NEW s, NEW v, NEW up, NEW down \in Seq(Answer), NEW e \in Answer, NEW now, NEW then,
         Story(s, v, up, down, now),
         e.snap.accepted[s] = then.accepted[s], e.snap.deal = then.deal,
         e.snap.state = "agreed" => e.snap.accepted[s],
         then.accepted[s] /\ ~now.accepted[s] => e.cause = <<s, "accept">>,
         e.cause = <<s, "accept">> =>
           /\ \A i \in DOMAIN up : up[i].type # "accept"
           /\ \A m \in DOMAIN down : down[m].cause # <<s, "accept">>
           /\ \A i \in 0..Len(down) : ~Shows(v, down, i).accepted[s],
         now.accepted[s] /\ then.accepted[s] => then.deal = now.deal /\ e.cause # <<s, "offer">>,
         then.joiner = 0 => now.joiner = 0 /\ ~then.accepted[s]
  PROVE  Story(s, v, up, Append(down, e), then)
<1> DEFINE more == Append(down, e)
           n == Len(down)
<1>1. /\ n \in Nat /\ Len(more) = n + 1 /\ DOMAIN down = 1..n
      /\ DOMAIN more = DOMAIN down \cup {n + 1}
      /\ \A m \in DOMAIN down : more[m] = down[m]
      /\ more[n + 1] = e
      /\ \A i \in 0..n : Shows(v, more, i) = Shows(v, down, i)
      /\ Shows(v, more, n + 1) = e.snap
  BY ShowsMore
<1>2. \A i \in 0..Len(more) : i \in 0..n \/ i = n + 1
  BY <1>1
<1> HIDE DEF more, n
<1>3. ASSUME NEW i \in DOMAIN up, up[i].type = "accept"
      PROVE  /\ \A j \in DOMAIN up : up[j].type = "accept" => j = i
             /\ \A m \in DOMAIN more : more[m].cause # <<s, "accept">>
             /\ \A m \in 0..Len(more) : ~Shows(v, more, m).accepted[s]
             /\ ~then.accepted[s]
  <2>1. /\ \A j \in DOMAIN up : up[j].type = "accept" => j = i
        /\ \A m \in DOMAIN down : down[m].cause # <<s, "accept">>
        /\ \A m \in 0..n : ~Shows(v, down, m).accepted[s]
        /\ ~now.accepted[s]
    BY <1>3 DEF Story, n
  <2>2. e.cause # <<s, "accept">> /\ ~then.accepted[s]
    BY <1>3, <2>1
  <2> QED
    BY <1>1, <1>2, <2>1, <2>2
<1>4. ASSUME NEW m \in DOMAIN more, more[m].cause = <<s, "accept">>
      PROVE  /\ \A j \in DOMAIN more : more[j].cause = <<s, "accept">> => j = m
             /\ \A i \in 0..Len(more) : i < m => ~Shows(v, more, i).accepted[s]
  <2>1. CASE m \in DOMAIN down
    <3>1. /\ \A j \in DOMAIN down : down[j].cause = <<s, "accept">> => j = m
          /\ \A i \in 0..n : i < m => ~Shows(v, down, i).accepted[s]
          /\ e.cause # <<s, "accept">>
      BY <1>1, <1>4, <2>1 DEF Story, n
    <3>2. ~(n + 1 < m)
      BY <1>1, <2>1
    <3> QED
      BY <1>1, <1>2, <3>1, <3>2
  <2>2. CASE m = n + 1
    <3>1. /\ \A j \in DOMAIN down : down[j].cause # <<s, "accept">>
          /\ \A i \in 0..n : ~Shows(v, down, i).accepted[s]
      BY <1>1, <1>4, <2>2 DEF n
    <3> QED
      BY <1>1, <1>2, <2>2, <3>1
  <2> QED
    BY <1>1, <2>1, <2>2
<1>5. ASSUME NEW i \in 0..Len(more)
      PROVE  /\ ~Shows(v, more, i).accepted[s]
                /\ (\A m \in DOMAIN more : i < m => more[m].cause # <<s, "accept">>) =>
                  /\ ~then.accepted[s]
                  /\ \A m \in DOMAIN more : i < m => ~more[m].snap.accepted[s]
             /\ Shows(v, more, i).accepted[s] /\ then.accepted[s] =>
                  /\ then.deal = Shows(v, more, i).deal
                  /\ \A m \in DOMAIN more : i < m => more[m].cause # <<s, "offer">>
             /\ Shows(v, more, i).state = "agreed" => Shows(v, more, i).accepted[s]
             /\ then.joiner = 0 => ~Shows(v, more, i).accepted[s]
  <2>1. CASE i = n + 1
    <3>1. \A m \in DOMAIN more : ~(i < m)
      BY <1>1, <2>1
    <3> QED
      BY <1>1, <2>1, <3>1
  <2>2. CASE i \in 0..n
    <3>1. /\ ~Shows(v, down, i).accepted[s]
             /\ (\A m \in DOMAIN down : i < m => down[m].cause # <<s, "accept">>) =>
               /\ ~now.accepted[s]
               /\ \A m \in DOMAIN down : i < m => ~down[m].snap.accepted[s]
          /\ Shows(v, down, i).accepted[s] /\ now.accepted[s] =>
               /\ now.deal = Shows(v, down, i).deal
               /\ \A m \in DOMAIN down : i < m => down[m].cause # <<s, "offer">>
          /\ Shows(v, down, i).state = "agreed" => Shows(v, down, i).accepted[s]
          /\ now.joiner = 0 => ~Shows(v, down, i).accepted[s]
      BY <2>2 DEF Story, n
    <3>2. i < n + 1
      BY <1>1, <2>2
    <3>3. ASSUME ~Shows(v, more, i).accepted[s],
                 \A m \in DOMAIN more : i < m => more[m].cause # <<s, "accept">>
          PROVE  /\ ~then.accepted[s]
                 /\ \A m \in DOMAIN more : i < m => ~more[m].snap.accepted[s]
      <4>1. e.cause # <<s, "accept">>
        BY <1>1, <3>2, <3>3
      <4>2. \A m \in DOMAIN down : i < m => down[m].cause # <<s, "accept">>
        BY <1>1, <3>3
      <4>3. ~now.accepted[s] /\ \A m \in DOMAIN down : i < m => ~down[m].snap.accepted[s]
        BY <1>1, <2>2, <3>1, <3>3, <4>2
      <4> QED
        BY <1>1, <4>1, <4>3
    <3>4. ASSUME Shows(v, more, i).accepted[s], then.accepted[s]
          PROVE  /\ then.deal = Shows(v, more, i).deal
                 /\ \A m \in DOMAIN more : i < m => more[m].cause # <<s, "offer">>
      <4>1. Shows(v, down, i).accepted[s]
        BY <1>1, <2>2, <3>4
      <4>2. now.accepted[s]
        BY <2>2, <3>4, <4>1 DEF n
      <4> QED
        BY <1>1, <2>2, <3>1, <3>4, <4>1, <4>2
    <3> QED
      BY <1>1, <2>2, <3>1, <3>3, <3>4
  <2> QED
    BY <1>2, <2>1, <2>2
<1> QED
  BY <1>3, <1>4, <1>5 DEF Story, more

\* A message is handled.
LEMMA StoryHandled ==
  ASSUME NEW s, NEW v, NEW up \in Seq(Request), NEW down, NEW now, up # <<>>,
         Story(s, v, up, down, now)
  PROVE  Story(s, v, Tail(up), down, now)
<1>1. \A j \in DOMAIN Tail(up) : j \in Nat \ {0} /\ j + 1 \in DOMAIN up /\ Tail(up)[j] = up[j + 1]
  BY Tailed
<1>2. ASSUME NEW i \in DOMAIN Tail(up), Tail(up)[i].type = "accept"
      PROVE  /\ \A j \in DOMAIN Tail(up) : Tail(up)[j].type = "accept" => j = i
             /\ \A m \in DOMAIN down : down[m].cause # <<s, "accept">>
             /\ \A m \in 0..Len(down) : ~Shows(v, down, m).accepted[s]
             /\ ~now.accepted[s]
  <2>1. i + 1 \in DOMAIN up /\ up[i + 1].type = "accept" /\ i \in Nat
    BY <1>1, <1>2
  <2>2. /\ \A j \in DOMAIN up : up[j].type = "accept" => j = i + 1
        /\ \A m \in DOMAIN down : down[m].cause # <<s, "accept">>
        /\ \A m \in 0..Len(down) : ~Shows(v, down, m).accepted[s]
        /\ ~now.accepted[s]
    BY <2>1 DEF Story
  <2>3. ASSUME NEW j \in DOMAIN Tail(up), Tail(up)[j].type = "accept" PROVE j = i
    <3>1. j + 1 = i + 1 /\ j \in Nat
      BY <1>1, <2>2, <2>3
    <3> QED
      BY <2>1, <3>1
  <2> QED
    BY <2>2, <2>3
<1> QED
  BY <1>2 DEF Story

\* A button adds a message; the one that accepts only when nothing shown is
\* accepted.
LEMMA StoryPressed ==
  ASSUME NEW s, NEW v, NEW up \in Seq(Request), NEW down \in Seq(Answer), NEW now,
         NEW msg \in Request, Story(s, v, up, down, now),
         msg.type = "accept" =>
           /\ ~v.accepted[s]
           /\ \A i \in DOMAIN up : up[i].type # "accept"
           /\ \A m \in DOMAIN down : down[m].cause # <<s, "accept">>
  PROVE  Story(s, v, Append(up, msg), down, now)
<1> DEFINE more == Append(up, msg)
<1>1. /\ DOMAIN more = DOMAIN up \cup {Len(up) + 1}
      /\ \A j \in DOMAIN up : more[j] = up[j]
      /\ more[Len(up) + 1] = msg
  BY Appended
<1> HIDE DEF more
<1>2. /\ Len(down) \in Nat /\ DOMAIN down = 1..Len(down) /\ 0 \in 0..Len(down)
      /\ \A m \in DOMAIN down : 0 < m
  BY LenProperties
<1>3. ASSUME msg.type = "accept"
      PROVE  ~now.accepted[s] /\ \A m \in 0..Len(down) : ~Shows(v, down, m).accepted[s]
  <2>1. Shows(v, down, 0) = v
    BY DEF Shows
  <2>2. ~now.accepted[s] /\ \A m \in DOMAIN down : ~down[m].snap.accepted[s]
    BY <1>2, <1>3, <2>1 DEF Story
  <2>3. ASSUME NEW m \in 0..Len(down), m # 0 PROVE m \in DOMAIN down /\ Shows(v, down, m) = down[m].snap
    BY <1>2, <2>3 DEF Shows
  <2> QED
    BY <1>3, <2>1, <2>2, <2>3
<1>4. ASSUME NEW i \in DOMAIN more, more[i].type = "accept"
      PROVE  /\ \A j \in DOMAIN more : more[j].type = "accept" => j = i
             /\ \A m \in DOMAIN down : down[m].cause # <<s, "accept">>
             /\ \A m \in 0..Len(down) : ~Shows(v, down, m).accepted[s]
             /\ ~now.accepted[s]
  <2>1. CASE msg.type = "accept"
    <3>1. \A j \in DOMAIN more : more[j].type = "accept" => j = Len(up) + 1
      BY <1>1, <2>1
    <3> QED
      BY <1>3, <1>4, <2>1, <3>1
  <2>2. CASE msg.type # "accept"
    <3>1. i \in DOMAIN up /\ up[i].type = "accept"
      BY <1>1, <1>4, <2>2
    <3>2. /\ \A j \in DOMAIN up : up[j].type = "accept" => j = i
          /\ \A m \in DOMAIN down : down[m].cause # <<s, "accept">>
          /\ \A m \in 0..Len(down) : ~Shows(v, down, m).accepted[s]
          /\ ~now.accepted[s]
      BY <3>1 DEF Story
    <3> QED
      BY <1>1, <2>2, <3>2
  <2> QED
    BY <2>1, <2>2
<1> QED
  BY <1>4 DEF Story, more

\* The app reads a snapshot.
LEMMA StoryRead ==
  ASSUME NEW s, NEW v, NEW up, NEW down \in Seq(Answer), NEW now, down # <<>>,
         Story(s, v, up, down, now)
  PROVE  Story(s, Head(down).snap, up, Tail(down), now)
<1> DEFINE w == Head(down).snap
           rest == Tail(down)
<1>1. /\ Head(down) = down[1] /\ 1 \in DOMAIN down /\ rest \in Seq(Answer)
      /\ \A j \in DOMAIN rest : j \in Nat \ {0} /\ j + 1 \in DOMAIN down /\ rest[j] = down[j + 1]
  BY Tailed
<1>2. /\ Len(down) \in Nat \ {0} /\ Len(rest) = Len(down) - 1
      /\ DOMAIN down = 1..Len(down) /\ DOMAIN rest = 1..Len(rest)
  BY <1>1, HeadTailProperties, EmptySeq, LenProperties
<1> HIDE DEF w, rest
<1>3. ASSUME NEW i \in 0..Len(rest)
      PROVE  i + 1 \in 0..Len(down) /\ Shows(w, rest, i) = Shows(v, down, i + 1) /\ i \in Nat
  <2>1. i + 1 \in 0..Len(down) /\ i \in Nat /\ i + 1 # 0
    BY <1>2
  <2>2. CASE i = 0
    BY <1>1, <2>1, <2>2 DEF Shows, w
  <2>3. CASE i # 0
    <3>1. i \in DOMAIN rest
      BY <1>2, <2>1, <2>3
    <3>2. rest[i] = down[i + 1]
      BY <1>1, <3>1
    <3> QED
      BY <2>1, <2>3, <3>2 DEF Shows
  <2> QED
    BY <2>2, <2>3
<1>4. ASSUME NEW m \in DOMAIN down, m # 1 PROVE m - 1 \in DOMAIN rest /\ rest[m - 1] = down[m] /\ m \in Nat
  <2>1. m - 1 \in DOMAIN rest /\ (m - 1) + 1 = m /\ m \in Nat
    BY <1>2, <1>4
  <2>2. rest[m - 1] = down[(m - 1) + 1]
    BY <1>1, <2>1
  <2> QED
    BY <2>1, <2>2
<1>5. ASSUME NEW i \in DOMAIN up, up[i].type = "accept"
      PROVE  /\ \A j \in DOMAIN up : up[j].type = "accept" => j = i
             /\ \A m \in DOMAIN rest : rest[m].cause # <<s, "accept">>
             /\ \A m \in 0..Len(rest) : ~Shows(w, rest, m).accepted[s]
             /\ ~now.accepted[s]
  <2>1. /\ \A j \in DOMAIN up : up[j].type = "accept" => j = i
        /\ \A m \in DOMAIN down : down[m].cause # <<s, "accept">>
        /\ \A m \in 0..Len(down) : ~Shows(v, down, m).accepted[s]
        /\ ~now.accepted[s]
    BY <1>5 DEF Story
  <2> QED
    BY <1>1, <1>3, <2>1
<1>6. ASSUME NEW m \in DOMAIN rest, rest[m].cause = <<s, "accept">>
      PROVE  /\ \A j \in DOMAIN rest : rest[j].cause = <<s, "accept">> => j = m
             /\ \A i \in 0..Len(rest) : i < m => ~Shows(w, rest, i).accepted[s]
  <2>1. m + 1 \in DOMAIN down /\ down[m + 1].cause = <<s, "accept">> /\ m \in Nat
    BY <1>1, <1>6
  <2>2. /\ \A j \in DOMAIN down : down[j].cause = <<s, "accept">> => j = m + 1
        /\ \A i \in 0..Len(down) : i < m + 1 => ~Shows(v, down, i).accepted[s]
    BY <2>1 DEF Story
  <2>3. ASSUME NEW j \in DOMAIN rest, rest[j].cause = <<s, "accept">> PROVE j = m
    <3>1. j + 1 = m + 1 /\ j \in Nat
      BY <1>1, <2>2, <2>3
    <3> QED
      BY <2>1, <3>1
  <2>4. ASSUME NEW i \in 0..Len(rest), i < m PROVE ~Shows(w, rest, i).accepted[s]
    <3>1. i + 1 < m + 1
      BY <1>3, <2>1, <2>4
    <3> QED
      BY <1>3, <2>2, <3>1
  <2> QED
    BY <2>3, <2>4
<1>7. ASSUME NEW i \in 0..Len(rest)
      PROVE  /\ ~Shows(w, rest, i).accepted[s]
                /\ (\A m \in DOMAIN rest : i < m => rest[m].cause # <<s, "accept">>) =>
                  /\ ~now.accepted[s]
                  /\ \A m \in DOMAIN rest : i < m => ~rest[m].snap.accepted[s]
             /\ Shows(w, rest, i).accepted[s] /\ now.accepted[s] =>
                  /\ now.deal = Shows(w, rest, i).deal
                  /\ \A m \in DOMAIN rest : i < m => rest[m].cause # <<s, "offer">>
             /\ Shows(w, rest, i).state = "agreed" => Shows(w, rest, i).accepted[s]
             /\ now.joiner = 0 => ~Shows(w, rest, i).accepted[s]
  <2> DEFINE l == i + 1
  <2>1. l \in 0..Len(down) /\ Shows(w, rest, i) = Shows(v, down, l) /\ i \in Nat
    BY <1>3
  <2>2. /\ ~Shows(v, down, l).accepted[s]
           /\ (\A m \in DOMAIN down : l < m => down[m].cause # <<s, "accept">>) =>
             /\ ~now.accepted[s]
             /\ \A m \in DOMAIN down : l < m => ~down[m].snap.accepted[s]
        /\ Shows(v, down, l).accepted[s] /\ now.accepted[s] =>
             /\ now.deal = Shows(v, down, l).deal
             /\ \A m \in DOMAIN down : l < m => down[m].cause # <<s, "offer">>
        /\ Shows(v, down, l).state = "agreed" => Shows(v, down, l).accepted[s]
        /\ now.joiner = 0 => ~Shows(v, down, l).accepted[s]
    <3> HIDE DEF l
    <3> QED
      BY <2>1 DEF Story
  <2>3. ASSUME NEW m \in DOMAIN down, l < m PROVE m - 1 \in DOMAIN rest /\ i < m - 1 /\ rest[m - 1] = down[m]
    <3>1. m \in Nat /\ m # 1
      BY <1>2, <2>1, <2>3
    <3>2. i < m - 1
      BY <2>1, <2>3, <3>1
    <3> QED
      BY <1>4, <3>1, <3>2
  <2>4. ASSUME NEW m \in DOMAIN rest, i < m PROVE m + 1 \in DOMAIN down /\ l < m + 1 /\ rest[m] = down[m + 1]
    <3>1. m \in Nat
      BY <1>1
    <3>2. l < m + 1
      BY <2>1, <2>4, <3>1
    <3> QED
      BY <1>1, <3>2
  <2> HIDE DEF l
  <2>5. (\A m \in DOMAIN rest : i < m => rest[m].cause # <<s, "accept">>) =>
          \A m \in DOMAIN down : l < m => down[m].cause # <<s, "accept">>
    BY <2>3
  <2> QED
    BY <2>1, <2>2, <2>4, <2>5
<1> QED
  BY <1>5, <1>6, <1>7 DEF Story, w, rest

\* A socket over which nothing was shown yet.
LEMMA StoryStarts ==
  ASSUME NEW s \in Seat, NEW up, NEW now, ~now.accepted[s], \A i \in DOMAIN up : up[i].type # "accept"
  PROVE  Story(s, NoView, up, <<>>, now)
<1>1. ~NoView.accepted[s] /\ NoView.state # "agreed"
  BY DEF NoView, Nobody
<1>2. DOMAIN <<>> = {}
  OBVIOUS
<1>3. \A i \in 0..Len(<<>>) : Shows(NoView, <<>>, i) = NoView
  BY DEF Shows
<1> HIDE DEF NoView
<1> QED
  BY <1>1, <1>2, <1>3 DEF Story

\* What happens to the queues, to the table of the board.
LEMMA BoardTold ==
  ASSUME NEW s, NEW c, NEW up, NEW down \in Seq(Answer), NEW e \in Answer, NEW now, NEW then,
         Board(s, c, up, down, now),
         now.state \in Closed => then.state \in Closed \/ ~c.view.accepted[s]
  PROVE  Board(s, c, up, Append(down, e), then)
<1>1. \A m \in DOMAIN down : m \in DOMAIN Append(down, e) /\ Append(down, e)[m] = down[m]
  BY Appended
<1> QED
  BY <1>1 DEF Board

LEMMA BoardHandled ==
  ASSUME NEW s, NEW c, NEW up \in Seq(Request), NEW down, NEW now, up # <<>>,
         Board(s, c, up, down, now),
         up[1].type = "offer" =>
           \/ \E m \in DOMAIN down : down[m].cause = <<s, "offer">>
           \/ now.state \in Closed
           \/ ~c.view.accepted[s]
  PROVE  Board(s, c, Tail(up), down, now)
<1>1. ASSUME NEW i \in DOMAIN up, up[i].type = "offer", i # 1
      PROVE  \E j \in DOMAIN Tail(up) : Tail(up)[j].type = "offer"
  <2>1. /\ Len(Tail(up)) = Len(up) - 1 /\ DOMAIN up = 1..Len(up) /\ Len(up) \in Nat
        /\ DOMAIN Tail(up) = 1..Len(Tail(up))
        /\ \A j \in 1..Len(Tail(up)) : Tail(up)[j] = up[j + 1]
    BY HeadTailProperties, LenProperties
  <2>2. i - 1 \in DOMAIN Tail(up) /\ (i - 1) + 1 = i
    BY <1>1, <2>1
  <2>3. Tail(up)[i - 1] = up[(i - 1) + 1]
    BY <2>1, <2>2
  <2> QED
    BY <1>1, <2>2, <2>3
<1> QED
  BY <1>1 DEF Board

LEMMA BoardPressed ==
  ASSUME NEW s, NEW c, NEW d, NEW up \in Seq(Request), NEW msg \in Request, NEW down, NEW now,
         Board(s, c, up, down, now), d.view = c.view, d.table = c.table \/ msg.type = "offer"
  PROVE  Board(s, d, Append(up, msg), down, now)
<1>1. /\ DOMAIN Append(up, msg) = DOMAIN up \cup {Len(up) + 1}
      /\ \A j \in DOMAIN up : Append(up, msg)[j] = up[j]
      /\ Append(up, msg)[Len(up) + 1] = msg
  BY Appended
<1> QED
  BY <1>1 DEF Board

\* And to the confirmations under way. What a step of somebody else, or any
\* step but an own acceptance, may do to the session:
Holds(s, now, then) ==
  /\ then.accepted[s] => now.accepted[s] /\ then.deal = now.deal
  /\ then.accepted[s] /\ then.state \notin Closed => now.state \notin Closed

LEMMA AffirmsKept ==
  ASSUME NEW s, NEW up, NEW now, NEW then, Affirms(s, up, now), Holds(s, now, then)
  PROVE  Affirms(s, up, then)
BY DEF Affirms, Holds

LEMMA AffirmsHandled ==
  ASSUME NEW s, NEW up \in Seq(Request), NEW now, NEW then, up # <<>>, Affirms(s, up, now),
         \/ up[1].type = "accept"
         \/ ~then.accepted[s] \/ then.state \in Closed
         \/ up[1].type # "offer" /\ Holds(s, now, then)
  PROVE  Affirms(s, Tail(up), then)
<1>1. /\ \A j \in DOMAIN Tail(up) : j \in Nat \ {0} /\ j + 1 \in DOMAIN up /\ Tail(up)[j] = up[j + 1]
      /\ 1 \in DOMAIN up
  BY Tailed
<1>2. DOMAIN up = 1..Len(up) /\ DOMAIN Tail(up) = 1..(Len(up) - 1) /\ Len(up) \in Nat
      /\ \A j \in 1..(Len(up) - 1) : Tail(up)[j] = up[j + 1]
  BY HeadTailProperties, LenProperties, EmptySeq
<1>3. ASSUME NEW i \in DOMAIN Tail(up), Tail(up)[i].type = "confirm"
      PROVE  /\ \A j \in DOMAIN Tail(up) : j < i => Tail(up)[j].type # "accept"
             /\ then.accepted[s] /\ then.state \notin Closed
                /\ (\A j \in DOMAIN Tail(up) : j < i => Tail(up)[j].type # "offer") =>
                  Tail(up)[i].table = then.deal
  <2> DEFINE l == i + 1
  <2>1. /\ l \in DOMAIN up /\ up[l].type = "confirm" /\ up[l] = Tail(up)[i] /\ 1 < l /\ i \in Nat
    BY <1>1, <1>3
  <2>2. /\ \A j \in DOMAIN up : j < l => up[j].type # "accept"
        /\ now.accepted[s] /\ now.state \notin Closed
           /\ (\A j \in DOMAIN up : j < l => up[j].type # "offer") => up[l].table = now.deal
    <3> HIDE DEF l
    <3> QED
      BY <2>1 DEF Affirms
  <2>3. ASSUME NEW j \in DOMAIN Tail(up), j < i PROVE Tail(up)[j].type # "accept"
    <3>1. j + 1 < l /\ j + 1 \in DOMAIN up /\ Tail(up)[j] = up[j + 1]
      BY <1>1, <2>1, <2>3
    <3> QED
      BY <2>2, <3>1
  <2>4. ASSUME then.accepted[s], then.state \notin Closed,
               \A j \in DOMAIN Tail(up) : j < i => Tail(up)[j].type # "offer"
        PROVE  Tail(up)[i].table = then.deal
    <3>1. up[1].type # "accept"
      BY <1>1, <2>1, <2>2
    <3>2. up[1].type # "offer" /\ Holds(s, now, then)
      BY <2>4, <3>1
    <3>3. ASSUME NEW j \in DOMAIN up, j < l PROVE up[j].type # "offer"
      <4>1. CASE j = 1
        BY <3>2, <4>1
      <4>2. CASE j # 1
        <5>1. j - 1 \in DOMAIN Tail(up) /\ j - 1 < i /\ (j - 1) + 1 = j
          BY <1>2, <2>1, <3>3, <4>2
        <5>2. Tail(up)[j - 1] = up[(j - 1) + 1]
          BY <1>2, <5>1
        <5> QED
          BY <2>4, <5>1, <5>2
      <4> QED
        BY <4>1, <4>2
    <3> QED
      BY <2>1, <2>2, <2>4, <3>2, <3>3 DEF Holds
  <2> QED
    BY <2>3, <2>4
<1> QED
  BY <1>3 DEF Affirms

LEMMA AffirmsPressed ==
  ASSUME NEW s, NEW up \in Seq(Request), NEW now, NEW msg \in Request, Affirms(s, up, now),
         msg.type = "confirm" =>
           /\ \A j \in DOMAIN up : up[j].type # "accept"
           /\ now.accepted[s] /\ now.state \notin Closed
              /\ (\A j \in DOMAIN up : up[j].type # "offer") => msg.table = now.deal
  PROVE  Affirms(s, Append(up, msg), now)
<1> DEFINE more == Append(up, msg)
<1>1. /\ DOMAIN more = DOMAIN up \cup {Len(up) + 1} /\ DOMAIN up = 1..Len(up) /\ Len(up) \in Nat
      /\ \A j \in DOMAIN up : more[j] = up[j]
      /\ more[Len(up) + 1] = msg
  BY Appended, LenProperties
<1> HIDE DEF more
<1>2. ASSUME NEW i \in DOMAIN more, more[i].type = "confirm"
      PROVE  /\ \A j \in DOMAIN more : j < i => more[j].type # "accept"
             /\ now.accepted[s] /\ now.state \notin Closed
                /\ (\A j \in DOMAIN more : j < i => more[j].type # "offer") => more[i].table = now.deal
  <2>1. CASE i \in DOMAIN up
    <3>1. /\ \A j \in DOMAIN up : j < i => up[j].type # "accept"
          /\ now.accepted[s] /\ now.state \notin Closed
             /\ (\A j \in DOMAIN up : j < i => up[j].type # "offer") => up[i].table = now.deal
      BY <1>1, <1>2, <2>1 DEF Affirms
    <3>2. ~(Len(up) + 1 < i)
      BY <1>1, <2>1
    <3> QED
      BY <1>1, <2>1, <3>1, <3>2
  <2>2. CASE i = Len(up) + 1
    <3>1. \A j \in DOMAIN up : j < i
      BY <1>1, <2>2
    <3>2. \A j \in DOMAIN more : j < i => j \in DOMAIN up
      BY <1>1, <2>2
    <3> QED
      BY <1>1, <1>2, <2>2, <3>1, <3>2
  <2> QED
    BY <1>1, <2>1, <2>2
<1> QED
  BY <1>2 DEF Affirms, more

\* What the calls of the session are to a seat.
LEMMA DoesHolds ==
  ASSUME SessionInv, NEW t \in Seat, NEW msg \in Request, msg.type \notin Greeting, Does(t, msg)
  PROVE  /\ session # NoSession /\ session \in Session
         /\ session' # NoSession /\ session' \in Session /\ SessionInv'
         /\ session.state \notin Closed /\ session'.joiner = session.joiner
         /\ \A s \in Seat : /\ s # t \/ msg.type # "accept" => Holds(s, session, session')
                            /\ session'.state = "agreed" => session'.accepted[s]
                            /\ session'.joiner = 0 => ~session'.accepted[s]
                            /\ msg.type = "offer" => ~session'.accepted[s]
         /\ msg.type = "accept" => session'.deal = session.deal
<1>1. Calls /\ session # NoSession /\ session' # NoSession
  BY DoesCalls
<1>2. SessionInv' /\ session'.joiner = session.joiner
  BY <1>1, CallsInv
<1>3. session \in Session /\ session' \in Session
  BY <1>1, <1>2 DEF SessionInv, SessionTypeOK
<1>4. msg.type \in {"offer", "accept", "unaccept", "confirm", "cancel"}
  BY DEF Request, Allowed
<1>5. ASSUME NEW s \in Seat
      PROVE  /\ session'.state = "agreed" => session'.accepted[s]
             /\ session'.joiner = 0 => ~session'.accepted[s]
  <2>1. s = "a" \/ s = "b"
    BY DEF Seat
  <2> QED
    BY <1>1, <1>2, <2>1 DEF SessionInv, FlagsMatchState, UnjoinedUntouched, Both, Neither
<1>6. session.state \in PreComplete => session.state \notin Closed
  BY DEF PreComplete, Closed
<1>7. CASE msg.type = "offer"
  <2>1. OfferUpdate(msg.side, msg.table[msg.side])
    BY <1>7 DEF Does
  <2>2. session'.accepted = Nobody /\ session.state \in PreComplete
    BY <1>3, <2>1 DEF OfferUpdate, May, Allowed, PreComplete, Session
  <2>3. \A s \in Seat : ~session'.accepted[s]
    BY <2>2 DEF Nobody
  <2> QED
    BY <1>1, <1>2, <1>3, <1>5, <1>6, <1>7, <2>2, <2>3 DEF Holds
<1>8. CASE msg.type = "accept"
  <2>1. Accept(t)
    BY <1>8 DEF Does
  <2>2. /\ session'.deal = session.deal /\ session.state \in PreComplete
        /\ \A s \in Seat : s # t => session'.accepted[s] = session.accepted[s]
    BY <1>3, <2>1 DEF Accept, May, Allowed, PreComplete, Session
  <2> QED
    BY <1>1, <1>2, <1>3, <1>5, <1>6, <1>8, <2>2 DEF Holds
<1>9. CASE msg.type = "unaccept"
  <2>1. Unaccept(t)
    BY <1>9 DEF Does
  <2>2. /\ session'.deal = session.deal /\ session.state \in PreComplete
        /\ \A s \in Seat : session'.accepted[s] => session.accepted[s]
    BY <1>3, <2>1 DEF Unaccept, May, Allowed, PreComplete, Session
  <2> QED
    BY <1>1, <1>2, <1>3, <1>5, <1>6, <1>9, <2>2 DEF Holds
<1>10. CASE msg.type = "confirm"
  <2>1. ConfirmComplete(t)
    BY <1>10 DEF Does
  <2>2. /\ session'.deal = session.deal /\ session.state \in PreComplete
        /\ session'.accepted = session.accepted
    BY <1>3, <2>1 DEF ConfirmComplete, May, Allowed, PreComplete, Session
  <2> QED
    BY <1>1, <1>2, <1>3, <1>5, <1>6, <1>10, <2>2 DEF Holds
<1>11. CASE msg.type = "cancel"
  <2>1. Cancel
    BY <1>11 DEF Does
  <2>2. /\ session'.deal = session.deal /\ session.state \in PreComplete
        /\ session'.accepted = session.accepted
    BY <1>3, <2>1 DEF Cancel, May, Allowed, PreComplete, Session
  <2> QED
    BY <1>1, <1>2, <1>3, <1>5, <1>6, <1>11, <2>2 DEF Holds
<1> QED
  BY <1>4, <1>7, <1>8, <1>9, <1>10, <1>11

\* What is refused is refused in an open trade, or in one that is over.
LEMMA RefusedOffer ==
  ASSUME SessionInv, session # NoSession, ~May("offer"), NEW s \in Seat
  PROVE  session.joiner = 0 \/ session.state \in Closed
<1>1. session \in Session
  BY DEF SessionInv, SessionTypeOK
<1>2. session.state = "open" \/ session.state \in Closed
  BY <1>1 DEF May, Allowed, Session, TradeState, PreComplete, Closed
<1> QED
  BY <1>2 DEF SessionInv, FlagsMatchState

LEMMA JoinHolds ==
  ASSUME SessionInv, NEW n \in Nonce, JoinAnew(n) \/ JoinAgain(n)
  PROVE  /\ session # NoSession /\ session \in Session
         /\ session' # NoSession /\ session' \in Session /\ SessionInv'
         /\ session'.joiner = n /\ n # 0
         /\ session'.deal = session.deal /\ session'.confirmed = session.confirmed
         /\ session'.accepted = session.accepted
         /\ \A s \in Seat : /\ session'.state = "agreed" => session'.accepted[s]
                            /\ session.joiner = 0 => ~session.accepted[s]
         /\ session.joiner = 0 => session'.state \notin Closed
         /\ session.joiner # 0 => session' = session
<1>1. SessionInv' /\ session # NoSession /\ session' # NoSession
  BY JoinsInv
<1>2. session \in Session /\ session' \in Session
  BY <1>1 DEF SessionInv, SessionTypeOK
<1>3. n # 0
  BY OfferAssumption
<1>4. ASSUME NEW s \in Seat
      PROVE  /\ session'.state = "agreed" => session'.accepted[s]
             /\ session.joiner = 0 => ~session.accepted[s]
  <2>1. s = "a" \/ s = "b"
    BY DEF Seat
  <2> QED
    BY <1>1, <2>1 DEF SessionInv, FlagsMatchState, UnjoinedUntouched, Both, Neither
<1>5. CASE JoinAnew(n)
  <2>1. /\ session'.joiner = n /\ session.joiner = 0 /\ session'.state = "paired"
        /\ session'.deal = session.deal /\ session'.confirmed = session.confirmed
        /\ session'.accepted = session.accepted
    BY <1>2, <1>5 DEF JoinAnew, Session
  <2> QED
    BY <1>1, <1>2, <1>3, <1>4, <2>1 DEF Closed
<1>6. CASE JoinAgain(n)
  BY <1>1, <1>2, <1>3, <1>4, <1>6 DEF JoinAgain, Seated
<1> QED
  BY <1>5, <1>6

\* Coming, going and time are nothing to it but perhaps the end.
LEMMA PresenceHolds ==
  ASSUME SessionInv, NEW t \in Seat, Drop(t) \/ GraceExpires(t)
  PROVE  /\ session # NoSession /\ session \in Session
         /\ session' # NoSession /\ session' \in Session /\ SessionInv'
         /\ session'.joiner = session.joiner /\ session'.deal = session.deal
         /\ session'.confirmed = session.confirmed /\ session'.accepted = session.accepted
         /\ session'.state = session.state \/ session'.state = "cancelled"
         /\ session.state \in Closed => session'.state = session.state
         /\ \A s \in Seat : /\ Holds(s, session, session')
                            /\ session'.state = "agreed" => session'.accepted[s]
                            /\ session'.joiner = 0 => ~session'.accepted[s]
<1>1. session # NoSession /\ session \in Session
  BY DEF Drop, GraceExpires, SessionInv, SessionTypeOK
<1>2. SessionInv'
  BY PresenceInv
<1>3. /\ session' \in Session
      /\ session'.joiner = session.joiner /\ session'.deal = session.deal
      /\ session'.confirmed = session.confirmed /\ session'.accepted = session.accepted
      /\ session'.state = session.state \/ session'.state = "cancelled"
      /\ session.state \in Closed => session'.state = session.state
  <2>1. CASE Drop(t)
    <3>1. (session.state \in PreComplete) \in BOOLEAN
      OBVIOUS
    <3> HIDE DEF Closed
    <3> QED
      BY <1>1, <2>1, <3>1 DEF Drop, Session
  <2>2. CASE GraceExpires(t)
    <3>1. session.state \in Closed => ~Live
      BY DEF Live, Closed, PreComplete
    <3>2. "cancelled" \in TradeState
      BY DEF TradeState
    <3> HIDE DEF Closed, TradeState
    <3> QED
      BY <1>1, <2>2, <3>1, <3>2 DEF GraceExpires, Session
  <2> QED
    BY <2>1, <2>2
<1>4. session' # NoSession
  BY <1>3, NoSessionAssumption
<1>5. ASSUME NEW s \in Seat
      PROVE  /\ Holds(s, session, session')
             /\ session'.state = "agreed" => session'.accepted[s]
             /\ session'.joiner = 0 => ~session'.accepted[s]
  <2>1. s = "a" \/ s = "b"
    BY DEF Seat
  <2> QED
    BY <1>2, <1>3, <1>4, <2>1 DEF SessionInv, FlagsMatchState, UnjoinedUntouched, Both, Neither, Holds
<1> QED
  BY <1>1, <1>2, <1>3, <1>4, <1>5

\* Which queue a message reaches, and nothing else.
Reaches(cs, ds, K, e) ==
  /\ ds \in Seq(Conn) /\ Len(ds) = Len(cs) /\ DOMAIN ds = DOMAIN cs
  /\ \A j \in DOMAIN cs :
       /\ ds[j].by = cs[j].by /\ ds[j].up = cs[j].up /\ ds[j].bound = cs[j].bound
       /\ ds[j].open = cs[j].open /\ ds[j].served = cs[j].served
       /\ ds[j].down = IF j \in K /\ cs[j].open /\ cs[j].served THEN Append(cs[j].down, e)
                                                               ELSE cs[j].down

LEMMA SentReaches ==
  ASSUME NEW cs \in Seq(Conn), NEW k \in 0..Len(cs), NEW e \in Answer
  PROVE  Reaches(cs, Sent(cs, k, e), {k}, e)
<1> DEFINE ds == Sent(cs, k, e)
<1>1. /\ Answered(cs, ds, {k})
      /\ \A i \in DOMAIN cs : ds[i].bound = cs[i].bound
  BY SentFacts
<1>2. ds \in Seq(Conn) /\ Len(ds) = Len(cs) /\ DOMAIN ds = DOMAIN cs /\ 0 \notin DOMAIN cs
  BY <1>1, LenProperties DEF Answered
<1>3. ASSUME k \in DOMAIN cs, cs[k].open, cs[k].served PROVE ds[k].down = Append(cs[k].down, e)
  <2>1. cs[k] \in Conn /\ cs \in [DOMAIN cs -> Conn] /\ k # 0
    BY <1>2, <1>3, ConnFields, LenProperties
  <2> QED
    BY <1>3, <2>1 DEF Sent, Conn
<1>4. ASSUME ~(cs[k].open /\ cs[k].served) PROVE ds = cs
  BY <1>4 DEF Sent
<1> HIDE DEF ds
<1>5. ASSUME NEW j \in DOMAIN cs
      PROVE  ds[j].down = IF j \in {k} /\ cs[j].open /\ cs[j].served THEN Append(cs[j].down, e)
                                                                    ELSE cs[j].down
  BY <1>1, <1>3, <1>4 DEF Answered
<1> QED
  BY <1>1, <1>2, <1>5 DEF Reaches, Answered, ds

LEMMA BroadcastReaches ==
  ASSUME Types, Lone, NEW cs \in Seq(Conn), Len(cs) = Len(conns), NEW e \in Answer
  PROVE  Reaches(cs, Broadcast(cs, e), {attached["a"], attached["b"]}, e)
<1> DEFINE ds == Sent(cs, attached["a"], e)
           es == Sent(ds, attached["b"], e)
<1>1. attached["a"] \in 0..Len(cs) /\ attached["b"] \in 0..Len(cs)
  BY DEF Types, Seat
<1>2. Reaches(cs, ds, {attached["a"]}, e)
  BY <1>1, SentReaches
<1>3. Broadcast(cs, e) = es
  BY DEF Broadcast
<1> HIDE DEF ds
<1>4. Reaches(ds, es, {attached["b"]}, e)
  <2>1. ds \in Seq(Conn) /\ attached["b"] \in 0..Len(ds)
    BY <1>1, <1>2 DEF Reaches
  <2> QED
    BY <2>1, SentReaches
<1> HIDE DEF es
<1>5. ASSUME NEW j \in DOMAIN cs PROVE ~(j = attached["a"] /\ j = attached["b"])
  <2>1. j # 0
    BY <1>5, ConnFields
  <2>2. "a" \in Seat /\ "b" \in Seat /\ "a" # "b"
    BY DEF Seat
  <2> QED
    BY <2>1, <2>2 DEF Lone
<1> QED
  BY <1>2, <1>3, <1>4, <1>5 DEF Reaches

\* A message taken from its queue.
Takes(cs, k) ==
  /\ cs \in Seq(Conn) /\ Len(cs) = Len(conns) /\ DOMAIN cs = DOMAIN conns
  /\ \A j \in DOMAIN conns :
       /\ cs[j].by = conns[j].by /\ cs[j].down = conns[j].down /\ cs[j].bound = conns[j].bound
       /\ cs[j].open = conns[j].open /\ cs[j].served = conns[j].served
       /\ cs[j].up = IF j = k THEN Tail(conns[j].up) ELSE conns[j].up

LEMMA HandleTakes ==
  ASSUME RelayInv, NEW k \in DOMAIN conns, Handle(k)
  PROVE  /\ Types /\ SessionInv /\ conns \in Seq(Conn) /\ conns[k].served /\ conns[k].up # <<>>
         /\ conns[k].up \in Seq(Request) /\ conns[k].by \in Seat /\ k # 0 /\ k \in 0..Len(conns)
         /\ Head(conns[k].up) = conns[k].up[1] /\ 1 \in DOMAIN conns[k].up
         /\ Head(conns[k].up) \in Request /\ Greets(k, 1)
         /\ Takes(Popped(k), k)
<1>1. Types /\ SessionInv /\ conns \in Seq(Conn) /\ conns[k].served /\ conns[k].up # <<>>
  BY DEF RelayInv, Types, Handle
<1>2. /\ conns[k].up \in Seq(Request) /\ conns[k].by \in Seat /\ k \in 0..Len(conns) /\ k # 0
      /\ conns[k] \in Conn /\ conns \in [DOMAIN conns -> Conn]
  BY <1>1, ConnFields, LenProperties
<1>3. /\ Head(conns[k].up) \in Request /\ Head(conns[k].up) = conns[k].up[1]
      /\ 1 \in DOMAIN conns[k].up
      /\ Popped(k) \in Seq(Conn) /\ Len(Popped(k)) = Len(conns)
      /\ \A i \in DOMAIN conns :
           /\ Popped(k)[i].by = conns[i].by /\ Popped(k)[i].down = conns[i].down
           /\ Popped(k)[i].open = conns[i].open /\ Popped(k)[i].served = conns[i].served
           /\ Popped(k)[i].bound = conns[i].bound
           /\ i # k => Popped(k)[i].up = conns[i].up
  BY <1>1, PoppedFacts
<1>4. Popped(k)[k].up = Tail(conns[k].up)
  BY <1>2 DEF Popped, Conn
<1>5. Greets(k, 1)
  BY <1>3 DEF RelayInv, Greetings
<1>6. DOMAIN Popped(k) = DOMAIN conns
  BY <1>1, <1>3, LenProperties
<1> QED
  BY <1>1, <1>2, <1>3, <1>4, <1>5, <1>6 DEF Takes

LEMMA BoundOf ==
  ASSUME NEW cs \in Seq(Conn), NEW k \in DOMAIN cs
  PROVE  /\ Bind(cs, k) \in Seq(Conn) /\ Len(Bind(cs, k)) = Len(cs) /\ DOMAIN Bind(cs, k) = DOMAIN cs
         /\ \A j \in DOMAIN cs :
              /\ Bind(cs, k)[j].by = cs[j].by /\ Bind(cs, k)[j].up = cs[j].up
              /\ Bind(cs, k)[j].open = cs[j].open /\ Bind(cs, k)[j].served = cs[j].served
              /\ Bind(cs, k)[j].down = cs[j].down
              /\ Bind(cs, k)[j].bound = (j = k \/ cs[j].bound)
<1>1. /\ Answered(cs, Bind(cs, k), {}) /\ Bind(cs, k)[k].bound
      /\ \A i \in DOMAIN cs : i # k => Bind(cs, k)[i].bound = cs[i].bound
  BY BindFacts
<1>2. Bind(cs, k) \in Seq(Conn) /\ Len(Bind(cs, k)) = Len(cs) /\ DOMAIN Bind(cs, k) = DOMAIN cs
  BY <1>1, LenProperties DEF Answered
<1>3. \A j \in DOMAIN cs : Bind(cs, k)[j].bound \in BOOLEAN /\ cs[j].bound \in BOOLEAN
  BY <1>2, ConnFields
<1> QED
  BY <1>1, <1>2, <1>3 DEF Answered

\* Nothing comes of an ended trade.
LEMMA EndedHandle ==
  ASSUME RelayInv, Lone, Ended, NEW k \in DOMAIN conns, Handle(k)
  PROVE  UNCHANGED <<session, saw, published>>
<1> DEFINE s == conns[k].by
           msg == Head(conns[k].up)
           cs == Popped(k)
<1>1. /\ SessionInv /\ s \in Seat /\ msg = conns[k].up[1] /\ 1 \in DOMAIN conns[k].up
      /\ msg \in Request /\ Greets(k, 1)
  BY HandleTakes
<1>2. /\ CASE msg.type = "create" -> HandleCreate(k, cs)
           [] msg.type = "join"   -> HandleJoin(k, msg, cs)
           [] msg.type = "resume" -> HandleResume(k, s, cs)
           [] OTHER               -> HandleAction(k, s, msg, cs)
      /\ saw' = Seen(s, msg) /\ published' = published
  BY DEF Handle, Popped, storedVars
<1>3. msg.type # "resume"
  BY <1>1 DEF Lone
<1> HIDE DEF s, msg, cs
<1>4. UNCHANGED session
  <2>1. CASE msg.type = "create"
    <3>1. ~conns[k].open
      BY <1>1, <2>1 DEF Greets, Ended
    <3> QED
      BY <1>2, <2>1, <3>1 DEF HandleCreate
  <2>2. CASE msg.type = "join"
    BY <1>2, <2>2 DEF HandleJoin, JoinAnew, JoinAgain, Ended
  <2>3. CASE msg.type \notin Greeting
    <3>1. HandleAction(k, s, msg, cs)
      BY <1>2, <2>3 DEF Greeting
    <3>2. ~Does(s, msg)
      BY <1>1, <2>3, DoesHolds DEF Ended
    <3> QED
      BY <3>1, <3>2 DEF HandleAction
  <2> QED
    BY <1>3, <2>1, <2>2, <2>3 DEF Greeting
<1> QED
  BY <1>2, <1>4 DEF Seen

\* A socket of a trade that goes on.
LEMMA OneSocket ==
  ASSUME RelayInv, Lone, ~Ended, NEW j \in DOMAIN conns
  PROVE  /\ \A i \in DOMAIN conns : conns[i].by = conns[j].by => i = j
         /\ conns[j].by = "b" => published /\ conns[j].open
         /\ conns[j].open => conns[j].served /\ client[conns[j].by].ws = j
         /\ \A s \in Seat : attached[s] = j => conns[j].by = s /\ conns[j].bound
         /\ j # 0
<1>1. j # 0 /\ conns[j].by \in Seat
  BY ConnFields DEF RelayInv, Types
<1>2. \A i \in DOMAIN conns : conns[i].by = conns[j].by => i = j
  BY DEF Lone
<1>3. ASSUME conns[j].by = "b" PROVE published /\ conns[j].open
  <2>1. Active("b") /\ published
    BY <1>3 DEF Lone
  <2>2. client["b"].ws # 0 /\ "b" \in Seat
    BY <2>1 DEF Lone, Seat
  <2>3. client["b"].ws \in DOMAIN conns /\ conns[client["b"].ws].by = "b" /\ conns[client["b"].ws].open
    BY <2>2 DEF RelayInv, Sockets
  <2> QED
    BY <1>2, <1>3, <2>1, <2>3
<1>4. conns[j].open => conns[j].served /\ client[conns[j].by].ws = j
  BY DEF Lone, RelayInv, Sockets
<1>5. \A s \in Seat : attached[s] = j => conns[j].by = s /\ conns[j].bound
  BY <1>1 DEF Lone
<1> QED
  BY <1>1, <1>2, <1>3, <1>4, <1>5

\* An action is heard, and broadcast or refused.
News(k) == [Sync(session') EXCEPT !.cause = <<conns[k].by, Head(conns[k].up).type>>]
LEMMA ActionSays ==
  ASSUME RelayInv, SeenInv, ~Ended, NEW k \in DOMAIN conns, Handle(k),
         Head(conns[k].up).type \notin Greeting
  PROVE  /\ conns[k].bound /\ published /\ session # NoSession
         /\ UNCHANGED <<attached, client, published, persisted>>
         /\ \/ /\ Does(conns[k].by, Head(conns[k].up))
               /\ Reaches(Popped(k), conns', {attached["a"], attached["b"]}, News(k))
               /\ News(k) \in Answer /\ News(k).type = "sync" /\ News(k).snap = Snapshot(session')
               /\ News(k).cause = <<conns[k].by, Head(conns[k].up).type>>
            \/ /\ UNCHANGED session /\ ~May(Head(conns[k].up).type)
               /\ conns' = Popped(k)
<1> DEFINE s == conns[k].by
           msg == Head(conns[k].up)
<1>1. /\ Types /\ SessionInv /\ s \in Seat /\ msg \in Request /\ msg = conns[k].up[1]
      /\ 1 \in DOMAIN conns[k].up /\ Takes(Popped(k), k)
  BY HandleTakes
<1>2. Meets(k) /\ Lone
  BY DEF SeenInv
<1>3. conns[k].bound /\ published
  BY <1>1, <1>2 DEF Meets
<1>4. session # NoSession
  BY <1>3 DEF Ended
<1>5. HandleAction(k, s, msg, Popped(k)) /\ UNCHANGED <<client, published, persisted>>
  BY DEF Handle, Popped, Greeting, storedVars
<1>6. CASE Does(s, msg)
           /\ conns' = Broadcast(Popped(k), [Sync(session') EXCEPT !.cause = <<s, msg.type>>])
           /\ UNCHANGED attached
  <2>1. session' \in Session
    BY <1>1, <1>6, DoesHolds
  <2>2. msg.type \in DOMAIN Allowed
    BY <1>1 DEF Request
  <2>3. News(k) \in Answer /\ News(k).type = "sync" /\ News(k).snap = Snapshot(session')
        /\ News(k).cause = <<s, msg.type>>
    BY <1>1, <2>1, <2>2, SnapshotType DEF News, Answer, Sync
  <2>4. conns' = Broadcast(Popped(k), News(k))
    BY <1>6 DEF News
  <2>5. Reaches(Popped(k), conns', {attached["a"], attached["b"]}, News(k))
    BY <1>1, <1>2, <2>3, <2>4, BroadcastReaches DEF Takes
  <2> QED
    BY <1>3, <1>4, <1>5, <1>6, <2>3, <2>5
<1>7. CASE UNCHANGED <<session, attached>> /\ ~May(msg.type) /\ conns' = Popped(k)
  BY <1>3, <1>4, <1>5, <1>7
<1> QED
  BY <1>3, <1>4, <1>5, <1>6, <1>7 DEF HandleAction

LEMMA SnapOf ==
  ASSUME NEW v \in Session
  PROVE  /\ Snapshot(v).state = v.state /\ Snapshot(v).deal = v.deal
         /\ Snapshot(v).accepted = v.accepted /\ Snapshot(v).confirmed = v.confirmed
BY DEF Snapshot

\* What a socket's queues are after an action was heard.
LEMMA HeardOn ==
  ASSUME RelayInv, SeenInv, ~Ended, NEW k \in DOMAIN conns, Handle(k),
         Head(conns[k].up).type \notin Greeting, Does(conns[k].by, Head(conns[k].up)),
         NEW j \in DOMAIN conns
  PROVE  /\ conns'[j].by = conns[j].by /\ conns'[j].bound = conns[j].bound
         /\ conns'[j].open = conns[j].open
         /\ conns'[j].up = IF j = k THEN Tail(conns[j].up) ELSE conns[j].up
         /\ conns[j].open /\ conns[j].bound =>
              conns'[j].down = Append(conns[j].down, News(k)) /\ attached[conns[j].by] = j
         /\ conns'[j].down \in {conns[j].down, Append(conns[j].down, News(k))}
         /\ ~conns[j].bound => conns'[j].down = conns[j].down
         /\ News(k) \in Answer /\ News(k).type = "sync" /\ News(k).snap = Snapshot(session')
         /\ News(k).cause = <<conns[k].by, Head(conns[k].up).type>>
         /\ DOMAIN conns' = DOMAIN conns
<1>1. /\ Takes(Popped(k), k) /\ conns[k].by \in Seat /\ Head(conns[k].up) \in Request /\ Types /\ SessionInv
  BY HandleTakes
<1>2. session # NoSession /\ published
  BY ActionSays
<1>3. May(Head(conns[k].up).type)
  BY <1>1 DEF Does, OfferUpdate, Accept, Unaccept, ConfirmComplete, Cancel, Request, Allowed
<1>4. /\ Reaches(Popped(k), conns', {attached["a"], attached["b"]}, News(k))
      /\ News(k) \in Answer /\ News(k).type = "sync" /\ News(k).snap = Snapshot(session')
      /\ News(k).cause = <<conns[k].by, Head(conns[k].up).type>>
  BY <1>3, ActionSays
<1>5. Meets(j) /\ Lone /\ conns[j].by \in Seat
  BY <1>1, ConnFields DEF SeenInv, Types
<1>6. /\ conns[j].open => conns[j].served
      /\ \A s \in Seat : attached[s] = j => conns[j].by = s /\ conns[j].bound
  BY <1>5, OneSocket
<1>7. ASSUME conns[j].open, conns[j].bound PROVE j \in {attached["a"], attached["b"]} /\ attached[conns[j].by] = j
  <2>1. attached[conns[j].by] = j
    BY <1>2, <1>5, <1>7 DEF Meets
  <2>2. conns[j].by = "a" \/ conns[j].by = "b"
    BY <1>5 DEF Seat
  <2> QED
    BY <2>1, <2>2
<1>8. ~conns[j].bound => j \notin {attached["a"], attached["b"]}
  BY <1>6 DEF Seat
<1>9. /\ Popped(k)[j].by = conns[j].by /\ Popped(k)[j].down = conns[j].down
      /\ Popped(k)[j].bound = conns[j].bound
      /\ Popped(k)[j].open = conns[j].open /\ Popped(k)[j].served = conns[j].served
      /\ Popped(k)[j].up = IF j = k THEN Tail(conns[j].up) ELSE conns[j].up
      /\ DOMAIN Popped(k) = DOMAIN conns
  BY <1>1 DEF Takes
<1>10. /\ conns'[j].by = conns[j].by /\ conns'[j].bound = conns[j].bound
       /\ conns'[j].open = conns[j].open
       /\ conns'[j].up = IF j = k THEN Tail(conns[j].up) ELSE conns[j].up
       /\ conns'[j].down = IF j \in {attached["a"], attached["b"]} /\ conns[j].open /\ conns[j].served
                            THEN Append(conns[j].down, News(k)) ELSE conns[j].down
       /\ DOMAIN conns' = DOMAIN conns
  BY <1>4, <1>9 DEF Reaches
<1> QED
  BY <1>4, <1>6, <1>7, <1>8, <1>10

LEMMA HeardMeets ==
  ASSUME RelayInv, SeenInv, ~Ended, ~Ended', NEW k \in DOMAIN conns, Handle(k),
         Head(conns[k].up).type \notin Greeting, Does(conns[k].by, Head(conns[k].up)),
         NEW j \in DOMAIN conns
  PROVE  Meets(j)'
<1>1. /\ SessionInv /\ conns[k].by \in Seat /\ Head(conns[k].up) \in Request /\ conns \in Seq(Conn)
      /\ conns[k].up \in Seq(Request) /\ conns[k].up # <<>>
  BY HandleTakes
<1>2. conns[k].bound /\ published /\ session # NoSession
      /\ UNCHANGED <<attached, client, published>>
  BY ActionSays
<1>3. session' # NoSession /\ session' \in Session /\ session'.joiner = session.joiner
  BY <1>1, DoesHolds
<1>4. Meets(j) /\ conns[j].down \in Seq(Answer)
  BY <1>1, ConnFields DEF SeenInv
<1>5. /\ conns'[j].by = conns[j].by /\ conns'[j].bound = conns[j].bound
      /\ conns'[j].open = conns[j].open
      /\ conns'[j].up = IF j = k THEN Tail(conns[j].up) ELSE conns[j].up
      /\ conns'[j].down \in {conns[j].down, Append(conns[j].down, News(k))}
      /\ ~conns[j].bound => conns'[j].down = conns[j].down
      /\ News(k) \in Answer /\ News(k).type = "sync" /\ News(k).snap = Snapshot(session')
  BY HeardOn
<1>6. \A i \in DOMAIN Tail(conns[k].up) : \E l \in DOMAIN conns[k].up : Tail(conns[k].up)[i] = conns[k].up[l]
  BY <1>1, Tailed
<1>7. ASSUME conns[j].bound, NEW i \in DOMAIN conns'[j].up
      PROVE  published' /\ conns'[j].up[i].type \notin Greeting
  BY <1>2, <1>4, <1>5, <1>6, <1>7 DEF Meets
<1>8. ASSUME ~conns[j].bound PROVE j # k
  BY <1>2, <1>8
<1>9. ASSUME NEW i \in DOMAIN conns'[j].down
      PROVE  \/ i \in DOMAIN conns[j].down /\ conns'[j].down[i] = conns[j].down[i]
             \/ conns'[j].down[i] = News(k) /\ conns[j].bound
  <2>1. /\ DOMAIN Append(conns[j].down, News(k)) = DOMAIN conns[j].down \cup {Len(conns[j].down) + 1}
        /\ \A m \in DOMAIN conns[j].down : Append(conns[j].down, News(k))[m] = conns[j].down[m]
        /\ Append(conns[j].down, News(k))[Len(conns[j].down) + 1] = News(k)
    BY <1>4, <1>5, Appended
  <2> QED
    BY <1>5, <1>9, <2>1
<1>11. ASSUME conns[j].by = "b", conns[j].bound PROVE session'.state \notin Closed
  <2>1. session.joiner # 0
    BY <1>2, <1>4, <1>11 DEF Meets
  <2> QED
    BY <1>2, <1>3, <2>1 DEF Ended
<1>12. News(k).snap.state = session'.state
  BY <1>3, <1>5, SnapOf
<1>13. \A i \in DOMAIN conns'[j].down :
         /\ conns'[j].down[i].type # "gone"
         /\ conns'[j].by = "b" => conns'[j].down[i].snap.state \notin Closed
  BY <1>4, <1>5, <1>9, <1>11, <1>12 DEF Meets
<1>14. ASSUME ~conns'[j].bound
       PROVE  /\ \A i \in DOMAIN conns'[j].up : i = 1 /\ conns'[j].up[i].type \in Greeting
              /\ conns'[j].open => conns'[j].down = <<>> /\ client'[conns'[j].by].view = NoView
  BY <1>2, <1>4, <1>5, <1>8, <1>14 DEF Meets
<1>15. ASSUME conns'[j].bound, conns'[j].open PROVE attached'[conns'[j].by] = j
  BY <1>2, <1>4, <1>5, <1>15 DEF Meets
<1>16. ASSUME conns'[j].by = "b"
       PROVE  /\ conns'[j].bound <=> session'.joiner # 0
              /\ conns'[j].open => client'["b"].view.state \notin Closed
  BY <1>2, <1>3, <1>4, <1>5, <1>16 DEF Meets
<1> QED
  BY <1>2, <1>5, <1>7, <1>13, <1>14, <1>15, <1>16 DEF Meets

LEMMA HeardTale ==
  ASSUME RelayInv, SeenInv, ~Ended, NEW k \in DOMAIN conns, Handle(k),
         Head(conns[k].up).type \notin Greeting, Does(conns[k].by, Head(conns[k].up)),
         NEW j \in DOMAIN conns
  PROVE  Tale(j)'
<1> DEFINE s == conns[j].by
           t == conns[k].by
           type == Head(conns[k].up).type
           up == conns[j].up
           down == conns[j].down
           v == client[s].view
           e == News(k)
<1>1. /\ SessionInv /\ t \in Seat /\ Head(conns[k].up) \in Request /\ conns \in Seq(Conn)
      /\ conns[k].up \in Seq(Request) /\ conns[k].up # <<>> /\ type = conns[k].up[1].type
      /\ 1 \in DOMAIN conns[k].up
  BY HandleTakes
<1>2. conns[k].bound /\ published /\ session # NoSession /\ UNCHANGED <<client>>
  BY ActionSays
<1>3. /\ session' # NoSession /\ session' \in Session
      /\ session.state \notin Closed /\ session'.joiner = session.joiner
      /\ s # t \/ type # "accept" => Holds(s, session, session')
      /\ session'.state = "agreed" => session'.accepted[s]
      /\ session'.joiner = 0 => ~session'.accepted[s]
      /\ type = "offer" => ~session'.accepted[s]
      /\ type = "accept" => session'.deal = session.deal
  <2>1. s \in Seat
    BY <1>1, ConnFields
  <2> QED
    BY <1>1, <2>1, DoesHolds
<1>4. Tale(j) /\ down \in Seq(Answer) /\ up \in Seq(Request) /\ s \in Seat
  BY <1>1, ConnFields DEF SeenInv
<1>5. /\ conns'[j].by = s /\ conns'[j].bound = conns[j].bound
      /\ conns'[j].open = conns[j].open
      /\ conns'[j].up = IF j = k THEN Tail(up) ELSE up
      /\ conns[j].open /\ conns[j].bound => conns'[j].down = Append(down, e)
      /\ e \in Answer /\ e.snap = Snapshot(session') /\ e.cause = <<t, type>>
  BY HeardOn
<1>6. s = t => j = k
  BY OneSocket DEF SeenInv
<1>7. e.snap.accepted = session'.accepted /\ e.snap.deal = session'.deal /\ e.snap.state = session'.state
  BY <1>3, <1>5, SnapOf
<1>9. e.cause = <<s, "accept">> => s = t /\ type = "accept" /\ j = k
  BY <1>5, <1>6
<1>10. e.cause = <<s, "offer">> => type = "offer"
  BY <1>5
<1>11. s = t /\ type = "offer" => e.cause = <<s, "offer">>
  BY <1>5
<1>12. s = t /\ type = "accept" => e.cause = <<s, "accept">>
  BY <1>5
<1>13. j = k => up # <<>> /\ up[1].type = type /\ 1 \in DOMAIN up /\ s = t
  BY <1>1
<1>14. Affirms(s, up, session)
  BY <1>2, <1>4 DEF Tale
<1> HIDE DEF s, t, type, up, down, v, e
<1>15. Affirms(s, conns'[j].up, session')
  <2>1. CASE j = k
    <3>1. \/ up[1].type = "accept" \/ ~session'.accepted[s] \/ session'.state \in Closed
          \/ up[1].type # "offer" /\ Holds(s, session, session')
      BY <1>3, <1>13, <2>1
    <3>2. Affirms(s, Tail(up), session')
      BY <1>4, <1>13, <1>14, <2>1, <3>1, AffirmsHandled
    <3> QED
      BY <1>5, <2>1, <3>2
  <2>2. CASE j # k
    <3>1. Holds(s, session, session')
      BY <1>3, <1>6, <2>2
    <3> QED
      BY <1>5, <1>14, <2>2, <3>1, AffirmsKept
  <2> QED
    BY <2>1, <2>2
<1>16. ASSUME conns[j].open, conns[j].bound
       PROVE  /\ Story(s, v, conns'[j].up, Append(down, e), session')
              /\ Board(s, client[s], conns'[j].up, Append(down, e), session')
  <2>1. Story(s, v, up, down, session) /\ Board(s, client[s], up, down, session)
    BY <1>2, <1>4, <1>16 DEF Tale, s, v, up, down
  <2>2. Story(s, v, conns'[j].up, down, session)
    <3>1. CASE j = k
      BY <1>4, <1>5, <1>13, <2>1, <3>1, StoryHandled
    <3>2. CASE j # k
      BY <1>5, <2>1, <3>2
    <3> QED
      BY <3>1, <3>2
  <2>3. ASSUME e.cause = <<s, "accept">>
        PROVE  /\ \A i \in DOMAIN conns'[j].up : conns'[j].up[i].type # "accept"
               /\ \A m \in DOMAIN down : down[m].cause # <<s, "accept">>
               /\ \A i \in 0..Len(down) : ~Shows(v, down, i).accepted[s]
    <3>1. j = k /\ up[1].type = "accept" /\ 1 \in DOMAIN up /\ up # <<>>
      BY <1>9, <1>13, <2>3
    <3>2. /\ \A i \in DOMAIN up : up[i].type = "accept" => i = 1
          /\ \A m \in DOMAIN down : down[m].cause # <<s, "accept">>
          /\ \A m \in 0..Len(down) : ~Shows(v, down, m).accepted[s]
      BY <2>1, <3>1 DEF Story
    <3>3. \A i \in DOMAIN Tail(up) : i \in Nat \ {0} /\ i + 1 \in DOMAIN up /\ Tail(up)[i] = up[i + 1]
      BY <1>4, <3>1, Tailed
    <3>4. ASSUME NEW i \in DOMAIN Tail(up), Tail(up)[i].type = "accept" PROVE FALSE
      <4>1. i + 1 = 1 /\ i \in Nat \ {0}
        BY <3>2, <3>3, <3>4
      <4> QED
        BY <4>1
    <3> QED
      BY <1>5, <3>1, <3>2, <3>4
  <2>4. session'.accepted[s] /\ ~session.accepted[s] => e.cause = <<s, "accept">>
    BY <1>3, <1>12 DEF Holds
  <2>5. session.accepted[s] /\ session'.accepted[s] =>
          session'.deal = session.deal /\ e.cause # <<s, "offer">>
    BY <1>3, <1>10 DEF Holds
  <2>6. Story(s, v, conns'[j].up, Append(down, e), session')
    BY <1>3, <1>4, <1>5, <1>7, <2>2, <2>3, <2>4, <2>5, StoryTold
  <2>7. Board(s, client[s], up, Append(down, e), session')
    BY <1>3, <1>4, <1>5, <2>1, BoardTold
  <2>8. Board(s, client[s], conns'[j].up, Append(down, e), session')
    <3>1. CASE j = k
      <4>1. up[1].type = "offer" =>
              \E m \in DOMAIN Append(down, e) : Append(down, e)[m].cause = <<s, "offer">>
        <5>1. up[1].type = "offer" => e.cause = <<s, "offer">>
          BY <1>11, <1>13, <3>1
        <5>2. Len(down) + 1 \in DOMAIN Append(down, e) /\ Append(down, e)[Len(down) + 1] = e
          BY <1>4, <1>5, Appended
        <5> QED
          BY <5>1, <5>2
      <4> QED
        BY <1>4, <1>5, <1>13, <2>7, <3>1, <4>1, BoardHandled
    <3>2. CASE j # k
      BY <1>5, <2>7, <3>2
    <3> QED
      BY <3>1, <3>2
  <2> QED
    BY <2>6, <2>8
<1> QED
  BY <1>2, <1>5, <1>15, <1>16 DEF Tale, v

\* A message that changes nothing, a refused action or the greeting of
\* somebody who left, is just gone.
LEMMA PoppedScene ==
  ASSUME RelayInv, SeenInv, ~Ended, NEW k \in DOMAIN conns, Handle(k), conns' = Popped(k),
         UNCHANGED <<session, attached, client, published>>,
         Head(conns[k].up).type = "offer" => ~May("offer"),
         NEW j \in DOMAIN conns
  PROVE  Meets(j)' /\ Tale(j)'
<1> DEFINE s == conns[j].by
           up == conns[j].up
           down == conns[j].down
<1>1. /\ SessionInv /\ conns \in Seq(Conn)
      /\ conns[k].up # <<>> /\ Head(conns[k].up) = conns[k].up[1]
      /\ Takes(Popped(k), k)
  BY HandleTakes
<1>2. /\ conns'[j].by = s /\ conns'[j].down = down /\ conns'[j].bound = conns[j].bound
      /\ conns'[j].open = conns[j].open
      /\ conns'[j].up = IF j = k THEN Tail(up) ELSE up
      /\ DOMAIN conns' = DOMAIN conns
  BY <1>1 DEF Takes
<1>3. s \in Seat /\ up \in Seq(Request) /\ down \in Seq(Answer) /\ Meets(j) /\ Tale(j)
  BY <1>1, ConnFields DEF SeenInv
<1>4. j = k => up # <<>> /\ up[1] = Head(conns[k].up)
  BY <1>1
<1>5. j = k =>
        \A i \in DOMAIN Tail(up) : i \in Nat \ {0} /\ i + 1 \in DOMAIN up /\ Tail(up)[i] = up[i + 1]
  BY <1>3, <1>4, Tailed
<1>6. Meets(j)'
  <2>1. ASSUME ~conns[j].bound, NEW i \in DOMAIN conns'[j].up
        PROVE  i = 1 /\ conns'[j].up[i].type \in Greeting
    <3>1. CASE j # k
      BY <1>2, <1>3, <2>1, <3>1 DEF Meets
    <3>2. CASE j = k
      <4>1. i \in Nat \ {0} /\ i + 1 \in DOMAIN up
        BY <1>2, <1>5, <2>1, <3>2
      <4>2. i + 1 = 1
        BY <1>3, <2>1, <4>1 DEF Meets
      <4> QED
        BY <4>1, <4>2
    <3> QED
      BY <3>1, <3>2
  <2>2. ASSUME conns[j].bound, NEW i \in DOMAIN conns'[j].up
        PROVE  published' /\ conns'[j].up[i].type \notin Greeting
    BY <1>2, <1>3, <1>5, <2>2 DEF Meets
  <2> QED
    BY <1>2, <1>3, <2>1, <2>2 DEF Meets, Introduced
<1>7. Tale(j)'
  <2>1. SUFFICES ASSUME session # NoSession PROVE Tale(j)'
    BY DEF Tale
  <2>2. Affirms(s, up, session)
    BY <1>3, <2>1 DEF Tale
  <2>3. \A t \in Seat : Head(conns[k].up).type = "offer" =>
          session.joiner = 0 \/ session.state \in Closed
    BY <1>1, <2>1, RefusedOffer
  <2>4. session.joiner = 0 => ~session.accepted[s]
    <3>1. s = "a" \/ s = "b"
      BY <1>3 DEF Seat
    <3> QED
      BY <1>1, <2>1, <3>1 DEF SessionInv, UnjoinedUntouched, Neither
  <2>5. Affirms(s, conns'[j].up, session)
    <3>1. CASE j = k
      <4>1. \/ ~session.accepted[s] \/ session.state \in Closed
            \/ up[1].type # "offer" /\ Holds(s, session, session)
        BY <1>3, <1>4, <2>3, <2>4, <3>1 DEF Holds
      <4>2. Affirms(s, Tail(up), session)
        BY <1>3, <1>4, <2>2, <3>1, <4>1, AffirmsHandled
      <4> QED
        BY <1>2, <3>1, <4>2
    <3> QED
      BY <1>2, <2>2, <3>1
  <2>6. ASSUME conns[j].open, conns[j].bound
        PROVE  /\ Story(s, client[s].view, conns'[j].up, down, session)
               /\ Board(s, client[s], conns'[j].up, down, session)
    <3>1. /\ Story(s, client[s].view, up, down, session)
          /\ Board(s, client[s], up, down, session)
      BY <1>3, <2>1, <2>6 DEF Tale
    <3>2. CASE j = k
      <4>1. session.joiner = 0 => ~client[s].view.accepted[s]
        <5>1. 0 \in 0..Len(down) /\ Shows(client[s].view, down, 0) = client[s].view
          BY <1>3, LenProperties DEF Shows
        <5> QED
          BY <3>1, <5>1 DEF Story
      <4>2. up[1].type = "offer" => session.state \in Closed \/ ~client[s].view.accepted[s]
        BY <1>3, <1>4, <2>3, <3>2, <4>1
      <4> QED
        BY <1>2, <1>3, <1>4, <3>1, <3>2, <4>2, StoryHandled, BoardHandled
    <3> QED
      BY <1>2, <3>1, <3>2
  <2> QED
    BY <1>2, <2>5, <2>6 DEF Tale
<1> QED
  BY <1>6, <1>7

\* The first snapshot on a socket whose greeting was handled.
LEMMA GreetedTale ==
  ASSUME NEW s \in Seat, NEW c, NEW e \in Answer, NEW now \in Session,
         c.view = NoView, e.snap = Snapshot(now), e.cause = <<>>,
         ~now.accepted[s], now.state # "agreed"
  PROVE  /\ Affirms(s, <<>>, now)
         /\ Story(s, c.view, <<>>, Append(<<>>, e), now)
         /\ Board(s, c, <<>>, Append(<<>>, e), now)
<1>1. DOMAIN <<>> = {} /\ <<>> \in Seq(Answer)
  BY EmptySeq
<1>2. Affirms(s, <<>>, now)
  BY <1>1 DEF Affirms
<1>3. Story(s, c.view, <<>>, <<>>, now)
  BY <1>1, StoryStarts
<1>4. e.snap.accepted = now.accepted /\ e.snap.deal = now.deal /\ e.snap.state = now.state
  BY SnapOf
<1>5. e.cause # <<s, "accept">> /\ e.cause # <<s, "offer">>
  OBVIOUS
<1>6. Story(s, c.view, <<>>, Append(<<>>, e), now)
  BY <1>1, <1>3, <1>4, <1>5, StoryTold
<1>7. ~c.view.accepted[s]
  BY DEF NoView, Nobody
<1> QED
  BY <1>2, <1>6, <1>7 DEF Board

\* A queue of one message, taken.
LEMMA TakenLast ==
  ASSUME NEW up \in Seq(Request), up # <<>>, \A i \in DOMAIN up : i = 1
  PROVE  Tail(up) = <<>>
<1>1. Len(up) \in Nat \ {0} /\ DOMAIN up = 1..Len(up) /\ Tail(up) \in Seq(Request)
      /\ Len(Tail(up)) = Len(up) - 1
  BY HeadTailProperties, EmptySeq, LenProperties
<1>2. Len(up) = 1
  BY <1>1
<1>3. Len(Tail(up)) = 0
  BY <1>1, <1>2
<1> QED
  BY <1>1, <1>3, EmptySeq

\* Somebody sits down: seated on a new socket, and the other is told.
LEMMA JoinSays ==
  ASSUME RelayInv, SeenInv, ~Ended, NEW k \in DOMAIN conns, Handle(k),
         Head(conns[k].up).type = "join"
  PROVE  /\ conns[k].by = "b" /\ published /\ conns[k].open /\ ~conns[k].bound
         /\ session # NoSession /\ session.joiner = 0 /\ Head(conns[k].up).nonce \in Nonce
         /\ JoinAnew(Head(conns[k].up).nonce)
         /\ attached' = [attached EXCEPT !["b"] = k]
         /\ UNCHANGED <<client, published, persisted>>
         /\ conns[k].up # <<>> /\ Tail(conns[k].up) = <<>>
         /\ SeatMsg(session') \in Answer /\ Sync(session') \in Answer /\ session' \in Session
         /\ DOMAIN conns' = DOMAIN conns
         /\ \A j \in DOMAIN conns :
              /\ conns'[j].by = conns[j].by /\ conns'[j].open = conns[j].open
              /\ conns'[j].served = conns[j].served
              /\ conns'[j].bound = (j = k \/ conns[j].bound)
              /\ conns'[j].up = IF j = k THEN Tail(conns[j].up) ELSE conns[j].up
              /\ conns'[j].down = IF j = k THEN Append(<<>>, SeatMsg(session'))
                   ELSE IF j = attached["a"] /\ conns[j].open /\ conns[j].served
                        THEN Append(conns[j].down, Sync(session')) ELSE conns[j].down
<1> DEFINE msg == Head(conns[k].up)
           cs == Popped(k)
           n == msg.nonce
           bs == Bind(cs, k)
           es == Sent(bs, k, SeatMsg(session'))
<1>1. /\ SessionInv /\ Types /\ conns \in Seq(Conn) /\ conns[k].up \in Seq(Request)
      /\ conns[k].up # <<>> /\ msg = conns[k].up[1] /\ 1 \in DOMAIN conns[k].up
      /\ msg \in Request /\ Greets(k, 1) /\ Takes(cs, k) /\ k \in 0..Len(conns)
  BY HandleTakes
<1>2. conns[k].by = "b" /\ published /\ n \in Nonce
  BY <1>1 DEF Greets, Request
<1>3. Meets(k) /\ Lone
  BY DEF SeenInv
<1>4. conns[k].open /\ conns[k].served /\ session # NoSession
  BY <1>2, <1>3, OneSocket DEF Ended
<1>5. ~conns[k].bound
  BY <1>1, <1>3 DEF Meets, Greeting
<1>6. session.joiner = 0 /\ conns[k].down = <<>> /\ \A i \in DOMAIN conns[k].up : i = 1
  BY <1>2, <1>3, <1>4, <1>5 DEF Meets
<1>7. HandleJoin(k, msg, cs) /\ UNCHANGED <<client, published, persisted>>
  BY DEF Handle, Popped, storedVars
<1> HIDE DEF msg, cs, n
<1>8. /\ JoinAnew(n) \/ JoinAgain(n)
      /\ attached' = [attached EXCEPT !["b"] = k]
      /\ conns' = Sent(es, attached["a"], Sync(session'))
  BY <1>4, <1>6, <1>7 DEF HandleJoin, Seated, n
<1>9. JoinAnew(n)
  BY <1>6, <1>8 DEF JoinAgain, Seated
<1>10. session' \in Session
  BY <1>1, <1>2, <1>9, JoinHolds
<1>11. SeatMsg(session') \in Answer /\ Sync(session') \in Answer
  BY <1>10, SnapshotType
<1>12. /\ bs \in Seq(Conn) /\ Len(bs) = Len(conns) /\ DOMAIN bs = DOMAIN conns
       /\ \A j \in DOMAIN conns :
            /\ bs[j].by = conns[j].by /\ bs[j].down = conns[j].down
            /\ bs[j].open = conns[j].open /\ bs[j].served = conns[j].served
            /\ bs[j].up = IF j = k THEN Tail(conns[j].up) ELSE conns[j].up
            /\ bs[j].bound = (j = k \/ conns[j].bound)
  <2>1. cs \in Seq(Conn) /\ k \in DOMAIN cs
    BY <1>1 DEF Takes
  <2>2. /\ bs \in Seq(Conn) /\ Len(bs) = Len(cs) /\ DOMAIN bs = DOMAIN cs
        /\ \A j \in DOMAIN cs :
             /\ bs[j].by = cs[j].by /\ bs[j].up = cs[j].up
             /\ bs[j].open = cs[j].open /\ bs[j].served = cs[j].served
             /\ bs[j].down = cs[j].down
             /\ bs[j].bound = (j = k \/ cs[j].bound)
    BY <2>1, BoundOf
  <2> HIDE DEF bs
  <2> QED
    BY <1>1, <2>2 DEF Takes
<1> HIDE DEF bs
<1>13. Reaches(bs, es, {k}, SeatMsg(session'))
  BY <1>1, <1>11, <1>12, SentReaches
<1> HIDE DEF es
<1>14. Reaches(es, conns', {attached["a"]}, Sync(session'))
  <2>1. es \in Seq(Conn) /\ attached["a"] \in 0..Len(es)
    BY <1>1, <1>12, <1>13 DEF Reaches, Types, Seat
  <2> QED
    BY <1>8, <1>11, <2>1, SentReaches
<1>15. attached["a"] # k
  <2>1. "a" \in Seat /\ "a" # "b"
    BY DEF Seat
  <2> QED
    BY <1>2, <1>3, <2>1, OneSocket
<1>16. ASSUME NEW j \in DOMAIN conns
       PROVE  /\ conns'[j].by = conns[j].by /\ conns'[j].open = conns[j].open
              /\ conns'[j].served = conns[j].served
              /\ conns'[j].bound = (j = k \/ conns[j].bound)
              /\ conns'[j].up = IF j = k THEN Tail(conns[j].up) ELSE conns[j].up
              /\ conns'[j].down = IF j = k THEN Append(<<>>, SeatMsg(session'))
                   ELSE IF j = attached["a"] /\ conns[j].open /\ conns[j].served
                        THEN Append(conns[j].down, Sync(session')) ELSE conns[j].down
  <2>1. /\ es[j].by = conns[j].by /\ es[j].open = conns[j].open /\ es[j].served = conns[j].served
        /\ es[j].bound = (j = k \/ conns[j].bound)
        /\ es[j].up = IF j = k THEN Tail(conns[j].up) ELSE conns[j].up
        /\ es[j].down = IF j = k THEN Append(conns[j].down, SeatMsg(session')) ELSE conns[j].down
        /\ j \in DOMAIN es
    BY <1>4, <1>12, <1>13 DEF Reaches
  <2> QED
    BY <1>6, <1>14, <1>15, <2>1 DEF Reaches
<1>17. Tail(conns[k].up) = <<>>
  BY <1>1, <1>6, TakenLast
<1>18. DOMAIN conns' = DOMAIN conns
  BY <1>12, <1>13, <1>14 DEF Reaches
<1> QED
  BY <1>1, <1>2, <1>4, <1>5, <1>6, <1>7, <1>8, <1>9, <1>10, <1>11, <1>16, <1>17, <1>18 DEF n, msg

LEMMA JoinScene ==
  ASSUME RelayInv, SeenInv, ~Ended, NEW k \in DOMAIN conns, Handle(k),
         Head(conns[k].up).type = "join", NEW j \in DOMAIN conns
  PROVE  Meets(j)' /\ Tale(j)'
<1> DEFINE n == Head(conns[k].up).nonce
           s == conns[j].by
           v == client[s].view
<1>1. /\ conns[k].by = "b" /\ published /\ conns[k].open /\ ~conns[k].bound
      /\ session # NoSession /\ session.joiner = 0 /\ n \in Nonce /\ JoinAnew(n)
      /\ attached' = [attached EXCEPT !["b"] = k]
      /\ UNCHANGED <<client, published>>
      /\ Tail(conns[k].up) = <<>>
      /\ SeatMsg(session') \in Answer /\ Sync(session') \in Answer
      /\ DOMAIN conns' = DOMAIN conns
      /\ conns'[j].by = s /\ conns'[j].open = conns[j].open
      /\ conns'[j].bound = (j = k \/ conns[j].bound)
      /\ conns'[j].up = IF j = k THEN Tail(conns[j].up) ELSE conns[j].up
      /\ conns'[j].down = IF j = k THEN Append(<<>>, SeatMsg(session'))
           ELSE IF j = attached["a"] /\ conns[j].open /\ conns[j].served
                THEN Append(conns[j].down, Sync(session')) ELSE conns[j].down
  BY JoinSays
<1>2. SessionInv /\ conns \in Seq(Conn) /\ Types
  BY HandleTakes
<1>3. /\ session' # NoSession /\ session' \in Session /\ session'.joiner # 0
      /\ session'.deal = session.deal /\ session'.accepted = session.accepted
      /\ session'.state \notin Closed /\ session'.state # "agreed"
      /\ \A t \in Seat : ~session.accepted[t]
  BY <1>1, <1>2, JoinHolds DEF Seat
<1>4. /\ SeatMsg(session').type = "seat" /\ Sync(session').type = "sync"
      /\ SeatMsg(session').snap = Snapshot(session') /\ Sync(session').snap = Snapshot(session')
      /\ SeatMsg(session').cause = <<>> /\ Sync(session').cause = <<>>
      /\ Snapshot(session').state = session'.state
      /\ Snapshot(session').accepted = session'.accepted /\ Snapshot(session').deal = session'.deal
  BY <1>3, SnapOf DEF SeatMsg, Sync
<1>5. s \in Seat /\ conns[j].down \in Seq(Answer) /\ Meets(j) /\ Tale(j)
  BY <1>2, ConnFields DEF SeenInv
<1>6. CASE j = k
  <2>1. /\ conns'[j].up = <<>> /\ conns'[j].down = Append(<<>>, SeatMsg(session'))
        /\ conns'[j].bound /\ conns'[j].by = "b"
    BY <1>1, <1>6
  <2>2. client'["b"].view = NoView /\ NoView.state \notin Closed
    BY <1>1, <1>5, <1>6 DEF Meets, NoView, Closed
  <2>3. DOMAIN conns'[j].up = {} /\ DOMAIN conns'[j].down = {1} /\ conns'[j].down[1] = SeatMsg(session')
    BY <2>1
  <2>4. attached'["b"] = k
    BY <1>1, <1>2 DEF Types, Seat
  <2>5. Meets(j)'
    BY <1>1, <1>3, <1>4, <1>6, <2>1, <2>2, <2>3, <2>4 DEF Meets
  <2>6. /\ Affirms("b", <<>>, session')
        /\ Story("b", client'["b"].view, <<>>, Append(<<>>, SeatMsg(session')), session')
        /\ Board("b", client'["b"], <<>>, Append(<<>>, SeatMsg(session')), session')
    <3>1. "b" \in Seat
      BY DEF Seat
    <3>2. ~session'.accepted["b"]
      BY <1>3, <3>1
    <3> QED
      BY <1>1, <1>3, <1>4, <2>2, <3>1, <3>2, GreetedTale
  <2>7. Tale(j)'
    BY <2>1, <2>6 DEF Tale
  <2> QED
    BY <2>5, <2>7
<1>7. CASE j # k
  <2>1. s = "a"
    <3>1. s # "b"
      BY <1>1, <1>7, OneSocket DEF SeenInv
    <3> QED
      BY <1>5, <3>1 DEF Seat
  <2>2. /\ attached'[s] = attached[s]
    BY <1>1, <1>2, <2>1 DEF Types, Seat
  <2>3. /\ conns[j].open => conns[j].served
        /\ ~conns[j].bound => j # attached["a"]
    BY <1>5, <2>1, OneSocket DEF SeenInv
  <2>4. /\ conns'[j].up = conns[j].up /\ conns'[j].bound = conns[j].bound
        /\ conns'[j].down \in {conns[j].down, Append(conns[j].down, Sync(session'))}
        /\ ~conns[j].bound => conns'[j].down = conns[j].down
        /\ conns[j].open /\ conns[j].bound => conns'[j].down = Append(conns[j].down, Sync(session'))
    <3>1. conns[j].bound \in BOOLEAN
      BY <1>2, ConnFields
    <3>2. conns[j].open /\ conns[j].bound => attached["a"] = j
      BY <1>1, <1>5, <2>1 DEF Meets
    <3> QED
      BY <1>1, <1>7, <2>3, <3>1, <3>2
  <2>5. ASSUME NEW i \in DOMAIN conns'[j].down PROVE conns'[j].down[i].type # "gone"
    <3>1. /\ DOMAIN Append(conns[j].down, Sync(session')) = DOMAIN conns[j].down \cup {Len(conns[j].down) + 1}
          /\ \A m \in DOMAIN conns[j].down : Append(conns[j].down, Sync(session'))[m] = conns[j].down[m]
          /\ Append(conns[j].down, Sync(session'))[Len(conns[j].down) + 1] = Sync(session')
      BY <1>1, <1>5, Appended
    <3>2. \A m \in DOMAIN conns[j].down : conns[j].down[m].type # "gone"
      BY <1>5 DEF Meets
    <3>3. CASE conns'[j].down = conns[j].down
      BY <2>5, <3>2, <3>3
    <3>4. CASE conns'[j].down = Append(conns[j].down, Sync(session'))
      <4>1. i \in DOMAIN conns[j].down \/ i = Len(conns[j].down) + 1
        BY <2>5, <3>1, <3>4
      <4> QED
        BY <1>4, <3>1, <3>2, <3>4, <4>1
    <3> QED
      BY <2>4, <3>3, <3>4
  <2>6. Meets(j)'
    BY <1>1, <1>3, <1>5, <2>1, <2>2, <2>4, <2>5 DEF Meets
  <2>7. Affirms(s, conns[j].up, session')
    <3>1. Affirms(s, conns[j].up, session) /\ Holds(s, session, session')
      BY <1>1, <1>3, <1>5 DEF Tale, Holds
    <3> QED
      BY <3>1, AffirmsKept
  <2>8. ASSUME conns[j].open, conns[j].bound
        PROVE  /\ Story(s, v, conns[j].up, Append(conns[j].down, Sync(session')), session')
               /\ Board(s, client[s], conns[j].up, Append(conns[j].down, Sync(session')), session')
    <3>1. /\ Story(s, v, conns[j].up, conns[j].down, session)
          /\ Board(s, client[s], conns[j].up, conns[j].down, session)
      BY <1>1, <1>5, <2>8 DEF Tale
    <3>2. Sync(session').cause # <<s, "accept">> /\ Sync(session').cause # <<s, "offer">>
      BY <1>4
    <3>3. ~session.accepted[s] /\ ~session'.accepted[s]
      BY <1>3, <1>5
    <3>4. Story(s, v, conns[j].up, Append(conns[j].down, Sync(session')), session')
      BY <1>1, <1>3, <1>4, <1>5, <3>1, <3>2, <3>3, StoryTold
    <3>5. ~v.accepted[s]
      <4>1. 0 \in 0..Len(conns[j].down) /\ Shows(v, conns[j].down, 0) = v
        BY <1>5, LenProperties DEF Shows
      <4> QED
        BY <1>1, <3>1, <4>1 DEF Story
    <3>6. Board(s, client[s], conns[j].up, Append(conns[j].down, Sync(session')), session')
      BY <3>5 DEF Board
    <3> QED
      BY <3>4, <3>6
  <2>9. Tale(j)'
    BY <1>1, <2>4, <2>7, <2>8 DEF Tale
  <2> QED
    BY <2>6, <2>9
<1> QED
  BY <1>6, <1>7

\* A session is started: the only socket there is gets a seat on it.
LEMMA CreateSays ==
  ASSUME RelayInv, SeenInv, ~Ended, NEW k \in DOMAIN conns, Handle(k),
         Head(conns[k].up).type = "create", conns[k].open
  PROVE  /\ ~published /\ DOMAIN conns' = DOMAIN conns
         /\ \A j \in DOMAIN conns : j = k
         /\ session' = Fresh /\ attached'["a"] = k /\ attached'["b"] = 0
         /\ UNCHANGED <<client, published, persisted>>
         /\ SeatMsg(Fresh) \in Answer /\ Fresh \in Session
         /\ conns[k].by = "a" /\ conns'[k].by = "a" /\ conns'[k].bound
         /\ conns'[k].open /\ conns'[k].served
         /\ conns'[k].up = <<>> /\ conns'[k].down = Append(<<>>, SeatMsg(Fresh))
<1> DEFINE msg == Head(conns[k].up)
           cs == Popped(k)
           us == [i \in DOMAIN cs |-> [cs[i] EXCEPT !.bound = FALSE]]
           bs == Bind(us, k)
<1>1. /\ SessionInv /\ Types /\ conns \in Seq(Conn) /\ conns[k].up \in Seq(Request)
      /\ conns[k].served /\ conns[k].up # <<>> /\ msg = conns[k].up[1] /\ 1 \in DOMAIN conns[k].up
      /\ Greets(k, 1) /\ Takes(cs, k) /\ k \in 0..Len(conns) /\ k # 0
  BY HandleTakes
<1>2. conns[k].by = "a" /\ ~published /\ conns[k].down = <<>>
  BY <1>1 DEF Greets
<1>3. Meets(k) /\ Lone
  BY DEF SeenInv
<1>4. \A j \in DOMAIN conns : j = k
  BY <1>2, <1>3 DEF Lone
<1>5. ~conns[k].bound
  BY <1>1, <1>3 DEF Meets, Greeting
<1>6. Tail(conns[k].up) = <<>>
  BY <1>1, <1>3, <1>5, TakenLast DEF Meets
<1>7. HandleCreate(k, cs) /\ UNCHANGED <<client, published, persisted>>
  BY DEF Handle, Popped, storedVars
<1> HIDE DEF msg, cs
<1>8. /\ session' = Fresh
      /\ attached' = [s \in Seat |-> IF s = "a" THEN k ELSE 0]
      /\ conns' = Sent(bs, k, SeatMsg(Fresh))
  BY <1>7 DEF HandleCreate, Create
<1>9. attached'["a"] = k /\ attached'["b"] = 0
  BY <1>8 DEF Seat
<1>10. Fresh \in Session
  BY OfferAssumption DEF Fresh, Session, TradeState, PreComplete, Deal, Empty, Nobody, Seat
<1>11. SeatMsg(Fresh) \in Answer
  BY <1>10, SnapshotType
<1>12. cs \in Seq(Conn) /\ Len(cs) = Len(conns) /\ DOMAIN cs = DOMAIN conns /\ cs[k].down = <<>>
       /\ cs[k].up = <<>> /\ cs[k].by = "a" /\ cs[k].open /\ cs[k].served
  BY <1>1, <1>2, <1>6 DEF Takes
<1>13. Answered(cs, us, {})
  BY <1>12, UnboundFacts
<1> HIDE DEF us
<1>14. us \in Seq(Conn) /\ Len(us) = Len(conns) /\ DOMAIN us = DOMAIN conns
       /\ us[k].up = <<>> /\ us[k].by = "a" /\ us[k].open /\ us[k].served /\ us[k].down = <<>>
  BY <1>12, <1>13, LenProperties DEF Answered
<1>15. /\ bs \in Seq(Conn) /\ Len(bs) = Len(us) /\ DOMAIN bs = DOMAIN us
       /\ bs[k].by = us[k].by /\ bs[k].up = us[k].up
       /\ bs[k].open = us[k].open /\ bs[k].served = us[k].served
       /\ bs[k].down = us[k].down /\ bs[k].bound
  <2>1. k \in DOMAIN us
    BY <1>14
  <2>2. bs[k].bound
    BY <1>14, <2>1, BindFacts
  <2> QED
    BY <1>14, <2>1, <2>2, BoundOf
<1> HIDE DEF bs
<1>16. Reaches(bs, conns', {k}, SeatMsg(Fresh))
  <2>1. k \in 0..Len(bs)
    BY <1>1, <1>14, <1>15
  <2> QED
    BY <1>8, <1>11, <1>15, <2>1, SentReaches
<1>17. /\ DOMAIN conns' = DOMAIN conns /\ conns'[k].by = "a" /\ conns'[k].bound
       /\ conns'[k].open /\ conns'[k].served
       /\ conns'[k].up = <<>> /\ conns'[k].down = Append(<<>>, SeatMsg(Fresh))
  BY <1>14, <1>15, <1>16 DEF Reaches
<1> QED
  BY <1>2, <1>4, <1>7, <1>8, <1>9, <1>10, <1>11, <1>17

LEMMA CreateScene ==
  ASSUME RelayInv, SeenInv, ~Ended, NEW k \in DOMAIN conns, Handle(k),
         Head(conns[k].up).type = "create", NEW j \in DOMAIN conns
  PROVE  Meets(j)' /\ Tale(j)'
<1>1. CASE ~conns[k].open
  <2>1. conns' = Popped(k) /\ UNCHANGED <<session, attached, client, published>>
    BY <1>1 DEF Handle, HandleCreate, Popped, storedVars
  <2> QED
    BY <2>1, PoppedScene
<1>2. CASE conns[k].open
  <2>1. /\ ~published /\ j = k
        /\ session' = Fresh /\ attached'["a"] = k
        /\ UNCHANGED <<client, published>>
        /\ SeatMsg(Fresh) \in Answer /\ Fresh \in Session
        /\ conns'[j].by = "a" /\ conns'[j].bound /\ conns'[j].open
        /\ conns'[j].up = <<>> /\ conns'[j].down = Append(<<>>, SeatMsg(Fresh))
    BY <1>2, CreateSays
  <2>2. SeatMsg(Fresh).type = "seat" /\ SeatMsg(Fresh).snap = Snapshot(Fresh) /\ SeatMsg(Fresh).cause = <<>>
    BY DEF SeatMsg
  <2>3. DOMAIN conns'[j].up = {} /\ DOMAIN conns'[j].down = {1} /\ conns'[j].down[1] = SeatMsg(Fresh)
        /\ conns'[j].down # <<>>
    BY <2>1
  <2>4. Meets(j)'
    BY <2>1, <2>2, <2>3 DEF Meets, Introduced
  <2>5. client'["a"].view = NoView
    BY <2>1 DEF SeenInv, Lone, Seat
  <2>6. ~Fresh.accepted["a"] /\ Fresh.state # "agreed"
    BY DEF Fresh, Nobody, Seat
  <2>7. /\ Affirms("a", <<>>, session')
        /\ Story("a", client'["a"].view, <<>>, Append(<<>>, SeatMsg(Fresh)), session')
        /\ Board("a", client'["a"], <<>>, Append(<<>>, SeatMsg(Fresh)), session')
    <3>1. "a" \in Seat
      BY DEF Seat
    <3> HIDE DEF Fresh, NoView, SeatMsg
    <3> QED
      BY <2>1, <2>2, <2>5, <2>6, <3>1, GreetedTale
  <2>8. Tale(j)'
    BY <2>1, <2>7 DEF Tale
  <2> QED
    BY <2>4, <2>8
<1> QED
  BY <1>1, <1>2

LEMMA HandleLength ==
  ASSUME RelayInv, NEW k \in DOMAIN conns, Handle(k)
  PROVE  DOMAIN conns' = DOMAIN conns /\ Len(conns') = Len(conns)
<1>1. Answered(Popped(k), conns', {k, attached["a"], attached["b"]})
  BY HandleEffect DEF Effect
<1>2. Popped(k) \in Seq(Conn) /\ Len(Popped(k)) = Len(conns) /\ DOMAIN Popped(k) = DOMAIN conns
  BY HandleTakes DEF Takes
<1> QED
  BY <1>1, <1>2, LenProperties DEF Answered

\* Every message a trade that goes on is asked leaves the scene in order.
LEMMA HandleScene ==
  ASSUME RelayInv, SeenInv, ~Ended, ~Ended', NEW k \in DOMAIN conns, Handle(k)
  PROVE  \A j \in DOMAIN conns' : Meets(j)' /\ Tale(j)'
<1> DEFINE msg == Head(conns[k].up)
<1>1. msg \in Request /\ msg = conns[k].up[1] /\ 1 \in DOMAIN conns[k].up
  BY HandleTakes
<1>2. Lone
  BY DEF SeenInv
<1>3. CASE msg.type = "create"
  <2>1. DOMAIN conns' = DOMAIN conns
    BY HandleLength
  <2> QED
    BY <1>3, <2>1, CreateScene
<1>4. CASE msg.type = "join"
  <2>1. DOMAIN conns' = DOMAIN conns
    BY HandleLength
  <2> QED
    BY <1>4, <2>1, JoinScene
<1>5. CASE msg.type = "resume"
  BY <1>1, <1>2, <1>5 DEF Lone
<1>6. CASE msg.type \notin Greeting
  <2>1. DOMAIN conns' = DOMAIN conns
    BY HandleLength
  <2>2. CASE Does(conns[k].by, msg)
    BY <1>6, <2>1, <2>2, HeardMeets, HeardTale
  <2>3. CASE ~Does(conns[k].by, msg)
    <3>1. /\ UNCHANGED <<attached, client, published>>
          /\ UNCHANGED session /\ ~May(msg.type) /\ conns' = Popped(k)
      BY <1>6, <2>3, ActionSays
    <3> QED
      BY <2>1, <3>1, PoppedScene
  <2> QED
    BY <2>2, <2>3
<1> QED
  BY <1>1, <1>3, <1>4, <1>5, <1>6 DEF Greeting

\* What a message does to the seats, told by the sockets alone.
LEMMA HandleBound ==
  ASSUME RelayInv, NEW k \in DOMAIN conns, Handle(k),
         Head(conns[k].up).type \notin {"create", "resume"}
  PROVE  /\ \A i \in DOMAIN conns : conns[i].bound => conns'[i].bound
         /\ \/ attached' = attached
            \/ /\ attached' = [attached EXCEPT !["b"] = k]
               /\ conns[k].by = "b" /\ conns'[k].bound
<1> DEFINE msg == Head(conns[k].up)
           cs == Popped(k)
           s == conns[k].by
<1>1. /\ SessionInv /\ Types /\ msg \in Request /\ s \in Seat /\ msg = conns[k].up[1]
      /\ 1 \in DOMAIN conns[k].up /\ Greets(k, 1) /\ Takes(cs, k) /\ k \in 0..Len(conns) /\ k # 0
  BY HandleTakes
<1>2. /\ CASE msg.type = "create" -> HandleCreate(k, cs)
           [] msg.type = "join"   -> HandleJoin(k, msg, cs)
           [] msg.type = "resume" -> HandleResume(k, s, cs)
           [] OTHER               -> HandleAction(k, s, msg, cs)
  BY DEF Handle, Popped
<1> HIDE DEF msg, cs, s
<1>3. cs \in Seq(Conn) /\ Len(cs) = Len(conns) /\ DOMAIN cs = DOMAIN conns /\ k \in DOMAIN cs
      /\ \A i \in DOMAIN conns : cs[i].bound = conns[i].bound
  BY <1>1 DEF Takes
<1>4. ASSUME conns' = Sent(cs, k, Gone) \/ conns' = cs
      PROVE  \A i \in DOMAIN conns : conns'[i].bound = conns[i].bound
  <2>1. Alike(cs, Sent(cs, k, Gone))
    BY <1>1, <1>3, SentAlike, GoneType
  <2> QED
    BY <1>3, <1>4, <2>1 DEF Alike, SameBound
<1>5. CASE msg.type = "join"
  <2>1. CASE /\ JoinAnew(msg.nonce) \/ JoinAgain(msg.nonce)
             /\ attached' = [attached EXCEPT !["b"] = k]
             /\ conns' = Sent(Sent(Bind(cs, k), k, SeatMsg(session')), attached["a"], Sync(session'))
    <3> DEFINE bs == Bind(cs, k)
               es == Sent(bs, k, SeatMsg(session'))
    <3>1. s = "b" /\ msg.nonce \in Nonce
      BY <1>1, <1>5 DEF Greets, Request, msg, s
    <3>2. session' \in Session
      BY <1>1, <2>1, <3>1, JoinHolds
    <3>3. SeatMsg(session') \in Answer /\ Sync(session') \in Answer
      BY <3>2, SnapshotType
    <3>4. /\ bs \in Seq(Conn) /\ Len(bs) = Len(cs) /\ DOMAIN bs = DOMAIN cs /\ bs[k].bound
          /\ \A i \in DOMAIN cs : i # k => bs[i].bound = cs[i].bound
      BY <1>3, BoundOf, BindFacts
    <3> HIDE DEF bs
    <3>5. Alike(bs, es)
      BY <1>1, <1>3, <3>3, <3>4, SentAlike
    <3>6. conns' = Sent(es, attached["a"], Sync(session'))
      BY <2>1 DEF es, bs
    <3> HIDE DEF es
    <3>7. Alike(es, conns')
      <4>1. es \in Seq(Conn) /\ attached["a"] \in 0..Len(es)
        BY <1>1, <1>3, <3>4, <3>5 DEF Alike, Types, Seat
      <4> QED
        BY <3>3, <3>6, <4>1, SentAlike
    <3>8. DOMAIN es = DOMAIN cs
      BY <3>4, <3>5, LenProperties DEF Alike
    <3>9. \A i \in DOMAIN cs : conns'[i].bound = bs[i].bound
      BY <3>4, <3>5, <3>7, <3>8 DEF Alike, SameBound
    <3> QED
      BY <1>3, <2>1, <3>1, <3>4, <3>9 DEF s
  <2>2. CASE conns' = Sent(cs, k, Gone) /\ attached' = attached
    BY <1>4, <2>2
  <2> QED
    BY <1>2, <1>5, <2>1, <2>2 DEF HandleJoin
<1>6. CASE msg.type \notin Greeting
  <2>1. HandleAction(k, s, msg, cs)
    BY <1>2, <1>6 DEF Greeting
  <2>2. CASE Does(s, msg)
             /\ conns' = Broadcast(cs, [Sync(session') EXCEPT !.cause = <<s, msg.type>>])
             /\ UNCHANGED attached
    <3>1. session' \in Session
      BY <1>1, <1>6, <2>2, DoesHolds
    <3>2. msg.type \in DOMAIN Allowed
      BY <1>1, <1>6 DEF Request
    <3>3. [Sync(session') EXCEPT !.cause = <<s, msg.type>>] \in Answer
      BY <1>1, <3>1, <3>2, SnapshotType DEF Answer, Sync
    <3>4. Alike(cs, conns')
      BY <1>1, <1>3, <2>2, <3>3, BroadcastAlike
    <3> QED
      BY <1>3, <2>2, <3>4 DEF Alike, SameBound
  <2>3. CASE (conns' = Sent(cs, k, Gone) \/ conns' = cs) /\ UNCHANGED attached
    BY <1>4, <2>3
  <2> QED
    BY <2>1, <2>2, <2>3 DEF HandleAction
<1> QED
  BY <1>1, <1>5, <1>6 DEF Greeting, msg

LEMMA HandleLone ==
  ASSUME RelayInv, SeenInv, NEW k \in DOMAIN conns, Handle(k)
  PROVE  Lone' /\ (Ended => Ended')
<1> DEFINE type == Head(conns[k].up).type
<1>1. Lone /\ Types
  BY DEF SeenInv, RelayInv
<1>2. Ended => Ended'
  BY <1>1, EndedHandle DEF Ended
<1>3. /\ DOMAIN conns' = DOMAIN conns /\ UNCHANGED <<client, published, persisted>>
  BY HandleLength DEF Handle, storedVars
<1>4. /\ Takes(Popped(k), k) /\ type = conns[k].up[1].type /\ 1 \in DOMAIN conns[k].up
      /\ conns[k].up \in Seq(Request) /\ conns[k].up # <<>> /\ Greets(k, 1) /\ k # 0
  BY HandleTakes
<1>5. Answered(Popped(k), conns', {k, attached["a"], attached["b"]})
  BY HandleEffect DEF Effect
<1>6. ASSUME NEW i \in DOMAIN conns
      PROVE  /\ conns'[i].by = conns[i].by /\ conns'[i].open = conns[i].open
             /\ conns'[i].served = conns[i].served
             /\ conns'[i].up = IF i = k THEN Tail(conns[i].up) ELSE conns[i].up
  BY <1>4, <1>5 DEF Answered, Takes
<1>7. ASSUME NEW i \in DOMAIN conns, NEW j \in DOMAIN conns'[i].up PROVE conns'[i].up[j].type # "resume"
  <2>1. CASE i # k
    BY <1>1, <1>6, <1>7, <2>1 DEF Lone
  <2>2. CASE i = k
    <3>1. \A m \in DOMAIN Tail(conns[k].up) :
            m + 1 \in DOMAIN conns[k].up /\ Tail(conns[k].up)[m] = conns[k].up[m + 1]
      BY <1>4, Tailed
    <3>2. conns'[i].up = Tail(conns[k].up)
      BY <1>6, <2>2
    <3>3. \A m \in DOMAIN conns[k].up : conns[k].up[m].type # "resume"
      BY <1>1 DEF Lone
    <3> QED
      BY <1>7, <3>1, <3>2, <3>3
  <2> QED
    BY <2>1, <2>2
<1>8. ASSUME NEW s \in Seat, attached'[s] # 0
      PROVE  conns'[attached'[s]].by = s /\ conns'[attached'[s]].bound
  <2>1. attached[s] # 0 => /\ attached[s] \in DOMAIN conns /\ conns[attached[s]].by = s
                           /\ conns[attached[s]].bound
    BY <1>1, LenProperties DEF Lone, Types
  <2>2. s = "a" \/ s = "b"
    BY DEF Seat
  <2>3. CASE type = "create" /\ conns[k].open
    <3>1. ~published
      BY <1>4, <2>3 DEF Greets
    <3>2. attached'["a"] = k /\ attached'["b"] = 0 /\ conns'[k].by = "a" /\ conns'[k].bound
      BY <2>3, <3>1, CreateSays DEF Ended
    <3> QED
      BY <1>8, <2>2, <3>2
  <2>4. CASE type = "create" /\ ~conns[k].open
    <3>1. conns' = Popped(k) /\ attached' = attached
      BY <2>4 DEF Handle, HandleCreate, Popped
    <3> QED
      BY <1>4, <1>6, <1>8, <2>1, <3>1 DEF Takes
  <2>5. CASE type = "resume"
    BY <1>1, <1>4, <2>5 DEF Lone
  <2>6. CASE type \notin {"create", "resume"}
    <3>1. /\ \A i \in DOMAIN conns : conns[i].bound => conns'[i].bound
          /\ \/ attached' = attached
             \/ /\ attached' = [attached EXCEPT !["b"] = k]
                /\ conns[k].by = "b" /\ conns'[k].bound
      BY <2>6, HandleBound
    <3>2. CASE attached' = attached
      BY <1>6, <1>8, <2>1, <3>1, <3>2
    <3>3. CASE /\ attached' = [attached EXCEPT !["b"] = k]
               /\ conns[k].by = "b" /\ conns'[k].bound
      <4>1. attached'["b"] = k /\ attached'["a"] = attached["a"]
        BY <1>1, <3>3 DEF Types, Seat
      <4> QED
        BY <1>6, <1>8, <2>1, <2>2, <3>1, <3>3, <4>1
    <3> QED
      BY <3>1, <3>2, <3>3
  <2> QED
    BY <2>3, <2>4, <2>5, <2>6
<1> HIDE DEF type
<1>9. \A s \in Seat : client'[s] = client[s] /\ persisted'[s] = persisted[s]
  BY <1>3
<1>10. \A i \in DOMAIN conns' :
         /\ conns'[i].open => conns'[i].served
         /\ ~published' => conns'[i].by = "a"
         /\ \A j \in DOMAIN conns' : conns'[j].by = conns'[i].by =>
              j = i \/ (conns'[i].by = "b" /\ Ended')
  BY <1>1, <1>2, <1>3, <1>6 DEF Lone
<1>11. ASSUME NEW i \in DOMAIN conns', ~(client'[conns'[i].by].initial # "none")
       PROVE  published' /\ (conns'[i].by = "b" => Ended')
  <2>1. conns'[i].by = conns[i].by /\ i \in DOMAIN conns
    BY <1>3, <1>6
  <2>2. ~Active(conns[i].by)
    BY <1>3, <1>11, <2>1 DEF Active
  <2> QED
    BY <1>1, <1>2, <1>3, <2>1, <2>2 DEF Lone
<1>12. ~published' => ~(client'["b"].initial # "none") /\ \A s \in Seat : client'[s].view = NoView
  BY <1>1, <1>3 DEF Lone, Active
<1>13. \A s \in Seat : /\ client'[s].ws = 0 <=> ~(client'[s].initial # "none")
                       /\ persisted'[s] => client'[s].initial # "none"
  BY <1>1, <1>9 DEF Lone, Active
<1>14. Lone'
  BY <1>3, <1>7, <1>8, <1>10, <1>11, <1>12, <1>13 DEF Lone, Active
<1> QED
  BY <1>2, <1>14

\* A confirmation that counts is for what lies on the table.
LEMMA HandleSees ==
  ASSUME RelayInv, SeenInv, NEW k \in DOMAIN conns, Handle(k)
  PROVE  ConfirmedAsSeen'
<1> DEFINE msg == Head(conns[k].up)
           s == conns[k].by
<1>1. /\ SessionInv /\ Types /\ msg \in Request /\ s \in Seat /\ msg = conns[k].up[1]
      /\ 1 \in DOMAIN conns[k].up /\ Greets(k, 1)
  BY HandleTakes
<1>2. ConfirmedAsSeen /\ Lone
  BY DEF SeenInv
<1>3. saw' = Seen(s, msg) /\ saw \in [Seat -> Tables]
  BY <1>1 DEF Handle, Types
<1>4. CASE Ended
  <2>1. UNCHANGED <<session, saw>>
    BY <1>2, <1>4, EndedHandle
  <2> QED
    BY <1>2, <2>1 DEF ConfirmedAsSeen
<1>5. CASE ~Ended /\ UNCHANGED session
  <2>1. saw' = saw
    BY <1>3, <1>5 DEF Seen
  <2> QED
    BY <1>2, <1>5, <2>1 DEF ConfirmedAsSeen
<1>6. ASSUME msg.type # "confirm", session # NoSession, session' # NoSession,
             session'.deal = session.deal, session'.confirmed = session.confirmed
      PROVE  ConfirmedAsSeen'
  BY <1>2, <1>3, <1>6 DEF ConfirmedAsSeen, Seen
<1>7. ASSUME session'.confirmed = Nobody PROVE ConfirmedAsSeen'
  BY <1>7 DEF ConfirmedAsSeen, Nobody
<1>8. CASE ~Ended /\ msg.type = "create"
  <2>1. CASE conns[k].open
    <3>1. session' = Fresh
      BY <1>8, <2>1, CreateSays
    <3> QED
      BY <1>7, <3>1 DEF Fresh
  <2>2. CASE ~conns[k].open
    BY <1>5, <1>8, <2>2 DEF Handle, HandleCreate
  <2> QED
    BY <2>1, <2>2
<1>9. CASE ~Ended /\ msg.type = "join"
  <2>1. msg.nonce \in Nonce /\ JoinAnew(msg.nonce)
    BY <1>9, JoinSays
  <2>2. /\ session # NoSession /\ session' # NoSession
        /\ session'.deal = session.deal /\ session'.confirmed = session.confirmed
    BY <1>1, <2>1, JoinHolds
  <2> QED
    BY <1>6, <1>9, <2>2
<1>10. CASE ~Ended /\ msg.type \notin Greeting
  <2>1. CASE ~Does(s, msg)
    BY <1>5, <1>10, <2>1, ActionSays
  <2>2. CASE Does(s, msg)
    <3>1. session # NoSession /\ session' # NoSession /\ session \in Session
      BY <1>1, <1>10, <2>2, DoesHolds
    <3>2. msg.type \in {"offer", "accept", "unaccept", "confirm", "cancel"}
      BY <1>1, <1>10 DEF Request, Allowed
    <3>3. CASE msg.type = "offer"
      BY <1>7, <2>2, <3>1, <3>3 DEF Does, OfferUpdate, Session
    <3>4. CASE msg.type = "accept"
      <4>1. Accept(s)
        BY <2>2, <3>4 DEF Does
      <4> QED
        BY <1>6, <3>1, <3>4, <4>1 DEF Accept, Session
    <3>5. CASE msg.type = "unaccept"
      <4>1. Unaccept(s)
        BY <2>2, <3>5 DEF Does
      <4> QED
        BY <1>7, <3>1, <4>1 DEF Unaccept, Session
    <3>6. CASE msg.type = "cancel"
      <4>1. Cancel
        BY <2>2, <3>6 DEF Does
      <4> QED
        BY <1>6, <3>1, <3>6, <4>1 DEF Cancel, Session
    <3>7. CASE msg.type = "confirm"
      <4>1. ConfirmComplete(s)
        BY <2>2, <3>7 DEF Does
      <4>2. /\ session.state = "agreed" /\ session'.deal = session.deal
            /\ \A t \in Seat : t # s => session'.confirmed[t] = session.confirmed[t]
        BY <3>1, <4>1 DEF ConfirmComplete, May, Allowed, Session
      <4>3. session.accepted[s] /\ session.state \notin Closed
        <5>1. s = "a" \/ s = "b"
          BY <1>1 DEF Seat
        <5> QED
          BY <1>1, <3>1, <4>2, <5>1 DEF SessionInv, FlagsMatchState, Both, Closed
      <4>4. msg.table = session.deal
        <5>1. Affirms(s, conns[k].up, session)
          BY <1>10, <3>1 DEF SeenInv, Tale
        <5>2. \A j \in DOMAIN conns[k].up : ~(j < 1)
          <6>1. conns[k].up \in Seq(Request)
            BY HandleTakes
          <6> QED
            BY <6>1, LenProperties
        <5>3. conns[k].up[1].table = session.deal
          BY <1>1, <3>7, <4>3, <5>1, <5>2 DEF Affirms
        <5> QED
          BY <1>1, <5>3
      <4>5. CASE session' = session
        BY <1>5, <1>10, <4>5
      <4>6. CASE session' # session
        <5>1. saw' = [saw EXCEPT ![s] = msg.table]
          BY <1>3, <3>7, <4>6 DEF Seen
        <5>2. ASSUME NEW t \in Seat, session'.confirmed[t] PROVE saw'[t] = session'.deal
          <6>1. CASE t = s
            BY <1>1, <1>3, <4>2, <4>4, <5>1, <6>1
          <6>2. CASE t # s
            <7>1. saw'[t] = saw[t] /\ session.confirmed[t]
              BY <1>3, <4>2, <5>1, <5>2, <6>2
            <7> QED
              BY <1>2, <3>1, <4>2, <7>1 DEF ConfirmedAsSeen
          <6> QED
            BY <6>1, <6>2
        <5> QED
          BY <5>2 DEF ConfirmedAsSeen
      <4> QED
        BY <4>5, <4>6
    <3> QED
      BY <3>2, <3>3, <3>4, <3>5, <3>6, <3>7
  <2> QED
    BY <2>1, <2>2
<1>11. msg.type # "resume"
  BY <1>1, <1>2 DEF Lone
<1> QED
  BY <1>4, <1>8, <1>9, <1>10, <1>11 DEF Greeting

LEMMA GuestKept ==
  ASSUME Guest, \A k \in DOMAIN conns : k \in DOMAIN conns' /\ conns'[k].by = conns[k].by,
         session' # NoSession /\ session'.joiner # 0 =>
           session # NoSession /\ session.joiner # 0
  PROVE  Guest'
BY DEF Guest

LEMMA HandleGuest ==
  ASSUME RelayInv, SeenInv, NEW k \in DOMAIN conns, Handle(k)
  PROVE  Guest'
<1>1. SessionInv /\ Takes(Popped(k), k) /\ Head(conns[k].up) \in Request /\ conns[k].by \in Seat
  BY HandleTakes
<1>2. DOMAIN conns' = DOMAIN conns
  BY HandleLength
<1>3. \A i \in DOMAIN conns : conns'[i].by = conns[i].by
  BY <1>1, HandleEffect DEF Effect, Answered, Takes
<1>4. CASE Founds(k)
  BY <1>4 DEF Founds, Fresh, Guest
<1>5. CASE Sits(k)
  <2>1. CASE conns[k].by = "b"
    BY <1>2, <1>3, <2>1 DEF Guest
  <2>2. CASE Resume(conns[k].by)
    <3>1. session # NoSession /\ session'.joiner = session.joiner
      BY <1>1, <2>2 DEF Resume, SessionInv, SessionTypeOK, Session
    <3> QED
      BY <1>2, <1>3, <3>1, GuestKept DEF SeenInv
  <2> QED
    BY <1>5, <2>1, <2>2 DEF Sits
<1>6. CASE Speaks(k)
  <2>1. session' # NoSession => session # NoSession /\ session'.joiner = session.joiner
    BY <1>1, <1>6, DoesHolds DEF Speaks
  <2> QED
    BY <1>2, <1>3, <2>1, GuestKept DEF SeenInv
<1> QED
  BY <1>4, <1>5, <1>6, HandleSeats

LEMMA HandleSeen ==
  ASSUME RelayInv, SeenInv, NEW k \in DOMAIN conns, Handle(k)
  PROVE  SeenInv'
<1>1. ConfirmedAsSeen' /\ Lone' /\ (Ended => Ended')
  BY HandleSees, HandleLone
<1>2. ~Ended' => \A j \in DOMAIN conns' : Meets(j)' /\ Tale(j)'
  BY <1>1, HandleScene
<1> QED
  BY <1>1, <1>2, HandleGuest DEF SeenInv

\* A seat's socket that closed, and a timer that went off, leave what was
\* agreed alone.
LEMMA StoryKept ==
  ASSUME NEW s, NEW v, NEW up, NEW down, NEW now, NEW then, Story(s, v, up, down, now),
         then.accepted = now.accepted, then.deal = now.deal, then.joiner = now.joiner
  PROVE  Story(s, v, up, down, then)
BY DEF Story

LEMMA BoardKept ==
  ASSUME NEW s, NEW c, NEW up, NEW down, NEW now, NEW then, Board(s, c, up, down, now),
         now.state \in Closed => then.state \in Closed
  PROVE  Board(s, c, up, down, then)
BY DEF Board

LEMMA BroadcastTo ==
  ASSUME RelayInv, Lone, NEW e \in Answer, e.type = "sync", conns' = Broadcast(conns, e),
         NEW j \in DOMAIN conns
  PROVE  /\ conns'[j].by = conns[j].by /\ conns'[j].up = conns[j].up
         /\ conns'[j].bound = conns[j].bound /\ conns'[j].open = conns[j].open
         /\ conns'[j].served = conns[j].served
         /\ conns'[j].down \in {conns[j].down, Append(conns[j].down, e)}
         /\ ~conns[j].bound => conns'[j].down = conns[j].down
         /\ conns[j].open /\ attached[conns[j].by] = j => conns'[j].down = Append(conns[j].down, e)
         /\ Introduced(j) => Introduced(j)'
         /\ \A i \in DOMAIN conns'[j].down :
              \/ i \in DOMAIN conns[j].down /\ conns'[j].down[i] = conns[j].down[i]
              \/ conns'[j].down[i] = e /\ conns[j].bound
<1>1. Types /\ conns \in Seq(Conn) /\ conns[j].by \in Seat /\ conns[j].down \in Seq(Answer)
      /\ conns[j].bound \in BOOLEAN /\ j # 0
  BY ConnFields DEF RelayInv, Types
<1>2. Reaches(conns, conns', {attached["a"], attached["b"]}, e)
  BY <1>1, BroadcastReaches
<1>3. /\ \A s \in Seat : attached[s] = j => conns[j].by = s /\ conns[j].bound
      /\ conns[j].open => conns[j].served
  BY <1>1 DEF Lone
<1>4. ~conns[j].bound => j \notin {attached["a"], attached["b"]}
  BY <1>3 DEF Seat
<1>5. attached[conns[j].by] = j => j \in {attached["a"], attached["b"]}
  BY <1>1 DEF Seat
<1>6. /\ conns'[j].by = conns[j].by /\ conns'[j].up = conns[j].up
      /\ conns'[j].bound = conns[j].bound /\ conns'[j].open = conns[j].open
      /\ conns'[j].served = conns[j].served
      /\ conns'[j].down = IF j \in {attached["a"], attached["b"]} /\ conns[j].open /\ conns[j].served
                          THEN Append(conns[j].down, e) ELSE conns[j].down
  BY <1>2 DEF Reaches
<1>7. conns'[j].down = conns[j].down \/ (conns'[j].down = Append(conns[j].down, e) /\ conns[j].bound)
  BY <1>4, <1>6
<1>8. /\ DOMAIN Append(conns[j].down, e) = DOMAIN conns[j].down \cup {Len(conns[j].down) + 1}
      /\ \A m \in DOMAIN conns[j].down : Append(conns[j].down, e)[m] = conns[j].down[m]
      /\ Append(conns[j].down, e)[Len(conns[j].down) + 1] = e
  BY <1>1, Appended
<1>9. Introduced(j) => Introduced(j)'
  <2>1. conns[j].down # <<>> => 1 \in DOMAIN conns[j].down
    BY <1>1, Tailed
  <2>2. Append(conns[j].down, e) # <<>>
    BY <1>1, AppendProperties
  <2> QED
    BY <1>7, <1>8, <2>1, <2>2 DEF Introduced
<1>10. ASSUME NEW i \in DOMAIN conns'[j].down
       PROVE  \/ i \in DOMAIN conns[j].down /\ conns'[j].down[i] = conns[j].down[i]
              \/ conns'[j].down[i] = e /\ conns[j].bound
  <2>1. CASE conns'[j].down = conns[j].down
    BY <1>10, <2>1
  <2>2. CASE conns'[j].down = Append(conns[j].down, e) /\ conns[j].bound
    BY <1>8, <1>10, <2>2
  <2> QED
    BY <1>7, <2>1, <2>2
<1> QED
  BY <1>3, <1>5, <1>6, <1>7, <1>9, <1>10

\* Only a socket its app left behind is closed.
LEMMA CloseSeen ==
  ASSUME Unbroken, RelayInv, SeenInv, NEW k \in DOMAIN conns, Close(k)
  PROVE  SeenInv'
<1> DEFINE s == conns[k].by
<1>1. /\ SessionInv /\ Types /\ conns \in Seq(Conn) /\ s \in Seat /\ k # 0
      /\ conns[k].bound \in BOOLEAN
  BY ConnFields DEF RelayInv, Types
<1>2. /\ DOMAIN conns' = DOMAIN conns
      /\ conns'[k].by = s /\ ~conns'[k].served /\ ~conns'[k].bound
      /\ conns'[k].up = <<>> /\ conns'[k].down = conns[k].down
      /\ \A i \in DOMAIN conns : i # k => conns'[i] = conns[i]
      /\ UNCHANGED <<client, published, persisted>>
  BY CloseSeats DEF storedVars
<1>3. ~conns[k].open /\ conns'[k].open = conns[k].open /\ saw' = saw
  <2>1. conns[k] \in Conn /\ conns \in [DOMAIN conns -> Conn]
    BY <1>1, ConnFields, LenProperties
  <2> QED
    BY <2>1 DEF Close, Unbroken, Conn
<1>4. /\ Drop(s) \/ UNCHANGED session
      /\ \/ attached' = [attached EXCEPT ![s] = 0]
         \/ attached' = attached /\ ~Counts(k)
  BY DEF Close
<1>5. /\ session' = NoSession <=> session = NoSession
      /\ session # NoSession =>
           /\ session'.joiner = session.joiner /\ session'.deal = session.deal
           /\ session'.confirmed = session.confirmed /\ session'.accepted = session.accepted
           /\ session.state \in Closed => session'.state \in Closed
           /\ \A t \in Seat : Holds(t, session, session')
           /\ session'.state \in Closed => session.state \in Closed \/ session'.state = "cancelled"
  <2>1. CASE Drop(s)
    BY <1>1, <2>1, PresenceHolds DEF Closed
  <2>2. CASE UNCHANGED session
    BY <2>2 DEF Holds
  <2> QED
    BY <1>4, <2>1, <2>2
<1> HIDE DEF s
<1>6. Lone /\ ConfirmedAsSeen
  BY DEF SeenInv
<1>7. Ended => Ended'
  BY <1>2, <1>5 DEF Ended
<1>8. ConfirmedAsSeen'
  BY <1>3, <1>5, <1>6 DEF ConfirmedAsSeen
<1>9. ASSUME NEW t \in Seat
      PROVE  /\ attached'[t] \in {attached[t], 0} /\ attached'[t] # k
             /\ t # s => attached'[t] = attached[t]
  <2>1. attached[t] = k => t = s /\ Counts(k)
    BY <1>1, <1>6 DEF Lone, Counts, s
  <2> QED
    BY <1>1, <1>4, <2>1 DEF Types
<1>10. Lone'
  <2>1. ASSUME NEW i \in DOMAIN conns'
        PROVE  /\ conns'[i].by = conns[i].by /\ conns'[i].open = conns[i].open /\ i \in DOMAIN conns
               /\ conns'[i].open => conns'[i].served
               /\ \A m \in DOMAIN conns'[i].up : conns'[i].up[m].type # "resume"
    <3>1. CASE i = k
      BY <1>2, <1>3, <3>1 DEF s
    <3>2. CASE i # k
      BY <1>2, <1>6, <3>2 DEF Lone
    <3> QED
      BY <3>1, <3>2
  <2>2. ASSUME NEW t \in Seat, attached'[t] # 0
        PROVE  conns'[attached'[t]].by = t /\ conns'[attached'[t]].bound
    <3>1. attached'[t] = attached[t] /\ attached[t] # k
      BY <1>9, <2>2
    <3>2. attached[t] \in DOMAIN conns
      BY <1>1, <2>2, <3>1, LenProperties DEF Types
    <3> QED
      BY <1>2, <1>6, <2>2, <3>1, <3>2 DEF Lone
  <2>3. \A i \in DOMAIN conns' : ~(client'[conns'[i].by].initial # "none") =>
          published' /\ (conns'[i].by = "b" => Ended')
    BY <1>2, <1>6, <1>7, <2>1 DEF Lone, Active
  <2> QED
    BY <1>2, <1>6, <1>7, <2>1, <2>2, <2>3 DEF Lone, Active
<1>11. ASSUME ~Ended', NEW j \in DOMAIN conns PROVE Meets(j)' /\ Tale(j)'
  <2>1. Meets(j) /\ Tale(j) /\ Meets(k) /\ ~Ended
    BY <1>7, <1>11 DEF SeenInv
  <2>2. s = "a"
    <3>1. s # "b"
      BY <1>3, <1>6, <2>1, OneSocket DEF s
    <3> QED
      BY <1>1, <3>1 DEF Seat, s
  <2>3. CASE j = k
    <3>1. DOMAIN conns'[j].up = {}
      BY <1>2, <2>3
    <3>2. Meets(j)'
      BY <1>2, <1>3, <2>1, <2>2, <2>3, <3>1 DEF Meets
    <3>3. Tale(j)'
      BY <1>2, <1>3, <2>3, <3>1 DEF Tale, Affirms
    <3> QED
      BY <3>2, <3>3
  <2>4. CASE j # k
    <3>1. conns[j].by = "b" /\ conns'[j] = conns[j]
      <4>1. conns[j].by \in Seat /\ conns[j].by # s
        BY <1>1, <1>6, <2>1, <2>4, OneSocket, ConnFields DEF s
      <4> QED
        BY <1>2, <2>2, <2>4, <4>1 DEF Seat
    <3>2. attached'["b"] = attached["b"]
      BY <1>9, <2>2 DEF Seat
    <3>3. Meets(j)'
      BY <1>2, <1>5, <2>1, <3>1, <3>2 DEF Meets, Introduced
    <3>4. Tale(j)'
      <4>1. SUFFICES ASSUME session # NoSession PROVE Tale(j)'
        BY <1>5 DEF Tale
      <4>2. Affirms("b", conns[j].up, session')
        BY <1>5, <2>1, <3>1, <4>1, AffirmsKept DEF Tale, Seat
      <4>3. ASSUME conns[j].open, conns[j].bound
            PROVE  /\ Story("b", client["b"].view, conns[j].up, conns[j].down, session')
                   /\ Board("b", client["b"], conns[j].up, conns[j].down, session')
        BY <1>5, <2>1, <3>1, <4>1, <4>3, StoryKept, BoardKept DEF Tale
      <4> QED
        BY <1>2, <3>1, <4>2, <4>3 DEF Tale
    <3> QED
      BY <3>3, <3>4
  <2> QED
    BY <2>3, <2>4
<1>12. Guest'
  <2>1. \A i \in DOMAIN conns : i \in DOMAIN conns' /\ conns'[i].by = conns[i].by
    BY <1>2 DEF s
  <2> QED
    BY <1>5, <2>1, GuestKept DEF SeenInv
<1> QED
  BY <1>2, <1>8, <1>10, <1>11, <1>12 DEF SeenInv

\* The sockets stay where they are, and seats are at most given up.
LEMMA LoneKept ==
  ASSUME RelayInv, Lone, Ended => Ended', UNCHANGED <<client, published, persisted>>,
         DOMAIN conns' = DOMAIN conns,
         \A j \in DOMAIN conns :
           /\ conns'[j].by = conns[j].by /\ conns'[j].up = conns[j].up
           /\ conns'[j].bound = conns[j].bound /\ conns'[j].open = conns[j].open
           /\ conns'[j].served = conns[j].served,
         \A s \in Seat : attached'[s] \in {attached[s], 0}
  PROVE  Lone'
<1>1. \A s \in Seat : attached[s] # 0 => attached[s] \in DOMAIN conns
  BY LenProperties DEF RelayInv, Types
<1>2. \A s \in Seat : attached'[s] # 0 =>
        conns'[attached'[s]].by = s /\ conns'[attached'[s]].bound
  BY <1>1 DEF Lone
<1>3. \A i \in DOMAIN conns' : ~(client'[conns'[i].by].initial # "none") =>
        published' /\ (conns'[i].by = "b" => Ended')
  BY DEF Lone, Active
<1> QED
  BY <1>2, <1>3 DEF Lone, Active

LEMMA LapseSeen ==
  ASSUME RelayInv, SeenInv, NEW s \in Seat, Lapse(s)
  PROVE  SeenInv'
<1> DEFINE e == Sync(session')
<1>1. /\ SessionInv /\ Types /\ conns \in Seq(Conn) /\ GraceExpires(s)
      /\ UNCHANGED <<attached, saw, client, published, persisted>>
  BY DEF RelayInv, Types, Lapse, storedVars
<1>2. /\ session # NoSession /\ session' # NoSession /\ session' \in Session
      /\ session'.joiner = session.joiner /\ session'.deal = session.deal
      /\ session'.confirmed = session.confirmed /\ session'.accepted = session.accepted
      /\ session'.state = session.state \/ session'.state = "cancelled"
      /\ session.state \in Closed => session'.state = session.state
      /\ \A t \in Seat : Holds(t, session, session')
  BY <1>1, PresenceHolds
<1>3. /\ e \in Answer /\ e.type = "sync" /\ e.snap = Snapshot(session') /\ e.cause = <<>>
      /\ e.snap.state = session'.state /\ e.snap.accepted = session'.accepted
      /\ e.snap.deal = session'.deal
  BY <1>2, SnapshotType, SnapOf DEF Sync
<1>4. \/ session'.state = session.state /\ conns' = conns
      \/ session'.state = "cancelled" /\ session.state \notin Closed /\ conns' = Broadcast(conns, e)
  <2>1. CASE session'.state = session.state
    BY <2>1 DEF Lapse
  <2>2. CASE session'.state # session.state
    BY <1>2, <2>2 DEF Lapse
  <2> QED
    BY <2>1, <2>2
<1> HIDE DEF e
<1>5. Lone /\ ConfirmedAsSeen
  BY DEF SeenInv
<1>6. Ended => Ended'
  BY <1>1, <1>2 DEF Ended
<1>7. ConfirmedAsSeen'
  BY <1>1, <1>2, <1>5 DEF ConfirmedAsSeen
<1>8. ASSUME NEW j \in DOMAIN conns
      PROVE  /\ conns'[j].by = conns[j].by /\ conns'[j].up = conns[j].up
             /\ conns'[j].bound = conns[j].bound /\ conns'[j].open = conns[j].open
             /\ conns'[j].served = conns[j].served
  BY <1>3, <1>4, <1>5, BroadcastTo
<1>9. DOMAIN conns' = DOMAIN conns
  BY <1>1, TimersSeats, LenProperties DEF Alike
<1>10. Lone'
  BY <1>1, <1>5, <1>6, <1>8, <1>9, LoneKept
<1>11. ASSUME ~Ended', NEW j \in DOMAIN conns PROVE Meets(j)' /\ Tale(j)'
  <2>1. Meets(j) /\ Tale(j) /\ ~Ended
    BY <1>6, <1>11 DEF SeenInv
  <2>2. conns[j].by \in Seat /\ conns[j].down \in Seq(Answer)
    BY <1>1, ConnFields
  <2>3. Affirms(conns[j].by, conns[j].up, session')
    BY <1>2, <2>1, <2>2, AffirmsKept DEF Tale
  <2>4. ASSUME conns[j].open, conns[j].bound
        PROVE  /\ Story(conns[j].by, client[conns[j].by].view, conns[j].up, conns[j].down, session)
               /\ Board(conns[j].by, client[conns[j].by], conns[j].up, conns[j].down, session)
    BY <1>2, <2>1, <2>4 DEF Tale
  <2>5. CASE session'.state = session.state /\ conns' = conns
    <3>1. Meets(j)'
      BY <1>1, <1>2, <2>1, <2>5 DEF Meets, Introduced
    <3>2. ASSUME conns[j].open, conns[j].bound
          PROVE  /\ Story(conns[j].by, client[conns[j].by].view, conns[j].up, conns[j].down, session')
                 /\ Board(conns[j].by, client[conns[j].by], conns[j].up, conns[j].down, session')
      BY <1>2, <2>4, <2>5, <3>2, StoryKept, BoardKept
    <3>3. Tale(j)'
      BY <1>1, <2>3, <2>5, <3>2 DEF Tale
    <3> QED
      BY <3>1, <3>3
  <2>6. CASE session'.state = "cancelled" /\ session.state \notin Closed /\ conns' = Broadcast(conns, e)
    <3>1. /\ conns'[j].down \in {conns[j].down, Append(conns[j].down, e)}
          /\ ~conns[j].bound => conns'[j].down = conns[j].down
          /\ conns[j].open /\ attached[conns[j].by] = j => conns'[j].down = Append(conns[j].down, e)
          /\ Introduced(j) => Introduced(j)'
          /\ \A i \in DOMAIN conns'[j].down :
               \/ i \in DOMAIN conns[j].down /\ conns'[j].down[i] = conns[j].down[i]
               \/ conns'[j].down[i] = e /\ conns[j].bound
      BY <1>3, <1>5, <2>6, BroadcastTo
    <3>2. conns[j].by = "b" => ~conns[j].bound
      <4>1. published => session.joiner = 0
        BY <1>1, <1>2, <1>11, <2>6 DEF Ended, Closed
      <4>2. conns[j].by = "b" => published
        BY <1>5, <2>1, OneSocket
      <4> QED
        BY <1>2, <2>1, <4>1, <4>2 DEF Meets
    <3>3. \A i \in DOMAIN conns'[j].down : conns'[j].down[i].type # "gone"
      BY <1>3, <2>1, <3>1 DEF Meets
    <3>4. ASSUME conns[j].by = "b", NEW i \in DOMAIN conns'[j].down
          PROVE  conns'[j].down[i].snap.state \notin Closed
      BY <2>1, <3>1, <3>2, <3>4 DEF Meets
    <3>5. ASSUME conns[j].bound
          PROVE  /\ \A i \in DOMAIN conns'[j].up : published' /\ conns'[j].up[i].type \notin Greeting
                 /\ conns'[j].open /\ ~published' => Introduced(j)'
                 /\ conns'[j].open => attached'[conns'[j].by] = j
      BY <1>1, <1>2, <1>8, <2>1, <3>1, <3>5 DEF Meets
    <3>6. ASSUME ~conns[j].bound
          PROVE  /\ \A i \in DOMAIN conns'[j].up : i = 1 /\ conns'[j].up[i].type \in Greeting
                 /\ conns'[j].open => conns'[j].down = <<>> /\ client'[conns'[j].by].view = NoView
      BY <1>1, <1>8, <2>1, <3>1, <3>6 DEF Meets
    <3>7. conns'[j].by = "b" =>
            /\ conns'[j].bound <=> session'.joiner # 0
            /\ conns'[j].open => client'["b"].view.state \notin Closed
      BY <1>1, <1>2, <1>8, <2>1 DEF Meets
    <3>8. Meets(j)'
      BY <1>8, <3>3, <3>4, <3>5, <3>6, <3>7 DEF Meets
    <3>9. ASSUME conns[j].open, conns[j].bound
          PROVE  LET s1 == conns[j].by
                 IN  /\ conns'[j].down = Append(conns[j].down, e)
                     /\ Story(s1, client[s1].view, conns[j].up, Append(conns[j].down, e), session')
                     /\ Board(s1, client[s1], conns[j].up, Append(conns[j].down, e), session')
      <4>1. conns'[j].down = Append(conns[j].down, e)
        BY <1>2, <2>1, <3>1, <3>9 DEF Meets
      <4>2. e.cause # <<conns[j].by, "accept">> /\ e.cause # <<conns[j].by, "offer">>
        BY <1>3
      <4>3. e.snap.state # "agreed"
        BY <1>3, <2>6
      <4>4. session'.joiner = 0 => session.joiner = 0 /\ ~session'.accepted[conns[j].by]
        BY <1>1, <2>2, PresenceHolds
      <4>5. Story(conns[j].by, client[conns[j].by].view, conns[j].up, Append(conns[j].down, e), session')
        BY <1>2, <1>3, <2>2, <2>4, <3>9, <4>2, <4>3, <4>4, StoryTold
      <4>6. Board(conns[j].by, client[conns[j].by], conns[j].up, Append(conns[j].down, e), session')
        BY <1>3, <2>2, <2>4, <2>6, <3>9, BoardTold
      <4> QED
        BY <4>1, <4>5, <4>6
    <3>10. Tale(j)'
      BY <1>1, <1>8, <2>3, <3>9 DEF Tale
    <3> QED
      BY <3>8, <3>10
  <2> QED
    BY <1>4, <2>5, <2>6
<1>12. Guest'
  BY <1>2, <1>8, <1>9, GuestKept DEF SeenInv
<1> QED
  BY <1>7, <1>9, <1>10, <1>11, <1>12 DEF SeenInv

LEMMA ExpireSeen ==
  ASSUME RelayInv, SeenInv, Expire
  PROVE  SeenInv'
<1> DEFINE e == Sync([session EXCEPT !.state = "cancelled"])
<1>1. /\ Types /\ conns \in Seq(Conn) /\ session # NoSession /\ session \in Session
      /\ session' = NoSession /\ attached' = [s \in Seat |-> 0]
      /\ UNCHANGED <<saw, client, published, persisted>>
      /\ conns' = conns \/ conns' = Broadcast(conns, e)
  BY DEF RelayInv, Types, Expire, Remove, SessionInv, SessionTypeOK, storedVars
<1>2. e \in Answer /\ e.type = "sync"
  <2>1. [session EXCEPT !.state = "cancelled"] \in Session
    BY <1>1 DEF Session, TradeState
  <2> QED
    BY <2>1, SnapshotType DEF Sync
<1> HIDE DEF e
<1>3. Lone
  BY DEF SeenInv
<1>4. ConfirmedAsSeen' /\ (Ended' <=> published)
  BY <1>1 DEF ConfirmedAsSeen, Ended
<1>5. ASSUME NEW j \in DOMAIN conns
      PROVE  /\ conns'[j].by = conns[j].by /\ conns'[j].up = conns[j].up
             /\ conns'[j].bound = conns[j].bound /\ conns'[j].open = conns[j].open
             /\ conns'[j].served = conns[j].served
             /\ ~conns[j].bound => conns'[j].down = conns[j].down
             /\ Introduced(j) => Introduced(j)'
             /\ \A i \in DOMAIN conns'[j].down :
                  \/ i \in DOMAIN conns[j].down /\ conns'[j].down[i] = conns[j].down[i]
                  \/ conns'[j].down[i] = e
  <2>1. CASE conns' = conns
    BY <2>1 DEF Introduced
  <2>2. CASE conns' = Broadcast(conns, e)
    BY <1>2, <1>3, <2>2, BroadcastTo
  <2> QED
    BY <1>1, <2>1, <2>2
<1>6. DOMAIN conns' = DOMAIN conns
  <2>1. "a" \in Seat
    BY DEF Seat
  <2> QED
    BY <1>1, <2>1, TimersSeats, LenProperties DEF Alike
<1>7. Lone'
  <2>1. Ended => Ended'
    BY <1>4 DEF Ended
  <2> QED
    BY <1>1, <1>3, <1>5, <1>6, <2>1, LoneKept
<1>8. ASSUME ~Ended', NEW j \in DOMAIN conns PROVE Meets(j)' /\ Tale(j)'
  <2>1. ~published /\ conns[j].by = "a" /\ Meets(j)
    BY <1>3, <1>4, <1>8 DEF Lone, SeenInv, Ended
  <2>2. ASSUME conns[j].bound
        PROVE  /\ \A i \in DOMAIN conns'[j].up : published' /\ conns'[j].up[i].type \notin Greeting
               /\ conns'[j].open /\ ~published' => Introduced(j)'
    BY <1>1, <1>5, <2>1, <2>2 DEF Meets
  <2>3. ASSUME ~conns[j].bound
        PROVE  /\ \A i \in DOMAIN conns'[j].up : i = 1 /\ conns'[j].up[i].type \in Greeting
               /\ conns'[j].open => conns'[j].down = <<>> /\ client'[conns'[j].by].view = NoView
    BY <1>1, <1>5, <2>1, <2>3 DEF Meets
  <2>4. \A i \in DOMAIN conns'[j].down : conns'[j].down[i].type # "gone"
    BY <1>2, <1>5, <2>1 DEF Meets
  <2>5. Meets(j)'
    BY <1>1, <1>5, <2>1, <2>2, <2>3, <2>4 DEF Meets
  <2>6. Tale(j)'
    BY <1>1 DEF Tale
  <2> QED
    BY <2>5, <2>6
<1> QED
  BY <1>1, <1>4, <1>6, <1>7, <1>8 DEF SeenInv, Guest

\* With sockets that hold, nobody has to come back.
LEMMA NobodyReturns ==
  ASSUME Unbroken, RelayInv, Lone, NEW s \in Seat
  PROVE  /\ ~BeginResume(s) /\ ~Reconnect(s) /\ ~RetryConnect(s) /\ ~Break(s) /\ ~Quit(s)
<1>1. ~BeginResume(s)
  BY DEF BeginResume, Lone
<1>2. ~Reconnect(s)
  BY DEF Reconnect, Retrying, Lone
<1>3. ~Break(s)
  <2>1. SUFFICES ASSUME Break(s) PROVE FALSE
    OBVIOUS
  <2>2. client[s].ws # 0 /\ ~conns[client[s].ws].served
    BY <2>1 DEF Break, Unbroken
  <2>3. client[s].ws \in DOMAIN conns /\ conns[client[s].ws].open
    BY <2>2 DEF RelayInv, Sockets
  <2> QED
    BY <2>2, <2>3 DEF Lone
<1> QED
  BY <1>1, <1>2, <1>3 DEF Unbroken, RetryConnect, Quit

\* Somebody sets out to trade: a new socket with one greeting on it.
LEMMA ConnectSeen ==
  ASSUME RelayInv, SeenInv, NEW s \in Seat, NEW msg, Connect(s, msg), ~Active(s),
         msg.type = IF s = "a" THEN "create" ELSE "join", s = "a" <=> ~published,
         NEW c, client' = [client EXCEPT ![s] = c],
         c.initial # "none", c.ws = Len(conns) + 1, c.view = NoView,
         UNCHANGED <<serverVars, published, persisted>>
  PROVE  SeenInv'
<1>0. PICK n : n = Len(conns) + 1
  OBVIOUS
<1>1. /\ Types /\ conns \in Seq(Conn) /\ client \in [Seat -> App] /\ attached \in [Seat -> 0..Len(conns)]
      /\ UNCHANGED <<session, attached, saw>>
  BY DEF RelayInv, Types, serverVars
<1>2. /\ DOMAIN conns' = DOMAIN conns \cup {n} /\ n \notin DOMAIN conns /\ n \in Nat \ {0}
      /\ conns'[n].by = s /\ conns'[n].down = <<>> /\ conns'[n].served /\ ~conns'[n].bound
      /\ conns'[n].up # <<>> /\ \A i \in DOMAIN conns'[n].up : i = 1 /\ conns'[n].up[i] = msg
  <2>1. /\ DOMAIN conns' = DOMAIN conns \cup {n} /\ n \notin DOMAIN conns /\ n \in Nat \ {0}
        /\ conns'[n].by = s /\ conns'[n].down = <<>> /\ conns'[n].served /\ ~conns'[n].bound
    BY <1>0, ConnectFacts
  <2>2. conns'[n].up # <<>> /\ \A i \in DOMAIN conns'[n].up : i = 1 /\ conns'[n].up[i] = msg
    BY <1>0, ConnectSends
  <2> QED
    BY <2>1, <2>2
<1>3. Lone /\ ConfirmedAsSeen /\ client[s].ws = 0
  BY DEF SeenInv, Lone
<1>4. ASSUME NEW i \in DOMAIN conns PROVE conns'[i] = conns[i]
  <2>1. HungUp(client[s].ws) = conns
    BY <1>3 DEF HungUp
  <2> QED
    BY <1>1, <1>4, <2>1, LenProperties, AppendProperties DEF Connect
<1>5. client'[s] = c /\ \A t \in Seat : t # s => client'[t] = client[t]
  BY <1>1
<1>6. ASSUME NEW i \in DOMAIN conns, conns[i].by = s PROVE s = "b" /\ Ended
  <2>1. published
    BY <1>3, <1>6 DEF Lone
  <2> QED
    BY <1>3, <1>6, <2>1 DEF Lone, Seat
<1>7. Ended' <=> Ended
  BY <1>1 DEF Ended
<1>8. s = "b" => published
  OBVIOUS
<1>9. \A t \in Seat : attached[t] # 0 => attached[t] \in DOMAIN conns /\ attached[t] # n
  BY <1>1, <1>2, LenProperties
<1>10. ASSUME NEW i \in DOMAIN conns'
       PROVE  /\ conns'[i].open => conns'[i].served
              /\ \A j \in DOMAIN conns'[i].up : conns'[i].up[j].type # "resume"
              /\ ~published' => conns'[i].by = "a"
              /\ \A j \in DOMAIN conns' : conns'[j].by = conns'[i].by =>
                   j = i \/ (conns'[i].by = "b" /\ Ended')
  <2>1. CASE i = n
    <3>1. conns'[i].by = s /\ ~published' => s = "a"
      BY <1>1, <1>2, <2>1 DEF Seat
    <3>2. ASSUME NEW j \in DOMAIN conns', conns'[j].by = s, j # n PROVE s = "b" /\ Ended
      BY <1>2, <1>4, <1>6, <3>2
    <3> QED
      BY <1>2, <1>7, <2>1, <3>1, <3>2
  <2>2. CASE i \in DOMAIN conns
    <3>1. ASSUME NEW j \in DOMAIN conns', conns'[j].by = conns'[i].by, j # i
          PROVE  conns'[i].by = "b" /\ Ended'
      <4>1. CASE j = n
        BY <1>2, <1>4, <1>6, <1>7, <2>2, <3>1, <4>1
      <4>2. CASE j \in DOMAIN conns
        BY <1>3, <1>4, <1>7, <2>2, <3>1, <4>2 DEF Lone
      <4> QED
        BY <1>2, <4>1, <4>2
    <3> QED
      BY <1>3, <1>4, <2>2, <3>1 DEF Lone
  <2> QED
    BY <1>2, <2>1, <2>2
<1>11. ASSUME NEW i \in DOMAIN conns', ~(client'[conns'[i].by].initial # "none")
       PROVE  published' /\ (conns'[i].by = "b" => Ended')
  <2>1. CASE conns'[i].by = s
    BY <1>5, <1>11, <2>1
  <2>2. CASE conns'[i].by # s
    <3>1. i \in DOMAIN conns /\ conns'[i] = conns[i] /\ conns[i].by \in Seat
      BY <1>1, <1>2, <1>4, <2>2, ConnFields
    <3>2. ~Active(conns[i].by)
      BY <1>5, <1>11, <2>2, <3>1 DEF Active
    <3> QED
      BY <1>3, <1>7, <3>1, <3>2 DEF Lone
  <2> QED
    BY <2>1, <2>2
<1>12. ASSUME NEW t \in Seat
       PROVE  /\ client'[t].ws = 0 <=> ~(client'[t].initial # "none")
              /\ persisted'[t] => client'[t].initial # "none"
              /\ attached'[t] # 0 => conns'[attached'[t]].by = t /\ conns'[attached'[t]].bound
  <2>1. attached'[t] # 0 => conns'[attached'[t]].by = t /\ conns'[attached'[t]].bound
    BY <1>1, <1>3, <1>4, <1>9 DEF Lone
  <2>2. CASE t = s
    BY <1>0, <1>2, <1>5, <2>1, <2>2
  <2>3. CASE t # s
    BY <1>3, <1>5, <2>1, <2>3 DEF Lone, Active
  <2> QED
    BY <2>2, <2>3
<1>13. ~published' => ~(client'["b"].initial # "none") /\ \A t \in Seat : client'[t].view = NoView
  BY <1>3, <1>5, <1>8 DEF Lone, Active, Seat
<1>14. Lone'
  BY <1>10, <1>11, <1>12, <1>13 DEF Lone, Active
<1>15. ConfirmedAsSeen'
  BY <1>1, <1>3 DEF ConfirmedAsSeen
<1>16. Guest'
  BY <1>1, <1>2, <1>4, GuestKept DEF SeenInv
<1>17. ASSUME ~Ended', NEW j \in DOMAIN conns' PROVE Meets(j)' /\ Tale(j)'
  <2>1. CASE j = n
    <3>1. s = "b" /\ session # NoSession => session.joiner = 0
      <4>1. ASSUME NEW i \in DOMAIN conns PROVE conns[i].by # s
        BY <1>6, <1>7, <1>17
      <4> QED
        BY <4>1 DEF SeenInv, Guest
    <3>2. msg.type \in Greeting /\ msg.type # "confirm"
      BY DEF Greeting
    <3>3. NoView.state \notin Closed
      BY DEF NoView, Closed
    <3>4. DOMAIN conns'[j].down = {}
      BY <1>2, <2>1
    <3> HIDE DEF NoView
    <3>5. Meets(j)'
      BY <1>1, <1>2, <1>5, <2>1, <3>1, <3>2, <3>3, <3>4 DEF Meets
    <3>6. Tale(j)'
      BY <1>2, <2>1, <3>2 DEF Tale, Affirms
    <3> QED
      BY <3>5, <3>6
  <2>2. CASE j # n
    <3>1. j \in DOMAIN conns /\ conns'[j] = conns[j] /\ conns[j].by \in Seat
      BY <1>1, <1>2, <1>4, <2>2, ConnFields
    <3>2. conns[j].by # s
      BY <1>6, <1>7, <1>17, <3>1
    <3>3. client'[conns[j].by] = client[conns[j].by]
      BY <1>5, <3>1, <3>2
    <3>4. Meets(j) /\ Tale(j)
      BY <1>7, <1>17, <3>1 DEF SeenInv
    <3>5. Meets(j)'
      BY <1>1, <3>1, <3>3, <3>4 DEF Meets, Introduced
    <3>6. Tale(j)'
      BY <1>1, <3>1, <3>3, <3>4 DEF Tale
    <3> QED
      BY <3>5, <3>6
  <2> QED
    BY <2>1, <2>2
<1> QED
  BY <1>14, <1>15, <1>16, <1>17 DEF SeenInv

LEMMA BeginsSeen ==
  ASSUME RelayInv, SeenInv, BeginCreate \/ BeginJoin
  PROVE  SeenInv'
<1>0. "a" \in Seat /\ "b" \in Seat
  BY DEF Seat
<1>1. CASE BeginCreate
  <2> DEFINE c == Begun([Off EXCEPT !.initial = "create"])
  <2>1. /\ ~Active("a") /\ ~published /\ Connect("a", Handshake(c))
        /\ client' = [client EXCEPT !["a"] = c]
        /\ UNCHANGED <<serverVars, published, persisted>>
    BY <1>1 DEF BeginCreate, storedVars
  <2>2. c.initial = "create" /\ c.ws = Len(conns) + 1 /\ c.view = NoView /\ ~c.token
    BY DEF Begun, Off
  <2>3. Handshake(c).type = "create"
    BY <2>2 DEF Handshake, Up
  <2> HIDE DEF c
  <2> QED
    BY <1>0, <2>1, <2>2, <2>3, ConnectSeen
<1>2. CASE BeginJoin
  <2> DEFINE c == Begun([Off EXCEPT !.initial = "join", !.nonce = attempts + 1])
  <2>1. /\ ~Active("b") /\ published /\ Connect("b", Handshake(c))
        /\ client' = [client EXCEPT !["b"] = c]
        /\ UNCHANGED <<serverVars, published, persisted>>
    BY <1>2 DEF BeginJoin
  <2>2. c.initial = "join" /\ c.ws = Len(conns) + 1 /\ c.view = NoView /\ ~c.token
    BY DEF Begun, Off
  <2>3. Handshake(c).type = "join"
    BY <2>2 DEF Handshake, Up
  <2> HIDE DEF c
  <2> QED
    BY <1>0, <2>1, <2>2, <2>3, ConnectSeen
<1> QED
  BY <1>1, <1>2

\* A button adds to the queue of the socket its board hangs on.
LEMMA PressSeen ==
  ASSUME Unbroken, RelayInv, SeenInv, NEW s \in Seat, NEW msg \in Request,
         msg.type \in DOMAIN Allowed, Press(s, msg), NEW c, client' = [client EXCEPT ![s] = c],
         c.ws = client[s].ws, c.initial = client[s].initial, c.view = client[s].view,
         c.table = client[s].table \/ msg.type = "offer",
         msg.type = "accept" => ~client[s].view.accepted[s],
         msg.type = "confirm" => client[s].view.state = "agreed" /\ msg.table = client[s].table
  PROVE  SeenInv'
<1>0. PICK k : k = client[s].ws
  OBVIOUS
<1>1. /\ Types /\ SessionInv /\ conns \in Seq(Conn) /\ client \in [Seat -> App]
      /\ attached \in [Seat -> 0..Len(conns)]
      /\ UNCHANGED <<session, attached, saw, published, persisted>>
  BY DEF RelayInv, Types, Press, serverVars
<1>2. /\ k \in DOMAIN conns /\ conns[k].by = s /\ conns[k].open /\ k # 0
      /\ conns[k].up \in Seq(Request) /\ conns[k].down \in Seq(Answer)
      /\ client[s].view.state \in PreComplete
  <2>1. k # 0 /\ client[s].view.state \in PreComplete
    BY <1>0 DEF Press, OnBoard
  <2>2. k \in DOMAIN conns /\ conns[k].by = s /\ conns[k].open
    BY <1>0, <2>1 DEF RelayInv, Sockets
  <2> QED
    BY <1>1, <2>1, <2>2, ConnFields
<1>3. /\ DOMAIN conns' = DOMAIN conns
      /\ \A i \in DOMAIN conns :
           /\ conns'[i].by = conns[i].by /\ conns'[i].down = conns[i].down
           /\ conns'[i].open = conns[i].open /\ conns'[i].served = conns[i].served
           /\ conns'[i].bound = conns[i].bound
           /\ i # k => conns'[i] = conns[i]
      /\ conns'[k].up = Append(conns[k].up, msg)
  <2>1. conns' = [conns EXCEPT ![k].up = Append(@, msg)]
    BY <1>0 DEF Press
  <2>2. conns \in [DOMAIN conns -> Conn] /\ conns[k] \in Conn
    BY <1>1, <1>2, ConnFields, LenProperties
  <2> QED
    BY <1>2, <2>1, <2>2 DEF Conn
<1>4. ~UnderWay(conns[k], s, msg.type)
  BY <1>0 DEF Press, Unbroken
<1>5. Lone /\ ConfirmedAsSeen
  BY DEF SeenInv
<1>6. client[s].view # NoView
  BY <1>2 DEF NoView, PreComplete
<1>7. published
  <2>1. s = "b" => published
    BY <1>0, <1>2, <1>5 DEF Lone
  <2> QED
    BY <1>5, <1>6, <2>1 DEF Lone, Seat
<1>8. client'[s] = c /\ \A t \in Seat : t # s => client'[t] = client[t]
  BY <1>1
<1>9. \A t \in Seat : /\ client'[t].initial = client[t].initial /\ client'[t].ws = client[t].ws
                      /\ client'[t].view = client[t].view
  BY <1>8
<1>10. msg.type \notin Greeting
  BY DEF Allowed, Greeting
<1>11. /\ DOMAIN Append(conns[k].up, msg) = DOMAIN conns[k].up \cup {Len(conns[k].up) + 1}
       /\ \A j \in DOMAIN conns[k].up : Append(conns[k].up, msg)[j] = conns[k].up[j]
       /\ Append(conns[k].up, msg)[Len(conns[k].up) + 1] = msg
  BY <1>2, Appended
<1>12. Lone'
  <2>1. ASSUME NEW i \in DOMAIN conns, NEW j \in DOMAIN conns'[i].up
        PROVE  conns'[i].up[j].type # "resume"
    <3>1. CASE i = k
      BY <1>3, <1>5, <1>10, <1>11, <2>1, <3>1 DEF Lone, Greeting
    <3>2. CASE i # k
      BY <1>3, <1>5, <2>1, <3>2 DEF Lone
    <3> QED
      BY <3>1, <3>2
  <2>2. Ended' <=> Ended
    BY <1>1 DEF Ended
  <2>3. \A i \in DOMAIN conns' : ~(client'[conns'[i].by].initial # "none") =>
          published' /\ (conns'[i].by = "b" => Ended')
    <3>1. \A i \in DOMAIN conns : conns[i].by \in Seat
      BY <1>1, ConnFields
    <3> QED
      BY <1>1, <1>3, <1>5, <1>9, <2>2, <3>1 DEF Lone, Active
  <2>4. ASSUME NEW t \in Seat, attached'[t] # 0
        PROVE  conns'[attached'[t]].by = t /\ conns'[attached'[t]].bound
    <3>1. attached[t] \in DOMAIN conns
      BY <1>1, <2>4, LenProperties
    <3> QED
      BY <1>1, <1>3, <1>5, <2>4, <3>1 DEF Lone
  <2>5. \A t \in Seat : /\ client'[t].ws = 0 <=> ~(client'[t].initial # "none")
                        /\ persisted'[t] => client'[t].initial # "none"
    BY <1>1, <1>5, <1>9 DEF Lone, Active
  <2> QED
    BY <1>1, <1>3, <1>5, <1>7, <2>1, <2>2, <2>3, <2>4, <2>5 DEF Lone, Active
<1>13. ConfirmedAsSeen' /\ Guest'
  <2>1. Guest'
    BY <1>1, <1>3, GuestKept DEF SeenInv
  <2> QED
    BY <1>1, <1>5, <2>1 DEF ConfirmedAsSeen
<1>14. ASSUME ~Ended', NEW j \in DOMAIN conns PROVE Meets(j)' /\ Tale(j)'
  <2>1. ~Ended
    BY <1>1, <1>14 DEF Ended
  <2>2. Meets(j) /\ Tale(j) /\ Meets(k) /\ Tale(k)
    BY <1>2, <2>1 DEF SeenInv
  <2>3. CASE j = k
    <3>1. conns[k].bound
      BY <1>2, <1>6, <2>2 DEF Meets
    <3>2. \A i \in DOMAIN conns'[k].up : conns'[k].up[i].type \notin Greeting
      BY <1>3, <1>10, <1>11, <2>2, <3>1 DEF Meets
    <3>3. client'["b"].view = client["b"].view
      BY <1>9 DEF Seat
    <3>4. Meets(k)'
      BY <1>1, <1>2, <1>3, <1>7, <2>2, <3>1, <3>2, <3>3 DEF Meets
    <3>5. SUFFICES ASSUME session # NoSession PROVE Tale(k)'
      BY <1>1, <2>3, <3>4 DEF Tale
    <3>6. /\ Affirms(s, conns[k].up, session)
          /\ Story(s, client[s].view, conns[k].up, conns[k].down, session)
          /\ Board(s, client[s], conns[k].up, conns[k].down, session)
      BY <1>2, <2>2, <3>1, <3>5 DEF Tale
    <3>7. /\ 0 \in 0..Len(conns[k].down) /\ Shows(client[s].view, conns[k].down, 0) = client[s].view
          /\ \A m \in DOMAIN conns[k].down : 0 < m
      BY <1>2, LenProperties DEF Shows
    <3>8. Story(s, client[s].view, Append(conns[k].up, msg), conns[k].down, session)
      BY <1>2, <1>4, <3>6, StoryPressed DEF UnderWay
    <3>9. Board(s, c, Append(conns[k].up, msg), conns[k].down, session)
      BY <1>2, <3>6, BoardPressed
    <3>10. ASSUME msg.type = "confirm"
           PROVE  /\ \A i \in DOMAIN conns[k].up : conns[k].up[i].type # "accept"
                  /\ session.accepted[s] /\ session.state \notin Closed
                     /\ (\A i \in DOMAIN conns[k].up : conns[k].up[i].type # "offer") =>
                       msg.table = session.deal
      <4>1. client[s].view.accepted[s]
        BY <3>6, <3>7, <3>10 DEF Story
      <4>2. \A i \in DOMAIN conns[k].up : conns[k].up[i].type # "accept"
        BY <3>6, <3>7, <4>1 DEF Story
      <4>3. ASSUME session.accepted[s], session.state \notin Closed,
                   \A i \in DOMAIN conns[k].up : conns[k].up[i].type # "offer"
            PROVE  msg.table = session.deal
        <5>1. /\ session.deal = client[s].view.deal
              /\ \A m \in DOMAIN conns[k].down : conns[k].down[m].cause # <<s, "offer">>
          BY <3>6, <3>7, <4>1, <4>3 DEF Story
        <5>2. client[s].table = client[s].view.deal
          BY <3>6, <4>1, <4>3, <5>1 DEF Board
        <5> QED
          BY <3>10, <5>1, <5>2
      <4> QED
        BY <4>2, <4>3
    <3>11. Affirms(s, Append(conns[k].up, msg), session)
      BY <1>2, <3>6, <3>10, AffirmsPressed
    <3>12. Tale(k)'
      BY <1>1, <1>2, <1>3, <1>8, <3>8, <3>9, <3>11 DEF Tale
    <3> QED
      BY <2>3, <3>4, <3>12
  <2>4. CASE j # k
    <3>1. conns'[j] = conns[j] /\ conns[j].by \in Seat /\ conns[j].by # s
      BY <1>1, <1>2, <1>3, <1>5, <2>1, <2>4, OneSocket, ConnFields
    <3>2. client'[conns[j].by] = client[conns[j].by]
      BY <1>8, <3>1
    <3>3. Meets(j)'
      BY <1>1, <2>2, <3>1, <3>2 DEF Meets, Introduced
    <3>4. Tale(j)'
      BY <1>1, <2>2, <3>1, <3>2 DEF Tale
    <3> QED
      BY <3>3, <3>4
  <2> QED
    BY <2>3, <2>4
<1> QED
  BY <1>3, <1>12, <1>13, <1>14 DEF SeenInv

LEMMA PressesSeen ==
  ASSUME Unbroken, RelayInv, SeenInv, NEW s \in Seat, Presses(s)
  PROVE  SeenInv'
<1>1. client \in [Seat -> App] /\ client[s].table \in Deal
  BY DEF RelayInv, Types, App
<1>2. ASSUME UNCHANGED client PROVE client' = [client EXCEPT ![s] = client[s]]
  BY <1>1, <1>2
<1>3. Empty \in Deal /\ "a" \in Seat
  BY OfferAssumption DEF Empty, Deal, Seat
<1>4. ASSUME NEW t \in DOMAIN Allowed, NEW d \in Deal
      PROVE  Up(t, d) \in Request /\ Up(t, d).type = t /\ Up(t, d).table = d
  BY <1>3, <1>4 DEF Up, Request
<1>5. {"offer", "accept", "unaccept", "confirm", "cancel"} \subseteq DOMAIN Allowed
  BY DEF Allowed
<1>6. CASE PressAccept(s)
  <2>1. Press(s, Up("accept", Empty)) /\ UNCHANGED client /\ ~client[s].view.accepted[s]
    BY <1>6 DEF PressAccept
  <2>2. Up("accept", Empty) \in Request /\ Up("accept", Empty).type = "accept"
    BY <1>3, <1>4, <1>5
  <2> QED
    BY <1>2, <1>5, <2>1, <2>2, PressSeen
<1>7. CASE PressUnaccept(s)
  <2>1. Press(s, Up("unaccept", Empty)) /\ UNCHANGED client
    BY <1>7 DEF PressUnaccept
  <2>2. Up("unaccept", Empty) \in Request /\ Up("unaccept", Empty).type = "unaccept"
    BY <1>3, <1>4, <1>5
  <2> QED
    BY <1>2, <1>5, <2>1, <2>2, PressSeen
<1>8. CASE PressConfirm(s)
  <2>1. /\ Press(s, Up("confirm", client[s].table)) /\ UNCHANGED client
        /\ client[s].view.state = "agreed"
    BY <1>8 DEF PressConfirm
  <2>2. /\ Up("confirm", client[s].table) \in Request
        /\ Up("confirm", client[s].table).type = "confirm"
        /\ Up("confirm", client[s].table).table = client[s].table
    BY <1>1, <1>4, <1>5
  <2> QED
    BY <1>2, <1>5, <2>1, <2>2, PressSeen
<1>9. CASE PressCancel(s)
  <2>1. Press(s, Up("cancel", Empty)) /\ UNCHANGED client
    BY <1>9 DEF PressCancel
  <2>2. Up("cancel", Empty) \in Request /\ Up("cancel", Empty).type = "cancel"
    BY <1>3, <1>4, <1>5
  <2> QED
    BY <1>2, <1>5, <2>1, <2>2, PressSeen
<1>10. ASSUME NEW side \in Seat, NEW o \in Offer, PressOffer(s, side, o) PROVE SeenInv'
  <2> DEFINE c == [client[s] EXCEPT !.table[side] = o]
             msg == Edit(side, client'[s].table)
  <2>1. client' = [client EXCEPT ![s] = c] /\ Press(s, msg)
    BY <1>1, <1>10 DEF PressOffer
  <2>2. client[s] \in App /\ c.ws = client[s].ws /\ c.initial = client[s].initial
        /\ c.view = client[s].view /\ c.table \in Deal
    BY <1>1 DEF App, Deal
  <2>3. client'[s].table \in Deal
    BY <1>1, <2>1, <2>2
  <2>4. msg \in Request /\ msg.type = "offer"
    BY <1>3, <1>5, <2>3 DEF Edit, Up, Request
  <2> HIDE DEF c, msg
  <2> QED
    BY <1>5, <2>1, <2>2, <2>4, PressSeen
<1> QED
  BY <1>6, <1>7, <1>8, <1>9, <1>10 DEF Presses

\* An app gives the trade up, when nothing more will come of it or, for the
\* creator, when it was called off.
LEMMA LeavesSeen ==
  ASSUME RelayInv, SeenInv, NEW s \in Seat, published, conns' = HungUp(client[s].ws),
         client' = [client EXCEPT ![s] = Off], persisted' = [persisted EXCEPT ![s] = FALSE],
         UNCHANGED <<serverVars, published>>,
         s = "b" /\ ~Ended => \A k \in DOMAIN conns : conns[k].by # "b"
  PROVE  SeenInv'
<1>1. /\ Types /\ conns \in Seq(Conn) /\ client \in [Seat -> App]
      /\ persisted \in [Seat -> BOOLEAN] /\ attached \in [Seat -> 0..Len(conns)]
      /\ UNCHANGED <<session, attached, saw>>
  BY DEF RelayInv, Types, StoredTypes, serverVars
<1>2. /\ client[s].ws \in 0..Len(conns)
      /\ client[s].ws # 0 => client[s].ws \in DOMAIN conns /\ conns[client[s].ws].by = s
  BY ClientFields DEF RelayInv, Sockets
<1>3. /\ HungUp(client[s].ws) \in Seq(Conn) /\ Len(HungUp(client[s].ws)) = Len(conns)
      /\ \A i \in DOMAIN conns :
           /\ conns'[i].by = conns[i].by /\ conns'[i].up = conns[i].up
           /\ conns'[i].served = conns[i].served /\ conns'[i].bound = conns[i].bound
           /\ i # client[s].ws => conns'[i] = conns[i]
           /\ i = client[s].ws => ~conns'[i].open /\ conns'[i].down = <<>>
  BY <1>1, <1>2, HungUpFacts
<1>4. DOMAIN conns' = DOMAIN conns
  BY <1>1, <1>3, LenProperties
<1>5. \A i \in DOMAIN conns : conns[i].open => client[conns[i].by].ws = i
  BY DEF RelayInv, Sockets
<1>6. Lone /\ ConfirmedAsSeen /\ (Ended' <=> Ended)
  BY <1>1 DEF SeenInv, Ended
<1>7. /\ client'[s] = Off /\ ~persisted'[s]
      /\ \A t \in Seat : t # s => client'[t] = client[t] /\ persisted'[t] = persisted[t]
  BY <1>1
<1>8. Off.ws = 0 /\ ~(Off.initial # "none") /\ Off.view = NoView
  BY DEF Off
<1>9. \A i \in DOMAIN conns : conns'[i].open => conns[i].open
  BY <1>3
<1>10. Lone'
  <2>1. \A i \in DOMAIN conns' :
          /\ conns'[i].open => conns'[i].served
          /\ \A j \in DOMAIN conns'[i].up : conns'[i].up[j].type # "resume"
          /\ \A j \in DOMAIN conns' : conns'[j].by = conns'[i].by =>
               j = i \/ (conns'[i].by = "b" /\ Ended')
    BY <1>3, <1>4, <1>6, <1>9 DEF Lone
  <2>2. ASSUME NEW i \in DOMAIN conns', ~(client'[conns'[i].by].initial # "none")
        PROVE  published' /\ (conns'[i].by = "b" => Ended')
    <3>1. conns'[i].by = conns[i].by /\ conns[i].by \in Seat /\ i \in DOMAIN conns
      BY <1>1, <1>3, <1>4, ConnFields
    <3>2. CASE conns[i].by = s
      BY <1>6, <3>1, <3>2
    <3>3. CASE conns[i].by # s
      BY <1>6, <1>7, <2>2, <3>1, <3>3 DEF Lone, Active
    <3> QED
      BY <3>2, <3>3
  <2>3. ASSUME NEW t \in Seat, attached'[t] # 0
        PROVE  conns'[attached'[t]].by = t /\ conns'[attached'[t]].bound
    <3>1. attached[t] \in DOMAIN conns
      BY <1>1, <2>3, LenProperties
    <3> QED
      BY <1>1, <1>3, <1>6, <2>3, <3>1 DEF Lone
  <2>4. ASSUME NEW t \in Seat
        PROVE  /\ client'[t].ws = 0 <=> ~(client'[t].initial # "none")
               /\ persisted'[t] => client'[t].initial # "none"
    <3>1. CASE t = s
      BY <1>7, <1>8, <3>1
    <3>2. CASE t # s
      BY <1>6, <1>7, <3>2 DEF Lone, Active
    <3> QED
      BY <3>1, <3>2
  <2> QED
    BY <2>1, <2>2, <2>3, <2>4 DEF Lone, Active
<1>11. ConfirmedAsSeen' /\ Guest'
  <2>1. Guest'
    BY <1>1, <1>3, <1>4, GuestKept DEF SeenInv
  <2> QED
    BY <1>1, <1>6, <2>1 DEF ConfirmedAsSeen
<1>12. ASSUME ~Ended', NEW j \in DOMAIN conns PROVE Meets(j)' /\ Tale(j)'
  <2>1. Meets(j) /\ Tale(j) /\ conns[j].by \in Seat
    BY <1>1, <1>6, <1>12, ConnFields DEF SeenInv
  <2>2. CASE conns[j].by = s
    <3>1. s = "a"
      BY <1>6, <1>12, <2>2 DEF Seat
    <3>2. ~conns'[j].open /\ (conns'[j].down = <<>> \/ conns'[j] = conns[j])
      <4>1. j # client[s].ws => ~conns[j].open
        BY <1>5, <2>2
      <4> QED
        BY <1>3, <4>1
    <3>3. \A i \in DOMAIN conns'[j].down : conns'[j].down[i].type # "gone"
      BY <2>1, <3>2 DEF Meets
    <3>4. Meets(j)'
      BY <1>1, <1>3, <2>1, <2>2, <3>1, <3>2, <3>3 DEF Meets
    <3>5. Tale(j)'
      BY <1>1, <1>3, <2>1, <3>2 DEF Tale
    <3> QED
      BY <3>4, <3>5
  <2>3. CASE conns[j].by # s
    <3>1. conns'[j] = conns[j] /\ client'[conns[j].by] = client[conns[j].by]
      BY <1>2, <1>3, <1>7, <2>1, <2>3
    <3>2. Meets(j)'
      BY <1>1, <2>1, <3>1 DEF Meets, Introduced
    <3>3. Tale(j)'
      BY <1>1, <2>1, <3>1 DEF Tale
    <3> QED
      BY <3>2, <3>3
  <2> QED
    BY <2>2, <2>3
<1> QED
  BY <1>4, <1>10, <1>11, <1>12 DEF SeenInv

LEMMA ResetSeen ==
  ASSUME RelayInv, SeenInv, NEW s \in Seat, Reset(s)
  PROVE  SeenInv'
<1>1. /\ conns' = HungUp(client[s].ws) /\ client' = [client EXCEPT ![s] = Off]
      /\ persisted' = [persisted EXCEPT ![s] = FALSE] /\ UNCHANGED <<serverVars, published>>
      /\ client[s].view.state \in Closed
  BY DEF Reset, Over, Closed
<1>2. Lone
  BY DEF SeenInv
<1>3. s = "b" /\ ~Ended => \A k \in DOMAIN conns : conns[k].by # "b"
  <2>1. SUFFICES ASSUME s = "b", ~Ended, NEW k \in DOMAIN conns, conns[k].by = "b" PROVE FALSE
    OBVIOUS
  <2>2. conns[k].open /\ Meets(k)
    BY <1>2, <2>1, OneSocket DEF SeenInv
  <2> QED
    BY <1>1, <2>1, <2>2 DEF Meets
<1>4. published
  <2>1. client[s].view # NoView
    BY <1>1 DEF NoView, Closed
  <2> QED
    BY <1>2, <2>1 DEF Lone
<1> QED
  BY <1>1, <1>3, <1>4, LeavesSeen

\* An app reads what came.
LEMMA ReadsSeen ==
  ASSUME RelayInv, SeenInv, NEW s \in Seat, ClientReceive(s),
         Head(conns[client[s].ws].down).type \in {"seat", "sync"}
  PROVE  SeenInv'
<1>0. PICK k : k = client[s].ws
  OBVIOUS
<1> DEFINE msg == Head(conns[k].down)
           c == client'[s]
<1>1. /\ Types /\ conns \in Seq(Conn) /\ client \in [Seat -> App]
      /\ persisted \in [Seat -> BOOLEAN] /\ attached \in [Seat -> 0..Len(conns)]
      /\ UNCHANGED <<session, attached, saw>> /\ client[s] \in App
  BY DEF RelayInv, Types, StoredTypes, ClientReceive, serverVars
<1>2. /\ k # 0 /\ conns[k].down # <<>> /\ msg.type \in {"seat", "sync"}
      /\ conns' = [conns EXCEPT ![k].down = Tail(@)]
      /\ \E b \in {client[s], [client[s] EXCEPT !.token = TRUE, !.applied = FALSE]} :
           client' = [client EXCEPT ![s] = Shown(b, msg.snap)]
      /\ \A t \in Seat : t # s => persisted'[t] = persisted[t]
      /\ published' = (published \/ (s = "a" /\ msg.type = "seat"))
  BY <1>0, <1>1 DEF ClientReceive
<1>3. /\ k \in DOMAIN conns /\ conns[k].by = s /\ conns[k].open
      /\ conns[k].up \in Seq(Request) /\ conns[k].down \in Seq(Answer)
  <2>1. k \in DOMAIN conns /\ conns[k].by = s /\ conns[k].open
    BY <1>0, <1>2 DEF RelayInv, Sockets
  <2> QED
    BY <1>1, <2>1, ConnFields
<1>4. /\ c.ws = client[s].ws /\ c.initial = client[s].initial
      /\ c.view = msg.snap /\ c.table = msg.snap.deal
      /\ \A t \in Seat : t # s => client'[t] = client[t]
  <2>1. PICK b \in {client[s], [client[s] EXCEPT !.token = TRUE, !.applied = FALSE]} :
           client' = [client EXCEPT ![s] = Shown(b, msg.snap)]
    BY <1>2
  <2>2. b \in App /\ b.ws = client[s].ws /\ b.initial = client[s].initial
    BY <1>1 DEF App
  <2>3. c = Shown(b, msg.snap)
    BY <1>1, <2>1
  <2>4. /\ Shown(b, msg.snap).ws = b.ws /\ Shown(b, msg.snap).initial = b.initial
        /\ Shown(b, msg.snap).view = msg.snap /\ Shown(b, msg.snap).table = msg.snap.deal
    BY <2>2 DEF Shown, App
  <2> QED
    BY <1>1, <2>1, <2>2, <2>3, <2>4
<1>5. /\ DOMAIN conns' = DOMAIN conns
      /\ \A i \in DOMAIN conns :
           /\ conns'[i].by = conns[i].by /\ conns'[i].up = conns[i].up
           /\ conns'[i].open = conns[i].open /\ conns'[i].served = conns[i].served
           /\ conns'[i].bound = conns[i].bound
           /\ i # k => conns'[i] = conns[i]
      /\ conns'[k].down = Tail(conns[k].down)
  <2>1. conns \in [DOMAIN conns -> Conn] /\ conns[k] \in Conn
    BY <1>1, <1>3, ConnFields, LenProperties
  <2> QED
    BY <1>2, <1>3, <2>1 DEF Conn
<1>6. /\ msg = conns[k].down[1] /\ 1 \in DOMAIN conns[k].down
      /\ \A j \in DOMAIN Tail(conns[k].down) :
           j + 1 \in DOMAIN conns[k].down /\ Tail(conns[k].down)[j] = conns[k].down[j + 1]
  BY <1>2, <1>3, Tailed
<1>7. Lone /\ ConfirmedAsSeen /\ (published => published') /\ (Ended => Ended')
  BY <1>1, <1>2 DEF SeenInv, Ended
<1> HIDE DEF msg, c
<1>8. published'
  <2>1. CASE s = "a"
    <3>1. SUFFICES ASSUME ~published PROVE msg.type = "seat"
      BY <1>2, <1>7, <2>1
    <3>2. Meets(k)
      BY <1>3, <3>1 DEF SeenInv, Ended
    <3>3. conns[k].bound
      BY <1>2, <1>3, <3>2 DEF Meets
    <3>4. Introduced(k)
      BY <1>3, <3>1, <3>2, <3>3 DEF Meets
    <3> QED
      BY <1>6, <3>4 DEF Introduced
  <2>2. CASE s = "b"
    BY <1>0, <1>2, <1>7, <2>2 DEF Lone
  <2> QED
    BY <2>1, <2>2 DEF Seat
<1>9. c = client'[s]
  BY DEF c
<1>10. \A t \in Seat : client'[t].ws = client[t].ws /\ client'[t].initial = client[t].initial
  BY <1>4, <1>9
<1>11. Lone'
  <2>1. \A i \in DOMAIN conns' : ~(client'[conns'[i].by].initial # "none") =>
          published' /\ (conns'[i].by = "b" => Ended')
    <3>1. \A i \in DOMAIN conns : conns[i].by \in Seat
      BY <1>1, ConnFields
    <3> QED
      BY <1>5, <1>7, <1>8, <1>10, <3>1 DEF Lone, Active
  <2>2. ASSUME NEW t \in Seat, attached'[t] # 0
        PROVE  conns'[attached'[t]].by = t /\ conns'[attached'[t]].bound
    <3>1. attached[t] \in DOMAIN conns
      BY <1>1, <2>2, LenProperties
    <3> QED
      BY <1>1, <1>5, <1>7, <2>2, <3>1 DEF Lone
  <2>3. ASSUME NEW t \in Seat
        PROVE  /\ client'[t].ws = 0 <=> ~(client'[t].initial # "none")
               /\ persisted'[t] => client'[t].initial # "none"
    <3>1. client[s].initial # "none"
      BY <1>0, <1>2, <1>7 DEF Lone, Active
    <3> QED
      BY <1>2, <1>7, <1>10, <3>1 DEF Lone, Active
  <2> QED
    BY <1>5, <1>7, <1>8, <2>1, <2>2, <2>3 DEF Lone, Active
<1>12. ConfirmedAsSeen' /\ Guest'
  <2>1. Guest'
    BY <1>1, <1>5, GuestKept DEF SeenInv
  <2> QED
    BY <1>1, <1>7, <2>1 DEF ConfirmedAsSeen
<1>13. ASSUME ~Ended', NEW j \in DOMAIN conns PROVE Meets(j)' /\ Tale(j)'
  <2>1. ~Ended
    BY <1>7, <1>13
  <2>2. Meets(j) /\ Tale(j) /\ Meets(k) /\ Tale(k)
    BY <1>3, <2>1 DEF SeenInv
  <2>3. CASE j = k
    <3>1. conns[k].bound
      BY <1>2, <1>3, <2>2 DEF Meets
    <3>2. /\ \A i \in DOMAIN conns'[k].down : conns'[k].down[i].type # "gone"
          /\ s = "b" =>
               /\ \A i \in DOMAIN conns'[k].down : conns'[k].down[i].snap.state \notin Closed
               /\ client'["b"].view.state \notin Closed
      BY <1>3, <1>4, <1>5, <1>6, <1>9, <2>2 DEF Meets
    <3>3. Meets(k)'
      BY <1>1, <1>3, <1>5, <1>8, <2>2, <3>1, <3>2 DEF Meets
    <3>4. SUFFICES ASSUME session # NoSession PROVE Tale(k)'
      BY <1>1, <2>3, <3>3 DEF Tale
    <3>5. /\ Affirms(s, conns[k].up, session)
          /\ Story(s, client[s].view, conns[k].up, conns[k].down, session)
      BY <1>3, <2>2, <3>1, <3>4 DEF Tale
    <3>6. Story(s, client'[s].view, conns[k].up, Tail(conns[k].down), session)
      BY <1>2, <1>3, <1>4, <1>9, <3>5, StoryRead DEF msg
    <3>7. Board(s, client'[s], conns[k].up, Tail(conns[k].down), session)
      BY <1>4, <1>9 DEF Board
    <3>8. Tale(k)'
      BY <1>1, <1>3, <1>5, <3>5, <3>6, <3>7 DEF Tale
    <3> QED
      BY <2>3, <3>3, <3>8
  <2>4. CASE j # k
    <3>1. conns'[j] = conns[j] /\ conns[j].by \in Seat /\ conns[j].by # s
      BY <1>1, <1>3, <1>5, <1>7, <2>1, <2>4, OneSocket, ConnFields
    <3>2. client'[conns[j].by] = client[conns[j].by]
      BY <1>4, <3>1
    <3>3. Meets(j)'
      BY <1>1, <1>8, <2>2, <3>1, <3>2 DEF Meets
    <3>4. Tale(j)'
      BY <1>1, <2>2, <3>1, <3>2 DEF Tale
    <3> QED
      BY <3>3, <3>4
  <2> QED
    BY <2>3, <2>4
<1> QED
  BY <1>5, <1>11, <1>12, <1>13 DEF SeenInv

LEMMA ReceiveSeen ==
  ASSUME RelayInv, SeenInv, NEW s \in Seat, ClientReceive(s)
  PROVE  SeenInv'
<1> DEFINE k == client[s].ws
<1>1. CASE Head(conns[k].down).type = "gone"
  <2>1. /\ k # 0 /\ conns[k].down # <<>>
        /\ conns' = HungUp(k) /\ client' = [client EXCEPT ![s] = Off]
        /\ persisted' = [persisted EXCEPT ![s] = FALSE]
        /\ UNCHANGED <<serverVars, published>>
    BY <1>1 DEF ClientReceive
  <2>2. k \in DOMAIN conns
    BY <2>1 DEF RelayInv, Sockets
  <2>3. Head(conns[k].down) = conns[k].down[1] /\ 1 \in DOMAIN conns[k].down
    <3>1. conns[k].down \in Seq(Answer)
      BY <2>2, ConnFields DEF RelayInv, Types
    <3> QED
      BY <2>1, <3>1, Tailed
  <2>4. Ended
    BY <1>1, <2>2, <2>3 DEF SeenInv, Meets
  <2>5. published
    BY <2>4 DEF Ended
  <2> QED
    BY <2>1, <2>4, <2>5, LeavesSeen
<1>2. CASE Head(conns[k].down).type # "gone"
  <2>1. Head(conns[k].down).type \in {"seat", "sync"}
    BY <1>2 DEF ClientReceive
  <2> QED
    BY <2>1, ReadsSeen
<1> QED
  BY <1>1, <1>2

\* And it writes a trade that went through.
LEMMA WritesSeen ==
  ASSUME Unbroken, RelayInv, SeenInv, NEW s \in Seat, Commit(s) \/ Fail(s) \/ RetryApply(s)
  PROVE  SeenInv'
<1>1. /\ client \in [Seat -> App] /\ conns \in Seq(Conn) /\ persisted \in [Seat -> BOOLEAN]
  BY DEF RelayInv, Types, StoredTypes
<1>2. UNCHANGED <<session, attached, saw, published, conns>>
  BY DEF Commit, Fail, RetryApply, serverVars, Unbroken
<1>3. \A t \in Seat : persisted'[t] => persisted[t]
  BY <1>1 DEF Commit, Fail, RetryApply, Unbroken
<1>4. ASSUME NEW t \in Seat
      PROVE  /\ client'[t].ws = client[t].ws /\ client'[t].initial = client[t].initial
             /\ client'[t].view = client[t].view /\ client'[t].table = client[t].table
  <2>1. CASE Commit(s)
    BY <2>1 DEF Commit, Unbroken
  <2>2. CASE Fail(s) \/ RetryApply(s)
    <3>1. PICK f : client' = [client EXCEPT ![s].failed = f]
      BY <2>2 DEF Fail, RetryApply
    <3> QED
      BY <1>1, <3>1 DEF App
  <2> QED
    BY <2>1, <2>2
<1>5. Lone /\ ConfirmedAsSeen /\ Guest
  BY DEF SeenInv
<1>6. \A i \in DOMAIN conns : conns[i].by \in Seat
  BY <1>1, ConnFields
<1>7. (Ended' <=> Ended) /\ ConfirmedAsSeen' /\ Guest'
  BY <1>2, <1>5 DEF Ended, ConfirmedAsSeen, Guest
<1>8. Lone'
  <2>1. \A i \in DOMAIN conns' : ~(client'[conns'[i].by].initial # "none") =>
          published' /\ (conns'[i].by = "b" => Ended')
    BY <1>2, <1>4, <1>5, <1>6, <1>7 DEF Lone, Active
  <2>2. \A t \in Seat : /\ client'[t].ws = 0 <=> ~(client'[t].initial # "none")
                        /\ persisted'[t] => client'[t].initial # "none"
    BY <1>3, <1>4, <1>5 DEF Lone, Active
  <2>3. ~published' => /\ ~(client'["b"].initial # "none")
                       /\ \A t \in Seat : client'[t].view = NoView
    BY <1>2, <1>4, <1>5 DEF Lone, Active, Seat
  <2>4. /\ \A i \in DOMAIN conns' :
             /\ conns'[i].open => conns'[i].served
             /\ \A j \in DOMAIN conns'[i].up : conns'[i].up[j].type # "resume"
             /\ ~published' => conns'[i].by = "a"
             /\ \A j \in DOMAIN conns' : conns'[j].by = conns'[i].by =>
                  j = i \/ (conns'[i].by = "b" /\ Ended')
        /\ \A t \in Seat : attached'[t] # 0 =>
             conns'[attached'[t]].by = t /\ conns'[attached'[t]].bound
    BY <1>2, <1>5, <1>7 DEF Lone
  <2> QED
    BY <2>1, <2>2, <2>3, <2>4 DEF Lone, Active
<1>9. ASSUME ~Ended', NEW j \in DOMAIN conns PROVE Meets(j)' /\ Tale(j)'
  <2>1. Meets(j) /\ Tale(j)
    BY <1>7, <1>9 DEF SeenInv
  <2>2. /\ client'["b"].view = client["b"].view
        /\ client'[conns[j].by].view = client[conns[j].by].view
        /\ client'[conns[j].by].table = client[conns[j].by].table
    BY <1>4, <1>6 DEF Seat
  <2>3. Meets(j)'
    BY <1>2, <2>1, <2>2 DEF Meets, Introduced
  <2>4. Tale(j)'
    BY <1>2, <2>1, <2>2 DEF Tale, Board
  <2> QED
    BY <2>3, <2>4
<1> QED
  BY <1>2, <1>7, <1>8, <1>9 DEF SeenInv

LEMMA SeenInit == Init => SeenInv
<1> SUFFICES ASSUME Init PROVE SeenInv
  OBVIOUS
<1>1. /\ session = NoSession /\ DOMAIN conns = {} /\ ~published
      /\ \A s \in Seat : /\ client[s].ws = 0 /\ client[s].initial = "none"
                         /\ client[s].view = NoView /\ ~persisted[s] /\ attached[s] = 0
  BY DEF Init, SessionInit, Off
<1>2. "a" \in Seat /\ "b" \in Seat
  BY DEF Seat
<1> QED
  BY <1>1, <1>2 DEF SeenInv, ConfirmedAsSeen, Lone, Guest, Active

LEMMA SeenNext ==
  ASSUME Unbroken, RelayInv, SeenInv, [Next]_vars
  PROVE  SeenInv'
<1>1. CASE BeginCreate \/ BeginJoin
  BY <1>1, BeginsSeen
<1>2. ASSUME NEW s \in Seat, AppStep(s) PROVE SeenInv'
  <2>1. CASE BeginResume(s) \/ Reconnect(s) \/ RetryConnect(s) \/ Break(s) \/ Quit(s)
    BY <2>1, NobodyReturns DEF SeenInv
  <2>2. CASE Presses(s)
    BY <2>2, PressesSeen
  <2>3. CASE Reset(s) \/ ClientReceive(s)
    BY <2>3, ResetSeen, ReceiveSeen
  <2>4. CASE Commit(s) \/ Fail(s) \/ RetryApply(s)
    BY <2>4, WritesSeen
  <2> QED
    BY <1>2, <2>1, <2>2, <2>3, <2>4 DEF AppStep, Presses
<1>3. ASSUME NEW s \in Seat, Lapse(s) PROVE SeenInv'
  BY <1>3, LapseSeen
<1>4. ASSUME NEW k \in DOMAIN conns, RelayStep(k) PROVE SeenInv'
  BY <1>4, HandleSeen, CloseSeen DEF RelayStep
<1>5. CASE Expire
  BY <1>5, ExpireSeen
<1>6. CASE UNCHANGED vars
  <2>1. UNCHANGED <<session, conns, attached, client, published, persisted, saw>>
    BY <1>6 DEF vars
  <2>2. (Ended' <=> Ended) /\ (ConfirmedAsSeen' <=> ConfirmedAsSeen) /\ (Guest' <=> Guest)
    BY <2>1 DEF Ended, ConfirmedAsSeen, Guest
  <2>3. Lone' <=> Lone
    BY <2>1, <2>2 DEF Lone, Active
  <2>4. \A k \in DOMAIN conns : (Meets(k)' <=> Meets(k)) /\ (Tale(k)' <=> Tale(k))
    BY <2>1 DEF Meets, Introduced, Tale
  <2> QED
    BY <2>1, <2>2, <2>3, <2>4 DEF SeenInv
<1> QED
  BY <1>1, <1>2, <1>3, <1>4, <1>5, <1>6 DEF Next

\* A confirmation stands for the table its seat had before its eyes, so that a
\* deal goes through only as both saw it (session.ts: confirmComplete;
\* useTradeSession.ts: a snapshot replaces what is on the board): for any
\* cards, number of sockets, presses and joins, with or without timers and
\* failing writes, as long as sockets hold and no button is tapped while its
\* last tap goes on.
THEOREM RelayConfirmedAsSeen == ASSUME Unbroken PROVE Spec => []ConfirmedAsSeen
<1>1. RelayInv /\ SeenInv /\ [Next]_vars => SeenInv'
  BY SeenNext
<1>2. SeenInv => ConfirmedAsSeen
  BY DEF SeenInv
<1> QED
  BY <1>1, <1>2, SeenInit, RelayInvariant, PTL DEF Spec

=============================================================================
