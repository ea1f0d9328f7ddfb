------------------------- MODULE AgentBridge_proofs -------------------------
(***************************************************************************)
(* For any tabs and any calls: the hub's picture of its tab is right, and  *)
(* the bridge keeps the safety half of CallPromise.                        *)
(*                                                                         *)
(* The type of a message says what is known of it: a call that is on its   *)
(* way was asked, and a result is of a call whose tool ran. Both only grow. *)
(***************************************************************************)
EXTENDS AgentBridge, TLAPS

Asked == {i \in Call : outcome[i] # "none"}
UpMessage == [type : {"hello"}] \cup [type : {"result"}, call : ran]
DownMessage == [type : {"call"}, call : Asked] \cup [type : {"replaced"}]
Connection == [end : {"connecting", "open", "closing", "closed"}, served : BOOLEAN,
               shut : BOOLEAN, greeted : BOOLEAN, up : Seq(UpMessage), down : Seq(DownMessage)]
Manager == [on : BOOLEAN, ws : Socket \cup {None}, timer : BOOLEAN, replaced : BOOLEAN,
            status : {"off", "waiting", "connected", "replaced"}, running : SUBSET Asked]

CallsTyped ==
  /\ outcome \in [Call -> {"none", "pending", "answered", "failed"}]
  /\ ran \subseteq Asked /\ pending \subseteq Call /\ addressee \in [Call -> Tab \cup {None}]
HubTyped == hub \in [ws : Socket \cup {None}, alive : BOOLEAN, missedPings : 0..1]
EndsTyped == conns \in [Socket -> Connection] /\ tabs \in [Tab -> Manager]

\* A tab has one of its own two places in use, and no socket but the one in use
\* is being opened or open.
Own(t, c) == c.ws \in {None} \cup ({t} \X {1, 2})
InUse == \A k \in Socket : conns[k].end \in {"connecting", "open"} => tabs[k[1]].ws = k
EndsAgree == (\A t \in Tab : Own(t, tabs[t])) /\ InUse

BridgeInv == CallsTyped /\ HubTyped /\ EndsTyped /\ EndsAgree /\ PendingIsKept

-----------------------------------------------------------------------------
(***************************************************************************)
(* What is asked and what ran only grows, and messages keep their types.   *)
(***************************************************************************)
\* A queue of messages of one kind is a queue of messages of any wider kind.
LEMMA QueueWidens == ASSUME NEW S, NEW T, S \subseteq T PROVE Seq(S) \subseteq Seq(T)
  OBVIOUS

\* While calls are not forgotten, sockets and tabs keep their types.
LEMMA TypesWiden ==
  ASSUME Asked \subseteq Asked', ran \subseteq ran'
  PROVE  Connection \subseteq Connection' /\ Manager \subseteq Manager'
<1>1. UpMessage \subseteq UpMessage' /\ DownMessage \subseteq DownMessage'
  BY DEF UpMessage, DownMessage
<1>2. Seq(UpMessage) \subseteq Seq(UpMessage') /\ Seq(DownMessage) \subseteq Seq(DownMessage')
  BY <1>1, QueueWidens
<1> QED BY <1>2 DEF Connection, Manager, Socket

\* The first of a queue, and the rest.
LEMMA QueueShrinks ==
  ASSUME NEW S, NEW q \in Seq(S), q # <<>>
  PROVE  Head(q) \in S /\ Tail(q) \in Seq(S)
  OBVIOUS

\* So they are typed after a step if they are by what was asked before it.
LEMMA EndsWiden ==
  ASSUME Asked \subseteq Asked', ran \subseteq ran',
         conns' \in [Socket -> Connection], tabs' \in [Tab -> Manager]
  PROVE  EndsTyped'
BY TypesWiden DEF EndsTyped, Socket

\* Sockets of a tab are its own.
LEMMA SocketParts ==
  /\ \A k \in Socket : k[1] \in Tab
  /\ \A t \in Tab, n \in {1, 2} : <<t, n>> \in Socket /\ <<t, n>>[1] = t
BY DEF Socket

-----------------------------------------------------------------------------
(***************************************************************************)
(* The tab.                                                                *)
(***************************************************************************)
\* Sockets cs and a tab t in state c, for which the invariant holds but for the
\* dialling, keep it when ensureSocket is through.
Fits(t, c, cs) == \A k \in Socket :
  cs[k].end \in {"connecting", "open"} => (IF k[1] = t THEN c.ws ELSE tabs[k[1]].ws) = k

\* A tab that dials takes a place of its own that is free, when the one it had in
\* use is closed.
LEMMA EnsureSocketInv ==
  ASSUME BridgeInv, UNCHANGED <<outcome, ran>>,
         NEW t \in Tab, NEW c \in Manager, NEW cs \in [Socket -> Connection],
         Own(t, c), Fits(t, c, cs), EnsureSocket(t, c, cs)
  PROVE  EndsTyped' /\ EndsAgree'
<1>0. tabs \in [Tab -> Manager] /\ Asked \subseteq Asked' /\ ran \subseteq ran'
  BY DEF BridgeInv, EndsTyped, Asked
<1>1. CASE ~Dials(c, cs)
  <2>1. conns' = cs /\ tabs' = [tabs EXCEPT ![t] = c]
    BY <1>1 DEF EnsureSocket
  <2>2. EndsTyped'
    BY <1>0, <2>1, EndsWiden
  <2>3. EndsAgree'
    BY <1>0, <2>1, SocketParts DEF EndsAgree, InUse, Fits, BridgeInv, Own
  <2> QED BY <2>2, <2>3
<1>2. CASE Dials(c, cs)
  <2>1. PICK n \in {1, 2} : /\ conns' = [cs EXCEPT ![<<t, n>>] = Dialing]
                            /\ tabs' = [tabs EXCEPT ![t] = [c EXCEPT !.ws = <<t, n>>, !.status = "waiting"]]
    BY <1>2 DEF EnsureSocket
  <2> DEFINE k == <<t, n>>
             d == [c EXCEPT !.ws = k, !.status = "waiting"]
  <2>2. k \in Socket /\ k[1] = t
    BY SocketParts
  <2>3. Dialing \in Connection
    <3>1. <<>> \in Seq(UpMessage) /\ <<>> \in Seq(DownMessage)
      OBVIOUS
    <3>2. Gone \in Connection
      BY <3>1 DEF Gone, Connection
    <3> QED BY <3>2 DEF Dialing, Connection
  <2>4. d \in Manager /\ d.ws = k
    BY <2>2 DEF Manager
  <2>5. conns' \in [Socket -> Connection] /\ tabs' \in [Tab -> Manager]
    BY <1>0, <2>1, <2>2, <2>3, <2>4
  <2>6. EndsTyped'
    BY <1>0, <2>5, EndsWiden
  <2>7. ASSUME NEW u \in Tab PROVE Own(u, tabs'[u])
    BY <1>0, <2>1, <2>4 DEF BridgeInv, EndsAgree, Own
  <2>8. \A j \in Socket : j[1] = t => cs[j].end \notin {"connecting", "open"}
    <3>1. c.ws = None \/ cs[c.ws].end \notin {"connecting", "open"}
      BY <1>2 DEF Dials
    <3> QED BY <3>1 DEF Fits, None, Socket
  <2>9. ASSUME NEW j \in Socket, conns'[j].end \in {"connecting", "open"}
        PROVE  tabs'[j[1]].ws = j
    BY <1>0, <2>1, <2>2, <2>4, <2>8, <2>9, SocketParts DEF Fits
  <2> QED BY <2>6, <2>7, <2>9 DEF EndsAgree, InUse
<1> QED BY <1>1, <1>2

\* What the tab does to its sockets and its state is all there is to see to.
LEMMA TabKeeps ==
  ASSUME BridgeInv, UNCHANGED <<hub, callVars, ran>>, EndsTyped', EndsAgree'
  PROVE  BridgeInv'
BY DEF BridgeInv, callVars, CallsTyped, HubTyped, PendingIsKept, Asked

\* The bridge is switched on, another preference changes, or the timer goes off.
LEMMA SwitchOnInv == ASSUME BridgeInv, NEW t \in Tab, SwitchOn(t) \/ OtherPref(t) \/ TimerFires(t)
                     PROVE  BridgeInv'
<1> USE DEF BridgeInv, EndsTyped, EndsAgree
<1>1. PICK c \in Manager : /\ c.ws = tabs[t].ws
                           /\ EnsureSocket(t, c, conns) /\ UNCHANGED <<hub, callVars, ran>>
  <2>1. CASE SwitchOn(t)
    <3> DEFINE c == Forgiven([tabs[t] EXCEPT !.on = TRUE])
    <3>1. c \in Manager /\ c.ws = tabs[t].ws
      BY DEF Forgiven, Manager
    <3> QED BY <2>1, <3>1 DEF SwitchOn
  <2>2. CASE OtherPref(t)
    <3>1. Forgiven(tabs[t]) \in Manager /\ Forgiven(tabs[t]).ws = tabs[t].ws
      BY DEF Forgiven, Manager
    <3> QED BY <2>2, <3>1 DEF OtherPref
  <2>3. CASE TimerFires(t)
    <3> DEFINE c == [tabs[t] EXCEPT !.timer = FALSE]
    <3>1. c \in Manager /\ c.ws = tabs[t].ws
      BY DEF Manager
    <3> QED BY <2>3, <3>1 DEF TimerFires
  <2> QED BY <2>1, <2>2, <2>3
<1>2. Own(t, c) /\ Fits(t, c, conns)
  BY <1>1 DEF Own, Fits, InUse
<1>3. EndsTyped' /\ EndsAgree'
  BY <1>1, <1>2, EnsureSocketInv DEF callVars
<1> QED BY <1>1, <1>3, TabKeeps

\* Switching off closes the socket in use.
LEMMA SwitchOffInv == ASSUME BridgeInv, NEW t \in Tab, SwitchOff(t) PROVE BridgeInv'
<1> USE DEF BridgeInv, EndsTyped, EndsAgree
<1> DEFINE k == tabs[t].ws
           c == [tabs[t] EXCEPT !.on = FALSE]
           off == [c EXCEPT !.ws = None, !.timer = FALSE, !.status = "off"]
<1>0. UNCHANGED <<hub, callVars, ran>> /\ Asked \subseteq Asked' /\ ran \subseteq ran'
  BY DEF SwitchOff, callVars, Asked
<1>1. /\ c \in Manager /\ c.ws = k /\ off \in Manager /\ off.ws = None
      /\ k \in Socket \cup {None}
  BY DEF Manager
<1>2. /\ conns' = HungUp(conns, k)
      /\ tabs' = [tabs EXCEPT ![t] = IF k # None \/ c.timer THEN off ELSE c]
  BY <1>1 DEF SwitchOff
<1>3. /\ conns' \in [Socket -> Connection]
      /\ \A j \in Socket : /\ j # k => conns'[j] = conns[j]
                           /\ j = k /\ k # None => conns'[j].end \notin {"connecting", "open"}
  <2>1. CASE k = None
    BY <1>2, <2>1 DEF HungUp
  <2>2. CASE k # None
    <3> DEFINE hung == [conns[k] EXCEPT !.end = IF @ = "closed" THEN @ ELSE "closing", !.down = <<>>]
    <3>1. k \in Socket /\ <<>> \in Seq(DownMessage)
      BY <1>1, <2>2
    <3>2. hung \in Connection /\ hung.end \notin {"connecting", "open"}
      BY <3>1 DEF Connection
    <3>3. conns' = [conns EXCEPT ![k] = hung]
      BY <1>2, <2>2 DEF HungUp
    <3> QED BY <3>1, <3>2, <3>3
  <2> QED BY <2>1, <2>2
<1>4. tabs' \in [Tab -> Manager]
  BY <1>1, <1>2
<1>5. EndsTyped'
  BY <1>0, <1>3, <1>4, EndsWiden
<1>6. ASSUME NEW u \in Tab PROVE Own(u, tabs'[u])
  BY <1>1, <1>2 DEF Own
<1>7. ASSUME NEW j \in Socket, conns'[j].end \in {"connecting", "open"} PROVE tabs'[j[1]].ws = j
  <2>1. j # k \/ k = None
    BY <1>3, <1>7
  <2>2. conns[j].end \in {"connecting", "open"} \/ j = k
    BY <1>3, <1>7
  <2>3. CASE j # k
    <3>1. tabs[j[1]].ws = j
      BY <1>3, <1>7, <2>3 DEF InUse
    <3> QED BY <1>2, <2>3, <3>1, SocketParts
  <2>4. CASE j = k
    BY <2>1, <2>4 DEF None, Socket
  <2> QED BY <2>3, <2>4
<1> QED BY <1>0, <1>5, <1>6, <1>7, TabKeeps DEF InUse

\* A reload closes all sockets of the tab before it dials again.
LEMMA ReloadInv == ASSUME BridgeInv, NEW t \in Tab, Reload(t) PROVE BridgeInv'
<1> USE DEF BridgeInv, EndsTyped, EndsAgree
<1> DEFINE c == Loaded(tabs[t].on)
           cs == [k \in Socket |-> IF k[1] = t THEN [conns[k] EXCEPT !.end = "closed", !.down = <<>>]
                                               ELSE conns[k]]
<1>1. c \in Manager /\ c.ws = None
  BY DEF Loaded, Manager, None
<1>2. cs \in [Socket -> Connection]
  <2>1. ASSUME NEW k \in Socket PROVE cs[k] \in Connection
    <3>1. <<>> \in Seq(DownMessage) /\ conns[k] \in Connection
      OBVIOUS
    <3> QED BY <3>1 DEF Connection
  <2> QED BY <2>1
<1>3. Own(t, c) /\ Fits(t, c, cs)
  <2>1. ASSUME NEW k \in Socket, cs[k].end \in {"connecting", "open"} PROVE k[1] # t
    <3>1. SUFFICES ASSUME k[1] = t PROVE FALSE
      OBVIOUS
    <3>2. conns[k] \in Connection
      OBVIOUS
    <3>3. cs[k].end = "closed"
      BY <3>1, <3>2 DEF Connection
    <3> QED BY <2>1, <3>3
  <2>2. ASSUME NEW k \in Socket, cs[k].end \in {"connecting", "open"} PROVE tabs[k[1]].ws = k
    BY <2>1, <2>2 DEF InUse
  <2> QED BY <1>1, <2>1, <2>2 DEF Own, Fits
<1>4. EnsureSocket(t, c, cs) /\ UNCHANGED <<hub, callVars, ran>>
  BY DEF Reload
<1>5. EndsTyped' /\ EndsAgree'
  BY <1>1, <1>2, <1>3, <1>4, EnsureSocketInv DEF callVars
<1> QED BY <1>4, <1>5, TabKeeps

\* Most steps touch one socket of a tab, and keep the socket in use.
LEMMA OneSocketKeeps ==
  ASSUME BridgeInv, Asked \subseteq Asked', ran \subseteq ran',
         NEW k \in Socket, NEW e \in Connection, conns' = [conns EXCEPT ![k] = e],
         e.end \in {"connecting", "open"} => conns[k].end \in {"connecting", "open"},
         NEW c \in Manager, tabs' = [tabs EXCEPT ![k[1]] = c],
         c.ws = tabs[k[1]].ws \/ (c.ws = None /\ tabs[k[1]].ws = k
                                  /\ e.end \notin {"connecting", "open"})
  PROVE  EndsTyped' /\ EndsAgree'
<1> USE DEF BridgeInv, EndsTyped, EndsAgree
<1>1. EndsTyped'
  BY EndsWiden, SocketParts
<1>2. ASSUME NEW u \in Tab PROVE Own(u, tabs'[u])
  BY SocketParts DEF Own
<1>3. ASSUME NEW j \in Socket, conns'[j].end \in {"connecting", "open"} PROVE tabs'[j[1]].ws = j
  <2>1. conns[j].end \in {"connecting", "open"} /\ tabs[j[1]].ws = j
    BY <1>3 DEF InUse
  <2>2. j = k => e.end \in {"connecting", "open"}
    BY <1>3
  <2> QED BY <2>1, <2>2, SocketParts
<1> QED BY <1>1, <1>2, <1>3 DEF InUse

\* The socket in use opens; its hello is a message.
LEMMA OpenedInv == ASSUME BridgeInv, NEW k \in Socket, Opened(k) PROVE BridgeInv'
<1> USE DEF BridgeInv, EndsTyped, EndsAgree
<1> DEFINE t == k[1]
           hello == [type |-> "hello"]
           e == [conns[k] EXCEPT !.end = "open", !.served = TRUE, !.up = <<hello>>]
           c == [tabs[t] EXCEPT !.status = "connected"]
<1>0. UNCHANGED <<hub, callVars, ran>> /\ Asked \subseteq Asked' /\ ran \subseteq ran'
  BY DEF Opened, callVars, Asked
<1>1. conns[k].end = "connecting" /\ tabs[t].ws = k /\ t \in Tab
  BY SocketParts DEF Opened, InUse
<1>2. conns' = [conns EXCEPT ![k] = e] /\ tabs' = [tabs EXCEPT ![t] = c]
  BY <1>1 DEF Opened
<1>3. <<hello>> \in Seq(UpMessage)
  BY DEF UpMessage
<1>4. e \in Connection /\ c \in Manager /\ c.ws = tabs[t].ws
  <2>1. conns[k] \in Connection /\ tabs[t] \in Manager
    BY <1>1
  <2>2. e \in Connection
    BY <1>3, <2>1 DEF Connection
  <2>3. c \in Manager /\ c.ws = tabs[t].ws
    BY <2>1 DEF Manager
  <2> QED BY <2>2, <2>3
<1>5. EndsTyped' /\ EndsAgree'
  BY <1>0, <1>1, <1>2, <1>4, OneSocketKeeps
<1> QED BY <1>0, <1>5, TabKeeps

\* A socket closes; only the one in use was open or opening.
LEMMA OnCloseInv == ASSUME BridgeInv, NEW k \in Socket, OnClose(k) PROVE BridgeInv'
<1> USE DEF BridgeInv, EndsTyped, EndsAgree
<1> DEFINE t == k[1]
           e == [conns[k] EXCEPT !.end = "closed", !.down = <<>>]
<1>0. UNCHANGED <<hub, callVars, ran>> /\ Asked \subseteq Asked' /\ ran \subseteq ran'
  BY DEF OnClose, callVars, Asked
<1>1. t \in Tab /\ tabs[t] \in Manager
  BY SocketParts
<1>2. e \in Connection /\ e.end = "closed"
  <2>1. <<>> \in Seq(DownMessage) /\ conns[k] \in Connection
    OBVIOUS
  <2> QED BY <2>1 DEF Connection
<1>3. conns' = [conns EXCEPT ![k] = e]
  BY DEF OnClose
<1>4. PICK c \in Manager : /\ tabs' = [tabs EXCEPT ![t] = c]
                           /\ c.ws = tabs[t].ws \/ (c.ws = None /\ tabs[t].ws = k)
  <2> DEFINE d == [tabs[t] EXCEPT !.ws = None]
             again == [d EXCEPT !.status = "waiting", !.timer = TRUE]
             over == [d EXCEPT !.status = IF d.replaced THEN @ ELSE "off"]
  <2>1. d \in Manager /\ again \in Manager /\ over \in Manager
    BY <1>1 DEF Manager
  <2>2. again.ws = None /\ over.ws = None
    BY <1>1 DEF Manager
  <2>3. tabs' = tabs \/ (tabs[t].ws = k /\ (tabs' = [tabs EXCEPT ![t] = again] \/ tabs' = [tabs EXCEPT ![t] = over]))
    BY DEF OnClose
  <2>4. tabs = [tabs EXCEPT ![t] = tabs[t]]
    BY <1>1
  <2>5. CASE tabs' = tabs
    BY <1>1, <2>4, <2>5
  <2>6. CASE tabs[t].ws = k /\ tabs' = [tabs EXCEPT ![t] = again]
    <3> HIDE DEF again
    <3> QED BY <2>1, <2>2, <2>6
  <2>7. CASE tabs[t].ws = k /\ tabs' = [tabs EXCEPT ![t] = over]
    <3> HIDE DEF over
    <3> QED BY <2>1, <2>2, <2>7
  <2> QED BY <2>3, <2>5, <2>6, <2>7
<1>5. EndsTyped' /\ EndsAgree'
  BY <1>0, <1>2, <1>3, <1>4, OneSocketKeeps
<1> QED BY <1>0, <1>5, TabKeeps

\* A tab takes a message: a call that was asked begins to run.
LEMMA ReceiveInv == ASSUME BridgeInv, NEW k \in Socket, Receive(k) PROVE BridgeInv'
<1> USE DEF BridgeInv, EndsTyped, EndsAgree
<1> DEFINE t == k[1]
           msg == Head(conns[k].down)
           e == [conns[k] EXCEPT !.down = Tail(@)]
<1>0. UNCHANGED <<hub, callVars, ran>> /\ Asked \subseteq Asked' /\ ran \subseteq ran'
  BY DEF Receive, callVars, Asked
<1>1. t \in Tab /\ tabs[t] \in Manager /\ conns[k] \in Connection
  BY SocketParts
<1>2. msg \in DownMessage /\ Tail(conns[k].down) \in Seq(DownMessage)
  <2>1. conns[k].down \in Seq(DownMessage) /\ conns[k].down # <<>>
    BY <1>1 DEF Receive, Connection
  <2> QED BY <2>1, QueueShrinks
<1>3. e \in Connection /\ e.end = conns[k].end /\ conns' = [conns EXCEPT ![k] = e]
  BY <1>1, <1>2 DEF Receive, Connection
<1>4. PICK c \in Manager : tabs' = [tabs EXCEPT ![t] = c] /\ c.ws = tabs[t].ws
  <2>1. CASE msg.type = "call"
    <3> DEFINE c == [tabs[t] EXCEPT !.running = @ \cup {msg.call}]
    <3>1. msg.call \in Asked
      BY <1>2, <2>1 DEF DownMessage
    <3>2. c \in Manager /\ c.ws = tabs[t].ws
      BY <1>1, <3>1 DEF Manager
    <3>3. tabs' = [tabs EXCEPT ![t] = c]
      BY <2>1 DEF Receive
    <3> QED BY <3>2, <3>3
  <2>2. CASE msg.type = "replaced"
    <3> DEFINE c == [tabs[t] EXCEPT !.replaced = TRUE, !.status = "replaced"]
    <3>2. c \in Manager /\ c.ws = tabs[t].ws
      BY <1>1 DEF Manager
    <3>3. tabs' = [tabs EXCEPT ![t] = c]
      BY <1>1, <2>2 DEF Receive
    <3> QED BY <3>2, <3>3
  <2> QED BY <1>2, <2>1, <2>2 DEF DownMessage
<1>5. EndsTyped' /\ EndsAgree'
  BY <1>0, <1>3, <1>4, OneSocketKeeps
<1> QED BY <1>0, <1>5, TabKeeps

\* A tool ends: the result that is sent is of a call that ran.
LEMMA CallDoneInv == ASSUME BridgeInv, NEW t \in Tab, NEW i \in Call, CallDone(t, i)
                     PROVE  BridgeInv'
<1> USE DEF BridgeInv, EndsTyped, EndsAgree
<1> DEFINE k == tabs[t].ws
           c == [tabs[t] EXCEPT !.running = @ \ {i}]
           result == [type |-> "result", call |-> i]
<1>0. /\ UNCHANGED <<hub, callVars>> /\ ran' = ran \cup {i} /\ i \in Asked
      /\ Asked' = Asked
  BY DEF CallDone, callVars, Asked, Manager
<1>1. c \in Manager /\ c.ws = k /\ tabs' = [tabs EXCEPT ![t] = c]
  BY DEF CallDone, Manager
<1>2. conns \in [Socket -> Connection'] /\ tabs' \in [Tab -> Manager']
  BY <1>0, <1>1, TypesWiden DEF Socket
<1>3. /\ conns' \in [Socket -> Connection']
      /\ \A j \in Socket : conns'[j].end = conns[j].end
  <2>1. CASE conns' = conns
    BY <1>2, <2>1
  <2>2. CASE k # None /\ conns' = [conns EXCEPT ![k].up = Append(@, result)]
    <3> DEFINE e == [conns[k] EXCEPT !.up = Append(@, result)]
    <3>1. k \in Socket
      BY <2>2 DEF Manager
    <3>2. result \in UpMessage'
      BY <1>0 DEF UpMessage
    <3>3. conns[k].up \in Seq(UpMessage')
      BY <1>2, <3>1 DEF Connection
    <3>4. Append(conns[k].up, result) \in Seq(UpMessage')
      BY <3>2, <3>3
    <3>5. e \in Connection' /\ e.end = conns[k].end
      BY <1>2, <3>1, <3>4 DEF Connection
    <3> QED BY <1>2, <2>2, <3>1, <3>5
  <2> QED BY <2>1, <2>2 DEF CallDone
<1>4. EndsTyped'
  BY <1>2, <1>3 DEF Socket
<1>5. EndsAgree'
  BY <1>1, <1>3, SocketParts DEF InUse, Own
<1>6. CallsTyped' /\ HubTyped' /\ PendingIsKept'
  BY <1>0 DEF CallsTyped, HubTyped, PendingIsKept, callVars, Asked
<1> QED BY <1>4, <1>5, <1>6

-----------------------------------------------------------------------------
(***************************************************************************)
(* The hub. It leaves the tabs alone and closes no socket at their end.    *)
(***************************************************************************)
LEMMA HubKeeps ==
  ASSUME BridgeInv, UNCHANGED <<tabs, ran>>, Asked \subseteq Asked',
         conns' \in [Socket -> Connection'], \A k \in Socket : conns'[k].end = conns[k].end,
         CallsTyped', HubTyped', PendingIsKept'
  PROVE  BridgeInv'
<1>1. EndsTyped'
  BY TypesWiden DEF BridgeInv, EndsTyped, Socket
<1>2. EndsAgree'
  BY DEF BridgeInv, EndsAgree, InUse, Own
<1> QED BY <1>1, <1>2 DEF BridgeInv

\* The same for a step that asks nothing new.
LEMMA HubKeepsTypes ==
  ASSUME BridgeInv, UNCHANGED <<tabs, ran>>, Asked' = Asked,
         conns' \in [Socket -> Connection], \A k \in Socket : conns'[k].end = conns[k].end,
         CallsTyped', HubTyped', PendingIsKept'
  PROVE  BridgeInv'
<1>1. conns' \in [Socket -> Connection']
  BY TypesWiden DEF Socket
<1> QED BY <1>1, HubKeeps

\* Calls that fail all at once: none is waited for any more.
LEMMA RejectAllFacts ==
  ASSUME BridgeInv, RejectAll, UNCHANGED <<addressee, ran>>
  PROVE  Asked' = Asked /\ CallsTyped' /\ PendingIsKept'
<1>1. /\ outcome' \in [Call -> {"none", "pending", "answered", "failed"}] /\ pending' = {}
      /\ \A i \in Call : /\ outcome'[i] # "pending"
                         /\ outcome'[i] = "none" <=> outcome[i] = "none"
  BY DEF RejectAll, BridgeInv, CallsTyped, PendingIsKept
<1>2. Asked' = Asked
  BY <1>1 DEF Asked
<1> QED BY <1>1, <1>2 DEF BridgeInv, CallsTyped, PendingIsKept

\* A socket the hub lets go of is a socket, as open at its other end as it was.
LEMMA TerminatedFacts ==
  ASSUME BridgeInv, NEW k \in Socket
  PROVE  /\ Terminated(conns, k) \in [Socket -> Connection]
         /\ \A j \in Socket : Terminated(conns, k)[j].end = conns[j].end
<1> DEFINE e == [conns[k] EXCEPT !.served = FALSE, !.up = <<>>]
<1>1. <<>> \in Seq(UpMessage) /\ conns[k] \in Connection /\ conns \in [Socket -> Connection]
  BY DEF BridgeInv, EndsTyped
<1>2. e \in Connection /\ e.end = conns[k].end
  BY <1>1 DEF Connection
<1>3. Terminated(conns, k) = [conns EXCEPT ![k] = e]
  BY DEF Terminated
<1> QED BY <1>1, <1>2, <1>3

\* So is one it sends to.
LEMMA SentFacts ==
  ASSUME NEW cs \in [Socket -> Connection], NEW k \in Socket, NEW msg \in DownMessage
  PROVE  /\ Sent(cs, k, msg) \in [Socket -> Connection]
         /\ \A j \in Socket : Sent(cs, k, msg)[j].end = cs[j].end
<1> DEFINE e == [cs[k] EXCEPT !.down = Append(@, msg)]
<1>1. cs[k] \in Connection /\ cs[k].down \in Seq(DownMessage)
  BY DEF Connection
<1>2. Append(cs[k].down, msg) \in Seq(DownMessage)
  BY <1>1
<1>3. e \in Connection /\ e.end = cs[k].end
  BY <1>1, <1>2 DEF Connection
<1>4. Sent(cs, k, msg) = [cs EXCEPT ![k] = e] \/ Sent(cs, k, msg) = cs
  BY DEF Sent
<1> HIDE DEF e
<1> QED BY <1>3, <1>4

\* A greeting makes its socket the hub's, and fails what the old tab was asked.
LEMMA HelloInv ==
  ASSUME BridgeInv, NEW k \in Socket, NEW cs \in [Socket -> Connection],
         \A j \in Socket : cs[j].end = conns[j].end, Hello(k, cs), UNCHANGED <<addressee, tabs, ran>>
  PROVE  BridgeInv'
<1>1. HubTyped' /\ hub'.ws = k
  BY DEF Hello, HubTyped
<1>2. CASE hub.ws \notin {None, k}
  <2> DEFINE replaced == [type |-> "replaced"]
             sent == Sent(cs, hub.ws, replaced)
             shut == [sent[hub.ws] EXCEPT !.shut = TRUE]
             evicted == [sent EXCEPT ![hub.ws] = shut]
             greeted == [evicted[k] EXCEPT !.greeted = TRUE]
  <2>1. hub.ws \in Socket /\ replaced \in DownMessage
    BY <1>2 DEF BridgeInv, HubTyped, DownMessage
  <2>2. sent \in [Socket -> Connection] /\ \A j \in Socket : sent[j].end = conns[j].end
    BY <2>1, SentFacts
  <2> HIDE DEF sent
  <2>3. shut \in Connection /\ shut.end = sent[hub.ws].end
    <3>1. sent[hub.ws] \in Connection
      BY <2>1, <2>2
    <3> QED BY <3>1 DEF Connection
  <2> HIDE DEF shut
  <2>4. evicted \in [Socket -> Connection] /\ \A j \in Socket : evicted[j].end = conns[j].end
    BY <2>1, <2>2, <2>3
  <2>5. evicted = Evicted(cs, hub.ws)
    BY DEF Evicted, sent, shut
  <2> HIDE DEF evicted
  <2>6. greeted \in Connection /\ greeted.end = evicted[k].end
    BY <2>4 DEF Connection
  <2> HIDE DEF greeted
  <2>7. RejectAll /\ conns' = [evicted EXCEPT ![k] = greeted]
    BY <1>2, <2>5 DEF Hello, greeted
  <2>8. conns' \in [Socket -> Connection] /\ \A j \in Socket : conns'[j].end = conns[j].end
    BY <2>4, <2>6, <2>7
  <2> QED BY <1>1, <2>7, <2>8, RejectAllFacts, HubKeepsTypes
<1>3. CASE hub.ws \in {None, k}
  <2> DEFINE greeted == [cs[k] EXCEPT !.greeted = TRUE]
  <2>1. greeted \in Connection /\ greeted.end = conns[k].end
    BY DEF Connection
  <2>2. UNCHANGED <<pending, outcome>> /\ conns' = [cs EXCEPT ![k] = greeted]
    BY <1>3 DEF Hello
  <2> HIDE DEF greeted
  <2>3. conns' \in [Socket -> Connection] /\ \A j \in Socket : conns'[j].end = conns[j].end
    BY <2>1, <2>2
  <2>4. PendingIsKept'
    BY <1>1, <1>3, <2>2 DEF BridgeInv, PendingIsKept
  <2>5. CallsTyped' /\ Asked' = Asked
    BY <2>2 DEF BridgeInv, CallsTyped, Asked
  <2> QED BY <1>1, <2>3, <2>4, <2>5, HubKeepsTypes
<1> QED BY <1>2, <1>3

\* The hub takes a message: a greeting, or a result, which ends the waiting.
LEMMA OnMessageInv == ASSUME BridgeInv, NEW k \in Socket, OnMessage(k) PROVE BridgeInv'
<1> DEFINE msg == Head(conns[k].up)
           e == [conns[k] EXCEPT !.up = Tail(@)]
           cs == [conns EXCEPT ![k] = e]
<1>1. conns \in [Socket -> Connection] /\ conns[k] \in Connection
  BY DEF BridgeInv, EndsTyped
<1>2. msg \in UpMessage /\ Tail(conns[k].up) \in Seq(UpMessage)
  <2>1. conns[k].up \in Seq(UpMessage) /\ conns[k].up # <<>>
    BY <1>1 DEF OnMessage, Connection
  <2> QED BY <2>1, QueueShrinks
<1>3. e \in Connection /\ e.end = conns[k].end
  BY <1>1, <1>2 DEF Connection
<1>4. cs \in [Socket -> Connection] /\ \A j \in Socket : cs[j].end = conns[j].end
  <2> HIDE DEF e
  <2> QED BY <1>1, <1>3
<1>5. UNCHANGED <<addressee, tabs, ran>>
  BY DEF OnMessage
<1>6. CASE msg.type = "hello"
  <2>1. Hello(k, cs)
    BY <1>6 DEF OnMessage
  <2> HIDE DEF cs
  <2> QED BY <1>4, <1>5, <2>1, HelloInv
<1>7. CASE msg.type = "result"
  <2>1. Result(k, msg.call, cs)
    BY <1>7 DEF OnMessage
  <2> HIDE DEF cs
  <2>2. HubTyped' /\ conns' = cs /\ UNCHANGED hub
    BY <2>1 DEF Result, BridgeInv, HubTyped
  <2>3. CallsTyped' /\ PendingIsKept' /\ Asked' = Asked
    <3>1. CASE UNCHANGED <<pending, outcome>>
      BY <1>5, <2>2, <3>1 DEF BridgeInv, CallsTyped, PendingIsKept, Asked
    <3>2. CASE /\ msg.call \in pending /\ pending' = pending \ {msg.call}
               /\ outcome' = [outcome EXCEPT ![msg.call] = "answered"]
      <4> DEFINE i == msg.call
      <4>1. i \in Call /\ outcome[i] = "pending"
        BY <3>2 DEF BridgeInv, CallsTyped, PendingIsKept
      <4> HIDE DEF i
      <4>2. \A j \in Call : outcome'[j] = IF j = i THEN "answered" ELSE outcome[j]
        BY <3>2, <4>1 DEF BridgeInv, CallsTyped, i
      <4>3. CallsTyped' /\ Asked' = Asked
        BY <1>5, <3>2, <4>1, <4>2 DEF BridgeInv, CallsTyped, Asked, i
      <4>4. PendingIsKept'
        BY <1>5, <2>2, <3>2, <4>1, <4>2 DEF BridgeInv, PendingIsKept, i
      <4> QED BY <4>3, <4>4
    <3> QED BY <2>1, <3>1, <3>2 DEF Result, Awaited
  <2> QED BY <1>4, <1>5, <2>2, <2>3, HubKeepsTypes
<1> QED BY <1>2, <1>6, <1>7 DEF UpMessage

\* A socket that closed takes its calls along, if it was the tab's.
LEMMA OnSocketCloseInv == ASSUME BridgeInv, NEW k \in Socket, OnSocketClose(k) PROVE BridgeInv'
<1>1. conns' \in [Socket -> Connection] /\ \A j \in Socket : conns'[j].end = conns[j].end
  BY TerminatedFacts DEF OnSocketClose
<1>2. UNCHANGED <<addressee, tabs, ran>>
  BY DEF OnSocketClose
<1>3. CASE hub.ws = k
  <2>1. RejectAll /\ hub' = NoTab
    BY <1>3 DEF OnSocketClose
  <2>2. HubTyped'
    BY <2>1 DEF HubTyped, NoTab
  <2> QED BY <1>1, <1>2, <2>1, <2>2, RejectAllFacts, HubKeepsTypes
<1>4. CASE hub.ws # k
  <2>1. UNCHANGED <<hub, pending, outcome>>
    BY <1>4 DEF OnSocketClose
  <2>2. HubTyped' /\ CallsTyped' /\ PendingIsKept' /\ Asked' = Asked
    BY <1>2, <2>1 DEF BridgeInv, HubTyped, CallsTyped, PendingIsKept, Asked
  <2> QED BY <1>1, <1>2, <2>2, HubKeepsTypes
<1> QED BY <1>3, <1>4

\* A socket that never said hello is let go of.
LEMMA HelloDeadlineInv == ASSUME BridgeInv, NEW k \in Socket, HelloDeadline(k) PROVE BridgeInv'
<1>1. conns' \in [Socket -> Connection] /\ \A j \in Socket : conns'[j].end = conns[j].end
  BY TerminatedFacts DEF HelloDeadline
<1>2. UNCHANGED <<hub, callVars, tabs, ran>>
  BY DEF HelloDeadline
<1>3. HubTyped' /\ CallsTyped' /\ PendingIsKept' /\ Asked' = Asked
  BY <1>2 DEF BridgeInv, HubTyped, CallsTyped, PendingIsKept, Asked, callVars
<1> QED BY <1>1, <1>2, <1>3, HubKeepsTypes

\* A call is refused, or sent to the tab that is there.
LEMMA AskInv == ASSUME BridgeInv, NEW i \in Call, Ask(i) PROVE BridgeInv'
<1>1. UNCHANGED <<hub, tabs, ran>> /\ outcome[i] = "none"
  BY DEF Ask
<1>2. HubTyped'
  BY <1>1 DEF BridgeInv, HubTyped
<1>3. conns \in [Socket -> Connection]
  BY DEF BridgeInv, EndsTyped
<1>4. CASE hub.ws = None
  <2>1. outcome' = [outcome EXCEPT ![i] = "failed"] /\ UNCHANGED <<pending, addressee, conns>>
    BY <1>4 DEF Ask
  <2>2. /\ outcome' \in [Call -> {"none", "pending", "answered", "failed"}]
        /\ \A j \in Call : outcome'[j] = IF j = i THEN "failed" ELSE outcome[j]
    BY <2>1 DEF BridgeInv, CallsTyped
  <2>3. Asked \subseteq Asked'
    BY <2>2 DEF Asked
  <2>4. CallsTyped'
    BY <1>1, <2>1, <2>2, <2>3 DEF BridgeInv, CallsTyped
  <2>5. PendingIsKept'
    BY <1>1, <2>1, <2>2 DEF BridgeInv, PendingIsKept
  <2>6. conns' \in [Socket -> Connection'] /\ \A k \in Socket : conns'[k].end = conns[k].end
    BY <1>1, <1>3, <2>1, <2>3, TypesWiden DEF Socket
  <2> QED BY <1>1, <1>2, <2>3, <2>4, <2>5, <2>6, HubKeeps
<1>5. CASE hub.ws # None
  <2> DEFINE msg == [type |-> "call", call |-> i]
             k == hub.ws
             e == [conns[k] EXCEPT !.down = Append(@, msg)]
  <2>1. /\ outcome' = [outcome EXCEPT ![i] = "pending"] /\ pending' = pending \cup {i}
        /\ addressee' = [addressee EXCEPT ![i] = k[1]] /\ conns' = Sent(conns, k, msg)
    BY <1>5 DEF Ask
  <2>2. /\ outcome' \in [Call -> {"none", "pending", "answered", "failed"}]
        /\ \A j \in Call : outcome'[j] = IF j = i THEN "pending" ELSE outcome[j]
    BY <2>1 DEF BridgeInv, CallsTyped
  <2>3. Asked \subseteq Asked' /\ i \in Asked'
    BY <2>2 DEF Asked
  <2>4. CallsTyped'
    <3>1. k[1] \in Tab
      BY <1>5, SocketParts DEF BridgeInv, HubTyped
    <3>2. addressee' \in [Call -> Tab \cup {None}]
      BY <2>1, <3>1 DEF BridgeInv, CallsTyped
    <3> QED BY <1>1, <2>1, <2>2, <2>3, <3>2 DEF BridgeInv, CallsTyped
  <2>5. PendingIsKept'
    <3>1. pending' = {j \in Call : outcome'[j] = "pending"}
      BY <2>1, <2>2 DEF BridgeInv, PendingIsKept
    <3>2. \A j \in pending' : hub'.ws # None /\ hub'.ws[1] = addressee'[j]
      BY <1>1, <1>5, <2>1 DEF BridgeInv, CallsTyped, PendingIsKept
    <3> QED BY <3>1, <3>2 DEF PendingIsKept
  <2>6. k \in Socket /\ msg \in DownMessage'
    BY <1>5, <2>3 DEF BridgeInv, HubTyped, DownMessage
  <2>7. conns \in [Socket -> Connection']
    BY <1>1, <1>3, <2>3, TypesWiden DEF Socket
  <2>8. e \in Connection' /\ e.end = conns[k].end
    <3>1. conns[k] \in Connection'
      BY <2>6, <2>7
    <3>2. conns[k].down \in Seq(DownMessage')
      BY <3>1 DEF Connection
    <3>3. Append(conns[k].down, msg) \in Seq(DownMessage')
      BY <2>6, <3>2
    <3> QED BY <3>1, <3>3 DEF Connection
  <2>9. conns' = [conns EXCEPT ![k] = e] \/ conns' = conns
    BY <2>1 DEF Sent
  <2> HIDE DEF e, msg, k
  <2>10. conns' \in [Socket -> Connection'] /\ \A j \in Socket : conns'[j].end = conns[j].end
    BY <2>6, <2>7, <2>8, <2>9
  <2> QED BY <1>1, <1>2, <2>3, <2>4, <2>5, <2>10, HubKeeps
<1> QED BY <1>4, <1>5

\* A call that is not answered in time fails, and is waited for no more.
LEMMA CallTimesOutInv == ASSUME BridgeInv, NEW i \in Call, CallTimesOut(i) PROVE BridgeInv'
<1>1. /\ i \in pending /\ pending' = pending \ {i}
      /\ outcome' = [outcome EXCEPT ![i] = "failed"]
      /\ UNCHANGED <<hub, addressee, conns, tabs, ran>>
  BY DEF CallTimesOut
<1>2. /\ outcome[i] = "pending"
      /\ outcome' \in [Call -> {"none", "pending", "answered", "failed"}]
      /\ \A j \in Call : outcome'[j] = IF j = i THEN "failed" ELSE outcome[j]
  BY <1>1 DEF BridgeInv, CallsTyped, PendingIsKept
<1>3. Asked' = Asked
  BY <1>2 DEF Asked
<1>4. CallsTyped' /\ HubTyped'
  BY <1>1, <1>2, <1>3 DEF BridgeInv, CallsTyped, HubTyped
<1>5. PendingIsKept'
  BY <1>1, <1>2 DEF BridgeInv, PendingIsKept
<1>6. conns' \in [Socket -> Connection]
  BY <1>1 DEF BridgeInv, EndsTyped
<1> QED BY <1>1, <1>3, <1>4, <1>5, <1>6, HubKeepsTypes

\* Pings and pongs: a tab is kept, or given up with what it was asked.
LEMMA PingInv == ASSUME BridgeInv, Pong \/ Heartbeat PROVE BridgeInv'
<1>1. conns \in [Socket -> Connection] /\ UNCHANGED <<addressee, tabs, ran>>
  BY DEF BridgeInv, EndsTyped, Pong, Heartbeat, callVars
<1>2. CASE /\ UNCHANGED <<pending, outcome, conns>>
           /\ \E a \in BOOLEAN, n \in 0..1 : hub' = [hub EXCEPT !.alive = a, !.missedPings = n]
  <2>1. HubTyped' /\ hub'.ws = hub.ws
    BY <1>2 DEF BridgeInv, HubTyped
  <2>2. CallsTyped' /\ PendingIsKept' /\ Asked' = Asked
    BY <1>1, <1>2, <2>1 DEF BridgeInv, CallsTyped, PendingIsKept, Asked
  <2> QED BY <1>1, <1>2, <2>1, <2>2, HubKeepsTypes
<1>3. CASE hub.ws # None /\ conns' = Terminated(conns, hub.ws) /\ hub' = NoTab /\ RejectAll
  <2>1. HubTyped'
    BY <1>3 DEF HubTyped, NoTab
  <2>2. hub.ws \in Socket
    BY <1>3 DEF BridgeInv, HubTyped
  <2> QED BY <1>1, <1>3, <2>1, <2>2, TerminatedFacts, RejectAllFacts, HubKeepsTypes
<1>4. Pong => /\ UNCHANGED <<pending, outcome, conns>>
              /\ \E a \in BOOLEAN, n \in 0..1 : hub' = [hub EXCEPT !.alive = a, !.missedPings = n]
  <2>1. 0 \in 0..1 /\ TRUE \in BOOLEAN
    OBVIOUS
  <2>2. Pong => /\ UNCHANGED <<pending, outcome, conns>>
                /\ hub' = [hub EXCEPT !.alive = TRUE, !.missedPings = 0]
    BY DEF Pong, callVars
  <2> QED BY <2>1, <2>2, Zenon
<1>5. ASSUME Heartbeat PROVE BridgeInv'
  <2>1. hub.missedPings \in 0..1
    BY DEF BridgeInv, HubTyped
  <2>2. CASE ~hub.alive /\ GivenUp(hub.missedPings)
    BY <1>3, <1>5, <2>2 DEF Heartbeat
  <2>3. CASE ~hub.alive /\ ~GivenUp(hub.missedPings)
    <3>1. hub' = [hub EXCEPT !.alive = FALSE, !.missedPings = hub.missedPings + 1]
      BY <1>5, <2>3 DEF Heartbeat
    <3>2. hub.missedPings + 1 \in 0..1
      BY <2>1, <2>3 DEF GivenUp
    <3>3. UNCHANGED <<pending, outcome, conns>>
      BY <1>5, <2>3 DEF Heartbeat
    <3> QED BY <1>2, <3>1, <3>2, <3>3
  <2>4. CASE hub.alive
    <3>1. hub' = [hub EXCEPT !.alive = FALSE, !.missedPings = hub.missedPings]
      BY <1>5, <2>4 DEF Heartbeat
    <3>2. UNCHANGED <<pending, outcome, conns>>
      BY <1>5, <2>4 DEF Heartbeat
    <3> QED BY <1>2, <2>1, <3>1, <3>2
  <2> QED BY <2>2, <2>3, <2>4
<1> QED BY <1>2, <1>4, <1>5

\* A hub that stops takes its ends of all sockets along, and the calls.
LEMMA StopInv == ASSUME BridgeInv, Stop PROVE BridgeInv'
<1>1. /\ RejectAll /\ hub' = NoTab /\ UNCHANGED <<addressee, tabs, ran>>
      /\ conns' = [k \in Socket |-> [conns[k] EXCEPT !.served = FALSE, !.up = <<>>]]
  BY DEF Stop
<1>2. ASSUME NEW k \in Socket
      PROVE  conns'[k] \in Connection /\ conns'[k].end = conns[k].end
  <2>1. conns[k] \in Connection /\ <<>> \in Seq(UpMessage)
    BY DEF BridgeInv, EndsTyped
  <2>2. conns'[k] = [conns[k] EXCEPT !.served = FALSE, !.up = <<>>]
    BY <1>1
  <2> QED BY <2>1, <2>2 DEF Connection
<1>3. conns' \in [Socket -> Connection] /\ \A k \in Socket : conns'[k].end = conns[k].end
  <2>1. DOMAIN conns' = Socket /\ conns' = [k \in Socket |-> conns'[k]]
    BY <1>1
  <2> QED BY <1>2, <2>1
<1>4. HubTyped'
  <2>1. hub' = NoTab
    BY <1>1
  <2> QED BY <2>1 DEF HubTyped, NoTab
<1> QED BY <1>1, <1>3, <1>4, RejectAllFacts, HubKeepsTypes

-----------------------------------------------------------------------------
(***************************************************************************)
(* The whole.                                                              *)
(***************************************************************************)
\* Nobody is connected and nothing was asked.
LEMMA InitInv == Init => BridgeInv
<1> SUFFICES ASSUME Init PROVE BridgeInv
  OBVIOUS
<1>1. CallsTyped /\ HubTyped /\ PendingIsKept
  BY DEF Init, CallsTyped, HubTyped, PendingIsKept, NoTab, Asked
<1>2. Gone \in Connection /\ Gone.end = "closed"
  <2>1. <<>> \in Seq(UpMessage) /\ <<>> \in Seq(DownMessage)
    OBVIOUS
  <2> QED BY <2>1 DEF Gone, Connection
<1>3. Loaded(FALSE) \in Manager /\ Loaded(FALSE).ws = None
  BY DEF Loaded, Manager
<1>4. conns = [k \in Socket |-> Gone] /\ tabs = [t \in Tab |-> Loaded(FALSE)]
  BY DEF Init
<1>5. EndsTyped /\ EndsAgree
  BY <1>2, <1>3, <1>4 DEF EndsTyped, EndsAgree, Own, InUse
<1> QED BY <1>1, <1>5 DEF BridgeInv

\* No step breaks it.
LEMMA NextInv == BridgeInv /\ [Next]_vars => BridgeInv'
<1> SUFFICES ASSUME BridgeInv, [Next]_vars PROVE BridgeInv'
  OBVIOUS
<1>1. ASSUME UNCHANGED vars PROVE BridgeInv'
  BY <1>1 DEF BridgeInv, vars, callVars, CallsTyped, HubTyped, EndsTyped, EndsAgree, InUse,
              PendingIsKept, Asked, Connection, Manager, UpMessage, DownMessage
<1>2. ASSUME NEW t \in Tab, SwitchOn(t) \/ SwitchOff(t) \/ OtherPref(t) \/ Reload(t) PROVE BridgeInv'
  BY <1>2, SwitchOnInv, SwitchOffInv, ReloadInv
<1>3. ASSUME NEW t \in Tab, TabStep(t) PROVE BridgeInv'
  BY <1>3, SwitchOnInv, CallDoneInv DEF TabStep
<1>4. ASSUME NEW k \in Socket, SocketStep(k) PROVE BridgeInv'
  BY <1>4, OpenedInv, OnCloseInv, ReceiveInv, OnMessageInv, OnSocketCloseInv DEF SocketStep
<1>5. ASSUME HubStep PROVE BridgeInv'
  BY <1>5, PingInv, CallTimesOutInv, HelloDeadlineInv DEF HubStep
<1>6. ASSUME Start PROVE BridgeInv'
  BY <1>6 DEF Start, BridgeInv, callVars, CallsTyped, HubTyped, EndsTyped, EndsAgree, InUse,
              PendingIsKept, Asked, Connection, Manager, UpMessage, DownMessage
<1>7. ASSUME User PROVE BridgeInv'
  BY <1>2, <1>6, <1>7, AskInv, StopInv DEF User
<1> QED BY <1>1, <1>3, <1>4, <1>5, <1>7 DEF Next

\* For any tabs and calls, and any number of reloads, toggles, stops and lost
\* pings: the messages on the way are of calls that were asked, a result only of
\* one whose tool ran (bridge.ts:139), and no socket is open or opening but the
\* one its tab has in use (bridge.ts:64).
THEOREM BridgeInvariant == Spec => []BridgeInv
BY InitInv, NextInv, PTL DEF Spec

\* The hub's picture of its tab is right: it waits for exactly the open calls,
\* each of the tab that is there (hub.ts:251), and an open socket it calls is the
\* one the tab listens on.
THEOREM BridgeHubIsRight == Spec => []HubIsRight
<1>1. BridgeInv => HubIsRight
  <2> SUFFICES ASSUME BridgeInv PROVE HubIsRight
    OBVIOUS
  <2>1. hub.ws \in Socket \cup {None} /\ hub.missedPings \in 0..1
    BY DEF BridgeInv, HubTyped
  <2>2. \A k \in Socket : conns[k].end \in {"connecting", "open", "closing", "closed"}
    BY DEF BridgeInv, EndsTyped, Connection
  <2>3. ASSUME NEW t \in Tab
        PROVE  /\ tabs[t].ws \in {None} \cup ({t} \X {1, 2})
               /\ tabs[t].status \in {"off", "waiting", "connected", "replaced"}
               /\ tabs[t].running \subseteq Call
    <3>1. tabs[t] \in Manager /\ Own(t, tabs[t])
      BY DEF BridgeInv, EndsTyped, EndsAgree
    <3> QED BY <3>1 DEF Manager, Own, Asked
  <2>4. TypeOK
    BY <2>1, <2>2, <2>3 DEF TypeOK, BridgeInv, CallsTyped
  <2>5. HubSocketInUse
    BY <2>1 DEF HubSocketInUse, BridgeInv, EndsAgree, InUse
  <2> QED BY <2>4, <2>5 DEF HubIsRight, BridgeInv
<1> QED BY <1>1, BridgeInvariant, PTL

-----------------------------------------------------------------------------
(***************************************************************************)
(* The bridge implements CallPromise: each of its steps asks, runs,        *)
(* answers or fails calls, or is none of the agent's business.             *)
(***************************************************************************)
Kept == [Promise!Next]_<<outcome, ran>>

\* Calls that are waited for, and fail together.
LEMMA RejectAllKeeps == ASSUME BridgeInv, RejectAll, UNCHANGED ran PROVE Kept
<1>1. pending \in SUBSET Call /\ \A i \in pending : outcome[i] \in {"none", "pending"}
  BY DEF BridgeInv, CallsTyped, PendingIsKept
<1>2. Promise!Fail(pending)
  BY <1>1 DEF RejectAll, Promise!Fail
<1> QED BY <1>1, <1>2 DEF Kept, Promise!Next

\* One call that fails.
LEMMA OneFails ==
  ASSUME BridgeInv, NEW i \in Call, outcome[i] \in {"none", "pending"},
         outcome' = [outcome EXCEPT ![i] = "failed"], UNCHANGED ran
  PROVE  Kept
<1>1. outcome' = [j \in Call |-> IF j \in {i} THEN "failed" ELSE outcome[j]]
  BY DEF BridgeInv, CallsTyped
<1>2. Promise!Fail({i})
  BY <1>1 DEF Promise!Fail
<1>3. {i} \in SUBSET Call
  OBVIOUS
<1> QED BY <1>2, <1>3 DEF Kept, Promise!Next

\* A call that is asked.
LEMMA AskKeeps == ASSUME BridgeInv, NEW i \in Call, Ask(i) PROVE Kept
<1>1. outcome[i] = "none" /\ UNCHANGED ran
  BY DEF Ask
<1>2. CASE hub.ws = None
  BY <1>1, <1>2, OneFails DEF Ask
<1>3. CASE hub.ws # None
  <2>1. Promise!Ask(i)
    BY <1>1, <1>3 DEF Ask, Promise!Ask
  <2> QED BY <2>1 DEF Kept, Promise!Next
<1> QED BY <1>2, <1>3

\* A tool that ends, of a call that was asked.
LEMMA CallDoneKeeps == ASSUME BridgeInv, NEW t \in Tab, NEW i \in Call, CallDone(t, i) PROVE Kept
<1>1. ran' = ran \cup {i} /\ UNCHANGED outcome
  BY DEF CallDone, callVars
<1>2. outcome[i] # "none"
  <2>1. tabs[t] \in Manager
    BY DEF BridgeInv, EndsTyped
  <2> QED BY <2>1 DEF CallDone, Manager, Asked
<1>3. CASE i \in ran
  <2>1. ran' = ran
    BY <1>1, <1>3
  <2> QED BY <1>1, <2>1 DEF Kept
<1>4. CASE i \notin ran
  <2>1. Promise!Run(i)
    BY <1>1, <1>2, <1>4 DEF Promise!Run
  <2> QED BY <2>1 DEF Kept, Promise!Next
<1> QED BY <1>3, <1>4

\* A message: the result of a call whose tool ran answers it, if it is waited for.
LEMMA OnMessageKeeps == ASSUME BridgeInv, NEW k \in Socket, OnMessage(k) PROVE Kept
<1> DEFINE msg == Head(conns[k].up)
           cs == [conns EXCEPT ![k].up = Tail(@)]
<1>1. msg \in UpMessage
  <2>1. conns[k] \in Connection
    BY DEF BridgeInv, EndsTyped
  <2>2. conns[k].up \in Seq(UpMessage) /\ conns[k].up # <<>>
    BY <2>1 DEF OnMessage, Connection
  <2> QED BY <2>2, QueueShrinks
<1>2. UNCHANGED ran
  BY DEF OnMessage
<1>3. CASE msg.type = "hello"
  <2>1. Hello(k, cs)
    BY <1>3 DEF OnMessage
  <2>2. RejectAll \/ UNCHANGED outcome
    BY <2>1 DEF Hello
  <2> QED BY <1>2, <2>2, RejectAllKeeps DEF Kept
<1>4. CASE msg.type = "result"
  <2>1. Result(k, msg.call, cs) /\ msg.call \in ran
    BY <1>1, <1>4 DEF OnMessage, UpMessage
  <2>2. CASE msg.call \in pending /\ outcome' = [outcome EXCEPT ![msg.call] = "answered"]
    <3>1. msg.call \in Call /\ outcome[msg.call] = "pending"
      BY <2>2 DEF BridgeInv, CallsTyped, PendingIsKept
    <3>2. Promise!Answer(msg.call)
      BY <1>2, <2>1, <2>2, <3>1 DEF Promise!Answer
    <3> QED BY <3>1, <3>2 DEF Kept, Promise!Next
  <2>3. CASE UNCHANGED outcome
    BY <1>2, <2>3 DEF Kept
  <2> QED BY <2>1, <2>2, <2>3 DEF Result, Awaited
<1> QED BY <1>1, <1>3, <1>4 DEF UpMessage

\* So every step keeps the promise.
LEMMA NextKeeps == BridgeInv /\ [Next]_vars => Kept
<1> SUFFICES ASSUME BridgeInv, [Next]_vars PROVE Kept
  OBVIOUS
<1>0. UNCHANGED <<outcome, ran>> => Kept
  BY DEF Kept
<1>1. CASE UNCHANGED vars
  BY <1>0, <1>1 DEF vars, callVars
<1>2. ASSUME NEW t \in Tab, SwitchOn(t) \/ SwitchOff(t) \/ OtherPref(t) \/ Reload(t) \/ TimerFires(t)
      PROVE  Kept
  BY <1>0, <1>2 DEF SwitchOn, SwitchOff, OtherPref, Reload, TimerFires, callVars
<1>3. ASSUME NEW t \in Tab, TabStep(t) PROVE Kept
  BY <1>2, <1>3, CallDoneKeeps DEF TabStep
<1>4. ASSUME NEW k \in Socket, OnSocketClose(k) PROVE Kept
  BY <1>0, <1>4, RejectAllKeeps DEF OnSocketClose
<1>5. ASSUME NEW k \in Socket, SocketStep(k) PROVE Kept
  <2>1. ASSUME Opened(k) \/ OnClose(k) \/ Receive(k) PROVE Kept
    BY <1>0, <2>1 DEF Opened, OnClose, Receive, callVars
  <2> QED BY <1>4, <1>5, <2>1, OnMessageKeeps DEF SocketStep
<1>6. ASSUME NEW i \in Call, CallTimesOut(i) PROVE Kept
  <2>1. outcome[i] = "pending" /\ outcome' = [outcome EXCEPT ![i] = "failed"] /\ UNCHANGED ran
    BY <1>6 DEF CallTimesOut, BridgeInv, PendingIsKept
  <2> QED BY <2>1, OneFails
<1>7. ASSUME HubStep PROVE Kept
  <2>1. ASSUME Pong PROVE Kept
    BY <1>0, <2>1 DEF Pong, callVars
  <2>2. ASSUME Heartbeat PROVE Kept
    BY <1>0, <2>2, RejectAllKeeps DEF Heartbeat
  <2>3. ASSUME NEW k \in Socket, HelloDeadline(k) PROVE Kept
    BY <1>0, <2>3 DEF HelloDeadline, callVars
  <2> QED BY <1>6, <1>7, <2>1, <2>2, <2>3 DEF HubStep
<1>8. ASSUME User PROVE Kept
  <2>1. ASSUME Stop PROVE Kept
    BY <2>1, RejectAllKeeps DEF Stop
  <2>2. ASSUME Start PROVE Kept
    BY <1>0, <2>2 DEF Start, callVars
  <2> QED BY <1>2, <1>8, <2>1, <2>2, AskKeeps DEF User
<1> QED BY <1>1, <1>3, <1>5, <1>7, <1>8 DEF Next

\* A call is answered at most once and only after its tool ran (hub.ts:181), or
\* fails once, whatever tabs, sockets and the hub do in between.
THEOREM BridgeImplementsPromise == Spec => Promise!Spec
<1>1. Init => Promise!Init
  BY DEF Init, Promise!Init
<1>2. BridgeInv /\ [Next]_vars => [Promise!Next]_<<outcome, ran>>
  BY NextKeeps DEF Kept
<1> QED BY <1>1, <1>2, BridgeInvariant, PTL DEF Spec, Promise!Spec

=============================================================================
