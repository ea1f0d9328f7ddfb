----------------------------- MODULE AgentBridge -----------------------------
(***************************************************************************)
(* The bridge through which an agent calls tools of the app: the hub       *)
(* (bridge/src/hub.ts), a process that accepts one tab at a time on a      *)
(* loopback socket and relays the calls of its MCP side (mcp.ts), and the  *)
(* connection manager in each tab (client/src/agent/bridge.ts).            *)
(*                                                                         *)
(* A tab has two places for sockets, the one in use and one on its way     *)
(* out, and uses them again, so that tabs may reconnect without end. Left  *)
(* out: the manifest and its sanitizing, frames only another program would *)
(* send, the lengths of delays, and what a tool does.                      *)
(***************************************************************************)
EXTENDS Naturals, Sequences, FiniteSets

CONSTANTS
  Tab,        \* the open tabs
  Call,       \* the calls the agent makes
  Unrelated,  \* whether preferences other than the bridge's change
  MaxActs,    \* bound: toggles, reloads and preference changes
  MaxTroubles \* bound: pings and hellos that are late, and stops of the hub

ASSUME BridgeAssumption ==
  Unrelated \in BOOLEAN /\ {MaxActs, MaxTroubles} \subseteq Nat

VARIABLES
  up,        \* whether the hub runs
  hub,       \* its tab: the socket, whether it answered the last ping, and the
             \* number of pings missed
  pending,   \* the calls the hub waits for
  conns,     \* [Socket -> its two ends and what is on the way]
  tabs,      \* [Tab -> the state of its connection manager]
  outcome,   \* [Call -> what the agent was told]
  addressee, \* history: [Call -> the tab it was sent to, if any]
  ran,       \* history: the calls whose tool ran
  acts, troubles  \* what was used of the bounds

callVars == <<pending, outcome, addressee>>
bounds == <<acts, troubles>>
vars == <<up, hub, callVars, conns, tabs, ran, bounds>>

-----------------------------------------------------------------------------
Socket == Tab \X {1, 2}
None == <<>>
NoTab == [ws |-> None, alive |-> TRUE, missedPings |-> 0]
Gone == [end |-> "closed", served |-> FALSE, shut |-> FALSE, greeted |-> FALSE,
         up |-> <<>>, down |-> <<>>]
Dialing == [Gone EXCEPT !.end = "connecting"]

\* bridge.ts as it is loaded; running are the calls whose tool is at work.
Loaded(on) == [on |-> on, ws |-> None, timer |-> FALSE, replaced |-> FALSE,
               status |-> "off", running |-> {}]

Init ==
  /\ up = TRUE /\ hub = NoTab /\ pending = {}
  /\ conns = [k \in Socket |-> Gone]
  /\ tabs = [t \in Tab |-> Loaded(FALSE)]
  /\ outcome = [i \in Call |-> "none"] /\ addressee = [i \in Call |-> None] /\ ran = {}
  /\ acts = 0 /\ troubles = 0

-----------------------------------------------------------------------------
(***************************************************************************)
(* The tab.                                                                *)
(***************************************************************************)
\* ensureSocket, of a tab whose state is c by now, on the sockets cs.
IsFree(cs, k) == cs[k].end = "closed" /\ ~cs[k].served
Dials(c, cs) == /\ c.on /\ ~c.replaced
                /\ c.ws = None \/ cs[c.ws].end \notin {"connecting", "open"}
EnsureSocket(t, c, cs) ==
  IF Dials(c, cs)
  THEN /\ \E n \in {1, 2} : IsFree(cs, <<t, n>>)
       /\ LET k == <<t, CHOOSE n \in {1, 2} : IsFree(cs, <<t, n>>)>>
          IN  /\ conns' = [cs EXCEPT ![k] = Dialing]
              /\ tabs' = [tabs EXCEPT ![t] = [c EXCEPT !.ws = k, !.status = "waiting"]]
  ELSE conns' = cs /\ tabs' = [tabs EXCEPT ![t] = c]

\* Nothing is delivered on a socket after its close.
HungUp(cs, k) == IF k = None THEN cs
                 ELSE [cs EXCEPT ![k].end = IF @ = "closed" THEN @ ELSE "closing", ![k].down = <<>>]

Acts == acts < MaxActs /\ acts' = acts + 1
Forgiven(c) == [c EXCEPT !.replaced = FALSE]

\* The subscriber of the preferences: the bridge is switched on ...
SwitchOn(t) ==
  /\ Acts /\ ~tabs[t].on
  /\ EnsureSocket(t, Forgiven([tabs[t] EXCEPT !.on = TRUE]), conns)
  /\ UNCHANGED <<up, hub, callVars, ran, troubles>>
\* ... and off ...
SwitchOff(t) ==
  LET c == [tabs[t] EXCEPT !.on = FALSE]
  IN  /\ Acts /\ tabs[t].on
      /\ conns' = HungUp(conns, c.ws)
      /\ tabs' = [tabs EXCEPT ![t] = IF c.ws # None \/ c.timer
                                     THEN [c EXCEPT !.ws = None, !.timer = FALSE, !.status = "off"]
                                     ELSE c]
      /\ UNCHANGED <<up, hub, callVars, ran, troubles>>
\* ... or something else changed, an exchange rate for instance.
OtherPref(t) ==
  /\ Unrelated /\ Acts /\ tabs[t].on
  /\ EnsureSocket(t, Forgiven(tabs[t]), conns)
  /\ UNCHANGED <<up, hub, callVars, ran, troubles>>

\* The tab is loaded again: the preference stays, all else is gone, its tools
\* at work included.
Reload(t) ==
  /\ Acts
  /\ EnsureSocket(t, Loaded(tabs[t].on),
       [k \in Socket |-> IF k[1] = t THEN [conns[k] EXCEPT !.end = "closed", !.down = <<>>]
                                     ELSE conns[k]])
  /\ UNCHANGED <<up, hub, callVars, ran, troubles>>

\* onopen: the first message on every connection is the hello.
Opened(k) ==
  LET t == k[1]
  IN  /\ conns[k].end = "connecting" /\ up
      /\ conns' = [conns EXCEPT ![k].end = "open", ![k].served = TRUE,
                     ![k].up = IF tabs[t].ws = k THEN <<[type |-> "hello"]>> ELSE <<>>]
      /\ tabs' = IF tabs[t].ws = k THEN [tabs EXCEPT ![t].status = "connected"] ELSE tabs
      /\ UNCHANGED <<up, hub, callVars, ran, bounds>>

\* scheduleReconnect.
AfterSuccess(c) == c.on /\ ~c.replaced /\ c.status = "connected"  \* mutation
MayReconnect(c) == c.on /\ ~c.replaced

\* onclose: of the socket in use, any other is not looked at.
Finished(k) ==
  \/ conns[k].end = "closing"
  \/ conns[k].end = "open" /\ (~conns[k].served \/ (conns[k].shut /\ conns[k].down = <<>>))
  \/ conns[k].end = "connecting" /\ ~up
OnClose(k) ==
  LET t == k[1]
      c == [tabs[t] EXCEPT !.ws = None]
  IN  /\ Finished(k)
      /\ conns' = [conns EXCEPT ![k].end = "closed", ![k].down = <<>>]
      /\ tabs' = CASE tabs[t].ws # k -> tabs
                   [] tabs[t].ws = k /\ MayReconnect(c) ->
                        [tabs EXCEPT ![t] = [c EXCEPT !.status = "waiting", !.timer = TRUE]]
                   [] OTHER ->
                        [tabs EXCEPT ![t] = [c EXCEPT !.status = IF c.replaced THEN @ ELSE "off"]]
      /\ UNCHANGED <<up, hub, callVars, ran, bounds>>

TimerFires(t) ==
  /\ tabs[t].timer
  /\ EnsureSocket(t, [tabs[t] EXCEPT !.timer = FALSE], conns)
  /\ UNCHANGED <<up, hub, callVars, ran, bounds>>

\* onMessage: a call begins in the background; a replaced tab stays away.
Receive(k) ==
  LET t == k[1]
      msg == Head(conns[k].down)
  IN  /\ conns[k].end = "open" /\ conns[k].down # <<>>
      /\ conns' = [conns EXCEPT ![k].down = Tail(@)]
      /\ tabs' = CASE msg.type = "call"     -> [tabs EXCEPT ![t].running = @ \cup {msg.call}]
                   [] msg.type = "replaced" -> [tabs EXCEPT ![t].replaced = TRUE,
                                                            ![t].status = "replaced"]
      /\ UNCHANGED <<up, hub, callVars, ran, bounds>>

\* handleCall ends: the result goes out on the socket in use by now, if any.
CallDone(t, i) ==
  LET k == tabs[t].ws
  IN  /\ i \in tabs[t].running
      /\ ran' = ran \cup {i}
      /\ tabs' = [tabs EXCEPT ![t].running = @ \ {i}]
      /\ conns' = IF k # None /\ conns[k].end = "open" /\ conns[k].served
                  THEN [conns EXCEPT ![k].up = Append(@, [type |-> "result", call |-> i])]
                  ELSE conns
      /\ UNCHANGED <<up, hub, callVars, bounds>>

-----------------------------------------------------------------------------
(***************************************************************************)
(* The hub.                                                                *)
(***************************************************************************)
Sent(cs, k, msg) == IF k # None /\ cs[k].served /\ ~cs[k].shut /\ cs[k].end = "open"
                    THEN [cs EXCEPT ![k].down = Append(@, msg)] ELSE cs
Terminated(cs, k) == [cs EXCEPT ![k].served = FALSE, ![k].up = <<>>]

\* dropTab: every call in flight fails.
Forgotten == UNCHANGED <<pending, outcome>>                       \* mutation
RejectAll ==
  /\ outcome' = [i \in Call |-> IF i \in pending THEN "failed" ELSE outcome[i]]
  /\ pending' = {}

\* The newest hello wins; the tab before it is told, closed and dropped.
Unannounced(cs, k) == [cs EXCEPT ![k].shut = TRUE]                \* mutation
Untold(cs, k) == cs                                               \* mutation
Evicted(cs, k) == [Sent(cs, k, [type |-> "replaced"]) EXCEPT ![k].shut = TRUE]
Hello(k, cs) ==
  /\ hub' = [ws |-> k, alive |-> TRUE, missedPings |-> 0]
  /\ IF hub.ws \notin {None, k}
     THEN RejectAll /\ conns' = [Evicted(cs, hub.ws) EXCEPT ![k].greeted = TRUE]
     ELSE UNCHANGED <<pending, outcome>> /\ conns' = [cs EXCEPT ![k].greeted = TRUE]

\* Results count only from the tab, and for a call that is still waited for.
AnyKnown(k, i) == hub.ws = k                                      \* mutation
Awaited(k, i) == hub.ws = k /\ i \in pending
Result(k, i, cs) ==
  /\ conns' = cs
  /\ IF Awaited(k, i)
     THEN pending' = pending \ {i} /\ outcome' = [outcome EXCEPT ![i] = "answered"]
     ELSE UNCHANGED <<pending, outcome>>
  /\ UNCHANGED hub

OnMessage(k) ==
  LET msg == Head(conns[k].up)
      cs == [conns EXCEPT ![k].up = Tail(@)]
  IN  /\ conns[k].served /\ conns[k].up # <<>>
      /\ CASE msg.type = "hello"  -> Hello(k, cs)
           [] msg.type = "result" -> Result(k, msg.call, cs)
      /\ UNCHANGED <<up, addressee, tabs, ran, bounds>>

\* The close event of a socket: only the tab's own drops the tab.
OnSocketClose(k) ==
  /\ conns[k].served /\ conns[k].end \in {"closing", "closed"} /\ conns[k].up = <<>>
  /\ conns' = Terminated(conns, k)
  /\ IF hub.ws = k THEN hub' = NoTab /\ RejectAll ELSE UNCHANGED <<hub, pending, outcome>>
  /\ UNCHANGED <<up, addressee, tabs, ran, bounds>>

\* A socket is dropped whose hello is not there within five seconds.
HelloDeadline(k) ==
  /\ conns[k].served /\ ~conns[k].greeted /\ hub.ws # k
  /\ troubles < MaxTroubles /\ troubles' = troubles + 1
  /\ conns' = Terminated(conns, k)
  /\ UNCHANGED <<up, hub, callVars, tabs, ran, acts>>

\* call: refused without a tab. Otherwise it waits, for the answer or its time.
Ask(i) ==
  /\ up /\ outcome[i] = "none"
  /\ IF hub.ws = None
     THEN outcome' = [outcome EXCEPT ![i] = "failed"] /\ UNCHANGED <<pending, addressee, conns>>
     ELSE /\ outcome' = [outcome EXCEPT ![i] = "pending"]
          /\ pending' = pending \cup {i}
          /\ addressee' = [addressee EXCEPT ![i] = hub.ws[1]]
          /\ conns' = Sent(conns, hub.ws, [type |-> "call", call |-> i])
  /\ UNCHANGED <<up, hub, tabs, ran, bounds>>

CallTimesOut(i) ==
  /\ i \in pending
  /\ pending' = pending \ {i}
  /\ outcome' = [outcome EXCEPT ![i] = "failed"]
  /\ UNCHANGED <<up, hub, addressee, conns, tabs, ran, bounds>>

Pong ==
  /\ hub.ws # None /\ ~hub.alive /\ conns[hub.ws].end = "open"
  /\ hub' = [hub EXCEPT !.alive = TRUE, !.missedPings = 0]
  /\ UNCHANGED <<up, callVars, conns, tabs, ran, bounds>>

\* Every ten seconds: at the second missed ping the tab is given up.
GivenUp(n) == n >= 1
Heartbeat ==
  LET missedOne == ~hub.alive
  IN  /\ hub.ws # None
      /\ missedOne => troubles < MaxTroubles
      /\ troubles' = IF missedOne THEN troubles + 1 ELSE troubles
      /\ IF missedOne /\ GivenUp(hub.missedPings)
         THEN /\ conns' = Terminated(conns, hub.ws)
              /\ hub' = NoTab
              /\ RejectAll
         ELSE /\ hub' = [hub EXCEPT !.alive = FALSE,
                           !.missedPings = IF missedOne THEN @ + 1 ELSE @]
              /\ UNCHANGED <<pending, outcome, conns>>
      /\ UNCHANGED <<up, addressee, tabs, ran, acts>>

\* The hub is a child of the agent's session and comes and goes with it.
Stop ==
  /\ up /\ troubles < MaxTroubles /\ troubles' = troubles + 1
  /\ up' = FALSE /\ hub' = NoTab
  /\ RejectAll
  /\ conns' = [k \in Socket |-> [conns[k] EXCEPT !.served = FALSE, !.up = <<>>]]
  /\ UNCHANGED <<addressee, tabs, ran, acts>>
Start ==
  /\ ~up /\ up' = TRUE
  /\ UNCHANGED <<hub, callVars, conns, tabs, ran, bounds>>

-----------------------------------------------------------------------------
User == \/ \E t \in Tab : SwitchOn(t) \/ SwitchOff(t) \/ OtherPref(t) \/ Reload(t)
        \/ \E i \in Call : Ask(i)
        \/ Stop \/ Start
TabStep(t) == TimerFires(t) \/ (\E i \in Call : CallDone(t, i))
SocketStep(k) == Opened(k) \/ OnClose(k) \/ Receive(k) \/ OnMessage(k) \/ OnSocketClose(k)
HubStep == Pong \/ Heartbeat \/ (\E i \in Call : CallTimesOut(i)) \/ (\E k \in Socket : HelloDeadline(k))
Next == User \/ HubStep \/ (\E t \in Tab : TabStep(t)) \/ (\E k \in Socket : SocketStep(k))

Spec == Init /\ [][Next]_vars

\* Timers go off and what is on the way arrives. Tools may never end, the hub
\* may stay away, and nobody has to do anything.
LiveSpec ==
  /\ Spec
  /\ \A t \in Tab : WF_vars(TimerFires(t) \/ \E n \in {1, 2} : SocketStep(<<t, n>>))
  /\ WF_vars(\E i \in Call : CallTimesOut(i))

-----------------------------------------------------------------------------
(***************************************************************************)
(* Properties.                                                             *)
(***************************************************************************)
TypeOK ==
  /\ hub.ws \in Socket \cup {None} /\ hub.missedPings \in 0..1
  /\ pending \subseteq Call
  /\ \A k \in Socket : conns[k].end \in {"connecting", "open", "closing", "closed"}
  /\ \A t \in Tab : /\ tabs[t].ws \in {None} \cup ({t} \X {1, 2})
                    /\ tabs[t].status \in {"off", "waiting", "connected", "replaced"}
                    /\ tabs[t].running \subseteq Call
  /\ outcome \in [Call -> {"none", "pending", "answered", "failed"}]

\* The hub waits for exactly the calls the agent was told nothing of, and only
\* while the tab they were sent to is there: none outlives its tab, none is
\* waited for twice, and no answer of another tab can settle it.
PendingIsKept ==
  /\ pending = {i \in Call : outcome[i] = "pending"}
  /\ \A i \in pending : hub.ws # None /\ hub.ws[1] = addressee[i]

\* A tab whose socket is the hub's has it in use, or has already hung up: the
\* hub never calls a socket the tab has forgotten while it is still open.
HubSocketInUse ==
  hub.ws # None /\ conns[hub.ws].end = "open" => tabs[hub.ws[1]].ws = hub.ws

\* The hub's picture of its tab is right.
HubIsRight == TypeOK /\ PendingIsKept /\ HubSocketInUse

\* "Another tab took over; this one stays quiet until re-enabled or reloaded"
\* (client/src/agent/status.ts:9). Does not hold: README, section 5.
Toggles(t) == SwitchOn(t) \/ Reload(t)
StaysAway ==
  [][\A t \in Tab : tabs[t].replaced /\ ~tabs'[t].replaced => Toggles(t)]_vars

\* Each call is answered once, after it ran, or fails once; and does so in the
\* end.
Promise == INSTANCE CallPromise WITH Call <- Call, outcome <- outcome, ran <- ran
KeepsPromise == Promise!Spec /\ Promise!Settles

\* A tab that is switched on, and was not replaced, gets through to a hub that
\* runs; and a tab that shows "connected" is the hub's, or learns otherwise.
Connects == \A t \in Tab :
  (up /\ tabs[t].on /\ ~tabs[t].replaced)
    ~> (~up \/ ~tabs[t].on \/ tabs[t].replaced \/ (hub.ws # None /\ hub.ws[1] = t))
ShowsTruth == \A t \in Tab :
  tabs[t].status = "connected"
    ~> (tabs[t].status # "connected" \/ (hub.ws # None /\ hub.ws = tabs[t].ws))

\* "two tabs fighting over one bridge would reconnect-loop forever"
\* (client/src/agent/bridge.ts:74): while the hub is there, connecting ends.
NoFight == <>[]up => <>[](\A k \in Socket : conns[k].end # "connecting")
=============================================================================
