---------------------------- MODULE DeviceTransfer ----------------------------
(***************************************************************************)
(* Moving everything from one device to another with a one-time code: the  *)
(* hook useTransfer in each app (client/src/transfer/useTransfer.ts) and   *)
(* the relay between them (server/src/relay.ts, transfer.ts, codeStore.ts). *)
(*                                                                         *)
(* The sender cuts a snapshot into chunks and sends one per acknowledgment; *)
(* the relay forwards and stores nothing. Exporting and hashing, verifying *)
(* and writing happen in the background of the hook, and a socket tells    *)
(* that it closed some time after it was closed.                           *)
(*                                                                         *)
(* Chunk i of snapshot s is the pair <<s, i>>; the hash of a snapshot is   *)
(* the snapshot. Left out: codes drawn twice, the rate limit of the relay, *)
(* and frames only a client other than this app would send.                *)
(***************************************************************************)
EXTENDS Naturals, Sequences, FiniteSets

CONSTANTS
  Device,       \* the devices, one open "Your data" screen each
  Sender,       \* those whose user starts sending
  Receiver,     \* those whose user enters a code
  MaxChunks,    \* bound: MAX_TRANSFER_CHUNKS
  MaxPerIp,     \* transfers an address may have open
  Lossy,        \* whether sockets break, sessions time out and screens are left
  Failing,      \* whether an export is too large or fails, and a write fails
  Hasty,        \* whether a user starts over while an export or a check goes on
  LateClose,    \* whether a closed socket's event comes after the next connect
  MaxSockets,   \* bound: sockets opened in a behaviour
  MaxCodes      \* bound: codes issued in a behaviour

ASSUME TransferAssumption ==
  /\ Sender \subseteq Device /\ Receiver \subseteq Device
  /\ {Lossy, Failing, Hasty, LateClose} \subseteq BOOLEAN
  /\ {MaxChunks, MaxPerIp, MaxSockets, MaxCodes} \subseteq Nat \ {0}

VARIABLES
  transfers,  \* [the live codes -> the sockets of the two sides]
  ipCounts,   \* [Device -> the transfers its address has open]
  issued,     \* how many codes were issued
  conns,      \* the sockets opened so far, a sequence
  hook,       \* [Device -> what the hook holds]
  shown,      \* the codes a screen has shown
  exporting,  \* [Device -> the transfers it is taking its snapshot for]
  verifying,  \* [Device -> the arrived payloads it is checking]
  writing,    \* [Device -> the replacements of its data under way: the payload,
              \* and whether the hook that began it is still there to be told]
  written,    \* [Device -> the payloads its data was replaced by, a sequence]
  taken,      \* history: [Device -> the snapshots taken of it]
  acked       \* history: the chunks some device acknowledged

relayVars == <<transfers, ipCounts, issued>>
dataVars == <<writing, written>>
vars == <<relayVars, conns, hook, shown, exporting, verifying, dataVars, taken, acked>>

-----------------------------------------------------------------------------
Code == 1..MaxCodes
Snapshot == [from : Device, code : Code, size : 1..MaxChunks]
Cut(s) == [i \in 1..s.size |-> <<s, i>>]
Payload == {Cut(s) : s \in Snapshot}

NoChunk == <<>>
NoRecv == [sha |-> NoChunk, chunks |-> <<>>]
Complete(r) == r # NoRecv /\ \A i \in DOMAIN r.chunks : r.chunks[i] # NoChunk

Idle == [status |-> "idle", ws |-> 0, code |-> 0, chunks |-> <<>>,
         recv |-> NoRecv, payload |-> <<>>, quiet |-> FALSE]

InFlight == {"connecting", "waiting", "transferring"}

Init ==
  /\ transfers = <<>> /\ ipCounts = [d \in Device |-> 0] /\ issued = 0
  /\ conns = <<>> /\ hook = [d \in Device |-> Idle] /\ shown = {}
  /\ exporting = [d \in Device |-> {}] /\ verifying = [d \in Device |-> {}]
  /\ writing = [d \in Device |-> {}] /\ written = [d \in Device |-> <<>>]
  /\ taken = [d \in Device |-> {}] /\ acked = {}

Msg(type, code) == [type |-> type, code |-> code]
Begin(code, s) == [type |-> "begin", code |-> code, sha |-> s]
Chunk(code, chunk) == [type |-> "chunk", code |-> code, chunk |-> chunk]
Ack(code, seq) == [type |-> "ack", code |-> code, seq |-> seq]

-----------------------------------------------------------------------------
(***************************************************************************)
(* The relay.                                                              *)
(***************************************************************************)
\* A send to a socket that is not open goes nowhere; 0 is no socket.
Sent(cs, k, msg) == IF k # 0 /\ cs[k].end = "open" /\ cs[k].served
                    THEN [cs EXCEPT ![k].down = Append(@, msg)] ELSE cs

Unreleased(ip) == ipCounts                                        \* mutation
Released(ip) == [ipCounts EXCEPT ![ip] = @ - 1]

\* remove, and what onRemove tells both sides.
RemoveCode(c, cs) ==
  IF c \in DOMAIN transfers
  THEN LET t == transfers[c]
       IN  /\ transfers' = [e \in DOMAIN transfers \ {c} |-> transfers[e]]
           /\ ipCounts' = Released(conns[t.sender].by)
           /\ conns' = Sent(Sent(cs, t.sender, Msg("cancelled", c)), t.receiver, Msg("cancelled", c))
  ELSE conns' = cs /\ UNCHANGED <<transfers, ipCounts>>

NewCode == issued + 1

HandleCreate(k, cs) ==
  LET ip == conns[k].by
      c == NewCode
  IN  \/ /\ ipCounts[ip] < MaxPerIp
         /\ issued' = c
         /\ transfers' = [e \in DOMAIN transfers \cup {c} |->
                            IF e = c THEN [sender |-> k, receiver |-> 0] ELSE transfers[e]]
         /\ ipCounts' = [ipCounts EXCEPT ![ip] = @ + 1]
         /\ conns' = Sent([cs EXCEPT ![k].code = c, ![k].role = "sender"], k, Msg("created", c))
      \/ /\ ipCounts[ip] >= MaxPerIp
         /\ conns' = Sent(cs, k, Msg("error", 0))
         /\ UNCHANGED relayVars

\* Only the first device to join gets the transfer.
MayJoin(c) == c \in DOMAIN transfers /\ transfers[c].receiver = 0

HandleJoin(k, c, cs) ==
  \/ /\ MayJoin(c)
     /\ transfers' = [transfers EXCEPT ![c].receiver = k]
     /\ conns' = Sent(Sent([cs EXCEPT ![k].code = c, ![k].role = "receiver"], k, Msg("joined", c)),
                      transfers[c].sender, Msg("peer_joined", c))
     /\ UNCHANGED <<ipCounts, issued>>
  \/ /\ ~MayJoin(c)
     /\ conns' = Sent(cs, k, Msg("error", 0))
     /\ UNCHANGED relayVars

\* Everything else is forwarded to the other side, if it comes from the right
\* one of a transfer that is still there.
Mine(k, c) == c \in DOMAIN transfers /\ conns[k].code = c
Forward(k, msg, cs) ==
  /\ conns' = IF Mine(k, msg.code) /\ conns[k].role = (IF msg.type = "ack" THEN "receiver" ELSE "sender")
              THEN Sent(cs, IF msg.type = "ack" THEN transfers[msg.code].sender
                                                ELSE transfers[msg.code].receiver, msg)
              ELSE Sent(cs, k, Msg("error", 0))
  /\ UNCHANGED relayVars

Handle(k) ==
  LET msg == Head(conns[k].up)
      cs == [conns EXCEPT ![k].up = Tail(@)]
  IN  /\ conns[k].served /\ conns[k].up # <<>>
      /\ CASE msg.type = "create" -> HandleCreate(k, cs)
           [] msg.type = "join"   -> HandleJoin(k, msg.code, cs)
           [] OTHER               -> Forward(k, msg, cs)
      /\ UNCHANGED <<hook, shown, exporting, verifying, dataVars, taken, acked>>

\* The relay sees a socket closed, by the client or by its heartbeat.
Close(k) ==
  /\ conns[k].served
  /\ Lossy \/ (conns[k].end # "open" /\ conns[k].up = <<>>)
  /\ RemoveCode(conns[k].code, [conns EXCEPT ![k].served = FALSE, ![k].up = <<>>])
  /\ UNCHANGED <<issued, hook, shown, exporting, verifying, dataVars, taken, acked>>

\* ttlMs after it was created.
Expire(c) ==
  /\ Lossy /\ c \in DOMAIN transfers
  /\ RemoveCode(c, conns)
  /\ UNCHANGED <<issued, hook, shown, exporting, verifying, dataVars, taken, acked>>

-----------------------------------------------------------------------------
(***************************************************************************)
(* The hook.                                                               *)
(***************************************************************************)
\* closeSocket. Nothing is delivered on a socket after it was closed.
HungUp(cs, k) ==
  IF k = 0 \/ cs[k].end # "open" THEN cs
  ELSE [cs EXCEPT ![k].end = IF LateClose THEN "closing" ELSE "closed", ![k].down = <<>>]
Quiet(h) == [h EXCEPT !.ws = 0, !.quiet = TRUE]
Failed(h) == [Quiet(h) EXCEPT !.status = "error"]

\* post: on the socket the hook has now.
Posted(cs, k, msgs) == IF k # 0 /\ cs[k].end = "open" /\ cs[k].served
                       THEN [cs EXCEPT ![k].up = @ \o msgs] ELSE cs

Connect(d, msg, code) ==
  /\ hook[d].status = "idle" /\ Len(conns) < MaxSockets
  /\ conns' = Append(conns, [by |-> d, up |-> <<msg>>, down |-> <<>>, end |-> "open",
                             served |-> TRUE, code |-> 0, role |-> "none"])
  /\ hook' = [hook EXCEPT ![d].status = "connecting", ![d].ws = Len(conns) + 1,
                          ![d].quiet = FALSE, ![d].code = code]
  /\ UNCHANGED <<relayVars, shown, exporting, verifying, dataVars, taken, acked>>

\* (MaxCodes counts the codes still being asked for.)
Asked == {k \in DOMAIN conns : conns[k].up # <<>> /\ Head(conns[k].up).type = "create"}
StartSend(d) == d \in Sender /\ issued + Cardinality(Asked) < MaxCodes
                /\ Connect(d, Msg("create", 0), hook[d].code)
StartReceive(d, c) == d \in Receiver /\ c \in shown /\ Connect(d, Msg("join", c), c)

Cleared(h) == [Idle EXCEPT !.quiet = TRUE]

\* "Cancel", "Done", "Start over": offered everywhere but while connecting and
\* applying.
Reset(d) ==
  /\ hook[d].status \notin {"idle", "connecting", "applying"}
  /\ Hasty \/ (exporting[d] = {} /\ verifying[d] = {})
  /\ conns' = HungUp(conns, hook[d].ws)
  /\ hook' = [hook EXCEPT ![d] = Cleared(@)]
  /\ UNCHANGED <<relayVars, shown, exporting, verifying, dataVars, taken, acked>>


\* The screen is left, or the tab closed: the next one starts from nothing.
\* Only a write under way may still come to its end.
Dropped(work, d) == [work EXCEPT ![d] = {}]
Leave(d) ==
  /\ Lossy /\ hook[d].status # "idle"
  /\ conns' = [k \in DOMAIN conns |->
                 IF conns[k].by = d THEN [conns[k] EXCEPT !.end = "closed", !.down = <<>>]
                                    ELSE conns[k]]
  /\ hook' = [hook EXCEPT ![d] = Idle]
  /\ exporting' = Dropped(exporting, d)
  /\ verifying' = Dropped(verifying, d)
  /\ \/ writing' = [writing EXCEPT ![d] = {[w EXCEPT !.told = FALSE] : w \in @}]
     \/ writing' = [writing EXCEPT ![d] = {}]
  /\ UNCHANGED <<relayVars, shown, written, taken, acked>>

\* socket.onclose, of whichever socket it is.
Silent(d) == hook[d].quiet \/ Complete(hook[d].recv) \/ hook[d].status \notin InFlight
OnClose(k) ==
  LET d == conns[k].by
  IN  /\ \/ conns[k].end = "closing"
         \/ conns[k].end = "open" /\ (Lossy \/ ~conns[k].served)
      /\ conns' = [conns EXCEPT ![k].end = "closed", ![k].down = <<>>]
      /\ hook' = IF Silent(d) THEN hook ELSE [hook EXCEPT ![d].status = "error"]
      /\ UNCHANGED <<relayVars, shown, exporting, verifying, dataVars, taken, acked>>

\* onMessage. Each handler says what becomes of the sockets cs, from which the
\* message is gone, and of the hook.
Got(d, type) == hook[d].ws # 0 /\ conns[hook[d].ws].down # <<>>
                /\ Head(conns[hook[d].ws].down).type = type
Message(d) == Head(conns[hook[d].ws].down)
Read(d) == [conns EXCEPT ![hook[d].ws].down = Tail(@)]

OnCreated(d) ==
  /\ Got(d, "created")
  /\ conns' = Read(d)
  /\ hook' = [hook EXCEPT ![d].code = Message(d).code, ![d].status = "waiting"]
  /\ shown' = shown \cup {Message(d).code}
  /\ UNCHANGED <<relayVars, exporting, verifying, dataVars, taken, acked>>

\* The snapshot is taken in the background.
OnPeerJoined(d) ==
  /\ Got(d, "peer_joined")
  /\ conns' = Read(d)
  /\ hook' = [hook EXCEPT ![d].status = "transferring"]
  /\ exporting' = [exporting EXCEPT ![d] = @ \cup {Message(d).code}]
  /\ UNCHANGED <<relayVars, shown, verifying, dataVars, taken, acked>>

OnJoined(d) ==
  /\ Got(d, "joined")
  /\ conns' = Read(d)
  /\ hook' = [hook EXCEPT ![d].status = "transferring"]
  /\ UNCHANGED <<relayVars, shown, exporting, verifying, dataVars, taken, acked>>

\* The next chunk, or the end of it. (Next chunks count from 1: the seq of the
\* code is one less.)
FollowingEarly(seq) == seq + 2                                    \* mutation
Following(seq) == seq + 1
OnAck(d) ==
  LET h == hook[d]
      next == Following(Message(d).seq)
  IN  /\ Got(d, "ack")
      /\ CASE h.chunks = <<>> \/ h.code = 0 ->
                conns' = Read(d) /\ UNCHANGED hook
           [] h.chunks # <<>> /\ h.code # 0 /\ next <= Len(h.chunks) ->
                /\ conns' = Posted(Read(d), h.ws, <<Chunk(h.code, h.chunks[next])>>)
                /\ UNCHANGED hook
           [] OTHER ->
                /\ conns' = HungUp(Read(d), h.ws)
                /\ hook' = [hook EXCEPT ![d] = [Quiet(h) EXCEPT !.status = "sent"]]
      /\ UNCHANGED <<relayVars, shown, exporting, verifying, dataVars, taken, acked>>

\* A new payload begins: whatever came of an earlier one is dropped.
Empty(s) == [sha |-> s, chunks |-> [i \in 1..s.size |-> NoChunk]]
OnBegin(d) ==
  /\ Got(d, "begin")
  /\ conns' = Read(d)
  /\ hook' = [hook EXCEPT ![d].recv = Empty(Message(d).sha)]
  /\ UNCHANGED <<relayVars, shown, exporting, verifying, dataVars, taken, acked>>

\* A chunk is kept and acknowledged; with the last one the check begins.
OnChunk(d) ==
  LET h == hook[d]
      i == Message(d).chunk[2]
      r == [h.recv EXCEPT !.chunks[i] = IF @ = NoChunk THEN Message(d).chunk ELSE @]
  IN  /\ Got(d, "chunk")
      /\ \/ /\ h.recv = NoRecv \/ i \notin DOMAIN h.recv.chunks
            /\ conns' = Read(d)
            /\ UNCHANGED <<hook, verifying, acked>>
         \/ /\ h.recv # NoRecv /\ i \in DOMAIN h.recv.chunks
            /\ conns' = Posted(Read(d), h.ws, <<Ack(h.code, i)>>)
            /\ hook' = [hook EXCEPT ![d].recv = r]
            /\ verifying' = IF Complete(r) THEN [verifying EXCEPT ![d] = @ \cup {r}]
                                           ELSE verifying
            /\ acked' = acked \cup {Message(d).chunk}
      /\ UNCHANGED <<relayVars, shown, exporting, dataVars, taken>>

\* The other side is gone, which no longer matters once all chunks are here.
Fatal(h) == h.status \in InFlight                                 \* mutation
Matters(h) == ~Complete(h.recv) /\ h.status \in InFlight
OnCancelled(d) ==
  /\ Got(d, "cancelled")
  /\ IF Matters(hook[d])
     THEN /\ conns' = HungUp(Read(d), hook[d].ws)
          /\ hook' = [hook EXCEPT ![d] = Failed(@)]
     ELSE conns' = Read(d) /\ UNCHANGED hook
  /\ UNCHANGED <<relayVars, shown, exporting, verifying, dataVars, taken, acked>>

OnError(d) ==
  /\ Got(d, "error")
  /\ conns' = HungUp(Read(d), hook[d].ws)
  /\ hook' = [hook EXCEPT ![d] = Failed(@)]
  /\ UNCHANGED <<relayVars, shown, exporting, verifying, dataVars, taken, acked>>

Receive(d) == \/ OnCreated(d) \/ OnPeerJoined(d) \/ OnJoined(d) \/ OnAck(d) \/ OnBegin(d)
              \/ OnChunk(d) \/ OnCancelled(d) \/ OnError(d)

-----------------------------------------------------------------------------
(***************************************************************************)
(* What goes on in the background. It ends in the hook as it is by then.   *)
(***************************************************************************)
\* The snapshot is there: it replaces what acknowledgments draw from, and its
\* first chunk goes out under the code, and on the socket, of that moment. A
\* socket that is still connecting may not take it.
Flood(code, s) == <<Begin(code, s)>> \o [i \in 1..s.size |-> Chunk(code, <<s, i>>)]  \* mutation
Opening(code, s) == <<Begin(code, s), Chunk(code, <<s, 1>>)>>
ExportDone(d, c, n, open) ==
  LET s == [from |-> d, code |-> c, size |-> n]
      h == hook[d]
  IN  /\ open \/ h.status = "connecting"
      /\ c \in exporting[d]
      /\ exporting' = [exporting EXCEPT ![d] = @ \ {c}]
      /\ taken' = [taken EXCEPT ![d] = @ \cup {Cut(s)}]
      /\ hook' = [hook EXCEPT ![d].chunks = Cut(s)]
      /\ conns' = IF h.code # 0 /\ open
                  THEN Posted(conns, h.ws, Opening(h.code, s))
                  ELSE conns
      /\ UNCHANGED <<relayVars, shown, verifying, dataVars, acked>>

\* More than MaxChunks, or the data cannot be read.
ExportFails(d, c) ==
  /\ Failing /\ c \in exporting[d]
  /\ exporting' = [exporting EXCEPT ![d] = @ \ {c}]
  /\ conns' = HungUp(conns, hook[d].ws)
  /\ hook' = [hook EXCEPT ![d] = Failed(@)]
  /\ UNCHANGED <<relayVars, shown, verifying, dataVars, taken, acked>>

\* Joined, hashed and sanitized: up for review, or not what was announced.
VerifyDone(d, r) ==
  /\ r \in verifying[d]
  /\ verifying' = [verifying EXCEPT ![d] = @ \ {r}]
  /\ conns' = HungUp(conns, hook[d].ws)
  /\ hook' = [hook EXCEPT ![d] = IF r.chunks = Cut(r.sha)
                                 THEN [Quiet(@) EXCEPT !.status = "review", !.payload = r.chunks]
                                 ELSE Failed(@)]
  /\ UNCHANGED <<relayVars, shown, exporting, dataVars, taken, acked>>

\* "Replace my data".
Apply(d) ==
  /\ hook[d].status = "review"
  /\ hook' = [hook EXCEPT ![d].status = "applying"]
  /\ writing' = [writing EXCEPT ![d] = @ \cup {[payload |-> hook[d].payload, told |-> TRUE]}]
  /\ UNCHANGED <<relayVars, conns, shown, exporting, verifying, written, taken, acked>>

\* The write is one transaction: everything, or nothing and an error.
PartStays(d, w) == [written EXCEPT ![d] = Append(@, <<Head(w.payload)>>)]  \* mutation
RolledBack(d, w) == written
WriteDone(d, w) ==
  /\ w \in writing[d]
  /\ writing' = [writing EXCEPT ![d] = @ \ {w}]
  /\ \/ /\ written' = [written EXCEPT ![d] = Append(@, w.payload)]
        /\ hook' = IF w.told THEN [hook EXCEPT ![d].status = "done"] ELSE hook
        /\ UNCHANGED conns
     \/ /\ Failing
        /\ hook' = IF w.told THEN [hook EXCEPT ![d] = Failed(@)] ELSE hook
        /\ conns' = IF w.told THEN HungUp(conns, hook[d].ws) ELSE conns
        /\ written' = RolledBack(d, w)
  /\ UNCHANGED <<relayVars, shown, exporting, verifying, taken, acked>>

-----------------------------------------------------------------------------
Background(d) ==
  \/ \E c \in Code : \/ \E n \in 1..MaxChunks, open \in BOOLEAN : ExportDone(d, c, n, open)
                     \/ ExportFails(d, c)
  \/ \E r \in verifying[d] : VerifyDone(d, r)
  \/ \E w \in writing[d] : WriteDone(d, w)
User(d) == \/ StartSend(d) \/ Reset(d) \/ Leave(d) \/ Apply(d)
           \/ \E c \in Code : StartReceive(d, c)

Next ==
  \/ \E d \in Device : Receive(d) \/ Background(d) \/ User(d)
  \/ \E k \in DOMAIN conns : Handle(k) \/ Close(k) \/ OnClose(k)
  \/ \E c \in Code : Expire(c)

Spec == Init /\ [][Next]_vars

\* Messages arrive and are answered, work in the background comes to an end
\* and a socket closed at one end closes at the other. No user has to do
\* anything, and nothing has to break.
Reaped(k) == \/ conns[k].end # "open" /\ Close(k)
             \/ (conns[k].end = "closing" \/ ~conns[k].served) /\ OnClose(k)
System == \/ \E d \in Device : Receive(d) \/ Background(d)
          \/ \E k \in DOMAIN conns : Handle(k) \/ Reaped(k)
LiveSpec == Spec /\ WF_vars(System)

-----------------------------------------------------------------------------
(***************************************************************************)
(* Properties.                                                             *)
(***************************************************************************)
TypeOK ==
  /\ DOMAIN transfers \subseteq 1..issued /\ issued <= MaxCodes
  /\ \A c \in DOMAIN transfers : /\ transfers[c].sender \in DOMAIN conns
                                 /\ transfers[c].receiver \in DOMAIN conns \cup {0}
  /\ \A k \in DOMAIN conns : /\ conns[k].end \in {"open", "closing", "closed"}
                             /\ conns[k].code \in 0..issued
                             /\ conns[k].role \in {"none", "sender", "receiver"}
  /\ \A d \in Device : /\ hook[d].ws \in 0..Len(conns) /\ hook[d].code \in 0..issued
                       /\ {hook[d].chunks, hook[d].payload} \subseteq Payload \cup {<<>>}
                       /\ exporting[d] \subseteq 1..issued /\ writing[d] \subseteq [payload : Payload, told : BOOLEAN]
  /\ shown \subseteq 1..issued

\* The counter behind the quota of an address is the number of its transfers,
\* however each of them came to its end: by a leaving sender, a leaving
\* receiver or its time (codeStore.ts:73-82); and the state is well-formed.
QuotaExact ==
  /\ TypeOK
  /\ \A d \in Device :
       ipCounts[d] = Cardinality({c \in DOMAIN transfers : conns[transfers[c].sender].by = d})

\* "Everything sent. Finish the transfer on the other device"
\* (DataTransfer.tsx:94) is only said when everything is there.
SentHasArrived ==
  \A d \in Device : hook[d].status = "sent" =>
    \A i \in DOMAIN hook[d].chunks : hook[d].chunks[i] \in acked

\* What is up for review, and written, came for the code that was entered.
ReviewIsOfCode ==
  \A d \in Device : hook[d].status \in {"review", "applying", "done"} =>
    hook[d].payload[1][1].code = hook[d].code

\* "the sender transmits chunk N+1 only after the receiver acknowledges chunk
\* N" (shared/src/transfer.ts:8).
AckPaced ==
  \A k \in DOMAIN conns : \A i \in DOMAIN conns[k].up :
    conns[k].up[i].type = "chunk" =>
      LET s == conns[k].up[i].chunk[1]
          n == conns[k].up[i].chunk[2]
      IN  n > 1 => <<s, n - 1>> \in acked

\* A transfer between two apps is never found corrupted: whatever overtakes,
\* the chunks that fill one announcement are those of its snapshot.
NeverCorrupted == \A d \in Device : \A r \in verifying[d] : r.chunks = Cut(r.sha)

\* Chunks travel one at a time and fill what they were cut from.
Paced == AckPaced /\ NeverCorrupted

\* A screen that says a transfer failed, or is over, has none going on behind
\* it that may still take the device's data or show a code.
NothingBehind ==
  \A d \in Device : hook[d].status \notin InFlight =>
    \A k \in DOMAIN conns : conns[k].by = d => conns[k].end # "open"

\* What the screens say is so.
ScreenTells == SentHasArrived /\ ReviewIsOfCode /\ NothingBehind

\* A device's data is replaced by one whole snapshot of another, or not at all.
Promise == INSTANCE TransferPromise WITH
             Device <- Device, Snapshot <- Payload, taken <- taken, written <- written
KeepsPromise == Promise!Spec

\* Connecting and transferring end, one way or another; nobody is left before
\* a bar that no longer moves and two devices that both wait. And all that has
\* arrived comes up for review, unless the user turns away: neither a peer that
\* leaves nor a closing socket fails it meanwhile (useTransfer.ts:239-247, :271).
Ends == \A d \in Device :
  hook[d].status \in {"connecting", "transferring"}
    ~> hook[d].status \notin {"connecting", "transferring"}
CompleteIsReviewed == \A d \in Device :
  Complete(hook[d].recv) /\ hook[d].status = "transferring"
    ~> hook[d].status \in {"review", "idle"}
CompleteIsSafe ==
  [][\A d \in Device :
       /\ Complete(hook[d].recv) /\ hook[d].status = "transferring"
       /\ hook'[d].status = "error"
       => Got(d, "error") \/ verifying'[d] # verifying[d]]_vars
Settles == Ends /\ CompleteIsReviewed /\ CompleteIsSafe
=============================================================================
