----------------------- MODULE DeviceTransfer_proofs -----------------------
(***************************************************************************)
(* Proofs about moving everything from one device to another, for any      *)
(* devices, chunks, codes and sockets, and every setting of the switches.  *)
(***************************************************************************)
EXTENDS DeviceTransfer, SequenceTheorems, FiniteSetTheorems, TLAPS

Status == InFlight \cup {"idle", "error", "sent", "review", "applying", "done"}
Role == {"none", "sender", "receiver"}
Piece == Snapshot \X (1..MaxChunks)
Frame == [type : {"create", "join", "created", "joined", "peer_joined", "cancelled", "error"},
          code : Nat]
         \cup [type : {"begin"}, code : Nat, sha : Snapshot]
         \cup [type : {"chunk"}, code : Nat, chunk : Piece]
         \cup [type : {"ack"}, code : Nat, seq : Nat]
Conn == [by : Device, up : Seq(Frame), down : Seq(Frame),
         end : {"open", "closing", "closed"}, served : BOOLEAN, code : Nat, role : Role]
Recv == [sha : Snapshot, chunks : UNION {[1..n -> Piece \cup {NoChunk}] : n \in Nat}]
Hook == [status : Status, ws : Nat, code : Nat, chunks : Payload \cup {<<>>},
         recv : Recv \cup {NoRecv}, payload : Payload \cup {<<>>}, quiet : BOOLEAN]
Write == [payload : Payload, told : BOOLEAN]

RelayTypes ==
  /\ issued \in Nat
  /\ transfers \in [DOMAIN transfers -> [sender : Nat, receiver : Nat]]
  /\ DOMAIN transfers \subseteq 1..issued
  /\ ipCounts \in [Device -> Int]
WorkTypes ==
  /\ shown \subseteq 1..issued
  /\ exporting \in [Device -> SUBSET (1..issued)]
  /\ verifying \in [Device -> SUBSET Recv]
  /\ writing \in [Device -> SUBSET Write]
  /\ written \in [Device -> Seq(Payload)]
  /\ taken \in [Device -> SUBSET Payload]
Types == /\ RelayTypes /\ WorkTypes
         /\ conns \in Seq(Conn)
         /\ hook \in [Device -> Hook]

\* Who holds which socket and code.
RelayPlaces ==
  /\ \A c \in DOMAIN transfers : /\ transfers[c].sender \in DOMAIN conns
                                 /\ transfers[c].receiver \in DOMAIN conns \cup {0}
  /\ \A k \in DOMAIN conns : conns[k].code \in 0..issued
HookPlaces(d) ==
  /\ hook[d].ws \in 0..Len(conns) /\ hook[d].code \in 0..issued
  /\ hook[d].ws # 0 => conns[hook[d].ws].by = d
  /\ hook[d].status = "idle" => hook[d].ws = 0 /\ hook[d].recv = NoRecv
  /\ hook[d].status = "review" => hook[d].payload \in Payload
Places == RelayPlaces /\ \A d \in Device : HookPlaces(d)

\* Which of the messages M are in a queue: some, one at most, only its first.
In(q, M) == \E i \in DOMAIN q : q[i] \in M
OnceIn(q, M) == \A i, j \in DOMAIN q : q[i] \in M /\ q[j] \in M => i = j
FirstIn(q, M) == \A i \in DOMAIN q : q[i] \in M => i = 1

Creates == {m \in Frame : m.type = "create"}
Joins == {m \in Frame : m.type = "join"}
Unissued(n) == {m \in Frame : m.type \in {"created", "peer_joined"} /\ m.code \notin 1..n}
Answers == {m \in Frame : m.type \in {"created", "peer_joined"}}
Tells(c) == {m \in Frame : m.type = "peer_joined" /\ m.code = c}
Begins(s) == {m \in Frame : m.type = "begin" /\ m.sha = s}

\* A code is asked for by the first message of a socket, and told of only by the
\* relay and when it was issued.
Letters == \A k \in DOMAIN conns : /\ FirstIn(conns[k].up, Creates)
                                   /\ ~In(conns[k].up, Answers)
                                   /\ ~In(conns[k].down, Unissued(issued))

\* What counts, counts.
OpenOf(d) == {c \in DOMAIN transfers : conns[transfers[c].sender].by = d}
Asking == {k \in DOMAIN conns : In(conns[k].up, Creates)}
Counted == /\ \A d \in Device : ipCounts[d] = Cardinality(OpenOf(d))
           /\ issued + Cardinality(Asking) <= MaxCodes

QuotaInv == Types /\ Places /\ Letters /\ Counted

-----------------------------------------------------------------------------
\* Those who send are not those who receive.
Sides ==
  /\ \A k \in DOMAIN conns :
       /\ conns[k].role = "sender" \/ In(conns[k].up, Creates) => conns[k].by \in Sender
       /\ In(conns[k].up, Joins) => conns[k].by \in Receiver
  /\ \A c \in DOMAIN transfers :
       transfers[c].receiver # 0 => conns[transfers[c].receiver].by \in Receiver

\* A code is joined once: its sender is told once, and takes one snapshot.
Took(c) == \E d \in Device, s \in Snapshot : s.code = c /\ Cut(s) \in taken[d]
Joined(c) == c \in 1..issued /\ (c \in DOMAIN transfers => transfers[c].receiver # 0)
Told(k, c) == In(conns[k].down, Tells(c))
Single(c) ==
  /\ \A k \in DOMAIN conns : Told(k, c) =>
       /\ Joined(c) /\ ~Took(c)
       /\ \A d \in Device : c \notin exporting[d]
       /\ OnceIn(conns[k].down, Tells(c)) /\ \A l \in DOMAIN conns : Told(l, c) => k = l
  /\ \A d \in Device : c \in exporting[d] =>
       Joined(c) /\ ~Took(c) /\ \A e \in Device : c \in exporting[e] => e = d
  /\ Took(c) => Joined(c)
OneSnapshot == \A c \in Nat : Single(c)

\* And each snapshot goes one way: announced once, collected where it came to,
\* checked, reviewed and written; and to another device, when those who send are
\* not those who receive.
Apart == Sender \cap Receiver = {}
Collects(d, s) == hook[d].recv # NoRecv /\ hook[d].recv.sha = s
Checks(d, s) == \E r \in verifying[d] : r.sha = s
Reviews(d, s) == hook[d].status = "review" /\ hook[d].payload = Cut(s)
Puts(d, s) == \E w \in writing[d] : w.payload = Cut(s)
Wrote(d, s) == \E i \in DOMAIN written[d] : written[d][i] = Cut(s)
Past(d, s) == Reviews(d, s) \/ Puts(d, s) \/ Wrote(d, s)
Has(d, s) == Collects(d, s) \/ Checks(d, s) \/ Past(d, s)

Offers(k, s) == In(conns[k].up, Begins(s))
Brings(k, s) == In(conns[k].down, Begins(s))
Announced(s) ==
  /\ \A k \in DOMAIN conns : Offers(k, s) =>
       /\ s.from = conns[k].by /\ OnceIn(conns[k].up, Begins(s))
       /\ \A l \in DOMAIN conns : (Offers(l, s) => k = l) /\ ~Brings(l, s)
  /\ \A k \in DOMAIN conns : Brings(k, s) =>
       /\ Apart => s.from # conns[k].by
       /\ OnceIn(conns[k].down, Begins(s))
       /\ \A l \in DOMAIN conns : Brings(l, s) => k = l
  /\ \A k \in DOMAIN conns : Offers(k, s) \/ Brings(k, s) =>
       Cut(s) \in taken[s.from] /\ \A d \in Device : ~Has(d, s)
Owned(d, s) == Has(d, s) => /\ (Apart => s.from # d) /\ Cut(s) \in taken[s.from]
                            /\ \A e \in Device : Has(e, s) => e = d
InTurn(d, s) ==
  /\ Collects(d, s) /\ Past(d, s) => hook[d].ws = 0
  /\ Checks(d, s) => ~Past(d, s)
  /\ Reviews(d, s) => ~Puts(d, s) /\ ~Wrote(d, s)
  /\ Puts(d, s) => ~Wrote(d, s)
Checked(d) ==
  /\ \A r \in verifying[d] : /\ Complete(r)
                             /\ \A q \in verifying[d] : q.sha = r.sha => q = r
                             /\ Collects(d, r.sha) => hook[d].recv = r
  /\ \A w, v \in writing[d] : w.payload = v.payload => w = v
Orderly(d) == Checked(d) /\ \A s \in Snapshot : InTurn(d, s)
OneWay == /\ \A s \in Snapshot : Announced(s)
          /\ \A d \in Device, s \in Snapshot : Owned(d, s)
          /\ \A d \in Device : Orderly(d)

PromiseInv == Sides /\ OneSnapshot /\ OneWay
-----------------------------------------------------------------------------
(***************************************************************************)
(* What becomes of the messages of interest when a queue changes.          *)
(***************************************************************************)
\* Queue p has none of M that q has not, and at no other place.
Less(q, p, M) == /\ In(p, M) => In(q, M)
                 /\ OnceIn(q, M) => OnceIn(p, M)
                 /\ FirstIn(q, M) => FirstIn(p, M)

LEMMA LessTwice ==
  ASSUME NEW q, NEW p, NEW o, NEW M, Less(q, p, M), Less(p, o, M)
  PROVE  Less(q, o, M)
BY DEF Less

LEMMA LessSame == ASSUME NEW q, NEW M PROVE Less(q, q, M)
BY DEF Less

LEMMA LessEmpty == ASSUME NEW q, NEW M PROVE Less(q, <<>>, M)
<1>1. DOMAIN <<>> = {}
  OBVIOUS
<1> QED
  BY <1>1 DEF Less, In, OnceIn, FirstIn

LEMMA TailFacts ==
  ASSUME NEW q \in Seq(Frame), q # <<>>
  PROVE  /\ Head(q) \in Frame /\ Tail(q) \in Seq(Frame) /\ Head(q) = q[1] /\ 1 \in DOMAIN q
         /\ \A j \in DOMAIN Tail(q) : j \in Nat /\ j # 0 /\ j + 1 \in DOMAIN q /\ Tail(q)[j] = q[j + 1]
<1>1. /\ Head(q) \in Frame /\ Head(q) = q[1]
      /\ Tail(q) \in Seq(Frame) /\ Len(Tail(q)) = Len(q) - 1
      /\ \A j \in 1..Len(Tail(q)) : Tail(q)[j] = q[j + 1]
  BY HeadTailProperties
<1>2. Len(q) \in Nat \ {0} /\ DOMAIN q = 1..Len(q)
  BY EmptySeq, LenProperties
<1>3. DOMAIN Tail(q) = 1..(Len(q) - 1)
  BY <1>1, LenProperties
<1>4. ASSUME NEW n \in Nat \ {0}, NEW j \in 1..(n - 1)
      PROVE  j + 1 \in 1..n /\ j \in Nat /\ j # 0 /\ 1 \in 1..n
  OBVIOUS
<1>5. 1 \in DOMAIN q
  BY <1>2
<1> QED
  BY <1>1, <1>2, <1>3, <1>4, <1>5

LEMMA LessTail ==
  ASSUME NEW q \in Seq(Frame), q # <<>>, NEW M
  PROVE  /\ Less(q, Tail(q), M)
         /\ Head(q) \in M => In(q, M)
         /\ Head(q) \in M /\ OnceIn(q, M) => ~In(Tail(q), M)
         /\ FirstIn(q, M) => ~In(Tail(q), M) /\ (In(q, M) => Head(q) \in M)
<1>1. /\ Head(q) = q[1] /\ 1 \in DOMAIN q
      /\ \A j \in DOMAIN Tail(q) : j \in Nat /\ j # 0 /\ j + 1 \in DOMAIN q /\ Tail(q)[j] = q[j + 1]
  BY TailFacts
<1>2. In(Tail(q), M) => In(q, M)
  BY <1>1 DEF In
<1>3. OnceIn(q, M) => OnceIn(Tail(q), M)
  <2>1. SUFFICES ASSUME OnceIn(q, M), NEW i \in DOMAIN Tail(q), NEW j \in DOMAIN Tail(q),
                        Tail(q)[i] \in M, Tail(q)[j] \in M
                 PROVE  i = j
    BY DEF OnceIn
  <2>2. i + 1 = j + 1
    BY <1>1, <2>1 DEF OnceIn
  <2> QED
    BY <1>1, <2>2
<1>4. FirstIn(q, M) => ~In(Tail(q), M)
  <2>1. SUFFICES ASSUME FirstIn(q, M), NEW j \in DOMAIN Tail(q), Tail(q)[j] \in M
                 PROVE  FALSE
    BY DEF In
  <2>2. j + 1 = 1 /\ j \in Nat /\ j # 0
    BY <1>1, <2>1 DEF FirstIn
  <2> QED
    BY <2>2
<1>5. FirstIn(q, M) => FirstIn(Tail(q), M)
  BY <1>4 DEF FirstIn, In
<1>6. Head(q) \in M => In(q, M)
  BY <1>1 DEF In
<1>7. Head(q) \in M /\ OnceIn(q, M) => ~In(Tail(q), M)
  <2>1. SUFFICES ASSUME q[1] \in M, OnceIn(q, M), NEW j \in DOMAIN Tail(q), Tail(q)[j] \in M
                 PROVE  FALSE
    BY <1>1 DEF In
  <2>2. j + 1 = 1 /\ j \in Nat /\ j # 0
    BY <1>1, <2>1 DEF OnceIn
  <2> QED
    BY <2>2
<1>8. FirstIn(q, M) /\ In(q, M) => Head(q) \in M
  BY <1>1 DEF FirstIn, In
<1> QED
  BY <1>2, <1>3, <1>4, <1>5, <1>6, <1>7, <1>8 DEF Less

\* One message more, at the end.
LEMMA AppendIn ==
  ASSUME NEW q \in Seq(Frame), NEW msg \in Frame, NEW M
  PROVE  /\ Append(q, msg) \in Seq(Frame)
         /\ In(Append(q, msg), M) => In(q, M) \/ msg \in M
         /\ msg \notin M => Less(q, Append(q, msg), M)
         /\ ~In(q, M) => OnceIn(Append(q, msg), M)
<1> DEFINE p == Append(q, msg)
           n == Len(q)
<1>1. /\ p \in Seq(Frame) /\ Len(p) = n + 1 /\ p[n + 1] = msg
      /\ \A i \in 1..n : p[i] = q[i]
  BY AppendProperties
<1>2. n \in Nat /\ DOMAIN q = 1..n /\ DOMAIN p = 1..(n + 1)
  BY <1>1, LenProperties
<1> HIDE DEF p, n
<1>3. \A i \in DOMAIN p : (i \in DOMAIN q /\ p[i] = q[i]) \/ (i = n + 1 /\ p[i] = msg)
  BY <1>1, <1>2
<1>4. In(p, M) => In(q, M) \/ msg \in M
  BY <1>3 DEF In
<1>5. msg \notin M => Less(q, p, M)
  BY <1>3, <1>4 DEF Less, In, OnceIn, FirstIn
<1>6. ~In(q, M) => OnceIn(p, M)
  BY <1>3 DEF In, OnceIn
<1> QED
  BY <1>1, <1>4, <1>5, <1>6 DEF p

LEMMA ConcatIn ==
  ASSUME NEW q \in Seq(Frame), NEW o \in Seq(Frame), NEW M
  PROVE  /\ q \o o \in Seq(Frame)
         /\ In(q \o o, M) => In(q, M) \/ In(o, M)
         /\ ~In(o, M) => Less(q, q \o o, M)
         /\ ~In(q, M) /\ OnceIn(o, M) => OnceIn(q \o o, M)
<1> DEFINE p == q \o o
           n == Len(q)
           m == Len(o)
<1>1. /\ p \in Seq(Frame) /\ Len(p) = n + m
      /\ \A i \in 1..Len(p) : p[i] = IF i <= n THEN q[i] ELSE o[i - n]
  BY ConcatProperties
<1>2. n \in Nat /\ m \in Nat /\ DOMAIN q = 1..n /\ DOMAIN o = 1..m /\ DOMAIN p = 1..(n + m)
  BY <1>1, LenProperties
<1> HIDE DEF p, n, m
<1>3. \A i \in DOMAIN p : i \in Int /\ ((i \in DOMAIN q /\ p[i] = q[i])
                                        \/ (i - n \in DOMAIN o /\ p[i] = o[i - n]))
  BY <1>1, <1>2
<1>4. In(p, M) => In(q, M) \/ In(o, M)
  BY <1>3 DEF In
<1>5. ~In(o, M) => Less(q, p, M)
  BY <1>3, <1>4 DEF Less, In, OnceIn, FirstIn
<1>6. ~In(q, M) /\ OnceIn(o, M) => OnceIn(p, M)
  <2>1. SUFFICES ASSUME ~In(q, M), OnceIn(o, M), NEW i \in DOMAIN p, NEW j \in DOMAIN p,
                        p[i] \in M, p[j] \in M
                 PROVE  i = j
    BY DEF OnceIn
  <2>2. i - n \in DOMAIN o /\ j - n \in DOMAIN o /\ o[i - n] \in M /\ o[j - n] \in M
    BY <1>3, <2>1 DEF In
  <2>3. i - n = j - n /\ i \in Int /\ j \in Int
    BY <1>3, <2>1, <2>2 DEF OnceIn
  <2> QED
    BY <1>2, <2>3
<1> QED
  BY <1>1, <1>4, <1>5, <1>6 DEF p

-----------------------------------------------------------------------------
(***************************************************************************)
(* What becomes of the sockets.                                            *)
(***************************************************************************)
Roles(cs, ds) == \A k \in DOMAIN cs : ds[k].code = cs[k].code /\ ds[k].role = cs[k].role
Kept(cs, ds, M) ==
  /\ ds \in Seq(Conn) /\ Len(ds) = Len(cs) /\ DOMAIN ds = DOMAIN cs
  /\ \A k \in DOMAIN cs : /\ ds[k].by = cs[k].by
                          /\ Less(cs[k].up, ds[k].up, M)
                          /\ Less(cs[k].down, ds[k].down, M)

LEMMA KeptTwice ==
  ASSUME NEW cs, NEW ds, NEW es, NEW M, Kept(cs, ds, M), Kept(ds, es, M)
  PROVE  Kept(cs, es, M)
BY LessTwice DEF Kept

LEMMA KeptSame ==
  ASSUME NEW cs \in Seq(Conn), NEW M PROVE Kept(cs, cs, M) /\ Roles(cs, cs)
BY LessSame DEF Kept, Roles

LEMMA ConnFields ==
  ASSUME NEW cs \in Seq(Conn), NEW k \in DOMAIN cs
  PROVE  /\ cs[k] \in Conn /\ cs[k].up \in Seq(Frame) /\ cs[k].down \in Seq(Frame)
         /\ cs[k].by \in Device /\ cs[k].code \in Nat /\ cs[k].role \in Role
<1>1. DOMAIN cs = 1..Len(cs)
  BY LenProperties
<1>2. cs[k] \in Conn
  BY <1>1, ElementOfSeq
<1> QED
  BY <1>2 DEF Conn

LEMMA Replaced ==
  ASSUME NEW cs \in Seq(Conn), NEW k \in DOMAIN cs, NEW c \in Conn
  PROVE  LET ds == [cs EXCEPT ![k] = c]
         IN  /\ ds \in Seq(Conn) /\ Len(ds) = Len(cs) /\ DOMAIN ds = DOMAIN cs
             /\ ds[k] = c /\ \A i \in DOMAIN cs : i # k => ds[i] = cs[i]
<1>1. DOMAIN cs = 1..Len(cs)
  BY LenProperties
<1> QED
  BY <1>1, ExceptSeq, LenProperties

\* One socket is replaced by another of the same owner.
LEMMA ReplacedKept ==
  ASSUME NEW cs \in Seq(Conn), NEW k \in DOMAIN cs, NEW c \in Conn, c.by = cs[k].by, NEW M,
         Less(cs[k].up, c.up, M), Less(cs[k].down, c.down, M)
  PROVE  Kept(cs, [cs EXCEPT ![k] = c], M)
<1> DEFINE ds == [cs EXCEPT ![k] = c]
<1>1. /\ ds \in Seq(Conn) /\ Len(ds) = Len(cs) /\ DOMAIN ds = DOMAIN cs
      /\ ds[k] = c /\ \A i \in DOMAIN cs : i # k => ds[i] = cs[i]
  BY Replaced
<1> HIDE DEF ds
<1>2. \A i \in DOMAIN cs : /\ ds[i].by = cs[i].by
                           /\ Less(cs[i].up, ds[i].up, M)
                           /\ Less(cs[i].down, ds[i].down, M)
  BY <1>1, LessSame
<1> QED
  BY <1>1, <1>2 DEF Kept, ds

LEMMA ReplacedRoles ==
  ASSUME NEW cs \in Seq(Conn), NEW k \in DOMAIN cs, NEW c \in Conn,
         c.code = cs[k].code, c.role = cs[k].role
  PROVE  Roles(cs, [cs EXCEPT ![k] = c])
BY Replaced DEF Roles

\* A message sent is one more in the one queue, or gone.
LEMMA SentFacts ==
  ASSUME NEW cs \in Seq(Conn), NEW k \in 0..Len(cs), NEW msg \in Frame
  PROVE  /\ Roles(cs, Sent(cs, k, msg))
         /\ \A M : msg \notin M => Kept(cs, Sent(cs, k, msg), M)
         /\ Kept(cs, Sent(cs, k, msg), {})
         /\ \A i \in DOMAIN cs : /\ i # k => Sent(cs, k, msg)[i] = cs[i]
                                 /\ Sent(cs, k, msg)[i].up = cs[i].up
         /\ \A M : /\ k # 0 /\ In(Sent(cs, k, msg)[k].down, M) => In(cs[k].down, M) \/ msg \in M
                   /\ k # 0 /\ ~In(cs[k].down, M) => OnceIn(Sent(cs, k, msg)[k].down, M)
<1>1. CASE k # 0 /\ cs[k].end = "open" /\ cs[k].served
  <2>1. k \in DOMAIN cs
    BY <1>1, LenProperties
  <2>2. cs[k] \in Conn /\ cs[k].down \in Seq(Frame)
    BY <2>1, ConnFields
  <2>3. Append(cs[k].down, msg) \in Seq(Frame)
    BY <2>2, AppendIn
  <2> DEFINE c == [cs[k] EXCEPT !.down = Append(@, msg)]
  <2>4. /\ c \in Conn /\ c.by = cs[k].by /\ c.up = cs[k].up
        /\ c.code = cs[k].code /\ c.role = cs[k].role
        /\ c.down = Append(cs[k].down, msg)
    BY <2>2, <2>3 DEF Conn
  <2>5. Sent(cs, k, msg) = [cs EXCEPT ![k] = c]
    <3>1. cs \in [DOMAIN cs -> Conn]
      BY LenProperties
    <3> QED
      BY <1>1, <2>1, <3>1 DEF Sent
  <2> HIDE DEF c
  <2>6. Roles(cs, Sent(cs, k, msg))
    BY <2>1, <2>4, <2>5, ReplacedRoles
  <2>7. ASSUME NEW M, msg \notin M PROVE Kept(cs, Sent(cs, k, msg), M)
    <3>1. Less(cs[k].up, c.up, M) /\ Less(cs[k].down, c.down, M)
      BY <2>2, <2>4, <2>7, LessSame, AppendIn
    <3> QED
      BY <2>1, <2>4, <2>5, <3>1, ReplacedKept
  <2>8. Sent(cs, k, msg)[k] = c /\ \A i \in DOMAIN cs : i # k => Sent(cs, k, msg)[i] = cs[i]
    BY <2>1, <2>4, <2>5, Replaced
  <2>9. ASSUME NEW M
        PROVE  /\ In(c.down, M) => In(cs[k].down, M) \/ msg \in M
               /\ ~In(cs[k].down, M) => OnceIn(c.down, M)
    BY <2>2, <2>4, AppendIn
  <2>10. Kept(cs, Sent(cs, k, msg), {})
    BY <2>7
  <2> QED
    BY <2>4, <2>6, <2>7, <2>8, <2>9, <2>10
<1>2. CASE ~(k # 0 /\ cs[k].end = "open" /\ cs[k].served)
  <2>1. Sent(cs, k, msg) = cs
    BY <1>2 DEF Sent
  <2> QED
    BY <2>1, KeptSame DEF In, OnceIn
<1> QED
  BY <1>1, <1>2

LEMMA PostedFacts ==
  ASSUME NEW cs \in Seq(Conn), NEW k \in 0..Len(cs), NEW msgs \in Seq(Frame)
  PROVE  /\ Roles(cs, Posted(cs, k, msgs))
         /\ \A M : ~In(msgs, M) => Kept(cs, Posted(cs, k, msgs), M)
         /\ Kept(cs, Posted(cs, k, msgs), {})
         /\ \A i \in DOMAIN cs : /\ i # k => Posted(cs, k, msgs)[i] = cs[i]
                                 /\ Posted(cs, k, msgs)[i].down = cs[i].down
         /\ \A M : k # 0 /\ ~In(cs[k].up, M) /\ OnceIn(msgs, M)
                   => OnceIn(Posted(cs, k, msgs)[k].up, M)
<1>1. CASE k # 0 /\ cs[k].end = "open" /\ cs[k].served
  <2>1. k \in DOMAIN cs
    BY <1>1, LenProperties
  <2>2. cs[k] \in Conn /\ cs[k].up \in Seq(Frame)
    BY <2>1, ConnFields
  <2>3. cs[k].up \o msgs \in Seq(Frame)
    BY <2>2, ConcatIn
  <2> DEFINE c == [cs[k] EXCEPT !.up = @ \o msgs]
  <2>4. /\ c \in Conn /\ c.by = cs[k].by /\ c.down = cs[k].down
        /\ c.code = cs[k].code /\ c.role = cs[k].role
        /\ c.up = cs[k].up \o msgs
    BY <2>2, <2>3 DEF Conn
  <2>5. Posted(cs, k, msgs) = [cs EXCEPT ![k] = c]
    <3>1. cs \in [DOMAIN cs -> Conn]
      BY LenProperties
    <3> QED
      BY <1>1, <2>1, <3>1 DEF Posted
  <2> HIDE DEF c
  <2>6. Roles(cs, Posted(cs, k, msgs))
    BY <2>1, <2>4, <2>5, ReplacedRoles
  <2>7. ASSUME NEW M, ~In(msgs, M) PROVE Kept(cs, Posted(cs, k, msgs), M)
    <3>1. Less(cs[k].up, c.up, M) /\ Less(cs[k].down, c.down, M)
      BY <2>2, <2>4, <2>7, LessSame, ConcatIn
    <3> QED
      BY <2>1, <2>4, <2>5, <3>1, ReplacedKept
  <2>8. Posted(cs, k, msgs)[k] = c /\ \A i \in DOMAIN cs : i # k => Posted(cs, k, msgs)[i] = cs[i]
    BY <2>1, <2>4, <2>5, Replaced
  <2>9. ASSUME NEW M, ~In(cs[k].up, M), OnceIn(msgs, M) PROVE OnceIn(c.up, M)
    BY <2>2, <2>4, <2>9, ConcatIn
  <2>10. Kept(cs, Posted(cs, k, msgs), {})
    BY <2>7 DEF In
  <2> QED
    BY <2>4, <2>6, <2>7, <2>8, <2>9, <2>10
<1>2. CASE ~(k # 0 /\ cs[k].end = "open" /\ cs[k].served)
  <2>1. Posted(cs, k, msgs) = cs
    BY <1>2 DEF Posted
  <2> QED
    BY <2>1, KeptSame DEF In, OnceIn
<1> QED
  BY <1>1, <1>2

\* A socket is hung up, has ended, or is no longer served: messages are gone.
LEMMA FewerKept ==
  ASSUME NEW cs \in Seq(Conn), NEW k \in DOMAIN cs, NEW e \in {"open", "closing", "closed"}, NEW M
  PROVE  /\ Kept(cs, [cs EXCEPT ![k].end = e, ![k].down = <<>>], M)
         /\ Roles(cs, [cs EXCEPT ![k].end = e, ![k].down = <<>>])
         /\ Kept(cs, [cs EXCEPT ![k].served = FALSE, ![k].up = <<>>], M)
         /\ Roles(cs, [cs EXCEPT ![k].served = FALSE, ![k].up = <<>>])
<1>1. cs[k] \in Conn /\ cs \in [DOMAIN cs -> Conn] /\ <<>> \in Seq(Frame)
  BY ConnFields, LenProperties, EmptySeq
<1>2. Kept(cs, [cs EXCEPT ![k].end = e, ![k].down = <<>>], M)
      /\ Roles(cs, [cs EXCEPT ![k].end = e, ![k].down = <<>>])
  <2> DEFINE c == [cs[k] EXCEPT !.end = e, !.down = <<>>]
  <2>1. /\ c \in Conn /\ c.by = cs[k].by /\ c.up = cs[k].up /\ c.down = <<>>
        /\ c.code = cs[k].code /\ c.role = cs[k].role
    BY <1>1 DEF Conn
  <2>2. [cs EXCEPT ![k].end = e, ![k].down = <<>>] = [cs EXCEPT ![k] = c]
    BY <1>1
  <2> HIDE DEF c
  <2>3. Less(cs[k].up, c.up, M) /\ Less(cs[k].down, c.down, M)
    BY <2>1, LessSame, LessEmpty
  <2> QED
    BY <2>1, <2>2, <2>3, ReplacedKept, ReplacedRoles
<1>3. Kept(cs, [cs EXCEPT ![k].served = FALSE, ![k].up = <<>>], M)
      /\ Roles(cs, [cs EXCEPT ![k].served = FALSE, ![k].up = <<>>])
  <2> DEFINE c == [cs[k] EXCEPT !.served = FALSE, !.up = <<>>]
  <2>1. /\ c \in Conn /\ c.by = cs[k].by /\ c.down = cs[k].down /\ c.up = <<>>
        /\ c.code = cs[k].code /\ c.role = cs[k].role
    BY <1>1 DEF Conn
  <2>2. [cs EXCEPT ![k].served = FALSE, ![k].up = <<>>] = [cs EXCEPT ![k] = c]
    BY <1>1
  <2> HIDE DEF c
  <2>3. Less(cs[k].up, c.up, M) /\ Less(cs[k].down, c.down, M)
    BY <2>1, LessSame, LessEmpty
  <2> QED
    BY <2>1, <2>2, <2>3, ReplacedKept, ReplacedRoles
<1> QED
  BY <1>2, <1>3

LEMMA HungUpKept ==
  ASSUME NEW cs \in Seq(Conn), NEW k \in 0..Len(cs), NEW M
  PROVE  Kept(cs, HungUp(cs, k), M) /\ Roles(cs, HungUp(cs, k))
<1>1. CASE k = 0 \/ cs[k].end # "open"
  <2>1. HungUp(cs, k) = cs
    BY <1>1 DEF HungUp
  <2> QED
    BY <2>1, KeptSame
<1>2. CASE ~(k = 0 \/ cs[k].end # "open")
  <2>1. k \in DOMAIN cs
    BY <1>2, LenProperties
  <2>2. PICK e \in {"open", "closing", "closed"} : e = IF LateClose THEN "closing" ELSE "closed"
    OBVIOUS
  <2>3. HungUp(cs, k) = [cs EXCEPT ![k].end = e, ![k].down = <<>>]
    BY <1>2, <2>2 DEF HungUp
  <2> DEFINE ds == [cs EXCEPT ![k].end = e, ![k].down = <<>>]
  <2>4. Kept(cs, ds, M) /\ Roles(cs, ds)
    BY <2>1, <2>2, FewerKept
  <2> HIDE DEF ds
  <2>5. HungUp(cs, k) = ds
    BY <2>3 DEF ds
  <2> QED
    BY <2>4, <2>5
<1> QED
  BY <1>1, <1>2

\* A message is read from the end it reached.
Popped(k) == [conns EXCEPT ![k].up = Tail(@)]
Dequeued(k) == [conns EXCEPT ![k].down = Tail(@)]

LEMMA PoppedFacts ==
  ASSUME conns \in Seq(Conn), NEW k \in DOMAIN conns, conns[k].up # <<>>
  PROVE  /\ Head(conns[k].up) \in Frame /\ Roles(conns, Popped(k))
         /\ \A M : Kept(conns, Popped(k), M)
         /\ Popped(k)[k].up = Tail(conns[k].up)
         /\ \A i \in DOMAIN conns : /\ Popped(k)[i].down = conns[i].down
                                    /\ i # k => Popped(k)[i] = conns[i]
<1> DEFINE q == conns[k].up
           c == [conns[k] EXCEPT !.up = Tail(@)]
<1>1. conns[k] \in Conn /\ q \in Seq(Frame) /\ conns \in [DOMAIN conns -> Conn]
  BY ConnFields, LenProperties
<1>2. Head(q) \in Frame /\ Tail(q) \in Seq(Frame)
  BY <1>1, TailFacts
<1>3. /\ c \in Conn /\ c.by = conns[k].by /\ c.down = conns[k].down /\ c.up = Tail(q)
      /\ c.code = conns[k].code /\ c.role = conns[k].role
  BY <1>1, <1>2 DEF Conn
<1>4. Popped(k) = [conns EXCEPT ![k] = c]
  BY <1>1 DEF Popped
<1>5. \A M : Less(q, Tail(q), M)
  BY <1>1, LessTail
<1> HIDE DEF c
<1>6. \A M : Kept(conns, Popped(k), M)
  <2> TAKE M
  <2>1. Less(conns[k].up, c.up, M) /\ Less(conns[k].down, c.down, M)
    BY <1>3, <1>5, LessSame
  <2> QED
    BY <1>3, <1>4, <2>1, ReplacedKept
<1>7. Roles(conns, Popped(k))
  BY <1>3, <1>4, ReplacedRoles
<1>8. Popped(k)[k] = c /\ \A i \in DOMAIN conns : i # k => Popped(k)[i] = conns[i]
  BY <1>3, <1>4, Replaced
<1> QED
  BY <1>2, <1>3, <1>6, <1>7, <1>8

LEMMA DequeuedFacts ==
  ASSUME conns \in Seq(Conn), NEW k \in DOMAIN conns, conns[k].down # <<>>
  PROVE  /\ Head(conns[k].down) \in Frame /\ Roles(conns, Dequeued(k))
         /\ \A M : Kept(conns, Dequeued(k), M)
         /\ Dequeued(k)[k].down = Tail(conns[k].down)
         /\ \A i \in DOMAIN conns : /\ Dequeued(k)[i].up = conns[i].up
                                    /\ i # k => Dequeued(k)[i] = conns[i]
<1> DEFINE q == conns[k].down
           c == [conns[k] EXCEPT !.down = Tail(@)]
<1>1. conns[k] \in Conn /\ q \in Seq(Frame) /\ conns \in [DOMAIN conns -> Conn]
  BY ConnFields, LenProperties
<1>2. Head(q) \in Frame /\ Tail(q) \in Seq(Frame)
  BY <1>1, TailFacts
<1>3. /\ c \in Conn /\ c.by = conns[k].by /\ c.up = conns[k].up /\ c.down = Tail(q)
      /\ c.code = conns[k].code /\ c.role = conns[k].role
  BY <1>1, <1>2 DEF Conn
<1>4. Dequeued(k) = [conns EXCEPT ![k] = c]
  BY <1>1 DEF Dequeued
<1>5. \A M : Less(q, Tail(q), M)
  BY <1>1, LessTail
<1> HIDE DEF c
<1>6. \A M : Kept(conns, Dequeued(k), M)
  <2> TAKE M
  <2>1. Less(conns[k].up, c.up, M) /\ Less(conns[k].down, c.down, M)
    BY <1>3, <1>5, LessSame
  <2> QED
    BY <1>3, <1>4, <2>1, ReplacedKept
<1>7. Roles(conns, Dequeued(k))
  BY <1>3, <1>4, ReplacedRoles
<1>8. Dequeued(k)[k] = c /\ \A i \in DOMAIN conns : i # k => Dequeued(k)[i] = conns[i]
  BY <1>3, <1>4, Replaced
<1> QED
  BY <1>2, <1>3, <1>6, <1>7, <1>8

\* The relay notes what a socket is for.
Marked(cs, k, c, role) == [cs EXCEPT ![k].code = c, ![k].role = role]
LEMMA MarkedFacts ==
  ASSUME NEW cs \in Seq(Conn), NEW k \in DOMAIN cs, NEW c \in Nat, NEW role \in Role
  PROVE  /\ \A M : Kept(cs, Marked(cs, k, c, role), M)
         /\ Marked(cs, k, c, role)[k].code = c /\ Marked(cs, k, c, role)[k].role = role
         /\ Marked(cs, k, c, role)[k].up = cs[k].up
         /\ Marked(cs, k, c, role)[k].down = cs[k].down
         /\ \A i \in DOMAIN cs : i # k => Marked(cs, k, c, role)[i] = cs[i]
<1> DEFINE ds == Marked(cs, k, c, role)
           e == [cs[k] EXCEPT !.code = c, !.role = role]
<1>1. cs[k] \in Conn /\ cs \in [DOMAIN cs -> Conn]
  BY ConnFields, LenProperties
<1>2. /\ e \in Conn /\ e.by = cs[k].by /\ e.up = cs[k].up /\ e.down = cs[k].down
      /\ e.code = c /\ e.role = role
  BY <1>1 DEF Conn
<1>3. ds = [cs EXCEPT ![k] = e]
  BY <1>1 DEF Marked
<1> HIDE DEF e, ds
<1>4. \A M : Kept(cs, ds, M)
  <2> TAKE M
  <2>1. Less(cs[k].up, e.up, M) /\ Less(cs[k].down, e.down, M)
    BY <1>2, LessSame
  <2> QED
    BY <1>2, <1>3, <2>1, ReplacedKept
<1>5. ds[k] = e /\ \A i \in DOMAIN cs : i # k => ds[i] = cs[i]
  BY <1>2, <1>3, Replaced
<1> QED
  BY <1>2, <1>4, <1>5 DEF ds

\* A screen that is left takes all its sockets along.
LEMMA LeftKept ==
  ASSUME conns \in Seq(Conn), NEW d, NEW M
  PROVE  LET ds == [k \in DOMAIN conns |->
                      IF conns[k].by = d THEN [conns[k] EXCEPT !.end = "closed", !.down = <<>>]
                                         ELSE conns[k]]
         IN  Kept(conns, ds, M) /\ Roles(conns, ds)
<1> DEFINE new(k) == IF conns[k].by = d THEN [conns[k] EXCEPT !.end = "closed", !.down = <<>>]
                                        ELSE conns[k]
           ds == [k \in DOMAIN conns |-> new(k)]
<1>1. \A k \in DOMAIN conns : conns[k] \in Conn
  BY ConnFields
<1>2. <<>> \in Seq(Frame)
  BY EmptySeq
<1>3. \A k \in DOMAIN conns :
        /\ new(k) \in Conn /\ new(k).by = conns[k].by /\ new(k).code = conns[k].code
        /\ new(k).role = conns[k].role /\ new(k).up = conns[k].up
        /\ new(k).down = conns[k].down \/ new(k).down = <<>>
  BY <1>1, <1>2 DEF Conn
<1> HIDE DEF new
<1>4. DOMAIN conns = 1..Len(conns) /\ Len(conns) \in Nat
  BY LenProperties
<1>5. ds \in [1..Len(conns) -> Conn]
  BY <1>3, <1>4
<1>6. ds \in Seq(Conn) /\ Len(ds) = Len(conns) /\ DOMAIN ds = DOMAIN conns
  BY <1>4, <1>5
<1>7. \A k \in DOMAIN conns : ds[k] = new(k)
  OBVIOUS
<1> HIDE DEF ds
<1>8. \A k \in DOMAIN conns : Less(conns[k].up, ds[k].up, M) /\ Less(conns[k].down, ds[k].down, M)
  BY <1>3, <1>7, LessSame, LessEmpty
<1>9. Kept(conns, ds, M) /\ Roles(conns, ds)
  BY <1>3, <1>6, <1>7, <1>8 DEF Kept, Roles
<1> QED
  BY <1>9 DEF ds, new

-----------------------------------------------------------------------------
\* The messages the invariants speak of. Where none of them is new, and no
\* socket gets another role, all stays as it was.
Telling == {m \in Frame : m.type \in {"create", "join", "created", "peer_joined", "begin"}}
Calm(cs, ds) == Roles(cs, ds) /\ \A M \in SUBSET Telling : Kept(cs, ds, M)

LEMMA CalmTwice ==
  ASSUME NEW cs \in Seq(Conn), NEW ds, NEW es, Calm(cs, ds), Calm(ds, es)
  PROVE  Calm(cs, es)
<1>1. DOMAIN ds = DOMAIN cs
  <2>1. {} \in SUBSET Telling
    OBVIOUS
  <2> QED
    BY <2>1 DEF Calm, Kept
<1>2. Roles(cs, es)
  BY <1>1 DEF Calm, Roles
<1> QED
  BY <1>2, KeptTwice DEF Calm

LEMMA CalmSame == ASSUME NEW cs \in Seq(Conn) PROVE Calm(cs, cs)
BY KeptSame DEF Calm

LEMMA CalmSeq ==
  ASSUME NEW cs, NEW ds, Calm(cs, ds)
  PROVE  ds \in Seq(Conn) /\ Len(ds) = Len(cs) /\ DOMAIN ds = DOMAIN cs
         /\ \A k \in DOMAIN cs : ds[k].by = cs[k].by
<1>1. {} \in SUBSET Telling
  OBVIOUS
<1> QED
  BY <1>1 DEF Calm, Kept

LEMMA HungUpCalm ==
  ASSUME NEW cs \in Seq(Conn), NEW k \in 0..Len(cs) PROVE Calm(cs, HungUp(cs, k))
BY HungUpKept DEF Calm

LEMMA SentCalm ==
  ASSUME NEW cs \in Seq(Conn), NEW k \in 0..Len(cs), NEW msg \in Frame \ Telling
  PROVE  Calm(cs, Sent(cs, k, msg))
<1>1. msg \in Frame /\ \A M \in SUBSET Telling : msg \notin M
  OBVIOUS
<1> QED
  BY <1>1, SentFacts DEF Calm

LEMMA OneIn ==
  ASSUME NEW msg \in Frame
  PROVE  /\ <<msg>> \in Seq(Frame)
         /\ \A M : msg \notin M => ~In(<<msg>>, M)
         /\ \A M : OnceIn(<<msg>>, M)
BY DEF In, OnceIn

LEMMA PostedCalm ==
  ASSUME NEW cs \in Seq(Conn), NEW k \in 0..Len(cs), NEW msg \in Frame \ Telling
  PROVE  Calm(cs, Posted(cs, k, <<msg>>))
<1>1. msg \in Frame /\ \A M \in SUBSET Telling : msg \notin M
  OBVIOUS
<1>2. <<msg>> \in Seq(Frame) /\ \A M \in SUBSET Telling : ~In(<<msg>>, M)
  BY <1>1, OneIn
<1> QED
  BY <1>2, PostedFacts DEF Calm

LEMMA MsgFrame ==
  ASSUME NEW c \in Nat
  PROVE  /\ \A t \in {"create", "join", "created", "joined", "peer_joined", "cancelled", "error"} :
              Msg(t, c) \in Frame
         /\ \A t \in {"joined", "cancelled", "error"} : Msg(t, c) \in Frame \ Telling
BY DEF Msg, Frame, Telling

-----------------------------------------------------------------------------
(***************************************************************************)
(* What the hook does.                                                     *)
(***************************************************************************)
LEMMA CutFacts ==
  ASSUME NEW s \in Snapshot
  PROVE  /\ Cut(s) \in Payload /\ DOMAIN Cut(s) = 1..s.size /\ Len(Cut(s)) = s.size
         /\ 1 \in 1..s.size /\ s.size \in 1..MaxChunks
         /\ \A i \in 1..s.size : Cut(s)[i] = <<s, i>> /\ <<s, i>> \in Piece
<1>1. s.size \in 1..MaxChunks /\ MaxChunks \in Nat
  BY TransferAssumption DEF Snapshot
<1>2. \A i \in 1..s.size : <<s, i>> \in Piece
  BY <1>1 DEF Piece
<1>3. Cut(s) \in Payload
  BY DEF Payload
<1>4. DOMAIN Cut(s) = 1..s.size /\ Len(Cut(s)) = s.size /\ \A i \in 1..s.size : Cut(s)[i] = <<s, i>>
  BY <1>1 DEF Cut
<1> QED
  BY <1>1, <1>2, <1>3, <1>4

LEMMA CutOnce ==
  ASSUME NEW s \in Snapshot, NEW t \in Snapshot, Cut(s) = Cut(t) PROVE s = t
<1>1. Cut(s)[1] = <<s, 1>> /\ Cut(t)[1] = <<t, 1>>
  BY CutFacts
<1> QED
  BY <1>1

\* Nothing new comes to the hook of device d, and nothing is up for review.
Mild(d) ==
  \E h \in Hook : /\ hook' = [hook EXCEPT ![d] = h]
                  /\ h.ws \in {hook[d].ws, 0} /\ h.code \in 0..issued
                  /\ h.recv \in {hook[d].recv, NoRecv}
                  /\ h.status = "idle" => h.ws = 0 /\ h.recv = NoRecv
                  /\ h.status = "review" => /\ hook[d].status = "review"
                                            /\ h.payload = hook[d].payload

LEMMA StillMild ==
  ASSUME QuotaInv, NEW d \in Device, hook' = hook PROVE Mild(d)
<1>1. hook[d] \in Hook /\ hook' = [hook EXCEPT ![d] = hook[d]]
  BY DEF QuotaInv, Types
<1>2. HookPlaces(d)
  BY DEF QuotaInv, Places
<1> QED
  BY <1>1, <1>2 DEF Mild, HookPlaces

LEMMA HookFields ==
  ASSUME QuotaInv, NEW d \in Device
  PROVE  /\ hook[d] \in Hook /\ HookPlaces(d)
         /\ hook[d].ws \in 0..Len(conns) /\ hook[d].code \in 0..issued
         /\ issued \in Nat /\ conns \in Seq(Conn)
<1>1. Types /\ HookPlaces(d)
  BY DEF QuotaInv, Places
<1> QED
  BY <1>1 DEF Types, RelayTypes, HookPlaces

LEMMA FailedMild ==
  ASSUME QuotaInv, NEW d \in Device, hook' = [hook EXCEPT ![d] = Failed(@)] PROVE Mild(d)
<1> DEFINE h == Failed(hook[d])
<1>1. hook[d] \in Hook /\ HookPlaces(d)
  BY HookFields
<1>2. h \in Hook /\ h.ws = 0 /\ h.code = hook[d].code /\ h.recv = hook[d].recv /\ h.status = "error"
  BY <1>1 DEF Failed, Quiet, Hook, Status
<1>3. hook' = [hook EXCEPT ![d] = h]
  BY DEF QuotaInv, Types
<1> HIDE DEF h
<1> QED
  BY <1>1, <1>2, <1>3 DEF Mild, HookPlaces

LEMMA StatusMild ==
  ASSUME QuotaInv, NEW d \in Device, NEW st \in Status \ {"idle", "review"}, NEW c \in 0..issued,
         hook' = [hook EXCEPT ![d].status = st, ![d].code = c]
  PROVE  Mild(d)
<1> DEFINE h == [hook[d] EXCEPT !.status = st, !.code = c]
<1>1. hook[d] \in Hook /\ HookPlaces(d) /\ issued \in Nat
  BY HookFields
<1>2. c \in Nat /\ st \in Status
  BY <1>1
<1>3. /\ h \in Hook /\ h.ws = hook[d].ws /\ h.code = c /\ h.recv = hook[d].recv
      /\ h.status = st
  BY <1>1, <1>2 DEF Hook
<1>4. hook' = [hook EXCEPT ![d] = h]
  BY DEF QuotaInv, Types
<1> HIDE DEF h
<1> QED
  BY <1>1, <1>3, <1>4 DEF Mild, HookPlaces

\* A message that came.
LEMMA GotFacts ==
  ASSUME QuotaInv, NEW d \in Device, NEW type, Got(d, type)
  PROVE  /\ hook[d].ws \in DOMAIN conns /\ hook[d].ws # 0 /\ conns[hook[d].ws].by = d
         /\ conns[hook[d].ws].down # <<>>
         /\ hook[d].status # "idle"
         /\ Message(d) \in Frame /\ Message(d).type = type
         /\ Read(d) = Dequeued(hook[d].ws)
         /\ type \in {"created", "peer_joined"} => Message(d).code \in 1..issued
         /\ Calm(conns, Read(d)) /\ hook[d].ws \in 0..Len(Read(d)) /\ Read(d) \in Seq(Conn)
<1> DEFINE k == hook[d].ws
<1>1. HookPlaces(d) /\ conns \in Seq(Conn) /\ k \in 0..Len(conns)
  BY HookFields
<1>2. k # 0 /\ conns[k].down # <<>> /\ Message(d).type = type
  BY DEF Got, Message
<1>3. k \in DOMAIN conns
  BY <1>1, <1>2, LenProperties
<1>4. Message(d) \in Frame /\ Read(d) = Dequeued(k) /\ Calm(conns, Read(d))
  BY <1>1, <1>2, <1>3, DequeuedFacts DEF Message, Read, Dequeued, Calm
<1>5. type \in {"created", "peer_joined"} => Message(d).code \in 1..issued
  <2>1. conns[k].down \in Seq(Frame) /\ ~In(conns[k].down, Unissued(issued))
    BY <1>1, <1>3, ConnFields DEF QuotaInv, Letters
  <2>2. Message(d) \notin Unissued(issued)
    BY <1>2, <2>1, LessTail DEF Message
  <2> QED
    BY <1>2, <1>4, <2>2 DEF Unissued
<1>6. Read(d) \in Seq(Conn) /\ Len(Read(d)) = Len(conns)
  BY <1>1, <1>4, CalmSeq
<1> QED
  BY <1>1, <1>2, <1>3, <1>4, <1>5, <1>6 DEF HookPlaces

LEMMA AckMild ==
  ASSUME QuotaInv, NEW d \in Device, OnAck(d)
  PROVE  Mild(d) /\ Calm(conns, conns')
<1> DEFINE h == hook[d]
           next == Following(Message(d).seq)
<1>1. h \in Hook /\ HookPlaces(d) /\ conns \in Seq(Conn) /\ h.code \in Nat
  BY HookFields DEF Hook
<1>2. /\ Message(d) \in Frame /\ Message(d).type = "ack" /\ Calm(conns, Read(d))
      /\ h.ws \in 0..Len(Read(d)) /\ Read(d) \in Seq(Conn) /\ h.status # "idle"
  BY GotFacts DEF OnAck
<1>3. CASE h.chunks = <<>> \/ h.code = 0
  <2>1. conns' = Read(d) /\ hook' = hook
    BY <1>3 DEF OnAck
  <2> QED
    BY <1>2, <2>1, StillMild
<1>4. CASE h.chunks # <<>> /\ h.code # 0 /\ next <= Len(h.chunks)
  <2> DEFINE msg == Chunk(h.code, h.chunks[next])
  <2>1. conns' = Posted(Read(d), h.ws, <<msg>>) /\ hook' = hook
    BY <1>4 DEF OnAck
  <2>2. PICK s \in Snapshot : h.chunks = Cut(s)
    BY <1>1, <1>4 DEF Hook, Payload
  <2>3. Message(d).seq \in Nat
    BY <1>2 DEF Frame
  <2>4. next \in 1..s.size
    BY <1>4, <2>2, <2>3, CutFacts DEF Following
  <2>5. h.chunks[next] \in Piece
    BY <2>2, <2>4, CutFacts
  <2>6. msg \in Frame \ Telling
    BY <1>1, <2>5 DEF Chunk, Frame, Telling
  <2> HIDE DEF msg
  <2>7. Calm(Read(d), conns')
    BY <1>2, <2>1, <2>6, PostedCalm
  <2> QED
    BY <1>1, <1>2, <2>1, <2>7, CalmTwice, StillMild
<1>5. CASE ~(h.chunks = <<>> \/ h.code = 0) /\ ~(next <= Len(h.chunks))
  <2> DEFINE g == [Quiet(h) EXCEPT !.status = "sent"]
  <2>1. conns' = HungUp(Read(d), h.ws) /\ hook' = [hook EXCEPT ![d] = g]
    BY <1>5 DEF OnAck
  <2>2. g \in Hook /\ g.ws = 0 /\ g.code = h.code /\ g.recv = h.recv /\ g.status = "sent"
    BY <1>1 DEF Quiet, Hook, Status
  <2> HIDE DEF g
  <2>3. Mild(d)
    BY <1>1, <2>1, <2>2 DEF Mild, HookPlaces
  <2>4. Calm(Read(d), conns')
    BY <1>2, <2>1, HungUpCalm
  <2> QED
    BY <1>1, <1>2, <2>3, <2>4, CalmTwice
<1> QED
  BY <1>3, <1>4, <1>5

LEMMA CancelledMild ==
  ASSUME QuotaInv, NEW d \in Device, OnCancelled(d) \/ OnError(d)
  PROVE  Mild(d) /\ Calm(conns, conns')
<1>1. conns \in Seq(Conn)
  BY HookFields
<1>2. Calm(conns, Read(d)) /\ hook[d].ws \in 0..Len(Read(d)) /\ Read(d) \in Seq(Conn)
  BY GotFacts DEF OnCancelled, OnError
<1>3. CASE conns' = HungUp(Read(d), hook[d].ws) /\ hook' = [hook EXCEPT ![d] = Failed(@)]
  <2>1. Calm(Read(d), conns')
    BY <1>2, <1>3, HungUpCalm
  <2> QED
    BY <1>1, <1>2, <1>3, <2>1, CalmTwice, FailedMild
<1>4. CASE conns' = Read(d) /\ hook' = hook
  BY <1>2, <1>4, StillMild
<1> QED
  BY <1>3, <1>4 DEF OnCancelled, OnError

LEMMA ToldMild ==
  ASSUME QuotaInv, NEW d \in Device, OnCreated(d) \/ OnPeerJoined(d) \/ OnJoined(d)
  PROVE  Mild(d) /\ Calm(conns, conns') /\ WorkTypes'
<1>1. Calm(conns, Read(d)) /\ conns' = Read(d)
  BY GotFacts DEF OnCreated, OnPeerJoined, OnJoined
<1>2. hook[d] \in Hook /\ hook[d].code \in 0..issued /\ issued \in Nat /\ Types
  BY HookFields DEF QuotaInv
<1>3. hook \in [Device -> Hook]
  BY <1>2 DEF Types
<1>4. CASE OnCreated(d)
  <2> DEFINE c == Message(d).code
  <2>1. c \in 1..issued
    BY <1>4, GotFacts DEF OnCreated
  <2>2. hook' = [hook EXCEPT ![d].status = "waiting", ![d].code = c]
    BY <1>3, <1>4 DEF OnCreated
  <2>3. c \in 0..issued /\ "waiting" \in Status \ {"idle", "review"}
    BY <1>2, <2>1 DEF Status, InFlight
  <2>4. shown' = shown \cup {c} /\ UNCHANGED <<issued, exporting, verifying, writing, written, taken>>
    BY <1>4 DEF OnCreated, relayVars, dataVars
  <2> HIDE DEF c
  <2>5. Mild(d)
    BY <2>2, <2>3, StatusMild
  <2>6. WorkTypes'
    BY <1>2, <2>1, <2>4 DEF Types, WorkTypes
  <2> QED
    BY <1>1, <2>5, <2>6
<1>5. CASE OnPeerJoined(d) \/ OnJoined(d)
  <2>1. hook' = [hook EXCEPT ![d].status = "transferring", ![d].code = hook[d].code]
    BY <1>2, <1>3, <1>5 DEF OnPeerJoined, OnJoined, Hook
  <2>2. "transferring" \in Status \ {"idle", "review"}
    BY DEF Status, InFlight
  <2>3. Mild(d)
    BY <1>2, <2>1, <2>2, StatusMild
  <2>4. WorkTypes'
    <3>1. CASE OnPeerJoined(d)
      <4>1. Message(d).code \in 1..issued
        BY <3>1, GotFacts DEF OnPeerJoined
      <4>2. exporting' = [exporting EXCEPT ![d] = @ \cup {Message(d).code}]
            /\ UNCHANGED <<issued, shown, verifying, writing, written, taken>>
        BY <3>1 DEF OnPeerJoined, relayVars, dataVars
      <4> QED
        BY <1>2, <4>1, <4>2 DEF Types, WorkTypes
    <3>2. CASE OnJoined(d)
      BY <1>2, <3>2 DEF OnJoined, relayVars, dataVars, Types, WorkTypes
    <3> QED
      BY <1>5, <3>1, <3>2
  <2> QED
    BY <1>1, <2>3, <2>4
<1> QED
  BY <1>4, <1>5

LEMMA IdleFacts ==
  /\ Idle \in Hook /\ Idle.ws = 0 /\ Idle.code = 0 /\ Idle.recv = NoRecv /\ Idle.status = "idle"
  /\ \A h \in Hook : /\ Cleared(h) \in Hook /\ Cleared(h).ws = 0 /\ Cleared(h).code = 0
                     /\ Cleared(h).recv = NoRecv /\ Cleared(h).status = "idle"
<1>1. Idle \in Hook
  BY DEF Idle, Hook, Status
<1>2. \A h \in Hook : Cleared(h) \in Hook
  BY <1>1 DEF Cleared, Hook
<1> QED
  BY <1>1, <1>2 DEF Idle, Cleared

\* The user turns away, or the screen is left.
LEMMA ResetMild ==
  ASSUME QuotaInv, NEW d \in Device, Reset(d) \/ Leave(d)
  PROVE  Mild(d) /\ Calm(conns, conns')
<1>1. hook[d] \in Hook /\ HookPlaces(d) /\ conns \in Seq(Conn) /\ issued \in Nat /\ Types
  BY HookFields DEF QuotaInv
<1>2. 0 \in 0..issued
  BY <1>1
<1>3. CASE Reset(d)
  <2> DEFINE h == Cleared(hook[d])
  <2>1. hook' = [hook EXCEPT ![d] = h] /\ conns' = HungUp(conns, hook[d].ws)
    BY <1>3 DEF Reset
  <2>2. h \in Hook /\ h.ws = 0 /\ h.code = 0 /\ h.recv = NoRecv /\ h.status = "idle"
    BY <1>1, IdleFacts
  <2> HIDE DEF h
  <2>3. Mild(d)
    BY <1>2, <2>1, <2>2 DEF Mild
  <2>4. hook[d].ws \in 0..Len(conns)
    BY <1>1 DEF HookPlaces
  <2> QED
    BY <1>1, <2>1, <2>3, <2>4, HungUpCalm
<1>4. CASE Leave(d)
  <2>1. hook' = [hook EXCEPT ![d] = Idle]
    BY <1>4 DEF Leave
  <2>2. Calm(conns, conns')
    BY <1>1, <1>4, LeftKept DEF Leave, Calm
  <2>3. Mild(d)
    BY <1>2, <2>1, IdleFacts DEF Mild
  <2> QED
    BY <2>2, <2>3
<1> QED
  BY <1>3, <1>4

LEMMA OnCloseMild ==
  ASSUME QuotaInv, NEW k \in DOMAIN conns, OnClose(k)
  PROVE  Mild(conns[k].by) /\ Calm(conns, conns')
<1> DEFINE d == conns[k].by
<1>1. conns \in Seq(Conn) /\ hook \in [Device -> Hook]
  BY DEF QuotaInv, Types
<1>2. d \in Device
  BY <1>1, ConnFields
<1>3. Calm(conns, conns')
  BY <1>1, FewerKept DEF OnClose, Calm
<1>4. CASE hook' = hook
  BY <1>2, <1>3, <1>4, StillMild
<1>5. CASE hook' # hook
  <2>1. hook' = [hook EXCEPT ![d].status = "error"]
    BY <1>5 DEF OnClose
  <2>2. hook[d] \in Hook /\ hook[d].code \in 0..issued
    BY <1>2, HookFields
  <2>3. hook' = [hook EXCEPT ![d].status = "error", ![d].code = hook[d].code]
    BY <1>1, <2>1, <2>2 DEF Hook
  <2>4. "error" \in Status \ {"idle", "review"}
    BY DEF Status
  <2> HIDE DEF d
  <2>5. Mild(d)
    BY <1>2, <2>2, <2>3, <2>4, StatusMild
  <2> QED
    BY <1>3, <2>5 DEF d
<1> QED
  BY <1>4, <1>5

-----------------------------------------------------------------------------
\* What goes on in the background, and what a payload that comes in does. The
\* snapshot's announcement is the one message of them that is new.
Asks == {m \in Telling : m.type # "begin"}
CalmBut(cs, ds) == Roles(cs, ds) /\ \A M \in SUBSET Asks : Kept(cs, ds, M)

LEMMA CalmIsCalmBut == ASSUME NEW cs, NEW ds, Calm(cs, ds) PROVE CalmBut(cs, ds)
<1>1. Asks \subseteq Telling
  BY DEF Asks
<1> QED
  BY <1>1 DEF Calm, CalmBut

LEMMA TwoIn ==
  ASSUME NEW a \in Frame, NEW b \in Frame
  PROVE  /\ <<a, b>> \in Seq(Frame)
         /\ \A M : a \notin M /\ b \notin M => ~In(<<a, b>>, M)
         /\ \A M : b \notin M => OnceIn(<<a, b>>, M)
<1> DEFINE q == <<a, b>>
<1>1. q \in Seq(Frame) /\ DOMAIN q = {1, 2} /\ q[1] = a /\ q[2] = b
  OBVIOUS
<1> HIDE DEF q
<1>2. \A M : a \notin M /\ b \notin M => ~In(q, M)
  BY <1>1 DEF In
<1>3. \A M : b \notin M => OnceIn(q, M)
  BY <1>1 DEF OnceIn
<1> QED
  BY <1>1, <1>2, <1>3 DEF q

LEMMA OpeningFacts ==
  ASSUME NEW s \in Snapshot, NEW c \in Nat
  PROVE  /\ Opening(c, s) \in Seq(Frame)
         /\ \A M \in SUBSET Asks : ~In(Opening(c, s), M)
         /\ \A t \in Snapshot \ {s} : ~In(Opening(c, s), Begins(t))
         /\ OnceIn(Opening(c, s), Begins(s))
<1> DEFINE a == Begin(c, s)
           b == Chunk(c, <<s, 1>>)
<1>1. Opening(c, s) = <<a, b>>
  BY DEF Opening
<1>2. <<s, 1>> \in Piece
  BY CutFacts
<1>3. a \in Frame /\ a.type = "begin" /\ a.sha = s
  BY DEF Begin, Frame
<1>4. b \in Frame /\ b.type = "chunk"
  BY <1>2 DEF Chunk, Frame
<1> HIDE DEF a, b
<1>5. /\ \A M \in SUBSET Asks : a \notin M /\ b \notin M
      /\ \A t \in Snapshot : b \notin Begins(t)
      /\ \A t \in Snapshot \ {s} : a \notin Begins(t)
  BY <1>3, <1>4 DEF Asks, Telling, Begins
<1>6. /\ <<a, b>> \in Seq(Frame)
      /\ \A M : a \notin M /\ b \notin M => ~In(<<a, b>>, M)
      /\ \A M : b \notin M => OnceIn(<<a, b>>, M)
  BY <1>3, <1>4, TwoIn
<1> DEFINE q == <<a, b>>
<1> HIDE DEF q
<1>7. /\ q \in Seq(Frame)
      /\ \A M : a \notin M /\ b \notin M => ~In(q, M)
      /\ \A M : b \notin M => OnceIn(q, M)
  BY <1>6 DEF q
<1>8. /\ \A M \in SUBSET Asks : ~In(q, M)
      /\ \A t \in Snapshot \ {s} : ~In(q, Begins(t))
      /\ OnceIn(q, Begins(s))
  BY <1>5, <1>7
<1> QED
  BY <1>1, <1>7, <1>8 DEF q

Export(d, c, n) == [from |-> d, code |-> c, size |-> n]

LEMMA ExportMild ==
  ASSUME QuotaInv, NEW d \in Device, NEW c \in Code, NEW n \in 1..MaxChunks,
         NEW open \in BOOLEAN, ExportDone(d, c, n, open)
  PROVE  /\ Export(d, c, n) \in Snapshot /\ Mild(d) /\ CalmBut(conns, conns') /\ WorkTypes'
         /\ conns' = conns \/ conns' = Posted(conns, hook[d].ws, Opening(hook[d].code, Export(d, c, n)))
         /\ \A t \in Snapshot \ {Export(d, c, n)} : Kept(conns, conns', Begins(t))
<1> DEFINE s == Export(d, c, n)
           g == [hook[d] EXCEPT !.chunks = Cut(s)]
<1>1. hook[d] \in Hook /\ HookPlaces(d) /\ conns \in Seq(Conn) /\ hook[d].code \in Nat
  BY HookFields DEF Hook
<1>2. s \in Snapshot
  BY DEF Snapshot, Export
<1>3. hook' = [hook EXCEPT ![d].chunks = Cut(s)]
      /\ (conns' = conns \/ conns' = Posted(conns, hook[d].ws, Opening(hook[d].code, s)))
  BY DEF ExportDone, Export
<1>4. taken' = [taken EXCEPT ![d] = @ \cup {Cut(s)}]
      /\ exporting' = [exporting EXCEPT ![d] = @ \ {c}]
      /\ UNCHANGED <<issued, shown, verifying, writing, written>>
  BY DEF ExportDone, Export, relayVars, dataVars
<1>5. Types
  BY DEF QuotaInv
<1> HIDE DEF s
<1>6. Cut(s) \in Payload
  BY <1>2, CutFacts
<1>7. hook' = [hook EXCEPT ![d] = g]
  BY <1>3, <1>5 DEF Types
<1>8. /\ g \in Hook /\ g.ws = hook[d].ws /\ g.code = hook[d].code /\ g.recv = hook[d].recv
      /\ g.status = hook[d].status /\ g.payload = hook[d].payload
  BY <1>1, <1>6 DEF Hook
<1> HIDE DEF g
<1>9. Mild(d)
  BY <1>1, <1>7, <1>8 DEF Mild, HookPlaces
<1>10. CalmBut(conns, conns') /\ \A t \in Snapshot \ {s} : Kept(conns, conns', Begins(t))
  <2>1. CASE conns' = conns
    BY <1>1, <2>1, KeptSame DEF CalmBut
  <2>2. CASE conns' = Posted(conns, hook[d].ws, Opening(hook[d].code, s))
    <3> DEFINE q == Opening(hook[d].code, s)
    <3>1. /\ q \in Seq(Frame) /\ \A M \in SUBSET Asks : ~In(q, M)
          /\ \A t \in Snapshot \ {s} : ~In(q, Begins(t))
      BY <1>1, <1>2, OpeningFacts
    <3>2. hook[d].ws \in 0..Len(conns)
      BY <1>1 DEF HookPlaces
    <3>3. conns' = Posted(conns, hook[d].ws, q)
      BY <2>2
    <3> HIDE DEF q
    <3>4. Roles(conns, conns') /\ \A M : ~In(q, M) => Kept(conns, conns', M)
      BY <1>1, <3>1, <3>2, <3>3, PostedFacts
    <3> QED
      BY <3>1, <3>4 DEF CalmBut
  <2> QED
    BY <1>3, <2>1, <2>2
<1>11. WorkTypes'
  BY <1>4, <1>5, <1>6 DEF Types, WorkTypes
<1> QED
  BY <1>2, <1>3, <1>9, <1>10, <1>11 DEF s

LEMMA ExportFailsMild ==
  ASSUME QuotaInv, NEW d \in Device, NEW c \in Code, ExportFails(d, c)
  PROVE  Mild(d) /\ Calm(conns, conns')
<1>1. hook[d].ws \in 0..Len(conns) /\ conns \in Seq(Conn)
  BY HookFields
<1> QED
  BY <1>1, FailedMild, HungUpCalm DEF ExportFails

LEMMA ApplyMild ==
  ASSUME QuotaInv, NEW d \in Device, Apply(d)
  PROVE  Mild(d) /\ Calm(conns, conns') /\ WorkTypes'
<1>1. /\ hook[d] \in Hook /\ HookPlaces(d) /\ conns \in Seq(Conn)
      /\ Types /\ hook[d].code \in 0..issued
  BY HookFields DEF QuotaInv
<1>2. hook' = [hook EXCEPT ![d].status = "applying"]
  BY DEF Apply
<1>3. hook' = [hook EXCEPT ![d].status = "applying", ![d].code = hook[d].code]
  BY <1>1, <1>2 DEF Types, Hook
<1>4. "applying" \in Status \ {"idle", "review"}
  BY DEF Status
<1>5. Mild(d)
  BY <1>1, <1>3, <1>4, StatusMild
<1>6. WorkTypes'
  <2>1. [payload |-> hook[d].payload, told |-> TRUE] \in Write
    BY <1>1 DEF Apply, HookPlaces, Write
  <2>2. writing' = [writing EXCEPT ![d] = @ \cup {[payload |-> hook[d].payload, told |-> TRUE]}]
        /\ UNCHANGED <<issued, shown, exporting, verifying, written, taken>>
    BY DEF Apply, relayVars
  <2> QED
    BY <1>1, <2>1, <2>2 DEF Types, WorkTypes
<1>7. Calm(conns, conns')
  BY <1>1, CalmSame DEF Apply
<1> QED
  BY <1>5, <1>6, <1>7

LEMMA WriteMild ==
  ASSUME QuotaInv, NEW d \in Device, NEW w \in writing[d], WriteDone(d, w)
  PROVE  Mild(d) /\ Calm(conns, conns') /\ WorkTypes'
<1>1. /\ hook[d] \in Hook /\ HookPlaces(d) /\ conns \in Seq(Conn)
      /\ Types /\ hook[d].code \in 0..issued /\ hook[d].ws \in 0..Len(conns)
  BY HookFields DEF QuotaInv
<1>2. w \in Write /\ w.payload \in Payload /\ written[d] \in Seq(Payload)
  BY <1>1 DEF Types, WorkTypes, Write
<1>3. Append(written[d], w.payload) \in Seq(Payload)
  BY <1>2, AppendProperties
<1>4. writing' = [writing EXCEPT ![d] = @ \ {w}]
      /\ written' \in {written, [written EXCEPT ![d] = Append(@, w.payload)]}
      /\ UNCHANGED <<issued, shown, exporting, verifying, taken>>
  BY DEF WriteDone, RolledBack, relayVars
<1>5. WorkTypes'
  <2>1. written' \in [Device -> Seq(Payload)]
    BY <1>1, <1>3, <1>4 DEF Types, WorkTypes
  <2> QED
    BY <1>1, <1>4, <2>1 DEF Types, WorkTypes
<1>6. Calm(conns, conns')
  BY <1>1, CalmSame, HungUpCalm DEF WriteDone
<1>7. CASE hook' = hook
  BY <1>5, <1>6, <1>7, StillMild
<1>8. CASE hook' = [hook EXCEPT ![d] = Failed(@)]
  BY <1>5, <1>6, <1>8, FailedMild
<1>9. CASE hook' = [hook EXCEPT ![d].status = "done"]
  <2>1. hook' = [hook EXCEPT ![d].status = "done", ![d].code = hook[d].code]
    BY <1>1, <1>9 DEF Types, Hook
  <2>2. "done" \in Status \ {"idle", "review"}
    BY DEF Status
  <2> QED
    BY <1>1, <1>5, <1>6, <2>1, <2>2, StatusMild
<1> QED
  BY <1>7, <1>8, <1>9 DEF WriteDone

-----------------------------------------------------------------------------
\* The hook of device d may take in a payload, or bring one up for review.
Turns(d) ==
  \E h \in Hook : /\ hook' = [hook EXCEPT ![d] = h]
                  /\ h.ws \in {hook[d].ws, 0} /\ h.code \in 0..issued
                  /\ h.status = "idle" => h.ws = 0 /\ h.recv = NoRecv
                  /\ h.status = "review" => h.payload \in Payload

LEMMA MildTurns == ASSUME QuotaInv, NEW d \in Device, Mild(d) PROVE Turns(d)
<1>1. HookPlaces(d)
  BY HookFields
<1> QED
  BY <1>1 DEF Mild, Turns, HookPlaces

LEMMA RecvTurns ==
  ASSUME QuotaInv, NEW d \in Device, hook[d].status # "idle", NEW r \in Recv,
         hook' = [hook EXCEPT ![d].recv = r]
  PROVE  /\ Turns(d) /\ hook' = [hook EXCEPT ![d] = hook'[d]]
         /\ hook'[d].ws = hook[d].ws /\ hook'[d].status = hook[d].status
         /\ hook'[d].payload = hook[d].payload /\ hook'[d].recv = r
<1> DEFINE h == [hook[d] EXCEPT !.recv = r]
<1>1. hook[d] \in Hook /\ HookPlaces(d) /\ Types
  BY HookFields DEF QuotaInv
<1>2. /\ h \in Hook /\ h.ws = hook[d].ws /\ h.code = hook[d].code /\ h.recv = r
      /\ h.status = hook[d].status /\ h.payload = hook[d].payload
  BY <1>1 DEF Hook
<1>3. hook' = [hook EXCEPT ![d] = h]
  BY <1>1 DEF Types
<1> HIDE DEF h
<1>4. hook'[d] = h
  BY <1>1, <1>3 DEF Types
<1>5. Turns(d)
  BY <1>1, <1>2, <1>3 DEF Turns, HookPlaces
<1> QED
  BY <1>2, <1>3, <1>4, <1>5

LEMMA BeginFacts ==
  ASSUME QuotaInv, NEW d \in Device, OnBegin(d)
  PROVE  /\ Message(d).sha \in Snapshot /\ Empty(Message(d).sha) \in Recv
         /\ hook' = [hook EXCEPT ![d].recv = Empty(Message(d).sha)]
         /\ Turns(d) /\ Calm(conns, conns')
<1> DEFINE s == Message(d).sha
<1>1. Message(d) \in Frame /\ Message(d).type = "begin" /\ hook[d].status # "idle"
      /\ Calm(conns, conns')
  BY GotFacts DEF OnBegin
<1>2. s \in Snapshot
  BY <1>1 DEF Frame
<1>3. hook' = [hook EXCEPT ![d].recv = Empty(s)]
  BY DEF OnBegin
<1> HIDE DEF s
<1>4. s.size \in Nat
  BY <1>2, TransferAssumption DEF Snapshot
<1>5. Empty(s) \in Recv
  <2> DEFINE c == [i \in 1..s.size |-> NoChunk]
  <2>1. c \in [1..s.size -> Piece \cup {NoChunk}]
    OBVIOUS
  <2>2. c \in UNION {[1..n -> Piece \cup {NoChunk}] : n \in Nat}
    BY <1>4, <2>1
  <2>3. Empty(s) = [sha |-> s, chunks |-> c]
    BY DEF Empty
  <2> HIDE DEF c
  <2> QED
    BY <1>2, <2>2, <2>3 DEF Recv
<1>6. Turns(d)
  BY <1>1, <1>3, <1>5, RecvTurns
<1> QED
  BY <1>1, <1>2, <1>3, <1>5, <1>6 DEF s

\* A chunk changes nothing in a payload that is complete.
Filled(d, r) ==
  /\ hook[d].recv \in Recv /\ hook[d].recv # NoRecv /\ r.sha = hook[d].recv.sha
  /\ Complete(hook[d].recv) => r = hook[d].recv
  /\ hook' = [hook EXCEPT ![d].recv = r]
  /\ verifying' = IF Complete(r) THEN [verifying EXCEPT ![d] = @ \cup {r}] ELSE verifying

LEMMA FilledFacts ==
  ASSUME NEW q \in Recv, NEW m \in Piece, m[2] \in DOMAIN q.chunks
  PROVE  LET r == [q EXCEPT !.chunks[m[2]] = IF @ = NoChunk THEN m ELSE @]
         IN  r \in Recv /\ r.sha = q.sha /\ (q.chunks[m[2]] # NoChunk => r = q)
<1> DEFINE i == m[2]
           c == [q.chunks EXCEPT ![i] = IF @ = NoChunk THEN m ELSE @]
           r == [q EXCEPT !.chunks[i] = IF @ = NoChunk THEN m ELSE @]
<1>1. PICK n \in Nat : q.chunks \in [1..n -> Piece \cup {NoChunk}]
  BY DEF Recv
<1>2. c \in [1..n -> Piece \cup {NoChunk}]
  BY <1>1
<1>3. c \in UNION {[1..l -> Piece \cup {NoChunk}] : l \in Nat}
  BY <1>2
<1>4. r = [sha |-> q.sha, chunks |-> c] /\ q = [sha |-> q.sha, chunks |-> q.chunks]
  BY DEF Recv
<1>5. q.chunks[i] # NoChunk => c = q.chunks
  BY <1>1
<1> HIDE DEF c, r
<1>6. r \in Recv
  BY <1>3, <1>4 DEF Recv
<1>7. r.sha = q.sha /\ (q.chunks[i] # NoChunk => r = q)
  BY <1>4, <1>5
<1> QED
  BY <1>6, <1>7 DEF r

LEMMA ChunkFacts ==
  ASSUME QuotaInv, NEW d \in Device, OnChunk(d)
  PROVE  /\ Turns(d) /\ Calm(conns, conns') /\ WorkTypes'
         /\ hook[d].ws # 0
         /\ (hook' = hook /\ verifying' = verifying) \/ \E r \in Recv : Filled(d, r)
<1> DEFINE h == hook[d]
           m == Message(d).chunk
<1>1. /\ h \in Hook /\ HookPlaces(d) /\ conns \in Seq(Conn) /\ h.code \in Nat /\ Types
      /\ h.ws # 0
  BY HookFields, GotFacts DEF Hook, QuotaInv, OnChunk
<1>2. /\ Message(d) \in Frame /\ Message(d).type = "chunk" /\ Calm(conns, Read(d))
      /\ h.ws \in 0..Len(Read(d)) /\ Read(d) \in Seq(Conn) /\ h.status # "idle"
  BY GotFacts DEF OnChunk
<1>3. m \in Piece /\ m[2] \in Nat
  BY <1>2, TransferAssumption DEF Frame, Piece
<1>4. CASE h.recv = NoRecv \/ m[2] \notin DOMAIN h.recv.chunks
  <2>1. conns' = Read(d) /\ hook' = hook /\ verifying' = verifying
        /\ UNCHANGED <<issued, shown, exporting, writing, written, taken>>
    BY <1>4 DEF OnChunk, relayVars, dataVars
  <2>2. WorkTypes'
    BY <1>1, <2>1 DEF Types, WorkTypes
  <2>3. Turns(d)
    BY <2>1, StillMild, MildTurns
  <2> QED
    BY <1>1, <1>2, <2>1, <2>2, <2>3
<1>5. CASE ~(h.recv = NoRecv \/ m[2] \notin DOMAIN h.recv.chunks)
  <2> DEFINE r == [h.recv EXCEPT !.chunks[m[2]] = IF @ = NoChunk THEN m ELSE @]
             msg == Ack(h.code, m[2])
  <2>1. /\ conns' = Posted(Read(d), h.ws, <<msg>>)
        /\ hook' = [hook EXCEPT ![d].recv = r]
        /\ verifying' = IF Complete(r) THEN [verifying EXCEPT ![d] = @ \cup {r}] ELSE verifying
        /\ UNCHANGED <<issued, shown, exporting, writing, written, taken>>
    BY <1>5 DEF OnChunk, relayVars, dataVars
  <2>2. h.recv \in Recv /\ m[2] \in DOMAIN h.recv.chunks
    BY <1>1, <1>5 DEF Hook
  <2>3. r \in Recv /\ r.sha = h.recv.sha /\ (h.recv.chunks[m[2]] # NoChunk => r = h.recv)
    BY <1>3, <2>2, FilledFacts
  <2>4. Complete(h.recv) => h.recv.chunks[m[2]] # NoChunk
    BY <2>2 DEF Complete
  <2>5. msg \in Frame \ Telling
    BY <1>1, <1>3 DEF Ack, Frame, Telling
  <2> HIDE DEF r, msg
  <2>6. Calm(Read(d), conns')
    BY <1>2, <2>1, <2>5, PostedCalm
  <2>7. Calm(conns, conns')
    BY <1>1, <1>2, <2>6, CalmTwice
  <2>8. Filled(d, r)
    BY <1>5, <2>1, <2>2, <2>3, <2>4 DEF Filled
  <2>9. WorkTypes'
    <3>1. verifying' \in [Device -> SUBSET Recv]
      BY <1>1, <2>1, <2>3 DEF Types, WorkTypes
    <3> QED
      BY <1>1, <2>1, <3>1 DEF Types, WorkTypes
  <2>10. Turns(d)
    BY <1>2, <2>1, <2>3, RecvTurns
  <2> QED
    BY <1>1, <2>3, <2>7, <2>8, <2>9, <2>10
<1> QED
  BY <1>4, <1>5

LEMMA VerifyFacts ==
  ASSUME QuotaInv, NEW d \in Device, NEW r \in verifying[d], VerifyDone(d, r)
  PROVE  /\ Turns(d) /\ Calm(conns, conns') /\ WorkTypes' /\ r \in Recv
         /\ Mild(d) \/ \E h \in Hook : /\ hook' = [hook EXCEPT ![d] = h]
                                       /\ h.ws = 0 /\ h.recv = hook[d].recv
                                       /\ h.status = "review" /\ h.payload = Cut(r.sha)
<1>1. /\ hook[d] \in Hook /\ HookPlaces(d) /\ conns \in Seq(Conn) /\ Types
      /\ hook[d].ws \in 0..Len(conns)
  BY HookFields DEF QuotaInv
<1>2. r \in Recv
  BY <1>1 DEF Types, WorkTypes
<1>3. /\ verifying' = [verifying EXCEPT ![d] = @ \ {r}] /\ conns' = HungUp(conns, hook[d].ws)
      /\ UNCHANGED <<issued, shown, exporting, writing, written, taken>>
  BY DEF VerifyDone, relayVars, dataVars
<1>4. Calm(conns, conns')
  BY <1>1, <1>3, HungUpCalm
<1>5. WorkTypes'
  BY <1>1, <1>3 DEF Types, WorkTypes
<1>6. CASE r.chunks = Cut(r.sha)
  <2> DEFINE h == [Quiet(hook[d]) EXCEPT !.status = "review", !.payload = r.chunks]
  <2>1. hook' = [hook EXCEPT ![d] = h]
    BY <1>6 DEF VerifyDone
  <2>2. Cut(r.sha) \in Payload
    BY <1>2 DEF Recv, Payload
  <2>3. /\ h \in Hook /\ h.ws = 0 /\ h.code = hook[d].code /\ h.recv = hook[d].recv
        /\ h.status = "review" /\ h.payload = Cut(r.sha)
    BY <1>1, <1>6, <2>2 DEF Quiet, Hook, Status
  <2> HIDE DEF h
  <2>4. Turns(d)
    BY <1>1, <2>1, <2>2, <2>3 DEF Turns, HookPlaces
  <2> QED
    BY <1>2, <1>4, <1>5, <2>1, <2>3, <2>4
<1>7. CASE r.chunks # Cut(r.sha)
  <2>1. hook' = [hook EXCEPT ![d] = Failed(@)]
    BY <1>7 DEF VerifyDone
  <2>2. Mild(d)
    BY <2>1, FailedMild
  <2> QED
    BY <1>2, <1>4, <1>5, <2>2, MildTurns
<1> QED
  BY <1>6, <1>7

-----------------------------------------------------------------------------
(***************************************************************************)
(* The quota of an address.                                                *)
(***************************************************************************)
LEMMA AskedIsAsking ==
  ASSUME conns \in Seq(Conn), Letters PROVE Asked = Asking
<1>1. ASSUME NEW k \in DOMAIN conns
      PROVE  In(conns[k].up, Creates) <=>
               conns[k].up # <<>> /\ Head(conns[k].up).type = "create"
  <2> DEFINE q == conns[k].up
  <2>1. q \in Seq(Frame) /\ FirstIn(q, Creates)
    BY ConnFields DEF Letters
  <2> HIDE DEF q
  <2>2. CASE q = <<>>
    <3>1. DOMAIN q = {}
      BY <2>2
    <3> QED
      BY <2>2, <3>1 DEF In, q
  <2>3. CASE q # <<>>
    <3>1. Head(q) \in Frame /\ (In(q, Creates) <=> Head(q) \in Creates)
      BY <2>1, <2>3, LessTail, TailFacts
    <3> QED
      BY <2>3, <3>1 DEF Creates, q
  <2> QED
    BY <2>2, <2>3
<1> QED
  BY <1>1 DEF Asked, Asking

LEMMA AskingFinite ==
  ASSUME conns \in Seq(Conn)
  PROVE  IsFiniteSet(Asking) /\ Cardinality(Asking) \in Nat
<1>1. IsFiniteSet(1..Len(conns))
  BY FS_Interval, LenProperties
<1>2. Asking \subseteq 1..Len(conns)
  BY LenProperties DEF Asking
<1>3. IsFiniteSet(Asking)
  BY <1>1, <1>2, FS_Subset
<1> QED
  BY <1>3, FS_CardinalityType

LEMMA AskingLess ==
  ASSUME conns \in Seq(Conn), Kept(conns, conns', Creates)
  PROVE  Asking' \subseteq Asking /\ Cardinality(Asking') <= Cardinality(Asking)
         /\ Cardinality(Asking') \in Nat
<1>1. Asking' \subseteq Asking
  BY DEF Asking, Kept, Less
<1>2. IsFiniteSet(Asking)
  BY AskingFinite
<1> QED
  BY <1>1, <1>2, FS_Subset, FS_CardinalityType

\* (What the relay sends cannot come back to it.)
UpLess(M) == \A k \in DOMAIN conns : In(conns'[k].up, M) => In(conns[k].up, M)

LEMMA LettersLess ==
  ASSUME Letters, issued \in Nat, issued' \in Nat, issued <= issued',
         Kept(conns, conns', Creates), Kept(conns, conns', Unissued(issued')), UpLess(Answers)
  PROVE  Letters'
<1> DEFINE U == Unissued(issued')
<1>1. U \subseteq Unissued(issued)
  BY DEF Unissued
<1>2. \A k \in DOMAIN conns : ~In(conns[k].down, U)
  BY <1>1 DEF Letters, In
<1>3. Unissued(issued)' = U
  BY DEF Unissued
<1> HIDE DEF U
<1>4. \A k \in DOMAIN conns' : /\ FirstIn(conns'[k].up, Creates) /\ ~In(conns'[k].down, U)
                              /\ ~In(conns'[k].up, Answers)
  BY <1>2 DEF Letters, Kept, Less, U, UpLess
<1> QED
  BY <1>3, <1>4 DEF Letters, Creates, Answers, In, FirstIn

LEMMA AsksSets ==
  /\ Creates \in SUBSET Asks /\ Joins \in SUBSET Asks /\ Answers \in SUBSET Asks
  /\ \A n : Unissued(n) \in SUBSET Asks
  /\ \A c : Tells(c) \in SUBSET Asks
BY DEF Asks, Telling, Creates, Joins, Answers, Unissued, Tells

LEMMA OpenAlike ==
  ASSUME RelayPlaces, DOMAIN transfers' = DOMAIN transfers,
         \A c \in DOMAIN transfers : transfers'[c].sender = transfers[c].sender,
         \A k \in DOMAIN conns : conns'[k].by = conns[k].by,
         NEW d
  PROVE  OpenOf(d)' = OpenOf(d)
BY DEF OpenOf, RelayPlaces

\* A step of the hook, of which the relay knows nothing yet.
LEMMA TurnsQuota ==
  ASSUME QuotaInv, NEW d \in Device, Turns(d), CalmBut(conns, conns'), UNCHANGED relayVars,
         WorkTypes'
  PROVE  QuotaInv'
<1>1. Types /\ Places /\ Letters /\ Counted /\ conns \in Seq(Conn) /\ issued \in Nat
  BY DEF QuotaInv, Types, RelayTypes
<1>2. /\ Kept(conns, conns', Creates) /\ Kept(conns, conns', Unissued(issued'))
      /\ Roles(conns, conns')
  BY AsksSets DEF CalmBut
<1>3. /\ conns' \in Seq(Conn) /\ Len(conns') = Len(conns) /\ DOMAIN conns' = DOMAIN conns
      /\ \A k \in DOMAIN conns : conns'[k].by = conns[k].by
  BY <1>2 DEF Kept
<1>4. PICK h \in Hook : /\ hook' = [hook EXCEPT ![d] = h]
                        /\ h.ws \in {hook[d].ws, 0} /\ h.code \in 0..issued
                        /\ h.status = "idle" => h.ws = 0 /\ h.recv = NoRecv
                        /\ h.status = "review" => h.payload \in Payload
  BY DEF Turns
<1>5. hook' \in [Device -> Hook] /\ hook'[d] = h /\ \A e \in Device : e # d => hook'[e] = hook[e]
  BY <1>1, <1>4 DEF Types
<1>6. Types'
  BY <1>1, <1>3, <1>5 DEF Types, RelayTypes, relayVars
<1>7. Letters'
  <2>1. UpLess(Answers)
    BY AsksSets DEF CalmBut, Kept, Less, UpLess
  <2> QED
    BY <1>1, <1>2, <2>1, LettersLess DEF relayVars
<1>8. RelayPlaces'
  BY <1>1, <1>2, <1>3 DEF Places, RelayPlaces, relayVars, Roles
<1>9. ASSUME NEW e \in Device PROVE HookPlaces(e)'
  <2>1. HookPlaces(e) /\ issued' = issued
    BY <1>1 DEF Places, relayVars
  <2>2. hook[e].ws # 0 => conns'[hook[e].ws].by = conns[hook[e].ws].by
    BY <1>1, <1>3, <2>1, LenProperties DEF HookPlaces
  <2>3. CASE e = d
    BY <1>1, <1>3, <1>4, <1>5, <2>1, <2>2, <2>3 DEF HookPlaces
  <2>4. CASE e # d
    BY <1>3, <1>5, <2>1, <2>2, <2>4 DEF HookPlaces
  <2> QED
    BY <2>3, <2>4
<1>10. Counted'
  <2>1. \A e \in Device : OpenOf(e)' = OpenOf(e)
    BY <1>1, <1>3, OpenAlike DEF relayVars, Places
  <2>2. /\ Cardinality(Asking') <= Cardinality(Asking) /\ Cardinality(Asking') \in Nat
        /\ Cardinality(Asking) \in Nat
    BY <1>1, <1>2, AskingLess, AskingFinite
  <2>3. issued + Cardinality(Asking) <= MaxCodes /\ MaxCodes \in Nat
    BY <1>1, TransferAssumption DEF Counted
  <2>4. issued + Cardinality(Asking') <= MaxCodes
    BY <1>1, <2>2, <2>3
  <2>5. \A e \in Device : ipCounts'[e] = Cardinality(OpenOf(e)')
    BY <1>1, <2>1 DEF Counted, relayVars
  <2> QED
    BY <2>4, <2>5 DEF Counted, relayVars
<1> QED
  BY <1>6, <1>7, <1>8, <1>9, <1>10 DEF QuotaInv, Places

Alone(msg) == <<msg>>
Opens(d, msg, code, n) ==
  /\ conns' \in Seq(Conn) /\ Len(conns') = n /\ n # 0 /\ n \in Nat
  /\ DOMAIN conns' = DOMAIN conns \cup {n} /\ n \notin DOMAIN conns
  /\ \A k \in DOMAIN conns : conns'[k] = conns[k]
  /\ conns'[n].by = d /\ conns'[n].code = 0 /\ conns'[n].role = "none"
  /\ conns'[n].up = Alone(msg) /\ conns'[n].down = <<>>
  /\ hook' \in [Device -> Hook] /\ \A e \in Device : e # d => hook'[e] = hook[e]
  /\ hook'[d].ws = n /\ hook'[d].code = code /\ hook'[d].status = "connecting"
  /\ hook'[d].recv = NoRecv /\ hook[d].recv = NoRecv /\ hook[d].ws = 0

LEMMA ConnectFacts ==
  ASSUME QuotaInv, NEW d \in Device, NEW t \in {"create", "join"}, NEW c \in Nat,
         NEW code \in 0..issued, NEW n, n = Len(conns) + 1, Connect(d, Msg(t, c), code)
  PROVE  Opens(d, Msg(t, c), code, n)
<1> DEFINE msg == Msg(t, c)
           x == [by |-> d, up |-> <<msg>>, down |-> <<>>, end |-> "open",
                 served |-> TRUE, code |-> 0, role |-> "none"]
           h == [hook[d] EXCEPT !.status = "connecting", !.ws = n, !.quiet = FALSE, !.code = code]
<1>1. /\ hook[d] \in Hook /\ HookPlaces(d) /\ conns \in Seq(Conn) /\ issued \in Nat
      /\ hook \in [Device -> Hook] /\ Len(conns) \in Nat
  BY HookFields, LenProperties DEF QuotaInv, Types
<1>2. msg \in Frame
  BY MsgFrame
<1>3. conns' = Append(conns, x)
  BY DEF Connect
<1>4. hook[d].status = "idle" /\ hook' = [hook EXCEPT ![d] = h]
  BY <1>1 DEF Connect
<1>5. code \in Nat /\ n \in Nat /\ n # 0
  BY <1>1
<1>6. /\ h \in Hook /\ h.ws = n /\ h.code = code /\ h.status = "connecting"
      /\ h.recv = hook[d].recv
  BY <1>1, <1>5 DEF Hook, Status, InFlight
<1>7. hook[d].recv = NoRecv /\ hook[d].ws = 0
  BY <1>1, <1>4 DEF HookPlaces
<1> HIDE DEF msg, h
<1>8. <<msg>> \in Seq(Frame) /\ <<>> \in Seq(Frame) /\ 0 \in Nat
  BY <1>2, OneIn, EmptySeq
<1>9. x \in Conn
  BY <1>8 DEF Conn, Role
<1>10. x.by = d /\ x.code = 0 /\ x.role = "none" /\ x.up = <<msg>> /\ x.down = <<>>
  OBVIOUS
<1> HIDE DEF x
<1>11. /\ conns' \in Seq(Conn) /\ Len(conns') = n /\ conns'[n] = x
       /\ \A k \in 1..Len(conns) : conns'[k] = conns[k]
  BY <1>1, <1>3, <1>9, AppendProperties
<1>12. DOMAIN conns' = DOMAIN conns \cup {n} /\ n \notin DOMAIN conns /\ DOMAIN conns = 1..Len(conns)
  BY <1>1, <1>5, <1>11, LenProperties
<1>13. hook' \in [Device -> Hook] /\ hook'[d] = h /\ \A e \in Device : e # d => hook'[e] = hook[e]
  BY <1>1, <1>4, <1>6
<1> QED
  BY <1>5, <1>6, <1>7, <1>10, <1>11, <1>12, <1>13 DEF msg, Alone, Opens

LEMMA FirstMessage ==
  ASSUME NEW msg, NEW M
  PROVE  (In(Alone(msg), M) => msg \in M) /\ FirstIn(Alone(msg), M) /\ ~In(<<>>, M)
BY DEF In, FirstIn, Alone

LEMMA ConnectQuota ==
  ASSUME QuotaInv, NEW d \in Device, NEW t \in {"create", "join"}, NEW c \in Nat,
         NEW code \in 0..issued, Connect(d, Msg(t, c), code),
         t = "create" => issued + Cardinality(Asked) < MaxCodes
  PROVE  QuotaInv'
<1>1. PICK n : n = Len(conns) + 1
  OBVIOUS
<1>2. Opens(d, Msg(t, c), code, n)
  BY <1>1, ConnectFacts
<1>3. Types /\ Places /\ Letters /\ Counted /\ conns \in Seq(Conn) /\ issued \in Nat
      /\ Len(conns) \in Nat /\ DOMAIN conns = 1..Len(conns)
  BY LenProperties DEF QuotaInv, Types, RelayTypes
<1>4. UNCHANGED <<transfers, ipCounts, issued, shown, exporting, verifying, writing, written, taken>>
  BY DEF Connect, relayVars, dataVars
<1>5. Types'
  BY <1>2, <1>3, <1>4 DEF Types, RelayTypes, WorkTypes, Opens
<1>6. RelayPlaces'
  <2>1. RelayPlaces /\ 0 \in 0..issued
    BY <1>3 DEF Places
  <2> QED
    BY <1>2, <1>4, <2>1 DEF RelayPlaces, Opens
<1>7. ASSUME NEW e \in Device PROVE HookPlaces(e)'
  <2>1. HookPlaces(e)
    BY <1>3 DEF Places
  <2>2. CASE e = d
    <3>1. n \in 0..Len(conns')
      BY <1>2 DEF Opens
    <3> QED
      BY <1>2, <1>4, <2>2, <3>1 DEF HookPlaces, Opens
  <2>3. CASE e # d
    <3>1. hook'[e] = hook[e]
      BY <1>2, <2>3 DEF Opens
    <3>2. hook[e].ws \in 0..Len(conns')
      BY <1>1, <1>2, <1>3, <2>1 DEF HookPlaces, Opens
    <3>3. hook[e].ws # 0 => conns'[hook[e].ws].by = e
      BY <1>2, <1>3, <2>1 DEF HookPlaces, Opens
    <3> QED
      BY <1>4, <2>1, <3>1, <3>2, <3>3 DEF HookPlaces
  <2> QED
    BY <2>2, <2>3
<1>8. Letters'
  <2>1. /\ FirstIn(conns'[n].up, Creates) /\ ~In(conns'[n].down, Unissued(issued))
        /\ ~In(conns'[n].up, Answers)
    <3>1. conns'[n].up = Alone(Msg(t, c)) /\ conns'[n].down = <<>>
      BY <1>2 DEF Opens
    <3>2. FirstIn(Alone(Msg(t, c)), Creates) /\ ~In(<<>>, Unissued(issued))
      BY FirstMessage
    <3>3. Msg(t, c) \notin Answers
      BY DEF Msg, Answers
    <3>4. ~In(Alone(Msg(t, c)), Answers)
      BY <3>3, FirstMessage
    <3> QED
      BY <3>1, <3>2, <3>4
  <2>2. \A k \in DOMAIN conns' : /\ FirstIn(conns'[k].up, Creates)
                                 /\ ~In(conns'[k].up, Answers)
                                 /\ ~In(conns'[k].down, Unissued(issued))
    BY <1>2, <1>3, <2>1 DEF Letters, Opens
  <2>3. Unissued(issued)' = Unissued(issued)
    BY <1>4 DEF Unissued
  <2> QED
    BY <2>2, <2>3 DEF Letters, Creates, Answers, FirstIn, In
<1>9. Counted'
  <2>1. \A e \in Device : OpenOf(e)' = OpenOf(e)
    BY <1>2, <1>3, <1>4, OpenAlike DEF Places, Opens
  <2>2. \A e \in Device : ipCounts'[e] = Cardinality(OpenOf(e)')
    BY <1>3, <1>4, <2>1 DEF Counted
  <2>3. Asking' \subseteq Asking \cup {n}
    BY <1>2 DEF Asking, Opens
  <2>4. IsFiniteSet(Asking) /\ Cardinality(Asking) \in Nat
    BY <1>3, AskingFinite
  <2>5. issued + Cardinality(Asking') <= MaxCodes
    <3>1. CASE t = "create"
      <4>1. issued + Cardinality(Asking) < MaxCodes /\ MaxCodes \in Nat
        BY <1>3, <3>1, AskedIsAsking, TransferAssumption
      <4>2. n \notin Asking
        BY <1>2 DEF Asking, Opens
      <4>3. IsFiniteSet(Asking \cup {n}) /\ Cardinality(Asking \cup {n}) = Cardinality(Asking) + 1
        BY <2>4, <4>2, FS_AddElement
      <4>4. Cardinality(Asking') <= Cardinality(Asking) + 1 /\ Cardinality(Asking') \in Nat
        BY <2>3, <4>3, FS_Subset, FS_CardinalityType
      <4> QED
        BY <1>3, <2>4, <4>1, <4>4
    <3>2. CASE t = "join"
      <4>1. Msg(t, c) \notin Creates
        BY <3>2 DEF Msg, Creates
      <4>2. Asking' \subseteq Asking
        <5>1. ~In(conns'[n].up, Creates)
          BY <1>2, <4>1, FirstMessage DEF Opens
        <5>2. Creates' = Creates
          BY DEF Creates
        <5> QED
          BY <1>2, <5>1, <5>2 DEF Asking, In, Opens
      <4>3. Cardinality(Asking') <= Cardinality(Asking) /\ Cardinality(Asking') \in Nat
        BY <2>4, <4>2, FS_Subset, FS_CardinalityType
      <4>4. issued + Cardinality(Asking) <= MaxCodes /\ MaxCodes \in Nat
        BY <1>3, TransferAssumption DEF Counted
      <4> QED
        BY <1>3, <2>4, <4>3, <4>4
    <3> QED
      BY <3>1, <3>2
  <2> QED
    BY <1>4, <2>2, <2>5 DEF Counted
<1> QED
  BY <1>5, <1>6, <1>7, <1>8, <1>9 DEF QuotaInv, Places

LEMMA StartQuota ==
  ASSUME QuotaInv, NEW d \in Device, StartSend(d) \/ \E c \in Code : StartReceive(d, c)
  PROVE  QuotaInv'
<1>1. CASE StartSend(d)
  <2>1. hook[d].code \in 0..issued /\ 0 \in Nat
    BY HookFields
  <2> QED
    BY <1>1, <2>1, ConnectQuota DEF StartSend
<1>2. CASE \E c \in Code : StartReceive(d, c)
  <2>1. PICK c \in Code : StartReceive(d, c)
    BY <1>2
  <2>2. c \in 1..issued /\ issued \in Nat
    BY <2>1 DEF StartReceive, QuotaInv, Types, WorkTypes, RelayTypes
  <2>3. c \in 0..issued /\ c \in Nat
    BY <2>2
  <2>4. Connect(d, Msg("join", c), c)
    BY <2>1 DEF StartReceive
  <2> QED
    BY <2>3, <2>4, ConnectQuota
<1> QED
  BY <1>1, <1>2

\* A step of the relay, of which the hooks know nothing yet.
LEMMA RelayQuota ==
  ASSUME QuotaInv, UNCHANGED <<hook, shown, exporting, verifying, dataVars, taken>>,
         issued <= issued', Kept(conns, conns', Creates), Kept(conns, conns', Unissued(issued')),
         UpLess(Answers), RelayTypes', RelayPlaces', Counted'
  PROVE  QuotaInv'
<1>1. /\ Types /\ Places /\ Letters /\ Counted /\ conns \in Seq(Conn)
      /\ issued \in Nat /\ issued' \in Nat /\ DOMAIN conns = 1..Len(conns)
  BY LenProperties DEF QuotaInv, Types, RelayTypes
<1>2. /\ conns' \in Seq(Conn) /\ Len(conns') = Len(conns) /\ DOMAIN conns' = DOMAIN conns
      /\ \A k \in DOMAIN conns : conns'[k].by = conns[k].by
  BY DEF Kept
<1>3. Letters'
  BY <1>1, LettersLess
<1>4. 1..issued \subseteq 1..issued' /\ 0..issued \subseteq 0..issued'
  BY <1>1
<1>5. Types'
  BY <1>1, <1>2, <1>4 DEF Types, WorkTypes, dataVars
<1>6. ASSUME NEW e \in Device PROVE HookPlaces(e)'
  <2>1. HookPlaces(e) /\ hook'[e] = hook[e]
    BY <1>1 DEF Places
  <2>2. hook[e].ws # 0 => conns'[hook[e].ws].by = e
    BY <1>1, <1>2, <2>1 DEF HookPlaces
  <2> QED
    BY <1>2, <1>4, <2>1, <2>2 DEF HookPlaces
<1> QED
  BY <1>3, <1>5, <1>6 DEF QuotaInv, Places

\* What the relay answers a socket that asks for a code.
LEMMA CreateFacts ==
  ASSUME QuotaInv, NEW k \in DOMAIN conns, conns[k].up # <<>>, HandleCreate(k, Popped(k))
  PROVE  /\ \A M \in SUBSET (Frame \ {Msg("created", issued + 1)}) :
              Msg("error", 0) \notin M => Kept(conns, conns', M)
         /\ FirstIn(conns[k].up, Creates) => ~In(conns'[k].up, Creates)
         /\ UpLess(Answers)
         /\ \A i \in DOMAIN conns : i # k => /\ conns'[i].code = conns[i].code
                                             /\ conns'[i].role = conns[i].role
         /\ \/ /\ issued' = issued + 1 /\ conns'[k].code = issued + 1 /\ conns'[k].role = "sender"
               /\ transfers' = [e \in DOMAIN transfers \cup {issued + 1} |->
                                  IF e = issued + 1 THEN [sender |-> k, receiver |-> 0] ELSE transfers[e]]
               /\ ipCounts' = [ipCounts EXCEPT ![conns[k].by] = @ + 1]
            \/ /\ UNCHANGED relayVars
               /\ conns'[k].code = conns[k].code /\ conns'[k].role = conns[k].role
<1> DEFINE c == issued + 1
           cs == Popped(k)
<1>1. /\ conns \in Seq(Conn) /\ issued \in Nat /\ c \in Nat /\ k \in 0..Len(conns) /\ k # 0
      /\ DOMAIN conns = 1..Len(conns)
  BY LenProperties DEF QuotaInv, Types, RelayTypes
<1>2. /\ Roles(conns, cs) /\ \A M : Kept(conns, cs, M)
      /\ cs[k].up = Tail(conns[k].up)
  BY <1>1, PoppedFacts
<1>3. cs \in Seq(Conn) /\ Len(cs) = Len(conns) /\ DOMAIN cs = DOMAIN conns
  BY <1>2 DEF Kept
<1>4. FirstIn(conns[k].up, Creates) => ~In(cs[k].up, Creates)
  BY <1>1, <1>2, ConnFields, LessTail
<1>5. Msg("error", 0) \in Frame /\ Msg("created", c) \in Frame
  BY <1>1, MsgFrame
<1> HIDE DEF cs
<1> HIDE DEF c
<1>6. CASE /\ issued' = c
           /\ conns' = Sent([cs EXCEPT ![k].code = c, ![k].role = "sender"], k, Msg("created", c))
           /\ transfers' = [e \in DOMAIN transfers \cup {c} |->
                              IF e = c THEN [sender |-> k, receiver |-> 0] ELSE transfers[e]]
           /\ ipCounts' = [ipCounts EXCEPT ![conns[k].by] = @ + 1]
  <2> DEFINE ds == Marked(cs, k, c, "sender")
  <2>1. "sender" \in Role /\ k \in DOMAIN cs /\ cs \in Seq(Conn) /\ c \in Nat
    BY <1>1, <1>3 DEF Role
  <2>2. /\ \A M : Kept(cs, ds, M)
        /\ ds[k].code = c /\ ds[k].role = "sender" /\ ds[k].up = cs[k].up
        /\ \A i \in DOMAIN cs : i # k => ds[i] = cs[i]
    BY <2>1, MarkedFacts
  <2>3. conns' = Sent(ds, k, Msg("created", c))
    BY <1>6 DEF Marked
  <2> HIDE DEF ds
  <2>4. ds \in Seq(Conn) /\ Len(ds) = Len(conns) /\ DOMAIN ds = DOMAIN conns
    BY <1>3, <2>2 DEF Kept
  <2>5. /\ Roles(ds, conns') /\ \A M : Msg("created", c) \notin M => Kept(ds, conns', M)
        /\ \A i \in DOMAIN ds : conns'[i].up = ds[i].up
    BY <1>1, <1>5, <2>3, <2>4, SentFacts
  <2>6. ASSUME NEW M \in SUBSET (Frame \ {Msg("created", c)}) PROVE Kept(conns, conns', M)
    <3>1. Kept(conns, cs, M) /\ Kept(cs, ds, M) /\ Kept(ds, conns', M)
      BY <1>2, <2>2, <2>5
    <3> QED
      BY <3>1, KeptTwice
  <2>7. conns'[k].code = c /\ conns'[k].role = "sender"
    BY <2>2, <2>4, <2>5 DEF Roles
  <2>8. \A i \in DOMAIN conns : i # k => /\ conns'[i].code = conns[i].code
                                         /\ conns'[i].role = conns[i].role
    BY <1>2, <1>3, <2>2, <2>4, <2>5 DEF Roles
  <2>9. FirstIn(conns[k].up, Creates) => ~In(conns'[k].up, Creates)
    BY <1>1, <1>4, <2>2, <2>4, <2>5
  <2>10. UpLess(Answers)
    BY <1>2, <1>3, <2>2, <2>4, <2>5 DEF Kept, Less, UpLess
  <2> QED
    BY <1>6, <2>6, <2>7, <2>8, <2>9, <2>10 DEF c
<1>7. CASE conns' = Sent(cs, k, Msg("error", 0)) /\ UNCHANGED relayVars
  <2>1. /\ Roles(cs, conns') /\ \A M : Msg("error", 0) \notin M => Kept(cs, conns', M)
        /\ \A i \in DOMAIN cs : conns'[i].up = cs[i].up
    BY <1>1, <1>3, <1>5, <1>7, SentFacts
  <2>2. \A M : Msg("error", 0) \notin M => Kept(conns, conns', M)
    BY <1>2, <2>1, KeptTwice
  <2>3. \A i \in DOMAIN conns : conns'[i].code = conns[i].code /\ conns'[i].role = conns[i].role
    BY <1>2, <1>3, <2>1 DEF Roles
  <2>4. UpLess(Answers)
    BY <1>2, <1>3, <2>1 DEF Kept, Less, UpLess
  <2> QED
    BY <1>1, <1>3, <1>4, <1>7, <2>1, <2>2, <2>3, <2>4
<1> QED
  BY <1>6, <1>7 DEF HandleCreate, NewCode, cs, c

LEMMA CreateQuota ==
  ASSUME QuotaInv, NEW k \in DOMAIN conns, conns[k].up # <<>>,
         Head(conns[k].up).type = "create", HandleCreate(k, Popped(k)),
         UNCHANGED <<hook, shown, exporting, verifying, dataVars, taken>>
  PROVE  QuotaInv'
<1> DEFINE c == issued + 1
           d == conns[k].by
<1>1. /\ Types /\ RelayTypes /\ Places /\ RelayPlaces /\ Letters /\ Counted /\ conns \in Seq(Conn)
      /\ issued \in Nat /\ k \in Nat /\ k # 0
  BY LenProperties DEF QuotaInv, Types, RelayTypes, Places
<1>2. FirstIn(conns[k].up, Creates)
  BY <1>1 DEF Letters
<1>3. /\ \A M \in SUBSET (Frame \ {Msg("created", c)}) :
           Msg("error", 0) \notin M => Kept(conns, conns', M)
      /\ ~In(conns'[k].up, Creates) /\ UpLess(Answers)
      /\ \A i \in DOMAIN conns : i # k => conns'[i].code = conns[i].code
      /\ \/ /\ issued' = c /\ conns'[k].code = c
            /\ transfers' = [e \in DOMAIN transfers \cup {c} |->
                               IF e = c THEN [sender |-> k, receiver |-> 0] ELSE transfers[e]]
            /\ ipCounts' = [ipCounts EXCEPT ![d] = @ + 1]
         \/ UNCHANGED relayVars /\ conns'[k].code = conns[k].code
  BY <1>2, CreateFacts
<1>4. Kept(conns, conns', Creates)
  <2>1. Creates \in SUBSET (Frame \ {Msg("created", c)}) /\ Msg("error", 0) \notin Creates
    BY DEF Creates, Msg
  <2> QED
    BY <1>3, <2>1
<1>5. issued' \in Nat /\ issued <= issued'
  BY <1>1, <1>3 DEF relayVars
<1>6. Kept(conns, conns', Unissued(c)) /\ Kept(conns, conns', Unissued(issued'))
  <2>1. Unissued(c) \in SUBSET (Frame \ {Msg("created", c)}) /\ Msg("error", 0) \notin Unissued(c)
    BY <1>1 DEF Unissued, Msg
  <2>2. Kept(conns, conns', Unissued(c))
    BY <1>3, <2>1
  <2>3. CASE issued' = c
    BY <2>2, <2>3
  <2>4. CASE UNCHANGED relayVars
    <3>1. Head(conns[k].up) \in Frame /\ UNCHANGED relayVars
      BY <1>1, <2>4, PoppedFacts
    <3>2. HandleCreate(k, Popped(k)) /\ issued' = issued /\ issued # c
      BY <1>1, <3>1 DEF relayVars
    <3>3. conns' = Sent(Popped(k), k, Msg("error", 0))
      BY <3>2 DEF HandleCreate, NewCode
    <3>4. /\ \A M : Kept(conns, Popped(k), M)
          /\ Popped(k) \in Seq(Conn) /\ Len(Popped(k)) = Len(conns)
      BY <1>1, PoppedFacts DEF Kept
    <3>5. k \in 0..Len(Popped(k)) /\ Msg("error", 0) \in Frame
      BY <1>1, <3>4, LenProperties, MsgFrame
    <3>6. Msg("error", 0) \notin Unissued(issued')
      BY DEF Unissued, Msg
    <3>7. Kept(Popped(k), conns', Unissued(issued'))
      BY <3>3, <3>4, <3>5, <3>6, SentFacts
    <3> QED
      BY <2>2, <3>4, <3>7, KeptTwice
  <2> QED
    BY <1>3, <2>2, <2>3, <2>4
<1>7. /\ conns' \in Seq(Conn) /\ Len(conns') = Len(conns) /\ DOMAIN conns' = DOMAIN conns
      /\ \A i \in DOMAIN conns : conns'[i].by = conns[i].by
  BY <1>4 DEF Kept
<1>8. Asking' \subseteq Asking \ {k} /\ k \in Asking
  <2>1. Asking' \subseteq Asking
    BY <1>1, <1>4, AskingLess
  <2>2. k \notin Asking'
    BY <1>3 DEF Asking, Creates
  <2>3. Asked = Asking
    BY <1>1, AskedIsAsking
  <2>4. k \in Asked
    BY DEF Asked
  <2> QED
    BY <2>1, <2>2, <2>3, <2>4
<1>9. issued' + Cardinality(Asking') <= MaxCodes
  <2>1. IsFiniteSet(Asking) /\ Cardinality(Asking) \in Nat
    BY <1>1, AskingFinite
  <2>2. Cardinality(Asking \ {k}) = Cardinality(Asking) - 1 /\ IsFiniteSet(Asking \ {k})
    BY <1>8, <2>1, FS_RemoveElement
  <2>3. Cardinality(Asking') <= Cardinality(Asking) - 1 /\ Cardinality(Asking') \in Nat
    BY <1>8, <2>2, FS_Subset, FS_CardinalityType
  <2>4. issued + Cardinality(Asking) <= MaxCodes /\ MaxCodes \in Nat
    BY <1>1, TransferAssumption DEF Counted
  <2>5. issued' <= issued + 1
    BY <1>1, <1>3 DEF relayVars
  <2> QED
    BY <1>1, <1>5, <2>1, <2>3, <2>4, <2>5
<1>10. CASE /\ issued' = c /\ conns'[k].code = c
            /\ transfers' = [e \in DOMAIN transfers \cup {c} |->
                               IF e = c THEN [sender |-> k, receiver |-> 0] ELSE transfers[e]]
            /\ ipCounts' = [ipCounts EXCEPT ![d] = @ + 1]
  <2>1. d \in Device
    BY <1>1, ConnFields
  <2>2. c \notin DOMAIN transfers /\ DOMAIN transfers \subseteq 1..issued /\ c \in Nat
    BY <1>1 DEF RelayTypes
  <2>3. DOMAIN transfers' = DOMAIN transfers \cup {c} /\ transfers'[c] = [sender |-> k, receiver |-> 0]
        /\ \A e \in DOMAIN transfers : transfers'[e] = transfers[e]
    BY <1>10, <2>2
  <2>4. RelayTypes'
    <3>1. transfers' \in [DOMAIN transfers' -> [sender : Nat, receiver : Nat]]
      <4>1. [sender |-> k, receiver |-> 0] \in [sender : Nat, receiver : Nat]
        BY <1>1
      <4>2. \A e \in DOMAIN transfers : transfers[e] \in [sender : Nat, receiver : Nat]
        BY <1>1 DEF RelayTypes
      <4> QED
        BY <1>10, <4>1, <4>2
    <3>2. DOMAIN transfers' \subseteq 1..issued'
      BY <1>1, <1>10, <2>2, <2>3
    <3>3. ipCounts' \in [Device -> Int]
      <4>1. ipCounts \in [Device -> Int] /\ ipCounts[d] + 1 \in Int
        BY <1>1, <2>1 DEF RelayTypes
      <4> QED
        BY <1>10, <4>1
    <3> QED
      BY <1>5, <3>1, <3>2, <3>3 DEF RelayTypes
  <2>5. RelayPlaces'
    <3>1. \A i \in DOMAIN conns' : conns'[i].code \in 0..issued'
      BY <1>1, <1>3, <1>7, <1>10 DEF RelayPlaces
    <3>2. \A e \in DOMAIN transfers' : /\ transfers'[e].sender \in DOMAIN conns'
                                       /\ transfers'[e].receiver \in DOMAIN conns' \cup {0}
      BY <1>1, <1>7, <2>3 DEF RelayPlaces
    <3> QED
      BY <3>1, <3>2 DEF RelayPlaces
  <2>6. ASSUME NEW e \in Device PROVE ipCounts'[e] = Cardinality(OpenOf(e)')
    <3>1. ipCounts[e] = Cardinality(OpenOf(e))
      BY <1>1 DEF Counted
    <3>2. IsFiniteSet(OpenOf(e)) /\ c \notin OpenOf(e)
      <4>1. OpenOf(e) \subseteq 1..issued
        BY <2>2 DEF OpenOf
      <4>2. IsFiniteSet(1..issued)
        BY <1>1, FS_Interval
      <4> QED
        BY <2>2, <4>1, <4>2, FS_Subset DEF OpenOf
    <3>3. \A x \in DOMAIN transfers : conns'[transfers'[x].sender].by = conns[transfers[x].sender].by
      BY <1>1, <1>7, <2>3 DEF RelayPlaces
    <3>4. conns'[transfers'[c].sender].by = d
      BY <1>7, <2>3
    <3>5. CASE e = d
      <4>1. OpenOf(e)' = OpenOf(e) \cup {c}
        BY <2>3, <3>3, <3>4, <3>5 DEF OpenOf
      <4>2. Cardinality(OpenOf(e) \cup {c}) = Cardinality(OpenOf(e)) + 1
        BY <3>2, FS_AddElement
      <4>3. ipCounts'[e] = ipCounts[e] + 1
        BY <1>1, <1>10, <3>5 DEF RelayTypes
      <4> QED
        BY <3>1, <4>1, <4>2, <4>3
    <3>6. CASE e # d
      <4>1. OpenOf(e)' = OpenOf(e)
        BY <2>3, <3>3, <3>4, <3>6 DEF OpenOf
      <4>2. ipCounts'[e] = ipCounts[e]
        BY <1>1, <1>10, <3>6 DEF RelayTypes
      <4> QED
        BY <3>1, <4>1, <4>2
    <3> QED
      BY <3>5, <3>6
  <2>7. Counted'
    BY <1>9, <2>6 DEF Counted
  <2> QED
    BY <1>3, <1>4, <1>5, <1>6, <2>4, <2>5, <2>7, RelayQuota
<1>11. CASE UNCHANGED relayVars /\ conns'[k].code = conns[k].code
  <2>1. RelayTypes'
    BY <1>1, <1>11 DEF RelayTypes, relayVars
  <2>2. RelayPlaces'
    BY <1>1, <1>3, <1>7, <1>11 DEF RelayPlaces, relayVars
  <2>3. \A e \in Device : OpenOf(e)' = OpenOf(e)
    BY <1>1, <1>7, <1>11, OpenAlike DEF relayVars
  <2>4. Counted'
    BY <1>1, <1>9, <1>11, <2>3 DEF Counted, relayVars
  <2> QED
    BY <1>3, <1>4, <1>5, <1>6, <2>1, <2>2, <2>4, RelayQuota
<1> QED
  BY <1>3, <1>10, <1>11

\* A step that leaves the relay's records as they are.
LEMMA CalmQuota ==
  ASSUME QuotaInv, NEW k \in DOMAIN conns, CalmBut(conns, conns'),
         UNCHANGED relayVars, UNCHANGED <<hook, shown, exporting, verifying, dataVars, taken>>
  PROVE  QuotaInv'
<1>1. conns \in Seq(Conn) /\ WorkTypes
  BY DEF QuotaInv, Types
<1>2. conns[k].by \in Device
  BY <1>1, ConnFields
<1>3. WorkTypes'
  BY <1>1 DEF WorkTypes, relayVars, dataVars
<1>4. Turns(conns[k].by)
  BY <1>2, StillMild, MildTurns
<1> QED
  BY <1>2, <1>3, <1>4, TurnsQuota

\* The first to join is let in.
Admits(k, c, m) ==
  /\ MayJoin(c) /\ m = transfers[c].sender
  /\ transfers' = [transfers EXCEPT ![c].receiver = k] /\ UNCHANGED <<ipCounts, issued>>
  /\ conns'[k].code = c /\ conns'[k].role = "receiver"
  /\ \A i \in DOMAIN conns : i # k => /\ conns'[i].code = conns[i].code
                                      /\ conns'[i].role = conns[i].role
  /\ \A M \in SUBSET Telling : Msg("peer_joined", c) \notin M => Kept(conns, conns', M)
  /\ UpLess(Answers)
  /\ \A i \in DOMAIN conns : i # m /\ In(conns'[i].down, Tells(c)) => In(conns[i].down, Tells(c))
  /\ ~In(conns[m].down, Tells(c)) => OnceIn(conns'[m].down, Tells(c))

LEMMA JoinFacts ==
  ASSUME QuotaInv, NEW k \in DOMAIN conns, conns[k].up # <<>>, NEW c \in Nat,
         HandleJoin(k, c, Popped(k))
  PROVE  (\E m \in DOMAIN conns : Admits(k, c, m)) \/ (Calm(conns, conns') /\ UNCHANGED relayVars)
<1> DEFINE cs == Popped(k)
           m == transfers[c].sender
           ds == Marked(cs, k, c, "receiver")
           es == Sent(ds, k, Msg("joined", c))
<1>1. /\ conns \in Seq(Conn) /\ k \in 0..Len(conns) /\ k # 0 /\ DOMAIN conns = 1..Len(conns)
      /\ RelayPlaces
  BY LenProperties DEF QuotaInv, Types, Places
<1>2. Roles(conns, cs) /\ (\A M : Kept(conns, cs, M)) /\ Calm(conns, cs)
      /\ \A i \in DOMAIN conns : cs[i].down = conns[i].down
  BY <1>1, PoppedFacts DEF Calm
<1>3. cs \in Seq(Conn) /\ Len(cs) = Len(conns) /\ DOMAIN cs = DOMAIN conns
  BY <1>2 DEF Kept
<1>4. /\ Msg("error", 0) \in Frame \ Telling /\ Msg("joined", c) \in Frame \ Telling
      /\ Msg("peer_joined", c) \in Frame
  BY MsgFrame
<1> HIDE DEF cs, ds
<1>5. CASE /\ MayJoin(c) /\ transfers' = [transfers EXCEPT ![c].receiver = k]
           /\ conns' = Sent(Sent(Marked(cs, k, c, "receiver"), k, Msg("joined", c)),
                            transfers[c].sender, Msg("peer_joined", c))
           /\ UNCHANGED <<ipCounts, issued>>
  <2>1. "receiver" \in Role /\ k \in DOMAIN cs /\ cs \in Seq(Conn)
    BY <1>3 DEF Role
  <2>2. /\ \A M : Kept(cs, ds, M)
        /\ ds[k].code = c /\ ds[k].role = "receiver"
        /\ \A i \in DOMAIN cs : /\ i # k => ds[i] = cs[i]
                                /\ ds[i].down = cs[i].down
    BY <2>1, MarkedFacts DEF ds
  <2>3. ds \in Seq(Conn) /\ Len(ds) = Len(conns) /\ DOMAIN ds = DOMAIN conns
    BY <1>3, <2>2 DEF Kept
  <2>4. Calm(ds, es) /\ \A i \in DOMAIN ds : es[i].up = ds[i].up
    BY <1>1, <1>4, <2>3, SentCalm, SentFacts
  <2>5. conns' = Sent(es, m, Msg("peer_joined", c))
    BY <1>5 DEF ds
  <2>6. m \in DOMAIN conns /\ m \in 0..Len(conns) /\ m # 0
    BY <1>1, <1>5 DEF MayJoin, RelayPlaces
  <2> HIDE DEF es, m
  <2>7. es \in Seq(Conn) /\ Len(es) = Len(conns) /\ DOMAIN es = DOMAIN conns
    BY <2>3, <2>4, CalmSeq
  <2>8. /\ Roles(es, conns') /\ \A M : Msg("peer_joined", c) \notin M => Kept(es, conns', M)
        /\ \A i \in DOMAIN es : (i # m => conns'[i] = es[i]) /\ conns'[i].up = es[i].up
        /\ \A M : ~In(es[m].down, M) => OnceIn(conns'[m].down, M)
    <3> DEFINE msg == Msg("peer_joined", c)
    <3>1. msg \in Frame /\ m \in 0..Len(es) /\ conns' = Sent(es, m, msg)
      BY <1>4, <2>5, <2>6, <2>7
    <3> HIDE DEF msg
    <3>2. /\ Roles(es, conns') /\ \A M : msg \notin M => Kept(es, conns', M)
          /\ \A i \in DOMAIN es : (i # m => conns'[i] = es[i]) /\ conns'[i].up = es[i].up
      BY <2>7, <3>1, SentFacts
    <3>3. \A M : ~In(es[m].down, M) => OnceIn(conns'[m].down, M)
      BY <2>6, <2>7, <3>1, SentFacts
    <3> QED
      BY <3>2, <3>3 DEF msg
  <2>9. ASSUME NEW M \in SUBSET Telling, Msg("peer_joined", c) \notin M
        PROVE  Kept(conns, conns', M)
    <3>1. Kept(conns, cs, M) /\ Kept(cs, ds, M) /\ Kept(ds, es, M) /\ Kept(es, conns', M)
      BY <1>2, <2>2, <2>4, <2>8, <2>9 DEF Calm
    <3> QED
      BY <3>1, KeptTwice
  <2>10. \A M \in SUBSET Telling : \A i \in DOMAIN conns : In(es[i].down, M) => In(conns[i].down, M)
    BY <1>2, <1>3, <2>2, <2>3, <2>4 DEF Calm, Kept, Less
  <2>11. Tells(c) \in SUBSET Telling
    BY DEF Tells, Telling
  <2>12. /\ \A i \in DOMAIN conns : i # m /\ In(conns'[i].down, Tells(c)) => In(conns[i].down, Tells(c))
         /\ ~In(conns[m].down, Tells(c)) => OnceIn(conns'[m].down, Tells(c))
    BY <2>6, <2>7, <2>8, <2>10, <2>11
  <2>13. UpLess(Answers)
    <3>1. \A i \in DOMAIN conns : conns'[i].up = ds[i].up
      BY <2>3, <2>4, <2>7, <2>8
    <3> QED
      BY <1>2, <1>3, <2>2, <3>1 DEF Kept, Less, UpLess
  <2>14. /\ conns'[k].code = c /\ conns'[k].role = "receiver"
         /\ \A i \in DOMAIN conns : i # k => /\ conns'[i].code = conns[i].code
                                             /\ conns'[i].role = conns[i].role
    <3>1. \A i \in DOMAIN conns : conns'[i].code = ds[i].code /\ conns'[i].role = ds[i].role
      BY <2>3, <2>4, <2>7, <2>8 DEF Roles, Calm
    <3> QED
      BY <1>2, <1>3, <2>2, <3>1 DEF Roles
  <2>15. Admits(k, c, m)
    BY <1>5, <2>9, <2>12, <2>13, <2>14 DEF Admits, m
  <2> QED
    BY <2>6, <2>15
<1>6. CASE conns' = Sent(cs, k, Msg("error", 0)) /\ UNCHANGED relayVars
  <2>1. Calm(cs, conns')
    BY <1>1, <1>3, <1>4, <1>6, SentCalm
  <2> QED
    BY <1>1, <1>2, <1>6, <2>1, CalmTwice
<1> QED
  BY <1>5, <1>6 DEF HandleJoin, Marked, cs

LEMMA JoinQuota ==
  ASSUME QuotaInv, NEW k \in DOMAIN conns, conns[k].up # <<>>, NEW c \in Nat,
         HandleJoin(k, c, Popped(k)),
         UNCHANGED <<hook, shown, exporting, verifying, dataVars, taken>>
  PROVE  QuotaInv'
<1>1. CASE Calm(conns, conns') /\ UNCHANGED relayVars
  BY <1>1, CalmIsCalmBut, CalmQuota
<1>2. ASSUME NEW m \in DOMAIN conns, Admits(k, c, m) PROVE QuotaInv'
  <2>1. /\ RelayTypes /\ RelayPlaces /\ Counted /\ conns \in Seq(Conn) /\ issued \in Nat
        /\ k \in Nat
    BY LenProperties DEF QuotaInv, Types, Places, RelayTypes
  <2>2. /\ c \in DOMAIN transfers /\ transfers' = [transfers EXCEPT ![c].receiver = k]
        /\ ipCounts' = ipCounts /\ issued' = issued
    BY <1>2 DEF Admits, MayJoin
  <2>3. c \in 1..issued
    BY <2>1, <2>2 DEF RelayTypes
  <2>4. Kept(conns, conns', Creates) /\ Kept(conns, conns', Unissued(issued'))
    <3>1. /\ Creates \in SUBSET Telling /\ Unissued(issued') \in SUBSET Telling
          /\ Msg("peer_joined", c) \notin Creates
      BY DEF Creates, Unissued, Telling, Msg
    <3>2. Msg("peer_joined", c) \notin Unissued(issued')
      BY <2>2, <2>3 DEF Unissued, Msg
    <3> QED
      BY <1>2, <3>1, <3>2 DEF Admits
  <2>5. /\ conns' \in Seq(Conn) /\ Len(conns') = Len(conns) /\ DOMAIN conns' = DOMAIN conns
        /\ \A i \in DOMAIN conns : conns'[i].by = conns[i].by
    BY <2>4 DEF Kept
  <2>6. /\ DOMAIN transfers' = DOMAIN transfers
        /\ \A e \in DOMAIN transfers : /\ transfers'[e].sender = transfers[e].sender
                                       /\ transfers'[e].receiver \in {transfers[e].receiver, k}
                                       /\ transfers'[e] \in [sender : Nat, receiver : Nat]
    <3>1. \A e \in DOMAIN transfers : transfers[e] \in [sender : Nat, receiver : Nat]
      BY <2>1 DEF RelayTypes
    <3> QED
      BY <2>1, <2>2, <3>1
  <2>7. RelayTypes'
    <3>1. transfers' \in [DOMAIN transfers' -> [sender : Nat, receiver : Nat]]
      BY <2>2, <2>6
    <3> QED
      BY <2>1, <2>2, <2>6, <3>1 DEF RelayTypes
  <2>8. RelayPlaces'
    <3>1. \A i \in DOMAIN conns' : conns'[i].code \in 0..issued'
      BY <1>2, <2>1, <2>2, <2>3, <2>5 DEF RelayPlaces, Admits
    <3>2. \A e \in DOMAIN transfers' : /\ transfers'[e].sender \in DOMAIN conns'
                                       /\ transfers'[e].receiver \in DOMAIN conns' \cup {0}
      BY <2>1, <2>5, <2>6 DEF RelayPlaces
    <3> QED
      BY <3>1, <3>2 DEF RelayPlaces
  <2>9. Counted'
    <3>1. \A e \in Device : OpenOf(e)' = OpenOf(e)
      BY <2>1, <2>5, <2>6, OpenAlike
    <3>2. Cardinality(Asking') <= Cardinality(Asking) /\ Cardinality(Asking') \in Nat
          /\ Cardinality(Asking) \in Nat
      BY <2>1, <2>4, AskingLess, AskingFinite
    <3>3. issued + Cardinality(Asking) <= MaxCodes /\ MaxCodes \in Nat
      BY <2>1, TransferAssumption DEF Counted
    <3>4. issued' + Cardinality(Asking') <= MaxCodes
      BY <2>1, <2>2, <3>2, <3>3
    <3> QED
      BY <2>1, <2>2, <3>1, <3>4 DEF Counted
  <2>10. UpLess(Answers) /\ issued <= issued'
    BY <1>2, <2>1, <2>2 DEF Admits
  <2> QED
    BY <2>4, <2>7, <2>8, <2>9, <2>10, RelayQuota
<1> QED
  BY <1>1, <1>2, JoinFacts

\* An announcement goes from a sender to the receiver of its code.
Passes(k, msg, r) ==
  /\ msg.type = "begin" /\ conns[k].role = "sender" /\ msg.code \in DOMAIN transfers
  /\ r = transfers[msg.code].receiver /\ UNCHANGED relayVars
  /\ Roles(conns, conns')
  /\ \A M \in SUBSET Telling : msg \notin M => Kept(conns, conns', M)
  /\ conns'[k].up = Tail(conns[k].up)
  /\ \A i \in DOMAIN conns : i # k => conns'[i].up = conns[i].up
  /\ \A i \in DOMAIN conns :
       i # r /\ In(conns'[i].down, Begins(msg.sha)) => In(conns[i].down, Begins(msg.sha))
  /\ r # 0 /\ ~In(conns[r].down, Begins(msg.sha)) => OnceIn(conns'[r].down, Begins(msg.sha))

LEMMA ForwardFacts ==
  ASSUME QuotaInv, NEW k \in DOMAIN conns, conns[k].up # <<>>, NEW msg, msg = Head(conns[k].up),
         msg.type \notin {"create", "join"}, Forward(k, msg, Popped(k))
  PROVE  /\ msg \in Frame /\ UNCHANGED relayVars
         /\ Calm(conns, conns') \/ \E r \in DOMAIN conns \cup {0} : Passes(k, msg, r)
<1> DEFINE cs == Popped(k)
<1>1. /\ conns \in Seq(Conn) /\ k \in 0..Len(conns) /\ DOMAIN conns = 1..Len(conns)
      /\ RelayPlaces /\ Letters
  BY LenProperties DEF QuotaInv, Types, Places
<1>2. /\ Roles(conns, cs) /\ (\A M : Kept(conns, cs, M)) /\ Calm(conns, cs) /\ msg \in Frame
      /\ cs[k].up = Tail(conns[k].up)
      /\ \A i \in DOMAIN conns : /\ cs[i].down = conns[i].down
                                 /\ i # k => cs[i] = conns[i]
  BY <1>1, PoppedFacts DEF Calm
<1>3. cs \in Seq(Conn) /\ Len(cs) = Len(conns) /\ DOMAIN cs = DOMAIN conns
  BY <1>2 DEF Kept
<1>4. Msg("error", 0) \in Frame \ Telling
  BY MsgFrame
<1>5. msg.type \notin {"created", "peer_joined"}
  <2>1. ~In(conns[k].up, Answers) /\ conns[k].up \in Seq(Frame)
    BY <1>1, ConnFields DEF Letters
  <2>2. msg \notin Answers
    BY <2>1, LessTail
  <2> QED
    BY <1>2, <2>2 DEF Answers
<1> HIDE DEF cs
<1>6. CASE conns' = Sent(cs, k, Msg("error", 0))
  <2>1. Calm(cs, conns')
    BY <1>1, <1>3, <1>4, <1>6, SentCalm
  <2> QED
    BY <1>1, <1>2, <2>1, CalmTwice DEF Forward
<1>7. CASE conns' # Sent(cs, k, Msg("error", 0))
  <2>1. PICK r : /\ conns' = Sent(cs, r, msg) /\ Mine(k, msg.code)
                 /\ msg.type # "ack" => /\ r = transfers[msg.code].receiver
                                        /\ conns[k].role = "sender"
                 /\ r \in {transfers[msg.code].sender, transfers[msg.code].receiver}
    BY <1>7 DEF Forward, cs
  <2>2. r \in DOMAIN conns \cup {0} /\ r \in 0..Len(cs) /\ msg.code \in DOMAIN transfers
    BY <1>1, <1>3, <2>1, LenProperties DEF Mine, RelayPlaces
  <2>3. CASE msg.type # "begin"
    <3>1. msg \in Frame \ Telling
      BY <1>2, <1>5, <2>3 DEF Telling
    <3>2. Calm(cs, conns')
      BY <1>3, <2>1, <2>2, <3>1, SentCalm
    <3> QED
      BY <1>1, <1>2, <3>2, CalmTwice DEF Forward
  <2>4. CASE msg.type = "begin"
    <3> DEFINE B == Begins(msg.sha)
    <3>1. /\ Roles(cs, conns') /\ \A M : msg \notin M => Kept(cs, conns', M)
          /\ \A i \in DOMAIN cs : (i # r => conns'[i] = cs[i]) /\ conns'[i].up = cs[i].up
      BY <1>2, <1>3, <2>1, <2>2, SentFacts
    <3>2. r # 0 /\ ~In(cs[r].down, B) => OnceIn(conns'[r].down, B)
      <4> HIDE DEF B
      <4> QED
        BY <1>2, <1>3, <2>1, <2>2, SentFacts
    <3>3. Roles(conns, conns')
      BY <1>2, <1>3, <3>1 DEF Roles
    <3>4. \A M \in SUBSET Telling : msg \notin M => Kept(conns, conns', M)
      BY <1>2, <3>1, KeptTwice
    <3>5. /\ conns'[k].up = Tail(conns[k].up)
          /\ \A i \in DOMAIN conns : i # k => conns'[i].up = conns[i].up
      BY <1>2, <1>3, <3>1
    <3>6. /\ \A i \in DOMAIN conns : i # r /\ In(conns'[i].down, B) => In(conns[i].down, B)
          /\ r # 0 /\ ~In(conns[r].down, B) => OnceIn(conns'[r].down, B)
      BY <1>2, <1>3, <2>2, <3>1, <3>2
    <3>7. Passes(k, msg, r)
      BY <2>1, <2>2, <2>4, <3>3, <3>4, <3>5, <3>6 DEF Passes, Forward
    <3> QED
      BY <1>2, <2>2, <3>7 DEF Passes
  <2> QED
    BY <2>3, <2>4
<1> QED
  BY <1>6, <1>7

LEMMA BeginNotAsks == ASSUME NEW msg \in Frame, msg.type = "begin" PROVE msg \notin Asks
BY DEF Asks

LEMMA HandleQuota ==
  ASSUME QuotaInv, NEW k \in DOMAIN conns, Handle(k)
  PROVE  QuotaInv'
<1>1. PICK msg : msg = Head(conns[k].up)
  OBVIOUS
<1>2. /\ conns[k].up # <<>> /\ UNCHANGED <<hook, shown, exporting, verifying, dataVars, taken>>
      /\ CASE msg.type = "create" -> HandleCreate(k, Popped(k))
           [] msg.type = "join"   -> HandleJoin(k, msg.code, Popped(k))
           [] OTHER               -> Forward(k, msg, Popped(k))
  BY <1>1 DEF Handle, Popped
<1>3. conns \in Seq(Conn)
  BY DEF QuotaInv, Types
<1>4. msg \in Frame
  BY <1>1, <1>2, <1>3, PoppedFacts
<1>5. CASE msg.type = "create"
  BY <1>1, <1>2, <1>5, CreateQuota
<1>6. CASE msg.type = "join"
  <2>1. msg.code \in Nat
    BY <1>4 DEF Frame
  <2> QED
    BY <1>2, <1>6, <2>1, JoinQuota
<1>7. CASE msg.type \notin {"create", "join"}
  <2>1. Forward(k, msg, Popped(k))
    BY <1>2, <1>7
  <2>2. /\ UNCHANGED relayVars
        /\ Calm(conns, conns') \/ \E r \in DOMAIN conns \cup {0} : Passes(k, msg, r)
    BY <1>1, <1>2, <1>7, <2>1, ForwardFacts
  <2>3. CalmBut(conns, conns')
    <3>1. ASSUME NEW r, Passes(k, msg, r) PROVE CalmBut(conns, conns')
      <4>1. msg \notin Asks /\ Asks \subseteq Telling
        BY <1>4, <3>1, BeginNotAsks DEF Passes, Asks
      <4> QED
        BY <3>1, <4>1 DEF Passes, CalmBut
    <3> QED
      BY <2>2, <3>1, CalmIsCalmBut
  <2> QED
    BY <1>2, <2>2, <2>3, CalmQuota
<1> QED
  BY <1>5, <1>6, <1>7

\* A code is removed, and its place in the quota of its address is free again.
Removes(c) ==
  /\ c \in DOMAIN transfers
  /\ transfers' = [e \in DOMAIN transfers \ {c} |-> transfers[e]]
  /\ ipCounts' = [ipCounts EXCEPT ![conns[transfers[c].sender].by] = @ - 1]

LEMMA RemoveFacts ==
  ASSUME QuotaInv, NEW c, NEW cs, Calm(conns, cs), RemoveCode(c, cs)
  PROVE  /\ Calm(conns, conns')
         /\ Removes(c) \/ UNCHANGED <<transfers, ipCounts>>
<1>1. conns \in Seq(Conn) /\ RelayPlaces /\ RelayTypes
  BY DEF QuotaInv, Types, Places
<1>2. cs \in Seq(Conn) /\ Len(cs) = Len(conns)
  BY CalmSeq
<1>3. CASE c \in DOMAIN transfers
  <2> DEFINE t == transfers[c]
             msg == Msg("cancelled", c)
             ds == Sent(cs, t.sender, msg)
  <2>1. t.sender \in 0..Len(cs) /\ t.receiver \in 0..Len(cs)
    BY <1>1, <1>2, <1>3, LenProperties DEF RelayPlaces
  <2>2. c \in Nat
    BY <1>1, <1>3 DEF RelayTypes
  <2>3. msg \in Frame \ Telling
    BY <2>2, MsgFrame
  <2>4. conns' = Sent(ds, t.receiver, msg)
    BY <1>3 DEF RemoveCode
  <2> HIDE DEF msg
  <2>5. Calm(cs, ds)
    BY <1>2, <2>1, <2>3, SentCalm
  <2> HIDE DEF ds, t
  <2>6. ds \in Seq(Conn) /\ Len(ds) = Len(cs)
    BY <2>5, CalmSeq
  <2>7. Calm(ds, conns')
    BY <2>1, <2>3, <2>4, <2>6, SentCalm
  <2>8. Calm(conns, conns')
    BY <1>1, <1>2, <2>5, <2>7, CalmTwice
  <2>9. Removes(c)
    BY <1>3 DEF RemoveCode, Released, Removes
  <2> QED
    BY <2>8, <2>9
<1>4. CASE c \notin DOMAIN transfers
  BY <1>4 DEF RemoveCode
<1> QED
  BY <1>3, <1>4

LEMMA RemoveQuota ==
  ASSUME QuotaInv, NEW c, Calm(conns, conns'), issued' = issued, Removes(c),
         UNCHANGED <<hook, shown, exporting, verifying, dataVars, taken>>
  PROVE  QuotaInv'
<1>1. /\ RelayTypes /\ RelayPlaces /\ Counted /\ conns \in Seq(Conn) /\ issued \in Nat
      /\ c \in DOMAIN transfers
  BY DEF QuotaInv, Types, Places, RelayTypes, Removes
<1>2. CalmBut(conns, conns')
  BY CalmIsCalmBut
<1>3. Kept(conns, conns', Creates) /\ Kept(conns, conns', Unissued(issued')) /\ Roles(conns, conns')
  BY <1>2, AsksSets DEF CalmBut
<1>4. UpLess(Answers)
  BY <1>2, AsksSets DEF CalmBut, Kept, Less, UpLess
<1>5. /\ conns' \in Seq(Conn) /\ Len(conns') = Len(conns) /\ DOMAIN conns' = DOMAIN conns
      /\ \A i \in DOMAIN conns : conns'[i].by = conns[i].by
  BY <1>3 DEF Kept
<1>6. DOMAIN transfers' = DOMAIN transfers \ {c}
      /\ \A e \in DOMAIN transfers' : transfers'[e] = transfers[e]
  BY DEF Removes
<1> DEFINE d == conns[transfers[c].sender].by
<1>7. d \in Device
  BY <1>1, ConnFields DEF RelayPlaces
<1>8. ipCounts' = [ipCounts EXCEPT ![d] = @ - 1] /\ ipCounts \in [Device -> Int]
  BY <1>1 DEF Removes, RelayTypes
<1>9. RelayTypes'
  <2>1. ipCounts' \in [Device -> Int]
    <3>1. ipCounts[d] - 1 \in Int
      BY <1>7, <1>8
    <3> QED
      BY <1>8, <3>1
  <2>2. transfers' \in [DOMAIN transfers' -> [sender : Nat, receiver : Nat]]
    <3>1. \A e \in DOMAIN transfers : transfers[e] \in [sender : Nat, receiver : Nat]
      BY <1>1 DEF RelayTypes
    <3> QED
      BY <1>6, <3>1 DEF Removes
  <2> QED
    BY <1>1, <1>6, <2>1, <2>2 DEF RelayTypes
<1>10. RelayPlaces'
  BY <1>1, <1>3, <1>5, <1>6 DEF RelayPlaces, Roles
<1>11. ASSUME NEW e \in Device PROVE ipCounts'[e] = Cardinality(OpenOf(e)')
  <2>1. ipCounts[e] = Cardinality(OpenOf(e))
    BY <1>1 DEF Counted
  <2>2. IsFiniteSet(OpenOf(e))
    <3>1. OpenOf(e) \subseteq 1..issued
      BY <1>1 DEF OpenOf, RelayTypes
    <3>2. IsFiniteSet(1..issued)
      BY <1>1, FS_Interval
    <3> QED
      BY <3>1, <3>2, FS_Subset
  <2>3. \A x \in DOMAIN transfers' : conns'[transfers'[x].sender].by = conns[transfers[x].sender].by
    BY <1>1, <1>5, <1>6 DEF RelayPlaces
  <2>4. CASE e = d
    <3>1. OpenOf(e)' = OpenOf(e) \ {c} /\ c \in OpenOf(e)
      BY <1>1, <1>6, <2>3, <2>4 DEF OpenOf
    <3>2. Cardinality(OpenOf(e) \ {c}) = Cardinality(OpenOf(e)) - 1
      BY <2>2, <3>1, FS_RemoveElement
    <3>3. ipCounts'[e] = ipCounts[e] - 1
      BY <1>8, <2>4
    <3> QED
      BY <2>1, <3>1, <3>2, <3>3
  <2>5. CASE e # d
    <3>1. OpenOf(e)' = OpenOf(e)
      BY <1>1, <1>6, <2>3, <2>5 DEF OpenOf
    <3>2. ipCounts'[e] = ipCounts[e]
      BY <1>8, <2>5
    <3> QED
      BY <2>1, <3>1, <3>2
  <2> QED
    BY <2>4, <2>5
<1>12. Counted'
  <2>1. /\ Cardinality(Asking') <= Cardinality(Asking) /\ Cardinality(Asking') \in Nat
        /\ Cardinality(Asking) \in Nat
    BY <1>1, <1>3, AskingLess, AskingFinite
  <2>2. issued + Cardinality(Asking) <= MaxCodes /\ MaxCodes \in Nat
    BY <1>1, TransferAssumption DEF Counted
  <2>3. issued' + Cardinality(Asking') <= MaxCodes
    BY <1>1, <2>1, <2>2
  <2> QED
    BY <1>11, <2>3 DEF Counted
<1>13. issued <= issued'
  BY <1>1
<1> QED
  BY <1>3, <1>4, <1>9, <1>10, <1>12, <1>13, RelayQuota

LEMMA CloseFacts ==
  ASSUME QuotaInv, (\E k \in DOMAIN conns : Close(k)) \/ (\E c \in Code : Expire(c))
  PROVE  /\ Calm(conns, conns')
         /\ issued' = issued /\ UNCHANGED <<hook, shown, exporting, verifying, dataVars, taken>>
         /\ (\E c \in DOMAIN transfers : Removes(c)) \/ UNCHANGED <<transfers, ipCounts>>
<1>1. conns \in Seq(Conn)
  BY DEF QuotaInv, Types
<1>2. ASSUME NEW k \in DOMAIN conns, Close(k)
      PROVE  \E cs, c : Calm(conns, cs) /\ RemoveCode(c, cs)
  <2>1. Calm(conns, [conns EXCEPT ![k].served = FALSE, ![k].up = <<>>])
    BY <1>1, FewerKept DEF Calm
  <2> QED
    BY <1>2, <2>1 DEF Close
<1>3. ASSUME NEW c \in Code, Expire(c)
      PROVE  \E cs, e : Calm(conns, cs) /\ RemoveCode(e, cs)
  BY <1>1, <1>3, CalmSame DEF Expire
<1>4. PICK cs, c : Calm(conns, cs) /\ RemoveCode(c, cs)
  BY <1>2, <1>3
<1>5. Calm(conns, conns') /\ (Removes(c) \/ UNCHANGED <<transfers, ipCounts>>)
  BY <1>4, RemoveFacts
<1>6. issued' = issued /\ UNCHANGED <<hook, shown, exporting, verifying, dataVars, taken>>
  BY DEF Close, Expire
<1> QED
  BY <1>5, <1>6 DEF Removes

LEMMA CloseQuota ==
  ASSUME QuotaInv, (\E k \in DOMAIN conns : Close(k)) \/ (\E c \in Code : Expire(c))
  PROVE  QuotaInv'
<1>1. /\ Calm(conns, conns')
      /\ issued' = issued /\ UNCHANGED <<hook, shown, exporting, verifying, dataVars, taken>>
      /\ (\E c \in DOMAIN transfers : Removes(c)) \/ UNCHANGED <<transfers, ipCounts>>
  BY CloseFacts
<1>2. CASE \E c \in DOMAIN transfers : Removes(c)
  BY <1>1, <1>2, RemoveQuota
<1>3. CASE UNCHANGED <<transfers, ipCounts>>
  <2>1. \E k \in DOMAIN conns : TRUE
    <3>1. ASSUME NEW c \in Code, Expire(c) PROVE \E k \in DOMAIN conns : TRUE
      BY <3>1 DEF Expire, QuotaInv, Places, RelayPlaces
    <3> QED
      BY <3>1
  <2> QED
    BY <1>1, <1>3, <2>1, CalmIsCalmBut, CalmQuota DEF relayVars
<1> QED
  BY <1>1, <1>2, <1>3

\* What the hook of device d does of itself, or when a message comes.
LEMMA HookSteps ==
  ASSUME QuotaInv, NEW d \in Device,
         Receive(d) \/ Background(d) \/ Reset(d) \/ Leave(d) \/ Apply(d)
  PROVE  Turns(d) /\ CalmBut(conns, conns') /\ UNCHANGED relayVars /\ WorkTypes'
<1>1. WorkTypes /\ issued \in Nat
  BY DEF QuotaInv, Types, RelayTypes
<1>2. CASE OnCreated(d) \/ OnPeerJoined(d) \/ OnJoined(d)
  BY <1>2, ToldMild, MildTurns, CalmIsCalmBut DEF OnCreated, OnPeerJoined, OnJoined
<1>3. CASE OnAck(d) \/ OnCancelled(d) \/ OnError(d)
  <2>1. UNCHANGED <<relayVars, shown, exporting, verifying, dataVars, taken>>
    BY <1>3 DEF OnAck, OnCancelled, OnError
  <2>2. WorkTypes'
    BY <1>1, <2>1 DEF WorkTypes, relayVars, dataVars
  <2> QED
    BY <1>3, <2>1, <2>2, AckMild, CancelledMild, MildTurns, CalmIsCalmBut
<1>4. CASE OnBegin(d)
  <2>1. UNCHANGED <<relayVars, shown, exporting, verifying, dataVars, taken>>
    BY <1>4 DEF OnBegin
  <2>2. WorkTypes'
    BY <1>1, <2>1 DEF WorkTypes, relayVars, dataVars
  <2> QED
    BY <1>4, <2>1, <2>2, BeginFacts, CalmIsCalmBut
<1>5. CASE OnChunk(d)
  BY <1>5, ChunkFacts, CalmIsCalmBut DEF OnChunk
<1>6. CASE \E c \in Code, n \in 1..MaxChunks, open \in BOOLEAN : ExportDone(d, c, n, open)
  BY <1>6, ExportMild, MildTurns DEF ExportDone
<1>7. CASE \E c \in Code : ExportFails(d, c)
  <2>1. PICK c \in Code : ExportFails(d, c)
    BY <1>7
  <2>2. exporting' = [exporting EXCEPT ![d] = @ \ {c}]
        /\ UNCHANGED <<relayVars, shown, verifying, dataVars, taken>>
    BY <2>1 DEF ExportFails
  <2>3. WorkTypes'
    BY <1>1, <2>2 DEF WorkTypes, relayVars, dataVars
  <2> QED
    BY <2>1, <2>2, <2>3, ExportFailsMild, MildTurns, CalmIsCalmBut
<1>8. CASE \E r \in verifying[d] : VerifyDone(d, r)
  BY <1>8, VerifyFacts, CalmIsCalmBut DEF VerifyDone
<1>9. CASE \E w \in writing[d] : WriteDone(d, w)
  BY <1>9, WriteMild, MildTurns, CalmIsCalmBut DEF WriteDone
<1>10. CASE Reset(d)
  <2>1. UNCHANGED <<relayVars, shown, exporting, verifying, dataVars, taken>>
    BY <1>10 DEF Reset
  <2>2. WorkTypes'
    BY <1>1, <2>1 DEF WorkTypes, relayVars, dataVars
  <2> QED
    BY <1>10, <2>1, <2>2, ResetMild, MildTurns, CalmIsCalmBut
<1>11. CASE Leave(d)
  <2>1. /\ exporting' = [exporting EXCEPT ![d] = {}] /\ verifying' = [verifying EXCEPT ![d] = {}]
        /\ UNCHANGED <<relayVars, shown, written, taken>>
    BY <1>11 DEF Leave, Dropped
  <2>2. writing' \in [Device -> SUBSET Write]
    <3>1. writing[d] \subseteq Write /\ writing \in [Device -> SUBSET Write]
      BY <1>1 DEF WorkTypes
    <3>2. {[w EXCEPT !.told = FALSE] : w \in writing[d]} \subseteq Write
      BY <3>1 DEF Write
    <3> QED
      BY <1>11, <3>1, <3>2 DEF Leave
  <2>3. WorkTypes'
    BY <1>1, <2>1, <2>2 DEF WorkTypes, relayVars
  <2> QED
    BY <1>11, <2>1, <2>3, ResetMild, MildTurns, CalmIsCalmBut
<1>12. CASE Apply(d)
  BY <1>12, ApplyMild, MildTurns, CalmIsCalmBut DEF Apply
<1> QED
  BY <1>2, <1>3, <1>4, <1>5, <1>6, <1>7, <1>8, <1>9, <1>10, <1>11, <1>12 DEF Receive, Background

LEMMA OnCloseSteps ==
  ASSUME QuotaInv, NEW k \in DOMAIN conns, OnClose(k)
  PROVE  /\ conns[k].by \in Device /\ Mild(conns[k].by) /\ Calm(conns, conns')
         /\ UNCHANGED <<relayVars, shown, exporting, verifying, dataVars, taken>> /\ WorkTypes'
<1>1. WorkTypes /\ conns \in Seq(Conn)
  BY DEF QuotaInv, Types
<1>2. UNCHANGED <<relayVars, shown, exporting, verifying, dataVars, taken>>
  BY DEF OnClose
<1>3. WorkTypes'
  BY <1>1, <1>2 DEF WorkTypes, relayVars, dataVars
<1>4. conns[k].by \in Device
  BY <1>1, ConnFields
<1> QED
  BY <1>2, <1>3, <1>4, OnCloseMild

LEMMA QuotaNext == QuotaInv /\ [Next]_vars => QuotaInv'
<1> SUFFICES ASSUME QuotaInv, [Next]_vars PROVE QuotaInv'
  OBVIOUS
<1>1. CASE \E d \in Device : Receive(d) \/ Background(d) \/ Reset(d) \/ Leave(d) \/ Apply(d)
  BY <1>1, HookSteps, TurnsQuota
<1>2. CASE \E d \in Device : StartSend(d) \/ \E c \in Code : StartReceive(d, c)
  BY <1>2, StartQuota
<1>3. CASE \E k \in DOMAIN conns : Handle(k)
  BY <1>3, HandleQuota
<1>4. CASE (\E k \in DOMAIN conns : Close(k)) \/ (\E c \in Code : Expire(c))
  BY <1>4, CloseQuota
<1>5. CASE \E k \in DOMAIN conns : OnClose(k)
  BY <1>5, OnCloseSteps, MildTurns, CalmIsCalmBut, TurnsQuota
<1>6. CASE UNCHANGED vars
  <2>1. Types' /\ Places' /\ Letters'
    BY <1>6 DEF vars, relayVars, dataVars, QuotaInv, Types, RelayTypes, WorkTypes, Places,
                RelayPlaces, HookPlaces, Letters, Creates, Answers, Unissued, In, FirstIn
  <2>2. \A d \in Device : OpenOf(d)' = OpenOf(d)
    BY <1>6 DEF vars, relayVars, OpenOf
  <2>3. Asking' = Asking
    BY <1>6 DEF vars, Asking, In, Creates
  <2>4. Counted'
    BY <1>6, <2>2, <2>3 DEF vars, relayVars, QuotaInv, Counted
  <2> QED
    BY <2>1, <2>4 DEF QuotaInv
<1> QED
  BY <1>1, <1>2, <1>3, <1>4, <1>5, <1>6 DEF Next, User

LEMMA QuotaInit == Init => QuotaInv
<1> SUFFICES ASSUME Init PROVE QuotaInv
  OBVIOUS
<1>1. conns = <<>> /\ conns \in Seq(Conn) /\ DOMAIN conns = {} /\ Len(conns) = 0
  BY EmptySeq DEF Init
<1>2. DOMAIN transfers = {} /\ issued = 0
  <2>1. DOMAIN <<>> = {}
    OBVIOUS
  <2> QED
    BY <2>1 DEF Init
<1>3. RelayTypes
  BY <1>2 DEF Init, RelayTypes
<1>4. WorkTypes
  <2>1. <<>> \in Seq(Payload)
    BY EmptySeq
  <2> QED
    BY <1>2, <2>1 DEF Init, WorkTypes
<1>5. hook \in [Device -> Hook] /\ \A d \in Device : hook[d] = Idle
  BY IdleFacts DEF Init
<1>6. Places
  BY <1>1, <1>2, <1>5, IdleFacts DEF Places, RelayPlaces, HookPlaces
<1>7. Letters
  BY <1>1 DEF Letters
<1>8. Counted
  <2>1. Asking = {} /\ \A d \in Device : OpenOf(d) = {}
    BY <1>1, <1>2 DEF Asking, OpenOf
  <2>2. Cardinality({}) = 0
    BY FS_EmptySet
  <2>3. MaxCodes \in Nat /\ \A d \in Device : ipCounts[d] = 0
    BY TransferAssumption DEF Init
  <2>4. Cardinality(Asking) = 0 /\ \A d \in Device : Cardinality(OpenOf(d)) = 0
    BY <2>1, <2>2
  <2>5. issued + Cardinality(Asking) <= MaxCodes
    BY <1>2, <2>3, <2>4
  <2> QED
    BY <2>3, <2>4, <2>5 DEF Counted
<1> QED
  BY <1>1, <1>3, <1>4, <1>5, <1>6, <1>7, <1>8 DEF QuotaInv, Types

\* The parts of the relay and of the hooks fit together, always: what a socket
\* is for, which code was issued, who is asked what.
THEOREM TransferInvariant == Spec => []QuotaInv
<1> QED
  BY QuotaInit, QuotaNext, PTL DEF Spec

\* The counter behind an address's quota is the number of its transfers,
\* however each of them ends (codeStore.ts:73-82), and codes stay within those
\* issued.
THEOREM TransferQuotaExact == Spec => []QuotaExact
<1>1. QuotaInv => QuotaExact
  <2> SUFFICES ASSUME QuotaInv PROVE QuotaExact
    OBVIOUS
  <2>1. /\ Types /\ RelayTypes /\ WorkTypes /\ RelayPlaces /\ Counted /\ conns \in Seq(Conn)
        /\ issued \in Nat
    BY DEF QuotaInv, Types, RelayTypes, Places
  <2>2. issued <= MaxCodes
    <3>1. Cardinality(Asking) \in Nat /\ MaxCodes \in Nat
      BY <2>1, AskingFinite, TransferAssumption
    <3> QED
      BY <2>1, <3>1 DEF Counted
  <2>3. \A k \in DOMAIN conns : /\ conns[k].end \in {"open", "closing", "closed"}
                                /\ conns[k].code \in 0..issued
                                /\ conns[k].role \in {"none", "sender", "receiver"}
    BY <2>1, ConnFields DEF RelayPlaces, Conn, Role
  <2>4. \A d \in Device :
          /\ hook[d].ws \in 0..Len(conns) /\ hook[d].code \in 0..issued
          /\ {hook[d].chunks, hook[d].payload} \subseteq Payload \cup {<<>>}
          /\ exporting[d] \subseteq 1..issued /\ writing[d] \subseteq [payload : Payload, told : BOOLEAN]
    BY <2>1, HookFields DEF Hook, WorkTypes, Write
  <2>5. TypeOK
    BY <2>1, <2>2, <2>3, <2>4 DEF TypeOK, RelayTypes, RelayPlaces, WorkTypes
  <2>6. \A d \in Device :
          ipCounts[d] = Cardinality({c \in DOMAIN transfers : conns[transfers[c].sender].by = d})
    BY <2>1 DEF Counted, OpenOf
  <2> QED
    BY <2>5, <2>6 DEF QuotaExact
<1> QED
  BY <1>1, TransferInvariant, PTL

-----------------------------------------------------------------------------
(***************************************************************************)
(* Those who send are not those who receive.                               *)
(***************************************************************************)
LEMMA SidesKept ==
  ASSUME QuotaInv, Sides, CalmBut(conns, conns'), UNCHANGED transfers \/ \E c : Removes(c)
  PROVE  Sides'
<1>1. /\ DOMAIN conns' = DOMAIN conns
      /\ \A k \in DOMAIN conns : /\ conns'[k].by = conns[k].by /\ conns'[k].role = conns[k].role
                                 /\ In(conns'[k].up, Creates) => In(conns[k].up, Creates)
                                 /\ In(conns'[k].up, Joins) => In(conns[k].up, Joins)
  <2>1. Kept(conns, conns', Creates) /\ Kept(conns, conns', Joins) /\ Roles(conns, conns')
    BY AsksSets DEF CalmBut
  <2> QED
    BY <2>1 DEF Kept, Less, Roles
<1>2. /\ DOMAIN transfers' \subseteq DOMAIN transfers
      /\ \A c \in DOMAIN transfers' : transfers'[c].receiver = transfers[c].receiver
  BY DEF Removes
<1>3. \A c \in DOMAIN transfers : transfers[c].receiver \in DOMAIN conns \cup {0}
  BY DEF QuotaInv, Places, RelayPlaces
<1>4. \A k \in DOMAIN conns' :
        /\ conns'[k].role = "sender" \/ In(conns'[k].up, Creates) => conns'[k].by \in Sender
        /\ In(conns'[k].up, Joins) => conns'[k].by \in Receiver
  BY <1>1 DEF Sides
<1>5. \A c \in DOMAIN transfers' :
        transfers'[c].receiver # 0 => conns'[transfers'[c].receiver].by \in Receiver
  BY <1>1, <1>2, <1>3 DEF Sides
<1> QED
  BY <1>4, <1>5 DEF Sides, In, Creates, Joins

LEMMA ConnectSides ==
  ASSUME QuotaInv, Sides, NEW d \in Device, NEW t \in {"create", "join"}, NEW c \in Nat,
         NEW code, NEW n, Opens(d, Msg(t, c), code, n), UNCHANGED relayVars,
         t = "create" => d \in Sender, t = "join" => d \in Receiver
  PROVE  Sides'
<1>1. /\ DOMAIN conns' = DOMAIN conns \cup {n} /\ n \notin DOMAIN conns
      /\ \A k \in DOMAIN conns : conns'[k] = conns[k]
      /\ conns'[n].by = d /\ conns'[n].role = "none" /\ conns'[n].up = Alone(Msg(t, c))
      /\ transfers' = transfers
  BY DEF Opens, relayVars
<1>2. /\ In(conns'[n].up, Creates) => t = "create"
      /\ In(conns'[n].up, Joins) => t = "join"
  BY <1>1, FirstMessage DEF Creates, Joins, Msg
<1>3. \A e \in DOMAIN transfers : transfers[e].receiver \in DOMAIN conns \cup {0}
  BY DEF QuotaInv, Places, RelayPlaces
<1>4. \A k \in DOMAIN conns' :
        /\ conns'[k].role = "sender" \/ In(conns'[k].up, Creates) => conns'[k].by \in Sender
        /\ In(conns'[k].up, Joins) => conns'[k].by \in Receiver
  BY <1>1, <1>2 DEF Sides
<1>5. \A e \in DOMAIN transfers' :
        transfers'[e].receiver # 0 => conns'[transfers'[e].receiver].by \in Receiver
  BY <1>1, <1>3 DEF Sides
<1> QED
  BY <1>4, <1>5 DEF Sides, In, Creates, Joins

LEMMA CreateSides ==
  ASSUME QuotaInv, Sides, NEW k \in DOMAIN conns, conns[k].up # <<>>,
         Head(conns[k].up).type = "create", HandleCreate(k, Popped(k))
  PROVE  Sides'
<1>1. /\ conns \in Seq(Conn) /\ RelayPlaces /\ RelayTypes /\ issued \in Nat
      /\ conns[k].up \in Seq(Frame) /\ Head(conns[k].up) \in Frame
  BY ConnFields, PoppedFacts DEF QuotaInv, Types, Places, RelayTypes
<1>2. conns[k].by \in Sender
  <2>1. In(conns[k].up, Creates)
    BY <1>1, TailFacts DEF In, Creates
  <2> QED
    BY <2>1 DEF Sides
<1>3. Kept(conns, conns', Creates) /\ Kept(conns, conns', Joins)
  <2>1. /\ Creates \in SUBSET (Frame \ {Msg("created", issued + 1)})
        /\ Joins \in SUBSET (Frame \ {Msg("created", issued + 1)})
        /\ Msg("error", 0) \notin Creates /\ Msg("error", 0) \notin Joins
    BY DEF Creates, Joins, Msg
  <2> QED
    BY <2>1, CreateFacts
<1>4. /\ DOMAIN conns' = DOMAIN conns
      /\ \A i \in DOMAIN conns : /\ conns'[i].by = conns[i].by
                                 /\ In(conns'[i].up, Creates) => In(conns[i].up, Creates)
                                 /\ In(conns'[i].up, Joins) => In(conns[i].up, Joins)
                                 /\ i # k => conns'[i].role = conns[i].role
  <2>1. \A i \in DOMAIN conns : i # k => conns'[i].role = conns[i].role
    BY CreateFacts
  <2> QED
    BY <1>3, <2>1 DEF Kept, Less
<1>5. \A i \in DOMAIN conns' :
        /\ conns'[i].role = "sender" \/ In(conns'[i].up, Creates) => conns'[i].by \in Sender
        /\ In(conns'[i].up, Joins) => conns'[i].by \in Receiver
  BY <1>2, <1>4 DEF Sides
<1>6. \A e \in DOMAIN transfers' : \/ transfers'[e].receiver = 0
                                   \/ e \in DOMAIN transfers /\ transfers'[e] = transfers[e]
  <2>1. \/ transfers' = [e \in DOMAIN transfers \cup {issued + 1} |->
                           IF e = issued + 1 THEN [sender |-> k, receiver |-> 0] ELSE transfers[e]]
        \/ transfers' = transfers
    BY CreateFacts DEF relayVars
  <2> QED
    BY <2>1
<1>7. \A e \in DOMAIN transfers' :
        transfers'[e].receiver # 0 => conns'[transfers'[e].receiver].by \in Receiver
  BY <1>1, <1>4, <1>6 DEF Sides, RelayPlaces
<1> QED
  BY <1>5, <1>7 DEF Sides, In, Creates, Joins

LEMMA AdmitSides ==
  ASSUME QuotaInv, Sides, NEW k \in DOMAIN conns, conns[k].up # <<>>,
         Head(conns[k].up).type = "join", NEW c \in Nat, NEW m, Admits(k, c, m)
  PROVE  Sides'
<1>1. /\ conns \in Seq(Conn) /\ RelayPlaces /\ RelayTypes
      /\ conns[k].up \in Seq(Frame) /\ Head(conns[k].up) \in Frame
  BY ConnFields, PoppedFacts DEF QuotaInv, Types, Places
<1>2. conns[k].by \in Receiver
  <2>1. In(conns[k].up, Joins)
    BY <1>1, TailFacts DEF In, Joins
  <2> QED
    BY <2>1 DEF Sides
<1>3. Kept(conns, conns', Creates) /\ Kept(conns, conns', Joins)
  <2>1. /\ Creates \in SUBSET Telling /\ Joins \in SUBSET Telling
        /\ Msg("peer_joined", c) \notin Creates /\ Msg("peer_joined", c) \notin Joins
    BY DEF Creates, Joins, Msg, Telling
  <2> QED
    BY <2>1 DEF Admits
<1>4. /\ DOMAIN conns' = DOMAIN conns
      /\ \A i \in DOMAIN conns : /\ conns'[i].by = conns[i].by
                                 /\ In(conns'[i].up, Creates) => In(conns[i].up, Creates)
                                 /\ In(conns'[i].up, Joins) => In(conns[i].up, Joins)
                                 /\ conns'[i].role = "sender" => conns[i].role = "sender"
  <2>1. \A i \in DOMAIN conns : conns'[i].role \in {conns[i].role, "receiver"}
    BY DEF Admits
  <2> QED
    BY <1>3, <2>1 DEF Kept, Less
<1>5. \A i \in DOMAIN conns' :
        /\ conns'[i].role = "sender" \/ In(conns'[i].up, Creates) => conns'[i].by \in Sender
        /\ In(conns'[i].up, Joins) => conns'[i].by \in Receiver
  BY <1>4 DEF Sides
<1>6. DOMAIN transfers' = DOMAIN transfers
      /\ \A e \in DOMAIN transfers : transfers'[e].receiver \in {transfers[e].receiver, k}
  BY <1>1 DEF Admits, RelayTypes
<1>7. \A e \in DOMAIN transfers' :
        transfers'[e].receiver # 0 => conns'[transfers'[e].receiver].by \in Receiver
  BY <1>1, <1>2, <1>4, <1>6 DEF Sides, RelayPlaces
<1> QED
  BY <1>5, <1>7 DEF Sides, In, Creates, Joins

-----------------------------------------------------------------------------
(***************************************************************************)
(* A code is joined once, and one snapshot is taken for it.                *)
(***************************************************************************)
LEMMA SingleKept ==
  ASSUME NEW c \in Nat, Single(c), Kept(conns, conns', Tells(c)), Joined(c) => Joined(c)',
         \A d \in Device : c \in exporting'[d] => c \in exporting[d], Took(c)' => Took(c)
  PROVE  Single(c)'
<1>1. /\ DOMAIN conns' = DOMAIN conns
      /\ \A k \in DOMAIN conns : /\ Told(k, c)' => Told(k, c)
                                 /\ OnceIn(conns[k].down, Tells(c)) => OnceIn(conns'[k].down, Tells(c))
  BY DEF Kept, Less, Told, In, Tells
<1>2. \A k \in DOMAIN conns' : Told(k, c)' =>
        /\ Joined(c)' /\ ~Took(c)'
        /\ \A d \in Device : c \notin exporting'[d]
        /\ OnceIn(conns'[k].down, Tells(c)) /\ \A l \in DOMAIN conns' : Told(l, c)' => k = l
  BY <1>1 DEF Single
<1>3. \A d \in Device : c \in exporting'[d] =>
        Joined(c)' /\ ~Took(c)' /\ \A e \in Device : c \in exporting'[e] => e = d
  BY DEF Single
<1>4. Took(c)' => Joined(c)'
  BY DEF Single
<1> QED
  BY <1>2, <1>3, <1>4 DEF Single, OnceIn, Tells

LEMMA TookSame == ASSUME NEW c, taken' = taken PROVE Took(c)' = Took(c)
BY DEF Took, Cut

LEMMA JoinedKept ==
  ASSUME QuotaInv, issued' = issued, UNCHANGED transfers \/ \E c : Removes(c), NEW e, Joined(e)
  PROVE  Joined(e)'
BY DEF Joined, Removes

LEMMA PeerJoinedSingle ==
  ASSUME QuotaInv, OneSnapshot, NEW d \in Device, OnPeerJoined(d) PROVE OneSnapshot'
<1>1. PICK k, c : k = hook[d].ws /\ c = Message(d).code
  OBVIOUS
<1>2. /\ k \in DOMAIN conns /\ conns[k].down # <<>> /\ Message(d) \in Frame
      /\ Message(d).type = "peer_joined" /\ Message(d) = Head(conns[k].down)
      /\ conns \in Seq(Conn) /\ conns[k].down \in Seq(Frame) /\ c \in Nat
      /\ conns' = Dequeued(k)
  <2>1. Got(d, "peer_joined") /\ conns' = Read(d)
    BY DEF OnPeerJoined
  <2>2. /\ k \in DOMAIN conns /\ conns[k].down # <<>> /\ Message(d) \in Frame
        /\ Message(d).type = "peer_joined" /\ Read(d) = Dequeued(k)
    BY <1>1, <2>1, GotFacts
  <2>3. conns \in Seq(Conn)
    BY DEF QuotaInv, Types
  <2>4. c \in Nat
    BY <1>1, <2>2 DEF Frame
  <2> QED
    BY <1>1, <2>1, <2>2, <2>3, <2>4, ConnFields DEF Message
<1>3. /\ transfers' = transfers /\ issued' = issued /\ taken' = taken
      /\ exporting' = [exporting EXCEPT ![d] = @ \cup {c}]
      /\ exporting \in [Device -> SUBSET (1..issued)]
  BY <1>1 DEF OnPeerJoined, relayVars, QuotaInv, Types, WorkTypes
<1>4. \A M : Kept(conns, conns', M)
  BY <1>2, DequeuedFacts
<1>5. \A e \in Nat : Joined(e) => Joined(e)'
  BY <1>3, JoinedKept
<1>6. ASSUME NEW e \in Nat, e # c PROVE Single(e)'
  <2>1. Single(e) /\ Kept(conns, conns', Tells(e)) /\ (Took(e)' => Took(e))
    BY <1>3, <1>4, TookSame DEF OneSnapshot
  <2>2. \A f \in Device : e \in exporting'[f] => e \in exporting[f]
    BY <1>3, <1>6
  <2> QED
    BY <1>5, <2>1, <2>2, SingleKept
<1>7. Single(c)'
  <2>1. Head(conns[k].down) \in Tells(c)
    BY <1>1, <1>2 DEF Tells
  <2>2. Told(k, c)
    BY <1>2, <2>1, LessTail DEF Told
  <2>3. /\ Joined(c) /\ ~Took(c) /\ \A f \in Device : c \notin exporting[f]
        /\ OnceIn(conns[k].down, Tells(c)) /\ \A l \in DOMAIN conns : Told(l, c) => k = l
    BY <1>2, <2>2 DEF OneSnapshot, Single
  <2>4. ~In(Tail(conns[k].down), Tells(c))
    BY <1>2, <2>1, <2>3, LessTail
  <2>5. \A l \in DOMAIN conns' : ~In(conns'[l].down, Tells(c))
    <3>1. DOMAIN conns' = DOMAIN conns
      BY <1>4 DEF Kept
    <3>2. /\ conns'[k].down = Tail(conns[k].down)
          /\ \A i \in DOMAIN conns : i # k => conns'[i] = conns[i]
      BY <1>2, DequeuedFacts
    <3> QED
      BY <2>3, <2>4, <3>1, <3>2 DEF Told
  <2>6. \A f \in Device : c \in exporting'[f] => f = d
    BY <1>3, <2>3
  <2>7. Joined(c)' /\ ~Took(c)'
    BY <1>2, <1>3, <1>5, <2>3, TookSame
  <2> QED
    BY <2>5, <2>6, <2>7 DEF Single, Told, In, Tells
<1> QED
  BY <1>6, <1>7 DEF OneSnapshot

\* The snapshot taken is new, and nobody holds anything of it yet.
LEMMA ExportSingle ==
  ASSUME QuotaInv, OneSnapshot, NEW d \in Device, NEW c \in Code, NEW n \in 1..MaxChunks,
         NEW open \in BOOLEAN, ExportDone(d, c, n, open)
  PROVE  OneSnapshot' /\ ~Took(c)
<1>1. PICK s : s = Export(d, c, n)
  OBVIOUS
<1>2. /\ s \in Snapshot /\ s.code = c /\ CalmBut(conns, conns')
      /\ transfers' = transfers /\ issued' = issued /\ c \in exporting[d]
      /\ exporting' = [exporting EXCEPT ![d] = @ \ {c}]
      /\ taken' = [taken EXCEPT ![d] = @ \cup {Cut(s)}]
      /\ exporting \in [Device -> SUBSET (1..issued)]
      /\ taken \in [Device -> SUBSET Payload] /\ c \in Nat
  <2>1. s \in Snapshot /\ CalmBut(conns, conns')
    BY <1>1, ExportMild
  <2>2. s.code = c /\ c \in Nat
    BY <1>1 DEF Export, Code
  <2>3. /\ transfers' = transfers /\ issued' = issued /\ c \in exporting[d]
        /\ exporting' = [exporting EXCEPT ![d] = @ \ {c}]
        /\ taken' = [taken EXCEPT ![d] = @ \cup {Cut(s)}]
    BY <1>1 DEF ExportDone, Export, relayVars
  <2>4. /\ exporting \in [Device -> SUBSET (1..issued)]
        /\ taken \in [Device -> SUBSET Payload]
    BY DEF QuotaInv, Types, WorkTypes
  <2> QED
    BY <2>1, <2>2, <2>3, <2>4
<1>3. \A e \in Nat : Kept(conns, conns', Tells(e)) /\ (Joined(e) => Joined(e)')
  BY <1>2, AsksSets, JoinedKept DEF CalmBut
<1>4. /\ Joined(c) /\ ~Took(c) /\ \A e \in Device : c \in exporting[e] => e = d
      /\ \A k \in DOMAIN conns : ~Told(k, c)
  BY <1>2 DEF OneSnapshot, Single
<1>5. ASSUME NEW e \in Nat, e # c PROVE Single(e)'
  <2>1. Took(e)' => Took(e)
    <3>1. SUFFICES ASSUME NEW f \in Device, NEW t \in Snapshot, t.code = e, Cut(t) \in taken'[f]
                   PROVE  Cut(t) \in taken[f]
      BY DEF Took, Cut
    <3>2. Cut(t) # Cut(s)
      BY <1>2, <1>5, <3>1, CutOnce
    <3> QED
      BY <1>2, <3>1, <3>2
  <2>2. \A f \in Device : e \in exporting'[f] => e \in exporting[f]
    BY <1>2
  <2> QED
    BY <1>3, <2>1, <2>2, SingleKept DEF OneSnapshot
<1>6. Single(c)'
  <2>1. \A e \in Device : c \notin exporting'[e]
    BY <1>2, <1>4
  <2>2. \A k \in DOMAIN conns' : ~In(conns'[k].down, Tells(c))
    BY <1>2, <1>3, <1>4 DEF Kept, Less, Told
  <2>3. Joined(c)'
    BY <1>2, <1>3, <1>4
  <2> QED
    BY <2>1, <2>2, <2>3 DEF Single, Told, In, Tells
<1> QED
  BY <1>4, <1>5, <1>6, <1>2 DEF OneSnapshot

LEMMA CreateSingle ==
  ASSUME QuotaInv, OneSnapshot, NEW k \in DOMAIN conns, conns[k].up # <<>>,
         HandleCreate(k, Popped(k)), UNCHANGED <<exporting, taken>>
  PROVE  OneSnapshot'
<1>1. issued \in Nat /\ DOMAIN transfers \subseteq 1..issued
  BY DEF QuotaInv, Types, RelayTypes
<1>2. ASSUME NEW c \in Nat PROVE Single(c)'
  <2>1. Kept(conns, conns', Tells(c))
    <3>1. Tells(c) \in SUBSET (Frame \ {Msg("created", issued + 1)}) /\ Msg("error", 0) \notin Tells(c)
      BY DEF Tells, Msg
    <3> QED
      BY <3>1, CreateFacts
  <2>2. Joined(c) => Joined(c)'
    <3>1. \/ /\ issued' = issued + 1
             /\ transfers' = [e \in DOMAIN transfers \cup {issued + 1} |->
                                IF e = issued + 1 THEN [sender |-> k, receiver |-> 0] ELSE transfers[e]]
          \/ UNCHANGED relayVars
      BY CreateFacts
    <3> QED
      BY <1>1, <3>1 DEF Joined, relayVars
  <2>3. Took(c)' => Took(c)
    BY TookSame
  <2> QED
    BY <2>1, <2>2, <2>3, SingleKept DEF OneSnapshot
<1> QED
  BY <1>2 DEF OneSnapshot

LEMMA AdmitSingle ==
  ASSUME QuotaInv, OneSnapshot, NEW k \in DOMAIN conns, NEW c \in Nat, NEW m \in DOMAIN conns,
         Admits(k, c, m), UNCHANGED <<exporting, taken>>
  PROVE  OneSnapshot'
<1>1. /\ RelayTypes /\ c \in DOMAIN transfers /\ transfers[c].receiver = 0
      /\ transfers' = [transfers EXCEPT ![c].receiver = k] /\ issued' = issued
      /\ k # 0 /\ c \in 1..issued
  <2>1. DOMAIN conns = 1..Len(conns) /\ RelayTypes
    BY LenProperties DEF QuotaInv, Types
  <2>2. k # 0
    BY <2>1
  <2> QED
    BY <2>1, <2>2 DEF Admits, MayJoin, RelayTypes
<1>2. \A e \in Nat : Joined(e) => Joined(e)'
  BY <1>1 DEF Joined, RelayTypes
<1>3. ASSUME NEW e \in Nat, e # c PROVE Single(e)'
  <2>1. Kept(conns, conns', Tells(e))
    <3>1. Tells(e) \in SUBSET Telling /\ Msg("peer_joined", c) \notin Tells(e)
      BY <1>3 DEF Tells, Telling, Msg
    <3> QED
      BY <3>1 DEF Admits
  <2>2. Single(e) /\ (Took(e)' => Took(e))
    BY TookSame DEF OneSnapshot
  <2> QED
    BY <1>2, <2>1, <2>2, SingleKept
<1>4. Single(c)'
  <2>1. ~Joined(c)
    BY <1>1 DEF Joined
  <2>2. /\ ~Took(c) /\ \A d \in Device : c \notin exporting[d]
        /\ \A i \in DOMAIN conns : ~In(conns[i].down, Tells(c))
    BY <2>1 DEF OneSnapshot, Single, Told
  <2>3. DOMAIN conns' = DOMAIN conns
    <3>1. {} \in SUBSET Telling /\ Msg("peer_joined", c) \notin {}
      OBVIOUS
    <3>2. Kept(conns, conns', {})
      BY <3>1 DEF Admits
    <3> QED
      BY <3>2 DEF Kept
  <2>4. /\ \A i \in DOMAIN conns' : In(conns'[i].down, Tells(c)) => i = m
        /\ OnceIn(conns'[m].down, Tells(c))
    BY <2>2, <2>3 DEF Admits
  <2>5. Joined(c)' /\ ~Took(c)' /\ \A d \in Device : c \notin exporting'[d]
    BY <1>1, <2>2, TookSame DEF Joined, RelayTypes
  <2> QED
    BY <2>4, <2>5 DEF Single, Told, In, OnceIn, Tells
<1> QED
  BY <1>3, <1>4 DEF OneSnapshot

LEMMA ConnectSingle ==
  ASSUME QuotaInv, OneSnapshot, NEW d \in Device, NEW msg, NEW code, NEW n,
         Opens(d, msg, code, n), UNCHANGED relayVars, UNCHANGED <<exporting, taken>>
  PROVE  OneSnapshot'
<1>1. ASSUME NEW c \in Nat PROVE Single(c)'
  <2>1. /\ \A k \in DOMAIN conns : conns'[k] = conns[k]
        /\ DOMAIN conns' = DOMAIN conns \cup {n} /\ ~In(conns'[n].down, Tells(c))
    BY FirstMessage DEF Opens
  <2>2. Single(c) /\ Took(c)' = Took(c) /\ Joined(c)' = Joined(c)
    BY TookSame DEF OneSnapshot, Joined, relayVars
  <2>3. \A k \in DOMAIN conns' : In(conns'[k].down, Tells(c)) =>
          k \in DOMAIN conns /\ Told(k, c) /\ conns'[k] = conns[k]
    BY <2>1 DEF Told
  <2>4. \A k \in DOMAIN conns' : In(conns'[k].down, Tells(c)) =>
          /\ Joined(c)' /\ ~Took(c)'
          /\ \A e \in Device : c \notin exporting'[e]
          /\ OnceIn(conns'[k].down, Tells(c))
          /\ \A l \in DOMAIN conns' : In(conns'[l].down, Tells(c)) => k = l
    BY <2>2, <2>3 DEF Single
  <2>5. \A e \in Device : c \in exporting'[e] =>
          Joined(c)' /\ ~Took(c)' /\ \A f \in Device : c \in exporting'[f] => f = e
    BY <2>2 DEF Single
  <2>6. Took(c)' => Joined(c)'
    BY <2>2 DEF Single
  <2> QED
    BY <2>4, <2>5, <2>6 DEF Single, Told, In, OnceIn, Tells
<1> QED
  BY <1>1 DEF OneSnapshot

-----------------------------------------------------------------------------
(***************************************************************************)
(* What becomes of a snapshot on its way.                                  *)
(***************************************************************************)
StaysTaken(s) == Cut(s) \in taken[s.from] => Cut(s) \in taken'[s.from]

LEMMA AnnouncedKept ==
  ASSUME NEW s \in Snapshot, Announced(s), Kept(conns, conns', Begins(s)), StaysTaken(s),
         \A d \in Device : Has(d, s)' => Has(d, s)
  PROVE  Announced(s)'
<1>1. /\ DOMAIN conns' = DOMAIN conns
      /\ \A k \in DOMAIN conns :
           /\ Offers(k, s)' => Offers(k, s)
           /\ Brings(k, s)' => Brings(k, s)
           /\ conns'[k].by = conns[k].by
           /\ OnceIn(conns[k].up, Begins(s)) => OnceIn(conns'[k].up, Begins(s))
           /\ OnceIn(conns[k].down, Begins(s)) => OnceIn(conns'[k].down, Begins(s))
  BY DEF Kept, Less, Offers, Brings, In, Begins
<1>2. \A k \in DOMAIN conns' : Offers(k, s)' =>
       /\ s.from = conns'[k].by /\ OnceIn(conns'[k].up, Begins(s))
       /\ \A l \in DOMAIN conns' : (Offers(l, s)' => k = l) /\ ~Brings(l, s)'
  BY <1>1 DEF Announced
<1>3. \A k \in DOMAIN conns' : Brings(k, s)' =>
       /\ (Apart => s.from # conns'[k].by) /\ OnceIn(conns'[k].down, Begins(s))
       /\ \A l \in DOMAIN conns' : Brings(l, s)' => k = l
  BY <1>1 DEF Announced
<1>4. \A k \in DOMAIN conns' : Offers(k, s)' \/ Brings(k, s)' =>
       Cut(s) \in taken'[s.from] /\ \A d \in Device : ~Has(d, s)'
  BY <1>1 DEF Announced, StaysTaken
<1> HIDE DEF StaysTaken
<1> QED
  BY <1>2, <1>3, <1>4 DEF Announced, Begins, OnceIn, Cut

LEMMA OwnedKept ==
  ASSUME NEW s \in Snapshot, \A d \in Device : Owned(d, s), StaysTaken(s),
         \A d \in Device : Has(d, s)' => Has(d, s)
  PROVE  \A d \in Device : Owned(d, s)'
<1>1. Cut(s)' = Cut(s)
  BY DEF Cut
<1> QED
  BY <1>1 DEF Owned, StaysTaken

\* The devices a step has nothing to do with.
Alike(e) == /\ hook'[e] = hook[e] /\ verifying'[e] = verifying[e]
            /\ writing'[e] = writing[e] /\ written'[e] = written[e]

LEMMA AlikeKept ==
  ASSUME NEW e \in Device, Alike(e)
  PROVE  /\ Orderly(e) => Orderly(e)'
         /\ \A s \in Snapshot : Has(e, s)' = Has(e, s)
<1>1. \A s \in Snapshot : /\ Collects(e, s)' = Collects(e, s) /\ Checks(e, s)' = Checks(e, s)
                          /\ Reviews(e, s)' = Reviews(e, s) /\ Puts(e, s)' = Puts(e, s)
                          /\ Wrote(e, s)' = Wrote(e, s)
  BY DEF Alike, Collects, Checks, Reviews, Puts, Wrote, Cut
<1>2. \A s \in Snapshot : Past(e, s)' = Past(e, s) /\ Has(e, s)' = Has(e, s)
  BY <1>1 DEF Past, Has
<1>3. \A s \in Snapshot : InTurn(e, s) => InTurn(e, s)'
  BY <1>1, <1>2 DEF InTurn, Alike
<1>4. Checked(e) => Checked(e)'
  BY DEF Alike, Checked, Collects, Complete
<1> QED
  BY <1>2, <1>3, <1>4 DEF Orderly

LEMMA OneWayKept ==
  ASSUME OneWay, NEW d \in Device, \A e \in Device \ {d} : Alike(e), Orderly(d)',
         \A s \in Snapshot : Has(d, s)' => Has(d, s),
         \A s \in Snapshot : Kept(conns, conns', Begins(s)) /\ StaysTaken(s)
  PROVE  OneWay'
<1>1. \A s \in Snapshot, e \in Device : Has(e, s)' => Has(e, s)
  BY AlikeKept
<1>2. \A s \in Snapshot : Announced(s)'
  BY <1>1, AnnouncedKept DEF OneWay
<1>3. \A s \in Snapshot, e \in Device : Owned(e, s)'
  BY <1>1, OwnedKept DEF OneWay
<1>4. \A e \in Device : Orderly(e)'
  BY AlikeKept DEF OneWay
<1> QED
  BY <1>2, <1>3, <1>4 DEF OneWay, Snapshot

LEMMA BeginsCalm == ASSUME Calm(conns, conns'), NEW s PROVE Kept(conns, conns', Begins(s))
<1>1. Begins(s) \in SUBSET Telling
  BY DEF Begins, Telling
<1> QED
  BY <1>1 DEF Calm

\* Snapshots are told apart by their chunks.
LEMMA PayloadIs ==
  ASSUME NEW p \in Payload PROVE \E s \in Snapshot : p = Cut(s)
BY DEF Payload

\* The device d only lets go of something.
Lets(d) ==
  /\ hook'[d].ws \in {hook[d].ws, 0} \/ hook[d].recv = NoRecv
  /\ hook'[d].recv \in {hook[d].recv, NoRecv}
  /\ hook'[d].status = "review" => /\ hook[d].status = "review"
                                   /\ hook'[d].payload = hook[d].payload
  /\ verifying'[d] \subseteq verifying[d]
  /\ \A w \in writing'[d] : \E v \in writing[d] : v.payload = w.payload
  /\ \A w, v \in writing'[d] : w.payload = v.payload => w = v
  /\ written'[d] = written[d]

LEMMA LetsKept ==
  ASSUME NEW d \in Device, Orderly(d), Lets(d)
  PROVE  Orderly(d)' /\ \A s \in Snapshot : Has(d, s)' => Has(d, s)
<1>1. \A s \in Snapshot : /\ Collects(d, s)' => Collects(d, s)
                          /\ Checks(d, s)' => Checks(d, s)
                          /\ Reviews(d, s)' => Reviews(d, s)
                          /\ Puts(d, s)' => Puts(d, s)
                          /\ Wrote(d, s)' = Wrote(d, s)
  <2> SUFFICES ASSUME NEW s \in Snapshot
               PROVE  /\ Collects(d, s)' => Collects(d, s)
                      /\ Checks(d, s)' => Checks(d, s)
                      /\ Reviews(d, s)' => Reviews(d, s)
                      /\ Puts(d, s)' => Puts(d, s)
                      /\ Wrote(d, s)' = Wrote(d, s)
    OBVIOUS
  <2>1. Cut(s)' = Cut(s)
    BY DEF Cut
  <2>2. Collects(d, s)' => Collects(d, s)
    BY DEF Lets, Collects
  <2>3. Checks(d, s)' => Checks(d, s)
    BY DEF Lets, Checks
  <2>4. Reviews(d, s)' => Reviews(d, s)
    BY <2>1 DEF Lets, Reviews
  <2>5. Puts(d, s)' => Puts(d, s)
    BY <2>1 DEF Lets, Puts
  <2>6. Wrote(d, s)' = Wrote(d, s)
    BY <2>1 DEF Lets, Wrote
  <2> QED
    BY <2>2, <2>3, <2>4, <2>5, <2>6
<1>2. \A s \in Snapshot : (Past(d, s)' => Past(d, s)) /\ (Has(d, s)' => Has(d, s))
  BY <1>1 DEF Past, Has
<1>3. \A s \in Snapshot : InTurn(d, s)'
  <2>1. \A s \in Snapshot : Collects(d, s)' => hook'[d].ws \in {hook[d].ws, 0}
    BY <1>1 DEF Lets, Collects
  <2> QED
    BY <1>1, <1>2, <2>1 DEF InTurn, Orderly
<1>4. Checked(d)'
  <2>1. \A r \in verifying'[d] : /\ Complete(r)
                                 /\ \A q \in verifying'[d] : q.sha = r.sha => q = r
                                 /\ Collects(d, r.sha)' => hook'[d].recv = r
    BY DEF Lets, Checked, Orderly, Collects
  <2>2. \A w, v \in writing'[d] : w.payload = v.payload => w = v
    BY DEF Lets
  <2> QED
    BY <2>1, <2>2 DEF Checked, Complete
<1> QED
  BY <1>2, <1>3, <1>4 DEF Orderly

LEMMA LetsOneWay ==
  ASSUME OneWay, NEW d \in Device, Lets(d), \A e \in Device \ {d} : Alike(e),
         \A s \in Snapshot : Kept(conns, conns', Begins(s)) /\ StaysTaken(s)
  PROVE  OneWay'
<1>1. Orderly(d)' /\ \A s \in Snapshot : Has(d, s)' => Has(d, s)
  BY LetsKept DEF OneWay
<1> QED
  BY <1>1, OneWayKept

LEMMA SameTaken == ASSUME taken' = taken PROVE \A s \in Snapshot : StaysTaken(s)
BY DEF StaysTaken

LEMMA MildHook ==
  ASSUME QuotaInv, NEW d \in Device, Mild(d)
  PROVE  /\ hook'[d].ws \in {hook[d].ws, 0}
         /\ hook'[d].recv \in {hook[d].recv, NoRecv}
         /\ hook'[d].status = "review" => /\ hook[d].status = "review"
                                          /\ hook'[d].payload = hook[d].payload
         /\ \A e \in Device \ {d} : hook'[e] = hook[e]
<1>1. hook \in [Device -> Hook]
  BY DEF QuotaInv, Types
<1> QED
  BY <1>1 DEF Mild

LEMMA MildOneWay ==
  ASSUME QuotaInv, OneWay, NEW d \in Device, Mild(d), Calm(conns, conns'),
         UNCHANGED <<verifying, dataVars, taken>>
  PROVE  OneWay'
<1>1. Lets(d)
  <2>1. \A w, v \in writing[d] : w.payload = v.payload => w = v
    BY DEF OneWay, Orderly, Checked
  <2> QED
    BY <2>1, MildHook DEF Lets, dataVars
<1>2. \A e \in Device \ {d} : Alike(e)
  BY MildHook DEF Alike, dataVars
<1> QED
  BY <1>1, <1>2, BeginsCalm, SameTaken, LetsOneWay

LEMMA RelayOneWay ==
  ASSUME OneWay, UNCHANGED <<hook, verifying, dataVars, taken>>,
         NEW S \in SUBSET Snapshot, \A s \in Snapshot \ S : Kept(conns, conns', Begins(s)),
         \A s \in S : Announced(s)'
  PROVE  OneWay'
<1>1. \A e \in Device : Alike(e)
  BY DEF Alike, dataVars
<1>2. \A s \in Snapshot, e \in Device : Has(e, s)' = Has(e, s)
  BY <1>1, AlikeKept
<1>3. \A s \in Snapshot \ S : Announced(s)'
  BY <1>2, SameTaken, AnnouncedKept DEF OneWay
<1>4. \A s \in Snapshot, e \in Device : Owned(e, s)'
  BY <1>2, SameTaken, OwnedKept DEF OneWay
<1>5. \A e \in Device : Orderly(e)'
  BY <1>1, AlikeKept DEF OneWay
<1>6. \A s \in Snapshot : Announced(s)'
  BY <1>3
<1> QED
  BY <1>4, <1>5, <1>6 DEF OneWay, Snapshot

LEMMA CalmOneWay ==
  ASSUME OneWay, Calm(conns, conns'), UNCHANGED <<hook, verifying, dataVars, taken>>
  PROVE  OneWay'
<1>1. {} \in SUBSET Snapshot /\ \A s \in {} : Announced(s)'
  OBVIOUS
<1>2. \A s \in Snapshot \ {} : Kept(conns, conns', Begins(s))
  BY BeginsCalm
<1> QED
  BY <1>1, <1>2, RelayOneWay

\* The screen is left: a write under way has nobody to tell.
LEMMA LeaveOneWay ==
  ASSUME QuotaInv, OneWay, NEW d \in Device, Leave(d) PROVE OneWay'
<1>1. Mild(d) /\ Calm(conns, conns')
  BY ResetMild
<1>2. /\ verifying \in [Device -> SUBSET Recv] /\ writing \in [Device -> SUBSET Write]
      /\ verifying' = [verifying EXCEPT ![d] = {}] /\ written' = written /\ taken' = taken
      /\ \/ writing' = [writing EXCEPT ![d] = {[w EXCEPT !.told = FALSE] : w \in @}]
         \/ writing' = [writing EXCEPT ![d] = {}]
  BY DEF Leave, Dropped, QuotaInv, Types, WorkTypes
<1>3. \A w \in writing'[d] : \E v \in writing[d] : v.payload = w.payload /\ w = [v EXCEPT !.told = FALSE]
  <2>1. \A v \in writing[d] : [v EXCEPT !.told = FALSE].payload = v.payload
    BY <1>2 DEF Write
  <2>2. \/ writing'[d] = {[w EXCEPT !.told = FALSE] : w \in writing[d]}
        \/ writing'[d] = {}
    BY <1>2
  <2>3. \A w \in writing'[d] : \E v \in writing[d] : w = [v EXCEPT !.told = FALSE]
    BY <2>2
  <2> QED
    BY <2>1, <2>3
<1>4. \A w, v \in writing'[d] : w.payload = v.payload => w = v
  <2>1. \A w, v \in writing[d] : w.payload = v.payload => w = v
    BY DEF OneWay, Orderly, Checked
  <2> QED
    BY <1>3, <2>1
<1>5. Lets(d)
  BY <1>1, <1>2, <1>3, <1>4, MildHook DEF Lets
<1>6. \A e \in Device \ {d} : Alike(e)
  BY <1>1, <1>2, MildHook DEF Alike
<1> QED
  BY <1>1, <1>2, <1>5, <1>6, BeginsCalm, SameTaken, LetsOneWay

LEMMA NotNoRecv == ASSUME NEW r, r.sha \in Snapshot PROVE r # NoRecv
<1>1. NoRecv.sha = <<>>
  BY DEF NoRecv, NoChunk
<1>2. DOMAIN <<>> = {}
  OBVIOUS
<1>3. \A s \in Snapshot : DOMAIN s = {"from", "code", "size"}
  BY DEF Snapshot
<1> QED
  BY <1>1, <1>2, <1>3

\* What is announced comes to a hook that has none of it.
LEMMA BeginOneWay ==
  ASSUME QuotaInv, OneWay, NEW d \in Device, OnBegin(d) PROVE OneWay'
<1>1. PICK k, s : k = hook[d].ws /\ s = Message(d).sha
  OBVIOUS
<1>2. /\ k \in DOMAIN conns /\ conns[k].by = d /\ conns[k].down \in Seq(Frame)
      /\ conns[k].down # <<>> /\ Head(conns[k].down) \in Begins(s)
      /\ conns' = Dequeued(k) /\ s \in Snapshot /\ conns \in Seq(Conn)
  <2>1. Got(d, "begin") /\ conns' = Read(d) /\ Message(d) = Head(conns[k].down)
    BY <1>1 DEF OnBegin, Message
  <2>2. /\ k \in DOMAIN conns /\ conns[k].down # <<>> /\ Message(d) \in Frame
        /\ conns[k].by = d /\ Message(d).type = "begin" /\ Read(d) = Dequeued(k)
    BY <1>1, <2>1, GotFacts
  <2>3. conns \in Seq(Conn)
    BY DEF QuotaInv, Types
  <2>4. s \in Snapshot
    BY <1>1, BeginFacts
  <2> QED
    BY <1>1, <2>1, <2>2, <2>3, <2>4, ConnFields DEF Begins
<1>3. /\ Brings(k, s) /\ OnceIn(conns[k].down, Begins(s)) => ~In(Tail(conns[k].down), Begins(s))
  BY <1>2, LessTail DEF Brings
<1>4. /\ (Apart => s.from # d) /\ Cut(s) \in taken[s.from] /\ \A e \in Device : ~Has(e, s)
      /\ ~In(Tail(conns[k].down), Begins(s))
      /\ \A l \in DOMAIN conns : ~Offers(l, s) /\ (Brings(l, s) => k = l)
  <2>1. Announced(s) /\ Brings(k, s)
    BY <1>2, LessTail DEF OneWay, Brings
  <2> QED
    BY <1>2, <2>1, LessTail DEF Announced
<1>5. /\ hook'[d].recv = Empty(s) /\ hook'[d].recv # NoRecv /\ hook'[d].recv.sha = s
      /\ hook'[d].status = hook[d].status /\ hook'[d].payload = hook[d].payload
      /\ \A e \in Device \ {d} : Alike(e)
      /\ verifying' = verifying /\ writing' = writing /\ written' = written /\ taken' = taken
  <2>1. hook \in [Device -> Hook] /\ hook' = [hook EXCEPT ![d].recv = Empty(s)]
    BY <1>1, BeginFacts DEF QuotaInv, Types
  <2>2. Empty(s).sha = s /\ Empty(s) # NoRecv
    <3>1. Empty(s).sha = s
      BY DEF Empty
    <3> QED
      BY <1>2, <3>1, NotNoRecv
  <2>3. verifying' = verifying /\ writing' = writing /\ written' = written /\ taken' = taken
    BY DEF OnBegin, dataVars
  <2> QED
    BY <2>1, <2>2, <2>3 DEF Alike, Hook
<1>6. \A t \in Snapshot : /\ Collects(d, t)' => t = s
                          /\ Checks(d, t)' = Checks(d, t) /\ Past(d, t)' = Past(d, t)
                          /\ Reviews(d, t)' = Reviews(d, t) /\ Puts(d, t)' = Puts(d, t)
                          /\ Wrote(d, t)' = Wrote(d, t)
  <2>1. \A t \in Snapshot : Collects(d, t)' => t = s
    BY <1>5 DEF Collects
  <2>2. \A t \in Snapshot : /\ Checks(d, t)' = Checks(d, t)
                            /\ Reviews(d, t)' = Reviews(d, t) /\ Puts(d, t)' = Puts(d, t)
                            /\ Wrote(d, t)' = Wrote(d, t)
    BY <1>5 DEF Checks, Reviews, Puts, Wrote, Cut
  <2> QED
    BY <2>1, <2>2 DEF Past
<1>7. \A t \in Snapshot, e \in Device : Has(e, t)' => Has(e, t) \/ (e = d /\ t = s)
  <2>1. \A t \in Snapshot, e \in Device \ {d} : Has(e, t)' = Has(e, t)
    BY <1>5, AlikeKept
  <2>2. \A t \in Snapshot : Has(d, t)' => Has(d, t) \/ t = s
    BY <1>6 DEF Has
  <2> QED
    BY <2>1, <2>2
<1>8. \A e \in Device : Orderly(e)'
  <2>1. \A e \in Device \ {d} : Orderly(e)'
    BY <1>5, AlikeKept DEF OneWay
  <2>2. \A t \in Snapshot : InTurn(d, t)'
    <3>1. ~Past(d, s)
      BY <1>4 DEF Has
    <3>2. \A t \in Snapshot : InTurn(d, t)
      BY DEF OneWay, Orderly
    <3> QED
      BY <1>6, <3>1, <3>2 DEF InTurn
  <2>3. Checked(d)'
    <3>1. \A r \in verifying[d] : ~Collects(d, r.sha)'
      <4>1. ~Checks(d, s)
        BY <1>4 DEF Has
      <4> QED
        BY <1>5, <4>1 DEF Collects, Checks
    <3>2. Checked(d)
      BY DEF OneWay, Orderly
    <3> QED
      BY <1>5, <3>1, <3>2 DEF Checked, Complete
  <2> QED
    BY <2>1, <2>2, <2>3 DEF Orderly
<1>9. \A t \in Snapshot : Announced(t)'
  <2>1. ASSUME NEW t \in Snapshot, t # s PROVE Announced(t)'
    <3>1. Kept(conns, conns', Begins(t)) /\ StaysTaken(t) /\ \A e \in Device : Has(e, t)' => Has(e, t)
      BY <1>2, <1>5, <1>7, <2>1, DequeuedFacts, SameTaken
    <3> QED
      BY <3>1, AnnouncedKept DEF OneWay
  <2>2. Announced(s)'
    <3>1. /\ DOMAIN conns' = DOMAIN conns /\ conns'[k].down = Tail(conns[k].down)
          /\ \A i \in DOMAIN conns : conns'[i].up = conns[i].up /\ (i # k => conns'[i] = conns[i])
      BY <1>2, DequeuedFacts DEF Kept
    <3>2. \A i \in DOMAIN conns' : ~In(conns'[i].up, Begins(s)) /\ ~In(conns'[i].down, Begins(s))
      BY <1>4, <3>1 DEF Offers, Brings
    <3> QED
      BY <3>2 DEF Announced, Offers, Brings, Begins, In
  <2> QED
    BY <2>1, <2>2
<1>10. \A t \in Snapshot, e \in Device : Owned(e, t)'
  <2>1. ASSUME NEW t \in Snapshot, t # s PROVE \A e \in Device : Owned(e, t)'
    BY <1>5, <1>7, <2>1, SameTaken, OwnedKept DEF OneWay
  <2>2. \A e \in Device : Has(e, s)' => e = d
    BY <1>2, <1>4, <1>7
  <2>3. \A e \in Device : Owned(e, s)'
    <3>1. Cut(s)' = Cut(s)
      BY DEF Cut
    <3> QED
      BY <1>4, <1>5, <2>2, <3>1 DEF Owned
  <2> QED
    BY <2>1, <2>3
<1> QED
  BY <1>8, <1>9, <1>10 DEF OneWay, Snapshot

LEMMA ChunkOneWay ==
  ASSUME QuotaInv, OneWay, NEW d \in Device, OnChunk(d) PROVE OneWay'
<1>1. /\ Calm(conns, conns') /\ hook[d].ws # 0
      /\ (hook' = hook /\ verifying' = verifying) \/ \E r \in Recv : Filled(d, r)
      /\ UNCHANGED <<dataVars, taken>>
  BY ChunkFacts DEF OnChunk
<1>2. CASE hook' = hook /\ verifying' = verifying
  <2>1. UNCHANGED <<hook, verifying, dataVars, taken>>
    BY <1>1, <1>2
  <2> QED
    BY <1>1, <2>1, CalmOneWay
<1>3. ASSUME NEW r \in Recv, Filled(d, r) PROVE OneWay'
  <2>1. PICK t : t = hook[d].recv.sha
    OBVIOUS
  <2>2. /\ hook \in [Device -> Hook] /\ verifying \in [Device -> SUBSET Recv]
        /\ t \in Snapshot /\ r.sha = t /\ r # NoRecv /\ hook[d].recv # NoRecv
        /\ Complete(hook[d].recv) => r = hook[d].recv
    BY <1>3, <2>1, NotNoRecv DEF QuotaInv, Types, WorkTypes, Filled, Recv
  <2>3. /\ hook'[d].recv = r /\ hook'[d].ws = hook[d].ws
        /\ hook'[d].status = hook[d].status /\ hook'[d].payload = hook[d].payload
        /\ \A e \in Device \ {d} : hook'[e] = hook[e]
    BY <1>3, <2>2 DEF Filled, Hook
  <2>4. /\ \A q \in verifying'[d] : q \in verifying[d] \/ (q = r /\ Complete(r))
        /\ \A e \in Device \ {d} : verifying'[e] = verifying[e]
    BY <1>3, <2>2 DEF Filled
  <2>5. writing' = writing /\ written' = written /\ taken' = taken
    BY <1>1 DEF dataVars
  <2>6. Checked(d) /\ \A s \in Snapshot : InTurn(d, s)
    BY DEF OneWay, Orderly
  <2>7. Collects(d, t) /\ ~Past(d, t)
    BY <1>1, <2>1, <2>2, <2>6 DEF Collects, InTurn
  <2>8. \A s \in Snapshot : /\ Collects(d, s)' = Collects(d, s) /\ Past(d, s)' = Past(d, s)
                            /\ Reviews(d, s)' = Reviews(d, s) /\ Puts(d, s)' = Puts(d, s)
                            /\ Wrote(d, s)' = Wrote(d, s)
                            /\ Checks(d, s)' => Checks(d, s) \/ s = t
    <3>1. \A s \in Snapshot : Collects(d, s)' = Collects(d, s)
      BY <2>1, <2>2, <2>3 DEF Collects
    <3>2. \A s \in Snapshot : /\ Reviews(d, s)' = Reviews(d, s) /\ Puts(d, s)' = Puts(d, s)
                              /\ Wrote(d, s)' = Wrote(d, s)
      BY <2>3, <2>5 DEF Reviews, Puts, Wrote, Cut
    <3>3. \A s \in Snapshot : Checks(d, s)' => Checks(d, s) \/ s = t
      BY <2>2, <2>4 DEF Checks
    <3> QED
      BY <3>1, <3>2, <3>3 DEF Past
  <2>9. \A s \in Snapshot : Has(d, s)' => Has(d, s)
    BY <2>7, <2>8 DEF Has
  <2>10. \A s \in Snapshot : InTurn(d, s)'
    BY <2>3, <2>6, <2>7, <2>8 DEF InTurn
  <2>11. \A q \in verifying'[d] : /\ Complete(q) /\ (q.sha = t => q = r)
                                  /\ q.sha # t => q \in verifying[d]
    <3>1. \A q \in verifying[d] : Complete(q) /\ (q.sha = t => q = r)
      <4>1. \A q \in verifying[d] : Complete(q) /\ (Collects(d, q.sha) => hook[d].recv = q)
        BY <2>6 DEF Checked
      <4> QED
        BY <2>2, <2>7, <4>1
    <3> QED
      BY <2>2, <2>4, <3>1
  <2>12. Checked(d)'
    <3>1. \A q, p \in verifying[d] : p.sha = q.sha => p = q
      BY <2>6 DEF Checked
    <3>2. \A q, p \in verifying'[d] : p.sha = q.sha => p = q
      BY <2>11, <3>1
    <3>3. \A q \in verifying'[d] : Collects(d, q.sha)' => hook'[d].recv = q
      BY <2>2, <2>3, <2>11 DEF Collects
    <3>4. \A w, v \in writing'[d] : w.payload = v.payload => w = v
      BY <2>5, <2>6 DEF Checked
    <3> QED
      BY <2>11, <3>2, <3>3, <3>4 DEF Checked, Complete
  <2>13. \A e \in Device \ {d} : Alike(e)
    BY <2>3, <2>4, <2>5 DEF Alike
  <2>14. Orderly(d)'
    BY <2>10, <2>12 DEF Orderly
  <2> QED
    BY <1>1, <2>5, <2>9, <2>13, <2>14, BeginsCalm, SameTaken, OneWayKept
<1> QED
  BY <1>1, <1>2, <1>3

\* What was checked is looked at, and no more checked.
LEMMA VerifyOneWay ==
  ASSUME QuotaInv, OneWay, NEW d \in Device, NEW r \in verifying[d], VerifyDone(d, r)
  PROVE  OneWay'
<1>1. /\ Calm(conns, conns') /\ r \in Recv
      /\ verifying' = [verifying EXCEPT ![d] = @ \ {r}] /\ verifying \in [Device -> SUBSET Recv]
      /\ writing' = writing /\ written' = written /\ taken' = taken /\ hook \in [Device -> Hook]
  BY VerifyFacts DEF VerifyDone, dataVars, QuotaInv, Types, WorkTypes
<1>2. Checked(d) /\ \A s \in Snapshot : InTurn(d, s)
  BY DEF OneWay, Orderly
<1>3. CASE Mild(d)
  <2>1. Lets(d)
    BY <1>1, <1>2, <1>3, MildHook DEF Lets, Checked
  <2>2. \A e \in Device \ {d} : Alike(e)
    BY <1>1, <1>3, MildHook DEF Alike
  <2> QED
    BY <1>1, <2>1, <2>2, BeginsCalm, SameTaken, LetsOneWay
<1>4. ASSUME NEW h \in Hook, hook' = [hook EXCEPT ![d] = h], h.ws = 0, h.recv = hook[d].recv,
             h.status = "review", h.payload = Cut(r.sha)
      PROVE  OneWay'
  <2>1. PICK t : t = r.sha
    OBVIOUS
  <2>2. t \in Snapshot /\ Checks(d, t) /\ ~Past(d, t)
    <3>1. t \in Snapshot /\ Checks(d, t)
      BY <1>1, <2>1 DEF Checks, Recv
    <3> QED
      BY <1>2, <3>1 DEF InTurn
  <2>3. /\ hook'[d] = h /\ \A e \in Device \ {d} : Alike(e)
        /\ verifying'[d] = verifying[d] \ {r}
    BY <1>1, <1>4 DEF Alike
  <2>4. \A s \in Snapshot : Collects(d, s)' = Collects(d, s)
    BY <1>4, <2>3 DEF Collects
  <2>5. /\ \A s \in Snapshot : Checks(d, s)' => Checks(d, s) /\ s # t
    BY <1>2, <2>1, <2>3 DEF Checks, Checked
  <2>6. \A s \in Snapshot : Reviews(d, s)' => s = t
    <3>1. \A s \in Snapshot : Cut(s)' = Cut(s)
      BY DEF Cut
    <3>2. \A s \in Snapshot : Reviews(d, s)' => Cut(t) = Cut(s)
      BY <1>4, <2>1, <2>3, <3>1 DEF Reviews
    <3> QED
      BY <2>2, <3>2, CutOnce
  <2>7. \A s \in Snapshot : Puts(d, s)' = Puts(d, s) /\ Wrote(d, s)' = Wrote(d, s)
    BY <1>1 DEF Puts, Wrote, Cut
  <2>8. \A s \in Snapshot : Past(d, s)' => Past(d, s) \/ s = t
    BY <2>6, <2>7 DEF Past
  <2>9. \A s \in Snapshot : Has(d, s)' => Has(d, s)
    BY <2>2, <2>4, <2>5, <2>8 DEF Has
  <2>10. \A s \in Snapshot : InTurn(d, s)'
    <3>1. \A s \in Snapshot : Collects(d, s)' /\ Past(d, s)' => hook'[d].ws = 0
      BY <1>4, <2>3
    <3>2. \A s \in Snapshot : Checks(d, s)' => ~Past(d, s)'
      BY <1>2, <2>5, <2>8 DEF InTurn
    <3>3. \A s \in Snapshot : Reviews(d, s)' => ~Puts(d, s)' /\ ~Wrote(d, s)'
      BY <2>2, <2>6, <2>7 DEF Past
    <3>4. \A s \in Snapshot : Puts(d, s)' => ~Wrote(d, s)'
      BY <1>2, <2>7 DEF InTurn
    <3> QED
      BY <3>1, <3>2, <3>3, <3>4 DEF InTurn
  <2>11. Checked(d)'
    <3>1. hook'[d].recv = hook[d].recv /\ verifying'[d] \subseteq verifying[d] /\ writing' = writing
      BY <1>1, <1>4, <2>3
    <3> QED
      BY <1>2, <3>1 DEF Checked, Collects, Complete
  <2>12. Orderly(d)'
    BY <2>10, <2>11 DEF Orderly
  <2> QED
    BY <1>1, <2>3, <2>9, <2>12, BeginsCalm, SameTaken, OneWayKept
<1> QED
  BY <1>3, <1>4, VerifyFacts

LEMMA ApplyOneWay ==
  ASSUME QuotaInv, OneWay, NEW d \in Device, Apply(d) PROVE OneWay'
<1>1. /\ Mild(d) /\ Calm(conns, conns') /\ hook[d].status = "review"
      /\ hook \in [Device -> Hook] /\ writing \in [Device -> SUBSET Write]
      /\ hook' = [hook EXCEPT ![d].status = "applying"]
      /\ verifying' = verifying /\ written' = written /\ taken' = taken
  BY ApplyMild DEF Apply, QuotaInv, Types, WorkTypes
<1>2. PICK s \in Snapshot : hook[d].payload = Cut(s)
  <2>1. hook[d].payload \in Payload
    BY <1>1, HookFields DEF HookPlaces
  <2> QED
    BY <2>1, PayloadIs
<1>3. PICK v : v = [payload |-> Cut(s), told |-> TRUE]
  OBVIOUS
<1>4. /\ writing'[d] = writing[d] \cup {v} /\ v.payload = Cut(s)
      /\ \A e \in Device \ {d} : writing'[e] = writing[e]
  BY <1>1, <1>2, <1>3 DEF Apply
<1>5. /\ hook'[d].status = "applying" /\ hook'[d].recv = hook[d].recv /\ hook'[d].ws = hook[d].ws
      /\ \A e \in Device \ {d} : hook'[e] = hook[e]
  BY <1>1 DEF Hook
<1>6. Checked(d) /\ \A t \in Snapshot : InTurn(d, t)
  BY DEF OneWay, Orderly
<1>7. Reviews(d, s) /\ ~Puts(d, s) /\ ~Wrote(d, s) /\ Past(d, s)
  BY <1>1, <1>2, <1>6 DEF Reviews, InTurn, Past
<1>8. \A t \in Snapshot : Cut(t)' = Cut(t)
  BY DEF Cut
<1>9. \A t \in Snapshot : /\ Collects(d, t)' = Collects(d, t) /\ Checks(d, t)' = Checks(d, t)
                          /\ ~Reviews(d, t)' /\ Wrote(d, t)' = Wrote(d, t)
  BY <1>1, <1>5, <1>8 DEF Collects, Checks, Reviews, Wrote
<1>10. \A t \in Snapshot : Puts(d, t)' => Puts(d, t) \/ t = s
  <2>1. \A t \in Snapshot : Cut(t) = Cut(s) => t = s
    BY <1>2, CutOnce
  <2> QED
    BY <1>4, <1>8, <2>1 DEF Puts
<1>11. \A t \in Snapshot : (Past(d, t)' => Past(d, t)) /\ (Has(d, t)' => Has(d, t))
  BY <1>7, <1>9, <1>10 DEF Past, Has
<1>12. \A t \in Snapshot : InTurn(d, t)'
  <2>1. \A t \in Snapshot : Collects(d, t)' /\ Past(d, t)' => hook'[d].ws = 0
    BY <1>5, <1>6, <1>9, <1>11 DEF InTurn
  <2>2. \A t \in Snapshot : Checks(d, t)' => ~Past(d, t)'
    BY <1>6, <1>9, <1>11 DEF InTurn
  <2>3. \A t \in Snapshot : Puts(d, t)' => ~Wrote(d, t)'
    BY <1>6, <1>7, <1>9, <1>10 DEF InTurn
  <2> QED
    BY <1>9, <2>1, <2>2, <2>3 DEF InTurn
<1>13. Checked(d)'
  <2>1. \A u \in writing[d] : u.payload # Cut(s)
    BY <1>7 DEF Puts
  <2>2. \A u, w \in writing[d] : u.payload = w.payload => u = w
    BY <1>6 DEF Checked
  <2>3. \A u, w \in writing'[d] : u.payload = w.payload => u = w
    BY <1>4, <2>1, <2>2
  <2>4. \A r \in verifying'[d] : /\ Complete(r)
                                 /\ \A q \in verifying'[d] : q.sha = r.sha => q = r
                                 /\ Collects(d, r.sha)' => hook'[d].recv = r
    BY <1>1, <1>5, <1>6 DEF Checked, Collects
  <2> QED
    BY <2>3, <2>4 DEF Checked, Complete
<1>14. Orderly(d)' /\ \A e \in Device \ {d} : Alike(e)
  BY <1>1, <1>4, <1>5, <1>12, <1>13 DEF Orderly, Alike
<1> QED
  BY <1>1, <1>11, <1>14, BeginsCalm, SameTaken, OneWayKept

\* A write that is through, or came to nothing.
LEMMA WriteOneWay ==
  ASSUME QuotaInv, OneWay, NEW d \in Device, NEW w \in writing[d], WriteDone(d, w)
  PROVE  OneWay'
<1>1. /\ Mild(d) /\ Calm(conns, conns')
      /\ writing \in [Device -> SUBSET Write] /\ written \in [Device -> Seq(Payload)]
      /\ writing' = [writing EXCEPT ![d] = @ \ {w}]
      /\ verifying' = verifying /\ taken' = taken
      /\ written' = [written EXCEPT ![d] = Append(@, w.payload)] \/ written' = written
  BY WriteMild DEF WriteDone, RolledBack, QuotaInv, Types, WorkTypes
<1>2. Checked(d) /\ \A t \in Snapshot : InTurn(d, t)
  BY DEF OneWay, Orderly
<1>3. /\ \A e \in Device \ {d} : Alike(e)
      /\ verifying'[d] = verifying[d]
      /\ writing'[d] = writing[d] \ {w}
  BY <1>1, MildHook DEF Alike
<1>4. \A u, v \in writing'[d] : u.payload = v.payload => u = v
  BY <1>2, <1>3 DEF Checked
<1>5. CASE written' = written
  <2>1. Lets(d)
    BY <1>1, <1>3, <1>4, <1>5, MildHook DEF Lets
  <2> QED
    BY <1>1, <1>3, <2>1, BeginsCalm, SameTaken, LetsOneWay
<1>6. CASE written' = [written EXCEPT ![d] = Append(@, w.payload)]
  <2>1. PICK s \in Snapshot : w.payload = Cut(s)
    <3>1. w.payload \in Payload
      BY <1>1 DEF Write
    <3> QED
      BY <3>1, PayloadIs
  <2>2. \A t \in Snapshot : Wrote(d, t)' => Wrote(d, t) \/ t = s
    <3>1. /\ written[d] \in Seq(Payload) /\ Cut(s) \in Payload
          /\ written'[d] = Append(written[d], Cut(s))
      BY <1>1, <1>6, <2>1, CutFacts
    <3>2. \A i \in DOMAIN written'[d] : \/ i \in DOMAIN written[d] /\ written'[d][i] = written[d][i]
                                        \/ written'[d][i] = Cut(s)
      BY <3>1, AppendProperties, LenProperties
    <3>3. \A t \in Snapshot : Cut(t)' = Cut(t)
      BY DEF Cut
    <3>4. \A t \in Snapshot : Cut(t) = Cut(s) => t = s
      BY CutOnce
    <3> QED
      BY <3>2, <3>3, <3>4 DEF Wrote
  <2>3. Puts(d, s) /\ Past(d, s)
    BY <2>1 DEF Puts, Past
  <2>4. \A t \in Snapshot : /\ Collects(d, t)' => Collects(d, t) /\ hook'[d].ws \in {hook[d].ws, 0}
                            /\ Checks(d, t)' = Checks(d, t)
                            /\ Reviews(d, t)' => Reviews(d, t)
                            /\ Puts(d, t)' => Puts(d, t) /\ t # s
    <3> SUFFICES ASSUME NEW t \in Snapshot
                 PROVE  /\ Collects(d, t)' => Collects(d, t) /\ hook'[d].ws \in {hook[d].ws, 0}
                        /\ Checks(d, t)' = Checks(d, t)
                        /\ Reviews(d, t)' => Reviews(d, t)
                        /\ Puts(d, t)' => Puts(d, t) /\ t # s
      OBVIOUS
    <3>1. Cut(t)' = Cut(t)
      BY DEF Cut
    <3>2. Collects(d, t)' => Collects(d, t) /\ hook'[d].ws \in {hook[d].ws, 0}
      BY <1>1, MildHook DEF Collects
    <3>3. Checks(d, t)' = Checks(d, t)
      BY <1>3 DEF Checks
    <3>4. Reviews(d, t)' => Reviews(d, t)
      BY <1>1, <3>1, MildHook DEF Reviews
    <3>5. Puts(d, t)' => Puts(d, t) /\ t # s
      BY <1>2, <1>3, <2>1, <3>1 DEF Puts, Checked
    <3> QED
      BY <3>2, <3>3, <3>4, <3>5
  <2>5. \A t \in Snapshot : (Past(d, t)' => Past(d, t)) /\ (Has(d, t)' => Has(d, t))
    BY <2>2, <2>3, <2>4 DEF Past, Has
  <2>6. \A t \in Snapshot : InTurn(d, t)'
    <3>1. \A t \in Snapshot : Collects(d, t)' /\ Past(d, t)' => hook'[d].ws = 0
      BY <1>2, <2>4, <2>5 DEF InTurn
    <3>2. \A t \in Snapshot : Checks(d, t)' => ~Past(d, t)'
      BY <1>2, <2>4, <2>5 DEF InTurn
    <3>3. \A t \in Snapshot : Reviews(d, t)' => ~Puts(d, t)' /\ ~Wrote(d, t)'
      BY <1>2, <2>2, <2>3, <2>4 DEF InTurn
    <3>4. \A t \in Snapshot : Puts(d, t)' => ~Wrote(d, t)'
      BY <1>2, <2>2, <2>4 DEF InTurn
    <3> QED
      BY <3>1, <3>2, <3>3, <3>4 DEF InTurn
  <2>7. Checked(d)'
    <3>1. \A r \in verifying'[d] : /\ Complete(r)
                                   /\ \A q \in verifying'[d] : q.sha = r.sha => q = r
                                   /\ Collects(d, r.sha)' => hook'[d].recv = r
      <4>1. \A t : Collects(d, t)' => Collects(d, t) /\ hook'[d].recv = hook[d].recv
        BY <1>1, MildHook DEF Collects
      <4> QED
        BY <1>2, <1>3, <4>1 DEF Checked
    <3> QED
      BY <1>4, <3>1 DEF Checked, Complete
  <2>8. Orderly(d)'
    BY <2>6, <2>7 DEF Orderly
  <2> QED
    BY <1>1, <1>3, <2>5, <2>8, BeginsCalm, SameTaken, OneWayKept
<1> QED
  BY <1>1, <1>5, <1>6

\* A snapshot is announced for the first time.
LEMMA ExportOneWay ==
  ASSUME QuotaInv, OneWay, NEW d \in Device, NEW c \in Code, NEW n \in 1..MaxChunks,
         NEW open \in BOOLEAN, ExportDone(d, c, n, open), ~Took(c)
  PROVE  OneWay'
<1>1. PICK s : s = Export(d, c, n)
  OBVIOUS
<1>2. /\ s \in Snapshot /\ Mild(d)
      /\ conns' = conns \/ conns' = Posted(conns, hook[d].ws, Opening(hook[d].code, s))
      /\ \A t \in Snapshot \ {s} : Kept(conns, conns', Begins(t))
  BY <1>1, ExportMild
<1>3. s.from = d /\ s.code = c
  BY <1>1 DEF Export
<1>4. /\ verifying' = verifying /\ writing' = writing /\ written' = written
      /\ taken' = [taken EXCEPT ![d] = @ \cup {Cut(s)}] /\ taken \in [Device -> SUBSET Payload]
  BY <1>1 DEF ExportDone, Export, dataVars, QuotaInv, Types, WorkTypes
<1>5. /\ \A e \in Device : ~Has(e, s)
      /\ \A k \in DOMAIN conns : ~Offers(k, s) /\ ~Brings(k, s)
  <2>1. Cut(s) \notin taken[s.from]
    BY <1>2, <1>3 DEF Took
  <2> QED
    BY <1>2, <2>1 DEF OneWay, Announced, Owned
<1>6. Lets(d) /\ \A e \in Device \ {d} : Alike(e)
  <2>1. \A u, v \in writing[d] : u.payload = v.payload => u = v
    BY DEF OneWay, Orderly, Checked
  <2> QED
    BY <1>2, <1>4, <2>1, MildHook DEF Lets, Alike
<1>7. \A t \in Snapshot, e \in Device : Has(e, t)' => Has(e, t)
  BY <1>6, LetsKept, AlikeKept DEF OneWay
<1>8. \A t \in Snapshot : StaysTaken(t)
  BY <1>4 DEF StaysTaken
<1>9. \A e \in Device : Orderly(e)'
  BY <1>6, LetsKept, AlikeKept DEF OneWay
<1>10. \A t \in Snapshot, e \in Device : Owned(e, t)'
  BY <1>7, <1>8, OwnedKept DEF OneWay
<1>11. \A t \in Snapshot \ {s} : Announced(t)'
  BY <1>2, <1>7, <1>8, AnnouncedKept DEF OneWay
<1>12. Announced(s)'
  <2>1. Cut(s)' = Cut(s) /\ Cut(s) \in taken'[s.from]
    BY <1>3, <1>4 DEF Cut
  <2>2. \A e \in Device : ~Has(e, s)'
    BY <1>2, <1>5, <1>7
  <2>3. /\ DOMAIN conns' = DOMAIN conns
        /\ \A k \in DOMAIN conns : ~In(conns'[k].down, Begins(s))
        /\ \A k \in DOMAIN conns : In(conns'[k].up, Begins(s)) =>
             k = hook[d].ws /\ conns'[k].by = d /\ OnceIn(conns'[k].up, Begins(s))
    <3>1. CASE conns' = conns
      BY <1>5, <3>1 DEF Offers, Brings
    <3>2. CASE conns' = Posted(conns, hook[d].ws, Opening(hook[d].code, s))
      <4>1. PICK o : o = Opening(hook[d].code, s)
        OBVIOUS
      <4>2. /\ conns \in Seq(Conn) /\ hook[d].ws \in 0..Len(conns) /\ hook[d].code \in Nat
            /\ hook[d].ws # 0 => conns[hook[d].ws].by = d
        BY HookFields DEF Hook, HookPlaces
      <4>3. o \in Seq(Frame) /\ OnceIn(o, Begins(s))
        BY <1>2, <4>1, <4>2, OpeningFacts
      <4>4. /\ Kept(conns, conns', {})
            /\ \A i \in DOMAIN conns : /\ i # hook[d].ws => conns'[i] = conns[i]
                                       /\ conns'[i].down = conns[i].down
        BY <3>2, <4>1, <4>2, <4>3, PostedFacts
      <4>5. hook[d].ws # 0 /\ ~In(conns[hook[d].ws].up, Begins(s))
            => OnceIn(conns'[hook[d].ws].up, Begins(s))
        BY <3>2, <4>1, <4>2, <4>3, PostedFacts
      <4>6. /\ DOMAIN conns' = DOMAIN conns
            /\ \A k \in DOMAIN conns : conns'[k].by = conns[k].by /\ k # 0
        <5>1. DOMAIN conns = 1..Len(conns)
          BY <4>2, LenProperties
        <5> QED
          BY <4>4, <5>1 DEF Kept
      <4>7. \A k \in DOMAIN conns : In(conns'[k].up, Begins(s)) => k = hook[d].ws
        BY <1>5, <4>4 DEF Offers
      <4> QED
        BY <1>5, <4>2, <4>4, <4>5, <4>6, <4>7 DEF Offers, Brings
    <3> QED
      BY <1>2, <3>1, <3>2
  <2>4. \A k \in DOMAIN conns' : ~Brings(k, s)'
    BY <2>3 DEF Brings, In, Begins
  <2>5. \A k \in DOMAIN conns' : Offers(k, s)' =>
          k = hook[d].ws /\ conns'[k].by = d /\ OnceIn(conns'[k].up, Begins(s))
    BY <2>3 DEF Offers, In, OnceIn, Begins
  <2> QED
    BY <1>3, <2>1, <2>2, <2>4, <2>5 DEF Announced, OnceIn, Begins
<1> QED
  BY <1>9, <1>10, <1>11, <1>12 DEF OneWay, Snapshot

LEMMA ConnectOneWay ==
  ASSUME QuotaInv, OneWay, NEW d \in Device, NEW t \in {"create", "join"}, NEW c \in Nat,
         NEW code, NEW n, Opens(d, Msg(t, c), code, n),
         UNCHANGED <<verifying, dataVars, taken>>
  PROVE  OneWay'
<1>1. /\ DOMAIN conns' = DOMAIN conns \cup {n} /\ n \notin DOMAIN conns
      /\ \A k \in DOMAIN conns : conns'[k] = conns[k]
      /\ conns'[n].up = Alone(Msg(t, c)) /\ conns'[n].down = <<>>
  BY DEF Opens
<1>2. Lets(d) /\ \A e \in Device \ {d} : Alike(e)
  <2>1. \A u, v \in writing[d] : u.payload = v.payload => u = v
    BY DEF OneWay, Orderly, Checked
  <2> QED
    BY <2>1 DEF Lets, Alike, Opens, dataVars
<1>3. \A s \in Snapshot, e \in Device : Has(e, s)' => Has(e, s)
  BY <1>2, LetsKept, AlikeKept DEF OneWay
<1>4. \A e \in Device : Orderly(e)'
  BY <1>2, LetsKept, AlikeKept DEF OneWay
<1>5. \A s \in Snapshot, e \in Device : Owned(e, s)'
  BY <1>3, SameTaken, OwnedKept DEF OneWay
<1>6. ASSUME NEW s \in Snapshot PROVE Announced(s)'
  <2>1. ~In(conns'[n].up, Begins(s)) /\ ~In(conns'[n].down, Begins(s))
    BY <1>1, FirstMessage DEF Begins, Msg
  <2>2. /\ Announced(s) /\ taken' = taken /\ Cut(s)' = Cut(s) /\ Begins(s)' = Begins(s)
        /\ \A e \in Device : Has(e, s)' => Has(e, s)
    BY <1>3 DEF OneWay, Cut, Begins
  <2>3. \A k \in DOMAIN conns' :
          /\ Offers(k, s)' => k \in DOMAIN conns /\ Offers(k, s) /\ conns'[k] = conns[k]
          /\ Brings(k, s)' => k \in DOMAIN conns /\ Brings(k, s) /\ conns'[k] = conns[k]
    BY <1>1, <2>1, <2>2 DEF Offers, Brings, In
  <2>4. \A k \in DOMAIN conns' : Offers(k, s)' =>
          /\ s.from = conns'[k].by /\ OnceIn(conns'[k].up, Begins(s))
          /\ \A l \in DOMAIN conns' : (Offers(l, s)' => k = l) /\ ~Brings(l, s)'
    BY <2>2, <2>3 DEF Announced
  <2>5. \A k \in DOMAIN conns' : Brings(k, s)' =>
          /\ (Apart => s.from # conns'[k].by) /\ OnceIn(conns'[k].down, Begins(s))
          /\ \A l \in DOMAIN conns' : Brings(l, s)' => k = l
    BY <2>2, <2>3 DEF Announced
  <2>6. \A k \in DOMAIN conns' : Offers(k, s)' \/ Brings(k, s)' =>
          Cut(s) \in taken'[s.from] /\ \A e \in Device : ~Has(e, s)'
    BY <2>2, <2>3 DEF Announced
  <2> QED
    BY <2>4, <2>5, <2>6 DEF Announced, OnceIn, Begins, Cut
<1> QED
  BY <1>4, <1>5, <1>6 DEF OneWay, Snapshot

LEMMA KeptOneWay ==
  ASSUME OneWay, UNCHANGED <<hook, verifying, dataVars, taken>>,
         \A s \in Snapshot : Kept(conns, conns', Begins(s))
  PROVE  OneWay'
<1>1. {} \in SUBSET Snapshot /\ \A s \in {} : Announced(s)'
  OBVIOUS
<1> QED
  BY <1>1, RelayOneWay

\* An announcement goes from one of those who send to one of those who receive.
LEMMA PassOneWay ==
  ASSUME QuotaInv, Sides, OneWay, NEW k \in DOMAIN conns,
         conns[k].up # <<>>, NEW msg \in Frame, msg = Head(conns[k].up),
         NEW r \in DOMAIN conns \cup {0}, Passes(k, msg, r),
         UNCHANGED <<hook, verifying, dataVars, taken>>
  PROVE  OneWay'
<1>1. PICK s : s = msg.sha
  OBVIOUS
<1>2. /\ s \in Snapshot /\ msg \in Begins(s) /\ conns \in Seq(Conn) /\ conns[k].up \in Seq(Frame)
      /\ \A i \in DOMAIN conns : i # 0
  <2>1. msg.type = "begin" /\ conns \in Seq(Conn)
    BY DEF Passes, QuotaInv, Types
  <2>2. s \in Snapshot
    BY <1>1, <2>1 DEF Frame
  <2>3. DOMAIN conns = 1..Len(conns)
    BY <2>1, LenProperties
  <2> QED
    BY <1>1, <2>1, <2>2, <2>3, ConnFields DEF Begins
<1>3. /\ Announced(s) /\ Offers(k, s)
  BY <1>2, LessTail DEF OneWay, Offers
<1>4. /\ s.from = conns[k].by /\ OnceIn(conns[k].up, Begins(s))
      /\ \A l \in DOMAIN conns : (Offers(l, s) => k = l) /\ ~Brings(l, s)
      /\ Cut(s) \in taken[s.from] /\ \A d \in Device : ~Has(d, s)
  BY <1>3 DEF Announced
<1>5. \A t \in Snapshot \ {s} : Kept(conns, conns', Begins(t))
  <2>1. \A t \in Snapshot \ {s} : Begins(t) \in SUBSET Telling /\ msg \notin Begins(t)
    BY <1>1 DEF Begins, Telling
  <2> QED
    BY <2>1 DEF Passes
<1>6. /\ DOMAIN conns' = DOMAIN conns
      /\ \A i \in DOMAIN conns : conns'[i].by = conns[i].by
  <2>1. {} \in SUBSET Telling /\ msg \notin {}
    OBVIOUS
  <2>2. Kept(conns, conns', {})
    BY <2>1 DEF Passes
  <2> QED
    BY <2>2 DEF Kept
<1>7. \A i \in DOMAIN conns : ~In(conns'[i].up, Begins(s))
  <2>1. ~In(Tail(conns[k].up), Begins(s))
    BY <1>2, <1>4, LessTail
  <2> QED
    BY <1>4, <2>1 DEF Passes, Offers
<1>8. /\ \A i \in DOMAIN conns : In(conns'[i].down, Begins(s)) => i = r
      /\ r # 0 => OnceIn(conns'[r].down, Begins(s)) /\ (Apart => s.from # conns[r].by)
  <2>1. \A i \in DOMAIN conns : In(conns'[i].down, Begins(s)) => i = r
    BY <1>1, <1>4 DEF Passes, Brings
  <2>2. r # 0 => OnceIn(conns'[r].down, Begins(s))
    BY <1>1, <1>4 DEF Passes, Brings
  <2>3. r # 0 => conns[r].by \in Receiver
    BY DEF Passes, Sides
  <2>4. conns[k].by \in Sender
    BY DEF Passes, Sides
  <2> QED
    BY <1>4, <2>1, <2>2, <2>3, <2>4 DEF Apart
<1>9. Announced(s)'
  <2>1. Cut(s)' = Cut(s) /\ taken' = taken
    BY DEF Cut
  <2>2. \A d \in Device : ~Has(d, s)'
    <3>1. \A d \in Device : Alike(d)
      BY DEF Alike, dataVars
    <3> QED
      BY <1>2, <1>4, <3>1, AlikeKept
  <2>3. \A i \in DOMAIN conns' : ~Offers(i, s)'
    BY <1>6, <1>7 DEF Offers, In, Begins
  <2>4. \A i \in DOMAIN conns' : Brings(i, s)' =>
          i = r /\ (Apart => s.from # conns'[i].by) /\ OnceIn(conns'[i].down, Begins(s))
    <3>1. \A i \in DOMAIN conns' : Brings(i, s)' => i = r
      BY <1>6, <1>8 DEF Brings, In, Begins
    <3> QED
      BY <1>2, <1>6, <1>8, <3>1 DEF OnceIn, Begins
  <2> QED
    BY <1>4, <2>1, <2>2, <2>3, <2>4 DEF Announced, OnceIn, Begins
<1>10. /\ {s} \in SUBSET Snapshot /\ \A t \in {s} : Announced(t)'
  BY <1>2, <1>9
<1> QED
  BY <1>5, <1>10, RelayOneWay

-----------------------------------------------------------------------------
(***************************************************************************)
(* Every step keeps the promise.                                           *)
(***************************************************************************)
LEMMA HookSingle ==
  ASSUME QuotaInv, OneSnapshot, NEW d \in Device, CalmBut(conns, conns'), UNCHANGED relayVars,
         exporting' \in [Device -> SUBSET (1..issued)],
         \A e \in Device : exporting'[e] \subseteq exporting[e], taken' = taken
  PROVE  OneSnapshot'
<1>1. ASSUME NEW c \in Nat PROVE Single(c)'
  <2>1. Single(c) /\ Kept(conns, conns', Tells(c)) /\ (Took(c)' => Took(c))
    BY AsksSets, TookSame DEF OneSnapshot, CalmBut
  <2>2. Joined(c) => Joined(c)'
    BY JoinedKept DEF relayVars
  <2>3. \A e \in Device : c \in exporting'[e] => c \in exporting[e]
    OBVIOUS
  <2> QED
    BY <2>1, <2>2, <2>3, SingleKept
<1> QED
  BY <1>1 DEF OneSnapshot

LEMMA FewerExports ==
  ASSUME QuotaInv, WorkTypes', issued' = issued, NEW d \in Device, NEW c,
         \/ exporting' = exporting \/ exporting' = [exporting EXCEPT ![d] = @ \ {c}]
         \/ exporting' = Dropped(exporting, d)
  PROVE  /\ exporting' \in [Device -> SUBSET (1..issued)]
         /\ \A e \in Device : exporting'[e] \subseteq exporting[e]
<1>1. exporting \in [Device -> SUBSET (1..issued)]
  BY DEF QuotaInv, Types, WorkTypes
<1> QED
  BY <1>1 DEF Dropped

LEMMA HookPromise ==
  ASSUME QuotaInv, PromiseInv, NEW d \in Device,
         Receive(d) \/ Background(d) \/ Reset(d) \/ Leave(d) \/ Apply(d)
  PROVE  PromiseInv'
<1>1. CalmBut(conns, conns') /\ UNCHANGED relayVars /\ WorkTypes' /\ issued' = issued
  BY HookSteps DEF relayVars
<1>2. Sides'
  BY <1>1, SidesKept DEF PromiseInv, relayVars
<1>3. ASSUME NEW c, taken' = taken,
             \/ exporting' = exporting \/ exporting' = [exporting EXCEPT ![d] = @ \ {c}]
             \/ exporting' = Dropped(exporting, d)
      PROVE  OneSnapshot'
  BY <1>1, <1>3, FewerExports, HookSingle DEF PromiseInv
<1>4. CASE OnPeerJoined(d)
  <2>1. Mild(d) /\ Calm(conns, conns') /\ UNCHANGED <<verifying, dataVars, taken>>
    BY <1>4, ToldMild DEF OnPeerJoined
  <2> QED
    BY <1>2, <1>4, <2>1, PeerJoinedSingle, MildOneWay DEF PromiseInv
<1>5. CASE \/ OnCreated(d) \/ OnJoined(d) \/ OnAck(d) \/ OnCancelled(d) \/ OnError(d) \/ Reset(d)
  <2>1. Mild(d) /\ Calm(conns, conns')
    BY <1>5, ToldMild, AckMild, CancelledMild, ResetMild
  <2>2. UNCHANGED <<verifying, dataVars, taken>> /\ exporting' = exporting
    BY <1>5 DEF OnCreated, OnJoined, OnAck, OnCancelled, OnError, Reset
  <2> QED
    BY <1>2, <1>3, <2>1, <2>2, MildOneWay DEF PromiseInv
<1>6. CASE OnBegin(d)
  <2>1. exporting' = exporting /\ taken' = taken
    BY <1>6 DEF OnBegin
  <2> QED
    BY <1>2, <1>3, <1>6, <2>1, BeginOneWay DEF PromiseInv
<1>7. CASE OnChunk(d)
  <2>1. exporting' = exporting /\ taken' = taken
    BY <1>7 DEF OnChunk
  <2> QED
    BY <1>2, <1>3, <1>7, <2>1, ChunkOneWay DEF PromiseInv
<1>8. CASE Leave(d)
  <2>1. exporting' = Dropped(exporting, d) /\ taken' = taken
    BY <1>8 DEF Leave
  <2> QED
    BY <1>2, <1>3, <1>8, <2>1, LeaveOneWay DEF PromiseInv
<1>9. CASE Apply(d)
  <2>1. exporting' = exporting /\ taken' = taken
    BY <1>9 DEF Apply
  <2> QED
    BY <1>2, <1>3, <1>9, <2>1, ApplyOneWay DEF PromiseInv
<1>10. CASE Background(d)
  <2>1. ASSUME NEW c \in Code, NEW n \in 1..MaxChunks, NEW open \in BOOLEAN,
               ExportDone(d, c, n, open)
        PROVE  PromiseInv'
    BY <1>2, <2>1, ExportSingle, ExportOneWay DEF PromiseInv
  <2>2. ASSUME NEW c \in Code, ExportFails(d, c) PROVE PromiseInv'
    <3>1. /\ exporting' = [exporting EXCEPT ![d] = @ \ {c}] /\ taken' = taken
          /\ UNCHANGED <<verifying, dataVars, taken>>
      BY <2>2 DEF ExportFails
    <3>2. Mild(d) /\ Calm(conns, conns')
      BY <2>2, ExportFailsMild
    <3> QED
      BY <1>2, <1>3, <3>1, <3>2, MildOneWay DEF PromiseInv
  <2>3. ASSUME NEW r \in verifying[d], VerifyDone(d, r) PROVE PromiseInv'
    <3>1. exporting' = exporting /\ taken' = taken
      BY <2>3 DEF VerifyDone
    <3> QED
      BY <1>2, <1>3, <2>3, <3>1, VerifyOneWay DEF PromiseInv
  <2>4. ASSUME NEW w \in writing[d], WriteDone(d, w) PROVE PromiseInv'
    <3>1. exporting' = exporting /\ taken' = taken
      BY <2>4 DEF WriteDone
    <3> QED
      BY <1>2, <1>3, <2>4, <3>1, WriteOneWay DEF PromiseInv
  <2> QED
    BY <1>10, <2>1, <2>2, <2>3, <2>4 DEF Background
<1> QED
  BY <1>4, <1>5, <1>6, <1>7, <1>8, <1>9, <1>10 DEF Receive

LEMMA StartPromise ==
  ASSUME QuotaInv, PromiseInv, NEW d \in Device,
         StartSend(d) \/ \E c \in Code : StartReceive(d, c)
  PROVE  PromiseInv'
<1>1. ASSUME NEW t \in {"create", "join"}, NEW c \in Nat, NEW code \in 0..issued,
             Connect(d, Msg(t, c), code),
             t = "create" => d \in Sender, t = "join" => d \in Receiver
      PROVE  PromiseInv'
  <2>1. PICK n : n = Len(conns) + 1
    OBVIOUS
  <2>2. Opens(d, Msg(t, c), code, n)
    BY <1>1, <2>1, ConnectFacts
  <2>3. /\ UNCHANGED relayVars /\ UNCHANGED <<exporting, taken>>
        /\ UNCHANGED <<verifying, dataVars, taken>>
    BY <1>1 DEF Connect
  <2>4. Sides'
    BY <1>1, <2>2, <2>3, ConnectSides DEF PromiseInv
  <2>5. OneSnapshot'
    BY <2>2, <2>3, ConnectSingle DEF PromiseInv
  <2>6. OneWay'
    BY <1>1, <2>2, <2>3, ConnectOneWay DEF PromiseInv
  <2> QED
    BY <2>4, <2>5, <2>6 DEF PromiseInv
<1>2. CASE StartSend(d)
  <2>1. hook[d].code \in 0..issued
    BY HookFields
  <2> QED
    BY <1>1, <1>2, <2>1 DEF StartSend
<1>3. ASSUME NEW c \in Code, StartReceive(d, c) PROVE PromiseInv'
  <2>1. c \in Nat /\ c \in 0..issued /\ d \in Receiver /\ Connect(d, Msg("join", c), c)
    BY <1>3 DEF StartReceive, QuotaInv, Types, WorkTypes, RelayTypes
  <2> QED
    BY <1>1, <2>1
<1> QED
  BY <1>2, <1>3

LEMMA HandlePromise ==
  ASSUME QuotaInv, PromiseInv, NEW k \in DOMAIN conns, Handle(k)
  PROVE  PromiseInv'
<1>1. PICK msg : msg = Head(conns[k].up)
  OBVIOUS
<1>2. /\ conns[k].up # <<>> /\ UNCHANGED <<hook, shown, exporting, verifying, dataVars, taken>>
      /\ CASE msg.type = "create" -> HandleCreate(k, Popped(k))
           [] msg.type = "join"   -> HandleJoin(k, msg.code, Popped(k))
           [] OTHER               -> Forward(k, msg, Popped(k))
  BY <1>1 DEF Handle, Popped
<1>3. UNCHANGED <<hook, verifying, dataVars, taken>> /\ UNCHANGED <<exporting, taken>>
      /\ exporting' = exporting /\ taken' = taken
  BY <1>2
<1>4. conns \in Seq(Conn) /\ exporting \in [Device -> SUBSET (1..issued)]
  BY DEF QuotaInv, Types, WorkTypes
<1>5. msg \in Frame
  BY <1>1, <1>2, <1>4, PoppedFacts
<1>6. ASSUME Calm(conns, conns'), UNCHANGED relayVars PROVE PromiseInv'
  <2>1. CalmBut(conns, conns') /\ conns[k].by \in Device
    BY <1>4, <1>6, CalmIsCalmBut, ConnFields
  <2>2. Sides'
    BY <1>6, <2>1, SidesKept DEF PromiseInv, relayVars
  <2>3. OneSnapshot'
    BY <1>3, <1>4, <1>6, <2>1, HookSingle DEF PromiseInv
  <2> QED
    BY <1>3, <1>6, <2>2, <2>3, CalmOneWay DEF PromiseInv
<1>7. CASE msg.type = "create"
  <2>1. HandleCreate(k, Popped(k))
    BY <1>2, <1>7
  <2>2. Sides' /\ OneSnapshot'
    BY <1>1, <1>2, <1>3, <1>7, <2>1, CreateSides, CreateSingle DEF PromiseInv
  <2>3. \A s \in Snapshot : Kept(conns, conns', Begins(s))
    <3>1. \A s \in Snapshot : /\ Begins(s) \in SUBSET (Frame \ {Msg("created", issued + 1)})
                              /\ Msg("error", 0) \notin Begins(s)
      BY DEF Begins, Msg
    <3> QED
      BY <1>2, <2>1, <3>1, CreateFacts
  <2> QED
    BY <1>3, <2>2, <2>3, KeptOneWay DEF PromiseInv
<1>8. CASE msg.type = "join"
  <2>1. HandleJoin(k, msg.code, Popped(k)) /\ msg.code \in Nat
    BY <1>2, <1>5, <1>8 DEF Frame
  <2>2. ASSUME NEW m \in DOMAIN conns, Admits(k, msg.code, m) PROVE PromiseInv'
    <3>1. Sides' /\ OneSnapshot'
      BY <1>1, <1>2, <1>3, <1>8, <2>1, <2>2, AdmitSides, AdmitSingle DEF PromiseInv
    <3>2. \A s \in Snapshot : Kept(conns, conns', Begins(s))
      <4>1. \A s \in Snapshot : /\ Begins(s) \in SUBSET Telling
                                /\ Msg("peer_joined", msg.code) \notin Begins(s)
        BY DEF Begins, Telling, Msg
      <4> QED
        BY <2>2, <4>1 DEF Admits
    <3> QED
      BY <1>3, <3>1, <3>2, KeptOneWay DEF PromiseInv
  <2> QED
    BY <1>2, <1>6, <2>1, <2>2, JoinFacts
<1>9. CASE msg.type \notin {"create", "join"}
  <2>1. Forward(k, msg, Popped(k))
    BY <1>2, <1>9
  <2>2. /\ UNCHANGED relayVars
        /\ Calm(conns, conns') \/ \E r \in DOMAIN conns \cup {0} : Passes(k, msg, r)
    BY <1>1, <1>2, <1>9, <2>1, ForwardFacts
  <2>3. ASSUME NEW r \in DOMAIN conns \cup {0}, Passes(k, msg, r) PROVE PromiseInv'
    <3>1. CalmBut(conns, conns') /\ conns[k].by \in Device
      <4>1. msg \notin Asks /\ Asks \subseteq Telling
        BY <1>5, <2>3, BeginNotAsks DEF Passes, Asks
      <4> QED
        BY <1>4, <2>3, <4>1, ConnFields DEF Passes, CalmBut
    <3>2. Sides'
      BY <2>2, <3>1, SidesKept DEF PromiseInv, relayVars
    <3>3. OneSnapshot'
      BY <1>3, <1>4, <2>2, <3>1, HookSingle DEF PromiseInv
    <3>4. OneWay'
      BY <1>1, <1>2, <1>3, <1>5, <2>3, PassOneWay DEF PromiseInv
    <3> QED
      BY <3>2, <3>3, <3>4 DEF PromiseInv
  <2> QED
    BY <1>6, <2>2, <2>3
<1> QED
  BY <1>7, <1>8, <1>9

LEMMA ClosePromise ==
  ASSUME QuotaInv, PromiseInv, (\E k \in DOMAIN conns : Close(k)) \/ (\E c \in Code : Expire(c))
  PROVE  PromiseInv'
<1>1. /\ Calm(conns, conns') /\ issued' = issued
      /\ UNCHANGED <<hook, shown, exporting, verifying, dataVars, taken>>
      /\ (\E c \in DOMAIN transfers : Removes(c)) \/ UNCHANGED <<transfers, ipCounts>>
  BY CloseFacts
<1>2. CalmBut(conns, conns') /\ (UNCHANGED transfers \/ \E c : Removes(c))
  BY <1>1, CalmIsCalmBut
<1>3. Sides'
  BY <1>2, SidesKept DEF PromiseInv
<1>4. OneSnapshot'
  <2>1. ASSUME NEW c \in Nat PROVE Single(c)'
    <3>1. Single(c) /\ Kept(conns, conns', Tells(c)) /\ (Took(c)' => Took(c))
      BY <1>1, <1>2, AsksSets, TookSame DEF OneSnapshot, PromiseInv, CalmBut
    <3>2. Joined(c) => Joined(c)'
      BY <1>1, <1>2, JoinedKept
    <3> QED
      BY <1>1, <3>1, <3>2, SingleKept
  <2> QED
    BY <2>1 DEF OneSnapshot
<1>5. OneWay'
  BY <1>1, CalmOneWay DEF PromiseInv
<1> QED
  BY <1>3, <1>4, <1>5 DEF PromiseInv

LEMMA PromiseNext == QuotaInv /\ PromiseInv /\ [Next]_vars => PromiseInv'
<1> SUFFICES ASSUME QuotaInv, PromiseInv, [Next]_vars PROVE PromiseInv'
  OBVIOUS
<1>1. ASSUME NEW d \in Device, Receive(d) \/ Background(d) PROVE PromiseInv'
  BY <1>1, HookPromise
<1>2. ASSUME NEW d \in Device, User(d) PROVE PromiseInv'
  BY <1>2, HookPromise, StartPromise DEF User
<1>3. ASSUME NEW k \in DOMAIN conns, Handle(k) PROVE PromiseInv'
  BY <1>3, HandlePromise
<1>4. CASE (\E k \in DOMAIN conns : Close(k)) \/ (\E c \in Code : Expire(c))
  BY <1>4, ClosePromise
<1>5. ASSUME NEW d \in Device, Mild(d), Calm(conns, conns'), UNCHANGED relayVars,
             UNCHANGED <<exporting, verifying, dataVars, taken>>
      PROVE  PromiseInv'
  <2>1. /\ transfers' = transfers /\ UNCHANGED <<verifying, dataVars, taken>>
        /\ exporting' = exporting /\ taken' = taken /\ issued' = issued
    BY <1>5 DEF relayVars
  <2>2. CalmBut(conns, conns') /\ exporting \in [Device -> SUBSET (1..issued)]
    BY <1>5, CalmIsCalmBut DEF QuotaInv, Types, WorkTypes
  <2>3. Sides'
    BY <2>1, <2>2, SidesKept DEF PromiseInv
  <2>4. OneSnapshot'
    BY <1>5, <2>1, <2>2, HookSingle DEF PromiseInv
  <2>5. OneWay'
    BY <1>5, <2>1, MildOneWay DEF PromiseInv
  <2> QED
    BY <2>3, <2>4, <2>5 DEF PromiseInv
<1>6. ASSUME NEW k \in DOMAIN conns, OnClose(k) PROVE PromiseInv'
  <2>1. /\ conns[k].by \in Device /\ Mild(conns[k].by) /\ Calm(conns, conns')
        /\ UNCHANGED relayVars /\ UNCHANGED <<exporting, verifying, dataVars, taken>>
    BY <1>6, OnCloseSteps DEF relayVars
  <2> QED
    BY <1>5, <2>1
<1>7. CASE UNCHANGED vars
  <2>1. Sides'
    BY <1>7 DEF vars, relayVars, PromiseInv, Sides, In, Creates, Joins
  <2>2. OneSnapshot'
    <3>1. \A c \in Nat : Took(c)' = Took(c) /\ Joined(c)' = Joined(c)
      BY <1>7, TookSame DEF vars, relayVars, Joined
    <3> QED
      BY <1>7, <3>1 DEF vars, PromiseInv, OneSnapshot, Single, Told, In, OnceIn, Tells
  <2>3. OneWay'
    <3>1. UNCHANGED <<hook, verifying, dataVars, taken>> /\ conns \in Seq(Conn) /\ conns' = conns
      BY <1>7 DEF vars, QuotaInv, Types
    <3>2. Calm(conns, conns')
      BY <3>1, CalmSame
    <3> QED
      BY <3>1, <3>2, CalmOneWay DEF PromiseInv
  <2> QED
    BY <2>1, <2>2, <2>3 DEF PromiseInv
<1> QED
  BY <1>1, <1>2, <1>3, <1>4, <1>6, <1>7 DEF Next

LEMMA PromiseInit == Init => PromiseInv
<1> SUFFICES ASSUME Init PROVE PromiseInv
  OBVIOUS
<1>1. DOMAIN <<>> = {}
  OBVIOUS
<1>2. /\ DOMAIN conns = {} /\ DOMAIN transfers = {}
      /\ \A d \in Device : /\ exporting[d] = {} /\ verifying[d] = {} /\ writing[d] = {}
                           /\ DOMAIN written[d] = {} /\ taken[d] = {}
                           /\ hook[d].recv = NoRecv /\ hook[d].status = "idle"
  BY <1>1, IdleFacts DEF Init
<1>3. Sides
  BY <1>2 DEF Sides
<1>4. OneSnapshot
  BY <1>2 DEF OneSnapshot, Single, Took
<1>5. \A d \in Device, s \in Snapshot :
        ~Collects(d, s) /\ ~Checks(d, s) /\ ~Reviews(d, s) /\ ~Puts(d, s) /\ ~Wrote(d, s)
  BY <1>2 DEF Collects, Checks, Reviews, Puts, Wrote
<1>6. \A d \in Device, s \in Snapshot : Owned(d, s) /\ InTurn(d, s)
  BY <1>5 DEF Owned, InTurn, Has, Past
<1>7. (\A d \in Device : Checked(d)) /\ \A s \in Snapshot : Announced(s)
  BY <1>2 DEF Checked, Announced
<1> QED
  BY <1>3, <1>4, <1>6, <1>7 DEF PromiseInv, OneWay, Orderly

-----------------------------------------------------------------------------
(***************************************************************************)
(* The promise: what happens to the devices' data is what TransferPromise  *)
(* allows.                                                                 *)
(***************************************************************************)
LEMMA Takes ==
  ASSUME QuotaInv, PromiseInv, NEW d \in Device, NEW c \in Code, NEW n \in 1..MaxChunks,
         NEW open \in BOOLEAN, ExportDone(d, c, n, open)
  PROVE  written' = written /\ \E s \in Payload : Promise!Take(d, s)
<1>1. PICK s : s = Export(d, c, n)
  OBVIOUS
<1>2. s \in Snapshot /\ ~Took(c)
  BY <1>1, ExportMild, ExportSingle DEF PromiseInv
<1>3. s.code = c /\ taken' = [taken EXCEPT ![d] = @ \cup {Cut(s)}] /\ written' = written
  BY <1>1 DEF Export, ExportDone, dataVars
<1>4. \A e \in Device : Cut(s) \notin taken[e]
  BY <1>2, <1>3 DEF Took
<1>5. Cut(s) \in Payload
  BY <1>2, CutFacts
<1> QED
  BY <1>3, <1>4, <1>5 DEF Promise!Take

\* The data of d is replaced by what was taken, whole, of some device.
TakesOver(d) ==
  \E e \in Device, s \in Payload :
    /\ Apart => d # e
    /\ s \in taken[e] /\ \A i \in DOMAIN written[d] : written[d][i] # s
    /\ written' = [written EXCEPT ![d] = Append(@, s)]

LEMMA Replaces ==
  ASSUME QuotaInv, PromiseInv, NEW d \in Device, NEW w \in writing[d], WriteDone(d, w)
  PROVE  taken' = taken /\ (written' = written \/ TakesOver(d))
<1>1. w.payload \in Payload /\ taken' = taken
  BY DEF QuotaInv, Types, WorkTypes, Write, WriteDone
<1>2. PICK s \in Snapshot : w.payload = Cut(s)
  BY <1>1, PayloadIs
<1>3. Puts(d, s) /\ Has(d, s)
  BY <1>2 DEF Puts, Past, Has
<1>4. /\ s.from \in Device /\ (Apart => d # s.from)
      /\ Cut(s) \in taken[s.from] /\ ~Wrote(d, s)
  BY <1>3 DEF PromiseInv, OneWay, Owned, Orderly, InTurn, Snapshot
<1>5. \A i \in DOMAIN written[d] : written[d][i] # Cut(s)
  BY <1>4 DEF Wrote
<1>6. written' = [written EXCEPT ![d] = Append(@, Cut(s))] \/ written' = written
  BY <1>2 DEF WriteDone, RolledBack
<1>7. ASSUME written' = [written EXCEPT ![d] = Append(@, Cut(s))] PROVE TakesOver(d)
  BY <1>1, <1>2, <1>4, <1>5, <1>7 DEF TakesOver
<1> QED
  BY <1>1, <1>6, <1>7

LEMMA PromiseStep ==
  ASSUME QuotaInv, PromiseInv, [Next]_vars
  PROVE  \/ UNCHANGED <<taken, written>>
         \/ written' = written /\ \E d \in Device, s \in Payload : Promise!Take(d, s)
         \/ taken' = taken /\ \E d \in Device : TakesOver(d)
<1>1. ASSUME NEW d \in Device, Receive(d) PROVE UNCHANGED <<taken, written>>
  BY <1>1 DEF Receive, OnCreated, OnPeerJoined, OnJoined, OnAck, OnBegin, OnChunk, OnCancelled,
              OnError, dataVars
<1>2. ASSUME NEW d \in Device, Background(d)
      PROVE  \/ UNCHANGED <<taken, written>>
             \/ written' = written /\ \E s \in Payload : Promise!Take(d, s)
             \/ taken' = taken /\ TakesOver(d)
  <2>1. ASSUME NEW c \in Code, ExportFails(d, c) PROVE UNCHANGED <<taken, written>>
    BY <2>1 DEF ExportFails, dataVars
  <2>2. ASSUME NEW r \in verifying[d], VerifyDone(d, r) PROVE UNCHANGED <<taken, written>>
    BY <2>2 DEF VerifyDone, dataVars
  <2> QED
    BY <1>2, <2>1, <2>2, Takes, Replaces DEF Background
<1>3. ASSUME NEW d \in Device, User(d) PROVE UNCHANGED <<taken, written>>
  BY <1>3 DEF User, StartSend, StartReceive, Connect, Reset, Leave, Apply, dataVars
<1>4. ASSUME NEW k \in DOMAIN conns, Handle(k) \/ Close(k) \/ OnClose(k)
      PROVE  UNCHANGED <<taken, written>>
  BY <1>4 DEF Handle, Close, OnClose, dataVars
<1>5. ASSUME NEW c \in Code, Expire(c) PROVE UNCHANGED <<taken, written>>
  BY <1>5 DEF Expire, dataVars
<1>6. CASE UNCHANGED vars
  BY <1>6 DEF vars, dataVars
<1> QED
  BY <1>1, <1>2, <1>3, <1>4, <1>5, <1>6 DEF Next

\* A code is joined by one device, its sender takes one snapshot for it and
\* announces it once; it is collected by one device, checked there, reviewed and
\* written, each once (useTransfer.ts:100-280, relay.ts:43-120).
THEOREM TransferOneWay == Spec => []PromiseInv
<1>1. Init => QuotaInv /\ PromiseInv
  BY QuotaInit, PromiseInit
<1>2. QuotaInv /\ PromiseInv /\ [Next]_vars => QuotaInv' /\ PromiseInv'
  BY QuotaNext, PromiseNext
<1> QED
  BY <1>1, <1>2, PTL DEF Spec

\* Whoever sends and receives: a device's data is replaced by a whole snapshot,
\* taken when two devices were connected, and by none twice.
WrittenWhole ==
  [][\/ written' = written
     \/ \E d, e \in Device, s \in Payload :
          /\ s \in taken[e] /\ \A i \in DOMAIN written[d] : written[d][i] # s
          /\ written' = [written EXCEPT ![d] = Append(@, s)]]_vars
THEOREM TransferWritesWhole == Spec => WrittenWhole
<1>1. QuotaInv /\ PromiseInv /\ [Next]_vars =>
        [\/ written' = written
         \/ \E d, e \in Device, s \in Payload :
              /\ s \in taken[e] /\ \A i \in DOMAIN written[d] : written[d][i] # s
              /\ written' = [written EXCEPT ![d] = Append(@, s)]]_vars
  BY PromiseStep DEF TakesOver
<1> QED
  BY <1>1, TransferInvariant, TransferOneWay, PTL DEF Spec, WrittenWhole

\* And when those who send are not those who receive, by that of another device:
\* the transfer implements TransferPromise.
THEOREM TransferKeepsPromise == ASSUME Sender \cap Receiver = {} PROVE Spec => KeepsPromise
<1>1. Init => Promise!Init
  BY DEF Init, Promise!Init
<1>2. QuotaInv /\ PromiseInv /\ [Next]_vars => [Promise!Next]_<<taken, written>>
  <2> SUFFICES ASSUME QuotaInv, PromiseInv, [Next]_vars
               PROVE  Promise!Next \/ UNCHANGED <<taken, written>>
    OBVIOUS
  <2>1. ASSUME NEW d \in Device, TakesOver(d), taken' = taken
        PROVE  \E e \in Device, s \in Payload : Promise!Replace(d, e, s)
    BY <2>1 DEF TakesOver, Apart, Promise!Replace
  <2> QED
    BY <2>1, PromiseStep DEF Promise!Next
<1> QED
  BY <1>1, <1>2, TransferInvariant, TransferOneWay, PTL DEF Spec, KeepsPromise, Promise!Spec

-----------------------------------------------------------------------------
(***************************************************************************)
(* What travels under a code, when nobody starts over while an export or a *)
(* check goes on.                                                          *)
(***************************************************************************)
IsTaken(s) == s \in Snapshot /\ Cut(s) \in taken[s.from]
OneTaken == \A s, t \in Snapshot : IsTaken(s) /\ IsTaken(t) /\ s.code = t.code => s = t

\* Of a snapshot of the socket's code: pieces after those that were acknowledged.
Right(k, s) == IsTaken(s) /\ s.code = conns[k].code
InPlace(chunk) == chunk[2] > 1 => <<chunk[1], chunk[2] - 1>> \in acked
Known(k, seq) == \E s \in Snapshot : Right(k, s) /\ <<s, seq>> \in acked

UpOK(k, m) ==
  /\ m.type \in {"create", "join", "begin", "chunk", "ack"}
  /\ m.type = "begin" => conns[k].role = "sender" /\ Right(k, m.sha)
  /\ m.type = "chunk" => conns[k].role = "sender" /\ Right(k, m.chunk[1]) /\ InPlace(m.chunk)
  /\ m.type = "ack" => conns[k].role = "receiver" /\ Known(k, m.seq)
DownOK(k, m) ==
  /\ m.type = "begin" => conns[k].role = "receiver" /\ Right(k, m.sha)
  /\ m.type = "chunk" => conns[k].role = "receiver" /\ Right(k, m.chunk[1]) /\ InPlace(m.chunk)
  /\ m.type = "ack" => conns[k].role = "sender" /\ Known(k, m.seq)
  /\ m.type = "peer_joined" => conns[k].role = "sender" /\ m.code = conns[k].code
  /\ m.type = "created" => conns[k].role = "sender"
QueuesOK == \A k \in DOMAIN conns, m \in Frame :
  /\ In(conns[k].up, {m}) => UpOK(k, m)
  /\ In(conns[k].down, {m}) => DownOK(k, m)

\* A socket has its code and its role from its first message on, and for good.
Starts == {m \in Frame : m.type \in {"create", "join"}}
FreshOK == \A k \in DOMAIN conns :
  /\ FirstIn(conns[k].up, Starts)
  /\ In(conns[k].up, Starts) => /\ conns[k].role = "none" /\ conns[k].code = 0
                                /\ conns[k].down = <<>>
CodesOK == \A c \in DOMAIN transfers :
  LET t == transfers[c]
  IN  /\ conns[t.sender].role = "sender" /\ conns[t.sender].code = c
      /\ t.receiver # 0 => conns[t.receiver].role = "receiver" /\ conns[t.receiver].code = c
AckedOK == \A s \in Snapshot, n \in Nat : <<s, n>> \in acked => \A j \in 1..n : <<s, j>> \in acked

\* A hook sends or receives; what it sends is of its socket's code, and what it
\* receives of the code that was entered.
As(d, role) == hook[d].ws # 0 => conns[hook[d].ws].role = role
OfCode(d, c) == hook[d].ws # 0 => conns[hook[d].ws].code = c
Sends(d) ==
  /\ exporting[d] # {} => As(d, "sender") /\ hook[d].chunks = <<>>
  /\ \A c \in exporting[d] : OfCode(d, c) /\ \A e \in exporting[d] : e = c
  /\ hook[d].chunks # <<>> =>
       As(d, "sender") /\ \E s \in Snapshot : hook[d].chunks = Cut(s) /\ IsTaken(s) /\ OfCode(d, s.code)
Receiving(d) == hook[d].recv # NoRecv \/ verifying[d] # {} \/ hook[d].payload # <<>>
Enters(d) ==
  hook[d].ws # 0 =>
    /\ conns[hook[d].ws].role = "receiver" => conns[hook[d].ws].code = hook[d].code
    /\ \A m \in Joins : In(conns[hook[d].ws].up, {m}) => m.code = hook[d].code
Partly(r) == /\ DOMAIN r.chunks = 1..r.sha.size
             /\ \A i \in DOMAIN r.chunks : r.chunks[i] \in {NoChunk, <<r.sha, i>>}
Came(d, s) == IsTaken(s) /\ s.code = hook[d].code
Receives(d) ==
  /\ Receiving(d) => exporting[d] = {} /\ hook[d].chunks = <<>> /\ As(d, "receiver")
  /\ hook[d].recv # NoRecv => Came(d, hook[d].recv.sha) /\ Partly(hook[d].recv)
  /\ \A r \in verifying[d] : Came(d, r.sha) /\ r.chunks = Cut(r.sha)
  /\ hook[d].payload # <<>> => \E s \in Snapshot : hook[d].payload = Cut(s) /\ Came(d, s)
Shows(d) ==
  /\ hook[d].status \in {"review", "applying", "done"} =>
       hook[d].payload # <<>> /\ verifying[d] = {} /\ hook[d].ws = 0
  /\ (\E w \in writing[d] : w.told) => hook[d].status = "applying"
  /\ \A w, v \in writing[d] : w.told /\ v.told => w = v
  /\ hook[d].status = "sent" =>
       /\ hook[d].ws = 0 /\ hook[d].chunks # <<>>
       /\ \A i \in DOMAIN hook[d].chunks : hook[d].chunks[i] \in acked
  /\ hook[d].status = "idle" => /\ exporting[d] = {} /\ verifying[d] = {}
                                /\ hook[d].chunks = <<>> /\ hook[d].payload = <<>>
HookOK(d) == Sends(d) /\ Enters(d) /\ Receives(d) /\ Shows(d)

PacedInv == /\ OneTaken /\ QueuesOK /\ FreshOK /\ CodesOK /\ AckedOK
            /\ \A d \in Device : HookOK(d)

\* When a closing socket says so at once, the one a hook has is all it has open.
NoneBehind == \A k \in DOMAIN conns :
  /\ conns[k].end # "closing"
  /\ conns[k].end = "open" => /\ hook[conns[k].by].ws = k
                              /\ hook[conns[k].by].status \in InFlight

-----------------------------------------------------------------------------
\* One hook moves: messages are read or gone, and ups is posted on its socket.
Moved(cs, ds, k, ups) ==
  /\ ds \in Seq(Conn) /\ Len(ds) = Len(cs) /\ DOMAIN ds = DOMAIN cs /\ Roles(cs, ds)
  /\ \A i \in DOMAIN cs : ds[i].by = cs[i].by
  /\ \A M : ~In(ups, M) => Kept(cs, ds, M)
  /\ \A M : \A i \in DOMAIN cs : /\ Less(cs[i].down, ds[i].down, M)
                                 /\ In(ds[i].up, M) => In(cs[i].up, M) \/ (i = k /\ In(ups, M))
AllKept(cs, ds) == Roles(cs, ds) /\ \A M : Kept(cs, ds, M)

LEMMA NoneIn == ASSUME NEW M PROVE ~In(<<>>, M)
<1>1. DOMAIN <<>> = {}
  OBVIOUS
<1> QED
  BY <1>1 DEF In

LEMMA AllKeptMoved ==
  ASSUME NEW cs, NEW ds, NEW k, AllKept(cs, ds) PROVE Moved(cs, ds, k, <<>>)
<1>1. Roles(cs, ds) /\ \A M : Kept(cs, ds, M)
  BY DEF AllKept
<1>2. Kept(cs, ds, {})
  BY <1>1
<1>3. \A M : \A i \in DOMAIN cs : /\ Less(cs[i].down, ds[i].down, M)
                                  /\ In(ds[i].up, M) => In(cs[i].up, M)
  BY <1>1 DEF Kept, Less
<1> QED
  BY <1>1, <1>2, <1>3 DEF Moved, Kept

LEMMA AllKeptTwice ==
  ASSUME NEW cs, NEW ds, NEW es, AllKept(cs, ds), AllKept(ds, es) PROVE AllKept(cs, es)
<1>1. \A M : Kept(cs, es, M)
  BY KeptTwice DEF AllKept
<1>2. Kept(cs, ds, {})
  BY DEF AllKept
<1>3. Roles(cs, es)
  BY <1>2 DEF AllKept, Roles, Kept
<1> QED
  BY <1>1, <1>3 DEF AllKept

LEMMA MovedAfter ==
  ASSUME NEW cs, NEW ds, NEW es, NEW k, NEW ups, AllKept(cs, ds), Moved(ds, es, k, ups)
  PROVE  Moved(cs, es, k, ups)
<1>1. Roles(cs, ds) /\ \A M : Kept(cs, ds, M)
  BY DEF AllKept
<1>2. Kept(cs, ds, {})
  BY <1>1
<1>3. DOMAIN ds = DOMAIN cs /\ Len(ds) = Len(cs) /\ \A i \in DOMAIN cs : ds[i].by = cs[i].by
  BY <1>2 DEF Kept
<1>4. ASSUME NEW M, ~In(ups, M) PROVE Kept(cs, es, M)
  BY <1>1, <1>4, KeptTwice DEF Moved
<1>5. ASSUME NEW M, NEW i \in DOMAIN cs
      PROVE  /\ Less(cs[i].down, es[i].down, M)
             /\ In(es[i].up, M) => In(cs[i].up, M) \/ (i = k /\ In(ups, M))
  <2>1. Less(cs[i].down, ds[i].down, M) /\ Less(cs[i].up, ds[i].up, M)
    BY <1>1, <1>5 DEF Kept
  <2>2. /\ Less(ds[i].down, es[i].down, M)
        /\ In(es[i].up, M) => In(ds[i].up, M) \/ (i = k /\ In(ups, M))
    BY <1>3, <1>5 DEF Moved
  <2>3. Less(cs[i].down, es[i].down, M)
    BY <2>1, <2>2, LessTwice
  <2> QED
    BY <2>1, <2>2, <2>3 DEF Less
<1>6. Roles(cs, es)
  BY <1>1, <1>3 DEF Roles, Moved
<1> QED
  BY <1>3, <1>4, <1>5, <1>6 DEF Moved

LEMMA HungMoved ==
  ASSUME NEW cs \in Seq(Conn), NEW k \in 0..Len(cs) PROVE AllKept(cs, HungUp(cs, k))
BY HungUpKept DEF AllKept

LEMMA SameMoved == ASSUME NEW cs \in Seq(Conn) PROVE AllKept(cs, cs)
BY KeptSame DEF AllKept

LEMMA PostMoved ==
  ASSUME NEW cs \in Seq(Conn), NEW k \in 0..Len(cs), NEW msgs \in Seq(Frame)
  PROVE  Moved(cs, Posted(cs, k, msgs), k, msgs)
<1> DEFINE ds == Posted(cs, k, msgs)
<1>1. /\ Roles(cs, ds) /\ Kept(cs, ds, {})
      /\ \A M : ~In(msgs, M) => Kept(cs, ds, M)
      /\ \A i \in DOMAIN cs : (i # k => ds[i] = cs[i]) /\ ds[i].down = cs[i].down
  BY PostedFacts
<1>2. \A M : \A i \in DOMAIN cs : Less(cs[i].down, ds[i].down, M)
  BY <1>1, LessSame
<1>3. ASSUME NEW M, NEW i \in DOMAIN cs, In(ds[i].up, M)
      PROVE  In(cs[i].up, M) \/ (i = k /\ In(msgs, M))
  <2>1. CASE In(msgs, M)
    BY <1>1, <1>3, <2>1
  <2>2. CASE ~In(msgs, M)
    BY <1>1, <1>3, <2>2 DEF Kept, Less
  <2> QED
    BY <2>1, <2>2
<1> HIDE DEF ds
<1> QED
  BY <1>1, <1>2, <1>3 DEF Moved, Kept, ds

LEMMA GotMoved ==
  ASSUME QuotaInv, NEW d \in Device, NEW type, Got(d, type)
  PROVE  /\ AllKept(conns, Read(d)) /\ Read(d) \in Seq(Conn) /\ hook[d].ws \in 0..Len(Read(d))
         /\ hook[d].ws \in DOMAIN conns /\ hook[d].ws # 0
         /\ Message(d) \in Frame /\ Message(d).type = type
         /\ \E i \in DOMAIN conns[hook[d].ws].down : conns[hook[d].ws].down[i] = Message(d)
<1> DEFINE k == hook[d].ws
<1>1. /\ k \in DOMAIN conns /\ k # 0 /\ conns[k].down # <<>> /\ Read(d) = Dequeued(k)
      /\ Message(d) \in Frame /\ Message(d).type = type
      /\ Read(d) \in Seq(Conn) /\ k \in 0..Len(Read(d))
  BY GotFacts
<1>2. conns \in Seq(Conn)
  BY DEF QuotaInv, Types
<1>3. AllKept(conns, Read(d))
  BY <1>1, <1>2, DequeuedFacts DEF AllKept
<1>4. conns[k].down \in Seq(Frame)
  BY <1>1, <1>2, ConnFields
<1>5. Message(d) = conns[k].down[1] /\ 1 \in DOMAIN conns[k].down
  BY <1>1, <1>4, TailFacts DEF Message
<1> QED
  BY <1>1, <1>3, <1>5

\* An empty queue stays empty when nothing comes into it.
LEMMA StaysEmpty ==
  ASSUME NEW q, NEW p \in Seq(Frame), q = <<>>, \A M : In(p, M) => In(q, M)
  PROVE  p = <<>>
<1>1. CASE p # <<>>
  <2>1. p[1] \in {p[1]} /\ 1 \in DOMAIN p
    BY <1>1, TailFacts
  <2>2. In(p, {p[1]})
    BY <2>1 DEF In
  <2> QED
    BY <2>2, NoneIn
<1> QED
  BY <1>1

-----------------------------------------------------------------------------
(***************************************************************************)
(* What was right of a message stays right.                                *)
(***************************************************************************)
\* Snapshots and acknowledgments only come; a socket keeps its code and role.
Gains == /\ \A s \in Snapshot : IsTaken(s) => IsTaken(s)'
         /\ acked \subseteq acked'
Keeps(k) == conns[k].role # "none" =>
              conns'[k].role = conns[k].role /\ conns'[k].code = conns[k].code

LEMMA OKLasts ==
  ASSUME Gains, NEW k, Keeps(k), NEW m \in Frame
  PROVE  (UpOK(k, m) => UpOK(k, m)') /\ (DownOK(k, m) => DownOK(k, m)')
<1>1. ASSUME NEW s, conns[k].role # "none", Right(k, s) PROVE Right(k, s)'
  BY <1>1 DEF Right, IsTaken, Gains, Keeps
<1>2. ASSUME NEW chunk, InPlace(chunk) PROVE InPlace(chunk)'
  BY <1>2 DEF InPlace, Gains
<1>3. ASSUME NEW seq, conns[k].role # "none", Known(k, seq) PROVE Known(k, seq)'
  BY <1>1, <1>3 DEF Known, Gains
<1>4. UpOK(k, m) => UpOK(k, m)'
  BY <1>1, <1>2, <1>3 DEF UpOK, Keeps
<1>5. DownOK(k, m) => DownOK(k, m)'
  BY <1>1, <1>2, <1>3 DEF DownOK, Keeps
<1> QED
  BY <1>4, <1>5

\* Every message was there before or is right.
LEMMA QueuesKept ==
  ASSUME QueuesOK, DOMAIN conns' = DOMAIN conns, Gains, \A k \in DOMAIN conns : Keeps(k),
         \A k \in DOMAIN conns, m \in Frame :
           /\ In(conns'[k].up, {m}) => In(conns[k].up, {m}) \/ UpOK(k, m)'
           /\ In(conns'[k].down, {m}) => In(conns[k].down, {m}) \/ DownOK(k, m)'
  PROVE  QueuesOK'
<1>1. ASSUME NEW k \in DOMAIN conns, NEW m \in Frame, In(conns'[k].up, {m}) PROVE UpOK(k, m)'
  <2>1. CASE In(conns[k].up, {m})
    <3>1. UpOK(k, m)
      BY <2>1 DEF QueuesOK
    <3> QED
      BY <3>1, OKLasts
  <2> QED
    BY <1>1, <2>1
<1>2. ASSUME NEW k \in DOMAIN conns, NEW m \in Frame, In(conns'[k].down, {m}) PROVE DownOK(k, m)'
  <2>1. CASE In(conns[k].down, {m})
    <3>1. DownOK(k, m)
      BY <2>1 DEF QueuesOK
    <3> QED
      BY <3>1, OKLasts
  <2> QED
    BY <1>2, <2>1
<1> QED
  BY <1>1, <1>2 DEF QueuesOK

LEMMA FreshKept ==
  ASSUME FreshOK, DOMAIN conns' = DOMAIN conns,
         \A k \in DOMAIN conns :
           /\ Less(conns[k].up, conns'[k].up, Starts)
           /\ In(conns[k].up, Starts) /\ In(conns'[k].up, Starts) =>
                /\ conns'[k].role = conns[k].role /\ conns'[k].code = conns[k].code
                /\ conns'[k].down = <<>>
  PROVE  FreshOK'
BY DEF FreshOK, Less

LEMMA MovedQueues ==
  ASSUME QuotaInv, QueuesOK, FreshOK, Gains, NEW k, NEW ups, Moved(conns, conns', k, ups),
         \A m \in Frame : In(ups, {m}) => UpOK(k, m)', ~In(ups, Starts)
  PROVE  QueuesOK' /\ FreshOK' /\ DOMAIN conns' = DOMAIN conns /\ Roles(conns, conns')
<1>1. /\ conns \in Seq(Conn) /\ conns' \in Seq(Conn) /\ DOMAIN conns' = DOMAIN conns
      /\ Roles(conns, conns')
  BY DEF QuotaInv, Types, Moved
<1>2. \A i \in DOMAIN conns : Keeps(i)
  BY <1>1 DEF Roles, Keeps
<1>3. ASSUME NEW i \in DOMAIN conns, NEW m \in Frame
      PROVE  /\ In(conns'[i].up, {m}) => In(conns[i].up, {m}) \/ UpOK(i, m)'
             /\ In(conns'[i].down, {m}) => In(conns[i].down, {m})
  <2>1. In(conns'[i].up, {m}) => In(conns[i].up, {m}) \/ (i = k /\ In(ups, {m}))
    BY <1>3 DEF Moved
  <2>2. Less(conns[i].down, conns'[i].down, {m})
    BY <1>3 DEF Moved
  <2>3. i = k /\ In(ups, {m}) => UpOK(i, m)'
    BY <1>3
  <2> QED
    BY <2>1, <2>2, <2>3 DEF Less
<1>4. QueuesOK'
  BY <1>1, <1>2, <1>3, QueuesKept
<1>5. ASSUME NEW i \in DOMAIN conns, conns[i].down = <<>> PROVE conns'[i].down = <<>>
  <2>1. \A M : In(conns'[i].down, M) => In(conns[i].down, M)
    BY <1>5 DEF Moved, Less
  <2>2. conns'[i].down \in Seq(Frame)
    BY <1>1, <1>5, ConnFields
  <2> QED
    BY <1>5, <2>1, <2>2, StaysEmpty
<1>6. Kept(conns, conns', Starts)
  BY DEF Moved
<1>7. FreshOK'
  BY <1>1, <1>5, <1>6, FreshKept DEF Kept, Roles, FreshOK
<1> QED
  BY <1>1, <1>4, <1>7

LEMMA CodesKept ==
  ASSUME QuotaInv, CodesOK, transfers' = transfers, Roles(conns, conns')
  PROVE  CodesOK'
<1>1. RelayPlaces /\ DOMAIN transfers \subseteq DOMAIN transfers
  BY DEF QuotaInv, Places
<1>2. \A c \in DOMAIN transfers : transfers[c].receiver # 0 => transfers[c].receiver \in DOMAIN conns
  BY <1>1 DEF RelayPlaces
<1> QED
  BY <1>1, <1>2 DEF CodesOK, RelayPlaces, Roles

-----------------------------------------------------------------------------
(***************************************************************************)
(* What was right of a hook stays right.                                   *)
(***************************************************************************)
LEMMA AsKept ==
  ASSUME QuotaInv, NEW d \in Device, hook'[d].ws \in {hook[d].ws, 0},
         hook[d].ws # 0 => Keeps(hook[d].ws)
  PROVE  /\ \A role \in {"sender", "receiver"} : As(d, role) => As(d, role)'
         /\ \A role \in {"sender", "receiver"} : \A c : As(d, role) /\ OfCode(d, c) => OfCode(d, c)'
<1>1. ASSUME NEW role \in {"sender", "receiver"}, As(d, role)
      PROVE  As(d, role)' /\ \A c : OfCode(d, c) => OfCode(d, c)'
  BY <1>1 DEF As, OfCode, Keeps
<1> QED
  BY <1>1

\* A hook that goes on with what it has.
GoesOn(d) ==
  /\ hook'[d].ws \in {hook[d].ws, 0} /\ hook'[d].code = hook[d].code
  /\ hook'[d].chunks = hook[d].chunks /\ hook'[d].recv = hook[d].recv
  /\ hook'[d].payload = hook[d].payload
  /\ exporting'[d] \subseteq exporting[d] /\ verifying'[d] \subseteq verifying[d]

LEMMA CameKept ==
  ASSUME Gains, NEW d, hook'[d].code = hook[d].code, NEW s, Came(d, s)
  PROVE  Came(d, s)'
BY DEF Came, Gains, IsTaken

LEMMA SendsKept ==
  ASSUME QuotaInv, NEW d \in Device, Sends(d), Gains, hook'[d].ws \in {hook[d].ws, 0},
         hook'[d].chunks = hook[d].chunks, exporting'[d] \subseteq exporting[d],
         hook[d].ws # 0 => Keeps(hook[d].ws)
  PROVE  Sends(d)'
<1>1. /\ \A role \in {"sender", "receiver"} : As(d, role) => As(d, role)'
      /\ \A role \in {"sender", "receiver"} : \A c : As(d, role) /\ OfCode(d, c) => OfCode(d, c)'
  BY AsKept
<1>2. exporting'[d] # {} => As(d, "sender")' /\ hook'[d].chunks = <<>>
  BY <1>1 DEF Sends
<1>3. \A c \in exporting'[d] : OfCode(d, c)' /\ \A e \in exporting'[d] : e = c
  BY <1>1 DEF Sends
<1>4. ASSUME hook'[d].chunks # <<>>
      PROVE  As(d, "sender")' /\ \E s \in Snapshot : /\ hook'[d].chunks = Cut(s)
                                                     /\ IsTaken(s)' /\ OfCode(d, s.code)'
  <2>1. PICK s \in Snapshot : hook[d].chunks = Cut(s) /\ IsTaken(s) /\ OfCode(d, s.code)
    BY <1>4 DEF Sends
  <2>2. As(d, "sender") /\ IsTaken(s)'
    BY <1>4, <2>1 DEF Sends, Gains
  <2> QED
    BY <1>1, <2>1, <2>2
<1> QED
  BY <1>2, <1>3, <1>4 DEF Sends

LEMMA ReceivesKept ==
  ASSUME QuotaInv, NEW d \in Device, Receives(d), Gains, GoesOn(d),
         hook[d].ws # 0 => Keeps(hook[d].ws)
  PROVE  Receives(d)'
<1>1. As(d, "receiver") => As(d, "receiver")'
  BY AsKept DEF GoesOn
<1>2. \A s : Came(d, s) => Came(d, s)'
  BY CameKept DEF GoesOn
<1>3. Receiving(d)' => Receiving(d)
  BY DEF Receiving, GoesOn
<1>4. Receiving(d)' => exporting'[d] = {} /\ hook'[d].chunks = <<>> /\ As(d, "receiver")'
  BY <1>1, <1>3 DEF Receives, GoesOn
<1>5. \A r \in verifying'[d] : Came(d, r.sha)' /\ r.chunks = Cut(r.sha)
  BY <1>2 DEF Receives, GoesOn
<1>6. hook'[d].payload # <<>> => \E s \in Snapshot : hook'[d].payload = Cut(s) /\ Came(d, s)'
  BY <1>2 DEF Receives, GoesOn
<1>7. hook'[d].recv # NoRecv => Came(d, hook[d].recv.sha)' /\ Partly(hook[d].recv)
  BY <1>2 DEF Receives, GoesOn
<1> QED
  BY <1>4, <1>5, <1>6, <1>7 DEF Receives, Came, GoesOn, IsTaken, Partly

LEMMA GoesOnKept ==
  ASSUME QuotaInv, NEW d \in Device, Sends(d), Receives(d), Gains, GoesOn(d),
         hook[d].ws # 0 => Keeps(hook[d].ws)
  PROVE  Sends(d)' /\ Receives(d)'
BY SendsKept, ReceivesKept DEF GoesOn

LEMMA EntersKept ==
  ASSUME QuotaInv, NEW d \in Device, Enters(d), Roles(conns, conns'),
         hook'[d].ws \in {hook[d].ws, 0}, hook'[d].code = hook[d].code,
         \A k \in DOMAIN conns, m \in Joins : In(conns'[k].up, {m}) => In(conns[k].up, {m})
  PROVE  Enters(d)'
<1>1. hook[d].ws # 0 => hook[d].ws \in DOMAIN conns
  <2>1. hook[d].ws \in 0..Len(conns) /\ conns \in Seq(Conn)
    BY HookFields
  <2> QED
    BY <2>1, LenProperties
<1> QED
  BY <1>1 DEF Enters, Roles

Other(e) == /\ hook'[e] = hook[e] /\ exporting'[e] = exporting[e]
            /\ verifying'[e] = verifying[e] /\ writing'[e] = writing[e]

LEMMA OtherKept ==
  ASSUME QuotaInv, NEW e \in Device, HookOK(e), Other(e), Gains, Enters(e)',
         hook[e].ws # 0 => Keeps(hook[e].ws)
  PROVE  HookOK(e)'
<1>1. Sends(e)' /\ Receives(e)'
  BY GoesOnKept DEF HookOK, Other, GoesOn
<1>2. Shows(e)'
  <2>1. hook[e].status = "sent" => \A i \in DOMAIN hook[e].chunks : hook[e].chunks[i] \in acked'
    BY DEF HookOK, Shows, Gains
  <2> QED
    BY <2>1 DEF HookOK, Shows, Other
<1> QED
  BY <1>1, <1>2 DEF HookOK

\* A hook that is being told has a socket: it is not at rest, nor writing.
LEMMA Engaged ==
  ASSUME NEW d \in Device, Shows(d), hook[d].ws # 0
  PROVE  /\ hook[d].status \notin {"review", "applying", "done", "sent"}
         /\ \A w \in writing[d] : ~w.told
BY DEF Shows

LEMMA ShowsLittle ==
  ASSUME NEW d \in Device, \A w \in writing'[d] : ~w.told,
         hook'[d].status \notin {"review", "applying", "done", "sent", "idle"}
  PROVE  Shows(d)'
BY DEF Shows

\* A step of the hook of d, with what it posts.
HookMoves(d, k, ups) ==
  /\ Moved(conns, conns', k, ups) /\ ~In(ups, Starts)
  /\ \A m \in Frame : In(ups, {m}) => UpOK(k, m)'
  /\ transfers' = transfers /\ Gains
  /\ \A e \in Device \ {d} : Other(e)

LEMMA HookMovesKept ==
  ASSUME QuotaInv, PacedInv, NEW d \in Device, NEW k, NEW ups, HookMoves(d, k, ups),
         OneTaken', AckedOK', HookOK(d)'
  PROVE  PacedInv'
<1>1. QueuesOK' /\ FreshOK' /\ DOMAIN conns' = DOMAIN conns /\ Roles(conns, conns')
  BY MovedQueues DEF PacedInv, HookMoves
<1>2. CodesOK'
  BY <1>1, CodesKept DEF PacedInv, HookMoves
<1>3. ASSUME NEW e \in Device, e # d PROVE HookOK(e)'
  <2>1. HookOK(e) /\ Other(e) /\ Gains
    BY <1>3 DEF PacedInv, HookMoves
  <2>2. \A i \in DOMAIN conns, m \in Joins : In(conns'[i].up, {m}) => In(conns[i].up, {m})
    <3>1. \A m \in Joins : In(ups, {m}) => In(ups, Starts)
      BY DEF In, Joins, Starts
    <3> QED
      BY <3>1 DEF HookMoves, Moved
  <2>3. Enters(e)'
    BY <1>1, <2>1, <2>2, EntersKept DEF HookOK, Other
  <2>4. hook[e].ws # 0 => Keeps(hook[e].ws)
    <3>1. hook[e].ws \in 0..Len(conns) /\ conns \in Seq(Conn)
      BY HookFields
    <3> QED
      BY <1>1, <3>1, LenProperties DEF Roles, Keeps
  <2> QED
    BY <2>1, <2>3, <2>4, OtherKept
<1> QED
  BY <1>1, <1>2, <1>3 DEF PacedInv

\* What such a step needs to know of the sockets.
LEMMA MovesFacts ==
  ASSUME QuotaInv, NEW d \in Device, NEW k, NEW ups, HookMoves(d, k, ups)
  PROVE  /\ Roles(conns, conns') /\ (hook[d].ws # 0 => Keeps(hook[d].ws))
         /\ \A i \in DOMAIN conns, m \in Joins : In(conns'[i].up, {m}) => In(conns[i].up, {m})
<1>1. Roles(conns, conns')
  BY DEF HookMoves, Moved
<1>2. hook[d].ws \in 0..Len(conns) /\ conns \in Seq(Conn)
  BY HookFields
<1>3. hook[d].ws # 0 => Keeps(hook[d].ws)
  BY <1>1, <1>2, LenProperties DEF Roles, Keeps
<1>4. \A m \in Joins : In(ups, {m}) => In(ups, Starts)
  BY DEF In, Joins, Starts
<1> QED
  BY <1>1, <1>3, <1>4 DEF HookMoves, Moved

-----------------------------------------------------------------------------
(***************************************************************************)
(* The steps of a hook, one by one.                                        *)
(***************************************************************************)
LEMMA StillMoves ==
  ASSUME AllKept(conns, conns'), transfers' = transfers, Gains, NEW d,
         \A e \in Device \ {d} : Other(e)
  PROVE  HookMoves(d, 0, <<>>)
<1>1. Moved(conns, conns', 0, <<>>)
  BY AllKeptMoved
<1>2. ~In(<<>>, Starts) /\ \A m : ~In(<<>>, {m})
  BY NoneIn
<1> QED
  BY <1>1, <1>2 DEF HookMoves

LEMMA TakenSame ==
  ASSUME UNCHANGED <<taken, acked>> PROVE Gains /\ (OneTaken => OneTaken') /\ (AckedOK => AckedOK')
<1>1. \A s : IsTaken(s)' = IsTaken(s)
  BY DEF IsTaken
<1> QED
  BY <1>1 DEF Gains, OneTaken, AckedOK

\* A step that leaves a hook what it has.
LEMMA HookGoes ==
  ASSUME QuotaInv, PacedInv, NEW d \in Device, NEW k, NEW ups, HookMoves(d, k, ups),
         UNCHANGED <<taken, acked>>, GoesOn(d), Shows(d)'
  PROVE  PacedInv'
<1>1. Gains /\ OneTaken' /\ AckedOK'
  BY TakenSame DEF PacedInv
<1>2. /\ Roles(conns, conns') /\ (hook[d].ws # 0 => Keeps(hook[d].ws))
      /\ \A i \in DOMAIN conns, m \in Joins : In(conns'[i].up, {m}) => In(conns[i].up, {m})
  BY MovesFacts
<1>3. HookOK(d)
  BY DEF PacedInv
<1>4. Sends(d)' /\ Receives(d)'
  BY <1>1, <1>2, <1>3, GoesOnKept DEF HookOK
<1>5. Enters(d)'
  BY <1>2, <1>3, EntersKept DEF HookOK, GoesOn
<1>6. HookOK(d)'
  BY <1>4, <1>5 DEF HookOK
<1> QED
  BY <1>1, <1>6, HookMovesKept

\* A message says which side its reader is on.
LEMMA GotOK ==
  ASSUME QuotaInv, PacedInv, NEW d \in Device, NEW type, Got(d, type)
  PROVE  /\ DownOK(hook[d].ws, Message(d)) /\ ~In(conns[hook[d].ws].up, Starts)
         /\ conns[hook[d].ws].role = "sender" => ~Receiving(d)
         /\ conns[hook[d].ws].role = "receiver" => exporting[d] = {} /\ hook[d].chunks = <<>>
         /\ hook[d].status \notin {"review", "applying", "done", "sent", "idle"}
         /\ \A w \in writing[d] : ~w.told
<1>1. /\ hook[d].ws \in DOMAIN conns /\ hook[d].ws # 0 /\ Message(d) \in Frame
      /\ \E i \in DOMAIN conns[hook[d].ws].down : conns[hook[d].ws].down[i] = Message(d)
  BY GotMoved
<1>2. In(conns[hook[d].ws].down, {Message(d)})
  BY <1>1 DEF In
<1>3. DownOK(hook[d].ws, Message(d))
  BY <1>1, <1>2 DEF PacedInv, QueuesOK
<1>4. ~In(conns[hook[d].ws].up, Starts)
  BY <1>1 DEF PacedInv, FreshOK, Got
<1>5. Sends(d) /\ Receives(d) /\ Shows(d)
  BY DEF PacedInv, HookOK
<1>6. conns[hook[d].ws].role = "sender" => ~Receiving(d)
  BY <1>1, <1>5 DEF Receives, As
<1>7. conns[hook[d].ws].role = "receiver" => exporting[d] = {} /\ hook[d].chunks = <<>>
  BY <1>1, <1>5 DEF Sends, As
<1>8. hook[d].status # "idle"
  BY GotFacts
<1> QED
  BY <1>1, <1>3, <1>4, <1>5, <1>6, <1>7, <1>8, Engaged

LEMMA JoinedPaced ==
  ASSUME QuotaInv, PacedInv, NEW d \in Device, OnJoined(d) PROVE PacedInv'
<1>1. /\ conns' = Read(d) /\ hook' = [hook EXCEPT ![d].status = "transferring"]
      /\ UNCHANGED <<transfers, exporting, verifying, writing, taken, acked>> /\ Got(d, "joined")
  BY DEF OnJoined, relayVars, dataVars
<1>2. AllKept(conns, conns')
  BY <1>1, GotMoved
<1>3. hook \in [Device -> Hook]
  BY DEF QuotaInv, Types
<1>4. GoesOn(d) /\ (\A e \in Device \ {d} : Other(e)) /\ hook'[d].status = "transferring"
  BY <1>1, <1>3 DEF GoesOn, Other, Hook
<1>5. HookMoves(d, 0, <<>>)
  BY <1>1, <1>2, <1>4, TakenSame, StillMoves
<1>6. Shows(d)'
  BY <1>1, <1>4, GotOK, ShowsLittle
<1> QED
  BY <1>1, <1>4, <1>5, <1>6, HookGoes

\* Nothing but the end of a hook's work: the socket is hung up, or stays.
LEMMA EndsPaced ==
  ASSUME QuotaInv, PacedInv, NEW d \in Device, AllKept(conns, conns'),
         \/ hook' = hook
         \/ hook' = [hook EXCEPT ![d] = Failed(@)]
         \/ hook' = [hook EXCEPT ![d].status = "error"],
         UNCHANGED <<transfers, taken, acked>>,
         \A e \in Device : /\ exporting'[e] \subseteq exporting[e] /\ verifying'[e] \subseteq verifying[e]
                           /\ writing'[e] \subseteq writing[e],
         \A e \in Device \ {d} : /\ exporting'[e] = exporting[e] /\ verifying'[e] = verifying[e]
                                 /\ writing'[e] = writing[e],
         hook' = hook \/ \A w \in writing'[d] : ~w.told
  PROVE  PacedInv'
<1>1. hook \in [Device -> Hook]
  BY DEF QuotaInv, Types
<1>2. /\ GoesOn(d) /\ (\A e \in Device \ {d} : Other(e))
      /\ hook'[d] = hook[d] \/ hook'[d].status = "error"
  BY <1>1 DEF GoesOn, Other, Hook, Failed, Quiet
<1>3. HookMoves(d, 0, <<>>)
  BY <1>2, TakenSame, StillMoves
<1>4. Shows(d)'
  <2>1. CASE hook' = hook
    <3>1. Shows(d)
      BY DEF PacedInv, HookOK
    <3> QED
      BY <2>1, <3>1 DEF Shows
  <2>2. CASE hook'[d].status = "error" /\ \A w \in writing'[d] : ~w.told
    BY <2>2, ShowsLittle
  <2> QED
    BY <1>1, <2>1, <2>2 DEF Hook, Failed, Quiet
<1> QED
  BY <1>2, <1>3, <1>4, HookGoes

LEMMA ReadHungUp ==
  ASSUME QuotaInv, NEW d \in Device, NEW type, Got(d, type)
  PROVE  AllKept(conns, HungUp(Read(d), hook[d].ws))
<1>1. /\ AllKept(conns, Read(d)) /\ Read(d) \in Seq(Conn) /\ hook[d].ws \in 0..Len(Read(d))
  BY GotMoved
<1>2. AllKept(Read(d), HungUp(Read(d), hook[d].ws))
  BY <1>1, HungMoved
<1> QED
  BY <1>1, <1>2, AllKeptTwice

LEMMA CancelledPaced ==
  ASSUME QuotaInv, PacedInv, NEW d \in Device, OnCancelled(d) \/ OnError(d) PROVE PacedInv'
<1>1. /\ Got(d, "cancelled") \/ Got(d, "error")
      /\ UNCHANGED <<transfers, exporting, verifying, writing, taken, acked>>
      /\ \/ conns' = Read(d) /\ hook' = hook
         \/ conns' = HungUp(Read(d), hook[d].ws) /\ hook' = [hook EXCEPT ![d] = Failed(@)]
  BY DEF OnCancelled, OnError, relayVars, dataVars
<1>2. AllKept(conns, conns') /\ \A w \in writing'[d] : ~w.told
  BY <1>1, GotMoved, GotOK, ReadHungUp
<1> QED
  BY <1>1, <1>2, EndsPaced

LEMMA FewerMoved ==
  ASSUME NEW cs \in Seq(Conn), NEW k \in DOMAIN cs, NEW e \in {"open", "closing", "closed"}
  PROVE  /\ AllKept(cs, [cs EXCEPT ![k].end = e, ![k].down = <<>>])
         /\ AllKept(cs, [cs EXCEPT ![k].served = FALSE, ![k].up = <<>>])
BY FewerKept DEF AllKept

LEMMA ClosedPaced ==
  ASSUME QuotaInv, PacedInv, NEW k \in DOMAIN conns, OnClose(k) PROVE PacedInv'
<1> DEFINE d == conns[k].by
<1>1. /\ conns' = [conns EXCEPT ![k].end = "closed", ![k].down = <<>>]
      /\ UNCHANGED <<transfers, exporting, verifying, writing, taken, acked>>
      /\ \/ hook' = hook
         \/ ~Silent(d) /\ hook' = [hook EXCEPT ![d].status = "error"]
  BY DEF OnClose, relayVars, dataVars
<1>2. conns \in Seq(Conn) /\ d \in Device
  BY ConnFields DEF QuotaInv, Types
<1>3. AllKept(conns, conns')
  BY <1>1, <1>2, FewerMoved
<1>4. hook' = hook \/ \A w \in writing'[d] : ~w.told
  <2>1. Shows(d)
    BY <1>2 DEF PacedInv, HookOK
  <2> QED
    BY <1>1, <2>1 DEF Shows, Silent, InFlight
<1> HIDE DEF d
<1> QED
  BY <1>1, <1>2, <1>3, <1>4, EndsPaced

\* A hook that exports or checks is not past that.
LEMMA Busy ==
  ASSUME QuotaInv, PacedInv, NEW d \in Device, exporting[d] # {} \/ verifying[d] # {}
  PROVE  /\ hook[d].status \notin {"review", "applying", "done", "idle"}
         /\ exporting[d] # {} => hook[d].status # "sent" /\ ~Receiving(d) /\ hook[d].chunks = <<>>
         /\ \A w \in writing[d] : ~w.told
<1>1. Sends(d) /\ Receives(d) /\ Shows(d)
  BY DEF PacedInv, HookOK
<1> QED
  BY <1>1 DEF Sends, Receives, Receiving, Shows

LEMMA ExportFailsPaced ==
  ASSUME QuotaInv, PacedInv, NEW d \in Device, NEW c \in Code, ExportFails(d, c) PROVE PacedInv'
<1>1. /\ c \in exporting[d] /\ exporting' = [exporting EXCEPT ![d] = @ \ {c}]
      /\ conns' = HungUp(conns, hook[d].ws) /\ hook' = [hook EXCEPT ![d] = Failed(@)]
      /\ UNCHANGED <<transfers, verifying, writing, taken, acked>>
  BY DEF ExportFails, relayVars, dataVars
<1>2. conns \in Seq(Conn) /\ hook[d].ws \in 0..Len(conns)
  BY HookFields
<1>3. AllKept(conns, conns')
  BY <1>1, <1>2, HungMoved
<1>4. \A w \in writing'[d] : ~w.told
  BY <1>1, Busy
<1>5. exporting \in [Device -> SUBSET (1..issued)]
  BY DEF QuotaInv, Types, WorkTypes
<1> QED
  BY <1>1, <1>3, <1>4, <1>5, EndsPaced

LEMMA ApplyPaced ==
  ASSUME QuotaInv, PacedInv, NEW d \in Device, Apply(d) PROVE PacedInv'
<1>1. /\ hook[d].status = "review" /\ hook' = [hook EXCEPT ![d].status = "applying"]
      /\ writing' = [writing EXCEPT ![d] = @ \cup {[payload |-> hook[d].payload, told |-> TRUE]}]
      /\ UNCHANGED <<transfers, conns, exporting, verifying, taken, acked>>
  BY DEF Apply, relayVars
<1>2. hook \in [Device -> Hook] /\ writing \in [Device -> SUBSET Write] /\ conns \in Seq(Conn)
  BY DEF QuotaInv, Types, WorkTypes
<1>3. /\ GoesOn(d) /\ (\A e \in Device \ {d} : Other(e)) /\ hook'[d].status = "applying"
      /\ hook'[d].ws = hook[d].ws
  BY <1>1, <1>2 DEF GoesOn, Other, Hook
<1>4. HookMoves(d, 0, <<>>)
  BY <1>1, <1>2, <1>3, SameMoved, TakenSame, StillMoves
<1>5. Shows(d)'
  <2>1. Shows(d) /\ \A w \in writing[d] : ~w.told
    BY <1>1 DEF PacedInv, HookOK, Shows
  <2>2. writing'[d] = writing[d] \cup {[payload |-> hook[d].payload, told |-> TRUE]}
    BY <1>1, <1>2
  <2>3. \A w, v \in writing'[d] : w.told /\ v.told => w = v
    BY <2>1, <2>2
  <2> QED
    BY <1>1, <1>3, <2>1, <2>3 DEF Shows, GoesOn
<1> QED
  BY <1>1, <1>3, <1>4, <1>5, HookGoes

LEMMA WritePaced ==
  ASSUME QuotaInv, PacedInv, NEW d \in Device, NEW w \in writing[d], WriteDone(d, w) PROVE PacedInv'
<1>1. /\ writing' = [writing EXCEPT ![d] = @ \ {w}]
      /\ UNCHANGED <<transfers, exporting, verifying, taken, acked>>
      /\ \/ hook' = hook /\ conns' = conns
         \/ w.told /\ conns' = conns /\ hook' = [hook EXCEPT ![d].status = "done"]
         \/ w.told /\ conns' = HungUp(conns, hook[d].ws) /\ hook' = [hook EXCEPT ![d] = Failed(@)]
  BY DEF WriteDone, relayVars
<1>2. /\ hook \in [Device -> Hook] /\ writing \in [Device -> SUBSET Write] /\ conns \in Seq(Conn)
      /\ hook[d].ws \in 0..Len(conns)
  BY HookFields DEF QuotaInv, Types, WorkTypes
<1>3. AllKept(conns, conns')
  BY <1>1, <1>2, HungMoved, SameMoved
<1>4. Shows(d)
  BY DEF PacedInv, HookOK
<1>5. w.told => \A v \in writing'[d] : ~v.told
  BY <1>1, <1>2, <1>4 DEF Shows
<1>6. /\ writing'[d] \subseteq writing[d]
      /\ \A e \in Device \ {d} : writing'[e] = writing[e]
  BY <1>1, <1>2
<1>7. CASE hook' = hook \/ hook' = [hook EXCEPT ![d] = Failed(@)]
  BY <1>1, <1>3, <1>5, <1>6, <1>7, EndsPaced
<1>8. CASE w.told /\ hook' = [hook EXCEPT ![d].status = "done"]
  <2>1. /\ GoesOn(d) /\ (\A e \in Device \ {d} : Other(e)) /\ hook'[d].status = "done"
        /\ hook'[d].ws = hook[d].ws
    BY <1>1, <1>2, <1>6, <1>8 DEF GoesOn, Other, Hook
  <2>2. HookMoves(d, 0, <<>>)
    BY <1>1, <1>3, <2>1, TakenSame, StillMoves
  <2>3. hook[d].status = "applying"
    BY <1>4, <1>8 DEF Shows
  <2>4. Shows(d)'
    BY <1>1, <1>4, <1>5, <1>8, <2>1, <2>3 DEF Shows, GoesOn
  <2> QED
    BY <1>1, <2>1, <2>2, <2>4, HookGoes
<1> QED
  BY <1>1, <1>7, <1>8

\* A hook that starts from nothing.
LEMMA AnewPaced ==
  ASSUME QuotaInv, PacedInv, NEW d \in Device, AllKept(conns, conns'),
         UNCHANGED <<transfers, taken, acked>>, \A e \in Device \ {d} : Other(e),
         hook'[d].ws = 0, hook'[d].chunks = <<>>, hook'[d].recv = NoRecv, hook'[d].payload = <<>>,
         hook'[d].status = "idle", exporting'[d] = {}, verifying'[d] = {},
         \A w \in writing'[d] : ~w.told
  PROVE  PacedInv'
<1>1. HookMoves(d, 0, <<>>)
  BY TakenSame, StillMoves
<1>2. HookOK(d)'
  BY DEF HookOK, Sends, Enters, Receives, Receiving, Shows
<1>3. OneTaken' /\ AckedOK'
  BY TakenSame DEF PacedInv
<1> QED
  BY <1>1, <1>2, <1>3, HookMovesKept

LEMMA ResetPaced ==
  ASSUME QuotaInv, PacedInv, NEW d \in Device, Reset(d), ~Hasty PROVE PacedInv'
<1>1. /\ hook[d].status \notin {"idle", "connecting", "applying"}
      /\ exporting[d] = {} /\ verifying[d] = {}
      /\ conns' = HungUp(conns, hook[d].ws) /\ hook' = [hook EXCEPT ![d] = Cleared(@)]
      /\ UNCHANGED <<transfers, exporting, verifying, writing, taken, acked>>
  BY DEF Reset, relayVars, dataVars
<1>2. /\ hook \in [Device -> Hook] /\ conns \in Seq(Conn) /\ hook[d].ws \in 0..Len(conns)
  BY HookFields DEF QuotaInv, Types
<1>3. AllKept(conns, conns')
  BY <1>1, <1>2, HungMoved
<1>4. Shows(d)
  BY DEF PacedInv, HookOK
<1>5. \A e \in Device \ {d} : Other(e)
  BY <1>1, <1>2 DEF Other
<1>6. hook'[d] = Cleared(hook[d])
  BY <1>1, <1>2
<1>7. /\ hook'[d].ws = 0 /\ hook'[d].chunks = <<>> /\ hook'[d].recv = NoRecv
      /\ hook'[d].payload = <<>> /\ hook'[d].status = "idle"
  BY <1>6 DEF Cleared, Idle
<1>8. \A w \in writing'[d] : ~w.told
  BY <1>1, <1>4 DEF Shows
<1> QED
  BY <1>1, <1>3, <1>5, <1>7, <1>8, AnewPaced

LEMMA LeavePaced ==
  ASSUME QuotaInv, PacedInv, NEW d \in Device, Leave(d) PROVE PacedInv'
<1>1. /\ hook' = [hook EXCEPT ![d] = Idle]
      /\ exporting' = [exporting EXCEPT ![d] = {}] /\ verifying' = [verifying EXCEPT ![d] = {}]
      /\ \/ writing' = [writing EXCEPT ![d] = {[w EXCEPT !.told = FALSE] : w \in @}]
         \/ writing' = [writing EXCEPT ![d] = {}]
      /\ UNCHANGED <<transfers, taken, acked>>
  BY DEF Leave, relayVars, dataVars, Dropped
<1>2. /\ hook \in [Device -> Hook] /\ conns \in Seq(Conn)
      /\ exporting \in [Device -> SUBSET (1..issued)] /\ verifying \in [Device -> SUBSET Recv]
      /\ writing \in [Device -> SUBSET Write]
  BY DEF QuotaInv, Types, WorkTypes
<1>3. AllKept(conns, conns')
  BY <1>2, LeftKept DEF Leave, AllKept
<1>4. \A e \in Device \ {d} : Other(e)
  BY <1>1, <1>2 DEF Other
<1>5. hook'[d] = Idle /\ exporting'[d] = {} /\ verifying'[d] = {}
  BY <1>1, <1>2
<1>6. /\ hook'[d].ws = 0 /\ hook'[d].chunks = <<>> /\ hook'[d].recv = NoRecv
      /\ hook'[d].payload = <<>> /\ hook'[d].status = "idle"
  BY <1>5 DEF Idle
<1>7. writing'[d] = {} \/ writing'[d] = {[w EXCEPT !.told = FALSE] : w \in writing[d]}
  BY <1>1, <1>2
<1>8. writing[d] \subseteq Write
  BY <1>2
<1>9. \A w \in writing'[d] : ~w.told
  BY <1>7, <1>8 DEF Write
<1> QED
  BY <1>1, <1>3, <1>4, <1>5, <1>6, <1>9, AnewPaced

LEMMA VerifyPaced ==
  ASSUME QuotaInv, PromiseInv, PacedInv, NEW d \in Device, NEW r \in verifying[d], VerifyDone(d, r)
  PROVE  PacedInv'
<1>1. /\ verifying' = [verifying EXCEPT ![d] = @ \ {r}]
      /\ conns' = HungUp(conns, hook[d].ws)
      /\ hook' = [hook EXCEPT ![d] = IF r.chunks = Cut(r.sha)
                                     THEN [Quiet(@) EXCEPT !.status = "review", !.payload = r.chunks]
                                     ELSE Failed(@)]
      /\ UNCHANGED <<transfers, exporting, writing, taken, acked>>
  BY DEF VerifyDone, relayVars, dataVars
<1>2. /\ hook \in [Device -> Hook] /\ conns \in Seq(Conn) /\ hook[d].ws \in 0..Len(conns)
      /\ verifying \in [Device -> SUBSET Recv]
  BY HookFields DEF QuotaInv, Types, WorkTypes
<1>3. AllKept(conns, conns')
  BY <1>1, <1>2, HungMoved
<1>4. \A e \in Device \ {d} : Other(e)
  BY <1>1, <1>2 DEF Other
<1>5. /\ exporting[d] = {} /\ hook[d].chunks = <<>>
      /\ \A q \in verifying[d] : Came(d, q.sha) /\ q.chunks = Cut(q.sha)
      /\ hook[d].recv # NoRecv => Came(d, hook[d].recv.sha) /\ Partly(hook[d].recv)
  BY DEF PacedInv, HookOK, Receives, Receiving
<1>6. ASSUME NEW q \in verifying[d] PROVE q = r
  <2>1. /\ IsTaken(q.sha) /\ IsTaken(r.sha) /\ q.sha.code = r.sha.code
        /\ q.sha \in Snapshot /\ r.sha \in Snapshot
    BY <1>5 DEF Came, IsTaken
  <2>2. q.sha = r.sha
    BY <2>1 DEF PacedInv, OneTaken
  <2> QED
    BY <2>2 DEF PromiseInv, OneWay, Orderly, Checked
<1>7. verifying'[d] = {}
  BY <1>1, <1>2, <1>6
<1>8. hook'[d] = [Quiet(hook[d]) EXCEPT !.status = "review", !.payload = r.chunks]
  BY <1>1, <1>2, <1>5
<1>9. hook[d] \in Hook
  BY <1>2
<1>10. /\ hook'[d].ws = 0 /\ hook'[d].chunks = <<>> /\ hook'[d].recv = hook[d].recv
       /\ hook'[d].payload = r.chunks /\ hook'[d].status = "review" /\ hook'[d].code = hook[d].code
  BY <1>5, <1>8, <1>9 DEF Quiet, Hook
<1>11. Gains /\ OneTaken' /\ AckedOK'
  BY <1>1, TakenSame DEF PacedInv
<1>12. \A s : Came(d, s) => Came(d, s)'
  BY <1>10, <1>11, CameKept
<1>13. Sends(d)' /\ Enters(d)'
  BY <1>1, <1>5, <1>10 DEF Sends, Enters
<1>14. Receives(d)'
  <2>1. exporting'[d] = {} /\ hook'[d].chunks = <<>> /\ As(d, "receiver")'
    BY <1>1, <1>5, <1>10 DEF As
  <2>2. hook'[d].recv # NoRecv => Came(d, hook[d].recv.sha)' /\ Partly(hook[d].recv)
    BY <1>5, <1>10, <1>12
  <2>3. r.sha \in Snapshot /\ Came(d, r.sha)' /\ hook'[d].payload = Cut(r.sha)
    BY <1>5, <1>10, <1>12 DEF Came, IsTaken
  <2> QED
    BY <1>7, <1>10, <2>1, <2>2, <2>3 DEF Receives, Came, IsTaken, Partly
<1>15. Shows(d)'
  <2>1. r.chunks # <<>>
    <3>1. r.chunks = Cut(r.sha) /\ r.sha \in Snapshot
      BY <1>5 DEF Came, IsTaken
    <3>2. 1 \in DOMAIN r.chunks
      BY <3>1, CutFacts
    <3>3. DOMAIN <<>> = {}
      OBVIOUS
    <3> QED
      BY <3>2, <3>3
  <2>2. \A w \in writing'[d] : ~w.told
    BY <1>1, Busy
  <2> QED
    BY <1>7, <1>10, <2>1, <2>2 DEF Shows
<1>16. HookMoves(d, 0, <<>>)
  BY <1>1, <1>3, <1>4, <1>11, StillMoves
<1> QED
  BY <1>11, <1>13, <1>14, <1>15, <1>16, HookMovesKept DEF HookOK

LEMMA NotReceiving == ASSUME NEW d \in Device, ~Receiving(d)' PROVE Receives(d)'
BY DEF Receives, Receiving

LEMMA NotSending ==
  ASSUME NEW d \in Device, exporting'[d] = {}, hook'[d].chunks = <<>> PROVE Sends(d)'
BY DEF Sends

\* Whoever reads on a socket has asked there.
LEMMA ReaderEnters ==
  ASSUME QuotaInv, PacedInv, NEW d \in Device, NEW k, NEW ups, HookMoves(d, k, ups),
         NEW type, Got(d, type), hook'[d].ws = hook[d].ws,
         conns[hook[d].ws].role = "receiver" => hook'[d].code = hook[d].code
  PROVE  Enters(d)'
<1>1. /\ Roles(conns, conns')
      /\ \A i \in DOMAIN conns, m \in Joins : In(conns'[i].up, {m}) => In(conns[i].up, {m})
  BY MovesFacts
<1>2. ~In(conns[hook[d].ws].up, Starts) /\ hook[d].ws \in DOMAIN conns /\ hook[d].ws # 0
  BY GotOK, GotMoved
<1>3. \A m \in Joins : ~In(conns'[hook[d].ws].up, {m})
  BY <1>1, <1>2 DEF In, Joins, Starts
<1>4. Enters(d)
  BY DEF PacedInv, HookOK
<1> QED
  BY <1>1, <1>2, <1>3, <1>4 DEF Enters, Roles

LEMMA CreatedPaced ==
  ASSUME QuotaInv, PacedInv, NEW d \in Device, OnCreated(d) PROVE PacedInv'
<1>1. /\ Got(d, "created") /\ conns' = Read(d)
      /\ hook' = [hook EXCEPT ![d].code = Message(d).code, ![d].status = "waiting"]
      /\ UNCHANGED <<transfers, exporting, verifying, writing, taken, acked>>
  BY DEF OnCreated, relayVars, dataVars
<1>2. /\ hook \in [Device -> Hook] /\ exporting \in [Device -> SUBSET (1..issued)]
      /\ verifying \in [Device -> SUBSET Recv] /\ writing \in [Device -> SUBSET Write]
  BY DEF QuotaInv, Types, WorkTypes
<1>3. \A e \in Device \ {d} : Other(e)
  BY <1>1, <1>2 DEF Other
<1>4. hook[d] \in Hook /\ hook'[d] = [[hook[d] EXCEPT !.code = Message(d).code] EXCEPT !.status = "waiting"]
  BY <1>1, <1>2
<1>5. /\ hook'[d].ws = hook[d].ws /\ hook'[d].chunks = hook[d].chunks /\ hook'[d].recv = hook[d].recv
      /\ hook'[d].payload = hook[d].payload /\ hook'[d].status = "waiting"
  BY <1>4 DEF Hook
<1>6. Gains /\ OneTaken' /\ AckedOK'
  BY <1>1, TakenSame DEF PacedInv
<1>7. HookMoves(d, 0, <<>>)
  BY <1>1, <1>3, <1>6, GotMoved, StillMoves
<1>8. conns[hook[d].ws].role = "sender" /\ ~Receiving(d) /\ \A w \in writing[d] : ~w.told
  <2>1. DownOK(hook[d].ws, Message(d)) /\ Message(d).type = "created"
    BY <1>1, GotOK, GotMoved
  <2> QED
    BY <1>1, <2>1, GotOK DEF DownOK
<1>9. Sends(d)'
  <2>1. Sends(d) /\ (hook[d].ws # 0 => Keeps(hook[d].ws))
    BY <1>7, MovesFacts DEF PacedInv, HookOK
  <2> QED
    BY <1>1, <1>5, <1>6, <2>1, SendsKept
<1>10. Enters(d)'
  BY <1>1, <1>5, <1>7, <1>8, ReaderEnters
<1>11. Receives(d)'
  BY <1>1, <1>5, <1>8, NotReceiving DEF Receiving
<1>12. Shows(d)'
  BY <1>1, <1>5, <1>8, ShowsLittle
<1> QED
  BY <1>6, <1>7, <1>9, <1>10, <1>11, <1>12, HookMovesKept DEF HookOK

LEMMA PeerJoinedPaced ==
  ASSUME QuotaInv, PromiseInv, PacedInv, NEW d \in Device, OnPeerJoined(d) PROVE PacedInv'
<1> DEFINE k == hook[d].ws
           c == Message(d).code
<1>1. /\ Got(d, "peer_joined") /\ conns' = Read(d)
      /\ hook' = [hook EXCEPT ![d].status = "transferring"]
      /\ exporting' = [exporting EXCEPT ![d] = @ \cup {c}]
      /\ UNCHANGED <<transfers, verifying, writing, taken, acked>>
  BY DEF OnPeerJoined, relayVars, dataVars
<1>2. hook \in [Device -> Hook] /\ exporting \in [Device -> SUBSET (1..issued)]
  BY DEF QuotaInv, Types, WorkTypes
<1>3. \A e \in Device \ {d} : Other(e)
  BY <1>1, <1>2 DEF Other
<1>4. hook[d] \in Hook /\ hook'[d] = [hook[d] EXCEPT !.status = "transferring"]
  BY <1>1, <1>2
<1>5. /\ hook'[d].ws = k /\ hook'[d].chunks = hook[d].chunks /\ hook'[d].recv = hook[d].recv
      /\ hook'[d].payload = hook[d].payload /\ hook'[d].status = "transferring"
      /\ hook'[d].code = hook[d].code
  BY <1>4 DEF Hook
<1>6. Gains /\ OneTaken' /\ AckedOK'
  BY <1>1, TakenSame DEF PacedInv
<1>7. HookMoves(d, 0, <<>>)
  BY <1>1, <1>3, <1>6, GotMoved, StillMoves
<1>8. /\ k \in DOMAIN conns /\ k # 0 /\ Message(d) \in Frame /\ Message(d).type = "peer_joined"
      /\ \E i \in DOMAIN conns[k].down : conns[k].down[i] = Message(d)
  BY <1>1, GotMoved
<1>9. /\ conns[k].role = "sender" /\ c = conns[k].code /\ ~Receiving(d)
      /\ \A w \in writing[d] : ~w.told
  <2>1. DownOK(k, Message(d))
    BY <1>1, GotOK
  <2> QED
    BY <1>1, <1>8, <2>1, GotOK DEF DownOK
<1>10. ~Took(c)
  <2>1. Told(k, c)
    BY <1>8 DEF Told, In, Tells
  <2>2. c \in Nat
    BY <1>1, GotFacts DEF QuotaInv, Types, RelayTypes
  <2> QED
    BY <1>8, <2>1, <2>2 DEF PromiseInv, OneSnapshot, Single
<1>11. Sends(d)
  BY DEF PacedInv, HookOK
<1>12. hook[d].chunks = <<>>
  <2>1. ASSUME hook[d].chunks # <<>> PROVE FALSE
    <3>1. PICK s \in Snapshot : hook[d].chunks = Cut(s) /\ IsTaken(s) /\ OfCode(d, s.code)
      BY <1>11, <2>1 DEF Sends
    <3>2. s.code = c /\ s.from \in Device /\ Cut(s) \in taken[s.from]
      BY <1>8, <1>9, <3>1 DEF OfCode, IsTaken, Snapshot
    <3> QED
      BY <1>10, <3>2 DEF Took
  <2> QED
    BY <2>1
<1>13. \A e \in exporting[d] : e = c
  BY <1>8, <1>9, <1>11 DEF Sends, OfCode
<1>14. exporting'[d] = exporting[d] \cup {c}
  BY <1>1, <1>2
<1>15. Roles(conns, conns')
  BY <1>7, MovesFacts
<1>16. Sends(d)'
  <2>1. \A e \in exporting'[d] : e = c
    BY <1>13, <1>14
  <2>2. conns'[hook'[d].ws].role = "sender" /\ conns'[hook'[d].ws].code = c
    BY <1>5, <1>8, <1>9, <1>15 DEF Roles
  <2> QED
    BY <1>5, <1>12, <2>1, <2>2 DEF Sends, As, OfCode
<1>17. Enters(d)'
  BY <1>1, <1>5, <1>7, ReaderEnters
<1>18. Receives(d)'
  BY <1>1, <1>5, <1>9, NotReceiving DEF Receiving
<1>19. Shows(d)'
  BY <1>1, <1>5, <1>9, ShowsLittle
<1> QED
  BY <1>6, <1>7, <1>16, <1>17, <1>18, <1>19, HookMovesKept DEF HookOK

\* On a socket that receives, what is of its code is of the code entered.
LEMMA OfEntered ==
  ASSUME QuotaInv, PacedInv, NEW d \in Device, NEW type, Got(d, type),
         conns[hook[d].ws].role = "receiver", NEW s, Right(hook[d].ws, s)
  PROVE  Came(d, s)
<1>1. hook[d].ws # 0 /\ Enters(d)
  BY GotMoved DEF PacedInv, HookOK
<1> QED
  BY <1>1 DEF Came, Right, Enters

LEMMA EmptyFacts ==
  ASSUME NEW s \in Snapshot PROVE Empty(s).sha = s /\ Partly(Empty(s))
<1>1. Empty(s).sha = s /\ Empty(s).chunks = [i \in 1..s.size |-> NoChunk]
  BY DEF Empty
<1> QED
  BY <1>1 DEF Partly

LEMMA BeginPaced ==
  ASSUME QuotaInv, PacedInv, NEW d \in Device, OnBegin(d) PROVE PacedInv'
<1>0. PICK s : s = Message(d).sha
  OBVIOUS
<1>1. /\ Got(d, "begin") /\ conns' = Read(d)
      /\ hook' = [hook EXCEPT ![d].recv = Empty(s)]
      /\ UNCHANGED <<transfers, exporting, verifying, writing, taken, acked>>
  BY <1>0 DEF OnBegin, relayVars, dataVars
<1>2. hook \in [Device -> Hook]
  BY DEF QuotaInv, Types
<1>3. \A e \in Device \ {d} : Other(e)
  BY <1>1, <1>2 DEF Other
<1>4. hook[d] \in Hook /\ hook'[d] = [hook[d] EXCEPT !.recv = Empty(s)]
  BY <1>1, <1>2
<1>5. /\ hook'[d].ws = hook[d].ws /\ hook'[d].chunks = hook[d].chunks /\ hook'[d].recv = Empty(s)
      /\ hook'[d].payload = hook[d].payload /\ hook'[d].status = hook[d].status
      /\ hook'[d].code = hook[d].code
  BY <1>4 DEF Hook
<1>6. Gains /\ OneTaken' /\ AckedOK'
  BY <1>1, TakenSame DEF PacedInv
<1>7. HookMoves(d, 0, <<>>)
  BY <1>1, <1>3, <1>6, GotMoved, StillMoves
<1>8. DownOK(hook[d].ws, Message(d)) /\ Message(d).type = "begin"
  BY <1>1, GotOK, GotMoved
<1>9. conns[hook[d].ws].role = "receiver" /\ Right(hook[d].ws, s)
  BY <1>0, <1>8 DEF DownOK
<1>10. Came(d, s) /\ exporting[d] = {} /\ hook[d].chunks = <<>>
  BY <1>1, <1>9, GotOK, OfEntered
<1>11. \A t : Came(d, t) => Came(d, t)'
  BY <1>5, <1>6, CameKept
<1>12. As(d, "receiver")'
  BY <1>1, <1>5, <1>7, <1>9, GotMoved, MovesFacts DEF As, Roles
<1>13. Receives(d)'
  <2>1. Receives(d) /\ s \in Snapshot
    BY <1>10 DEF PacedInv, HookOK, Came, IsTaken
  <2>2. Came(d, s)' /\ Empty(s).sha = s /\ Partly(Empty(s))
    BY <1>10, <1>11, <2>1, EmptyFacts
  <2>3. \A r \in verifying'[d] : Came(d, r.sha)' /\ r.chunks = Cut(r.sha)
    BY <1>1, <1>11, <2>1 DEF Receives
  <2>4. hook'[d].payload # <<>> => \E t \in Snapshot : hook'[d].payload = Cut(t) /\ Came(d, t)'
    BY <1>5, <1>11, <2>1 DEF Receives
  <2>5. Came(d, hook[d].recv.sha)' /\ Partly(hook[d].recv)'
    BY <1>5, <2>2 DEF Came, IsTaken, Partly
  <2> QED
    BY <1>1, <1>5, <1>10, <1>12, <2>3, <2>4, <2>5 DEF Receives
<1>14. Sends(d)'
  BY <1>1, <1>5, <1>10, NotSending
<1>15. Enters(d)'
  BY <1>1, <1>5, <1>7, ReaderEnters
<1>16. Shows(d)'
  BY <1>1, <1>5, GotOK, ShowsLittle
<1> QED
  BY <1>6, <1>7, <1>13, <1>14, <1>15, <1>16, HookMovesKept DEF HookOK

\* A message is read, and answered with msg.
LEMMA AnswerMoved ==
  ASSUME QuotaInv, NEW d \in Device, NEW type, Got(d, type), NEW k, k = hook[d].ws,
         NEW msg \in Frame, conns' = Posted(Read(d), k, <<msg>>)
  PROVE  Moved(conns, conns', k, <<msg>>) /\ Keeps(k)
<1>1. /\ AllKept(conns, Read(d)) /\ Read(d) \in Seq(Conn) /\ k \in 0..Len(Read(d))
      /\ k \in DOMAIN conns
  BY GotMoved
<1>2. <<msg>> \in Seq(Frame)
  BY OneIn
<1>3. Moved(Read(d), conns', k, <<msg>>)
  BY <1>1, <1>2, PostMoved
<1>4. Moved(conns, conns', k, <<msg>>)
  BY <1>1, <1>3, MovedAfter
<1> QED
  BY <1>1, <1>4 DEF Moved, Roles, Keeps

LEMMA AnswerMoves ==
  ASSUME QuotaInv, NEW d \in Device, NEW k, NEW msg \in Frame, msg.type \notin {"create", "join"},
         Moved(conns, conns', k, <<msg>>), UpOK(k, msg)', transfers' = transfers, Gains,
         \A e \in Device \ {d} : Other(e)
  PROVE  HookMoves(d, k, <<msg>>)
<1>1. msg \notin Starts
  BY DEF Starts
<1>2. ~In(<<msg>>, Starts) /\ \A m : m # msg => ~In(<<msg>>, {m})
  BY <1>1, OneIn
<1> QED
  BY <1>2 DEF HookMoves

LEMMA AckedPaced ==
  ASSUME QuotaInv, PacedInv, NEW d \in Device, OnAck(d) PROVE PacedInv'
<1> DEFINE h == hook[d]
           next == Following(Message(d).seq)
<1>1. /\ Got(d, "ack")
      /\ UNCHANGED <<transfers, exporting, verifying, writing, taken, acked>>
  BY DEF OnAck, relayVars, dataVars
<1>2. hook \in [Device -> Hook] /\ h \in Hook /\ h.code \in Nat
  BY HookFields DEF QuotaInv, Types, Hook
<1>3. Gains
  BY <1>1, TakenSame
<1>4. CASE h.chunks = <<>> \/ h.code = 0
  <2>1. conns' = Read(d) /\ hook' = hook
    BY <1>4 DEF OnAck
  <2>2. AllKept(conns, conns')
    BY <1>1, <2>1, GotMoved
  <2> QED
    BY <1>1, <2>1, <2>2, EndsPaced
<1>5. ASSUME h.chunks # <<>>, h.code # 0
      PROVE  \E s \in Snapshot, seq \in Nat :
               /\ h.chunks = Cut(s) /\ Message(d).seq = seq /\ <<s, seq>> \in acked
               /\ Right(h.ws, s) /\ conns[h.ws].role = "sender"
  <2>1. /\ DownOK(h.ws, Message(d)) /\ Message(d).type = "ack" /\ Message(d) \in Frame /\ h.ws # 0
    BY <1>1, GotOK, GotMoved
  <2>2. Message(d).seq \in Nat
    BY <2>1 DEF Frame
  <2>3. conns[h.ws].role = "sender" /\ Known(h.ws, Message(d).seq)
    BY <2>1 DEF DownOK
  <2>4. PICK s \in Snapshot : Right(h.ws, s) /\ <<s, Message(d).seq>> \in acked
    BY <2>3 DEF Known
  <2>5. PICK t \in Snapshot : h.chunks = Cut(t) /\ IsTaken(t) /\ OfCode(d, t.code)
    BY <1>5 DEF PacedInv, HookOK, Sends
  <2>6. s = t
    BY <2>1, <2>4, <2>5 DEF PacedInv, OneTaken, Right, OfCode
  <2> QED
    BY <2>2, <2>3, <2>4, <2>5, <2>6
<1>6. CASE h.chunks # <<>> /\ h.code # 0 /\ next <= Len(h.chunks)
  <2>1. PICK s \in Snapshot, seq \in Nat :
               /\ h.chunks = Cut(s) /\ Message(d).seq = seq /\ <<s, seq>> \in acked
               /\ Right(h.ws, s) /\ conns[h.ws].role = "sender"
    BY <1>5, <1>6
  <2>2. PICK k : k = h.ws
    OBVIOUS
  <2>3. PICK msg : msg = Chunk(h.code, h.chunks[next])
    OBVIOUS
  <2>4. next = seq + 1 /\ seq + 1 \in 1..s.size
    BY <1>6, <2>1, CutFacts DEF Following
  <2>5. h.chunks[next] = <<s, seq + 1>> /\ <<s, seq + 1>> \in Piece
    BY <2>1, <2>4, CutFacts
  <2>6. msg = [type |-> "chunk", code |-> h.code, chunk |-> <<s, seq + 1>>]
    BY <2>3, <2>5 DEF Chunk
  <2>7. msg \in Frame /\ msg.type = "chunk" /\ msg.chunk = <<s, seq + 1>>
    BY <1>2, <2>5, <2>6 DEF Frame
  <2>8. conns' = Posted(Read(d), k, <<msg>>) /\ hook' = hook
    BY <1>6, <2>2, <2>3 DEF OnAck
  <2>9. Moved(conns, conns', k, <<msg>>) /\ Keeps(k)
    BY <1>1, <2>2, <2>7, <2>8, AnswerMoved
  <2>10. UpOK(k, msg)'
    <3>1. msg.chunk[1] = s /\ msg.chunk[2] = seq + 1 /\ (seq + 1) - 1 = seq
      BY <2>7
    <3>2. InPlace(msg.chunk)
      BY <2>1, <3>1 DEF InPlace
    <3>3. UpOK(k, msg)
      BY <2>1, <2>2, <2>7, <3>1, <3>2 DEF UpOK
    <3> QED
      BY <1>3, <2>7, <2>9, <3>3, OKLasts
  <2>11. HookMoves(d, k, <<msg>>)
    BY <1>1, <1>3, <2>7, <2>8, <2>9, <2>10, AnswerMoves DEF Other
  <2>12. Shows(d)
    BY DEF PacedInv, HookOK
  <2>13. GoesOn(d) /\ Shows(d)'
    BY <1>1, <2>8, <2>12 DEF GoesOn, Shows
  <2> QED
    BY <1>1, <2>11, <2>13, HookGoes
<1>7. CASE ~(h.chunks = <<>> \/ h.code = 0) /\ ~(next <= Len(h.chunks))
  <2>1. conns' = HungUp(Read(d), h.ws)
        /\ hook' = [hook EXCEPT ![d] = [Quiet(h) EXCEPT !.status = "sent"]]
    BY <1>7 DEF OnAck
  <2>2. AllKept(conns, conns')
    BY <1>1, <2>1, ReadHungUp
  <2>3. hook'[d] = [Quiet(h) EXCEPT !.status = "sent"]
    BY <1>2, <2>1
  <2>4. /\ hook'[d].ws = 0 /\ hook'[d].status = "sent" /\ hook'[d].chunks = h.chunks
        /\ hook'[d].recv = h.recv /\ hook'[d].payload = h.payload /\ hook'[d].code = h.code
    BY <1>2, <2>3 DEF Quiet, Hook
  <2>5. GoesOn(d) /\ \A e \in Device \ {d} : Other(e)
    BY <1>1, <1>2, <2>1, <2>4 DEF GoesOn, Other
  <2>6. HookMoves(d, 0, <<>>)
    BY <1>1, <1>3, <2>2, <2>5, StillMoves
  <2>7. PICK s \in Snapshot, seq \in Nat :
               h.chunks = Cut(s) /\ Message(d).seq = seq /\ <<s, seq>> \in acked
    BY <1>5, <1>7
  <2>8. s.size \in 1..MaxChunks /\ ~(seq + 1 <= s.size)
    BY <1>7, <2>7, CutFacts DEF Following
  <2>9. \A j \in 1..seq : <<s, j>> \in acked
    BY <2>7 DEF PacedInv, AckedOK
  <2>10. \A j \in DOMAIN h.chunks : h.chunks[j] \in acked
    <3>1. \A j \in 1..s.size : j \in 1..seq
      BY <2>8, TransferAssumption
    <3>2. DOMAIN Cut(s) = 1..s.size /\ \A j \in 1..s.size : Cut(s)[j] = <<s, j>>
      BY CutFacts
    <3>3. \A j \in DOMAIN Cut(s) : Cut(s)[j] \in acked
      BY <2>9, <3>1, <3>2
    <3> QED
      BY <2>7, <3>3
  <2>11. \A w \in writing[d] : ~w.told
    BY <1>1, GotOK
  <2>12. Shows(d)'
    BY <1>1, <1>7, <2>4, <2>10, <2>11 DEF Shows
  <2> QED
    BY <1>1, <2>5, <2>6, <2>12, HookGoes
<1> QED
  BY <1>4, <1>6, <1>7

Filling(q, i, m) == [q EXCEPT !.chunks[i] = IF @ = NoChunk THEN m ELSE @]

LEMMA FilledPartly ==
  ASSUME NEW q \in Recv, NEW i, NEW m, NEW r, r = Filling(q, i, m)
  PROVE  Partly(q) /\ i \in DOMAIN q.chunks /\ m = <<q.sha, i>> =>
           r.sha = q.sha /\ Partly(r) /\ (Complete(r) => r.chunks = Cut(r.sha))
<1> DEFINE c == [q.chunks EXCEPT ![i] = IF @ = NoChunk THEN m ELSE @]
<1>1. PICK n \in Nat : q.chunks \in [1..n -> Piece \cup {NoChunk}]
  BY DEF Recv
<1>2. r = [sha |-> q.sha, chunks |-> c] /\ q = [sha |-> q.sha, chunks |-> q.chunks]
  BY DEF Recv, Filling
<1>3. /\ DOMAIN c = DOMAIN q.chunks /\ c = [j \in DOMAIN c |-> c[j]]
      /\ \A j \in DOMAIN c : c[j] = q.chunks[j] \/ (j = i /\ c[j] = m)
  BY <1>1
<1> HIDE DEF c
<1>4. r.sha = q.sha /\ r.chunks = c
  BY <1>2
<1>5. SUFFICES ASSUME Partly(q), m = <<q.sha, i>> 
               PROVE  Partly(r) /\ (Complete(r) => r.chunks = Cut(r.sha))
  BY <1>4
<1>6. /\ DOMAIN q.chunks = 1..q.sha.size
      /\ \A j \in DOMAIN q.chunks : q.chunks[j] \in {NoChunk, <<q.sha, j>>}
  BY <1>5 DEF Partly
<1>7. \A j \in DOMAIN c : c[j] \in {NoChunk, <<q.sha, j>>}
  BY <1>3, <1>5, <1>6
<1>8. Partly(r)
  BY <1>3, <1>4, <1>6, <1>7 DEF Partly
<1>9. ASSUME Complete(r) PROVE c = Cut(q.sha)
  <2>1. \A j \in DOMAIN c : c[j] = <<q.sha, j>>
    BY <1>4, <1>7, <1>9 DEF Complete
  <2> QED
    BY <1>3, <1>6, <2>1 DEF Cut
<1> QED
  BY <1>4, <1>8, <1>9

LEMMA AckedOKGrows ==
  ASSUME AckedOK, NEW s \in Snapshot, NEW i \in Nat, InPlace(<<s, i>>), acked' = acked \cup {<<s, i>>}
  PROVE  AckedOK'
<1>1. SUFFICES ASSUME NEW t \in Snapshot, NEW n \in Nat, <<t, n>> \in acked', NEW j \in 1..n
               PROVE  <<t, j>> \in acked'
  BY DEF AckedOK
<1>2. CASE <<t, n>> \in acked
  BY <1>1, <1>2 DEF AckedOK
<1>3. CASE t = s /\ n = i
  <2>1. CASE j = i
    BY <1>3, <2>1
  <2>2. CASE j # i
    <3>1. i > 1 /\ i - 1 \in Nat /\ j \in 1..(i - 1)
      BY <1>3, <2>2
    <3>2. <<s, i - 1>> \in acked
      BY <3>1 DEF InPlace
    <3> QED
      BY <1>3, <3>1, <3>2 DEF AckedOK
  <2> QED
    BY <2>1, <2>2
<1> QED
  BY <1>1, <1>2, <1>3

LEMMA ChunkPaced ==
  ASSUME QuotaInv, PacedInv, NEW d \in Device, OnChunk(d) PROVE PacedInv'
<1> DEFINE h == hook[d]
<1>0. PICK m : m = Message(d).chunk
  OBVIOUS
<1>1. PICK k : k = h.ws
  OBVIOUS
<1>2. /\ Got(d, "chunk") /\ UNCHANGED <<transfers, exporting, writing, taken>>
  BY DEF OnChunk, relayVars, dataVars
<1>3. /\ hook \in [Device -> Hook] /\ h \in Hook /\ h.code \in Nat
      /\ verifying \in [Device -> SUBSET Recv]
  BY HookFields DEF QuotaInv, Types, WorkTypes, Hook
<1>4. /\ DownOK(k, Message(d)) /\ Message(d).type = "chunk" /\ Message(d) \in Frame
      /\ k # 0 /\ k \in DOMAIN conns
  BY <1>1, <1>2, GotOK, GotMoved
<1>5. m \in Piece /\ m[1] \in Snapshot /\ m[2] \in Nat /\ m = <<m[1], m[2]>>
  BY <1>0, <1>4, TransferAssumption DEF Frame, Piece
<1>6. PICK s \in Snapshot, i \in Nat : m = <<s, i>> /\ m[1] = s /\ m[2] = i
  BY <1>5
<1>7. conns[k].role = "receiver" /\ Right(k, s) /\ InPlace(m)
  BY <1>0, <1>4, <1>6 DEF DownOK
<1>8. Came(d, s) /\ exporting[d] = {} /\ h.chunks = <<>> /\ \A w \in writing[d] : ~w.told
  BY <1>1, <1>2, <1>7, GotOK, OfEntered
<1>9. CASE h.recv = NoRecv \/ i \notin DOMAIN h.recv.chunks
  <2>1. conns' = Read(d) /\ hook' = hook /\ verifying' = verifying /\ acked' = acked
    BY <1>0, <1>6, <1>9 DEF OnChunk
  <2>2. AllKept(conns, conns')
    BY <1>2, <2>1, GotMoved
  <2> QED
    BY <1>2, <2>1, <2>2, EndsPaced
<1>10. CASE ~(h.recv = NoRecv \/ i \notin DOMAIN h.recv.chunks)
  <2>1. PICK r : r = [h.recv EXCEPT !.chunks[i] = IF @ = NoChunk THEN m ELSE @]
    OBVIOUS
  <2>2. PICK msg : msg = Ack(h.code, i)
    OBVIOUS
  <2>3. /\ conns' = Posted(Read(d), k, <<msg>>)
        /\ hook' = [hook EXCEPT ![d].recv = r]
        /\ verifying' = IF Complete(r) THEN [verifying EXCEPT ![d] = @ \cup {r}] ELSE verifying
        /\ acked' = acked \cup {m}
    BY <1>0, <1>1, <1>6, <1>10, <2>1, <2>2 DEF OnChunk
  <2>4. h.recv \in Recv /\ Came(d, h.recv.sha) /\ Partly(h.recv)
    BY <1>3, <1>10 DEF Hook, PacedInv, HookOK, Receives
  <2>5. h.recv.sha = s
    BY <1>8, <2>4 DEF PacedInv, OneTaken, Came, IsTaken
  <2>6. r.sha = s /\ Partly(r) /\ (Complete(r) => r.chunks = Cut(s))
    <3>1. m = <<h.recv.sha, i>> /\ i \in DOMAIN h.recv.chunks
      BY <1>6, <1>10, <2>5
    <3>2. PICK q \in Recv : q = h.recv
      BY <2>4
    <3>3. r = Filling(q, i, m)
      BY <2>1, <3>2 DEF Filling
    <3>4. Partly(q) /\ i \in DOMAIN q.chunks /\ m = <<q.sha, i>> /\ q.sha = s
      BY <2>4, <2>5, <3>1, <3>2
    <3> QED
      BY <3>3, <3>4, FilledPartly
  <2>7. msg \in Frame /\ msg.type = "ack" /\ msg.seq = i
    BY <1>3, <2>2 DEF Ack, Frame
  <2>8. Gains /\ OneTaken' /\ AckedOK'
    <3>1. Gains
      BY <1>2, <2>3 DEF Gains, IsTaken
    <3>2. OneTaken'
      BY <1>2 DEF PacedInv, OneTaken, IsTaken
    <3>3. AckedOK'
      BY <1>6, <1>7, <2>3, AckedOKGrows DEF PacedInv
    <3> QED
      BY <3>1, <3>2, <3>3
  <2>9. Moved(conns, conns', k, <<msg>>) /\ Keeps(k)
    BY <1>1, <1>2, <2>3, <2>7, AnswerMoved
  <2>10. UpOK(k, msg)'
    <3>1. Right(k, s)' /\ conns'[k].role = "receiver"
      BY <1>7, <2>8, <2>9 DEF Right, Keeps, Gains, IsTaken
    <3>2. Known(k, i)'
      BY <1>6, <2>3, <3>1 DEF Known
    <3> QED
      BY <2>7, <3>1, <3>2 DEF UpOK
  <2>11. hook'[d] = [h EXCEPT !.recv = r] /\ verifying'[d] \subseteq verifying[d] \cup {r}
         /\ (verifying'[d] # verifying[d] => Complete(r))
         /\ \A e \in Device \ {d} : Other(e)
    BY <1>2, <1>3, <2>3 DEF Other
  <2>12. HookMoves(d, k, <<msg>>)
    BY <1>2, <2>7, <2>8, <2>9, <2>10, <2>11, AnswerMoves
  <2>13. /\ hook'[d].ws = k /\ hook'[d].status = h.status /\ hook'[d].chunks = h.chunks
         /\ hook'[d].recv = r /\ hook'[d].payload = h.payload /\ hook'[d].code = h.code
    BY <1>1, <1>3, <2>11 DEF Hook
  <2>14. \A t : Came(d, t) => Came(d, t)'
    BY <2>8, <2>13, CameKept
  <2>15. Receives(d)'
    <3>1. Receives(d) /\ As(d, "receiver")'
      BY <1>7, <2>9, <2>13 DEF PacedInv, HookOK, As, Keeps
    <3>2. ASSUME NEW q \in verifying'[d] PROVE Came(d, q.sha)' /\ q.chunks = Cut(q.sha)
      <4>1. CASE q \in verifying[d]
        BY <2>14, <3>1, <4>1 DEF Receives
      <4>2. CASE q = r /\ Complete(r)
        BY <1>8, <2>6, <2>14, <4>2
      <4> QED
        BY <2>11, <3>2, <4>1, <4>2
    <3>3. hook'[d].payload # <<>> => \E t \in Snapshot : hook'[d].payload = Cut(t) /\ Came(d, t)'
      BY <2>13, <2>14, <3>1 DEF Receives
    <3>4. Came(d, hook[d].recv.sha)' /\ Partly(hook[d].recv)'
      BY <1>8, <2>6, <2>13, <2>14 DEF Came, IsTaken, Partly
    <3> QED
      BY <1>2, <1>8, <2>13, <3>1, <3>2, <3>3, <3>4 DEF Receives
  <2>16. Sends(d)'
    BY <1>2, <1>8, <2>13, NotSending
  <2>17. Enters(d)'
    BY <1>1, <1>2, <2>12, <2>13, ReaderEnters
  <2>18. Shows(d)'
    BY <1>2, <2>13, GotOK, ShowsLittle
  <2> QED
    BY <2>8, <2>12, <2>15, <2>16, <2>17, <2>18, HookMovesKept DEF HookOK
<1> QED
  BY <1>9, <1>10

LEMMA OpeningIn ==
  ASSUME NEW s \in Snapshot, NEW c \in Nat
  PROVE  /\ Opening(c, s) \in Seq(Frame) /\ ~In(Opening(c, s), Starts)
         /\ \A m : In(Opening(c, s), {m}) =>
              \/ m.type = "begin" /\ m.sha = s
              \/ m.type = "chunk" /\ m.chunk = <<s, 1>>
<1> DEFINE a == Begin(c, s)
           b == Chunk(c, <<s, 1>>)
<1>1. Opening(c, s) = <<a, b>>
  BY DEF Opening
<1>2. <<s, 1>> \in Piece
  BY CutFacts
<1>3. a \in Frame /\ a.type = "begin" /\ a.sha = s
  BY DEF Begin, Frame
<1>4. b \in Frame /\ b.type = "chunk" /\ b.chunk = <<s, 1>>
  BY <1>2 DEF Chunk, Frame
<1> HIDE DEF a, b
<1>5. /\ <<a, b>> \in Seq(Frame)
      /\ \A M : a \notin M /\ b \notin M => ~In(<<a, b>>, M)
  BY <1>3, <1>4, TwoIn
<1> DEFINE q == <<a, b>>
<1> HIDE DEF q
<1>6. q \in Seq(Frame) /\ \A M : a \notin M /\ b \notin M => ~In(q, M)
  BY <1>5 DEF q
<1>7. a \notin Starts /\ b \notin Starts
  BY <1>3, <1>4 DEF Starts
<1>8. \A m : In(q, {m}) => m = a \/ m = b
  BY <1>6
<1> QED
  BY <1>1, <1>3, <1>4, <1>6, <1>7, <1>8 DEF q

LEMMA ExportPaced ==
  ASSUME QuotaInv, PromiseInv, PacedInv, NEW d \in Device, NEW c \in Code, NEW n \in 1..MaxChunks,
         NEW open \in BOOLEAN, ExportDone(d, c, n, open)
  PROVE  PacedInv'
<1> DEFINE h == hook[d]
<1>0. PICK k : k = h.ws
  OBVIOUS
<1>1. PICK s : s = Export(d, c, n)
  OBVIOUS
<1>2. s \in Snapshot /\ s.from = d /\ s.code = c
  BY <1>1, ExportMild DEF Export
<1>3. /\ c \in exporting[d] /\ exporting' = [exporting EXCEPT ![d] = @ \ {c}]
      /\ taken' = [taken EXCEPT ![d] = @ \cup {Cut(s)}]
      /\ hook' = [hook EXCEPT ![d].chunks = Cut(s)]
      /\ conns' = conns \/ conns' = Posted(conns, k, Opening(h.code, s))
      /\ UNCHANGED <<transfers, verifying, writing, acked>>
  BY <1>0, <1>1 DEF ExportDone, Export, relayVars, dataVars
<1>4. /\ hook \in [Device -> Hook] /\ h \in Hook /\ h.code \in Nat /\ conns \in Seq(Conn)
      /\ k \in 0..Len(conns)
      /\ exporting \in [Device -> SUBSET (1..issued)] /\ taken \in [Device -> SUBSET Payload]
  BY <1>0, HookFields DEF QuotaInv, Types, WorkTypes, Hook
<1>5. ~Took(c)
  BY ExportSingle DEF PromiseInv
<1>6. \A e \in Device : taken'[e] = IF e = d THEN taken[e] \cup {Cut(s)} ELSE taken[e]
  BY <1>3, <1>4
<1>7. \A t \in Snapshot : IsTaken(t)' <=> IsTaken(t) \/ t = s
  <2>1. ASSUME NEW t \in Snapshot PROVE IsTaken(t)' <=> IsTaken(t) \/ t = s
    <3>1. t.from \in Device /\ (Cut(t) = Cut(s) => t = s)
      BY <1>2, CutOnce DEF Snapshot
    <3> QED
      BY <1>2, <1>6, <3>1 DEF IsTaken
  <2> QED
    BY <2>1
<1>8. Gains /\ OneTaken' /\ AckedOK'
  <2>1. Gains
    BY <1>3, <1>7 DEF Gains
  <2>2. \A t \in Snapshot : IsTaken(t) => t.code # c
    BY <1>5 DEF IsTaken, Took, Snapshot
  <2>3. OneTaken'
    BY <1>2, <1>7, <2>2 DEF PacedInv, OneTaken
  <2> QED
    BY <1>3, <2>1, <2>3 DEF PacedInv, AckedOK
<1>9. /\ k # 0 => conns[k].role = "sender" /\ conns[k].code = c
      /\ \A e \in exporting[d] : e = c
  BY <1>0, <1>3 DEF PacedInv, HookOK, Sends, As, OfCode
<1>10. /\ h.status \notin {"review", "applying", "done", "idle", "sent"} /\ ~Receiving(d)
       /\ \A w \in writing[d] : ~w.told
  BY <1>3, Busy
<1>11. hook'[d] = [h EXCEPT !.chunks = Cut(s)] /\ exporting'[d] = {} /\ \A e \in Device \ {d} : Other(e)
  BY <1>3, <1>4, <1>9 DEF Other
<1>12. /\ hook'[d].ws = k /\ hook'[d].status = h.status /\ hook'[d].chunks = Cut(s)
       /\ hook'[d].recv = h.recv /\ hook'[d].payload = h.payload /\ hook'[d].code = h.code
  BY <1>0, <1>4, <1>11 DEF Hook
<1>13. \E j, ups : HookMoves(d, j, ups)
  <2>1. CASE conns' = conns
    <3>1. AllKept(conns, conns')
      BY <1>4, <2>1, SameMoved
    <3>2. HookMoves(d, 0, <<>>)
      BY <1>3, <1>8, <1>11, <3>1, StillMoves
    <3> QED
      BY <3>2
  <2>2. CASE conns' = Posted(conns, k, Opening(h.code, s)) /\ conns' # conns
    <3>1. PICK ups : ups = Opening(h.code, s)
      OBVIOUS
    <3>2. /\ ups \in Seq(Frame) /\ ~In(ups, Starts)
          /\ \A m : In(ups, {m}) => \/ m.type = "begin" /\ m.sha = s
                                    \/ m.type = "chunk" /\ m.chunk = <<s, 1>>
      BY <1>2, <1>4, <3>1, OpeningIn
    <3>3. Moved(conns, conns', k, ups)
      BY <1>4, <2>2, <3>1, <3>2, PostMoved
    <3>4. k # 0 /\ k \in DOMAIN conns
      BY <1>4, <2>2, LenProperties DEF Posted
    <3>5. conns'[k].role = "sender" /\ Right(k, s)'
      BY <1>2, <1>7, <1>9, <3>3, <3>4 DEF Moved, Roles, Right
    <3>6. ASSUME NEW m \in Frame, In(ups, {m}) PROVE UpOK(k, m)'
      <4>1. CASE m.type = "begin" /\ m.sha = s
        BY <3>5, <4>1 DEF UpOK
      <4>2. CASE m.type = "chunk" /\ m.chunk = <<s, 1>>
        <5>1. InPlace(m.chunk)' /\ m.chunk[1] = s
          BY <4>2 DEF InPlace
        <5> QED
          BY <3>5, <4>2, <5>1 DEF UpOK
      <4> QED
        BY <3>2, <3>6, <4>1, <4>2
    <3>7. HookMoves(d, k, ups)
      BY <1>3, <1>8, <1>11, <3>2, <3>3, <3>6 DEF HookMoves
    <3> QED
      BY <3>7
  <2> QED
    BY <1>3, <2>1, <2>2
<1>14. PICK j, ups : HookMoves(d, j, ups)
  BY <1>13
<1>15. /\ Roles(conns, conns') /\ (h.ws # 0 => Keeps(h.ws))
       /\ \A i \in DOMAIN conns, m \in Joins : In(conns'[i].up, {m}) => In(conns[i].up, {m})
  BY <1>14, MovesFacts
<1>16. Sends(d)'
  <2>1. (k # 0 => conns'[k].role = "sender" /\ conns'[k].code = c) /\ IsTaken(s)'
    BY <1>0, <1>2, <1>7, <1>9, <1>15 DEF Keeps
  <2> QED
    BY <1>2, <1>11, <1>12, <2>1 DEF Sends, As, OfCode
<1>17. Enters(d)'
  BY <1>0, <1>12, <1>15, EntersKept DEF PacedInv, HookOK
<1>18. Receives(d)'
  BY <1>3, <1>10, <1>12, NotReceiving DEF Receiving
<1>19. Shows(d)'
  BY <1>3, <1>10, <1>12, ShowsLittle
<1> QED
  BY <1>8, <1>14, <1>16, <1>17, <1>18, <1>19, HookMovesKept DEF HookOK

LEMMA HookPaced ==
  ASSUME QuotaInv, PromiseInv, PacedInv, ~Hasty, NEW d \in Device,
         Receive(d) \/ Background(d) \/ Reset(d) \/ Leave(d) \/ Apply(d)
  PROVE  PacedInv'
<1>1. CASE Receive(d)
  BY <1>1, CreatedPaced, PeerJoinedPaced, JoinedPaced, AckedPaced, BeginPaced, ChunkPaced,
     CancelledPaced DEF Receive
<1>2. CASE Background(d)
  BY <1>2, ExportPaced, ExportFailsPaced, VerifyPaced, WritePaced DEF Background
<1> QED
  BY <1>1, <1>2, ResetPaced, LeavePaced, ApplyPaced

-----------------------------------------------------------------------------
(***************************************************************************)
(* The steps of the relay, and of a hook that connects.                    *)
(***************************************************************************)
\* Messages are taken from the relay, and those of J, each to its socket, come
\* from it.
Delivers(cs, ds, J) ==
  /\ ds \in Seq(Conn) /\ Len(ds) = Len(cs) /\ DOMAIN ds = DOMAIN cs
  /\ \A i \in DOMAIN cs :
       /\ \A M : Less(cs[i].up, ds[i].up, M)
       /\ \A m : In(ds[i].down, {m}) => In(cs[i].down, {m}) \/ <<i, m>> \in J

LEMMA DeliversTwice ==
  ASSUME NEW cs, NEW ds, NEW es, NEW J, NEW K, Delivers(cs, ds, J), Delivers(ds, es, K)
  PROVE  Delivers(cs, es, J \cup K)
<1>1. ASSUME NEW i \in DOMAIN cs PROVE \A M : Less(cs[i].up, es[i].up, M)
  BY LessTwice DEF Delivers
<1> QED
  BY <1>1 DEF Delivers

LEMMA KeptDelivers ==
  ASSUME NEW cs, NEW ds, \A M : Kept(cs, ds, M) PROVE Delivers(cs, ds, {})
<1>1. Kept(cs, ds, {})
  OBVIOUS
<1>2. \A i \in DOMAIN cs : \A m : In(ds[i].down, {m}) => In(cs[i].down, {m})
  BY DEF Kept, Less
<1> QED
  BY <1>1, <1>2 DEF Delivers, Kept

LEMMA SentDelivers ==
  ASSUME NEW cs \in Seq(Conn), NEW k \in 0..Len(cs), NEW msg \in Frame
  PROVE  Delivers(cs, Sent(cs, k, msg), {<<k, msg>>}) /\ Roles(cs, Sent(cs, k, msg))
<1> DEFINE ds == Sent(cs, k, msg)
<1>1. /\ Roles(cs, ds) /\ Kept(cs, ds, {})
      /\ \A i \in DOMAIN cs : (i # k => ds[i] = cs[i]) /\ ds[i].up = cs[i].up
      /\ \A M : k # 0 /\ In(ds[k].down, M) => In(cs[k].down, M) \/ msg \in M
  BY SentFacts
<1> HIDE DEF ds
<1>2. ASSUME NEW i \in DOMAIN cs, NEW m, In(ds[i].down, {m})
      PROVE  In(cs[i].down, {m}) \/ <<i, m>> \in {<<k, msg>>}
  <2>1. i # 0
    BY <1>2, LenProperties
  <2> QED
    BY <1>1, <1>2, <2>1
<1> QED
  BY <1>1, <1>2, LessSame DEF Delivers, Kept, ds

\* A step of the relay: what it delivers is right, it marks none but a socket
\* whose asking it just read, and it sends nothing to one that still asks.
LEMMA RelayPaced ==
  ASSUME QuotaInv, PacedInv, NEW J, Delivers(conns, conns', J),
         UNCHANGED <<hook, exporting, verifying, writing, taken, acked>>,
         \A i \in DOMAIN conns : Keeps(i),
         \A i \in DOMAIN conns, m \in Frame : <<i, m>> \in J => DownOK(i, m)',
         \A i \in DOMAIN conns : In(conns'[i].up, Starts) =>
           /\ conns'[i].role = conns[i].role /\ conns'[i].code = conns[i].code
           /\ \A m : <<i, m>> \notin J,
         CodesOK',
         \A i \in DOMAIN conns : conns'[i].role = "receiver" =>
           \/ conns[i].role = "receiver" /\ conns'[i].code = conns[i].code
           \/ \E m \in Joins : In(conns[i].up, {m}) /\ m.code = conns'[i].code
  PROVE  PacedInv'
<1>1. conns \in Seq(Conn) /\ conns' \in Seq(Conn) /\ DOMAIN conns' = DOMAIN conns
  BY DEF QuotaInv, Types, Delivers
<1>2. Gains /\ OneTaken' /\ AckedOK'
  BY TakenSame DEF PacedInv
<1>3. QueuesOK'
  <2>1. \A i \in DOMAIN conns, m \in Frame :
          /\ In(conns'[i].up, {m}) => In(conns[i].up, {m})
          /\ In(conns'[i].down, {m}) => In(conns[i].down, {m}) \/ DownOK(i, m)'
    BY DEF Delivers, Less
  <2> QED
    BY <1>1, <1>2, <2>1, QueuesKept DEF PacedInv
<1>4. FreshOK'
  <2>1. ASSUME NEW i \in DOMAIN conns, In(conns[i].up, Starts), In(conns'[i].up, Starts)
        PROVE  conns'[i].down = <<>>
    <3>0. i \in DOMAIN conns'
      BY <1>1
    <3>1. conns[i].down = <<>> /\ conns'[i].down \in Seq(Frame)
      <4>1. conns'[i].down \in Seq(Frame)
        BY <1>1, <3>0, ConnFields
      <4> QED
        BY <2>1, <4>1 DEF PacedInv, FreshOK
    <3>2. \A m : ~In(conns'[i].down, {m})
      <4>1. \A m : <<i, m>> \notin J
        BY <2>1
      <4>2. \A m : In(conns'[i].down, {m}) => In(conns[i].down, {m}) \/ <<i, m>> \in J
        BY <2>1 DEF Delivers
      <4>3. \A m : ~In(conns[i].down, {m})
        BY <3>1, NoneIn
      <4> QED
        BY <4>1, <4>2, <4>3
    <3>3. \A M : In(conns'[i].down, M) => In(conns[i].down, M)
      BY <3>2 DEF In
    <3> QED
      BY <3>1, <3>3, StaysEmpty
  <2> QED
    BY <1>1, <2>1, FreshKept DEF PacedInv, Delivers
<1>5. ASSUME NEW d \in Device PROVE HookOK(d)'
  <2>1. HookOK(d) /\ Other(d) /\ (hook[d].ws # 0 => hook[d].ws \in DOMAIN conns)
    <3>1. hook[d].ws \in 0..Len(conns)
      BY HookFields
    <3> QED
      BY <1>1, <3>1, LenProperties DEF PacedInv, Other
  <2>2. Enters(d)'
    BY <2>1 DEF HookOK, Enters, Delivers, Less
  <2> QED
    BY <1>2, <2>1, <2>2, OtherKept
<1> QED
  BY <1>2, <1>3, <1>4, <1>5 DEF PacedInv

LEMMA CodesStay ==
  ASSUME QuotaInv, CodesOK, \A i \in DOMAIN conns : Keeps(i),
         NEW c \in DOMAIN transfers
  PROVE  /\ conns'[transfers[c].sender].role = "sender" /\ conns'[transfers[c].sender].code = c
         /\ transfers[c].receiver # 0 => /\ conns'[transfers[c].receiver].role = "receiver"
                                         /\ conns'[transfers[c].receiver].code = c
<1>1. /\ transfers[c].sender \in DOMAIN conns
      /\ transfers[c].receiver # 0 => transfers[c].receiver \in DOMAIN conns
  BY DEF QuotaInv, Places, RelayPlaces
<1> QED
  BY <1>1 DEF CodesOK, Keeps

\* Whoever still asks has no place in a transfer.
LEMMA AsksAside ==
  ASSUME QuotaInv, PacedInv, NEW i \in DOMAIN conns, In(conns[i].up, Starts)
  PROVE  /\ conns[i].role = "none" /\ Keeps(i) /\ conns[i].down = <<>>
         /\ \A c \in DOMAIN transfers : i # transfers[c].sender /\ i # transfers[c].receiver
<1>1. conns[i].role = "none" /\ conns[i].down = <<>>
  BY DEF PacedInv, FreshOK
<1>2. i # 0
  BY LenProperties DEF QuotaInv, Types
<1> QED
  BY <1>1, <1>2 DEF PacedInv, CodesOK, Keeps

LEMMA ReadsFirst ==
  ASSUME QuotaInv, PacedInv, NEW k \in DOMAIN conns, conns[k].up # <<>>
  PROVE  /\ Popped(k) \in Seq(Conn) /\ Len(Popped(k)) = Len(conns) /\ DOMAIN Popped(k) = DOMAIN conns
         /\ Delivers(conns, Popped(k), {}) /\ Roles(conns, Popped(k))
         /\ Head(conns[k].up) \in Frame /\ In(conns[k].up, {Head(conns[k].up)})
         /\ UpOK(k, Head(conns[k].up)) /\ ~In(Popped(k)[k].up, Starts)
         /\ Head(conns[k].up) \in Starts => In(conns[k].up, Starts)
<1>1. conns \in Seq(Conn)
  BY DEF QuotaInv, Types
<1>2. /\ Roles(conns, Popped(k)) /\ (\A M : Kept(conns, Popped(k), M))
      /\ Popped(k)[k].up = Tail(conns[k].up) /\ Head(conns[k].up) \in Frame
  BY <1>1, PoppedFacts
<1>3. Kept(conns, Popped(k), {})
  BY <1>2
<1>4. Delivers(conns, Popped(k), {})
  BY <1>2, KeptDelivers
<1>5. conns[k].up \in Seq(Frame) /\ FirstIn(conns[k].up, Starts)
  BY <1>1, ConnFields DEF PacedInv, FreshOK
<1>6. /\ Head(conns[k].up) \in Starts => In(conns[k].up, Starts)
      /\ ~In(Tail(conns[k].up), Starts) /\ In(conns[k].up, {Head(conns[k].up)})
  BY <1>5, LessTail
<1>7. UpOK(k, Head(conns[k].up))
  BY <1>2, <1>6 DEF PacedInv, QueuesOK
<1> QED
  BY <1>2, <1>3, <1>4, <1>6, <1>7 DEF Kept

LEMMA DownTrivial ==
  ASSUME NEW k, NEW m, m.type \in {"joined", "cancelled", "error"} PROVE DownOK(k, m)
BY DEF DownOK

LEMMA MsgIs == ASSUME NEW t, NEW c PROVE Msg(t, c).type = t /\ Msg(t, c).code = c
BY DEF Msg

\* The relay refuses.
LEMMA RefusePaced ==
  ASSUME QuotaInv, PacedInv, NEW k \in DOMAIN conns, conns[k].up # <<>>,
         conns' = Sent(Popped(k), k, Msg("error", 0)), transfers' = transfers,
         UNCHANGED <<hook, exporting, verifying, writing, taken, acked>>
  PROVE  PacedInv'
<1>1. PICK msg : msg = Msg("error", 0)
  OBVIOUS
<1>2. msg \in Frame /\ msg.type = "error"
  BY <1>1, MsgFrame, MsgIs
<1>3. /\ Popped(k) \in Seq(Conn) /\ Len(Popped(k)) = Len(conns) /\ DOMAIN Popped(k) = DOMAIN conns
      /\ Delivers(conns, Popped(k), {}) /\ Roles(conns, Popped(k)) /\ ~In(Popped(k)[k].up, Starts)
  BY ReadsFirst
<1>4. k \in 0..Len(Popped(k)) /\ conns \in Seq(Conn)
  BY <1>3, LenProperties DEF QuotaInv, Types
<1>5. Delivers(Popped(k), conns', {<<k, msg>>}) /\ Roles(Popped(k), conns')
  BY <1>1, <1>2, <1>3, <1>4, SentDelivers
<1>6. Delivers(conns, conns', {} \cup {<<k, msg>>})
  BY <1>3, <1>5, DeliversTwice
<1>7. Delivers(conns, conns', {<<k, msg>>}) /\ Roles(conns, conns') /\ ~In(conns'[k].up, Starts)
  BY <1>3, <1>5, <1>6 DEF Roles, Delivers, Less
<1>8. CodesOK'
  BY <1>7, CodesKept DEF PacedInv
<1>9. \A i \in DOMAIN conns : Keeps(i)
  BY <1>7 DEF Roles, Keeps
<1>10. \A i \in DOMAIN conns, m \in Frame : <<i, m>> \in {<<k, msg>>} => DownOK(i, m)'
  BY <1>2 DEF DownOK
<1>11. \A i \in DOMAIN conns : In(conns'[i].up, Starts) =>
           /\ conns'[i].role = conns[i].role /\ conns'[i].code = conns[i].code
           /\ \A m : <<i, m>> \notin {<<k, msg>>}
  BY <1>7 DEF Roles
<1>12. \A i \in DOMAIN conns : conns'[i].role = "receiver" =>
           conns[i].role = "receiver" /\ conns'[i].code = conns[i].code
  BY <1>7 DEF Roles
<1> QED
  BY <1>7, <1>8, <1>9, <1>10, <1>11, <1>12, RelayPaced

Marks(cs, ds, k, c, role) ==
  /\ ds \in Seq(Conn) /\ Len(ds) = Len(cs) /\ DOMAIN ds = DOMAIN cs
  /\ Delivers(cs, ds, {}) /\ ds[k].code = c /\ ds[k].role = role
  /\ \A i \in DOMAIN cs : i # k => ds[i].code = cs[i].code /\ ds[i].role = cs[i].role

LEMMA MarkedDelivers ==
  ASSUME NEW cs \in Seq(Conn), NEW k \in DOMAIN cs, NEW c \in Nat, NEW role \in Role
  PROVE  Marks(cs, Marked(cs, k, c, role), k, c, role)
<1>1. PICK ds : ds = Marked(cs, k, c, role)
  OBVIOUS
<1>2. /\ \A M : Kept(cs, ds, M)
      /\ ds[k].code = c /\ ds[k].role = role
      /\ \A i \in DOMAIN cs : i # k => ds[i] = cs[i]
  BY <1>1, MarkedFacts
<1>3. Kept(cs, ds, {}) /\ Delivers(cs, ds, {})
  BY <1>2, KeptDelivers
<1> QED
  BY <1>1, <1>2, <1>3 DEF Marks, Kept

\* A socket whose asking was read is marked with a code and a role, and told.
LEMMA MarkTells ==
  ASSUME QuotaInv, PacedInv, NEW k \in DOMAIN conns, conns[k].up # <<>>,
         Head(conns[k].up) \in Starts,
         NEW c \in Nat, NEW role \in {"sender", "receiver"}, NEW msg \in Frame
  PROVE  LET ds == Sent(Marked(Popped(k), k, c, role), k, msg)
         IN  /\ ds \in Seq(Conn) /\ Len(ds) = Len(conns) /\ DOMAIN ds = DOMAIN conns
             /\ Delivers(conns, ds, {<<k, msg>>}) /\ ds[k].code = c /\ ds[k].role = role
             /\ ~In(ds[k].up, Starts)
             /\ \A i \in DOMAIN conns : i # k => ds[i].code = conns[i].code /\ ds[i].role = conns[i].role
<1>1. PICK cs : cs = Popped(k)
  OBVIOUS
<1>2. PICK es : es = Marked(cs, k, c, role)
  OBVIOUS
<1>3. PICK ds : ds = Sent(es, k, msg)
  OBVIOUS
<1>4. /\ cs \in Seq(Conn) /\ Len(cs) = Len(conns) /\ DOMAIN cs = DOMAIN conns
      /\ Delivers(conns, cs, {}) /\ Roles(conns, cs) /\ ~In(cs[k].up, Starts)
  BY <1>1, ReadsFirst
<1>5. k \in 0..Len(cs) /\ conns \in Seq(Conn) /\ k \in DOMAIN cs /\ role \in Role
  BY <1>4, LenProperties DEF QuotaInv, Types, Role
<1>6. /\ es \in Seq(Conn) /\ Len(es) = Len(cs) /\ DOMAIN es = DOMAIN cs
      /\ Delivers(cs, es, {}) /\ es[k].code = c /\ es[k].role = role
      /\ \A i \in DOMAIN cs : i # k => es[i].code = cs[i].code /\ es[i].role = cs[i].role
  <2>1. cs \in Seq(Conn) /\ k \in DOMAIN cs /\ c \in Nat /\ role \in Role
    BY <1>4, <1>5
  <2>2. Marks(cs, Marked(cs, k, c, role), k, c, role)
    BY <2>1, MarkedDelivers
  <2> QED
    BY <1>2, <2>2 DEF Marks
<1>7. Delivers(es, ds, {<<k, msg>>}) /\ Roles(es, ds)
  BY <1>3, <1>4, <1>5, <1>6, SentDelivers
<1>8. Delivers(conns, es, {} \cup {})
  BY <1>4, <1>6, DeliversTwice
<1>9. Delivers(conns, ds, ({} \cup {}) \cup {<<k, msg>>})
  BY <1>7, <1>8, DeliversTwice
<1>10. Delivers(conns, ds, {<<k, msg>>})
  BY <1>9
<1>11. ds \in Seq(Conn) /\ Len(ds) = Len(conns) /\ DOMAIN ds = DOMAIN conns
  BY <1>10 DEF Delivers
<1>12. ds[k].code = c /\ ds[k].role = role
       /\ \A i \in DOMAIN conns : i # k => ds[i].code = conns[i].code /\ ds[i].role = conns[i].role
  BY <1>4, <1>5, <1>6, <1>7 DEF Roles
<1>13. ~In(ds[k].up, Starts)
  BY <1>4, <1>5, <1>6, <1>7 DEF Delivers, Less
<1> QED
  BY <1>1, <1>2, <1>3, <1>10, <1>11, <1>12, <1>13

LEMMA CreatePaced ==
  ASSUME QuotaInv, PacedInv, NEW k \in DOMAIN conns, conns[k].up # <<>>,
         Head(conns[k].up).type = "create", HandleCreate(k, Popped(k)),
         UNCHANGED <<hook, exporting, verifying, writing, taken, acked>>
  PROVE  PacedInv'
<1>1. CASE conns' = Sent(Popped(k), k, Msg("error", 0)) /\ UNCHANGED relayVars
  BY <1>1, RefusePaced DEF relayVars
<1>2. CASE ~(conns' = Sent(Popped(k), k, Msg("error", 0)) /\ UNCHANGED relayVars)
  <2>1. PICK c : c = issued + 1
    OBVIOUS
  <2>2. PICK msg : msg = Msg("created", c)
    OBVIOUS
  <2>3. c \in Nat /\ msg \in Frame /\ msg.type = "created" /\ c \notin DOMAIN transfers
    <3>1. issued \in Nat /\ DOMAIN transfers \subseteq 1..issued
      BY DEF QuotaInv, Types, RelayTypes
    <3> QED
      BY <2>1, <2>2, <3>1, MsgFrame, MsgIs
  <2>4. /\ conns' = Sent(Marked(Popped(k), k, c, "sender"), k, msg)
        /\ transfers' = [e \in DOMAIN transfers \cup {c} |->
                           IF e = c THEN [sender |-> k, receiver |-> 0] ELSE transfers[e]]
    BY <1>2, <2>1, <2>2 DEF HandleCreate, NewCode, Marked
  <2>5. Head(conns[k].up) \in Starts /\ In(conns[k].up, Starts)
    BY ReadsFirst DEF Starts
  <2>6. /\ Delivers(conns, conns', {<<k, msg>>}) /\ conns'[k].code = c /\ conns'[k].role = "sender"
        /\ ~In(conns'[k].up, Starts)
        /\ \A i \in DOMAIN conns : i # k => conns'[i].code = conns[i].code /\ conns'[i].role = conns[i].role
    BY <2>3, <2>4, <2>5, MarkTells
  <2>7. \A i \in DOMAIN conns : Keeps(i)
    BY <2>5, <2>6, AsksAside DEF Keeps
  <2>8. CodesOK'
    <3>1. ASSUME NEW e \in DOMAIN transfers'
          PROVE  /\ conns'[transfers'[e].sender].role = "sender" /\ conns'[transfers'[e].sender].code = e
                 /\ transfers'[e].receiver # 0 => /\ conns'[transfers'[e].receiver].role = "receiver"
                                                  /\ conns'[transfers'[e].receiver].code = e
      <4>1. CASE e = c
        BY <2>4, <2>6, <3>1, <4>1
      <4>2. CASE e # c
        <5>1. e \in DOMAIN transfers /\ transfers'[e] = transfers[e]
          BY <2>4, <3>1, <4>2
        <5> QED
          BY <2>7, <5>1, CodesStay DEF PacedInv
      <4> QED
        BY <4>1, <4>2
    <3> QED
      BY <3>1 DEF CodesOK
  <2>9. \A i \in DOMAIN conns, m \in Frame : <<i, m>> \in {<<k, msg>>} => DownOK(i, m)'
    BY <2>3, <2>6 DEF DownOK
  <2>10. \A i \in DOMAIN conns : In(conns'[i].up, Starts) =>
           /\ conns'[i].role = conns[i].role /\ conns'[i].code = conns[i].code
           /\ \A m : <<i, m>> \notin {<<k, msg>>}
    BY <2>6
  <2>11. \A i \in DOMAIN conns : conns'[i].role = "receiver" =>
           conns[i].role = "receiver" /\ conns'[i].code = conns[i].code
    BY <2>6
  <2> QED
    BY <2>6, <2>7, <2>8, <2>9, <2>10, <2>11, RelayPaced
<1> QED
  BY <1>1, <1>2

\* The relay lets a device in: it is told so, and the sender of the code too.
LEMMA JoinPaced ==
  ASSUME QuotaInv, PacedInv, NEW k \in DOMAIN conns, conns[k].up # <<>>,
         Head(conns[k].up).type = "join", HandleJoin(k, Head(conns[k].up).code, Popped(k)),
         UNCHANGED <<hook, exporting, verifying, writing, taken, acked>>
  PROVE  PacedInv'
<1>1. CASE conns' = Sent(Popped(k), k, Msg("error", 0)) /\ UNCHANGED relayVars
  BY <1>1, RefusePaced DEF relayVars
<1>2. CASE ~(conns' = Sent(Popped(k), k, Msg("error", 0)) /\ UNCHANGED relayVars)
  <2>1. PICK join : join = Head(conns[k].up)
    OBVIOUS
  <2>2. PICK c : c = join.code
    OBVIOUS
  <2>3. PICK l : l = transfers[c].sender
    OBVIOUS
  <2>4. PICK yes, tell : yes = Msg("joined", c) /\ tell = Msg("peer_joined", c)
    OBVIOUS
  <2>5. PICK ds : ds = Sent(Marked(Popped(k), k, c, "receiver"), k, yes)
    OBVIOUS
  <2>6. /\ c \in DOMAIN transfers /\ transfers' = [transfers EXCEPT ![c].receiver = k]
        /\ conns' = Sent(ds, l, tell)
    BY <1>2, <2>1, <2>2, <2>3, <2>4, <2>5 DEF HandleJoin, MayJoin, Marked
  <2>7. join \in Frame /\ join.type = "join" /\ join \in Starts /\ In(conns[k].up, {join})
    BY <2>1, ReadsFirst DEF Starts
  <2>8. join \in Joins /\ In(conns[k].up, Starts)
    BY <2>1, <2>7, ReadsFirst DEF Joins
  <2>9. c \in Nat /\ conns \in Seq(Conn) /\ l \in DOMAIN conns /\ l \in 0..Len(conns)
    <3>1. issued \in Nat /\ DOMAIN transfers \subseteq 1..issued
      BY DEF QuotaInv, Types, RelayTypes
    <3>2. l \in DOMAIN conns /\ conns \in Seq(Conn)
      BY <2>3, <2>6 DEF QuotaInv, Types, Places, RelayPlaces
    <3> QED
      BY <2>6, <3>1, <3>2, LenProperties
  <2>10. yes \in Frame /\ yes.type = "joined" /\ tell \in Frame /\ tell.type = "peer_joined" /\ tell.code = c
    BY <2>4, <2>9, MsgFrame, MsgIs
  <2>11. /\ ds \in Seq(Conn) /\ Len(ds) = Len(conns) /\ DOMAIN ds = DOMAIN conns
         /\ Delivers(conns, ds, {<<k, yes>>}) /\ ds[k].code = c /\ ds[k].role = "receiver"
         /\ ~In(ds[k].up, Starts)
         /\ \A i \in DOMAIN conns : i # k => ds[i].code = conns[i].code /\ ds[i].role = conns[i].role
    BY <2>1, <2>5, <2>7, <2>9, <2>10, MarkTells
  <2>12. Delivers(ds, conns', {<<l, tell>>}) /\ Roles(ds, conns')
    BY <2>6, <2>9, <2>10, <2>11, SentDelivers
  <2>13. PICK J : J = {<<k, yes>>} \cup {<<l, tell>>}
    OBVIOUS
  <2>14. Delivers(conns, conns', J)
    BY <2>11, <2>12, <2>13, DeliversTwice
  <2>15. /\ conns'[k].code = c /\ conns'[k].role = "receiver" /\ ~In(conns'[k].up, Starts)
         /\ \A i \in DOMAIN conns :
              i # k => conns'[i].code = conns[i].code /\ conns'[i].role = conns[i].role
    BY <2>11, <2>12 DEF Roles, Delivers, Less
  <2>16. \A i \in DOMAIN conns : Keeps(i)
    BY <2>8, <2>15, AsksAside DEF Keeps
  <2>17. conns'[l].role = "sender" /\ conns'[l].code = c
    BY <2>3, <2>6, <2>16, CodesStay DEF PacedInv
  <2>18. CodesOK'
    <3>1. ASSUME NEW e \in DOMAIN transfers'
          PROVE  /\ conns'[transfers'[e].sender].role = "sender" /\ conns'[transfers'[e].sender].code = e
                 /\ transfers'[e].receiver # 0 => /\ conns'[transfers'[e].receiver].role = "receiver"
                                                  /\ conns'[transfers'[e].receiver].code = e
      <4>1. e \in DOMAIN transfers /\ transfers \in [DOMAIN transfers -> [sender : Nat, receiver : Nat]]
        BY <2>6, <3>1 DEF QuotaInv, Types, RelayTypes
      <4>2. CASE e = c
        <5>1. transfers'[e].sender = l /\ transfers'[e].receiver = k
          BY <2>3, <2>6, <4>1, <4>2
        <5> QED
          BY <2>15, <2>17, <4>2, <5>1
      <4>3. CASE e # c
        <5>1. transfers'[e] = transfers[e]
          BY <2>6, <4>1, <4>3
        <5> QED
          BY <2>16, <4>1, <5>1, CodesStay DEF PacedInv
      <4> QED
        BY <4>2, <4>3
    <3> QED
      BY <3>1 DEF CodesOK
  <2>19. \A i \in DOMAIN conns, m \in Frame : <<i, m>> \in J => DownOK(i, m)'
    <3>1. DownOK(k, yes)'
      BY <2>10 DEF DownOK
    <3>2. DownOK(l, tell)'
      BY <2>10, <2>17 DEF DownOK
    <3> QED
      BY <2>13, <3>1, <3>2
  <2>20. \A i \in DOMAIN conns : In(conns'[i].up, Starts) =>
           /\ conns'[i].role = conns[i].role /\ conns'[i].code = conns[i].code
           /\ \A m : <<i, m>> \notin J
    <3>1. ASSUME NEW i \in DOMAIN conns, In(conns'[i].up, Starts)
          PROVE  i # k /\ i # l
      <4>1. In(conns[i].up, Starts)
        BY <2>14, <3>1 DEF Delivers, Less
      <4>2. i # l
        BY <2>3, <2>6, <4>1, AsksAside
      <4> QED
        BY <2>15, <3>1, <4>2
    <3> QED
      BY <2>13, <2>15, <3>1
  <2>21. \A i \in DOMAIN conns : conns'[i].role = "receiver" =>
           \/ conns[i].role = "receiver" /\ conns'[i].code = conns[i].code
           \/ \E m \in Joins : In(conns[i].up, {m}) /\ m.code = conns'[i].code
    BY <2>2, <2>7, <2>8, <2>15
  <2> QED
    BY <2>14, <2>16, <2>18, <2>19, <2>20, <2>21, RelayPaced
<1> QED
  BY <1>1, <1>2

\* Anything else is passed on to the other side of its code.
LEMMA ForwardPaced ==
  ASSUME QuotaInv, PacedInv, NEW k \in DOMAIN conns, conns[k].up # <<>>,
         Head(conns[k].up).type \notin {"create", "join"},
         Forward(k, Head(conns[k].up), Popped(k)),
         UNCHANGED <<hook, exporting, verifying, writing, taken, acked>>
  PROVE  PacedInv'
<1>1. CASE conns' = Sent(Popped(k), k, Msg("error", 0))
  BY <1>1, RefusePaced DEF Forward, relayVars
<1>2. CASE conns' # Sent(Popped(k), k, Msg("error", 0))
  <2>1. PICK msg : msg = Head(conns[k].up)
    OBVIOUS
  <2>2. PICK c : c = msg.code
    OBVIOUS
  <2>3. PICK r : r = IF msg.type = "ack" THEN transfers[c].sender ELSE transfers[c].receiver
    OBVIOUS
  <2>4. PICK cs : cs = Popped(k)
    OBVIOUS
  <2>5. /\ c \in DOMAIN transfers /\ conns[k].code = c /\ conns' = Sent(cs, r, msg)
        /\ transfers' = transfers
    BY <1>2, <2>1, <2>2, <2>3, <2>4 DEF Forward, Mine, relayVars
  <2>6. /\ cs \in Seq(Conn) /\ Len(cs) = Len(conns) /\ DOMAIN cs = DOMAIN conns
        /\ Delivers(conns, cs, {}) /\ Roles(conns, cs) /\ msg \in Frame /\ UpOK(k, msg)
    BY <2>1, <2>4, ReadsFirst
  <2>7. msg.type \in {"begin", "chunk", "ack"}
    BY <2>1, <2>6 DEF UpOK
  <2>8. r \in 0..Len(conns) /\ (r # 0 => r \in DOMAIN conns)
    <3>1. transfers[c].sender \in DOMAIN conns /\ transfers[c].receiver \in DOMAIN conns \cup {0}
      BY <2>5 DEF QuotaInv, Places, RelayPlaces
    <3>2. conns \in Seq(Conn)
      BY DEF QuotaInv, Types
    <3> QED
      BY <2>3, <3>1, <3>2, LenProperties
  <2>9. Delivers(cs, conns', {<<r, msg>>}) /\ Roles(cs, conns')
    BY <2>5, <2>6, <2>8, SentDelivers
  <2>10. Delivers(conns, conns', {} \cup {<<r, msg>>}) /\ Roles(conns, conns')
    BY <2>6, <2>9, DeliversTwice DEF Roles
  <2>11. Delivers(conns, conns', {<<r, msg>>})
    BY <2>10
  <2>12. \A i \in DOMAIN conns : Keeps(i)
    BY <2>10 DEF Roles, Keeps
  <2>13. CodesOK'
    BY <2>5, <2>10, CodesKept DEF PacedInv
  <2>14. \A i \in DOMAIN conns, m \in Frame : <<i, m>> \in {<<r, msg>>} => DownOK(i, m)'
    <3>1. ASSUME r \in DOMAIN conns PROVE DownOK(r, msg)'
      <4>1. r # 0 => conns[r].code = c /\ (msg.type = "ack" => conns[r].role = "sender")
            /\ (msg.type # "ack" => conns[r].role = "receiver")
        BY <2>3, <2>5 DEF PacedInv, CodesOK
      <4>2. r # 0
        BY <3>1, LenProperties DEF QuotaInv, Types
      <4>3. \A s : Right(k, s) => Right(r, s)
        BY <2>5, <4>1, <4>2 DEF Right
      <4>4. DownOK(r, msg)
        BY <2>6, <2>7, <4>1, <4>2, <4>3 DEF UpOK, DownOK, Known
      <4>5. Gains
        BY TakenSame
      <4> QED
        BY <2>6, <2>12, <3>1, <4>4, <4>5, OKLasts
    <3> QED
      BY <3>1
  <2>15. \A i \in DOMAIN conns : In(conns'[i].up, Starts) =>
           /\ conns'[i].role = conns[i].role /\ conns'[i].code = conns[i].code
           /\ \A m : <<i, m>> \notin {<<r, msg>>}
    <3>1. ASSUME NEW i \in DOMAIN conns, In(conns'[i].up, Starts) PROVE i # r
      <4>1. In(conns[i].up, Starts)
        BY <2>11, <3>1 DEF Delivers, Less
      <4> QED
        BY <2>3, <2>5, <4>1, AsksAside
    <3> QED
      BY <2>10, <3>1 DEF Roles
  <2>16. \A i \in DOMAIN conns : conns'[i].role = "receiver" =>
           conns[i].role = "receiver" /\ conns'[i].code = conns[i].code
    BY <2>10 DEF Roles
  <2> QED
    BY <2>11, <2>12, <2>13, <2>14, <2>15, <2>16, RelayPaced
<1> QED
  BY <1>1, <1>2

LEMMA HandlePaced ==
  ASSUME QuotaInv, PacedInv, NEW k \in DOMAIN conns, Handle(k) PROVE PacedInv'
<1>1. /\ conns[k].up # <<>>
      /\ UNCHANGED <<hook, exporting, verifying, writing, taken, acked>>
      /\ \/ Head(conns[k].up).type = "create" /\ HandleCreate(k, Popped(k))
         \/ Head(conns[k].up).type = "join" /\ HandleJoin(k, Head(conns[k].up).code, Popped(k))
         \/ /\ Head(conns[k].up).type \notin {"create", "join"}
            /\ Forward(k, Head(conns[k].up), Popped(k))
  BY DEF Handle, Popped, dataVars
<1> QED
  BY <1>1, CreatePaced, JoinPaced, ForwardPaced

\* A transfer is removed, and whoever is left is told.
LEMMA RemovePaced ==
  ASSUME QuotaInv, PacedInv, NEW c, NEW cs, AllKept(conns, cs), RemoveCode(c, cs),
         UNCHANGED <<hook, exporting, verifying, writing, taken, acked>>
  PROVE  PacedInv'
<1>1. /\ cs \in Seq(Conn) /\ Len(cs) = Len(conns) /\ DOMAIN cs = DOMAIN conns
      /\ Roles(conns, cs) /\ Delivers(conns, cs, {})
  <2>1. Kept(conns, cs, {})
    BY DEF AllKept
  <2> QED
    BY <2>1, KeptDelivers DEF AllKept, Kept
<1>2. PICK msg : msg = Msg("cancelled", c)
  OBVIOUS
<1>3. msg.type = "cancelled"
  BY <1>2, MsgIs
<1>4. \E J : /\ Delivers(conns, conns', J) /\ Roles(conns, conns')
             /\ \A i, m : <<i, m>> \in J => m = msg /\ c \in DOMAIN transfers
                                           /\ i \in {transfers[c].sender, transfers[c].receiver}
  <2>1. CASE c \notin DOMAIN transfers
    <3>1. conns' = cs
      BY <2>1 DEF RemoveCode
    <3> QED
      BY <1>1, <3>1
  <2>2. CASE c \in DOMAIN transfers
    <3>1. PICK l, r : l = transfers[c].sender /\ r = transfers[c].receiver
      OBVIOUS
    <3>2. PICK ds : ds = Sent(cs, l, msg)
      OBVIOUS
    <3>3. conns' = Sent(ds, r, msg)
      BY <1>2, <2>2, <3>1, <3>2 DEF RemoveCode
    <3>4. l \in 0..Len(cs) /\ r \in 0..Len(cs)
      <4>1. l \in DOMAIN conns /\ r \in DOMAIN conns \cup {0} /\ conns \in Seq(Conn)
        BY <2>2, <3>1 DEF QuotaInv, Types, Places, RelayPlaces
      <4> QED
        BY <1>1, <4>1, LenProperties
    <3>5. msg \in Frame
      <4>1. c \in Nat
        BY <2>2 DEF QuotaInv, Types, RelayTypes
      <4> QED
        BY <1>2, <4>1, MsgFrame
    <3>6. Delivers(cs, ds, {<<l, msg>>}) /\ Roles(cs, ds)
      BY <1>1, <3>2, <3>4, <3>5, SentDelivers
    <3>7. ds \in Seq(Conn) /\ Len(ds) = Len(cs) /\ DOMAIN ds = DOMAIN cs
      BY <3>6 DEF Delivers
    <3>8. Delivers(ds, conns', {<<r, msg>>}) /\ Roles(ds, conns')
      BY <1>1, <3>3, <3>4, <3>5, <3>7, SentDelivers
    <3>9. Delivers(conns, ds, {} \cup {<<l, msg>>})
      BY <1>1, <3>6, DeliversTwice
    <3>10. Delivers(conns, conns', ({} \cup {<<l, msg>>}) \cup {<<r, msg>>})
      BY <3>8, <3>9, DeliversTwice
    <3>11. Roles(conns, conns')
      BY <1>1, <3>6, <3>7, <3>8 DEF Roles
    <3> QED
      BY <2>2, <3>1, <3>10, <3>11
  <2> QED
    BY <2>1, <2>2
<1>5. PICK J : /\ Delivers(conns, conns', J) /\ Roles(conns, conns')
               /\ \A i, m : <<i, m>> \in J => m = msg /\ c \in DOMAIN transfers
                                             /\ i \in {transfers[c].sender, transfers[c].receiver}
  BY <1>4
<1>6. \A i \in DOMAIN conns : Keeps(i)
  BY <1>5 DEF Roles, Keeps
<1>7. CodesOK'
  <2>1. \A e \in DOMAIN transfers' : e \in DOMAIN transfers /\ transfers'[e] = transfers[e]
    BY DEF RemoveCode
  <2>2. ASSUME NEW e \in DOMAIN transfers'
        PROVE  /\ conns'[transfers'[e].sender].role = "sender" /\ conns'[transfers'[e].sender].code = e
               /\ transfers'[e].receiver # 0 => /\ conns'[transfers'[e].receiver].role = "receiver"
                                                /\ conns'[transfers'[e].receiver].code = e
    <3>1. e \in DOMAIN transfers /\ transfers'[e] = transfers[e]
      BY <2>1
    <3> QED
      BY <1>6, <3>1, CodesStay DEF PacedInv
  <2> QED
    BY <2>2 DEF CodesOK
<1>8. \A i \in DOMAIN conns, m \in Frame : <<i, m>> \in J => DownOK(i, m)'
  BY <1>3, <1>5 DEF DownOK
<1>9. \A i \in DOMAIN conns : In(conns'[i].up, Starts) =>
           /\ conns'[i].role = conns[i].role /\ conns'[i].code = conns[i].code
           /\ \A m : <<i, m>> \notin J
  <2>1. ASSUME NEW i \in DOMAIN conns, In(conns'[i].up, Starts) PROVE \A m : <<i, m>> \notin J
    <3>1. In(conns[i].up, Starts)
      BY <1>5, <2>1 DEF Delivers, Less
    <3> QED
      BY <1>5, <3>1, AsksAside
  <2> QED
    BY <1>5, <2>1 DEF Roles
<1>10. \A i \in DOMAIN conns : conns'[i].role = "receiver" =>
           conns[i].role = "receiver" /\ conns'[i].code = conns[i].code
  BY <1>5 DEF Roles
<1> QED
  BY <1>5, <1>6, <1>7, <1>8, <1>9, <1>10, RelayPaced

LEMMA EndedPaced ==
  ASSUME QuotaInv, PacedInv, (\E k \in DOMAIN conns : Close(k)) \/ (\E c \in Code : Expire(c))
  PROVE  PacedInv'
<1>0. conns \in Seq(Conn)
  BY DEF QuotaInv, Types
<1>1. ASSUME NEW k \in DOMAIN conns, Close(k) PROVE PacedInv'
  <2>1. PICK cs : cs = [conns EXCEPT ![k].served = FALSE, ![k].up = <<>>]
    OBVIOUS
  <2>2. /\ RemoveCode(conns[k].code, cs)
        /\ UNCHANGED <<hook, exporting, verifying, writing, taken, acked>>
    BY <1>1, <2>1 DEF Close, dataVars
  <2>3. AllKept(conns, cs)
    BY <1>0, <2>1, FewerMoved
  <2> QED
    BY <2>2, <2>3, RemovePaced
<1>2. ASSUME NEW c \in Code, Expire(c) PROVE PacedInv'
  <2>1. RemoveCode(c, conns) /\ UNCHANGED <<hook, exporting, verifying, writing, taken, acked>>
    BY <1>2 DEF Expire, dataVars
  <2> QED
    BY <1>0, <2>1, SameMoved, RemovePaced
<1> QED
  BY <1>1, <1>2

LEMMA OneAsk ==
  ASSUME NEW msg PROVE /\ FirstIn(Alone(msg), Starts)
                       /\ \A M : In(Alone(msg), M) => msg \in M
<1>1. Alone(msg) = <<msg>> /\ DOMAIN <<msg>> = {1} /\ <<msg>>[1] = msg
  BY DEF Alone
<1> QED
  BY <1>1 DEF FirstIn, In

\* A hook at rest opens a socket and asks for a code, or to be let in with one.
LEMMA ConnectPaced ==
  ASSUME QuotaInv, PacedInv, NEW d \in Device, NEW t \in {"create", "join"}, NEW c \in Nat,
         NEW code \in 0..issued, Connect(d, Msg(t, c), code), t = "join" => code = c
  PROVE  PacedInv'
<1>1. PICK n : n = Len(conns) + 1
  OBVIOUS
<1>2. PICK msg : msg = Msg(t, c)
  OBVIOUS
<1>3. Opens(d, msg, code, n)
  BY <1>1, <1>2, ConnectFacts
<1>4. /\ UNCHANGED <<transfers, exporting, verifying, writing, taken, acked>>
      /\ hook[d].status = "idle"
      /\ hook' = [hook EXCEPT ![d].status = "connecting", ![d].ws = Len(conns) + 1,
                              ![d].quiet = FALSE, ![d].code = code]
  BY DEF Connect, relayVars, dataVars
<1>5. /\ conns'[n].up = Alone(msg) /\ conns'[n].down = <<>> /\ conns'[n].role = "none"
      /\ conns'[n].code = 0 /\ DOMAIN conns' = DOMAIN conns \cup {n} /\ n \notin DOMAIN conns
      /\ \A k \in DOMAIN conns : conns'[k] = conns[k]
      /\ \A e \in Device : e # d => hook'[e] = hook[e]
      /\ hook'[d].ws = n /\ hook'[d].code = code /\ hook'[d].status = "connecting"
      /\ hook'[d].recv = NoRecv
  BY <1>3 DEF Opens
<1>6. msg \in Frame /\ msg.type = t /\ msg.code = c
  BY <1>2, MsgFrame, MsgIs
<1>7. Gains /\ OneTaken' /\ AckedOK'
  BY <1>4, TakenSame DEF PacedInv
<1>8. \A k \in DOMAIN conns : Keeps(k)
  BY <1>5 DEF Keeps
<1>9. \A M : (In(conns'[n].up, M) => msg \in M) /\ ~In(conns'[n].down, M)
  BY <1>5, OneAsk, NoneIn
<1>10. QueuesOK'
  <2>1. ASSUME NEW k \in DOMAIN conns, NEW m \in Frame
        PROVE  /\ In(conns'[k].up, {m}) => UpOK(k, m)'
               /\ In(conns'[k].down, {m}) => DownOK(k, m)'
    BY <1>5, <1>7, <1>8, OKLasts DEF PacedInv, QueuesOK
  <2>2. ASSUME NEW m \in Frame, In(conns'[n].up, {m}) PROVE UpOK(n, m)'
    <3>1. m = msg
      BY <1>9, <2>2
    <3> QED
      BY <1>6, <3>1 DEF UpOK
  <2> QED
    BY <1>5, <1>9, <2>1, <2>2 DEF QueuesOK
<1>11. FreshOK'
  <2>1. FirstIn(conns'[n].up, Starts)
    BY <1>5, OneAsk
  <2> QED
    BY <1>5, <2>1 DEF PacedInv, FreshOK
<1>12. CodesOK'
  <2>1. ASSUME NEW e \in DOMAIN transfers
        PROVE  /\ conns'[transfers[e].sender].role = "sender" /\ conns'[transfers[e].sender].code = e
               /\ transfers[e].receiver # 0 => /\ conns'[transfers[e].receiver].role = "receiver"
                                               /\ conns'[transfers[e].receiver].code = e
    BY <1>8, CodesStay DEF PacedInv
  <2> QED
    BY <1>4, <2>1 DEF CodesOK
<1>13. ASSUME NEW e \in Device, e # d PROVE HookOK(e)'
  <2>1. HookOK(e) /\ Other(e) /\ (hook[e].ws # 0 => hook[e].ws \in DOMAIN conns)
    <3>1. hook[e].ws \in 0..Len(conns) /\ conns \in Seq(Conn)
      BY HookFields
    <3>2. hook[e].ws # 0 => hook[e].ws \in DOMAIN conns
      BY <3>1, LenProperties
    <3>3. hook'[e] = hook[e]
      BY <1>5, <1>13
    <3>4. Other(e)
      BY <1>4, <3>3 DEF Other
    <3> QED
      BY <3>2, <3>4 DEF PacedInv
  <2>2. Enters(e)'
    BY <1>5, <1>13, <2>1 DEF HookOK, Enters
  <2> QED
    BY <1>7, <1>8, <2>1, <2>2, OtherKept
<1>14. HookOK(d)'
  <2>1. Shows(d) /\ hook \in [Device -> Hook]
    BY DEF PacedInv, HookOK, QuotaInv, Types
  <2>2. hook'[d].chunks = <<>> /\ hook'[d].payload = <<>>
    BY <1>4, <2>1 DEF Shows, Hook
  <2>3. exporting'[d] = {} /\ verifying'[d] = {} /\ \A w \in writing'[d] : ~w.told
    BY <1>4, <2>1 DEF Shows
  <2>4. Sends(d)' /\ Receives(d)'
    BY <1>5, <2>2, <2>3 DEF Sends, Receives, Receiving
  <2>5. Shows(d)'
    BY <1>5, <2>3, ShowsLittle
  <2>6. Enters(d)'
    <3>1. \A m \in Joins : In(conns'[n].up, {m}) => m.code = code
      BY <1>6, <1>9 DEF Joins
    <3> QED
      BY <1>5, <3>1 DEF Enters
  <2> QED
    BY <2>4, <2>5, <2>6 DEF HookOK
<1> QED
  BY <1>7, <1>10, <1>11, <1>12, <1>13, <1>14 DEF PacedInv

LEMMA StartPaced ==
  ASSUME QuotaInv, PacedInv, NEW d \in Device, StartSend(d) \/ \E c \in Code : StartReceive(d, c)
  PROVE  PacedInv'
<1>1. hook[d].code \in 0..issued /\ issued \in Nat /\ shown \subseteq 1..issued
  BY HookFields DEF QuotaInv, Types, WorkTypes
<1>2. CASE StartSend(d)
  BY <1>1, <1>2, ConnectPaced DEF StartSend
<1>3. ASSUME NEW c \in Code, StartReceive(d, c) PROVE PacedInv'
  <2>1. c \in Nat /\ c \in 0..issued /\ Connect(d, Msg("join", c), c)
    BY <1>1, <1>3 DEF StartReceive
  <2> QED
    BY <2>1, ConnectPaced
<1> QED
  BY <1>2, <1>3

LEMMA StutterPaced == ASSUME PacedInv, UNCHANGED vars PROVE PacedInv'
<1>1. UNCHANGED <<transfers, conns, hook, exporting, verifying, writing, taken, acked>>
  BY DEF vars, relayVars, dataVars
<1>2. OneTaken' /\ AckedOK'
  BY <1>1, TakenSame DEF PacedInv
<1>3. \A s : IsTaken(s)' = IsTaken(s)
  BY <1>1 DEF IsTaken
<1>4. \A k : \A s : Right(k, s)' = Right(k, s)
  BY <1>1, <1>3 DEF Right
<1>5. \A k : \A m : UpOK(k, m)' = UpOK(k, m) /\ DownOK(k, m)' = DownOK(k, m)
  BY <1>1, <1>4 DEF UpOK, DownOK, InPlace, Known
<1>6. QueuesOK'
  BY <1>1, <1>5 DEF PacedInv, QueuesOK
<1>7. FreshOK' /\ CodesOK'
  BY <1>1 DEF PacedInv, FreshOK, CodesOK
<1>8. ASSUME NEW d \in Device PROVE HookOK(d)'
  <2>1. HookOK(d)
    BY DEF PacedInv
  <2>2. \A s : Came(d, s)' = Came(d, s)
    BY <1>1, <1>3 DEF Came
  <2>3. Sends(d)'
    BY <1>1, <1>3, <2>1 DEF HookOK, Sends, As, OfCode
  <2>4. Receives(d)'
    BY <1>1, <2>1, <2>2 DEF HookOK, Receives, Receiving, As, Partly
  <2>5. Enters(d)' /\ Shows(d)'
    BY <1>1, <2>1 DEF HookOK, Enters, Shows
  <2> QED
    BY <2>3, <2>4, <2>5 DEF HookOK
<1> QED
  BY <1>2, <1>6, <1>7, <1>8 DEF PacedInv

LEMMA PacedNext ==
  ~Hasty /\ QuotaInv /\ PromiseInv /\ PacedInv /\ [Next]_vars => PacedInv'
<1> SUFFICES ASSUME ~Hasty, QuotaInv, PromiseInv, PacedInv, [Next]_vars PROVE PacedInv'
  OBVIOUS
<1>1. CASE UNCHANGED vars
  BY <1>1, StutterPaced
<1>2. ASSUME NEW d \in Device, Receive(d) \/ Background(d) \/ User(d) PROVE PacedInv'
  BY <1>2, HookPaced, StartPaced DEF User
<1>3. ASSUME NEW k \in DOMAIN conns, Handle(k) \/ Close(k) \/ OnClose(k) PROVE PacedInv'
  BY <1>3, HandlePaced, EndedPaced, ClosedPaced
<1>4. ASSUME NEW c \in Code, Expire(c) PROVE PacedInv'
  BY <1>4, EndedPaced
<1> QED
  BY <1>1, <1>2, <1>3, <1>4 DEF Next

LEMMA PacedInit == Init => PacedInv
<1> SUFFICES ASSUME Init PROVE PacedInv
  OBVIOUS
<1>1. DOMAIN <<>> = {}
  OBVIOUS
<1>2. /\ DOMAIN conns = {} /\ DOMAIN transfers = {} /\ acked = {}
      /\ \A d \in Device : /\ exporting[d] = {} /\ verifying[d] = {} /\ writing[d] = {}
                           /\ taken[d] = {} /\ hook[d] = Idle
  BY <1>1 DEF Init
<1>3. /\ Idle.status = "idle" /\ Idle.ws = 0 /\ Idle.chunks = <<>> /\ Idle.recv = NoRecv
      /\ Idle.payload = <<>>
  BY DEF Idle
<1>4. \A s : ~IsTaken(s)
  BY <1>2 DEF IsTaken, Snapshot
<1>5. OneTaken /\ QueuesOK /\ FreshOK /\ CodesOK /\ AckedOK
  BY <1>2, <1>4 DEF OneTaken, QueuesOK, FreshOK, CodesOK, AckedOK
<1>6. ASSUME NEW d \in Device PROVE HookOK(d)
  BY <1>2, <1>3 DEF HookOK, Sends, Enters, Receives, Receiving, Shows
<1> QED
  BY <1>5, <1>6 DEF PacedInv

-----------------------------------------------------------------------------
(***************************************************************************)
(* What a screen says is so: nothing goes on behind it.                    *)
(***************************************************************************)
\* Sockets stay what they are, but for closing.
Steady(cs, ds) == /\ DOMAIN ds = DOMAIN cs
                 /\ \A i \in DOMAIN cs : ds[i].by = cs[i].by /\ ds[i].end = cs[i].end
Fewer(cs, ds) == /\ DOMAIN ds = DOMAIN cs
                 /\ \A i \in DOMAIN cs : ds[i].by = cs[i].by /\ ds[i].end \in {cs[i].end, "closed"}

LEMMA SentSteady ==
  ASSUME NEW cs \in Seq(Conn), NEW k, NEW msg PROVE Steady(cs, Sent(cs, k, msg))
<1>1. cs \in [DOMAIN cs -> Conn]
  BY LenProperties
<1>2. \A i \in DOMAIN cs : cs[i] \in Conn
  BY <1>1
<1> QED
  BY <1>1, <1>2 DEF Steady, Conn, Sent

LEMMA PostedSteady ==
  ASSUME NEW cs \in Seq(Conn), NEW k, NEW msgs PROVE Steady(cs, Posted(cs, k, msgs))
<1>1. cs \in [DOMAIN cs -> Conn]
  BY LenProperties
<1>2. \A i \in DOMAIN cs : cs[i] \in Conn
  BY <1>1
<1> QED
  BY <1>1, <1>2 DEF Steady, Conn, Posted

LEMMA DownSteady ==
  ASSUME NEW cs \in Seq(Conn), NEW k, NEW p PROVE Steady(cs, [cs EXCEPT ![k].down = p])
<1>1. cs \in [DOMAIN cs -> Conn]
  BY LenProperties
<1>2. \A i \in DOMAIN cs : cs[i] \in Conn
  BY <1>1
<1> QED
  BY <1>1, <1>2 DEF Steady, Conn

LEMMA UpSteady ==
  ASSUME NEW cs \in Seq(Conn), NEW k, NEW p PROVE Steady(cs, [cs EXCEPT ![k].up = p])
<1>1. cs \in [DOMAIN cs -> Conn]
  BY LenProperties
<1>2. \A i \in DOMAIN cs : cs[i] \in Conn
  BY <1>1
<1> QED
  BY <1>1, <1>2 DEF Steady, Conn

LEMMA MarkedSteady ==
  ASSUME NEW cs \in Seq(Conn), NEW k, NEW c, NEW role PROVE Steady(cs, Marked(cs, k, c, role))
<1>1. cs \in [DOMAIN cs -> Conn]
  BY LenProperties
<1>2. \A i \in DOMAIN cs : cs[i] \in Conn
  BY <1>1
<1> QED
  BY <1>1, <1>2 DEF Steady, Conn, Marked

LEMMA UnservedSteady ==
  ASSUME NEW cs \in Seq(Conn), NEW k PROVE Steady(cs, [cs EXCEPT ![k].served = FALSE, ![k].up = <<>>])
<1>1. cs \in [DOMAIN cs -> Conn]
  BY LenProperties
<1>2. \A i \in DOMAIN cs : cs[i] \in Conn
  BY <1>1
<1> QED
  BY <1>1, <1>2 DEF Steady, Conn

LEMMA ClosedFewer ==
  ASSUME NEW cs \in Seq(Conn), NEW k PROVE Fewer(cs, [cs EXCEPT ![k].end = "closed", ![k].down = <<>>])
<1>1. cs \in [DOMAIN cs -> Conn]
  BY LenProperties
<1>2. \A i \in DOMAIN cs : cs[i] \in Conn
  BY <1>1
<1> QED
  BY <1>1, <1>2 DEF Fewer, Conn

LEMMA SameSteady == ASSUME NEW cs PROVE Steady(cs, cs)
BY DEF Steady

LEMMA SteadyFewer == ASSUME NEW cs, NEW ds, Steady(cs, ds) PROVE Fewer(cs, ds)
BY DEF Steady, Fewer

LEMMA HungFewer ==
  ASSUME ~LateClose, NEW cs \in Seq(Conn), NEW k
  PROVE  /\ Fewer(cs, HungUp(cs, k))
         /\ k \in DOMAIN cs => HungUp(cs, k)[k].end # "open"
<1>1. k # 0 \/ k \notin DOMAIN cs
  BY LenProperties
<1>2. CASE k = 0 \/ cs[k].end # "open"
  BY <1>1, <1>2 DEF HungUp, Fewer
<1>3. CASE k # 0 /\ cs[k].end = "open"
  <2>1. HungUp(cs, k) = [cs EXCEPT ![k].end = "closed", ![k].down = <<>>]
    BY <1>3 DEF HungUp
  <2>2. cs \in [DOMAIN cs -> Conn]
    BY LenProperties
  <2>3. k \in DOMAIN cs => HungUp(cs, k)[k].end = "closed"
    BY <2>1, <2>2 DEF Conn
  <2> QED
    BY <2>1, <2>3, ClosedFewer
<1> QED
  BY <1>2, <1>3

LEMMA SteadyTwice ==
  ASSUME NEW cs, NEW ds, NEW es, Steady(cs, ds)
  PROVE  (Steady(ds, es) => Steady(cs, es)) /\ (Fewer(ds, es) => Fewer(cs, es))
BY DEF Steady, Fewer

\* What is still open is what its hook has, in flight.
LEMMA BehindKept ==
  ASSUME NoneBehind, Fewer(conns, conns'),
         \A k \in DOMAIN conns : conns'[k].end = "open" =>
           /\ hook'[conns[k].by].ws = hook[conns[k].by].ws
           /\ hook[conns[k].by].status \in InFlight => hook'[conns[k].by].status \in InFlight
  PROVE  NoneBehind'
BY DEF NoneBehind, Fewer

\* A hook keeps its socket and goes on, or hangs up and is done.
LEMMA HookBehind ==
  ASSUME QuotaInv, NoneBehind, NEW d \in Device, Fewer(conns, conns'),
         \A e \in Device : e # d => hook'[e] = hook[e],
         \/ /\ hook'[d].ws = hook[d].ws
            /\ hook[d].status \in InFlight => hook'[d].status \in InFlight
         \/ hook[d].ws \in DOMAIN conns => conns'[hook[d].ws].end # "open"
  PROVE  NoneBehind'
<1>1. \A k \in DOMAIN conns : conns[k].by \in Device
  BY ConnFields DEF QuotaInv, Types
<1>2. ASSUME NEW k \in DOMAIN conns, conns'[k].end = "open"
      PROVE  /\ hook'[conns[k].by].ws = hook[conns[k].by].ws
             /\ hook[conns[k].by].status \in InFlight => hook'[conns[k].by].status \in InFlight
  <2>1. CASE conns[k].by # d
    BY <1>1, <2>1
  <2>2. CASE conns[k].by = d
    <3>1. conns[k].end = "open"
      BY <1>2 DEF Fewer
    <3>2. hook[d].ws = k
      BY <2>2, <3>1 DEF NoneBehind
    <3> QED
      BY <1>2, <2>2, <3>2
  <2> QED
    BY <2>1, <2>2
<1> QED
  BY <1>2, BehindKept

LEMMA ReceiveBehind ==
  ASSUME ~LateClose, QuotaInv, NoneBehind, NEW d \in Device, Receive(d) PROVE NoneBehind'
<1>1. PICK ws, cs : ws = hook[d].ws /\ cs = Read(d)
  OBVIOUS
<1>2. conns \in Seq(Conn) /\ hook \in [Device -> Hook]
  BY DEF QuotaInv, Types
<1>3. Steady(conns, cs)
  BY <1>1, <1>2, DownSteady DEF Read
<1>4. cs \in Seq(Conn) /\ DOMAIN cs = DOMAIN conns
  <2>1. \E type : Got(d, type)
    BY DEF Receive, OnCreated, OnPeerJoined, OnJoined, OnAck, OnBegin, OnChunk, OnCancelled, OnError
  <2> QED
    BY <1>1, <1>3, <2>1, GotMoved DEF Steady
<1>5. CASE /\ conns' = HungUp(cs, ws) /\ \A e \in Device : e # d => hook'[e] = hook[e]
  <2>1. Fewer(cs, conns') /\ (ws \in DOMAIN cs => conns'[ws].end # "open")
    BY <1>4, <1>5, HungFewer
  <2>2. Fewer(conns, conns')
    BY <1>3, <2>1, SteadyTwice
  <2> QED
    BY <1>1, <1>4, <1>5, <2>1, <2>2, HookBehind
<1>6. CASE /\ conns' = cs \/ \E msgs : conns' = Posted(cs, ws, msgs)
           /\ \A e \in Device : e # d => hook'[e] = hook[e]
           /\ hook'[d].ws = ws /\ (hook[d].status \in InFlight => hook'[d].status \in InFlight)
  <2>1. Steady(cs, conns')
    BY <1>4, <1>6, PostedSteady, SameSteady
  <2>2. Steady(conns, conns')
    BY <1>3, <2>1, SteadyTwice
  <2>3. Fewer(conns, conns')
    BY <2>2, SteadyFewer
  <2> QED
    BY <1>1, <1>6, <2>3, HookBehind
<1>7. CASE OnCreated(d) \/ OnPeerJoined(d) \/ OnJoined(d) \/ OnBegin(d)
  <2>1. conns' = cs
    BY <1>1, <1>7 DEF OnCreated, OnPeerJoined, OnJoined, OnBegin
  <2>2. /\ \A e \in Device : e # d => hook'[e] = hook[e]
        /\ hook'[d].ws = ws /\ (hook[d].status \in InFlight => hook'[d].status \in InFlight)
    BY <1>1, <1>2, <1>7 DEF OnCreated, OnPeerJoined, OnJoined, OnBegin, InFlight, Hook
  <2> QED
    BY <1>6, <2>1, <2>2
<1>8. CASE OnAck(d)
  <2>1. \/ hook' = hook /\ (conns' = cs \/ \E msgs : conns' = Posted(cs, ws, msgs))
        \/ conns' = HungUp(cs, ws) /\ hook' = [hook EXCEPT ![d] = [Quiet(hook[d]) EXCEPT !.status = "sent"]]
    BY <1>1, <1>8 DEF OnAck
  <2> QED
    BY <1>1, <1>2, <1>5, <1>6, <2>1
<1>9. CASE OnChunk(d)
  <2>1. /\ conns' = cs \/ \E msgs : conns' = Posted(cs, ws, msgs)
        /\ hook' = hook \/ \E r : hook' = [hook EXCEPT ![d].recv = r]
    BY <1>1, <1>9 DEF OnChunk
  <2>2. /\ \A e \in Device : e # d => hook'[e] = hook[e]
        /\ hook'[d].ws = ws /\ (hook[d].status \in InFlight => hook'[d].status \in InFlight)
    BY <1>1, <1>2, <2>1 DEF Hook
  <2> QED
    BY <1>6, <2>1, <2>2
<1>10. CASE OnCancelled(d) \/ OnError(d)
  <2>1. \/ hook' = hook /\ conns' = cs
        \/ conns' = HungUp(cs, ws) /\ hook' = [hook EXCEPT ![d] = Failed(@)]
    BY <1>1, <1>10 DEF OnCancelled, OnError
  <2> QED
    BY <1>1, <1>2, <1>5, <1>6, <2>1
<1> QED
  BY <1>7, <1>8, <1>9, <1>10 DEF Receive

LEMMA EngagedBehind ==
  ASSUME ~LateClose, QuotaInv, PacedInv, NoneBehind, NEW d \in Device,
         Background(d) \/ Reset(d) \/ Leave(d) \/ Apply(d)
  PROVE  NoneBehind'
<1>1. PICK ws : ws = hook[d].ws
  OBVIOUS
<1>2. conns \in Seq(Conn) /\ hook \in [Device -> Hook]
  BY DEF QuotaInv, Types
<1>3. CASE conns' = HungUp(conns, ws) /\ \A e \in Device : e # d => hook'[e] = hook[e]
  <2>1. Fewer(conns, conns') /\ (ws \in DOMAIN conns => conns'[ws].end # "open")
    BY <1>2, <1>3, HungFewer
  <2> QED
    BY <1>1, <1>3, <2>1, HookBehind
<1>4. CASE /\ conns' = conns \/ \E msgs : conns' = Posted(conns, ws, msgs)
           /\ \A e \in Device : e # d => hook'[e] = hook[e]
           /\ hook'[d].ws = ws /\ (hook[d].status \in InFlight => hook'[d].status \in InFlight)
  <2>1. Steady(conns, conns')
    BY <1>2, <1>4, PostedSteady, SameSteady
  <2>2. Fewer(conns, conns')
    BY <2>1, SteadyFewer
  <2> QED
    BY <1>1, <1>4, <2>2, HookBehind
<1>5. ASSUME NEW c \in Code, NEW n \in 1..MaxChunks, NEW open \in BOOLEAN, ExportDone(d, c, n, open)
      PROVE  NoneBehind'
  <2>1. /\ conns' = conns \/ \E msgs : conns' = Posted(conns, ws, msgs)
        /\ \E p : hook' = [hook EXCEPT ![d].chunks = p]
    BY <1>1, <1>5 DEF ExportDone
  <2>2. /\ \A e \in Device : e # d => hook'[e] = hook[e]
        /\ hook'[d].ws = ws /\ (hook[d].status \in InFlight => hook'[d].status \in InFlight)
    BY <1>1, <1>2, <2>1 DEF Hook
  <2> QED
    BY <1>4, <2>1, <2>2
<1>6. ASSUME \/ \E c \in Code : ExportFails(d, c)
             \/ \E r \in verifying[d] : VerifyDone(d, r)
             \/ Reset(d)
      PROVE  NoneBehind'
  <2>1. conns' = HungUp(conns, ws) /\ \E h : hook' = [hook EXCEPT ![d] = h]
    BY <1>1, <1>6 DEF ExportFails, VerifyDone, Reset
  <2> QED
    BY <1>2, <1>3, <2>1
<1>7. ASSUME NEW w \in writing[d], WriteDone(d, w) PROVE NoneBehind'
  <2>1. w.told => hook[d].status = "applying"
    BY DEF PacedInv, HookOK, Shows
  <2>2. \/ conns' = conns /\ hook' = hook
        \/ conns' = conns /\ w.told /\ hook' = [hook EXCEPT ![d].status = "done"]
        \/ conns' = HungUp(conns, ws) /\ hook' = [hook EXCEPT ![d] = Failed(@)]
    BY <1>1, <1>7 DEF WriteDone
  <2>3. CASE conns' = conns /\ hook' = hook
    BY <1>1, <1>4, <2>3
  <2>4. CASE conns' = conns /\ w.told /\ hook' = [hook EXCEPT ![d].status = "done"]
    BY <1>1, <1>2, <1>4, <2>1, <2>4 DEF InFlight, Hook
  <2>5. CASE conns' = HungUp(conns, ws) /\ hook' = [hook EXCEPT ![d] = Failed(@)]
    BY <1>2, <1>3, <2>5
  <2> QED
    BY <2>2, <2>3, <2>4, <2>5
<1>8. CASE Apply(d)
  BY <1>1, <1>2, <1>4, <1>8 DEF Apply, InFlight, Hook
<1>9. CASE Leave(d)
  <2>1. /\ conns' = [k \in DOMAIN conns |->
                       IF conns[k].by = d THEN [conns[k] EXCEPT !.end = "closed", !.down = <<>>]
                                          ELSE conns[k]]
        /\ hook' = [hook EXCEPT ![d] = Idle]
    BY <1>9 DEF Leave
  <2>2. \A k \in DOMAIN conns : conns[k] \in Conn
    BY <1>2, ConnFields
  <2>3. /\ DOMAIN conns' = DOMAIN conns
        /\ \A k \in DOMAIN conns : /\ conns'[k].by = conns[k].by
                                   /\ conns'[k].end = IF conns[k].by = d THEN "closed" ELSE conns[k].end
    BY <2>1, <2>2 DEF Conn
  <2>4. Fewer(conns, conns')
    BY <2>3 DEF Fewer
  <2>5. ws \in DOMAIN conns => conns[ws].by = d
    <3>1. ws \in DOMAIN conns => ws # 0
      BY <1>2, LenProperties
    <3> QED
      BY <1>1, <3>1, HookFields DEF HookPlaces
  <2>6. ws \in DOMAIN conns => conns'[ws].end # "open"
    BY <2>3, <2>5
  <2>7. \A e \in Device : e # d => hook'[e] = hook[e]
    BY <1>2, <2>1
  <2> QED
    BY <1>1, <2>4, <2>6, <2>7, HookBehind
<1> QED
  BY <1>5, <1>6, <1>7, <1>8, <1>9 DEF Background

LEMMA StartBehind ==
  ASSUME QuotaInv, NoneBehind, NEW d \in Device, NEW msg, NEW code, Connect(d, msg, code)
  PROVE  NoneBehind'
<1>1. PICK n : n = Len(conns) + 1
  OBVIOUS
<1>2. PICK x : x = [by |-> d, up |-> <<msg>>, down |-> <<>>, end |-> "open",
                    served |-> TRUE, code |-> 0, role |-> "none"]
  OBVIOUS
<1>3. x.by = d /\ x.end = "open"
  BY <1>2
<1>4. conns \in Seq(Conn) /\ hook \in [Device -> Hook] /\ Len(conns) \in Nat
  BY LenProperties DEF QuotaInv, Types
<1>5. /\ conns' = Append(conns, x) /\ hook[d].status = "idle"
      /\ hook' = [hook EXCEPT ![d].status = "connecting", ![d].ws = Len(conns) + 1,
                              ![d].quiet = FALSE, ![d].code = code]
  BY <1>2 DEF Connect
<1>6. DOMAIN conns' = DOMAIN conns \cup {n} /\ conns'[n] = x /\ \A k \in DOMAIN conns : conns'[k] = conns[k]
  <2>1. DOMAIN conns = 1..Len(conns)
    BY <1>4, LenProperties
  <2> QED
    BY <1>1, <1>4, <1>5, <2>1
<1>7. /\ hook'[d].ws = n /\ hook'[d].status = "connecting"
      /\ \A e \in Device : e # d => hook'[e] = hook[e]
  BY <1>1, <1>4, <1>5 DEF Hook
<1>8. ASSUME NEW k \in DOMAIN conns'
      PROVE  /\ conns'[k].end # "closing"
             /\ conns'[k].end = "open" => /\ hook'[conns'[k].by].ws = k
                                          /\ hook'[conns'[k].by].status \in InFlight
  <2>1. CASE k = n
    BY <1>3, <1>6, <1>7, <2>1 DEF InFlight
  <2>2. CASE k \in DOMAIN conns
    <3>1. conns'[k] = conns[k] /\ conns[k].by \in Device
      BY <1>4, <1>6, <2>2, ConnFields
    <3>2. conns[k].end = "open" => conns[k].by # d
      BY <1>5, <2>2 DEF NoneBehind, InFlight
    <3> QED
      BY <1>7, <2>2, <3>1, <3>2 DEF NoneBehind
  <2> QED
    BY <1>6, <2>1, <2>2
<1> QED
  BY <1>8 DEF NoneBehind

LEMMA RemoveSteady ==
  ASSUME QuotaInv, NEW c, NEW cs, AllKept(conns, cs), Steady(conns, cs), RemoveCode(c, cs)
  PROVE  Steady(conns, conns')
<1>1. cs \in Seq(Conn)
  <2>1. Kept(conns, cs, {})
    BY DEF AllKept
  <2> QED
    BY <2>1 DEF Kept
<1>2. CASE c \in DOMAIN transfers
  <2>1. PICK l, r : l = transfers[c].sender /\ r = transfers[c].receiver
    OBVIOUS
  <2>2. PICK msg : msg = Msg("cancelled", c)
    OBVIOUS
  <2>3. PICK ds : ds = Sent(cs, l, msg)
    OBVIOUS
  <2>4. conns' = Sent(ds, r, msg)
    BY <1>2, <2>1, <2>2, <2>3 DEF RemoveCode
  <2>5. c \in Nat /\ l \in 0..Len(conns) /\ conns \in Seq(Conn) /\ Len(cs) = Len(conns)
    <3>1. c \in Nat /\ l \in DOMAIN conns /\ conns \in Seq(Conn)
      BY <1>2, <2>1 DEF QuotaInv, Types, RelayTypes, Places, RelayPlaces
    <3>2. Kept(conns, cs, {})
      BY DEF AllKept
    <3> QED
      BY <3>1, <3>2, LenProperties DEF Kept
  <2>6. msg \in Frame
    BY <2>2, <2>5, MsgFrame
  <2>7. ds \in Seq(Conn)
    BY <1>1, <2>3, <2>5, <2>6, SentFacts DEF Kept
  <2>8. Steady(cs, ds) /\ Steady(ds, conns')
    BY <1>1, <2>3, <2>4, <2>7, SentSteady
  <2> QED
    BY <2>8, SteadyTwice
<1>3. CASE c \notin DOMAIN transfers
  BY <1>3 DEF RemoveCode
<1> QED
  BY <1>2, <1>3

LEMMA HandleBehind ==
  ASSUME QuotaInv, PacedInv, NoneBehind, NEW k \in DOMAIN conns, Handle(k) PROVE NoneBehind'
<1>1. PICK cs : cs = Popped(k)
  OBVIOUS
<1>2. PICK msg : msg = Head(conns[k].up)
  OBVIOUS
<1>3. /\ conns[k].up # <<>> /\ hook' = hook
      /\ \/ HandleCreate(k, cs)
         \/ msg.type = "join" /\ HandleJoin(k, msg.code, cs)
         \/ Forward(k, msg, cs)
  BY <1>1, <1>2 DEF Handle, Popped
<1>4. conns \in Seq(Conn) /\ cs \in Seq(Conn) /\ DOMAIN cs = DOMAIN conns /\ Len(cs) = Len(conns)
  BY <1>1, <1>3, ReadsFirst DEF QuotaInv, Types
<1>5. Steady(conns, cs)
  BY <1>1, <1>4, UpSteady DEF Popped
<1>6. ASSUME NEW c \in Nat, NEW role \in Role
      PROVE  Marked(cs, k, c, role) \in Seq(Conn) /\ Steady(conns, Marked(cs, k, c, role))
             /\ Len(Marked(cs, k, c, role)) = Len(conns)
  <2>1. Marks(cs, Marked(cs, k, c, role), k, c, role)
    BY <1>4, MarkedDelivers
  <2>2. Steady(cs, Marked(cs, k, c, role))
    BY <1>4, MarkedSteady
  <2> QED
    BY <1>4, <1>5, <2>1, <2>2, SteadyTwice DEF Marks
<1>7. ASSUME NEW ds \in Seq(Conn), Steady(conns, ds), NEW l, NEW m, conns' = Sent(ds, l, m)
      PROVE  Steady(conns, conns')
  <2>1. Steady(ds, conns')
    BY <1>7, SentSteady
  <2> QED
    BY <1>7, <2>1, SteadyTwice
<1>8. CASE HandleCreate(k, cs)
  <2>1. issued + 1 \in Nat /\ "sender" \in Role
    BY DEF QuotaInv, Types, RelayTypes, Role
  <2>2. Marked(cs, k, issued + 1, "sender") \in Seq(Conn) /\ Steady(conns, Marked(cs, k, issued + 1, "sender"))
    BY <1>6, <2>1
  <2>3. \/ conns' = Sent(Marked(cs, k, issued + 1, "sender"), k, Msg("created", issued + 1))
        \/ conns' = Sent(cs, k, Msg("error", 0))
    BY <1>8 DEF HandleCreate, NewCode, Marked
  <2>4. Steady(conns, conns')
    BY <1>4, <1>5, <1>7, <2>2, <2>3
  <2> QED
    BY <1>3, <2>4, SteadyFewer, BehindKept
<1>9. CASE HandleJoin(k, msg.code, cs)
  <2>1. PICK c : c = msg.code
    OBVIOUS
  <2>2. CASE conns' = Sent(cs, k, Msg("error", 0))
    <3>1. Steady(conns, conns')
      BY <1>4, <1>5, <1>7, <2>2
    <3> QED
      BY <1>3, <3>1, SteadyFewer, BehindKept
  <2>3. CASE conns' # Sent(cs, k, Msg("error", 0))
    <3>1. PICK es : es = Marked(cs, k, c, "receiver")
      OBVIOUS
    <3>2. PICK yes : yes = Msg("joined", c)
      OBVIOUS
    <3>3. PICK ds : ds = Sent(es, k, yes)
      OBVIOUS
    <3>4. c \in DOMAIN transfers /\ conns' = Sent(ds, transfers[c].sender, Msg("peer_joined", c))
      BY <1>9, <2>1, <2>3, <3>1, <3>2, <3>3 DEF HandleJoin, MayJoin, Marked
    <3>5. c \in Nat /\ "receiver" \in Role
      BY <3>4 DEF QuotaInv, Types, RelayTypes, Role
    <3>6. es \in Seq(Conn) /\ Steady(conns, es) /\ Len(es) = Len(conns) /\ yes \in Frame
      BY <1>6, <3>1, <3>2, <3>5, MsgFrame
    <3>7. k \in 0..Len(es)
      BY <1>4, <3>6, LenProperties
    <3>8. ds \in Seq(Conn) /\ Steady(es, ds)
      BY <3>3, <3>6, <3>7, SentFacts, SentSteady DEF Kept
    <3>9. Steady(conns, ds)
      BY <3>6, <3>8, SteadyTwice
    <3>10. Steady(conns, conns')
      BY <1>7, <3>4, <3>8, <3>9
    <3> QED
      BY <1>3, <3>10, SteadyFewer, BehindKept
  <2> QED
    BY <2>2, <2>3
<1>10. CASE Forward(k, msg, cs)
  <2>1. \E l, m : conns' = Sent(cs, l, m)
    BY <1>10 DEF Forward
  <2>2. Steady(conns, conns')
    BY <1>4, <1>5, <1>7, <2>1
  <2> QED
    BY <1>3, <2>2, SteadyFewer, BehindKept
<1> QED
  BY <1>3, <1>8, <1>9, <1>10

LEMMA EndedBehind ==
  ASSUME QuotaInv, NoneBehind, (\E k \in DOMAIN conns : Close(k)) \/ (\E c \in Code : Expire(c))
  PROVE  NoneBehind'
<1>1. conns \in Seq(Conn)
  BY DEF QuotaInv, Types
<1>2. \E c, cs : AllKept(conns, cs) /\ Steady(conns, cs) /\ RemoveCode(c, cs) /\ hook' = hook
  <2>1. ASSUME NEW k \in DOMAIN conns, Close(k)
        PROVE  \E c, cs : AllKept(conns, cs) /\ Steady(conns, cs) /\ RemoveCode(c, cs) /\ hook' = hook
    <3>1. PICK cs : cs = [conns EXCEPT ![k].served = FALSE, ![k].up = <<>>]
      OBVIOUS
    <3>2. AllKept(conns, cs) /\ Steady(conns, cs)
      BY <1>1, <3>1, FewerMoved, UnservedSteady
    <3> QED
      BY <2>1, <3>1, <3>2 DEF Close
  <2>2. AllKept(conns, conns) /\ Steady(conns, conns)
    BY <1>1, SameMoved, SameSteady
  <2> QED
    BY <2>1, <2>2 DEF Expire
<1>3. Steady(conns, conns')
  BY <1>2, RemoveSteady
<1> QED
  BY <1>2, <1>3, SteadyFewer, BehindKept

LEMMA ClosedBehind ==
  ASSUME QuotaInv, NoneBehind, NEW k \in DOMAIN conns, OnClose(k) PROVE NoneBehind'
<1>1. PICK d : d = conns[k].by
  OBVIOUS
<1>2. conns \in Seq(Conn) /\ d \in Device /\ hook \in [Device -> Hook]
  BY <1>1, ConnFields DEF QuotaInv, Types
<1>3. /\ conns[k].end \in {"closing", "open"}
      /\ conns' = [conns EXCEPT ![k].end = "closed", ![k].down = <<>>]
      /\ \A e \in Device : e # d => hook'[e] = hook[e]
  BY <1>1, <1>2 DEF OnClose
<1>4. hook[d].ws = k
  BY <1>1, <1>3 DEF NoneBehind
<1>5. Fewer(conns, conns')
  BY <1>2, <1>3, ClosedFewer
<1>6. conns'[k].end # "open"
  <2>1. conns \in [DOMAIN conns -> Conn]
    BY <1>2, LenProperties
  <2> QED
    BY <1>3, <2>1 DEF Conn
<1> QED
  BY <1>2, <1>3, <1>4, <1>5, <1>6, HookBehind

LEMMA BehindNext ==
  ~LateClose /\ QuotaInv /\ PacedInv /\ NoneBehind /\ [Next]_vars => NoneBehind'
<1> SUFFICES ASSUME ~LateClose, QuotaInv, PacedInv, NoneBehind, [Next]_vars PROVE NoneBehind'
  OBVIOUS
<1>1. CASE UNCHANGED vars
  BY <1>1 DEF vars, NoneBehind
<1>2. ASSUME NEW d \in Device, Receive(d) \/ Background(d) \/ User(d) PROVE NoneBehind'
  BY <1>2, ReceiveBehind, EngagedBehind, StartBehind DEF User, StartSend, StartReceive
<1>3. ASSUME NEW k \in DOMAIN conns, Handle(k) \/ Close(k) \/ OnClose(k) PROVE NoneBehind'
  BY <1>3, HandleBehind, EndedBehind, ClosedBehind
<1>4. ASSUME NEW c \in Code, Expire(c) PROVE NoneBehind'
  BY <1>4, EndedBehind
<1> QED
  BY <1>1, <1>2, <1>3, <1>4 DEF Next

LEMMA BehindInit == Init => NoneBehind
BY DEF Init, NoneBehind

-----------------------------------------------------------------------------
\* The sender cuts chunk after chunk as they are acknowledged, and what fills an
\* announcement at the other end is what was announced: PacedInv says of every
\* message under way of which snapshot it is and how far that one has come
\* (shared/src/transfer.ts:8, useTransfer.ts:165-238).
LEMMA TransferPacedInv == ASSUME ~Hasty PROVE Spec => []PacedInv
<1>1. Init => PacedInv
  BY PacedInit
<1>2. QuotaInv /\ PromiseInv /\ PacedInv /\ [Next]_vars => PacedInv'
  BY PacedNext
<1> QED
  BY <1>1, <1>2, TransferInvariant, TransferOneWay, PTL DEF Spec

\* When nobody starts over while an export or a check goes on: the sender
\* transmits chunk n + 1 only after chunk n was acknowledged, and whatever
\* overtakes what, the chunks that fill an announcement are those of its snapshot
\* (shared/src/transfer.ts:8, useTransfer.ts:165-238).
THEOREM TransferPaced == ASSUME ~Hasty PROVE Spec => []Paced
<1>1. QuotaInv /\ PacedInv => Paced
  <2> SUFFICES ASSUME QuotaInv, PacedInv PROVE Paced
    OBVIOUS
  <2>1. ASSUME NEW k \in DOMAIN conns, NEW i \in DOMAIN conns[k].up, conns[k].up[i].type = "chunk"
        PROVE  InPlace(conns[k].up[i].chunk)
    <3>1. conns[k].up \in Seq(Frame)
      BY ConnFields DEF QuotaInv, Types
    <3>2. conns[k].up[i] \in Frame
      BY <3>1, LenProperties
    <3>3. In(conns[k].up, {conns[k].up[i]})
      BY DEF In
    <3>4. UpOK(k, conns[k].up[i])
      BY <3>2, <3>3 DEF PacedInv, QueuesOK
    <3> QED
      BY <2>1, <3>4 DEF UpOK
  <2>2. AckPaced
    BY <2>1 DEF AckPaced, InPlace
  <2>3. NeverCorrupted
    BY DEF NeverCorrupted, PacedInv, HookOK, Receives
  <2> QED
    BY <2>2, <2>3 DEF Paced
<1> QED
  BY <1>1, TransferInvariant, TransferPacedInv, PTL

\* When besides a closed socket says so at once: a screen says "Everything sent"
\* only when every chunk has been acknowledged, shows for review only what came
\* for the code that was entered, and has no connection open once it says that
\* the transfer failed or is over (useTransfer.ts:190-280, DataTransfer.tsx:94).
THEOREM TransferScreenTells == ASSUME ~Hasty, ~LateClose PROVE Spec => []ScreenTells
<1>1. Init => NoneBehind
  BY BehindInit
<1>2. QuotaInv /\ PacedInv /\ NoneBehind /\ [Next]_vars => NoneBehind'
  BY BehindNext
<1>3. QuotaInv /\ PacedInv /\ NoneBehind => ScreenTells
  <2> SUFFICES ASSUME QuotaInv, PacedInv, NoneBehind PROVE ScreenTells
    OBVIOUS
  <2>1. SentHasArrived
    BY DEF SentHasArrived, PacedInv, HookOK, Shows
  <2>2. ReviewIsOfCode
    <3>1. ASSUME NEW d \in Device, hook[d].status \in {"review", "applying", "done"}
          PROVE  hook[d].payload[1][1].code = hook[d].code
      <4>1. hook[d].payload # <<>>
        BY <3>1 DEF PacedInv, HookOK, Shows
      <4>2. PICK s \in Snapshot : hook[d].payload = Cut(s) /\ Came(d, s)
        BY <4>1 DEF PacedInv, HookOK, Receives
      <4>3. Cut(s)[1] = <<s, 1>>
        BY CutFacts
      <4> QED
        BY <4>2, <4>3 DEF Came
    <3> QED
      BY <3>1 DEF ReviewIsOfCode
  <2>3. NothingBehind
    BY DEF NothingBehind, NoneBehind
  <2> QED
    BY <2>1, <2>2, <2>3 DEF ScreenTells
<1> QED
  BY <1>1, <1>2, <1>3, TransferInvariant, TransferPacedInv, PTL DEF Spec

=============================================================================
