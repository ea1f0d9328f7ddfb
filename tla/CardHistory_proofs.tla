-------------------------- MODULE CardHistory_proofs --------------------------
(***************************************************************************)
(* Proofs about the log and the redo stack of one device, for any copies,  *)
(* boards, containers and trades, any size of the stack, and any number of *)
(* changes and undos. What the events do to the tables is not looked at:   *)
(* the properties proved here are about which events are in the log.       *)
(***************************************************************************)
EXTENDS CardHistory, NaturalsInduction, FiniteSetTheorems, SequenceTheorems, WellFoundedInduction, TLAPS

\* The fields that an event has.
Shaped(e) == e = [id |-> e.id, ts |-> e.ts, kind |-> e.kind, at |-> e.at,
                  qty |-> e.qty, ref |-> e.ref, hand |-> e.hand]

\* The write or redo that an event was noted by, or was last grown by: all that
\* one transaction notes has one moment.
Moment(e) == e.ts \div 2
Single(e) == e.ref[1] = "single"

\* An event from before time d, noted alone, in a batch or for a trade. Ids and
\* batches carry the time they were made at.
EventOK(e, d) ==
  /\ Shaped(e)
  /\ e.ts \in 0..(d - 1)
  /\ e.id = <<e.id[1], e.id[2]>> /\ e.id[1] \in 0..(d - 1)
  /\ \/ e.ref = <<"single", e.id>>
     \/ \E c \in 0..(d - 1) : e.ref = <<"batch", <<c, 0>>>>
     \/ \E t \in Trade : e.ref = <<"trade", t>>
  /\ e.hand => Single(e)

\* An item of the redo stack: an entry that was grouped, or some events that
\* were noted alone.
ItemOK(x, d) ==
  /\ \A e \in x.events : EventOK(e, d)
  /\ x.since \in 0..(d - 1)
  /\ \A e, f \in x.events : ~Single(e) => f.ref = e.ref
  /\ \A e \in x.events : e.ref[1] = "trade" => e.ref[2] \in x.trade

Base ==
  /\ \E k \in Nat : clock = 2 * k
  /\ \E S : redo \in Seq(S)
  /\ \A e \in log : EventOK(e, clock)
  /\ \A i \in DOMAIN redo : ItemOK(redo[i], clock)
  /\ \A a \in asked : ItemOK(a.item, clock)
  /\ \A i \in own : i[1] \in 0..(clock - 1)

\* What redo wrote has stayed as it wrote it.
OwnAsWritten == trouble # "fold" => \A e \in log : e.id \in own => e.ts = e.id[1]

\* What is on the stack was undone at a time of its own and not put back since,
\* and what is asked for is on the stack, unless redo is asked for in a hurry.
StackOK ==
  trouble # "hurry" =>
    /\ \A n \in replayed : n \in 0..(clock - 1)
    /\ \A i, j \in DOMAIN redo : redo[i].since = redo[j].since => i = j
    /\ \A i \in DOMAIN redo : redo[i].since \notin replayed
    /\ \A a \in asked : \E i \in DOMAIN redo : redo[i] = a.item
    /\ \A a, b \in asked : a = b

\* The events of the log, and of one item, as one transaction leaves them: an
\* entry is of one moment, entries of one moment share no row, and an event
\* alone is the only one of its entry.
Parted(e, f) ==
  /\ e.ref = f.ref => Moment(e) = Moment(f)
  /\ e.ref # f.ref /\ Moment(e) = Moment(f) => KeyOf(e) # KeyOf(f)
  /\ e.ref = f.ref /\ Single(e) => e = f
Apart(x) == \A e, f \in x.events : Single(e) /\ e # f => KeyOf(e) # KeyOf(f) /\ e.id # f.id

\* A grouped entry is in the log or on the stack, and once only; a trade that is
\* in the log was written down, and one on the stack is known as undone. A trade
\* notes once that its copies went.
Went(e) == e.ref[1] = "trade" /\ e.kind = "remove"
Once(E) == \A e, f \in E : Went(e) /\ e.ref = f.ref /\ f.kind = "remove" => e = f
EntriesOK ==
  Orderly =>
    /\ \A e, f \in log : Parted(e, f)
    /\ \A i \in DOMAIN redo : Apart(redo[i])
    /\ \A i \in DOMAIN redo : \A e \in redo[i].events : ~Single(e) =>
         /\ \A f \in log : f.ref # e.ref
         /\ \A j \in DOMAIN redo : \A f \in redo[j].events : f.ref = e.ref => i = j
         /\ e.ref[1] = "trade" => e.ref \in spoiled
    /\ \A e \in log : e.ref[1] = "trade" => e.ref[2] \in trades
    /\ Once(log) /\ \A i \in DOMAIN redo : Once(redo[i].events)

HistoryInv == Base /\ OwnAsWritten /\ StackOK /\ EntriesOK

-----------------------------------------------------------------------------
(***************************************************************************)
(* The least and the greatest of some numbers.                             *)
(***************************************************************************)
\* A non-empty set of naturals has a least member.
LEMMA LeastIs ==
  ASSUME NEW S, S \subseteq Nat, S # {}
  PROVE  Min(S) \in S /\ \A n \in S : Min(S) <= n
<1>1. PICK m \in S : \A n \in S : ~(<<n, m>> \in OpToRel(<, Nat))
  BY NatLessThanWellFounded, WFMin
<1>2. ASSUME NEW n \in S PROVE m <= n
  <2>1. n \in Nat /\ m \in Nat
    OBVIOUS
  <2>2. ~(n < m)
    BY <1>1, <2>1 DEF OpToRel
  <2> QED
    BY <2>1, <2>2
<1>3. \E x \in S : \A y \in S : x =< y
  BY <1>2
<1> QED
  BY <1>3 DEF Min

\* One that is bounded has a greatest.
LEMMA GreatestIs ==
  ASSUME NEW b \in Nat, NEW S, S \subseteq 0..b, S # {}
  PROVE  Max(S) \in S /\ \A n \in S : n <= Max(S)
<1> DEFINE U == {b - n : n \in S}
<1>1. U \subseteq Nat /\ U # {}
  <2>1. \A n \in S : n \in 0..b /\ b - n \in Nat
    OBVIOUS
  <2> QED
    BY <2>1
<1>2. Min(U) \in U /\ \A n \in U : Min(U) <= n
  BY <1>1, LeastIs
<1>3. PICK m \in S : Min(U) = b - m
  BY <1>2
<1>4. \A n \in S : m >= n
  BY <1>2, <1>3
<1>5. \E x \in S : \A y \in S : x >= y
  BY <1>4
<1>6. Max(S) \in S /\ \A y \in S : Max(S) >= y
  BY <1>5 DEF Max
<1> QED
  BY <1>6

-----------------------------------------------------------------------------
(***************************************************************************)
(* What a writer notes.                                                    *)
(***************************************************************************)
\* An event that the write of now notes, on its own, in its batch or for t.
Noted(e, T) ==
  /\ Shaped(e)
  /\ e.ts \in {clock, clock + 1}
  /\ e.id = <<clock, e.id[2]>>
  /\ \/ e.ref = <<"single", e.id>>
     \/ e.ref = <<"batch", <<clock, 0>>>>
     \/ \E t \in T : e.ref = <<"trade", t>>
  /\ e.hand => Single(e)

\* A write that notes N, for the trades T.
Notes(N, T) ==
  /\ \A e \in N : Noted(e, T)
  /\ \A e, f \in N : /\ e.ref # f.ref => KeyOf(e) # KeyOf(f)
                     /\ e.ref = f.ref /\ Single(e) => e = f
  /\ Once(N)

LEMMA EvIs ==
  ASSUME NEW n, NEW k, NEW at, NEW q
  PROVE  LET e == Ev(n, k, at, q)
         IN  /\ Shaped(e) /\ e.id = <<clock, n>> /\ e.ts = clock /\ e.kind = k
             /\ e.at = at /\ e.ref = <<"single", e.id>> /\ ~e.hand
BY DEF Ev, Shaped

\* An event with some of its fields replaced.
LEMMA RefReplaced ==
  ASSUME NEW e, Shaped(e), NEW x
  PROVE  [e EXCEPT !.ref = x]
         = [id |-> e.id, ts |-> e.ts, kind |-> e.kind, at |-> e.at,
             qty |-> e.qty, ref |-> x, hand |-> e.hand]
<1> DEFINE d == [id |-> e.id, ts |-> e.ts, kind |-> e.kind, at |-> e.at,
             qty |-> e.qty, ref |-> e.ref, hand |-> e.hand]
<1>1. e = d
  BY DEF Shaped
<1>2. [d EXCEPT !.ref = x]
      = [id |-> e.id, ts |-> e.ts, kind |-> e.kind, at |-> e.at,
             qty |-> e.qty, ref |-> x, hand |-> e.hand]
  OBVIOUS
<1> HIDE DEF d
<1>3. [e EXCEPT !.ref = x] = [d EXCEPT !.ref = x]
  BY <1>1
<1> QED
  BY <1>2, <1>3
LEMMA TimeReplaced ==
  ASSUME NEW e, Shaped(e), NEW x
  PROVE  [e EXCEPT !.ts = x]
         = [id |-> e.id, ts |-> x, kind |-> e.kind, at |-> e.at,
             qty |-> e.qty, ref |-> e.ref, hand |-> e.hand]
<1> DEFINE d == [id |-> e.id, ts |-> e.ts, kind |-> e.kind, at |-> e.at,
             qty |-> e.qty, ref |-> e.ref, hand |-> e.hand]
<1>1. e = d
  BY DEF Shaped
<1>2. [d EXCEPT !.ts = x]
      = [id |-> e.id, ts |-> x, kind |-> e.kind, at |-> e.at,
             qty |-> e.qty, ref |-> e.ref, hand |-> e.hand]
  OBVIOUS
<1> HIDE DEF d
<1>3. [e EXCEPT !.ts = x] = [d EXCEPT !.ts = x]
  BY <1>1
<1> QED
  BY <1>2, <1>3
LEMMA HandReplaced ==
  ASSUME NEW e, Shaped(e)
  PROVE  [e EXCEPT !.hand = TRUE]
         = [id |-> e.id, ts |-> e.ts, kind |-> e.kind, at |-> e.at,
             qty |-> e.qty, ref |-> e.ref, hand |-> TRUE]
<1> DEFINE d == [id |-> e.id, ts |-> e.ts, kind |-> e.kind, at |-> e.at,
             qty |-> e.qty, ref |-> e.ref, hand |-> e.hand]
<1>1. e = d
  BY DEF Shaped
<1>2. ASSUME NEW x PROVE [d EXCEPT !.hand = x]
      = [id |-> e.id, ts |-> e.ts, kind |-> e.kind, at |-> e.at,
             qty |-> e.qty, ref |-> e.ref, hand |-> x]
  OBVIOUS
<1> HIDE DEF d
<1>3. [e EXCEPT !.hand = TRUE] = [d EXCEPT !.hand = TRUE]
  BY <1>1
<1> QED
  BY <1>2, <1>3
LEMMA Grown ==
  ASSUME NEW e, Shaped(e), NEW x, NEW y
  PROVE  [e EXCEPT !.qty = x, !.ts = y]
         = [id |-> e.id, ts |-> y, kind |-> e.kind, at |-> e.at,
             qty |-> x, ref |-> e.ref, hand |-> e.hand]
<1> DEFINE d == [id |-> e.id, ts |-> e.ts, kind |-> e.kind, at |-> e.at,
             qty |-> e.qty, ref |-> e.ref, hand |-> e.hand]
<1>1. e = d
  BY DEF Shaped
<1>2. [d EXCEPT !.qty = x, !.ts = y]
      = [id |-> e.id, ts |-> y, kind |-> e.kind, at |-> e.at,
             qty |-> x, ref |-> e.ref, hand |-> e.hand]
  <2> DEFINE d1 == [id |-> e.id, ts |-> e.ts, kind |-> e.kind,
                at |-> e.at, qty |-> x, ref |-> e.ref, hand |-> e.hand]
  <2>1. [d EXCEPT !.qty = x] = d1
    OBVIOUS
  <2>2. [d1 EXCEPT !.ts = y] = [id |-> e.id, ts |-> y, kind |-> e.kind,
                at |-> e.at, qty |-> x, ref |-> e.ref, hand |-> e.hand]
    OBVIOUS
  <2> HIDE DEF d, d1
  <2>3. [d EXCEPT !.qty = x, !.ts = y] = [d1 EXCEPT !.ts = y]
    BY <2>1
  <2> QED
    BY <2>2, <2>3
<1> HIDE DEF d
<1>3. [e EXCEPT !.qty = x, !.ts = y] = [d EXCEPT !.qty = x, !.ts = y]
  BY <1>1
<1> QED
  BY <1>2, <1>3
LEMMA Renewed ==
  ASSUME NEW e, Shaped(e), NEW x, NEW y, NEW z
  PROVE  [e EXCEPT !.id = x, !.ts = y, !.ref = z]
         = [id |-> x, ts |-> y, kind |-> e.kind, at |-> e.at,
             qty |-> e.qty, ref |-> z, hand |-> e.hand]
<1> DEFINE d == [id |-> e.id, ts |-> e.ts, kind |-> e.kind, at |-> e.at,
             qty |-> e.qty, ref |-> e.ref, hand |-> e.hand]
<1>1. e = d
  BY DEF Shaped
<1>2. [d EXCEPT !.id = x, !.ts = y, !.ref = z]
      = [id |-> x, ts |-> y, kind |-> e.kind, at |-> e.at,
             qty |-> e.qty, ref |-> z, hand |-> e.hand]
  <2> DEFINE d1 == [id |-> x, ts |-> e.ts, kind |-> e.kind,
                at |-> e.at, qty |-> e.qty, ref |-> e.ref, hand |-> e.hand]
             d2 == [id |-> x, ts |-> y, kind |-> e.kind,
                at |-> e.at, qty |-> e.qty, ref |-> e.ref, hand |-> e.hand]
  <2>1. [d EXCEPT !.id = x] = d1
    OBVIOUS
  <2>2. [d1 EXCEPT !.ts = y] = d2
    OBVIOUS
  <2>3. [d2 EXCEPT !.ref = z] = [id |-> x, ts |-> y, kind |-> e.kind,
                at |-> e.at, qty |-> e.qty, ref |-> z, hand |-> e.hand]
    OBVIOUS
  <2> HIDE DEF d, d1, d2
  <2>4. [d EXCEPT !.id = x, !.ts = y, !.ref = z] = [[d1 EXCEPT !.ts = y] EXCEPT !.ref = z]
    BY <2>1
  <2> QED
    BY <2>2, <2>3, <2>4
<1> HIDE DEF d
<1>3. [e EXCEPT !.id = x, !.ts = y, !.ref = z] = [d EXCEPT !.id = x, !.ts = y, !.ref = z]
  BY <1>1
<1> QED
  BY <1>2, <1>3

\* One event, noted alone or by hand.
LEMMA NotesOne ==
  ASSUME NEW n, NEW k, NEW at, NEW q
  PROVE  /\ Notes({Ev(n, k, at, q)}, {})
         /\ Notes({ByHand(Ev(n, k, at, q))}, {})
<1> DEFINE e == Ev(n, k, at, q)
<1>1. /\ Shaped(e) /\ e.id = <<clock, n>> /\ e.ts = clock /\ e.kind = k
      /\ e.at = at /\ e.ref = <<"single", e.id>> /\ ~e.hand
  BY EvIs
<1> HIDE DEF e
<1>2. Noted(e, {})
  BY <1>1 DEF Noted
<1>3. /\ Shaped(ByHand(e)) /\ ByHand(e).id = e.id /\ ByHand(e).ts = e.ts
      /\ ByHand(e).ref = e.ref /\ ByHand(e).hand
  <2>1. ByHand(e) = [id |-> e.id, ts |-> e.ts, kind |-> e.kind, at |-> e.at,
                     qty |-> e.qty, ref |-> e.ref, hand |-> TRUE]
    BY <1>1, HandReplaced DEF ByHand
  <2> QED
    BY <2>1 DEF Shaped
<1>4. Noted(ByHand(e), {})
  BY <1>1, <1>3 DEF Noted, Single
<1>5. Notes({e}, {})
  BY <1>2 DEF Notes, Once
<1>6. Notes({ByHand(e)}, {})
  BY <1>4 DEF Notes, Once
<1> QED
  BY <1>5, <1>6 DEF e

\* A copy that comes in, with the wish that it fulfils.
LEMMA NotesFulfils ==
  ASSUME NEW c, NEW q, NEW r
  PROVE  Notes({Ev(1, "add", c, q)} \cup Fulfils(r, c, 2), {})
<1> DEFINE a == Ev(1, "add", c, q)
           b == Ev(2, "fulfilled", c, 1)
<1>1. /\ Shaped(a) /\ a.id = <<clock, 1>> /\ a.ts = clock /\ a.kind = "add"
      /\ a.ref = <<"single", a.id>> /\ ~a.hand
  BY EvIs
<1>2. /\ Shaped(b) /\ b.id = <<clock, 2>> /\ b.ts = clock /\ b.kind = "fulfilled"
      /\ b.ref = <<"single", b.id>> /\ ~b.hand
  BY EvIs
<1> HIDE DEF a, b
<1>3. Fulfils(r, c, 2) \in {{}, {b}}
  BY DEF Fulfils, b
<1>4. Noted(a, {}) /\ Noted(b, {})
  BY <1>1, <1>2 DEF Noted
<1>5. KeyOf(a) # KeyOf(b)
  <2>1. KeyOf(a)[1] = "copy"
    BY <1>1 DEF KeyOf
  <2>2. KeyOf(b)[1] = "wish"
    BY <1>2 DEF KeyOf
  <2> QED
    BY <2>1, <2>2
<1>6. a.ref # b.ref
  BY <1>1, <1>2
<1>7. ~Went(a) /\ ~Went(b)
  BY <1>1, <1>2 DEF Went
<1>8. Notes({a} \cup {}, {}) /\ Notes({a} \cup {b}, {})
  BY <1>4, <1>5, <1>6, <1>7 DEF Notes, Once
<1> QED
  BY <1>3, <1>8 DEF a

\* A batch.
LEMMA InBatchIs ==
  ASSUME NEW e, \E n, k, at, q : e = Ev(n, k, at, q)
  PROVE  LET b == [e EXCEPT !.ref = <<"batch", <<clock, 0>>>>]
         IN  /\ Noted(b, {}) /\ b.ref = <<"batch", <<clock, 0>>>> /\ b.ts = clock
             /\ b.kind = e.kind /\ b.at = e.at
<1>1. Shaped(e) /\ e.id = <<clock, e.id[2]>> /\ e.ts = clock /\ ~e.hand
  BY EvIs
<1> DEFINE batch == <<"batch", <<clock, 0>>>>
<1>2. [e EXCEPT !.ref = batch] = [id |-> e.id, ts |-> e.ts, kind |-> e.kind, at |-> e.at,
                                  qty |-> e.qty, ref |-> batch, hand |-> e.hand]
  BY <1>1, RefReplaced
<1> QED
  BY <1>1, <1>2 DEF Noted, Single, Shaped
LEMMA NotesBatch ==
  ASSUME NEW E, \A e \in E : \E n, k, at, q : e = Ev(n, k, at, q)
  PROVE  Notes(InBatch(E), {})
<1>1. \A b \in InBatch(E) : Noted(b, {}) /\ b.ref = <<"batch", <<clock, 0>>>>
  BY InBatchIs DEF InBatch
<1>2. \A b \in InBatch(E) : ~Single(b) /\ ~Went(b)
  BY <1>1 DEF Single, Went
<1> QED
  BY <1>1, <1>2 DEF Notes, Once

\* What a trade notes: its own entry, and the copies that leave a container.
LEMMA NotesTrade ==
  ASSUME NEW t \in Trade, NEW E, NEW F, NEW gone,
         \A e \in E : /\ Shaped(e) /\ e.id = <<clock, e.id[2]>> /\ e.ts \in {clock, clock + 1}
                      /\ e.kind \in {"add", "remove", "fulfilled"} /\ ~e.hand
                      /\ e.kind = "remove" => e = gone,
         \A e \in F : \E n, at, q : e = Ev(n, "deckRemove", at, q)
  PROVE  Notes(InTrade(t, E) \cup InBatch(F), {t})
<1> DEFINE ref == <<"trade", t>>
           A == InTrade(t, E)
           B == InBatch(F)
<1>1. ASSUME NEW e \in E
      PROVE  LET a == [e EXCEPT !.ref = ref]
             IN  /\ Shaped(a) /\ a.id = e.id /\ a.ts = e.ts /\ a.kind = e.kind
                 /\ a.at = e.at /\ a.ref = ref /\ a.hand = e.hand
  <2>1. [e EXCEPT !.ref = ref] = [id |-> e.id, ts |-> e.ts, kind |-> e.kind, at |-> e.at,
                                  qty |-> e.qty, ref |-> ref, hand |-> e.hand]
    BY <1>1, RefReplaced
  <2> QED
    BY <2>1 DEF Shaped
<1>2. \A a \in A : \E e \in E : a = [e EXCEPT !.ref = ref]
  BY DEF InTrade
<1>3. \A a \in A : /\ Noted(a, {t}) /\ a.ref = ref /\ KeyOf(a)[1] # "place"
                   /\ a.kind = "remove" => a = [gone EXCEPT !.ref = ref]
  <2> TAKE a \in A
  <2>1. PICK e \in E : a = [e EXCEPT !.ref = ref]
    BY <1>2
  <2>2. /\ Shaped(a) /\ a.id = e.id /\ a.ts = e.ts /\ a.kind = e.kind
        /\ a.at = e.at /\ a.ref = ref /\ a.hand = e.hand
    BY <1>1, <2>1
  <2>3. KeyOf(a)[1] # "place"
    BY <2>2 DEF KeyOf
  <2>4. Noted(a, {t})
    BY <2>2 DEF Noted
  <2> QED
    BY <2>1, <2>2, <2>3, <2>4
<1>4. \A b \in B : /\ Noted(b, {}) /\ b.ref = <<"batch", <<clock, 0>>>>
                   /\ b.kind = "deckRemove" /\ KeyOf(b)[1] = "place"
  <2> TAKE b \in B
  <2>1. PICK e \in F : b = [e EXCEPT !.ref = <<"batch", <<clock, 0>>>>]
    BY DEF InBatch
  <2>2. PICK n, at, q : e = Ev(n, "deckRemove", at, q)
    OBVIOUS
  <2>3. e.kind = "deckRemove"
    BY <2>2, EvIs
  <2>4. Noted(b, {}) /\ b.ref = <<"batch", <<clock, 0>>>> /\ b.kind = "deckRemove"
    BY <2>1, <2>2, <2>3, InBatchIs
  <2> QED
    BY <2>4 DEF KeyOf
<1> HIDE DEF A, B
<1>5. \A b \in B : Noted(b, {t})
  BY <1>4 DEF Noted
<1>6. ASSUME NEW e \in A \cup B, NEW f \in A \cup B
      PROVE  /\ e.ref # f.ref => KeyOf(e) # KeyOf(f)
             /\ ~Single(e)
             /\ Went(e) /\ f.kind = "remove" => e = f
  BY <1>3, <1>4 DEF Single, Went
<1>7. Notes(A \cup B, {t})
  BY <1>3, <1>5, <1>6 DEF Notes, Once
<1> QED
  BY <1>7 DEF A, B

-----------------------------------------------------------------------------
(***************************************************************************)
(* A writer keeps the invariant: what it notes is later than what is there *)
(* and belongs to no entry that is there.                                  *)
(***************************************************************************)
\* What is from before now is from before later.
LEMMA Older ==
  ASSUME NEW c \in Nat, NEW d \in Nat, c <= d
  PROVE  /\ \A e : EventOK(e, c) => EventOK(e, d)
         /\ \A x : ItemOK(x, c) => ItemOK(x, d)
<1>1. 0..(c - 1) \subseteq 0..(d - 1)
  OBVIOUS
<1>2. ASSUME NEW e, EventOK(e, c) PROVE EventOK(e, d)
  BY <1>1, <1>2 DEF EventOK
<1>3. ASSUME NEW x, ItemOK(x, c) PROVE ItemOK(x, d)
  BY <1>1, <1>2, <1>3 DEF ItemOK
<1> QED
  BY <1>2, <1>3

\* What is noted now is from before the next write, and of now.
LEMMA NotedNow ==
  ASSUME NEW N, NEW T, T \subseteq Trade, Notes(N, T), NEW k \in Nat, clock = 2 * k
  PROVE  \A e \in N : EventOK(e, clock + 2) /\ Moment(e) = k /\ e.id[1] = clock
<1> TAKE e \in N
<1>1. Noted(e, T)
  BY DEF Notes
<1>2. e.ts \in {2 * k, 2 * k + 1}
  BY <1>1 DEF Noted
<1>3. (2 * k) \div 2 = k /\ (2 * k + 1) \div 2 = k
  OBVIOUS
<1>4. Moment(e) = k
  BY <1>2, <1>3 DEF Moment
<1>5. clock \in 0..(clock + 2 - 1) /\ clock + 1 \in 0..(clock + 2 - 1)
  OBVIOUS
<1>6. e.id[1] = clock
  BY <1>1 DEF Noted
<1>7. EventOK(e, clock + 2)
  BY <1>1, <1>5, <1>6 DEF EventOK, Noted
<1> QED
  BY <1>4, <1>6, <1>7

\* What is from before is of a moment before.
LEMMA MomentBefore ==
  ASSUME NEW k \in Nat, NEW e, EventOK(e, 2 * k)
  PROVE  Moment(e) \in Nat /\ Moment(e) < k
<1>1. e.ts \in Nat /\ e.ts < 2 * k
  BY DEF EventOK
<1> QED
  BY <1>1 DEF Moment

LEMMA WriteKeeps ==
  ASSUME HistoryInv, NEW N, NEW T, T \subseteq Trade, Notes(N, T),
         \A t \in T : t \notin trades /\ (trouble # "redelivered" => ~Undone(t)),
         log' = log \cup N, trades' = trades \cup T, clock' = clock + 2,
         UNCHANGED <<redo, own, asked, replayed, trouble, spoiled>>
  PROVE  HistoryInv'
<1> USE DEF HistoryInv
<1>1. PICK k \in Nat : clock = 2 * k
  BY DEF Base
<1>2. clock \in Nat /\ clock' \in Nat /\ clock <= clock' /\ clock' = 2 * (k + 1)
  BY <1>1
<1>3. \A e \in N : EventOK(e, clock') /\ Moment(e) = k /\ e.id[1] = clock
  BY <1>1, NotedNow
<1>4. \A e \in log : EventOK(e, clock) /\ EventOK(e, clock') /\ Moment(e) < k
  BY <1>1, <1>2, Older, MomentBefore DEF Base
<1>5. \A e \in log : Moment(e) # k
  <2> TAKE e \in log
  <2>1. Moment(e) \in Nat /\ Moment(e) < k
    BY <1>1, <1>4, MomentBefore
  <2> QED
    BY <2>1
<1>6. Base'
  <2>1. \A e \in log' : EventOK(e, clock')
    BY <1>3, <1>4
  <2>2. \A i \in DOMAIN redo : ItemOK(redo[i], clock')
    BY <1>2, Older DEF Base
  <2>3. \A a \in asked : ItemOK(a.item, clock')
    BY <1>2, Older DEF Base
  <2>4. \A i \in own : i[1] \in 0..(clock' - 1)
    BY <1>2 DEF Base
  <2> QED
    BY <1>2, <2>1, <2>2, <2>3, <2>4 DEF Base
<1>7. OwnAsWritten'
  <2>1. \A e \in N : e.id \notin own
    BY <1>2, <1>3 DEF Base
  <2> QED
    BY <2>1 DEF OwnAsWritten
<1>8. StackOK'
  BY <1>2 DEF StackOK
<1>9. EntriesOK'
  <2> SUFFICES ASSUME Orderly' PROVE EntriesOK'
    BY DEF EntriesOK
  <2>1. Orderly
    BY DEF Orderly
  <2>0. \A t \in T : <<"trade", t>> \notin spoiled
    <3>1. \A e \in log : e.ref[1] = "trade" => e.ref[2] \in trades
      BY <2>1 DEF EntriesOK
    <3> TAKE t \in T
    <3>2. \A e \in log : e.ref # <<"trade", t>>
      BY <3>1
    <3> QED
      BY <2>1, <3>2 DEF Orderly, Undone
  <2>2. \A e, f \in N : Parted(e, f)
    BY <1>3 DEF Notes, Parted
  <2>3. ASSUME NEW e, EventOK(e, clock), NEW f \in N,
               e.ref[1] = "trade" => e.ref[2] \in trades \/ e.ref \in spoiled
        PROVE  f.ref # e.ref
    <3>1. Noted(f, T)
      BY DEF Notes
    <3>2. CASE e.ref = <<"single", e.id>>
      <4>1. e.id # f.id
        BY <1>2, <1>3, <2>3 DEF EventOK
      <4> QED
        BY <3>1, <3>2, <4>1 DEF Noted
    <3>3. CASE \E c \in 0..(clock - 1) : e.ref = <<"batch", <<c, 0>>>>
      BY <1>2, <3>1, <3>3 DEF Noted
    <3>4. CASE \E t \in Trade : e.ref = <<"trade", t>>
      BY <2>0, <2>3, <3>1, <3>4 DEF Noted
    <3> QED
      BY <2>3, <3>2, <3>3, <3>4 DEF EventOK
  <2>4. \A e \in log : \A f \in N : f.ref # e.ref
    BY <1>4, <2>1, <2>3 DEF EntriesOK
  <2>5. \A i \in DOMAIN redo : \A e \in redo[i].events : ~Single(e) => \A f \in N : f.ref # e.ref
    <3> TAKE i \in DOMAIN redo
    <3> TAKE e \in redo[i].events
    <3>1. EventOK(e, clock)
      BY DEF Base, ItemOK
    <3>2. ~Single(e) /\ e.ref[1] = "trade" => e.ref \in spoiled
      BY <2>1 DEF EntriesOK
    <3>3. Single(e) => e.ref[1] # "trade"
      BY DEF Single
    <3> QED
      BY <2>3, <3>1, <3>2, <3>3
  <2>6. \A e, f \in log' : Parted(e, f)
    <3> TAKE e, f \in log'
    <3>1. CASE e \in log /\ f \in log
      BY <2>1, <3>1 DEF EntriesOK
    <3>2. CASE e \in N /\ f \in N
      BY <2>2, <3>2
    <3>3. CASE e \in log /\ f \in N
      BY <1>3, <1>5, <2>4, <3>3 DEF Parted
    <3>4. CASE e \in N /\ f \in log
      BY <1>3, <1>5, <2>4, <3>4 DEF Parted
    <3> QED
      BY <3>1, <3>2, <3>3, <3>4
  <2>7. \A e \in log' : e.ref[1] = "trade" => e.ref[2] \in trades'
    <3>1. \A e \in N : e.ref[1] = "trade" => e.ref[2] \in T
      BY DEF Notes, Noted
    <3> QED
      BY <2>1, <3>1 DEF EntriesOK
  <2>8. Once(log')
    BY <2>1, <2>4 DEF EntriesOK, Once, Notes
  <2>9. \A i \in DOMAIN redo : \A e \in redo[i].events : ~Single(e) => \A f \in log' : f.ref # e.ref
    BY <2>1, <2>5 DEF EntriesOK
  <2> QED
    BY <2>1, <2>6, <2>7, <2>8, <2>9 DEF EntriesOK
<1> QED
  BY <1>6, <1>7, <1>8, <1>9

\* A writer of no trade, and one that notes nothing.
LEMMA WritesKeeps ==
  ASSUME HistoryInv, NEW r, NEW N, Notes(N, {}), Writes(r, log \cup N), UNCHANGED trades
  PROVE  HistoryInv'
<1>1. trades' = trades \cup {}
  OBVIOUS
<1>2. /\ log' = log \cup N /\ clock' = clock + 2
      /\ UNCHANGED <<redo, own, asked, replayed, trouble, spoiled>>
  BY DEF Writes, redoVars
<1> QED
  BY <1>1, <1>2, WriteKeeps
LEMMA SilentKeeps ==
  ASSUME HistoryInv, NEW r, Writes(r, log), UNCHANGED trades
  PROVE  HistoryInv'
<1>1. Notes({}, {}) /\ log = log \cup {}
  BY DEF Notes, Once
<1> QED
  BY <1>1, WritesKeeps

LEMMA OfCopiesKeeps == HistoryInv /\ OfCopies => HistoryInv'
<1> SUFFICES ASSUME HistoryInv, OfCopies PROVE HistoryInv'
  OBVIOUS
<1>1. ASSUME NEW c \in Copy, NEW n \in Qty, NEW f \in {0, n}, AddToCollection(c, n, f) PROVE HistoryInv'
  <2> DEFINE N == {Ev(1, "add", c, n)} \cup Fulfils(rows, c, 2)
  <2>1. Notes(N, {})
    BY NotesFulfils
  <2>2. PICK r : Writes(r, log \cup N) /\ UNCHANGED trades
    BY <1>1 DEF AddToCollection
  <2> QED
    BY <2>1, <2>2, WritesKeeps
<1>2. ASSUME NEW c \in Copy, NEW n \in Qty, MarkForTrade(c, n) PROVE HistoryInv'
  <2>1. PICK gained, r : Writes(r, log \cup InBatch({Ev(d, "mark", d, gained[d]) : d \in {x \in Copy : gained[x] > 0}}))
                         /\ UNCHANGED trades
    BY <1>2 DEF MarkForTrade
  <2>2. Notes(InBatch({Ev(d, "mark", d, gained[d]) : d \in {x \in Copy : gained[x] > 0}}), {})
    BY NotesBatch
  <2> QED
    BY <2>1, <2>2, WritesKeeps
<1>3. ASSUME NEW c \in Copy, NEW n \in Upto, SetCopies(c, n) PROVE HistoryInv'
  <2> DEFINE q == rows.owned[c]
             N == IF n > q THEN {Ev(1, "add", c, n - q)} \cup Fulfils(rows, c, 2)
                           ELSE {Ev(1, "remove", c, q - n)}
  <2>1. Notes(N, {})
    BY NotesFulfils, NotesOne
  <2>2. PICK r : Writes(r, log \cup N) /\ UNCHANGED trades
    BY <1>3 DEF SetCopies
  <2> QED
    BY <2>1, <2>2, WritesKeeps
<1>4. ASSUME NEW c \in Copy, NEW n \in Upto, SetForTrade(c, n) PROVE HistoryInv'
  <2>1. PICK r : Writes(r, log) /\ UNCHANGED trades
    BY <1>4 DEF SetForTrade
  <2> QED
    BY <2>1, SilentKeeps
<1>5. ASSUME NEW c \in Copy, NEW d \in Copy, Correct(c, d) PROVE HistoryInv'
  <2>1. PICK r : Writes(r, log) /\ UNCHANGED trades
    BY <1>5 DEF Correct
  <2> QED
    BY <2>1, SilentKeeps
<1>6. ASSUME NEW c \in Copy, NEW d \in Copy, NEW n \in Upto, NEW m \in Qty, NEW f, Import(c, n, d, m, f)
      PROVE HistoryInv'
  <2> DEFINE N == (IF n > 0 THEN {Ev(1, "remove", c, n)} ELSE {})
                  \cup {Ev(2, "add", d, m)} \cup Fulfils(rows, d, 3)
  <2>1. PICK r : Writes(r, log \cup InBatch(N)) /\ UNCHANGED trades
    BY <1>6 DEF Import
  <2>2. \A e \in N : \E i, k, at, q : e = Ev(i, k, at, q)
    BY DEF Fulfils
  <2> HIDE DEF N
  <2>3. Notes(InBatch(N), {})
    BY <2>2, NotesBatch
  <2> QED
    BY <2>1, <2>3, WritesKeeps
<1> QED
  BY <1>1, <1>2, <1>3, <1>4, <1>5, <1>6 DEF OfCopies

LEMMA OfWishesKeeps == HistoryInv /\ OfWishes => HistoryInv'
<1> SUFFICES ASSUME HistoryInv, OfWishes PROVE HistoryInv'
  OBVIOUS
<1>1. ASSUME NEW l \in Line, NEW n \in Qty, AddToWishlist(l, n) PROVE HistoryInv'
  <2>1. PICK r : Writes(r, log \cup {Ev(1, "wishAdd", l, n)}) /\ UNCHANGED trades
    BY <1>1 DEF AddToWishlist
  <2> QED
    BY <2>1, NotesOne, WritesKeeps
<1>2. ASSUME NEW l \in Line, NEW n \in Upto, SetWish(l, n) PROVE HistoryInv'
  <2>1. PICK r, k, q : Writes(r, log \cup {Ev(1, k, l, q)}) /\ UNCHANGED trades
    BY <1>2 DEF SetWish
  <2> QED
    BY <2>1, NotesOne, WritesKeeps
<1>3. ASSUME NEW l \in Line, NEW m \in Line, CorrectWish(l, m) PROVE HistoryInv'
  <2>1. PICK r : Writes(r, log) /\ UNCHANGED trades
    BY <1>3 DEF CorrectWish
  <2> QED
    BY <2>1, SilentKeeps
<1> QED
  BY <1>1, <1>2, <1>3 DEF OfWishes

\* A run of hand edits that grows is the last of its run, moved to now: of the
\* same entry, and alone in it.
LEMMA NewestIs ==
  ASSUME Base, NEW E, E \subseteq log, E # {}
  PROVE  Newest(E) \in E
<1> DEFINE S == {e.ts : e \in E}
<1>1. \A e \in E : e.ts \in 0..(clock - 1)
  BY DEF Base, EventOK
<1>2. clock - 1 \in Nat /\ S \subseteq 0..(clock - 1) /\ S # {}
  <2>1. PICK e \in E : TRUE
    OBVIOUS
  <2>2. clock \in Nat /\ e.ts \in 0..(clock - 1)
    BY <1>1, <2>1 DEF Base
  <2>3. clock - 1 \in Nat
    BY <2>2
  <2> QED
    BY <1>1, <2>1, <2>3
<1>3. Max(S) \in S /\ \A n \in S : n <= Max(S)
  BY <1>2, GreatestIs
<1>4. PICK e \in E : e.ts = Max(S)
  BY <1>3
<1>5. \A f \in E : f.ts <= e.ts
  BY <1>3, <1>4
<1> QED
  BY <1>4, <1>5 DEF Newest
LEMMA FoldKeeps ==
  ASSUME HistoryInv, NEW last \in log, last.hand, last.kind # "remove",
         NEW q, trouble # "fold" => last.id \notin own,
         log' = (log \ {last}) \cup {[last EXCEPT !.qty = q, !.ts = clock]},
         trades' = trades, clock' = clock + 2,
         UNCHANGED <<redo, own, asked, replayed, trouble, spoiled>>
  PROVE  HistoryInv'
<1> USE DEF HistoryInv
<1> DEFINE new == [last EXCEPT !.qty = q, !.ts = clock]
<1>1. PICK k \in Nat : clock = 2 * k
  BY DEF Base
<1>2. clock \in Nat /\ clock' \in Nat /\ clock <= clock' /\ clock' = 2 * (k + 1)
  BY <1>1
<1>3. EventOK(last, clock)
  BY DEF Base
<1>4. new = [id |-> last.id, ts |-> clock, kind |-> last.kind, at |-> last.at,
             qty |-> q, ref |-> last.ref, hand |-> last.hand]
  <2>1. Shaped(last)
    BY <1>3 DEF EventOK
  <2>2. \A x, y : [last EXCEPT !.qty = x, !.ts = y]
                  = [id |-> last.id, ts |-> y, kind |-> last.kind, at |-> last.at,
                     qty |-> x, ref |-> last.ref, hand |-> last.hand]
    BY <2>1, Grown, Zenon
  <2> QED
    BY <2>2, Zenon
<1>5. /\ Shaped(new) /\ new.id = last.id /\ new.ts = clock /\ new.kind = last.kind
      /\ new.ref = last.ref /\ new.hand = last.hand
  BY <1>4 DEF Shaped
<1>6. log' = (log \ {last}) \cup {new}
  OBVIOUS
<1> HIDE DEF new
<1>7. Single(last) /\ Single(new)
  BY <1>3, <1>5 DEF EventOK, Single
<1>8. EventOK(last, clock')
  BY <1>2, <1>3, Older
<1>9. EventOK(new, clock')
  <2>1. clock \in 0..(clock' - 1)
    BY <1>2
  <2> QED
    BY <1>5, <1>7, <1>8, <2>1 DEF EventOK, Single
<1>10. Moment(new) = k
  BY <1>1, <1>5 DEF Moment
<1>11. \A e \in log : EventOK(e, clock) /\ EventOK(e, clock') /\ Moment(e) # k
  <2> TAKE e \in log
  <2>1. EventOK(e, clock) /\ EventOK(e, clock')
    BY <1>2, Older DEF Base
  <2>2. Moment(e) \in Nat /\ Moment(e) < k
    BY <1>1, <2>1, MomentBefore
  <2> QED
    BY <2>1, <2>2
<1>12. Base'
  <2>1. \A e \in log' : EventOK(e, clock')
    BY <1>6, <1>9, <1>11
  <2>2. \A i \in DOMAIN redo : ItemOK(redo[i], clock')
    BY <1>2, Older DEF Base
  <2>3. \A a \in asked : ItemOK(a.item, clock')
    BY <1>2, Older DEF Base
  <2>4. \A i \in own : i[1] \in 0..(clock' - 1)
    BY <1>2 DEF Base
  <2>5. \E S : redo' \in Seq(S)
    BY DEF Base
  <2>6. \E i \in Nat : clock' = 2 * i
    BY <1>2
  <2> QED
    BY <2>1, <2>2, <2>3, <2>4, <2>5, <2>6 DEF Base
<1>13. OwnAsWritten'
  BY <1>5, <1>6 DEF OwnAsWritten
<1>14. StackOK'
  BY <1>2 DEF StackOK
<1>15. EntriesOK'
  <2> SUFFICES ASSUME Orderly' PROVE EntriesOK'
    BY DEF EntriesOK
  <2>1. Orderly
    BY DEF Orderly
  <2>2. \A e \in log : e # last => e.ref # last.ref
    BY <1>7, <2>1 DEF EntriesOK, Parted
  <2>3. \A e \in log' : e = new \/ (e \in log /\ e # last)
    BY <1>6
  <2>4. \A e, f \in log' : Parted(e, f)
    <3> TAKE e, f \in log'
    <3>1. CASE e # new /\ f # new
      BY <2>1, <2>3, <3>1 DEF EntriesOK
    <3>2. CASE e = new /\ f = new
      BY <3>2 DEF Parted
    <3>3. CASE e # new /\ f = new
      BY <1>5, <1>10, <1>11, <2>2, <2>3, <3>3 DEF Parted
    <3>4. CASE e = new /\ f # new
      BY <1>5, <1>10, <1>11, <2>2, <2>3, <3>4 DEF Parted
    <3> QED
      BY <3>1, <3>2, <3>3, <3>4
  <2>5. \A e \in log' : \E f \in log : e.ref = f.ref
    BY <1>5, <2>3
  <2>6. \A e \in log' : e.ref[1] = "trade" => e.ref[2] \in trades'
    BY <2>1, <2>5 DEF EntriesOK
  <2>7. Once(log')
    BY <1>5, <2>1, <2>3 DEF EntriesOK, Once, Went
  <2>8. \A i \in DOMAIN redo : \A e \in redo[i].events : ~Single(e) => \A f \in log' : f.ref # e.ref
    BY <2>1, <2>5 DEF EntriesOK
  <2> QED
    BY <2>1, <2>4, <2>6, <2>7, <2>8 DEF EntriesOK
<1> QED
  BY <1>12, <1>13, <1>14, <1>15

LEMMA StepKeeps ==
  ASSUME HistoryInv, NEW p \in Place, NEW l \in Line, NEW n \in Upto, NEW soon \in BOOLEAN,
         Step(p, l, n, soon)
  PROVE  HistoryInv'
<1> DEFINE q == rows.slots[p][l]
           kind == IF n > q THEN "deckAdd" ELSE "deckRemove"
           size == IF n > q THEN n - q ELSE q - n
           last == Newest(SameSlot(p))
           folds == soon /\ SameSlot(p) # {} /\ SameWay(last, kind)
           grown == [last EXCEPT !.qty = @ + size, !.ts = clock]
<1>1. /\ folds /\ trouble # "fold" => Uninterrupted(last)
      /\ UNCHANGED trades
      /\ \E r : Writes(r, IF folds THEN (log \ {last}) \cup {grown}
                          ELSE log \cup {ByHand(Ev(1, kind, <<p, l>>, size))})
  BY DEF Step
<1>2. CASE ~folds
  <2>1. PICK r : Writes(r, log \cup {ByHand(Ev(1, kind, <<p, l>>, size))})
    BY <1>1, <1>2
  <2>2. Notes({ByHand(Ev(1, kind, <<p, l>>, size))}, {})
    BY NotesOne
  <2> QED
    BY <1>1, <2>1, <2>2, WritesKeeps
<1>3. CASE folds
  <2>1. SameSlot(p) \subseteq log /\ SameSlot(p) # {}
    BY <1>3 DEF SameSlot
  <2>2. last \in SameSlot(p)
    BY <2>1, NewestIs DEF HistoryInv
  <2>3. last \in log /\ last.hand /\ last.kind # "remove"
    BY <2>2 DEF SameSlot
  <2>4. PICK r : Writes(r, (log \ {last}) \cup {grown})
    BY <1>1, <1>3
  <2>5. trouble # "fold" => last.id \notin own
    BY <1>1, <1>3 DEF Uninterrupted
  <2>6. PICK x : x = last.qty + size
    OBVIOUS
  <2>7. grown = [last EXCEPT !.qty = x, !.ts = clock]
    BY <2>6
  <2>8. /\ log' = (log \ {last}) \cup {grown} /\ clock' = clock + 2 /\ trades' = trades
        /\ UNCHANGED <<redo, own, asked, replayed, trouble, spoiled>>
    BY <1>1, <2>4 DEF Writes, redoVars
  <2> HIDE DEF last, grown
  <2> QED
    BY <2>3, <2>5, <2>7, <2>8, FoldKeeps
<1> QED
  BY <1>2, <1>3

LEMMA OfSlotsKeeps == HistoryInv /\ OfSlots => HistoryInv'
<1> SUFFICES ASSUME HistoryInv, OfSlots PROVE HistoryInv'
  OBVIOUS
<1>1. ASSUME NEW p \in Place, NEW l \in Line, NEW n \in Qty, AddDeckCard(p, l, n) PROVE HistoryInv'
  <2>1. PICK r : Writes(r, log \cup {ByHand(Ev(1, "deckAdd", <<p, l>>, n))}) /\ UNCHANGED trades
    BY <1>1 DEF AddDeckCard
  <2> QED
    BY <2>1, NotesOne, WritesKeeps
<1>2. ASSUME NEW p \in Place, NEW l \in Line, NEW n \in Qty, TakeOut(p, l, n) PROVE HistoryInv'
  <2>1. PICK r : Writes(r, log \cup InBatch({Ev(1, "deckRemove", <<p, l>>, n)})) /\ UNCHANGED trades
    BY <1>2 DEF TakeOut
  <2>2. Notes(InBatch({Ev(1, "deckRemove", <<p, l>>, n)}), {})
    BY NotesBatch
  <2> QED
    BY <2>1, <2>2, WritesKeeps
<1>3. ASSUME NEW p \in Place, NEW l \in Line, NEW n \in Qty, Rescan(p, l, n) PROVE HistoryInv'
  <2> DEFINE here == Lines(rows, p)
             cur == IF l \in here THEN {l} ELSE IF AnyPrinting \in here THEN {AnyPrinting} ELSE here
             swept(k) == {s \in Place \X Line :
                            DeckOf[s[1]] = DeckOf[p] /\ rows.slots[s[1]][s[2]] > 0 /\ s # <<p, k>>}
             N(k) == {Ev(s, "deckRemove", s, rows.slots[s[1]][s[2]]) : s \in swept(k)}
                     \cup (IF n > rows.slots[p][k] THEN {Ev(<<p, k>>, "deckAdd", <<p, k>>, n - rows.slots[p][k])} ELSE {})
                     \cup (IF n < rows.slots[p][k] THEN {Ev(<<p, k>>, "deckRemove", <<p, k>>, rows.slots[p][k] - n)} ELSE {})
  <2>1. PICK k \in IF cur = {} THEN {l} ELSE cur : \E r : Writes(r, log \cup InBatch(N(k))) /\ UNCHANGED trades
    BY <1>3 DEF Rescan
  <2>2. PICK r : Writes(r, log \cup InBatch(N(k))) /\ UNCHANGED trades
    BY <2>1
  <2>3. \A e \in N(k) : \E i, kind, at, q : e = Ev(i, kind, at, q)
    OBVIOUS
  <2> HIDE DEF N
  <2>4. Notes(InBatch(N(k)), {})
    BY <2>3, NotesBatch
  <2> QED
    BY <2>2, <2>4, WritesKeeps
<1>4. ASSUME NEW p \in Place, NEW l \in Line, NEW n \in Qty, NEW exact \in BOOLEAN, File(p, l, n, exact)
      PROVE  HistoryInv'
  <2>1. PICK r : Writes(r, log \cup InBatch({Ev(1, "deckAdd", <<p, l>>, n)})) /\ UNCHANGED trades
    BY <1>4 DEF File
  <2>2. Notes(InBatch({Ev(1, "deckAdd", <<p, l>>, n)}), {})
    BY NotesBatch
  <2> QED
    BY <2>1, <2>2, WritesKeeps
<1>5. ASSUME NEW p \in Place, NEW l \in Line, NEW n \in Upto, NEW soon \in BOOLEAN, Step(p, l, n, soon)
      PROVE  HistoryInv'
  BY <1>5, StepKeeps
<1>6. ASSUME NEW p \in Place, NEW l \in Line, NEW p2 \in Place, Move(p, l, p2) PROVE HistoryInv'
  <2> DEFINE q == rows.slots[p][l]
             N == {Ev(1, "deckRemove", <<p, l>>, q), Ev(2, "deckAdd", <<p2, l>>, q)}
  <2>1. PICK r : Writes(r, log \cup InBatch(N)) /\ UNCHANGED trades
    BY <1>6 DEF Move
  <2>2. \A e \in N : \E i, kind, at, m : e = Ev(i, kind, at, m)
    OBVIOUS
  <2>3. Notes(InBatch(N), {})
    BY <2>2, NotesBatch
  <2> QED
    BY <2>1, <2>3, WritesKeeps
<1> QED
  BY <1>1, <1>2, <1>3, <1>4, <1>5, <1>6 DEF OfSlots

LEMMA OfTradesKeeps == HistoryInv /\ OfTrades => HistoryInv'
<1> SUFFICES ASSUME HistoryInv, NEW t \in Trade, NEW g \in Copy, NEW c \in Copy,
                    NEW n \in Qty, NEW m \in Upto, ApplyCompletedTrade(t, g, n, c, m)
             PROVE  HistoryInv'
  BY DEF OfTrades
<1> DEFINE had == rows.owned[g]
           claiming == {p \in Place : rows.slots[p][g] > 0}
           gone == [Ev(2, "remove", g, n) EXCEPT !.ts = IF n > had THEN clock + 1 ELSE clock]
           E(dec) == (IF n > had THEN {Ev(1, "add", g, n - had)} ELSE {})
                     \cup {gone}
                     \cup (IF m > 0 THEN {Ev(3, "add", c, m)} ELSE {})
                     \cup {Ev(l, "fulfilled", c, dec[l]) : l \in {x \in Line : dec[x] > 0}}
           F(take) == {Ev(p, "deckRemove", <<p, g>>, take[p]) : p \in {x \in claiming : take[x] > 0}}
<1>1. /\ t \notin trades /\ (trouble # "redelivered" => ~Undone(t))
      /\ trades' = trades \cup {t}
      /\ \E take, dec, r : Writes(r, log \cup InTrade(t, E(dec)) \cup InBatch(F(take)))
  BY DEF ApplyCompletedTrade, Expected
<1>2. PICK take, dec, r : Writes(r, log \cup InTrade(t, E(dec)) \cup InBatch(F(take)))
  BY <1>1
<1>3. /\ Shaped(gone) /\ gone.id = <<clock, 2>> /\ gone.ts \in {clock, clock + 1}
      /\ gone.kind = "remove" /\ ~gone.hand
  <2> DEFINE e == Ev(2, "remove", g, n)
             time == IF n > had THEN clock + 1 ELSE clock
  <2>1. Shaped(e) /\ e.id = <<clock, 2>> /\ e.kind = "remove" /\ ~e.hand
    BY EvIs
  <2>2. time \in {clock, clock + 1}
    OBVIOUS
  <2> HIDE DEF e, time
  <2>3. [e EXCEPT !.ts = time] = [id |-> e.id, ts |-> time, kind |-> e.kind, at |-> e.at,
                                  qty |-> e.qty, ref |-> e.ref, hand |-> e.hand]
    BY <2>1, TimeReplaced
  <2>4. LET b == [e EXCEPT !.ts = time]
        IN  /\ Shaped(b) /\ b.id = <<clock, 2>> /\ b.ts \in {clock, clock + 1}
            /\ b.kind = "remove" /\ ~b.hand
    BY <2>1, <2>2, <2>3 DEF Shaped
  <2> QED
    BY <2>4 DEF e, time
<1> HIDE DEF gone
<1>4. \A e \in E(dec) : /\ Shaped(e) /\ e.id = <<clock, e.id[2]>> /\ e.ts \in {clock, clock + 1}
                        /\ e.kind \in {"add", "remove", "fulfilled"} /\ ~e.hand
                        /\ e.kind = "remove" => e = gone
  <2>1. \A e \in E(dec) : \/ e = gone
                           \/ \E i, kind, at, q : kind \in {"add", "fulfilled"} /\ e = Ev(i, kind, at, q)
    OBVIOUS
  <2> HIDE DEF E
  <2> TAKE e \in E(dec)
  <2>2. CASE e = gone
    BY <1>3, <2>2
  <2>3. CASE e # gone
    <3>1. PICK i, kind, at, q : kind \in {"add", "fulfilled"} /\ e = Ev(i, kind, at, q)
      BY <2>1, <2>3
    <3> QED
      BY <2>3, <3>1, EvIs
  <2> QED
    BY <2>2, <2>3
<1>5. \A e \in F(take) : \E i, at, q : e = Ev(i, "deckRemove", at, q)
  OBVIOUS
<1> DEFINE N == InTrade(t, E(dec)) \cup InBatch(F(take))
<1> HIDE DEF E, F
<1>6. Notes(N, {t})
  BY <1>4, <1>5, NotesTrade
<1>7. /\ log' = log \cup N /\ clock' = clock + 2
      /\ UNCHANGED <<redo, own, asked, replayed, trouble, spoiled>>
  BY <1>2 DEF Writes, redoVars
<1> QED
  BY <1>1, <1>6, <1>7, WriteKeeps

-----------------------------------------------------------------------------
(***************************************************************************)
(* The redo stack.                                                         *)
(***************************************************************************)
\* What is pushed is the newest; all else was there, in its order.
LEMMA PushedIs ==
  ASSUME NEW S, redo \in Seq(S), NEW x
  PROVE  /\ Pushed(x) \in Seq(S \cup {x})
         /\ \E d \in {0, 1} : \A j \in DOMAIN Pushed(x) :
              \/ j = Len(Pushed(x)) /\ Pushed(x)[j] = x
              \/ j + d \in DOMAIN redo /\ Pushed(x)[j] = redo[j + d]
<1> DEFINE s == Append(redo, x)
<1>1. /\ s \in Seq(S \cup {x}) /\ Len(s) = Len(redo) + 1
      /\ \A i \in 1..Len(redo) : s[i] = redo[i]
      /\ s[Len(redo) + 1] = x /\ DOMAIN redo = 1..Len(redo) /\ Len(redo) \in Nat
  <2>1. redo \in Seq(S \cup {x})
    OBVIOUS
  <2> QED
    BY <2>1
<1> HIDE DEF s
<1>2. CASE Pushed(x) = s
  <2>1. \A j \in DOMAIN s : j = Len(s) \/ (j + 0 \in DOMAIN redo /\ s[j] = redo[j + 0])
    BY <1>1
  <2> QED
    BY <1>1, <1>2, <2>1
<1>3. CASE Pushed(x) = Tail(s)
  <2>1. s # <<>>
    BY <1>1
  <2>2. /\ Tail(s) \in Seq(S \cup {x}) /\ Len(Tail(s)) = Len(redo)
        /\ \A j \in 1..Len(redo) : Tail(s)[j] = s[j + 1]
        /\ DOMAIN Tail(s) = 1..Len(redo)
    BY <1>1, <2>1
  <2>3. \A j \in DOMAIN Tail(s) :
          \/ j = Len(Tail(s)) /\ Tail(s)[j] = x
          \/ j + 1 \in DOMAIN redo /\ Tail(s)[j] = redo[j + 1]
    BY <1>1, <2>2
  <2> QED
    BY <1>3, <2>2, <2>3
<1> QED
  BY <1>2, <1>3 DEF Pushed, s

\* Without an item that is in it, the stack is what it was before and behind it.
LEMMA KeptIs ==
  ASSUME NEW S, redo \in Seq(S), NEW x
  PROVE  /\ Kept(x) \in Seq(S)
         /\ \/ Kept(x) = redo /\ \A i \in DOMAIN redo : redo[i] # x
            \/ \E m \in DOMAIN redo :
                 /\ redo[m] = x
                 /\ \A j \in DOMAIN Kept(x) :
                      \/ j < m /\ j \in DOMAIN redo /\ Kept(x)[j] = redo[j]
                      \/ j >= m /\ j + 1 \in DOMAIN redo /\ Kept(x)[j] = redo[j + 1]
<1> DEFINE I == {i \in 1..Len(redo) : redo[i] = x}
<1>1. DOMAIN redo = 1..Len(redo) /\ Len(redo) \in Nat
  OBVIOUS
<1>2. CASE I = {}
  <2>1. ~\E i \in 1..Len(redo) : redo[i] = x
    BY <1>2
  <2> QED
    BY <1>1, <2>1 DEF Kept, RemoveFirst
<1>3. CASE I # {}
  <2> DEFINE m == Min(I)
  <2> HIDE DEF I
  <2>1. m \in I
    <3>1. I \subseteq Nat
      BY DEF I
    <3> QED
      BY <1>3, <3>1, LeastIs
  <2> USE DEF I
  <2>2. Kept(x) = RemoveAt(redo, m)
    BY <1>3 DEF Kept, RemoveFirst, SelectInSeq
  <2> HIDE DEF m
  <2>3. m \in 1..Len(redo) /\ redo[m] = x
    BY <2>1
  <2> DEFINE u == SubSeq(redo, 1, m - 1)
             v == SubSeq(redo, m + 1, Len(redo))
  <2> HIDE DEF I
  <2>4. /\ u \in Seq(S) /\ Len(u) = m - 1 /\ \A j \in 1..(m - 1) : u[j] = redo[j]
    <3>1. m - 1 \in Nat /\ 1 \in Int /\ \A i \in 1..(m - 1) : redo[i] \in S
      BY <1>1, <2>3
    <3>2. /\ u \in Seq(S) /\ Len(u) = IF 1 <= m - 1 THEN m - 1 - 1 + 1 ELSE 0
          /\ \A j \in 1..(m - 1 - 1 + 1) : u[j] = redo[1 + j - 1]
      BY <3>1, SubSeqProperties
    <3> QED
      BY <3>1, <3>2
  <2>5. /\ v \in Seq(S) /\ Len(v) = Len(redo) - m
        /\ \A j \in 1..(Len(redo) - m) : v[j] = redo[m + j]
    <3>1. /\ m + 1 \in Int /\ Len(redo) \in Int
          /\ \A i \in (m + 1)..Len(redo) : redo[i] \in S
      BY <1>1, <2>3
    <3>2. /\ v \in Seq(S)
          /\ Len(v) = IF m + 1 <= Len(redo) THEN Len(redo) - (m + 1) + 1 ELSE 0
          /\ \A j \in 1..(Len(redo) - (m + 1) + 1) : v[j] = redo[m + 1 + j - 1]
      BY <3>1, SubSeqProperties
    <3>3. /\ Len(redo) - (m + 1) + 1 = Len(redo) - m
          /\ ~(m + 1 <= Len(redo)) => Len(redo) - m = 0
          /\ \A j \in 1..(Len(redo) - m) : m + 1 + j - 1 = m + j
      <4>1. m \in Nat /\ Len(redo) \in Nat /\ m <= Len(redo)
        BY <1>1, <2>3
      <4> QED
        BY <4>1
    <3> HIDE DEF v
    <3> QED
      BY <3>2, <3>3
  <2> HIDE DEF u, v
  <2>6. /\ u \o v \in Seq(S) /\ Len(u \o v) = Len(redo) - 1
        /\ DOMAIN (u \o v) = 1..(Len(redo) - 1)
        /\ \A j \in 1..(Len(redo) - 1) :
             (u \o v)[j] = IF j <= m - 1 THEN u[j] ELSE v[j - (m - 1)]
    <3>1. /\ u \o v \in Seq(S) /\ Len(u \o v) = Len(u) + Len(v)
          /\ \A j \in 1..(Len(u) + Len(v)) :
               (u \o v)[j] = IF j <= Len(u) THEN u[j] ELSE v[j - Len(u)]
      BY <2>4, <2>5, ConcatProperties
    <3>2. Len(u) + Len(v) = Len(redo) - 1
      BY <1>1, <2>3, <2>4, <2>5
    <3>3. DOMAIN (u \o v) = 1..Len(u \o v)
      BY <3>1
    <3> QED
      BY <2>4, <3>1, <3>2, <3>3
  <2>7. \A j \in 1..(Len(redo) - 1) :
          \/ j < m /\ j \in DOMAIN redo /\ (u \o v)[j] = redo[j]
          \/ j >= m /\ j + 1 \in DOMAIN redo /\ (u \o v)[j] = redo[j + 1]
    <3> TAKE j \in 1..(Len(redo) - 1)
    <3>1. CASE j < m
      <4>1. j <= m - 1 /\ j \in 1..(m - 1) /\ j \in 1..Len(redo)
        BY <1>1, <2>3, <3>1
      <4> QED
        BY <1>1, <2>4, <2>6, <3>1, <4>1
    <3>2. CASE j >= m
      <4>1. /\ j - (m - 1) \in 1..(Len(redo) - m) /\ m + (j - (m - 1)) = j + 1
            /\ ~(j <= m - 1) /\ j + 1 \in 1..Len(redo)
        BY <1>1, <2>3, <3>2
      <4>2. (u \o v)[j] = v[j - (m - 1)]
        BY <2>6, <4>1
      <4>3. v[j - (m - 1)] = redo[m + (j - (m - 1))]
        BY <2>5, <4>1
      <4>4. (u \o v)[j] = redo[j + 1]
        BY <4>1, <4>2, <4>3
      <4> QED
        BY <1>1, <3>2, <4>1, <4>4
    <3>3. j < m \/ j >= m
      BY <1>1, <2>3
    <3> QED
      BY <3>1, <3>2, <3>3
  <2>8. Kept(x) = u \o v
    BY <2>2 DEF RemoveAt, u, v
  <2> QED
    BY <1>1, <2>3, <2>6, <2>7, <2>8
<1> QED
  BY <1>2, <1>3

-----------------------------------------------------------------------------
(***************************************************************************)
(* Undo.                                                                   *)
(***************************************************************************)
\* What is undone is a group, or some events that were noted alone.
LEMMA EventsOfIs ==
  ASSUME NEW ref \in Refs
  PROVE  /\ EventsOf(ref) \subseteq log /\ EventsOf(ref) # {}
         /\ \A e \in log : e.ref = ref => e \in EventsOf(ref)
         /\ ref[1] # "single" => \A e \in EventsOf(ref) : e.ref = ref
         /\ ref[1] = "single" => \A e \in EventsOf(ref) : Single(e)
         /\ \A e \in EventsOf(ref) : \E one \in log : one.ref = ref /\ e.ts = one.ts
<1> DEFINE E == {e \in log : e.ref = ref}
<1>1. PICK e \in log : e.ref = ref
  BY DEF Refs
<1>2. E \subseteq EventsOf(ref)
  BY DEF EventsOf
<1>3. CASE ref[1] # "single"
  BY <1>1, <1>2, <1>3 DEF EventsOf
<1>4. CASE ref[1] = "single"
  <2>1. \A f \in EventsOf(ref) : f \in E \/ \E one \in E : f \in Paired(one)
    BY <1>4 DEF EventsOf
  <2>2. \A one \in E : \A f \in Paired(one) : f \in log /\ f.ts = one.ts /\ Single(f)
    BY DEF Paired, Single
  <2>3. \A f \in E : Single(f)
    BY <1>4 DEF Single
  <2> QED
    BY <1>1, <1>2, <1>4, <2>1, <2>2, <2>3
<1> QED
  BY <1>3, <1>4

\* Events that are undone together are apart.
LEMMA UndoneApart ==
  ASSUME Base, \A e, f \in log : Parted(e, f), NEW ref \in Refs,
         NEW e \in EventsOf(ref), NEW f \in EventsOf(ref), Single(e), e # f
  PROVE  KeyOf(e) # KeyOf(f) /\ e.id # f.id
<1>1. e \in log /\ f \in log
  BY EventsOfIs
<1>2. ref[1] = "single"
  BY EventsOfIs DEF Single
<1>3. Single(f)
  BY <1>2, EventsOfIs
<1>4. e.ref = <<"single", e.id>> /\ f.ref = <<"single", f.id>>
  <2>1. EventOK(e, clock) /\ EventOK(f, clock)
    BY <1>1 DEF Base
  <2> QED
    BY <1>3, <2>1 DEF EventOK, Single
<1>5. e.ref # f.ref
  BY <1>1 DEF Parted
<1>6. PICK one \in log, two \in log : /\ one.ref = ref /\ e.ts = one.ts
                                      /\ two.ref = ref /\ f.ts = two.ts
  BY EventsOfIs
<1>7. one = two
  BY <1>2, <1>6 DEF Parted, Single
<1>8. Moment(e) = Moment(f)
  BY <1>6, <1>7 DEF Moment
<1>9. KeyOf(e) # KeyOf(f)
  BY <1>1, <1>5, <1>8 DEF Parted
<1> QED
  BY <1>4, <1>5, <1>9

LEMMA UndoKeeps ==
  ASSUME HistoryInv, NEW ref \in Refs, NEW keys \in BOOLEAN, Undo(ref, keys)
  PROVE  HistoryInv'
<1> USE DEF HistoryInv
<1> DEFINE E == EventsOf(ref)
           item == [events |-> E, since |-> clock,
                    trade |-> IF ref[1] = "trade" THEN {ref[2]} ELSE {}]
<1>1. /\ trouble = "hurry" \/ asked = {}
      /\ log' = log \ E
      /\ trades' = IF ref[1] = "trade" THEN trades \ {ref[2]} ELSE trades
      /\ redo' = IF keys THEN Pushed(item) ELSE redo
      /\ clock' = clock + 2
      /\ spoiled' = spoiled \cup {<<"trade", t>> : t \in item.trade}
                            \cup (IF keys THEN {} ELSE KeysOf(E))
      /\ UNCHANGED <<own, asked, replayed, trouble>>
  BY DEF Undo
<1> DEFINE x == item
<1>2. x.events = E /\ x.since = clock /\ x.trade = IF ref[1] = "trade" THEN {ref[2]} ELSE {}
  OBVIOUS
<1>3. /\ redo' = IF keys THEN Pushed(x) ELSE redo
      /\ spoiled \subseteq spoiled'
      /\ ref[1] = "trade" => <<"trade", ref[2]>> \in spoiled'
  BY <1>1
<1> HIDE DEF item, x
<1>4. PICK k \in Nat : clock = 2 * k
  BY DEF Base
<1>5. clock \in Nat /\ clock' \in Nat /\ clock <= clock' /\ clock' = 2 * (k + 1)
  BY <1>1, <1>4
<1>6. PICK S : redo \in Seq(S)
  BY DEF Base
<1>7. /\ \E U : redo' \in Seq(U)
      /\ \E d \in {0, 1} : \A j \in DOMAIN redo' :
           \/ j = Len(redo') /\ redo'[j] = x
           \/ j + d \in DOMAIN redo /\ redo'[j] = redo[j + d]
  <2>1. CASE keys
    BY <1>3, <1>6, <2>1, PushedIs
  <2>2. CASE ~keys
    <3>1. redo' = redo /\ DOMAIN redo = 1..Len(redo) /\ Len(redo) \in Nat
      BY <1>3, <1>6, <2>2
    <3>2. \A j \in DOMAIN redo' : j + 0 \in DOMAIN redo /\ redo'[j] = redo[j + 0]
      BY <3>1
    <3> QED
      BY <1>6, <3>1, <3>2
  <2> QED
    BY <2>1, <2>2
<1>8. PICK d \in {0, 1} : \A j \in DOMAIN redo' :
        \/ j = Len(redo') /\ redo'[j] = x
        \/ j + d \in DOMAIN redo /\ redo'[j] = redo[j + d]
  BY <1>7
<1>9. \A j \in DOMAIN redo' : redo'[j] = x \/ \E i \in DOMAIN redo : redo'[j] = redo[i]
  BY <1>8
<1>10. E \subseteq log /\ log' \subseteq log
  BY <1>1, EventsOfIs
<1>11. ItemOK(x, clock')
  <2>1. \A e \in E : EventOK(e, clock')
    BY <1>5, <1>10, Older DEF Base
  <2>2. x.since \in 0..(clock' - 1)
    <3>1. clock \in 0..(clock + 2 - 1)
      BY <1>5
    <3> QED
      BY <1>1, <1>2, <3>1
  <2>3. \A e, f \in E : ~Single(e) => f.ref = e.ref
    BY EventsOfIs
  <2>4. \A e \in E : e.ref[1] = "trade" => e.ref[2] \in x.trade
    BY <1>2, EventsOfIs DEF Single
  <2> QED
    BY <1>2, <2>1, <2>2, <2>3, <2>4 DEF ItemOK
<1>12. Base'
  <2>1. \A e \in log' : EventOK(e, clock')
    BY <1>5, <1>10, Older DEF Base
  <2>2. \A i \in DOMAIN redo' : ItemOK(redo'[i], clock')
    BY <1>5, <1>9, <1>11, Older DEF Base
  <2>3. \A a \in asked' : ItemOK(a.item, clock')
    BY <1>1, <1>5, Older DEF Base
  <2>4. \A i \in own' : i[1] \in 0..(clock' - 1)
    BY <1>1, <1>5 DEF Base
  <2>5. \E i \in Nat : clock' = 2 * i
    BY <1>5
  <2> QED
    BY <1>7, <2>1, <2>2, <2>3, <2>4, <2>5 DEF Base
<1>13. OwnAsWritten'
  BY <1>1, <1>10 DEF OwnAsWritten
<1>14. DOMAIN redo' \subseteq Int
  <2>1. PICK U : redo' \in Seq(U)
    BY <1>7
  <2> QED
    BY <2>1
<1>15. StackOK'
  <2> SUFFICES ASSUME trouble # "hurry" PROVE StackOK'
    BY <1>1 DEF StackOK
  <2>1. \A i \in DOMAIN redo : redo[i].since # clock
    BY <1>5 DEF Base, ItemOK
  <2>2. clock \notin replayed
    BY <1>5 DEF StackOK
  <2>3. ASSUME NEW i \in DOMAIN redo', NEW j \in DOMAIN redo', redo'[i].since = redo'[j].since
        PROVE  i = j
    <3>1. CASE redo'[i] = x \/ redo'[j] = x
      <4>1. redo'[i].since = clock /\ redo'[j].since = clock
        BY <1>2, <2>3, <3>1
      <4> QED
        BY <1>8, <2>1, <4>1
    <3>2. CASE redo'[i] # x /\ redo'[j] # x
      <4>1. i + d = j + d
        BY <1>8, <2>3, <3>2 DEF StackOK
      <4>2. i \in Int /\ j \in Int /\ d \in Int
        BY <1>8, <1>14
      <4>3. \A m, n, o \in Int : m + o = n + o => m = n
        OBVIOUS
      <4> QED
        BY <4>1, <4>2, <4>3, Zenon
    <3> QED
      BY <3>1, <3>2
  <2>4. \A i \in DOMAIN redo' : redo'[i].since \notin replayed
    BY <1>2, <1>9, <2>2 DEF StackOK
  <2>5. \A n \in replayed : n \in 0..(clock' - 1)
    BY <1>5 DEF StackOK
  <2> QED
    BY <1>1, <2>3, <2>4, <2>5 DEF StackOK
<1>16. EntriesOK'
  <2> SUFFICES ASSUME Orderly PROVE EntriesOK'
    BY <1>1 DEF EntriesOK, Orderly
  <2>1. \A e, f \in log : Parted(e, f)
    BY DEF EntriesOK
  <2>2. Apart(x)
    BY <1>2, <2>1, UndoneApart DEF Apart
  <2>3. \A i \in DOMAIN redo' : Apart(redo'[i])
    BY <1>9, <2>2 DEF EntriesOK
  <2>4. ASSUME NEW e \in E, ~Single(e)
        PROVE  /\ e.ref = ref
               /\ \A f \in log' : f.ref # e.ref
               /\ \A i \in DOMAIN redo : \A f \in redo[i].events : f.ref # e.ref
               /\ e.ref[1] = "trade" => e.ref \in spoiled'
    <3>1. e.ref = ref
      BY <2>4, EventsOfIs
    <3>2. \A f \in log' : f.ref # ref
      BY <1>1, EventsOfIs
    <3>3. ASSUME NEW i \in DOMAIN redo, NEW f \in redo[i].events, f.ref = e.ref PROVE FALSE
      <4>1. ~Single(f)
        BY <2>4, <3>3 DEF Single
      <4> QED
        BY <1>10, <3>3, <4>1 DEF EntriesOK
    <3>4. e.ref[1] = "trade" => e.ref = <<"trade", e.ref[2]>>
      <4>1. EventOK(e, clock)
        BY <1>10 DEF Base
      <4> QED
        BY <4>1 DEF EventOK
    <3> QED
      BY <1>3, <3>1, <3>2, <3>3, <3>4
  <2>5. ASSUME NEW i \in DOMAIN redo', NEW e \in redo'[i].events, ~Single(e)
        PROVE  /\ \A f \in log' : f.ref # e.ref
               /\ \A j \in DOMAIN redo' : \A f \in redo'[j].events : f.ref = e.ref => i = j
               /\ e.ref[1] = "trade" => e.ref \in spoiled'
    <3>1. CASE redo'[i] = x
      <4>1. e \in E
        BY <1>2, <3>1
      <4>2. ASSUME NEW j \in DOMAIN redo', NEW f \in redo'[j].events, f.ref = e.ref PROVE i = j
        <5>1. redo'[j] = x
          BY <1>9, <2>4, <2>5, <4>1, <4>2
        <5>2. \A m \in DOMAIN redo : redo[m] # x
          BY <1>2, <2>4, <2>5, <4>1
        <5> QED
          BY <1>8, <3>1, <5>1, <5>2
      <4> QED
        BY <2>4, <2>5, <4>1, <4>2
    <3>2. CASE redo'[i] # x
      <4>1. i + d \in DOMAIN redo /\ redo'[i] = redo[i + d]
        BY <1>8, <3>2
      <4>2. \A f \in log : f.ref # e.ref
        BY <2>5, <4>1 DEF EntriesOK
      <4>3. ASSUME NEW j \in DOMAIN redo', NEW f \in redo'[j].events, f.ref = e.ref PROVE i = j
        <5>1. redo'[j] # x
          BY <1>2, <1>10, <4>2, <4>3
        <5>2. j + d \in DOMAIN redo /\ redo'[j] = redo[j + d]
          BY <1>8, <5>1
        <5>3. i + d = j + d
          BY <2>5, <4>1, <4>3, <5>2 DEF EntriesOK
        <5> QED
          BY <1>14, <5>3
      <4>4. e.ref[1] = "trade" => e.ref \in spoiled'
        BY <1>3, <2>5, <4>1 DEF EntriesOK
      <4> QED
        BY <1>10, <4>2, <4>3, <4>4
    <3> QED
      BY <3>1, <3>2
  <2>6. ASSUME NEW e \in log', e.ref[1] = "trade" PROVE e.ref[2] \in trades'
    <3>1. e.ref[2] \in trades /\ EventOK(e, clock)
      BY <1>10, <2>6 DEF EntriesOK, Base
    <3>2. e.ref # ref
      BY <1>1, EventsOfIs
    <3>3. PICK r \in log : r.ref = ref /\ EventOK(r, clock)
      BY DEF Refs, Base
    <3>4. ref[1] = "trade" => ref = <<"trade", ref[2]>>
      BY <3>3 DEF EventOK
    <3>5. e.ref = <<"trade", e.ref[2]>>
      BY <2>6, <3>1 DEF EventOK
    <3> QED
      BY <1>1, <3>1, <3>2, <3>4, <3>5
  <2>7. Once(log') /\ Once(E)
    BY <1>10 DEF EntriesOK, Once
  <2>8. \A i \in DOMAIN redo' : Once(redo'[i].events)
    BY <1>2, <1>9, <2>7 DEF EntriesOK
  <2>9. \A e, f \in log' : Parted(e, f)
    BY <1>10, <2>1
  <2> QED
    BY <2>3, <2>5, <2>6, <2>7, <2>8, <2>9 DEF EntriesOK
<1> QED
  BY <1>12, <1>13, <1>15, <1>16

-----------------------------------------------------------------------------
(***************************************************************************)
(* Redo.                                                                   *)
(***************************************************************************)
LEMMA AskRedoKeeps ==
  ASSUME HistoryInv, NEW scope \in Scopes, AskRedo(scope)
  PROVE  HistoryInv'
<1> USE DEF HistoryInv
<1> DEFINE mine == Matching(scope)
           item == redo[Max(mine)]
           a == [item |-> item, press |-> 1 + Cardinality(asked)]
<1>1. /\ mine # {} /\ (asked # {} => trouble = "hurry")
      /\ asked' = asked \cup {a}
      /\ UNCHANGED <<rows, log, trades, redo, own, replayed, clock, writes, undos, trouble, spoiled>>
  BY DEF AskRedo
<1>2. Max(mine) \in DOMAIN redo
  <2>1. PICK S : redo \in Seq(S)
    BY DEF Base
  <2>2. Len(redo) \in Nat /\ DOMAIN redo = 1..Len(redo) /\ mine \subseteq 1..Len(redo)
    BY <2>1 DEF Matching
  <2>3. mine \subseteq 0..Len(redo)
    BY <2>2
  <2> HIDE DEF mine
  <2>4. Max(mine) \in mine
    BY <1>1, <2>2, <2>3, GreatestIs
  <2> QED
    BY <2>2, <2>4
<1>3. a.item = item /\ \E i \in DOMAIN redo : redo[i] = a.item
  BY <1>2
<1> HIDE DEF mine, item, a
<1>4. Base'
  <2>1. ItemOK(a.item, clock)
    BY <1>3 DEF Base
  <2>2. \A b \in asked' : ItemOK(b.item, clock)
    BY <1>1, <2>1 DEF Base
  <2>3. UNCHANGED <<clock, redo, log, own>>
    BY <1>1
  <2> QED
    BY <2>2, <2>3 DEF Base
<1>5. OwnAsWritten'
  BY <1>1 DEF OwnAsWritten
<1>6. StackOK'
  BY <1>1, <1>3 DEF StackOK
<1>7. EntriesOK'
  BY <1>1 DEF EntriesOK, Orderly
<1> QED
  BY <1>4, <1>5, <1>6, <1>7

LEMMA ReloadKeeps == HistoryInv /\ Reload => HistoryInv'
<1> SUFFICES ASSUME HistoryInv, Reload PROVE HistoryInv'
  OBVIOUS
<1> USE DEF HistoryInv
<1>1. /\ redo' = <<>> /\ own' = {} /\ asked' = {}
      /\ UNCHANGED <<rows, log, trades, replayed, clock, writes, undos, trouble, spoiled>>
  BY DEF Reload
<1>2. redo' \in Seq({}) /\ DOMAIN redo' = {}
  BY <1>1
<1>3. Base'
  BY <1>1, <1>2 DEF Base
<1>4. OwnAsWritten' /\ StackOK' /\ EntriesOK'
  BY <1>1, <1>2 DEF OwnAsWritten, StackOK, EntriesOK, Orderly
<1> QED
  BY <1>3, <1>4

\* The stack without the item that was replayed or refused.
LEMMA DropKeeps ==
  ASSUME Base, StackOK, NEW a \in asked, redo' = Kept(a.item)
  PROVE  /\ \E U : redo' \in Seq(U)
         /\ \A j \in DOMAIN redo' : \E i \in DOMAIN redo : redo'[j] = redo[i]
         /\ trouble # "hurry" =>
              \E m \in DOMAIN redo, h \in [DOMAIN redo' -> DOMAIN redo] :
                /\ redo[m] = a.item
                /\ \A j \in DOMAIN redo' : h[j] \in DOMAIN redo /\ h[j] # m /\ redo'[j] = redo[h[j]]
                /\ \A i, j \in DOMAIN redo' : h[i] = h[j] => i = j
<1>1. PICK S : redo \in Seq(S)
  BY DEF Base
<1>2. /\ redo' \in Seq(S)
      /\ \/ redo' = redo /\ \A i \in DOMAIN redo : redo[i] # a.item
         \/ \E m \in DOMAIN redo :
              /\ redo[m] = a.item
              /\ \A j \in DOMAIN redo' :
                   \/ j < m /\ j \in DOMAIN redo /\ redo'[j] = redo[j]
                   \/ j >= m /\ j + 1 \in DOMAIN redo /\ redo'[j] = redo[j + 1]
  BY <1>1, KeptIs
<1>3. CASE redo' = redo /\ \A i \in DOMAIN redo : redo[i] # a.item
  BY <1>2, <1>3 DEF StackOK
<1>4. ASSUME NEW m \in DOMAIN redo, redo[m] = a.item,
             \A j \in DOMAIN redo' :
               \/ j < m /\ j \in DOMAIN redo /\ redo'[j] = redo[j]
               \/ j >= m /\ j + 1 \in DOMAIN redo /\ redo'[j] = redo[j + 1]
      PROVE  \E h \in [DOMAIN redo' -> DOMAIN redo] :
               /\ \A j \in DOMAIN redo' : h[j] \in DOMAIN redo /\ h[j] # m /\ redo'[j] = redo[h[j]]
               /\ \A i, j \in DOMAIN redo' : h[i] = h[j] => i = j
  <2> DEFINE h == [j \in DOMAIN redo' |-> IF j < m THEN j ELSE j + 1]
  <2>1. DOMAIN redo' \subseteq Int /\ m \in Int
    BY <1>1, <1>2
  <2>2. \A j \in DOMAIN redo' : h[j] \in DOMAIN redo /\ h[j] # m /\ redo'[j] = redo[h[j]]
    BY <1>4, <2>1
  <2>3. \A i, j \in DOMAIN redo' : h[i] = h[j] => i = j
    BY <2>1
  <2>4. h \in [DOMAIN redo' -> DOMAIN redo]
    BY <2>2
  <2> HIDE DEF h
  <2> QED
    BY <2>2, <2>3, <2>4
<1>5. CASE \E m \in DOMAIN redo :
              /\ redo[m] = a.item
              /\ \A j \in DOMAIN redo' :
                   \/ j < m /\ j \in DOMAIN redo /\ redo'[j] = redo[j]
                   \/ j >= m /\ j + 1 \in DOMAIN redo /\ redo'[j] = redo[j + 1]
  <2>1. PICK m \in DOMAIN redo :
              /\ redo[m] = a.item
              /\ \A j \in DOMAIN redo' :
                   \/ j < m /\ j \in DOMAIN redo /\ redo'[j] = redo[j]
                   \/ j >= m /\ j + 1 \in DOMAIN redo /\ redo'[j] = redo[j + 1]
    BY <1>5
  <2>2. \E h \in [DOMAIN redo' -> DOMAIN redo] :
          /\ \A j \in DOMAIN redo' : h[j] \in DOMAIN redo /\ h[j] # m /\ redo'[j] = redo[h[j]]
          /\ \A i, j \in DOMAIN redo' : h[i] = h[j] => i = j
    BY <1>4, <2>1
  <2>3. \A j \in DOMAIN redo' : \E i \in DOMAIN redo : redo'[j] = redo[i]
    BY <2>1
  <2> QED
    BY <1>2, <2>1, <2>2, <2>3
<1> QED
  BY <1>2, <1>3, <1>5

\* What redo writes of what was undone.
Anew(e) == [e EXCEPT !.id = <<clock, @>>, !.ts = clock,
                     !.ref = IF @[1] = "single" THEN <<"single", <<clock, e.id>>>> ELSE @]
LEMMA FreshIs ==
  ASSUME NEW E, \A e \in E : EventOK(e, clock), NEW k \in Nat, clock = 2 * k
  PROVE  \A f \in Fresh(E) : \E e \in E :
           /\ f = Anew(e) /\ EventOK(f, clock + 2) /\ Moment(f) = k
           /\ f.id = <<clock, e.id>> /\ f.ts = clock /\ f.kind = e.kind /\ f.at = e.at
           /\ KeyOf(f) = KeyOf(e)
           /\ Single(e) => f.ref = <<"single", f.id>>
           /\ ~Single(e) => f.ref = e.ref
<1> TAKE f \in Fresh(E)
<1>1. PICK e \in E : f = Anew(e)
  BY DEF Fresh, Anew
<1>2. PICK id, ref : /\ id = <<clock, e.id>>
                     /\ ref = IF e.ref[1] = "single" THEN <<"single", <<clock, e.id>>>> ELSE e.ref
  OBVIOUS
<1>3. EventOK(e, clock)
  OBVIOUS
<1>4. Shaped(e)
  BY <1>3 DEF EventOK
<1>5. f = [e EXCEPT !.id = id, !.ts = clock, !.ref = ref]
  BY <1>1, <1>2, <1>4 DEF Anew
<1>6. [e EXCEPT !.id = id, !.ts = clock, !.ref = ref]
      = [id |-> id, ts |-> clock, kind |-> e.kind, at |-> e.at,
         qty |-> e.qty, ref |-> ref, hand |-> e.hand]
  <2>1. \A x, y, z : [e EXCEPT !.id = x, !.ts = y, !.ref = z]
                     = [id |-> x, ts |-> y, kind |-> e.kind, at |-> e.at,
                        qty |-> e.qty, ref |-> z, hand |-> e.hand]
    BY <1>4, Renewed, Zenon
  <2> QED
    BY <2>1, Zenon
<1>7. /\ Shaped(f) /\ f.id = <<clock, e.id>> /\ f.ts = clock /\ f.kind = e.kind
      /\ f.at = e.at /\ f.ref = ref /\ f.hand = e.hand
  BY <1>2, <1>5, <1>6 DEF Shaped
<1>8. KeyOf(f) = KeyOf(e)
  BY <1>7 DEF KeyOf
<1>9. Moment(f) = k
  BY <1>7 DEF Moment
<1>10. /\ Single(e) => f.ref = <<"single", f.id>>
       /\ ~Single(e) => f.ref = e.ref
  BY <1>2, <1>7 DEF Single
<1>11. EventOK(f, clock + 2)
  <2>1. clock \in 0..(clock + 2 - 1) /\ clock <= clock + 2 /\ clock \in Nat /\ clock + 2 \in Nat
    OBVIOUS
  <2>2. EventOK(e, clock + 2)
    BY <1>3, <2>1, Older
  <2>3. f.hand => Single(f)
    <3>1. f.hand => Single(e)
      BY <1>3, <1>7 DEF EventOK
    <3> QED
      BY <1>10, <3>1 DEF Single
  <2>4. \/ f.ref = <<"single", f.id>>
        \/ \E c \in 0..(clock + 2 - 1) : f.ref = <<"batch", <<c, 0>>>>
        \/ \E t \in Trade : f.ref = <<"trade", t>>
    <3>1. CASE Single(e)
      BY <1>10, <3>1
    <3>2. CASE ~Single(e)
      BY <1>10, <2>2, <3>2 DEF EventOK, Single
    <3> QED
      BY <3>1, <3>2
  <2>5. f.id = <<f.id[1], f.id[2]>> /\ f.id[1] = clock
    BY <1>7
  <2> QED
    BY <1>7, <2>1, <2>3, <2>4, <2>5 DEF EventOK
<1> QED
  BY <1>1, <1>7, <1>8, <1>9, <1>10, <1>11

LEMMA RedoKeeps ==
  ASSUME HistoryInv, NEW a \in asked, Redo(a)
  PROVE  HistoryInv'
<1> USE DEF HistoryInv
<1> DEFINE E == a.item.events
<1>1. /\ asked' = asked \ {a} /\ redo' = Kept(a.item) /\ trouble' = trouble
      /\ \/ /\ spoiled' = spoiled \cup KeysOf(E)
            /\ UNCHANGED <<rows, log, trades, own, replayed, clock>>
         \/ /\ log' = log \cup Fresh(E) /\ trades' = trades \cup a.item.trade
            /\ own' = own \cup {e.id : e \in Fresh(E)}
            /\ replayed' = replayed \cup {a.item.since}
            /\ clock' = clock + 2 /\ UNCHANGED spoiled
  BY DEF Redo, Restored
<1>2. /\ \E U : redo' \in Seq(U)
      /\ \A j \in DOMAIN redo' : \E i \in DOMAIN redo : redo'[j] = redo[i]
  BY <1>1, DropKeeps
<1>3. ItemOK(a.item, clock)
  BY DEF Base
<1>4. PICK k \in Nat : clock = 2 * k
  BY DEF Base
<1>5. \A d \in Nat : clock <= d =>
        /\ \A i \in DOMAIN redo' : ItemOK(redo'[i], d)
        /\ \A b \in asked' : ItemOK(b.item, d)
        /\ \A e \in log : EventOK(e, d)
  <2> TAKE d \in Nat
  <2> HAVE clock <= d
  <2>1. clock \in Nat
    BY <1>4
  <2>2. \A x : ItemOK(x, clock) => ItemOK(x, d)
    BY <2>1, Older
  <2>3. \A e : EventOK(e, clock) => EventOK(e, d)
    BY <2>1, Older
  <2> QED
    BY <1>1, <1>2, <2>2, <2>3 DEF Base
<1>6. trouble # "hurry" =>
        /\ asked' = {}
        /\ \E m \in DOMAIN redo, h \in [DOMAIN redo' -> DOMAIN redo] :
             /\ redo[m] = a.item
             /\ \A j \in DOMAIN redo' : h[j] \in DOMAIN redo /\ h[j] # m /\ redo'[j] = redo[h[j]]
             /\ \A i, j \in DOMAIN redo' : h[i] = h[j] => i = j
  BY <1>1, DropKeeps DEF StackOK
<1>7. CASE spoiled' = spoiled \cup KeysOf(E) /\ UNCHANGED <<rows, log, trades, own, replayed, clock>>
  <2>1. clock \in Nat /\ clock <= clock
    BY <1>4
  <2>2. Base'
    BY <1>2, <1>5, <1>7, <2>1 DEF Base
  <2>3. OwnAsWritten'
    BY <1>1, <1>7 DEF OwnAsWritten
  <2>4. StackOK'
    <3> SUFFICES ASSUME trouble # "hurry" PROVE StackOK'
      BY <1>1 DEF StackOK
    <3>1. PICK m \in DOMAIN redo, h \in [DOMAIN redo' -> DOMAIN redo] :
             /\ redo[m] = a.item
             /\ \A j \in DOMAIN redo' : h[j] \in DOMAIN redo /\ h[j] # m /\ redo'[j] = redo[h[j]]
             /\ \A i, j \in DOMAIN redo' : h[i] = h[j] => i = j
      BY <1>6
    <3> QED
      BY <1>6, <1>7, <3>1 DEF StackOK
  <2>5. EntriesOK'
    <3> SUFFICES ASSUME Orderly PROVE EntriesOK'
      BY <1>1 DEF EntriesOK, Orderly
    <3>1. PICK m \in DOMAIN redo, h \in [DOMAIN redo' -> DOMAIN redo] :
             /\ redo[m] = a.item
             /\ \A j \in DOMAIN redo' : h[j] \in DOMAIN redo /\ h[j] # m /\ redo'[j] = redo[h[j]]
             /\ \A i, j \in DOMAIN redo' : h[i] = h[j] => i = j
      BY <1>6 DEF Orderly
    <3>2. \A i \in DOMAIN redo' : \A e \in redo'[i].events : ~Single(e) =>
         /\ \A f \in log : f.ref # e.ref
         /\ \A j \in DOMAIN redo' : \A f \in redo'[j].events : f.ref = e.ref => i = j
         /\ e.ref[1] = "trade" => e.ref \in spoiled
      BY <3>1 DEF EntriesOK
    <3>3. \A i \in DOMAIN redo' : Apart(redo'[i]) /\ Once(redo'[i].events)
      BY <3>1 DEF EntriesOK
    <3>4. (\A e, f \in log : Parted(e, f)) /\ (\A e \in log : e.ref[1] = "trade" => e.ref[2] \in trades) /\ Once(log)
      BY DEF EntriesOK
    <3> QED
      BY <1>7, <3>2, <3>3, <3>4 DEF EntriesOK
  <2> QED
    BY <2>2, <2>3, <2>4, <2>5
<1>8. CASE /\ log' = log \cup Fresh(E) /\ trades' = trades \cup a.item.trade
           /\ own' = own \cup {e.id : e \in Fresh(E)}
           /\ replayed' = replayed \cup {a.item.since}
           /\ clock' = clock + 2 /\ UNCHANGED spoiled
  <2>1. clock \in Nat /\ clock' \in Nat /\ clock <= clock' /\ clock' = 2 * (k + 1)
    BY <1>4, <1>8
  <2>2. \A f \in Fresh(E) : \E e \in E :
           /\ f = Anew(e) /\ EventOK(f, clock') /\ Moment(f) = k
           /\ f.id = <<clock, e.id>> /\ f.ts = clock /\ f.kind = e.kind /\ f.at = e.at
           /\ KeyOf(f) = KeyOf(e)
           /\ Single(e) => f.ref = <<"single", f.id>>
           /\ ~Single(e) => f.ref = e.ref
    BY <1>3, <1>4, <1>8, FreshIs DEF ItemOK
  <2>3. Base'
    <3>1. \A e \in log' : EventOK(e, clock')
      BY <1>5, <1>8, <2>1, <2>2
    <3>2. \A i \in own' : i[1] \in 0..(clock' - 1)
      <4>1. \A f \in Fresh(E) : f.id[1] \in 0..(clock' - 1)
        BY <2>2 DEF EventOK
      <4>2. 0..(clock - 1) \subseteq 0..(clock' - 1)
        BY <2>1
      <4> QED
        BY <1>8, <4>1, <4>2 DEF Base
    <3>3. \E i \in Nat : clock' = 2 * i
      BY <2>1
    <3>4. (\A i \in DOMAIN redo' : ItemOK(redo'[i], clock')) /\ (\A b \in asked' : ItemOK(b.item, clock'))
      BY <1>5, <2>1
    <3> QED
      BY <1>2, <3>1, <3>2, <3>3, <3>4 DEF Base
  <2>4. OwnAsWritten'
    <3> SUFFICES ASSUME trouble # "fold", NEW e \in log', e.id \in own' PROVE e.ts = e.id[1]
      BY <1>1 DEF OwnAsWritten
    <3>1. CASE e \in Fresh(E)
      BY <2>2, <3>1
    <3>2. CASE e \in log /\ e.id \in own
      BY <3>2 DEF OwnAsWritten
    <3>3. e \in log /\ e.id \notin own => FALSE
      <4> SUFFICES ASSUME e \in log, e.id \notin own PROVE FALSE
        OBVIOUS
      <4>1. PICK f \in Fresh(E) : e.id = f.id
        BY <1>8
      <4>2. f.id[1] = clock
        BY <2>2
      <4>3. e.id[1] \in 0..(clock - 1)
        BY DEF Base, EventOK
      <4> QED
        BY <2>1, <4>1, <4>2, <4>3
    <3> QED
      BY <1>8, <3>1, <3>2, <3>3
  <2>5. StackOK'
    <3> SUFFICES ASSUME trouble # "hurry" PROVE StackOK'
      BY <1>1 DEF StackOK
    <3>1. PICK m \in DOMAIN redo, h \in [DOMAIN redo' -> DOMAIN redo] :
             /\ redo[m] = a.item
             /\ \A j \in DOMAIN redo' : h[j] \in DOMAIN redo /\ h[j] # m /\ redo'[j] = redo[h[j]]
             /\ \A i, j \in DOMAIN redo' : h[i] = h[j] => i = j
      BY <1>6
    <3>2. \A n \in replayed' : n \in 0..(clock' - 1)
      <4>1. 0..(clock - 1) \subseteq 0..(clock' - 1)
        BY <2>1
      <4> QED
        BY <1>3, <1>8, <4>1 DEF StackOK, ItemOK
    <3>3. \A i, j \in DOMAIN redo' : redo'[i].since = redo'[j].since => i = j
      BY <3>1 DEF StackOK
    <3>4. \A i \in DOMAIN redo' : redo'[i].since \notin replayed'
      BY <1>8, <3>1 DEF StackOK
    <3> QED
      BY <1>6, <3>2, <3>3, <3>4 DEF StackOK
  <2>6. EntriesOK'
    <3> SUFFICES ASSUME Orderly PROVE EntriesOK'
      BY <1>1 DEF EntriesOK, Orderly
    <3>1. PICK m \in DOMAIN redo, h \in [DOMAIN redo' -> DOMAIN redo] :
             /\ redo[m] = a.item
             /\ \A j \in DOMAIN redo' : h[j] \in DOMAIN redo /\ h[j] # m /\ redo'[j] = redo[h[j]]
             /\ \A i, j \in DOMAIN redo' : h[i] = h[j] => i = j
      BY <1>6 DEF Orderly
    <3>2. /\ Apart(a.item) /\ Once(E)
          /\ \A e \in E : ~Single(e) =>
               /\ \A f \in log : f.ref # e.ref
               /\ \A j \in DOMAIN redo' : \A f \in redo'[j].events : f.ref # e.ref
          /\ \A e, f \in E : ~Single(e) => f.ref = e.ref
      BY <1>3, <3>1 DEF EntriesOK, ItemOK
    <3>3. \A e \in log : EventOK(e, clock) /\ Moment(e) # k
      <4> TAKE e \in log
      <4>1. EventOK(e, clock)
        BY DEF Base
      <4>2. Moment(e) \in Nat /\ Moment(e) < k
        BY <1>4, <4>1, MomentBefore
      <4> QED
        BY <4>1, <4>2
    <3>4. ASSUME NEW f \in Fresh(E), NEW g \in log PROVE f.ref # g.ref
      <4>1. PICK e \in E : /\ f.id = <<clock, e.id>>
                           /\ Single(e) => f.ref = <<"single", f.id>>
                           /\ ~Single(e) => f.ref = e.ref
        BY <2>2
      <4>2. CASE ~Single(e)
        BY <3>2, <4>1, <4>2
      <4>3. CASE Single(e)
        <5>1. g.id # f.id
          BY <2>1, <3>3, <4>1 DEF EventOK
        <5> QED
          BY <3>3, <4>1, <4>3, <5>1 DEF EventOK
      <4> QED
        BY <4>2, <4>3
    <3>5. ASSUME NEW f \in Fresh(E), NEW g \in Fresh(E)
          PROVE  Parted(f, g) /\ (Went(f) /\ f.ref = g.ref /\ g.kind = "remove" => f = g)
      <4>1. PICK e \in E : /\ f = Anew(e) /\ Moment(f) = k /\ KeyOf(f) = KeyOf(e)
                           /\ f.id = <<clock, e.id>> /\ f.kind = e.kind
                           /\ Single(e) => f.ref = <<"single", f.id>>
                           /\ ~Single(e) => f.ref = e.ref
        BY <2>2
      <4>2. PICK o \in E : /\ g = Anew(o) /\ Moment(g) = k /\ KeyOf(g) = KeyOf(o)
                           /\ g.id = <<clock, o.id>> /\ g.kind = o.kind
                           /\ Single(o) => g.ref = <<"single", g.id>>
                           /\ ~Single(o) => g.ref = o.ref
        BY <2>2
      <4>3. CASE Single(e)
        <5>1. Single(o)
          BY <3>2, <4>3 DEF Single
        <5>2. e # o => KeyOf(f) # KeyOf(g) /\ f.ref # g.ref
          BY <3>2, <4>1, <4>2, <4>3, <5>1 DEF Apart
        <5>3. ~Went(f)
          BY <4>1, <4>3 DEF Went
        <5> QED
          BY <4>1, <4>2, <5>2, <5>3 DEF Parted
      <4>4. CASE ~Single(e)
        <5>1. ~Single(o) /\ o.ref = e.ref /\ f.ref = g.ref
          BY <3>2, <4>1, <4>2, <4>4 DEF Single
        <5>2. ~Single(f)
          BY <4>1, <4>4 DEF Single
        <5>3. Went(f) /\ g.kind = "remove" => e = o
          BY <3>2, <4>1, <4>2, <4>4, <5>1 DEF Once, Went
        <5> QED
          BY <4>1, <4>2, <5>1, <5>2, <5>3 DEF Parted
      <4> QED
        BY <4>3, <4>4
    <3>6. \A e, f \in log' : Parted(e, f)
      <4> TAKE e, f \in log'
      <4>1. CASE e \in log /\ f \in log
        BY <4>1 DEF EntriesOK
      <4>2. CASE e \in Fresh(E) /\ f \in Fresh(E)
        BY <3>5, <4>2
      <4>3. CASE e \in log /\ f \in Fresh(E)
        BY <2>2, <3>3, <3>4, <4>3 DEF Parted
      <4>4. CASE e \in Fresh(E) /\ f \in log
        BY <2>2, <3>3, <3>4, <4>4 DEF Parted
      <4> QED
        BY <1>8, <4>1, <4>2, <4>3, <4>4
    <3>7. Once(log')
      BY <1>8, <3>4, <3>5 DEF EntriesOK, Once
    <3>8. ASSUME NEW e \in log', e.ref[1] = "trade" PROVE e.ref[2] \in trades'
      <4>1. CASE e \in log
        BY <1>8, <3>8, <4>1 DEF EntriesOK
      <4>2. CASE e \in Fresh(E)
        <5>1. PICK o \in E : /\ Single(o) => e.ref = <<"single", e.id>>
                             /\ ~Single(o) => e.ref = o.ref
          BY <2>2, <4>2
        <5>2. e.ref = o.ref
          BY <3>8, <5>1
        <5> QED
          BY <1>3, <1>8, <3>8, <5>2 DEF ItemOK
      <4> QED
        BY <1>8, <4>1, <4>2
    <3>9. ASSUME NEW i \in DOMAIN redo', NEW e \in redo'[i].events, ~Single(e)
          PROVE  /\ \A f \in log' : f.ref # e.ref
                 /\ \A j \in DOMAIN redo' : \A f \in redo'[j].events : f.ref = e.ref => i = j
                 /\ e.ref[1] = "trade" => e.ref \in spoiled'
      <4>1. /\ \A f \in log : f.ref # e.ref
            /\ \A j \in DOMAIN redo' : \A f \in redo'[j].events : f.ref = e.ref => i = j
            /\ e.ref[1] = "trade" => e.ref \in spoiled
        BY <3>1, <3>9 DEF EntriesOK
      <4>2. ASSUME NEW f \in Fresh(E), f.ref = e.ref PROVE FALSE
        <5>1. PICK o \in E : /\ Single(o) => f.ref = <<"single", f.id>>
                             /\ ~Single(o) => f.ref = o.ref
          BY <2>2
        <5>2. ~Single(o)
          BY <3>9, <4>2, <5>1 DEF Single
        <5> QED
          BY <3>2, <4>2, <5>1, <5>2
      <4> QED
        BY <1>8, <4>1, <4>2
    <3>10. \A i \in DOMAIN redo' : Apart(redo'[i]) /\ Once(redo'[i].events)
      BY <3>1 DEF EntriesOK
    <3> QED
      BY <3>6, <3>7, <3>8, <3>9, <3>10 DEF EntriesOK
  <2> QED
    BY <2>3, <2>4, <2>5, <2>6
<1> QED
  BY <1>1, <1>7, <1>8
-----------------------------------------------------------------------------
(***************************************************************************)
(* What replays.                                                           *)
(***************************************************************************)
\* A change leaves what redo wrote, and what it is asked for, alone.
LEMMA ChangesQuiet ==
  OfCopies \/ OfWishes \/ OfSlots \/ OfTrades => UNCHANGED <<own, asked>>
<1>1. ASSUME NEW r, NEW L, Writes(r, L) PROVE UNCHANGED <<own, asked>>
  BY <1>1 DEF Writes, redoVars
<1>2. ASSUME OfCopies PROVE \E r, L : Writes(r, L)
  <2> SUFFICES ASSUME NEW c \in Copy, ~(\E r, L : Writes(r, L)) PROVE
         /\ \A n \in Qty : \A f \in {0, n} : ~AddToCollection(c, n, f)
         /\ \A n \in Qty : ~MarkForTrade(c, n)
         /\ \A n \in Upto : ~SetCopies(c, n) /\ ~SetForTrade(c, n)
         /\ \A d \in Copy : ~Correct(c, d)
         /\ \A d \in Copy, n \in Upto, m \in Qty : \A f \in {0, m} : ~Import(c, n, d, m, f)
    BY <1>2 DEF OfCopies
  <2>1. \A n \in Qty : \A f \in {0, n} : ~AddToCollection(c, n, f)
    BY DEF AddToCollection
  <2>2. \A n \in Qty : ~MarkForTrade(c, n)
    BY DEF MarkForTrade
  <2>3. \A n \in Upto : ~SetCopies(c, n) /\ ~SetForTrade(c, n)
    BY DEF SetCopies, SetForTrade
  <2>4. \A d \in Copy : ~Correct(c, d)
    BY DEF Correct
  <2>5. \A d \in Copy, n \in Upto, m \in Qty : \A f \in {0, m} : ~Import(c, n, d, m, f)
    <3> SUFFICES ASSUME NEW d \in Copy, NEW n \in Upto, NEW m \in Qty, NEW f \in {0, m},
                        Import(c, n, d, m, f) PROVE FALSE
      OBVIOUS
    <3> DEFINE N == (IF n > 0 THEN {Ev(1, "remove", c, n)} ELSE {})
                    \cup {Ev(2, "add", d, m)} \cup Fulfils(rows, d, 3)
    <3>1. PICK r : Writes(r, log \cup InBatch(N)) /\ UNCHANGED trades
      BY DEF Import
    <3> QED
      BY <3>1
  <2> QED
    BY <2>1, <2>2, <2>3, <2>4, <2>5
<1>3. ASSUME OfWishes PROVE \E r, L : Writes(r, L)
  BY <1>3 DEF OfWishes, AddToWishlist, SetWish, CorrectWish
<1>4. ASSUME OfSlots PROVE \E r, L : Writes(r, L)
  <2> SUFFICES ASSUME NEW p \in Place, NEW l \in Line, ~(\E r, L : Writes(r, L)) PROVE
         /\ \A n \in Qty : ~AddDeckCard(p, l, n) /\ ~TakeOut(p, l, n)
         /\ \A n \in Qty : ~Rescan(p, l, n)
         /\ \A n \in Qty, exact \in BOOLEAN : ~File(p, l, n, exact)
         /\ \A n \in Upto, soon \in BOOLEAN : ~Step(p, l, n, soon)
         /\ \A p2 \in Place : ~Move(p, l, p2)
    BY <1>4 DEF OfSlots
  <2>1. \A n \in Qty : ~AddDeckCard(p, l, n) /\ ~TakeOut(p, l, n)
    BY DEF AddDeckCard, TakeOut
  <2>2. \A n \in Qty : ~Rescan(p, l, n)
    BY DEF Rescan
  <2>3. \A n \in Qty, exact \in BOOLEAN : ~File(p, l, n, exact)
    BY DEF File
  <2>4. \A n \in Upto, soon \in BOOLEAN : ~Step(p, l, n, soon)
    BY DEF Step
  <2>5. \A p2 \in Place : ~Move(p, l, p2)
    BY DEF Move
  <2> QED
    BY <2>1, <2>2, <2>3, <2>4, <2>5
<1>5. ASSUME OfTrades PROVE \E r, L : Writes(r, L)
  <2>1. PICK t \in Trade, g \in Copy, c \in Copy, n \in Qty, m \in Upto : ApplyCompletedTrade(t, g, n, c, m)
    BY <1>5 DEF OfTrades
  <2> DEFINE had == rows.owned[g]
             claiming == {p \in Place : rows.slots[p][g] > 0}
             gone == [Ev(2, "remove", g, n) EXCEPT !.ts = IF n > had THEN clock + 1 ELSE clock]
             E(dec) == (IF n > had THEN {Ev(1, "add", g, n - had)} ELSE {})
                       \cup {gone}
                       \cup (IF m > 0 THEN {Ev(3, "add", c, m)} ELSE {})
                       \cup {Ev(l, "fulfilled", c, dec[l]) : l \in {x \in Line : dec[x] > 0}}
             F(take) == {Ev(p, "deckRemove", <<p, g>>, take[p]) : p \in {x \in claiming : take[x] > 0}}
  <2>2. \E take, dec, r : Writes(r, log \cup InTrade(t, E(dec)) \cup InBatch(F(take)))
    BY <2>1 DEF ApplyCompletedTrade
  <2> QED
    BY <2>2
<1> QED
  BY <1>1, <1>2, <1>3, <1>4, <1>5

\* What is put back was asked for, and was not refused.
LEMMA ReplaysIs ==
  ASSUME Next, NEW a \in asked, Replays(a)
  PROVE  Redo(a) /\ ~Refused(a.item)
<1>1. a \notin asked' /\ own \subseteq own' /\ own # own'
  BY DEF Replays
<1>2. ASSUME NEW b \in asked, Redo(b) PROVE Redo(a) /\ ~Refused(a.item)
  <2>1. a = b
    BY <1>1, <1>2 DEF Redo
  <2> QED
    BY <1>1, <1>2, <2>1 DEF Redo
<1>3. ~(\E ref \in Refs, keys \in BOOLEAN : Undo(ref, keys))
  BY <1>1 DEF Undo
<1>4. ~(\E scope \in Scopes : AskRedo(scope))
  BY <1>1 DEF AskRedo
<1>5. ~Reload
  BY <1>1 DEF Reload
<1> QED
  BY <1>1, <1>2, <1>3, <1>4, <1>5, ChangesQuiet DEF Next, OfHistory

-----------------------------------------------------------------------------
(***************************************************************************)
(* What is offered.                                                        *)
(***************************************************************************)
\* The times of some events of the log, their moments, and the order of both.
LEMMA TimesAre ==
  ASSUME Base
  PROVE  /\ \A e \in log : e.ts \in 0..(clock - 1) /\ Moment(e) \in Nat
         /\ \A e, f \in log : Moment(e) > Moment(f) => e.ts > f.ts
         /\ \A e, f \in log : e.ts >= f.ts => Moment(e) >= Moment(f)
<1>1. \A e \in log : e.ts \in 0..(clock - 1) /\ e.ts \in Nat
  BY DEF Base, EventOK
<1>2. \A m, n \in Nat : /\ m \div 2 \in Nat
                        /\ m \div 2 > n \div 2 => m > n
                        /\ m >= n => m \div 2 >= n \div 2
  OBVIOUS
<1> QED
  BY <1>1, <1>2 DEF Moment

\* The first and the last time of some events of the log.
LEMMA SinceIs ==
  ASSUME Base, NEW E, E \subseteq log, E # {}
  PROVE  (\E e \in E : Since(E) = e.ts) /\ \A e \in E : Since(E) <= e.ts
<1> DEFINE T == {e.ts : e \in E}
<1>1. T \subseteq Nat /\ T # {}
  BY TimesAre
<1> HIDE DEF T
<1>2. Min(T) \in T /\ \A n \in T : Min(T) <= n
  BY <1>1, LeastIs
<1>3. Since(E) = Min(T)
  BY DEF Since, T
<1> QED
  BY <1>2, <1>3 DEF T
LEMMA LatestIs ==
  ASSUME Base, NEW ref \in Refs
  PROVE  /\ \E e \in Group(ref) : Latest(ref) = e.ts
         /\ \A e \in Group(ref) : e.ts <= Latest(ref)
<1> DEFINE T == {e.ts : e \in Group(ref)}
<1>1. Group(ref) \subseteq log /\ Group(ref) # {}
  BY DEF Group, Refs
<1>2. T \subseteq 0..(clock - 1) /\ T # {}
  BY <1>1, TimesAre
<1>3. clock - 1 \in Nat
  <2>1. PICK e \in log : e.ts \in 0..(clock - 1)
    BY <1>1, TimesAre
  <2>2. clock \in Nat
    BY DEF Base
  <2> QED
    BY <2>1, <2>2
<1> HIDE DEF T
<1>4. Max(T) \in T /\ \A n \in T : n <= Max(T)
  BY <1>2, <1>3, GreatestIs
<1>5. Latest(ref) = Max(T)
  BY DEF Latest, T
<1> QED
  BY <1>4, <1>5 DEF T

\* The events of an entry, with what undo takes along, have one moment.
LEMMA OneMoment ==
  ASSUME Base, \A e, f \in log : Parted(e, f), NEW ref \in Refs
  PROVE  \A e, f \in EventsOf(ref) : Moment(e) = Moment(f)
<1>1. \A e \in EventsOf(ref) : \E one \in log : one.ref = ref /\ Moment(e) = Moment(one)
  BY EventsOfIs DEF Moment
<1> QED
  BY <1>1 DEF Parted

LEMMA OffersAre == HistoryInv /\ Orderly => OffersHold /\ NeverStuck
<1> SUFFICES ASSUME HistoryInv, Orderly PROVE OffersHold /\ NeverStuck
  OBVIOUS
<1>1. Base /\ \A e, f \in log : Parted(e, f)
  BY DEF HistoryInv, EntriesOK
<1>2. ASSUME NEW ref \in Refs
      PROVE  /\ EventsOf(ref) \subseteq log /\ EventsOf(ref) # {}
             /\ Group(ref) \subseteq EventsOf(ref)
             /\ \E e \in EventsOf(ref) : Since(EventsOf(ref)) = e.ts
             /\ \A e \in EventsOf(ref) : Since(EventsOf(ref)) <= e.ts
  <2>1. EventsOf(ref) \subseteq log /\ EventsOf(ref) # {} /\ Group(ref) \subseteq EventsOf(ref)
    BY EventsOfIs DEF Group
  <2> QED
    BY <1>1, <2>1, SinceIs
<1>3. ASSUME NEW ref \in Refs, MayUndo(EventsOf(ref)) PROVE Offered(ref)
  <2> SUFFICES ASSUME NEW newer \in Refs, Latest(newer) > Latest(ref),
                      NEW e \in Group(newer), NEW f \in Group(ref), KeyOf(e) = KeyOf(f)
               PROVE  FALSE
    BY DEF Offered, KeysOf
  <2>1. e \in log /\ f \in log /\ e.ref = newer /\ f.ref = ref /\ f \in EventsOf(ref)
    BY <1>2 DEF Group
  <2>2. newer # ref
    <3>1. Latest(ref) \in Nat
      BY <1>1, LatestIs, TimesAre DEF Group
    <3> QED
      BY <3>1
  <2>3. Moment(e) # Moment(f)
    BY <1>1, <2>1, <2>2 DEF Parted
  <2>4. PICK e1 \in Group(newer) : Latest(newer) = e1.ts
    BY <1>1, LatestIs
  <2>5. e1 \in log /\ e1.ref = newer /\ Moment(e1) = Moment(e)
    BY <1>1, <2>1, <2>4 DEF Group, Parted
  <2>6. f.ts <= Latest(ref)
    BY <1>1, LatestIs
  <2>7. e1.ts >= f.ts
    <3>1. e1.ts \in Nat /\ f.ts \in Nat /\ Latest(ref) \in Nat
      BY <1>1, <2>1, <2>5, LatestIs, TimesAre DEF Group
    <3> QED
      BY <2>4, <2>6, <3>1
  <2>8. Moment(e) > Moment(f)
    <3>1. Moment(e) \in Nat /\ Moment(f) \in Nat
      BY <1>1, <2>1, TimesAre
    <3>2. Moment(e1) >= Moment(f)
      BY <1>1, <2>1, <2>5, <2>7, TimesAre
    <3> QED
      BY <2>3, <2>5, <3>1, <3>2
  <2>9. e.ts > f.ts
    BY <1>1, <2>1, <2>8, TimesAre
  <2>10. Since(EventsOf(ref)) <= f.ts /\ Since(EventsOf(ref)) \in Nat
    BY <1>1, <1>2, <2>1, TimesAre
  <2>11. e.ts >= Since(EventsOf(ref))
    <3>1. e.ts \in Nat /\ f.ts \in Nat
      BY <1>1, <2>1, TimesAre
    <3> QED
      BY <2>9, <2>10, <3>1
  <2>12. e \notin EventsOf(ref)
    BY <1>1, <2>1, <2>3, OneMoment
  <2>13. KeyOf(e) \in KeysOf(EventsOf(ref))
    BY <2>1 DEF KeysOf
  <2> QED
    BY <1>3, <2>1, <2>11, <2>12, <2>13 DEF MayUndo, Blocked
<1>4. ASSUME NEW ref \in Refs, Offered(ref), EventsOf(ref) = Group(ref)
      PROVE  MayUndo(EventsOf(ref))
  <2> DEFINE E == EventsOf(ref)
  <2> SUFFICES ASSUME NEW e \in log \ E, e.ts >= Since(E), KeyOf(e) \in KeysOf(E)
               PROVE  FALSE
    BY <1>2 DEF MayUndo, Blocked
  <2>1. PICK f \in E : KeyOf(e) = KeyOf(f)
    BY DEF KeysOf
  <2>2. f \in log /\ f.ref = ref /\ e.ref # ref /\ e.ref \in Refs
    BY <1>4 DEF Group, Refs
  <2>3. PICK g \in E : Since(E) = g.ts
    BY <1>2
  <2>4. g \in log /\ Moment(g) = Moment(f)
    BY <1>1, <1>2, <2>3, OneMoment
  <2>5. Moment(e) # Moment(f)
    BY <1>1, <2>1, <2>2 DEF Parted
  <2>6. Moment(e) > Moment(f)
    <3>1. Moment(e) \in Nat /\ Moment(f) \in Nat
      BY <1>1, <2>2, TimesAre
    <3>2. Moment(e) >= Moment(g)
      BY <1>1, <2>3, <2>4, TimesAre
    <3> QED
      BY <2>4, <2>5, <3>1, <3>2
  <2>7. PICK h \in Group(ref) : Latest(ref) = h.ts
    BY <1>1, LatestIs
  <2>8. h \in log /\ Moment(h) = Moment(f)
    BY <1>1, <2>2, <2>7 DEF Group, Parted
  <2>9. e.ts > h.ts
    BY <1>1, <2>6, <2>8, TimesAre
  <2>10. e \in Group(e.ref) /\ e.ts <= Latest(e.ref)
    BY <1>1, <2>2, LatestIs DEF Group
  <2>11. Latest(e.ref) > Latest(ref)
    <3>1. e.ts \in Nat /\ h.ts \in Nat /\ Latest(e.ref) \in Nat
      BY <1>1, <2>2, <2>8, LatestIs, TimesAre DEF Group
    <3> QED
      BY <2>7, <2>9, <2>10, <3>1
  <2>12. KeyOf(e) \in KeysOf(Group(e.ref)) /\ KeyOf(e) \in KeysOf(Group(ref))
    BY <1>4, <2>1, <2>10 DEF KeysOf
  <2> QED
    BY <1>4, <2>2, <2>11, <2>12 DEF Offered
<1>5. ASSUME log # {} PROVE \E ref \in Refs : Offered(ref) /\ MayUndo(EventsOf(ref))
  <2> DEFINE T == {e.ts : e \in log}
  <2>1. PICK last \in log : \A e \in log : e.ts <= last.ts
    <3>1. T \subseteq 0..(clock - 1) /\ T # {}
      BY <1>1, <1>5, TimesAre
    <3>2. clock - 1 \in Nat
      <4>1. PICK e \in log : e.ts \in 0..(clock - 1)
        BY <1>1, <1>5, TimesAre
      <4>2. clock \in Nat
        BY <1>1 DEF Base
      <4> QED
        BY <4>1, <4>2
    <3> HIDE DEF T
    <3>3. Max(T) \in T /\ \A n \in T : n <= Max(T)
      BY <3>1, <3>2, GreatestIs
    <3> QED
      BY <3>3 DEF T
  <2> DEFINE ref == last.ref
             E == EventsOf(ref)
  <2>2. ref \in Refs /\ last \in Group(ref) /\ last \in E
    <3>1. ref \in Refs /\ last \in Group(ref)
      BY DEF Refs, Group
    <3> QED
      BY <1>2, <3>1
  <2>3. Offered(ref)
    <3> SUFFICES ASSUME NEW newer \in Refs, Latest(newer) > Latest(ref) PROVE FALSE
      BY DEF Offered
    <3>1. PICK g \in Group(newer) : Latest(newer) = g.ts
      BY <1>1, LatestIs
    <3>2. g \in log /\ last.ts <= Latest(ref) /\ Latest(ref) \in Nat
      BY <1>1, <2>2, LatestIs, TimesAre DEF Group
    <3>3. g.ts \in Nat /\ last.ts \in Nat /\ g.ts <= last.ts
      BY <1>1, <2>1, <3>2, TimesAre
    <3> QED
      BY <3>1, <3>2, <3>3
  <2>4. MayUndo(E)
    <3> SUFFICES ASSUME NEW e \in log \ E, e.ts >= Since(E), KeyOf(e) \in KeysOf(E)
                 PROVE  FALSE
      BY <1>2, <2>2 DEF MayUndo, Blocked
    <3>1. PICK f \in E : KeyOf(e) = KeyOf(f)
      BY DEF KeysOf
    <3>2. PICK g \in E : Since(E) = g.ts
      BY <1>2, <2>2
    <3>3. f \in log /\ g \in log /\ Moment(g) = Moment(f) /\ Moment(last) = Moment(f)
      BY <1>1, <1>2, <2>2, OneMoment
    <3>4. Moment(e) = Moment(f)
      <4>1. Moment(e) \in Nat /\ Moment(f) \in Nat
        BY <1>1, <3>3, TimesAre
      <4>2. Moment(e) >= Moment(g)
        BY <1>1, <3>2, <3>3, TimesAre
      <4>3. last.ts >= e.ts
        <5>1. last.ts \in Nat /\ e.ts \in Nat /\ e.ts <= last.ts
          BY <1>1, <2>1, TimesAre
        <5> QED
          BY <5>1
      <4>4. Moment(last) >= Moment(e)
        BY <1>1, <4>3, TimesAre
      <4> QED
        BY <3>3, <4>1, <4>2, <4>4
    <3>5. e.ref = f.ref
      BY <1>1, <3>1, <3>3, <3>4 DEF Parted
    <3>6. CASE ref[1] = "single"
      <4>1. Single(f)
        BY <2>2, <3>6, EventsOfIs
      <4> QED
        BY <1>1, <3>3, <3>5, <4>1 DEF Parted, Single
    <3>7. CASE ref[1] # "single"
      <4>1. f.ref = ref
        BY <2>2, <3>7, EventsOfIs
      <4> QED
        BY <2>2, <3>5, <4>1, EventsOfIs
    <3> QED
      BY <3>6, <3>7
  <2> QED
    BY <2>2, <2>3, <2>4
<1> QED
  BY <1>3, <1>4, <1>5 DEF OffersHold, NeverStuck


-----------------------------------------------------------------------------
(***************************************************************************)
(* The theorems.                                                           *)
(***************************************************************************)
LEMMA HistoryInit == Init => HistoryInv
<1> SUFFICES ASSUME Init PROVE HistoryInv
  OBVIOUS
<1>1. /\ log = {} /\ redo = <<>> /\ own = {} /\ asked = {} /\ clock = 0 /\ replayed = {}
  BY DEF Init
<1>2. redo \in Seq({}) /\ DOMAIN redo = {} /\ clock = 2 * 0
  BY <1>1
<1>3. Base
  BY <1>1, <1>2 DEF Base
<1>4. OwnAsWritten /\ StackOK /\ EntriesOK
  BY <1>1, <1>2 DEF OwnAsWritten, StackOK, EntriesOK, Once
<1> QED
  BY <1>3, <1>4 DEF HistoryInv

LEMMA HistoryNext == HistoryInv /\ [Next]_vars => HistoryInv'
<1> SUFFICES ASSUME HistoryInv, [Next]_vars PROVE HistoryInv'
  OBVIOUS
<1>1. ASSUME NEW ref \in Refs, NEW keys \in BOOLEAN, Undo(ref, keys) PROVE HistoryInv'
  BY <1>1, UndoKeeps
<1>2. ASSUME NEW scope \in Scopes, AskRedo(scope) PROVE HistoryInv'
  BY <1>2, AskRedoKeeps
<1>3. ASSUME NEW a \in asked, Redo(a) PROVE HistoryInv'
  BY <1>3, RedoKeeps
<1>4. CASE Reload
  BY <1>4, ReloadKeeps
<1>5. CASE OfCopies \/ OfWishes \/ OfSlots \/ OfTrades
  BY <1>5, OfCopiesKeeps, OfWishesKeeps, OfSlotsKeeps, OfTradesKeeps
<1>6. CASE UNCHANGED vars
  <2>1. UNCHANGED <<log, trades, redo, own, asked, replayed, clock, trouble, spoiled>>
    BY <1>6 DEF vars, redoVars
  <2> QED
    BY <2>1 DEF HistoryInv, Base, OwnAsWritten, StackOK, EntriesOK, Orderly
<1> QED
  BY <1>1, <1>2, <1>3, <1>4, <1>5, <1>6 DEF Next, OfHistory

\* What the log and the redo stack hold, in every behaviour: events and items of
\* the past, each undone entry on the stack or in the log but not in both, and
\* the events of one moment apart.
THEOREM HistoryInvariant == Spec => []HistoryInv
BY HistoryInit, HistoryNext, PTL DEF Spec

\* A trade counts once, however often it is delivered, undone and redone
\* (tradeWrites.ts: applyCompletedTrade drops what it knows; undo.ts: undoEntry
\* forgets the trade, redoEntry writes it down again), unless it is delivered
\* again after it was undone, or redone twice at once.
THEOREM HistoryTradeCountsOnce == Spec => []TradeCountsOnce
<1>1. HistoryInv => TradeCountsOnce
  <2> SUFFICES ASSUME HistoryInv, Orderly, NEW t \in Trade
               PROVE  Cardinality({e \in log : e.ref = <<"trade", t>> /\ e.kind = "remove"}) <= 1
    BY DEF TradeCountsOnce
  <2> DEFINE R == {e \in log : e.ref = <<"trade", t>> /\ e.kind = "remove"}
  <2>1. \A e, f \in R : e = f
    BY DEF HistoryInv, EntriesOK, Once, Went
  <2>2. R = {} \/ \E e \in R : R = {e}
    BY <2>1
  <2>3. Cardinality({}) = 0 /\ \A e : Cardinality({e}) = 1
    BY FS_EmptySet, FS_Singleton
  <2> HIDE DEF R
  <2>4. Cardinality(R) = 0 \/ Cardinality(R) = 1
    BY <2>2, <2>3
  <2>5. Cardinality(R) <= 1
    BY <2>4
  <2> QED
    BY <2>5 DEF R
<1> QED
  BY <1>1, HistoryInvariant, PTL


\* Redo is never stacked on a later decision, and puts back what was undone once
\* (undo.ts: redoEntry refuses when an event that redo did not write is newer
\* than the undo and touches a row it would write), unless a hand edit was folded
\* into what redo wrote, or redo is asked for twice at once.
THEOREM HistoryRedoIsSafe == Spec => RedoIsSafe
<1>1. HistoryInv /\ [Next]_vars =>
        /\ [\A a \in asked : Replays(a) =>
              \A e \in log : e.ts >= a.item.since /\ KeyOf(e) \in KeysOf(a.item.events)
                             => e.id \in own /\ (trouble # "fold" => e.ts = e.id[1])]_vars
        /\ [trouble # "hurry" =>
              \A a \in asked : Replays(a) => a.item.since \notin replayed]_vars
  <2> SUFFICES ASSUME HistoryInv, Next, NEW a \in asked, Replays(a)
               PROVE  /\ \A e \in log : e.ts >= a.item.since /\ KeyOf(e) \in KeysOf(a.item.events)
                                        => e.id \in own /\ (trouble # "fold" => e.ts = e.id[1])
                      /\ trouble # "hurry" => a.item.since \notin replayed
    OBVIOUS
  <2>1. ~Refused(a.item)
    BY ReplaysIs
  <2> QED
    BY <2>1 DEF HistoryInv, OwnAsWritten, StackOK, Refused
<1> QED
  BY <1>1, HistoryInvariant, PTL DEF Spec, RedoIsSafe, RefusesLateRedo, RedoOnce

\* Undo is offered where it is accepted (undoScope.ts: undoableIds against
\* undo.ts: undoEntry), save for what takes a fulfilled wish along, and some
\* entry always is, so that entries never block each other for good; unless a
\* trade is delivered again after it was undone, or redo asked for twice at once.
THEOREM HistoryOffersAreGood == Spec => []OffersAreGood
<1>1. HistoryInv => OffersAreGood
  BY OffersAre DEF OffersAreGood
<1> QED
  BY <1>1, HistoryInvariant, PTL
=============================================================================
