--------------------------- MODULE SyncEngine_proofs ---------------------------
(***************************************************************************)
(* Proofs about the account feed and the devices that keep in step with it *)
(* for any devices, rows, page, push and buffer sizes, cap, age and edits. *)
(* Of the feed: its type, that it is a sequence no cursor runs past, that  *)
(* the row count the cap is checked against is exact, and that a stored    *)
(* row only gives way to a newer one. Of the devices: the type, what       *)
(* becomes of a local write, and that a cursor tells the truth.            *)
(***************************************************************************)
EXTENDS SyncHistory, FiniteSetTheorems, WellFoundedInduction, TLAPS

-----------------------------------------------------------------------------
(***************************************************************************)
(* Numbers and finite sets.                                                *)
(***************************************************************************)

\* A non-empty set of naturals has a least member.
LEMMA LeastExists ==
  ASSUME NEW S, S \subseteq Nat, S # {}
  PROVE  \E m \in S : \A n \in S : m <= n
<1>1. PICK m \in S : \A n \in S : ~(<<n, m>> \in OpToRel(<, Nat))
  BY NatLessThanWellFounded, WFMin
<1>2. ASSUME NEW n \in S PROVE m <= n
  <2>1. n \in Nat /\ m \in Nat
    OBVIOUS
  <2>2. ~(n < m)
    BY <1>1, <2>1, <<n, m>> \in Nat \X Nat, Zenon DEF OpToRel
  <2> QED BY <2>1, <2>2
<1> QED BY <1>2

\* A non-empty set of naturals with a bound has a greatest member.
LEMMA GreatestExists ==
  ASSUME NEW S, S \subseteq Nat, S # {}, NEW b \in Nat, \A n \in S : n <= b
  PROVE  \E m \in S : \A n \in S : n <= m
<1> DEFINE T == {k \in Nat : \E n \in S : k + n = b}
<1>1. T \subseteq Nat
  OBVIOUS
<1>2. T # {}
  <2>1. PICK n \in S : TRUE
    OBVIOUS
  <2>2. n \in Nat /\ n <= b
    BY <2>1
  <2>3. b - n \in Nat /\ (b - n) + n = b
    BY <2>2
  <2>4. b - n \in T
    BY <2>1, <2>3
  <2> QED BY <2>4
<1>3. PICK t \in T : \A u \in T : t <= u
  <2> HIDE DEF T
  <2> QED BY <1>1, <1>2, LeastExists
<1>4. PICK m \in S : t + m = b
  BY <1>3
<1>5. ASSUME NEW n \in S PROVE n <= m
  <2>1. n \in Nat /\ m \in Nat /\ n <= b
    OBVIOUS
  <2>2. b - n \in T
    BY <2>1
  <2>3. t <= b - n
    BY <1>3, <2>2
  <2> QED BY <1>4, <2>1, <2>3
<1> QED BY <1>5

\* The place of a member in a finite set of numbers: at least 1, at most the
\* size of the set, and greater for a greater member.
Rank(r, A) == Cardinality({s \in A : s <= r})

LEMMA RankBounds ==
  ASSUME NEW A, IsFiniteSet(A), A \subseteq Nat, NEW r \in A
  PROVE  Rank(r, A) \in 1..Cardinality(A)
<1> DEFINE S == {s \in A : s <= r}
<1>1. S \in SUBSET A /\ r \in S
  OBVIOUS
<1>2. IsFiniteSet(S) /\ Cardinality(S) <= Cardinality(A)
  BY <1>1, FS_Subset
<1>3. Cardinality(S) \in Nat /\ Cardinality(A) \in Nat
  BY <1>2, FS_CardinalityType
<1>4. Cardinality(S) # 0
  BY <1>1, <1>2, FS_EmptySet
<1> QED BY <1>2, <1>3, <1>4 DEF Rank

LEMMA RankIncreases ==
  ASSUME NEW A, IsFiniteSet(A), A \subseteq Nat, NEW r \in A, NEW s \in A, r < s
  PROVE  Rank(r, A) < Rank(s, A)
<1> DEFINE R == {x \in A : x <= r}
           S == {x \in A : x <= s}
<1>0. r \in Nat /\ s \in Nat /\ \A x \in A : x \in Nat
  OBVIOUS
<1>1. S \in SUBSET A /\ R \in SUBSET S
  <2>1. \A x \in A : x <= r => x <= s
    BY <1>0
  <2> QED BY <2>1
<1>2. s \in S /\ s \notin R
  BY <1>0
<1>3. IsFiniteSet(S)
  BY <1>1, FS_Subset
<1>4. IsFiniteSet(R) /\ Cardinality(R) <= Cardinality(S) /\ (Cardinality(S) = Cardinality(R) => S = R)
  BY <1>1, <1>3, FS_Subset
<1>5. Cardinality(S) \in Nat /\ Cardinality(R) \in Nat
  BY <1>3, <1>4, FS_CardinalityType
<1>6. S # R
  BY <1>2
<1> QED BY <1>4, <1>5, <1>6 DEF Rank

LEMMA RankDistinct ==
  ASSUME NEW A, IsFiniteSet(A), A \subseteq Nat, NEW r \in A, NEW s \in A,
         Rank(r, A) = Rank(s, A)
  PROVE  r = s
<1>1. Cardinality(A) \in Nat
  BY FS_CardinalityType
<1>2. Rank(r, A) \in 1..Cardinality(A)
  BY RankBounds
<1>3. r \in Nat /\ s \in Nat
  OBVIOUS
<1>4. ~(r < s)
  <2> SUFFICES ASSUME r < s PROVE FALSE
    OBVIOUS
  <2>1. Rank(r, A) < Rank(s, A)
    BY RankIncreases
  <2> QED BY <1>1, <1>2, <2>1
<1>5. ~(s < r)
  <2> SUFFICES ASSUME s < r PROVE FALSE
    OBVIOUS
  <2>1. Rank(s, A) < Rank(r, A)
    BY RankIncreases
  <2> QED BY <1>1, <1>2, <2>1
<1> QED BY <1>3, <1>4, <1>5

-----------------------------------------------------------------------------
(***************************************************************************)
(* One request against a well-typed feed.                                  *)
(***************************************************************************)
Ordered == SeqsDistinct /\ SeqsBounded

LEMMA RequestFacts ==
  ASSUME NEW q \in Request
  PROVE  /\ q.cursor \in 0..maxSeq
         /\ DOMAIN q.changes \subseteq Row
         /\ \A r \in DOMAIN q.changes : q.changes[r] \in Change
<1>1. q.cursor \in 0..maxSeq /\ q.changes \in UNION {[S -> Change] : S \in SUBSET Row}
  BY DEF Request
<1>2. PICK S \in SUBSET Row : q.changes \in [S -> Change]
  BY <1>1
<1> QED BY <1>1, <1>2

LEMMA KeptFacts ==
  ASSUME FeedTypeOK
  PROVE  /\ Kept \subseteq Row /\ IsFiniteSet(Kept) /\ Cardinality(Kept) \in Nat
         /\ \A r \in Kept : /\ syncRows[r] \in Stored
                            /\ syncRows[r].seq \in Nat \ {0}
                            /\ syncRows[r].ts \in Nat
<1>1. Kept \in SUBSET Row /\ IsFiniteSet(Row)
  BY RowAssumption DEF Kept
<1>2. IsFiniteSet(Kept) /\ Cardinality(Kept) \in Nat
  BY <1>1, FS_Subset, FS_CardinalityType
<1>3. \A r \in Kept : syncRows[r] \in Stored
  BY DEF FeedTypeOK, Kept
<1>4. \A r \in Kept : syncRows[r].seq \in Nat \ {0} /\ syncRows[r].ts \in Nat
  BY <1>3 DEF Stored
<1> QED BY <1>1, <1>2, <1>3, <1>4

LEMMA AcceptedFacts ==
  ASSUME FeedTypeOK, NEW q \in Request
  PROVE  /\ Accepted(q) \subseteq DOMAIN q.changes /\ Accepted(q) \subseteq Row
         /\ IsFiniteSet(Accepted(q)) /\ Cardinality(Accepted(q)) \in Nat
         /\ IsFiniteSet(NewRows(q)) /\ Cardinality(NewRows(q)) \in Nat
<1>1. Accepted(q) \subseteq DOMAIN q.changes
  BY DEF Accepted
<1>2. Accepted(q) \in SUBSET Row /\ NewRows(q) \in SUBSET Row /\ IsFiniteSet(Row)
  BY <1>1, RequestFacts, RowAssumption DEF NewRows
<1>3. IsFiniteSet(Accepted(q)) /\ IsFiniteSet(NewRows(q))
  BY <1>2, FS_Subset
<1> QED BY <1>1, <1>2, <1>3, FS_CardinalityType

\* A capped page is never empty, and it ends at a number that was handed out.
LEMMA PageEndBounded ==
  ASSUME FeedTypeOK, Ordered, NEW q \in Request, HasMore(q)
  PROVE  /\ PageEnd(q) \in 0..maxSeq /\ \E r \in Window(q) : PageEnd(q) = syncRows[r].seq
         /\ \A r \in Window(q) : syncRows[r].seq <= PageEnd(q)
<1> DEFINE P == Past(q.cursor)
           N == {syncRows[r].seq : r \in P}
           W == {syncRows[r].seq : r \in Window(q)}
<1>1. P \in SUBSET Kept /\ Window(q) = Page(q.cursor) /\ Page(q.cursor) \subseteq P
  BY DEF Past, Page, Window, HasMore
<1>2. IsFiniteSet(P) /\ MaxPull < Cardinality(P)
  BY <1>1, KeptFacts, FS_Subset DEF HasMore
<1>3. P # {}
  BY <1>2, FS_EmptySet, CapAssumption
<1>4. N \subseteq Nat /\ N # {}
  BY <1>1, <1>3, KeptFacts
<1>5. PICK m \in N : \A n \in N : m <= n
  <2> HIDE DEF N
  <2> QED BY <1>4, LeastExists
<1>6. PICK r \in P : syncRows[r].seq = m
  BY <1>5
<1>7. UpTo(r, P) = {r}
  <2>1. ASSUME NEW s \in P, syncRows[s].seq <= syncRows[r].seq PROVE s = r
    <3>1. s \in Kept /\ r \in Kept /\ syncRows[s].seq \in Nat /\ syncRows[r].seq \in Nat
      BY <1>1, KeptFacts
    <3>2. syncRows[r].seq <= syncRows[s].seq
      BY <1>5, <1>6
    <3>3. syncRows[s].seq = syncRows[r].seq
      BY <2>1, <3>1, <3>2
    <3> QED BY <3>1, <3>3 DEF Ordered, SeqsDistinct
  <2>2. syncRows[r].seq <= syncRows[r].seq
    BY <1>1, KeptFacts
  <2> QED BY <2>1, <2>2 DEF UpTo
<1>8. Cardinality(UpTo(r, P)) <= MaxPull
  <2>1. Cardinality({r}) = 1
    BY FS_Singleton, Zenon
  <2> QED BY <1>7, <2>1, CapAssumption
<1>9. r \in Window(q)
  BY <1>1, <1>8 DEF Page
<1>10. W \subseteq Nat /\ W # {} /\ maxSeq \in Nat /\ \A n \in W : n <= maxSeq
  BY <1>1, <1>9, KeptFacts DEF Ordered, SeqsBounded, FeedTypeOK
<1>11. \E n \in W : \A k \in W : k <= n
  <2> HIDE DEF W
  <2> QED BY <1>10, GreatestExists
<1>12. PageEnd(q) \in W /\ \A k \in Window(q) : syncRows[k].seq <= PageEnd(q)
  BY <1>11 DEF PageEnd
<1> QED BY <1>10, <1>12

LEMMA NewCursorBounded ==
  ASSUME FeedTypeOK, Ordered, NEW q \in Request
  PROVE  NewCursor(q) \in 0..(maxSeq + Cardinality(Accepted(q)))
<1>1. maxSeq \in Nat /\ Cardinality(Accepted(q)) \in Nat
  BY AcceptedFacts DEF FeedTypeOK
<1>2. CASE HasMore(q)
  BY <1>1, <1>2, PageEndBounded DEF NewCursor
<1>3. CASE ~HasMore(q)
  BY <1>1, <1>3 DEF NewCursor
<1> QED BY <1>2, <1>3

\* An accepted row is stored well-typed, under a number of its own past every
\* number handed out before.
LEMMA StoreFacts ==
  ASSUME FeedTypeOK, NEW q \in Request, NEW r \in Accepted(q)
  PROVE  /\ Store(q, r) \in Stored
         /\ Store(q, r).seq \in (maxSeq + 1)..(maxSeq + Cardinality(Accepted(q)))
         /\ Store(q, r).seq = maxSeq + Rank(r, Accepted(q))
         /\ Store(q, r).ts = Clamped(q.changes[r].ts)
<1>1. maxSeq \in Nat /\ Cardinality(Accepted(q)) \in Nat /\ now \in Nat
  BY AcceptedFacts DEF FeedTypeOK
<1>2. Rank(r, Accepted(q)) \in 1..Cardinality(Accepted(q))
  BY AcceptedFacts, RowAssumption, RankBounds
<1>3. SeqFor(r, Accepted(q)) = maxSeq + Rank(r, Accepted(q))
  BY DEF SeqFor, Rank
<1>4. q.changes[r] \in Change
  BY AcceptedFacts, RequestFacts
<1>5. /\ q.changes[r].ts \in Nat /\ q.changes[r].deleted \in BOOLEAN
      /\ q.changes[r].row \in Content
  BY <1>4, ClockAssumption DEF Change
<1>6. Clamped(q.changes[r].ts) \in Nat
  BY <1>1, <1>5, ClockAssumption DEF Clamped
<1>7. SeqFor(r, Accepted(q)) \in Nat \ {0}
  BY <1>1, <1>2, <1>3
<1>8. Store(q, r) \in Stored
  BY <1>5, <1>6, <1>7 DEF Store, Stored
<1> QED BY <1>1, <1>2, <1>3, <1>8 DEF Store

-----------------------------------------------------------------------------
(***************************************************************************)
(* The inductive invariant. A cursor on record stays within the feed only  *)
(* because the end of a capped page does, which is a fact about the        *)
(* numbers of the rows; the row count is a natural number only because it  *)
(* counts the rows.                                                        *)
(***************************************************************************)
FeedInv == FeedTypeOK /\ Ordered /\ CursorsBounded /\ UsageExact

LEMMA FeedInvInit == FeedInit => FeedInv
<1> SUFFICES ASSUME FeedInit PROVE FeedInv
  OBVIOUS
<1>1. Kept = {}
  BY DEF FeedInit, Kept
<1>2. FeedTypeOK
  BY DEF FeedInit, FeedTypeOK
<1>3. Ordered
  BY <1>1 DEF Ordered, SeqsDistinct, SeqsBounded
<1>4. CursorsBounded
  BY DEF FeedInit, CursorsBounded
<1>5. UsageExact
  BY <1>1, FS_EmptySet DEF FeedInit, UsageExact
<1> QED BY <1>2, <1>3, <1>4, <1>5 DEF FeedInv

LEMMA SyncApplyRows ==
  ASSUME FeedInv, NEW d \in Device, NEW q \in Request, SyncApply(d, q)
  PROVE  /\ Kept' = Kept \cup Accepted(q)
         /\ \A r \in Accepted(q) : syncRows'[r] = Store(q, r)
         /\ \A r \in Row \ Accepted(q) : syncRows'[r] = syncRows[r]
<1>1. Accepted(q) \subseteq Row
  BY AcceptedFacts DEF FeedInv
<1>2. syncRows' = [r \in Row |-> IF r \in Accepted(q) THEN Store(q, r) ELSE syncRows[r]]
  BY DEF SyncApply
<1>3. /\ \A r \in Accepted(q) : syncRows'[r] = Store(q, r)
      /\ \A r \in Row \ Accepted(q) : syncRows'[r] = syncRows[r]
  BY <1>1, <1>2
<1>4. \A r \in Accepted(q) : syncRows'[r] # NoRow
  BY <1>3, StoreFacts, NoRowAssumption DEF FeedInv
<1> QED BY <1>1, <1>3, <1>4 DEF Kept

LEMMA SyncApplyInv ==
  ASSUME FeedInv, NEW d \in Device, NEW q \in Request, SyncApply(d, q)
  PROVE  FeedInv'
<1> DEFINE A == Accepted(q)
           k == Cardinality(Accepted(q))
<1>1. FeedTypeOK /\ Ordered /\ CursorsBounded /\ UsageExact
  BY DEF FeedInv
<1>2. A \subseteq Row /\ IsFiniteSet(A) /\ k \in Nat /\ maxSeq \in Nat
  BY <1>1, AcceptedFacts DEF FeedTypeOK
<1>3. maxSeq' = maxSeq + k
  BY DEF SyncApply
<1>4. NewCursor(q) \in 0..(maxSeq + k)
  BY <1>1, NewCursorBounded
<1>5. Touched(d, IF MustResync(q) THEN 0 ELSE NewCursor(q)) \in Sighting
  <2>1. devices[d] # NoRow => devices[d].cursor \in Nat
    BY <1>1 DEF FeedTypeOK, Sighting
  <2> QED BY <1>1, <1>2, <1>4, <2>1 DEF Touched, Sighting, FeedTypeOK
<1>6. Touched(d, IF MustResync(q) THEN 0 ELSE NewCursor(q)).cursor <= maxSeq + k
  <2>1. devices[d] # NoRow => devices[d].cursor \in Nat /\ devices[d].cursor <= maxSeq
    BY <1>1 DEF FeedTypeOK, Sighting, CursorsBounded
  <2> QED BY <1>2, <1>4, <2>1 DEF Touched
<1>7. devices' = [devices EXCEPT ![d] = Touched(d, IF MustResync(q) THEN 0 ELSE NewCursor(q))]
  BY DEF SyncApply
<1>8. usage' = Cardinality(Kept')
  <2>1. Kept' = Kept \cup NewRows(q) /\ Kept \cap NewRows(q) = {}
    BY SyncApplyRows DEF NewRows
  <2>2. IsFiniteSet(Kept) /\ IsFiniteSet(NewRows(q)) /\ Cardinality(Kept) \in Nat /\ Cardinality(NewRows(q)) \in Nat
    BY <1>1, KeptFacts, AcceptedFacts
  <2>3. Cardinality(Kept \cup NewRows(q))
          = Cardinality(Kept) + Cardinality(NewRows(q)) - Cardinality(Kept \cap NewRows(q))
    BY <2>2, FS_Union
  <2>4. Cardinality(Kept \cap NewRows(q)) = 0
    BY <2>1, FS_EmptySet
  <2>5. usage' = Cardinality(Kept) + Cardinality(NewRows(q))
    BY <1>1 DEF SyncApply, UsageExact
  <2> QED BY <2>1, <2>2, <2>3, <2>4, <2>5
<1>9. FeedTypeOK'
  <2>1. syncRows' \in [Row -> Stored \cup {NoRow}]
    BY <1>1, StoreFacts DEF SyncApply, FeedTypeOK
  <2>2. devices' \in [Device -> Sighting \cup {NoRow}]
    BY <1>1, <1>5, <1>7 DEF FeedTypeOK
  <2>3. usage' \in Nat
    BY <1>1, AcceptedFacts DEF SyncApply, FeedTypeOK
  <2>4. maxSeq' \in Nat /\ prunedBelow' \in Nat /\ now' \in Nat
    BY <1>1, <1>2, <1>3 DEF SyncApply, FeedTypeOK
  <2> QED BY <2>1, <2>2, <2>3, <2>4 DEF FeedTypeOK
<1>10. \A r \in A : /\ syncRows'[r].seq = maxSeq + Rank(r, A)
                    /\ syncRows'[r].seq \in (maxSeq + 1)..(maxSeq + k)
  BY <1>1, SyncApplyRows, StoreFacts
<1>11. \A r \in Kept \ A : /\ syncRows'[r].seq = syncRows[r].seq
                           /\ syncRows[r].seq \in Nat
                           /\ syncRows[r].seq <= maxSeq
  BY <1>1, SyncApplyRows, KeptFacts DEF Ordered, SeqsBounded
<1>12. SeqsBounded'
  BY <1>2, <1>3, <1>10, <1>11, SyncApplyRows DEF SeqsBounded
<1>13. SeqsDistinct'
  <2> SUFFICES ASSUME NEW r \in Kept', NEW s \in Kept', syncRows'[r].seq = syncRows'[s].seq
               PROVE  r = s
    BY DEF SeqsDistinct
  <2>1. (r \in A \/ r \in Kept \ A) /\ (s \in A \/ s \in Kept \ A)
    BY SyncApplyRows
  <2>2. CASE r \in A /\ s \in A
    <3>0. A \subseteq Nat /\ IsFiniteSet(A)
      BY <1>2, RowAssumption
    <3>1. Rank(r, A) \in 1..Cardinality(A) /\ Rank(s, A) \in 1..Cardinality(A)
      <4> HIDE DEF A
      <4> QED BY <2>2, <3>0, RankBounds
    <3>2. Rank(r, A) = Rank(s, A)
      BY <1>2, <1>10, <2>2, <3>1
    <3> HIDE DEF A
    <3> QED BY <2>2, <3>0, <3>2, RankDistinct
  <2>3. CASE r \in A /\ s \in Kept \ A
    BY <1>2, <1>10, <1>11, <2>3
  <2>4. CASE r \in Kept \ A /\ s \in A
    BY <1>2, <1>10, <1>11, <2>4
  <2>5. CASE r \in Kept \ A /\ s \in Kept \ A
    BY <1>1, <1>11, <2>5 DEF Ordered, SeqsDistinct
  <2> QED BY <2>1, <2>2, <2>3, <2>4, <2>5
<1>14. CursorsBounded'
  <2>1. prunedBelow' <= maxSeq'
    BY <1>1, <1>2, <1>3 DEF SyncApply, CursorsBounded, FeedTypeOK
  <2>2. ASSUME NEW e \in Device, devices'[e] # NoRow PROVE devices'[e].cursor <= maxSeq'
    <3>1. CASE e = d
      BY <1>1, <1>3, <1>6, <1>7, <3>1 DEF FeedTypeOK
    <3>2. CASE e # d
      <4>1. devices'[e] = devices[e]
        BY <1>1, <1>7, <3>2 DEF FeedTypeOK
      <4>2. devices[e].cursor \in Nat /\ devices[e].cursor <= maxSeq
        BY <1>1, <2>2, <4>1 DEF FeedTypeOK, CursorsBounded, Sighting
      <4> QED BY <1>2, <1>3, <4>1, <4>2
    <3> QED BY <3>1, <3>2
  <2> QED BY <2>1, <2>2 DEF CursorsBounded
<1> QED BY <1>8, <1>9, <1>12, <1>13, <1>14 DEF FeedInv, Ordered, UsageExact

LEMMA PruneInv ==
  ASSUME FeedInv, PruneTombstones
  PROVE  FeedInv'
<1>1. FeedTypeOK /\ Ordered /\ CursorsBounded /\ UsageExact
  BY DEF FeedInv
<1>2. PICK f \in {devices[d].cursor : d \in Active} :
        /\ IsFloor(f)
        /\ syncRows' = [r \in Row |-> IF r \in Spent(f) THEN NoRow ELSE syncRows[r]]
        /\ usage' = usage - Cardinality(Spent(f))
        /\ prunedBelow' = IF f < prunedBelow THEN prunedBelow ELSE f
        /\ UNCHANGED <<maxSeq, devices, now>>
  BY DEF PruneTombstones
<1>3. f \in Nat /\ f <= maxSeq
  <2>1. PICK d \in Active : f = devices[d].cursor
    BY <1>2
  <2> QED BY <1>1, <2>1 DEF Active, FeedTypeOK, CursorsBounded, Sighting
<1>4. Spent(f) \in SUBSET Kept /\ Kept \subseteq Row
  BY DEF Spent, Kept
<1>5. Kept' = Kept \ Spent(f) /\ \A r \in Kept' : syncRows'[r] = syncRows[r]
  BY <1>2, <1>4 DEF Kept
<1>6. usage' = Cardinality(Kept') /\ usage' \in Nat
  <2>1. IsFiniteSet(Kept) /\ IsFiniteSet(Spent(f)) /\ IsFiniteSet(Kept')
    BY <1>1, <1>4, <1>5, KeptFacts, FS_Subset
  <2>2. /\ Cardinality(Kept) \in Nat /\ Cardinality(Spent(f)) \in Nat
        /\ Cardinality(Kept') \in Nat
    BY <2>1, FS_CardinalityType
  <2>3. Kept = Kept' \cup Spent(f) /\ Kept' \cap Spent(f) = {}
    BY <1>4, <1>5
  <2>4. Cardinality(Kept' \cup Spent(f))
          = Cardinality(Kept') + Cardinality(Spent(f)) - Cardinality(Kept' \cap Spent(f))
    BY <2>1, FS_Union
  <2>5. Cardinality(Kept' \cap Spent(f)) = 0
    BY <2>3, FS_EmptySet
  <2> QED BY <1>1, <1>2, <2>2, <2>3, <2>4, <2>5 DEF UsageExact
<1>7. FeedTypeOK'
  BY <1>1, <1>2, <1>3, <1>6 DEF FeedTypeOK
<1>8. Ordered'
  BY <1>1, <1>2, <1>5 DEF Ordered, SeqsDistinct, SeqsBounded
<1>9. CursorsBounded'
  BY <1>1, <1>2, <1>3 DEF CursorsBounded
<1> QED BY <1>6, <1>7, <1>8, <1>9 DEF FeedInv, UsageExact

LEMMA FeedInvNext == FeedInv /\ [FeedNext]_feedVars => FeedInv'
<1> SUFFICES ASSUME FeedInv, [FeedNext]_feedVars PROVE FeedInv'
  OBVIOUS
<1>1. ASSUME NEW d \in Device, NEW q \in Request, SyncApply(d, q) PROVE FeedInv'
  BY <1>1, SyncApplyInv
<1>2. CASE PruneTombstones
  BY <1>2, PruneInv
<1>3. ASSUME NEW t \in Stamp, Elapse(t) PROVE FeedInv'
  <2>1. t \in Nat /\ now' = t /\ UNCHANGED <<syncRows, maxSeq, prunedBelow, devices, usage>>
    BY <1>3, ClockAssumption DEF Elapse
  <2> QED BY <2>1 DEF FeedInv, FeedTypeOK, Ordered, SeqsDistinct, SeqsBounded, CursorsBounded,
                      UsageExact, Kept
<1>4. CASE UNCHANGED feedVars
  BY <1>4 DEF feedVars, FeedInv, FeedTypeOK, Ordered, SeqsDistinct, SeqsBounded,
              CursorsBounded, UsageExact, Kept
<1> QED BY <1>1, <1>2, <1>3, <1>4 DEF FeedNext

THEOREM FeedInvariant == FeedSpec => []FeedInv
BY FeedInvInit, FeedInvNext, PTL DEF FeedSpec

-----------------------------------------------------------------------------
\* The tables of the feed are well-typed, whatever the devices send.
THEOREM FeedTypeCorrect == FeedSpec => []FeedTypeOK
<1>1. FeedInv => FeedTypeOK
  BY DEF FeedInv
<1> QED BY <1>1, FeedInvariant, PTL

\* No two rows ever share a sequence number, and neither a row, a device's
\* recorded cursor nor the pruned floor is past the top.
THEOREM FeedNumbered == FeedSpec => []Numbered
<1>1. FeedInv => Numbered
  BY DEF FeedInv, Ordered, Numbered
<1> QED BY <1>1, FeedInvariant, PTL

\* The running row count equals the number of rows, and the account never holds
\* more of them than its cap.
THEOREM FeedCounted == FeedSpec => []Counted
<1>1. FeedInit => UsageCapped
  BY CapAssumption DEF FeedInit, UsageCapped
<1>2. FeedInv /\ UsageCapped /\ [FeedNext]_feedVars => UsageCapped'
  <2> SUFFICES ASSUME FeedInv, UsageCapped, [FeedNext]_feedVars PROVE UsageCapped'
    OBVIOUS
  <2>1. usage \in Nat /\ MaxRows \in Nat /\ usage <= MaxRows
    BY CapAssumption DEF FeedInv, FeedTypeOK, UsageCapped
  <2>2. ASSUME NEW d \in Device, NEW q \in Request, SyncApply(d, q) PROVE UsageCapped'
    <3>1. usage' = usage + Cardinality(NewRows(q)) /\ ~OverCap(q)
      BY <2>2 DEF SyncApply
    <3>2. Cardinality(NewRows(q)) \in Nat
      BY AcceptedFacts DEF FeedInv
    <3>3. NewRows(q) = {} => Cardinality(NewRows(q)) = 0
      BY FS_EmptySet
    <3> QED BY <2>1, <3>1, <3>2, <3>3 DEF OverCap, UsageCapped
  <2>3. ASSUME PruneTombstones PROVE UsageCapped'
    <3>1. PICK f : usage' = usage - Cardinality(Spent(f))
      BY <2>3 DEF PruneTombstones
    <3>2. Spent(f) \in SUBSET Kept /\ IsFiniteSet(Kept)
      BY KeptFacts DEF Spent, FeedInv
    <3>3. Cardinality(Spent(f)) \in Nat
      BY <3>2, FS_Subset, FS_CardinalityType
    <3> QED BY <2>1, <3>1, <3>3 DEF UsageCapped
  <2>4. ASSUME NEW t \in Stamp, Elapse(t) PROVE UsageCapped'
    BY <2>1, <2>4 DEF Elapse, UsageCapped
  <2>5. CASE UNCHANGED feedVars
    BY <2>1, <2>5 DEF feedVars, UsageCapped
  <2> QED BY <2>2, <2>3, <2>4, <2>5 DEF FeedNext
<1>3. FeedInv /\ UsageCapped => Counted
  BY DEF FeedInv, Counted
<1> QED BY <1>1, <1>2, <1>3, FeedInvariant, PTL DEF FeedSpec

\* A stored row only ever gives way to a strictly newer one, numbered past
\* the whole feed, or leaves as a tombstone under the recorded floor.
THEOREM FeedNewestWins == FeedSpec => NewestWins
<1> DEFINE Fair(r) == \/ /\ syncRows'[r] # NoRow
                         /\ syncRows[r].ts < syncRows'[r].ts
                         /\ maxSeq < syncRows'[r].seq
                      \/ /\ syncRows'[r] = NoRow
                         /\ syncRows[r].deleted
                         /\ syncRows[r].seq <= prunedBelow'
<1>1. FeedInv /\ [FeedNext]_feedVars =>
        [\A r \in Row : syncRows'[r] # syncRows[r] /\ syncRows[r] # NoRow => Fair(r)]_feedVars
  <2> SUFFICES ASSUME FeedInv, FeedNext, NEW r \in Row,
                      syncRows'[r] # syncRows[r], syncRows[r] # NoRow
               PROVE  Fair(r)
    OBVIOUS
  <2>1. r \in Kept /\ syncRows[r].ts \in Nat /\ syncRows[r].seq \in Nat /\ maxSeq \in Nat
    BY KeptFacts DEF Kept, FeedInv, FeedTypeOK
  <2>2. ASSUME NEW d \in Device, NEW q \in Request, SyncApply(d, q) PROVE Fair(r)
    <3>1. r \in Accepted(q) /\ syncRows'[r] = Store(q, r)
      BY <2>2, SyncApplyRows
    <3>2. /\ Store(q, r) \in Stored /\ Store(q, r).ts = Clamped(q.changes[r].ts)
          /\ Store(q, r).seq \in (maxSeq + 1)..(maxSeq + Cardinality(Accepted(q)))
      BY <3>1, StoreFacts DEF FeedInv
    <3>3. Cardinality(Accepted(q)) \in Nat /\ Clamped(q.changes[r].ts) \in Nat
      BY <3>2, AcceptedFacts DEF FeedInv, Stored
    <3>4. syncRows[r].ts < Clamped(q.changes[r].ts)
      BY <2>1, <3>1, <3>3 DEF Accepted, Loses
    <3>5. syncRows'[r] # NoRow
      BY <3>1, <3>2, NoRowAssumption
    <3> QED BY <2>1, <3>1, <3>2, <3>3, <3>4, <3>5
  <2>3. ASSUME PruneTombstones PROVE Fair(r)
    <3>1. PICK f \in {devices[d].cursor : d \in Active} :
            /\ syncRows' = [x \in Row |-> IF x \in Spent(f) THEN NoRow ELSE syncRows[x]]
            /\ prunedBelow' = IF f < prunedBelow THEN prunedBelow ELSE f
      BY <2>3 DEF PruneTombstones
    <3>2. f \in Nat /\ prunedBelow \in Nat
      BY <3>1 DEF Active, FeedInv, FeedTypeOK, Sighting
    <3>3. r \in Spent(f) /\ syncRows'[r] = NoRow
      BY <3>1
    <3>4. syncRows[r].deleted /\ syncRows[r].seq <= f
      BY <3>3 DEF Spent
    <3> QED BY <2>1, <3>1, <3>2, <3>3, <3>4
  <2>4. ASSUME NEW t \in Stamp, Elapse(t) PROVE Fair(r)
    BY <2>4 DEF Elapse
  <2> QED BY <2>2, <2>3, <2>4 DEF FeedNext
<1> QED BY <1>1, FeedInvariant, PTL DEF FeedSpec, NewestWins

-----------------------------------------------------------------------------
(***************************************************************************)
(* The devices and the feed.                                               *)
(***************************************************************************)
News == [row : Row, change : Stored]
Answer == [cursor : Nat, changes : SUBSET News, hasMore : BOOLEAN, resync : BOOLEAN]
Batches == UNION {[S -> Change] : S \in {T \in SUBSET Row : Cardinality(T) <= MaxPush}}
Loop == [cursor : Nat, fetchFrom : Nat, reseeding : BOOLEAN, buffered : SUBSET News,
         batch : Batches, reply : Answer \cup {NoRow}]
Place == {"idle", "sent", "replied", "wiped", "applied", "acked"}

TablesTyped ==
  /\ local \in [Device -> [Row -> Content \cup {NoRow}]]
  /\ outbox \in [Device -> [Row -> Change \cup {NoRow}]]
  /\ saved \in [Device -> [cursor : Nat, reseeding : BOOLEAN]]
  /\ updated \in [Device -> BOOLEAN]
  /\ pc \in [Device -> Place]
  /\ loop \in [Device -> Loop \cup {Idle}]

\* Where a loop is, it holds what it needs there, and no cursor is past the top.
Bounded(l) == l \in Loop /\ l.cursor <= l.fetchFrom /\ l.fetchFrom <= maxSeq
BringsOn(l) == /\ l.reply \in Answer
               /\ ~l.reply.resync => l.fetchFrom <= l.reply.cursor /\ l.reply.cursor <= maxSeq
LoopTyped(d) ==
  /\ saved[d].cursor <= maxSeq
  /\ pc[d] = "idle" => loop[d] = Idle
  /\ pc[d] # "idle" => Bounded(loop[d])
  /\ pc[d] \in {"replied", "wiped", "applied", "acked"} => BringsOn(loop[d])
  /\ pc[d] \in {"applied", "acked"} => ~loop[d].reply.resync
OrphansTyped ==
  /\ IsFiniteSet(orphans) /\ Cardinality(orphans) <= MaxOrphans
  /\ \A o \in orphans : o.from \in Device /\ o.request \in Request

\* What is staged is in the tables; it was written on this device, at a moment
\* and under a stamp that tell each other.
Wrote(d, c) == /\ Skew[d] <= c.ts /\ c.ts <= now + Skew[d]
               /\ c.row = [id |-> c.ts - Skew[d], stamp |-> c.ts]
Content0(c) == IF c.deleted THEN NoRow ELSE c.row
OwnWrites(d) ==
  /\ \A r \in Staged(d) : Wrote(d, outbox[d][r]) /\ local[d][r] = Content0(outbox[d][r])
  /\ pc[d] # "idle" => \A r \in DOMAIN loop[d].batch : Wrote(d, loop[d].batch[r])
OrphanWrites == \A o \in orphans :
  \A r \in DOMAIN o.request.changes : Wrote(o.from, o.request.changes[r])

EngineInv == /\ FeedInv /\ TablesTyped /\ OrphansTyped /\ OrphanWrites
             /\ \A d \in Device : LoopTyped(d) /\ OwnWrites(d)

-----------------------------------------------------------------------------
\* No clock is further ahead than the server puts up with.
Clocks == \A d \in Device : Skew[d] <= ClampAhead

\* What the server had: its rows, what it sent, what it was sent and took.
HadOf(d) == pc[d] # "idle" =>
  /\ \A c \in loop[d].buffered : c.change.ts <= had[c.row]
  /\ pc[d] # "sent" => \A c \in loop[d].reply.changes : c.change.ts <= had[c.row]
  /\ pc[d] \in {"replied", "applied"} /\ ~loop[d].reply.hasMore =>
       \A r \in DOMAIN loop[d].batch : loop[d].batch[r].ts <= had[r]
HadInv ==
  /\ had \in [Row -> Nat]
  /\ \A r \in Kept : syncRows[r].ts <= had[r]
  /\ \A d \in Device : HadOf(d)

-----------------------------------------------------------------------------
\* Without pruning nobody is told to start over.
Settled(d) == pc[d] # "wiped" /\ (pc[d] = "replied" => ~loop[d].reply.resync)

\* Stamps are the rows' own, on the server and on their way from it.
Dated(c) == c.ts = c.row.stamp
DatesOf(d) ==
  /\ pc[d] # "idle" =>
       /\ \A c \in loop[d].buffered : Dated(c.change)
       /\ pc[d] # "sent" => \A c \in loop[d].reply.changes : Dated(c.change)
  /\ \A r \in Row : local[d][r] # NoRow => local[d][r].stamp \in Nat

\* What a row of the tables (kept), what is staged of it and what the account
\* stores of it have to do with each other, up to a cursor.
AgreesAs(kept, staged, stored, cursor) == staged = NoRow =>
  /\ kept # NoRow => stored # NoRow /\ kept.stamp <= stored.ts
  /\ stored # NoRow /\ stored.seq <= cursor => kept = Content0(stored)
SameAs(stored, change) ==
  stored.ts = change.ts /\ stored.deleted = change.deleted /\ stored.row = change.row

\* What came with an answer is what is stored, or was overtaken since: by a
\* later record, or by what this very loop pushed.
StemsAs(news, stored) ==
  /\ stored # NoRow
  /\ news = stored \/ (news.ts < stored.ts /\ news.seq < stored.seq)
PushedAs(d, r) == /\ ~loop[d].reply.hasMore
                  /\ r \in DOMAIN loop[d].batch /\ SameAs(syncRows[r], loop[d].batch[r])
                  /\ loop[d].fetchFrom < syncRows[r].seq

BaseCursor(d) == IF pc[d] \in {"applied", "acked"} THEN loop[d].reply.cursor ELSE saved[d].cursor
BaseOK(d, r) == Knows(d, r) => AgreesAs(local[d][r], outbox[d][r], syncRows[r], BaseCursor(d))
UnknownOK(d, r) == ~Knows(d, r) => /\ local[d][r] = NoRow /\ outbox[d][r] = NoRow
                                   /\ r \in Kept => saved[d].cursor < syncRows[r].seq
                                   /\ pc[d] # "idle" => r \notin DOMAIN loop[d].batch
BufferOK(d) == \A c \in loop[d].buffered :
  StemsAs(c.change, syncRows[c.row]) /\ loop[d].cursor < c.change.seq
HeldOK(d, r) ==
  r \in Kept /\ loop[d].cursor < syncRows[r].seq /\ syncRows[r].seq <= loop[d].fetchFrom =>
    [row |-> r, change |-> syncRows[r]] \in loop[d].buffered
ReplyOK(d) == \A c \in loop[d].reply.changes :
  /\ StemsAs(c.change, syncRows[c.row])
  /\ \/ c.change = syncRows[c.row]
     \/ PushedAs(d, c.row)
     \/ loop[d].reply.cursor < syncRows[c.row].seq
  /\ loop[d].reply.hasMore => loop[d].fetchFrom < c.change.seq
SentOK(d, r) ==
  r \in Kept /\ loop[d].fetchFrom < syncRows[r].seq /\ syncRows[r].seq <= loop[d].reply.cursor =>
    [row |-> r, change |-> syncRows[r]] \in loop[d].reply.changes \/ PushedAs(d, r)
StagedOK(d, r) == r \in DOMAIN loop[d].batch =>
  /\ r \in Staged(d) /\ loop[d].batch[r].ts <= outbox[d][r].ts
  /\ loop[d].batch[r].ts = outbox[d][r].ts => loop[d].batch[r] = outbox[d][r]
TookOK(d, r) == ~loop[d].reply.hasMore /\ r \in DOMAIN loop[d].batch =>
  /\ r \in Kept /\ loop[d].batch[r].ts <= syncRows[r].ts
  /\ pc[d] = "replied" /\ syncRows[r].seq <= loop[d].reply.cursor =>
       \/ SameAs(syncRows[r], loop[d].batch[r])
       \/ [row |-> r, change |-> syncRows[r]] \in loop[d].reply.changes
  /\ pc[d] = "applied" /\ syncRows[r].seq <= loop[d].reply.cursor
       /\ r \in Staged(d) /\ outbox[d][r].ts = loop[d].batch[r].ts =>
       SameAs(syncRows[r], loop[d].batch[r])
TruthOK(d) ==
  /\ Settled(d) /\ DatesOf(d)
  /\ \A r \in Row : BaseOK(d, r) /\ UnknownOK(d, r)
  /\ pc[d] # "idle" => /\ loop[d].cursor = saved[d].cursor
                       /\ BufferOK(d) /\ \A r \in Row : HeldOK(d, r)
  /\ pc[d] \in {"sent", "replied"} => \A r \in Row : StagedOK(d, r)
  /\ pc[d] \in {"replied", "applied", "acked"} => ReplyOK(d) /\ \A r \in Row : SentOK(d, r)
  /\ pc[d] \in {"replied", "applied"} => \A r \in Row : TookOK(d, r)
TruthInv == /\ prunedBelow = 0 /\ \A r \in Kept : Dated(syncRows[r])
            /\ \A d \in Device : TruthOK(d)
-----------------------------------------------------------------------------
(***************************************************************************)
(* What a pass begins with, and what a request comes back with.            *)
(***************************************************************************)
\* The first members of a set of numbers are as many as were asked for, at most.
LEMMA FirstOnes ==
  ASSUME NEW T, IsFiniteSet(T), T \subseteq Nat, NEW k \in Nat
  PROVE  Cardinality({r \in T : Rank(r, T) <= k}) <= k
<1> DEFINE U == {r \in T : Rank(r, T) <= k}
           f == [r \in U |-> Rank(r, T)]
<1>1. U \in SUBSET T
  OBVIOUS
<1>2. IsFiniteSet(U)
  BY <1>1, FS_Subset
<1>3. Cardinality(U) \in Nat /\ Cardinality(T) \in Nat
  BY <1>2, FS_CardinalityType
<1>4. IsFiniteSet(1..k) /\ Cardinality(1..k) = k
  <2>1. IsFiniteSet(1..k) /\ Cardinality(1..k) = IF 1 > k THEN 0 ELSE k - 1 + 1
    BY FS_Interval
  <2> QED BY <2>1
<1>5. \A r \in U : Rank(r, T) \in 1..k
  <2>1. \A r \in U : Rank(r, T) \in 1..Cardinality(T)
    BY RankBounds
  <2> QED BY <1>3, <2>1
<1>6. f \in [U -> 1..k]
  BY <1>5
<1>7. \A x, y \in U : f[x] = f[y] => x = y
  BY <1>1, RankDistinct
<1> HIDE DEF U, f
<1>8. ~(k < Cardinality(U))
  <2> SUFFICES ASSUME k < Cardinality(U) PROVE FALSE
    OBVIOUS
  <2>1. \E x, y \in U : x # y /\ f[x] = f[y]
    BY <1>2, <1>4, <1>6, FS_PigeonHole
  <2> QED BY <1>7, <2>1
<1>9. Cardinality(U) <= k
  BY <1>3, <1>8
<1> QED BY <1>9 DEF U

LEMMA BatchFacts ==
  ASSUME NEW d \in Device, outbox[d] \in [Row -> Change \cup {NoRow}]
  PROVE  /\ Batch(d) \in Batches /\ DOMAIN Batch(d) \subseteq Staged(d)
         /\ \A r \in DOMAIN Batch(d) : Batch(d)[r] = outbox[d][r]
<1> DEFINE T == Staged(d)
           S == {r \in T : Rank(r, T) <= MaxPush}
<1>1. T \in SUBSET Row /\ IsFiniteSet(Row) /\ Row \subseteq Nat /\ MaxPush \in Nat
  BY RowAssumption, CapAssumption DEF Staged
<1>2. IsFiniteSet(T) /\ T \subseteq Nat
  BY <1>1, FS_Subset
<1>3. Cardinality(S) <= MaxPush
  <2> HIDE DEF T
  <2> QED BY <1>1, <1>2, FirstOnes
<1>4. Batch(d) = [r \in S |-> outbox[d][r]]
  BY DEF Batch, Rank
<1>5. S \subseteq T /\ S \in SUBSET Row
  BY <1>1
<1>6. \A r \in T : outbox[d][r] \in Change
  BY DEF Staged
<1> HIDE DEF S, T
<1>7. Batch(d) \in [S -> Change] /\ DOMAIN Batch(d) = S
  BY <1>4, <1>5, <1>6
<1>8. Batch(d) \in Batches
  BY <1>3, <1>5, <1>7 DEF Batches
<1>9. \A r \in S : Batch(d)[r] = outbox[d][r]
  BY <1>4
<1> QED BY <1>5, <1>7, <1>8, <1>9 DEF T

LEMMA LoopFields ==
  ASSUME NEW l \in Loop
  PROVE  /\ l.cursor \in Nat /\ l.fetchFrom \in Nat /\ l.reseeding \in BOOLEAN
         /\ l.buffered \in SUBSET News /\ l.batch \in Batches
         /\ l.reply \in Answer \cup {NoRow}
BY DEF Loop

LEMMA BatchFields ==
  ASSUME NEW b \in Batches
  PROVE  /\ DOMAIN b \subseteq Row /\ \A r \in DOMAIN b : b[r] \in Change
<1>1. PICK S \in {T \in SUBSET Row : Cardinality(T) <= MaxPush} : b \in [S -> Change]
  BY DEF Batches
<1> QED BY <1>1

LEMMA PassFacts ==
  ASSUME NEW d \in Device, outbox[d] \in [Row -> Change \cup {NoRow}], maxSeq \in Nat,
         NEW cursor \in Nat, NEW fetchFrom \in Nat, cursor <= fetchFrom, fetchFrom <= maxSeq,
         NEW reseeding \in BOOLEAN, NEW buffered \in SUBSET News
  PROVE  Bounded(Pass(d, cursor, fetchFrom, reseeding, buffered))
BY BatchFacts DEF Pass, Bounded, Loop

LEMMA RequestIn ==
  ASSUME NEW l, Bounded(l)
  PROVE  RequestOf(l) \in Request
<1>1. l.fetchFrom \in Nat /\ l.fetchFrom <= maxSeq /\ l.reseeding \in BOOLEAN /\ l.batch \in Batches
  BY LoopFields DEF Bounded
<1>2. 0 <= l.fetchFrom
  BY <1>1
<1>3. maxSeq \in Nat => l.fetchFrom \in 0..maxSeq
  BY <1>1, <1>2
<1> QED BY <1>1, <1>3 DEF RequestOf, Request, Batches

LEMMA ReplyFacts ==
  ASSUME FeedInv, NEW q \in Request
  PROVE  /\ Reply(q) \in Answer
         /\ Reply(q).resync = MustResync(q) /\ Reply(q).hasMore = HasMore(q)
         /\ Reply(q).changes = Outgoing(q)
         /\ ~MustResync(q) => /\ q.cursor <= Reply(q).cursor
                              /\ Reply(q).cursor = NewCursor(q)
                              /\ Reply(q).cursor <= maxSeq + Cardinality(Accepted(q))
<1>1. FeedTypeOK /\ Ordered /\ maxSeq \in Nat /\ q.cursor \in 0..maxSeq /\ q.cursor \in Nat
  BY RequestFacts DEF FeedInv, FeedTypeOK
<1>2. NewCursor(q) \in 0..(maxSeq + Cardinality(Accepted(q))) /\ Cardinality(Accepted(q)) \in Nat
  BY <1>1, NewCursorBounded, AcceptedFacts
<1>3. Window(q) \cup Beaten(q) \subseteq Kept
  BY DEF Window, Page, Past, Beaten, Accepted, Loses
<1>4. Outgoing(q) \subseteq News
  BY <1>1, <1>3, KeptFacts DEF Outgoing, News
<1>5. MustResync(q) \in BOOLEAN /\ HasMore(q) \in BOOLEAN
  BY DEF MustResync, HasMore
<1>6. Reply(q) \in Answer
  BY <1>2, <1>4, <1>5 DEF Reply, Answer
<1>7. q.cursor <= NewCursor(q)
  <2>1. CASE HasMore(q)
    <3>1. PICK r \in Window(q) : PageEnd(q) = syncRows[r].seq
      BY <1>1, <2>1, PageEndBounded
    <3>2. q.cursor < syncRows[r].seq /\ syncRows[r].seq \in Nat
      <4>1. r \in Past(q.cursor)
        BY <3>1 DEF Window, Page
      <4>2. r \in Kept
        BY <4>1 DEF Past
      <4> QED BY <1>1, <4>1, <4>2, KeptFacts DEF Past
    <3> QED BY <1>1, <2>1, <3>1, <3>2 DEF NewCursor
  <2>2. CASE ~HasMore(q)
    BY <1>1, <1>2, <2>2 DEF NewCursor
  <2> QED BY <2>1, <2>2
<1> QED BY <1>2, <1>5, <1>6, <1>7 DEF Reply

-----------------------------------------------------------------------------
(***************************************************************************)
(* The type: one lemma per step of a device.                               *)
(***************************************************************************)
\* The feed under each step of the whole.
LEMMA ElapseInv ==
  ASSUME FeedInv, NEW t \in Nat, Elapse(t)
  PROVE  FeedInv' /\ maxSeq' = maxSeq /\ now <= now'
<1>1. t \in Nat /\ now' = t /\ now < t /\ UNCHANGED <<syncRows, maxSeq, prunedBelow, devices, usage>>
  BY DEF Elapse
<1>2. now \in Nat
  BY DEF FeedInv, FeedTypeOK
<1>3. FeedInv'
  BY <1>1 DEF FeedInv, FeedTypeOK, Ordered, SeqsDistinct, SeqsBounded, CursorsBounded,
              UsageExact, Kept
<1> QED BY <1>1, <1>2, <1>3

LEMMA StillFeed ==
  ASSUME FeedInv, UNCHANGED feedVars
  PROVE  FeedInv'
BY DEF feedVars, FeedInv, FeedTypeOK, Ordered, SeqsDistinct, SeqsBounded, CursorsBounded,
       UsageExact, Kept

Grown == FeedInv /\ FeedInv' /\ maxSeq <= maxSeq' /\ now <= now'

LEMMA StillGrown ==
  ASSUME FeedInv, UNCHANGED feedVars
  PROVE  Grown
<1>1. maxSeq \in Nat /\ now \in Nat /\ maxSeq' = maxSeq /\ now' = now
  BY DEF FeedInv, FeedTypeOK, feedVars
<1> QED BY <1>1, StillFeed DEF Grown

LEMMA ApplyGrown ==
  ASSUME FeedInv, NEW d \in Device, NEW q \in Request, SyncApply(d, q)
  PROVE  Grown /\ maxSeq' = maxSeq + Cardinality(Accepted(q))
<1>1. maxSeq \in Nat /\ now \in Nat /\ now' = now /\ Cardinality(Accepted(q)) \in Nat
  BY AcceptedFacts DEF FeedInv, FeedTypeOK, SyncApply
<1>2. maxSeq' = maxSeq + Cardinality(Accepted(q))
  BY DEF SyncApply
<1>3. FeedInv'
  BY SyncApplyInv
<1> QED BY <1>1, <1>2, <1>3 DEF Grown

\* A write stays what it is as time goes by.
LEMMA WroteLater ==
  ASSUME Grown, NEW d \in Device, NEW c \in Change, Wrote(d, c)
  PROVE  Wrote(d, c)'
<1>1. c.ts \in Nat /\ now \in Nat /\ now' \in Nat /\ Skew[d] \in Nat /\ now <= now'
  BY ClockAssumption, EngineAssumption DEF Change, Grown, FeedInv, FeedTypeOK
<1>2. Skew[d] <= c.ts /\ c.ts <= now + Skew[d] /\ c.row = [id |-> c.ts - Skew[d], stamp |-> c.ts]
  BY DEF Wrote
<1>3. c.ts <= now' + Skew[d]
  BY <1>1, <1>2
<1> QED BY <1>2, <1>3 DEF Wrote

\* A device that takes no part in a step.
Untouched(d) == /\ saved'[d] = saved[d] /\ pc'[d] = pc[d] /\ loop'[d] = loop[d]
                /\ outbox'[d] = outbox[d] /\ local'[d] = local[d]

LEMMA StagedIn ==
  ASSUME TablesTyped, NEW d \in Device, NEW r \in Staged(d)
  PROVE  r \in Row /\ outbox[d][r] \in Change
BY DEF TablesTyped, Staged

LEMMA BatchIn ==
  ASSUME NEW l, Bounded(l)
  PROVE  l.batch \in Batches /\ DOMAIN l.batch \subseteq Row /\ \A r \in DOMAIN l.batch : l.batch[r] \in Change
<1>1. l.batch \in Batches
  BY LoopFields DEF Bounded
<1> QED BY <1>1, BatchFields

LEMMA LoopLater ==
  ASSUME Grown, TablesTyped, NEW d \in Device, LoopTyped(d),
         saved'[d] = saved[d], pc'[d] = pc[d], loop'[d] = loop[d]
  PROVE  LoopTyped(d)'
<1>1. maxSeq \in Nat /\ maxSeq' \in Nat /\ maxSeq <= maxSeq' /\ saved[d].cursor \in Nat
  BY DEF Grown, FeedInv, FeedTypeOK, TablesTyped
<1>2. Bounded(loop[d]) => Bounded(loop[d])'
  <2> SUFFICES ASSUME Bounded(loop[d]) PROVE Bounded(loop[d])'
    OBVIOUS
  <2>1. loop[d] \in Loop /\ loop[d].fetchFrom \in Nat /\ loop[d].cursor \in Nat
    BY LoopFields DEF Bounded
  <2> QED BY <1>1, <2>1 DEF Bounded
<1>3. BringsOn(loop[d]) => BringsOn(loop[d])'
  <2> SUFFICES ASSUME BringsOn(loop[d]) PROVE BringsOn(loop[d])'
    OBVIOUS
  <2>1. loop[d].reply.cursor \in Nat
    BY DEF BringsOn, Answer
  <2> QED BY <1>1, <2>1 DEF BringsOn
<1> QED BY <1>1, <1>2, <1>3 DEF LoopTyped

LEMMA WritesLater ==
  ASSUME Grown, TablesTyped, NEW d \in Device, LoopTyped(d), OwnWrites(d), Untouched(d)
  PROVE  OwnWrites(d)'
<1>1. Staged(d)' = Staged(d)
  BY DEF Staged, Untouched
<1>2. ASSUME NEW r \in Staged(d)' PROVE Wrote(d, outbox[d][r])' /\ local'[d][r] = Content0(outbox'[d][r])
  BY <1>1, StagedIn, WroteLater DEF OwnWrites, Untouched
<1>3. ASSUME pc'[d] # "idle", NEW r \in DOMAIN loop'[d].batch PROVE Wrote(d, loop[d].batch[r])'
  <2>1. pc[d] # "idle" /\ Bounded(loop[d]) /\ r \in DOMAIN loop[d].batch
    BY <1>3 DEF LoopTyped, Untouched
  <2>2. loop[d].batch[r] \in Change /\ Wrote(d, loop[d].batch[r])
    BY <2>1, BatchIn DEF OwnWrites
  <2> QED BY <2>2, WroteLater DEF Untouched
<1> QED BY <1>1, <1>2, <1>3 DEF OwnWrites, Untouched

\* A device whose loop moved on, seen as one of all devices.
MovedOn(d) == Grown /\ LoopTyped(d)' /\ OwnWrites(d)'

LEMMA OthersStay ==
  ASSUME EngineInv, NEW d \in Device, MovedOn(d), NEW e \in Device, e # d => Untouched(e)
  PROVE  LoopTyped(e)' /\ OwnWrites(e)'
<1>1. CASE e = d
  BY <1>1 DEF MovedOn
<1>2. CASE e # d
  <2>1. LoopTyped(e) /\ OwnWrites(e) /\ Untouched(e) /\ Grown /\ TablesTyped
    BY <1>2 DEF EngineInv, MovedOn
  <2> QED BY <2>1, LoopLater, WritesLater DEF Untouched
<1> QED BY <1>1, <1>2

\* Requests under way grow old too.
LEMMA OrphansLater ==
  ASSUME EngineInv, Grown, orphans' = orphans
  PROVE  OrphansTyped' /\ OrphanWrites'
<1>1. maxSeq \in Nat /\ maxSeq' \in Nat /\ maxSeq <= maxSeq'
  BY DEF Grown, FeedInv, FeedTypeOK
<1>2. ASSUME NEW o \in orphans
      PROVE  /\ o.from \in Device /\ o.request \in Request'
             /\ \A r \in DOMAIN o.request.changes : Wrote(o.from, o.request.changes[r])'
  <2>1. o.from \in Device /\ o.request \in Request
    BY DEF EngineInv, OrphansTyped
  <2>2. 0..maxSeq \subseteq 0..maxSeq'
    BY <1>1
  <2>3. o.request \in Request'
    BY <2>1, <2>2 DEF Request
  <2>4. ASSUME NEW r \in DOMAIN o.request.changes PROVE Wrote(o.from, o.request.changes[r])'
    <3>1. o.request.changes[r] \in Change /\ Wrote(o.from, o.request.changes[r])
      BY <2>1, RequestFacts DEF EngineInv, OrphanWrites
    <3> QED BY <2>1, <3>1, WroteLater
  <2> QED BY <2>1, <2>3, <2>4
<1>3. OrphansTyped'
  BY <1>2 DEF EngineInv, OrphansTyped
<1> QED BY <1>2, <1>3 DEF OrphanWrites

\* What a loop sends was written on its device.
LEMMA BatchWritten ==
  ASSUME EngineInv, NEW d \in Device
  PROVE  \A r \in DOMAIN Batch(d) : Wrote(d, Batch(d)[r]) /\ Batch(d)[r] \in Change
<1>1. outbox[d] \in [Row -> Change \cup {NoRow}]
  BY DEF EngineInv, TablesTyped
<1>2. \A r \in DOMAIN Batch(d) : r \in Staged(d) /\ Batch(d)[r] = outbox[d][r]
  BY <1>1, BatchFacts
<1>3. \A r \in Staged(d) : Wrote(d, outbox[d][r]) /\ outbox[d][r] \in Change
  BY StagedIn DEF EngineInv, OwnWrites
<1> QED BY <1>2, <1>3

\* A loop at the head of a pass.
LEMMA PassMovesOn ==
  ASSUME EngineInv, NEW d \in Device, UNCHANGED <<feedVars, local, outbox>>,
         NEW cursor \in Nat, NEW fetchFrom \in Nat, cursor <= fetchFrom, fetchFrom <= maxSeq,
         NEW reseeding \in BOOLEAN, NEW buffered \in SUBSET News,
         pc'[d] = "sent", loop'[d] = Pass(d, cursor, fetchFrom, reseeding, buffered),
         saved'[d].cursor <= maxSeq
  PROVE  MovedOn(d) /\ loop'[d] \in Loop
<1>0. FeedInv /\ TablesTyped /\ LoopTyped(d) /\ OwnWrites(d) /\ maxSeq \in Nat
  BY DEF EngineInv, FeedInv, FeedTypeOK
<1>1. Grown
  BY <1>0, StillGrown
<1>2. Bounded(loop'[d])
  BY <1>0, PassFacts DEF TablesTyped
<1>3. Bounded(loop[d])' /\ loop'[d] \in Loop
  BY <1>2 DEF Bounded, feedVars
<1>4. LoopTyped(d)'
  BY <1>3 DEF LoopTyped, feedVars
<1>5. OwnWrites(d)'
  <2>1. \A r \in Staged(d)' : Wrote(d, outbox[d][r])' /\ local'[d][r] = Content0(outbox'[d][r])
    <3>1. Staged(d)' = Staged(d) /\ now' = now
      BY DEF Staged, feedVars
    <3> QED BY <1>0, <3>1 DEF OwnWrites, Wrote
  <2>2. \A r \in DOMAIN loop'[d].batch : Wrote(d, loop[d].batch[r])'
    <3>1. loop'[d].batch = Batch(d) /\ now' = now
      BY DEF Pass, feedVars
    <3> QED BY <3>1, BatchWritten DEF Wrote
  <2> QED BY <2>1, <2>2 DEF OwnWrites
<1> QED BY <1>1, <1>3, <1>4, <1>5 DEF MovedOn

\* A step of one device, the requests under way left alone.
LEMMA OneDeviceInv ==
  ASSUME EngineInv, NEW d \in Device, MovedOn(d), TablesTyped', orphans' = orphans,
         \A e \in Device : e # d => Untouched(e)
  PROVE  EngineInv'
<1>1. \A e \in Device : LoopTyped(e)' /\ OwnWrites(e)'
  BY OthersStay
<1>2. OrphansTyped' /\ OrphanWrites'
  BY OrphansLater DEF MovedOn
<1> QED BY <1>1, <1>2 DEF EngineInv, MovedOn, Grown

LEMMA StartSyncInv ==
  ASSUME EngineInv, NEW d \in Device, StartSync(d)
  PROVE  EngineInv'
<1>0. FeedInv /\ TablesTyped /\ LoopTyped(d)
  BY DEF EngineInv
<1>1. /\ pc' = [pc EXCEPT ![d] = "sent"]
      /\ loop' = [loop EXCEPT ![d] = Pass(d, saved[d].cursor, saved[d].cursor, saved[d].reseeding, {})]
      /\ UNCHANGED <<feedVars, local, outbox, saved, updated, orphans>>
  BY DEF StartSync
<1>2. /\ saved[d].cursor \in Nat /\ saved[d].reseeding \in BOOLEAN /\ saved[d].cursor <= maxSeq
      /\ saved[d].cursor <= saved[d].cursor
  BY <1>0 DEF TablesTyped, LoopTyped
<1>3. pc'[d] = "sent" /\ loop'[d] = Pass(d, saved[d].cursor, saved[d].cursor, saved[d].reseeding, {})
  BY <1>0, <1>1 DEF TablesTyped
<1>4. MovedOn(d) /\ loop'[d] \in Loop
  BY <1>1, <1>2, <1>3, PassMovesOn
<1>5. TablesTyped'
  BY <1>0, <1>1, <1>3, <1>4 DEF TablesTyped, Place
<1>6. \A e \in Device : e # d => Untouched(e)
  BY <1>0, <1>1 DEF TablesTyped, Untouched
<1> QED BY <1>1, <1>4, <1>5, <1>6, OneDeviceInv

LEMMA ServeInv ==
  ASSUME EngineInv, NEW d \in Device, Serve(d)
  PROVE  EngineInv'
<1> DEFINE q == RequestOf(loop[d])
<1>0. FeedInv /\ TablesTyped /\ LoopTyped(d) /\ OwnWrites(d) /\ maxSeq \in Nat
  BY DEF EngineInv, FeedInv, FeedTypeOK
<1>1. /\ pc[d] = "sent" /\ SyncApply(d, q)
      /\ pc' = [pc EXCEPT ![d] = "replied"]
      /\ loop' = [loop EXCEPT ![d].reply = Reply(q)]
      /\ UNCHANGED <<local, outbox, saved, updated, orphans>>
  BY DEF Serve
<1>2. Bounded(loop[d]) /\ q \in Request
  BY <1>0, <1>1, RequestIn DEF LoopTyped
<1>3. Grown /\ maxSeq' = maxSeq + Cardinality(Accepted(q)) /\ Cardinality(Accepted(q)) \in Nat
  <2> HIDE DEF q
  <2> QED BY <1>0, <1>1, <1>2, ApplyGrown, AcceptedFacts DEF FeedInv
<1>4. pc'[d] = "replied" /\ loop'[d] = [loop[d] EXCEPT !.reply = Reply(q)]
  BY <1>0, <1>1 DEF TablesTyped
<1>5. /\ Reply(q) \in Answer
      /\ ~Reply(q).resync => loop[d].fetchFrom <= Reply(q).cursor /\ Reply(q).cursor <= maxSeq'
  <2>1. q.cursor = loop[d].fetchFrom
    BY DEF RequestOf
  <2> HIDE DEF q
  <2> QED BY <1>0, <1>2, <1>3, <2>1, ReplyFacts
<1> HIDE DEF q
<1>6. loop[d] \in Loop /\ loop[d].cursor <= loop[d].fetchFrom /\ loop[d].fetchFrom \in Nat /\ loop[d].fetchFrom <= maxSeq
  BY <1>2, LoopFields DEF Bounded
<1>7. /\ loop'[d] \in Loop /\ loop'[d].reply = Reply(q) /\ loop'[d].cursor = loop[d].cursor
      /\ loop'[d].fetchFrom = loop[d].fetchFrom /\ loop'[d].batch = loop[d].batch
  BY <1>4, <1>5, <1>6 DEF Loop
<1>8. Bounded(loop[d])' /\ BringsOn(loop[d])'
  <2>1. maxSeq <= maxSeq' /\ maxSeq' \in Nat
    BY <1>0, <1>3
  <2> QED BY <1>0, <1>5, <1>6, <1>7, <2>1 DEF Bounded, BringsOn
<1>9. LoopTyped(d)'
  <2>1. saved'[d].cursor <= maxSeq'
    BY <1>0, <1>1, <1>3 DEF LoopTyped, TablesTyped
  <2> QED BY <1>4, <1>8, <2>1 DEF LoopTyped
<1>10. OwnWrites(d)'
  <2>1. Staged(d)' = Staged(d) /\ now' = now
    BY <1>1 DEF Staged, SyncApply
  <2> QED BY <1>0, <1>1, <1>7, <2>1 DEF OwnWrites, Wrote
<1>11. TablesTyped'
  BY <1>0, <1>1, <1>4, <1>7 DEF TablesTyped, Place
<1>12. \A e \in Device : e # d => Untouched(e)
  BY <1>0, <1>1 DEF TablesTyped, Untouched
<1> QED BY <1>1, <1>3, <1>9, <1>10, <1>11, <1>12, OneDeviceInv DEF MovedOn

\* A loop that ends.
LEMMA EndMovesOn ==
  ASSUME EngineInv, NEW d \in Device, UNCHANGED <<feedVars, local, outbox, updated>>,
         pc' = [pc EXCEPT ![d] = "idle"], loop' = [loop EXCEPT ![d] = Idle],
         saved' \in [Device -> [cursor : Nat, reseeding : BOOLEAN]],
         \A e \in Device : e # d => saved'[e] = saved[e], saved'[d].cursor <= maxSeq
  PROVE  MovedOn(d) /\ TablesTyped' /\ \A e \in Device : e # d => Untouched(e)
<1>0. FeedInv /\ TablesTyped /\ LoopTyped(d) /\ OwnWrites(d) /\ maxSeq \in Nat
  BY DEF EngineInv, FeedInv, FeedTypeOK
<1>1. Grown
  BY <1>0, StillGrown
<1>2. pc'[d] = "idle" /\ loop'[d] = Idle
  BY <1>0 DEF TablesTyped
<1>3. LoopTyped(d)'
  BY <1>2 DEF LoopTyped, feedVars
<1>4. OwnWrites(d)'
  <2>1. Staged(d)' = Staged(d) /\ now' = now
    BY DEF Staged, feedVars
  <2> QED BY <1>0, <1>2, <2>1 DEF OwnWrites, Wrote
<1>5. TablesTyped'
  BY <1>0, <1>2 DEF TablesTyped, Place
<1>6. \A e \in Device : e # d => Untouched(e)
  BY <1>0 DEF TablesTyped, Untouched
<1> QED BY <1>1, <1>3, <1>4, <1>5, <1>6 DEF MovedOn

LEMMA RefuseInv ==
  ASSUME EngineInv, NEW d \in Device, Refuse(d)
  PROVE  EngineInv'
<1>1. /\ pc' = [pc EXCEPT ![d] = "idle"] /\ loop' = [loop EXCEPT ![d] = Idle]
      /\ UNCHANGED <<feedVars, local, outbox, saved, updated, orphans>>
  BY DEF Refuse
<1>2. /\ saved' \in [Device -> [cursor : Nat, reseeding : BOOLEAN]] /\ saved'[d].cursor <= maxSeq
      /\ \A e \in Device : saved'[e] = saved[e]
  BY <1>1 DEF EngineInv, TablesTyped, LoopTyped
<1> QED BY <1>1, <1>2, EndMovesOn, OneDeviceInv

LEMMA AbandonInv ==
  ASSUME EngineInv, NEW d \in Device, Abandon(d)
  PROVE  EngineInv'
<1>1. /\ pc' = [pc EXCEPT ![d] = "idle"] /\ loop' = [loop EXCEPT ![d] = Idle]
      /\ UNCHANGED <<feedVars, local, outbox, saved, updated>>
  BY DEF Abandon
<1>2. /\ saved' \in [Device -> [cursor : Nat, reseeding : BOOLEAN]] /\ saved'[d].cursor <= maxSeq
      /\ \A e \in Device : saved'[e] = saved[e]
  BY <1>1 DEF EngineInv, TablesTyped, LoopTyped
<1>3. MovedOn(d) /\ TablesTyped' /\ \A e \in Device : e # d => Untouched(e)
  BY <1>1, <1>2, EndMovesOn
<1>4. CASE orphans' = orphans
  BY <1>3, <1>4, OneDeviceInv
<1>5. CASE /\ pc[d] = "sent" /\ Cardinality(orphans) < MaxOrphans
           /\ orphans' = orphans \cup {[from |-> d, request |-> RequestOf(loop[d])]}
  <2> DEFINE o == [from |-> d, request |-> RequestOf(loop[d])]
  <2>0. OrphansTyped /\ OrphanWrites /\ OwnWrites(d) /\ LoopTyped(d) /\ UNCHANGED <<maxSeq, now>>
    BY <1>1 DEF EngineInv, feedVars
  <2>1. Bounded(loop[d])
    BY <1>5, <2>0 DEF LoopTyped
  <2>2. o.from = d /\ o.request = RequestOf(loop[d]) /\ o.request.changes = loop[d].batch
    BY DEF RequestOf
  <2>3. o.request \in Request
    BY <2>1, <2>2, RequestIn
  <2>4. \A r \in DOMAIN o.request.changes : Wrote(d, o.request.changes[r])
    BY <1>5, <2>0, <2>2 DEF OwnWrites
  <2>5. IsFiniteSet(orphans') /\ Cardinality(orphans') <= MaxOrphans
    <3> HIDE DEF o
    <3>1. /\ IsFiniteSet(orphans \cup {o})
          /\ Cardinality(orphans \cup {o}) = IF o \in orphans THEN Cardinality(orphans)
                                                              ELSE Cardinality(orphans) + 1
      BY <2>0, FS_AddElement DEF OrphansTyped
    <3>2. Cardinality(orphans) \in Nat /\ MaxOrphans \in Nat
      BY <2>0, FS_CardinalityType, EngineAssumption DEF OrphansTyped
    <3> QED BY <1>5, <3>1, <3>2 DEF o
  <2>6. OrphansTyped'
    <3>1. ASSUME NEW p \in orphans' PROVE p.from \in Device /\ p.request \in Request
      BY <1>5, <2>0, <2>2, <2>3 DEF OrphansTyped
    <3> QED BY <2>0, <2>5, <3>1 DEF OrphansTyped, Request
  <2>7. OrphanWrites'
    <3>1. ASSUME NEW p \in orphans', NEW r \in DOMAIN p.request.changes
          PROVE  Wrote(p.from, p.request.changes[r])
      BY <1>5, <2>0, <2>2, <2>4 DEF OrphanWrites
    <3> QED BY <2>0, <3>1 DEF OrphanWrites, Wrote
  <2>8. \A e \in Device : LoopTyped(e)' /\ OwnWrites(e)'
    BY <1>3, OthersStay
  <2> QED BY <1>3, <2>6, <2>7, <2>8 DEF EngineInv, MovedOn, Grown
<1> QED BY <1>4, <1>5 DEF Abandon

LEMMA ServeOrphanInv ==
  ASSUME EngineInv, NEW o \in orphans, ServeOrphan(o)
  PROVE  EngineInv'
<1>0. FeedInv /\ TablesTyped /\ OrphansTyped /\ OrphanWrites /\ o.from \in Device /\ o.request \in Request
  BY DEF EngineInv, OrphansTyped
<1>1. /\ SyncApply(o.from, o.request) /\ orphans' = orphans \ {o}
      /\ UNCHANGED <<local, outbox, saved, updated, pc, loop>>
  BY DEF ServeOrphan
<1>2. Grown
  BY <1>0, <1>1, ApplyGrown
<1>3. \A e \in Device : LoopTyped(e)' /\ OwnWrites(e)'
  BY <1>1, <1>2, LoopLater, WritesLater DEF EngineInv, Untouched
<1>4. IsFiniteSet(orphans') /\ Cardinality(orphans') <= MaxOrphans
  <2>1. orphans' \in SUBSET orphans /\ IsFiniteSet(orphans) /\ Cardinality(orphans) <= MaxOrphans
    BY <1>0, <1>1 DEF OrphansTyped
  <2>2. IsFiniteSet(orphans') /\ Cardinality(orphans') <= Cardinality(orphans)
    BY <2>1, FS_Subset
  <2>3. Cardinality(orphans) \in Nat /\ Cardinality(orphans') \in Nat /\ MaxOrphans \in Nat
    BY <2>1, <2>2, FS_CardinalityType, EngineAssumption
  <2> QED BY <2>1, <2>2, <2>3
<1>5. ASSUME NEW p \in orphans PROVE /\ p.from \in Device /\ p.request \in Request'
             /\ \A r \in DOMAIN p.request.changes : Wrote(p.from, p.request.changes[r])'
  <2>1. p.from \in Device /\ p.request \in Request
    BY <1>0 DEF OrphansTyped
  <2>2. 0..maxSeq \subseteq 0..maxSeq'
    BY <1>2 DEF Grown, FeedInv, FeedTypeOK
  <2>3. p.request \in Request'
    BY <2>1, <2>2 DEF Request
  <2>4. ASSUME NEW r \in DOMAIN p.request.changes PROVE Wrote(p.from, p.request.changes[r])'
    <3>1. p.request.changes[r] \in Change /\ Wrote(p.from, p.request.changes[r])
      BY <1>0, <2>1, RequestFacts DEF OrphanWrites
    <3> QED BY <1>2, <2>1, <3>1, WroteLater
  <2> QED BY <2>1, <2>3, <2>4
<1>6. OrphansTyped' /\ OrphanWrites'
  BY <1>1, <1>4, <1>5 DEF OrphansTyped, OrphanWrites
<1>7. TablesTyped'
  BY <1>0, <1>1 DEF TablesTyped
<1> QED BY <1>2, <1>3, <1>6, <1>7 DEF EngineInv, Grown

LEMMA WipeInv ==
  ASSUME EngineInv, NEW d \in Device, WipeForResync(d)
  PROVE  EngineInv'
<1>0. FeedInv /\ TablesTyped /\ LoopTyped(d) /\ OwnWrites(d) /\ maxSeq \in Nat
  BY DEF EngineInv, FeedInv, FeedTypeOK
<1>1. /\ pc[d] = "replied"
      /\ local' = [local EXCEPT ![d] = NoRows]
      /\ outbox' = [outbox EXCEPT ![d] = NoRows]
      /\ pc' = [pc EXCEPT ![d] = "wiped"]
      /\ UNCHANGED <<feedVars, saved, updated, loop, orphans>>
  BY DEF WipeForResync
<1>2. Grown
  BY <1>0, <1>1, StillGrown
<1>3. pc'[d] = "wiped" /\ outbox'[d] = NoRows /\ local'[d] = NoRows
  BY <1>0, <1>1 DEF TablesTyped
<1>4. LoopTyped(d)'
  BY <1>0, <1>1, <1>3 DEF LoopTyped, Bounded, BringsOn, feedVars
<1>5. OwnWrites(d)'
  <2>1. Staged(d)' = {}
    BY <1>3 DEF Staged, NoRows
  <2> QED BY <1>0, <1>1, <2>1 DEF OwnWrites, Wrote, feedVars
<1>6. TablesTyped'
  BY <1>0, <1>1 DEF TablesTyped, Place, NoRows
<1>7. \A e \in Device : e # d => Untouched(e)
  BY <1>0, <1>1 DEF TablesTyped, Untouched
<1> QED BY <1>1, <1>2, <1>4, <1>5, <1>6, <1>7, OneDeviceInv DEF MovedOn

LEMMA SaveResetInv ==
  ASSUME EngineInv, NEW d \in Device, SaveReset(d)
  PROVE  EngineInv'
<1>0. FeedInv /\ TablesTyped /\ LoopTyped(d) /\ maxSeq \in Nat
  BY DEF EngineInv, FeedInv, FeedTypeOK
<1>1. /\ saved' = [saved EXCEPT ![d] = [cursor |-> 0, reseeding |-> TRUE]]
      /\ loop' = [loop EXCEPT ![d] = Pass(d, 0, 0, TRUE, {})]
      /\ pc' = [pc EXCEPT ![d] = "sent"]
      /\ UNCHANGED <<feedVars, local, outbox, updated, orphans>>
  BY DEF SaveReset
<1>2. 0 \in Nat /\ 0 <= 0 /\ 0 <= maxSeq /\ TRUE \in BOOLEAN /\ {} \in SUBSET News
  BY <1>0
<1>3. pc'[d] = "sent" /\ loop'[d] = Pass(d, 0, 0, TRUE, {}) /\ saved'[d].cursor <= maxSeq
  BY <1>0, <1>1, <1>2 DEF TablesTyped
<1>4. MovedOn(d) /\ loop'[d] \in Loop
  BY <1>1, <1>2, <1>3, PassMovesOn
<1>5. TablesTyped'
  BY <1>0, <1>1, <1>3, <1>4 DEF TablesTyped, Place
<1>6. \A e \in Device : e # d => Untouched(e)
  BY <1>0, <1>1 DEF TablesTyped, Untouched
<1> QED BY <1>1, <1>4, <1>5, <1>6, OneDeviceInv

\* All a loop has to apply is news.
LEMMA PendingIn ==
  ASSUME NEW l, l \in Loop, l.reply \in Answer
  PROVE  /\ Pending(l) \subseteq News /\ Newest(l) \subseteq Pending(l)
         /\ \A c \in Pending(l) : /\ c.row \in Row /\ c.change \in Stored
                                  /\ c.change.seq \in Nat \ {0} /\ c.change.ts \in Nat
                                  /\ c.change.deleted \in BOOLEAN /\ c.change.row \in Content
<1>1. l.buffered \subseteq News /\ l.reply.changes \subseteq News
  BY LoopFields DEF Answer
<1>2. \A c \in News : c.row \in Row /\ c.change \in Stored
  BY DEF News
<1>3. \A c \in Stored : /\ c.seq \in Nat \ {0} /\ c.ts \in Nat
                        /\ c.deleted \in BOOLEAN /\ c.row \in Content
  BY DEF Stored
<1>4. Pending(l) \subseteq News
  BY <1>1 DEF Pending
<1>5. Newest(l) \subseteq Pending(l)
  BY DEF Newest
<1> QED BY <1>2, <1>3, <1>4, <1>5

LEMMA BufferPageInv ==
  ASSUME EngineInv, NEW d \in Device, BufferPage(d)
  PROVE  EngineInv'
<1>0. FeedInv /\ TablesTyped /\ LoopTyped(d) /\ maxSeq \in Nat
  BY DEF EngineInv, FeedInv, FeedTypeOK
<1>1. /\ pc[d] = "replied" /\ ~loop[d].reply.resync
      /\ loop' = [loop EXCEPT ![d] = Pass(d, loop[d].cursor, loop[d].reply.cursor, TRUE, Pending(loop[d]))]
      /\ pc' = [pc EXCEPT ![d] = "sent"]
      /\ UNCHANGED <<feedVars, local, outbox, saved, updated, orphans>>
  BY <1>0 DEF BufferPage, TablesTyped
<1>2. Bounded(loop[d]) /\ BringsOn(loop[d])
  BY <1>0, <1>1 DEF LoopTyped
<1>3. loop[d] \in Loop /\ loop[d].reply \in Answer /\ loop[d].cursor \in Nat /\ loop[d].fetchFrom \in Nat
      /\ loop[d].reply.cursor \in Nat
  BY <1>2, LoopFields DEF Bounded, BringsOn, Answer
<1>4. /\ loop[d].cursor <= loop[d].reply.cursor /\ loop[d].reply.cursor <= maxSeq
      /\ TRUE \in BOOLEAN /\ Pending(loop[d]) \in SUBSET News
  BY <1>0, <1>1, <1>2, <1>3, PendingIn DEF Bounded, BringsOn
<1>5. /\ pc'[d] = "sent"
      /\ loop'[d] = Pass(d, loop[d].cursor, loop[d].reply.cursor, TRUE, Pending(loop[d]))
      /\ saved'[d].cursor <= maxSeq
  BY <1>0, <1>1 DEF TablesTyped, LoopTyped
<1>6. MovedOn(d) /\ loop'[d] \in Loop
  BY <1>1, <1>3, <1>4, <1>5, PassMovesOn
<1>7. TablesTyped'
  BY <1>0, <1>1, <1>5, <1>6 DEF TablesTyped, Place
<1>8. \A e \in Device : e # d => Untouched(e)
  BY <1>0, <1>1 DEF TablesTyped, Untouched
<1> QED BY <1>1, <1>6, <1>7, <1>8, OneDeviceInv

\* What a step that applies or acknowledges writes, row by row.
WrittenAt(d, r) == \E c \in Written(d) : c.row = r

LEMMA ApplyRows ==
  ASSUME TablesTyped, NEW d \in Device, loop[d] \in Loop, loop[d].reply \in Answer,
         ApplyServerChanges(d), NEW r \in Row
  PROVE  /\ WrittenAt(d, r) => /\ outbox'[d][r] = NoRow
                               /\ \E c \in Written(d) : c.row = r /\ local'[d][r] = NewContent(c)
         /\ ~WrittenAt(d, r) => outbox'[d][r] = outbox[d][r] /\ local'[d][r] = local[d][r]
<1>1. /\ local'[d] = [s \in Row |-> IF \E c \in Written(d) : c.row = s
                        THEN NewContent(CHOOSE c \in Written(d) : c.row = s) ELSE local[d][s]]
      /\ outbox'[d] = [s \in Row |-> IF \E c \in Written(d) : c.row = s THEN NoRow ELSE outbox[d][s]]
  BY DEF ApplyServerChanges, TablesTyped
<1>2. /\ local'[d][r] = IF WrittenAt(d, r)
                        THEN NewContent(CHOOSE c \in Written(d) : c.row = r) ELSE local[d][r]
      /\ outbox'[d][r] = IF WrittenAt(d, r) THEN NoRow ELSE outbox[d][r]
  BY <1>1 DEF WrittenAt
<1>3. ASSUME WrittenAt(d, r)
      PROVE  LET c == CHOOSE c \in Written(d) : c.row = r IN c \in Written(d) /\ c.row = r
  BY <1>3, Zenon DEF WrittenAt
<1> QED BY <1>2, <1>3

LEMMA ApplyInv ==
  ASSUME EngineInv, NEW d \in Device, ApplyServerChanges(d)
  PROVE  EngineInv'
<1>0. FeedInv /\ TablesTyped /\ LoopTyped(d) /\ OwnWrites(d) /\ maxSeq \in Nat
  BY DEF EngineInv, FeedInv, FeedTypeOK
<1>1. /\ pc[d] = "replied" /\ ~loop[d].reply.resync
      /\ pc' = [pc EXCEPT ![d] = "applied"]
      /\ UNCHANGED <<feedVars, saved, updated, loop, orphans>>
      /\ \A e \in Device : e # d => local'[e] = local[e] /\ outbox'[e] = outbox[e]
      /\ DOMAIN local' = Device /\ DOMAIN outbox' = Device
      /\ DOMAIN local'[d] = Row /\ DOMAIN outbox'[d] = Row
      /\ local'[d] = [s \in Row |-> local'[d][s]] /\ outbox'[d] = [s \in Row |-> outbox'[d][s]]
      /\ local' = [e \in Device |-> local'[e]] /\ outbox' = [e \in Device |-> outbox'[e]]
  BY <1>0 DEF ApplyServerChanges, TablesTyped
<1>2. Bounded(loop[d]) /\ BringsOn(loop[d]) /\ loop[d] \in Loop /\ loop[d].reply \in Answer
  BY <1>0, <1>1 DEF LoopTyped, Bounded, BringsOn
<1>3. Grown
  BY <1>0, <1>1, StillGrown
<1>4. pc'[d] = "applied"
  BY <1>0, <1>1 DEF TablesTyped
<1>5. LoopTyped(d)'
  BY <1>0, <1>1, <1>4 DEF LoopTyped, Bounded, BringsOn, feedVars
<1>6. ASSUME NEW r \in Row
      PROVE  /\ outbox'[d][r] \in Change \cup {NoRow} /\ local'[d][r] \in Content \cup {NoRow}
             /\ outbox'[d][r] # NoRow => outbox'[d][r] = outbox[d][r] /\ local'[d][r] = local[d][r]
  <2>1. outbox[d][r] \in Change \cup {NoRow} /\ local[d][r] \in Content \cup {NoRow}
    BY <1>0 DEF TablesTyped
  <2>2. \A c \in Written(d) : NewContent(c) \in Content \cup {NoRow}
    BY <1>2, PendingIn DEF Written, NewContent
  <2> QED BY <1>0, <1>2, <2>1, <2>2, ApplyRows
<1>7. OwnWrites(d)'
  <2>1. \A r \in Staged(d)' : r \in Staged(d) /\ outbox'[d][r] = outbox[d][r] /\ local'[d][r] = local[d][r]
    BY <1>6 DEF Staged
  <2> QED BY <1>0, <1>1, <1>4, <2>1 DEF OwnWrites, Wrote, feedVars
<1>8. TablesTyped'
  <2>1. local'[d] \in [Row -> Content \cup {NoRow}] /\ outbox'[d] \in [Row -> Change \cup {NoRow}]
    BY <1>1, <1>6
  <2>2. ASSUME NEW e \in Device
        PROVE  local'[e] \in [Row -> Content \cup {NoRow}] /\ outbox'[e] \in [Row -> Change \cup {NoRow}]
    BY <1>0, <1>1, <2>1 DEF TablesTyped
  <2>3. local' \in [Device -> [Row -> Content \cup {NoRow}]] /\ outbox' \in [Device -> [Row -> Change \cup {NoRow}]]
    BY <1>1, <2>2
  <2> QED BY <1>0, <1>1, <2>3 DEF TablesTyped, Place
<1>9. \A e \in Device : e # d => Untouched(e)
  BY <1>0, <1>1 DEF TablesTyped, Untouched
<1> QED BY <1>1, <1>3, <1>5, <1>7, <1>8, <1>9, OneDeviceInv DEF MovedOn

LEMMA AckInv ==
  ASSUME EngineInv, NEW d \in Device, AckOutbox(d)
  PROVE  EngineInv'
<1>0. FeedInv /\ TablesTyped /\ LoopTyped(d) /\ OwnWrites(d) /\ maxSeq \in Nat
  BY DEF EngineInv, FeedInv, FeedTypeOK
<1>1. /\ pc[d] = "applied"
      /\ outbox' = [outbox EXCEPT ![d] = [r \in Row |-> IF Pushed(d, r) THEN NoRow ELSE outbox[d][r]]]
      /\ pc' = [pc EXCEPT ![d] = "acked"]
      /\ UNCHANGED <<feedVars, local, saved, updated, loop, orphans>>
  BY <1>0 DEF AckOutbox, TablesTyped
<1>2. Grown
  BY <1>0, <1>1, StillGrown
<1>3. pc'[d] = "acked" /\ \A r \in Row : outbox'[d][r] = IF Pushed(d, r) THEN NoRow ELSE outbox[d][r]
  BY <1>0, <1>1 DEF TablesTyped
<1>4. LoopTyped(d)'
  BY <1>0, <1>1, <1>3 DEF LoopTyped, Bounded, BringsOn, feedVars
<1>5. OwnWrites(d)'
  <2>1. \A r \in Staged(d)' : r \in Staged(d) /\ outbox'[d][r] = outbox[d][r]
    BY <1>3 DEF Staged
  <2> QED BY <1>0, <1>1, <1>3, <2>1 DEF OwnWrites, Wrote, feedVars
<1>6. TablesTyped'
  BY <1>0, <1>1 DEF TablesTyped, Place
<1>7. \A e \in Device : e # d => Untouched(e)
  BY <1>0, <1>1 DEF TablesTyped, Untouched
<1> QED BY <1>1, <1>2, <1>4, <1>5, <1>6, <1>7, OneDeviceInv DEF MovedOn

\* What a loop could not apply: nothing (0), or the first of it in feed order.
LEMMA BlockedFacts ==
  ASSUME NEW d \in Device, NEW l, l \in Loop, l.reply \in Answer
  PROVE  /\ Blocked(d, l) \in Nat
         /\ Blocked(d, l) = 0 <=> \A c \in Pending(l) : Knows(d, c.row)
         /\ Blocked(d, l) # 0 => \E c \in Pending(l) : ~Knows(d, c.row) /\ c.change.seq = Blocked(d, l)
         /\ \A c \in Pending(l) : ~Knows(d, c.row) => Blocked(d, l) <= c.change.seq
<1> DEFINE B == {c.change.seq : c \in {e \in Pending(l) : ~Knows(d, e.row)}}
<1>1. B \subseteq Nat \ {0}
  BY PendingIn
<1>2. Blocked(d, l) = IF B = {} THEN 0 ELSE CHOOSE b \in B : \A n \in B : b <= n
  BY DEF Blocked
<1>3. CASE B = {}
  <2>1. \A c \in Pending(l) : Knows(d, c.row)
    <3> SUFFICES ASSUME NEW c \in Pending(l), ~Knows(d, c.row) PROVE FALSE
      OBVIOUS
    <3>1. c.change.seq \in B
      OBVIOUS
    <3> QED BY <1>3, <3>1
  <2>2. Blocked(d, l) = 0
    BY <1>2, <1>3
  <2> HIDE DEF B
  <2> QED BY <2>1, <2>2
<1>4. CASE B # {}
  <2>1. \E b \in B : \A n \in B : b <= n
    <3> HIDE DEF B
    <3> QED BY <1>1, <1>4, LeastExists
  <2>2. Blocked(d, l) \in B /\ \A n \in B : Blocked(d, l) <= n
    BY <1>2, <1>4, <2>1
  <2> QED BY <1>1, <2>2
<1> QED BY <1>3, <1>4

LEMMA NewSavedFacts ==
  ASSUME NEW d \in Device, loop[d] \in Loop, loop[d].reply \in Answer,
         loop[d].cursor <= loop[d].fetchFrom, loop[d].fetchFrom <= loop[d].reply.cursor
  PROVE  /\ NewSaved(d) \in [cursor : Nat, reseeding : BOOLEAN]
         /\ loop[d].cursor <= NewSaved(d).cursor /\ NewSaved(d).cursor <= loop[d].reply.cursor
         /\ Blocked(d, loop[d]) = 0 => NewSaved(d).cursor = loop[d].reply.cursor
         /\ Blocked(d, loop[d]) # 0 => \/ NewSaved(d).cursor = loop[d].cursor
                                       \/ NewSaved(d).cursor < Blocked(d, loop[d])
<1> DEFINE b == Blocked(d, loop[d])
           m == loop[d].reply.cursor
           n == loop[d].cursor
           ceiling == IF b # 0 /\ b - 1 < m THEN b - 1 ELSE m
<1>1. b \in Nat
  BY BlockedFacts
<1>2. m \in Nat /\ n \in Nat /\ n <= m /\ loop[d].reply.hasMore \in BOOLEAN /\ loop[d].reseeding \in BOOLEAN
  BY LoopFields DEF Answer
<1>3. NewSaved(d) = [cursor |-> IF ceiling < n THEN n ELSE ceiling,
                     reseeding |-> loop[d].reseeding /\ loop[d].reply.hasMore]
  BY DEF NewSaved
<1> HIDE DEF b, m, n
<1>4. /\ ceiling \in Nat /\ ceiling <= m /\ (b = 0 => ceiling = m)
      /\ b # 0 => ceiling < b
  BY <1>1, <1>2
<1> HIDE DEF ceiling
<1>5. NewSaved(d).cursor = IF ceiling < n THEN n ELSE ceiling
  BY <1>3
<1>6. /\ NewSaved(d).cursor \in Nat /\ n <= NewSaved(d).cursor /\ NewSaved(d).cursor <= m
      /\ b = 0 => NewSaved(d).cursor = m
      /\ b # 0 => NewSaved(d).cursor = n \/ NewSaved(d).cursor < b
  BY <1>1, <1>2, <1>4, <1>5
<1>7. NewSaved(d) \in [cursor : Nat, reseeding : BOOLEAN]
  BY <1>2, <1>3, <1>6
<1> QED BY <1>6, <1>7 DEF b, m, n

LEMMA SaveStateInv ==
  ASSUME EngineInv, NEW d \in Device, SaveState(d)
  PROVE  EngineInv'
<1>0. FeedInv /\ TablesTyped /\ LoopTyped(d) /\ maxSeq \in Nat
  BY DEF EngineInv, FeedInv, FeedTypeOK
<1>1. /\ pc[d] = "acked"
      /\ saved' = [saved EXCEPT ![d] = NewSaved(d)]
      /\ UNCHANGED <<feedVars, local, outbox, updated, orphans>>
  BY DEF SaveState
<1>2. Bounded(loop[d]) /\ BringsOn(loop[d]) /\ ~loop[d].reply.resync
  BY <1>0, <1>1 DEF LoopTyped
<1>3. /\ NewSaved(d) \in [cursor : Nat, reseeding : BOOLEAN]
      /\ NewSaved(d).cursor \in Nat /\ NewSaved(d).reseeding \in BOOLEAN /\ NewSaved(d).cursor <= maxSeq
  <2>1. /\ NewSaved(d) \in [cursor : Nat, reseeding : BOOLEAN]
        /\ NewSaved(d).cursor <= loop[d].reply.cursor
    BY <1>2, NewSavedFacts DEF Bounded, BringsOn
  <2>2. loop[d].reply.cursor \in Nat /\ loop[d].reply.cursor <= maxSeq
    BY <1>2 DEF BringsOn, Answer
  <2> QED BY <1>0, <2>1, <2>2
<1>4. /\ saved' \in [Device -> [cursor : Nat, reseeding : BOOLEAN]] /\ saved'[d].cursor <= maxSeq
      /\ \A e \in Device : e # d => saved'[e] = saved[e]
  BY <1>0, <1>1, <1>3 DEF TablesTyped
<1>5. CASE pc' = [pc EXCEPT ![d] = "idle"] /\ loop' = [loop EXCEPT ![d] = Idle]
  BY <1>1, <1>4, <1>5, EndMovesOn, OneDeviceInv
<1>6. CASE /\ pc' = [pc EXCEPT ![d] = "sent"]
           /\ loop' = [loop EXCEPT ![d] = Pass(d, NewSaved(d).cursor, NewSaved(d).cursor,
                                               NewSaved(d).reseeding, {})]
  <2>1. pc'[d] = "sent" /\ loop'[d] = Pass(d, NewSaved(d).cursor, NewSaved(d).cursor, NewSaved(d).reseeding, {})
    BY <1>0, <1>6 DEF TablesTyped
  <2>2. NewSaved(d).cursor <= NewSaved(d).cursor /\ {} \in SUBSET News
    BY <1>3
  <2>3. MovedOn(d) /\ loop'[d] \in Loop
    BY <1>1, <1>3, <1>4, <2>1, <2>2, PassMovesOn
  <2>4. TablesTyped'
    BY <1>0, <1>1, <1>4, <1>6, <2>1, <2>3 DEF TablesTyped, Place
  <2>5. \A e \in Device : e # d => Untouched(e)
    BY <1>0, <1>1, <1>4, <1>6 DEF TablesTyped, Untouched
  <2> QED BY <1>1, <2>3, <2>4, <2>5, OneDeviceInv
<1> QED BY <1>5, <1>6 DEF SaveState

LEMMA UpdateInv ==
  ASSUME EngineInv, NEW d \in Device, Update(d)
  PROVE  EngineInv'
<1>0. FeedInv /\ TablesTyped /\ LoopTyped(d) /\ OwnWrites(d) /\ maxSeq \in Nat
  BY DEF EngineInv, FeedInv, FeedTypeOK
<1>1. /\ pc[d] = "idle" /\ updated' = [updated EXCEPT ![d] = TRUE]
      /\ saved' = IF Repairs /\ 0 < saved[d].cursor
                  THEN [saved EXCEPT ![d] = [cursor |-> 0, reseeding |-> TRUE]] ELSE saved
      /\ UNCHANGED <<feedVars, local, outbox, pc, loop, orphans>>
  BY DEF Update
<1>2. Grown
  BY <1>0, <1>1, StillGrown
<1>3. LoopTyped(d)'
  BY <1>0, <1>1 DEF LoopTyped, TablesTyped, feedVars
<1>4. OwnWrites(d)'
  BY <1>0, <1>1 DEF OwnWrites, Wrote, Staged, feedVars
<1>5. TablesTyped'
  BY <1>0, <1>1 DEF TablesTyped
<1>6. \A e \in Device : e # d => Untouched(e)
  BY <1>0, <1>1 DEF TablesTyped, Untouched
<1> QED BY <1>1, <1>2, <1>3, <1>4, <1>5, <1>6, OneDeviceInv DEF MovedOn

\* The moment of an edit, the row it writes and the entry it stages.
SoonestMoment == LET soon == {t \in Busy : now < t} IN CHOOSE t \in soon : \A u \in soon : t <= u
EditRow(d, at) == [id |-> at, stamp |-> at + Skew[d]]
EditEntry(d, at, deleted) == [ts |-> at + Skew[d], deleted |-> deleted, row |-> EditRow(d, at)]

LEMMA EditSteps ==
  ASSUME EngineInv, NEW d \in Device, NEW r \in Row, NEW deleted \in BOOLEAN, Edit(d, r, deleted)
  PROVE  \E at \in Busy :
           /\ at \in Nat /\ Elapse(at) /\ Knows(d, r) /\ (deleted => local[d][r] # NoRow)
           /\ local' = [local EXCEPT ![d][r] = IF deleted THEN NoRow ELSE EditRow(d, at)]
           /\ outbox' = [outbox EXCEPT ![d][r] = EditEntry(d, at, deleted)]
           /\ UNCHANGED <<saved, updated, pc, loop, orphans>>
           /\ EditRow(d, at) \in Content /\ EditEntry(d, at, deleted) \in Change
           /\ EditEntry(d, at, deleted).ts = at + Skew[d]
           /\ EditEntry(d, at, deleted).deleted = deleted
           /\ EditEntry(d, at, deleted).row = EditRow(d, at) /\ EditRow(d, at).stamp = at + Skew[d]
<1> DEFINE soon == {t \in Busy : now < t}
<1>1. soon # {} /\ Knows(d, r) /\ (deleted => local[d][r] # NoRow)
  BY DEF Edit
<1>2. soon \subseteq Nat
  BY EngineAssumption
<1>3. \E t \in soon : \A u \in soon : t <= u
  <2> HIDE DEF soon
  <2> QED BY <1>1, <1>2, LeastExists
<1>4. SoonestMoment \in soon
  BY <1>3 DEF SoonestMoment
<1>5. /\ Elapse(SoonestMoment)
      /\ local' = [local EXCEPT ![d][r] = IF deleted THEN NoRow ELSE EditRow(d, SoonestMoment)]
      /\ outbox' = [outbox EXCEPT ![d][r] = EditEntry(d, SoonestMoment, deleted)]
      /\ UNCHANGED <<saved, updated, pc, loop, orphans>>
  BY DEF Edit, SoonestMoment, EditRow, EditEntry
<1> HIDE DEF soon
<1>6. PICK at : at = SoonestMoment
  OBVIOUS
<1>7. at \in Busy /\ at \in Nat
  BY <1>2, <1>4, <1>6 DEF soon
<1>8. EditRow(d, at) \in Content /\ at + Skew[d] \in Stamp
  BY <1>7, EditAssumption DEF EditRow
<1>9. EditEntry(d, at, deleted) \in Change
  BY <1>8 DEF EditEntry, Change
<1> QED BY <1>1, <1>5, <1>6, <1>7, <1>8, <1>9 DEF EditEntry, EditRow

LEMMA EditInv ==
  ASSUME EngineInv, NEW d \in Device, NEW r \in Row, NEW deleted \in BOOLEAN, Edit(d, r, deleted)
  PROVE  EngineInv'
<1>0. FeedInv /\ TablesTyped /\ LoopTyped(d) /\ OwnWrites(d) /\ maxSeq \in Nat
  BY DEF EngineInv, FeedInv, FeedTypeOK
<1>1. PICK at \in Busy :
        /\ at \in Nat /\ Elapse(at)
        /\ local' = [local EXCEPT ![d][r] = IF deleted THEN NoRow ELSE EditRow(d, at)]
        /\ outbox' = [outbox EXCEPT ![d][r] = EditEntry(d, at, deleted)]
        /\ UNCHANGED <<saved, updated, pc, loop, orphans>>
        /\ EditRow(d, at) \in Content /\ EditEntry(d, at, deleted) \in Change
        /\ EditEntry(d, at, deleted).ts = at + Skew[d]
        /\ EditEntry(d, at, deleted).deleted = deleted
        /\ EditEntry(d, at, deleted).row = EditRow(d, at)
  BY EditSteps
<1>2. Grown /\ now' = at /\ maxSeq' = maxSeq
  <2>1. FeedInv' /\ maxSeq' = maxSeq /\ now <= now' /\ now' = at
    BY <1>0, <1>1, ElapseInv DEF Elapse
  <2> QED BY <1>0, <2>1 DEF Grown
<1>3. LoopTyped(d)'
  BY <1>0, <1>1, <1>2, LoopLater
<1>4. /\ outbox'[d][r] = EditEntry(d, at, deleted)
      /\ local'[d][r] = IF deleted THEN NoRow ELSE EditRow(d, at)
      /\ \A s \in Row : s # r => outbox'[d][s] = outbox[d][s] /\ local'[d][s] = local[d][s]
  BY <1>0, <1>1 DEF TablesTyped
<1>5. Wrote(d, outbox[d][r])' /\ local'[d][r] = Content0(outbox'[d][r])
  <2>1. Skew[d] \in Nat
    BY EngineAssumption
  <2>2. /\ Skew[d] <= at + Skew[d] /\ at + Skew[d] <= now' + Skew[d] /\ (at + Skew[d]) - Skew[d] = at
    BY <1>1, <1>2, <2>1
  <2>3. /\ outbox'[d][r].ts = at + Skew[d] /\ outbox'[d][r].deleted = deleted
        /\ outbox'[d][r].row = [id |-> at, stamp |-> at + Skew[d]]
    BY <1>1, <1>4 DEF EditRow
  <2>4. Wrote(d, outbox[d][r])'
    <3>1. outbox'[d][r].ts - Skew[d] = at
      BY <2>2, <2>3, Zenon
    <3>2. outbox'[d][r].row = [id |-> outbox'[d][r].ts - Skew[d], stamp |-> outbox'[d][r].ts]
      BY <2>3, <3>1, Zenon
    <3>3. Skew[d] <= outbox'[d][r].ts /\ outbox'[d][r].ts <= now' + Skew[d]
      BY <2>2, <2>3, Zenon
    <3> QED BY <3>2, <3>3, Zenon DEF Wrote
  <2>5. local'[d][r] = Content0(outbox'[d][r])
    BY <1>4, <2>3 DEF Content0, EditRow
  <2> QED BY <2>4, <2>5
<1>6. OwnWrites(d)'
  <2>1. ASSUME NEW s \in Staged(d)', s # r
        PROVE  Wrote(d, outbox[d][s])' /\ local'[d][s] = Content0(outbox'[d][s])
    <3>1. s \in Row /\ outbox'[d][s] = outbox[d][s] /\ local'[d][s] = local[d][s]
      BY <1>4, <2>1 DEF Staged
    <3>2. s \in Staged(d)
      BY <2>1, <3>1 DEF Staged
    <3> QED BY <1>0, <1>2, <3>1, <3>2, StagedIn, WroteLater DEF OwnWrites
  <2>2. ASSUME pc'[d] # "idle", NEW s \in DOMAIN loop'[d].batch PROVE Wrote(d, loop[d].batch[s])'
    <3>1. pc[d] # "idle" /\ Bounded(loop[d]) /\ s \in DOMAIN loop[d].batch /\ loop'[d] = loop[d]
      BY <1>0, <1>1, <2>2 DEF LoopTyped
    <3>2. loop[d].batch[s] \in Change /\ Wrote(d, loop[d].batch[s])
      BY <1>0, <3>1, BatchIn DEF OwnWrites
    <3> QED BY <1>2, <3>1, <3>2, WroteLater
  <2> QED BY <1>5, <2>1, <2>2 DEF OwnWrites
<1>7. TablesTyped'
  <2>1. EditRow(d, at) \in Content \cup {NoRow} /\ NoRow \in Content \cup {NoRow}
    BY <1>1
  <2>2. local' \in [Device -> [Row -> Content \cup {NoRow}]]
    BY <1>0, <1>1, <2>1 DEF TablesTyped
  <2>3. outbox' \in [Device -> [Row -> Change \cup {NoRow}]]
    BY <1>0, <1>1 DEF TablesTyped
  <2> QED BY <1>0, <1>1, <2>2, <2>3 DEF TablesTyped
<1>8. \A e \in Device : e # d => Untouched(e)
  BY <1>0, <1>1 DEF TablesTyped, Untouched
<1> QED BY <1>1, <1>2, <1>3, <1>6, <1>7, <1>8, OneDeviceInv DEF MovedOn

\* Time passes, or the server's maintenance runs: no device takes part.
LEMMA NobodyInv ==
  ASSUME EngineInv, Grown, UNCHANGED clientVars
  PROVE  EngineInv'
<1>1. \A e \in Device : LoopTyped(e)' /\ OwnWrites(e)'
  BY LoopLater, WritesLater DEF EngineInv, Untouched, clientVars
<1>2. OrphansTyped' /\ OrphanWrites' /\ TablesTyped'
  BY OrphansLater DEF clientVars, EngineInv, TablesTyped
<1> QED BY <1>1, <1>2 DEF EngineInv, Grown

LEMMA LeaveInv ==
  ASSUME EngineInv, Leave
  PROVE  EngineInv'
<1>1. now \in Nat /\ Gap \in Nat /\ FeedInv /\ maxSeq \in Nat
  BY EngineAssumption DEF EngineInv, FeedInv, FeedTypeOK
<1>2. Elapse(now + Gap) /\ UNCHANGED clientVars
  BY DEF Leave
<1>3. PICK t \in Nat : t = now + Gap
  BY <1>1
<1>4. FeedInv' /\ maxSeq' = maxSeq /\ now <= now'
  BY <1>1, <1>2, <1>3, ElapseInv
<1>5. Grown
  BY <1>1, <1>4 DEF Grown
<1> QED BY <1>2, <1>5, NobodyInv

LEMMA MaintenanceInv ==
  ASSUME EngineInv, Prune
  PROVE  EngineInv'
<1>1. FeedInv /\ maxSeq \in Nat /\ now \in Nat
  BY DEF EngineInv, FeedInv, FeedTypeOK
<1>2. PruneTombstones /\ UNCHANGED clientVars /\ maxSeq' = maxSeq /\ now' = now
  BY DEF Prune, PruneTombstones
<1>3. Grown
  BY <1>1, <1>2, PruneInv DEF Grown
<1> QED BY <1>2, <1>3, NobodyInv

LEMMA EngineInit == Init => EngineInv
<1> SUFFICES ASSUME Init PROVE EngineInv
  OBVIOUS
<1>1. FeedInv
  BY FeedInvInit DEF Init
<1>2. /\ local = [d \in Device |-> NoRows] /\ outbox = [d \in Device |-> NoRows]
      /\ saved = [d \in Device |-> [cursor |-> 0, reseeding |-> FALSE]]
      /\ updated = [d \in Device |-> d \in Modern]
      /\ pc = [d \in Device |-> "idle"] /\ loop = [d \in Device |-> Idle] /\ orphans = {} /\ maxSeq = 0
  BY DEF Init, FeedInit
<1>3. TablesTyped
  BY <1>2 DEF TablesTyped, NoRows, Place
<1>4. OrphansTyped /\ OrphanWrites
  <2>1. IsFiniteSet(orphans) /\ Cardinality(orphans) = 0
    BY <1>2, FS_EmptySet
  <2> QED BY <1>2, <2>1, EngineAssumption DEF OrphansTyped, OrphanWrites
<1>5. ASSUME NEW d \in Device PROVE LoopTyped(d) /\ OwnWrites(d)
  <2>1. Staged(d) = {}
    BY <1>2 DEF Staged, NoRows
  <2> QED BY <1>2, <2>1 DEF LoopTyped, OwnWrites
<1> QED BY <1>1, <1>3, <1>4, <1>5 DEF EngineInv

LEMMA EngineNext == EngineInv /\ [Next]_vars => EngineInv'
<1> SUFFICES ASSUME EngineInv, [Next]_vars PROVE EngineInv'
  OBVIOUS
<1>1. ASSUME NEW d \in Device, DeviceStep(d) PROVE EngineInv'
  BY <1>1, StartSyncInv, WipeInv, SaveResetInv, BufferPageInv, ApplyInv, AckInv, SaveStateInv DEF DeviceStep
<1>2. ASSUME NEW d \in Device, ServerStep(d) PROVE EngineInv'
  BY <1>2, ServeInv, RefuseInv DEF ServerStep
<1>3. ASSUME NEW d \in Device, Abandon(d) \/ Update(d) PROVE EngineInv'
  BY <1>3, AbandonInv, UpdateInv
<1>4. ASSUME NEW d \in Device, NEW r \in Row, NEW deleted \in BOOLEAN, Edit(d, r, deleted) PROVE EngineInv'
  BY <1>4, EditInv
<1>5. ASSUME NEW o \in orphans, ServeOrphan(o) PROVE EngineInv'
  BY <1>5, ServeOrphanInv
<1>6. CASE Prune
  BY <1>6, MaintenanceInv
<1>7. CASE Leave
  BY <1>7, LeaveInv
<1>8. CASE UNCHANGED vars
  <2>1. UNCHANGED feedVars /\ UNCHANGED clientVars
    BY <1>8 DEF vars, feedVars, clientVars
  <2> QED BY <2>1, StillGrown, NobodyInv DEF EngineInv
<1> QED BY <1>1, <1>2, <1>3, <1>4, <1>5, <1>6, <1>7, <1>8 DEF Next

\* Devices and feed keep their types; wherever a loop waits it holds what it
\* needs there, no cursor runs past the feed, and what is staged is what the
\* tables say, stamped by the clock of its device.
THEOREM EngineInvariant == Spec => []EngineInv
BY EngineInit, EngineNext, PTL DEF Spec

\* The tables, outboxes, cursors and loops of the devices are well-typed, with
\* any losses, crashes, updates and repairs, and with or without pruning.
THEOREM EngineTypeCorrect == Spec => []TypeOK
<1>1. EngineInv => TypeOK
  <2> SUFFICES ASSUME EngineInv PROVE TypeOK
    OBVIOUS
  <2>1. FeedTypeOK /\ TablesTyped /\ OrphansTyped /\ maxSeq \in Nat
    BY DEF EngineInv, FeedInv, FeedTypeOK
  <2>2. Change \subseteq ClientChange
    BY ClockAssumption DEF Change, ClientChange
  <2>3. outbox \in [Device -> [Row -> ClientChange \cup {NoRow}]]
    BY <2>1, <2>2 DEF TablesTyped
  <2>4. saved \in [Device -> [cursor : 0..maxSeq, reseeding : BOOLEAN]]
    <3>1. ASSUME NEW d \in Device PROVE saved[d] \in [cursor : 0..maxSeq, reseeding : BOOLEAN]
      <4>1. saved[d] \in [cursor : Nat, reseeding : BOOLEAN] /\ saved[d].cursor <= maxSeq
        BY <2>1 DEF TablesTyped, EngineInv, LoopTyped
      <4>2. saved[d].cursor \in 0..maxSeq
        BY <2>1, <4>1
      <4> QED BY <4>1, <4>2
    <3> QED BY <2>1, <3>1 DEF TablesTyped
  <2>5. ASSUME NEW d \in Device
        PROVE  loop[d].cursor \in 0..maxSeq /\ loop[d].fetchFrom \in loop[d].cursor..maxSeq
    <3>1. CASE loop[d] = Idle
      BY <2>1, <3>1 DEF Idle
    <3>2. CASE Bounded(loop[d])
      <4>1. /\ loop[d].cursor \in Nat /\ loop[d].fetchFrom \in Nat
            /\ loop[d].cursor <= loop[d].fetchFrom /\ loop[d].fetchFrom <= maxSeq
        BY <3>2, LoopFields DEF Bounded
      <4> QED BY <2>1, <4>1
    <3> QED BY <3>1, <3>2 DEF EngineInv, LoopTyped
  <2> QED BY <2>1, <2>3, <2>4, <2>5 DEF TypeOK, TablesTyped, Place, OrphansTyped
<1> QED BY <1>1, EngineInvariant, PTL

-----------------------------------------------------------------------------
(***************************************************************************)
(* Nothing written is lost: every place that drops a staged write has the  *)
(* server's word that it had this write or a newer one.                    *)
(***************************************************************************)
\* The server's clock tolerance leaves the stamps of such devices alone.
LEMMA StampStands ==
  ASSUME Clocks, FeedInv, NEW d \in Device, NEW c \in Change, Wrote(d, c)
  PROVE  Clamped(c.ts) = c.ts /\ c.ts \in Nat
<1>1. /\ c.ts \in Nat /\ now \in Nat /\ Skew[d] \in Nat /\ ClampAhead \in Nat
      /\ Skew[d] <= ClampAhead /\ c.ts <= now + Skew[d]
  BY ClockAssumption, EngineAssumption DEF Change, FeedInv, FeedTypeOK, Clocks, Wrote
<1>2. c.ts <= now + ClampAhead
  BY <1>1
<1> QED BY <1>1, <1>2 DEF Clamped

\* What is in a loop is dated by numbers.
LEMMA LoopDates ==
  ASSUME NEW l, Bounded(l)
  PROVE  /\ \A c \in l.buffered : c.row \in Row /\ c.change.ts \in Nat
         /\ l.reply \in Answer => \A c \in l.reply.changes : c.row \in Row /\ c.change.ts \in Nat
         /\ \A r \in DOMAIN l.batch : r \in Row /\ l.batch[r].ts \in Nat
<1>1. l.buffered \subseteq News /\ (l.reply \in Answer => l.reply.changes \subseteq News)
  BY LoopFields DEF Bounded, Answer
<1>2. \A c \in News : c.row \in Row /\ c.change.ts \in Nat
  BY DEF News, Stored
<1>3. \A r \in DOMAIN l.batch : r \in Row /\ l.batch[r].ts \in Nat
  BY BatchIn, ClockAssumption DEF Change
<1> QED BY <1>1, <1>2, <1>3

Later == /\ had' \in [Row -> Nat] /\ \A r \in Row : had[r] <= had'[r]
         /\ \A r \in Kept' : syncRows'[r].ts <= had'[r]

LEMMA HadGrows ==
  ASSUME had \in [Row -> Nat], FeedInv', Remember
  PROVE  Later
<1>1. \A r \in Kept' : r \in Row /\ syncRows'[r].ts \in Nat
  BY DEF FeedInv, FeedTypeOK, Kept, Stored
<1>2. had' = [r \in Row |-> IF r \in Kept' /\ had[r] < syncRows'[r].ts THEN syncRows'[r].ts ELSE had[r]]
  BY DEF Remember
<1>3. \A r \in Row : /\ had'[r] \in Nat /\ had[r] <= had'[r]
                     /\ r \in Kept' => syncRows'[r].ts <= had'[r]
  <2> SUFFICES ASSUME NEW r \in Row
               PROVE  /\ had'[r] \in Nat /\ had[r] <= had'[r]
                      /\ r \in Kept' => syncRows'[r].ts <= had'[r]
    OBVIOUS
  <2>1. had'[r] = IF r \in Kept' /\ had[r] < syncRows'[r].ts THEN syncRows'[r].ts ELSE had[r]
    BY <1>2
  <2>2. had[r] \in Nat
    OBVIOUS
  <2> QED BY <1>1, <2>1, <2>2
<1>4. had' \in [Row -> Nat]
  BY <1>2, <1>3
<1> QED BY <1>1, <1>3, <1>4 DEF Later

\* A loop that goes on as it was.
LEMMA HadStays ==
  ASSUME had \in [Row -> Nat], Later, TablesTyped, NEW d \in Device, LoopTyped(d), HadOf(d),
         pc'[d] = pc[d], loop'[d] = loop[d]
  PROVE  HadOf(d)'
<1> SUFFICES ASSUME pc[d] # "idle" PROVE HadOf(d)'
  BY DEF HadOf
<1>1. Bounded(loop[d]) /\ (pc[d] \in {"replied", "wiped", "applied", "acked"} => loop[d].reply \in Answer)
  BY DEF LoopTyped, BringsOn
<1>2. ASSUME NEW r \in Row, NEW n \in Nat, n <= had[r] PROVE n <= had'[r]
  <2>1. had[r] \in Nat /\ had'[r] \in Nat /\ had[r] <= had'[r]
    BY DEF Later
  <2> QED BY <1>2, <2>1
<1>3. \A c \in loop[d].buffered : c.change.ts <= had'[c.row]
  BY <1>1, <1>2, LoopDates DEF HadOf
<1>4. \A r \in DOMAIN loop[d].batch : loop[d].batch[r].ts <= had[r] => loop[d].batch[r].ts <= had'[r]
  BY <1>1, <1>2, LoopDates
<1>5. \A c \in loop[d].reply.changes : c.row \in Row /\ c.change.ts \in Nat /\ c.change.ts <= had[c.row] => c.change.ts <= had'[c.row]
  BY <1>2
<1>6. ASSUME pc[d] # "sent", NEW c \in loop[d].reply.changes PROVE c.change.ts <= had'[c.row]
  <2>1. loop[d].reply \in Answer
    BY <1>1, <1>6 DEF TablesTyped, Place
  <2> QED BY <1>1, <1>5, <1>6, <2>1, LoopDates DEF HadOf
<1> QED BY <1>3, <1>4, <1>6 DEF HadOf

\* What a loop has to say to the server, at the head of a pass.
LEMMA HadAtHead ==
  ASSUME NEW d \in Device, pc'[d] = "sent", \A c \in loop'[d].buffered : c.change.ts <= had'[c.row]
  PROVE  HadOf(d)'
BY DEF HadOf

LEMMA HadServe ==
  ASSUME EngineInv, Clocks, HadInv, Later, NEW d \in Device, Serve(d)
  PROVE  HadOf(d)'
<1> DEFINE q == RequestOf(loop[d])
<1>0. FeedInv /\ TablesTyped /\ LoopTyped(d) /\ OwnWrites(d) /\ HadOf(d) /\ had \in [Row -> Nat]
  BY DEF EngineInv, HadInv
<1>1. /\ pc[d] = "sent" /\ SyncApply(d, q)
      /\ pc'[d] = "replied" /\ loop'[d] = [loop[d] EXCEPT !.reply = Reply(q)]
  BY <1>0 DEF Serve, TablesTyped
<1>2. Bounded(loop[d]) /\ q \in Request /\ q.changes = loop[d].batch
  BY <1>0, <1>1, RequestIn DEF LoopTyped, RequestOf
<1>3. /\ loop'[d].buffered = loop[d].buffered /\ loop'[d].reply = Reply(q)
      /\ loop'[d].batch = loop[d].batch
  <2>1. loop[d] \in Loop
    BY <1>2 DEF Bounded
  <2> QED BY <1>1, <2>1 DEF Loop
<1> HIDE DEF q
<1>4. ASSUME NEW r \in Row, NEW n \in Nat, n <= had[r] PROVE n <= had'[r]
  <2>1. had[r] \in Nat /\ had'[r] \in Nat /\ had[r] <= had'[r]
    BY <1>0 DEF Later
  <2> QED BY <1>4, <2>1
<1>5. \A c \in loop[d].buffered : c.change.ts <= had'[c.row]
  BY <1>0, <1>1, <1>2, <1>4, LoopDates DEF HadOf
<1>6. ASSUME NEW r \in Kept PROVE syncRows[r].ts <= had'[r] /\ syncRows[r].ts \in Nat /\ r \in Row
  <2>1. r \in Row /\ syncRows[r].ts \in Nat /\ syncRows[r].ts <= had[r]
    BY <1>0, KeptFacts DEF HadInv, FeedInv
  <2> QED BY <1>4, <2>1
<1>7. \A c \in Reply(q).changes : c.change.ts <= had'[c.row]
  <2>1. Reply(q).changes = {[row |-> r, change |-> syncRows[r]] : r \in Window(q) \cup Beaten(q)}
    BY <1>0, <1>2, ReplyFacts DEF Outgoing
  <2>2. Window(q) \cup Beaten(q) \subseteq Kept
    BY DEF Window, Page, Past, Beaten, Accepted, Loses
  <2> QED BY <1>6, <2>1, <2>2
<1>8. ASSUME ~Reply(q).hasMore, NEW r \in DOMAIN loop[d].batch PROVE loop[d].batch[r].ts <= had'[r]
  <2>1. ~HasMore(q)
    BY <1>0, <1>2, <1>8, ReplyFacts
  <2>2. /\ r \in Row /\ q.changes[r] = loop[d].batch[r]
        /\ Clamped(q.changes[r].ts) = q.changes[r].ts /\ q.changes[r].ts \in Nat
    <3>1. PICK c : c = loop[d].batch[r]
      OBVIOUS
    <3>2. r \in Row /\ c \in Change /\ Wrote(d, c)
      BY <1>0, <1>1, <1>2, <1>8, <3>1, BatchIn DEF OwnWrites
    <3> QED BY <1>0, <1>2, <3>1, <3>2, StampStands
  <2>3. CASE r \in Accepted(q)
    <3>1. r \in Kept' /\ syncRows'[r] = Store(q, r) /\ Store(q, r).ts = Clamped(q.changes[r].ts)
      BY <1>0, <1>1, <1>2, <2>3, SyncApplyRows, StoreFacts DEF FeedInv
    <3> QED BY <2>2, <3>1 DEF Later
  <2>4. CASE r \notin Accepted(q)
    <3>1. r \in Kept /\ q.changes[r].ts <= syncRows[r].ts
      BY <1>2, <1>8, <2>1, <2>2, <2>4 DEF Accepted, Loses
    <3>2. syncRows[r].ts <= had[r] /\ syncRows[r].ts \in Nat /\ had[r] \in Nat
      BY <1>0, <2>2, <3>1, KeptFacts DEF HadInv, FeedInv
    <3>3. q.changes[r].ts <= had[r]
      BY <2>2, <3>1, <3>2
    <3> QED BY <1>4, <2>2, <3>3
  <2> QED BY <2>3, <2>4
<1> QED BY <1>1, <1>3, <1>5, <1>7, <1>8 DEF HadOf

LEMMA HadBuffer ==
  ASSUME EngineInv, HadInv, Later, NEW d \in Device, BufferPage(d)
  PROVE  HadOf(d)'
<1>0. TablesTyped /\ LoopTyped(d) /\ HadOf(d) /\ had \in [Row -> Nat]
  BY DEF EngineInv, HadInv
<1>1. /\ pc[d] = "replied" /\ pc'[d] = "sent"
      /\ loop'[d] = Pass(d, loop[d].cursor, loop[d].reply.cursor, TRUE, Pending(loop[d]))
  BY <1>0 DEF BufferPage, TablesTyped
<1>2. loop[d] \in Loop /\ loop[d].reply \in Answer
  BY <1>0, <1>1 DEF LoopTyped, Bounded, BringsOn
<1>3. loop'[d].buffered = Pending(loop[d])
  BY <1>1 DEF Pass
<1>4. ASSUME NEW c \in Pending(loop[d]) PROVE c.change.ts <= had'[c.row]
  <2>1. c.change.ts <= had[c.row]
    BY <1>0, <1>1, <1>4 DEF HadOf, Pending
  <2>2. c.row \in Row /\ c.change.ts \in Nat
    BY <1>2, PendingIn
  <2>3. had[c.row] \in Nat /\ had'[c.row] \in Nat /\ had[c.row] <= had'[c.row]
    BY <1>0, <2>2 DEF Later
  <2> QED BY <2>1, <2>2, <2>3
<1> QED BY <1>1, <1>3, <1>4, HadAtHead

\* Between an answer and the next pass a loop only moves on.
LEMMA HadMoves ==
  ASSUME EngineInv, HadInv, Later, NEW d \in Device, loop'[d] = loop[d],
         \/ pc[d] = "replied" /\ pc'[d] \in {"wiped", "applied"}
         \/ pc[d] = "applied" /\ pc'[d] = "acked"
  PROVE  HadOf(d)'
<1>0. LoopTyped(d) /\ HadOf(d) /\ had \in [Row -> Nat]
  BY DEF EngineInv, HadInv
<1>1. Bounded(loop[d]) /\ loop[d].reply \in Answer
  BY <1>0 DEF LoopTyped, BringsOn
<1>2. ASSUME NEW r \in Row, NEW n \in Nat, n <= had[r] PROVE n <= had'[r]
  <2>1. had[r] \in Nat /\ had'[r] \in Nat /\ had[r] <= had'[r]
    BY <1>0 DEF Later
  <2> QED BY <1>2, <2>1
<1>3. /\ \A c \in loop[d].buffered : c.change.ts <= had[c.row]
      /\ \A c \in loop[d].reply.changes : c.change.ts <= had[c.row]
      /\ ~loop[d].reply.hasMore => \A r \in DOMAIN loop[d].batch : loop[d].batch[r].ts <= had[r]
  BY <1>0 DEF HadOf
<1>4. /\ \A c \in loop[d].buffered : c.change.ts <= had'[c.row]
      /\ \A c \in loop[d].reply.changes : c.change.ts <= had'[c.row]
      /\ ~loop[d].reply.hasMore => \A r \in DOMAIN loop[d].batch : loop[d].batch[r].ts <= had'[r]
  BY <1>1, <1>2, <1>3, LoopDates
<1> QED BY <1>4 DEF HadOf

LEMMA HadInit == InitWithHistory => HadInv
<1> SUFFICES ASSUME InitWithHistory PROVE HadInv
  OBVIOUS
<1>1. had = [r \in Row |-> 0] /\ pc = [d \in Device |-> "idle"] /\ syncRows = [r \in Row |-> NoRow]
  BY DEF InitWithHistory, Init, FeedInit
<1> QED BY <1>1 DEF HadInv, HadOf, Kept

\* A device no step is about: its loop is as it was, or nothing is left of it.
LEMMA HadNext == EngineInv /\ Clocks /\ HadInv /\ [NextWithHistory]_<<vars, had>> => HadInv'
<1> SUFFICES ASSUME EngineInv, Clocks, HadInv, [NextWithHistory]_<<vars, had>> PROVE HadInv'
  OBVIOUS
<1>0. TablesTyped /\ had \in [Row -> Nat] /\ \A e \in Device : LoopTyped(e) /\ HadOf(e)
  BY DEF EngineInv, HadInv
<1>1. CASE UNCHANGED <<vars, had>>
  BY <1>1 DEF HadInv, HadOf, Kept, vars
<1>2. CASE NextWithHistory
  <2>1. Next /\ Remember
    BY <1>2 DEF NextWithHistory
  <2>2. FeedInv'
    BY <2>1, EngineNext DEF EngineInv
  <2>3. Later
    BY <1>0, <2>1, <2>2, HadGrows
  <2>4. SUFFICES \A e \in Device : HadOf(e)'
    BY <2>3 DEF Later, HadInv
  <2>5. ASSUME NEW d \in Device, NEW e \in Device, d # e,
               DeviceStep(d) \/ ServerStep(d) \/ Abandon(d) \/ Update(d)
        PROVE  HadOf(e)'
    <3>1. pc'[e] = pc[e] /\ loop'[e] = loop[e]
      BY <1>0, <2>5 DEF TablesTyped, DeviceStep, ServerStep, StartSync, WipeForResync, SaveReset,
           BufferPage, ApplyServerChanges, AckOutbox, SaveState, Serve, Refuse, Abandon, Update
    <3> QED BY <1>0, <2>3, <3>1, HadStays
  <2>6. ASSUME NEW d \in Device, DeviceStep(d) \/ ServerStep(d) \/ Abandon(d) \/ Update(d) PROVE HadOf(d)'
    <3>1. CASE StartSync(d) \/ SaveReset(d)
      <4>1. pc'[d] = "sent" /\ loop'[d].buffered = {}
        BY <1>0, <3>1 DEF StartSync, SaveReset, Pass, TablesTyped
      <4> QED BY <4>1, HadAtHead
    <3>2. CASE SaveState(d)
      <4>1. pc'[d] = "idle" \/ (pc'[d] = "sent" /\ loop'[d].buffered = {})
        BY <1>0, <3>2 DEF SaveState, Pass, TablesTyped
      <4> QED BY <4>1, HadAtHead DEF HadOf
    <3>3. CASE Refuse(d) \/ Abandon(d)
      <4>1. pc'[d] = "idle"
        BY <1>0, <3>3 DEF Refuse, Abandon, TablesTyped
      <4> QED BY <4>1 DEF HadOf
    <3>4. CASE WipeForResync(d) \/ ApplyServerChanges(d) \/ AckOutbox(d)
      <4>1. loop'[d] = loop[d] /\ \/ pc[d] = "replied" /\ pc'[d] \in {"wiped", "applied"}
                                  \/ pc[d] = "applied" /\ pc'[d] = "acked"
        BY <1>0, <3>4 DEF WipeForResync, ApplyServerChanges, AckOutbox, TablesTyped
      <4> QED BY <2>3, <4>1, HadMoves
    <3>5. CASE Serve(d)
      BY <2>3, <3>5, HadServe
    <3>6. CASE BufferPage(d)
      BY <2>3, <3>6, HadBuffer
    <3>7. CASE Update(d)
      <4>1. pc'[d] = pc[d] /\ loop'[d] = loop[d]
        BY <3>7 DEF Update
      <4> QED BY <1>0, <2>3, <4>1, HadStays
    <3> QED BY <2>6, <3>1, <3>2, <3>3, <3>4, <3>5, <3>6, <3>7 DEF DeviceStep, ServerStep
  <2>7. ASSUME pc' = pc, loop' = loop, NEW e \in Device PROVE HadOf(e)'
    BY <1>0, <2>3, <2>7, HadStays
  <2>8. ASSUME \/ \E d \in Device, r \in Row, deleted \in BOOLEAN : Edit(d, r, deleted)
               \/ \E o \in orphans : ServeOrphan(o)
               \/ Prune \/ Leave
        PROVE  pc' = pc /\ loop' = loop
    BY <2>8 DEF Edit, ServeOrphan, Prune, Leave, clientVars
  <2> QED BY <2>1, <2>5, <2>6, <2>7, <2>8 DEF Next
<1> QED BY <1>1, <1>2

\* Where no device's clock is further ahead than the server puts up with, no
\* edit is dropped between the table and the account: a staged write leaves
\* the outbox for a later one, in a reseed's wipe, or when the server has, or
\* had, it or a newer one; with losses, crashes, updates, repairs and pruning.
THEOREM EngineDropsNothing == ASSUME Clocks PROVE SpecWithHistory => NoEditDropped
<1> DEFINE Kind(d, r) == outbox[d][r] # NoRow /\ outbox'[d][r] = NoRow =>
                           WipeForResync(d) \/ outbox[d][r].ts <= had[r]
<1>1. InitWithHistory => EngineInv /\ HadInv
  BY EngineInit, HadInit DEF InitWithHistory
<1>2. EngineInv /\ HadInv /\ [NextWithHistory]_<<vars, had>> => EngineInv' /\ HadInv'
  <2>1. [NextWithHistory]_<<vars, had>> => [Next]_vars
    BY DEF NextWithHistory, vars
  <2> QED BY <2>1, EngineNext, HadNext
<1>3. EngineInv /\ HadInv /\ [NextWithHistory]_<<vars, had>> =>
        [\A d \in Device, r \in Row : Kind(d, r)]_<<vars, had>>
  <2> SUFFICES ASSUME EngineInv, HadInv, Next, NEW d \in Device, NEW r \in Row,
                      outbox[d][r] # NoRow, outbox'[d][r] = NoRow, ~WipeForResync(d)
               PROVE  outbox[d][r].ts <= had[r]
    BY DEF NextWithHistory
  <2>0. TablesTyped /\ LoopTyped(d) /\ HadOf(d) /\ had \in [Row -> Nat]
    BY DEF EngineInv, HadInv
  <2>1. outbox[d][r].ts \in Nat /\ had[r] \in Nat
    <3>1. r \in Staged(d) /\ outbox[d][r] \in Change
      BY <2>0, StagedIn DEF Staged
    <3> QED BY <2>0, <3>1, ClockAssumption DEF Change
  <2>2. CASE ApplyServerChanges(d)
    <3>1. /\ pc[d] = "replied" /\ loop[d] \in Loop /\ loop[d].reply \in Answer
      BY <2>0, <2>2 DEF ApplyServerChanges, LoopTyped, Bounded, BringsOn
    <3>2. PICK c \in Written(d) : c.row = r
      BY <2>0, <2>2, <3>1, ApplyRows DEF WrittenAt
    <3>3. c \in Pending(loop[d]) /\ ~Yields(d, c)
      BY <3>1, PendingIn DEF Written
    <3>4. ~(c.change.ts < outbox[d][r].ts)
      BY <3>2, <3>3 DEF Yields
    <3>5. c.change.ts <= had[r] /\ c.change.ts \in Nat
      BY <2>0, <3>1, <3>2, <3>3, PendingIn DEF HadOf, Pending
    <3> QED BY <2>1, <3>4, <3>5
  <2>3. CASE AckOutbox(d)
    <3>1. pc[d] = "applied" /\ Pushed(d, r)
      BY <2>0, <2>3 DEF AckOutbox, TablesTyped
    <3>2. /\ ~loop[d].reply.hasMore /\ r \in DOMAIN loop[d].batch
          /\ outbox[d][r].ts = loop[d].batch[r].ts
      BY <3>1 DEF Pushed
    <3> QED BY <2>0, <3>1, <3>2 DEF HadOf
  <2>4. ASSUME NEW e \in Device, e # d \/ ~(ApplyServerChanges(e) \/ AckOutbox(e)),
               DeviceStep(e) \/ ServerStep(e) \/ Abandon(e) \/ Update(e)
        PROVE  FALSE
    <3>1. outbox'[d][r] = outbox[d][r]
      BY <2>0, <2>4 DEF TablesTyped, DeviceStep, ServerStep, StartSync, WipeForResync, SaveReset,
           BufferPage, ApplyServerChanges, AckOutbox, SaveState, Serve, Refuse, Abandon, Update
    <3> QED BY <3>1
  <2>5. ASSUME NEW e \in Device, NEW s \in Row, NEW deleted \in BOOLEAN, Edit(e, s, deleted)
        PROVE  FALSE
    <3>1. PICK at \in Busy : /\ outbox' = [outbox EXCEPT ![e][s] = EditEntry(e, at, deleted)]
                             /\ EditEntry(e, at, deleted) \in Change
      BY <2>5, EditSteps
    <3>2. outbox'[d][r] = outbox[d][r] \/ outbox'[d][r] = EditEntry(e, at, deleted)
      BY <2>0, <3>1 DEF TablesTyped
    <3> QED BY <3>1, <3>2, EditAssumption
  <2>6. ASSUME \/ \E o \in orphans : ServeOrphan(o)
               \/ Prune \/ Leave
        PROVE  FALSE
    BY <2>6 DEF ServeOrphan, Prune, Leave, clientVars
  <2> QED BY <2>2, <2>3, <2>4, <2>5, <2>6 DEF Next
<1> QED BY <1>1, <1>2, <1>3, PTL DEF SpecWithHistory, NoEditDropped

-----------------------------------------------------------------------------
(***************************************************************************)
(* The cursor tells the truth. First what a step of the server does to one *)
(* row, and why that leaves what a device knows of it true.                *)
(***************************************************************************)
\* A record gives way to a newer one past the top, or stays.
GrowsAs(stored, next, top) ==
  \/ next = stored
  \/ /\ next # NoRow /\ next.ts \in Nat /\ next.seq \in Nat
     /\ top < next.seq /\ Dated(next)
     /\ stored # NoRow => stored.ts < next.ts
ServerGrows == /\ \A r \in Row : GrowsAs(syncRows[r], syncRows'[r], maxSeq)
               /\ maxSeq <= maxSeq' /\ prunedBelow' = prunedBelow
Numbers(stored, top) == stored # NoRow =>
  stored.ts \in Nat /\ stored.seq \in Nat /\ stored.seq <= top

LEMMA RowNumbers ==
  ASSUME FeedInv
  PROVE  /\ maxSeq \in Nat
         /\ \A r \in Row : /\ Numbers(syncRows[r], maxSeq)
                           /\ r \in Kept <=> syncRows[r] # NoRow
                           /\ r \in Kept => syncRows[r] \in Stored
<1>1. maxSeq \in Nat /\ FeedTypeOK
  BY DEF FeedInv, FeedTypeOK
<1>2. \A r \in Row : r \in Kept <=> syncRows[r] # NoRow
  BY DEF Kept
<1> QED BY <1>1, <1>2, KeptFacts DEF FeedInv, Ordered, SeqsBounded, Numbers

LEMMA AgreesGrows ==
  ASSUME NEW kept, NEW staged, NEW stored, NEW next, NEW top \in Nat, NEW cursor \in Nat,
         cursor <= top, Numbers(stored, top), GrowsAs(stored, next, top),
         kept # NoRow => kept.stamp \in Nat, AgreesAs(kept, staged, stored, cursor)
  PROVE  AgreesAs(kept, staged, next, cursor)
<1> SUFFICES ASSUME staged = NoRow, next # stored PROVE AgreesAs(kept, staged, next, cursor)
  BY DEF AgreesAs
<1>1. next # NoRow /\ next.ts \in Nat /\ next.seq \in Nat /\ top < next.seq
      /\ (stored # NoRow => stored.ts < next.ts /\ stored.ts \in Nat)
  BY DEF GrowsAs, Numbers
<1>2. kept # NoRow => kept.stamp <= next.ts
  BY <1>1 DEF AgreesAs
<1>3. ~(next.seq <= cursor)
  BY <1>1
<1> QED BY <1>1, <1>2, <1>3 DEF AgreesAs

LEMMA AgreesLess ==
  ASSUME NEW kept, NEW staged, NEW stored, NEW cursor \in Nat, NEW less \in Nat, less <= cursor,
         stored # NoRow => stored.seq \in Nat, AgreesAs(kept, staged, stored, cursor)
  PROVE  AgreesAs(kept, staged, stored, less)
BY DEF AgreesAs

LEMMA StemsGrows ==
  ASSUME NEW news, NEW stored, NEW next, NEW top \in Nat, news.ts \in Nat, news.seq \in Nat,
         Numbers(stored, top), GrowsAs(stored, next, top), StemsAs(news, stored)
  PROVE  StemsAs(news, next) /\ (next # stored => top < next.seq)
<1>1. stored # NoRow /\ stored.ts \in Nat /\ stored.seq \in Nat /\ stored.seq <= top
  BY DEF StemsAs, Numbers
<1>2. news.ts <= stored.ts /\ news.seq <= stored.seq
  BY <1>1 DEF StemsAs
<1>3. CASE next = stored
  BY <1>3
<1>4. CASE next # stored
  <2>1. next # NoRow /\ next.ts \in Nat /\ next.seq \in Nat /\ top < next.seq /\ stored.ts < next.ts
    BY <1>1, <1>4 DEF GrowsAs
  <2>2. news.ts < next.ts /\ news.seq < next.seq
    BY <1>1, <1>2, <2>1
  <2> QED BY <2>1, <2>2 DEF StemsAs
<1> QED BY <1>3, <1>4

\* What the places of a loop say about its numbers, and its device's.
LEMMA LoopNumbers ==
  ASSUME EngineInv, NEW d \in Device
  PROVE  /\ saved[d].cursor \in Nat /\ saved[d].cursor <= maxSeq
         /\ pc[d] \in Place
         /\ pc[d] # "idle" =>
              /\ loop[d] \in Loop /\ Bounded(loop[d])
              /\ loop[d].cursor \in Nat /\ loop[d].fetchFrom \in Nat
              /\ loop[d].cursor <= loop[d].fetchFrom /\ loop[d].fetchFrom <= maxSeq
         /\ pc[d] \in {"replied", "applied", "acked"} =>
              /\ loop[d].reply \in Answer /\ loop[d].reply.cursor \in Nat
              /\ ~loop[d].reply.resync => /\ loop[d].fetchFrom <= loop[d].reply.cursor
                                          /\ loop[d].reply.cursor <= maxSeq
         /\ pc[d] \in {"applied", "acked"} => ~loop[d].reply.resync
<1>1. LoopTyped(d) /\ TablesTyped
  BY DEF EngineInv
<1>2. saved[d].cursor \in Nat /\ saved[d].cursor <= maxSeq /\ pc[d] \in Place
  BY <1>1 DEF LoopTyped, TablesTyped
<1>3. pc[d] # "idle" => Bounded(loop[d])
  BY <1>1 DEF LoopTyped
<1>4. pc[d] \in {"replied", "applied", "acked"} => BringsOn(loop[d])
  BY <1>1 DEF LoopTyped
<1>5. pc[d] # "idle" =>
              /\ loop[d] \in Loop /\ Bounded(loop[d])
              /\ loop[d].cursor \in Nat /\ loop[d].fetchFrom \in Nat
              /\ loop[d].cursor <= loop[d].fetchFrom /\ loop[d].fetchFrom <= maxSeq
  BY <1>3, LoopFields DEF Bounded
<1>6. pc[d] \in {"replied", "applied", "acked"} =>
              /\ loop[d].reply \in Answer /\ loop[d].reply.cursor \in Nat
              /\ ~loop[d].reply.resync => /\ loop[d].fetchFrom <= loop[d].reply.cursor
                                          /\ loop[d].reply.cursor <= maxSeq
  BY <1>4 DEF BringsOn, Answer
<1> QED BY <1>1, <1>2, <1>5, <1>6 DEF LoopTyped

LEMMA BaseCursorIn ==
  ASSUME EngineInv, NEW d \in Device
  PROVE  BaseCursor(d) \in Nat /\ BaseCursor(d) <= maxSeq
BY LoopNumbers DEF BaseCursor

\* What a buffer or an answer holds.
LEMMA NewsIn ==
  ASSUME EngineInv, NEW d \in Device, pc[d] # "idle"
  PROVE  /\ \A c \in loop[d].buffered : c \in News
         /\ pc[d] \in {"replied", "applied", "acked"} => \A c \in loop[d].reply.changes : c \in News
<1>1. loop[d] \in Loop /\ (pc[d] \in {"replied", "applied", "acked"} => loop[d].reply \in Answer)
  BY LoopNumbers
<1> QED BY <1>1, LoopFields DEF Answer

LEMMA NewsFields ==
  ASSUME NEW c \in News
  PROVE  /\ c.row \in Row /\ c.change \in Stored /\ c.change.ts \in Nat /\ c.change.seq \in Nat
         /\ c.change.seq # 0 /\ c.change.deleted \in BOOLEAN /\ c.change.row \in Content
         /\ c = [row |-> c.row, change |-> c.change]
BY DEF News, Stored

\* A device that takes no part in a step of the server's, or of another's.
LEMMA TruthLater ==
  ASSUME EngineInv, ServerGrows, NEW d \in Device, TruthOK(d), Untouched(d), updated'[d] = updated[d]
  PROVE  TruthOK(d)'
<1>0. FeedInv /\ maxSeq \in Nat
  BY RowNumbers DEF EngineInv
<1>1. ASSUME NEW r \in Row
      PROVE  /\ Numbers(syncRows[r], maxSeq) /\ GrowsAs(syncRows[r], syncRows'[r], maxSeq)
             /\ (r \in Kept <=> syncRows[r] # NoRow) /\ (r \in Kept' <=> syncRows'[r] # NoRow)
             /\ (Knows(d, r)' <=> Knows(d, r))
  BY <1>0, RowNumbers DEF ServerGrows, Kept, Knows
<1>2. Settled(d)' /\ DatesOf(d)'
  BY DEF TruthOK, Settled, DatesOf, Untouched
<1>3. ASSUME NEW r \in Row PROVE BaseOK(d, r)'
  <2>1. BaseCursor(d)' = BaseCursor(d)
    BY DEF BaseCursor, Untouched
  <2>2. BaseOK(d, r) /\ (local[d][r] # NoRow => local[d][r].stamp \in Nat)
    BY DEF TruthOK, DatesOf
  <2>3. BaseCursor(d) \in Nat /\ BaseCursor(d) <= maxSeq
    BY BaseCursorIn
  <2>4. Knows(d, r) => AgreesAs(local[d][r], outbox[d][r], syncRows'[r], BaseCursor(d))
    BY <1>0, <1>1, <2>2, <2>3, AgreesGrows DEF BaseOK
  <2> QED BY <1>1, <2>1, <2>4 DEF BaseOK, Untouched
<1>4. ASSUME NEW r \in Row PROVE UnknownOK(d, r)'
  <2>1. UnknownOK(d, r)
    BY DEF TruthOK
  <2>2. r \in Kept' /\ (r \in Kept => saved[d].cursor < syncRows[r].seq) => saved[d].cursor < syncRows'[r].seq
    BY <1>0, <1>1, LoopNumbers DEF GrowsAs, Numbers
  <2> QED BY <1>1, <2>1, <2>2 DEF UnknownOK, Untouched
<1>5. ASSUME pc[d] # "idle", NEW n \in Nat, n <= maxSeq, NEW r \in Row, r \in Kept', syncRows'[r].seq <= n
      PROVE  syncRows'[r] = syncRows[r] /\ r \in Kept
  BY <1>0, <1>1, <1>5 DEF GrowsAs
<1>6. pc[d] # "idle" => /\ (loop[d].cursor = saved[d].cursor)'
                        /\ BufferOK(d)' /\ \A r \in Row : HeldOK(d, r)'
  <2> SUFFICES ASSUME pc[d] # "idle"
               PROVE  /\ (loop[d].cursor = saved[d].cursor)'
                      /\ BufferOK(d)' /\ \A r \in Row : HeldOK(d, r)'
    OBVIOUS
  <2>1. (loop[d].cursor = saved[d].cursor)'
    BY DEF TruthOK, Untouched
  <2>2. ASSUME NEW c \in loop[d].buffered
        PROVE  StemsAs(c.change, syncRows'[c.row]) /\ loop[d].cursor < c.change.seq
    <3>1. StemsAs(c.change, syncRows[c.row]) /\ loop[d].cursor < c.change.seq
      BY DEF TruthOK, BufferOK
    <3>2. c.row \in Row /\ c.change.ts \in Nat /\ c.change.seq \in Nat
      BY NewsIn, NewsFields
    <3> QED BY <1>0, <1>1, <3>1, <3>2, StemsGrows
  <2>3. ASSUME NEW r \in Row PROVE HeldOK(d, r)'
    <3>1. HeldOK(d, r) /\ loop[d].fetchFrom \in Nat /\ loop[d].fetchFrom <= maxSeq
      BY LoopNumbers DEF TruthOK
    <3> QED BY <1>5, <3>1 DEF HeldOK, Untouched
  <2> QED BY <2>1, <2>2, <2>3 DEF BufferOK, Untouched
<1>7. pc[d] \in {"sent", "replied"} => \A r \in Row : StagedOK(d, r)'
  BY DEF TruthOK, StagedOK, Staged, Untouched
<1>8. ASSUME pc[d] \in {"replied", "applied", "acked"}
      PROVE  ReplyOK(d)' /\ \A r \in Row : SentOK(d, r)'
  <2>1. /\ pc[d] # "idle" /\ loop[d].reply.cursor \in Nat /\ loop[d].reply.cursor <= maxSeq
        /\ ReplyOK(d) /\ \A r \in Row : SentOK(d, r)
    BY <1>8, LoopNumbers DEF TruthOK, Settled
  <2>2. \A r \in Row : syncRows'[r] = syncRows[r] => (PushedAs(d, r)' <=> PushedAs(d, r))
    BY DEF PushedAs, Untouched
  <2>3. ASSUME NEW c \in loop[d].reply.changes
        PROVE  /\ StemsAs(c.change, syncRows'[c.row])
               /\ \/ c.change = syncRows'[c.row]
                  \/ PushedAs(d, c.row)'
                  \/ loop[d].reply.cursor < syncRows'[c.row].seq
               /\ loop[d].reply.hasMore => loop[d].fetchFrom < c.change.seq
    <3>1. /\ StemsAs(c.change, syncRows[c.row])
          /\ \/ c.change = syncRows[c.row]
             \/ PushedAs(d, c.row)
             \/ loop[d].reply.cursor < syncRows[c.row].seq
          /\ loop[d].reply.hasMore => loop[d].fetchFrom < c.change.seq
      BY <2>1 DEF ReplyOK
    <3>2. c.row \in Row /\ c.change.ts \in Nat /\ c.change.seq \in Nat
      BY <1>8, <2>1, NewsIn, NewsFields
    <3>3. StemsAs(c.change, syncRows'[c.row]) /\ (syncRows'[c.row] # syncRows[c.row] => maxSeq < syncRows'[c.row].seq)
      BY <1>0, <1>1, <3>1, <3>2, StemsGrows
    <3>4. CASE syncRows'[c.row] = syncRows[c.row]
      BY <2>2, <3>1, <3>2, <3>3, <3>4
    <3>5. CASE syncRows'[c.row] # syncRows[c.row]
      <4>1. syncRows'[c.row].seq \in Nat
        BY <1>1, <3>2, <3>5 DEF GrowsAs
      <4>2. loop[d].reply.cursor < syncRows'[c.row].seq
        BY <1>0, <2>1, <3>3, <3>5, <4>1
      <4> QED BY <3>1, <3>3, <4>2
    <3> QED BY <3>4, <3>5
  <2>4. ReplyOK(d)'
    BY <2>3 DEF ReplyOK, Untouched
  <2>5. ASSUME NEW r \in Row PROVE SentOK(d, r)'
    <3>1. SentOK(d, r)
      BY <2>1
    <3> QED BY <1>5, <2>1, <2>2, <3>1 DEF SentOK, Untouched
  <2> QED BY <2>4, <2>5
<1>9. ASSUME pc[d] \in {"replied", "applied"}, NEW r \in Row PROVE TookOK(d, r)'
  <2> SUFFICES ASSUME ~loop[d].reply.hasMore, r \in DOMAIN loop[d].batch PROVE TookOK(d, r)'
    BY DEF TookOK, Untouched
  <2>1. /\ r \in Kept /\ loop[d].batch[r].ts <= syncRows[r].ts /\ TookOK(d, r)
        /\ loop[d].batch[r].ts \in Nat
        /\ loop[d].reply.cursor \in Nat /\ loop[d].reply.cursor <= maxSeq
    BY <1>9, LoopNumbers, LoopDates DEF TruthOK, TookOK, Settled
  <2>2. r \in Kept' /\ loop[d].batch[r].ts <= syncRows'[r].ts
    BY <1>0, <1>1, <2>1 DEF GrowsAs, Numbers
  <2>3. syncRows'[r].seq <= loop[d].reply.cursor => syncRows'[r] = syncRows[r]
    BY <1>5, <1>9, <2>1, <2>2
  <2> QED BY <2>1, <2>2, <2>3 DEF TookOK, Untouched, Staged
<1> QED BY <1>2, <1>3, <1>4, <1>6, <1>7, <1>8, <1>9 DEF TruthOK, Untouched

-----------------------------------------------------------------------------
(***************************************************************************)
(* The server's part: it takes what a device wrote as it is, and a page    *)
(* brings all the feed holds up to its end.                                *)
(***************************************************************************)
\* A request that carries a device's own writes.
Carries(d, q) == \A r \in DOMAIN q.changes : q.changes[r] \in Change /\ Wrote(d, q.changes[r])

LEMMA TakenAsWritten ==
  ASSUME Clocks, FeedInv, NEW e \in Device, NEW d \in Device, NEW q \in Request,
         Carries(d, q), SyncApply(e, q)
  PROVE  /\ ServerGrows
         /\ \A r \in Row : syncRows'[r] # syncRows[r] => r \in Accepted(q)
         /\ \A r \in Accepted(q) : /\ r \in Row /\ r \in Kept' /\ SameAs(syncRows'[r], q.changes[r])
                                   /\ maxSeq < syncRows'[r].seq /\ Dated(syncRows'[r])
         /\ \A r \in Kept' : r \in Accepted(q) \/ (r \in Kept /\ syncRows'[r] = syncRows[r])
<1>1. FeedTypeOK /\ maxSeq \in Nat
  BY DEF FeedInv, FeedTypeOK
<1>2. /\ Kept' = Kept \cup Accepted(q)
      /\ \A r \in Accepted(q) : syncRows'[r] = Store(q, r)
      /\ \A r \in Row \ Accepted(q) : syncRows'[r] = syncRows[r]
  BY SyncApplyRows
<1>3. Accepted(q) \subseteq Row /\ Accepted(q) \subseteq DOMAIN q.changes /\ Cardinality(Accepted(q)) \in Nat
  BY <1>1, AcceptedFacts
<1>4. ASSUME NEW r \in Accepted(q)
      PROVE  /\ SameAs(syncRows'[r], q.changes[r])
             /\ syncRows'[r] \in Stored /\ maxSeq < syncRows'[r].seq /\ Dated(syncRows'[r])
             /\ syncRows'[r].ts \in Nat /\ syncRows'[r].seq \in Nat
             /\ r \in Kept => syncRows[r].ts < syncRows'[r].ts
  <2>0. PICK c : c = q.changes[r]
    OBVIOUS
  <2>1. c \in Change /\ Wrote(d, c)
    BY <1>3, <2>0 DEF Carries
  <2>2. Clamped(c.ts) = c.ts /\ c.ts \in Nat
    BY <2>1, StampStands
  <2>3. /\ syncRows'[r].ts = c.ts /\ syncRows'[r].deleted = c.deleted /\ syncRows'[r].row = c.row
        /\ syncRows'[r] \in Stored /\ syncRows'[r].seq \in (maxSeq + 1)..(maxSeq + Cardinality(Accepted(q)))
    <3>1. /\ syncRows'[r] \in Stored
          /\ syncRows'[r].seq \in (maxSeq + 1)..(maxSeq + Cardinality(Accepted(q)))
          /\ syncRows'[r].ts = c.ts
      BY <1>1, <1>2, <2>0, <2>2, StoreFacts
    <3>2. syncRows'[r].deleted = c.deleted /\ syncRows'[r].row = c.row
      <4>1. syncRows'[r] = Store(q, r)
        BY <1>2
      <4>2. Store(q, r).deleted = q.changes[r].deleted /\ Store(q, r).row = q.changes[r].row
        BY DEF Store
      <4> QED BY <2>0, <4>1, <4>2
    <3> QED BY <3>1, <3>2
  <2>4. c.row.stamp = c.ts
    BY <2>1 DEF Wrote
  <2>5. r \in Kept => syncRows[r].ts < c.ts
    <3>1. r \in Kept => syncRows[r].ts \in Nat
      BY <1>1, KeptFacts
    <3>2. r \in Kept => ~(c.ts <= syncRows[r].ts)
      BY <2>0, <2>2 DEF Accepted, Loses
    <3> QED BY <2>2, <3>1, <3>2
  <2> QED BY <1>1, <1>3, <2>0, <2>2, <2>3, <2>4, <2>5 DEF SameAs, Dated
<1>5. \A r \in Row : syncRows[r] # NoRow => r \in Kept
  BY DEF Kept
<1>6. ServerGrows
  <2>1. \A r \in Row : GrowsAs(syncRows[r], syncRows'[r], maxSeq)
    BY <1>2, <1>4, <1>5, NoRowAssumption DEF GrowsAs
  <2>2. maxSeq <= maxSeq' /\ prunedBelow' = prunedBelow
    BY <1>1, <1>3 DEF SyncApply
  <2> QED BY <2>1, <2>2 DEF ServerGrows
<1>7. \A r \in Kept : r \in Row
  BY DEF Kept
<1> QED BY <1>2, <1>3, <1>4, <1>6, <1>7

\* An answer brings every row of the feed between its request's cursor and its own.
LEMMA PageCovers ==
  ASSUME FeedInv, NEW q \in Request, ~MustResync(q), NEW r \in Kept,
         q.cursor < syncRows[r].seq, syncRows[r].seq <= NewCursor(q)
  PROVE  r \in Window(q)
<1> DEFINE P == Past(q.cursor)
<1>1. FeedTypeOK /\ Ordered /\ r \in P /\ P \in SUBSET Kept /\ IsFiniteSet(Kept)
  BY KeptFacts DEF FeedInv, Past
<1>2. IsFiniteSet(P) /\ UpTo(r, P) \in SUBSET P
  BY <1>1, FS_Subset DEF UpTo
<1>3. Window(q) = Page(q.cursor)
  BY DEF Window
<1>4. Cardinality(UpTo(r, P)) <= MaxPull => r \in Window(q)
  BY <1>1, <1>3 DEF Page
<1>5. MaxPull \in Nat /\ Cardinality(P) \in Nat /\ Cardinality(UpTo(r, P)) \in Nat
  BY <1>2, FS_Subset, FS_CardinalityType, CapAssumption
<1>6. CASE HasMore(q)
  <2>1. PICK p \in Window(q) : PageEnd(q) = syncRows[p].seq
    BY <1>1, <1>6, PageEndBounded
  <2>2. p \in P /\ Cardinality(UpTo(p, P)) <= MaxPull /\ syncRows[r].seq <= syncRows[p].seq
    BY <1>3, <1>6, <2>1 DEF Page, NewCursor
  <2>3. UpTo(r, P) \in SUBSET UpTo(p, P) /\ UpTo(p, P) \in SUBSET P
    <3>1. \A s \in P : syncRows[s].seq \in Nat
      BY <1>1, KeptFacts
    <3>2. \A s \in P : syncRows[s].seq <= syncRows[r].seq => syncRows[s].seq <= syncRows[p].seq
      BY <1>1, <2>2, <3>1
    <3> HIDE DEF P
    <3> QED BY <3>2 DEF UpTo
  <2>4. IsFiniteSet(UpTo(p, P)) /\ Cardinality(UpTo(p, P)) \in Nat
    BY <1>2, <2>3, FS_Subset, FS_CardinalityType
  <2>5. Cardinality(UpTo(r, P)) <= Cardinality(UpTo(p, P))
    BY <2>3, <2>4, FS_Subset
  <2> HIDE DEF P
  <2> QED BY <1>4, <1>5, <2>2, <2>4, <2>5
<1>7. CASE ~HasMore(q)
  <2>1. ~(MaxPull < Cardinality(P))
    BY <1>7 DEF HasMore
  <2>2. Cardinality(UpTo(r, P)) <= Cardinality(P)
    BY <1>2, FS_Subset
  <2> HIDE DEF P
  <2> QED BY <1>4, <1>5, <2>1, <2>2
<1> QED BY <1>6, <1>7

LEMMA ServeTruth ==
  ASSUME EngineInv, Clocks, TruthInv, NEW d \in Device, Serve(d)
  PROVE  ServerGrows /\ (\A r \in Kept' : Dated(syncRows'[r])) /\ TruthOK(d)'
<1> DEFINE q == RequestOf(loop[d])
<1>0. FeedInv /\ TablesTyped /\ LoopTyped(d) /\ OwnWrites(d) /\ TruthOK(d) /\ prunedBelow = 0
  BY DEF EngineInv, TruthInv
<1>1. /\ pc[d] = "sent" /\ SyncApply(d, q)
      /\ pc'[d] = "replied" /\ loop'[d] = [loop[d] EXCEPT !.reply = Reply(q)]
      /\ UNCHANGED <<local, outbox, saved, updated>>
  BY <1>0 DEF Serve, TablesTyped
<1>2. /\ Bounded(loop[d]) /\ q \in Request /\ q.changes = loop[d].batch
      /\ q.cursor = loop[d].fetchFrom
  BY <1>0, <1>1, RequestIn DEF LoopTyped, RequestOf
<1> HIDE DEF q
<1>3. /\ loop'[d].buffered = loop[d].buffered /\ loop'[d].reply = Reply(q)
      /\ loop'[d].batch = loop[d].batch /\ loop'[d].cursor = loop[d].cursor
      /\ loop'[d].fetchFrom = loop[d].fetchFrom
  <2>1. loop[d] \in Loop
    BY <1>2 DEF Bounded
  <2> QED BY <1>1, <2>1 DEF Loop
<1>4. /\ maxSeq \in Nat /\ saved[d].cursor \in Nat /\ saved[d].cursor <= maxSeq
      /\ loop[d].cursor \in Nat /\ loop[d].fetchFrom \in Nat /\ loop[d].fetchFrom <= maxSeq
      /\ \A r \in Row : /\ Numbers(syncRows[r], maxSeq)
                        /\ (r \in Kept <=> syncRows[r] # NoRow) /\ (r \in Kept' <=> syncRows'[r] # NoRow)
                        /\ (Knows(d, r)' <=> Knows(d, r))
  BY <1>0, <1>1, LoopNumbers, RowNumbers DEF Kept, Knows
<1>5. /\ Reply(q) \in Answer /\ ~Reply(q).resync /\ ~MustResync(q)
      /\ Reply(q).hasMore = HasMore(q) /\ Reply(q).cursor = NewCursor(q)
      /\ Reply(q).changes = {[row |-> r, change |-> syncRows[r]] : r \in Window(q) \cup Beaten(q)}
  <2>1. ~MustResync(q)
    <3>1. q.cursor \in Nat
      BY <1>2, <1>4
    <3> QED BY <1>0, <3>1 DEF MustResync
  <2> QED BY <1>0, <1>2, <2>1, ReplyFacts DEF Outgoing
<1>6. Carries(d, q)
  BY <1>0, <1>1, <1>2, BatchIn DEF OwnWrites, Carries
<1>7. /\ ServerGrows
      /\ \A r \in Row : syncRows'[r] # syncRows[r] => r \in Accepted(q)
      /\ \A r \in Accepted(q) : /\ r \in Row /\ r \in Kept' /\ SameAs(syncRows'[r], q.changes[r])
                                /\ maxSeq < syncRows'[r].seq /\ Dated(syncRows'[r])
      /\ \A r \in Kept' : r \in Accepted(q) \/ (r \in Kept /\ syncRows'[r] = syncRows[r])
  BY <1>0, <1>1, <1>2, <1>6, TakenAsWritten
<1>8. \A r \in Kept' : Dated(syncRows'[r])
  BY <1>7 DEF TruthInv
<1>9. \A r \in Row : GrowsAs(syncRows[r], syncRows'[r], maxSeq)
  BY <1>7 DEF ServerGrows
<1>10. ASSUME NEW r \in Accepted(q) PROVE PushedAs(d, r)'
  <2>1. ~HasMore(q) /\ r \in DOMAIN q.changes
    BY DEF Accepted
  <2>2. loop[d].fetchFrom < syncRows'[r].seq
    <3>1. syncRows'[r].seq \in Nat /\ maxSeq < syncRows'[r].seq
      <4>1. FeedInv'
        BY <1>0, <1>1, <1>2, SyncApplyInv
      <4>2. r \in Kept' /\ maxSeq < syncRows'[r].seq
        BY <1>7
      <4>3. \A s \in Kept' : syncRows'[s].seq \in Nat
        BY <4>1 DEF FeedInv, FeedTypeOK, Kept, Stored
      <4> QED BY <4>2, <4>3
    <3> QED BY <1>4, <3>1
  <2> QED BY <1>2, <1>3, <1>5, <1>7, <2>1, <2>2 DEF PushedAs
<1>11. Settled(d)' /\ DatesOf(d)'
  <2>1. \A c \in Reply(q).changes : Dated(c.change)
    <3>1. Window(q) \cup Beaten(q) \subseteq Kept
      BY DEF Window, Page, Past, Beaten, Accepted, Loses
    <3> QED BY <1>5, <3>1 DEF TruthInv
  <2> QED BY <1>0, <1>1, <1>3, <1>5, <2>1 DEF TruthOK, Settled, DatesOf
<1>12. ASSUME NEW r \in Row PROVE BaseOK(d, r)' /\ UnknownOK(d, r)'
  <2>1. BaseOK(d, r) /\ UnknownOK(d, r) /\ (local[d][r] # NoRow => local[d][r].stamp \in Nat)
    BY <1>0 DEF TruthOK, DatesOf
  <2>2. Knows(d, r) => AgreesAs(local[d][r], outbox[d][r], syncRows'[r], saved[d].cursor)
    BY <1>1, <1>4, <1>9, <2>1, AgreesGrows DEF BaseOK, BaseCursor
  <2>3. BaseOK(d, r)'
    BY <1>1, <1>4, <2>2 DEF BaseOK, BaseCursor
  <2>4. r \in Kept' /\ (r \in Kept => saved[d].cursor < syncRows[r].seq) => saved[d].cursor < syncRows'[r].seq
    BY <1>4, <1>9 DEF GrowsAs, Numbers
  <2>5. UnknownOK(d, r)'
    BY <1>1, <1>3, <1>4, <2>1, <2>4 DEF UnknownOK
  <2> QED BY <2>3, <2>5
<1>13. ASSUME NEW r \in Row, r \in Kept', syncRows'[r].seq <= loop[d].fetchFrom
       PROVE  syncRows'[r] = syncRows[r] /\ r \in Kept
  BY <1>4, <1>9, <1>13 DEF GrowsAs
<1>14. BufferOK(d)' /\ \A r \in Row : HeldOK(d, r)'
  <2>1. ASSUME NEW c \in loop[d].buffered
        PROVE  StemsAs(c.change, syncRows'[c.row]) /\ loop[d].cursor < c.change.seq
    <3>1. StemsAs(c.change, syncRows[c.row]) /\ loop[d].cursor < c.change.seq
      BY <1>0, <1>1 DEF TruthOK, BufferOK
    <3>2. c.row \in Row /\ c.change.ts \in Nat /\ c.change.seq \in Nat
      BY <1>1, NewsIn, NewsFields
    <3> QED BY <1>4, <1>9, <3>1, <3>2, StemsGrows
  <2>2. ASSUME NEW r \in Row PROVE HeldOK(d, r)'
    <3>1. HeldOK(d, r)
      BY <1>0, <1>1 DEF TruthOK
    <3> QED BY <1>3, <1>13, <3>1 DEF HeldOK
  <2> QED BY <1>3, <2>1, <2>2 DEF BufferOK
<1>15. \A r \in Row : StagedOK(d, r)'
  <2>1. \A r \in Row : StagedOK(d, r)
    BY <1>0, <1>1 DEF TruthOK
  <2> QED BY <1>1, <1>3, <2>1 DEF StagedOK, Staged
<1>16. ReplyOK(d)'
  <2> SUFFICES ASSUME NEW c \in Reply(q).changes
               PROVE  /\ StemsAs(c.change, syncRows'[c.row])
                      /\ \/ c.change = syncRows'[c.row]
                         \/ PushedAs(d, c.row)'
                         \/ loop'[d].reply.cursor < syncRows'[c.row].seq
                      /\ Reply(q).hasMore => loop[d].fetchFrom < c.change.seq
    BY <1>3 DEF ReplyOK
  <2>1. PICK r \in Window(q) \cup Beaten(q) : c = [row |-> r, change |-> syncRows[r]]
    BY <1>5
  <2>2. c.row = r /\ c.change = syncRows[r]
    BY <2>1
  <2>3. r \in Kept /\ r \in Row
    BY <2>1 DEF Window, Page, Past, Beaten, Accepted, Loses, Kept
  <2>4. c.change.ts \in Nat /\ c.change.seq \in Nat /\ StemsAs(c.change, syncRows[c.row])
    BY <1>4, <2>2, <2>3 DEF StemsAs, Numbers
  <2>5. StemsAs(c.change, syncRows'[c.row])
    BY <1>4, <1>9, <2>2, <2>3, <2>4, StemsGrows
  <2>6. syncRows'[r] = syncRows[r] \/ PushedAs(d, r)'
    BY <1>7, <1>10, <2>3
  <2>7. Reply(q).hasMore => loop[d].fetchFrom < syncRows[r].seq
    <3> SUFFICES ASSUME HasMore(q) PROVE loop[d].fetchFrom < syncRows[r].seq
      BY <1>5
    <3>1. r \in Window(q)
      BY <2>1 DEF Beaten
    <3> QED BY <1>2, <1>5, <3>1 DEF Window, Page, Past
  <2> QED BY <2>2, <2>5, <2>6, <2>7
<1>17. ASSUME NEW r \in Row PROVE SentOK(d, r)'
  <2> SUFFICES ASSUME r \in Kept', loop[d].fetchFrom < syncRows'[r].seq, syncRows'[r].seq <= Reply(q).cursor
               PROVE  [row |-> r, change |-> syncRows'[r]] \in Reply(q).changes \/ PushedAs(d, r)'
    BY <1>3 DEF SentOK
  <2>1. CASE r \in Accepted(q)
    BY <1>10, <2>1
  <2>2. CASE r \in Kept /\ syncRows'[r] = syncRows[r]
    <3>1. r \in Window(q)
      BY <1>0, <1>2, <1>5, <2>2, PageCovers
    <3> QED BY <1>5, <2>2, <3>1
  <2> QED BY <1>7, <2>1, <2>2
<1>18. ASSUME NEW r \in Row PROVE TookOK(d, r)'
  <2> SUFFICES ASSUME ~HasMore(q), r \in DOMAIN q.changes
               PROVE  /\ r \in Kept' /\ q.changes[r].ts <= syncRows'[r].ts
                      /\ \/ SameAs(syncRows'[r], q.changes[r])
                         \/ [row |-> r, change |-> syncRows'[r]] \in Reply(q).changes
    BY <1>1, <1>2, <1>3, <1>5 DEF TookOK
  <2>1. PICK c : c = q.changes[r]
    OBVIOUS
  <2>2. Clamped(c.ts) = c.ts /\ c.ts \in Nat
    BY <1>0, <1>6, <2>1, StampStands DEF Carries
  <2>3. CASE r \in Accepted(q)
    <3>1. r \in Kept' /\ SameAs(syncRows'[r], c)
      BY <1>7, <2>1, <2>3
    <3> QED BY <2>1, <2>2, <3>1 DEF SameAs
  <2>4. CASE r \notin Accepted(q)
    <3>1. r \in Kept /\ c.ts <= syncRows[r].ts /\ r \in Beaten(q)
      BY <2>1, <2>2, <2>4 DEF Accepted, Loses, Beaten
    <3>2. syncRows'[r] = syncRows[r]
      BY <1>7, <2>4
    <3>3. r \in Kept'
      BY <1>4, <3>1, <3>2
    <3> QED BY <1>5, <2>1, <3>1, <3>2, <3>3
  <2> QED BY <2>3, <2>4
<1>19. (loop[d].cursor = saved[d].cursor)'
  BY <1>0, <1>1, <1>3 DEF TruthOK
<1> QED BY <1>1, <1>7, <1>8, <1>11, <1>12, <1>14, <1>15, <1>16, <1>17, <1>18, <1>19 DEF TruthOK

-----------------------------------------------------------------------------
(***************************************************************************)
(* The device's part, one lemma per step of the loop.                      *)
(***************************************************************************)
\* All a device knows, seen from a cursor.
SeenFrom(d, cursor) ==
  /\ \A r \in Row : Knows(d, r) => AgreesAs(local[d][r], outbox[d][r], syncRows[r], cursor)
  /\ \A r \in Kept : ~Knows(d, r) => cursor < syncRows[r].seq

LEMMA SeenSaved ==
  ASSUME EngineInv, NEW d \in Device, TruthOK(d)
  PROVE  SeenFrom(d, saved[d].cursor)
<1>0. FeedInv
  BY DEF EngineInv
<1>1. /\ saved[d].cursor \in Nat
      /\ pc[d] \in {"applied", "acked"} => saved[d].cursor <= loop[d].reply.cursor /\ loop[d].reply.cursor \in Nat
  BY LoopNumbers DEF TruthOK
<1>2. \A r \in Row : syncRows[r] # NoRow => syncRows[r].seq \in Nat
  BY <1>0, RowNumbers DEF Numbers
<1>3. ASSUME NEW r \in Row, Knows(d, r)
      PROVE  AgreesAs(local[d][r], outbox[d][r], syncRows[r], saved[d].cursor)
  <2>1. AgreesAs(local[d][r], outbox[d][r], syncRows[r], BaseCursor(d))
    BY <1>3 DEF TruthOK, BaseOK
  <2>2. CASE pc[d] \in {"applied", "acked"}
    BY <1>1, <1>2, <2>1, <2>2, AgreesLess DEF BaseCursor
  <2>3. CASE pc[d] \notin {"applied", "acked"}
    BY <2>1, <2>3 DEF BaseCursor
  <2> QED BY <2>2, <2>3
<1>4. \A r \in Kept : ~Knows(d, r) => saved[d].cursor < syncRows[r].seq
  BY DEF TruthOK, UnknownOK, Kept
<1> QED BY <1>3, <1>4 DEF SeenFrom

\* The head of a pass.
LEMMA HeadTruth ==
  ASSUME EngineInv, NEW d \in Device, TruthOK(d), UNCHANGED <<syncRows, local, outbox, updated>>,
         NEW cursor \in Nat, NEW fetchFrom, NEW reseeding, NEW buffered,
         pc'[d] = "sent", loop'[d] = Pass(d, cursor, fetchFrom, reseeding, buffered),
         saved'[d].cursor = cursor, SeenFrom(d, cursor),
         \A c \in buffered : /\ Dated(c.change) /\ StemsAs(c.change, syncRows[c.row])
                             /\ cursor < c.change.seq,
         \A r \in Kept : cursor < syncRows[r].seq /\ syncRows[r].seq <= fetchFrom =>
                           [row |-> r, change |-> syncRows[r]] \in buffered
  PROVE  TruthOK(d)'
<1>1. /\ loop'[d].cursor = cursor /\ loop'[d].fetchFrom = fetchFrom
      /\ loop'[d].buffered = buffered /\ loop'[d].batch = Batch(d)
  BY DEF Pass
<1>2. /\ DOMAIN Batch(d) \subseteq Staged(d)
      /\ \A r \in DOMAIN Batch(d) : Batch(d)[r] = outbox[d][r] /\ outbox[d][r].ts \in Nat
  <2>1. outbox[d] \in [Row -> Change \cup {NoRow}] /\ TablesTyped
    BY DEF EngineInv, TablesTyped
  <2>2. \A r \in Staged(d) : outbox[d][r].ts \in Nat
    BY <2>1, StagedIn, ClockAssumption DEF Change
  <2> QED BY <2>1, <2>2, BatchFacts
<1>3. Kept' = Kept /\ Staged(d)' = Staged(d) /\ \A r \in Row : Knows(d, r)' <=> Knows(d, r)
  BY DEF Kept, Staged, Knows
<1>4. Settled(d)' /\ DatesOf(d)'
  BY <1>1 DEF TruthOK, Settled, DatesOf
<1>5. \A r \in Row : BaseOK(d, r)'
  BY <1>3 DEF BaseOK, BaseCursor, SeenFrom
<1>6. \A r \in Row : UnknownOK(d, r)'
  <2>1. \A r \in Row : ~Knows(d, r) => local[d][r] = NoRow /\ outbox[d][r] = NoRow
    BY DEF TruthOK, UnknownOK
  <2>2. \A r \in Row : outbox[d][r] = NoRow => r \notin DOMAIN Batch(d)
    BY <1>2 DEF Staged
  <2> QED BY <1>1, <1>3, <2>1, <2>2 DEF UnknownOK, SeenFrom
<1>7. BufferOK(d)' /\ \A r \in Row : HeldOK(d, r)'
  BY <1>1, <1>3 DEF BufferOK, HeldOK
<1>8. \A r \in Row : StagedOK(d, r)'
  BY <1>1, <1>2, <1>3 DEF StagedOK
<1> QED BY <1>1, <1>4, <1>5, <1>6, <1>7, <1>8 DEF TruthOK

\* The end of a loop.
LEMMA IdleTruth ==
  ASSUME EngineInv, NEW d \in Device, TruthOK(d), UNCHANGED <<syncRows, local, outbox, updated>>,
         pc'[d] = "idle", SeenFrom(d, saved'[d].cursor)
  PROVE  TruthOK(d)'
<1>1. Kept' = Kept /\ \A r \in Row : Knows(d, r)' <=> Knows(d, r)
  BY DEF Kept, Knows
<1>2. Settled(d)' /\ DatesOf(d)'
  BY DEF TruthOK, Settled, DatesOf
<1>3. \A r \in Row : BaseOK(d, r)'
  BY <1>1 DEF BaseOK, BaseCursor, SeenFrom
<1>4. \A r \in Row : UnknownOK(d, r)'
  <2>1. \A r \in Row : ~Knows(d, r) => local[d][r] = NoRow /\ outbox[d][r] = NoRow
    BY DEF TruthOK, UnknownOK
  <2> QED BY <1>1, <2>1 DEF UnknownOK, SeenFrom
<1> QED BY <1>2, <1>3, <1>4 DEF TruthOK

LEMMA StartTruth ==
  ASSUME EngineInv, NEW d \in Device, TruthOK(d), StartSync(d)
  PROVE  TruthOK(d)'
<1>1. /\ pc'[d] = "sent" /\ saved' = saved
      /\ loop'[d] = Pass(d, saved[d].cursor, saved[d].cursor, saved[d].reseeding, {})
      /\ UNCHANGED <<syncRows, local, outbox, updated>>
  BY DEF StartSync, EngineInv, TablesTyped, feedVars
<1>2. saved[d].cursor \in Nat /\ SeenFrom(d, saved[d].cursor)
  BY SeenSaved, LoopNumbers
<1>3. \A r \in Kept : ~(saved[d].cursor < syncRows[r].seq /\ syncRows[r].seq <= saved[d].cursor)
  <2>1. \A r \in Kept : syncRows[r].seq \in Nat
    BY KeptFacts DEF EngineInv, FeedInv
  <2> QED BY <1>2, <2>1
<1> QED BY <1>1, <1>2, <1>3, HeadTruth

LEMMA EndTruth ==
  ASSUME EngineInv, NEW d \in Device, TruthOK(d), Refuse(d) \/ Abandon(d)
  PROVE  TruthOK(d)'
<1>1. pc'[d] = "idle" /\ saved' = saved /\ UNCHANGED <<syncRows, local, outbox, updated>>
  BY DEF Refuse, Abandon, EngineInv, TablesTyped, feedVars
<1>2. SeenFrom(d, saved[d].cursor)
  BY SeenSaved
<1> QED BY <1>1, <1>2, IdleTruth

\* A row between the cursor of a loop and the end of its answer is at hand, or
\* was pushed with the very request.
LEMMA AtHand ==
  ASSUME EngineInv, NEW d \in Device, TruthOK(d), pc[d] \in {"replied", "applied", "acked"},
         NEW r \in Kept, saved[d].cursor < syncRows[r].seq, syncRows[r].seq <= loop[d].reply.cursor
  PROVE  [row |-> r, change |-> syncRows[r]] \in Pending(loop[d]) \/ PushedAs(d, r)
<1>1. /\ r \in Row /\ syncRows[r].seq \in Nat /\ pc[d] # "idle" /\ loop[d].fetchFrom \in Nat
      /\ loop[d].cursor = saved[d].cursor /\ HeldOK(d, r) /\ SentOK(d, r)
  BY KeptFacts, LoopNumbers DEF EngineInv, FeedInv, TruthOK, Kept
<1>2. CASE syncRows[r].seq <= loop[d].fetchFrom
  BY <1>1, <1>2 DEF HeldOK, Pending
<1>3. CASE loop[d].fetchFrom < syncRows[r].seq
  BY <1>1, <1>3 DEF SentOK, Pending
<1> QED BY <1>1, <1>2, <1>3

LEMMA BufferTruth ==
  ASSUME EngineInv, NEW d \in Device, TruthOK(d), BufferPage(d)
  PROVE  TruthOK(d)'
<1>1. /\ pc[d] = "replied" /\ pc'[d] = "sent" /\ saved' = saved /\ loop[d].reply.hasMore
      /\ loop'[d] = Pass(d, loop[d].cursor, loop[d].reply.cursor, TRUE, Pending(loop[d]))
      /\ UNCHANGED <<syncRows, local, outbox, updated>>
  BY DEF BufferPage, Holds, EngineInv, TablesTyped, feedVars
<1>2. /\ loop[d].cursor = saved[d].cursor /\ loop[d].cursor \in Nat /\ loop[d].fetchFrom \in Nat
      /\ loop[d].cursor <= loop[d].fetchFrom
      /\ BufferOK(d) /\ ReplyOK(d) /\ DatesOf(d)
  BY <1>1, LoopNumbers DEF TruthOK
<1>3. SeenFrom(d, loop[d].cursor)
  BY <1>2, SeenSaved
<1>4. ASSUME NEW c \in Pending(loop[d])
      PROVE  /\ Dated(c.change) /\ StemsAs(c.change, syncRows[c.row]) /\ loop[d].cursor < c.change.seq
  <2>1. CASE c \in loop[d].buffered
    BY <1>1, <1>2, <2>1 DEF BufferOK, DatesOf
  <2>2. CASE c \in loop[d].reply.changes
    <3>1. /\ StemsAs(c.change, syncRows[c.row]) /\ loop[d].fetchFrom < c.change.seq
          /\ Dated(c.change) /\ c.change.seq \in Nat
      BY <1>1, <1>2, <2>2, NewsIn, NewsFields DEF ReplyOK, DatesOf
    <3> QED BY <1>2, <3>1
  <2> QED BY <2>1, <2>2 DEF Pending
<1>5. ASSUME NEW r \in Kept, loop[d].cursor < syncRows[r].seq, syncRows[r].seq <= loop[d].reply.cursor
      PROVE  [row |-> r, change |-> syncRows[r]] \in Pending(loop[d])
  BY <1>1, <1>2, <1>5, AtHand DEF PushedAs
<1> QED BY <1>1, <1>2, <1>3, <1>4, <1>5, HeadTruth

\* A row at hand that nothing newer is pending for is among the newest.
LEMMA StoredIsNewest ==
  ASSUME EngineInv, NEW d \in Device, TruthOK(d), pc[d] \in {"replied", "applied", "acked"},
         NEW r \in Kept, [row |-> r, change |-> syncRows[r]] \in Pending(loop[d])
  PROVE  [row |-> r, change |-> syncRows[r]] \in Newest(loop[d])
<1>1. syncRows[r].seq \in Nat /\ pc[d] # "idle" /\ BufferOK(d) /\ ReplyOK(d)
  BY KeptFacts DEF EngineInv, FeedInv, TruthOK
<1>2. ASSUME NEW e \in Pending(loop[d]), e.row = r PROVE e.change.seq <= syncRows[r].seq
  <2>1. StemsAs(e.change, syncRows[r]) /\ e.change.seq \in Nat
    BY <1>1, <1>2, NewsIn, NewsFields DEF Pending, BufferOK, ReplyOK
  <2> QED BY <1>1, <2>1 DEF StemsAs
<1> QED BY <1>2 DEF Newest

\* What is pending is dated, and stems from what the account stores.
LEMMA PendingStems ==
  ASSUME EngineInv, NEW d \in Device, TruthOK(d), pc[d] \in {"replied", "applied", "acked"},
         NEW c \in Pending(loop[d])
  PROVE  c \in News /\ Dated(c.change) /\ StemsAs(c.change, syncRows[c.row])
<1>1. pc[d] # "idle" /\ pc[d] # "sent" /\ BufferOK(d) /\ ReplyOK(d) /\ DatesOf(d)
  BY DEF TruthOK
<1> QED BY <1>1, NewsIn DEF Pending, BufferOK, ReplyOK, DatesOf

\* An own write that the answer tells nothing newer of is still staged, under
\* its stamp or a later one.
LEMMA PushedIsStaged ==
  ASSUME EngineInv, NEW d \in Device, TruthOK(d), pc[d] = "replied", NEW r \in Row, PushedAs(d, r)
  PROVE  outbox[d][r] # NoRow /\ syncRows[r].ts <= outbox[d][r].ts
<1>1. StagedOK(d, r) /\ r \in DOMAIN loop[d].batch /\ syncRows[r].ts = loop[d].batch[r].ts
  BY DEF TruthOK, PushedAs, SameAs
<1> QED BY <1>1 DEF StagedOK, Staged

\* What an incoming change meets: a row and a staged write of its own device.
LEMMA TableNumbers ==
  ASSUME EngineInv, NEW d \in Device, DatesOf(d), NEW r \in Row
  PROVE  /\ local[d][r] # NoRow => local[d][r].stamp \in Nat
         /\ outbox[d][r] # NoRow => /\ outbox[d][r] \in Change /\ outbox[d][r].ts \in Nat
                                    /\ Wrote(d, outbox[d][r]) /\ local[d][r] = Content0(outbox[d][r])
<1>1. TablesTyped /\ OwnWrites(d)
  BY DEF EngineInv
<1>2. outbox[d][r] # NoRow => r \in Staged(d)
  BY DEF Staged
<1>3. outbox[d][r] # NoRow => outbox[d][r] \in Change /\ outbox[d][r].ts \in Nat
  BY <1>1, <1>2, StagedIn, ClockAssumption DEF Change
<1> QED BY <1>1, <1>2, <1>3 DEF OwnWrites, DatesOf

LEMMA ApplyBase ==
  ASSUME EngineInv, NEW d \in Device, TruthOK(d), (\A r \in Kept : Dated(syncRows[r])),
         ApplyServerChanges(d), NEW r \in Row, Knows(d, r)
  PROVE  AgreesAs(local'[d][r], outbox'[d][r], syncRows[r], loop[d].reply.cursor)
<1> DEFINE m == loop[d].reply.cursor
<1>1. /\ pc[d] = "replied" /\ pc[d] # "idle" /\ pc[d] \in {"replied", "applied", "acked"}
      /\ FeedInv /\ TablesTyped
  BY DEF ApplyServerChanges, EngineInv
<1>2. /\ loop[d] \in Loop /\ loop[d].reply \in Answer /\ m \in Nat /\ saved[d].cursor \in Nat
      /\ loop[d].cursor \in Nat /\ loop[d].fetchFrom \in Nat /\ loop[d].cursor = saved[d].cursor
      /\ BufferOK(d) /\ ReplyOK(d) /\ DatesOf(d)
  BY <1>1, LoopNumbers DEF TruthOK
<1>3. r \in Kept <=> syncRows[r] # NoRow
  BY DEF Kept
<1>4. r \in Kept => syncRows[r].ts \in Nat /\ syncRows[r].seq \in Nat /\ Dated(syncRows[r])
  BY <1>1, KeptFacts DEF FeedInv
<1>5. /\ local[d][r] # NoRow => local[d][r].stamp \in Nat
      /\ outbox[d][r] # NoRow => outbox[d][r].ts \in Nat
  BY <1>2, TableNumbers
<1> HIDE DEF m
<1>6. CASE WrittenAt(d, r)
  <2>1. PICK c \in Written(d) : c.row = r /\ local'[d][r] = NewContent(c)
    BY <1>1, <1>2, <1>6, ApplyRows
  <2>2. c \in Newest(loop[d]) /\ c \in Pending(loop[d]) /\ ~Yields(d, c)
    BY <1>2, PendingIn DEF Written
  <2>3. c \in News /\ Dated(c.change) /\ StemsAs(c.change, syncRows[r])
    BY <1>1, <2>1, <2>2, PendingStems
  <2>4. /\ c.change.ts \in Nat /\ c.change.seq \in Nat /\ r \in Kept
        /\ c.change.ts <= syncRows[r].ts
    BY <1>3, <1>4, <2>3, NewsFields DEF StemsAs
  <2>5. local'[d][r] # NoRow => local'[d][r].stamp <= syncRows[r].ts
    BY <2>1, <2>3, <2>4 DEF NewContent, Dated
  <2>6. ASSUME syncRows[r].seq <= m PROVE c.change = syncRows[r]
    <3> SUFFICES ASSUME c.change # syncRows[r] PROVE FALSE
      OBVIOUS
    <3>1. c.change.ts < syncRows[r].ts /\ c.change.seq < syncRows[r].seq
      BY <2>3 DEF StemsAs
    <3>2. ~([row |-> r, change |-> syncRows[r]] \in Pending(loop[d]))
      <4> SUFFICES ASSUME [row |-> r, change |-> syncRows[r]] \in Pending(loop[d]) PROVE FALSE
        OBVIOUS
      <4>1. syncRows[r].seq <= c.change.seq
        BY <2>1, <2>2 DEF Newest
      <4> QED BY <1>4, <2>4, <3>1, <4>1
    <3>3. ~PushedAs(d, r)
      <4> SUFFICES ASSUME PushedAs(d, r) PROVE FALSE
        OBVIOUS
      <4>1. outbox[d][r] # NoRow /\ syncRows[r].ts <= outbox[d][r].ts
        BY <1>1, PushedIsStaged
      <4>2. c.change.ts < outbox[d][r].ts
        BY <1>4, <1>5, <2>4, <3>1, <4>1
      <4> QED BY <2>1, <2>2, <4>1, <4>2 DEF Yields
    <3>4. CASE c \in loop[d].buffered
      <4>1. loop[d].cursor < c.change.seq
        BY <1>2, <3>4 DEF BufferOK
      <4>2. saved[d].cursor < syncRows[r].seq
        BY <1>2, <1>4, <2>4, <3>1, <4>1
      <4> QED BY <1>1, <2>4, <2>6, <3>2, <3>3, <4>2, AtHand DEF m
    <3>5. CASE c \in loop[d].reply.changes
      <4>1. m < syncRows[r].seq
        BY <1>2, <2>1, <3>3, <3>5 DEF ReplyOK, m
      <4> QED BY <1>2, <1>4, <2>4, <2>6, <4>1
    <3> QED BY <2>2, <3>4, <3>5 DEF Pending
  <2>7. syncRows[r].seq <= m => local'[d][r] = Content0(syncRows[r])
    BY <2>1, <2>6 DEF NewContent, Content0
  <2> QED BY <1>3, <2>4, <2>5, <2>7 DEF AgreesAs, m
<1>7. CASE ~WrittenAt(d, r)
  <2>1. outbox'[d][r] = outbox[d][r] /\ local'[d][r] = local[d][r]
    BY <1>1, <1>2, <1>7, ApplyRows
  <2> SUFFICES ASSUME outbox[d][r] = NoRow PROVE AgreesAs(local[d][r], outbox[d][r], syncRows[r], m)
    BY <2>1 DEF AgreesAs, m
  <2>2. AgreesAs(local[d][r], outbox[d][r], syncRows[r], saved[d].cursor)
    BY <1>1 DEF TruthOK, BaseOK, BaseCursor
  <2>3. local[d][r] # NoRow => syncRows[r] # NoRow /\ local[d][r].stamp <= syncRows[r].ts
    BY <2>2 DEF AgreesAs
  <2>4. ASSUME r \in Kept, syncRows[r].seq <= m PROVE local[d][r] = Content0(syncRows[r])
    <3>1. CASE syncRows[r].seq <= saved[d].cursor
      BY <1>3, <2>2, <2>4, <3>1 DEF AgreesAs
    <3>2. CASE saved[d].cursor < syncRows[r].seq
      <4> DEFINE s == [row |-> r, change |-> syncRows[r]]
      <4>1. ~PushedAs(d, r)
        BY <1>1, PushedIsStaged
      <4>2. s \in Pending(loop[d])
        BY <1>1, <2>4, <3>2, <4>1, AtHand DEF m
      <4>3. s \in Newest(loop[d])
        BY <1>1, <2>4, <4>2, StoredIsNewest
      <4>4. ~Yields(d, s)
        BY <1>4, <1>5, <2>3, <2>4 DEF Yields
      <4>5. s \in Written(d)
        BY <4>3, <4>4 DEF Written
      <4> QED BY <1>7, <4>5 DEF WrittenAt
    <3> QED BY <1>2, <1>4, <2>4, <3>1, <3>2
  <2> QED BY <1>3, <2>3, <2>4 DEF AgreesAs
<1> QED BY <1>6, <1>7

LEMMA ApplyTruth ==
  ASSUME EngineInv, NEW d \in Device, TruthOK(d), (\A r \in Kept : Dated(syncRows[r])),
         ApplyServerChanges(d)
  PROVE  TruthOK(d)'
<1>1. /\ pc[d] = "replied" /\ pc'[d] = "applied" /\ loop' = loop /\ saved' = saved
      /\ updated' = updated /\ syncRows' = syncRows /\ FeedInv /\ TablesTyped
  BY DEF ApplyServerChanges, EngineInv, TablesTyped, feedVars
<1>2. /\ loop[d] \in Loop /\ loop[d].reply \in Answer /\ DatesOf(d) /\ Bounded(loop[d])
      /\ loop[d].reply.cursor \in Nat /\ saved[d].cursor \in Nat
  BY <1>1, LoopNumbers DEF TruthOK
<1>3. Kept' = Kept /\ \A r \in Row : Knows(d, r)' <=> Knows(d, r)
  BY <1>1 DEF Kept, Knows
<1>4. ASSUME NEW r \in Row
      PROVE  /\ WrittenAt(d, r) => /\ outbox'[d][r] = NoRow
                                   /\ \E c \in Written(d) : c.row = r /\ local'[d][r] = NewContent(c)
             /\ ~WrittenAt(d, r) => outbox'[d][r] = outbox[d][r] /\ local'[d][r] = local[d][r]
  BY <1>1, <1>2, ApplyRows
<1>5. ASSUME NEW r \in Row, local'[d][r] # NoRow PROVE local'[d][r].stamp \in Nat
  <2>1. CASE WrittenAt(d, r)
    <3>1. PICK c \in Written(d) : c.row = r /\ local'[d][r] = NewContent(c)
      BY <1>4, <2>1
    <3>2. c \in Pending(loop[d])
      BY <1>2, PendingIn DEF Written
    <3>3. c \in News /\ Dated(c.change)
      BY <1>1, <3>2, PendingStems
    <3> QED BY <1>5, <3>1, <3>3, NewsFields DEF NewContent, Dated
  <2>2. CASE ~WrittenAt(d, r)
    BY <1>2, <1>4, <1>5, <2>2 DEF DatesOf
  <2> QED BY <2>1, <2>2
<1>6. Settled(d)' /\ DatesOf(d)'
  BY <1>1, <1>2, <1>5 DEF Settled, DatesOf
<1>7. \A r \in Row : BaseOK(d, r)'
  BY <1>1, <1>3, ApplyBase DEF BaseOK, BaseCursor
<1>8. ASSUME NEW r \in Row PROVE UnknownOK(d, r)'
  <2>1. UnknownOK(d, r)
    BY DEF TruthOK
  <2>2. ~Knows(d, r) => ~WrittenAt(d, r)
    BY DEF WrittenAt, Written
  <2> QED BY <1>1, <1>3, <1>4, <2>1, <2>2 DEF UnknownOK
<1>9. /\ (loop[d].cursor = saved[d].cursor)' /\ BufferOK(d)' /\ ReplyOK(d)'
      /\ \A r \in Row : HeldOK(d, r)' /\ SentOK(d, r)'
  BY <1>1, <1>3 DEF TruthOK, BufferOK, ReplyOK, HeldOK, SentOK, PushedAs
<1>10. ASSUME NEW r \in Row PROVE TookOK(d, r)'
  <2> SUFFICES ASSUME ~loop[d].reply.hasMore, r \in DOMAIN loop[d].batch PROVE TookOK(d, r)'
    BY <1>1 DEF TookOK
  <2>1. TookOK(d, r)
    BY <1>1 DEF TruthOK
  <2>2. /\ r \in Kept /\ loop[d].batch[r].ts <= syncRows[r].ts /\ loop[d].batch[r].ts \in Nat
        /\ syncRows[r].seq <= loop[d].reply.cursor =>
             \/ SameAs(syncRows[r], loop[d].batch[r])
             \/ [row |-> r, change |-> syncRows[r]] \in loop[d].reply.changes
    BY <1>1, <1>2, <2>1, LoopDates DEF TookOK
  <2>3. ASSUME syncRows[r].seq <= loop[d].reply.cursor, outbox'[d][r] # NoRow,
               outbox'[d][r].ts = loop[d].batch[r].ts
        PROVE  SameAs(syncRows[r], loop[d].batch[r])
    <3> DEFINE s == [row |-> r, change |-> syncRows[r]]
    <3> SUFFICES ASSUME s \in loop[d].reply.changes PROVE FALSE
      BY <2>2, <2>3
    <3>1. ~WrittenAt(d, r) /\ outbox[d][r] # NoRow /\ outbox[d][r].ts = loop[d].batch[r].ts
      BY <1>4, <2>3
    <3>2. s \in Newest(loop[d])
      BY <1>1, <2>2, StoredIsNewest DEF Pending
    <3>3. Knows(d, r)
      BY <3>1 DEF TruthOK, UnknownOK
    <3>4. syncRows[r].ts \in Nat
      BY <1>1, <2>2, KeptFacts DEF FeedInv
    <3>5. Wrote(d, outbox[d][r]) /\ local[d][r] = Content0(outbox[d][r])
      BY <1>2, <3>1, TableNumbers
    <3>6. local[d][r] # NoRow => local[d][r].stamp = outbox[d][r].ts
      BY <3>5 DEF Wrote, Content0
    <3>7. ~Yields(d, s)
      BY <2>2, <3>1, <3>4, <3>6 DEF Yields
    <3>8. s \in Written(d)
      BY <3>2, <3>3, <3>7 DEF Written
    <3> QED BY <3>1, <3>8 DEF WrittenAt
  <2>4. Staged(d)' = {x \in Row : outbox'[d][x] # NoRow}
    BY DEF Staged
  <2> QED BY <1>1, <1>3, <2>2, <2>3, <2>4 DEF TookOK
<1> QED BY <1>1, <1>6, <1>7, <1>8, <1>9, <1>10 DEF TruthOK

LEMMA AckTruth ==
  ASSUME EngineInv, NEW d \in Device, TruthOK(d), AckOutbox(d)
  PROVE  TruthOK(d)'
<1>1. /\ pc[d] = "applied" /\ pc'[d] = "acked" /\ loop' = loop /\ saved' = saved
      /\ updated' = updated /\ syncRows' = syncRows /\ local' = local
      /\ FeedInv /\ TablesTyped /\ OwnWrites(d)
      /\ \A r \in Row : outbox'[d][r] = IF Pushed(d, r) THEN NoRow ELSE outbox[d][r]
  BY DEF AckOutbox, EngineInv, TablesTyped, feedVars
<1>2. /\ loop[d].reply.cursor \in Nat /\ DatesOf(d) /\ Bounded(loop[d])
  BY <1>1, LoopNumbers DEF TruthOK
<1>3. Kept' = Kept /\ \A r \in Row : Knows(d, r)' <=> Knows(d, r)
  BY <1>1 DEF Kept, Knows
<1>4. Settled(d)' /\ DatesOf(d)'
  BY <1>1, <1>2 DEF Settled, DatesOf
<1>5. ASSUME NEW r \in Row, Knows(d, r)
      PROVE  AgreesAs(local[d][r], outbox'[d][r], syncRows[r], loop[d].reply.cursor)
  <2>1. AgreesAs(local[d][r], outbox[d][r], syncRows[r], loop[d].reply.cursor)
    BY <1>1, <1>5 DEF TruthOK, BaseOK, BaseCursor
  <2>2. CASE ~Pushed(d, r)
    BY <1>1, <2>1, <2>2
  <2>3. CASE Pushed(d, r)
    <3>1. PICK o : o = outbox[d][r]
      OBVIOUS
    <3>2. PICK b : b = loop[d].batch[r]
      OBVIOUS
    <3>3. /\ ~loop[d].reply.hasMore /\ r \in DOMAIN loop[d].batch /\ o # NoRow
          /\ o.ts = b.ts /\ o.deleted = b.deleted
      BY <2>3, <3>1, <3>2 DEF Pushed
    <3>4. Wrote(d, o) /\ o.ts \in Nat /\ local[d][r] = Content0(o)
      BY <1>2, <3>1, <3>3, TableNumbers
    <3>5. Wrote(d, b)
      BY <1>1, <3>2, <3>3 DEF OwnWrites
    <3>6. o.row = b.row /\ o.row.stamp = o.ts
      BY <3>3, <3>4, <3>5 DEF Wrote
    <3>7. TookOK(d, r)
      BY <1>1 DEF TruthOK
    <3>8. /\ r \in Kept /\ o.ts <= syncRows[r].ts
          /\ syncRows[r].seq <= loop[d].reply.cursor => SameAs(syncRows[r], b)
      BY <1>1, <3>1, <3>2, <3>3, <3>7 DEF TookOK, Staged
    <3>9. syncRows[r] # NoRow /\ (local[d][r] # NoRow => local[d][r].stamp <= syncRows[r].ts)
      BY <3>4, <3>6, <3>8 DEF Content0, Kept
    <3>10. syncRows[r].seq <= loop[d].reply.cursor => local[d][r] = Content0(syncRows[r])
      BY <3>3, <3>4, <3>6, <3>8 DEF SameAs, Content0
    <3> QED BY <3>9, <3>10 DEF AgreesAs
  <2> QED BY <2>2, <2>3
<1>6. \A r \in Row : BaseOK(d, r)'
  BY <1>1, <1>3, <1>5 DEF BaseOK, BaseCursor
<1>7. \A r \in Row : UnknownOK(d, r)'
  BY <1>1, <1>3 DEF TruthOK, UnknownOK
<1>8. /\ (loop[d].cursor = saved[d].cursor)' /\ BufferOK(d)' /\ ReplyOK(d)'
      /\ \A r \in Row : HeldOK(d, r)' /\ SentOK(d, r)'
  BY <1>1, <1>3 DEF TruthOK, BufferOK, ReplyOK, HeldOK, SentOK, PushedAs
<1> QED BY <1>1, <1>4, <1>6, <1>7, <1>8 DEF TruthOK

LEMMA SaveTruth ==
  ASSUME EngineInv, NEW d \in Device, TruthOK(d), SaveState(d)
  PROVE  TruthOK(d)'
<1>1. /\ pc[d] = "acked" /\ saved'[d] = NewSaved(d) /\ FeedInv
      /\ UNCHANGED <<syncRows, local, outbox, updated>>
  BY DEF SaveState, EngineInv, TablesTyped, feedVars
<1>2. /\ loop[d] \in Loop /\ loop[d].reply \in Answer /\ loop[d].reply.cursor \in Nat
      /\ loop[d].cursor \in Nat /\ loop[d].fetchFrom \in Nat /\ loop[d].cursor = saved[d].cursor
      /\ loop[d].cursor <= loop[d].fetchFrom /\ loop[d].fetchFrom <= loop[d].reply.cursor
  BY <1>1, LoopNumbers DEF TruthOK
<1>3. PICK n : n = NewSaved(d).cursor
  OBVIOUS
<1>4. /\ n \in Nat /\ n <= loop[d].reply.cursor
      /\ Blocked(d, loop[d]) # 0 => n = saved[d].cursor \/ n < Blocked(d, loop[d])
  BY <1>2, <1>3, NewSavedFacts
<1>5. SeenFrom(d, n)
  <2>1. ASSUME NEW r \in Row, Knows(d, r) PROVE AgreesAs(local[d][r], outbox[d][r], syncRows[r], n)
    <3>1. AgreesAs(local[d][r], outbox[d][r], syncRows[r], loop[d].reply.cursor)
      BY <1>1, <2>1 DEF TruthOK, BaseOK, BaseCursor
    <3>2. syncRows[r] # NoRow => syncRows[r].seq \in Nat
      BY <1>1, RowNumbers DEF Numbers
    <3> QED BY <1>2, <1>4, <3>1, <3>2, AgreesLess
  <2>2. ASSUME NEW r \in Kept, ~Knows(d, r) PROVE n < syncRows[r].seq
    <3>1. r \in Row /\ syncRows[r].seq \in Nat
      BY <1>1, KeptFacts DEF FeedInv
    <3>2. saved[d].cursor < syncRows[r].seq /\ r \notin DOMAIN loop[d].batch
      BY <1>1, <2>2, <3>1 DEF TruthOK, UnknownOK
    <3>3. CASE loop[d].reply.cursor < syncRows[r].seq
      BY <1>2, <1>4, <3>1, <3>3
    <3>4. CASE syncRows[r].seq <= loop[d].reply.cursor
      <4>1. [row |-> r, change |-> syncRows[r]] \in Pending(loop[d])
        BY <1>1, <3>2, <3>4, AtHand DEF PushedAs
      <4>2. /\ Blocked(d, loop[d]) \in Nat /\ Blocked(d, loop[d]) # 0
            /\ Blocked(d, loop[d]) <= syncRows[r].seq
        BY <1>2, <2>2, <4>1, BlockedFacts
      <4> QED BY <1>2, <1>4, <3>1, <3>2, <4>2
    <3> QED BY <1>2, <3>1, <3>3, <3>4
  <2> QED BY <2>1, <2>2 DEF SeenFrom
<1>6. CASE pc' = [pc EXCEPT ![d] = "idle"]
  <2>1. pc'[d] = "idle"
    BY <1>6 DEF EngineInv, TablesTyped
  <2> QED BY <1>1, <1>3, <1>5, <2>1, IdleTruth
<1>7. CASE /\ pc' = [pc EXCEPT ![d] = "sent"]
           /\ loop' = [loop EXCEPT ![d] = Pass(d, NewSaved(d).cursor, NewSaved(d).cursor,
                                               NewSaved(d).reseeding, {})]
  <2>1. pc'[d] = "sent" /\ loop'[d] = Pass(d, n, n, NewSaved(d).reseeding, {})
    BY <1>3, <1>7 DEF EngineInv, TablesTyped
  <2>2. \A r \in Kept : ~(n < syncRows[r].seq /\ syncRows[r].seq <= n)
    <3>1. \A r \in Kept : syncRows[r].seq \in Nat
      BY <1>1, KeptFacts DEF FeedInv
    <3> QED BY <1>4, <3>1
  <2> QED BY <1>1, <1>3, <1>4, <1>5, <2>1, <2>2, HeadTruth
<1> QED BY <1>6, <1>7 DEF SaveState

LEMMA UpdateTruth ==
  ASSUME EngineInv, NEW d \in Device, TruthOK(d), Update(d)
  PROVE  TruthOK(d)'
<1>1. /\ pc[d] = "idle" /\ pc' = pc /\ UNCHANGED <<syncRows, local, outbox>> /\ updated'[d] = TRUE
      /\ saved'[d].cursor \in {0, saved[d].cursor} /\ FeedInv
  BY DEF Update, EngineInv, TablesTyped, feedVars
<1>2. saved[d].cursor \in Nat /\ saved'[d].cursor \in Nat /\ saved'[d].cursor <= saved[d].cursor
  BY <1>1, LoopNumbers
<1>3. \A r \in Row : Knows(d, r)'
  BY <1>1 DEF Knows
<1>4. ASSUME NEW r \in Row PROVE AgreesAs(local[d][r], outbox[d][r], syncRows[r], saved'[d].cursor)
  <2>1. syncRows[r] # NoRow => r \in Kept /\ syncRows[r].seq \in Nat
    BY <1>1, RowNumbers DEF Numbers
  <2>2. CASE Knows(d, r)
    <3>1. AgreesAs(local[d][r], outbox[d][r], syncRows[r], saved[d].cursor)
      BY <1>1, <2>2 DEF TruthOK, BaseOK, BaseCursor
    <3> QED BY <1>2, <2>1, <3>1, AgreesLess
  <2>3. CASE ~Knows(d, r)
    <3>1. local[d][r] = NoRow /\ (r \in Kept => saved[d].cursor < syncRows[r].seq)
      BY <2>3 DEF TruthOK, UnknownOK
    <3>2. ~(syncRows[r] # NoRow /\ syncRows[r].seq <= saved'[d].cursor)
      BY <1>2, <2>1, <3>1
    <3> QED BY <3>1, <3>2 DEF AgreesAs
  <2> QED BY <2>2, <2>3
<1>5. Settled(d)' /\ DatesOf(d)'
  BY <1>1 DEF TruthOK, Settled, DatesOf
<1>6. \A r \in Row : BaseOK(d, r)' /\ UnknownOK(d, r)'
  BY <1>1, <1>3, <1>4 DEF BaseOK, BaseCursor, UnknownOK
<1> QED BY <1>1, <1>5, <1>6 DEF TruthOK

LEMMA EditTruth ==
  ASSUME EngineInv, NEW d \in Device, TruthOK(d), NEW r \in Row, NEW deleted \in BOOLEAN,
         Edit(d, r, deleted)
  PROVE  TruthOK(d)'
<1>0. /\ FeedInv /\ TablesTyped /\ OwnWrites(d) /\ now \in Nat
  BY DEF EngineInv, FeedInv, FeedTypeOK
<1>1. PICK at \in Busy :
        /\ at \in Nat /\ Elapse(at) /\ Knows(d, r)
        /\ local' = [local EXCEPT ![d][r] = IF deleted THEN NoRow ELSE EditRow(d, at)]
        /\ outbox' = [outbox EXCEPT ![d][r] = EditEntry(d, at, deleted)]
        /\ UNCHANGED <<saved, updated, pc, loop, orphans>>
        /\ EditEntry(d, at, deleted) \in Change
        /\ EditEntry(d, at, deleted).ts = at + Skew[d] /\ EditRow(d, at).stamp = at + Skew[d]
  BY EditSteps
<1>2. /\ outbox'[d][r] # NoRow /\ outbox'[d][r].ts = at + Skew[d]
      /\ \A s \in Row : s # r => outbox'[d][s] = outbox[d][s] /\ local'[d][s] = local[d][s]
      /\ local'[d][r] # NoRow => local'[d][r].stamp = at + Skew[d]
  BY <1>0, <1>1, EditAssumption DEF TablesTyped
<1>3. now < at /\ Skew[d] \in Nat /\ UNCHANGED <<syncRows, maxSeq, prunedBelow>>
  BY <1>1, EngineAssumption DEF Elapse
<1>4. Kept' = Kept /\ \A s \in Row : Knows(d, s)' <=> Knows(d, s)
  BY <1>1, <1>3 DEF Kept, Knows
<1>5. Settled(d)' /\ DatesOf(d)'
  <2>1. at + Skew[d] \in Nat
    BY <1>1, <1>3
  <2>2. \A s \in Row : local'[d][s] # NoRow => local'[d][s].stamp \in Nat
    BY <1>2, <2>1 DEF TruthOK, DatesOf
  <2> QED BY <1>1, <2>2 DEF TruthOK, Settled, DatesOf
<1>6. ASSUME NEW s \in Row PROVE BaseOK(d, s)' /\ UnknownOK(d, s)'
  <2>1. BaseOK(d, s) /\ UnknownOK(d, s) /\ BaseCursor(d)' = BaseCursor(d)
    BY <1>1 DEF TruthOK, BaseCursor
  <2>2. CASE s = r
    BY <1>1, <1>2, <1>4, <2>2 DEF BaseOK, UnknownOK, AgreesAs
  <2>3. CASE s # r
    BY <1>1, <1>2, <1>3, <1>4, <2>1, <2>3 DEF BaseOK, UnknownOK
  <2> QED BY <2>2, <2>3
<1>7. ASSUME pc[d] # "idle", NEW s \in DOMAIN loop[d].batch
      PROVE  loop[d].batch[s].ts \in Nat /\ loop[d].batch[s].ts < at + Skew[d]
  <2>1. Bounded(loop[d]) /\ Wrote(d, loop[d].batch[s])
    BY <1>0, <1>7, LoopNumbers DEF OwnWrites
  <2>2. loop[d].batch[s].ts \in Nat /\ loop[d].batch[s].ts <= now + Skew[d]
    BY <2>1, LoopDates DEF Wrote
  <2> QED BY <1>0, <1>1, <1>3, <2>2
<1>8. ASSUME pc[d] \in {"sent", "replied"}, NEW s \in Row PROVE StagedOK(d, s)'
  <2>1. StagedOK(d, s)
    BY <1>8 DEF TruthOK
  <2>2. CASE s = r
    <3> SUFFICES ASSUME r \in DOMAIN loop[d].batch PROVE StagedOK(d, r)'
      BY <1>1, <2>2 DEF StagedOK
    <3>1. /\ loop[d].batch[r].ts \in Nat /\ loop[d].batch[r].ts < at + Skew[d] /\ at + Skew[d] \in Nat
      BY <1>1, <1>3, <1>7, <1>8
    <3>2. /\ loop[d].batch[r].ts <= outbox'[d][r].ts /\ loop[d].batch[r].ts # outbox'[d][r].ts
      BY <1>2, <3>1
    <3> QED BY <1>1, <1>2, <3>2 DEF StagedOK, Staged
  <2>3. CASE s # r
    BY <1>1, <1>2, <2>1, <2>3 DEF StagedOK, Staged
  <2> QED BY <2>2, <2>3
<1>9. ASSUME pc[d] \in {"replied", "applied"}, NEW s \in Row PROVE TookOK(d, s)'
  <2>1. TookOK(d, s)
    BY <1>9 DEF TruthOK
  <2>2. CASE s = r
    <3>1. r \in DOMAIN loop[d].batch => outbox'[d][r].ts # loop[d].batch[r].ts
      <4> SUFFICES ASSUME r \in DOMAIN loop[d].batch PROVE outbox'[d][r].ts # loop[d].batch[r].ts
        OBVIOUS
      <4>1. /\ loop[d].batch[r].ts \in Nat /\ loop[d].batch[r].ts < at + Skew[d] /\ at + Skew[d] \in Nat
        BY <1>1, <1>3, <1>7, <1>9
      <4> QED BY <1>2, <4>1
    <3> QED BY <1>1, <1>3, <1>4, <2>1, <2>2, <3>1 DEF TookOK
  <2>3. CASE s # r
    BY <1>1, <1>2, <1>3, <1>4, <2>1, <2>3 DEF TookOK, Staged
  <2> QED BY <2>2, <2>3
<1>10. /\ pc[d] # "idle" => /\ (loop[d].cursor = saved[d].cursor)'
                            /\ BufferOK(d)' /\ \A s \in Row : HeldOK(d, s)'
       /\ pc[d] \in {"replied", "applied", "acked"} => ReplyOK(d)' /\ \A s \in Row : SentOK(d, s)'
  BY <1>1, <1>3, <1>4 DEF TruthOK, BufferOK, HeldOK, ReplyOK, SentOK, PushedAs
<1> QED BY <1>1, <1>5, <1>6, <1>8, <1>9, <1>10 DEF TruthOK

-----------------------------------------------------------------------------
LEMMA TruthInit == Init => TruthInv
<1> SUFFICES ASSUME Init PROVE TruthInv
  OBVIOUS
<1>1. /\ syncRows = [r \in Row |-> NoRow] /\ prunedBelow = 0
      /\ local = [d \in Device |-> NoRows] /\ outbox = [d \in Device |-> NoRows]
      /\ pc = [d \in Device |-> "idle"]
  BY DEF Init, FeedInit
<1>2. Kept = {}
  BY <1>1 DEF Kept
<1>3. ASSUME NEW d \in Device PROVE TruthOK(d)
  <2>1. /\ pc[d] = "idle"
        /\ \A r \in Row : local[d][r] = NoRow /\ outbox[d][r] = NoRow /\ syncRows[r] = NoRow
    BY <1>1 DEF NoRows
  <2>2. Settled(d) /\ DatesOf(d)
    BY <2>1 DEF Settled, DatesOf
  <2>3. \A r \in Row : BaseOK(d, r) /\ UnknownOK(d, r)
    BY <1>2, <2>1 DEF BaseOK, UnknownOK, AgreesAs
  <2> QED BY <2>1, <2>2, <2>3 DEF TruthOK
<1> QED BY <1>1, <1>2, <1>3 DEF TruthInv

\* A step that leaves the account's rows alone.
LEMMA RowsStay ==
  ASSUME EngineInv, UNCHANGED <<syncRows, maxSeq, prunedBelow>>
  PROVE  ServerGrows
<1>1. maxSeq \in Nat
  BY RowNumbers DEF EngineInv
<1> QED BY <1>1 DEF ServerGrows, GrowsAs

LEMMA TruthNext ==
  ASSUME ~Pruning, Clocks, EngineInv, TruthInv, [Next]_vars
  PROVE  TruthInv'
<1>0. /\ prunedBelow = 0 /\ (\A r \in Kept : Dated(syncRows[r])) /\ \A d \in Device : TruthOK(d)
      /\ FeedInv /\ TablesTyped
  BY DEF TruthInv, EngineInv
<1>1. ASSUME UNCHANGED <<syncRows, maxSeq, prunedBelow>>, \A d \in Device : TruthOK(d)' PROVE TruthInv'
  BY <1>0, <1>1 DEF TruthInv, Kept
<1>2. ASSUME UNCHANGED <<syncRows, maxSeq, prunedBelow>>, NEW e \in Device, Untouched(e), updated'[e] = updated[e]
      PROVE  TruthOK(e)'
  BY <1>0, <1>2, RowsStay, TruthLater
<1>3. ASSUME NEW d \in Device, NEW e \in Device, d # e,
             DeviceStep(d) \/ ServerStep(d) \/ Abandon(d) \/ Update(d)
      PROVE  Untouched(e) /\ updated'[e] = updated[e]
  BY <1>0, <1>3 DEF TablesTyped, Untouched, DeviceStep, ServerStep, StartSync, WipeForResync, SaveReset,
       BufferPage, ApplyServerChanges, AckOutbox, SaveState, Serve, Refuse, Abandon, Update
<1>4. ASSUME NEW d \in Device, Serve(d) PROVE TruthInv'
  <2>1. ServerGrows /\ (\A r \in Kept' : Dated(syncRows'[r])) /\ TruthOK(d)'
    BY <1>4, ServeTruth
  <2>2. \A e \in Device : TruthOK(e)'
    BY <1>0, <1>3, <1>4, <2>1, TruthLater DEF ServerStep
  <2> QED BY <1>0, <2>1, <2>2 DEF TruthInv, ServerGrows
<1>5. ASSUME NEW d \in Device, DeviceStep(d) \/ Refuse(d) \/ Abandon(d) \/ Update(d) PROVE TruthInv'
  <2>1. UNCHANGED <<syncRows, maxSeq, prunedBelow>>
    BY <1>5 DEF feedVars, DeviceStep, StartSync, WipeForResync, SaveReset, BufferPage,
                ApplyServerChanges, AckOutbox, SaveState, Refuse, Abandon, Update
  <2>2. ~WipeForResync(d) /\ ~SaveReset(d)
    BY <1>0 DEF WipeForResync, SaveReset, TruthOK, Settled
  <2>3. TruthOK(d)'
    BY <1>0, <1>5, <2>2, StartTruth, BufferTruth, ApplyTruth, AckTruth, SaveTruth, EndTruth, UpdateTruth
       DEF DeviceStep
  <2>4. \A e \in Device : TruthOK(e)'
    BY <1>2, <1>3, <1>5, <2>1, <2>3 DEF ServerStep
  <2> QED BY <1>1, <2>1, <2>4
<1>6. ASSUME NEW d \in Device, NEW r \in Row, NEW deleted \in BOOLEAN, Edit(d, r, deleted) PROVE TruthInv'
  <2>1. UNCHANGED <<syncRows, maxSeq, prunedBelow>>
    BY <1>6 DEF Edit, Elapse
  <2>2. TruthOK(d)'
    BY <1>0, <1>6, EditTruth
  <2>3. \A e \in Device : e # d => Untouched(e) /\ updated'[e] = updated[e]
    BY <1>0, <1>6 DEF Edit, TablesTyped, Untouched
  <2>4. \A e \in Device : TruthOK(e)'
    BY <1>2, <2>1, <2>2, <2>3
  <2> QED BY <1>1, <2>1, <2>4
<1>7. ASSUME NEW o \in orphans, ServeOrphan(o) PROVE TruthInv'
  <2>1. /\ SyncApply(o.from, o.request) /\ o.from \in Device /\ o.request \in Request
        /\ UNCHANGED <<local, outbox, saved, updated, pc, loop>>
    BY <1>7 DEF ServeOrphan, EngineInv, OrphansTyped
  <2>2. Carries(o.from, o.request)
    BY <2>1, RequestFacts DEF EngineInv, OrphanWrites, Carries
  <2>3. /\ ServerGrows
        /\ \A r \in Accepted(o.request) : Dated(syncRows'[r])
        /\ \A r \in Kept' : r \in Accepted(o.request) \/ (r \in Kept /\ syncRows'[r] = syncRows[r])
    <3>1. PICK d \in Device : d = o.from
      BY <2>1
    <3>2. PICK q \in Request : q = o.request
      BY <2>1
    <3> QED BY <1>0, <2>1, <2>2, <3>1, <3>2, TakenAsWritten
  <2>4. \A e \in Device : TruthOK(e)'
    BY <1>0, <2>1, <2>3, TruthLater DEF Untouched
  <2> QED BY <1>0, <2>3, <2>4 DEF TruthInv, ServerGrows
<1>8. ASSUME Leave \/ UNCHANGED vars PROVE TruthInv'
  <2>1. UNCHANGED <<syncRows, maxSeq, prunedBelow>> /\ UNCHANGED clientVars
    BY <1>8 DEF Leave, Elapse, vars, clientVars
  <2>2. \A e \in Device : TruthOK(e)'
    BY <1>2, <2>1 DEF Untouched, clientVars
  <2> QED BY <1>1, <2>1, <2>2
<1>9. ~Prune
  BY DEF Prune
<1> QED BY <1>4, <1>5, <1>6, <1>7, <1>8, <1>9 DEF Next, ServerStep

\* The cursor tells the truth: whatever a device's recorded cursor says it has
\* applied, its tables hold, deletes included, at every await of the loop and
\* after any crash, lost request, app update or repair, for any devices, page,
\* push and buffer sizes. Two things are asked: that nothing is pruned (with
\* pruning it can fail, and the run SyncPrune shows within which bounds it does
\* not), and that no clock is further ahead than the server puts up with.
THEOREM EngineTellsTruth == ASSUME ~Pruning, Clocks PROVE Spec => []CursorTellsTruth
<1>1. Init => EngineInv /\ TruthInv
  BY EngineInit, TruthInit
<1>2. EngineInv /\ TruthInv /\ [Next]_vars => EngineInv' /\ TruthInv'
  BY EngineNext, TruthNext
<1>3. EngineInv /\ TruthInv => CursorTellsTruth
  <2> SUFFICES ASSUME EngineInv, TruthInv, NEW d \in Device, NEW r \in Row, Heard(d, r)
               PROVE  Matches(d, r)
    BY DEF CursorTellsTruth
  <2>1. Knows(d, r) /\ outbox[d][r] = NoRow /\ (r \in Kept => syncRows[r].seq <= saved[d].cursor)
    BY DEF Heard, Staged
  <2>2. SeenFrom(d, saved[d].cursor)
    BY SeenSaved DEF TruthInv
  <2>3. AgreesAs(local[d][r], outbox[d][r], syncRows[r], saved[d].cursor)
    BY <2>1, <2>2 DEF SeenFrom
  <2>4. r \in Kept <=> syncRows[r] # NoRow
    BY DEF Kept
  <2>5. CASE r \in Kept
    BY <2>1, <2>3, <2>4, <2>5 DEF AgreesAs, Matches, Content0
  <2>6. CASE r \notin Kept
    BY <2>1, <2>3, <2>4, <2>6 DEF AgreesAs, Matches
  <2> QED BY <2>5, <2>6
<1> QED BY <1>1, <1>2, <1>3, PTL DEF Spec

=============================================================================
