-------------------------- MODULE PriceStore_proofs --------------------------
(***************************************************************************)
(* For any cards, lanes, days, prices, retention and number of failures:   *)
(* the archive is a price book (KeepsBook), its rows are well-formed, and  *)
(* what a job counts as done is there (DoneIsThere).                       *)
(*                                                                         *)
(* A row is known by its first day, its last day, and what At reads of it. *)
(* Its last day always has a price: that is what the book counts back from. *)
(***************************************************************************)
EXTENDS PriceStore, SequenceTheorems, WellFoundedInduction, TLAPS

Reading == {NoReading} \cup ({"ours", "theirs"} \X Day)

\* The lanes are as long as the row, or empty; what At reads is of the day.
Parallel(row) == \A l \in Lane :
  /\ row.cells[l] \in Seq(Reading)
  /\ \/ Len(row.cells[l]) = row.last - row.start + 1
     \/ l \in FoilLane /\ row.cells[l] = <<>>
Dated(row) == \A l \in Lane, d \in Day : At(row, l, d) # NoReading => At(row, l, d)[2] = d
Priced(row, d) == \E l \in Lane : At(row, l, d) # NoReading
ProperRow(row) ==
  /\ row.start \in Day /\ row.last \in Day
  /\ row.start <= row.last /\ row.last < row.start + Retention
  /\ Parallel(row) /\ Dated(row) /\ Priced(row, row.last)
RowOK(row) == row = NoRow \/ ProperRow(row)

-----------------------------------------------------------------------------
(***************************************************************************)
(* The first and the last day of a set of days.                            *)
(***************************************************************************)
\* A non-empty set of naturals has a least member.
LEMMA LeastExists ==
  ASSUME NEW S, S \subseteq Nat, S # {}
  PROVE  \E m \in S : \A n \in S : m <= n
<1>1. PICK m \in S : \A n \in S : ~(<<n, m>> \in OpToRel(<, Nat))
  BY NatLessThanWellFounded, WFMin
<1>2. ASSUME NEW n \in S PROVE m <= n
  <2>1. n \in Nat /\ m \in Nat
    OBVIOUS
  <2>2. ~(n < m)
    BY <1>1, <2>1, <<n, m>> \in Nat \X Nat, Zenon DEF OpToRel
  <2> QED BY <2>1, <2>2
<1> QED BY <1>2

\* A non-empty set of naturals with a bound has a greatest member.
LEMMA GreatestExists ==
  ASSUME NEW S, S \subseteq Nat, S # {}, NEW b \in Nat, \A n \in S : n <= b
  PROVE  \E m \in S : \A n \in S : n <= m
<1> DEFINE T == {k \in Nat : \E n \in S : k + n = b}
<1>1. T \subseteq Nat
  OBVIOUS
<1>2. T # {}
  <2>1. PICK n \in S : TRUE
    OBVIOUS
  <2>2. n \in Nat /\ n <= b
    BY <2>1
  <2>3. b - n \in Nat /\ (b - n) + n = b
    BY <2>2
  <2>4. b - n \in T
    BY <2>1, <2>3
  <2> QED BY <2>4
<1>3. PICK t \in T : \A u \in T : t <= u
  <2> HIDE DEF T
  <2> QED BY <1>1, <1>2, LeastExists
<1>4. PICK m \in S : t + m = b
  BY <1>3
<1>5. ASSUME NEW n \in S PROVE n <= m
  <2>1. n \in Nat /\ m \in Nat /\ n <= b
    OBVIOUS
  <2>2. b - n \in T
    BY <2>1
  <2>3. t <= b - n
    BY <1>3, <2>2
  <2> QED BY <1>4, <2>1, <2>3
<1> QED BY <1>5

-----------------------------------------------------------------------------
(***************************************************************************)
(* Rows and lanes.                                                         *)
(***************************************************************************)
\* There is a lane that is never left empty, and it tells how long the row is.
LEMMA RowLenIs ==
  ASSUME NEW row, Parallel(row), row.last - row.start + 1 \in Nat
  PROVE  RowLen(row) = row.last - row.start + 1
<1>1. \E l \in Lane \ FoilLane : TRUE
  BY PriceAssumption
<1>2. (CHOOSE l \in Lane \ FoilLane : TRUE) \in Lane \ FoilLane
  BY <1>1
<1> QED BY <1>2 DEF RowLen, Parallel

\* Nothing is read of a card without a row.
LEMMA NoRowBlank ==
  /\ \A l \in Lane : NoRow.cells[l] = <<>>
  /\ \A l \in Lane, d \in Day : At(NoRow, l, d) = NoReading
  /\ \A row : ProperRow(row) => row # NoRow
<1>1. \A l \in Lane : NoRow.cells[l] = <<>>
  BY DEF NoRow
<1>2. \A l \in Lane, d \in Day : At(NoRow, l, d) = NoReading
  BY <1>1 DEF At
<1>3. \A row : ProperRow(row) => row # NoRow
  BY DEF ProperRow, NoRow, Day
<1> QED BY <1>1, <1>2, <1>3

\* A row is read where a lane has a cell, and what is read there is a reading.
LEMMA AtFacts ==
  ASSUME NEW row, ProperRow(row), NEW l \in Lane, NEW d \in Day
  PROVE  /\ At(row, l, d) \in Reading
         /\ At(row, l, d) # NoReading => d \in row.start..row.last
         /\ d \in row.start..row.last /\ row.cells[l] # <<>>
              => At(row, l, d) = row.cells[l][d - row.start + 1]
<1> DEFINE i == d - row.start + 1
           lane == row.cells[l]
<1>1. lane \in Seq(Reading) /\ row.start \in Nat /\ row.last \in Nat /\ d \in Nat /\ i \in Int
  BY DEF ProperRow, Parallel, Day
<1>2. lane = <<>> \/ Len(lane) = row.last - row.start + 1
  BY DEF ProperRow, Parallel
<1>3. At(row, l, d) = IF i \in DOMAIN lane THEN lane[i] ELSE NoReading
  BY DEF At
<1>4. DOMAIN lane = 1..Len(lane) /\ \A j \in 1..Len(lane) : lane[j] \in Reading
  BY <1>1
<1>5. NoReading \in Reading
  BY DEF Reading
<1> HIDE DEF lane
<1> QED BY <1>1, <1>2, <1>3, <1>4, <1>5 DEF lane

\* A lane is padded with blanks up to the cell of a later day.
LEMMA PadToFacts ==
  ASSUME NEW prev \in Seq(Reading), NEW gap \in Nat, NEW value \in Reading
  PROVE  /\ PadTo(prev, gap, value) \in Seq(Reading)
         /\ Len(PadTo(prev, gap, value)) = Len(prev) + gap + 1
         /\ \A i \in 1..(Len(prev) + gap + 1) : PadTo(prev, gap, value)[i] =
              IF i <= Len(prev) THEN prev[i] ELSE IF i <= Len(prev) + gap THEN NoReading ELSE value
<1> DEFINE blank == Blank(gap)
<1>1. blank \in Seq(Reading) /\ Len(blank) = gap /\ \A i \in 1..gap : blank[i] = NoReading
  BY DEF Blank, Reading
<1> HIDE DEF blank
<1>2. <<value>> \in Seq(Reading) /\ Len(<<value>>) = 1 /\ <<value>>[1] = value
  OBVIOUS
<1>3. /\ prev \o blank \in Seq(Reading) /\ Len(prev \o blank) = Len(prev) + gap
      /\ \A i \in 1..(Len(prev) + gap) : (prev \o blank)[i] = IF i <= Len(prev) THEN prev[i] ELSE NoReading
  BY <1>1
<1> DEFINE front == prev \o blank
<1> HIDE DEF front
<1>4. front \in Seq(Reading) /\ Len(front) = Len(prev) + gap
      /\ \A i \in 1..(Len(prev) + gap) : front[i] = IF i <= Len(prev) THEN prev[i] ELSE NoReading
  BY <1>3 DEF front
<1> DEFINE end == <<value>>
<1>5. PadTo(prev, gap, value) = front \o end
  BY DEF PadTo, front, blank
<1>6. end \in Seq(Reading) /\ Len(end) = 1 /\ end[1] = value
  BY <1>2
<1> HIDE DEF end
<1>7. /\ front \o end \in Seq(Reading) /\ Len(front \o end) = Len(front) + 1
      /\ \A i \in 1..(Len(front) + 1) : (front \o end)[i] = IF i <= Len(front) THEN front[i] ELSE value
  <2>0. /\ front \o end \in Seq(Reading) /\ Len(front \o end) = Len(front) + Len(end)
        /\ \A i \in 1..(Len(front) + Len(end)) :
             (front \o end)[i] = IF i <= Len(front) THEN front[i] ELSE end[i - Len(front)]
    BY <1>4, <1>6, ConcatProperties, Zenon
  <2>4. Len(front) \in Nat
    BY <1>4
  <2> DEFINE w == front \o end
  <2> HIDE DEF w
  <2>1. w \in Seq(Reading) /\ Len(w) = Len(front) + 1
    BY <1>6, <2>0 DEF w
  <2>2. ASSUME NEW i \in 1..Len(front) PROVE w[i] = front[i]
    BY <1>6, <2>0, <2>4 DEF w
  <2>3. w[Len(front) + 1] = end[1]
    <3>1. Len(front) + 1 \in 1..(Len(front) + Len(end)) /\ (Len(front) + 1) - Len(front) = 1
      BY <1>6, <2>4
    <3> QED BY <2>0, <2>4, <3>1 DEF w
  <2>5. \A i \in 1..(Len(front) + 1) : w[i] = IF i <= Len(front) THEN front[i] ELSE value
    BY <1>6, <2>2, <2>3, <2>4
  <2> QED BY <2>1, <2>5 DEF w
<1>8. Len(prev) \in Nat
  OBVIOUS
<1> DEFINE w == front \o end
<1> HIDE DEF w
<1>9. ASSUME NEW i \in 1..(Len(prev) + gap + 1)
      PROVE  w[i] = IF i <= Len(prev) THEN prev[i] ELSE IF i <= Len(prev) + gap THEN NoReading ELSE value
  <2>1. CASE i <= Len(prev) + gap
    BY <1>4, <1>7, <1>8, <2>1 DEF w
  <2>2. CASE i > Len(prev) + gap
    BY <1>4, <1>7, <1>8, <2>2 DEF w
  <2> QED BY <1>8, <2>1, <2>2
<1>10. w \in Seq(Reading) /\ Len(w) = Len(prev) + gap + 1
  BY <1>4, <1>7 DEF w
<1> QED BY <1>5, <1>9, <1>10 DEF w

-----------------------------------------------------------------------------
(***************************************************************************)
(* appendDay: a row goes on to the day, and loses what is too old for it.  *)
(***************************************************************************)
Cells(day) == [Lane -> {NoReading, <<"ours", day>>}]
DropOf(row, day) == Trimmed(day - row.start + 1)

\* The part of a lane behind its first cells.
LEMMA CutFacts ==
  ASSUME NEW s, NEW a \in Nat, NEW b \in Nat, a < b, \A i \in (a + 1)..b : s[i] \in Reading
  PROVE  /\ SubSeq(s, a + 1, b) \in Seq(Reading) /\ Len(SubSeq(s, a + 1, b)) = b - a
         /\ \A i \in 1..(b - a) : SubSeq(s, a + 1, b)[i] = s[a + i]
<1> DEFINE m == a + 1
           w == SubSeq(s, m, b)
<1>1. m \in Int /\ b \in Int /\ m <= b
  OBVIOUS
<1>2. \A i \in m..b : s[i] \in Reading
  OBVIOUS
<1>3. m = a + 1
  OBVIOUS
<1> HIDE DEF m
<1>4. /\ w \in Seq(Reading) /\ Len(w) = IF m <= b THEN b - m + 1 ELSE 0
      /\ \A i \in 1..(b - m + 1) : w[i] = s[m + i - 1]
  BY <1>1, <1>2, SubSeqProperties
<1> HIDE DEF w
<1>5. ASSUME NEW i \in 1..(b - a) PROVE w[i] = s[a + i]
  <2>1. i \in 1..(b - m + 1) /\ m + i - 1 = a + i
    BY <1>3
  <2> QED BY <1>4, <2>1
<1>6. Len(w) = b - a
  BY <1>1, <1>3, <1>4
<1> QED BY <1>4, <1>5, <1>6 DEF w, m

\* How much it loses.
LEMMA DropFacts ==
  ASSUME NEW row, ProperRow(row), NEW day \in Day, row.last < day
  PROVE  /\ DropOf(row, day) \in Nat /\ row.start + DropOf(row, day) \in Day
         /\ row.start + DropOf(row, day) <= day /\ day < row.start + DropOf(row, day) + Retention
         /\ DropOf(row, day) # 0 => row.start + DropOf(row, day) = day - Retention + 1
<1> DEFINE start == row.start
           last == row.last
<1>1. /\ MaxDay \in Nat /\ Retention \in Nat /\ Retention > 0
      /\ start \in 1..MaxDay /\ last \in 1..MaxDay /\ day \in 1..MaxDay
      /\ start <= last /\ last < day
  <2>1. MaxDay \in Nat /\ Retention \in Nat /\ Retention > 0
    BY PriceAssumption, Zenon
  <2> QED BY <2>1 DEF ProperRow, Day
<1> DEFINE days == day - row.start + 1
           drop == IF days > Retention THEN days - Retention ELSE 0
<1>2. DropOf(row, day) = drop /\ days = day - start + 1
  BY DEF DropOf, Trimmed
<1> HIDE DEF start, last, days
<1>3. /\ drop \in Nat /\ start + drop \in 1..MaxDay /\ start + drop <= day
      /\ day < start + drop + Retention /\ (drop # 0 => start + drop = day - Retention + 1)
  BY <1>1, <1>2
<1> HIDE DEF drop
<1> QED BY <1>2, <1>3 DEF start, Day

\* One lane of it: q is what the lane of a row becomes on a day.
GoesOn(row, day, cells, l, q) ==
  LET days == day - row.start + 1
      drop == DropOf(row, day)
  IN  /\ q \in Seq(Reading)
      /\ \/ l \in FoilLane /\ row.cells[l] = <<>> /\ cells[l] = NoReading /\ q = <<>>
         \/ /\ Len(q) = days - drop
            /\ \A i \in 1..(days - drop) : q[i] =
                 IF drop + i = days THEN cells[l]
                 ELSE IF drop + i <= row.last - row.start + 1 /\ row.cells[l] # <<>>
                      THEN row.cells[l][drop + i] ELSE NoReading
LEMMA LaneAppended ==
  ASSUME NEW row, ProperRow(row), NEW day \in Day, NEW cells \in Cells(day), row.last < day, NEW l \in Lane
  PROVE  GoesOn(row, day, cells, l, Appended(row, day, cells).cells[l])
<1> DEFINE len == row.last - row.start + 1
           gap == day - row.start - len
           days == day - row.start + 1
           drop == DropOf(row, day)
           prev == IF row.cells[l] # <<>> THEN row.cells[l] ELSE Blank(len)
           lane == IF row.cells[l] # <<>> THEN PadTo(row.cells[l], gap, cells[l])
                   ELSE IF cells[l] = NoReading THEN <<>>
                   ELSE PadTo(Blank(len), gap, cells[l])
           q == Appended(row, day, cells).cells[l]
<1>1. /\ row.start \in Nat /\ row.last \in Nat /\ day \in Nat /\ row.start <= row.last
      /\ len \in Nat /\ len > 0 /\ gap \in Nat /\ days \in Nat /\ days = len + gap + 1
      /\ drop \in Nat /\ drop < days
  BY DropFacts DEF ProperRow, Day
<1>2. RowLen(row) = len
  BY <1>1, RowLenIs DEF ProperRow
<1>3. row # NoRow /\ ~AlreadyThere(row, day)
  <2>1. row # NoRow
    BY NoRowBlank, Zenon
  <2>2. ~(day - row.start < len)
    BY <1>1
  <2> QED BY <1>2, <2>1, <2>2 DEF AlreadyThere
<1>4. q = SubSeq(lane, drop + 1, Len(lane))
  BY <1>2, <1>3 DEF Appended, DropOf
<1>5. row.cells[l] \in Seq(Reading) /\ cells[l] \in Reading
  BY DEF ProperRow, Parallel, Cells, Reading
<1>6. /\ prev \in Seq(Reading) /\ Len(prev) = len
      /\ \A i \in 1..len : prev[i] = IF row.cells[l] # <<>> THEN row.cells[l][i] ELSE NoReading
  <2>1. CASE row.cells[l] # <<>>
    BY <1>5, <2>1 DEF ProperRow, Parallel
  <2>2. CASE row.cells[l] = <<>>
    BY <1>1, <2>2 DEF Blank, Reading
  <2> QED BY <2>1, <2>2
<1>7. CASE row.cells[l] = <<>> /\ cells[l] = NoReading
  <2>1. lane = <<>> /\ Len(lane) < drop + 1
    BY <1>1, <1>7
  <2>2. q = <<>>
    BY <1>1, <1>4, <2>1, SubSeqEmpty
  <2>3. CASE l \in FoilLane
    BY <1>7, <2>2, <2>3 DEF GoesOn
  <2>4. CASE l \notin FoilLane
    <3>1. Len(row.cells[l]) = len
      BY <2>4 DEF ProperRow, Parallel
    <3> QED BY <1>1, <1>7, <3>1
  <2> QED BY <2>3, <2>4
<1>8. CASE row.cells[l] # <<>> \/ cells[l] # NoReading
  <2>1. lane = PadTo(prev, gap, cells[l])
    BY <1>8
  <2> HIDE DEF lane, prev
  <2>2. /\ lane \in Seq(Reading) /\ Len(lane) = days
        /\ \A i \in 1..days : lane[i] =
             IF i <= len THEN prev[i] ELSE IF i <= len + gap THEN NoReading ELSE cells[l]
    <3> HIDE DEF days, gap, len, drop
    <3>1. /\ PadTo(prev, gap, cells[l]) \in Seq(Reading)
          /\ Len(PadTo(prev, gap, cells[l])) = Len(prev) + gap + 1
          /\ \A i \in 1..(Len(prev) + gap + 1) : PadTo(prev, gap, cells[l])[i] =
               IF i <= Len(prev) THEN prev[i] ELSE IF i <= Len(prev) + gap THEN NoReading ELSE cells[l]
      <4>1. prev \in Seq(Reading) /\ gap \in Nat /\ cells[l] \in Reading
        BY <1>1, <1>5, <1>6
      <4> QED BY <4>1, PadToFacts, Zenon
    <3> QED BY <1>1, <1>6, <2>1, <3>1
  <2> HIDE DEF days, gap, len, drop
  <2>3. q = SubSeq(lane, drop + 1, days)
    BY <1>4, <2>2
  <2>4. \A i \in (drop + 1)..days : lane[i] \in Reading
    BY <1>1, <2>2
  <2>5. /\ q \in Seq(Reading) /\ Len(q) = days - drop
        /\ \A i \in 1..(days - drop) : q[i] = lane[drop + i]
    <3>1. drop \in Nat /\ days \in Nat /\ drop < days
      BY <1>1
    <3> DEFINE cut == SubSeq(lane, drop + 1, days)
    <3>2. /\ cut \in Seq(Reading) /\ Len(cut) = days - drop
          /\ \A i \in 1..(days - drop) : cut[i] = lane[drop + i]
      BY <2>4, <3>1, CutFacts, Zenon
    <3>3. q = cut
      BY <2>3
    <3> HIDE DEF cut, q
    <3> QED BY <3>2, <3>3
  <2> HIDE DEF q
  <2>6. ASSUME NEW i \in 1..(days - drop)
        PROVE  q[i] = IF drop + i = days THEN cells[l]
                      ELSE IF drop + i <= len /\ row.cells[l] # <<>> THEN row.cells[l][drop + i] ELSE NoReading
    <3> DEFINE j == drop + i
    <3>1. j \in 1..days /\ q[i] = lane[j]
      BY <1>1, <2>5
    <3>2. j \in Nat /\ j >= 1 /\ j <= days /\ len \in Nat /\ gap \in Nat /\ days = len + gap + 1
      BY <1>1, <3>1
    <3> HIDE DEF j
    <3>3. lane[j] = IF j <= len THEN prev[j] ELSE IF j <= len + gap THEN NoReading ELSE cells[l]
      BY <2>2, <3>1
    <3>4. CASE j <= len
      <4>1. j \in 1..len /\ j # days
        BY <3>2, <3>4
      <4>2. prev[j] = IF row.cells[l] # <<>> THEN row.cells[l][j] ELSE NoReading
        BY <1>6, <4>1, Zenon
      <4> QED BY <3>1, <3>3, <3>4, <4>1, <4>2 DEF j
    <3>5. CASE j > len /\ j # days
      <4>1. ~(j <= len) /\ j <= len + gap
        BY <3>2, <3>5
      <4> QED BY <3>1, <3>3, <3>5, <4>1 DEF j
    <3>6. CASE j > len /\ j = days
      <4>1. ~(j <= len) /\ ~(j <= len + gap)
        BY <3>2, <3>6
      <4> QED BY <3>1, <3>3, <3>6, <4>1 DEF j
    <3> QED BY <3>2, <3>4, <3>5, <3>6
  <2> QED BY <2>5, <2>6 DEF q, days, drop, len, GoesOn
<1> QED BY <1>7, <1>8

-----------------------------------------------------------------------------
\* What is read of a row stays, unless it is too old for the row as it is now.
Keeps(row, new) == \A l \in Lane, d \in Day : At(row, l, d) # NoReading =>
  \/ At(new, l, d) = At(row, l, d)
  \/ At(new, l, d) = NoReading /\ d <= new.last - Retention

\* The first day of a card.
LEMMA FirstDay ==
  ASSUME NEW day \in Day, NEW cells \in Cells(day), \E l \in Lane : cells[l] # NoReading
  PROVE  /\ ProperRow(Appended(NoRow, day, cells)) /\ Appended(NoRow, day, cells).last = day
         /\ Keeps(NoRow, Appended(NoRow, day, cells))
         /\ \A l \in Lane, d \in Day : At(Appended(NoRow, day, cells), l, d) = IF d = day THEN cells[l] ELSE NoReading
<1> DEFINE new == Appended(NoRow, day, cells)
           q(l) == IF l \in FoilLane /\ cells[l] = NoReading THEN <<>> ELSE <<cells[l]>>
<1>1. new.start = day /\ new.last = day /\ \A l \in Lane : new.cells[l] = q(l)
  BY DEF Appended
<1>2. \A l \in Lane : cells[l] \in {NoReading, <<"ours", day>>} /\ cells[l] \in Reading
  BY DEF Cells, Reading
<1>3. \A l \in Lane : q(l) \in Seq(Reading) /\ (Len(q(l)) = 1 \/ (l \in FoilLane /\ q(l) = <<>>))
  <2> TAKE l \in Lane
  <2>1. CASE l \in FoilLane /\ cells[l] = NoReading
    BY <2>1
  <2>2. CASE ~(l \in FoilLane /\ cells[l] = NoReading)
    <3>1. q(l) = <<cells[l]>> /\ cells[l] \in Reading
      BY <1>2, <2>2
    <3> QED BY <3>1
  <2> QED BY <2>1, <2>2
<1>4. day \in Nat /\ day - day + 1 = 1
  BY DEF Day
<1>5. Parallel(new)
  BY <1>1, <1>3, <1>4 DEF Parallel
<1>6. \A l \in Lane, d \in Day : At(new, l, d) = IF d = day THEN cells[l] ELSE NoReading
  <2> TAKE l \in Lane, d \in Day
  <2> DEFINE i == d - day + 1
             lane == q(l)
  <2>1. At(new, l, d) = IF i \in DOMAIN lane THEN lane[i] ELSE NoReading
    BY <1>1 DEF At
  <2>2. d \in Nat /\ (i = 1 <=> d = day)
    BY <1>4 DEF Day
  <2>3. CASE l \in FoilLane /\ cells[l] = NoReading
    BY <2>1, <2>3
  <2>4. CASE ~(l \in FoilLane /\ cells[l] = NoReading)
    <3>1. lane = <<cells[l]>>
      BY <2>4
    <3>2. DOMAIN lane = {1} /\ lane[1] = cells[l]
      BY <3>1
    <3> HIDE DEF i, lane
    <3> QED BY <2>1, <2>2, <3>2
  <2> QED BY <2>3, <2>4
<1> HIDE DEF new
<1>7. Dated(new)
  BY <1>2, <1>6 DEF Dated
<1>8. Priced(new, new.last)
  BY <1>1, <1>6 DEF Priced
<1>9. ProperRow(new) /\ new.last = day
  BY <1>1, <1>4, <1>5, <1>7, <1>8, PriceAssumption DEF ProperRow
<1>10. Keeps(NoRow, new)
  BY NoRowBlank DEF Keeps
<1> QED BY <1>6, <1>9, <1>10 DEF new

\* What is read of a row that goes on: the day it got, and what was there before.
LEMMA ReadAppended ==
  ASSUME NEW row, ProperRow(row), NEW day \in Day, NEW cells \in Cells(day), row.last < day,
         NEW l \in Lane, NEW d \in Day
  PROVE  LET new == Appended(row, day, cells) IN
         At(new, l, d) = IF d = day THEN cells[l]
                         ELSE IF d < row.start + DropOf(row, day) THEN NoReading ELSE At(row, l, d)
<1> DEFINE new == Appended(row, day, cells)
           q == new.cells[l]
           days == day - row.start + 1
           drop == DropOf(row, day)
           i == d - new.start + 1
           last == row.last - row.start + 1
<1>1. /\ q \in Seq(Reading)
      /\ \/ l \in FoilLane /\ row.cells[l] = <<>> /\ cells[l] = NoReading /\ q = <<>>
         \/ /\ Len(q) = days - drop
            /\ \A j \in 1..(days - drop) : q[j] =
                 IF drop + j = days THEN cells[l]
                 ELSE IF drop + j <= last /\ row.cells[l] # <<>> THEN row.cells[l][drop + j] ELSE NoReading
  <2>1. GoesOn(row, day, cells, l, q)
    BY LaneAppended, Zenon
  <2> HIDE DEF q, new
  <2> QED BY <2>1 DEF GoesOn
<1>2. new.start = row.start + drop
  <2>1. row.start \in Nat /\ row.last \in Nat /\ day \in Nat /\ RowLen(row) = row.last - row.start + 1
    BY RowLenIs DEF ProperRow, Day
  <2>2. ~AlreadyThere(row, day) /\ row # NoRow
    BY <2>1, NoRowBlank DEF AlreadyThere
  <2> QED BY <2>2 DEF Appended, DropOf
<1>3. At(new, l, d) = IF i \in DOMAIN q THEN q[i] ELSE NoReading
  BY DEF At
<1>4. /\ row.start \in Nat /\ row.last \in Nat /\ day \in Nat /\ drop \in Nat /\ d \in Nat
      /\ row.start <= row.last /\ row.start + drop <= day
  BY DropFacts DEF ProperRow, Day
<1>5. /\ At(row, l, d) # NoReading => d \in row.start..row.last
      /\ d \in row.start..row.last /\ row.cells[l] # <<>> => At(row, l, d) = row.cells[l][d - row.start + 1]
  BY AtFacts
<1>6. row.cells[l] = <<>> => At(row, l, d) = NoReading
  BY DEF At
<1> HIDE DEF q, drop, new
<1>7. CASE q = <<>> /\ row.cells[l] = <<>> /\ cells[l] = NoReading
  BY <1>3, <1>6, <1>7 DEF new, drop
<1>8. CASE /\ Len(q) = days - drop
           /\ \A j \in 1..(days - drop) : q[j] =
                IF drop + j = days THEN cells[l]
                ELSE IF drop + j <= last /\ row.cells[l] # <<>> THEN row.cells[l][drop + j] ELSE NoReading
  <2>1. DOMAIN q = 1..(days - drop)
    BY <1>1, <1>8
  <2>2. i = d - row.start - drop + 1 /\ i \in Int /\ drop + i = d - row.start + 1
    BY <1>2, <1>4
  <2>3. CASE i \in 1..(days - drop)
    <3>1. /\ row.start + drop <= d /\ d <= day /\ row.start <= d
          /\ (drop + i = days <=> d = day) /\ (drop + i <= last <=> d <= row.last)
      BY <1>4, <2>2, <2>3
    <3>2. At(new, l, d) = IF drop + i = days THEN cells[l]
            ELSE IF drop + i <= last /\ row.cells[l] # <<>> THEN row.cells[l][drop + i] ELSE NoReading
      BY <1>3, <1>8, <2>1, <2>3, Zenon
    <3>3. ~(d < row.start + drop)
      BY <1>4, <3>1
    <3>4. CASE d = day
      BY <3>1, <3>2, <3>4 DEF new
    <3>5. CASE d # day /\ d <= row.last /\ row.cells[l] # <<>>
      <4>1. d \in row.start..row.last
        BY <1>4, <3>1, <3>5
      <4>2. At(new, l, d) = row.cells[l][d - row.start + 1]
        BY <2>2, <3>1, <3>2, <3>5
      <4> QED BY <1>5, <3>3, <3>5, <4>1, <4>2 DEF new, drop
    <3>6. CASE d # day /\ (~(d <= row.last) \/ row.cells[l] = <<>>)
      <4>1. At(new, l, d) = NoReading
        BY <3>1, <3>2, <3>6
      <4>2. At(row, l, d) = NoReading
        BY <1>4, <1>5, <1>6, <3>6
      <4> QED BY <3>3, <3>6, <4>1, <4>2 DEF new, drop
    <3> QED BY <3>4, <3>5, <3>6
  <2>4. CASE i \notin 1..(days - drop)
    <3>1. At(new, l, d) = NoReading
      BY <1>3, <2>1, <2>4
    <3>2. d # day /\ (d < row.start + drop \/ d > day)
      BY <1>4, <2>2, <2>4
    <3>3. d > day => At(row, l, d) = NoReading
      BY <1>4, <1>5
    <3> QED BY <3>1, <3>2, <3>3 DEF new, drop
  <2> QED BY <2>3, <2>4
<1> QED BY <1>1, <1>7, <1>8 DEF new

\* Appending makes a proper row that reaches to the day and keeps what it has.
LEMMA AppendedOK ==
  ASSUME NEW row, RowOK(row), NEW day \in Day, NEW cells \in Cells(day), \E l \in Lane : cells[l] # NoReading
  PROVE  LET new == Appended(row, day, cells) IN
         /\ ProperRow(new) /\ new.last >= day /\ Keeps(row, new)
         /\ ProperRow(row) => new.last >= row.last
<1> DEFINE new == Appended(row, day, cells)
<1>1. CASE row = NoRow
  <2>1. ProperRow(new) /\ new.last = day /\ Keeps(row, new)
    BY <1>1, FirstDay
  <2> QED BY <1>1, <2>1, NoRowBlank DEF ProperRow, Day
<1>2. CASE ProperRow(row) /\ day <= row.last
  <2>1. row.start \in Nat /\ row.last \in Nat /\ day \in Nat /\ RowLen(row) = row.last - row.start + 1
    BY <1>2, RowLenIs DEF ProperRow, Day
  <2>2. AlreadyThere(row, day) /\ row # NoRow
    BY <1>2, <2>1, NoRowBlank DEF AlreadyThere
  <2>3. new = row
    BY <2>2 DEF Appended
  <2> QED BY <1>2, <2>1, <2>3 DEF Keeps
<1>3. CASE ProperRow(row) /\ row.last < day
  <2> DEFINE drop == DropOf(row, day)
             days == day - row.start + 1
  <2>1. row.start \in Nat /\ row.last \in Nat /\ day \in Nat /\ RowLen(row) = row.last - row.start + 1
    BY <1>3, RowLenIs DEF ProperRow, Day
  <2>2. ~AlreadyThere(row, day) /\ row # NoRow
    BY <1>3, <2>1, NoRowBlank DEF AlreadyThere
  <2>3. new.start = row.start + drop /\ new.last = day
    BY <2>2 DEF Appended, DropOf
  <2>4. /\ drop \in Nat /\ row.start + drop \in Day /\ row.start + drop <= day
        /\ day < row.start + drop + Retention /\ (drop # 0 => row.start + drop = day - Retention + 1)
    BY <1>3, DropFacts
  <2>5. \A l \in Lane, d \in Day :
          At(new, l, d) = IF d = day THEN cells[l] ELSE IF d < row.start + drop THEN NoReading ELSE At(row, l, d)
    BY <1>3, ReadAppended
  <2>6. \A l \in Lane : /\ new.cells[l] \in Seq(Reading)
                        /\ \/ Len(new.cells[l]) = days - drop
                           \/ l \in FoilLane /\ new.cells[l] = <<>>
    <3> TAKE l \in Lane
    <3>1. GoesOn(row, day, cells, l, new.cells[l])
      BY <1>3, LaneAppended, Zenon
    <3> DEFINE q == new.cells[l]
    <3> HIDE DEF q, new
    <3>2. GoesOn(row, day, cells, l, q)
      BY <3>1 DEF q
    <3>3. q \in Seq(Reading) /\ (Len(q) = days - drop \/ (l \in FoilLane /\ q = <<>>))
      BY <3>2 DEF GoesOn
    <3> QED BY <3>3 DEF q
  <2>7. new.last - new.start + 1 = days - drop
    BY <2>1, <2>3, <2>4
  <2>8. Parallel(new)
    BY <2>6, <2>7 DEF Parallel
  <2> HIDE DEF new, drop
  <2>9. Dated(new)
    BY <1>3, <2>5 DEF Dated, Cells, ProperRow
  <2>10. Priced(new, new.last)
    BY <2>3, <2>5 DEF Priced
  <2>11. Keeps(row, new)
    <3> SUFFICES ASSUME NEW l \in Lane, NEW d \in Day, At(row, l, d) # NoReading
                 PROVE  \/ At(new, l, d) = At(row, l, d)
                        \/ At(new, l, d) = NoReading /\ d <= new.last - Retention
      BY DEF Keeps
    <3>1. d \in row.start..row.last
      BY <1>3, AtFacts
    <3>2. d # day /\ (d < row.start + drop => drop # 0)
      BY <1>3, <2>1, <2>4, <3>1
    <3>3. d < row.start + drop => d <= day - Retention
      BY <2>1, <2>4, <3>1, <3>2, PriceAssumption
    <3> QED BY <2>3, <2>5, <3>2, <3>3
  <2>12. ProperRow(new)
    BY <2>3, <2>4, <2>8, <2>9, <2>10 DEF ProperRow
  <2> QED BY <1>3, <2>1, <2>3, <2>11, <2>12 DEF new
<1> QED BY <1>1, <1>2, <1>3, NoRowBlank DEF RowOK, ProperRow, Day

-----------------------------------------------------------------------------
(***************************************************************************)
(* spliceHistories: a row goes on both ways, and what it has stays.        *)
(***************************************************************************)
Readings(R) ==
  /\ DOMAIN R \subseteq Day /\ DOMAIN R # {}
  /\ \A d \in DOMAIN R : /\ \A l \in Lane : R[d][l] \in {NoReading, <<"theirs", d>>}
                         /\ \E l \in Lane : R[d][l] # NoReading

\* Where the days of a row and of the readings begin and end.
Span(row, R) == DOMAIN R \cup (IF row = NoRow THEN {} ELSE {row.start, row.start + RowLen(row) - 1})
LastOf(row, R) == Max(Span(row, R))
StartOf(row, R) == Max({Min(Span(row, R)), LastOf(row, R) - Retention + 1})

\* The new span holds the days of the row and of the readings, but for those the
\* retention cuts off.
LEMMA SpanFacts ==
  ASSUME NEW row, RowOK(row), NEW R, Readings(R)
  PROVE  /\ Span(row, R) = DOMAIN R \cup (IF row = NoRow THEN {} ELSE {row.start, row.last})
         /\ LastOf(row, R) \in Span(row, R) /\ LastOf(row, R) \in Day /\ StartOf(row, R) \in Day
         /\ StartOf(row, R) <= LastOf(row, R) /\ LastOf(row, R) < StartOf(row, R) + Retention
         /\ \A d \in Span(row, R) : d <= LastOf(row, R)
         /\ \A d \in Span(row, R) : d < StartOf(row, R) => StartOf(row, R) = LastOf(row, R) - Retention + 1
<1> DEFINE S == Span(row, R)
           low == Min(S)
           high == Max(S)
           back == high - Retention + 1
           start == Max({low, back})
<1>1. row # NoRow => row.start \in Day /\ row.last \in Day /\ RowLen(row) = row.last - row.start + 1
  BY RowLenIs DEF RowOK, ProperRow, Day
<1>2. S = DOMAIN R \cup (IF row = NoRow THEN {} ELSE {row.start, row.last})
  <2>1. row # NoRow => row.start + RowLen(row) - 1 = row.last
    BY <1>1 DEF Day
  <2> QED BY <2>1 DEF Span
<1>3. S \subseteq Day /\ S # {}
  BY <1>1, <1>2 DEF Readings
<1> HIDE DEF S
<1>4. S \subseteq Nat /\ MaxDay \in Nat /\ \A n \in S : n <= MaxDay
  BY <1>3, PriceAssumption DEF Day
<1>5. high \in S /\ \A n \in S : high >= n
  <2>1. PICK m \in S : \A n \in S : n <= m
    BY <1>3, <1>4, GreatestExists
  <2>2. \A n \in S : m >= n
    BY <1>4, <2>1
  <2> QED BY <2>1, <2>2 DEF Max
<1>6. low \in S /\ \A n \in S : low <= n
  <2>1. PICK m \in S : \A n \in S : m <= n
    BY <1>3, <1>4, LeastExists
  <2> QED BY <2>1 DEF Min
<1>7. high \in Day /\ low \in Day /\ low <= high
  BY <1>3, <1>5, <1>6
<1> HIDE DEF high, low
<1>8. back \in Int /\ back <= high /\ Retention \in Nat
  BY <1>7, PriceAssumption DEF Day
<1> HIDE DEF back
<1>9. start \in {low, back} /\ start >= low /\ start >= back
  <2>1. low >= back \/ back >= low
    BY <1>7, <1>8 DEF Day
  <2>2. \E m \in {low, back} : \A n \in {low, back} : m >= n
    BY <1>7, <1>8, <2>1 DEF Day
  <2> QED BY <2>2 DEF Max
<1> HIDE DEF start
<1>10. start \in Day /\ start <= high /\ high < start + Retention
  BY <1>7, <1>8, <1>9, PriceAssumption DEF Day, back
<1>11. ASSUME NEW d \in S, d < start PROVE start = high - Retention + 1
  <2>1. low <= d /\ d \in Nat /\ low \in Nat /\ start \in Nat
    BY <1>4, <1>6, <1>10, <1>11 DEF Day
  <2>2. start # low
    BY <1>11, <2>1
  <2> QED BY <1>9, <2>2 DEF back
<1>12. \A n \in S : n <= high
  BY <1>4, <1>5, <1>7 DEF Day
<1>13. LastOf(row, R) = high /\ StartOf(row, R) = start
  BY DEF LastOf, StartOf, S, low, high, back, start
<1> QED BY <1>2, <1>5, <1>7, <1>10, <1>11, <1>12, <1>13 DEF S

\* What is read of the row: what was there, or else what the readings say.
ReadOf(R, l, d) == IF d \in DOMAIN R THEN R[d][l] ELSE NoReading
Lacks(row, R) == \E d \in DOMAIN R : d >= StartOf(row, R) /\ \E l \in Lane : R[d][l] # NoReading /\ At(row, l, d) = NoReading
LEMMA NothingLacks == ASSUME NEW row, NEW R, ~Lacks(row, R) PROVE Spliced(row, R) = row
BY DEF Spliced, Lacks, LastOf, StartOf, Span

LEMMA LaneSpliced ==
  ASSUME NEW row, RowOK(row), NEW R, Readings(R), NEW l \in Lane, Lacks(row, R)
  PROVE  LET new == Spliced(row, R)
             n == LastOf(row, R) - StartOf(row, R) + 1
         IN  /\ new.start = StartOf(row, R) /\ new.last = LastOf(row, R)
             /\ \/ /\ l \in FoilLane /\ new.cells[l] = <<>> /\ row.cells[l] = <<>>
                   /\ \A d \in DOMAIN R : R[d][l] = NoReading
                \/ new.cells[l] = [i \in 1..n |-> OursFirst(At(row, l, StartOf(row, R) + i - 1),
                                                            ReadOf(R, l, StartOf(row, R) + i - 1))]
<1> DEFINE last == LastOf(row, R)
           start == StartOf(row, R)
           used(k) == k \notin FoilLane \/ row.cells[k] # <<>> \/ \E d \in DOMAIN R : R[d][k] # NoReading
           lane(k) == [i \in 1..(last - start + 1) |->
                         OursFirst(At(row, k, start + i - 1), ReadOf(R, k, start + i - 1))]
<1>1. Spliced(row, R) = [start |-> start, last |-> last,
                         cells |-> [k \in Lane |-> IF used(k) THEN lane(k) ELSE <<>>]]
  BY DEF Spliced, Lacks, LastOf, StartOf, Span, ReadOf
<1> HIDE DEF last, start, lane
<1>2. /\ Spliced(row, R).start = start /\ Spliced(row, R).last = last
      /\ Spliced(row, R).cells[l] = IF used(l) THEN lane(l) ELSE <<>>
  BY <1>1
<1>3. CASE used(l)
  BY <1>2, <1>3 DEF last, start, lane
<1>4. CASE ~used(l)
  BY <1>2, <1>4 DEF last, start, lane
<1> QED BY <1>3, <1>4

\* What is read of any row is a reading of that day, or none.
LEMMA ReadRow ==
  ASSUME NEW row, RowOK(row), NEW l \in Lane, NEW d \in Day
  PROVE  /\ At(row, l, d) \in Reading
         /\ row.cells[l] = <<>> => At(row, l, d) = NoReading
         /\ At(row, l, d) # NoReading => At(row, l, d)[2] = d
<1>1. row.cells[l] = <<>> => At(row, l, d) = NoReading
  BY DEF At
<1>2. NoReading \in Reading
  BY DEF Reading
<1>3. CASE row = NoRow
  BY <1>1, <1>2, <1>3, NoRowBlank
<1>4. CASE ProperRow(row)
  <2>1. At(row, l, d) \in Reading
    BY <1>4, AtFacts
  <2> QED BY <1>1, <1>4, <2>1 DEF ProperRow, Dated
<1> QED BY <1>3, <1>4 DEF RowOK

\* So is what the provider's readings say.
LEMMA ReadOfFacts ==
  ASSUME NEW R, Readings(R), NEW l \in Lane, NEW d \in Day
  PROVE  /\ ReadOf(R, l, d) \in Reading
         /\ ReadOf(R, l, d) # NoReading => ReadOf(R, l, d)[2] = d
BY DEF ReadOf, Readings, Reading

\* What is read of a row that was spliced: each day of the new span, ours first.
LEMMA ReadSpliced ==
  ASSUME NEW row, RowOK(row), NEW R, Readings(R), NEW l \in Lane, Lacks(row, R)
  PROVE  LET new == Spliced(row, R) IN
         /\ new.cells[l] \in Seq(Reading)
         /\ \/ Len(new.cells[l]) = LastOf(row, R) - StartOf(row, R) + 1
            \/ l \in FoilLane /\ new.cells[l] = <<>>
         /\ \A d \in Day : At(new, l, d) = IF StartOf(row, R) <= d /\ d <= LastOf(row, R)
                                           THEN OursFirst(At(row, l, d), ReadOf(R, l, d)) ELSE NoReading
<1> DEFINE new == Spliced(row, R)
           last == LastOf(row, R)
           start == StartOf(row, R)
           n == last - start + 1
           q == new.cells[l]
           lane == [i \in 1..n |-> OursFirst(At(row, l, start + i - 1), ReadOf(R, l, start + i - 1))]
<1>1. start \in Day /\ last \in Day /\ start <= last
  BY SpanFacts
<1>2. /\ new.start = start
      /\ \/ /\ l \in FoilLane /\ q = <<>> /\ row.cells[l] = <<>>
            /\ \A d \in DOMAIN R : R[d][l] = NoReading
         \/ q = lane
  BY LaneSpliced
<1>3. \A d \in Day : At(new, l, d) = IF d - start + 1 \in DOMAIN q THEN q[d - start + 1] ELSE NoReading
  BY <1>2 DEF At
<1>4. CASE /\ l \in FoilLane /\ q = <<>> /\ row.cells[l] = <<>>
           /\ \A d \in DOMAIN R : R[d][l] = NoReading
  <2>1. ASSUME NEW d \in Day PROVE OursFirst(At(row, l, d), ReadOf(R, l, d)) = NoReading
    <3>1. At(row, l, d) = NoReading
      BY <1>4, ReadRow
    <3>2. ReadOf(R, l, d) = NoReading
      BY <1>4 DEF ReadOf
    <3> QED BY <3>1, <3>2 DEF OursFirst
  <2>2. q \in Seq(Reading)
    BY <1>4
  <2> HIDE DEF q, new, start, last
  <2>3. \A d \in Day : At(new, l, d) = NoReading
    BY <1>3, <1>4
  <2> QED BY <1>4, <2>1, <2>2, <2>3 DEF q, new, start, last
<1>5. CASE q = lane
  <2>1. start \in Nat /\ last \in Nat /\ n \in Nat /\ MaxDay \in Nat
    BY <1>1, PriceAssumption DEF Day
  <2>2. \A i \in 1..n : start + i - 1 \in Day
    BY <1>1, <2>1 DEF Day
  <2>3. \A i \in 1..n : lane[i] \in Reading
    <3> TAKE i \in 1..n
    <3> DEFINE d == start + i - 1
    <3>1. d \in Day
      BY <2>2
    <3> HIDE DEF d
    <3>2. At(row, l, d) \in Reading /\ ReadOf(R, l, d) \in Reading
      BY <3>1, ReadRow, ReadOfFacts
    <3>3. lane[i] = OursFirst(At(row, l, d), ReadOf(R, l, d))
      BY DEF d
    <3> QED BY <3>2, <3>3 DEF OursFirst
  <2>4. lane = [i \in 1..n |-> lane[i]] /\ \A i \in 1..n :
          lane[i] = OursFirst(At(row, l, start + i - 1), ReadOf(R, l, start + i - 1))
    OBVIOUS
  <2> HIDE DEF lane, n
  <2>5. lane \in [1..n -> Reading]
    BY <2>3, <2>4
  <2>6. lane \in Seq(Reading) /\ Len(lane) = n /\ DOMAIN lane = 1..n
    BY <2>1, <2>5
  <2>7. ASSUME NEW d \in Day
        PROVE  At(new, l, d) = IF start <= d /\ d <= last
                               THEN OursFirst(At(row, l, d), ReadOf(R, l, d)) ELSE NoReading
    <3> DEFINE i == d - start + 1
    <3>1. d \in Nat /\ i \in Int /\ start + i - 1 = d /\ (i \in 1..n <=> start <= d /\ d <= last)
      BY <2>1 DEF Day, n
    <3>2. At(new, l, d) = IF i \in DOMAIN q THEN q[i] ELSE NoReading
      BY <1>3, Zenon
    <3> HIDE DEF i, new, q, start, last
    <3>3. CASE i \in 1..n
      <4>1. At(new, l, d) = lane[i]
        BY <1>5, <2>6, <3>2, <3>3
      <4>2. lane[i] = OursFirst(At(row, l, d), ReadOf(R, l, d))
        BY <2>4, <3>1, <3>3
      <4> QED BY <3>1, <3>3, <4>1, <4>2
    <3>4. CASE i \notin 1..n
      BY <1>5, <2>6, <3>1, <3>2, <3>4
    <3> QED BY <3>3, <3>4
  <2> HIDE DEF new, q, start, last
  <2>8. q \in Seq(Reading) /\ Len(q) = last - start + 1
    BY <1>5, <2>6 DEF n
  <2> QED BY <2>7, <2>8 DEF new, q, start, last
<1> QED BY <1>2, <1>4, <1>5

\* Splicing keeps a row proper, keeps what it has, and takes no day off its end.
LEMMA SplicedOK ==
  ASSUME NEW row, RowOK(row), NEW R, Readings(R)
  PROVE  LET new == Spliced(row, R) IN
         /\ RowOK(new) /\ Keeps(row, new)
         /\ ProperRow(row) => ProperRow(new) /\ new.last >= row.last
<1> DEFINE new == Spliced(row, R)
           last == LastOf(row, R)
           start == StartOf(row, R)
<1>1. CASE ~Lacks(row, R)
  <2>1. new = row
    BY <1>1, NothingLacks
  <2> QED BY <2>1 DEF Keeps, ProperRow, Day
<1>2. CASE Lacks(row, R)
  <2>1. /\ Span(row, R) = DOMAIN R \cup (IF row = NoRow THEN {} ELSE {row.start, row.last})
        /\ last \in Span(row, R) /\ last \in Day /\ start \in Day /\ start <= last /\ last < start + Retention
        /\ \A d \in Span(row, R) : d <= last
        /\ \A d \in Span(row, R) : d < start => start = last - Retention + 1
    BY SpanFacts, Zenon
  <2>2. new.start = start /\ new.last = last
    <3>1. PICK l \in Lane : TRUE
      BY PriceAssumption
    <3> QED BY <1>2, <3>1, LaneSpliced
  <2>3. \A l \in Lane : /\ new.cells[l] \in Seq(Reading)
                        /\ \/ Len(new.cells[l]) = last - start + 1
                           \/ l \in FoilLane /\ new.cells[l] = <<>>
                        /\ \A d \in Day : At(new, l, d) =
                             IF start <= d /\ d <= last THEN OursFirst(At(row, l, d), ReadOf(R, l, d)) ELSE NoReading
    <3> TAKE l \in Lane
    <3> QED BY <1>2, ReadSpliced, Zenon
  <2> HIDE DEF new, last, start
  <2>4. Parallel(new)
    BY <2>2, <2>3 DEF Parallel
  <2>5. Dated(new)
    <3> SUFFICES ASSUME NEW l \in Lane, NEW d \in Day, At(new, l, d) # NoReading
                 PROVE  At(new, l, d)[2] = d
      BY DEF Dated
    <3>1. At(new, l, d) \in {At(row, l, d), ReadOf(R, l, d)}
      BY <2>3 DEF OursFirst
    <3> QED BY <3>1, ReadRow, ReadOfFacts
  <2>6. row # NoRow => ProperRow(row) /\ row.last \in Span(row, R) /\ row.last \in Day /\ row.start \in Day
    BY <2>1 DEF RowOK, ProperRow
  <2>7. Priced(new, last)
    <3>1. start <= last /\ last <= last
      BY <2>1 DEF Day
    <3>2. \A l \in Lane : At(new, l, last) = OursFirst(At(row, l, last), ReadOf(R, l, last))
      BY <2>1, <2>3, <3>1
    <3>3. CASE last \in DOMAIN R
      <4>1. PICK l \in Lane : R[last][l] # NoReading
        BY <3>3 DEF Readings
      <4>2. ReadOf(R, l, last) # NoReading
        BY <3>3, <4>1 DEF ReadOf
      <4> QED BY <3>2, <4>2 DEF Priced, OursFirst
    <3>4. CASE row # NoRow /\ last = row.last
      <4>1. PICK l \in Lane : At(row, l, last) # NoReading
        BY <2>6, <3>4 DEF ProperRow, Priced
      <4> QED BY <3>2, <4>1 DEF Priced, OursFirst
    <3>5. CASE row # NoRow /\ last = row.start
      <4>1. row.last <= row.start /\ row.start <= row.last
        BY <2>1, <2>6, <3>5 DEF ProperRow
      <4> QED BY <2>6, <3>4, <3>5, <4>1 DEF Day
    <3> QED BY <2>1, <3>3, <3>4, <3>5
  <2>8. ProperRow(new)
    BY <2>1, <2>2, <2>4, <2>5, <2>7 DEF ProperRow
  <2>9. Keeps(row, new)
    <3> SUFFICES ASSUME NEW l \in Lane, NEW d \in Day, At(row, l, d) # NoReading
                 PROVE  \/ At(new, l, d) = At(row, l, d)
                        \/ At(new, l, d) = NoReading /\ d <= new.last - Retention
      BY DEF Keeps
    <3>1. ProperRow(row) /\ row # NoRow
      BY NoRowBlank DEF RowOK
    <3>2. d \in row.start..row.last
      BY <3>1, AtFacts
    <3>3. row.last <= last /\ row.start \in Span(row, R)
      BY <2>1, <3>1
    <3>4. d <= last /\ d \in Nat /\ start \in Nat /\ last \in Nat /\ row.start \in Nat /\ row.last \in Nat
      BY <2>1, <2>6, <3>1, <3>2, <3>3 DEF Day
    <3>5. CASE start <= d
      <4>1. At(new, l, d) = OursFirst(At(row, l, d), ReadOf(R, l, d))
        BY <2>3, <3>4, <3>5
      <4> QED BY <4>1 DEF OursFirst
    <3>6. CASE d < start
      <4>1. At(new, l, d) = NoReading
        BY <2>3, <3>4, <3>6
      <4>2. row.start < start
        BY <3>2, <3>4, <3>6
      <4>3. start = last - Retention + 1
        BY <2>1, <3>3, <4>2
      <4> QED BY <2>2, <3>4, <3>6, <4>1, <4>3, PriceAssumption
    <3> QED BY <3>4, <3>5, <3>6
  <2>10. ProperRow(row) => new.last >= row.last
    BY <2>1, <2>2, <2>6, NoRowBlank DEF Day
  <2> QED BY <2>8, <2>9, <2>10 DEF new, RowOK
<1> QED BY <1>1, <1>2

-----------------------------------------------------------------------------
(***************************************************************************)
(* The three jobs. A card the archiver is done with has a row up to the    *)
(* day it is about, so that the purge at the end leaves that day.          *)
(***************************************************************************)
ShardOK ==
  /\ shard.day \in 0..MaxDay /\ (shard.day # 0 => shard.priced = Ours[shard.day])
  /\ lastDay \in Nat /\ lastDay <= shard.day
  /\ attempts \in Nat /\ attempts <= MaxAttempts
RunOK ==
  /\ run = [pc |-> run.pc, day |-> run.day, priced |-> run.priced, todo |-> run.todo]
  /\ run.pc \in {"idle", "fetch", "append"}
  /\ run.pc # "idle" => run.day \in Day /\ run.day <= shard.day
  /\ run.pc = "append" =>
       /\ run.priced \subseteq Card \X Lane /\ run.priced # {}
       /\ run.todo \subseteq {p[1] : p \in run.priced}
       /\ \A p \in run.priced : \/ p[1] \in run.todo
                                \/ ProperRow(rows[p[1]]) /\ run.day <= rows[p[1]].last
FillOK ==
  /\ fill = [pc |-> fill.pc, series |-> fill.series, todo |-> fill.todo]
  /\ fill.pc = "splice" =>
       /\ DOMAIN fill.series \subseteq Card /\ fill.todo \subseteq DOMAIN fill.series
       /\ \A c \in DOMAIN fill.series : Readings(fill.series[c])
RowsOK == rows = [c \in Card |-> rows[c]] /\ \A c \in Card : RowOK(rows[c])
PriceInv == ShardOK /\ RunOK /\ FillOK /\ RowsOK

\* What a step may do to the rows: a reading stays, or is too old for its row, or
\* goes with a row that is too old for another.
RowsStep ==
  /\ RowsOK'
  /\ \A c \in Card :
       \/ Keeps(rows[c], rows'[c])
       \/ /\ rows'[c] = NoRow
          /\ \E e \in Card : ProperRow(rows'[e]) /\ rows[c].last <= rows'[e].last - Retention

LEMMA SameRows == RowsOK /\ UNCHANGED rows => RowsStep
BY DEF RowsStep, RowsOK, RowOK, ProperRow, Parallel, Dated, Priced, Keeps

\* One row of all that goes on.
LEMMA OneRow ==
  ASSUME RowsOK, NEW c \in Card, NEW new, RowOK(new), Keeps(rows[c], new), rows' = [rows EXCEPT ![c] = new]
  PROVE  RowsStep
<1>1. rows' = [e \in Card |-> IF e = c THEN new ELSE rows[e]]
  BY DEF RowsOK
<1>2. \A e \in Card : rows'[e] = IF e = c THEN new ELSE rows[e]
  BY <1>1
<1>3. rows' = [e \in Card |-> rows'[e]]
  BY <1>1, <1>2
<1>4. \A e \in Card : RowOK(rows'[e])
  BY <1>2 DEF RowsOK
<1>5. \A e \in Card : Keeps(rows[e], rows'[e])
  BY <1>2 DEF Keeps
<1> QED BY <1>3, <1>4, <1>5 DEF RowsStep, RowsOK

\* The purge leaves the rows of the day that is archived.
LEMMA PurgeLeaves ==
  ASSUME PriceInv, run.pc = "append", run.todo = {}, rows' = Purged
  PROVE  RowsStep
<1>1. run.day \in Nat /\ Retention \in Nat
  BY PriceAssumption DEF PriceInv, RunOK, Day
<1>2. PICK p \in run.priced : p[1] \in Card /\ ProperRow(rows[p[1]]) /\ run.day <= rows[p[1]].last
  BY DEF PriceInv, RunOK
<1>3. \A c \in Card : rows'[c] = IF rows[c].last < run.day - Retention THEN NoRow ELSE rows[c]
  BY DEF Purged
<1>4. \A c \in Card : RowOK(rows[c])
  BY DEF PriceInv, RowsOK
<1>5. \A c \in Card : RowOK(rows'[c])
  BY <1>3, <1>4 DEF RowOK
<1>6. rows' = [c \in Card |-> rows'[c]]
  BY <1>3 DEF Purged
<1>7. rows'[p[1]] = rows[p[1]] /\ rows[p[1]].last \in Nat
  BY <1>1, <1>2, <1>3 DEF ProperRow, Day
<1>8. ASSUME NEW c \in Card
      PROVE  \/ Keeps(rows[c], rows'[c])
             \/ /\ rows'[c] = NoRow
                /\ \E e \in Card : ProperRow(rows'[e]) /\ rows[c].last <= rows'[e].last - Retention
  <2>1. CASE rows'[c] = rows[c]
    BY <2>1 DEF Keeps
  <2>2. CASE rows'[c] # rows[c]
    <3>1. ProperRow(rows[c]) /\ rows'[c] = NoRow /\ rows[c].last < run.day - Retention
      BY <1>3, <1>4, <2>2 DEF RowOK
    <3>2. rows[c].last <= rows[p[1]].last - Retention
      BY <1>1, <1>2, <1>7, <3>1 DEF ProperRow, Day
    <3> QED BY <1>2, <1>7, <3>1, <3>2
  <2> QED BY <2>1, <2>2
<1> QED BY <1>5, <1>6, <1>8 DEF RowsStep, RowsOK

\* A reading goes only when it is too old for a row that has a newer one.
LEMMA ReadingGoes ==
  ASSUME RowsOK, RowsStep, NEW c \in Card, NEW l \in Lane, NEW d \in Day, At(rows[c], l, d) # NoReading
  PROVE  \/ At(rows'[c], l, d) = At(rows[c], l, d)
         \/ /\ At(rows'[c], l, d) = NoReading
            /\ \E e \in Card : ProperRow(rows'[e]) /\ d <= rows'[e].last - Retention
<1>1. RowOK(rows[c]) /\ RowOK(rows'[c]) /\ d \in Nat /\ d > 0 /\ Retention \in Nat
  BY PriceAssumption DEF RowsOK, RowsStep, Day
<1>2. ProperRow(rows[c])
  BY <1>1, NoRowBlank DEF RowOK
<1>3. CASE Keeps(rows[c], rows'[c])
  <2>1. CASE At(rows'[c], l, d) = At(rows[c], l, d)
    BY <2>1
  <2>2. CASE At(rows'[c], l, d) = NoReading /\ d <= rows'[c].last - Retention
    <3>1. rows'[c] # NoRow
      BY <1>1, <2>2 DEF NoRow
    <3> QED BY <1>1, <2>2, <3>1 DEF RowOK
  <2> QED BY <1>3, <2>1, <2>2 DEF Keeps
<1>4. CASE /\ rows'[c] = NoRow
           /\ \E e \in Card : ProperRow(rows'[e]) /\ rows[c].last <= rows'[e].last - Retention
  <2>1. PICK e \in Card : ProperRow(rows'[e]) /\ rows[c].last <= rows'[e].last - Retention
    BY <1>4
  <2>2. d <= rows[c].last
    BY <1>2, AtFacts
  <2>3. rows[c].last \in Nat /\ rows'[e].last \in Nat
    BY <1>2, <2>1 DEF ProperRow, Day
  <2>4. d <= rows'[e].last - Retention
    BY <1>1, <2>1, <2>2, <2>3
  <2>5. At(rows'[c], l, d) = NoReading
    BY <1>4, NoRowBlank
  <2> QED BY <2>1, <2>4, <2>5
<1> QED BY <1>3, <1>4 DEF RowsStep

\* The book, page by page.
Page(table, c, l, d) == [card |-> c, lane |-> l, day |-> d, price |-> At(table[c], l, d)]
Pages(table) == {r \in {Page(table, c, l, d) : c \in Card, l \in Lane, d \in Day} : r.price # NoReading}

LEMMA PageFacts ==
  ASSUME NEW table
  PROVE  /\ \A r \in Pages(table) : \E c \in Card, l \in Lane, d \in Day :
              r = Page(table, c, l, d) /\ At(table[c], l, d) # NoReading
         /\ \A c \in Card, l \in Lane, d \in Day : At(table[c], l, d) # NoReading => Page(table, c, l, d) \in Pages(table)
<1>1. \A c \in Card, l \in Lane, d \in Day : Page(table, c, l, d).price = At(table[c], l, d)
  BY DEF Page
<1> QED BY <1>1 DEF Pages

\* With such a step of the rows the book goes on as it should.
LEMMA BookGoesOn ==
  ASSUME RowsOK, RowsStep
  PROVE  Book!Next
<1> DEFINE old == Pages(rows)
           new == Pages(rows')
<1>1. /\ \A r \in old : \E c \in Card, l \in Lane, d \in Day : r = Page(rows, c, l, d) /\ At(rows[c], l, d) # NoReading
      /\ \A r \in new : \E c \in Card, l \in Lane, d \in Day : r = Page(rows', c, l, d) /\ At(rows'[c], l, d) # NoReading
      /\ \A c \in Card, l \in Lane, d \in Day : At(rows[c], l, d) # NoReading => Page(rows, c, l, d) \in old
      /\ \A c \in Card, l \in Lane, d \in Day : At(rows'[c], l, d) # NoReading => Page(rows', c, l, d) \in new
  BY PageFacts
<1>2. \A c \in Card : RowOK(rows[c]) /\ RowOK(rows'[c])
  BY DEF RowsOK, RowsStep
<1> HIDE DEF old, new
<1>3. ASSUME NEW r \in new PROVE r \in Truth
  <2>1. PICK c \in Card, l \in Lane, d \in Day : r = Page(rows', c, l, d) /\ At(rows'[c], l, d) # NoReading
    BY <1>1
  <2> DEFINE price == At(rows'[c], l, d)
  <2>2. price \in Reading /\ price[2] = d
    BY <1>2, <2>1, ReadRow
  <2> HIDE DEF price
  <2>3. price \in {"ours", "theirs"} \X Day
    BY <2>1, <2>2 DEF Reading, price
  <2>4. r = [card |-> c, lane |-> l, day |-> d, price |-> price]
    BY <2>1 DEF Page, price
  <2> QED BY <2>2, <2>3, <2>4 DEF Truth
<1>4. ASSUME NEW r \in old
      PROVE  \E c \in Card, l \in Lane, d \in Day :
               /\ r = Page(rows, c, l, d)
               /\ \/ r \in new /\ r = Page(rows', c, l, d)
                  \/ At(rows'[c], l, d) = NoReading /\ \E s \in new : d <= s.day - Retention
  <2>1. PICK c \in Card, l \in Lane, d \in Day : r = Page(rows, c, l, d) /\ At(rows[c], l, d) # NoReading
    BY <1>1
  <2>2. CASE At(rows'[c], l, d) = At(rows[c], l, d)
    <3>1. r = Page(rows', c, l, d)
      BY <2>1, <2>2 DEF Page
    <3>2. r \in new
      BY <1>1, <2>1, <2>2, <3>1
    <3> QED BY <2>1, <3>1, <3>2, Zenon
  <2>3. CASE /\ At(rows'[c], l, d) = NoReading
             /\ \E e \in Card : ProperRow(rows'[e]) /\ d <= rows'[e].last - Retention
    <3>1. PICK e \in Card : ProperRow(rows'[e]) /\ d <= rows'[e].last - Retention
      BY <2>3
    <3> DEFINE day == rows'[e].last
    <3>2. day \in Day /\ \E k \in Lane : At(rows'[e], k, day) # NoReading
      BY <3>1 DEF ProperRow, Priced
    <3>3. PICK k \in Lane : At(rows'[e], k, day) # NoReading
      BY <3>2
    <3>4. Page(rows', e, k, day) \in new
      BY <1>1, <3>2, <3>3
    <3>5. Page(rows', e, k, day).day = day
      BY DEF Page
    <3>6. \E s \in new : d <= s.day - Retention
      BY <3>1, <3>4, <3>5
    <3> HIDE DEF day
    <3> QED BY <2>1, <2>3, <3>6, Zenon
  <2> QED BY <2>1, <2>2, <2>3, ReadingGoes
<1>5. ASSUME NEW r \in new \ old, NEW s \in (old \cup new) \ {r} PROVE Book!Slot(r) # Book!Slot(s)
  <2>1. PICK c \in Card, l \in Lane, d \in Day : r = Page(rows', c, l, d) /\ At(rows'[c], l, d) # NoReading
    BY <1>1
  <2>2. Book!Slot(r) = <<c, l, d>>
    BY <2>1 DEF Page, Book!Slot
  <2>3. CASE s \in new
    <3>1. PICK e \in Card, k \in Lane, f \in Day : s = Page(rows', e, k, f)
      BY <1>1, <2>3
    <3>2. Book!Slot(s) = <<e, k, f>>
      BY <3>1 DEF Page, Book!Slot
    <3> QED BY <2>1, <2>2, <3>1, <3>2
  <2>4. CASE s \in old
    <3>1. PICK e \in Card, k \in Lane, f \in Day :
            /\ s = Page(rows, e, k, f)
            /\ \/ s \in new /\ s = Page(rows', e, k, f)
               \/ At(rows'[e], k, f) = NoReading /\ \E t \in new : f <= t.day - Retention
      BY <1>4, <2>4
    <3>2. Book!Slot(s) = <<e, k, f>>
      BY <3>1 DEF Page, Book!Slot
    <3> QED BY <2>1, <2>2, <2>3, <3>1, <3>2
  <2> QED BY <2>3, <2>4
<1>6. ASSUME NEW r \in old \ new PROVE \E s \in old \cup new : r.day <= s.day - Retention
  <2>1. PICK c \in Card, l \in Lane, d \in Day :
          r = Page(rows, c, l, d) /\ \E s \in new : d <= s.day - Retention
    BY <1>4
  <2> QED BY <2>1 DEF Page
<1>7. old = {r \in Recorded : r.price # NoReading} /\ new = {r \in Recorded : r.price # NoReading}'
  BY DEF old, new, Pages, Page, Recorded
<1> QED BY <1>3, <1>5, <1>6, <1>7 DEF Book!Next

-----------------------------------------------------------------------------
(***************************************************************************)
(* The steps.                                                              *)
(***************************************************************************)
LEMMA PriceInit == Init => PriceInv /\ Book!Init
<1> SUFFICES ASSUME Init PROVE PriceInv /\ Book!Init
  OBVIOUS
<1>1. ShardOK
  BY PriceAssumption DEF Init, ShardOK
<1>2. RunOK /\ FillOK
  BY DEF Init, RunOK, FillOK, NotRunning, NotFilling
<1>3. RowsOK /\ \A c \in Card : rows[c] = NoRow
  BY DEF Init, RowsOK, RowOK
<1>4. Book!Init
  BY <1>3, NoRowBlank DEF Book!Init, Recorded
<1> QED BY <1>1, <1>2, <1>3, <1>4 DEF PriceInv

\* What is about the rows of the cards that are done stays when rows grow.
LEMMA RunStays ==
  ASSUME RunOK, UNCHANGED <<run, shard>>,
         \A c \in Card : ProperRow(rows[c]) => ProperRow(rows'[c]) /\ rows'[c].last >= rows[c].last
  PROVE  RunOK'
<1>1. ASSUME run.pc = "append", NEW p \in run.priced, p[1] \notin run.todo
      PROVE  ProperRow(rows'[p[1]]) /\ run.day <= rows'[p[1]].last
  <2>1. p[1] \in Card /\ ProperRow(rows[p[1]]) /\ run.day <= rows[p[1]].last /\ run.day \in Day
    BY <1>1 DEF RunOK
  <2>2. ProperRow(rows'[p[1]]) /\ rows'[p[1]].last >= rows[p[1]].last
    BY <2>1
  <2> QED BY <2>1, <2>2 DEF ProperRow, Day
<1> QED BY <1>1 DEF RunOK

LEMMA PublishStep == ASSUME PriceInv, NEW day \in Day, Publish(day) PROVE PriceInv' /\ RowsStep
<1>1. RowsStep
  BY SameRows DEF Publish, PriceInv
<1>2. ShardOK'
  BY PriceAssumption DEF Publish, PriceInv, ShardOK, Day
<1>3. RunOK'
  BY PriceAssumption DEF Publish, PriceInv, RunOK, ShardOK, Day, ProperRow, Parallel, Dated, Priced
<1>4. FillOK'
  BY DEF Publish, PriceInv, FillOK
<1> QED BY <1>1, <1>2, <1>3, <1>4 DEF PriceInv, RowsStep

LEMMA CheckManifestStep == ASSUME PriceInv, CheckManifest PROVE PriceInv' /\ RowsStep
<1>1. RowsStep
  BY SameRows DEF CheckManifest, PriceInv
<1>2. ShardOK' /\ FillOK'
  BY DEF CheckManifest, ArchiverOnly, PriceInv, ShardOK, FillOK
<1>3. RunOK'
  <2>1. run' = [pc |-> "fetch", day |-> shard.day, priced |-> {}, todo |-> {}] /\ shard' = shard
    BY DEF CheckManifest, ArchiverOnly, NotRunning
  <2>2. shard.day \in Day /\ shard.day <= shard.day
    BY PriceAssumption DEF CheckManifest, PriceInv, ShardOK, Day
  <2> QED BY <2>1, <2>2 DEF RunOK
<1> QED BY <1>1, <1>2, <1>3 DEF PriceInv, RowsStep

LEMMA FetchShardStep == ASSUME PriceInv, FetchShard PROVE PriceInv' /\ RowsStep
<1>1. RowsStep
  BY SameRows DEF FetchShard, PriceInv
<1>2. ShardOK' /\ FillOK'
  BY DEF FetchShard, ArchiverOnly, PriceInv, ShardOK, FillOK
<1>3. RunOK'
  <2>1. CASE shard.day = run.day
    <3>1. run.day \in Day /\ run.day <= shard.day /\ shard.day # 0
      BY <2>1 DEF FetchShard, PriceInv, RunOK, Day
    <3>2. shard.priced = Ours[shard.day] /\ shard.day \in 1..MaxDay
      BY <2>1, <3>1 DEF PriceInv, ShardOK, Day
    <3>3. shard.priced \subseteq Card \X Lane /\ shard.priced # {}
      BY <3>2, PriceAssumption, ReadingAssumption
    <3>4. run' = [pc |-> "append", day |-> run.day, priced |-> shard.priced,
                  todo |-> {p[1] : p \in shard.priced}]
      BY <2>1 DEF FetchShard, PriceInv, RunOK
    <3>5. shard' = shard
      BY DEF FetchShard, ArchiverOnly
    <3> QED BY <3>1, <3>3, <3>4, <3>5 DEF RunOK
  <2>2. CASE shard.day # run.day
    BY <2>2 DEF FetchShard, NotRunning, RunOK
  <2> QED BY <2>1, <2>2
<1> QED BY <1>1, <1>2, <1>3 DEF PriceInv, RowsStep

LEMMA AppendDayStep == ASSUME PriceInv, NEW c \in Card, AppendDay(c) PROVE PriceInv' /\ RowsStep
<1> DEFINE cells == [l \in Lane |-> IF <<c, l>> \in run.priced THEN <<"ours", run.day>> ELSE NoReading]
           new == Appended(rows[c], run.day, cells)
<1>1. rows' = [rows EXCEPT ![c] = new]
  BY DEF AppendDay
<1>2. run.day \in Day /\ cells \in Cells(run.day)
  BY DEF AppendDay, PriceInv, RunOK, Cells
<1>3. \E l \in Lane : cells[l] # NoReading
  <2>1. PICK p \in run.priced : p[1] = c /\ p \in Card \X Lane
    BY DEF AppendDay, PriceInv, RunOK
  <2>2. p[2] \in Lane /\ cells[p[2]] = <<"ours", run.day>>
    BY <2>1
  <2>3. <<"ours", run.day>> # NoReading
    BY <1>2, ReadingAssumption DEF Day
  <2> HIDE DEF cells
  <2> QED BY <2>2, <2>3
<1> HIDE DEF cells
<1>4. /\ ProperRow(new) /\ new.last >= run.day /\ Keeps(rows[c], new)
      /\ ProperRow(rows[c]) => new.last >= rows[c].last
  <2>1. RowOK(rows[c])
    BY DEF PriceInv, RowsOK
  <2> QED BY <1>2, <1>3, <2>1, AppendedOK
<1> HIDE DEF new
<1>5. RowsStep
  BY <1>1, <1>4, OneRow DEF PriceInv, RowOK
<1>6. ShardOK' /\ FillOK'
  BY DEF AppendDay, ArchiverOnly, PriceInv, ShardOK, FillOK
<1>7. /\ run' = [pc |-> "append", day |-> run.day, priced |-> run.priced, todo |-> run.todo \ {c}]
      /\ shard' = shard
  BY DEF AppendDay, ArchiverOnly, PriceInv, RunOK
<1>8. \A e \in Card : rows'[e] = IF e = c THEN new ELSE rows[e]
  BY <1>1 DEF PriceInv, RowsOK
<1>9. ASSUME NEW p \in run.priced, p[1] \notin run.todo \ {c}
      PROVE  ProperRow(rows'[p[1]]) /\ run.day <= rows'[p[1]].last
  <2>1. p[1] \in Card /\ run.day \in Nat
    BY <1>2 DEF AppendDay, PriceInv, RunOK, Day
  <2>2. CASE p[1] = c
    BY <1>4, <1>8, <2>1, <2>2 DEF ProperRow, Day
  <2>3. CASE p[1] # c
    <3>1. p[1] \notin run.todo
      BY <1>9, <2>3
    <3>2. ProperRow(rows[p[1]]) /\ run.day <= rows[p[1]].last
      BY <3>1 DEF AppendDay, PriceInv, RunOK
    <3> QED BY <1>8, <2>1, <2>3, <3>2
  <2> QED BY <2>2, <2>3
<1>10. RunOK'
  <2>1. /\ run.day \in Day /\ run.day <= shard.day /\ run.priced \subseteq Card \X Lane /\ run.priced # {}
        /\ run.todo \subseteq {p[1] : p \in run.priced}
    BY DEF AppendDay, PriceInv, RunOK
  <2> QED BY <1>7, <1>9, <2>1 DEF RunOK
<1> QED BY <1>5, <1>6, <1>10 DEF PriceInv, RowsStep

LEMMA FinishStep == ASSUME PriceInv, Finish PROVE PriceInv' /\ RowsStep
<1>1. RowsStep
  BY PurgeLeaves DEF Finish
<1>2. ShardOK'
  BY DEF Finish, ArchiverOnly, PriceInv, ShardOK, RunOK, Day
<1>3. RunOK' /\ FillOK'
  BY DEF Finish, ArchiverOnly, NotRunning, PriceInv, RunOK, FillOK
<1> QED BY <1>1, <1>2, <1>3 DEF PriceInv, RowsStep

LEMMA ArchiveFailsStep == ASSUME PriceInv, ArchiveFails PROVE PriceInv' /\ RowsStep
<1>1. RowsStep
  BY SameRows DEF ArchiveFails, PriceInv
<1>2. ShardOK' /\ FillOK' /\ RunOK'
  BY DEF ArchiveFails, ArchiverOnly, Released, NotRunning, PriceInv, ShardOK, FillOK, RunOK
<1> QED BY <1>1, <1>2 DEF PriceInv, RowsStep

-----------------------------------------------------------------------------
\* The readings of the other provider are of the day they are under.
LEMMA SeriesOK == DOMAIN Series \subseteq Card /\ \A c \in DOMAIN Series : Readings(Series[c])
<1> DEFINE days == {d \in Day : shard.day - Window < d /\ d <= shard.day - Lag}
           has(c) == {d \in days : \E l \in Lane : <<c, l>> \in Theirs[d]}
           readings(c) == [d \in has(c) |-> [l \in Lane |-> IF <<c, l>> \in Theirs[d] THEN <<"theirs", d>> ELSE NoReading]]
<1>1. Series = [c \in {x \in Card : has(x) # {}} |-> readings(c)]
  BY DEF Series
<1>2. ASSUME NEW c \in Card, has(c) # {} PROVE Readings(readings(c))
  <2>1. has(c) \subseteq Day /\ \A d \in has(c) : \E l \in Lane : <<c, l>> \in Theirs[d]
    OBVIOUS
  <2>2. \A d \in Day : <<"theirs", d>> # NoReading
    BY ReadingAssumption DEF Day
  <2> DEFINE R == readings(c)
             H == has(c)
  <2>3. DOMAIN R = H /\ \A d \in H, l \in Lane : R[d][l] = IF <<c, l>> \in Theirs[d] THEN <<"theirs", d>> ELSE NoReading
    OBVIOUS
  <2>4. H # {}
    BY <1>2
  <2>5. H \subseteq Day /\ \A d \in H : \E l \in Lane : <<c, l>> \in Theirs[d]
    BY <2>1
  <2> HIDE DEF R, H
  <2>6. \A d \in H : /\ \A l \in Lane : R[d][l] \in {NoReading, <<"theirs", d>>}
                    /\ \E l \in Lane : R[d][l] # NoReading
    <3> TAKE d \in H
    <3> DEFINE price == <<"theirs", d>>
    <3>1. price # NoReading
      BY <2>2, <2>5
    <3> HIDE DEF price
    <3>2. \A l \in Lane : R[d][l] = IF <<c, l>> \in Theirs[d] THEN price ELSE NoReading
      BY <2>3 DEF price
    <3>3. PICK l \in Lane : <<c, l>> \in Theirs[d]
      BY <2>5
    <3>4. \A k \in Lane : R[d][k] \in {NoReading, price}
      BY <3>2
    <3>5. R[d][l] # NoReading
      BY <3>1, <3>2, <3>3
    <3> QED BY <3>4, <3>5 DEF price
  <2>7. Readings(R)
    BY <2>3, <2>4, <2>5, <2>6 DEF Readings
  <2> QED BY <2>7 DEF R
<1> HIDE DEF readings, has
<1> QED BY <1>1, <1>2

LEMMA BackfillStep ==
  ASSUME PriceInv, StartBackfill \/ BackfillDone \/ BackfillFails
  PROVE  PriceInv' /\ RowsStep
<1>1. UNCHANGED <<rows, shard, lastDay, run>>
  BY DEF StartBackfill, BackfillDone, BackfillFails, FillerOnly
<1>2. RowsStep
  BY <1>1, SameRows DEF PriceInv
<1>3. RunOK'
  BY <1>1, RunStays DEF PriceInv, ProperRow, Day
<1>4. ShardOK'
  <2>1. attempts' \in Nat /\ attempts' <= MaxAttempts
    BY PriceAssumption DEF StartBackfill, BackfillDone, BackfillFails, PriceInv, ShardOK
  <2> QED BY <1>1, <2>1 DEF PriceInv, ShardOK
<1>5. FillOK'
  BY SeriesOK DEF StartBackfill, BackfillDone, BackfillFails, NotFilling, PriceInv, FillOK
<1> QED BY <1>2, <1>3, <1>4, <1>5 DEF PriceInv, RowsStep

LEMMA SpliceStep == ASSUME PriceInv, NEW c \in Card, SpliceHistories(c) PROVE PriceInv' /\ RowsStep
<1> DEFINE new == Spliced(rows[c], fill.series[c])
<1>1. /\ rows' = [rows EXCEPT ![c] = new] /\ UNCHANGED <<shard, lastDay, run, attempts>>
  BY DEF SpliceHistories, FillerOnly
<1>2. /\ RowOK(new) /\ Keeps(rows[c], new)
      /\ ProperRow(rows[c]) => ProperRow(new) /\ new.last >= rows[c].last
  <2>1. RowOK(rows[c]) /\ Readings(fill.series[c])
    BY DEF SpliceHistories, PriceInv, RowsOK, FillOK
  <2> QED BY <2>1, SplicedOK
<1> HIDE DEF new
<1>3. RowsStep
  BY <1>1, <1>2, OneRow DEF PriceInv
<1>4. \A e \in Card : rows'[e] = IF e = c THEN new ELSE rows[e]
  BY <1>1 DEF PriceInv, RowsOK
<1>5. \A e \in Card : ProperRow(rows[e]) => ProperRow(rows'[e]) /\ rows'[e].last >= rows[e].last
  BY <1>2, <1>4 DEF ProperRow, Day
<1>6. RunOK'
  BY <1>1, <1>5, RunStays DEF PriceInv
<1>7. ShardOK' /\ FillOK'
  BY <1>1 DEF SpliceHistories, PriceInv, ShardOK, FillOK
<1> QED BY <1>3, <1>6, <1>7 DEF PriceInv, RowsStep

LEMMA RestartStep == ASSUME PriceInv, Restart PROVE PriceInv' /\ RowsStep
<1>1. RowsStep
  BY SameRows, PurgeLeaves DEF Restart, PriceInv
<1>2. ShardOK' /\ RunOK' /\ FillOK'
  BY DEF Restart, NotRunning, NotFilling, PriceInv, ShardOK, RunOK, FillOK
<1> QED BY <1>1, <1>2 DEF PriceInv, RowsStep

\* The monthly import is about a table of its own.
LEMMA MonthlyStep == ASSUME PriceInv, UNCHANGED <<daily>> PROVE PriceInv' /\ RowsStep
<1>1. UNCHANGED <<shard, rows, lastDay, run, fill, attempts>>
  BY DEF daily
<1>2. RowsStep
  BY <1>1, SameRows DEF PriceInv
<1>3. RunOK'
  BY <1>1, RunStays DEF PriceInv, ProperRow, Day
<1>4. ShardOK' /\ FillOK'
  BY <1>1 DEF PriceInv, ShardOK, FillOK
<1> QED BY <1>2, <1>3, <1>4 DEF PriceInv, RowsStep

LEMMA PriceStep == PriceInv /\ [Next]_vars => PriceInv' /\ RowsStep
<1> SUFFICES ASSUME PriceInv, [Next]_vars PROVE PriceInv' /\ RowsStep
  OBVIOUS
<1>1. CASE \E day \in Day : Publish(day)
  BY <1>1, PublishStep
<1>2. CASE Archiver \/ ArchiveFails
  BY <1>2, CheckManifestStep, FetchShardStep, AppendDayStep, FinishStep, ArchiveFailsStep DEF Archiver
<1>3. CASE Backfill \/ BackfillFails
  BY <1>3, BackfillStep, SpliceStep DEF Backfill
<1>4. CASE ReplaceFile \/ Importer \/ ImportFails
  <2>1. UNCHANGED <<daily>>
    BY <1>4 DEF ReplaceFile, Importer, ImportFails, StatFile, OpenFile, MonthlyDone, PutMonthly, ImporterOnly
  <2> QED BY <2>1, MonthlyStep
<1>5. CASE Restart
  BY <1>5, RestartStep
<1>6. CASE UNCHANGED vars
  BY <1>6, MonthlyStep DEF vars
<1> QED BY <1>1, <1>2, <1>3, <1>4, <1>5, <1>6 DEF Next

-----------------------------------------------------------------------------
(***************************************************************************)
(* The rows and the book.                                                  *)
(***************************************************************************)
\* The rows are well-formed, a row has a price on its last day, and a card that
\* the archiver is done with has a row up to the day (priceStore.ts:180).
THEOREM PriceInvariant == Spec => []PriceInv
BY PriceInit, PriceStep, PTL DEF Spec

\* The lanes of a row stay parallel and no longer than the retention, through
\* every append, splice and purge.
THEOREM PriceTypeCorrect == Spec => []TypeOK
<1>1. PriceInv => TypeOK
  <2> SUFFICES ASSUME PriceInv PROVE TypeOK
    OBVIOUS
  <2>1. ASSUME NEW c \in Card, rows[c] # NoRow
        PROVE  LET row == rows[c] IN
               /\ row.last = row.start + RowLen(row) - 1 /\ RowLen(row) \in 1..Retention
               /\ \A l \in Lane : \/ Len(row.cells[l]) = RowLen(row)
                                  \/ l \in FoilLane /\ row.cells[l] = <<>>
    <3> DEFINE row == rows[c]
    <3>1. ProperRow(row)
      BY <2>1 DEF PriceInv, RowsOK, RowOK
    <3> HIDE DEF row
    <3>2. row.start \in Nat /\ row.last \in Nat /\ row.start <= row.last /\ row.last < row.start + Retention
      BY <3>1 DEF ProperRow, Day
    <3>3. RowLen(row) = row.last - row.start + 1
      BY <3>1, <3>2, RowLenIs DEF ProperRow
    <3>4. row.last = row.start + RowLen(row) - 1 /\ RowLen(row) \in 1..Retention
      BY <3>2, <3>3, PriceAssumption
    <3>5. \A l \in Lane : Len(row.cells[l]) = RowLen(row) \/ (l \in FoilLane /\ row.cells[l] = <<>>)
      BY <3>1, <3>3 DEF ProperRow, Parallel
    <3> QED BY <3>4, <3>5 DEF row
  <2>2. lastDay <= shard.day /\ attempts <= MaxAttempts
    BY DEF PriceInv, ShardOK
  <2> QED BY <2>1, <2>2 DEF TypeOK
<1> QED BY <1>1, PriceInvariant, PTL

\* The archive is a price book: what it has recorded is true, stays under its day
\* and as it was, and goes only with age, whatever the jobs do in between.
THEOREM PriceKeepsBook == Spec => KeepsBook
<1>1. PriceInv /\ [Next]_vars => Book!Next
  BY PriceStep, BookGoesOn DEF PriceInv
<1>2. Init => Book!Init
  BY PriceInit
<1> QED BY <1>1, <1>2, PriceInvariant, PTL DEF Spec, KeepsBook, Book!Spec


-----------------------------------------------------------------------------
(***************************************************************************)
(* What counts as done is there. The jobs go on together, so each says     *)
(* what it leaves behind in terms that every step of the others keeps: a   *)
(* reading is there, or it is older than a row or the last day allows.     *)
(***************************************************************************)
Mine(d) == <<"ours", d>>
Aged(d) == d <= lastDay - Retention \/ \E c \in Card : d <= rows[c].last - Retention
Stands(c, l, d) ==
  \/ Aged(d)
  \/ At(rows[c], l, d) = Mine(d)
  \/ \E k \in Lane, e \in d..MaxDay : At(rows[c], k, e) = <<"theirs", e>>
FilledUp(c, R) == \A d \in DOMAIN R, l \in Lane : R[d][l] = NoReading \/ Aged(d) \/ At(rows[c], l, d) # NoReading

\* The lanes of a day that we published came together, and none is of a day
\* that is still to come.
Together(c, row) == \A l \in Lane, d \in Day : At(row, l, d) = Mine(d) =>
  \A k \in Lane : <<c, k>> \in Ours[d] => At(row, k, d) = Mine(d)
OursTo(row, day) == \A l \in Lane, d \in Day : At(row, l, d) = Mine(d) => d <= day
OursOK == \A c \in Card :
  /\ Together(c, rows[c]) /\ OursTo(rows[c], shard.day)
  /\ run.pc = "append" => OursTo(rows[c], run.day)

\* The archiver is about a day that is not archived yet, and what it is done with
\* stands; so does what counts as archived.
Archives ==
  /\ run.pc # "idle" => lastDay <= run.day
  /\ run.pc = "append" =>
       /\ run.priced = Ours[run.day]
       /\ \A p \in run.priced : p[1] \in run.todo \/ Stands(p[1], p[2], run.day)
ArchivedOK == \A r \in archived :
  r.card \in Card /\ r.lane \in Lane /\ r.day \in Day /\ Stands(r.card, r.lane, r.day)

\* The same of the backfill.
Fills ==
  /\ fill.pc = "splice" => \A c \in DOMAIN fill.series \ fill.todo : FilledUp(c, fill.series[c])
  /\ \A c \in DOMAIN taken : c \in Card /\ Readings(taken[c]) /\ FilledUp(c, taken[c])

\* An import that was begun before the file was replaced can tell by its stamp.
Imports ==
  /\ file \in Nat /\ stamp \in Nat /\ stamp <= file /\ months = [c \in Card |-> months[c]]
  /\ read = [pc |-> read.pc, stamp |-> read.stamp, opened |-> read.opened, todo |-> read.todo]
  /\ read.pc # "idle" => stamp < file /\ read.stamp \in Nat /\ read.stamp <= file
  /\ read.pc = "lines" /\ read.stamp = file =>
       /\ read.opened = file
       /\ \A c \in Card \ read.todo : c \in Versions[file] => months[c] = file
  /\ stamp = file => \A c \in Card : file = 0 \/ (c \in Versions[file] => months[c] = file)
DoneInv == OursOK /\ Archives /\ ArchivedOK /\ Fills /\ Imports

\* The prices of the two sources are told apart, and both from no price.
LEMMA Sources == \A d \in Day : Mine(d) # NoReading /\ <<"theirs", d>> # NoReading /\ Mine(d) # <<"theirs", d>>
BY ReadingAssumption DEF Mine, Day

\* A day that is too old stays too old.
LEMMA AgedStays ==
  ASSUME RowsOK, RowsStep, ShardOK, lastDay' \in Nat, lastDay' >= lastDay, NEW d \in Day, Aged(d)
  PROVE  Aged(d)'
<1>1. d \in Nat /\ d > 0 /\ Retention \in Nat /\ Retention > 0 /\ lastDay \in Nat
  BY PriceAssumption DEF ShardOK, Day
<1>2. CASE d <= lastDay - Retention
  BY <1>1, <1>2 DEF Aged
<1>3. ASSUME NEW c \in Card, d <= rows[c].last - Retention PROVE Aged(d)'
  <2>1. ProperRow(rows[c])
    <3>1. rows[c] # NoRow
      BY <1>1, <1>3 DEF NoRow
    <3> QED BY <3>1 DEF RowsOK, RowOK
  <2> DEFINE last == rows[c].last
  <2>2. last \in Day /\ last \in Nat /\ \E k \in Lane : At(rows[c], k, last) # NoReading
    BY <2>1 DEF ProperRow, Priced, Day
  <2>3. PICK k \in Lane : At(rows[c], k, last) # NoReading
    BY <2>2
  <2> HIDE DEF last
  <2>4. \/ At(rows'[c], k, last) = At(rows[c], k, last)
        \/ \E e \in Card : ProperRow(rows'[e]) /\ last <= rows'[e].last - Retention
    BY <2>2, <2>3, ReadingGoes
  <2>5. CASE At(rows'[c], k, last) = At(rows[c], k, last)
    <3>1. RowOK(rows'[c]) /\ At(rows'[c], k, last) # NoReading
      BY <2>3, <2>5 DEF RowsStep, RowsOK
    <3>2. ProperRow(rows'[c])
      BY <2>2, <3>1, NoRowBlank DEF RowOK
    <3>3. last <= rows'[c].last /\ rows'[c].last \in Nat
      <4>1. last \in rows'[c].start..rows'[c].last
        BY <2>2, <3>1, <3>2, AtFacts
      <4> QED BY <3>2, <4>1 DEF ProperRow, Day
    <3>4. d <= rows'[c].last - Retention
      BY <1>1, <1>3, <2>2, <3>3 DEF last
    <3> QED BY <3>4 DEF Aged
  <2>6. CASE \E e \in Card : ProperRow(rows'[e]) /\ last <= rows'[e].last - Retention
    <3>1. PICK e \in Card : ProperRow(rows'[e]) /\ last <= rows'[e].last - Retention
      BY <2>6
    <3>2. rows'[e].last \in Nat
      BY <3>1 DEF ProperRow, Day
    <3>3. d <= rows'[e].last - Retention
      BY <1>1, <1>3, <2>2, <3>1, <3>2 DEF last
    <3> QED BY <3>3 DEF Aged
  <2> QED BY <2>4, <2>5, <2>6
<1> QED BY <1>2, <1>3 DEF Aged

\* What is there stays, or is too old.
LEMMA ThereStays ==
  ASSUME RowsOK, RowsStep, ShardOK, lastDay' \in Nat, lastDay' >= lastDay,
         NEW c \in Card, NEW l \in Lane, NEW d \in Day, At(rows[c], l, d) # NoReading
  PROVE  At(rows'[c], l, d) = At(rows[c], l, d) \/ Aged(d)'
<1>1. CASE At(rows'[c], l, d) = At(rows[c], l, d)
  BY <1>1
<1>2. CASE \E e \in Card : ProperRow(rows'[e]) /\ d <= rows'[e].last - Retention
  BY <1>2 DEF Aged
<1> QED BY <1>1, <1>2, ReadingGoes

LEMMA StandsStays ==
  ASSUME PriceInv, RowsStep, ShardOK', lastDay' >= lastDay, NEW c \in Card, NEW l \in Lane, NEW d \in Day, Stands(c, l, d)
  PROVE  Stands(c, l, d)'
<1>1. RowsOK /\ ShardOK /\ RowsOK' /\ lastDay' \in Nat /\ d \in Nat /\ MaxDay \in Nat
  BY PriceAssumption DEF PriceInv, RowsStep, ShardOK, Day
<1>2. CASE Aged(d)
  BY <1>1, <1>2, AgedStays DEF Stands
<1>3. CASE At(rows[c], l, d) = Mine(d)
  <2>1. At(rows[c], l, d) # NoReading
    BY <1>3, Sources
  <2>2. At(rows'[c], l, d) = At(rows[c], l, d) \/ Aged(d)'
    BY <1>1, <2>1, ThereStays
  <2> QED BY <1>3, <2>2 DEF Stands, Mine
<1>4. ASSUME NEW k \in Lane, NEW e \in d..MaxDay, At(rows[c], k, e) = <<"theirs", e>> PROVE Stands(c, l, d)'
  <2>1. e \in Day /\ d <= e
    BY <1>1 DEF Day
  <2>2. At(rows[c], k, e) # NoReading
    BY <1>4, <2>1, Sources
  <2>3. CASE At(rows'[c], k, e) = At(rows[c], k, e)
    BY <1>4, <2>3 DEF Stands
  <2>4. CASE Aged(e)'
    <3>1. Aged(d)'
      <4>1. e \in Nat /\ Retention \in Nat /\ \A f \in Card : rows'[f].last \in Nat
        BY <1>1, <2>1, PriceAssumption DEF Day, RowsOK, RowOK, ProperRow, NoRow
      <4>2. CASE e <= lastDay' - Retention
        BY <1>1, <2>1, <4>1, <4>2 DEF Aged
      <4>3. ASSUME NEW f \in Card, e <= rows'[f].last - Retention PROVE Aged(d)'
        <5>1. d <= rows'[f].last - Retention
          BY <1>1, <2>1, <4>1, <4>3
        <5> QED BY <5>1 DEF Aged
      <4> QED BY <2>4, <4>2, <4>3 DEF Aged
    <3> QED BY <3>1 DEF Stands
  <2> QED BY <1>1, <2>1, <2>2, <2>3, <2>4, ThereStays
<1> QED BY <1>2, <1>3, <1>4 DEF Stands


LEMMA FilledStays ==
  ASSUME PriceInv, RowsStep, ShardOK', lastDay' >= lastDay, NEW c \in Card, NEW R, Readings(R), FilledUp(c, R)
  PROVE  FilledUp(c, R)'
<1>1. RowsOK /\ ShardOK /\ lastDay' \in Nat
  BY DEF PriceInv, ShardOK
<1> SUFFICES ASSUME NEW d \in DOMAIN R, NEW l \in Lane, R[d][l] # NoReading
             PROVE  Aged(d)' \/ At(rows'[c], l, d) # NoReading
  BY DEF FilledUp
<1>2. d \in Day
  BY DEF Readings
<1>3. CASE Aged(d)
  BY <1>1, <1>2, <1>3, AgedStays
<1>4. CASE At(rows[c], l, d) # NoReading
  <2>1. At(rows'[c], l, d) = At(rows[c], l, d) \/ Aged(d)'
    BY <1>1, <1>2, <1>4, ThereStays
  <2> QED BY <1>4, <2>1
<1> QED BY <1>3, <1>4 DEF FilledUp

\* A row that goes on: it stays, for it reaches there, or it gets the day whole.
LEMMA AppendedReads ==
  ASSUME NEW row, RowOK(row), NEW day \in Day, NEW cells \in Cells(day), \E l \in Lane : cells[l] # NoReading
  PROVE  \/ ProperRow(row) /\ day <= row.last /\ Appended(row, day, cells) = row
         \/ \E cut \in Nat : cut <= day /\ \A l \in Lane, d \in Day :
              At(Appended(row, day, cells), l, d) =
                IF d = day THEN cells[l] ELSE IF d < cut THEN NoReading ELSE At(row, l, d)
<1>1. CASE row = NoRow
  <2>1. \A l \in Lane, d \in Day : At(Appended(row, day, cells), l, d) =
          IF d = day THEN cells[l] ELSE IF d < day THEN NoReading ELSE At(row, l, d)
    BY <1>1, FirstDay, NoRowBlank
  <2>2. day \in Nat /\ day <= day
    BY DEF Day
  <2> QED BY <2>1, <2>2
<1>2. CASE ProperRow(row) /\ day <= row.last
  <2>1. row.start \in Nat /\ row.last \in Nat /\ day \in Nat /\ RowLen(row) = row.last - row.start + 1
    BY <1>2, RowLenIs DEF ProperRow, Day
  <2>2. AlreadyThere(row, day) /\ row # NoRow
    BY <1>2, <2>1, NoRowBlank DEF AlreadyThere
  <2> QED BY <1>2, <2>2 DEF Appended
<1>3. CASE ProperRow(row) /\ row.last < day
  <2> DEFINE cut == row.start + DropOf(row, day)
  <2>1. cut \in Day /\ cut <= day
    BY <1>3, DropFacts
  <2>2. \A l \in Lane, d \in Day : At(Appended(row, day, cells), l, d) =
          IF d = day THEN cells[l] ELSE IF d < cut THEN NoReading ELSE At(row, l, d)
    BY <1>3, ReadAppended
  <2> HIDE DEF cut
  <2> QED BY <2>1, <2>2 DEF Day
<1>4. ProperRow(row) => row.last \in Nat /\ day \in Nat
  BY DEF ProperRow, Day
<1> QED BY <1>1, <1>2, <1>3, <1>4 DEF RowOK

\* What is published of a card on a day is in its row, once it was appended: or
\* the other provider had the row already reach there.
LEMMA AppendedOurs ==
  ASSUME NEW c, NEW row, RowOK(row), NEW day \in Day, NEW cells \in Cells(day), \E l \in Lane : cells[l] # NoReading,
         \A l \in Lane : cells[l] = IF <<c, l>> \in Ours[day] THEN Mine(day) ELSE NoReading,
         Together(c, row), OursTo(row, day)
  PROVE  LET new == Appended(row, day, cells) IN
         /\ Together(c, new) /\ OursTo(new, day)
         /\ \A l \in Lane : <<c, l>> \in Ours[day] =>
              \/ At(new, l, day) = Mine(day)
              \/ \E k \in Lane, e \in day..MaxDay : At(new, k, e) = <<"theirs", e>>
<1> DEFINE new == Appended(row, day, cells)
<1> HIDE DEF new
<1>0. \A d \in Day : d \in Nat /\ d <= MaxDay
  BY PriceAssumption DEF Day
<1>1. CASE ProperRow(row) /\ day <= row.last /\ new = row
  <2> DEFINE last == row.last
  <2>1. last \in Day /\ \E k \in Lane : At(row, k, last) # NoReading
    BY <1>1 DEF ProperRow, Priced
  <2>2. PICK k \in Lane : At(row, k, last) # NoReading
    BY <2>1
  <2> DEFINE price == At(row, k, last)
  <2>3. day <= last
    BY <1>1
  <2> HIDE DEF last, price
  <2>4. price = Mine(last) \/ price = <<"theirs", last>>
    <3>1. price \in Reading /\ price # NoReading /\ price[2] = last
      BY <2>1, <2>2, ReadRow DEF price
    <3> QED BY <3>1 DEF Reading, Mine
  <2>5. CASE price = <<"theirs", last>>
    <3>1. last \in day..MaxDay
      BY <1>0, <2>1, <2>3
    <3>2. At(new, k, last) = <<"theirs", last>>
      BY <1>1, <2>5 DEF price
    <3>3. \E j \in Lane, e \in day..MaxDay : At(new, j, e) = <<"theirs", e>>
      BY <3>1, <3>2
    <3> QED BY <1>1, <3>3 DEF new
  <2>6. CASE price = Mine(last)
    <3>1. last = day
      <4>1. last <= day
        BY <2>1, <2>6 DEF OursTo, price
      <4> QED BY <1>0, <2>1, <2>3, <4>1
    <3>2. \A l \in Lane : <<c, l>> \in Ours[day] => At(row, l, day) = Mine(day)
      BY <2>6, <3>1 DEF Together, price
    <3> QED BY <1>1, <3>2 DEF new
  <2> QED BY <2>4, <2>5, <2>6
<1>2. ASSUME NEW cut \in Nat, cut <= day,
             \A l \in Lane, d \in Day : At(new, l, d) =
               IF d = day THEN cells[l] ELSE IF d < cut THEN NoReading ELSE At(row, l, d)
      PROVE  /\ Together(c, new) /\ OursTo(new, day)
             /\ \A l \in Lane : <<c, l>> \in Ours[day] => At(new, l, day) = Mine(day)
  <2>1. \A l \in Lane : <<c, l>> \in Ours[day] => At(new, l, day) = Mine(day)
    BY <1>2
  <2>2. OursTo(new, day)
    <3> SUFFICES ASSUME NEW l \in Lane, NEW d \in Day, At(new, l, d) = Mine(d) PROVE d <= day
      BY DEF OursTo
    <3>1. CASE d = day
      BY <1>0, <3>1
    <3>2. CASE d # day
      <4>1. At(row, l, d) = Mine(d)
        BY <1>2, <3>2, Sources
      <4> QED BY <4>1 DEF OursTo
    <3> QED BY <3>1, <3>2
  <2>3. Together(c, new)
    <3> SUFFICES ASSUME NEW l \in Lane, NEW d \in Day, At(new, l, d) = Mine(d), NEW k \in Lane, <<c, k>> \in Ours[d]
                 PROVE  At(new, k, d) = Mine(d)
      BY DEF Together
    <3>1. CASE d = day
      BY <2>1, <3>1
    <3>2. CASE d # day
      <4>1. At(row, l, d) = Mine(d) /\ ~(d < cut)
        BY <1>2, <3>2, Sources
      <4>2. At(row, k, d) = Mine(d)
        BY <4>1 DEF Together
      <4> QED BY <1>2, <3>2, <4>1, <4>2
    <3> QED BY <3>1, <3>2
  <2> QED BY <2>1, <2>2, <2>3
<1>3. \/ ProperRow(row) /\ day <= row.last /\ new = row
      \/ \E cut \in Nat : cut <= day /\ \A l \in Lane, d \in Day :
           At(new, l, d) = IF d = day THEN cells[l] ELSE IF d < cut THEN NoReading ELSE At(row, l, d)
  BY AppendedReads DEF new
<1> QED BY <1>1, <1>2, <1>3 DEF new

\* A splice leaves what we published, all of it and nothing more, and fills what
\* the provider has.
LEMMA SplicedOurs ==
  ASSUME NEW c, NEW row, RowOK(row), NEW R, Readings(R), Together(c, row)
  PROVE  LET new == Spliced(row, R) IN
         /\ Together(c, new) /\ \A day \in Nat : OursTo(row, day) => OursTo(new, day)
         /\ \A d \in DOMAIN R, l \in Lane : R[d][l] # NoReading =>
              At(new, l, d) # NoReading \/ d <= new.last - Retention
<1> DEFINE new == Spliced(row, R)
           last == LastOf(row, R)
           start == StartOf(row, R)
<1>0. /\ Span(row, R) = DOMAIN R \cup (IF row = NoRow THEN {} ELSE {row.start, row.last})
      /\ last \in Span(row, R) /\ last \in Day /\ start \in Day /\ start <= last
      /\ \A d \in Span(row, R) : d <= last
      /\ \A d \in Span(row, R) : d < start => start = last - Retention + 1
  BY SpanFacts, Zenon
<1>1. DOMAIN R \subseteq Day /\ (\A d \in DOMAIN R : \E l \in Lane : R[d][l] # NoReading)
  BY DEF Readings
<1>2. \A d \in Day : d \in Nat
  BY DEF Day
<1>3. Retention \in Nat
  BY PriceAssumption
<1>4. \A d \in DOMAIN R : d < start => d <= last - Retention
  BY <1>0, <1>1, <1>2, <1>3
<1>5. CASE ~Lacks(row, R)
  <2>1. new = row
    BY <1>5, NothingLacks
  <2> HIDE DEF new, last, start
  <2>2. Together(c, new) /\ \A day \in Nat : OursTo(row, day) => OursTo(new, day)
    BY <2>1
  <2>3. \A d \in DOMAIN R, l \in Lane : d >= start /\ R[d][l] # NoReading => At(row, l, d) # NoReading
    BY <1>5 DEF Lacks, start
  <2>4. row # NoRow => /\ ProperRow(row) /\ row.start \in Nat /\ row.last \in Nat /\ row.start <= row.last
                      /\ row.start <= last /\ row.last <= last
    BY <1>0 DEF RowOK, ProperRow, Day
  <2>5. row # NoRow /\ row.last = last
    <3>1. CASE last \in DOMAIN R
      <4>1. PICK l \in Lane : R[last][l] # NoReading
        BY <1>1, <3>1
      <4>2. At(row, l, last) # NoReading
        BY <1>0, <1>2, <2>3, <3>1, <4>1
      <4>3. row # NoRow
        BY <1>0, <4>2, NoRowBlank
      <4>4. last \in row.start..row.last
        BY <1>0, <2>4, <4>2, <4>3, AtFacts
      <4> QED BY <1>0, <1>2, <2>4, <4>3, <4>4
    <3>2. CASE last \notin DOMAIN R
      <4>1. row # NoRow /\ (last = row.start \/ last = row.last)
        BY <1>0, <3>2
      <4> QED BY <2>4, <4>1
    <3> QED BY <3>1, <3>2
  <2>6. ASSUME NEW d \in DOMAIN R, NEW l \in Lane, R[d][l] # NoReading
        PROVE  At(new, l, d) # NoReading \/ d <= new.last - Retention
    <3>1. CASE d >= start
      BY <2>1, <2>3, <2>6, <3>1
    <3>2. CASE d < start
      BY <1>4, <2>1, <2>5, <3>2
    <3>3. d \in Nat /\ start \in Nat
      BY <1>0, <1>1, <1>2
    <3> QED BY <3>1, <3>2, <3>3
  <2> QED BY <2>2, <2>6 DEF new
<1>6. CASE Lacks(row, R)
  <2>1. new.last = last
    <3>1. PICK l \in Lane : TRUE
      BY PriceAssumption
    <3> QED BY <1>6, <3>1, LaneSpliced
  <2>2. \A l \in Lane, d \in Day : At(new, l, d) =
          IF start <= d /\ d <= last THEN OursFirst(At(row, l, d), ReadOf(R, l, d)) ELSE NoReading
    BY <1>6, ReadSpliced
  <2> HIDE DEF new, last, start
  <2>3. \A l \in Lane, d \in Day : ReadOf(R, l, d) \in {NoReading, <<"theirs", d>>}
    BY DEF ReadOf, Readings
  <2>4. \A l \in Lane, d \in Day : At(new, l, d) = Mine(d) <=> At(row, l, d) = Mine(d) /\ start <= d /\ d <= last
    BY <2>2, <2>3, Sources DEF OursFirst
  <2>5. Together(c, new) /\ \A day \in Nat : OursTo(row, day) => OursTo(new, day)
    BY <2>4 DEF Together, OursTo
  <2>6. ASSUME NEW d \in DOMAIN R, NEW l \in Lane, R[d][l] # NoReading
        PROVE  At(new, l, d) # NoReading \/ d <= new.last - Retention
    <3>1. d \in Day /\ ReadOf(R, l, d) # NoReading /\ d <= last
      BY <1>0, <1>1, <2>6 DEF ReadOf
    <3>2. CASE start <= d
      BY <2>2, <3>1, <3>2 DEF OursFirst
    <3>3. CASE d < start
      BY <1>4, <2>1, <3>3
    <3>4. d \in Nat /\ start \in Nat
      BY <1>0, <1>2, <3>1
    <3> QED BY <3>2, <3>3, <3>4
  <2> QED BY <2>5, <2>6 DEF new
<1> QED BY <1>5, <1>6


-----------------------------------------------------------------------------
\* What stands and what is filled lasts through every step.
Lasting ==
  /\ \A c \in Card, l \in Lane, d \in Day : Stands(c, l, d) => Stands(c, l, d)'
  /\ \A c \in Card : \A R : Readings(R) /\ FilledUp(c, R) => FilledUp(c, R)'

LEMMA LastingStep ==
  ASSUME PriceInv, Archives, [Next]_vars
  PROVE  PriceInv' /\ Lasting
<1>1. PriceInv' /\ RowsStep
  BY PriceStep
<1>2. lastDay' >= lastDay
  <2>1. lastDay \in Nat
    BY DEF PriceInv, ShardOK
  <2>2. CASE Finish
    <3>1. lastDay' = run.day /\ run.day \in Nat /\ lastDay <= run.day
      BY <2>2 DEF Finish, Archives, PriceInv, RunOK, Day
    <3> QED BY <2>1, <3>1
  <2>3. CASE ~Finish
    <3>1. lastDay' = lastDay
      BY <2>3 DEF Next, vars, daily, Publish, Archiver, ArchiverOnly, CheckManifest, FetchShard, AppendDay,
         ArchiveFails, Backfill, BackfillFails, StartBackfill, SpliceHistories, BackfillDone, FillerOnly,
         ReplaceFile, Importer, ImportFails, StatFile, OpenFile, PutMonthly, MonthlyDone, ImporterOnly, Restart
    <3> QED BY <2>1, <3>1
  <2> QED BY <2>2, <2>3
<1>3. ShardOK'
  BY <1>1 DEF PriceInv
<1>4. \A c \in Card, l \in Lane, d \in Day : Stands(c, l, d) => Stands(c, l, d)'
  BY <1>1, <1>2, <1>3, StandsStays
<1>5. \A c \in Card : \A R : Readings(R) /\ FilledUp(c, R) => FilledUp(c, R)'
  BY <1>1, <1>2, <1>3, FilledStays
<1> QED BY <1>1, <1>4, <1>5 DEF Lasting

LEMMA ArchivedLasts == ASSUME ArchivedOK, Lasting, archived' = archived PROVE ArchivedOK'
<1>1. ASSUME NEW r \in archived
      PROVE  r.card \in Card /\ r.lane \in Lane /\ r.day \in Day /\ Stands(r.card, r.lane, r.day)'
  <2> DEFINE c == r.card
             l == r.lane
             d == r.day
  <2>1. c \in Card /\ l \in Lane /\ d \in Day /\ Stands(c, l, d)
    BY DEF ArchivedOK
  <2> HIDE DEF c, l, d
  <2>2. Stands(c, l, d)'
    BY <2>1 DEF Lasting
  <2> QED BY <2>1, <2>2 DEF c, l, d
<1> QED BY <1>1 DEF ArchivedOK

LEMMA ArchivesLasts ==
  ASSUME PriceInv, Archives, Lasting, UNCHANGED <<run, lastDay>>
  PROVE  Archives'
<1>1. ASSUME run.pc = "append", NEW p \in run.priced, p[1] \notin run.todo PROVE Stands(p[1], p[2], run.day)'
  <2> DEFINE c == p[1]
             l == p[2]
             d == run.day
  <2>1. c \in Card /\ l \in Lane /\ d \in Day /\ Stands(c, l, d)
    BY <1>1 DEF Archives, PriceInv, RunOK
  <2>2. d' = d
    OBVIOUS
  <2> HIDE DEF c, l
  <2>3. PICK day \in Day : day = d
    BY <2>1
  <2>4. Stands(c, l, day)'
    BY <2>1, <2>3 DEF Lasting
  <2> QED BY <2>2, <2>3, <2>4 DEF c, l
<1> QED BY <1>1 DEF Archives

LEMMA FillsLasts ==
  ASSUME PriceInv, Fills, Lasting, UNCHANGED <<fill, taken>>
  PROVE  Fills'
<1>1. ASSUME fill.pc = "splice", NEW c \in DOMAIN fill.series \ fill.todo PROVE FilledUp(c, fill.series[c])'
  <2>1. PICK R : R = fill.series[c]
    OBVIOUS
  <2>2. c \in Card /\ Readings(R) /\ FilledUp(c, R)
    BY <1>1, <2>1 DEF Fills, PriceInv, FillOK
  <2>3. FilledUp(c, R)'
    BY <2>2 DEF Lasting
  <2> QED BY <2>1, <2>3
<1>2. ASSUME NEW c \in DOMAIN taken PROVE c \in Card /\ Readings(taken[c]) /\ FilledUp(c, taken[c])'
  <2>1. PICK R : R = taken[c]
    OBVIOUS
  <2>2. c \in Card /\ Readings(R) /\ FilledUp(c, R)
    BY <2>1 DEF Fills
  <2>3. FilledUp(c, R)'
    BY <2>2 DEF Lasting
  <2> QED BY <2>1, <2>2, <2>3
<1> QED BY <1>1, <1>2 DEF Fills

\* What we published stays together while rows stay, or go.
LEMMA OursLasts ==
  ASSUME PriceInv, OursOK, shard'.day \in Nat, shard'.day >= shard.day,
         \A c \in Card : rows'[c] \in {rows[c], NoRow},
         run'.pc = "append" => (run.pc = "append" /\ run'.day = run.day) \/ run'.day = shard.day
  PROVE  OursOK'
<1>0. shard.day \in Nat /\ \A d \in Day : d \in Nat
  BY PriceAssumption DEF PriceInv, ShardOK, Day
<1>1. ASSUME NEW c \in Card, NEW row \in {rows[c], NoRow}
      PROVE  /\ Together(c, row) /\ OursTo(row, shard.day) /\ OursTo(row, shard'.day)
             /\ run.pc = "append" => OursTo(row, run.day)
  <2>1. CASE row = NoRow
    <3>1. \A l \in Lane, d \in Day : At(row, l, d) # Mine(d)
      BY <2>1, NoRowBlank, Sources
    <3> QED BY <3>1 DEF Together, OursTo
  <2>2. CASE row = rows[c]
    <3>1. Together(c, row) /\ OursTo(row, shard.day) /\ (run.pc = "append" => OursTo(row, run.day))
      BY <2>2 DEF OursOK
    <3>2. \A d \in Day : d <= shard.day => d <= shard'.day
      BY <1>0
    <3> QED BY <3>1, <3>2 DEF OursTo
  <2> QED BY <2>1, <2>2
<1>2. ASSUME NEW c \in Card
      PROVE  /\ Together(c, rows'[c]) /\ OursTo(rows'[c], shard'.day)
             /\ run'.pc = "append" => OursTo(rows'[c], run'.day)
  <2>1. PICK row \in {rows[c], NoRow} : row = rows'[c]
    OBVIOUS
  <2>2. /\ Together(c, row) /\ OursTo(row, shard.day) /\ OursTo(row, shard'.day)
        /\ run.pc = "append" => OursTo(row, run.day)
    BY <1>1
  <2> QED BY <2>1, <2>2
<1> QED BY <1>2 DEF OursOK, Together, OursTo


-----------------------------------------------------------------------------
\* The archiver's steps.
DailyDone == OursOK /\ Archives /\ ArchivedOK /\ Fills

LEMMA DonePublish ==
  ASSUME PriceInv, DailyDone, Lasting, NEW day \in Day, Publish(day) PROVE DailyDone'
<1>1. UNCHANGED <<rows, lastDay, run, fill, archived, taken>> /\ shard'.day = day /\ day > shard.day /\ day \in Nat
  BY DEF Publish, Day
<1>2. shard'.day \in Nat /\ shard'.day >= shard.day
  BY <1>1, PriceAssumption DEF PriceInv, ShardOK
<1>3. OursOK'
  BY <1>1, <1>2, OursLasts DEF DailyDone
<1>4. Archives' /\ ArchivedOK' /\ Fills'
  BY <1>1, ArchivesLasts, ArchivedLasts, FillsLasts DEF DailyDone
<1> QED BY <1>3, <1>4 DEF DailyDone

LEMMA DoneCheckManifest ==
  ASSUME PriceInv, DailyDone, Lasting, CheckManifest PROVE DailyDone'
<1>1. /\ UNCHANGED <<rows, shard, lastDay, fill, archived, taken>>
      /\ run'.pc = "fetch" /\ run'.day = shard.day /\ shard.day > lastDay
  BY DEF CheckManifest, ArchiverOnly, NotRunning, Due
<1>2. shard.day \in Nat /\ lastDay \in Nat
  BY PriceAssumption DEF PriceInv, ShardOK
<1>3. OursOK'
  BY <1>1, <1>2, OursLasts DEF DailyDone
<1>4. ArchivedOK' /\ Fills'
  BY <1>1, ArchivedLasts, FillsLasts DEF DailyDone
<1>5. Archives'
  BY <1>1, <1>2 DEF Archives
<1> QED BY <1>3, <1>4, <1>5 DEF DailyDone

LEMMA DoneFetchShard ==
  ASSUME PriceInv, DailyDone, Lasting, FetchShard PROVE DailyDone'
<1>1. UNCHANGED <<rows, shard, lastDay, fill, archived, taken>> /\ run.pc = "fetch"
  BY DEF FetchShard, ArchiverOnly
<1>2. shard.day \in Nat /\ lastDay \in Nat
  BY PriceAssumption DEF PriceInv, ShardOK
<1>3. CASE shard.day = run.day
  <2>1. run' = [pc |-> "append", day |-> run.day, priced |-> shard.priced, todo |-> {p[1] : p \in shard.priced}]
    BY <1>3 DEF FetchShard, PriceInv, RunOK
  <2>2. lastDay <= run.day /\ shard.priced = Ours[run.day]
    BY <1>1, <1>3 DEF DailyDone, Archives, PriceInv, ShardOK, RunOK, Day
  <2>3. \A p \in shard.priced : p[1] \in {q[1] : q \in shard.priced}
    OBVIOUS
  <2>4. Archives'
    BY <1>1, <2>1, <2>2, <2>3 DEF Archives
  <2>5. OursOK'
    BY <1>1, <1>2, <1>3, <2>1, OursLasts DEF DailyDone
  <2> QED BY <1>1, <2>4, <2>5, ArchivedLasts, FillsLasts DEF DailyDone
<1>4. CASE shard.day # run.day
  <2>1. run'.pc = "idle"
    BY <1>4 DEF FetchShard, NotRunning
  <2>2. OursOK'
    BY <1>1, <1>2, <2>1, OursLasts DEF DailyDone
  <2>3. Archives'
    BY <2>1 DEF Archives
  <2> QED BY <1>1, <2>2, <2>3, ArchivedLasts, FillsLasts DEF DailyDone
<1> QED BY <1>3, <1>4

LEMMA DoneAppendDay ==
  ASSUME PriceInv, DailyDone, Lasting, NEW c \in Card, AppendDay(c) PROVE DailyDone'
<1> DEFINE cells == [l \in Lane |-> IF <<c, l>> \in run.priced THEN <<"ours", run.day>> ELSE NoReading]
           new == Appended(rows[c], run.day, cells)
<1>1. /\ rows' = [rows EXCEPT ![c] = new] /\ UNCHANGED <<shard, lastDay, fill, archived, taken>>
      /\ run.pc = "append" /\ c \in run.todo
      /\ run' = [pc |-> "append", day |-> run.day, priced |-> run.priced, todo |-> run.todo \ {c}]
  BY DEF AppendDay, ArchiverOnly, PriceInv, RunOK
<1>2. /\ run.day \in Day /\ run.day <= shard.day /\ run.priced = Ours[run.day] /\ run.priced \subseteq Card \X Lane
      /\ run.todo \subseteq {p[1] : p \in run.priced} /\ lastDay <= run.day
  BY <1>1 DEF PriceInv, RunOK, DailyDone, Archives
<1>3. cells \in Cells(run.day) /\ \A l \in Lane : cells[l] = IF <<c, l>> \in Ours[run.day] THEN Mine(run.day) ELSE NoReading
  BY <1>2 DEF Cells, Mine
<1>4. \E l \in Lane : cells[l] # NoReading
  <2>1. PICK p \in run.priced : p[1] = c /\ p \in Card \X Lane
    BY <1>1, <1>2
  <2>2. p[2] \in Lane /\ cells[p[2]] = <<"ours", run.day>>
    BY <2>1
  <2>3. <<"ours", run.day>> # NoReading
    BY <1>2, Sources DEF Mine
  <2> HIDE DEF cells
  <2> QED BY <2>2, <2>3
<1> HIDE DEF cells
<1>5. /\ Together(c, new) /\ OursTo(new, run.day)
      /\ \A l \in Lane : <<c, l>> \in Ours[run.day] =>
           \/ At(new, l, run.day) = Mine(run.day)
           \/ \E k \in Lane, e \in run.day..MaxDay : At(new, k, e) = <<"theirs", e>>
  <2>1. RowOK(rows[c]) /\ Together(c, rows[c]) /\ OursTo(rows[c], run.day)
    BY <1>1 DEF PriceInv, RowsOK, DailyDone, OursOK
  <2> QED BY <1>2, <1>3, <1>4, <2>1, AppendedOurs
<1> HIDE DEF new
<1>6. \A e \in Card : rows'[e] = IF e = c THEN new ELSE rows[e]
  BY <1>1 DEF PriceInv, RowsOK
<1>7. OursOK'
  <2>1. OursTo(new, shard.day)
    <3>1. shard.day \in Nat /\ run.day \in Nat /\ \A d \in Day : d \in Nat
      BY <1>2, PriceAssumption DEF PriceInv, ShardOK, Day
    <3>2. \A d \in Day : d <= run.day => d <= shard.day
      BY <1>2, <3>1
    <3> QED BY <1>5, <3>2 DEF OursTo
  <2>2. ASSUME NEW e \in Card
        PROVE  Together(e, rows'[e]) /\ OursTo(rows'[e], shard.day) /\ OursTo(rows'[e], run.day)
    <3>1. CASE e = c
      BY <1>5, <1>6, <2>1, <3>1
    <3>2. CASE e # c
      <4>1. Together(e, rows[e]) /\ OursTo(rows[e], shard.day) /\ OursTo(rows[e], run.day)
        BY <1>1 DEF DailyDone, OursOK
      <4> QED BY <1>6, <3>2, <4>1
    <3> QED BY <3>1, <3>2
  <2>3. run'.day = run.day /\ shard' = shard
    BY <1>1
  <2> QED BY <2>2, <2>3 DEF OursOK, Together, OursTo
<1>8. ASSUME NEW p \in run.priced, p[1] \notin run.todo \ {c} PROVE Stands(p[1], p[2], run.day)'
  <2>1. p[1] \in Card /\ p[2] \in Lane /\ p = <<p[1], p[2]>>
    BY <1>2
  <2>2. PICK day \in Day : day = run.day
    BY <1>2
  <2>3. run'.day = day
    BY <1>1, <2>2
  <2>4. CASE p[1] = c
    <3>1. \/ At(new, p[2], day) = Mine(day)
          \/ \E k \in Lane, e \in day..MaxDay : At(new, k, e) = <<"theirs", e>>
      BY <1>2, <1>5, <2>1, <2>2, <2>4
    <3>2. rows'[p[1]] = new
      BY <1>6, <2>4
    <3>3. Stands(p[1], p[2], day)'
      BY <3>1, <3>2 DEF Stands, Mine
    <3> QED BY <2>2, <2>3, <3>3
  <2>5. CASE p[1] # c
    <3>1. Stands(p[1], p[2], day)
      BY <1>1, <1>8, <2>2, <2>5 DEF DailyDone, Archives
    <3>2. Stands(p[1], p[2], day)'
      BY <2>1, <3>1 DEF Lasting
    <3> QED BY <2>2, <2>3, <3>2
  <2> QED BY <2>4, <2>5
<1>9. Archives'
  <2>1. /\ run'.pc = "append" /\ run'.day = run.day /\ run'.priced = run.priced /\ run'.todo = run.todo \ {c}
        /\ lastDay' = lastDay
    BY <1>1
  <2> QED BY <1>2, <1>8, <2>1 DEF Archives
<1> QED BY <1>1, <1>7, <1>9, ArchivedLasts, FillsLasts DEF DailyDone

\* At the end of the run what was published of the day counts as archived.
LEMMA DoneFinish ==
  ASSUME PriceInv, DailyDone, Lasting, Finish PROVE DailyDone'
<1>1. /\ UNCHANGED <<shard, fill, taken>> /\ run.pc = "append" /\ run.todo = {} /\ run'.pc = "idle"
      /\ archived' = archived \cup {[card |-> p[1], lane |-> p[2], day |-> run.day] : p \in run.priced}
      /\ \A c \in Card : rows'[c] \in {rows[c], NoRow}
  BY DEF Finish, ArchiverOnly, NotRunning, Purged
<1>2. run.day \in Day /\ run.priced \subseteq Card \X Lane
  BY <1>1 DEF PriceInv, RunOK
<1>3. OursOK'
  <2>1. shard.day \in Nat
    BY PriceAssumption DEF PriceInv, ShardOK
  <2> QED BY <1>1, <2>1, OursLasts DEF DailyDone
<1>4. Archives'
  BY <1>1 DEF Archives
<1>5. ASSUME NEW r \in archived'
      PROVE  r.card \in Card /\ r.lane \in Lane /\ r.day \in Day /\ Stands(r.card, r.lane, r.day)'
  <2>1. r.card \in Card /\ r.lane \in Lane /\ r.day \in Day /\ Stands(r.card, r.lane, r.day)
    <3>1. CASE r \in archived
      BY <3>1 DEF DailyDone, ArchivedOK
    <3>2. CASE r \in {[card |-> p[1], lane |-> p[2], day |-> run.day] : p \in run.priced}
      <4>1. PICK p \in run.priced : r = [card |-> p[1], lane |-> p[2], day |-> run.day]
        BY <3>2
      <4>2. p[1] \in Card /\ p[2] \in Lane /\ Stands(p[1], p[2], run.day)
        BY <1>1, <1>2 DEF DailyDone, Archives
      <4> QED BY <1>2, <4>1, <4>2
    <3> QED BY <1>1, <3>1, <3>2
  <2>2. PICK c \in Card, l \in Lane, d \in Day : c = r.card /\ l = r.lane /\ d = r.day
    BY <2>1
  <2>3. Stands(c, l, d)'
    BY <2>1, <2>2 DEF Lasting
  <2> QED BY <2>1, <2>2, <2>3
<1>6. ArchivedOK'
  BY <1>5 DEF ArchivedOK
<1> QED BY <1>1, <1>3, <1>4, <1>6, FillsLasts DEF DailyDone

LEMMA DoneStops ==
  ASSUME PriceInv, DailyDone, Lasting, ArchiveFails PROVE DailyDone'
<1>1. UNCHANGED <<rows, shard, lastDay, fill, archived, taken>> /\ run'.pc = "idle"
  BY DEF ArchiveFails, ArchiverOnly, Released, NotRunning
<1>2. OursOK'
  <2>1. shard.day \in Nat
    BY PriceAssumption DEF PriceInv, ShardOK
  <2> QED BY <1>1, <2>1, OursLasts DEF DailyDone
<1>3. Archives'
  BY <1>1 DEF Archives
<1> QED BY <1>1, <1>2, <1>3, ArchivedLasts, FillsLasts DEF DailyDone


-----------------------------------------------------------------------------
\* The backfill's steps, and a restart.
LEMMA DoneStartBackfill ==
  ASSUME PriceInv, DailyDone, Lasting, StartBackfill PROVE DailyDone'
<1>1. /\ UNCHANGED <<rows, shard, lastDay, run, archived, taken>>
      /\ fill'.pc = "splice" => fill'.series = Series /\ fill'.todo = DOMAIN Series
  BY DEF StartBackfill, FillerOnly, NotFilling
<1>2. OursOK'
  <2>1. shard.day \in Nat
    BY PriceAssumption DEF PriceInv, ShardOK
  <2> QED BY <1>1, <2>1, OursLasts DEF DailyDone
<1>3. Fills'
  <2>1. ASSUME NEW c \in DOMAIN taken PROVE c \in Card /\ Readings(taken[c]) /\ FilledUp(c, taken[c])'
    <3>1. PICK R : R = taken[c]
      OBVIOUS
    <3>2. c \in Card /\ Readings(R) /\ FilledUp(c, R)
      BY <3>1 DEF DailyDone, Fills
    <3>3. FilledUp(c, R)'
      BY <3>2 DEF Lasting
    <3> QED BY <1>1, <3>1, <3>2, <3>3
  <2> QED BY <1>1, <2>1 DEF Fills
<1> QED BY <1>1, <1>2, <1>3, ArchivesLasts, ArchivedLasts DEF DailyDone

LEMMA DoneSplice ==
  ASSUME PriceInv, DailyDone, Lasting, NEW c \in Card, SpliceHistories(c) PROVE DailyDone'
<1> DEFINE R == fill.series[c]
           new == Spliced(rows[c], R)
<1>1. /\ rows' = [rows EXCEPT ![c] = new] /\ UNCHANGED <<shard, lastDay, run, archived, taken>>
      /\ fill.pc = "splice" /\ c \in fill.todo
      /\ fill' = [pc |-> "splice", series |-> fill.series, todo |-> fill.todo \ {c}]
  BY DEF SpliceHistories, FillerOnly, PriceInv, FillOK
<1>2. RowOK(rows[c]) /\ Readings(R) /\ Together(c, rows[c])
  BY <1>1 DEF PriceInv, RowsOK, FillOK, DailyDone, OursOK
<1>3. PICK S : S = R
  OBVIOUS
<1>4. /\ Together(c, new) /\ \A day \in Nat : OursTo(rows[c], day) => OursTo(new, day)
      /\ \A d \in DOMAIN S, l \in Lane : S[d][l] # NoReading =>
           At(new, l, d) # NoReading \/ d <= new.last - Retention
  BY <1>2, <1>3, SplicedOurs
<1> HIDE DEF new
<1>5. \A e \in Card : rows'[e] = IF e = c THEN new ELSE rows[e]
  BY <1>1 DEF PriceInv, RowsOK
<1>6. OursOK'
  <2>1. shard.day \in Nat /\ (run.pc = "append" => run.day \in Nat)
    BY PriceAssumption DEF PriceInv, ShardOK, RunOK, Day
  <2>2. ASSUME NEW e \in Card
        PROVE  /\ Together(e, rows'[e]) /\ OursTo(rows'[e], shard.day)
               /\ run.pc = "append" => OursTo(rows'[e], run.day)
    <3>1. Together(e, rows[e]) /\ OursTo(rows[e], shard.day) /\ (run.pc = "append" => OursTo(rows[e], run.day))
      BY DEF DailyDone, OursOK
    <3>2. CASE e = c
      BY <1>4, <1>5, <2>1, <3>1, <3>2
    <3>3. CASE e # c
      BY <1>5, <3>1, <3>3
    <3> QED BY <3>2, <3>3
  <2> QED BY <1>1, <2>2 DEF OursOK, Together, OursTo
<1>7. FilledUp(c, S)'
  <2>1. ASSUME NEW d \in DOMAIN S, NEW l \in Lane, S[d][l] # NoReading
        PROVE  Aged(d)' \/ At(rows'[c], l, d) # NoReading
    <3>1. At(new, l, d) # NoReading \/ d <= new.last - Retention
      BY <1>4, <2>1
    <3>2. rows'[c] = new
      BY <1>5
    <3> QED BY <3>1, <3>2 DEF Aged
  <2> QED BY <2>1 DEF FilledUp
<1> HIDE DEF R
<1>8. ASSUME NEW e \in DOMAIN fill.series \ (fill.todo \ {c}) PROVE FilledUp(e, fill.series[e])'
  <2>1. PICK T : T = fill.series[e]
    OBVIOUS
  <2>2. fill'.series[e] = T
    BY <1>1, <2>1
  <2>3. CASE e = c
    <3>1. T = S
      BY <1>3, <2>1, <2>3 DEF R
    <3> QED BY <1>7, <2>2, <2>3, <3>1
  <2>4. CASE e # c
    <3>1. e \in Card /\ Readings(T) /\ FilledUp(e, T)
      BY <1>1, <2>1, <2>4 DEF PriceInv, FillOK, DailyDone, Fills
    <3>2. FilledUp(e, T)'
      BY <3>1 DEF Lasting
    <3> QED BY <2>2, <3>2
  <2> QED BY <2>3, <2>4
<1>9. ASSUME NEW e \in DOMAIN taken PROVE e \in Card /\ Readings(taken[e]) /\ FilledUp(e, taken[e])'
  <2>1. PICK T : T = taken[e]
    OBVIOUS
  <2>2. e \in Card /\ Readings(T) /\ FilledUp(e, T)
    BY <2>1 DEF DailyDone, Fills
  <2>3. FilledUp(e, T)'
    BY <2>2 DEF Lasting
  <2> QED BY <1>1, <2>1, <2>2, <2>3
<1>10. Fills'
  <2>1. fill'.pc = "splice" /\ fill'.series = fill.series /\ fill'.todo = fill.todo \ {c} /\ taken' = taken
    BY <1>1
  <2> QED BY <1>8, <1>9, <2>1 DEF Fills
<1> QED BY <1>1, <1>6, <1>10, ArchivesLasts, ArchivedLasts DEF DailyDone

\* At the end of the backfill what the provider had counts as taken.
LEMMA DoneBackfillDone ==
  ASSUME PriceInv, DailyDone, Lasting, BackfillDone PROVE DailyDone'
<1>1. /\ UNCHANGED <<rows, shard, lastDay, run, archived>> /\ fill.pc = "splice" /\ fill.todo = {}
      /\ taken' = fill.series /\ fill'.pc = "idle"
  BY DEF BackfillDone, AllSpliced, FillerOnly, NotFilling
<1>2. OursOK'
  <2>1. shard.day \in Nat
    BY PriceAssumption DEF PriceInv, ShardOK
  <2> QED BY <1>1, <2>1, OursLasts DEF DailyDone
<1>3. ASSUME NEW c \in DOMAIN taken' PROVE c \in Card /\ Readings(taken'[c]) /\ FilledUp(c, taken[c])'
  <2>1. PICK R : R = taken'[c]
    OBVIOUS
  <2>2. R = fill.series[c] /\ c \in DOMAIN fill.series \ fill.todo
    BY <1>1, <2>1
  <2>3. c \in Card /\ Readings(R) /\ FilledUp(c, R)
    BY <1>1, <2>2 DEF PriceInv, FillOK, DailyDone, Fills
  <2>4. FilledUp(c, R)'
    BY <2>3 DEF Lasting
  <2> QED BY <2>1, <2>3, <2>4
<1>4. Fills'
  BY <1>1, <1>3 DEF Fills
<1> QED BY <1>1, <1>2, <1>4, ArchivesLasts, ArchivedLasts DEF DailyDone

\* The backfill's state goes, what was taken stays.
LEMMA TakenLasts ==
  ASSUME Fills, Lasting, taken' = taken, fill'.pc # "splice" PROVE Fills'
<1>1. ASSUME NEW c \in DOMAIN taken PROVE c \in Card /\ Readings(taken[c]) /\ FilledUp(c, taken[c])'
  <2>1. PICK R : R = taken[c]
    OBVIOUS
  <2>2. c \in Card /\ Readings(R) /\ FilledUp(c, R)
    BY <2>1 DEF Fills
  <2>3. FilledUp(c, R)'
    BY <2>2 DEF Lasting
  <2> QED BY <2>1, <2>2, <2>3
<1> QED BY <1>1 DEF Fills

LEMMA DoneBackfillFails ==
  ASSUME PriceInv, DailyDone, Lasting, BackfillFails PROVE DailyDone'
<1>1. UNCHANGED <<rows, shard, lastDay, run, archived, taken>> /\ fill'.pc # "splice"
  BY DEF BackfillFails, FillerOnly, NotFilling
<1>2. OursOK'
  <2>1. shard.day \in Nat
    BY PriceAssumption DEF PriceInv, ShardOK
  <2> QED BY <1>1, <2>1, OursLasts DEF DailyDone
<1> QED BY <1>1, <1>2, TakenLasts, ArchivesLasts, ArchivedLasts DEF DailyDone

LEMMA DoneRestart ==
  ASSUME PriceInv, DailyDone, Lasting, Restart PROVE DailyDone'
<1>1. /\ UNCHANGED <<shard, lastDay, archived, taken>> /\ fill'.pc # "splice" /\ run'.pc = "idle"
      /\ rows' \in {rows, Purged}
  BY DEF Restart, NotFilling, NotRunning
<1>2. \A c \in Card : rows'[c] \in {rows[c], NoRow}
  BY <1>1 DEF Purged
<1>3. OursOK'
  <2>1. shard.day \in Nat
    BY PriceAssumption DEF PriceInv, ShardOK
  <2> QED BY <1>1, <1>2, <2>1, OursLasts DEF DailyDone
<1>4. Archives'
  BY <1>1 DEF Archives
<1> QED BY <1>1, <1>3, <1>4, TakenLasts, ArchivedLasts DEF DailyDone

LEMMA DoneElsewhere ==
  ASSUME PriceInv, DailyDone, Lasting, UNCHANGED <<daily>> PROVE DailyDone'
<1>1. UNCHANGED <<rows, shard, lastDay, run, fill, archived, taken>>
  BY DEF daily
<1>2. OursOK'
  <2>1. shard.day \in Nat
    BY PriceAssumption DEF PriceInv, ShardOK
  <2> QED BY <1>1, <2>1, OursLasts DEF DailyDone
<1> QED BY <1>1, <1>2, ArchivesLasts, ArchivedLasts, FillsLasts DEF DailyDone

-----------------------------------------------------------------------------
\* The monthly import. While the stamp is that of the file, nothing is imported;
\* and an import of a file that was replaced meanwhile leaves an older stamp.
LEMMA ImportsStep ==
  ASSUME Imports, [Next]_vars PROVE Imports'
<1>0. /\ file \in Nat /\ stamp \in Nat /\ stamp <= file /\ months = [c \in Card |-> months[c]]
      /\ read = [pc |-> read.pc, stamp |-> read.stamp, opened |-> read.opened, todo |-> read.todo]
      /\ read.pc # "idle" => stamp < file /\ read.stamp \in Nat /\ read.stamp <= file
      /\ read.pc = "lines" /\ read.stamp = file =>
           /\ read.opened = file
           /\ \A c \in Card \ read.todo : c \in Versions[file] => months[c] = file
      /\ stamp = file => \A c \in Card : file = 0 \/ (c \in Versions[file] => months[c] = file)
  BY DEF Imports
<1>1. CASE ReplaceFile
  <2>1. file' = file + 1 /\ UNCHANGED <<months, stamp, read>>
    BY <1>1 DEF ReplaceFile
  <2>2. file' \in Nat /\ stamp < file' /\ stamp # file' /\ (read.pc # "idle" => read.stamp # file' /\ read.stamp <= file')
    BY <1>0, <2>1
  <2> QED BY <1>0, <2>1, <2>2 DEF Imports
<1>2. CASE StatFile
  <2>1. /\ read' = [pc |-> "open", stamp |-> file, opened |-> 0, todo |-> {}] /\ stamp # file
        /\ UNCHANGED <<months, file, stamp>>
    BY <1>2 DEF StatFile, NotReading
  <2>2. stamp < file /\ file <= file
    BY <1>0, <2>1
  <2> QED BY <1>0, <2>1, <2>2 DEF Imports
<1>3. CASE OpenFile
  <2>1. /\ read' = [pc |-> "lines", stamp |-> read.stamp, opened |-> file, todo |-> Card] /\ read.pc = "open"
        /\ UNCHANGED <<months, file, stamp>>
    BY <1>0, <1>3 DEF OpenFile
  <2> QED BY <1>0, <2>1 DEF Imports
<1>4. ASSUME NEW c \in Card, NEW v \in DOMAIN Versions, PutMonthly(c, v) PROVE Imports'
  <2>1. /\ read' = [pc |-> "lines", stamp |-> read.stamp, opened |-> read.opened, todo |-> read.todo \ {c}]
        /\ read.pc = "lines" /\ v \in {read.opened, file} /\ UNCHANGED <<file, stamp>>
        /\ months' = IF c \in Versions[v] THEN [months EXCEPT ![c] = v] ELSE months
    BY <1>0, <1>4 DEF PutMonthly
  <2>2. stamp < file /\ stamp # file
    BY <1>0, <2>1
  <2>3. /\ \A e \in Card : months'[e] = IF e = c /\ c \in Versions[v] THEN v ELSE months[e]
        /\ months' = [e \in Card |-> months'[e]]
    BY <1>0, <2>1
  <2>4. ASSUME read.stamp = file, NEW e \in Card \ (read.todo \ {c}), e \in Versions[file]
        PROVE  months'[e] = file
    BY <1>0, <2>1, <2>3, <2>4
  <2> QED BY <1>0, <2>1, <2>2, <2>3, <2>4 DEF Imports
<1>5. CASE MonthlyDone
  <2>1. /\ stamp' = read.stamp /\ read'.pc = "idle" /\ UNCHANGED <<months, file>>
        /\ read.pc = "lines" /\ read.todo = {}
        /\ read' = [pc |-> "idle", stamp |-> 0, opened |-> 0, todo |-> {}]
    BY <1>5 DEF MonthlyDone, StampBefore, NotReading
  <2>2. read.stamp \in Nat /\ read.stamp <= file
    BY <1>0, <2>1
  <2>3. read.stamp = file => \A c \in Card : c \in Versions[file] => months[c] = file
    BY <1>0, <2>1
  <2> QED BY <1>0, <2>1, <2>2, <2>3 DEF Imports
<1>6. CASE ImportFails \/ Restart
  <2>1. UNCHANGED <<months, file, stamp>> /\ read' = [pc |-> "idle", stamp |-> 0, opened |-> 0, todo |-> {}]
    BY <1>6 DEF ImportFails, Restart, NotReading
  <2> QED BY <1>0, <2>1 DEF Imports
<1>7. CASE UNCHANGED <<monthly>>
  <2>1. UNCHANGED <<months, file, stamp, read>>
    BY <1>7 DEF monthly
  <2> QED BY <1>0, <2>1 DEF Imports
<1>8. CASE \/ \E day \in Day : Publish(day)
           \/ Archiver \/ ArchiveFails \/ Backfill \/ BackfillFails \/ UNCHANGED vars
  <2>1. UNCHANGED <<monthly>>
    BY <1>8 DEF vars, monthly, Publish, Archiver, ArchiverOnly, CheckManifest, FetchShard, AppendDay, Finish,
       ArchiveFails, Backfill, BackfillFails, StartBackfill, SpliceHistories, BackfillDone, FillerOnly
  <2> QED BY <1>7, <2>1
<1> QED BY <1>1, <1>2, <1>3, <1>4, <1>5, <1>6, <1>8 DEF Next, Importer


-----------------------------------------------------------------------------
LEMMA DoneInit == Init => DoneInv
<1> SUFFICES ASSUME Init PROVE DoneInv
  OBVIOUS
<1>1. \A c \in Card, l \in Lane, d \in Day : At(rows[c], l, d) # Mine(d)
  <2>1. \A c \in Card : rows[c] = NoRow
    BY DEF Init
  <2> QED BY <2>1, NoRowBlank, Sources
<1>2. OursOK
  BY <1>1 DEF OursOK, Together, OursTo
<1>3. Archives /\ ArchivedOK /\ Fills
  BY DEF Init, NotRunning, NotFilling, Archives, ArchivedOK, Fills
<1>4. Imports
  BY DEF Init, NotReading, Imports
<1> QED BY <1>2, <1>3, <1>4 DEF DoneInv

LEMMA DoneStep == PriceInv /\ DoneInv /\ [Next]_vars => DoneInv'
<1> SUFFICES ASSUME PriceInv, DoneInv, [Next]_vars PROVE DoneInv'
  OBVIOUS
<1>1. DailyDone /\ Imports
  BY DEF DoneInv, DailyDone
<1>2. Imports'
  BY <1>1, ImportsStep
<1>3. Lasting
  BY <1>1, LastingStep DEF DailyDone
<1>4. DailyDone'
  <2>1. CASE \E day \in Day : Publish(day)
    BY <1>1, <1>3, <2>1, DonePublish
  <2>2. CASE Archiver \/ ArchiveFails
    BY <1>1, <1>3, <2>2, DoneCheckManifest, DoneFetchShard, DoneAppendDay, DoneFinish, DoneStops DEF Archiver
  <2>3. CASE Backfill \/ BackfillFails
    BY <1>1, <1>3, <2>3, DoneStartBackfill, DoneSplice, DoneBackfillDone, DoneBackfillFails DEF Backfill
  <2>4. CASE ReplaceFile \/ Importer \/ ImportFails
    <3>1. UNCHANGED <<daily>>
      BY <2>4 DEF ReplaceFile, Importer, ImportFails, StatFile, OpenFile, MonthlyDone, PutMonthly, ImporterOnly
    <3> QED BY <1>1, <1>3, <3>1, DoneElsewhere
  <2>5. CASE Restart
    BY <1>1, <1>3, <2>5, DoneRestart
  <2>6. CASE UNCHANGED vars
    BY <1>1, <1>3, <2>6, DoneElsewhere DEF vars
  <2> QED BY <2>1, <2>2, <2>3, <2>4, <2>5, <2>6 DEF Next
<1> QED BY <1>2, <1>4 DEF DoneInv, DailyDone

\* What is too old for a row, or for the last day, is too old for the archive.
LEMMA AgedIsTooOld ==
  ASSUME PriceInv, NEW d \in Day, Aged(d) PROVE TooOld(d)
<1> DEFINE S == {rows[c].last : c \in Card} \cup {lastDay}
<1>1. /\ lastDay \in Nat /\ lastDay <= MaxDay /\ MaxDay \in Nat /\ Retention \in Nat /\ d \in Nat
      /\ \A c \in Card : rows[c].last \in Nat /\ rows[c].last <= MaxDay
  <2>1. MaxDay \in Nat /\ Retention \in Nat
    BY PriceAssumption, Zenon
  <2>2. lastDay \in Nat /\ lastDay <= MaxDay
    BY <2>1 DEF PriceInv, ShardOK
  <2>3. ASSUME NEW c \in Card PROVE rows[c].last \in Nat /\ rows[c].last <= MaxDay
    <3>1. rows[c] = NoRow \/ ProperRow(rows[c])
      BY DEF PriceInv, RowsOK, RowOK
    <3>2. CASE rows[c] = NoRow
      BY <2>1, <3>2 DEF NoRow
    <3>3. CASE ProperRow(rows[c])
      BY <2>1, <3>3 DEF ProperRow, Day
    <3> QED BY <3>1, <3>2, <3>3
  <2> QED BY <2>1, <2>2, <2>3 DEF Day
<1>2. S \subseteq Nat /\ S # {} /\ \A n \in S : n <= MaxDay
  BY <1>1
<1>3. \E n \in S : d <= n - Retention
  BY DEF Aged
<1>4. Newest = Max(S)
  BY DEF Newest
<1> HIDE DEF S
<1>5. PICK m \in S : \A n \in S : n <= m
  BY <1>1, <1>2, GreatestExists
<1>6. Max(S) \in S /\ \A n \in S : Max(S) >= n
  <2>1. \A n \in S : m >= n
    BY <1>2, <1>5
  <2>2. Max(S) = CHOOSE x \in S : \A n \in S : x >= n
    BY DEF Max
  <2> QED BY <2>1, <2>2, Zenon
<1>7. PICK n \in S : d <= n - Retention
  BY <1>3
<1>8. Max(S) \in Nat /\ n \in Nat /\ Max(S) >= n
  BY <1>2, <1>6
<1>9. d <= Max(S) - Retention
  BY <1>1, <1>7, <1>8
<1> QED BY <1>4, <1>9 DEF TooOld

\* What counts as done is there: a day that is archived, as we published it, but
\* for the cards that the backfill had already written as far; a backfill that is
\* done, in every hole it could fill; and a monthly file that is imported, whole.
\* No failure, no restart and no job that runs meanwhile takes it away
\* (priceArchive.ts, priceBackfill.ts, priceMonthly.ts).
THEOREM PriceDoneIsThere == Spec => []DoneIsThere
<1>1. PriceInv /\ DoneInv => DoneIsThere
  <2> SUFFICES ASSUME PriceInv, DoneInv PROVE DoneIsThere
    OBVIOUS
  <2>1. ArchivedIsThere
    <3> SUFFICES ASSUME NEW r \in archived
                 PROVE  \/ TooOld(r.day)
                        \/ At(rows[r.card], r.lane, r.day) = <<"ours", r.day>>
                        \/ \E l \in Lane, d \in r.day..MaxDay : At(rows[r.card], l, d) = <<"theirs", d>>
      BY DEF ArchivedIsThere
    <3>1. r.day \in Day /\ Stands(r.card, r.lane, r.day)
      BY DEF DoneInv, ArchivedOK
    <3>2. Aged(r.day) => TooOld(r.day)
      BY <3>1, AgedIsTooOld
    <3> QED BY <3>1, <3>2 DEF Stands, Mine
  <2>2. FilledIsThere
    <3> SUFFICES ASSUME NEW c \in DOMAIN taken, NEW d \in DOMAIN taken[c], NEW l \in Lane
                 PROVE  taken[c][d][l] = NoReading \/ TooOld(d) \/ At(rows[c], l, d) # NoReading
      BY DEF FilledIsThere
    <3>1. d \in Day /\ FilledUp(c, taken[c])
      BY DEF DoneInv, Fills, Readings
    <3>2. Aged(d) => TooOld(d)
      BY <3>1, AgedIsTooOld
    <3> QED BY <3>1, <3>2 DEF FilledUp
  <2>3. ImportedIsThere
    BY DEF DoneInv, Imports, ImportedIsThere
  <2> QED BY <2>1, <2>2, <2>3 DEF DoneIsThere
<1> QED BY <1>1, DoneInit, DoneStep, PriceInvariant, PTL DEF Spec

=============================================================================
