---------------------------- MODULE CardHistory ----------------------------
(***************************************************************************)
(* The cards of one device, the log of what happened to them, and undo and *)
(* redo over that log (client/src/db, client/src/history). Every writer is *)
(* one transaction: it changes rows and adds events to the log. Undo       *)
(* reverses the events of an entry and deletes them; redo applies them     *)
(* again as new events. Both are refused when a newer event touches a row  *)
(* they would write.                                                       *)
(*                                                                         *)
(* One card is modelled (two cards share no row), in a few printings. A    *)
(* copy is a printing with its condition, finish and language. The time of *)
(* a write is a number no other write has. Left out: special conditions,   *)
(* the companion, basics of any printing, tags, prices, receipts, decks    *)
(* that are deleted, and rows that another device changes.                 *)
(***************************************************************************)
EXTENDS Integers, Sequences, FiniteSets, FiniteSetsExt, SequencesExt

CONSTANTS
  Copy,       \* the copies of the card
  AnyPrinting,        \* the line of a wish or a slot that names no printing
  Place,      \* the boards of containers
  DeckOf,     \* [Place -> the container a board belongs to]
  Trade,      \* the trades
  Troubles,   \* what may go wrong: "rekey", "printing", "fold", "overtaken",
              \* "hurry", "redelivered"; each is told where it is used
  Limit,      \* the size of the redo stack
  MaxQty,     \* bound: copies in a row
  MaxWrites, MaxUndos  \* bounds: changes, and undos

ASSUME HistoryAssumption ==
  /\ AnyPrinting \notin Copy
  /\ Troubles \subseteq {"rekey", "printing", "fold", "overtaken", "hurry", "redelivered"}
  /\ {Limit, MaxQty, MaxWrites, MaxUndos} \subseteq Nat /\ Limit > 0

VARIABLES
  rows,     \* the tables: owned and marked [Copy -> Nat], wished [Line -> Nat],
            \* slots [Place -> [Line -> Nat]]; a row at zero is no row
  log,      \* the events
  trades,   \* the trades that were written down
  redo,     \* the redo stack, newest last
  own,      \* the events that redo wrote
  asked,    \* the replays that are under way
  clock, writes, undos,
  trouble,  \* which of Troubles this behaviour meets, or "none"
  replayed, \* history: the undone entries that were put back, by time of undo
  spoiled   \* history: the rows for which redo was refused, or that were undone
            \* other than by the keyboard, and the trades that were undone

redoVars == <<redo, own, asked, replayed>>
vars == <<rows, log, trades, redoVars, clock, writes, undos, trouble, spoiled>>

-----------------------------------------------------------------------------
Line == Copy \cup {AnyPrinting}
Thing == ({"copy"} \X Copy) \cup ({"place"} \X Place) \cup {<<"wish", AnyPrinting>>}
Lines(r, p) == {l \in Line : r.slots[p][l] > 0}
Smaller(a, b) == IF a < b THEN a ELSE b
AtLeast0(n) == IF n < 0 THEN 0 ELSE n
SumOf(f, S) == MapThenSumSet(LAMBDA x : f[x], S)
Counts(r) == [t \in Thing |-> CASE t[1] = "copy"  -> r.owned[t[2]]
                                [] t[1] = "place" -> SumOf(r.slots[t[2]], Line)
                                [] OTHER          -> SumOf(r.wished, Line)]

Init ==
  /\ rows = [owned |-> [c \in Copy |-> 0], marked |-> [c \in Copy |-> 0],
             wished |-> [l \in Line |-> 0], slots |-> [p \in Place |-> [l \in Line |-> 0]]]
  /\ log = {} /\ trades = {} /\ redo = <<>> /\ own = {} /\ asked = {}
  /\ clock = 0 /\ writes = 0 /\ undos = 0 /\ trouble \in Troubles \cup {"none"}
  /\ replayed = {} /\ spoiled = {}

\* The n-th event of the write that happens now. An entry of the history is the
\* events of one ref: a batch, a trade or the event alone.
Ev(n, kind, at, qty) == [id |-> <<clock, n>>, ts |-> clock, kind |-> kind, at |-> at,
                         qty |-> qty, ref |-> <<"single", <<clock, n>>>>, hand |-> FALSE]
InBatch(E) == {[e EXCEPT !.ref = <<"batch", <<clock, 0>>>>] : e \in E}
InTrade(t, E) == {[e EXCEPT !.ref = <<"trade", t>>] : e \in E}
ByHand(e) == [e EXCEPT !.hand = TRUE]

\* A writer: the tables as they end up, and the log.
Writes(r, L) ==
  /\ writes' = writes + 1
  /\ clock' = clock + 2
  /\ rows' = r /\ log' = L
  /\ trouble = "printing" \/ \A p \in Place : Cardinality(Lines(r, p)) <= 1
  /\ UNCHANGED <<redoVars, undos, trouble, spoiled>>
Room(n) == n <= MaxQty
SetTo(r, c, n) == [r EXCEPT !.owned[c] = n, !.marked[c] = Smaller(@, n)]

-----------------------------------------------------------------------------
(***************************************************************************)
(* The writers of the collection and of the wishlist.                      *)
(***************************************************************************)
\* A copy that comes in is also noted against a wish, which stays.
Fulfils(r, c, n) == IF r.wished[c] + r.wished[AnyPrinting] > 0 THEN {Ev(n, "fulfilled", c, 1)} ELSE {}

Raised(mark, forTrade, q) == IF forTrade > mark THEN Smaller(forTrade, q) ELSE mark
AddToCollection(c, n, forTrade) ==
  LET q == rows.owned[c] + n
  IN  /\ Room(q)
      /\ Writes([rows EXCEPT !.owned[c] = q, !.marked[c] = Raised(@, forTrade, q)],
                log \cup {Ev(1, "add", c, n)} \cup Fulfils(rows, c, 2))
      /\ UNCHANGED trades

\* updateCollectionEntry with a new quantity, and the removals.
SetCopies(c, n) ==
  LET q == rows.owned[c]
  IN  /\ q > 0 /\ n # q
      /\ Writes(SetTo(rows, c, n),
                log \cup (IF n > q THEN {Ev(1, "add", c, n - q)} \cup Fulfils(rows, c, 2)
                                   ELSE {Ev(1, "remove", c, q - n)}))
      /\ UNCHANGED trades

\* ... with another printing or grade: the row becomes, or joins, that of d and
\* the slots that name it follow. No event.
Renamed(f, c, d) == [f EXCEPT ![c] = 0, ![d] = @ + f[c]]
Correct(c, d) ==
  /\ trouble = "rekey" /\ c # d /\ rows.owned[c] > 0
  /\ Writes([rows EXCEPT !.owned = Renamed(@, c, d), !.marked = Renamed(@, c, d),
                         !.slots = [p \in Place |-> Renamed(@[p], c, d)]], log)
  /\ UNCHANGED trades

\* The tradelist: marking is an entry, taking off or setting the number is not.
MarkForTrade(c, n) ==
  LET free == [d \in Copy |-> rows.owned[d] - rows.marked[d]]
  IN  \E gained \in [Copy -> 0..n] :
        /\ \A d \in Copy : gained[d] <= free[d]
        /\ gained[c] = Smaller(n, free[c])
        /\ SumOf(gained, Copy) = Smaller(n, SumOf(free, Copy)) /\ SumOf(gained, Copy) > 0
        /\ Writes([rows EXCEPT !.marked = [d \in Copy |-> @[d] + gained[d]]],
                  log \cup InBatch({Ev(d, "mark", d, gained[d]) : d \in {x \in Copy : gained[x] > 0}}))
        /\ UNCHANGED trades
SetForTrade(c, n) ==
  /\ n <= rows.owned[c] /\ n # rows.marked[c]
  /\ Writes([rows EXCEPT !.marked[c] = n], log)
  /\ UNCHANGED trades

\* How amount can be taken out of what f says there is, one after the other in
\* whatever order (drainAcross and loops like it).
Drains(S, f, amount) ==
  {take \in [S -> 0..amount] :
     /\ \A x \in S : take[x] <= f[x]
     /\ SumOf(take, S) = amount
     /\ Cardinality({x \in S : 0 < take[x] /\ take[x] < f[x]}) <= 1}
Filed(c) == [p \in Place |-> rows.slots[p][c]]

\* An import that swaps n copies of c for m of d, marked or not: the slots that the copies left
\* behind can no longer fill follow the swap, without an event.
Import(c, n, d, m, forTrade) ==
  LET left == rows.owned[c] - n
      out == SetTo(rows, c, left)
      q == out.owned[d] + m
      stranded == IF c = d \/ n = 0 THEN 0 ELSE Smaller(n, AtLeast0(SumOf(Filed(c), Place) - left))
  IN  /\ left >= 0 /\ Room(q)
      /\ \E take \in Drains(Place, Filed(c), stranded) :
           Writes([out EXCEPT !.owned[d] = q, !.marked[d] = Raised(@, forTrade, q),
                     !.slots = [p \in Place |-> IF take[p] = 0 THEN @[p]
                                  ELSE [@[p] EXCEPT ![c] = @ - take[p], ![d] = @ + take[p]]]],
                  log \cup InBatch((IF n > 0 THEN {Ev(1, "remove", c, n)} ELSE {})
                                   \cup {Ev(2, "add", d, m)} \cup Fulfils(rows, d, 3)))
      /\ UNCHANGED trades

AddToWishlist(l, n) ==
  /\ Room(rows.wished[l] + n)
  /\ Writes([rows EXCEPT !.wished[l] = @ + n], log \cup {Ev(1, "wishAdd", l, n)})
  /\ UNCHANGED trades
SetWish(l, n) ==
  LET q == rows.wished[l]
  IN  /\ q > 0 /\ n # q
      /\ Writes([rows EXCEPT !.wished[l] = n],
                log \cup {IF n > q THEN Ev(1, "wishAdd", l, n - q) ELSE Ev(1, "wishRemove", l, q - n)})
      /\ UNCHANGED trades
CorrectWish(l, m) ==
  /\ trouble = "rekey" /\ l # m /\ rows.wished[l] > 0
  /\ Writes([rows EXCEPT !.wished = Renamed(@, l, m)], log)
  /\ UNCHANGED trades

-----------------------------------------------------------------------------
(***************************************************************************)
(* The writers of the slots.                                               *)
(***************************************************************************)
SlotTo(r, p, l, n) == [r EXCEPT !.slots[p][l] = n]

AddDeckCard(p, l, n) ==
  LET q == rows.slots[p][l] + n
  IN  /\ Room(q)
      /\ Writes(SlotTo(rows, p, l, q), log \cup {ByHand(Ev(1, "deckAdd", <<p, l>>, n))})
      /\ UNCHANGED trades

\* addDeckCardsBulk: copies are filed exactly; a list folds into a slot of the
\* card that is there, which takes on the printing if it had none. (A slot of that
\* printing besides is a second row of the code's: here its copies are counted in.)
File(p, l, n, exact) ==
  \E k \in IF exact \/ Lines(rows, p) = {} THEN {l} ELSE Lines(rows, p) :
    LET named == IF k = AnyPrinting THEN l ELSE k
        q == rows.slots[p][k] + n + (IF named = k THEN 0 ELSE rows.slots[p][named])
    IN  /\ Room(q)
        /\ Writes(SlotTo(SlotTo(rows, p, k, 0), p, named, q),
                  log \cup InBatch({Ev(1, "deckAdd", <<p, l>>, n)}))
        /\ UNCHANGED trades

\* patchDeckCard with a quantity. A run of hand edits in one direction, each
\* soon after the last, is one event that grows and moves to now.
SameSlot(p) == {e \in log : e.hand /\ e.kind \in {"deckAdd", "deckRemove"} /\ e.at[1] = p}
Newest(E) == CHOOSE e \in E : \A f \in E : f.ts <= e.ts
KeyOf(e) == CASE e.kind \in {"add", "remove", "mark"}   -> <<"copy", e.at>>
              [] e.kind \in {"deckAdd", "deckRemove"}   -> <<"place", e.at[1]>>
              [] OTHER                                  -> <<"wish", AnyPrinting>>
\* Folding is safe when the run was not interrupted.
Uninterrupted(last) ==
  last.id \notin own /\ \A e \in log : KeyOf(e) = KeyOf(last) => e.ts <= last.ts
SameWay(last, kind) == last.kind = kind
Step(p, l, n, soon) ==
  LET q == rows.slots[p][l]
      kind == IF n > q THEN "deckAdd" ELSE "deckRemove"
      size == IF n > q THEN n - q ELSE q - n
      last == Newest(SameSlot(p))
      folds == soon /\ SameSlot(p) # {} /\ SameWay(last, kind)
  IN  /\ q > 0 /\ n # q
      /\ folds /\ trouble # "fold" => Uninterrupted(last)
      /\ Writes(SlotTo(rows, p, l, n),
                IF folds THEN (log \ {last}) \cup {[last EXCEPT !.qty = @ + size, !.ts = clock]}
                ELSE log \cup {ByHand(Ev(1, kind, <<p, l>>, size))})
      /\ UNCHANGED trades

\* removeDeckCardsBulk, removeDeckCardsMatching.
TakeOut(p, l, n) ==
  /\ 0 < n /\ n <= rows.slots[p][l]
  /\ Writes(SlotTo(rows, p, l, rows.slots[p][l] - n),
            log \cup InBatch({Ev(1, "deckRemove", <<p, l>>, n)}))
  /\ UNCHANGED trades

\* moveSlotRaw, moveDeckCardsToContainer: the slot joins any slot of the card on
\* the other side.
Move(p, l, p2) ==
  LET q == rows.slots[p][l]
  IN  /\ p # p2 /\ q > 0
      /\ \E k \in IF Lines(rows, p2) = {} THEN {l} ELSE Lines(rows, p2) :
           /\ Room(rows.slots[p2][k] + q)
           /\ Writes(SlotTo(SlotTo(rows, p, l, 0), p2, k, rows.slots[p2][k] + q),
                     log \cup InBatch({Ev(1, "deckRemove", <<p, l>>, q), Ev(2, "deckAdd", <<p2, l>>, q)}))
      /\ UNCHANGED trades

\* reconcileDeck with one copy seen: its slot, else the vaguest of the card on
\* that board, is set to it; all other slots of the container are swept away.
Rescan(p, l, n) ==
  LET here == Lines(rows, p)
      cur == IF l \in here THEN {l} ELSE IF AnyPrinting \in here THEN {AnyPrinting} ELSE here
      swept(k) == {s \in Place \X Line :
                     DeckOf[s[1]] = DeckOf[p] /\ rows.slots[s[1]][s[2]] > 0 /\ s # <<p, k>>}
  IN  \E k \in IF cur = {} THEN {l} ELSE cur :
        LET q == rows.slots[p][k]
            cleared == [rows EXCEPT !.slots = [p2 \in Place |-> [m \in Line |->
                          IF DeckOf[p2] = DeckOf[p] THEN 0 ELSE @[p2][m]]]]
        IN  /\ Writes(SlotTo(cleared, p, IF l = AnyPrinting THEN k ELSE l, n),
                 log \cup InBatch(
                   {Ev(s, "deckRemove", s, rows.slots[s[1]][s[2]]) : s \in swept(k)}
                   \cup (IF n > q THEN {Ev(<<p, k>>, "deckAdd", <<p, k>>, n - q)} ELSE {})
                   \cup (IF n < q THEN {Ev(<<p, k>>, "deckRemove", <<p, k>>, q - n)} ELSE {})))
            /\ UNCHANGED trades

-----------------------------------------------------------------------------
(***************************************************************************)
(* applyCompletedTrade: n copies of g are given and m of c received. What  *)
(* was given beyond what was owned is first written down as acquired; the  *)
(* container that alone claims the copies gives them up, which is an entry *)
(* of its own; and what was received comes off the wishlist.               *)
(***************************************************************************)
\* A trade is delivered again and again, and known by its row. That one is delivered
\* while it is undone is one of Troubles.
Expected(t) == t \notin trades
Undone(t) == <<"trade", t>> \in spoiled /\ \A e \in log : e.ref # <<"trade", t>>
ApplyCompletedTrade(t, g, n, c, m) ==
  LET had == rows.owned[g]
      kept == AtLeast0(had - n)
      gave == SetTo(rows, g, kept)
      claiming == {p \in Place : rows.slots[p][g] > 0}
      short == IF Cardinality({DeckOf[p] : p \in claiming}) = 1
               THEN AtLeast0(SumOf(Filed(g), Place) - kept) ELSE 0
      got == IF m = 0 THEN gave ELSE [gave EXCEPT !.owned[c] = @ + m]
  IN  /\ Expected(t) /\ Room(got.owned[c])
      /\ trouble = "redelivered" \/ ~Undone(t)
      /\ trouble = "printing" \/ m = 0 \/ Cardinality({l \in Line : rows.wished[l] > 0}) <= 1
      /\ \E take \in Drains(claiming, Filed(g), short),
            dec \in Drains(Line, rows.wished, Smaller(m, SumOf(rows.wished, Line))) :
           Writes([got EXCEPT !.wished = [l \in Line |-> @[l] - dec[l]],
                        !.slots = [p \in Place |-> IF p \in claiming THEN [@[p] EXCEPT ![g] = @ - take[p]]
                                                   ELSE @[p]]],
                log \cup InTrade(t,
                       (IF n > had THEN {Ev(1, "add", g, n - had)} ELSE {})
                       \cup {[Ev(2, "remove", g, n) EXCEPT !.ts = IF n > had THEN clock + 1 ELSE clock]}
                       \cup (IF m > 0 THEN {Ev(3, "add", c, m)} ELSE {})
                       \cup {Ev(l, "fulfilled", c, dec[l]) : l \in {x \in Line : dec[x] > 0}})
                    \cup InBatch({Ev(p, "deckRemove", <<p, g>>, take[p]) :
                                     p \in {x \in claiming : take[x] > 0}}))
      /\ trades' = trades \cup {t}

-----------------------------------------------------------------------------
(***************************************************************************)
(* An event applied to the tables, forward or backward. A wish or a slot   *)
(* is looked for by more than its key, so there may be several outcomes.   *)
(***************************************************************************)
CopiesAdjusted(r, c, d) == {SetTo(r, c, AtLeast0(r.owned[c] + d))}
MarkAdjusted(r, c, d) == {[r EXCEPT !.marked[c] = AtLeast0(Smaller(@ + d, r.owned[c]))]}
WishAdjusted(r, l, d) ==
  LET there == {k \in Line : r.wished[k] > 0}
  IN  {[r EXCEPT !.wished[k] = AtLeast0(@ + d)] : k \in IF l \in there \/ there = {} THEN {l} ELSE there}
DeckAdjusted(r, p, l, d) ==
  {SlotTo(r, p, k, AtLeast0(r.slots[p][k] + d)) : k \in IF Lines(r, p) = {} THEN {l} ELSE Lines(r, p)}

ApplyEventSigned(r, e, sign) ==
  LET d == IF e.kind \in {"remove", "wishRemove", "deckRemove", "fulfilled"} THEN -sign * e.qty
           ELSE sign * e.qty
  IN  CASE e.kind \in {"add", "remove"} -> CopiesAdjusted(r, e.at, d)
        [] e.kind = "mark" -> MarkAdjusted(r, e.at, d)
        [] e.kind \in {"wishAdd", "wishRemove"} -> WishAdjusted(r, e.at, d)
        [] e.kind \in {"deckAdd", "deckRemove"} -> DeckAdjusted(r, e.at[1], e.at[2], d)
        [] e.kind = "fulfilled" -> IF e.ref[1] = "trade" THEN WishAdjusted(r, e.at, d) ELSE {r}

\* All events of E, those of one kind first and the rest in whatever order.
Outcomes(r, E, kind, sign) ==
  LET after(S, F) == FoldSet(LAMBDA e, T : UNION {ApplyEventSigned(x, e, sign) : x \in T}, S, F)
      first == {e \in E : e.kind = kind}
  IN  after(after({r}, first), E \ first)

-----------------------------------------------------------------------------
(***************************************************************************)
(* Undo, of the entry ref, from its page (keys = FALSE) or by the keyboard,*)
(* which also keeps what was undone for redo.                              *)
(***************************************************************************)
\* An event alone takes along the fulfilled wish that was noted with it.
Paired(one) == {e \in log : e.ts = one.ts /\ e.kind = "fulfilled" /\ e.ref[1] = "single" /\ e.at = one.at}
EventsOf(ref) == LET E == {e \in log : e.ref = ref}
                 IN  IF ref[1] = "single" THEN E \cup UNION {Paired(e) : e \in E} ELSE E
KeysOf(E) == {KeyOf(e) : e \in E}
Since(E) == Min({e.ts : e \in E})

BlockedByNone(E) == FALSE                                         \* mutation
Blocked(E) == \E e \in log \ E : e.ts >= Since(E) /\ KeyOf(e) \in KeysOf(E)
MayUndo(E) == E # {} /\ ~Blocked(E)

TokensOf(E) == {IF KeyOf(e)[1] = "place" THEN <<"container", DeckOf[e.at[1]]>>
                ELSE <<KeyOf(e)[1], AnyPrinting>> : e \in E}
Pushed(item) == LET longer == Append(redo, item)
                IN  IF Len(longer) > Limit THEN Tail(longer) ELSE longer

AddsFirst(E) == Outcomes(rows, E, "add", -1)                      \* mutation
Reversed(E) == Outcomes(rows, E, "remove", -1)
Undo(ref, keys) ==
  LET E == EventsOf(ref)
      item == [events |-> E, since |-> clock,
               trade |-> IF ref[1] = "trade" THEN {ref[2]} ELSE {}]
  IN  /\ undos < MaxUndos /\ undos' = undos + 1
      /\ trouble = "hurry" \/ asked = {}
      /\ MayUndo(E)
      /\ rows' \in Reversed(E)
      /\ log' = log \ E
      /\ trades' = IF ref[1] = "trade" THEN trades \ {ref[2]} ELSE trades
      /\ redo' = IF keys THEN Pushed(item) ELSE redo
      /\ clock' = clock + 2
      /\ spoiled' = spoiled \cup {<<"trade", t>> : t \in item.trade}
                            \cup (IF keys THEN {} ELSE KeysOf(E))
      /\ UNCHANGED <<own, asked, replayed, writes, trouble>>

-----------------------------------------------------------------------------
(***************************************************************************)
(* Redo, of the newest item of a page. The item leaves the stack when the  *)
(* transaction is over, so a second press before that asks for it again.   *)
(***************************************************************************)
Scopes == ({"container"} \X {DeckOf[p] : p \in Place}) \cup ({"copy", "wish"} \X {AnyPrinting})
          \cup {<<"global", AnyPrinting>>}
Matching(scope) == {i \in 1..Len(redo) : scope[1] = "global" \/ scope \in TokensOf(redo[i].events)}
AskRedo(scope) ==
  LET mine == Matching(scope)
      item == redo[Max(mine)]
  IN  /\ mine # {}
      /\ asked # {} => trouble = "hurry" /\ \A a \in asked : a.item = item /\ a.press = 1
      /\ asked' = asked \cup {[item |-> item, press |-> 1 + Cardinality(asked)]}
      /\ UNCHANGED <<rows, log, trades, redo, own, replayed, clock, writes, undos, trouble, spoiled>>

Kept(item) == RemoveFirst(redo, item)
NeverRefused(item) == FALSE                                       \* mutation
Refused(item) ==
  \E e \in log : e.id \notin own /\ e.ts >= item.since /\ KeyOf(e) \in KeysOf(item.events)
Fresh(E) == {[e EXCEPT !.id = <<clock, @>>, !.ts = clock,
                       !.ref = IF @[1] = "single" THEN <<"single", <<clock, e.id>>>> ELSE @] : e \in E}
\* What the item stood on is gone, or still on the stack above it.
Overtaken(item) ==
  \/ KeysOf(item.events) \cap spoiled # {}
  \/ \E i, j \in DOMAIN redo : /\ i < j /\ redo[i] = item
                              /\ KeysOf(item.events) \cap KeysOf(redo[j].events) # {}
NotRestored(item) == trades                                       \* mutation
Restored(item) == trades \cup item.trade
Redo(a) ==
  LET item == a.item
  IN  /\ a \in asked /\ \A b \in asked : a.press <= b.press
      /\ trouble = "overtaken" \/ ~Overtaken(item)
      /\ asked' = asked \ {a} /\ redo' = Kept(item)
      /\ IF Refused(item)
         THEN /\ spoiled' = spoiled \cup KeysOf(item.events)
              /\ UNCHANGED <<rows, log, trades, own, replayed, clock>>
         ELSE /\ rows' \in Outcomes(rows, item.events, "add", 1)
              /\ log' = log \cup Fresh(item.events)
              /\ trades' = Restored(item)
              /\ own' = own \cup {e.id : e \in Fresh(item.events)}
              /\ replayed' = replayed \cup {item.since}
              /\ clock' = clock + 2 /\ UNCHANGED spoiled
      /\ UNCHANGED <<writes, undos, trouble>>

\* The tab is loaded again: what was undone can no longer be put back.
Reload ==
  /\ redo # <<>>
  /\ redo' = <<>> /\ own' = {} /\ asked' = {}
  /\ UNCHANGED <<rows, log, trades, replayed, clock, writes, undos, trouble, spoiled>>

-----------------------------------------------------------------------------
Qty == 1..MaxQty
Upto == 0..MaxQty
OfCopies == \E c \in Copy :
  \/ \E n \in Qty : (\E f \in {0, n} : AddToCollection(c, n, f)) \/ MarkForTrade(c, n)
  \/ \E n \in Upto : SetCopies(c, n) \/ SetForTrade(c, n)
  \/ \E d \in Copy : Correct(c, d) \/ \E n \in Upto, m \in Qty : \E f \in {0, m} : Import(c, n, d, m, f)
OfWishes == \E l \in Line :
  \/ \E n \in Qty : AddToWishlist(l, n)
  \/ \E n \in Upto : SetWish(l, n)
  \/ \E m \in Line : CorrectWish(l, m)
OfSlots == \E p \in Place, l \in Line :
  \/ \E n \in Qty : \/ AddDeckCard(p, l, n) \/ TakeOut(p, l, n) \/ Rescan(p, l, n)
                    \/ \E exact \in BOOLEAN : File(p, l, n, exact)
  \/ \E n \in Upto, soon \in BOOLEAN : Step(p, l, n, soon)
  \/ \E p2 \in Place : Move(p, l, p2)
OfTrades == \E t \in Trade, g, c \in Copy, n \in Qty, m \in Upto : ApplyCompletedTrade(t, g, n, c, m)
Refs == {e.ref : e \in log}
OfHistory ==
  \/ \E ref \in Refs, keys \in BOOLEAN : Undo(ref, keys)
  \/ \E scope \in Scopes : AskRedo(scope)
  \/ \E a \in asked : Redo(a)
  \/ Reload
Next == OfHistory \/ (writes < MaxWrites /\ (OfCopies \/ OfWishes \/ OfSlots \/ OfTrades))
Spec == Init /\ [][Next]_vars

-----------------------------------------------------------------------------
(***************************************************************************)
(* Properties.                                                             *)
(***************************************************************************)
TypeOK ==
  /\ \A c \in Copy : rows.owned[c] \in Nat /\ rows.marked[c] \in 0..rows.owned[c]
  /\ rows.wished \in [Line -> Nat] /\ rows.slots \in [Place -> [Line -> Nat]]
  /\ \A e \in log : e.qty > 0 /\ KeyOf(e) \in Thing /\ e.ts <= clock
  /\ Len(redo) <= Limit /\ trades \subseteq Trade

\* The history is the whole story: the cards are the sum of the entries in it,
\* whatever was changed, undone and put back, unless a behaviour meets one of
\* Troubles. (With it the type invariant is checked.)
Delta(e) == CASE e.kind \in {"add", "wishAdd", "deckAdd"} -> e.qty
              [] e.kind \in {"remove", "wishRemove", "deckRemove"} -> -e.qty
              [] e.kind = "fulfilled" /\ e.ref[1] = "trade" -> -e.qty
              [] OTHER -> 0
Entry(ref) == [id |-> ref, delta |-> [t \in Thing |->
                MapThenSumSet(Delta, {e \in log : e.ref = ref /\ KeyOf(e) = t})]]
Ledger == INSTANCE CardLedger WITH Thing <- Thing, entries <- {Entry(ref) : ref \in Refs},
                                   count <- Counts(rows)
KeepsLedger == []TypeOK /\ Ledger!Init /\ [][trouble = "none" => Ledger!Next]_vars

\* No trade is delivered while it is undone, and no redo asked for twice
\* at once: an entry is written by one transaction at a time.
Orderly == trouble \notin {"redelivered", "hurry"}

\* The entries undo is offered for (undoableIds) are those that it accepts, save
\* that an addition is refused for the fulfilled wish that was noted with it.
Group(ref) == {e \in log : e.ref = ref}
Latest(ref) == Max({e.ts : e \in Group(ref)})
Offered(ref) == \A newer \in Refs :
  Latest(newer) > Latest(ref) => KeysOf(Group(newer)) \cap KeysOf(Group(ref)) = {}
OffersHold == \A ref \in Refs :
  /\ MayUndo(EventsOf(ref)) => Offered(ref)
  /\ Offered(ref) => MayUndo(EventsOf(ref)) \/ EventsOf(ref) # Group(ref)

\* As long as there is history, some of it is offered and can be undone: entries
\* never block each other for good.
NeverStuck == log # {} => \E ref \in Refs : Offered(ref) /\ MayUndo(EventsOf(ref))
OffersAreGood == Orderly => OffersHold /\ NeverStuck

\* "... so they agree" (client/src/db/undoScope.ts:19). Does not hold: README,
\* section 5.
OffersAgree == \A ref \in Refs : Offered(ref) <=> MayUndo(EventsOf(ref))

\* Redo is never stacked on a later decision: all that is newer on its rows is
\* what redo itself wrote, as it wrote it, but for the "fold" of a hand edit into
\* it.
Replays(a) == a \in asked /\ a \notin asked' /\ own \subseteq own' /\ own # own'
RefusesLateRedo ==
  [][\A a \in asked : Replays(a) =>
       \A e \in log : e.ts >= a.item.since /\ KeyOf(e) \in KeysOf(a.item.events)
                       => e.id \in own /\ (trouble # "fold" => e.ts = e.id[1])]_vars

\* What undo took away is put back once, unless redo is asked for twice at once.
RedoOnce == [][trouble # "hurry" =>
                 \A a \in asked : Replays(a) => a.item.since \notin replayed]_vars
RedoIsSafe == RefusesLateRedo /\ RedoOnce

\* A trade counts once, however often it is delivered, undone and redone.
TradeCountsOnce == Orderly => \A t \in Trade :
  Cardinality({e \in log : e.ref = <<"trade", t>> /\ e.kind = "remove"}) <= 1
=============================================================================
