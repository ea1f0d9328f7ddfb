---------------------------- MODULE TradeSession ----------------------------
(***************************************************************************)
(* One trade as the server keeps it in memory: class SessionStore of       *)
(* server/src/session.ts, one action per method, over the code-keyed store *)
(* of server/src/codeStore.ts. A method that throws a TransitionError      *)
(* changes nothing: its guard is the condition it throws on.               *)
(*                                                                         *)
(* The lines of one side's offer are one member of Offer. One code is      *)
(* modelled; allocating codes, the per-IP quota and the refusal to trade   *)
(* with oneself are not. The two ways a session is dropped on a timer (two *)
(* hours after its creation, thirty seconds after its end) are one action  *)
(* that may come at any time.                                              *)
(***************************************************************************)
CONSTANTS
  Offer,      \* what one side can offer
  NoOffer,    \* no cards
  Nonce,      \* what tells one join attempt from another
  NoSession   \* "no session under this code"

Seat == {"a", "b"}      \* who created the trade and who joined it
Other(s) == IF s = "a" THEN "b" ELSE "a"
Nobody == [s \in Seat |-> FALSE]

Deal == [Seat -> Offer]      \* what can lie on the table
Empty == [s \in Seat |-> NoOffer]

PreComplete == {"open", "paired", "building", "one_accepted", "agreed"}
TradeState == PreComplete \cup {"completed", "cancelled"}

Session == [state : TradeState, deal : Deal,
            accepted : [Seat -> BOOLEAN], confirmed : [Seat -> BOOLEAN],
            present : [Seat -> BOOLEAN],
            grace : [Seat -> BOOLEAN],   \* a disconnect timer is running
            joiner : Nonce \cup {0}]      \* the nonce seat b was taken with, or 0

ASSUME OfferAssumption == NoOffer \in Offer /\ 0 \notin Nonce
ASSUME NoSessionAssumption == NoSession \notin Session

VARIABLE session

\* The states each call of a participant is allowed in; it throws in others.
Allowed == [offer |-> {"paired", "building", "one_accepted", "agreed"},
            accept |-> {"paired", "building", "one_accepted"},
            unaccept |-> {"one_accepted", "agreed"},
            confirm |-> {"agreed"},
            cancel |-> PreComplete]
May(call) == session # NoSession /\ session.state \in Allowed[call]

Live == session # NoSession /\ session.state \in PreComplete
Seated == session # NoSession /\ session.joiner # 0

-----------------------------------------------------------------------------
SessionInit == session = NoSession

Fresh == [state |-> "open", deal |-> Empty, accepted |-> Nobody, confirmed |-> Nobody,
          present |-> [s \in Seat |-> s = "a"], grace |-> Nobody, joiner |-> 0]

Create == session' = Fresh

\* Seat b is taken once; whoever took it gets it back with the same nonce.
JoinAnew(nonce) ==
  /\ session # NoSession /\ session.joiner = 0
  /\ session' = [session EXCEPT !.joiner = nonce, !.present["b"] = TRUE, !.state = "paired"]

JoinAgain(nonce) ==
  /\ Seated /\ session.joiner = nonce
  /\ UNCHANGED session

ResumeKeepsGrace(s) ==                                          \* mutation
  /\ session # NoSession /\ (s = "b" => Seated)
  /\ session' = [session EXCEPT !.present[s] = TRUE]
Resume(s) ==
  /\ session # NoSession /\ (s = "b" => Seated)
  /\ session' = [session EXCEPT !.present[s] = TRUE, !.grace[s] = FALSE]

\* A seat's socket closed: marked absent, given the grace window to come back.
Drop(s) ==
  /\ session # NoSession
  /\ session' = [session EXCEPT !.present[s] = FALSE,
                                !.grace[s] = session.state \in PreComplete]

EditKeepsConfirms(side, o) ==                                   \* mutation
  /\ May("offer")
  /\ session' = [session EXCEPT !.deal[side] = o, !.accepted = Nobody, !.state = "building"]
\* Either participant may edit either side; any edit clears what both agreed to.
OfferUpdate(side, o) ==
  /\ May("offer")
  /\ session' = [session EXCEPT !.deal[side] = o, !.accepted = Nobody, !.confirmed = Nobody,
                                !.state = "building"]

Accept(s) ==
  /\ May("accept")
  /\ session' = [session EXCEPT
       !.accepted[s] = TRUE,
       !.state = IF session.accepted[Other(s)] THEN "agreed" ELSE "one_accepted"]

UnacceptKeepsConfirms(s) ==                                     \* mutation
  /\ May("unaccept")
  /\ session' = [session EXCEPT
       !.accepted[s] = FALSE,
       !.state = IF session.accepted[Other(s)] THEN "one_accepted" ELSE "building"]
Unaccept(s) ==
  /\ May("unaccept")
  /\ session' = [session EXCEPT
       !.accepted[s] = FALSE, !.confirmed = Nobody,
       !.state = IF session.accepted[Other(s)] THEN "one_accepted" ELSE "building"]

ConfirmComplete(s) ==
  /\ May("confirm")
  /\ session' = [session EXCEPT
       !.confirmed[s] = TRUE,
       !.state = IF session.confirmed[Other(s)] THEN "completed" ELSE "agreed"]

Cancel ==
  /\ May("cancel")
  /\ session' = [session EXCEPT !.state = "cancelled"]

\* A grace window lapsed. Of two seats that are both away the one whose
\* window is still running makes the call later.
Spared(s) == session.present[s] \/ (~session.present[Other(s)] /\ session.grace[Other(s)])
GraceExpires(s) ==
  /\ session # NoSession /\ session.grace[s]
  /\ session' = [session EXCEPT !.grace[s] = FALSE,
                                !.state = IF Live /\ ~Spared(s) THEN "cancelled" ELSE @]

Remove == session # NoSession /\ session' = NoSession

SessionNext ==
  \/ session = NoSession /\ Create
  \/ \E n \in Nonce : JoinAnew(n) \/ JoinAgain(n)
  \/ \E s \in Seat : \/ Resume(s) \/ Drop(s) \/ GraceExpires(s)
                     \/ Accept(s) \/ Unaccept(s) \/ ConfirmComplete(s)
  \/ \E side \in Seat, o \in Offer : OfferUpdate(side, o)
  \/ Cancel
  \/ Remove

SessionSpec == SessionInit /\ [][SessionNext]_session

-----------------------------------------------------------------------------
(***************************************************************************)
(* Properties.                                                             *)
(***************************************************************************)
SessionTypeOK == session \in Session \cup {NoSession}

\* The state and the flags kept beside it tell the same story, in every order
\* of edits, accepts, withdrawals and confirmations: a trade is agreed exactly
\* when both accepted, and completed only by both having confirmed as well.
Both(f) == f["a"] /\ f["b"]
Neither(f) == ~f["a"] /\ ~f["b"]
FlagsMatchState ==
  session # NoSession =>
    /\ session.state = "open" => session.joiner = 0
    /\ session.state \in {"open", "paired", "building"} => Neither(session.accepted)
    /\ session.state = "one_accepted" => session.accepted["a"] # session.accepted["b"]
    /\ session.state = "agreed" => Both(session.accepted) /\ ~Both(session.confirmed)
    /\ session.state = "completed" => Both(session.accepted) /\ Both(session.confirmed)
    /\ session.state \notin {"agreed", "completed", "cancelled"} => Neither(session.confirmed)

\* What a seat has confirmed stays as it was: no edit, from whichever side,
\* changes the deal under a standing confirmation.
ConfirmedDealStands ==
  [][session # NoSession /\ session' # NoSession =>
       \A s \in Seat : session.confirmed[s] /\ session'.confirmed[s] =>
         session'.deal = session.deal]_session

\* A trade that was called off stays off: a code only matches "an active
\* trade" (session.ts:62). Does not hold: README, section 5.
CancelledIsFinal ==
  [][session # NoSession /\ session' # NoSession /\ session.state = "cancelled" =>
       session'.state = "cancelled"]_session
=============================================================================
