----------------------- MODULE TradeSession_proofs -----------------------
(***************************************************************************)
(* Proofs about the server's trade session, for any offers and any joins,  *)
(* with no bound on how often its methods are called.                      *)
(*                                                                         *)
(* FlagsMatchState is not inductive as it stands: joining does not look at *)
(* the state, so it takes that a seat nobody took has nothing agreed on.   *)
(***************************************************************************)
EXTENDS TradeSession, TLAPS

\* As long as seat b is free there is nothing to accept or to confirm.
UnjoinedUntouched ==
  session # NoSession /\ session.joiner = 0 =>
    /\ session.state \in {"open", "cancelled"}
    /\ Neither(session.accepted) /\ Neither(session.confirmed)

SessionInv == SessionTypeOK /\ FlagsMatchState /\ UnjoinedUntouched

\* A new session is one of the sessions, and no other value of the variable.
LEMMA FreshIsSession == Fresh \in Session
BY OfferAssumption DEF Fresh, Session, TradeState, PreComplete, Deal, Empty, Nobody, Seat

USE DEF Seat, Other

-----------------------------------------------------------------------------
\* The invariant holds at first, and every method of the store keeps it.
LEMMA InitInv == SessionInit => SessionInv
BY DEF SessionInit, SessionInv, SessionTypeOK, FlagsMatchState, UnjoinedUntouched

LEMMA CreateInv == Create => SessionInv'
<1> SUFFICES ASSUME Create PROVE SessionInv'
  OBVIOUS
<1>1. SessionTypeOK'
  BY FreshIsSession DEF Create, SessionTypeOK
<1>2. FlagsMatchState'
  BY DEF Create, FlagsMatchState, Fresh, Nobody, Neither, Both
<1>3. UnjoinedUntouched'
  BY DEF Create, UnjoinedUntouched, Fresh, Nobody, Neither
<1> QED
  BY <1>1, <1>2, <1>3 DEF SessionInv

LEMMA JoinInv == ASSUME NEW n \in Nonce, SessionInv, JoinAnew(n) \/ JoinAgain(n)
                 PROVE  SessionInv'
<1>1. CASE JoinAnew(n)
  <2>1. session # NoSession /\ session \in Session /\ session.joiner = 0
    BY <1>1 DEF JoinAnew, SessionInv, SessionTypeOK
  <2>2. session' = [session EXCEPT !.joiner = n, !.present["b"] = TRUE, !.state = "paired"]
    BY <1>1 DEF JoinAnew
  <2>3. session' \in Session
    BY <2>1, <2>2 DEF Session, TradeState, PreComplete
  <2>4. n # 0
    BY OfferAssumption
  <2>5. /\ session'.state = "paired" /\ session'.joiner = n
        /\ session'.accepted = session.accepted /\ session'.confirmed = session.confirmed
    BY <2>1, <2>2 DEF Session
  <2>6. Neither(session.accepted) /\ Neither(session.confirmed)
    BY <2>1 DEF SessionInv, UnjoinedUntouched
  <2> QED
    BY <2>3, <2>4, <2>5, <2>6
    DEF SessionInv, SessionTypeOK, FlagsMatchState, UnjoinedUntouched, Neither
<1>2. CASE JoinAgain(n)
  BY <1>2 DEF JoinAgain, SessionInv, SessionTypeOK, FlagsMatchState, UnjoinedUntouched
<1> QED
  BY <1>1, <1>2

\* Coming and going touches neither the state, unless it is a cancellation,
\* nor what was accepted and confirmed.
LEMMA PresenceInv ==
  ASSUME NEW s \in Seat, SessionInv, Resume(s) \/ Drop(s) \/ GraceExpires(s)
  PROVE  SessionInv'
<1>1. session # NoSession /\ session \in Session
  BY DEF Resume, Drop, GraceExpires, SessionInv, SessionTypeOK
<1>2. /\ session' \in Session
      /\ session'.state \in {session.state, "cancelled"}
      /\ session'.joiner = session.joiner
      /\ session'.accepted = session.accepted /\ session'.confirmed = session.confirmed
  <2>1. CASE Resume(s)
    BY <1>1, <2>1 DEF Resume, Session
  <2>2. CASE Drop(s)
    <3>1. (session.state \in PreComplete) \in BOOLEAN
      OBVIOUS
    <3> QED
      BY <1>1, <2>2, <3>1 DEF Drop, Session
  <2>3. CASE GraceExpires(s)
    BY <1>1, <2>3 DEF GraceExpires, Session, TradeState
  <2> QED
    BY <2>1, <2>2, <2>3
<1> QED
  BY <1>1, <1>2
  DEF SessionInv, SessionTypeOK, FlagsMatchState, UnjoinedUntouched, Neither, Both

LEMMA OfferInv == ASSUME NEW side \in Seat, NEW o \in Offer, SessionInv, OfferUpdate(side, o)
                  PROVE  SessionInv'
<1>1. session # NoSession /\ session \in Session /\ session.state \in Allowed["offer"]
  BY DEF OfferUpdate, May, SessionInv, SessionTypeOK
<1>2. /\ session' \in Session /\ session'.state = "building"
      /\ session'.accepted = Nobody /\ session'.confirmed = Nobody
      /\ session'.joiner = session.joiner
  BY <1>1 DEF OfferUpdate, Session, TradeState, PreComplete, Deal, Nobody
<1>3. session.joiner # 0
  BY <1>1 DEF SessionInv, UnjoinedUntouched, Allowed
<1> QED
  BY <1>2, <1>3
  DEF SessionInv, SessionTypeOK, FlagsMatchState, UnjoinedUntouched, Nobody, Neither, Both

LEMMA AcceptInv == ASSUME NEW s \in Seat, SessionInv, Accept(s) PROVE SessionInv'
<1>1. session # NoSession /\ session \in Session /\ session.state \in Allowed["accept"]
  BY DEF Accept, May, SessionInv, SessionTypeOK
<1>2. /\ session' \in Session
      /\ session'.state = IF session.accepted[Other(s)] THEN "agreed" ELSE "one_accepted"
      /\ session'.accepted = [session.accepted EXCEPT ![s] = TRUE]
      /\ session'.confirmed = session.confirmed /\ session'.joiner = session.joiner
  BY <1>1 DEF Accept, Session, TradeState, PreComplete
<1>3. session.joiner # 0 /\ Neither(session.confirmed)
  BY <1>1 DEF SessionInv, UnjoinedUntouched, FlagsMatchState, Allowed
<1>4. session.accepted \in [Seat -> BOOLEAN]
  BY <1>1 DEF Session
<1> QED
  BY <1>2, <1>3, <1>4
  DEF SessionInv, SessionTypeOK, FlagsMatchState, UnjoinedUntouched, Neither, Both

LEMMA UnacceptInv == ASSUME NEW s \in Seat, SessionInv, Unaccept(s) PROVE SessionInv'
<1>1. session # NoSession /\ session \in Session /\ session.state \in Allowed["unaccept"]
  BY DEF Unaccept, May, SessionInv, SessionTypeOK
<1>2. /\ session' \in Session
      /\ session'.state = IF session.accepted[Other(s)] THEN "one_accepted" ELSE "building"
      /\ session'.accepted = [session.accepted EXCEPT ![s] = FALSE]
      /\ session'.confirmed = Nobody /\ session'.joiner = session.joiner
  BY <1>1 DEF Unaccept, Session, TradeState, PreComplete, Nobody
<1>3. session.joiner # 0
  BY <1>1 DEF SessionInv, UnjoinedUntouched, Allowed
<1>4. session.accepted \in [Seat -> BOOLEAN]
  BY <1>1 DEF Session
<1> QED
  BY <1>2, <1>3, <1>4
  DEF SessionInv, SessionTypeOK, FlagsMatchState, UnjoinedUntouched, Nobody, Neither, Both

LEMMA ConfirmInv == ASSUME NEW s \in Seat, SessionInv, ConfirmComplete(s) PROVE SessionInv'
<1>1. session # NoSession /\ session \in Session /\ session.state = "agreed"
  BY DEF ConfirmComplete, May, Allowed, SessionInv, SessionTypeOK
<1>2. /\ session' \in Session
      /\ session'.state = IF session.confirmed[Other(s)] THEN "completed" ELSE "agreed"
      /\ session'.confirmed = [session.confirmed EXCEPT ![s] = TRUE]
      /\ session'.accepted = session.accepted /\ session'.joiner = session.joiner
  BY <1>1 DEF ConfirmComplete, Session, TradeState, PreComplete
<1>3. session.joiner # 0 /\ Both(session.accepted)
  BY <1>1 DEF SessionInv, UnjoinedUntouched, FlagsMatchState
<1>4. session.confirmed \in [Seat -> BOOLEAN]
  BY <1>1 DEF Session
<1> QED
  BY <1>2, <1>3, <1>4
  DEF SessionInv, SessionTypeOK, FlagsMatchState, UnjoinedUntouched, Neither, Both

LEMMA CancelInv == SessionInv /\ Cancel => SessionInv'
<1> SUFFICES ASSUME SessionInv, Cancel PROVE SessionInv'
  OBVIOUS
<1>1. session # NoSession /\ session \in Session
  BY DEF Cancel, May, SessionInv, SessionTypeOK
<1>2. /\ session' \in Session /\ session'.state = "cancelled"
      /\ session'.accepted = session.accepted /\ session'.confirmed = session.confirmed
      /\ session'.joiner = session.joiner
  BY <1>1 DEF Cancel, Session, TradeState
<1> QED
  BY <1>1, <1>2
  DEF SessionInv, SessionTypeOK, FlagsMatchState, UnjoinedUntouched, Neither, Both

LEMMA RemoveInv == Remove => SessionInv'
BY DEF Remove, SessionInv, SessionTypeOK, FlagsMatchState, UnjoinedUntouched

LEMMA NextInv == SessionInv /\ [SessionNext]_session => SessionInv'
<1> SUFFICES ASSUME SessionInv, [SessionNext]_session PROVE SessionInv'
  OBVIOUS
<1>1. CASE Create
  BY <1>1, CreateInv
<1>2. ASSUME NEW n \in Nonce, JoinAnew(n) \/ JoinAgain(n) PROVE SessionInv'
  BY <1>2, JoinInv
<1>3. ASSUME NEW s \in Seat, Resume(s) \/ Drop(s) \/ GraceExpires(s) PROVE SessionInv'
  BY <1>3, PresenceInv
<1>4. ASSUME NEW s \in Seat, Accept(s) PROVE SessionInv'
  BY <1>4, AcceptInv
<1>5. ASSUME NEW s \in Seat, Unaccept(s) PROVE SessionInv'
  BY <1>5, UnacceptInv
<1>6. ASSUME NEW s \in Seat, ConfirmComplete(s) PROVE SessionInv'
  BY <1>6, ConfirmInv
<1>7. ASSUME NEW side \in Seat, NEW o \in Offer, OfferUpdate(side, o) PROVE SessionInv'
  BY <1>7, OfferInv
<1>8. CASE Cancel
  BY <1>8, CancelInv
<1>9. CASE Remove
  BY <1>9, RemoveInv
<1>10. CASE UNCHANGED session
  BY <1>10 DEF SessionInv, SessionTypeOK, FlagsMatchState, UnjoinedUntouched
<1> QED
  BY <1>1, <1>2, <1>3, <1>4, <1>5, <1>6, <1>7, <1>8, <1>9, <1>10 DEF SessionNext

\* The session's invariant holds in every reachable state.
THEOREM SessionInvariant == SessionSpec => []SessionInv
BY InitInv, NextInv, PTL DEF SessionSpec

-----------------------------------------------------------------------------
\* Every method leaves a well-formed session or none.
THEOREM SessionTypeCorrect == SessionSpec => []SessionTypeOK
<1>1. SessionInv => SessionTypeOK
  BY DEF SessionInv
<1> QED
  BY <1>1, SessionInvariant, PTL

\* However the two sides' calls interleave, a trade is agreed exactly when both
\* accepted it, and completed only with both confirmations standing
\* (SessionStore's state field and the flags it is computed beside).
THEOREM SessionFlagsMatch == SessionSpec => []FlagsMatchState
<1>1. SessionInv => FlagsMatchState
  BY DEF SessionInv
<1> QED
  BY <1>1, SessionInvariant, PTL

DealStands ==
  session # NoSession /\ session' # NoSession =>
    \A s \in Seat : session.confirmed[s] /\ session'.confirmed[s] =>
      session'.deal = session.deal

LEMMA DealStandsNext == SessionInv /\ (SessionNext \/ Create) => DealStands
<1> SUFFICES ASSUME SessionInv, SessionNext \/ Create, session # NoSession
             PROVE  DealStands
  BY DEF DealStands
<1>1. session \in Session
  BY DEF SessionInv, SessionTypeOK
<1>2. CASE \E side \in Seat, o \in Offer : OfferUpdate(side, o)
  <2>1. session'.confirmed = Nobody
    BY <1>1, <1>2 DEF OfferUpdate, Session
  <2> QED
    BY <2>1 DEF Nobody, DealStands
<1>3. CASE Create
  BY <1>3 DEF Create, Fresh, Nobody, DealStands
<1>4. CASE \E s \in Seat : Accept(s) \/ Unaccept(s) \/ ConfirmComplete(s)
  BY <1>1, <1>4 DEF Accept, Unaccept, ConfirmComplete, Session, DealStands
<1>5. CASE \E s \in Seat : Resume(s) \/ Drop(s) \/ GraceExpires(s)
  BY <1>1, <1>5 DEF Resume, Drop, GraceExpires, Session, DealStands
<1>6. CASE \E n \in Nonce : JoinAnew(n) \/ JoinAgain(n)
  BY <1>1, <1>6 DEF JoinAnew, JoinAgain, Session, DealStands
<1>7. CASE Cancel
  BY <1>1, <1>7 DEF Cancel, Session, DealStands
<1>8. CASE Remove
  BY <1>8 DEF Remove, DealStands
<1> QED
  BY <1>2, <1>3, <1>4, <1>5, <1>6, <1>7, <1>8 DEF SessionNext

\* No call changes the deal under a confirmation that keeps standing: an edit
\* from either side clears both (SessionStore.offerUpdate).
THEOREM SessionDealStands == SessionSpec => ConfirmedDealStands
<1>1. SessionInv /\ [SessionNext]_session => [DealStands]_session
  BY DealStandsNext
<1> QED
  BY <1>1, SessionInvariant, PTL DEF SessionSpec, ConfirmedDealStands, DealStands
=============================================================================
