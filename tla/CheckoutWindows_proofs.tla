------------------------ MODULE CheckoutWindows_proofs ------------------------
(***************************************************************************)
(* The properties of CheckoutWindows, for every time to live, precision    *)
(* and difference of the clocks, and any number of checkouts.              *)
(*                                                                         *)
(* OneLinkIsOpen speaks of links that are still open.  It is kept because  *)
(* of any two links of different payments, the one given out later came    *)
(* after the end of the other, up to Skew (LinksFollowOneAnother); and     *)
(* that, because a row only expires at its time (ExpiredRowsHaveElapsed).  *)
(***************************************************************************)
EXTENDS CheckoutWindows, TLAPS

IdsAreUnique == \A p, q \in payments : p.id = q.id => p = q

OneIsActive == \A p, q \in ActivePayments : p = q

RowsAreWholeMilliseconds ==
  \A p \in payments : Serialized(p.expires_at) * Millisecond = p.expires_at

ReadingIsNotFarAhead == request # Idle => request.reading <= now + Skew

ExpiredRowsHaveElapsed ==
  \A p \in payments : p.status = "expired" => p.expires_at <= now + Skew

LinksFollowOneAnother ==
  \A a, b \in links : a.payment # b.payment =>
    \/ a.expiration * Millisecond <= b.given_at + Skew
    \/ b.expiration * Millisecond <= a.given_at + Skew

RowsInv ==
  /\ IdsAreUnique
  /\ OneIsActive
  /\ RowsAreWholeMilliseconds
  /\ ExpiredRowsHaveElapsed

WindowsInv ==
  /\ WindowsTypeOK
  /\ RowsInv
  /\ ReadingIsNotFarAhead
  /\ LinksFollowOneAnother

-------------------------------------------------------------------------------
(* Truncation                                                              *)

LEMMA DivisionByMilliseconds ==
  ASSUME NEW t \in Nat
  PROVE  /\ t \div Millisecond \in Nat
         /\ (t \div Millisecond) * Millisecond \in Nat
BY WindowsAssumption

LEMMA MultiplesAreWhole ==
  ASSUME NEW n \in Nat
  PROVE  (n * Millisecond) \div Millisecond = n
BY WindowsAssumption

LEMMA TruncatedIsWhole ==
  ASSUME NEW t \in Nat
  PROVE  /\ Truncated(t) \in Nat
         /\ Serialized(Truncated(t)) * Millisecond = Truncated(t)
BY DivisionByMilliseconds, MultiplesAreWhole DEF Truncated, Serialized

-------------------------------------------------------------------------------
(* The steps                                                               *)

(***************************************************************************)
(* A link for the one active row can be given out: every other link is of  *)
(* a row that has elapsed.                                                 *)
(***************************************************************************)
LEMMA AnswerKeeps ==
  ASSUME WindowsInv, UNCHANGED now,
         payments' \subseteq Payment, RowsInv',
         \A p \in payments : \E q \in payments' : q.id = p.id /\ q.expires_at = p.expires_at,
         NEW p \in payments', p.status = "requires_action", Answer(p)
  PROVE  WindowsInv'
<1>. DEFINE new == [payment |-> p.id, expiration |-> Serialized(p.expires_at),
                    given_at |-> now]
<1>1. new \in Link /\ new.expiration * Millisecond = p.expires_at
  BY DivisionByMilliseconds
     DEF RowsInv, RowsAreWholeMilliseconds, Payment, Link, WindowsInv, WindowsTypeOK,
         Serialized
<1>2. request' = Idle /\ links' \subseteq links \cup {new}
  BY DEF Answer
<1>3. WindowsTypeOK'
  BY <1>1, <1>2 DEF WindowsInv, WindowsTypeOK, Request
<1>4. ASSUME NEW a \in links, a.payment # p.id
      PROVE  a.expiration * Millisecond <= now + Skew
  <2>1. PICK q \in payments' : q.id = a.payment /\ q.expires_at = a.expiration * Millisecond
    BY DEF WindowsInv, WindowsTypeOK
  <2>2. q.status = "expired"
    BY <1>4, <2>1 DEF RowsInv, OneIsActive, ActivePayments, Payment
  <2>. QED  BY <2>1, <2>2 DEF RowsInv, ExpiredRowsHaveElapsed
<1>5. LinksFollowOneAnother'
  <2>. SUFFICES ASSUME NEW a \in links', NEW b \in links', a.payment # b.payment
                PROVE  \/ a.expiration * Millisecond <= b.given_at + Skew
                       \/ b.expiration * Millisecond <= a.given_at + Skew
    BY DEF LinksFollowOneAnother
  <2>1. CASE a \in links /\ b \in links
    BY <2>1 DEF WindowsInv, LinksFollowOneAnother
  <2>2. CASE a = new /\ b \in links
    BY <1>4, <2>2
  <2>3. CASE b = new /\ a \in links
    BY <1>4, <2>3
  <2>. QED  BY <1>2, <2>1, <2>2, <2>3
<1>. QED  BY <1>2, <1>3, <1>5 DEF WindowsInv, ReadingIsNotFarAhead

LEMMA NewCheckoutIsSound ==
  ASSUME WindowsInv, request # Idle, NEW p \in NewCheckouts
  PROVE  /\ p \in Payment
         /\ p.status = "requires_action"
         /\ \A q \in payments : q.id # p.id
         /\ Serialized(p.expires_at) * Millisecond = p.expires_at
<1>1. PICK i \in PaymentIds \ {q.id : q \in payments}, c \in request.reading..(now + Skew) :
        p = [id |-> i, status |-> "requires_action", expires_at |-> Truncated(c + TimeToLive)]
  BY DEF NewCheckouts
<1>2. c + TimeToLive \in Nat
  BY <1>1, WindowsAssumption DEF WindowsInv, WindowsTypeOK, Request, Idle
<1>3. /\ Truncated(c + TimeToLive) \in Nat
      /\ Serialized(Truncated(c + TimeToLive)) * Millisecond = Truncated(c + TimeToLive)
  BY <1>2, TruncatedIsWhole
<1>. QED  BY <1>1, <1>3 DEF Payment

LEMMA OpenCheckoutKeeps ==
  ASSUME WindowsInv, OpenCheckout
  PROVE  WindowsInv'
<1>1. PICK p \in NewCheckouts : payments' = payments \cup {p} /\ Answer(p)
  BY DEF OpenCheckout
<1>2. /\ p \in Payment /\ p.status = "requires_action"
      /\ \A q \in payments : q.id # p.id
      /\ Serialized(p.expires_at) * Millisecond = p.expires_at
  BY NewCheckoutIsSound DEF OpenCheckout
<1>3. RowsInv'
  BY <1>1, <1>2
     DEF WindowsInv, RowsInv, OpenCheckout, IdsAreUnique, OneIsActive, ActivePayments,
         RowsAreWholeMilliseconds, ExpiredRowsHaveElapsed, Serialized
<1>4. payments' \subseteq Payment /\ p \in payments'
  BY <1>1, <1>2 DEF WindowsInv, WindowsTypeOK
<1>5. \A q \in payments : \E r \in payments' : r.id = q.id /\ r.expires_at = q.expires_at
  BY <1>1
<1>. QED  BY <1>1, <1>2, <1>3, <1>4, <1>5, AnswerKeeps DEF OpenCheckout

LEMMA RepeatCheckoutKeeps ==
  ASSUME WindowsInv, RepeatCheckout
  PROVE  WindowsInv'
<1>1. PICK p \in ActivePayments : Answer(p)
  BY DEF RepeatCheckout
<1>2. UNCHANGED <<now, payments>>
  BY DEF RepeatCheckout
<1>3. RowsInv'
  BY <1>2 DEF WindowsInv, RowsInv, IdsAreUnique, OneIsActive, ActivePayments,
              RowsAreWholeMilliseconds, ExpiredRowsHaveElapsed, Serialized
<1>4. p \in payments' /\ p.status = "requires_action" /\ payments' \subseteq Payment
  BY <1>2 DEF ActivePayments, WindowsInv, WindowsTypeOK
<1>5. \A q \in payments : \E r \in payments' : r.id = q.id /\ r.expires_at = q.expires_at
  BY <1>2
<1>. QED  BY <1>1, <1>2, <1>3, <1>4, <1>5, AnswerKeeps

LEMMA ReplaceCheckoutKeeps ==
  ASSUME WindowsInv, ReplaceCheckout
  PROVE  WindowsInv'
<1>1. PICK p \in ActivePayments, new \in NewCheckouts :
        /\ Elapsed(p, request.reading)
        /\ payments' = (payments \ {p}) \cup {[p EXCEPT !.status = "expired"], new}
        /\ Answer(new)
  BY DEF ReplaceCheckout
<1>. DEFINE old == [p EXCEPT !.status = "expired"]
<1>2. /\ new \in Payment /\ new.status = "requires_action"
      /\ \A q \in payments : q.id # new.id
      /\ Serialized(new.expires_at) * Millisecond = new.expires_at
  BY NewCheckoutIsSound DEF ReplaceCheckout
<1>3. /\ p \in payments /\ p \in Payment
      /\ old \in Payment /\ old.status = "expired"
      /\ old.id = p.id /\ old.expires_at = p.expires_at
  BY DEF ActivePayments, Payment, WindowsInv, WindowsTypeOK
<1>4. p.expires_at <= now + Skew
  BY <1>1, <1>3, WindowsAssumption
     DEF Elapsed, WindowsInv, ReadingIsNotFarAhead, ReplaceCheckout, WindowsTypeOK,
         Request, Idle, Payment
<1>5. IdsAreUnique'
  <2>1. payments' = (payments \ {p}) \cup {old, new}
    BY <1>1
  <2>. HIDE DEF old
  <2>2. \A q \in payments \ {p} : q.id # old.id
    BY <1>3 DEF WindowsInv, RowsInv, IdsAreUnique
  <2>. QED  BY <1>2, <1>3, <2>1, <2>2 DEF WindowsInv, RowsInv, IdsAreUnique
<1>6. OneIsActive'
  <2>1. \A q \in payments' : q.status = "requires_action" => q = new
    BY <1>1, <1>3 DEF WindowsInv, RowsInv, OneIsActive, ActivePayments
  <2>. QED  BY <2>1 DEF OneIsActive, ActivePayments
<1>7. RowsAreWholeMilliseconds'
  BY <1>1, <1>2, <1>3 DEF WindowsInv, RowsInv, RowsAreWholeMilliseconds, Serialized
<1>8. ExpiredRowsHaveElapsed'
  BY <1>1, <1>2, <1>3, <1>4
     DEF WindowsInv, RowsInv, ExpiredRowsHaveElapsed, ReplaceCheckout
<1>9. payments' \subseteq Payment /\ new \in payments'
  BY <1>1, <1>2, <1>3 DEF WindowsInv, WindowsTypeOK
<1>10. \A q \in payments : \E r \in payments' : r.id = q.id /\ r.expires_at = q.expires_at
  BY <1>1, <1>3
<1>. QED  BY <1>1, <1>2, <1>5, <1>6, <1>7, <1>8, <1>9, <1>10, AnswerKeeps
          DEF RowsInv, ReplaceCheckout

LEMMA RowsUnchangedKeep ==
  ASSUME WindowsInv, UNCHANGED <<payments, links>>, now' \in Nat, now' >= now,
         request' \in Request, ReadingIsNotFarAhead'
  PROVE  WindowsInv'
<1>1. WindowsTypeOK'
  BY DEF WindowsInv, WindowsTypeOK
<1>2. ExpiredRowsHaveElapsed'
  BY WindowsAssumption
     DEF WindowsInv, WindowsTypeOK, RowsInv, ExpiredRowsHaveElapsed, Payment
<1>. QED  BY <1>1, <1>2
          DEF WindowsInv, RowsInv, IdsAreUnique, OneIsActive, ActivePayments,
              RowsAreWholeMilliseconds, Serialized, LinksFollowOneAnother

(***************************************************************************)
(* The inductive invariant: rows expire at their time only, one at most is *)
(* active, and the links of different payments follow one another.         *)
(***************************************************************************)
THEOREM WindowsInvCorrect == Spec => []WindowsInv
<1>1. Init => WindowsInv
  BY WindowsAssumption
     DEF Init, WindowsInv, WindowsTypeOK, Request, RowsInv, IdsAreUnique, OneIsActive,
         ActivePayments, RowsAreWholeMilliseconds, ExpiredRowsHaveElapsed,
         ReadingIsNotFarAhead, LinksFollowOneAnother
<1>2. WindowsInv /\ [Next]_vars => WindowsInv'
  <2>. SUFFICES ASSUME WindowsInv, [Next]_vars  PROVE WindowsInv'
    OBVIOUS
  <2>1. /\ now \in Nat /\ request \in Request
        /\ request # Idle => request.reading \in Nat /\ request.reading <= now + Skew
    BY DEF WindowsInv, WindowsTypeOK, ReadingIsNotFarAhead, Request
  <2>2. CASE Tick
    <3>1. ReadingIsNotFarAhead'
      BY <2>1, <2>2, WindowsAssumption DEF Tick, ReadingIsNotFarAhead
    <3>. QED  BY <2>1, <2>2, <3>1, RowsUnchangedKeep DEF Tick
  <2>3. CASE StartRequest
    <3>1. PICK c \in Readings : request' = [stage |-> "reading", reading |-> c]
      BY <2>3 DEF StartRequest
    <3>2. c \in Nat /\ c <= now + Skew
      BY <2>1, <3>1, WindowsAssumption DEF Readings
    <3>3. request' \in Request /\ request'.reading = c
      BY <3>1, <3>2 DEF Request
    <3>. QED  BY <2>1, <2>3, <3>2, <3>3, RowsUnchangedKeep DEF StartRequest, ReadingIsNotFarAhead
  <2>4. CASE Reject
    BY <2>1, <2>4, RowsUnchangedKeep DEF Reject, ReadingIsNotFarAhead, Request
  <2>5. CASE UNCHANGED vars
    BY <2>1, <2>5, RowsUnchangedKeep DEF vars, WindowsInv, ReadingIsNotFarAhead
  <2>. QED  BY <2>2, <2>3, <2>4, <2>5, OpenCheckoutKeeps, RepeatCheckoutKeeps,
               ReplaceCheckoutKeeps DEF Next
<1>. QED  BY <1>1, <1>2, PTL DEF Spec

(***************************************************************************)
(* What is signed into a link is the expiration of its row, to the         *)
(* millisecond, for every precision of the clock.                          *)
(***************************************************************************)
THEOREM LinksCarryTheirExpiration == Spec => []WindowsTypeOK
BY WindowsInvCorrect, PTL DEF WindowsInv

(***************************************************************************)
(* Two links of different payments are open together for no longer than    *)
(* the clocks differ.                                                      *)
(***************************************************************************)
THEOREM LinksOverlapBySkewOnly == Spec => []OneLinkIsOpen
<1>1. WindowsInv => OneLinkIsOpen
  <2>. SUFFICES ASSUME WindowsInv,
                       NEW a \in links, NEW b \in links, a.payment # b.payment,
                       Open(a), Open(b)
                PROVE  now < a.given_at + Skew \/ now < b.given_at + Skew
    BY DEF OneLinkIsOpen
  <2>1. \/ a.expiration * Millisecond <= b.given_at + Skew
        \/ b.expiration * Millisecond <= a.given_at + Skew
    BY DEF WindowsInv, LinksFollowOneAnother
  <2>2. /\ now \in Nat /\ a.given_at \in Nat /\ b.given_at \in Nat
        /\ a.expiration * Millisecond \in Nat /\ b.expiration * Millisecond \in Nat
    BY WindowsAssumption DEF WindowsInv, WindowsTypeOK, Link
  <2>. QED  BY <2>1, <2>2, WindowsAssumption DEF Open
<1>. QED  BY <1>1, WindowsInvCorrect, PTL
===============================================================================
