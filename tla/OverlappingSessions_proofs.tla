---------------------- MODULE OverlappingSessions_proofs ----------------------
(***************************************************************************)
(* However many sessions overlap: types, the CHECK constraint, and what it *)
(* means for an order on hold; what sessions do that nobody disturbs; the  *)
(* row lock of payment initialization; OrderContract, kept by sessions     *)
(* that do not write over one another.                                     *)
(***************************************************************************)
EXTENDS OverlappingSessions, TLAPS

(***************************************************************************)
(* What a session remembers of its validation: the row it loaded satisfied *)
(* the constraint, and its transition was one of the table there.          *)
(***************************************************************************)
Validated(w) ==
  /\ w.kind \in {"status", "webhook"} => SatisfiesCheck(w.loaded)
  /\ w.kind = "status" =>
       CanTransitionOrder(w.loaded.status, w.target, w.trigger,
                          w.loaded.cancellation_requested_from)

SessionInv ==
  /\ SessionTypeOK
  /\ SatisfiesCheck(row)
  /\ \A s \in Sessions : Validated(session[s])

-------------------------------------------------------------------------------
(* Kinds of sessions                                                       *)

LEMMA StatusSession ==
  ASSUME NEW w \in Session, w.kind = "status"
  PROVE  /\ w.loaded \in Row
         /\ w.target \in OrderStatus
         /\ w.trigger \in RequestTriggers \cup {"provider_handoff_sent"}
BY DEF Session

LEMMA WebhookSession ==
  ASSUME NEW w \in Session, w.kind = "webhook"
  PROVE  /\ w.loaded \in Row
         /\ w.event \in WebhookEvent
         /\ w.payment \in Payment \cup {None}
BY DEF Session

LEMMA InitializationSession ==
  ASSUME NEW w \in Session, w.kind = "initialize"
  PROVE  w.payments \subseteq Payment
BY DEF Session

(***************************************************************************)
(* A flushed update is a row again: each column comes from one.            *)
(***************************************************************************)
LEMMA MergeIsRow ==
  ASSUME NEW current \in Row, NEW loaded \in Row, NEW new \in Row
  PROVE  /\ Merge(current, loaded, new) \in Row
         /\ Merge(current, loaded, new).status =
              IF new.status = loaded.status THEN current.status ELSE new.status
         /\ Merge(current, loaded, new).cancellation_requested_from =
              IF new.cancellation_requested_from = loaded.cancellation_requested_from
              THEN current.cancellation_requested_from
              ELSE new.cancellation_requested_from
BY DEF Merge, Row

(***************************************************************************)
(* A transition of the table that is no cancellation trigger leaves the    *)
(* cancellation column, NULL where it starts, alone.                       *)
(***************************************************************************)
LEMMA TransitionsMove ==
  ASSUME NEW from, NEW to, NEW trigger, NEW requestedFrom,
         CanTransitionOrder(from, to, trigger, requestedFrom)
  PROVE  /\ from # to
         /\ trigger = "customer_cancellation_requested"
              => from \in CancellationRequestableStatuses /\ to = "cancellation_requested"
         /\ trigger \notin CancellationTriggers
              => from # "cancellation_requested" /\ to # "cancellation_requested"
BY DEF CanTransitionOrder, OrderTriggers, CancellationTriggers,
       CancellationRequestableStatuses, TerminalOrderStatuses

LEMMA AssignedIsRow ==
  ASSUME NEW w \in Session, w.kind = "status", Validated(w)
  PROVE  /\ AssignedRow(w) \in Row
         /\ AssignedRow(w).status = w.target
         /\ AssignedRow(w).cancellation_requested_from =
              IF w.trigger = "customer_cancellation_requested"
              THEN w.loaded.status ELSE None
<1>1. w.loaded \in Row /\ w.target \in OrderStatus
  BY StatusSession
<1>2. w.trigger = "customer_cancellation_requested"
        => w.loaded.status \in CancellationRequestableStatuses
  BY TransitionsMove DEF Validated
<1>3. QED
  BY <1>1, <1>2 DEF AssignedRow, Row
-------------------------------------------------------------------------------
(* The invariant                                                           *)

(***************************************************************************)
(* Only the row and the working session matter: the others are validated   *)
(* as they were.                                                           *)
(***************************************************************************)
LEMMA InvariantStep ==
  ASSUME SessionInv, NEW s \in Sessions, NEW w \in Session, Validated(w),
         Becomes(s, w), row' \in Row, SatisfiesCheck(row'),
         payments' \subseteq Payment, claimedEvents' \subseteq EventIds
  PROVE  SessionInv'
<1>1. session' \in [Sessions -> Session] /\ \A t \in Sessions : Validated(session'[t])
  BY DEF SessionInv, SessionTypeOK, Becomes
<1>2. SessionTypeOK'
  BY <1>1 DEF SessionTypeOK
<1>3. QED
  BY <1>1, <1>2 DEF SessionInv, Validated, SatisfiesCheck

LEMMA IdleIsValidated ==
  /\ Idle \in Session /\ Validated(Idle)
  /\ HandoffOwed \in Session /\ Validated(HandoffOwed)
BY DEF Idle, HandoffOwed, Session, Validated

LEMMA LoadForTransitionStep ==
  ASSUME SessionInv, NEW s \in Sessions, NEW t \in RequestTriggers,
         NEW target \in OrderStatus, LoadForTransition(s, t, target)
  PROVE  SessionInv'
<1> DEFINE w == [kind |-> "status", loaded |-> row, target |-> target, trigger |-> t]
<1>1. w \in Session
  BY DEF SessionInv, SessionTypeOK, Session
<1>2. Validated(w)
  BY DEF SessionInv, Validated, LoadForTransition
<1>3. Becomes(s, w) /\ UNCHANGED <<row, payments, claimedEvents>>
  BY DEF LoadForTransition
<1>4. QED
  BY <1>1, <1>2, <1>3, InvariantStep DEF SessionInv, SessionTypeOK

(* A confirmed row that satisfies the constraint may go to the provider.   *)
LEMMA HandoffIsTransition ==
  ASSUME NEW requestedFrom
  PROVE  CanTransitionOrder("confirmed", "sent_to_provider", "provider_handoff_sent",
                            requestedFrom)
BY DEF CanTransitionOrder, OrderTriggers, TerminalOrderStatuses,
       CancellationRequestableStatuses

LEMMA LoadForHandoffStep ==
  ASSUME SessionInv, NEW s \in Sessions, LoadForHandoff(s)
  PROVE  SessionInv'
<1> DEFINE w == [kind |-> "status", loaded |-> row, target |-> "sent_to_provider",
                 trigger |-> "provider_handoff_sent"]
<1>1. UNCHANGED <<row, payments, claimedEvents>>
  BY DEF LoadForHandoff
<1>2. CASE CanHandOff("verified", row.status) /\ Becomes(s, w)
  <2>1. w \in Session
    BY DEF SessionInv, SessionTypeOK, Session, OrderStatus
  <2>2. Validated(w)
    BY <1>2, HandoffIsTransition DEF SessionInv, Validated, CanHandOff
  <2>3. QED
    BY <1>1, <1>2, <2>1, <2>2, InvariantStep DEF SessionInv, SessionTypeOK
<1>3. CASE Becomes(s, Idle)
  BY <1>1, <1>3, IdleIsValidated, InvariantStep DEF SessionInv, SessionTypeOK
<1>4. QED
  BY <1>2, <1>3 DEF LoadForHandoff

LEMMA LoadForWebhookStep ==
  ASSUME SessionInv, NEW s \in Sessions, NEW ev \in WebhookEvent, LoadForWebhook(s, ev)
  PROVE  SessionInv'
<1>1. PICK p \in Payment \cup {None} :
        Becomes(s, [kind |-> "webhook", loaded |-> row, event |-> ev, payment |-> p])
  BY DEF LoadForWebhook, ReferencedPayments, SessionInv, SessionTypeOK
<1> DEFINE w == [kind |-> "webhook", loaded |-> row, event |-> ev, payment |-> p]
<1>2. w \in Session
  BY DEF SessionInv, SessionTypeOK, Session
<1>3. Validated(w)
  BY DEF SessionInv, Validated
<1>4. QED
  BY <1>1, <1>2, <1>3, InvariantStep DEF SessionInv, SessionTypeOK, LoadForWebhook

LEMMA LoadForInitializationStep ==
  ASSUME SessionInv, NEW s \in Sessions, LoadForInitialization(s)
  PROVE  SessionInv'
<1> DEFINE w == [kind |-> "initialize", loaded |-> row, payments |-> payments]
<1>1. w \in Session /\ Validated(w)
  BY DEF SessionInv, SessionTypeOK, Session, Validated
<1>2. QED
  BY <1>1, InvariantStep DEF SessionInv, SessionTypeOK, LoadForInitialization

LEMMA CommitTransitionStep ==
  ASSUME SessionInv, NEW s \in Sessions, CommitTransition(s)
  PROVE  SessionInv'
<1>1. session[s] \in Session /\ session[s].kind = "status" /\ Validated(session[s])
  BY DEF SessionInv, SessionTypeOK, CommitTransition
<1>2. row' \in Row
  <2>1. session[s].loaded \in Row /\ AssignedRow(session[s]) \in Row
    BY <1>1, StatusSession, AssignedIsRow
  <2>2. QED
    BY <2>1, MergeIsRow DEF SessionInv, SessionTypeOK, CommitTransition
<1>3. QED
  BY <1>2, IdleIsValidated, InvariantStep
     DEF SessionInv, SessionTypeOK, CommitTransition

(***************************************************************************)
(* A webhook persists payments, and an event it is the first to claim.     *)
(***************************************************************************)
LEMMA PersistedArePayments ==
  ASSUME payments \subseteq Payment, NEW ev \in WebhookEvent,
         NEW loaded \in Payment \cup {None}, NEW replay,
         PersistPaymentEvent(ev, loaded, replay)
  PROVE  payments' \subseteq Payment
<1>1. CASE InsertPayment(ev)
  <2>1. PICK id \in PaymentIds :
          payments' = payments \cup
            {[id |-> id, provider_code |-> "legacy_generic", status |-> ev.status,
              payment_provider_reference |-> ev.reference, expired_window |-> FALSE]}
    BY <1>1 DEF InsertPayment
  <2>2. [id |-> id, provider_code |-> "legacy_generic", status |-> ev.status,
         payment_provider_reference |-> ev.reference, expired_window |-> FALSE] \in Payment
    BY DEF Payment, WebhookEvent
  <2>3. QED
    BY <2>1, <2>2
<1>2. CASE payments' = SetStatus(loaded.id, ev.status)
  BY <1>2 DEF SetStatus, Payment, WebhookEvent
<1>3. CASE UNCHANGED payments
  BY <1>3
<1>4. QED
  BY <1>1, <1>2, <1>3 DEF PersistPaymentEvent

LEMMA CommitWebhookStep ==
  ASSUME SessionInv, NEW s \in Sessions, CommitWebhook(s)
  PROVE  SessionInv'
<1> DEFINE ev == session[s].event
           loaded == session[s].loaded
<1>1. session[s] \in Session /\ session[s].kind = "webhook"
  BY DEF SessionInv, SessionTypeOK, CommitWebhook
<1>2. loaded \in Row /\ ev \in WebhookEvent /\ session[s].payment \in Payment \cup {None}
  BY <1>1, WebhookSession
<1>3. claimedEvents' \subseteq EventIds
  BY <1>2 DEF CommitWebhook, ClaimEvent, UpsertEvent, WebhookEvent, SessionInv, SessionTypeOK
<1>4. CASE WebhookConfirmsOrder(s)
  <2>1. payments' \subseteq Payment
    BY <1>2, <1>4, PersistedArePayments
       DEF WebhookConfirmsOrder, SessionInv, SessionTypeOK
  <2>2. [loaded EXCEPT !.status = "confirmed",
                       !.payment_provider_reference = ev.reference] \in Row
    BY <1>2 DEF Row, OrderStatus, WebhookEvent
  <2>3. row' \in Row
    BY <1>2, <1>4, <2>2, MergeIsRow DEF WebhookConfirmsOrder, SessionInv, SessionTypeOK
  <2>4. QED
    BY <1>3, <1>4, <2>1, <2>3, IdleIsValidated, InvariantStep DEF WebhookConfirmsOrder
<1>5. CASE WebhookKeepsOrder(s)
  <2>1. payments' \subseteq Payment
    BY <1>2, <1>5, PersistedArePayments DEF WebhookKeepsOrder, SessionInv, SessionTypeOK
  <2>2. QED
    BY <1>3, <1>5, <2>1, IdleIsValidated, InvariantStep
       DEF WebhookKeepsOrder, SessionInv, SessionTypeOK
<1>6. QED
  BY <1>4, <1>5 DEF CommitWebhook

LEMMA CommitInitializationStep ==
  ASSUME SessionInv, NEW s \in Sessions, CommitInitialization(s)
  PROVE  SessionInv'
<1>1. payments' \subseteq Payment
  <2>1. PICK id \in PaymentIds, old \in SUBSET Active(session[s].payments) :
          payments' =
            {IF \E q \in old : q.id = p.id THEN [p EXCEPT !.status = "expired"] ELSE p
               : p \in payments}
            \cup {[id |-> id, provider_code |-> "wompi", status |-> "requires_action",
                   payment_provider_reference |-> None, expired_window |-> FALSE]}
    BY DEF CommitInitialization
  <2>2. \A p \in payments :
          p \in Payment /\ [p EXCEPT !.status = "expired"] \in Payment
    BY DEF Payment, PaymentStatus, SessionInv, SessionTypeOK
  <2>3. [id |-> id, provider_code |-> "wompi", status |-> "requires_action",
         payment_provider_reference |-> None, expired_window |-> FALSE] \in Payment
    BY DEF Payment, PaymentStatus
  <2>4. QED
    BY <2>1, <2>2, <2>3
<1>2. QED
  BY <1>1, IdleIsValidated, InvariantStep
     DEF CommitInitialization, SessionInv, SessionTypeOK

LEMMA RollbackStep ==
  ASSUME SessionInv, NEW s \in Sessions, Rollback(s)
  PROVE  SessionInv'
BY IdleIsValidated, InvariantStep DEF Rollback, SessionInv, SessionTypeOK

LEMMA CheckoutWindowElapsesStep ==
  ASSUME SessionInv, NEW p \in payments, CheckoutWindowElapses(p)
  PROVE  SessionInv'
<1>1. [p EXCEPT !.expired_window = TRUE] \in Payment
  BY DEF Payment, SessionInv, SessionTypeOK
<1>2. QED
  BY <1>1 DEF CheckoutWindowElapses, SessionInv, SessionTypeOK, SatisfiesCheck, Validated

LEMMA SessionInvStep ==
  ASSUME SessionInv, [Next]_vars
  PROVE  SessionInv'
<1>1. ASSUME NEW s \in Sessions, NEW t \in RequestTriggers, NEW target \in OrderStatus,
             LoadForTransition(s, t, target)
      PROVE  SessionInv'
  BY <1>1, LoadForTransitionStep
<1>2. ASSUME NEW s \in Sessions, NEW ev \in WebhookEvent, LoadForWebhook(s, ev)
      PROVE  SessionInv'
  BY <1>2, LoadForWebhookStep
<1>3. ASSUME NEW s \in Sessions,
             \/ CommitTransition(s) \/ LoadForHandoff(s) \/ CommitWebhook(s)
             \/ LoadForInitialization(s) \/ CommitInitialization(s) \/ Rollback(s)
      PROVE  SessionInv'
  BY <1>3, CommitTransitionStep, LoadForHandoffStep, CommitWebhookStep,
     LoadForInitializationStep, CommitInitializationStep, RollbackStep
<1>4. ASSUME NEW p \in payments, CheckoutWindowElapses(p)
      PROVE  SessionInv'
  BY <1>4, CheckoutWindowElapsesStep
<1>5. CASE UNCHANGED vars
  BY <1>5 DEF vars, SessionInv, SessionTypeOK, SatisfiesCheck, Validated
<1>6. QED
  BY <1>1, <1>2, <1>3, <1>4, <1>5 DEF Next

(***************************************************************************)
(* The rows that sessions have loaded and the committed one satisfy the    *)
(* CHECK constraint in every reachable state, and what a session is about  *)
(* to write is a transition of the row it loaded.                          *)
(***************************************************************************)
THEOREM SessionInvCorrect == Spec => []SessionInv
<1>1. Init => SessionInv
  <2> SUFFICES ASSUME Init PROVE SessionInv
    OBVIOUS
  <2>1. SessionTypeOK
    BY IdleIsValidated DEF Init, SessionTypeOK, DraftRow, Row, OrderStatus
  <2>2. SatisfiesCheck(row)
    BY DEF Init, DraftRow, SatisfiesCheck
  <2>3. \A s \in Sessions : Validated(session[s])
    BY IdleIsValidated DEF Init
  <2>4. QED
    BY <2>1, <2>2, <2>3 DEF SessionInv
<1>2. SessionInv /\ [Next]_vars => SessionInv'
  BY SessionInvStep
<1>3. QED
  BY <1>1, <1>2, PTL DEF Spec

(***************************************************************************)
(* The tables and the sessions keep their types however many sessions      *)
(* overlap on however many payments and events.                            *)
(***************************************************************************)
THEOREM SessionsTypeCorrect == Spec => []SessionTypeOK
<1>1. SessionInv => SessionTypeOK
  BY DEF SessionInv
<1>2. QED
  BY <1>1, SessionInvCorrect, PTL

-------------------------------------------------------------------------------
(* Holds                                                                   *)

(***************************************************************************)
(* The constraint refuses every other write over a hold: one validated     *)
(* before it moves the status and leaves the column, so that the two       *)
(* disagree.                                                               *)
(***************************************************************************)
LEMMA CommitOverHold ==
  ASSUME SessionInv, NEW s \in Sessions, CommitTransition(s),
         row.status = "cancellation_requested"
  PROVE  session[s].trigger \in CancellationTriggers
<1> DEFINE w == session[s]
<1> SUFFICES ASSUME w.trigger \notin CancellationTriggers
             PROVE  FALSE
  OBVIOUS
<1>1. w \in Session /\ w.kind = "status" /\ Validated(w)
  BY DEF SessionInv, SessionTypeOK, CommitTransition
<1>2. w.loaded \in Row /\ AssignedRow(w) \in Row
  BY <1>1, StatusSession, AssignedIsRow
<1>3. /\ w.loaded.status # w.target
      /\ w.loaded.status # "cancellation_requested"
      /\ w.target # "cancellation_requested"
  BY <1>1, TransitionsMove DEF Validated
<1>4. w.loaded.cancellation_requested_from = None
  BY <1>1, <1>3 DEF Validated, SatisfiesCheck
<1>5. AssignedRow(w).status = w.target /\ AssignedRow(w).cancellation_requested_from = None
  BY <1>1, AssignedIsRow DEF CancellationTriggers
<1>6. row'.status = w.target
      /\ row'.cancellation_requested_from = row.cancellation_requested_from
  BY <1>2, <1>3, <1>4, <1>5, MergeIsRow DEF CommitTransition, SessionInv, SessionTypeOK
<1>7. row.cancellation_requested_from # None
  BY DEF SessionInv, SatisfiesCheck
<1>8. QED
  BY <1>3, <1>6, <1>7 DEF CommitTransition, SatisfiesCheck

LEMMA NoConfirmationOverHold ==
  ASSUME SessionInv, NEW s \in Sessions, session[s].kind = "webhook",
         row.status = "cancellation_requested"
  PROVE  ~WebhookConfirmsOrder(s)
<1> DEFINE loaded == session[s].loaded
           new == [loaded EXCEPT !.status = "confirmed",
                     !.payment_provider_reference = session[s].event.reference]
<1> SUFFICES ASSUME WebhookConfirmsOrder(s)
             PROVE  FALSE
  OBVIOUS
<1>1. loaded \in Row /\ session[s].event \in WebhookEvent
  BY WebhookSession DEF SessionInv, SessionTypeOK
<1>2. loaded.status = "draft" /\ loaded.cancellation_requested_from = None
  BY DEF WebhookConfirmsOrder, Confirms, CanConfirmOrder, SessionInv, Validated, SatisfiesCheck
<1>3. new \in Row /\ new.status = "confirmed" /\ new.cancellation_requested_from = None
  BY <1>1, <1>2 DEF Row, OrderStatus, WebhookEvent
<1>4. row \in Row /\ row' = Merge(row, loaded, new)
  BY DEF WebhookConfirmsOrder, SessionInv, SessionTypeOK
<1>5. row'.status = "confirmed"
      /\ row'.cancellation_requested_from = row.cancellation_requested_from
  <2> HIDE DEF loaded, new
  <2> QED
    BY <1>1, <1>2, <1>3, <1>4, MergeIsRow
<1>6. QED
  BY <1>5 DEF WebhookConfirmsOrder, SatisfiesCheck, SessionInv

(***************************************************************************)
(* An order on hold leaves the hold through a cancellation request alone,  *)
(* whatever other sessions validated before it was held: the status and    *)
(* cancellation_requested_from are tied by the CHECK constraint of         *)
(* models/order.py.                                                        *)
(***************************************************************************)
THEOREM HoldsEndInRequests == Spec => HoldsAreOnlyResolved
<1> DEFINE Resolved ==
      row.status = "cancellation_requested" /\ row' # row =>
        \E s \in Sessions :
          /\ session[s].kind = "status"
          /\ session[s].trigger \in CancellationTriggers
          /\ session'[s] = Idle
<1>1. SessionInv /\ [Next]_vars => [Resolved]_vars
  <2> SUFFICES ASSUME SessionInv, [Next]_vars, row.status = "cancellation_requested",
                      row' # row
               PROVE  \E s \in Sessions :
                        /\ session[s].kind = "status"
                        /\ session[s].trigger \in CancellationTriggers
                        /\ session'[s] = Idle
    OBVIOUS
  <2>1. PICK s \in Sessions : CommitTransition(s) \/ CommitWebhook(s)
    BY DEF Next, vars, LoadForTransition, LoadForHandoff, LoadForWebhook,
           LoadForInitialization, CommitInitialization, Rollback, CheckoutWindowElapses
  <2>2. CASE CommitTransition(s)
    <3>1. session'[s] = Idle /\ session[s].kind = "status"
      BY <2>2 DEF CommitTransition, Becomes, SessionInv, SessionTypeOK
    <3>2. QED
      BY <2>2, <3>1, CommitOverHold
  <2>3. CASE CommitWebhook(s)
    BY <2>3, NoConfirmationOverHold DEF CommitWebhook, WebhookKeepsOrder
  <2>4. QED
    BY <2>1, <2>2, <2>3
<1>2. QED
  BY <1>1, SessionInvCorrect, PTL DEF Spec, HoldsAreOnlyResolved

-------------------------------------------------------------------------------
(* Undisturbed commits                                                     *)

(***************************************************************************)
(* Ids name one payment, and a draft has not been paid for: no transition  *)
(* leads back to draft.                                                    *)
(***************************************************************************)
LedgerInv ==
  /\ \A p, q \in payments : p.id = q.id => p = q
  /\ row.status = "draft" => row.payment_provider_reference = None

LEMMA NothingReturnsToDraft ==
  ASSUME NEW from, NEW to, NEW trigger, NEW requestedFrom \in CancellationRequestableStatuses \cup {None},
         CanTransitionOrder(from, to, trigger, requestedFrom)
  PROVE  to # "draft"
BY SessionAssumption DEF CanTransitionOrder, OrderTriggers, OrderStatus,
       CancellationRequestableStatuses, TerminalOrderStatuses, ReturnsToRequestedFrom

(* A new payment has an id of its own; an update keeps all ids.            *)
LEMMA PersistedIds ==
  ASSUME LedgerInv, payments \subseteq Payment, NEW ev \in WebhookEvent,
         NEW loaded \in Payment \cup {None}, NEW replay,
         PersistPaymentEvent(ev, loaded, replay)
  PROVE  \A p, q \in payments' : p.id = q.id => p = q
<1>1. CASE InsertPayment(ev)
  <2>1. PICK id \in PaymentIds \ {p.id : p \in payments} :
          payments' = payments \cup
            {[id |-> id, provider_code |-> "legacy_generic", status |-> ev.status,
              payment_provider_reference |-> ev.reference, expired_window |-> FALSE]}
    BY <1>1 DEF InsertPayment
  <2> DEFINE new ==
        [id |-> id, provider_code |-> "legacy_generic", status |-> ev.status,
         payment_provider_reference |-> ev.reference, expired_window |-> FALSE]
  <2>2. new.id = id /\ \A p \in payments : p.id # id
    OBVIOUS
  <2>3. payments' = payments \cup {new}
    BY <2>1
  <2> HIDE DEF new
  <2>4. QED
    BY <2>2, <2>3 DEF LedgerInv
<1>2. CASE payments' = SetStatus(loaded.id, ev.status)
  <2> DEFINE Moved(p) == IF p.id = loaded.id THEN [p EXCEPT !.status = ev.status] ELSE p
  <2>1. \A p \in payments : Moved(p).id = p.id
    BY DEF Payment
  <2>2. payments' = {Moved(p) : p \in payments}
    BY <1>2 DEF SetStatus
  <2> HIDE DEF Moved
  <2>3. QED
    BY <2>1, <2>2 DEF LedgerInv
<1>3. CASE UNCHANGED payments
  BY <1>3 DEF LedgerInv
<1>4. QED
  BY <1>1, <1>2, <1>3 DEF PersistPaymentEvent

(* What a transition commits over the row as it has become.                *)
LEMMA CommittedRow ==
  ASSUME SessionInv, NEW s \in Sessions, CommitTransition(s)
  PROVE  /\ row'.payment_provider_reference = row.payment_provider_reference
         /\ row'.status = session[s].target
<1> DEFINE w == session[s]
<1>1. w \in Session /\ w.kind = "status" /\ Validated(w) /\ row \in Row
  BY DEF SessionInv, SessionTypeOK, CommitTransition
<1>2. w.loaded \in Row /\ AssignedRow(w) \in Row /\ AssignedRow(w).status = w.target
  BY <1>1, StatusSession, AssignedIsRow
<1>3. AssignedRow(w).payment_provider_reference = w.loaded.payment_provider_reference
  BY <1>2 DEF AssignedRow, Row
<1>4. w.target # w.loaded.status
  BY <1>1, TransitionsMove DEF Validated
<1>5. row' = Merge(row, w.loaded, AssignedRow(w))
  BY DEF CommitTransition
<1> HIDE DEF w
<1>6. QED
  BY <1>1, <1>2, <1>3, <1>4, <1>5 DEF Merge, Row, w

LEMMA LedgerInvStep ==
  ASSUME SessionInv, LedgerInv, [Next]_vars
  PROVE  LedgerInv'
<1>1. ASSUME NEW s \in Sessions, CommitTransition(s)
      PROVE  LedgerInv'
  <2>1. session[s] \in Session /\ session[s].kind = "status" /\ Validated(session[s])
    BY <1>1 DEF SessionInv, SessionTypeOK, CommitTransition
  <2>2. session[s].loaded \in Row
    BY <2>1, StatusSession
  <2>3. session[s].target # "draft"
    BY <2>1, <2>2, NothingReturnsToDraft DEF Validated, Row
  <2>4. QED
    BY <1>1, <2>3, CommittedRow DEF CommitTransition, LedgerInv
<1>2. ASSUME NEW s \in Sessions, CommitWebhook(s)
      PROVE  LedgerInv'
  <2> DEFINE ev == session[s].event
             loaded == session[s].loaded
             new == [loaded EXCEPT !.status = "confirmed", !.payment_provider_reference = ev.reference]
  <2>1. session[s] \in Session /\ session[s].kind = "webhook"
    BY <1>2 DEF SessionInv, SessionTypeOK, CommitWebhook
  <2>2. loaded \in Row /\ ev \in WebhookEvent /\ session[s].payment \in Payment \cup {None}
    BY <2>1, WebhookSession
  <2>3. \A p, q \in payments' : p.id = q.id => p = q
    BY <1>2, <2>2, PersistedIds
       DEF CommitWebhook, WebhookConfirmsOrder, WebhookKeepsOrder, SessionInv, SessionTypeOK
  <2>4. CASE WebhookConfirmsOrder(s)
    <3>1. loaded.status = "draft"
      BY <2>4 DEF WebhookConfirmsOrder, Confirms, CanConfirmOrder
    <3>2. new \in Row /\ new.status = "confirmed"
      BY <2>2 DEF Row, OrderStatus, WebhookEvent
    <3>3. row \in Row /\ row' = Merge(row, loaded, new)
      BY <2>4 DEF WebhookConfirmsOrder, SessionInv, SessionTypeOK
    <3>4. row'.status = "confirmed"
      <4> HIDE DEF loaded, new
      <4> QED
        BY <2>2, <3>1, <3>2, <3>3, MergeIsRow
    <3>5. QED
      BY <2>3, <3>4 DEF LedgerInv
  <2>5. CASE WebhookKeepsOrder(s)
    BY <2>3, <2>5 DEF WebhookKeepsOrder, LedgerInv
  <2>6. QED
    BY <1>2, <2>4, <2>5 DEF CommitWebhook
<1>3. ASSUME NEW s \in Sessions, CommitInitialization(s)
      PROVE  LedgerInv'
  <2>1. PICK id \in PaymentIds \ {p.id : p \in payments},
             old \in SUBSET Active(session[s].payments) :
          payments' =
            {IF \E q \in old : q.id = p.id THEN [p EXCEPT !.status = "expired"] ELSE p
               : p \in payments}
            \cup {[id |-> id, provider_code |-> "wompi", status |-> "requires_action",
                   payment_provider_reference |-> None, expired_window |-> FALSE]}
    BY <1>3 DEF CommitInitialization
  <2> DEFINE Expired(p) ==
               IF \E q \in old : q.id = p.id THEN [p EXCEPT !.status = "expired"] ELSE p
             new == [id |-> id, provider_code |-> "wompi", status |-> "requires_action",
                     payment_provider_reference |-> None, expired_window |-> FALSE]
  <2>2. \A p \in payments : Expired(p).id = p.id
    BY DEF Payment, SessionInv, SessionTypeOK
  <2>3. new.id = id /\ \A p \in payments : p.id # id
    OBVIOUS
  <2>4. payments' = {Expired(p) : p \in payments} \cup {new}
    BY <2>1
  <2>5. \A p, q \in payments' : p.id = q.id => p = q
    <3> HIDE DEF Expired, new
    <3> QED
      BY <2>2, <2>3, <2>4 DEF LedgerInv
  <2>6. QED
    BY <1>3, <2>5 DEF CommitInitialization, LedgerInv
<1>4. ASSUME NEW p \in payments, CheckoutWindowElapses(p)
      PROVE  LedgerInv'
  <2>1. [p EXCEPT !.expired_window = TRUE].id = p.id
    BY DEF Payment, SessionInv, SessionTypeOK
  <2>2. QED
    BY <1>4, <2>1 DEF CheckoutWindowElapses, LedgerInv
<1>5. CASE UNCHANGED <<row, payments>>
  BY <1>5 DEF LedgerInv
<1>6. QED
  BY <1>1, <1>2, <1>3, <1>4, <1>5
     DEF Next, vars, LoadForTransition, LoadForHandoff, LoadForWebhook,
         LoadForInitialization, Rollback

(***************************************************************************)
(* A webhook that finds the payment as it loaded it changes no payment     *)
(* that is settled: the status was validated, and the id is that payment's.*)
(***************************************************************************)
LEMMA PersistKeepsSettled ==
  ASSUME LedgerInv, payments \subseteq Payment, NEW ev \in WebhookEvent,
         NEW loaded \in payments \cup {None}, NEW replay,
         PersistPaymentEvent(ev, loaded, replay)
  PROVE  KeepsSettledStatuses
<1>1. CASE InsertPayment(ev)
  BY <1>1 DEF InsertPayment, KeepsSettledStatuses
<1>2. CASE /\ loaded # None
           /\ WebhookMayMove(loaded.status, ev.status)
           /\ payments' = SetStatus(loaded.id, ev.status)
  <2>1. loaded.status \notin {"verified", "failed", "cancelled"}
    BY <1>2 DEF WebhookMayMove, CanTransitionPayment, TerminalPaymentStatuses, PaymentTriggers
  <2>2. \A p \in payments : p.id = loaded.id => p = loaded
    BY <1>2 DEF LedgerInv
  <2>3. QED
    BY <1>2, <2>1, <2>2 DEF SetStatus, KeepsSettledStatuses
<1>3. CASE UNCHANGED payments
  BY <1>3 DEF KeepsSettledStatuses
<1>4. QED
  BY <1>1, <1>2, <1>3 DEF PersistPaymentEvent

LEMMA ConfirmationIsTransition ==
  ASSUME NEW requestedFrom
  PROVE  CanTransitionOrder("draft", "confirmed", "verified_payment", requestedFrom)
BY DEF CanTransitionOrder, OrderTriggers, TerminalOrderStatuses,
       CancellationRequestableStatuses

LEMMA UndisturbedTransition ==
  ASSUME SessionInv, NEW s \in Sessions, CommitTransition(s), session[s].loaded = row
  PROVE  MovesAlongTable /\ KeepsSettledStatuses /\ KeepsConfirmingPayment
<1>1. /\ session[s] \in Session /\ session[s].kind = "status" /\ Validated(session[s])
      /\ UNCHANGED payments
  BY DEF SessionInv, SessionTypeOK, CommitTransition
<1>2. session[s].trigger \in RequestTriggers \cup {"provider_handoff_sent"}
  BY <1>1, StatusSession
<1>3. QED
  BY <1>1, <1>2, CommittedRow
     DEF Validated, MovesAlongTable, KeepsSettledStatuses, KeepsConfirmingPayment

LEMMA UndisturbedWebhook ==
  ASSUME SessionInv, LedgerInv, NEW s \in Sessions, CommitWebhook(s),
         session[s].loaded = row, session[s].payment \in payments \cup {None}
  PROVE  MovesAlongTable /\ KeepsSettledStatuses /\ KeepsConfirmingPayment
<1> DEFINE new == [row EXCEPT !.status = "confirmed",
                     !.payment_provider_reference = session[s].event.reference]
<1>1. /\ session[s].event \in WebhookEvent /\ row \in Row
      /\ payments \subseteq Payment
  BY WebhookSession DEF SessionInv, SessionTypeOK, CommitWebhook
<1>2. KeepsSettledStatuses
  BY <1>1, PersistKeepsSettled DEF CommitWebhook, WebhookConfirmsOrder, WebhookKeepsOrder
<1>3. CASE WebhookConfirmsOrder(s)
  <2>1. row.status = "draft"
    BY <1>3 DEF WebhookConfirmsOrder, Confirms, CanConfirmOrder
  <2>2. new \in Row /\ new.status = "confirmed"
    BY <1>1 DEF Row, OrderStatus, WebhookEvent
  <2>3. row' = Merge(row, row, new)
    BY <1>3 DEF WebhookConfirmsOrder
  <2>4. row'.status = "confirmed"
    <3> HIDE DEF new
    <3> QED
      BY <1>1, <2>1, <2>2, <2>3, MergeIsRow
  <2>5. QED
    BY <1>2, <2>1, <2>4, ConfirmationIsTransition
       DEF MovesAlongTable, KeepsConfirmingPayment, LedgerInv
<1>4. CASE WebhookKeepsOrder(s)
  BY <1>2, <1>4 DEF WebhookKeepsOrder, MovesAlongTable, KeepsConfirmingPayment
<1>5. QED
  BY <1>3, <1>4 DEF CommitWebhook

(* A session that has a status or a webhook in hand commits or gives up.   *)
LEMMA ActingSession ==
  ASSUME SessionInv, [Next]_vars, NEW s \in Sessions,
         session[s].kind \in {"status", "webhook"}, session'[s] # session[s]
  PROVE  CommitTransition(s) \/ CommitWebhook(s) \/ Rollback(s)
<1>1. session[s] # Idle /\ session[s] # HandoffOwed /\ session[s].kind # "initialize"
  BY DEF Idle, HandoffOwed
<1>2. ASSUME NEW t \in Sessions, NEW w, Becomes(t, w)
      PROVE  t = s
  BY <1>2 DEF Becomes, SessionInv, SessionTypeOK
<1>3. PICK t \in Sessions :
        \/ \E x \in RequestTriggers, target \in OrderStatus :
             LoadForTransition(t, x, target)
        \/ CommitTransition(t) \/ LoadForHandoff(t)
        \/ \E ev \in WebhookEvent : LoadForWebhook(t, ev)
        \/ CommitWebhook(t) \/ LoadForInitialization(t)
        \/ CommitInitialization(t) \/ Rollback(t)
  BY DEF Next, vars, CheckoutWindowElapses
<1>4. t = s
  BY <1>2, <1>3
     DEF LoadForTransition, LoadForHandoff, LoadForWebhook, CommitTransition,
         CommitWebhook, WebhookConfirmsOrder, WebhookKeepsOrder,
         LoadForInitialization, CommitInitialization, Rollback
<1>5. QED
  BY <1>1, <1>3, <1>4
     DEF LoadForTransition, LoadForHandoff, LoadForWebhook, LoadForInitialization,
         CommitInitialization

(***************************************************************************)
(* The unique event_id of payment_webhook_events makes one delivery act    *)
(* once, in however many sessions it is processed.                         *)
(***************************************************************************)
THEOREM DeliveriesActOnce == Spec => EventsActOnce
<1> DEFINE Once ==
      \A s \in Sessions :
        /\ session[s].kind = "webhook"
        /\ session'[s] # session[s]
        /\ <<row, payments>>' # <<row, payments>>
        => session[s].event.id \in claimedEvents' \ claimedEvents
<1>1. SessionInv /\ [Next]_vars => [Once]_vars
  <2> SUFFICES ASSUME SessionInv, [Next]_vars, NEW s \in Sessions,
                      session[s].kind = "webhook", session'[s] # session[s],
                      <<row, payments>>' # <<row, payments>>
               PROVE  session[s].event.id \in claimedEvents' \ claimedEvents
    OBVIOUS
  <2>1. CommitWebhook(s)
    BY ActingSession DEF CommitTransition, Rollback
  <2>2. QED
    BY <2>1 DEF CommitWebhook, ClaimEvent, UpsertEvent
<1>2. QED
  BY <1>1, SessionInvCorrect, PTL DEF Spec, EventsActOnce

(***************************************************************************)
(* Stale rows are the only way to the three things that overlapping        *)
(* sessions break: a status, provider or cancellation request and a        *)
(* webhook that find order and payment as they loaded them make a          *)
(* transition of the table, and leave settled payments and the             *)
(* confirmation alone.                                                     *)
(***************************************************************************)
THEOREM StaleRowsAreTheOnlyCause == Spec => UndisturbedCommitsAreTransitions
<1> DEFINE Undisturbed ==
      \A s \in Sessions :
        /\ session[s].kind \in {"status", "webhook"}
        /\ session[s].loaded = row
        /\ session[s].kind = "webhook" => session[s].payment \in payments \cup {None}
        /\ session'[s] # session[s]
        => MovesAlongTable /\ KeepsSettledStatuses /\ KeepsConfirmingPayment
<1>1. Init => LedgerInv
  BY DEF Init, DraftRow, LedgerInv
<1>2. SessionInv /\ LedgerInv /\ [Next]_vars => LedgerInv'
  BY LedgerInvStep
<1>3. SessionInv /\ LedgerInv /\ [Next]_vars => [Undisturbed]_vars
  <2> SUFFICES ASSUME SessionInv, LedgerInv, [Next]_vars, NEW s \in Sessions,
                      session[s].kind \in {"status", "webhook"},
                      session[s].loaded = row,
                      session[s].kind = "webhook"
                        => session[s].payment \in payments \cup {None},
                      session'[s] # session[s]
               PROVE  MovesAlongTable /\ KeepsSettledStatuses /\ KeepsConfirmingPayment
    OBVIOUS
  <2>1. CASE CommitTransition(s)
    BY <2>1, UndisturbedTransition
  <2>2. CASE CommitWebhook(s)
    BY <2>2, UndisturbedWebhook DEF CommitWebhook
  <2>3. CASE Rollback(s)
    BY <2>3 DEF Rollback, MovesAlongTable, KeepsSettledStatuses, KeepsConfirmingPayment
  <2>4. CommitTransition(s) \/ CommitWebhook(s) \/ Rollback(s)
    BY ActingSession
  <2>5. QED
    BY <2>1, <2>2, <2>3, <2>4
<1>4. QED
  BY <1>1, <1>2, <1>3, SessionInvCorrect, PTL DEF Spec, UndisturbedCommitsAreTransitions

-------------------------------------------------------------------------------
(* The row lock of payment initialization                                  *)

(***************************************************************************)
(* A payment is as the locking session read it, but that its window may    *)
(* have elapsed since.                                                     *)
(***************************************************************************)
SeenAs(p, q) == p.id = q.id /\ p.provider_code = q.provider_code /\ p.status = q.status

LegacyId(id) == \E q \in payments : q.id = id /\ q.provider_code = "legacy_generic"

KnowsLegacy(w) == w.kind = "webhook" /\ w.payment # None => LegacyId(w.payment.id)

(***************************************************************************)
(* One session holds the lock; while it does, the order is the unpaid      *)
(* draft and the payments are those it read.  Webhooks know the payments   *)
(* that have a reference, and those are no checkouts.                      *)
(***************************************************************************)
LockInv ==
  /\ \A p \in payments : p.provider_code = "wompi" => p.payment_provider_reference = None
  /\ \A s \in Sessions : KnowsLegacy(session[s])
  /\ \A s, t \in Sessions : session[s].kind = "initialize" /\ session[t].kind = "initialize"
                              => s = t
  /\ \A s \in Sessions : session[s].kind = "initialize" =>
       row.status = "draft" /\ \A p \in payments : \E q \in session[s].payments : SeenAs(p, q)
  /\ OneLiveCheckout

(***************************************************************************)
(* What a webhook does to payments leaves checkouts alone.                 *)
(***************************************************************************)
LEMMA WebhooksLeaveCheckouts ==
  ASSUME SessionInv, LedgerInv, LockInv, NEW s \in Sessions, CommitWebhook(s)
  PROVE  /\ \A p \in payments' : p.provider_code = "wompi" => p \in payments
         /\ \A id : LegacyId(id) => LegacyId(id)'
<1> DEFINE ev == session[s].event
           loaded == session[s].payment
<1>1. session[s] \in Session /\ session[s].kind = "webhook" /\ payments \subseteq Payment
  BY DEF SessionInv, SessionTypeOK, CommitWebhook
<1>2. ev \in WebhookEvent /\ loaded \in Payment \cup {None}
  BY <1>1, WebhookSession
<1>3. CASE InsertPayment(ev)
  BY <1>3 DEF InsertPayment, LegacyId
<1>4. CASE loaded # None /\ payments' = SetStatus(loaded.id, ev.status)
  <2> DEFINE Moved(p) == IF p.id = loaded.id THEN [p EXCEPT !.status = ev.status] ELSE p
  <2>1. \A p \in payments : Moved(p).id = p.id /\ Moved(p).provider_code = p.provider_code
    BY <1>1 DEF Payment
  <2>2. \A p \in payments : p.id = loaded.id => p.provider_code = "legacy_generic"
    BY <1>1, <1>4 DEF LockInv, KnowsLegacy, LegacyId, LedgerInv
  <2>3. \A p \in payments : p.provider_code = "wompi" => Moved(p) = p
    BY <2>2
  <2>4. payments' = {Moved(p) : p \in payments}
    BY <1>4 DEF SetStatus
  <2> HIDE DEF Moved
  <2>5. QED
    BY <2>1, <2>3, <2>4 DEF LegacyId
<1>5. CASE UNCHANGED payments
  BY <1>5 DEF LegacyId
<1>6. QED
  BY <1>3, <1>4, <1>5
     DEF CommitWebhook, WebhookConfirmsOrder, WebhookKeepsOrder, PersistPaymentEvent

(***************************************************************************)
(* A checkout is opened over payments that are not verified, and is the    *)
(* only live one: the active ones the session saw are all there are.       *)
(***************************************************************************)
LEMMA InitializationOpensOne ==
  ASSUME SessionInv, LockInv, NEW s \in Sessions, CommitInitialization(s)
  PROVE  /\ OneLiveCheckout'
         /\ row.status = "draft" /\ \A q \in payments : q.status # "verified"
         /\ \A p \in payments' : p.provider_code = "wompi"
                                   => p.payment_provider_reference = None
         /\ \A id : LegacyId(id) => LegacyId(id)'
<1> DEFINE seen == session[s].payments
<1>1. /\ session[s].kind = "initialize" /\ payments \subseteq Payment
      /\ \A q \in seen : q.status # "verified"
  BY DEF SessionInv, SessionTypeOK, CommitInitialization
<1>2. row.status = "draft" /\ \A p \in payments : \E q \in seen : SeenAs(p, q)
  BY <1>1 DEF LockInv
<1>3. PICK id \in PaymentIds \ {p.id : p \in payments} :
        payments' =
          {IF \E q \in Active(seen) : q.id = p.id THEN [p EXCEPT !.status = "expired"] ELSE p
             : p \in payments}
          \cup {[id |-> id, provider_code |-> "wompi", status |-> "requires_action",
                 payment_provider_reference |-> None, expired_window |-> FALSE]}
  BY DEF CommitInitialization
<1> DEFINE Expired(p) ==
             IF \E q \in Active(seen) : q.id = p.id THEN [p EXCEPT !.status = "expired"] ELSE p
           new == [id |-> id, provider_code |-> "wompi", status |-> "requires_action",
                   payment_provider_reference |-> None, expired_window |-> FALSE]
<1>4. payments' = {Expired(p) : p \in payments} \cup {new}
  BY <1>3
<1>5. \A p \in payments :
        /\ Expired(p).id = p.id /\ Expired(p).provider_code = p.provider_code
        /\ Expired(p).payment_provider_reference = p.payment_provider_reference
  BY <1>1 DEF Payment
<1>6. \A p \in payments : Expired(p).status \notin NonTerminalPaymentStatuses
  <2> SUFFICES ASSUME NEW p \in payments
               PROVE  Expired(p).status \notin NonTerminalPaymentStatuses
    OBVIOUS
  <2>1. CASE p.status \in NonTerminalPaymentStatuses
    <3>1. \E q \in Active(seen) : q.id = p.id
      BY <1>2, <2>1 DEF Active, SeenAs
    <3>2. Expired(p).status = "expired"
      BY <1>1, <3>1 DEF Payment
    <3>3. QED
      BY <3>2 DEF NonTerminalPaymentStatuses, TerminalPaymentStatuses
  <2>2. CASE p.status \notin NonTerminalPaymentStatuses
    <3>1. Expired(p) = p \/ Expired(p).status = "expired"
      BY <1>1 DEF Payment
    <3>2. QED
      BY <2>2, <3>1 DEF NonTerminalPaymentStatuses, TerminalPaymentStatuses
  <2>3. QED
    BY <2>1, <2>2
<1>7. new.payment_provider_reference = None
  OBVIOUS
<1>8. \A p \in payments : p.status # "verified"
  BY <1>1, <1>2 DEF SeenAs
<1> HIDE DEF Expired, new
<1>9. OneLiveCheckout'
  BY <1>4, <1>6 DEF OneLiveCheckout, Active
<1>10. QED
  BY <1>2, <1>4, <1>5, <1>7, <1>8, <1>9 DEF LockInv, LegacyId

(***************************************************************************)
(* Steps that write neither order nor payments, and at most load them.     *)
(***************************************************************************)
LEMMA LoadKeepsLock ==
  ASSUME SessionInv, LockInv, UNCHANGED <<row, payments>>,
         NEW s \in Sessions, NEW w, Becomes(s, w),
         KnowsLegacy(w),
         w.kind = "initialize" =>
           ~OrderRowLocked /\ row.status = "draft" /\ w.payments = payments
  PROVE  LockInv'
<1>1. session' = [session EXCEPT ![s] = w] /\ session \in [Sessions -> Session]
  BY DEF Becomes, SessionInv, SessionTypeOK
<1>2. \A t \in Sessions : session'[t] = IF t = s THEN w ELSE session[t]
  BY <1>1
<1>3. \A t \in Sessions : KnowsLegacy(session[t])'
  BY <1>2 DEF LockInv, KnowsLegacy, LegacyId
<1>4. \A t, u \in Sessions : session'[t].kind = "initialize" /\ session'[u].kind = "initialize"
                               => t = u
  BY <1>2 DEF LockInv, OrderRowLocked
<1>5. \A t \in Sessions : session'[t].kind = "initialize" =>
        row.status = "draft" /\ \A p \in payments : \E q \in session'[t].payments : SeenAs(p, q)
  BY <1>2 DEF LockInv, SeenAs
<1>6. OneLiveCheckout'
  BY DEF LockInv, OneLiveCheckout, Active
<1>7. QED
  BY <1>3, <1>4, <1>5, <1>6 DEF LockInv, SeenAs

LEMMA LockInvStep ==
  ASSUME SessionInv, LedgerInv, LockInv, [Next]_vars
  PROVE  LockInv'
<1>1. ASSUME NEW s \in Sessions, NEW t \in RequestTriggers, NEW target \in OrderStatus,
             LoadForTransition(s, t, target)
      PROVE  LockInv'
  BY <1>1, LoadKeepsLock DEF KnowsLegacy, LoadForTransition
<1>2. ASSUME NEW s \in Sessions, LoadForHandoff(s)
      PROVE  LockInv'
  BY <1>2, LoadKeepsLock DEF KnowsLegacy, LoadForHandoff, Idle
<1>3. ASSUME NEW s \in Sessions, NEW ev \in WebhookEvent, LoadForWebhook(s, ev)
      PROVE  LockInv'
  <2>1. PICK p \in IF ReferencedPayments(ev.reference) = {} THEN {None}
                   ELSE ReferencedPayments(ev.reference) :
          Becomes(s, [kind |-> "webhook", loaded |-> row, event |-> ev, payment |-> p])
    BY <1>3 DEF LoadForWebhook
  <2>2. p # None => LegacyId(p.id)
    <3> SUFFICES ASSUME p # None
                 PROVE  LegacyId(p.id)
      OBVIOUS
    <3>1. p \in payments /\ p.payment_provider_reference = ev.reference
      BY DEF ReferencedPayments
    <3>2. ev.reference # None
      BY SessionAssumption DEF WebhookEvent
    <3>3. p.provider_code \in {"wompi", "legacy_generic"}
      BY <3>1 DEF SessionInv, SessionTypeOK, Payment
    <3>4. QED
      BY <3>1, <3>2, <3>3 DEF LockInv, LegacyId
  <2>3. QED
    BY <1>3, <2>1, <2>2, LoadKeepsLock DEF KnowsLegacy, LoadForWebhook
<1>4. ASSUME NEW s \in Sessions, LoadForInitialization(s)
      PROVE  LockInv'
  BY <1>4, LoadKeepsLock DEF KnowsLegacy, LoadForInitialization
<1>5. ASSUME NEW s \in Sessions, Rollback(s)
      PROVE  LockInv'
  BY <1>5, LoadKeepsLock DEF KnowsLegacy, Rollback, Idle
<1>6. ASSUME NEW s \in Sessions, CommitTransition(s)
      PROVE  LockInv'
  <2>1. /\ UNCHANGED payments /\ ~OrderRowLocked
        /\ \A t \in Sessions : session'[t] = IF t = s THEN Idle ELSE session[t]
    BY <1>6 DEF CommitTransition, Becomes, SessionInv, SessionTypeOK
  <2>2. OneLiveCheckout'
    BY <2>1 DEF LockInv, OneLiveCheckout, Active
  <2>3. QED
    BY <2>1, <2>2 DEF LockInv, KnowsLegacy, LegacyId, OrderRowLocked, Idle
<1>7. ASSUME NEW s \in Sessions, CommitWebhook(s)
      PROVE  LockInv'
  <2>1. ~OrderRowLocked /\ \A t \in Sessions : session'[t] \in {session[t], Idle, HandoffOwed}
    <3>1. ~OrderRowLocked /\ (Becomes(s, HandoffOwed) \/ Becomes(s, Idle))
      BY <1>7 DEF CommitWebhook, WebhookConfirmsOrder, WebhookKeepsOrder
    <3>2. QED
      BY <3>1 DEF Becomes, SessionInv, SessionTypeOK
  <2>2. OneLiveCheckout'
    BY <1>7, WebhooksLeaveCheckouts DEF LockInv, OneLiveCheckout, Active
  <2>3. \A p \in payments' : p.provider_code = "wompi" => p.payment_provider_reference = None
    BY <1>7, WebhooksLeaveCheckouts DEF LockInv
  <2>4. \A t \in Sessions : KnowsLegacy(session[t])'
    BY <1>7, <2>1, WebhooksLeaveCheckouts DEF LockInv, KnowsLegacy, Idle, HandoffOwed
  <2>5. \A t \in Sessions : session'[t].kind # "initialize"
    BY <2>1 DEF OrderRowLocked, Idle, HandoffOwed
  <2>6. QED
    BY <2>2, <2>3, <2>4, <2>5 DEF LockInv
<1>8. ASSUME NEW s \in Sessions, CommitInitialization(s)
      PROVE  LockInv'
  <2>1. \A t \in Sessions : session'[t] = IF t = s THEN Idle ELSE session[t]
    BY <1>8 DEF CommitInitialization, Becomes, SessionInv, SessionTypeOK
  <2>2. \A t \in Sessions : session'[t].kind # "initialize"
    BY <1>8, <2>1 DEF CommitInitialization, LockInv, Idle
  <2>3. \A t \in Sessions : KnowsLegacy(session[t])'
    BY <1>8, <2>1, InitializationOpensOne DEF LockInv, KnowsLegacy, Idle
  <2>4. QED
    BY <1>8, <2>2, <2>3, InitializationOpensOne DEF LockInv
<1>9. ASSUME NEW p \in payments, CheckoutWindowElapses(p)
      PROVE  LockInv'
  <2> DEFINE elapsed == [p EXCEPT !.expired_window = TRUE]
  <2>1. /\ elapsed.id = p.id /\ elapsed.provider_code = p.provider_code
        /\ elapsed.status = p.status
        /\ elapsed.payment_provider_reference = p.payment_provider_reference
    BY DEF Payment, SessionInv, SessionTypeOK
  <2>2. /\ payments' = (payments \ {p}) \cup {elapsed}
        /\ p.provider_code = "wompi" /\ UNCHANGED <<row, session>>
    BY <1>9 DEF CheckoutWindowElapses
  <2> HIDE DEF elapsed
  <2>3. OneLiveCheckout'
    BY <2>1, <2>2 DEF LockInv, OneLiveCheckout, Active
  <2>4. \A id : LegacyId(id) => LegacyId(id)'
    BY <2>2 DEF LegacyId
  <2>5. \A q \in payments' : q.provider_code = "wompi" => q.payment_provider_reference = None
    BY <2>1, <2>2 DEF LockInv
  <2>6. \A q \in payments' : \E r \in payments : SeenAs(q, r)
    BY <2>1, <2>2 DEF SeenAs
  <2>7. \A t \in Sessions : session[t].kind = "initialize" =>
          row.status = "draft" /\ \A q \in payments' : \E r \in session[t].payments : SeenAs(q, r)
    BY <2>6 DEF LockInv, SeenAs
  <2>8. QED
    BY <2>2, <2>3, <2>4, <2>5, <2>7 DEF LockInv, KnowsLegacy, SeenAs
<1>10. CASE UNCHANGED vars
  BY <1>10 DEF vars, LockInv, KnowsLegacy, LegacyId, SeenAs, OneLiveCheckout, Active
<1>11. QED
  BY <1>1, <1>2, <1>3, <1>4, <1>5, <1>6, <1>7, <1>8, <1>9, <1>10 DEF Next

LEMMA LedgerAndLockCorrect == Spec => [](SessionInv /\ LedgerInv /\ LockInv)
<1>1. Init => LedgerInv /\ LockInv
  BY DEF Init, DraftRow, LedgerInv, LockInv, KnowsLegacy, Idle, OneLiveCheckout, Active
<1>2. SessionInv /\ LedgerInv /\ LockInv /\ [Next]_vars => LedgerInv' /\ LockInv'
  BY LedgerInvStep, LockInvStep
<1>3. QED
  BY <1>1, <1>2, SessionInvCorrect, PTL DEF Spec

(***************************************************************************)
(* However many calls of POST /payments/initialize meet on an order, and   *)
(* whatever webhooks do meanwhile, it has one live Wompi checkout.         *)
(***************************************************************************)
THEOREM LockLeavesOneCheckout == Spec => []OneLiveCheckout
<1>1. LockInv => OneLiveCheckout
  BY DEF LockInv
<1>2. QED
  BY <1>1, LedgerAndLockCorrect, PTL

(***************************************************************************)
(* What the session read under the lock still holds when it opens the      *)
(* checkout: the order is a draft, and nothing is verified.                *)
(***************************************************************************)
THEOREM LockKeepsCheckoutsToDrafts == Spec => CheckoutsOpenForUnpaidDrafts
<1> DEFINE OpensForDraft ==
      \A p \in payments' :
        p.provider_code = "wompi" /\ (\A q \in payments : q.id # p.id)
        => row.status = "draft" /\ \A q \in payments : q.status # "verified"
<1>1. SessionInv /\ LedgerInv /\ LockInv /\ [Next]_vars => [OpensForDraft]_vars
  <2> SUFFICES ASSUME SessionInv, LedgerInv, LockInv, [Next]_vars, NEW p \in payments',
                      p.provider_code = "wompi", \A q \in payments : q.id # p.id
               PROVE  row.status = "draft" /\ \A q \in payments : q.status # "verified"
    OBVIOUS
  <2>1. ASSUME NEW s \in Sessions, CommitInitialization(s)
        PROVE  row.status = "draft" /\ \A q \in payments : q.status # "verified"
    BY <2>1, InitializationOpensOne
  <2>2. ASSUME NEW s \in Sessions, CommitWebhook(s)
        PROVE  FALSE
    BY <2>2, WebhooksLeaveCheckouts
  <2>3. ASSUME NEW q \in payments, CheckoutWindowElapses(q)
        PROVE  FALSE
    <3>1. [q EXCEPT !.expired_window = TRUE].id = q.id
      BY DEF Payment, SessionInv, SessionTypeOK
    <3>2. QED
      BY <2>3, <3>1 DEF CheckoutWindowElapses
  <2>4. ~UNCHANGED payments
    OBVIOUS
  <2>5. QED
    BY <2>1, <2>2, <2>3, <2>4
       DEF Next, vars, LoadForTransition, LoadForHandoff, LoadForWebhook, CommitTransition,
           LoadForInitialization, Rollback
<1>2. QED
  BY <1>1, LedgerAndLockCorrect, PTL DEF Spec, CheckoutsOpenForUnpaidDrafts
-------------------------------------------------------------------------------
(* Sessions that do not write over one another keep OrderContract          *)

(***************************************************************************)
(* A history variable: whether a handoff of the order was committed.  The  *)
(* row of a cancelled order does not tell.                                 *)
(***************************************************************************)
VARIABLE handed

(***************************************************************************)
(* Sessions overlap, load and roll back as they do, but whoever writes the *)
(* order finds the row as it loaded it.                                    *)
(***************************************************************************)
WritesFreshRow ==
  row' # row => \A s \in Sessions : session'[s] # session[s] => session[s].loaded = row

RecordsHandoff ==
  handed' = (handed \/ (row.status = "confirmed" /\ row'.status = "sent_to_provider"))

FreshSpec ==
  /\ Init /\ handed = FALSE
  /\ [][Next /\ WritesFreshRow /\ RecordsHandoff]_<<vars, handed>>

Order == "order"

Contract == INSTANCE OrderContract WITH
  Orders <- {Order},
  stage <- [o \in {Order} |-> IF row.status = "cancellation_requested"
                              THEN row.cancellation_requested_from ELSE row.status],
  held <- {o \in {Order} : row.status = "cancellation_requested"},
  paid <- {o \in {Order} : row.payment_provider_reference # None},
  atProvider <- {o \in {Order} : handed}

(* The one order is there, as a draft, when the sessions begin.            *)
DraftIsCreated ==
  /\ row.status = "draft" /\ row.payment_provider_reference = None
  /\ ~handed

ContinuesContract ==
  DraftIsCreated /\ [][Contract!ContractNext]_(Contract!contractVars)

(* What was confirmed has been paid for.                                   *)
FreshInv ==
  /\ handed \in BOOLEAN
  /\ row.status # "draft" => row.payment_provider_reference # None

(* The transitions of the table that a request or a handoff can make.      *)
LEMMA RequestTransitions ==
  ASSUME NEW from, NEW to, NEW trigger \in RequestTriggers \cup {"provider_handoff_sent"},
         NEW requestedFrom, CanTransitionOrder(from, to, trigger, requestedFrom)
  PROVE  \/ /\ trigger \notin CancellationTriggers
            /\ <<from, to>> \in {<<"sent_to_provider", "accepted">>,
                 <<"accepted", "in_production">>, <<"in_production", "ready_for_pickup">>,
                 <<"ready_for_pickup", "shipped">>, <<"shipped", "delivered">>,
                 <<"confirmed", "sent_to_provider">>, <<"sent_to_provider", "cancelled">>}
         \/ /\ trigger = "customer_cancellation_requested"
            /\ from \in CancellationRequestableStatuses /\ to = "cancellation_requested"
         \/ /\ trigger = "cancellation_approved"
            /\ from = "cancellation_requested" /\ to = "cancelled"
         \/ /\ trigger = "cancellation_rejected"
            /\ from = "cancellation_requested" /\ to = requestedFrom
            /\ to \in CancellationRequestableStatuses
<1>1. trigger \in OrderTriggers(from, to)
  BY DEF CanTransitionOrder
<1>2. trigger # "verified_payment" /\ trigger # "pre_payment_cancel"
  BY DEF RequestTriggers
<1>3. trigger = "cancellation_rejected" => to = requestedFrom
  BY DEF CanTransitionOrder, ReturnsToRequestedFrom
<1>4. QED
  BY <1>1, <1>2, <1>3
     DEF OrderTriggers, CancellationTriggers, CancellationRequestableStatuses

(* A transition that is written over the row it was validated on.          *)
LEMMA FreshTransition ==
  ASSUME SessionInv, NEW s \in Sessions, CommitTransition(s), session[s].loaded = row
  PROVE  /\ row'.status = session[s].target
         /\ row'.payment_provider_reference = row.payment_provider_reference
         /\ row'.cancellation_requested_from =
              IF session[s].trigger = "customer_cancellation_requested"
              THEN row.status ELSE None
         /\ session[s].trigger \in RequestTriggers \cup {"provider_handoff_sent"}
         /\ CanTransitionOrder(row.status, row'.status, session[s].trigger,
                               row.cancellation_requested_from)
<1> DEFINE w == session[s]
<1>1. w \in Session /\ w.kind = "status" /\ Validated(w) /\ row \in Row
  BY DEF SessionInv, SessionTypeOK, CommitTransition
<1>2. /\ AssignedRow(w) \in Row
      /\ AssignedRow(w).cancellation_requested_from =
           IF w.trigger = "customer_cancellation_requested" THEN w.loaded.status ELSE None
  BY <1>1, AssignedIsRow
<1>3. row' = Merge(row, row, AssignedRow(w))
  BY DEF CommitTransition
<1>4. row'.cancellation_requested_from = AssignedRow(w).cancellation_requested_from
  BY <1>1, <1>2, <1>3, MergeIsRow
<1>5. w.trigger \in RequestTriggers \cup {"provider_handoff_sent"}
  BY <1>1, StatusSession
<1>6. QED
  BY <1>1, <1>2, <1>4, <1>5, CommittedRow DEF Validated

(* A confirmation that is written over the draft it was validated on.      *)
LEMMA FreshConfirmation ==
  ASSUME SessionInv, NEW s \in Sessions, CommitWebhook(s), WebhookConfirmsOrder(s),
         session[s].loaded = row
  PROVE  /\ row.status = "draft" /\ row'.status = "confirmed"
         /\ row'.payment_provider_reference # None
<1> DEFINE new == [row EXCEPT !.status = "confirmed",
                     !.payment_provider_reference = session[s].event.reference]
<1>1. row \in Row /\ session[s].event \in WebhookEvent
  BY WebhookSession DEF SessionInv, SessionTypeOK, CommitWebhook
<1>2. row.status = "draft"
  BY DEF WebhookConfirmsOrder, Confirms, CanConfirmOrder
<1>3. row' = Merge(row, row, new)
  BY DEF WebhookConfirmsOrder
<1>4. /\ new.status = "confirmed"
      /\ new.payment_provider_reference = session[s].event.reference
  BY <1>1 DEF Row
<1> HIDE DEF new
<1>5. /\ row'.status = IF new.status = row.status THEN row.status ELSE new.status
      /\ row'.payment_provider_reference =
           IF new.payment_provider_reference = row.payment_provider_reference
           THEN row.payment_provider_reference ELSE new.payment_provider_reference
  BY <1>1, <1>3 DEF Merge, Row
<1>6. session[s].event.reference # None
  BY <1>1, SessionAssumption DEF WebhookEvent
<1>7. QED
  BY <1>2, <1>4, <1>5, <1>6

(* Only two actions write the order.                                       *)
LEMMA WhoWritesTheOrder ==
  ASSUME SessionInv, [Next]_vars, row' # row, WritesFreshRow
  PROVE  \E s \in Sessions :
           /\ session[s].loaded = row
           /\ CommitTransition(s) \/ (CommitWebhook(s) /\ WebhookConfirmsOrder(s))
<1>1. PICK s \in Sessions :
        CommitTransition(s) \/ (CommitWebhook(s) /\ WebhookConfirmsOrder(s))
  BY DEF Next, vars, LoadForTransition, LoadForHandoff, LoadForWebhook, CommitWebhook,
         WebhookKeepsOrder, LoadForInitialization, CommitInitialization, Rollback,
         CheckoutWindowElapses
<1>2. session[s].kind \in {"status", "webhook"}
  BY <1>1 DEF CommitTransition, CommitWebhook
<1>3. session'[s] \in {Idle, HandoffOwed}
  BY <1>1 DEF CommitTransition, WebhookConfirmsOrder, Becomes, SessionInv, SessionTypeOK
<1>4. session'[s] # session[s]
  BY <1>2, <1>3 DEF Idle, HandoffOwed
<1>5. QED
  BY <1>1, <1>4 DEF WritesFreshRow

LEMMA FreshInvStep ==
  ASSUME SessionInv, FreshInv, [Next /\ WritesFreshRow /\ RecordsHandoff]_<<vars, handed>>
  PROVE  FreshInv'
<1>1. handed' \in BOOLEAN
  BY DEF FreshInv, RecordsHandoff
<1>2. CASE row' = row
  BY <1>1, <1>2 DEF FreshInv
<1>3. CASE row' # row
  <2>1. PICK s \in Sessions :
          /\ session[s].loaded = row
          /\ CommitTransition(s) \/ (CommitWebhook(s) /\ WebhookConfirmsOrder(s))
    BY <1>3, WhoWritesTheOrder DEF vars
  <2>2. CASE CommitTransition(s)
    <3>1. row.status # "draft"
      BY <2>1, <2>2, FreshTransition, RequestTransitions DEF CancellationRequestableStatuses
    <3>2. QED
      BY <1>1, <2>1, <2>2, <3>1, FreshTransition DEF FreshInv
  <2>3. CASE CommitWebhook(s) /\ WebhookConfirmsOrder(s)
    BY <1>1, <2>1, <2>3, FreshConfirmation DEF FreshInv
  <2>4. QED
    BY <2>1, <2>2, <2>3
<1>4. QED
  BY <1>2, <1>3

(* Every write of the order is one step of the contract.                   *)
LEMMA FreshWriteIsContractStep ==
  ASSUME SessionInv, FreshInv, [Next]_vars, row' # row, WritesFreshRow, RecordsHandoff
  PROVE  Contract!ContractNext
<1> DEFINE
  stageOf == IF row.status = "cancellation_requested"
             THEN row.cancellation_requested_from ELSE row.status
  stageBar == [o \in {Order} |-> stageOf]
  heldBar == {o \in {Order} : row.status = "cancellation_requested"}
  paidBar == {o \in {Order} : row.payment_provider_reference # None}
  atProviderBar == {o \in {Order} : handed}
<1>1. /\ DOMAIN Contract!Successor \ {"draft", "confirmed"}
           = {"absent", "sent_to_provider", "accepted", "in_production",
              "ready_for_pickup", "shipped"}
      /\ Contract!Successor["sent_to_provider"] = "accepted"
      /\ Contract!Successor["accepted"] = "in_production"
      /\ Contract!Successor["in_production"] = "ready_for_pickup"
      /\ Contract!Successor["ready_for_pickup"] = "shipped"
      /\ Contract!Successor["shipped"] = "delivered"
  BY DEF Contract!Successor
<1>2. /\ stageBar[Order] = stageOf
      /\ stageBar' = [stageBar EXCEPT ![Order] = stageOf']
  OBVIOUS
<1>3. PICK s \in Sessions :
        /\ session[s].loaded = row
        /\ CommitTransition(s) \/ (CommitWebhook(s) /\ WebhookConfirmsOrder(s))
  BY WhoWritesTheOrder
<1>4. CASE CommitWebhook(s) /\ WebhookConfirmsOrder(s)
  <2>1. /\ row.status = "draft" /\ row'.status = "confirmed"
        /\ row'.payment_provider_reference # None
    BY <1>3, <1>4, FreshConfirmation
  <2>2. handed' = handed
    BY <2>1 DEF RecordsHandoff, FreshInv
  <2>3. /\ stageBar[Order] = "draft"
        /\ stageBar' = [stageBar EXCEPT ![Order] = "confirmed"]
        /\ paidBar' = paidBar \cup {Order}
        /\ heldBar' = heldBar /\ atProviderBar' = atProviderBar
    BY <1>2, <2>1, <2>2
  <2>4. Contract!Pay(Order)
    BY <2>3 DEF Contract!Pay, Contract!MoveTo
  <2>5. QED
    BY <2>4 DEF Contract!ContractNext
<1>5. CASE CommitTransition(s)
  <2> DEFINE trigger == session[s].trigger
  <2>1. /\ row'.payment_provider_reference = row.payment_provider_reference
        /\ row'.cancellation_requested_from =
             IF trigger = "customer_cancellation_requested" THEN row.status ELSE None
        /\ trigger \in RequestTriggers \cup {"provider_handoff_sent"}
        /\ CanTransitionOrder(row.status, row'.status, trigger,
                              row.cancellation_requested_from)
    BY <1>3, <1>5, FreshTransition
  <2>2. paidBar' = paidBar
    BY <2>1
  <2> HIDE DEF trigger
  <2>3. CASE <<row.status, row'.status>> \in
               {<<"sent_to_provider", "accepted">>,
                <<"accepted", "in_production">>, <<"in_production", "ready_for_pickup">>,
                <<"ready_for_pickup", "shipped">>, <<"shipped", "delivered">>}
    <3>1. handed' = handed
      BY <2>3 DEF RecordsHandoff, FreshInv
    <3>2. /\ stageOf \in DOMAIN Contract!Successor \ {"draft", "confirmed"}
          /\ stageOf' = Contract!Successor[stageOf]
      BY <1>1, <2>3
    <3>3. heldBar = {} /\ heldBar' = {} /\ atProviderBar' = atProviderBar
      BY <2>3, <3>1
    <3>4. Contract!Advance(Order)
      BY <1>2, <2>2, <3>2, <3>3 DEF Contract!Advance, Contract!MoveTo
    <3>5. QED
      BY <3>4 DEF Contract!ContractNext
  <2>4. CASE row.status = "confirmed" /\ row'.status = "sent_to_provider"
    <3>1. handed' = TRUE /\ row.payment_provider_reference # None
      BY <2>4 DEF RecordsHandoff, FreshInv
    <3>2. /\ stageBar[Order] = "confirmed"
          /\ stageBar' = [stageBar EXCEPT ![Order] = "sent_to_provider"]
          /\ heldBar = {} /\ heldBar' = {} /\ Order \in paidBar
          /\ atProviderBar' = atProviderBar \cup {Order}
      BY <1>2, <2>4, <3>1
    <3>3. Contract!SendToProvider(Order)
      BY <2>2, <3>2 DEF Contract!SendToProvider, Contract!MoveTo
    <3>4. QED
      BY <3>3 DEF Contract!ContractNext
  <2>5. CASE row.status = "sent_to_provider" /\ row'.status = "cancelled"
    <3>1. handed' = handed
      BY <2>5 DEF RecordsHandoff, FreshInv
    <3>2. /\ stageBar[Order] = "sent_to_provider"
          /\ stageBar' = [stageBar EXCEPT ![Order] = "cancelled"]
          /\ heldBar' = heldBar /\ atProviderBar' = atProviderBar
      BY <1>2, <2>5, <3>1
    <3>3. Contract!Decline(Order)
      BY <2>2, <3>2 DEF Contract!Decline, Contract!MoveTo
    <3>4. QED
      BY <3>3 DEF Contract!ContractNext
  <2>6. CASE /\ trigger = "customer_cancellation_requested"
             /\ row.status \in CancellationRequestableStatuses
             /\ row'.status = "cancellation_requested"
    <3>1. handed' = handed
      BY <2>6 DEF RecordsHandoff, FreshInv
    <3>2. stageOf' = stageOf /\ stageOf \in Contract!Holdable
      BY <2>1, <2>6 DEF CancellationRequestableStatuses, Contract!Holdable
    <3>3. /\ stageBar' = stageBar /\ stageBar[Order] \in Contract!Holdable
          /\ heldBar = {} /\ heldBar' = heldBar \cup {Order}
          /\ atProviderBar' = atProviderBar
      BY <2>6, <3>1, <3>2 DEF CancellationRequestableStatuses
    <3>4. Contract!Hold(Order)
      BY <2>2, <3>3 DEF Contract!Hold
    <3>5. QED
      BY <3>4 DEF Contract!ContractNext
  <2>7. CASE row.status = "cancellation_requested" /\ row'.status = "cancelled"
    <3>1. handed' = handed
      BY <2>7 DEF RecordsHandoff, FreshInv
    <3>2. /\ stageBar' = [stageBar EXCEPT ![Order] = "cancelled"]
          /\ Order \in heldBar /\ heldBar' = heldBar \ {Order}
          /\ atProviderBar' = atProviderBar
      BY <1>2, <2>7, <3>1
    <3>3. Contract!Cancel(Order)
      BY <2>2, <3>2 DEF Contract!Cancel, Contract!MoveTo
    <3>4. QED
      BY <3>3 DEF Contract!ContractNext
  <2>8. CASE /\ row.status = "cancellation_requested"
             /\ row'.status = row.cancellation_requested_from
             /\ row'.status \in CancellationRequestableStatuses
    <3>1. handed' = handed
      BY <2>8 DEF RecordsHandoff, FreshInv
    <3>2. stageOf' = stageOf
      BY <2>8 DEF CancellationRequestableStatuses
    <3>3. /\ stageBar' = stageBar
          /\ Order \in heldBar /\ heldBar' = heldBar \ {Order}
          /\ atProviderBar' = atProviderBar
      BY <2>8, <3>1, <3>2 DEF CancellationRequestableStatuses
    <3>4. Contract!Resume(Order)
      BY <2>2, <3>3 DEF Contract!Resume
    <3>5. QED
      BY <3>4 DEF Contract!ContractNext
  <2>9. \/ <<row.status, row'.status>> \in
              {<<"sent_to_provider", "accepted">>,
               <<"accepted", "in_production">>, <<"in_production", "ready_for_pickup">>,
               <<"ready_for_pickup", "shipped">>, <<"shipped", "delivered">>,
               <<"confirmed", "sent_to_provider">>, <<"sent_to_provider", "cancelled">>}
        \/ /\ trigger = "customer_cancellation_requested"
           /\ row.status \in CancellationRequestableStatuses
           /\ row'.status = "cancellation_requested"
        \/ row.status = "cancellation_requested" /\ row'.status = "cancelled"
        \/ /\ row.status = "cancellation_requested"
           /\ row'.status = row.cancellation_requested_from
           /\ row'.status \in CancellationRequestableStatuses
    <3> DEFINE from == row.status
               to == row'.status
               requestedFrom == row.cancellation_requested_from
    <3>1. CanTransitionOrder(from, to, trigger, requestedFrom)
      BY <2>1
    <3> HIDE DEF from, to, requestedFrom
    <3>2. \/ <<from, to>> \in
                {<<"sent_to_provider", "accepted">>,
                 <<"accepted", "in_production">>, <<"in_production", "ready_for_pickup">>,
                 <<"ready_for_pickup", "shipped">>, <<"shipped", "delivered">>,
                 <<"confirmed", "sent_to_provider">>, <<"sent_to_provider", "cancelled">>}
          \/ /\ trigger = "customer_cancellation_requested"
             /\ from \in CancellationRequestableStatuses /\ to = "cancellation_requested"
          \/ from = "cancellation_requested" /\ to = "cancelled"
          \/ /\ from = "cancellation_requested" /\ to = requestedFrom
             /\ to \in CancellationRequestableStatuses
      BY <2>1, <3>1, RequestTransitions
    <3>3. QED
      BY <3>2 DEF from, to, requestedFrom
  <2>10. QED
    BY <2>3, <2>4, <2>5, <2>6, <2>7, <2>8, <2>9
<1>6. QED
  BY <1>3, <1>4, <1>5

(***************************************************************************)
(* However many sessions overlap, as long as each writes the order over    *)
(* the row it loaded the customer's promises hold: from the draft on,      *)
(* every committed change is one step of OrderContract.  What overlapping  *)
(* sessions break of it they break through stale rows alone.               *)
(***************************************************************************)
THEOREM FreshWritesKeepContract == FreshSpec => ContinuesContract
<1>1. FreshSpec => Spec
  <2>1. [Next /\ WritesFreshRow /\ RecordsHandoff]_<<vars, handed>> => [Next]_vars
    BY DEF vars
  <2>2. QED
    BY <2>1, PTL DEF FreshSpec, Spec
<1>2. Init /\ handed = FALSE => FreshInv /\ DraftIsCreated
  <2> SUFFICES ASSUME Init, handed = FALSE
               PROVE  FreshInv /\ DraftIsCreated
    OBVIOUS
  <2>1. row.status = "draft" /\ row.payment_provider_reference = None
    BY DEF Init, DraftRow
  <2>2. handed \in BOOLEAN /\ ~handed
    BY Zenon
  <2>3. QED
    BY <2>1, <2>2, Zenon DEF FreshInv, DraftIsCreated
<1>3. SessionInv /\ FreshInv /\ [Next /\ WritesFreshRow /\ RecordsHandoff]_<<vars, handed>>
        => FreshInv'
  BY FreshInvStep
<1>4. SessionInv /\ FreshInv /\ [Next /\ WritesFreshRow /\ RecordsHandoff]_<<vars, handed>>
        => [Contract!ContractNext]_(Contract!contractVars)
  <2> SUFFICES ASSUME SessionInv, FreshInv,
                      [Next /\ WritesFreshRow /\ RecordsHandoff]_<<vars, handed>>
               PROVE  [Contract!ContractNext]_(Contract!contractVars)
    OBVIOUS
  <2>1. CASE row' = row
    <3>1. handed' = handed
      BY <2>1 DEF RecordsHandoff, FreshInv
    <3>2. QED
      BY <2>1, <3>1 DEF Contract!contractVars
  <2>2. CASE row' # row
    <3>1. [Next]_vars /\ WritesFreshRow /\ RecordsHandoff
      BY <2>2 DEF vars
    <3>2. QED
      BY <2>2, <3>1, FreshWriteIsContractStep
  <2>3. QED
    BY <2>1, <2>2
<1>5. QED
  BY <1>1, <1>2, <1>3, <1>4, SessionInvCorrect, PTL DEF FreshSpec, ContinuesContract
===============================================================================
