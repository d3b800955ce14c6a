-------------------------- MODULE PathAOrders_proofs --------------------------
(***************************************************************************)
(* Theorems about PathAOrders, for any sets of orders, customers,          *)
(* payments, events and references: type correctness, the payments, the    *)
(* order row and the audit log, the transition table, and the refinement   *)
(* of OrderContract.                                                       *)
(***************************************************************************)
EXTENDS PathAOrders, TLAPS

-------------------------------------------------------------------------------
(* Type correctness                                                        *)

LEMMA CreateDraftOrderType ==
  ASSUME TypeOK, NEW o \in Orders, CreateDraftOrder(o)
  PROVE  TypeOK'
BY DEF TypeOK, CreateDraftOrder, OrderRow, OrderStatus

LEMMA WriteStatusType ==
  ASSUME TypeOK, NEW o \in Orders, NEW s \in OrderStatus, WriteStatus(o, s)
  PROVE  orders' \in [Orders -> OrderRow]
BY DEF TypeOK, WriteStatus, OrderRow

LEMMA WritePaymentConfirmedType ==
  ASSUME TypeOK, NEW o \in Orders, NEW r \in References, WritePaymentConfirmed(o, r)
  PROVE  orders' \in [Orders -> OrderRow]
BY DEF TypeOK, WritePaymentConfirmed, OrderRow, OrderStatus

LEMMA OpenCheckoutType ==
  ASSUME TypeOK, NEW o \in Orders, NEW id \in PaymentIds, OpenCheckout(o, id)
  PROVE  TypeOK'
BY StoreAssumption DEF TypeOK, OpenCheckout, WompiCheckout, PaymentRow, ProviderCodes,
   PaymentStatus, providerVars

LEMMA ReplaceCheckoutType ==
  ASSUME TypeOK, NEW o \in Orders, NEW id \in PaymentIds, NEW p \in PaymentsOf(o),
         ReplaceCheckout(o, p, id)
  PROVE  TypeOK'
BY StoreAssumption DEF TypeOK, ReplaceCheckout, WompiCheckout, PaymentRow, ProviderCodes,
   PaymentStatus, providerVars, PaymentsOf

LEMMA CheckoutWindowElapsesType ==
  ASSUME TypeOK, NEW p \in payments, CheckoutWindowElapses(p)
  PROVE  TypeOK'
BY DEF TypeOK, CheckoutWindowElapses, PaymentRow, providerVars

LEMMA ClaimWebhookEventType ==
  ASSUME TypeOK, NEW ev \in WebhookEvent, NEW id \in PaymentIds, ClaimWebhookEvent(ev, id)
  PROVE  webhookEvents' \subseteq WebhookEventRow
BY DEF TypeOK, ClaimWebhookEvent, WebhookEvent, WebhookEventRow

LEMMA PersistPaymentEventType ==
  ASSUME TypeOK, NEW ev \in WebhookEvent, NEW id \in PaymentIds, NEW b \in BOOLEAN,
         PersistPaymentEvent(ev, b, id)
  PROVE  payments' \subseteq PaymentRow
<1>1. CASE CreatePayment(ev, id)
  BY <1>1 DEF TypeOK, CreatePayment, LegacyPayment, WebhookEvent, PaymentRow, ProviderCodes
<1>2. ASSUME NEW p \in payments, UpdatePayment(ev, p)
      PROVE  payments' \subseteq PaymentRow
  BY <1>2 DEF TypeOK, UpdatePayment, WebhookEvent, PaymentRow
<1>3. ASSUME NEW p \in payments, KeepVerifiedPayment(ev, p)
      PROVE  payments' \subseteq PaymentRow
  BY <1>3 DEF TypeOK, KeepVerifiedPayment
<1>4. QED
  BY <1>1, <1>2, <1>3 DEF PersistPaymentEvent, PaymentForEvent, PaymentsForReference

LEMMA ProcessWebhookType ==
  ASSUME TypeOK, NEW ev \in WebhookEvent, ProcessWebhook(ev)
  PROVE  TypeOK'
<1> USE DEF paymentVars, providerVars
<1>1. PICK id \in PaymentIds : \/ WebhookRepeatsConfirmation(ev, id)
                               \/ WebhookRecordsStatus(ev, id)
                               \/ WebhookConfirmsOrder(ev, id)
  BY DEF ProcessWebhook
<1>2. webhookEvents' \subseteq WebhookEventRow
  BY <1>1, ClaimWebhookEventType
     DEF WebhookRepeatsConfirmation, WebhookRecordsStatus, WebhookConfirmsOrder
<1>3. payments' \subseteq PaymentRow
  BY <1>1, PersistPaymentEventType
     DEF WebhookRepeatsConfirmation, WebhookRecordsStatus, WebhookConfirmsOrder
<1>4. CASE WebhookRepeatsConfirmation(ev, id)
  BY <1>2, <1>3, <1>4 DEF TypeOK, WebhookRepeatsConfirmation
<1>5. CASE WebhookRecordsStatus(ev, id)
  BY <1>2, <1>3, <1>5 DEF TypeOK, WebhookRecordsStatus
<1>6. CASE WebhookConfirmsOrder(ev, id)
  <2>1. ev.order \in Orders /\ ev.reference \in References
    BY DEF WebhookEvent
  <2>2. orders' \in [Orders -> OrderRow]
    BY <1>6, <2>1, WritePaymentConfirmedType DEF WebhookConfirmsOrder
  <2>3. handoffPending' \subseteq Orders
    BY <1>6, <2>1 DEF WebhookConfirmsOrder, TypeOK
  <2>4. UNCHANGED <<auditLogs, providerOrders, providerDecisions>>
    BY <1>6 DEF WebhookConfirmsOrder
  <2>5. QED
    BY <1>2, <1>3, <2>2, <2>3, <2>4 DEF TypeOK
<1>7. QED
  BY <1>1, <1>4, <1>5, <1>6

LEMMA HandoffType ==
  ASSUME TypeOK, NEW o \in Orders,
         HandoffSent(o) \/ HandoffLostAfterTransmission(o) \/ HandoffNotSent(o)
  PROVE  TypeOK'
<1> USE DEF paymentVars, providerVars, EndHandoff
<1>1. CASE HandoffSent(o)
  <2>1. orders' \in [Orders -> OrderRow]
    BY <1>1 DEF HandoffSent, WriteHandoffSent, TypeOK, OrderRow, OrderStatus
  <2>2. QED
    BY <1>1, <2>1 DEF HandoffSent, TypeOK
<1>2. CASE HandoffLostAfterTransmission(o)
  BY <1>2 DEF HandoffLostAfterTransmission, TypeOK
<1>3. CASE HandoffNotSent(o)
  BY <1>3 DEF HandoffNotSent, TypeOK
<1>4. QED
  BY <1>1, <1>2, <1>3

LEMMA RecordAuditType ==
  ASSUME TypeOK, NEW o \in Orders, NEW action \in AuditActions,
         NEW event \in AcceptanceDecisions \cup FulfilmentEvents
                       \cup {"customer_cancellation_requested", "cancellation_approved",
                             "cancellation_rejected"},
         NEW reference \in EventReferences \cup {None}, NEW idempotent \in BOOLEAN,
         RecordAudit(action, o, event, reference, idempotent)
  PROVE  auditLogs' \subseteq AuditRow
BY DEF TypeOK, RecordAudit, AuditRow

LEMMA ProviderDecisionType ==
  ASSUME TypeOK, NEW o \in Orders, NEW d \in AcceptanceDecisions,
         \/ ProviderDecides(o, d)
         \/ ProviderDecisionLost(o, d)
         \/ ProviderDecisionRepeated(o, d)
  PROVE  TypeOK'
<1> USE DEF paymentVars, providerVars
<1>1. "provider.acceptance_decision.record" \in AuditActions
  BY DEF AuditActions
<1>2. CASE ProviderDecides(o, d)
  <2>1. DecisionTarget(d) \in OrderStatus
    BY DEF DecisionTarget, OrderStatus
  <2>2. orders' \in [Orders -> OrderRow]
    BY <1>2, <2>1, WriteStatusType DEF ProviderDecides
  <2>3. auditLogs' \subseteq AuditRow
    BY <1>1, <1>2, RecordAuditType DEF ProviderDecides
  <2>4. QED
    BY <1>2, <2>2, <2>3 DEF ProviderDecides, TellProvider, TypeOK, ProviderDecision
<1>3. CASE ProviderDecisionLost(o, d)
  BY <1>3 DEF ProviderDecisionLost, TellProvider, TypeOK, ProviderDecision
<1>4. CASE ProviderDecisionRepeated(o, d)
  <2>1. auditLogs' \subseteq AuditRow
    BY <1>1, <1>4, RecordAuditType DEF ProviderDecisionRepeated
  <2>2. QED
    BY <1>4, <2>1 DEF ProviderDecisionRepeated, TypeOK
<1>5. QED
  BY <1>2, <1>3, <1>4

LEMMA FulfilmentEventType ==
  ASSUME TypeOK, NEW o \in Orders, NEW e \in FulfilmentEvents,
         NEW r \in EventReferences \cup {None}, IngestEvent(o, e, r)
  PROVE  TypeOK'
<1> USE DEF paymentVars, providerVars
<1>1. Action(e) \in AuditActions
  BY DEF Action, AuditActions, FulfilmentEvents
<1>2. TargetStatus(e) \in OrderStatus
  BY DEF TargetStatus, OrderStatus, FulfilmentEvents, ProductionEvents
<1>3. auditLogs' \subseteq AuditRow
  BY <1>1, RecordAuditType DEF IngestEvent, FulfilmentProceeds, FulfilmentRepeated
<1>4. CASE FulfilmentProceeds(o, e, r)
  <2>1. orders' \in [Orders -> OrderRow]
    BY <1>2, <1>4, WriteStatusType DEF FulfilmentProceeds
  <2>2. QED
    BY <1>3, <1>4, <2>1 DEF FulfilmentProceeds, TypeOK
<1>5. CASE FulfilmentRepeated(o, e, r)
  BY <1>3, <1>5 DEF FulfilmentRepeated, TypeOK
<1>6. QED
  BY <1>4, <1>5 DEF IngestEvent

LEMMA CancellationType ==
  ASSUME TypeOK, NEW o \in Orders, NEW c \in Customers,
         RequestCancellation(o, c) \/ ApproveCancellation(o) \/ RejectCancellation(o)
  PROVE  TypeOK'
<1> USE DEF paymentVars, providerVars
<1>1. {"order.cancellation.request", "order.cancellation.approve",
       "order.cancellation.reject"} \subseteq AuditActions
  BY DEF AuditActions
<1>2. auditLogs' \subseteq AuditRow
  BY <1>1, RecordAuditType DEF RequestCancellation, ApproveCancellation, RejectCancellation
<1>3. CASE RequestCancellation(o, c)
  <2>1. orders[o].status \in CancellationRequestableStatuses
    BY <1>3 DEF RequestCancellation, CanTransitionOrder, OrderTriggers,
                CancellationRequestableStatuses
  <2>2. orders' \in [Orders -> OrderRow]
    BY <1>3, <2>1 DEF RequestCancellation, WriteCancellationRequest, TypeOK, OrderRow,
                      OrderStatus
  <2>3. QED
    BY <1>2, <1>3, <2>2 DEF RequestCancellation, TypeOK
<1>4. CASE ApproveCancellation(o)
  <2>1. orders' \in [Orders -> OrderRow]
    BY <1>4, WriteStatusType DEF ApproveCancellation, OrderStatus
  <2>2. QED
    BY <1>2, <1>4, <2>1 DEF ApproveCancellation, TypeOK
<1>5. CASE RejectCancellation(o)
  <2>1. orders[o].cancellation_requested_from \in CancellationRequestableStatuses
    BY <1>5 DEF RejectCancellation, CanTransitionOrder, OrderTriggers, ReturnsToRequestedFrom,
                CancellationRequestableStatuses
  <2>2. orders' \in [Orders -> OrderRow]
    BY <1>5, <2>1, WriteStatusType
       DEF RejectCancellation, OrderStatus, CancellationRequestableStatuses
  <2>3. QED
    BY <1>2, <1>5, <2>2 DEF RejectCancellation, TypeOK
<1>6. QED
  BY <1>3, <1>4, <1>5

(***************************************************************************)
(* Every value a committed transaction leaves in the tables is one the     *)
(* schema and the enums admit.                                             *)
(***************************************************************************)
THEOREM TypeCorrect == Spec => []TypeOK
<1>1. Init => TypeOK
  BY StoreAssumption DEF Init, TypeOK, NoOrder, OrderRow
<1>2. TypeOK /\ [Next]_vars => TypeOK'
  <2> SUFFICES ASSUME TypeOK, [Next]_vars
               PROVE  TypeOK'
    OBVIOUS
  <2>1. CASE UNCHANGED vars
    BY <2>1 DEF vars, TypeOK
  <2>2. ASSUME NEW o \in Orders, CreateDraftOrder(o)
        PROVE  TypeOK'
    BY <2>2, CreateDraftOrderType
  <2>3. ASSUME NEW o \in Orders, InitializePayment(o)
        PROVE  TypeOK'
    BY <2>3, OpenCheckoutType, ReplaceCheckoutType DEF InitializePayment
  <2>4. ASSUME NEW o \in Orders,
               HandoffSent(o) \/ HandoffLostAfterTransmission(o) \/ HandoffNotSent(o)
        PROVE  TypeOK'
    BY <2>4, HandoffType
  <2>5. ASSUME NEW o \in Orders, NEW d \in AcceptanceDecisions,
               \/ ProviderDecides(o, d)
               \/ ProviderDecisionLost(o, d)
               \/ ProviderDecisionRepeated(o, d)
        PROVE  TypeOK'
    BY <2>5, ProviderDecisionType
  <2>6. ASSUME NEW o \in Orders, NEW e \in FulfilmentEvents,
               NEW r \in EventReferences \cup {None}, IngestEvent(o, e, r)
        PROVE  TypeOK'
    BY <2>6, FulfilmentEventType
  <2>7. ASSUME NEW o \in Orders, NEW c \in Customers, RequestCancellation(o, c)
        PROVE  TypeOK'
    BY <2>7, CancellationType
  <2>8. ASSUME NEW o \in Orders, ApproveCancellation(o) \/ RejectCancellation(o)
        PROVE  TypeOK'
    BY <2>8, CancellationType, StoreAssumption
  <2>9. ASSUME NEW p \in payments, CheckoutWindowElapses(p)
        PROVE  TypeOK'
    BY <2>9, CheckoutWindowElapsesType
  <2>10. ASSUME NEW ev \in WebhookEvent, ProcessWebhook(ev)
         PROVE  TypeOK'
    BY <2>10, ProcessWebhookType
  <2>11. QED
    BY <2>1, <2>2, <2>3, <2>4, <2>5, <2>6, <2>7, <2>8, <2>9, <2>10
       DEF Next, RecordProductionProgress, RecordShipment, RecordDelivery
<1>3. QED
  BY <1>1, <1>2, PTL DEF Spec

-------------------------------------------------------------------------------
(***************************************************************************)
(* The inductive invariant of the payments.                                *)
(*                                                                         *)
(* None of the invariants is inductive alone: a repeated confirmation      *)
(* could settle a second row if the order's reference named two rows, a    *)
(* first confirmation if a draft order already carried a reference, and a  *)
(* webhook could reopen a checkout if checkouts had references.            *)
(* PaymentInv is their inductive conjunction.                              *)
(***************************************************************************)

UnpaidUntilConfirmed ==
  \A o \in Orders :
    orders[o].status \in {"absent", "draft"}
      => orders[o].payment_provider_reference = None

CheckoutsCarryNoReference ==
  \A p \in payments :
    p.provider_code = "wompi" \/ p.window # "none"
      => p.payment_provider_reference = None

PaymentInv ==
  /\ TypeOK
  /\ UnpaidUntilConfirmed
  /\ CheckoutsCarryNoReference
  /\ ReferenceNamesOnePayment
  /\ OneActiveCheckout
  /\ OrderPaidByOneVerifiedPayment

-------------------------------------------------------------------------------
(* The steps that write payment rows, and the one that pays an order       *)

SomeConfirmation == \E ev \in WebhookEvent, id \in PaymentIds : WebhookConfirmsOrder(ev, id)

CheckoutStep ==
  \/ \E o \in Orders, id \in PaymentIds :
       \/ OpenCheckout(o, id)
       \/ \E p \in PaymentsOf(o) : ReplaceCheckout(o, p, id)
  \/ \E p \in payments : CheckoutWindowElapses(p)

WebhookStep ==
  \E ev \in WebhookEvent, id \in PaymentIds :
    \/ WebhookRepeatsConfirmation(ev, id)
    \/ WebhookRecordsStatus(ev, id)
    \/ WebhookConfirmsOrder(ev, id)

(* Only checkouts and webhooks write payment rows.                         *)
LEMMA PaymentSteps ==
  ASSUME [Next]_vars
  PROVE  UNCHANGED payments \/ CheckoutStep \/ WebhookStep
<1> USE DEF paymentVars, providerVars
<1>1. CASE UNCHANGED vars
  BY <1>1 DEF vars
<1>2. ASSUME NEW o \in Orders, InitializePayment(o)
      PROVE  CheckoutStep
  BY <1>2 DEF InitializePayment, CheckoutStep
<1>3. ASSUME NEW p \in payments, CheckoutWindowElapses(p)
      PROVE  CheckoutStep
  BY <1>3 DEF CheckoutStep
<1>4. ASSUME NEW ev \in WebhookEvent, ProcessWebhook(ev)
      PROVE  WebhookStep
  BY <1>4 DEF ProcessWebhook, WebhookStep
<1>5. ASSUME NEW o \in Orders,
             \/ CreateDraftOrder(o)
             \/ HandoffSent(o)
             \/ HandoffLostAfterTransmission(o)
             \/ HandoffNotSent(o)
             \/ ApproveCancellation(o)
             \/ RejectCancellation(o)
      PROVE  UNCHANGED payments
  BY <1>5 DEF CreateDraftOrder, HandoffSent, HandoffLostAfterTransmission, HandoffNotSent,
              ApproveCancellation, RejectCancellation
<1>6. ASSUME NEW o \in Orders, NEW d \in AcceptanceDecisions,
             \/ ProviderDecides(o, d)
             \/ ProviderDecisionLost(o, d)
             \/ ProviderDecisionRepeated(o, d)
      PROVE  UNCHANGED payments
  BY <1>6 DEF ProviderDecides, ProviderDecisionLost, ProviderDecisionRepeated
<1>7. ASSUME NEW o \in Orders, NEW e \in FulfilmentEvents,
             NEW r \in EventReferences \cup {None}, IngestEvent(o, e, r)
      PROVE  UNCHANGED payments
  BY <1>7 DEF IngestEvent, FulfilmentProceeds, FulfilmentRepeated
<1>8. ASSUME NEW o \in Orders, NEW c \in Customers, RequestCancellation(o, c)
      PROVE  UNCHANGED payments
  BY <1>8 DEF RequestCancellation
<1>9. QED
  BY <1>1, <1>2, <1>3, <1>4, <1>5, <1>6, <1>7, <1>8
     DEF Next, RecordProductionProgress, RecordShipment, RecordDelivery

(* No other step writes payment_provider_reference, or returns an order to *)
(* a status in which it is unpaid.                                         *)
LEMMA OnlyConfirmationPays ==
  ASSUME TypeOK, [Next]_vars, ~SomeConfirmation, NEW o \in Orders
  PROVE  /\ orders'[o].payment_provider_reference = orders[o].payment_provider_reference
         /\ orders'[o].status \in {"absent", "draft"}
              => orders[o].status \in {"absent", "draft"}
<1> DEFINE Kept ==
      /\ orders'[o].payment_provider_reference = orders[o].payment_provider_reference
      /\ orders'[o].status \in {"absent", "draft"}
           => orders[o].status \in {"absent", "draft"}
<1> USE DEF TypeOK, paymentVars, providerVars
<1>1. ASSUME UNCHANGED orders
      PROVE  Kept
  BY <1>1
<1>2. ASSUME NEW q \in Orders, NEW s \in OrderStatus \ {"draft"}, WriteStatus(q, s)
      PROVE  Kept
  BY <1>2 DEF WriteStatus, OrderRow, OrderStatus
<1>3. ASSUME NEW q \in Orders, CreateDraftOrder(q)
      PROVE  Kept
  BY <1>3 DEF CreateDraftOrder, Exists, OrderRow
<1>4. ASSUME NEW q \in Orders,
             HandoffSent(q) \/ HandoffLostAfterTransmission(q) \/ HandoffNotSent(q)
      PROVE  Kept
  BY <1>4 DEF HandoffSent, HandoffLostAfterTransmission, HandoffNotSent, WriteHandoffSent,
              OrderRow
<1>5. ASSUME NEW q \in Orders, NEW d \in AcceptanceDecisions,
             \/ ProviderDecides(q, d)
             \/ ProviderDecisionLost(q, d)
             \/ ProviderDecisionRepeated(q, d)
      PROVE  Kept
  <2>1. DecisionTarget(d) \in OrderStatus \ {"draft"}
    BY DEF DecisionTarget, OrderStatus
  <2>2. QED
    BY <1>1, <1>2, <1>5, <2>1
       DEF ProviderDecides, ProviderDecisionLost, ProviderDecisionRepeated
<1>6. ASSUME NEW q \in Orders, NEW e \in FulfilmentEvents,
             NEW r \in EventReferences \cup {None}, IngestEvent(q, e, r)
      PROVE  Kept
  <2>1. TargetStatus(e) \in OrderStatus \ {"draft"}
    BY DEF TargetStatus, OrderStatus, FulfilmentEvents, ProductionEvents
  <2>2. QED
    BY <1>1, <1>2, <1>6, <2>1 DEF IngestEvent, FulfilmentProceeds, FulfilmentRepeated
<1>7. ASSUME NEW q \in Orders, NEW c \in Customers, RequestCancellation(q, c)
      PROVE  Kept
  BY <1>7 DEF RequestCancellation, WriteCancellationRequest, OrderRow
<1>8. ASSUME NEW q \in Orders, ApproveCancellation(q)
      PROVE  Kept
  BY <1>2, <1>8 DEF ApproveCancellation, OrderStatus
<1>9. ASSUME NEW q \in Orders, RejectCancellation(q)
      PROVE  Kept
  <2>1. orders[q].cancellation_requested_from \in OrderStatus \ {"draft"}
    BY <1>9 DEF RejectCancellation, CanTransitionOrder, OrderTriggers, ReturnsToRequestedFrom,
                CancellationRequestableStatuses, OrderStatus
  <2>2. QED
    BY <1>2, <1>9, <2>1 DEF RejectCancellation
<1>10. ASSUME NEW q \in Orders, InitializePayment(q)
       PROVE  Kept
  BY <1>1, <1>10 DEF InitializePayment, OpenCheckout, ReplaceCheckout
<1>11. ASSUME NEW p \in payments, CheckoutWindowElapses(p)
       PROVE  Kept
  BY <1>1, <1>11 DEF CheckoutWindowElapses
<1>12. ASSUME NEW ev \in WebhookEvent, ProcessWebhook(ev)
       PROVE  Kept
  BY <1>1, <1>12
     DEF ProcessWebhook, SomeConfirmation, WebhookRepeatsConfirmation, WebhookRecordsStatus
<1>13. ASSUME UNCHANGED vars
       PROVE  Kept
  BY <1>1, <1>13 DEF vars
<1>14. QED
  BY <1>3, <1>4, <1>5, <1>6, <1>7, <1>8, <1>9, <1>10, <1>11, <1>12, <1>13
     DEF Next, RecordProductionProgress, RecordShipment, RecordDelivery

-------------------------------------------------------------------------------
(* What one write to the payments table can do                             *)

(* A row that is settled stays, whoever writes.                            *)
LEMMA SettledRowStays ==
  ASSUME [Next]_vars, NEW p \in payments, p.status \in TerminalPaymentStatuses
  PROVE  p \in payments'
<1>1. CASE UNCHANGED payments
  BY <1>1
<1>2. CASE CheckoutStep
  BY <1>2 DEF CheckoutStep, OpenCheckout, ReplaceCheckout, CheckoutWindowElapses, Restartable,
              CanTransitionPayment, NonTerminalPaymentStatuses
<1>3. CASE WebhookStep
  <2>1. PICK ev \in WebhookEvent, id \in PaymentIds :
          \E replay \in BOOLEAN : PersistPaymentEvent(ev, replay, id)
    BY <1>3 DEF WebhookStep, WebhookRepeatsConfirmation, WebhookRecordsStatus,
                WebhookConfirmsOrder
  <2>2. CASE CreatePayment(ev, id)
    BY <2>2 DEF CreatePayment
  <2>3. CASE \E q \in PaymentForEvent(ev) : UpdatePayment(ev, q)
    BY <2>3 DEF UpdatePayment, WebhookMayMove, CanTransitionPayment
  <2>4. CASE UNCHANGED payments
    BY <2>4
  <2>. QED  BY <2>1, <2>2, <2>3, <2>4 DEF PersistPaymentEvent, KeepVerifiedPayment
<1>4. QED
  BY <1>1, <1>2, <1>3, PaymentSteps

(* A checkout step writes rows without a provider reference.               *)
LEMMA CheckoutRows ==
  ASSUME TypeOK, CheckoutsCarryNoReference, CheckoutStep, NEW p \in payments' \ payments
  PROVE  /\ p.payment_provider_reference = None
         /\ p.status # "verified"
<1>1. ASSUME NEW o \in Orders, NEW id \in PaymentIds, OpenCheckout(o, id)
      PROVE  p = WompiCheckout(o, id)
  BY <1>1 DEF OpenCheckout
<1>2. ASSUME NEW o \in Orders, NEW id \in PaymentIds, NEW q \in PaymentsOf(o),
             ReplaceCheckout(o, q, id)
      PROVE  \/ p = WompiCheckout(o, id)
             \/ /\ p = [q EXCEPT !.status = "expired"]
                /\ q \in payments
                /\ q.provider_code = "wompi"
  BY <1>2 DEF ReplaceCheckout, PaymentsOf, Restartable
<1>3. ASSUME NEW q \in payments, CheckoutWindowElapses(q)
      PROVE  /\ p = [q EXCEPT !.window = "elapsed"]
             /\ q.window = "open"
             /\ q.status \in NonTerminalPaymentStatuses
  BY <1>3 DEF CheckoutWindowElapses
<1>4. QED
  BY <1>1, <1>2, <1>3
     DEF CheckoutStep, WompiCheckout, CheckoutsCarryNoReference, TypeOK, PaymentRow,
         NonTerminalPaymentStatuses, TerminalPaymentStatuses

(* What a webhook did to the payments table.                               *)
LEMMA WebhookPersists ==
  ASSUME WebhookStep
  PROVE  \E ev \in WebhookEvent, id \in PaymentIds :
           /\ ValidEvent(ev)
           /\ ClaimWebhookEvent(ev, id)
           /\ \/ CreatePayment(ev, id)
              \/ \E q \in PaymentForEvent(ev) :
                   q.id = id /\ (UpdatePayment(ev, q) \/ KeepVerifiedPayment(ev, q))
BY DEF WebhookStep, WebhookRepeatsConfirmation, WebhookRecordsStatus, WebhookConfirmsOrder,
       PersistPaymentEvent

(* An update rewrites a row that was not settled, status and amount only.  *)
LEMMA UpdatedRow ==
  ASSUME TypeOK, NEW ev \in WebhookEvent, NEW q \in PaymentForEvent(ev),
         UpdatePayment(ev, q)
  PROVE  /\ q \in payments
         /\ q.payment_provider_reference = ev.reference
         /\ q.status \notin TerminalPaymentStatuses
         /\ \E new \in PaymentRow :
              /\ payments' = (payments \ {q}) \cup {new}
              /\ new.order = q.order
              /\ new.provider_code = q.provider_code
              /\ new.window = q.window
              /\ new.payment_provider_reference = ev.reference
              /\ new.status = ev.status
              /\ new.amount = ev.amount
<1> DEFINE new == [q EXCEPT !.status = ev.status, !.amount = ev.amount]
<1>1. q \in PaymentRow
  BY DEF PaymentForEvent, PaymentsForReference, TypeOK
<1>2. /\ q \in payments
      /\ q.payment_provider_reference = ev.reference
      /\ q.status \notin TerminalPaymentStatuses
      /\ payments' = (payments \ {q}) \cup {new}
  BY DEF PaymentForEvent, PaymentsForReference, UpdatePayment, WebhookMayMove, CanTransitionPayment
<1>3. /\ new \in PaymentRow
      /\ new.order = q.order
      /\ new.provider_code = q.provider_code
      /\ new.window = q.window
      /\ new.payment_provider_reference = q.payment_provider_reference
      /\ new.status = ev.status
      /\ new.amount = ev.amount
  BY <1>1 DEF PaymentRow, WebhookEvent
<1> HIDE DEF new
<1>4. QED
  BY <1>2, <1>3

-------------------------------------------------------------------------------
(* PaymentInv is inductive                                                 *)

LEMMA CheckoutsCarryNoReferenceStep ==
  ASSUME TypeOK, CheckoutsCarryNoReference, [Next]_vars
  PROVE  CheckoutsCarryNoReference'
<1>1. CASE UNCHANGED payments
  BY <1>1 DEF CheckoutsCarryNoReference
<1>2. CASE CheckoutStep
  BY <1>2, CheckoutRows DEF CheckoutsCarryNoReference
<1>3. CASE WebhookStep
  <2>1. PICK ev \in WebhookEvent, id \in PaymentIds :
          \/ CreatePayment(ev, id)
          \/ \E q \in PaymentForEvent(ev) :
               UpdatePayment(ev, q) \/ KeepVerifiedPayment(ev, q)
    BY <1>3, WebhookPersists
  <2>2. ev.reference \in References /\ ev.reference # None
    BY StoreAssumption DEF WebhookEvent
  <2>3. CASE CreatePayment(ev, id)
    BY <2>3 DEF CreatePayment, LegacyPayment, CheckoutsCarryNoReference
  <2>4. ASSUME NEW q \in PaymentForEvent(ev), UpdatePayment(ev, q)
        PROVE  CheckoutsCarryNoReference'
    BY <2>2, <2>4, UpdatedRow DEF CheckoutsCarryNoReference
  <2>5. QED
    BY <1>1, <2>1, <2>3, <2>4 DEF KeepVerifiedPayment
<1>4. QED
  BY <1>1, <1>2, <1>3, PaymentSteps

LEMMA ReferenceNamesOnePaymentStep ==
  ASSUME TypeOK, CheckoutsCarryNoReference, ReferenceNamesOnePayment, [Next]_vars
  PROVE  ReferenceNamesOnePayment'
<1>1. CASE UNCHANGED payments
  BY <1>1 DEF ReferenceNamesOnePayment
<1>2. CASE CheckoutStep
  BY <1>2, CheckoutRows DEF ReferenceNamesOnePayment
<1>3. CASE WebhookStep
  <2>1. PICK ev \in WebhookEvent, id \in PaymentIds :
          /\ ValidEvent(ev)
          /\ \/ CreatePayment(ev, id)
             \/ \E q \in PaymentForEvent(ev) :
                  UpdatePayment(ev, q) \/ KeepVerifiedPayment(ev, q)
    BY <1>3, WebhookPersists
  <2>2. CASE CreatePayment(ev, id)
    BY <2>1, <2>2 DEF ValidEvent, CreatePayment, LegacyPayment, PaymentForEvent,
                      PaymentsForReference, ReferenceNamesOnePayment
  <2>3. ASSUME NEW q \in PaymentForEvent(ev), UpdatePayment(ev, q)
        PROVE  ReferenceNamesOnePayment'
    BY <2>3, UpdatedRow DEF ReferenceNamesOnePayment
  <2>4. QED
    BY <1>1, <2>1, <2>2, <2>3 DEF KeepVerifiedPayment
<1>4. QED
  BY <1>1, <1>2, <1>3, PaymentSteps

LEMMA OneActiveCheckoutStep ==
  ASSUME TypeOK, CheckoutsCarryNoReference, OneActiveCheckout, [Next]_vars
  PROVE  OneActiveCheckout'
<1> USE DEF OneActiveCheckout, LiveCheckouts, ActivePayments, PaymentsOf
<1>1. CASE UNCHANGED payments
  BY <1>1
<1>2. ASSUME NEW o \in Orders, NEW id \in PaymentIds, OpenCheckout(o, id)
      PROVE  OneActiveCheckout'
  BY <1>2 DEF OpenCheckout, WompiCheckout
<1>3. ASSUME NEW o \in Orders, NEW id \in PaymentIds, NEW q \in PaymentsOf(o),
             ReplaceCheckout(o, q, id)
      PROVE  OneActiveCheckout'
  BY <1>3 DEF ReplaceCheckout, WompiCheckout, TypeOK, PaymentRow,
              NonTerminalPaymentStatuses, TerminalPaymentStatuses
<1>4. ASSUME NEW q \in payments, CheckoutWindowElapses(q)
      PROVE  OneActiveCheckout'
  BY <1>4 DEF CheckoutWindowElapses, TypeOK, PaymentRow
<1>5. CASE WebhookStep
  <2>1. PICK ev \in WebhookEvent, id \in PaymentIds :
          \/ CreatePayment(ev, id)
          \/ \E q \in PaymentForEvent(ev) :
               UpdatePayment(ev, q) \/ KeepVerifiedPayment(ev, q)
    BY <1>5, WebhookPersists
  <2>2. CASE CreatePayment(ev, id)
    BY <2>2 DEF CreatePayment, LegacyPayment
  <2>3. ASSUME NEW q \in PaymentForEvent(ev), UpdatePayment(ev, q)
        PROVE  OneActiveCheckout'
    <3>1. q \in PaymentRow /\ q.provider_code # "wompi"
      BY <2>3, UpdatedRow, StoreAssumption
         DEF CheckoutsCarryNoReference, TypeOK, WebhookEvent
    <3>2. QED
      BY <2>3, <3>1, UpdatedRow
  <2>4. QED
    BY <1>1, <2>1, <2>2, <2>3 DEF KeepVerifiedPayment
<1>6. QED
  BY <1>1, <1>2, <1>3, <1>4, <1>5, PaymentSteps DEF CheckoutStep

LEMMA UnpaidUntilConfirmedStep ==
  ASSUME TypeOK, UnpaidUntilConfirmed, [Next]_vars
  PROVE  UnpaidUntilConfirmed'
<1>1. CASE SomeConfirmation
  BY <1>1 DEF SomeConfirmation, WebhookConfirmsOrder, WritePaymentConfirmed, TypeOK, OrderRow,
              UnpaidUntilConfirmed
<1>2. CASE ~SomeConfirmation
  BY <1>2, OnlyConfirmationPays DEF UnpaidUntilConfirmed
<1>3. QED
  BY <1>1, <1>2

-------------------------------------------------------------------------------
(* Verified payments                                                       *)

(* Without a first confirmation no row becomes verified: a repeated one    *)
(* finds the order's own verified row under its reference.                 *)
LEMMA NothingNewlyVerified ==
  ASSUME PaymentInv, [Next]_vars, ~SomeConfirmation,
         NEW p \in payments', p.status = "verified"
  PROVE  p \in payments
<1> SUFFICES ASSUME p \notin payments
             PROVE  FALSE
  OBVIOUS
<1> USE DEF PaymentInv
<1>1. CASE CheckoutStep
  BY <1>1, CheckoutRows
<1>2. ASSUME NEW ev \in WebhookEvent, NEW id \in PaymentIds, WebhookRecordsStatus(ev, id)
      PROVE  FALSE
  BY <1>2, UpdatedRow
     DEF WebhookRecordsStatus, PersistPaymentEvent, CreatePayment, LegacyPayment,
         KeepVerifiedPayment
<1>3. ASSUME NEW ev \in WebhookEvent, NEW id \in PaymentIds, WebhookRepeatsConfirmation(ev, id)
      PROVE  FALSE
  <2>1. /\ ev.order \in Orders
        /\ ev.reference # None
        /\ ev.reference = orders[ev.order].payment_provider_reference
    BY <1>3, StoreAssumption DEF WebhookRepeatsConfirmation, RepeatsConfirmation, WebhookEvent
  <2>2. PICK q \in payments : /\ q.status = "verified"
                              /\ q.order = ev.order
                              /\ q.payment_provider_reference = ev.reference
    BY <2>1 DEF OrderPaidByOneVerifiedPayment, Verified, PaymentsOf
  <2>3. PaymentForEvent(ev) = {q}
    BY <2>1, <2>2 DEF PaymentForEvent, PaymentsForReference, ReferenceNamesOnePayment
  <2>4. QED
    BY <1>3, <2>2, <2>3
       DEF WebhookRepeatsConfirmation, PersistPaymentEvent, CreatePayment, UpdatePayment,
           KeepVerifiedPayment, WebhookMayMove, CanTransitionPayment, TerminalPaymentStatuses
<1>4. QED
  BY <1>1, <1>2, <1>3, PaymentSteps DEF WebhookStep, SomeConfirmation

LEMMA OrderPaidByOneVerifiedPaymentStep ==
  ASSUME PaymentInv, TypeOK', [Next]_vars
  PROVE  OrderPaidByOneVerifiedPayment'
<1> USE DEF PaymentInv
<1>1. CASE ~SomeConfirmation
  <2>1. \A o \in Orders : Verified(o)' = Verified(o)
    BY <1>1, NothingNewlyVerified, SettledRowStays
       DEF Verified, PaymentsOf, TerminalPaymentStatuses
  <2>2. QED
    BY <1>1, <2>1, OnlyConfirmationPays DEF OrderPaidByOneVerifiedPayment
<1>2. ASSUME NEW ev \in WebhookEvent, NEW id \in PaymentIds, WebhookConfirmsOrder(ev, id)
      PROVE  OrderPaidByOneVerifiedPayment'
  <2> DEFINE o == ev.order
  <2>1. /\ o \in Orders
        /\ ev.reference # None
        /\ ev.status = "verified"
        /\ ev.amount = Total[o]
        /\ orders[o].payment_provider_reference = None
    BY <1>2, StoreAssumption
       DEF WebhookConfirmsOrder, ValidEvent, CanConfirmOrder, UnpaidUntilConfirmed, WebhookEvent
  <2>2. PICK new \in PaymentRow, old \in SUBSET payments :
          /\ payments' = (payments \ old) \cup {new}
          /\ \A q \in old : q.status # "verified"
          /\ new.order = o
          /\ new.status = "verified"
          /\ new.amount = Total[o]
          /\ new.payment_provider_reference = ev.reference
    <3>1. CASE CreatePayment(ev, id)
      <4>1. LegacyPayment(ev, id) \in PaymentRow
        BY DEF LegacyPayment, PaymentRow, WebhookEvent, ProviderCodes
      <4>2. payments' = (payments \ {}) \cup {LegacyPayment(ev, id)}
        BY <3>1 DEF CreatePayment
      <4>3. /\ LegacyPayment(ev, id).order = o
            /\ LegacyPayment(ev, id).status = "verified"
            /\ LegacyPayment(ev, id).amount = Total[o]
            /\ LegacyPayment(ev, id).payment_provider_reference = ev.reference
        BY <2>1 DEF LegacyPayment
      <4>4. {} \in SUBSET payments /\ \A q \in {} : q.status # "verified"
        OBVIOUS
      <4>5. QED
        BY <4>1, <4>2, <4>3, <4>4, Zenon
    <3>2. ASSUME NEW q \in PaymentForEvent(ev), UpdatePayment(ev, q)
          PROVE  \E new \in PaymentRow :
                   /\ payments' = (payments \ {q}) \cup {new}
                   /\ {q} \in SUBSET payments
                   /\ \A z \in {q} : z.status # "verified"
                   /\ new.order = o
                   /\ new.status = "verified"
                   /\ new.amount = Total[o]
                   /\ new.payment_provider_reference = ev.reference
      BY <2>1, <3>2, UpdatedRow DEF TerminalPaymentStatuses, PaymentForEvent
    <3>3. CreatePayment(ev, id) \/ \E q \in PaymentForEvent(ev) : UpdatePayment(ev, q)
      BY <1>2 DEF WebhookConfirmsOrder, PersistPaymentEvent
    <3>4. QED
      BY <3>1, <3>2, <3>3, Zenon
  <2>3. ASSUME NEW r \in Orders
        PROVE  Verified(r)' = IF r = o THEN Verified(r) \cup {new} ELSE Verified(r)
    BY <2>2 DEF Verified, PaymentsOf
  <2>4. Verified(o) = {}
    BY <2>1 DEF OrderPaidByOneVerifiedPayment
  <2>5. /\ orders'[o].payment_provider_reference = ev.reference
        /\ \A r \in Orders \ {o} : orders'[r] = orders[r]
    BY <1>2, <2>1 DEF WebhookConfirmsOrder, WritePaymentConfirmed, TypeOK, OrderRow
  <2>6. QED
    BY <2>1, <2>2, <2>3, <2>4, <2>5 DEF OrderPaidByOneVerifiedPayment
<1>3. QED
  BY <1>1, <1>2 DEF SomeConfirmation

-------------------------------------------------------------------------------
(* Theorems                                                                *)

(***************************************************************************)
(* PaymentInv holds in every reachable state.                              *)
(***************************************************************************)
THEOREM PaymentInvCorrect == Spec => []PaymentInv
<1>1. Init => PaymentInv
  <2> SUFFICES ASSUME Init
               PROVE  PaymentInv
    OBVIOUS
  <2>1. TypeOK
    BY StoreAssumption DEF Init, TypeOK, NoOrder, OrderRow
  <2>2. QED
    BY <2>1 DEF Init, PaymentInv, NoOrder, UnpaidUntilConfirmed, CheckoutsCarryNoReference,
                ReferenceNamesOnePayment, OneActiveCheckout, LiveCheckouts, ActivePayments,
                OrderPaidByOneVerifiedPayment, Verified, PaymentsOf
<1>2. PaymentInv /\ TypeOK' /\ [Next]_vars => PaymentInv'
  BY UnpaidUntilConfirmedStep, CheckoutsCarryNoReferenceStep, ReferenceNamesOnePaymentStep,
     OneActiveCheckoutStep, OrderPaidByOneVerifiedPaymentStep
     DEF PaymentInv
<1>3. QED
  BY <1>1, <1>2, TypeCorrect, PTL DEF Spec

(***************************************************************************)
(* The order row and the payment rows agree on what was paid, under which  *)
(* reference and for how much, and no second row is ever verified.         *)
(***************************************************************************)
THEOREM OrdersArePaidOnce == Spec => []OrderPaidByOneVerifiedPayment
<1>1. PaymentInv => OrderPaidByOneVerifiedPayment
  BY DEF PaymentInv
<1>2. QED
  BY <1>1, PaymentInvCorrect, PTL

(***************************************************************************)
(* _payment_for_event keeps provider references apart across orders.       *)
(***************************************************************************)
THEOREM ReferencesAreExclusive == Spec => []ReferenceNamesOnePayment
<1>1. PaymentInv => ReferenceNamesOnePayment
  BY DEF PaymentInv
<1>2. QED
  BY <1>1, PaymentInvCorrect, PTL

(***************************************************************************)
(* initialize_payment never leaves two live checkouts for an order.        *)
(***************************************************************************)
THEOREM CheckoutsAreExclusive == Spec => []OneActiveCheckout
<1>1. PaymentInv => OneActiveCheckout
  BY DEF PaymentInv
<1>2. QED
  BY <1>1, PaymentInvCorrect, PTL

(***************************************************************************)
(* transition_payment_status guards every write: settled rows are final.   *)
(***************************************************************************)
THEOREM SettledPaymentsAreFinal == Spec => SettledPaymentsStay
<1>1. [Next]_vars => [ \A p \in payments : p.status \in TerminalPaymentStatuses
                                             => p \in payments' ]_vars
  BY SettledRowStays
<1>2. QED
  BY <1>1, PTL DEF Spec, SettledPaymentsStay

(***************************************************************************)
(* The replay key and the payment it moves are written together.           *)
(***************************************************************************)
THEOREM PaymentsMoveOncePerEvent == Spec => PaymentMovesClaimAnEvent
<1> DEFINE Claimed ==
      \A p \in payments' \ payments :
        p.payment_provider_reference # None =>
          \E w \in webhookEvents' \ webhookEvents :
            /\ w.order = p.order
            /\ w.payment = p.id
            /\ \A v \in webhookEvents : v.event_id # w.event_id
<1>1. TypeOK /\ CheckoutsCarryNoReference /\ [Next]_vars => Claimed
  <2> SUFFICES ASSUME TypeOK, CheckoutsCarryNoReference, [Next]_vars,
                      NEW p \in payments' \ payments, p.payment_provider_reference # None
               PROVE  \E w \in webhookEvents' \ webhookEvents :
                        /\ w.order = p.order
                        /\ w.payment = p.id
                        /\ \A v \in webhookEvents : v.event_id # w.event_id
    OBVIOUS
  <2>1. WebhookStep
    BY PaymentSteps, CheckoutRows
  <2>2. PICK ev \in WebhookEvent, id \in PaymentIds :
          /\ ValidEvent(ev)
          /\ ClaimWebhookEvent(ev, id)
          /\ \/ CreatePayment(ev, id)
             \/ \E q \in PaymentForEvent(ev) :
                  q.id = id /\ (UpdatePayment(ev, q) \/ KeepVerifiedPayment(ev, q))
    BY <2>1, WebhookPersists
  <2>3. p.order = ev.order /\ p.id = id
    <3>1. CASE CreatePayment(ev, id)
      BY <3>1 DEF CreatePayment, LegacyPayment
    <3>2. ASSUME NEW q \in PaymentForEvent(ev), q.id = id, UpdatePayment(ev, q)
          PROVE  p.order = ev.order /\ p.id = id
      BY <2>2, <3>2
         DEF UpdatePayment, PaymentForEvent, PaymentsForReference, TypeOK, PaymentRow
    <3>3. QED
      BY <2>2, <3>1, <3>2 DEF KeepVerifiedPayment
  <2> DEFINE w == [event_id |-> ev.id, order |-> ev.order, payment |-> id]
  <2>4. \A v \in webhookEvents : v.event_id # w.event_id
    BY <2>2 DEF ClaimWebhookEvent
  <2>5. w \in webhookEvents' \ webhookEvents
    BY <2>2, <2>4 DEF ClaimWebhookEvent
  <2>6. w.order = p.order /\ w.payment = p.id
    BY <2>3
  <2>7. QED
    BY <2>4, <2>5, <2>6
<1>2. TypeOK /\ CheckoutsCarryNoReference /\ [Next]_vars => [Claimed]_vars
  BY <1>1
<1>3. PaymentInv => TypeOK /\ CheckoutsCarryNoReference
  BY DEF PaymentInv
<1>4. QED
  BY <1>2, <1>3, PaymentInvCorrect, PTL DEF Spec, PaymentMovesClaimAnEvent
-------------------------------------------------------------------------------
(***************************************************************************)
(* The inductive invariant of the order row.                               *)
(*                                                                         *)
(* Where a held order is, is read from its cancellation_requested_from, so *)
(* that a resumed order is as justified as it was needs                    *)
(* CancellationSourceMatchesStatus, and that a confirmation pays an unpaid *)
(* order needs UnpaidUntilConfirmed.                                       *)
(***************************************************************************)
OrderInv ==
  /\ TypeOK
  /\ UnpaidUntilConfirmed
  /\ CancellationSourceMatchesStatus
  /\ StageIsJustified

-------------------------------------------------------------------------------
(* The steps that write order rows                                         *)

OrderStep(o) ==
  \/ CreateDraftOrder(o)
  \/ \E ev \in WebhookEvent, id \in PaymentIds :
       ev.order = o /\ WebhookConfirmsOrder(ev, id)
  \/ HandoffSent(o)
  \/ \E d \in AcceptanceDecisions : ProviderDecides(o, d)
  \/ \E e \in FulfilmentEvents, r \in EventReferences \cup {None} :
       FulfilmentProceeds(o, e, r)
  \/ \E c \in Customers : RequestCancellation(o, c)
  \/ ApproveCancellation(o)
  \/ RejectCancellation(o)

LEMMA OrderSteps ==
  ASSUME [Next]_vars
  PROVE  UNCHANGED orders \/ \E o \in Orders : OrderStep(o)
<1>1. CASE UNCHANGED vars
  BY <1>1 DEF vars
<1>2. ASSUME NEW o \in Orders, InitializePayment(o)
      PROVE  UNCHANGED orders
  BY <1>2 DEF InitializePayment, OpenCheckout, ReplaceCheckout
<1>3. ASSUME NEW p \in payments, CheckoutWindowElapses(p)
      PROVE  UNCHANGED orders
  BY <1>3 DEF CheckoutWindowElapses
<1>4. ASSUME NEW ev \in WebhookEvent, ProcessWebhook(ev)
      PROVE  UNCHANGED orders \/ \E o \in Orders : OrderStep(o)
  BY <1>4 DEF ProcessWebhook, WebhookRepeatsConfirmation, WebhookRecordsStatus, OrderStep,
              WebhookEvent
<1>5. ASSUME NEW o \in Orders, HandoffLostAfterTransmission(o) \/ HandoffNotSent(o)
      PROVE  UNCHANGED orders
  BY <1>5 DEF HandoffLostAfterTransmission, HandoffNotSent
<1>6. ASSUME NEW o \in Orders, NEW d \in AcceptanceDecisions,
             ProviderDecisionLost(o, d) \/ ProviderDecisionRepeated(o, d)
      PROVE  UNCHANGED orders
  BY <1>6 DEF ProviderDecisionLost, ProviderDecisionRepeated
<1>7. ASSUME NEW o \in Orders, NEW e \in FulfilmentEvents,
             NEW r \in EventReferences \cup {None}, IngestEvent(o, e, r)
      PROVE  UNCHANGED orders \/ OrderStep(o)
  BY <1>7 DEF IngestEvent, FulfilmentRepeated, OrderStep
<1>8. QED
  BY <1>1, <1>2, <1>3, <1>4, <1>5, <1>6, <1>7
     DEF Next, OrderStep, RecordProductionProgress, RecordShipment, RecordDelivery

(***************************************************************************)
(* The row each of them leaves, as far as the properties see it.  Every    *)
(* step writes the row of its own order only.                              *)
(***************************************************************************)
Kept(o) ==
  /\ orders'[o].payment_provider_reference = orders[o].payment_provider_reference
  /\ orders'[o].provider_handoff_reference = orders[o].provider_handoff_reference

LEMMA OtherRows ==
  ASSUME TypeOK, NEW o \in Orders, OrderStep(o), NEW r \in Orders \ {o}
  PROVE  orders'[r] = orders[r]
BY DEF OrderStep, TypeOK, CreateDraftOrder, WebhookConfirmsOrder, WritePaymentConfirmed,
       HandoffSent, WriteHandoffSent, ProviderDecides, FulfilmentProceeds, WriteStatus,
       RequestCancellation, WriteCancellationRequest, ApproveCancellation, RejectCancellation

LEMMA CreateDraftOrderRow ==
  ASSUME TypeOK, NEW o \in Orders, CreateDraftOrder(o)
  PROVE  /\ orders[o].status = "absent"
         /\ orders'[o].status = "draft"
         /\ orders'[o].cancellation_requested_from = orders[o].cancellation_requested_from
         /\ Kept(o)
BY DEF TypeOK, OrderRow, CreateDraftOrder, Exists, Kept

LEMMA WebhookConfirmsOrderRow ==
  ASSUME TypeOK, NEW o \in Orders, NEW ev \in WebhookEvent, NEW id \in PaymentIds,
         ev.order = o, WebhookConfirmsOrder(ev, id)
  PROVE  /\ orders[o].status = "draft"
         /\ orders'[o].status = "confirmed"
         /\ orders'[o].cancellation_requested_from = orders[o].cancellation_requested_from
         /\ orders'[o].payment_provider_reference # None
         /\ orders'[o].provider_handoff_reference = orders[o].provider_handoff_reference
BY StoreAssumption
   DEF TypeOK, OrderRow, WebhookConfirmsOrder, CanConfirmOrder, WritePaymentConfirmed, WebhookEvent

LEMMA HandoffSentRow ==
  ASSUME TypeOK, NEW o \in Orders, HandoffSent(o)
  PROVE  /\ orders[o].status = "confirmed"
         /\ orders[o].payment_provider_reference # None
         /\ orders'[o].status = "sent_to_provider"
         /\ orders'[o].cancellation_requested_from = orders[o].cancellation_requested_from
         /\ orders'[o].payment_provider_reference = orders[o].payment_provider_reference
         /\ orders'[o].provider_handoff_reference # None
         /\ o \in providerOrders'
BY StoreAssumption
   DEF TypeOK, OrderRow, HandoffSent, EligibleForHandoff, CanHandOff, WriteHandoffSent

LEMMA WriteStatusRow ==
  ASSUME TypeOK, NEW o \in Orders, NEW s \in OrderStatus, WriteStatus(o, s)
  PROVE  /\ orders'[o].status = s
         /\ orders'[o].cancellation_requested_from = None
         /\ Kept(o)
BY DEF TypeOK, OrderRow, WriteStatus, Kept

LEMMA ProviderDecidesRow ==
  ASSUME TypeOK, NEW o \in Orders, NEW d \in AcceptanceDecisions, ProviderDecides(o, d)
  PROVE  /\ orders[o].status = "sent_to_provider"
         /\ orders'[o].status = DecisionTarget(d)
         /\ orders'[o].cancellation_requested_from = None
         /\ [order |-> o, decision |-> d] \in providerDecisions'
         /\ Kept(o)
<1>1. DecisionTarget(d) \in OrderStatus
  BY DEF DecisionTarget, OrderStatus
<1>2. QED
  BY <1>1, WriteStatusRow DEF ProviderDecides, MayDecide, TellProvider

(* A fulfilment event moves the order one stage and leaves its own trace.  *)
LEMMA FulfilmentProceedsRow ==
  ASSUME TypeOK, NEW o \in Orders, NEW e \in FulfilmentEvents,
         NEW r \in EventReferences \cup {None}, FulfilmentProceeds(o, e, r)
  PROVE  /\ \/ /\ e = "production_started"
               /\ orders[o].status = "accepted" /\ orders'[o].status = "in_production"
            \/ /\ e = "package_ready_for_pickup"
               /\ orders[o].status = "in_production" /\ orders'[o].status = "ready_for_pickup"
            \/ /\ e \in ShipmentEvents
               /\ orders[o].status = "ready_for_pickup" /\ orders'[o].status = "shipped"
            \/ /\ e \in DeliveryEvents
               /\ orders[o].status = "shipped" /\ orders'[o].status = "delivered"
         /\ orders'[o].cancellation_requested_from = None
         /\ Kept(o)
         /\ \A S : e \in S => Audited(o, S)'
<1>1. TargetStatus(e) \in OrderStatus
  BY DEF TargetStatus, OrderStatus, FulfilmentEvents, ProductionEvents
<1>2. /\ orders'[o].status = TargetStatus(e)
      /\ orders'[o].cancellation_requested_from = None
      /\ Kept(o)
  BY <1>1, WriteStatusRow DEF FulfilmentProceeds
<1>3. /\ e = "production_started" => orders[o].status = "accepted"
      /\ e = "package_ready_for_pickup" => orders[o].status = "in_production"
      /\ e \in ShipmentEvents => orders[o].status = "ready_for_pickup"
      /\ e \in DeliveryEvents => orders[o].status = "shipped"
  BY DEF FulfilmentProceeds, CanTransitionOrder, OrderTriggers, ShipmentEvents, DeliveryEvents,
         CancellationRequestableStatuses
<1>4. /\ e = "production_started" => TargetStatus(e) = "in_production"
      /\ e = "package_ready_for_pickup" => TargetStatus(e) = "ready_for_pickup"
      /\ e \in ShipmentEvents => TargetStatus(e) = "shipped"
      /\ e \in DeliveryEvents => TargetStatus(e) = "delivered"
  BY DEF TargetStatus, ShipmentEvents, DeliveryEvents
<1>5. e \in {"production_started", "package_ready_for_pickup"} \cup ShipmentEvents \cup DeliveryEvents
  BY DEF FulfilmentEvents, ProductionEvents
<1>6. ASSUME NEW S, e \in S
      PROVE  Audited(o, S)'
  <2> DEFINE a == [action |-> Action(e), order |-> o, event |-> e,
                   event_reference |-> r, idempotent |-> FALSE]
  <2>1. a \in auditLogs'
    BY DEF FulfilmentProceeds, RecordAudit
  <2>2. a.order = o /\ a.event \in S /\ a.idempotent = FALSE
    BY <1>6
  <2>3. QED
    BY <2>1, <2>2 DEF Audited
<1>7. QED
  BY <1>2, <1>3, <1>4, <1>5, <1>6

LEMMA RequestCancellationRow ==
  ASSUME TypeOK, NEW o \in Orders, NEW c \in Customers, RequestCancellation(o, c)
  PROVE  /\ orders[o].status \in CancellationRequestableStatuses
         /\ orders'[o].status = "cancellation_requested"
         /\ orders'[o].cancellation_requested_from = orders[o].status
         /\ Kept(o)
<1>1. orders[o].status \in CancellationRequestableStatuses
  BY DEF RequestCancellation, CanTransitionOrder, OrderTriggers, CancellationRequestableStatuses
<1>2. QED
  BY <1>1 DEF RequestCancellation, WriteCancellationRequest, TypeOK, OrderRow, Kept

LEMMA ApproveCancellationRow ==
  ASSUME TypeOK, NEW o \in Orders, ApproveCancellation(o)
  PROVE  /\ orders[o].status = "cancellation_requested"
         /\ orders'[o].status = "cancelled"
         /\ orders'[o].cancellation_requested_from = None
         /\ Kept(o)
BY WriteStatusRow DEF ApproveCancellation, PendingCancellation, OrderStatus

LEMMA RejectCancellationRow ==
  ASSUME TypeOK, NEW o \in Orders, RejectCancellation(o)
  PROVE  /\ orders[o].status = "cancellation_requested"
         /\ orders[o].cancellation_requested_from \in CancellationRequestableStatuses
         /\ orders'[o].status = orders[o].cancellation_requested_from
         /\ orders'[o].cancellation_requested_from = None
         /\ Kept(o)
<1>1. orders[o].cancellation_requested_from \in CancellationRequestableStatuses
  BY DEF RejectCancellation, CanTransitionOrder, OrderTriggers, ReturnsToRequestedFrom,
         CancellationRequestableStatuses
<1>2. CancellationRequestableStatuses \subseteq OrderStatus
  BY DEF CancellationRequestableStatuses, OrderStatus
<1>3. QED
  BY <1>1, <1>2, WriteStatusRow DEF RejectCancellation, PendingCancellation

-------------------------------------------------------------------------------
(* OrderInv is inductive                                                   *)

LEMMA CancellationSourceStep ==
  ASSUME TypeOK, CancellationSourceMatchesStatus, [Next]_vars
  PROVE  CancellationSourceMatchesStatus'
<1> USE DEF CancellationSourceMatchesStatus
<1>1. CASE UNCHANGED orders
  BY <1>1
<1>2. ASSUME NEW o \in Orders, OrderStep(o)
      PROVE  CancellationSourceMatchesStatus'
  <2> SUFFICES orders'[o].cancellation_requested_from # None
                 <=> orders'[o].status = "cancellation_requested"
    BY <1>2, OtherRows
  <2>1. CASE CreateDraftOrder(o)
    BY <2>1, CreateDraftOrderRow
  <2>2. ASSUME NEW ev \in WebhookEvent, NEW id \in PaymentIds, ev.order = o,
               WebhookConfirmsOrder(ev, id)
        PROVE  orders'[o].cancellation_requested_from # None
                 <=> orders'[o].status = "cancellation_requested"
    BY <2>2, WebhookConfirmsOrderRow
  <2>3. CASE HandoffSent(o)
    BY <2>3, HandoffSentRow
  <2>4. ASSUME NEW d \in AcceptanceDecisions, ProviderDecides(o, d)
        PROVE  orders'[o].cancellation_requested_from # None
                 <=> orders'[o].status = "cancellation_requested"
    BY <2>4, ProviderDecidesRow DEF DecisionTarget
  <2>5. ASSUME NEW e \in FulfilmentEvents, NEW r \in EventReferences \cup {None},
               FulfilmentProceeds(o, e, r)
        PROVE  orders'[o].cancellation_requested_from # None
                 <=> orders'[o].status = "cancellation_requested"
    BY <2>5, FulfilmentProceedsRow
  <2>6. ASSUME NEW c \in Customers, RequestCancellation(o, c)
        PROVE  orders'[o].cancellation_requested_from # None
                 <=> orders'[o].status = "cancellation_requested"
    BY <2>6, RequestCancellationRow, StoreAssumption DEF CancellationRequestableStatuses, OrderStatus
  <2>7. CASE ApproveCancellation(o)
    BY <2>7, ApproveCancellationRow
  <2>8. CASE RejectCancellation(o)
    BY <2>8, RejectCancellationRow DEF CancellationRequestableStatuses
  <2>9. QED
    BY <1>2, <2>1, <2>2, <2>3, <2>4, <2>5, <2>6, <2>7, <2>8 DEF OrderStep
<1>3. QED
  BY <1>1, <1>2, OrderSteps

(* The log, the provider's orders and its decisions only grow.             *)
LEMMA RecordsGrow ==
  ASSUME [Next]_vars
  PROVE  /\ auditLogs \subseteq auditLogs'
         /\ providerOrders \subseteq providerOrders'
         /\ providerDecisions \subseteq providerDecisions'
<1> USE DEF paymentVars, providerVars, RecordAudit, TellProvider
<1>1. CASE UNCHANGED vars
  BY <1>1 DEF vars
<1>2. ASSUME NEW o \in Orders,
             \/ CreateDraftOrder(o)
             \/ InitializePayment(o)
             \/ HandoffSent(o)
             \/ HandoffLostAfterTransmission(o)
             \/ HandoffNotSent(o)
             \/ ApproveCancellation(o)
             \/ RejectCancellation(o)
      PROVE  /\ auditLogs \subseteq auditLogs'
             /\ providerOrders \subseteq providerOrders'
             /\ providerDecisions \subseteq providerDecisions'
  BY <1>2 DEF CreateDraftOrder, InitializePayment, OpenCheckout, ReplaceCheckout, HandoffSent,
              HandoffLostAfterTransmission, HandoffNotSent, ApproveCancellation,
              RejectCancellation
<1>3. ASSUME NEW o \in Orders, NEW d \in AcceptanceDecisions,
             \/ ProviderDecides(o, d)
             \/ ProviderDecisionLost(o, d)
             \/ ProviderDecisionRepeated(o, d)
      PROVE  /\ auditLogs \subseteq auditLogs'
             /\ providerOrders \subseteq providerOrders'
             /\ providerDecisions \subseteq providerDecisions'
  BY <1>3 DEF ProviderDecides, ProviderDecisionLost, ProviderDecisionRepeated
<1>4. ASSUME NEW o \in Orders, NEW e \in FulfilmentEvents,
             NEW r \in EventReferences \cup {None}, IngestEvent(o, e, r)
      PROVE  /\ auditLogs \subseteq auditLogs'
             /\ providerOrders \subseteq providerOrders'
             /\ providerDecisions \subseteq providerDecisions'
  BY <1>4 DEF IngestEvent, FulfilmentProceeds, FulfilmentRepeated
<1>5. ASSUME NEW o \in Orders, NEW c \in Customers, RequestCancellation(o, c)
      PROVE  /\ auditLogs \subseteq auditLogs'
             /\ providerOrders \subseteq providerOrders'
             /\ providerDecisions \subseteq providerDecisions'
  BY <1>5 DEF RequestCancellation
<1>6. ASSUME NEW p \in payments, CheckoutWindowElapses(p)
      PROVE  /\ auditLogs \subseteq auditLogs'
             /\ providerOrders \subseteq providerOrders'
             /\ providerDecisions \subseteq providerDecisions'
  BY <1>6 DEF CheckoutWindowElapses
<1>7. ASSUME NEW ev \in WebhookEvent, ProcessWebhook(ev)
      PROVE  /\ auditLogs \subseteq auditLogs'
             /\ providerOrders \subseteq providerOrders'
             /\ providerDecisions \subseteq providerDecisions'
  BY <1>7 DEF ProcessWebhook, WebhookRepeatsConfirmation, WebhookRecordsStatus,
              WebhookConfirmsOrder
<1>8. QED
  BY <1>1, <1>2, <1>3, <1>4, <1>5, <1>6, <1>7
     DEF Next, RecordProductionProgress, RecordShipment, RecordDelivery

(* What is recorded stays recorded.                                        *)
LEMMA AuditedStays ==
  ASSUME [Next]_vars, NEW o \in Orders, NEW S, Audited(o, S)
  PROVE  Audited(o, S)'
BY RecordsGrow DEF Audited

(***************************************************************************)
(* An order that stays in its stage with its references stays justified.   *)
(***************************************************************************)
LEMMA JustificationStays ==
  ASSUME [Next]_vars, NEW o \in Orders, RowIsJustified(o), Stage(o)' = Stage(o), Kept(o)
  PROVE  RowIsJustified(o)'
BY RecordsGrow, AuditedStays DEF RowIsJustified, Kept


LEMMA StageIsJustifiedStep ==
  ASSUME OrderInv, [Next]_vars
  PROVE  StageIsJustified'
<1> USE DEF OrderInv
<1>1. CASE UNCHANGED orders
  BY <1>1, JustificationStays DEF StageIsJustified, Stage, Kept
<1>2. ASSUME NEW o \in Orders, OrderStep(o)
      PROVE  StageIsJustified'
  <2>1. \A r \in Orders \ {o} : RowIsJustified(r)'
    BY <1>2, OtherRows, JustificationStays DEF StageIsJustified, Stage, Kept
  <2> SUFFICES RowIsJustified(o)'
    BY <2>1 DEF StageIsJustified
  <2>2. RowIsJustified(o)
    BY DEF StageIsJustified
  <2>3. CASE CreateDraftOrder(o)
    BY <2>2, <2>3, CreateDraftOrderRow, RecordsGrow
       DEF RowIsJustified, Stage, Kept, ConfirmedOrLater, SentOrLater, AcceptedOrLater,
           InProductionOrLater, ReadyOrLater, ShippedOrLater
  <2>4. ASSUME NEW ev \in WebhookEvent, NEW id \in PaymentIds, ev.order = o,
               WebhookConfirmsOrder(ev, id)
        PROVE  RowIsJustified(o)'
    BY <2>2, <2>4, WebhookConfirmsOrderRow, RecordsGrow
       DEF RowIsJustified, Stage, Kept, ConfirmedOrLater, SentOrLater, AcceptedOrLater,
           InProductionOrLater, ReadyOrLater, ShippedOrLater
  <2>5. CASE HandoffSent(o)
    BY <2>2, <2>5, HandoffSentRow, RecordsGrow
       DEF RowIsJustified, Stage, SentOrLater, AcceptedOrLater, InProductionOrLater,
           ReadyOrLater, ShippedOrLater
  <2>6. ASSUME NEW d \in AcceptanceDecisions, ProviderDecides(o, d)
        PROVE  RowIsJustified(o)'
    BY <2>2, <2>6, ProviderDecidesRow, RecordsGrow
       DEF RowIsJustified, Stage, Kept, DecisionTarget, ConfirmedOrLater, SentOrLater,
           AcceptedOrLater, InProductionOrLater, ReadyOrLater, ShippedOrLater,
           AcceptanceDecisions
  <2>7. ASSUME NEW e \in FulfilmentEvents, NEW r \in EventReferences \cup {None},
               FulfilmentProceeds(o, e, r)
        PROVE  RowIsJustified(o)'
    <3>1. /\ Stage(o) \in AcceptedOrLater
          /\ Stage(o) \in SentOrLater /\ Stage(o) \in ConfirmedOrLater
          /\ Kept(o)
      BY <2>7, FulfilmentProceedsRow
         DEF Stage, Kept, ConfirmedOrLater, SentOrLater, AcceptedOrLater, InProductionOrLater
    <3>2. /\ orders'[o].payment_provider_reference # None
          /\ orders'[o].provider_handoff_reference # None
          /\ o \in providerOrders'
          /\ [order |-> o, decision |-> "accept"] \in providerDecisions'
      BY <2>2, <3>1, RecordsGrow DEF RowIsJustified, Kept, SentOrLater
    <3>3. /\ Stage(o)' \in InProductionOrLater => Audited(o, {"production_started"})'
          /\ Stage(o)' \in ReadyOrLater => Audited(o, {"package_ready_for_pickup"})'
          /\ Stage(o)' \in ShippedOrLater => Audited(o, ShipmentEvents)'
          /\ Stage(o)' = "delivered" => Audited(o, DeliveryEvents)'
      BY <2>2, <2>7, FulfilmentProceedsRow, AuditedStays
         DEF RowIsJustified, Stage, InProductionOrLater, ReadyOrLater, ShippedOrLater
    <3>4. QED
      BY <3>2, <3>3 DEF RowIsJustified
  <2>8. ASSUME NEW c \in Customers, RequestCancellation(o, c)
        PROVE  RowIsJustified(o)'
    BY <2>2, <2>8, RequestCancellationRow, JustificationStays
       DEF Stage, CancellationRequestableStatuses
  <2>9. CASE ApproveCancellation(o)
    <3>1. Stage(o) \in CancellationRequestableStatuses
      BY <2>9, ApproveCancellationRow DEF CancellationSourceMatchesStatus, Stage, TypeOK, OrderRow
    <3>2. QED
      BY <2>2, <2>9, <3>1, ApproveCancellationRow, RecordsGrow
         DEF RowIsJustified, Stage, Kept, CancellationRequestableStatuses, ConfirmedOrLater,
             SentOrLater, AcceptedOrLater, InProductionOrLater, ReadyOrLater, ShippedOrLater
  <2>10. CASE RejectCancellation(o)
    BY <2>2, <2>10, RejectCancellationRow, JustificationStays
       DEF Stage, CancellationRequestableStatuses
  <2>11. QED
    BY <1>2, <2>3, <2>4, <2>5, <2>6, <2>7, <2>8, <2>9, <2>10 DEF OrderStep
<1>3. QED
  BY <1>1, <1>2, OrderSteps

-------------------------------------------------------------------------------
(* Theorems about the order row                                            *)

(***************************************************************************)
(* OrderInv holds in every reachable state.                                *)
(***************************************************************************)
THEOREM OrderInvCorrect == Spec => []OrderInv
<1>1. Init => OrderInv
  <2> SUFFICES ASSUME Init
               PROVE  OrderInv
    OBVIOUS
  <2>1. TypeOK
    BY StoreAssumption DEF Init, TypeOK, NoOrder, OrderRow
  <2>2. QED
    BY <2>1 DEF Init, OrderInv, NoOrder, UnpaidUntilConfirmed, CancellationSourceMatchesStatus,
                StageIsJustified, RowIsJustified, Stage, ConfirmedOrLater, SentOrLater,
                AcceptedOrLater, InProductionOrLater, ReadyOrLater, ShippedOrLater
<1>2. OrderInv /\ TypeOK' /\ [Next]_vars => OrderInv'
  BY UnpaidUntilConfirmedStep, CancellationSourceStep, StageIsJustifiedStep DEF OrderInv
<1>3. QED
  BY <1>1, <1>2, TypeCorrect, PTL DEF Spec

(***************************************************************************)
(* The database's CHECK constraint on cancellation_requested_from never    *)
(* fails.                                                                  *)
(***************************************************************************)
THEOREM CheckConstraintHolds == Spec => []CancellationSourceMatchesStatus
<1>1. OrderInv => CancellationSourceMatchesStatus
  BY DEF OrderInv
<1>2. QED
  BY <1>1, OrderInvCorrect, PTL

(***************************************************************************)
(* Whatever stage an order is in, held or not, payment, transmission,      *)
(* decision and audited events justify it.                                 *)
(***************************************************************************)
THEOREM StagesAreJustified == Spec => []StageIsJustified
<1>1. OrderInv => StageIsJustified
  BY DEF OrderInv
<1>2. QED
  BY <1>1, OrderInvCorrect, PTL

-------------------------------------------------------------------------------
(* The audit log                                                           *)

(* The steps that add an audit row, and what they add.                     *)
LEMMA AuditSteps ==
  ASSUME [Next]_vars
  PROVE  \/ UNCHANGED auditLogs
         \/ \E action, o, event, idempotent : RecordAudit(action, o, event, None, idempotent)
         \/ \E o \in Orders, e \in FulfilmentEvents, r \in EventReferences \cup {None} :
              IngestEvent(o, e, r)
<1> DEFINE Goal ==
         \/ UNCHANGED auditLogs
         \/ \E action, o, event, idempotent : RecordAudit(action, o, event, None, idempotent)
         \/ \E o \in Orders, e \in FulfilmentEvents, r \in EventReferences \cup {None} :
              IngestEvent(o, e, r)
<1>1. CASE UNCHANGED vars
  BY <1>1 DEF vars
<1>2. ASSUME NEW o \in Orders,
             \/ CreateDraftOrder(o)
             \/ InitializePayment(o)
             \/ HandoffSent(o)
             \/ HandoffLostAfterTransmission(o)
             \/ HandoffNotSent(o)
      PROVE  UNCHANGED auditLogs
  BY <1>2 DEF CreateDraftOrder, InitializePayment, OpenCheckout, ReplaceCheckout, HandoffSent,
              HandoffLostAfterTransmission, HandoffNotSent
<1>3. ASSUME NEW o \in Orders, ApproveCancellation(o) \/ RejectCancellation(o)
      PROVE  Goal
  BY <1>3 DEF ApproveCancellation, RejectCancellation
<1>4. ASSUME NEW o \in Orders, NEW c \in Customers, RequestCancellation(o, c)
      PROVE  Goal
  BY <1>4 DEF RequestCancellation
<1>5. ASSUME NEW o \in Orders, NEW d \in AcceptanceDecisions,
             \/ ProviderDecides(o, d)
             \/ ProviderDecisionLost(o, d)
             \/ ProviderDecisionRepeated(o, d)
      PROVE  Goal
  BY <1>5 DEF ProviderDecides, ProviderDecisionLost, ProviderDecisionRepeated
<1>6. ASSUME NEW p \in payments, CheckoutWindowElapses(p)
      PROVE  UNCHANGED auditLogs
  BY <1>6 DEF CheckoutWindowElapses
<1>7. ASSUME NEW ev \in WebhookEvent, ProcessWebhook(ev)
      PROVE  UNCHANGED auditLogs
  BY <1>7 DEF ProcessWebhook, WebhookRepeatsConfirmation, WebhookRecordsStatus,
              WebhookConfirmsOrder
<1>8. QED
  BY <1>1, <1>2, <1>3, <1>4, <1>5, <1>6, <1>7
     DEF Next, RecordProductionProgress, RecordShipment, RecordDelivery

(***************************************************************************)
(* _duplicate_event_reference_result keeps a reference to one event.       *)
(***************************************************************************)
THEOREM ReferencesNameOneEvent == Spec => []ReferenceNamesOneEvent
<1>1. Init => ReferenceNamesOneEvent
  BY DEF Init, ReferenceNamesOneEvent
<1>2. ReferenceNamesOneEvent /\ [Next]_vars => ReferenceNamesOneEvent'
  <2> SUFFICES ASSUME ReferenceNamesOneEvent, [Next]_vars
               PROVE  ReferenceNamesOneEvent'
    OBVIOUS
  <2> USE DEF ReferenceNamesOneEvent
  <2>1. CASE UNCHANGED auditLogs
    BY <2>1
  <2>2. ASSUME NEW action, NEW o, NEW event, NEW idempotent,
               RecordAudit(action, o, event, None, idempotent)
        PROVE  ReferenceNamesOneEvent'
    BY <2>2 DEF RecordAudit
  <2>3. ASSUME NEW o \in Orders, NEW e \in FulfilmentEvents,
               NEW r \in EventReferences \cup {None}, IngestEvent(o, e, r)
        PROVE  ReferenceNamesOneEvent'
    <3>1. PICK idempotent : RecordAudit(Action(e), o, e, r, idempotent)
      BY <2>3 DEF IngestEvent, FulfilmentProceeds, FulfilmentRepeated
    <3>2. r # None => \A a \in MatchingLogs(o, e, r) : a.event = e
      BY <2>3 DEF IngestEvent, FulfilmentProceeds, FulfilmentRepeated, FreshReference,
                  RepeatedReference
    <3>3. QED
      BY <3>1, <3>2 DEF RecordAudit, MatchingLogs
  <2>4. QED
    BY <2>1, <2>2, <2>3, AuditSteps
<1>3. QED
  BY <1>1, <1>2, PTL DEF Spec

-------------------------------------------------------------------------------
(* The handoff                                                             *)

(* Only a first confirmation owes a handoff, and only a handoff pays it.   *)
LEMMA HandoffSteps ==
  ASSUME [Next]_vars, NEW o \in Orders, o \notin handoffPending
  PROVE  \/ /\ o \notin handoffPending'
            /\ o \in providerOrders' => o \in providerOrders
         \/ \E ev \in WebhookEvent, id \in PaymentIds :
              ev.order = o /\ WebhookConfirmsOrder(ev, id)
<1> USE DEF paymentVars, providerVars
<1> DEFINE Goal ==
         \/ /\ o \notin handoffPending'
            /\ o \in providerOrders' => o \in providerOrders
         \/ \E ev \in WebhookEvent, id \in PaymentIds :
              ev.order = o /\ WebhookConfirmsOrder(ev, id)
<1>1. CASE UNCHANGED vars
  BY <1>1 DEF vars
<1>2. ASSUME NEW q \in Orders,
             HandoffSent(q) \/ HandoffLostAfterTransmission(q) \/ HandoffNotSent(q)
      PROVE  Goal
  BY <1>2 DEF HandoffSent, HandoffLostAfterTransmission, HandoffNotSent, EndHandoff
<1>3. ASSUME NEW q \in Orders,
             \/ CreateDraftOrder(q)
             \/ InitializePayment(q)
             \/ ApproveCancellation(q)
             \/ RejectCancellation(q)
             \/ \E d \in AcceptanceDecisions :
                  \/ ProviderDecides(q, d)
                  \/ ProviderDecisionLost(q, d)
                  \/ ProviderDecisionRepeated(q, d)
             \/ \E e \in FulfilmentEvents, r \in EventReferences \cup {None} :
                  IngestEvent(q, e, r)
             \/ \E c \in Customers : RequestCancellation(q, c)
      PROVE  UNCHANGED <<handoffPending, providerOrders>>
  BY <1>3 DEF CreateDraftOrder, InitializePayment, OpenCheckout, ReplaceCheckout,
              ApproveCancellation, RejectCancellation, RequestCancellation, TellProvider,
              ProviderDecides, ProviderDecisionLost, ProviderDecisionRepeated,
              IngestEvent, FulfilmentProceeds, FulfilmentRepeated
<1>4. ASSUME NEW p \in payments, CheckoutWindowElapses(p)
      PROVE  UNCHANGED <<handoffPending, providerOrders>>
  BY <1>4 DEF CheckoutWindowElapses
<1>5. ASSUME NEW ev \in WebhookEvent, ProcessWebhook(ev)
      PROVE  Goal
  BY <1>5 DEF ProcessWebhook, WebhookRepeatsConfirmation, WebhookRecordsStatus,
              WebhookConfirmsOrder
<1>6. QED
  BY <1>1, <1>2, <1>3, <1>4, <1>5
     DEF Next, RecordProductionProgress, RecordShipment, RecordDelivery

(***************************************************************************)
(* orchestrate_paid_order_handoff runs once in the life of an order.       *)
(***************************************************************************)
THEOREM HandoffsAreOwedOnce == Spec => HandoffOwedOnce
<1> DEFINE Once ==
      \A o \in Orders :
        /\ orders[o].payment_provider_reference # None
        /\ o \notin handoffPending
        => o \notin handoffPending' /\ (o \in providerOrders' => o \in providerOrders)
<1>1. OrderInv /\ [Next]_vars => Once
  BY HandoffSteps, WebhookConfirmsOrderRow DEF OrderInv, UnpaidUntilConfirmed
<1>2. OrderInv /\ [Next]_vars => [Once]_vars
  BY <1>1
<1>3. QED
  BY <1>2, OrderInvCorrect, PTL DEF Spec, HandoffOwedOnce

-------------------------------------------------------------------------------
(* The transition table                                                    *)

TransitionTriggers == UNION {OrderTriggers(from, to) : from, to \in OrderStatus}

(***************************************************************************)
(* docs/planning/orders.md: "Invalid transitions must be rejected without  *)
(* mutating persisted order state."  Every committed change of a persisted *)
(* status is a transition of ORDER_STATUS_TRANSITIONS on the row as it is, *)
(* also where the handler asks other rules than the table (confirmation,   *)
(* handoff, resolved cancellations), so that delivered and cancelled       *)
(* orders stay as they are.                                                *)
(***************************************************************************)
StatusesFollowTable ==
  [][ \A o \in Orders :
        orders[o].status # "absent" /\ orders'[o].status # orders[o].status
        => \E t \in TransitionTriggers :
             CanTransitionOrder(orders[o].status, orders'[o].status, t,
                                orders[o].cancellation_requested_from)
    ]_vars

(* Entries of the table, one per action that writes a status.              *)
LEMMA TableEntries ==
  ASSUME NEW source
  PROVE  /\ CanTransitionOrder("draft", "confirmed", "verified_payment", source)
         /\ CanTransitionOrder("confirmed", "sent_to_provider", "provider_handoff_sent", source)
         /\ CanTransitionOrder("sent_to_provider", "accepted", "provider_accepted", source)
         /\ CanTransitionOrder("sent_to_provider", "cancelled", "provider_rejected", source)
         /\ CanTransitionOrder("accepted", "in_production", "production_started", source)
         /\ CanTransitionOrder("in_production", "ready_for_pickup",
                               "package_ready_for_pickup", source)
         /\ CanTransitionOrder("ready_for_pickup", "shipped", "carrier_qr_pickup_scan", source)
         /\ CanTransitionOrder("shipped", "delivered", "delivery_confirmed", source)
         /\ \A from \in CancellationRequestableStatuses :
              CanTransitionOrder(from, "cancellation_requested",
                                 "customer_cancellation_requested", source)
         /\ CanTransitionOrder("cancellation_requested", "cancelled",
                               "cancellation_approved", source)
         /\ source \in CancellationRequestableStatuses =>
              CanTransitionOrder("cancellation_requested", source,
                                 "cancellation_rejected", source)
BY DEF CanTransitionOrder, OrderTriggers, TerminalOrderStatuses,
       CancellationRequestableStatuses, ReturnsToRequestedFrom

LEMMA TriggersOfTransitions ==
  ASSUME NEW from \in OrderStatus, NEW to \in OrderStatus, NEW trigger, NEW source,
         CanTransitionOrder(from, to, trigger, source)
  PROVE  \E t \in TransitionTriggers : CanTransitionOrder(from, to, t, source)
<1>1. trigger \in OrderTriggers(from, to)
  BY DEF CanTransitionOrder
<1>2. OrderTriggers(from, to) \in {OrderTriggers(f, t) : f, t \in OrderStatus}
  OBVIOUS
<1>3. trigger \in TransitionTriggers
  BY <1>1, <1>2 DEF TransitionTriggers
<1>4. QED
  BY <1>3

(* Every order step moves its order along the table.                       *)
LEMMA OrderStepFollowsTable ==
  ASSUME TypeOK, NEW o \in Orders, OrderStep(o), orders[o].status # "absent"
  PROVE  \E t : CanTransitionOrder(orders[o].status, orders'[o].status, t,
                                   orders[o].cancellation_requested_from)
<1> DEFINE Moves ==
  \E t : CanTransitionOrder(orders[o].status, orders'[o].status, t,
                            orders[o].cancellation_requested_from)
<1>1. CASE CreateDraftOrder(o)
  BY <1>1, CreateDraftOrderRow
<1>2. ASSUME NEW ev \in WebhookEvent, NEW id \in PaymentIds, ev.order = o,
             WebhookConfirmsOrder(ev, id)
      PROVE  Moves
  BY <1>2, WebhookConfirmsOrderRow, TableEntries
<1>3. CASE HandoffSent(o)
  BY <1>3, HandoffSentRow, TableEntries
<1>4. ASSUME NEW d \in AcceptanceDecisions, ProviderDecides(o, d)
      PROVE  Moves
  BY <1>4, ProviderDecidesRow, TableEntries DEF DecisionTarget
<1>5. ASSUME NEW e \in FulfilmentEvents, NEW r \in EventReferences \cup {None},
             FulfilmentProceeds(o, e, r)
      PROVE  Moves
  BY <1>5, FulfilmentProceedsRow, TableEntries
<1>6. ASSUME NEW c \in Customers, RequestCancellation(o, c)
      PROVE  Moves
  BY <1>6, RequestCancellationRow, TableEntries
<1>7. CASE ApproveCancellation(o)
  BY <1>7, ApproveCancellationRow, TableEntries
<1>8. CASE RejectCancellation(o)
  BY <1>8, RejectCancellationRow, TableEntries
<1>9. QED
  BY <1>1, <1>2, <1>3, <1>4, <1>5, <1>6, <1>7, <1>8 DEF OrderStep

(***************************************************************************)
(* StatusesFollowTable: what lost_update shows of two workers does not     *)
(* happen to one, in any interleaving of its transactions.                 *)
(***************************************************************************)
THEOREM OneWorkerFollowsTable == Spec => StatusesFollowTable
<1> DEFINE Follows ==
  \A o \in Orders :
    orders[o].status # "absent" /\ orders'[o].status # orders[o].status
    => \E t \in TransitionTriggers :
         CanTransitionOrder(orders[o].status, orders'[o].status, t,
                            orders[o].cancellation_requested_from)
<1>1. TypeOK /\ TypeOK' /\ [Next]_vars => [Follows]_vars
  <2> SUFFICES ASSUME TypeOK, TypeOK', [Next]_vars, NEW o \in Orders,
                      orders[o].status # "absent", orders'[o].status # orders[o].status
               PROVE  \E t \in TransitionTriggers :
                        CanTransitionOrder(orders[o].status, orders'[o].status, t,
                                           orders[o].cancellation_requested_from)
    OBVIOUS
  <2>1. PICK u \in Orders : OrderStep(u)
    BY OrderSteps
  <2>2. u = o
    BY <2>1, OtherRows
  <2>3. PICK t : CanTransitionOrder(orders[o].status, orders'[o].status, t,
                                    orders[o].cancellation_requested_from)
    BY <2>1, <2>2, OrderStepFollowsTable
  <2>4. orders[o].status \in OrderStatus /\ orders'[o].status \in OrderStatus
    BY <2>3 DEF CanTransitionOrder, OrderTriggers, OrderStatus, CancellationRequestableStatuses
  <2>5. QED
    BY <2>3, <2>4, TriggersOfTransitions
<1>2. QED
  BY <1>1, TypeCorrect, PTL DEF Spec, StatusesFollowTable

-------------------------------------------------------------------------------
(* Refinement                                                              *)

(***************************************************************************)
(* Every committed transaction keeps OrderContract.                        *)
(***************************************************************************)
THEOREM ContractIsKept == Spec => KeepsContract
<1> DEFINE stageBar == [o \in Orders |-> Stage(o)]
           heldBar == {o \in Orders : orders[o].status = "cancellation_requested"}
           paidBar == {o \in Orders : orders[o].payment_provider_reference # None}
           atProviderBar == {o \in Orders : orders[o].provider_handoff_reference # None}
<1>1. Init => Contract!ContractInit
  BY DEF Init, Contract!ContractInit, Stage, NoOrder
<1>2. OrderInv /\ OrderInv' /\ [Next]_vars => [Contract!ContractNext]_Contract!contractVars
  <2> SUFFICES ASSUME OrderInv, OrderInv', [Next]_vars
               PROVE  [Contract!ContractNext]_Contract!contractVars
    OBVIOUS
  <2> USE DEF OrderInv
  <2>1. CASE UNCHANGED orders
    BY <2>1 DEF Contract!contractVars, Stage
  <2>2. /\ DOMAIN Contract!Successor \ {"draft", "confirmed"}
             = {"absent", "sent_to_provider", "accepted", "in_production",
                "ready_for_pickup", "shipped"}
        /\ Contract!Successor["absent"] = "draft"
        /\ Contract!Successor["sent_to_provider"] = "accepted"
        /\ Contract!Successor["accepted"] = "in_production"
        /\ Contract!Successor["in_production"] = "ready_for_pickup"
        /\ Contract!Successor["ready_for_pickup"] = "shipped"
        /\ Contract!Successor["shipped"] = "delivered"
    BY DEF Contract!Successor
  <2>3. ASSUME NEW o \in Orders, OrderStep(o)
        PROVE  Contract!ContractNext
    <3>1. \A r \in Orders \ {o} : orders'[r] = orders[r]
      BY <2>3, OtherRows
    <3>2. stageBar' = [stageBar EXCEPT ![o] = Stage(o)']
      BY <3>1 DEF Stage
    <3>3. stageBar[o] = Stage(o)
      OBVIOUS
    <3>4. Kept(o) => UNCHANGED <<paidBar, atProviderBar>>
      BY <3>1 DEF Kept
    <3>5. /\ orders[o].status \notin {"cancellation_requested"}
          /\ orders'[o].status \notin {"cancellation_requested"}
          => UNCHANGED heldBar
      BY <3>1
    <3>6. ASSUME Kept(o), orders[o].status # "cancellation_requested",
                 Stage(o) \in DOMAIN Contract!Successor \ {"draft", "confirmed"},
                 orders'[o].status = Contract!Successor[Stage(o)],
                 orders'[o].status # "cancellation_requested"
          PROVE  Contract!Advance(o)
      BY <3>2, <3>3, <3>4, <3>5, <3>6 DEF Contract!Advance, Contract!MoveTo, Stage
    <3>7. CASE CreateDraftOrder(o)
      <4>1. Contract!Advance(o)
        BY <3>6, <3>7, <2>2, CreateDraftOrderRow DEF Stage
      <4>2. QED
        BY <4>1 DEF Contract!ContractNext
    <3>8. ASSUME NEW ev \in WebhookEvent, NEW id \in PaymentIds, ev.order = o,
                 WebhookConfirmsOrder(ev, id)
          PROVE  Contract!ContractNext
      <4>1. /\ stageBar[o] = "draft"
            /\ stageBar' = [stageBar EXCEPT ![o] = "confirmed"]
        BY <3>2, <3>3, <3>8, WebhookConfirmsOrderRow DEF Stage
      <4>2. UNCHANGED <<heldBar, atProviderBar>>
        BY <3>1, <3>5, <3>8, WebhookConfirmsOrderRow
      <4>3. paidBar' = paidBar \cup {o}
        BY <3>1, <3>8, WebhookConfirmsOrderRow
      <4>4. Contract!Pay(o)
        BY <4>1, <4>2, <4>3 DEF Contract!Pay, Contract!MoveTo
      <4>5. QED
        BY <4>4 DEF Contract!ContractNext
    <3>9. CASE HandoffSent(o)
      <4>1. /\ stageBar[o] = "confirmed"
            /\ stageBar' = [stageBar EXCEPT ![o] = "sent_to_provider"]
        BY <3>2, <3>3, <3>9, HandoffSentRow DEF Stage
      <4>2. UNCHANGED <<heldBar, paidBar>>
        BY <3>1, <3>5, <3>9, HandoffSentRow
      <4>3. atProviderBar' = atProviderBar \cup {o}
        BY <3>1, <3>9, HandoffSentRow
      <4>4. o \notin heldBar /\ o \in paidBar
        BY <3>9, HandoffSentRow
      <4>5. Contract!SendToProvider(o)
        BY <4>1, <4>2, <4>3, <4>4 DEF Contract!SendToProvider, Contract!MoveTo
      <4>6. QED
        BY <4>5 DEF Contract!ContractNext
    <3>10. ASSUME NEW d \in AcceptanceDecisions, ProviderDecides(o, d)
           PROVE  Contract!ContractNext
      <4>1. CASE d = "accept"
        <5>1. Contract!Advance(o)
          BY <2>2, <3>6, <3>10, <4>1, ProviderDecidesRow DEF Stage, DecisionTarget
        <5>2. QED
          BY <5>1 DEF Contract!ContractNext
      <4>2. CASE d = "reject"
        <5>1. /\ stageBar[o] = "sent_to_provider"
              /\ stageBar' = [stageBar EXCEPT ![o] = "cancelled"]
              /\ UNCHANGED <<heldBar, paidBar, atProviderBar>>
          BY <3>2, <3>3, <3>4, <3>5, <3>10, <4>2, ProviderDecidesRow DEF Stage, DecisionTarget
        <5>2. Contract!Decline(o)
          BY <5>1 DEF Contract!Decline, Contract!MoveTo
        <5>3. QED
          BY <5>2 DEF Contract!ContractNext
      <4>3. QED
        BY <4>1, <4>2 DEF AcceptanceDecisions
    <3>11. ASSUME NEW e \in FulfilmentEvents, NEW r \in EventReferences \cup {None},
                  FulfilmentProceeds(o, e, r)
           PROVE  Contract!ContractNext
      <4>1. Contract!Advance(o)
        BY <2>2, <3>6, <3>11, FulfilmentProceedsRow DEF Stage
      <4>2. QED
        BY <4>1 DEF Contract!ContractNext
    <3>12. ASSUME NEW c \in Customers, RequestCancellation(o, c)
           PROVE  Contract!ContractNext
      <4>1. /\ stageBar[o] \in Contract!Holdable
            /\ stageBar' = stageBar
            /\ UNCHANGED <<paidBar, atProviderBar>>
        BY <3>2, <3>3, <3>4, <3>12, RequestCancellationRow
           DEF Stage, CancellationRequestableStatuses, Contract!Holdable
      <4>2. o \notin heldBar /\ heldBar' = heldBar \cup {o}
        BY <3>1, <3>12, RequestCancellationRow DEF CancellationRequestableStatuses
      <4>3. Contract!Hold(o)
        BY <4>1, <4>2 DEF Contract!Hold
      <4>4. QED
        BY <4>3 DEF Contract!ContractNext
    <3>13. CASE ApproveCancellation(o)
      <4>1. /\ stageBar' = [stageBar EXCEPT ![o] = "cancelled"]
            /\ UNCHANGED <<paidBar, atProviderBar>>
        BY <3>2, <3>4, <3>13, ApproveCancellationRow DEF Stage
      <4>2. o \in heldBar /\ heldBar' = heldBar \ {o}
        BY <3>1, <3>13, ApproveCancellationRow
      <4>3. Contract!Cancel(o)
        BY <4>1, <4>2 DEF Contract!Cancel, Contract!MoveTo
      <4>4. QED
        BY <4>3 DEF Contract!ContractNext
    <3>14. CASE RejectCancellation(o)
      <4>1. /\ stageBar' = stageBar
            /\ UNCHANGED <<paidBar, atProviderBar>>
        BY <3>2, <3>3, <3>4, <3>14, RejectCancellationRow
           DEF Stage, CancellationRequestableStatuses
      <4>2. o \in heldBar /\ heldBar' = heldBar \ {o}
        BY <3>1, <3>14, RejectCancellationRow DEF CancellationRequestableStatuses
      <4>3. Contract!Resume(o)
        BY <4>1, <4>2 DEF Contract!Resume
      <4>4. QED
        BY <4>3 DEF Contract!ContractNext
    <3>15. QED
      BY <2>3, <3>7, <3>8, <3>9, <3>10, <3>11, <3>12, <3>13, <3>14 DEF OrderStep
  <2>4. QED
    BY <2>1, <2>3, OrderSteps
<1>3. QED
  BY <1>1, <1>2, OrderInvCorrect, PTL DEF Spec, KeepsContract, Contract!ContractSpec
===============================================================================
