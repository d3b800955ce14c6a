------------------------------- MODULE RowLocks --------------------------------
(***************************************************************************)
(* What the requests of several API workers wait for.  A request runs its  *)
(* flushed statements one after another in one transaction; a statement    *)
(* takes a row lock of PostgreSQL and waits while another transaction has  *)
(* a conflicting one.  The database driver is synchronous: a coroutine     *)
(* that waits for a row lock keeps the event loop of its worker, and no    *)
(* other request of that worker can move.                                  *)
(*                                                                         *)
(* Sessions work on several orders here, which share webhook event ids and *)
(* payment provider references.  What they validate is in Payments and     *)
(* OverlappingSessions; a validation that fails is Reject.                 *)
(***************************************************************************)
EXTENDS Naturals, FiniteSets

CONSTANTS
  Workers,     \* API processes, one event loop each
  Sessions,    \* requests, each with the database session of its handler
  Home,        \* Home[s]: the worker that serves request s
  Orders,      \* ids of the orders table
  References,  \* payment_provider_reference values a webhook may carry
  EventIds     \* ids of payment webhook events

ASSUME HomeAssumption == Home \in [Sessions -> Workers]

VARIABLES
  request,   \* request[s]: what s was asked to do
  step,      \* step[s]: the statement s runs next
  loaded,    \* loaded[s]: what a webhook read before its first statement
  locks,     \* row locks of the open transactions
  running,   \* running[w]: the session whose coroutine has the loop of w
  payments,  \* committed (order, reference) pairs of the payments table
  claimed,   \* committed ids of payment_webhook_events
  paid,      \* orders that a committed webhook confirmed
  answer     \* answer[s]: what the client of s was told

vars == <<request, step, loaded, locks, running, payments, claimed, paid, answer>>

-------------------------------------------------------------------------------
(* Requests and rows                                                       *)

WebhookRequest ==
  [kind : {"webhook"}, order : Orders, reference : References,
   event : EventIds, verified : BOOLEAN]

(* "status": the requests that load an order and write its status.         *)
Request == WebhookRequest \cup [kind : {"initialize", "status"}, order : Orders]

PaymentKey == [order : Orders, reference : References]

OrderRow(o) == [table |-> "orders", order |-> o]
EventRow(e) == [table |-> "payment_webhook_events", event |-> e]
PaymentRow(k) == [table |-> "payments", key |-> k]

Rows ==
  {OrderRow(o) : o \in Orders} \cup {EventRow(e) : e \in EventIds}
  \cup {PaymentRow(k) : k \in PaymentKey}

(* FOR KEY SHARE is what a foreign key takes on the row it refers to, FOR  *)
(* NO KEY UPDATE what an UPDATE takes, FOR UPDATE what the SELECT names.   *)
Modes == {"key_share", "no_key_update", "update"}

Conflict(a, b) ==
  {a, b} \in {{"key_share", "update"}, {"no_key_update"},
              {"no_key_update", "update"}, {"update"}}

(* A row that a transaction inserted excludes other inserts of its unique  *)
(* key, as its update would.                                               *)
Written == "no_key_update"

Lock == [session : Sessions, row : Rows, mode : Modes]

Steps ==
  {"waiting", "claim", "reference", "pay", "confirm", "lock", "checkout",
   "open", "update", "commit", "handoff", "commit_handoff", "done"}

Answers ==
  {"none", "committed", "replayed_event", "payment_reference_conflict", "rejected"}

Load == [payments : SUBSET PaymentKey, paid : BOOLEAN]

LockTypeOK ==
  /\ request \in [Sessions -> Request]
  /\ step \in [Sessions -> Steps]
  /\ loaded \in [Sessions -> Load]
  /\ locks \subseteq Lock
  /\ running \in [Workers -> SUBSET Sessions]
  /\ \A w \in Workers : \A s, t \in running[w] : s = t
  /\ payments \subseteq PaymentKey
  /\ claimed \subseteq EventIds
  /\ paid \subseteq Orders
  /\ answer \in [Sessions -> Answers]

Init ==
  /\ request \in [Sessions -> Request]
  /\ step = [s \in Sessions |-> "waiting"]
  /\ loaded = [s \in Sessions |-> [payments |-> {}, paid |-> FALSE]]
  /\ locks = {}
  /\ running = [w \in Workers |-> {}]
  /\ payments = {}
  /\ claimed = {}
  /\ paid = {}
  /\ answer = [s \in Sessions |-> "none"]

-------------------------------------------------------------------------------
(* Statements                                                              *)

HasLoop(s) == running[Home[s]] = {s}

(* Mutant: a new request is begun whatever the loop is at.                 *)
LoopAlwaysFree(s) == TRUE

LoopIsFree(s) == running[Home[s]] = {}

KeyOf(s) == [order |-> request[s].order, reference |-> request[s].reference]

(* Mutant: the order is locked for update once it is to be confirmed.      *)
LockToWait(s) ==
  CASE step[s] = "claim" -> {<<EventRow(request[s].event), Written>>}
    [] step[s] = "reference" -> {<<OrderRow(request[s].order), "key_share">>}
    [] step[s] = "pay" -> {<<PaymentRow(KeyOf(s)), Written>>}
    [] step[s] \in {"lock", "confirm"} -> {<<OrderRow(request[s].order), "update">>}
    [] step[s] \in {"update", "handoff"} -> {<<OrderRow(request[s].order), Written>>}
    [] OTHER -> {}

(***************************************************************************)
(* The row a statement locks and how: the unique event_id, the foreign key *)
(* of the event, the unique (order, reference) or the row of a payment,    *)
(* SELECT ... FOR UPDATE, and UPDATEs of the order.                        *)
(***************************************************************************)
Wanted(s) ==
  CASE step[s] = "claim" -> {<<EventRow(request[s].event), Written>>}
    [] step[s] = "reference" -> {<<OrderRow(request[s].order), "key_share">>}
    [] step[s] = "pay" -> {<<PaymentRow(KeyOf(s)), Written>>}
    [] step[s] = "lock" -> {<<OrderRow(request[s].order), "update">>}
    [] step[s] \in {"confirm", "update", "handoff"} ->
         {<<OrderRow(request[s].order), Written>>}
    [] OTHER -> {}

(* The open transactions whose locks the next statement of s conflicts with. *)
Blockers(s) ==
  {l.session : l \in {k \in locks : /\ k.session # s
                                  /\ \E w \in Wanted(s) :
                                       k.row = w[1] /\ Conflict(k.mode, w[2])}}

(* The statement of step n has its lock.                                   *)
Runs(s, n) == step[s] = n /\ HasLoop(s) /\ Blockers(s) = {}

TakeWanted(s) ==
  locks' = locks \cup {[session |-> s, row |-> w[1], mode |-> w[2]] : w \in Wanted(s)}

Continue(s, next) ==
  /\ step' = [step EXCEPT ![s] = next]
  /\ UNCHANGED <<request, loaded, running, payments, claimed, paid, answer>>

LocksOf(s) == {l \in locks : l.session = s}

(* Commit or rollback, the response, and the loop for the next coroutine.  *)
Respond(s, code) ==
  /\ step' = [step EXCEPT ![s] = "done"]
  /\ answer' = [answer EXCEPT ![s] = code]
  /\ locks' = locks \ LocksOf(s)
  /\ running' = [running EXCEPT ![Home[s]] = {}]
  /\ UNCHANGED <<request, loaded>>

Refuse(s, code) == Respond(s, code) /\ UNCHANGED <<payments, claimed, paid>>

(***************************************************************************)
(* The coroutine of a request that validates something before its first    *)
(* write: the plain reads take no lock.                                    *)
(***************************************************************************)
Start(s, next, read) ==
  /\ step[s] = "waiting" /\ LoopIsFree(s)
  /\ running' = [running EXCEPT ![Home[s]] = @ \cup {s}]
  /\ step' = [step EXCEPT ![s] = next]
  /\ loaded' = [loaded EXCEPT ![s] = read]
  /\ UNCHANGED <<request, locks, payments, claimed, paid, answer>>

-------------------------------------------------------------------------------
(* POST /payments/webhook                                                  *)

ReferencedBy(r) == {k \in payments : k.reference = r}

(* Mutant: payments of other orders are not looked for.                    *)
UsesFreeReferenceUnchecked(s) == TRUE

(* _payment_for_event: the reference is not another order's.               *)
UsesFreeReference(s) == ReferencedBy(request[s].reference) \subseteq {KeyOf(s)}

LoadForWebhook(s) ==
  /\ request[s].kind = "webhook"
  /\ UsesFreeReference(s)
  /\ Start(s, "claim", [payments |-> ReferencedBy(request[s].reference),
                        paid |-> request[s].order \in paid])

RefuseReference(s) ==
  /\ step[s] = "waiting" /\ LoopIsFree(s)
  /\ request[s].kind = "webhook"
  /\ ~UsesFreeReference(s)
  /\ Refuse(s, "payment_reference_conflict")

(* Mutant: an event that another session is inserting counts as claimed.   *)
ClaimWithoutWaiting(s) ==
  /\ step[s] = "claim" /\ HasLoop(s)
  /\ IF request[s].event \in claimed \/ Blockers(s) # {}
     THEN Refuse(s, "replayed_event")
     ELSE TakeWanted(s) /\ Continue(s, "reference")

(***************************************************************************)
(* INSERT INTO payment_webhook_events: event_id is unique, so an insert of *)
(* the same id by an open transaction has first to end.                    *)
(***************************************************************************)
Claim(s) ==
  /\ Runs(s, "claim")
  /\ IF request[s].event \in claimed
     THEN Refuse(s, "replayed_event")
     ELSE TakeWanted(s) /\ Continue(s, "reference")

(* The foreign key of the inserted event.                                  *)
ReferToOrder(s) == Runs(s, "reference") /\ TakeWanted(s) /\ Continue(s, "pay")

ConfirmsOrder(s) ==
  request[s].kind = "webhook" /\ request[s].verified /\ ~loaded[s].paid

AfterPayment(s) == IF ConfirmsOrder(s) THEN "confirm" ELSE "commit"

(***************************************************************************)
(* _persist_payment_event: INSERT of a payment the session did not find,   *)
(* whose (order, reference) is unique, or UPDATE of the one it loaded.     *)
(***************************************************************************)
WritePayment(s) ==
  /\ Runs(s, "pay")
  /\ IF KeyOf(s) \in payments \ loaded[s].payments
     THEN Refuse(s, "payment_reference_conflict")
     ELSE TakeWanted(s) /\ Continue(s, AfterPayment(s))

(* A repeated confirmation leaves the payment as it is.                    *)
KeepPayment(s) ==
  /\ step[s] = "pay" /\ HasLoop(s)
  /\ loaded[s].paid /\ request[s].verified /\ KeyOf(s) \in loaded[s].payments
  /\ Continue(s, "commit")
  /\ UNCHANGED locks

(* record_payment_confirmed: UPDATE orders.                                *)
ConfirmOrder(s) == Runs(s, "confirm") /\ TakeWanted(s) /\ Continue(s, "commit")

(* The event is linked to its payment, which waits for nobody, and all of  *)
(* it is committed; the coroutine goes on to the handoff of the order.     *)
CommitWebhook(s) ==
  /\ step[s] = "commit" /\ HasLoop(s)
  /\ request[s].kind = "webhook"
  /\ claimed' = claimed \cup {request[s].event}
  /\ payments' = payments \cup {KeyOf(s)}
  /\ IF ConfirmsOrder(s)
     THEN /\ paid' = paid \cup {request[s].order}
          /\ locks' = locks \ LocksOf(s)
          /\ step' = [step EXCEPT ![s] = "handoff"]
          /\ UNCHANGED <<request, loaded, running, answer>>
     ELSE Respond(s, "committed") /\ UNCHANGED paid

(* transmit_paid_order: the provider is asked before the UPDATE.           *)
RecordHandoff(s) ==
  Runs(s, "handoff") /\ TakeWanted(s) /\ Continue(s, "commit_handoff")

(* The handoff is over, in success, failure or because it was skipped.     *)
EndHandoff(s) ==
  /\ step[s] \in {"handoff", "commit_handoff"} /\ HasLoop(s)
  /\ Refuse(s, "committed")

-------------------------------------------------------------------------------
(* POST /payments                                                          *)

ReceiveInitialization(s) ==
  /\ request[s].kind = "initialize"
  /\ Start(s, "lock", [payments |-> {}, paid |-> FALSE])

(* SELECT ... FOR UPDATE of the order; it is still to be paid for.         *)
LockOrder(s) ==
  /\ Runs(s, "lock")
  /\ request[s].order \notin paid
  /\ TakeWanted(s)
  /\ Continue(s, "checkout")

RefuseCheckout(s) ==
  Runs(s, "lock") /\ request[s].order \in paid /\ Refuse(s, "rejected")

(* Mutant: the checkout is opened by a call over the network.              *)
GivesUpLoopForCheckout == TRUE

(* WompiPaymentProvider.initialize_checkout is async and awaits nothing:   *)
(* the coroutine that awaits it does not give up its loop.                 *)
GivesUpLoop == FALSE

(* await provider.initialize_checkout, with the order row locked.          *)
InitializeCheckout(s) ==
  /\ step[s] = "checkout" /\ HasLoop(s)
  /\ running' = [running EXCEPT ![Home[s]] = IF GivesUpLoop THEN {} ELSE {s}]
  /\ step' = [step EXCEPT ![s] = "open"]
  /\ UNCHANGED <<request, loaded, locks, payments, claimed, paid, answer>>

(* The expired checkout, which no webhook names, and the new one.          *)
OpenPayment(s) ==
  /\ step[s] = "open"
  /\ running[Home[s]] \subseteq {s}
  /\ running' = [running EXCEPT ![Home[s]] = {s}]
  /\ step' = [step EXCEPT ![s] = "commit"]
  /\ UNCHANGED <<request, loaded, locks, payments, claimed, paid, answer>>

-------------------------------------------------------------------------------
(* Provider events and cancellations                                       *)

LoadForStatus(s) ==
  /\ request[s].kind = "status"
  /\ Start(s, "update", [payments |-> {}, paid |-> request[s].order \in paid])

UpdateStatus(s) == Runs(s, "update") /\ TakeWanted(s) /\ Continue(s, "commit")

(* The rows that initialization and status requests add have new keys.     *)
CommitRequest(s) ==
  /\ step[s] = "commit" /\ HasLoop(s)
  /\ request[s].kind # "webhook"
  /\ Refuse(s, "committed")

-------------------------------------------------------------------------------
(* A validation fails, or the connection is lost; the transaction is       *)
(* rolled back.                                                            *)
Reject(s) ==
  /\ step[s] \notin {"waiting", "handoff", "commit_handoff", "done"}
  /\ HasLoop(s)
  /\ Refuse(s, "rejected")

(* What a request does of itself.                                          *)
Proceed(s) ==
  \/ LoadForWebhook(s) \/ RefuseReference(s)
  \/ Claim(s) \/ ReferToOrder(s) \/ WritePayment(s) \/ KeepPayment(s)
  \/ ConfirmOrder(s) \/ CommitWebhook(s) \/ RecordHandoff(s) \/ EndHandoff(s)
  \/ ReceiveInitialization(s) \/ LockOrder(s) \/ RefuseCheckout(s)
  \/ InitializeCheckout(s) \/ OpenPayment(s)
  \/ LoadForStatus(s) \/ UpdateStatus(s) \/ CommitRequest(s)

(* All requests have been answered.                                        *)
Finished ==
  /\ \A s \in Sessions : step[s] = "done"
  /\ UNCHANGED vars

Next == (\E s \in Sessions : Proceed(s) \/ Reject(s)) \/ Finished

Spec == Init /\ [][Next]_vars

(* A statement that can run is run: the database wakes who waits for a     *)
(* lock, the event loop runs the coroutines that can go on.                *)
FairSpec == Spec /\ \A s \in Sessions : WF_vars(Proceed(s))

-------------------------------------------------------------------------------
(* Waiting                                                                 *)

(* s cannot go on before t has given up a lock, or the loop of s.          *)
WaitsFor(s, t) ==
  /\ s # t
  /\ step[s] # "done"
  /\ t \in running[Home[s]] \cup Blockers(s)

(***************************************************************************)
(* No requests wait for one another in a circle, over row locks, event     *)
(* loops or both.  PostgreSQL would break a circle of locks by an error;   *)
(* one that closes over an event loop it cannot see, and that worker would *)
(* answer nobody any more.  The statements of every handler lock event,    *)
(* order and payment in one order, a webhook does not strengthen its share *)
(* of the order row against another's, and nobody awaits with a lock.      *)
(***************************************************************************)
NobodyWaitsInACircle ==
  \A circle \in (SUBSET Sessions) \ {{}} :
    \E s \in circle : \A t \in circle : ~WaitsFor(s, t)

(***************************************************************************)
(* payment_webhook_processing_service: a delivery is refused as            *)
(* "replayed_event" because the event "has already been processed".  The *)
(* one that was in flight may yet be rolled back, and then the provider    *)
(* has to be asked for another: nobody is told of a replay unless a        *)
(* session that claimed the event has committed.                           *)
(***************************************************************************)
ReplayedEventsHaveActed ==
  \A s \in Sessions :
    answer[s] = "replayed_event" => request[s].event \in claimed

(***************************************************************************)
(* No constraint keeps a provider reference from paying two orders; the    *)
(* look at other orders' payments does, when it can see them: two orders   *)
(* share a reference only if the session of one had begun before the       *)
(* payment of the other was committed.                                     *)
(***************************************************************************)
SharedReferencesOverlapped ==
  [][ \A s \in Sessions, k \in payments' \ payments, other \in payments :
        /\ step[s] = "commit" /\ request[s].kind = "webhook"
        /\ step'[s] # step[s]
        /\ other.reference = k.reference /\ other.order # k.order
        => other \notin loaded[s].payments
    ]_vars

(***************************************************************************)
(* Every request is answered, under the scheduling of FairSpec.            *)
(***************************************************************************)
EveryRequestIsAnswered == \A s \in Sessions : <>(step[s] = "done")
===============================================================================
