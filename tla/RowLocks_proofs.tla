---------------------------- MODULE RowLocks_proofs -----------------------------
(***************************************************************************)
(* No set of requests waits in a circle, for any workers, requests and     *)
(* orders: every request waits only for others that are further than it is *)
(* in one order of the statements (Place).  Also the answers to replays,   *)
(* the references that two orders share, what a session may rely on while  *)
(* it has its row locks (HoldInv), and the safety half of the answers: one *)
(* request can always go on, and every step is a step towards an answer.   *)
(***************************************************************************)
EXTENDS RowLocks, WellFoundedInduction, TLAPS

(* How far a request has come.                                              *)
Place(n) ==
  CASE n = "waiting" -> 0
    [] n \in {"claim", "lock"} -> 1
    [] n = "reference" -> 2
    [] n = "pay" -> 3
    [] n \in {"confirm", "update", "handoff"} -> 4
    [] OTHER -> 5

(* How far a session is when it has a lock of a mode on a row of a table.  *)
LocksHaveTheirPlace ==
  \A l \in locks :
    /\ step[l.session] # "done"
    /\ l.row.table = "payment_webhook_events" => Place(step[l.session]) >= 2
    /\ l.row.table = "payments" => Place(step[l.session]) >= 4
    /\ l.row.table = "orders" /\ l.mode = "key_share" => Place(step[l.session]) >= 3
    /\ l.row.table = "orders" /\ l.mode # "key_share" => Place(step[l.session]) >= 5

LoopsBelongToTheirRequests ==
  /\ \A s \in Sessions :
       step[s] \notin {"waiting", "done"} => running[Home[s]] = {s}
  /\ \A w \in Workers : \A s \in running[w] :
       Home[s] = w /\ step[s] \notin {"waiting", "done"}

WebhookSteps == {"claim", "reference", "pay", "confirm", "handoff", "commit_handoff"}

StepsFitTheirRequests ==
  \A s \in Sessions : step[s] \in WebhookSteps => request[s].kind = "webhook"

WaitInv ==
  /\ LockTypeOK
  /\ LocksHaveTheirPlace
  /\ LoopsBelongToTheirRequests
  /\ StepsFitTheirRequests

-------------------------------------------------------------------------------
(* What the pieces of the actions preserve                                 *)

LEMMA WebhookFields ==
  ASSUME LockTypeOK, NEW s \in Sessions, request[s].kind = "webhook"
  PROVE  /\ request[s] \in WebhookRequest
         /\ request[s].order \in Orders
         /\ request[s].event \in EventIds
         /\ KeyOf(s) \in PaymentKey
<1>1. request[s] \in Request
  BY DEF LockTypeOK
<1>2. request[s] \in WebhookRequest
  BY <1>1 DEF Request, WebhookRequest
<1>3. QED
  BY <1>2 DEF WebhookRequest, KeyOf, PaymentKey

LEMMA OrderField ==
  ASSUME LockTypeOK, NEW s \in Sessions
  PROVE  request[s].order \in Orders
BY DEF LockTypeOK, Request, WebhookRequest

(* A statement and the one after it.                                       *)
Successions ==
  {<<"claim", "reference">>, <<"reference", "pay">>, <<"pay", "confirm">>,
   <<"pay", "commit">>, <<"confirm", "commit">>, <<"handoff", "commit_handoff">>,
   <<"lock", "checkout">>, <<"update", "commit">>}

LEMMA StatementKeepsWaitInv ==
  ASSUME WaitInv, NEW s \in Sessions, NEW m \in Steps, NEW n \in Steps,
         <<m, n>> \in Successions,
         Runs(s, m), TakeWanted(s), Continue(s, n)
  PROVE  WaitInv'
<1> DEFINE taken == {[session |-> s, row |-> w[1], mode |-> w[2]] : w \in Wanted(s)}
<1>1. /\ step[s] = m /\ step' = [step EXCEPT ![s] = n]
      /\ locks' = locks \cup taken
      /\ UNCHANGED <<request, loaded, running, payments, claimed, paid, answer>>
      /\ running[Home[s]] = {s}
  BY DEF Runs, HasLoop, TakeWanted, Continue
<1>2. \A l \in taken :
        /\ l \in Lock /\ l.session = s
        /\ l.row.table = "payment_webhook_events" => Place(n) >= 2
        /\ l.row.table = "payments" => Place(n) >= 4
        /\ l.row.table = "orders" /\ l.mode = "key_share" => Place(n) >= 3
        /\ l.row.table = "orders" /\ l.mode # "key_share" => Place(n) >= 5
  <2>1. CASE m = "claim"
    <3>1. request[s].event \in EventIds
      BY <1>1, <2>1, WebhookFields DEF WaitInv, StepsFitTheirRequests, WebhookSteps
    <3>2. Wanted(s) = {<<EventRow(request[s].event), Written>>} /\ n = "reference"
      BY <1>1, <2>1 DEF Wanted, Successions
    <3>3. taken = {[session |-> s, row |-> EventRow(request[s].event), mode |-> Written]}
      BY <3>2
    <3>4. QED
      BY <3>1, <3>2, <3>3 DEF Lock, Rows, Modes, EventRow, Place, Written
  <2>2. CASE m = "reference"
    <3>1. request[s].order \in Orders
      BY OrderField DEF WaitInv
    <3>2. Wanted(s) = {<<OrderRow(request[s].order), "key_share">>} /\ n = "pay"
      BY <1>1, <2>2 DEF Wanted, Successions
    <3>3. taken = {[session |-> s, row |-> OrderRow(request[s].order), mode |-> "key_share"]}
      BY <3>2
    <3>4. QED
      BY <3>1, <3>2, <3>3 DEF Lock, Rows, Modes, OrderRow, Place
  <2>3. CASE m = "pay"
    <3>1. KeyOf(s) \in PaymentKey
      BY <1>1, <2>3, WebhookFields DEF WaitInv, StepsFitTheirRequests, WebhookSteps
    <3>2. Wanted(s) = {<<PaymentRow(KeyOf(s)), Written>>} /\ n \in {"confirm", "commit"}
      BY <1>1, <2>3 DEF Wanted, Successions
    <3>3. taken = {[session |-> s, row |-> PaymentRow(KeyOf(s)), mode |-> Written]}
      BY <3>2
    <3>4. QED
      BY <3>1, <3>2, <3>3 DEF Lock, Rows, Modes, PaymentRow, Place, Written
  <2>4. CASE m = "lock"
    <3>1. request[s].order \in Orders
      BY OrderField DEF WaitInv
    <3>2. Wanted(s) = {<<OrderRow(request[s].order), "update">>} /\ n = "checkout"
      BY <1>1, <2>4 DEF Wanted, Successions
    <3>3. taken = {[session |-> s, row |-> OrderRow(request[s].order), mode |-> "update"]}
      BY <3>2
    <3>4. QED
      BY <3>1, <3>2, <3>3 DEF Lock, Rows, Modes, OrderRow, Place
  <2>5. CASE m \in {"confirm", "update", "handoff"}
    <3>1. request[s].order \in Orders
      BY OrderField DEF WaitInv
    <3>2. /\ Wanted(s) = {<<OrderRow(request[s].order), Written>>}
          /\ n \in {"commit", "commit_handoff"}
      BY <1>1, <2>5 DEF Wanted, Successions
    <3>3. taken = {[session |-> s, row |-> OrderRow(request[s].order), mode |-> Written]}
      BY <3>2
    <3>4. QED
      BY <3>1, <3>2, <3>3 DEF Lock, Rows, Modes, OrderRow, Place, Written
  <2>6. QED
    BY <2>1, <2>2, <2>3, <2>4, <2>5 DEF Successions
<1>3. Place(n) >= Place(m) /\ m \notin {"waiting", "done"} /\ n \notin {"waiting", "done"}
  BY DEF Successions, Place
<1>4. LockTypeOK'
  BY <1>1, <1>2 DEF WaitInv, LockTypeOK
<1>5. LocksHaveTheirPlace'
  <2>1. \A l \in locks : l.session \in Sessions
    BY DEF WaitInv, LockTypeOK, Lock
  <2>2. \A r \in Sessions : step'[r] = IF r = s THEN n ELSE step[r]
    BY <1>1 DEF WaitInv, LockTypeOK
  <2>3. \A l \in locks :
          /\ step'[l.session] # "done"
          /\ Place(step'[l.session]) >= Place(step[l.session])
          /\ Place(step'[l.session]) \in Nat /\ Place(step[l.session]) \in Nat
    BY <1>1, <1>3, <2>1, <2>2 DEF WaitInv, LocksHaveTheirPlace, Place
  <2>4. \A l \in locks' :
           /\ step'[l.session] # "done"
           /\ l.row.table = "payment_webhook_events" => Place(step'[l.session]) >= 2
           /\ l.row.table = "payments" => Place(step'[l.session]) >= 4
           /\ l.row.table = "orders" /\ l.mode = "key_share" => Place(step'[l.session]) >= 3
           /\ l.row.table = "orders" /\ l.mode # "key_share" => Place(step'[l.session]) >= 5
    <3> SUFFICES ASSUME NEW l \in locks'
                 PROVE  /\ step'[l.session] # "done"
                        /\ l.row.table = "payment_webhook_events" => Place(step'[l.session]) >= 2
                        /\ l.row.table = "payments" => Place(step'[l.session]) >= 4
                        /\ l.row.table = "orders" /\ l.mode = "key_share" => Place(step'[l.session]) >= 3
                        /\ l.row.table = "orders" /\ l.mode # "key_share" => Place(step'[l.session]) >= 5
      OBVIOUS
    <3>1. CASE l \in locks
      BY <2>3, <3>1 DEF WaitInv, LocksHaveTheirPlace
    <3>2. CASE l \in taken
      BY <1>2, <1>3, <2>2, <3>2
    <3>3. QED
      BY <1>1, <3>1, <3>2
  <2>5. QED
    BY <2>4 DEF LocksHaveTheirPlace
<1>6. LoopsBelongToTheirRequests'
  BY <1>1, <1>3 DEF WaitInv, LockTypeOK, LoopsBelongToTheirRequests
<1>7. StepsFitTheirRequests'
  BY <1>1 DEF WaitInv, LockTypeOK, StepsFitTheirRequests, WebhookSteps, Successions
<1>8. QED
  BY <1>4, <1>5, <1>6, <1>7 DEF WaitInv

LEMMA ResponseKeepsWaitInv ==
  ASSUME WaitInv, NEW s \in Sessions, NEW code \in Answers,
         running[Home[s]] \subseteq {s},
         Respond(s, code),
         payments' \subseteq PaymentKey, claimed' \subseteq EventIds, paid' \subseteq Orders
  PROVE  WaitInv'
<1>1. /\ step' = [step EXCEPT ![s] = "done"]
      /\ answer' = [answer EXCEPT ![s] = code]
      /\ locks' = {l \in locks : l.session # s}
      /\ running' = [running EXCEPT ![Home[s]] = {}]
      /\ UNCHANGED <<request, loaded>>
  BY DEF Respond, LocksOf
<1>2. LockTypeOK'
  BY <1>1, HomeAssumption DEF WaitInv, LockTypeOK, Steps
<1>3. LocksHaveTheirPlace'
  BY <1>1 DEF WaitInv, LockTypeOK, LocksHaveTheirPlace, Lock
<1>4. LoopsBelongToTheirRequests'
  BY <1>1, HomeAssumption DEF WaitInv, LockTypeOK, LoopsBelongToTheirRequests
<1>5. StepsFitTheirRequests'
  BY <1>1 DEF WaitInv, LockTypeOK, StepsFitTheirRequests, WebhookSteps
<1>6. QED
  BY <1>2, <1>3, <1>4, <1>5 DEF WaitInv

LEMMA RefusalKeepsWaitInv ==
  ASSUME WaitInv, NEW s \in Sessions, NEW code \in Answers,
         running[Home[s]] \subseteq {s}, Refuse(s, code)
  PROVE  WaitInv'
BY ResponseKeepsWaitInv DEF Refuse, WaitInv, LockTypeOK

LEMMA StartKeepsWaitInv ==
  ASSUME WaitInv, NEW s \in Sessions, NEW read \in Load,
         NEW n \in {"claim", "lock", "update"},
         n = "claim" => request[s].kind = "webhook",
         Start(s, n, read)
  PROVE  WaitInv'
<1>1. /\ step[s] = "waiting" /\ running[Home[s]] = {}
      /\ running' = [running EXCEPT ![Home[s]] = {s}]
      /\ step' = [step EXCEPT ![s] = n]
      /\ loaded' = [loaded EXCEPT ![s] = read]
      /\ UNCHANGED <<request, locks, payments, claimed, paid, answer>>
  BY DEF Start, LoopIsFree, WaitInv, LockTypeOK
<1>2. LockTypeOK'
  <2>1. Home[s] \in Workers /\ n \in Steps
    BY HomeAssumption DEF Steps
  <2>2. /\ running' \in [Workers -> SUBSET Sessions]
        /\ \A w \in Workers : \A r, t \in running'[w] : r = t
    BY <1>1, <2>1 DEF WaitInv, LockTypeOK
  <2>3. step' \in [Sessions -> Steps] /\ loaded' \in [Sessions -> Load]
    BY <1>1, <2>1 DEF WaitInv, LockTypeOK
  <2>4. QED
    BY <1>1, <2>2, <2>3 DEF WaitInv, LockTypeOK
<1>3. \A l \in locks : l.session \in Sessions /\ l.session # s
  BY <1>1 DEF WaitInv, LockTypeOK, LocksHaveTheirPlace, Lock, Place, Rows, Modes,
              OrderRow, EventRow, PaymentRow
<1>4. LocksHaveTheirPlace'
  BY <1>1, <1>3 DEF WaitInv, LockTypeOK, LocksHaveTheirPlace
<1>5. LoopsBelongToTheirRequests'
  <2>1. Home[s] \in Workers /\ \A r \in Sessions : Home[r] \in Workers
    BY HomeAssumption
  <2>2. /\ \A w \in Workers : running'[w] = IF w = Home[s] THEN {s} ELSE running[w]
        /\ \A r \in Sessions : step'[r] = IF r = s THEN n ELSE step[r]
    BY <1>1 DEF WaitInv, LockTypeOK
  <2>3. ASSUME NEW r \in Sessions, step'[r] \notin {"waiting", "done"}
        PROVE  running'[Home[r]] = {r}
    <3>1. CASE r = s
      BY <2>1, <2>2, <3>1
    <3>2. CASE r # s
      <4>1. running[Home[r]] = {r}
        BY <2>2, <2>3, <3>2 DEF WaitInv, LoopsBelongToTheirRequests
      <4>2. QED
        BY <1>1, <2>1, <2>2, <4>1
    <3>3. QED
      BY <3>1, <3>2
  <2>4. ASSUME NEW w \in Workers, NEW r \in running'[w]
        PROVE  Home[r] = w /\ step'[r] \notin {"waiting", "done"}
    <3>1. CASE w = Home[s]
      BY <2>2, <3>1
    <3>2. CASE w # Home[s]
      <4>1. r \in running[w] /\ r \in Sessions
        BY <2>2, <3>2 DEF WaitInv, LockTypeOK
      <4>2. QED
        BY <1>1, <2>2, <4>1 DEF WaitInv, LoopsBelongToTheirRequests
    <3>3. QED
      BY <3>1, <3>2
  <2>5. QED
    BY <2>3, <2>4 DEF LoopsBelongToTheirRequests
<1>6. StepsFitTheirRequests'
  BY <1>1 DEF WaitInv, LockTypeOK, StepsFitTheirRequests, WebhookSteps
<1>7. QED
  BY <1>2, <1>4, <1>5, <1>6 DEF WaitInv

(* A step that takes no lock and moves a request on at the same place.     *)
LEMMA ContinuationKeepsWaitInv ==
  ASSUME WaitInv, NEW s \in Sessions, NEW n \in Steps,
         <<step[s], n>> \in {<<"pay", "commit">>, <<"checkout", "open">>, <<"open", "commit">>},
         step' = [step EXCEPT ![s] = n],
         running' = running,
         UNCHANGED <<request, loaded, locks, payments, claimed, paid, answer>>
  PROVE  WaitInv'
<1>1. LockTypeOK'
  BY DEF WaitInv, LockTypeOK
<1>2. LocksHaveTheirPlace'
  <2>1. \A l \in locks : l.session \in Sessions
    BY DEF WaitInv, LockTypeOK, Lock
  <2>2. \A r \in Sessions : step'[r] = IF r = s THEN n ELSE step[r]
    BY DEF WaitInv, LockTypeOK
  <2>3. Place(n) = 5 /\ n # "done"
    BY DEF Place
  <2>4. QED
    BY <2>1, <2>2, <2>3 DEF WaitInv, LocksHaveTheirPlace
<1>3. LoopsBelongToTheirRequests'
  BY DEF WaitInv, LockTypeOK, LoopsBelongToTheirRequests
<1>4. StepsFitTheirRequests'
  BY DEF WaitInv, LockTypeOK, StepsFitTheirRequests, WebhookSteps
<1>5. QED
  BY <1>1, <1>2, <1>3, <1>4 DEF WaitInv

-------------------------------------------------------------------------------
(* The actions                                                             *)

LEMMA WebhookKeepsWaitInv ==
  ASSUME WaitInv, NEW s \in Sessions,
         \/ LoadForWebhook(s) \/ RefuseReference(s)
         \/ Claim(s) \/ ReferToOrder(s) \/ WritePayment(s) \/ KeepPayment(s)
         \/ ConfirmOrder(s) \/ CommitWebhook(s) \/ RecordHandoff(s) \/ EndHandoff(s)
  PROVE  WaitInv'
<1>1. CASE LoadForWebhook(s)
  <2> DEFINE read == [payments |-> ReferencedBy(request[s].reference),
                      paid |-> request[s].order \in paid]
  <2>1. read \in Load
    BY DEF Load, ReferencedBy, WaitInv, LockTypeOK
  <2>2. request[s].kind = "webhook" /\ Start(s, "claim", read)
    BY <1>1 DEF LoadForWebhook
  <2>3. QED
    BY <2>1, <2>2, StartKeepsWaitInv
<1>2. CASE RefuseReference(s)
  BY <1>2, RefusalKeepsWaitInv DEF RefuseReference, LoopIsFree, Answers
<1>3. CASE Claim(s)
  <2>1. CASE request[s].event \in claimed
    BY <1>3, <2>1, RefusalKeepsWaitInv DEF Claim, Runs, HasLoop, Answers
  <2>2. CASE request[s].event \notin claimed
    BY <1>3, <2>2, StatementKeepsWaitInv DEF Claim, Successions, Steps
  <2>3. QED
    BY <2>1, <2>2
<1>4. CASE ReferToOrder(s)
  BY <1>4, StatementKeepsWaitInv DEF ReferToOrder, Successions, Steps
<1>5. CASE WritePayment(s)
  <2>1. CASE KeyOf(s) \in payments \ loaded[s].payments
    BY <1>5, <2>1, RefusalKeepsWaitInv DEF WritePayment, Runs, HasLoop, Answers
  <2>2. CASE KeyOf(s) \notin payments \ loaded[s].payments
    <3>1. AfterPayment(s) \in {"confirm", "commit"}
      BY DEF AfterPayment
    <3>2. QED
      BY <1>5, <2>2, <3>1, StatementKeepsWaitInv DEF WritePayment, Successions, Steps
  <2>3. QED
    BY <2>1, <2>2
<1>6. CASE KeepPayment(s)
  BY <1>6, ContinuationKeepsWaitInv DEF KeepPayment, Continue, Steps
<1>7. CASE ConfirmOrder(s)
  BY <1>7, StatementKeepsWaitInv DEF ConfirmOrder, Successions, Steps
<1>8. CASE CommitWebhook(s)
  <2>1. /\ step[s] = "commit" /\ running[Home[s]] = {s} /\ request[s].kind = "webhook"
        /\ claimed' \subseteq EventIds /\ payments' \subseteq PaymentKey
        /\ request[s].order \in Orders
    BY <1>8, WebhookFields DEF CommitWebhook, HasLoop, WaitInv, LockTypeOK
  <2>2. CASE ConfirmsOrder(s)
    <3>1. /\ step' = [step EXCEPT ![s] = "handoff"]
          /\ locks' = {l \in locks : l.session # s}
          /\ paid' = paid \cup {request[s].order}
          /\ UNCHANGED <<request, loaded, running, answer>>
      BY <1>8, <2>2 DEF CommitWebhook, LocksOf
    <3>2. LockTypeOK'
      BY <2>1, <3>1 DEF WaitInv, LockTypeOK, Steps
    <3>3. LocksHaveTheirPlace'
      BY <3>1 DEF WaitInv, LockTypeOK, LocksHaveTheirPlace, Lock
    <3>4. LoopsBelongToTheirRequests'
      BY <2>1, <3>1 DEF WaitInv, LockTypeOK, LoopsBelongToTheirRequests
    <3>5. StepsFitTheirRequests'
      BY <2>1, <3>1 DEF WaitInv, LockTypeOK, StepsFitTheirRequests, WebhookSteps
    <3>6. QED
      BY <3>2, <3>3, <3>4, <3>5 DEF WaitInv
  <2>3. CASE ~ConfirmsOrder(s)
    <3>1. paid' \subseteq Orders /\ Respond(s, "committed")
      BY <1>8, <2>3 DEF CommitWebhook, WaitInv, LockTypeOK
    <3>2. QED
      BY <2>1, <3>1, ResponseKeepsWaitInv DEF Answers
  <2>4. QED
    BY <2>2, <2>3
<1>9. CASE RecordHandoff(s)
  BY <1>9, StatementKeepsWaitInv DEF RecordHandoff, Successions, Steps
<1>10. CASE EndHandoff(s)
  BY <1>10, RefusalKeepsWaitInv DEF EndHandoff, HasLoop, Answers
<1>11. QED
  BY <1>1, <1>2, <1>3, <1>4, <1>5, <1>6, <1>7, <1>8, <1>9, <1>10

LEMMA RequestKeepsWaitInv ==
  ASSUME WaitInv, NEW s \in Sessions,
         \/ ReceiveInitialization(s) \/ LockOrder(s) \/ RefuseCheckout(s)
         \/ InitializeCheckout(s) \/ OpenPayment(s)
         \/ LoadForStatus(s) \/ UpdateStatus(s) \/ CommitRequest(s) \/ Reject(s)
  PROVE  WaitInv'
<1>1. CASE ReceiveInitialization(s)
  <2>1. [payments |-> {}, paid |-> FALSE] \in Load
    BY DEF Load
  <2>2. QED
    BY <1>1, <2>1, StartKeepsWaitInv DEF ReceiveInitialization
<1>2. CASE LockOrder(s)
  BY <1>2, StatementKeepsWaitInv DEF LockOrder, Successions, Steps
<1>3. CASE RefuseCheckout(s)
  BY <1>3, RefusalKeepsWaitInv DEF RefuseCheckout, Runs, HasLoop, Answers
<1>4. CASE InitializeCheckout(s)
  <2>1. running' = running
    BY <1>4 DEF InitializeCheckout, HasLoop, GivesUpLoop, WaitInv, LockTypeOK
  <2>2. QED
    BY <1>4, <2>1, ContinuationKeepsWaitInv DEF InitializeCheckout, Steps
<1>5. CASE OpenPayment(s)
  <2>1. running' = running
    BY <1>5 DEF OpenPayment, WaitInv, LockTypeOK, LoopsBelongToTheirRequests
  <2>2. QED
    BY <1>5, <2>1, ContinuationKeepsWaitInv DEF OpenPayment, Steps
<1>6. CASE LoadForStatus(s)
  <2>1. [payments |-> {}, paid |-> request[s].order \in paid] \in Load
    BY DEF Load
  <2>2. QED
    BY <1>6, <2>1, StartKeepsWaitInv DEF LoadForStatus
<1>7. CASE UpdateStatus(s)
  BY <1>7, StatementKeepsWaitInv DEF UpdateStatus, Successions, Steps
<1>8. CASE CommitRequest(s)
  BY <1>8, RefusalKeepsWaitInv DEF CommitRequest, HasLoop, Answers
<1>9. CASE Reject(s)
  BY <1>9, RefusalKeepsWaitInv DEF Reject, HasLoop, Answers
<1>10. QED
  BY <1>1, <1>2, <1>3, <1>4, <1>5, <1>6, <1>7, <1>8, <1>9

(***************************************************************************)
(* In every state the locks and the event loops are where the place of     *)
(* their requests says.                                                    *)
(***************************************************************************)
THEOREM WaitInvCorrect == Spec => []WaitInv
<1>1. Init => WaitInv
  BY HomeAssumption
     DEF Init, WaitInv, LockTypeOK, Steps, Load, Answers, LocksHaveTheirPlace,
         LoopsBelongToTheirRequests, StepsFitTheirRequests, WebhookSteps
<1>2. WaitInv /\ [Next]_vars => WaitInv'
  <2> SUFFICES ASSUME WaitInv, [Next]_vars
               PROVE  WaitInv'
    OBVIOUS
  <2>1. CASE UNCHANGED vars
    BY <2>1 DEF vars, WaitInv, LockTypeOK, LocksHaveTheirPlace,
                LoopsBelongToTheirRequests, StepsFitTheirRequests
  <2>2. ASSUME NEW s \in Sessions, Proceed(s) \/ Reject(s)
        PROVE  WaitInv'
    BY <2>2, WebhookKeepsWaitInv, RequestKeepsWaitInv DEF Proceed
  <2>3. QED
    BY <2>1, <2>2 DEF Next, Finished
<1>3. QED
  BY <1>1, <1>2, PTL DEF Spec

(* LockTypeOK: every variable of RowLocks keeps its type, and no event     *)
(* loop runs two coroutines, for any number of requests and workers.       *)
THEOREM LocksTypeCorrect == Spec => []LockTypeOK
<1>1. WaitInv => LockTypeOK
  BY DEF WaitInv
<1>2. QED
  BY <1>1, WaitInvCorrect, PTL

-------------------------------------------------------------------------------
(* Circles                                                                 *)

(* Whoever waits is behind whom it waits for.                              *)
LEMMA WaitersAreBehind ==
  ASSUME WaitInv, NEW s \in Sessions, NEW t \in Sessions, WaitsFor(s, t)
  PROVE  Place(step[s]) < Place(step[t])
<1>1. step[s] \in Steps /\ step[t] \in Steps /\ Home[s] \in Workers
  BY HomeAssumption DEF WaitInv, LockTypeOK
<1>2. CASE t \in running[Home[s]]
  <2>1. step[s] = "waiting"
    BY <1>1, <1>2 DEF WaitsFor, WaitInv, LoopsBelongToTheirRequests
  <2>2. step[t] \notin {"waiting", "done"}
    BY <1>1, <1>2 DEF WaitInv, LoopsBelongToTheirRequests
  <2>3. QED
    BY <1>1, <2>1, <2>2 DEF Steps, Place
<1>3. CASE t \in Blockers(s)
  <2>1. PICK l \in locks, w \in Wanted(s) :
           l.session = t /\ l.row = w[1] /\ Conflict(l.mode, w[2])
    BY <1>3 DEF Blockers
  <2>2. /\ l.row.table = "payment_webhook_events" => Place(step[t]) >= 2
        /\ l.row.table = "payments" => Place(step[t]) >= 4
        /\ l.row.table = "orders" /\ l.mode = "key_share" => Place(step[t]) >= 3
        /\ l.row.table = "orders" /\ l.mode # "key_share" => Place(step[t]) >= 5
    BY <2>1 DEF WaitInv, LocksHaveTheirPlace
  <2>3. Place(step[t]) \in Nat
    BY <1>1 DEF Place
  <2>4. CASE step[s] = "claim"
    BY <2>1, <2>2, <2>3, <2>4 DEF Wanted, EventRow, Place
  <2>5. CASE step[s] = "reference"
    <3>1. l.row.table = "orders" /\ Conflict(l.mode, "key_share")
      BY <2>1, <2>5 DEF Wanted, OrderRow
    <3>2. l.mode = "update"
      BY <3>1 DEF Conflict
    <3>3. QED
      BY <2>2, <2>3, <2>5, <3>1, <3>2 DEF Place
  <2>6. CASE step[s] = "pay"
    BY <2>1, <2>2, <2>3, <2>6 DEF Wanted, PaymentRow, Place
  <2>7. CASE step[s] = "lock"
    <3>1. l.row.table = "orders"
      BY <2>1, <2>7 DEF Wanted, OrderRow
    <3>2. Place(step[t]) >= 3
      BY <2>2, <2>3, <3>1
    <3>3. QED
      BY <2>3, <2>7, <3>2 DEF Place
  <2>8. CASE step[s] \in {"confirm", "update", "handoff"}
    <3>1. l.row.table = "orders" /\ Conflict(l.mode, Written)
      BY <2>1, <2>8 DEF Wanted, OrderRow
    <3>2. l.mode # "key_share"
      BY <3>1 DEF Conflict, Written
    <3>3. QED
      BY <2>2, <2>3, <2>8, <3>1, <3>2 DEF Place
  <2>9. CASE step[s] \notin {"claim", "reference", "pay", "lock", "confirm", "update", "handoff"}
    BY <2>1, <2>9 DEF Wanted
  <2>10. QED
    BY <2>4, <2>5, <2>6, <2>7, <2>8, <2>9
<1>4. QED
  BY <1>2, <1>3 DEF WaitsFor

(***************************************************************************)
(* NobodyWaitsInACircle: however many requests meet on however many        *)
(* orders, one of any of them waits for none of the others, since one has  *)
(* come furthest.                                                          *)
(***************************************************************************)
THEOREM CirclesAreImpossible == Spec => []NobodyWaitsInACircle
<1>1. WaitInv => NobodyWaitsInACircle
  <2> SUFFICES ASSUME WaitInv, NEW circle \in (SUBSET Sessions) \ {{}}
               PROVE  \E s \in circle : \A t \in circle : ~WaitsFor(s, t)
    BY DEF NobodyWaitsInACircle
  <2> DEFINE left == {5 - Place(step[s]) : s \in circle}
  <2>1. \A s \in circle : Place(step[s]) \in 0 .. 5
    BY DEF WaitInv, LockTypeOK, Steps, Place
  <2>2. left \in SUBSET Nat /\ left # {}
    BY <2>1
  <2>3. PICK m \in left : \A n \in left : <<n, m>> \notin OpToRel(<, Nat)
    BY <2>2, NatLessThanWellFounded, WFMin, Zenon
  <2>4. \A n \in left : ~ (n < m)
    BY <2>2, <2>3 DEF OpToRel
  <2>5. PICK s \in circle : m = 5 - Place(step[s])
    BY <2>3
  <2>6. ASSUME NEW t \in circle
        PROVE  ~ (Place(step[s]) < Place(step[t]))
    <3> DEFINE here == Place(step[s])
               there == Place(step[t])
    <3>1. here \in 0 .. 5 /\ there \in 0 .. 5
      BY <2>1
    <3>2. ~ (5 - there < 5 - here)
      BY <2>4, <2>5
    <3> HIDE DEF here, there
    <3>3. ~ (here < there)
      BY <3>1, <3>2
    <3>4. QED
      BY <3>3 DEF here, there
  <2>7. QED
    BY <2>6, WaitersAreBehind
<1>2. QED
  BY <1>1, WaitInvCorrect, PTL

-------------------------------------------------------------------------------
(* Replays and shared references                                           *)

(* What a step of s leaves behind, whichever it is.                        *)
LEMMA StepEffects ==
  ASSUME LockTypeOK, NEW s \in Sessions, Proceed(s) \/ Reject(s)
  PROVE  /\ UNCHANGED request
         /\ claimed \subseteq claimed'
         /\ \A r \in Sessions \ {s} :
              step'[r] = step[r] /\ answer'[r] = answer[r] /\ loaded'[r] = loaded[r]
         /\ answer'[s] = "replayed_event" =>
              answer[s] = "replayed_event" \/ request[s].event \in claimed
         /\ request[s].kind = "webhook" =>
              loaded'[s] = loaded[s] \/ loaded'[s].payments \subseteq {KeyOf(s)}
         /\ step[s] = "commit" /\ request[s].kind = "webhook" =>
              payments' \subseteq payments \cup {KeyOf(s)}
<1> USE DEF LockTypeOK, Respond, Refuse, Continue, Start, Runs
<1>1. CASE LoadForWebhook(s)
  BY <1>1 DEF LoadForWebhook, UsesFreeReference
<1>2. CASE RefuseReference(s) \/ RefuseCheckout(s) \/ EndHandoff(s) \/ CommitRequest(s) \/ Reject(s)
  BY <1>2 DEF RefuseReference, RefuseCheckout, EndHandoff, CommitRequest, Reject
<1>3. CASE Claim(s)
  BY <1>3 DEF Claim
<1>4. CASE ReferToOrder(s) \/ KeepPayment(s) \/ ConfirmOrder(s) \/ RecordHandoff(s)
           \/ LockOrder(s) \/ UpdateStatus(s)
  BY <1>4 DEF ReferToOrder, KeepPayment, ConfirmOrder, RecordHandoff, LockOrder, UpdateStatus
<1>5. CASE WritePayment(s)
  BY <1>5 DEF WritePayment
<1>6. CASE CommitWebhook(s)
  BY <1>6 DEF CommitWebhook
<1>7. CASE ReceiveInitialization(s) \/ LoadForStatus(s)
  BY <1>7 DEF ReceiveInitialization, LoadForStatus
<1>8. CASE InitializeCheckout(s) \/ OpenPayment(s)
  BY <1>8 DEF InitializeCheckout, OpenPayment
<1>9. QED
  BY <1>1, <1>2, <1>3, <1>4, <1>5, <1>6, <1>7, <1>8 DEF Proceed

(***************************************************************************)
(* ReplayedEventsHaveActed: whoever is told of a replay can rely on a      *)
(* committed session that claimed the event.                               *)
(***************************************************************************)
THEOREM ReplaysAreOfCommittedEvents == Spec => []ReplayedEventsHaveActed
<1>1. Init => ReplayedEventsHaveActed
  BY DEF Init, ReplayedEventsHaveActed
<1>2. LockTypeOK /\ ReplayedEventsHaveActed /\ [Next]_vars => ReplayedEventsHaveActed'
  <2> SUFFICES ASSUME LockTypeOK, ReplayedEventsHaveActed, [Next]_vars
               PROVE  ReplayedEventsHaveActed'
    OBVIOUS
  <2>1. CASE UNCHANGED vars
    BY <2>1 DEF vars, ReplayedEventsHaveActed
  <2>2. ASSUME NEW s \in Sessions, Proceed(s) \/ Reject(s)
        PROVE  ReplayedEventsHaveActed'
    BY <2>2, StepEffects DEF ReplayedEventsHaveActed
  <2>3. QED
    BY <2>1, <2>2 DEF Next, Finished
<1>3. QED
  BY <1>1, <1>2, LocksTypeCorrect, PTL DEF Spec

(* What a webhook has read of its reference is its own order's.            *)
ReadsAreOfOneOrder ==
  \A s \in Sessions :
    request[s].kind = "webhook" => loaded[s].payments \subseteq {KeyOf(s)}

(***************************************************************************)
(* SharedReferencesOverlapped: a second order gets a payment of a          *)
(* reference only if the first one's was committed after its session had   *)
(* looked.                                                                 *)
(***************************************************************************)
THEOREM SharedReferencesNeedOverlap == Spec => SharedReferencesOverlapped
<1>1. Init => ReadsAreOfOneOrder
  BY DEF Init, ReadsAreOfOneOrder
<1>2. LockTypeOK /\ ReadsAreOfOneOrder /\ [Next]_vars => ReadsAreOfOneOrder'
  <2> SUFFICES ASSUME LockTypeOK, ReadsAreOfOneOrder, [Next]_vars
               PROVE  ReadsAreOfOneOrder'
    OBVIOUS
  <2>1. CASE UNCHANGED vars
    BY <2>1 DEF vars, ReadsAreOfOneOrder, KeyOf
  <2>2. ASSUME NEW s \in Sessions, Proceed(s) \/ Reject(s)
        PROVE  ReadsAreOfOneOrder'
    BY <2>2, StepEffects DEF ReadsAreOfOneOrder, KeyOf
  <2>3. QED
    BY <2>1, <2>2 DEF Next, Finished
<1> DEFINE Overlapped ==
  \A s \in Sessions, k \in payments' \ payments, other \in payments :
    /\ step[s] = "commit" /\ request[s].kind = "webhook"
    /\ step'[s] # step[s]
    /\ other.reference = k.reference /\ other.order # k.order
    => other \notin loaded[s].payments
<1>3. LockTypeOK /\ ReadsAreOfOneOrder /\ [Next]_vars => [Overlapped]_vars
  <2> SUFFICES ASSUME LockTypeOK, ReadsAreOfOneOrder, [Next]_vars,
                      NEW s \in Sessions, NEW k \in payments' \ payments,
                      NEW other \in payments,
                      step[s] = "commit", request[s].kind = "webhook",
                      step'[s] # step[s], other.order # k.order
               PROVE  other \notin loaded[s].payments
    OBVIOUS
  <2>1. PICK r \in Sessions : Proceed(r) \/ Reject(r)
    BY DEF Next, Finished, vars
  <2>2. r = s
    BY <2>1, StepEffects
  <2>3. k = KeyOf(s)
    BY <2>1, <2>2, StepEffects
  <2>4. QED
    BY <2>3 DEF ReadsAreOfOneOrder
<1>4. QED
  BY <1>1, <1>2, <1>3, LocksTypeCorrect, PTL DEF Spec, SharedReferencesOverlapped
-------------------------------------------------------------------------------
(* What the locks keep                                                     *)

(* No two transactions have conflicting locks on one row.                  *)
LocksExclude ==
  \A l, k \in locks :
    l.row = k.row /\ l.session # k.session => ~Conflict(l.mode, k.mode)

Holds(s, row, mode) == [session |-> s, row |-> row, mode |-> mode] \in locks

(* A webhook in flight has its event id for itself, and it is a new one.   *)
ClaimIsKept(s) ==
  /\ request[s].kind = "webhook"
  /\ step[s] \in {"reference", "pay", "confirm", "commit"}
  => /\ Holds(s, EventRow(request[s].event), Written)
     /\ request[s].event \notin claimed

(* The payment that a webhook inserts is not there before it commits.      *)
PaymentIsNew(s) ==
  request[s].kind = "webhook" /\ step[s] \in {"confirm", "commit"}
  => \/ KeyOf(s) \in loaded[s].payments
     \/ Holds(s, PaymentRow(KeyOf(s)), Written) /\ KeyOf(s) \notin payments

(* A webhook that commits a confirmation has the row of its order.         *)
ConfirmationIsHeld(s) ==
  step[s] = "commit" /\ ConfirmsOrder(s)
  => Holds(s, OrderRow(request[s].order), Written)

(* An order that is locked for a checkout stays unpaid.                    *)
CheckoutIsOfUnpaidOrder(s) ==
  request[s].kind = "initialize" /\ step[s] \in {"checkout", "open", "commit"}
  => /\ Holds(s, OrderRow(request[s].order), "update")
     /\ request[s].order \notin paid

StepFitsKind(s) ==
  /\ step[s] = "update" => request[s].kind = "status"
  /\ step[s] \in {"lock", "checkout", "open"} => request[s].kind = "initialize"

ReadsAreCommitted(s) == loaded[s].payments \subseteq payments

Keeps(s) ==
  /\ ClaimIsKept(s) /\ PaymentIsNew(s) /\ ConfirmationIsHeld(s)
  /\ CheckoutIsOfUnpaidOrder(s) /\ StepFitsKind(s) /\ ReadsAreCommitted(s)

HoldInv == LocksExclude /\ \A s \in Sessions : Keeps(s)

LEMMA ConflictIsMutual ==
  ASSUME NEW a, NEW b, Conflict(a, b)
  PROVE  Conflict(b, a)
BY DEF Conflict

(* Neither of two who want to write a row, nor one who locked it for       *)
(* update and one who wants to write it, is let in beside the other.       *)
LEMMA WritersExclude ==
  ASSUME LocksExclude, NEW s, NEW r, s # r, NEW row,
         NEW mode \in {Written, "update"},
         Holds(s, row, Written)
  PROVE  ~Holds(r, row, mode)
<1>1. Conflict(Written, mode)
  BY DEF Conflict, Written
<1>2. SUFFICES ASSUME Holds(r, row, mode)
               PROVE  FALSE
  OBVIOUS
<1> DEFINE mine == [session |-> s, row |-> row, mode |-> Written]
           other == [session |-> r, row |-> row, mode |-> mode]
<1>3. mine \in locks /\ other \in locks
  BY <1>2 DEF Holds
<1>4. mine.row = other.row /\ mine.session # other.session
  OBVIOUS
<1>5. mine.mode = Written /\ other.mode = mode
  OBVIOUS
<1> HIDE DEF mine, other
<1>6. ~Conflict(mine.mode, other.mode)
  BY <1>3, <1>4 DEF LocksExclude
<1>7. QED
  BY <1>1, <1>5, <1>6

(* A statement that waits for nobody takes no lock against another's.      *)
LEMMA TakingExcludes ==
  ASSUME LockTypeOK, NEW s \in Sessions, Blockers(s) = {}, TakeWanted(s)
  PROVE  /\ locks \subseteq locks'
         /\ \A l \in locks' \ locks :
              /\ l.session = s
              /\ \A k \in locks :
                   k.row = l.row /\ k.session # s => ~Conflict(k.mode, l.mode)
<1>1. locks' = locks \cup {[session |-> s, row |-> w[1], mode |-> w[2]] : w \in Wanted(s)}
  BY DEF TakeWanted
<1>2. ASSUME NEW l \in locks' \ locks
      PROVE  /\ l.session = s
             /\ \A k \in locks :
                  k.row = l.row /\ k.session # s => ~Conflict(k.mode, l.mode)
  <2>1. PICK w \in Wanted(s) : l = [session |-> s, row |-> w[1], mode |-> w[2]]
    BY <1>1
  <2>2. l.session = s /\ l.row = w[1] /\ l.mode = w[2]
    BY <2>1
  <2>3. ASSUME NEW k \in locks, k.row = w[1], k.session # s, Conflict(k.mode, w[2])
        PROVE  FALSE
    <3>1. k.session \in Blockers(s)
      BY <2>3 DEF Blockers
    <3>2. QED
      BY <3>1
  <2>4. QED
    BY <2>2, <2>3
<1>3. QED
  BY <1>1, <1>2

(* What a step of s does to the locks, and to what others rely on.         *)
StepOf(s) ==
  /\ request' = request
  /\ \A r \in Sessions \ {s} : step'[r] = step[r] /\ loaded'[r] = loaded[r]
  /\ \A l \in locks : l.session # s => l \in locks'
  /\ \A l \in locks' \ locks :
       /\ l.session = s
       /\ \A k \in locks :
            k.row = l.row /\ k.session # s => ~Conflict(k.mode, l.mode)
  /\ \A e \in claimed' \ claimed : Holds(s, EventRow(e), Written)
  /\ \A k \in payments' \ payments : Holds(s, PaymentRow(k), Written)
  /\ \A o \in paid' \ paid : Holds(s, OrderRow(o), Written)
  /\ payments \subseteq payments'

LEMMA StepKeepsLocksApart ==
  ASSUME LocksExclude, NEW s \in Sessions, StepOf(s)
  PROVE  LocksExclude'
<1> SUFFICES ASSUME NEW l \in locks', NEW k \in locks',
                    l.row = k.row, l.session # k.session
             PROVE  ~Conflict(l.mode, k.mode)
  BY DEF LocksExclude
<1>1. CASE l \in locks /\ k \in locks
  BY <1>1 DEF LocksExclude
<1>2. CASE l \notin locks /\ k \notin locks
  BY <1>2 DEF StepOf
<1>3. CASE l \in locks /\ k \notin locks
  BY <1>3 DEF StepOf
<1>4. CASE l \notin locks /\ k \in locks
  BY <1>4, ConflictIsMutual DEF StepOf
<1>5. QED
  BY <1>1, <1>2, <1>3, <1>4

LEMMA StepKeepsOthers ==
  ASSUME LockTypeOK, HoldInv, NEW s \in Sessions, StepOf(s),
         NEW r \in Sessions, r # s
  PROVE  Keeps(r)'
<1>1. /\ step'[r] = step[r] /\ loaded'[r] = loaded[r] /\ request' = request
      /\ payments \subseteq payments' /\ LocksExclude /\ Keeps(r)
  BY DEF StepOf, HoldInv
<1>2. \A row, mode : Holds(r, row, mode) => Holds(r, row, mode)'
  BY DEF StepOf, Holds
<1>3. KeyOf(r)' = KeyOf(r) /\ ConfirmsOrder(r)' = ConfirmsOrder(r)
  BY <1>1 DEF KeyOf, ConfirmsOrder
<1>4. \A e \in claimed' \ claimed : ~Holds(r, EventRow(e), Written)
  BY <1>1, WritersExclude DEF StepOf
<1>5. \A k \in payments' \ payments : ~Holds(r, PaymentRow(k), Written)
  BY <1>1, WritersExclude DEF StepOf
<1>6. \A o \in paid' \ paid : ~Holds(r, OrderRow(o), "update")
  BY <1>1, WritersExclude DEF StepOf
<1>7. ClaimIsKept(r)'
  BY <1>1, <1>2, <1>4 DEF Keeps, ClaimIsKept
<1>8. PaymentIsNew(r)'
  BY <1>1, <1>2, <1>3, <1>5 DEF Keeps, PaymentIsNew
<1>9. ConfirmationIsHeld(r)'
  BY <1>1, <1>2, <1>3 DEF Keeps, ConfirmationIsHeld
<1>10. CheckoutIsOfUnpaidOrder(r)'
  BY <1>1, <1>2, <1>6 DEF Keeps, CheckoutIsOfUnpaidOrder
<1>11. StepFitsKind(r)' /\ ReadsAreCommitted(r)'
  BY <1>1 DEF Keeps, StepFitsKind, ReadsAreCommitted
<1>12. QED
  BY <1>7, <1>8, <1>9, <1>10, <1>11 DEF Keeps

LEMMA StatementKeepsHolds ==
  ASSUME WaitInv, HoldInv, NEW s \in Sessions, NEW m \in Steps, NEW n \in Steps,
         Runs(s, m), TakeWanted(s), Continue(s, n),
         <<m, n>> \in Successions,
         n = "reference" => request[s].event \notin claimed,
         m = "pay" => n = AfterPayment(s) /\ KeyOf(s) \notin payments \ loaded[s].payments,
         n = "checkout" => request[s].order \notin paid
  PROVE  HoldInv'
<1>1. /\ step[s] = m /\ step' = [step EXCEPT ![s] = n]
      /\ UNCHANGED <<request, loaded, running, payments, claimed, paid, answer>>
      /\ Blockers(s) = {} /\ LockTypeOK /\ LocksExclude /\ Keeps(s)
  BY DEF Runs, Continue, WaitInv, HoldInv
<1>2. /\ locks \subseteq locks'
      /\ locks' = locks \cup {[session |-> s, row |-> w[1], mode |-> w[2]] : w \in Wanted(s)}
  BY <1>1, TakingExcludes DEF TakeWanted
<1>3. StepOf(s)
  BY <1>1, <1>2, TakingExcludes DEF StepOf, LockTypeOK
<1>4. /\ step'[s] = n /\ KeyOf(s)' = KeyOf(s) /\ ConfirmsOrder(s)' = ConfirmsOrder(s)
      /\ \A row, mode : Holds(s, row, mode) => Holds(s, row, mode)'
      /\ \A row, mode : <<row, mode>> \in Wanted(s) => Holds(s, row, mode)'
  <2>1. \A row, mode : <<row, mode>> \in Wanted(s) => Holds(s, row, mode)'
    <3> SUFFICES ASSUME NEW row, NEW mode, <<row, mode>> \in Wanted(s)
                 PROVE  [session |-> s, row |-> row, mode |-> mode] \in locks'
      BY DEF Holds
    <3> DEFINE w == <<row, mode>>
    <3>1. [session |-> s, row |-> w[1], mode |-> w[2]] \in locks'
      BY <1>2
    <3>2. w[1] = row /\ w[2] = mode
      OBVIOUS
    <3>3. QED
      BY <3>1, <3>2
  <2>2. QED
    BY <1>1, <1>2, <2>1 DEF KeyOf, ConfirmsOrder, Holds, LockTypeOK
<1>5. ClaimIsKept(s)'
  <2>1. CASE m = "claim"
    <3>1. n = "reference" /\ <<EventRow(request[s].event), Written>> \in Wanted(s)
      BY <1>1, <2>1 DEF Successions, Wanted
    <3>2. QED
      BY <1>1, <1>4, <3>1 DEF ClaimIsKept
  <2>2. CASE m \in {"reference", "pay", "confirm"}
    BY <1>1, <1>4, <2>2 DEF Keeps, ClaimIsKept
  <2>3. CASE m \in {"lock", "handoff"}
    BY <1>1, <1>4, <2>3 DEF ClaimIsKept, Successions
  <2>4. CASE m = "update"
    BY <1>1, <1>4, <2>4 DEF ClaimIsKept, Keeps, StepFitsKind
  <2>5. QED
    BY <2>1, <2>2, <2>3, <2>4 DEF Successions
<1>6. PaymentIsNew(s)'
  <2>1. CASE m = "pay"
    <3>1. <<PaymentRow(KeyOf(s)), Written>> \in Wanted(s)
      BY <1>1, <2>1 DEF Wanted
    <3>2. QED
      BY <1>1, <1>4, <2>1, <3>1 DEF PaymentIsNew
  <2>2. CASE m = "confirm"
    BY <1>1, <1>4, <2>2 DEF Keeps, PaymentIsNew
  <2>3. CASE m = "update"
    BY <1>1, <1>4, <2>3 DEF PaymentIsNew, Keeps, StepFitsKind
  <2>4. CASE n \notin {"confirm", "commit"}
    BY <1>4, <2>4 DEF PaymentIsNew
  <2>5. QED
    BY <2>1, <2>2, <2>3, <2>4 DEF Successions
<1>7. ConfirmationIsHeld(s)'
  <2>1. CASE m = "confirm"
    <3>1. <<OrderRow(request[s].order), Written>> \in Wanted(s)
      BY <1>1, <2>1 DEF Wanted
    <3>2. QED
      BY <1>1, <1>4, <3>1 DEF ConfirmationIsHeld
  <2>2. CASE m = "pay"
    BY <1>1, <1>4, <2>2 DEF ConfirmationIsHeld, AfterPayment
  <2>3. CASE m = "update"
    BY <1>1, <1>4, <2>3 DEF ConfirmationIsHeld, ConfirmsOrder, Keeps, StepFitsKind
  <2>4. CASE n # "commit"
    BY <1>4, <2>4 DEF ConfirmationIsHeld
  <2>5. QED
    BY <2>1, <2>2, <2>3, <2>4 DEF Successions
<1>8. CheckoutIsOfUnpaidOrder(s)'
  <2>1. CASE m = "lock"
    <3>1. <<OrderRow(request[s].order), "update">> \in Wanted(s) /\ n = "checkout"
      BY <1>1, <2>1 DEF Wanted, Successions
    <3>2. QED
      BY <1>1, <1>4, <3>1 DEF CheckoutIsOfUnpaidOrder
  <2>2. CASE m \in {"pay", "confirm"}
    BY <1>1, <2>2 DEF CheckoutIsOfUnpaidOrder, WaitInv, StepsFitTheirRequests, WebhookSteps
  <2>3. CASE m = "update"
    BY <1>1, <2>3 DEF CheckoutIsOfUnpaidOrder, Keeps, StepFitsKind
  <2>4. CASE n \notin {"checkout", "open", "commit"}
    BY <1>4, <2>4 DEF CheckoutIsOfUnpaidOrder
  <2>5. QED
    BY <2>1, <2>2, <2>3, <2>4 DEF Successions
<1>9. StepFitsKind(s)' /\ ReadsAreCommitted(s)'
  BY <1>1, <1>4 DEF StepFitsKind, ReadsAreCommitted, Keeps, Successions
<1>10. Keeps(s)'
  BY <1>5, <1>6, <1>7, <1>8, <1>9 DEF Keeps
<1>11. QED
  BY <1>1, <1>3, <1>10, StepKeepsLocksApart, StepKeepsOthers DEF HoldInv

(* A request that ends, or gives up its locks, and commits what it holds.  *)
LEMMA EndKeepsHolds ==
  ASSUME LockTypeOK, HoldInv, NEW s \in Sessions,
         NEW n \in {"done", "handoff"},
         request' = request, loaded' = loaded,
         step' = [step EXCEPT ![s] = n],
         locks' = locks \ LocksOf(s),
         payments \subseteq payments',
         \A e \in claimed' \ claimed : Holds(s, EventRow(e), Written),
         \A k \in payments' \ payments : Holds(s, PaymentRow(k), Written),
         \A o \in paid' \ paid : Holds(s, OrderRow(o), Written)
  PROVE  HoldInv'
<1>1. StepOf(s)
  BY DEF StepOf, LockTypeOK, LocksOf
<1>2. step'[s] = n
  BY DEF LockTypeOK
<1>3. Keeps(s)'
  BY <1>2 DEF HoldInv, Keeps, ClaimIsKept, PaymentIsNew, ConfirmationIsHeld,
              CheckoutIsOfUnpaidOrder, StepFitsKind, ReadsAreCommitted
<1>4. QED
  BY <1>1, <1>3, StepKeepsLocksApart, StepKeepsOthers DEF HoldInv

LEMMA RefusalKeepsHolds ==
  ASSUME LockTypeOK, HoldInv, NEW s \in Sessions, NEW code, Refuse(s, code)
  PROVE  HoldInv'
BY EndKeepsHolds DEF Refuse, Respond

LEMMA StartKeepsHolds ==
  ASSUME LockTypeOK, HoldInv, NEW s \in Sessions, NEW read \in Load,
         NEW n \in {"claim", "lock", "update"},
         n = "update" => request[s].kind = "status",
         n = "lock" => request[s].kind = "initialize",
         read.payments \subseteq payments,
         Start(s, n, read)
  PROVE  HoldInv'
<1>1. /\ step' = [step EXCEPT ![s] = n] /\ loaded' = [loaded EXCEPT ![s] = read]
      /\ UNCHANGED <<request, locks, payments, claimed, paid>>
  BY DEF Start
<1>2. StepOf(s)
  BY <1>1 DEF StepOf, LockTypeOK
<1>3. step'[s] = n /\ loaded'[s] = read
  BY <1>1 DEF LockTypeOK
<1>4. Keeps(s)'
  BY <1>1, <1>3 DEF Keeps, ClaimIsKept, PaymentIsNew, ConfirmationIsHeld,
              CheckoutIsOfUnpaidOrder, StepFitsKind, ReadsAreCommitted
<1>5. QED
  BY <1>2, <1>4, StepKeepsLocksApart, StepKeepsOthers DEF HoldInv

(* A step that takes no lock.                                              *)
LEMMA ContinuationKeepsHolds ==
  ASSUME LockTypeOK, HoldInv, NEW s \in Sessions, NEW n \in Steps,
         <<step[s], n>> \in {<<"pay", "commit">>, <<"checkout", "open">>, <<"open", "commit">>},
         step[s] = "pay" => /\ request[s].kind = "webhook"
                            /\ loaded[s].paid /\ KeyOf(s) \in loaded[s].payments,
         step' = [step EXCEPT ![s] = n],
         UNCHANGED <<request, loaded, locks, payments, claimed, paid>>
  PROVE  HoldInv'
<1>1. StepOf(s)
  BY DEF StepOf, LockTypeOK
<1>2. step'[s] = n
  BY DEF LockTypeOK
<1>3. Keeps(s) /\ KeyOf(s)' = KeyOf(s) /\ ConfirmsOrder(s)' = ConfirmsOrder(s)
  BY DEF HoldInv, KeyOf, ConfirmsOrder
<1>4. \A row, mode : Holds(s, row, mode)' = Holds(s, row, mode)
  BY DEF Holds
<1>5. ClaimIsKept(s)'
  BY <1>2, <1>3, <1>4 DEF Keeps, ClaimIsKept, StepFitsKind
<1>6. PaymentIsNew(s)' /\ ConfirmationIsHeld(s)'
  BY <1>2, <1>3, <1>4
     DEF PaymentIsNew, ConfirmationIsHeld, ConfirmsOrder, Keeps, StepFitsKind
<1>7. CheckoutIsOfUnpaidOrder(s)'
  BY <1>2, <1>3, <1>4 DEF Keeps, CheckoutIsOfUnpaidOrder
<1>8. StepFitsKind(s)' /\ ReadsAreCommitted(s)'
  BY <1>2, <1>3 DEF Keeps, StepFitsKind, ReadsAreCommitted
<1>9. Keeps(s)'
  BY <1>5, <1>6, <1>7, <1>8 DEF Keeps
<1>10. QED
  BY <1>1, <1>9, StepKeepsLocksApart, StepKeepsOthers DEF HoldInv

LEMMA WebhookKeepsHolds ==
  ASSUME WaitInv, HoldInv, NEW s \in Sessions,
         \/ LoadForWebhook(s) \/ RefuseReference(s)
         \/ Claim(s) \/ ReferToOrder(s) \/ WritePayment(s) \/ KeepPayment(s)
         \/ ConfirmOrder(s) \/ CommitWebhook(s) \/ RecordHandoff(s) \/ EndHandoff(s)
  PROVE  HoldInv'
<1>1. LockTypeOK /\ StepsFitTheirRequests
  BY DEF WaitInv
<1>2. CASE LoadForWebhook(s)
  <2> DEFINE read == [payments |-> ReferencedBy(request[s].reference),
                      paid |-> request[s].order \in paid]
  <2>1. read \in Load /\ read.payments \subseteq payments
    BY <1>1 DEF Load, ReferencedBy, LockTypeOK
  <2>2. Start(s, "claim", read)
    BY <1>2 DEF LoadForWebhook
  <2> HIDE DEF read
  <2>3. QED
    BY <1>1, <2>1, <2>2, StartKeepsHolds
<1>3. CASE RefuseReference(s) \/ EndHandoff(s)
  BY <1>1, <1>3, RefusalKeepsHolds DEF RefuseReference, EndHandoff
<1>4. CASE Claim(s)
  <2>1. CASE request[s].event \in claimed
    BY <1>1, <1>4, <2>1, RefusalKeepsHolds DEF Claim
  <2>2. CASE request[s].event \notin claimed
    BY <1>4, <2>2, StatementKeepsHolds DEF Claim, Successions, Steps
  <2>3. QED
    BY <2>1, <2>2
<1>5. CASE ReferToOrder(s)
  BY <1>5, StatementKeepsHolds DEF ReferToOrder, Successions, Steps
<1>6. CASE WritePayment(s)
  <2>1. CASE KeyOf(s) \in payments \ loaded[s].payments
    BY <1>1, <1>6, <2>1, RefusalKeepsHolds DEF WritePayment
  <2>2. CASE KeyOf(s) \notin payments \ loaded[s].payments
    <3>1. AfterPayment(s) \in {"confirm", "commit"}
      BY DEF AfterPayment
    <3>2. Runs(s, "pay") /\ TakeWanted(s) /\ Continue(s, AfterPayment(s))
      BY <1>6, <2>2 DEF WritePayment
    <3>3. QED
      BY <2>2, <3>1, <3>2, StatementKeepsHolds DEF Successions, Steps
  <2>3. QED
    BY <2>1, <2>2
<1>7. CASE KeepPayment(s)
  <2>1. request[s].kind = "webhook"
    BY <1>1, <1>7 DEF KeepPayment, StepsFitTheirRequests, WebhookSteps
  <2>2. QED
    BY <1>1, <1>7, <2>1, ContinuationKeepsHolds DEF KeepPayment, Continue, Steps
<1>8. CASE ConfirmOrder(s)
  BY <1>8, StatementKeepsHolds DEF ConfirmOrder, Successions, Steps
<1>9. CASE CommitWebhook(s)
  <2>1. /\ step[s] = "commit" /\ request[s].kind = "webhook"
        /\ claimed' = claimed \cup {request[s].event}
        /\ payments' = payments \cup {KeyOf(s)}
        /\ Keeps(s)
    BY <1>9 DEF CommitWebhook, HoldInv
  <2>2. \A e \in claimed' \ claimed : Holds(s, EventRow(e), Written)
    BY <2>1 DEF Keeps, ClaimIsKept
  <2>3. \A k \in payments' \ payments : Holds(s, PaymentRow(k), Written)
    BY <2>1 DEF Keeps, PaymentIsNew, ReadsAreCommitted
  <2>4. \A o \in paid' \ paid : Holds(s, OrderRow(o), Written)
    BY <1>9, <2>1 DEF CommitWebhook, Keeps, ConfirmationIsHeld
  <2>5. PICK n \in {"done", "handoff"} : step' = [step EXCEPT ![s] = n]
    BY <1>9 DEF CommitWebhook, Respond
  <2>6. locks' = locks \ LocksOf(s) /\ request' = request /\ loaded' = loaded
    BY <1>9 DEF CommitWebhook, Respond
  <2>7. QED
    BY <1>1, <2>1, <2>2, <2>3, <2>4, <2>5, <2>6, EndKeepsHolds
<1>10. CASE RecordHandoff(s)
  BY <1>10, StatementKeepsHolds DEF RecordHandoff, Successions, Steps
<1>11. QED
  BY <1>2, <1>3, <1>4, <1>5, <1>6, <1>7, <1>8, <1>9, <1>10

LEMMA RequestKeepsHolds ==
  ASSUME WaitInv, HoldInv, NEW s \in Sessions,
         \/ ReceiveInitialization(s) \/ LockOrder(s) \/ RefuseCheckout(s)
         \/ InitializeCheckout(s) \/ OpenPayment(s)
         \/ LoadForStatus(s) \/ UpdateStatus(s) \/ CommitRequest(s) \/ Reject(s)
  PROVE  HoldInv'
<1>1. LockTypeOK
  BY DEF WaitInv
<1>2. CASE ReceiveInitialization(s)
  <2>1. [payments |-> {}, paid |-> FALSE] \in Load
    BY DEF Load
  <2>2. QED
    BY <1>1, <1>2, <2>1, StartKeepsHolds DEF ReceiveInitialization
<1>3. CASE LockOrder(s)
  BY <1>3, StatementKeepsHolds DEF LockOrder, Successions, Steps
<1>4. CASE RefuseCheckout(s) \/ CommitRequest(s) \/ Reject(s)
  BY <1>1, <1>4, RefusalKeepsHolds DEF RefuseCheckout, CommitRequest, Reject
<1>5. CASE InitializeCheckout(s)
  BY <1>1, <1>5, ContinuationKeepsHolds DEF InitializeCheckout, Steps
<1>6. CASE OpenPayment(s)
  BY <1>1, <1>6, ContinuationKeepsHolds DEF OpenPayment, Steps
<1>7. CASE LoadForStatus(s)
  <2>1. [payments |-> {}, paid |-> request[s].order \in paid] \in Load
    BY DEF Load
  <2>2. QED
    BY <1>1, <1>7, <2>1, StartKeepsHolds DEF LoadForStatus
<1>8. CASE UpdateStatus(s)
  BY <1>8, StatementKeepsHolds DEF UpdateStatus, Successions, Steps
<1>9. QED
  BY <1>2, <1>3, <1>4, <1>5, <1>6, <1>7, <1>8

(***************************************************************************)
(* In every state no two transactions have conflicting locks on one row,   *)
(* whatever the requests; a webhook in flight is the only one with its     *)
(* event, which is new; the payment it inserts is new; and an order that   *)
(* an initialization has locked for its checkout is not confirmed by       *)
(* anybody before that checkout is committed or given up.                  *)
(***************************************************************************)
THEOREM LocksKeepTheirRows == Spec => []HoldInv
<1>1. Init => HoldInv
  BY DEF Init, HoldInv, LocksExclude, Keeps, ClaimIsKept, PaymentIsNew, ConfirmationIsHeld,
         CheckoutIsOfUnpaidOrder, StepFitsKind, ReadsAreCommitted
<1>2. WaitInv /\ HoldInv /\ [Next]_vars => HoldInv'
  <2> SUFFICES ASSUME WaitInv, HoldInv, [Next]_vars
               PROVE  HoldInv'
    OBVIOUS
  <2>1. CASE UNCHANGED vars
    BY <2>1 DEF vars, HoldInv, LocksExclude, Keeps, ClaimIsKept, PaymentIsNew,
                ConfirmationIsHeld, CheckoutIsOfUnpaidOrder, StepFitsKind,
                ReadsAreCommitted, Holds, KeyOf, ConfirmsOrder
  <2>2. ASSUME NEW s \in Sessions, Proceed(s) \/ Reject(s)
        PROVE  HoldInv'
    BY <2>2, WebhookKeepsHolds, RequestKeepsHolds DEF Proceed
  <2>3. QED
    BY <2>1, <2>2 DEF Next, Finished
<1>3. QED
  BY <1>1, <1>2, WaitInvCorrect, PTL DEF Spec

(***************************************************************************)
(* A webhook commits only an event that nobody committed before, and never *)
(* inserts a payment that is there: what it finds in the table it had read *)
(* before its first statement.                                             *)
(***************************************************************************)
WebhooksCommitNewEvents ==
  [][ \A s \in Sessions :
        /\ step[s] = "commit" /\ request[s].kind = "webhook"
        /\ step'[s] = "handoff" \/ answer'[s] = "committed"
        => /\ request[s].event \notin claimed
           /\ KeyOf(s) \in payments => KeyOf(s) \in loaded[s].payments
    ]_vars

THEOREM EventsAreCommittedOnce == Spec => WebhooksCommitNewEvents
<1> DEFINE New ==
  \A s \in Sessions :
    /\ step[s] = "commit" /\ request[s].kind = "webhook"
    /\ step'[s] = "handoff" \/ answer'[s] = "committed"
    => /\ request[s].event \notin claimed
       /\ KeyOf(s) \in payments => KeyOf(s) \in loaded[s].payments
<1>1. HoldInv => [New]_vars
  BY DEF HoldInv, Keeps, ClaimIsKept, PaymentIsNew
<1>2. QED
  BY <1>1, LocksKeepTheirRows, PTL DEF WebhooksCommitNewEvents

-------------------------------------------------------------------------------
(* Towards an answer                                                       *)

(***************************************************************************)
(* Unless all requests are answered, one of them waits for nobody: neither *)
(* for a row lock nor for the event loop of its worker.                    *)
(***************************************************************************)
SomebodyIsNotWaiting ==
  \/ \A s \in Sessions : step[s] = "done"
  \/ \E s \in Sessions : step[s] # "done" /\ \A t \in Sessions : ~WaitsFor(s, t)

THEOREM SomebodyGoesOn == Spec => []SomebodyIsNotWaiting
<1>1. WaitInv /\ NobodyWaitsInACircle => SomebodyIsNotWaiting
  <2> SUFFICES ASSUME WaitInv, NobodyWaitsInACircle,
                      NEW u \in Sessions, step[u] # "done"
               PROVE  \E s \in Sessions :
                        step[s] # "done" /\ \A t \in Sessions : ~WaitsFor(s, t)
    BY DEF SomebodyIsNotWaiting
  <2> DEFINE unanswered == {s \in Sessions : step[s] # "done"}
  <2>1. unanswered \in (SUBSET Sessions) \ {{}}
    OBVIOUS
  <2>2. PICK s \in unanswered : \A t \in unanswered : ~WaitsFor(s, t)
    BY <2>1 DEF NobodyWaitsInACircle
  <2>3. ASSUME NEW t \in Sessions, WaitsFor(s, t)
        PROVE  step[t] # "done"
    <3>1. CASE t \in running[Home[s]]
      BY <3>1, HomeAssumption DEF WaitInv, LoopsBelongToTheirRequests
    <3>2. CASE t \in Blockers(s)
      BY <3>2 DEF WaitInv, LocksHaveTheirPlace, Blockers
    <3>3. QED
      BY <2>3, <3>1, <3>2 DEF WaitsFor
  <2>4. QED
    BY <2>2, <2>3
<1>2. QED
  BY <1>1, WaitInvCorrect, CirclesAreImpossible, PTL

(* The statements of a request that are over, the response included.       *)
Rank(n) ==
  CASE n = "waiting" -> 0
    [] n \in {"claim", "lock", "update"} -> 1
    [] n \in {"reference", "checkout"} -> 2
    [] n \in {"pay", "open"} -> 3
    [] n = "confirm" -> 4
    [] n = "commit" -> 5
    [] n = "handoff" -> 6
    [] n = "commit_handoff" -> 7
    [] OTHER -> 8

(***************************************************************************)
(* Every step takes one request strictly further and no other anywhere: a  *)
(* request has at most eight steps, and no handler retries or starts over. *)
(***************************************************************************)
StepsLeadToAnswers ==
  [][ \E s \in Sessions :
        /\ Rank(step[s]) < Rank(step'[s])
        /\ \A r \in Sessions \ {s} : step'[r] = step[r]
    ]_vars

LEMMA StepTakesRequestFurther ==
  ASSUME LockTypeOK, NEW s \in Sessions, Proceed(s) \/ Reject(s)
  PROVE  Rank(step[s]) < Rank(step'[s])
<1> USE DEF Respond, Refuse, Continue, Start, Runs
<1>1. \A n \in Steps : [step EXCEPT ![s] = n][s] = n
  BY DEF LockTypeOK
<1>2. step[s] \in Steps
  BY DEF LockTypeOK
<1>3. CASE LoadForWebhook(s) \/ ReceiveInitialization(s) \/ LoadForStatus(s)
  <2>1. step[s] = "waiting" /\ step'[s] \in {"claim", "lock", "update"}
    BY <1>1, <1>3 DEF LoadForWebhook, ReceiveInitialization, LoadForStatus, Steps
  <2>2. QED
    BY <2>1 DEF Rank
<1>4. CASE RefuseReference(s) \/ RefuseCheckout(s) \/ EndHandoff(s) \/ CommitRequest(s) \/ Reject(s)
  <2>1. step[s] # "done" /\ step'[s] = "done"
    BY <1>1, <1>4
       DEF RefuseReference, RefuseCheckout, EndHandoff, CommitRequest, Reject, Steps
  <2>2. QED
    BY <1>2, <2>1 DEF Rank, Steps
<1>5. CASE Claim(s)
  <2>1. step[s] = "claim" /\ step'[s] \in {"reference", "done"}
    BY <1>1, <1>5 DEF Claim, Steps
  <2>2. QED
    BY <2>1 DEF Rank
<1>6. CASE ReferToOrder(s) \/ ConfirmOrder(s) \/ RecordHandoff(s) \/ LockOrder(s) \/ UpdateStatus(s)
  <2>1. <<step[s], step'[s]>> \in
           {<<"reference", "pay">>, <<"confirm", "commit">>, <<"handoff", "commit_handoff">>,
            <<"lock", "checkout">>, <<"update", "commit">>}
    BY <1>1, <1>6 DEF ReferToOrder, ConfirmOrder, RecordHandoff, LockOrder, UpdateStatus, Steps
  <2>2. QED
    BY <2>1 DEF Rank
<1>7. CASE WritePayment(s) \/ KeepPayment(s)
  <2>1. step[s] = "pay" /\ step'[s] \in {"confirm", "commit", "done"}
    BY <1>1, <1>7 DEF WritePayment, KeepPayment, AfterPayment, Steps
  <2>2. QED
    BY <2>1 DEF Rank
<1>8. CASE CommitWebhook(s)
  <2>1. step[s] = "commit" /\ step'[s] \in {"handoff", "done"}
    BY <1>1, <1>8 DEF CommitWebhook, Steps
  <2>2. QED
    BY <2>1 DEF Rank
<1>9. CASE InitializeCheckout(s) \/ OpenPayment(s)
  <2>1. <<step[s], step'[s]>> \in {<<"checkout", "open">>, <<"open", "commit">>}
    BY <1>1, <1>9 DEF InitializeCheckout, OpenPayment, Steps
  <2>2. QED
    BY <2>1 DEF Rank
<1>10. QED
  BY <1>3, <1>4, <1>5, <1>6, <1>7, <1>8, <1>9 DEF Proceed

THEOREM RequestsGoForward == Spec => StepsLeadToAnswers
<1> DEFINE Further ==
  \E s \in Sessions :
    /\ Rank(step[s]) < Rank(step'[s])
    /\ \A r \in Sessions \ {s} : step'[r] = step[r]
<1>1. LockTypeOK /\ [Next]_vars => [Further]_vars
  <2> SUFFICES ASSUME LockTypeOK, Next, vars' # vars
               PROVE  Further
    OBVIOUS
  <2>1. PICK s \in Sessions : Proceed(s) \/ Reject(s)
    BY DEF Next, Finished
  <2>2. QED
    BY <2>1, StepEffects, StepTakesRequestFurther
<1>2. QED
  BY <1>1, LocksTypeCorrect, PTL DEF Spec, StepsLeadToAnswers
===============================================================================
