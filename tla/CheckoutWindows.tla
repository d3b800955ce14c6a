--------------------------- MODULE CheckoutWindows ---------------------------
(***************************************************************************)
(* The time windows of the Wompi checkouts of one order.  A checkout is a  *)
(* payment row with an expiration, and a signed link that carries the same *)
(* expiration in milliseconds to the provider, which takes payments by the *)
(* link before that instant, whatever the database says by then.           *)
(*                                                                         *)
(* Workers read their own clocks, and time passes between these readings   *)
(* and the answer.  Initializations of one order follow one another under  *)
(* its row lock (OverlappingSessions, RowLocks); webhooks do not reach     *)
(* these rows, which have no provider reference (Payments).                *)
(***************************************************************************)
EXTENDS Naturals

CONSTANTS
  PaymentIds,   \* ids the sequence of the payments table gives out
  Millisecond,  \* clock ticks of a millisecond (1000)
  TimeToLive,   \* checkout_ttl_seconds, in ticks
  Skew,         \* how far a worker's clock may be from the provider's
  MaxTime       \* bound on the provider's clock

ASSUME WindowsAssumption ==
  /\ Millisecond \in Nat \ {0}
  /\ TimeToLive \in Nat
  /\ Skew \in Nat
  /\ MaxTime \in Nat

VARIABLES
  now,        \* the provider's clock
  payments,   \* Wompi payments of the order
  links,      \* links the customer has been given
  request     \* the initialization that has the row lock, if there is one

vars == <<now, payments, links, request>>

Payment ==
  [id : PaymentIds, status : {"requires_action", "expired"}, expires_at : Nat]

(* given_at: when the customer got it, by the provider's clock.            *)
Link == [payment : PaymentIds, expiration : Nat, given_at : Nat]

Idle == [stage |-> "idle"]

(* reading: what _handle_active_payment takes for the present.             *)
Request == {Idle} \cup [stage : {"reading"}, reading : Nat]

(***************************************************************************)
(* Types.  A row is stored to the millisecond, and the time signed into    *)
(* each link that was given out is exactly that of its row.                *)
(***************************************************************************)
WindowsTypeOK ==
  /\ now \in Nat
  /\ payments \subseteq Payment
  /\ links \subseteq Link
  /\ request \in Request
  /\ \A l \in links : \E p \in payments :
       p.id = l.payment /\ p.expires_at = l.expiration * Millisecond

-------------------------------------------------------------------------------
(* Time                                                                    *)

(* Mutant: the row keeps the microseconds of the clock.                    *)
AsComputed(t) == t

(* _truncate_to_milliseconds *)
Truncated(t) == (t \div Millisecond) * Millisecond

(* serialize_wompi_expiration: milliseconds, with those beyond cut off.    *)
Serialized(t) == t \div Millisecond

(* What a worker's clock may show.                                         *)
Readings == {c \in 0..(now + Skew) : now <= c + Skew}

ActivePayments == {p \in payments : p.status = "requires_action"}

(* Mutant: a checkout is replaced one tick too soon.                       *)
ElapsedAlmost(p, reading) == p.expires_at <= reading + 1

Elapsed(p, reading) == p.expires_at <= reading

(* The provider takes payments by the link.                                *)
Open(l) == now < l.expiration * Millisecond

-------------------------------------------------------------------------------
(* Actions                                                                 *)

Init ==
  /\ now = 0
  /\ payments = {}
  /\ links = {}
  /\ request = Idle

(* Time passes.                                                            *)
Tick ==
  /\ now < MaxTime
  /\ now' = now + 1
  /\ UNCHANGED <<payments, links, request>>

(* initialize_payment has the lock, and reads the clock.                   *)
StartRequest ==
  /\ request = Idle
  /\ \E c \in Readings : request' = [stage |-> "reading", reading |-> c]
  /\ UNCHANGED <<now, payments, links>>

(* A rejection or an unavailable provider, and the rollback.               *)
Reject ==
  /\ request # Idle
  /\ request' = Idle
  /\ UNCHANGED <<now, payments, links>>

(* The signed link for a row, with the answer or lost with it.             *)
Answer(p) ==
  /\ \/ links' = links \cup {[payment |-> p.id, expiration |-> Serialized(p.expires_at),
                              given_at |-> now]}
     \/ UNCHANGED links
  /\ request' = Idle

(* The row of _create_wompi_payment, under an id no row has had; the clock *)
(* is read a second time.                                                  *)
NewCheckouts ==
  {[id |-> i, status |-> "requires_action", expires_at |-> Truncated(c + TimeToLive)] :
     i \in PaymentIds \ {p.id : p \in payments}, c \in request.reading..(now + Skew)}

(* No payment is active.                                                   *)
OpenCheckout ==
  /\ request # Idle
  /\ ActivePayments = {}
  /\ \E p \in NewCheckouts : payments' = payments \cup {p} /\ Answer(p)
  /\ UNCHANGED now

(* _handle_active_payment: the checkout is still open and handed out again.*)
RepeatCheckout ==
  /\ request # Idle
  /\ \E p \in ActivePayments :
       /\ ActivePayments = {p}
       /\ ~Elapsed(p, request.reading)
       /\ Answer(p)
  /\ UNCHANGED <<now, payments>>

(* _handle_active_payment: it has elapsed, and expires for a new one.      *)
ReplaceCheckout ==
  /\ request # Idle
  /\ \E p \in ActivePayments, new \in NewCheckouts :
       /\ ActivePayments = {p}
       /\ Elapsed(p, request.reading)
       /\ payments' = (payments \ {p}) \cup {[p EXCEPT !.status = "expired"], new}
       /\ Answer(new)
  /\ UNCHANGED now

Next ==
  \/ Tick
  \/ StartRequest
  \/ Reject
  \/ OpenCheckout
  \/ RepeatCheckout
  \/ ReplaceCheckout

Spec == Init /\ [][Next]_vars

-------------------------------------------------------------------------------
(* Properties                                                              *)

(***************************************************************************)
(* docs/planning/payments.md: checkout_expires_at closes new transaction   *)
(* starts.  The customer never has two links of different payments that    *)
(* can both be paid, but for as long after the second was given as a       *)
(* worker's clock may be ahead of the provider's; not at all if it is not. *)
(***************************************************************************)
OneLinkIsOpen ==
  \A a, b \in links :
    a.payment # b.payment /\ Open(a) /\ Open(b)
      => now < a.given_at + Skew \/ now < b.given_at + Skew
===============================================================================
