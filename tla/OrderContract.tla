---------------------------- MODULE OrderContract -----------------------------
(***************************************************************************)
(* What a customer is promised about an order, with no payment rows, audit *)
(* rows, tables or triggers: an order is paid for once and then goes       *)
(* through its stages one at a time and never back; a cancellation request *)
(* puts it on hold where it is, and the hold is lifted there or ends in    *)
(* cancellation; the provider may decline it before accepting it.          *)
(***************************************************************************)
CONSTANT Orders

VARIABLES
  stage,       \* where each order is, its holds disregarded
  held,        \* orders whose cancellation is under review
  paid,        \* orders paid for
  atProvider   \* orders the backend knows the provider received

contractVars == <<stage, held, paid, atProvider>>

Successor ==
  [absent |-> "draft", draft |-> "confirmed", confirmed |-> "sent_to_provider",
   sent_to_provider |-> "accepted", accepted |-> "in_production",
   in_production |-> "ready_for_pickup", ready_for_pickup |-> "shipped",
   shipped |-> "delivered"]

Holdable == {"confirmed", "accepted", "in_production"}

ContractInit ==
  /\ stage = [o \in Orders |-> "absent"]
  /\ held = {}
  /\ paid = {}
  /\ atProvider = {}

MoveTo(o, s) == stage' = [stage EXCEPT ![o] = s]

(* Creation, production, pickup, shipment, delivery, provider acceptance.  *)
Advance(o) ==
  /\ o \notin held
  /\ stage[o] \in DOMAIN Successor \ {"draft", "confirmed"}
  /\ MoveTo(o, Successor[stage[o]])
  /\ UNCHANGED <<held, paid, atProvider>>

Pay(o) ==
  /\ stage[o] = "draft"
  /\ MoveTo(o, "confirmed")
  /\ paid' = paid \cup {o}
  /\ UNCHANGED <<held, atProvider>>

SendToProvider(o) ==
  /\ o \notin held
  /\ o \in paid
  /\ stage[o] = "confirmed"
  /\ MoveTo(o, "sent_to_provider")
  /\ atProvider' = atProvider \cup {o}
  /\ UNCHANGED <<held, paid>>

Decline(o) ==
  /\ stage[o] = "sent_to_provider"
  /\ MoveTo(o, "cancelled")
  /\ UNCHANGED <<held, paid, atProvider>>

Hold(o) ==
  /\ o \notin held
  /\ stage[o] \in Holdable
  /\ held' = held \cup {o}
  /\ UNCHANGED <<stage, paid, atProvider>>

Resume(o) ==
  /\ o \in held
  /\ held' = held \ {o}
  /\ UNCHANGED <<stage, paid, atProvider>>

Cancel(o) ==
  /\ o \in held
  /\ held' = held \ {o}
  /\ MoveTo(o, "cancelled")
  /\ UNCHANGED <<paid, atProvider>>

ContractNext ==
  \E o \in Orders :
    \/ Advance(o)
    \/ Pay(o)
    \/ SendToProvider(o)
    \/ Decline(o)
    \/ Hold(o)
    \/ Resume(o)
    \/ Cancel(o)

ContractSpec == ContractInit /\ [][ContractNext]_contractVars
===============================================================================
