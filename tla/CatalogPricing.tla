---------------------------- MODULE CatalogPricing ----------------------------
(***************************************************************************)
(* What can be bought, at which price, and whether it still can be when    *)
(* the customer comes to pay: product and kit eligibility, the pricing     *)
(* service, draft orders with their snapshots, and the second look at the  *)
(* catalog that payment initialization takes.                              *)
(*                                                                         *)
(* The API only reads the catalog and the provider's answers; both change  *)
(* behind it at any time.  Designs, and requests turned down because of    *)
(* what they claim or for their options, terms or owner, are left out.     *)
(***************************************************************************)
EXTENDS Naturals, Sequences, Functions

CONSTANTS
  Products,         \* product ids
  Kits,             \* kit ids
  Orders,           \* order ids
  Prices,           \* base prices, in cents
  States,           \* availability states the provider answers with
  ContentQuantities,\* quantities a kit_items row may have
  MaxContents,      \* bound on the rows of a kit
  MaxQuantity,      \* MAX_PRICING_QUANTITY (100)
  None              \* NULL

AvailabilityState ==
  {"available", "made_to_order_parametrizable", "temporarily_unavailable",
   "manual_quote_required", "outsourced_not_mvp_direct", "unsupported"}

(* Codes of a quote that was rejected.                                     *)
RejectionCodes ==
  AvailabilityState \cup
  {"inactive", "quantity_too_low", "quantity_too_high", "invalid_kit_configuration",
   "empty_kit", "inactive_kit_item", "kit_contents_unavailable"}

ASSUME PricingAssumption ==
  /\ None \notin RejectionCodes \cup {"quoted"}
  /\ Prices \subseteq Nat
  /\ States \subseteq AvailabilityState
  /\ ContentQuantities \subseteq Nat
  /\ MaxContents \in Nat
  /\ MaxQuantity \in Nat \ {0}
  /\ Products \cap Kits = {}

VARIABLES
  products,    \* the products table
  kits,        \* the kits table with the kit_items rows of each, by id
  fixtures,    \* what the provider adapter answers about a product or kit
  drafts,      \* draft orders with their one item snapshot
  checkouts    \* amounts that payment initialization asked for, by order

vars == <<products, kits, fixtures, drafts, checkouts>>

EligibleStates == {"available", "made_to_order_parametrizable"}

Product == [is_active : BOOLEAN, base_price : Prices]

KitItem == [product : Products, quantity : ContentQuantities]

Kit ==
  [is_active : BOOLEAN, items : UNION {[1..n -> KitItem] : n \in 0..MaxContents}]

(* priceable: a provider cost is known and the configuration is supported. *)
Fixture == [state : States, priceable : BOOLEAN]

(* An order with one item: the totals of both are the unit price times the *)
(* quantity.                                                               *)
Draft ==
  {d \in [product : Products, quantity : 1..MaxQuantity, unit_price : Prices, total : Nat] :
     d.total = d.unit_price * d.quantity}

(***************************************************************************)
(* Types, and what the CHECK constraints and _validate_order_item require  *)
(* of a snapshot: its total is that of the quantity ordered, within the    *)
(* limit, at the price of the day (create_draft_order), and it is what a   *)
(* checkout asks for, if anything.                                         *)
(***************************************************************************)
PricingTypeOK ==
  /\ products \in [Products -> Product]
  /\ kits \in [Kits -> Kit]
  /\ fixtures \in [Products \cup Kits -> Fixture]
  /\ drafts \in [Orders -> Draft \cup {None}]
  /\ checkouts \in [Orders -> Nat \cup {None}]
  /\ \A o \in Orders : checkouts[o] # None =>
       drafts[o] # None /\ checkouts[o] = drafts[o].total /\ checkouts[o] > 0

-------------------------------------------------------------------------------
(* Eligibility                                                             *)

(* check_direct_checkout_eligibility                                       *)
AdapterEligible(i) == fixtures[i].state \in EligibleStates /\ fixtures[i].priceable

(* ProductEligibilityService.evaluate_product and _reason_for_product      *)
ProductEligible(p) == products[p].is_active /\ AdapterEligible(p)

ProductReason(p) == IF products[p].is_active THEN fixtures[p].state ELSE "inactive"

Rows(k) == DOMAIN kits[k].items
ItemProduct(k, i) == kits[k].items[i].product
ActiveRows(k) == {i \in Rows(k) : products[ItemProduct(k, i)].is_active}

BlockedRows(k) == {i \in ActiveRows(k) : ~ProductEligible(ItemProduct(k, i))}

FirstRow(rows) == CHOOSE i \in rows : \A j \in rows : i <= j

(* Mutant: an inactive product does not stop the kit.                      *)
ReasonOfActiveRows(k) ==
  CASE ActiveRows(k) = {} -> "empty_kit"
    [] BlockedRows(k) # {} -> ProductReason(ItemProduct(k, FirstRow(BlockedRows(k))))
    [] OTHER -> None

(***************************************************************************)
(* _required_content_reason: None, or why the contents stop the kit.  What *)
(* the customer sees of an active product comes before the fact that some  *)
(* inactive ones were left out.                                            *)
(***************************************************************************)
ContentReason(k) ==
  CASE Rows(k) = {} -> "empty_kit"
    [] Rows(k) # {} /\ ActiveRows(k) = {} -> "inactive_kit_item"
    [] BlockedRows(k) # {} -> ProductReason(ItemProduct(k, FirstRow(BlockedRows(k))))
    [] BlockedRows(k) = {} /\ ActiveRows(k) \notin {{}, Rows(k)} -> "kit_contents_unavailable"
    [] OTHER -> None

(* KitEligibilityService.evaluate_kit                                      *)
KitEligible(k) ==
  /\ kits[k].is_active
  /\ ContentReason(k) = None
  /\ AdapterEligible(k)

KitReason(k) ==
  CASE ~kits[k].is_active -> "inactive"
    [] kits[k].is_active /\ ContentReason(k) # None -> ContentReason(k)
    [] OTHER -> fixtures[k].state

(* KitService.get_public_kit: shown in the catalog at all                  *)
PublicKit(k) == kits[k].is_active /\ ActiveRows(k) # {}

-------------------------------------------------------------------------------
(* Quotes: "quoted", or the code of the rejection                          *)

(* _validate_quantity *)
QuantityRejection(q) ==
  CASE q < 1 -> "quantity_too_low"
    [] q > MaxQuantity -> "quantity_too_high"
    [] OTHER -> None

(* validate_pricing_request for a product                                  *)
ProductQuote(p, q) ==
  CASE QuantityRejection(q) # None -> QuantityRejection(q)
    [] QuantityRejection(q) = None /\ ~ProductEligible(p) -> ProductReason(p)
    [] OTHER -> "quoted"

(* Mutant: the quantity is forgotten.                                      *)
TotalOfOne(p, q) == products[p].base_price

ProductTotal(p, q) == products[p].base_price * q

(* Mutant: the limit is applied to the quantity per kit.                   *)
UnscaledQuantity(k, i, q) == kits[k].items[i].quantity

(* The effective quantity of a kit_items row.                              *)
EffectiveQuantity(k, i, q) == kits[k].items[i].quantity * q

(***************************************************************************)
(* _validate_kit_contents.  The stored quantities are checked row by row,  *)
(* and no row is validated unless all products are active.                 *)
(***************************************************************************)
RowRejection(k, i, q) ==
  CASE kits[k].items[i].quantity < 1 -> "invalid_kit_configuration"
    [] EffectiveQuantity(k, i, q) > MaxQuantity -> "quantity_too_high"
    [] OTHER -> None

RejectedRows(k, q) == {i \in Rows(k) : RowRejection(k, i, q) # None}

ContentsRejection(k, q) ==
  CASE ~kits[k].is_active -> "inactive"
    [] kits[k].is_active /\ Rows(k) = {} -> "empty_kit"
    [] kits[k].is_active /\ Rows(k) # ActiveRows(k) -> "kit_contents_unavailable"
    [] kits[k].is_active /\ Rows(k) = ActiveRows(k) /\ RejectedRows(k, q) # {}
         -> RowRejection(k, FirstRow(RejectedRows(k, q)), q)
    [] OTHER -> None

(* preview_quote for a kit                                                 *)
KitQuote(k, q) ==
  CASE QuantityRejection(q) # None -> QuantityRejection(q)
    [] QuantityRejection(q) = None /\ ContentsRejection(k, q) # None
         -> ContentsRejection(k, q)
    [] QuantityRejection(q) = None /\ ContentsRejection(k, q) = None /\ ~KitEligible(k)
         -> KitReason(k)
    [] OTHER -> "quoted"

SumOver(rows, Amount(_)) ==
  FoldFunction(LAMBDA a, b : a + b, 0, [i \in rows |-> Amount(i)])

(* Mutant: the price of one kit counts each row once.                      *)
UnitPriceOfRows(k) ==
  SumOver(Rows(k), LAMBDA i : products[ItemProduct(k, i)].base_price)

KitUnitPrice(k) ==
  SumOver(Rows(k), LAMBDA i : ProductTotal(ItemProduct(k, i), kits[k].items[i].quantity))

(* The sum of _kit_pricing_line's subtotals.                               *)
KitSubtotal(k, q) ==
  SumOver(Rows(k), LAMBDA i : ProductTotal(ItemProduct(k, i), EffectiveQuantity(k, i, q)))

-------------------------------------------------------------------------------
(* Orders                                                                  *)

Init ==
  /\ products \in [Products -> Product]
  /\ kits \in [Kits -> Kit]
  /\ fixtures \in [Products \cup Kits -> Fixture]
  /\ drafts = [o \in Orders |-> None]
  /\ checkouts = [o \in Orders |-> None]

(* create_draft_order: validate_checkout prices the product once more.     *)
CreateDraftOrder(o, p, q) ==
  /\ drafts[o] = None
  /\ ProductQuote(p, q) = "quoted"
  /\ drafts' = [drafts EXCEPT ![o] =
       [product |-> p, quantity |-> q, unit_price |-> products[p].base_price,
        total |-> ProductTotal(p, q)]]
  /\ UNCHANGED <<products, kits, fixtures, checkouts>>

(* Mutant: the price must still be the one of the snapshot.                *)
PayableAtPresentPrice(o) ==
  /\ drafts[o] # None
  /\ drafts[o].total > 0
  /\ drafts[o].unit_price = products[drafts[o].product].base_price
  /\ ProductQuote(drafts[o].product, drafts[o].quantity) = "quoted"

(***************************************************************************)
(* _validate_payable_order and _validate_order_item: the snapshot adds up  *)
(* and is not free, and the product is one the catalog still quotes in     *)
(* that quantity.  Its present price does not matter, and the reference of *)
(* its quote, which the adapter derives from the product, cannot be stale. *)
(***************************************************************************)
Payable(o) ==
  /\ drafts[o] # None
  /\ drafts[o].total > 0
  /\ ProductQuote(drafts[o].product, drafts[o].quantity) = "quoted"

(* The first checkout of an order; Payments models those that follow.      *)
OpenCheckout(o) ==
  /\ Payable(o)
  /\ checkouts[o] = None
  /\ checkouts' = [checkouts EXCEPT ![o] = drafts[o].total]
  /\ UNCHANGED <<products, kits, fixtures, drafts>>

(* Behind the API: a new price, a product or kit withdrawn or changed.     *)
CatalogChanges ==
  /\ \/ /\ \E p \in Products, row \in Product : products' = [products EXCEPT ![p] = row]
        /\ UNCHANGED kits
     \/ /\ \E k \in Kits, row \in Kit : kits' = [kits EXCEPT ![k] = row]
        /\ UNCHANGED products
  /\ UNCHANGED <<fixtures, drafts, checkouts>>

(* The provider answers otherwise than before.                             *)
ProviderChanges ==
  /\ \E i \in Products \cup Kits, answer \in Fixture :
       fixtures' = [fixtures EXCEPT ![i] = answer]
  /\ UNCHANGED <<products, kits, drafts, checkouts>>

Next ==
  \/ \E o \in Orders, p \in Products, q \in 1..MaxQuantity : CreateDraftOrder(o, p, q)
  \/ \E o \in Orders : OpenCheckout(o)
  \/ CatalogChanges
  \/ ProviderChanges

Spec == Init /\ [][Next]_vars

-------------------------------------------------------------------------------
(* Properties                                                              *)

Quantities == 0..(MaxQuantity + 1)

(***************************************************************************)
(* docs/planning/pricing.md: the limit and the provider's check apply to   *)
(* the effective quantity of every row.  A kit is quoted only if each of   *)
(* its rows would be, bought alone in the quantity that so many kits       *)
(* contain.                                                                *)
(***************************************************************************)
QuotedKitsHaveQuotableContents ==
  \A k \in Kits, q \in Quantities : KitQuote(k, q) = "quoted" =>
    \A i \in Rows(k) :
      ProductQuote(ItemProduct(k, i), kits[k].items[i].quantity * q) = "quoted"

(***************************************************************************)
(* The unit price shown for a kit times the quantity is the total shown,   *)
(* though the service computes the two apart, over different quantities.   *)
(***************************************************************************)
KitTotalIsUnitTimesQuantity ==
  \A k \in Kits, q \in Quantities :
    KitQuote(k, q) = "quoted" => KitSubtotal(k, q) = KitUnitPrice(k) * q

(***************************************************************************)
(* The catalog's direct_checkout_eligible and the pricing service decide   *)
(* apart whether a kit can be bought.  They agree on one kit of it, but    *)
(* for rows whose stored quantity pricing rejects and the catalog shows.   *)
(***************************************************************************)
AdvertisedKitsAreQuotable ==
  \A k \in Kits :
    KitQuote(k, 1) = "quoted" <=>
      /\ PublicKit(k) /\ KitEligible(k)
      /\ \A i \in Rows(k) : kits[k].items[i].quantity \in 1..MaxQuantity

(***************************************************************************)
(* docs/planning/payments.md: a draft is paid for while its product is     *)
(* active and offered, and not otherwise, whatever the catalog went        *)
(* through since it was drafted: no answer of that day is relied on, and   *)
(* no draft is stuck because of its quantity or of a price that changed.   *)
(***************************************************************************)
DraftsArePayableWhileOffered ==
  \A o \in Orders : drafts[o] # None =>
    (Payable(o) <=> drafts[o].total > 0 /\ ProductEligible(drafts[o].product))
===============================================================================
