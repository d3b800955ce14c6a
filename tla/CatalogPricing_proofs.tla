------------------------ MODULE CatalogPricing_proofs -------------------------
(***************************************************************************)
(* Draft orders and their checkouts against a catalog that changes, and    *)
(* the quotes of kits against those of their contents.                     *)
(***************************************************************************)
EXTENDS CatalogPricing, FiniteSetTheorems, WellFoundedInduction, TLAPS

(***************************************************************************)
(* _validate_quantity takes the quantities an order may have and no other. *)
(***************************************************************************)
LEMMA QuantityInLimits ==
  ASSUME NEW q \in Nat
  PROVE  QuantityRejection(q) = None <=> q \in 1..MaxQuantity
BY PricingAssumption DEF QuantityRejection, RejectionCodes

(* A product is quoted in those quantities, while it is active and offered. *)
LEMMA QuotedProduct ==
  ASSUME PricingTypeOK, NEW p \in Products, NEW q \in Nat
  PROVE  ProductQuote(p, q) = "quoted" <=> q \in 1..MaxQuantity /\ ProductEligible(p)
<1>1. QuantityRejection(q) # "quoted"  \/ q \in 1..MaxQuantity
  BY PricingAssumption DEF QuantityRejection
<1>2. ProductReason(p) # "quoted"
  BY PricingAssumption DEF ProductReason, PricingTypeOK, Fixture, AvailabilityState
<1>3. QED
  BY <1>1, <1>2, QuantityInLimits DEF ProductQuote

-------------------------------------------------------------------------------
(* Types                                                                   *)

(***************************************************************************)
(* Catalog, drafts and checkouts keep their types, the total of every      *)
(* draft is that of the quantity ordered at the price it was drafted at,   *)
(* and a checkout asks for it.                                             *)
(***************************************************************************)
THEOREM PricingTypeCorrect == Spec => []PricingTypeOK
<1>1. Init => PricingTypeOK
  BY DEF Init, PricingTypeOK
<1>2. PricingTypeOK /\ [Next]_vars => PricingTypeOK'
  <2> SUFFICES ASSUME PricingTypeOK, [Next]_vars
               PROVE  PricingTypeOK'
    OBVIOUS
  <2>1. ASSUME NEW o \in Orders, NEW p \in Products, NEW q \in 1..MaxQuantity,
               CreateDraftOrder(o, p, q)
        PROVE  PricingTypeOK'
    <3> DEFINE d == [product |-> p, quantity |-> q, unit_price |-> products[p].base_price,
                     total |-> ProductTotal(p, q)]
    <3>1. products[p].base_price \in Prices /\ products[p].base_price \in Nat
      BY PricingAssumption DEF PricingTypeOK, Product
    <3>2. d.total = d.unit_price * d.quantity /\ d.total \in Nat
      BY <3>1 DEF ProductTotal
    <3>3. d \in Draft
      BY <3>1, <3>2 DEF Draft
    <3>4. drafts' = [drafts EXCEPT ![o] = d] /\ UNCHANGED <<products, kits, fixtures, checkouts>>
      BY <2>1 DEF CreateDraftOrder
    <3> HIDE DEF d
    <3>5. drafts' \in [Orders -> Draft \cup {None}]
      BY <3>3, <3>4 DEF PricingTypeOK
    <3>6. drafts[o] = None
      BY <2>1 DEF CreateDraftOrder
    <3>7. ASSUME NEW x \in Orders, checkouts'[x] # None
          PROVE  /\ drafts'[x] # None
                 /\ checkouts'[x] = drafts'[x].total /\ checkouts'[x] > 0
      <4>1. x # o /\ drafts[x] # None /\ checkouts[x] = drafts[x].total /\ checkouts[x] > 0
        BY <3>4, <3>6, <3>7 DEF PricingTypeOK
      <4>2. drafts'[x] = drafts[x] /\ checkouts'[x] = checkouts[x]
        BY <3>4, <4>1 DEF PricingTypeOK
      <4>3. QED
        BY <4>1, <4>2
    <3>8. QED
      BY <3>4, <3>5, <3>7 DEF PricingTypeOK
  <2>2. ASSUME NEW o \in Orders, OpenCheckout(o)
        PROVE  PricingTypeOK'
    <3>1. drafts[o] # None /\ drafts[o].total \in Nat /\ drafts[o].total > 0
      BY <2>2 DEF OpenCheckout, Payable, PricingTypeOK, Draft
    <3>2. /\ checkouts' = [checkouts EXCEPT ![o] = drafts[o].total]
          /\ UNCHANGED <<products, kits, fixtures, drafts>>
      BY <2>2 DEF OpenCheckout
    <3>3. ASSUME NEW x \in Orders, checkouts'[x] # None
          PROVE  /\ drafts'[x] # None
                 /\ checkouts'[x] = drafts'[x].total /\ checkouts'[x] > 0
      <4>1. CASE x = o
        BY <3>1, <3>2, <4>1 DEF PricingTypeOK
      <4>2. CASE x # o
        BY <3>2, <3>3, <4>2 DEF PricingTypeOK
      <4>3. QED
        BY <4>1, <4>2
    <3>4. QED
      BY <3>1, <3>2, <3>3 DEF PricingTypeOK
  <2>3. CASE CatalogChanges
    BY <2>3 DEF CatalogChanges, PricingTypeOK
  <2>4. CASE ProviderChanges
    BY <2>4 DEF ProviderChanges, PricingTypeOK
  <2>5. CASE UNCHANGED vars
    BY <2>5 DEF vars, PricingTypeOK
  <2>6. QED
    BY <2>1, <2>2, <2>3, <2>4, <2>5 DEF Next
<1>3. QED
  BY <1>1, <1>2, PTL DEF Spec

-------------------------------------------------------------------------------
(* Drafts and checkouts                                                    *)

(***************************************************************************)
(* A draft is payable while its product is active and offered, and only    *)
(* then: _validate_payable_order neither relies on an earlier answer nor   *)
(* stops for a new price.                                                  *)
(***************************************************************************)
THEOREM PayableWhileOffered == Spec => []DraftsArePayableWhileOffered
<1>1. PricingTypeOK => DraftsArePayableWhileOffered
  <2> SUFFICES ASSUME PricingTypeOK, NEW o \in Orders, drafts[o] # None
               PROVE  Payable(o) <=>
                        drafts[o].total > 0 /\ ProductEligible(drafts[o].product)
    BY DEF DraftsArePayableWhileOffered
  <2>1. /\ drafts[o].product \in Products
        /\ drafts[o].quantity \in 1..MaxQuantity
        /\ drafts[o].quantity \in Nat
    BY DEF PricingTypeOK, Draft
  <2>2. QED
    BY <2>1, QuotedProduct DEF Payable
<1>2. QED
  BY <1>1, PricingTypeCorrect, PTL

-------------------------------------------------------------------------------
(* Kits                                                                    *)

(* A row that FirstRow chooses is one of those it was given.                *)
LEMMA FirstRowIsRow ==
  ASSUME NEW rows \in SUBSET Nat, rows # {}
  PROVE  FirstRow(rows) \in rows
<1>1. PICK i \in rows : \A j \in rows : <<j, i>> \notin OpToRel(<, Nat)
  BY NatLessThanWellFounded, WFMin, Zenon
<1>2. \A j \in rows : ~ (j < i)
  BY <1>1 DEF OpToRel
<1>3. \A j \in rows : i <= j
  BY <1>2
<1>4. QED
  BY <1>3 DEF FirstRow

(* The rows of a kit hold products and quantities.                         *)
LEMMA KitRows ==
  ASSUME PricingTypeOK, NEW k \in Kits
  PROVE  /\ Rows(k) \in SUBSET Nat
         /\ \A i \in Rows(k) :
              ItemProduct(k, i) \in Products /\ kits[k].items[i].quantity \in Nat
<1> DEFINE items == kits[k].items
<1>1. items \in UNION {[1..n -> KitItem] : n \in 0..MaxContents}
  BY DEF PricingTypeOK, Kit
<1> HIDE DEF items
<1>2. PICK n \in 0..MaxContents : items \in [1..n -> KitItem]
  BY <1>1
<1>3. DOMAIN items = 1..n /\ DOMAIN items \in SUBSET Nat
  BY <1>2
<1>4. \A i \in DOMAIN items : items[i] \in KitItem
  BY <1>2
<1>5. \A i \in DOMAIN items : items[i].product \in Products /\ items[i].quantity \in Nat
  BY <1>4, PricingAssumption DEF KitItem
<1>6. QED
  BY <1>3, <1>5 DEF Rows, ItemProduct, items

(* The row check accepts stored quantities that fit into the limit.        *)
LEMMA AcceptedRow ==
  ASSUME PricingTypeOK, NEW k \in Kits, NEW i \in Rows(k), NEW q \in Nat
  PROVE  /\ RowRejection(k, i, q) # "quoted"
         /\ RowRejection(k, i, q) = None <=>
              kits[k].items[i].quantity >= 1 /\ EffectiveQuantity(k, i, q) <= MaxQuantity
<1>1. kits[k].items[i].quantity \in Nat /\ EffectiveQuantity(k, i, q) \in Nat
  BY KitRows DEF EffectiveQuantity
<1>2. None \notin {"invalid_kit_configuration", "quantity_too_high"} /\ None # "quoted"
  BY PricingAssumption DEF RejectionCodes
<1>3. MaxQuantity \in Nat
  BY PricingAssumption
<1> DEFINE n == kits[k].items[i].quantity
           e == EffectiveQuantity(k, i, q)
<1>4. RowRejection(k, i, q) =
        CASE n < 1 -> "invalid_kit_configuration"
          [] e > MaxQuantity -> "quantity_too_high"
          [] OTHER -> None
  BY DEF RowRejection
<1>5. n \in Nat /\ e \in Nat /\ (n < 1 => e <= MaxQuantity)
  BY <1>1, <1>3 DEF EffectiveQuantity
<1> HIDE DEF n, e
<1>6. /\ RowRejection(k, i, q) # "quoted"
      /\ RowRejection(k, i, q) = None <=> n >= 1 /\ e <= MaxQuantity
  BY <1>2, <1>3, <1>4, <1>5
<1>7. QED
  BY <1>6 DEF n, e

(***************************************************************************)
(* What _validate_kit_contents accepts.                                    *)
(***************************************************************************)
LEMMA AcceptedContents ==
  ASSUME PricingTypeOK, NEW k \in Kits, NEW q \in Nat
  PROVE  /\ ContentsRejection(k, q) # "quoted"
         /\ ContentsRejection(k, q) = None <=>
              /\ kits[k].is_active
              /\ Rows(k) # {}
              /\ Rows(k) = ActiveRows(k)
              /\ RejectedRows(k, q) = {}
<1>1. RejectedRows(k, q) # {} =>
        /\ RowRejection(k, FirstRow(RejectedRows(k, q)), q) # None
        /\ RowRejection(k, FirstRow(RejectedRows(k, q)), q) # "quoted"
  <2> SUFFICES ASSUME RejectedRows(k, q) # {}
               PROVE  /\ RowRejection(k, FirstRow(RejectedRows(k, q)), q) # None
                      /\ RowRejection(k, FirstRow(RejectedRows(k, q)), q) # "quoted"
    OBVIOUS
  <2>1. RejectedRows(k, q) \in SUBSET Nat
    BY KitRows DEF RejectedRows
  <2>2. FirstRow(RejectedRows(k, q)) \in RejectedRows(k, q)
    BY <2>1, FirstRowIsRow
  <2>3. QED
    BY <2>2, AcceptedRow DEF RejectedRows
<1>2. None \notin {"inactive", "empty_kit", "kit_contents_unavailable"} /\ None # "quoted"
  BY PricingAssumption DEF RejectionCodes
<1> DEFINE rejected == RejectedRows(k, q)
           first == RowRejection(k, FirstRow(rejected), q)
<1>3. CASE ~ kits[k].is_active
  BY <1>2, <1>3 DEF ContentsRejection
<1>4. CASE kits[k].is_active /\ Rows(k) = {}
  <2>1. ActiveRows(k) = {} /\ rejected = {}
    BY <1>4 DEF ActiveRows, RejectedRows
  <2> HIDE DEF rejected
  <2>2. ContentsRejection(k, q) = "empty_kit"
    BY <1>4, <2>1 DEF ContentsRejection, rejected
  <2>3. QED
    BY <1>2, <1>4, <2>2
<1>5. CASE kits[k].is_active /\ Rows(k) # {} /\ Rows(k) # ActiveRows(k)
  <2>1. ContentsRejection(k, q) = "kit_contents_unavailable"
    BY <1>5 DEF ContentsRejection
  <2>2. QED
    BY <1>2, <1>5, <2>1
<1>6. CASE kits[k].is_active /\ Rows(k) # {} /\ Rows(k) = ActiveRows(k) /\ rejected # {}
  <2>1. ContentsRejection(k, q) = first
    BY <1>6 DEF ContentsRejection
  <2>2. QED
    BY <1>1, <1>6, <2>1
<1>7. CASE kits[k].is_active /\ Rows(k) # {} /\ Rows(k) = ActiveRows(k) /\ rejected = {}
  <2>1. ContentsRejection(k, q) = None
    BY <1>7 DEF ContentsRejection
  <2>2. QED
    BY <1>2, <1>7, <2>1
<1>8. QED
  BY <1>3, <1>4, <1>5, <1>6, <1>7

(***************************************************************************)
(* What _required_content_reason accepts.                                  *)
(***************************************************************************)
LEMMA EligibleContents ==
  ASSUME PricingTypeOK, NEW k \in Kits
  PROVE  /\ ContentReason(k) # "quoted"
         /\ ContentReason(k) = None <=>
              /\ Rows(k) # {}
              /\ Rows(k) = ActiveRows(k)
              /\ \A i \in Rows(k) : ProductEligible(ItemProduct(k, i))
<1>1. BlockedRows(k) # {} =>
        ProductReason(ItemProduct(k, FirstRow(BlockedRows(k)))) \notin {None, "quoted"}
  <2> SUFFICES ASSUME BlockedRows(k) # {}
               PROVE  ProductReason(ItemProduct(k, FirstRow(BlockedRows(k))))
                        \notin {None, "quoted"}
    OBVIOUS
  <2> DEFINE p == ItemProduct(k, FirstRow(BlockedRows(k)))
  <2>1. BlockedRows(k) \in SUBSET Nat
    BY KitRows DEF BlockedRows, ActiveRows
  <2>2. p \in Products
    BY <2>1, FirstRowIsRow, KitRows DEF BlockedRows, ActiveRows
  <2>3. fixtures[p].state \in AvailabilityState
    BY <2>2, PricingAssumption DEF PricingTypeOK, Fixture
  <2>4. QED
    BY <2>3, PricingAssumption DEF ProductReason, RejectionCodes, AvailabilityState
<1>2. None \notin {"empty_kit", "inactive_kit_item", "kit_contents_unavailable", "quoted"}
  BY PricingAssumption DEF RejectionCodes
<1>3. ActiveRows(k) \subseteq Rows(k)
  BY DEF ActiveRows
<1>4. BlockedRows(k) = {} <=> \A i \in ActiveRows(k) : ProductEligible(ItemProduct(k, i))
  BY DEF BlockedRows
<1>5. BlockedRows(k) # {} => ActiveRows(k) # {}
  BY DEF BlockedRows
<1> DEFINE first == ProductReason(ItemProduct(k, FirstRow(BlockedRows(k))))
<1>6. CASE Rows(k) = {}
  <2>1. ContentReason(k) = "empty_kit"
    BY <1>3, <1>5, <1>6 DEF ContentReason
  <2>2. QED
    BY <1>2, <1>6, <2>1
<1>7. CASE Rows(k) # {} /\ ActiveRows(k) = {}
  <2>1. ContentReason(k) = "inactive_kit_item"
    BY <1>5, <1>7 DEF ContentReason
  <2>2. QED
    BY <1>2, <1>7, <2>1
<1>8. CASE Rows(k) # {} /\ BlockedRows(k) # {}
  <2>1. ContentReason(k) = first
    BY <1>5, <1>8 DEF ContentReason
  <2>2. QED
    BY <1>1, <1>4, <1>3, <1>8, <2>1
<1>9. CASE Rows(k) # {} /\ ActiveRows(k) \notin {{}, Rows(k)} /\ BlockedRows(k) = {}
  <2>1. ContentReason(k) = "kit_contents_unavailable"
    BY <1>9 DEF ContentReason
  <2>2. QED
    BY <1>2, <1>9, <2>1
<1>10. CASE Rows(k) # {} /\ ActiveRows(k) = Rows(k) /\ BlockedRows(k) = {}
  <2>1. ContentReason(k) = None
    BY <1>10 DEF ContentReason
  <2>2. QED
    BY <1>2, <1>4, <1>10, <2>1
<1>11. QED
  BY <1>6, <1>7, <1>8, <1>9, <1>10

(* A kit is quoted if pricing accepts its contents and the catalog the kit. *)
LEMMA QuotedKit ==
  ASSUME PricingTypeOK, NEW k \in Kits, NEW q \in Nat
  PROVE  KitQuote(k, q) = "quoted" <=>
           /\ q \in 1..MaxQuantity
           /\ ContentsRejection(k, q) = None
           /\ KitEligible(k)
<1>1. QuantityRejection(q) # "quoted" \/ q \in 1..MaxQuantity
  BY PricingAssumption DEF QuantityRejection
<1>2. KitReason(k) # "quoted"
  <2>1. fixtures[k].state \in AvailabilityState
    BY PricingAssumption DEF PricingTypeOK, Fixture
  <2>2. QED
    BY <2>1, EligibleContents DEF KitReason, AvailabilityState
<1>3. QED
  BY <1>1, <1>2, QuantityInLimits, AcceptedContents DEF KitQuote

(* The product of two quantities of at least one is one.                   *)
LEMMA ProductOfQuantities ==
  ASSUME NEW a \in Nat, NEW b \in Nat, a >= 1, b >= 1
  PROVE  a * b \in Nat /\ a * b >= 1
OBVIOUS

(***************************************************************************)
(* A kit is quoted only if each of its rows would be, bought alone in the  *)
(* quantity that so many kits contain: the limit applies to the effective  *)
(* quantity, and what is in the kit is active and offered.                 *)
(***************************************************************************)
THEOREM QuotedKitsAreSound == Spec => []QuotedKitsHaveQuotableContents
<1>1. PricingTypeOK => QuotedKitsHaveQuotableContents
  <2> SUFFICES ASSUME PricingTypeOK, NEW k \in Kits, NEW q \in Quantities,
                      KitQuote(k, q) = "quoted", NEW i \in Rows(k)
               PROVE  ProductQuote(ItemProduct(k, i), kits[k].items[i].quantity * q) = "quoted"
    BY DEF QuotedKitsHaveQuotableContents
  <2>1. q \in Nat
    BY PricingAssumption DEF Quantities
  <2>2. q >= 1 /\ RejectedRows(k, q) = {} /\ ProductEligible(ItemProduct(k, i))
    BY <2>1, QuotedKit, AcceptedContents, EligibleContents DEF KitEligible
  <2>3. kits[k].items[i].quantity >= 1 /\ EffectiveQuantity(k, i, q) <= MaxQuantity
    BY <2>1, <2>2, AcceptedRow DEF RejectedRows
  <2>4. kits[k].items[i].quantity * q \in 1..MaxQuantity
    BY <2>1, <2>2, <2>3, KitRows, ProductOfQuantities, PricingAssumption DEF EffectiveQuantity
  <2>5. QED
    BY <2>2, <2>4, KitRows, QuotedProduct
<1>2. QED
  BY <1>1, PricingTypeCorrect, PTL

(***************************************************************************)
(* The catalog and the pricing service, which check a kit in different     *)
(* orders, agree on whether one of it can be bought, but for stored        *)
(* quantities that pricing rejects and the catalog does not look at.       *)
(***************************************************************************)
THEOREM CatalogAndPricingAgree == Spec => []AdvertisedKitsAreQuotable
<1>1. PricingTypeOK => AdvertisedKitsAreQuotable
  <2> SUFFICES ASSUME PricingTypeOK, NEW k \in Kits
               PROVE  KitQuote(k, 1) = "quoted" <=>
                        /\ PublicKit(k) /\ KitEligible(k)
                        /\ \A i \in Rows(k) : kits[k].items[i].quantity \in 1..MaxQuantity
    BY DEF AdvertisedKitsAreQuotable
  <2>1. 1 \in 1..MaxQuantity /\ 1 \in Nat
    BY PricingAssumption
  <2>2. RejectedRows(k, 1) = {} <=>
          \A i \in Rows(k) : kits[k].items[i].quantity \in 1..MaxQuantity
    <3>1. \A i \in Rows(k) : EffectiveQuantity(k, i, 1) = kits[k].items[i].quantity
      BY KitRows DEF EffectiveQuantity
    <3>2. QED
      BY <3>1, <2>1, KitRows, AcceptedRow, PricingAssumption DEF RejectedRows
  <2>3. KitEligible(k) => PublicKit(k) /\ Rows(k) # {} /\ Rows(k) = ActiveRows(k)
    BY EligibleContents DEF KitEligible, PublicKit
  <2>4. QED
    BY <2>1, <2>2, <2>3, QuotedKit, AcceptedContents DEF KitEligible
<1>2. QED
  BY <1>1, PricingTypeCorrect, PTL

-------------------------------------------------------------------------------
(* Sums over the rows of a kit                                             *)

(***************************************************************************)
(* Among the subsets of a finite set that have some property, one has no   *)
(* proper subset with it: the least counterexample of the proofs below,    *)
(* which take the place of an induction over the rows.                     *)
(***************************************************************************)
LEMMA SmallestSet ==
  ASSUME NEW S, IsFiniteSet(S), NEW B \in SUBSET (SUBSET S), B # {}
  PROVE  \E T \in B : \A U \in SUBSET T : U # T => U \notin B
<1> DEFINE sizes == {Cardinality(T) : T \in B}
<1>1. \A T \in B : IsFiniteSet(T) /\ Cardinality(T) \in Nat
  BY FS_Subset, FS_CardinalityType
<1>2. sizes \in SUBSET Nat /\ sizes # {}
  BY <1>1
<1> HIDE DEF sizes
<1>3. PICK n \in sizes : \A m \in sizes : <<m, n>> \notin OpToRel(<, Nat)
  BY <1>2, NatLessThanWellFounded, WFMin, Zenon
<1>4. \A m \in sizes : ~ (m < n)
  BY <1>2, <1>3 DEF OpToRel
<1>5. PICK T \in B : n = Cardinality(T)
  BY <1>3 DEF sizes
<1>6. ASSUME NEW U \in SUBSET T, U # T, U \in B
      PROVE  FALSE
  <2>1. Cardinality(U) < Cardinality(T)
    BY <1>1, <1>6, FS_Subset
  <2>2. Cardinality(U) \in sizes
    BY <1>6 DEF sizes
  <2>3. QED
    BY <1>4, <1>5, <2>1, <2>2
<1>7. QED
  BY <1>6

(* The sum of a over s, given by f the sums over smaller sets: the equation *)
(* by which FoldFunction adds up, one element at a time.                    *)
Any(s) == CHOOSE x \in s : TRUE

Partial(f, a, s) == IF s = {} THEN 0 ELSE a[Any(s)] + f[s \ {Any(s)}]

IsSum(f, a, S) == f = [s \in SUBSET S |-> Partial(f, a, s)]

(* What the equation gives for a set depends on its elements only.         *)
LEMMA SumsAgree ==
  ASSUME NEW S, IsFiniteSet(S), NEW a, NEW f, NEW g, NEW T \in SUBSET S,
         IsSum(f, a, S), IsSum(g, a, T)
  PROVE  \A s \in SUBSET T : f[s] = g[s]
<1> DEFINE B == {s \in SUBSET T : f[s] # g[s]}
<1>1. SUFFICES ASSUME B # {}
               PROVE  FALSE
  OBVIOUS
<1>2. PICK s \in B : \A u \in SUBSET s : u # s => u \notin B
  <2>1. B \in SUBSET (SUBSET S)
    OBVIOUS
  <2> HIDE DEF B
  <2>2. QED
    BY <1>1, <2>1, SmallestSet
<1>3. s \in SUBSET T /\ s \in SUBSET S /\ f[s] # g[s]
  OBVIOUS
<1>4. f[s] = Partial(f, a, s) /\ g[s] = Partial(g, a, s)
  BY <1>3 DEF IsSum
<1>5. s # {}
  BY <1>3, <1>4 DEF Partial
<1>6. Any(s) \in s
  BY <1>5 DEF Any
<1>7. f[s \ {Any(s)}] = g[s \ {Any(s)}]
  BY <1>2, <1>3, <1>6
<1>8. QED
  BY <1>3, <1>4, <1>5, <1>7 DEF Partial

(* The equation has a solution over every finite set.                      *)
LEMMA SumExists ==
  ASSUME NEW S, IsFiniteSet(S), NEW a
  PROVE  \E f : IsSum(f, a, S)
<1> DEFINE B == {T \in SUBSET S : ~ \E f : IsSum(f, a, T)}
<1>1. SUFFICES ASSUME B # {}
               PROVE  FALSE
  OBVIOUS
<1>2. PICK T \in B : \A U \in SUBSET T : U # T => U \notin B
  <2>1. B \in SUBSET (SUBSET S)
    OBVIOUS
  <2> HIDE DEF B
  <2>2. QED
    BY <1>1, <2>1, SmallestSet
<1>3. T \in SUBSET S /\ ~ \E f : IsSum(f, a, T)
  OBVIOUS
<1>4. \A U \in SUBSET T : U # T => \E f : IsSum(f, a, U)
  BY <1>2, <1>3
<1> DEFINE sum(U) == CHOOSE f : IsSum(f, a, U)
           h == [s \in SUBSET T |->
                  IF s = {} THEN 0 ELSE a[Any(s)] + sum(s \ {Any(s)})[s \ {Any(s)}]]
<1>5. \A U \in SUBSET T : U # T => IsSum(sum(U), a, U)
  BY <1>4
<1> HIDE DEF B, sum
<1>6. ASSUME NEW s \in SUBSET T, s # {}
      PROVE  h[s \ {Any(s)}] = sum(s \ {Any(s)})[s \ {Any(s)}]
  <2> DEFINE u == s \ {Any(s)}
             v == u \ {Any(u)}
  <2>1. Any(s) \in s
    BY <1>6 DEF Any
  <2>2. u \in SUBSET T /\ u # T
    BY <2>1
  <2>3. IsSum(sum(u), a, u)
    BY <1>5, <2>2
  <2> HIDE DEF u
  <2>4. u \in SUBSET u
    OBVIOUS
  <2>5. sum(u)[u] = Partial(sum(u), a, u)
    BY <2>3, <2>4 DEF IsSum
  <2>6. CASE u = {}
    <3>1. h[u] = 0
      BY <2>2, <2>6
    <3>2. QED
      BY <2>5, <2>6, <3>1 DEF Partial, u
  <2>7. CASE u # {}
    <3>1. Any(u) \in u
      BY <2>7 DEF Any
    <3>2. v \in SUBSET u /\ v \in SUBSET T /\ v # T
      BY <2>2, <3>1
    <3>3. IsSum(sum(v), a, v)
      BY <1>5, <3>2
    <3>4. IsFiniteSet(u) /\ v \in SUBSET v
      BY <1>3, <2>2, FS_Subset
    <3> HIDE DEF v
    <3>5. sum(u)[v] = sum(v)[v]
      BY <2>3, <3>2, <3>3, <3>4, SumsAgree
    <3>6. sum(u)[u] = a[Any(u)] + sum(u)[v]
      BY <2>5, <2>7 DEF Partial, v
    <3>7. h[u] = a[Any(u)] + sum(v)[v]
      BY <2>2, <2>7 DEF v
    <3>8. QED
      BY <3>5, <3>6, <3>7 DEF u
  <2>8. QED
    BY <2>6, <2>7
<1>7. h = [s \in SUBSET T |-> Partial(h, a, s)]
  <2>1. \A s \in SUBSET T :
          (IF s = {} THEN 0 ELSE a[Any(s)] + sum(s \ {Any(s)})[s \ {Any(s)}]) = Partial(h, a, s)
    BY <1>6 DEF Partial
  <2>2. QED
    BY <2>1
<1>8. QED
  BY <1>3, <1>7 DEF IsSum

(* What FoldFunction chooses is that solution.                             *)
SumOf(a) == (CHOOSE f : IsSum(f, a, DOMAIN a))[DOMAIN a]

LEMMA SumOfIsSum ==
  ASSUME NEW a, IsFiniteSet(DOMAIN a)
  PROVE  \E f : IsSum(f, a, DOMAIN a) /\ SumOf(a) = f[DOMAIN a]
BY SumExists DEF SumOf

(* A quantity taken out of two terms.                                      *)
LEMMA Distributes ==
  ASSUME NEW x \in Nat, NEW y \in Nat, NEW q \in Nat
  PROVE  x * q + y * q = (x + y) * q /\ x + y \in Nat
OBVIOUS

(* A quantity taken out of a sum.                                          *)
LEMMA SumScales ==
  ASSUME NEW S, IsFiniteSet(S), NEW a, NEW b, NEW q \in Nat, NEW f, NEW g,
         \A i \in S : a[i] \in Nat /\ b[i] = a[i] * q,
         IsSum(f, a, S), IsSum(g, b, S)
  PROVE  g[S] = f[S] * q
<1> DEFINE B == {s \in SUBSET S : ~ (f[s] \in Nat /\ g[s] = f[s] * q)}
<1>1. SUFFICES ASSUME B # {}
               PROVE  FALSE
  OBVIOUS
<1>2. PICK s \in B : \A u \in SUBSET s : u # s => u \notin B
  <2>1. B \in SUBSET (SUBSET S)
    OBVIOUS
  <2> HIDE DEF B
  <2>2. QED
    BY <1>1, <2>1, SmallestSet
<1>3. s \in SUBSET S /\ ~ (f[s] \in Nat /\ g[s] = f[s] * q)
  OBVIOUS
<1>4. f[s] = Partial(f, a, s) /\ g[s] = Partial(g, b, s)
  BY <1>3 DEF IsSum
<1>5. s # {}
  BY <1>3, <1>4 DEF Partial
<1>6. Any(s) \in s
  BY <1>5 DEF Any
<1> DEFINE r == s \ {Any(s)}
<1>7. f[r] \in Nat /\ g[r] = f[r] * q
  BY <1>2, <1>3, <1>6
<1>8. f[s] = a[Any(s)] + f[r] /\ g[s] = b[Any(s)] + g[r]
  BY <1>4, <1>5 DEF Partial
<1>9. a[Any(s)] \in Nat /\ b[Any(s)] = a[Any(s)] * q
  BY <1>3, <1>6
<1> HIDE DEF B, r
<1>10. QED
  BY <1>3, <1>7, <1>8, <1>9, Distributes

(* Every kit has finitely many rows.                                        *)
LEMMA KitRowsAreFinite ==
  ASSUME PricingTypeOK, NEW k \in Kits
  PROVE  IsFiniteSet(Rows(k))
<1>1. kits[k].items \in UNION {[1..n -> KitItem] : n \in 0..MaxContents}
  BY DEF PricingTypeOK, Kit
<1>2. PICK n \in 0..MaxContents : kits[k].items \in [1..n -> KitItem]
  BY <1>1
<1>3. Rows(k) = 1..n /\ n \in Int /\ 1 \in Int
  BY <1>2, PricingAssumption DEF Rows
<1>4. QED
  BY <1>3, FS_Interval

(* The price of a row for so many kits, either way.                        *)
LEMMA ProductOfThree ==
  ASSUME NEW x \in Nat, NEW y \in Nat, NEW q \in Nat
  PROVE  x * y \in Nat /\ x * (y * q) = (x * y) * q
OBVIOUS

(***************************************************************************)
(* The total of _kit_pricing_line, summed over effective quantities, is    *)
(* the unit price, summed over the quantities per kit, times the number of *)
(* kits: for every kit, with as many rows and whatever prices it has.      *)
(***************************************************************************)
THEOREM KitTotalsAgree == Spec => []KitTotalIsUnitTimesQuantity
<1>1. PricingTypeOK => KitTotalIsUnitTimesQuantity
  <2> SUFFICES ASSUME PricingTypeOK, NEW k \in Kits, NEW q \in Quantities
               PROVE  KitSubtotal(k, q) = KitUnitPrice(k) * q
    BY DEF KitTotalIsUnitTimesQuantity
  <2> DEFINE price(i) == products[ItemProduct(k, i)].base_price
             n(i) == kits[k].items[i].quantity
             a == [i \in Rows(k) |-> price(i) * n(i)]
             b == [i \in Rows(k) |-> price(i) * (n(i) * q)]
  <2>1. q \in Nat
    BY PricingAssumption DEF Quantities
  <2>2. IsFiniteSet(Rows(k))
    BY KitRowsAreFinite
  <2>3. \A i \in Rows(k) : price(i) \in Nat /\ n(i) \in Nat
    BY KitRows, PricingAssumption DEF PricingTypeOK, Product
  <2>4. \A i \in Rows(k) : a[i] \in Nat /\ b[i] = a[i] * q
    BY <2>1, <2>3, ProductOfThree
  <2>5. KitUnitPrice(k) = SumOf(a)
    BY DEF KitUnitPrice, ProductTotal, SumOver, FoldFunction, FoldFunctionOnSet,
           MapThenFoldSet, SumOf, IsSum, Partial, Any
  <2>6. KitSubtotal(k, q) = SumOf(b)
    BY DEF KitSubtotal, ProductTotal, EffectiveQuantity, SumOver, FoldFunction,
           FoldFunctionOnSet, MapThenFoldSet, SumOf, IsSum, Partial, Any
  <2>7. DOMAIN a = Rows(k) /\ DOMAIN b = Rows(k)
    OBVIOUS
  <2> HIDE DEF a, b
  <2>8. /\ \E f : IsSum(f, a, Rows(k)) /\ SumOf(a) = f[Rows(k)]
        /\ \E g : IsSum(g, b, Rows(k)) /\ SumOf(b) = g[Rows(k)]
    BY <2>2, <2>7, SumOfIsSum
  <2>9. QED
    BY <2>1, <2>2, <2>4, <2>5, <2>6, <2>8, SumScales
<1>2. QED
  BY <1>1, PricingTypeCorrect, PTL
===============================================================================
