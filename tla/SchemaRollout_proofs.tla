------------------------- MODULE SchemaRollout_proofs --------------------------
(***************************************************************************)
(* The rows under the migrations, for any numbers of rows and writers, and *)
(* the schema, on whatever way up and down the chain.                      *)
(***************************************************************************)
EXTENDS SchemaRollout, TLAPS

(* There are fifteen revisions.                                            *)
LEMMA ChainLength == Len(Chain) = 15
  BY DEF Chain

(* Each payment's identity as the revisions below, at and above the expand *)
(* revision have it.                                                       *)
IdentityFollowsRevision ==
  /\ revision < Expanded => \A p \in payments : p.identity = NoIdentity(p.id)
  /\ revision >= Expanded =>
       \A p \in payments : p.writer = "present" => OwnIdentity(p)
  /\ revision = Contracted =>
       (\A p \in payments : Identified(p.identity)) /\ UniqueIdentities

(* What the contract has inspected is there unchanged until it applies.    *)
InspectionStands ==
  /\ inspecting => revision < Len(Chain)
  /\ inspecting /\ revision = Expanded =>
       /\ inspected \subseteq {p.id : p \in payments}
       /\ \A p \in payments :
            p.id \in inspected =>
              Identified(p.identity) /\ p.identity.prefix # "uncommitted"

RolloutInv ==
  /\ SchemaTypeOK
  /\ MigrationsInventNoOwner
  /\ IdentityFollowsRevision
  /\ InspectionStands

USE DEF Expanded, Contracted, WithOwners, WithTemplateProducts, WithDesigns,
        WithTemplates, WithPayments, WithEventKey

LEMMA InitRollout == Init => RolloutInv
<1> SUFFICES ASSUME Init PROVE RolloutInv
  OBVIOUS
<1>1. inspecting \in BOOLEAN /\ ~inspecting
  BY DEF Init
<1>2. SchemaTypeOK
  BY <1>1, ChainLength DEF Init, SchemaTypeOK, UniqueIds
<1>3. QED
  BY <1>1, <1>2 DEF Init, RolloutInv, MigrationsInventNoOwner,
     IdentityFollowsRevision, InspectionStands, UniqueIdentities

LEMMA InspectStep == ASSUME RolloutInv, Inspect PROVE RolloutInv'
<1>1. SchemaTypeOK'
  BY DEF RolloutInv, Inspect, SchemaTypeOK, UniqueIds, Payment
<1>2. MigrationsInventNoOwner' /\ IdentityFollowsRevision'
  BY DEF RolloutInv, Inspect, MigrationsInventNoOwner, IdentityFollowsRevision,
     UniqueIdentities
<1>3. InspectionStands'
  BY DEF Inspect, InspectionStands, InspectionFails
<1>4. QED
  BY <1>1, <1>2, <1>3 DEF RolloutInv

LEMMA AbortStep == ASSUME RolloutInv, AbortUpgrade PROVE RolloutInv'
  BY DEF RolloutInv, AbortUpgrade, SchemaTypeOK, UniqueIds, MigrationsInventNoOwner,
     IdentityFollowsRevision, UniqueIdentities, InspectionStands

(* Before the expand revision nothing is identified, so all is backfilled. *)
LEMMA BackfillGivesOwnIdentity ==
  ASSUME RolloutInv, NEW p \in payments
  PROVE  /\ revision + 1 = Expanded =>
              Backfilled(revision + 1, p) = [p EXCEPT !.identity = LegacyIdentity(p.id)]
         /\ revision + 1 # Expanded => Backfilled(revision + 1, p) = p
<1>1. CASE revision + 1 = Expanded
  <2>1. p.identity = NoIdentity(p.id)
    BY <1>1, ChainLength DEF RolloutInv, SchemaTypeOK, IdentityFollowsRevision
  <2>2. p.identity.prefix = "null"
    BY <2>1 DEF NoIdentity
  <2>3. QED
    BY <1>1, <2>2 DEF Backfilled, Identified
<1>2. CASE revision + 1 # Expanded
  BY <1>2 DEF Backfilled
<1>3. QED
  BY <1>1, <1>2

LEMMA ApplyStep == ASSUME RolloutInv, Apply PROVE RolloutInv'
<1>0. inspecting' \in BOOLEAN
  BY DEF Apply
<1>1. /\ revision \in 0..14 /\ revision' = revision + 1
      /\ ~inspecting' /\ inspected' = {}
  BY ChainLength DEF RolloutInv, SchemaTypeOK, InspectionStands, Apply
<1>2. MigrationsInventNoOwner'
  BY <1>1 DEF RolloutInv, MigrationsInventNoOwner, Apply, DatabaseAccepts
<1>3. InspectionStands'
  BY <1>1 DEF InspectionStands
<1>4. CASE revision' = Expanded
  <2>1. payments' = {[p EXCEPT !.identity = LegacyIdentity(p.id)] : p \in payments}
    <3>1. \A p \in payments :
            Backfilled(revision + 1, p) = [p EXCEPT !.identity = LegacyIdentity(p.id)]
      BY <1>1, <1>4, BackfillGivesOwnIdentity
    <3>2. payments' = {Backfilled(revision + 1, p) : p \in payments}
      BY DEF Apply
    <3>3. QED
      BY <3>1, <3>2, Zenon
  <2>2. payments \subseteq Payment /\ UniqueIds
    BY DEF RolloutInv, SchemaTypeOK
  <2>3. \A q \in payments' : q \in Payment /\ q.identity = LegacyIdentity(q.id)
    BY <2>1, <2>2 DEF Payment, Identity, LegacyIdentity, ProviderCodes, Prefixes
  <2>4. UniqueIds'
    BY <2>1, <2>2 DEF UniqueIds, Payment
  <2>5. SchemaTypeOK'
    BY <1>0, <1>1, <1>4, <2>3, <2>4, ChainLength DEF RolloutInv, SchemaTypeOK, Apply
  <2>6. IdentityFollowsRevision'
    BY <1>1, <1>4, <2>3 DEF IdentityFollowsRevision, OwnIdentity
  <2>7. QED
    BY <1>2, <1>3, <2>5, <2>6 DEF RolloutInv
<1>5. CASE revision' # Expanded
  <2>1. payments' = payments
    BY <1>1, <1>5, BackfillGivesOwnIdentity DEF Apply
  <2>2. SchemaTypeOK'
    BY <1>0, <1>1, <2>1, ChainLength DEF RolloutInv, SchemaTypeOK, UniqueIds, Apply
  <2>3. IdentityFollowsRevision'
    BY <1>1, <1>5, <2>1
       DEF RolloutInv, IdentityFollowsRevision, UniqueIdentities, Apply, DatabaseAccepts
  <2>4. QED
    BY <1>2, <1>3, <2>2, <2>3 DEF RolloutInv
<1>6. QED
  BY <1>4, <1>5

LEMMA DowngradeStep == ASSUME RolloutInv, Downgrade PROVE RolloutInv'
<1>1. /\ revision \in 1..15 /\ revision' = revision - 1
      /\ inspecting' = inspecting /\ ~inspecting /\ inspected' = inspected
  BY ChainLength DEF RolloutInv, SchemaTypeOK, Downgrade
<1>2. designs' \subseteq Design /\ (revision' < WithDesigns => designs' = {})
  BY <1>1 DEF RolloutInv, SchemaTypeOK, Downgrade, Design
<1>3. templates' \subseteq Template /\ (revision' < WithTemplates => templates' = {})
  BY <1>1 DEF RolloutInv, SchemaTypeOK, Downgrade, Template
<1>4. MigrationsInventNoOwner'
  <2>1. \A d \in designs' :
          d.customer_id = IF revision' >= WithOwners THEN d.author ELSE Null
    BY <1>1 DEF RolloutInv, SchemaTypeOK, MigrationsInventNoOwner, Downgrade, Design
  <2>2. \A t \in templates' :
          t.product_id = IF revision' >= WithTemplateProducts THEN t.made_for ELSE Null
    BY <1>1 DEF RolloutInv, SchemaTypeOK, MigrationsInventNoOwner, Downgrade, Template
  <2>3. QED
    BY <2>1, <2>2 DEF MigrationsInventNoOwner
<1>5. CASE revision = Expanded
  <2>1. payments' = {[p EXCEPT !.identity = NoIdentity(p.id)] : p \in payments}
    BY <1>5 DEF Downgrade
  <2>2. payments \subseteq Payment /\ UniqueIds
    BY DEF RolloutInv, SchemaTypeOK
  <2>3. \A q \in payments' : q \in Payment /\ q.identity = NoIdentity(q.id)
    BY <2>1, <2>2 DEF Payment, Identity, NoIdentity, ProviderCodes, Prefixes
  <2>4. UniqueIds'
    BY <2>1, <2>2 DEF UniqueIds, Payment
  <2>5. IdentityFollowsRevision'
    BY <1>1, <1>5, <2>3 DEF IdentityFollowsRevision
  <2>6. SchemaTypeOK'
    BY <1>1, <1>2, <1>3, <1>5, <2>3, <2>4, ChainLength DEF RolloutInv, SchemaTypeOK
  <2>7. QED
    BY <1>1, <1>4, <2>5, <2>6 DEF RolloutInv, InspectionStands
<1>6. CASE revision # Expanded
  <2>1. payments' = IF revision = WithPayments THEN {} ELSE payments
    BY <1>6 DEF Downgrade
  <2>2. SchemaTypeOK'
    BY <1>1, <1>2, <1>3, <2>1, ChainLength DEF RolloutInv, SchemaTypeOK, UniqueIds
  <2>3. IdentityFollowsRevision'
    BY <1>1, <1>6, <2>1 DEF RolloutInv, IdentityFollowsRevision
  <2>4. QED
    BY <1>1, <1>4, <2>2, <2>3 DEF RolloutInv, InspectionStands
<1>7. QED
  BY <1>5, <1>6

(* Designs and templates are written whatever becomes of the payments.     *)
LEMMA RowStep ==
  ASSUME RolloutInv,
         \/ \E i \in DesignIds, t \in TemplateIds, c \in Customers : WriteDesign(i, t, c)
         \/ \E i \in TemplateIds, p \in Products : WriteTemplate(i, p)
         \/ \E d \in designs : RemoveDesign(d)
         \/ \E t \in templates : RemoveTemplate(t)
  PROVE  RolloutInv'
<1>1. UNCHANGED <<revision, schema, inspecting, inspected, payments>>
  BY DEF WriteDesign, WriteTemplate, RemoveDesign, RemoveTemplate
<1>2. /\ designs' \subseteq Design
      /\ revision < WithDesigns => designs' = {}
      /\ \A d \in designs' :
           d.customer_id = IF revision >= WithOwners THEN d.author ELSE Null
  BY ChainLength
     DEF RolloutInv, SchemaTypeOK, MigrationsInventNoOwner, Design, WriteDesign,
         WriteTemplate, RemoveDesign, RemoveTemplate
<1>3. /\ templates' \subseteq Template
      /\ revision < WithTemplates => templates' = {}
      /\ \A t \in templates' :
           t.product_id = IF revision >= WithTemplateProducts THEN t.made_for ELSE Null
  BY ChainLength
     DEF RolloutInv, SchemaTypeOK, MigrationsInventNoOwner, Template, WriteDesign,
         WriteTemplate, RemoveDesign, RemoveTemplate
<1>4. QED
  BY <1>1, <1>2, <1>3
     DEF RolloutInv, SchemaTypeOK, UniqueIds, MigrationsInventNoOwner,
         IdentityFollowsRevision, UniqueIdentities, InspectionStands

(* A payment is inserted with an identity that its writer may give it.     *)
LEMMA InsertStep ==
  ASSUME RolloutInv, NEW row \in Payment, InsertPayment(row),
         revision >= WithPayments,
         revision < Expanded => row.identity = NoIdentity(row.id),
         row.writer = "present" => OwnIdentity(row)
  PROVE  RolloutInv'
<1>1. /\ payments' = payments \cup {row}
      /\ \A p \in payments : p.id # row.id
      /\ UNCHANGED <<revision, schema, inspecting, inspected, designs, templates>>
  BY DEF InsertPayment
<1>2. SchemaTypeOK'
  BY <1>1, ChainLength DEF RolloutInv, SchemaTypeOK, UniqueIds
<1>3. IdentityFollowsRevision'
  BY <1>1 DEF RolloutInv, SchemaTypeOK, IdentityFollowsRevision, UniqueIdentities,
              InsertPayment, OwnIdentity
<1>4. InspectionStands'
  BY <1>1 DEF RolloutInv, InspectionStands
<1>5. QED
  BY <1>1, <1>2, <1>3, <1>4 DEF RolloutInv, MigrationsInventNoOwner

LEMMA PaymentStep ==
  ASSUME RolloutInv, NEW i \in PaymentIds, NEW k \in EventKeys \cup {Null},
         CreateLegacyPayment(i, k) \/ CreateOtherPayment(i, k) \/ CreateWompiPayment(i)
  PROVE  RolloutInv'
<1>0. revision \in 0..15
  BY ChainLength DEF RolloutInv, SchemaTypeOK
<1>1. CASE CreateLegacyPayment(i, k)
  BY <1>0, <1>1, InsertStep
     DEF CreateLegacyPayment, Payment, Identity, LegacyIdentity, ProviderCodes, Prefixes,
         Writers, OwnIdentity
<1>2. CASE CreateWompiPayment(i)
  BY <1>0, <1>2, InsertStep
     DEF CreateWompiPayment, Payment, Identity, WompiIdentity, ProviderCodes, Prefixes,
         Writers, OwnIdentity
<1>3. CASE CreateOtherPayment(i, k)
  <2>1. PICK identity \in OtherIdentities(i) :
          InsertPayment([id |-> i, event_key |-> k, writer |-> "other",
                         identity |-> identity])
    BY <1>3 DEF CreateOtherPayment
  <2>2. identity \in Identity /\ (revision < Expanded => identity = NoIdentity(i))
    BY <1>0 DEF OtherIdentities, Identity, NoIdentity, LegacyIdentity, ProviderCodes, Prefixes
  <2>3. [id |-> i, event_key |-> k, writer |-> "other", identity |-> identity] \in Payment
    BY <2>2 DEF Payment, Writers
  <2>4. QED
    BY <1>0, <1>3, <2>1, <2>2, <2>3, InsertStep DEF CreateOtherPayment
<1>4. QED
  BY <1>1, <1>2, <1>3

LEMMA NextRollout == RolloutInv /\ [Next]_vars => RolloutInv'
<1> SUFFICES ASSUME RolloutInv, [Next]_vars PROVE RolloutInv'
  OBVIOUS
<1>1. CASE Inspect
  BY <1>1, InspectStep
<1>2. CASE Apply
  BY <1>2, ApplyStep
<1>3. CASE AbortUpgrade
  BY <1>3, AbortStep
<1>4. CASE Downgrade
  BY <1>4, DowngradeStep
<1>5. CASE Write
  BY <1>5, RowStep, PaymentStep DEF Write
<1>6. CASE UNCHANGED vars
  BY <1>6 DEF vars, RolloutInv, SchemaTypeOK, UniqueIds, MigrationsInventNoOwner,
              IdentityFollowsRevision, UniqueIdentities, InspectionStands
<1>7. QED
  BY <1>1, <1>2, <1>3, <1>4, <1>5, <1>6 DEF Next

-------------------------------------------------------------------------------
(* The inductive invariant of the rows: whose identity each payment has at *)
(* each revision, and what the contract saw.                               *)
THEOREM RolloutInvCorrect == Spec => []RolloutInv
<1>1. QED
  BY InitRollout, NextRollout, PTL DEF Spec

(* Rows keep their types and ids, and there are none without their table.  *)
THEOREM RowsTypeCorrect == Spec => []SchemaTypeOK
<1>1. RolloutInv => SchemaTypeOK
  BY DEF RolloutInv
<1>2. QED
  BY <1>1, RolloutInvCorrect, PTL

(* Owners of designs and products of templates are never made up, however  *)
(* often the database goes up and down.                                    *)
THEOREM OwnersAreNotInvented == Spec => []MigrationsInventNoOwner
<1>1. RolloutInv => MigrationsInventNoOwner
  BY DEF RolloutInv
<1>2. QED
  BY <1>1, RolloutInvCorrect, PTL

LEMMA OwnIdentitiesPass ==
  ASSUME RolloutInv, \A p \in payments : OwnIdentity(p)
  PROVE  /\ \A p \in payments :
              Identified(p.identity) /\ p.identity.prefix # "uncommitted"
         /\ UniqueIdentities
<1>1. \A p \in payments :
        p.identity = LegacyIdentity(p.id) \/ p.identity = WompiIdentity(p.id)
  BY DEF OwnIdentity
<1>2. ASSUME NEW p \in payments
      PROVE  /\ p.identity.number = p.id
             /\ Identified(p.identity) /\ p.identity.prefix # "uncommitted"
  <2>1. CASE p.identity = LegacyIdentity(p.id)
    BY <2>1 DEF LegacyIdentity, Identified
  <2>2. CASE p.identity = WompiIdentity(p.id)
    BY <2>2 DEF WompiIdentity, Identified
  <2>3. QED
    BY <1>1, <2>1, <2>2
<1>3. UniqueIdentities
  BY <1>2 DEF RolloutInv, SchemaTypeOK, UniqueIds, UniqueIdentities
<1>4. QED
  BY <1>2, <1>3

(* Backfill and present writers are compatible with the contract.          *)
THEOREM ContractWaitsForOthersOnly == Spec => []OnlyOtherWritersStopTheContract
<1>1. RolloutInv => OnlyOtherWritersStopTheContract
  <2> SUFFICES ASSUME RolloutInv, revision = Expanded,
                      \A p \in payments : ~(p.writer = "other" /\ ~OwnIdentity(p))
               PROVE  ~InspectionFails(Contracted) /\ DatabaseAccepts(Contracted)
    BY DEF OnlyOtherWritersStopTheContract
  <2>1. \A p \in payments : OwnIdentity(p)
    BY DEF RolloutInv, SchemaTypeOK, IdentityFollowsRevision, Payment, Writers
  <2>2. QED
    BY <2>1, OwnIdentitiesPass DEF InspectionFails, DatabaseAccepts
<1>2. QED
  BY <1>1, RolloutInvCorrect, PTL

(* The contract applies to what it inspected and rewrites no identity.     *)
THEOREM ContractSeesWhatItSaw == Spec => ContractFollowsInspection
<1> DEFINE Followed ==
      revision = Expanded /\ revision' = Contracted =>
        /\ payments' = payments
        /\ UniqueIdentities
        /\ \A p \in payments :
             p.id \in inspected =>
               Identified(p.identity) /\ p.identity.prefix # "uncommitted"
<1>1. RolloutInv /\ [Next]_vars => Followed
  <2> SUFFICES ASSUME RolloutInv, [Next]_vars, revision = Expanded,
                      revision' = Contracted
               PROVE  Followed
    OBVIOUS
  <2>1. Apply
    BY DEF Next, vars, Inspect, AbortUpgrade, Downgrade, Write, WriteDesign,
           WriteTemplate, RemoveDesign, RemoveTemplate, InsertPayment,
           CreateLegacyPayment, CreateWompiPayment, CreateOtherPayment
  <2>2. payments' = payments
    BY <2>1, BackfillGivesOwnIdentity DEF Apply
  <2>3. QED
    BY <2>1, <2>2 DEF Apply, DatabaseAccepts, RolloutInv, InspectionStands
<1>2. Followed => [Followed]_vars
  OBVIOUS
<1>3. QED
  BY <1>1, RolloutInvCorrect, PTL DEF Spec, ContractFollowsInspection

-------------------------------------------------------------------------------
(* The schema                                                              *)

(***************************************************************************)
(* Since which revision there is a table, a column, the requirement of a   *)
(* column or a unique key.  Every part of a schema dates from exactly one  *)
(* revision: with one lemma per revision that says so, what its downgrade  *)
(* drops is what its upgrade added, and nothing older.                     *)
(***************************************************************************)
TableSince ==
  [users |-> 1, categories |-> 2, products |-> 3, audit_logs |-> 4, templates |-> 5,
   template_fields |-> 6, kits |-> 7, kit_items |-> 7, designs |-> 8, orders |-> 9,
   order_items |-> 9, payments |-> 10, payment_webhook_events |-> 11,
   payment_provider_transactions |-> 14, payment_provider_events |-> 14]

AllTables == DOMAIN TableSince

(* Columns that are younger than their table.                              *)
IsLate(t, c) ==
  \/ <<t, c>> \in {<<"users", "role">>, <<"designs", "customer_id">>,
                  <<"templates", "product_id">>}
  \/ <<t, c>> \in ProviderColumns

LateSince == [users |-> 4, designs |-> 12, templates |-> 13, payments |-> 14]

ColumnSince(t, c) == IF IsLate(t, c) THEN LateSince[t] ELSE TableSince[t]

RequiredSince(x) == IF x \in IdentityColumns THEN 15 ELSE ColumnSince(x[1], x[2])

TransactionKey ==
  <<"payment_provider_transactions", {"provider_code", "provider_transaction_reference"}>>

ProviderEventKey ==
  <<"payment_provider_events", {"provider_code", "provider_event_reference"}>>

AllKeys ==
  {<<"users", {"email"}>>, <<"categories", {"name"}>>,
   <<"payment_webhook_events", {"event_id"}>>, EventKey, IdentityKey,
   TransactionKey, ProviderEventKey}

KeySince(x) ==
  CASE x = EventKey -> 11
    [] x = IdentityKey -> 15
    [] OTHER -> TableSince[x[1]]

(* The dates of the tables, one by one.                                    *)
LEMMA TablesSince ==
  /\ TableSince["users"] = 1 /\ TableSince["categories"] = 2
  /\ TableSince["products"] = 3 /\ TableSince["audit_logs"] = 4
  /\ TableSince["templates"] = 5 /\ TableSince["template_fields"] = 6
  /\ TableSince["kits"] = 7 /\ TableSince["kit_items"] = 7
  /\ TableSince["designs"] = 8 /\ TableSince["orders"] = 9
  /\ TableSince["order_items"] = 9 /\ TableSince["payments"] = 10
  /\ TableSince["payment_webhook_events"] = 11
  /\ TableSince["payment_provider_transactions"] = 14
  /\ TableSince["payment_provider_events"] = 14
BY DEF TableSince

(* The tables there are.                                                   *)
LEMMA TablesAre ==
  AllTables = {"users", "categories", "products", "audit_logs", "templates",
               "template_fields", "kits", "kit_items", "designs", "orders",
               "order_items", "payments", "payment_webhook_events",
               "payment_provider_transactions", "payment_provider_events"}
BY DEF AllTables, TableSince

(* The same, to look one up.                                               *)
LEMMA KnownTables ==
  \A t \in {"users", "categories", "products", "audit_logs", "templates",
            "template_fields", "kits", "kit_items", "designs", "orders",
            "order_items", "payments", "payment_webhook_events",
            "payment_provider_transactions", "payment_provider_events"} : t \in AllTables
BY TablesAre

(* Columns younger than their table, and since when.                       *)
LEMMA LateColumns ==
  /\ \A t, c : IsLate(t, c) => t \in AllTables /\ TableSince[t] < LateSince[t]
  /\ \A c : IsLate("users", c) <=> c = "role"
  /\ \A c : IsLate("designs", c) <=> c = "customer_id"
  /\ \A c : IsLate("templates", c) <=> c = "product_id"
  /\ \A c : IsLate("payments", c) <=>
       c \in {"provider_code", "merchant_reference", "provider_checkout_reference",
              "checkout_expires_at"}
  /\ \A t, c : IsLate(t, c) => t \in {"users", "designs", "templates", "payments"}
  /\ \A t, c : <<t, c>> \in ProviderColumns <=> IsLate(t, c) /\ LateSince[t] = 14
  /\ LateSince["users"] = 4 /\ LateSince["designs"] = 12
  /\ LateSince["templates"] = 13 /\ LateSince["payments"] = 14
<1>1. LateSince["users"] = 4 /\ LateSince["designs"] = 12
      /\ LateSince["templates"] = 13 /\ LateSince["payments"] = 14
  BY DEF LateSince
<1>2. \A t, c : IsLate(t, c) => t \in {"users", "designs", "templates", "payments"}
  BY DEF IsLate, ProviderColumns
<1>3. \A t, c : IsLate(t, c) => t \in AllTables /\ TableSince[t] < LateSince[t]
  BY <1>1, <1>2, TablesSince, KnownTables
<1>4. \A t, c : <<t, c>> \in ProviderColumns <=> t = "payments" /\ IsLate(t, c)
  BY DEF IsLate, ProviderColumns
<1>5. \A t, c : <<t, c>> \in ProviderColumns <=> IsLate(t, c) /\ LateSince[t] = 14
  <2> SUFFICES ASSUME NEW t, NEW c
               PROVE  <<t, c>> \in ProviderColumns <=> IsLate(t, c) /\ LateSince[t] = 14
    OBVIOUS
  <2>1. IsLate(t, c) => (LateSince[t] = 14 <=> t = "payments")
    BY <1>1, <1>2
  <2>2. QED
    BY <1>4, <2>1
<1>6. QED
  BY <1>1, <1>2, <1>3, <1>5 DEF IsLate, ProviderColumns

(* Since when there are the columns that the schema speaks of.             *)
LEMMA ColumnsSince ==
  /\ \A t : t \notin {"users", "designs", "templates", "payments"} =>
       \A c : ColumnSince(t, c) = TableSince[t]
  /\ ColumnSince("users", "role") = 4
  /\ ColumnSince("designs", "customer_id") = 12
  /\ ColumnSince("designs", "template_id") = 8
  /\ ColumnSince("templates", "product_id") = 13
  /\ \A c : ColumnSince("payments", c) =
       IF c \in {"provider_code", "merchant_reference", "provider_checkout_reference",
                 "checkout_expires_at"} THEN 14 ELSE 10
<1>1. \A t, c : IsLate(t, c) => t \in {"users", "designs", "templates", "payments"}
  BY DEF IsLate, ProviderColumns
<1>2. QED
  BY <1>1, LateColumns, TablesSince DEF ColumnSince

(* Since when there are the unique keys.                                   *)
LEMMA KeysSince ==
  /\ KeySince(<<"users", {"email"}>>) = 1
  /\ KeySince(<<"categories", {"name"}>>) = 2
  /\ KeySince(<<"payment_webhook_events", {"event_id"}>>) = 11
  /\ KeySince(EventKey) = 11
  /\ KeySince(IdentityKey) = 15
  /\ KeySince(TransactionKey) = 14
  /\ KeySince(ProviderEventKey) = 14
<1>1. EventKey # IdentityKey
  BY DEF EventKey, IdentityKey
<1>2. \A t, k : t # "payments" => KeySince(<<t, k>>) = TableSince[t]
  BY DEF KeySince, EventKey, IdentityKey
<1>3. KeySince(EventKey) = 11 /\ KeySince(IdentityKey) = 15
  BY <1>1 DEF KeySince
<1>4. QED
  BY <1>2, <1>3, TablesSince DEF TransactionKey, ProviderEventKey

(* All that an upgrade adds dates from revision n, and what it refers to   *)
(* from no later.                                                          *)
Dated(u, n) ==
  /\ \A t \in u.tables : t \in AllTables /\ TableSince[t] = n
  /\ \A x \in u.columns : x[1] \in AllTables /\ ColumnSince(x[1], x[2]) = n
  /\ \A x \in u.required : x[1] \in AllTables /\ RequiredSince(x) = n
  /\ \A x \in u.references :
       /\ x[1] \in AllTables /\ ColumnSince(x[1], x[2]) = n
       /\ x[3] \in AllTables /\ TableSince[x[3]] <= n
  /\ \A x \in u.keys : x \in AllKeys /\ KeySince(x) = n
  /\ \A x \in u.checks : x[1] \in AllTables /\ ColumnSince(x[1], x[2]) = n

(* A downgrade drops what dates from revision n.                           *)
Undoes(d, n) ==
  /\ \A t \in AllTables : t \in d.tables <=> TableSince[t] = n
  /\ \A t \in AllTables : \A c :
       <<t, c>> \in d.columns <=> IsLate(t, c) /\ LateSince[t] = n
  /\ d.required = IF n = 15 THEN IdentityColumns ELSE {}
  /\ \A x \in d.references : ColumnSince(x[1], x[2]) = n
  /\ d.keys = IF n = 11 THEN {EventKey} ELSE IF n = 15 THEN {IdentityKey} ELSE {}
  /\ d.checks = {}

(* What the revisions of orders, payments and provider tables create.      *)
OrderingReferences ==
  {<<"orders", "customer_id", "users">>,
   <<"order_items", "order_id", "orders">>,
   <<"order_items", "product_id", "products">>,
   <<"order_items", "kit_id", "kits">>,
   <<"order_items", "template_id", "templates">>,
   <<"order_items", "design_id", "designs">>}

OrderingChecks ==
  {<<"orders", "status",
     {"draft", "confirmed", "sent_to_provider", "accepted", "in_production",
      "ready_for_pickup", "shipped", "delivered", "cancellation_requested",
      "cancelled"}>>,
   <<"orders", "cancellation_requested_from",
     {"confirmed", "accepted", "in_production"}>>,
   <<"order_items", "item_type", {"product", "kit", "design"}>>,
   <<"order_items", "quantity", {"positive"}>>}
  \cup Iso("orders") \cup Iso("order_items")
  \cup Nonnegative("orders", {"subtotal_amount", "discount_amount",
                              "tax_amount", "total_amount"})
  \cup Nonnegative("order_items",
         {"unit_price_amount", "line_subtotal_amount", "line_discount_amount",
          "line_tax_amount", "line_total_amount"})

PaymentChecks ==
  {<<"payments", "status",
     {"initiated", "pending", "requires_action", "verified",
      "failed", "cancelled", "expired"}>>}
  \cup Iso("payments") \cup Nonnegative("payments", {"amount"})

ProviderReferences ==
  {<<"payment_provider_transactions", "payment_id", "payments">>,
   <<"payment_provider_events", "payment_id", "payments">>,
   <<"payment_provider_events", "payment_provider_transaction_id",
     "payment_provider_transactions">>}

ProviderChecks ==
  {<<"payment_provider_transactions", "normalized_status",
     {"initiated", "pending", "requires_action", "verified", "failed",
      "cancelled", "expired"}>>}
  \cup Iso("payment_provider_transactions")
  \cup Nonnegative("payment_provider_transactions", {"amount"})

(* The tables and columns that CHECKs are about.                           *)
LEMMA ChecksAreOfTheirTables ==
  /\ \A x \in OrderingChecks : x[1] \in {"orders", "order_items"}
  /\ \A x \in PaymentChecks :
       x[1] = "payments" /\ x[2] \in {"status", "currency", "amount"}
  /\ \A x \in ProviderChecks : x[1] = "payment_provider_transactions"
<1>1. \A t, amounts : /\ \A x \in Iso(t) : x[1] = t
                     /\ \A x \in Nonnegative(t, amounts) : x[1] = t
  BY DEF Iso, Nonnegative
<1>2. \A x \in OrderingChecks : x[1] \in {"orders", "order_items"}
  BY <1>1 DEF OrderingChecks
<1>3. \A x \in PaymentChecks : x[1] = "payments"
  BY <1>1 DEF PaymentChecks
<1>4. /\ \A x \in Iso("payments") : x[2] = "currency"
      /\ \A x \in Nonnegative("payments", {"amount"}) : x[2] = "amount"
  BY DEF Iso, Nonnegative
<1>5. \A x \in PaymentChecks : x[2] \in {"status", "currency", "amount"}
  BY <1>4 DEF PaymentChecks
<1>6. \A x \in ProviderChecks : x[1] = "payment_provider_transactions"
  BY <1>1 DEF ProviderChecks
<1>7. QED
  BY <1>2, <1>3, <1>5, <1>6

(* Everything that some revision adds.                                     *)
YoungColumns ==
  {<<"users", "role">>, <<"designs", "customer_id">>, <<"templates", "product_id">>}

KitReferences ==
  {<<"kit_items", "kit_id", "kits">>, <<"kit_items", "product_id", "products">>}

CatalogReferences ==
  {<<"products", "category_id", "categories">>,
   <<"audit_logs", "actor_user_id", "users">>,
   <<"template_fields", "template_id", "templates">>,
   <<"designs", "template_id", "templates">>,
   <<"payments", "order_id", "orders">>,
   <<"designs", "customer_id", "users">>,
   <<"templates", "product_id", "products">>}

WebhookReferences ==
  {<<"payment_webhook_events", "order_id", "orders">>,
   <<"payment_webhook_events", "payment_id", "payments">>}

AllParts ==
  [tables |-> AllTables,
   columns |-> YoungColumns \cup ProviderColumns,
   required |-> YoungColumns \cup IdentityColumns,
   references |-> CatalogReferences \cup KitReferences \cup OrderingReferences
                    \cup WebhookReferences \cup ProviderReferences,
   keys |-> AllKeys,
   checks |-> OrderingChecks \cup PaymentChecks \cup ProviderChecks]

Declared(u) == \A part \in DOMAIN AllParts : u[part] \subseteq AllParts[part]

(* Declared, part by part.                                                 *)
LEMMA DeclaredParts ==
  ASSUME NEW u
  PROVE  Declared(u) <=>
           /\ u.tables \subseteq AllParts.tables
           /\ u.columns \subseteq AllParts.columns
           /\ u.required \subseteq AllParts.required
           /\ u.references \subseteq AllParts.references
           /\ u.keys \subseteq AllParts.keys
           /\ u.checks \subseteq AllParts.checks
BY DEF Declared, AllParts

(* What each revision adds and drops.                                      *)
LEMMA Revision1 ==
  LET u == CreateUsersTable.upgrade
      d == CreateUsersTable.downgrade
  IN  /\ u.tables = {"users"}
      /\ u.keys = {<<"users", {"email"}>>}
      /\ u.columns = {} /\ u.required = {} /\ u.references = {}
      /\ u.checks = {}
      /\ d.tables = {"users"}
      /\ d.columns = {} /\ d.required = {} /\ d.references = {}
      /\ d.keys = {} /\ d.checks = {}
BY DEF CreateUsersTable, CreatesTables, Revision, NoChange

LEMMA Revision2 ==
  LET u == CreateCategoriesTable.upgrade
      d == CreateCategoriesTable.downgrade
  IN  /\ u.tables = {"categories"}
      /\ u.keys = {<<"categories", {"name"}>>}
      /\ u.columns = {} /\ u.required = {} /\ u.references = {}
      /\ u.checks = {}
      /\ d.tables = {"categories"}
      /\ d.columns = {} /\ d.required = {} /\ d.references = {}
      /\ d.keys = {} /\ d.checks = {}
BY DEF CreateCategoriesTable, CreatesTables, Revision, NoChange

LEMMA Revision3 ==
  LET u == CreateProductsTable.upgrade
      d == CreateProductsTable.downgrade
  IN  /\ u.tables = {"products"}
      /\ u.references = {<<"products", "category_id", "categories">>}
      /\ u.columns = {} /\ u.required = {} /\ u.keys = {}
      /\ u.checks = {}
      /\ d.tables = {"products"}
      /\ d.columns = {} /\ d.required = {} /\ d.references = {}
      /\ d.keys = {} /\ d.checks = {}
BY DEF CreateProductsTable, CreatesTables, Revision, NoChange

LEMMA Revision4 ==
  LET u == AddAdminRoleAndAuditLogs.upgrade
      d == AddAdminRoleAndAuditLogs.downgrade
  IN  /\ u.tables = {"audit_logs"}
      /\ u.columns = {<<"users", "role">>}
      /\ u.required = {<<"users", "role">>}
      /\ u.references = {<<"audit_logs", "actor_user_id", "users">>}
      /\ u.keys = {} /\ u.checks = {}
      /\ d.tables = {"audit_logs"}
      /\ d.columns = {<<"users", "role">>}
      /\ d.required = {} /\ d.references = {} /\ d.keys = {}
      /\ d.checks = {}
BY DEF AddAdminRoleAndAuditLogs, Revision, NoChange

LEMMA Revision5 ==
  LET u == CreateTemplatesTable.upgrade
      d == CreateTemplatesTable.downgrade
  IN  /\ u.tables = {"templates"}
      /\ u.columns = {} /\ u.required = {} /\ u.references = {}
      /\ u.keys = {} /\ u.checks = {}
      /\ d.tables = {"templates"}
      /\ d.columns = {} /\ d.required = {} /\ d.references = {}
      /\ d.keys = {} /\ d.checks = {}
BY DEF CreateTemplatesTable, CreatesTables, Revision, NoChange

LEMMA Revision6 ==
  LET u == CreateTemplateFieldsTable.upgrade
      d == CreateTemplateFieldsTable.downgrade
  IN  /\ u.tables = {"template_fields"}
      /\ u.references = {<<"template_fields", "template_id", "templates">>}
      /\ u.columns = {} /\ u.required = {} /\ u.keys = {}
      /\ u.checks = {}
      /\ d.tables = {"template_fields"}
      /\ d.columns = {} /\ d.required = {} /\ d.references = {}
      /\ d.keys = {} /\ d.checks = {}
BY DEF CreateTemplateFieldsTable, CreatesTables, Revision, NoChange

LEMMA Revision7 ==
  LET u == CreateKitsAndKitItemsTables.upgrade
      d == CreateKitsAndKitItemsTables.downgrade
  IN  /\ u.tables = {"kits", "kit_items"}
      /\ u.references = {<<"kit_items", "kit_id", "kits">>,
                       <<"kit_items", "product_id", "products">>}
      /\ u.columns = {} /\ u.required = {} /\ u.keys = {}
      /\ u.checks = {}
      /\ d.tables = {"kits", "kit_items"}
      /\ d.columns = {} /\ d.required = {} /\ d.references = {}
      /\ d.keys = {} /\ d.checks = {}
BY DEF CreateKitsAndKitItemsTables, CreatesTables, Revision, NoChange

LEMMA Revision8 ==
  LET u == CreateDesignsTable.upgrade
      d == CreateDesignsTable.downgrade
  IN  /\ u.tables = {"designs"}
      /\ u.references = {<<"designs", "template_id", "templates">>}
      /\ u.columns = {} /\ u.required = {} /\ u.keys = {}
      /\ u.checks = {}
      /\ d.tables = {"designs"}
      /\ d.columns = {} /\ d.required = {} /\ d.references = {}
      /\ d.keys = {} /\ d.checks = {}
BY DEF CreateDesignsTable, CreatesTables, Revision, NoChange

LEMMA Revision9 ==
  LET u == CreateOrdersAndOrderItemsTables.upgrade
      d == CreateOrdersAndOrderItemsTables.downgrade
  IN  /\ u.tables = {"orders", "order_items"}
      /\ u.references = OrderingReferences
      /\ u.checks = OrderingChecks
      /\ u.columns = {} /\ u.required = {} /\ u.keys = {}
      /\ d.tables = {"orders", "order_items"}
      /\ d.columns = {} /\ d.required = {} /\ d.references = {}
      /\ d.keys = {} /\ d.checks = {}
<1> DEFINE u == CreateOrdersAndOrderItemsTables.upgrade
           d == CreateOrdersAndOrderItemsTables.downgrade
<1>1. u = [NoChange EXCEPT
       !.tables = {"orders", "order_items"},
       !.references = OrderingReferences,
       !.checks = OrderingChecks]
  BY Zenon
     DEF CreateOrdersAndOrderItemsTables, CreatesTables, Revision, OrderingChecks,
         OrderingReferences
<1>2. d = [NoChange EXCEPT !.tables = u.tables]
  BY Zenon DEF CreateOrdersAndOrderItemsTables, CreatesTables, Revision
<1> HIDE DEF u, d
<1>3. QED
  BY <1>1, <1>2 DEF NoChange, u, d

LEMMA Revision10 ==
  LET u == CreatePaymentsTable.upgrade
      d == CreatePaymentsTable.downgrade
  IN  /\ u.tables = {"payments"}
      /\ u.references = {<<"payments", "order_id", "orders">>}
      /\ u.checks = PaymentChecks
      /\ u.columns = {} /\ u.required = {} /\ u.keys = {}
      /\ d.tables = {"payments"}
      /\ d.columns = {} /\ d.required = {} /\ d.references = {}
      /\ d.keys = {} /\ d.checks = {}
<1> DEFINE u == CreatePaymentsTable.upgrade
           d == CreatePaymentsTable.downgrade
<1>1. u = [NoChange EXCEPT
       !.tables = {"payments"},
       !.references = {<<"payments", "order_id", "orders">>},
       !.checks = PaymentChecks]
  BY Zenon DEF CreatePaymentsTable, CreatesTables, Revision, PaymentChecks
<1>2. d = [NoChange EXCEPT !.tables = u.tables]
  BY Zenon DEF CreatePaymentsTable, CreatesTables, Revision
<1> HIDE DEF u, d
<1>3. QED
  BY <1>1, <1>2 DEF NoChange, u, d

LEMMA Revision11 ==
  LET u == AddPaymentWebhookReplayKeys.upgrade
      d == AddPaymentWebhookReplayKeys.downgrade
  IN  /\ u.tables = {"payment_webhook_events"}
      /\ u.references = {<<"payment_webhook_events", "order_id", "orders">>,
                       <<"payment_webhook_events", "payment_id", "payments">>}
      /\ u.keys = {<<"payment_webhook_events", {"event_id"}>>, EventKey}
      /\ u.columns = {} /\ u.required = {} /\ u.checks = {}
      /\ d.tables = {"payment_webhook_events"}
      /\ d.keys = {EventKey}
      /\ d.columns = {} /\ d.required = {} /\ d.references = {}
      /\ d.checks = {}
BY DEF AddPaymentWebhookReplayKeys, Revision, NoChange

LEMMA Revision12 ==
  LET u == AddDesignCustomerOwnership.upgrade
      d == AddDesignCustomerOwnership.downgrade
  IN  /\ u.columns = {<<"designs", "customer_id">>}
      /\ u.required = {<<"designs", "customer_id">>}
      /\ u.references = {<<"designs", "customer_id", "users">>}
      /\ u.tables = {} /\ u.keys = {} /\ u.checks = {}
      /\ d.columns = {<<"designs", "customer_id">>}
      /\ d.references = {<<"designs", "customer_id", "users">>}
      /\ d.tables = {} /\ d.required = {} /\ d.keys = {}
      /\ d.checks = {}
BY DEF AddDesignCustomerOwnership, Revision, NoChange, DesignOwner

LEMMA Revision13 ==
  LET u == AddTemplateProductPricingAnchor.upgrade
      d == AddTemplateProductPricingAnchor.downgrade
  IN  /\ u.columns = {<<"templates", "product_id">>}
      /\ u.required = {<<"templates", "product_id">>}
      /\ u.references = {<<"templates", "product_id", "products">>}
      /\ u.tables = {} /\ u.keys = {} /\ u.checks = {}
      /\ d.columns = {<<"templates", "product_id">>}
      /\ d.references = {<<"templates", "product_id", "products">>}
      /\ d.tables = {} /\ d.required = {} /\ d.keys = {}
      /\ d.checks = {}
BY DEF AddTemplateProductPricingAnchor, Revision, NoChange, TemplateProduct

LEMMA Revision14 ==
  LET u == AddPaymentProviderIdentity.upgrade
      d == AddPaymentProviderIdentity.downgrade
  IN  /\ u.tables = {"payment_provider_transactions", "payment_provider_events"}
      /\ u.columns = ProviderColumns
      /\ u.references = ProviderReferences
      /\ u.keys = {TransactionKey, ProviderEventKey}
      /\ u.checks = ProviderChecks
      /\ u.required = {}
      /\ d.tables = {"payment_provider_transactions", "payment_provider_events"}
      /\ d.columns = ProviderColumns
      /\ d.required = {} /\ d.references = {} /\ d.keys = {}
      /\ d.checks = {}
<1> DEFINE u == AddPaymentProviderIdentity.upgrade
           d == AddPaymentProviderIdentity.downgrade
<1>1. u = [NoChange EXCEPT
       !.tables = {"payment_provider_transactions", "payment_provider_events"},
       !.columns = ProviderColumns,
       !.references = ProviderReferences,
       !.keys = {TransactionKey, ProviderEventKey},
       !.checks = ProviderChecks]
  BY Zenon
     DEF AddPaymentProviderIdentity, Revision, ProviderTables, ProviderChecks,
         ProviderReferences, TransactionKey, ProviderEventKey
<1>2. d = [NoChange EXCEPT !.tables = {"payment_provider_transactions", "payment_provider_events"},
       !.columns = ProviderColumns]
  BY Zenon DEF AddPaymentProviderIdentity, Revision, ProviderTables
<1> HIDE DEF u, d
<1>3. QED
  BY <1>1, <1>2 DEF NoChange, u, d

LEMMA Revision15 ==
  LET u == EnforcePaymentProviderIdentity.upgrade
      d == EnforcePaymentProviderIdentity.downgrade
  IN  /\ u.required = IdentityColumns
      /\ u.keys = {IdentityKey}
      /\ u.tables = {} /\ u.columns = {} /\ u.references = {}
      /\ u.checks = {}
      /\ d.required = IdentityColumns
      /\ d.keys = {IdentityKey}
      /\ d.tables = {} /\ d.columns = {} /\ d.references = {}
      /\ d.checks = {}
BY DEF EnforcePaymentProviderIdentity, Revision, NoChange

(* Every part is of its revision.                                          *)
LEMMA Dated1 ==
  /\ Dated(CreateUsersTable.upgrade, 1)
  /\ Undoes(CreateUsersTable.downgrade, 1)
  /\ CreateUsersTable.upgrade.tables = CreateUsersTable.downgrade.tables
  /\ Declared(CreateUsersTable.upgrade)
<1> DEFINE u == CreateUsersTable.upgrade
           d == CreateUsersTable.downgrade
<1>1. /\ u.tables = {"users"}
      /\ u.keys = {<<"users", {"email"}>>}
      /\ u.columns = {} /\ u.required = {} /\ u.references = {}
      /\ u.checks = {}
  BY Revision1
<1>2. /\ d.tables = {"users"}
      /\ d.columns = {} /\ d.required = {} /\ d.references = {}
      /\ d.keys = {} /\ d.checks = {}
  BY Revision1
<1> HIDE DEF u, d
<1>3. Dated(u, 1)
  BY <1>1, TablesSince, ColumnsSince, KnownTables, KeysSince DEF Dated, AllKeys
<1>4. \A t \in AllTables : t \in d.tables <=> TableSince[t] = 1
  BY <1>2, TablesSince, TablesAre
<1>5. \A t \in AllTables : \A c :
        <<t, c>> \in d.columns <=> IsLate(t, c) /\ LateSince[t] = 1
  BY <1>2, LateColumns
<1>6. Undoes(d, 1)
  BY <1>2, <1>4, <1>5 DEF Undoes
<1>7. Declared(u)
  BY <1>1, KnownTables, DeclaredParts DEF AllParts, AllKeys
<1>8. QED
  BY <1>1, <1>2, <1>3, <1>6, <1>7 DEF u, d

LEMMA Dated2 ==
  /\ Dated(CreateCategoriesTable.upgrade, 2)
  /\ Undoes(CreateCategoriesTable.downgrade, 2)
  /\ CreateCategoriesTable.upgrade.tables = CreateCategoriesTable.downgrade.tables
  /\ Declared(CreateCategoriesTable.upgrade)
<1> DEFINE u == CreateCategoriesTable.upgrade
           d == CreateCategoriesTable.downgrade
<1>1. /\ u.tables = {"categories"}
      /\ u.keys = {<<"categories", {"name"}>>}
      /\ u.columns = {} /\ u.required = {} /\ u.references = {}
      /\ u.checks = {}
  BY Revision2
<1>2. /\ d.tables = {"categories"}
      /\ d.columns = {} /\ d.required = {} /\ d.references = {}
      /\ d.keys = {} /\ d.checks = {}
  BY Revision2
<1> HIDE DEF u, d
<1>3. Dated(u, 2)
  BY <1>1, TablesSince, ColumnsSince, KnownTables, KeysSince DEF Dated, AllKeys
<1>4. \A t \in AllTables : t \in d.tables <=> TableSince[t] = 2
  BY <1>2, TablesSince, TablesAre
<1>5. \A t \in AllTables : \A c :
        <<t, c>> \in d.columns <=> IsLate(t, c) /\ LateSince[t] = 2
  BY <1>2, LateColumns
<1>6. Undoes(d, 2)
  BY <1>2, <1>4, <1>5 DEF Undoes
<1>7. Declared(u)
  BY <1>1, KnownTables, DeclaredParts DEF AllParts, AllKeys
<1>8. QED
  BY <1>1, <1>2, <1>3, <1>6, <1>7 DEF u, d

LEMMA Dated3 ==
  /\ Dated(CreateProductsTable.upgrade, 3)
  /\ Undoes(CreateProductsTable.downgrade, 3)
  /\ CreateProductsTable.upgrade.tables = CreateProductsTable.downgrade.tables
  /\ Declared(CreateProductsTable.upgrade)
<1> DEFINE u == CreateProductsTable.upgrade
           d == CreateProductsTable.downgrade
<1>1. /\ u.tables = {"products"}
      /\ u.references = {<<"products", "category_id", "categories">>}
      /\ u.columns = {} /\ u.required = {} /\ u.keys = {}
      /\ u.checks = {}
  BY Revision3
<1>2. /\ d.tables = {"products"}
      /\ d.columns = {} /\ d.required = {} /\ d.references = {}
      /\ d.keys = {} /\ d.checks = {}
  BY Revision3
<1> HIDE DEF u, d
<1>3. Dated(u, 3)
  BY <1>1, TablesSince, ColumnsSince, KnownTables DEF Dated
<1>4. \A t \in AllTables : t \in d.tables <=> TableSince[t] = 3
  BY <1>2, TablesSince, TablesAre
<1>5. \A t \in AllTables : \A c :
        <<t, c>> \in d.columns <=> IsLate(t, c) /\ LateSince[t] = 3
  BY <1>2, LateColumns
<1>6. Undoes(d, 3)
  BY <1>2, <1>4, <1>5 DEF Undoes
<1>7. Declared(u)
  BY <1>1, KnownTables, DeclaredParts
     DEF AllParts, CatalogReferences, KitReferences, WebhookReferences
<1>8. QED
  BY <1>1, <1>2, <1>3, <1>6, <1>7 DEF u, d

LEMMA Dated4 ==
  /\ Dated(AddAdminRoleAndAuditLogs.upgrade, 4)
  /\ Undoes(AddAdminRoleAndAuditLogs.downgrade, 4)
  /\ AddAdminRoleAndAuditLogs.upgrade.tables = AddAdminRoleAndAuditLogs.downgrade.tables
  /\ Declared(AddAdminRoleAndAuditLogs.upgrade)
<1> DEFINE u == AddAdminRoleAndAuditLogs.upgrade
           d == AddAdminRoleAndAuditLogs.downgrade
<1>1. /\ u.tables = {"audit_logs"}
      /\ u.columns = {<<"users", "role">>}
      /\ u.required = {<<"users", "role">>}
      /\ u.references = {<<"audit_logs", "actor_user_id", "users">>}
      /\ u.keys = {} /\ u.checks = {}
  BY Revision4
<1>2. /\ d.tables = {"audit_logs"}
      /\ d.columns = {<<"users", "role">>}
      /\ d.required = {} /\ d.references = {} /\ d.keys = {}
      /\ d.checks = {}
  BY Revision4
<1> HIDE DEF u, d
<1>3. \A x \in u.required : x[1] \in AllTables /\ RequiredSince(x) = 4
  BY <1>1, ColumnsSince, KnownTables DEF RequiredSince, IdentityColumns
<1>4. Dated(u, 4)
  BY <1>1, <1>3, TablesSince, ColumnsSince, KnownTables DEF Dated
<1>5. \A t \in AllTables : t \in d.tables <=> TableSince[t] = 4
  BY <1>2, TablesSince, TablesAre
<1>6. \A t \in AllTables : \A c :
        <<t, c>> \in d.columns <=> IsLate(t, c) /\ LateSince[t] = 4
  BY <1>2, LateColumns
<1>7. Undoes(d, 4)
  BY <1>2, <1>5, <1>6 DEF Undoes
<1>8. Declared(u)
  BY <1>1, KnownTables, DeclaredParts
     DEF AllParts, YoungColumns, CatalogReferences, KitReferences,
         WebhookReferences
<1>9. QED
  BY <1>1, <1>2, <1>4, <1>7, <1>8 DEF u, d

LEMMA Dated5 ==
  /\ Dated(CreateTemplatesTable.upgrade, 5)
  /\ Undoes(CreateTemplatesTable.downgrade, 5)
  /\ CreateTemplatesTable.upgrade.tables = CreateTemplatesTable.downgrade.tables
  /\ Declared(CreateTemplatesTable.upgrade)
<1> DEFINE u == CreateTemplatesTable.upgrade
           d == CreateTemplatesTable.downgrade
<1>1. /\ u.tables = {"templates"}
      /\ u.columns = {} /\ u.required = {} /\ u.references = {}
      /\ u.keys = {} /\ u.checks = {}
  BY Revision5
<1>2. /\ d.tables = {"templates"}
      /\ d.columns = {} /\ d.required = {} /\ d.references = {}
      /\ d.keys = {} /\ d.checks = {}
  BY Revision5
<1> HIDE DEF u, d
<1>3. Dated(u, 5)
  BY <1>1, TablesSince, ColumnsSince, KnownTables DEF Dated
<1>4. \A t \in AllTables : t \in d.tables <=> TableSince[t] = 5
  BY <1>2, TablesSince, TablesAre
<1>5. \A t \in AllTables : \A c :
        <<t, c>> \in d.columns <=> IsLate(t, c) /\ LateSince[t] = 5
  BY <1>2, LateColumns
<1>6. Undoes(d, 5)
  BY <1>2, <1>4, <1>5 DEF Undoes
<1>7. Declared(u)
  BY <1>1, KnownTables, DeclaredParts DEF AllParts
<1>8. QED
  BY <1>1, <1>2, <1>3, <1>6, <1>7 DEF u, d

LEMMA Dated6 ==
  /\ Dated(CreateTemplateFieldsTable.upgrade, 6)
  /\ Undoes(CreateTemplateFieldsTable.downgrade, 6)
  /\ CreateTemplateFieldsTable.upgrade.tables = CreateTemplateFieldsTable.downgrade.tables
  /\ Declared(CreateTemplateFieldsTable.upgrade)
<1> DEFINE u == CreateTemplateFieldsTable.upgrade
           d == CreateTemplateFieldsTable.downgrade
<1>1. /\ u.tables = {"template_fields"}
      /\ u.references = {<<"template_fields", "template_id", "templates">>}
      /\ u.columns = {} /\ u.required = {} /\ u.keys = {}
      /\ u.checks = {}
  BY Revision6
<1>2. /\ d.tables = {"template_fields"}
      /\ d.columns = {} /\ d.required = {} /\ d.references = {}
      /\ d.keys = {} /\ d.checks = {}
  BY Revision6
<1> HIDE DEF u, d
<1>3. Dated(u, 6)
  BY <1>1, TablesSince, ColumnsSince, KnownTables DEF Dated
<1>4. \A t \in AllTables : t \in d.tables <=> TableSince[t] = 6
  BY <1>2, TablesSince, TablesAre
<1>5. \A t \in AllTables : \A c :
        <<t, c>> \in d.columns <=> IsLate(t, c) /\ LateSince[t] = 6
  BY <1>2, LateColumns
<1>6. Undoes(d, 6)
  BY <1>2, <1>4, <1>5 DEF Undoes
<1>7. Declared(u)
  BY <1>1, KnownTables, DeclaredParts
     DEF AllParts, CatalogReferences, KitReferences, WebhookReferences
<1>8. QED
  BY <1>1, <1>2, <1>3, <1>6, <1>7 DEF u, d

LEMMA Dated7 ==
  /\ Dated(CreateKitsAndKitItemsTables.upgrade, 7)
  /\ Undoes(CreateKitsAndKitItemsTables.downgrade, 7)
  /\ CreateKitsAndKitItemsTables.upgrade.tables = CreateKitsAndKitItemsTables.downgrade.tables
  /\ Declared(CreateKitsAndKitItemsTables.upgrade)
<1> DEFINE u == CreateKitsAndKitItemsTables.upgrade
           d == CreateKitsAndKitItemsTables.downgrade
<1>1. /\ u.tables = {"kits", "kit_items"}
      /\ u.references = {<<"kit_items", "kit_id", "kits">>,
                       <<"kit_items", "product_id", "products">>}
      /\ u.columns = {} /\ u.required = {} /\ u.keys = {}
      /\ u.checks = {}
  BY Revision7
<1>2. /\ d.tables = {"kits", "kit_items"}
      /\ d.columns = {} /\ d.required = {} /\ d.references = {}
      /\ d.keys = {} /\ d.checks = {}
  BY Revision7
<1> HIDE DEF u, d
<1>3. Dated(u, 7)
  BY <1>1, TablesSince, ColumnsSince, KnownTables DEF Dated
<1>4. \A t \in AllTables : t \in d.tables <=> TableSince[t] = 7
  BY <1>2, TablesSince, TablesAre
<1>5. \A t \in AllTables : \A c :
        <<t, c>> \in d.columns <=> IsLate(t, c) /\ LateSince[t] = 7
  BY <1>2, LateColumns
<1>6. Undoes(d, 7)
  BY <1>2, <1>4, <1>5 DEF Undoes
<1>7. Declared(u)
  BY <1>1, KnownTables, DeclaredParts
     DEF AllParts, CatalogReferences, KitReferences, WebhookReferences
<1>8. QED
  BY <1>1, <1>2, <1>3, <1>6, <1>7 DEF u, d

LEMMA Dated8 ==
  /\ Dated(CreateDesignsTable.upgrade, 8)
  /\ Undoes(CreateDesignsTable.downgrade, 8)
  /\ CreateDesignsTable.upgrade.tables = CreateDesignsTable.downgrade.tables
  /\ Declared(CreateDesignsTable.upgrade)
<1> DEFINE u == CreateDesignsTable.upgrade
           d == CreateDesignsTable.downgrade
<1>1. /\ u.tables = {"designs"}
      /\ u.references = {<<"designs", "template_id", "templates">>}
      /\ u.columns = {} /\ u.required = {} /\ u.keys = {}
      /\ u.checks = {}
  BY Revision8
<1>2. /\ d.tables = {"designs"}
      /\ d.columns = {} /\ d.required = {} /\ d.references = {}
      /\ d.keys = {} /\ d.checks = {}
  BY Revision8
<1> HIDE DEF u, d
<1>3. Dated(u, 8)
  BY <1>1, TablesSince, ColumnsSince, KnownTables DEF Dated
<1>4. \A t \in AllTables : t \in d.tables <=> TableSince[t] = 8
  BY <1>2, TablesSince, TablesAre
<1>5. \A t \in AllTables : \A c :
        <<t, c>> \in d.columns <=> IsLate(t, c) /\ LateSince[t] = 8
  BY <1>2, LateColumns
<1>6. Undoes(d, 8)
  BY <1>2, <1>4, <1>5 DEF Undoes
<1>7. Declared(u)
  BY <1>1, KnownTables, DeclaredParts
     DEF AllParts, CatalogReferences, KitReferences, WebhookReferences
<1>8. QED
  BY <1>1, <1>2, <1>3, <1>6, <1>7 DEF u, d

LEMMA Dated9 ==
  /\ Dated(CreateOrdersAndOrderItemsTables.upgrade, 9)
  /\ Undoes(CreateOrdersAndOrderItemsTables.downgrade, 9)
  /\ CreateOrdersAndOrderItemsTables.upgrade.tables = CreateOrdersAndOrderItemsTables.downgrade.tables
  /\ Declared(CreateOrdersAndOrderItemsTables.upgrade)
<1> DEFINE u == CreateOrdersAndOrderItemsTables.upgrade
           d == CreateOrdersAndOrderItemsTables.downgrade
<1>1. /\ u.tables = {"orders", "order_items"}
      /\ u.references = OrderingReferences
      /\ u.checks = OrderingChecks
      /\ u.columns = {} /\ u.required = {} /\ u.keys = {}
  BY Revision9
<1>2. /\ d.tables = {"orders", "order_items"}
      /\ d.columns = {} /\ d.required = {} /\ d.references = {}
      /\ d.keys = {} /\ d.checks = {}
  BY Revision9
<1> HIDE DEF u, d
<1>3. Dated(u, 9)
  BY <1>1, TablesSince, ColumnsSince, KnownTables, ChecksAreOfTheirTables
     DEF Dated, OrderingReferences
<1>4. \A t \in AllTables : t \in d.tables <=> TableSince[t] = 9
  BY <1>2, TablesSince, TablesAre
<1>5. \A t \in AllTables : \A c :
        <<t, c>> \in d.columns <=> IsLate(t, c) /\ LateSince[t] = 9
  BY <1>2, LateColumns
<1>6. Undoes(d, 9)
  BY <1>2, <1>4, <1>5 DEF Undoes
<1>7. Declared(u)
  BY <1>1, KnownTables, DeclaredParts
     DEF AllParts, CatalogReferences, KitReferences, WebhookReferences
<1>8. QED
  BY <1>1, <1>2, <1>3, <1>6, <1>7 DEF u, d

LEMMA Dated10 ==
  /\ Dated(CreatePaymentsTable.upgrade, 10)
  /\ Undoes(CreatePaymentsTable.downgrade, 10)
  /\ CreatePaymentsTable.upgrade.tables = CreatePaymentsTable.downgrade.tables
  /\ Declared(CreatePaymentsTable.upgrade)
<1> DEFINE u == CreatePaymentsTable.upgrade
           d == CreatePaymentsTable.downgrade
<1>1. /\ u.tables = {"payments"}
      /\ u.references = {<<"payments", "order_id", "orders">>}
      /\ u.checks = PaymentChecks
      /\ u.columns = {} /\ u.required = {} /\ u.keys = {}
  BY Revision10
<1>2. /\ d.tables = {"payments"}
      /\ d.columns = {} /\ d.required = {} /\ d.references = {}
      /\ d.keys = {} /\ d.checks = {}
  BY Revision10
<1> HIDE DEF u, d
<1>3. Dated(u, 10)
  BY <1>1, TablesSince, ColumnsSince, KnownTables, ChecksAreOfTheirTables DEF Dated
<1>4. \A t \in AllTables : t \in d.tables <=> TableSince[t] = 10
  BY <1>2, TablesSince, TablesAre
<1>5. \A t \in AllTables : \A c :
        <<t, c>> \in d.columns <=> IsLate(t, c) /\ LateSince[t] = 10
  BY <1>2, LateColumns
<1>6. Undoes(d, 10)
  BY <1>2, <1>4, <1>5 DEF Undoes
<1>7. Declared(u)
  BY <1>1, KnownTables, DeclaredParts
     DEF AllParts, CatalogReferences, KitReferences, WebhookReferences
<1>8. QED
  BY <1>1, <1>2, <1>3, <1>6, <1>7 DEF u, d

LEMMA Dated11 ==
  /\ Dated(AddPaymentWebhookReplayKeys.upgrade, 11)
  /\ Undoes(AddPaymentWebhookReplayKeys.downgrade, 11)
  /\ AddPaymentWebhookReplayKeys.upgrade.tables = AddPaymentWebhookReplayKeys.downgrade.tables
  /\ Declared(AddPaymentWebhookReplayKeys.upgrade)
<1> DEFINE u == AddPaymentWebhookReplayKeys.upgrade
           d == AddPaymentWebhookReplayKeys.downgrade
<1>1. /\ u.tables = {"payment_webhook_events"}
      /\ u.references = {<<"payment_webhook_events", "order_id", "orders">>,
                       <<"payment_webhook_events", "payment_id", "payments">>}
      /\ u.keys = {<<"payment_webhook_events", {"event_id"}>>, EventKey}
      /\ u.columns = {} /\ u.required = {} /\ u.checks = {}
  BY Revision11
<1>2. /\ d.tables = {"payment_webhook_events"}
      /\ d.keys = {EventKey}
      /\ d.columns = {} /\ d.required = {} /\ d.references = {}
      /\ d.checks = {}
  BY Revision11
<1> HIDE DEF u, d
<1>3. Dated(u, 11)
  BY <1>1, TablesSince, ColumnsSince, KnownTables, KeysSince DEF Dated, AllKeys
<1>4. \A t \in AllTables : t \in d.tables <=> TableSince[t] = 11
  BY <1>2, TablesSince, TablesAre
<1>5. \A t \in AllTables : \A c :
        <<t, c>> \in d.columns <=> IsLate(t, c) /\ LateSince[t] = 11
  BY <1>2, LateColumns
<1>6. Undoes(d, 11)
  BY <1>2, <1>4, <1>5 DEF Undoes
<1>7. Declared(u)
  BY <1>1, KnownTables, DeclaredParts
     DEF AllParts, AllKeys, CatalogReferences, KitReferences, WebhookReferences
<1>8. QED
  BY <1>1, <1>2, <1>3, <1>6, <1>7 DEF u, d

LEMMA Dated12 ==
  /\ Dated(AddDesignCustomerOwnership.upgrade, 12)
  /\ Undoes(AddDesignCustomerOwnership.downgrade, 12)
  /\ AddDesignCustomerOwnership.upgrade.tables = AddDesignCustomerOwnership.downgrade.tables
  /\ Declared(AddDesignCustomerOwnership.upgrade)
<1> DEFINE u == AddDesignCustomerOwnership.upgrade
           d == AddDesignCustomerOwnership.downgrade
<1>1. /\ u.columns = {<<"designs", "customer_id">>}
      /\ u.required = {<<"designs", "customer_id">>}
      /\ u.references = {<<"designs", "customer_id", "users">>}
      /\ u.tables = {} /\ u.keys = {} /\ u.checks = {}
  BY Revision12
<1>2. /\ d.columns = {<<"designs", "customer_id">>}
      /\ d.references = {<<"designs", "customer_id", "users">>}
      /\ d.tables = {} /\ d.required = {} /\ d.keys = {}
      /\ d.checks = {}
  BY Revision12
<1> HIDE DEF u, d
<1>3. \A x \in u.required : x[1] \in AllTables /\ RequiredSince(x) = 12
  BY <1>1, ColumnsSince, KnownTables DEF RequiredSince, IdentityColumns
<1>4. Dated(u, 12)
  BY <1>1, <1>3, TablesSince, ColumnsSince, KnownTables DEF Dated
<1>5. \A t \in AllTables : t \in d.tables <=> TableSince[t] = 12
  BY <1>2, TablesSince, TablesAre
<1>6. \A t \in AllTables : \A c :
        <<t, c>> \in d.columns <=> IsLate(t, c) /\ LateSince[t] = 12
  BY <1>2, LateColumns
<1>7. Undoes(d, 12)
  BY <1>2, <1>5, <1>6, ColumnsSince DEF Undoes
<1>8. Declared(u)
  BY <1>1, DeclaredParts
     DEF AllParts, YoungColumns, CatalogReferences, KitReferences,
         WebhookReferences
<1>9. QED
  BY <1>1, <1>2, <1>4, <1>7, <1>8 DEF u, d

LEMMA Dated13 ==
  /\ Dated(AddTemplateProductPricingAnchor.upgrade, 13)
  /\ Undoes(AddTemplateProductPricingAnchor.downgrade, 13)
  /\ AddTemplateProductPricingAnchor.upgrade.tables = AddTemplateProductPricingAnchor.downgrade.tables
  /\ Declared(AddTemplateProductPricingAnchor.upgrade)
<1> DEFINE u == AddTemplateProductPricingAnchor.upgrade
           d == AddTemplateProductPricingAnchor.downgrade
<1>1. /\ u.columns = {<<"templates", "product_id">>}
      /\ u.required = {<<"templates", "product_id">>}
      /\ u.references = {<<"templates", "product_id", "products">>}
      /\ u.tables = {} /\ u.keys = {} /\ u.checks = {}
  BY Revision13
<1>2. /\ d.columns = {<<"templates", "product_id">>}
      /\ d.references = {<<"templates", "product_id", "products">>}
      /\ d.tables = {} /\ d.required = {} /\ d.keys = {}
      /\ d.checks = {}
  BY Revision13
<1> HIDE DEF u, d
<1>3. \A x \in u.required : x[1] \in AllTables /\ RequiredSince(x) = 13
  BY <1>1, ColumnsSince, KnownTables DEF RequiredSince, IdentityColumns
<1>4. Dated(u, 13)
  BY <1>1, <1>3, TablesSince, ColumnsSince, KnownTables DEF Dated
<1>5. \A t \in AllTables : t \in d.tables <=> TableSince[t] = 13
  BY <1>2, TablesSince, TablesAre
<1>6. \A t \in AllTables : \A c :
        <<t, c>> \in d.columns <=> IsLate(t, c) /\ LateSince[t] = 13
  BY <1>2, LateColumns
<1>7. Undoes(d, 13)
  BY <1>2, <1>5, <1>6, ColumnsSince DEF Undoes
<1>8. Declared(u)
  BY <1>1, DeclaredParts
     DEF AllParts, YoungColumns, CatalogReferences, KitReferences,
         WebhookReferences
<1>9. QED
  BY <1>1, <1>2, <1>4, <1>7, <1>8 DEF u, d

LEMMA Dated14 ==
  /\ Dated(AddPaymentProviderIdentity.upgrade, 14)
  /\ Undoes(AddPaymentProviderIdentity.downgrade, 14)
  /\ AddPaymentProviderIdentity.upgrade.tables = AddPaymentProviderIdentity.downgrade.tables
  /\ Declared(AddPaymentProviderIdentity.upgrade)
<1> DEFINE u == AddPaymentProviderIdentity.upgrade
           d == AddPaymentProviderIdentity.downgrade
<1>1. /\ u.tables = {"payment_provider_transactions", "payment_provider_events"}
      /\ u.columns = ProviderColumns
      /\ u.references = ProviderReferences
      /\ u.keys = {TransactionKey, ProviderEventKey}
      /\ u.checks = ProviderChecks
      /\ u.required = {}
  BY Revision14
<1>2. /\ d.tables = {"payment_provider_transactions", "payment_provider_events"}
      /\ d.columns = ProviderColumns
      /\ d.required = {} /\ d.references = {} /\ d.keys = {}
      /\ d.checks = {}
  BY Revision14
<1> HIDE DEF u, d
<1>3. \A x \in ProviderColumns : x[1] \in AllTables /\ ColumnSince(x[1], x[2]) = 14
  BY ColumnsSince, KnownTables DEF ProviderColumns
<1>4. Dated(u, 14)
  BY <1>1, <1>3, TablesSince, ColumnsSince, KnownTables, KeysSince,
     ChecksAreOfTheirTables
     DEF Dated, AllKeys, ProviderReferences
<1>5. \A t \in AllTables : t \in d.tables <=> TableSince[t] = 14
  BY <1>2, TablesSince, TablesAre
<1>6. \A t \in AllTables : \A c :
        <<t, c>> \in d.columns <=> IsLate(t, c) /\ LateSince[t] = 14
  BY <1>2, LateColumns, Zenon
<1>7. Undoes(d, 14)
  BY <1>2, <1>5, <1>6 DEF Undoes
<1>8. Declared(u)
  BY <1>1, KnownTables, DeclaredParts
     DEF AllParts, YoungColumns, AllKeys, CatalogReferences, KitReferences,
         WebhookReferences
<1>9. QED
  BY <1>1, <1>2, <1>4, <1>7, <1>8 DEF u, d

LEMMA Dated15 ==
  /\ Dated(EnforcePaymentProviderIdentity.upgrade, 15)
  /\ Undoes(EnforcePaymentProviderIdentity.downgrade, 15)
  /\ EnforcePaymentProviderIdentity.upgrade.tables = EnforcePaymentProviderIdentity.downgrade.tables
  /\ Declared(EnforcePaymentProviderIdentity.upgrade)
<1> DEFINE u == EnforcePaymentProviderIdentity.upgrade
           d == EnforcePaymentProviderIdentity.downgrade
<1>1. /\ u.required = IdentityColumns
      /\ u.keys = {IdentityKey}
      /\ u.tables = {} /\ u.columns = {} /\ u.references = {}
      /\ u.checks = {}
  BY Revision15
<1>2. /\ d.required = IdentityColumns
      /\ d.keys = {IdentityKey}
      /\ d.tables = {} /\ d.columns = {} /\ d.references = {}
      /\ d.checks = {}
  BY Revision15
<1> HIDE DEF u, d
<1>3. \A x \in u.required : x[1] \in AllTables /\ RequiredSince(x) = 15
  BY <1>1, ColumnsSince, KnownTables DEF RequiredSince, IdentityColumns
<1>4. Dated(u, 15)
  BY <1>1, <1>3, TablesSince, ColumnsSince, KnownTables, KeysSince DEF Dated, AllKeys
<1>5. \A t \in AllTables : t \in d.tables <=> TableSince[t] = 15
  BY <1>2, TablesSince, TablesAre
<1>6. \A t \in AllTables : \A c :
        <<t, c>> \in d.columns <=> IsLate(t, c) /\ LateSince[t] = 15
  BY <1>2, LateColumns
<1>7. Undoes(d, 15)
  BY <1>2, <1>5, <1>6 DEF Undoes
<1>8. Declared(u)
  BY <1>1, DeclaredParts DEF AllParts, YoungColumns, AllKeys
<1>9. QED
  BY <1>1, <1>2, <1>4, <1>7, <1>8 DEF u, d

(* The chain by the names of its revisions.                                *)
LEMMA ChainIs ==
  /\ Chain[1] = CreateUsersTable
  /\ Chain[2] = CreateCategoriesTable
  /\ Chain[3] = CreateProductsTable
  /\ Chain[4] = AddAdminRoleAndAuditLogs
  /\ Chain[5] = CreateTemplatesTable
  /\ Chain[6] = CreateTemplateFieldsTable
  /\ Chain[7] = CreateKitsAndKitItemsTables
  /\ Chain[8] = CreateDesignsTable
  /\ Chain[9] = CreateOrdersAndOrderItemsTables
  /\ Chain[10] = CreatePaymentsTable
  /\ Chain[11] = AddPaymentWebhookReplayKeys
  /\ Chain[12] = AddDesignCustomerOwnership
  /\ Chain[13] = AddTemplateProductPricingAnchor
  /\ Chain[14] = AddPaymentProviderIdentity
  /\ Chain[15] = EnforcePaymentProviderIdentity
BY DEF Chain

(* A revision is one of the fifteen.                                       *)
LEMMA EveryRevision ==
  ASSUME NEW n \in 1..15
  PROVE  n \in {1, 2, 3, 4, 5, 6, 7, 8, 9, 10, 11, 12, 13, 14, 15}
OBVIOUS

(* The lemmas of the single revisions together.                            *)
LEMMA ChainDated ==
  ASSUME NEW n \in 1..15
  PROVE  /\ Dated(Chain[n].upgrade, n)
         /\ Undoes(Chain[n].downgrade, n)
         /\ Chain[n].upgrade.tables = Chain[n].downgrade.tables
         /\ Declared(Chain[n].upgrade)
BY EveryRevision, ChainIs, Dated1, Dated2, Dated3, Dated4, Dated5, Dated6, Dated7,
   Dated8,
   Dated9, Dated10, Dated11, Dated12, Dated13, Dated14, Dated15

(* The parts of a schema.                                                  *)
LEMMA PartsAre ==
  DOMAIN NoChange = {"tables", "columns", "required", "references", "keys", "checks"}
BY DEF NoChange

(* A part of the schema at a revision.                                     *)
LEMMA PartAt ==
  ASSUME NEW n, NEW part \in DOMAIN NoChange
  PROVE  SchemaAt(n)[part] = UNION {Chain[k].upgrade[part] : k \in 1..n}
BY DEF SchemaAt

(* The same, for an element of the part.                                   *)
LEMMA InPart ==
  ASSUME NEW n, NEW part \in DOMAIN NoChange, NEW x
  PROVE  x \in SchemaAt(n)[part] <=> \E k \in 1..n : x \in Chain[k].upgrade[part]
BY PartAt

(* An empty database is at no revision.                                    *)
LEMMA EmptyAtFirst == SchemaAt(0) = NoChange
<1>1. \A part \in DOMAIN NoChange : NoChange[part] = {}
  BY DEF NoChange
<1>2. \A part : UNION {Chain[k].upgrade[part] : k \in 1..0} = {}
  OBVIOUS
<1>3. SchemaAt(0) = [part \in DOMAIN NoChange |-> NoChange[part]]
  BY <1>1, <1>2 DEF SchemaAt
<1>4. NoChange = [part \in DOMAIN NoChange |-> NoChange[part]]
  BY DEF NoChange
<1>5. QED
  BY <1>3, <1>4

(* One upgrade takes the schema of a revision to that of the next.         *)
LEMMA UpgradeAddsRevision ==
  ASSUME NEW n \in 0..14
  PROVE  With(SchemaAt(n), Chain[n + 1].upgrade) = SchemaAt(n + 1)
<1>1. DOMAIN SchemaAt(n) = DOMAIN NoChange
  BY DEF SchemaAt
<1>2. ASSUME NEW part \in DOMAIN NoChange
      PROVE  SchemaAt(n)[part] \cup Chain[n + 1].upgrade[part] = SchemaAt(n + 1)[part]
  <2>1. \A k : k \in 1..(n + 1) <=> k \in 1..n \/ k = n + 1
    OBVIOUS
  <2>2. ASSUME NEW x
        PROVE  x \in SchemaAt(n + 1)[part] <=>
                 x \in SchemaAt(n)[part] \/ x \in Chain[n + 1].upgrade[part]
    <3>1. /\ x \in SchemaAt(n)[part] <=> \E k \in 1..n : x \in Chain[k].upgrade[part]
          /\ x \in SchemaAt(n + 1)[part] <=>
               \E k \in 1..(n + 1) : x \in Chain[k].upgrade[part]
      BY InPart
    <3>2. QED
      BY <2>1, <3>1
  <2>3. QED
    BY <2>2
<1>3. SchemaAt(n + 1) = [part \in DOMAIN NoChange |-> SchemaAt(n + 1)[part]]
  BY DEF SchemaAt
<1>4. QED
  BY <1>1, <1>2, <1>3 DEF With

(* Up to the revision of a column, its column or its table is dropped there *)
(* and not before.                                                          *)
Gone(d, t, c) == t \in d.tables \/ <<t, c>> \in d.columns

LEMMA GoneAtItsRevision ==
  ASSUME NEW n \in 1..15, NEW t \in AllTables, NEW c, ColumnSince(t, c) <= n
  PROVE  Gone(Chain[n].downgrade, t, c) <=> ColumnSince(t, c) = n
<1> DEFINE d == Chain[n].downgrade
<1>1. /\ t \in d.tables <=> TableSince[t] = n
      /\ <<t, c>> \in d.columns <=> IsLate(t, c) /\ LateSince[t] = n
  <2>1. Undoes(d, n)
    BY ChainDated
  <2> HIDE DEF d
  <2>2. QED
    BY <2>1 DEF Undoes
<1>2. TableSince[t] \in Nat /\ (IsLate(t, c) => LateSince[t] \in Nat /\ TableSince[t] < LateSince[t])
  BY TablesSince, TablesAre, LateColumns
<1> HIDE DEF d
<1>3. CASE IsLate(t, c)
  <2>1. ColumnSince(t, c) = LateSince[t]
    BY <1>3 DEF ColumnSince
  <2>2. QED
    BY <1>1, <1>2, <1>3, <2>1 DEF Gone, d
<1>4. CASE ~ IsLate(t, c)
  BY <1>1, <1>4 DEF Gone, ColumnSince, d
<1>5. QED
  BY <1>3, <1>4

(* The columns of each key are there before it.                            *)
LEMMA KeyColumnsSince ==
  ASSUME NEW x \in AllKeys
  PROVE  /\ x[1] \in AllTables
         /\ KeySince(x) \in Nat
         /\ x \notin {EventKey, IdentityKey} =>
              x[2] # {} /\ \A c \in x[2] : ColumnSince(x[1], c) = KeySince(x)
         /\ x = EventKey =>
              KeySince(x) = 11 /\ \A c \in x[2] : ColumnSince(x[1], c) = 10
         /\ x = IdentityKey =>
              KeySince(x) = 15 /\ \A c \in x[2] : ColumnSince(x[1], c) = 14
<1>1. CASE x = EventKey
  <2>1. EventKey[1] = "payments" /\ EventKey[2] = {"order_id", "payment_provider_reference"}
    BY DEF EventKey
  <2>2. EventKey # IdentityKey
    BY DEF EventKey, IdentityKey
  <2>3. \A c \in EventKey[2] : ColumnSince(EventKey[1], c) = 10
    BY <2>1, ColumnsSince
  <2>4. QED
    BY <1>1, <2>1, <2>2, <2>3, KeysSince, KnownTables
<1>2. CASE x = IdentityKey
  <2>1. IdentityKey[1] = "payments" /\ IdentityKey[2] = {"provider_code", "merchant_reference"}
    BY DEF IdentityKey
  <2>2. EventKey # IdentityKey
    BY DEF EventKey, IdentityKey
  <2>3. \A c \in IdentityKey[2] : ColumnSince(IdentityKey[1], c) = 14
    BY <2>1, ColumnsSince
  <2>4. QED
    BY <1>2, <2>1, <2>2, <2>3, KeysSince, KnownTables
<1>3. CASE x \notin {EventKey, IdentityKey}
  <2>1. KeySince(x) = TableSince[x[1]]
    BY <1>3 DEF KeySince
  <2>2. \/ x = <<"users", {"email"}>>
        \/ x[1] \in {"categories", "payment_webhook_events",
                     "payment_provider_transactions", "payment_provider_events"}
    BY <1>3 DEF AllKeys, TransactionKey, ProviderEventKey
  <2>3. x[2] # {}
    BY <1>3 DEF AllKeys, TransactionKey, ProviderEventKey
  <2>4. ASSUME NEW c \in x[2]
        PROVE  ColumnSince(x[1], c) = TableSince[x[1]]
    <3>1. CASE x = <<"users", {"email"}>>
      <4>1. c = "email" /\ x[1] = "users"
        BY <3>1
      <4>2. ~ IsLate("users", "email")
        BY LateColumns
      <4>3. QED
        BY <4>1, <4>2 DEF ColumnSince
    <3>2. CASE x[1] \in {"categories", "payment_webhook_events",
                         "payment_provider_transactions", "payment_provider_events"}
      BY <3>2, ColumnsSince
    <3>3. QED
      BY <2>2, <3>1, <3>2
  <2>5. x[1] \in AllTables /\ TableSince[x[1]] \in Nat
    BY <2>2, KnownTables, TablesSince
  <2>6. QED
    BY <1>3, <2>1, <2>3, <2>4, <2>5
<1>4. QED
  BY <1>1, <1>2, <1>3

(* A schema is the record of its parts.                                    *)
LEMMA SchemaIsRecord ==
  ASSUME NEW n
  PROVE  SchemaAt(n) = [tables |-> SchemaAt(n).tables, columns |-> SchemaAt(n).columns,
                        required |-> SchemaAt(n).required,
                        references |-> SchemaAt(n).references,
                        keys |-> SchemaAt(n).keys, checks |-> SchemaAt(n).checks]
<1> DEFINE s == SchemaAt(n)
<1>1. s = [part \in DOMAIN NoChange |-> s[part]]
  BY DEF SchemaAt
<1> HIDE DEF s
<1>2. QED
  BY <1>1, PartsAre DEF s

(* All parts of the schema at a revision are of it or older.               *)
LEMMA PartsUpTo ==
  ASSUME NEW n \in 0..15, NEW k \in 1..n
  PROVE  Dated(Chain[k].upgrade, k) /\ k \in 1..15 /\ k <= n
BY ChainDated

(* What is kept of a part when just the newest revision's elements go.     *)
LEMMA OlderParts ==
  ASSUME NEW n \in 1..15, NEW part \in DOMAIN NoChange, NEW kept,
         kept \subseteq SchemaAt(n)[part],
         \A k \in 1..n : \A x \in Chain[k].upgrade[part] : x \in kept <=> k # n
  PROVE  kept = SchemaAt(n - 1)[part]
<1>1. \A k : k \in 1..(n - 1) <=> k \in 1..n /\ k # n
  OBVIOUS
<1>2. ASSUME NEW x
      PROVE  x \in kept <=> x \in SchemaAt(n - 1)[part]
  <2>1. x \in kept => \E k \in 1..n : k # n /\ x \in Chain[k].upgrade[part]
    BY InPart
  <2>2. x \in SchemaAt(n - 1)[part] <=> \E k \in 1..(n - 1) : x \in Chain[k].upgrade[part]
    BY InPart
  <2>3. QED
    BY <1>1, <2>1, <2>2
<1>3. QED
  BY <1>2

(* One downgrade takes the schema of a revision to that of the one before: *)
(* it drops all that its upgrade added and nothing else.                   *)
LEMMA DowngradeDropsRevision ==
  ASSUME NEW n \in 1..15
  PROVE  Without(SchemaAt(n), Chain[n].downgrade) = SchemaAt(n - 1)
<1> DEFINE s == SchemaAt(n)
           d == Chain[n].downgrade
           gone(t, c) == t \in d.tables \/ <<t, c>> \in d.columns
           tables == s.tables \ d.tables
           columns == {x \in s.columns : ~gone(x[1], x[2])}
           required == {x \in s.required \ d.required : ~gone(x[1], x[2])}
           references == {x \in s.references \ d.references : ~gone(x[1], x[2])}
           keys == {x \in s.keys \ d.keys : \A c \in x[2] : ~gone(x[1], c)}
           checks == {x \in s.checks \ d.checks : ~gone(x[1], x[2])}
<1>1. Without(s, d) = [tables |-> tables, columns |-> columns, required |-> required,
                       references |-> references, keys |-> keys, checks |-> checks]
  BY Zenon DEF Without
<1>2. Undoes(d, n)
  BY ChainDated
<1>3. \A k \in 1..n : Dated(Chain[k].upgrade, k) /\ k \in 1..15 /\ k <= n
  BY PartsUpTo
<1>4. \A t \in AllTables : \A c : ColumnSince(t, c) <= n => (gone(t, c) <=> ColumnSince(t, c) = n)
  BY GoneAtItsRevision DEF Gone
<1> HIDE DEF s, d, gone
<1>5. tables = SchemaAt(n - 1).tables
  <2>1. \A k \in 1..n : \A x \in Chain[k].upgrade.tables : x \in tables <=> k # n
    BY <1>2, <1>3, InPart, PartsAre DEF Dated, Undoes, s
  <2>2. tables \subseteq SchemaAt(n)["tables"]
    BY DEF s
  <2> HIDE DEF tables
  <2>3. QED
    BY <2>1, <2>2, OlderParts, PartsAre
<1>6. columns = SchemaAt(n - 1).columns
  <2>1. \A k \in 1..n : \A x \in Chain[k].upgrade.columns : x \in columns <=> k # n
    BY <1>3, <1>4, InPart, PartsAre DEF Dated, s
  <2> HIDE DEF columns
  <2>2. QED
    BY <2>1, OlderParts, PartsAre DEF columns, s
<1>7. references = SchemaAt(n - 1).references
  <2>1. \A k \in 1..n : \A x \in Chain[k].upgrade.references : x \in references <=> k # n
    BY <1>2, <1>3, <1>4, InPart, PartsAre DEF Dated, Undoes, s
  <2> HIDE DEF references
  <2>2. QED
    BY <2>1, OlderParts, PartsAre DEF references, s
<1>8. checks = SchemaAt(n - 1).checks
  <2>1. \A k \in 1..n : \A x \in Chain[k].upgrade.checks : x \in checks <=> k # n
    BY <1>2, <1>3, <1>4, InPart, PartsAre DEF Dated, Undoes, s
  <2> HIDE DEF checks
  <2>2. QED
    BY <2>1, OlderParts, PartsAre DEF checks, s
<1>9. required = SchemaAt(n - 1).required
  <2>1. ASSUME NEW k \in 1..n, NEW x \in Chain[k].upgrade.required
        PROVE  x \in required <=> k # n
    <3>1. x \in s.required
      BY InPart, PartsAre DEF s
    <3>2. x[1] \in AllTables /\ RequiredSince(x) = k /\ k \in 1..15 /\ k <= n
      BY <1>3 DEF Dated
    <3>3. CASE x \in IdentityColumns
      <4>1. k = 15 /\ n = 15
        BY <3>2, <3>3 DEF RequiredSince
      <4>2. x \in d.required
        BY <1>2, <3>3, <4>1 DEF Undoes
      <4>3. QED
        BY <4>1, <4>2
    <3>4. CASE x \notin IdentityColumns
      <4>1. ColumnSince(x[1], x[2]) = k
        BY <3>2, <3>4 DEF RequiredSince
      <4>2. gone(x[1], x[2]) <=> k = n
        BY <1>4, <3>2, <4>1
      <4>3. x \notin d.required
        BY <1>2, <3>4 DEF Undoes
      <4>4. QED
        BY <3>1, <4>2, <4>3
    <3>5. QED
      BY <3>3, <3>4
  <2> HIDE DEF required
  <2>2. QED
    BY <2>1, OlderParts, PartsAre DEF required, s
<1>10. keys = SchemaAt(n - 1).keys
  <2>1. ASSUME NEW k \in 1..n, NEW x \in Chain[k].upgrade.keys
        PROVE  x \in keys <=> k # n
    <3>1. x \in s.keys
      BY InPart, PartsAre DEF s
    <3>2. x \in AllKeys /\ KeySince(x) = k /\ k \in 1..15 /\ k <= n
      BY <1>3 DEF Dated
    <3>3. CASE x = EventKey
      <4>1. x[1] \in AllTables /\ k = 11 /\ \A c \in x[2] : ColumnSince(x[1], c) = 10
        BY <3>2, <3>3, KeyColumnsSince
      <4>2. \A c \in x[2] : ~ gone(x[1], c)
        BY <1>4, <3>2, <4>1
      <4>3. EventKey \in d.keys <=> n = 11
        BY <1>2 DEF Undoes, EventKey, IdentityKey
      <4>4. QED
        BY <3>1, <3>3, <4>1, <4>2, <4>3
    <3>4. CASE x = IdentityKey
      <4>1. k = 15 /\ n = 15
        BY <3>2, <3>4, KeyColumnsSince
      <4>2. x \in d.keys
        BY <1>2, <3>4, <4>1 DEF Undoes
      <4>3. QED
        BY <4>1, <4>2
    <3>5. CASE x \notin {EventKey, IdentityKey}
      <4>1. x[1] \in AllTables /\ x[2] # {} /\ \A c \in x[2] : ColumnSince(x[1], c) = k
        BY <3>2, <3>5, KeyColumnsSince
      <4>2. \A c \in x[2] : gone(x[1], c) <=> k = n
        BY <1>4, <3>2, <4>1
      <4>3. x \notin d.keys
        BY <1>2, <3>5 DEF Undoes
      <4>4. QED
        BY <3>1, <4>1, <4>2, <4>3
    <3>6. QED
      BY <3>3, <3>4, <3>5
  <2> HIDE DEF keys
  <2>2. QED
    BY <2>1, OlderParts, PartsAre DEF keys, s
<1>11. SchemaAt(n - 1) = [tables |-> SchemaAt(n - 1).tables, columns |-> SchemaAt(n - 1).columns,
                          required |-> SchemaAt(n - 1).required,
                          references |-> SchemaAt(n - 1).references,
                          keys |-> SchemaAt(n - 1).keys, checks |-> SchemaAt(n - 1).checks]
  BY SchemaIsRecord
<1> HIDE DEF tables, columns, required, references, keys, checks
<1>12. QED
  BY <1>1, <1>5, <1>6, <1>7, <1>8, <1>9, <1>10, <1>11 DEF s, d

(* Every table is created by the revision it dates from.                   *)
LEMMA TablesAreCreated ==
  ASSUME NEW t \in AllTables, TableSince[t] \in 1..15
  PROVE  t \in Chain[TableSince[t]].upgrade.tables
BY ChainDated DEF Undoes

(* A foreign key's tables are there with it.                               *)
LEMMA ClosedAtEveryRevision ==
  ASSUME NEW n \in 0..15
  PROVE  Closed(SchemaAt(n))
<1>1. ASSUME NEW t \in AllTables, TableSince[t] <= n
      PROVE  t \in SchemaAt(n).tables
  <2> DEFINE k == TableSince[t]
  <2>1. k \in 1..15
    BY TablesSince, TablesAre
  <2>2. k \in 1..n
    BY <1>1, <2>1
  <2>3. t \in Chain[k].upgrade.tables
    BY <2>1, TablesAreCreated
  <2>4. QED
    BY <2>2, <2>3, InPart, PartsAre
<1>2. ASSUME NEW x \in SchemaAt(n).references
      PROVE  {x[1], x[3]} \subseteq SchemaAt(n).tables
  <2>1. PICK k \in 1..n : x \in Chain[k].upgrade.references
    BY <1>2, InPart, PartsAre
  <2>2. /\ x[1] \in AllTables /\ ColumnSince(x[1], x[2]) = k
        /\ x[3] \in AllTables /\ TableSince[x[3]] <= k /\ k <= n
    BY <2>1, PartsUpTo DEF Dated
  <2>3. TableSince[x[1]] <= n
    BY <2>2, TablesSince, TablesAre, LateColumns DEF ColumnSince
  <2>4. TableSince[x[3]] <= n
    BY <2>2, TablesSince, TablesAre
  <2>5. QED
    BY <1>1, <2>2, <2>3, <2>4
<1>3. QED
  BY <1>2 DEF Closed


-------------------------------------------------------------------------------
(* The models                                                              *)

OrderChecks ==
  {<<"orders", "status", OrderStatus>>,
   <<"orders", "cancellation_requested_from", CancellationRequestableStatuses>>}
  \cup Iso("orders")
  \cup Nonnegative("orders", {"subtotal_amount", "discount_amount",
                              "tax_amount", "total_amount"})

OrderItemChecks ==
  {<<"order_items", "item_type", {"product", "kit", "design"}>>,
   <<"order_items", "quantity", {"positive"}>>}
  \cup Iso("order_items")
  \cup Nonnegative("order_items",
         {"unit_price_amount", "line_subtotal_amount",
          "line_discount_amount", "line_tax_amount",
          "line_total_amount"})

OrderItemReferences ==
  {<<"order_items", c[1], c[2]>> :
     c \in {<<"order_id", "orders">>, <<"product_id", "products">>,
            <<"kit_id", "kits">>, <<"template_id", "templates">>,
            <<"design_id", "designs">>}}

(* The models of orders and items declare what one revision creates.       *)
LEMMA OrderModelsTogether ==
  /\ OrderChecks \cup OrderItemChecks = OrderingChecks
  /\ {<<"orders", "customer_id", "users">>} \cup OrderItemReferences = OrderingReferences
<1>1. OrderChecks \cup OrderItemChecks = OrderingChecks
  BY DEF OrderChecks, OrderItemChecks, OrderingChecks, OrderStatus,
         CancellationRequestableStatuses
<1>2. {<<"orders", "customer_id", "users">>} \cup OrderItemReferences = OrderingReferences
  BY DEF OrderItemReferences, OrderingReferences
<1>3. QED
  BY <1>1, <1>2

LEMMA UserModelIs ==
  LET m == UserModel IN
  /\ m.tables = {"users"}
  /\ m.columns = {<<"users", "role">>}
  /\ m.required = {<<"users", "role">>}
  /\ m.keys = {<<"users", {"email"}>>}
  /\ m.references = {} /\ m.checks = {}
BY DEF UserModel, NoChange

LEMMA CategoryModelIs ==
  LET m == CategoryModel IN
  /\ m.tables = {"categories"}
  /\ m.keys = {<<"categories", {"name"}>>}
  /\ m.columns = {} /\ m.required = {} /\ m.references = {}
  /\ m.checks = {}
BY DEF CategoryModel, NoChange

LEMMA ProductModelIs ==
  LET m == ProductModel IN
  /\ m.tables = {"products"}
  /\ m.references = {<<"products", "category_id", "categories">>}
  /\ m.columns = {} /\ m.required = {} /\ m.keys = {}
  /\ m.checks = {}
BY DEF ProductModel, NoChange

LEMMA AuditLogModelIs ==
  LET m == AuditLogModel IN
  /\ m.tables = {"audit_logs"}
  /\ m.references = {<<"audit_logs", "actor_user_id", "users">>}
  /\ m.columns = {} /\ m.required = {} /\ m.keys = {}
  /\ m.checks = {}
BY DEF AuditLogModel, NoChange

LEMMA TemplateModelIs ==
  LET m == TemplateModel IN
  /\ m.tables = {"templates"}
  /\ m.columns = {<<"templates", "product_id">>}
  /\ m.required = {<<"templates", "product_id">>}
  /\ m.references = {<<"templates", "product_id", "products">>}
  /\ m.keys = {} /\ m.checks = {}
BY DEF TemplateModel, NoChange, TemplateProduct

LEMMA TemplateFieldModelIs ==
  LET m == TemplateFieldModel IN
  /\ m.tables = {"template_fields"}
  /\ m.references = {<<"template_fields", "template_id", "templates">>}
  /\ m.columns = {} /\ m.required = {} /\ m.keys = {}
  /\ m.checks = {}
BY DEF TemplateFieldModel, NoChange

LEMMA KitModelIs ==
  LET m == KitModel IN
  /\ m.tables = {"kits"}
  /\ m.columns = {} /\ m.required = {} /\ m.references = {}
  /\ m.keys = {} /\ m.checks = {}
BY DEF KitModel, NoChange

LEMMA KitItemModelIs ==
  LET m == KitItemModel IN
  /\ m.tables = {"kit_items"}
  /\ m.references = {<<"kit_items", "kit_id", "kits">>,
       <<"kit_items", "product_id", "products">>}
  /\ m.columns = {} /\ m.required = {} /\ m.keys = {}
  /\ m.checks = {}
BY DEF KitItemModel, NoChange

LEMMA DesignModelIs ==
  LET m == DesignModel IN
  /\ m.tables = {"designs"}
  /\ m.columns = {<<"designs", "customer_id">>}
  /\ m.required = {<<"designs", "customer_id">>}
  /\ m.references = {<<"designs", "customer_id", "users">>,
       <<"designs", "template_id", "templates">>}
  /\ m.keys = {} /\ m.checks = {}
BY DEF DesignModel, NoChange, DesignOwner

LEMMA OrderModelIs ==
  LET m == OrderModel IN
  /\ m.tables = {"orders"}
  /\ m.references = {<<"orders", "customer_id", "users">>}
  /\ m.checks = OrderChecks
  /\ m.columns = {} /\ m.required = {} /\ m.keys = {}
<1> DEFINE m == OrderModel
<1>1. m = [NoChange EXCEPT
       !.tables = {"orders"},
       !.references = {<<"orders", "customer_id", "users">>},
       !.checks = OrderChecks]
  BY Zenon DEF OrderModel, OrderChecks
<1> HIDE DEF m
<1>2. QED
  BY <1>1 DEF NoChange, m

LEMMA OrderItemModelIs ==
  LET m == OrderItemModel IN
  /\ m.tables = {"order_items"}
  /\ m.references = OrderItemReferences
  /\ m.checks = OrderItemChecks
  /\ m.columns = {} /\ m.required = {} /\ m.keys = {}
<1> DEFINE m == OrderItemModel
<1>1. m = [NoChange EXCEPT
       !.tables = {"order_items"},
       !.references = OrderItemReferences,
       !.checks = OrderItemChecks]
  BY Zenon DEF OrderItemModel, OrderChecks, OrderItemChecks, OrderItemReferences
<1> HIDE DEF m
<1>2. QED
  BY <1>1 DEF NoChange, m

LEMMA PaymentModelIs ==
  LET m == PaymentModel IN
  /\ m.tables = {"payments"}
  /\ m.columns = ProviderColumns
  /\ m.required = IdentityColumns
  /\ m.references = {<<"payments", "order_id", "orders">>}
  /\ m.keys = {EventKey, IdentityKey}
  /\ m.checks = PaymentChecks
<1> DEFINE m == PaymentModel
<1>1. m = [NoChange EXCEPT
       !.tables = {"payments"},
       !.columns = ProviderColumns,
       !.required = IdentityColumns,
       !.references = {<<"payments", "order_id", "orders">>},
       !.keys = {EventKey, IdentityKey},
       !.checks = PaymentChecks]
  BY Zenon DEF PaymentModel, PaymentChecks, PaymentStatus
<1> HIDE DEF m
<1>2. QED
  BY <1>1 DEF NoChange, m

LEMMA PaymentWebhookEventModelIs ==
  LET m == PaymentWebhookEventModel IN
  /\ m.tables = {"payment_webhook_events"}
  /\ m.references = {<<"payment_webhook_events", "order_id", "orders">>,
       <<"payment_webhook_events", "payment_id", "payments">>}
  /\ m.keys = {<<"payment_webhook_events", {"event_id"}>>}
  /\ m.columns = {} /\ m.required = {} /\ m.checks = {}
BY DEF PaymentWebhookEventModel, NoChange

LEMMA PaymentProviderTransactionModelIs ==
  LET m == PaymentProviderTransactionModel IN
  /\ m.tables = {"payment_provider_transactions"}
  /\ m.references = {<<"payment_provider_transactions", "payment_id", "payments">>}
  /\ m.keys = {TransactionKey}
  /\ m.checks = ProviderChecks
  /\ m.columns = {} /\ m.required = {}
<1> DEFINE m == PaymentProviderTransactionModel
<1>1. m = [NoChange EXCEPT
       !.tables = {"payment_provider_transactions"},
       !.references = {<<"payment_provider_transactions", "payment_id", "payments">>},
       !.keys = {TransactionKey},
       !.checks = ProviderChecks]
  BY Zenon
     DEF PaymentProviderTransactionModel, ProviderChecks, TransactionKey,
         PaymentStatus
<1> HIDE DEF m
<1>2. QED
  BY <1>1 DEF NoChange, m

LEMMA PaymentProviderEventModelIs ==
  LET m == PaymentProviderEventModel IN
  /\ m.tables = {"payment_provider_events"}
  /\ m.references = {<<"payment_provider_events", "payment_id", "payments">>,
       <<"payment_provider_events", "payment_provider_transaction_id",
         "payment_provider_transactions">>}
  /\ m.keys = {ProviderEventKey}
  /\ m.columns = {} /\ m.required = {} /\ m.checks = {}
BY DEF PaymentProviderEventModel, NoChange, ProviderEventKey

(* Each model declares nothing that no revision adds.                      *)
LEMMA UserModelDeclares == Declared(UserModel)
<1> DEFINE m == UserModel
<1>1. /\ m.tables = {"users"}
      /\ m.columns = {<<"users", "role">>}
      /\ m.required = {<<"users", "role">>}
      /\ m.keys = {<<"users", {"email"}>>}
      /\ m.references = {} /\ m.checks = {}
  BY UserModelIs
<1> HIDE DEF m
<1>2. Declared(m)
  BY <1>1, KnownTables, DeclaredParts DEF AllParts, YoungColumns, AllKeys
<1>3. QED
  BY <1>2 DEF m

LEMMA CategoryModelDeclares == Declared(CategoryModel)
<1> DEFINE m == CategoryModel
<1>1. /\ m.tables = {"categories"}
      /\ m.keys = {<<"categories", {"name"}>>}
      /\ m.columns = {} /\ m.required = {} /\ m.references = {}
      /\ m.checks = {}
  BY CategoryModelIs
<1> HIDE DEF m
<1>2. Declared(m)
  BY <1>1, KnownTables, DeclaredParts DEF AllParts, AllKeys
<1>3. QED
  BY <1>2 DEF m

LEMMA ProductModelDeclares == Declared(ProductModel)
<1> DEFINE m == ProductModel
<1>1. /\ m.tables = {"products"}
      /\ m.references = {<<"products", "category_id", "categories">>}
      /\ m.columns = {} /\ m.required = {} /\ m.keys = {}
      /\ m.checks = {}
  BY ProductModelIs
<1> HIDE DEF m
<1>2. Declared(m)
  BY <1>1, KnownTables, DeclaredParts
     DEF AllParts, CatalogReferences, KitReferences, WebhookReferences
<1>3. QED
  BY <1>2 DEF m

LEMMA AuditLogModelDeclares == Declared(AuditLogModel)
<1> DEFINE m == AuditLogModel
<1>1. /\ m.tables = {"audit_logs"}
      /\ m.references = {<<"audit_logs", "actor_user_id", "users">>}
      /\ m.columns = {} /\ m.required = {} /\ m.keys = {}
      /\ m.checks = {}
  BY AuditLogModelIs
<1> HIDE DEF m
<1>2. Declared(m)
  BY <1>1, KnownTables, DeclaredParts
     DEF AllParts, CatalogReferences, KitReferences, WebhookReferences
<1>3. QED
  BY <1>2 DEF m

LEMMA TemplateModelDeclares == Declared(TemplateModel)
<1> DEFINE m == TemplateModel
<1>1. /\ m.tables = {"templates"}
      /\ m.columns = {<<"templates", "product_id">>}
      /\ m.required = {<<"templates", "product_id">>}
      /\ m.references = {<<"templates", "product_id", "products">>}
      /\ m.keys = {} /\ m.checks = {}
  BY TemplateModelIs
<1> HIDE DEF m
<1>2. Declared(m)
  BY <1>1, KnownTables, DeclaredParts
     DEF AllParts, YoungColumns, CatalogReferences, KitReferences,
         WebhookReferences
<1>3. QED
  BY <1>2 DEF m

LEMMA TemplateFieldModelDeclares == Declared(TemplateFieldModel)
<1> DEFINE m == TemplateFieldModel
<1>1. /\ m.tables = {"template_fields"}
      /\ m.references = {<<"template_fields", "template_id", "templates">>}
      /\ m.columns = {} /\ m.required = {} /\ m.keys = {}
      /\ m.checks = {}
  BY TemplateFieldModelIs
<1> HIDE DEF m
<1>2. Declared(m)
  BY <1>1, KnownTables, DeclaredParts
     DEF AllParts, CatalogReferences, KitReferences, WebhookReferences
<1>3. QED
  BY <1>2 DEF m

LEMMA KitModelDeclares == Declared(KitModel)
<1> DEFINE m == KitModel
<1>1. /\ m.tables = {"kits"}
      /\ m.columns = {} /\ m.required = {} /\ m.references = {}
      /\ m.keys = {} /\ m.checks = {}
  BY KitModelIs
<1> HIDE DEF m
<1>2. Declared(m)
  BY <1>1, KnownTables, DeclaredParts DEF AllParts
<1>3. QED
  BY <1>2 DEF m

LEMMA KitItemModelDeclares == Declared(KitItemModel)
<1> DEFINE m == KitItemModel
<1>1. /\ m.tables = {"kit_items"}
      /\ m.references = {<<"kit_items", "kit_id", "kits">>,
       <<"kit_items", "product_id", "products">>}
      /\ m.columns = {} /\ m.required = {} /\ m.keys = {}
      /\ m.checks = {}
  BY KitItemModelIs
<1> HIDE DEF m
<1>2. Declared(m)
  BY <1>1, KnownTables, DeclaredParts
     DEF AllParts, CatalogReferences, KitReferences, WebhookReferences
<1>3. QED
  BY <1>2 DEF m

LEMMA DesignModelDeclares == Declared(DesignModel)
<1> DEFINE m == DesignModel
<1>1. /\ m.tables = {"designs"}
      /\ m.columns = {<<"designs", "customer_id">>}
      /\ m.required = {<<"designs", "customer_id">>}
      /\ m.references = {<<"designs", "customer_id", "users">>,
       <<"designs", "template_id", "templates">>}
      /\ m.keys = {} /\ m.checks = {}
  BY DesignModelIs
<1> HIDE DEF m
<1>2. Declared(m)
  BY <1>1, KnownTables, DeclaredParts
     DEF AllParts, YoungColumns, CatalogReferences, KitReferences,
         WebhookReferences
<1>3. QED
  BY <1>2 DEF m

LEMMA OrderModelDeclares == Declared(OrderModel)
<1> DEFINE m == OrderModel
<1>1. /\ m.tables = {"orders"}
      /\ m.references = {<<"orders", "customer_id", "users">>}
      /\ m.checks = OrderChecks
      /\ m.columns = {} /\ m.required = {} /\ m.keys = {}
  BY OrderModelIs
<1> HIDE DEF m
<1>2. Declared(m)
  BY <1>1, KnownTables, DeclaredParts, OrderModelsTogether
     DEF AllParts, CatalogReferences, KitReferences, WebhookReferences
<1>3. QED
  BY <1>2 DEF m

LEMMA OrderItemModelDeclares == Declared(OrderItemModel)
<1> DEFINE m == OrderItemModel
<1>1. /\ m.tables = {"order_items"}
      /\ m.references = OrderItemReferences
      /\ m.checks = OrderItemChecks
      /\ m.columns = {} /\ m.required = {} /\ m.keys = {}
  BY OrderItemModelIs
<1> HIDE DEF m
<1>2. Declared(m)
  BY <1>1, KnownTables, DeclaredParts, OrderModelsTogether
     DEF AllParts, CatalogReferences, KitReferences, WebhookReferences
<1>3. QED
  BY <1>2 DEF m

LEMMA PaymentModelDeclares == Declared(PaymentModel)
<1> DEFINE m == PaymentModel
<1>1. /\ m.tables = {"payments"}
      /\ m.columns = ProviderColumns
      /\ m.required = IdentityColumns
      /\ m.references = {<<"payments", "order_id", "orders">>}
      /\ m.keys = {EventKey, IdentityKey}
      /\ m.checks = PaymentChecks
  BY PaymentModelIs
<1> HIDE DEF m
<1>2. Declared(m)
  BY <1>1, KnownTables, DeclaredParts
     DEF AllParts, YoungColumns, AllKeys, CatalogReferences, KitReferences,
         WebhookReferences
<1>3. QED
  BY <1>2 DEF m

LEMMA PaymentWebhookEventModelDeclares == Declared(PaymentWebhookEventModel)
<1> DEFINE m == PaymentWebhookEventModel
<1>1. /\ m.tables = {"payment_webhook_events"}
      /\ m.references = {<<"payment_webhook_events", "order_id", "orders">>,
       <<"payment_webhook_events", "payment_id", "payments">>}
      /\ m.keys = {<<"payment_webhook_events", {"event_id"}>>}
      /\ m.columns = {} /\ m.required = {} /\ m.checks = {}
  BY PaymentWebhookEventModelIs
<1> HIDE DEF m
<1>2. Declared(m)
  BY <1>1, KnownTables, DeclaredParts
     DEF AllParts, AllKeys, CatalogReferences, KitReferences, WebhookReferences
<1>3. QED
  BY <1>2 DEF m

LEMMA PaymentProviderTransactionModelDeclares == Declared(PaymentProviderTransactionModel)
<1> DEFINE m == PaymentProviderTransactionModel
<1>1. /\ m.tables = {"payment_provider_transactions"}
      /\ m.references = {<<"payment_provider_transactions", "payment_id", "payments">>}
      /\ m.keys = {TransactionKey}
      /\ m.checks = ProviderChecks
      /\ m.columns = {} /\ m.required = {}
  BY PaymentProviderTransactionModelIs
<1> HIDE DEF m
<1>2. Declared(m)
  BY <1>1, KnownTables, DeclaredParts
     DEF AllParts, AllKeys, CatalogReferences, KitReferences, WebhookReferences,
         ProviderReferences
<1>3. QED
  BY <1>2 DEF m

LEMMA PaymentProviderEventModelDeclares == Declared(PaymentProviderEventModel)
<1> DEFINE m == PaymentProviderEventModel
<1>1. /\ m.tables = {"payment_provider_events"}
      /\ m.references = {<<"payment_provider_events", "payment_id", "payments">>,
       <<"payment_provider_events", "payment_provider_transaction_id",
         "payment_provider_transactions">>}
      /\ m.keys = {ProviderEventKey}
      /\ m.columns = {} /\ m.required = {} /\ m.checks = {}
  BY PaymentProviderEventModelIs
<1> HIDE DEF m
<1>2. Declared(m)
  BY <1>1, KnownTables, DeclaredParts
     DEF AllParts, AllKeys, CatalogReferences, KitReferences, WebhookReferences,
         ProviderReferences
<1>3. QED
  BY <1>2 DEF m

Models ==
  {UserModel, CategoryModel, ProductModel, AuditLogModel, TemplateModel,
   TemplateFieldModel, KitModel, KitItemModel, DesignModel, OrderModel,
   OrderItemModel, PaymentModel, PaymentWebhookEventModel,
   PaymentProviderTransactionModel, PaymentProviderEventModel}

(* A part of what the models declare.                                      *)
LEMMA InModel ==
  ASSUME NEW part \in DOMAIN NoChange, NEW x
  PROVE  x \in ModelSchema[part] <=> \E m \in Models : x \in m[part]
<1>1. ModelSchema = [p \in DOMAIN NoChange |-> UNION {m[p] : m \in Models}]
  BY Zenon DEF ModelSchema, Models
<1>2. QED
  BY <1>1

(* The lemmas of the single models together.                               *)
LEMMA ModelsDeclare ==
  ASSUME NEW m \in Models
  PROVE  Declared(m)
BY UserModelDeclares, CategoryModelDeclares, ProductModelDeclares,
   AuditLogModelDeclares, TemplateModelDeclares, TemplateFieldModelDeclares,
   KitModelDeclares, KitItemModelDeclares, DesignModelDeclares,
   OrderModelDeclares, OrderItemModelDeclares, PaymentModelDeclares,
   PaymentWebhookEventModelDeclares, PaymentProviderTransactionModelDeclares, PaymentProviderEventModelDeclares DEF Models

(* What a model declares is in the schema of the models.                   *)
LEMMA ModelsContain ==
  ASSUME NEW part \in DOMAIN NoChange, NEW m \in Models
  PROVE  m[part] \subseteq ModelSchema[part]
BY InModel

(* The models declare all that some revision adds.                         *)
LEMMA ModelsAreAll ==
  ASSUME NEW part \in DOMAIN NoChange
  PROVE  ModelSchema[part] = AllParts[part]
<1>1. ModelSchema[part] \subseteq AllParts[part]
  BY InModel, ModelsDeclare, PartsAre DEF Declared, AllParts
<1>2. CASE part = "tables"
  <2>1. /\ {"users"} \subseteq ModelSchema["tables"]
        /\ {"categories"} \subseteq ModelSchema["tables"]
        /\ {"products"} \subseteq ModelSchema["tables"]
        /\ {"audit_logs"} \subseteq ModelSchema["tables"]
        /\ {"templates"} \subseteq ModelSchema["tables"]
        /\ {"template_fields"} \subseteq ModelSchema["tables"]
        /\ {"kits"} \subseteq ModelSchema["tables"]
        /\ {"kit_items"} \subseteq ModelSchema["tables"]
        /\ {"designs"} \subseteq ModelSchema["tables"]
        /\ {"orders"} \subseteq ModelSchema["tables"]
        /\ {"order_items"} \subseteq ModelSchema["tables"]
        /\ {"payments"} \subseteq ModelSchema["tables"]
        /\ {"payment_webhook_events"} \subseteq ModelSchema["tables"]
        /\ {"payment_provider_transactions"} \subseteq ModelSchema["tables"]
        /\ {"payment_provider_events"} \subseteq ModelSchema["tables"]
    BY ModelsContain, PartsAre, UserModelIs, CategoryModelIs, ProductModelIs,
       AuditLogModelIs, TemplateModelIs, TemplateFieldModelIs,
       KitModelIs, KitItemModelIs, DesignModelIs,
       OrderModelIs, OrderItemModelIs, PaymentModelIs,
       PaymentWebhookEventModelIs, PaymentProviderTransactionModelIs, PaymentProviderEventModelIs DEF Models
  <2>2. AllTables \subseteq ModelSchema["tables"]
    BY <2>1, TablesAre
  <2>3. QED
    BY <1>1, <1>2, <2>2 DEF AllParts
<1>3. CASE part = "columns"
  <2>1. /\ {<<"users", "role">>} \subseteq ModelSchema["columns"]
        /\ {<<"designs", "customer_id">>} \subseteq ModelSchema["columns"]
        /\ {<<"templates", "product_id">>} \subseteq ModelSchema["columns"]
        /\ ProviderColumns \subseteq ModelSchema["columns"]
    BY ModelsContain, PartsAre, UserModelIs, DesignModelIs, TemplateModelIs,
       PaymentModelIs DEF Models
  <2>2. YoungColumns \cup ProviderColumns \subseteq ModelSchema["columns"]
    BY <2>1 DEF YoungColumns
  <2>3. QED
    BY <1>1, <1>3, <2>2 DEF AllParts
<1>4. CASE part = "required"
  <2>1. /\ {<<"users", "role">>} \subseteq ModelSchema["required"]
        /\ {<<"designs", "customer_id">>} \subseteq ModelSchema["required"]
        /\ {<<"templates", "product_id">>} \subseteq ModelSchema["required"]
        /\ IdentityColumns \subseteq ModelSchema["required"]
    BY ModelsContain, PartsAre, UserModelIs, DesignModelIs, TemplateModelIs,
       PaymentModelIs DEF Models
  <2>2. YoungColumns \cup IdentityColumns \subseteq ModelSchema["required"]
    BY <2>1 DEF YoungColumns
  <2>3. QED
    BY <1>1, <1>4, <2>2 DEF AllParts
<1>5. CASE part = "references"
  <2> DEFINE all == ModelSchema["references"]
  <2>1. \A m \in Models : m.references \subseteq all
    BY ModelsContain, PartsAre
  <2> HIDE DEF all
  <2>2. CatalogReferences \subseteq all
    BY <2>1, ProductModelIs, AuditLogModelIs, TemplateFieldModelIs, DesignModelIs,
       PaymentModelIs, TemplateModelIs DEF Models, CatalogReferences
  <2>3. KitReferences \subseteq all /\ WebhookReferences \subseteq all
    BY <2>1, KitItemModelIs, PaymentWebhookEventModelIs
       DEF Models, KitReferences, WebhookReferences
  <2>4. OrderingReferences \subseteq all
    BY <2>1, OrderModelIs, OrderItemModelIs, OrderModelsTogether DEF Models
  <2>5. ProviderReferences \subseteq all
    BY <2>1, PaymentProviderTransactionModelIs, PaymentProviderEventModelIs
       DEF Models, ProviderReferences
  <2>6. AllParts.references \subseteq all
    BY <2>2, <2>3, <2>4, <2>5 DEF AllParts
  <2>7. QED
    BY <1>1, <1>5, <2>6 DEF all
<1>6. CASE part = "keys"
  <2> DEFINE all == ModelSchema["keys"]
  <2>1. \A m \in Models : m.keys \subseteq all
    BY ModelsContain, PartsAre
  <2> HIDE DEF all
  <2>2. AllKeys \subseteq all
    BY <2>1, UserModelIs, CategoryModelIs, PaymentModelIs, PaymentWebhookEventModelIs,
       PaymentProviderTransactionModelIs, PaymentProviderEventModelIs DEF Models, AllKeys
  <2>3. QED
    BY <1>1, <1>6, <2>2 DEF AllParts, all
<1>7. CASE part = "checks"
  <2> DEFINE all == ModelSchema["checks"]
  <2>1. \A m \in Models : m.checks \subseteq all
    BY ModelsContain, PartsAre
  <2> HIDE DEF all
  <2>2. OrderingChecks \subseteq all /\ PaymentChecks \subseteq all /\ ProviderChecks \subseteq all
    BY <2>1, OrderModelIs, OrderItemModelIs, OrderModelsTogether, PaymentModelIs,
       PaymentProviderTransactionModelIs DEF Models
  <2>3. QED
    BY <1>1, <1>7, <2>2 DEF AllParts, all
<1>8. QED
  BY <1>2, <1>3, <1>4, <1>5, <1>6, <1>7, PartsAre

(* The revisions add it all.                                               *)
LEMMA HeadIsAll ==
  ASSUME NEW part \in DOMAIN NoChange
  PROVE  SchemaAt(15)[part] = AllParts[part]
<1>1. SchemaAt(15)[part] \subseteq AllParts[part]
  BY InPart, ChainDated, PartsAre DEF Declared, AllParts
<1> DEFINE head == SchemaAt(15)[part]
<1>2. \A k \in 1..15 : Chain[k].upgrade[part] \subseteq head
  BY InPart
<1> HIDE DEF head
<1>3. CASE part = "tables"
  <2>1. \A t \in AllTables : TableSince[t] \in 1..15
    BY TablesSince, TablesAre
  <2>2. AllTables \subseteq head
    BY <1>2, <1>3, <2>1, TablesAreCreated
  <2>3. QED
    BY <1>1, <1>3, <2>2 DEF AllParts, head
<1>4. CASE part = "columns"
  <2>1. \A k \in {4, 12, 13, 14} : Chain[k].upgrade.columns \subseteq head
    BY <1>2, <1>4
  <2>2. YoungColumns \cup ProviderColumns \subseteq head
    BY <2>1, ChainIs, Revision4, Revision12, Revision13, Revision14 DEF YoungColumns
  <2>3. QED
    BY <1>1, <1>4, <2>2 DEF AllParts, head
<1>5. CASE part = "required"
  <2>1. \A k \in {4, 12, 13, 15} : Chain[k].upgrade.required \subseteq head
    BY <1>2, <1>5
  <2>2. YoungColumns \cup IdentityColumns \subseteq head
    BY <2>1, ChainIs, Revision4, Revision12, Revision13, Revision15 DEF YoungColumns
  <2>3. QED
    BY <1>1, <1>5, <2>2 DEF AllParts, head
<1>6. CASE part = "references"
  <2>1. \A k \in {3, 4, 6, 7, 8, 9, 10, 11, 12, 13, 14} :
          Chain[k].upgrade.references \subseteq head
    BY <1>2, <1>6
  <2>2. CatalogReferences \subseteq head
    BY <2>1, ChainIs, Revision3, Revision4, Revision6, Revision8, Revision10,
       Revision12,
       Revision13 DEF CatalogReferences
  <2>3. KitReferences \subseteq head /\ WebhookReferences \subseteq head
    BY <2>1, ChainIs, Revision7, Revision11 DEF KitReferences, WebhookReferences
  <2>4. OrderingReferences \subseteq head /\ ProviderReferences \subseteq head
    BY <2>1, ChainIs, Revision9, Revision14
  <2>5. AllParts.references \subseteq head
    BY <2>2, <2>3, <2>4 DEF AllParts
  <2>6. QED
    BY <1>1, <1>6, <2>5 DEF head
<1>7. CASE part = "keys"
  <2>1. \A k \in {1, 2, 11, 14, 15} : Chain[k].upgrade.keys \subseteq head
    BY <1>2, <1>7
  <2>2. AllKeys \subseteq head
    BY <2>1, ChainIs, Revision1, Revision2, Revision11, Revision14, Revision15
       DEF AllKeys
  <2>3. QED
    BY <1>1, <1>7, <2>2 DEF AllParts, head
<1>8. CASE part = "checks"
  <2>1. \A k \in {9, 10, 14} : Chain[k].upgrade.checks \subseteq head
    BY <1>2, <1>8
  <2>2. OrderingChecks \subseteq head /\ PaymentChecks \subseteq head
        /\ ProviderChecks \subseteq head
    BY <2>1, ChainIs, Revision9, Revision10, Revision14
  <2>3. QED
    BY <1>1, <1>8, <2>2 DEF AllParts, head
<1>9. QED
  BY <1>3, <1>4, <1>5, <1>6, <1>7, <1>8, PartsAre

(* The schema at the head is that of the models.                           *)
LEMMA HeadIsModels == SchemaAt(15) = ModelSchema
<1>1. SchemaAt(15) = [part \in DOMAIN NoChange |-> SchemaAt(15)[part]]
  BY DEF SchemaAt
<1>2. ModelSchema = [part \in DOMAIN NoChange |-> ModelSchema[part]]
  BY Zenon DEF ModelSchema
<1>3. \A part \in DOMAIN NoChange : SchemaAt(15)[part] = ModelSchema[part]
  BY HeadIsAll, ModelsAreAll
<1>4. QED
  BY <1>1, <1>2, <1>3

(* The schema follows the revision.                                        *)
LEMMA SchemaStep ==
  ASSUME RolloutInv, schema = SchemaAt(revision), [Next]_vars
  PROVE  (schema = SchemaAt(revision))'
<1>1. revision \in 0..15 /\ (inspecting => revision < 15)
  BY ChainLength DEF RolloutInv, SchemaTypeOK, InspectionStands
<1>2. CASE Apply
  <2>1. revision \in 0..14
    BY <1>1, <1>2 DEF Apply
  <2>2. schema' = With(SchemaAt(revision), Chain[revision + 1].upgrade) /\ revision' = revision + 1
    BY <1>2 DEF Apply
  <2>3. With(SchemaAt(revision), Chain[revision + 1].upgrade) = SchemaAt(revision + 1)
    BY <2>1, UpgradeAddsRevision
  <2>4. QED
    BY <2>2, <2>3
<1>3. CASE Downgrade
  <2>1. revision \in 1..15
    BY <1>1, <1>3 DEF Downgrade
  <2>2. schema' = Without(SchemaAt(revision), Chain[revision].downgrade) /\ revision' = revision - 1
    BY <1>3 DEF Downgrade
  <2>3. Without(SchemaAt(revision), Chain[revision].downgrade) = SchemaAt(revision - 1)
    BY <2>1, DowngradeDropsRevision
  <2>4. QED
    BY <2>2, <2>3
<1>4. CASE UNCHANGED <<revision, schema>>
  BY <1>4
<1>5. Inspect \/ AbortUpgrade \/ Write \/ UNCHANGED vars => UNCHANGED <<revision, schema>>
  BY DEF Inspect, AbortUpgrade, Write, vars, WriteDesign, WriteTemplate, RemoveDesign,
         RemoveTemplate, CreateLegacyPayment, CreateOtherPayment, CreateWompiPayment,
         InsertPayment
<1>6. QED
  BY <1>2, <1>3, <1>4, <1>5 DEF Next

(***************************************************************************)
(* "Models and migrations match each other": however often the database    *)
(* goes up and down, it has the tables and constraints of its revision, at *)
(* the head those of app/models, and never a foreign key without its table,*)
(* so that no downgrade() fails for one.                                   *)
(***************************************************************************)
THEOREM SchemasMatch == Spec => []SchemaMatchesItsRevision
<1>1. Init => schema = SchemaAt(revision)
  BY EmptyAtFirst DEF Init
<1>2. RolloutInv /\ schema = SchemaAt(revision) /\ [Next]_vars => (schema = SchemaAt(revision))'
  BY SchemaStep
<1>3. RolloutInv /\ schema = SchemaAt(revision) => SchemaMatchesItsRevision
  <2> SUFFICES ASSUME RolloutInv, schema = SchemaAt(revision)
               PROVE  SchemaMatchesItsRevision
    OBVIOUS
  <2>1. revision \in 0..15
    BY ChainLength DEF RolloutInv, SchemaTypeOK
  <2>2. Closed(schema)
    BY <2>1, ClosedAtEveryRevision
  <2>3. revision = Len(Chain) => schema = ModelSchema
    BY ChainLength, HeadIsModels
  <2>4. ASSUME revision > 0
        PROVE  Closed(Without(schema, Chain[revision].downgrade))
    <3>1. revision \in 1..15 /\ revision - 1 \in 0..15
      BY <2>1, <2>4
    <3>2. Without(schema, Chain[revision].downgrade) = SchemaAt(revision - 1)
      BY <3>1, DowngradeDropsRevision
    <3>3. QED
      BY <3>1, <3>2, ClosedAtEveryRevision
  <2>5. QED
    BY <2>2, <2>3, <2>4 DEF SchemaMatchesItsRevision
<1>4. QED
  BY <1>1, <1>2, <1>3, RolloutInvCorrect, PTL DEF Spec
===============================================================================
