----------------------------- MODULE SchemaRollout -----------------------------
(***************************************************************************)
(* The Alembic revisions under alembic/versions, the tables and            *)
(* constraints the models of app/models declare, and the data that the     *)
(* revisions move or refuse while API releases of different ages write.    *)
(*                                                                         *)
(* A schema is told by its tables, the columns that revisions add to them  *)
(* later, which of these are required, its foreign keys, its unique keys   *)
(* and its CHECKs.  Other columns, indexes and defaults are left out.      *)
(***************************************************************************)
EXTENDS Naturals, Sequences, OrderLifecycle, PaymentLifecycle

CONSTANTS
  Customers,    \* ids of the users table
  Products,     \* ids of the products table
  DesignIds,    \* ids of the designs table
  TemplateIds,  \* ids of the templates table
  PaymentIds,   \* ids of the payments table
  EventKeys     \* non-null (order_id, payment_provider_reference) pairs

CONSTANT Null
ASSUME NullAssumption == Null \notin Customers \cup Products \cup EventKeys

VARIABLES
  revision,    \* position in Chain of the revision the database is at
  schema,      \* what the database enforces
  inspecting,  \* an upgrade is past the queries that may refuse it
  inspected,   \* payments that these queries saw
  designs,     \* rows of designs, each with its author
  templates,   \* rows of templates, each with the product it was made for
  payments     \* rows of payments, each with the writer of its identity

vars == <<revision, schema, inspecting, inspected, designs, templates, payments>>

-------------------------------------------------------------------------------
(* Schemas                                                                 *)

NoChange ==
  [tables |-> {}, columns |-> {}, required |-> {}, references |-> {},
   keys |-> {}, checks |-> {}]

With(s, change) == [part \in DOMAIN s |-> s[part] \cup change[part]]

(* DROP TABLE and DROP COLUMN take their constraints along.                *)
Without(s, drop) ==
  LET gone(t, c) == t \in drop.tables \/ <<t, c>> \in drop.columns IN
  [tables |-> s.tables \ drop.tables,
   columns |-> {x \in s.columns : ~gone(x[1], x[2])},
   required |-> {x \in s.required \ drop.required : ~gone(x[1], x[2])},
   references |-> {x \in s.references \ drop.references : ~gone(x[1], x[2])},
   keys |-> {x \in s.keys \ drop.keys : \A c \in x[2] : ~gone(x[1], c)},
   checks |-> {x \in s.checks \ drop.checks : ~gone(x[1], x[2])}]

(* Every foreign key has its table.                                        *)
Closed(s) == \A x \in s.references : {x[1], x[3]} \subseteq s.tables

Revision(up, down) == [upgrade |-> up, downgrade |-> down]

CreatesTables(created) == Revision(created, [NoChange EXCEPT !.tables = created.tables])

Iso(table) == {<<table, "currency", {"ISO, uppercase"}>>}
Nonnegative(table, amounts) == {<<table, c, {"nonnegative"}>> : c \in amounts}

-------------------------------------------------------------------------------
(* alembic/versions                                                        *)

CreateUsersTable ==
  CreatesTables([NoChange EXCEPT !.tables = {"users"},
                                 !.keys = {<<"users", {"email"}>>}])

CreateCategoriesTable ==
  CreatesTables([NoChange EXCEPT !.tables = {"categories"},
                                 !.keys = {<<"categories", {"name"}>>}])

CreateProductsTable ==
  CreatesTables(
    [NoChange EXCEPT !.tables = {"products"},
                     !.references = {<<"products", "category_id", "categories">>}])

AddAdminRoleAndAuditLogs ==
  Revision(
    [NoChange EXCEPT !.tables = {"audit_logs"},
                     !.columns = {<<"users", "role">>},
                     !.required = {<<"users", "role">>},
                     !.references = {<<"audit_logs", "actor_user_id", "users">>}],
    [NoChange EXCEPT !.tables = {"audit_logs"}, !.columns = {<<"users", "role">>}])

CreateTemplatesTable == CreatesTables([NoChange EXCEPT !.tables = {"templates"}])

CreateTemplateFieldsTable ==
  CreatesTables(
    [NoChange EXCEPT
       !.tables = {"template_fields"},
       !.references = {<<"template_fields", "template_id", "templates">>}])

CreateKitsAndKitItemsTables ==
  CreatesTables(
    [NoChange EXCEPT !.tables = {"kits", "kit_items"},
                     !.references = {<<"kit_items", "kit_id", "kits">>,
                                     <<"kit_items", "product_id", "products">>}])

CreateDesignsTable ==
  CreatesTables(
    [NoChange EXCEPT !.tables = {"designs"},
                     !.references = {<<"designs", "template_id", "templates">>}])

CreateOrdersAndOrderItemsTables ==
  CreatesTables(
    [NoChange EXCEPT
       !.tables = {"orders", "order_items"},
       !.references =
         {<<"orders", "customer_id", "users">>,
          <<"order_items", "order_id", "orders">>,
          <<"order_items", "product_id", "products">>,
          <<"order_items", "kit_id", "kits">>,
          <<"order_items", "template_id", "templates">>,
          <<"order_items", "design_id", "designs">>},
       !.checks =
         {<<"orders", "status",
            {"draft", "confirmed", "sent_to_provider", "accepted", "in_production",
             "ready_for_pickup", "shipped", "delivered", "cancellation_requested",
             "cancelled"}>>,
          <<"orders", "cancellation_requested_from",
            {"confirmed", "accepted", "in_production"}>>,
          <<"order_items", "item_type", {"product", "kit", "design"}>>,
          <<"order_items", "quantity", {"positive"}>>}
         \cup Iso("orders") \cup Iso("order_items")
         \cup Nonnegative("orders", {"subtotal_amount", "discount_amount",
                                     "tax_amount", "total_amount"})
         \cup Nonnegative("order_items",
                {"unit_price_amount", "line_subtotal_amount", "line_discount_amount",
                 "line_tax_amount", "line_total_amount"})])

CreatePaymentsTable ==
  CreatesTables(
    [NoChange EXCEPT
       !.tables = {"payments"},
       !.references = {<<"payments", "order_id", "orders">>},
       !.checks = {<<"payments", "status",
                     {"initiated", "pending", "requires_action", "verified",
                      "failed", "cancelled", "expired"}>>}
                  \cup Iso("payments") \cup Nonnegative("payments", {"amount"})])

EventKey == <<"payments", {"order_id", "payment_provider_reference"}>>

(* Mutant: the downgrade leaves the key of the payments table behind.      *)
AddPaymentWebhookReplayKeysForGood ==
  CreatesTables(
    [NoChange EXCEPT
       !.tables = {"payment_webhook_events"},
       !.references = {<<"payment_webhook_events", "order_id", "orders">>,
                       <<"payment_webhook_events", "payment_id", "payments">>},
       !.keys = {<<"payment_webhook_events", {"event_id"}>>, EventKey}])

AddPaymentWebhookReplayKeys ==
  Revision(
    [NoChange EXCEPT
       !.tables = {"payment_webhook_events"},
       !.references = {<<"payment_webhook_events", "order_id", "orders">>,
                       <<"payment_webhook_events", "payment_id", "payments">>},
       !.keys = {<<"payment_webhook_events", {"event_id"}>>, EventKey}],
    [NoChange EXCEPT !.tables = {"payment_webhook_events"}, !.keys = {EventKey}])

DesignOwner == <<"designs", "customer_id", "users">>

AddDesignCustomerOwnership ==
  Revision(
    [NoChange EXCEPT !.columns = {<<"designs", "customer_id">>},
                     !.required = {<<"designs", "customer_id">>},
                     !.references = {DesignOwner}],
    [NoChange EXCEPT !.columns = {<<"designs", "customer_id">>},
                     !.references = {DesignOwner}])

TemplateProduct == <<"templates", "product_id", "products">>

AddTemplateProductPricingAnchor ==
  Revision(
    [NoChange EXCEPT !.columns = {<<"templates", "product_id">>},
                     !.required = {<<"templates", "product_id">>},
                     !.references = {TemplateProduct}],
    [NoChange EXCEPT !.columns = {<<"templates", "product_id">>},
                     !.references = {TemplateProduct}])

ProviderTables == {"payment_provider_transactions", "payment_provider_events"}

ProviderColumns ==
  {"payments"} \X {"provider_code", "merchant_reference",
                   "provider_checkout_reference", "checkout_expires_at"}

AddPaymentProviderIdentity ==
  Revision(
    [NoChange EXCEPT
       !.tables = ProviderTables,
       !.columns = ProviderColumns,
       !.references =
         {<<"payment_provider_transactions", "payment_id", "payments">>,
          <<"payment_provider_events", "payment_id", "payments">>,
          <<"payment_provider_events", "payment_provider_transaction_id",
            "payment_provider_transactions">>},
       !.keys =
         {<<"payment_provider_transactions",
            {"provider_code", "provider_transaction_reference"}>>,
          <<"payment_provider_events",
            {"provider_code", "provider_event_reference"}>>},
       !.checks =
         {<<"payment_provider_transactions", "normalized_status",
            {"initiated", "pending", "requires_action", "verified", "failed",
             "cancelled", "expired"}>>}
         \cup Iso("payment_provider_transactions")
         \cup Nonnegative("payment_provider_transactions", {"amount"})],
    [NoChange EXCEPT !.tables = ProviderTables, !.columns = ProviderColumns])

IdentityColumns == {<<"payments", "provider_code">>, <<"payments", "merchant_reference">>}
IdentityKey == <<"payments", {"provider_code", "merchant_reference"}>>

EnforcePaymentProviderIdentity ==
  LET identity == [NoChange EXCEPT !.required = IdentityColumns, !.keys = {IdentityKey}]
  IN  Revision(identity, identity)

(* The down_revision of each revision is the one before it.                *)
Chain ==
  <<CreateUsersTable, CreateCategoriesTable, CreateProductsTable,
    AddAdminRoleAndAuditLogs, CreateTemplatesTable, CreateTemplateFieldsTable,
    CreateKitsAndKitItemsTables, CreateDesignsTable,
    CreateOrdersAndOrderItemsTables, CreatePaymentsTable,
    AddPaymentWebhookReplayKeys, AddDesignCustomerOwnership,
    AddTemplateProductPricingAnchor, AddPaymentProviderIdentity,
    EnforcePaymentProviderIdentity>>

WithTemplates == 5
WithDesigns == 8
WithPayments == 10
WithEventKey == 11
WithOwners == 12
WithTemplateProducts == 13
Expanded == 14
Contracted == 15

-------------------------------------------------------------------------------
(* app/models                                                              *)

UserModel ==
  [NoChange EXCEPT !.tables = {"users"},
                   !.columns = {<<"users", "role">>},
                   !.required = {<<"users", "role">>},
                   !.keys = {<<"users", {"email"}>>}]

CategoryModel ==
  [NoChange EXCEPT !.tables = {"categories"}, !.keys = {<<"categories", {"name"}>>}]

ProductModel ==
  [NoChange EXCEPT !.tables = {"products"},
                   !.references = {<<"products", "category_id", "categories">>}]

AuditLogModel ==
  [NoChange EXCEPT !.tables = {"audit_logs"},
                   !.references = {<<"audit_logs", "actor_user_id", "users">>}]

TemplateModel ==
  [NoChange EXCEPT !.tables = {"templates"},
                   !.columns = {<<"templates", "product_id">>},
                   !.required = {<<"templates", "product_id">>},
                   !.references = {TemplateProduct}]

TemplateFieldModel ==
  [NoChange EXCEPT
     !.tables = {"template_fields"},
     !.references = {<<"template_fields", "template_id", "templates">>}]

KitModel == [NoChange EXCEPT !.tables = {"kits"}]

KitItemModel ==
  [NoChange EXCEPT !.tables = {"kit_items"},
                   !.references = {<<"kit_items", "kit_id", "kits">>,
                                   <<"kit_items", "product_id", "products">>}]

DesignModel ==
  [NoChange EXCEPT !.tables = {"designs"},
                   !.columns = {<<"designs", "customer_id">>},
                   !.required = {<<"designs", "customer_id">>},
                   !.references = {DesignOwner,
                                   <<"designs", "template_id", "templates">>}]

OrderModel ==
  [NoChange EXCEPT
     !.tables = {"orders"},
     !.references = {<<"orders", "customer_id", "users">>},
     !.checks = {<<"orders", "status", OrderStatus>>,
                 <<"orders", "cancellation_requested_from",
                   CancellationRequestableStatuses>>}
                \cup Iso("orders")
                \cup Nonnegative("orders", {"subtotal_amount", "discount_amount",
                                            "tax_amount", "total_amount"})]

OrderItemModel ==
  [NoChange EXCEPT
     !.tables = {"order_items"},
     !.references =
       {<<"order_items", c[1], c[2]>> :
          c \in {<<"order_id", "orders">>, <<"product_id", "products">>,
                 <<"kit_id", "kits">>, <<"template_id", "templates">>,
                 <<"design_id", "designs">>}},
     !.checks = {<<"order_items", "item_type", {"product", "kit", "design"}>>,
                 <<"order_items", "quantity", {"positive"}>>}
                \cup Iso("order_items")
                \cup Nonnegative("order_items",
                       {"unit_price_amount", "line_subtotal_amount",
                        "line_discount_amount", "line_tax_amount",
                        "line_total_amount"})]

PaymentModel ==
  [NoChange EXCEPT
     !.tables = {"payments"},
     !.columns = ProviderColumns,
     !.required = IdentityColumns,
     !.references = {<<"payments", "order_id", "orders">>},
     !.keys = {EventKey, IdentityKey},
     !.checks = {<<"payments", "status", PaymentStatus>>}
                \cup Iso("payments") \cup Nonnegative("payments", {"amount"})]

PaymentWebhookEventModel ==
  [NoChange EXCEPT
     !.tables = {"payment_webhook_events"},
     !.references = {<<"payment_webhook_events", "order_id", "orders">>,
                     <<"payment_webhook_events", "payment_id", "payments">>},
     !.keys = {<<"payment_webhook_events", {"event_id"}>>}]

PaymentProviderTransactionModel ==
  LET table == "payment_provider_transactions" IN
  [NoChange EXCEPT
     !.tables = {table},
     !.references = {<<table, "payment_id", "payments">>},
     !.keys = {<<table, {"provider_code", "provider_transaction_reference"}>>},
     !.checks = {<<table, "normalized_status", PaymentStatus>>}
                \cup Iso(table) \cup Nonnegative(table, {"amount"})]

PaymentProviderEventModel ==
  LET table == "payment_provider_events" IN
  [NoChange EXCEPT
     !.tables = {table},
     !.references = {<<table, "payment_id", "payments">>,
                     <<table, "payment_provider_transaction_id",
                       "payment_provider_transactions">>},
     !.keys = {<<table, {"provider_code", "provider_event_reference"}>>}]

(* What the models of the present release declare.                         *)
ModelSchema ==
  LET models ==
        {UserModel, CategoryModel, ProductModel, AuditLogModel, TemplateModel,
         TemplateFieldModel, KitModel, KitItemModel, DesignModel, OrderModel,
         OrderItemModel, PaymentModel, PaymentWebhookEventModel,
         PaymentProviderTransactionModel, PaymentProviderEventModel}
  IN  [part \in DOMAIN NoChange |-> UNION {m[part] : m \in models}]

-------------------------------------------------------------------------------
(* Rows                                                                    *)

ProviderCodes == {"null", "legacy_generic", "wompi"}
Prefixes == {"null", "legacy-payment", "placamia-payment", "uncommitted"}

(* The merchant_reference is a prefix and an id; "null" for the columns of *)
(* a row that has none, or from before there are such columns.             *)
Identity == [provider_code : ProviderCodes, prefix : Prefixes, number : PaymentIds]

NoIdentity(i) == [provider_code |-> "null", prefix |-> "null", number |-> i]

(* create_legacy_payment and the backfill                                  *)
LegacyIdentity(i) ==
  [provider_code |-> "legacy_generic", prefix |-> "legacy-payment", number |-> i]

WompiIdentity(i) ==
  [provider_code |-> "wompi", prefix |-> "placamia-payment", number |-> i]

OwnIdentity(p) == p.identity \in {LegacyIdentity(p.id), WompiIdentity(p.id)}

Writers == {"present", "other"}

Payment ==
  [id : PaymentIds, event_key : EventKeys \cup {Null}, identity : Identity,
   writer : Writers]

Design ==
  [id : DesignIds, template_id : TemplateIds, author : Customers,
   customer_id : Customers \cup {Null}]

Template ==
  [id : TemplateIds, made_for : Products, product_id : Products \cup {Null}]

Identified(i) == i.provider_code # "null" /\ i.prefix # "null"

UniqueIds == \A p, q \in payments : p.id = q.id => p = q
UniqueIdentities == \A p, q \in payments : p.identity = q.identity => p = q
UniqueEventKeys ==
  \A p, q \in payments : p.event_key = q.event_key => p = q \/ p.event_key = Null

SchemaTypeOK ==
  /\ revision \in 0..Len(Chain)
  /\ inspecting \in BOOLEAN
  /\ inspected \subseteq PaymentIds
  /\ designs \subseteq Design
  /\ templates \subseteq Template
  /\ payments \subseteq Payment
  /\ UniqueIds
  /\ revision < WithDesigns => designs = {}
  /\ revision < WithTemplates => templates = {}
  /\ revision < WithPayments => payments = {}

Init ==
  /\ revision = 0
  /\ schema = NoChange
  /\ inspecting = FALSE
  /\ inspected = {}
  /\ designs = {}
  /\ templates = {}
  /\ payments = {}

-------------------------------------------------------------------------------
(* alembic upgrade, one revision at a time.  env.py runs all pending       *)
(* revisions in one transaction, whose locks admit fewer writers.          *)

(* Mutant: the temporary references are not asked for.                     *)
InspectionFailsOnNulls(next) ==
  \/ next = WithOwners /\ designs # {}
  \/ next = WithTemplateProducts /\ templates # {}
  \/ next = Contracted /\ \/ \E p \in payments : ~Identified(p.identity)
                          \/ ~UniqueIdentities

(* The RuntimeErrors of upgrade().                                         *)
InspectionFails(next) ==
  \/ next = WithOwners /\ designs # {}
  \/ next = WithTemplateProducts /\ templates # {}
  \/ next = Contracted /\ \/ \E p \in payments : \/ ~Identified(p.identity)
                                                 \/ p.identity.prefix = "uncommitted"
                          \/ ~UniqueIdentities

(* Between these SELECTs and the lock of ALTER TABLE, others may write.    *)
Inspect ==
  /\ ~inspecting
  /\ revision < Len(Chain)
  /\ ~InspectionFails(revision + 1)
  /\ inspecting' = TRUE
  /\ inspected' = {p.id : p \in payments}
  /\ UNCHANGED <<revision, schema, designs, templates, payments>>

(* A required column cannot be added to rows, nor a key that rows break.   *)
DatabaseAccepts(next) ==
  /\ next = WithEventKey => UniqueEventKeys
  /\ next = WithOwners => designs = {}
  /\ next = WithTemplateProducts => templates = {}
  /\ next = Contracted => /\ \A p \in payments : Identified(p.identity)
                         /\ UniqueIdentities

(* Mutant: the reference is taken from what several payments share.        *)
BackfilledAlike(next, p) ==
  IF next = Expanded
  THEN [p EXCEPT !.identity = LegacyIdentity(CHOOSE i \in PaymentIds : TRUE)]
  ELSE p

(* UPDATE payments, where the identity is null: the columns are new.       *)
Backfilled(next, p) ==
  IF next = Expanded /\ ~Identified(p.identity)
  THEN [p EXCEPT !.identity = LegacyIdentity(p.id)]
  ELSE p

(* Mutant: the column of owners is added with a default.                   *)
ApplyWithDefaultOwner ==
  /\ inspecting
  /\ revision + 1 = WithOwners \/ DatabaseAccepts(revision + 1)
  /\ revision' = revision + 1
  /\ schema' = With(schema, Chain[revision + 1].upgrade)
  /\ payments' = {Backfilled(revision + 1, p) : p \in payments}
  /\ designs' =
       IF revision + 1 # WithOwners THEN designs
       ELSE {[d EXCEPT !.customer_id = CHOOSE c \in Customers : TRUE] : d \in designs}
  /\ inspecting' = FALSE
  /\ inspected' = {}
  /\ UNCHANGED templates

Apply ==
  /\ inspecting
  /\ DatabaseAccepts(revision + 1)
  /\ revision' = revision + 1
  /\ schema' = With(schema, Chain[revision + 1].upgrade)
  /\ payments' = {Backfilled(revision + 1, p) : p \in payments}
  /\ inspecting' = FALSE
  /\ inspected' = {}
  /\ UNCHANGED <<designs, templates>>

(* A constraint fails or the deployment is broken off: all rolls back.     *)
AbortUpgrade ==
  /\ inspecting
  /\ inspecting' = FALSE
  /\ inspected' = {}
  /\ UNCHANGED <<revision, schema, designs, templates, payments>>

(* alembic downgrade -1                                                    *)
Downgrade ==
  /\ ~inspecting
  /\ revision > 0
  /\ Closed(Without(schema, Chain[revision].downgrade))
  /\ revision' = revision - 1
  /\ schema' = Without(schema, Chain[revision].downgrade)
  /\ designs' =
       CASE revision = WithDesigns -> {}
         [] revision = WithOwners -> {[d EXCEPT !.customer_id = Null] : d \in designs}
         [] OTHER -> designs
  /\ templates' =
       CASE revision = WithTemplates -> {}
         [] revision = WithTemplateProducts ->
              {[t EXCEPT !.product_id = Null] : t \in templates}
         [] OTHER -> templates
  /\ payments' =
       CASE revision = WithPayments -> {}
         [] revision = Expanded ->
              {[p EXCEPT !.identity = NoIdentity(p.id)] : p \in payments}
         [] OTHER -> payments
  /\ UNCHANGED <<inspecting, inspected>>

-------------------------------------------------------------------------------
(* Writers, which may write while an upgrade inspects                      *)

(* The release of the day stores an owner once there is a column for it.   *)
WriteDesign(i, t, author) ==
  /\ revision >= WithDesigns
  /\ t \in {row.id : row \in templates}
  /\ i \notin {d.id : d \in designs}
  /\ designs' = designs \cup
       {[id |-> i, template_id |-> t, author |-> author,
         customer_id |-> IF revision >= WithOwners THEN author ELSE Null]}
  /\ UNCHANGED <<revision, schema, inspecting, inspected, templates, payments>>

(* No endpoint writes a template; operators do, and mind the product.      *)
WriteTemplate(i, product) ==
  /\ revision >= WithTemplates
  /\ i \notin {t.id : t \in templates}
  /\ templates' = templates \cup
       {[id |-> i, made_for |-> product,
         product_id |-> IF revision >= WithTemplateProducts THEN product ELSE Null]}
  /\ UNCHANGED <<revision, schema, inspecting, inspected, designs, payments>>

(* What an operator does about rows that a revision refuses.               *)
RemoveDesign(d) ==
  /\ designs' = designs \ {d}
  /\ UNCHANGED <<revision, schema, inspecting, inspected, templates, payments>>

RemoveTemplate(t) ==
  /\ \A d \in designs : d.template_id # t.id
  /\ templates' = templates \ {t}
  /\ UNCHANGED <<revision, schema, inspecting, inspected, designs, payments>>

(* Mutant: the id is not one that the sequence of the table gives out.     *)
InsertUnallocated(row) ==
  /\ payments' = payments \cup {row}
  /\ UNCHANGED <<revision, schema, inspecting, inspected, designs, templates>>

(* The constraints that the database has at its revision.                  *)
InsertPayment(row) ==
  /\ row.id \notin {p.id : p \in payments}
  /\ revision >= WithEventKey =>
       \A p \in payments : p.event_key = row.event_key => p.event_key = Null
  /\ revision = Contracted =>
       /\ Identified(row.identity)
       /\ \A p \in payments : p.identity # row.identity
  /\ payments' = payments \cup {row}
  /\ UNCHANGED <<revision, schema, inspecting, inspected, designs, templates>>

(* PaymentRepository.create_legacy_payment, for a webhook's payment        *)
CreateLegacyPayment(i, key) ==
  /\ revision >= Expanded
  /\ InsertPayment([id |-> i, event_key |-> key, writer |-> "present",
                    identity |-> LegacyIdentity(i)])

(* PaymentInitializationService: a new Wompi checkout has no reference yet. *)
CreateWompiPayment(i) ==
  /\ revision >= Expanded
  /\ InsertPayment([id |-> i, event_key |-> Null, writer |-> "present",
                    identity |-> WompiIdentity(i)])

(* Releases that know no identity, and the writers the contract guards     *)
(* against: provisional references, references that are another's.         *)
OtherIdentities(i) ==
  IF revision < Expanded THEN {NoIdentity(i)}
  ELSE {NoIdentity(i), [LegacyIdentity(i) EXCEPT !.prefix = "uncommitted"]}
       \cup {LegacyIdentity(j) : j \in PaymentIds}

CreateOtherPayment(i, key) ==
  /\ revision >= WithPayments
  /\ \E identity \in OtherIdentities(i) :
       InsertPayment([id |-> i, event_key |-> key, writer |-> "other",
                      identity |-> identity])

Write ==
  \/ \E i \in DesignIds, t \in TemplateIds, c \in Customers : WriteDesign(i, t, c)
  \/ \E i \in TemplateIds, p \in Products : WriteTemplate(i, p)
  \/ \E d \in designs : RemoveDesign(d)
  \/ \E t \in templates : RemoveTemplate(t)
  \/ \E i \in PaymentIds, k \in EventKeys \cup {Null} :
       CreateLegacyPayment(i, k) \/ CreateOtherPayment(i, k)
  \/ \E i \in PaymentIds : CreateWompiPayment(i)

Next == Inspect \/ Apply \/ AbortUpgrade \/ Downgrade \/ Write

Spec == Init /\ [][Next]_vars

-------------------------------------------------------------------------------
(* What the rollout keeps                                                  *)

SchemaAt(n) ==
  [part \in DOMAIN NoChange |-> UNION {Chain[k].upgrade[part] : k \in 1..n}]

(***************************************************************************)
(* docs/architecture/pr-review-checklist.md: "Models and migrations match  *)
(* each other".  Whatever way the database came to its revision, up and    *)
(* down, it has that revision's tables and constraints and no others, at   *)
(* the head those of the models, no foreign key points nowhere, and each   *)
(* downgrade can be applied.                                               *)
(***************************************************************************)
SchemaMatchesItsRevision ==
  /\ schema = SchemaAt(revision)
  /\ Closed(schema)
  /\ revision = Len(Chain) => schema = ModelSchema
  /\ revision > 0 => Closed(Without(schema, Chain[revision].downgrade))

(***************************************************************************)
(* 1e86b9128fba, "without fabricating legacy owners", and 68a133510971:    *)
(* the stored owner of a design is who made it and the stored product of a *)
(* template the one it was made for, and there are such as soon as the     *)
(* columns are, whoever writes between inspection and ALTER TABLE.         *)
(***************************************************************************)
MigrationsInventNoOwner ==
  /\ \A d \in designs :
       d.customer_id = IF revision >= WithOwners THEN d.author ELSE Null
  /\ \A t \in templates :
       t.product_id = IF revision >= WithTemplateProducts THEN t.made_for ELSE Null

(***************************************************************************)
(* "The contract remains valid before the Wompi adapter is enabled": what  *)
(* the expand revision has backfilled and what the present release writes  *)
(* beside it never stops the contract; only a row of another writer does,  *)
(* and one whose identity is not its own.                                  *)
(***************************************************************************)
OnlyOtherWritersStopTheContract ==
  revision = Expanded /\ (InspectionFails(Contracted) \/ ~DatabaseAccepts(Contracted))
    => \E p \in payments : p.writer = "other" /\ ~OwnIdentity(p)

(***************************************************************************)
(* The contract "rejects null, temporary, or duplicate identities": those  *)
(* it saw are final and unlike any other when it applies, and it rewrites  *)
(* none.  A temporary one that comes after its SELECT it does not see.     *)
(***************************************************************************)
ContractFollowsInspection ==
  [][ revision = Expanded /\ revision' = Contracted =>
        /\ payments' = payments
        /\ UniqueIdentities
        /\ \A p \in payments :
             p.id \in inspected =>
               Identified(p.identity) /\ p.identity.prefix # "uncommitted"
    ]_vars
===============================================================================
