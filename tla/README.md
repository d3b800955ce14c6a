# Placamia in TLA+

Placamia is a FastAPI backend over PostgreSQL for custom plaques. Its "Path A"
sells catalog products directly: a customer makes a draft order, pays through a
hosted checkout, the payment provider's webhook confirms the order, and the
order then goes to a production provider, who accepts, produces, ships and
delivers it. Customers may ask for a cancellation that an admin approves or
rejects. This directory models that backend, checks the models with TLC and
proves the main results with TLAPS. Source paths below are relative to
`src/apps/api/app/`, or to `src/apps/api/` for `alembic/`.

## Inventory

| Component | State | Operations | Correct when |
|---|---|---|---|
| Order lifecycle (`domain/order_lifecycle.py`) | none | `transition_order_status` | only listed transitions, terminal states stay |
| Payment lifecycle (`domain/payment_lifecycle.py`) | none | transition, confirmation and handoff checks | settled payments stay, only a trusted source confirms |
| Draft orders (`services/order_creation_service.py`, `checkout_service.py`) | `orders`, `order_items` | create | the snapshot is what the catalog quoted |
| Payment initialization (`services/payment_initialization_service.py`) | `payments`, order row lock | open, reuse, restart a checkout | one live checkout, none for a paid order |
| Payment webhook (`services/payment_webhook_processing_service.py`) | `payments`, `payment_webhook_events`, `orders` | process an event | an event acts once, an order is paid once |
| Provider handoff (`services/paid_order_handoff_orchestration_service.py`, `provider_handoff_transmission_service.py`) | handoff columns of `orders` | transmit | only paid orders go out, once |
| Provider acceptance (`services/provider_acceptance_service.py`) | `orders`, `audit_logs`, the provider | accept, reject | a decision counts once and is the provider's |
| Production, shipment, delivery (`services/provider_*_service.py`) | `orders`, `audit_logs` | ingest an event | stages in order, event references unambiguous |
| Cancellation (`services/order_cancellation_service.py`) | `orders`, `audit_logs` | request, approve, reject | a hold ends where it began or in cancellation |
| Catalog, eligibility, pricing (`services/pricing_service.py`, `*_eligibility_service.py`) | `products`, `kits` (read only) | quote | limits and sums over the effective quantities |
| Designs (`services/design_service.py`, `design_validation_service.py`) | `designs`; `templates`, `template_fields` (read only) | create, quote | a design fits its template as read for its validation and again for each quote, errors blame the right side |
| Order and product lists (`services/order_list_service.py`, `product_service.py`) | none | one page, with totals | a client that reads to the end misses nothing |
| Wompi checkout (`services/wompi_payment_provider.py`) | the link with the customer | open, repeat | the link ends when its row does, no two can be paid |
| Migrations (`alembic/versions/`) | the schema, all rows | upgrade, downgrade | schema and models agree, no data is made up, a rollout cannot be stopped by its own release |
| Categories, template reads, order detail, authentication, webhook signature, Wompi URL and configuration, handoff payload, mobile app | | | see "Not modelled" |

How they interact. Endpoints call services, services call repositories on one
SQLAlchemy session per request; the endpoint commits or rolls back. Handlers are
`async` but never suspend inside a transaction, so one worker runs transactions
one after another, and several workers overlap them under READ COMMITTED. The
webhook endpoint commits the confirmation and then, in the same handler but in
another transaction, hands the order off. The provider adapter is called inside
transactions, so its effects precede their commits.

What is hard here: two sessions validated on the same row; events repeated, late
or out of order; a crash between the confirmation and the handoff, or between
the provider's answer and its recording; checkouts that expire while they may
still be paid; holds that hide an order's stage in another column; catalog data
that changes between draft and checkout, between two reads of one request, or
between a validation and its commit;
limits on products of two quantities; a synchronous driver under coroutines,
where one that awaits with a row locked can stop its worker for good; clocks of
several workers and of the payment provider; rows written between the statements
of a migration, or between the pages of a list.
`PROJECT.json` lists each hazard at its line with the properties aimed at it.

## Modules

| Module | Models | Extends |
|---|---|---|
| `OrderLifecycle`, `PaymentLifecycle` | the two transition tables as operators | |
| `OrderStore` | the tables as variables, the writes of the repositories, draft orders | both tables |
| `Payments` | `POST /payments/initialize` and the payment webhook | `OrderStore` |
| `Fulfilment` | handoff, acceptance, production, shipment, delivery | `OrderStore` |
| `Cancellation` | request, approval, rejection | `OrderStore` |
| `PathAOrders` | all of them composed; properties; the refinement | the three above |
| `OrderContract` | the abstract specification of an order | |
| `OverlappingSessions` | load and commit of concurrent sessions on one order | both tables |
| `CatalogPricing` | eligibility, quotes, draft snapshots, checkout revalidation | |
| `DesignPricing` | creation and quotes of designs of a changing template | |
| `RowLocks` | row locks and event loops, and the requests of several workers and orders that wait for them | |
| `CheckoutWindows` | expiration of Wompi checkouts and their links, at the clocks of several workers | |
| `ListPages` | a client that reads a changing list page by page | |
| `SchemaRollout` | the chain of migrations, the schema of the models, and the rows that are written meanwhile | both tables |
| `PathAOrders_proofs`, `OverlappingSessions_proofs`, `CatalogPricing_proofs`, `DesignPricing_proofs`, `RowLocks_proofs`, `CheckoutWindows_proofs`, `ListPages_proofs`, `SchemaRollout_proofs` | theorems | |
| `MC*` | symmetry sets and constant functions for TLC | |

### PathAOrders: one worker

A step is one committed transaction. A request that is rejected rolls back and
is a step that is not taken. State and code correspond as follows.

- `orders[o]`: status, `cancellation_requested_from`, payment and handoff
  references of the row; `"absent"` before it is created.
- `payments`, `webhookEvents`, `auditLogs`: rows of those tables. Amounts are
  values that are only compared; `window` says whether `checkout_expires_at` has
  passed.
- `handoffPending`: orders whose confirming handler has committed and not yet
  finished its handoff. It is not persisted: what the crash of the process loses.
- `providerOrders`, `providerDecisions`: what the provider received and was told.

Each endpoint is an action of `Next` with its guards and all its writes, audit
row included. `HandoffLostAfterTransmission` and `ProviderDecisionLost` are the
cases in which the adapter was called and the commit did not happen.

The adapter is modelled as the `ProviderAdapter` interface allows. The default
wiring, a `LocalMockProviderAdapter` without fixtures made anew for each request
(`api/dependencies.py`), rejects every product and keeps no idempotency keys;
under it most of this behaviour is reachable only with another adapter in its
place, as the tests do.

### OverlappingSessions: several workers

One order, and for each session what it has loaded and is about to do. `Load*`
reads and validates committed rows; `Commit*` writes the columns the handler
changed over the row as it has become, if the CHECK constraint allows, and never
while an initialization holds the row lock. The docs and
`tests/test_payment_initialization_concurrency.py` expect such overlap.
Handoff sessions start from a committed confirmation; a webhook's load precedes
its replay key, as in the code. Audit rows, owners and amounts are those of
`PathAOrders` and are left out here.

### CatalogPricing

Products, kits with their `kit_items` rows, the provider's answers, and draft
orders with one snapshot. The catalog and the provider change at will, as no
endpoint writes the catalog. A quote is `"quoted"` or the code of the rejection,
in the order the services raise them. Left out: frontend claims, options, terms. A free product (`base_price` 0) can be drafted and never paid,
as in the code. The quote reference of the local adapter depends on the item
alone, so that it cannot be stale; a provider whose references change would make
`order_items_not_payable` of every old draft.

### DesignPricing

Templates with the fields in their order of display, stored designs, and one
request at a time, since requests meet in tables that none of them writes but
for the insert of a design. A creation is three steps: one SELECT reads the
template (`StartCreation`), another the fields, on which the submission is
validated (`ValidateCreation`), and an INSERT with its COMMIT stores what was
accepted (`StoreDesign`) or fails (`CreationFails`). Between any two of them the
catalog may change. A quote is the two reads; it writes nothing, so that its
answer counts for the fields as they were read. A submitted value is one of six representatives of what
`_validate_field_value` tells apart; a field is its type and its
`allowed_values`, malformed ones included.

Two things the code does are kept: when the template is withdrawn between the
two reads, a submission with values is answered as one with unknown fields (400
and not 404), and an empty one is accepted; a quote in progress still sees the
template it loaded, since the session's identity map is not refreshed. The
properties therefore speak of templates that are still active.

A third follows from the steps: the catalog may change after a design was
validated and before it is committed, so that a design need not fit its template
even when it is stored. `StoredDesignsWereValid` claims of a creation only that
nothing is stored but what was submitted and fitted when the fields were read;
what keeps a misfit from being sold is that every quote validates again
(`QuotedDesignsFit`).

### RowLocks

Each request is a sequence of flushed statements in one transaction. A statement
names the row it locks and the mode (`Wanted`), and waits while another open
transaction has a conflicting lock: unique keys of an event or a payment, the
share of the order row that the event's foreign key takes, `SELECT ... FOR
UPDATE`, `UPDATE`. `running[w]` is the coroutine that has the event loop of worker
`w`. The driver is synchronous (`core/database.py`), so one that waits for a row
keeps the loop. `initialize_checkout` is awaited with the order row locked; it
awaits nothing itself, so that the loop is not given up (`GivesUpLoop`). That is
all that stands between this code and a worker that never answers again: with a
network call there, the mutant, a second request of that worker waits for the row
in the driver, and the first can never be resumed. The repository's own
concurrency test runs two event loops in two threads and could not see it.

Modes, waits and loops belong to PostgreSQL and asyncio and are marked external
in the map. What a request validates is in the other modules; here it is
`Reject`. Several orders share event ids and references, which
`OverlappingSessions`, with its one order, does not have.

### CheckoutWindows

Integer time. A worker reads its clock up to `Skew` from the provider's, once to
decide whether the window has elapsed and once for the new window, and the answer
may be lost after the commit. A link is payable until the millisecond signed into
it, whatever the database says by then.

### ListPages

One client, one list of orders or products. A response is two statements, the page
and the count; other transactions commit between any two. New rows may appear
anywhere in the list: `created_at` is the start of a transaction, not its commit,
and a name is any name. Products may leave the list; no order does.

### SchemaRollout

A revision is the set of tables, columns, references, keys and checks that its
`upgrade` adds and its `downgrade` drops, as written in its file; `*Model` is what
each SQLAlchemy class declares. The database goes up and down one revision at a
time. An upgrade is `Inspect`, the queries at its head that may refuse it, and
`Apply`, and rows are written in between: `ALTER TABLE` locks the table only when
it comes. `alembic/env.py` runs all pending revisions in one transaction, which
gives fewer interleavings than the model has. Payments are written by the present
release or by others: releases that know no identity, and the provisional and
foreign references that the contract's queries look for. Two facts that the
properties leave room for: a provisional reference that is written after the
queries of `d98b7e31a3a3` gets past them, as it breaks no constraint; and
downgrading below `838722b0b76e` drops the identities of Wompi payments, which
come back as `legacy_generic` when it is applied again.

## Runs

| Run | Shows | Bounds |
|---|---|---|
| `payments` | an order is paid by one verified payment, checkouts are exclusive, a reference names one payment, settled payments stay, events act once, the handoff is owed once | 2 orders of 2 customers, 2 payments, 2 references, 2 events, 2 amounts |
| `fulfilment` | types, the paper trail of each stage, the CHECK constraint, event references, the refinement of `OrderContract` | 1 order, 1 payment, 2 event references, 2 customers |
| `overlapping_sessions` | a hold ends only by a cancellation request; the row lock and the unique replay key do their work; undisturbed sessions break nothing | 2 sessions, 3 payments, 1 reference, 2 events |
| `catalog` | a draft is payable exactly while its product is offered; quotes of kits agree with their contents and with the catalog | 2 products, 1 order, 1 kit of up to 2 rows, stored quantities 2 and 5, limit 4, 2 prices, 2 availability states |
| `designs` | only what fitted when it was validated is stored, and only what fits on a new read is quoted; the right side is blamed | 2 customers, 1 design, 1 template, 2 fields of 6 shapes, 4 values |
| `row_locks` | nobody waits in a circle, every request is answered, a replay is of a committed event, orders share a reference only through overlap | 3 requests of 2 workers, 2 orders, 1 reference, 2 events |
| `checkout_windows` | a link carries its row's expiration; two links are payable at once no longer than the skew | 3 checkouts, 2 ticks a millisecond, 3 ticks to live, skew 1, 9 ticks |
| `list_pages` | pages are no longer than asked for; nothing is missed | 4 ids, 2 sort keys, pages of 2 |
| `schema_rollout` | schema, revision and models agree; owners are not made up; only foreign rows stop the contract, which sees what it inspected | 15 revisions, 3 payments, 1 event key, 1 design, 1 template, 2 customers, 2 products |
| `repeated_decision`, `handoff_retry`, `lost_update` | violations, see "Findings" | |

Why the bounds are enough. Every order has its own rows but for provider
references, payment ids and event ids, and two of each let two orders, or two
payments of one, contend for them. Two payments are an active one and its
replacement, or a checkout and a payment by a webhook; two events are a
confirmation and its replay or a late event. Two sessions are the least that
overlap, each may load any number of times, and three payments let both restart
an expired checkout. Two rows of a kit give every pair of active, inactive,
blocked and over-limit rows, and a limit of 4 with stored quantities 2 and 5
puts 2, 4, 5, 6 and more on both sides of it. Three requests of two workers are
the least in which a circle can close over a loop and a row held elsewhere. Four
rows fill two pages, with equal sort keys across the edge. Three checkouts give a
replacement of a replacement, and a millisecond of two ticks one to cut off. The
schemas of `SchemaRollout` are constants, so its run walks through every upgrade
and downgrade there is; three payments are a backfilled one, one of the present
release and one of another. Two fields are the least that share a
name, that are both at fault, or of which one is left out. Ids, references,
sessions, products and names are only compared, which makes the symmetry sound.
Deadlock is not checked in the models of orders, since a delivered or cancelled
order rightly stays where it is, nor in `list_pages`, where a client that has read all
is done; in `row_locks` it is (`Finished` is the step when all are answered). All safety properties of the passing runs are also
proved, for any bounds (see "Proofs").

`MaxTime` bounds the clock in `Tick`. `PathAOrders` and its runs have no other bound than the ids: a fulfilment
event is audited again for each event reference only, and the log is a set.

## Fairness

Safety needs none. `FairSpec` of `RowLocks` is used by `row_locks`: weak fairness
of what each request does of itself (`Proceed`). A coroutine whose statement can
run is run by its loop, and PostgreSQL wakes who waits for a lock that is free.
Weak is enough since a lock, once free of those who came before, is not taken
away for ever: requests are finitely many. Rollbacks (`Reject`) are not fair,
nothing relies on them.

`FairSpec` of `PathAOrders` is used by `handoff_retry` alone: a running handler
comes to an end (weak fairness of the handoff), and a transmission that is
attempted again and again succeeds at some time (strong fairness). Nothing is
assumed of customers, admins, carriers or the payment provider, so nothing of
the kind "a paid order is delivered" is claimed.

## Proofs

Every safety property that a passing run checks on a small instance is stated by
a theorem for every value of the constants. The theorems of `PathAOrders_proofs`
rest on the assumptions of `OrderStore` (`StoreAssumption`), the others on those
named below; the assumptions say that `None` is no id, that limits are naturals,
and the like.

- `PathAOrders_proofs`: `TypeCorrect`; of the payments, the inductive invariant `PaymentInv` joins what the
  payment properties need of each other. One verified payment per order is not
  inductive: it needs that draft orders have no verified payment, that a
  reference names one payment of one order, and that ids are exclusive, since
  rows are replaced by id. From it follow `OrdersArePaidOnce`,
  `ReferencesAreExclusive`, `CheckoutsAreExclusive`; `SettledPaymentsAreFinal`
  and `PaymentsMoveOncePerEvent` are action properties.
- `PathAOrders_proofs`, of the orders: `OrderInv` ties an order's stage, through its hold, to its
  references, audit rows and provider records, and says who still owes a
  handoff. A lemma per action says what it does to one row; `OrderSteps` says that
  every step touches at most one. From it follow `CheckConstraintHolds`,
  `StagesAreJustified`, `ReferencesNameOneEvent`, `HandoffsAreOwedOnce` and
  `ContractIsKept`, the refinement: `Init` maps to `ContractInit`, each step to a
  step of the contract or a stutter. `OneWorkerFollowsTable` is what
  `docs/planning/orders.md` says of invalid transitions, for transactions that do
  not overlap: every committed change of a status is an entry of the table on the
  row as it is, though confirmation, handoff and resolved cancellations ask rules
  of their own.
- `OverlappingSessions_proofs`, from `SessionAssumption`. The invariant `SessionInv`
  says that the committed row satisfies the CHECK constraint, and remembers for
  every session what it validated: the row it loaded satisfies the constraint
  and its transition was one of the table there. A write from another status
  then leaves the hold's column as it is, and the constraint refuses the result:
  `HoldsEndInRequests`. `LedgerInv` adds that ids name one payment and that
  nothing returns to draft, which gives `StaleRowsAreTheOnlyCause`: what
  `lost_update` shows comes from writes validated on stale rows alone.
  `LockInv` adds that the payments are as the locking session read them while it
  holds the lock, and that webhooks only know payments that are no checkouts:
  `LockLeavesOneCheckout` and `LockKeepsCheckoutsToDrafts`. Also
  `SessionsTypeCorrect` and `DeliveriesActOnce`.
- `FreshWritesKeepContract`, in the same module, is the converse of `lost_update`
  at the level of the contract. `FreshSpec` is `Spec` with one condition, that
  whoever changes the order row finds it as it loaded it; stale sessions may
  still be open, write payments and roll back. Each change of the row is then one
  step of `OrderContract`, which goes on from a created draft. Whether the
  provider received the order cannot be read from the row of a cancelled one,
  hence the history variable `handed`, which no action reads. The new invariant
  (`FreshInv`) is that whatever is past draft has been paid for.
- `CatalogPricing_proofs`, from `PricingAssumption`: `PricingTypeCorrect`,
  `PayableWhileOffered`, `QuotedKitsAreSound`,
  `CatalogAndPricingAgree` and `KitTotalsAgree`. The first four follow from the
  types; the lemmas say which products, rows and contents each check accepts. That
  the code of the first offending row is no acceptance needs the least row to
  exist, hence the well-founded order of the naturals. `KitTotalsAgree` says that a
  sum over rows scales with the quantity of the kit. Instead of an induction over
  the rows it takes a smallest set of rows on which two functions that add up
  row by row differ (`SmallestSet`, `SumsAgree`): it is not empty, and without one
  of its rows they agree.
- `DesignPricing_proofs`, from `DesignAssumption`: `DesignsTypeCorrect`,
  `OnlyValidDesignsAreStored`, `DesignsFitWhenQuoted` and `BlameIsRight`.
  `ValidationErrors` says what each answer of `validate_customization` means for
  the fields it was given; while the template is active these are its fields.
  The invariant adds that a quote in progress is of a stored design of the
  customer who asks.

- `RowLocks_proofs`, from `HomeAssumption`, for any workers and requests. `WaitInv`
  orders the statements of all requests by one number (`Place`) and says that who
  has a lock on a row is past the place where it is taken, and that a request
  between its first statement and its answer has its loop. A request therefore
  waits only for one that is further on, and in every set of requests one that
  is furthest waits for nobody in it: `CirclesAreImpossible`, without induction over
  the length of a circle. The share of the order row that webhooks hold at once
  is compatible with the `UPDATE` they go on to, or this would fail. Also
  `LocksTypeCorrect`, `ReplaysAreOfCommittedEvents` and `SharedReferencesNeedOverlap`.
- `RowLocks_proofs`, what locks are good for: `HoldInv` says that conflicting locks
  on a row are never held at once, and what each session relies on while it has
  its own: its event is new, the payment it inserts is not there, the order of a
  checkout is unpaid. Whoever could make one of these false commits under a lock
  on the same row (`StepOf`), and two such locks conflict (`WritersExclude`).
  `LocksKeepTheirRows` is its theorem; `EventsAreCommittedOnce` follows. It
  is a reason why `OverlappingSessions` may take flush and commit as one step.
- `RowLocks_proofs`, the safety half of `EveryRequestIsAnswered`: unless all are
  answered somebody waits for nobody (`SomebodyGoesOn`), and every step takes
  one request to a later statement (`RequestsGoForward`), of which there are at
  most eight. That a request that waits for nobody has an enabled step is
  `ENABLED`, and left to TLC (deadlock is checked in `row_locks`).
- `CheckoutWindows_proofs`, from `WindowsAssumption`: of two links of different
  payments the later was given after the end of the other, up to the skew, because
  a row expires only at its time by some worker's clock: `LinksOverlapBySkewOnly`;
  and `LinksCarryTheirExpiration`, from the arithmetic of truncation.
- `ListPages_proofs`, from `PagesAssumption`, for lists, pages and insertions of any
  size: `PagesInv` says that the rows not seen yet are behind what has been fetched.
  Rows that appear only move them back. From it `NoRowIsMissed`; `PagesTypeCorrect`
  needs that positions in a total order are distinct, so that a page is no longer
  than its positions.
- `SchemaRollout_proofs`, from `NullAssumption`: `RolloutInv` says what the rows look
  like below, at and above each revision that touches them, and what the queries
  of an upgrade have seen. From it `OwnersAreNotInvented`,
  `ContractWaitsForOthersOnly`, `ContractSeesWhatItSaw` and `RowsTypeCorrect`.
- `SchemaRollout_proofs`, of the schema: `SchemasMatch`. Every table, column, key and
  check is given the one revision it dates from (`TableSince`, `ColumnSince` and so
  on); a lemma per revision says that its upgrade adds just the parts that date
  from it, and its downgrade drops them. The schema at a revision is then the parts that
  date from it or from before, whichever way the database came there
  (`UpgradeAddsRevision`, `DowngradeDropsRevision`), its foreign keys point to what
  is there (`ClosedAtEveryRevision`), and a lemma per model says that the parts at
  the head are those that its class declares.

Only model-checked: liveness (`EveryRequestIsAnswered`, `FailedTransmissionsAreRetried`),
which the prover has no rules for, and the violations.

## Findings

- A rejection by the provider is reported and audited as an idempotent repeat on
  an order that the provider had accepted and the customer then cancelled
  (`repeated_decision`). A cancelled row does not say who cancelled it.
- `docs/flows/main-flow.md` has a failed transmission retried; no code retries it
  (`handoff_retry`): the handler ends without a transmission (`HandoffNotSent`), the
  provider does not have the order, and it stays confirmed. An order whose
  transmission succeeded and whose recording was lost (`HandoffLostAfterTransmission`)
  also stays confirmed; that the provider then has it is what sets the two apart.
- Every change of status is a transition of the table for one worker, and not when
  the transactions of two overlap (`lost_update`). The code validates rows it has
  read without a lock or a version; payment initialization alone takes the lock.

Met on the way and not run apart, as they have the same cause or follow from what
the modules say: settled payments are irreversible, and only draft orders are
confirmed, for one worker only (`UndisturbedCommitsAreTransitions` says that a
session on stale rows is the only cause); the service-layer check of references
(`docs/planning/payments.md:168`) does not see an overlapping webhook of another
order (`SharedReferencesOverlapped` says that overlap is the only way); an empty
design is stored if its template is deactivated between the two reads of its
validation, its required fields notwithstanding; a malformed field stops a
design only if the customer fills it in.

## Not modelled

- Webhook verification: an HMAC and JSON decoding; the models start at the trusted
  event it returns. The signed Wompi URL is formatting, and the checks of the
  provider's configuration are stateless comparisons of settings.
- The handoff payload: a pure function of an order's snapshots and of a constant
  provider. A model would assemble a record and repeat its own fields; that it may
  refuse is `HandoffNotSent`.
- Authentication, categories, template and detail reads: no state here, and one
  read each.
- Repositories of provider events and transactions: no service calls them; their
  tables are in `SchemaRollout`.
- Frontend claims, options and terms of quotes and drafts: requests that carry them
  are turned down before anything is read.
- Columns, indexes and defaults that no property of the schema is about.
- The mobile placeholder and the repository's scripts.

## Plan

1. Done: lifecycle tables, store, payments, fulfilment, cancellation, their
   composition, the contract and its refinement; sessions; catalog pricing;
   designs; row locks and event loops; checkout windows; lists; migrations; their
   proofs.
2. When services begin to use the provider event and transaction tables: their
   replay keys beside those of the generic webhook, in `OverlappingSessions`.
3. Next proofs: that the locks of `RowLocks` give the serial commits of
   `OverlappingSessions` (a mapping between the two, of which `HoldInv` is the
   first half), and that confirmed orders whose handler has ended without a
   handoff are those that `handoff_retry` finds.
