# Ventia in TLA+

Ventia is a multi-tenant shop platform. A TypeScript API (`services/api`) serves
a storefront and an administration app, PostgreSQL holds the state, Redis the
job queues and caches, and three payment gateways (Wompi, Mercado Pago, ePayco)
are reached through adapters in `packages/payments`. This directory holds models
of the parts where carts, orders, stock and money meet, of what decides whether
a store is open, and of the shop agent's conversations; their model-checking
configurations; and machine-checked proofs about them.

## Reading order

| Module | What it is |
| --- | --- |
| `OrderContract` | what an order promises, abstractly |
| `OrderLifecycle` | orders, stock, payment verdicts, the expiry sweep, catalogue edits that reach a stock row |
| `PaymentSettlement` | webhooks, ledger, reconciliation and the shopper's hint, over the orders of `OrderLifecycle` |
| `Gateways` | what the three payment adapters make of a gateway's records, notifications and amounts |
| `CartCheckout` | tabs, carts, the checkout transaction with its locks and connection, customers |
| `TenantBilling` | the subscription sweep, operators, the launch, and the cache that keeps a store up or down |
| `Conversations` | the shop agent's turns on WhatsApp and in the widget, its budget, and the retention purge |
| `MCOrderLifecycle`, `MCPaymentSettlement`, `MCGateways`, `MCCartCheckout`, `MCTenantBilling`, `MCConversations` | the instances TLC checks |
| `OrderLifecycleProofs`, `PaymentSettlementProofs`, `GatewaysProofs`, `CartCheckoutProofs`, `CartUnitsProofs`, `TenantBillingProofs`, `ConversationsProofs` | theorems and proofs |
| `FiniteLemmas` | sums over finite sets and the induction behind them, for the proofs |

`PaymentSettlement` extends `OrderLifecycle` and implements it; `OrderLifecycle`
implements `OrderContract`. The other four stand beside them and meet them at
one point each: an event `Gateways` keeps is a delivery `PaymentSettlement`
handles, an order `CartCheckout` appends is one `OrderLifecycle` places.

A definition marked `MUTANT` is a plausible bug in the definition that follows
it. No specification uses one; each checked property fails when one of them
takes the place of the definition it spoils.

## Inventory

Paths are under `services/api/src` unless they start with `packages`.

| Component | State | Operations | What is hard | What makes it correct |
| --- | --- | --- | --- | --- |
| Orders (`orders/`) | `Order.status`, `paymentStatus`, `OrderItem`, `InventoryMovement` | `transition` (confirm, preparing, shipped, delivered, cancel) | merchant, gateway and sweep act on one order | units are taken once and given back once; nothing undecided is fulfilled |
| Reservations (`payments/stock-reservation.worker.ts`) | `stockReservedUntil` | `expireReservations`, `expireOneReservation` | stale candidates, a batch limit, one candidate's failure | every reservation ends; a settled order is left alone |
| Checkout (`checkout/`) | cart, customer, order, stock | `checkout`, `providerRefHint` | races for the last unit, connection pool, gateway call after the commit | an order exists only with the stock it claims |
| Verdicts and ledger (`payments/payments.service.ts`, `payment-ledger.ts`) | order columns, `Payment` rows | `markPaid`, `markFailed`, `recordPaymentAttempt` | two settle paths, retries | settlement is final; the ledger precedes it |
| Webhooks (`payments/webhooks.controller.ts`) | `WebhookEvent` rows | `handle` | repeated, delayed, reordered and concurrent deliveries; failures between its round trips | no charge is lost in silence; only an order's own charge settles it, bare numbers of old sessions apart |
| Reconciliation (`payments/reconciliation.worker.ts`) | none of its own | `reconcilePendingPayments`, `reconcileOneOrder` | acts on a row read long before; some gateways' lookups are not scoped to the account | settles only what is bound to the order |
| Gateway adapters (`packages/payments`) | the gateway's transactions | webhook verification, status lookup, search | different identifiers, units and vocabularies | one normalized statement per gateway fact |
| Catalogue (`catalog/`) | products, variants, stock | `adjust`, `replace`, `update` | edits under open orders | a row is never negative; the journal adds up |
| CSV import (`csv-import/`) | products, stock | `import` | absolute writes from a snapshot | journal and stock agree |
| Cart (`checkout/cart.service.ts`, `apps/storefront/lib`) | `Cart`, `CartItem`, the cookie, each tab's queue | add, update, remove, adopt | read-then-write, double checkout | one cart, at most one order |
| Payment alerts (`payment-alerts/`) | append-only reviews | `list`, `review` | rows stamped again | an alert is pending until reviewed |
| Subscriptions (`platform/`) | `Subscription`, `NotificationLog`, tenant status | sweep, suspend, reactivate, renew | stale candidates, a claim without its send | only the overdue are suspended; an accepted warning is not sent again |
| Domains (`tenants/`) | `TenantDomain`, Redis cache | `resolve`, `verify` | cache written after its invalidation | a suspended shop goes down |
| Agent (`agent/`) | conversations, usage, throttle keys | `respond`, tools | check-then-record budget, tools that fail | the plan's budget; one reply per message |
| WhatsApp (`whatsapp/`) | numbers, conversations | `handle` | redeliveries, fire-and-forget handling | a message is answered once |
| Retention (`agent/conversation-retention.worker.ts`) | conversations | `purgeExpiredConversations` | messages arriving during the purge | nothing recent or escalated is deleted |
| Staff (`staff/`) | memberships, invitations | invite, accept, revoke, remove | check-then-create | seats and invitations are used once |
| Plan and rate limits (`common/`) | `TenantLimits`, Redis counters | quota and rate checks | check-then-act | limits hold |
| Authentication, privacy, onboarding, settings, storefront reads, mail, storage, observability, user interfaces, deployment | rows of their own or none | validated single-row writes, queries, I/O | little that a model would tell | not modelled: no interaction worth a state machine |

How they interact: the storefront fills a cart and calls checkout, which opens a
session with a gateway; the gateway calls the webhook handler; the handler and
the reconciliation sweep call `markPaid` and `markFailed`; the expiry sweep
cancels what nobody paid; the merchant calls `transition` and edits the
catalogue. They share the order row, guarded by a per-order advisory lock, and
the stock rows, guarded by a conditional `UPDATE`. Every storefront request goes
through the domain cache, which the subscription sweep and the operators
invalidate. The agent shares the catalogue and the carts with the storefront and
its conversations with the merchant's inbox and the purge. `PROJECT.json` lists the hazards, each at the
line where it bites, and the properties that cover it.

## How the models correspond to the code

### OrderLifecycle

One action per operation. Each operation of the code runs in one transaction
under `pg_advisory_xact_lock(hashtext(orderId))` and re-reads the order under
it, hence one atomic action; a rejected request rolls back, hence a stuttering
step. Stock rows are not under that lock: `adjustStockLine` relies on the floor
check in its `UPDATE`, which the database serializes per row, so a transaction's
effect on the rows is that of its commit. The race of two transactions for one
row, between one row of an order and the next, is therefore not here but in
`CartCheckout`, whose transactions take their rows one by one
(`StockAddsUp`). The sweep's candidate list is read
outside any lock, so `SweepStart` reads it and `ExpireNext` uses it, one
candidate at a time, with anything in between.

| Variable | Code |
| --- | --- |
| `status`, `payment`, `provider`, `reservation` | `Order.status`, `paymentStatus`, `paymentProvider`, `stockReservedUntil` (a deadline ahead is `"live"`, one passed `"lapsed"`) |
| `lines`, `net` | `OrderItem` quantities; the sum of the order's `InventoryMovement.delta` |
| `stock`, `life` | `Product.stock` or `ProductVariant.stock`; whether the row exists |
| `tracked` | products whose `trackInventory` is set |
| `batch` | the candidates `expireReservations` still has to handle |
| `intake`, `disturbed` | history variables: units put on a row by hand; orders whose product changed tracking while they held it |

A merchant may toggle `trackInventory` between an order's decrement and its
restock, and one of the two is then skipped. The code promises nothing of such
orders (`disturbed`), and their movements no longer tell what they hold.
`HeldStock` bounds the damage for them: whatever the flag does afterwards, the
journal is off by that order's own lines once (`SkewIsOneBasket`). Every other
property covers them as it does the rest.

Deadlines are creation time plus a constant, and order numbers are taken under a
tenant lock in the same transaction, so `Lapse` follows the order of numbers, as
the sweep's `ORDER BY` does.

### PaymentSettlement

The webhook handler is not one transaction, so each of its round trips is an
action: `Receive` (insert, or reprocess an unstamped row), `Record` (ledger),
`Settle` (`markPaid` or `markFailed`), `Stamp` (`markProcessed`), with
`FailHalfway` between any two. Several requests run at once, and any delivery may
be repeated at any time. The reconciliation sweep (`ReconRead`, `ReconAsk`,
`ReconRecord`, `ReconSettle`, `ReconGiveUp`) and the hint request (`HintRead`,
`HintWrite`) are split in the same way. `ShopStep` is everything else
`OrderLifecycle` does; payment verdicts come only from the two settle paths.

A charge is a record: which shop opened it, `"here"` or, where tenants share a
merchant account, `"elsewhere"`; the number of its order there, 0 for an order
nobody knows; the key that names the order, `Order.reference` or the bare number
used before references existed; and whether its amount and currency are those of
this shop's order of that number, are others, or are not reported. A reference
is unique across tenants, so a foreign one is refused (`ReferencedOrder`). A bare
number is looked up within the tenant of the URL (`NumberedOrder`), so another
tenant's charge of the same number finds this shop's order, and settles it if
the total is the same too. The comments accept that for sessions opened before
references ("the OLD, weaker guarantee (the amount check alone)",
`webhooks.controller.ts:471-477`), and `SettledByItsOwnCharge` and
`VerifiedRefIsOwn` say exactly that much: a foreign charge settles an order, or
stamps its ref, only under its bare number and for exactly its total. The
sweep's binding check has no such path. `AccountScoped`,
`Searchable`, `SignedStatus` and `Decisions` are what tells the gateways apart:
Mercado Pago has a scoped lookup and a search, and both it and ePayco look a
transaction's status up when the delivery is handled; Wompi signs the status
into the delivery, which may therefore be an old one, and annuls card payments.
`settledBy` is a history variable. A row's `eventId` is the transaction and its
status, hence the index of `row`.

### Gateways

The gateways' side (`Attempt`, `Evolve`, and their vocabularies) is external;
the adapters' side is one operator per mapping: `mapStatus` of each, ePayco's
numeric codes, cents and pesos, event ids, lookups and the search. A delivery is
two actions, because a gateway may change a payment between the lookup that
`verifyAndParseWebhook` makes (`Deliver`) and the row the controller inserts
(`Record`); a lookup that fails and an answer that is lost are faults, after
which the gateway sends the notification again. Every notification is genuine:
what a false signature does is one early return. Wompi's event id is the
transaction and the body's timestamp; two notices of one transaction differ in
it here, as in the gateway's documentation. Its pending transactions may be
reported before or after they are approved (`FirstStatuses`).

### CartCheckout

Adding an item is three statements without a transaction. `AddStart` is the
guard's read of the cookie's cart; `AddFind` merges the service's own read of
the cart, its creation, and the read of the line: what could happen between them
is the end of the cart, and a line of a cart that has just ended is absent
either way, which `AddWrite` then finds out as the statement that fails.
`UpdateItem` and `RemoveItem` are decided by their last statement, whose
condition is the whole of what they read.

The checkout is one transaction at READ COMMITTED: `Begin` reads the cart and
its products, `LockTenant` waits for the tenant's advisory lock and looks the
customer up under it, `TakeRow` updates one stock row and keeps its lock,
`Finish` deletes the cart and commits, and only then are its writes seen. It
holds a connection of the pool (`pool`) from `Begin` on; every other statement
needs one for its own moment (`FreeConnection`). `Rollback` gives everything
back. A merchant's confirmation of an order is modelled for the rows it locks,
in any order of lines. `Victim` is PostgreSQL's deadlock detector.

`asked` and `editors` are history variables: what a cart was acknowledged to
hold and which tabs changed it. Two tabs of one browser share its cookie and
not their queues, so `OneTabKeepsItsAdds` speaks of carts with one editor.

Three things the model does that no property forbids, because the code promises
nothing about them: an item added between the checkout's read of the cart and
its delete is acknowledged and lost; two tabs may each create a cart, of which
one stays without a cookie; and the answer of a checkout clears whatever cart
cookie the browser has by then.

### TenantBilling

No operation is a transaction here, so each round trip is an action: a sweep
reads its page of warnings (`SweepStart`), claims and sends them one by one
(`WarnNext`, `FinishWarning`), reads its page of suspensions (`WarningsDone`)
and works through it (`SuspendNext`); `setStatus` reads, writes and invalidates
(`OperatorCall`, `StatusWrite`, `Invalidate`); a resolve reads and fills
(`ResolveRead`, `ResolveFill`). `Crash` ends a sweep or a request anywhere.
Days are integers and `Tick` may come between any two steps.

| Variable | Code |
| --- | --- |
| `status`, `paidUntil`, `notice` | `Tenant.status`, `Subscription.paidUntil`, `NotificationLog.status` under `warningKey` |
| `stage`, `asOf`, `rows`, `claim` | where a run of `sweepSubscriptions` is, its `now`, its page, the warning it is sending |
| `call` | the `setStatus` an operator or a sweep is inside of |
| `domain`, `cache`, `request` | `TenantDomain`, the Redis entries, the resolves in flight |
| `launched`, `launching` | launches whose checklist was complete; how far a launch request has come |
| `mailed`, `touched`, `lagging` | history variables: what the provider made of each warning; tenants others changed under a running sweep; hosts whose entry may be late, for a cause listed at `StaleEntryHasReason` |

`launch` is three round trips: `AdminSessionGuard` reads the status and refuses a
suspended tenant (`LaunchCall`), `launch` reads it again, answers a live store at
once and checks the list of the others (`LaunchCheck`), and the write is
unconditional (`LaunchWrite`). A store suspended between any two of them comes
back, a live one's second launch included: it passes the guard, then finds
itself `suspended` and not `live`.

A send whose call throws may have been accepted by the provider all the same.
`Send` leaves such a warning `"doubtful"`, its row is `failed`, and the next run
sends it again: the duplicate that `subscription-sweep.worker.ts:303-308`
accepts, and that the summary above it ("sent at most once per billing cycle",
:282) and `docs/SPEC.md:184` leave out. `WarnedOnce` is about `"accepted"` ones.

### Conversations

A turn is a handful of statements and model calls without a transaction: each
statement another actor can disturb is an action. `Receive` is the webhook, which
answers 200 and lets `handle` go on by itself; `TurnFails` is what `handle`
catches, or the process dying. What the model answers is a free choice among
tools, an escalation and a reply. `ModelEscalates` merges the update of the
conversation with the row of the tool's result: a failure between them leaves an
escalated conversation, which `TurnFails` one step later leaves too. The purge
is two actions per batch because its transaction checks its candidates in one
statement and deletes them by id in later ones.

Time is counted in months, the granularity of both the budget and the retention
period: a turn sees at most one month end. The throttle's two windows, thirty
seconds and five minutes, lapse together. `calls`, `forgotten` and the `touched`
of the purge are history variables. One tenant is modelled: conversations,
budgets and purge transactions of two tenants share nothing.

Reachable here, and claimed by no property, because nothing in the repository
promises otherwise: two first messages open two conversations; of two
overlapping deliveries of one message the second is answered with the throttle's
text; a row deleted by the purge no longer stops a redelivery (`forgotten`).

## Properties

The comment above each property names the code it is about.

*Orders and stock.* `HeldStock`: an order's movements sum to what it holds, or
are off by its lines once when its product's tracking changed under it.
`BooksBalance`: shelf, journal and manual intake agree on every row.
`OpenClaimHasDeadline`, `FulfilledOnlineIsDecided`, `SettlementIsFinal`.
`ContractHolds`: the lifecycle implements `OrderContract` under the mapping at
the end of the module. `ReservationEnds`: every reservation ends, except where
its rows were deleted or a full batch of such orders stands before it.

*Money.* `SettledByItsOwnCharge`, `VerifiedRefIsOwn`: a charge opened for this
order, or one of its bare number and exactly its total.
`LedgerPrecedesSettlement`; `NoSilentCharge`, for this shop's charges;
`AlarmMeansTooLate`.
`LifecycleHolds`: seen from the orders, settlement is a behaviour of
`OrderLifecycle!Spec`. `ChargeIsAnswered`: an approved charge is confirmed or
alarmed in the end, unless it is taken back.

*Gateways.* `DuplicateLosesNothing`: an event dropped for its id says what the
kept one says. `EventsTellTheTruth`: no verdict the payment never had.
`LookupAgreesWithEvent`: both name the same order, amount and verdict, through
pesos and back. `SearchFindsThePaid`. `ApprovedIsHeard`: an approval reaches a
row in the end.

*Carts and checkouts.* `OneOrderPerCart`, `OneCustomerPerEmail`, `StockAddsUp`,
`OneTabKeepsItsAdds`. `CheckoutsNeverDeadlock`: rows are locked under the
tenant's lock only. `CheckoutEnds`: every submitted checkout ends, whatever the
size of the pool.

*Open or dark.* `WarnedOnce`: what the provider accepted is not sent again,
unless that call itself failed. `DarkOnlyWhenDue`: no row older than the run's
own page is acted on. `StaleEntryHasReason`: a cached status differs from the
row only for one of five causes, of which the code's comments disclose one, a
refusal by Redis; a crash, a launch, a removed host and a late fill are not.
`OverdueGoesDark`: a live store past its grace period is suspended or paid for,
past crashes and full pages. `SuspensionBites`: a store that stays suspended
stops being served.

*Conversations.* `BilledOncePerMessage`; `OverrunIsBounded`: the plan is overrun
by fewer turns than are in progress at once; `PurgeSparesTheLive`;
`RetentionBites`: what has been silent for too long is purged in the end.

## Runs and bounds

| Run | Instance | Shows |
| --- | --- | --- |
| `lifecycle` | 2 orders; a plain product and one with variants; a row of 1 unit and one of 2; a batch of 1; one manual adjustment, one replacement variant, one tracked flag toggled | both orders want the same last units; every action meets every other |
| `settlement` | a Wompi shop: 1 order, 2 transactions, 2 concurrent requests, 1 failure | repeated, reordered and concurrent deliveries; a declined attempt and a retry; two charges for one order; a failure between any two steps |
| `binding` | a Mercado Pago shop: 1 order, 2 transactions, 6 kinds of charge, 1 request, hints | another tenant's charges of the same number and total, by reference and by number; other amounts, missing amounts, bare numbers, planted hints, refunds |
| `gateways` | 2 orders of odd totals, each at any of the gateways, 2 attempts, 3 status changes, 2 deliveries at once, 1 fault | both attempts at one order or one at each; a change between lookup and row; an authorization that fails; a mediation that ends either way |
| `checkout` | 2 tabs of 2 browsers and one e-mail, own carts or the agent's shared one, 2 items with 2 and 1 units, a pool of 2, 2 cart mutations, 2 checkouts, 1 merchant, 1 fault | the double checkout, the first two orders of one customer, a full pool, crossed row locks |
| `billing` | a live and a draft store, 1 host that moves, 4 days, 1 sweep with a page of 1, 1 operator, 1 resolve, 2 edits, 1 fault | renewal and suspension between a sweep's read and its call; a crash with a warning out; a resolve that overtakes an invalidation |
| `conversation` | 1 WhatsApp message delivered twice, 1 typed one, 2 turns at once, a plan of 1 message, 2 conversations, 2 months, 1 fault | redelivery during and after a turn; two turns past the last message of the plan; writing, escalating and resolving under the purge |
| `restock`, `false_alarm`, `mp_search`, `draft_launch`, `late_fill` | the same instances | five statements of the code's comments that do not hold |

Bounds: `MaxStock` caps manual additions, `Announced` the statuses delivered,
`Hinted` the transactions a shopper reports, `MaxFailures` the requests that
die. Two orders suffice for stock, because operations on different orders meet
only in stock rows and in the sweep's batch (of one, so that the second waits).
One order with two charges suffices for settlement, because settle paths of
different orders share nothing but the ledger; another tenant's order of the
same number appears through its charges. Two transactions and two requests give every pair of verdicts in every
order. Annulled card payments (`WompiCardDecisions`) multiply the instance of
`settlement` beyond reason and are left to `false_alarm` and to the proofs.

In the other modules `MaxEdits`, `MaxSubmits`, `MaxFaults`, `MaxNow`,
`MaxClock`, `MaxHandling`, `MaxCarts`, `MaxLines`, `MaxConvs` and
`MaxDeliveries` cap what is done, never what the code may hold. Their hazards
are races of two: two checkouts of one cart, two turns at one budget, a sweep
and an operator, a resolve and an invalidation, two notifications of one
payment; each instance has both parties and one failure. `billing` has one
sweep, because the repeatable job runs under one id; the proofs cover any number
of overlapping ones. A page, batch and plan of 1 make the second candidate wait
and the second turn overrun.

Deadlock is not checked in the settlement instances: when both charges are
decided and answered and the order is over, nothing need happen. The same goes
for the four later instances, which rest when their bounds are used up and every
request is answered; that requests do end is `CheckoutEnds` and the like.

### Fairness

`OrderLifecycle`: weak fairness of `Lapse` (time passes), `SweepStart` and
`ExpireNext` (a repeatable job runs every minute, and the loop catches each
candidate's failure). `PaymentSettlement`: weak fairness of `Receive` per
transaction and status (the gateway repeats a delivery until it is answered 200)
and of each request's next step. Buyers, merchants and gateways owe nothing: no
charge need be decided, no order confirmed.

`Gateways`: weak fairness of delivering and of recording, per payment, for the
same reason. `CartCheckout`: strong fairness of each checkout's next step, since
connections and locks come and go and both the pool and PostgreSQL serve their
queues in order; weak fairness of a confirmation's. Nobody need start one.
`TenantBilling`: weak fairness of a sweep's steps (hourly job), of the calls and
resolves in flight, and of a cache entry's expiry; none of an operator's, a
merchant's or the clock's. `Conversations`: weak fairness of the purge's steps
(daily job) and of nothing else: a turn that has begun may die with its process.

### What the violation runs show

* `restock`: `VariantsController.replace` deletes rows an open order holds. The
  restock then matches no row, so the cancellation is refused and the expiry
  fails in every sweep; a batchful of such orders blocks the ones after it.
* `false_alarm`: a second handler of one event, or a retry after a failure
  between settle and stamp, finds the order settled and stamps
  `paid_order_not_settleable` on the charge that paid for it.
* `mp_search`: the fallback searches for the order's number, while sessions
  carry, and the binding check compares, the order's reference.
* `draft_launch`: reactivation refuses a draft, but suspension does not and
  forgets that the store was one, so suspend and reactivate launch it.
* `late_fill`: "Effect is immediate, not eventual" (`platform.service.ts:273`)
  fails without any fault. A resolve reads the live tenant, the suspension is
  written and the cache cleared, and the resolve fills it with what it read; the
  operator was told `immediate`. A host removed before the suspension would do
  too. The delay is that of the entry, at most 60 s (`SuspensionBites`).

Four more statements of comments are narrower than they read; the models show
them, and the properties say what does hold. The sweep "never suspends a tenant
whose `paidUntil` is null" and "never touches a tenant that is not `live`"
(`subscription-sweep.worker.ts:61`, :66): that is true of its query, but the write
re-reads neither, so a renewal, a cleared date or an operator's change that falls
between the two is overridden. `DarkOnlyWhenDue` excuses the tenants changed since
the run's own read, and only those. "A ref whose `providerRefSource` is
`'verified'` wins over any hint" (`checkout.controller.ts:432`) is true of the
hint's check, and :487 grants that a stamp between the check and the write is
downgraded; `VerifiedRefIsOwn` says what a ref marked verified is worth. The
purge's re-check inside its
transaction "closes both races" (`conversation-retention.worker.ts:353`): it
narrows them, and `PurgeSparesTheLive` excuses what changes between the check
and the delete. `packages/payments/src/errors.ts` says that an adapter which
cannot reach its gateway throws `WebhookVerificationUnavailableError`, answered
503; Mercado Pago's lookup throws a plain error, answered 401. Either is resent,
so `DeliveryFails` covers both.

## Proofs

The theorems hold for every number of orders, products, stock rows,
transactions and concurrent requests, and every setting of the gateway
constants, under the named assumptions of the modules and nothing else. Every
invariant and every action property of the passing runs has one.

`FiniteLemmas`. The library states induction over a finite set with the property
as an operator parameter, which the provers cannot instantiate. Here the
property is a set of subsets instead: if it lacks one, it lacks a smallest one
(`SubsetInduction`). On this rest the sums of the community modules
(`SumFunctionOnSet`): the recursive equation behind the fold has exactly one
solution, so that any element may be taken out first (`SumTakeOut`), a sum
changes by what its one changed term changes (`SumChange`), and a sum over a part
is one over the whole with zeros elsewhere (`SumPart`). `Largest` says that a
nonempty finite set of numbers has a greatest one.

`OrderLifecycleProofs`. `HeldStock` is not inductive: it needs that a
reservation exists exactly for open online orders (or a verdict could keep one
alive), that absent orders hold nothing, that a tracked line's movement is
the negative of its quantity, and that an order whose tracking changed still
holds its units or is over (`SkewedAreOver`), so that it never takes a second
basket. `IInv` joins these with the type invariant; one
lemma per conjunct goes through the actions. The invariants, `SettlementIsFinal`
and the refinement `ContractHolds` follow from it. `BooksBalance` needs one fact
more: a row that a replaced catalogue is still to create has no movements
(`UnbornIsUntouched`), so that it starts with its own stock and nothing else. Every
other step moves a row and one order's journal of it by the same amount.

`PaymentSettlementProofs`. `LifecycleHolds` comes first: every step of
`PayNext` is a step of `Next` or leaves `vars` unchanged, so `IInv` holds here
too. `PayInv` then adds that rows, ledger and requests only name transactions
the gateway knows and statuses it has reported; that a request past its first
step is bound to its order, and a sweep past its lookup to the order it reads
(the charge leads there, as this shop's or by a bare number);
that a request about to settle has written its ledger row; and that the payer of
a PAID order never changes. `NoSilentCharge` needs the last: two handlers of one
event stamp its row in either order, and only a stamp that follows a successful
`markPaid` says `confirmed`. It also needs that this shop's sessions are opened
after the checkout they name (`ChargesFollowCheckouts`), or a charge answered as
unknown could become bound later, which is just what may happen to a foreign
number. `AlarmMeansTooLate` speaks of the order as it is now and the alarm of the
order as it was: `AlarmsAreLate` says that an order once over stays over, and
that a request about to stamp the alarm has found its order over, or the charge
foreign and the order a cash one.

`GatewaysProofs`. What an event says is tied to the gateway's record by two
times, its own and the record's: where they agree the verdict is that of the
record, and where the event is older its verdict is one the payment once had. An
event's id is shown to determine its payment and its verdict, differently for
each gateway: Wompi's by its time stamp, since one signed body is one status;
Mercado Pago's by the raw status in it; ePayco's by the verdict in it. The tables
are settled by cases over the words each gateway uses, and the conversion to
pesos by arithmetic for every total. The search prefers the newest paid attempt:
there is a newest because no payment is dated in the future (`DatesArePast`),
which bounds the dates. Any number of orders, payments and deliveries, under
`GatewayAssumption`.

`CartCheckoutProofs`. The key is that stock rows are updated only by the
checkout that holds the tenant's lock. Two checkouts then cannot wait for each
other; and what the holder saw of the customers is still true when it commits, so
that an e-mail gets one row, whose count is the cardinality of its orders. A cart
sells once because its key leaves `carts` at the commit and stays in `used`.
`CheckoutsDoNotCross` also needs that whatever a checkout wants is one of the
items, which is a second invariant, from the lines of the cart to those of the
sale. Records are typed by their fields only; amounts are left to the next module.

`CartUnitsProofs`. Two invariants over those of `CartCheckoutProofs`. `CartInv`
is about carts: `addItem` writes a quantity it has read before, which is safe for
one tab because its queue never has two mutations out (`OneAtATime`), so that
what an `addItem` has read still stands unless another tab was there
(`EditInFlight`). `StockInv` is about stock: a transaction has taken only from
rows it has locked and no more than they hold (`Locked`), so that no two
take from one row; a sale has taken the lines it has been through (`TakenOf`), a
confirmation the units of its order for the items it has been through; at the
commit that is all of them, and an order begins to hold what the stock gives up
(`Balanced`). A sum over the lines of a cart is made a sum over all lines, and
one over the held orders a sum over all orders, of which a step changes one term.
`TypeOK` of the model is read off both: that nobody is in the database, or has a
lock, without a connection is part of `Connections`.

`TenantBillingProofs`. The invariant has three parts, each framed so that a step
elsewhere leaves it alone. Warnings: a claim finds its row pending, and what the
provider accepted is recorded as sent or stays claimed for good, also past a
crash or a lost write; what it may have accepted in a failed call is free to be
claimed again. Suspensions: what a run read of a
tenant still holds or was touched by somebody else, and a page has one row of
each tenant, so that the run's own suspension makes none of the others old.
Cache: a resolve that nothing has overtaken carries what the database says, and
an entry of a tenant is on one of its hosts, where the invalidation finds it.
The theorems hold for any number of overlapping sweeps, operators and resolves,
under `BillingAssumption`.

`ConversationsProofs`. A message is billed once because a turn past `Store` is
the only one that stored its row, and the row is there unless the purge took it.
The overrun is bounded by counting: `usage` plus the turns past the budget check
stays below the plan plus the workers, which needs the cardinality of a set that
gains or loses one turn. The purge spares the live because what its transaction
has checked stays expired unless it is touched, and its cutoff never lies ahead
of the retention period. `PurgeSparesLive` is an action property and follows
from the invariant at the deleting step. Any number of messages, conversations
and workers, under `ConversationAssumption`.

Only model-checked: the seven liveness properties (`ReservationEnds`,
`ChargeIsAnswered`, `ApprovedIsHeard`, `CheckoutEnds`, `OverdueGoesDark`,
`SuspensionBites`, `RetentionBites`), because fairness is about what is `ENABLED`
and that is beyond the prover, and the violations, which are counterexamples.

## Not modelled

Left out of the models above: prices and taxes, e-mails, the shipment row,
signatures and HTTP, row-level security, the credentials of the providers, plan
assignment and the audit log, DNS verification of domains, the onboarding of
WhatsApp numbers and the rendering of replies.

Left out altogether, and why:

* CSV import: its one interesting write, an absolute stock from a snapshot, is
  listed as a hazard; the rest is parsing and validated upserts.
* Staff, plan limits: a count or a check in one statement and a create in
  another, with no state the modelled parts share; listed as hazards.
* Payment alerts: a read of what `PaymentSettlement` leaves behind and an
  append-only journal.
* Authentication and impersonation: the library's sessions, and signed values
  with an expiry. Privacy requests: one transaction. Settings and storefront
  reads: single-row writes and queries. Mail, storage, observability, Chatwoot:
  input and output. The user interfaces beyond the cart's queue, the checkout's
  submit and the chat widget's send: they render what the API returns.
  Deployment and scripts: configuration.
