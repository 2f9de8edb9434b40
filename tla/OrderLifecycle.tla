--------------------------- MODULE OrderLifecycle ---------------------------
(****************************************************************************)
(* Orders, the stock they claim, and everything that may change either:     *)
(* the storefront's checkout, the merchant's transitions, the two payment   *)
(* verdicts, the reservation-expiry sweep, and the catalogue edits that     *)
(* touch a stock row (services/api/src/{checkout,orders,payments,catalog}). *)
(*                                                                         *)
(* Every operation runs in one database transaction that first takes        *)
(* pg_advisory_xact_lock(hashtext(orderId)) and re-reads the order under    *)
(* it, so each is one atomic action here.  The sweep's candidate list is    *)
(* the exception: it is read outside any lock and is stale when used, so    *)
(* SweepStart and ExpireNext are separate steps.  A rejected request (4xx)   *)
(* rolls its transaction back and is a stuttering step.                     *)
(*                                                                          *)
(* A definition marked MUTANT is the one after it with a plausible bug; no  *)
(* specification uses it, and each checked property fails with one of them. *)
(****************************************************************************)
EXTENDS Integers, FiniteSets, Functions

CONSTANTS
    NumOrders,      \* orders are numbered 1..NumOrders, in creation order
    Products,       \* rows of "Product": each carries a trackInventory flag
    Skus,           \* stock rows: a Product's own, or one of its variants'
    ProductOf,      \* the product a stock row belongs to
    VariantSkus,    \* the stock rows that are "ProductVariant" rows
    InitialSkus,    \* the stock rows that exist at the start
    InitialStock,   \* their stock
    Baskets,        \* the carts buyers check out: units per stock row
    Deltas,         \* manual stock adjustments tried
    NewUnits,       \* stock a replacement variant may be given
    Retracked,      \* products whose trackInventory flag the merchant edits
    MaxStock,       \* BOUND: no stock row is raised above this by hand
    BatchLimit      \* EXPIRE_BATCH_LIMIT (500 in the code)

ASSUME SizesAssumption == NumOrders \in Nat /\ MaxStock \in Nat /\ BatchLimit \in Nat \ {0}
ASSUME SkusAssumption ==
    /\ ProductOf \in [Skus -> Products]
    /\ VariantSkus \subseteq Skus
    /\ InitialSkus \subseteq Skus
    /\ Skus \ VariantSkus \subseteq InitialSkus
    /\ InitialStock \in [Skus -> Nat]
    /\ Baskets \subseteq [Skus -> Nat]
    /\ Deltas \subseteq Int
    /\ NewUnits \subseteq Nat
    /\ Retracked \subseteq Products

VARIABLES
    status,         \* Order.status, "ABSENT" before the checkout
    payment,        \* Order.paymentStatus
    provider,       \* Order.paymentProvider: "null" for cash on delivery
    reservation,    \* Order.stockReservedUntil: null, in the future, past
    lines,          \* OrderItem rows: units per stock row
    net,            \* sum of InventoryMovement.delta per order and stock row
    stock,          \* Product.stock / ProductVariant.stock
    intake,         \* units put on the row by hand: its first stock + adjustments
    life,           \* whether the stock row exists: its id is never reused
    tracked,        \* products whose trackInventory flag is set
    batch,          \* candidates the running sweep has read and not yet handled
    disturbed       \* history: held orders whose product changed tracking

orderVars == <<status, payment, provider, reservation, lines>>
stockVars == <<net, stock, intake, life, tracked, disturbed>>
vars == <<status, payment, provider, reservation, lines,
          net, stock, intake, life, tracked, batch, disturbed>>

Orders == 1..NumOrders

Statuses == {"PENDING", "CONFIRMED", "PREPARING", "SHIPPED", "DELIVERED", "CANCELLED"}
PaymentStatuses == {"PENDING", "PAID", "FAILED", "EXPIRED", "COD"}
Restockable == {"CONFIRMED", "PREPARING", "SHIPPED"}

IsTracked(s) == ProductOf[s] \in tracked
Ordered(o, s) == lines[o][s] > 0

\* The order's units are off the shelf: it is reserved, accepted or delivered.
Holding(o) == status[o] \in Restockable \cup {"DELIVERED"} \/ reservation[o] # "none"

(****************************************************************************)
(* adjustStockLine, for all the lines of a transaction: untracked products  *)
(* are skipped; a tracked line updates its row where the result is not      *)
(* negative and journals the delta; no matching row raises STOCK_BELOW_ZERO *)
(* and the transaction rolls back.                                          *)
(****************************************************************************)
\* MUTANT: the UPDATE without its floor check.
CanMoveUnfloored(basket, sign) ==
    \A s \in Skus : (basket[s] > 0 /\ IsTracked(s)) => life[s] = "live"

CanMove(basket, sign) ==
    \A s \in Skus : (basket[s] > 0 /\ IsTracked(s))
                        => life[s] = "live" /\ stock[s] + sign * basket[s] >= 0

Delta(basket, sign) == [s \in Skus |-> IF IsTracked(s) THEN sign * basket[s] ELSE 0]

\* MUTANT: the movement row is forgotten.
MoveStockUnjournaled(o, basket, sign) ==
    /\ CanMove(basket, sign)
    /\ stock' = [s \in Skus |-> stock[s] + Delta(basket, sign)[s]]
    /\ UNCHANGED <<net, intake, life, tracked, disturbed>>

MoveStock(o, basket, sign) ==
    LET d == Delta(basket, sign)
    IN  /\ CanMove(basket, sign)
        /\ stock' = [s \in Skus |-> stock[s] + d[s]]
        /\ net' = [net EXCEPT ![o] = [s \in Skus |-> net[o][s] + d[s]]]
        /\ UNCHANGED <<intake, life, tracked, disturbed>>

Init ==
    /\ status = [o \in Orders |-> "ABSENT"]
    /\ payment = [o \in Orders |-> "PENDING"]
    /\ provider = [o \in Orders |-> "null"]
    /\ reservation = [o \in Orders |-> "none"]
    /\ lines = [o \in Orders |-> [s \in Skus |-> 0]]
    /\ net = [o \in Orders |-> [s \in Skus |-> 0]]
    /\ life = [s \in Skus |-> IF s \in InitialSkus THEN "live" ELSE "unborn"]
    /\ stock = [s \in Skus |-> IF s \in InitialSkus THEN InitialStock[s] ELSE 0]
    /\ intake = stock
    /\ tracked = Products
    /\ batch = {}
    /\ disturbed = {}

-----------------------------------------------------------------------------
(* Checkout.  The order takes the next number; the cart is re-validated in  *)
(* the same transaction for both methods, but only an online order's units  *)
(* leave the shelf now, under a reservation with a deadline.                *)

PlaceOrder(o, basket) ==
    /\ status[o] = "ABSENT"
    /\ \A q \in Orders : q < o => status[q] # "ABSENT"
    /\ \A s \in Skus : basket[s] > 0 =>
            /\ life[s] = "live"
            /\ IsTracked(s) => stock[s] >= basket[s]
    /\ status' = [status EXCEPT ![o] = "PENDING"]
    /\ lines' = [lines EXCEPT ![o] = basket]
    /\ UNCHANGED batch

CheckoutCod(o, basket) ==
    /\ PlaceOrder(o, basket)
    /\ payment' = [payment EXCEPT ![o] = "COD"]
    /\ UNCHANGED <<provider, reservation>>
    /\ UNCHANGED stockVars

CheckoutOnline(o, basket) ==
    /\ PlaceOrder(o, basket)
    /\ MoveStock(o, basket, -1)
    /\ payment' = [payment EXCEPT ![o] = "PENDING"]
    /\ provider' = [provider EXCEPT ![o] = "gateway"]
    /\ reservation' = [reservation EXCEPT ![o] = "live"]

-----------------------------------------------------------------------------
(* The payment verdicts: PaymentsService.markPaid and markFailed, called by *)
(* the webhook handler and by the reconciliation sweep, and a no-op (false) *)
(* whenever their guard fails.                                              *)

\* MUTANT: only paymentStatus is re-read under the lock.
CanMarkPaidWhenever(o) == status[o] # "ABSENT" /\ payment[o] \in {"PENDING", "FAILED"}

\* MUTANT: the precondition before declined attempts could be retried.
CanMarkPaidOnce(o) == status[o] = "PENDING" /\ payment[o] = "PENDING"

CanMarkPaid(o) == status[o] = "PENDING" /\ payment[o] \in {"PENDING", "FAILED"}

\* MUTANT: stockReservedUntil is left standing.
MarkPaidStillReserved(o) ==
    /\ CanMarkPaid(o)
    /\ status' = [status EXCEPT ![o] = "CONFIRMED"]
    /\ payment' = [payment EXCEPT ![o] = "PAID"]
    /\ UNCHANGED <<provider, reservation, lines, batch>>
    /\ UNCHANGED stockVars

MarkPaid(o) ==
    /\ CanMarkPaid(o)
    /\ status' = [status EXCEPT ![o] = "CONFIRMED"]
    /\ payment' = [payment EXCEPT ![o] = "PAID"]
    /\ reservation' = [reservation EXCEPT ![o] = "none"]
    /\ provider' = [provider EXCEPT ![o] = "gateway"]
    /\ UNCHANGED <<lines, batch>>
    /\ UNCHANGED stockVars

\* MUTANT: the bare update the webhook handler once did.
CanMarkFailedWhenever(o) == status[o] # "ABSENT" /\ payment[o] # "FAILED"

CanMarkFailed(o) == status[o] = "PENDING" /\ payment[o] = "PENDING"

MarkFailed(o) ==
    /\ CanMarkFailed(o)
    /\ payment' = [payment EXCEPT ![o] = "FAILED"]
    /\ UNCHANGED <<status, provider, reservation, lines, batch>>
    /\ UNCHANGED stockVars

-----------------------------------------------------------------------------
(* OrdersService.transition: the merchant's buttons.                        *)

\* MUTANT: transitions before the gate on pending online payments.
NeverBlocked(o) == FALSE

BlockedByPendingPayment(o) == payment[o] = "PENDING" /\ provider[o] # "null"

Confirm(o) ==
    /\ status[o] = "PENDING"
    /\ ~BlockedByPendingPayment(o)
    /\ IF reservation[o] = "none"
         THEN MoveStock(o, lines[o], -1)
         ELSE UNCHANGED stockVars
    /\ status' = [status EXCEPT ![o] = "CONFIRMED"]
    /\ reservation' = [reservation EXCEPT ![o] = "none"]
    /\ UNCHANGED <<payment, provider, lines, batch>>

FulfilmentStep == { <<"CONFIRMED", "PREPARING">>, <<"PREPARING", "SHIPPED">>,
                    <<"SHIPPED", "DELIVERED">> }

Fulfil(o) ==
    /\ \E step \in FulfilmentStep :
          /\ status[o] = step[1]
          /\ status' = [status EXCEPT ![o] = step[2]]
    /\ reservation' = [reservation EXCEPT ![o] = "none"]
    /\ UNCHANGED <<payment, provider, lines, batch>>
    /\ UNCHANGED stockVars

\* MUTANT: the reserved but unconfirmed order is forgotten.
GivesBackConfirmed(o) == status[o] \in Restockable

\* Whether cancelling o restocks its lines: they left the shelf when it was
\* confirmed, or already when it was reserved.
GivesBack(o) == status[o] \in Restockable \/ reservation[o] # "none"

Cancel(o) ==
    /\ status[o] \in {"PENDING"} \cup Restockable
    /\ IF GivesBack(o)
         THEN MoveStock(o, lines[o], 1)
         ELSE UNCHANGED stockVars
    /\ status' = [status EXCEPT ![o] = "CANCELLED"]
    /\ payment' = [payment EXCEPT ![o] = IF @ \in {"PENDING", "FAILED"} THEN "EXPIRED" ELSE @]
    /\ reservation' = [reservation EXCEPT ![o] = "none"]
    /\ UNCHANGED <<provider, lines, batch>>

-----------------------------------------------------------------------------
(* The reservation-expiry worker.  Deadlines are createdAt + 15 minutes, so *)
(* they pass in order-number order.                                         *)

Lapse(o) ==
    /\ reservation[o] = "live"
    /\ \A q \in Orders : q < o => reservation[q] # "live"
    /\ reservation' = [reservation EXCEPT ![o] = "lapsed"]
    /\ UNCHANGED <<status, payment, provider, lines, batch>>
    /\ UNCHANGED stockVars

\* MUTANT: declined orders are not swept.
DueUndecided ==
    {o \in Orders : reservation[o] = "lapsed" /\ status[o] = "PENDING" /\ payment[o] = "PENDING"}

Due == {o \in Orders : reservation[o] = "lapsed" /\ status[o] = "PENDING"}

\* ORDER BY "stockReservedUntil" ASC LIMIT EXPIRE_BATCH_LIMIT.
OldestDue == {o \in Due : Cardinality({q \in Due : q < o}) < BatchLimit}

SweepStart ==
    /\ batch = {}
    /\ Due # {}
    /\ batch' = OldestDue
    /\ UNCHANGED orderVars
    /\ UNCHANGED stockVars

\* expireOneReservation: re-reads the order under its lock.
Expire(o) ==
    /\ status[o] = "PENDING"
    /\ MoveStock(o, lines[o], 1)
    /\ status' = [status EXCEPT ![o] = "CANCELLED"]
    /\ payment' = [payment EXCEPT ![o] = "EXPIRED"]
    /\ reservation' = [reservation EXCEPT ![o] = "none"]
    /\ UNCHANGED <<provider, lines>>

\* An order that is no longer PENDING, or whose restock raises, is passed over:
\* the failure is caught, logged, and the sweep goes on to the next candidate.
PassOver(o) ==
    /\ status[o] # "PENDING" \/ ~CanMove(lines[o], 1)
    /\ UNCHANGED orderVars
    /\ UNCHANGED stockVars

ExpireNext ==
    \E o \in batch :
        /\ \A q \in batch : o <= q
        /\ Expire(o) \/ PassOver(o)
        /\ batch' = batch \ {o}

-----------------------------------------------------------------------------
(* Catalogue edits that reach a stock row.                                  *)

\* StockController.adjust: one floor-checked UPDATE and its movement.
AdjustStock(s, d) ==
    /\ life[s] = "live"
    /\ stock[s] + d \in 0..MaxStock
    /\ stock' = [stock EXCEPT ![s] = @ + d]
    /\ intake' = [intake EXCEPT ![s] = @ + d]
    /\ UNCHANGED <<net, life, tracked, batch, disturbed>>
    /\ UNCHANGED orderVars

\* VariantsController.replace: every variant row of the product is deleted and
\* the new ones, under fresh ids and with the stock of the request, created.
ReplaceVariants(p, fresh, units) ==
    /\ fresh \subseteq {s \in VariantSkus : ProductOf[s] = p /\ life[s] = "unborn"}
    /\ LET dead == {s \in VariantSkus : ProductOf[s] = p /\ life[s] = "live"}
           renewed(f) == [s \in Skus |-> IF s \in fresh THEN units
                                         ELSE IF s \in dead THEN 0 ELSE f[s]]
       IN  /\ dead \cup fresh # {}
           /\ life' = [s \in Skus |-> IF s \in fresh THEN "live"
                                      ELSE IF s \in dead THEN "gone" ELSE life[s]]
           /\ stock' = renewed(stock)
           /\ intake' = renewed(intake)
    /\ UNCHANGED <<net, tracked, batch, disturbed>>
    /\ UNCHANGED orderVars

\* ProductsService.update with a trackInventory flag in the patch.
ToggleTracking(p) ==
    /\ tracked' = IF p \in tracked THEN tracked \ {p} ELSE tracked \cup {p}
    /\ disturbed' = disturbed \cup
          {o \in Orders : Holding(o) /\ \E s \in Skus : ProductOf[s] = p /\ Ordered(o, s)}
    /\ UNCHANGED <<net, stock, intake, life, batch>>
    /\ UNCHANGED orderVars

-----------------------------------------------------------------------------
Checkout(o) == \E b \in Baskets : CheckoutCod(o, b) \/ CheckoutOnline(o, b)

OrderStep(o) ==
    \/ Checkout(o)
    \/ MarkPaid(o)
    \/ MarkFailed(o)
    \/ Confirm(o)
    \/ Fulfil(o)
    \/ Cancel(o)
    \/ Lapse(o)

CatalogStep ==
    \/ \E s \in Skus, d \in Deltas : AdjustStock(s, d)
    \/ \E p \in Products, fresh \in SUBSET VariantSkus, units \in NewUnits :
            ReplaceVariants(p, fresh, units)
    \/ \E p \in Retracked : ToggleTracking(p)

Next ==
    \/ \E o \in Orders : OrderStep(o)
    \/ SweepStart
    \/ ExpireNext
    \/ CatalogStep

(****************************************************************************)
(* Time passes and the repeatable sweep job runs every minute, whatever     *)
(* happened to the previous one; buyers, merchants and gateways owe nothing.*)
(****************************************************************************)
Fairness ==
    /\ WF_vars(\E o \in Orders : Lapse(o))
    /\ WF_vars(SweepStart)
    /\ WF_vars(ExpireNext)

Spec == Init /\ [][Next]_vars
FairSpec == Spec /\ Fairness

-----------------------------------------------------------------------------
(* Every variable holds a value of its column's type; in particular no      *)
(* stock row is ever negative, whatever mix of orders, sweeps and           *)
(* adjustments raced for its last unit (the floor check of the UPDATE in    *)
(* adjustStockLine and StockController.adjust).                             *)
TypeOK ==
    /\ status \in [Orders -> Statuses \cup {"ABSENT"}]
    /\ payment \in [Orders -> PaymentStatuses]
    /\ provider \in [Orders -> {"null", "gateway"}]
    /\ reservation \in [Orders -> {"none", "live", "lapsed"}]
    /\ lines \in [Orders -> [Skus -> Nat]]
    /\ net \in [Orders -> [Skus -> Int]]
    /\ stock \in [Skus -> Nat]
    /\ intake \in [Skus -> Int]
    /\ life \in [Skus -> {"unborn", "live", "gone"}]
    /\ tracked \subseteq Products
    /\ batch \subseteq Orders
    /\ disturbed \subseteq Orders

(****************************************************************************)
(* The units an order has taken, by its own movements, are its lines while  *)
(* it is reserved, accepted or delivered and nothing otherwise: no path     *)
(* decrements twice (reserve, then a payment or the merchant confirms), none*)
(* gives back twice (cancel, then expiry), none gives back what it never    *)
(* took.  The code promises this only to an order whose product's tracking  *)
(* flag did not change while it held the units (BookedStock).  When it did, *)
(* one of the two movements may be skipped, and the journal is off by the   *)
(* order's lines once, however often the flag flips (SkewIsOneBasket): a    *)
(* held order never took more than its lines nor gave any back, and an ended*)
(* one is at most one basket short or one basket over.                      *)
(****************************************************************************)
BookedStock ==
    \A o \in Orders \ disturbed : \A s \in Skus :
        net[o][s] = IF Holding(o) /\ IsTracked(s) THEN -lines[o][s] ELSE 0

SkewIsOneBasket ==
    \A o \in disturbed : \A s \in Skus :
        net[o][s] \in {-lines[o][s], 0} \cup (IF Holding(o) THEN {} ELSE {lines[o][s]})

HeldStock == BookedStock /\ SkewIsOneBasket

(****************************************************************************)
(* The books balance on every row: what is on the shelf is what was put     *)
(* there by hand less what the orders' movements say they hold, so the same *)
(* unit is never promised to two orders.                                    *)
(****************************************************************************)
BooksBalance ==
    \A s \in Skus : life[s] = "live" =>
        stock[s] = intake[s] + SumFunction([o \in Orders |-> net[o][s]])

(****************************************************************************)
(* A PENDING order paid online always has a reservation with a deadline, and*)
(* only such an order has one: the expiry sweep can find every open claim,  *)
(* and never one that was accepted.                                         *)
(****************************************************************************)
OpenClaimHasDeadline ==
    \A o \in Orders :
        reservation[o] # "none" <=> status[o] = "PENDING" /\ provider[o] # "null"

(****************************************************************************)
(* No online order is being prepared, shipped or delivered while its payment*)
(* is undecided or written off: it was PAID, or the merchant took it over   *)
(* after a FAILED verdict (the gate of isBlockedByPendingOnlinePayment).    *)
(****************************************************************************)
FulfilledOnlineIsDecided ==
    \A o \in Orders :
        status[o] \in Restockable \cup {"DELIVERED"} /\ provider[o] # "null"
            => payment[o] \in {"PAID", "FAILED"}

(****************************************************************************)
(* Settlement is final: once PAID, no later verdict, transition or sweep    *)
(* changes paymentStatus, and the expiry sweep, whose candidates were read  *)
(* before the payment landed, leaves a PAID order where it is.              *)
(****************************************************************************)
SettlementIsFinal ==
    [][\A o \in Orders : payment[o] = "PAID" =>
            /\ payment'[o] = "PAID"
            /\ batch # batch' => status'[o] = status[o]]_vars

\* The sweep cannot give the order's units back: one of its rows is deleted.
Stuck(o) == \E s \in Skus : Ordered(o, s) /\ IsTracked(s) /\ life[s] # "live"

\* Orders that fail in every sweep and come before o fill the whole batch.
Crowded(o) == Cardinality({q \in Due : q < o /\ Stuck(q)}) >= BatchLimit

(****************************************************************************)
(* Reserved units never stay off the shelf for ever: every reservation ends *)
(* (paid, taken over, cancelled or expired), unless its rows were deleted   *)
(* or a batchful of older orders with deleted rows blocks the sweep.        *)
(****************************************************************************)
ReservationEnds ==
    \A o \in Orders :
        reservation[o] # "none" ~> (reservation[o] = "none" \/ Stuck(o) \/ Crowded(o))

(****************************************************************************)
(* The comment "A restock (positive delta) can never fail this floor check" *)
(* (orders.service.ts:233) and the sweep's "shouldn't be possible for a     *)
(* positive restock delta": while units can still be given back, giving     *)
(* them back succeeds.                                                      *)
(****************************************************************************)
RestockCannotFail ==
    \A o \in Orders :
        Holding(o) /\ status[o] # "DELIVERED" => CanMove(lines[o], 1)

\* The contract as this module implements it.
PhaseOf(st) ==
    CASE st = "ABSENT" -> "absent"
      [] st = "PENDING" -> "open"
      [] st \in Restockable -> "accepted"
      [] st = "DELIVERED" -> "delivered"
      [] st = "CANCELLED" -> "closed"

Contract == INSTANCE OrderContract WITH
    phase <- [o \in Orders |-> PhaseOf(status[o])],
    claim <- [o \in Orders |-> IF Holding(o) THEN "held" ELSE "none"],
    settled <- [o \in Orders |-> payment[o] = "PAID"]

(****************************************************************************)
(* Every step of the code is a step the contract allows, or invisible to it.*)
(****************************************************************************)
ContractHolds == Contract!Spec
=============================================================================
