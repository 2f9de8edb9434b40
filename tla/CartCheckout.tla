---------------------------- MODULE CartCheckout ----------------------------
(****************************************************************************)
(* From the shopper's cart to the order: the storefront's tabs and their    *)
(* mutation queue, the cart cookie, CartService, the checkout transaction   *)
(* with the locks and the pool connection it holds, and the customer row    *)
(* (apps/storefront, services/api/src/checkout).                            *)
(*                                                                          *)
(* Adding to a cart is three round trips without a transaction.  A checkout *)
(* is one READ COMMITTED transaction, so what it writes appears at its      *)
(* commit, while its locks are held from the statement that takes them.     *)
(* What happens to an order afterwards is OrderLifecycle; here a merchant's *)
(* confirmation appears for the stock rows it locks.                        *)
(****************************************************************************)
EXTENDS Integers, Sequences, FiniteSets, Functions

CONSTANTS
    Browsers, Tabs,
    BrowserOf,      \* the browser, and so the cookie jar, of each tab
    EmailOf,        \* the e-mail each browser's shopper gives
    Items,          \* stock rows
    Merchants,      \* concurrent requests that confirm an order
    InitialStock,   \* Product.stock of each
    InitialJars,    \* the carts the browsers may come with
    AgentCarts,     \* carts the shop agent has built and sent a link to
    InitialLine,    \* and what is in all those carts
    PoolSize,       \* connections of the Prisma pool
    MaxCarts,       \* BOUND: rows of Cart
    MaxLines,       \* BOUND: rows of CartItem at one time
    MaxEdits,       \* BOUND: cart mutations
    MaxSubmits,     \* BOUND: checkouts submitted
    MaxFaults       \* BOUND: failed gateway sessions and timed-out transactions

NoCart == 0
NoItem == "none"
Nobody == "nobody"
CartIds == 1..MaxCarts
LineIds == 1..MaxLines
Line == [cart : CartIds, item : Items, qty : Nat \ {0}]
NoLine == [cart |-> NoCart, item |-> NoItem, qty |-> 0]

ASSUME CartAssumption ==
    /\ BrowserOf \in [Tabs -> Browsers]
    /\ DOMAIN EmailOf = Browsers
    /\ InitialStock \in [Items -> Nat]
    /\ InitialJars \subseteq [Browsers -> CartIds \cup {NoCart}]
    /\ AgentCarts \subseteq CartIds
    /\ InitialLine \in [LineIds -> Line \cup {NoLine}]
    /\ Nobody \notin Tabs \cup Merchants
    /\ Tabs \cap Merchants = {}
    /\ PoolSize \in Nat \ {0}
    /\ MaxCarts \in Nat /\ MaxLines \in Nat
    /\ MaxEdits \in Nat /\ MaxSubmits \in Nat /\ MaxFaults \in Nat

VARIABLES
    jar,        \* the ventia_cart cookie of each browser
    carts,      \* Cart rows, named by their cookieKey
    used,       \* keys given out so far
    line,       \* CartItem rows
    asked,      \* history: units of each item a cart was acknowledged to hold
    editors,    \* history: the tabs that changed each cart
    edit,       \* the addItem requests in flight, by tab and slot
    sale,       \* the checkout each tab is inside of
    confirm,    \* the confirmation each merchant request is inside of
    orders,     \* committed orders
    customers,  \* committed Customer rows
    stock,      \* committed Product.stock
    tenantLock, \* who holds pg_advisory_xact_lock(hashtext(tenantId))
    rowLock,    \* who has updated a stock row and not committed
    pool,       \* transactions that hold a connection
    edits, submits, faults

cartVars == <<jar, carts, used, line, asked, editors>>
shopVars == <<orders, customers, stock>>
lockVars == <<tenantLock, rowLock, pool>>
bounds == <<edits, submits, faults>>
vars == <<jar, carts, used, line, asked, editors, edit, sale, confirm, orders, customers, stock,
          tenantLock, rowLock, pool, edits, submits, faults>>

Slots == {1, 2}
Methods == {"cod", "online"}
Nothing == [i \in Items |-> 0]
Idle == [at |-> "idle", key |-> NoCart, cart |-> NoCart, item |-> NoItem,
         line |-> 0, base |-> 0]
NoSale == [at |-> "idle", key |-> NoCart, method |-> "cod", lines |-> {},
           todo |-> {}, took |-> Nothing, known |-> FALSE]
NoConfirm == [order |-> 0, todo |-> {}, took |-> Nothing]

LinesOf(rows, c) == {l \in LineIds : rows[l].cart = c}
Units(rows, found, i) ==
    SumFunctionOnSet([l \in LineIds |-> rows[l].qty], {l \in found : rows[l].item = i})
InCart(rows, c) == [i \in Items |-> Units(rows, LinesOf(rows, c), i)]
FreeConnection == Cardinality(pool) < PoolSize

\* CartCookieGuard: the cookie's cart, or none when its row is gone.
Guarded(b) == IF jar[b] \in carts THEN jar[b] ELSE NoCart

Init ==
    /\ jar \in InitialJars
    /\ carts = {InitialLine[l].cart : l \in LineIds} \ {NoCart}
    /\ used = carts
    /\ line = InitialLine
    /\ asked = [c \in CartIds |-> InCart(InitialLine, c)]
    /\ editors = [c \in CartIds |-> {}]
    /\ edit = [q \in Tabs \X Slots |-> Idle]
    /\ sale = [t \in Tabs |-> NoSale]
    /\ confirm = [m \in Merchants |-> NoConfirm]
    /\ orders = <<>>
    /\ customers = <<>>
    /\ stock = InitialStock
    /\ tenantLock = Nobody
    /\ rowLock = [i \in Items |-> Nobody]
    /\ pool = {}
    /\ edits = 0
    /\ submits = 0
    /\ faults = 0

-----------------------------------------------------------------------------
(* The cart: each tab sends its mutations one at a time.                    *)

\* MUTANT: mutations are sent at once, without a queue.
QueueAlwaysFree(t) == TRUE

\* createMutationQueue: one request of a tab in flight.
QueueFree(t) == \A n \in Slots : edit[<<t, n>>] = Idle

Slot(t) == {<<t, n>> : n \in {m \in Slots : edit[<<t, m>>] = Idle}}

Mutate == edits < MaxEdits /\ edits' = edits + 1 /\ UNCHANGED <<submits, faults>>

\* CartController.addItem behind CartCookieGuard.
AddStart(t, i) ==
    /\ Mutate
    /\ QueueFree(t)
    /\ FreeConnection
    /\ Slot(t) # {}
    /\ LET q == CHOOSE q \in Slot(t) : TRUE
       IN  edit' = [edit EXCEPT ![q] = [Idle EXCEPT !.at = "find", !.item = i,
                                                    !.key = Guarded(BrowserOf[t])]]
    /\ UNCHANGED <<cartVars, sale, confirm, shopVars, lockVars>>

\* The cart of the key, or a new one under a new key; then its line of the item.
AddFind(q) ==
    /\ edit[q].at = "find"
    /\ FreeConnection
    /\ \E c \in IF edit[q].key \in carts THEN {edit[q].key} ELSE CartIds \ used :
          LET found == {l \in LinesOf(line, c) : line[l].item = edit[q].item}
          IN  /\ carts' = carts \cup {c}
              /\ used' = used \cup {c}
              /\ \E l \in IF found = {} THEN {0} ELSE found :
                    edit' = [edit EXCEPT ![q].at = "write", ![q].cart = c, ![q].line = l,
                                         ![q].base = IF l = 0 THEN 0 ELSE line[l].qty]
    /\ UNCHANGED <<jar, line, asked, editors, sale, confirm, shopVars, lockVars, bounds>>

Increased(base) == base + 1

\* The row written, and the answer: its cookie is set if none came in.
AddWrite(q) ==
    LET e == edit[q]
        rows == IF e.line = 0
                THEN {l \in LineIds : line[l] = NoLine /\ e.cart \in carts}
                ELSE {l \in {e.line} : line[l].cart = e.cart}
    IN  /\ e.at = "write"
        /\ FreeConnection
        /\ edit' = [edit EXCEPT ![q] = Idle]
        /\ IF rows # {}
             THEN /\ LET l == CHOOSE l \in rows : TRUE
                     IN  line' = [line EXCEPT ![l] = [cart |-> e.cart, item |-> e.item,
                                                      qty |-> Increased(e.base)]]
                  /\ asked' = [asked EXCEPT ![e.cart][e.item] = @ + 1]
                  /\ editors' = [editors EXCEPT ![e.cart] = @ \cup {q[1]}]
                  /\ jar' = IF e.key = NoCart THEN [jar EXCEPT ![BrowserOf[q[1]]] = e.cart]
                                              ELSE jar
             ELSE \* the row or its cart is gone: the statement fails
                  /\ e.line # 0 \/ e.cart \notin carts
                  /\ UNCHANGED <<jar, line, asked, editors>>
        /\ UNCHANGED <<carts, used, sale, confirm, shopVars, lockVars, bounds>>

\* updateItem and removeItem: the last of their statements decides.
ChangeLine(t, l, row) ==
    /\ Mutate
    /\ QueueFree(t)
    /\ FreeConnection
    /\ jar[BrowserOf[t]] \in carts
    /\ l \in LinesOf(line, jar[BrowserOf[t]])
    /\ line' = [line EXCEPT ![l] = row]
    /\ asked' = [asked EXCEPT ![line[l].cart][line[l].item] = @ - line[l].qty + row.qty]
    /\ editors' = [editors EXCEPT ![line[l].cart] = @ \cup {t}]
    /\ UNCHANGED <<jar, carts, used, edit, sale, confirm, shopVars, lockVars>>

UpdateItem(t, l) == ChangeLine(t, l, [line[l] EXCEPT !.qty = 1])
RemoveItem(t, l) == ChangeLine(t, l, NoLine)

\* /carrito?c=<key>: the browser takes over the agent's cart, whoever else has.
Adopt(t, c) ==
    /\ Mutate
    /\ FreeConnection
    /\ c \in AgentCarts \cap carts
    /\ jar' = [jar EXCEPT ![BrowserOf[t]] = c]
    /\ UNCHANGED <<carts, used, line, asked, editors, edit, sale, confirm, shopVars, lockVars>>

-----------------------------------------------------------------------------
(* The checkout transaction.                                                *)

\* MUTANT: the configuration is read inside the transaction.
ConfigInside == [idle |-> "begin", begin |-> "config", config |-> "lock"]

\* What a checkout does first, next and then.
Steps == [idle |-> "config", config |-> "begin", begin |-> "lock"]

\* The submit button is disabled while its request is out.
Submit(t, method) ==
    /\ sale[t].at = "idle"
    /\ submits < MaxSubmits
    /\ FreeConnection
    /\ Guarded(BrowserOf[t]) # NoCart
    /\ sale' = [sale EXCEPT ![t] = [NoSale EXCEPT !.at = Steps.idle, !.method = method,
                                                  !.key = jar[BrowserOf[t]]]]
    /\ submits' = submits + 1
    /\ UNCHANGED <<cartVars, edit, confirm, shopVars, lockVars, edits, faults>>

\* The provider's credentials, ShippingService.loadConfig, the policy.
LoadConfig(t) ==
    /\ sale[t].at = "config"
    /\ FreeConnection
    /\ sale' = [sale EXCEPT ![t].at = Steps.config]
    /\ UNCHANGED <<cartVars, edit, confirm, shopVars, lockVars, bounds>>

\* BEGIN, then the cart and its products: each line checked by itself.
Begin(t) ==
    LET c == sale[t].key
        rows == LinesOf(line, c)
        ok == c \in carts /\ rows # {} /\ \A l \in rows : stock[line[l].item] >= line[l].qty
    IN  /\ sale[t].at = "begin"
        /\ FreeConnection
        /\ IF ok
             THEN /\ pool' = pool \cup {t}
                  /\ sale' = [sale EXCEPT ![t].at = Steps.begin, ![t].lines =
                                {[row |-> l, item |-> line[l].item, qty |-> line[l].qty] : l \in rows}]
             ELSE /\ sale' = [sale EXCEPT ![t] = NoSale]
                  /\ UNCHANGED pool
        /\ UNCHANGED <<cartVars, edit, confirm, shopVars, tenantLock, rowLock, bounds>>

\* MUTANT: the advisory lock is taken on the order, not on the tenant.
LockFree == TRUE

TenantFree == tenantLock = Nobody

HasCustomer(email) == \E n \in DOMAIN customers : customers[n].email = email

\* nextOrderNumber's advisory lock; under it the customer is looked up.
LockTenant(t) ==
    /\ sale[t].at = "lock"
    /\ TenantFree
    /\ tenantLock' = t
    /\ sale' = [sale EXCEPT ![t].at = "rows",
                            ![t].known = HasCustomer(EmailOf[BrowserOf[t]]),
                            ![t].todo = IF sale[t].method = "online" THEN sale[t].lines ELSE {}]
    /\ UNCHANGED <<cartVars, edit, confirm, shopVars, rowLock, pool, bounds>>

\* MUTANT: a transaction does not see what it has taken itself.
LeftAsCommitted(i, took) == stock[i]

\* stock + delta >= 0, on the row as this transaction sees it.
Left(i, took) == stock[i] - took[i]

\* adjustStockLine: the UPDATE waits for the row and re-checks the floor.
Lockable(a, i) == rowLock[i] \in {Nobody, a}

Release(a) == rowLock' = [i \in Items |-> IF rowLock[i] = a THEN Nobody ELSE rowLock[i]]

\* MUTANT: a session lock, which only a commit gives back.
KeepTenantLock(t) == tenantLock' = tenantLock

UnlockTenant(t) == tenantLock' = IF tenantLock = t THEN Nobody ELSE tenantLock

Rollback(t) ==
    /\ sale' = [sale EXCEPT ![t] = NoSale]
    /\ pool' = pool \ {t}
    /\ UnlockTenant(t)
    /\ Release(t)
    /\ UNCHANGED <<cartVars, edit, confirm, shopVars>>

TakeRow(t, n) ==
    /\ sale[t].at = "rows"
    /\ n \in sale[t].todo
    /\ Lockable(t, n.item)
    /\ IF Left(n.item, sale[t].took) >= n.qty
         THEN /\ rowLock' = [rowLock EXCEPT ![n.item] = t]
              /\ sale' = [sale EXCEPT ![t].todo = @ \ {n}, ![t].took[n.item] = @ + n.qty]
              /\ UNCHANGED <<cartVars, edit, confirm, shopVars, tenantLock, pool, bounds>>
         ELSE Rollback(t) /\ UNCHANGED bounds

\* MUTANT: deleting a cart that is gone is taken for success.
GoneOrNot(c) == TRUE

CartDeleted(c) == c \in carts

Sold(t) ==
    LET of == sale[t].lines
    IN  [i \in Items |-> SumFunctionOnSet([n \in of |-> n.qty], {n \in of : n.item = i})]

\* The cart row is deleted with its lines, or else it was somebody else's.
Finish(t) ==
    LET s == sale[t]
        email == EmailOf[BrowserOf[t]]
    IN  /\ s.at = "rows"
        /\ s.todo = {}
        /\ IF CartDeleted(s.key)
             THEN /\ carts' = carts \ {s.key}
                  /\ line' = [l \in LineIds |-> IF line[l].cart = s.key THEN NoLine ELSE line[l]]
                  /\ orders' = Append(orders, [cart |-> s.key, email |-> email, units |-> Sold(t),
                                               held |-> s.method = "online"])
                  /\ customers' =
                       IF s.known
                       THEN [n \in DOMAIN customers |->
                               IF customers[n].email = email
                               THEN [customers[n] EXCEPT !.orders = @ + 1] ELSE customers[n]]
                       ELSE Append(customers, [email |-> email, orders |-> 1])
                  /\ stock' = [i \in Items |-> stock[i] - s.took[i]]
                  /\ sale' = [sale EXCEPT ![t].at = "answer"]
                  /\ pool' = pool \ {t}
                  /\ tenantLock' = Nobody
                  /\ Release(t)
                  /\ UNCHANGED <<jar, used, asked, editors, edit, confirm, bounds>>
             ELSE Rollback(t) /\ UNCHANGED bounds

\* The answer, after the gateway's session: the cookie of the jar is cleared.
Answer(t) ==
    /\ sale[t].at = "answer"
    /\ jar' = [jar EXCEPT ![BrowserOf[t]] = NoCart]
    /\ sale' = [sale EXCEPT ![t] = NoSale]
    /\ UNCHANGED <<carts, used, line, asked, editors, edit, confirm, shopVars, lockVars, bounds>>

Fault == faults < MaxFaults /\ faults' = faults + 1 /\ UNCHANGED <<edits, submits>>

\* createCheckoutSession throws: the order stands, the cookie stays.
SessionFails(t) ==
    /\ sale[t].at = "answer" /\ sale[t].method = "online"
    /\ Fault
    /\ sale' = [sale EXCEPT ![t] = NoSale]
    /\ UNCHANGED <<cartVars, edit, confirm, shopVars, lockVars>>

\* { timeout: 15_000 }, or the database goes away.
TimesOut(t) == t \in pool /\ Fault /\ Rollback(t)

-----------------------------------------------------------------------------
(* A merchant confirms a cash order: its rows, in its own order of lines.   *)

ConfirmStart(m, o) ==
    /\ confirm[m] = NoConfirm
    /\ FreeConnection
    /\ ~orders[o].held
    /\ \A k \in Merchants : confirm[k].order # o
    /\ pool' = pool \cup {m}
    /\ confirm' = [confirm EXCEPT ![m] = [order |-> o, took |-> Nothing,
                                          todo |-> {i \in Items : orders[o].units[i] > 0}]]
    /\ UNCHANGED <<cartVars, edit, sale, shopVars, tenantLock, rowLock, bounds>>

ConfirmEnd(m) ==
    /\ confirm' = [confirm EXCEPT ![m] = NoConfirm]
    /\ pool' = pool \ {m}
    /\ Release(m)
    /\ UNCHANGED <<cartVars, edit, sale, customers, tenantLock, bounds>>

ConfirmRow(m, i) ==
    LET c == confirm[m]
        want == orders[c.order].units[i]
    IN  /\ i \in c.todo
        /\ Lockable(m, i)
        /\ IF Left(i, c.took) >= want
             THEN /\ rowLock' = [rowLock EXCEPT ![i] = m]
                  /\ confirm' = [confirm EXCEPT ![m].todo = @ \ {i}, ![m].took[i] = want]
                  /\ UNCHANGED <<cartVars, edit, sale, shopVars, tenantLock, pool, bounds>>
             ELSE ConfirmEnd(m) /\ UNCHANGED <<orders, stock>>

ConfirmCommit(m) ==
    LET c == confirm[m]
    IN  /\ c.order # 0
        /\ c.todo = {}
        /\ stock' = [i \in Items |-> stock[i] - c.took[i]]
        /\ orders' = [orders EXCEPT ![c.order].held = TRUE]
        /\ ConfirmEnd(m)

-----------------------------------------------------------------------------
(* Whom a transaction waits for.  A row's lock goes to one transaction, so  *)
(* following the waits from any member of a cycle comes back to it.         *)

Transactions == Tabs \cup Merchants

Wants(a) == IF a \in Tabs
            THEN IF sale[a].at = "rows" THEN {n.item : n \in sale[a].todo} ELSE {}
            ELSE confirm[a].todo

\* Every row it still wants is another's: whichever is next, it waits.
Blocked(a) == Wants(a) # {} /\ \A i \in Wants(a) : ~Lockable(a, i)

WaitsFor(a, b) ==
    \/ Blocked(a) /\ \E i \in Wants(a) : rowLock[i] = b /\ b # a
    \/ a \in Tabs /\ sale[a].at = "lock" /\ tenantLock = b

\* Two are enough: a third would have to hold a row neither of them wants.
Deadlocked(a) == \E b \in Transactions \ {a} : WaitsFor(a, b) /\ WaitsFor(b, a)

\* PostgreSQL ends one member of a cycle, whichever it is: a failed request.
Victim(a) ==
    /\ Deadlocked(a)
    /\ IF a \in Tabs THEN Rollback(a) /\ UNCHANGED bounds
                     ELSE ConfirmEnd(a) /\ UNCHANGED <<orders, stock>>

-----------------------------------------------------------------------------
ShopperStep ==
    \/ \E t \in Tabs, i \in Items : AddStart(t, i)
    \/ \E t \in Tabs, l \in LineIds : UpdateItem(t, l) \/ RemoveItem(t, l)
    \/ \E t \in Tabs, c \in CartIds : Adopt(t, c)
    \/ \E t \in Tabs, method \in Methods : Submit(t, method)

EditStep(q) == AddFind(q) \/ AddWrite(q)

SaleStep(t) ==
    \/ LoadConfig(t)
    \/ Begin(t)
    \/ LockTenant(t)
    \/ \E n \in sale[t].todo : TakeRow(t, n)
    \/ Finish(t)
    \/ Answer(t)
    \/ Victim(t)

ConfirmStep(m) ==
    \/ \E i \in Items : ConfirmRow(m, i)
    \/ ConfirmCommit(m)
    \/ Victim(m)

Next ==
    \/ ShopperStep
    \/ \E q \in Tabs \X Slots : EditStep(q)
    \/ \E t \in Tabs : SaleStep(t)
    \/ \E m \in Merchants, o \in DOMAIN orders : ConfirmStart(m, o)
    \/ \E m \in Merchants : ConfirmStep(m)
    \/ \E t \in Tabs : SessionFails(t) \/ TimesOut(t)

(****************************************************************************)
(* What a request has begun it goes on with, and the pool and PostgreSQL's  *)
(* lock queues serve in order, so that nobody is passed over for ever.      *)
(* Shoppers and merchants owe no new request; a fault is never owed.        *)
(****************************************************************************)
Fairness ==
    /\ \A t \in Tabs : SF_vars(SaleStep(t))
    /\ \A m \in Merchants : WF_vars(ConfirmStep(m))

Spec == Init /\ [][Next]_vars
FairSpec == Spec /\ Fairness

-----------------------------------------------------------------------------
Amounts == [Items -> Nat]
Lines == [row : LineIds, item : Items, qty : Nat \ {0}]

(* The rows, the requests and the locks hold what their types allow; a      *)
(* transaction has a connection exactly while it is in the database, and a  *)
(* lock only together with a connection.                                    *)
TypeOK ==
    /\ jar \in [Browsers -> CartIds \cup {NoCart}]
    /\ carts \subseteq used /\ used \subseteq CartIds
    /\ line \in [LineIds -> Line \cup {NoLine}]
    /\ edit \in [Tabs \X Slots ->
                    [at : {"idle", "find", "write"}, key : CartIds \cup {NoCart},
                     cart : CartIds \cup {NoCart}, item : Items \cup {NoItem},
                     line : LineIds \cup {0}, base : Nat]]
    /\ sale \in [Tabs ->
                    [at : {"idle", "config", "begin", "lock", "rows", "answer"},
                     key : CartIds \cup {NoCart}, method : Methods, lines : SUBSET Lines,
                     todo : SUBSET Lines, took : Amounts, known : BOOLEAN]]
    /\ confirm \in [Merchants -> [order : Nat, todo : SUBSET Items, took : Amounts]]
    /\ stock \in [Items -> Nat]
    /\ tenantLock \in Tabs \cup {Nobody}
    /\ rowLock \in [Items -> Tabs \cup Merchants \cup {Nobody}]
    /\ pool \subseteq Tabs \cup Merchants /\ Cardinality(pool) <= PoolSize
    /\ \A t \in Tabs : sale[t].at \in {"lock", "rows"} => t \in pool
    /\ {tenantLock} \cup {rowLock[i] : i \in Items} \subseteq pool \cup {Nobody}

(****************************************************************************)
(* A cart becomes at most one order: two tabs, or two browsers that both    *)
(* adopted the agent's cart, may submit it at once, and both pass every     *)
(* check on its lines; only the transaction that deletes the row commits,   *)
(* and the key is never given out again (checkout.service.ts, cart.delete). *)
(****************************************************************************)
OneOrderPerCart ==
    \A n \in DOMAIN orders :
        /\ orders[n].cart \notin carts
        /\ \A k \in DOMAIN orders \ {n} : orders[k].cart # orders[n].cart

(****************************************************************************)
(* An e-mail has one Customer row, which counts all of its orders: the      *)
(* lookup, the increment and the insert run under the tenant's order-number *)
(* lock, although there is no unique constraint on the e-mail.              *)
(****************************************************************************)
OneCustomerPerEmail ==
    \A n \in DOMAIN customers :
        LET email == customers[n].email
        IN  /\ \A k \in DOMAIN customers \ {n} : customers[k].email # email
            /\ customers[n].orders =
                  Cardinality({k \in DOMAIN orders : orders[k].email = email})

(****************************************************************************)
(* Units are neither invented nor lost: what is left of each item and what  *)
(* the orders hold is what there was, with the same item on several lines   *)
(* of a cart and with concurrent confirmations (adjustStockLine's UPDATE).  *)
(****************************************************************************)
StockAddsUp ==
    \A i \in Items :
        /\ stock[i] >= 0
        /\ stock[i] + SumFunctionOnSet([n \in DOMAIN orders |-> orders[n].units[i]],
                                       {n \in DOMAIN orders : orders[n].held}) = InitialStock[i]

(****************************************************************************)
(* A cart that only one tab has ever changed holds what that tab was told   *)
(* it holds, although addItem reads a quantity in one statement and writes  *)
(* the sum in another: the tab's queue sends one mutation at a time         *)
(* (mutation-queue.ts).  Two tabs of one browser have no such promise.      *)
(****************************************************************************)
OneTabKeepsItsAdds ==
    \A c \in carts : Cardinality(editors[c]) <= 1 => InCart(line, c) = asked[c]

(****************************************************************************)
(* Checkouts alone never wait for one another in a circle, whatever the     *)
(* order of their lines: rows are only updated under the tenant's lock.     *)
(****************************************************************************)
CheckoutsNeverDeadlock ==
    \A a, b \in Tabs : ~(WaitsFor(a, b) /\ WaitsFor(b, a))

(****************************************************************************)
(* A submitted checkout ends, with an order or an error, however few the    *)
(* connections: nothing inside the transaction needs a second one           *)
(* (checkout.service.ts:240), every way out gives the locks back, and a     *)
(* cycle with a merchant's confirmation is broken.                          *)
(****************************************************************************)
CheckoutEnds ==
    \A t \in Tabs : sale[t].at # "idle" ~> sale[t].at = "idle"
=============================================================================
