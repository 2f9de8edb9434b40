------------------------- MODULE CartCheckoutProofs -------------------------
(****************************************************************************)
(* Proofs about CartCheckout for every set of tabs, browsers and merchants: *)
(* what the tenant's lock and the deletion of the cart row are there for.   *)
(****************************************************************************)
EXTENDS CartCheckout, SequenceTheorems, FiniteLemmas

-----------------------------------------------------------------------------
(* Records and sequences, of which only the form matters: what the lines of *)
(* a cart add up to is not needed here.                                     *)

IsSale(s) == DOMAIN s = {"at", "key", "method", "lines", "todo", "took", "known"}

IsOrder(r) == DOMAIN r = {"cart", "email", "units", "held"}

CustomerRow == [email : {EmailOf[b] : b \in Browsers}, orders : Nat]

Email(t) == EmailOf[BrowserOf[t]]

\* The orders of an e-mail address, by their place.
OrdersOf(email) == {k \in DOMAIN orders : orders[k].email = email}

Shapes ==
    /\ sale = [t \in Tabs |-> sale[t]] /\ \A t \in Tabs : IsSale(sale[t])
    /\ rowLock = [i \in Items |-> rowLock[i]]
    /\ \E S : orders \in Seq(S)
    /\ \A n \in DOMAIN orders : IsOrder(orders[n])
    /\ customers \in Seq(CustomerRow)

-----------------------------------------------------------------------------
(* The inductive invariant.                                                 *)

\* Stock rows are only updated by the checkout that holds the tenant's lock.
LocksAreNested ==
    /\ \A t \in Tabs : sale[t].at = "rows" <=> tenantLock = t
    /\ \A i \in Items, t \in Tabs : rowLock[i] = t => tenantLock = t

\* A cart that was ordered is gone, and its key is not free.
OrderedCartsAreGone ==
    /\ carts \subseteq used
    /\ \A n \in DOMAIN orders : orders[n].cart \in used
    /\ OneOrderPerCart

\* Who holds the tenant's lock still knows whether it has seen the customer.
CustomersAreCounted ==
    /\ OneCustomerPerEmail
    /\ \A n \in DOMAIN orders : HasCustomer(orders[n].email)
    /\ \A t \in Tabs : sale[t].at = "rows" => sale[t].known = HasCustomer(Email(t))

IInv == Shapes /\ LocksAreNested /\ OrderedCartsAreGone /\ CustomersAreCounted

-----------------------------------------------------------------------------
(* Sequences.                                                               *)

LEMMA Appended ==
    ASSUME NEW S, NEW s \in Seq(S), NEW e
    PROVE  /\ Append(s, e) \in Seq(S \cup {e})
           /\ DOMAIN s = 1..Len(s) /\ Len(s) \in Nat
           /\ DOMAIN Append(s, e) = DOMAIN s \cup {Len(s) + 1}
           /\ Len(s) + 1 \notin DOMAIN s
           /\ \A n \in DOMAIN s : Append(s, e)[n] = s[n]
           /\ Append(s, e)[Len(s) + 1] = e
  <1>1. s \in Seq(S \cup {e}) /\ e \in S \cup {e}
    OBVIOUS
  <1>2. Append(s, e) \in Seq(S \cup {e}) /\ Len(Append(s, e)) = Len(s) + 1
    BY <1>1, AppendProperties
  <1>3. /\ \A n \in 1..Len(s) : Append(s, e)[n] = s[n]
        /\ Append(s, e)[Len(s) + 1] = e
    BY <1>1, AppendProperties
  <1>4. DOMAIN s = 1..Len(s) /\ Len(s) \in Nat /\ DOMAIN Append(s, e) = 1..(Len(s) + 1)
    BY <1>2
  <1> QED
    BY <1>2, <1>3, <1>4

LEMMA OrdersOfAreFinite ==
    ASSUME NEW S, orders \in Seq(S), NEW email
    PROVE  IsFiniteSet(OrdersOf(email))
  <1>1. IsFiniteSet(1..Len(orders)) /\ DOMAIN orders = 1..Len(orders)
    BY FS_Interval
  <1> QED
    BY <1>1, FS_Subset DEF OrdersOf

-----------------------------------------------------------------------------
(* Steps that touch no order and no customer.                               *)

\* A checkout outside its locked part goes on, or ends.
LEMMA OutsideStep ==
    ASSUME IInv, NEW t \in Tabs, NEW s, IsSale(s),
           sale[t].at # "rows", s.at # "rows",
           sale' = [sale EXCEPT ![t] = s],
           UNCHANGED <<carts, used, orders, customers, tenantLock, rowLock>>
    PROVE  IInv'
  <1>1. /\ sale'[t] = s
        /\ \A u \in Tabs : u # t => sale'[u] = sale[u]
        /\ sale' = [u \in Tabs |-> sale'[u]]
    BY DEF IInv, Shapes
  <1>2. Shapes'
    BY <1>1 DEF IInv, Shapes, IsSale, IsOrder, CustomerRow
  <1>3. LocksAreNested'
    BY <1>1 DEF IInv, LocksAreNested
  <1>4. OrderedCartsAreGone'
    BY DEF IInv, OrderedCartsAreGone, OneOrderPerCart
  <1>5. CustomersAreCounted'
    <2>1. OneCustomerPerEmail'
      BY DEF IInv, CustomersAreCounted, OneCustomerPerEmail
    <2>2. (\A n \in DOMAIN orders : HasCustomer(orders[n].email))'
      BY DEF IInv, CustomersAreCounted, HasCustomer
    <2>3. ASSUME NEW u \in Tabs, sale'[u].at = "rows"
          PROVE  sale'[u].known = HasCustomer(Email(u))'
      <3>1. u # t /\ sale[u].known = HasCustomer(Email(u))
        BY <1>1, <2>3 DEF IInv, CustomersAreCounted
      <3>2. HasCustomer(Email(u))' = HasCustomer(Email(u))
        BY DEF HasCustomer, Email
      <3> QED
        BY <1>1, <3>1, <3>2
    <2> QED
      BY <2>1, <2>2, <2>3 DEF CustomersAreCounted
  <1> QED
    BY <1>2, <1>3, <1>4, <1>5 DEF IInv

LEMMA SubmitStep ==
    ASSUME IInv, NEW t \in Tabs, NEW method, Submit(t, method)
    PROVE  IInv'
  <1> DEFINE s == [NoSale EXCEPT !.at = Steps.idle, !.method = method, !.key = jar[BrowserOf[t]]]
  <1>1. IsSale(s) /\ s.at # "rows"
    BY DEF IsSale, NoSale, Steps
  <1>2. /\ sale[t].at # "rows" /\ sale' = [sale EXCEPT ![t] = s]
        /\ UNCHANGED <<carts, used, orders, customers, tenantLock, rowLock>>
    BY DEF Submit, cartVars, shopVars, lockVars
  <1> HIDE DEF s
  <1> QED
    BY <1>1, <1>2, OutsideStep

LEMMA LoadConfigStep ==
    ASSUME IInv, NEW t \in Tabs, LoadConfig(t)
    PROVE  IInv'
  <1> DEFINE s == [sale[t] EXCEPT !.at = Steps.config]
  <1>1. IsSale(s) /\ s.at # "rows"
    BY DEF IInv, Shapes, IsSale, Steps
  <1>2. /\ sale[t].at # "rows" /\ sale' = [sale EXCEPT ![t] = s]
        /\ UNCHANGED <<carts, used, orders, customers, tenantLock, rowLock>>
    BY DEF LoadConfig, cartVars, shopVars, lockVars
  <1> HIDE DEF s
  <1> QED
    BY <1>1, <1>2, OutsideStep

LEMMA BeginStep ==
    ASSUME IInv, NEW t \in Tabs, Begin(t)
    PROVE  IInv'
  <1> DEFINE c == sale[t].key
             rows == LinesOf(line, c)
             lines == {[row |-> l, item |-> line[l].item, qty |-> line[l].qty] : l \in rows}
             s == [sale[t] EXCEPT !.at = Steps.begin, !.lines = lines]
  <1>1. IsSale(s) /\ s.at # "rows" /\ IsSale(NoSale) /\ NoSale.at # "rows"
    <2> HIDE DEF lines
    <2> QED
      BY DEF IInv, Shapes, IsSale, Steps, NoSale
  <1>2. /\ sale[t].at # "rows"
        /\ UNCHANGED <<carts, used, orders, customers, tenantLock, rowLock>>
        /\ sale' = [sale EXCEPT ![t] = s] \/ sale' = [sale EXCEPT ![t] = NoSale]
    BY DEF Begin, cartVars, shopVars, IInv, Shapes
  <1> HIDE DEF s
  <1> QED
    BY <1>1, <1>2, OutsideStep

LEMMA AnswerStep ==
    ASSUME IInv, NEW t \in Tabs, Answer(t) \/ SessionFails(t)
    PROVE  IInv'
  <1>1. IsSale(NoSale) /\ NoSale.at # "rows"
    BY DEF IsSale, NoSale
  <1>2. /\ sale[t].at # "rows" /\ sale' = [sale EXCEPT ![t] = NoSale]
        /\ UNCHANGED <<carts, used, orders, customers, tenantLock, rowLock>>
    BY DEF Answer, SessionFails, cartVars, shopVars, lockVars
  <1> QED
    BY <1>1, <1>2, OutsideStep

\* The carts and their lines change, and a new cart has a new key.
LEMMA CartStep ==
    ASSUME IInv, UNCHANGED <<sale, orders, customers, tenantLock, rowLock>>,
           carts \subseteq carts', used \subseteq used', carts' \subseteq used',
           carts' \cap used \subseteq carts
    PROVE  IInv'
  <1>1. Shapes' /\ LocksAreNested'
    BY DEF IInv, Shapes, IsSale, IsOrder, CustomerRow, LocksAreNested
  <1>2. OrderedCartsAreGone'
    BY DEF IInv, OrderedCartsAreGone, OneOrderPerCart
  <1>3. CustomersAreCounted'
    <2>1. OneCustomerPerEmail' /\ (\A n \in DOMAIN orders : HasCustomer(orders[n].email))'
      BY DEF IInv, CustomersAreCounted, OneCustomerPerEmail, HasCustomer
    <2>2. (\A t \in Tabs : sale[t].at = "rows" => sale[t].known = HasCustomer(Email(t)))'
      BY DEF IInv, CustomersAreCounted, HasCustomer, Email
    <2> QED
      BY <2>1, <2>2 DEF CustomersAreCounted
  <1> QED
    BY <1>1, <1>2, <1>3 DEF IInv

LEMMA EditingStep ==
    ASSUME IInv,
           \/ \E q \in Tabs \X Slots : EditStep(q)
           \/ \E t \in Tabs, i \in Items : AddStart(t, i)
           \/ \E t \in Tabs, l \in LineIds : UpdateItem(t, l) \/ RemoveItem(t, l)
           \/ \E t \in Tabs, c \in CartIds : Adopt(t, c)
    PROVE  IInv'
  <1>1. ASSUME NEW q, AddFind(q)
        PROVE  IInv'
    <2>1. PICK c \in IF edit[q].key \in carts THEN {edit[q].key} ELSE CartIds \ used :
             carts' = carts \cup {c} /\ used' = used \cup {c}
      BY <1>1 DEF AddFind
    <2>2. UNCHANGED <<sale, orders, customers, tenantLock, rowLock>>
      BY <1>1 DEF AddFind, shopVars, lockVars
    <2> QED
      BY <2>1, <2>2, CartStep DEF IInv, OrderedCartsAreGone
  <1>2. CASE UNCHANGED <<sale, orders, customers, tenantLock, rowLock, carts, used>>
    BY <1>2, CartStep DEF IInv, OrderedCartsAreGone
  <1>3. ASSUME NEW q, AddWrite(q)
        PROVE  UNCHANGED <<sale, orders, customers, tenantLock, rowLock, carts, used>>
    BY <1>3 DEF AddWrite, shopVars, lockVars
  <1>4. ASSUME NEW t, NEW i, AddStart(t, i)
        PROVE  UNCHANGED <<sale, orders, customers, tenantLock, rowLock, carts, used>>
    BY <1>4 DEF AddStart, cartVars, shopVars, lockVars
  <1>5. ASSUME NEW t, NEW l, UpdateItem(t, l) \/ RemoveItem(t, l)
        PROVE  UNCHANGED <<sale, orders, customers, tenantLock, rowLock, carts, used>>
    BY <1>5 DEF UpdateItem, RemoveItem, ChangeLine, shopVars, lockVars
  <1>6. ASSUME NEW t, NEW c, Adopt(t, c)
        PROVE  UNCHANGED <<sale, orders, customers, tenantLock, rowLock, carts, used>>
    BY <1>6 DEF Adopt, shopVars, lockVars
  <1> QED
    BY <1>1, <1>2, <1>3, <1>4, <1>5, <1>6 DEF EditStep

-----------------------------------------------------------------------------
(* The locked part of a checkout.                                           *)

LEMMA LockTenantStep ==
    ASSUME IInv, NEW t \in Tabs, LockTenant(t)
    PROVE  IInv'
  <1>1. /\ sale[t].at = "lock" /\ tenantLock = Nobody /\ tenantLock' = t
        /\ sale' = [sale EXCEPT ![t].at = "rows",
                                ![t].known = HasCustomer(Email(t)),
                                ![t].todo = IF sale[t].method = "online" THEN sale[t].lines ELSE {}]
        /\ UNCHANGED <<carts, used, orders, customers, rowLock>>
    BY DEF LockTenant, TenantFree, Email, cartVars, shopVars
  <1>2. /\ sale' = [u \in Tabs |-> sale'[u]] /\ \A u \in Tabs : u # t => sale'[u] = sale[u]
        /\ IsSale(sale'[t]) /\ sale'[t].at = "rows" /\ sale'[t].known = HasCustomer(Email(t))
    BY <1>1 DEF IInv, Shapes, IsSale
  <1>3. \A u \in Tabs : sale[u].at # "rows"
    BY <1>1, CartAssumption DEF IInv, LocksAreNested
  <1>4. Shapes'
    BY <1>1, <1>2 DEF IInv, Shapes, IsSale, IsOrder, CustomerRow
  <1>5. LocksAreNested'
    <2>1. \A u \in Tabs : sale'[u].at = "rows" <=> tenantLock' = u
      BY <1>1, <1>2, <1>3
    <2>2. Nobody \notin Tabs
      BY CartAssumption
    <2>3. \A i \in Items, u \in Tabs : rowLock[i] # u
      BY <1>1, <2>2 DEF IInv, LocksAreNested
    <2>4. \A i \in Items, u \in Tabs : rowLock'[i] # u
      BY <1>1, <2>3
    <2> QED
      BY <2>1, <2>4 DEF LocksAreNested
  <1>6. OrderedCartsAreGone'
    BY <1>1 DEF IInv, OrderedCartsAreGone, OneOrderPerCart
  <1>7. CustomersAreCounted'
    <2>1. OneCustomerPerEmail' /\ (\A n \in DOMAIN orders : HasCustomer(orders[n].email))'
      BY <1>1 DEF IInv, CustomersAreCounted, OneCustomerPerEmail, HasCustomer
    <2>2. ASSUME NEW u \in Tabs, sale'[u].at = "rows"
          PROVE  sale'[u].known = HasCustomer(Email(u))'
      <3>1. u = t
        BY <1>2, <1>3, <2>2
      <3>2. HasCustomer(Email(t))' = HasCustomer(Email(t))
        BY <1>1 DEF HasCustomer, Email
      <3> QED
        BY <1>2, <3>1, <3>2
    <2> QED
      BY <2>1, <2>2 DEF CustomersAreCounted
  <1> QED
    BY <1>4, <1>5, <1>6, <1>7 DEF IInv

\* A transaction that ends without a commit leaves only its locks behind it.
LEMMA RollbackStep ==
    ASSUME IInv, NEW t \in Tabs, Rollback(t)
    PROVE  IInv'
  <1>1. /\ sale' = [sale EXCEPT ![t] = NoSale]
        /\ tenantLock' = IF tenantLock = t THEN Nobody ELSE tenantLock
        /\ rowLock' = [i \in Items |-> IF rowLock[i] = t THEN Nobody ELSE rowLock[i]]
        /\ UNCHANGED <<carts, used, orders, customers>>
    BY DEF Rollback, UnlockTenant, Release, cartVars, shopVars
  <1>2. /\ sale' = [u \in Tabs |-> sale'[u]] /\ \A u \in Tabs : u # t => sale'[u] = sale[u]
        /\ IsSale(sale'[t]) /\ sale'[t].at # "rows"
    BY <1>1 DEF IInv, Shapes, IsSale, NoSale
  <1>3. Shapes'
    BY <1>1, <1>2 DEF IInv, Shapes, IsSale, IsOrder, CustomerRow
  <1>4. LocksAreNested'
    <2>1. \A u \in Tabs : sale'[u].at = "rows" <=> tenantLock' = u
      BY <1>1, <1>2, CartAssumption DEF IInv, LocksAreNested
    <2>2. \A i \in Items, u \in Tabs : rowLock'[i] = u => tenantLock' = u
      BY <1>1, CartAssumption DEF IInv, LocksAreNested
    <2> QED
      BY <2>1, <2>2 DEF LocksAreNested
  <1>5. OrderedCartsAreGone'
    BY <1>1 DEF IInv, OrderedCartsAreGone, OneOrderPerCart
  <1>6. CustomersAreCounted'
    <2>1. OneCustomerPerEmail' /\ (\A n \in DOMAIN orders : HasCustomer(orders[n].email))'
      BY <1>1 DEF IInv, CustomersAreCounted, OneCustomerPerEmail, HasCustomer
    <2>2. ASSUME NEW u \in Tabs, sale'[u].at = "rows"
          PROVE  sale'[u].known = HasCustomer(Email(u))'
      <3>1. u # t /\ sale[u].known = HasCustomer(Email(u))
        BY <1>2, <2>2 DEF IInv, CustomersAreCounted
      <3>2. HasCustomer(Email(u))' = HasCustomer(Email(u))
        BY <1>1 DEF HasCustomer, Email
      <3> QED
        BY <1>2, <3>1, <3>2
    <2> QED
      BY <2>1, <2>2 DEF CustomersAreCounted
  <1> QED
    BY <1>3, <1>4, <1>5, <1>6 DEF IInv

LEMMA TakeRowStep ==
    ASSUME IInv, NEW t \in Tabs, NEW n, TakeRow(t, n)
    PROVE  IInv'
  <1>1. CASE Rollback(t)
    BY <1>1, RollbackStep
  <1>2. CASE ~Rollback(t)
    <2>1. /\ sale[t].at = "rows"
          /\ rowLock' = [rowLock EXCEPT ![n.item] = t]
          /\ sale' = [sale EXCEPT ![t].todo = @ \ {n}, ![t].took[n.item] = @ + n.qty]
          /\ UNCHANGED <<carts, used, orders, customers, tenantLock>>
      BY <1>2 DEF TakeRow, cartVars, shopVars
    <2>2. /\ sale' = [u \in Tabs |-> sale'[u]]
          /\ \A u \in Tabs : /\ IsSale(sale'[u]) /\ sale'[u].at = sale[u].at
                             /\ sale'[u].known = sale[u].known
      BY <2>1 DEF IInv, Shapes, IsSale
    <2>3. Shapes'
      BY <2>1, <2>2 DEF IInv, Shapes, IsSale, IsOrder, CustomerRow
    <2>4. LocksAreNested'
      BY <2>1, <2>2 DEF IInv, Shapes, LocksAreNested
    <2>5. OrderedCartsAreGone'
      BY <2>1 DEF IInv, OrderedCartsAreGone, OneOrderPerCart
    <2>6. CustomersAreCounted'
      <3>1. OneCustomerPerEmail' /\ (\A k \in DOMAIN orders : HasCustomer(orders[k].email))'
        BY <2>1 DEF IInv, CustomersAreCounted, OneCustomerPerEmail, HasCustomer
      <3>2. ASSUME NEW u \in Tabs, sale'[u].at = "rows"
            PROVE  sale'[u].known = HasCustomer(Email(u))'
        <4>1. sale[u].known = HasCustomer(Email(u))
          BY <2>2, <3>2 DEF IInv, CustomersAreCounted
        <4>2. HasCustomer(Email(u))' = HasCustomer(Email(u))
          BY <2>1 DEF HasCustomer, Email
        <4> QED
          BY <2>2, <4>1, <4>2
      <3> QED
        BY <3>1, <3>2 DEF CustomersAreCounted
    <2> QED
      BY <2>3, <2>4, <2>5, <2>6 DEF IInv
  <1> QED
    BY <1>1, <1>2

-----------------------------------------------------------------------------
(* The commit.                                                              *)

\* The order takes the cart away, under the tenant's lock.
LEMMA CommitStep ==
    ASSUME IInv, NEW t \in Tabs, sale[t].at = "rows", sale[t].key \in carts,
           NEW r, IsOrder(r), r.cart = sale[t].key, r.email = Email(t),
           carts' = carts \ {sale[t].key}, used' = used,
           orders' = Append(orders, r),
           customers' = IF sale[t].known
                        THEN [n \in DOMAIN customers |->
                                IF customers[n].email = Email(t)
                                THEN [customers[n] EXCEPT !.orders = @ + 1] ELSE customers[n]]
                        ELSE Append(customers, [email |-> Email(t), orders |-> 1]),
           sale' = [sale EXCEPT ![t].at = "answer"],
           tenantLock' = Nobody, Release(t)
    PROVE  IInv'
  <1> DEFINE new == Len(orders) + 1
  <1>1. PICK S : orders \in Seq(S)
    BY DEF IInv, Shapes
  <1>2. /\ orders' \in Seq(S \cup {r})
        /\ DOMAIN orders' = DOMAIN orders \cup {new} /\ new \notin DOMAIN orders
        /\ \A n \in DOMAIN orders : orders'[n] = orders[n]
        /\ orders'[new] = r
    BY <1>1, Appended
  <1> HIDE DEF new
  <1>3. /\ sale' = [u \in Tabs |-> sale'[u]] /\ \A u \in Tabs : IsSale(sale'[u])
        /\ \A u \in Tabs : sale'[u].at # "rows"
    <2>1. \A u \in Tabs : u # t => sale[u].at # "rows"
      BY DEF IInv, LocksAreNested
    <2> QED
      BY <2>1 DEF IInv, Shapes, IsSale
  <1>4. LocksAreNested'
    <2>1. \A i \in Items, u \in Tabs : rowLock'[i] # u
      BY CartAssumption DEF IInv, LocksAreNested, Release
    <2> QED
      BY <1>3, <2>1, CartAssumption DEF LocksAreNested
  <1>5. OrderedCartsAreGone'
    <2>1. carts' \subseteq used' /\ \A n \in DOMAIN orders' : orders'[n].cart \in used'
      BY <1>2 DEF IInv, OrderedCartsAreGone
    <2>2. \A n \in DOMAIN orders' : orders'[n].cart \notin carts'
      BY <1>2 DEF IInv, OrderedCartsAreGone, OneOrderPerCart
    <2>3. \A n \in DOMAIN orders : orders[n].cart # r.cart
      BY DEF IInv, OrderedCartsAreGone, OneOrderPerCart
    <2>4. \A n \in DOMAIN orders', k \in DOMAIN orders' : k # n => orders'[k].cart # orders'[n].cart
      BY <1>2, <2>3 DEF IInv, OrderedCartsAreGone, OneOrderPerCart
    <2> QED
      BY <2>1, <2>2, <2>4 DEF OrderedCartsAreGone, OneOrderPerCart
  <1>6. /\ OrdersOf(Email(t))' = OrdersOf(Email(t)) \cup {new}
        /\ \A email : email # Email(t) => OrdersOf(email)' = OrdersOf(email)
    <2>1. \A k \in DOMAIN orders : orders'[k].email = orders[k].email
      BY <1>2
    <2>2. OrdersOf(Email(t))' = {k \in DOMAIN orders' : orders'[k].email = Email(t)}
      BY DEF OrdersOf, Email
    <2>3. ASSUME NEW email, email # Email(t)
          PROVE  {k \in DOMAIN orders' : orders'[k].email = email} = OrdersOf(email)
      BY <1>2, <2>1, <2>3 DEF OrdersOf
    <2>4. \A email : email # Email(t) => OrdersOf(email)' = OrdersOf(email)
      BY <2>3 DEF OrdersOf
    <2> QED
      BY <1>2, <2>1, <2>2, <2>4 DEF OrdersOf
  <1>7. /\ Cardinality(OrdersOf(Email(t))') = Cardinality(OrdersOf(Email(t))) + 1
        /\ Cardinality(OrdersOf(Email(t))) \in Nat
    <2>1. IsFiniteSet(OrdersOf(Email(t))) /\ new \notin OrdersOf(Email(t))
      BY <1>1, <1>2, OrdersOfAreFinite DEF OrdersOf
    <2> QED
      BY <1>6, <2>1, FS_AddElement, FS_CardinalityType
  <1> DEFINE After(email) == {k \in DOMAIN orders' : orders'[k].email = email}
  <1>8. /\ After(Email(t)) = OrdersOf(Email(t)) \cup {new}
        /\ Cardinality(After(Email(t))) = Cardinality(OrdersOf(Email(t))) + 1
        /\ \A email : email # Email(t) => After(email) = OrdersOf(email)
    BY <1>6, <1>7 DEF OrdersOf, Email
  <1> HIDE DEF After
  <1>9. /\ customers \in Seq(CustomerRow)
        /\ \A n, k \in DOMAIN customers : k # n => customers[k].email # customers[n].email
        /\ \A n \in DOMAIN customers :
              customers[n].orders = Cardinality(OrdersOf(customers[n].email))
    BY DEF IInv, Shapes, CustomersAreCounted, OneCustomerPerEmail, OrdersOf
  <1>10. \A n \in DOMAIN orders : HasCustomer(orders[n].email)
    BY DEF IInv, CustomersAreCounted
  <1> DEFINE Unique == \A n, k \in DOMAIN customers' :
                          k # n => customers'[k].email # customers'[n].email
             Counted == \A n \in DOMAIN customers' :
                          customers'[n].orders = Cardinality(After(customers'[n].email))
             Kept == /\ \A n \in DOMAIN customers :
                           \E k \in DOMAIN customers' : customers'[k].email = customers[n].email
                     /\ \E k \in DOMAIN customers' : customers'[k].email = Email(t)
  <1>11. ASSUME HasCustomer(Email(t)), sale[t].known
         PROVE  customers' \in Seq(CustomerRow) /\ Unique /\ Counted /\ Kept
    <2>1. customers' = [n \in DOMAIN customers |->
                          IF customers[n].email = Email(t)
                          THEN [customers[n] EXCEPT !.orders = @ + 1] ELSE customers[n]]
      BY <1>11
    <2>2. \A n \in DOMAIN customers : customers[n] \in CustomerRow
      BY <1>9
    <2>3. \A n \in DOMAIN customers :
            /\ customers'[n] \in CustomerRow /\ customers'[n].email = customers[n].email
            /\ customers'[n].orders = IF customers[n].email = Email(t) THEN customers[n].orders + 1
                                                                      ELSE customers[n].orders
      BY <2>1, <2>2 DEF CustomerRow
    <2>4. DOMAIN customers' = DOMAIN customers
      BY <2>1
    <2>5. customers' \in Seq(CustomerRow)
      <3>1. DOMAIN customers = 1..Len(customers) /\ Len(customers) \in Nat
        BY <1>9
      <3>2. customers' \in [1..Len(customers) -> CustomerRow]
        BY <2>1, <2>3, <3>1
      <3> QED
        BY <3>1, <3>2, SeqDef
    <2>6. Unique
      BY <1>9, <2>3, <2>4
    <2>7. Counted
      <3> SUFFICES ASSUME NEW n \in DOMAIN customers
                   PROVE  customers'[n].orders = Cardinality(After(customers[n].email))
        BY <2>3, <2>4
      <3>1. CASE customers[n].email = Email(t)
        <4>1. customers'[n].orders = Cardinality(OrdersOf(Email(t))) + 1
          <5>1. customers'[n].orders = customers[n].orders + 1
            BY <2>3, <3>1
          <5>2. customers[n].orders = Cardinality(OrdersOf(customers[n].email))
            BY <1>9
          <5> QED
            BY <3>1, <5>1, <5>2
        <4> QED
          BY <1>8, <3>1, <4>1
      <3>2. CASE customers[n].email # Email(t)
        BY <1>8, <1>9, <2>3, <3>2
      <3> QED
        BY <3>1, <3>2
    <2>8. Kept
      BY <1>11, <2>3, <2>4 DEF HasCustomer
    <2> QED
      BY <2>5, <2>6, <2>7, <2>8
  <1>12. ASSUME ~HasCustomer(Email(t)), ~sale[t].known
         PROVE  customers' \in Seq(CustomerRow) /\ Unique /\ Counted /\ Kept
    <2> DEFINE row == [email |-> Email(t), orders |-> 1]
               place == Len(customers) + 1
    <2>1. customers' = Append(customers, row) /\ row \in CustomerRow
      BY <1>12, CartAssumption DEF CustomerRow, Email
    <2>2. row.email = Email(t) /\ row.orders = 1
      OBVIOUS
    <2> HIDE DEF row
    <2>3. /\ customers' \in Seq(CustomerRow \cup {row})
          /\ DOMAIN customers' = DOMAIN customers \cup {place}
          /\ place \notin DOMAIN customers
          /\ \A n \in DOMAIN customers : customers'[n] = customers[n]
          /\ customers'[place] = row
      BY <1>9, <2>1, Appended
    <2> HIDE DEF place
    <2>4. CustomerRow \cup {row} = CustomerRow
      BY <2>1
    <2>5. \A n \in DOMAIN customers : customers[n].email # Email(t)
      BY <1>12 DEF HasCustomer
    <2>6. Cardinality(After(Email(t))) = 1
      <3>1. OrdersOf(Email(t)) = {}
        BY <1>10, <1>12 DEF OrdersOf
      <3> QED
        BY <1>8, <3>1, FS_EmptySet
    <2>7. Unique
      BY <1>9, <2>2, <2>3, <2>5
    <2>8. Counted
      <3>1. ASSUME NEW n \in DOMAIN customers
            PROVE  customers'[n].orders = Cardinality(After(customers'[n].email))
        BY <1>8, <1>9, <2>3, <2>5, <3>1
      <3> QED
        BY <2>2, <2>3, <2>6, <3>1
    <2>9. Kept
      BY <2>2, <2>3
    <2> QED
      BY <2>3, <2>4, <2>7, <2>8, <2>9
  <1>13. customers' \in Seq(CustomerRow) /\ Unique /\ Counted /\ Kept
    <2>1. sale[t].known = HasCustomer(Email(t))
      BY DEF IInv, CustomersAreCounted
    <2>2. CASE HasCustomer(Email(t))
      <3>1. sale[t].known
        BY <2>1, <2>2
      <3> QED
        BY <1>11, <2>2, <3>1
    <2>3. CASE ~HasCustomer(Email(t))
      <3>1. ~sale[t].known
        BY <2>1, <2>3
      <3> QED
        BY <1>12, <2>3, <3>1
    <2> QED
      BY <2>2, <2>3
  <1>14. CustomersAreCounted'
    <2>1. OneCustomerPerEmail'
      BY <1>13 DEF OneCustomerPerEmail, After
    <2>2. \A n \in DOMAIN orders' : \E k \in DOMAIN customers' :
             customers'[k].email = orders'[n].email
      <3>1. \A n \in DOMAIN orders : \E k \in DOMAIN customers' :
               customers'[k].email = orders[n].email
        <4> SUFFICES ASSUME NEW n \in DOMAIN orders
                     PROVE  \E k \in DOMAIN customers' : customers'[k].email = orders[n].email
          OBVIOUS
        <4>1. PICK m \in DOMAIN customers : customers[m].email = orders[n].email
          BY <1>10 DEF HasCustomer
        <4>2. PICK k \in DOMAIN customers' : customers'[k].email = customers[m].email
          BY <1>13
        <4> QED
          BY <4>1, <4>2
      <3>2. \E k \in DOMAIN customers' : customers'[k].email = orders'[new].email
        <4>1. orders'[new].email = Email(t)
          BY <1>2
        <4>2. \E k \in DOMAIN customers' : customers'[k].email = Email(t)
          BY <1>13
        <4> QED
          BY <4>1, <4>2
      <3> SUFFICES ASSUME NEW n \in DOMAIN orders'
                   PROVE  \E k \in DOMAIN customers' : customers'[k].email = orders'[n].email
        OBVIOUS
      <3>3. CASE n = new
        BY <3>2, <3>3
      <3>4. CASE n \in DOMAIN orders
        <4>1. orders'[n] = orders[n]
          BY <1>2, <3>4
        <4>2. PICK k \in DOMAIN customers' : customers'[k].email = orders[n].email
          BY <3>1, <3>4
        <4> QED
          BY <4>1, <4>2
      <3>5. n = new \/ n \in DOMAIN orders
        BY <1>2
      <3> QED
        BY <3>3, <3>4, <3>5
    <2>3. (\A n \in DOMAIN orders : HasCustomer(orders[n].email))'
      BY <2>2 DEF HasCustomer
    <2>4. (\A u \in Tabs : sale[u].at = "rows" => sale[u].known = HasCustomer(Email(u)))'
      BY <1>3
    <2> QED
      BY <2>1, <2>3, <2>4 DEF CustomersAreCounted
  <1>15. Shapes'
    <2>1. \A n \in DOMAIN orders' : IsOrder(orders'[n])
      BY <1>2 DEF IInv, Shapes
    <2>2. rowLock' = [i \in Items |-> rowLock'[i]]
      BY DEF Release
    <2> QED
      BY <1>2, <1>3, <1>13, <2>1, <2>2 DEF Shapes, IsSale, IsOrder, CustomerRow
  <1> QED
    BY <1>4, <1>5, <1>14, <1>15 DEF IInv

LEMMA FinishStep ==
    ASSUME IInv, NEW t \in Tabs, Finish(t)
    PROVE  IInv'
  <1>1. CASE Rollback(t)
    BY <1>1, RollbackStep
  <1>2. CASE ~Rollback(t)
    <2> DEFINE r == [cart |-> sale[t].key, email |-> Email(t), units |-> Sold(t),
                     held |-> sale[t].method = "online"]
    <2>1. /\ sale[t].at = "rows" /\ sale[t].key \in carts
          /\ carts' = carts \ {sale[t].key} /\ used' = used
          /\ orders' = Append(orders, r)
          /\ sale' = [sale EXCEPT ![t].at = "answer"]
          /\ tenantLock' = Nobody /\ Release(t)
      BY <1>2 DEF Finish, CartDeleted, Email
    <2>2. customers' = IF sale[t].known
                       THEN [n \in DOMAIN customers |->
                               IF customers[n].email = Email(t)
                               THEN [customers[n] EXCEPT !.orders = @ + 1] ELSE customers[n]]
                       ELSE Append(customers, [email |-> Email(t), orders |-> 1])
      BY <1>2 DEF Finish, CartDeleted, Email
    <2>3. IsOrder(r) /\ r.cart = sale[t].key /\ r.email = Email(t)
      BY DEF IsOrder
    <2> HIDE DEF r
    <2> QED
      BY <2>1, <2>2, <2>3, CommitStep
  <1> QED
    BY <1>1, <1>2

-----------------------------------------------------------------------------
(* The merchant.                                                            *)

\* A confirmation locks rows and marks orders, and that is all.
LEMMA MerchantStep ==
    ASSUME IInv, NEW m \in Merchants, NEW o,
           UNCHANGED <<sale, carts, used, customers, tenantLock>>,
           orders' = orders \/ orders' = [orders EXCEPT ![o].held = TRUE],
           rowLock' = [i \in Items |-> rowLock'[i]],
           \A i \in Items : rowLock'[i] \in {rowLock[i], Nobody, m}
    PROVE  IInv'
  <1>1. m \notin Tabs /\ Nobody \notin Tabs
    BY CartAssumption
  <1>2. LocksAreNested'
    BY <1>1 DEF IInv, LocksAreNested
  <1>3. PICK S : orders \in Seq(S)
    BY DEF IInv, Shapes
  <1>4. /\ DOMAIN orders' = DOMAIN orders
        /\ \A n \in DOMAIN orders : /\ IsOrder(orders'[n])
                                    /\ orders'[n].cart = orders[n].cart
                                    /\ orders'[n].email = orders[n].email
    BY DEF IInv, Shapes, IsOrder
  <1>5. \E T : orders' \in Seq(T)
    <2>1. CASE orders' = orders
      BY <1>3, <2>1
    <2>2. CASE orders' # orders
      <3> DEFINE r == [orders[o] EXCEPT !.held = TRUE]
      <3>1. o \in DOMAIN orders /\ orders' = [orders EXCEPT ![o] = r]
        BY <1>3, <2>2
      <3> HIDE DEF r
      <3>2. orders \in Seq(S \cup {r}) /\ o \in 1..Len(orders)
        BY <1>3, <3>1
      <3>3. orders' \in Seq(S \cup {r})
        BY <3>1, <3>2, ExceptSeq
      <3> QED
        BY <3>3
    <2> QED
      BY <2>1, <2>2
  <1>6. Shapes'
    BY <1>4, <1>5 DEF IInv, Shapes, IsSale, CustomerRow, IsOrder
  <1>7. OrderedCartsAreGone'
    BY <1>4 DEF IInv, OrderedCartsAreGone, OneOrderPerCart
  <1>8. CustomersAreCounted'
    <2>1. \A email : {k \in DOMAIN orders' : orders'[k].email = email}
                      = {k \in DOMAIN orders : orders[k].email = email}
      BY <1>4
    <2>2. OneCustomerPerEmail'
      <3>1. ASSUME NEW n \in DOMAIN customers
            PROVE  customers[n].orders = Cardinality({k \in DOMAIN orders' :
                                                         orders'[k].email = customers[n].email})
        <4>1. customers[n].orders = Cardinality({k \in DOMAIN orders :
                                                     orders[k].email = customers[n].email})
          BY DEF IInv, CustomersAreCounted, OneCustomerPerEmail
        <4>2. {k \in DOMAIN orders' : orders'[k].email = customers[n].email}
              = {k \in DOMAIN orders : orders[k].email = customers[n].email}
          BY <2>1
        <4> QED
          BY <4>1, <4>2
      <3>2. \A n \in DOMAIN customers, k \in DOMAIN customers :
               k # n => customers[k].email # customers[n].email
        BY DEF IInv, CustomersAreCounted, OneCustomerPerEmail
      <3>3. customers' = customers
        OBVIOUS
      <3> QED
        BY <3>1, <3>2, <3>3 DEF OneCustomerPerEmail
    <2>3. (\A n \in DOMAIN orders : HasCustomer(orders[n].email))'
      BY <1>4 DEF IInv, CustomersAreCounted, HasCustomer
    <2>4. (\A t \in Tabs : sale[t].at = "rows" => sale[t].known = HasCustomer(Email(t)))'
      BY DEF IInv, CustomersAreCounted, HasCustomer, Email
    <2> QED
      BY <2>2, <2>3, <2>4 DEF CustomersAreCounted
  <1> QED
    BY <1>2, <1>6, <1>7, <1>8 DEF IInv

LEMMA ConfirmingStep ==
    ASSUME IInv, NEW m \in Merchants,
           (\E o \in DOMAIN orders : ConfirmStart(m, o)) \/ ConfirmStep(m)
    PROVE  IInv'
  <1>1. m \notin Tabs /\ rowLock = [i \in Items |-> rowLock[i]]
    BY CartAssumption DEF IInv, Shapes
  <1>2. ASSUME ConfirmEnd(m)
        PROVE  /\ UNCHANGED <<sale, carts, used, customers, tenantLock>>
               /\ rowLock' = [i \in Items |-> rowLock'[i]]
               /\ \A i \in Items : rowLock'[i] \in {rowLock[i], Nobody, m}
    BY <1>2 DEF ConfirmEnd, Release, cartVars
  <1>3. ASSUME NEW o \in DOMAIN orders, ConfirmStart(m, o)
        PROVE  IInv'
    <2>1. UNCHANGED <<sale, carts, used, customers, tenantLock, orders, rowLock>>
      BY <1>3 DEF ConfirmStart, cartVars, shopVars
    <2> QED
      BY <1>1, <2>1, MerchantStep
  <1>4. ASSUME NEW i \in Items, ConfirmRow(m, i)
        PROVE  IInv'
    <2>1. CASE ConfirmEnd(m)
      <3>1. orders' = orders
        BY <1>4 DEF ConfirmRow, shopVars
      <3> QED
        BY <1>2, <2>1, <3>1, MerchantStep
    <2>2. CASE ~ConfirmEnd(m)
      <3>1. /\ rowLock' = [rowLock EXCEPT ![i] = m]
            /\ UNCHANGED <<sale, carts, used, customers, tenantLock, orders>>
        BY <1>4, <2>2 DEF ConfirmRow, cartVars, shopVars
      <3>2. /\ rowLock' = [k \in Items |-> rowLock'[k]]
            /\ \A k \in Items : rowLock'[k] \in {rowLock[k], Nobody, m}
        BY <1>1, <3>1
      <3> QED
        BY <3>1, <3>2, MerchantStep
    <2> QED
      BY <2>1, <2>2
  <1>5. CASE ConfirmCommit(m)
    <2>1. ConfirmEnd(m) /\ orders' = [orders EXCEPT ![confirm[m].order].held = TRUE]
      BY <1>5 DEF ConfirmCommit
    <2> QED
      BY <1>2, <2>1, MerchantStep
  <1>6. CASE Victim(m)
    <2>1. ConfirmEnd(m) /\ orders' = orders
      BY <1>1, <1>6 DEF Victim
    <2> QED
      BY <1>2, <2>1, MerchantStep
  <1> QED
    BY <1>3, <1>4, <1>5, <1>6 DEF ConfirmStep

-----------------------------------------------------------------------------
(* All of them.                                                             *)

LEMMA InitIInv == Init => IInv
  <1> SUFFICES ASSUME Init PROVE IInv
    OBVIOUS
  <1>1. /\ sale = [t \in Tabs |-> NoSale] /\ orders = <<>> /\ customers = <<>>
        /\ tenantLock = Nobody /\ rowLock = [i \in Items |-> Nobody] /\ used = carts
    BY DEF Init
  <1>2. orders \in Seq({}) /\ customers \in Seq(CustomerRow)
    BY <1>1
  <1>3. DOMAIN orders = {} /\ DOMAIN customers = {}
    BY <1>1
  <1>4. \A t \in Tabs : IsSale(sale[t]) /\ sale[t].at # "rows"
    BY <1>1 DEF IsSale, NoSale
  <1>5. Shapes
    BY <1>1, <1>2, <1>3, <1>4 DEF Shapes
  <1>6. LocksAreNested
    BY <1>1, <1>4, CartAssumption DEF LocksAreNested
  <1>7. OrderedCartsAreGone
    BY <1>1, <1>3 DEF OrderedCartsAreGone, OneOrderPerCart
  <1>8. CustomersAreCounted
    BY <1>3, <1>4 DEF CustomersAreCounted, OneCustomerPerEmail
  <1> QED
    BY <1>5, <1>6, <1>7, <1>8 DEF IInv

LEMMA SaleStepStep ==
    ASSUME IInv, NEW t \in Tabs, SaleStep(t) \/ SessionFails(t) \/ TimesOut(t)
    PROVE  IInv'
  <1>1. ASSUME Victim(t) \/ TimesOut(t)
        PROVE  IInv'
    BY <1>1, RollbackStep DEF Victim, TimesOut
  <1> QED
    BY <1>1, LoadConfigStep, BeginStep, LockTenantStep, TakeRowStep, FinishStep, AnswerStep
    DEF SaleStep

LEMMA NextStep == IInv /\ [Next]_vars => IInv'
  <1> SUFFICES ASSUME IInv, [Next]_vars PROVE IInv'
    OBVIOUS
  <1>1. CASE ShopperStep
    <2>1. ASSUME NEW t \in Tabs, NEW method \in Methods, Submit(t, method)
          PROVE  IInv'
      BY <2>1, SubmitStep
    <2> QED
      BY <1>1, <2>1, EditingStep DEF ShopperStep
  <1>2. CASE \E q \in Tabs \X Slots : EditStep(q)
    BY <1>2, EditingStep
  <1>3. CASE \E t \in Tabs : SaleStep(t) \/ SessionFails(t) \/ TimesOut(t)
    BY <1>3, SaleStepStep
  <1>4. CASE \/ \E m \in Merchants, o \in DOMAIN orders : ConfirmStart(m, o)
             \/ \E m \in Merchants : ConfirmStep(m)
    BY <1>4, ConfirmingStep
  <1>5. CASE UNCHANGED vars
    <2>1. UNCHANGED <<sale, orders, customers, tenantLock, rowLock, carts, used>>
      BY <1>5 DEF vars
    <2> QED
      BY <2>1, CartStep DEF IInv, OrderedCartsAreGone
  <1> QED
    BY <1>1, <1>2, <1>3, <1>4, <1>5 DEF Next

-----------------------------------------------------------------------------
(* Whatever is in a cart, or on its way there or out, is one of the items.  *)

EditsAreReal ==
    /\ edit = [q \in Tabs \X Slots |-> edit[q]]
    /\ \A q \in Tabs \X Slots :
          /\ DOMAIN edit[q] = {"at", "key", "cart", "item", "line", "base"}
          /\ edit[q].at # "idle" => edit[q].item \in Items

LinesAreReal ==
    /\ NoCart \notin carts
    /\ line = [l \in LineIds |-> line[l]]
    /\ \A l \in LineIds : /\ DOMAIN line[l] = {"cart", "item", "qty"}
                          /\ line[l].cart # NoCart => line[l].item \in Items

SalesAreReal == \A t \in Tabs : \A n \in sale[t].lines \cup sale[t].todo : n.item \in Items

RealItems == EditsAreReal /\ LinesAreReal /\ SalesAreReal

LEMMA InitRealItems == Init => RealItems
  <1> SUFFICES ASSUME Init PROVE RealItems
    OBVIOUS
  <1>1. EditsAreReal
    BY DEF Init, EditsAreReal, Idle
  <1>2. InitialLine \in [LineIds -> Line \cup {NoLine}]
    BY CartAssumption
  <1>3. LinesAreReal
    BY <1>2 DEF Init, LinesAreReal, Line, NoLine
  <1>4. SalesAreReal
    BY DEF Init, SalesAreReal, NoSale
  <1> QED
    BY <1>1, <1>3, <1>4 DEF RealItems

LEMMA EditsStayReal ==
    ASSUME EditsAreReal, [Next]_vars
    PROVE  EditsAreReal'
  <1>1. CASE edit' = edit
    BY <1>1 DEF EditsAreReal
  <1>2. ASSUME NEW t \in Tabs, NEW i \in Items, AddStart(t, i)
        PROVE  EditsAreReal'
    <2>1. PICK q, key : edit' = [edit EXCEPT ![q] = [Idle EXCEPT !.at = "find", !.item = i, !.key = key]]
      BY <1>2 DEF AddStart
    <2> QED
      BY <2>1 DEF EditsAreReal, Idle
  <1>3. ASSUME NEW q \in Tabs \X Slots, AddFind(q)
        PROVE  EditsAreReal'
    <2>0. PICK c \in IF edit[q].key \in carts THEN {edit[q].key} ELSE CartIds \ used :
             LET found == {l \in LinesOf(line, c) : line[l].item = edit[q].item}
             IN  \E l \in IF found = {} THEN {0} ELSE found :
                    edit' = [edit EXCEPT ![q].at = "write", ![q].cart = c, ![q].line = l,
                                         ![q].base = IF l = 0 THEN 0 ELSE line[l].qty]
      BY <1>3 DEF AddFind
    <2>1. PICK l : edit' = [edit EXCEPT ![q].at = "write", ![q].cart = c, ![q].line = l,
                                        ![q].base = IF l = 0 THEN 0 ELSE line[l].qty]
      BY <2>0
    <2>2. edit[q].at # "idle"
      BY <1>3 DEF AddFind
    <2> QED
      BY <2>1, <2>2 DEF EditsAreReal
  <1>4. ASSUME NEW q \in Tabs \X Slots, AddWrite(q)
        PROVE  EditsAreReal'
    <2>1. edit' = [edit EXCEPT ![q] = Idle]
      BY <1>4 DEF AddWrite
    <2> QED
      BY <2>1 DEF EditsAreReal, Idle
  <1> USE DEF cartVars, shopVars, lockVars
  <1>5. ASSUME NEW t \in Tabs, NEW l, UpdateItem(t, l) \/ RemoveItem(t, l)
        PROVE  edit' = edit
    BY <1>5 DEF UpdateItem, RemoveItem, ChangeLine
  <1>6. ASSUME NEW t \in Tabs, NEW c, Adopt(t, c)
        PROVE  edit' = edit
    BY <1>6 DEF Adopt
  <1>7. ASSUME NEW t \in Tabs, SaleStep(t) \/ SessionFails(t) \/ TimesOut(t)
        PROVE  edit' = edit
    <2>1. Rollback(t) => edit' = edit
      BY DEF Rollback
    <2>2. CASE Victim(t) \/ TimesOut(t)
      BY <2>1, <2>2 DEF Victim, TimesOut
    <2>3. ASSUME NEW n, TakeRow(t, n)
          PROVE  edit' = edit
      BY <2>1, <2>3 DEF TakeRow
    <2>4. CASE Finish(t)
      BY <2>1, <2>4 DEF Finish
    <2>5. CASE LoadConfig(t) \/ Begin(t) \/ LockTenant(t) \/ Answer(t) \/ SessionFails(t)
      BY <2>5 DEF LoadConfig, Begin, LockTenant, Answer, SessionFails
    <2> QED
      BY <1>7, <2>2, <2>3, <2>4, <2>5 DEF SaleStep
  <1>8. ASSUME NEW t \in Tabs, NEW method, Submit(t, method)
        PROVE  edit' = edit
    BY <1>8 DEF Submit
  <1>9. ASSUME NEW m \in Merchants, NEW o, ConfirmStart(m, o)
        PROVE  edit' = edit
    BY <1>9 DEF ConfirmStart
  <1>10. ASSUME NEW m \in Merchants, ConfirmStep(m)
         PROVE  edit' = edit
    <2>1. m \notin Tabs
      BY CartAssumption
    <2> QED
      BY <1>10, <2>1 DEF ConfirmStep, ConfirmRow, ConfirmCommit, ConfirmEnd, Victim
  <1>11. UNCHANGED vars => edit' = edit
    BY DEF vars
  <1> QED
    BY <1>1, <1>2, <1>3, <1>4, <1>5, <1>6, <1>7, <1>8, <1>9, <1>10, <1>11
    DEF Next, ShopperStep, EditStep

LEMMA LinesStayReal ==
    ASSUME EditsAreReal, LinesAreReal, [Next]_vars
    PROVE  LinesAreReal'
  <1>0. NoCart \notin CartIds
    BY DEF NoCart, CartIds
  <1>1. CASE line' = line /\ carts' = carts
    BY <1>1 DEF LinesAreReal
  <1>2. ASSUME NEW q \in Tabs \X Slots, AddFind(q)
        PROVE  LinesAreReal'
    <2>1. PICK c \in IF edit[q].key \in carts THEN {edit[q].key} ELSE CartIds \ used :
             carts' = carts \cup {c}
      BY <1>2 DEF AddFind
    <2>2. line' = line
      BY <1>2 DEF AddFind
    <2> QED
      BY <1>0, <2>1, <2>2 DEF LinesAreReal
  <1>3. ASSUME NEW q \in Tabs \X Slots, AddWrite(q)
        PROVE  LinesAreReal'
    <2>1. carts' = carts /\ edit[q].item \in Items
      BY <1>3 DEF AddWrite, EditsAreReal
    <2>2. CASE line' = line
      BY <2>1, <2>2 DEF LinesAreReal
    <2>3. CASE line' # line
      <3>1. PICK l : line' = [line EXCEPT ![l] = [cart |-> edit[q].cart, item |-> edit[q].item,
                                                  qty |-> Increased(edit[q].base)]]
        BY <1>3, <2>3 DEF AddWrite
      <3> QED
        BY <2>1, <3>1 DEF LinesAreReal
    <2> QED
      BY <2>2, <2>3
  <1>4. ASSUME NEW t \in Tabs, NEW l \in LineIds, UpdateItem(t, l) \/ RemoveItem(t, l)
        PROVE  LinesAreReal'
    <2>1. carts' = carts
      BY <1>4 DEF UpdateItem, RemoveItem, ChangeLine
    <2>2. line' = [line EXCEPT ![l] = [line[l] EXCEPT !.qty = 1]] \/ line' = [line EXCEPT ![l] = NoLine]
      BY <1>4 DEF UpdateItem, RemoveItem, ChangeLine
    <2> QED
      BY <2>1, <2>2 DEF LinesAreReal, NoLine
  <1>5. ASSUME NEW t \in Tabs, Finish(t)
        PROVE  LinesAreReal'
    <2>1. CASE line' = line /\ carts' = carts
      BY <2>1 DEF LinesAreReal
    <2>2. CASE ~(line' = line /\ carts' = carts)
      <3>1. /\ carts' = carts \ {sale[t].key}
            /\ line' = [l \in LineIds |-> IF line[l].cart = sale[t].key THEN NoLine ELSE line[l]]
        BY <1>5, <2>2 DEF Finish, Rollback, cartVars
      <3> QED
        BY <3>1 DEF LinesAreReal, NoLine
    <2> QED
      BY <2>1, <2>2
  <1> USE DEF cartVars, shopVars, lockVars
  <1>6. ASSUME NEW t \in Tabs, NEW i, AddStart(t, i)
        PROVE  line' = line /\ carts' = carts
    BY <1>6 DEF AddStart
  <1>7. ASSUME NEW t \in Tabs, NEW c, Adopt(t, c)
        PROVE  line' = line /\ carts' = carts
    BY <1>7 DEF Adopt
  <1>8. ASSUME NEW t \in Tabs, NEW method, Submit(t, method)
        PROVE  line' = line /\ carts' = carts
    BY <1>8 DEF Submit
  <1>9. ASSUME NEW t \in Tabs, SaleStep(t) \/ SessionFails(t) \/ TimesOut(t), ~Finish(t)
        PROVE  line' = line /\ carts' = carts
    <2>1. Rollback(t) => line' = line /\ carts' = carts
      BY DEF Rollback
    <2>2. CASE Victim(t) \/ TimesOut(t)
      BY <2>1, <2>2 DEF Victim, TimesOut
    <2>3. ASSUME NEW n, TakeRow(t, n)
          PROVE  line' = line /\ carts' = carts
      BY <2>1, <2>3 DEF TakeRow
    <2>4. CASE LoadConfig(t) \/ Begin(t) \/ LockTenant(t) \/ Answer(t) \/ SessionFails(t)
      BY <2>4 DEF LoadConfig, Begin, LockTenant, Answer, SessionFails
    <2> QED
      BY <1>9, <2>2, <2>3, <2>4 DEF SaleStep
  <1>10. ASSUME NEW m \in Merchants, NEW o, ConfirmStart(m, o)
         PROVE  line' = line /\ carts' = carts
    BY <1>10 DEF ConfirmStart
  <1>11. ASSUME NEW m \in Merchants, ConfirmStep(m)
         PROVE  line' = line /\ carts' = carts
    <2>1. m \notin Tabs
      BY CartAssumption
    <2> QED
      BY <1>11, <2>1 DEF ConfirmStep, ConfirmRow, ConfirmCommit, ConfirmEnd, Victim
  <1>12. UNCHANGED vars => line' = line /\ carts' = carts
    BY DEF vars
  <1> QED
    BY <1>1, <1>2, <1>3, <1>4, <1>5, <1>6, <1>7, <1>8, <1>9, <1>10, <1>11, <1>12
    DEF Next, ShopperStep, EditStep

\* One checkout's row changes, to a step with real lines.
LEMMA SalesStayReal ==
    ASSUME IInv, LinesAreReal, SalesAreReal, [Next]_vars
    PROVE  SalesAreReal'
  <1>0. sale = [t \in Tabs |-> sale[t]] /\ \A t \in Tabs : IsSale(sale[t])
    BY DEF IInv, Shapes
  <1>1. ASSUME NEW t \in Tabs, NEW s, sale' = [sale EXCEPT ![t] = s],
               s.lines = {} \/ s.lines = sale[t].lines \/ \A n \in s.lines : n.item \in Items,
               s.todo \subseteq sale[t].todo \cup s.lines
        PROVE  SalesAreReal'
    <2>1. sale'[t] = s /\ \A u \in Tabs : u # t => sale'[u] = sale[u]
      BY <1>0, <1>1
    <2>2. \A n \in s.lines \cup s.todo : n.item \in Items
      BY <1>1 DEF SalesAreReal
    <2>3. ASSUME NEW u \in Tabs, NEW n \in sale'[u].lines \cup sale'[u].todo
          PROVE  n.item \in Items
      <3>1. CASE u = t
        BY <2>1, <2>2, <2>3, <3>1
      <3>2. CASE u # t
        BY <2>1, <2>3, <3>2 DEF SalesAreReal
      <3> QED
        BY <3>1, <3>2
    <2> QED
      BY <2>3 DEF SalesAreReal
  <1>2. CASE sale' = sale
    BY <1>2 DEF SalesAreReal
  <1>3. NoSale.lines = {} /\ NoSale.todo = {}
    BY DEF NoSale
  <1>4. ASSUME NEW t \in Tabs, Rollback(t) \/ Answer(t) \/ SessionFails(t)
        PROVE  SalesAreReal'
    <2>1. sale' = [sale EXCEPT ![t] = NoSale]
      BY <1>4 DEF Rollback, Answer, SessionFails
    <2> QED
      BY <1>1, <1>3, <2>1
  <1>5. ASSUME NEW t \in Tabs, NEW method, Submit(t, method)
        PROVE  SalesAreReal'
    <2> DEFINE s == [NoSale EXCEPT !.at = Steps.idle, !.method = method, !.key = jar[BrowserOf[t]]]
    <2>1. sale' = [sale EXCEPT ![t] = s]
      BY <1>5 DEF Submit
    <2>2. s.lines = {} /\ s.todo = {}
      BY DEF NoSale
    <2> HIDE DEF s
    <2> QED
      BY <1>1, <2>1, <2>2
  <1>6. ASSUME NEW t \in Tabs, LoadConfig(t)
        PROVE  SalesAreReal'
    <2> DEFINE s == [sale[t] EXCEPT !.at = Steps.config]
    <2>1. sale' = [sale EXCEPT ![t] = s]
      BY <1>6 DEF LoadConfig
    <2>2. s.lines = sale[t].lines /\ s.todo = sale[t].todo
      BY <1>0 DEF IsSale
    <2> HIDE DEF s
    <2> QED
      BY <1>1, <2>1, <2>2
  <1>7. ASSUME NEW t \in Tabs, Begin(t)
        PROVE  SalesAreReal'
    <2> DEFINE rows == LinesOf(line, sale[t].key)
               lines == {[row |-> l, item |-> line[l].item, qty |-> line[l].qty] : l \in rows}
               s == [sale[t] EXCEPT !.at = Steps.begin, !.lines = lines]
    <2>1. CASE sale' = [sale EXCEPT ![t] = NoSale]
      BY <1>1, <1>3, <2>1
    <2>2. CASE sale' # [sale EXCEPT ![t] = NoSale]
      <3>1. sale[t].key \in carts /\ sale' = [sale EXCEPT ![t] = s]
        BY <1>0, <1>7, <2>2 DEF Begin
      <3>2. \A l \in rows : line[l].item \in Items
        BY <3>1 DEF LinesOf, LinesAreReal
      <3>3. \A n \in lines : n.item \in Items
        BY <3>2
      <3> HIDE DEF lines
      <3>4. s.lines = lines /\ s.todo = sale[t].todo
        BY <1>0 DEF IsSale
      <3> HIDE DEF s
      <3> QED
        BY <1>1, <3>1, <3>3, <3>4
    <2> QED
      BY <2>1, <2>2
  <1>8. ASSUME NEW t \in Tabs, LockTenant(t)
        PROVE  SalesAreReal'
    <2> DEFINE s == [sale[t] EXCEPT !.at = "rows", !.known = HasCustomer(EmailOf[BrowserOf[t]]),
                                    !.todo = IF sale[t].method = "online" THEN sale[t].lines ELSE {}]
    <2>1. sale' = [sale EXCEPT ![t] = s]
      BY <1>0, <1>8 DEF LockTenant
    <2>2. s.lines = sale[t].lines /\ s.todo \subseteq sale[t].lines
      BY <1>0 DEF IsSale
    <2> HIDE DEF s
    <2> QED
      BY <1>1, <2>1, <2>2
  <1>9. ASSUME NEW t \in Tabs, NEW n, TakeRow(t, n)
        PROVE  SalesAreReal'
    <2>1. CASE ~Rollback(t)
      <3> DEFINE s == [sale[t] EXCEPT !.todo = @ \ {n}, !.took[n.item] = @ + n.qty]
      <3>1. sale' = [sale EXCEPT ![t] = s]
        BY <1>0, <1>9, <2>1 DEF TakeRow
      <3>2. s.lines = sale[t].lines /\ s.todo \subseteq sale[t].todo
        BY <1>0 DEF IsSale
      <3> HIDE DEF s
      <3> QED
        BY <1>1, <3>1, <3>2
    <2> QED
      BY <1>4, <2>1
  <1>10. ASSUME NEW t \in Tabs, Finish(t)
         PROVE  SalesAreReal'
    <2>1. CASE ~Rollback(t)
      <3> DEFINE s == [sale[t] EXCEPT !.at = "answer"]
      <3>1. sale' = [sale EXCEPT ![t] = s]
        BY <1>10, <2>1 DEF Finish
      <3>2. s.lines = sale[t].lines /\ s.todo = sale[t].todo
        BY <1>0 DEF IsSale
      <3> HIDE DEF s
      <3> QED
        BY <1>1, <3>1, <3>2
    <2> QED
      BY <1>4, <2>1
  <1>11. ASSUME NEW t \in Tabs, SaleStep(t) \/ SessionFails(t) \/ TimesOut(t)
         PROVE  SalesAreReal'
    BY <1>4, <1>6, <1>7, <1>8, <1>9, <1>10, <1>11 DEF SaleStep, Victim, TimesOut
  <1> USE DEF cartVars, shopVars, lockVars
  <1>12. ASSUME NEW t, NEW i, AddStart(t, i)
         PROVE  sale' = sale
    BY <1>12 DEF AddStart
  <1>13. ASSUME NEW q, EditStep(q)
         PROVE  sale' = sale
    BY <1>13 DEF EditStep, AddFind, AddWrite
  <1>14. ASSUME NEW t, NEW l, UpdateItem(t, l) \/ RemoveItem(t, l)
         PROVE  sale' = sale
    BY <1>14 DEF UpdateItem, RemoveItem, ChangeLine
  <1>15. ASSUME NEW t, NEW c, Adopt(t, c)
         PROVE  sale' = sale
    BY <1>15 DEF Adopt
  <1>16. ASSUME NEW m, NEW o, ConfirmStart(m, o)
         PROVE  sale' = sale
    BY <1>16 DEF ConfirmStart
  <1>17. ASSUME NEW m \in Merchants, ConfirmStep(m)
         PROVE  sale' = sale
    <2>1. m \notin Tabs
      BY CartAssumption
    <2> QED
      BY <1>17, <2>1 DEF ConfirmStep, ConfirmRow, ConfirmCommit, ConfirmEnd, Victim
  <1>18. UNCHANGED vars => sale' = sale
    BY DEF vars
  <1> QED
    BY <1>2, <1>5, <1>11, <1>12, <1>13, <1>14, <1>15, <1>16, <1>17, <1>18
    DEF Next, ShopperStep

-----------------------------------------------------------------------------
(* What the invariant gives.                                                *)

\* Locks nest, ordered carts are gone, and customers are counted, always.
THEOREM CheckoutInvariant == Spec => []IInv
  <1> QED
    BY InitIInv, NextStep, PTL DEF Spec

LEMMA ItemsAreReal == Spec => []RealItems
  <1>1. IInv /\ RealItems /\ [Next]_vars => RealItems'
    BY EditsStayReal, LinesStayReal, SalesStayReal DEF RealItems
  <1> QED
    BY <1>1, InitRealItems, CheckoutInvariant, PTL DEF Spec

\* However many tabs submit one cart at once, one of them gets an order.
THEOREM CartsSellOnce == Spec => []OneOrderPerCart
  <1>1. IInv => OneOrderPerCart
    BY DEF IInv, OrderedCartsAreGone
  <1> QED
    BY <1>1, CheckoutInvariant, PTL

\* First checkouts of one e-mail at once make one customer with all the orders.
THEOREM CustomersAreOne == Spec => []OneCustomerPerEmail
  <1>1. IInv => OneCustomerPerEmail
    BY DEF IInv, CustomersAreCounted
  <1> QED
    BY <1>1, CheckoutInvariant, PTL

\* No two checkouts wait for each other, whatever rows they want in what order.
THEOREM CheckoutsDoNotCross == Spec => []CheckoutsNeverDeadlock
  <1>1. ASSUME IInv, RealItems PROVE CheckoutsNeverDeadlock
    <2> SUFFICES ASSUME NEW a \in Tabs, NEW b \in Tabs, WaitsFor(a, b), WaitsFor(b, a)
                 PROVE  FALSE
      BY DEF CheckoutsNeverDeadlock
    <2>1. \A t \in Tabs : sale[t].at = "rows" <=> tenantLock = t
      BY <1>1 DEF IInv, LocksAreNested
    <2>2. \A t, u \in Tabs :
             WaitsFor(t, u) => tenantLock = u /\ (sale[t].at = "lock" \/ (tenantLock = t /\ t # u))
      <3> SUFFICES ASSUME NEW t \in Tabs, NEW u \in Tabs, WaitsFor(t, u)
                   PROVE  tenantLock = u /\ (sale[t].at = "lock" \/ (tenantLock = t /\ t # u))
        OBVIOUS
      <3>1. CASE Blocked(t) /\ \E i \in Wants(t) : rowLock[i] = u /\ u # t
        <4>1. sale[t].at = "rows"
          BY <3>1 DEF Blocked, Wants
        <4>2. PICK i \in Wants(t) : rowLock[i] = u /\ u # t
          BY <3>1
        <4>3. PICK n \in sale[t].todo : n.item = i
          BY <4>1, <4>2 DEF Wants
        <4>4. i \in Items
          BY <1>1, <4>3 DEF RealItems, SalesAreReal
        <4>5. tenantLock = u
          BY <1>1, <4>2, <4>4 DEF IInv, LocksAreNested
        <4> QED
          BY <2>1, <4>1, <4>2, <4>5
      <3>2. CASE sale[t].at = "lock" /\ tenantLock = u
        BY <3>2
      <3> QED
        BY <3>1, <3>2 DEF WaitsFor
    <2> QED
      BY <2>1, <2>2
  <1> QED
    BY <1>1, CheckoutInvariant, ItemsAreReal, PTL
=============================================================================
