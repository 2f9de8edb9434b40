--------------------------- MODULE CartUnitsProofs ---------------------------
(****************************************************************************)
(* Proofs about CartCheckout for every set of tabs, browsers and merchants: *)
(* what units do on their way from the stock into carts and orders.         *)
(* A sum over the lines of a cart, or over the held orders, is first made a *)
(* sum over all of them, of which one term changes at a step.               *)
(****************************************************************************)
EXTENDS CartCheckoutProofs

-----------------------------------------------------------------------------
(* The carts.                                                               *)

EditRow == [at : {"idle", "find", "write"}, key : CartIds \cup {NoCart},
            cart : CartIds \cup {NoCart}, item : Items \cup {NoItem},
            line : LineIds \cup {0}, base : Nat]

Rows == [LineIds -> Line \cup {NoLine}]

CartTypes ==
    /\ jar \in [Browsers -> CartIds \cup {NoCart}]
    /\ carts \subseteq used /\ used \subseteq CartIds
    /\ line \in Rows
    /\ edit \in [Tabs \X Slots -> EditRow]

\* The cart has been changed by this tab or by nobody.
OnlyBy(c, t) == editors[c] \subseteq {t}

\* What an addItem has read is still so, unless another tab was there too.
EditInFlight(q) ==
    LET e == edit[q]
    IN  /\ e.at # "idle" => e.item \in Items
        /\ e.at = "write" =>
              /\ e.cart \in CartIds
              /\ e.line = 0 => e.base = 0
              /\ e.line # 0 /\ line[e.line].cart = e.cart /\ OnlyBy(e.cart, q[1])
                 => line[e.line].item = e.item /\ line[e.line].qty = e.base

\* A tab's queue has one request out, in one slot or the other.
OneAtATime == \A t \in Tabs : \E n \in Slots : \A k \in Slots \ {n} : edit[<<t, k>>] = Idle

\* Of the carts there are and of those still to come.
AddsAreKept ==
    /\ asked = [c \in CartIds |-> asked[c]]
    /\ editors = [c \in CartIds |-> editors[c]]
    /\ \A c \in CartIds : IsFiniteSet(editors[c])
    /\ \A c \in carts \cup (CartIds \ used) :
          Cardinality(editors[c]) <= 1 => InCart(line, c) = asked[c]

CartInv == CartTypes /\ (\A q \in Tabs \X Slots : EditInFlight(q)) /\ OneAtATime /\ AddsAreKept

-----------------------------------------------------------------------------
(* What a cart holds, as a sum over all lines.                              *)

OfLine(row, c, i) == IF row.cart = c /\ row.item = i THEN row.qty ELSE 0

LineUnits(rows, c, i) == [l \in LineIds |-> OfLine(rows[l], c, i)]

LEMMA LinesAreFinite == IsFiniteSet(LineIds)
  BY FS_Interval, CartAssumption DEF LineIds

LEMMA LinesCount ==
    ASSUME NEW rows \in Rows, NEW c, NEW i
    PROVE  \A l \in LineIds : LineUnits(rows, c, i)[l] \in Nat /\ rows[l].qty \in Nat
  BY DEF LineUnits, OfLine, Rows, Line, NoLine

LEMMA CartSum ==
    ASSUME NEW rows \in Rows, NEW c, NEW i \in Items
    PROVE  InCart(rows, c)[i] = SumFunctionOnSet(LineUnits(rows, c, i), LineIds)
  <1> DEFINE f == [l \in LineIds |-> rows[l].qty]
             T == {l \in LinesOf(rows, c) : rows[l].item = i}
             g == [l \in LineIds |-> IF l \in T THEN f[l] ELSE 0]
  <1>1. InCart(rows, c)[i] = SumFunctionOnSet(f, T)
    BY DEF InCart, Units
  <1>2. T \in SUBSET LineIds /\ \A l \in LineIds : f[l] \in Int
    BY LinesCount DEF LinesOf
  <1>3. SumFunctionOnSet(f, T) = SumFunctionOnSet(g, LineIds)
    <2> HIDE DEF f, T
    <2> QED
      BY <1>2, LinesAreFinite, SumPart
  <1>4. g = LineUnits(rows, c, i)
    BY DEF LineUnits, OfLine, LinesOf
  <1> HIDE DEF f, T, g
  <1> QED
    BY <1>1, <1>3, <1>4

\* One line changes.
LEMMA CartAfter ==
    ASSUME NEW rows \in Rows, NEW after \in Rows, NEW l \in LineIds,
           \A k \in LineIds : k # l => after[k] = rows[k],
           NEW c, NEW i \in Items
    PROVE  InCart(after, c)[i] = InCart(rows, c)[i] - OfLine(rows[l], c, i) + OfLine(after[l], c, i)
  <1> DEFINE f == LineUnits(rows, c, i)
             g == LineUnits(after, c, i)
  <1>2. \A k \in LineIds : f[k] \in Int /\ g[k] \in Int
    BY LinesCount
  <1>3. f[l] = OfLine(rows[l], c, i) /\ g[l] = OfLine(after[l], c, i)
        /\ \A k \in LineIds : k # l => g[k] = f[k]
    BY DEF LineUnits
  <1>4. InCart(after, c)[i] = SumFunctionOnSet(g, LineIds)
        /\ InCart(rows, c)[i] = SumFunctionOnSet(f, LineIds)
    BY CartSum
  <1> HIDE DEF f, g
  <1>5. SumFunctionOnSet(g, LineIds) = SumFunctionOnSet(f, LineIds) - f[l] + g[l]
    BY <1>2, <1>3, LinesAreFinite, SumChange
  <1> QED
    BY <1>3, <1>4, <1>5

LEMMA CartHoldsInt ==
    ASSUME NEW rows \in Rows, NEW c, NEW i \in Items
    PROVE  InCart(rows, c)[i] \in Int
  <1>1. \A l \in LineIds : LineUnits(rows, c, i)[l] \in Int
    BY LinesCount
  <1> QED
    BY <1>1, CartSum, LinesAreFinite, SumInt

\* Lines of other carts make no difference.
LEMMA CartSame ==
    ASSUME NEW rows \in Rows, NEW after \in Rows, NEW c,
           \A l \in LineIds : after[l] = rows[l] \/ (rows[l].cart # c /\ after[l].cart # c)
    PROVE  InCart(after, c) = InCart(rows, c)
  <1> SUFFICES ASSUME NEW i \in Items PROVE InCart(after, c)[i] = InCart(rows, c)[i]
    BY DEF InCart
  <1>1. LineUnits(after, c, i) = LineUnits(rows, c, i)
    BY DEF LineUnits, OfLine
  <1> QED
    BY <1>1, CartSum

-----------------------------------------------------------------------------
(* The steps of the carts.                                                  *)

LEMMA EditShape ==
    ASSUME CartTypes, NEW q \in Tabs \X Slots
    PROVE  /\ edit[q] \in EditRow /\ edit = [p \in Tabs \X Slots |-> edit[p]]
           /\ NoCart \notin CartIds /\ 0 \notin LineIds
  BY DEF CartTypes, NoCart, CartIds, LineIds

LEMMA CartsRest ==
    ASSUME CartInv, UNCHANGED <<carts, used, line, asked, editors, edit>>,
           jar' \in [Browsers -> CartIds \cup {NoCart}]
    PROVE  CartInv'
  <1>1. CartTypes'
    BY DEF CartInv, CartTypes, EditRow, Rows
  <1>2. (\A q \in Tabs \X Slots : EditInFlight(q))'
    BY DEF CartInv, EditInFlight, OnlyBy
  <1>3. OneAtATime'
    BY DEF CartInv, OneAtATime
  <1>4. AddsAreKept'
    BY DEF CartInv, AddsAreKept
  <1> QED
    BY <1>1, <1>2, <1>3, <1>4 DEF CartInv

LEMMA AddStarts ==
    ASSUME CartInv, NEW t \in Tabs, NEW i \in Items, AddStart(t, i)
    PROVE  CartInv'
  <1> DEFINE key == Guarded(BrowserOf[t])
             q == CHOOSE q \in Slot(t) : TRUE
             row == [Idle EXCEPT !.at = "find", !.item = i, !.key = key]
  <1>1. /\ QueueFree(t) /\ Slot(t) # {} /\ edit' = [edit EXCEPT ![q] = row]
        /\ UNCHANGED <<jar, carts, used, line, asked, editors>>
    BY DEF AddStart, cartVars
  <1>2. q \in Slot(t)
    BY <1>1
  <1>3. key \in CartIds \cup {NoCart}
    BY CartAssumption DEF CartInv, CartTypes, Guarded
  <1> HIDE DEF key, q
  <1>4. row \in EditRow /\ row.at = "find" /\ row.item = i
    BY <1>3 DEF EditRow, Idle
  <1> HIDE DEF row
  <1>5. PICK n \in Slots : q = <<t, n>>
    BY <1>2 DEF Slot
  <1>6. /\ q \in Tabs \X Slots /\ edit'[q] = row
        /\ \A p \in Tabs \X Slots : p # q => edit'[p] = edit[p]
        /\ edit' \in [Tabs \X Slots -> EditRow]
    BY <1>1, <1>4, <1>5 DEF CartInv, CartTypes
  <1>7. CartTypes'
    BY <1>1, <1>6 DEF CartInv, CartTypes, EditRow, Rows
  <1>8. ASSUME NEW p \in Tabs \X Slots
        PROVE  EditInFlight(p)'
    BY <1>1, <1>4, <1>6 DEF CartInv, EditInFlight, OnlyBy
  <1>9. OneAtATime'
    <2> SUFFICES ASSUME NEW u \in Tabs
                 PROVE  \E m \in Slots : \A k \in Slots \ {m} : edit'[<<u, k>>] = Idle
      BY DEF OneAtATime, Idle
    <2>1. CASE u = t
      BY <1>1, <1>5, <1>6, <2>1 DEF QueueFree
    <2>2. CASE u # t
      BY <1>5, <1>6, <2>2 DEF CartInv, OneAtATime
    <2> QED
      BY <2>1, <2>2
  <1>10. AddsAreKept'
    BY <1>1 DEF CartInv, AddsAreKept
  <1> QED
    BY <1>7, <1>8, <1>9, <1>10 DEF CartInv

LEMMA AddFinds ==
    ASSUME CartInv, NEW q \in Tabs \X Slots, AddFind(q)
    PROVE  CartInv'
  <1> DEFINE e == edit[q]
  <1>0. /\ e \in EditRow /\ edit = [p \in Tabs \X Slots |-> edit[p]]
        /\ NoCart \notin CartIds /\ 0 \notin LineIds /\ e.at = "find" /\ e.item \in Items
    BY EditShape DEF CartInv, EditInFlight, AddFind
  <1>1. PICK c \in IF edit[q].key \in carts THEN {edit[q].key} ELSE CartIds \ used :
           LET found == {l \in LinesOf(line, c) : line[l].item = edit[q].item}
           IN  /\ carts' = carts \cup {c}
               /\ used' = used \cup {c}
               /\ \E l \in IF found = {} THEN {0} ELSE found :
                     edit' = [edit EXCEPT ![q].at = "write", ![q].cart = c, ![q].line = l,
                                          ![q].base = IF l = 0 THEN 0 ELSE line[l].qty]
    BY DEF AddFind
  <1>2. UNCHANGED <<jar, line, asked, editors>>
    BY DEF AddFind
  <1>3. c \in CartIds /\ (c \in carts \/ c \notin used)
    BY <1>1 DEF CartInv, CartTypes
  <1>4. PICK l : /\ l = 0 \/ (l \in LineIds /\ line[l].cart = c /\ line[l].item = e.item)
                 /\ edit' = [edit EXCEPT ![q].at = "write", ![q].cart = c, ![q].line = l,
                                         ![q].base = IF l = 0 THEN 0 ELSE line[l].qty]
    BY <1>1 DEF LinesOf
  <1> DEFINE base == IF l = 0 THEN 0 ELSE line[l].qty
             row == [e EXCEPT !.at = "write", !.cart = c, !.line = l, !.base = base]
  <1>5. base \in Nat /\ edit' = [edit EXCEPT ![q] = row]
    BY <1>4, LinesCount DEF CartInv, CartTypes
  <1>6. l \in LineIds \cup {0} /\ (l = 0 => base = 0) /\ (l # 0 => base = line[l].qty)
    BY <1>4
  <1> HIDE DEF base
  <1>7. /\ row \in EditRow /\ row.at = "write" /\ row.cart = c /\ row.line = l /\ row.base = base
        /\ row.item = e.item
    BY <1>0, <1>3, <1>5, <1>6 DEF EditRow
  <1> HIDE DEF row
  <1>8. /\ edit'[q] = row
        /\ \A p \in Tabs \X Slots : p # q => edit'[p] = edit[p]
        /\ edit' \in [Tabs \X Slots -> EditRow]
    BY <1>5, <1>7 DEF CartInv, CartTypes
  <1>9. CartTypes'
    BY <1>1, <1>2, <1>3, <1>8 DEF CartInv, CartTypes, EditRow, Rows
  <1>10. ASSUME NEW p \in Tabs \X Slots
         PROVE  EditInFlight(p)'
    <2>1. CASE p = q
      BY <1>0, <1>2, <1>3, <1>4, <1>6, <1>7, <1>8, <2>1 DEF EditInFlight
    <2>2. CASE p # q
      BY <1>2, <1>8, <2>2 DEF CartInv, EditInFlight, OnlyBy
    <2> QED
      BY <2>1, <2>2
  <1>11. OneAtATime'
    <2> SUFFICES ASSUME NEW u \in Tabs
                 PROVE  \E m \in Slots : \A k \in Slots \ {m} : edit'[<<u, k>>] = Idle
      BY DEF OneAtATime, Idle
    <2>1. PICK m \in Slots : \A k \in Slots \ {m} : edit[<<u, k>>] = Idle
      BY DEF CartInv, OneAtATime
    <2>2. ASSUME NEW k \in Slots \ {m} PROVE edit'[<<u, k>>] = Idle
      <3>1. edit[<<u, k>>] = Idle /\ Idle.at = "idle"
        BY <2>1 DEF Idle
      <3>2. <<u, k>> # q
        BY <1>0, <3>1
      <3> QED
        BY <1>8, <3>1, <3>2
    <2> QED
      BY <2>2
  <1>12. AddsAreKept'
    <2>1. carts' \cup (CartIds \ used') \subseteq carts \cup (CartIds \ used)
      BY <1>1, <1>3
    <2> QED
      BY <1>2, <2>1 DEF CartInv, AddsAreKept
  <1> QED
    BY <1>9, <1>10, <1>11, <1>12 DEF CartInv

LEMMA AtMostOne ==
    ASSUME NEW S, IsFiniteSet(S), NEW x \in S, Cardinality(S) <= 1
    PROVE  S = {x}
  <1>1. Cardinality(S) \in Nat /\ Cardinality(S) # 0
    BY FS_CardinalityType, FS_EmptySet
  <1>2. Cardinality(S) = 1
    BY <1>1
  <1> QED
    BY <1>2, FS_Singleton

\* A tab writes a line of cart c, of which nobody else's addItem still knows.
WritesLine(t, c, i, l, row, d, v) ==
    /\ line' = [line EXCEPT ![l] = row]
    /\ asked' = [asked EXCEPT ![c][i] = v] /\ (asked[c][i] \in Int => v = asked[c][i] + d)
    /\ editors' = [editors EXCEPT ![c] = @ \cup {t}]
    /\ UNCHANGED <<carts, used>>
    /\ line[l].cart \in {c, NoCart} /\ row.cart \in {c, NoCart}
    /\ OnlyBy(c, t) => \A j \in Items :
          OfLine(row, c, j) = OfLine(line[l], c, j) + IF j = i THEN d ELSE 0
    /\ \A p \in Tabs \X Slots :
          edit'[p] = Idle \/ (edit'[p] = edit[p] /\ (p[1] = t => edit[p] = Idle))

LEMMA LineWritten ==
    ASSUME CartInv, NEW t \in Tabs, NEW c \in CartIds, NEW i \in Items, NEW l \in LineIds,
           NEW row \in Line \cup {NoLine}, NEW d \in Int, NEW v,
           WritesLine(t, c, i, l, row, d, v)
    PROVE  AddsAreKept' /\ (\A p \in Tabs \X Slots : EditInFlight(p)') /\ line' \in Rows
  <1> USE DEF WritesLine
  <1>0. NoCart \notin CartIds /\ line \in Rows /\ carts \subseteq CartIds
    BY DEF CartInv, CartTypes, CartIds, NoCart
  <1>1. /\ line' \in Rows /\ line'[l] = row
        /\ \A k \in LineIds : k # l => line'[k] = line[k]
    BY <1>0 DEF Rows
  <1>2. /\ editors = [b \in CartIds |-> editors[b]] /\ asked = [b \in CartIds |-> asked[b]]
        /\ \A b \in CartIds : IsFiniteSet(editors[b])
        /\ \A b \in carts \cup (CartIds \ used) :
              Cardinality(editors[b]) <= 1 => InCart(line, b) = asked[b]
    BY DEF CartInv, AddsAreKept
  <1>3. /\ editors'[c] = editors[c] \cup {t}
        /\ \A b \in CartIds : b # c => editors'[b] = editors[b] /\ asked'[b] = asked[b]
        /\ asked'[c] = [asked[c] EXCEPT ![i] = v]
    BY <1>2
  <1>4. ASSUME NEW b \in carts \cup (CartIds \ used), Cardinality(editors'[b]) <= 1
        PROVE  InCart(line', b) = asked'[b]
    <2>0. b \in CartIds
      BY <1>0
    <2>1. CASE b # c
      <3>1. InCart(line, b) = asked[b] /\ asked'[b] = asked[b]
        BY <1>2, <1>3, <1>4, <2>0, <2>1
      <3>2. \A k \in LineIds : line'[k] = line[k] \/ (line[k].cart # b /\ line'[k].cart # b)
        BY <1>0, <1>1, <2>0, <2>1
      <3>3. InCart(line', b) = InCart(line, b)
        BY <1>0, <1>1, <3>2, CartSame
      <3> QED
        BY <3>1, <3>3
    <2>2. CASE b = c
      <3>1. editors[c] \subseteq {t} /\ Cardinality(editors[c]) <= 1
        <4> DEFINE S == editors[c]
        <4>1. IsFiniteSet(S) /\ Cardinality(S \cup {t}) <= 1
          BY <1>2, <1>3, <1>4, <2>2
        <4> HIDE DEF S
        <4>2. IsFiniteSet(S \cup {t}) /\ S \subseteq S \cup {t} /\ t \in S \cup {t}
          BY <4>1, FS_AddElement
        <4>3. S \cup {t} = {t}
          BY <4>1, <4>2, AtMostOne
        <4>4. Cardinality(S) <= Cardinality(S \cup {t}) /\ Cardinality(S) \in Nat
              /\ Cardinality(S \cup {t}) \in Nat
          BY <4>1, <4>2, FS_Subset, FS_CardinalityType
        <4>5. S \subseteq {t} /\ Cardinality(S) <= 1
          BY <4>1, <4>3, <4>4
        <4> QED
          BY <4>5 DEF S
      <3>2. OnlyBy(c, t)
        BY <3>1 DEF OnlyBy
      <3>3. InCart(line, c) = asked[c]
        BY <1>2, <2>2, <3>1
      <3>4. v = InCart(line, c)[i] + d
        BY <1>0, <3>3, CartHoldsInt
      <3>5. ASSUME NEW j \in Items PROVE InCart(line', c)[j] = asked'[c][j]
        <4>0. InCart(line', c)[j] = InCart(line, c)[j] - OfLine(line[l], c, j) + OfLine(row, c, j)
          <5> DEFINE after == line'
          <5>1. after \in Rows /\ after[l] = row /\ \A k \in LineIds : k # l => after[k] = line[k]
            BY <1>1
          <5> HIDE DEF after
          <5>2. InCart(after, c)[j] = InCart(line, c)[j] - OfLine(line[l], c, j)
                                      + OfLine(after[l], c, j)
            BY <1>0, <5>1, CartAfter
          <5> QED
            BY <5>1, <5>2 DEF after
        <4> DEFINE old == InCart(line, c)[j]
                   a == OfLine(line[l], c, j)
                   z == OfLine(row, c, j)
        <4>1. InCart(line', c)[j] = old - a + z
          BY <4>0
        <4>2. z = a + IF j = i THEN d ELSE 0
          BY <3>2
        <4>3. old \in Int /\ a \in Int
          <5>1. LineUnits(line, c, j)[l] = a
            BY DEF LineUnits
          <5> QED
            BY <1>0, <5>1, LinesCount, CartHoldsInt
        <4>4. asked'[c][j] = IF j = i THEN InCart(line, c)[i] + d ELSE old
          <5>1. asked[c] = [k \in Items |-> asked[c][k]]
            BY <3>3 DEF InCart
          <5> QED
            BY <1>3, <3>3, <3>4, <5>1
        <4> HIDE DEF a, z
        <4>5. CASE j = i
          BY <4>1, <4>2, <4>3, <4>4, <4>5
        <4>6. CASE j # i
          BY <4>1, <4>2, <4>3, <4>4, <4>6
        <4> QED
          BY <4>5, <4>6
      <3>6. asked'[c] = [j \in Items |-> asked'[c][j]]
        BY <1>3, <3>3 DEF InCart
      <3>7. InCart(line', c) = [j \in Items |-> InCart(line', c)[j]]
        BY DEF InCart
      <3> QED
        BY <2>2, <3>5, <3>6, <3>7
    <2> QED
      BY <2>1, <2>2
  <1>5. AddsAreKept'
    <2>1. \A b \in CartIds : IsFiniteSet(editors'[b])
      BY <1>2, <1>3, FS_AddElement
    <2>2. /\ asked' = [b \in CartIds |-> asked'[b]]
          /\ editors' = [b \in CartIds |-> editors'[b]]
      BY <1>2
    <2>3. carts' = carts /\ used' = used
      OBVIOUS
    <2> QED
      BY <1>4, <2>1, <2>2, <2>3 DEF AddsAreKept
  <1>6. ASSUME NEW p \in Tabs \X Slots
        PROVE  EditInFlight(p)'
    <2>1. CASE edit'[p] = Idle
      BY <2>1 DEF EditInFlight, Idle
    <2>2. CASE edit'[p] = edit[p] /\ p[1] # t
      <3> DEFINE e == edit[p]
      <3>1. /\ e.at # "idle" => e.item \in Items
            /\ e.at = "write" =>
                  /\ e.cart \in CartIds
                  /\ e.line = 0 => e.base = 0
                  /\ e.line # 0 /\ line[e.line].cart = e.cart /\ OnlyBy(e.cart, p[1])
                     => line[e.line].item = e.item /\ line[e.line].qty = e.base
        BY DEF CartInv, EditInFlight
      <3>2. ASSUME e.at = "write", e.line # 0, line'[e.line].cart = e.cart,
                   editors'[e.cart] \subseteq {p[1]}
            PROVE  line'[e.line].item = e.item /\ line'[e.line].qty = e.base
        <4>1. e.cart \in CartIds /\ e.cart # NoCart /\ e.line \in LineIds
          BY <1>0, <3>1, <3>2, EditShape DEF CartInv, EditRow
        <4>2. e.line # l
          BY <1>1, <1>3, <2>2, <3>2, <4>1
        <4>3. line'[e.line] = line[e.line]
          BY <1>1, <4>1, <4>2
        <4>4. OnlyBy(e.cart, p[1])
          BY <1>3, <3>2, <4>1 DEF OnlyBy
        <4> QED
          BY <3>1, <3>2, <4>3, <4>4
      <3> QED
        BY <2>2, <3>1, <3>2 DEF EditInFlight, OnlyBy
    <2> QED
      BY <2>1, <2>2
  <1> QED
    BY <1>1, <1>5, <1>6

LEMMA AddWrites ==
    ASSUME CartInv, NEW q \in Tabs \X Slots, AddWrite(q)
    PROVE  CartInv'
  <1> DEFINE e == edit[q]
             t == q[1]
             rows == IF e.line = 0
                     THEN {l \in LineIds : line[l] = NoLine /\ e.cart \in carts}
                     ELSE {l \in {e.line} : line[l].cart = e.cart}
             row == [cart |-> e.cart, item |-> e.item, qty |-> Increased(e.base)]
  <1>1. /\ e.at = "write" /\ e \in EditRow /\ e.item \in Items /\ e.cart \in CartIds
        /\ t \in Tabs /\ NoCart \notin CartIds /\ 0 \notin LineIds
        /\ e.line = 0 => e.base = 0
        /\ e.line # 0 /\ line[e.line].cart = e.cart /\ OnlyBy(e.cart, t)
           => line[e.line].item = e.item /\ line[e.line].qty = e.base
    BY EditShape DEF CartInv, EditInFlight, AddWrite
  <1>2. edit' = [edit EXCEPT ![q] = Idle] /\ UNCHANGED <<carts, used>>
    BY DEF AddWrite
  <1>3. edit' \in [Tabs \X Slots -> EditRow]
    BY <1>2 DEF CartInv, CartTypes, EditRow, Idle
  <1>4. /\ edit'[q] = Idle /\ \A p \in Tabs \X Slots : p # q => edit'[p] = edit[p]
        /\ \A p \in Tabs \X Slots : p # q /\ p[1] = t => edit[p] = Idle
    <2>1. edit'[q] = Idle /\ \A p \in Tabs \X Slots : p # q => edit'[p] = edit[p]
      BY <1>2 DEF CartInv, CartTypes
    <2>2. ASSUME NEW p \in Tabs \X Slots, p # q, p[1] = t
          PROVE  edit[p] = Idle
      <3>1. PICK n \in Slots : \A k \in Slots \ {n} : edit[<<t, k>>] = Idle
        BY <1>1 DEF CartInv, OneAtATime
      <3>2. q = <<t, q[2]>> /\ p = <<t, p[2]>> /\ q[2] \in Slots /\ p[2] \in Slots
        BY <2>2
      <3>3. q[2] = n
        <4>1. edit[q] # Idle
          BY <1>1 DEF Idle
        <4> QED
          BY <3>1, <3>2, <4>1
      <3> QED
        BY <2>2, <3>1, <3>2, <3>3
    <2> QED
      BY <2>1, <2>2
  <1>5. OneAtATime'
    <2> SUFFICES ASSUME NEW u \in Tabs
                 PROVE  \E m \in Slots : \A k \in Slots \ {m} : edit'[<<u, k>>] = Idle
      BY DEF OneAtATime, Idle
    <2>1. PICK m \in Slots : \A k \in Slots \ {m} : edit[<<u, k>>] = Idle
      BY DEF CartInv, OneAtATime
    <2>2. ASSUME NEW k \in Slots \ {m} PROVE edit'[<<u, k>>] = Idle
      BY <1>4, <2>1
    <2> QED
      BY <2>2
  <1>6. CASE rows = {}
    <2>1. UNCHANGED <<jar, line, asked, editors>>
      BY <1>6 DEF AddWrite
    <2>2. ASSUME NEW p \in Tabs \X Slots PROVE EditInFlight(p)'
      BY <1>4, <2>1 DEF CartInv, EditInFlight, OnlyBy, Idle
    <2>3. CartTypes'
      BY <1>2, <1>3, <2>1 DEF CartInv, CartTypes, EditRow, Rows
    <2>4. AddsAreKept'
      BY <1>2, <2>1 DEF CartInv, AddsAreKept
    <2> QED
      BY <1>5, <2>2, <2>3, <2>4 DEF CartInv
  <1>7. CASE rows # {}
    <2> DEFINE l == CHOOSE l \in rows : TRUE
    <2>1. /\ line' = [line EXCEPT ![l] = row]
          /\ asked' = [asked EXCEPT ![e.cart][e.item] = @ + 1]
          /\ editors' = [editors EXCEPT ![e.cart] = @ \cup {t}]
          /\ jar' = IF e.key = NoCart THEN [jar EXCEPT ![BrowserOf[t]] = e.cart] ELSE jar
      BY <1>7 DEF AddWrite
    <2>2. l \in rows
      BY <1>7
    <2>3. l \in LineIds /\ ((e.line = 0 /\ line[l] = NoLine) \/ (e.line = l /\ line[l].cart = e.cart))
      BY <1>1, <2>2 DEF EditRow
    <2> HIDE DEF l, rows
    <2>4. /\ row \in Line \cup {NoLine} /\ row.cart = e.cart /\ row.item = e.item
          /\ row.qty = e.base + 1 /\ e.base \in Nat
      BY <1>1 DEF EditRow, Line, Increased
    <2> HIDE DEF row
    <2>5. line[l].cart \in {e.cart, NoCart} /\ row.cart \in {e.cart, NoCart}
      BY <2>3, <2>4 DEF NoLine
    <2>6. ASSUME OnlyBy(e.cart, t), NEW j \in Items
          PROVE  OfLine(row, e.cart, j) = OfLine(line[l], e.cart, j) + IF j = e.item THEN 1 ELSE 0
      <3>1. CASE e.line = 0 /\ line[l] = NoLine
        BY <1>1, <2>4, <3>1 DEF OfLine, NoLine
      <3>2. CASE e.line = l /\ line[l].cart = e.cart
        <4>1. line[l].item = e.item /\ line[l].qty = e.base
          BY <1>1, <2>3, <2>6, <3>2
        <4> QED
          BY <2>4, <3>2, <4>1 DEF OfLine
      <3> QED
        BY <2>3, <3>1, <3>2
    <2>7. \A p \in Tabs \X Slots :
             edit'[p] = Idle \/ (edit'[p] = edit[p] /\ (p[1] = t => edit[p] = Idle))
      BY <1>4
    <2>8. /\ line' \in Rows /\ AddsAreKept' /\ (\A p \in Tabs \X Slots : EditInFlight(p)')
      <3> DEFINE c == e.cart
                 i == e.item
                 one == 1
                 v == asked[c][i] + one
      <3>1. c \in CartIds /\ i \in Items /\ asked' = [asked EXCEPT ![c][i] = v]
            /\ editors' = [editors EXCEPT ![c] = @ \cup {t}]
            /\ line[l].cart \in {c, NoCart} /\ row.cart \in {c, NoCart}
            /\ (asked[c][i] \in Int => v = asked[c][i] + one) /\ one \in Int
        BY <1>1, <2>1, <2>5
      <3>2. OnlyBy(c, t) => \A j \in Items :
               OfLine(row, c, j) = OfLine(line[l], c, j) + IF j = i THEN one ELSE 0
        BY <2>6
      <3>3. t \in Tabs
        BY <1>1
      <3>4. WritesLine(t, c, i, l, row, one, v)
        <4> HIDE DEF c, i, v, t, one
        <4> QED
          BY <1>2, <2>1, <2>7, <3>1, <3>2 DEF WritesLine
      <3> HIDE DEF c, i, v, t, one
      <3> QED
        BY <2>3, <2>4, <3>1, <3>3, <3>4, LineWritten
    <2>9. jar' \in [Browsers -> CartIds \cup {NoCart}]
      BY <1>1, <2>1, CartAssumption DEF CartInv, CartTypes
    <2>10. CartTypes'
      BY <1>2, <1>3, <2>8, <2>9 DEF CartInv, CartTypes, EditRow, Rows
    <2> QED
      BY <1>5, <2>8, <2>10 DEF CartInv
  <1> QED
    BY <1>6, <1>7

LEMMA LineChanges ==
    ASSUME CartInv, NEW t \in Tabs, NEW l \in LineIds, UpdateItem(t, l) \/ RemoveItem(t, l)
    PROVE  CartInv'
  <1> DEFINE c == line[l].cart
             i == line[l].item
             was == line[l].qty
  <1>1. PICK row \in {[line[l] EXCEPT !.qty = 1], NoLine} : ChangeLine(t, l, row)
    BY DEF UpdateItem, RemoveItem
  <1>2. /\ QueueFree(t) /\ jar[BrowserOf[t]] \in carts /\ c = jar[BrowserOf[t]]
        /\ line' = [line EXCEPT ![l] = row]
        /\ asked' = [asked EXCEPT ![c][i] = @ - was + row.qty]
        /\ editors' = [editors EXCEPT ![c] = @ \cup {t}]
        /\ UNCHANGED <<jar, carts, used, edit>>
    BY <1>1 DEF ChangeLine, LinesOf
  <1>3. c \in CartIds /\ NoCart \notin CartIds /\ line \in Rows
    BY <1>2 DEF CartInv, CartTypes, CartIds, NoCart
  <1>4. line[l] \in Line /\ i \in Items /\ was \in Nat
    BY <1>3 DEF Rows, Line, NoLine
  <1>5. /\ row \in Line \cup {NoLine} /\ row.cart \in {c, NoCart} /\ row.qty \in Nat
        /\ (row.cart = c /\ row.item = i) \/ (row.cart = NoCart /\ row.qty = 0)
    BY <1>1, <1>4 DEF Line, NoLine
  <1> HIDE DEF c, i, was
  <1> DEFINE d == row.qty - was
             v == asked[c][i] - was + row.qty
  <1>6. d \in Int /\ (asked[c][i] \in Int => v = asked[c][i] + d)
    BY <1>4, <1>5
  <1>7. ASSUME NEW j \in Items
        PROVE  OfLine(row, c, j) = OfLine(line[l], c, j) + IF j = i THEN d ELSE 0
    <2>1. OfLine(line[l], c, j) = IF j = i THEN was ELSE 0
      BY DEF OfLine, c, i, was
    <2>2. OfLine(row, c, j) = IF j = i THEN row.qty ELSE 0
      BY <1>3, <1>5 DEF OfLine
    <2> QED
      BY <1>4, <1>5, <2>1, <2>2
  <1>8. \A p \in Tabs \X Slots :
           edit'[p] = Idle \/ (edit'[p] = edit[p] /\ (p[1] = t => edit[p] = Idle))
    <2>1. ASSUME NEW p \in Tabs \X Slots, p[1] = t PROVE edit[p] = Idle
      <3>1. p = <<t, p[2]>> /\ p[2] \in Slots
        BY <2>1
      <3> QED
        BY <1>2, <3>1 DEF QueueFree
    <2> QED
      BY <1>2, <2>1
  <1>9. asked' = [asked EXCEPT ![c][i] = v]
    BY <1>2
  <1>10. line[l].cart \in {c, NoCart}
    BY DEF c
  <1> HIDE DEF d, v
  <1>11. /\ line' \in Rows /\ AddsAreKept' /\ (\A p \in Tabs \X Slots : EditInFlight(p)')
    <2>1. WritesLine(t, c, i, l, row, d, v)
      BY <1>2, <1>5, <1>6, <1>7, <1>8, <1>9, <1>10 DEF WritesLine
    <2> QED
      BY <1>3, <1>4, <1>5, <1>6, <2>1, LineWritten
  <1>12. OneAtATime'
    BY <1>2 DEF CartInv, OneAtATime
  <1>13. CartTypes'
    BY <1>2, <1>11 DEF CartInv, CartTypes, EditRow, Rows
  <1> QED
    BY <1>11, <1>12, <1>13 DEF CartInv

\* The cart that is ordered goes with its lines; the others keep theirs.
LEMMA CartSold ==
    ASSUME CartInv, NEW k \in carts,
           carts' = carts \ {k},
           line' = [l \in LineIds |-> IF line[l].cart = k THEN NoLine ELSE line[l]],
           UNCHANGED <<jar, used, asked, editors, edit>>
    PROVE  CartInv'
  <1>1. /\ line \in Rows /\ line' \in Rows /\ k \in used /\ used \subseteq CartIds
        /\ carts \subseteq used /\ NoCart \notin CartIds
    BY DEF CartInv, CartTypes, Rows, CartIds, NoCart
  <1>2. CartTypes'
    BY <1>1 DEF CartInv, CartTypes, EditRow, Rows
  <1>3. ASSUME NEW q \in Tabs \X Slots
        PROVE  EditInFlight(q)'
    <2>1. ASSUME edit[q].at = "write", edit[q].line # 0, line'[edit[q].line].cart = edit[q].cart
          PROVE  line'[edit[q].line] = line[edit[q].line]
      <3>1. edit[q].line \in LineIds /\ edit[q].cart \in CartIds
        BY <2>1, EditShape DEF CartInv, EditInFlight, EditRow
      <3> QED
        BY <1>1, <2>1, <3>1 DEF NoLine
    <2> QED
      BY <2>1 DEF CartInv, EditInFlight, OnlyBy
  <1>4. OneAtATime'
    BY DEF CartInv, OneAtATime
  <1>5. AddsAreKept'
    <2>1. ASSUME NEW c \in carts' \cup (CartIds \ used)
          PROVE  InCart(line', c) = InCart(line, c)
      <3>1. c # k /\ c # NoCart
        BY <1>1, <2>1
      <3>2. \A l \in LineIds : line'[l] = line[l] \/ (line[l].cart # c /\ line'[l].cart # c)
        BY <3>1 DEF NoLine
      <3> QED
        BY <1>1, <3>2, CartSame
    <2>2. carts' \cup (CartIds \ used) \subseteq carts \cup (CartIds \ used)
      OBVIOUS
    <2> QED
      BY <2>1, <2>2 DEF CartInv, AddsAreKept
  <1> QED
    BY <1>2, <1>3, <1>4, <1>5 DEF CartInv

LEMMA InitCartInv == Init => CartInv
  <1> SUFFICES ASSUME Init PROVE CartInv
    OBVIOUS
  <1>0. /\ edit = [q \in Tabs \X Slots |-> Idle] /\ Idle.at = "idle" /\ line = InitialLine
        /\ carts = {InitialLine[l].cart : l \in LineIds} \ {NoCart} /\ used = carts
        /\ asked = [c \in CartIds |-> InCart(InitialLine, c)]
        /\ editors = [c \in CartIds |-> {}]
    BY DEF Init, Idle
  <1>1. CartTypes
    <2>1. line \in Rows
      BY <1>0, CartAssumption DEF Rows
    <2>2. carts \subseteq CartIds
      BY <1>0, <2>1 DEF Rows, Line, NoLine
    <2>3. jar \in [Browsers -> CartIds \cup {NoCart}]
      BY CartAssumption DEF Init
    <2>4. Idle \in EditRow
      BY DEF Idle, EditRow
    <2> QED
      BY <1>0, <2>1, <2>2, <2>3, <2>4 DEF CartTypes
  <1>2. \A q \in Tabs \X Slots : EditInFlight(q)
    BY <1>0 DEF EditInFlight
  <1>3. OneAtATime
    <2>1. \A t \in Tabs, n \in Slots : edit[<<t, n>>] = Idle
      BY <1>0
    <2> QED
      BY <2>1 DEF OneAtATime, Slots
  <1>4. AddsAreKept
    BY <1>0, <1>1, FS_EmptySet DEF AddsAreKept, CartTypes
  <1> QED
    BY <1>1, <1>2, <1>3, <1>4 DEF CartInv

\* What the other steps leave alone.
LEMMA CartsLeftAlone ==
    ASSUME \/ \E t \in Tabs, method \in Methods : Submit(t, method)
           \/ \E t \in Tabs : \/ LoadConfig(t) \/ Begin(t) \/ LockTenant(t) \/ Rollback(t)
                             \/ SessionFails(t) \/ \E n \in sale[t].todo : TakeRow(t, n)
           \/ \E m \in Merchants : ConfirmStep(m) \/ \E o \in DOMAIN orders : ConfirmStart(m, o)
           \/ UNCHANGED vars
    PROVE  UNCHANGED <<jar, carts, used, line, asked, editors, edit>>
  <1> USE DEF cartVars
  <1>1. \A t \in Tabs : Rollback(t) => UNCHANGED <<jar, carts, used, line, asked, editors, edit>>
    BY DEF Rollback
  <1>2. CASE \E t \in Tabs, method \in Methods : Submit(t, method)
    BY <1>2 DEF Submit
  <1>3. ASSUME NEW t \in Tabs,
               LoadConfig(t) \/ Begin(t) \/ LockTenant(t) \/ SessionFails(t)
        PROVE  UNCHANGED <<jar, carts, used, line, asked, editors, edit>>
    BY <1>3 DEF LoadConfig, Begin, LockTenant, SessionFails
  <1>4. ASSUME NEW t \in Tabs, NEW n, TakeRow(t, n)
        PROVE  UNCHANGED <<jar, carts, used, line, asked, editors, edit>>
    BY <1>1, <1>4 DEF TakeRow
  <1>5. ASSUME NEW m \in Merchants, ConfirmStep(m) \/ \E o \in DOMAIN orders : ConfirmStart(m, o)
        PROVE  UNCHANGED <<jar, carts, used, line, asked, editors, edit>>
    <2>1. m \notin Tabs
      BY CartAssumption
    <2> QED
      BY <1>5, <2>1 DEF ConfirmStep, ConfirmStart, ConfirmRow, ConfirmCommit, ConfirmEnd, Victim
  <1>6. CASE UNCHANGED vars
    BY <1>6 DEF vars
  <1> QED
    BY <1>1, <1>2, <1>3, <1>4, <1>5, <1>6

LEMMA NextCartInv == CartInv /\ [Next]_vars => CartInv'
  <1> SUFFICES ASSUME CartInv, [Next]_vars PROVE CartInv'
    OBVIOUS
  <1>0. jar \in [Browsers -> CartIds \cup {NoCart}] /\ carts \subseteq CartIds
    BY DEF CartInv, CartTypes
  <1>1. CASE UNCHANGED <<jar, carts, used, line, asked, editors, edit>>
    BY <1>0, <1>1, CartsRest
  <1>2. ASSUME NEW t \in Tabs, NEW c, Adopt(t, c)
        PROVE  CartInv'
    <2>1. jar' = [jar EXCEPT ![BrowserOf[t]] = c] /\ c \in carts
          /\ UNCHANGED <<carts, used, line, asked, editors, edit>>
      BY <1>2 DEF Adopt
    <2>2. jar' \in [Browsers -> CartIds \cup {NoCart}]
      BY <1>0, <2>1
    <2> QED
      BY <2>1, <2>2, CartsRest
  <1>3. ASSUME NEW t \in Tabs, Answer(t)
        PROVE  CartInv'
    <2>1. jar' = [jar EXCEPT ![BrowserOf[t]] = NoCart]
          /\ UNCHANGED <<carts, used, line, asked, editors, edit>>
      BY <1>3 DEF Answer
    <2>2. jar' \in [Browsers -> CartIds \cup {NoCart}]
      BY <1>0, <2>1
    <2> QED
      BY <2>1, <2>2, CartsRest
  <1>4. ASSUME NEW t \in Tabs, Finish(t)
        PROVE  CartInv'
    <2>1. CASE Rollback(t)
      BY <1>1, <2>1, CartsLeftAlone
    <2>2. CASE ~Rollback(t)
      <3> DEFINE k == sale[t].key
      <3>1. /\ k \in carts /\ carts' = carts \ {k}
            /\ line' = [l \in LineIds |-> IF line[l].cart = k THEN NoLine ELSE line[l]]
            /\ UNCHANGED <<jar, used, asked, editors, edit>>
        BY <1>4, <2>2 DEF Finish, CartDeleted
      <3> HIDE DEF k
      <3> QED
        BY <3>1, CartSold
    <2> QED
      BY <2>1, <2>2
  <1>5. CASE ShopperStep
    <2>1. ASSUME NEW t \in Tabs, NEW method \in Methods, Submit(t, method) PROVE CartInv'
      BY <1>1, <2>1, CartsLeftAlone
    <2> QED
      BY <1>2, <1>5, <2>1, AddStarts, LineChanges DEF ShopperStep
  <1>6. CASE \E q \in Tabs \X Slots : EditStep(q)
    BY <1>6, AddFinds, AddWrites DEF EditStep
  <1>7. ASSUME NEW t \in Tabs, SaleStep(t) \/ SessionFails(t) \/ TimesOut(t)
        PROVE  CartInv'
    <2>1. (Victim(t) \/ TimesOut(t)) => Rollback(t)
      BY DEF Victim, TimesOut
    <2>2. CASE \/ LoadConfig(t) \/ Begin(t) \/ LockTenant(t) \/ Rollback(t)
               \/ SessionFails(t) \/ \E n \in sale[t].todo : TakeRow(t, n)
      BY <1>1, <2>2, CartsLeftAlone
    <2> QED
      BY <1>3, <1>4, <1>7, <2>1, <2>2 DEF SaleStep
  <1>8. CASE \E m \in Merchants : ConfirmStep(m) \/ \E o \in DOMAIN orders : ConfirmStart(m, o)
    BY <1>1, <1>8, CartsLeftAlone
  <1>9. CASE UNCHANGED vars
    BY <1>1, <1>9, CartsLeftAlone
  <1> QED
    BY <1>5, <1>6, <1>7, <1>8, <1>9 DEF Next

LEMMA CartsAreRight == Spec => []CartInv
  <1> QED
    BY InitCartInv, NextCartInv, PTL DEF Spec

\* What one tab was told is in its cart is there, if nobody else changed it
\* (AddsAreKept): its queue never has two mutations out (OneAtATime), so the
\* quantity that addItem has read still stands when it writes (EditInFlight).
THEOREM OneTabsAddsAreKept == Spec => []OneTabKeepsItsAdds
  <1>1. CartInv => OneTabKeepsItsAdds
    BY DEF CartInv, AddsAreKept, OneTabKeepsItsAdds
  <1> QED
    BY <1>1, CartsAreRight, PTL

-----------------------------------------------------------------------------
(* The stock: what a transaction takes it takes from rows it has locked.    *)

SaleRow == [at : {"idle", "config", "begin", "lock", "rows", "answer"},
            key : CartIds \cup {NoCart}, method : Methods, lines : SUBSET Lines,
            todo : SUBSET Lines, took : Amounts, known : BOOLEAN]

Confirmation == [order : Nat, todo : SUBSET Items, took : Amounts]

\* The units of an item on those of a checkout's lines it has updated the row of.
TakenOf(s, i) ==
    SumFunctionOnSet([n \in s.lines |-> n.qty], {n \in s.lines \ s.todo : n.item = i})

\* A taker has the lock of each row it has taken from, and the row is enough.
Locked(a, took, left, locks) ==
    \A i \in Items : took[i] # 0 => locks[i] = a /\ took[i] <= left[i]

SaleIsRight(t, s, left, locks) ==
    /\ s \in SaleRow /\ IsFiniteSet(s.lines)
    /\ s.at \in {"config", "begin", "lock"} => s.took = Nothing
    /\ s.at = "rows" =>
          /\ Locked(t, s.took, left, locks)
          /\ s.method = "online" => /\ s.todo \subseteq s.lines
                                    /\ \A i \in Items : s.took[i] = TakenOf(s, i)
          /\ s.method # "online" => s.todo = {} /\ s.took = Nothing

ConfirmIsRight(m, c, os, left, locks) ==
    /\ c \in Confirmation
    /\ c.order = 0 => c.todo = {} /\ c.took = Nothing
    /\ c.order # 0 => /\ c.order \in DOMAIN os /\ ~os[c.order].held
                      /\ \A i \in Items :
                            c.took[i] = IF i \in c.todo THEN 0 ELSE os[c.order].units[i]
    /\ Locked(m, c.took, left, locks)

\* What an order holds of an item, and the balance of stock and orders.
Holds(os, i) == [n \in DOMAIN os |-> IF os[n].held THEN os[n].units[i] ELSE 0]

Balanced(os, left) ==
    /\ left \in [Items -> Nat]
    /\ \A n \in DOMAIN os : os[n].units \in Amounts /\ os[n].held \in BOOLEAN
    /\ \A i \in Items : left[i] + SumFunctionOnSet(Holds(os, i), DOMAIN os) = InitialStock[i]

Connections ==
    /\ tenantLock \in Tabs \cup {Nobody}
    /\ rowLock \in [Items -> Tabs \cup Merchants \cup {Nobody}]
    /\ pool \subseteq Tabs \cup Merchants /\ IsFiniteSet(pool) /\ Cardinality(pool) <= PoolSize
    /\ \A t \in Tabs : sale[t].at \in {"lock", "rows"} => t \in pool
    /\ \A m \in Merchants : confirm[m].order # 0 => m \in pool
    /\ tenantLock \in pool \cup {Nobody} /\ \A i \in Items : rowLock[i] \in pool \cup {Nobody}

StockInv ==
    /\ sale = [t \in Tabs |-> sale[t]] /\ confirm = [m \in Merchants |-> confirm[m]]
    /\ \A t \in Tabs : SaleIsRight(t, sale[t], stock, rowLock)
    /\ \A m \in Merchants : ConfirmIsRight(m, confirm[m], orders, stock, rowLock)
    /\ \A m, k \in Merchants : m # k /\ confirm[m].order # 0 => confirm[k].order # confirm[m].order
    /\ Balanced(orders, stock)
    /\ Connections

-----------------------------------------------------------------------------
(* Facts about takers.                                                      *)

\* Whoever's rows stay as they are is not disturbed.
LEMMA LockedStill ==
    ASSUME NEW a, NEW took, NEW left, NEW locks, Locked(a, took, left, locks),
           NEW left2, NEW locks2,
           \A i \in Items : locks[i] = a => locks2[i] = a /\ left2[i] = left[i]
    PROVE  Locked(a, took, left2, locks2)
  BY DEF Locked

LEMMA SaleStill ==
    ASSUME NEW t, NEW s, NEW left, NEW locks, SaleIsRight(t, s, left, locks),
           NEW left2, NEW locks2,
           \A i \in Items : locks[i] = t => locks2[i] = t /\ left2[i] = left[i]
    PROVE  SaleIsRight(t, s, left2, locks2)
  BY LockedStill DEF SaleIsRight

LEMMA ConfirmStill ==
    ASSUME NEW m, NEW c, NEW os, NEW left, NEW locks, ConfirmIsRight(m, c, os, left, locks),
           NEW os2, NEW left2, NEW locks2,
           \A i \in Items : locks[i] = m => locks2[i] = m /\ left2[i] = left[i],
           c.order # 0 => c.order \in DOMAIN os2 /\ os2[c.order] = os[c.order]
    PROVE  ConfirmIsRight(m, c, os2, left2, locks2)
  BY LockedStill DEF ConfirmIsRight

\* Nobody takes what another has taken from.
LEMMA TakersDiffer ==
    ASSUME NEW a, NEW b, a # b, NEW took, NEW left, NEW locks, Locked(a, took, left, locks),
           NEW i \in Items, locks[i] = b
    PROVE  took[i] = 0
  BY DEF Locked

LEMMA NothingTaken ==
    /\ Nothing \in Amounts /\ \A i \in Items : Nothing[i] = 0
    /\ \A a, left, locks : Locked(a, Nothing, left, locks)
  BY DEF Nothing, Amounts, Locked

LEMMA NoSaleIsRight ==
    /\ DOMAIN NoSale = {"at", "key", "method", "lines", "todo", "took", "known"}
    /\ NoSale \in SaleRow /\ NoSale.at = "idle"
    /\ \A t, left, locks : SaleIsRight(t, NoSale, left, locks)
  BY NothingTaken, FS_EmptySet DEF NoSale, SaleRow, SaleIsRight, Methods, NoCart

LEMMA NoConfirmIsRight ==
    /\ NoConfirm \in Confirmation /\ NoConfirm.order = 0
    /\ \A m, os, left, locks : ConfirmIsRight(m, NoConfirm, os, left, locks)
  BY NothingTaken DEF NoConfirm, Confirmation, ConfirmIsRight

-----------------------------------------------------------------------------
(* One transaction moves; the others hold what they held.                   *)

\* Rows that others have locked stay theirs, and as they are.
LeavesOthers(a) ==
    \A i \in Items : rowLock[i] \notin {a, Nobody} => rowLock'[i] = rowLock[i] /\ stock'[i] = stock[i]

LEMMA OtherSale ==
    ASSUME StockInv, NEW a, LeavesOthers(a), NEW t \in Tabs, t # a
    PROVE  SaleIsRight(t, sale[t], stock', rowLock')
  <1>1. SaleIsRight(t, sale[t], stock, rowLock)
    BY DEF StockInv
  <1>2. \A i \in Items : rowLock[i] = t => rowLock'[i] = t /\ stock'[i] = stock[i]
    BY CartAssumption DEF LeavesOthers
  <1> QED
    BY <1>1, <1>2, SaleStill

LEMMA OtherConfirm ==
    ASSUME StockInv, NEW a, LeavesOthers(a), NEW m \in Merchants, m # a,
           NEW os, confirm[m].order # 0 => /\ confirm[m].order \in DOMAIN os
                                          /\ os[confirm[m].order] = orders[confirm[m].order]
    PROVE  ConfirmIsRight(m, confirm[m], os, stock', rowLock')
  <1>1. ConfirmIsRight(m, confirm[m], orders, stock, rowLock)
    BY DEF StockInv
  <1>2. \A i \in Items : rowLock[i] = m => rowLock'[i] = m /\ stock'[i] = stock[i]
    BY CartAssumption DEF LeavesOthers
  <1> QED
    BY <1>1, <1>2, ConfirmStill

LEMMA TabMoves ==
    ASSUME StockInv, NEW t \in Tabs, NEW s, LeavesOthers(t),
           sale' = [sale EXCEPT ![t] = s], confirm' = confirm,
           SaleIsRight(t, s, stock', rowLock'),
           \A n \in DOMAIN orders : n \in DOMAIN orders' /\ orders'[n] = orders[n],
           Balanced(orders', stock'), Connections'
    PROVE  StockInv'
  <1>1. /\ sale' = [u \in Tabs |-> sale'[u]] /\ sale'[t] = s
        /\ \A u \in Tabs : u # t => sale'[u] = sale[u]
    BY DEF StockInv
  <1>2. ASSUME NEW u \in Tabs PROVE SaleIsRight(u, sale'[u], stock', rowLock')
    BY <1>1, OtherSale
  <1>3. ASSUME NEW m \in Merchants PROVE ConfirmIsRight(m, confirm'[m], orders', stock', rowLock')
    <2>1. m # t /\ ConfirmIsRight(m, confirm[m], orders, stock, rowLock)
      BY CartAssumption DEF StockInv
    <2>2. confirm[m].order # 0 => /\ confirm[m].order \in DOMAIN orders'
                                 /\ orders'[confirm[m].order] = orders[confirm[m].order]
      BY <2>1 DEF ConfirmIsRight
    <2> QED
      BY <2>1, <2>2, OtherConfirm
  <1>4. /\ confirm' = [m \in Merchants |-> confirm'[m]]
        /\ \A m, k \in Merchants : m # k /\ confirm'[m].order # 0 => confirm'[k].order # confirm'[m].order
    BY DEF StockInv
  <1> QED
    BY <1>1, <1>2, <1>3, <1>4 DEF StockInv

LEMMA MerchantMoves ==
    ASSUME StockInv, NEW m \in Merchants, NEW c, LeavesOthers(m),
           confirm' = [confirm EXCEPT ![m] = c], sale' = sale,
           ConfirmIsRight(m, c, orders', stock', rowLock'),
           \A k \in Merchants \ {m} : c.order # 0 => confirm[k].order # c.order,
           \A n \in DOMAIN orders :
              n \in DOMAIN orders' /\ (n # confirm[m].order \/ n = 0 => orders'[n] = orders[n]),
           Balanced(orders', stock'), Connections'
    PROVE  StockInv'
  <1>1. /\ confirm' = [k \in Merchants |-> confirm'[k]] /\ confirm'[m] = c
        /\ \A k \in Merchants : k # m => confirm'[k] = confirm[k]
    BY DEF StockInv
  <1>2. ASSUME NEW t \in Tabs PROVE SaleIsRight(t, sale'[t], stock', rowLock')
    <2>1. t # m
      BY CartAssumption
    <2> QED
      BY <2>1, OtherSale
  <1>3. ASSUME NEW k \in Merchants PROVE ConfirmIsRight(k, confirm'[k], orders', stock', rowLock')
    <2>1. CASE k = m
      BY <1>1, <2>1
    <2>2. CASE k # m
      <3>1. ConfirmIsRight(k, confirm[k], orders, stock, rowLock)
        BY DEF StockInv
      <3>2. confirm[k].order # 0 => confirm[m].order # confirm[k].order
        BY <2>2 DEF StockInv
      <3>3. confirm[k].order # 0 => /\ confirm[k].order \in DOMAIN orders'
                                   /\ orders'[confirm[k].order] = orders[confirm[k].order]
        BY <3>1, <3>2 DEF ConfirmIsRight
      <3> QED
        BY <1>1, <2>2, <3>3, OtherConfirm
    <2> QED
      BY <2>1, <2>2
  <1>4. \A j, k \in Merchants : j # k /\ confirm'[j].order # 0 => confirm'[k].order # confirm'[j].order
    BY <1>1 DEF StockInv
  <1>5. sale' = [t \in Tabs |-> sale'[t]]
    BY DEF StockInv
  <1> QED
    BY <1>1, <1>2, <1>3, <1>4, <1>5 DEF StockInv

-----------------------------------------------------------------------------
(* Connections.                                                             *)

LEMMA PoolTakes ==
    ASSUME Connections, FreeConnection, NEW a
    PROVE  IsFiniteSet(pool \cup {a}) /\ Cardinality(pool \cup {a}) <= PoolSize
  <1>1. IsFiniteSet(pool) /\ Cardinality(pool) < PoolSize /\ Cardinality(pool) \in Nat
    BY FS_CardinalityType DEF Connections, FreeConnection
  <1>2. /\ IsFiniteSet(pool \cup {a})
        /\ Cardinality(pool \cup {a}) = IF a \in pool THEN Cardinality(pool) ELSE Cardinality(pool) + 1
    BY <1>1, FS_AddElement
  <1> QED
    BY <1>1, <1>2, CartAssumption

LEMMA PoolGives ==
    ASSUME Connections, NEW a
    PROVE  IsFiniteSet(pool \ {a}) /\ Cardinality(pool \ {a}) <= PoolSize
  <1>1. IsFiniteSet(pool) /\ Cardinality(pool) <= PoolSize /\ Cardinality(pool) \in Nat
    BY FS_CardinalityType DEF Connections
  <1>2. /\ IsFiniteSet(pool \ {a}) /\ Cardinality(pool \ {a}) <= Cardinality(pool)
        /\ Cardinality(pool \ {a}) \in Nat
    BY <1>1, FS_Subset, FS_CardinalityType
  <1> QED
    BY <1>1, <1>2, CartAssumption

-----------------------------------------------------------------------------
(* The steps of a checkout that take nothing.                               *)

LEMMA SaleShape ==
    ASSUME StockInv, NEW t \in Tabs
    PROVE  /\ sale[t] \in SaleRow /\ SaleIsRight(t, sale[t], stock, rowLock)
           /\ DOMAIN sale[t] = {"at", "key", "method", "lines", "todo", "took", "known"}
  BY DEF StockInv, SaleIsRight, SaleRow

LEMMA OutsideMoves ==
    ASSUME StockInv, NEW t \in Tabs, NEW s,
           sale' = [sale EXCEPT ![t] = s], SaleIsRight(t, s, stock, rowLock),
           s.at \in {"lock", "rows"} => t \in pool',
           UNCHANGED <<confirm, orders, stock, rowLock>>,
           tenantLock' = tenantLock \/ (tenantLock' = t /\ t \in pool),
           pool' = pool \/ (FreeConnection /\ pool' = pool \cup {t})
    PROVE  StockInv'
  <1>1. LeavesOthers(t) /\ SaleIsRight(t, s, stock', rowLock') /\ Balanced(orders', stock')
    BY DEF LeavesOthers, StockInv
  <1>2. Connections'
    <2>0. Connections
      BY DEF StockInv
    <2>1. IsFiniteSet(pool') /\ Cardinality(pool') <= PoolSize /\ pool \subseteq pool'
          /\ pool' \subseteq Tabs \cup Merchants
      BY <2>0, PoolTakes DEF Connections
    <2>2. \A u \in Tabs : sale'[u] = IF u = t THEN s ELSE sale[u]
      BY DEF StockInv
    <2>3. \A u \in Tabs : sale'[u].at \in {"lock", "rows"} => u \in pool'
      BY <2>0, <2>1, <2>2 DEF Connections
    <2> QED
      BY <2>0, <2>1, <2>3 DEF Connections
  <1> QED
    BY <1>1, <1>2, TabMoves

LEMMA EarlyStepsKeepStock ==
    ASSUME StockInv, CartInv, NEW t \in Tabs,
           \/ \E method \in Methods : Submit(t, method)
           \/ LoadConfig(t) \/ Begin(t) \/ Answer(t) \/ SessionFails(t)
    PROVE  StockInv'
  <1> USE DEF cartVars, shopVars, lockVars
  <1>0. /\ sale[t] \in SaleRow /\ SaleIsRight(t, sale[t], stock, rowLock)
        /\ DOMAIN sale[t] = {"at", "key", "method", "lines", "todo", "took", "known"}
        /\ (sale[t].at = "lock" => t \in pool)
    BY SaleShape DEF StockInv, Connections
  <1>1. ASSUME sale' = [sale EXCEPT ![t] = NoSale],
               UNCHANGED <<confirm, orders, stock, rowLock, tenantLock, pool>>
        PROVE  StockInv'
    BY <1>1, NoSaleIsRight, OutsideMoves
  <1>2. ASSUME NEW method \in Methods, Submit(t, method)
        PROVE  StockInv'
    <2> DEFINE key == jar[BrowserOf[t]]
               s == [NoSale EXCEPT !.at = Steps.idle, !.method = method, !.key = key]
    <2>1. sale' = [sale EXCEPT ![t] = s]
          /\ UNCHANGED <<confirm, orders, stock, rowLock, tenantLock, pool>>
      BY <1>2 DEF Submit
    <2>2. key \in CartIds \cup {NoCart}
      BY CartAssumption DEF CartInv, CartTypes
    <2> HIDE DEF key
    <2>3. s \in SaleRow /\ s.at = "config" /\ s.took = Nothing /\ s.lines = {}
      BY <2>2, NoSaleIsRight DEF SaleRow, NoSale, Steps
    <2> HIDE DEF s
    <2>4. SaleIsRight(t, s, stock, rowLock)
      BY <2>3, FS_EmptySet DEF SaleIsRight
    <2> QED
      BY <2>1, <2>3, <2>4, OutsideMoves
  <1>3. CASE LoadConfig(t)
    <2> DEFINE s == [sale[t] EXCEPT !.at = Steps.config]
    <2>1. /\ sale[t].at = "config" /\ sale' = [sale EXCEPT ![t] = s]
          /\ UNCHANGED <<confirm, orders, stock, rowLock, tenantLock, pool>>
      BY <1>3 DEF LoadConfig
    <2>2. s \in SaleRow /\ s.at = "begin" /\ s.took = sale[t].took /\ s.lines = sale[t].lines
      BY <1>0 DEF SaleRow, Steps
    <2> HIDE DEF s
    <2>3. SaleIsRight(t, s, stock, rowLock)
      BY <1>0, <2>1, <2>2 DEF SaleIsRight
    <2> QED
      BY <2>1, <2>2, <2>3, OutsideMoves
  <1>4. CASE Begin(t)
    <2> DEFINE c == sale[t].key
               rows == LinesOf(line, c)
               at == [l \in rows |-> [row |-> l, item |-> line[l].item, qty |-> line[l].qty]]
               lines == {[row |-> l, item |-> line[l].item, qty |-> line[l].qty] : l \in rows}
               s == [sale[t] EXCEPT !.at = Steps.begin, !.lines = lines]
    <2>1. UNCHANGED <<confirm, orders, stock, rowLock, tenantLock>>
      BY <1>4 DEF Begin
    <2>2. CASE sale' = [sale EXCEPT ![t] = NoSale] /\ pool' = pool
      BY <1>1, <2>1, <2>2
    <2>3. CASE ~(sale' = [sale EXCEPT ![t] = NoSale] /\ pool' = pool)
      <3>1. /\ sale[t].at = "begin" /\ FreeConnection /\ c \in carts
            /\ sale' = [sale EXCEPT ![t] = s] /\ pool' = pool \cup {t}
        BY <1>0, <1>4, <2>3 DEF Begin
      <3>2. \A l \in rows : l \in LineIds /\ line[l] \in Line
        BY <3>1 DEF LinesOf, CartInv, CartTypes, Rows, CartIds, NoLine, NoCart
      <3>3. lines \subseteq Lines
        BY <3>2 DEF Lines, Line
      <3>4. IsFiniteSet(lines)
        <4>1. IsFiniteSet(rows)
          BY LinesAreFinite, FS_Subset DEF LinesOf
        <4>2. at \in Surjection(rows, lines)
          BY DEF Surjection
        <4> HIDE DEF at, rows, lines
        <4> QED
          BY <4>1, <4>2, FS_Surjection
      <3> HIDE DEF lines
      <3>5. s \in SaleRow /\ s.at = "lock" /\ s.took = sale[t].took /\ s.lines = lines
        BY <1>0, <3>3 DEF SaleRow, Steps
      <3> HIDE DEF s
      <3>6. SaleIsRight(t, s, stock, rowLock)
        BY <1>0, <3>1, <3>4, <3>5 DEF SaleIsRight
      <3> QED
        BY <2>1, <3>1, <3>5, <3>6, OutsideMoves
    <2> QED
      BY <2>2, <2>3
  <1>5. CASE Answer(t) \/ SessionFails(t)
    <2>1. sale' = [sale EXCEPT ![t] = NoSale]
          /\ UNCHANGED <<confirm, orders, stock, rowLock, tenantLock, pool>>
      BY <1>5 DEF Answer, SessionFails
    <2> QED
      BY <1>1, <2>1
  <1> QED
    BY <1>2, <1>3, <1>4, <1>5

LEMMA LockKeepsStock ==
    ASSUME StockInv, NEW t \in Tabs, LockTenant(t)
    PROVE  StockInv'
  <1> DEFINE old == sale[t]
             todo == IF old.method = "online" THEN old.lines ELSE {}
             known == HasCustomer(EmailOf[BrowserOf[t]])
             s == [old EXCEPT !.at = "rows", !.known = known, !.todo = todo]
  <1>0. /\ old \in SaleRow /\ SaleIsRight(t, old, stock, rowLock)
        /\ DOMAIN old = {"at", "key", "method", "lines", "todo", "took", "known"}
        /\ old.at = "lock" /\ t \in pool
    BY SaleShape DEF StockInv, Connections, LockTenant
  <1>1. /\ sale' = [sale EXCEPT ![t] = s] /\ tenantLock' = t
        /\ UNCHANGED <<confirm, orders, stock, rowLock, pool>>
    BY <1>0 DEF LockTenant, cartVars, shopVars
  <1>2. known \in BOOLEAN
    BY DEF HasCustomer
  <1> HIDE DEF known
  <1>3. todo \in SUBSET Lines
    BY <1>0 DEF SaleRow
  <1> HIDE DEF todo
  <1>4. /\ s \in SaleRow /\ s.at = "rows" /\ s.took = old.took /\ s.lines = old.lines
        /\ s.method = old.method /\ s.todo = todo
    <2> HIDE DEF old
    <2> QED
      BY <1>0, <1>2, <1>3 DEF SaleRow
  <1> HIDE DEF s
  <1>5. s.took = Nothing /\ IsFiniteSet(s.lines)
    BY <1>0, <1>4 DEF SaleIsRight
  <1>6. CASE old.method = "online"
    <2>1. \A i \in Items : TakenOf(s, i) = 0
      <3> SUFFICES ASSUME NEW i \in Items PROVE TakenOf(s, i) = 0
        OBVIOUS
      <3>1. {n \in s.lines \ s.todo : n.item = i} = {}
        BY <1>4, <1>6 DEF todo
      <3> QED
        BY <3>1, SumEmpty DEF TakenOf
    <2>2. SaleIsRight(t, s, stock, rowLock)
      BY <1>4, <1>5, <1>6, <2>1, NothingTaken DEF SaleIsRight, todo
    <2> QED
      BY <1>0, <1>1, <1>4, <2>2, OutsideMoves
  <1>7. CASE old.method # "online"
    <2>1. SaleIsRight(t, s, stock, rowLock)
      BY <1>4, <1>5, <1>7, NothingTaken DEF SaleIsRight, todo
    <2> QED
      BY <1>0, <1>1, <1>4, <2>1, OutsideMoves
  <1> QED
    BY <1>6, <1>7

-----------------------------------------------------------------------------
(* The balance of the stock and the orders that hold units of it.           *)

LEMMA HoldsCount ==
    ASSUME NEW os, NEW left, Balanced(os, left), NEW i \in Items
    PROVE  \A n \in DOMAIN os : Holds(os, i)[n] \in Nat
  BY DEF Balanced, Holds, Amounts

LEMMA OrderAdded ==
    ASSUME NEW S, NEW os \in Seq(S), NEW left, Balanced(os, left),
           NEW r, r.units \in Amounts, r.held \in BOOLEAN,
           NEW took \in Amounts, \A i \in Items : took[i] <= left[i],
           \A i \in Items : took[i] = IF r.held THEN r.units[i] ELSE 0,
           NEW os2, os2 = Append(os, r),
           NEW left2, left2 = [i \in Items |-> left[i] - took[i]]
    PROVE  Balanced(os2, left2)
  <1> DEFINE new == Len(os) + 1
             D == DOMAIN os
  <1>1. /\ D = 1..Len(os) /\ Len(os) \in Nat /\ DOMAIN os2 = D \cup {new} /\ new \notin D
        /\ \A n \in D : os2[n] = os[n]
        /\ os2[new] = r
    BY Appended
  <1>2. IsFiniteSet(D)
    BY <1>1, FS_Interval
  <1> HIDE DEF new, D
  <1>3. left2 \in [Items -> Nat]
    <2>1. \A i \in Items : left[i] \in Nat /\ took[i] \in Nat /\ took[i] <= left[i]
      BY DEF Balanced, Amounts
    <2>2. \A i \in Items : left[i] - took[i] \in Nat
      BY <2>1
    <2> QED
      BY <2>2
  <1>4. \A n \in DOMAIN os2 : os2[n].units \in Amounts /\ os2[n].held \in BOOLEAN
    BY <1>1 DEF Balanced, D
  <1>5. ASSUME NEW i \in Items
        PROVE  left2[i] + SumFunctionOnSet(Holds(os2, i), DOMAIN os2) = InitialStock[i]
    <2> DEFINE f == Holds(os, i)
               g == Holds(os2, i)
    <2>1. \A n \in D : f[n] \in Int /\ f[n] = g[n]
      BY <1>1, HoldsCount DEF Holds, D
    <2>2. g[new] = IF r.held THEN r.units[i] ELSE 0
      BY <1>1 DEF Holds
    <2>3. g[new] = took[i] /\ took[i] \in Int /\ left[i] \in Int /\ left2[i] = left[i] - took[i]
      BY <2>2 DEF Balanced, Amounts
    <2>4. left[i] + SumFunctionOnSet(f, D) = InitialStock[i]
      BY DEF Balanced, D
    <2> HIDE DEF f, g
    <2>5. SumFunctionOnSet(g, D \cup {new}) = SumFunctionOnSet(g, D) + g[new]
      <3>1. \A n \in D \cup {new} : g[n] \in Int
        BY <2>1, <2>3
      <3>2. new \notin D
        BY <1>1
      <3> QED
        BY <1>2, <3>1, <3>2, SumAdd
    <2>6. SumFunctionOnSet(g, D) = SumFunctionOnSet(f, D) /\ SumFunctionOnSet(f, D) \in Int
      BY <1>2, <2>1, SumSame, SumInt
    <2>7. left2[i] + SumFunctionOnSet(g, D \cup {new}) = InitialStock[i]
      BY <2>3, <2>4, <2>5, <2>6
    <2> QED
      BY <1>1, <2>7 DEF g
  <1> QED
    BY <1>3, <1>4, <1>5 DEF Balanced

\* Order o gets what was taken for it, and from now on holds it.
Hold(os, left, o, took, os2, left2) ==
    /\ o \in DOMAIN os /\ ~os[o].held
    /\ took \in Amounts /\ \A i \in Items : took[i] <= left[i] /\ took[i] = os[o].units[i]
    /\ DOMAIN os2 = DOMAIN os /\ os2[o].units = os[o].units /\ os2[o].held = TRUE
    /\ \A n \in DOMAIN os : n # o => os2[n] = os[n]
    /\ left2 = [i \in Items |-> left[i] - took[i]]

LEMMA OrderHeld ==
    ASSUME NEW S, NEW os \in Seq(S), NEW left, Balanced(os, left),
           NEW o, NEW took, NEW os2, NEW left2, Hold(os, left, o, took, os2, left2)
    PROVE  Balanced(os2, left2)
  <1> USE DEF Hold
  <1> DEFINE D == DOMAIN os
  <1>0. D = 1..Len(os) /\ Len(os) \in Nat
    OBVIOUS
  <1>1. IsFiniteSet(D)
    BY <1>0, FS_Interval
  <1>2. left2 \in [Items -> Nat]
    <2>1. \A i \in Items : left[i] \in Nat /\ took[i] \in Nat /\ took[i] <= left[i]
      BY DEF Balanced, Amounts
    <2>2. \A i \in Items : left[i] - took[i] \in Nat
      BY <2>1
    <2> QED
      BY <2>2
  <1>3. \A n \in DOMAIN os2 : os2[n].units \in Amounts /\ os2[n].held \in BOOLEAN
    BY DEF Balanced
  <1>4. ASSUME NEW i \in Items
        PROVE  left2[i] + SumFunctionOnSet(Holds(os2, i), DOMAIN os2) = InitialStock[i]
    <2> DEFINE f == Holds(os, i)
               g == Holds(os2, i)
    <2>1. f[o] = 0 /\ g[o] = took[i] /\ \A n \in D : n # o => g[n] = f[n]
      BY DEF Holds
    <2>2. took[i] \in Int /\ left[i] \in Int /\ left2[i] = left[i] - took[i]
      BY DEF Balanced, Amounts
    <2>3. \A n \in D : f[n] \in Int /\ g[n] \in Int
      <3>1. \A n \in D : f[n] \in Int
        BY HoldsCount
      <3> HIDE DEF f, g
      <3> QED
        BY <2>1, <2>2, <3>1
    <2>4. left[i] + SumFunctionOnSet(f, D) = InitialStock[i]
      BY DEF Balanced
    <2>5. o \in D /\ DOMAIN os2 = D
      OBVIOUS
    <2> HIDE DEF f, g, D
    <2>6. SumFunctionOnSet(g, D) = SumFunctionOnSet(f, D) - f[o] + g[o]
      <3>1. IsFiniteSet(D) /\ o \in D
        BY <1>1, <2>5
      <3>2. \A n \in D : n # o => g[n] = f[n]
        BY <2>1
      <3> QED
        BY <2>3, <3>1, <3>2, SumChange
    <2>7. SumFunctionOnSet(f, D) \in Int
      BY <1>1, <2>3, SumInt
    <2>8. left2[i] + SumFunctionOnSet(g, D) = InitialStock[i]
      BY <2>1, <2>2, <2>4, <2>6, <2>7
    <2> QED
      BY <2>5, <2>8 DEF g
  <1> QED
    BY <1>2, <1>3, <1>4 DEF Balanced

-----------------------------------------------------------------------------
(* The checkout under its locks.                                            *)

LEMMA RollbackKeepsStock ==
    ASSUME StockInv, NEW t \in Tabs, Rollback(t)
    PROVE  StockInv'
  <1>1. /\ sale' = [sale EXCEPT ![t] = NoSale] /\ pool' = pool \ {t}
        /\ tenantLock' = IF tenantLock = t THEN Nobody ELSE tenantLock
        /\ rowLock' = [i \in Items |-> IF rowLock[i] = t THEN Nobody ELSE rowLock[i]]
        /\ UNCHANGED <<confirm, orders, stock>>
    BY DEF Rollback, UnlockTenant, Release, shopVars
  <1>2. LeavesOthers(t) /\ Balanced(orders', stock')
    BY <1>1 DEF LeavesOthers, StockInv
  <1>3. SaleIsRight(t, NoSale, stock', rowLock')
    BY NoSaleIsRight
  <1>4. Connections'
    <2>0. Connections
      BY DEF StockInv
    <2>1. IsFiniteSet(pool') /\ Cardinality(pool') <= PoolSize
      BY <1>1, <2>0, PoolGives
    <2>2. \A u \in Tabs : sale'[u] = IF u = t THEN NoSale ELSE sale[u]
      BY <1>1 DEF StockInv
    <2>3. \A u \in Tabs : sale'[u].at \in {"lock", "rows"} => u \in pool'
      BY <1>1, <2>0, <2>2, NoSaleIsRight DEF Connections
    <2>4. \A m \in Merchants : confirm'[m].order # 0 => m \in pool'
      BY <1>1, <2>0, CartAssumption DEF Connections
    <2>5. /\ tenantLock' \in Tabs \cup {Nobody} /\ tenantLock' \in pool' \cup {Nobody}
          /\ rowLock' \in [Items -> Tabs \cup Merchants \cup {Nobody}]
          /\ \A i \in Items : rowLock'[i] \in pool' \cup {Nobody}
          /\ pool' \subseteq Tabs \cup Merchants
      BY <1>1, <2>0 DEF Connections
    <2> QED
      BY <2>1, <2>3, <2>4, <2>5 DEF Connections
  <1> QED
    BY <1>1, <1>2, <1>3, <1>4, TabMoves

\* Some of a row's units are taken, which is then locked.
LEMMA TakeKeepsStock ==
    ASSUME StockInv, NEW t \in Tabs, NEW n, TakeRow(t, n)
    PROVE  StockInv'
  <1>1. CASE Rollback(t)
    BY <1>1, RollbackKeepsStock
  <1>2. CASE ~Rollback(t)
    <2> DEFINE old == sale[t]
               item == n.item
               took == [old.took EXCEPT ![item] = @ + n.qty]
               s == [old EXCEPT !.todo = @ \ {n}, !.took = took]
    <2>1. /\ old \in SaleRow /\ SaleIsRight(t, old, stock, rowLock)
          /\ DOMAIN old = {"at", "key", "method", "lines", "todo", "took", "known"}
          /\ old.at = "rows" /\ n \in old.todo
          /\ stock \in [Items -> Nat] /\ Nobody \notin Tabs
      BY SaleShape, CartAssumption DEF TakeRow, StockInv, Balanced
    <2>2. /\ stock[item] - old.took[item] >= n.qty /\ rowLock[item] \in {Nobody, t}
          /\ rowLock' = [rowLock EXCEPT ![item] = t]
          /\ UNCHANGED <<confirm, orders, stock, tenantLock, pool>>
      BY <1>2 DEF TakeRow, Lockable, Left, shopVars
    <2>3. sale' = [sale EXCEPT ![t] = s]
      BY <1>2, <2>1 DEF TakeRow, Left, StockInv
    <2>4. /\ n \in Lines /\ item \in Items /\ n.qty \in Nat \ {0}
          /\ old.took \in Amounts /\ old.method = "online" /\ old.todo \subseteq old.lines
          /\ \A i \in Items : old.took[i] = TakenOf(old, i)
      BY <2>1 DEF SaleIsRight, SaleRow, Lines
    <2>5. /\ took \in Amounts /\ took[item] = old.took[item] + n.qty
          /\ \A i \in Items : i # item => took[i] = old.took[i]
      BY <2>4 DEF Amounts
    <2> HIDE DEF took, item
    <2>6. /\ s \in SaleRow /\ s.at = "rows" /\ s.took = took /\ s.lines = old.lines
          /\ s.todo = old.todo \ {n} /\ s.method = old.method
      <3> HIDE DEF old
      <3> QED
        BY <2>1, <2>5 DEF SaleRow
    <2> HIDE DEF s, old
    <2>7. /\ rowLock'[item] = t /\ \A i \in Items : i # item => rowLock'[i] = rowLock[i]
          /\ rowLock' \in [Items -> Tabs \cup Merchants \cup {Nobody}]
      BY <2>2, <2>4 DEF StockInv, Connections
    <2>8. Locked(t, s.took, stock', rowLock')
      <3>1. Locked(t, old.took, stock, rowLock)
        BY <2>1 DEF SaleIsRight
      <3>2. took[item] <= stock[item]
        BY <2>1, <2>2, <2>4, <2>5 DEF Amounts
      <3> QED
        BY <2>2, <2>5, <2>6, <2>7, <3>1, <3>2 DEF Locked
    <2>9. ASSUME NEW i \in Items PROVE s.took[i] = TakenOf(s, i)
      <3> DEFINE f == [x \in old.lines |-> x.qty]
                 T == {x \in old.lines \ old.todo : x.item = i}
                 U == {x \in s.lines \ s.todo : x.item = i}
      <3>1. TakenOf(old, i) = SumFunctionOnSet(f, T) /\ TakenOf(s, i) = SumFunctionOnSet(f, U)
        BY <2>6 DEF TakenOf
      <3>2. CASE i = item
        <4>1. U = T \cup {n} /\ n \notin T
          BY <2>1, <2>4, <2>6, <3>2 DEF item
        <4>2. IsFiniteSet(T)
          BY <2>1, FS_Subset DEF SaleIsRight
        <4>3. (\A x \in T \cup {n} : f[x] \in Int) /\ f[n] = n.qty
          BY <2>1, <2>4 DEF SaleRow, Lines
        <4> HIDE DEF f, T, U
        <4>4. SumFunctionOnSet(f, T \cup {n}) = SumFunctionOnSet(f, T) + f[n]
          BY <4>1, <4>2, <4>3, SumAdd
        <4>5. old.took[item] = SumFunctionOnSet(f, T)
          BY <2>4, <3>1, <3>2
        <4> QED
          BY <2>5, <2>6, <3>1, <3>2, <4>1, <4>3, <4>4, <4>5
      <3>3. CASE i # item
        <4>1. U = T
          BY <2>1, <2>4, <2>6, <3>3 DEF item
        <4> QED
          BY <2>4, <2>5, <2>6, <3>1, <3>3, <4>1
      <3> QED
        BY <3>2, <3>3
    <2>10. SaleIsRight(t, s, stock', rowLock')
      <3>1. IsFiniteSet(s.lines)
        BY <2>1, <2>6 DEF SaleIsRight
      <3>2. s.todo \subseteq s.lines /\ s.method = "online"
        BY <2>4, <2>6
      <3> QED
        BY <2>6, <2>8, <2>9, <3>1, <3>2 DEF SaleIsRight
    <2>11. LeavesOthers(t) /\ Balanced(orders', stock')
      BY <2>2, <2>4, <2>7 DEF LeavesOthers, StockInv
    <2>12. Connections'
      <3>0. Connections
        BY DEF StockInv
      <3>1. \A u \in Tabs : sale'[u].at = sale[u].at
        BY <2>1, <2>3, <2>6 DEF StockInv, old
      <3>2. t \in pool
        BY <2>1, <3>0 DEF Connections, old
      <3>3. \A i \in Items : rowLock'[i] \in pool' \cup {Nobody}
        BY <2>2, <2>7, <3>0, <3>2 DEF Connections
      <3> QED
        BY <2>2, <2>7, <3>0, <3>1, <3>3 DEF Connections
    <2> QED
      BY <2>2, <2>3, <2>10, <2>11, <2>12, TabMoves
  <1> QED
    BY <1>1, <1>2

\* The commit: what the checkout has taken goes from the stock into its order.
LEMMA FinishKeepsStock ==
    ASSUME IInv, StockInv, NEW t \in Tabs, Finish(t)
    PROVE  StockInv'
  <1>1. CASE Rollback(t)
    BY <1>1, RollbackKeepsStock
  <1>2. CASE ~Rollback(t)
    <2> DEFINE old == sale[t]
               s == [old EXCEPT !.at = "answer"]
               r == [cart |-> old.key, email |-> EmailOf[BrowserOf[t]], units |-> Sold(t),
                     held |-> old.method = "online"]
    <2>1. /\ old \in SaleRow /\ SaleIsRight(t, old, stock, rowLock)
          /\ DOMAIN old = {"at", "key", "method", "lines", "todo", "took", "known"}
          /\ old.at = "rows" /\ old.todo = {} /\ Nobody \notin Tabs /\ tenantLock = t
      BY SaleShape, CartAssumption DEF Finish, IInv, LocksAreNested
    <2>2. /\ orders' = Append(orders, r)
          /\ stock' = [i \in Items |-> stock[i] - old.took[i]]
          /\ sale' = [sale EXCEPT ![t] = s]
          /\ pool' = pool \ {t} /\ tenantLock' = Nobody
          /\ rowLock' = [i \in Items |-> IF rowLock[i] = t THEN Nobody ELSE rowLock[i]]
          /\ confirm' = confirm
      BY <1>2 DEF Finish, Release
    <2>3. Locked(t, old.took, stock, rowLock) /\ old.took \in Amounts /\ stock \in [Items -> Nat]
      BY <2>1 DEF SaleIsRight, SaleRow, StockInv, Balanced
    <2>4. s \in SaleRow /\ s.at = "answer" /\ s.lines = old.lines
      <3> HIDE DEF old
      <3> QED
        BY <2>1 DEF SaleRow
    <2>5. SaleIsRight(t, s, stock', rowLock')
      <3> HIDE DEF s, old
      <3> QED
        BY <2>1, <2>4 DEF SaleIsRight
    <2>6. LeavesOthers(t)
      <3> SUFFICES ASSUME NEW i \in Items, rowLock[i] \notin {t, Nobody}
                   PROVE  rowLock'[i] = rowLock[i] /\ stock'[i] = stock[i]
        BY DEF LeavesOthers
      <3>1. old.took[i] = 0
        BY <2>3 DEF Locked
      <3> QED
        BY <2>2, <2>3, <3>1
    <2>7. /\ Sold(t) \in Amounts
          /\ \A i \in Items : Sold(t)[i] = TakenOf(old, i)
      <3>1. ASSUME NEW i \in Items PROVE TakenOf(old, i) \in Nat /\ Sold(t)[i] = TakenOf(old, i)
        <4> DEFINE f == [n \in old.lines |-> n.qty]
                   T == {n \in old.lines : n.item = i}
        <4>1. Sold(t)[i] = SumFunctionOnSet(f, T)
          BY DEF Sold
        <4>2. old.lines \ old.todo = old.lines
          BY <2>1
        <4>3. TakenOf(old, i) = SumFunctionOnSet(f, T)
          BY <4>2 DEF TakenOf
        <4>4. IsFiniteSet(T) /\ \A n \in T : f[n] \in Nat
          BY <2>1, FS_Subset DEF SaleIsRight, SaleRow, Lines
        <4> HIDE DEF f, T
        <4> QED
          BY <4>1, <4>3, <4>4, SumNat
      <3>2. Sold(t) = [i \in Items |-> Sold(t)[i]]
        BY DEF Sold
      <3> QED
        BY <3>1, <3>2 DEF Amounts
    <2>8. /\ r.units = Sold(t) /\ r.held \in BOOLEAN /\ (r.held <=> old.method = "online")
      OBVIOUS
    <2> HIDE DEF r
    <2>9. \A i \in Items : old.took[i] = IF r.held THEN r.units[i] ELSE 0
      BY <2>1, <2>7, <2>8, NothingTaken DEF SaleIsRight
    <2>10. \A i \in Items : old.took[i] <= stock[i]
      BY <2>3 DEF Locked, Amounts
    <2>11. PICK S : orders \in Seq(S)
      BY DEF IInv, Shapes
    <2>12. Balanced(orders', stock')
      <3> DEFINE took == old.took
                 os2 == orders'
                 left2 == stock'
      <3>1. /\ os2 = Append(orders, r) /\ left2 = [i \in Items |-> stock[i] - took[i]]
            /\ took \in Amounts /\ (\A i \in Items : took[i] <= stock[i])
            /\ (\A i \in Items : took[i] = IF r.held THEN r.units[i] ELSE 0)
            /\ r.units \in Amounts /\ r.held \in BOOLEAN /\ Balanced(orders, stock)
        BY <2>2, <2>3, <2>7, <2>8, <2>9, <2>10 DEF StockInv
      <3> HIDE DEF took, os2, left2
      <3>2. Balanced(os2, left2)
        BY <2>11, <3>1, OrderAdded
      <3> QED
        BY <3>2 DEF os2, left2
    <2>13. \A n \in DOMAIN orders : n \in DOMAIN orders' /\ orders'[n] = orders[n]
      BY <2>2, <2>11, Appended
    <2>14. Connections'
      <3>0. Connections
        BY DEF StockInv
      <3>1. IsFiniteSet(pool') /\ Cardinality(pool') <= PoolSize
        BY <2>2, <3>0, PoolGives
      <3>2. \A u \in Tabs : sale'[u] = IF u = t THEN s ELSE sale[u]
        BY <2>2 DEF StockInv
      <3>3. \A u \in Tabs : sale'[u].at \in {"lock", "rows"} => u \in pool'
        BY <2>2, <2>4, <3>0, <3>2 DEF Connections
      <3>4. \A m \in Merchants : confirm'[m].order # 0 => m \in pool'
        BY <2>2, <3>0, CartAssumption DEF Connections
      <3>5. /\ tenantLock' \in Tabs \cup {Nobody} /\ tenantLock' \in pool' \cup {Nobody}
            /\ rowLock' \in [Items -> Tabs \cup Merchants \cup {Nobody}]
            /\ \A i \in Items : rowLock'[i] \in pool' \cup {Nobody}
            /\ pool' \subseteq Tabs \cup Merchants
        BY <2>2, <3>0 DEF Connections
      <3> QED
        BY <3>1, <3>3, <3>4, <3>5 DEF Connections
    <2> HIDE DEF s, old
    <2> QED
      BY <2>2, <2>5, <2>6, <2>12, <2>13, <2>14, TabMoves
  <1> QED
    BY <1>1, <1>2

-----------------------------------------------------------------------------
(* The merchant's confirmation.                                             *)

LEMMA ConfirmShape ==
    ASSUME StockInv, NEW m \in Merchants
    PROVE  /\ ConfirmIsRight(m, confirm[m], orders, stock, rowLock)
           /\ confirm[m] \in Confirmation /\ DOMAIN confirm[m] = {"order", "todo", "took"}
           /\ Connections /\ Balanced(orders, stock) /\ m \notin Tabs /\ m # Nobody
  BY CartAssumption DEF StockInv, ConfirmIsRight, Confirmation

LEMMA ConfirmStartKeepsStock ==
    ASSUME IInv, StockInv, NEW m \in Merchants, NEW o \in DOMAIN orders, ConfirmStart(m, o)
    PROVE  StockInv'
  <1> DEFINE todo == {i \in Items : orders[o].units[i] > 0}
             c == [order |-> o, took |-> Nothing, todo |-> todo]
  <1>1. /\ confirm' = [confirm EXCEPT ![m] = c] /\ FreeConnection /\ ~orders[o].held
        /\ \A k \in Merchants : confirm[k].order # o
        /\ pool' = pool \cup {m}
        /\ UNCHANGED <<sale, orders, stock, tenantLock, rowLock>>
    BY DEF ConfirmStart, shopVars
  <1>2. o \in Nat \ {0}
    BY DEF IInv, Shapes
  <1>3. c \in Confirmation /\ c.order = o /\ c.took = Nothing /\ c.todo = todo
    BY <1>2, NothingTaken DEF Confirmation
  <1>4. \A i \in Items : Nothing[i] = IF i \in todo THEN 0 ELSE orders[o].units[i]
    <2>1. orders[o].units \in Amounts
      BY DEF StockInv, Balanced
    <2> QED
      BY <2>1, NothingTaken DEF Amounts
  <1> HIDE DEF todo, c
  <1>5. ConfirmIsRight(m, c, orders', stock', rowLock')
    BY <1>1, <1>2, <1>3, <1>4, NothingTaken DEF ConfirmIsRight
  <1>6. LeavesOthers(m) /\ Balanced(orders', stock')
    BY <1>1 DEF LeavesOthers, StockInv
  <1>7. Connections'
    <2>0. Connections
      BY DEF StockInv
    <2>1. IsFiniteSet(pool') /\ Cardinality(pool') <= PoolSize
      BY <1>1, <2>0, PoolTakes
    <2>2. \A k \in Merchants : confirm'[k].order # 0 => k \in pool'
      BY <1>1, <2>0 DEF Connections, StockInv
    <2> QED
      BY <1>1, <2>0, <2>1, <2>2 DEF Connections
  <1>8. \A k \in Merchants \ {m} : c.order # 0 => confirm[k].order # c.order
    BY <1>1, <1>3
  <1>9. sale' = sale /\ orders' = orders
    BY <1>1
  <1> QED
    BY <1>1, <1>5, <1>6, <1>7, <1>8, <1>9, MerchantMoves

\* A confirmation is over: its rows and its connection are free.
LEMMA ConnectionsAfterConfirm ==
    ASSUME StockInv, NEW m \in Merchants, ConfirmEnd(m)
    PROVE  Connections'
  <1>1. /\ confirm' = [confirm EXCEPT ![m] = NoConfirm] /\ pool' = pool \ {m}
        /\ rowLock' = [i \in Items |-> IF rowLock[i] = m THEN Nobody ELSE rowLock[i]]
        /\ UNCHANGED <<sale, tenantLock>>
    BY DEF ConfirmEnd, Release
  <1>0. Connections /\ m \notin Tabs
    BY ConfirmShape
  <1>2. IsFiniteSet(pool') /\ Cardinality(pool') <= PoolSize
    BY <1>0, <1>1, PoolGives
  <1>3. \A k \in Merchants : confirm'[k].order # 0 => k \in pool'
    BY <1>0, <1>1, NoConfirmIsRight DEF Connections, StockInv
  <1>4. /\ \A u \in Tabs : sale'[u].at \in {"lock", "rows"} => u \in pool'
        /\ tenantLock' \in Tabs \cup {Nobody} /\ tenantLock' \in pool' \cup {Nobody}
        /\ rowLock' \in [Items -> Tabs \cup Merchants \cup {Nobody}]
        /\ \A i \in Items : rowLock'[i] \in pool' \cup {Nobody}
        /\ pool' \subseteq Tabs \cup Merchants
    BY <1>0, <1>1 DEF Connections
  <1> QED
    BY <1>2, <1>3, <1>4 DEF Connections

LEMMA ConfirmEndKeepsStock ==
    ASSUME StockInv, NEW m \in Merchants, ConfirmEnd(m), UNCHANGED <<orders, stock>>
    PROVE  StockInv'
  <1>1. /\ confirm' = [confirm EXCEPT ![m] = NoConfirm] /\ sale' = sale
        /\ rowLock' = [i \in Items |-> IF rowLock[i] = m THEN Nobody ELSE rowLock[i]]
    BY DEF ConfirmEnd, Release
  <1>2. LeavesOthers(m) /\ Balanced(orders', stock')
    BY <1>1 DEF LeavesOthers, StockInv
  <1>3. ConfirmIsRight(m, NoConfirm, orders', stock', rowLock') /\ NoConfirm.order = 0
    BY NoConfirmIsRight
  <1>4. Connections'
    BY ConnectionsAfterConfirm
  <1> QED
    BY <1>1, <1>2, <1>3, <1>4, MerchantMoves

LEMMA ConfirmRowKeepsStock ==
    ASSUME StockInv, NEW m \in Merchants, NEW i \in Items, ConfirmRow(m, i)
    PROVE  StockInv'
  <1>1. CASE ConfirmEnd(m)
    <2>1. UNCHANGED <<orders, stock>>
      BY DEF ConfirmRow, shopVars
    <2> QED
      BY <1>1, <2>1, ConfirmEndKeepsStock
  <1>2. CASE ~ConfirmEnd(m)
    <2> DEFINE old == confirm[m]
               want == orders[old.order].units[i]
               took == [old.took EXCEPT ![i] = want]
               c == [old EXCEPT !.todo = @ \ {i}, !.took = took]
    <2>0. /\ ConfirmIsRight(m, old, orders, stock, rowLock) /\ old \in Confirmation
          /\ DOMAIN old = {"order", "todo", "took"}
          /\ Connections /\ Balanced(orders, stock) /\ m \notin Tabs /\ m # Nobody
      BY ConfirmShape
    <2>1. /\ i \in old.todo /\ rowLock[i] \in {Nobody, m} /\ stock[i] - old.took[i] >= want
          /\ rowLock' = [rowLock EXCEPT ![i] = m]
          /\ UNCHANGED <<sale, orders, stock, tenantLock, pool>>
      BY <1>2 DEF ConfirmRow, Lockable, Left, shopVars
    <2>2. confirm' = [confirm EXCEPT ![m] = c]
      BY <1>2, <2>0 DEF ConfirmRow, StockInv
    <2>3. /\ old.order # 0 /\ old.order \in DOMAIN orders /\ ~orders[old.order].held
          /\ want \in Nat /\ old.took \in Amounts /\ old.took[i] = 0 /\ stock[i] \in Nat
      BY <2>0, <2>1 DEF ConfirmIsRight, Confirmation, Balanced, Amounts
    <2>4. /\ took \in Amounts /\ took[i] = want
          /\ \A j \in Items : j # i => took[j] = old.took[j]
      BY <2>3 DEF Amounts
    <2> HIDE DEF took
    <2>5. /\ c \in Confirmation /\ c.order = old.order /\ c.took = took
          /\ c.todo = old.todo \ {i}
      <3> HIDE DEF old
      <3> QED
        BY <2>0, <2>4 DEF Confirmation
    <2> HIDE DEF c
    <2>6. /\ rowLock'[i] = m /\ \A j \in Items : j # i => rowLock'[j] = rowLock[j]
          /\ rowLock' \in [Items -> Tabs \cup Merchants \cup {Nobody}]
      BY <2>0, <2>1 DEF Connections
    <2>7. Locked(m, c.took, stock', rowLock')
      <3>1. Locked(m, old.took, stock, rowLock)
        BY <2>0 DEF ConfirmIsRight
      <3>2. want <= stock[i]
        BY <2>1, <2>3
      <3> QED
        BY <2>1, <2>4, <2>5, <2>6, <3>1, <3>2 DEF Locked
    <2>8. \A j \in Items : c.took[j] = IF j \in c.todo THEN 0 ELSE orders[c.order].units[j]
      <3>1. \A j \in Items : old.took[j] = IF j \in old.todo THEN 0 ELSE orders[old.order].units[j]
        BY <2>0, <2>3 DEF ConfirmIsRight
      <3> QED
        BY <2>4, <2>5, <3>1
    <2> HIDE DEF want
    <2>9. ConfirmIsRight(m, c, orders', stock', rowLock')
      <3>1. c.order # 0 /\ c.order \in DOMAIN orders' /\ ~orders'[c.order].held
        BY <2>1, <2>3, <2>5
      <3> QED
        BY <2>1, <2>5, <2>7, <2>8, <3>1 DEF ConfirmIsRight
    <2>10. LeavesOthers(m) /\ Balanced(orders', stock')
      BY <2>0, <2>1, <2>6 DEF LeavesOthers
    <2>11. Connections'
      <3>1. m \in pool
        BY <2>0, <2>3 DEF Connections
      <3>2. \A k \in Merchants : confirm'[k].order = confirm[k].order
        BY <2>2, <2>5 DEF StockInv
      <3>3. \A j \in Items : rowLock'[j] \in pool' \cup {Nobody}
        BY <2>0, <2>1, <2>6, <3>1 DEF Connections
      <3> QED
        BY <2>0, <2>1, <2>6, <3>2, <3>3 DEF Connections
    <2>12. \A k \in Merchants \ {m} : c.order # 0 => confirm[k].order # c.order
      BY <2>3, <2>5 DEF StockInv
    <2>13. sale' = sale /\ orders' = orders
      BY <2>1
    <2> HIDE DEF old
    <2> QED
      BY <2>2, <2>9, <2>10, <2>11, <2>12, <2>13, MerchantMoves
  <1> QED
    BY <1>1, <1>2

\* The confirmed order holds its units from now on.
LEMMA ConfirmCommitKeepsStock ==
    ASSUME IInv, StockInv, NEW m \in Merchants, ConfirmCommit(m)
    PROVE  StockInv'
  <1> DEFINE old == confirm[m]
             o == old.order
             took == old.took
  <1>0. /\ ConfirmIsRight(m, old, orders, stock, rowLock) /\ old \in Confirmation
        /\ Connections /\ Balanced(orders, stock) /\ m \notin Tabs /\ m # Nobody
    BY ConfirmShape
  <1>1. /\ o # 0 /\ old.todo = {} /\ ConfirmEnd(m)
        /\ stock' = [i \in Items |-> stock[i] - took[i]]
        /\ orders' = [orders EXCEPT ![o].held = TRUE]
    BY DEF ConfirmCommit
  <1>2. /\ confirm' = [confirm EXCEPT ![m] = NoConfirm] /\ sale' = sale
        /\ rowLock' = [i \in Items |-> IF rowLock[i] = m THEN Nobody ELSE rowLock[i]]
    BY <1>1 DEF ConfirmEnd, Release
  <1>3. /\ o \in DOMAIN orders /\ ~orders[o].held /\ took \in Amounts
        /\ \A i \in Items : took[i] = orders[o].units[i]
        /\ \A i \in Items : stock[i] \in Nat
        /\ Locked(m, took, stock, rowLock)
    BY <1>0, <1>1 DEF ConfirmIsRight, Confirmation, Balanced
  <1>4. \A i \in Items : took[i] <= stock[i]
    BY <1>3 DEF Locked, Amounts
  <1>5. PICK S : orders \in Seq(S)
    BY DEF IInv, Shapes
  <1>6. /\ DOMAIN orders' = DOMAIN orders /\ orders'[o].units = orders[o].units
        /\ orders'[o].held = TRUE
        /\ \A n \in DOMAIN orders : n # o => orders'[n] = orders[n]
    <2>1. IsOrder(orders[o])
      BY <1>3 DEF IInv, Shapes
    <2> HIDE DEF o
    <2> QED
      BY <1>1, <1>3, <2>1 DEF IsOrder
  <1>7. Balanced(orders', stock')
    <2> DEFINE os2 == orders'
               left2 == stock'
    <2>1. Hold(orders, stock, o, took, os2, left2)
      BY <1>1, <1>3, <1>4, <1>6 DEF Hold
    <2>2. Balanced(os2, left2)
      <3> HIDE DEF os2, left2, o, took, old
      <3> QED
        BY <1>0, <1>5, <2>1, OrderHeld
    <2> QED
      BY <2>2 DEF os2, left2
  <1>8. LeavesOthers(m)
    <2> SUFFICES ASSUME NEW i \in Items, rowLock[i] \notin {m, Nobody}
                 PROVE  rowLock'[i] = rowLock[i] /\ stock'[i] = stock[i]
      BY DEF LeavesOthers
    <2>1. took[i] = 0
      BY <1>3 DEF Locked
    <2> QED
      BY <1>1, <1>2, <1>3, <2>1
  <1>9. ConfirmIsRight(m, NoConfirm, orders', stock', rowLock') /\ NoConfirm.order = 0
    BY NoConfirmIsRight
  <1>10. Connections'
    BY <1>1, ConnectionsAfterConfirm
  <1>11. \A n \in DOMAIN orders :
            n \in DOMAIN orders' /\ (n # confirm[m].order \/ n = 0 => orders'[n] = orders[n])
    BY <1>1, <1>6
  <1> QED
    BY <1>2, <1>7, <1>8, <1>9, <1>10, <1>11, MerchantMoves

-----------------------------------------------------------------------------
(* All of them.                                                             *)

LEMMA StockRest ==
    ASSUME StockInv, UNCHANGED <<sale, confirm, orders, stock, tenantLock, rowLock, pool>>
    PROVE  StockInv'
  <1>1. Connections'
    BY DEF StockInv, Connections
  <1> QED
    BY <1>1 DEF StockInv

LEMMA CartStepsKeepStock ==
    ASSUME StockInv,
           \/ \E q \in Tabs \X Slots : EditStep(q)
           \/ \E t \in Tabs, i \in Items : AddStart(t, i)
           \/ \E t \in Tabs, l \in LineIds : UpdateItem(t, l) \/ RemoveItem(t, l)
           \/ \E t \in Tabs, c \in CartIds : Adopt(t, c)
           \/ UNCHANGED vars
    PROVE  StockInv'
  <1> USE DEF shopVars, lockVars
  <1>1. ASSUME NEW q, EditStep(q)
        PROVE  UNCHANGED <<sale, confirm, orders, stock, tenantLock, rowLock, pool>>
    BY <1>1 DEF EditStep, AddFind, AddWrite
  <1>2. ASSUME NEW t, NEW i, AddStart(t, i)
        PROVE  UNCHANGED <<sale, confirm, orders, stock, tenantLock, rowLock, pool>>
    BY <1>2 DEF AddStart
  <1>3. ASSUME NEW t, NEW l, UpdateItem(t, l) \/ RemoveItem(t, l)
        PROVE  UNCHANGED <<sale, confirm, orders, stock, tenantLock, rowLock, pool>>
    BY <1>3 DEF UpdateItem, RemoveItem, ChangeLine
  <1>4. ASSUME NEW t, NEW c, Adopt(t, c)
        PROVE  UNCHANGED <<sale, confirm, orders, stock, tenantLock, rowLock, pool>>
    BY <1>4 DEF Adopt
  <1>5. ASSUME UNCHANGED vars
        PROVE  UNCHANGED <<sale, confirm, orders, stock, tenantLock, rowLock, pool>>
    BY <1>5 DEF vars
  <1> QED
    BY <1>1, <1>2, <1>3, <1>4, <1>5, StockRest

LEMMA NextStockInv == IInv /\ CartInv /\ StockInv /\ [Next]_vars => StockInv'
  <1> SUFFICES ASSUME IInv, CartInv, StockInv, [Next]_vars PROVE StockInv'
    OBVIOUS
  <1>1. ASSUME NEW t \in Tabs, SaleStep(t) \/ SessionFails(t) \/ TimesOut(t)
        PROVE  StockInv'
    <2>1. CASE Victim(t) \/ TimesOut(t)
      BY <2>1, RollbackKeepsStock DEF Victim, TimesOut
    <2>2. CASE LoadConfig(t) \/ Begin(t) \/ Answer(t) \/ SessionFails(t)
      BY <2>2, EarlyStepsKeepStock
    <2> QED
      BY <1>1, <2>1, <2>2, LockKeepsStock, TakeKeepsStock, FinishKeepsStock DEF SaleStep
  <1>2. ASSUME NEW m \in Merchants, ConfirmStep(m)
        PROVE  StockInv'
    <2>1. CASE Victim(m)
      <3>1. ConfirmEnd(m) /\ UNCHANGED <<orders, stock>>
        BY <2>1, CartAssumption DEF Victim
      <3> QED
        BY <3>1, ConfirmEndKeepsStock
    <2> QED
      BY <1>2, <2>1, ConfirmRowKeepsStock, ConfirmCommitKeepsStock DEF ConfirmStep
  <1>3. ASSUME NEW m \in Merchants, NEW o \in DOMAIN orders, ConfirmStart(m, o)
        PROVE  StockInv'
    BY <1>3, ConfirmStartKeepsStock
  <1>4. CASE ShopperStep
    <2>1. ASSUME NEW t \in Tabs, NEW method \in Methods, Submit(t, method)
          PROVE  StockInv'
      BY <2>1, EarlyStepsKeepStock
    <2> QED
      BY <1>4, <2>1, CartStepsKeepStock DEF ShopperStep
  <1>5. CASE (\E q \in Tabs \X Slots : EditStep(q)) \/ UNCHANGED vars
    BY <1>5, CartStepsKeepStock
  <1> QED
    BY <1>1, <1>2, <1>3, <1>4, <1>5 DEF Next

LEMMA InitStockInv == Init => StockInv
  <1> SUFFICES ASSUME Init PROVE StockInv
    OBVIOUS
  <1>1. /\ sale = [t \in Tabs |-> NoSale] /\ confirm = [m \in Merchants |-> NoConfirm]
        /\ orders = <<>> /\ stock = InitialStock /\ stock \in [Items -> Nat]
        /\ tenantLock = Nobody /\ rowLock = [i \in Items |-> Nobody] /\ pool = {}
    BY CartAssumption DEF Init
  <1>2. Connections
    <2>1. IsFiniteSet(pool) /\ Cardinality(pool) <= PoolSize
      BY <1>1, FS_EmptySet, CartAssumption
    <2> QED
      BY <1>1, <2>1, NoSaleIsRight, NoConfirmIsRight DEF Connections
  <1>3. Balanced(orders, stock)
    <2>1. DOMAIN orders = {}
      BY <1>1
    <2>2. \A i \in Items : SumFunctionOnSet(Holds(orders, i), DOMAIN orders) = 0
      BY <2>1, SumEmpty
    <2> QED
      BY <1>1, <2>1, <2>2 DEF Balanced
  <1>4. \A t \in Tabs : SaleIsRight(t, sale[t], stock, rowLock)
    BY <1>1, NoSaleIsRight
  <1>5. \A m \in Merchants : /\ ConfirmIsRight(m, confirm[m], orders, stock, rowLock)
                             /\ confirm[m].order = 0
    BY <1>1, NoConfirmIsRight
  <1> QED
    BY <1>1, <1>2, <1>3, <1>4, <1>5 DEF StockInv

LEMMA StockIsRight == Spec => []StockInv
  <1> QED
    BY InitStockInv, NextStockInv, CheckoutInvariant, CartsAreRight, PTL DEF Spec

\* Nobody is in the database without a connection, or has a lock without one.
THEOREM TypesHold == Spec => []TypeOK
  <1>1. ASSUME CartInv, StockInv PROVE TypeOK
    <2>1. /\ jar \in [Browsers -> CartIds \cup {NoCart}]
          /\ carts \subseteq used /\ used \subseteq CartIds
          /\ line \in [LineIds -> Line \cup {NoLine}]
          /\ edit \in [Tabs \X Slots -> EditRow]
      BY <1>1 DEF CartInv, CartTypes, Rows
    <2>2. sale \in [Tabs -> SaleRow] /\ confirm \in [Merchants -> Confirmation]
      BY <1>1 DEF StockInv, SaleIsRight, ConfirmIsRight
    <2>3. stock \in [Items -> Nat]
      BY <1>1 DEF StockInv, Balanced
    <2>4. Connections
      BY <1>1 DEF StockInv
    <2>5. {tenantLock} \cup {rowLock[i] : i \in Items} \subseteq pool \cup {Nobody}
      BY <2>4 DEF Connections
    <2>6. /\ tenantLock \in Tabs \cup {Nobody}
          /\ rowLock \in [Items -> Tabs \cup Merchants \cup {Nobody}]
          /\ pool \subseteq Tabs \cup Merchants /\ Cardinality(pool) <= PoolSize
          /\ \A t \in Tabs : sale[t].at \in {"lock", "rows"} => t \in pool
      BY <2>4 DEF Connections
    <2> QED
      BY <2>1, <2>2, <2>3, <2>5, <2>6 DEF TypeOK, EditRow, SaleRow, Confirmation
  <1> QED
    BY <1>1, CartsAreRight, StockIsRight, PTL

\* Units leave the stock into orders and nowhere else: what a checkout or a
\* confirmation commits it has taken from rows it has locked (Locked), line by
\* line or item by item (TakenOf), and no two of them from one row.
THEOREM StockIsKept == Spec => []StockAddsUp
  <1>1. ASSUME IInv, StockInv PROVE StockAddsUp
    <2> SUFFICES ASSUME NEW i \in Items
                 PROVE  /\ stock[i] >= 0
                        /\ stock[i] + SumFunctionOnSet([n \in DOMAIN orders |-> orders[n].units[i]],
                                                       {n \in DOMAIN orders : orders[n].held})
                           = InitialStock[i]
      BY DEF StockAddsUp
    <2> DEFINE D == DOMAIN orders
               f == [n \in D |-> orders[n].units[i]]
               T == {n \in D : orders[n].held}
               g == [n \in D |-> IF n \in T THEN f[n] ELSE 0]
    <2>1. Balanced(orders, stock)
      BY <1>1 DEF StockInv
    <2>2. IsFiniteSet(D)
      <3>1. PICK S : orders \in Seq(S)
        BY <1>1 DEF IInv, Shapes
      <3>2. D = 1..Len(orders) /\ Len(orders) \in Nat
        BY <3>1
      <3> QED
        BY <3>2, FS_Interval
    <2>3. T \in SUBSET D /\ \A n \in D : f[n] \in Int
      BY <2>1 DEF Balanced, Amounts
    <2>4. g = Holds(orders, i)
      BY DEF Holds
    <2>5. stock[i] \in Nat /\ stock[i] + SumFunctionOnSet(Holds(orders, i), D) = InitialStock[i]
      BY <2>1 DEF Balanced
    <2>6. SumFunctionOnSet(f, T) = SumFunctionOnSet(g, D)
      <3> HIDE DEF D, f, T
      <3> QED
        BY <2>2, <2>3, SumPart
    <2> HIDE DEF g
    <2> QED
      BY <2>4, <2>5, <2>6
  <1> QED
    BY <1>1, CheckoutInvariant, StockIsRight, PTL
=============================================================================
