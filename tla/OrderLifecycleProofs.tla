------------------------ MODULE OrderLifecycleProofs ------------------------
(****************************************************************************)
(* Proofs about OrderLifecycle for every number of orders, every catalogue, *)
(* every set of baskets and every batch limit.                              *)
(****************************************************************************)
EXTENDS OrderLifecycle, FiniteLemmas

(****************************************************************************)
(* The inductive invariant: the checked properties, and what a not yet      *)
(* placed and an open order look like.                                      *)
(****************************************************************************)
AbsentIsFresh ==
    \A o \in Orders : status[o] = "ABSENT" =>
        payment[o] = "PENDING" /\ provider[o] = "null" /\ reservation[o] = "none"

OpenIsUndecided ==
    \A o \in Orders : status[o] = "PENDING" =>
        payment[o] \in (IF provider[o] = "null" THEN {"COD"} ELSE {"PENDING", "FAILED"})

\* What makes it safe that the sweep does not re-read stockReservedUntil under
\* the lock: a candidate was reserved once, so it pays online, and if it is
\* still PENDING its reservation is still there.
CandidatesPayOnline == \A o \in batch : provider[o] = "gateway"

\* An order whose product's tracking changed while it held units still holds
\* them or is over: it never takes a second basket.
SkewedAreOver == \A o \in disturbed : Holding(o) \/ status[o] = "CANCELLED"

IInv ==
    /\ TypeOK
    /\ CandidatesPayOnline
    /\ AbsentIsFresh
    /\ OpenIsUndecided
    /\ OpenClaimHasDeadline
    /\ FulfilledOnlineIsDecided
    /\ HeldStock
    /\ SkewedAreOver

-----------------------------------------------------------------------------
(* adjustStockLine, seen from outside: a stock row is a natural number      *)
(* after it, the movement of every tracked line is journaled in full, and   *)
(* no other order's journal is touched.                                     *)
LEMMA MoveStockEffect ==
    ASSUME TypeOK, NEW o \in Orders, NEW b \in [Skus -> Nat], NEW sign \in {-1, 1},
           MoveStock(o, b, sign)
    PROVE  /\ stock' \in [Skus -> Nat]
           /\ net' \in [Orders -> [Skus -> Int]]
           /\ \A s \in Skus : net'[o][s] = net[o][s] + (IF IsTracked(s) THEN sign * b[s] ELSE 0)
           /\ \A s \in Skus : stock'[s] = stock[s] + (IF IsTracked(s) THEN sign * b[s] ELSE 0)
           /\ \A q \in Orders : q # o => net'[q] = net[q]
           /\ UNCHANGED <<intake, life, tracked, disturbed>>
  <1> DEFINE d == Delta(b, sign)
  <1>1. d \in [Skus -> Int] /\ \A s \in Skus : d[s] = IF IsTracked(s) THEN sign * b[s] ELSE 0
    BY DEF Delta
  <1>2. \A s \in Skus : stock[s] + d[s] \in Nat
    <2> TAKE s \in Skus
    <2>1. stock[s] \in Nat /\ b[s] \in Nat
      BY DEF TypeOK
    <2>2. CASE b[s] > 0 /\ IsTracked(s)
      BY <1>1, <2>1, <2>2 DEF MoveStock, CanMove
    <2>3. CASE ~(b[s] > 0 /\ IsTracked(s))
      BY <1>1, <2>1, <2>3
    <2> QED
      BY <2>2, <2>3
  <1>3. stock' = [s \in Skus |-> stock[s] + d[s]]
    BY DEF MoveStock
  <1>4. net' = [net EXCEPT ![o] = [s \in Skus |-> net[o][s] + d[s]]]
    BY DEF MoveStock
  <1>5. net \in [Orders -> [Skus -> Int]]
    BY DEF TypeOK
  <1>6. [s \in Skus |-> net[o][s] + d[s]] \in [Skus -> Int]
    BY <1>1, <1>5
  <1> HIDE DEF d
  <1>7. net' \in [Orders -> [Skus -> Int]]
    BY <1>4, <1>5, <1>6
  <1>8. \A s \in Skus : net'[o][s] = net[o][s] + d[s]
    BY <1>4, <1>5
  <1>9. \A q \in Orders : q # o => net'[q] = net[q]
    BY <1>4, <1>5
  <1>10. stock' \in [Skus -> Nat]
    BY <1>2, <1>3
  <1>11. \A s \in Skus : stock'[s] = stock[s] + d[s]
    BY <1>3
  <1>12. UNCHANGED <<intake, life, tracked, disturbed>>
    BY DEF MoveStock
  <1> QED
    BY <1>1, <1>7, <1>8, <1>9, <1>10, <1>11, <1>12

\* The initial state satisfies the invariant.
LEMMA InitIInv == Init => IInv
  <1> SUFFICES ASSUME Init PROVE IInv
    OBVIOUS
  <1> USE DEF Init
  <1>1. TypeOK
    BY SkusAssumption DEF TypeOK, Statuses, PaymentStatuses
  <1>2. AbsentIsFresh /\ OpenIsUndecided /\ OpenClaimHasDeadline /\ CandidatesPayOnline
    BY DEF AbsentIsFresh, OpenIsUndecided, OpenClaimHasDeadline, CandidatesPayOnline
  <1>3. FulfilledOnlineIsDecided
    BY DEF FulfilledOnlineIsDecided, Restockable
  <1>4. HeldStock /\ SkewedAreOver
    BY DEF HeldStock, BookedStock, SkewIsOneBasket, SkewedAreOver, Holding, Restockable
  <1> QED
    BY <1>1, <1>2, <1>3, <1>4 DEF IInv

-----------------------------------------------------------------------------
(* A step that moves no stock, or moves that of an order whose tracking did *)
(* not change, leaves the skewed orders as they were, provided none of them *)
(* stops or resumes holding its units.                                      *)
LEMMA SkewUntouched ==
    ASSUME IInv, UNCHANGED disturbed,
           \A q \in disturbed : /\ net'[q] = net[q] /\ lines'[q] = lines[q]
                                /\ Holding(q)' <=> Holding(q)
                                /\ status[q] = "CANCELLED" => status'[q] = "CANCELLED"
    PROVE  SkewIsOneBasket' /\ SkewedAreOver'
  <1>1. SkewIsOneBasket'
    BY DEF IInv, HeldStock, SkewIsOneBasket
  <1>2. SkewedAreOver'
    BY DEF IInv, SkewedAreOver
  <1> QED
    BY <1>1, <1>2

(* One lemma per operation: it preserves the invariant.                     *)

LEMMA CheckoutCodStep ==
    ASSUME IInv, NEW o \in Orders, NEW b \in Baskets, CheckoutCod(o, b)
    PROVE  IInv'
  <1> USE DEF IInv, HeldStock, CheckoutCod, PlaceOrder, stockVars
  <1>1. TypeOK'
    BY SkusAssumption DEF TypeOK, Statuses, PaymentStatuses
  <1>2. AbsentIsFresh' /\ OpenIsUndecided' /\ CandidatesPayOnline'
    BY DEF TypeOK, CandidatesPayOnline, AbsentIsFresh, OpenIsUndecided
  <1>3. OpenClaimHasDeadline' /\ FulfilledOnlineIsDecided'
    BY DEF TypeOK, AbsentIsFresh, OpenClaimHasDeadline, FulfilledOnlineIsDecided, Restockable
  <1>4. BookedStock'
    BY DEF TypeOK, AbsentIsFresh, BookedStock, Holding, Restockable, IsTracked
  <1>8. \A q \in disturbed : q # o
    BY DEF SkewedAreOver, AbsentIsFresh, Holding, Restockable
  <1>9. SkewIsOneBasket' /\ SkewedAreOver'
    <2>1. \A q \in disturbed : /\ net'[q] = net[q] /\ lines'[q] = lines[q]
                               /\ Holding(q)' <=> Holding(q)
                               /\ status'[q] = status[q]
      BY <1>8 DEF TypeOK, Holding
    <2> QED
      BY <2>1, SkewUntouched
  <1> QED
    BY <1>9, <1>1, <1>2, <1>3, <1>4

LEMMA CheckoutOnlineStep ==
    ASSUME IInv, NEW o \in Orders, NEW b \in Baskets, CheckoutOnline(o, b)
    PROVE  IInv'
  <1> USE DEF IInv, HeldStock, CheckoutOnline, PlaceOrder
  <1>1. /\ stock' \in [Skus -> Nat]
        /\ net' \in [Orders -> [Skus -> Int]]
        /\ \A s \in Skus : net'[o][s] = net[o][s] + (IF IsTracked(s) THEN (-1) * b[s] ELSE 0)
        /\ \A q \in Orders : q # o => net'[q] = net[q]
        /\ UNCHANGED <<intake, life, tracked, disturbed>>
    BY SkusAssumption, MoveStockEffect
  <1>2. TypeOK'
    BY <1>1, SkusAssumption DEF TypeOK, Statuses, PaymentStatuses
  <1>3. AbsentIsFresh' /\ OpenIsUndecided' /\ CandidatesPayOnline'
    BY DEF TypeOK, CandidatesPayOnline, AbsentIsFresh, OpenIsUndecided
  <1>4. OpenClaimHasDeadline' /\ FulfilledOnlineIsDecided'
    BY DEF TypeOK, AbsentIsFresh, OpenClaimHasDeadline, FulfilledOnlineIsDecided, Restockable
  <1>5. BookedStock'
    <2> SUFFICES ASSUME NEW q \in Orders \ disturbed, NEW s \in Skus
                 PROVE  net'[q][s] = IF Holding(q)' /\ IsTracked(s) THEN -lines'[q][s] ELSE 0
      BY <1>1 DEF BookedStock, IsTracked
    <2>1. CASE q = o
      <3>1. net[o][s] = 0
        BY <2>1 DEF BookedStock, AbsentIsFresh, Holding, Restockable
      <3>2. Holding(o)' /\ lines'[o] = b /\ b[s] \in Nat
        BY SkusAssumption DEF Holding, TypeOK
      <3> QED
        BY <1>1, <2>1, <3>1, <3>2
    <2>2. CASE q # o
      <3>1. net'[q] = net[q] /\ lines'[q] = lines[q] /\ (Holding(q)' <=> Holding(q))
        BY <1>1, <2>2 DEF Holding, TypeOK
      <3> QED
        BY <3>1 DEF BookedStock
    <2> QED
      BY <2>1, <2>2
  <1>8. \A q \in disturbed : q # o
    BY DEF SkewedAreOver, AbsentIsFresh, Holding, Restockable
  <1>9. SkewIsOneBasket' /\ SkewedAreOver'
    <2>1. \A q \in disturbed : /\ net'[q] = net[q] /\ lines'[q] = lines[q]
                               /\ Holding(q)' <=> Holding(q)
                               /\ status'[q] = status[q]
      BY <1>1, <1>8 DEF TypeOK, Holding
    <2> QED
      BY <1>1, <2>1, SkewUntouched
  <1> QED
    BY <1>9, <1>2, <1>3, <1>4, <1>5

LEMMA MarkPaidStep ==
    ASSUME IInv, NEW o \in Orders, MarkPaid(o)
    PROVE  IInv'
  <1> USE DEF IInv, HeldStock, MarkPaid, CanMarkPaid, stockVars
  <1>1. TypeOK'
    BY DEF TypeOK, Statuses, PaymentStatuses
  <1>2. AbsentIsFresh' /\ OpenIsUndecided' /\ CandidatesPayOnline'
    BY DEF TypeOK, CandidatesPayOnline, AbsentIsFresh, OpenIsUndecided
  <1>3. OpenClaimHasDeadline' /\ FulfilledOnlineIsDecided'
    BY DEF TypeOK, OpenClaimHasDeadline, FulfilledOnlineIsDecided, Restockable
  <1>4. Holding(o)
    BY DEF OpenIsUndecided, OpenClaimHasDeadline, Holding
  <1>5. \A q \in Orders : Holding(q)' <=> Holding(q)
    BY <1>4 DEF TypeOK, Holding, Restockable
  <1>6. BookedStock'
    BY <1>5 DEF BookedStock, IsTracked
  <1>7. \A q \in Orders : status[q] = "CANCELLED" => status'[q] = "CANCELLED"
    BY DEF TypeOK
  <1>8. SkewIsOneBasket' /\ SkewedAreOver'
    BY <1>5, <1>7, SkewUntouched DEF TypeOK
  <1> QED
    BY <1>8, <1>1, <1>2, <1>3, <1>6

LEMMA MarkFailedStep ==
    ASSUME IInv, NEW o \in Orders, MarkFailed(o)
    PROVE  IInv'
  <1> USE DEF IInv, HeldStock, MarkFailed, CanMarkFailed, stockVars
  <1>1. TypeOK'
    BY DEF TypeOK, Statuses, PaymentStatuses
  <1>2. AbsentIsFresh' /\ OpenIsUndecided' /\ CandidatesPayOnline'
    BY DEF TypeOK, CandidatesPayOnline, AbsentIsFresh, OpenIsUndecided
  <1>3. OpenClaimHasDeadline' /\ FulfilledOnlineIsDecided'
    BY DEF TypeOK, OpenClaimHasDeadline, FulfilledOnlineIsDecided, Restockable
  <1>4. BookedStock'
    BY DEF BookedStock, Holding, IsTracked
  <1>5. SkewIsOneBasket' /\ SkewedAreOver'
    BY SkewUntouched DEF Holding
  <1> QED
    BY <1>5, <1>1, <1>2, <1>3, <1>4

(****************************************************************************)
(* The common argument for a step that gives the lines of a held order back,*)
(* or takes those of an order that held nothing, and flips Holding with it. *)
(****************************************************************************)
LEMMA MovedWithHolding ==
    ASSUME TypeOK, HeldStock, NEW o \in Orders, NEW sign \in {-1, 1},
           MoveStock(o, lines[o], sign), UNCHANGED lines,
           Holding(o) <=> sign = 1,
           Holding(o)' <=> sign = -1,
           sign = -1 => o \notin disturbed,
           \A q \in Orders : q # o => (Holding(q)' <=> Holding(q))
    PROVE  HeldStock'
  <1>1. lines[o] \in [Skus -> Nat]
    BY DEF TypeOK
  <1>2. /\ \A s \in Skus : net'[o][s] = net[o][s] + (IF IsTracked(s) THEN sign * lines[o][s] ELSE 0)
        /\ \A q \in Orders : q # o => net'[q] = net[q]
        /\ UNCHANGED <<intake, life, tracked, disturbed>>
    BY <1>1, MoveStockEffect
  <1>3. BookedStock'
    <2> SUFFICES ASSUME NEW q \in Orders \ disturbed, NEW s \in Skus
                 PROVE  net'[q][s] = IF Holding(q)' /\ IsTracked(s) THEN -lines[q][s] ELSE 0
      BY <1>2 DEF BookedStock, IsTracked
    <2>1. net[q][s] = IF Holding(q) /\ IsTracked(s) THEN -lines[q][s] ELSE 0
      BY DEF HeldStock, BookedStock
    <2>2. CASE q = o
      <3>1. lines[o][s] \in Nat
        BY <1>1
      <3>2. CASE sign = 1
        BY <1>2, <2>1, <2>2, <3>1, <3>2
      <3>3. CASE sign = -1
        BY <1>2, <2>1, <2>2, <3>1, <3>3
      <3> QED
        BY <3>2, <3>3
    <2>3. CASE q # o
      BY <1>2, <2>1, <2>3
    <2> QED
      BY <2>2, <2>3
  <1>4. SkewIsOneBasket'
    <2> SUFFICES ASSUME NEW q \in disturbed, NEW s \in Skus
                 PROVE  net'[q][s] \in {-lines[q][s], 0}
                                      \cup (IF Holding(q)' THEN {} ELSE {lines[q][s]})
      BY <1>2 DEF SkewIsOneBasket
    <2>1. q \in Orders /\ lines[q][s] \in Nat
      BY DEF TypeOK
    <2>2. net[q][s] \in {-lines[q][s], 0} \cup (IF Holding(q) THEN {} ELSE {lines[q][s]})
      BY DEF HeldStock, SkewIsOneBasket
    <2>3. CASE q = o
      <3>1. sign = 1 /\ Holding(o) /\ ~Holding(o)'
        BY <2>3
      <3>2. net[o][s] = -lines[o][s] \/ net[o][s] = 0
        BY <2>2, <2>3, <3>1
      <3>3. net'[o][s] = net[o][s] + (IF IsTracked(s) THEN lines[o][s] ELSE 0)
        BY <1>2, <2>1, <2>3, <3>1
      <3> QED
        BY <2>1, <2>3, <3>1, <3>2, <3>3
    <2>4. CASE q # o
      BY <1>2, <2>1, <2>2, <2>4
    <2> QED
      BY <2>3, <2>4
  <1> QED
    BY <1>3, <1>4 DEF HeldStock

LEMMA ConfirmStep ==
    ASSUME IInv, NEW o \in Orders, Confirm(o)
    PROVE  IInv'
  <1> USE DEF IInv, HeldStock, Confirm
  <1>1. /\ stock' \in [Skus -> Nat]
        /\ net' \in [Orders -> [Skus -> Int]]
        /\ UNCHANGED <<intake, life, tracked, disturbed>>
    <2>1. CASE reservation[o] = "none"
      BY <2>1, MoveStockEffect DEF TypeOK
    <2>2. CASE reservation[o] # "none"
      BY <2>2 DEF TypeOK, stockVars
    <2> QED
      BY <2>1, <2>2
  <1>2. TypeOK'
    BY <1>1 DEF TypeOK, Statuses, PaymentStatuses
  <1>3. AbsentIsFresh' /\ OpenIsUndecided' /\ CandidatesPayOnline'
    BY DEF TypeOK, CandidatesPayOnline, AbsentIsFresh, OpenIsUndecided
  <1>4. OpenClaimHasDeadline'
    BY DEF TypeOK, OpenClaimHasDeadline
  <1>5. FulfilledOnlineIsDecided'
    BY DEF TypeOK, OpenIsUndecided, BlockedByPendingPayment, FulfilledOnlineIsDecided, Restockable
  <1>6. Holding(o)' /\ \A q \in Orders : q # o => (Holding(q)' <=> Holding(q))
    BY DEF TypeOK, Holding, Restockable
  <1>7. HeldStock'
    <2>1. CASE reservation[o] = "none"
      <3>1. ~Holding(o)
        BY <2>1 DEF Holding, Restockable
      <3>2. o \notin disturbed
        BY <3>1 DEF SkewedAreOver
      <3> QED
        BY <2>1, <3>1, <3>2, <1>6, MovedWithHolding
    <2>2. CASE reservation[o] # "none"
      <3>1. Holding(o)
        BY <2>2 DEF Holding
      <3> QED
        BY <2>2, <3>1, <1>6 DEF BookedStock, SkewIsOneBasket, TypeOK, IsTracked, stockVars
    <2> QED
      BY <2>1, <2>2
  <1>8. SkewedAreOver'
    BY <1>1, <1>6 DEF SkewedAreOver, TypeOK
  <1> QED
    BY <1>8, <1>2, <1>3, <1>4, <1>5, <1>7

LEMMA FulfilStep ==
    ASSUME IInv, NEW o \in Orders, Fulfil(o)
    PROVE  IInv'
  <1> USE DEF IInv, HeldStock, Fulfil, FulfilmentStep, stockVars
  <1>1. TypeOK'
    BY DEF TypeOK, Statuses, PaymentStatuses
  <1>2. AbsentIsFresh' /\ OpenIsUndecided' /\ CandidatesPayOnline'
    BY DEF TypeOK, CandidatesPayOnline, AbsentIsFresh, OpenIsUndecided
  <1>3. OpenClaimHasDeadline' /\ FulfilledOnlineIsDecided'
    BY DEF TypeOK, OpenClaimHasDeadline, FulfilledOnlineIsDecided, Restockable
  <1>4. \A q \in Orders : Holding(q)' <=> Holding(q)
    BY DEF TypeOK, Holding, Restockable, OpenClaimHasDeadline
  <1>5. BookedStock'
    BY <1>4 DEF BookedStock, IsTracked
  <1>6. \A q \in Orders : status[q] = "CANCELLED" => status'[q] = "CANCELLED"
    BY DEF TypeOK
  <1>7. SkewIsOneBasket' /\ SkewedAreOver'
    BY <1>4, <1>6, SkewUntouched DEF TypeOK
  <1> QED
    BY <1>7, <1>1, <1>2, <1>3, <1>5

LEMMA CancelStep ==
    ASSUME IInv, NEW o \in Orders, Cancel(o)
    PROVE  IInv'
  <1> USE DEF IInv, HeldStock, Cancel, GivesBack
  <1>1. /\ stock' \in [Skus -> Nat]
        /\ net' \in [Orders -> [Skus -> Int]]
        /\ UNCHANGED <<intake, life, tracked, disturbed>>
    <2>1. CASE GivesBack(o)
      BY <2>1, MoveStockEffect DEF TypeOK
    <2>2. CASE ~GivesBack(o)
      BY <2>2 DEF TypeOK, stockVars
    <2> QED
      BY <2>1, <2>2
  <1>2. TypeOK'
    BY <1>1 DEF TypeOK, Statuses, PaymentStatuses
  <1>3. AbsentIsFresh' /\ OpenIsUndecided' /\ CandidatesPayOnline'
    BY DEF TypeOK, CandidatesPayOnline, AbsentIsFresh, OpenIsUndecided
  <1>4. OpenClaimHasDeadline' /\ FulfilledOnlineIsDecided'
    BY DEF TypeOK, OpenClaimHasDeadline, FulfilledOnlineIsDecided, Restockable
  <1>5. ~Holding(o)' /\ \A q \in Orders : q # o => (Holding(q)' <=> Holding(q))
    BY DEF TypeOK, Holding, Restockable
  <1>6. HeldStock'
    <2>1. CASE GivesBack(o)
      <3>1. Holding(o)
        BY <2>1 DEF Holding
      <3> QED
        BY <2>1, <3>1, <1>5, MovedWithHolding
    <2>2. CASE ~GivesBack(o)
      <3>1. ~Holding(o)
        BY <2>2 DEF Holding, Restockable
      <3> QED
        BY <2>2, <3>1, <1>5 DEF BookedStock, SkewIsOneBasket, TypeOK, IsTracked, stockVars
    <2> QED
      BY <2>1, <2>2
  <1>7. SkewedAreOver'
    BY <1>1, <1>5 DEF SkewedAreOver, TypeOK
  <1> QED
    BY <1>7, <1>2, <1>3, <1>4, <1>6

LEMMA LapseStep ==
    ASSUME IInv, NEW o \in Orders, Lapse(o)
    PROVE  IInv'
  <1> USE DEF IInv, HeldStock, Lapse, stockVars
  <1>1. TypeOK'
    BY DEF TypeOK, Statuses, PaymentStatuses
  <1>2. AbsentIsFresh' /\ OpenIsUndecided' /\ CandidatesPayOnline'
    BY DEF TypeOK, CandidatesPayOnline, AbsentIsFresh, OpenIsUndecided
  <1>3. OpenClaimHasDeadline' /\ FulfilledOnlineIsDecided'
    BY DEF TypeOK, OpenClaimHasDeadline, FulfilledOnlineIsDecided
  <1>4. BookedStock'
    BY DEF TypeOK, BookedStock, Holding, IsTracked
  <1>5. \A q \in Orders : Holding(q)' <=> Holding(q)
    BY DEF TypeOK, Holding
  <1>6. SkewIsOneBasket' /\ SkewedAreOver'
    BY <1>5, SkewUntouched DEF TypeOK
  <1> QED
    BY <1>6, <1>1, <1>2, <1>3, <1>4

LEMMA SweepStartStep == IInv /\ SweepStart => IInv'
  <1> SUFFICES ASSUME IInv, SweepStart PROVE IInv'
    OBVIOUS
  <1> USE DEF IInv, HeldStock, SweepStart, orderVars, stockVars
  <1>1. TypeOK'
    BY DEF TypeOK, OldestDue, Due
  <1>2. AbsentIsFresh' /\ OpenIsUndecided'
    BY DEF AbsentIsFresh, OpenIsUndecided
  <1>3. OpenClaimHasDeadline' /\ FulfilledOnlineIsDecided'
    BY DEF OpenClaimHasDeadline, FulfilledOnlineIsDecided
  <1>4. BookedStock'
    BY DEF BookedStock, Holding, IsTracked
  <1>5. CandidatesPayOnline'
    BY DEF CandidatesPayOnline, OldestDue, Due, OpenClaimHasDeadline, TypeOK
  <1>6. SkewIsOneBasket' /\ SkewedAreOver'
    BY SkewUntouched DEF Holding
  <1> QED
    BY <1>6, <1>1, <1>2, <1>3, <1>4, <1>5

LEMMA ExpireNextStep == IInv /\ ExpireNext => IInv'
  <1> SUFFICES ASSUME IInv,
                      NEW o \in batch, Expire(o) \/ PassOver(o), batch' = batch \ {o}
               PROVE  IInv'
    BY DEF ExpireNext
  <1> USE DEF IInv, HeldStock
  <1>1. o \in Orders
    BY DEF TypeOK
  <1>2. CASE PassOver(o)
    <2> USE <1>2 DEF PassOver, orderVars, stockVars
    <2>1. TypeOK' /\ AbsentIsFresh' /\ OpenIsUndecided'
      BY DEF TypeOK, AbsentIsFresh, OpenIsUndecided
    <2>2. OpenClaimHasDeadline' /\ FulfilledOnlineIsDecided' /\ CandidatesPayOnline'
      BY DEF OpenClaimHasDeadline, FulfilledOnlineIsDecided, CandidatesPayOnline
    <2>3. HeldStock' /\ SkewedAreOver'
      BY DEF BookedStock, SkewIsOneBasket, SkewedAreOver, Holding, IsTracked
    <2> QED
      BY <2>1, <2>2, <2>3
  <1>3. CASE Expire(o)
    <2> USE <1>1, <1>3 DEF Expire
    <2>1. /\ stock' \in [Skus -> Nat]
          /\ net' \in [Orders -> [Skus -> Int]]
          /\ UNCHANGED <<intake, life, tracked, disturbed>>
      BY MoveStockEffect DEF TypeOK
    <2>2. TypeOK'
      BY <2>1 DEF TypeOK, Statuses, PaymentStatuses
    <2>3. AbsentIsFresh' /\ OpenIsUndecided' /\ CandidatesPayOnline'
      BY DEF TypeOK, AbsentIsFresh, OpenIsUndecided, CandidatesPayOnline
    <2>4. OpenClaimHasDeadline' /\ FulfilledOnlineIsDecided'
      BY DEF TypeOK, OpenClaimHasDeadline, FulfilledOnlineIsDecided, Restockable
    <2>5. Holding(o) /\ ~Holding(o)'
      BY DEF TypeOK, Holding, Restockable, CandidatesPayOnline, OpenClaimHasDeadline
    <2>6. \A q \in Orders : q # o => (Holding(q)' <=> Holding(q))
      BY DEF TypeOK, Holding
    <2>7. HeldStock'
      BY <2>5, <2>6, MovedWithHolding
    <2>8. SkewedAreOver'
      BY <2>1, <2>6 DEF SkewedAreOver, TypeOK
    <2> QED
      BY <2>2, <2>3, <2>4, <2>7, <2>8
  <1> QED
    BY <1>2, <1>3

\* The catalogue edits leave every order column alone.
LEMMA CatalogPreservesOrders ==
    ASSUME IInv, UNCHANGED orderVars, UNCHANGED batch
    PROVE  /\ AbsentIsFresh' /\ OpenIsUndecided' /\ CandidatesPayOnline'
           /\ OpenClaimHasDeadline' /\ FulfilledOnlineIsDecided'
           /\ \A o \in Orders : Holding(o)' <=> Holding(o)
  BY DEF IInv, orderVars, AbsentIsFresh, OpenIsUndecided, CandidatesPayOnline,
         OpenClaimHasDeadline, FulfilledOnlineIsDecided, Holding

LEMMA AdjustStockStep ==
    ASSUME IInv, NEW s \in Skus, NEW d \in Deltas, AdjustStock(s, d)
    PROVE  IInv'
  <1>1. TypeOK'
    BY SkusAssumption, SizesAssumption DEF IInv, TypeOK, AdjustStock, orderVars
  <1>2. BookedStock' /\ SkewIsOneBasket' /\ SkewedAreOver'
    BY DEF IInv, HeldStock, BookedStock, SkewIsOneBasket, SkewedAreOver, AdjustStock, orderVars, Holding, IsTracked
  <1> QED
    BY <1>1, <1>2, CatalogPreservesOrders DEF IInv, HeldStock, AdjustStock

LEMMA ReplaceVariantsStep ==
    ASSUME IInv, NEW p \in Products, NEW fresh \in SUBSET VariantSkus, NEW units \in NewUnits,
           ReplaceVariants(p, fresh, units)
    PROVE  IInv'
  <1>1. TypeOK'
    BY SkusAssumption DEF IInv, TypeOK, ReplaceVariants, orderVars
  <1>2. BookedStock' /\ SkewIsOneBasket' /\ SkewedAreOver'
    BY DEF IInv, HeldStock, BookedStock, SkewIsOneBasket, SkewedAreOver, ReplaceVariants, orderVars, Holding, IsTracked
  <1> QED
    BY <1>1, <1>2, CatalogPreservesOrders DEF IInv, HeldStock, ReplaceVariants

LEMMA ToggleTrackingStep ==
    ASSUME IInv, NEW p \in Retracked, ToggleTracking(p)
    PROVE  IInv'
  <1> USE DEF IInv, HeldStock, ToggleTracking, orderVars
  <1>1. TypeOK'
    BY SkusAssumption DEF TypeOK
  <1>2. BookedStock'
    <2> SUFFICES ASSUME NEW o \in Orders \ disturbed', NEW s \in Skus
                 PROVE  net[o][s] = IF Holding(o) /\ IsTracked(s)' THEN -lines[o][s] ELSE 0
      BY DEF BookedStock, Holding
    <2>1. net[o][s] = IF Holding(o) /\ IsTracked(s) THEN -lines[o][s] ELSE 0
      BY DEF BookedStock
    <2>2. CASE ProductOf[s] = p
      <3>1. lines[o][s] \in Nat
        BY DEF TypeOK
      <3>2. Holding(o) => lines[o][s] = 0
        BY <2>2, <3>1 DEF Ordered
      <3> QED
        BY <2>1, <3>2
    <2>3. CASE ProductOf[s] # p
      <3>1. IsTracked(s)' <=> IsTracked(s)
        BY <2>3 DEF IsTracked
      <3> QED
        BY <2>1, <3>1
    <2> QED
      BY <2>2, <2>3
  <1>3. SkewIsOneBasket'
    <2> SUFFICES ASSUME NEW o \in disturbed', NEW s \in Skus
                 PROVE  net[o][s] \in {-lines[o][s], 0}
                                     \cup (IF Holding(o) THEN {} ELSE {lines[o][s]})
      BY DEF SkewIsOneBasket, Holding
    <2>1. CASE o \in disturbed
      BY <2>1 DEF SkewIsOneBasket
    <2>2. CASE o \in Orders \ disturbed
      BY <2>2 DEF BookedStock
    <2> QED
      BY <2>1, <2>2
  <1>4. SkewedAreOver'
    BY DEF SkewedAreOver, Holding
  <1> QED
    BY <1>3, <1>4, <1>1, <1>2, CatalogPreservesOrders

\* Every step of the system, and every stuttering step, preserves the invariant.
LEMMA NextIInv == IInv /\ [Next]_vars => IInv'
  <1> SUFFICES ASSUME IInv, [Next]_vars PROVE IInv'
    OBVIOUS
  <1>1. ASSUME NEW o \in Orders, OrderStep(o)
        PROVE  IInv'
    BY <1>1, CheckoutCodStep, CheckoutOnlineStep, MarkPaidStep, MarkFailedStep,
       ConfirmStep, FulfilStep, CancelStep, LapseStep DEF OrderStep, Checkout
  <1>2. CASE SweepStart
    BY <1>2, SweepStartStep
  <1>3. CASE ExpireNext
    BY <1>3, ExpireNextStep
  <1>4. CASE CatalogStep
    BY <1>4, AdjustStockStep, ReplaceVariantsStep, ToggleTrackingStep DEF CatalogStep
  <1>5. CASE UNCHANGED vars
    <2> USE <1>5 DEF vars, IInv
    <2>1. TypeOK'
      BY DEF TypeOK
    <2>2. HeldStock' /\ SkewedAreOver'
      BY DEF HeldStock, BookedStock, SkewIsOneBasket, SkewedAreOver, Holding, IsTracked
    <2> QED
      BY <2>1, <2>2, CatalogPreservesOrders DEF orderVars
  <1> QED
    BY <1>1, <1>2, <1>3, <1>4, <1>5 DEF Next

(****************************************************************************)
(* The inductive invariant holds in every reachable state.                  *)
(****************************************************************************)
THEOREM LifecycleInvariant == Spec => []IInv
  BY InitIInv, NextIInv, PTL DEF Spec

\* Columns keep their types; no stock row ever goes negative.
THEOREM LifecycleTypeOK == Spec => []TypeOK
  <1>1. IInv => TypeOK
    BY DEF IInv
  <1> QED
    BY <1>1, LifecycleInvariant, PTL

(****************************************************************************)
(* No double decrement, no double restock: what an order's movements took   *)
(* is what its status says it holds.                                        *)
(****************************************************************************)
THEOREM OrdersHoldWhatTheyTook == Spec => []HeldStock
  <1>1. IInv => HeldStock
    BY DEF IInv
  <1> QED
    BY <1>1, LifecycleInvariant, PTL

(****************************************************************************)
(* Exactly the open online orders hold a reservation the sweep can expire.  *)
(****************************************************************************)
THEOREM OpenClaimsHaveDeadlines == Spec => []OpenClaimHasDeadline
  <1>1. IInv => OpenClaimHasDeadline
    BY DEF IInv
  <1> QED
    BY <1>1, LifecycleInvariant, PTL

(****************************************************************************)
(* No online order is fulfilled while its payment is undecided.             *)
(****************************************************************************)
THEOREM FulfilledOnlineDecided == Spec => []FulfilledOnlineIsDecided
  <1>1. IInv => FulfilledOnlineIsDecided
    BY DEF IInv
  <1> QED
    BY <1>1, LifecycleInvariant, PTL

-----------------------------------------------------------------------------
(* The books of a stock row: the movements of all the orders.               *)

Journal(s) == [o \in Orders |-> net[o][s]]

\* A row that does not exist yet has no movements: it will be created with the
\* stock of the request and nothing else.
UnbornIsUntouched ==
    \A s \in Skus : life[s] = "unborn" => \A o \in Orders : net[o][s] = 0

Books == BooksBalance /\ UnbornIsUntouched

LEMMA OrdersAreFinite == IsFiniteSet(Orders)
  BY SizesAssumption, FS_Interval DEF Orders

LEMMA InitBooks == Init => Books
  <1> SUFFICES ASSUME Init PROVE Books
    OBVIOUS
  <1>1. \A o \in Orders, s \in Skus : net[o][s] = 0
    BY DEF Init
  <1>2. ASSUME NEW s \in Skus, life[s] = "live"
        PROVE  stock[s] = intake[s] + SumFunction(Journal(s))
    <2>1. SumFunctionOnSet(Journal(s), Orders) = 0
      <3>1. \A o \in Orders : Journal(s)[o] = 0
        BY <1>1 DEF Journal
      <3> QED
        BY <3>1, OrdersAreFinite, SumZero
    <2>2. SumFunction(Journal(s)) = 0
      BY <2>1 DEF SumFunction, Journal
    <2>3. intake[s] = stock[s] /\ stock[s] \in Int
      BY SkusAssumption DEF Init
    <2> QED
      BY <2>2, <2>3
  <1> QED
    BY <1>1, <1>2 DEF Books, BooksBalance, UnbornIsUntouched, Journal

\* What moves for an order is journaled on that order, and only on rows that exist.
LEMMA BooksAfterMove ==
    ASSUME TypeOK, Books, NEW o \in Orders, NEW b \in [Skus -> Nat], NEW sign \in {-1, 1},
           MoveStock(o, b, sign)
    PROVE  Books'
  <1> DEFINE d(s) == IF IsTracked(s) THEN sign * b[s] ELSE 0
  <1>1. /\ net' \in [Orders -> [Skus -> Int]]
        /\ \A s \in Skus : net'[o][s] = net[o][s] + d(s)
        /\ \A s \in Skus : stock'[s] = stock[s] + d(s)
        /\ \A q \in Orders : q # o => net'[q] = net[q]
        /\ UNCHANGED <<intake, life>>
    BY MoveStockEffect
  <1>2. \A s \in Skus : d(s) \in Int
    BY DEF IsTracked
  <1>3. \A s \in Skus : life[s] # "live" => d(s) = 0
    <2> TAKE s \in Skus
    <2>1. b[s] \in Nat /\ (b[s] > 0 /\ IsTracked(s) => life[s] = "live")
      BY DEF MoveStock, CanMove
    <2>2. CASE b[s] = 0
      BY <2>2
    <2>3. CASE b[s] # 0
      BY <2>1, <2>3
    <2> QED
      BY <2>2, <2>3
  <1> HIDE DEF d
  <1>4. net \in [Orders -> [Skus -> Int]]
    BY DEF TypeOK
  <1>5. UnbornIsUntouched'
    <2> SUFFICES ASSUME NEW s \in Skus, life[s] = "unborn", NEW q \in Orders
                 PROVE  net'[q][s] = 0
      BY <1>1 DEF UnbornIsUntouched
    <2>1. net[q][s] = 0 /\ d(s) = 0
      BY <1>3 DEF Books, UnbornIsUntouched
    <2>2. CASE q = o
      BY <1>1, <2>1, <2>2
    <2>3. CASE q # o
      BY <1>1, <2>1, <2>3
    <2> QED
      BY <2>2, <2>3
  <1>6. ASSUME NEW s \in Skus, life'[s] = "live"
        PROVE  stock'[s] = intake'[s] + SumFunction(Journal(s)')
    <2> DEFINE f == Journal(s)
               g == Journal(s)'
    <2>1. \A q \in Orders : f[q] = net[q][s] /\ g[q] = net'[q][s] /\ f[q] \in Int /\ g[q] \in Int
      BY <1>1, <1>4 DEF Journal
    <2>2. DOMAIN f = Orders /\ DOMAIN g = Orders
      BY DEF Journal
    <2>3. g[o] = f[o] + d(s) /\ \A q \in Orders : q # o => g[q] = f[q]
      BY <1>1, <2>1
    <2>4. stock[s] = intake[s] + SumFunction(f)
      BY <1>1, <1>6 DEF Books, BooksBalance, Journal
    <2> HIDE DEF f, g
    <2>5. SumFunctionOnSet(g, Orders) = SumFunctionOnSet(f, Orders) - f[o] + g[o]
      BY <2>1, <2>3, OrdersAreFinite, SumChange
    <2>6. SumFunctionOnSet(f, Orders) \in Int
      BY <2>1, OrdersAreFinite, SumInt
    <2>7. SumFunction(f) = SumFunctionOnSet(f, Orders) /\ SumFunction(g) = SumFunctionOnSet(g, Orders)
      BY <2>2 DEF SumFunction
    <2>8. f[o] \in Int /\ d(s) \in Int /\ intake[s] \in Int
      BY <1>2, <2>1 DEF TypeOK
    <2>9. SumFunction(g) = SumFunction(f) + d(s)
      BY <2>3, <2>5, <2>6, <2>7, <2>8
    <2>10. stock'[s] = stock[s] + d(s) /\ intake'[s] = intake[s]
      BY <1>1
    <2>11. stock'[s] = intake'[s] + SumFunction(g)
      BY <2>4, <2>6, <2>7, <2>8, <2>9, <2>10
    <2> QED
      BY <2>11 DEF g
  <1> QED
    BY <1>5, <1>6 DEF Books, BooksBalance, Journal

\* The manual edits write the shelf and the books alike; a replaced variant's
\* rows get a fresh id, and a fresh id has no movements.
LEMMA BooksAfterEdit ==
    ASSUME TypeOK, Books, CatalogStep
    PROVE  Books'
  <1>1. ASSUME NEW s \in Skus, NEW d \in Deltas, AdjustStock(s, d)
        PROVE  Books'
    <2>1. UNCHANGED <<net, life>>
      BY <1>1 DEF AdjustStock
    <2>2. \A r \in Skus : Journal(r)' = Journal(r)
      BY <2>1 DEF Journal
    <2>3. ASSUME NEW r \in Skus, life[r] = "live"
          PROVE  stock'[r] = intake'[r] + SumFunction(Journal(r))
      <3>1. stock[r] = intake[r] + SumFunction(Journal(r)) /\ SumFunction(Journal(r)) \in Int
        <4>1. \A o \in Orders : Journal(r)[o] \in Int
          BY DEF Journal, TypeOK
        <4>2. SumFunction(Journal(r)) \in Int
          BY <4>1, OrdersAreFinite, SumInt DEF SumFunction, Journal
        <4> QED
          BY <2>3, <4>2 DEF Books, BooksBalance, Journal
      <3>2. stock[r] \in Int /\ intake[r] \in Int /\ d \in Int
        BY SkusAssumption DEF TypeOK
      <3>3. CASE r = s
        <4>1. stock'[r] = stock[r] + d /\ intake'[r] = intake[r] + d
          BY <1>1, <3>3 DEF AdjustStock, TypeOK
        <4> QED
          BY <3>1, <3>2, <4>1
      <3>4. CASE r # s
        <4>1. stock'[r] = stock[r] /\ intake'[r] = intake[r]
          BY <1>1, <3>4 DEF AdjustStock, TypeOK
        <4> QED
          BY <3>1, <4>1
      <3> QED
        BY <3>3, <3>4
    <2> QED
      BY <2>1, <2>2, <2>3 DEF Books, BooksBalance, UnbornIsUntouched, Journal
  <1>2. ASSUME NEW p \in Products, NEW fresh \in SUBSET VariantSkus, NEW units \in NewUnits,
               ReplaceVariants(p, fresh, units)
        PROVE  Books'
    <2> DEFINE dead == {s \in VariantSkus : ProductOf[s] = p /\ life[s] = "live"}
    <2>1. /\ net' = net
          /\ \A s \in fresh : life[s] = "unborn"
          /\ life' = [s \in Skus |-> IF s \in fresh THEN "live"
                                       ELSE IF s \in dead THEN "gone" ELSE life[s]]
          /\ stock' = [s \in Skus |-> IF s \in fresh THEN units
                                        ELSE IF s \in dead THEN 0 ELSE stock[s]]
          /\ intake' = [s \in Skus |-> IF s \in fresh THEN units
                                         ELSE IF s \in dead THEN 0 ELSE intake[s]]
      BY <1>2 DEF ReplaceVariants
    <2> HIDE DEF dead
    <2>2. UnbornIsUntouched'
      BY <2>1 DEF Books, UnbornIsUntouched
    <2>3. \A s \in Skus : Journal(s)' = Journal(s)
      BY <2>1 DEF Journal
    <2>4. ASSUME NEW s \in Skus, life'[s] = "live"
          PROVE  stock'[s] = intake'[s] + SumFunction(Journal(s))
      <3>1. CASE s \in fresh
        <4>1. \A o \in Orders : Journal(s)[o] = 0
          BY <2>1, <3>1 DEF Books, UnbornIsUntouched, Journal
        <4>2. SumFunction(Journal(s)) = 0
          BY <4>1, OrdersAreFinite, SumZero DEF SumFunction, Journal
        <4>3. stock'[s] = units /\ intake'[s] = units /\ units \in Int
          BY <2>1, <3>1, SkusAssumption
        <4> QED
          BY <4>2, <4>3
      <3>2. CASE s \notin fresh
        <4>1. s \notin dead /\ life[s] = "live"
          BY <2>1, <2>4, <3>2
        <4>2. stock'[s] = stock[s] /\ intake'[s] = intake[s]
          BY <2>1, <3>2, <4>1
        <4> QED
          BY <4>1, <4>2 DEF Books, BooksBalance, Journal
      <3> QED
        BY <3>1, <3>2
    <2> QED
      BY <2>2, <2>3, <2>4 DEF Books, BooksBalance, Journal
  <1>3. ASSUME NEW p \in Retracked, ToggleTracking(p)
        PROVE  Books'
    BY <1>3 DEF ToggleTracking, Books, BooksBalance, UnbornIsUntouched
  <1> QED
    BY <1>1, <1>2, <1>3 DEF CatalogStep

LEMMA NextBooks == IInv /\ Books /\ [Next]_vars => Books'
  <1> SUFFICES ASSUME IInv, Books, [Next]_vars PROVE Books'
    OBVIOUS
  <1>1. TypeOK
    BY DEF IInv
  <1>2. ASSUME UNCHANGED stockVars PROVE Books'
    BY <1>2 DEF stockVars, Books, BooksBalance, UnbornIsUntouched
  <1>3. ASSUME NEW o \in Orders, OrderStep(o)
        PROVE  Books'
    <2>1. ASSUME NEW b \in Baskets, CheckoutCod(o, b) \/ CheckoutOnline(o, b)
          PROVE  UNCHANGED stockVars \/ MoveStock(o, b, -1)
      BY <2>1 DEF CheckoutCod, CheckoutOnline
    <2>2. ASSUME Confirm(o) \/ Cancel(o)
          PROVE  \/ UNCHANGED stockVars
                 \/ MoveStock(o, lines[o], -1) \/ MoveStock(o, lines[o], 1)
      BY <2>2 DEF Confirm, Cancel
    <2>3. ASSUME MarkPaid(o) \/ MarkFailed(o) \/ Fulfil(o) \/ Lapse(o)
          PROVE  UNCHANGED stockVars
      BY <2>3 DEF MarkPaid, MarkFailed, Fulfil, Lapse
    <2>4. lines[o] \in [Skus -> Nat] /\ Baskets \subseteq [Skus -> Nat]
      BY <1>1, SkusAssumption DEF TypeOK
    <2> QED
      BY <1>1, <1>2, <1>3, <2>1, <2>2, <2>3, <2>4, BooksAfterMove DEF OrderStep, Checkout
  <1>4. CASE SweepStart \/ UNCHANGED vars
    BY <1>2, <1>4 DEF SweepStart, vars, stockVars
  <1>5. CASE ExpireNext
    <2>1. PICK o \in batch : Expire(o) \/ PassOver(o)
      BY <1>5 DEF ExpireNext
    <2>2. o \in Orders /\ lines[o] \in [Skus -> Nat]
      BY <1>1 DEF TypeOK
    <2>3. MoveStock(o, lines[o], 1) \/ UNCHANGED stockVars
      BY <2>1 DEF Expire, PassOver
    <2> QED
      BY <1>1, <1>2, <2>2, <2>3, BooksAfterMove
  <1>6. CASE CatalogStep
    BY <1>1, <1>6, BooksAfterEdit
  <1> QED
    BY <1>3, <1>4, <1>5, <1>6 DEF Next

(****************************************************************************)
(* The shelf, the manual intake and the orders' movements agree on every    *)
(* stock row, for every number of orders: no path moves stock without its   *)
(* movement, and none journals what it did not move.                        *)
(****************************************************************************)
THEOREM BooksAreBalanced == Spec => []BooksBalance
  <1>1. Books => BooksBalance
    BY DEF Books
  <1> QED
    BY <1>1, InitBooks, NextBooks, LifecycleInvariant, PTL DEF Spec

-----------------------------------------------------------------------------
(* What one step may do to a settled order.                                 *)
LEMMA SettledStep ==
    ASSUME IInv, Next, NEW o \in Orders, payment[o] = "PAID"
    PROVE  payment'[o] = "PAID" /\ (batch # batch' => status'[o] = status[o])
  <1>1. status[o] \notin {"ABSENT", "PENDING"}
    BY DEF IInv, AbsentIsFresh, OpenIsUndecided
  <1>2. payment \in [Orders -> PaymentStatuses] /\ status \in [Orders -> Statuses \cup {"ABSENT"}]
    BY DEF IInv, TypeOK
  <1>3. ASSUME NEW q \in Orders, OrderStep(q)
        PROVE  payment'[o] = "PAID" /\ batch' = batch
    <2> USE <1>1, <1>2, <1>3
    <2>1. CASE Checkout(q)
      BY <2>1 DEF Checkout, CheckoutCod, CheckoutOnline, PlaceOrder
    <2>2. CASE MarkPaid(q) \/ MarkFailed(q)
      BY <2>2 DEF MarkPaid, MarkFailed, CanMarkFailed
    <2>3. CASE Confirm(q) \/ Fulfil(q) \/ Cancel(q) \/ Lapse(q)
      BY <2>3 DEF Confirm, Fulfil, Cancel, Lapse
    <2> QED
      BY <2>1, <2>2, <2>3 DEF OrderStep
  <1>4. CASE SweepStart
    BY <1>4 DEF SweepStart, orderVars
  <1>5. CASE ExpireNext
    <2>1. PICK q \in batch : Expire(q) \/ PassOver(q)
      BY <1>5 DEF ExpireNext
    <2>2. CASE Expire(q)
      BY <1>1, <1>2, <2>2 DEF Expire
    <2>3. CASE PassOver(q)
      BY <2>3 DEF PassOver, orderVars
    <2> QED
      BY <2>1, <2>2, <2>3
  <1>6. CASE CatalogStep
    BY <1>6 DEF CatalogStep, AdjustStock, ReplaceVariants, ToggleTracking, orderVars
  <1> QED
    BY <1>3, <1>4, <1>5, <1>6 DEF Next

(****************************************************************************)
(* A PAID order stays PAID, and no expiry sweep moves it.                   *)
(****************************************************************************)
THEOREM SettlementFinal == Spec => SettlementIsFinal
  <1>1. IInv /\ [Next]_vars => [\A o \in Orders : payment[o] = "PAID" =>
                                    /\ payment'[o] = "PAID"
                                    /\ batch # batch' => status'[o] = status[o]]_vars
    BY SettledStep
  <1> QED
    BY <1>1, LifecycleInvariant, PTL DEF Spec, SettlementIsFinal

-----------------------------------------------------------------------------
(* The refinement: the state OrderContract sees, and the step it takes.     *)

claimOf == [o \in Orders |-> IF Holding(o) THEN "held" ELSE "none"]
phaseOf == [o \in Orders |-> PhaseOf(status[o])]

\* The phase each status stands for.
LEMMA PhaseValues ==
    /\ PhaseOf("ABSENT") = "absent"
    /\ PhaseOf("PENDING") = "open"
    /\ \A st \in Restockable : PhaseOf(st) = "accepted"
    /\ PhaseOf("DELIVERED") = "delivered"
    /\ PhaseOf("CANCELLED") = "closed"
  BY DEF PhaseOf, Restockable
settledOf == [o \in Orders |-> payment[o] = "PAID"]

\* A step that changes one order at most changes the contract's state at that
\* order at most.
LEMMA OneOrderAtATime ==
    ASSUME NEW o \in Orders,
           \A q \in Orders : q # o =>
                /\ status'[q] = status[q]
                /\ payment'[q] = payment[q]
                /\ reservation'[q] = reservation[q]
    PROVE  /\ phaseOf' = [phaseOf EXCEPT ![o] = PhaseOf(status'[o])]
           /\ claimOf' = [claimOf EXCEPT ![o] = IF Holding(o)' THEN "held" ELSE "none"]
           /\ settledOf' = [settledOf EXCEPT ![o] = (payment'[o] = "PAID")]
  <1>1. \A q \in Orders : q # o => PhaseOf(status'[q]) = PhaseOf(status[q])
    OBVIOUS
  <1>2. \A q \in Orders : q # o => (Holding(q)' <=> Holding(q))
    BY DEF Holding
  <1>3. phaseOf' = [phaseOf EXCEPT ![o] = PhaseOf(status'[o])]
    BY <1>1 DEF phaseOf
  <1>4. claimOf' = [claimOf EXCEPT ![o] = IF Holding(o)' THEN "held" ELSE "none"]
    BY <1>2 DEF claimOf
  <1>5. settledOf' = [settledOf EXCEPT ![o] = (payment'[o] = "PAID")]
    BY DEF settledOf
  <1> QED
    BY <1>3, <1>4, <1>5

LEMMA ContractInit == Init => Contract!Init
  <1> SUFFICES ASSUME Init PROVE Contract!Init
    OBVIOUS
  <1>1. \A o \in Orders : PhaseOf(status[o]) = "absent" /\ ~Holding(o)
    BY PhaseValues DEF Init, Holding, Restockable
  <1> QED
    BY <1>1 DEF Init, Contract!Init, Contract!Orders, Orders

\* The abstract steps, in terms of the mapped state.
LEMMA ContractSteps ==
    ASSUME NEW o \in Orders, NEW p, NEW c \in {"none", "held"}, NEW t \in BOOLEAN,
           phaseOf' = [phaseOf EXCEPT ![o] = p],
           claimOf' = [claimOf EXCEPT ![o] = c],
           settledOf' = [settledOf EXCEPT ![o] = t],
           \/ PhaseOf(status[o]) = "absent" /\ p = "open" /\ t = settledOf[o]
           \/ PhaseOf(status[o]) = "open" /\ Holding(o) /\ p = "accepted" /\ c = "held" /\ t = TRUE
           \/ PhaseOf(status[o]) = "open" /\ p = "accepted" /\ c = "held" /\ t = settledOf[o]
           \/ PhaseOf(status[o]) = "accepted" /\ p = "delivered" /\ c = claimOf[o] /\ t = settledOf[o]
           \/ PhaseOf(status[o]) \in {"open", "accepted"} /\ p = "closed" /\ c = "none" /\ t = settledOf[o]
    PROVE  Contract!Next
  <1> USE DEF phaseOf, claimOf, settledOf
  <1>1. CASE PhaseOf(status[o]) = "absent" /\ p = "open" /\ t = settledOf[o]
    <2>1. Contract!Open(o)
      BY <1>1 DEF Contract!Open
    <2> QED
      BY <2>1 DEF Contract!Next, Contract!Orders, Orders
  <1>2. CASE PhaseOf(status[o]) = "open" /\ Holding(o) /\ p = "accepted" /\ c = "held" /\ t = TRUE
    <2>1. claimOf' = claimOf
      BY <1>2
    <2>2. Contract!Settle(o)
      BY <1>2, <2>1 DEF Contract!Settle
    <2> QED
      BY <2>2 DEF Contract!Next, Contract!Orders, Orders
  <1>3. CASE PhaseOf(status[o]) = "open" /\ p = "accepted" /\ c = "held" /\ t = settledOf[o]
    <2>1. Contract!Accept(o)
      BY <1>3 DEF Contract!Accept
    <2> QED
      BY <2>1 DEF Contract!Next, Contract!Orders, Orders
  <1>4. CASE PhaseOf(status[o]) = "accepted" /\ p = "delivered" /\ c = claimOf[o] /\ t = settledOf[o]
    <2>1. Contract!Deliver(o)
      BY <1>4 DEF Contract!Deliver
    <2> QED
      BY <2>1 DEF Contract!Next, Contract!Orders, Orders
  <1>5. CASE PhaseOf(status[o]) \in {"open", "accepted"} /\ p = "closed" /\ c = "none" /\ t = settledOf[o]
    <2>1. Contract!Close(o)
      BY <1>5 DEF Contract!Close
    <2> QED
      BY <2>1 DEF Contract!Next, Contract!Orders, Orders
  <1> QED
    BY <1>1, <1>2, <1>3, <1>4, <1>5

\* A step that leaves every phase, claim and settlement alone is invisible.
LEMMA InvisibleStep ==
    ASSUME \A q \in Orders : /\ PhaseOf(status'[q]) = PhaseOf(status[q])
                             /\ Holding(q)' <=> Holding(q)
                             /\ (payment'[q] = "PAID") <=> (payment[q] = "PAID")
    PROVE  UNCHANGED Contract!vars
  BY DEF Contract!vars

LEMMA CheckoutContract ==
    ASSUME IInv, NEW o \in Orders, Checkout(o)
    PROVE  Contract!Next
  <1> DEFINE c == IF Holding(o)' THEN "held" ELSE "none"
  <1>1. /\ status[o] = "ABSENT" /\ status' = [status EXCEPT ![o] = "PENDING"]
        /\ \A q \in Orders : q # o => payment'[q] = payment[q] /\ reservation'[q] = reservation[q]
        /\ payment'[o] # "PAID"
    BY DEF Checkout, CheckoutCod, CheckoutOnline, PlaceOrder, IInv, TypeOK
  <1>2. PhaseOf(status[o]) = "absent" /\ PhaseOf(status'[o]) = "open"
    BY <1>1, PhaseValues DEF IInv, TypeOK
  <1>3. payment[o] # "PAID"
    BY <1>1 DEF IInv, AbsentIsFresh
  <1>4. \A q \in Orders : q # o => status'[q] = status[q]
    BY <1>1 DEF IInv, TypeOK
  <1>5. /\ phaseOf' = [phaseOf EXCEPT ![o] = "open"]
        /\ claimOf' = [claimOf EXCEPT ![o] = c]
        /\ settledOf' = [settledOf EXCEPT ![o] = FALSE]
    <2>1. (payment'[o] = "PAID") <=> FALSE
      BY <1>1
    <2> HIDE DEF c
    <2>2. (IF Holding(o)' THEN "held" ELSE "none") = c
      BY DEF c
    <2>3. \A q \in Orders : q # o =>
            status'[q] = status[q] /\ payment'[q] = payment[q] /\ reservation'[q] = reservation[q]
      BY <1>1, <1>4
    <2> QED
      BY <1>2, <2>1, <2>2, <2>3, OneOrderAtATime
  <1>6. settledOf[o] = FALSE
    BY <1>3 DEF settledOf
  <1> QED
    BY <1>2, <1>5, <1>6, ContractSteps

LEMMA MarkPaidContract ==
    ASSUME IInv, NEW o \in Orders, MarkPaid(o)
    PROVE  Contract!Next
  <1> USE DEF MarkPaid, CanMarkPaid, IInv, TypeOK
  <1>1. PhaseOf(status[o]) = "open" /\ PhaseOf(status'[o]) = "accepted" /\ payment'[o] = "PAID"
    <2>1. status[o] = "PENDING" /\ status'[o] = "CONFIRMED" /\ payment'[o] = "PAID"
      OBVIOUS
    <2> QED
      BY <2>1, PhaseValues DEF Restockable
  <1>2. Holding(o) /\ Holding(o)'
    BY DEF Holding, Restockable, OpenIsUndecided, OpenClaimHasDeadline
  <1>3. \A q \in Orders : q # o =>
            status'[q] = status[q] /\ payment'[q] = payment[q] /\ reservation'[q] = reservation[q]
    OBVIOUS
  <1>4. /\ phaseOf' = [phaseOf EXCEPT ![o] = "accepted"]
        /\ claimOf' = [claimOf EXCEPT ![o] = "held"]
        /\ settledOf' = [settledOf EXCEPT ![o] = TRUE]
    BY <1>1, <1>2, <1>3, OneOrderAtATime
  <1> QED
    BY <1>1, <1>2, <1>4, ContractSteps

LEMMA ConfirmContract ==
    ASSUME IInv, NEW o \in Orders, Confirm(o)
    PROVE  Contract!Next
  <1> USE DEF Confirm, IInv, TypeOK
  <1>1. PhaseOf(status[o]) = "open" /\ PhaseOf(status'[o]) = "accepted" /\ Holding(o)'
    <2>1. status[o] = "PENDING" /\ status'[o] = "CONFIRMED"
      OBVIOUS
    <2> QED
      BY <2>1, PhaseValues DEF Holding, Restockable
  <1>2. settledOf[o] = (payment'[o] = "PAID")
    BY DEF settledOf
  <1>3. \A q \in Orders : q # o =>
            status'[q] = status[q] /\ payment'[q] = payment[q] /\ reservation'[q] = reservation[q]
    OBVIOUS
  <1>4. /\ phaseOf' = [phaseOf EXCEPT ![o] = "accepted"]
        /\ claimOf' = [claimOf EXCEPT ![o] = "held"]
        /\ settledOf' = [settledOf EXCEPT ![o] = settledOf[o]]
    <2>1. /\ phaseOf' = [phaseOf EXCEPT ![o] = PhaseOf(status'[o])]
          /\ claimOf' = [claimOf EXCEPT ![o] = IF Holding(o)' THEN "held" ELSE "none"]
          /\ settledOf' = [settledOf EXCEPT ![o] = (payment'[o] = "PAID")]
      BY <1>3, OneOrderAtATime
    <2> QED
      BY <1>1, <1>2, <2>1
  <1>5. settledOf[o] \in BOOLEAN
    BY DEF settledOf
  <1> QED
    BY <1>1, <1>4, <1>5, ContractSteps

LEMMA FulfilContract ==
    ASSUME IInv, NEW o \in Orders, Fulfil(o)
    PROVE  Contract!Next \/ UNCHANGED Contract!vars
  <1> USE DEF Fulfil, FulfilmentStep, IInv, TypeOK
  <1>0. \/ status[o] = "CONFIRMED" /\ status'[o] = "PREPARING"
        \/ status[o] = "PREPARING" /\ status'[o] = "SHIPPED"
        \/ status[o] = "SHIPPED" /\ status'[o] = "DELIVERED"
    OBVIOUS
  <1>1. reservation[o] = "none"
    BY DEF OpenClaimHasDeadline
  <1>2. \A q \in Orders : q # o =>
            status'[q] = status[q] /\ payment'[q] = payment[q] /\ reservation'[q] = reservation[q]
    BY <1>1
  <1>3. Holding(o) /\ Holding(o)' /\ PhaseOf(status[o]) = "accepted"
    BY PhaseValues DEF Holding, Restockable
  <1>4. CASE status[o] = "SHIPPED"
    <2>1. PhaseOf(status'[o]) = "delivered"
      <3>1. status'[o] = "DELIVERED"
        BY <1>0, <1>4
      <3> QED
        BY <3>1, PhaseValues
    <2>2. ((payment'[o] = "PAID") <=> settledOf[o]) /\ settledOf[o] \in BOOLEAN /\ claimOf[o] = "held"
      BY <1>3 DEF settledOf, claimOf
    <2>3. /\ phaseOf' = [phaseOf EXCEPT ![o] = "delivered"]
          /\ claimOf' = [claimOf EXCEPT ![o] = "held"]
          /\ settledOf' = [settledOf EXCEPT ![o] = settledOf[o]]
      BY <1>2, <1>3, <2>1, <2>2, OneOrderAtATime
    <2> QED
      BY <1>3, <2>1, <2>2, <2>3, ContractSteps
  <1>5. CASE status[o] # "SHIPPED"
    <2>1. PhaseOf(status'[o]) = "accepted"
      <3>1. status'[o] \in Restockable
        BY <1>0, <1>5 DEF Restockable
      <3> QED
        BY <3>1, PhaseValues
    <2>2. \A q \in Orders : q # o => PhaseOf(status'[q]) = PhaseOf(status[q]) /\ (Holding(q)' <=> Holding(q))
      BY <1>2 DEF Holding
    <2> QED
      BY <1>3, <2>1, <2>2, InvisibleStep
  <1> QED
    BY <1>4, <1>5

\* Cancellation by the merchant and expiry by the sweep close the order alike.
LEMMA CloseContract ==
    ASSUME IInv, NEW o \in Orders, status[o] \in {"PENDING"} \cup Restockable,
           status' = [status EXCEPT ![o] = "CANCELLED"],
           reservation' = [reservation EXCEPT ![o] = "none"],
           (payment'[o] = "PAID") <=> (payment[o] = "PAID"),
           \A q \in Orders : q # o => payment'[q] = payment[q]
    PROVE  Contract!Next
  <1> USE DEF IInv, TypeOK
  <1>1. PhaseOf(status[o]) \in {"open", "accepted"} /\ PhaseOf(status'[o]) = "closed" /\ ~Holding(o)'
    <2>1. status'[o] = "CANCELLED" /\ reservation'[o] = "none"
      OBVIOUS
    <2> QED
      BY <2>1, PhaseValues DEF Holding, Restockable
  <1>2. ((payment'[o] = "PAID") <=> settledOf[o]) /\ settledOf[o] \in BOOLEAN
    BY DEF settledOf
  <1>3. \A q \in Orders : q # o =>
            status'[q] = status[q] /\ payment'[q] = payment[q] /\ reservation'[q] = reservation[q]
    OBVIOUS
  <1>4. /\ phaseOf' = [phaseOf EXCEPT ![o] = "closed"]
        /\ claimOf' = [claimOf EXCEPT ![o] = "none"]
        /\ settledOf' = [settledOf EXCEPT ![o] = settledOf[o]]
    BY <1>1, <1>2, <1>3, OneOrderAtATime
  <1> QED
    BY <1>1, <1>2, <1>4, ContractSteps

LEMMA ContractNext == IInv /\ [Next]_vars => [Contract!Next]_(Contract!vars)
  <1> SUFFICES ASSUME IInv, [Next]_vars
               PROVE  Contract!Next \/ UNCHANGED Contract!vars
    OBVIOUS
  <1>1. ASSUME NEW o \in Orders, OrderStep(o)
        PROVE  Contract!Next \/ UNCHANGED Contract!vars
    <2> USE <1>1
    <2>1. CASE Checkout(o)
      BY <2>1, CheckoutContract
    <2>2. CASE MarkPaid(o)
      BY <2>2, MarkPaidContract
    <2>3. CASE MarkFailed(o)
      BY <2>3, InvisibleStep DEF MarkFailed, CanMarkFailed, Holding, IInv, TypeOK
    <2>4. CASE Confirm(o)
      BY <2>4, ConfirmContract
    <2>5. CASE Fulfil(o)
      BY <2>5, FulfilContract
    <2>6. CASE Cancel(o)
      <3>1. (payment'[o] = "PAID") <=> (payment[o] = "PAID")
        BY <2>6 DEF Cancel, GivesBack, IInv, TypeOK
      <3> QED
        BY <2>6, <3>1, CloseContract DEF Cancel, GivesBack, IInv, TypeOK
    <2>7. CASE Lapse(o)
      BY <2>7, InvisibleStep DEF Lapse, Holding, IInv, TypeOK
    <2> QED
      BY <2>1, <2>2, <2>3, <2>4, <2>5, <2>6, <2>7 DEF OrderStep
  <1>2. CASE SweepStart
    BY <1>2, InvisibleStep DEF SweepStart, orderVars, Holding
  <1>3. CASE ExpireNext
    <2>1. PICK o \in batch : Expire(o) \/ PassOver(o)
      BY <1>3 DEF ExpireNext
    <2>2. CASE Expire(o)
      <3>1. o \in Orders /\ payment[o] # "PAID"
        BY <2>2 DEF Expire, IInv, TypeOK, OpenIsUndecided
      <3> QED
        BY <2>2, <3>1, CloseContract DEF Expire, IInv, TypeOK
    <2>3. CASE PassOver(o)
      BY <2>3, InvisibleStep DEF PassOver, orderVars, Holding
    <2> QED
      BY <2>1, <2>2, <2>3
  <1>4. CASE CatalogStep
    <2>1. UNCHANGED orderVars
      BY <1>4 DEF CatalogStep, AdjustStock, ReplaceVariants, ToggleTracking
    <2> QED
      BY <2>1, InvisibleStep DEF orderVars, Holding
  <1>5. CASE UNCHANGED vars
    BY <1>5, InvisibleStep DEF vars, Holding
  <1> QED
    BY <1>1, <1>2, <1>3, <1>4, <1>5 DEF Next

(****************************************************************************)
(* The detailed order lifecycle implements the order contract.              *)
(****************************************************************************)
THEOREM LifecycleImplementsContract == Spec => ContractHolds
  BY ContractInit, ContractNext, LifecycleInvariant, PTL DEF Spec, ContractHolds, Contract!Spec
=============================================================================
