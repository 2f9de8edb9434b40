---------------------- MODULE PaymentSettlementProofs ----------------------
(****************************************************************************)
(* Proofs about PaymentSettlement, for every number of orders, charges,     *)
(* concurrent webhook requests and failures, whatever the gateway supports. *)
(****************************************************************************)
EXTENDS PaymentSettlement, OrderLifecycleProofs

(****************************************************************************)
(* What a request, and the sweep, know at each of their steps.              *)
(****************************************************************************)
Answered(t, result) ==
    result = Alarm \/ (result = "confirmed" /\ settledBy[ChargedOrder(t)] = t)

TransactionsAreRecorded ==
    \A t \in Txns : Exists(t) => txn[t].status \in txn[t].said

Knows(r) ==
    /\ r.pc \in {"record", "settle"} => Bound(r.txn)
    /\ r.pc = "settle" => r.said \in {"PAID", "FAILED"} /\ <<r.txn, r.said>> \in ledger
    /\ (r.pc = "stamp" /\ r.said = "PAID" /\ Ours(r.txn) /\ Bound(r.txn)) => Answered(r.txn, r.result)

RequestsAreBound == \A h \in Handlers : handler[h] # Idle => Knows(handler[h])

\* This shop opens a session at the gateway after the checkout that names it.
ChargesFollowCheckouts ==
    \A t \in Txns : Exists(t) /\ Ours(t) /\ txn[t].charge.order # 0 =>
        provider[txn[t].charge.order] # "null"

RowsNameCharges ==
    \A t \in Txns, s \in GatewayStatuses : row[<<t, s>>] # "absent" => Exists(t)

SweepIsBound ==
    recon.pc \in {"record", "settle"} =>
        /\ BoundTo(recon.txn, recon.order)
        /\ recon.said \in txn[recon.txn].said
        /\ recon.pc = "settle" =>
              <<recon.txn, recon.said>> \in ledger \/ txn[recon.txn].charge.amount = "missing"

PayerIsFinal == \A o \in Orders : settledBy[o] # NoTxn => payment[o] = "PAID"

PayInv ==
    /\ PayTypeOK
    /\ TransactionsAreRecorded
    /\ ChargesFollowCheckouts
    /\ RequestsAreBound
    /\ RowsNameCharges
    /\ SweepIsBound
    /\ PayerIsFinal
    /\ SettledByItsOwnCharge
    /\ LedgerPrecedesSettlement
    /\ NoSilentCharge
    /\ VerifiedRefIsOwn

-----------------------------------------------------------------------------
(* The transaction a charge, a request and the sweep talk about.            *)

LEMMA ChargeTypes ==
    ASSUME PayTypeOK, NEW t \in Txns, Exists(t)
    PROVE  /\ txn[t] \in Sessions
           /\ ChargedOrder(t) \in 0..NumOrders
           /\ Bound(t) => ChargedOrder(t) \in Orders
  <1>1. txn[t] \in Sessions
    BY DEF PayTypeOK, Exists
  <1>2. ChargedOrder(t) \in 0..NumOrders
    BY <1>1, ChargesAssumption, SizesAssumption
       DEF Sessions, ChargedOrder, ReferencedOrder, NumberedOrder
  <1> QED
    BY <1>1, <1>2, SizesAssumption DEF Bound, Orders

\* A charge that passes the handler's checks leads to the order it settles.
LEMMA BoundLeads ==
    ASSUME PayTypeOK, NEW t \in Txns, Exists(t), Bound(t)
    PROVE  LeadsTo(txn[t].charge, ChargedOrder(t)) /\ txn[t].charge.amount = "exact"
  <1>1. txn[t].charge.key \in {"reference", "number"}
    BY ChargeTypes, ChargesAssumption DEF Sessions
  <1> QED
    BY <1>1 DEF Bound, ChargedOrder, ReferencedOrder, NumberedOrder, LeadsTo

LEMMA RequestTypes ==
    ASSUME PayTypeOK, NEW h \in Handlers, handler[h] # Idle
    PROVE  /\ handler[h] \in [pc : {"record", "settle", "stamp"}, txn : Txns,
                              said : GatewayStatuses, result : Results]
           /\ Exists(handler[h].txn)
           /\ handler[h].said \in txn[handler[h].txn].said
  BY DEF PayTypeOK

LEMMA SweepTypes ==
    ASSUME PayTypeOK
    PROVE  /\ recon.pc = "ask" =>
                recon \in [pc : {"ask"}, order : Orders, ref : Txns \cup {NoTxn},
                           source : {"none", "hint", "verified"}]
           /\ recon.pc \in {"record", "settle"} =>
                recon \in [pc : {"record", "settle"}, order : Orders, txn : Txns,
                           said : GatewayStatuses]
           /\ recon.pc \notin {"ask", "record", "settle"} => recon = Idle
  BY DEF PayTypeOK, Idle

-----------------------------------------------------------------------------
(* Every step of the settlement is a step of the lifecycle, or invisible.   *)

LEMMA VerdictStep ==
    ASSUME NEW o \in Orders, NEW t, NEW applied \in BOOLEAN,
           SettlePaid(o, t, applied) \/ SettleFailed(o, t, applied)
    PROVE  [Next]_vars
  BY DEF SettlePaid, SettleFailed, Next, OrderStep

LEMMA PayStepIsLifecycleStep == PayInv /\ [PayNext]_allVars => [Next]_vars
  <1> SUFFICES ASSUME PayInv, [PayNext]_allVars
               PROVE  [Next]_vars
    OBVIOUS
  <1> USE DEF PayInv
  <1>1. CASE ShopStep
    BY <1>1 DEF ShopStep, Next, OrderStep
  <1>2. CASE GatewayStep
    BY <1>2 DEF GatewayStep, OpenCharge, DecideCharge
  <1>3. CASE WebhookStep
    <2>1. ASSUME NEW h \in Handlers, Settle(h)
          PROVE  [Next]_vars
      <3>1. handler[h] # Idle
        BY <2>1 DEF Settle, Idle
      <3>2. ChargedOrder(handler[h].txn) \in Orders
        BY <2>1, <3>1, RequestTypes, ChargeTypes DEF RequestsAreBound, Knows, Settle
      <3>3. \E applied \in BOOLEAN :
                SettlePaid(ChargedOrder(handler[h].txn), handler[h].txn, applied)
                \/ SettleFailed(ChargedOrder(handler[h].txn), handler[h].txn, applied)
        BY <2>1 DEF Settle
      <3> QED
        BY <3>2, <3>3, VerdictStep
    <2> QED
      BY <1>3, <2>1 DEF WebhookStep, HandlerStep, Receive, Record, Stamp, FailHalfway
  <1>4. CASE ReconStep
    <2>1. CASE ReconSettle
      <3>1. recon.order \in Orders
        BY <2>1, SweepTypes DEF ReconSettle
      <3> QED
        BY <2>1, <3>1, VerdictStep DEF ReconSettle
    <2> QED
      BY <1>4, <2>1 DEF ReconStep, ReconRead, ReconAsk, ReconRecord, ReconGiveUp
  <1>5. CASE HintStep
    BY <1>5 DEF HintStep, HintRead, HintWrite
  <1>6. CASE UNCHANGED allVars
    BY <1>6 DEF allVars
  <1> QED
    BY <1>1, <1>2, <1>3, <1>4, <1>5, <1>6 DEF PayNext

-----------------------------------------------------------------------------
(* What the steps may do to the gateway's records, the ledger, the payer.   *)

\* A charge is fixed once opened; what the gateway has said stays said.
LEMMA GatewayRemembers ==
    ASSUME PayTypeOK, [PayNext]_allVars, NEW t \in Txns, Exists(t)
    PROVE  /\ Exists(t)'
           /\ txn'[t].charge = txn[t].charge
           /\ txn[t].said \subseteq txn'[t].said
           /\ txn'[t].status = txn[t].status \/ txn'[t].status \in txn'[t].said
  <1>1. txn[t] \in Sessions
    BY DEF PayTypeOK, Exists
  <1>2. ASSUME NEW u \in Txns, NEW c \in Charges, OpenCharge(u, c)
        PROVE  txn'[t] = txn[t]
    BY <1>2 DEF OpenCharge, PayTypeOK
  <1>3. ASSUME NEW u \in Txns, NEW s \in GatewayStatuses, DecideCharge(u, s)
        PROVE  \/ txn'[t] = txn[t]
               \/ /\ txn'[t].status = s /\ txn'[t].charge = txn[t].charge
                  /\ txn'[t].said = txn[t].said \cup {s}
    BY <1>1, <1>3 DEF DecideCharge, PayTypeOK, Sessions
  <1>4. CASE UNCHANGED txn
    BY <1>4 DEF Exists
  <1>5. UNCHANGED txn \/ GatewayStep
    BY DEF PayNext, allVars, payVars, ShopStep, WebhookStep, HandlerStep, ReconStep, HintStep,
           Receive, Record, Settle, Stamp, FailHalfway, ReconRead, ReconAsk, ReconRecord,
           ReconSettle, ReconGiveUp, HintRead, HintWrite
  <1> QED
    BY <1>1, <1>2, <1>3, <1>4, <1>5 DEF GatewayStep, Exists, GatewayStatuses

LEMMA LedgerGrows ==
    ASSUME [PayNext]_allVars
    PROVE  ledger \subseteq ledger'
  BY DEF PayNext, allVars, payVars, ShopStep, GatewayStep, OpenCharge, DecideCharge, WebhookStep,
         HandlerStep, ReconStep, HintStep, Receive, Record, Settle, Stamp, FailHalfway, ReconRead,
         ReconAsk, ReconRecord, ReconSettle, ReconGiveUp, HintRead, HintWrite

\* Checkouts, merchants, the expiry sweep and the catalogue never pay an order.
LEMMA ShopPaysNothing ==
    ASSUME IInv, ShopStep, NEW o \in Orders
    PROVE  payment'[o] = "PAID" <=> payment[o] = "PAID"
  <1>1. payment \in [Orders -> PaymentStatuses]
    BY DEF IInv, TypeOK
  <1>2. ASSUME NEW q \in Orders, Checkout(q) \/ Confirm(q) \/ Fulfil(q) \/ Cancel(q) \/ Lapse(q)
        PROVE  payment'[o] = "PAID" <=> payment[o] = "PAID"
    <2>1. CASE Checkout(q)
      BY <1>1, <2>1 DEF Checkout, CheckoutCod, CheckoutOnline, PlaceOrder, IInv, AbsentIsFresh
    <2>2. CASE Confirm(q) \/ Fulfil(q) \/ Lapse(q)
      BY <2>2 DEF Confirm, Fulfil, Lapse
    <2>3. CASE Cancel(q)
      BY <1>1, <2>3 DEF Cancel
    <2> QED
      BY <1>2, <2>1, <2>2, <2>3
  <1>3. CASE SweepStart \/ CatalogStep
    BY <1>3 DEF SweepStart, CatalogStep, AdjustStock, ReplaceVariants, ToggleTracking, orderVars
  <1>4. CASE ExpireNext
    <2>1. PICK q \in batch : Expire(q) \/ PassOver(q)
      BY <1>4 DEF ExpireNext
    <2>2. CASE Expire(q)
      <3>1. q \in Orders /\ payment[q] # "PAID"
        BY <2>2 DEF Expire, IInv, TypeOK, OpenIsUndecided
      <3> QED
        BY <1>1, <2>2, <3>1 DEF Expire
    <2>3. CASE PassOver(q)
      BY <2>3 DEF PassOver, orderVars
    <2> QED
      BY <2>1, <2>2, <2>3
  <1> QED
    BY <1>2, <1>3, <1>4 DEF ShopStep

-----------------------------------------------------------------------------
(* Who may pay an order, and with what.                                     *)

OwnCharge(o, t) ==
    /\ Exists(t) /\ "PAID" \in txn[t].said
    /\ LeadsTo(txn[t].charge, o)
    /\ txn[t].charge.amount = "exact" \/ (txn[t].charge.amount = "missing" /\ Ours(t))
    /\ <<t, "PAID">> \in ledger \/ txn[t].charge.amount = "missing"

OwnRef(o, t) ==
    /\ Exists(t) /\ LeadsTo(txn[t].charge, o)
    /\ txn[t].charge.amount # "other"
    /\ ~Ours(t) => txn[t].charge.amount = "exact"

\* The two verdicts change one order's payer and ref, and nothing of another's;
\* a PAID verdict that is brought by a charge of the order makes that its payer.
PayerKept(q) == (payment'[q] = "PAID" <=> payment[q] = "PAID") /\ settledBy'[q] = settledBy[q]
PaidByOwn(q) ==
    /\ payment[q] # "PAID" /\ payment'[q] = "PAID"
    /\ \E t \in Txns : settledBy'[q] = t /\ OwnCharge(q, t)

LEMMA VerdictEffect ==
    ASSUME PayTypeOK, NEW o \in Orders, NEW t \in Txns, NEW applied \in BOOLEAN, NEW q \in Orders,
           \/ SettlePaid(o, t, applied) /\ OwnCharge(o, t)
           \/ SettleFailed(o, t, applied)
    PROVE  /\ PayerKept(q) \/ PaidByOwn(q)
           /\ \/ ref'[q] = ref[q] /\ refSource'[q] = refSource[q]
              \/ q = o /\ ref'[q] = t
  <1>1. /\ payment \in [Orders -> PaymentStatuses] /\ settledBy \in [Orders -> Txns \cup {NoTxn}]
        /\ ref \in [Orders -> Txns \cup {NoTxn}]
        /\ refSource \in [Orders -> {"none", "hint", "verified"}]
    BY DEF PayTypeOK, TypeOK
  <1>2. CASE SettlePaid(o, t, applied) /\ OwnCharge(o, t) /\ applied
    <2>1. /\ payment' = [payment EXCEPT ![o] = "PAID"] /\ payment[o] # "PAID"
          /\ settledBy' = [settledBy EXCEPT ![o] = t]
          /\ ref' = [ref EXCEPT ![o] = t] /\ refSource' = [refSource EXCEPT ![o] = "verified"]
      BY <1>2 DEF SettlePaid, MarkPaid, CanMarkPaid, StampRef
    <2>2. CASE q = o
      BY <1>1, <1>2, <2>1, <2>2 DEF PaidByOwn
    <2>3. CASE q # o
      BY <1>1, <2>1, <2>3 DEF PayerKept
    <2> QED
      BY <2>2, <2>3
  <1>3. CASE SettleFailed(o, t, applied) /\ applied
    BY <1>1, <1>3 DEF SettleFailed, MarkFailed, CanMarkFailed, StampRef, PayerKept
  <1>4. CASE ~applied
    BY <1>4 DEF SettlePaid, SettleFailed, vars, PayerKept
  <1> QED
    BY <1>2, <1>3, <1>4

LEMMA RequestPays ==
    ASSUME PayInv, NEW h \in Handlers, Settle(h)
    PROVE  /\ handler[h].txn \in Txns
           /\ ChargedOrder(handler[h].txn) \in Orders
           /\ OwnRef(ChargedOrder(handler[h].txn), handler[h].txn)
           /\ \E applied \in BOOLEAN :
                \/ /\ SettlePaid(ChargedOrder(handler[h].txn), handler[h].txn, applied)
                   /\ OwnCharge(ChargedOrder(handler[h].txn), handler[h].txn)
                \/ SettleFailed(ChargedOrder(handler[h].txn), handler[h].txn, applied)
  <1>1. handler[h] # Idle /\ handler[h].pc = "settle"
    BY DEF Settle, Idle
  <1>2. /\ handler[h].txn \in Txns /\ Exists(handler[h].txn)
        /\ handler[h].said \in txn[handler[h].txn].said
    BY <1>1, RequestTypes DEF PayInv
  <1>3. Bound(handler[h].txn) /\ <<handler[h].txn, handler[h].said>> \in ledger
    BY <1>1 DEF PayInv, RequestsAreBound, Knows
  <1>4. ChargedOrder(handler[h].txn) \in Orders
    BY <1>2, <1>3, ChargeTypes DEF PayInv
  <1>5. /\ LeadsTo(txn[handler[h].txn].charge, ChargedOrder(handler[h].txn))
        /\ txn[handler[h].txn].charge.amount = "exact"
    BY <1>2, <1>3, BoundLeads DEF PayInv
  <1>6. OwnRef(ChargedOrder(handler[h].txn), handler[h].txn)
    BY <1>2, <1>5 DEF OwnRef
  <1>7. CASE handler[h].said = "PAID"
    BY <1>2, <1>3, <1>4, <1>5, <1>6, <1>7 DEF Settle, OwnCharge
  <1>8. CASE handler[h].said = "FAILED"
    BY <1>2, <1>4, <1>6, <1>8 DEF Settle
  <1> QED
    BY <1>7, <1>8 DEF Settle

LEMMA SweepPays ==
    ASSUME PayInv, ReconSettle
    PROVE  /\ recon.txn \in Txns
           /\ recon.order \in Orders
           /\ OwnRef(recon.order, recon.txn)
           /\ \E applied \in BOOLEAN :
                \/ SettlePaid(recon.order, recon.txn, applied) /\ OwnCharge(recon.order, recon.txn)
                \/ SettleFailed(recon.order, recon.txn, applied)
  <1>1. recon.pc = "settle"
    BY DEF ReconSettle
  <1>2. recon.txn \in Txns /\ recon.order \in Orders
    BY <1>1, SweepTypes DEF PayInv
  <1>3. /\ BoundTo(recon.txn, recon.order) /\ recon.said \in txn[recon.txn].said
        /\ <<recon.txn, recon.said>> \in ledger \/ txn[recon.txn].charge.amount = "missing"
    BY <1>1 DEF PayInv, SweepIsBound
  <1>4. txn[recon.txn].charge.amount \in {"exact", "other", "missing"}
    BY <1>2, <1>3, ChargeTypes, ChargesAssumption DEF PayInv, BoundTo, Sessions
  <1>5. /\ Exists(recon.txn) /\ Ours(recon.txn) /\ LeadsTo(txn[recon.txn].charge, recon.order)
        /\ txn[recon.txn].charge.amount # "other"
    BY <1>2, <1>3, SizesAssumption DEF BoundTo, ReferencedOrder, LeadsTo, Ours, Orders
  <1>6. OwnRef(recon.order, recon.txn)
    BY <1>5 DEF OwnRef
  <1>7. recon.said = "PAID" => OwnCharge(recon.order, recon.txn)
    BY <1>3, <1>4, <1>5 DEF OwnCharge
  <1> QED
    BY <1>2, <1>6, <1>7 DEF ReconSettle

\* An order becomes PAID by a charge of its own, and its payer is then final.
LEMMA PayerStep ==
    ASSUME PayInv, IInv, [PayNext]_allVars, NEW o \in Orders
    PROVE  PayerKept(o) \/ PaidByOwn(o)
  <1>1. CASE ShopStep
    BY <1>1, ShopPaysNothing DEF ShopStep, payVars, PayerKept
  <1>2. ASSUME NEW h \in Handlers, Settle(h)
        PROVE  PayerKept(o) \/ PaidByOwn(o)
    BY <1>2, RequestPays, VerdictEffect DEF PayInv
  <1>3. CASE ReconSettle
    BY <1>3, SweepPays, VerdictEffect DEF PayInv
  <1>4. CASE UNCHANGED <<payment, settledBy>>
    BY <1>4 DEF PayerKept
  <1> QED
    BY <1>1, <1>2, <1>3, <1>4 DEF PayNext, allVars, payVars, vars, GatewayStep, OpenCharge,
       DecideCharge, WebhookStep, HandlerStep, ReconStep, HintStep, Receive, Record, Stamp,
       FailHalfway, ReconRead, ReconAsk, ReconRecord, ReconGiveUp, HintRead, HintWrite

-----------------------------------------------------------------------------
(* The conjuncts of the invariant, one lemma each.                          *)

\* The parts of the state that belong to nobody else keep their types.
LEMMA ShopTypes == ASSUME PayTypeOK, TypeOK', ShopStep PROVE PayTypeOK'
  BY DEF ShopStep, payVars, PayTypeOK, Exists

LEMMA GatewayTypes == ASSUME PayTypeOK, TypeOK', GatewayStep PROVE PayTypeOK'
  <1>1. UNCHANGED <<row, ledger, handler, ref, refSource, recon, hint, failures, settledBy>>
    BY DEF GatewayStep, OpenCharge, DecideCharge
  <1>2. txn' \in [Txns -> Sessions \cup {[status |-> "none"]}]
    <2>1. ASSUME NEW t \in Txns, NEW c \in Charges, OpenCharge(t, c)
          PROVE  txn' \in [Txns -> Sessions \cup {[status |-> "none"]}]
      BY <2>1 DEF OpenCharge, PayTypeOK, Sessions, GatewayStatuses
    <2>2. ASSUME NEW t \in Txns, NEW s \in GatewayStatuses, DecideCharge(t, s)
          PROVE  txn' \in [Txns -> Sessions \cup {[status |-> "none"]}]
      <3>1. txn[t] \in Sessions
        BY <2>2 DEF DecideCharge, PayTypeOK, Exists
      <3>2. txn' = [txn EXCEPT ![t] = [txn[t] EXCEPT !.status = s, !.said = txn[t].said \cup {s}]]
        BY <2>2 DEF DecideCharge, PayTypeOK
      <3>3. [txn[t] EXCEPT !.status = s, !.said = txn[t].said \cup {s}] \in Sessions
        BY <3>1 DEF Sessions
      <3> QED
        BY <3>2, <3>3 DEF PayTypeOK
    <2> QED
      BY <2>1, <2>2 DEF GatewayStep
  <1>3. \A t \in Txns : Exists(t) => Exists(t)' /\ txn[t].said \subseteq txn'[t].said
    BY GatewayRemembers DEF PayNext
  <1>4. \A h \in Handlers : handler[h] # Idle =>
            handler[h].txn \in Txns /\ Exists(handler[h].txn)
            /\ handler[h].said \in txn[handler[h].txn].said
    BY RequestTypes
  <1> QED
    BY <1>1, <1>2, <1>3, <1>4 DEF PayTypeOK

LEMMA WebhookTypes ==
    ASSUME PayInv, TypeOK', NEW h \in Handlers,
           \/ \E t \in Txns, s \in GatewayStatuses : Receive(h, t, s)
           \/ HandlerStep(h)
           \/ FailHalfway(h)
    PROVE  PayTypeOK'
  <1> DEFINE Request == [pc : {"record", "settle", "stamp"}, txn : Txns,
                         said : GatewayStatuses, result : Results]
  <1>1. UNCHANGED <<txn, recon, hint>>
    BY DEF HandlerStep, Receive, Record, Settle, Stamp, FailHalfway
  <1>2. \A k \in Handlers : handler[k] # Idle => handler[k] \in Request /\ Exists(handler[k].txn)
                                /\ handler[k].said \in txn[handler[k].txn].said
    BY RequestTypes DEF PayInv
  <1>3. SUFFICES /\ row' \in [Statements -> Results \cup {"absent", "open"}]
                 /\ ledger' \subseteq Statements
                 /\ ref' \in [Orders -> Txns \cup {NoTxn}]
                 /\ refSource' \in [Orders -> {"none", "hint", "verified"}]
                 /\ failures' \in 0..MaxFailures
                 /\ settledBy' \in [Orders -> Txns \cup {NoTxn}]
                 /\ \E r \in Request \cup {Idle} :
                        /\ handler' = [handler EXCEPT ![h] = r]
                        /\ r # Idle => Exists(r.txn) /\ r.said \in txn[r.txn].said
    BY <1>1, <1>2 DEF PayInv, PayTypeOK, Exists
  <1> USE DEF PayInv
  <1>4. ASSUME NEW t \in Txns, NEW s \in GatewayStatuses, Receive(h, t, s)
        PROVE  row' \in [Statements -> Results \cup {"absent", "open"}]
               /\ \E r \in Request : handler' = [handler EXCEPT ![h] = r]
                                    /\ Exists(r.txn) /\ r.said \in txn[r.txn].said
    <2> DEFINE r == [pc |-> FirstStep(t), txn |-> t, said |-> s, result |-> "refused"]
    <2>1. r \in Request /\ r.txn = t /\ r.said = s
      BY DEF Results, FirstStep
    <2>2. handler' = [handler EXCEPT ![h] = r] /\ Exists(t) /\ s \in txn[t].said
      BY <1>4 DEF Receive, Verified
    <2>3. row' \in [Statements -> Results \cup {"absent", "open"}]
      BY <1>4 DEF Receive, PayTypeOK, Statements
    <2> HIDE DEF r
    <2> QED
      BY <2>1, <2>2, <2>3
  <1>5. ASSUME handler[h] # Idle, NEW pc \in {"record", "settle", "stamp"}, NEW result \in Results,
               handler' = [handler EXCEPT ![h].pc = pc, ![h].result = result]
        PROVE  \E r \in Request : handler' = [handler EXCEPT ![h] = r]
                                    /\ Exists(r.txn) /\ r.said \in txn[r.txn].said
    <2> DEFINE r == [handler[h] EXCEPT !.pc = pc, !.result = result]
    <2>1. handler' = [handler EXCEPT ![h] = r]
      BY <1>5 DEF PayTypeOK
    <2>2. r \in Request /\ r.txn = handler[h].txn /\ r.said = handler[h].said
      BY <1>2, <1>5
    <2> HIDE DEF r
    <2> QED
      BY <1>2, <1>5, <2>1, <2>2
  <1>6. CASE Record(h)
    <2>1. handler[h] # Idle
      BY <1>6 DEF Record, Idle
    <2>2. <<handler[h].txn, handler[h].said>> \in Statements
      BY <1>2, <2>1 DEF Statements
    <2> QED
      BY <1>5, <1>6, <2>1, <2>2 DEF Record, PayTypeOK, Results
  <1>7. CASE Settle(h)
    <2>1. handler[h] # Idle
      BY <1>7 DEF Settle, Idle
    <2>2. \E result \in Results :
             handler' = [handler EXCEPT ![h].pc = "stamp", ![h].result = result]
      BY <1>7 DEF Settle, Results, PaidResult, FailedResult
    <2>3. UNCHANGED <<row, ledger, failures>>
      BY <1>7 DEF Settle
    <2>4. /\ handler[h].txn \in Txns /\ ChargedOrder(handler[h].txn) \in Orders
      BY <1>7, RequestPays
    <2>5. /\ ref' \in [Orders -> Txns \cup {NoTxn}]
          /\ refSource' \in [Orders -> {"none", "hint", "verified"}]
          /\ settledBy' \in [Orders -> Txns \cup {NoTxn}]
      BY <1>7, <2>4 DEF Settle, SettlePaid, SettleFailed, StampRef, PayTypeOK
    <2> QED
      BY <1>5, <2>1, <2>2, <2>3, <2>5 DEF PayTypeOK
  <1>8. CASE Stamp(h)
    <2>1. handler[h] # Idle
      BY <1>8 DEF Stamp, Idle
    <2>2. handler[h].result \in Results
      BY <1>2, <2>1
    <2> QED
      BY <1>8, <2>1, <2>2 DEF Stamp, PayTypeOK
  <1>9. CASE FailHalfway(h)
    <2>1. failures' \in 0..MaxFailures
      BY <1>9, ChargesAssumption DEF FailHalfway, PayTypeOK
    <2>2. handler' = [handler EXCEPT ![h] = Idle] /\ UNCHANGED <<row, ledger, ref, refSource, settledBy>>
      BY <1>9 DEF FailHalfway
    <2> QED
      BY <2>1, <2>2 DEF PayTypeOK
  <1>10. CASE \E t \in Txns, s \in GatewayStatuses : Receive(h, t, s)
    <2>1. UNCHANGED <<ledger, ref, refSource, failures, settledBy>>
      BY <1>10 DEF Receive
    <2> QED
      BY <1>4, <1>10, <2>1 DEF PayTypeOK
  <1> QED
    BY <1>6, <1>7, <1>8, <1>9, <1>10 DEF HandlerStep

LEMMA SweepAndHintTypes ==
    ASSUME PayInv, TypeOK', ReconStep \/ HintStep
    PROVE  PayTypeOK'
  <1> USE DEF PayInv
  <1>1. UNCHANGED <<txn, row, handler, failures>>
    BY DEF ReconStep, HintStep, ReconRead, ReconAsk, ReconRecord, ReconSettle, ReconGiveUp,
           HintRead, HintWrite
  <1>2. CASE \E o \in Orders : ReconRead(o)
    BY <1>1, <1>2 DEF ReconRead, PayTypeOK, Exists
  <1>3. CASE ReconAsk
    <2>1. recon.order \in Orders
      BY <1>3, SweepTypes DEF ReconAsk
    <2>2. \A t \in Found : t \in Txns /\ Exists(t)
      <3>1. ById \subseteq Txns
        BY <1>3, SweepTypes DEF ById, BoundTo, Exists, ReconAsk
      <3>2. BySearch \subseteq Txns
        BY DEF BySearch, Matching, Approved
      <3>3. \A t \in Found : Exists(t)
        BY DEF Found, ById, BySearch, BoundTo
      <3> QED
        BY <3>1, <3>2, <3>3 DEF Found
    <2>3. \A t \in Found : txn[t].status \in GatewayStatuses
      BY <2>2, ChargeTypes DEF Sessions
    <2> QED
      BY <1>1, <1>3, <2>1, <2>2, <2>3 DEF ReconAsk, PayTypeOK, Exists
  <1>4. CASE ReconRecord
    BY <1>1, <1>4, SweepTypes DEF ReconRecord, PayTypeOK, Exists, Statements
  <1>5. CASE ReconSettle
    BY <1>1, <1>5, SweepPays DEF ReconSettle, SettlePaid, SettleFailed, StampRef, PayTypeOK, Exists
  <1>6. CASE ReconGiveUp
    BY <1>1, <1>6 DEF ReconGiveUp, PayTypeOK, Exists
  <1>7. CASE HintStep
    <2>1. UNCHANGED <<ledger, recon, settledBy>>
      BY <1>7 DEF HintStep, HintRead, HintWrite
    <2>2. ASSUME NEW o \in Orders, NEW t \in Hinted, HintRead(o, t)
          PROVE  hint' \in [pc : {"write"}, order : Orders, txn : Txns]
                 /\ UNCHANGED <<ref, refSource>>
      BY <2>2, ChargesAssumption DEF HintRead
    <2>3. ASSUME HintWrite
          PROVE  /\ hint' = Idle
                 /\ ref' \in [Orders -> Txns \cup {NoTxn}]
                 /\ refSource' \in [Orders -> {"none", "hint", "verified"}]
      <3>1. hint.txn \in Txns
        BY <2>3 DEF HintWrite, PayTypeOK, Idle
      <3> QED
        BY <2>3, <3>1 DEF HintWrite, PayTypeOK
    <2> QED
      BY <1>1, <1>7, <2>1, <2>2, <2>3 DEF HintStep, PayTypeOK, Exists
  <1> QED
    BY <1>2, <1>3, <1>4, <1>5, <1>6, <1>7 DEF ReconStep

LEMMA PayTypesStep == PayInv /\ TypeOK' /\ [PayNext]_allVars => PayTypeOK'
  <1> SUFFICES ASSUME PayInv, TypeOK', [PayNext]_allVars
               PROVE  PayTypeOK'
    OBVIOUS
  <1>1. CASE WebhookStep
    BY <1>1, WebhookTypes DEF WebhookStep
  <1>2. CASE UNCHANGED allVars
    BY <1>2 DEF allVars, payVars, PayInv, PayTypeOK, Exists
  <1> QED
    BY <1>1, <1>2, ShopTypes, GatewayTypes, SweepAndHintTypes DEF PayNext, PayInv

LEMMA TransactionsStep ==
    ASSUME PayInv, [PayNext]_allVars
    PROVE  TransactionsAreRecorded'
  <1> SUFFICES ASSUME NEW t \in Txns, Exists(t)'
               PROVE  txn'[t].status \in txn'[t].said
    BY DEF TransactionsAreRecorded
  <1>1. CASE Exists(t)
    <2>1. txn[t].status \in txn[t].said /\ PayTypeOK
      BY <1>1 DEF PayInv, TransactionsAreRecorded
    <2> QED
      BY <1>1, <2>1, GatewayRemembers
  <1>2. CASE ~Exists(t)
    <2>1. \E c \in Charges : OpenCharge(t, c)
      BY <1>2 DEF PayNext, allVars, payVars, ShopStep, WebhookStep, HandlerStep, ReconStep, HintStep,
           Receive, Record, Settle, Stamp, FailHalfway, ReconRead, ReconAsk, ReconRecord,
           ReconSettle, ReconGiveUp, HintRead, HintWrite, GatewayStep, OpenCharge, DecideCharge,
           Exists, PayInv, PayTypeOK
    <2> QED
      BY <2>1 DEF OpenCharge, PayInv, PayTypeOK
  <1> QED
    BY <1>1, <1>2

\* The sweep's charge was bound to its order when the gateway was asked, and
\* what the gateway said is recorded before it settles anything.
LEMMA SweepBoundStep ==
    ASSUME PayInv, [PayNext]_allVars
    PROVE  SweepIsBound'
  <1>1. CASE UNCHANGED recon
    <2> SUFFICES ASSUME recon.pc \in {"record", "settle"}
                 PROVE  SweepIsBound'
      BY <1>1 DEF SweepIsBound
    <2>1. recon.txn \in Txns /\ Exists(recon.txn) /\ BoundTo(recon.txn, recon.order)
      BY SweepTypes DEF PayInv, SweepIsBound, BoundTo
    <2>2. /\ Exists(recon.txn)' /\ txn'[recon.txn].charge = txn[recon.txn].charge
          /\ txn[recon.txn].said \subseteq txn'[recon.txn].said
      BY <1>1, <2>1, GatewayRemembers DEF PayInv
    <2> QED
      BY <1>1, <2>1, <2>2, LedgerGrows DEF PayInv, SweepIsBound, BoundTo, ReferencedOrder
  <1>2. CASE ReconAsk
    <2>1. \A t \in Found : BoundTo(t, recon.order) /\ t \in Txns
      BY <1>2, SweepTypes DEF Found, ById, BySearch, Matching, Approved, ReconAsk, PayInv
    <2>2. \A t \in Found : txn[t].status \in txn[t].said
      BY <2>1 DEF BoundTo, PayInv, TransactionsAreRecorded
    <2> QED
      BY <1>2, <2>1, <2>2 DEF ReconAsk, SweepIsBound, BoundTo, ReferencedOrder, Exists, Idle
  <1>3. CASE ReconRecord
    <2>1. /\ recon.pc = "record"
          /\ recon \in [pc : {"record", "settle"}, order : Orders, txn : Txns, said : GatewayStatuses]
      BY <1>3, SweepTypes DEF ReconRecord, PayInv
    <2>2. /\ BoundTo(recon.txn, recon.order) /\ recon.said \in txn[recon.txn].said
      BY <2>1 DEF PayInv, SweepIsBound
    <2>3. UNCHANGED txn
      BY <1>3 DEF ReconRecord
    <2>4. CASE recon' = Idle
      BY <2>4 DEF SweepIsBound, Idle
    <2>5. CASE recon' = [recon EXCEPT !.pc = "settle"]
      <3>1. recon'.txn = recon.txn /\ recon'.order = recon.order /\ recon'.said = recon.said
        BY <2>1, <2>5
      <3>2. <<recon.txn, recon.said>> \in ledger' \/ txn[recon.txn].charge.amount = "missing"
        BY <1>3 DEF ReconRecord
      <3> QED
        BY <2>2, <2>3, <3>1, <3>2 DEF SweepIsBound, BoundTo, ReferencedOrder, Exists
    <2> QED
      BY <1>3, <2>4, <2>5 DEF ReconRecord
  <1>4. CASE recon'.pc \in {"idle", "ask"}
    BY <1>4 DEF SweepIsBound
  <1>5. (\E o \in Orders : ReconRead(o)) \/ ReconSettle \/ ReconGiveUp => recon'.pc \in {"idle", "ask"}
    BY DEF ReconRead, ReconSettle, ReconGiveUp, Idle
  <1>6. CASE ReconStep
    BY <1>2, <1>3, <1>4, <1>5, <1>6 DEF ReconStep
  <1> QED
    BY <1>1, <1>6 DEF PayNext, allVars, payVars, ShopStep, GatewayStep, OpenCharge,
       DecideCharge, WebhookStep, HandlerStep, HintStep, Receive, Record, Settle, Stamp,
       FailHalfway, HintRead, HintWrite

-----------------------------------------------------------------------------
(* Orders go on, and what a charge leads to stays what it was.              *)

Over(o) == status[o] \notin {"ABSENT", "PENDING"}

\* No order comes back from where it is over, is placed twice or loses its gateway.
LEMMA OrdersGoOn ==
    ASSUME IInv, [Next]_vars, NEW o \in Orders
    PROVE  /\ Over(o) => Over(o)'
           /\ provider[o] # "null" => provider'[o] # "null"
           /\ status[o] # "ABSENT" => status'[o] # "ABSENT"
           /\ status[o] # "ABSENT" /\ payment[o] = "COD" => Over(o)' \/ payment'[o] = "COD"
  <1> DEFINE GoesOn == /\ Over(o) => Over(o)'
                       /\ provider[o] # "null" => provider'[o] # "null"
                       /\ status[o] # "ABSENT" => status'[o] # "ABSENT"
                       /\ status[o] # "ABSENT" /\ payment[o] = "COD" => Over(o)' \/ payment'[o] = "COD"
  <1> USE DEF Over
  <1>1. TypeOK
    BY DEF IInv
  <1>2. ASSUME NEW q \in Orders, Checkout(q)
        PROVE  GoesOn
    BY <1>1, <1>2 DEF TypeOK, Checkout, CheckoutCod, CheckoutOnline, PlaceOrder
  <1>3. ASSUME NEW q \in Orders, MarkPaid(q) \/ MarkFailed(q) \/ Confirm(q) \/ Fulfil(q)
        PROVE  GoesOn
    BY <1>1, <1>3 DEF TypeOK, MarkPaid, CanMarkPaid, MarkFailed, CanMarkFailed, Confirm, Fulfil,
       FulfilmentStep
  <1>4. ASSUME NEW q \in Orders, Cancel(q) \/ Lapse(q) \/ Expire(q)
        PROVE  GoesOn
    BY <1>1, <1>4 DEF TypeOK, Cancel, Lapse, Expire
  <1>5. CASE UNCHANGED orderVars
    BY <1>5 DEF orderVars
  <1>6. ASSUME NEW s, NEW d, AdjustStock(s, d)
        PROVE  UNCHANGED orderVars
    BY <1>6 DEF AdjustStock
  <1>7. ASSUME NEW p, NEW fresh, NEW units, ReplaceVariants(p, fresh, units)
        PROVE  UNCHANGED orderVars
    BY <1>7 DEF ReplaceVariants
  <1>8. ASSUME NEW p, ToggleTracking(p)
        PROVE  UNCHANGED orderVars
    BY <1>8 DEF ToggleTracking
  <1>9. CASE ExpireNext
    <2>1. PICK q \in batch : Expire(q) \/ PassOver(q)
      BY <1>9 DEF ExpireNext
    <2>2. q \in Orders
      BY <1>1 DEF TypeOK
    <2> QED
      BY <1>4, <1>5, <2>1, <2>2 DEF PassOver
  <1>10. CASE SweepStart \/ UNCHANGED vars
    BY <1>5, <1>10 DEF SweepStart, vars, orderVars
  <1> QED
    BY <1>2, <1>3, <1>4, <1>5, <1>6, <1>7, <1>8, <1>9, <1>10 DEF Next, OrderStep, CatalogStep

LEMMA ChargesFollow ==
    ASSUME IInv, PayInv, [PayNext]_allVars
    PROVE  ChargesFollowCheckouts'
  <1> SUFFICES ASSUME NEW t \in Txns, Exists(t)', Ours(t)', txn'[t].charge.order # 0
               PROVE  provider'[txn'[t].charge.order] # "null"
    BY DEF ChargesFollowCheckouts
  <1>1. \A o \in Orders : provider[o] # "null" => provider'[o] # "null"
    BY PayStepIsLifecycleStep, OrdersGoOn
  <1>2. CASE Exists(t)
    <2>1. txn'[t].charge = txn[t].charge /\ txn[t].charge \in Charges
      BY <1>2, GatewayRemembers, ChargeTypes DEF PayInv, Sessions
    <2>2. txn[t].charge.order \in Orders
      BY <2>1, ChargesAssumption, SizesAssumption DEF Orders
    <2>3. provider[txn[t].charge.order] # "null"
      BY <1>2, <2>1 DEF PayInv, ChargesFollowCheckouts, Ours
    <2> QED
      BY <1>1, <2>1, <2>2, <2>3
  <1>3. CASE ~Exists(t)
    <2>1. txn \in [Txns -> Sessions \cup {[status |-> "none"]}]
      BY DEF PayInv, PayTypeOK
    <2>2. ASSUME NEW u \in Txns, NEW c \in Charges, OpenCharge(u, c)
          PROVE  provider'[txn'[t].charge.order] # "null"
      <3>1. u = t
        BY <1>3, <2>1, <2>2 DEF OpenCharge, Exists
      <3>2. txn'[t].charge = c
        BY <2>1, <2>2, <3>1 DEF OpenCharge
      <3>3. provider[c.order] # "null" /\ provider' = provider
        BY <2>2, <3>2 DEF OpenCharge, vars, Ours
      <3> QED
        BY <3>2, <3>3
    <2>3. ASSUME NEW u \in Txns, NEW s, DecideCharge(u, s)
          PROVE  FALSE
      <3>1. Exists(u)
        BY <2>3 DEF DecideCharge
      <3>2. u # t
        BY <1>3, <3>1
      <3>3. txn'[t] = txn[t]
        BY <2>1, <2>3, <3>2 DEF DecideCharge
      <3> QED
        BY <1>3, <3>3 DEF Exists
    <2>4. ASSUME txn' = txn PROVE FALSE
      BY <1>3, <2>4 DEF Exists
    <2>5. txn' = txn \/ GatewayStep
      BY DEF PayNext, allVars, payVars, ShopStep, WebhookStep, HandlerStep, ReconStep, HintStep,
             Receive, Record, Settle, Stamp, FailHalfway, ReconRead, ReconAsk, ReconRecord,
             ReconSettle, ReconGiveUp, HintRead, HintWrite
    <2> QED
      BY <2>2, <2>3, <2>4, <2>5 DEF GatewayStep
  <1> QED
    BY <1>2, <1>3

\* A charge that is bound to an order stays so; and what this shop's own charges
\* are bound to never changes, their orders being placed before they are opened.
LEMMA BoundStays ==
    ASSUME IInv, PayInv, [PayNext]_allVars, NEW t \in Txns, Exists(t)
    PROVE  /\ Ours(t)' <=> Ours(t)
           /\ Bound(t) \/ Ours(t) => ChargedOrder(t)' = ChargedOrder(t)
           /\ Bound(t) => Bound(t)'
           /\ Ours(t) => (Bound(t)' <=> Bound(t))
  <1>1. txn'[t].charge = txn[t].charge /\ txn[t].charge \in Charges
    BY GatewayRemembers, ChargeTypes DEF PayInv, Sessions
  <1>2. \A o \in Orders : status[o] # "ABSENT" => status'[o] # "ABSENT"
    BY PayStepIsLifecycleStep, OrdersGoOn
  <1>3. txn[t].charge.order # 0 => txn[t].charge.order \in Orders
    BY <1>1, ChargesAssumption, SizesAssumption DEF Orders
  <1>4. Ours(t) /\ txn[t].charge.order # 0 => status[txn[t].charge.order] # "ABSENT"
    BY <1>3 DEF PayInv, ChargesFollowCheckouts, IInv, AbsentIsFresh
  <1>5. Bound(t) \/ Ours(t) => ChargedOrder(t)' = ChargedOrder(t)
    BY <1>1, <1>2, <1>3, <1>4 DEF ChargedOrder, ReferencedOrder, NumberedOrder, Bound, Ours
  <1> QED
    BY <1>1, <1>5 DEF Ours, Bound

\* What an answer says of a bound charge stays true: the payer is final.
LEMMA AnswerStays ==
    ASSUME PayInv, IInv, [PayNext]_allVars, NEW t \in Txns, NEW result,
           Exists(t), Bound(t), Answered(t, result)
    PROVE  Exists(t)' /\ Bound(t)' /\ Answered(t, result)'
  <1>1. Exists(t)' /\ Bound(t)' /\ ChargedOrder(t)' = ChargedOrder(t)
    BY GatewayRemembers, BoundStays DEF PayInv
  <1>2. ChargedOrder(t) \in Orders
    BY ChargeTypes DEF PayInv
  <1>3. settledBy[ChargedOrder(t)] = t => settledBy'[ChargedOrder(t)] = t
    <2> SUFFICES ASSUME settledBy[ChargedOrder(t)] = t
                 PROVE  settledBy'[ChargedOrder(t)] = t
      OBVIOUS
    <2>1. payment[ChargedOrder(t)] = "PAID"
      BY <1>2, ChargesAssumption DEF PayInv, PayerIsFinal
    <2> QED
      BY <1>2, <2>1, PayerStep DEF PayerKept, PaidByOwn
  <1> QED
    BY <1>1, <1>3 DEF Answered

\* The verdict a request brings is applied, and its answer is right, at once.
LEMMA SettleAnswers ==
    ASSUME PayInv, NEW h \in Handlers, Settle(h), handler[h].said = "PAID"
    PROVE  \E result \in {"confirmed", Alarm} :
              /\ handler' = [handler EXCEPT ![h].pc = "stamp", ![h].result = result]
              /\ result = "confirmed" => settledBy'[ChargedOrder(handler[h].txn)] = handler[h].txn
  <1>1. ChargedOrder(handler[h].txn) \in Orders
    BY RequestPays
  <1>2. settledBy \in [Orders -> Txns \cup {NoTxn}]
    BY DEF PayInv, PayTypeOK
  <1> QED
    BY <1>1, <1>2 DEF Settle, SettlePaid, PaidResult, Alarm

Requests == [pc : {"record", "settle", "stamp"}, txn : Txns, said : GatewayStatuses, result : Results]

LEMMA KnowledgeStays ==
    ASSUME PayInv, IInv, [PayNext]_allVars, NEW r \in Requests, Exists(r.txn), Knows(r)
    PROVE  Knows(r)'
  <1>1. r.txn \in Txns
    BY DEF Requests
  <1>2. /\ Bound(r.txn) => Bound(r.txn)'
        /\ Ours(r.txn)' /\ Bound(r.txn)' => Ours(r.txn) /\ Bound(r.txn)
    BY <1>1, BoundStays
  <1>3. ledger \subseteq ledger'
    BY LedgerGrows
  <1>4. (Bound(r.txn) /\ Answered(r.txn, r.result)) => Answered(r.txn, r.result)'
    BY <1>1, AnswerStays
  <1> QED
    BY <1>2, <1>3, <1>4 DEF Knows

LEMMA RequestsStep ==
    ASSUME PayInv, IInv, [PayNext]_allVars
    PROVE  RequestsAreBound'
  <1>1. SUFFICES ASSUME NEW h \in Handlers, NEW r, r = handler'[h], r # Idle
                 PROVE  Knows(r)'
    BY DEF RequestsAreBound
  <1>2. handler[h] # Idle => /\ handler[h] \in Requests /\ Exists(handler[h].txn)
                             /\ Knows(handler[h])
    BY RequestTypes DEF PayInv, RequestsAreBound, Requests
  <1>3. handler \in [Handlers -> {Idle} \cup Requests]
    BY DEF PayInv, PayTypeOK, Requests
  <1>4. CASE r = handler[h]
    BY <1>1, <1>2, <1>4, KnowledgeStays
  <1>5. ASSUME NEW t \in Txns, NEW s \in GatewayStatuses, Receive(h, t, s)
        PROVE  Knows(r)'
    <2>1. /\ r.pc = (IF Bound(t) THEN "record" ELSE "stamp") /\ r.txn = t
      BY <1>1, <1>3, <1>5 DEF Receive, FirstStep
    <2>2. Exists(t)
      BY <1>5 DEF Receive, Verified
    <2> QED
      BY <2>1, <2>2, BoundStays DEF Knows
  <1>6. CASE Record(h)
    <2>1. handler[h] # Idle /\ handler[h].pc = "record"
      BY <1>6 DEF Record, Idle
    <2>2. /\ r.txn = handler[h].txn /\ r.said = handler[h].said
          /\ r.pc = IF handler[h].said \in {"PAID", "FAILED"} THEN "settle" ELSE "stamp"
      BY <1>1, <1>2, <1>3, <1>6, <2>1 DEF Record, Requests
    <2>3. PICK t \in Txns : t = r.txn /\ Exists(t) /\ Bound(t)
      BY <1>2, <2>1, <2>2 DEF Knows, Requests
    <2>4. Bound(t)'
      BY <2>3, BoundStays
    <2>5. <<r.txn, r.said>> \in ledger'
      BY <1>6, <2>2 DEF Record
    <2> QED
      BY <2>2, <2>3, <2>4, <2>5 DEF Knows
  <1>7. CASE Settle(h)
    <2>1. handler[h] # Idle
      BY <1>7 DEF Settle, Idle
    <2>2. \E result : handler' = [handler EXCEPT ![h].pc = "stamp", ![h].result = result]
      BY <1>7 DEF Settle
    <2>3. r.pc = "stamp" /\ r.txn = handler[h].txn /\ r.said = handler[h].said
      BY <1>1, <1>2, <1>3, <2>1, <2>2 DEF Requests
    <2>4. PICK t \in Txns : t = r.txn /\ Exists(t) /\ Bound(t)
      BY <1>2, <1>7, <2>1, <2>3 DEF Knows, Requests, Settle
    <2>5. CASE handler[h].said = "PAID"
      <3>1. PICK result \in {"confirmed", Alarm} :
               /\ handler' = [handler EXCEPT ![h].pc = "stamp", ![h].result = result]
               /\ result = "confirmed" => settledBy'[ChargedOrder(handler[h].txn)] = handler[h].txn
        BY <1>7, <2>5, SettleAnswers
      <3>2. r.result = result
        BY <1>1, <1>2, <1>3, <2>1, <3>1 DEF Requests
      <3> QED
        BY <2>3, <2>4, <3>1, <3>2, BoundStays DEF Knows, Answered
    <2> QED
      BY <2>3, <2>5 DEF Knows
  <1>8. CASE Stamp(h) \/ FailHalfway(h)
    BY <1>1, <1>3, <1>8 DEF Stamp, FailHalfway
  <1>9. ASSUME NEW k \in Handlers, k # h,
               \/ \E t \in Txns, s \in GatewayStatuses : Receive(k, t, s)
               \/ HandlerStep(k) \/ FailHalfway(k)
        PROVE  r = handler[h]
    BY <1>1, <1>3, <1>9 DEF Receive, HandlerStep, Record, Settle, Stamp, FailHalfway
  <1>10. CASE WebhookStep
    BY <1>4, <1>5, <1>6, <1>7, <1>8, <1>9, <1>10 DEF WebhookStep, HandlerStep
  <1>11. UNCHANGED handler \/ WebhookStep
    BY DEF PayNext, allVars, payVars, ShopStep, GatewayStep, OpenCharge, DecideCharge, ReconStep,
           HintStep, ReconRead, ReconAsk, ReconRecord, ReconSettle, ReconGiveUp, HintRead, HintWrite
  <1> QED
    BY <1>1, <1>4, <1>10, <1>11

\* A row is opened, or stamped with what its request knows by then.
LEMMA RowEffect ==
    ASSUME PayInv, [PayNext]_allVars, NEW t \in Txns, NEW s \in GatewayStatuses
    PROVE  \/ row'[<<t, s>>] = row[<<t, s>>]
           \/ row'[<<t, s>>] = "open" /\ Exists(t)
           \/ \E h \in Handlers : /\ handler[h].pc = "stamp" /\ handler[h] # Idle
                                 /\ handler[h].txn = t /\ handler[h].said = s
                                 /\ row'[<<t, s>>] = handler[h].result
                                 /\ UNCHANGED <<txn, settledBy>>
  <1>1. row \in [Statements -> Results \cup {"absent", "open"}] /\ <<t, s>> \in Statements
    BY DEF PayInv, PayTypeOK, Statements
  <1>2. ASSUME NEW k \in Handlers, NEW u \in Txns, NEW v \in GatewayStatuses, Receive(k, u, v)
        PROVE  row'[<<t, s>>] = row[<<t, s>>] \/ (row'[<<t, s>>] = "open" /\ Exists(t))
    BY <1>1, <1>2 DEF Receive, Verified
  <1>3. ASSUME NEW k \in Handlers, Stamp(k)
        PROVE  \/ row'[<<t, s>>] = row[<<t, s>>]
               \/ /\ handler[k].pc = "stamp" /\ handler[k] # Idle
                  /\ handler[k].txn = t /\ handler[k].said = s
                  /\ row'[<<t, s>>] = handler[k].result
                  /\ UNCHANGED <<txn, settledBy>>
    BY <1>1, <1>3 DEF Stamp, Idle
  <1>4. CASE UNCHANGED row
    BY <1>4
  <1>5. CASE WebhookStep
    BY <1>2, <1>3, <1>4, <1>5 DEF WebhookStep, HandlerStep, Record, Settle, FailHalfway
  <1>6. UNCHANGED row \/ WebhookStep
    BY DEF PayNext, allVars, payVars, ShopStep, GatewayStep, OpenCharge, DecideCharge, ReconStep,
           HintStep, ReconRead, ReconAsk, ReconRecord, ReconSettle, ReconGiveUp, HintRead, HintWrite
  <1> QED
    BY <1>4, <1>5, <1>6

LEMMA RowsStep ==
    ASSUME PayInv, IInv, [PayNext]_allVars
    PROVE  NoSilentCharge' /\ RowsNameCharges'
  <1>1. RowsNameCharges'
    <2> SUFFICES ASSUME NEW t \in Txns, NEW s \in GatewayStatuses, row'[<<t, s>>] # "absent"
                 PROVE  Exists(t)'
      BY DEF RowsNameCharges
    <2>1. Exists(t)
      BY RowEffect, RequestTypes DEF PayInv, RowsNameCharges
    <2> QED
      BY <2>1, GatewayRemembers DEF PayInv
  <1>2. NoSilentCharge'
    <2> SUFFICES ASSUME NEW t \in Txns, NEW result, result = row'[<<t, "PAID">>],
                        Ours(t)', Bound(t)', result \notin {"absent", "open"}
                 PROVE  Answered(t, result)'
      BY DEF NoSilentCharge, Answered
    <2>1. "PAID" \in GatewayStatuses
      BY DEF GatewayStatuses
    <2>2. Exists(t)
      BY <2>1, RowEffect, RequestTypes DEF PayInv, RowsNameCharges
    <2>3. Ours(t) /\ Bound(t)
      BY <2>2, BoundStays
    <2>4. CASE result = row[<<t, "PAID">>]
      <3>1. Answered(t, result)
        BY <2>2, <2>3, <2>4 DEF PayInv, NoSilentCharge, Answered
      <3> QED
        BY <2>2, <2>3, <3>1, AnswerStays
    <2>5. ASSUME NEW h \in Handlers, handler[h].pc = "stamp", handler[h] # Idle,
                 handler[h].txn = t, handler[h].said = "PAID", result = handler[h].result
          PROVE  Answered(t, result)'
      <3>1. Answered(t, result)
        BY <2>3, <2>5 DEF PayInv, RequestsAreBound, Knows
      <3> QED
        BY <2>2, <2>3, <3>1, AnswerStays
    <2> QED
      BY <2>1, <2>4, <2>5, RowEffect
  <1> QED
    BY <1>1, <1>2

LEMMA PayersStep ==
    ASSUME PayInv, IInv, [PayNext]_allVars
    PROVE  PayerIsFinal' /\ SettledByItsOwnCharge' /\ LedgerPrecedesSettlement'
  <1>0. SUFFICES \A o \in Orders :
                    /\ settledBy'[o] # NoTxn => payment'[o] = "PAID"
                    /\ payment'[o] = "PAID" => \E t \in Txns : settledBy'[o] = t /\ OwnCharge(o, t)'
    <2>1. ASSUME \A o \in Orders : payment'[o] = "PAID" =>
                    \E t \in Txns : settledBy'[o] = t /\ OwnCharge(o, t)'
          PROVE  SettledByItsOwnCharge' /\ LedgerPrecedesSettlement'
      <3>1. SettledByItsOwnCharge'
        <4> SUFFICES ASSUME NEW o \in Orders, payment'[o] = "PAID"
                     PROVE  \E t \in Txns : settledBy'[o] = t /\ OwnCharge(o, t)'
          BY DEF SettledByItsOwnCharge, OwnCharge, Ours
        <4> QED
          BY <2>1
      <3>2. LedgerPrecedesSettlement'
        <4> SUFFICES ASSUME NEW o \in Orders, payment'[o] = "PAID"
                     PROVE  \/ <<settledBy'[o], "PAID">> \in ledger'
                            \/ txn'[settledBy'[o]].charge.amount = "missing"
          BY DEF LedgerPrecedesSettlement
        <4>1. PICK t \in Txns : settledBy'[o] = t /\ OwnCharge(o, t)'
          BY <2>1
        <4>2. <<t, "PAID">> \in ledger' \/ txn'[t].charge.amount = "missing"
          BY <4>1 DEF OwnCharge
        <4> QED
          BY <4>1, <4>2
      <3> QED
        BY <3>1, <3>2
    <2> QED
      BY <2>1 DEF PayerIsFinal
  <1> TAKE o \in Orders
  <1>2. ASSUME NEW t \in Txns, OwnCharge(o, t)
        PROVE  OwnCharge(o, t)'
    <2>1. /\ Exists(t)' /\ txn'[t].charge = txn[t].charge /\ txn[t].said \subseteq txn'[t].said
      BY <1>2, GatewayRemembers DEF PayInv, OwnCharge
    <2> QED
      BY <1>2, <2>1, LedgerGrows DEF OwnCharge, Ours
  <1>3. payment[o] = "PAID" => \E t \in Txns : settledBy[o] = t /\ OwnCharge(o, t)
    BY DEF PayInv, SettledByItsOwnCharge, LedgerPrecedesSettlement, OwnCharge, Ours
  <1>4. settledBy[o] # NoTxn => payment[o] = "PAID"
    BY DEF PayInv, PayerIsFinal
  <1>5. CASE PayerKept(o)
    BY <1>2, <1>3, <1>4, <1>5 DEF PayerKept
  <1>6. CASE PaidByOwn(o)
    BY <1>2, <1>6 DEF PaidByOwn
  <1> QED
    BY <1>5, <1>6, PayerStep

LEMMA RefsStep ==
    ASSUME PayInv, [PayNext]_allVars
    PROVE  VerifiedRefIsOwn'
  <1>0. \A t \in Txns : Exists(t) => Exists(t)' /\ txn'[t].charge = txn[t].charge
    BY GatewayRemembers DEF PayInv
  <1>1. SUFFICES ASSUME NEW o \in Orders, refSource'[o] = "verified"
                 PROVE  \E t \in Txns : ref'[o] = t /\ OwnRef(o, t)
    BY <1>0 DEF VerifiedRefIsOwn, OwnRef, Exists, Ours, LeadsTo
  <1>2. CASE ref'[o] = ref[o] /\ refSource'[o] = refSource[o]
    BY <1>1, <1>2 DEF PayInv, VerifiedRefIsOwn, OwnRef
  <1>3. ASSUME NEW h \in Handlers, Settle(h)
        PROVE  \E t \in Txns : ref'[o] = t /\ OwnRef(o, t)
    BY <1>2, <1>3, RequestPays, VerdictEffect DEF PayInv
  <1>4. CASE ReconSettle
    BY <1>2, <1>4, SweepPays, VerdictEffect DEF PayInv
  <1>5. CASE HintWrite
    BY <1>1, <1>2, <1>5 DEF HintWrite, PayInv, PayTypeOK
  <1> QED
    BY <1>2, <1>3, <1>4, <1>5 DEF PayNext, allVars, payVars, ShopStep, GatewayStep, OpenCharge,
       DecideCharge, WebhookStep, HandlerStep, ReconStep, HintStep, Receive, Record, Stamp,
       FailHalfway, ReconRead, ReconAsk, ReconRecord, ReconGiveUp, HintRead

-----------------------------------------------------------------------------
(* The theorems.                                                            *)

LEMMA InitPayInv == Init /\ PayInit => PayInv
  <1> SUFFICES ASSUME Init, PayInit PROVE PayInv
    OBVIOUS
  <1> USE DEF PayInit
  <1>1. PayTypeOK
    BY InitIInv, ChargesAssumption DEF IInv, PayTypeOK, Exists, Statements
  <1>2. TransactionsAreRecorded /\ ChargesFollowCheckouts /\ RequestsAreBound /\ SweepIsBound
    BY DEF TransactionsAreRecorded, ChargesFollowCheckouts, Exists, RequestsAreBound, SweepIsBound, Idle
  <1>3. RowsNameCharges /\ NoSilentCharge
    BY DEF RowsNameCharges, NoSilentCharge, Statements, GatewayStatuses
  <1>4. PayerIsFinal /\ SettledByItsOwnCharge /\ LedgerPrecedesSettlement /\ VerifiedRefIsOwn
    BY DEF Init, PayerIsFinal, SettledByItsOwnCharge, LedgerPrecedesSettlement, VerifiedRefIsOwn
  <1> QED
    BY <1>1, <1>2, <1>3, <1>4 DEF PayInv

LEMMA NextPayInv == IInv /\ PayInv /\ [PayNext]_allVars => IInv' /\ PayInv'
  <1> SUFFICES ASSUME IInv, PayInv, [PayNext]_allVars
               PROVE  IInv' /\ PayInv'
    OBVIOUS
  <1>1. IInv'
    BY NextIInv, PayStepIsLifecycleStep
  <1>2. PayTypeOK'
    BY <1>1, PayTypesStep DEF IInv
  <1> QED
    BY <1>1, <1>2, TransactionsStep, ChargesFollow, RequestsStep, SweepBoundStep, RowsStep,
       PayersStep, RefsStep DEF PayInv

(****************************************************************************)
(* The inductive invariant of the settlement, on top of the lifecycle's.    *)
(****************************************************************************)
THEOREM SettlementInvariant == PaySpec => [](IInv /\ PayInv)
  <1>1. Init /\ PayInit => IInv /\ PayInv
    BY InitIInv, InitPayInv
  <1> QED
    BY <1>1, NextPayInv, PTL DEF PaySpec

(****************************************************************************)
(* Types of everything the webhook handler, the sweep and the hint keep.    *)
(****************************************************************************)
THEOREM SettlementTypeOK == PaySpec => []PayTypeOK
  <1>1. PayInv => PayTypeOK
    BY DEF PayInv
  <1> QED
    BY <1>1, SettlementInvariant, PTL

(****************************************************************************)
(* Webhooks, retries and sweeps included, the order lifecycle is kept: what *)
(* is proved of OrderLifecycle holds of the whole.                          *)
(****************************************************************************)
THEOREM SettlementImplementsLifecycle == PaySpec => LifecycleHolds
  BY PayStepIsLifecycleStep, SettlementInvariant, PTL DEF PaySpec, LifecycleHolds, Spec

(****************************************************************************)
(* A PAID order was settled by an approved charge that leads to it: opened  *)
(* by this shop for this order, or a bare number's and of exactly its total.*)
(****************************************************************************)
THEOREM PaidByItsOwnCharge == PaySpec => []SettledByItsOwnCharge
  <1>1. PayInv => SettledByItsOwnCharge
    BY DEF PayInv
  <1> QED
    BY <1>1, SettlementInvariant, PTL

(****************************************************************************)
(* A settling statement is in the ledger before the order is PAID.          *)
(****************************************************************************)
THEOREM LedgerComesFirst == PaySpec => []LedgerPrecedesSettlement
  <1>1. PayInv => LedgerPrecedesSettlement
    BY DEF PayInv
  <1> QED
    BY <1>1, SettlementInvariant, PTL

(****************************************************************************)
(* An approved charge of this shop that was answered for good settled its   *)
(* order, or the alarm is on record.                                        *)
(****************************************************************************)
THEOREM ChargesAreNeverSilent == PaySpec => []NoSilentCharge
  <1>1. PayInv => NoSilentCharge
    BY DEF PayInv
  <1> QED
    BY <1>1, SettlementInvariant, PTL

(****************************************************************************)
(* A verified ref names a charge this shop opened for the order, or one of  *)
(* its bare number and exactly its total.                                   *)
(****************************************************************************)
THEOREM VerifiedRefsAreOwn == PaySpec => []VerifiedRefIsOwn
  <1>1. PayInv => VerifiedRefIsOwn
    BY DEF PayInv
  <1> QED
    BY <1>1, SettlementInvariant, PTL

-----------------------------------------------------------------------------
(* Why an approved payment is refused: the order it names was over.         *)

\* The order that a transaction is bound to is over; or it is to be paid in cash,
\* and the transaction is another tenant's.
TooLate(t) ==
    LET o == ChargedOrder(t)
    IN  Bound(t) /\ (Over(o) \/ (~Ours(t) /\ payment[o] = "COD"))

\* A request that found its order unsettleable, and what it has stamped.
AlarmsAreLate ==
    /\ \A h \in Handlers : handler[h] # Idle /\ handler[h].pc = "stamp" /\ handler[h].result = Alarm
                               => TooLate(handler[h].txn)
    /\ \A t \in Txns : row[<<t, "PAID">>] = Alarm => TooLate(t)

LEMMA InitAlarms == Init /\ PayInit => AlarmsAreLate
  <1> SUFFICES ASSUME PayInit PROVE AlarmsAreLate
    OBVIOUS
  <1>1. \A t \in Txns : ~Exists(t)
    BY DEF PayInit, Exists
  <1>2. \A h \in Handlers : handler[h] = Idle
    BY DEF PayInit
  <1>3. \A t \in Txns : row[<<t, "PAID">>] # Alarm
    BY DEF PayInit, Statements, GatewayStatuses, Alarm
  <1> QED
    BY <1>1, <1>2, <1>3 DEF AlarmsAreLate

LEMMA LateStays ==
    ASSUME IInv, PayInv, [PayNext]_allVars, NEW t \in Txns, Exists(t), TooLate(t)
    PROVE  TooLate(t)'
  <1> DEFINE o == ChargedOrder(t)
  <1>1. /\ Bound(t) /\ Bound(t)' /\ ChargedOrder(t)' = o /\ o \in Orders
        /\ Ours(t)' <=> Ours(t)
    BY BoundStays, ChargeTypes DEF PayInv, TooLate
  <1>2. Over(o) => Over(o)'
    BY <1>1, PayStepIsLifecycleStep, OrdersGoOn
  <1>3. payment[o] = "COD" => status[o] # "ABSENT"
    BY <1>1 DEF IInv, AbsentIsFresh
  <1>4. payment[o] = "COD" => Over(o)' \/ payment'[o] = "COD"
    BY <1>1, <1>3, PayStepIsLifecycleStep, OrdersGoOn
  <1> QED
    BY <1>1, <1>2, <1>4 DEF TooLate, Over

\* A bound charge that markPaid turns down comes too late: an order that is
\* still open and pays online is undecided or declined, and either may be paid.
LEMMA TurnedDownLate ==
    ASSUME IInv, PayInv, NEW t \in Txns, Exists(t), Bound(t),
           ~CanMarkPaid(ChargedOrder(t))
    PROVE  TooLate(t)
  <1> DEFINE o == ChargedOrder(t)
  <1>1. o \in Orders /\ o # 0
    BY ChargeTypes DEF PayInv, Bound
  <1>2. /\ txn[t].charge.order = o
        /\ Ours(t) \/ status[o] # "ABSENT"
    BY <1>1 DEF ChargedOrder, ReferencedOrder, NumberedOrder, Ours
  <1>3. Ours(t) => provider[o] # "null"
    BY <1>1, <1>2 DEF PayInv, ChargesFollowCheckouts
  <1>4. status[o] # "ABSENT"
    BY <1>1, <1>2, <1>3 DEF IInv, AbsentIsFresh
  <1>5. status[o] = "PENDING" => ~Ours(t) /\ payment[o] = "COD"
    BY <1>1, <1>3 DEF IInv, OpenIsUndecided, CanMarkPaid
  <1> QED
    BY <1>1, <1>4, <1>5 DEF TooLate, Over

LEMMA AlarmsStayLate ==
    ASSUME IInv, PayInv, AlarmsAreLate, [PayNext]_allVars
    PROVE  AlarmsAreLate'
  <1>1. handler \in [Handlers -> {Idle} \cup Requests]
    BY DEF PayInv, PayTypeOK, Requests
  <1>2. ASSUME NEW h \in Handlers, NEW r, r = handler'[h], r # Idle, r.pc = "stamp",
               r.result = Alarm
        PROVE  TooLate(r.txn)'
    <2>1. CASE handler'[h] = handler[h]
      <3>1. r = handler[h]
        BY <1>2, <2>1
      <3>2. TooLate(r.txn) /\ Exists(r.txn) /\ r.txn \in Txns
        BY <1>2, <3>1, RequestTypes DEF PayInv, AlarmsAreLate
      <3> QED
        BY <3>2, LateStays
    <2>2. CASE handler'[h] # handler[h]
      <3>1. ASSUME NEW k \in Handlers, NEW u \in Txns, NEW s \in GatewayStatuses, Receive(k, u, s)
            PROVE  FALSE
        BY <1>1, <1>2, <2>2, <3>1 DEF Receive, Alarm
      <3>2. ASSUME NEW k \in Handlers, Record(k)
            PROVE  FALSE
        <4>1. k = h
          BY <1>1, <2>2, <3>2 DEF Record
        <4>2. handler[h] \in Requests
          BY <1>1, <3>2, <4>1 DEF Record, Idle
        <4>3. handler'[h].result = "noop"
          BY <1>1, <3>2, <4>1, <4>2 DEF Record, Requests
        <4> QED
          BY <1>2, <4>3 DEF Alarm
      <3>3. ASSUME NEW k \in Handlers, Stamp(k) \/ FailHalfway(k)
            PROVE  FALSE
        BY <1>1, <1>2, <2>2, <3>3 DEF Stamp, FailHalfway
      <3>4. ASSUME NEW k \in Handlers, Settle(k)
            PROVE  TooLate(r.txn)'
        <4>1. k = h
          BY <1>1, <2>2, <3>4 DEF Settle
        <4>2. handler[h] # Idle /\ handler[h] \in Requests /\ handler[h].pc = "settle"
          BY <1>1, <3>4, <4>1 DEF Settle, Idle
        <4> DEFINE t == handler[h].txn
        <4>3. t \in Txns /\ Exists(t) /\ Bound(t)
          BY <4>2, RequestTypes DEF PayInv, RequestsAreBound, Knows
        <4>4. r.txn = t
          BY <1>1, <1>2, <3>4, <4>1, <4>2 DEF Settle, Requests
        <4>5. ~CanMarkPaid(ChargedOrder(t))
          <5>1. ASSUME NEW result, handler' = [handler EXCEPT ![h].pc = "stamp", ![h].result = result]
                PROVE  result = Alarm
            BY <1>1, <1>2, <4>2, <5>1 DEF Requests
          <5>2. ASSUME NEW applied \in BOOLEAN, SettlePaid(ChargedOrder(t), t, applied),
                       PaidResult(applied) = Alarm
                PROVE  ~CanMarkPaid(ChargedOrder(t))
            BY <5>2 DEF SettlePaid, PaidResult, Alarm
          <5>3. \A applied \in BOOLEAN : FailedResult(applied) # Alarm
            BY DEF FailedResult, Alarm
          <5>4. \/ \E applied \in BOOLEAN :
                       /\ SettlePaid(ChargedOrder(t), t, applied)
                       /\ handler' = [handler EXCEPT ![h].pc = "stamp", ![h].result = PaidResult(applied)]
                \/ \E applied \in BOOLEAN :
                       handler' = [handler EXCEPT ![h].pc = "stamp", ![h].result = FailedResult(applied)]
            BY <3>4, <4>1 DEF Settle
          <5> QED
            BY <5>1, <5>2, <5>3, <5>4
        <4>6. TooLate(t)
          BY <4>3, <4>5, TurnedDownLate
        <4> QED
          BY <4>3, <4>4, <4>6, LateStays
      <3>5. handler' = handler \/ WebhookStep
        BY DEF PayNext, allVars, payVars, ShopStep, GatewayStep, OpenCharge, DecideCharge, ReconStep,
               HintStep, ReconRead, ReconAsk, ReconRecord, ReconSettle, ReconGiveUp, HintRead, HintWrite
      <3> QED
        BY <2>2, <3>1, <3>2, <3>3, <3>4, <3>5 DEF WebhookStep, HandlerStep
    <2> QED
      BY <2>1, <2>2
  <1>3. ASSUME NEW t \in Txns, row'[<<t, "PAID">>] = Alarm
        PROVE  TooLate(t)'
    <2>1. "PAID" \in GatewayStatuses /\ Alarm # "open" /\ Alarm # "absent"
      BY DEF GatewayStatuses, Alarm
    <2>2. CASE row[<<t, "PAID">>] = Alarm
      <3>1. TooLate(t) /\ Exists(t)
        BY <2>1, <2>2 DEF AlarmsAreLate, PayInv, RowsNameCharges
      <3> QED
        BY <3>1, LateStays
    <2>3. CASE row[<<t, "PAID">>] # Alarm
      <3>1. PICK h \in Handlers : /\ handler[h].pc = "stamp" /\ handler[h] # Idle
                                  /\ handler[h].txn = t /\ handler[h].result = Alarm
        BY <1>3, <2>1, <2>3, RowEffect
      <3>2. TooLate(t) /\ Exists(t)
        BY <3>1, RequestTypes DEF PayInv, AlarmsAreLate
      <3> QED
        BY <3>2, LateStays
    <2> QED
      BY <2>2, <2>3
  <1> QED
    BY <1>2, <1>3 DEF AlarmsAreLate

(****************************************************************************)
(* No approved payment is refused while its order is still open, whatever   *)
(* declined attempts came before it: the alarm means that the order had been*)
(* paid, taken over, cancelled or expired, and stays so; or the charge is   *)
(* another tenant's and the order is to be paid in cash.                    *)
(****************************************************************************)
THEOREM AlarmsComeLate == PaySpec => []AlarmMeansTooLate
  <1>1. AlarmsAreLate => AlarmMeansTooLate
    BY DEF AlarmsAreLate, TooLate, Over, AlarmMeansTooLate
  <1> QED
    BY <1>1, InitAlarms, AlarmsStayLate, SettlementInvariant, PTL DEF PaySpec
=============================================================================
