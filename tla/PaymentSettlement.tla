------------------------- MODULE PaymentSettlement -------------------------
(****************************************************************************)
(* How a charge at the gateway reaches its order: the webhook handler       *)
(* (webhooks.controller.ts), the payment ledger, the reconciliation sweep   *)
(* (reconciliation.worker.ts) and the shopper's providerRef hint            *)
(* (checkout.controller.ts), all over the orders of OrderLifecycle, whose   *)
(* checkout, merchant, expiry and catalogue steps go on in between.         *)
(*                                                                         *)
(* A handler is not one transaction: each of its database round trips is a  *)
(* step of its own, and it may fail between any two of them.  Deliveries    *)
(* may be repeated, delayed, reordered and handled concurrently.            *)
(****************************************************************************)
EXTENDS OrderLifecycle

CONSTANTS
    Txns,           \* gateway transaction ids
    NoTxn,          \* no transaction: a null providerRef
    Charges,        \* what a transaction may be about: see ChargesAssumption
    Announced,      \* BOUND: statuses the gateway sends webhooks about
    Handlers,       \* webhook requests in flight at once
    Hinted,         \* transactions a shopper's return page reports
    AccountScoped,  \* the gateway's lookup is scoped to the tenant's account
    Searchable,     \* the gateway has searchByReference
    Decisions,      \* the status changes this gateway's transactions make
    SignedStatus,   \* a delivery carries the status it is about; otherwise the
                    \* handler looks up the transaction's status of the moment
    MaxFailures     \* BOUND: how many webhook requests fail half way

\* A charge was opened by this shop or, on a merchant account that tenants share,
\* by another, for the order of that number there (0 for an order nobody knows),
\* and names it by its reference or, in sessions opened before references
\* existed, by its bare number.  Its amount and currency are those of this shop's
\* order of the number or not, or the gateway's lookup leaves them out.
ASSUME ChargesAssumption ==
    /\ NoTxn \notin Txns
    /\ Charges \subseteq [shop : {"here", "elsewhere"}, order : 0..NumOrders,
                          key : {"reference", "number"}, amount : {"exact", "other", "missing"}]
    /\ Announced \subseteq {"PENDING", "PAID", "FAILED", "EXPIRED"}
    /\ Hinted \subseteq Txns
    /\ Decisions \subseteq {"PENDING", "PAID"} \X {"PAID", "FAILED", "EXPIRED"}
    /\ {AccountScoped, Searchable, SignedStatus} \subseteq BOOLEAN
    /\ MaxFailures \in Nat

VARIABLES
    txn,            \* the gateway's transactions: what each is about, its status,
                    \* and the statuses it has reported
    row,            \* WebhookEvent rows: absent, open (processedAt null), or result
    ledger,         \* Payment rows: the statements <<transaction, status>>
    handler,        \* the webhook requests in flight
    ref,            \* Order.providerRef
    refSource,      \* Order.providerRefSource
    recon,          \* the order the reconciliation sweep is working on
    hint,           \* a provider-ref-hint request between its read and its write
    failures,       \* webhook requests that failed so far
    settledBy       \* history: the transaction whose verdict marked the order PAID

payVars == <<txn, row, ledger, handler, ref, refSource, recon, hint, failures, settledBy>>
allVars == <<vars, payVars>>

GatewayStatuses == {"PENDING", "PAID", "FAILED", "EXPIRED"}
Alarm == "paid_order_not_settleable"
Results == {"refused", "confirmed", Alarm, "failed", "failed_not_applied", "noop"}
Statements == Txns \X GatewayStatuses

Idle == [pc |-> "idle"]
Exists(t) == txn[t].status # "none"
Ours(t) == txn[t].charge.shop = "here"

PayInit ==
    /\ txn = [t \in Txns |-> [status |-> "none"]]
    /\ row = [e \in Statements |-> "absent"]
    /\ ledger = {}
    /\ handler = [h \in Handlers |-> Idle]
    /\ ref = [o \in Orders |-> NoTxn]
    /\ refSource = [o \in Orders |-> "none"]
    /\ recon = Idle
    /\ hint = Idle
    /\ failures = 0
    /\ settledBy = [o \in Orders |-> NoTxn]

-----------------------------------------------------------------------------
(* The gateway.                                                             *)

\* A shopper pays, of this shop for an order already placed, or of another's.
OpenCharge(t, c) ==
    /\ ~Exists(t)
    /\ c.shop = "here" /\ c.order # 0 => provider[c.order] # "null"
    /\ txn' = [txn EXCEPT ![t] = [status |-> "PENDING", charge |-> c,
                                       said |-> {"PENDING"}]]
    /\ UNCHANGED vars
    /\ UNCHANGED <<row, ledger, handler, ref, refSource, recon, hint, failures, settledBy>>

\* A pending transaction is decided, or a paid one is taken back: refunded or
\* charged back (EXPIRED in mercadopago.ts) or annulled (FAILED in wompi.ts).
DecideCharge(t, s) ==
    /\ Exists(t)
    /\ <<txn[t].status, s>> \in Decisions
    /\ txn' = [txn EXCEPT ![t].status = s, ![t].said = @ \cup {s}]
    /\ UNCHANGED vars
    /\ UNCHANGED <<row, ledger, handler, ref, refSource, recon, hint, failures, settledBy>>

-----------------------------------------------------------------------------
(* The webhook handler, one action per round trip.                          *)

\* MUTANT: references looked up as numbers were, within the tenant of the URL.
ReferencedWithinTenant(c) == c.order

\* Order.reference is unique across the platform: the order is found wherever it
\* is, and refused (cross_tenant_reference) if it is another tenant's.
ReferencedOrder(c) == IF c.shop = "here" THEN c.order ELSE 0

\* A bare number is looked up among the orders of the URL's tenant, whichever
\* tenant's session it comes from.
NumberedOrder(c) == IF c.order # 0 /\ status[c.order] # "ABSENT" THEN c.order ELSE 0

ChargedOrder(t) ==
    LET c == txn[t].charge
    IN  IF c.key = "reference" THEN ReferencedOrder(c) ELSE NumberedOrder(c)

\* The event resolves to an order of this tenant and its amount and currency are
\* the order's; otherwise it is refused: order_not_found, cross_tenant_reference,
\* amount_mismatch, currency_unknown or currency_mismatch.
Bound(t) == ChargedOrder(t) # 0 /\ txn[t].charge.amount = "exact"

\* MUTANT: the delivery's own word is taken for the transaction's status.
Unverified(t, s) == Exists(t) /\ s \in Announced

\* verifyAndParseWebhook: a delivery, first or repeated, of a status that the
\* transaction has or, where the delivery carries it, had.
Verified(t, s) ==
    /\ Exists(t)
    /\ s \in txn[t].said \cap Announced
    /\ SignedStatus \/ s = txn[t].status

\* MUTANT: every conflicting delivery is answered "already handled".
FirstDelivery(t, s) == row[<<t, s>>] = "absent"

Unprocessed(t, s) == row[<<t, s>>] \in {"absent", "open"}

\* MUTANT: the ledger row is left for after the settle.
SettleFirst(t) == IF Bound(t) THEN "settle" ELSE "stamp"

FirstStep(t) == IF Bound(t) THEN "record" ELSE "stamp"

\* Insert the WebhookEvent row; on a conflict go on unless it was processed.
\* A processed row is answered 200 at once, which changes nothing.
Receive(h, t, s) ==
    /\ handler[h] = Idle
    /\ Verified(t, s)
    /\ Unprocessed(t, s)
    /\ row' = [row EXCEPT ![<<t, s>>] = "open"]
    /\ handler' = [handler EXCEPT ![h] =
          [pc |-> FirstStep(t), txn |-> t, said |-> s, result |-> "refused"]]
    /\ UNCHANGED vars
    /\ UNCHANGED <<txn, ledger, ref, refSource, recon, hint, failures, settledBy>>

\* recordPaymentAttempt: INSERT ... ON CONFLICT DO NOTHING.
Record(h) ==
    /\ handler[h].pc = "record"
    /\ ledger' = ledger \cup {<<handler[h].txn, handler[h].said>>}
    /\ handler' = [handler EXCEPT
          ![h].pc = IF handler[h].said \in {"PAID", "FAILED"} THEN "settle" ELSE "stamp",
          ![h].result = "noop"]
    /\ UNCHANGED vars
    /\ UNCHANGED <<txn, row, ref, refSource, recon, hint, failures, settledBy>>

StampRef(o, t) ==
    /\ ref' = [ref EXCEPT ![o] = t]
    /\ refSource' = [refSource EXCEPT ![o] = "verified"]

\* markPaid and markFailed, with the columns this module adds to the order.
\* "applied" is what the method returns.
SettlePaid(o, t, applied) ==
    \/ /\ applied
       /\ MarkPaid(o)
       /\ StampRef(o, t)
       /\ settledBy' = [settledBy EXCEPT ![o] = t]
    \/ /\ ~applied
       /\ ~CanMarkPaid(o)
       /\ UNCHANGED vars
       /\ UNCHANGED <<ref, refSource, settledBy>>

\* MUTANT: a bare update, with no lock and no precondition.
SettleFailedBare(o, t, applied) ==
    /\ applied
    /\ payment' = [payment EXCEPT ![o] = "FAILED"]
    /\ StampRef(o, t)
    /\ UNCHANGED <<status, provider, reservation, lines, batch, settledBy>>
    /\ UNCHANGED stockVars

SettleFailed(o, t, applied) ==
    \/ /\ applied
       /\ MarkFailed(o)
       /\ StampRef(o, t)
       /\ UNCHANGED settledBy
    \/ /\ ~applied
       /\ ~CanMarkFailed(o)
       /\ UNCHANGED vars
       /\ UNCHANGED <<ref, refSource, settledBy>>

\* MUTANT: the result says what was attempted.
AlwaysConfirmed(applied) == "confirmed"

PaidResult(applied) == IF applied THEN "confirmed" ELSE Alarm
FailedResult(applied) == IF applied THEN "failed" ELSE "failed_not_applied"

Settle(h) ==
    LET t == handler[h].txn
        o == ChargedOrder(t)
        Then(result) == handler' = [handler EXCEPT ![h].pc = "stamp", ![h].result = result]
    IN  /\ handler[h].pc = "settle"
        /\ \/ /\ handler[h].said = "PAID"
              /\ \E applied \in BOOLEAN :
                    SettlePaid(o, t, applied) /\ Then(PaidResult(applied))
           \/ /\ handler[h].said = "FAILED"
              /\ \E applied \in BOOLEAN :
                    SettleFailed(o, t, applied) /\ Then(FailedResult(applied))
        /\ UNCHANGED <<txn, row, ledger, recon, hint, failures>>

\* markProcessed: an unconditional UPDATE, whatever the row says by now.
Stamp(h) ==
    /\ handler[h].pc = "stamp"
    /\ row' = [row EXCEPT ![<<handler[h].txn, handler[h].said>>] = handler[h].result]
    /\ handler' = [handler EXCEPT ![h] = Idle]
    /\ UNCHANGED vars
    /\ UNCHANGED <<txn, ledger, ref, refSource, recon, hint, failures, settledBy>>

\* A round trip throws or the process dies: 500 or no answer, the gateway retries.
FailHalfway(h) ==
    /\ handler[h] # Idle
    /\ failures < MaxFailures
    /\ failures' = failures + 1
    /\ handler' = [handler EXCEPT ![h] = Idle]
    /\ UNCHANGED vars
    /\ UNCHANGED <<txn, row, ledger, ref, refSource, recon, hint, settledBy>>

-----------------------------------------------------------------------------
(* The reconciliation sweep, one candidate at a time.                       *)

\* The candidate row, read long before it is used.
ReconRead(o) ==
    /\ recon = Idle
    /\ status[o] = "PENDING" /\ payment[o] \in {"PENDING", "FAILED"}
    /\ reservation[o] # "none" /\ provider[o] # "null"
    /\ recon' = [pc |-> "ask", order |-> o, ref |-> ref[o], source |-> refSource[o]]
    /\ UNCHANGED vars
    /\ UNCHANGED <<txn, row, ledger, handler, ref, refSource, hint, failures, settledBy>>

\* MUTANT: the reference is not compared.
BoundByAmount(t, o) == Exists(t) /\ txn[t].charge.amount # "other"

\* checkOrderBinding: the gateway's reference must be Order.reference, and an
\* amount it reports must be the total, in COP.
BoundTo(t, o) ==
    /\ Exists(t)
    /\ txn[t].charge.key = "reference" /\ ReferencedOrder(txn[t].charge) = o
    /\ txn[t].charge.amount # "other"

\* getTransactionStatus(providerRef): not for an unverified ref where anybody's
\* transaction can be looked up.
ById == IF /\ recon.ref # NoTxn
           /\ recon.source = "verified" \/ AccountScoped
           /\ BoundTo(recon.ref, recon.order)
          THEN {recon.ref} ELSE {}

\* searchByReference(String(order.number)): transactions of the account whose
\* external reference is the order's NUMBER; an approved one is preferred.
Matching(o) == {t \in Txns : Exists(t) /\ txn[t].charge.order = o /\ txn[t].charge.key = "number"}
Approved(S) == {t \in S : txn[t].status = "PAID"}
BySearch ==
    LET hits == IF Searchable THEN Matching(recon.order) ELSE {}
        best == IF Approved(hits) # {} THEN Approved(hits) ELSE hits
    IN  {t \in best : BoundTo(t, recon.order)}

Found == IF ById # {} THEN ById ELSE BySearch

ReconAsk ==
    /\ recon.pc = "ask"
    /\ \/ \E t \in Found : recon' = [pc |-> "record", order |-> recon.order,
                                     txn |-> t, said |-> txn[t].status]
       \/ Found = {} /\ recon' = Idle
    /\ UNCHANGED vars
    /\ UNCHANGED <<txn, row, ledger, handler, ref, refSource, hint, failures, settledBy>>

\* The ledger row comes before the settle, unless the gateway gave no amount.
ReconRecord ==
    /\ recon.pc = "record"
    /\ ledger' = IF txn[recon.txn].charge.amount = "missing" THEN ledger
                 ELSE ledger \cup {<<recon.txn, recon.said>>}
    /\ recon' = IF recon.said = "PENDING" THEN Idle ELSE [recon EXCEPT !.pc = "settle"]
    /\ UNCHANGED vars
    /\ UNCHANGED <<txn, row, handler, ref, refSource, hint, failures, settledBy>>

ReconSettle ==
    /\ recon.pc = "settle"
    /\ \E applied \in BOOLEAN :
          IF recon.said = "PAID"
            THEN SettlePaid(recon.order, recon.txn, applied)
            ELSE SettleFailed(recon.order, recon.txn, applied)
    /\ recon' = Idle
    /\ UNCHANGED <<txn, row, ledger, handler, hint, failures>>

\* The gateway is down, a query throws, the worker restarts: on to the next sweep.
ReconGiveUp ==
    /\ recon # Idle
    /\ recon' = Idle
    /\ UNCHANGED vars
    /\ UNCHANGED <<txn, row, ledger, handler, ref, refSource, hint, failures, settledBy>>

-----------------------------------------------------------------------------
(* The shopper's return page reports its transaction: a read and a write    *)
(* with no lock and no transaction around them.                             *)

HintRead(o, t) ==
    /\ hint = Idle
    /\ Exists(t)
    /\ provider[o] # "null" /\ payment[o] \in {"PENDING", "FAILED"}
    /\ refSource[o] # "verified"
    /\ hint' = [pc |-> "write", order |-> o, txn |-> t]
    /\ UNCHANGED vars
    /\ UNCHANGED <<txn, row, ledger, handler, ref, refSource, recon, failures, settledBy>>

HintWrite ==
    /\ hint.pc = "write"
    /\ ref' = [ref EXCEPT ![hint.order] = hint.txn]
    /\ refSource' = [refSource EXCEPT ![hint.order] = "hint"]
    /\ hint' = Idle
    /\ UNCHANGED vars
    /\ UNCHANGED <<txn, row, ledger, handler, recon, failures, settledBy>>

-----------------------------------------------------------------------------
\* Everything else that happens to orders; verdicts only come from above.
ShopStep ==
    /\ \/ \E o \in Orders : Checkout(o) \/ Confirm(o) \/ Fulfil(o) \/ Cancel(o) \/ Lapse(o)
       \/ SweepStart
       \/ ExpireNext
       \/ CatalogStep
    /\ UNCHANGED payVars

GatewayStep ==
    \E t \in Txns : \/ \E c \in Charges : OpenCharge(t, c)
                    \/ \E s \in GatewayStatuses \ {"PENDING"} : DecideCharge(t, s)

HandlerStep(h) == Record(h) \/ Settle(h) \/ Stamp(h)

WebhookStep ==
    \E h \in Handlers :
        \/ \E t \in Txns, s \in GatewayStatuses : Receive(h, t, s)
        \/ HandlerStep(h)
        \/ FailHalfway(h)

ReconStep == (\E o \in Orders : ReconRead(o)) \/ ReconAsk \/ ReconRecord \/ ReconSettle \/ ReconGiveUp

HintStep == (\E o \in Orders, t \in Hinted : HintRead(o, t)) \/ HintWrite

PayNext == ShopStep \/ GatewayStep \/ WebhookStep \/ ReconStep \/ HintStep

(****************************************************************************)
(* The gateway retries a delivery until it is answered 200, and a request   *)
(* that does not fail runs to its end.                                      *)
(****************************************************************************)
PayFairness ==
    /\ \A t \in Txns, s \in GatewayStatuses : WF_allVars(\E h \in Handlers : Receive(h, t, s))
    /\ \A h \in Handlers : WF_allVars(HandlerStep(h))

PaySpec == Init /\ PayInit /\ [][PayNext]_allVars
FairPaySpec == PaySpec /\ PayFairness

-----------------------------------------------------------------------------
Sessions == [status : GatewayStatuses, charge : Charges, said : SUBSET GatewayStatuses]

(****************************************************************************)
(* Types; and a request or sweep that is about to record or settle always   *)
(* carries a transaction the gateway knows and a status it has reported.    *)
(****************************************************************************)
PayTypeOK ==
    /\ TypeOK
    /\ txn \in [Txns -> Sessions \cup {[status |-> "none"]}]
    /\ row \in [Statements -> Results \cup {"absent", "open"}]
    /\ ledger \subseteq Statements
    /\ handler \in [Handlers -> {Idle} \cup
           [pc : {"record", "settle", "stamp"}, txn : Txns, said : GatewayStatuses, result : Results]]
    /\ ref \in [Orders -> Txns \cup {NoTxn}]
    /\ refSource \in [Orders -> {"none", "hint", "verified"}]
    /\ recon \in {Idle}
           \cup [pc : {"ask"}, order : Orders, ref : Txns \cup {NoTxn}, source : {"none", "hint", "verified"}]
           \cup [pc : {"record", "settle"}, order : Orders, txn : Txns, said : GatewayStatuses]
    /\ hint \in {Idle} \cup [pc : {"write"}, order : Orders, txn : Txns]
    /\ failures \in 0..MaxFailures
    /\ settledBy \in [Orders -> Txns \cup {NoTxn}]
    /\ \A h \in Handlers : handler[h] # Idle =>
           Exists(handler[h].txn) /\ handler[h].said \in txn[handler[h].txn].said

\* The charge leads to order o: this shop opened it for o, or it is a bare number,
\* which another tenant's session on a shared account may carry as well.
LeadsTo(c, o) == c.order = o /\ (c.shop = "here" \/ c.key = "number")

(****************************************************************************)
(* No order is PAID by another order's money, whichever of webhook, by-id   *)
(* lookup or search brought it and whatever a shopper's hint pointed at in  *)
(* between: what settled it is a charge the gateway approved, opened by this*)
(* shop for this very order, of an amount that was not seen to differ (the  *)
(* amount and currency checks of webhooks.controller.ts, checkOrderBinding).*)
(* The one exception is the code's own (:324-332, :471-477): a charge keyed *)
(* by a bare number carries "the OLD, weaker guarantee (the amount check    *)
(* alone)", and may be another tenant's of the same number and total.       *)
(****************************************************************************)
SettledByItsOwnCharge ==
    \A o \in Orders : payment[o] = "PAID" =>
        \E t \in Txns :
            LET c == txn[t].charge
            IN  /\ settledBy[o] = t
                /\ Exists(t) /\ "PAID" \in txn[t].said
                /\ LeadsTo(c, o)
                /\ c.amount = "exact" \/ (c.amount = "missing" /\ c.shop = "here")

(****************************************************************************)
(* The ledger is written before the settle: a PAID order's statement is in  *)
(* it, even when a request died right after settling, unless the lookup gave*)
(* no amount to record ("WHY BEFORE THE SETTLE", webhooks.controller.ts;    *)
(* reconciliation.worker.ts:662).                                           *)
(****************************************************************************)
LedgerPrecedesSettlement ==
    \A o \in Orders : payment[o] = "PAID" =>
        \/ <<settledBy[o], "PAID">> \in ledger
        \/ txn[settledBy[o]].charge.amount = "missing"

(****************************************************************************)
(* No charge is lost in silence: once an approved charge of this shop that  *)
(* is bound to an order has been answered for good, either that charge is   *)
(* what settled the order or the alarm is on record ("report what actually  *)
(* happened, not what was attempted").  Both handlers of a repeated delivery*)
(* stamp the row, in any order.  (A charge of another tenant that is refused*)
(* here is answered for there: the event's row is keyed by the tenant.)     *)
(****************************************************************************)
NoSilentCharge ==
    \A t \in Txns : (Exists(t) /\ Ours(t) /\ Bound(t) /\ row[<<t, "PAID">>] \notin {"absent", "open"}) =>
        \/ row[<<t, "PAID">>] = Alarm
        \/ row[<<t, "PAID">>] = "confirmed" /\ settledBy[ChargedOrder(t)] = t

(****************************************************************************)
(* A payment is refused only when the order was already over or taken: a    *)
(* declined attempt before it, in whatever order the two verdicts arrived,  *)
(* is no reason (the FAILED half of markPaid's precondition).  Only another *)
(* tenant's charge may name an open order and be refused: one that is to be *)
(* paid in cash.                                                            *)
(****************************************************************************)
AlarmMeansTooLate ==
    \A t \in Txns : row[<<t, "PAID">>] = Alarm =>
        LET o == ChargedOrder(t)
        IN  status[o] # "PENDING" \/ (~Ours(t) /\ payment[o] = "COD")

(****************************************************************************)
(* A ref marked verified, which no hint may replace and the sweep may look  *)
(* up at any gateway, names a charge this shop opened for this order, of an *)
(* amount that was not seen to differ; or, in the same exception, one that  *)
(* carries its bare number and exactly its total.                           *)
(****************************************************************************)
VerifiedRefIsOwn ==
    \A o \in Orders : refSource[o] = "verified" =>
        /\ ref[o] \in Txns /\ Exists(ref[o])
        /\ LeadsTo(txn[ref[o]].charge, o)
        /\ txn[ref[o]].charge.amount # "other"
        /\ ~Ours(ref[o]) => txn[ref[o]].charge.amount = "exact"

(****************************************************************************)
(* Seen from the order alone, webhooks, retries and the sweep do nothing    *)
(* that the lifecycle does not allow: a late FAILED never touches a settled *)
(* order, a repeated PAID never settles twice.                              *)
(****************************************************************************)
LifecycleHolds == Spec

(****************************************************************************)
(* Every approved charge bound to its order is answered for in the end,     *)
(* unless it is refunded, even if the first requests to handle it died      *)
(* between their steps: the row is written before the settle, so a retry    *)
(* must be let through until it is stamped (fix 5, webhooks.controller.ts). *)
(****************************************************************************)
ChargeIsAnswered ==
    \A t \in Txns :
        (Exists(t) /\ Ours(t) /\ Bound(t) /\ txn[t].status = "PAID")
            ~> (row[<<t, "PAID">>] \in {"confirmed", Alarm} \/ txn[t].status # "PAID")

-----------------------------------------------------------------------------
(* Claims of the code's comments that its runs refute.                      *)

(****************************************************************************)
(* "The result string tells the truth" (webhooks.controller.ts:69) and the  *)
(* alarm "is money taken from a shopper who has nothing to show for it"     *)
(* (:690): no alarm is recorded for the charge that paid for the order.     *)
(****************************************************************************)
AlarmIsGenuine ==
    \A t \in Txns : row[<<t, "PAID">>] = Alarm => settledBy[ChargedOrder(t)] # t

(****************************************************************************)
(* "An MP order with no ref self-heals to CONFIRMED/PAID off this very      *)
(* search" (reconciliation.worker.ts:569): a sweep that asks a searchable   *)
(* gateway about an order without a ref, whose session was opened under its *)
(* reference and paid in full, comes back with a charge.                    *)
(****************************************************************************)
SearchSelfHeals ==
    [][ReconAsk /\ Searchable /\ recon.ref = NoTxn /\
         (\E t \in Txns : /\ Exists(t) /\ txn[t].status = "PAID"
                          /\ txn[t].charge = [shop |-> "here", order |-> recon.order,
                                              key |-> "reference", amount |-> "exact"])
            => recon'.pc = "record"]_allVars
=============================================================================
