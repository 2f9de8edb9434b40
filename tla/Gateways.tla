------------------------------ MODULE Gateways ------------------------------
(****************************************************************************)
(* The three payment adapters (packages/payments): how Wompi, Mercado Pago  *)
(* and ePayco name a payment's state, its amount and its notifications, and *)
(* what the adapters make of that: one NormalizedPaymentEvent per           *)
(* notification, one answer per lookup, one payment per search.             *)
(*                                                                          *)
(* The gateways are external: they change a payment's status, notify each   *)
(* change until they are answered 200, in any order and sometimes twice.    *)
(* Signatures are genuine here.  Whether an event settles its order is      *)
(* PaymentSettlement; here it is kept, or dropped because its id is known.  *)
(****************************************************************************)
EXTENDS Integers, FiniteSets

CONSTANTS
    Orders,
    Payments,     \* attempts a shopper makes at a gateway, in their order
    TotalOf,      \* Order.totalCents
    MaxClock,     \* BOUND: status changes at the gateways
    MaxHandling,  \* BOUND: deliveries being handled at one time
    MaxFaults     \* BOUND: lookups that fail and answers that are lost

Providers == {"wompi", "mercadopago", "epayco"}
NoProvider == "none"

ASSUME GatewayAssumption ==
    /\ TotalOf \in [Orders -> Nat \ {0}]
    /\ Payments \subseteq Nat
    /\ NoProvider \notin Orders
    /\ MaxClock \in Nat /\ MaxHandling \in Nat /\ MaxFaults \in Nat

VARIABLES
    session,    \* the checkout session each order's shopper was sent to
    payment,    \* the gateways' own records
    past,       \* history: the statuses each payment has had
    owed,       \* notifications not answered 200 yet
    parsed,     \* deliveries verified and not recorded yet
    recorded,   \* WebhookEvent rows, one per event id
    dropped,    \* history: events answered as duplicates, with their originals
    clock, faults

vars == <<session, payment, past, owed, parsed, recorded, dropped, clock, faults>>

-----------------------------------------------------------------------------
(* The gateways' vocabularies, as their documentation lists them.           *)

Start == [wompi |-> "PENDING", mercadopago |-> "pending", epayco |-> "Pendiente"]
Approved == {"APPROVED", "approved", "Aceptada"}
Undecided == {"PENDING", "pending", "in_process", "authorized", "in_mediation", "Pendiente"}
Lost == {"DECLINED", "ERROR", "VOIDED", "rejected", "cancelled", "refunded", "charged_back",
         "Rechazada", "Fallida", "Reversada"}

NextStatuses(raw) ==
    CASE raw = "PENDING" -> {"APPROVED", "DECLINED", "ERROR"}
      [] raw = "APPROVED" -> {"VOIDED"}
      [] raw = "pending" -> {"in_process", "authorized", "approved", "rejected", "cancelled"}
      [] raw \in {"in_process", "authorized"} -> {"approved", "rejected", "cancelled"}
      [] raw = "approved" -> {"in_mediation", "refunded"}
      [] raw = "in_mediation" -> {"approved", "charged_back"}
      [] raw = "Pendiente" -> {"Aceptada", "Rechazada", "Fallida"}
      [] raw = "Aceptada" -> {"Reversada"}
      [] OTHER -> {}

\* A card may be approved before the gateway first tells of the payment.
FirstStatuses(provider) ==
    {Start[provider]} \cup (NextStatuses(Start[provider]) \cap Approved)

\* x_cod_respuesta; a reversal has a code the adapter does not know.
CodeOf(raw) ==
    CASE raw = "Aceptada" -> 1
      [] raw = "Rechazada" -> 2
      [] raw = "Pendiente" -> 3
      [] raw = "Fallida" -> 4
      [] OTHER -> 6

-----------------------------------------------------------------------------
(* mapStatus, once per adapter; what none of them knows is FAILED.          *)

WompiStatus(raw) ==
    CASE raw = "APPROVED" -> "PAID"
      [] raw = "PENDING" -> "PENDING"
      [] OTHER -> "FAILED"

\* MUTANT: a payment that is only authorized counts as paid.
AuthorizedIsPaid(raw) ==
    CASE raw \in {"approved", "authorized"} -> "PAID"
      [] raw \in {"pending", "in_process", "in_mediation"} -> "PENDING"
      [] raw \in {"refunded", "charged_back"} -> "EXPIRED"
      [] OTHER -> "FAILED"

MercadoPagoStatus(raw) ==
    CASE raw = "approved" -> "PAID"
      [] raw \in {"pending", "in_process", "authorized", "in_mediation"} -> "PENDING"
      [] raw \in {"refunded", "charged_back"} -> "EXPIRED"
      [] OTHER -> "FAILED"

EpaycoStatus(raw) ==
    CASE raw = "Aceptada" -> "PAID"
      [] raw = "Pendiente" -> "PENDING"
      [] OTHER -> "FAILED"

\* MUTANT: a code that is not in the table is passed on as it is.
UnknownCodePasses(code) ==
    CASE code = 1 -> "PAID"
      [] code = 3 -> "PENDING"
      [] code \in {2, 4} -> "FAILED"
      [] OTHER -> "undefined"

\* NUMERIC_RESPONSE_CODE_MAP.
EpaycoNumeric(code) ==
    CASE code = 1 -> "PAID"
      [] code = 3 -> "PENDING"
      [] code \in {2, 4} -> "FAILED"
      [] OTHER -> "unknown"

NormalStatuses == {"PENDING", "PAID", "FAILED", "EXPIRED"}

-----------------------------------------------------------------------------
(* Money: Wompi is told cents; the other two pesos, a fraction of cents.    *)

Pesos(cents) == <<cents, 100>>

\* MUTANT: the fraction of a peso is cut off.
WholePesos(pesos) == 100 * (pesos[1] \div pesos[2])

\* Math.round(amount * 100)
CentsOf(pesos) == (200 * pesos[1] + pesos[2]) \div (2 * pesos[2])

\* createCheckoutSession: the reference and the amount each gateway is given.
Session(o, provider) ==
    [provider |-> provider, order |-> o,
     amount |-> IF provider = "wompi" THEN <<TotalOf[o], 1>> ELSE Pesos(TotalOf[o])]

NoPayment == [provider |-> NoProvider, raw |-> "none", order |-> NoProvider, stamp |-> 0]

\* What an adapter reads back as amountCents.
AmountCents(p) == IF payment[p].provider = "wompi" THEN payment[p].amount[1]
                                                   ELSE CentsOf(payment[p].amount)

-----------------------------------------------------------------------------
(* getTransactionStatus: the gateway's record, now.  ePayco's may give the  *)
(* status as a code, and may leave the amount out.                          *)

NoAmount == 0

LookedUp(p, numeric, bare) ==
    LET q == payment[p]
    IN  [reference |-> q.order,
         cents |-> IF bare THEN NoAmount ELSE AmountCents(p),
         status |-> CASE q.provider = "wompi" -> WompiStatus(q.raw)
                      [] q.provider = "mercadopago" -> MercadoPagoStatus(q.raw)
                      [] q.provider = "epayco" -> IF numeric THEN EpaycoNumeric(CodeOf(q.raw))
                                                            ELSE EpaycoStatus(q.raw)]

Lookups(p) ==
    IF payment[p].provider = "epayco"
    THEN {r \in {LookedUp(p, n, b) : n \in BOOLEAN, b \in BOOLEAN} : r.status # "unknown"}
    ELSE {LookedUp(p, FALSE, FALSE)}

-----------------------------------------------------------------------------
(* searchByReference, on whatever payments the gateway returned.            *)

\* date_approved ?? date_created
Dated(p) == IF payment[p].approved # 0 THEN payment[p].approved ELSE payment[p].created

NewestOf(found) == {p \in found : \A q \in found : Dated(q) <= Dated(p)}

\* MUTANT: the newest attempt, whatever became of it.
JustTheNewest(o, results) == NewestOf({p \in results : payment[p].order = o})

\* The newest approved one of this very reference, or else the newest one.
Chosen(o, results) ==
    LET own == {p \in results : payment[p].order = o}
        approved == {p \in own : payment[p].raw = "approved"}
    IN  IF approved # {} THEN NewestOf(approved) ELSE NewestOf(own)

-----------------------------------------------------------------------------
Init ==
    /\ \E via \in [Orders -> Providers] : session = [o \in Orders |-> Session(o, via[o])]
    /\ payment = [p \in Payments |-> NoPayment]
    /\ past = [p \in Payments |-> {}]
    /\ owed = {}
    /\ parsed = {}
    /\ recorded = {}
    /\ dropped = {}
    /\ clock = 0
    /\ faults = 0

Notice(p, raw, stamp) == [payment |-> p, raw |-> raw, stamp |-> stamp]

Change(p, record) ==
    /\ clock < MaxClock
    /\ clock' = clock + 1
    /\ payment' = [payment EXCEPT ![p] = record]
    /\ past' = [past EXCEPT ![p] = @ \cup {record.raw}]
    /\ owed' = owed \cup {Notice(p, record.raw, clock + 1)}
    /\ UNCHANGED <<session, parsed, recorded, dropped, faults>>

\* A shopper pays, or tries again, with the session of an order.
Attempt(p, o) ==
    /\ payment[p] = NoPayment
    /\ \A q \in Payments : q < p => payment[q] # NoPayment
    /\ LET s == session[o]
       IN  \E raw \in FirstStatuses(s.provider) :
              Change(p, [provider |-> s.provider, order |-> o, amount |-> s.amount,
                         raw |-> raw, stamp |-> clock + 1, created |-> clock + 1,
                         approved |-> IF raw = "approved" THEN clock + 1 ELSE 0])

Evolve(p, raw) ==
    /\ payment[p] # NoPayment
    /\ raw \in NextStatuses(payment[p].raw)
    /\ Change(p, [payment[p] EXCEPT !.raw = raw, !.stamp = clock + 1,
                     !.approved = IF raw = "approved" THEN clock + 1 ELSE @])

-----------------------------------------------------------------------------
(* verifyAndParseWebhook, and the WebhookEvent row of the controller.       *)

\* MUTANT: the payment's id alone, as it once was.
IdOnly(p, raw) == <<"mercadopago", p>>

MercadoPagoEventId(p, raw) == <<"mercadopago", p, raw>>

Event(id, p, status, cents) ==
    [id |-> id, payment |-> p, reference |-> payment[p].order, status |-> status,
     cents |-> cents, asOf |-> payment[p].stamp]

\* Wompi: the signed body is the event, however old it is.
WompiEvents(n) ==
    {[Event(<<"wompi", n.payment, n.stamp>>, n.payment, WompiStatus(n.raw),
            AmountCents(n.payment)) EXCEPT !.asOf = n.stamp]}

\* Mercado Pago: only the payment's id is taken from the body.
MercadoPagoEvents(n) ==
    {Event(MercadoPagoEventId(n.payment, payment[n.payment].raw), n.payment, r.status, r.cents) :
        r \in Lookups(n.payment)}

\* MUTANT: the body's status, unsigned and possibly old.
EpaycoBodyEvents(n) ==
    {Event(<<"epayco", n.payment>>, n.payment, EpaycoStatus(n.raw), AmountCents(n.payment))}

\* ePayco: the lookup decides, the signed amount stands where it has none.
EpaycoEvents(n) ==
    {Event(<<"epayco", n.payment, r.status>>, n.payment, r.status, AmountCents(n.payment)) :
        r \in {q \in Lookups(n.payment) : q.cents \in {NoAmount, AmountCents(n.payment)}}}

Events(n) ==
    CASE payment[n.payment].provider = "wompi" -> WompiEvents(n)
      [] payment[n.payment].provider = "mercadopago" -> MercadoPagoEvents(n)
      [] payment[n.payment].provider = "epayco" -> EpaycoEvents(n)

Deliver(n) ==
    /\ n \in owed
    /\ \A h \in parsed : h.notice # n
    /\ Cardinality(parsed) < MaxHandling
    /\ \E e \in Events(n) : parsed' = parsed \cup {[notice |-> n, event |-> e]}
    /\ UNCHANGED <<session, payment, past, owed, recorded, dropped, clock, faults>>

Keep(h) ==
    LET same == {e \in recorded : e.id = h.event.id}
    IN  /\ parsed' = parsed \ {h}
        /\ IF same = {}
             THEN recorded' = recorded \cup {h.event} /\ UNCHANGED dropped
             ELSE dropped' = dropped \cup {<<h.event, e>> : e \in same} /\ UNCHANGED recorded
        /\ UNCHANGED <<session, payment, past, clock>>

Record(h) ==
    /\ h \in parsed
    /\ Keep(h)
    /\ owed' = owed \ {h.notice}
    /\ UNCHANGED faults

Fault == faults < MaxFaults /\ faults' = faults + 1

\* The answer is lost: the gateway sends the same notification again.
AnswerLost(h) ==
    /\ h \in parsed
    /\ Fault
    /\ Keep(h)
    /\ UNCHANGED owed

\* fetchGateway times out or the process dies: nothing is kept, it is resent.
DeliveryFails(h) ==
    /\ h \in parsed
    /\ Fault
    /\ parsed' = parsed \ {h}
    /\ UNCHANGED <<session, payment, past, owed, recorded, dropped, clock>>

Next ==
    \/ \E p \in Payments, o \in Orders : Attempt(p, o)
    \/ \E p \in Payments, raw \in Approved \cup Undecided \cup Lost : Evolve(p, raw)
    \/ \E n \in owed : Deliver(n)
    \/ \E h \in parsed : Record(h) \/ AnswerLost(h) \/ DeliveryFails(h)

(****************************************************************************)
(* A gateway resends what was not answered 200, and a request that is being *)
(* handled is finished.  Shoppers and gateways owe no change of status.     *)
(****************************************************************************)

Fairness ==
    \A p \in Payments :
        /\ WF_vars(\E n \in owed : n.payment = p /\ Deliver(n))
        /\ WF_vars(\E h \in parsed : h.notice.payment = p /\ Record(h))

Spec == Init /\ [][Next]_vars
FairSpec == Spec /\ Fairness

-----------------------------------------------------------------------------
PaymentRow == [provider : Providers, order : Orders, amount : Nat \X {1, 100},
               raw : Approved \cup Undecided \cup Lost, stamp : Nat,
               created : Nat, approved : Nat]
NoticeRow == [payment : Payments, raw : Approved \cup Undecided \cup Lost, stamp : Nat]

(* The records, notifications and events are of their types, an event's     *)
(* status is one of the four, and no two rows have the same id.             *)
TypeOK ==
    /\ \A o \in Orders : session[o] \in [provider : Providers, order : {o}, amount : Nat \X {1, 100}]
    /\ \A p \in Payments : payment[p] = NoPayment \/ payment[p] \in PaymentRow
    /\ owed \subseteq NoticeRow
    /\ \A e \in recorded \cup {h.event : h \in parsed} :
          /\ e.payment \in Payments /\ e.reference \in Orders
          /\ e.status \in NormalStatuses
          /\ e.cents \in Nat /\ e.asOf \in Nat
    /\ \A d, e \in recorded : d.id = e.id => d = e \/ d.payment = e.payment
    /\ clock \in Nat /\ faults \in Nat

(****************************************************************************)
(* Dropping a duplicate loses nothing: the event that was kept under the    *)
(* same id says the same of the same payment.  An id without the status     *)
(* made the first, pending notification swallow the one that settles the    *)
(* order (mercadopago.ts, epayco.ts: eventId).                              *)
(****************************************************************************)
SameVerdict(d, e) ==
    /\ d.payment = e.payment /\ d.reference = e.reference
    /\ d.status = e.status /\ d.cents = e.cents

DuplicateLosesNothing == \A d \in dropped : SameVerdict(d[1], d[2])

(****************************************************************************)
(* An event says PAID only of a payment the gateway has approved, FAILED or *)
(* EXPIRED only of one it has refused, voided or given back, and PENDING of *)
(* one it was still deciding, whatever the order of the deliveries and      *)
(* whatever happened between the lookup and the row (the mapStatus tables). *)
(****************************************************************************)
EventsTellTheTruth ==
    \A e \in recorded :
        past[e.payment] \cap (CASE e.status = "PAID" -> Approved
                                [] e.status = "PENDING" -> Undecided
                                [] OTHER -> Lost) # {}

(****************************************************************************)
(* A webhook and a lookup of the same record agree, in the order they name, *)
(* the amount, where both have one, and the verdict, as text and as a code; *)
(* and the amount is the one the order was billed, through pesos and back.  *)
(****************************************************************************)
LookupAgreesWithEvent ==
    \A e \in recorded :
        /\ e.cents = TotalOf[e.reference]
        /\ e.asOf = payment[e.payment].stamp =>
              \A r \in Lookups(e.payment) :
                 /\ r.status = e.status
                 /\ r.reference = e.reference
                 /\ r.cents \in {NoAmount, e.cents}

(****************************************************************************)
(* Searching an order at Mercado Pago finds its paid attempt if it has one, *)
(* never another order's, and nothing only if the order has no attempt, in  *)
(* whatever order, and with whatever else, the gateway lists its results.   *)
(****************************************************************************)
SearchFindsThePaid ==
    LET there == {p \in Payments : payment[p].provider = "mercadopago"}
    IN  \A o \in Orders :
            LET own == {p \in there : payment[p].order = o}
            IN  \A others \in SUBSET (there \ own) :
                    LET found == Chosen(o, own \cup others)
                    IN  /\ found \subseteq own
                        /\ own # {} => found # {}
                        /\ (\E p \in own : payment[p].raw = "approved")
                              => \A p \in found : MercadoPagoStatus(payment[p].raw) = "PAID"

(****************************************************************************)
(* A payment that stays approved is heard of as PAID in the end, through    *)
(* outages, lost answers, repeats and reordering.                           *)
(****************************************************************************)
ApprovedIsHeard ==
    \A p \in Payments :
        (payment[p] # NoPayment /\ payment[p].raw \in Approved)
            ~> \/ payment[p].raw \notin Approved
               \/ \E e \in recorded : e.payment = p /\ e.status = "PAID"
=============================================================================
