--------------------------- MODULE GatewaysProofs ---------------------------
(****************************************************************************)
(* Proofs about Gateways for every set of orders and payments, and every    *)
(* total: what the adapters say of a payment is true, consistent and lost   *)
(* in no duplicate.                                                         *)
(****************************************************************************)
EXTENDS Gateways, FiniteLemmas

-----------------------------------------------------------------------------
(* The words each gateway uses, and what its adapter makes of one of them.  *)

WompiWords == {"PENDING", "APPROVED", "DECLINED", "ERROR", "VOIDED"}
MercadoPagoWords ==
    {"pending", "in_process", "authorized", "approved", "in_mediation", "rejected",
     "cancelled", "refunded", "charged_back"}
EpaycoWords == {"Pendiente", "Aceptada", "Rechazada", "Fallida", "Reversada"}

\* What provider may say of a payment.
Says(provider, raw) ==
    \/ provider = "wompi" /\ raw \in WompiWords
    \/ provider = "mercadopago" /\ raw \in MercadoPagoWords
    \/ provider = "epayco" /\ raw \in EpaycoWords

\* status is the verdict on a payment of this provider with this raw status.
IsVerdict(provider, raw, status) ==
    /\ provider = "wompi" => status = WompiStatus(raw)
    /\ provider = "mercadopago" => status = MercadoPagoStatus(raw)
    /\ provider = "epayco" => status = EpaycoStatus(raw)

\* seen is a set of raw statuses that bears status out.
BornOut(seen, status) ==
    seen \cap (CASE status = "PAID" -> Approved
                 [] status = "PENDING" -> Undecided
                 [] OTHER -> Lost) # {}

-----------------------------------------------------------------------------
(* The inductive invariant.                                                 *)

SessionsAreBilled ==
    \A o \in Orders : \E provider \in Providers : session[o] = Session(o, provider)

PaymentsAreSound ==
    \A p \in Payments : payment[p] # NoPayment =>
        /\ payment[p] \in PaymentRow
        /\ payment[p].stamp <= clock
        /\ Says(payment[p].provider, payment[p].raw)
        /\ payment[p].raw \in past[p]
        /\ payment[p].amount = Session(payment[p].order, payment[p].provider).amount

NoticesAreSound ==
    \A n \in owed :
        LET p == payment[n.payment]
        IN  /\ n \in NoticeRow
            /\ p # NoPayment
            /\ Says(p.provider, n.raw)
            /\ n.raw \in past[n.payment]
            /\ n.stamp <= p.stamp
            /\ n.stamp = p.stamp => n.raw = p.raw

\* A payment changes once at a time.
NoticesDiffer ==
    \A n, k \in owed : n.payment = k.payment /\ n.stamp = k.stamp => n.raw = k.raw

Heard == recorded \cup {h.event : h \in parsed}

\* What an event's id says of it.
IdFits(e) ==
    LET provider == payment[e.payment].provider
    IN  \/ provider = "wompi" /\ e.id = <<"wompi", e.payment, e.asOf>>
        \/ /\ provider = "mercadopago"
           /\ \E raw \in MercadoPagoWords : /\ e.id = MercadoPagoEventId(e.payment, raw)
                                            /\ e.status = MercadoPagoStatus(raw)
        \/ provider = "epayco" /\ e.id = <<"epayco", e.payment, e.status>>

EventIsSound(e) ==
    LET p == payment[e.payment]
    IN  /\ e.payment \in Payments
        /\ p # NoPayment
        /\ e.reference = p.order
        /\ e.cents = TotalOf[p.order]
        /\ e.asOf \in Nat /\ e.asOf <= p.stamp
        /\ e.asOf = p.stamp => IsVerdict(p.provider, p.raw, e.status)
        /\ e.status \in NormalStatuses
        /\ BornOut(past[e.payment], e.status)
        /\ IdFits(e)

EventsAreSound == \A e \in Heard : EventIsSound(e)

\* Wompi's events repeat what was signed: one status per time stamp.
OfWompi(e) == payment[e.payment].provider = "wompi"

SignedOnce ==
    /\ \A e \in Heard, n \in owed :
          OfWompi(e) /\ e.payment = n.payment /\ e.asOf = n.stamp => e.status = WompiStatus(n.raw)
    /\ \A d, e \in Heard :
          OfWompi(e) /\ d.payment = e.payment /\ d.asOf = e.asOf => d.status = e.status

Shapes ==
    /\ clock \in Nat /\ faults \in Nat
    /\ payment \in [Payments -> PaymentRow \cup {NoPayment}]
    /\ DOMAIN past = Payments

IInv ==
    /\ Shapes
    /\ SessionsAreBilled /\ PaymentsAreSound
    /\ NoticesAreSound /\ NoticesDiffer
    /\ EventsAreSound /\ SignedOnce
    /\ DuplicateLosesNothing

-----------------------------------------------------------------------------
(* The tables and the money.                                                *)

LEMMA WordsAreStatuses ==
    ASSUME NEW provider, NEW raw, Says(provider, raw)
    PROVE  raw \in Approved \cup Undecided \cup Lost
  BY DEF Says, WompiWords, MercadoPagoWords, EpaycoWords, Approved, Undecided, Lost

\* A gateway goes on in its own words.
LEMMA NextIsSaid ==
    ASSUME NEW provider, NEW raw, Says(provider, raw), NEW next \in NextStatuses(raw)
    PROVE  Says(provider, next)
  <1>1. CASE provider = "wompi"
    BY <1>1 DEF Says, NextStatuses, WompiWords
  <1>2. CASE provider = "mercadopago"
    BY <1>2 DEF Says, NextStatuses, MercadoPagoWords
  <1>3. CASE provider = "epayco"
    BY <1>3 DEF Says, NextStatuses, EpaycoWords
  <1> QED
    BY <1>1, <1>2, <1>3 DEF Says

LEMMA FirstIsSaid ==
    ASSUME NEW provider \in Providers, NEW raw \in FirstStatuses(provider)
    PROVE  Says(provider, raw)
  <1>1. Says(provider, Start[provider])
    BY DEF Providers, Start, Says, WompiWords, MercadoPagoWords, EpaycoWords
  <1> QED
    BY <1>1, NextIsSaid DEF FirstStatuses

\* Every mapStatus table tells the truth about the words of its gateway.
LEMMA VerdictIsTrue ==
    ASSUME NEW provider, NEW raw, Says(provider, raw),
           NEW status, IsVerdict(provider, raw, status),
           NEW seen, raw \in seen
    PROVE  status \in NormalStatuses /\ BornOut(seen, status)
  <1>1. CASE provider = "wompi"
    BY <1>1 DEF Says, IsVerdict, WompiWords, WompiStatus, NormalStatuses, BornOut,
                Approved, Undecided, Lost
  <1>2. CASE provider = "mercadopago"
    BY <1>2 DEF Says, IsVerdict, MercadoPagoWords, MercadoPagoStatus, NormalStatuses, BornOut,
                Approved, Undecided, Lost
  <1>3. CASE provider = "epayco"
    BY <1>3 DEF Says, IsVerdict, EpaycoWords, EpaycoStatus, NormalStatuses, BornOut,
                Approved, Undecided, Lost
  <1> QED
    BY <1>1, <1>2, <1>3 DEF Says

\* The numeric table agrees with the words, where it knows the code.
LEMMA CodesAgree ==
    ASSUME NEW raw \in EpaycoWords, EpaycoNumeric(CodeOf(raw)) # "unknown"
    PROVE  EpaycoNumeric(CodeOf(raw)) = EpaycoStatus(raw)
  BY DEF EpaycoWords, EpaycoNumeric, CodeOf, EpaycoStatus

\* A total comes back from pesos to the cent.
LEMMA PesosAndBack == \A cents \in Nat : CentsOf(Pesos(cents)) = cents
  BY DEF CentsOf, Pesos

LEMMA SessionTypes ==
    ASSUME NEW o \in Orders, NEW provider \in Providers
    PROVE  Session(o, provider) \in [provider : Providers, order : {o}, amount : Nat \X {1, 100}]
  <1>1. TotalOf[o] \in Nat
    BY GatewayAssumption
  <1>2. <<TotalOf[o], 1>> \in Nat \X {1, 100} /\ Pesos(TotalOf[o]) \in Nat \X {1, 100}
    BY <1>1 DEF Pesos
  <1>3. Session(o, provider).amount \in Nat \X {1, 100}
    BY <1>2 DEF Session
  <1> QED
    BY <1>3 DEF Session

LEMMA AmountIsTheTotal ==
    ASSUME NEW p \in Payments, payment[p] # NoPayment, PaymentsAreSound
    PROVE  AmountCents(p) = TotalOf[payment[p].order] /\ TotalOf[payment[p].order] \in Nat \ {0}
  <1>1. payment[p] \in PaymentRow
    BY DEF PaymentsAreSound
  <1>2. payment[p].order \in Orders
    BY <1>1 DEF PaymentRow
  <1>3. TotalOf[payment[p].order] \in Nat \ {0}
    BY <1>2, GatewayAssumption
  <1>4. CASE payment[p].provider = "wompi"
    <2>1. payment[p].amount = <<TotalOf[payment[p].order], 1>>
      BY <1>4 DEF PaymentsAreSound, Session
    <2> QED
      BY <1>3, <1>4, <2>1 DEF AmountCents
  <1>5. CASE payment[p].provider # "wompi"
    <2>1. payment[p].amount = Pesos(TotalOf[payment[p].order])
      BY <1>5 DEF PaymentsAreSound, Session
    <2> QED
      BY <1>3, <1>5, <2>1, PesosAndBack DEF AmountCents
  <1> QED
    BY <1>3, <1>4, <1>5

\* What a lookup answers, whichever gateway is asked and however it answers.
LEMMA LookupAnswers ==
    ASSUME NEW p \in Payments, payment[p] # NoPayment, PaymentsAreSound,
           NEW r \in Lookups(p)
    PROVE  /\ r.reference = payment[p].order
           /\ IsVerdict(payment[p].provider, payment[p].raw, r.status)
           /\ r.cents \in {NoAmount, AmountCents(p)}
           /\ payment[p].provider # "epayco" => r.cents = AmountCents(p)
  <1>1. payment[p] \in PaymentRow /\ Says(payment[p].provider, payment[p].raw)
    BY DEF PaymentsAreSound
  <1>2. payment[p].provider \in Providers
    BY <1>1 DEF PaymentRow
  <1>3. CASE payment[p].provider = "wompi"
    <2>1. r = LookedUp(p, FALSE, FALSE)
      BY <1>3 DEF Lookups
    <2> QED
      BY <1>3, <2>1 DEF LookedUp, IsVerdict
  <1>4. CASE payment[p].provider = "mercadopago"
    <2>1. r = LookedUp(p, FALSE, FALSE)
      BY <1>4 DEF Lookups
    <2> QED
      BY <1>4, <2>1 DEF LookedUp, IsVerdict
  <1>5. CASE payment[p].provider = "epayco"
    <2>1. PICK numeric \in BOOLEAN, bare \in BOOLEAN : r = LookedUp(p, numeric, bare)
      BY <1>5 DEF Lookups
    <2>2. r.status # "unknown"
      BY <1>5 DEF Lookups
    <2>3. r.reference = payment[p].order /\ r.cents \in {NoAmount, AmountCents(p)}
      BY <2>1 DEF LookedUp
    <2>4. r.status = IF numeric THEN EpaycoNumeric(CodeOf(payment[p].raw))
                                ELSE EpaycoStatus(payment[p].raw)
      BY <1>5, <2>1 DEF LookedUp
    <2>5. payment[p].raw \in EpaycoWords
      BY <1>1, <1>5 DEF Says
    <2>6. r.status = EpaycoStatus(payment[p].raw)
      BY <2>2, <2>4, <2>5, CodesAgree
    <2> QED
      BY <1>5, <2>3, <2>6 DEF IsVerdict
  <1> QED
    BY <1>2, <1>3, <1>4, <1>5 DEF Providers

-----------------------------------------------------------------------------
(* Every event a delivery makes is sound when it is made.                   *)

LEMMA EventsMade ==
    ASSUME IInv, NEW n \in owed, NEW e \in Events(n)
    PROVE  /\ EventIsSound(e)
           /\ e.payment = n.payment
           /\ OfWompi(e) => e.asOf = n.stamp /\ e.status = WompiStatus(n.raw)
  <1> DEFINE p == n.payment
  <1>1. /\ n \in NoticeRow /\ payment[p] # NoPayment
        /\ Says(payment[p].provider, n.raw) /\ n.raw \in past[p]
        /\ n.stamp <= payment[p].stamp
        /\ n.stamp = payment[p].stamp => n.raw = payment[p].raw
    BY DEF IInv, NoticesAreSound
  <1>2. p \in Payments /\ n.stamp \in Nat
    BY <1>1 DEF NoticeRow
  <1>3. /\ payment[p] \in PaymentRow
        /\ Says(payment[p].provider, payment[p].raw)
        /\ payment[p].raw \in past[p]
    BY <1>1, <1>2 DEF IInv, PaymentsAreSound
  <1>4. payment[p].provider \in Providers /\ payment[p].stamp \in Nat
    BY <1>3 DEF PaymentRow
  <1>5. AmountCents(p) = TotalOf[payment[p].order]
    BY <1>1, <1>2, AmountIsTheTotal DEF IInv
  <1>6. CASE payment[p].provider = "wompi"
    <2>1. e = [Event(<<"wompi", p, n.stamp>>, p, WompiStatus(n.raw), AmountCents(p))
                  EXCEPT !.asOf = n.stamp]
      BY <1>6 DEF Events, WompiEvents
    <2>2. /\ e.payment = p /\ e.reference = payment[p].order
          /\ e.cents = AmountCents(p) /\ e.asOf = n.stamp
          /\ e.status = WompiStatus(n.raw) /\ e.id = <<"wompi", p, n.stamp>>
      BY <2>1 DEF Event
    <2>3. IsVerdict(payment[p].provider, n.raw, e.status)
      BY <1>6, <2>2 DEF IsVerdict
    <2>4. e.status \in NormalStatuses /\ BornOut(past[p], e.status)
      BY <1>1, <2>3, VerdictIsTrue
    <2>5. IdFits(e)
      BY <1>6, <2>2 DEF IdFits
    <2> QED
      BY <1>1, <1>2, <1>5, <2>2, <2>3, <2>4, <2>5 DEF EventIsSound
  <1>7. CASE payment[p].provider = "mercadopago"
    <2>1. PICK r \in Lookups(p) :
             e = Event(MercadoPagoEventId(p, payment[p].raw), p, r.status, r.cents)
      BY <1>7 DEF Events, MercadoPagoEvents
    <2>2. /\ e.payment = p /\ e.reference = payment[p].order
          /\ e.cents = r.cents /\ e.asOf = payment[p].stamp
          /\ e.status = r.status /\ e.id = MercadoPagoEventId(p, payment[p].raw)
      BY <2>1 DEF Event
    <2>3. /\ IsVerdict(payment[p].provider, payment[p].raw, e.status)
          /\ e.cents = AmountCents(p)
      BY <1>1, <1>2, <1>7, <2>2, LookupAnswers DEF IInv
    <2>4. e.status \in NormalStatuses /\ BornOut(past[p], e.status)
      BY <1>3, <2>3, VerdictIsTrue
    <2>5. IdFits(e)
      BY <1>3, <1>7, <2>2, <2>3 DEF IdFits, IsVerdict, Says
    <2> QED
      BY <1>1, <1>2, <1>4, <1>5, <1>7, <2>2, <2>3, <2>4, <2>5 DEF EventIsSound, OfWompi
  <1>8. CASE payment[p].provider = "epayco"
    <2>1. PICK r \in Lookups(p) :
             e = Event(<<"epayco", p, r.status>>, p, r.status, AmountCents(p))
      BY <1>8 DEF Events, EpaycoEvents
    <2>2. /\ e.payment = p /\ e.reference = payment[p].order
          /\ e.cents = AmountCents(p) /\ e.asOf = payment[p].stamp
          /\ e.status = r.status /\ e.id = <<"epayco", p, r.status>>
      BY <2>1 DEF Event
    <2>3. IsVerdict(payment[p].provider, payment[p].raw, e.status)
      BY <1>1, <1>2, <2>2, LookupAnswers DEF IInv
    <2>4. e.status \in NormalStatuses /\ BornOut(past[p], e.status)
      BY <1>3, <2>3, VerdictIsTrue
    <2>5. IdFits(e)
      BY <1>8, <2>2 DEF IdFits
    <2> QED
      BY <1>1, <1>2, <1>4, <1>5, <1>8, <2>2, <2>3, <2>4, <2>5 DEF EventIsSound, OfWompi
  <1> QED
    BY <1>4, <1>6, <1>7, <1>8 DEF Providers

\* Two sound events with one id say the same.
LEMMA SameIdSameVerdict ==
    ASSUME SignedOnce, NEW d \in Heard, NEW e \in Heard,
           EventIsSound(d), EventIsSound(e), d.id = e.id
    PROVE  SameVerdict(d, e)
  <1>1. IdFits(d) /\ IdFits(e)
    BY DEF EventIsSound
  <1>2. /\ d.id[1] = payment[d.payment].provider /\ d.id[2] = d.payment
        /\ e.id[1] = payment[e.payment].provider /\ e.id[2] = e.payment
    BY <1>1 DEF IdFits, MercadoPagoEventId
  <1>3. d.payment = e.payment
    BY <1>2
  <1>4. d.reference = e.reference /\ d.cents = e.cents
    BY <1>3 DEF EventIsSound
  <1>5. d.status = e.status
    <2>1. CASE payment[e.payment].provider = "wompi"
      <3>1. d.id[3] = d.asOf /\ e.id[3] = e.asOf
        BY <1>1, <1>3, <2>1 DEF IdFits
      <3> QED
        BY <1>3, <2>1, <3>1 DEF SignedOnce, OfWompi
    <2>2. CASE payment[e.payment].provider = "mercadopago"
      <3>1. d.status = MercadoPagoStatus(d.id[3]) /\ e.status = MercadoPagoStatus(e.id[3])
        BY <1>1, <1>3, <2>2 DEF IdFits, MercadoPagoEventId
      <3> QED
        BY <3>1
    <2>3. CASE payment[e.payment].provider = "epayco"
      <3>1. d.id[3] = d.status /\ e.id[3] = e.status
        BY <1>1, <1>3, <2>3 DEF IdFits
      <3> QED
        BY <3>1
    <2> QED
      BY <1>1, <2>1, <2>2, <2>3 DEF IdFits
  <1> QED
    BY <1>3, <1>4, <1>5 DEF SameVerdict

-----------------------------------------------------------------------------
(* The steps.                                                               *)

LEMMA InitIInv == Init => IInv
  <1> SUFFICES ASSUME Init PROVE IInv
    OBVIOUS
  <1>1. Heard = {} /\ owed = {} /\ dropped = {}
    BY DEF Init, Heard
  <1>2. \A p \in Payments : payment[p] = NoPayment
    BY DEF Init
  <1>3. Shapes
    BY DEF Init, Shapes
  <1>4. SessionsAreBilled
    BY DEF Init, SessionsAreBilled
  <1> QED
    BY <1>1, <1>2, <1>3, <1>4
    DEF IInv, PaymentsAreSound, NoticesAreSound, NoticesDiffer, EventsAreSound, SignedOnce,
        DuplicateLosesNothing

\* A gateway changes one payment's record, and says so in its own words.
LEMMA ChangeStep ==
    ASSUME IInv, NEW p \in Payments, NEW record \in PaymentRow, Change(p, record),
           record.stamp = clock + 1, Says(record.provider, record.raw),
           record.amount = Session(record.order, record.provider).amount,
           \/ payment[p] = NoPayment
           \/ record.provider = payment[p].provider /\ record.order = payment[p].order
    PROVE  IInv'
  <1> DEFINE notice == Notice(p, record.raw, clock + 1)
  <1>1. /\ clock \in Nat /\ clock' = clock + 1
        /\ payment' = [payment EXCEPT ![p] = record]
        /\ past' = [past EXCEPT ![p] = @ \cup {record.raw}]
        /\ owed' = owed \cup {notice}
        /\ Heard' = Heard
        /\ UNCHANGED <<session, recorded, parsed, dropped, faults>>
    BY DEF Change, IInv, Shapes, Heard
  <1>2. /\ payment'[p] = record
        /\ \A q \in Payments : q # p => payment'[q] = payment[q]
        /\ past'[p] = past[p] \cup {record.raw}
        /\ \A q \in Payments : past[q] \subseteq past'[q]
    BY <1>1 DEF IInv, Shapes
  <1>3. record # NoPayment
    BY DEF PaymentRow, NoPayment, Providers, NoProvider
  <1>4. \A q \in Payments : payment[q] # NoPayment =>
            /\ payment'[q] # NoPayment
            /\ payment'[q].provider = payment[q].provider
            /\ payment'[q].order = payment[q].order
    BY <1>2, <1>3
  <1>5. \A q \in Payments : payment[q] # NoPayment =>
            payment[q].stamp \in Nat /\ payment[q].stamp <= clock
    BY DEF IInv, PaymentsAreSound, PaymentRow
  <1>6. \A q \in Payments : payment[q] # NoPayment =>
            IF q = p THEN payment'[q].stamp = clock + 1 ELSE payment'[q] = payment[q]
    BY <1>2
  <1>7. Shapes'
    BY <1>1 DEF IInv, Shapes
  <1>8. SessionsAreBilled'
    BY <1>1 DEF IInv, SessionsAreBilled, Session
  <1>9. PaymentsAreSound'
    <2> SUFFICES ASSUME NEW q \in Payments, payment'[q] # NoPayment
                 PROVE  /\ payment'[q] \in PaymentRow
                        /\ payment'[q].stamp <= clock'
                        /\ Says(payment'[q].provider, payment'[q].raw)
                        /\ payment'[q].raw \in past'[q]
                        /\ payment'[q].amount
                              = Session(payment'[q].order, payment'[q].provider).amount
      BY DEF PaymentsAreSound, Session
    <2>1. CASE q = p
      BY <1>1, <1>2, <2>1
    <2>2. CASE q # p
      BY <1>1, <1>2, <1>5, <2>2 DEF IInv, PaymentsAreSound
    <2> QED
      BY <2>1, <2>2
  <1>10. /\ notice.payment = p /\ notice.raw = record.raw /\ notice.stamp = clock + 1
         /\ notice \in NoticeRow
    BY <1>1 DEF Notice, NoticeRow, PaymentRow
  <1>11. \A n \in owed : n.payment \in Payments /\ payment[n.payment] # NoPayment
                            /\ n.stamp \in Nat /\ n.stamp <= clock
    <2> SUFFICES ASSUME NEW n \in owed
                 PROVE  n.payment \in Payments /\ payment[n.payment] # NoPayment
                          /\ n.stamp \in Nat /\ n.stamp <= clock
      OBVIOUS
    <2>1. n \in NoticeRow /\ payment[n.payment] # NoPayment
            /\ n.stamp <= payment[n.payment].stamp
      BY DEF IInv, NoticesAreSound
    <2>2. n.payment \in Payments /\ n.stamp \in Nat
      BY <2>1 DEF NoticeRow
    <2> QED
      BY <1>1, <1>5, <2>1, <2>2
  <1>12. NoticesAreSound'
    <2> SUFFICES ASSUME NEW n \in owed'
                 PROVE  /\ n \in NoticeRow
                        /\ payment'[n.payment] # NoPayment
                        /\ Says(payment'[n.payment].provider, n.raw)
                        /\ n.raw \in past'[n.payment]
                        /\ n.stamp <= payment'[n.payment].stamp
                        /\ n.stamp = payment'[n.payment].stamp => n.raw = payment'[n.payment].raw
      BY DEF NoticesAreSound
    <2>1. CASE n = notice
      BY <1>1, <1>2, <1>3, <1>10, <2>1
    <2>2. CASE n \in owed
      <3>1. /\ n \in NoticeRow /\ Says(payment[n.payment].provider, n.raw)
            /\ n.raw \in past[n.payment]
            /\ n.stamp <= payment[n.payment].stamp
            /\ n.stamp = payment[n.payment].stamp => n.raw = payment[n.payment].raw
        BY <2>2 DEF IInv, NoticesAreSound
      <3>2. CASE n.payment = p
        BY <1>1, <1>2, <1>4, <1>6, <1>11, <2>2, <3>1, <3>2
      <3>3. CASE n.payment # p
        BY <1>2, <1>11, <2>2, <3>1, <3>3
      <3> QED
        BY <3>2, <3>3
    <2> QED
      BY <1>1, <2>1, <2>2
  <1>13. NoticesDiffer'
    <2> SUFFICES ASSUME NEW n \in owed', NEW k \in owed',
                        n.payment = k.payment, n.stamp = k.stamp
                 PROVE  n.raw = k.raw
      BY DEF NoticesDiffer
    <2>1. CASE n \in owed /\ k \in owed
      BY <2>1 DEF IInv, NoticesDiffer
    <2>2. CASE n = notice /\ k = notice
      BY <2>2
    <2>3. CASE (n \in owed /\ k = notice) \/ (n = notice /\ k \in owed)
      BY <1>1, <1>10, <1>11, <2>3
    <2> QED
      BY <1>1, <2>1, <2>2, <2>3
  <1>14. \A e \in Heard : EventIsSound(e)
    BY DEF IInv, EventsAreSound
  <1>15. \A e \in Heard : e.payment \in Payments /\ payment[e.payment] # NoPayment
                              /\ e.asOf \in Nat /\ e.asOf <= clock
    <2> SUFFICES ASSUME NEW e \in Heard
                 PROVE  e.payment \in Payments /\ payment[e.payment] # NoPayment
                          /\ e.asOf \in Nat /\ e.asOf <= clock
      OBVIOUS
    <2>1. e.payment \in Payments /\ payment[e.payment] # NoPayment
            /\ e.asOf \in Nat /\ e.asOf <= payment[e.payment].stamp
      BY <1>14 DEF EventIsSound
    <2> QED
      BY <1>1, <1>5, <2>1
  <1>16. EventsAreSound'
    <2> SUFFICES ASSUME NEW e \in Heard
                 PROVE  EventIsSound(e)'
      BY <1>1 DEF EventsAreSound
    <2>1. /\ e.reference = payment'[e.payment].order
          /\ e.cents = TotalOf[payment'[e.payment].order]
      BY <1>4, <1>14, <1>15 DEF EventIsSound
    <2>2. /\ e.asOf <= payment'[e.payment].stamp
          /\ e.asOf = payment'[e.payment].stamp =>
                IsVerdict(payment'[e.payment].provider, payment'[e.payment].raw, e.status)
      <3>1. CASE e.payment = p
        BY <1>1, <1>6, <1>15, <3>1
      <3>2. CASE e.payment # p
        BY <1>2, <1>14, <1>15, <3>2 DEF EventIsSound
      <3> QED
        BY <3>1, <3>2
    <2>3. e.status \in NormalStatuses /\ BornOut(past'[e.payment], e.status)
      <3>1. e.status \in NormalStatuses /\ BornOut(past[e.payment], e.status)
        BY <1>14 DEF EventIsSound
      <3>2. past[e.payment] \subseteq past'[e.payment]
        BY <1>2, <1>15
      <3> QED
        BY <3>1, <3>2 DEF BornOut
    <2>4. IdFits(e)'
      <3>1. IdFits(e)
        BY <1>14 DEF EventIsSound
      <3>2. payment'[e.payment].provider = payment[e.payment].provider
        BY <1>4, <1>15
      <3> QED
        BY <3>1, <3>2 DEF IdFits, MercadoPagoEventId
    <2> QED
      BY <1>4, <1>15, <2>1, <2>2, <2>3, <2>4 DEF EventIsSound, IsVerdict, BornOut
  <1>17. SignedOnce'
    <2>1. \A e \in Heard : OfWompi(e)' => OfWompi(e)
      BY <1>4, <1>15 DEF OfWompi
    <2>2. ASSUME NEW e \in Heard, NEW n \in owed', OfWompi(e)',
                 e.payment = n.payment, e.asOf = n.stamp
          PROVE  e.status = WompiStatus(n.raw)
      <3>1. n # notice
        BY <1>1, <1>10, <1>15, <2>2
      <3> QED
        BY <1>1, <2>1, <2>2, <3>1 DEF IInv, SignedOnce
    <2>3. ASSUME NEW d \in Heard, NEW e \in Heard, OfWompi(e)',
                 d.payment = e.payment, d.asOf = e.asOf
          PROVE  d.status = e.status
      BY <2>1, <2>3 DEF IInv, SignedOnce
    <2> QED
      BY <1>1, <2>2, <2>3 DEF SignedOnce
  <1>18. DuplicateLosesNothing'
    BY <1>1 DEF IInv, DuplicateLosesNothing
  <1> QED
    BY <1>7, <1>8, <1>9, <1>12, <1>13, <1>16, <1>17, <1>18 DEF IInv

\* The service hears of payments and forgets, while the gateways stand still.
LEMMA HearStep ==
    ASSUME IInv, UNCHANGED <<session, payment, past, clock>>, owed' \subseteq owed,
           faults' \in Nat, DuplicateLosesNothing',
           \A e \in Heard' : e \in Heard \/ \E n \in owed : e \in Events(n)
    PROVE  IInv'
  <1>1. Shapes' /\ SessionsAreBilled' /\ PaymentsAreSound'
    BY DEF IInv, Shapes, SessionsAreBilled, PaymentsAreSound, Session
  <1>2. NoticesAreSound' /\ NoticesDiffer'
    BY DEF IInv, NoticesAreSound, NoticesDiffer
  <1>3. \A e \in Heard' : EventIsSound(e)
    BY EventsMade DEF IInv, EventsAreSound
  <1>4. EventsAreSound'
    BY <1>3 DEF EventsAreSound, EventIsSound, IdFits, MercadoPagoEventId
  <1>5. \A e \in Heard', n \in owed :
            OfWompi(e) /\ e.payment = n.payment /\ e.asOf = n.stamp => e.status = WompiStatus(n.raw)
    <2> SUFFICES ASSUME NEW e \in Heard', NEW n \in owed,
                        OfWompi(e), e.payment = n.payment, e.asOf = n.stamp
                 PROVE  e.status = WompiStatus(n.raw)
      OBVIOUS
    <2>1. CASE e \in Heard
      BY <2>1 DEF IInv, SignedOnce
    <2>2. ASSUME NEW k \in owed, e \in Events(k)
          PROVE  e.status = WompiStatus(n.raw)
      <3>1. e.payment = k.payment /\ e.asOf = k.stamp /\ e.status = WompiStatus(k.raw)
        BY <2>2, EventsMade
      <3>2. k.raw = n.raw
        BY <3>1 DEF IInv, NoticesDiffer
      <3> QED
        BY <3>1, <3>2
    <2> QED
      BY <2>1, <2>2
  <1>6. \A d, e \in Heard' :
            OfWompi(e) /\ d.payment = e.payment /\ d.asOf = e.asOf => d.status = e.status
    <2> SUFFICES ASSUME NEW d \in Heard', NEW e \in Heard',
                        OfWompi(e), d.payment = e.payment, d.asOf = e.asOf
                 PROVE  d.status = e.status
      OBVIOUS
    <2>0. OfWompi(d)
      BY DEF OfWompi
    <2>1. CASE d \in Heard /\ e \in Heard
      BY <2>1 DEF IInv, SignedOnce
    <2>2. ASSUME NEW n \in owed, e \in Events(n)
          PROVE  d.status = e.status
      BY <1>5, <2>0, <2>2, EventsMade
    <2>3. ASSUME NEW n \in owed, d \in Events(n)
          PROVE  d.status = e.status
      BY <1>5, <2>0, <2>3, EventsMade
    <2> QED
      BY <2>1, <2>2, <2>3
  <1>7. SignedOnce'
    BY <1>5, <1>6 DEF SignedOnce, OfWompi
  <1> QED
    BY <1>1, <1>2, <1>4, <1>7 DEF IInv

LEMMA AttemptStep ==
    ASSUME IInv, NEW p \in Payments, NEW o \in Orders, Attempt(p, o)
    PROVE  IInv'
  <1>1. PICK provider \in Providers : session[o] = Session(o, provider)
    BY DEF IInv, SessionsAreBilled
  <1>2. session[o].provider = provider
    BY <1>1 DEF Session
  <1>3. PICK raw \in FirstStatuses(provider) :
           Change(p, [provider |-> provider, order |-> o, amount |-> session[o].amount,
                      raw |-> raw, stamp |-> clock + 1, created |-> clock + 1,
                      approved |-> IF raw = "approved" THEN clock + 1 ELSE 0])
    BY <1>2 DEF Attempt
  <1> DEFINE record == [provider |-> provider, order |-> o, amount |-> session[o].amount,
                        raw |-> raw, stamp |-> clock + 1, created |-> clock + 1,
                        approved |-> IF raw = "approved" THEN clock + 1 ELSE 0]
  <1>4. Says(provider, raw)
    BY FirstIsSaid
  <1>5. raw \in Approved \cup Undecided \cup Lost
    BY <1>4, WordsAreStatuses
  <1>6. session[o].amount \in Nat \X {1, 100}
    BY <1>1, SessionTypes
  <1>7. record \in PaymentRow
    <2>1. clock + 1 \in Nat
      BY DEF IInv, Shapes
    <2> DEFINE approved == IF raw = "approved" THEN clock + 1 ELSE 0
    <2>2. approved \in Nat
      BY <2>1
    <2> HIDE DEF approved
    <2>3. [provider |-> provider, order |-> o, amount |-> session[o].amount, raw |-> raw,
           stamp |-> clock + 1, created |-> clock + 1, approved |-> approved] \in PaymentRow
      BY <1>5, <1>6, <2>1, <2>2 DEF PaymentRow
    <2> QED
      BY <2>3 DEF approved
  <1>8. payment[p] = NoPayment
    BY DEF Attempt
  <1>9. record.amount = Session(record.order, record.provider).amount
    BY <1>1
  <1>10. record.stamp = clock + 1 /\ Says(record.provider, record.raw) /\ Change(p, record)
    BY <1>3, <1>4
  <1> HIDE DEF record
  <1> QED
    BY <1>7, <1>8, <1>9, <1>10, ChangeStep

LEMMA EvolveStep ==
    ASSUME IInv, NEW p \in Payments, NEW raw, Evolve(p, raw)
    PROVE  IInv'
  <1> DEFINE q == payment[p]
             record == [payment[p] EXCEPT !.raw = raw, !.stamp = clock + 1,
                           !.approved = IF raw = "approved" THEN clock + 1 ELSE @]
  <1>1. q # NoPayment /\ raw \in NextStatuses(q.raw) /\ Change(p, record)
    BY DEF Evolve
  <1>2. /\ q \in PaymentRow /\ Says(q.provider, q.raw)
        /\ q.amount = Session(q.order, q.provider).amount
    BY <1>1 DEF IInv, PaymentsAreSound
  <1>3. Says(q.provider, raw)
    BY <1>1, <1>2, NextIsSaid
  <1>4. raw \in Approved \cup Undecided \cup Lost
    BY <1>3, WordsAreStatuses
  <1>5. /\ record.provider = q.provider /\ record.order = q.order /\ record.amount = q.amount
        /\ record.raw = raw /\ record.stamp = clock + 1
    BY <1>2 DEF PaymentRow
  <1>6. record \in PaymentRow
    <2> DEFINE approved == IF raw = "approved" THEN clock + 1 ELSE q.approved
    <2>1. clock + 1 \in Nat
      BY DEF IInv, Shapes
    <2>2. approved \in Nat
      BY <1>2, <2>1 DEF PaymentRow
    <2> HIDE DEF approved
    <2>3. [payment[p] EXCEPT !.raw = raw, !.stamp = clock + 1, !.approved = approved] \in PaymentRow
      BY <1>2, <1>4, <2>1, <2>2 DEF PaymentRow
    <2> QED
      BY <2>3 DEF approved
  <1> HIDE DEF record
  <1> QED
    BY <1>1, <1>2, <1>3, <1>5, <1>6, ChangeStep

LEMMA DeliverStep ==
    ASSUME IInv, NEW n \in owed, Deliver(n)
    PROVE  IInv'
  <1>1. PICK e \in Events(n) : parsed' = parsed \cup {[notice |-> n, event |-> e]}
    BY DEF Deliver
  <1>2. UNCHANGED <<session, payment, past, owed, recorded, dropped, clock, faults>>
    BY DEF Deliver
  <1>3. \A d \in Heard' : d \in Heard \/ d = e
    BY <1>1, <1>2 DEF Heard
  <1>4. DuplicateLosesNothing' /\ faults' \in Nat
    BY <1>2 DEF IInv, Shapes, DuplicateLosesNothing
  <1> QED
    BY <1>2, <1>3, <1>4, HearStep

\* Keeping an event hears of nothing new, and drops none that says anything else.
LEMMA KeepIsSound ==
    ASSUME IInv, NEW h \in parsed, Keep(h)
    PROVE  Heard' \subseteq Heard /\ DuplicateLosesNothing'
  <1> DEFINE same == {e \in recorded : e.id = h.event.id}
  <1>1. /\ parsed' = parsed \ {h}
        /\ \/ recorded' = recorded \cup {h.event} /\ dropped' = dropped
           \/ dropped' = dropped \cup {<<h.event, e>> : e \in same} /\ recorded' = recorded
    BY DEF Keep
  <1>2. Heard' \subseteq Heard
    BY <1>1 DEF Heard
  <1>3. \A e \in same : SameVerdict(h.event, e)
    BY SameIdSameVerdict DEF IInv, EventsAreSound, Heard
  <1>4. \A d \in dropped' : d \in dropped \/ \E e \in same : d = <<h.event, e>>
    BY <1>1
  <1>5. DuplicateLosesNothing'
    <2> SUFFICES ASSUME NEW d \in dropped' PROVE SameVerdict(d[1], d[2])
      BY DEF DuplicateLosesNothing
    <2>1. CASE d \in dropped
      BY <2>1 DEF IInv, DuplicateLosesNothing
    <2>2. ASSUME NEW e \in same, d = <<h.event, e>>
          PROVE  SameVerdict(d[1], d[2])
      BY <1>3, <2>2
    <2> QED
      BY <1>4, <2>1, <2>2
  <1> QED
    BY <1>2, <1>5

LEMMA HandlingStep ==
    ASSUME IInv, NEW h \in parsed, Record(h) \/ AnswerLost(h) \/ DeliveryFails(h)
    PROVE  IInv'
  <1>1. CASE Record(h)
    <2>1. Keep(h) /\ owed' \subseteq owed /\ faults' \in Nat
      BY <1>1 DEF Record, IInv, Shapes
    <2>2. UNCHANGED <<session, payment, past, clock>>
      BY <2>1 DEF Keep
    <2> QED
      BY <2>1, <2>2, KeepIsSound, HearStep
  <1>2. CASE AnswerLost(h)
    <2>1. Keep(h) /\ owed' \subseteq owed /\ faults' \in Nat
      BY <1>2 DEF AnswerLost, Fault, IInv, Shapes
    <2>2. UNCHANGED <<session, payment, past, clock>>
      BY <2>1 DEF Keep
    <2> QED
      BY <2>1, <2>2, KeepIsSound, HearStep
  <1>3. CASE DeliveryFails(h)
    <2>1. /\ UNCHANGED <<session, payment, past, owed, recorded, dropped, clock>>
          /\ faults' \in Nat /\ parsed' \subseteq parsed
      BY <1>3 DEF DeliveryFails, Fault, IInv, Shapes
    <2>2. Heard' \subseteq Heard
      BY <2>1 DEF Heard
    <2>3. DuplicateLosesNothing'
      BY <2>1 DEF IInv, DuplicateLosesNothing
    <2> QED
      BY <2>1, <2>2, <2>3, HearStep
  <1> QED
    BY <1>1, <1>2, <1>3

LEMMA NextStep == IInv /\ [Next]_vars => IInv'
  <1> SUFFICES ASSUME IInv, [Next]_vars PROVE IInv'
    OBVIOUS
  <1>1. ASSUME NEW p \in Payments, NEW o \in Orders, Attempt(p, o)
        PROVE  IInv'
    BY <1>1, AttemptStep
  <1>2. ASSUME NEW p \in Payments, NEW raw \in Approved \cup Undecided \cup Lost, Evolve(p, raw)
        PROVE  IInv'
    BY <1>2, EvolveStep
  <1>3. ASSUME NEW n \in owed, Deliver(n)
        PROVE  IInv'
    BY <1>3, DeliverStep
  <1>4. ASSUME NEW h \in parsed, Record(h) \/ AnswerLost(h) \/ DeliveryFails(h)
        PROVE  IInv'
    BY <1>4, HandlingStep
  <1>5. CASE UNCHANGED vars
    <2>1. UNCHANGED <<session, payment, past, owed, parsed, recorded, dropped, clock, faults>>
      BY <1>5 DEF vars
    <2>2. Heard' = Heard /\ DuplicateLosesNothing' /\ faults' \in Nat
      BY <2>1 DEF Heard, IInv, Shapes, DuplicateLosesNothing
    <2> QED
      BY <2>1, <2>2, HearStep
  <1> QED
    BY <1>1, <1>2, <1>3, <1>4, <1>5 DEF Next

-----------------------------------------------------------------------------
(* What the invariant gives.                                                *)

\* In every state the adapters reach: what was heard of a payment is so.
THEOREM GatewaysInvariant == Spec => []IInv
  <1> QED
    BY InitIInv, NextStep, PTL DEF Spec

\* The service's and the gateways' records keep their types.
THEOREM GatewaysTypeCorrect == Spec => []TypeOK
  <1>1. IInv => TypeOK
    <2> SUFFICES ASSUME IInv PROVE TypeOK
      OBVIOUS
    <2>1. \A o \in Orders :
             session[o] \in [provider : Providers, order : {o}, amount : Nat \X {1, 100}]
      BY SessionTypes DEF IInv, SessionsAreBilled
    <2>2. \A p \in Payments : payment[p] = NoPayment \/ payment[p] \in PaymentRow
      BY DEF IInv, PaymentsAreSound
    <2>3. owed \subseteq NoticeRow
      BY DEF IInv, NoticesAreSound
    <2>4. \A e \in Heard : /\ e.payment \in Payments /\ e.reference \in Orders
                           /\ e.status \in NormalStatuses
                           /\ e.cents \in Nat /\ e.asOf \in Nat
      <3> SUFFICES ASSUME NEW e \in Heard
                   PROVE  /\ e.payment \in Payments /\ e.reference \in Orders
                          /\ e.status \in NormalStatuses
                          /\ e.cents \in Nat /\ e.asOf \in Nat
        OBVIOUS
      <3>1. EventIsSound(e)
        BY DEF IInv, EventsAreSound
      <3>2. payment[e.payment] \in PaymentRow
        BY <3>1 DEF EventIsSound, IInv, PaymentsAreSound
      <3>3. payment[e.payment].order \in Orders
        BY <3>2 DEF PaymentRow
      <3>4. TotalOf[payment[e.payment].order] \in Nat
        BY <3>3, GatewayAssumption
      <3> QED
        BY <3>1, <3>3, <3>4 DEF EventIsSound
    <2>5. \A d, e \in recorded : d.id = e.id => d.payment = e.payment
      BY SameIdSameVerdict DEF IInv, EventsAreSound, Heard, SameVerdict
    <2> QED
      BY <2>1, <2>2, <2>3, <2>4, <2>5 DEF TypeOK, Heard, IInv, Shapes
  <1> QED
    BY <1>1, GatewaysInvariant, PTL

\* An event dropped as a duplicate said no more than the one that was kept.
THEOREM NoVerdictIsLost == Spec => []DuplicateLosesNothing
  <1>1. IInv => DuplicateLosesNothing
    BY DEF IInv
  <1> QED
    BY <1>1, GatewaysInvariant, PTL

\* Whatever is delivered when, no event says more than the gateway once did.
THEOREM EventsAreTrue == Spec => []EventsTellTheTruth
  <1>1. IInv => EventsTellTheTruth
    BY DEF IInv, EventsAreSound, Heard, EventIsSound, BornOut, EventsTellTheTruth
  <1> QED
    BY <1>1, GatewaysInvariant, PTL

\* Two ways to hear of a payment, one order, one amount and one verdict.
THEOREM LookupsAgree == Spec => []LookupAgreesWithEvent
  <1>1. ASSUME IInv PROVE LookupAgreesWithEvent
    <2> SUFFICES ASSUME NEW e \in recorded
                 PROVE  /\ e.cents = TotalOf[e.reference]
                        /\ e.asOf = payment[e.payment].stamp =>
                              \A r \in Lookups(e.payment) :
                                 /\ r.status = e.status
                                 /\ r.reference = e.reference
                                 /\ r.cents \in {NoAmount, e.cents}
      BY DEF LookupAgreesWithEvent
    <2>1. EventIsSound(e)
      BY <1>1 DEF IInv, EventsAreSound, Heard
    <2>2. e.cents = TotalOf[e.reference]
      BY <2>1 DEF EventIsSound
    <2>3. ASSUME e.asOf = payment[e.payment].stamp, NEW r \in Lookups(e.payment)
          PROVE  /\ r.status = e.status /\ r.reference = e.reference
                 /\ r.cents \in {NoAmount, e.cents}
      <3> DEFINE q == payment[e.payment]
      <3>1. /\ r.reference = q.order
            /\ IsVerdict(q.provider, q.raw, r.status)
            /\ r.cents \in {NoAmount, AmountCents(e.payment)}
        BY <1>1, <2>1, LookupAnswers DEF IInv, EventIsSound
      <3>2. AmountCents(e.payment) = e.cents
        BY <1>1, <2>1, AmountIsTheTotal DEF IInv, EventIsSound
      <3>3. IsVerdict(q.provider, q.raw, e.status) /\ r.reference = e.reference
        BY <2>1, <2>3, <3>1 DEF EventIsSound
      <3>4. q.provider \in Providers
        BY <1>1, <2>1 DEF IInv, PaymentsAreSound, EventIsSound, PaymentRow
      <3>5. r.status = e.status
        BY <3>1, <3>3, <3>4 DEF IsVerdict, Providers
      <3> QED
        BY <3>1, <3>2, <3>3, <3>5
    <2> QED
      BY <2>2, <2>3
  <1> QED
    BY <1>1, GatewaysInvariant, PTL

-----------------------------------------------------------------------------
(* The search by reference: the newest of the payments it prefers.          *)

\* Payments are dated by the gateway's clock, which never goes back.
DatesArePast ==
    \A p \in Payments : payment[p] # NoPayment =>
        payment[p].created <= clock /\ payment[p].approved <= clock

LEMMA InitDates == Init => DatesArePast
  BY DEF Init, DatesArePast

LEMMA NextDates == IInv /\ DatesArePast /\ [Next]_vars => DatesArePast'
  <1> SUFFICES ASSUME IInv, DatesArePast, [Next]_vars PROVE DatesArePast'
    OBVIOUS
  <1>1. clock \in Nat /\ payment \in [Payments -> PaymentRow \cup {NoPayment}]
    BY DEF IInv, Shapes
  <1>2. ASSUME NEW p \in Payments, NEW record, Change(p, record),
               record.created <= clock + 1, record.approved <= clock + 1
        PROVE  DatesArePast'
    <2>1. clock' = clock + 1 /\ payment'[p] = record
          /\ \A q \in Payments : q # p => payment'[q] = payment[q]
      BY <1>1, <1>2 DEF Change
    <2> SUFFICES ASSUME NEW q \in Payments, payment'[q] # NoPayment
                 PROVE  payment'[q].created <= clock' /\ payment'[q].approved <= clock'
      BY DEF DatesArePast
    <2>2. CASE q = p
      BY <1>2, <2>1, <2>2
    <2>3. CASE q # p
      <3>1. payment[q] # NoPayment /\ payment[q] \in PaymentRow
        BY <1>1, <2>1, <2>3
      <3>2. /\ payment[q].created \in Nat /\ payment[q].approved \in Nat
            /\ payment[q].created <= clock /\ payment[q].approved <= clock
        BY <3>1 DEF DatesArePast, PaymentRow
      <3> QED
        BY <1>1, <2>1, <2>3, <3>2
    <2> QED
      BY <2>2, <2>3
  <1>3. ASSUME NEW p \in Payments, NEW o \in Orders, Attempt(p, o)
        PROVE  DatesArePast'
    <2>1. PICK raw : Change(p, [provider |-> session[o].provider, order |-> o,
                                amount |-> session[o].amount, raw |-> raw, stamp |-> clock + 1,
                                created |-> clock + 1,
                                approved |-> IF raw = "approved" THEN clock + 1 ELSE 0])
      BY <1>3 DEF Attempt
    <2> DEFINE record == [provider |-> session[o].provider, order |-> o,
                          amount |-> session[o].amount, raw |-> raw, stamp |-> clock + 1,
                          created |-> clock + 1,
                          approved |-> IF raw = "approved" THEN clock + 1 ELSE 0]
    <2>2. record.created <= clock + 1 /\ record.approved <= clock + 1
      BY <1>1
    <2>3. Change(p, record)
      BY <2>1
    <2> HIDE DEF record
    <2> QED
      BY <1>2, <2>2, <2>3
  <1>4. ASSUME NEW p \in Payments, NEW raw, Evolve(p, raw)
        PROVE  DatesArePast'
    <2> DEFINE record == [payment[p] EXCEPT !.raw = raw, !.stamp = clock + 1,
                             !.approved = IF raw = "approved" THEN clock + 1 ELSE @]
    <2>1. payment[p] \in PaymentRow /\ payment[p].created <= clock /\ payment[p].approved <= clock
      BY <1>1, <1>4 DEF Evolve, DatesArePast
    <2>2. record.created <= clock + 1 /\ record.approved <= clock + 1
      BY <1>1, <2>1 DEF PaymentRow
    <2>3. Change(p, record)
      BY <1>4 DEF Evolve
    <2> HIDE DEF record
    <2> QED
      BY <1>2, <2>2, <2>3
  <1>5. CASE UNCHANGED <<payment, clock>>
    BY <1>5 DEF DatesArePast
  <1> QED
    BY <1>3, <1>4, <1>5 DEF Next, vars, Deliver, Record, AnswerLost, DeliveryFails, Keep

\* Of payments that exist, some are dated last.
LEMMA NewestExists ==
    ASSUME IInv, DatesArePast, NEW S \in SUBSET Payments, S # {},
           \A p \in S : payment[p] # NoPayment
    PROVE  NewestOf(S) # {}
  <1> DEFINE dates == {Dated(p) : p \in S}
  <1>1. clock \in Nat /\ \A p \in S : payment[p] \in PaymentRow
    BY DEF IInv, Shapes
  <1>2. \A p \in S : Dated(p) \in 0..clock
    BY <1>1 DEF Dated, DatesArePast, PaymentRow
  <1>3. IsFiniteSet(dates) /\ dates \in SUBSET Int /\ dates # {}
    <2>1. dates \in SUBSET (0..clock) /\ dates # {}
      BY <1>2
    <2> HIDE DEF dates
    <2>2. IsFiniteSet(0..clock) /\ 0..clock \subseteq Int
      BY <1>1, FS_Interval
    <2> QED
      BY <2>1, <2>2, FS_Subset
  <1>4. \E last \in dates : \A d \in dates : d <= last
    <2> HIDE DEF dates
    <2> QED
      BY <1>3, Largest
  <1>5. PICK p \in S : \A q \in S : Dated(q) <= Dated(p)
    BY <1>4
  <1> QED
    BY <1>5 DEF NewestOf

LEMMA SearchIsRight ==
    ASSUME IInv, DatesArePast
    PROVE  SearchFindsThePaid
  <1> DEFINE there == {p \in Payments : payment[p].provider = "mercadopago"}
             Own(o) == {p \in there : payment[p].order = o}
             Paid(o) == {p \in Own(o) : payment[p].raw = "approved"}
             Right(o, found) ==
                /\ found \subseteq Own(o)
                /\ Own(o) # {} => found # {}
                /\ (\E p \in Own(o) : payment[p].raw = "approved")
                      => \A p \in found : MercadoPagoStatus(payment[p].raw) = "PAID"
  <1>1. SUFFICES ASSUME NEW o \in Orders, NEW others \in SUBSET (there \ Own(o)),
                        NEW found, found = Chosen(o, Own(o) \cup others)
                 PROVE  Right(o, found)
    <2>1. \A o \in Orders : \A others \in SUBSET (there \ Own(o)) :
             Right(o, Chosen(o, Own(o) \cup others))
      <3> HIDE DEF there, Own, Right
      <3> QED
        OBVIOUS
    <2> QED
      BY <2>1, Zenon DEF SearchFindsThePaid
  <1>2. \A p \in Own(o) : payment[p] # NoPayment
    BY DEF NoPayment, NoProvider
  <1>3. {p \in Own(o) \cup others : payment[p].order = o} = Own(o)
    OBVIOUS
  <1>4. found = IF Paid(o) # {} THEN NewestOf(Paid(o)) ELSE NewestOf(Own(o))
    BY <1>1, <1>3 DEF Chosen
  <1>5. Own(o) \in SUBSET Payments /\ Paid(o) \in SUBSET Payments /\ Paid(o) \subseteq Own(o)
    OBVIOUS
  <1>6. \A p \in Paid(o) : MercadoPagoStatus(payment[p].raw) = "PAID"
    BY DEF MercadoPagoStatus
  <1>7. (\E p \in Own(o) : payment[p].raw = "approved") => Paid(o) # {}
    OBVIOUS
  <1>8. \A S : NewestOf(S) \subseteq S
    BY DEF NewestOf
  <1> HIDE DEF Own, Paid
  <1>9. CASE Paid(o) # {}
    BY <1>2, <1>4, <1>5, <1>6, <1>8, <1>9, NewestExists
  <1>10. CASE Paid(o) = {}
    BY <1>2, <1>4, <1>5, <1>7, <1>8, <1>10, NewestExists
  <1> QED
    BY <1>9, <1>10

(****************************************************************************)
(* Whatever a Mercado Pago search returns, in any order and among payments  *)
(* of other orders, the adapter picks an attempt of this order, a paid one  *)
(* if there is one, and comes back empty only if there is none.             *)
(****************************************************************************)
THEOREM PaidAttemptsAreFound == Spec => []SearchFindsThePaid
  <1>1. IInv /\ DatesArePast => SearchFindsThePaid
    BY SearchIsRight
  <1> QED
    BY <1>1, InitDates, NextDates, GatewaysInvariant, PTL DEF Spec
=============================================================================
