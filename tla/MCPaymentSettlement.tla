------------------------ MODULE MCPaymentSettlement ------------------------
(****************************************************************************)
(* One order of a plain product, two gateway transactions and two webhook   *)
(* requests in flight: a repeated delivery, a declined attempt and a retry, *)
(* two charges for one order, and a charge of somebody else's order.        *)
(****************************************************************************)
EXTENDS PaymentSettlement

CONSTANTS mug, mugRow

MCProducts == {mug}
MCSkus == {mugRow}
MCProductOf == [s \in MCSkus |-> mug]
MCInitialStock == [s \in MCSkus |-> 1]
MCBaskets == {[s \in MCSkus |-> 1]}

Charge(k, a) == [shop |-> "here", order |-> 1, key |-> k, amount |-> a]
\* Another tenant's order 1, of the same total, on the same merchant account.
Foreign(k) == [shop |-> "elsewhere", order |-> 1, key |-> k, amount |-> "exact"]
MCCharges == {Charge("reference", "exact"), Charge("number", "exact"),
              Charge("reference", "missing"), Charge("reference", "other"),
              Foreign("reference"), Foreign("number")}
\* The charges of sessions the current code opens.
MCOwnCharges == {Charge("reference", "exact")}
\* Wompi annuls (VOIDED) approved card payments, and no other payments.
WompiCardDecisions == {<<"PENDING", "PAID">>, <<"PENDING", "FAILED">>, <<"PAID", "FAILED">>}
WompiDecisions == {<<"PENDING", "PAID">>, <<"PENDING", "FAILED">>}
\* Mercado Pago refunds approved payments.
MercadoPagoDecisions == {<<"PENDING", "PAID">>, <<"PENDING", "FAILED">>, <<"PAID", "EXPIRED">>}
=============================================================================
