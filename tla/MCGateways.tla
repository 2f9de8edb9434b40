----------------------------- MODULE MCGateways -----------------------------
(* The instance of Gateways that TLC checks: totals that are not whole pesos. *)
EXTENDS Gateways

CONSTANTS o1, o2

OddTotals == [o \in Orders |-> IF o = o1 THEN 155 ELSE 299]
=============================================================================
