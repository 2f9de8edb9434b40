-------------------------- MODULE MCOrderLifecycle --------------------------
(****************************************************************************)
(* A shop with one plain product and one product with variants, one of      *)
(* which exists at the start; buyers order one unit of either, or both.     *)
(****************************************************************************)
EXTENDS OrderLifecycle

CONSTANTS mug, shirt, mugRow, small, large

MCProducts == {mug, shirt}
MCSkus == {mugRow, small, large}
MCProductOf == [s \in MCSkus |-> IF s = mugRow THEN mug ELSE shirt]
MCVariantSkus == {small, large}
MCInitialSkus == {mugRow, small}
MCInitialStock == [s \in MCSkus |-> IF s = small THEN 2 ELSE 1]
Basket(S) == [s \in MCSkus |-> IF s \in S THEN 1 ELSE 0]
MCBaskets == {Basket({mugRow, small}), Basket({small})}
MCDeltas == {-1}
MCNewUnits == {1}
MCRetracked == {shirt}
=============================================================================
