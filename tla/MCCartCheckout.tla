-------------------------- MODULE MCCartCheckout --------------------------
(* The instance of CartCheckout that TLC checks: two shoppers of one e-mail *)
(* who each have a cart, or have both followed the agent's link to one.     *)
EXTENDS CartCheckout

CONSTANTS t1, t2, b1, b2, x, y

OneEach == [t \in Tabs |-> IF t = t1 THEN b1 ELSE b2]
SameEmail == [b \in Browsers |-> "email"]
OwnOrShared == {[b \in Browsers |-> IF b = b1 THEN 1 ELSE 2], [b \in Browsers |-> 2]}
FewLeft == [i \in Items |-> IF i = x THEN 2 ELSE 1]
AgentBuilt == {2}
LinesThere ==
    [l \in LineIds |-> CASE l = 1 -> [cart |-> 1, item |-> y, qty |-> 1]
                         [] l = 2 -> [cart |-> 2, item |-> x, qty |-> 1]
                         [] OTHER -> NoLine]
=============================================================================
