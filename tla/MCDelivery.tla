----------------------------- MODULE MCDelivery -----------------------------
(* Instances of Delivery: two messages of different priority.              *)
EXTENDS Delivery

CONSTANTS m1, m2

MCPriority == [m \in Keys |-> IF m = m1 THEN 100 ELSE 50]
=============================================================================
