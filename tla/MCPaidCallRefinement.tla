------------------------ MODULE MCPaidCallRefinement ------------------------
(* The instance of MCPaidCall, checked against IdealBilling.                 *)
EXTENDS PaidCallRefinement, TLC

CONSTANTS m1, m2, m3, p1, p2, p3, r1, alice

MCPaymentOf == [p \in Payloads |-> CASE p = p1 -> m1 [] p = p2 -> m2 [] p = p3 -> m3]
MCPayerOf == [m \in Payments |-> alice]
MCLimitOf == [p \in Payloads |-> IF p = p2 THEN 1 ELSE 2]
MCRefOf == [m \in Payments |-> IF m = m2 THEN None ELSE r1]

Symmetry == Permutations(Calls) \cup Permutations(Keys)
=============================================================================
