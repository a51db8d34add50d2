------------------------- MODULE PaidCallRefinement -------------------------
(***************************************************************************)
(* PaidCall implements IdealBilling: a charge is a row of payment_receipts *)
(* and an answer is a finalised row of paid_idempotency.                   *)
(***************************************************************************)
EXTENDS PaidCall

\* No charge is mistaken for none.
ASSUME NoneAssumption ==
    None \notin [key : Keys, payer : Payers, limit : Nat, status : Statuses]

ChargeOf(c) ==
    IF receipt[c] = "none" THEN None
    ELSE [key |-> key[c], payer |-> Payer(c),
          limit |-> LimitOf[payload[c]], status |-> receipt[c]]

AnswerOf(k) ==
    IF idem[k].status \in {"success", "failed"} THEN idem[k].status ELSE "none"

Ideal == INSTANCE IdealBilling
    WITH Limits <- {LimitOf[p] : p \in Payloads},
         charge <- [c \in Calls |-> ChargeOf(c)],
         released <- undone,
         answer <- [k \in Keys |-> AnswerOf(k)]

\* Every behaviour of executeTool, authorizeAndBill and the store, with crashes,
\* store faults, replay windows and a racing reconciler, is one IdealBilling allows.
ImplementsIdealBilling == Ideal!Spec
=============================================================================
