---------------------------- MODULE IdealBilling ----------------------------
(***************************************************************************)
(* What the paid-call path of the adapter promises its payers, with no     *)
(* protocol: a key is charged for at most once, a charge fits the limit    *)
(* its request comes with, a charge only moves forward, a key is answered  *)
(* once, and is answered "success" only if it was charged for.             *)
(* PaidCall is shown to implement this module in PaidCallRefinement.       *)
(***************************************************************************)
EXTENDS Integers, FiniteSets, ReceiptStatus

CONSTANTS Calls, Keys, Payers, Limits, None

VARIABLES
    charge,    \* what each call has charged: None or [key, payer, limit, status]
    released,  \* calls whose charge has been given back at some time
    answer     \* the answer of each key

ideal == <<charge, released, answer>>

Init ==
    /\ charge = [c \in Calls |-> None]
    /\ released = {}
    /\ answer = [k \in Keys |-> "none"]

Charged == {c \in Calls : charge[c] # None}

\* The charges that weigh on a payer's limit.
Standing(p) ==
    {c \in Charged : /\ charge[c].payer = p
                     /\ charge[c].status \in CountedStatuses} \ released

Charge(c, k, p, limit) ==
    /\ c \notin Charged
    /\ \A d \in Charged : charge[d].key # k
    /\ answer[k] = "none"
    /\ Cardinality(Standing(p)) < limit
    /\ charge' = [charge EXCEPT ![c] =
          [key |-> k, payer |-> p, limit |-> limit, status |-> "verified"]]
    /\ UNCHANGED <<released, answer>>

\* The verifier, or a failed tool, moves a charge.
Move(c, new) ==
    /\ c \in Charged
    /\ charge[c].status # new
    /\ ~Refused(charge[c].status, new)
    /\ charge' = [charge EXCEPT ![c].status = new]
    /\ released' = IF new = "failed" THEN released \cup {c} ELSE released
    /\ UNCHANGED answer

GiveAnswer(k, kind) ==
    /\ answer[k] = "none"
    /\ kind = "success" =>
         \E c \in Charged : charge[c].key = k /\ charge[c].status # "failed"
    /\ answer' = [answer EXCEPT ![k] = kind]
    /\ UNCHANGED <<charge, released>>

Next ==
    \/ \E c \in Calls, k \in Keys, p \in Payers, limit \in Limits : Charge(c, k, p, limit)
    \/ \E c \in Calls, new \in Statuses : Move(c, new)
    \/ \E k \in Keys, kind \in {"success", "failed"} : GiveAnswer(k, kind)

Spec == Init /\ [][Next]_ideal
=============================================================================
