--------------------------- MODULE ReceiptStatus ---------------------------
(***************************************************************************)
(* The life of a payment receipt: the statuses of payment_receipts and the *)
(* rules by which reconciliation-service.mjs and updateReceiptSettlement   *)
(* move between them.                                                      *)
(*                                                                         *)
(* A receipt has two columns, receipt_status and settlement_status.  Every *)
(* writer sets them in one of four pairs, which are the four statuses:     *)
(*   verified/provisional, settled/settled, reversed/reversed,             *)
(*   failed/failed.                                                        *)
(***************************************************************************)
EXTENDS Integers

Statuses == {"verified", "settled", "reversed", "failed"}

\* The statuses whose units spendByDay counts against the payer.
CountedStatuses == {"verified", "settled"}

\* A faulty MapSettlement that takes a silent verifier for a settled payment.
MapSettlementHopefully(word) ==
    CASE word \in {"failed", "reversed", "refunded", "chargeback"} -> "reversed"
      [] OTHER -> "settled"

\* What the verifier's words are mapped to: an unknown word, and "pending", is
\* provisional; "failed", "refunded" and "chargeback" are reversals.
MapSettlement(word) ==
    CASE word \in {"settled", "confirmed", "paid"} -> "settled"
      [] word \in {"failed", "reversed", "refunded", "chargeback"} -> "reversed"
      [] OTHER -> "verified"

\* STATUS_RANK has no entry for "failed", which ranks with "pending".
Rank(status) ==
    CASE status = "verified" -> 1
      [] status \in {"settled", "reversed"} -> 2
      [] OTHER -> 0

IsDowngrade(old, new) == Rank(new) < Rank(old)

\* A faulty Refused that forgets the failed receipts.
RefusedLoosely(old, new) ==
    \/ old = "reversed" /\ new # "reversed"
    \/ old = "settled" /\ new \notin {"settled", "reversed"}

\* updateReceiptSettlement refuses these.
Refused(old, new) ==
    \/ old = "reversed" /\ new # "reversed"
    \/ old = "settled" /\ new \notin {"settled", "reversed"}
    \/ old = "failed" /\ new = "verified"

\* The status a receipt has after updateReceiptSettlement was asked for new.
Updated(old, new) == IF Refused(old, new) THEN old ELSE new
=============================================================================
