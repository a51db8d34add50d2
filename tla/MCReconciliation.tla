-------------------------- MODULE MCReconciliation --------------------------
(***************************************************************************)
(* Two processes.  The timer of w1 may start a second run before the first *)
(* is over; receipt 1 is the oldest and has no verifier reference.         *)
(***************************************************************************)
EXTENDS Reconciliation

CONSTANTS w1, w2, a1, a2, b1

MCWorkerOf == [r \in Runs |-> IF r = b1 THEN w2 ELSE w1]
=============================================================================
