----------------------- MODULE MCPostgresReservation -----------------------
(* Four reservations: t1 and t2 replay a payment with a reference, t3 and t4 *)
(* one with a nonce alone; t1 to t3 have one payer.                          *)
EXTENDS PostgresReservation

CONSTANTS t1, t2, t3, t4, alice, bob, n1, n3, r1

MCPayerOf == [t \in Txs |-> IF t = t4 THEN bob ELSE alice]
MCLimitOf == [t \in Txs |-> IF t = t2 THEN 2 ELSE 1]
MCNoncesOf == [t \in Txs |-> IF t \in {t1, t2} THEN {n1} ELSE {n3}]
MCReferencesOf == [t \in Txs |-> IF t \in {t1, t2} THEN {r1} ELSE {}]
=============================================================================
