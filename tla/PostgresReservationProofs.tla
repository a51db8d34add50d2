---------------------- MODULE PostgresReservationProofs ----------------------
(***************************************************************************)
(* Theorems about PostgresReservation, for any transactions, payments,     *)
(* payers and limits, however their queries interleave, whichever fail and *)
(* whenever replay windows end.                                            *)
(***************************************************************************)
EXTENDS PostgresReservation, TLAPS, FiniteSetTheorems

USE ReservationAssumption DEF ReservationAssumption, Goto

\* A transaction that got past its first INSERT has its row in the table until
\* its window has ended, one past the second has its receipt for good.
Inserted ==
    /\ \A t \in Txs : pc[t] \in {"spend", "receipt", "commit"} => t \in replay
    /\ \A t \in Committed : t \in replay \/ t \in lapsed
    /\ \A t \in Txs : pc[t] \in {"commit", "committed"} => t \in receipt

\* Only rows of committed transactions whose window has ended are deleted.
Seen ==
    \A t, u \in Txs : u \in now[t] => u \in lapsed \/ pc[u] \in {"refused", "aborted"}

Purges ==
    \A t, u \in Txs : u \in doomed[t] \cup deleted[t] => u \in Committed /\ u \in lapsed

\* A DELETE visits rows while it runs; a transaction that is over holds no locks.
Unlocked ==
    \A t \in Txs : /\ doomed[t] # {} => pc[t] \in {"purging", "purging again"}
                   /\ Over(t) => deleted[t] = {}

\* The unique indexes keep rows of one identity apart, but for those that the
\* younger's transaction deletes.
Unique ==
    \A t, u \in replay : u \in Rivals(t) => u \in deleted[t] \/ t \in deleted[u]

ReceiptUnique == \A t, u \in receipt : u \notin Twins(t)

RInv == TypeOK /\ Inserted /\ Seen /\ Purges /\ Unlocked /\ Unique /\ ReceiptUnique

-----------------------------------------------------------------------------

\* Being rivals, or twins, is mutual.
LEMMA Mutual ==
    ASSUME NEW t \in Txs, NEW u \in Txs
    PROVE  /\ u \in Rivals(t) <=> t \in Rivals(u)
           /\ u \in Twins(t) <=> t \in Twins(u)
BY DEF Rivals, Twins, SameNonce, SameReference

\* A rollback takes the rows and the locks of the transaction away, and it is over.
LEMMA RolledBack ==
    ASSUME RInv, NEW t \in Txs, NEW how \in {"refused", "aborted"}, ~Over(t),
           Rollback(t, how)
    PROVE  RInv'
<1> USE DEF RInv, TypeOK, Rollback, Committed, Over
<1>1. TypeOK'
  OBVIOUS
<1>2. Inserted'
  BY DEF Inserted
<1>3. Seen'
  BY DEF Seen
<1>4. Purges'
  BY DEF Purges
<1>5. Unlocked'
  BY DEF Unlocked
<1>6. Unique'
  <2> SUFFICES ASSUME NEW u \in replay', NEW v \in replay', v \in Rivals(u)
               PROVE  v \in deleted'[u] \/ u \in deleted'[v]
    BY DEF Unique, Rivals, SameNonce, SameReference
  <2> QED
    BY DEF Unique
<1>7. ReceiptUnique'
  BY DEF ReceiptUnique, Twins, SameReference
<1>8. QED
  BY <1>1, <1>2, <1>3, <1>4, <1>5, <1>6, <1>7 DEF RInv

LEMMA Inductive == RInv /\ [Next]_vars => RInv'
<1> SUFFICES ASSUME RInv, [Next]_vars PROVE RInv'
  OBVIOUS
<1> USE DEF RInv, TypeOK
<1>1. ASSUME NEW t \in Txs, Step(t) PROVE RInv'
  <2>1. CASE Begin(t)
    <3>1. TypeOK'
      BY <2>1 DEF Begin
    <3>2. Inserted'
      BY <2>1 DEF Begin, Inserted, Committed
    <3>3. Seen'
      BY <2>1 DEF Begin, Seen
    <3>4. Purges'
      BY <2>1 DEF Begin, Purges, Committed
    <3>5. Unlocked'
      BY <2>1 DEF Begin, Unlocked, Over
    <3>6. Unique'
      BY <2>1 DEF Begin, Unique, Rivals
    <3>7. ReceiptUnique'
      BY <2>1 DEF Begin, ReceiptUnique, Twins
    <3>8. QED
      BY <3>1, <3>2, <3>3, <3>4, <3>5, <3>6, <3>7
  <2>2. CASE Purge(t)
    <3>1. TypeOK'
      BY <2>2 DEF Purge
    <3>2. Inserted'
      BY <2>2 DEF Purge, Inserted, Committed
    <3>3. Seen'
      BY <2>2 DEF Purge, Seen
    <3>4. Purges'
      BY <2>2 DEF Purge, Purges, Seen, Committed
    <3>5. Unlocked'
      BY <2>2 DEF Purge, Unlocked, Over
    <3>6. Unique'
      BY <2>2 DEF Purge, Unique, Rivals
    <3>7. ReceiptUnique'
      BY <2>2 DEF Purge, ReceiptUnique, Twins
    <3>8. QED
      BY <3>1, <3>2, <3>3, <3>4, <3>5, <3>6, <3>7
  <2>3. CASE DeleteRow(t)
    <3>1. ~Over(t) /\ pc[t] \in {"purging", "purging again"}
      BY <2>3 DEF DeleteRow, Unlocked, Over
    <3>2. PICK u \in Txs :
             /\ u \in doomed[t]
             /\ doomed' = [doomed EXCEPT ![t] = @ \ {u}]
             /\ deleted' = [deleted EXCEPT ![t] = @ \cup ({u} \cap replay)]
             /\ UNCHANGED <<pc, replay, receipt, lapsed, now>>
      BY <2>3 DEF DeleteRow
    <3>3. TypeOK'
      BY <3>2
    <3>4. Inserted'
      BY <3>2 DEF Inserted, Committed
    <3>5. Seen'
      BY <3>2 DEF Seen
    <3>6. Purges'
      BY <3>2 DEF Purges, Committed
    <3>7. Unlocked'
      BY <3>2, <3>1 DEF Unlocked, Over
    <3>8. Unique'
      BY <3>2 DEF Unique, Rivals
    <3>9. ReceiptUnique'
      BY <3>2 DEF ReceiptUnique, Twins
    <3>10. QED
      BY <3>3, <3>4, <3>5, <3>6, <3>7, <3>8, <3>9
  <2>4. CASE Purged(t)
    <3>1. TypeOK'
      BY <2>4 DEF Purged
    <3>2. Inserted'
      BY <2>4 DEF Purged, Inserted, Committed
    <3>3. Seen'
      BY <2>4 DEF Purged, Seen
    <3>4. Purges'
      BY <2>4 DEF Purged, Purges, Committed
    <3>5. Unlocked'
      BY <2>4 DEF Purged, Unlocked, Over
    <3>6. Unique'
      BY <2>4 DEF Purged, Unique, Rivals
    <3>7. ReceiptUnique'
      BY <2>4 DEF Purged, ReceiptUnique, Twins
    <3>8. QED
      BY <3>1, <3>2, <3>3, <3>4, <3>5, <3>6, <3>7
  <2>5. CASE InsertReplay(t)
    <3>1. TypeOK' /\ Inserted' /\ Seen' /\ Purges' /\ Unlocked' /\ ReceiptUnique'
      BY <2>5 DEF InsertReplay, Inserted, Seen, Purges, Unlocked, ReceiptUnique, Twins,
                  Committed, Over
    <3>2. ASSUME NEW u \in replay', NEW v \in replay', v \in Rivals(u)
          PROVE  v \in deleted'[u] \/ u \in deleted'[v]
      <4>1. u \in Rivals(v) /\ u # v
        BY <3>2, Mutual, <2>5 DEF InsertReplay, Rivals
      <4>2. QED
        BY <2>5, <3>2, <4>1 DEF InsertReplay, Unique, Conflicts
    <3>3. Unique'
      BY <3>2 DEF Unique, Rivals, SameNonce, SameReference
    <3>4. QED
      BY <3>1, <3>3
  <2>6. CASE ReplayDetected(t)
    BY <2>6, RolledBack DEF ReplayDetected, Over
  <2>7. CASE ReadSpend(t)
    <3>1. TypeOK'
      BY <2>7 DEF ReadSpend
    <3>2. Inserted'
      BY <2>7 DEF ReadSpend, Inserted, Committed
    <3>3. Seen'
      BY <2>7 DEF ReadSpend, Seen
    <3>4. Purges'
      BY <2>7 DEF ReadSpend, Purges, Committed
    <3>5. Unlocked'
      BY <2>7 DEF ReadSpend, Unlocked, Over
    <3>6. Unique'
      BY <2>7 DEF ReadSpend, Unique, Rivals
    <3>7. ReceiptUnique'
      BY <2>7 DEF ReadSpend, ReceiptUnique, Twins
    <3>8. QED
      BY <3>1, <3>2, <3>3, <3>4, <3>5, <3>6, <3>7
  <2>8. CASE LimitReached(t)
    BY <2>8, RolledBack DEF LimitReached, Over
  <2>9. CASE InsertReceipt(t)
    <3>1. /\ TypeOK' /\ Inserted' /\ Seen'
          /\ Purges' /\ Unlocked' /\ Unique'
      <4>1. TypeOK' /\ Inserted' /\ Seen'
        BY <2>9 DEF InsertReceipt, Inserted, Seen, Committed
      <4>2. Purges' /\ Unlocked'
        BY <2>9 DEF InsertReceipt, Purges, Unlocked, Committed, Over
      <4>3. Unique'
        BY <2>9 DEF InsertReceipt, Unique, Rivals
      <4>4. QED
        BY <4>1, <4>2, <4>3
    <3>2. ASSUME NEW u \in receipt', NEW v \in receipt', v \in Twins(u)
          PROVE  FALSE
      <4>1. u \in Twins(v) /\ u # v
        BY <3>2, Mutual, <2>9 DEF InsertReceipt, Twins
      <4>2. QED
        BY <2>9, <3>2, <4>1 DEF InsertReceipt, ReceiptUnique
    <3>3. ReceiptUnique'
      BY <3>2 DEF ReceiptUnique, Twins, SameReference
    <3>4. QED
      BY <3>1, <3>3
  <2>10. CASE ReceiptDuplicate(t)
    BY <2>10, RolledBack DEF ReceiptDuplicate, Over
  <2>11. CASE Commit(t)
    <3>1. TypeOK' /\ Seen' /\ Unlocked' /\ ReceiptUnique'
      BY <2>11 DEF Commit, Seen, Unlocked, ReceiptUnique, Twins, Over
    <3>2. Inserted'
      BY <2>11 DEF Commit, Inserted, Purges, Unlocked, Over, Committed
    <3>3. Purges'
      BY <2>11 DEF Commit, Purges, Committed
    <3>4. Unique'
      BY <2>11 DEF Commit, Unique, Rivals, Purges, Committed
    <3>5. QED
      BY <3>1, <3>2, <3>3, <3>4
  <2>12. CASE DeadlockDetected(t)
    BY <2>12, RolledBack DEF DeadlockDetected, Abort
  <2>13. QED
    BY <1>1, <2>1, <2>2, <2>3, <2>4, <2>5, <2>6, <2>7, <2>8, <2>9, <2>10, <2>11, <2>12
       DEF Step
<1>2. ASSUME NEW t \in Txs, Abort(t) PROVE RInv'
  BY <1>2, RolledBack DEF Abort
<1>3. ASSUME NEW t \in Txs, Lapse(t) PROVE RInv'
  BY <1>3 DEF Lapse, Inserted, Seen, Purges, Unlocked, Unique, ReceiptUnique, Rivals,
              Twins, Committed, Over
<1>4. CASE UNCHANGED vars
  BY <1>4 DEF vars, Inserted, Seen, Purges, Unlocked, Unique, ReceiptUnique, Rivals,
              Twins, Committed, Over
<1>5. QED
  BY <1>1, <1>2, <1>3, <1>4 DEF Next

-----------------------------------------------------------------------------
(* The theorems *)

\* RInv is an invariant.
THEOREM ReservationInvariance == Spec => []RInv
<1>1. Init => RInv
  BY DEF Init, RInv, TypeOK, Inserted, Seen, Purges, Unlocked, Unique, ReceiptUnique,
         Committed, Over
<1>2. QED
  BY <1>1, Inductive, PTL DEF Spec

\* However the transactions interleave and abort, a payment with a reference is
\* committed once, and one with a nonce alone once within its replay window.
THEOREM PaymentIsCommittedOnce == Spec => []OneReceiptPerPayment
<1>1. RInv => OneReceiptPerPayment
  <2> SUFFICES ASSUME RInv, NEW t \in Committed, NEW u \in Committed, t # u
               PROVE  /\ ~SameReference(t, u)
                      /\ SameNonce(t, u) => t \in lapsed \/ u \in lapsed
    BY DEF OneReceiptPerPayment
  <2> USE DEF RInv, Committed
  <2>1. ~SameReference(t, u)
    BY DEF Inserted, ReceiptUnique, Twins
  <2>2. ASSUME SameNonce(t, u), t \in replay, u \in replay PROVE FALSE
    <3>1. u \in Rivals(t)
      BY <2>2 DEF Rivals
    <3>2. QED
      BY <2>2, <3>1 DEF Unique, Unlocked, Over
  <2>3. QED
    BY <2>1, <2>2 DEF Inserted
<1>2. QED
  BY <1>1, ReservationInvariance, PTL

\* A refusal has a cause: a receipt of the payment, or of the payer, that had
\* been committed, unless the payer's limit is nothing.
THEOREM RefusalsHaveACause == Spec => RefusedForCause
<1> DEFINE Caused == \A t \in Txs : pc[t] # "refused" /\ pc'[t] = "refused" /\ LimitOf[t] > 0 =>
             \E u \in Committed : u \in Rivals(t) \/ PayerOf[u] = PayerOf[t]
<1>1. ASSUME RInv, Next PROVE Caused
  <2> SUFFICES ASSUME NEW t \in Txs, pc[t] # "refused", pc'[t] = "refused", LimitOf[t] > 0
               PROVE  \E u \in Committed : u \in Rivals(t) \/ PayerOf[u] = PayerOf[t]
    OBVIOUS
  <2>1. PICK s \in Txs : Step(s) \/ Abort(s) \/ Lapse(s)
    BY <1>1 DEF Next
  <2>2. ReplayDetected(t) \/ LimitReached(t) \/ ReceiptDuplicate(t)
    <3> USE <1>1, <2>1 DEF RInv, TypeOK, Rollback
    <3>1. CASE Begin(s) \/ Purge(s) \/ DeleteRow(s) \/ Purged(s)
      BY <3>1 DEF Begin, Purge, DeleteRow, Purged
    <3>2. CASE InsertReplay(s) \/ ReadSpend(s) \/ InsertReceipt(s) \/ Commit(s)
      BY <3>2 DEF InsertReplay, ReadSpend, InsertReceipt, Commit
    <3>3. CASE Abort(s) \/ DeadlockDetected(s) \/ Lapse(s)
      BY <3>3 DEF Abort, DeadlockDetected, Lapse
    <3>4. CASE ReplayDetected(s) \/ LimitReached(s) \/ ReceiptDuplicate(s)
      <4>1. s = t
        BY <3>4 DEF ReplayDetected, LimitReached, ReceiptDuplicate
      <4>2. QED
        BY <3>4, <4>1
    <3>5. QED
      BY <3>1, <3>2, <3>3, <3>4 DEF Step
  <2>3. CASE ReplayDetected(t)
    BY <2>3 DEF ReplayDetected, Conflicts
  <2>4. CASE ReceiptDuplicate(t)
    BY <2>4 DEF ReceiptDuplicate, Twins, Rivals
  <2>5. CASE LimitReached(t)
    <3> DEFINE counted == {u \in receipt : PayerOf[u] = PayerOf[t] /\ u \in Committed}
    <3>1. Cardinality(counted) + 1 > LimitOf[t]
      BY <2>5 DEF LimitReached, Spent
    <3>2. counted # {}
      <4>1. Cardinality({}) = 0
        BY FS_EmptySet
      <4>2. LimitOf[t] \in Nat
        OBVIOUS
      <4> HIDE DEF counted
      <4>3. QED
        BY <3>1, <4>1, <4>2
    <3>3. QED
      BY <3>2
  <2>6. QED
    BY <2>2, <2>3, <2>4, <2>5
<1>2. RInv /\ [Next]_vars => [Caused]_vars
  BY <1>1
<1>3. QED
  BY <1>2, ReservationInvariance, PTL DEF Spec, RefusedForCause
=============================================================================
