--------------------------- MODULE PaidCallProofs ---------------------------
(***************************************************************************)
(* Theorems about PaidCall, for any number of calls, keys, payments and    *)
(* payers, with store faults, crashes and replay windows: its invariants,  *)
(* and that it implements IdealBilling.                                    *)
(***************************************************************************)
EXTENDS PaidCallRefinement, TLAPS, FiniteSetTheorems

USE ConstantsAssumption DEF ConstantsAssumption, Goto, Answer

-----------------------------------------------------------------------------
(* The parts of the inductive invariant, one lemma each *)

\* A step keeps every variable in its type.
LEMMA TypeStep == TypeOK /\ Ownership /\ [Next]_vars => TypeOK'
<1> SUFFICES ASSUME TypeOK, Ownership, [Next]_vars PROVE TypeOK'
  OBVIOUS
<1> USE DEF TypeOK, PCs, Replies, Records, NoRecord, Ownership, OwnsItsKey, Owns, Running, Receipted
<1>1. ASSUME NEW c \in Calls, Arrival(c) PROVE TypeOK'
  <2>1. CASE Reject(c)
    BY <2>1 DEF Reject, storeVars
  <2>2. ASSUME NEW k \in Keys, NEW p \in Payloads, OpenKey(c, k, p) PROVE TypeOK'
    BY <2>2 DEF OpenKey, Arrives
  <2>3. ASSUME NEW k \in Keys, NEW p \in Payloads, KeyConflict(c, k, p) PROVE TypeOK'
    BY <2>3 DEF KeyConflict, Arrives, storeVars
  <2>4. ASSUME NEW k \in Keys, NEW p \in Payloads, KeyBusy(c, k, p) PROVE TypeOK'
    BY <2>4 DEF KeyBusy, Arrives, storeVars
  <2>5. ASSUME NEW k \in Keys, NEW p \in Payloads, ServeCached(c, k, p) PROVE TypeOK'
    BY <2>5 DEF ServeCached, Arrives, storeVars
  <2>6. QED
    BY <1>1, <2>1, <2>2, <2>3, <2>4, <2>5 DEF Arrival
<1>2. ASSUME NEW c \in Calls, Proceed(c) PROVE TypeOK'
  <2>1. CASE Refuse(c)
    BY <2>1 DEF Refuse, storeVars
  <2>2. CASE Unverified(c)
    BY <2>2 DEF Unverified, storeVars
  <2>3. CASE Verified(c)
    BY <2>3 DEF Verified, storeVars
  <2>4. CASE ReservePayment(c)
    BY <2>4 DEF ReservePayment, Statuses
  <2>5. CASE RefuseReservation(c)
    BY <2>5 DEF RefuseReservation, storeVars
  <2>6. CASE SettlePayment(c)
    BY <2>6 DEF SettlePayment, storeVars
  <2>7. CASE ToolSucceeds(c)
    BY <2>7 DEF ToolSucceeds, storeVars
  <2>8. CASE ToolFails(c)
    BY <2>8 DEF ToolFails, storeVars
  <2>9. CASE UndoReceipt(c)
    BY <2>9 DEF UndoReceipt, Updated, Refused, Statuses
  <2>10. CASE RecordFailedUsage(c)
    BY <2>10 DEF RecordFailedUsage
  <2>11. CASE RecordUsage(c)
    BY <2>11 DEF RecordUsage
  <2>12. CASE RecordBillingLedger(c)
    BY <2>12 DEF RecordBillingLedger
  <2>13. CASE RecordRequestLog(c)
    BY <2>13 DEF RecordRequestLog
  <2>14. CASE FinishSuccess(c)
    BY <2>14 DEF FinishSuccess, Finalize
  <2>15. CASE FinishFailed(c)
    BY <2>15 DEF FinishFailed, Finalize
  <2>16. CASE StoreFault(c)
    BY <2>16 DEF StoreFault, storeVars
  <2>17. CASE FinalizeFault(c)
    BY <2>17 DEF FinalizeFault, storeVars
  <2>18. CASE ReportByRpc(c)
    BY <2>18 DEF ReportByRpc
  <2>19. CASE ReportByHttp(c)
    BY <2>19 DEF ReportByHttp, storeVars
  <2>20. QED
    BY <1>2, <2>1, <2>2, <2>3, <2>4, <2>5, <2>6, <2>7, <2>8, <2>9, <2>10, <2>11, <2>12, <2>13, <2>14, <2>15, <2>16, <2>17, <2>18, <2>19 DEF Proceed
<1>3. CASE Crash
  BY <1>3 DEF Crash, InFlight, storeVars
<1>4. CASE ListUnsettled
  BY <1>4 DEF ListUnsettled, callVars, storeVars
<1>5. ASSUME NEW c \in Calls, NEW word, Reconcile(c, word) PROVE TypeOK'
  BY <1>5 DEF Reconcile, callVars, Updated, Refused, MapSettlement, Statuses
<1>6. ASSUME NEW p \in Payments, ReplayWindowEnds(p) PROVE TypeOK'
  BY <1>6 DEF ReplayWindowEnds, callVars
<1>7. CASE UNCHANGED vars
  BY <1>7 DEF vars, callVars, storeVars
<1>8. QED
  BY <1>1, <1>2, <1>3, <1>4, <1>5, <1>6, <1>7 DEF Next

\* The owner of a key stays its owner: nobody else can open the key.
LEMMA OwnershipStep == TypeOK /\ Ownership /\ Stages /\ [Next]_vars => Ownership'
<1> SUFFICES ASSUME TypeOK, Ownership, Stages, [Next]_vars PROVE Ownership'
  OBVIOUS
<1> USE DEF TypeOK, Records, NoRecord, Ownership, OwnsItsKey, Owns, Running, Receipted, Stages
<1>1. ASSUME NEW c \in Calls, Arrival(c) PROVE Ownership'
  <2>1. CASE Reject(c)
    <3> SUFFICES ASSUME NEW d \in Calls PROVE OwnsItsKey(d)'
      OBVIOUS
    <3>1. CASE d = c
      BY <2>1, <3>1 DEF Reject, storeVars
    <3>2. CASE d # c
      BY <2>1, <3>2 DEF Reject, storeVars
    <3>3. QED
      BY <3>1, <3>2
  <2>2. ASSUME NEW k \in Keys, NEW p \in Payloads, OpenKey(c, k, p) PROVE Ownership'
    <3> SUFFICES ASSUME NEW d \in Calls PROVE OwnsItsKey(d)'
      OBVIOUS
    <3>1. idem[k] \notin Records
      BY <2>2 DEF OpenKey
    <3>2. idem'[k] = [status |-> "open", payload |-> p, owner |-> c, linked |-> FALSE]
      BY <2>2 DEF OpenKey
    <3>3. CASE d = c
      <4>1. key'[c] = k /\ payload'[c] = p /\ reply'[c] = "none" /\ k \in Keys
        BY <2>2 DEF OpenKey, Arrives
      <4>2. idem'[k] \in Records /\ idem'[k].owner = c /\ idem'[k].payload = p
              /\ idem'[k].status = "open"
        BY <3>2
      <4>3. QED
        BY <3>3, <4>1, <4>2
    <3>4. CASE d # c
      <4>1. Running(d)' \/ d \in Receipted' => Running(d) \/ d \in Receipted
        BY <2>2, <3>4 DEF OpenKey, Arrives
      <4>2. Owns(d) => key[d] # k
        BY <3>1
      <4>3. Owns(d) => idem'[key[d]] = idem[key[d]]
        BY <2>2, <4>2 DEF OpenKey
      <4>4. QED
        BY <2>2, <3>4, <4>1, <4>3 DEF OpenKey, Arrives
    <3>5. QED
      BY <3>3, <3>4
  <2>3. ASSUME NEW k \in Keys, NEW p \in Payloads, KeyConflict(c, k, p) PROVE Ownership'
    BY <2>3 DEF KeyConflict, Arrives, storeVars
  <2>4. ASSUME NEW k \in Keys, NEW p \in Payloads, KeyBusy(c, k, p) PROVE Ownership'
    BY <2>4 DEF KeyBusy, Arrives, storeVars
  <2>5. ASSUME NEW k \in Keys, NEW p \in Payloads, ServeCached(c, k, p) PROVE Ownership'
    BY <2>5 DEF ServeCached, Arrives, storeVars
  <2>6. QED
    BY <1>1, <2>1, <2>2, <2>3, <2>4, <2>5 DEF Arrival
<1>2. ASSUME NEW c \in Calls, Proceed(c) PROVE Ownership'
  <2>1. CASE Refuse(c)
    BY <2>1 DEF Refuse, storeVars
  <2>2. CASE Unverified(c)
    BY <2>2 DEF Unverified, storeVars
  <2>3. CASE Verified(c)
    BY <2>3 DEF Verified, storeVars
  <2>4. CASE ReservePayment(c)
    BY <2>4 DEF ReservePayment
  <2>5. CASE RefuseReservation(c)
    BY <2>5 DEF RefuseReservation, storeVars
  <2>6. CASE SettlePayment(c)
    BY <2>6 DEF SettlePayment, storeVars
  <2>7. CASE ToolSucceeds(c)
    BY <2>7 DEF ToolSucceeds, storeVars
  <2>8. CASE ToolFails(c)
    BY <2>8 DEF ToolFails, storeVars
  <2>9. CASE UndoReceipt(c)
    BY <2>9 DEF UndoReceipt
  <2>10. CASE RecordFailedUsage(c)
    BY <2>10 DEF RecordFailedUsage
  <2>11. CASE RecordUsage(c)
    BY <2>11 DEF RecordUsage
  <2>12. CASE RecordBillingLedger(c)
    BY <2>12 DEF RecordBillingLedger
  <2>13. CASE RecordRequestLog(c)
    BY <2>13 DEF RecordRequestLog
  <2>14. CASE FinishSuccess(c)
    BY <2>14 DEF FinishSuccess, Finalize
  <2>15. CASE FinishFailed(c)
    BY <2>15 DEF FinishFailed, Finalize
  <2>16. CASE StoreFault(c)
    BY <2>16 DEF StoreFault, storeVars
  <2>17. CASE FinalizeFault(c)
    BY <2>17 DEF FinalizeFault, storeVars
  <2>18. CASE ReportByRpc(c)
    BY <2>18 DEF ReportByRpc
  <2>19. CASE ReportByHttp(c)
    BY <2>19 DEF ReportByHttp, storeVars
  <2>20. QED
    BY <1>2, <2>1, <2>2, <2>3, <2>4, <2>5, <2>6, <2>7, <2>8, <2>9, <2>10, <2>11, <2>12, <2>13, <2>14, <2>15, <2>16, <2>17, <2>18, <2>19 DEF Proceed
<1>3. CASE Crash
  BY <1>3 DEF Crash, InFlight, storeVars
<1>4. CASE ListUnsettled
  BY <1>4 DEF ListUnsettled, callVars, storeVars
<1>5. ASSUME NEW c \in Calls, NEW word, Reconcile(c, word) PROVE Ownership'
  BY <1>5 DEF Reconcile, callVars
<1>6. ASSUME NEW p \in Payments, ReplayWindowEnds(p) PROVE Ownership'
  BY <1>6 DEF ReplayWindowEnds, callVars
<1>7. CASE UNCHANGED vars
  BY <1>7 DEF vars, callVars, storeVars
<1>8. QED
  BY <1>1, <1>2, <1>3, <1>4, <1>5, <1>6, <1>7 DEF Next

\* Receipts are created by reservePaidOperation alone, and never deleted.
LEMMA StagesStep == TypeOK /\ Stages /\ [Next]_vars => Stages'
<1> SUFFICES ASSUME TypeOK, Stages, [Next]_vars PROVE Stages'
  OBVIOUS
<1> USE DEF TypeOK, Receipted, Stages
<1>1. ASSUME NEW c \in Calls, Arrival(c) PROVE Stages'
  <2>1. CASE Reject(c)
    BY <2>1 DEF Reject, storeVars
  <2>2. ASSUME NEW k \in Keys, NEW p \in Payloads, OpenKey(c, k, p) PROVE Stages'
    BY <2>2 DEF OpenKey, Arrives
  <2>3. ASSUME NEW k \in Keys, NEW p \in Payloads, KeyConflict(c, k, p) PROVE Stages'
    BY <2>3 DEF KeyConflict, Arrives, storeVars
  <2>4. ASSUME NEW k \in Keys, NEW p \in Payloads, KeyBusy(c, k, p) PROVE Stages'
    BY <2>4 DEF KeyBusy, Arrives, storeVars
  <2>5. ASSUME NEW k \in Keys, NEW p \in Payloads, ServeCached(c, k, p) PROVE Stages'
    BY <2>5 DEF ServeCached, Arrives, storeVars
  <2>6. QED
    BY <1>1, <2>1, <2>2, <2>3, <2>4, <2>5 DEF Arrival
<1>2. ASSUME NEW c \in Calls, Proceed(c) PROVE Stages'
  <2>1. CASE Refuse(c)
    BY <2>1 DEF Refuse, storeVars
  <2>2. CASE Unverified(c)
    BY <2>2 DEF Unverified, storeVars
  <2>3. CASE Verified(c)
    BY <2>3 DEF Verified, storeVars
  <2>4. CASE ReservePayment(c)
    BY <2>4 DEF ReservePayment
  <2>5. CASE RefuseReservation(c)
    BY <2>5 DEF RefuseReservation, storeVars
  <2>6. CASE SettlePayment(c)
    BY <2>6 DEF SettlePayment, storeVars
  <2>7. CASE ToolSucceeds(c)
    BY <2>7 DEF ToolSucceeds, storeVars
  <2>8. CASE ToolFails(c)
    BY <2>8 DEF ToolFails, storeVars
  <2>9. CASE UndoReceipt(c)
    BY <2>9 DEF UndoReceipt, Updated
  <2>10. CASE RecordFailedUsage(c)
    BY <2>10 DEF RecordFailedUsage
  <2>11. CASE RecordUsage(c)
    BY <2>11 DEF RecordUsage
  <2>12. CASE RecordBillingLedger(c)
    BY <2>12 DEF RecordBillingLedger
  <2>13. CASE RecordRequestLog(c)
    BY <2>13 DEF RecordRequestLog
  <2>14. CASE FinishSuccess(c)
    BY <2>14 DEF FinishSuccess
  <2>15. CASE FinishFailed(c)
    BY <2>15 DEF FinishFailed
  <2>16. CASE StoreFault(c)
    BY <2>16 DEF StoreFault, storeVars
  <2>17. CASE FinalizeFault(c)
    BY <2>17 DEF FinalizeFault, storeVars
  <2>18. CASE ReportByRpc(c)
    BY <2>18 DEF ReportByRpc
  <2>19. CASE ReportByHttp(c)
    BY <2>19 DEF ReportByHttp, storeVars
  <2>20. QED
    BY <1>2, <2>1, <2>2, <2>3, <2>4, <2>5, <2>6, <2>7, <2>8, <2>9, <2>10, <2>11, <2>12, <2>13, <2>14, <2>15, <2>16, <2>17, <2>18, <2>19 DEF Proceed
<1>3. CASE Crash
  BY <1>3 DEF Crash, InFlight, storeVars
<1>4. CASE ListUnsettled
  BY <1>4 DEF ListUnsettled, callVars, storeVars
<1>5. ASSUME NEW c \in Calls, NEW word, Reconcile(c, word) PROVE Stages'
  BY <1>5 DEF Reconcile, callVars, Updated, MapSettlement
<1>6. ASSUME NEW p \in Payments, ReplayWindowEnds(p) PROVE Stages'
  BY <1>6 DEF ReplayWindowEnds, callVars
<1>7. CASE UNCHANGED vars
  BY <1>7 DEF vars, callVars, storeVars
<1>8. QED
  BY <1>1, <1>2, <1>3, <1>4, <1>5, <1>6, <1>7 DEF Next

\* A receipt holds its replay row until the window ends, and no call passes the
\* replay guard while one does.
LEMMA ReplayStep == TypeOK /\ Ownership /\ Stages /\ ReplayHeld /\ OneReceiptPerPayment /\ [Next]_vars => (ReplayHeld /\ OneReceiptPerPayment)'
<1> SUFFICES ASSUME TypeOK, Ownership, Stages, ReplayHeld, OneReceiptPerPayment, [Next]_vars PROVE (ReplayHeld /\ OneReceiptPerPayment)'
  OBVIOUS
<1> USE DEF TypeOK, Receipted, ReplayHeld, OneReceiptPerPayment, Payment, SameReference
<1>1. ASSUME NEW c \in Calls, Arrival(c) PROVE (ReplayHeld /\ OneReceiptPerPayment)'
  <2>1. CASE Reject(c)
    BY <2>1 DEF Reject, storeVars, Stages
  <2>2. ASSUME NEW k \in Keys, NEW p \in Payloads, OpenKey(c, k, p) PROVE (ReplayHeld /\ OneReceiptPerPayment)'
    BY <2>2 DEF OpenKey, Arrives, Stages
  <2>3. ASSUME NEW k \in Keys, NEW p \in Payloads, KeyConflict(c, k, p) PROVE (ReplayHeld /\ OneReceiptPerPayment)'
    BY <2>3 DEF KeyConflict, Arrives, storeVars, Stages
  <2>4. ASSUME NEW k \in Keys, NEW p \in Payloads, KeyBusy(c, k, p) PROVE (ReplayHeld /\ OneReceiptPerPayment)'
    BY <2>4 DEF KeyBusy, Arrives, storeVars, Stages
  <2>5. ASSUME NEW k \in Keys, NEW p \in Payloads, ServeCached(c, k, p) PROVE (ReplayHeld /\ OneReceiptPerPayment)'
    BY <2>5 DEF ServeCached, Arrives, storeVars, Stages
  <2>6. QED
    BY <1>1, <2>1, <2>2, <2>3, <2>4, <2>5 DEF Arrival
<1>2. ASSUME NEW c \in Calls, Proceed(c) PROVE (ReplayHeld /\ OneReceiptPerPayment)'
  <2>1. CASE Refuse(c)
    BY <2>1 DEF Refuse, storeVars
  <2>2. CASE Unverified(c)
    BY <2>2 DEF Unverified, storeVars
  <2>3. CASE Verified(c)
    BY <2>3 DEF Verified, storeVars
  <2>4. CASE ReservePayment(c)
    BY <2>4 DEF ReservePayment, Replayed, SameIdentity, Ownership, OwnsItsKey, Owns, Running
  <2>5. CASE RefuseReservation(c)
    BY <2>5 DEF RefuseReservation, storeVars
  <2>6. CASE SettlePayment(c)
    BY <2>6 DEF SettlePayment, storeVars
  <2>7. CASE ToolSucceeds(c)
    BY <2>7 DEF ToolSucceeds, storeVars
  <2>8. CASE ToolFails(c)
    BY <2>8 DEF ToolFails, storeVars
  <2>9. CASE UndoReceipt(c)
    <3>1. \A d \in Calls : receipt'[d] = "none" <=> receipt[d] = "none"
      BY <2>9 DEF UndoReceipt, Updated, Stages
    <3>2. UNCHANGED <<payload, replay, lapsed>>
      BY <2>9 DEF UndoReceipt
    <3>3. QED
      BY <3>1, <3>2
  <2>10. CASE RecordFailedUsage(c)
    BY <2>10 DEF RecordFailedUsage
  <2>11. CASE RecordUsage(c)
    BY <2>11 DEF RecordUsage
  <2>12. CASE RecordBillingLedger(c)
    BY <2>12 DEF RecordBillingLedger
  <2>13. CASE RecordRequestLog(c)
    BY <2>13 DEF RecordRequestLog
  <2>14. CASE FinishSuccess(c)
    BY <2>14 DEF FinishSuccess
  <2>15. CASE FinishFailed(c)
    BY <2>15 DEF FinishFailed
  <2>16. CASE StoreFault(c)
    BY <2>16 DEF StoreFault, storeVars
  <2>17. CASE FinalizeFault(c)
    BY <2>17 DEF FinalizeFault, storeVars
  <2>18. CASE ReportByRpc(c)
    BY <2>18 DEF ReportByRpc
  <2>19. CASE ReportByHttp(c)
    BY <2>19 DEF ReportByHttp, storeVars
  <2>20. QED
    BY <1>2, <2>1, <2>2, <2>3, <2>4, <2>5, <2>6, <2>7, <2>8, <2>9, <2>10, <2>11, <2>12, <2>13, <2>14, <2>15, <2>16, <2>17, <2>18, <2>19 DEF Proceed
<1>3. CASE Crash
  BY <1>3 DEF Crash, InFlight, storeVars
<1>4. CASE ListUnsettled
  BY <1>4 DEF ListUnsettled, callVars, storeVars
<1>5. ASSUME NEW c \in Calls, NEW word, Reconcile(c, word) PROVE (ReplayHeld /\ OneReceiptPerPayment)'
  <2>1. \A d \in Calls : receipt'[d] = "none" <=> receipt[d] = "none"
    BY <1>5 DEF Reconcile, Updated, MapSettlement, Stages
  <2>2. UNCHANGED <<payload, replay, lapsed>>
    BY <1>5 DEF Reconcile, callVars
  <2>3. QED
    BY <2>1, <2>2
<1>6. ASSUME NEW p \in Payments, ReplayWindowEnds(p) PROVE (ReplayHeld /\ OneReceiptPerPayment)'
  BY <1>6 DEF ReplayWindowEnds, callVars
<1>7. CASE UNCHANGED vars
  BY <1>7 DEF vars, callVars, storeVars
<1>8. QED
  BY <1>1, <1>2, <1>3, <1>4, <1>5, <1>6, <1>7 DEF Next

\* Only UndoReceipt fails a receipt.
LEMMA FailedStep == TypeOK /\ FailedIsUndone /\ [Next]_vars => FailedIsUndone'
<1> SUFFICES ASSUME TypeOK, FailedIsUndone, [Next]_vars PROVE FailedIsUndone'
  OBVIOUS
<1> USE DEF TypeOK, FailedIsUndone
<1>1. ASSUME NEW c \in Calls, Arrival(c) PROVE FailedIsUndone'
  <2>1. CASE Reject(c)
    BY <2>1 DEF Reject, storeVars
  <2>2. ASSUME NEW k \in Keys, NEW p \in Payloads, OpenKey(c, k, p) PROVE FailedIsUndone'
    BY <2>2 DEF OpenKey, Arrives
  <2>3. ASSUME NEW k \in Keys, NEW p \in Payloads, KeyConflict(c, k, p) PROVE FailedIsUndone'
    BY <2>3 DEF KeyConflict, Arrives, storeVars
  <2>4. ASSUME NEW k \in Keys, NEW p \in Payloads, KeyBusy(c, k, p) PROVE FailedIsUndone'
    BY <2>4 DEF KeyBusy, Arrives, storeVars
  <2>5. ASSUME NEW k \in Keys, NEW p \in Payloads, ServeCached(c, k, p) PROVE FailedIsUndone'
    BY <2>5 DEF ServeCached, Arrives, storeVars
  <2>6. QED
    BY <1>1, <2>1, <2>2, <2>3, <2>4, <2>5 DEF Arrival
<1>2. ASSUME NEW c \in Calls, Proceed(c) PROVE FailedIsUndone'
  <2>1. CASE Refuse(c)
    BY <2>1 DEF Refuse, storeVars
  <2>2. CASE Unverified(c)
    BY <2>2 DEF Unverified, storeVars
  <2>3. CASE Verified(c)
    BY <2>3 DEF Verified, storeVars
  <2>4. CASE ReservePayment(c)
    BY <2>4 DEF ReservePayment
  <2>5. CASE RefuseReservation(c)
    BY <2>5 DEF RefuseReservation, storeVars
  <2>6. CASE SettlePayment(c)
    BY <2>6 DEF SettlePayment, storeVars
  <2>7. CASE ToolSucceeds(c)
    BY <2>7 DEF ToolSucceeds, storeVars
  <2>8. CASE ToolFails(c)
    BY <2>8 DEF ToolFails, storeVars
  <2>9. CASE UndoReceipt(c)
    BY <2>9 DEF UndoReceipt, Updated, Refused
  <2>10. CASE RecordFailedUsage(c)
    BY <2>10 DEF RecordFailedUsage
  <2>11. CASE RecordUsage(c)
    BY <2>11 DEF RecordUsage
  <2>12. CASE RecordBillingLedger(c)
    BY <2>12 DEF RecordBillingLedger
  <2>13. CASE RecordRequestLog(c)
    BY <2>13 DEF RecordRequestLog
  <2>14. CASE FinishSuccess(c)
    BY <2>14 DEF FinishSuccess
  <2>15. CASE FinishFailed(c)
    BY <2>15 DEF FinishFailed
  <2>16. CASE StoreFault(c)
    BY <2>16 DEF StoreFault, storeVars
  <2>17. CASE FinalizeFault(c)
    BY <2>17 DEF FinalizeFault, storeVars
  <2>18. CASE ReportByRpc(c)
    BY <2>18 DEF ReportByRpc
  <2>19. CASE ReportByHttp(c)
    BY <2>19 DEF ReportByHttp, storeVars
  <2>20. QED
    BY <1>2, <2>1, <2>2, <2>3, <2>4, <2>5, <2>6, <2>7, <2>8, <2>9, <2>10, <2>11, <2>12, <2>13, <2>14, <2>15, <2>16, <2>17, <2>18, <2>19 DEF Proceed
<1>3. CASE Crash
  BY <1>3 DEF Crash, InFlight, storeVars
<1>4. CASE ListUnsettled
  BY <1>4 DEF ListUnsettled, callVars, storeVars
<1>5. ASSUME NEW c \in Calls, NEW word, Reconcile(c, word) PROVE FailedIsUndone'
  BY <1>5 DEF Reconcile, callVars, Updated, Refused, MapSettlement
<1>6. ASSUME NEW p \in Payments, ReplayWindowEnds(p) PROVE FailedIsUndone'
  BY <1>6 DEF ReplayWindowEnds, callVars
<1>7. CASE UNCHANGED vars
  BY <1>7 DEF vars, callVars, storeVars
<1>8. QED
  BY <1>1, <1>2, <1>3, <1>4, <1>5, <1>6, <1>7 DEF Next

\* Some call reserves its payment.
Reserving == \E c \in Calls : ReservePayment(c)

\* No payer has more receipts counted after the step than before, and they keep
\* their payloads.
SpendDoesNotGrow ==
    /\ \A payer \in Payers : (Counted(payer) \ undone)' \subseteq Counted(payer) \ undone
    /\ \A c \in Receipted : payload'[c] = payload[c]

\* Only a reservation adds a receipt to those that count against a payer.
LEMMA CountedStep == TypeOK /\ Stages /\ FailedIsUndone /\ [Next]_vars => Reserving \/ SpendDoesNotGrow
<1> SUFFICES ASSUME TypeOK, Stages, FailedIsUndone, [Next]_vars PROVE Reserving \/ SpendDoesNotGrow
  OBVIOUS
<1> USE DEF TypeOK, Counted, Receipted, Payer, Payment, CountedStatuses, SpendDoesNotGrow
<1>1. ASSUME NEW c \in Calls, Arrival(c) PROVE Reserving \/ SpendDoesNotGrow
  <2>1. CASE Reject(c)
    BY <2>1 DEF Reject, storeVars, Stages
  <2>2. ASSUME NEW k \in Keys, NEW p \in Payloads, OpenKey(c, k, p) PROVE Reserving \/ SpendDoesNotGrow
    BY <2>2 DEF OpenKey, Arrives, Stages
  <2>3. ASSUME NEW k \in Keys, NEW p \in Payloads, KeyConflict(c, k, p) PROVE Reserving \/ SpendDoesNotGrow
    BY <2>3 DEF KeyConflict, Arrives, storeVars, Stages
  <2>4. ASSUME NEW k \in Keys, NEW p \in Payloads, KeyBusy(c, k, p) PROVE Reserving \/ SpendDoesNotGrow
    BY <2>4 DEF KeyBusy, Arrives, storeVars, Stages
  <2>5. ASSUME NEW k \in Keys, NEW p \in Payloads, ServeCached(c, k, p) PROVE Reserving \/ SpendDoesNotGrow
    BY <2>5 DEF ServeCached, Arrives, storeVars, Stages
  <2>6. QED
    BY <1>1, <2>1, <2>2, <2>3, <2>4, <2>5 DEF Arrival
<1>2. ASSUME NEW c \in Calls, Proceed(c) PROVE Reserving \/ SpendDoesNotGrow
  <2>1. CASE Refuse(c)
    BY <2>1 DEF Refuse, storeVars
  <2>2. CASE Unverified(c)
    BY <2>2 DEF Unverified, storeVars
  <2>3. CASE Verified(c)
    BY <2>3 DEF Verified, storeVars
  <2>4. CASE ReservePayment(c)
    BY <2>4 DEF Reserving
  <2>5. CASE RefuseReservation(c)
    BY <2>5 DEF RefuseReservation, storeVars
  <2>6. CASE SettlePayment(c)
    BY <2>6 DEF SettlePayment, storeVars
  <2>7. CASE ToolSucceeds(c)
    BY <2>7 DEF ToolSucceeds, storeVars
  <2>8. CASE ToolFails(c)
    BY <2>8 DEF ToolFails, storeVars
  <2>9. CASE UndoReceipt(c)
    BY <2>9 DEF UndoReceipt, Updated, Refused
  <2>10. CASE RecordFailedUsage(c)
    BY <2>10 DEF RecordFailedUsage
  <2>11. CASE RecordUsage(c)
    BY <2>11 DEF RecordUsage
  <2>12. CASE RecordBillingLedger(c)
    BY <2>12 DEF RecordBillingLedger
  <2>13. CASE RecordRequestLog(c)
    BY <2>13 DEF RecordRequestLog
  <2>14. CASE FinishSuccess(c)
    BY <2>14 DEF FinishSuccess
  <2>15. CASE FinishFailed(c)
    BY <2>15 DEF FinishFailed
  <2>16. CASE StoreFault(c)
    BY <2>16 DEF StoreFault, storeVars
  <2>17. CASE FinalizeFault(c)
    BY <2>17 DEF FinalizeFault, storeVars
  <2>18. CASE ReportByRpc(c)
    BY <2>18 DEF ReportByRpc
  <2>19. CASE ReportByHttp(c)
    BY <2>19 DEF ReportByHttp, storeVars
  <2>20. QED
    BY <1>2, <2>1, <2>2, <2>3, <2>4, <2>5, <2>6, <2>7, <2>8, <2>9, <2>10, <2>11, <2>12, <2>13, <2>14, <2>15, <2>16, <2>17, <2>18, <2>19 DEF Proceed
<1>3. CASE Crash
  BY <1>3 DEF Crash, InFlight, storeVars
<1>4. CASE ListUnsettled
  BY <1>4 DEF ListUnsettled, callVars, storeVars
<1>5. ASSUME NEW c \in Calls, NEW word, Reconcile(c, word) PROVE Reserving \/ SpendDoesNotGrow
  <2>1. MapSettlement(word) \in {"verified", "settled", "reversed"}
    BY DEF MapSettlement
  <2>2. receipt[c] # "none"
    BY <1>5 DEF Reconcile, Stages
  <2>3. receipt'[c] \in CountedStatuses /\ c \notin undone => receipt[c] \in CountedStatuses
    BY <1>5, <2>1, <2>2 DEF Reconcile, Updated, Refused, FailedIsUndone, Statuses
  <2>4. \A d \in Calls : d # c => receipt'[d] = receipt[d]
    BY <1>5 DEF Reconcile
  <2>5. UNCHANGED <<payload, undone>>
    BY <1>5 DEF Reconcile, callVars
  <2>6. \A d \in Calls : receipt'[d] \in CountedStatuses /\ d \notin undone
                        => receipt[d] \in CountedStatuses
    BY <2>3, <2>4
  <2>7. QED
    BY <2>2, <2>5, <2>6
<1>6. ASSUME NEW p \in Payments, ReplayWindowEnds(p) PROVE Reserving \/ SpendDoesNotGrow
  BY <1>6 DEF ReplayWindowEnds, callVars
<1>7. CASE UNCHANGED vars
  BY <1>7 DEF vars, callVars, storeVars
<1>8. QED
  BY <1>1, <1>2, <1>3, <1>4, <1>5, <1>6, <1>7 DEF Next

\* Each stage of executeTool writes its row before the next one starts.
LEMMA BooksStep == TypeOK /\ Stages /\ FailedIsUndone /\ Books /\ [Next]_vars => Books'
<1> SUFFICES ASSUME TypeOK, Stages, FailedIsUndone, Books, [Next]_vars PROVE Books'
  OBVIOUS
<1> USE DEF TypeOK, Books
<1>1. ASSUME NEW c \in Calls, Arrival(c) PROVE Books'
  <2>1. CASE Reject(c)
    BY <2>1 DEF Reject, storeVars
  <2>2. ASSUME NEW k \in Keys, NEW p \in Payloads, OpenKey(c, k, p) PROVE Books'
    BY <2>2 DEF OpenKey, Arrives
  <2>3. ASSUME NEW k \in Keys, NEW p \in Payloads, KeyConflict(c, k, p) PROVE Books'
    BY <2>3 DEF KeyConflict, Arrives, storeVars
  <2>4. ASSUME NEW k \in Keys, NEW p \in Payloads, KeyBusy(c, k, p) PROVE Books'
    BY <2>4 DEF KeyBusy, Arrives, storeVars
  <2>5. ASSUME NEW k \in Keys, NEW p \in Payloads, ServeCached(c, k, p) PROVE Books'
    BY <2>5 DEF ServeCached, Arrives, storeVars
  <2>6. QED
    BY <1>1, <2>1, <2>2, <2>3, <2>4, <2>5 DEF Arrival
<1>2. ASSUME NEW c \in Calls, Proceed(c) PROVE Books'
  <2>1. CASE Refuse(c)
    BY <2>1 DEF Refuse, storeVars
  <2>2. CASE Unverified(c)
    BY <2>2 DEF Unverified, storeVars
  <2>3. CASE Verified(c)
    BY <2>3 DEF Verified, storeVars
  <2>4. CASE ReservePayment(c)
    BY <2>4 DEF ReservePayment
  <2>5. CASE RefuseReservation(c)
    BY <2>5 DEF RefuseReservation, storeVars
  <2>6. CASE SettlePayment(c)
    BY <2>6 DEF SettlePayment, storeVars
  <2>7. CASE ToolSucceeds(c)
    BY <2>7 DEF ToolSucceeds, storeVars
  <2>8. CASE ToolFails(c)
    BY <2>8 DEF ToolFails, storeVars
  <2>9. CASE UndoReceipt(c)
    BY <2>9 DEF UndoReceipt, Updated, Refused
  <2>10. CASE RecordFailedUsage(c)
    BY <2>10 DEF RecordFailedUsage
  <2>11. CASE RecordUsage(c)
    BY <2>11 DEF RecordUsage
  <2>12. CASE RecordBillingLedger(c)
    BY <2>12 DEF RecordBillingLedger
  <2>13. CASE RecordRequestLog(c)
    BY <2>13 DEF RecordRequestLog
  <2>14. CASE FinishSuccess(c)
    BY <2>14 DEF FinishSuccess
  <2>15. CASE FinishFailed(c)
    BY <2>15 DEF FinishFailed
  <2>16. CASE StoreFault(c)
    BY <2>16 DEF StoreFault, storeVars
  <2>17. CASE FinalizeFault(c)
    BY <2>17 DEF FinalizeFault, storeVars
  <2>18. CASE ReportByRpc(c)
    BY <2>18 DEF ReportByRpc
  <2>19. CASE ReportByHttp(c)
    BY <2>19 DEF ReportByHttp, storeVars
  <2>20. QED
    BY <1>2, <2>1, <2>2, <2>3, <2>4, <2>5, <2>6, <2>7, <2>8, <2>9, <2>10, <2>11, <2>12, <2>13, <2>14, <2>15, <2>16, <2>17, <2>18, <2>19 DEF Proceed
<1>3. CASE Crash
  BY <1>3 DEF Crash, InFlight, storeVars
<1>4. CASE ListUnsettled
  BY <1>4 DEF ListUnsettled, callVars, storeVars
<1>5. ASSUME NEW c \in Calls, NEW word, Reconcile(c, word) PROVE Books'
  BY <1>5 DEF Reconcile, callVars, Updated, Refused, MapSettlement
<1>6. ASSUME NEW p \in Payments, ReplayWindowEnds(p) PROVE Books'
  BY <1>6 DEF ReplayWindowEnds, callVars
<1>7. CASE UNCHANGED vars
  BY <1>7 DEF vars, callVars, storeVars
<1>8. QED
  BY <1>1, <1>2, <1>3, <1>4, <1>5, <1>6, <1>7 DEF Next

\* A success is stored once every row is written.
LEMMA StoredStep == TypeOK /\ Ownership /\ Stages /\ Books /\ StoredSuccess /\ [Next]_vars => StoredSuccess'
<1> SUFFICES ASSUME TypeOK, Ownership, Stages, Books, StoredSuccess, [Next]_vars PROVE StoredSuccess'
  OBVIOUS
<1> USE DEF TypeOK, StoredSuccess, Records, NoRecord
<1>1. ASSUME NEW c \in Calls, Arrival(c) PROVE StoredSuccess'
  <2>1. CASE Reject(c)
    BY <2>1 DEF Reject, storeVars
  <2>2. ASSUME NEW k \in Keys, NEW p \in Payloads, OpenKey(c, k, p) PROVE StoredSuccess'
    BY <2>2 DEF OpenKey, Arrives
  <2>3. ASSUME NEW k \in Keys, NEW p \in Payloads, KeyConflict(c, k, p) PROVE StoredSuccess'
    BY <2>3 DEF KeyConflict, Arrives, storeVars
  <2>4. ASSUME NEW k \in Keys, NEW p \in Payloads, KeyBusy(c, k, p) PROVE StoredSuccess'
    BY <2>4 DEF KeyBusy, Arrives, storeVars
  <2>5. ASSUME NEW k \in Keys, NEW p \in Payloads, ServeCached(c, k, p) PROVE StoredSuccess'
    BY <2>5 DEF ServeCached, Arrives, storeVars
  <2>6. QED
    BY <1>1, <2>1, <2>2, <2>3, <2>4, <2>5 DEF Arrival
<1>2. ASSUME NEW c \in Calls, Proceed(c) PROVE StoredSuccess'
  <2>1. CASE Refuse(c)
    BY <2>1 DEF Refuse, storeVars
  <2>2. CASE Unverified(c)
    BY <2>2 DEF Unverified, storeVars
  <2>3. CASE Verified(c)
    BY <2>3 DEF Verified, storeVars
  <2>4. CASE ReservePayment(c)
    BY <2>4 DEF ReservePayment
  <2>5. CASE RefuseReservation(c)
    BY <2>5 DEF RefuseReservation, storeVars
  <2>6. CASE SettlePayment(c)
    BY <2>6 DEF SettlePayment, storeVars
  <2>7. CASE ToolSucceeds(c)
    BY <2>7 DEF ToolSucceeds, storeVars
  <2>8. CASE ToolFails(c)
    BY <2>8 DEF ToolFails, storeVars
  <2>9. CASE UndoReceipt(c)
    BY <2>9 DEF UndoReceipt, Updated, Refused
  <2>10. CASE RecordFailedUsage(c)
    BY <2>10 DEF RecordFailedUsage
  <2>11. CASE RecordUsage(c)
    BY <2>11 DEF RecordUsage
  <2>12. CASE RecordBillingLedger(c)
    BY <2>12 DEF RecordBillingLedger
  <2>13. CASE RecordRequestLog(c)
    BY <2>13 DEF RecordRequestLog
  <2>14. CASE FinishSuccess(c)
    BY <2>14 DEF FinishSuccess, Finalize, Ownership, OwnsItsKey, Owns, Running, Books, Stages
  <2>15. CASE FinishFailed(c)
    BY <2>15 DEF FinishFailed, Finalize, Ownership, OwnsItsKey, Owns, Running
  <2>16. CASE StoreFault(c)
    BY <2>16 DEF StoreFault, storeVars
  <2>17. CASE FinalizeFault(c)
    BY <2>17 DEF FinalizeFault, storeVars
  <2>18. CASE ReportByRpc(c)
    BY <2>18 DEF ReportByRpc
  <2>19. CASE ReportByHttp(c)
    BY <2>19 DEF ReportByHttp, storeVars
  <2>20. QED
    BY <1>2, <2>1, <2>2, <2>3, <2>4, <2>5, <2>6, <2>7, <2>8, <2>9, <2>10, <2>11, <2>12, <2>13, <2>14, <2>15, <2>16, <2>17, <2>18, <2>19 DEF Proceed
<1>3. CASE Crash
  BY <1>3 DEF Crash, InFlight, storeVars
<1>4. CASE ListUnsettled
  BY <1>4 DEF ListUnsettled, callVars, storeVars
<1>5. ASSUME NEW c \in Calls, NEW word, Reconcile(c, word) PROVE StoredSuccess'
  BY <1>5 DEF Reconcile, callVars, Updated, Refused, MapSettlement
<1>6. ASSUME NEW p \in Payments, ReplayWindowEnds(p) PROVE StoredSuccess'
  BY <1>6 DEF ReplayWindowEnds, callVars
<1>7. CASE UNCHANGED vars
  BY <1>7 DEF vars, callVars, storeVars
<1>8. QED
  BY <1>1, <1>2, <1>3, <1>4, <1>5, <1>6, <1>7 DEF Next

\* What a caller was told stays what the record of its key says.
LEMMA ToldStep == TypeOK /\ Ownership /\ Stages /\ ToldTheTruth /\ [Next]_vars => ToldTheTruth'
<1> SUFFICES ASSUME TypeOK, Ownership, Stages, ToldTheTruth, [Next]_vars PROVE ToldTheTruth'
  OBVIOUS
<1> USE DEF TypeOK, ToldTheTruth, Records, NoRecord
<1>1. ASSUME NEW c \in Calls, Arrival(c) PROVE ToldTheTruth'
  <2>1. CASE Reject(c)
    <3>1. \A d \in Calls : reply'[d] \in {"success", "failed"}
            => reply[d] = reply'[d] /\ source[d] = source'[d]
      BY <2>1 DEF Reject
    <3>2. UNCHANGED <<key, payload, idem>>
      BY <2>1 DEF Reject, storeVars
    <3>3. QED
      BY <3>1, <3>2
  <2>2. ASSUME NEW k \in Keys, NEW p \in Payloads, OpenKey(c, k, p) PROVE ToldTheTruth'
    <3>1. reply[c] = "none"
      BY <2>2 DEF OpenKey, Arrives, Stages
    <3>2. ASSUME NEW d \in Calls, reply[d] \in {"success", "failed"}
          PROVE  d # c /\ key[d] # k /\ idem'[key[d]] = idem[key[d]]
      BY <2>2, <3>1, <3>2 DEF OpenKey
    <3>3. \A d \in Calls : d # c => key'[d] = key[d] /\ payload'[d] = payload[d]
      BY <2>2 DEF OpenKey, Arrives
    <3>4. UNCHANGED <<reply, source>>
      BY <2>2 DEF OpenKey
    <3>5. QED
      BY <3>2, <3>3, <3>4
  <2>3. ASSUME NEW k \in Keys, NEW p \in Payloads, KeyConflict(c, k, p) PROVE ToldTheTruth'
    BY <2>3 DEF KeyConflict, Arrives, storeVars
  <2>4. ASSUME NEW k \in Keys, NEW p \in Payloads, KeyBusy(c, k, p) PROVE ToldTheTruth'
    BY <2>4 DEF KeyBusy, Arrives, storeVars
  <2>5. ASSUME NEW k \in Keys, NEW p \in Payloads, ServeCached(c, k, p) PROVE ToldTheTruth'
    BY <2>5 DEF ServeCached, Arrives, storeVars
  <2>6. QED
    BY <1>1, <2>1, <2>2, <2>3, <2>4, <2>5 DEF Arrival
<1>2. ASSUME NEW c \in Calls, Proceed(c) PROVE ToldTheTruth'
  <2>1. CASE Refuse(c)
    BY <2>1 DEF Refuse, storeVars
  <2>2. CASE Unverified(c)
    BY <2>2 DEF Unverified, storeVars
  <2>3. CASE Verified(c)
    BY <2>3 DEF Verified, storeVars
  <2>4. CASE ReservePayment(c)
    BY <2>4 DEF ReservePayment
  <2>5. CASE RefuseReservation(c)
    BY <2>5 DEF RefuseReservation, storeVars
  <2>6. CASE SettlePayment(c)
    BY <2>6 DEF SettlePayment, storeVars
  <2>7. CASE ToolSucceeds(c)
    BY <2>7 DEF ToolSucceeds, storeVars
  <2>8. CASE ToolFails(c)
    BY <2>8 DEF ToolFails, storeVars
  <2>9. CASE UndoReceipt(c)
    BY <2>9 DEF UndoReceipt
  <2>10. CASE RecordFailedUsage(c)
    BY <2>10 DEF RecordFailedUsage
  <2>11. CASE RecordUsage(c)
    BY <2>11 DEF RecordUsage
  <2>12. CASE RecordBillingLedger(c)
    BY <2>12 DEF RecordBillingLedger
  <2>13. CASE RecordRequestLog(c)
    BY <2>13 DEF RecordRequestLog
  <2>14. CASE FinishSuccess(c)
    BY <2>14 DEF FinishSuccess, Finalize, Ownership, OwnsItsKey, Owns, Running
  <2>15. CASE FinishFailed(c)
    BY <2>15 DEF FinishFailed, Finalize, Ownership, OwnsItsKey, Owns, Running
  <2>16. CASE StoreFault(c)
    BY <2>16 DEF StoreFault, storeVars
  <2>17. CASE FinalizeFault(c)
    BY <2>17 DEF FinalizeFault, storeVars, Ownership, OwnsItsKey, Owns, Running
  <2>18. CASE ReportByRpc(c)
    BY <2>18 DEF ReportByRpc
  <2>19. CASE ReportByHttp(c)
    BY <2>19 DEF ReportByHttp, storeVars
  <2>20. QED
    BY <1>2, <2>1, <2>2, <2>3, <2>4, <2>5, <2>6, <2>7, <2>8, <2>9, <2>10, <2>11, <2>12, <2>13, <2>14, <2>15, <2>16, <2>17, <2>18, <2>19 DEF Proceed
<1>3. CASE Crash
  BY <1>3 DEF Crash, InFlight, storeVars
<1>4. CASE ListUnsettled
  BY <1>4 DEF ListUnsettled, callVars, storeVars
<1>5. ASSUME NEW c \in Calls, NEW word, Reconcile(c, word) PROVE ToldTheTruth'
  BY <1>5 DEF Reconcile, callVars
<1>6. ASSUME NEW p \in Payments, ReplayWindowEnds(p) PROVE ToldTheTruth'
  BY <1>6 DEF ReplayWindowEnds, callVars
<1>7. CASE UNCHANGED vars
  BY <1>7 DEF vars, callVars, storeVars
<1>8. QED
  BY <1>1, <1>2, <1>3, <1>4, <1>5, <1>6, <1>7 DEF Next

\* Only the call that holds an open key writes its answer.
LEMMA AnswersStep == TypeOK /\ Ownership /\ [Next]_vars => AnswersKept
<1> SUFFICES ASSUME TypeOK, Ownership, [Next]_vars PROVE AnswersKept
  OBVIOUS
<1> USE DEF TypeOK, Records, NoRecord, AnswersKept
<1>1. ASSUME NEW c \in Calls, Arrival(c) PROVE AnswersKept
  <2>1. CASE Reject(c)
    BY <2>1 DEF Reject, storeVars
  <2>2. ASSUME NEW k \in Keys, NEW p \in Payloads, OpenKey(c, k, p) PROVE AnswersKept
    BY <2>2 DEF OpenKey, Arrives
  <2>3. ASSUME NEW k \in Keys, NEW p \in Payloads, KeyConflict(c, k, p) PROVE AnswersKept
    BY <2>3 DEF KeyConflict, Arrives, storeVars
  <2>4. ASSUME NEW k \in Keys, NEW p \in Payloads, KeyBusy(c, k, p) PROVE AnswersKept
    BY <2>4 DEF KeyBusy, Arrives, storeVars
  <2>5. ASSUME NEW k \in Keys, NEW p \in Payloads, ServeCached(c, k, p) PROVE AnswersKept
    BY <2>5 DEF ServeCached, Arrives, storeVars
  <2>6. QED
    BY <1>1, <2>1, <2>2, <2>3, <2>4, <2>5 DEF Arrival
<1>2. ASSUME NEW c \in Calls, Proceed(c) PROVE AnswersKept
  <2>1. CASE Refuse(c)
    BY <2>1 DEF Refuse, storeVars
  <2>2. CASE Unverified(c)
    BY <2>2 DEF Unverified, storeVars
  <2>3. CASE Verified(c)
    BY <2>3 DEF Verified, storeVars
  <2>4. CASE ReservePayment(c)
    BY <2>4 DEF ReservePayment
  <2>5. CASE RefuseReservation(c)
    BY <2>5 DEF RefuseReservation, storeVars
  <2>6. CASE SettlePayment(c)
    BY <2>6 DEF SettlePayment, storeVars
  <2>7. CASE ToolSucceeds(c)
    BY <2>7 DEF ToolSucceeds, storeVars
  <2>8. CASE ToolFails(c)
    BY <2>8 DEF ToolFails, storeVars
  <2>9. CASE UndoReceipt(c)
    BY <2>9 DEF UndoReceipt
  <2>10. CASE RecordFailedUsage(c)
    BY <2>10 DEF RecordFailedUsage
  <2>11. CASE RecordUsage(c)
    BY <2>11 DEF RecordUsage
  <2>12. CASE RecordBillingLedger(c)
    BY <2>12 DEF RecordBillingLedger
  <2>13. CASE RecordRequestLog(c)
    BY <2>13 DEF RecordRequestLog
  <2>14. CASE FinishSuccess(c)
    BY <2>14 DEF FinishSuccess, Finalize, Ownership, OwnsItsKey, Owns, Running
  <2>15. CASE FinishFailed(c)
    BY <2>15 DEF FinishFailed, Finalize, Ownership, OwnsItsKey, Owns, Running
  <2>16. CASE StoreFault(c)
    BY <2>16 DEF StoreFault, storeVars
  <2>17. CASE FinalizeFault(c)
    BY <2>17 DEF FinalizeFault, storeVars
  <2>18. CASE ReportByRpc(c)
    BY <2>18 DEF ReportByRpc
  <2>19. CASE ReportByHttp(c)
    BY <2>19 DEF ReportByHttp, storeVars
  <2>20. QED
    BY <1>2, <2>1, <2>2, <2>3, <2>4, <2>5, <2>6, <2>7, <2>8, <2>9, <2>10, <2>11, <2>12, <2>13, <2>14, <2>15, <2>16, <2>17, <2>18, <2>19 DEF Proceed
<1>3. CASE Crash
  BY <1>3 DEF Crash, InFlight, storeVars
<1>4. CASE ListUnsettled
  BY <1>4 DEF ListUnsettled, callVars, storeVars
<1>5. ASSUME NEW c \in Calls, NEW word, Reconcile(c, word) PROVE AnswersKept
  BY <1>5 DEF Reconcile, callVars
<1>6. ASSUME NEW p \in Payments, ReplayWindowEnds(p) PROVE AnswersKept
  BY <1>6 DEF ReplayWindowEnds, callVars
<1>7. CASE UNCHANGED vars
  BY <1>7 DEF vars, callVars, storeVars
<1>8. QED
  BY <1>1, <1>2, <1>3, <1>4, <1>5, <1>6, <1>7 DEF Next

\* A stale reconciliation, and the undoing of a failed call, pass through the
\* guards of updateReceiptSettlement.
LEMMA AdvanceStep == TypeOK /\ Stages /\ [Next]_vars => ReceiptsAdvance
<1> SUFFICES ASSUME TypeOK, Stages, [Next]_vars PROVE ReceiptsAdvance
  OBVIOUS
<1> USE DEF TypeOK, Receipted, ReceiptsAdvance
<1>1. ASSUME NEW c \in Calls, Arrival(c) PROVE ReceiptsAdvance
  <2>1. CASE Reject(c)
    BY <2>1 DEF Reject, storeVars
  <2>2. ASSUME NEW k \in Keys, NEW p \in Payloads, OpenKey(c, k, p) PROVE ReceiptsAdvance
    BY <2>2 DEF OpenKey, Arrives
  <2>3. ASSUME NEW k \in Keys, NEW p \in Payloads, KeyConflict(c, k, p) PROVE ReceiptsAdvance
    BY <2>3 DEF KeyConflict, Arrives, storeVars
  <2>4. ASSUME NEW k \in Keys, NEW p \in Payloads, KeyBusy(c, k, p) PROVE ReceiptsAdvance
    BY <2>4 DEF KeyBusy, Arrives, storeVars
  <2>5. ASSUME NEW k \in Keys, NEW p \in Payloads, ServeCached(c, k, p) PROVE ReceiptsAdvance
    BY <2>5 DEF ServeCached, Arrives, storeVars
  <2>6. QED
    BY <1>1, <2>1, <2>2, <2>3, <2>4, <2>5 DEF Arrival
<1>2. ASSUME NEW c \in Calls, Proceed(c) PROVE ReceiptsAdvance
  <2>1. CASE Refuse(c)
    BY <2>1 DEF Refuse, storeVars
  <2>2. CASE Unverified(c)
    BY <2>2 DEF Unverified, storeVars
  <2>3. CASE Verified(c)
    BY <2>3 DEF Verified, storeVars
  <2>4. CASE ReservePayment(c)
    BY <2>4 DEF ReservePayment, Stages
  <2>5. CASE RefuseReservation(c)
    BY <2>5 DEF RefuseReservation, storeVars
  <2>6. CASE SettlePayment(c)
    BY <2>6 DEF SettlePayment, storeVars
  <2>7. CASE ToolSucceeds(c)
    BY <2>7 DEF ToolSucceeds, storeVars
  <2>8. CASE ToolFails(c)
    BY <2>8 DEF ToolFails, storeVars
  <2>9. CASE UndoReceipt(c)
    BY <2>9 DEF UndoReceipt, Updated, Refused
  <2>10. CASE RecordFailedUsage(c)
    BY <2>10 DEF RecordFailedUsage
  <2>11. CASE RecordUsage(c)
    BY <2>11 DEF RecordUsage
  <2>12. CASE RecordBillingLedger(c)
    BY <2>12 DEF RecordBillingLedger
  <2>13. CASE RecordRequestLog(c)
    BY <2>13 DEF RecordRequestLog
  <2>14. CASE FinishSuccess(c)
    BY <2>14 DEF FinishSuccess
  <2>15. CASE FinishFailed(c)
    BY <2>15 DEF FinishFailed
  <2>16. CASE StoreFault(c)
    BY <2>16 DEF StoreFault, storeVars
  <2>17. CASE FinalizeFault(c)
    BY <2>17 DEF FinalizeFault, storeVars
  <2>18. CASE ReportByRpc(c)
    BY <2>18 DEF ReportByRpc
  <2>19. CASE ReportByHttp(c)
    BY <2>19 DEF ReportByHttp, storeVars
  <2>20. QED
    BY <1>2, <2>1, <2>2, <2>3, <2>4, <2>5, <2>6, <2>7, <2>8, <2>9, <2>10, <2>11, <2>12, <2>13, <2>14, <2>15, <2>16, <2>17, <2>18, <2>19 DEF Proceed
<1>3. CASE Crash
  BY <1>3 DEF Crash, InFlight, storeVars
<1>4. CASE ListUnsettled
  BY <1>4 DEF ListUnsettled, callVars, storeVars
<1>5. ASSUME NEW c \in Calls, NEW word, Reconcile(c, word) PROVE ReceiptsAdvance
  BY <1>5 DEF Reconcile, callVars, Updated, Refused, MapSettlement
<1>6. ASSUME NEW p \in Payments, ReplayWindowEnds(p) PROVE ReceiptsAdvance
  BY <1>6 DEF ReplayWindowEnds, callVars
<1>7. CASE UNCHANGED vars
  BY <1>7 DEF vars, callVars, storeVars
<1>8. QED
  BY <1>1, <1>2, <1>3, <1>4, <1>5, <1>6, <1>7 DEF Next

-----------------------------------------------------------------------------
(* The spend limit *)

\* A reservation that passes the limit check keeps every set of counted receipts
\* allowed: one without c was a set of counted receipts before, and one with c is
\* no larger than c's request allows.
LEMMA ReservationWithinLimit ==
    ASSUME TypeOK, SpendWithinLimit, Ownership, NEW c \in Calls, ReservePayment(c),
           NEW payer \in Payers,
           NEW S \in SUBSET (Counted(payer) \ undone)', S # {}
    PROVE  Allowed(S)'
<1> DEFINE Now == Counted(payer)
<1>1. IsFiniteSet(Now)
  BY CallsAssumption, FS_Subset DEF Counted, Receipted
<1>2. S \subseteq (Now \cup {c}) \ undone
  BY DEF TypeOK, ReservePayment, Counted, Receipted, Payer, Payment
<1>3. payload' = payload
  BY DEF ReservePayment
<1>4. CASE c \in S
  <2>1. payer = Payer(c)
    BY <1>4 DEF TypeOK, ReservePayment, Counted, Receipted, Payer, Payment
  <2>2. Cardinality(Now) + 1 <= LimitOf[payload[c]]
    <3>1. ~(Cardinality(Counted(Payer(c))) + 1 > LimitOf[payload[c]])
      BY DEF ReservePayment, OverLimit
    <3>2. Cardinality(Now) \in Nat /\ Now = Counted(Payer(c))
      BY <1>1, <2>1, FS_CardinalityType
    <3>3. LimitOf[payload[c]] \in Nat
      BY DEF Ownership, OwnsItsKey, Owns, Running, ReservePayment
    <3>4. QED
      BY <3>1, <3>2, <3>3
  <2>3. /\ IsFiniteSet(Now \cup {c})
        /\ Cardinality(Now \cup {c})
             = IF c \in Now THEN Cardinality(Now) ELSE Cardinality(Now) + 1
    BY <1>1, FS_AddElement
  <2>4. Cardinality(S) <= Cardinality(Now \cup {c}) /\ Cardinality(S) \in Nat
    BY <1>2, <2>3, FS_Subset, FS_CardinalityType
  <2>5. Cardinality(Now) \in Nat /\ LimitOf[payload[c]] \in Nat
    BY <1>1, FS_CardinalityType DEF Ownership, OwnsItsKey, Owns, Running, ReservePayment
  <2>6. Cardinality(S) <= LimitOf[payload[c]]
    BY <2>2, <2>3, <2>4, <2>5
  <2>7. QED
    BY <1>3, <1>4, <2>6 DEF Allowed
<1>5. CASE c \notin S
  <2>1. S \subseteq Now \ undone
    BY <1>2, <1>5
  <2>2. Allowed(S)
    BY <2>1 DEF SpendWithinLimit
  <2>3. QED
    BY <1>3, <2>2 DEF Allowed
<1>6. QED
  BY <1>4, <1>5

\* No step takes a payer past its limit.
LEMMA SpendStep ==
    TypeOK /\ Ownership /\ Stages /\ FailedIsUndone /\ SpendWithinLimit /\ [Next]_vars
        => SpendWithinLimit'
<1> SUFFICES ASSUME TypeOK, Ownership, Stages, FailedIsUndone, SpendWithinLimit,
                    [Next]_vars, NEW payer \in Payers,
                    NEW S \in SUBSET (Counted(payer) \ undone)', S # {}
             PROVE  Allowed(S)'
  BY DEF SpendWithinLimit
<1>1. CASE Reserving
  BY <1>1, ReservationWithinLimit DEF Reserving
<1>2. CASE SpendDoesNotGrow
  <2>1. S \subseteq Counted(payer) \ undone
    BY <1>2 DEF SpendDoesNotGrow
  <2>2. Allowed(S)
    BY <2>1 DEF SpendWithinLimit
  <2>3. \A d \in S : payload'[d] = payload[d]
    BY <1>2, <2>1 DEF SpendDoesNotGrow, Counted
  <2>4. QED
    BY <2>2, <2>3 DEF Allowed
<1>3. QED
  BY <1>1, <1>2, CountedStep

-----------------------------------------------------------------------------
(* The inductive invariant *)

\* It holds of a process that starts on empty tables.
LEMMA Initially == Init => IInv
<1> SUFFICES ASSUME Init PROVE IInv
  OBVIOUS
<1>1. TypeOK
  BY DEF Init, TypeOK, PCs, Replies
<1>2. Receipted = {}
  BY DEF Init, Receipted
<1>3. Ownership /\ Stages
  BY <1>2 DEF Init, Ownership, OwnsItsKey, Running, Stages
<1>4. ReplayHeld /\ OneReceiptPerPayment
  BY <1>2 DEF ReplayHeld, OneReceiptPerPayment
<1>5. SpendWithinLimit
  BY <1>2 DEF SpendWithinLimit, Counted
<1>6. FailedIsUndone /\ Books
  BY DEF Init, FailedIsUndone, Books
<1>7. StoredSuccess /\ ToldTheTruth
  BY DEF Init, StoredSuccess, ToldTheTruth, NoRecord
<1>8. QED
  BY <1>1, <1>3, <1>4, <1>5, <1>6, <1>7 DEF IInv

\* Every step of every actor preserves it.
LEMMA Inductive == IInv /\ [Next]_vars => IInv'
<1> SUFFICES ASSUME IInv, [Next]_vars PROVE IInv'
  OBVIOUS
<1> USE DEF IInv
<1>1. TypeOK' /\ Ownership' /\ Stages'
  BY TypeStep, OwnershipStep, StagesStep
<1>2. ReplayHeld' /\ OneReceiptPerPayment'
  BY ReplayStep
<1>3. FailedIsUndone' /\ SpendWithinLimit'
  BY FailedStep, SpendStep
<1>4. Books' /\ StoredSuccess' /\ ToldTheTruth'
  BY BooksStep, StoredStep, ToldStep
<1>5. QED
  BY <1>1, <1>2, <1>3, <1>4

\* Every reachable state satisfies the inductive invariant.
THEOREM Invariance == Spec => []IInv
<1>1. QED
  BY Initially, Inductive, PTL DEF Spec

-----------------------------------------------------------------------------
(* What follows for the callers and payers *)

\* The tables and the state of every call keep their types.
THEOREM Typing == Spec => []TypeOK
<1>1. IInv => TypeOK
  BY DEF IInv
<1>2. QED
  BY <1>1, Invariance, PTL

\* However many calls race or retry under one idempotency key, at most one of
\* them creates a receipt.
THEOREM KeyPaysOnce == Spec => []OneReceiptPerKey
<1>1. IInv => OneReceiptPerKey
  BY DEF IInv, Ownership, OwnsItsKey, Owns, Receipted, OneReceiptPerKey
<1>2. QED
  BY <1>1, Invariance, PTL

\* A payment authorisation buys at most one call while its replay row lives, and
\* a verifier reference buys one call for good.
THEOREM PaymentBuysOneCall == Spec => []OneReceiptPerPayment
<1>1. IInv => OneReceiptPerPayment
  BY DEF IInv
<1>2. QED
  BY <1>1, Invariance, PTL

\* Concurrent calls never take a payer past the limit their requests come with.
THEOREM LimitHolds == Spec => []SpendWithinLimit
<1>1. IInv => SpendWithinLimit
  BY DEF IInv
<1>2. QED
  BY <1>1, Invariance, PTL

\* Nobody is told "success" without the receipt and the rows of the execution.
THEOREM SuccessHasItsBooks == Spec => []SuccessIsBooked
<1>1. ASSUME IInv PROVE SuccessIsBooked
  <2> SUFFICES ASSUME NEW c \in Calls, reply[c] = "success"
               PROVE  LET d == source[c] IN
                        /\ d \in Receipted /\ receipt[d] # "failed"
                        /\ usage[d] = "accepted"
                        /\ d \in ledger \cap logged
                        /\ payload[d] = payload[c]
    BY DEF SuccessIsBooked
  <2> DEFINE d == source[c]
             r == idem[key[c]]
  <2>1. /\ key[c] \in Keys /\ r \in Records /\ r.owner = d
        /\ r.payload = payload[c] /\ r.status = "success"
    BY <1>1 DEF IInv, ToldTheTruth
  <2>2. d \in Calls
    BY <2>1 DEF Records
  <2>3. /\ key[d] = key[c] /\ receipt[d] \notin {"none", "failed"}
        /\ usage[d] = "accepted" /\ d \in ledger \cap logged
    BY <1>1, <2>1 DEF IInv, StoredSuccess
  <2>4. d \in Receipted
    BY <2>2, <2>3 DEF Receipted
  <2>5. payload[d] = payload[c]
    BY <1>1, <2>1, <2>2, <2>3, <2>4 DEF IInv, Ownership, OwnsItsKey, Owns
  <2>6. QED
    BY <2>3, <2>4, <2>5
<1>2. QED
  BY <1>1, Invariance, PTL

\* Callers of one key that learn how it ended learn the same.
THEOREM KeyAnswersAlike == Spec => []SameKeySameAnswer
<1>1. IInv => SameKeySameAnswer
  BY DEF IInv, ToldTheTruth, SameKeySameAnswer
<1>2. QED
  BY <1>1, Invariance, PTL

\* A stored answer is never overwritten, not even by a late or a second owner.
THEOREM AnswersStay == Spec => AnswersAreFinal
<1>1. IInv /\ [Next]_vars => [AnswersKept]_vars
  BY AnswersStep DEF IInv
<1>2. QED
  BY <1>1, Invariance, PTL DEF Spec, AnswersAreFinal

\* No interleaving of reconciliation and calls takes a receipt backwards.
THEOREM ReceiptsOnlyAdvance == Spec => SettlementOnlyAdvances
<1>1. IInv /\ [Next]_vars => [ReceiptsAdvance]_vars
  BY AdvanceStep DEF IInv
<1>2. QED
  BY <1>1, Invariance, PTL DEF Spec, SettlementOnlyAdvances

\* Whoever holds a key has arrived.
Opened == \A k \in Keys : idem[k] # NoRecord => pc[idem[k].owner] # "idle"

\* A call that is about to fail, or was told it did, has no provisional receipt.
Released ==
    \A c \in Calls : pc[c] \in {"undone", "fail"} \/ (reply[c] = "failed" /\ source[c] = c) =>
        receipt[c] # "verified"

\* A step of one call that leaves the receipts alone, and does not make it fail.
LEMMA ReleasedByOthers ==
    ASSUME TypeOK, Opened, Released, NEW c \in Calls, UNCHANGED <<receipt, idem>>,
           \A d \in Calls \ {c} : pc'[d] = pc[d] /\ reply'[d] = reply[d] /\ source'[d] = source[d],
           pc'[c] # "idle",
           pc'[c] \in {"undone", "fail"} \/ (reply'[c] = "failed" /\ source'[c] = c) =>
              \/ pc[c] \in {"undone", "fail"} \/ (reply[c] = "failed" /\ source[c] = c)
              \/ receipt[c] # "verified"
    PROVE  Opened' /\ Released'
<1>1. Opened'
  BY DEF Opened, TypeOK, Records, NoRecord
<1>2. ASSUME NEW d \in Calls, pc'[d] \in {"undone", "fail"} \/ (reply'[d] = "failed" /\ source'[d] = d)
      PROVE  receipt'[d] # "verified"
  <2>1. CASE d = c
    BY <1>2, <2>1 DEF Released
  <2>2. CASE d # c
    BY <1>2, <2>2 DEF Released
  <2>3. QED
    BY <2>1, <2>2
<1>3. QED
  BY <1>1, <1>2 DEF Released

\* While the store works, a call that fails has had its receipt marked.
LEMMA ReleasedStep ==
    ASSUME ~ StoreFaults, TypeOK, Ownership, Stages, Opened, Released, [Next]_vars
    PROVE  Opened' /\ Released'
<1> USE DEF TypeOK
<1>1. ASSUME NEW c \in Calls, Arrival(c) PROVE Opened' /\ Released'
  <2>1. CASE Reject(c)
    <3>1. reply'[c] # "failed" /\ pc'[c] = "report"
      BY <2>1 DEF Reject
    <3>2. QED
      BY <2>1, <3>1, ReleasedByOthers DEF Reject, storeVars
  <2>2. ASSUME NEW k \in Keys, NEW p \in Payloads, OpenKey(c, k, p) PROVE Opened' /\ Released'
    <3>1. Opened'
      BY <2>2 DEF OpenKey, Arrives, Opened, Records, NoRecord
    <3>2. pc'[c] = "admit" /\ reply'[c] = "none" /\ UNCHANGED <<reply, source, receipt>>
          /\ \A d \in Calls \ {c} : pc'[d] = pc[d]
      BY <2>2 DEF OpenKey, Arrives, Stages
    <3>3. Released'
      BY <3>2 DEF Released
    <3>4. QED
      BY <3>1, <3>3
  <2>3. ASSUME NEW k \in Keys, NEW p \in Payloads, KeyConflict(c, k, p) \/ KeyBusy(c, k, p)
        PROVE  Opened' /\ Released'
    <3>1. reply'[c] # "failed" /\ pc'[c] = "report"
      BY <2>3 DEF KeyConflict, KeyBusy
    <3>2. QED
      BY <2>3, <3>1, ReleasedByOthers DEF KeyConflict, KeyBusy, storeVars
  <2>4. ASSUME NEW k \in Keys, NEW p \in Payloads, ServeCached(c, k, p) PROVE Opened' /\ Released'
    <3>1. idem[k].owner # c
      BY <2>4 DEF ServeCached, Arrives, Opened, NoRecord
    <3>2. source'[c] # c /\ pc'[c] \in {"done", "report"}
      BY <2>4, <3>1 DEF ServeCached
    <3>3. QED
      BY <2>4, <3>2, ReleasedByOthers DEF ServeCached, storeVars
  <2>5. QED
    BY <1>1, <2>1, <2>2, <2>3, <2>4 DEF Arrival
<1>2. ASSUME NEW c \in Calls, Proceed(c) PROVE Opened' /\ Released'
  <2>1. CASE Refuse(c)
    <3>1. reply'[c] # "failed" /\ pc'[c] = "report"
      BY <2>1 DEF Refuse
    <3>2. QED
      BY <2>1, <3>1, ReleasedByOthers DEF Refuse, storeVars
  <2>2. CASE Unverified(c) \/ RefuseReservation(c)
    <3>1. receipt[c] = "none" /\ pc'[c] = "fail"
      BY <2>2 DEF Unverified, RefuseReservation, Stages
    <3>2. QED
      BY <2>2, <3>1, ReleasedByOthers DEF Unverified, RefuseReservation, storeVars
  <2>3. CASE Verified(c) \/ SettlePayment(c) \/ ToolSucceeds(c) \/ ToolFails(c)
    <3>1. pc'[c] \notin {"idle", "undone", "fail"} /\ UNCHANGED <<reply, source, receipt, idem>>
          /\ \A d \in Calls \ {c} : pc'[d] = pc[d]
      BY <2>3 DEF Verified, SettlePayment, ToolSucceeds, ToolFails, storeVars
    <3>2. QED
      BY <3>1, ReleasedByOthers
  <2>4. CASE ReservePayment(c)
    <3>1. /\ pc[c] = "reserve" /\ reply[c] = "none"
          /\ pc'[c] = "settle" /\ UNCHANGED <<reply, source, idem>>
          /\ \A d \in Calls \ {c} : pc'[d] = pc[d] /\ receipt'[d] = receipt[d]
      BY <2>4 DEF ReservePayment, Ownership, OwnsItsKey, Running
    <3>2. Opened'
      BY <3>1 DEF Opened, Records, NoRecord
    <3>3. QED
      BY <3>1, <3>2 DEF Released
  <2>5. CASE UndoReceipt(c)
    <3>1. /\ pc'[c] = "undone" /\ UNCHANGED <<reply, source, idem>>
          /\ receipt'[c] = Updated(receipt[c], "failed")
          /\ \A d \in Calls \ {c} : pc'[d] = pc[d] /\ receipt'[d] = receipt[d]
      BY <2>5 DEF UndoReceipt
    <3>2. receipt'[c] # "verified"
      BY <3>1 DEF Updated, Refused
    <3>3. Opened'
      BY <3>1 DEF Opened, Records, NoRecord
    <3>4. QED
      BY <3>1, <3>2, <3>3 DEF Released
  <2>6. CASE RecordFailedUsage(c)
    BY <2>6, ReleasedByOthers DEF RecordFailedUsage
  <2>7. CASE RecordUsage(c) \/ RecordBillingLedger(c) \/ RecordRequestLog(c)
    <3>1. pc'[c] \notin {"idle", "undone", "fail"} /\ UNCHANGED <<reply, source, receipt, idem>>
          /\ \A d \in Calls \ {c} : pc'[d] = pc[d]
      BY <2>7 DEF RecordUsage, RecordBillingLedger, RecordRequestLog
    <3>2. QED
      BY <3>1, ReleasedByOthers
  <2>8. CASE FinishSuccess(c) \/ FinishFailed(c)
    <3>1. PICK kind \in {"success", "failed"} :
             /\ Finalize(c, kind) /\ Answer(c, kind, c) /\ UNCHANGED receipt
             /\ kind = "failed" => pc[c] = "fail"
             /\ pc'[c] \in {"done", "report"} /\ \A d \in Calls \ {c} : pc'[d] = pc[d]
             /\ Running(c)
      BY <2>8 DEF FinishSuccess, FinishFailed, Running
    <3>2. Opened'
      <4>1. \A k \in Keys : idem'[k] # NoRecord =>
               idem[k] # NoRecord /\ idem'[k].owner = idem[k].owner /\ idem[k].owner \in Calls
        BY <3>1 DEF Finalize, Ownership, OwnsItsKey, Owns, Records, NoRecord
      <4>2. QED
        BY <3>1, <4>1 DEF Opened
    <3>3. Released'
      BY <3>1 DEF Released
    <3>4. QED
      BY <3>2, <3>3
  <2>9. CASE StoreFault(c) \/ FinalizeFault(c)
    BY <2>9 DEF StoreFault, FinalizeFault
  <2>10. CASE ReportByRpc(c) \/ ReportByHttp(c)
    <3>1. pc'[c] = "done" /\ UNCHANGED <<reply, source, receipt, idem>>
          /\ \A d \in Calls \ {c} : pc'[d] = pc[d]
      BY <2>10 DEF ReportByRpc, ReportByHttp, storeVars
    <3>2. QED
      BY <3>1, ReleasedByOthers
  <2>11. QED
    BY <1>2, <2>1, <2>2, <2>3, <2>4, <2>5, <2>6, <2>7, <2>8, <2>9, <2>10 DEF Proceed
<1>3. CASE Crash
  <2>1. \A c \in Calls : pc'[c] \in {pc[c], "dead"}
    BY <1>3 DEF Crash
  <2>2. Opened'
    BY <1>3, <2>1 DEF Crash, storeVars, Opened, Records, NoRecord
  <2>3. Released'
    BY <1>3, <2>1 DEF Crash, storeVars, Released
  <2>4. QED
    BY <2>2, <2>3
<1>4. CASE ListUnsettled \/ UNCHANGED vars
  BY <1>4 DEF ListUnsettled, vars, callVars, storeVars, Opened, Released
<1>5. ASSUME NEW c \in Calls, NEW word, Reconcile(c, word) PROVE Opened' /\ Released'
  <2>1. c \in Receipted
    BY <1>5 DEF Reconcile, Stages
  <2>2. receipt'[c] = "verified" => receipt[c] = "verified"
    BY <1>5, <2>1 DEF Reconcile, Updated, Refused, Receipted, Statuses
  <2>3. \A d \in Calls \ {c} : receipt'[d] = receipt[d]
    BY <1>5 DEF Reconcile
  <2>4. UNCHANGED <<pc, reply, source, idem>>
    BY <1>5 DEF Reconcile, callVars
  <2>5. QED
    BY <2>2, <2>3, <2>4 DEF Opened, Released
<1>6. ASSUME NEW p \in Payments, ReplayWindowEnds(p) PROVE Opened' /\ Released'
  BY <1>6 DEF ReplayWindowEnds, callVars, Opened, Released
<1>7. QED
  BY <1>1, <1>2, <1>3, <1>4, <1>5, <1>6 DEF Next

\* While the store works, a caller told that its call failed has no receipt left
\* that counts against it for want of a settlement.
THEOREM FailuresAreReleased == ASSUME ~ StoreFaults PROVE Spec => []FailedCallIsReleased
<1>1. Init => Opened /\ Released
  BY DEF Init, Opened, Released
<1>2. IInv /\ Opened /\ Released /\ [Next]_vars => Opened' /\ Released'
  BY ReleasedStep DEF IInv
<1>3. Released => FailedCallIsReleased
  BY DEF Released, FailedCallIsReleased
<1>4. QED
  BY <1>1, <1>2, <1>3, Invariance, PTL DEF Spec

-----------------------------------------------------------------------------
(* The refinement: a step of PaidCall is a charge (ReservePayment), a move *)
(* of a charge (UndoReceipt, Reconcile), an answer (FinishSuccess,         *)
(* FinishFailed) or nothing to IdealBilling.                               *)

\* The tables as IdealBilling sees them.
Charges == [c \in Calls |-> ChargeOf(c)]
Answers == [k \in Keys |-> AnswerOf(k)]
Charged == {c \in Calls : Charges[c] # None}

-----------------------------------------------------------------------------
(* Lemmas *)

\* Who has a receipt is charged, for its own key and payer, and nobody else.
LEMMA ChargedIsReceipted ==
    ASSUME IInv
    PROVE  /\ Charged = Receipted
           /\ \A c \in Receipted :
                 /\ Charges[c].key = key[c] /\ Charges[c].payer = Payer(c)
                 /\ Charges[c].status = receipt[c]
<1>1. ASSUME NEW c \in Receipted PROVE ChargeOf(c) # None
  <2>1. key[c] \in Keys /\ payload[c] \in Payloads /\ receipt[c] \in Statuses
    BY DEF IInv, TypeOK, Ownership, OwnsItsKey, Owns, Receipted
  <2>2. Payer(c) \in Payers /\ LimitOf[payload[c]] \in Nat
    BY <2>1 DEF Payer, Payment
  <2>3. ChargeOf(c) = [key |-> key[c], payer |-> Payer(c),
                       limit |-> LimitOf[payload[c]], status |-> receipt[c]]
    BY DEF ChargeOf, Receipted
  <2>4. QED
    BY <2>1, <2>2, <2>3, NoneAssumption
<1>2. \A c \in Calls : c \notin Receipted => ChargeOf(c) = None
  BY DEF ChargeOf, Receipted
<1>3. Charged = {c \in Calls : ChargeOf(c) # None}
  BY DEF Charged, Charges
<1>4. QED
  BY <1>1, <1>2, <1>3 DEF Charges, ChargeOf, Receipted

\* A step that touches no receipt, no receipted call's request and no stored
\* answer is none to IdealBilling.
LEMMA Stutters ==
    ASSUME IInv, UNCHANGED <<receipt, undone>>,
           \A c \in Receipted : key'[c] = key[c] /\ payload'[c] = payload[c],
           \A k \in Keys : AnswerOf(k)' = AnswerOf(k)
    PROVE  UNCHANGED Ideal!ideal
<1>1. \A c \in Calls : ChargeOf(c)' = ChargeOf(c)
  BY DEF ChargeOf, Payer, Payment, Receipted
<1>2. QED
  BY <1>1 DEF Ideal!ideal

\* A reservation is a charge.
LEMMA ReservationCharges ==
    ASSUME IInv, NEW c \in Calls, ReservePayment(c)
    PROVE  Ideal!Next
<1> DEFINE k == key[c]
           p == Payer(c)
           limit == LimitOf[payload[c]]
<1>1. /\ Owns(c) /\ idem[key[c]].status = "open" /\ receipt[c] = "none"
      /\ key[c] \in Keys /\ payload[c] \in Payloads
  BY DEF IInv, Ownership, OwnsItsKey, Owns, Running, Stages, ReservePayment
<1>2. p \in Payers /\ limit \in Nat /\ limit \in {LimitOf[q] : q \in Payloads}
  BY <1>1 DEF Payer, Payment
<1>3. c \notin Charged
  BY <1>1, ChargedIsReceipted DEF Receipted
<1>4. \A d \in Charged : Charges[d].key # k
  BY <1>1, ChargedIsReceipted DEF IInv, Ownership, OwnsItsKey, Owns, Receipted
<1>5. Answers[k] = "none"
  BY <1>1 DEF Answers, AnswerOf
<1> DEFINE standing == {d \in Charged : /\ Charges[d].payer = p
                                      /\ Charges[d].status \in CountedStatuses} \ undone
<1>6. Cardinality(standing) < limit
  <2>1. standing \subseteq Counted(p)
    BY ChargedIsReceipted DEF Counted, Receipted
  <2>2. IsFiniteSet(Counted(p))
    BY CallsAssumption, FS_Subset DEF Counted, Receipted
  <2>3. /\ Cardinality(standing) <= Cardinality(Counted(p))
        /\ Cardinality(standing) \in Nat /\ Cardinality(Counted(p)) \in Nat
    BY <2>1, <2>2, FS_Subset, FS_CardinalityType
  <2>4. ~ (Cardinality(Counted(p)) + 1 > limit)
    BY DEF ReservePayment, OverLimit
  <2>5. QED
    BY <1>2, <2>3, <2>4
<1>7. Charges' = [Charges EXCEPT ![c] =
                     [key |-> k, payer |-> p, limit |-> limit, status |-> "verified"]]
  <2>1. /\ receipt' = [receipt EXCEPT ![c] = "verified"]
        /\ UNCHANGED <<key, payload>> /\ receipt \in [Calls -> Statuses \cup {"none"}]
    BY DEF ReservePayment, IInv, TypeOK
  <2>2. ChargeOf(c)' = [key |-> k, payer |-> p, limit |-> limit, status |-> "verified"]
    BY <2>1 DEF ChargeOf, Payer, Payment
  <2>3. \A d \in Calls \ {c} : ChargeOf(d)' = ChargeOf(d)
    BY <2>1 DEF ChargeOf, Payer, Payment
  <2>4. QED
    BY <2>2, <2>3 DEF Charges
<1>8. UNCHANGED <<undone, Answers>>
  BY DEF ReservePayment, Answers, AnswerOf
<1>9. Ideal!Charge(c, k, p, limit)
  <2>1. Ideal!Charged = Charged
    BY DEF Ideal!Charged, Charged, Charges
  <2>2. Ideal!Standing(p) = standing
    BY <2>1 DEF Ideal!Standing, Ideal!CountedStatuses, CountedStatuses, Charges
  <2>3. Ideal!Cardinality(Ideal!Standing(p)) < limit
    <3>1. Ideal!Cardinality(standing) = Cardinality(standing)
      BY DEF Ideal!Cardinality, Cardinality
    <3>2. QED
      BY <1>6, <2>2, <3>1
  <2> HIDE DEF k, p, limit, standing
  <2>4. c \notin Ideal!Charged /\ \A d \in Ideal!Charged : Charges[d].key # k
    BY <1>3, <1>4, <2>1
  <2>5. QED
    BY <1>5, <1>7, <1>8, <2>3, <2>4 DEF Ideal!Charge, Charges, Answers
<1>10. QED
  BY <1>1, <1>2, <1>9 DEF Ideal!Next

\* An update of a receipt moves its charge, unless it changes nothing.
LEMMA UpdateMoves ==
    ASSUME IInv, NEW c \in Receipted, NEW new \in Statuses,
           receipt' = [receipt EXCEPT ![c] = Updated(@, new)],
           UNCHANGED <<key, payload, idem>>,
           undone' = IF new = "failed" /\ receipt'[c] = "failed" THEN undone \cup {c} ELSE undone
    PROVE  Ideal!Next \/ UNCHANGED Ideal!ideal
<1>1. receipt \in [Calls -> Statuses \cup {"none"}] /\ c \in Calls
  BY DEF IInv, TypeOK, Receipted
<1>2. UNCHANGED Answers
  BY DEF Answers, AnswerOf
<1>3. CASE receipt'[c] = receipt[c]
  <2>1. UNCHANGED receipt
    BY <1>1, <1>3
  <2>2. UNCHANGED undone
    BY <1>1, <1>3 DEF IInv, FailedIsUndone
  <2>3. \A k \in Keys : AnswerOf(k)' = AnswerOf(k)
    BY DEF AnswerOf
  <2>4. QED
    BY <2>1, <2>2, <2>3, Stutters
<1>4. CASE receipt'[c] # receipt[c]
  <2>1. receipt'[c] = new /\ receipt[c] # new /\ ~ Refused(receipt[c], new)
    BY <1>1, <1>4 DEF Updated
  <2>2. Charges' = [Charges EXCEPT ![c].status = new]
    <3>1. ChargeOf(c) = [key |-> key[c], payer |-> Payer(c), limit |-> LimitOf[payload[c]],
                         status |-> receipt[c]]
      BY DEF ChargeOf, Receipted
    <3>2. ChargeOf(c)' = [key |-> key[c], payer |-> Payer(c), limit |-> LimitOf[payload[c]],
                          status |-> new]
      BY <2>1 DEF ChargeOf, Payer, Payment, Statuses
    <3>3. \A d \in Calls \ {c} : ChargeOf(d)' = ChargeOf(d)
      BY <1>1 DEF ChargeOf, Payer, Payment
    <3>4. [ChargeOf(c) EXCEPT !.status = new] = ChargeOf(c)'
      BY <3>1, <3>2
    <3>5. QED
      BY <1>1, <3>3, <3>4 DEF Charges
  <2>3. undone' = IF new = "failed" THEN undone \cup {c} ELSE undone
    BY <2>1
  <2>4. c \in Charged /\ Charges[c].status = receipt[c]
    BY ChargedIsReceipted
  <2>5. Ideal!Move(c, new)
    BY <1>2, <2>1, <2>2, <2>3, <2>4 DEF Ideal!Move, Ideal!Charged, Ideal!Refused, Refused, Charged, Charges, Answers
  <2>6. QED
    BY <1>1, <2>5 DEF Ideal!Next, Ideal!Statuses, Statuses
<1>5. QED
  BY <1>3, <1>4

\* Finalising a key is its answer.
LEMMA FinalizeAnswers ==
    ASSUME IInv, NEW c \in Calls, NEW kind \in {"success", "failed"}, Running(c),
           Finalize(c, kind), UNCHANGED <<key, payload, receipt, undone>>,
           kind = "success" => receipt[c] \notin {"none", "failed"}
    PROVE  Ideal!Next
<1> DEFINE k == key[c]
<1>1. /\ k \in Keys /\ idem[k] \in Records /\ idem[k].status = "open"
      /\ idem \in [Keys -> Records \cup {NoRecord}]
  BY DEF IInv, TypeOK, Ownership, OwnsItsKey, Owns
<1>2. Answers[k] = "none"
  BY <1>1 DEF Answers, AnswerOf
<1>3. Answers' = [Answers EXCEPT ![k] = kind]
  <2>1. \A j \in Keys \ {k} : idem'[j] = idem[j]
    BY <1>1 DEF Finalize
  <2>2. idem'[k].status = kind
    BY <1>1 DEF Finalize, Records
  <2>3. AnswerOf(k)' = kind
    BY <2>2 DEF AnswerOf
  <2>4. \A j \in Keys \ {k} : AnswerOf(j)' = AnswerOf(j)
    BY <2>1 DEF AnswerOf
  <2>5. QED
    BY <1>1, <2>3, <2>4 DEF Answers
<1>4. UNCHANGED <<Charges, undone>>
  BY DEF Charges, ChargeOf, Payer, Payment
<1>5. kind = "success" =>
         \E d \in Charged : Charges[d].key = k /\ Charges[d].status # "failed"
  BY ChargedIsReceipted DEF Receipted
<1>6. Ideal!GiveAnswer(k, kind)
  BY <1>2, <1>3, <1>4, <1>5 DEF Ideal!GiveAnswer, Ideal!Charged, Charged, Charges, Answers
<1>7. QED
  BY <1>1, <1>6 DEF Ideal!Next

-----------------------------------------------------------------------------
(* The steps *)

LEMMA ArrivalStutters ==
    ASSUME IInv, NEW c \in Calls, Arrival(c)
    PROVE  UNCHANGED Ideal!ideal
<1>1. c \notin Receipted
  BY DEF Arrival, Reject, OpenKey, KeyConflict, KeyBusy, ServeCached, Arrives,
         IInv, Stages, Receipted
<1>2. UNCHANGED <<receipt, undone>>
  BY DEF Arrival, Reject, OpenKey, KeyConflict, KeyBusy, ServeCached, storeVars
<1>3. \A d \in Calls \ {c} : key'[d] = key[d] /\ payload'[d] = payload[d]
  BY DEF Arrival, Reject, OpenKey, KeyConflict, KeyBusy, ServeCached, Arrives, IInv, TypeOK
<1>4. ASSUME NEW k \in Keys PROVE AnswerOf(k)' = AnswerOf(k)
  <2>1. CASE UNCHANGED idem
    BY <2>1 DEF AnswerOf
  <2>2. ASSUME NEW j \in Keys, NEW p \in Payloads, OpenKey(c, j, p) PROVE AnswerOf(k)' = AnswerOf(k)
    <3>1. CASE k = j
      <4>1. idem[k].status = "unused" /\ idem'[k].status = "open"
        BY <2>2, <3>1 DEF OpenKey, NoRecord, IInv, TypeOK
      <4>2. QED
        BY <4>1 DEF AnswerOf
    <3>2. CASE k # j
      BY <2>2, <3>2 DEF OpenKey, AnswerOf, IInv, TypeOK
    <3>3. QED
      BY <3>1, <3>2
  <2>3. QED
    BY <2>1, <2>2 DEF Arrival, Reject, KeyConflict, KeyBusy, ServeCached, storeVars
<1>5. QED
  BY <1>1, <1>2, <1>3, <1>4, Stutters DEF Receipted

LEMMA ProceedRefines ==
    ASSUME IInv, NEW c \in Calls, Proceed(c)
    PROVE  Ideal!Next \/ UNCHANGED Ideal!ideal
<1>1. ASSUME UNCHANGED <<key, payload, idem, receipt, undone>> PROVE UNCHANGED Ideal!ideal
  BY <1>1, Stutters DEF AnswerOf
<1>2. CASE \/ Refuse(c) \/ Unverified(c) \/ Verified(c) \/ RefuseReservation(c)
           \/ SettlePayment(c) \/ ToolSucceeds(c) \/ ToolFails(c)
           \/ StoreFault(c) \/ FinalizeFault(c) \/ ReportByHttp(c)
  BY <1>1, <1>2 DEF Refuse, Unverified, Verified, RefuseReservation, SettlePayment, ToolSucceeds,
                    ToolFails, StoreFault, FinalizeFault, ReportByHttp, storeVars
<1>3. CASE \/ RecordFailedUsage(c) \/ RecordUsage(c) \/ RecordBillingLedger(c)
           \/ RecordRequestLog(c) \/ ReportByRpc(c)
  BY <1>1, <1>3 DEF RecordFailedUsage, RecordUsage, RecordBillingLedger, RecordRequestLog, ReportByRpc
<1>4. CASE ReservePayment(c)
  BY <1>4, ReservationCharges
<1>5. CASE UndoReceipt(c)
  <2>1. c \in Receipted
    BY <1>5 DEF UndoReceipt, IInv, Stages, Receipted
  <2>2. QED
    BY <1>5, <2>1, UpdateMoves DEF UndoReceipt, Statuses
<1>6. CASE FinishSuccess(c)
  <2>1. Running(c) /\ receipt[c] \notin {"none", "failed"}
    BY <1>6 DEF FinishSuccess, Running, IInv, Stages, Books
  <2>2. QED
    BY <1>6, <2>1, FinalizeAnswers DEF FinishSuccess
<1>7. CASE FinishFailed(c)
  <2>1. Running(c)
    BY <1>7 DEF FinishFailed, Running
  <2>2. QED
    BY <1>7, <2>1, FinalizeAnswers DEF FinishFailed
<1>8. QED
  BY <1>2, <1>3, <1>4, <1>5, <1>6, <1>7 DEF Proceed

LEMMA StepRefines == IInv /\ [Next]_vars => [Ideal!Next]_(Ideal!ideal)
<1> SUFFICES ASSUME IInv, [Next]_vars PROVE Ideal!Next \/ UNCHANGED Ideal!ideal
  OBVIOUS
<1>1. ASSUME UNCHANGED <<key, payload, idem, receipt, undone>> PROVE UNCHANGED Ideal!ideal
  BY <1>1, Stutters DEF AnswerOf
<1>2. ASSUME NEW c \in Calls, Arrival(c) PROVE UNCHANGED Ideal!ideal
  BY <1>2, ArrivalStutters
<1>3. ASSUME NEW c \in Calls, Proceed(c) PROVE Ideal!Next \/ UNCHANGED Ideal!ideal
  BY <1>3, ProceedRefines
<1>4. ASSUME NEW c \in Calls, NEW word, Reconcile(c, word)
      PROVE  Ideal!Next \/ UNCHANGED Ideal!ideal
  <2>1. c \in Receipted
    BY <1>4 DEF Reconcile, IInv, Stages
  <2>2. MapSettlement(word) \in Statuses /\ MapSettlement(word) # "failed"
    BY DEF MapSettlement, Statuses
  <2>3. QED
    BY <1>4, <2>1, <2>2, UpdateMoves DEF Reconcile, callVars
<1>5. CASE Crash \/ ListUnsettled \/ UNCHANGED vars
  BY <1>1, <1>5 DEF Crash, ListUnsettled, vars, callVars, storeVars
<1>6. ASSUME NEW p \in Payments, ReplayWindowEnds(p) PROVE UNCHANGED Ideal!ideal
  BY <1>1, <1>6 DEF ReplayWindowEnds, callVars
<1>7. QED
  BY <1>2, <1>3, <1>4, <1>5, <1>6 DEF Next

-----------------------------------------------------------------------------
(* The theorem *)

\* Every behaviour of executeTool, authorizeAndBill and the store is one that
\* IdealBilling allows: at most one charge for a key, within the limit of its
\* request, that only moves forward; one answer, "success" only if charged.
THEOREM PaidCallIsIdeal == Spec => ImplementsIdealBilling
<1>1. Init => Ideal!Init
  BY DEF Init, Ideal!Init, ChargeOf, AnswerOf, NoRecord
<1>2. QED
  BY <1>1, StepRefines, Invariance, PTL DEF Spec, ImplementsIdealBilling, Ideal!Spec
=============================================================================
