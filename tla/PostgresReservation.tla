------------------------ MODULE PostgresReservation ------------------------
(***************************************************************************)
(* reservePaidOperation of the PostgreSQL store (storage/                  *)
(* postgres-state-store.mjs): a transaction at the default isolation       *)
(* level, READ COMMITTED, in which every query is a step of its own.  Its  *)
(* SQLite counterpart is the single step ReservePayment of PaidCall.       *)
(*                                                                         *)
(* A unique index makes an INSERT wait for a conflicting row that an       *)
(* undecided transaction has inserted or deleted, and fail if the row      *)
(* stays; a DELETE sees the rows committed when it starts and waits for    *)
(* each that another transaction is deleting; a SELECT sees committed rows *)
(* and the transaction's own.  NOW() is the time of BEGIN.                 *)
(***************************************************************************)
EXTENDS Integers, FiniteSets

CONSTANTS
    Txs,          \* calls of reservePaidOperation, one transaction each
    Payers,
    PayerOf,      \* the payer of a transaction
    NoncesOf,     \* nonce and fingerprint of its payment: unique in replay_nonces
    ReferencesOf, \* its verifier reference and proof id, as far as it has them:
                  \* unique in both tables
    LimitOf       \* the spendLimitUnits it is called with

ASSUME ReservationAssumption ==
    /\ IsFiniteSet(Txs)
    /\ PayerOf \in [Txs -> Payers]
    /\ LimitOf \in [Txs -> Nat]

VARIABLES
    pc,       \* the next query of each transaction, or how it ended
    replay,   \* transactions whose replay_nonces row is in the table
    receipt,  \* transactions whose payment_receipts row is in the table
    lapsed,   \* transactions whose replay window has ended: expires_at is past
    now,      \* those whose window had ended at the BEGIN of each transaction,
              \* until its last DELETE
    doomed,   \* rows that the DELETE under way of each transaction has yet to visit
    deleted   \* rows that each undecided transaction has deleted

vars == <<pc, replay, receipt, lapsed, now, doomed, deleted>>

TypeOK ==
    /\ pc \in [Txs -> {"begin", "purge", "purging", "purge again", "purging again",
                       "replay", "spend", "receipt", "commit",
                       "committed", "refused", "aborted"}]
    /\ replay \subseteq Txs
    /\ receipt \subseteq Txs
    /\ lapsed \subseteq Txs
    /\ now \in [Txs -> SUBSET Txs]
    /\ doomed \in [Txs -> SUBSET Txs]
    /\ deleted \in [Txs -> SUBSET Txs]

Init ==
    /\ pc = [t \in Txs |-> "begin"]
    /\ replay = {}
    /\ receipt = {}
    /\ lapsed = {}
    /\ now = [t \in Txs |-> {}]
    /\ doomed = [t \in Txs |-> {}]
    /\ deleted = [t \in Txs |-> {}]

Committed == {t \in Txs : pc[t] = "committed"}

Over(t) == pc[t] \in {"committed", "refused", "aborted"}

SameReference(t, u) == ReferencesOf[t] \cap ReferencesOf[u] # {}

SameNonce(t, u) == NoncesOf[t] \cap NoncesOf[u] # {}

\* The other transactions whose row would violate a unique index of
\* replay_nonces, and of payment_receipts, beside the row of t.
Rivals(t) == {u \in Txs \ {t} : SameNonce(t, u) \/ SameReference(t, u)}

Twins(t) == {u \in Txs \ {t} : SameReference(t, u)}

\* The rows in the way of t's INSERT into replay_nonces.
Conflicts(t) == Rivals(t) \cap (replay \ deleted[t])

\* Row u is deleted by a transaction, other than t, that is undecided.
BeingDeleted(t, u) == \E w \in Txs \ {t} : u \in deleted[w]

Goto(t, to) == pc' = [pc EXCEPT ![t] = to]

\* A faulty Rollback that leaves the replay row behind.
RollbackReceipt(t, how) ==
    /\ Goto(t, how)
    /\ receipt' = receipt \ {t}
    /\ UNCHANGED <<replay, lapsed, now, doomed, deleted>>

\* What a transaction has deleted is there again, what it inserted is not.
Rollback(t, how) ==
    /\ Goto(t, how)
    /\ replay' = replay \ {t}
    /\ receipt' = receipt \ {t}
    /\ lapsed' = lapsed \ {t}
    /\ doomed' = [doomed EXCEPT ![t] = {}]
    /\ deleted' = [deleted EXCEPT ![t] = {}]
    /\ now' = [now EXCEPT ![t] = {}]

-----------------------------------------------------------------------------

Begin(t) ==
    /\ pc[t] = "begin"
    /\ Goto(t, "purge")
    /\ now' = [now EXCEPT ![t] = lapsed]
    /\ UNCHANGED <<replay, receipt, lapsed, doomed, deleted>>

\* DELETE FROM replay_nonces WHERE expires_at < NOW(), by reservePaidOperation
\* and again by assertNotReplay: which rows it will visit.
Purge(t) ==
    /\ \/ pc[t] = "purge" /\ Goto(t, "purging")
       \/ pc[t] = "purge again" /\ Goto(t, "purging again")
    /\ doomed' = [doomed EXCEPT ![t] = (replay \cap Committed \cap now[t]) \ deleted[t]]
    /\ UNCHANGED <<replay, receipt, lapsed, now, deleted>>

\* It deletes one of them, unless another transaction has done so meanwhile.
DeleteRow(t) ==
    \E u \in doomed[t] :
        /\ ~BeingDeleted(t, u)
        /\ doomed' = [doomed EXCEPT ![t] = @ \ {u}]
        /\ deleted' = [deleted EXCEPT ![t] = @ \cup ({u} \cap replay)]
        /\ UNCHANGED <<pc, replay, receipt, lapsed, now>>

Purged(t) ==
    /\ doomed[t] = {}
    /\ \/ pc[t] = "purging" /\ Goto(t, "purge again") /\ UNCHANGED now
       \/ pc[t] = "purging again" /\ Goto(t, "replay") /\ now' = [now EXCEPT ![t] = {}]
    /\ UNCHANGED <<replay, receipt, lapsed, doomed, deleted>>

\* A faulty InsertReplay: no unique index makes it wait for an undecided row.
InsertReplayAtOnce(t) ==
    /\ pc[t] = "replay"
    /\ Conflicts(t) \cap Committed = {}
    /\ replay' = replay \cup {t}
    /\ Goto(t, "spend")
    /\ UNCHANGED <<receipt, lapsed, now, doomed, deleted>>

InsertReplay(t) ==
    /\ pc[t] = "replay"
    /\ Conflicts(t) = {}
    /\ replay' = replay \cup {t}
    /\ Goto(t, "spend")
    /\ UNCHANGED <<receipt, lapsed, now, doomed, deleted>>

\* Error 23505: PAYMENT_REPLAY_DETECTED.
ReplayDetected(t) ==
    /\ pc[t] = "replay"
    /\ \E u \in Conflicts(t) \cap Committed : ~BeingDeleted(t, u)
    /\ Rollback(t, "refused")

\* A faulty Spent that leaves the payer out of the WHERE clause.
SpentByAnyone(t) == Cardinality(receipt \cap Committed)

\* The SELECT of the day's units.
Spent(t) ==
    Cardinality({u \in receipt : PayerOf[u] = PayerOf[t] /\ u \in Committed})

ReadSpend(t) ==
    /\ pc[t] = "spend"
    /\ Spent(t) + 1 <= LimitOf[t]
    /\ Goto(t, "receipt")
    /\ UNCHANGED <<replay, receipt, lapsed, now, doomed, deleted>>

LimitReached(t) ==
    /\ pc[t] = "spend"
    /\ Spent(t) + 1 > LimitOf[t]
    /\ Rollback(t, "refused")

InsertReceipt(t) ==
    /\ pc[t] = "receipt"
    /\ Twins(t) \cap receipt = {}
    /\ receipt' = receipt \cup {t}
    /\ Goto(t, "commit")
    /\ UNCHANGED <<replay, lapsed, now, doomed, deleted>>

\* Error 23505 of the second INSERT: also PAYMENT_REPLAY_DETECTED.
ReceiptDuplicate(t) ==
    /\ pc[t] = "receipt"
    /\ Twins(t) \cap receipt \cap Committed # {}
    /\ Rollback(t, "refused")

Commit(t) ==
    /\ pc[t] = "commit"
    /\ Goto(t, "committed")
    /\ replay' = replay \ deleted[t]
    /\ deleted' = [deleted EXCEPT ![t] = {}]
    /\ UNCHANGED <<receipt, lapsed, now, doomed>>

\* A query fails or the connection is lost: the transaction is rolled back.
Abort(t) ==
    /\ ~Over(t)
    /\ Rollback(t, "aborted")

\* The transactions t waits for.
WaitsFor(t) ==
    {w \in Txs \ {t} :
        \/ doomed[t] \cap deleted[w] # {}
        \/ pc[t] = "replay" /\ Conflicts(t) \cap (deleted[w] \cup {w}) # {} /\ ~Over(w)
        \/ pc[t] = "receipt" /\ w \in Twins(t) \cap receipt /\ ~Over(w)}

\* t waits for itself, by way of others.
Deadlocked(t) ==
    WaitsFor(t) # {} /\ \A S \in SUBSET Txs :
        WaitsFor(t) \subseteq S /\ (\A w \in S : WaitsFor(w) \subseteq S) => t \in S

\* Error 40P01, and ROLLBACK: the database breaks a circle of waiting transactions.
DeadlockDetected(t) == Deadlocked(t) /\ Abort(t)

\* The replay window of a payment ends.
Lapse(t) ==
    /\ t \in replay \ lapsed
    /\ lapsed' = lapsed \cup {t}
    /\ UNCHANGED <<pc, replay, receipt, now, doomed, deleted>>

Step(t) ==
    \/ Begin(t) \/ Purge(t) \/ DeleteRow(t) \/ Purged(t)
    \/ InsertReplay(t) \/ ReplayDetected(t) \/ ReadSpend(t) \/ LimitReached(t)
    \/ InsertReceipt(t) \/ ReceiptDuplicate(t) \/ Commit(t) \/ DeadlockDetected(t)

Next == \E t \in Txs : Step(t) \/ Abort(t) \/ Lapse(t)

Spec == Init /\ [][Next]_vars

\* The database answers every query that is not waiting for a lock, and every
\* query of a deadlock until there is none.
FairSpec == Spec /\ \A t \in Txs : WF_vars(Step(t))

-----------------------------------------------------------------------------
(* Properties *)

\* However the transactions interleave and abort, a payment with a reference is
\* committed once, and one with a nonce alone once within its replay window.
OneReceiptPerPayment ==
    \A t, u \in Committed : t # u =>
        /\ ~SameReference(t, u)
        /\ SameNonce(t, u) => t \in lapsed \/ u \in lapsed

\* A payment is refused as replayed, or for a limit above nothing, only if a
\* receipt that was committed for it, or for its payer, stands in the way.
RefusedForCause ==
    [][\A t \in Txs : pc[t] # "refused" /\ pc'[t] = "refused" /\ LimitOf[t] > 0 =>
          \E u \in Committed : u \in Rivals(t) \/ PayerOf[u] = PayerOf[t]]_vars

\* Nobody waits for ever behind an undecided row.
EveryReservationEnds == <>(\A t \in Txs : Over(t))

\* Among any committed receipts of a payer is one that was allowed that many.
SpendWithinLimit ==
    \A p \in Payers : \A S \in SUBSET {t \in Committed : PayerOf[t] = p} :
        S # {} => \E t \in S : Cardinality(S) <= LimitOf[t]
=============================================================================
