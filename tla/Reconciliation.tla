--------------------------- MODULE Reconciliation ---------------------------
(***************************************************************************)
(* Settlement of receipts: ReconciliationService (payments/                *)
(* reconciliation-service.mjs) in several adapter processes, over one      *)
(* store.  Three kinds of actors move a receipt through                    *)
(* updateReceiptSettlement:                                                *)
(*   - a run of reconcileOnce, started by the timer of index.mjs, which    *)
(*     takes the lease, lists the unsettled receipts, and asks the         *)
(*     verifier about each, renewing the lease before every one;           *)
(*   - a settlement event (applySettlementEvent);                          *)
(*   - a failed tool call, which marks its receipt failed.                 *)
(* With Postgres = FALSE the store is the SQLite one: its methods are      *)
(* single steps and its acquireLock lets the owner in again.  With         *)
(* Postgres = TRUE updateReceiptSettlement reads the receipt in one query  *)
(* and overwrites it in another, and a held lock admits nobody.            *)
(***************************************************************************)
EXTENDS Integers, FiniteSets, ReceiptStatus

CONSTANTS
    Runs,       \* runs of reconcileOnce, each repeated for ever by its timer
    Workers,    \* adapter processes
    WorkerOf,   \* the process whose timer starts a run
    Events,     \* settlement events: each is delivered at most once
    Failures,   \* failed tool calls: each marks at most one receipt
    Receipts,   \* receipts by age: provisional_at grows with the number
    Referenced, \* those with a verifier reference
    Batch,      \* the limit of listUnsettledReceipts
    Postgres,
    Nobody,
    MaxLapses,  \* bound: how often a lease lapses under a live holder
    MaxCrashes  \* bound: how often a process dies

ASSUME ReconciliationAssumption ==
    /\ WorkerOf \in [Runs -> Workers]
    /\ Runs \cap Events = {} /\ Runs \cap Failures = {} /\ Events \cap Failures = {}
    /\ Receipts \subseteq Nat
    /\ IsFiniteSet(Receipts)
    /\ Referenced \subseteq Receipts
    /\ Batch \in Nat \ {0}
    /\ Postgres \in BOOLEAN
    /\ Nobody \notin Workers \cup Receipts
    /\ MaxLapses \in Nat
    /\ MaxCrashes \in Nat

Actors == Runs \cup Events \cup Failures

VARIABLES
    receipt,  \* the status of each row of payment_receipts
    truth,    \* what the verifier would answer about each receipt
    lock,     \* the row of distributed_locks: its owner, and whether it is live
    pc,       \* where each actor is
    todo,     \* the receipts a run has listed and not yet visited
    target,   \* the receipt an actor is about to update
    status,   \* the status it will ask for
    lapses,
    crashes

vars == <<receipt, truth, lock, pc, todo, target, status, lapses, crashes>>

Free == [owner |-> Nobody, live |-> FALSE]

Words == {"pending", "confirmed", "refunded"}

TypeOK ==
    /\ receipt \in [Receipts -> Statuses]
    /\ truth \in [Receipts -> Words]
    /\ lock \in [owner: Workers \cup {Nobody}, live: BOOLEAN]
    /\ pc \in [Actors -> {"idle", "list", "visit", "ask", "check", "update",
                          "write", "release", "done"}]
    /\ todo \in [Runs -> SUBSET Receipts]
    /\ target \in [Actors -> Receipts \cup {Nobody}]
    /\ status \in [Actors -> Statuses \cup {Nobody}]
    /\ lapses \in 0..MaxLapses
    /\ crashes \in 0..MaxCrashes

Init ==
    /\ receipt = [x \in Receipts |-> "verified"]
    /\ truth = [x \in Receipts |-> "pending"]
    /\ lock = Free
    /\ pc = [a \in Actors |-> "idle"]
    /\ todo = [r \in Runs |-> {}]
    /\ target = [a \in Actors |-> Nobody]
    /\ status = [a \in Actors |-> Nobody]
    /\ lapses = 0
    /\ crashes = 0

Goto(a, to) == pc' = [pc EXCEPT ![a] = to]

\* The actor's local variables go out of scope.
Forget(a) ==
    /\ target' = [target EXCEPT ![a] = Nobody]
    /\ status' = [status EXCEPT ![a] = Nobody]

Keep == UNCHANGED <<target, status>>

-----------------------------------------------------------------------------
(* updateReceiptSettlement *)

\* Where an actor goes when its update is over.
AfterUpdate(a) == IF a \in Runs THEN "visit" ELSE "done"

\* SQLite: read, check and write are one synchronous step.
UpdateAtOnce(a) ==
    /\ ~Postgres
    /\ pc[a] = "update"
    /\ receipt' = [receipt EXCEPT ![target[a]] = Updated(@, status[a])]
    /\ Goto(a, AfterUpdate(a))
    /\ Forget(a)
    /\ UNCHANGED <<truth, lock, todo, lapses, crashes>>

\* Postgres: the row is read and checked, a refused or idle update ends here ...
UpdateRead(a) ==
    /\ Postgres
    /\ pc[a] = "update"
    /\ IF Updated(receipt[target[a]], status[a]) = receipt[target[a]]
       THEN Goto(a, AfterUpdate(a)) /\ Forget(a)
       ELSE Goto(a, "write") /\ Keep
    /\ UNCHANGED <<receipt, truth, lock, todo, lapses, crashes>>

\* ... and the UPDATE that follows has no condition on the status it replaces.
UpdateWrite(a) ==
    /\ pc[a] = "write"
    /\ receipt' = [receipt EXCEPT ![target[a]] = status[a]]
    /\ Goto(a, AfterUpdate(a))
    /\ Forget(a)
    /\ UNCHANGED <<truth, lock, todo, lapses, crashes>>

Update(a) == UpdateAtOnce(a) \/ UpdateRead(a) \/ UpdateWrite(a)

-----------------------------------------------------------------------------
(* reconcileOnce *)

\* A faulty Takeable: the upsert has no WHERE clause.
TakeableByAnyone == TRUE

\* The statement of acquireLock takes a free or an expired row.  SQLite then
\* looks who owns the row; Postgres looks whether the statement wrote it.
Takeable == ~lock.live

AcquireLock(r) ==
    /\ pc[r] = "idle"
    /\ Takeable \/ (~Postgres /\ lock.owner = WorkerOf[r])
    /\ lock' = IF Takeable THEN [owner |-> WorkerOf[r], live |-> TRUE] ELSE lock
    /\ Goto(r, "list")
    /\ UNCHANGED <<receipt, truth, todo, target, status, lapses, crashes>>

Unsettled == {x \in Receipts : receipt[x] = "verified"}

ListUnsettled(r) ==
    /\ pc[r] = "list"
    /\ todo' = [todo EXCEPT ![r] =
                 {x \in Unsettled : Cardinality({y \in Unsettled : y < x}) < Batch}]
    /\ Goto(r, "visit")
    /\ UNCHANGED <<receipt, truth, lock, target, status, lapses, crashes>>

Head(r) == CHOOSE x \in todo[r] : \A y \in todo[r] : x <= y

Holds(r) == lock = [owner |-> WorkerOf[r], live |-> TRUE]

\* renewLock before every receipt; one without a reference is skipped.
Visit(r) ==
    /\ pc[r] = "visit"
    /\ todo[r] # {}
    /\ Holds(r)
    /\ todo' = [todo EXCEPT ![r] = @ \ {Head(r)}]
    /\ IF Head(r) \in Referenced
       THEN Goto(r, "ask") /\ target' = [target EXCEPT ![r] = Head(r)]
       ELSE UNCHANGED <<pc, target>>
    /\ UNCHANGED <<receipt, truth, lock, status, lapses, crashes>>

\* The list is exhausted, or the lease was lost.
Leave(r) ==
    /\ pc[r] = "visit"
    /\ todo[r] = {} \/ ~Holds(r)
    /\ Goto(r, "release")
    /\ UNCHANGED <<receipt, truth, lock, todo, target, status, lapses, crashes>>

\* getReceiptStatus answers ...
Ask(r) ==
    /\ pc[r] = "ask"
    /\ status' = [status EXCEPT ![r] = MapSettlement(truth[target[r]])]
    /\ Goto(r, "update")
    /\ UNCHANGED <<receipt, truth, lock, todo, target, lapses, crashes>>

\* ... or fails, which it reports as null.
AskInVain(r) ==
    /\ pc[r] = "ask"
    /\ Goto(r, "visit")
    /\ Forget(r)
    /\ UNCHANGED <<receipt, truth, lock, todo, lapses, crashes>>

\* A faulty Release that leaves the row of the lock, and the timer, behind.
ReleaseNever(r) ==
    /\ pc[r] = "release"
    /\ todo' = [todo EXCEPT ![r] = {}]
    /\ UNCHANGED <<receipt, truth, lock, pc, target, status, lapses, crashes>>

\* releaseLock deletes the row if this worker owns it, whichever of its runs does.
Release(r) ==
    /\ pc[r] = "release"
    /\ lock' = IF lock.owner = WorkerOf[r] THEN Free ELSE lock
    /\ todo' = [todo EXCEPT ![r] = {}]
    /\ Goto(r, "idle")
    /\ UNCHANGED <<receipt, truth, target, status, lapses, crashes>>

-----------------------------------------------------------------------------
(* applySettlementEvent and the failed tool call *)

\* The event names a receipt and carries what the verifier said at some time.
ReceiveEvent(e, x) ==
    /\ pc[e] = "idle"
    /\ target' = [target EXCEPT ![e] = x]
    /\ status' = [status EXCEPT ![e] = MapSettlement(truth[x])]
    /\ Goto(e, "check")
    /\ UNCHANGED <<receipt, truth, lock, todo, lapses, crashes>>

CheckDowngrade(e) ==
    /\ pc[e] = "check"
    /\ IF IsDowngrade(receipt[target[e]], status[e])
       THEN Goto(e, "done") /\ Forget(e)
       ELSE Goto(e, "update") /\ Keep
    /\ UNCHANGED <<receipt, truth, lock, todo, lapses, crashes>>

ToolFails(f, x) ==
    /\ pc[f] = "idle"
    /\ target' = [target EXCEPT ![f] = x]
    /\ status' = [status EXCEPT ![f] = "failed"]
    /\ Goto(f, "update")
    /\ UNCHANGED <<receipt, truth, lock, todo, lapses, crashes>>

-----------------------------------------------------------------------------
(* The world around *)

\* The verifier settles a payment, and may refund it later.
Progress(x) ==
    /\ truth[x] # "refunded"
    /\ \E word \in Words \ {"pending", truth[x]} : truth' = [truth EXCEPT ![x] = word]
    /\ UNCHANGED <<receipt, lock, pc, todo, target, status, lapses, crashes>>

Active(r) == pc[r] # "idle"

HolderIsGone == \A r \in Runs : WorkerOf[r] = lock.owner => ~Active(r)

\* expires_at passes with no run of the owner left: it died in the middle.
LeaseExpires ==
    /\ lock.live
    /\ HolderIsGone
    /\ lock' = [lock EXCEPT !.live = FALSE]
    /\ UNCHANGED <<receipt, truth, pc, todo, target, status, lapses, crashes>>

\* expires_at passes under a run that waits too long.
LeaseLapses ==
    /\ lock.live
    /\ ~HolderIsGone
    /\ lapses < MaxLapses
    /\ lapses' = lapses + 1
    /\ lock' = [lock EXCEPT !.live = FALSE]
    /\ UNCHANGED <<receipt, truth, pc, todo, target, status, crashes>>

\* A process dies: its runs end where they are, the lock row stays.
WorkerCrashes(w) ==
    /\ crashes < MaxCrashes
    /\ \E r \in Runs : WorkerOf[r] = w /\ Active(r)
    /\ crashes' = crashes + 1
    /\ LET Dies(a) == a \in Runs /\ WorkerOf[a] = w IN
           /\ pc' = [a \in Actors |-> IF Dies(a) THEN "idle" ELSE pc[a]]
           /\ target' = [a \in Actors |-> IF Dies(a) THEN Nobody ELSE target[a]]
           /\ status' = [a \in Actors |-> IF Dies(a) THEN Nobody ELSE status[a]]
           /\ todo' = [r \in Runs |-> IF Dies(r) THEN {} ELSE todo[r]]
    /\ UNCHANGED <<receipt, truth, lock, lapses>>

-----------------------------------------------------------------------------

\* The steps of a run that is under way.
RunStep(r) ==
    \/ ListUnsettled(r) \/ Visit(r) \/ Leave(r) \/ Ask(r) \/ AskInVain(r)
    \/ Update(r) \/ Release(r)

Next ==
    \/ \E r \in Runs : AcquireLock(r) \/ RunStep(r)
    \/ \E e \in Events : CheckDowngrade(e) \/ Update(e) \/ \E x \in Receipts : ReceiveEvent(e, x)
    \/ \E f \in Failures : Update(f) \/ \E x \in Receipts : ToolFails(f, x)
    \/ \E x \in Receipts : Progress(x)
    \/ LeaseExpires
    \/ LeaseLapses
    \/ \E w \in Workers : WorkerCrashes(w)

Spec == Init /\ [][Next]_vars

\* Timers fire again and again, promises resume, clocks run, and a verifier
\* that is asked for ever answers for ever often.
FairSpec ==
    /\ Spec
    /\ \A r \in Runs : /\ WF_vars(RunStep(r))
                       /\ SF_vars(AcquireLock(r))
                       /\ \A x \in Referenced : SF_vars(target[r] = x /\ Ask(r))
    /\ WF_vars(LeaseExpires)

-----------------------------------------------------------------------------
(* Properties *)

\* However runs, events and failures interleave, a receipt never goes back: not
\* from settled to verified or failed, not from reversed to anything, not from
\* failed to verified.
SettlementOnlyAdvances ==
    [][\A x \in Receipts :
          /\ receipt[x] = "settled" => receipt'[x] \in {"settled", "reversed"}
          /\ receipt[x] = "reversed" => receipt'[x] = "reversed"
          /\ receipt[x] = "failed" => receipt'[x] # "verified"]_vars

\* A receipt is booked settled or reversed only if the verifier did so.
StatusIsTrue ==
    \A x \in Receipts :
        /\ receipt[x] = "settled" => truth[x] \in {"confirmed", "refunded"}
        /\ receipt[x] = "reversed" => truth[x] = "refunded"

Working(r) == pc[r] \in {"list", "visit", "ask", "update", "write"}

\* While no lease has lapsed under its holder, two runs do not reconcile at the
\* same time, of whichever processes they are (over PostgreSQL: with SQLite the
\* timers of one process may overlap).
OneRunReconciles ==
    lapses = 0 => \A r, s \in Runs : Working(r) /\ Working(s) => r = s

\* Receipts reconcileOnce will list again and again and cannot move.
Undecided == {x \in Unsettled : x \notin Referenced \/ truth[x] = "pending"}

\* A referenced receipt whose payment the verifier has decided does not stay
\* provisional, whatever crashed on the way, provided the oldest Batch receipts
\* are not all ones that nothing will ever move.
DecidedIsSettled ==
    \A x \in Referenced :
        truth[x] # "pending" /\ [](Cardinality(Undecided) < Batch)
            ~> receipt[x] # "verified"
=============================================================================
