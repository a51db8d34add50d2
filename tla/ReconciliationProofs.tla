------------------------ MODULE ReconciliationProofs ------------------------
(***************************************************************************)
(* Theorems about Reconciliation, for any processes, runs, events, failing *)
(* calls and receipts, with lapsing leases and crashes: over either store  *)
(* what is booked is true; over SQLite no receipt goes back; over          *)
(* PostgreSQL runs exclude each other while no lease lapses.               *)
(***************************************************************************)
EXTENDS Reconciliation, TLAPS

USE ReconciliationAssumption DEF ReconciliationAssumption, Goto, Keep, Forget

\* What an actor is going to write was the verifier's word when it was asked,
\* and the word is not taken back.
Truthful(x, s) ==
    /\ s = "settled" => truth[x] \in {"confirmed", "refunded"}
    /\ s = "reversed" => truth[x] = "refunded"

Aimed(a) ==
    /\ pc[a] \in {"ask", "check", "update", "write"} => target[a] \in Receipts
    /\ pc[a] \in {"check", "update", "write"} =>
          status[a] \in Statuses /\ Truthful(target[a], status[a])

\* Only a run lists or asks, and only over PostgreSQL is there a time between the
\* reading and the writing of a receipt.
Staged ==
    /\ \A a \in Actors : pc[a] = "write" => Postgres
    /\ \A r \in Runs : pc[r] # "done"

SInv ==
    /\ TypeOK /\ Staged
    /\ \A a \in Actors : Aimed(a)
    /\ \A x \in Receipts : Truthful(x, receipt[x])

\* While no lease has lapsed, the one run under way holds the lock.
Exclusive ==
    lapses = 0 => \A r \in Runs : Active(r) => Holds(r) /\ \A s \in Runs : Active(s) => s = r

-----------------------------------------------------------------------------
(* Lemmas *)

\* The mapping of the verifier's words invents nothing.
LEMMA MappedTruly ==
    ASSUME TypeOK, NEW x \in Receipts
    PROVE  MapSettlement(truth[x]) \in Statuses /\ Truthful(x, MapSettlement(truth[x]))
BY DEF TypeOK, Words, MapSettlement, Statuses, Truthful

\* An update asks for a status, and leaves the old one or that one.
LEMMA UpdatedTruly ==
    ASSUME NEW old, NEW new
    PROVE  Updated(old, new) \in {old, new}
BY DEF Updated

\* A step that leaves the table and the verifier alone, and one actor with a
\* status that is true of its target, keeps SInv.
LEMMA StepOfOne ==
    ASSUME SInv, NEW a \in Actors, TypeOK', Staged', Aimed(a)', UNCHANGED <<receipt, truth>>,
           \A b \in Actors \ {a} :
              pc'[b] = pc[b] /\ target'[b] = target[b] /\ status'[b] = status[b]
    PROVE  SInv'
<1>1. ASSUME NEW b \in Actors PROVE Aimed(b)'
  <2>1. CASE b = a
    BY <2>1
  <2>2. CASE b # a
    <3>1. Aimed(b) /\ pc'[b] = pc[b] /\ target'[b] = target[b] /\ status'[b] = status[b]
      BY <2>2 DEF SInv
    <3>2. QED
      BY <3>1 DEF Aimed, Truthful
  <2>3. QED
    BY <2>1, <2>2
<1>2. QED
  BY <1>1 DEF SInv, Truthful

\* Updates of a receipt are true ones.
LEMMA UpdateStep ==
    ASSUME SInv, NEW a \in Actors, Update(a)
    PROVE  SInv'
<1> USE DEF TypeOK, Staged
<1>1. Aimed(a) /\ TypeOK /\ Staged
  BY DEF SInv
<1>2. AfterUpdate(a) \in {"visit", "done"} /\ (a \in Runs => AfterUpdate(a) = "visit")
  BY DEF AfterUpdate
<1>3. CASE UpdateRead(a)
  <2>1. TypeOK' /\ Staged'
    <3>1. \/ Goto(a, AfterUpdate(a)) /\ Forget(a)
          \/ Goto(a, "write") /\ Keep
      BY <1>3 DEF UpdateRead
    <3>2. UNCHANGED <<receipt, truth, lock, todo, lapses, crashes>> /\ Postgres
      BY <1>3 DEF UpdateRead
    <3>3. pc' \in [Actors -> {"idle", "list", "visit", "ask", "check", "update",
                              "write", "release", "done"}]
      BY <1>1, <1>2, <3>1
    <3>4. target' \in [Actors -> Receipts \cup {Nobody}] /\ status' \in [Actors -> Statuses \cup {Nobody}]
      BY <1>1, <3>1
    <3>5. TypeOK'
      BY <1>1, <3>2, <3>3, <3>4
    <3>6. \A r \in Runs : pc'[r] # "done"
      BY <1>1, <1>2, <3>1 DEF Actors
    <3>7. QED
      BY <3>2, <3>5, <3>6
  <2>2. Aimed(a)'
    BY <1>1, <1>2, <1>3 DEF UpdateRead, Aimed, Truthful
  <2>3. QED
    BY <1>3, <2>1, <2>2, StepOfOne DEF UpdateRead
<1>4. ASSUME NEW s, receipt' = [receipt EXCEPT ![target[a]] = s],
             s \in {receipt[target[a]], status[a]},
             pc[a] \in {"update", "write"}, Goto(a, AfterUpdate(a)), Forget(a),
             UNCHANGED <<truth, lock, todo, lapses, crashes>>
      PROVE  SInv'
  <2>1. target[a] \in Receipts /\ status[a] \in Statuses /\ Truthful(target[a], status[a])
    BY <1>1, <1>4 DEF Aimed
  <2>2. Truthful(target[a], s) /\ s \in Statuses
    <3>1. CASE s = status[a]
      BY <2>1, <3>1
    <3>2. CASE s = receipt[target[a]]
      BY <1>1, <2>1, <3>2 DEF SInv
    <3>3. QED
      BY <1>4, <3>1, <3>2
  <2>3. TypeOK' /\ Staged'
    <3>1. pc' \in [Actors -> {"idle", "list", "visit", "ask", "check", "update",
                              "write", "release", "done"}]
      BY <1>1, <1>2, <1>4
    <3>2. target' \in [Actors -> Receipts \cup {Nobody}] /\ status' \in [Actors -> Statuses \cup {Nobody}]
      BY <1>1, <1>4
    <3>3. receipt' \in [Receipts -> Statuses]
      BY <1>1, <1>4, <2>2
    <3>4. TypeOK'
      BY <1>1, <1>4, <3>1, <3>2, <3>3
    <3>5. \A r \in Runs : pc'[r] # "done"
      BY <1>1, <1>2, <1>4 DEF Actors
    <3>6. \A b \in Actors : pc'[b] = "write" => Postgres
      BY <1>1, <1>2, <1>4
    <3>7. QED
      BY <3>4, <3>5, <3>6
  <2>4. ASSUME NEW b \in Actors PROVE Aimed(b)'
    <3>1. CASE b = a
      BY <1>1, <1>2, <1>4, <3>1 DEF Aimed
    <3>2. CASE b # a
      BY <1>1, <1>4, <3>2 DEF SInv, Aimed, Truthful
    <3>3. QED
      BY <3>1, <3>2
  <2>5. ASSUME NEW x \in Receipts PROVE Truthful(x, receipt[x])'
    BY <1>1, <1>4, <2>2 DEF SInv, Truthful
  <2>6. QED
    BY <2>3, <2>4, <2>5 DEF SInv
<1>5. CASE UpdateAtOnce(a)
  <2>1. Updated(receipt[target[a]], status[a]) \in {receipt[target[a]], status[a]}
    BY UpdatedTruly
  <2>2. target[a] \in Receipts
    BY <1>1, <1>5 DEF UpdateAtOnce, Aimed
  <2>3. QED
    BY <1>4, <1>5, <2>1 DEF UpdateAtOnce
<1>6. CASE UpdateWrite(a)
  BY <1>4, <1>6 DEF UpdateWrite
<1>7. QED
  BY <1>3, <1>5, <1>6 DEF Update

\* The lock and the counters do not matter to what is booked.
LEMMA LockStep ==
    ASSUME SInv, TypeOK', UNCHANGED <<receipt, truth, pc, target, status>>
    PROVE  SInv'
<1>1. ASSUME NEW a \in Actors PROVE Aimed(a)'
  BY DEF SInv, Aimed, Truthful
<1>2. QED
  BY <1>1 DEF SInv, Staged, Truthful

LEMMA RunStepTrue ==
    ASSUME SInv, NEW r \in Runs, AcquireLock(r) \/ RunStep(r)
    PROVE  SInv'
<1> USE DEF TypeOK, Staged
<1>1. Aimed(r) /\ TypeOK /\ Staged /\ r \in Actors
  BY DEF SInv, Actors
<1>2. CASE AcquireLock(r)
  <2>1. TypeOK' /\ Staged' /\ Aimed(r)'
    BY <1>1, <1>2 DEF AcquireLock, Aimed
  <2>2. QED
    BY <1>1, <1>2, <2>1, StepOfOne DEF AcquireLock
<1>3. CASE ListUnsettled(r)
  <2>1. TypeOK' /\ Staged' /\ Aimed(r)'
    BY <1>1, <1>3 DEF ListUnsettled, Aimed, Unsettled
  <2>2. QED
    BY <1>1, <1>3, <2>1, StepOfOne DEF ListUnsettled
<1>4. CASE Visit(r)
  <2>1. CASE Head(r) \in Referenced
    <3>1. Head(r) \in Receipts
      BY <2>1
    <3>2. TypeOK'
      BY <1>1, <1>4, <2>1, <3>1 DEF Visit
    <3>3. Goto(r, "ask") /\ target' = [target EXCEPT ![r] = Head(r)]
      BY <1>4, <2>1 DEF Visit
    <3>4. Staged'
      BY <1>1, <3>3 DEF Actors
    <3>5. Aimed(r)'
      BY <1>1, <3>1, <3>3 DEF Aimed
    <3>6. QED
      BY <1>1, <1>4, <2>1, <3>2, <3>4, <3>5, StepOfOne DEF Visit
  <2>2. CASE Head(r) \notin Referenced
    <3>1. TypeOK' /\ UNCHANGED <<receipt, truth, pc, target, status>>
      BY <1>1, <1>4, <2>2 DEF Visit
    <3>2. QED
      BY <3>1, LockStep
  <2>3. QED
    BY <2>1, <2>2
<1>5. CASE Leave(r)
  <2>1. TypeOK' /\ Staged' /\ Aimed(r)'
    BY <1>1, <1>5 DEF Leave, Aimed
  <2>2. QED
    BY <1>1, <1>5, <2>1, StepOfOne DEF Leave
<1>6. CASE Ask(r)
  <2>1. target[r] \in Receipts
    BY <1>1, <1>6 DEF Ask, Aimed
  <2>2. MapSettlement(truth[target[r]]) \in Statuses
        /\ Truthful(target[r], MapSettlement(truth[target[r]]))
    BY <1>1, <2>1, MappedTruly
  <2>3. TypeOK' /\ Staged'
    BY <1>1, <1>6, <2>2 DEF Ask
  <2>4. Aimed(r)'
    BY <1>1, <1>6, <2>1, <2>2 DEF Ask, Aimed, Truthful
  <2>5. QED
    BY <1>1, <1>6, <2>3, <2>4, StepOfOne DEF Ask
<1>7. CASE AskInVain(r)
  <2>1. TypeOK' /\ Staged' /\ Aimed(r)'
    BY <1>1, <1>7 DEF AskInVain, Aimed
  <2>2. QED
    BY <1>1, <1>7, <2>1, StepOfOne DEF AskInVain
<1>8. CASE Update(r)
  BY <1>1, <1>8, UpdateStep
<1>9. CASE Release(r)
  <2>1. TypeOK' /\ Staged' /\ Aimed(r)'
    BY <1>1, <1>9 DEF Release, Aimed, Free
  <2>2. QED
    BY <1>1, <1>9, <2>1, StepOfOne DEF Release
<1>10. QED
  BY <1>2, <1>3, <1>4, <1>5, <1>6, <1>7, <1>8, <1>9 DEF RunStep

LEMMA EventStepTrue ==
    ASSUME SInv, NEW a \in Events \cup Failures,
           \/ CheckDowngrade(a) \/ Update(a)
           \/ \E x \in Receipts : ReceiveEvent(a, x) \/ ToolFails(a, x)
    PROVE  SInv'
<1> USE DEF TypeOK, Staged
<1>1. Aimed(a) /\ TypeOK /\ Staged /\ a \in Actors /\ a \notin Runs
  BY DEF SInv, Actors
<1>2. CASE CheckDowngrade(a)
  <2>1. TypeOK' /\ Staged'
    <3>1. \/ Goto(a, "done") /\ Forget(a)
          \/ Goto(a, "update") /\ Keep
      BY <1>2 DEF CheckDowngrade
    <3>2. UNCHANGED <<receipt, truth, lock, todo, lapses, crashes>>
      BY <1>2 DEF CheckDowngrade
    <3>3. pc' \in [Actors -> {"idle", "list", "visit", "ask", "check", "update",
                              "write", "release", "done"}]
      BY <1>1, <3>1
    <3>4. target' \in [Actors -> Receipts \cup {Nobody}] /\ status' \in [Actors -> Statuses \cup {Nobody}]
      BY <1>1, <3>1
    <3>5. TypeOK'
      BY <1>1, <3>2, <3>3, <3>4
    <3>6. Staged'
      BY <1>1, <3>1 DEF Actors
    <3>7. QED
      BY <3>5, <3>6
  <2>2. Aimed(a)'
    BY <1>1, <1>2 DEF CheckDowngrade, Aimed, Truthful
  <2>3. QED
    BY <1>1, <1>2, <2>1, <2>2, StepOfOne DEF CheckDowngrade
<1>3. CASE Update(a)
  BY <1>1, <1>3, UpdateStep
<1>4. ASSUME NEW x \in Receipts, ReceiveEvent(a, x) PROVE SInv'
  <2>1. MapSettlement(truth[x]) \in Statuses /\ Truthful(x, MapSettlement(truth[x]))
    BY <1>1, MappedTruly
  <2>2. TypeOK' /\ Staged'
    BY <1>1, <1>4, <2>1 DEF ReceiveEvent
  <2>3. Aimed(a)'
    BY <1>1, <1>4, <2>1 DEF ReceiveEvent, Aimed, Truthful
  <2>4. QED
    BY <1>1, <1>4, <2>2, <2>3, StepOfOne DEF ReceiveEvent
<1>5. ASSUME NEW x \in Receipts, ToolFails(a, x) PROVE SInv'
  <2>1. TypeOK' /\ Staged'
    BY <1>1, <1>5 DEF ToolFails, Statuses
  <2>2. Aimed(a)'
    BY <1>1, <1>5 DEF ToolFails, Aimed, Truthful, Statuses
  <2>3. QED
    BY <1>1, <1>5, <2>1, <2>2, StepOfOne DEF ToolFails
<1>6. QED
  BY <1>2, <1>3, <1>4, <1>5

\* The verifier takes nothing back: what was true stays true.
LEMMA ProgressTrue ==
    ASSUME SInv, NEW x \in Receipts, Progress(x)
    PROVE  SInv'
<1>1. TypeOK'
  BY DEF SInv, TypeOK, Progress, Words
<1>2. ASSUME NEW y, NEW s, y \in Receipts, Truthful(y, s) PROVE Truthful(y, s)'
  BY <1>2 DEF SInv, TypeOK, Progress, Words, Truthful
<1>3. ASSUME NEW a \in Actors PROVE Aimed(a)'
  <2>1. Aimed(a) /\ UNCHANGED <<pc, target, status>>
    BY DEF SInv, Progress
  <2>2. QED
    BY <2>1 DEF SInv, TypeOK, Progress, Words, Truthful, Aimed
<1>4. ASSUME NEW y \in Receipts PROVE Truthful(y, receipt[y])'
  BY DEF SInv, TypeOK, Progress, Words, Truthful
<1>5. QED
  BY <1>1, <1>3, <1>4 DEF SInv, Staged, Progress

LEMMA CrashTrue ==
    ASSUME SInv, NEW w \in Workers, WorkerCrashes(w)
    PROVE  SInv'
<1>1. TypeOK' /\ UNCHANGED <<receipt, truth>>
  BY DEF SInv, TypeOK, WorkerCrashes
<1>2. Staged'
  BY DEF SInv, Staged, WorkerCrashes, Actors
<1>3. ASSUME NEW a \in Actors PROVE Aimed(a)'
  <2>1. \/ pc'[a] = "idle"
        \/ pc'[a] = pc[a] /\ target'[a] = target[a] /\ status'[a] = status[a]
    BY DEF WorkerCrashes
  <2>2. QED
    BY <1>1, <2>1 DEF SInv, Aimed, Truthful
<1>4. QED
  BY <1>1, <1>2, <1>3 DEF SInv, Truthful

LEMMA StatusStep == SInv /\ [Next]_vars => SInv'
<1> SUFFICES ASSUME SInv, [Next]_vars PROVE SInv'
  OBVIOUS
<1>1. CASE \E r \in Runs : AcquireLock(r) \/ RunStep(r)
  BY <1>1, RunStepTrue
<1>2. CASE \E e \in Events : CheckDowngrade(e) \/ Update(e) \/ \E x \in Receipts : ReceiveEvent(e, x)
  BY <1>2, EventStepTrue
<1>3. CASE \E f \in Failures : Update(f) \/ \E x \in Receipts : ToolFails(f, x)
  BY <1>3, EventStepTrue
<1>4. CASE \E x \in Receipts : Progress(x)
  BY <1>4, ProgressTrue
<1>5. CASE LeaseExpires \/ LeaseLapses
  <2>1. TypeOK'
    <3>1. lock' = [lock EXCEPT !.live = FALSE] /\ lapses' \in 0 .. MaxLapses
      BY <1>5 DEF SInv, TypeOK, LeaseExpires, LeaseLapses
    <3>2. lock' \in [owner : Workers \cup {Nobody}, live : BOOLEAN]
      BY <3>1 DEF SInv, TypeOK
    <3>3. QED
      BY <1>5, <3>1, <3>2 DEF SInv, TypeOK, LeaseExpires, LeaseLapses
  <2>2. QED
    BY <1>5, <2>1, LockStep DEF LeaseExpires, LeaseLapses
<1>6. CASE \E w \in Workers : WorkerCrashes(w)
  BY <1>6, CrashTrue
<1>7. CASE UNCHANGED vars
  <2>1. TypeOK'
    BY <1>7 DEF vars, SInv, TypeOK
  <2>2. QED
    BY <1>7, <2>1, LockStep DEF vars
<1>8. QED
  BY <1>1, <1>2, <1>3, <1>4, <1>5, <1>6, <1>7 DEF Next

\* The one run under way keeps the lock until it leaves, or its lease lapses.
LEMMA ExclusiveStep ==
    ASSUME SInv, Postgres, Exclusive, [Next]_vars
    PROVE  Exclusive'
<1> USE DEF TypeOK
<1>1. SUFFICES ASSUME lapses' = 0
               PROVE  \A r \in Runs : Active(r)' => Holds(r)' /\ \A s \in Runs : Active(s)' => s = r
  BY DEF Exclusive
<1>2. lapses = 0
  BY <1>1 DEF SInv, Next, AcquireLock, RunStep, ListUnsettled, Visit, Leave, Ask, AskInVain, Release,
              Update, UpdateAtOnce, UpdateRead, UpdateWrite, CheckDowngrade, ReceiveEvent, ToolFails,
              Progress, LeaseExpires, LeaseLapses, WorkerCrashes, vars
<1>3. \A r \in Runs : Active(r) => Holds(r) /\ \A s \in Runs : Active(s) => s = r
  BY <1>2 DEF Exclusive
<1>4. pc \in [Actors -> {"idle", "list", "visit", "ask", "check", "update",
                         "write", "release", "done"}] /\ Runs \subseteq Actors
  BY DEF SInv, Actors
<1>5. ASSUME UNCHANGED lock, \A r \in Runs : Active(r)' => Active(r)
      PROVE  \A r \in Runs : Active(r)' => Holds(r)' /\ \A s \in Runs : Active(s)' => s = r
  BY <1>3, <1>5 DEF Holds
<1>6. ASSUME NEW a \in Actors, a \in Runs => Active(a), NEW to, Goto(a, to), UNCHANGED lock
      PROVE  \A r \in Runs : Active(r)' => Holds(r)' /\ \A s \in Runs : Active(s)' => s = r
  BY <1>4, <1>5, <1>6 DEF Active
<1>7. CASE UNCHANGED vars
  BY <1>5, <1>7 DEF vars, Active
<1>8. ASSUME NEW r \in Runs, AcquireLock(r) PROVE Exclusive'
  <2>1. ~ lock.live
    BY <1>8 DEF AcquireLock, Takeable
  <2>2. \A s \in Runs : ~ Active(s)
    BY <1>3, <2>1 DEF Holds
  <2>3. lock' = [owner |-> WorkerOf[r], live |-> TRUE]
    BY <1>8, <2>1 DEF AcquireLock, Takeable
  <2>4. \A s \in Runs : Active(s)' => s = r
    BY <1>4, <1>8, <2>2 DEF AcquireLock, Active
  <2>5. QED
    BY <2>3, <2>4 DEF Exclusive, Holds
<1>9. ASSUME NEW a \in Actors, Update(a) PROVE Exclusive'
  <2>1. a \in Runs => Active(a)
    BY <1>9 DEF Update, UpdateAtOnce, UpdateRead, UpdateWrite, Active
  <2>2. UNCHANGED lock /\ \E to : Goto(a, to)
    BY <1>9 DEF Update, UpdateAtOnce, UpdateRead, UpdateWrite
  <2>3. QED
    BY <1>6, <2>1, <2>2 DEF Exclusive
<1>10. ASSUME NEW r \in Runs, RunStep(r) PROVE Exclusive'
  <2>1. CASE ListUnsettled(r) \/ Leave(r) \/ AskInVain(r)
    <3>1. Active(r) /\ UNCHANGED lock /\ \E to : Goto(r, to)
      BY <2>1 DEF ListUnsettled, Leave, AskInVain, Active
    <3>2. QED
      BY <1>4, <1>6, <3>1 DEF Exclusive
  <2>2. CASE Ask(r)
    <3>1. Active(r) /\ UNCHANGED lock /\ \E to : Goto(r, to)
      BY <2>2 DEF Ask, Active
    <3>2. QED
      BY <1>4, <1>6, <3>1 DEF Exclusive
  <2>3. CASE Visit(r)
    <3>1. CASE UNCHANGED pc
      BY <1>5, <2>3, <3>1 DEF Visit, Active, Exclusive
    <3>2. CASE \E to : Goto(r, to)
      BY <1>4, <1>6, <2>3, <3>2 DEF Visit, Active, Exclusive
    <3>3. QED
      BY <2>3, <3>1, <3>2 DEF Visit
  <2>4. CASE Update(r)
    BY <1>4, <1>9, <2>4
  <2>5. CASE Release(r)
    <3>1. Active(r)
      BY <2>5 DEF Release, Active
    <3>2. \A s \in Runs : ~ Active(s)'
      BY <1>3, <1>4, <2>5, <3>1 DEF Release, Active
    <3>3. QED
      BY <3>2 DEF Exclusive
  <2>6. QED
    BY <1>10, <2>1, <2>2, <2>3, <2>4, <2>5 DEF RunStep
<1>11. ASSUME NEW e \in Events, NEW x \in Receipts, ReceiveEvent(e, x) PROVE Exclusive'
  <2>1. UNCHANGED lock /\ e \in Actors /\ e \notin Runs /\ \E to : Goto(e, to)
    BY <1>11 DEF ReceiveEvent, Actors
  <2>2. QED
    BY <1>6, <2>1 DEF Exclusive
<1>12. ASSUME NEW f \in Failures, NEW x \in Receipts, ToolFails(f, x) PROVE Exclusive'
  <2>1. UNCHANGED lock /\ f \in Actors /\ f \notin Runs /\ \E to : Goto(f, to)
    BY <1>12 DEF ToolFails, Actors
  <2>2. QED
    BY <1>6, <2>1 DEF Exclusive
<1>13. ASSUME NEW x \in Receipts, Progress(x) PROVE Exclusive'
  BY <1>5, <1>13 DEF Progress, Active, Exclusive
<1>14. CASE LeaseExpires
  <2>1. \A r \in Runs : ~ Active(r)
    BY <1>3, <1>14 DEF LeaseExpires, HolderIsGone, Holds
  <2>2. QED
    BY <1>14, <2>1 DEF LeaseExpires, Active, Exclusive
<1>15. CASE LeaseLapses
  BY <1>1, <1>2, <1>15 DEF LeaseLapses
<1>16. ASSUME NEW w \in Workers, WorkerCrashes(w) PROVE Exclusive'
  <2>1. UNCHANGED lock /\ \A r \in Runs : Active(r)' => Active(r)
    BY <1>4, <1>16 DEF WorkerCrashes, Active
  <2>2. QED
    BY <1>5, <2>1 DEF Exclusive
<1>17. ASSUME NEW e \in Events, CheckDowngrade(e) PROVE Exclusive'
  <2>1. UNCHANGED lock /\ e \in Actors /\ e \notin Runs /\ \E to : Goto(e, to)
    BY <1>17 DEF CheckDowngrade, Actors
  <2>2. QED
    BY <1>6, <2>1 DEF Exclusive
<1>18. Events \subseteq Actors /\ Failures \subseteq Actors
  BY DEF Actors
<1>19. Exclusive'
  BY <1>7, <1>1, <1>8, <1>9, <1>10, <1>11, <1>12, <1>13, <1>14, <1>15, <1>16, <1>17, <1>18
     DEF Next, Exclusive
<1>20. QED
  BY <1>1, <1>19 DEF Exclusive

-----------------------------------------------------------------------------
(* The theorems *)

\* SInv is an invariant, over either store.
THEOREM StatusInvariance == Spec => []SInv
<1>1. Init => SInv
  <2> SUFFICES ASSUME Init PROVE SInv
    OBVIOUS
  <2>1. TypeOK
    BY DEF Init, TypeOK, Statuses, Words, Free
  <2>2. QED
    BY <2>1 DEF Init, SInv, Staged, Aimed, Truthful, Actors
<1>2. QED
  BY <1>1, StatusStep, PTL DEF Spec

\* A receipt is booked settled or reversed only if the verifier did so, however
\* old the answer is that a run or an event applies.
THEOREM BookedTruly == Spec => []StatusIsTrue
<1>1. SInv => StatusIsTrue
  BY DEF SInv, Truthful, StatusIsTrue
<1>2. QED
  BY <1>1, StatusInvariance, PTL

\* Over PostgreSQL, while no lease has lapsed under its holder, two runs do not
\* reconcile at the same time, not even two of one process.
THEOREM RunsExclude == ASSUME Postgres PROVE Spec => []OneRunReconciles
<1>1. Init => Exclusive
  BY DEF Init, Exclusive, Active, Actors
<1>2. SInv /\ Exclusive /\ [Next]_vars => Exclusive'
  BY ExclusiveStep
<1>3. Exclusive => OneRunReconciles
  BY DEF Exclusive, OneRunReconciles, Working, Active
<1>4. QED
  BY <1>1, <1>2, <1>3, StatusInvariance, PTL DEF Spec

\* Over SQLite no receipt goes back, whatever runs, events and failing calls do:
\* it is read and written in one step.
THEOREM SqliteOnlyAdvances == ASSUME ~ Postgres PROVE Spec => SettlementOnlyAdvances
<1> DEFINE Advances == \A x \in Receipts :
             /\ receipt[x] = "settled" => receipt'[x] \in {"settled", "reversed"}
             /\ receipt[x] = "reversed" => receipt'[x] = "reversed"
             /\ receipt[x] = "failed" => receipt'[x] # "verified"
<1>1. ASSUME SInv, Next PROVE Advances
  <2>1. \A a \in Actors : pc[a] # "write"
    BY <1>1 DEF SInv, Staged
  <2>2. CASE UNCHANGED receipt
    BY <2>2
  <2>3. ASSUME NEW a \in Actors, UpdateAtOnce(a) PROVE Advances
    <3>1. receipt' = [receipt EXCEPT ![target[a]] = Updated(@, status[a])]
          /\ target[a] \in Receipts /\ status[a] \in Statuses
      BY <1>1, <2>3 DEF UpdateAtOnce, SInv, Aimed
    <3>2. receipt \in [Receipts -> Statuses]
      BY <1>1 DEF SInv, TypeOK
    <3>3. QED
      BY <3>1, <3>2 DEF Updated, Refused, Statuses
  <2>4. UNCHANGED receipt \/ \E a \in Actors : UpdateAtOnce(a)
    BY <1>1, <2>1 DEF Next, AcquireLock, RunStep, ListUnsettled, Visit, Leave, Ask, AskInVain,
                      Release, Update, UpdateRead, UpdateWrite, CheckDowngrade, ReceiveEvent,
                      ToolFails, Progress, LeaseExpires, LeaseLapses, WorkerCrashes, Actors
  <2>5. QED
    BY <2>2, <2>3, <2>4
<1>2. SInv /\ [Next]_vars => [Advances]_vars
  BY <1>1
<1>3. QED
  BY <1>2, StatusInvariance, PTL DEF Spec, SettlementOnlyAdvances
=============================================================================
