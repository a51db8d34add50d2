------------------------- MODULE TrustLedgerProofs -------------------------
(***************************************************************************)
(* Theorems about TrustLedger, for any subjects, evidence, bundles and     *)
(* requests, whichever of them are cut short: what stands for good, what   *)
(* a refusal leaves alone, what is announced, and that a client which      *)
(* repeats its own registration is not told that somebody else was there.  *)
(* Then what relates the tables to each other: the snapshot counts the     *)
(* evidence, disputes and revocations have what they need on record, who   *)
(* is denied by one path of the engine is not trusted by another, and      *)
(* whoever is selected is what the answer says.                            *)
(***************************************************************************)
EXTENDS TrustLedger, TrustEngineProofs

\* A resolution is not newer than the subject's snapshot, and if it names the
\* same version it was computed from it, unless an import replaced that.
Dated(s) ==
    /\ snapshot[s] = NoSnapshot \/ snapshot[s].version \in Nat \ {0}
    /\ latest[s] # NoRow =>
          /\ snapshot[s] # NoSnapshot
          /\ s \notin rolledBack =>
                /\ latest[s].snapshot.version \in Nat
                /\ latest[s].snapshot.version <= snapshot[s].version
                /\ latest[s].snapshot.version = snapshot[s].version =>
                      latest[s].snapshot = snapshot[s]

\* Every resolution is dated by its snapshot.
Versions ==
    /\ DOMAIN snapshot = Subjects /\ DOMAIN latest = Subjects
    /\ \A b \in bundles : b.snapshot.version \in Nat \ {0}
    /\ \A s \in Subjects : Dated(s)

\* A registration that was not cut short has left its key row, and no key row
\* holds the refusal of another.
Registrations ==
    /\ workload \in Workloads
    /\ DOMAIN idempotency = Keys
    /\ \A k \in Keys : idempotency[k] # NoRow =>
          idempotency[k].answer.kind \in {"created", "processed"}
    /\ DOMAIN origin = Subjects
    /\ \A s \in Subjects \ torn : origin[s] # NoKey => ~ Unanswered(origin[s])

\* The tables have a row for every subject.
Tables == DOMAIN passport = Subjects /\ DOMAIN told = Subjects /\ imports \in Nat

\* The invariant that the first theorems need.
LInv == Versions /\ Registrations /\ Tables

-----------------------------------------------------------------------------
(* Lemmas *)

\* A snapshot that is computed is one newer than the one before.
LEMMA NextSnapshot ==
    ASSUME NEW s, NEW list, NEW previous, NEW known
    PROVE  Recomputed(s, list, previous, known).version = previous.version + 1
<1>1. PICK x : x = SnapshotWith(Weighed(View(list)), now, previous,
                                Graph(s, Newest(Weighed(View(list)), Medium), known))
  OBVIOUS
<1>2. x.version = previous.version + 1
  BY <1>1 DEF SnapshotWith, SnapshotFrom, Snapshot, NextVersion
<1>3. PICK y : y = Recompute(s, list, previous, known)
  OBVIOUS
<1>4. y.version = x.version
  BY <1>1, <1>3 DEF Recompute, ComputeSnapshot, WeighIn, Without
<1>5. Saved(y).version = y.version
  BY DEF Saved, Without
<1>6. QED
  BY <1>2, <1>3, <1>4, <1>5 DEF Recomputed

\* A query that finds nothing returns nothing like a row.
LEMMA RowsAreRows ==
    ASSUME NEW x, NEW y
    PROVE  [request |-> x, answer |-> y] # NoRow
<1>1. DOMAIN [request |-> x, answer |-> y] # DOMAIN NoRow
  BY DEF NoRow
<1>2. QED
  BY <1>1

\* Filling in missing snapshots gives every subject asked for one; and who asks
\* works with the stored one, unless it lacks a score.
LEMMA Filled ==
    ASSUME Versions, NEW S
    PROVE  /\ DOMAIN StoredSnapshots(S) = Subjects
           /\ \A s \in Subjects :
                 /\ snapshot[s] # NoSnapshot => StoredSnapshots(S)[s] = snapshot[s]
                 /\ IF s \in S THEN StoredSnapshots(S)[s].version \in Nat \ {0}
                    ELSE StoredSnapshots(S)[s] = snapshot[s]
                 /\ WithSnapshots(S)[s].execution # NaN =>
                       WithSnapshots(S)[s] = StoredSnapshots(S)[s]
<1>1. NoSnapshot.version = 0
  BY DEF NoSnapshot
<1>2. ASSUME NEW s \in Subjects
      PROVE  /\ snapshot[s] # NoSnapshot => StoredSnapshots(S)[s] = snapshot[s]
             /\ IF s \in S THEN StoredSnapshots(S)[s].version \in Nat \ {0}
                ELSE StoredSnapshots(S)[s] = snapshot[s]
             /\ WithSnapshots(S)[s].execution # NaN =>
                   WithSnapshots(S)[s] = StoredSnapshots(S)[s]
  <2>1. snapshot[s] = NoSnapshot \/ snapshot[s].version \in Nat \ {0}
    BY DEF Versions, Dated
  <2>2. PICK raw, kept : /\ raw = Recompute(s, evidence[s], NoSnapshot, Known)
                         /\ kept = Recomputed(s, evidence[s], NoSnapshot, Known)
    OBVIOUS
  <2>3. /\ StoredSnapshots(S)[s] =
              IF s \in S /\ snapshot[s] = NoSnapshot THEN kept ELSE snapshot[s]
        /\ WithSnapshots(S)[s] = IF s \in S /\ snapshot[s] = NoSnapshot THEN raw ELSE snapshot[s]
    BY <2>2 DEF StoredSnapshots, WithSnapshots
  <2>4. kept.version = 1
    BY <1>1, <2>2, NextSnapshot
  <2>5. raw.execution # NaN => raw = kept
    BY <2>2 DEF Recomputed, Saved
  <2>6. QED
    BY <1>1, <2>1, <2>3, <2>4, <2>5
<1>3. QED
  BY <1>2 DEF StoredSnapshots

\* So the resolutions stay dated when missing snapshots are filled in.
LEMMA FillDates ==
    ASSUME Versions, NEW S, Fill(S), UNCHANGED <<latest, bundles>>
    PROVE  Versions'
<1>1. snapshot' = StoredSnapshots(S) /\ UNCHANGED rolledBack
  BY DEF Fill
<1>2. ASSUME NEW s \in Subjects PROVE Dated(s)'
  <2>1. Dated(s)
    BY DEF Versions
  <2>2. /\ snapshot[s] # NoSnapshot => snapshot'[s] = snapshot[s]
        /\ snapshot'[s] = snapshot[s] \/ snapshot'[s].version \in Nat \ {0}
    BY <1>1, Filled
  <2>3. QED
    BY <1>1, <2>1, <2>2 DEF Dated
<1>3. QED
  BY <1>1, <1>2, Filled DEF Versions

\* They stay dated while no snapshot changes.
LEMMA SameDates ==
    ASSUME Versions, UNCHANGED <<snapshot, latest, bundles, rolledBack>>
    PROVE  Versions'
<1>1. ASSUME NEW s \in Subjects PROVE Dated(s)'
  BY DEF Versions, Dated
<1>2. QED
  BY <1>1 DEF Versions

\* A snapshot that is newer than the one before dates them as well.
LEMMA NewerDates ==
    ASSUME Versions, NEW s, UNCHANGED <<latest, bundles, rolledBack>>, NEW x,
           snapshot' = [snapshot EXCEPT ![s] = x],
           s \in Subjects =>
              x = snapshot[s] \/ (x.version \in Nat /\ x.version > snapshot[s].version)
    PROVE  Versions'
<1>1. NoSnapshot.version = 0
  BY DEF NoSnapshot
<1>2. ASSUME NEW r \in Subjects PROVE Dated(r)'
  <2>1. Dated(r)
    BY DEF Versions
  <2>2. CASE r # s
    BY <2>1, <2>2 DEF Versions, Dated
  <2>3. CASE r = s
    <3>1. snapshot'[s] = x
      BY <2>3 DEF Versions
    <3>2. CASE x = snapshot[s]
      BY <2>1, <2>3, <3>1, <3>2 DEF Dated
    <3>3. CASE x.version \in Nat /\ x.version > snapshot[s].version
      <4>1. snapshot[s].version \in Nat /\ x.version \in Nat \ {0} /\ x # NoSnapshot
        BY <1>1, <2>1, <2>3, <3>3 DEF Dated
      <4>2. QED
        BY <2>1, <2>3, <3>1, <3>3, <4>1 DEF Dated
    <3>4. QED
      BY <2>3, <3>2, <3>3
  <2>4. QED
    BY <2>2, <2>3
<1>3. QED
  BY <1>2 DEF Versions

\* The snapshot of a subject that has one now is not older than before.
LEMMA FilledIn ==
    ASSUME Versions, NEW s \in Subjects
    PROVE  LET x == StoredSnapshots({s})[s] IN
           /\ x.version \in Nat \ {0}
           /\ x = snapshot[s] \/ x.version > snapshot[s].version
           /\ x.version >= snapshot[s].version
<1>1. NoSnapshot.version = 0
  BY DEF NoSnapshot
<1>2. Dated(s)
  BY DEF Versions
<1>3. QED
  BY <1>1, <1>2, Filled DEF Dated

-----------------------------------------------------------------------------
(* The invariant *)

\* Evidence that is recorded makes a newer snapshot.
LEMMA EvidenceDates ==
    ASSUME Versions, NEW q, NEW done, RecordEvidence(q, done)
    PROVE  Versions'
<1>1. UNCHANGED <<latest, bundles, rolledBack>>
  BY DEF RecordEvidence, rows, portability
<1>2. PICK s, list :
         \/ UNCHANGED snapshot
         \/ snapshot' = [snapshot EXCEPT ![s] = Recomputed(s, list, snapshot[s], Known)]
  BY DEF RecordEvidence
<1>3. Recomputed(s, list, snapshot[s], Known).version = snapshot[s].version + 1
  BY NextSnapshot
<1>4. s \in Subjects => snapshot[s].version \in Nat
  BY DEF Versions, Dated, NoSnapshot
<1>5. CASE UNCHANGED snapshot
  BY <1>1, <1>5, SameDates
<1>6. CASE snapshot' = [snapshot EXCEPT ![s] = Recomputed(s, list, snapshot[s], Known)]
  <2> DEFINE x == Recomputed(s, list, snapshot[s], Known)
  <2>1. s \in Subjects => x.version \in Nat /\ x.version > snapshot[s].version
    BY <1>3, <1>4
  <2> HIDE DEF x
  <2>2. snapshot' = [snapshot EXCEPT ![s] = x]
    BY <1>6 DEF x
  <2>3. QED
    BY <1>1, <2>1, <2>2, NewerDates
<1>7. QED
  BY <1>2, <1>5, <1>6

\* A dispute makes one or two newer snapshots.
LEMMA DisputeDates ==
    ASSUME Versions, NEW s, NEW picks, NEW severity, NEW preferred, NEW done,
           Dispute(s, picks, severity, preferred, done)
    PROVE  Versions'
<1>1. UNCHANGED <<latest, bundles, rolledBack>>
  BY DEF Dispute, rows, portability
<1> DEFINE snap == StoredSnapshots({s})[s]
<1>2. PICK outcome, decided : BookDispute(s, done, snap, outcome, decided)
  BY DEF Dispute, JudgeDispute, DecideDispute
<1>3. PICK opened, resolved :
         snapshot' = [snapshot EXCEPT ![s] =
            DisputedSnapshot(s, resolved, decided, done, snap, Recomputed(s, opened, snap, Known))]
  BY <1>2 DEF BookDispute
<1> DEFINE first == Recomputed(s, opened, snap, Known)
           x == DisputedSnapshot(s, resolved, decided, done, snap, first)
<1>4. x \in {snap, first, Recomputed(s, resolved, first, Known)}
  BY DEF DisputedSnapshot
<1>5. first.version = snap.version + 1 /\ Recomputed(s, resolved, first, Known).version = first.version + 1
  BY NextSnapshot
<1>6. ASSUME s \in Subjects
      PROVE  /\ snap.version \in Nat \ {0}
             /\ snap = snapshot[s] \/ snap.version > snapshot[s].version
             /\ snap.version >= snapshot[s].version
  BY <1>6, FilledIn
<1>7. s \in Subjects => snapshot[s].version \in Nat
  BY DEF Versions, Dated, NoSnapshot
<1> HIDE DEF snap, first
<1>8. s \in Subjects => x = snapshot[s] \/ (x.version \in Nat /\ x.version > snapshot[s].version)
  BY <1>4, <1>5, <1>6, <1>7
<1>9. snapshot' = [snapshot EXCEPT ![s] = x]
  BY <1>3 DEF first
<1> HIDE DEF x
<1>10. QED
  BY <1>1, <1>8, <1>9, NewerDates

\* A resolution is as new as the snapshot it is computed from.
LEMMA ResolutionDates ==
    ASSUME Versions, NEW s, NEW context, NEW named, NEW done, ResolveTrust(s, context, named, done)
    PROVE  /\ Versions'
           /\ latest' = [latest EXCEPT ![s] = [snapshot |-> snapshot'[s], context |-> context]]
           /\ s \in Subjects /\ snapshot[s] # NoSnapshot => snapshot'[s] = snapshot[s]
<1> DEFINE all == Considered(s, named) \cup {s}
<1>1. Fill(all) /\ UNCHANGED bundles
  BY DEF ResolveTrust, portability
<1>2. snapshot' = StoredSnapshots(all) /\ UNCHANGED rolledBack
  BY <1>1 DEF Fill
<1>3. latest' = [latest EXCEPT ![s] = [snapshot |-> snapshot'[s], context |-> context]]
  <2>1. PICK row : /\ row = [snapshot |-> WithSnapshots(all)[s], context |-> context]
                   /\ latest' = [latest EXCEPT ![s] = row]
    BY DEF ResolveTrust, BookResolution, AnswerResolution
  <2>2. CASE s \in Subjects
    <3>1. WithSnapshots(all)[s] = WithSnapshots({s})[s]
      BY <2>2 DEF WithSnapshots
    <3>2. WithSnapshots(all)[s].execution # NaN
      BY <3>1 DEF ResolveTrust, Unscorable
    <3> HIDE DEF all
    <3>3. WithSnapshots(all)[s] = StoredSnapshots(all)[s]
      BY <2>2, <3>2, Filled
    <3>4. QED
      BY <1>2, <2>1, <3>3
  <2>3. CASE s \notin Subjects
    BY <2>1, <2>3 DEF Versions
  <2>4. QED
    BY <2>2, <2>3
<1>4. \A r \in Subjects :
         /\ snapshot[r] # NoSnapshot => snapshot'[r] = snapshot[r]
         /\ IF r \in all THEN snapshot'[r].version \in Nat \ {0} ELSE snapshot'[r] = snapshot[r]
  BY <1>2, Filled
<1>5. s \in all
  OBVIOUS
<1> HIDE DEF all
<1>6. NoSnapshot.version = 0
  BY DEF NoSnapshot
<1>7. ASSUME NEW r \in Subjects PROVE Dated(r)'
  <2>1. Dated(r)
    BY DEF Versions
  <2>2. CASE r = s
    <3>1. latest'[s].snapshot = snapshot'[s]
      BY <1>3, <2>2 DEF Versions
    <3>2. snapshot'[s].version \in Nat \ {0}
      BY <1>4, <1>5, <2>2
    <3>3. QED
      BY <1>6, <2>2, <3>1, <3>2 DEF Dated
  <2>3. CASE r # s
    <3>1. latest'[r] = latest[r]
      BY <1>3, <2>3 DEF Versions
    <3>2. QED
      BY <1>2, <1>4, <2>1, <3>1 DEF Dated
  <2>4. QED
    BY <2>2, <2>3
<1>8. Versions'
  BY <1>1, <1>2, <1>3, <1>7, Filled DEF Versions
<1>9. s \in Subjects /\ snapshot[s] # NoSnapshot => snapshot'[s] = snapshot[s]
  BY <1>4
<1>10. QED
  BY <1>3, <1>8, <1>9

\* An import that replaces a snapshot says so.
LEMMA ImportDates ==
    ASSUME Versions, NEW b \in Foreign \cup bundles, NEW mode, NEW done, Import(b, mode, done)
    PROVE  Versions'
<1>1. UNCHANGED <<latest, bundles>>
  BY DEF Import, rows
<1>2. b.snapshot.version \in Nat \ {0}
  BY LedgerAssumption DEF Versions, LedgerAssumption
<1> DEFINE s == b.subject
           adopt == snapshot[s] = NoSnapshot \/ mode = "mirror"
           fresh == Fresh(s, b.evidence)
           list == Merged(s, fresh)
           dead == ~ adopt /\ fresh # <<>> /\ passport[s] \notin {"none", "active", "bare"}
<1>3. /\ snapshot' = IF done < 3 \/ dead \/ (~ adopt /\ fresh = <<>>) THEN snapshot
                     ELSE [snapshot EXCEPT ![s] = IF adopt THEN b.snapshot
                                                  ELSE Recomputed(s, list, snapshot[s], Known \cup {s})]
      /\ rolledBack' = IF adopt /\ done >= 3 /\ snapshot[s] # NoSnapshot
                       THEN rolledBack \cup {s} ELSE rolledBack
      /\ done \in 1 .. 4
  BY DEF Import
<1> HIDE DEF s, fresh, list, adopt, dead
<1>4. s \in Subjects => snapshot[s].version \in Nat
  BY DEF Versions, Dated, NoSnapshot
<1>5. CASE UNCHANGED <<snapshot, rolledBack>>
  BY <1>1, <1>5, SameDates
<1>6. CASE /\ UNCHANGED rolledBack
           /\ snapshot' = [snapshot EXCEPT ![s] = Recomputed(s, list, snapshot[s], Known \cup {s})]
  <2> DEFINE x == Recomputed(s, list, snapshot[s], Known \cup {s})
  <2>1. s \in Subjects => x.version \in Nat /\ x.version > snapshot[s].version
    BY <1>4, NextSnapshot
  <2> HIDE DEF x
  <2>2. snapshot' = [snapshot EXCEPT ![s] = x]
    BY <1>6 DEF x
  <2>3. QED
    BY <1>1, <1>6, <2>1, <2>2, NewerDates
<1>7. CASE /\ snapshot' = [snapshot EXCEPT ![s] = b.snapshot]
           /\ rolledBack' = IF snapshot[s] # NoSnapshot THEN rolledBack \cup {s} ELSE rolledBack
  <2>1. ASSUME NEW r \in Subjects PROVE Dated(r)'
    <3>1. Dated(r)
      BY DEF Versions
    <3>2. CASE r = s
      <4>1. snapshot'[r] = b.snapshot
        BY <1>7, <3>2 DEF Versions
      <4>2. b.snapshot # NoSnapshot
        BY <1>2 DEF NoSnapshot
      <4>3. QED
        BY <1>1, <1>2, <1>7, <3>1, <3>2, <4>1, <4>2 DEF Dated
    <3>3. CASE r # s
      <4>1. snapshot'[r] = snapshot[r] /\ (r \in rolledBack' <=> r \in rolledBack)
        BY <1>7, <3>3 DEF Versions
      <4>2. QED
        BY <1>1, <3>1, <4>1 DEF Dated
    <3>4. QED
      BY <3>2, <3>3
  <2>2. QED
    BY <1>1, <1>7, <2>1 DEF Versions
<1>8. CASE adopt
  <2>1. ~ dead /\ done \in 1 .. 4
    BY <1>3, <1>8 DEF dead
  <2>2. QED
    BY <1>3, <1>5, <1>7, <1>8, <2>1
<1>9. CASE ~ adopt
  BY <1>3, <1>5, <1>6, <1>9
<1>10. QED
  BY <1>8, <1>9

\* An export carries the snapshot of its subject.
LEMMA ExportDates ==
    ASSUME Versions, NEW s \in Subjects, Export(s)
    PROVE  Versions'
<1> DEFINE bundle == [receipt |-> <<"export", Cardinality(bundles)>>, subject |-> s,
                      evidence |-> evidence[s], snapshot |-> StoredSnapshots({s})[s]]
<1>1. Fill({s}) /\ UNCHANGED latest /\ bundles' = bundles \cup {bundle}
  BY DEF Export, rows
<1>2. bundle.snapshot.version \in Nat \ {0}
  BY FilledIn
<1>3. snapshot' = StoredSnapshots({s}) /\ UNCHANGED rolledBack
  BY <1>1 DEF Fill
<1>4. ASSUME NEW r \in Subjects PROVE Dated(r)'
  <2>1. Dated(r)
    BY DEF Versions
  <2>2. /\ snapshot[r] # NoSnapshot => snapshot'[r] = snapshot[r]
        /\ snapshot'[r] = snapshot[r] \/ snapshot'[r].version \in Nat \ {0}
    BY <1>3, Filled
  <2>3. QED
    BY <1>1, <1>3, <2>1, <2>2 DEF Dated
<1> HIDE DEF bundle
<1>5. \A b \in bundles' : b.snapshot.version \in Nat \ {0}
  BY <1>1, <1>2 DEF Versions
<1>6. QED
  BY <1>1, <1>3, <1>4, <1>5, Filled DEF Versions

\* No request spoils the dates.
LEMMA VersionsStep == ASSUME LInv, [Next]_vars PROVE Versions'
<1> USE DEF LInv
<1>1. CASE Tick \/ UNCHANGED vars
  BY <1>1, SameDates DEF Tick, vars, views, rows, portability
<1>2. ASSUME NEW q \in workload, Serve(q) PROVE Versions'
  <2>1. CASE \/ Replay(q) \/ RefusePassport(q) \/ RepeatEvidence(q)
             \/ RefuseSubject(Subject(q)) \/ \E done \in 1 .. 3 : CreatePassport(q, done)
    BY <2>1, SameDates DEF Replay, RefusePassport, RepeatEvidence, RefuseSubject,
                           CreatePassport, views, rows, portability
  <2>2. CASE \E done \in 1 .. 4 : RecordEvidence(q, done)
    BY <2>2, EvidenceDates
  <2>3. CASE \E picks \in SUBSET (DOMAIN evidence[q.subject]), done \in 1 .. 5 :
                Dispute(q.subject, picks, q.severity, q.preferred, done)
    BY <2>3, DisputeDates
  <2>4. CASE \E done \in 1 .. 2 : ResolveTrust(q.subject, q.context, q.named, done)
    BY <2>4, ResolutionDates
  <2>5. CASE \/ LoseResolution(q.subject, q.context, q.named)
             \/ \E filled \in SUBSET Subjects :
                   BlockResolution(q.subject, q.context, q.named, filled)
    BY <2>5, FillDates DEF LoseResolution, BlockResolution, rows, portability
  <2>6. CASE \/ RouteValidators(q.subject, q.candidates, q.required, q.context)
             \/ RouteExecutors(q.subject, q.candidates, q.minimum, q.downgrade, q.context)
    BY <2>6, FillDates DEF RouteValidators, RouteExecutors, rows, portability
  <2>7. CASE q.op = "export" /\ Export(q.subject)
    <3>1. workload \in Workloads
      BY DEF Registrations
    <3>2. q.subject \in Subjects
      BY <1>2, <2>7, <3>1, LedgerAssumption DEF LedgerAssumption
    <3>3. QED
      BY <2>7, <3>2, ExportDates
  <2>8. CASE \E b \in Foreign \cup bundles, done \in 1 .. 4 : Import(b, q.mode, done)
    BY <2>8, ImportDates
  <2>9. QED
    BY <1>2, <2>1, <2>2, <2>3, <2>4, <2>5, <2>6, <2>7, <2>8 DEF Serve
<1>3. QED
  BY <1>1, <1>2 DEF Next

\* Every request keeps the books of registrations.
LEMMA RegistrationsStep == ASSUME LInv, [Next]_vars PROVE Registrations'
<1> USE DEF LInv
<1>1. ASSUME UNCHANGED <<workload, idempotency>>,
             \/ UNCHANGED <<origin, torn>>
             \/ \E s : origin' = [origin EXCEPT ![s] = NoKey] /\ UNCHANGED torn
      PROVE  Registrations'
  <2>1. \A k : Unanswered(k)' <=> Unanswered(k)
    BY <1>1 DEF Unanswered
  <2>2. ASSUME NEW s \in Subjects \ torn', origin'[s] # NoKey PROVE ~ Unanswered(origin[s])'
    BY <1>1, <2>1, <2>2 DEF Registrations
  <2>3. DOMAIN origin' = Subjects
    BY <1>1 DEF Registrations
  <2>4. QED
    BY <1>1, <2>2, <2>3 DEF Registrations
<1>2. CASE Tick \/ UNCHANGED vars
  BY <1>1, <1>2 DEF Tick, vars, registry, bounds
<1>3. ASSUME NEW q \in workload, Serve(q) PROVE Registrations'
  <2>1. ASSUME NEW reply, Remember(q, reply), reply.kind \in {"created", "processed"},
               q.op \in {"passport", "evidence"}
        PROVE  /\ DOMAIN idempotency' = Keys
               /\ \A k \in Keys : idempotency'[k] # NoRow =>
                     idempotency'[k].answer.kind \in {"created", "processed"}
               /\ \A k : Unanswered(k)' => Unanswered(k)
               /\ q.key # NoKey => ~ Unanswered(q.key)'
    <3>1. CASE q.key = NoKey
      BY <2>1, <3>1 DEF Remember, Registrations, Unanswered
    <3>2. CASE q.key # NoKey
      <4>1. q.key \in Keys
        BY <2>1, <3>2, LedgerAssumption DEF Registrations, LedgerAssumption
      <4>2. idempotency' = [idempotency EXCEPT ![q.key] = [request |-> Body(q), answer |-> reply]]
        BY <2>1, <3>2 DEF Remember
      <4>3. [request |-> Body(q), answer |-> reply] # NoRow
        BY RowsAreRows
      <4>4. idempotency'[q.key] = [request |-> Body(q), answer |-> reply]
        BY <4>1, <4>2 DEF Registrations
      <4>5. \A k \in Keys \ {q.key} : idempotency'[k] = idempotency[k]
        BY <4>2 DEF Registrations
      <4>6. DOMAIN idempotency' = Keys
        BY <4>2 DEF Registrations
      <4>7. \A k \in Keys : idempotency'[k] # NoRow =>
               idempotency'[k].answer.kind \in {"created", "processed"}
        BY <2>1, <4>4, <4>5 DEF Registrations
      <4>8. \A k : Unanswered(k)' => Unanswered(k)
        BY <4>3, <4>4, <4>5 DEF Unanswered
      <4>9. ~ Unanswered(q.key)'
        BY <4>1, <4>3, <4>4 DEF Unanswered
      <4>10. QED
        BY <4>6, <4>7, <4>8, <4>9
    <3>3. QED
      BY <3>1, <3>2
  <2>2. CASE Replay(q) \/ RefusePassport(q) \/ RefuseSubject(Subject(q))
    BY <1>1, <2>2 DEF Replay, RefusePassport, RefuseSubject, registry, bounds
  <2>3. CASE q.op = "passport" /\ \E done \in 1 .. 3 : CreatePassport(q, done)
    <3>1. PICK done \in 1 .. 3 : CreatePassport(q, done)
      BY <2>3
    <3>2. /\ origin' = [origin EXCEPT ![q.subject] = q.key]
          /\ torn' = IF done < 3 THEN torn \cup {q.subject} ELSE torn
          /\ UNCHANGED workload
      BY <3>1 DEF CreatePassport, bounds
    <3>3. DOMAIN origin' = Subjects
      BY <3>2 DEF Registrations
    <3>4. CASE done = 3
      <4>1. Remember(q, [kind |-> "created", subject |-> q.subject])
        BY <3>1, <3>4 DEF CreatePassport
      <4>2. /\ DOMAIN idempotency' = Keys
            /\ \A k \in Keys : idempotency'[k] # NoRow =>
                  idempotency'[k].answer.kind \in {"created", "processed"}
            /\ \A k : Unanswered(k)' => Unanswered(k)
            /\ q.key # NoKey => ~ Unanswered(q.key)'
        BY <2>1, <2>3, <4>1
      <4>3. ASSUME NEW s \in Subjects \ torn', origin'[s] # NoKey
            PROVE  ~ Unanswered(origin[s])'
        <5> DEFINE k == origin'[s]
        <5>1. k = q.key \/ (k = origin[s] /\ s \in Subjects \ torn)
          BY <3>2, <3>4, <4>3 DEF Registrations
        <5>2. \A j : j # NoKey /\ (j = q.key \/ (j = origin[s] /\ s \in Subjects \ torn))
                 => j \in {i \in Keys : idempotency'[i] # NoRow}
          BY <4>2, <4>3 DEF Registrations, Unanswered
        <5>3. k # NoKey
          BY <4>3
        <5> HIDE DEF k
        <5>4. k \in {i \in Keys : idempotency'[i] # NoRow}
          BY <5>1, <5>2, <5>3
        <5>5. QED
          BY <5>4 DEF Unanswered, k
      <4>4. QED
        BY <3>2, <3>3, <4>2, <4>3 DEF Registrations
    <3>5. CASE done # 3
      <4>1. UNCHANGED idempotency /\ torn' = torn \cup {q.subject}
        BY <3>1, <3>2, <3>5 DEF CreatePassport
      <4>2. \A k : Unanswered(k)' <=> Unanswered(k)
        BY <4>1 DEF Unanswered
      <4>3. ASSUME NEW s \in Subjects \ torn', origin'[s] # NoKey
            PROVE  ~ Unanswered(origin[s])'
        BY <3>2, <4>1, <4>2, <4>3 DEF Registrations
      <4>4. QED
        BY <3>2, <3>3, <4>1, <4>3 DEF Registrations
    <3>6. QED
      BY <3>4, <3>5
  <2>4. CASE /\ q.op = "evidence"
             /\ RepeatEvidence(q) \/ \E done \in 1 .. 4 : RecordEvidence(q, done)
    <3>1. UNCHANGED <<workload, origin, torn>>
      BY <2>4 DEF RepeatEvidence, RecordEvidence, bounds, registry
    <3>2. UNCHANGED idempotency \/ Remember(q, Processed(q.report))
      BY <2>4 DEF RepeatEvidence, RecordEvidence
    <3>3. CASE UNCHANGED idempotency
      BY <1>1, <3>1, <3>3
    <3>4. CASE Remember(q, Processed(q.report))
      <4>1. Processed(q.report).kind = "processed"
        BY DEF Processed
      <4>2. /\ DOMAIN idempotency' = Keys
            /\ \A k \in Keys : idempotency'[k] # NoRow =>
                  idempotency'[k].answer.kind \in {"created", "processed"}
            /\ \A k : Unanswered(k)' => Unanswered(k)
        BY <2>1, <2>4, <3>4, <4>1
      <4>3. QED
        BY <3>1, <4>2 DEF Registrations
    <3>5. QED
      BY <3>2, <3>3, <3>4
  <2>5. CASE \E picks \in SUBSET (DOMAIN evidence[q.subject]), done \in 1 .. 5 :
                Dispute(q.subject, picks, q.severity, q.preferred, done)
    BY <1>1, <2>5 DEF Dispute, bounds, registry
  <2>6. CASE \/ \E done \in 1 .. 2 : ResolveTrust(q.subject, q.context, q.named, done)
             \/ LoseResolution(q.subject, q.context, q.named)
             \/ \E filled \in SUBSET Subjects :
                   BlockResolution(q.subject, q.context, q.named, filled)
    BY <1>1, <2>6 DEF ResolveTrust, BlockResolution, LoseResolution, bounds, registry
  <2>7. CASE \/ RouteValidators(q.subject, q.candidates, q.required, q.context)
             \/ RouteExecutors(q.subject, q.candidates, q.minimum, q.downgrade, q.context)
             \/ Export(q.subject)
    BY <1>1, <2>7 DEF RouteValidators, RouteExecutors, Export, bounds, registry
  <2>8. CASE \E b \in Foreign \cup bundles, done \in 1 .. 4 : Import(b, q.mode, done)
    <3>1. PICK b, done : Import(b, q.mode, done)
      BY <2>8
    <3>2. /\ UNCHANGED <<workload, idempotency, torn>>
          /\ \/ UNCHANGED origin
             \/ origin' = [origin EXCEPT ![b.subject] = NoKey]
      BY <3>1 DEF Import
    <3>3. QED
      BY <1>1, <3>2
  <2>9. QED
    BY <1>3, <2>2, <2>3, <2>4, <2>5, <2>6, <2>7, <2>8 DEF Serve
<1>4. QED
  BY <1>2, <1>3 DEF Next

\* No table loses or gains a subject.
LEMMA TablesStep == ASSUME Tables, [Next]_vars PROVE Tables'
<1> USE DEF Tables
<1>1. CASE Tick \/ UNCHANGED vars
  BY <1>1 DEF Tick, vars, registry, rows
<1>2. ASSUME NEW q \in workload, Serve(q) PROVE Tables'
  <2>1. CASE \/ Replay(q) \/ RefusePassport(q) \/ RepeatEvidence(q)
             \/ RefuseSubject(Subject(q)) \/ \E done \in 1 .. 3 : CreatePassport(q, done)
    BY <2>1 DEF Replay, RefusePassport, RepeatEvidence, RefuseSubject, CreatePassport,
                registry, rows, bounds
  <2>2. CASE \E done \in 1 .. 4 : RecordEvidence(q, done)
    BY <2>2 DEF RecordEvidence, StatusAfter, rows, bounds
  <2>3. CASE \E picks \in SUBSET (DOMAIN evidence[q.subject]), done \in 1 .. 5 :
                Dispute(q.subject, picks, q.severity, q.preferred, done)
    BY <2>3 DEF Dispute, registry, rows, bounds
  <2>4. CASE \E done \in 1 .. 2 : ResolveTrust(q.subject, q.context, q.named, done)
    BY <2>4 DEF ResolveTrust, BookResolution, AnswerResolution, registry, bounds
  <2>5. CASE \/ LoseResolution(q.subject, q.context, q.named)
             \/ \E filled \in SUBSET Subjects :
                   BlockResolution(q.subject, q.context, q.named, filled)
             \/ RouteValidators(q.subject, q.candidates, q.required, q.context)
             \/ RouteExecutors(q.subject, q.candidates, q.minimum, q.downgrade, q.context)
             \/ Export(q.subject)
    BY <2>5 DEF BlockResolution, LoseResolution, RouteValidators, RouteExecutors, Export, registry, rows, bounds
  <2>6. CASE \E b \in Foreign \cup bundles, done \in 1 .. 4 : Import(b, q.mode, done)
    BY <2>6 DEF Import, rows
  <2>7. QED
    BY <1>2, <2>1, <2>2, <2>3, <2>4, <2>5, <2>6 DEF Serve
<1>3. QED
  BY <1>1, <1>2 DEF Next

\* It holds at the start.
LEMMA InitSound == Init => LInv
<1> SUFFICES ASSUME Init PROVE LInv
  OBVIOUS
<1>1. Versions
  BY DEF Init, Versions, Dated
<1>2. Registrations
  BY DEF Init, Registrations
<1>3. Tables
  BY DEF Init, Tables
<1>4. QED
  BY <1>1, <1>2, <1>3 DEF LInv

-----------------------------------------------------------------------------
(* The theorems *)

\* LInv is an invariant.
THEOREM LedgerInvariance == Spec => []LInv
<1>1. LInv /\ [Next]_vars => LInv'
  <2> SUFFICES ASSUME LInv, [Next]_vars PROVE LInv'
    OBVIOUS
  <2>1. QED
    BY VersionsStep, RegistrationsStep, TablesStep DEF LInv
<1>2. QED
  BY <1>1, InitSound, PTL DEF Spec

\* A client that repeats its own registration under its key is not told that
\* the subject is taken, unless the first request was cut short.
THEOREM RetriesAreAccepted == Spec => []OwnRetryIsAccepted
<1> DEFINE Conflicting == answer.kind = "refused" /\ answer.code = "CONFLICTING_EVIDENCE"
<1>1. LInv /\ OwnRetryIsAccepted /\ [Next]_vars => OwnRetryIsAccepted'
  <2> SUFFICES ASSUME LInv, OwnRetryIsAccepted, [Next]_vars PROVE OwnRetryIsAccepted'
    OBVIOUS
  <2>1. CASE UNCHANGED vars
    BY <2>1 DEF vars, registry, OwnRetryIsAccepted
  <2>2. CASE Tick
    BY <2>2 DEF Tick, OwnRetryIsAccepted
  <2>3. ASSUME NEW q \in workload, Serve(q) PROVE OwnRetryIsAccepted'
    <3>1. ASSUME ~ Conflicting' PROVE OwnRetryIsAccepted'
      BY <3>1 DEF OwnRetryIsAccepted
    <3>2. CASE q.op = "passport" /\ RefusePassport(q)
      <4>1. q.subject \in Subjects
        BY <2>3, <3>2, LedgerAssumption DEF LInv, Registrations, LedgerAssumption
      <4>2. Unanswered(q.key) /\ UNCHANGED <<origin, torn>>
            /\ answer'.subject = q.subject /\ answer'.key = q.key
        BY <3>2 DEF RefusePassport, registry
      <4>3. q.key # NoKey /\ origin[q.subject] = q.key => q.subject \in torn
        BY <4>1, <4>2 DEF LInv, Registrations
      <4>4. QED
        BY <4>2, <4>3 DEF OwnRetryIsAccepted
    <3>3. CASE Replay(q)
      <4>1. q.key \in Keys /\ idempotency[q.key] # NoRow
        BY <3>3 DEF Replay, Unanswered
      <4>2. idempotency[q.key].answer.kind # "refused"
        BY <4>1 DEF LInv, Registrations
      <4>3. ~ Conflicting'
        BY <3>3, <4>2 DEF Replay, Refused
      <4>4. QED
        BY <3>1, <4>3
    <3>4. CASE RefuseSubject(Subject(q))
      <4>1. ~ Conflicting'
        BY <3>4 DEF RefuseSubject, Refused
      <4>2. QED
        BY <3>1, <4>1
    <3>5. CASE \/ \E done \in 1 .. 3 : CreatePassport(q, done)
               \/ RepeatEvidence(q)
               \/ \E done \in 1 .. 4 : RecordEvidence(q, done)
      <4>1. ~ Conflicting'
        BY <3>5 DEF CreatePassport, RepeatEvidence, RecordEvidence, Crashed, Processed
      <4>2. QED
        BY <3>1, <4>1
    <3>6. CASE \E picks \in SUBSET (DOMAIN evidence[q.subject]), done \in 1 .. 5 :
                  Dispute(q.subject, picks, q.severity, q.preferred, done)
      <4>1. ~ Conflicting'
        BY <3>6 DEF Dispute, JudgeDispute, DecideDispute, BookDispute, Crashed
      <4>2. QED
        BY <3>1, <4>1
    <3>7. CASE \/ \E done \in 1 .. 2 : ResolveTrust(q.subject, q.context, q.named, done)
               \/ LoseResolution(q.subject, q.context, q.named)
               \/ \E filled \in SUBSET Subjects :
                     BlockResolution(q.subject, q.context, q.named, filled)
      <4> DEFINE Told == \E c, n, r, e, v : answer' =
                   [kind |-> "resolved", subject |-> q.subject, context |-> c, named |-> n,
                    recommended |-> r, escrow |-> e, events |-> v]
      <4>1. \/ answer' \in {Crashed, Refused("LOW_CONFIDENCE"), Refused("CANDIDATE"),
                           Refused("INTERNAL")}
            \/ Told
        <5>1. ASSUME NEW done, ResolveTrust(q.subject, q.context, q.named, done)
              PROVE  answer' \in {Crashed, Refused("LOW_CONFIDENCE")} \/ Told
          <6>1. PICK row, recommended : AnswerResolution(q.subject, row, q.named, done,
                                                         Outcome(row), recommended)
            BY <5>1 DEF ResolveTrust, BookResolution
          <6>2. QED
            BY <6>1 DEF AnswerResolution
        <5>2. QED
          BY <3>7, <5>1 DEF BlockResolution, LoseResolution
      <4>2. ~ Conflicting'
        BY <4>1 DEF Crashed, Refused
      <4>3. QED
        BY <3>1, <4>2
    <3>8. CASE \/ RouteValidators(q.subject, q.candidates, q.required, q.context)
               \/ RouteExecutors(q.subject, q.candidates, q.minimum, q.downgrade, q.context)
               \/ Export(q.subject)
      <4>1. ~ Conflicting'
        BY <3>8 DEF RouteValidators, RouteExecutors, Export
      <4>2. QED
        BY <3>1, <4>1
    <3>9. CASE \E b \in Foreign \cup bundles, done \in 1 .. 4 : Import(b, q.mode, done)
      <4>1. ~ Conflicting'
        BY <3>9 DEF Import, Crashed
      <4>2. QED
        BY <3>1, <4>1
    <3>10. QED
      BY <2>3, <3>2, <3>3, <3>4, <3>5, <3>6, <3>7, <3>8, <3>9 DEF Serve
  <2>4. QED
    BY <2>1, <2>2, <2>3 DEF Next
<1>2. Init => OwnRetryIsAccepted
  BY DEF Init, OwnRetryIsAccepted
<1>3. QED
  BY <1>1, <1>2, LedgerInvariance, PTL DEF Spec

\* A request that is refused leaves passports, evidence, disputes and receipts as
\* they were, except an import of a known receipt or of a revoked subject.
THEOREM RefusalsAreClean == Spec => RefusalChangesNothing
<1> DEFINE Clean == answer'.kind = "refused" /\ answer'.code # "IMPORT" =>
                       UNCHANGED <<passport, evidence, disputes, receipts>>
<1>1. Next => Clean
  <2>1. CASE Tick
    BY <2>1 DEF Tick
  <2>2. ASSUME NEW q \in workload, Serve(q) PROVE Clean
    <3>1. CASE \/ Replay(q) \/ RefusePassport(q) \/ RepeatEvidence(q)
               \/ RefuseSubject(Subject(q))
      BY <3>1 DEF Replay, RefusePassport, RepeatEvidence, RefuseSubject,
                  registry, records, portability
    <3>2. CASE \E done \in 1 .. 3 : CreatePassport(q, done)
      BY <3>2 DEF CreatePassport, Crashed
    <3>3. CASE \E done \in 1 .. 4 : RecordEvidence(q, done)
      BY <3>3 DEF RecordEvidence, Crashed, Processed
    <3>4. CASE \E picks \in SUBSET (DOMAIN evidence[q.subject]), done \in 1 .. 5 :
                  Dispute(q.subject, picks, q.severity, q.preferred, done)
      BY <3>4 DEF Dispute, JudgeDispute, DecideDispute, BookDispute, Crashed
    <3>5. CASE \/ \E done \in 1 .. 2 : ResolveTrust(q.subject, q.context, q.named, done)
               \/ LoseResolution(q.subject, q.context, q.named)
               \/ \E filled \in SUBSET Subjects :
                     BlockResolution(q.subject, q.context, q.named, filled)
      BY <3>5 DEF ResolveTrust, BlockResolution, LoseResolution, registry, records, portability
    <3>6. CASE \/ RouteValidators(q.subject, q.candidates, q.required, q.context)
               \/ RouteExecutors(q.subject, q.candidates, q.minimum, q.downgrade, q.context)
               \/ Export(q.subject)
      BY <3>6 DEF RouteValidators, RouteExecutors, Export
    <3>7. CASE \E b \in Foreign \cup bundles, done \in 1 .. 4 : Import(b, q.mode, done)
      BY <3>7 DEF Import, Crashed
    <3>8. QED
      BY <2>2, <3>1, <3>2, <3>3, <3>4, <3>5, <3>6, <3>7 DEF Serve
  <2>3. QED
    BY <2>1, <2>2 DEF Next
<1>2. [Next]_vars => [Clean]_vars
  BY <1>1
<1>3. QED
  BY <1>2, PTL DEF Spec, RefusalChangesNothing

\* Only a resolution changes what the newest resolution of a subject is.
LEMMA OnlyResolved ==
    ASSUME Next, ~ \E q \in workload, done \in 1 .. 2 :
                       ResolveTrust(q.subject, q.context, q.named, done)
    PROVE  UNCHANGED <<latest, told>>
<1>1. CASE Tick
  BY <1>1 DEF Tick, rows
<1>2. ASSUME NEW q \in workload, Serve(q) PROVE UNCHANGED <<latest, told>>
  <2>1. CASE \/ Replay(q) \/ RefusePassport(q) \/ RepeatEvidence(q)
             \/ RefuseSubject(Subject(q)) \/ \E done \in 1 .. 3 : CreatePassport(q, done)
    BY <2>1 DEF Replay, RefusePassport, RepeatEvidence, RefuseSubject, CreatePassport, rows
  <2>2. CASE \E done \in 1 .. 4 : RecordEvidence(q, done)
    BY <2>2 DEF RecordEvidence, rows
  <2>3. CASE \E picks \in SUBSET (DOMAIN evidence[q.subject]), done \in 1 .. 5 :
                Dispute(q.subject, picks, q.severity, q.preferred, done)
    BY <2>3 DEF Dispute, rows
  <2>4. CASE \/ LoseResolution(q.subject, q.context, q.named)
             \/ \E filled \in SUBSET Subjects :
                   BlockResolution(q.subject, q.context, q.named, filled)
             \/ RouteValidators(q.subject, q.candidates, q.required, q.context)
             \/ RouteExecutors(q.subject, q.candidates, q.minimum, q.downgrade, q.context)
             \/ Export(q.subject)
    BY <2>4 DEF BlockResolution, LoseResolution, RouteValidators, RouteExecutors, Export, rows
  <2>5. CASE \E b \in Foreign \cup bundles, done \in 1 .. 4 : Import(b, q.mode, done)
    BY <2>5 DEF Import, rows
  <2>6. QED
    BY <1>2, <2>1, <2>2, <2>3, <2>4, <2>5 DEF Serve
<1>3. QED
  BY <1>1, <1>2 DEF Next

\* A resolution leaves alone what a revoked subject's record says, and names a
\* snapshot version that was named before for the same snapshot only.
LEMMA ResolutionsStand ==
    ASSUME LInv, NEW s, NEW context, NEW named, NEW done, ResolveTrust(s, context, named, done),
           NEW r \in Subjects
    PROVE  RevokedIsFinal(r) /\ VersionNamesSnapshot(r)
<1> USE DEF LInv
<1>1. latest' = [latest EXCEPT ![s] = [snapshot |-> snapshot'[s], context |-> context]]
  BY ResolutionDates
<1>2. UNCHANGED <<passport, evidence, disputes, imports, rolledBack>>
  BY DEF ResolveTrust, Fill, registry, records, bounds
<1>3. RevokedIsFinal(r)
  <2>1. SUFFICES ASSUME passport[r] = "revoked" PROVE RevokedIsFinal(r)
    BY DEF RevokedIsFinal
  <2>2. r # s
    BY <2>1 DEF ResolveTrust, Live
  <2>3. latest'[r] = latest[r]
    BY <1>1, <2>2 DEF Versions
  <2>4. r \in Considered(s, named) => snapshot[r] # NoSnapshot
    BY <2>1 DEF ResolveTrust, Live
  <2>5. snapshot' = StoredSnapshots(Considered(s, named) \cup {s})
    BY DEF ResolveTrust, Fill
  <2>6. snapshot'[r] = snapshot[r]
    BY <2>2, <2>4, <2>5, Filled
  <2>7. QED
    BY <1>2, <2>1, <2>3, <2>6 DEF RevokedIsFinal
<1>4. VersionNamesSnapshot(r)
  <2>1. CASE r # s
    <3>1. latest'[r] = latest[r]
      BY <1>1, <2>1 DEF Versions
    <3>2. QED
      BY <3>1 DEF VersionNamesSnapshot
  <2>2. CASE r = s
    <3>1. latest'[r].snapshot = snapshot'[r]
      BY <1>1, <2>2 DEF Versions
    <3>2. snapshot[r] # NoSnapshot => snapshot'[r] = snapshot[r]
      BY <2>2, ResolutionDates
    <3>3. Dated(r)
      BY DEF Versions
    <3>4. QED
      BY <3>1, <3>2, <3>3 DEF VersionNamesSnapshot, Dated
  <2>3. QED
    BY <2>1, <2>2
<1>5. QED
  BY <1>3, <1>4

\* No other request says anything new about a revoked subject.
LEMMA RevocationsStand ==
    ASSUME LInv, Next, UNCHANGED latest, NEW r \in Subjects, passport[r] = "revoked"
    PROVE  /\ passport'[r] = "revoked" /\ disputes'[r] = disputes[r]
           /\ imports' # imports \/ (evidence'[r] = evidence[r] /\ snapshot'[r] = snapshot[r])
<1> USE DEF LInv
<1> DEFINE Stands == /\ passport'[r] = "revoked" /\ disputes'[r] = disputes[r]
                     /\ \/ imports' # imports
                        \/ evidence'[r] = evidence[r] /\ snapshot'[r] = snapshot[r]
<1>1. CASE Tick
  BY <1>1 DEF Tick, registry, records, views
<1>2. ASSUME NEW S, r \notin S, Fill(S) PROVE snapshot'[r] = snapshot[r]
  BY <1>2, Filled DEF Fill
<1>3. ASSUME NEW q \in workload, Serve(q) PROVE Stands
  <2>1. CASE Replay(q) \/ RefusePassport(q) \/ RepeatEvidence(q) \/ RefuseSubject(Subject(q))
    BY <2>1 DEF Replay, RefusePassport, RepeatEvidence, RefuseSubject, registry, records, views
  <2>2. CASE \E done \in 1 .. 3 : CreatePassport(q, done)
    <3>1. r # q.subject
      BY <2>2 DEF CreatePassport
    <3>2. QED
      BY <2>2, <3>1 DEF CreatePassport, records, views, Tables
  <2>3. CASE \E done \in 1 .. 4 : RecordEvidence(q, done)
    <3>1. r # About[q.report]
      BY <2>3 DEF RecordEvidence, Live
    <3>2. QED
      BY <2>3, <3>1 DEF RecordEvidence, StatusAfter, Tables
  <2>4. CASE \E picks \in SUBSET (DOMAIN evidence[q.subject]), done \in 1 .. 5 :
                Dispute(q.subject, picks, q.severity, q.preferred, done)
    <3>1. r # q.subject
      BY <2>4 DEF Dispute, Live
    <3>2. QED
      BY <2>4, <3>1 DEF Dispute, JudgeDispute, DecideDispute, BookDispute, registry
  <2>5. CASE \E done \in 1 .. 2 : ResolveTrust(q.subject, q.context, q.named, done)
    <3>1. RevokedIsFinal(r)
      BY <2>5, ResolutionsStand
    <3>2. QED
      BY <3>1 DEF RevokedIsFinal
  <2>6. CASE \E filled \in SUBSET Subjects :
                BlockResolution(q.subject, q.context, q.named, filled)
    <3>1. PICK filled \in SUBSET Subjects :
             BlockResolution(q.subject, q.context, q.named, filled)
      BY <2>6
    <3>2. r \notin filled \cup {q.subject} /\ Fill(filled \cup {q.subject})
      BY <3>1 DEF BlockResolution, Live
    <3>3. snapshot'[r] = snapshot[r]
      BY <1>2, <3>2
    <3>4. QED
      BY <3>1, <3>3 DEF BlockResolution, registry, records
  <2>12. CASE LoseResolution(q.subject, q.context, q.named)
    <3>1. /\ r # q.subject
          /\ r \in Considered(q.subject, q.named) => snapshot[r] # NoSnapshot
          /\ snapshot' = StoredSnapshots(Considered(q.subject, q.named) \cup {q.subject})
      BY <2>12 DEF LoseResolution, Live, Fill
    <3>2. snapshot'[r] = snapshot[r]
      BY <3>1, Filled
    <3>3. QED
      BY <2>12, <3>2 DEF LoseResolution, registry, records
  <2>7. CASE RouteValidators(q.subject, q.candidates, q.required, q.context)
    <3> DEFINE S == {c \in Listed(q.candidates) \cap Validators : passport[c] = "active"}
                      \cup {q.subject}
    <3>1. r \notin S /\ Fill(S)
      BY <2>7 DEF RouteValidators, Live
    <3>2. snapshot'[r] = snapshot[r]
      BY <1>2, <3>1
    <3>3. QED
      BY <2>7, <3>2 DEF RouteValidators, registry, records
  <2>8. CASE RouteExecutors(q.subject, q.candidates, q.minimum, q.downgrade, q.context)
    <3> DEFINE S == {c \in Listed(q.candidates) \cap Executors : Live(passport[c])}
    <3>1. r \notin S /\ Fill(S)
      BY <2>8 DEF RouteExecutors, Live
    <3>2. snapshot'[r] = snapshot[r]
      BY <1>2, <3>1
    <3>3. QED
      BY <2>8, <3>2 DEF RouteExecutors, registry, records
  <2>9. CASE Export(q.subject)
    <3>1. r \notin {q.subject} /\ Fill({q.subject})
      BY <2>9 DEF Export, Live
    <3>2. snapshot'[r] = snapshot[r]
      BY <1>2, <3>1
    <3>3. QED
      BY <2>9, <3>2 DEF Export, registry, records
  <2>10. CASE \E b \in Foreign \cup bundles, done \in 1 .. 4 : Import(b, q.mode, done)
    BY <2>10 DEF Import, Tables
  <2>11. QED
    BY <1>3, <2>1, <2>2, <2>3, <2>4, <2>5, <2>6, <2>7, <2>8, <2>9, <2>10, <2>12 DEF Serve
<1>4. QED
  BY <1>1, <1>3 DEF Next

\* A revoked passport stays revoked and nothing new is said of its subject; and a
\* version that is named twice names one snapshot, unless an import replaced it.
THEOREM HistoryIsKept == Spec => HistoryStands
<1> DEFINE Stand == \A s \in Subjects : RevokedIsFinal(s) /\ VersionNamesSnapshot(s)
<1>1. LInv /\ Next => Stand
  <2> SUFFICES ASSUME LInv, Next, NEW r \in Subjects
               PROVE  RevokedIsFinal(r) /\ VersionNamesSnapshot(r)
    OBVIOUS
  <2>1. CASE \E q \in workload, done \in 1 .. 2 :
                ResolveTrust(q.subject, q.context, q.named, done)
    BY <2>1, ResolutionsStand
  <2>2. CASE UNCHANGED latest
    BY <2>2, RevocationsStand DEF RevokedIsFinal, VersionNamesSnapshot
  <2>3. QED
    BY <2>1, <2>2, OnlyResolved
<1>2. LInv /\ [Next]_vars => [Stand]_vars
  BY <1>1
<1>3. QED
  BY <1>2, LedgerInvariance, PTL DEF Spec, HistoryStands

\* A subject that has come to be quarantined since a caller was last told about
\* it is announced to the next one that asks, whatever else changed.
THEOREM QuarantinesAreAnnounced == Spec => QuarantineIsAnnounced
<1> DEFINE Announced ==
      \A s \in Subjects :
         told'[s] # told[s] /\ told[s] # NoRow /\ told[s] = latest[s] =>
            (Outcome(told[s]).state # "QUARANTINED" /\ Outcome(told'[s]).state = "QUARANTINED" =>
               {"AGENT_QUARANTINED", "TRUST_COLLAPSE"} \subseteq answer'.events)
<1>1. ASSUME NEW before, NEW after, before.state # "QUARANTINED", after.state = "QUARANTINED"
      PROVE  {"AGENT_QUARANTINED", "TRUST_COLLAPSE"} \subseteq TrustEvent(before, after)
  <2>1. {"AGENT_QUARANTINED", "TRUST_COLLAPSE"} \subseteq StateEvents(before, after)
    BY <1>1 DEF StateEvents
  <2> DEFINE extra == ExtraEvents(before, after)
  <2>2. {"AGENT_QUARANTINED", "TRUST_COLLAPSE"} \subseteq extra
    BY <2>1 DEF ExtraEvents
  <2> HIDE DEF extra
  <2>3. extra # {}
    BY <2>2
  <2>4. extra \subseteq TrustEvent(before, after)
    BY <2>3 DEF TrustEvent, extra
  <2>5. QED
    BY <2>2, <2>4
<1>2. LInv /\ Next => Announced
  <2> SUFFICES ASSUME LInv, Next, NEW s \in Subjects,
                      told'[s] # told[s], told[s] # NoRow, told[s] = latest[s],
                      Outcome(told[s]).state # "QUARANTINED",
                      Outcome(told'[s]).state = "QUARANTINED"
               PROVE  {"AGENT_QUARANTINED", "TRUST_COLLAPSE"} \subseteq answer'.events
    OBVIOUS
  <2>1. PICK q \in workload, done \in 1 .. 2 : ResolveTrust(q.subject, q.context, q.named, done)
    BY OnlyResolved
  <2>2. PICK row, recommended :
           AnswerResolution(q.subject, row, q.named, done, Outcome(row), recommended)
    BY <2>1 DEF ResolveTrust, BookResolution
  <2>3. s = q.subject
    BY <2>2 DEF AnswerResolution, LInv, Tables
  <2>4. told'[s] = row
    BY <2>2, <2>3 DEF AnswerResolution, LInv, Tables
  <2>5. answer'.events = TrustEvent(Outcome(latest[s]), Outcome(row))
    BY <2>2, <2>3 DEF AnswerResolution, LInv, Tables
  <2>6. QED
    BY <1>1, <2>4, <2>5
<1>3. LInv /\ [Next]_vars => [Announced]_vars
  BY <1>2
<1>4. QED
  BY <1>3, LedgerInvariance, PTL DEF Spec, QuarantineIsAnnounced

-----------------------------------------------------------------------------
(* The lists of evidence *)

\* Where Insert puts an entry: before the first that is not newer.
PlaceIn(list, e) == Min({i \in DOMAIN list : list[i].at <= e.at} \cup {Len(list) + 1})

\* What Insert returns, place by place.
Inserted(new, list, e, p) ==
    /\ new \in Seq(Entry) /\ Len(new) = Len(list) + 1
    /\ \A i \in 1 .. p - 1 : new[i] = list[i] /\ ~ (list[i].at <= e.at)
    /\ new[p] = e
    /\ \A i \in p + 1 .. Len(list) + 1 : new[i] = list[i - 1]
    /\ p \in 1 .. Len(list) + 1
    /\ p <= Len(list) => list[p].at <= e.at

\* Insert puts the entry there and leaves the others in their order.
LEMMA InsertInserts ==
    ASSUME NEW list \in Seq(Entry), NEW e \in Entry
    PROVE  \E p : Inserted(Insert(list, e), list, e, p)
<1>0. PICK n \in Nat : n = Len(list)
  OBVIOUS
<1> DEFINE E == {i \in DOMAIN list : list[i].at <= e.at} \cup {n + 1}
<1>1. n \in Nat /\ DOMAIN list = 1 .. n
  BY <1>0
<1>2. E \subseteq Nat /\ E # {}
  BY <1>1
<1>3. PICK p : p = Min(E)
  OBVIOUS
<1> HIDE DEF E
<1>4. \E m \in E : \A x \in E : m <= x
  BY <1>2, MinExists, Zenon
<1>5. p \in E /\ \A x \in E : p <= x
  BY <1>3, <1>4, Zenon DEF Min
<1>6. p \in 1 .. n + 1 /\ (p <= n => list[p].at <= e.at)
  BY <1>1, <1>5 DEF E
<1>7. ASSUME NEW i \in 1 .. p - 1 PROVE i \in 1 .. n /\ ~ (list[i].at <= e.at)
  <2>1. i \in 1 .. n /\ i < p /\ i \in Int /\ p \in Int
    BY <1>1, <1>6
  <2>2. i \notin E
    BY <1>5, <2>1
  <2>3. QED
    BY <1>1, <2>1, <2>2 DEF E
<1>8. PICK k \in 0 .. n : k = p - 1
  BY <1>1, <1>6
<1>9. PICK new \in Seq(Entry) : Spliced(new, list, n, e, k)
  BY <1>0, SpliceIsList
<1>10. p = k + 1 /\ k + 2 = p + 1
  BY <1>6, <1>8
<1>11. Insert(list, e) = SubSeq(list, 1, p - 1) \o <<e>> \o SubSeq(list, p, n)
  BY <1>0, <1>3 DEF Insert, E
<1>12. Insert(list, e) = new
  BY <1>8, <1>9, <1>10, <1>11, Zenon DEF Spliced
<1>13. QED
  BY <1>0, <1>6, <1>7, <1>8, <1>9, <1>10, <1>12 DEF Inserted, Spliced

\* Newest first.
Ordered(list) == \A i, j \in DOMAIN list : i < j => list[i].at >= list[j].at

\* A list of evidence as the table keeps it.
Good(list) == list \in Seq(Entry) /\ Once(list) /\ Ordered(list)

\* A report is in a list.
Occurs(list, r) == \E i \in DOMAIN list : list[i].report = r

\* A list of evidence stays one when what is new to it is inserted.
LEMMA InsertKeeps ==
    ASSUME NEW list, Good(list), NEW e \in Entry, e.report \in Lifecycle \/ ~ Occurs(list, e.report)
    PROVE  Good(Insert(list, e)) /\ Listed(Insert(list, e)) = Listed(list) \cup {e}
<1>1. list \in Seq(Entry) /\ Once(list) /\ Ordered(list)
  BY DEF Good
<1>2. PICK new : new = Insert(list, e)
  OBVIOUS
<1>3. PICK p : Inserted(new, list, e, p)
  BY <1>1, <1>2, InsertInserts
<1>4. PICK n \in Nat : n = Len(list)
  BY <1>1
<1>5. DOMAIN list = 1 .. n /\ \A i \in 1 .. n : list[i] \in Entry
  BY <1>1, <1>4
<1>6. /\ new \in Seq(Entry) /\ DOMAIN new = 1 .. n + 1 /\ p \in 1 .. n + 1 /\ new[p] = e
      /\ \A i \in 1 .. p - 1 : new[i] = list[i] /\ ~ (list[i].at <= e.at)
      /\ \A i \in p + 1 .. n + 1 : new[i] = list[i - 1]
      /\ p <= n => list[p].at <= e.at
  BY <1>3, <1>4 DEF Inserted
<1>7. \A x \in Entry : x.at \in Nat /\ x.report \in Reports \cup Lifecycle
  BY DEF Entry
<1>8. ASSUME NEW i \in 1 .. n + 1
      PROVE  \/ i < p /\ i \in 1 .. n /\ new[i] = list[i] /\ list[i].at > e.at
             \/ i = p /\ new[i] = e
             \/ i > p /\ i - 1 \in 1 .. n /\ i - 1 >= p /\ new[i] = list[i - 1] /\ list[i - 1].at <= e.at
  <2>1. CASE i < p
    <3>1. i \in 1 .. p - 1 /\ i \in 1 .. n
      BY <1>6, <2>1
    <3>2. list[i].at \in Nat /\ e.at \in Nat
      BY <1>5, <1>7, <3>1
    <3>3. QED
      BY <1>6, <2>1, <3>1, <3>2
  <2>2. CASE i = p
    BY <1>6, <2>2
  <2>3. CASE i > p
    <3>1. i \in p + 1 .. n + 1 /\ i - 1 \in 1 .. n /\ i - 1 >= p /\ p \in 1 .. n
      BY <1>6, <2>3
    <3>2. PICK k \in 1 .. n : k = i - 1
      BY <3>1
    <3>3. list[k].at \in Nat /\ list[p].at \in Nat /\ e.at \in Nat
      BY <1>5, <1>7, <3>1
    <3>4. p < k => list[p].at >= list[k].at
      BY <1>1, <1>5, <3>1 DEF Ordered
    <3>5. list[p].at <= e.at
      BY <1>6, <3>1
    <3>6. list[k].at <= e.at
      BY <3>1, <3>2, <3>3, <3>4, <3>5
    <3>7. QED
      BY <1>6, <2>3, <3>1, <3>2, <3>6
  <2>4. QED
    BY <1>6, <2>1, <2>2, <2>3
<1>9. Listed(new) = Listed(list) \cup {e}
  <2>1. ASSUME NEW x \in Listed(new) PROVE x \in Listed(list) \cup {e}
    <3>1. PICK i \in 1 .. n + 1 : x = new[i]
      BY <1>6 DEF Listed
    <3>2. QED
      BY <1>5, <1>8, <3>1 DEF Listed
  <2>2. ASSUME NEW x \in Listed(list) PROVE x \in Listed(new)
    <3>1. PICK i \in 1 .. n : x = list[i]
      BY <1>5 DEF Listed
    <3>2. CASE i < p
      <4>1. i \in 1 .. p - 1 /\ i \in 1 .. n + 1
        BY <1>6, <3>2
      <4>2. QED
        BY <1>6, <3>1, <4>1 DEF Listed
    <3>3. CASE i >= p
      <4>1. i + 1 \in p + 1 .. n + 1 /\ i + 1 \in 1 .. n + 1 /\ (i + 1) - 1 = i
        BY <1>6, <3>3
      <4>2. QED
        BY <1>6, <3>1, <4>1 DEF Listed
    <3>4. QED
      BY <1>6, <3>2, <3>3
  <2>3. e \in Listed(new)
    BY <1>6 DEF Listed
  <2>4. QED
    BY <2>1, <2>2, <2>3
<1>10. Ordered(new)
  <2>1. ASSUME NEW i \in 1 .. n + 1, NEW j \in 1 .. n + 1, i < j PROVE new[i].at >= new[j].at
    <3>1. PICK k \in Int : k = i - 1
      OBVIOUS
    <3>2. PICK l \in Int : l = j - 1
      OBVIOUS
    <3>3. \/ i < p /\ i \in 1 .. n /\ new[i] = list[i] /\ list[i].at > e.at
          \/ i = p /\ new[i] = e
          \/ i > p /\ k \in 1 .. n /\ new[i] = list[k] /\ list[k].at <= e.at
      BY <1>8, <3>1
    <3>4. \/ j < p /\ j \in 1 .. n /\ new[j] = list[j] /\ list[j].at > e.at
          \/ j = p /\ new[j] = e
          \/ j > p /\ l \in 1 .. n /\ new[j] = list[l] /\ list[l].at <= e.at
      BY <1>8, <3>2
    <3>5. \A x, y \in 1 .. n : x < y => list[x].at >= list[y].at
      BY <1>1, <1>5 DEF Ordered
    <3>6. \A x \in 1 .. n : list[x].at \in Nat
      BY <1>5, <1>7
    <3>7. e.at \in Nat
      BY <1>7
    <3>8. CASE i > p
      <4>1. k < l /\ j > p
        BY <1>6, <2>1, <3>1, <3>2, <3>8
      <4>2. QED
        BY <1>6, <3>3, <3>4, <3>5, <3>8, <4>1
    <3>9. CASE i = p
      BY <1>6, <2>1, <3>3, <3>4, <3>6, <3>7, <3>9
    <3>10. CASE i < p
      BY <1>6, <2>1, <3>3, <3>4, <3>5, <3>6, <3>7, <3>10
    <3>11. QED
      BY <1>6, <3>8, <3>9, <3>10
  <2>2. QED
    BY <1>6, <2>1 DEF Ordered
<1>11. Once(new)
  <2>1. ASSUME NEW i \in 1 .. n + 1, NEW j \in 1 .. n + 1, i < j, new[i].report = new[j].report
        PROVE  new[i].report \in Lifecycle
    <3>1. PICK k \in Int : k = i - 1
      OBVIOUS
    <3>2. PICK l \in Int : l = j - 1
      OBVIOUS
    <3>3. \/ i < p /\ i \in 1 .. n /\ new[i] = list[i]
          \/ i = p /\ new[i] = e
          \/ i > p /\ k \in 1 .. n /\ new[i] = list[k]
      BY <1>8, <3>1
    <3>4. \/ j < p /\ j \in 1 .. n /\ new[j] = list[j]
          \/ j = p /\ new[j] = e
          \/ j > p /\ l \in 1 .. n /\ l >= p /\ new[j] = list[l]
      BY <1>8, <3>2
    <3>5. \A x, y \in 1 .. n : x < y /\ list[x].report = list[y].report => list[x].report \in Lifecycle
      BY <1>1, <1>5 DEF Once
    <3>6. \A x \in 1 .. n : list[x].report = e.report => e.report \in Lifecycle
      BY <1>5 DEF Occurs
    <3>7. k < l /\ (i < p /\ l >= p => i < l)
      BY <1>6, <2>1, <3>1, <3>2
    <3>8. i < p /\ j < p => i \in 1 .. n /\ j \in 1 .. n
      BY <3>3, <3>4, <1>6
    <3>9. CASE i = p
      BY <1>6, <2>1, <3>3, <3>4, <3>6, <3>9
    <3>10. CASE j = p
      BY <1>6, <2>1, <3>3, <3>4, <3>6, <3>10
    <3>11. CASE i # p /\ j # p
      BY <1>6, <2>1, <3>3, <3>4, <3>5, <3>7, <3>11
    <3>12. QED
      BY <3>9, <3>10, <3>11
  <2>2. QED
    BY <1>6, <2>1 DEF Once
<1>12. QED
  BY <1>2, <1>6, <1>9, <1>10, <1>11 DEF Good

\* How often a list names a report.
Count(list, r) == Cardinality({i \in DOMAIN list : list[i].report = r})

\* None is lost by an insertion, and what is inserted counts.
LEMMA InsertCounts ==
    ASSUME NEW list \in Seq(Entry), NEW e \in Entry, NEW r
    PROVE  /\ Count(list, r) \in Nat /\ Count(Insert(list, e), r) \in Nat
           /\ Count(Insert(list, e), r) >= Count(list, r)
           /\ e.report = r => Count(Insert(list, e), r) >= Count(list, r) + 1
<1>1. PICK new : new = Insert(list, e)
  OBVIOUS
<1>2. PICK p : Inserted(new, list, e, p)
  BY <1>1, InsertInserts
<1>3. PICK n \in Nat : n = Len(list)
  OBVIOUS
<1>4. /\ DOMAIN list = 1 .. n /\ DOMAIN new = 1 .. n + 1 /\ p \in 1 .. n + 1 /\ new[p] = e
      /\ \A i \in 1 .. p - 1 : new[i] = list[i]
      /\ \A i \in p + 1 .. n + 1 : new[i] = list[i - 1]
  BY <1>2, <1>3 DEF Inserted
<1> DEFINE P == {i \in DOMAIN list : list[i].report = r}
           Q == {i \in DOMAIN new : new[i].report = r}
           f == [i \in P |-> IF i < p THEN i ELSE i + 1]
<1>5. P \subseteq 1 .. n /\ Q \subseteq 1 .. n + 1
  BY <1>4
<1>6. IsFiniteSet(P) /\ IsFiniteSet(Q) /\ IsFiniteSet(Q \ {p})
  <2>1. 1 \in Int /\ n + 1 \in Int /\ P \in SUBSET (1 .. n + 1) /\ Q \in SUBSET (1 .. n + 1)
    BY <1>5
  <2> HIDE DEF P, Q
  <2>2. IsFiniteSet(1 .. n + 1)
    BY <2>1, FS_Interval
  <2>3. IsFiniteSet(P) /\ IsFiniteSet(Q)
    BY <2>1, <2>2, FS_Subset, Zenon
  <2>4. QED
    BY <2>3, FS_RemoveElement
<1>7. ASSUME NEW i \in P PROVE f[i] \in Q \ {p}
  <2>1. i \in 1 .. n /\ list[i].report = r
    BY <1>4
  <2>2. CASE i < p
    <3>1. i \in 1 .. p - 1 /\ i \in 1 .. n + 1 /\ f[i] = i /\ i # p
      BY <1>4, <2>1, <2>2
    <3>2. QED
      BY <1>4, <2>1, <3>1
  <2>3. CASE i >= p
    <3>1. PICK k \in p + 1 .. n + 1 : k = i + 1 /\ k # p /\ k \in 1 .. n + 1 /\ k - 1 = i
      BY <1>4, <2>1, <2>3
    <3>2. f[i] = k
      BY <1>4, <2>1, <2>3, <3>1
    <3>3. new[k] = list[i]
      BY <1>4, <3>1
    <3>4. QED
      BY <1>4, <2>1, <3>1, <3>2, <3>3
  <2>4. QED
    BY <1>4, <2>1, <2>2, <2>3
<1>8. ASSUME NEW i \in P, NEW j \in P, f[i] = f[j] PROVE i = j
  <2>1. i \in Int /\ j \in Int /\ p \in Int
    BY <1>4
  <2>2. f[i] = (IF i < p THEN i ELSE i + 1) /\ f[j] = (IF j < p THEN j ELSE j + 1)
    OBVIOUS
  <2>3. \A a, b, c \in Int : (IF a < c THEN a ELSE a + 1) = (IF b < c THEN b ELSE b + 1) => a = b
    OBVIOUS
  <2> HIDE DEF f, P
  <2>4. QED
    BY <1>8, <2>1, <2>2, <2>3, Zenon
<1>9. f \in Injection(P, Q \ {p})
  <2>1. f \in [P -> Q \ {p}]
    BY <1>7
  <2> HIDE DEF f, P, Q
  <2>2. QED
    BY <1>8, <2>1 DEF Injection, IsInjective
<1> HIDE DEF f, P
<1>10. Cardinality(P) <= Cardinality(Q \ {p})
  BY <1>6, <1>9, FS_Injection
<1>11. Cardinality(P) \in Nat /\ Cardinality(Q) \in Nat /\ Cardinality(Q \ {p}) \in Nat
  BY <1>6, FS_CardinalityType
<1>12. Cardinality(Q \ {p}) = IF p \in Q THEN Cardinality(Q) - 1 ELSE Cardinality(Q)
  BY <1>6, FS_RemoveElement
<1>13. e.report = r => p \in Q
  BY <1>4
<1>14. Count(list, r) = Cardinality(P) /\ Count(new, r) = Cardinality(Q)
  BY DEF Count, P
<1> HIDE DEF Q
<1>15. QED
  BY <1>1, <1>10, <1>11, <1>12, <1>13, <1>14

\* Merged, of a list instead of a subject.
Merge(list, fresh) ==
    LET upTo[n \in 0..Len(fresh)] ==
          IF n = 0 THEN list ELSE Insert(upTo[n - 1], fresh[Len(fresh) + 1 - n])
    IN  upTo[Len(fresh)]

\* What a subject's evidence is after n of the fresh records are inserted, the oldest first.
Merging(u, list, fresh) ==
    /\ u[0] = list
    /\ \A n \in 0 .. Len(fresh) - 1 : u[n + 1] = Insert(u[n], fresh[Len(fresh) - n])

\* What is merged is inserted one by one, the oldest first.
LEMMA MergeUnfolds ==
    ASSUME NEW list, NEW fresh, Len(fresh) \in Nat
    PROVE  \E u : Merging(u, list, fresh) /\ Merge(list, fresh) = u[Len(fresh)]
<1> DEFINE R(u, k) == [n \in 0 .. k |-> IF n = 0 THEN list
                                        ELSE Insert(u[n - 1], fresh[Len(fresh) + 1 - n])]
           G == {k \in Nat : \E u : u = R(u, k)}
<1>1. 0 \in G
  <2>1. R(<<>>, 0) = R(R(<<>>, 0), 0)
    OBVIOUS
  <2>2. QED
    BY <2>1
<1>2. ASSUME NEW k \in Nat, k \in G PROVE k + 1 \in G
  <2>1. PICK u : u = R(u, k)
    BY <1>2
  <2>2. \A i \in 0 .. k : u[i] = IF i = 0 THEN list ELSE Insert(u[i - 1], fresh[Len(fresh) + 1 - i])
    BY <2>1, Zenon
  <2>3. PICK v : v = R(u, k + 1)
    OBVIOUS
  <2>4. \A i \in 0 .. k + 1 : v[i] = IF i = 0 THEN list ELSE Insert(u[i - 1], fresh[Len(fresh) + 1 - i])
    BY <2>3, Zenon
  <2>5. \A i \in 0 .. k : i \in 0 .. k + 1
    OBVIOUS
  <2>6. \A i \in 0 .. k : v[i] = u[i]
    BY <2>2, <2>4, <2>5, Zenon
  <2>7. \A i \in 0 .. k + 1 : i # 0 => i - 1 \in 0 .. k
    OBVIOUS
  <2>8. R(u, k + 1) = R(v, k + 1)
    BY <2>6, <2>7
  <2>9. v = R(v, k + 1) /\ k + 1 \in Nat
    <3> HIDE DEF R
    <3>1. QED
      BY <2>3, <2>8
  <2>10. QED
    <3> HIDE DEF R
    <3>1. QED
      BY <2>9
<1>3. PICK L \in Nat : L = Len(fresh)
  OBVIOUS
<1>4. L \in G
  <2> HIDE DEF G
  <2>1. QED
    BY <1>1, <1>2, SetInduction
<1>5. PICK u : u = R(u, L)
  BY <1>4
<1> DEFINE w == CHOOSE f : f = R(f, L)
<1>6. w = R(w, L)
  BY <1>5
<1>7. Merge(list, fresh) = w[L]
  BY <1>3 DEF Merge
<1> HIDE DEF w
<1>8. \A i \in 0 .. L : w[i] = IF i = 0 THEN list ELSE Insert(w[i - 1], fresh[L + 1 - i])
  BY <1>3, <1>6, Zenon
<1>9. w[0] = list
  BY <1>8
<1>10. ASSUME NEW n \in 0 .. L - 1 PROVE w[n + 1] = Insert(w[n], fresh[L - n])
  <2>1. PICK k \in 0 .. L : k = n + 1 /\ k # 0 /\ k - 1 = n /\ L + 1 - k = L - n
    OBVIOUS
  <2>2. w[k] = Insert(w[k - 1], fresh[L + 1 - k])
    BY <1>8, <2>1
  <2>3. QED
    BY <2>1, <2>2
<1>11. QED
  BY <1>3, <1>7, <1>9, <1>10 DEF Merging

\* A report occurs in a list if one of its records is of it.
LEMMA OccursListed ==
    ASSUME NEW list, NEW r
    PROVE  Occurs(list, r) <=> \E x \in Listed(list) : x.report = r
BY DEF Occurs, Listed

\* A list of evidence stays one when a bundle's fresh records are merged into it.
LEMMA MergeKeeps ==
    ASSUME NEW list, Good(list), NEW fresh \in Seq(Entry), Once(fresh),
           \A i \in DOMAIN fresh : ~ Occurs(list, fresh[i].report)
    PROVE  /\ Good(Merge(list, fresh))
           /\ Listed(Merge(list, fresh)) = Listed(list) \cup Listed(fresh)
           /\ \A r : Count(Merge(list, fresh), r) \in Nat /\ Count(Merge(list, fresh), r) >= Count(list, r)
           /\ fresh = <<>> => Merge(list, fresh) = list
<1>1. PICK u : Merging(u, list, fresh) /\ Merge(list, fresh) = u[Len(fresh)]
  BY MergeUnfolds
<1>2. PICK L \in Nat : L = Len(fresh)
  OBVIOUS
<1>3. DOMAIN fresh = 1 .. L /\ \A i \in 1 .. L : fresh[i] \in Entry
  BY <1>2
<1>4. u[0] = list /\ \A n \in 0 .. L - 1 : u[n + 1] = Insert(u[n], fresh[L - n])
  BY <1>1, <1>2 DEF Merging
<1> DEFINE Last(n) == {fresh[i] : i \in L - n + 1 .. L}
           P(n) == /\ Good(u[n]) /\ Listed(u[n]) = Listed(list) \cup Last(n)
                   /\ \A r : Count(u[n], r) \in Nat /\ Count(u[n], r) >= Count(list, r)
           H == {n \in Nat : n <= L => P(n)}
<1>5. \A r : Count(list, r) \in Nat
  <2>1. list \in Seq(Entry)
    BY DEF Good
  <2>2. DOMAIN list = 1 .. Len(list) /\ Len(list) \in Nat
    BY <2>1
  <2>3. IsFiniteSet(1 .. Len(list))
    BY <2>2, FS_Interval
  <2>4. ASSUME NEW r PROVE Count(list, r) \in Nat
    <3>1. {i \in DOMAIN list : list[i].report = r} \in SUBSET (1 .. Len(list))
      BY <2>2
    <3>2. QED
      BY <2>3, <3>1, FS_Subset, FS_CardinalityType DEF Count
  <2>5. QED
    BY <2>4
<1>6. 0 \in H
  <2>1. Last(0) = {}
    BY <1>2
  <2>2. \A r : Count(list, r) >= Count(list, r)
    <3>1. \A m \in Nat : m >= m
      OBVIOUS
    <3>2. QED
      BY <1>5, <3>1
  <2>3. P(0)
    BY <1>4, <1>5, <2>1, <2>2
  <2> HIDE DEF P
  <2>4. QED
    BY <2>3
<1>7. ASSUME NEW n \in Nat, n \in H PROVE n + 1 \in H
  <2>1. SUFFICES ASSUME n + 1 <= L PROVE P(n + 1)
    <3> HIDE DEF P
    <3>1. QED
      OBVIOUS
  <2>2. n <= L /\ n \in 0 .. L - 1 /\ L - n \in 1 .. L
    BY <2>1
  <2>3. P(n)
    <3> HIDE DEF P
    <3>1. QED
      BY <1>7, <2>2
  <2>4. PICK e \in Entry : e = fresh[L - n]
    BY <1>3, <2>2
  <2>5. u[n + 1] = Insert(u[n], e)
    BY <1>4, <2>2, <2>4
  <2>6. e.report \in Lifecycle \/ ~ Occurs(u[n], e.report)
    <3>1. SUFFICES ASSUME Occurs(u[n], e.report) PROVE e.report \in Lifecycle
      OBVIOUS
    <3>2. PICK x \in Listed(u[n]) : x.report = e.report
      BY <3>1, OccursListed
    <3>3. CASE x \in Listed(list)
      <4>1. Occurs(list, e.report)
        BY <3>2, <3>3, OccursListed
      <4>2. QED
        BY <1>3, <2>2, <2>4, <4>1
    <3>4. CASE x \in Last(n)
      <4>1. PICK i \in L - n + 1 .. L : x = fresh[i]
        BY <3>4
      <4>2. PICK k \in 1 .. L : k = L - n
        BY <2>2
      <4>3. i \in 1 .. L /\ k < i
        BY <2>2, <4>2
      <4>4. fresh[k].report = fresh[i].report
        BY <2>4, <3>2, <4>1, <4>2
      <4>5. QED
        BY <1>3, <2>4, <4>2, <4>3, <4>4 DEF Once
    <3>5. QED
      BY <2>3, <3>2, <3>3, <3>4
  <2>7. Good(u[n + 1]) /\ Listed(u[n + 1]) = Listed(u[n]) \cup {e}
    BY <2>3, <2>5, <2>6, InsertKeeps
  <2>8. Last(n + 1) = Last(n) \cup {e}
    <3>1. L - (n + 1) + 1 .. L = (L - n + 1 .. L) \cup {L - n}
      BY <2>2
    <3>2. QED
      BY <2>4, <3>1
  <2>9. ASSUME NEW r PROVE Count(u[n + 1], r) \in Nat /\ Count(u[n + 1], r) >= Count(list, r)
    <3>1. u[n] \in Seq(Entry)
      BY <2>3 DEF Good
    <3>2. Count(u[n + 1], r) \in Nat /\ Count(u[n + 1], r) >= Count(u[n], r)
      BY <2>5, <3>1, InsertCounts
    <3>3. Count(u[n], r) \in Nat /\ Count(u[n], r) >= Count(list, r)
      BY <2>3
    <3>4. Count(list, r) \in Nat
      BY <1>5
    <3>5. QED
      BY <3>2, <3>3, <3>4
  <2>10. Listed(u[n + 1]) = Listed(list) \cup Last(n + 1)
    <3> HIDE DEF Last
    <3>1. QED
      BY <2>3, <2>7, <2>8
  <2>11. QED
    BY <2>7, <2>9, <2>10
<1>8. L \in H
  <2> HIDE DEF H
  <2>1. QED
    BY <1>6, <1>7, SetInduction
<1>9. P(L)
  <2> HIDE DEF P
  <2>1. QED
    BY <1>8
<1>10. Last(L) = Listed(fresh)
  <2>1. L - L + 1 .. L = 1 .. L
    OBVIOUS
  <2>2. QED
    BY <1>3, <2>1 DEF Listed
<1>11. fresh = <<>> => L = 0
  BY <1>2
<1>12. QED
  BY <1>1, <1>2, <1>4, <1>9, <1>10, <1>11

\* What a bundle adds is new to the subject, and each of it once.
LEMMA FreshIsNew ==
    ASSUME NEW s, NEW list \in Seq(Entry), Once(list), NEW fresh, fresh = Fresh(s, list)
    PROVE  /\ fresh \in Seq(Entry) /\ Once(fresh) /\ Listed(fresh) \subseteq Listed(list)
           /\ \A i \in DOMAIN fresh : ~ Occurs(evidence[s], fresh[i].report)
<1>1. PICK S : S = {e \in Listed(list) : ~ Stored(s, e.report)}
  OBVIOUS
<1>2. fresh = Filtered(list, S)
  BY <1>1 DEF Fresh
<1>3. fresh \in Seq(Entry) /\ Listed(fresh) = Listed(list) \cap S
  BY <1>2, FilteredType, FilteredMembers
<1>4. PICK h : Picks(h, list, S)
  BY FilteredIsTaken
<1>5. PICK m \in Nat : m = Len(fresh) /\ DOMAIN fresh = 1 .. m
  BY <1>3
<1>6. PICK n \in Nat : n = Len(list) /\ DOMAIN list = 1 .. n
  OBVIOUS
<1>7. /\ h \in [1 .. m -> 1 .. n]
      /\ \A i, j \in 1 .. m : i < j => h[i] < h[j]
      /\ \A i \in 1 .. m : fresh[i] = list[h[i]]
  BY <1>2, <1>4, <1>5, <1>6 DEF Picks
<1>8. ASSUME NEW i \in 1 .. m, NEW j \in 1 .. m, i < j, fresh[i].report = fresh[j].report
      PROVE  fresh[i].report \in Lifecycle
  <2>1. h[i] \in 1 .. n /\ h[j] \in 1 .. n /\ h[i] < h[j]
    BY <1>7, <1>8
  <2>2. list[h[i]].report = list[h[j]].report
    BY <1>7, <1>8
  <2>3. list[h[i]].report \in Lifecycle
    BY <1>6, <2>1, <2>2 DEF Once
  <2>4. QED
    BY <1>7, <2>3
<1>9. Once(fresh)
  BY <1>5, <1>8 DEF Once
<1>10. ASSUME NEW i \in DOMAIN fresh PROVE ~ Occurs(evidence[s], fresh[i].report)
  <2>1. fresh[i] \in S
    BY <1>3 DEF Listed
  <2>2. QED
    BY <1>1, <2>1 DEF Stored, Occurs
<1>11. QED
  BY <1>3, <1>9, <1>10

\* What the engine reads of a list of evidence is what may be reported.
LEMMA ViewIsReported ==
    ASSUME NEW list \in Seq(Entry)
    PROVE  IsReported(View(list)) /\ DOMAIN View(list) = DOMAIN list
<1>1. PICK n \in Nat : n = Len(list) /\ DOMAIN list = 1 .. n
  OBVIOUS
<1>2. PICK w : w = View(list)
  OBVIOUS
<1>3. w = [i \in 1 .. n |-> [Content[list[i].report] EXCEPT !.at = list[i].at]]
  BY <1>1, <1>2 DEF View
<1>4. ASSUME NEW i \in 1 .. n PROVE Reported(w[i])
  <2>0. PICK e \in Entry : e = list[i]
    BY <1>1
  <2>1. PICK r \in Reports \cup Lifecycle : r = list[i].report
    BY <2>0 DEF Entry
  <2>2. PICK t \in Nat : t = list[i].at
    BY <2>0 DEF Entry
  <2>3. PICK c : c = Content[r]
    OBVIOUS
  <2>4. w[i] = [c EXCEPT !.at = t]
    BY <1>3, <2>1, <2>2, <2>3
  <2>5. {"type", "quality", "confidence", "fast", "weight", "domain", "passes", "fails", "at"}
           \subseteq DOMAIN c
        /\ c.quality \in 0 .. Unit /\ c.confidence \in 0 .. Unit /\ c.weight \in Nat \cup {NaN}
        /\ IsFiniteSet(c.passes) /\ IsFiniteSet(c.fails)
    BY <2>1, <2>3, ContentAssumption
  <2>6. /\ DOMAIN w[i] = DOMAIN c
        /\ w[i].at = t /\ w[i].quality = c.quality /\ w[i].confidence = c.confidence
        /\ w[i].weight = c.weight /\ w[i].passes = c.passes /\ w[i].fails = c.fails
    BY <2>4, <2>5
  <2>7. QED
    BY <2>5, <2>6 DEF Reported
<1>5. w \in Seq(Listed(w)) /\ DOMAIN w = 1 .. n
  <2>1. DOMAIN w = 1 .. n
    BY <1>3
  <2>2. w \in [1 .. n -> Listed(w)]
    BY <1>3, <2>1 DEF Listed
  <2>3. QED
    BY <2>1, <2>2
<1>6. QED
  BY <1>1, <1>2, <1>4, <1>5 DEF IsReported

\* A snapshot of a subject's evidence is one, or has no score.
LEMMA RecomputeIsSnapshot ==
    ASSUME now \in Nat, NEW s, NEW list \in Seq(Entry), NEW known,
           NEW previous, previous = NoSnapshot \/ IsStored(previous)
    PROVE  /\ IsStored(Recomputed(s, list, previous, known))
           /\ AtHand(Recompute(s, list, previous, known))
<1>1. PICK w : w = View(list)
  OBVIOUS
<1>2. IsReported(w)
  BY <1>1, ViewIsReported
<1>3. PICK t \in Nat : t = now
  OBVIOUS
<1>4. PICK x : x = ComputeSnapshot(s, w, t, previous, known)
  OBVIOUS
<1>5. IsStored(Saved(x)) /\ (x.execution = NaN \/ IsSnapshot(x))
  BY <1>2, <1>4, SnapshotsAreSnapshots
<1>6. x = Recompute(s, list, previous, known)
  BY <1>1, <1>3, <1>4 DEF Recompute
<1>7. QED
  BY <1>5, <1>6 DEF Recomputed, AtHand, IsStored

-----------------------------------------------------------------------------
(* What the dimensions of a snapshot count *)

\* The dimensions that depend on the evidence alone.
Counted == {"quarantines", "volume", "disputes", "diversity", "closed", "execution"}

\* A snapshot counts a list of evidence: these do not depend on when it was
\* computed, nor on the snapshot before, nor on who had a passport by then.
Counts(x, s, list) ==
    \A d \in Counted : x[d] = Saved(ComputeSnapshot(s, View(list), 0, NoSnapshot, {}))[d]

\* What a snapshot is left with once it is stored.
LEMMA SavedFields ==
    ASSUME NEW x, {"execution", "stability", "bribery", "anomaly", "economicIntegrity",
                   "adversarialRisk"} \subseteq DOMAIN x, NEW lost \in BOOLEAN
    PROVE  LET y == Saved(WeighIn(x, lost)) IN
           /\ y.quarantines = x.quarantines /\ y.volume = x.volume /\ y.disputes = x.disputes
           /\ y.diversity = x.diversity /\ y.closed = x.closed
           /\ y.execution = IF lost \/ x.execution = NaN THEN Null ELSE x.execution
<1>1. PICK z : z = WeighIn(x, lost)
  OBVIOUS
<1>2. /\ z.quarantines = x.quarantines /\ z.volume = x.volume /\ z.disputes = x.disputes
      /\ z.diversity = x.diversity /\ z.closed = x.closed
      /\ z.execution = IF lost THEN NaN ELSE x.execution
      /\ "execution" \in DOMAIN z
  BY <1>1 DEF WeighIn, Without
<1>3. PICK y : y = Saved(z)
  OBVIOUS
<1>4. /\ y.quarantines = z.quarantines /\ y.volume = z.volume /\ y.disputes = z.disputes
      /\ y.diversity = z.diversity /\ y.closed = z.closed
      /\ y.execution = IF z.execution = NaN THEN Null ELSE z.execution
  BY <1>2, <1>3 DEF Saved, Without
<1>5. QED
  BY <1>1, <1>2, <1>3, <1>4

\* Of the graph, these do not depend on who has a passport.
LEMMA SameGraph ==
    ASSUME NEW s, NEW window, NEW k, NEW l
    PROVE  /\ Graph(s, window, k).verdicts = Graph(s, window, l).verdicts
           /\ Graph(s, window, k).diversity = Graph(s, window, l).diversity
           /\ Graph(s, window, k).closed = Graph(s, window, l).closed
BY DEF Graph, GraphOf

\* The dimensions counted depend on the records alone.
LEMMA SameCounts ==
    ASSUME NEW s, NEW w, NEW t, NEW u, NEW p, NEW q, NEW k, NEW l, NEW d \in Counted
    PROVE  Saved(ComputeSnapshot(s, w, t, p, k))[d] = Saved(ComputeSnapshot(s, w, u, q, l))[d]
<1>1. PICK e : e = Weighed(w)
  OBVIOUS
<1>2. PICK lost \in BOOLEAN : lost = Weightless(Newest(w, Recent))
  BY Zenon DEF Weightless
<1>3. PICK c : c = [quarantines |-> Occurrences(Newest(e, Medium), {"QUARANTINE"}),
                    tasks |-> Occurrences(Newest(e, Medium), TaskTypes)
                                + Occurrences(Newest(e, Medium), ValidationTypes),
                    disputes |-> Fraction(Ratio(Occurrences(Newest(e, Medium), DisputeTypes) * Unit,
                                                AtLeastOne(Len(Newest(e, Medium))))),
                    execution |-> ExecutionReliability(Newest(e, Recent))]
  OBVIOUS
<1>4. ASSUME NEW v, NEW o, NEW g
      PROVE  LET x == SnapshotWith(e, v, o, g) IN
             /\ x.quarantines = c.quarantines /\ x.volume = c.tasks + g.verdicts
             /\ x.disputes = c.disputes /\ x.diversity = g.diversity /\ x.closed = g.closed
             /\ x.execution = c.execution
             /\ {"execution", "stability", "bribery", "anomaly", "economicIntegrity",
                 "adversarialRisk"} \subseteq DOMAIN x
  <2>1. PICK m : m = Measure(e, v, g)
    OBVIOUS
  <2>2. /\ m.quarantines = c.quarantines /\ m.volume = c.tasks + g.verdicts
        /\ m.disputes = c.disputes /\ m.execution = c.execution
    BY <1>3, <2>1 DEF Measure
  <2>3. PICK x : x = Snapshot(NextVersion(o), m, g, Volatility(m, o))
    OBVIOUS
  <2>4. /\ x.quarantines = m.quarantines /\ x.volume = m.volume /\ x.disputes = m.disputes
        /\ x.diversity = g.diversity /\ x.closed = g.closed /\ x.execution = m.execution
    BY <2>3 DEF Snapshot
  <2>5. {"execution", "stability", "bribery", "anomaly", "economicIntegrity",
         "adversarialRisk"} \subseteq DOMAIN x
    BY <2>3, SnapshotHasFields
  <2>6. x = SnapshotWith(e, v, o, g)
    BY <2>1, <2>3 DEF SnapshotWith, SnapshotFrom
  <2>7. QED
    BY <2>2, <2>4, <2>5, <2>6
<1>5. PICK g, h : /\ g = Graph(s, Newest(e, Medium), k)
                  /\ h = Graph(s, Newest(e, Medium), l)
  OBVIOUS
<1>6. g.verdicts = h.verdicts /\ g.diversity = h.diversity /\ g.closed = h.closed
  BY <1>5, SameGraph
<1>7. PICK x, y : x = SnapshotWith(e, t, p, g) /\ y = SnapshotWith(e, u, q, h)
  OBVIOUS
<1>8. /\ x.quarantines = y.quarantines /\ x.volume = y.volume /\ x.disputes = y.disputes
      /\ x.diversity = y.diversity /\ x.closed = y.closed /\ x.execution = y.execution
  BY <1>4, <1>6, <1>7
<1>9. /\ {"execution", "stability", "bribery", "anomaly", "economicIntegrity",
          "adversarialRisk"} \subseteq DOMAIN x
      /\ {"execution", "stability", "bribery", "anomaly", "economicIntegrity",
          "adversarialRisk"} \subseteq DOMAIN y
  BY <1>4, <1>7
<1>10. /\ ComputeSnapshot(s, w, t, p, k) = WeighIn(x, lost)
       /\ ComputeSnapshot(s, w, u, q, l) = WeighIn(y, lost)
  BY <1>1, <1>2, <1>5, <1>7, Zenon DEF ComputeSnapshot
<1>11. PICK a, b : a = Saved(WeighIn(x, lost)) /\ b = Saved(WeighIn(y, lost))
  OBVIOUS
<1>12. /\ a.quarantines = x.quarantines /\ a.volume = x.volume /\ a.disputes = x.disputes
       /\ a.diversity = x.diversity /\ a.closed = x.closed
       /\ a.execution = IF lost \/ x.execution = NaN THEN Null ELSE x.execution
  BY <1>9, <1>11, SavedFields
<1>13. /\ b.quarantines = y.quarantines /\ b.volume = y.volume /\ b.disputes = y.disputes
       /\ b.diversity = y.diversity /\ b.closed = y.closed
       /\ b.execution = IF lost \/ y.execution = NaN THEN Null ELSE y.execution
  BY <1>9, <1>11, SavedFields
<1>14. a[d] = b[d]
  BY <1>8, <1>12, <1>13 DEF Counted
<1>15. QED
  BY <1>10, <1>11, <1>14

\* A snapshot that was recomputed counts the list it was recomputed from.
LEMMA RecomputeCounts ==
    ASSUME NEW s, NEW list, NEW previous, NEW known
    PROVE  Counts(Recomputed(s, list, previous, known), s, list)
<1>1. PICK w : w = View(list)
  OBVIOUS
<1>2. PICK t : t = now
  OBVIOUS
<1>3. \A d \in Counted : Saved(ComputeSnapshot(s, w, t, previous, known))[d]
                            = Saved(ComputeSnapshot(s, w, 0, NoSnapshot, {}))[d]
  BY SameCounts
<1>4. QED
  BY <1>1, <1>2, <1>3 DEF Recompute, Recomputed, Counts

-----------------------------------------------------------------------------
(* The types *)

\* The lists of evidence, in the table and in the bundles.
ListsAreGood ==
    /\ evidence \in [Subjects -> Seq(Entry)] /\ now \in Nat
    /\ \A s \in Subjects : Good(evidence[s])
    /\ \A b \in bundles : b.subject \in Subjects /\ b.evidence \in Seq(Entry) /\ Once(b.evidence)

\* What becomes of a list of evidence when e is inserted.
Grown(list, e, new) ==
    /\ Good(new) /\ Listed(new) = Listed(list) \cup {e} /\ e \in Entry
    /\ \A r : /\ Count(list, r) \in Nat /\ Count(new, r) \in Nat /\ Count(new, r) >= Count(list, r)
              /\ e.report = r => Count(new, r) >= Count(list, r) + 1

\* An entry that may be inserted makes a list grow.
LEMMA InsertGrows ==
    ASSUME NEW list, Good(list), NEW e \in Entry, e.report \in Lifecycle \/ ~ Occurs(list, e.report)
    PROVE  Grown(list, e, Insert(list, e))
<1>1. list \in Seq(Entry)
  BY DEF Good
<1>2. QED
  BY <1>1, InsertKeeps, InsertCounts DEF Grown

\* A report is recorded about a subject, and not for the second time.
LEMMA Recorded ==
    ASSUME ListsAreGood, workload \in Workloads, NEW q \in workload, q.op = "evidence",
           NEW done, RecordEvidence(q, done)
    PROVE  \E at \in Nat :
              LET s == About[q.report]
                  e == [report |-> q.report, at |-> at]
                  list == Insert(evidence[s], e)
              IN  /\ s \in Subjects /\ q.report \in Reports /\ Grown(evidence[s], e, list)
                  /\ evidence' = [evidence EXCEPT ![s] = list]
                  /\ snapshot' = IF done < 2 THEN snapshot
                                 ELSE [snapshot EXCEPT ![s] = Recomputed(s, list, snapshot[s], Known)]
<1>1. q.report \in Reports /\ (q.stamp \in Nat \cup {NoStamp}) /\ About[q.report] \in Subjects
  BY RequestsAssumption, ContentAssumption
<1>2. PICK s \in Subjects : s = About[q.report]
  BY <1>1
<1>3. PICK at \in Nat : at = (IF q.stamp = NoStamp THEN now ELSE q.stamp)
  BY <1>1 DEF ListsAreGood
<1>4. PICK e \in Entry : e = [report |-> q.report, at |-> at]
  BY <1>1 DEF Entry
<1>5. ~ Occurs(evidence[s], q.report)
  BY <1>2 DEF RecordEvidence, Stored, Occurs
<1>6. Good(evidence[s]) /\ e.report = q.report
  BY <1>4 DEF ListsAreGood
<1>7. Grown(evidence[s], e, Insert(evidence[s], e))
  BY <1>5, <1>6, InsertGrows
<1>8. /\ evidence' = [evidence EXCEPT ![s] = Insert(evidence[s], e)]
      /\ snapshot' = IF done < 2 THEN snapshot
                     ELSE [snapshot EXCEPT ![s] = Recomputed(s, Insert(evidence[s], e), snapshot[s], Known)]
  BY <1>2, <1>3, <1>4 DEF RecordEvidence
<1>9. QED
  BY <1>1, <1>2, <1>4, <1>7, <1>8

\* The records of the life of a dispute.
OpenedRecord == [report |-> "dispute.opened", at |-> now]
ResolvedRecord == [report |-> "dispute.resolved", at |-> now]

\* A dispute is booked, with one or two records of it.
LEMMA Disputed ==
    ASSUME ListsAreGood, NEW s \in Subjects, NEW picks, NEW severity, NEW preferred, NEW done,
           Dispute(s, picks, severity, preferred, done)
    PROVE  LET opened == Insert(evidence[s], OpenedRecord)
               resolved == Insert(opened, ResolvedRecord)
           IN  /\ Grown(evidence[s], OpenedRecord, opened) /\ Grown(opened, ResolvedRecord, resolved)
               /\ \E outcome : BookDispute(s, done, StoredSnapshots({s})[s], outcome,
                                           outcome # "request_additional_validation")
<1>1. PICK t \in Nat : t = now
  BY DEF ListsAreGood
<1>2. OpenedRecord \in Entry /\ OpenedRecord.report = "dispute.opened"
      /\ ResolvedRecord \in Entry /\ ResolvedRecord.report = "dispute.resolved"
  BY <1>1 DEF Entry, OpenedRecord, ResolvedRecord, Lifecycle
<1>3. Grown(evidence[s], OpenedRecord, Insert(evidence[s], OpenedRecord))
  BY <1>2, InsertGrows DEF ListsAreGood, Lifecycle
<1>4. Grown(Insert(evidence[s], OpenedRecord), ResolvedRecord, Insert(Insert(evidence[s], OpenedRecord), ResolvedRecord))
  <2>1. PICK list : list = Insert(evidence[s], OpenedRecord)
    OBVIOUS
  <2>2. Good(list)
    BY <1>3, <2>1 DEF Grown
  <2>3. ResolvedRecord.report \in Lifecycle
    BY <1>2 DEF Lifecycle
  <2>4. Grown(list, ResolvedRecord, Insert(list, ResolvedRecord))
    BY <1>2, <2>2, <2>3, InsertGrows
  <2>5. QED
    BY <2>1, <2>4
<1>5. \E outcome : BookDispute(s, done, StoredSnapshots({s})[s], outcome,
                              outcome # "request_additional_validation")
  BY DEF Dispute, JudgeDispute, DecideDispute
<1>6. QED
  BY <1>3, <1>4, <1>5

\* A bundle is merged into the evidence of its subject.
LEMMA Imported ==
    ASSUME ListsAreGood, NEW b \in Foreign \cup bundles
    PROVE  LET s == b.subject
               fresh == Fresh(s, b.evidence)
               list == Merged(s, fresh)
           IN  /\ s \in Subjects /\ Good(list) /\ fresh \in Seq(Entry)
               /\ Listed(list) = Listed(evidence[s]) \cup Listed(fresh)
               /\ \A r : Count(list, r) \in Nat /\ Count(list, r) >= Count(evidence[s], r)
               /\ fresh = <<>> => list = evidence[s]
<1>1. b.subject \in Subjects /\ b.evidence \in Seq(Entry) /\ Once(b.evidence)
  BY ContentAssumption DEF ListsAreGood
<1>2. PICK s \in Subjects : s = b.subject
  BY <1>1
<1>3. PICK fresh : fresh = Fresh(s, b.evidence)
  OBVIOUS
<1>4. /\ fresh \in Seq(Entry) /\ Once(fresh)
      /\ \A i \in DOMAIN fresh : ~ Occurs(evidence[s], fresh[i].report)
  BY <1>1, <1>3, FreshIsNew
<1>5. Good(evidence[s])
  BY DEF ListsAreGood
<1>6. Merged(s, fresh) = Merge(evidence[s], fresh)
  BY DEF Merged, Merge
<1>7. PICK old : old = evidence[s]
  OBVIOUS
<1>8. /\ Good(Merge(old, fresh))
      /\ Listed(Merge(old, fresh)) = Listed(old) \cup Listed(fresh)
      /\ \A r : Count(Merge(old, fresh), r) \in Nat /\ Count(Merge(old, fresh), r) >= Count(old, r)
      /\ fresh = <<>> => Merge(old, fresh) = old
  BY <1>4, <1>5, <1>7, MergeKeeps
<1>9. QED
  BY <1>2, <1>3, <1>4, <1>6, <1>7, <1>8

\* The requests that touch the records.
Recording(q) == \E done \in 1 .. 4 : q.op = "evidence" /\ RecordEvidence(q, done)
\* The requests that change the evidence.
Disputing(q) ==
    \E picks \in SUBSET (DOMAIN evidence[q.subject]), done \in 1 .. 5 :
       q.op = "dispute" /\ Dispute(q.subject, picks, q.severity, q.preferred, done)
Importing(q) == \E b \in Foreign \cup bundles, done \in 1 .. 4 : Import(b, q.mode, done)

\* Nothing else changes the evidence.
LEMMA RecordsMove ==
    ASSUME Next
    PROVE  \/ UNCHANGED <<evidence, unapplied, disputes>>
           \/ \E q \in workload : Recording(q) \/ Disputing(q) \/ Importing(q)
<1>1. CASE Tick
  BY <1>1 DEF Tick, records
<1>2. ASSUME NEW q \in workload, Serve(q)
      PROVE  \/ UNCHANGED <<evidence, unapplied, disputes>>
             \/ Recording(q) \/ Disputing(q) \/ Importing(q)
  <2>1. CASE \/ Replay(q) \/ RefusePassport(q) \/ RepeatEvidence(q)
             \/ RefuseSubject(Subject(q)) \/ \E done \in 1 .. 3 : CreatePassport(q, done)
    BY <2>1 DEF Replay, RefusePassport, RepeatEvidence, RefuseSubject, CreatePassport, records
  <2>2. CASE \/ \E done \in 1 .. 2 : ResolveTrust(q.subject, q.context, q.named, done)
             \/ LoseResolution(q.subject, q.context, q.named)
             \/ \E filled \in SUBSET Subjects :
                   BlockResolution(q.subject, q.context, q.named, filled)
    BY <2>2 DEF ResolveTrust, BlockResolution, LoseResolution, records
  <2>3. CASE \/ RouteValidators(q.subject, q.candidates, q.required, q.context)
             \/ RouteExecutors(q.subject, q.candidates, q.minimum, q.downgrade, q.context)
             \/ Export(q.subject)
    BY <2>3 DEF RouteValidators, RouteExecutors, Export, records
  <2>4. QED
    BY <1>2, <2>1, <2>2, <2>3 DEF Serve, Recording, Disputing, Importing
<1>3. QED
  BY <1>1, <1>2 DEF Next

\* The requests that touch the snapshots.
LEMMA SnapshotsMove ==
    ASSUME Next
    PROVE  \/ UNCHANGED <<snapshot, behind, evidence, adopted>>
           \/ \E S : Fill(S) /\ UNCHANGED evidence
           \/ \E q \in workload : Recording(q) \/ Disputing(q) \/ Importing(q)
<1>1. CASE Tick
  BY <1>1 DEF Tick, records, views
<1>2. ASSUME NEW q \in workload, Serve(q)
      PROVE  \/ UNCHANGED <<snapshot, behind, evidence, adopted>>
             \/ \E S : Fill(S) /\ UNCHANGED evidence
             \/ Recording(q) \/ Disputing(q) \/ Importing(q)
  <2>1. CASE \/ Replay(q) \/ RefusePassport(q) \/ RepeatEvidence(q)
             \/ RefuseSubject(Subject(q)) \/ \E done \in 1 .. 3 : CreatePassport(q, done)
    BY <2>1 DEF Replay, RefusePassport, RepeatEvidence, RefuseSubject, CreatePassport, records, views
  <2>2. CASE \/ \E done \in 1 .. 2 : ResolveTrust(q.subject, q.context, q.named, done)
             \/ LoseResolution(q.subject, q.context, q.named)
             \/ \E filled \in SUBSET Subjects :
                   BlockResolution(q.subject, q.context, q.named, filled)
    BY <2>2 DEF ResolveTrust, BlockResolution, LoseResolution, records
  <2>3. CASE \/ RouteValidators(q.subject, q.candidates, q.required, q.context)
             \/ RouteExecutors(q.subject, q.candidates, q.minimum, q.downgrade, q.context)
             \/ Export(q.subject)
    BY <2>3 DEF RouteValidators, RouteExecutors, Export, records
  <2>4. QED
    BY <1>2, <2>1, <2>2, <2>3 DEF Serve, Recording, Disputing, Importing
<1>3. QED
  BY <1>1, <1>2 DEF Next

\* Only an export adds a bundle.
LEMMA BundlesMove ==
    ASSUME Next
    PROVE  \/ UNCHANGED bundles
           \/ \E q \in workload : q.op = "export" /\ Export(q.subject)
<1>1. CASE Tick
  BY <1>1 DEF Tick, portability
<1>2. ASSUME NEW q \in workload, Serve(q)
      PROVE  UNCHANGED bundles \/ (q.op = "export" /\ Export(q.subject))
  <2>1. CASE \/ Replay(q) \/ RefusePassport(q) \/ RepeatEvidence(q)
             \/ RefuseSubject(Subject(q)) \/ \E done \in 1 .. 3 : CreatePassport(q, done)
             \/ \E done \in 1 .. 4 : RecordEvidence(q, done)
    BY <2>1 DEF Replay, RefusePassport, RepeatEvidence, RefuseSubject, CreatePassport,
                RecordEvidence, portability
  <2>2. CASE \/ \E done \in 1 .. 2 : ResolveTrust(q.subject, q.context, q.named, done)
             \/ LoseResolution(q.subject, q.context, q.named)
             \/ \E filled \in SUBSET Subjects :
                   BlockResolution(q.subject, q.context, q.named, filled)
             \/ RouteValidators(q.subject, q.candidates, q.required, q.context)
             \/ RouteExecutors(q.subject, q.candidates, q.minimum, q.downgrade, q.context)
    BY <2>2 DEF ResolveTrust, BlockResolution, LoseResolution, RouteValidators, RouteExecutors, portability
  <2>3. CASE \E picks \in SUBSET (DOMAIN evidence[q.subject]), done \in 1 .. 5 :
                Dispute(q.subject, picks, q.severity, q.preferred, done)
    BY <2>3 DEF Dispute, portability
  <2>4. CASE Importing(q)
    BY <2>4 DEF Importing, Import
  <2>5. QED
    BY <1>2, <2>1, <2>2, <2>3, <2>4 DEF Serve, Importing
<1>3. QED
  BY <1>1, <1>2 DEF Next

\* The lists stay good.
LEMMA ListsStep == ASSUME workload \in Workloads, ListsAreGood, [Next]_vars PROVE ListsAreGood'
<1>1. CASE UNCHANGED vars
  BY <1>1 DEF vars, records, portability, bounds, ListsAreGood
<1>2. CASE Next
  <2>1. now' \in Nat
    <3>1. ASSUME NEW q \in workload, Serve(q) PROVE UNCHANGED now
      <4>1. CASE \/ Replay(q) \/ RefusePassport(q) \/ RepeatEvidence(q) \/ RefuseSubject(Subject(q))
                 \/ \E done \in 1 .. 3 : CreatePassport(q, done)
        BY <4>1 DEF Replay, RefusePassport, RepeatEvidence, RefuseSubject, CreatePassport, bounds
      <4>2. CASE \E done \in 1 .. 4 : RecordEvidence(q, done)
        BY <4>2 DEF RecordEvidence, bounds
      <4>3. CASE \E picks \in SUBSET (DOMAIN evidence[q.subject]), done \in 1 .. 5 :
                    Dispute(q.subject, picks, q.severity, q.preferred, done)
        BY <4>3 DEF Dispute, bounds
      <4>4. CASE \E done \in 1 .. 2 : ResolveTrust(q.subject, q.context, q.named, done)
        BY <4>4 DEF ResolveTrust, bounds
      <4>5. CASE \/ LoseResolution(q.subject, q.context, q.named)
                 \/ \E filled \in SUBSET Subjects :
                       BlockResolution(q.subject, q.context, q.named, filled)
        BY <4>5 DEF BlockResolution, LoseResolution, bounds
      <4>6. CASE \/ RouteValidators(q.subject, q.candidates, q.required, q.context)
                 \/ RouteExecutors(q.subject, q.candidates, q.minimum, q.downgrade, q.context)
                 \/ Export(q.subject)
        BY <4>6 DEF RouteValidators, RouteExecutors, Export, bounds
      <4>7. CASE Importing(q)
        BY <4>7 DEF Importing, Import
      <4>8. QED
        BY <3>1, <4>1, <4>2, <4>3, <4>4, <4>5, <4>6, <4>7 DEF Serve, Importing
    <3>2. QED
      BY <1>2, <3>1 DEF Next, Tick, ListsAreGood
  <2>2. evidence' \in [Subjects -> Seq(Entry)] /\ \A s \in Subjects : Good(evidence'[s])
    <3>1. CASE UNCHANGED evidence
      BY <3>1 DEF ListsAreGood
    <3>2. ASSUME NEW s \in Subjects, NEW list, Good(list), evidence' = [evidence EXCEPT ![s] = list]
          PROVE  evidence' \in [Subjects -> Seq(Entry)] /\ \A r \in Subjects : Good(evidence'[r])
      <4>1. evidence' \in [Subjects -> Seq(Entry)]
        BY <3>2 DEF ListsAreGood, Good
      <4>2. \A r \in Subjects : evidence'[r] = IF r = s THEN list ELSE evidence[r]
        BY <3>2 DEF ListsAreGood
      <4>3. QED
        BY <3>2, <4>1, <4>2 DEF ListsAreGood
    <3>3. ASSUME NEW q \in workload, Recording(q)
          PROVE  evidence' \in [Subjects -> Seq(Entry)] /\ \A s \in Subjects : Good(evidence'[s])
      <4>1. PICK s, list : s \in Subjects /\ Good(list) /\ evidence' = [evidence EXCEPT ![s] = list]
        BY <3>3, Recorded DEF Recording, Grown
      <4>2. QED
        BY <3>2, <4>1
    <3>4. ASSUME NEW q \in workload, Disputing(q)
          PROVE  evidence' \in [Subjects -> Seq(Entry)] /\ \A s \in Subjects : Good(evidence'[s])
      <4>1. PICK s \in Subjects : s = q.subject
        BY <3>4, RequestsAssumption DEF Disputing
      <4>2. PICK picks, done : Dispute(s, picks, q.severity, q.preferred, done)
        BY <3>4, <4>1 DEF Disputing
      <4>3. PICK opened : opened = Insert(evidence[s], OpenedRecord)
        OBVIOUS
      <4>4. PICK resolved : resolved = Insert(opened, ResolvedRecord)
        OBVIOUS
      <4>5. Good(opened) /\ Good(resolved)
        BY <4>2, <4>3, <4>4, Disputed DEF Grown
      <4>6. PICK snap, outcome, decided : BookDispute(s, done, snap, outcome, decided)
        BY <4>2 DEF Dispute, JudgeDispute, DecideDispute
      <4>7. PICK list \in {opened, resolved} : evidence' = [evidence EXCEPT ![s] = list]
        BY <4>3, <4>4, <4>6 DEF BookDispute, OpenedRecord, ResolvedRecord
      <4>8. QED
        BY <3>2, <4>5, <4>7
    <3>5. ASSUME NEW q \in workload, Importing(q)
          PROVE  evidence' \in [Subjects -> Seq(Entry)] /\ \A s \in Subjects : Good(evidence'[s])
      <4>1. PICK b \in Foreign \cup bundles, done \in 1 .. 4 : Import(b, q.mode, done)
        BY <3>5 DEF Importing
      <4>2. PICK s, list :
               /\ s \in Subjects /\ Good(list)
               /\ evidence' = IF done < 2 THEN evidence ELSE [evidence EXCEPT ![s] = list]
        BY <4>1, Imported DEF Import
      <4>3. QED
        BY <3>1, <3>2, <4>2
    <3>6. QED
      BY <1>2, <3>1, <3>3, <3>4, <3>5, RecordsMove
  <2>3. \A b \in bundles' : b.subject \in Subjects /\ b.evidence \in Seq(Entry) /\ Once(b.evidence)
    <3>1. CASE UNCHANGED bundles
      BY <3>1 DEF ListsAreGood
    <3>2. ASSUME NEW q \in workload, q.op = "export", Export(q.subject)
          PROVE  \A b \in bundles' : b.subject \in Subjects /\ b.evidence \in Seq(Entry) /\ Once(b.evidence)
      <4>1. PICK s \in Subjects : s = q.subject
        BY <3>2, LedgerAssumption
      <4>2. PICK new : new = [receipt |-> <<"export", Cardinality(bundles)>>, subject |-> s,
                              evidence |-> evidence[s], snapshot |-> StoredSnapshots({s})[s]]
        OBVIOUS
      <4>3. bundles' = bundles \cup {new} /\ new.subject = s /\ new.evidence = evidence[s]
        BY <3>2, <4>1, <4>2 DEF Export
      <4>4. new.evidence \in Seq(Entry) /\ Once(new.evidence)
        BY <4>1, <4>3 DEF ListsAreGood, Good
      <4>5. QED
        BY <4>1, <4>3, <4>4 DEF ListsAreGood
    <3>3. QED
      BY <1>2, <3>1, <3>2, BundlesMove
  <2>4. QED
    BY <2>1, <2>2, <2>3 DEF ListsAreGood
<1>3. QED
  BY <1>1, <1>2

-----------------------------------------------------------------------------
(* The snapshots *)

\* They are snapshots as the engine stores them, but for what came from elsewhere.
SnapshotsAreSound ==
    /\ \A s \in Subjects \ adopted : snapshot[s] = NoSnapshot \/ IsStored(snapshot[s])
    /\ \A b \in bundles : b.subject \in adopted \/ IsStored(b.snapshot)

\* They count the evidence unless they are behind it.
SnapshotsCount ==
    \A s \in Subjects \ behind : snapshot[s] # NoSnapshot => Counts(snapshot[s], s, evidence[s])

\* The invariant of evidence and snapshots.
SInv == ListsAreGood /\ SnapshotsAreSound /\ SnapshotsCount

\* Those filled in are sound, and count the evidence there is.
LEMMA FilledIsSound ==
    ASSUME ListsAreGood, SnapshotsAreSound, NEW S, NEW s \in Subjects,
           NEW x, x = StoredSnapshots(S)[s]
    PROVE  /\ s \notin adopted => x = NoSnapshot \/ IsStored(x)
           /\ s \notin adopted /\ s \in S => IsStored(x)
           /\ s \in S /\ snapshot[s] = NoSnapshot => IsStored(x) /\ Counts(x, s, evidence[s])
           /\ ~ (s \in S /\ snapshot[s] = NoSnapshot) => x = snapshot[s]
<1>1. PICK list \in Seq(Entry) : list = evidence[s]
  BY DEF ListsAreGood, Good
<1>2. PICK known : known = Known
  OBVIOUS
<1>3. PICK new : new = Recomputed(s, list, NoSnapshot, known)
  OBVIOUS
<1>4. IsStored(new) /\ Counts(new, s, list)
  BY <1>3, RecomputeIsSnapshot, RecomputeCounts DEF ListsAreGood
<1>5. x = IF s \in S /\ snapshot[s] = NoSnapshot THEN new ELSE snapshot[s]
  BY <1>1, <1>2, <1>3 DEF StoredSnapshots
<1>6. QED
  BY <1>1, <1>4, <1>5 DEF SnapshotsAreSound

\* Who asks for them works with the stored ones, or with ones that have no score.
LEMMA FilledIsAtHand ==
    ASSUME ListsAreGood, SnapshotsAreSound, NEW S, NEW s \in S, s \in Subjects,
           NEW y, y = WithSnapshots(S)[s]
    PROVE  /\ s \notin adopted => AtHand(y)
           /\ y = StoredSnapshots(S)[s] \/ (y.execution = NaN /\ Saved(y) = StoredSnapshots(S)[s])
<1>1. PICK list \in Seq(Entry) : list = evidence[s]
  BY DEF ListsAreGood, Good
<1>2. PICK known : known = Known
  OBVIOUS
<1>3. PICK new : new = Recompute(s, list, NoSnapshot, known)
  OBVIOUS
<1>4. AtHand(new)
  BY <1>3, RecomputeIsSnapshot DEF ListsAreGood
<1>5. Saved(new) = Recomputed(s, list, NoSnapshot, known)
  BY <1>3 DEF Recomputed
<1>6. /\ y = IF snapshot[s] = NoSnapshot THEN new ELSE snapshot[s]
      /\ StoredSnapshots(S)[s] = IF snapshot[s] = NoSnapshot THEN Saved(new) ELSE snapshot[s]
  BY <1>1, <1>2, <1>3, <1>5 DEF WithSnapshots, StoredSnapshots
<1>7. snapshot[s] # NoSnapshot /\ s \notin adopted => AtHand(snapshot[s])
  BY DEF SnapshotsAreSound, AtHand
<1>8. new.execution # NaN => Saved(new) = new
  BY DEF Saved
<1>9. QED
  BY <1>4, <1>6, <1>7, <1>8

\* One subject's snapshot and evidence change.
LEMMA OneChanges ==
    ASSUME LInv, SInv, NEW s \in Subjects, NEW list, NEW x,
           \A r \in Subjects : /\ evidence'[r] = IF r = s THEN list ELSE evidence[r]
                               /\ snapshot'[r] = IF r = s THEN x ELSE snapshot[r],
           behind \ {s} \subseteq behind', adopted \subseteq adopted',
           s \in adopted' \/ x = NoSnapshot \/ IsStored(x),
           s \in behind' \/ x = NoSnapshot \/ Counts(x, s, list)
    PROVE  /\ \A r \in Subjects \ adopted' : snapshot'[r] = NoSnapshot \/ IsStored(snapshot'[r])
           /\ SnapshotsCount'
<1>3. \A r \in Subjects \ adopted' : snapshot'[r] = NoSnapshot \/ IsStored(snapshot'[r])
  BY DEF SInv, SnapshotsAreSound
<1>4. ASSUME NEW r \in Subjects \ behind', snapshot'[r] # NoSnapshot
      PROVE  Counts(snapshot'[r], r, evidence'[r])
  <2>1. CASE r = s
    BY <1>4, <2>1
  <2>2. CASE r # s
    <3>1. r \in Subjects \ behind /\ snapshot'[r] = snapshot[r] /\ evidence'[r] = evidence[r]
      BY <1>4, <2>2
    <3>2. QED
      BY <1>4, <3>1 DEF SInv, SnapshotsCount
  <2>3. QED
    BY <2>1, <2>2
<1>5. SnapshotsCount'
  BY <1>4 DEF SnapshotsCount
<1>6. QED
  BY <1>3, <1>5

\* Filling in snapshots leaves all of them sound and counting.
LEMMA FillSounds ==
    ASSUME LInv, SInv, NEW S, Fill(S), UNCHANGED evidence
    PROVE  /\ \A r \in Subjects \ adopted' : snapshot'[r] = NoSnapshot \/ IsStored(snapshot'[r])
           /\ SnapshotsCount'
<1>1. /\ snapshot' = StoredSnapshots(S) /\ UNCHANGED adopted
      /\ behind' = behind \ {s \in S : snapshot[s] = NoSnapshot}
  BY DEF Fill
<1>2. ASSUME NEW r \in Subjects
      PROVE  /\ r \notin adopted' => snapshot'[r] = NoSnapshot \/ IsStored(snapshot'[r])
             /\ r \in S /\ snapshot[r] = NoSnapshot => Counts(snapshot'[r], r, evidence[r])
             /\ ~ (r \in S /\ snapshot[r] = NoSnapshot) => snapshot'[r] = snapshot[r]
  BY <1>1, FilledIsSound DEF SInv
<1>3. ASSUME NEW r \in Subjects \ behind', snapshot'[r] # NoSnapshot
      PROVE  Counts(snapshot'[r], r, evidence'[r])
  <2>1. CASE r \in S /\ snapshot[r] = NoSnapshot
    BY <1>2, <2>1
  <2>2. CASE ~ (r \in S /\ snapshot[r] = NoSnapshot)
    <3>1. snapshot'[r] = snapshot[r] /\ r \in Subjects \ behind
      BY <1>1, <1>2, <1>3, <2>2
    <3>2. QED
      BY <1>3, <3>1 DEF SInv, SnapshotsCount
  <2>3. QED
    BY <2>1, <2>2
<1>4. QED
  BY <1>2, <1>3 DEF SnapshotsCount

\* So does evidence that is recorded, however much of it was done,
LEMMA RecordingSounds ==
    ASSUME LInv, SInv, NEW q \in workload, Recording(q)
    PROVE  /\ \A r \in Subjects \ adopted' : snapshot'[r] = NoSnapshot \/ IsStored(snapshot'[r])
           /\ SnapshotsCount'
<1>1. PICK done \in 1 .. 4 : q.op = "evidence" /\ RecordEvidence(q, done)
  BY DEF Recording
<1>2. ListsAreGood /\ workload \in Workloads
  BY DEF LInv, SInv, Registrations
<1>3. PICK s, list :
         /\ s \in Subjects /\ s = About[q.report] /\ Good(list) /\ evidence' = [evidence EXCEPT ![s] = list]
         /\ snapshot' = IF done < 2 THEN snapshot
                        ELSE [snapshot EXCEPT ![s] = Recomputed(s, list, snapshot[s], Known)]
  BY <1>1, <1>2, Recorded DEF Grown
<1>4. behind' = (IF done < 2 THEN behind \cup {s} ELSE behind \ {s}) /\ UNCHANGED adopted
  BY <1>1, <1>3 DEF RecordEvidence
<1>0. PICK known : known = Known
  OBVIOUS
<1>5. PICK x : x = (IF done < 2 THEN snapshot[s] ELSE Recomputed(s, list, snapshot[s], known))
  OBVIOUS
<1>6. \A r \in Subjects : /\ evidence'[r] = IF r = s THEN list ELSE evidence[r]
                          /\ snapshot'[r] = IF r = s THEN x ELSE snapshot[r]
  <2>1. DOMAIN evidence = Subjects /\ DOMAIN snapshot = Subjects
    BY <1>2 DEF ListsAreGood, LInv, Versions
  <2>2. QED
    BY <1>0, <1>3, <1>5, <2>1
<1>7. s \in adopted \/ snapshot[s] = NoSnapshot \/ IsStored(snapshot[s])
  BY <1>3 DEF SInv, SnapshotsAreSound
<1>8. PICK old : old = snapshot[s]
  OBVIOUS
<1>9. /\ s \in adopted \/ IsStored(Recomputed(s, list, old, known))
      /\ Counts(Recomputed(s, list, old, known), s, list)
  BY <1>2, <1>3, <1>7, <1>8, RecomputeIsSnapshot, RecomputeCounts DEF ListsAreGood, Good
<1>10. s \in adopted \/ x = NoSnapshot \/ IsStored(x)
  BY <1>5, <1>7, <1>8, <1>9
<1>11. s \in behind' \/ Counts(x, s, list)
  BY <1>4, <1>5, <1>8, <1>9
<1>12. behind \ {s} \subseteq behind'
  BY <1>4
<1>13. QED
  BY <1>3, <1>4, <1>6, <1>10, <1>11, <1>12, OneChanges

\* a dispute, which recomputes the snapshot once or twice,
LEMMA DisputingSounds ==
    ASSUME LInv, SInv, NEW q \in workload, Disputing(q)
    PROVE  /\ \A r \in Subjects \ adopted' : snapshot'[r] = NoSnapshot \/ IsStored(snapshot'[r])
           /\ SnapshotsCount'
<1>1. ListsAreGood /\ SnapshotsAreSound /\ workload \in Workloads
  BY DEF LInv, SInv, Registrations
<1>2. PICK s \in Subjects : s = q.subject
  <2>1. q.op = "dispute"
    BY DEF Disputing
  <2>2. QED
    BY <1>1, <2>1, RequestsAssumption
<1>3. PICK picks \in SUBSET (DOMAIN evidence[s]), done \in 1 .. 5 :
         Dispute(s, picks, q.severity, q.preferred, done)
  BY <1>2 DEF Disputing
<1>4. PICK opened : opened = Insert(evidence[s], OpenedRecord)
  OBVIOUS
<1>5. PICK resolved : resolved = Insert(opened, ResolvedRecord)
  OBVIOUS
<1>6. opened \in Seq(Entry) /\ resolved \in Seq(Entry)
  BY <1>1, <1>3, <1>4, <1>5, Disputed DEF Grown, Good
<1>7. PICK snap : snap = StoredSnapshots({s})[s]
  OBVIOUS
<1>8. s \in adopted \/ IsStored(snap)
  BY <1>1, <1>7, FilledIsSound
<1>0. PICK known : known = Known
  OBVIOUS
<1>9. PICK first : first = Recomputed(s, opened, snap, known)
  OBVIOUS
<1>10. PICK second : second = Recomputed(s, resolved, first, known)
  OBVIOUS
<1>11. (s \in adopted \/ IsStored(first)) /\ Counts(first, s, opened)
  BY <1>1, <1>6, <1>8, <1>9, RecomputeIsSnapshot, RecomputeCounts DEF ListsAreGood
<1>12. (s \in adopted \/ IsStored(second)) /\ Counts(second, s, resolved)
  BY <1>1, <1>6, <1>10, <1>11, RecomputeIsSnapshot, RecomputeCounts DEF ListsAreGood
<1>13. PICK outcome, decided : BookDispute(s, done, snap, outcome, decided) /\ decided \in BOOLEAN
  BY <1>3, <1>7 DEF Dispute, JudgeDispute, DecideDispute
<1>14. PICK list : list = (IF decided /\ done > 2 THEN resolved ELSE opened)
  OBVIOUS
<1>15. PICK x : x = (IF done = 1 THEN snap ELSE IF decided /\ done > 3 THEN second ELSE first)
  OBVIOUS
<1>16. evidence' = [evidence EXCEPT ![s] = list]
  BY <1>4, <1>5, <1>13, <1>14 DEF BookDispute, OpenedRecord, ResolvedRecord
<1>17. DisputedSnapshot(s, resolved, decided, done, snap, first) = x
  BY <1>0, <1>10, <1>15 DEF DisputedSnapshot
<1>18. snapshot' = [snapshot EXCEPT ![s] = x]
  BY <1>0, <1>4, <1>5, <1>9, <1>13, <1>17 DEF BookDispute, OpenedRecord, ResolvedRecord
<1>19. behind' = IF done = 1 \/ (decided /\ done = 3) THEN behind \cup {s} ELSE behind \ {s}
  BY <1>13 DEF BookDispute
<1>20. behind \ {s} \subseteq behind' /\ UNCHANGED adopted /\ (s \in adopted \/ IsStored(x))
  BY <1>3, <1>8, <1>11, <1>12, <1>15, <1>19 DEF Dispute
<1>21. DOMAIN evidence = Subjects /\ DOMAIN snapshot = Subjects
  BY <1>1 DEF ListsAreGood, LInv, Versions
<1>22. \A r \in Subjects : /\ evidence'[r] = IF r = s THEN list ELSE evidence[r]
                           /\ snapshot'[r] = IF r = s THEN x ELSE snapshot[r]
  BY <1>16, <1>18, <1>21
<1>23. s \in behind' \/ Counts(x, s, list)
  BY <1>11, <1>12, <1>14, <1>15, <1>19
<1>24. QED
  BY <1>20, <1>23, <1>22, OneChanges

\* and an import, which recomputes it or adopts the one of the bundle.
LEMMA ImportingSounds ==
    ASSUME LInv, SInv, NEW q \in workload, Importing(q)
    PROVE  /\ \A r \in Subjects \ adopted' : snapshot'[r] = NoSnapshot \/ IsStored(snapshot'[r])
           /\ SnapshotsCount'
<1>1. PICK b \in Foreign \cup bundles, done \in 1 .. 4 : Import(b, q.mode, done)
  BY DEF Importing
<1>2. ListsAreGood /\ SnapshotsAreSound
  BY DEF SInv
<1>3. PICK s : s = b.subject
  OBVIOUS
<1>4. PICK fresh : fresh = Fresh(s, b.evidence)
  OBVIOUS
<1>5. PICK list : list = Merged(s, fresh)
  OBVIOUS
<1>6. s \in Subjects /\ list \in Seq(Entry) /\ (fresh = <<>> => list = evidence[s])
  BY <1>2, <1>3, <1>4, <1>5, Imported DEF Good
<1>7. PICK old : old = snapshot[s]
  OBVIOUS
<1>8. s \in adopted \/ old = NoSnapshot \/ IsStored(old)
  BY <1>2, <1>6, <1>7 DEF SnapshotsAreSound
<1>0. PICK known : known = Known \cup {s}
  OBVIOUS
<1>9. PICK new : new = Recomputed(s, list, old, known)
  OBVIOUS
<1>10. (s \in adopted \/ IsStored(new)) /\ Counts(new, s, list)
  BY <1>2, <1>6, <1>8, <1>9, RecomputeIsSnapshot, RecomputeCounts DEF ListsAreGood
<1>11. b \in Foreign \/ s \in adopted \/ IsStored(b.snapshot)
  BY <1>2, <1>3 DEF SnapshotsAreSound
<1>12. PICK adopt \in BOOLEAN : adopt = (old = NoSnapshot \/ q.mode = "mirror")
  OBVIOUS
<1>13. PICK dead \in BOOLEAN :
         dead = (~ adopt /\ fresh # <<>> /\ passport[s] \notin {"none", "active", "bare"})
  OBVIOUS
<1>14. /\ evidence' = IF done < 2 THEN evidence ELSE [evidence EXCEPT ![s] = list]
       /\ snapshot' = IF done < 3 \/ dead \/ (~ adopt /\ fresh = <<>>) THEN snapshot
                      ELSE [snapshot EXCEPT ![s] = IF adopt THEN b.snapshot ELSE new]
       /\ behind' = IF done >= 3 /\ ~ adopt /\ ~ dead /\ fresh # <<>> THEN behind \ {s}
                    ELSE IF (adopt /\ done >= 3) \/ (fresh # <<>> /\ done >= 2)
                    THEN behind \cup {s} ELSE behind
  BY <1>0, <1>1, <1>3, <1>4, <1>5, <1>7, <1>9, <1>12, <1>13 DEF Import
<1>23. adopted' = IF adopt /\ done >= 3 /\ b \in Foreign THEN adopted \cup {s} ELSE adopted
  BY <1>1, <1>3, <1>7, <1>12 DEF Import
<1>15. DOMAIN evidence = Subjects /\ DOMAIN snapshot = Subjects
  BY <1>2 DEF ListsAreGood, LInv, Versions
<1>16. PICK l : l = (IF done < 2 THEN evidence[s] ELSE list)
  OBVIOUS
<1>17. PICK x : x = (IF done < 3 \/ dead \/ (~ adopt /\ fresh = <<>>) THEN old
                    ELSE IF adopt THEN b.snapshot ELSE new)
  OBVIOUS
<1>18. \A r \in Subjects : /\ evidence'[r] = IF r = s THEN l ELSE evidence[r]
                           /\ snapshot'[r] = IF r = s THEN x ELSE snapshot[r]
  BY <1>6, <1>7, <1>14, <1>15, <1>16, <1>17
<1>19. behind \ {s} \subseteq behind'
  BY <1>14
<1>20. s \in adopted' \/ x = NoSnapshot \/ IsStored(x)
  <2>1. done \in 1 .. 4
    OBVIOUS
  <2>2. QED
    BY <1>8, <1>10, <1>11, <1>17, <1>23, <2>1
<1>21. s \in behind' \/ x = NoSnapshot \/ Counts(x, s, l)
  <2>1. s \notin behind => old = NoSnapshot \/ Counts(old, s, evidence[s])
    BY <1>6, <1>7 DEF SInv, SnapshotsCount
  <2>2. QED
    BY <1>6, <1>10, <1>14, <1>16, <1>17, <2>1
<1>22. QED
  BY <1>6, <1>18, <1>19, <1>20, <1>21, <1>23, OneChanges

\* What came from elsewhere is never forgotten to have.
LEMMA AdoptedStays == ASSUME [Next]_vars PROVE adopted \subseteq adopted'
<1>1. CASE Tick \/ UNCHANGED vars
  BY <1>1 DEF Tick, vars, views
<1>2. ASSUME NEW q \in workload, Serve(q) PROVE adopted \subseteq adopted'
  <2>1. CASE \/ Replay(q) \/ RefusePassport(q) \/ RepeatEvidence(q) \/ RefuseSubject(Subject(q))
             \/ \E done \in 1 .. 3 : CreatePassport(q, done)
    BY <2>1 DEF Replay, RefusePassport, RepeatEvidence, RefuseSubject, CreatePassport, views
  <2>2. CASE \E done \in 1 .. 4 : RecordEvidence(q, done)
    BY <2>2 DEF RecordEvidence
  <2>3. CASE \E picks \in SUBSET (DOMAIN evidence[q.subject]), done \in 1 .. 5 :
                Dispute(q.subject, picks, q.severity, q.preferred, done)
    BY <2>3 DEF Dispute
  <2>4. CASE \E done \in 1 .. 2 : ResolveTrust(q.subject, q.context, q.named, done)
    BY <2>4 DEF ResolveTrust, Fill
  <2>5. CASE \/ LoseResolution(q.subject, q.context, q.named)
             \/ \E filled \in SUBSET Subjects :
                   BlockResolution(q.subject, q.context, q.named, filled)
    BY <2>5 DEF BlockResolution, LoseResolution, Fill
  <2>6. CASE \/ RouteValidators(q.subject, q.candidates, q.required, q.context)
             \/ RouteExecutors(q.subject, q.candidates, q.minimum, q.downgrade, q.context)
             \/ Export(q.subject)
    BY <2>6 DEF RouteValidators, RouteExecutors, Export, Fill
  <2>7. CASE Importing(q)
    BY <2>7 DEF Importing, Import
  <2>8. QED
    BY <1>2, <2>1, <2>2, <2>3, <2>4, <2>5, <2>6, <2>7 DEF Serve, Importing
<1>3. QED
  BY <1>1, <1>2 DEF Next

\* SInv is kept by every step.
LEMMA SnapshotsStep == ASSUME LInv, SInv, [Next]_vars PROVE SInv'
<1>1. ListsAreGood'
  BY ListsStep DEF SInv, LInv, Registrations
<1>2. /\ \A r \in Subjects \ adopted' : snapshot'[r] = NoSnapshot \/ IsStored(snapshot'[r])
      /\ SnapshotsCount'
  <2>1. CASE UNCHANGED <<snapshot, behind, evidence, adopted>>
    BY <2>1 DEF SInv, SnapshotsAreSound, SnapshotsCount
  <2>2. CASE UNCHANGED vars
    BY <2>1, <2>2 DEF vars, views, records
  <2>3. CASE Next
    BY <2>1, <2>3, SnapshotsMove, FillSounds, RecordingSounds, DisputingSounds, ImportingSounds
  <2>4. QED
    BY <2>2, <2>3
<1>3. \A b \in bundles' : b.subject \in adopted' \/ IsStored(b.snapshot)
  <2>0. adopted \subseteq adopted'
    BY AdoptedStays
  <2>1. CASE UNCHANGED bundles
    BY <2>0, <2>1 DEF SInv, SnapshotsAreSound
  <2>2. ASSUME NEW q \in workload, q.op = "export", Export(q.subject)
        PROVE  \A b \in bundles' : b.subject \in adopted' \/ IsStored(b.snapshot)
    <3>1. PICK s \in Subjects : s = q.subject
      BY <2>2, LedgerAssumption DEF LInv, Registrations
    <3>2. PICK x : x = StoredSnapshots({s})[s]
      OBVIOUS
    <3>3. s \in adopted \/ IsStored(x)
      BY <3>2, FilledIsSound DEF SInv
    <3>4. PICK new : new = [receipt |-> <<"export", Cardinality(bundles)>>, subject |-> s,
                            evidence |-> evidence[s], snapshot |-> x]
      OBVIOUS
    <3>5. bundles' = bundles \cup {new} /\ new.snapshot = x /\ new.subject = s
      BY <2>2, <3>1, <3>2, <3>4 DEF Export
    <3>6. QED
      BY <2>0, <3>3, <3>5 DEF SInv, SnapshotsAreSound
  <2>3. CASE UNCHANGED vars
    BY <2>1, <2>3 DEF vars, portability
  <2>4. QED
    BY <2>1, <2>2, <2>3, BundlesMove
<1>4. QED
  BY <1>1, <1>2, <1>3 DEF SInv, SnapshotsAreSound

\* It holds at the start.
LEMMA SnapshotsInit == Init => SInv
<1> SUFFICES ASSUME Init PROVE SInv
  OBVIOUS
<1>1. Good(<<>>)
  BY DEF Good, Once, Ordered
<1>2. /\ evidence \in [Subjects -> Seq(Entry)]
      /\ \A s \in Subjects : evidence[s] = <<>> /\ snapshot[s] = NoSnapshot
  BY DEF Init
<1>3. now = 0 /\ bundles = {}
  BY DEF Init
<1>4. QED
  BY <1>1, <1>2, <1>3 DEF SInv, ListsAreGood, SnapshotsAreSound, SnapshotsCount

-----------------------------------------------------------------------------
(* The other variables *)

\* The types of what is left.
Scalars ==
    /\ now \in 0 .. MaxNow /\ crashes \in 0 .. MaxCrashes /\ imports \in 0 .. MaxImports
    /\ passport \in [Subjects -> {"none", "bare", "active", "revoked"}]
    /\ behind \cup rolledBack \cup adopted \cup torn \subseteq Subjects
    /\ unapplied \subseteq Reports

\* Requests that are cut short are counted up to their bound.
LEMMA StatementsCount ==
    ASSUME crashes \in 0 .. MaxCrashes, NEW done, NEW total, Statements(done, total)
    PROVE  crashes' \in 0 .. MaxCrashes
BY BoundsAssumption DEF Statements

\* Filling in snapshots names no new subjects.
LEMMA FillScalars ==
    ASSUME Scalars, NEW S, Fill(S) PROVE behind' \cup rolledBack' \cup adopted' \subseteq Subjects
BY DEF Scalars, Fill

\* The other variables keep their types.
LEMMA ScalarsStep == ASSUME LInv, SInv, Scalars, [Next]_vars PROVE Scalars'
<1>1. workload \in Workloads /\ ListsAreGood
  BY DEF LInv, Registrations, SInv
<1>2. CASE UNCHANGED vars
  BY <1>2 DEF Scalars, vars, bounds, registry, views, records
<1>3. CASE Tick
  BY <1>3, BoundsAssumption DEF Scalars, Tick, registry, views, records
<1>4. ASSUME NEW q \in workload, Serve(q) PROVE Scalars'
  <2>1. CASE Replay(q) \/ RefusePassport(q) \/ RepeatEvidence(q) \/ RefuseSubject(Subject(q))
    BY <2>1 DEF Scalars, Replay, RefusePassport, RepeatEvidence, RefuseSubject, bounds, registry,
                records, views
  <2>2. ASSUME NEW done \in 1 .. 3, q.op = "passport", CreatePassport(q, done) PROVE Scalars'
    <3>1. PICK s \in Subjects : s = q.subject
      BY <1>1, <2>2, LedgerAssumption
    <3>2. /\ UNCHANGED <<now, imports, behind, rolledBack, adopted, unapplied>>
          /\ passport' = [passport EXCEPT ![s] = IF done = 1 THEN "bare" ELSE "active"]
          /\ torn' = IF done < 3 THEN torn \cup {s} ELSE torn
          /\ Statements(done, 3)
      BY <2>2, <3>1 DEF CreatePassport, bounds, views, records
    <3>3. crashes' \in 0 .. MaxCrashes
      BY <3>2, StatementsCount DEF Scalars
    <3>4. QED
      BY <3>2, <3>3 DEF Scalars
  <2>3. ASSUME NEW done \in 1 .. 4, q.op = "evidence", RecordEvidence(q, done) PROVE Scalars'
    <3>1. PICK r \in Reports : r = q.report
      BY <1>1, <2>3, RequestsAssumption
    <3>2. PICK s \in Subjects : s = About[r]
      BY ContentAssumption
    <3>3. /\ UNCHANGED <<now, imports, rolledBack, adopted, torn>> /\ Statements(done, 4)
          /\ passport' = StatusAfter(r, done)
          /\ behind' = IF done < 2 THEN behind \cup {s} ELSE behind \ {s}
          /\ unapplied' \subseteq unapplied \cup {r}
      BY <2>3, <3>1, <3>2 DEF RecordEvidence, bounds
    <3>4. crashes' \in 0 .. MaxCrashes
      BY <3>3, StatementsCount DEF Scalars
    <3>5. passport' \in [Subjects -> {"none", "bare", "active", "revoked"}]
      BY <3>3 DEF StatusAfter, Scalars
    <3>6. QED
      BY <3>3, <3>4, <3>5 DEF Scalars
  <2>4. ASSUME NEW picks \in SUBSET (DOMAIN evidence[q.subject]), NEW done \in 1 .. 5,
               q.op = "dispute", Dispute(q.subject, picks, q.severity, q.preferred, done)
        PROVE  Scalars'
    <3>1. PICK s \in Subjects : s = q.subject
      BY <1>1, <2>4, RequestsAssumption
    <3>2. PICK snap, outcome, decided : BookDispute(s, done, snap, outcome, decided)
      BY <2>4, <3>1 DEF Dispute, JudgeDispute, DecideDispute
    <3>3. /\ UNCHANGED <<now, imports, passport, rolledBack, adopted, torn, unapplied>>
          /\ behind' \subseteq behind \cup {s}
          /\ \E total : Statements(done, total)
      BY <2>4, <3>2 DEF Dispute, BookDispute, bounds, registry
    <3>4. crashes' \in 0 .. MaxCrashes
      BY <3>3, StatementsCount DEF Scalars
    <3>5. QED
      BY <3>3, <3>4 DEF Scalars
  <2>5. ASSUME NEW done \in 1 .. 2, ResolveTrust(q.subject, q.context, q.named, done)
        PROVE  Scalars'
    <3>1. /\ UNCHANGED <<now, imports, passport, torn, unapplied>>
          /\ \E S : Fill(S) /\ \E total : Statements(done, total)
      BY <2>5 DEF ResolveTrust, bounds, registry, records
    <3>2. crashes' \in 0 .. MaxCrashes
      BY <3>1, StatementsCount DEF Scalars
    <3>3. behind' \cup rolledBack' \cup adopted' \subseteq Subjects
      BY <3>1, FillScalars
    <3>4. QED
      BY <3>1, <3>2, <3>3 DEF Scalars
  <2>6. CASE \/ LoseResolution(q.subject, q.context, q.named)
             \/ \E filled \in SUBSET Subjects :
                   BlockResolution(q.subject, q.context, q.named, filled)
             \/ RouteValidators(q.subject, q.candidates, q.required, q.context)
             \/ RouteExecutors(q.subject, q.candidates, q.minimum, q.downgrade, q.context)
             \/ Export(q.subject)
    <3>1. UNCHANGED <<now, imports, passport, torn, unapplied, crashes>> /\ \E S : Fill(S)
      BY <2>6 DEF BlockResolution, LoseResolution, RouteValidators, RouteExecutors, Export, bounds, registry, records
    <3>2. behind' \cup rolledBack' \cup adopted' \subseteq Subjects
      BY <3>1, FillScalars
    <3>3. QED
      BY <3>1, <3>2 DEF Scalars
  <2>7. ASSUME NEW b \in Foreign \cup bundles, NEW done \in 1 .. 4, Import(b, q.mode, done)
        PROVE  Scalars'
    <3>1. PICK s \in Subjects : s = b.subject
      BY <1>1, Imported
    <3>2. /\ UNCHANGED <<now, torn>> /\ imports < MaxImports /\ imports' = imports + 1
          /\ Statements(done, 4)
          /\ passport' = [passport EXCEPT ![s] = IF passport[s] = "none" THEN "active" ELSE passport[s]]
          /\ behind' \subseteq behind \cup {s} /\ rolledBack' \subseteq rolledBack \cup {s}
          /\ adopted' \subseteq adopted \cup {s}
          /\ unapplied' \subseteq unapplied \cup Reports
      BY <2>7, <3>1 DEF Import
    <3>3. crashes' \in 0 .. MaxCrashes
      BY <3>2, StatementsCount DEF Scalars
    <3>4. imports' \in 0 .. MaxImports
      BY <3>2, BoundsAssumption DEF Scalars
    <3>5. QED
      BY <3>2, <3>3, <3>4 DEF Scalars
  <2>8. QED
    BY <1>4, <2>1, <2>2, <2>3, <2>4, <2>5, <2>6, <2>7 DEF Serve
<1>5. QED
  BY <1>2, <1>3, <1>4 DEF Next

\* They hold at the start.
LEMMA ScalarsInit == Init => Scalars
BY BoundsAssumption DEF Init, Scalars

\* The records, the snapshots and the books of the platform keep their types, and
\* every snapshot counts the evidence it is not behind.
THEOREM LedgerIsTyped == Spec => [](LInv /\ SInv /\ Scalars)
<1>1. LInv /\ SInv /\ Scalars /\ [Next]_vars => (SInv /\ Scalars)'
  BY SnapshotsStep, ScalarsStep
<1>2. Init => SInv /\ Scalars
  BY SnapshotsInit, ScalarsInit
<1>3. QED
  BY <1>1, <1>2, LedgerInvariance, PTL DEF Spec

\* Every variable has its type, and a snapshot computed here has a share for every
\* dimension or lacks the six that a missing weight spoils: whatever is reported,
\* disputed or imported, and whichever request is cut short.
THEOREM TypesAreKept == Spec => []TypeOK
<1>1. LInv /\ SInv /\ Scalars => TypeOK
  BY DEF LInv, Registrations, SInv, ListsAreGood, SnapshotsAreSound, Scalars, TypeOK
<1>2. QED
  BY <1>1, LedgerIsTyped, PTL

-----------------------------------------------------------------------------
(* Revocations *)

\* A report of a revocation, and what becomes of it.
Revoking(r) == r \in Reports /\ Content[r].type = "passport.revoked"
Settled(r) == passport[About[r]] = "revoked" \/ r \in unapplied

\* A revocation on record has taken effect or is known not to, and so has one
\* that was answered as processed.
RevocationsHold ==
    /\ \A s \in Subjects : \A x \in Listed(evidence[s]) : Revoking(x.report) => Settled(x.report)
    /\ \A k \in Keys : idempotency[k] # NoRow /\ idempotency[k].answer.kind = "processed" =>
          LET r == idempotency[k].answer.report IN r \in Reports /\ (Revoking(r) => Settled(r))
    /\ answer.kind = "processed" =>
          answer.report \in Reports /\ (Revoking(answer.report) => Settled(answer.report))

\* What is settled stays so.
LEMMA SettledStays ==
    ASSUME LInv, SInv, Scalars, [Next]_vars, NEW r \in Reports, Settled(r)
    PROVE  passport'[About[r]] = "revoked" \/ r \in unapplied'
<1>1. PICK a \in Subjects : a = About[r]
  BY ContentAssumption
<1>2. passport[a] = "revoked" \/ r \in unapplied
  BY <1>1 DEF Settled
<1>3. DOMAIN passport = Subjects /\ workload \in Workloads
  BY DEF LInv, Tables, Registrations
<1>4. SUFFICES (passport[a] = "revoked" => passport'[a] = "revoked") /\ unapplied \subseteq unapplied'
  BY <1>1, <1>2
<1>5. CASE UNCHANGED vars \/ Tick
  BY <1>5 DEF vars, Tick, registry, records
<1>6. ASSUME NEW q \in workload, Serve(q)
      PROVE  (passport[a] = "revoked" => passport'[a] = "revoked") /\ unapplied \subseteq unapplied'
  <2>1. CASE UNCHANGED <<passport, unapplied>>
    BY <2>1
  <2>2. CASE \/ Replay(q) \/ RefusePassport(q) \/ RepeatEvidence(q) \/ RefuseSubject(Subject(q))
    BY <2>1, <2>2 DEF Replay, RefusePassport, RepeatEvidence, RefuseSubject, records, registry
  <2>3. CASE \E done \in 1 .. 3 : CreatePassport(q, done)
    BY <1>3, <2>3 DEF CreatePassport, records
  <2>4. CASE \E done \in 1 .. 4 : RecordEvidence(q, done)
    <3>1. PICK done \in 1 .. 4 : RecordEvidence(q, done)
      BY <2>4
    <3>2. passport' = StatusAfter(q.report, done) /\ unapplied \subseteq unapplied'
      BY <3>1 DEF RecordEvidence
    <3>3. QED
      BY <1>3, <3>2 DEF StatusAfter
  <2>5. CASE \E picks \in SUBSET (DOMAIN evidence[q.subject]), done \in 1 .. 5 :
                Dispute(q.subject, picks, q.severity, q.preferred, done)
    BY <2>1, <2>5 DEF Dispute, registry
  <2>6. CASE \/ \E done \in 1 .. 2 : ResolveTrust(q.subject, q.context, q.named, done)
             \/ LoseResolution(q.subject, q.context, q.named)
             \/ \E filled \in SUBSET Subjects :
                   BlockResolution(q.subject, q.context, q.named, filled)
    BY <2>1, <2>6 DEF ResolveTrust, BlockResolution, LoseResolution, records, registry
  <2>7. CASE \/ RouteValidators(q.subject, q.candidates, q.required, q.context)
             \/ RouteExecutors(q.subject, q.candidates, q.minimum, q.downgrade, q.context)
             \/ Export(q.subject)
    BY <2>1, <2>7 DEF RouteValidators, RouteExecutors, Export, records, registry
  <2>8. CASE Importing(q)
    <3>1. PICK s : passport' = [passport EXCEPT ![s] = IF passport[s] = "none" THEN "active"
                                                      ELSE passport[s]]
                   /\ unapplied \subseteq unapplied'
      <4>1. PICK b \in Foreign \cup bundles, done \in 1 .. 4 : Import(b, q.mode, done)
        BY <2>8 DEF Importing
      <4>2. PICK s : s = b.subject
        OBVIOUS
      <4>3. passport' = [passport EXCEPT ![s] = IF passport[s] = "none" THEN "active" ELSE passport[s]]
        BY <4>1, <4>2 DEF Import
      <4>4. unapplied \subseteq unapplied'
        BY <4>1 DEF Import
      <4>5. QED
        BY <4>3, <4>4
    <3>2. QED
      BY <1>3, <3>1
  <2>9. QED
    BY <1>6, <2>2, <2>3, <2>4, <2>5, <2>6, <2>7, <2>8 DEF Serve, Importing
<1>7. QED
  BY <1>5, <1>6 DEF Next

\* What the last request is answered, by the request.
Repeating(q) == q.op = "evidence" /\ RepeatEvidence(q)
Replaying(q) == q.op \in {"passport", "evidence"} /\ Replay(q)
Resolving(q) ==
    q.op = "resolve" /\ \E done \in 1 .. 2 : ResolveTrust(q.subject, q.context, q.named, done)
RoutingValidators(q) ==
    q.op = "validators" /\ RouteValidators(q.subject, q.candidates, q.required, q.context)
RoutingExecutors(q) ==
    q.op = "executors" /\ RouteExecutors(q.subject, q.candidates, q.minimum, q.downgrade, q.context)

\* The kinds of answers that say nothing of evidence, resolutions or routes.
Plain == {"none", "created", "crashed", "refused", "disputed", "exported", "imported"}

\* Only these requests are answered with more.
LEMMA AnswersMove ==
    ASSUME Next
    PROVE  \/ answer'.kind \in Plain
           \/ \E q \in workload : \/ Repeating(q) \/ Recording(q) \/ Replaying(q)
                                 \/ Resolving(q) \/ RoutingValidators(q) \/ RoutingExecutors(q)
<1>1. CASE Tick
  BY <1>1 DEF Tick, Plain
<1>2. ASSUME NEW q \in workload, Serve(q)
      PROVE  \/ answer'.kind \in Plain
             \/ Repeating(q) \/ Recording(q) \/ Replaying(q)
             \/ Resolving(q) \/ RoutingValidators(q) \/ RoutingExecutors(q)
  <2>1. CASE \/ RefusePassport(q) \/ RefuseSubject(Subject(q))
             \/ \E done \in 1 .. 3 : CreatePassport(q, done)
    BY <2>1 DEF RefusePassport, RefuseSubject, CreatePassport, Refused, Crashed, Plain
  <2>2. CASE \E picks \in SUBSET (DOMAIN evidence[q.subject]), done \in 1 .. 5 :
                Dispute(q.subject, picks, q.severity, q.preferred, done)
    BY <2>2 DEF Dispute, JudgeDispute, DecideDispute, BookDispute, Crashed, Plain
  <2>3. CASE \/ LoseResolution(q.subject, q.context, q.named)
             \/ \E filled \in SUBSET Subjects :
                   BlockResolution(q.subject, q.context, q.named, filled)
    <3>1. LoseResolution(q.subject, q.context, q.named) => answer' = Refused("INTERNAL")
      BY DEF LoseResolution
    <3>2. ASSUME NEW filled, BlockResolution(q.subject, q.context, q.named, filled)
          PROVE  answer' = Refused("CANDIDATE")
      BY <3>2 DEF BlockResolution
    <3>3. QED
      BY <2>3, <3>1, <3>2 DEF Refused, Plain
  <2>4. CASE Export(q.subject)
    BY <2>4 DEF Export, Plain
  <2>5. CASE Importing(q)
    BY <2>5 DEF Importing, Import, Crashed, Plain
  <2>6. QED
    BY <1>2, <2>1, <2>2, <2>3, <2>4, <2>5
       DEF Serve, Repeating, Recording, Replaying, Resolving, RoutingValidators, RoutingExecutors,
           Importing
<1>3. QED
  BY <1>1, <1>2 DEF Next

\* What the key rows remember.
LEMMA KeysMove ==
    ASSUME Next
    PROVE  \/ UNCHANGED idempotency
           \/ \E q \in workload : \E reply :
                 /\ Remember(q, reply)
                 /\ \/ reply.kind = "created"
                    \/ /\ reply = Processed(q.report) /\ answer' = reply
                       /\ Repeating(q) \/ Recording(q)
<1>1. CASE Tick
  BY <1>1 DEF Tick
<1>2. ASSUME NEW q \in workload, Serve(q)
      PROVE  \/ UNCHANGED idempotency
             \/ \E reply : /\ Remember(q, reply)
                          /\ \/ reply.kind = "created"
                             \/ /\ reply = Processed(q.report) /\ answer' = reply
                                /\ Repeating(q) \/ Recording(q)
  <2>1. CASE \E done \in 1 .. 3 : CreatePassport(q, done)
    <3>1. PICK reply : reply = [kind |-> "created", subject |-> q.subject]
      OBVIOUS
    <3>2. UNCHANGED idempotency \/ Remember(q, reply)
      BY <2>1, <3>1 DEF CreatePassport
    <3>3. QED
      BY <3>1, <3>2
  <2>2. CASE q.op = "evidence" /\ RepeatEvidence(q)
    BY <2>2 DEF RepeatEvidence, Repeating
  <2>3. CASE q.op = "evidence" /\ \E done \in 1 .. 4 : RecordEvidence(q, done)
    BY <2>3 DEF RecordEvidence, Recording
  <2>4. CASE \/ RefusePassport(q) \/ RefuseSubject(Subject(q)) \/ Replay(q)
    BY <2>4 DEF RefusePassport, RefuseSubject, Replay
  <2>5. CASE \/ \E picks \in SUBSET (DOMAIN evidence[q.subject]), done \in 1 .. 5 :
                   Dispute(q.subject, picks, q.severity, q.preferred, done)
             \/ \E done \in 1 .. 2 : ResolveTrust(q.subject, q.context, q.named, done)
    BY <2>5 DEF Dispute, ResolveTrust
  <2>6. CASE \/ LoseResolution(q.subject, q.context, q.named)
             \/ \E filled \in SUBSET Subjects :
                   BlockResolution(q.subject, q.context, q.named, filled)
    BY <2>6 DEF BlockResolution, LoseResolution
  <2>7. CASE \/ RouteValidators(q.subject, q.candidates, q.required, q.context)
             \/ RouteExecutors(q.subject, q.candidates, q.minimum, q.downgrade, q.context)
             \/ Export(q.subject)
    BY <2>7 DEF RouteValidators, RouteExecutors, Export
  <2>8. CASE Importing(q)
    BY <2>8 DEF Importing, Import
  <2>9. QED
    BY <1>2, <2>1, <2>2, <2>3, <2>4, <2>5, <2>6, <2>7, <2>8 DEF Serve, Importing
<1>3. QED
  BY <1>1, <1>2 DEF Next

\* Nothing disputes or bundles add is a revocation that is forgotten.
LEMMA RevocationsRecorded ==
    ASSUME LInv, SInv, Scalars, RevocationsHold, [Next]_vars,
           NEW s \in Subjects, NEW x \in Listed(evidence'[s]), Revoking(x.report)
    PROVE  passport'[About[x.report]] = "revoked" \/ x.report \in unapplied'
<1>1. workload \in Workloads /\ ListsAreGood
  BY DEF LInv, Registrations, SInv
<1>2. DOMAIN evidence = Subjects /\ DOMAIN passport = Subjects
  BY <1>1 DEF ListsAreGood, LInv, Tables
<1>3. x.report \in Reports
  BY DEF Revoking
<1>4. CASE x \in Listed(evidence[s])
  <2>1. Settled(x.report)
    BY <1>4 DEF RevocationsHold
  <2>2. QED
    BY <1>3, <2>1, SettledStays
<1>5. ASSUME NEW q \in workload, Recording(q), x \notin Listed(evidence[s])
      PROVE  passport'[About[x.report]] = "revoked" \/ x.report \in unapplied'
  <2>1. PICK done \in 1 .. 4 : q.op = "evidence" /\ RecordEvidence(q, done)
    BY <1>5 DEF Recording
  <2>2. PICK at \in Nat :
           LET a == About[q.report]
               e == [report |-> q.report, at |-> at]
               list == Insert(evidence[a], e)
           IN  /\ a \in Subjects /\ q.report \in Reports /\ Grown(evidence[a], e, list)
               /\ evidence' = [evidence EXCEPT ![a] = list]
    BY <1>1, <2>1, Recorded
  <2>3. PICK a : a = About[q.report]
    OBVIOUS
  <2>4. PICK e : e = [report |-> q.report, at |-> at]
    OBVIOUS
  <2>5. PICK list : list = Insert(evidence[a], e)
    OBVIOUS
  <2>6. a \in Subjects /\ Listed(list) = Listed(evidence[a]) \cup {e}
        /\ evidence' = [evidence EXCEPT ![a] = list]
    BY <2>2, <2>3, <2>4, <2>5 DEF Grown
  <2>7. x = e
    BY <1>2, <1>5, <2>6
  <2>8. x.report = q.report /\ Content[q.report].type = "passport.revoked"
    BY <2>4, <2>7 DEF Revoking
  <2>9. /\ passport' = StatusAfter(q.report, done)
        /\ done < 3 => q.report \in unapplied'
    BY <2>1, <2>8 DEF RecordEvidence
  <2>10. done >= 3 => passport'[a] = "revoked"
    BY <1>2, <2>3, <2>6, <2>8, <2>9 DEF StatusAfter
  <2>11. QED
    BY <2>3, <2>8, <2>9, <2>10
<1>6. ASSUME NEW q \in workload, Disputing(q), x \notin Listed(evidence[s]) PROVE FALSE
  <2>1. q.op = "dispute"
    BY <1>6 DEF Disputing
  <2>2. PICK a \in Subjects : a = q.subject
    BY <1>1, <2>1, RequestsAssumption
  <2>3. PICK picks, done : Dispute(a, picks, q.severity, q.preferred, done)
    BY <1>6, <2>2 DEF Disputing
  <2>4. PICK opened : opened = Insert(evidence[a], OpenedRecord)
    OBVIOUS
  <2>5. PICK resolved : resolved = Insert(opened, ResolvedRecord)
    OBVIOUS
  <2>6. /\ Listed(opened) = Listed(evidence[a]) \cup {OpenedRecord}
        /\ Listed(resolved) = Listed(opened) \cup {ResolvedRecord}
    BY <1>1, <2>3, <2>4, <2>5, Disputed DEF Grown
  <2>7. PICK snap, outcome, decided : BookDispute(a, done, snap, outcome, decided)
    BY <2>3 DEF Dispute, JudgeDispute, DecideDispute
  <2>8. PICK list \in {opened, resolved} : evidence' = [evidence EXCEPT ![a] = list]
    BY <2>4, <2>5, <2>7 DEF BookDispute, OpenedRecord, ResolvedRecord
  <2>9. evidence'[s] = IF s = a THEN list ELSE evidence[s]
    BY <1>2, <2>8
  <2>10. x \in {OpenedRecord, ResolvedRecord}
    BY <1>6, <2>6, <2>8, <2>9
  <2>11. x.report \in Lifecycle
    BY <2>10 DEF OpenedRecord, ResolvedRecord, Lifecycle
  <2>12. Content[x.report].type = x.report
    BY <2>11, ContentAssumption
  <2>13. QED
    BY <2>11, <2>12 DEF Revoking, Lifecycle
<1>7. ASSUME NEW q \in workload, Importing(q), x \notin Listed(evidence[s])
      PROVE  x.report \in unapplied'
  <2>1. PICK b \in Foreign \cup bundles, done \in 1 .. 4 : Import(b, q.mode, done)
    BY <1>7 DEF Importing
  <2>2. PICK a : a = b.subject
    OBVIOUS
  <2>3. PICK fresh : fresh = Fresh(a, b.evidence)
    OBVIOUS
  <2>4. PICK list : list = Merged(a, fresh)
    OBVIOUS
  <2>5. a \in Subjects /\ Listed(list) = Listed(evidence[a]) \cup Listed(fresh)
    BY <1>1, <2>2, <2>3, <2>4, Imported
  <2>6. /\ evidence' = IF done < 2 THEN evidence ELSE [evidence EXCEPT ![a] = list]
        /\ unapplied' = IF done < 2 THEN unapplied
                        ELSE unapplied \cup {r \in Reports : /\ Content[r].type = "passport.revoked"
                                                            /\ \E i \in DOMAIN fresh : fresh[i].report = r}
    BY <2>1, <2>2, <2>3, <2>4 DEF Import
  <2>7. done >= 2 /\ x \in Listed(fresh)
    BY <1>2, <1>7, <2>5, <2>6
  <2>8. \E i \in DOMAIN fresh : fresh[i].report = x.report
    BY <2>7 DEF Listed
  <2>9. QED
    BY <2>6, <2>7, <2>8 DEF Revoking
<1>8. CASE UNCHANGED vars
  BY <1>4, <1>8 DEF vars, records
<1>9. CASE Next
  BY <1>4, <1>5, <1>6, <1>7, <1>9, RecordsMove
<1>10. QED
  BY <1>8, <1>9

\* A report that is answered as processed is settled, be it a revocation.
LEMMA ProcessedIsSettled ==
    ASSUME LInv, SInv, Scalars, RevocationsHold, [Next]_vars, NEW q \in workload,
           Repeating(q) \/ Recording(q)
    PROVE  /\ answer' = Processed(q.report) \/ answer'.kind \in Plain
           /\ q.report \in Reports
           /\ answer'.kind = "processed" /\ Revoking(q.report) =>
                passport'[About[q.report]] = "revoked" \/ q.report \in unapplied'
<1>1. q.report \in Reports
  <2>1. q.op = "evidence" /\ workload \in Workloads
    BY DEF Repeating, Recording, LInv, Registrations
  <2>2. QED
    BY <2>1, RequestsAssumption
<1>2. PICK a \in Subjects : a = About[q.report]
  BY <1>1, ContentAssumption
<1>3. CASE Repeating(q)
  <2>1. answer' = Processed(q.report) /\ Stored(a, q.report)
    BY <1>2, <1>3 DEF Repeating, RepeatEvidence
  <2>2. PICK x \in Listed(evidence[a]) : x.report = q.report
    BY <2>1 DEF Stored, Listed
  <2>3. Revoking(q.report) => Settled(q.report)
    BY <2>2 DEF RevocationsHold
  <2>4. QED
    BY <1>1, <2>1, <2>3, SettledStays
<1>4. CASE Recording(q)
  <2>1. PICK done \in 1 .. 4 : q.op = "evidence" /\ RecordEvidence(q, done)
    BY <1>4 DEF Recording
  <2>2. answer' = IF done = 4 THEN Processed(q.report) ELSE Crashed
    BY <2>1 DEF RecordEvidence
  <2>3. CASE done # 4
    BY <1>1, <2>2, <2>3 DEF Crashed, Plain
  <2>4. CASE done = 4
    <3>1. DOMAIN passport = Subjects
      BY DEF LInv, Tables
    <3>2. Revoking(q.report) => passport'[a] = "revoked"
      BY <1>2, <2>1, <2>4, <3>1 DEF RecordEvidence, StatusAfter, Revoking
    <3>3. QED
      BY <1>1, <1>2, <2>2, <2>4, <3>2
  <2>5. QED
    BY <2>3, <2>4
<1>5. QED
  BY <1>3, <1>4

\* Revocations stand.
LEMMA RevocationsStep == ASSUME LInv, SInv, Scalars, RevocationsHold, [Next]_vars PROVE RevocationsHold'
<1>1. \A s \in Subjects : \A x \in Listed(evidence'[s]) : Revoking(x.report) =>
         passport'[About[x.report]] = "revoked" \/ x.report \in unapplied'
  BY RevocationsRecorded
<1>2. ASSUME NEW k \in Keys, idempotency[k] # NoRow, idempotency[k].answer.kind = "processed",
             NEW r, r = idempotency[k].answer.report
      PROVE  r \in Reports /\ (Revoking(r) => passport'[About[r]] = "revoked" \/ r \in unapplied')
  <2>1. r \in Reports /\ (Revoking(r) => Settled(r))
    BY <1>2 DEF RevocationsHold
  <2>2. QED
    BY <2>1, SettledStays
<1>3. ASSUME NEW k \in Keys, idempotency'[k] # NoRow, idempotency'[k].answer.kind = "processed",
             NEW r, r = idempotency'[k].answer.report
      PROVE  r \in Reports /\ (Revoking(r) => passport'[About[r]] = "revoked" \/ r \in unapplied')
  <2>1. CASE UNCHANGED idempotency
    BY <1>2, <1>3, <2>1
  <2>2. ASSUME NEW q \in workload, NEW reply, Remember(q, reply),
               \/ reply.kind = "created"
               \/ /\ reply = Processed(q.report) /\ answer' = reply
                  /\ Repeating(q) \/ Recording(q)
        PROVE  r \in Reports /\ (Revoking(r) => passport'[About[r]] = "revoked" \/ r \in unapplied')
    <3>1. DOMAIN idempotency = Keys
      BY DEF LInv, Registrations
    <3>2. CASE UNCHANGED idempotency
      BY <2>1, <3>2
    <3>3. CASE idempotency' = [idempotency EXCEPT ![q.key] = [request |-> Body(q), answer |-> reply]]
      <4>1. CASE k # q.key
        <5>1. idempotency'[k] = idempotency[k]
          BY <3>1, <3>3, <4>1
        <5>2. QED
          BY <1>2, <1>3, <5>1
      <4>2. CASE k = q.key
        <5>1. idempotency'[k].answer = reply
          BY <3>1, <3>3, <4>2
        <5>2. reply = Processed(q.report) /\ answer' = reply /\ (Repeating(q) \/ Recording(q))
          BY <1>3, <2>2, <5>1
        <5>3. r = q.report /\ answer'.kind = "processed"
          BY <1>3, <5>1, <5>2 DEF Processed
        <5>4. QED
          BY <5>2, <5>3, ProcessedIsSettled
      <4>3. QED
        BY <4>1, <4>2
    <3>4. QED
      BY <2>2, <3>2, <3>3 DEF Remember
  <2>3. CASE UNCHANGED vars
    BY <2>1, <2>3 DEF vars
  <2>4. QED
    BY <2>1, <2>2, <2>3, KeysMove
<1>4. ASSUME answer'.kind = "processed"
      PROVE  /\ answer'.report \in Reports
             /\ Revoking(answer'.report) =>
                   passport'[About[answer'.report]] = "revoked" \/ answer'.report \in unapplied'
  <2> DEFINE Fine(r) == r \in Reports /\ (Revoking(r) => passport'[About[r]] = "revoked" \/ r \in unapplied')
  <2>1. SUFFICES ASSUME NEW r, r = answer'.report PROVE Fine(r)
    OBVIOUS
  <2>2. CASE UNCHANGED vars
    <3>1. r = answer.report /\ answer.kind = "processed"
      BY <1>4, <2>1, <2>2 DEF vars
    <3>2. r \in Reports /\ (Revoking(r) => Settled(r))
      BY <3>1 DEF RevocationsHold
    <3>3. QED
      BY <3>2, SettledStays
  <2>3. ASSUME NEW q \in workload, Repeating(q) \/ Recording(q) PROVE Fine(r)
    <3>1. /\ answer' = Processed(q.report) \/ answer'.kind \in Plain
          /\ q.report \in Reports
          /\ Revoking(q.report) => passport'[About[q.report]] = "revoked" \/ q.report \in unapplied'
      BY <1>4, <2>3, ProcessedIsSettled
    <3>2. r = q.report
      BY <1>4, <2>1, <3>1 DEF Plain, Processed
    <3>3. QED
      BY <3>1, <3>2
  <2>4. ASSUME NEW q \in workload, Replaying(q) PROVE Fine(r)
    <3>1. PICK k \in Keys : k = q.key /\ idempotency[k] # NoRow
      BY <2>4 DEF Replaying, Replay, Unanswered
    <3>2. answer' = idempotency[k].answer
      BY <1>4, <2>4, <3>1 DEF Replaying, Replay, Refused
    <3>3. r \in Reports /\ (Revoking(r) => Settled(r))
      BY <1>4, <2>1, <3>1, <3>2 DEF RevocationsHold
    <3>4. QED
      BY <3>3, SettledStays
  <2>5. ASSUME NEW q \in workload, Resolving(q) \/ RoutingValidators(q) \/ RoutingExecutors(q)
        PROVE  FALSE
    <3>1. CASE Resolving(q)
      <4>1. PICK done, row, recommended :
               AnswerResolution(q.subject, row, q.named, done, Outcome(row), recommended)
        BY <3>1 DEF Resolving, ResolveTrust, BookResolution
      <4>2. QED
        BY <1>4, <4>1 DEF AnswerResolution, Crashed, Refused
    <3>2. CASE RoutingValidators(q) \/ RoutingExecutors(q)
      BY <1>4, <3>2 DEF RoutingValidators, RoutingExecutors, RouteValidators, RouteExecutors
    <3>3. QED
      BY <2>5, <3>1, <3>2
  <2>6. answer'.kind \notin Plain
    BY <1>4 DEF Plain
  <2> HIDE DEF Fine
  <2>7. QED
    BY <2>2, <2>3, <2>4, <2>5, <2>6, AnswersMove
<1>5. QED
  BY <1>1, <1>3, <1>4 DEF RevocationsHold, Settled

-----------------------------------------------------------------------------
(* The books of disputes *)

\* The disputes of a list that were decided.
Decided(list) == {i \in DOMAIN list : list[i] # "request_additional_validation"}

\* As many records of a dispute's life as there are disputes on the books.
Covered(list, entries) ==
    /\ \E T : list \in Seq(T)
    /\ Len(list) <= Count(entries, "dispute.opened")
    /\ Cardinality(Decided(list)) <= Count(entries, "dispute.resolved")

\* So is every list of disputes by the evidence of its subject.
DisputesOnBooks == DOMAIN disputes = Subjects /\ \A s \in Subjects : Covered(disputes[s], evidence[s])

\* A list has finitely many decided disputes, and one more for each that is appended.
LEMMA DecidedAppend ==
    ASSUME NEW T, NEW list \in Seq(T), NEW outcome
    PROVE  /\ Cardinality(Decided(list)) \in Nat
           /\ \E U : Append(list, outcome) \in Seq(U)
           /\ Len(Append(list, outcome)) = Len(list) + 1
           /\ Cardinality(Decided(Append(list, outcome))) =
                 IF outcome = "request_additional_validation" THEN Cardinality(Decided(list))
                 ELSE Cardinality(Decided(list)) + 1
<1>1. PICK U : U = T \cup {outcome}
  OBVIOUS
<1>2. list \in Seq(U) /\ outcome \in U
  BY <1>1
<1>3. PICK n \in Nat : n = Len(list)
  OBVIOUS
<1>4. PICK new \in Seq(U) : new = Append(list, outcome)
  <2>1. Append(list, outcome) \in Seq(U)
    BY <1>2
  <2>2. QED
    BY <2>1
<1>5. /\ Len(new) = n + 1 /\ DOMAIN new = 1 .. n + 1 /\ new[n + 1] = outcome
      /\ DOMAIN list = 1 .. n /\ \A i \in 1 .. n : new[i] = list[i]
  BY <1>2, <1>3, <1>4
<1>6. PICK D : D = Decided(list)
  OBVIOUS
<1>7. D \in SUBSET (1 .. n) /\ n + 1 \notin D
  BY <1>5, <1>6 DEF Decided
<1>8. IsFiniteSet(1 .. n)
  BY FS_Interval
<1>9. IsFiniteSet(D) /\ Cardinality(D) \in Nat
  BY <1>7, <1>8, FS_Subset, FS_CardinalityType
<1>10. Decided(new) = IF outcome = "request_additional_validation" THEN D ELSE D \cup {n + 1}
  <2>1. 1 .. n + 1 = (1 .. n) \cup {n + 1}
    OBVIOUS
  <2>2. QED
    BY <1>5, <1>6, <2>1 DEF Decided
<1>11. Cardinality(D \cup {n + 1}) = Cardinality(D) + 1
  BY <1>7, <1>9, FS_AddElement
<1>12. QED
  BY <1>3, <1>4, <1>5, <1>6, <1>9, <1>10, <1>11

\* More records cover them as well.
LEMMA CoveredByMore ==
    ASSUME NEW list, NEW old, NEW new, Covered(list, old),
           \A r : Count(old, r) \in Nat /\ Count(new, r) \in Nat /\ Count(new, r) >= Count(old, r)
    PROVE  Covered(list, new)
<1>1. PICK T : list \in Seq(T)
  BY DEF Covered
<1>2. Len(list) \in Nat /\ Cardinality(Decided(list)) \in Nat
  BY <1>1, DecidedAppend
<1>3. QED
  BY <1>1, <1>2 DEF Covered

\* A dispute that is appended is covered by its own records.
LEMMA CoveredByOwn ==
    ASSUME NEW list, NEW old, Covered(list, old), NEW opened, NEW resolved,
           Grown(old, OpenedRecord, opened), Grown(opened, ResolvedRecord, resolved), NEW outcome
    PROVE  /\ Covered(list, opened) /\ Covered(list, resolved)
           /\ outcome = "request_additional_validation" => Covered(Append(list, outcome), opened)
           /\ Covered(Append(list, outcome), resolved)
<1>1. PICK T : list \in Seq(T)
  BY DEF Covered
<1>2. PICK new : new = Append(list, outcome)
  OBVIOUS
<1>3. PICK n \in Nat : n = Len(list)
  BY <1>1
<1>4. PICK c \in Nat : c = Cardinality(Decided(list))
  BY <1>1, DecidedAppend
<1>5. /\ \E U : new \in Seq(U)
      /\ Len(new) = n + 1
      /\ Cardinality(Decided(new)) = IF outcome = "request_additional_validation" THEN c ELSE c + 1
  BY <1>1, <1>2, <1>3, <1>4, DecidedAppend
<1>6. \A r : /\ Count(old, r) \in Nat /\ Count(opened, r) \in Nat /\ Count(resolved, r) \in Nat
            /\ Count(opened, r) >= Count(old, r) /\ Count(resolved, r) >= Count(opened, r)
  BY DEF Grown
<1>7. /\ Count(opened, "dispute.opened") >= Count(old, "dispute.opened") + 1
      /\ Count(resolved, "dispute.resolved") >= Count(opened, "dispute.resolved") + 1
  BY DEF Grown, OpenedRecord, ResolvedRecord
<1>8. n <= Count(old, "dispute.opened") /\ c <= Count(old, "dispute.resolved")
  BY <1>3, <1>4 DEF Covered
<1>9. Covered(list, opened) /\ Covered(list, resolved)
  BY <1>1, <1>3, <1>4, <1>6, <1>8 DEF Covered
<1>10. outcome = "request_additional_validation" => Covered(new, opened)
  BY <1>5, <1>6, <1>7, <1>8 DEF Covered
<1>11. Covered(new, resolved)
  BY <1>5, <1>6, <1>7, <1>8 DEF Covered
<1>12. QED
  BY <1>2, <1>9, <1>10, <1>11

\* No step leaves a dispute without its records.
LEMMA DisputesStep == ASSUME LInv, SInv, DisputesOnBooks, [Next]_vars PROVE DisputesOnBooks'
<1>1. workload \in Workloads /\ ListsAreGood /\ DOMAIN evidence = Subjects /\ DOMAIN disputes = Subjects
  BY DEF LInv, Registrations, SInv, ListsAreGood, DisputesOnBooks
<1>2. CASE UNCHANGED <<evidence, disputes>>
  BY <1>2 DEF DisputesOnBooks
<1>3. ASSUME NEW s \in Subjects, NEW list, NEW book, Covered(book, list),
             \A r \in Subjects : /\ evidence'[r] = IF r = s THEN list ELSE evidence[r]
                                 /\ disputes'[r] = IF r = s THEN book ELSE disputes[r],
             DOMAIN disputes' = Subjects
      PROVE  DisputesOnBooks'
  BY <1>3 DEF DisputesOnBooks
<1>4. ASSUME NEW q \in workload, Recording(q) PROVE DisputesOnBooks'
  <2>1. PICK done \in 1 .. 4 : q.op = "evidence" /\ RecordEvidence(q, done)
    BY <1>4 DEF Recording
  <2>2. PICK s, list, e : /\ s \in Subjects /\ Grown(evidence[s], e, list)
                         /\ evidence' = [evidence EXCEPT ![s] = list]
    BY <1>1, <2>1, Recorded
  <2>3. UNCHANGED disputes
    BY <2>1 DEF RecordEvidence
  <2>4. PICK old : old = evidence[s]
    OBVIOUS
  <2>5. Covered(disputes[s], list)
    <3>1. PICK book : book = disputes[s]
      OBVIOUS
    <3>2. Covered(book, old)
      BY <2>2, <2>4, <3>1 DEF DisputesOnBooks
    <3>3. Covered(book, list)
      BY <2>2, <2>4, <3>2, CoveredByMore DEF Grown
    <3>4. QED
      BY <3>1, <3>3
  <2>6. \A r \in Subjects : /\ evidence'[r] = IF r = s THEN list ELSE evidence[r]
                            /\ disputes'[r] = IF r = s THEN disputes[s] ELSE disputes[r]
    BY <1>1, <2>2, <2>3
  <2>7. QED
    BY <1>1, <1>3, <2>2, <2>3, <2>5, <2>6
<1>5. ASSUME NEW q \in workload, Disputing(q) PROVE DisputesOnBooks'
  <2>1. q.op = "dispute"
    BY <1>5 DEF Disputing
  <2>2. PICK s \in Subjects : s = q.subject
    BY <1>1, <2>1, RequestsAssumption
  <2>3. PICK picks \in SUBSET (DOMAIN evidence[s]), done \in 1 .. 5 :
           Dispute(s, picks, q.severity, q.preferred, done)
    BY <1>5, <2>2 DEF Disputing
  <2>4. PICK opened : opened = Insert(evidence[s], OpenedRecord)
    OBVIOUS
  <2>5. PICK resolved : resolved = Insert(opened, ResolvedRecord)
    OBVIOUS
  <2>6. PICK old : old = evidence[s]
    OBVIOUS
  <2>7. Grown(old, OpenedRecord, opened) /\ Grown(opened, ResolvedRecord, resolved)
    BY <1>1, <2>3, <2>4, <2>5, <2>6, Disputed
  <2>8. PICK snap, outcome, decided :
           /\ decided = (outcome # "request_additional_validation")
           /\ BookDispute(s, done, snap, outcome, decided)
    BY <2>3 DEF Dispute, JudgeDispute, DecideDispute
  <2>9. PICK book : book = disputes[s]
    OBVIOUS
  <2>10. Covered(book, old)
    BY <2>6, <2>9 DEF DisputesOnBooks
  <2>11. /\ Covered(book, opened) /\ Covered(book, resolved)
         /\ outcome = "request_additional_validation" => Covered(Append(book, outcome), opened)
         /\ Covered(Append(book, outcome), resolved)
    BY <2>7, <2>10, CoveredByOwn
  <2>12. PICK list : list = (IF decided /\ done > 2 THEN resolved ELSE opened)
    OBVIOUS
  <2>13. PICK new : new = (IF done = (IF decided THEN 5 ELSE 3) THEN Append(book, outcome) ELSE book)
    OBVIOUS
  <2>14. Covered(new, list)
    <3>1. CASE outcome = "request_additional_validation"
      <4>1. list = opened /\ new \in {book, Append(book, outcome)}
        BY <2>8, <2>12, <2>13, <3>1
      <4>2. QED
        BY <2>11, <3>1, <4>1
    <3>2. CASE outcome # "request_additional_validation"
      <4>1. decided = TRUE
        BY <2>8, <3>2
      <4>2. CASE done = 5
        <5>1. list = resolved /\ new = Append(book, outcome)
          BY <2>12, <2>13, <4>1, <4>2
        <5>2. QED
          BY <2>11, <5>1
      <4>3. CASE done # 5
        <5>1. list \in {opened, resolved} /\ new = book
          BY <2>12, <2>13, <4>1, <4>3
        <5>2. QED
          BY <2>11, <5>1
      <4>4. QED
        BY <4>2, <4>3
    <3>3. QED
      BY <3>1, <3>2
  <2>15. /\ evidence' = [evidence EXCEPT ![s] = list]
         /\ disputes' = IF done = (IF decided THEN 5 ELSE 3)
                        THEN [disputes EXCEPT ![s] = Append(book, outcome)] ELSE disputes
    BY <2>4, <2>5, <2>8, <2>9, <2>12 DEF BookDispute, Booked, OpenedRecord, ResolvedRecord
  <2>16. /\ \A r \in Subjects : /\ evidence'[r] = IF r = s THEN list ELSE evidence[r]
                                /\ disputes'[r] = IF r = s THEN new ELSE disputes[r]
         /\ DOMAIN disputes' = Subjects
    BY <1>1, <2>9, <2>13, <2>15
  <2>17. QED
    BY <1>3, <2>14, <2>16
<1>6. ASSUME NEW q \in workload, Importing(q) PROVE DisputesOnBooks'
  <2>1. PICK b \in Foreign \cup bundles, done \in 1 .. 4 : Import(b, q.mode, done)
    BY <1>6 DEF Importing
  <2>2. PICK s : s = b.subject
    OBVIOUS
  <2>3. PICK list : list = Merged(s, Fresh(s, b.evidence))
    OBVIOUS
  <2>4. PICK old : old = evidence[s]
    OBVIOUS
  <2>5. s \in Subjects /\ \A r : Count(list, r) \in Nat /\ Count(list, r) >= Count(old, r)
    BY <1>1, <2>2, <2>3, <2>4, Imported
  <2>6. /\ evidence' = IF done < 2 THEN evidence ELSE [evidence EXCEPT ![s] = list]
        /\ UNCHANGED disputes
    BY <2>1, <2>2, <2>3 DEF Import
  <2>7. CASE done < 2
    BY <1>2, <2>6, <2>7
  <2>8. CASE ~ (done < 2)
    <3>1. PICK book : book = disputes[s]
      OBVIOUS
    <3>2. Covered(book, old)
      BY <2>4, <2>5, <3>1 DEF DisputesOnBooks
    <3>3. \A r : Count(old, r) \in Nat
      <4>1. old \in Seq(Entry)
        BY <1>1, <2>4, <2>5 DEF ListsAreGood
      <4>2. [report |-> "dispute.opened", at |-> 0] \in Entry
        BY DEF Entry, Lifecycle
      <4>3. QED
        BY <4>1, <4>2, InsertCounts
    <3>4. Covered(book, list)
      BY <2>5, <3>2, <3>3, CoveredByMore
    <3>5. \A r \in Subjects : /\ evidence'[r] = IF r = s THEN list ELSE evidence[r]
                              /\ disputes'[r] = IF r = s THEN book ELSE disputes[r]
      BY <1>1, <2>6, <2>8, <3>1
    <3>6. QED
      BY <1>1, <1>3, <2>5, <2>6, <3>4, <3>5
  <2>9. QED
    BY <2>7, <2>8
<1>7. CASE UNCHANGED vars
  BY <1>2, <1>7 DEF vars, records
<1>8. CASE Next
  BY <1>2, <1>4, <1>5, <1>6, <1>8, RecordsMove
<1>9. QED
  BY <1>7, <1>8

\* Both hold at the start.
LEMMA BooksInit == Init => RevocationsHold /\ DisputesOnBooks
<1> SUFFICES ASSUME Init PROVE RevocationsHold /\ DisputesOnBooks
  OBVIOUS
<1>1. Listed(<<>>) = {} /\ Decided(<<>>) = {} /\ <<>> \in Seq({}) /\ Len(<<>>) = 0
  BY DEF Listed, Decided
<1>2. \A s \in Subjects : evidence[s] = <<>> /\ disputes[s] = <<>>
  BY DEF Init
<1>3. DOMAIN disputes = Subjects /\ answer.kind = "none" /\ \A k \in Keys : idempotency[k] = NoRow
  BY DEF Init
<1>4. \A r : Count(<<>>, r) = 0
  <2>1. PICK none : none = <<>> /\ DOMAIN none = {}
    OBVIOUS
  <2>2. \A r : {i \in DOMAIN none : none[i].report = r} = {}
    BY <2>1
  <2>3. \A r : Count(none, r) = 0
    BY <2>2, FS_EmptySet DEF Count
  <2>4. QED
    BY <2>1, <2>3
<1>5. Cardinality({}) = 0
  BY FS_EmptySet
<1>6. Covered(<<>>, <<>>)
  BY <1>1, <1>4, <1>5 DEF Covered
<1>7. QED
  BY <1>1, <1>2, <1>3, <1>6 DEF RevocationsHold, DisputesOnBooks

\* What was reported counts: in the table, where it is stored once and in order; in
\* the snapshot, which counts it; in the passport, which a revocation revokes; and
\* in the books, where every dispute has the records of its life.
THEOREM EvidenceCounts == Spec => []EvidenceTakesEffect
<1>1. LInv /\ SInv /\ Scalars /\ RevocationsHold /\ DisputesOnBooks /\ [Next]_vars
        => (RevocationsHold /\ DisputesOnBooks)'
  BY RevocationsStep, DisputesStep
<1>2. Init => RevocationsHold /\ DisputesOnBooks
  BY BooksInit
<1>3. LInv /\ SInv /\ Scalars /\ RevocationsHold /\ DisputesOnBooks => EvidenceTakesEffect
  <2> SUFFICES ASSUME LInv, SInv, Scalars, RevocationsHold, DisputesOnBooks PROVE EvidenceTakesEffect
    OBVIOUS
  <2>1. StoredOnce
    BY DEF SInv, ListsAreGood, Good, Ordered, StoredOnce
  <2>2. SnapshotCountsEvidence
    <3>1. ASSUME NEW s \in Subjects \ behind, snapshot[s] # NoSnapshot, NEW d \in Counted
          PROVE  snapshot[s][d] = Recomputed(s, evidence[s], NoSnapshot, Known)[d]
      <4>1. Counts(snapshot[s], s, evidence[s])
        BY <3>1 DEF SInv, SnapshotsCount
      <4>2. PICK known : known = Known
        OBVIOUS
      <4>3. Counts(Recomputed(s, evidence[s], NoSnapshot, known), s, evidence[s])
        BY RecomputeCounts
      <4>4. QED
        BY <3>1, <4>1, <4>2, <4>3 DEF Counts
    <3>2. QED
      BY <3>1 DEF SnapshotCountsEvidence, Counted
  <2>3. RevocationTakesEffect
    BY DEF RevocationsHold, RevocationTakesEffect, Revoking, Settled
  <2>4. DisputesAreRecorded
    BY DEF DisputesOnBooks, Covered, Decided, Count, DisputesAreRecorded
  <2>5. QED
    BY <2>1, <2>2, <2>3, <2>4 DEF EvidenceTakesEffect
<1>4. QED
  BY <1>1, <1>2, <1>3, LedgerIsTyped, PTL DEF Spec

-----------------------------------------------------------------------------
(* Who is selected, and who is denied *)

\* Nothing else is answered with a resolution or a route.
LEMMA AnswersAreOthers ==
    ASSUME LInv, Next
    PROVE  \/ answer'.kind \notin {"resolved", "validators", "executors"}
           \/ \E q \in workload : Resolving(q) \/ RoutingValidators(q) \/ RoutingExecutors(q)
<1>1. CASE answer'.kind \in Plain
  BY <1>1 DEF Plain
<1>2. ASSUME NEW q \in workload, Repeating(q) PROVE answer'.kind = "processed"
  BY <1>2 DEF Repeating, RepeatEvidence, Processed
<1>3. ASSUME NEW q \in workload, Recording(q) PROVE answer'.kind \in {"processed", "crashed"}
  BY <1>3 DEF Recording, RecordEvidence, Processed, Crashed
<1>4. ASSUME NEW q \in workload, Replaying(q) PROVE answer'.kind \in {"created", "processed", "refused"}
  <2>1. Replay(q)
    BY <1>4 DEF Replaying
  <2>2. PICK k \in Keys : k = q.key /\ idempotency[k] # NoRow
    BY <2>1 DEF Replay, Unanswered
  <2>3. idempotency[k].answer.kind \in {"created", "processed"}
    BY <2>2 DEF LInv, Registrations
  <2>4. answer' = idempotency[k].answer \/ answer' = Refused("IDEMPOTENCY_CONFLICT")
    BY <2>1, <2>2 DEF Replay
  <2>5. QED
    BY <2>3, <2>4 DEF Refused
<1>5. QED
  BY <1>1, <1>2, <1>3, <1>4, AnswersMove

\* What a route of validators says: they are eligible by the snapshots stored now,
\* and are as many as required if it says so.
ValidatorsOf(route, q, snap) ==
    /\ \A v \in Listed(route.selected) :
          /\ v \in Subjects /\ IsStored(snap[v])
          /\ ValidationEligible(ComputeResolution(snap[v], q.context).band, q.context)
    /\ route.satisfied =>
          \/ Cardinality(Listed(route.selected)) >= q.required
          \/ Cardinality(Listed(q.candidates)) < Len(q.candidates)

\* Whoever qualifies has a score, and so has the snapshot that was stored.
LEMMA EligibleIsScored ==
    ASSUME NEW x, NEW context, ValidationEligible(ComputeResolution(x, context).band, context)
    PROVE  x.execution # NaN
<1> SUFFICES ASSUME x.execution = NaN PROVE FALSE
  OBVIOUS
<1>1. PICK band : band = ComputeResolution(x, context).band
  OBVIOUS
<1>2. band = "quarantined"
  BY <1>1, Unresolved
<1>3. ~ ValidationEligible(band, context)
  BY <1>2, LowBandIsNotTrusted
<1>4. QED
  BY <1>1, <1>3

\* Every request for validators that is answered is answered so, of candidates whose
\* snapshots were computed here.
LEMMA ValidatorsRouted ==
    ASSUME LInv, SInv, NEW q \in workload, RoutingValidators(q)
    PROVE  \E route :
              /\ answer'.kind = "validators" /\ answer'.route = route
              /\ answer'.candidates = q.candidates /\ answer'.required = q.required
              /\ answer'.context = q.context
              /\ Listed(q.candidates) \cap adopted' = {} => ValidatorsOf(route, q, snapshot')
<1>1. q.op = "validators" /\ workload \in Workloads
  BY DEF RoutingValidators, LInv, Registrations
<1>2. /\ q.subject \in Subjects /\ q.candidates \in Seq(Subjects) /\ q.required \in Nat
      /\ q.context.risk \in {"low", "medium", "high"} /\ IdOrder \in [Subjects -> Int]
  BY <1>1, RequestsAssumption DEF RequestsAssumption
<1>3. PICK s \in Subjects, list \in Seq(Subjects), n \in Nat :
         s = q.subject /\ list = q.candidates /\ n = q.required
  BY <1>2
<1>14. PICK context : context = q.context
  OBVIOUS
<1>4. PICK capable : capable = {c \in Listed(list) \cap Validators : passport[c] = "active"}
  OBVIOUS
<1>5. PICK snap : snap = WithSnapshots(capable \cup {s})
  OBVIOUS
<1>6. PICK route : route = SelectValidators(s, list, n, context, passport, snap)
  OBVIOUS
<1>7. /\ snapshot' = StoredSnapshots(capable \cup {s}) /\ adopted' = adopted
      /\ answer' = [kind |-> "validators", candidates |-> list, required |-> n,
                    context |-> context, route |-> route]
  BY <1>3, <1>14, <1>4, <1>5, <1>6 DEF RoutingValidators, RouteValidators, Fill
<1>8. Listed(list) \subseteq Subjects
  BY DEF Listed
<1>9. PICK stored : stored = snapshot'
  OBVIOUS
<1>10. ASSUME Listed(list) \cap adopted = {} PROVE ValidatorsOf(route, q, stored)
  <2>1. ASSUME NEW c \in Listed(list), Qualifies(c, snap[s], context, passport, snap)
        PROVE  /\ AtHand(snap[c]) /\ IdOrder[c] \in Int /\ c \in Subjects
               /\ IsStored(stored[c]) /\ stored[c] = snap[c]
    <3>1. c \in capable /\ c \in Subjects /\ c \notin adopted
      BY <1>4, <1>8, <1>10, <2>1 DEF Qualifies
    <3>2. PICK x : x = snap[c]
      OBVIOUS
    <3>3. AtHand(x) /\ (x = stored[c] \/ x.execution = NaN)
      BY <1>5, <1>7, <1>9, <3>1, <3>2, FilledIsAtHand DEF SInv
    <3>4. x.execution # NaN
      BY <2>1, <3>2, EligibleIsScored DEF Qualifies
    <3>5. IsStored(stored[c])
      BY <1>7, <1>9, <3>1, FilledIsSound DEF SInv
    <3>6. QED
      BY <1>2, <3>1, <3>2, <3>3, <3>4, <3>5
  <2>2. /\ \A v \in Listed(route.selected) :
              v \in Listed(list) /\ Qualifies(v, snap[s], context, passport, snap)
        /\ route.satisfied /\ Cardinality(Listed(list)) = Len(list) =>
              Cardinality(Listed(route.selected)) >= n
    BY <1>6, <2>1, ValidatorsQualify
  <2>3. Cardinality(Listed(list)) = Len(list) \/ Cardinality(Listed(list)) < Len(list)
    BY ListedOnce, FS_CardinalityType
  <2>4. \A v \in Listed(route.selected) :
           /\ v \in Subjects /\ IsStored(stored[v])
           /\ ValidationEligible(ComputeResolution(stored[v], context).band, context)
    BY <2>1, <2>2 DEF Qualifies
  <2>5. QED
    BY <1>3, <1>14, <2>2, <2>3, <2>4 DEF ValidatorsOf
<1>13. /\ answer'.kind = "validators" /\ answer'.route = route
       /\ answer'.candidates = list /\ answer'.required = n /\ answer'.context = context
  BY <1>7
<1>15. QED
  BY <1>3, <1>14, <1>7, <1>9, <1>10, <1>13

\* What a route of executors says: they may execute, and are allowed, were offered
\* with less autonomy, or had no score and no QUARANTINE record.
ExecutorsOf(route, unscored, context, status, snap) ==
    \A v \in Listed(route.selected) :
       /\ Live(status[v])
       /\ \/ ComputeResolution(snap[v], context).decision = "allow"
          \/ route.downgraded /\ ComputeResolution(snap[v], context).band # "quarantined"
          \/ v \in unscored /\ snap[v].quarantines = 0

\* Whoever is not denied for it has no QUARANTINE record, and keeps none when the
\* snapshot is stored.
LEMMA UnscoredIsClean ==
    ASSUME NEW x, NEW y, y = Saved(x), IsStored(y), NEW context,
           LET r == ComputeResolution(x, context) IN
           r.decision = "allow" \/ (x.execution = NaN /\ r.band # "quarantined")
    PROVE  y.quarantines = 0
<1>1. y.quarantines = x.quarantines
  BY DEF Saved, Without
<1>2. PICK z : z = Read(y)
  OBVIOUS
<1>7. z.quarantines = y.quarantines
  BY <1>2 DEF Read, Without
<1>8. IsSnapshot(z)
  BY <1>2, StoredIsReadable
<1>3. y.quarantines \in Nat
  BY <1>7, <1>8 DEF IsSnapshot
<1>4. ComputeResolution(x, context).decision # "deny"
  BY Unresolved
<1>5. ~ (x.quarantines > 0)
  BY <1>4, QuarantineDenies
<1>6. QED
  BY <1>1, <1>3, <1>5

\* Every request for executors that is answered is answered so, of candidates whose
\* snapshots were computed here.
LEMMA ExecutorsRouted ==
    ASSUME LInv, SInv, NEW q \in workload, RoutingExecutors(q)
    PROVE  \E route, unscored :
              /\ answer' = [kind |-> "executors", candidates |-> q.candidates,
                            context |-> q.context, route |-> route, unscored |-> unscored]
              /\ Listed(q.candidates) \cap adopted' = {} =>
                    ExecutorsOf(route, unscored, q.context, passport, snapshot')
<1>1. q.op = "executors" /\ workload \in Workloads
  BY DEF RoutingExecutors, LInv, Registrations
<1>2. q.candidates \in Seq(Subjects) /\ q.minimum \in Nat /\ IdOrder \in [Subjects -> Int]
  BY <1>1, RequestsAssumption DEF RequestsAssumption
<1>3. PICK list \in Seq(Subjects), n \in Nat : list = q.candidates /\ n = q.minimum
  BY <1>2
<1>14. PICK context, down : context = q.context /\ down = q.downgrade
  OBVIOUS
<1>4. PICK capable : capable = {c \in Listed(list) \cap Executors : Live(passport[c])}
  OBVIOUS
<1>5. PICK snap : snap = WithSnapshots(capable)
  OBVIOUS
<1>6. PICK unscored : unscored = {c \in capable : snap[c].execution = NaN}
  OBVIOUS
<1>7. PICK route \in SelectExecutors(list, n, down, context, passport, snap) :
         answer' = [kind |-> "executors", candidates |-> list, context |-> context,
                    route |-> route, unscored |-> unscored]
  BY <1>3, <1>14, <1>4, <1>5, <1>6 DEF RoutingExecutors, RouteExecutors
<1>16. snapshot' = StoredSnapshots(capable) /\ adopted' = adopted
  BY <1>3, <1>4 DEF RoutingExecutors, RouteExecutors, Fill
<1>8. Listed(list) \subseteq Subjects
  BY DEF Listed
<1>9. PICK stored : stored = snapshot'
  OBVIOUS
<1>10. ASSUME Listed(list) \cap adopted = {} PROVE ExecutorsOf(route, unscored, context, passport, stored)
  <2>1. ASSUME NEW c \in Listed(list), MayExecute(c, passport, snap)
        PROVE  /\ c \in capable /\ AtHand(snap[c]) /\ IdOrder[c] \in Int
               /\ IsStored(stored[c])
               /\ snap[c] = stored[c] \/ (snap[c].execution = NaN /\ Saved(snap[c]) = stored[c])
    <3>1. c \in capable /\ c \in Subjects /\ c \notin adopted
      BY <1>4, <1>8, <1>10, <2>1 DEF MayExecute
    <3>2. PICK x : x = snap[c]
      OBVIOUS
    <3>3. AtHand(x) /\ (x = stored[c] \/ (x.execution = NaN /\ Saved(x) = stored[c]))
      BY <1>5, <1>16, <1>9, <3>1, <3>2, FilledIsAtHand DEF SInv
    <3>4. IsStored(stored[c])
      BY <1>16, <1>9, <3>1, FilledIsSound DEF SInv
    <3>5. QED
      BY <1>2, <3>1, <3>2, <3>3, <3>4
  <2>2. \A v \in Listed(route.selected) :
           /\ v \in Listed(list) /\ MayExecute(v, passport, snap)
           /\ \/ ComputeResolution(snap[v], context).decision = "allow"
              \/ route.downgraded /\ ComputeResolution(snap[v], context).band # "quarantined"
    BY <1>7, <2>1, ExecutorsAreAble
  <2>3. ASSUME NEW v \in Listed(route.selected)
        PROVE  /\ Live(passport[v])
               /\ \/ ComputeResolution(stored[v], context).decision = "allow"
                  \/ route.downgraded /\ ComputeResolution(stored[v], context).band # "quarantined"
                  \/ v \in unscored /\ stored[v].quarantines = 0
    <3>1. /\ MayExecute(v, passport, snap) /\ v \in capable /\ IsStored(stored[v])
          /\ snap[v] = stored[v] \/ (snap[v].execution = NaN /\ Saved(snap[v]) = stored[v])
          /\ \/ ComputeResolution(snap[v], context).decision = "allow"
             \/ route.downgraded /\ ComputeResolution(snap[v], context).band # "quarantined"
      BY <2>1, <2>2
    <3>2. Live(passport[v])
      BY <3>1 DEF MayExecute
    <3>3. CASE snap[v] = stored[v]
      BY <3>1, <3>2, <3>3
    <3>4. CASE snap[v].execution = NaN /\ Saved(snap[v]) = stored[v]
      <4>1. v \in unscored
        BY <1>6, <3>1, <3>4
      <4>2. PICK x, y : x = snap[v] /\ y = stored[v]
        OBVIOUS
      <4>3. y.quarantines = 0
        BY <3>1, <3>4, <4>2, UnscoredIsClean
      <4>4. QED
        BY <3>2, <4>1, <4>2, <4>3
    <3>5. QED
      BY <3>1, <3>3, <3>4
  <2>4. QED
    BY <2>3 DEF ExecutorsOf
<1>12. QED
  BY <1>3, <1>14, <1>7, <1>9, <1>10, <1>16

\* The validators recommended are among those considered.
LEMMA RecommendedAreConsidered ==
    ASSUME NEW candidates, NEW context, NEW snap
    PROVE  RecommendValidators(candidates, context, snap) \subseteq candidates
<1> DEFINE Fit(c) == Ratio(80 * DomainFit(snap[c], context.domain, 2000)
                          + 2000 * ComputeResolution(snap[c], context).confidence, Unit)
           Trust(c) == ComputeResolution(snap[c], context).score
           entries == {[subject |-> c, score |-> Fit(c), trust |-> Trust(c)] :
                      c \in {d \in candidates :
                        /\ ValidationEligible(ComputeResolution(snap[d], context).band, context)
                        /\ snap[d].collusion < 5500}}
           Better(e, f) ==
              \/ e.score > f.score
              \/ e.score = f.score /\ e.trust > f.trust
              \/ /\ e.score = f.score /\ e.trust = f.trust
                 /\ IdOrder[e.subject] < IdOrder[f.subject]
           best == {f \in entries : Cardinality({g \in entries : Better(g, f)}) < 3}
<1>1. RecommendValidators(candidates, context, snap) = {e.subject : e \in best}
  BY Zenon DEF RecommendValidators
<1>2. best \subseteq entries
  OBVIOUS
<1> HIDE DEF best, Fit, Trust
<1>3. \A e \in entries : e.subject \in candidates
  OBVIOUS
<1> HIDE DEF entries
<1>4. QED
  BY <1>1, <1>2, <1>3

\* What a resolution says of the subject and of the validators it recommends.
LEMMA ResolutionAnswers ==
    ASSUME LInv, SInv, NEW q \in workload, Resolving(q), answer'.kind = "resolved"
    PROVE  \E row :
              /\ q.subject \in Subjects /\ q.context.risk \in {"low", "medium", "high"}
              /\ answer'.subject = q.subject /\ answer'.named = q.named
              /\ answer'.recommended \subseteq Considered(q.subject, q.named)
              /\ answer'.escrow = EscrowRatio(Outcome(row), q.context.risk)
              /\ row = [snapshot |-> snapshot'[q.subject], context |-> q.context]
              /\ latest'[q.subject] = row
              /\ q.subject \in adopted' \/ IsStored(snapshot'[q.subject])
              /\ snapshot'[q.subject] # NoSnapshot
              /\ UNCHANGED <<passport, evidence>>
<1>1. q.op = "resolve" /\ workload \in Workloads
  BY DEF Resolving, LInv, Registrations
<1>20. PICK s \in Subjects : s = q.subject
  BY <1>1, RequestsAssumption DEF RequestsAssumption
<1>21. q.context.risk \in {"low", "medium", "high"}
  BY <1>1, RequestsAssumption DEF RequestsAssumption
<1>2. PICK context, named :
         context = q.context /\ named = q.named /\ context.risk \in {"low", "medium", "high"}
  BY <1>21
<1>3. PICK done \in 1 .. 2 : ResolveTrust(s, context, named, done)
  BY <1>2, <1>20 DEF Resolving
<1>4. PICK considered : considered = Considered(s, named)
  OBVIOUS
<1>5. PICK snap : snap = WithSnapshots(considered \cup {s})
  OBVIOUS
<1>6. /\ snapshot' = StoredSnapshots(considered \cup {s}) /\ adopted' = adopted
      /\ UNCHANGED <<passport, evidence>>
  BY <1>3, <1>4, <1>5 DEF ResolveTrust, Fill, registry, records
<1>7. PICK stored : stored = snapshot'[s]
  OBVIOUS
<1>18. snap[s] = stored
  <2>1. PICK x : x = snap[s]
    OBVIOUS
  <2>2. x = WithSnapshots({s})[s]
    BY <1>5, <2>1 DEF WithSnapshots
  <2>3. x.execution # NaN
    BY <1>3, <2>2 DEF ResolveTrust, Unscorable
  <2>4. x = stored \/ x.execution = NaN
    BY <1>5, <1>6, <1>7, <2>1, FilledIsAtHand DEF SInv
  <2>5. QED
    BY <2>1, <2>3, <2>4
<1>19. (s \in adopted' \/ IsStored(stored)) /\ stored # NoSnapshot
  <2>1. s \notin adopted => IsStored(stored)
    BY <1>6, <1>7, FilledIsSound DEF SInv
  <2>2. snapshot[s] = NoSnapshot => IsStored(stored)
    BY <1>6, <1>7, FilledIsSound DEF SInv
  <2>3. snapshot[s] # NoSnapshot => stored = snapshot[s]
    BY <1>6, <1>7, FilledIsSound DEF SInv
  <2>4. IsStored(stored) => stored # NoSnapshot
    BY VersionOfStored DEF NoSnapshot
  <2>5. QED
    BY <1>6, <2>1, <2>2, <2>3, <2>4
<1>8. PICK row : row = [snapshot |-> snap[s], context |-> context]
  OBVIOUS
<1>9. PICK recommended : recommended = RecommendValidators(considered, context, snap)
  OBVIOUS
<1>10. AnswerResolution(s, row, named, done, Outcome(row), recommended)
  BY <1>3, <1>4, <1>5, <1>8, <1>9 DEF ResolveTrust, BookResolution
<1>11. recommended \subseteq considered
  BY <1>9, RecommendedAreConsidered
<1>12. PICK events :
          answer' = [kind |-> "resolved", subject |-> s, context |-> row.context, named |-> named,
                     recommended |-> recommended,
                     escrow |-> EscrowRatio(Outcome(row), row.context.risk), events |-> events]
  BY <1>10 DEF AnswerResolution, Crashed, Refused
<1>13. latest'[s] = row
  BY <1>10 DEF AnswerResolution, LInv, Versions
<1>14. row.context = context
  BY <1>8
<1>15. /\ answer'.subject = s /\ answer'.named = named /\ answer'.recommended = recommended
       /\ answer'.escrow = EscrowRatio(Outcome(row), context.risk)
  BY <1>12, <1>14
<1>16. row = [snapshot |-> snapshot'[s], context |-> context]
  BY <1>7, <1>8, <1>18
<1>17. QED
  BY <1>2, <1>20, <1>21, <1>4, <1>6, <1>7, <1>11, <1>13, <1>15, <1>16, <1>19

\* A quorum said to be satisfied is one, nobody revoked is recommended unless the
\* request named it, and nobody is chosen to execute who is denied.
THEOREM SelectionsAreSound == Spec => []SelectionIsSound
<1>1. LInv /\ SInv /\ SelectionIsSound /\ [Next]_vars => SelectionIsSound'
  <2> SUFFICES ASSUME LInv, SInv, SelectionIsSound, [Next]_vars PROVE SelectionIsSound'
    OBVIOUS
  <2>1. CASE UNCHANGED vars
    BY <2>1 DEF vars, registry, views, SelectionIsSound, QuorumIsDistinct, RecommendedIsLive,
            ExecutorIsTrusted
  <2>2. CASE answer'.kind \notin {"resolved", "validators", "executors"}
    BY <2>2 DEF SelectionIsSound, QuorumIsDistinct, RecommendedIsLive, ExecutorIsTrusted
  <2>3. ASSUME NEW q \in workload, RoutingValidators(q) PROVE SelectionIsSound'
    <3>1. PICK route : /\ answer'.kind = "validators" /\ answer'.route = route
                       /\ answer'.candidates = q.candidates /\ answer'.required = q.required
                       /\ Listed(q.candidates) \cap adopted' = {} => ValidatorsOf(route, q, snapshot')
      BY <2>3, ValidatorsRouted
    <3>2. QuorumIsDistinct'
      <4>1. QED
        BY <3>1 DEF QuorumIsDistinct, ValidatorsOf
    <3>3. RecommendedIsLive' /\ ExecutorIsTrusted'
      <4>1. answer'.kind = "validators"
        BY <3>1
      <4>2. QED
        BY <4>1 DEF RecommendedIsLive, ExecutorIsTrusted
    <3>4. QED
      BY <3>2, <3>3 DEF SelectionIsSound
  <2>4. ASSUME NEW q \in workload, RoutingExecutors(q) PROVE SelectionIsSound'
    <3>1. PICK route, unscored :
             /\ answer' = [kind |-> "executors", candidates |-> q.candidates,
                           context |-> q.context, route |-> route, unscored |-> unscored]
             /\ Listed(q.candidates) \cap adopted' = {} =>
                   ExecutorsOf(route, unscored, q.context, passport, snapshot')
      BY <2>4, ExecutorsRouted
    <3>2. UNCHANGED passport
      BY <2>4 DEF RoutingExecutors, RouteExecutors, registry
    <3>3. ExecutorIsTrusted'
      BY <3>1, <3>2 DEF ExecutorIsTrusted, ExecutorsOf
    <3>4. RecommendedIsLive' /\ QuorumIsDistinct'
      BY <3>1 DEF RecommendedIsLive, QuorumIsDistinct
    <3>5. QED
      BY <3>3, <3>4 DEF SelectionIsSound
  <2>5. ASSUME NEW q \in workload, Resolving(q), answer'.kind = "resolved" PROVE SelectionIsSound'
    <3>1. /\ answer'.recommended \subseteq Considered(q.subject, q.named)
          /\ answer'.named = q.named /\ UNCHANGED passport
      BY <2>5, ResolutionAnswers
    <3>2. RecommendedIsLive'
      BY <3>1 DEF RecommendedIsLive, Considered
    <3>3. QuorumIsDistinct' /\ ExecutorIsTrusted'
      BY <2>5 DEF QuorumIsDistinct, ExecutorIsTrusted
    <3>4. QED
      BY <3>2, <3>3 DEF SelectionIsSound
  <2>6. ASSUME NEW q \in workload, Resolving(q)
        PROVE  answer'.kind \notin {"validators", "executors"}
    BY <2>6 DEF Resolving, ResolveTrust, BookResolution, AnswerResolution, Crashed, Refused
  <2>7. QED
    BY <2>1, <2>2, <2>3, <2>4, <2>5, <2>6, AnswersAreOthers
<1>2. Init => SelectionIsSound
  BY DEF Init, SelectionIsSound, QuorumIsDistinct, RecommendedIsLive, ExecutorIsTrusted
<1>3. QED
  BY <1>1, <1>2, LedgerIsTyped, PTL DEF Spec

\* A QUARANTINE record in the window is counted.
LEMMA QuarantineCounted ==
    ASSUME NEW s, NEW list \in Seq(Entry), NEW x, Counts(x, s, list), NEW i,
           i \in DOMAIN Newest(View(list), Medium), Newest(View(list), Medium)[i].type = "QUARANTINE"
    PROVE  x.quarantines > 0
<1>1. PICK w : w = View(list)
  OBVIOUS
<1>2. PICK e : e = Weighed(w)
  OBVIOUS
<1>3. IsEvidence(e) /\ DOMAIN e = DOMAIN w /\ \A j \in DOMAIN w : e[j].type = w[j].type
  <2>1. IsReported(w)
    BY <1>1, ViewIsReported
  <2>2. IsEvidence(e)
    BY <1>2, <2>1, WeighedIsEvidence
  <2>3. e = [j \in DOMAIN w |-> [w[j] EXCEPT !.weight = IF w[j].weight = NaN THEN 0
                                                          ELSE w[j].weight]]
    BY <1>2 DEF Weighed
  <2>4. ASSUME NEW j \in DOMAIN w PROVE e[j].type = w[j].type
    <3>1. PICK z : z = w[j]
      OBVIOUS
    <3>2. e[j] = [z EXCEPT !.weight = IF z.weight = NaN THEN 0 ELSE z.weight]
      BY <2>3, <3>1
    <3>3. QED
      BY <3>1, <3>2
  <2>5. QED
    BY <2>2, <2>3, <2>4
<1>4. PICK medium : medium = Newest(e, Medium)
  OBVIOUS
<1>5. IsEvidence(medium)
  BY <1>3, <1>4, NewestIsEvidence, WindowsAssumption
<1>6. i \in DOMAIN medium /\ medium[i].type = "QUARANTINE"
  <2>1. w \in Seq(Listed(w))
    BY <1>1, ViewIsReported DEF IsReported
  <2>2. e \in Seq(Listed(e)) /\ Len(e) = Len(w) /\ Len(w) \in Nat
    BY <1>3, <2>1 DEF IsEvidence
  <2>3. PICK n \in Nat : n = IF Len(w) < Medium THEN Len(w) ELSE Medium
    BY <2>2, WindowsAssumption
  <2>4. n <= Len(w)
    BY <2>2, <2>3, WindowsAssumption
  <2>5. Newest(w, Medium) = SubSeq(w, 1, n) /\ medium = SubSeq(e, 1, n)
    BY <1>4, <2>2, <2>3 DEF Newest
  <2>6. i \in 1 .. n /\ w[i].type = "QUARANTINE"
    BY <1>1, <2>1, <2>4, <2>5
  <2>7. i \in DOMAIN medium /\ medium[i] = e[i]
    BY <2>2, <2>4, <2>5, <2>6
  <2>8. i \in DOMAIN w
    BY <2>1, <2>4, <2>6
  <2>9. QED
    BY <1>3, <2>6, <2>7, <2>8
<1>7. PICK n \in Nat : n = Occurrences(medium, {"QUARANTINE"})
  BY <1>5, OccurrencesAreNatural
<1>8. n > 0
  <2>1. PICK places : places = {j \in DOMAIN medium : medium[j].type \in {"QUARANTINE"}}
    OBVIOUS
  <2>2. IsFiniteSet(places) /\ i \in places
    BY <1>5, <1>6, <2>1, PlacesAreFinite
  <2>3. n = Cardinality(places)
    BY <1>7, <2>1 DEF Occurrences, CountOf, Positions
  <2>4. QED
    BY <2>2, <2>3, FS_EmptySet
<1>9. PICK g : g = Graph(s, medium, {})
  OBVIOUS
<1>10. PICK y : y = SnapshotWith(e, 0, NoSnapshot, g)
  OBVIOUS
<1>11. y.quarantines = n
  <2>1. PICK m : m = Measure(e, 0, g)
    OBVIOUS
  <2>2. m.quarantines = n
    BY <1>4, <1>7, <2>1 DEF Measure
  <2>3. QED
    BY <1>10, <2>1, <2>2 DEF SnapshotWith, SnapshotFrom, Snapshot
<1>12. x["quarantines"] = Saved(ComputeSnapshot(s, w, 0, NoSnapshot, {}))["quarantines"]
  BY <1>1 DEF Counts, Counted
<1>13. PICK lost \in BOOLEAN : lost = Weightless(Newest(w, Recent))
  BY Zenon DEF Weightless
<1>14. ComputeSnapshot(s, w, 0, NoSnapshot, {}) = WeighIn(y, lost)
  BY <1>2, <1>4, <1>9, <1>10, <1>13, Zenon DEF ComputeSnapshot
<1>15. Saved(WeighIn(y, lost)).quarantines = y.quarantines
  BY DEF Saved, WeighIn, Without
<1>16. QED
  BY <1>8, <1>11, <1>12, <1>14, <1>15

\* Who is denied by one path of the engine is not trusted by another: a subject with a
\* QUARANTINE record in its window is denied, and what only looks at the band trusts
\* a denied subject for such a record or its adversarial risk alone.
THEOREM DenialsAreConsistent == Spec => []DenialIsConsistent
<1>1. LInv /\ SInv /\ SInv' /\ DenialIsConsistent /\ [Next]_vars => DenialIsConsistent'
  <2> SUFFICES ASSUME LInv, SInv, SInv', DenialIsConsistent, [Next]_vars PROVE DenialIsConsistent'
    OBVIOUS
  <2>1. CASE UNCHANGED vars
    BY <2>1 DEF vars, records, views, rows, DenialIsConsistent, QuarantineIsDenied, BandSeesDenial
  <2>2. CASE answer'.kind \notin {"resolved", "validators"}
    BY <2>2 DEF DenialIsConsistent, QuarantineIsDenied, BandSeesDenial
  <2>3. ASSUME NEW q \in workload, RoutingValidators(q) PROVE DenialIsConsistent'
    <3>1. PICK route : /\ answer'.kind = "validators" /\ answer'.route = route
                       /\ answer'.candidates = q.candidates /\ answer'.context = q.context
                       /\ Listed(q.candidates) \cap adopted' = {} => ValidatorsOf(route, q, snapshot')
      BY <2>3, ValidatorsRouted
    <3>2. PICK snap, context : snap = snapshot' /\ context = q.context
      OBVIOUS
    <3>3. ASSUME Listed(q.candidates) \cap adopted' = {}, NEW v \in Listed(route.selected),
                 ComputeResolution(snap[v], context).decision = "deny"
          PROVE  snap[v].quarantines > 0 \/ Read(snap[v]).adversarialRisk >= 80
      <4>1. /\ AtHand(snap[v])
            /\ ValidationEligible(ComputeResolution(snap[v], context).band, context)
        BY <3>1, <3>2, <3>3 DEF ValidatorsOf, AtHand
      <4>2. PICK band : band = ComputeResolution(snap[v], context).band
        OBVIOUS
      <4>3. band \notin {"quarantined", "restricted"}
        BY <4>1, <4>2, LowBandIsNotTrusted
      <4>4. QED
        BY <3>3, <4>1, <4>2, <4>3, DenialHasReason
    <3>4. BandSeesDenial'
      BY <3>1, <3>2, <3>3 DEF BandSeesDenial
    <3>5. QuarantineIsDenied'
      <4>1. answer'.kind = "validators"
        BY <3>1
      <4>2. QED
        BY <4>1 DEF QuarantineIsDenied
    <3>6. QED
      BY <3>4, <3>5 DEF DenialIsConsistent
  <2>4. ASSUME NEW q \in workload, Resolving(q), answer'.kind = "resolved" PROVE DenialIsConsistent'
    <3>1. PICK row : /\ q.subject \in Subjects /\ q.context.risk \in {"low", "medium", "high"}
                     /\ answer'.subject = q.subject
                     /\ answer'.escrow = EscrowRatio(Outcome(row), q.context.risk)
                     /\ row = [snapshot |-> snapshot'[q.subject], context |-> q.context]
                     /\ latest'[q.subject] = row
                     /\ q.subject \in adopted' \/ IsStored(snapshot'[q.subject])
                     /\ snapshot'[q.subject] # NoSnapshot
                     /\ UNCHANGED evidence
      BY <2>4, ResolutionAnswers
    <3>2. PICK s \in Subjects : s = q.subject
      BY <3>1
    <3>3. PICK snap : snap = snapshot'[s]
      OBVIOUS
    <3>4. PICK context : context = q.context /\ context.risk \in {"low", "medium", "high"}
      BY <3>1
    <3>5. PICK r : r = ComputeResolution(snap, context)
      OBVIOUS
    <3>6. /\ Outcome(row) = r /\ row.snapshot = snap /\ snap # NoSnapshot
          /\ s \in adopted' \/ AtHand(snap)
      BY <3>1, <3>2, <3>3, <3>4, <3>5 DEF Outcome, AtHand
    <3>7. PICK list \in Seq(Entry) : list = evidence'[s]
      BY DEF SInv, ListsAreGood
    <3>8. s \notin behind' => Counts(snap, s, list)
      BY <3>3, <3>6, <3>7 DEF SInv, SnapshotsCount
    <3>9. ASSUME s \notin behind', NEW i, i \in DOMAIN Newest(View(list), Medium),
                 Newest(View(list), Medium)[i].type = "QUARANTINE"
          PROVE  r.decision = "deny"
      <4>1. snap.quarantines > 0
        BY <3>8, <3>9, QuarantineCounted
      <4>2. QED
        BY <3>5, <4>1, QuarantineDenies
    <3>10. QuarantineIsDenied'
      BY <3>1, <3>2, <3>6, <3>7, <3>9 DEF QuarantineIsDenied
    <3>11. ASSUME s \notin adopted', r.decision = "deny", EscrowRatio(r, context.risk) < 2500
           PROVE  snap.quarantines > 0 \/ Read(snap).adversarialRisk >= 80
      <4>1. PICK risk \in {"low", "medium", "high"} : risk = context.risk
        BY <3>4
      <4>2. r.band \notin {"quarantined", "restricted"}
        BY <3>11, <4>1, LowBandIsEscrowed
      <4>3. QED
        BY <3>5, <3>6, <3>11, <4>2, DenialHasReason
    <3>12. BandSeesDenial'
      <4>1. answer'.kind = "resolved" /\ answer'.subject = s /\ latest'[s] = row
            /\ answer'.escrow = EscrowRatio(r, context.risk)
        BY <2>4, <3>1, <3>2, <3>4, <3>6
      <4>2. QED
        BY <3>6, <3>11, <4>1 DEF BandSeesDenial
    <3>13. QED
      BY <3>10, <3>12 DEF DenialIsConsistent
  <2>5. ASSUME NEW q \in workload, RoutingExecutors(q) PROVE answer'.kind = "executors"
    BY <2>5 DEF RoutingExecutors, RouteExecutors
  <2>6. ASSUME NEW q \in workload, Resolving(q) PROVE answer'.kind # "validators"
    BY <2>6 DEF Resolving, ResolveTrust, BookResolution, AnswerResolution, Crashed, Refused
  <2>7. QED
    BY <2>1, <2>2, <2>3, <2>4, <2>5, <2>6, AnswersAreOthers
<1>2. Init => DenialIsConsistent
  BY DEF Init, DenialIsConsistent, QuarantineIsDenied, BandSeesDenial
<1>3. QED
  BY <1>1, <1>2, LedgerIsTyped, PTL DEF Spec
=============================================================================
