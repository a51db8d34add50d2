----------------------------- MODULE TrustLedger -----------------------------
(***************************************************************************)
(* The trust platform (apps/api/lib/platform.mjs): passports, evidence,    *)
(* snapshots, resolutions, disputes and portability bundles in one SQLite  *)
(* database.  Its handlers are synchronous, so requests do not interleave; *)
(* but a handler makes several statements, each committed by itself, and   *)
(* a crash or a failing statement leaves the first of them done.  An       *)
(* action is one request, and its parameter done says how many of the      *)
(* statements that matter here it completed.  Tables that no handler reads *)
(* (routing_decisions, traces, trust_events) are left out; what the last   *)
(* request was answered is in answer.                                      *)
(***************************************************************************)
EXTENDS TrustRouting

CONSTANTS
    Subjects,     \* subjects of passports
    Registered,   \* those whose passport exists from the start
    Reports,      \* pieces of evidence clients report, told apart by fingerprint
    About,        \* [Reports -> Subjects]
    Content,      \* what the engine reads from a report or a dispute's record
    Workloads,    \* sets of requests; all those of a behaviour are in one of them
    Keys, NoKey,  \* idempotency keys, and a request that carries none
    NoStamp,      \* a report without created_at
    Default,      \* a request that names no candidate validators
    Foreign,      \* bundles that other installations exported
    MaxEvidence, MaxNow, MaxCrashes, MaxExports, MaxImports  \* bounds

VARIABLES
    workload,     \* requests the clients may make, any number of times
    now,          \* half-lives since the start
    passport,     \* status of each subject's passport
    evidence,     \* evidence_records of each subject, newest first
    snapshot,     \* trust_snapshots
    latest,       \* newest row of trust_resolutions of each subject
    disputes,     \* dispute_evaluations: their outcomes, by subject
    idempotency,  \* idempotency_keys: request and answer
    receipts,     \* keys of portability_receipts
    bundles,      \* bundles exported from here
    answer,       \* answer to the last request
    crashes,      \* requests cut short so far
    imports,      \* imports so far
    \* History, read by no action:
    told,         \* newest resolution that was answered
    behind,       \* subjects whose snapshot may not count their evidence,
    rolledBack,   \* those whose snapshot an import replaced,
    adopted,      \* those whose snapshot came with a bundle from elsewhere,
    unapplied,    \* reports stored without what they ask for being done,
    origin,       \* key of the request that created a passport
    torn          \* subjects whose passport a crashed request created

vars == <<workload, now, passport, evidence, snapshot, latest, disputes, idempotency, receipts, bundles,
          answer, crashes, imports, told, behind, rolledBack, adopted, unapplied, origin, torn>>

registry == <<passport, origin, torn>>
records == <<evidence, unapplied>>
views == <<snapshot, behind, rolledBack, adopted>>
rows == <<latest, told>>
bounds == <<workload, now, imports>>
portability == <<receipts, bundles>>

ASSUME LedgerAssumption ==
    /\ NoKey \notin Keys
    /\ \A W \in Workloads : \A q \in W :
          /\ q.op \in {"passport", "evidence"} => q.key \in Keys \cup {NoKey}
          /\ q.op \in {"passport", "export"} => q.subject \in Subjects
    /\ \A b \in Foreign : b.snapshot.version \in Nat \ {0}

\* Neither a resolution nor an answered request: what a query that finds nothing returns.
NoRow == [kind |-> "none"]

Lifecycle == {"dispute.opened", "dispute.resolved"}

Entry == [report : Reports \cup Lifecycle, at : Nat]

\* No report twice.
Once(list) ==
    \A i, j \in DOMAIN list :
       i < j /\ list[i].report = list[j].report => list[i].report \in Lifecycle

ASSUME BoundsAssumption == {MaxEvidence, MaxNow, MaxCrashes, MaxExports, MaxImports} \subseteq Nat

\* What a report may say (generatedRequestSchemas), and what another installation makes of it.
ASSUME ContentAssumption ==
    /\ About \in [Reports -> Subjects]
    /\ \A r \in Reports \cup Lifecycle :
          /\ {"type", "quality", "confidence", "fast", "weight", "domain", "passes", "fails", "at"}
                \subseteq DOMAIN Content[r]
          /\ Content[r].quality \in 0..Unit /\ Content[r].confidence \in 0..Unit
          /\ Content[r].fast \in BOOLEAN /\ Content[r].weight \in Nat \cup {NaN}
          /\ IsFiniteSet(Content[r].passes) /\ IsFiniteSet(Content[r].fails)
          /\ r \in Lifecycle => Content[r].type = r
    /\ \A b \in Foreign : /\ b.subject \in Subjects
                          /\ b.evidence \in Seq(Entry) /\ Once(b.evidence)

\* What a request may say (generatedRequestSchemas).
ASSUME RequestsAssumption ==
    /\ IdOrder \in [Subjects -> Int]
    /\ \A W \in Workloads : \A q \in W :
          /\ q.op = "evidence" => q.report \in Reports /\ q.stamp \in Nat \cup {NoStamp}
          /\ q.op \in {"dispute", "resolve", "validators", "executors"} => q.subject \in Subjects
          /\ q.op \in {"resolve", "validators", "executors"} =>
                q.context.risk \in {"low", "medium", "high"}
          /\ q.op = "resolve" => q.named = Default \/ q.named \subseteq Subjects
          /\ q.op \in {"validators", "executors"} => q.candidates \in Seq(Subjects)
          /\ q.op = "validators" => q.required \in Nat
          /\ q.op = "executors" => q.minimum \in Nat

-----------------------------------------------------------------------------
(* What the handlers share *)

Refused(code) == [kind |-> "refused", code |-> code]
Crashed == [kind |-> "crashed"]

\* A request of total statements completes done of them.
Statements(done, total) ==
    /\ done = total \/ crashes < MaxCrashes
    /\ crashes' = IF done = total THEN crashes ELSE crashes + 1

\* idempotent: the row under the key is written last.  The hash is of the body.
Body(q) == [q EXCEPT !.key = NoKey]

Unanswered(key) == key \notin {k \in Keys : idempotency[k] # NoRow}

\* Mutant: only evidence is remembered.
RememberEvidence(q, reply) ==
    idempotency' = IF q.key = NoKey \/ q.op # "evidence" THEN idempotency
                   ELSE [idempotency EXCEPT ![q.key] = [request |-> Body(q), answer |-> reply]]

Remember(q, reply) ==
    idempotency' = IF q.key = NoKey THEN idempotency
                   ELSE [idempotency EXCEPT ![q.key] = [request |-> Body(q), answer |-> reply]]

Replay(q) ==
    /\ ~Unanswered(q.key)
    /\ answer' = IF idempotency[q.key].request = Body(q) THEN idempotency[q.key].answer
                 ELSE Refused("IDEMPOTENCY_CONFLICT")
    /\ UNCHANGED <<bounds, crashes, registry, records, views, rows, portability, disputes,
                   idempotency>>

View(list) == [i \in DOMAIN list |-> [Content[list[i].report] EXCEPT !.at = list[i].at]]

\* listEvidence orders by created_at, which a report may set in the past; within
\* a half-life, what is stored later counts as newer.
Insert(list, e) ==
    LET p == Min({i \in DOMAIN list : list[i].at <= e.at} \cup {Len(list) + 1})
    IN  SubSeq(list, 1, p - 1) \o <<e>> \o SubSeq(list, p, Len(list))

Stored(s, r) == \E i \in DOMAIN evidence[s] : evidence[s][i].report = r

\* getPassport finds one, whatever its status.
Known == {c \in Subjects : passport[c] # "none"}

\* recomputeSnapshot, and the row it writes.
Recompute(s, list, previous, known) == ComputeSnapshot(s, View(list), now, previous, known)

Recomputed(s, list, previous, known) == Saved(Recompute(s, list, previous, known))

\* getSnapshot ?? recomputeSnapshot, for the subjects in S: what is computed is
\* used as it is, not as it is stored.
WithSnapshots(S) ==
    [s \in Subjects |-> IF s \in S /\ snapshot[s] = NoSnapshot
                        THEN Recompute(s, evidence[s], NoSnapshot, Known) ELSE snapshot[s]]

StoredSnapshots(S) ==
    [s \in Subjects |-> IF s \in S /\ snapshot[s] = NoSnapshot
                        THEN Recomputed(s, evidence[s], NoSnapshot, Known) ELSE snapshot[s]]

Fill(S) ==
    /\ snapshot' = StoredSnapshots(S)
    /\ behind' = behind \ {s \in S : snapshot[s] = NoSnapshot}
    /\ UNCHANGED <<rolledBack, adopted>>

-----------------------------------------------------------------------------
(* Passports *)

Init ==
    /\ workload \in Workloads
    /\ now = 0 /\ crashes = 0 /\ imports = 0
    /\ passport = [s \in Subjects |-> IF s \in Registered THEN "active" ELSE "none"]
    /\ evidence = [s \in Subjects |-> <<>>]
    /\ snapshot = [s \in Subjects |-> NoSnapshot]
    /\ latest = [s \in Subjects |-> NoRow]
    /\ told = [s \in Subjects |-> NoRow]
    /\ disputes = [s \in Subjects |-> <<>>]
    /\ idempotency = [k \in Keys |-> NoRow]
    /\ receipts = {} /\ bundles = {}
    /\ answer = [kind |-> "none"]
    /\ behind = {} /\ rolledBack = {} /\ adopted = {} /\ unapplied = {}
    /\ origin = [s \in Subjects |-> NoKey]
    /\ torn = {}

Tick ==
    /\ now < MaxNow
    /\ now' = now + 1
    /\ answer' = [kind |-> "none"]
    /\ UNCHANGED <<workload, imports, crashes, registry, records, views, rows, portability,
                   disputes, idempotency>>

\* createPassport: the passport, then its keys and capabilities, then the key row.
CreatePassport(q, done) ==
    LET s == q.subject
        reply == [kind |-> "created", subject |-> s] IN
    /\ Unanswered(q.key)
    /\ passport[s] = "none"
    /\ done \in 1..3 /\ Statements(done, 3)
    /\ passport' = [passport EXCEPT ![s] = IF done = 1 THEN "bare" ELSE "active"]
    /\ origin' = [origin EXCEPT ![s] = q.key]
    /\ torn' = IF done < 3 THEN torn \cup {s} ELSE torn
    /\ IF done = 3 THEN answer' = reply /\ Remember(q, reply)
       ELSE answer' = Crashed /\ UNCHANGED idempotency
    /\ UNCHANGED <<bounds, records, views, rows, portability, disputes>>

\* Mutant: the row is written over before the subject is found to be taken.
RefusePassportLate(q) ==
    /\ Unanswered(q.key)
    /\ passport[q.subject] # "none"
    /\ passport' = [passport EXCEPT ![q.subject] = "active"]
    /\ answer' = [kind |-> "refused", code |-> "CONFLICTING_EVIDENCE",
                  subject |-> q.subject, key |-> q.key]
    /\ UNCHANGED <<bounds, crashes, origin, torn, records, views, rows, portability, disputes,
                   idempotency>>

RefusePassport(q) ==
    /\ Unanswered(q.key)
    /\ passport[q.subject] # "none"
    /\ answer' = [kind |-> "refused", code |-> "CONFLICTING_EVIDENCE",
                  subject |-> q.subject, key |-> q.key]
    /\ UNCHANGED <<bounds, crashes, registry, records, views, rows, portability, disputes,
                   idempotency>>

\* ensureSubject throws, whatever the request is for.
RefuseSubject(s) ==
    /\ ~Live(passport[s])
    /\ answer' = Refused(IF passport[s] = "none" THEN "UNKNOWN_SUBJECT" ELSE "PASSPORT_REVOKED")
    /\ UNCHANGED <<bounds, crashes, registry, records, views, rows, portability, disputes,
                   idempotency>>

-----------------------------------------------------------------------------
(* Evidence *)

Processed(r) == [kind |-> "processed", report |-> r]

\* Mutant: the status is left to an operator.
StatusAfterNothing(r, done) == passport

\* setPassportStatus, called for a revocation and nothing else.
StatusAfter(r, done) ==
    IF done >= 3 /\ Content[r].type = "passport.revoked"
    THEN [passport EXCEPT ![About[r]] = "revoked"] ELSE passport

\* recordEvidence: the record, the snapshot, the passport's status, the key row.
RecordEvidence(q, done) ==
    LET r == q.report
        s == About[r]
        at == IF q.stamp = NoStamp THEN now ELSE q.stamp
        list == Insert(evidence[s], [report |-> r, at |-> at])
        revoking == Content[r].type = "passport.revoked" IN
    /\ Unanswered(q.key)
    /\ Live(passport[s]) /\ ~Stored(s, r) /\ Len(evidence[s]) < MaxEvidence
    /\ done \in 1..4 /\ Statements(done, 4)
    /\ evidence' = [evidence EXCEPT ![s] = list]
    /\ snapshot' = IF done < 2 THEN snapshot
                   ELSE [snapshot EXCEPT ![s] = Recomputed(s, list, @, Known)]
    /\ passport' = StatusAfter(r, done)
    /\ behind' = IF done < 2 THEN behind \cup {s} ELSE behind \ {s}
    /\ unapplied' = IF done < 3 /\ revoking THEN unapplied \cup {r} ELSE unapplied
    /\ IF done = 4 THEN answer' = Processed(r) /\ Remember(q, Processed(r))
       ELSE answer' = Crashed /\ UNCHANGED idempotency
    /\ UNCHANGED <<bounds, origin, torn, rolledBack, adopted, rows, portability, disputes>>

\* A report with a known fingerprint is answered as if it had been processed now.
RepeatEvidence(q) ==
    /\ Unanswered(q.key)
    /\ Live(passport[About[q.report]]) /\ Stored(About[q.report], q.report)
    /\ answer' = Processed(q.report)
    /\ Remember(q, Processed(q.report))
    /\ UNCHANGED <<bounds, crashes, registry, records, views, rows, portability, disputes>>

\* The dispute's own row is the last statement.
Booked(done, last) == done = last

\* The snapshot after those statements, where first is the one after two.
DisputedSnapshot(s, resolved, decided, done, snap, first) ==
    CASE done = 1 -> snap
      [] decided /\ done > 3 -> Recomputed(s, resolved, first, Known)
      [] OTHER -> first

BookDispute(s, done, snap, outcome, decided) ==
    LET last == IF decided THEN 5 ELSE 3
        opened == Insert(evidence[s], [report |-> "dispute.opened", at |-> now])
        resolved == Insert(opened, [report |-> "dispute.resolved", at |-> now]) IN
    /\ done \in 1..last /\ Statements(done, last)
    /\ evidence' = [evidence EXCEPT ![s] = IF decided /\ done > 2 THEN resolved ELSE opened]
    /\ snapshot' = [snapshot EXCEPT ![s] =
          DisputedSnapshot(s, resolved, decided, done, snap, Recomputed(s, opened, snap, Known))]
    /\ behind' = IF done = 1 \/ (decided /\ done = 3) THEN behind \cup {s} ELSE behind \ {s}
    /\ disputes' = IF ~Booked(done, last) THEN disputes ELSE [disputes EXCEPT ![s] = Append(@, outcome)]
    /\ answer' = IF done < last THEN Crashed
                 ELSE [kind |-> "disputed", subject |-> s, outcome |-> outcome]

DecideDispute(s, done, snap, outcome) ==
    BookDispute(s, done, snap, outcome, outcome # "request_additional_validation")

JudgeDispute(s, picks, severity, preferred, done, snap) ==
    DecideDispute(s, done, StoredSnapshots({s})[s],
        EvaluateDispute(s, [i \in picks |-> View(evidence[s])[i]], snap, Known, severity, 0,
                        preferred))

\* evaluateDispute: a record that it was opened and, if it is decided, one that
\* it was resolved, each followed by the snapshot; then the dispute's own row.
Dispute(s, picks, severity, preferred, done) ==
    /\ Live(passport[s])
    /\ Len(evidence[s]) + 2 <= MaxEvidence
    /\ picks \subseteq DOMAIN evidence[s]
    /\ JudgeDispute(s, picks, severity, preferred, done, WithSnapshots({s})[s])
    /\ UNCHANGED <<bounds, registry, unapplied, rolledBack, adopted, rows, portability,
                   idempotency>>

-----------------------------------------------------------------------------
(* Resolutions *)

Outcome(row) == ComputeResolution(row.snapshot, row.context)

\* The validators considered: all with a live passport, or those the request names.
Considered(s, named) ==
    (IF named = Default THEN {c \in Subjects : Live(passport[c])} ELSE named) \ {s}

\* A low confidence is refused once the row is written.
AnswerResolution(s, row, named, done, outcome, recommended) ==
    LET low == row.context.risk = "high" /\ outcome.confidence < 70 /\ recommended = {} IN
    /\ latest' = [latest EXCEPT ![s] = row]
    /\ told' = IF done < 2 \/ low THEN told ELSE [told EXCEPT ![s] = row]
    /\ answer' =
         IF done < 2 THEN Crashed
         ELSE IF low THEN Refused("LOW_CONFIDENCE")
         ELSE [kind |-> "resolved", subject |-> s, context |-> row.context, named |-> named,
               recommended |-> recommended,
               escrow |-> EscrowRatio(outcome, row.context.risk),
               events |-> IF latest[s] = NoRow THEN {}
                          ELSE TrustEvent(Outcome(latest[s]), outcome)]

BookResolution(s, row, named, done, recommended) ==
    AnswerResolution(s, row, named, done, Outcome(row), recommended)

\* A snapshot computed for the request that lacks a weight has no score.
Unscorable(s) == WithSnapshots({s})[s].execution = NaN

\* resolveTrust: the row, then the events.
ResolveTrust(s, context, named, done) ==
    LET considered == Considered(s, named)
        Book(snap) == BookResolution(s, [snapshot |-> snap[s], context |-> context], named, done,
                                     RecommendValidators(considered, context, snap)) IN
    /\ Live(passport[s]) /\ ~Unscorable(s)
    /\ \A c \in considered : snapshot[c] = NoSnapshot => Live(passport[c])
    /\ done \in 1..2 /\ Statements(done, 2)
    /\ Fill(considered \cup {s})
    /\ Book(WithSnapshots(considered \cup {s}))
    /\ UNCHANGED <<bounds, registry, records, portability, disputes, idempotency>>

\* trust_resolutions.score is NOT NULL: the row is refused.  By then the snapshots
\* are stored, so that the next request finds null where this one had NaN.
LoseResolution(s, context, named) ==
    /\ Live(passport[s]) /\ Unscorable(s)
    /\ \A c \in Considered(s, named) : snapshot[c] = NoSnapshot => Live(passport[c])
    /\ Fill(Considered(s, named) \cup {s})
    /\ answer' = Refused("INTERNAL")
    /\ UNCHANGED <<bounds, crashes, registry, records, rows, portability, disputes, idempotency>>

\* A named candidate without a snapshot and without a live passport stops the
\* request; the snapshots missing for those listed before it are made.
BlockResolution(s, context, named, filled) ==
    /\ Live(passport[s])
    /\ \E c \in Considered(s, named) : snapshot[c] = NoSnapshot /\ ~Live(passport[c])
    /\ filled \subseteq {c \in Considered(s, named) : Live(passport[c])}
    /\ Fill(filled \cup {s})
    /\ answer' = Refused("CANDIDATE")
    /\ UNCHANGED <<bounds, crashes, registry, records, rows, portability, disputes, idempotency>>

-----------------------------------------------------------------------------
(* Routing *)

RouteValidators(s, candidates, required, context) ==
    LET capable == {c \in Listed(candidates) \cap Validators : passport[c] = "active"} IN
    /\ Live(passport[s])
    /\ Fill(capable \cup {s})
    /\ answer' = [kind |-> "validators", candidates |-> candidates, required |-> required,
                  context |-> context,
                  route |-> SelectValidators(s, candidates, required, context, passport,
                                             WithSnapshots(capable \cup {s}))]
    /\ UNCHANGED <<bounds, crashes, registry, records, rows, portability, disputes, idempotency>>

RouteExecutors(s, candidates, minimum, downgrade, context) ==
    LET capable == {c \in Listed(candidates) \cap Executors : Live(passport[c])} IN
    /\ Live(passport[s])
    /\ Fill(capable)
    /\ \E route \in SelectExecutors(candidates, minimum, downgrade, context, passport,
                                    WithSnapshots(capable)) :
          answer' = [kind |-> "executors", candidates |-> candidates, context |-> context,
                     route |-> route,
                     unscored |-> {c \in capable : WithSnapshots(capable)[c].execution = NaN}]
    /\ UNCHANGED <<bounds, crashes, registry, records, rows, portability, disputes, idempotency>>

-----------------------------------------------------------------------------
(* Portability *)

\* exportTrustBundle; the limit on its evidence is above MaxEvidence.
Export(s) ==
    LET receipt == <<"export", Cardinality(bundles)>> IN
    /\ Live(passport[s])
    /\ Cardinality(bundles) < MaxExports
    /\ Fill({s})
    /\ receipts' = receipts \cup {receipt}
    /\ bundles' = bundles \cup {[receipt |-> receipt, subject |-> s, evidence |-> evidence[s],
                                 snapshot |-> StoredSnapshots({s})[s]]}
    /\ answer' = [kind |-> "exported", receipt |-> receipt]
    /\ UNCHANGED <<bounds, crashes, registry, records, rows, disputes, idempotency>>

\* The records of a bundle that a subject has not.
Fresh(s, list) == Filtered(list, {e \in Listed(list) : ~Stored(s, e.report)})

\* What a subject's evidence becomes with them.
Merged(s, fresh) ==
    LET upTo[n \in 0..Len(fresh)] ==
          IF n = 0 THEN evidence[s] ELSE Insert(upTo[n - 1], fresh[Len(fresh) + 1 - n])
    IN  upTo[Len(fresh)]

\* importTrustBundle: a passport if there is none, the evidence, the snapshot,
\* the receipt.  Whether the subject is live or the receipt known is found out
\* when the snapshot is recomputed and when the receipt is stored.
Import(b, mode, done) ==
    LET s == b.subject
        fresh == Fresh(s, b.evidence)
        list == Merged(s, fresh)
        adopt == snapshot[s] = NoSnapshot \/ mode = "mirror"
        dead == ~adopt /\ fresh # <<>> /\ passport[s] \notin {"none", "active", "bare"} IN
    /\ imports < MaxImports
    /\ imports' = imports + 1
    /\ done \in (IF passport[s] = "none" THEN 1 ELSE 2)..4 /\ Statements(done, 4)
    /\ passport' = [passport EXCEPT ![s] = IF @ = "none" THEN "active" ELSE @]
    /\ evidence' = IF done < 2 THEN evidence ELSE [evidence EXCEPT ![s] = list]
    /\ snapshot' = IF done < 3 \/ dead \/ (~adopt /\ fresh = <<>>) THEN snapshot
                   ELSE [snapshot EXCEPT ![s] = IF adopt THEN b.snapshot
                                                ELSE Recomputed(s, list, @, Known \cup {s})]
    /\ receipts' = IF done < 4 \/ dead THEN receipts ELSE receipts \cup {b.receipt}
    /\ answer' = IF done < 4 THEN Crashed
                 ELSE IF dead \/ b.receipt \in receipts
                 THEN [kind |-> "refused", code |-> "IMPORT",
                       why |-> IF dead THEN "PASSPORT_REVOKED" ELSE "receipt"]
                 ELSE [kind |-> "imported", subject |-> s]
    /\ origin' = IF passport[s] = "none" THEN [origin EXCEPT ![s] = NoKey] ELSE origin
    /\ behind' = IF done >= 3 /\ ~adopt /\ ~dead /\ fresh # <<>> THEN behind \ {s}
                 ELSE IF (adopt /\ done >= 3) \/ (fresh # <<>> /\ done >= 2)
                 THEN behind \cup {s} ELSE behind
    /\ rolledBack' = IF adopt /\ done >= 3 /\ snapshot[s] # NoSnapshot
                     THEN rolledBack \cup {s} ELSE rolledBack
    /\ adopted' = IF adopt /\ done >= 3 /\ b \in Foreign THEN adopted \cup {s} ELSE adopted
    /\ unapplied' = IF done < 2 THEN unapplied
                    ELSE unapplied \cup {r \in Reports : /\ Content[r].type = "passport.revoked"
                                                        /\ \E i \in DOMAIN fresh : fresh[i].report = r}
    /\ UNCHANGED <<workload, now, torn, rows, bundles, disputes, idempotency>>

-----------------------------------------------------------------------------
(* The specification *)

\* The subject a request is about, which must have a live passport.
Subject(q) == IF q.op = "evidence" THEN About[q.report] ELSE q.subject

Serve(q) ==
    \/ q.op \in {"passport", "evidence"} /\ Replay(q)
    \/ q.op = "passport" /\ RefusePassport(q)
    \/ q.op = "passport" /\ \E done \in 1..3 : CreatePassport(q, done)
    \/ q.op \notin {"passport", "import"} /\ RefuseSubject(Subject(q))
    \/ q.op = "evidence" /\ RepeatEvidence(q)
    \/ q.op = "evidence" /\ \E done \in 1..4 : RecordEvidence(q, done)
    \/ /\ q.op = "dispute"
       /\ \E picks \in SUBSET (DOMAIN evidence[q.subject]), done \in 1..5 :
             Dispute(q.subject, picks, q.severity, q.preferred, done)
    \/ /\ q.op = "resolve"
       /\ \/ \E done \in 1..2 : ResolveTrust(q.subject, q.context, q.named, done)
          \/ LoseResolution(q.subject, q.context, q.named)
          \/ \E filled \in SUBSET Subjects :
                BlockResolution(q.subject, q.context, q.named, filled)
    \/ /\ q.op = "validators"
       /\ RouteValidators(q.subject, q.candidates, q.required, q.context)
    \/ /\ q.op = "executors"
       /\ RouteExecutors(q.subject, q.candidates, q.minimum, q.downgrade, q.context)
    \/ q.op = "export" /\ Export(q.subject)
    \/ /\ q.op = "import"
       /\ \E b \in Foreign \cup bundles, done \in 1..4 : Import(b, q.mode, done)

Next == Tick \/ \E q \in workload : Serve(q)

Spec == Init /\ [][Next]_vars

-----------------------------------------------------------------------------
(* Properties *)

\* Every variable has its type, and whatever evidence was reported every dimension
\* of a snapshot is a share, or null with the five others that a missing weight
\* spoils; unless the snapshot came from elsewhere, for nothing checks it.
TypeOK ==
    /\ now \in 0..MaxNow /\ crashes \in 0..MaxCrashes /\ imports \in 0..MaxImports
    /\ passport \in [Subjects -> {"none", "bare", "active", "revoked"}]
    /\ evidence \in [Subjects -> Seq(Entry)]
    /\ \A s \in Subjects \ adopted : snapshot[s] = NoSnapshot \/ IsStored(snapshot[s])
    /\ DOMAIN idempotency = Keys
    /\ behind \cup rolledBack \cup adopted \cup torn \subseteq Subjects
    /\ unapplied \subseteq Reports

\* A report is stored once, however it was retried and whether it was reported
\* here or imported (computeEvidenceFingerprint); and the newest comes first.
StoredOnce ==
    \A s \in Subjects :
       /\ Once(evidence[s])
       /\ \A i, j \in DOMAIN evidence[s] : i < j => evidence[s][i].at >= evidence[s][j].at

\* The snapshot counts the evidence in its window: no recording, repetition or
\* dispute leaves it out, unless it was cut short or a bundle's was adopted.  The
\* reliability is null only for a task in the recent window that has no weight.
\* What depends on which vouchers had a passport by then is not compared.
SnapshotCountsEvidence ==
    \A s \in Subjects \ behind : snapshot[s] # NoSnapshot =>
       LET fresh == Recomputed(s, evidence[s], NoSnapshot, Known) IN
       \A d \in {"quarantines", "volume", "disputes", "diversity", "closed", "execution"} :
          snapshot[s][d] = fresh[d]

\* A revocation that was answered as processed took effect, unless the record of
\* it got here by a request cut short or by an import: then it never will.
RevocationTakesEffect ==
    answer.kind = "processed" /\ Content[answer.report].type = "passport.revoked" =>
       passport[About[answer.report]] = "revoked" \/ answer.report \in unapplied

\* A client that repeats its own registration under its key is not told that the
\* subject is taken, unless the first request was cut short.
OwnRetryIsAccepted ==
    answer.kind = "refused" /\ answer.code = "CONFLICTING_EVIDENCE"
      /\ answer.key # NoKey /\ origin[answer.subject] = answer.key =>
       answer.subject \in torn

\* Once a QUARANTINE record is within the window of a subject, and the snapshot
\* is up to date, no resolution lets the subject do anything.
QuarantineIsDenied ==
    answer.kind = "resolved" /\ answer.subject \notin behind =>
       LET window == Newest(View(evidence[answer.subject]), Medium) IN
       (\E i \in DOMAIN window : window[i].type = "QUARANTINE") =>
          Outcome(latest[answer.subject]).decision = "deny"

\* What only looks at the band (the choice of validators and the escrow quote)
\* treats a denied subject as trusted only if it was denied for a QUARANTINE
\* record or for its adversarial risk, and never for its score.  Like the next
\* ones it says nothing of snapshots from elsewhere.
BandSeesDenial ==
    LET Record(snap) == snap.quarantines > 0 \/ Read(snap).adversarialRisk >= 80 IN
    /\ answer.kind = "validators" /\ Listed(answer.candidates) \cap adopted = {} =>
         \A v \in Listed(answer.route.selected) :
            ComputeResolution(snapshot[v], answer.context).decision = "deny" => Record(snapshot[v])
    /\ answer.kind = "resolved" /\ answer.subject \notin adopted =>
         LET row == latest[answer.subject] IN
         Outcome(row).decision = "deny" /\ answer.escrow < 2500 => Record(row.snapshot)

\* A quorum said to be satisfied has as many different validators as required,
\* unless the request listed one of them twice.
QuorumIsDistinct ==
    answer.kind = "validators" /\ answer.route.satisfied
      /\ Listed(answer.candidates) \cap adopted = {} =>
       \/ Cardinality(Listed(answer.route.selected)) >= answer.required
       \/ Cardinality(Listed(answer.candidates)) < Len(answer.candidates)

\* No validator whose passport is revoked is recommended, unless the request
\* itself named it.
RecommendedIsLive ==
    answer.kind = "resolved" =>
       \A v \in answer.recommended :
          Live(passport[v]) \/ (answer.named # Default /\ v \in answer.named)

\* Nobody is chosen to execute who is denied, or who is restricted and was not
\* offered with less autonomy; unless the request had to compute the snapshot and
\* found no score.
ExecutorIsTrusted ==
    answer.kind = "executors" /\ Listed(answer.candidates) \cap adopted = {} =>
       \A v \in Listed(answer.route.selected) :
          LET r == ComputeResolution(snapshot[v], answer.context) IN
          /\ Live(passport[v])
          /\ \/ r.decision = "allow"
             \/ answer.route.downgraded /\ r.band # "quarantined"
             \/ v \in answer.unscored /\ snapshot[v].quarantines = 0

\* Every dispute on the books has the records of its life among the evidence.
DisputesAreRecorded ==
    \A s \in Subjects :
       LET Count(t) == Cardinality({i \in DOMAIN evidence[s] : evidence[s][i].report = t})
           Decided == {i \in DOMAIN disputes[s] : disputes[s][i] # "request_additional_validation"}
       IN  /\ Len(disputes[s]) <= Count("dispute.opened")
           /\ Cardinality(Decided) <= Count("dispute.resolved")

\* What was reported counts: in the table, in the snapshot, in the passport and
\* in the books of disputes.
EvidenceTakesEffect ==
    StoredOnce /\ SnapshotCountsEvidence /\ RevocationTakesEffect /\ DisputesAreRecorded

\* Whoever is denied by one path of the engine is not trusted by another.
DenialIsConsistent == QuarantineIsDenied /\ BandSeesDenial

\* Routing and recommendation select whom they claim to select.
SelectionIsSound == QuorumIsDistinct /\ RecommendedIsLive /\ ExecutorIsTrusted

\* A request that is refused leaves passports, evidence, disputes and keys as
\* they were, except an import of a known receipt or of a revoked subject.
RefusalChangesNothing ==
    [][answer'.kind = "refused" /\ answer'.code # "IMPORT" =>
         UNCHANGED <<passport, evidence, disputes, receipts>>]_vars

\* What stands for good: a revoked passport stays revoked, and nobody is told
\* anything new about its subject, only an import may still add to its records;
\* and two resolutions that name the same snapshot version were computed from
\* the same snapshot, unless an import replaced it in mirror mode.
RevokedIsFinal(s) ==
    passport[s] = "revoked" =>
       /\ passport'[s] = "revoked" /\ latest'[s] = latest[s] /\ disputes'[s] = disputes[s]
       /\ imports' # imports \/ (evidence'[s] = evidence[s] /\ snapshot'[s] = snapshot[s])

VersionNamesSnapshot(s) ==
    latest[s] # NoRow /\ latest'[s].snapshot.version = latest[s].snapshot.version =>
       latest'[s].snapshot = latest[s].snapshot \/ s \in rolledBack

HistoryStands == [][\A s \in Subjects : RevokedIsFinal(s) /\ VersionNamesSnapshot(s)]_vars

\* A subject that was not quarantined when a caller was last told about it, and
\* is now, is announced; a refused or crashed resolution in between hides it.
QuarantineIsAnnounced ==
    [][\A s \in Subjects :
         told'[s] # told[s] /\ told[s] # NoRow /\ told[s] = latest[s] =>
            (Outcome(told[s]).state # "QUARANTINED" /\ Outcome(told'[s]).state = "QUARANTINED" =>
               {"AGENT_QUARANTINED", "TRUST_COLLAPSE"} \subseteq answer'.events)]_vars
=============================================================================
