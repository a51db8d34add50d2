---------------------------- MODULE TrustRouting ----------------------------
(***************************************************************************)
(* What the trust platform (apps/api/lib/platform.mjs) computes from the   *)
(* passports and the snapshots of several subjects: the validators it      *)
(* recommends, the validators and the executors it selects for a task, the *)
(* outcome of a dispute, and the escrow it quotes.  Candidates are given   *)
(* as a sequence, as the request lists them; scores are in percent.        *)
(***************************************************************************)
EXTENDS TrustEngine

CONSTANTS
    Validators,  \* the subjects with the capability to validate,
    Executors,   \* and those whose type may execute
    IdOrder      \* where localeCompare puts each subject

\* ensureSubject: a "bare" passport lacks its keys and capabilities, no more.
Live(status) == status \in {"active", "bare"}

\* The entry for which fewest are better comes first; a tie keeps their order.
Ranked(entries, Better(_, _)) ==
    LET Before(i, j) == \/ Better(entries[i], entries[j])
                        \/ ~Better(entries[j], entries[i]) /\ i < j
    IN  [k \in DOMAIN entries |->
           entries[CHOOSE i \in DOMAIN entries :
                     Cardinality({j \in DOMAIN entries : Before(j, i)}) = k - 1]]

ByScore(e, f) ==
    \/ e.score > f.score
    \/ e.score = f.score /\ IdOrder[e.subject] < IdOrder[f.subject]

-----------------------------------------------------------------------------
(* Validators *)

\* selectValidators: trust, fit, confidence and a token for latency.
SelectionScore(snapshot, context) ==
    LET r == ComputeResolution(snapshot, context) IN
    Ratio(Clamp(0, 5500 * r.score + 25 * DomainFit(snapshot, context.domain, 2000)
                     + 1000 * r.confidence + 2 * Read(snapshot).execution, 100 * Unit), Unit)

SharedCluster(candidate, subject) ==
    \/ candidate.collusion >= 5500
    \/ candidate.collusion > 4000 /\ Distance(candidate.closed, subject.closed) < 1000

\* Whether a candidate is kept: its decision and its state are not looked at.
Qualifies(c, subject, context, status, snap) ==
    /\ status[c] = "active" /\ c \in Validators
    /\ ~SharedCluster(snap[c], subject)
    /\ ValidationEligible(ComputeResolution(snap[c], context).band, context)

\* Mutant: the average alone decides.
QuorumSatisfiedOnAverage(selected, required) ==
    Total(LAMBDA i : selected[i].score, DOMAIN selected) >= 67 * Len(selected)

QuorumSatisfied(selected, required) ==
    /\ Len(selected) >= required
    /\ Total(LAMBDA i : selected[i].score, DOMAIN selected) >= 67 * Len(selected)

ValidatorRoute(candidates, kept, selected, required) ==
    [selected |-> [i \in DOMAIN selected |-> selected[i].subject],
     satisfied |-> QuorumSatisfied(selected, required),
     rerouted |-> \/ Len(kept) < Len(candidates)
                  \/ selected # <<>> /\ selected[1].subject # candidates[1]]

RankedEntries(entries) == Ranked(entries, ByScore)

ElectFrom(candidates, kept, required, context, snap) ==
    ValidatorRoute(candidates, kept,
        Newest(RankedEntries([i \in DOMAIN kept |->
            [subject |-> kept[i], score |-> SelectionScore(snap[kept[i]], context)]]), required),
        required)

SelectValidators(s, candidates, required, context, status, snap) ==
    ElectFrom(candidates,
              Filtered(candidates, {c \in Listed(candidates) :
                                      Qualifies(c, snap[s], context, status, snap)}),
              required, context, snap)

\* recommendValidators: at most three; neither capability nor status is looked at.
RecommendValidators(candidates, context, snap) ==
    LET Fit(c) == Ratio(80 * DomainFit(snap[c], context.domain, 2000)
                          + 2000 * ComputeResolution(snap[c], context).confidence, Unit)
        entries == {[subject |-> c, score |-> Fit(c),
                     trust |-> ComputeResolution(snap[c], context).score] :
                      c \in {d \in candidates :
                        /\ ValidationEligible(ComputeResolution(snap[d], context).band, context)
                        /\ snap[d].collusion < 5500}}
        Better(e, f) == \/ e.score > f.score
                        \/ e.score = f.score /\ e.trust > f.trust
                        \/ /\ e.score = f.score /\ e.trust = f.trust
                           /\ IdOrder[e.subject] < IdOrder[f.subject]
    IN  {e.subject : e \in {f \in entries : Cardinality({g \in entries : Better(g, f)}) < 3}}

-----------------------------------------------------------------------------
(* Executors *)

\* Here a missing reliability counts for one half.
ExecutorReliability(snapshot) ==
    IF snapshot.execution = Null THEN Unit \div 2 ELSE snapshot.execution

ExecutionScore(snapshot, context) ==
    LET r == ComputeResolution(snapshot, context) IN
    Ratio(Clamp(0, 4500 * r.score + 25 * ExecutorReliability(snapshot)
                     + 20 * DomainFit(snapshot, context.domain, 2000)
                     + 1000 * r.confidence, 100 * Unit), Unit)

SevereCollusion(snapshot) ==
    snapshot.collusion >= 5500 /\ (snapshot.issuer > 2500 \/ snapshot.infra > 2500)

MayExecute(c, status, snap) ==
    Live(status[c]) /\ c \in Executors /\ ~SevereCollusion(snap[c])

Degradable(resolution, downgrade) == downgrade /\ resolution.band # "quarantined"

ExecutorRoute(trusted, chosen) ==
    [selected |-> [i \in DOMAIN chosen |-> chosen[i].subject],
     downgraded |-> trusted = <<>> /\ chosen # <<>>]

\* With nobody trusted, one of the degraded.
Fallback(trusted, degraded) ==
    ExecutorRoute(trusted, IF trusted = <<>> THEN degraded ELSE trusted)

Positive(n) == IF n < 0 THEN 0 ELSE n

ExecutorEntries(kept, lost, context, snap) ==
    RankedEntries([i \in DOMAIN kept |->
        [subject |-> kept[i], score |-> Positive(ExecutionScore(snap[kept[i]], context) - lost)]])

\* A score of NaN makes the comparison of two entries inconsistent, and sort may
\* leave them in any order.
TrustedEntries(kept, context, snap) ==
    IF \E c \in Listed(kept) : snap[c].execution = NaN
    THEN {[i \in DOMAIN kept |-> [subject |-> kept[order[i]], score |-> NaN]] :
            order \in Bijection(DOMAIN kept, DOMAIN kept)}
    ELSE {ExecutorEntries(kept, 0, context, snap)}

\* selectExecutors: what it may answer.  The degraded, of whom none has a score
\* of NaN, are looked at if the caller allows it.
SelectExecutors(candidates, minimum, downgrade, context, status, snap) ==
    LET Resolve(c) == ComputeResolution(snap[c], context)
        Able == {c \in Listed(candidates) : MayExecute(c, status, snap)}
        Trusted == {c \in Able : Resolve(c).decision = "allow"}
        Degraded == {c \in Able \ Trusted : Degradable(Resolve(c), downgrade)}
    IN  {Fallback(Newest(entries, minimum),
                  Newest(ExecutorEntries(Filtered(candidates, Degraded), 15, context, snap), 1)) :
           entries \in TrustedEntries(Filtered(candidates, Trusted), context, snap)}

-----------------------------------------------------------------------------
(* Disputes and escrow *)

DisputeOrder == <<"uphold_current_trust", "request_additional_validation",
                  "reverse_validation_credit", "quarantine_subject">>

\* stricterResolution
Stricter(left, right) ==
    LET Place(r) == CHOOSE i \in DOMAIN DisputeOrder : DisputeOrder[i] = r IN
    IF right \in {DisputeOrder[i] : i \in DOMAIN DisputeOrder} /\ Place(right) > Place(left)
    THEN right ELSE left

\* evaluateDispute.  An exposure is log10 of the capital at stake, over 5, or NaN.
\* Only judges with a passport are known; here org_infopunks is an issuer like others.
EvaluateDispute(s, evidence, snapshot, known, severity, exposure, preferred) ==
    LET D == DOMAIN evidence
        n == AtLeastOne(Cardinality(D))
        Passes == Total(LAMBDA i : Cardinality(evidence[i].passes), D)
        Fails == Total(LAMBDA i : Cardinality(evidence[i].fails), D)
        Judges == UNION {evidence[i].passes \cup evidence[i].fails : i \in D}
        Reversals == CountOf(evidence, LAMBDA e : e.type = "validation.reversed")
        Failures == CountOf(evidence, LAMBDA e :
                      e.type \in {"task.failed", "task.timeout", "validation.failed"})
        Contradiction == Fraction(Ratio(10000 * Failures + 13500 * Reversals
                           + 3500 * (IF Fails > Passes THEN Fails - Passes ELSE 0), n))
        Consistency == Percent(Fraction(Unit - Ratio(7 * Contradiction, 10)
                         - Ratio(3000 * Distance(Passes, Fails), Passes + Fails + 1)))
        Diversity == Percent(Fraction(Ratio(Cardinality(Judges) * Unit, 3)))
        Shared(Pairs) == Ratio(Cardinality({v \in Judges \cap known : <<s, v>> \in Pairs}) * Unit,
                               AtLeastOne(Cardinality(Judges)))
        Collusion == Percent(Fraction(Ratio(55 * snapshot.collusion + 20 * snapshot.issuer
                       + 15 * snapshot.infra + 6 * Shared(SameIssuer)
                       + 4 * Shared(SameInfra), 100)))
        Risky == Ratio(CountOf(evidence, LAMBDA e : e.highRisk) * Unit, n)
        Severity == CASE severity = "low" -> 2000 [] severity = "medium" -> 4500
                      [] severity = "high" -> 7000 [] severity = "critical" -> 9000
        Stakes == {exposure} \cup {evidence[i].exposure : i \in D}
        Economic == Percent(Fraction(Ratio(45 * Max(Stakes) + 35 * Risky + 20 * Severity, 100)))
        Impact == Percent(Fraction(Ratio(55 * snapshot.asymmetry + 20 * snapshot.reversals
                    + 25 * Ratio(Reversals * Unit, n), 100)))
    IN  Stricter(
          IF Collusion >= 72 \/ (NaN \notin Stakes /\ Economic >= 75 /\ Impact >= 55) THEN "quarantine_subject"
          ELSE IF Impact >= 45 \/ Contradiction >= 6200 THEN "reverse_validation_credit"
          ELSE IF Consistency < 58 \/ Diversity < 50 THEN "request_additional_validation"
          ELSE "uphold_current_trust", preferred)

\* getEscrowQuote: the share of the amount held back, by band; the decision has no say.
EscrowRatio(resolution, risk) ==
    LET Base == CASE resolution.band = "privileged" -> 400 [] resolution.band = "preferred" -> 800
                  [] resolution.band = "allowed" -> 1500 [] resolution.band = "watch" -> 3000
                  [] resolution.band = "restricted" -> 5500
                  [] resolution.band = "quarantined" -> Unit
    IN  Fraction(Ratio(Base * (CASE risk = "high" -> 125 [] risk = "low" -> 85
                                 [] risk = "medium" -> 100), 100))
=============================================================================
