---------------------------- MODULE TrustEngine ----------------------------
(***************************************************************************)
(* The trust engine (packages/trust-engine/index.mjs) as functions: from   *)
(* the evidence about a subject to its snapshot (computeSnapshot), from a  *)
(* snapshot to a resolution (computeResolution), and from two resolutions  *)
(* to the events that announce the change (computeTrustEvent).  Ratios are *)
(* integers in units of 1/10000, the precision the snapshot is stored      *)
(* with.  A piece of evidence carries, in place of its outcome and context *)
(* objects, the numbers the engine reads from them: weight is what         *)
(* computeTaskValueWeight returns for it, which is NaN for a context that  *)
(* gives a negative capital_exposure_usd or a difficulty_score that is not *)
(* a number.                                                               *)
(***************************************************************************)
EXTENDS Lists, FiniteSetsExt

CONSTANTS
    Recent,      \* length of the recent window (20 in the code)
    Medium,      \* length of the medium window (100 in the code)
    SameIssuer,  \* pairs of subjects whose passports name one issuer,
    Neutral,     \* those of them whose issuer is org_infopunks and whose owners differ,
    SameInfra,   \* pairs whose passports name one owner or one framework
    NoDomain,    \* the domain of a context that names none
    NaN,         \* a number that is none,
    Null         \* and what JSON.stringify makes of it

ASSUME WindowsAssumption == Recent \in Nat \ {0} /\ Medium \in Nat \ {0}

ASSUME NumbersAssumption == NaN \notin Int /\ Null \notin Int /\ NaN # Null

-----------------------------------------------------------------------------
(* Arithmetic *)

Unit == 10000

\* Math.round of a quotient.
Ratio(a, b) == (2 * a + b) \div (2 * b)

Times(a, b) == Ratio(a * b, Unit)

Clamp(lo, x, hi) == IF x < lo THEN lo ELSE IF x > hi THEN hi ELSE x

Fraction(x) == Clamp(0, x, Unit)

Percent(x) == Ratio(x, 100)

AtLeastOne(n) == IF n = 0 THEN 1 ELSE n

Total(F(_), S) == SumOver([x \in S |-> F(x)], S)

Newest(records, n) == SubSeq(records, 1, IF Len(records) < n THEN Len(records) ELSE n)

Positions(records, Test(_)) == {i \in DOMAIN records : Test(records[i])}

CountOf(records, Test(_)) == Cardinality(Positions(records, Test))

-----------------------------------------------------------------------------
(* The evidence *)

TaskTypes == {"task.completed", "task.failed", "task.timeout"}
ValidationTypes == {"validation.passed", "validation.failed", "validation.reversed"}
DisputeTypes == {"dispute.opened", "dispute.resolved"}

\* ADAPTIVE_EVENT_PENALTIES; what it adds for good behaviour enters no decision.
Penalty(type) ==
    CASE type = "QUARANTINE" -> 50
      [] type \in {"REPLAY_ATTEMPT", "DUPLICATE_PAYMENT_SIGNATURE"} -> 35
      [] type = "PAYLOAD_MISMATCH" -> 22
      [] type = "MALFORMED_PAYLOAD" -> 20
      [] type \in {"PAYMENT_FAILED", "DEPENDENCY_FAILURE"} -> 18
      [] type = "OUTPUT_INCONSISTENCY" -> 16
      [] type = "RATE_SPIKE" -> 14
      [] type = "VERIFIER_DELAY" -> 10
      [] OTHER -> 0

RiskSignal(window) ==
    Fraction(Ratio(Total(LAMBDA i : Penalty(window[i].type), DOMAIN window) * Unit, 120))

\* Time is counted in half-lives.
Freshness(age) == Ratio(Unit, PowerOfTwo(age))

\* ageHours: a record may bear a time that is yet to come.
Age(now, at) == IF at > now THEN 0 ELSE now - at

\* The weights of rollingWeights, the newest record first.
RollingWeight(window, i) == Ratio((Len(window) + 2 - i) * Unit, Len(window) + 1)

\* averageWeighted: 0 when nothing has a weight.
Average(S, W(_), V(_)) ==
    IF Total(W, S) = 0 THEN 0 ELSE Ratio(Total(LAMBDA i : W(i) * V(i), S), Total(W, S))

TaskWeight(window, i) == Times(RollingWeight(window, i), window[i].weight)

SuccessRate(window, tasks, weight) ==
    IF tasks = {} THEN Unit \div 2
    ELSE Ratio(Unit * Total(LAMBDA i : IF window[i].type = "task.completed"
                                       THEN TaskWeight(window, i) ELSE 0, tasks),
               IF weight < Unit THEN Unit ELSE weight)

Reliability(window, tasks) ==
    LET W(i) == TaskWeight(window, i)
    IN  Fraction(Ratio(35 * SuccessRate(window, tasks, Total(W, tasks))
                         + 30 * Average(tasks, W, LAMBDA i : window[i].quality)
                         + 20 * Average(tasks, W, LAMBDA i : window[i].confidence)
                         + 15 * Average(tasks, W, LAMBDA i : IF window[i].fast THEN Unit
                                                             ELSE 4000), 100))

Tasks(window) == Positions(window, LAMBDA e : e.type \in TaskTypes)

ExecutionReliability(window) == Reliability(window, Tasks(window))

\* How often a window names a voucher, and the share of a number of verdicts.
Verdicts(window, v) == CountOf(window, LAMBDA e : v \in e.passes \cup e.fails)

VerdictsOf(window, S) == Total(LAMBDA v : Verdicts(window, v), S)

Vouchers(window) == UNION {window[i].passes \cup window[i].fails : i \in DOMAIN window}

\* The two that gave most of the verdicts.
Dominant(window, vouchers) ==
    Max({VerdictsOf(window, S) : S \in {T \in SUBSET vouchers : Cardinality(T) <= 2}})

\* known: the subjects that have a passport by now, revoked or not.
GraphOf(s, window, known, vouchers, sum) ==
    LET Share(n) == IF sum = 0 THEN 0 ELSE Ratio(n * Unit, sum)
        From(pairs) == {v \in vouchers \cap known : <<s, v>> \in pairs}
    IN  [verdicts |-> sum,
         diversity |-> Fraction(Ratio(Cardinality(vouchers) * Unit, 3)),
         mutual |-> Share(sum - Cardinality(vouchers)),
         closed |-> Share(Dominant(window, vouchers)),
         reversals |-> Share(CountOf(window, LAMBDA e : e.type = "validation.reversed")),
         issuer |-> Share(VerdictsOf(window, From(SameIssuer \ Neutral))),
         infra |-> Share(VerdictsOf(window, From(SameInfra)))]

\* computeGraphSignals
Graph(s, window, known) ==
    GraphOf(s, window, known, Vouchers(window), VerdictsOf(window, Vouchers(window)))

Occurrences(records, types) == CountOf(records, LAMBDA e : e.type \in types)

Accuracy(window, medium, validations) ==
    IF validations = 0 THEN Unit \div 2
    ELSE Fraction(Ratio(Unit * (Occurrences(medium, {"validation.passed"})
                                  + CountOf(window, LAMBDA e : e.passes # {})),
                        validations + AtLeastOne(Len(window))))

Consensus(window) ==
    LET Agreement(i) ==
            IF window[i].passes = {} /\ window[i].fails = {} THEN Unit \div 2
            ELSE Ratio(Cardinality(window[i].passes) * Unit,
                       Cardinality(window[i].passes) + Cardinality(window[i].fails))
    IN  IF window = <<>> THEN Unit \div 2
        ELSE Average(DOMAIN window, LAMBDA i : RollingWeight(window, i), Agreement)

ValidationQualityOf(window, medium, g) ==
    LET Cap == IF g.diversity < Unit THEN Clamp(3500, 5500 + Times(g.diversity, 4500), Unit)
               ELSE Unit
    IN  Fraction(Times(Ratio(45 * Accuracy(window, medium, Occurrences(medium, ValidationTypes))
                               + 25 * Consensus(window) + 20 * g.diversity
                               + 10 * Fraction(Unit - g.reversals), 100), Cap))

ValidationQuality(records, g) ==
    ValidationQualityOf(Newest(records, Recent), Newest(records, Medium), g)

\* buildDomainStats and the competence it yields for every domain met.
Competence(window, now) ==
    [d \in {window[i].domain : i \in DOMAIN window} \ {NoDomain} |->
       LET In == Positions(window, LAMBDA e : e.domain = d)
           Done == {i \in In : window[i].type = "task.completed"}
           Quality == Total(LAMBDA i : (window[i].quality + window[i].confidence) \div 2, In)
           Freshest == Min({Age(now, window[i].at) : i \in In})
       IN  Fraction(Ratio(50 * Ratio(Cardinality(Done) * Unit, Cardinality(In))
                            + 30 * Ratio(Quality, Cardinality(In))
                            + 20 * Freshness(Freshest), 100))]

-----------------------------------------------------------------------------
(* The snapshot *)

Distance(a, b) == IF a < b THEN b - a ELSE a - b

\* The snapshot of a subject that has none yet.
NoSnapshot == [version |-> 0]

\* Mutant: the version is that of the snapshot replaced.
NextVersionKept(previous) == IF previous = NoSnapshot THEN 1 ELSE previous.version

NextVersion(previous) == previous.version + 1

\* The mean weight of a task; what is above one is exposed to few validators.
TaskValue(window) ==
    IF Tasks(window) = {} THEN Unit
    ELSE Ratio(Total(LAMBDA i : window[i].weight, Tasks(window)), Cardinality(Tasks(window)))

Exposed(value, g) ==
    Fraction(Times(IF value < Unit THEN 0 ELSE value - Unit, Unit - g.diversity))

\* What the evidence says by itself, with the signals g of the graph.
Measure(records, now, g) ==
    LET medium == Newest(records, Medium)
    IN  [execution |-> ExecutionReliability(Newest(records, Recent)),
         validation |-> ValidationQuality(records, g),
         competence |-> Competence(medium, now),
         disputes |-> Fraction(Ratio(Occurrences(medium, DisputeTypes) * Unit,
                                     AtLeastOne(Len(medium)))),
         freshness |-> IF records = <<>> THEN 2000 ELSE Freshness(Age(now, records[1].at)),
         risk |-> RiskSignal(medium),
         exposed |-> Exposed(TaskValue(Newest(records, Recent)), g),
         quarantines |-> Occurrences(medium, {"QUARANTINE"}),
         volume |-> Occurrences(medium, TaskTypes) + Occurrences(medium, ValidationTypes)
                      + g.verdicts]

Volatility(m, previous) ==
    IF previous = NoSnapshot THEN 0
    ELSE IF previous.execution = Null THEN 0 ELSE Distance(previous.execution, m.execution)

Sockpuppet(g) ==
    Fraction(Ratio(45 * g.issuer + 35 * g.infra + 20 * (Unit - g.diversity), 100))

Bribery(m, g) == Fraction(Ratio(45 * m.exposed + 30 * g.mutual + 25 * g.reversals, 100))

Anomaly(m, g, volatility) ==
    Fraction(Ratio(40 * volatility + 30 * m.exposed + 30 * g.closed, 100))

CollusionRisk(g) ==
    Fraction(Ratio(40 * g.mutual + 20 * g.closed + 15 * (Unit - g.diversity) + 15 * g.issuer
                     + 10 * g.infra, 100))

\* The snapshot of those measures m, signals g and volatility.
Snapshot(version, m, g, volatility) ==
    [version |-> version,
     identity |-> 9600,
     execution |-> m.execution,
     validation |-> m.validation,
     stability |-> Fraction(Unit - volatility),
     competence |-> m.competence,
     disputes |-> m.disputes,
     freshness |-> m.freshness,
     diversity |-> g.diversity,
     reversals |-> g.reversals,
     issuer |-> g.issuer,
     infra |-> g.infra,
     closed |-> g.closed,
     collusion |-> CollusionRisk(g),
     asymmetry |-> Fraction(Ratio(14 * g.reversals, 10) + m.disputes),
     sockpuppet |-> Sockpuppet(g),
     bribery |-> Bribery(m, g),
     anomaly |-> Anomaly(m, g, volatility),
     economicIntegrity |->
        Percent(Fraction(Ratio(40 * m.execution + 25 * m.validation + 20 * (Unit - m.disputes)
                                 + 15 * (Unit - m.risk), 100))),
     adversarialRisk |->
        Percent(Fraction(Ratio(40 * CollusionRisk(g) + 25 * Sockpuppet(g) + 20 * Bribery(m, g)
           + 15 * Fraction(Anomaly(m, g, volatility) + Ratio(7 * m.risk, 10)), 100))),
     quarantines |-> m.quarantines,
     volume |-> m.volume]

\* Every dimension is a share, and the two indices are percentages; how often a
\* verdict was reversed is counted against the verdicts there are, and not capped.
Dimensions == {"identity", "execution", "validation", "stability", "disputes", "freshness",
               "diversity", "collusion", "asymmetry", "sockpuppet", "bribery", "anomaly"}

IsSnapshot(x) ==
    /\ x.version \in Nat \ {0}
    /\ \A d \in Dimensions : x[d] \in 0..Unit
    /\ \A d \in DOMAIN x.competence : x.competence[d] \in 0..Unit
    /\ x.economicIntegrity \in 0..100 /\ x.adversarialRisk \in 0..100
    /\ {x.reversals, x.issuer, x.infra, x.closed, x.quarantines, x.volume} \subseteq Nat

SnapshotFrom(previous, m, g) ==
    Snapshot(NextVersion(previous), m, g, Volatility(m, previous))

SnapshotWith(records, now, previous, g) ==
    SnapshotFrom(previous, Measure(records, now, g), g)

\* A task whose weight is NaN takes with it whatever is computed from the weights.
Weightless(window) == \E i \in Tasks(window) : window[i].weight = NaN

Weighed(records) ==
    [i \in DOMAIN records |-> [records[i] EXCEPT !.weight = IF @ = NaN THEN 0 ELSE @]]

\* A snapshot with x for all that is computed from the weights.
Without(snapshot, x) ==
    [snapshot EXCEPT !.execution = x, !.stability = x, !.bribery = x, !.anomaly = x,
                     !.economicIntegrity = x, !.adversarialRisk = x]

WeighIn(snapshot, lost) == IF lost THEN Without(snapshot, NaN) ELSE snapshot

\* computeSnapshot of an active subject, from its evidence, newest first.
ComputeSnapshot(s, records, now, previous, known) ==
    WeighIn(SnapshotWith(Weighed(records), now, previous,
                         Graph(s, Newest(Weighed(records), Medium), known)),
            Weightless(Newest(records, Recent)))

\* Mutant: one number is looked after, not the five that depend on it.
SavedInPart(snapshot) ==
    IF snapshot.execution = NaN THEN [snapshot EXCEPT !.execution = Null] ELSE snapshot

\* JSON.stringify, on the way to the table and into a bundle.
Saved(snapshot) == IF snapshot.execution = NaN THEN Without(snapshot, Null) ELSE snapshot

\* What its readers put in place of null.
Read(snapshot) ==
    IF snapshot.execution = Null
    THEN [Without(snapshot, 0) EXCEPT !.economicIntegrity = 55,
                                      !.adversarialRisk = Percent(snapshot.collusion)]
    ELSE snapshot

\* A snapshot as it is stored: if it lacks one number for want of a weight, it lacks all six.
IsStored(x) ==
    \/ IsSnapshot(x)
    \/ /\ IsSnapshot(Read(x))
       /\ {x.execution, x.stability, x.bribery, x.anomaly, x.economicIntegrity,
           x.adversarialRisk} = {Null}

-----------------------------------------------------------------------------
(* The resolution *)

BandOrder == <<"quarantined", "restricted", "watch", "allowed", "preferred", "privileged">>

\* scoreBand with the ranges of the default policy.
ScoreBand(score) ==
    CASE score \in 90..100 -> "privileged"
      [] score \in 75..89 -> "preferred"
      [] score \in 60..74 -> "allowed"
      [] score \in 40..59 -> "watch"
      [] score \in 20..39 -> "restricted"
      [] score \in 0..19 -> "quarantined"

Rank(band) == CHOOSE i \in DOMAIN BandOrder : BandOrder[i] = band

BandAtLeast(current, minimum) == Rank(current) >= Rank(minimum)

DomainFit(snapshot, domain, otherwise) ==
    IF domain \in DOMAIN snapshot.competence THEN snapshot.competence[domain] ELSE otherwise

ContextFit(snapshot, context) ==
    IF context.domain = NoDomain THEN 3500 ELSE DomainFit(snapshot, context.domain, 1200)

\* dependencyRisk is the 20 of a subject without declared dependencies.
Score(snapshot, adversarialRisk, context) ==
    LET Suspicion == Fraction(Ratio(55 * snapshot.collusion + 20 * snapshot.sockpuppet
                                      + 15 * snapshot.bribery + 10 * snapshot.anomaly, 100))
        Raw == 20 * Unit
                 + 15 * snapshot.identity
                 + 20 * snapshot.execution
                 + 15 * snapshot.validation
                 + 15 * ContextFit(snapshot, context)
                 + 10 * snapshot.freshness
                 + 10 * snapshot.stability
                 - 20 * snapshot.disputes - 12 * snapshot.asymmetry
                 - 25 * Suspicion
                 - 10 * (Unit - snapshot.freshness)
                 - 1200 * 20
                 - 1500 * adversarialRisk
    IN  Ratio(Clamp(0, Raw, 100 * Unit), Unit)

\* In percent: the code rounds it to two digits.
Confidence(snapshot, context) ==
    LET Volume == Fraction(snapshot.volume * 500)
        Contradiction == Fraction(snapshot.disputes
                                    + Ratio(50 * snapshot.reversals + 20 * snapshot.sockpuppet
                                              + 15 * snapshot.anomaly, 100))
    IN  Ratio(Fraction(Ratio(35 * Volume + 20 * snapshot.freshness + 20 * snapshot.diversity
                               + 15 * ContextFit(snapshot, context)
                               + 10 * (Unit - Contradiction), 100)), 100)

\* Mutant: the record no longer weighs by itself.
TrustStateByNumbers(snapshot, score) ==
    IF snapshot.adversarialRisk >= 90 \/ score <= 25 THEN "QUARANTINED"
    ELSE IF snapshot.adversarialRisk >= 80 \/ score <= 35 THEN "COMPROMISED"
    ELSE IF score < 50 \/ snapshot.adversarialRisk >= 70 THEN "RISKY" ELSE "UNKNOWN"

\* deriveTrustState with the default thresholds.
TrustState(snapshot, score) ==
    IF snapshot.quarantines > 0 \/ snapshot.adversarialRisk >= 90 \/ score <= 25
    THEN "QUARANTINED"
    ELSE IF snapshot.adversarialRisk >= 80 \/ score <= 35 THEN "COMPROMISED"
    ELSE IF score < 50 \/ snapshot.adversarialRisk >= 70 THEN "RISKY"
    ELSE IF Percent(snapshot.freshness) < 40 \/ Percent(snapshot.execution) < 50
    THEN "DEGRADING"
    ELSE IF score >= 80 /\ snapshot.adversarialRisk < 40 THEN "VERIFIED"
    ELSE "UNKNOWN"

\* derivePolicy
PolicyAction(snapshot, state) ==
    IF state = "QUARANTINED" THEN "QUARANTINE"
    ELSE IF state = "COMPROMISED" THEN "BLOCK"
    ELSE IF state = "RISKY" \/ snapshot.adversarialRisk > 70 THEN "REQUIRE_SECONDARY_VALIDATION"
    ELSE IF state = "DEGRADING" THEN "RATE_LIMIT"
    ELSE IF snapshot.economicIntegrity < 60 THEN "REQUIRE_ESCROW"
    ELSE IF Percent(snapshot.execution) < 50 THEN "RATE_LIMIT"
    ELSE "ALLOW"

\* mapActionToLegacyDecision: the decision computed from the band never survives it.
Decision(action) ==
    CASE action = "ALLOW" -> "allow"
      [] action \in {"BLOCK", "QUARANTINE", "MANUAL_REVIEW"} -> "deny"
      [] action \in {"RATE_LIMIT", "REQUIRE_ESCROW", "REQUIRE_SECONDARY_VALIDATION"} -> "restrict"

\* computeResolution: score, state and action follow from each other.
Resolution(snapshot, context, score, state, action) ==
    [score |-> score, band |-> ScoreBand(score), confidence |-> Confidence(snapshot, context),
     state |-> state, action |-> action, decision |-> Decision(action),
     fresh |-> snapshot.freshness > 6500,
     priority |-> Ratio(Clamp(0, 10000 - 45 * snapshot.adversarialRisk - 25 * 20
                                   + 20 * Percent(snapshot.execution), 10000), 100)]

ResolutionIn(snapshot, context, score, state) ==
    Resolution(snapshot, context, score, state, PolicyAction(snapshot, state))

ResolutionAt(snapshot, context, score) ==
    ResolutionIn(snapshot, context, score, TrustState(snapshot, score))

ResolutionOf(snapshot, adversarialRisk, context) ==
    ResolutionAt(snapshot, context, Score(snapshot, adversarialRisk, context))

\* The score alone reads a missing adversarialRisk as 20.
ScoredRisk(snapshot) == IF snapshot.adversarialRisk = Null THEN 20 ELSE snapshot.adversarialRisk

\* With a snapshot as it was computed, not yet stored, every comparison with NaN
\* fails and scoreBand falls through.
UnscoredState(snapshot) ==
    IF snapshot.quarantines > 0 THEN "QUARANTINED"
    ELSE IF Percent(snapshot.freshness) < 40 THEN "DEGRADING" ELSE "UNKNOWN"

UnscoredAction(state) ==
    CASE state = "QUARANTINED" -> "QUARANTINE"
      [] state = "DEGRADING" -> "RATE_LIMIT"
      [] state = "UNKNOWN" -> "ALLOW"

Unscored(snapshot, state) ==
    [score |-> NaN, band |-> "quarantined", confidence |-> NaN, state |-> state,
     action |-> UnscoredAction(state), decision |-> Decision(UnscoredAction(state)),
     fresh |-> snapshot.freshness > 6500, priority |-> NaN]

ComputeResolution(snapshot, context) ==
    IF snapshot.execution = NaN THEN Unscored(snapshot, UnscoredState(snapshot))
    ELSE ResolutionOf(Read(snapshot), ScoredRisk(snapshot), context)

\* validationEligible
ValidationEligible(band, context) ==
    BandAtLeast(band, IF context.risk = "low" THEN "allowed" ELSE "preferred")

-----------------------------------------------------------------------------
(* The events that announce a change: computeTrustEvent *)

StateEvents(before, after) ==
    IF before.state = after.state THEN {}
    ELSE {t \in {"AGENT_QUARANTINED"} : after.state = "QUARANTINED"}
           \cup {t \in {"TRUST_COLLAPSE"} : after.state \in {"COMPROMISED", "QUARANTINED"}}

ActionEvents(before, after) ==
    IF before.action = after.action THEN {}
    ELSE {"POLICY_ACTION_CHANGED"}
           \cup {t \in {"AGENT_RATE_LIMITED"} : after.action = "RATE_LIMIT"}
           \cup {t \in {"AGENT_ESCROW_REQUIRED"} : after.action = "REQUIRE_ESCROW"}

ExtraEvents(before, after) ==
    StateEvents(before, after) \cup ActionEvents(before, after)
      \cup {t \in {"ROUTING_PRIORITY_CHANGED"} : Distance(before.priority, after.priority) >= 10}

\* Mutant: the good news is the only news.
TrustEventSpikeOnly(before, after) ==
    IF after.score - before.score >= 10 THEN {"trust.spike", "TRUST_SPIKE"}
    ELSE ExtraEvents(before, after)

\* A rise of 10 points is a spike, whatever band it ends in.
TrustEvent(before, after) ==
    LET delta == after.score - before.score
        extra == ExtraEvents(before, after)
    IN  IF delta >= 10 THEN extra \cup {"trust.spike", "TRUST_SPIKE"}
        ELSE IF delta <= -15 \/ after.band \in {"restricted", "quarantined"}
        THEN extra \cup {"trust.collapse", "TRUST_COLLAPSE"}
        ELSE IF before.band \in {"watch", "restricted"} /\ BandAtLeast(after.band, "allowed")
        THEN extra \cup {"trust.recovered"}
        ELSE IF delta < 0 /\ ~after.fresh THEN extra \cup {"trust.decayed", "TRUST_DECAY"}
        ELSE IF extra # {} THEN extra \cup {"trust.recovered"}
        ELSE {}
=============================================================================
