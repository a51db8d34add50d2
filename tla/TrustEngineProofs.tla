------------------------- MODULE TrustEngineProofs -------------------------
(***************************************************************************)
(* What the trust engine and the routing compute, for any evidence, any    *)
(* candidates and any tables of issuers and infrastructures: a snapshot of *)
(* sound evidence has every dimension in its range, a QUARANTINE record    *)
(* denies, a denial has a reason, and those who are selected are among the *)
(* candidates and what the selection asks of them.                         *)
(***************************************************************************)
EXTENDS TrustRouting, ListProofs

\* A quotient rounded to the nearest is whole, and not negative unless the dividend is.
LEMMA RatioIsWhole ==
    ASSUME NEW a \in Int, NEW b \in Nat \ {0}
    PROVE  Ratio(a, b) \in Int /\ (a >= 0 => Ratio(a, b) \in Nat)
<1>1. 2 * b \in Nat \ {0} /\ 2 * a + b \in Int
  OBVIOUS
<1>2. ASSUME NEW x \in Int, NEW y \in Nat \ {0} PROVE x \div y \in Int /\ (x >= 0 => x \div y >= 0)
  OBVIOUS
<1>3. QED
  BY <1>1, <1>2 DEF Ratio

\* What is clamped to a share is one.
LEMMA FractionIsShare ==
    ASSUME NEW x \in Int
    PROVE  Fraction(x) \in 0..Unit
BY DEF Fraction, Clamp, Unit

\* The product of shares is whole.
LEMMA TimesIsWhole ==
    ASSUME NEW x \in Int, NEW y \in Int
    PROVE  Times(x, y) \in Int /\ (x >= 0 /\ y >= 0 => Times(x, y) \in Nat)
<1>1. x * y \in Int /\ (x >= 0 /\ y >= 0 => x * y >= 0)
  OBVIOUS
<1>2. QED
  BY <1>1, RatioIsWhole DEF Times, Unit

\* A share in percent is from 0 to 100.
LEMMA PercentIsWhole ==
    ASSUME NEW x \in 0..Unit
    PROVE  Percent(x) \in 0..100
BY DEF Percent, Ratio, Unit

\* One part of several is a share.
LEMMA RatioOfUnit ==
    ASSUME NEW n \in Nat \ {0}
    PROVE  Ratio(Unit, n) \in 0 .. Unit
<1>1. Ratio(Unit, n) \in Nat
  BY RatioIsWhole DEF Unit
<1>2. (2 * Unit + n) \div (2 * n) <= Unit
  <2>1. 2 * Unit + n < (2 * n) * (Unit + 1)
    BY DEF Unit
  <2>2. ASSUME NEW x \in Nat, NEW y \in Nat \ {0}, NEW z \in Nat, x < y * (z + 1) PROVE x \div y <= z
    <3>1. PICK q \in Int : q = x \div y
      OBVIOUS
    <3>2. y * q <= x
      BY <3>1
    <3>3. ASSUME q >= z + 1 PROVE y * q >= y * (z + 1)
      BY <3>3
    <3>4. QED
      BY <2>2, <3>1, <3>2, <3>3
  <2>3. QED
    BY <2>1, <2>2 DEF Unit
<1>3. QED
  BY <1>1, <1>2 DEF Ratio, Unit

\* Evidence of any age is fresh to a share.
LEMMA FreshnessIsShare ==
    ASSUME NEW age \in Nat
    PROVE  Freshness(age) \in 0 .. Unit
BY PowerIsPositive, RatioOfUnit DEF Freshness

-----------------------------------------------------------------------------
(* Evidence *)

\* A record as the engine may read it: its shares are shares, its weight is not negative,
\* and it names finitely many validators.
Sound(e) ==
    /\ e.quality \in 0 .. Unit /\ e.confidence \in 0 .. Unit /\ e.weight \in Nat
    /\ IsFiniteSet(e.passes) /\ IsFiniteSet(e.fails) /\ e.at \in Nat

\* A list of such records.
IsEvidence(w) == w \in Seq(Listed(w)) /\ \A i \in DOMAIN w : Sound(w[i])

\* Of a list of evidence any part is a finite set of places.
LEMMA PlacesAreFinite ==
    ASSUME NEW w, IsEvidence(w)
    PROVE  /\ DOMAIN w = 1 .. Len(w) /\ Len(w) \in Nat
           /\ \A S \in SUBSET (DOMAIN w) : IsFiniteSet(S) /\ Cardinality(S) \in Nat
<1>1. DOMAIN w = 1 .. Len(w) /\ Len(w) \in Nat
  BY DEF IsEvidence
<1>2. IsFiniteSet(DOMAIN w)
  BY <1>1, FS_Interval
<1>3. QED
  BY <1>1, <1>2, FS_Subset, FS_CardinalityType

\* The window of the newest is evidence too.
LEMMA NewestIsEvidence ==
    ASSUME NEW w, IsEvidence(w), NEW n \in Nat
    PROVE  IsEvidence(Newest(w, n))
<1> DEFINE v == Newest(w, n)
           k == IF Len(w) < n THEN Len(w) ELSE n
<1>1. w \in Seq(Listed(w)) /\ k \in 0 .. Len(w) /\ DOMAIN w = 1 .. Len(w)
  BY DEF IsEvidence
<1>2. v = SubSeq(w, 1, k)
  BY DEF Newest
<1> HIDE DEF v, k
<1>3. DOMAIN v = 1 .. k /\ Len(v) = k /\ \A i \in 1 .. k : v[i] = w[i] /\ i \in DOMAIN w
  BY <1>1, <1>2
<1>4. \A i \in DOMAIN v : Sound(v[i])
  BY <1>3, Zenon DEF IsEvidence
<1>5. v = [i \in 1 .. k |-> v[i]]
  BY <1>1, <1>2
<1>6. v \in Seq(Listed(v))
  <2>1. \A i \in 1 .. k : v[i] \in Listed(v)
    BY <1>3 DEF Listed
  <2>2. v \in [1 .. k -> Listed(v)]
    BY <1>5, <2>1
  <2>3. k \in Nat
    BY <1>1
  <2>4. QED
    BY <2>2, <2>3
<1>7. IsEvidence(v)
  BY <1>4, <1>6 DEF IsEvidence
<1>8. QED
  BY <1>7 DEF v

\* averageWeighted of naturals is one.
LEMMA AverageIsNatural ==
    ASSUME NEW S, IsFiniteSet(S), NEW wt, NEW product,
           \A i \in S : wt[i] \in Nat /\ product[i] \in Nat
    PROVE  (IF SumOver(wt, S) = 0 THEN 0 ELSE Ratio(SumOver(product, S), SumOver(wt, S))) \in Nat
<1>1. SumOver(wt, S) \in Nat /\ SumOver(product, S) \in Nat
  BY SumIsNatural
<1>2. QED
  BY <1>1, RatioIsWhole

\* No record counts for less than nothing in a rolling average.
LEMMA RollingWeightIsNatural ==
    ASSUME NEW w, IsEvidence(w), NEW i \in DOMAIN w
    PROVE  RollingWeight(w, i) \in Nat
<1>1. Len(w) \in Nat /\ i \in 1 .. Len(w)
  BY PlacesAreFinite
<1>2. (Len(w) + 2 - i) * Unit \in Int /\ (Len(w) + 2 - i) * Unit >= 0 /\ Len(w) + 1 \in Nat \ {0}
  BY <1>1 DEF Unit
<1>3. QED
  BY <1>2, RatioIsWhole DEF RollingWeight

\* Nor does a task among those the reliability is an average of.
LEMMA TaskWeightIsNatural ==
    ASSUME NEW w, IsEvidence(w), NEW i \in DOMAIN w
    PROVE  TaskWeight(w, i) \in Nat
<1>1. PICK x \in Nat : x = RollingWeight(w, i)
  BY RollingWeightIsNatural
<1>2. PICK y \in Nat : y = w[i].weight
  BY DEF IsEvidence, Sound
<1>3. Times(x, y) \in Nat
  BY TimesIsWhole
<1>4. QED
  BY <1>1, <1>2, <1>3, Zenon DEF TaskWeight

\* The reliability is a share, of whatever tasks.
LEMMA ReliabilityIsShare ==
    ASSUME NEW w, IsEvidence(w), NEW tasks \in SUBSET (DOMAIN w)
    PROVE  Reliability(w, tasks) \in 0 .. Unit
<1>1. IsFiniteSet(tasks)
  BY PlacesAreFinite
<1> DEFINE wt == [i \in tasks |-> TaskWeight(w, i)]
           good == [i \in tasks |-> TaskWeight(w, i) * w[i].quality]
           sure == [i \in tasks |-> TaskWeight(w, i) * w[i].confidence]
           prompt == [i \in tasks |-> TaskWeight(w, i) * (IF w[i].fast THEN Unit ELSE 4000)]
           done == [i \in tasks |-> IF w[i].type = "task.completed" THEN TaskWeight(w, i) ELSE 0]
           Mean(f) == IF SumOver(wt, tasks) = 0 THEN 0
                      ELSE Ratio(SumOver(f, tasks), SumOver(wt, tasks))
<1>2. ASSUME NEW i \in tasks
      PROVE  /\ wt[i] \in Nat /\ good[i] \in Nat /\ sure[i] \in Nat
             /\ prompt[i] \in Nat /\ done[i] \in Nat
  <2>1. TaskWeight(w, i) \in Nat /\ w[i].quality \in Nat /\ w[i].confidence \in Nat
    BY TaskWeightIsNatural DEF IsEvidence, Sound
  <2>2. \A x, y \in Nat : x * y \in Nat
    OBVIOUS
  <2>3. QED
    BY <2>1, <2>2 DEF Unit
<1>3. /\ Average(tasks, LAMBDA i : TaskWeight(w, i), LAMBDA i : w[i].quality) = Mean(good)
      /\ Average(tasks, LAMBDA i : TaskWeight(w, i), LAMBDA i : w[i].confidence) = Mean(sure)
      /\ Average(tasks, LAMBDA i : TaskWeight(w, i),
                 LAMBDA i : IF w[i].fast THEN Unit ELSE 4000) = Mean(prompt)
      /\ Total(LAMBDA i : TaskWeight(w, i), tasks) = SumOver(wt, tasks)
      /\ Total(LAMBDA i : IF w[i].type = "task.completed" THEN TaskWeight(w, i) ELSE 0, tasks)
           = SumOver(done, tasks)
  BY DEF Average, Total
<1>4. Mean(good) \in Nat /\ Mean(sure) \in Nat /\ Mean(prompt) \in Nat
  <2>1. /\ \A i \in tasks : wt[i] \in Nat /\ good[i] \in Nat
        /\ \A i \in tasks : wt[i] \in Nat /\ sure[i] \in Nat
        /\ \A i \in tasks : wt[i] \in Nat /\ prompt[i] \in Nat
    BY <1>2
  <2> HIDE DEF wt, good, sure, prompt
  <2>2. Mean(good) \in Nat
    BY <1>1, <2>1, AverageIsNatural, Zenon
  <2>3. Mean(sure) \in Nat
    BY <1>1, <2>1, AverageIsNatural, Zenon
  <2>4. Mean(prompt) \in Nat
    BY <1>1, <2>1, AverageIsNatural, Zenon
  <2>5. QED
    BY <2>2, <2>3, <2>4, Zenon
<1>5. PICK y \in Nat, x \in Nat : y = SumOver(wt, tasks) /\ x = SumOver(done, tasks)
  <2>1. \A i \in tasks : wt[i] \in Nat /\ done[i] \in Nat
    BY <1>2
  <2> HIDE DEF wt, done
  <2>2. SumOver(done, tasks) \in Nat
    BY <1>1, <2>1, SumIsNatural, Zenon
  <2>3. SumOver(wt, tasks) \in Nat
    BY <1>1, <2>1, SumIsNatural, Zenon
  <2>4. QED
    BY <2>2, <2>3, Zenon
<1>6. PICK z \in Nat : z = SuccessRate(w, tasks, y)
  <2>1. SuccessRate(w, tasks, y)
          = IF tasks = {} THEN Unit \div 2 ELSE Ratio(Unit * x, IF y < Unit THEN Unit ELSE y)
    BY <1>3, <1>5, Zenon DEF SuccessRate
  <2>2. PICK d \in Nat \ {0} : d = IF y < Unit THEN Unit ELSE y
    BY DEF Unit
  <2>3. PICK e \in Nat : e = Unit * x
    BY DEF Unit
  <2>4. Ratio(e, d) \in Nat /\ Unit \div 2 \in Nat
    BY RatioIsWhole DEF Unit
  <2>5. SuccessRate(w, tasks, y) = IF tasks = {} THEN Unit \div 2 ELSE Ratio(e, d)
    BY <2>1, <2>2, <2>3, Zenon
  <2>6. QED
    BY <2>4, <2>5
<1>7. PICK a \in Nat : a = Mean(good)
  BY <1>4, Zenon
<1>8. PICK b \in Nat : b = Mean(sure)
  BY <1>4, Zenon
<1>9. PICK c \in Nat : c = Mean(prompt)
  BY <1>4, Zenon
<1>10. Reliability(w, tasks) = Fraction(Ratio(35 * z + 30 * a + 20 * b + 15 * c, 100))
  BY <1>3, <1>5, <1>6, <1>7, <1>8, <1>9, Zenon DEF Reliability
<1>11. QED
  BY <1>10, RatioIsWhole, FractionIsShare

\* A record as somebody may have reported it: it may lack a weight.
Reported(e) ==
    /\ "weight" \in DOMAIN e
    /\ e.quality \in 0 .. Unit /\ e.confidence \in 0 .. Unit /\ e.weight \in Nat \cup {NaN}
    /\ IsFiniteSet(e.passes) /\ IsFiniteSet(e.fails) /\ e.at \in Nat

\* A list of such records.
IsReported(w) == w \in Seq(Listed(w)) /\ \A i \in DOMAIN w : Reported(w[i])

\* With a number for every weight, it is evidence.
LEMMA WeighedIsEvidence ==
    ASSUME NEW w, IsReported(w)
    PROVE  IsEvidence(Weighed(w))
<1> DEFINE v == Weighed(w)
<1>1. DOMAIN w = 1 .. Len(w) /\ Len(w) \in Nat
  BY DEF IsReported
<1>2. v = [i \in 1 .. Len(w) |-> [w[i] EXCEPT !.weight = IF w[i].weight = NaN THEN 0 ELSE w[i].weight]]
  BY <1>1 DEF Weighed
<1>3. ASSUME NEW i \in DOMAIN w PROVE Sound(v[i])
  <2>1. Reported(w[i])
    BY <1>3 DEF IsReported
  <2>2. v[i] = [w[i] EXCEPT !.weight = IF w[i].weight = NaN THEN 0 ELSE w[i].weight]
    BY <1>1, <1>2
  <2>3. /\ v[i].quality = w[i].quality /\ v[i].confidence = w[i].confidence
        /\ v[i].passes = w[i].passes /\ v[i].fails = w[i].fails /\ v[i].at = w[i].at
    BY <2>2
  <2>4. v[i].weight = IF w[i].weight = NaN THEN 0 ELSE w[i].weight
    BY <2>1, <2>2 DEF Reported
  <2>5. QED
    BY <2>1, <2>3, <2>4 DEF Reported, Sound
<1>4. \A i \in 1 .. Len(w) : v[i] \in Listed(v)
  BY <1>2 DEF Listed
<1>5. v \in Seq(Listed(v)) /\ DOMAIN v = DOMAIN w
  BY <1>1, <1>2, <1>4
<1>6. IsEvidence(v)
  BY <1>3, <1>5 DEF IsEvidence
<1>7. QED
  BY <1>6 DEF v

-----------------------------------------------------------------------------
(* The graph *)

\* Finitely many have vouched for a subject.
LEMMA VouchersAreFinite ==
    ASSUME NEW w, IsEvidence(w)
    PROVE  IsFiniteSet(Vouchers(w)) /\ Cardinality(Vouchers(w)) \in Nat
<1> DEFINE f == [i \in DOMAIN w |-> w[i].passes \cup w[i].fails]
<1>1. IsFiniteSet(DOMAIN w)
  BY PlacesAreFinite
<1>2. IsFiniteSet({f[i] : i \in DOMAIN w})
  <2> HIDE DEF f
  <2>1. QED
    BY <1>1, ImageIsFinite
<1>3. ASSUME NEW i \in DOMAIN w PROVE IsFiniteSet(f[i])
  <2>1. IsFiniteSet(w[i].passes) /\ IsFiniteSet(w[i].fails)
    BY DEF IsEvidence, Sound
  <2>2. QED
    BY <2>1, FS_Union
<1>4. \A T \in {f[i] : i \in DOMAIN w} : IsFiniteSet(T)
  BY <1>3
<1>5. {f[i] : i \in DOMAIN w} = {w[i].passes \cup w[i].fails : i \in DOMAIN w}
  OBVIOUS
<1> HIDE DEF f
<1>6. IsFiniteSet(UNION {f[i] : i \in DOMAIN w})
  BY <1>2, <1>4, FS_UNION
<1>7. QED
  BY <1>5, <1>6, FS_CardinalityType DEF Vouchers

\* They gave a number of verdicts,
LEMMA VerdictsAreNatural ==
    ASSUME NEW w, IsEvidence(w), NEW S, IsFiniteSet(S)
    PROVE  VerdictsOf(w, S) \in Nat
<1> DEFINE f == [v \in S |-> Verdicts(w, v)]
<1>1. \A v \in S : f[v] \in Nat
  <2>1. ASSUME NEW v \in S PROVE Verdicts(w, v) \in Nat
    BY PlacesAreFinite DEF Verdicts, CountOf, Positions
  <2>2. QED
    BY <2>1
<1>2. VerdictsOf(w, S) = SumOver(f, S)
  BY DEF VerdictsOf, Total
<1> HIDE DEF f
<1>3. QED
  BY <1>1, <1>2, SumIsNatural, Zenon

\* and so did the two that gave most of them.
LEMMA DominantIsNatural ==
    ASSUME NEW w, IsEvidence(w), NEW S, IsFiniteSet(S)
    PROVE  Dominant(w, S) \in Nat
<1> DEFINE P == {T \in SUBSET S : Cardinality(T) <= 2}
           f == [T \in P |-> VerdictsOf(w, T)]
           E == {f[T] : T \in P}
<1>1. IsFiniteSet(P)
  <2>1. IsFiniteSet(SUBSET S) /\ P \subseteq SUBSET S
    BY FS_SUBSET
  <2>2. QED
    BY <2>1, FS_Subset
<1>2. \A T \in P : f[T] \in Nat
  <2>1. ASSUME NEW T \in P PROVE VerdictsOf(w, T) \in Nat
    <3>1. IsFiniteSet(T)
      BY FS_Subset
    <3>2. QED
      BY <3>1, VerdictsAreNatural
  <2>2. QED
    BY <2>1
<1>3. {} \in P
  BY FS_EmptySet
<1>4. E = {VerdictsOf(w, T) : T \in P}
  OBVIOUS
<1>5. Dominant(w, S) = Max(E)
  BY <1>4 DEF Dominant
<1> HIDE DEF P, f
<1>6. IsFiniteSet(E) /\ E \subseteq Nat /\ E # {}
  BY <1>1, <1>2, <1>3, ImageIsFinite
<1> HIDE DEF E
<1>7. \E m \in E : \A x \in E : m >= x
  <2>1. E \subseteq Int
    BY <1>6
  <2>2. QED
    BY <1>6, <2>1, MaxExists, Zenon
<1>8. Max(E) \in E
  BY <1>7, Zenon DEF Max
<1>9. QED
  BY <1>5, <1>6, <1>8

\* What the engine finds in the graph of vouchers: numbers, not capped but for
\* the diversity.
IsGraph(g) ==
    /\ g.verdicts \in Nat /\ g.diversity \in 0 .. Unit /\ g.mutual \in Int
    /\ g.closed \in Nat /\ g.reversals \in Nat /\ g.issuer \in Nat /\ g.infra \in Nat

\* What is computed from who vouches for whom are shares and numbers.
LEMMA GraphIsGraph ==
    ASSUME NEW s, NEW w, IsEvidence(w), NEW known
    PROVE  IsGraph(Graph(s, w, known))
<1> DEFINE V == Vouchers(w)
           Share(n, sum) == IF sum = 0 THEN 0 ELSE Ratio(n * Unit, sum)
           Some(pairs) == {v \in V \cap known : <<s, v>> \in pairs}
           back == CountOf(w, LAMBDA e : e.type = "validation.reversed")
<1>1. IsFiniteSet(V) /\ Cardinality(V) \in Nat
  BY VouchersAreFinite
<1> HIDE DEF V
<1>2. PICK sum \in Nat : sum = VerdictsOf(w, V)
  BY <1>1, VerdictsAreNatural
<1>3. PICK top \in Nat : top = Dominant(w, V)
  BY <1>1, DominantIsNatural
<1>4. PICK b \in Nat : b = back
  BY PlacesAreFinite DEF CountOf, Positions
<1>5. PICK issuer \in Nat : issuer = VerdictsOf(w, Some(SameIssuer \ Neutral))
  <2>1. Some(SameIssuer \ Neutral) \in SUBSET V
    OBVIOUS
  <2>2. IsFiniteSet(Some(SameIssuer \ Neutral))
    BY <1>1, <2>1, FS_Subset
  <2>3. QED
    BY <2>2, VerdictsAreNatural
<1>6. PICK infra \in Nat : infra = VerdictsOf(w, Some(SameInfra))
  <2>1. Some(SameInfra) \in SUBSET V
    OBVIOUS
  <2>2. IsFiniteSet(Some(SameInfra))
    BY <1>1, <2>1, FS_Subset
  <2>3. QED
    BY <2>2, VerdictsAreNatural
<1>7. PICK n \in Nat : n = Cardinality(V)
  BY <1>1
<1>8. Graph(s, w, known) = [verdicts |-> sum,
                     diversity |-> Fraction(Ratio(n * Unit, 3)),
                     mutual |-> Share(sum - n, sum),
                     closed |-> Share(top, sum),
                     reversals |-> Share(b, sum),
                     issuer |-> Share(issuer, sum),
                     infra |-> Share(infra, sum)]
  BY <1>2, <1>3, <1>4, <1>5, <1>6, <1>7, Zenon DEF Graph, GraphOf, V
<1>9. ASSUME NEW x \in Int PROVE Share(x, sum) \in Int /\ (x >= 0 => Share(x, sum) \in Nat)
  <2>1. PICK y \in Int : y = x * Unit
    BY DEF Unit
  <2>2. x >= 0 => y >= 0
    BY <2>1 DEF Unit
  <2>3. sum # 0 => Ratio(y, sum) \in Int /\ (y >= 0 => Ratio(y, sum) \in Nat)
    BY RatioIsWhole
  <2>4. QED
    BY <2>1, <2>2, <2>3
<1>10. Fraction(Ratio(n * Unit, 3)) \in 0 .. Unit
  <2>1. n * Unit \in Int
    BY DEF Unit
  <2>2. QED
    BY <2>1, RatioIsWhole, FractionIsShare
<1>11. sum - n \in Int
  OBVIOUS
<1> HIDE DEF Share
<1>12. QED
  BY <1>8, <1>9, <1>10, <1>11 DEF IsGraph

-----------------------------------------------------------------------------
(* The measures *)

\* Records of a type are counted.
LEMMA OccurrencesAreNatural ==
    ASSUME NEW w, IsEvidence(w), NEW types
    PROVE  Occurrences(w, types) \in Nat
BY PlacesAreFinite DEF Occurrences, CountOf, Positions

\* The accuracy of validations is a share, with and without validations.
LEMMA AccuracyIsShare ==
    ASSUME NEW w, IsEvidence(w), NEW m, IsEvidence(m), NEW n \in Nat
    PROVE  Accuracy(w, m, n) \in 0 .. Unit
<1>1. PICK a \in Nat : a = Occurrences(m, {"validation.passed"})
  BY OccurrencesAreNatural
<1>2. PICK b \in Nat : b = CountOf(w, LAMBDA e : e.passes # {})
  BY PlacesAreFinite DEF CountOf, Positions
<1>3. PICK c \in Nat \ {0} : c = n + AtLeastOne(Len(w))
  BY PlacesAreFinite DEF AtLeastOne
<1>4. Accuracy(w, m, n) = IF n = 0 THEN Unit \div 2 ELSE Fraction(Ratio(Unit * (a + b), c))
  BY <1>1, <1>2, <1>3, Zenon DEF Accuracy
<1>5. PICK d \in Int : d = Unit * (a + b)
  BY DEF Unit
<1>6. Ratio(d, c) \in Int
  BY RatioIsWhole
<1>7. Fraction(Ratio(d, c)) \in 0 .. Unit
  BY <1>6, FractionIsShare
<1>8. Unit \div 2 \in 0 .. Unit
  BY DEF Unit
<1>9. QED
  BY <1>4, <1>5, <1>7, <1>8

\* Agreement is not negative.
LEMMA ConsensusIsNatural ==
    ASSUME NEW w, IsEvidence(w)
    PROVE  Consensus(w) \in Nat
<1> DEFINE D == DOMAIN w
           Agreement(i) ==
              IF w[i].passes = {} /\ w[i].fails = {} THEN Unit \div 2
              ELSE Ratio(Cardinality(w[i].passes) * Unit,
                         Cardinality(w[i].passes) + Cardinality(w[i].fails))
           wt == [i \in D |-> RollingWeight(w, i)]
           agreed == [i \in D |-> RollingWeight(w, i) * Agreement(i)]
           mean == IF SumOver(wt, D) = 0 THEN 0 ELSE Ratio(SumOver(agreed, D), SumOver(wt, D))
<1>1. ASSUME NEW i \in D PROVE Agreement(i) \in Nat
  <2>1. IsFiniteSet(w[i].passes) /\ IsFiniteSet(w[i].fails)
    BY DEF IsEvidence, Sound
  <2>2. PICK p \in Nat : p = Cardinality(w[i].passes)
    BY <2>1, FS_CardinalityType
  <2>3. PICK q \in Nat : q = Cardinality(w[i].fails)
    BY <2>1, FS_CardinalityType
  <2>4. ~ (w[i].passes = {} /\ w[i].fails = {}) => p + q \in Nat \ {0}
    BY <2>1, <2>2, <2>3, FS_EmptySet
  <2>5. p + q # 0 => Ratio(p * Unit, p + q) \in Nat
    <3>1. PICK x \in Nat : x = p * Unit
      BY DEF Unit
    <3>2. p + q # 0 => Ratio(x, p + q) \in Nat
      BY RatioIsWhole
    <3>3. QED
      BY <3>1, <3>2
  <2>6. Unit \div 2 \in Nat
    BY DEF Unit
  <2>7. Agreement(i) = IF w[i].passes = {} /\ w[i].fails = {} THEN Unit \div 2
                       ELSE Ratio(p * Unit, p + q)
    BY <2>2, <2>3, Zenon
  <2>8. QED
    BY <2>4, <2>5, <2>6, <2>7
<1>2. Consensus(w) = IF w = <<>> THEN Unit \div 2 ELSE mean
  BY DEF Consensus, Average, Total
<1> HIDE DEF Agreement
<1>3. \A i \in D : wt[i] \in Nat /\ agreed[i] \in Nat
  <2>1. ASSUME NEW i \in D PROVE wt[i] \in Nat /\ agreed[i] \in Nat
    <3>1. PICK x \in Nat : x = RollingWeight(w, i)
      BY RollingWeightIsNatural
    <3>2. PICK y \in Nat : y = Agreement(i)
      BY <1>1
    <3>3. x * y \in Nat
      OBVIOUS
    <3>4. QED
      BY <3>1, <3>2, <3>3
  <2>2. QED
    BY <2>1
<1>4. IsFiniteSet(D)
  BY PlacesAreFinite
<1> HIDE DEF wt, agreed, D
<1>5. mean \in Nat
  BY <1>3, <1>4, AverageIsNatural, Zenon
<1>6. QED
  BY <1>2, <1>5 DEF Unit

\* The quality of validations is a share.
LEMMA ValidationQualityIsShare ==
    ASSUME NEW w, IsEvidence(w), NEW g, IsGraph(g)
    PROVE  ValidationQuality(w, g) \in 0 .. Unit
<1> DEFINE recent == Newest(w, Recent)
           medium == Newest(w, Medium)
<1>1. IsEvidence(recent) /\ IsEvidence(medium)
  BY NewestIsEvidence, WindowsAssumption
<1> HIDE DEF recent, medium
<1>2. PICK a \in Int : a = Accuracy(recent, medium, Occurrences(medium, ValidationTypes))
  <2>1. PICK n \in Nat : n = Occurrences(medium, ValidationTypes)
    BY <1>1, OccurrencesAreNatural
  <2>2. Accuracy(recent, medium, n) \in 0 .. Unit
    BY <1>1, AccuracyIsShare
  <2>3. QED
    BY <2>1, <2>2
<1>3. PICK c \in Int : c = Consensus(recent)
  BY <1>1, ConsensusIsNatural
<1>4. PICK cap \in Int : cap = IF g.diversity < Unit
                               THEN Clamp(3500, 5500 + Times(g.diversity, 4500), Unit) ELSE Unit
  <2>1. PICK d \in Int : d = g.diversity
    BY DEF IsGraph
  <2>2. Times(d, 4500) \in Int
    BY TimesIsWhole
  <2>3. (IF d < Unit THEN Clamp(3500, 5500 + Times(d, 4500), Unit) ELSE Unit) \in Int
    BY <2>2 DEF Clamp, Unit
  <2>4. QED
    BY <2>1, <2>3
<1>5. PICK d \in Int : d = g.diversity
  BY DEF IsGraph
<1>6. PICK r \in Int : r = Fraction(Unit - g.reversals)
  <2>1. PICK x \in Int : x = Unit - g.reversals
    BY DEF IsGraph, Unit
  <2>2. Fraction(x) \in 0 .. Unit
    BY FractionIsShare
  <2>3. QED
    BY <2>1, <2>2
<1>7. ValidationQuality(w, g) =
         Fraction(Times(Ratio(45 * a + 25 * c + 20 * d + 10 * r, 100), cap))
  <2>1. ValidationQuality(w, g) = ValidationQualityOf(recent, medium, g)
    BY DEF ValidationQuality, recent, medium
  <2>2. ValidationQualityOf(recent, medium, g) =
          Fraction(Times(Ratio(45 * Accuracy(recent, medium, Occurrences(medium, ValidationTypes))
                                 + 25 * Consensus(recent) + 20 * g.diversity
                                 + 10 * Fraction(Unit - g.reversals), 100),
                         IF g.diversity < Unit
                         THEN Clamp(3500, 5500 + Times(g.diversity, 4500), Unit) ELSE Unit))
    BY DEF ValidationQualityOf
  <2>3. 45 * Accuracy(recent, medium, Occurrences(medium, ValidationTypes))
          + 25 * Consensus(recent) + 20 * g.diversity + 10 * Fraction(Unit - g.reversals)
            = 45 * a + 25 * c + 20 * d + 10 * r
    BY <1>2, <1>3, <1>5, <1>6, Zenon
  <2>4. QED
    BY <1>4, <2>1, <2>2, <2>3
<1>8. PICK x \in Int : x = Ratio(45 * a + 25 * c + 20 * d + 10 * r, 100)
  BY RatioIsWhole
<1>9. Times(x, cap) \in Int
  BY TimesIsWhole
<1>10. QED
  BY <1>7, <1>8, <1>9, FractionIsShare

\* The competence in each domain is a share.
LEMMA CompetenceIsShare ==
    ASSUME NEW w, IsEvidence(w), NEW now \in Nat, NEW d \in DOMAIN Competence(w, now)
    PROVE  Competence(w, now)[d] \in 0 .. Unit
<1> DEFINE Placed == {i \in DOMAIN w : w[i].domain = d}
           Done == {i \in Placed : w[i].type = "task.completed"}
           worth == [i \in Placed |-> (w[i].quality + w[i].confidence) \div 2]
           ages == {Age(now, w[i].at) : i \in Placed}
<1>1. d \in {w[i].domain : i \in DOMAIN w} \ {NoDomain}
  BY DEF Competence
<1>2. Placed # {} /\ Placed \in SUBSET (DOMAIN w) /\ Done \in SUBSET (DOMAIN w)
  BY <1>1
<1>3. PICK n \in Nat \ {0} : n = Cardinality(Placed)
  BY <1>2, PlacesAreFinite, FS_EmptySet
<1>4. PICK k \in Nat : k = Cardinality(Done)
  BY <1>2, PlacesAreFinite
<1>5. PICK q \in Nat : q = SumOver(worth, Placed)
  <2>1. ASSUME NEW i \in Placed PROVE worth[i] \in Nat
    <3>1. w[i].quality \in Nat /\ w[i].confidence \in Nat
      BY DEF IsEvidence, Sound
    <3>2. QED
      BY <3>1
  <2>2. \A i \in Placed : worth[i] \in Nat
    BY <2>1
  <2>3. IsFiniteSet(Placed)
    BY <1>2, PlacesAreFinite
  <2> HIDE DEF worth, Placed
  <2>4. SumOver(worth, Placed) \in Nat
    BY <2>2, <2>3, SumIsNatural
  <2>5. QED
    BY <2>4
<1>6. PICK f \in Int : f = Freshness(Min(ages))
  <2>1. ages \subseteq Nat /\ ages # {}
    BY <1>2 DEF Age, IsEvidence, Sound
  <2> HIDE DEF ages
  <2>2. \E m \in ages : \A x \in ages : m <= x
    BY <2>1, MinExists, Zenon
  <2>3. Min(ages) \in ages
    BY <2>2, Zenon DEF Min
  <2>4. PICK m \in Nat : m = Min(ages)
    BY <2>1, <2>3
  <2>5. Freshness(m) \in 0 .. Unit
    BY FreshnessIsShare
  <2>6. QED
    BY <2>4, <2>5
<1>7. Competence(w, now)[d] =
        Fraction(Ratio(50 * Ratio(k * Unit, n) + 30 * Ratio(q, n) + 20 * f, 100))
  <2>1. Competence(w, now)[d] =
          Fraction(Ratio(50 * Ratio(Cardinality(Done) * Unit, Cardinality(Placed))
                           + 30 * Ratio(SumOver(worth, Placed), Cardinality(Placed))
                           + 20 * Freshness(Min(ages)), 100))
    BY <1>1 DEF Competence, Positions, Total
  <2> HIDE DEF Done, Placed, worth, ages
  <2>2. QED
    BY <1>3, <1>4, <1>5, <1>6, <2>1
<1>8. PICK x \in Int : x = Ratio(k * Unit, n)
  <2>1. PICK y \in Int : y = k * Unit
    BY DEF Unit
  <2>2. Ratio(y, n) \in Int
    BY RatioIsWhole
  <2>3. QED
    BY <2>1, <2>2
<1>9. PICK y \in Int : y = Ratio(q, n)
  BY RatioIsWhole
<1>10. PICK z \in Int : z = Ratio(50 * x + 30 * y + 20 * f, 100)
  BY RatioIsWhole
<1>11. Fraction(z) \in 0 .. Unit
  BY FractionIsShare
<1>12. QED
  BY <1>7, <1>8, <1>9, <1>10, <1>11

\* What the evidence of a subject yields by itself.
IsMeasure(m) ==
    /\ {m.execution, m.validation, m.disputes, m.freshness, m.risk, m.exposed} \subseteq 0 .. Unit
    /\ \A d \in DOMAIN m.competence : m.competence[d] \in 0 .. Unit
    /\ m.quarantines \in Nat /\ m.volume \in Nat

\* The signal of risk is a share.
LEMMA RiskSignalIsShare ==
    ASSUME NEW w, IsEvidence(w)
    PROVE  RiskSignal(w) \in 0 .. Unit
<1> DEFINE f == [i \in DOMAIN w |-> Penalty(w[i].type)]
<1>1. \A i \in DOMAIN w : f[i] \in Nat
  BY DEF Penalty
<1>2. RiskSignal(w) = Fraction(Ratio(SumOver(f, DOMAIN w) * Unit, 120))
  BY DEF RiskSignal, Total
<1>3. IsFiniteSet(DOMAIN w)
  BY PlacesAreFinite
<1> HIDE DEF f
<1>4. PICK x \in Nat : x = SumOver(f, DOMAIN w)
  BY <1>1, <1>3, SumIsNatural
<1>5. PICK y \in Int : y = x * Unit
  BY DEF Unit
<1>6. Ratio(y, 120) \in Int
  BY RatioIsWhole
<1>7. QED
  BY <1>2, <1>4, <1>5, <1>6, FractionIsShare

\* So is the signal that the value of tasks exceeds what vouches for them.
LEMMA ExposedIsShare ==
    ASSUME NEW w, IsEvidence(w), NEW g, IsGraph(g)
    PROVE  Exposed(TaskValue(w), g) \in 0 .. Unit
<1> DEFINE T == Tasks(w)
           f == [i \in T |-> w[i].weight]
<1>1. T \in SUBSET (DOMAIN w)
  BY DEF Tasks, Positions
<1>2. \A i \in T : f[i] \in Nat
  BY <1>1 DEF IsEvidence, Sound
<1>3. TaskValue(w) = IF T = {} THEN Unit ELSE Ratio(SumOver(f, T), Cardinality(T))
  BY DEF TaskValue, Total
<1>4. IsFiniteSet(T) /\ Cardinality(T) \in Nat
  BY <1>1, PlacesAreFinite
<1> HIDE DEF T, f
<1>5. PICK value \in Int : value = TaskValue(w)
  <2>1. PICK x \in Nat : x = SumOver(f, T)
    BY <1>2, <1>4, SumIsNatural
  <2>2. PICK n \in Nat : n = Cardinality(T)
    BY <1>4
  <2>3. n # 0 => Ratio(x, n) \in Int
    BY RatioIsWhole
  <2>4. T # {} => n # 0
    BY <1>4, <2>2, FS_EmptySet
  <2>5. QED
    BY <1>3, <2>1, <2>2, <2>3, <2>4 DEF Unit
<1>6. PICK x \in Int : x = IF value < Unit THEN 0 ELSE value - Unit
  BY DEF Unit
<1>7. PICK y \in Int : y = Unit - g.diversity
  <2>1. Unit \in Int
    BY DEF Unit
  <2>2. g.diversity \in Int
    BY <2>1 DEF IsGraph
  <2>3. QED
    BY <2>1, <2>2
<1>8. PICK z \in Int : z = Times(x, y)
  BY TimesIsWhole
<1>9. Exposed(value, g) = Fraction(z)
  BY <1>6, <1>7, <1>8 DEF Exposed
<1>10. QED
  BY <1>5, <1>9, FractionIsShare

\* What is computed from the evidence are shares and numbers.
LEMMA MeasureIsMeasure ==
    ASSUME NEW w, IsEvidence(w), NEW now \in Nat, NEW g, IsGraph(g)
    PROVE  IsMeasure(Measure(w, now, g))
<1> DEFINE recent == Newest(w, Recent)
           medium == Newest(w, Medium)
           m == Measure(w, now, g)
<1>1. IsEvidence(recent) /\ IsEvidence(medium)
  BY NewestIsEvidence, WindowsAssumption
<1>2. m.execution \in 0 .. Unit
  <2>1. Tasks(recent) \in SUBSET (DOMAIN recent)
    BY DEF Tasks, Positions
  <2>2. m.execution = Reliability(recent, Tasks(recent))
    BY DEF Measure, ExecutionReliability
  <2> HIDE DEF recent, m
  <2>3. QED
    BY <1>1, <2>1, <2>2, ReliabilityIsShare
<1>3. m.validation \in 0 .. Unit
  BY ValidationQualityIsShare DEF Measure
<1>4. \A d \in DOMAIN m.competence : m.competence[d] \in 0 .. Unit
  <2>1. m.competence = Competence(medium, now)
    BY DEF Measure
  <2> HIDE DEF medium, m
  <2>2. QED
    BY <1>1, <2>1, CompetenceIsShare
<1>5. m.disputes \in 0 .. Unit
  <2>1. m.disputes = Fraction(Ratio(Occurrences(medium, DisputeTypes) * Unit,
                                    AtLeastOne(Len(medium))))
    BY DEF Measure
  <2> HIDE DEF medium, m
  <2>2. PICK x \in Nat : x = Occurrences(medium, DisputeTypes)
    BY <1>1, OccurrencesAreNatural
  <2>3. PICK n \in Nat \ {0} : n = AtLeastOne(Len(medium))
    BY <1>1, PlacesAreFinite DEF AtLeastOne
  <2>4. PICK y \in Int : y = x * Unit
    BY DEF Unit
  <2>5. PICK z \in Int : z = Ratio(y, n)
    BY RatioIsWhole
  <2>6. QED
    BY <2>1, <2>2, <2>3, <2>4, <2>5, FractionIsShare
<1>6. m.freshness \in 0 .. Unit
  <2>1. m.freshness = IF w = <<>> THEN 2000 ELSE Freshness(Age(now, w[1].at))
    BY DEF Measure
  <2>2. CASE w = <<>>
    BY <2>1, <2>2 DEF Unit
  <2>3. CASE w # <<>>
    <3>1. 1 \in DOMAIN w
      BY <2>3 DEF IsEvidence
    <3>2. PICK a \in Nat : a = Age(now, w[1].at)
      BY <3>1 DEF IsEvidence, Sound, Age
    <3>3. Freshness(a) \in 0 .. Unit
      BY FreshnessIsShare
    <3>4. QED
      BY <2>1, <2>3, <3>2, <3>3
  <2>4. QED
    BY <2>2, <2>3
<1>7. m.risk \in 0 .. Unit
  BY <1>1, RiskSignalIsShare DEF Measure
<1>8. m.exposed \in 0 .. Unit
  <2>1. m.exposed = Exposed(TaskValue(recent), g)
    BY DEF Measure
  <2> HIDE DEF recent, m
  <2>2. QED
    BY <1>1, <2>1, ExposedIsShare
<1>9. m.quarantines \in Nat /\ m.volume \in Nat
  <2>1. /\ m.quarantines = Occurrences(medium, {"QUARANTINE"})
        /\ m.volume = Occurrences(medium, TaskTypes) + Occurrences(medium, ValidationTypes)
                        + g.verdicts
    BY DEF Measure
  <2> HIDE DEF medium, m
  <2>2. g.verdicts \in Nat
    BY DEF IsGraph
  <2>3. Occurrences(medium, {"QUARANTINE"}) \in Nat
    BY <1>1, OccurrencesAreNatural
  <2>4. PICK a \in Nat : a = Occurrences(medium, TaskTypes)
    BY <1>1, OccurrencesAreNatural
  <2>5. PICK b \in Nat : b = Occurrences(medium, ValidationTypes)
    BY <1>1, OccurrencesAreNatural
  <2>6. a + b + g.verdicts \in Nat
    BY <2>2
  <2>7. QED
    BY <2>1, <2>3, <2>4, <2>5, <2>6
<1> HIDE DEF m
<1>10. IsMeasure(m)
  BY <1>2, <1>3, <1>4, <1>5, <1>6, <1>7, <1>8, <1>9 DEF IsMeasure
<1>11. QED
  BY <1>10 DEF m

-----------------------------------------------------------------------------
(* The snapshot *)

\* Every ratio of the snapshot is of a whole number.
LEMMA ShareOfRatio ==
    ASSUME NEW x \in Int
    PROVE  Fraction(Ratio(x, 100)) \in 0 .. Unit
<1>1. PICK y \in Int : y = Ratio(x, 100)
  BY RatioIsWhole
<1>2. QED
  BY <1>1, FractionIsShare

\* A stored snapshot has a version, with or without nulls.
LEMMA VersionOfStored ==
    ASSUME NEW x, IsStored(x)
    PROVE  x.version \in Nat \ {0}
<1>1. Read(x).version = x.version
  BY DEF Read, Without
<1>2. QED
  BY <1>1 DEF IsStored, IsSnapshot

\* The distance to the snapshot before is not negative.
LEMMA VolatilityIsWhole ==
    ASSUME NEW m, IsMeasure(m), NEW previous, previous = NoSnapshot \/ IsStored(previous)
    PROVE  Volatility(m, previous) \in Nat
<1>1. m.execution \in Nat
  BY DEF IsMeasure
<1>2. previous # NoSnapshot /\ previous.execution # Null => previous.execution \in Nat
  <2>1. ASSUME IsSnapshot(previous) PROVE previous.execution \in Nat
    BY <2>1 DEF IsSnapshot, Dimensions
  <2>2. QED
    BY <2>1 DEF IsStored
<1>3. QED
  BY <1>1, <1>2 DEF Volatility, Distance

\* What is put together from them is a snapshot.
LEMMA SnapshotIsSnapshot ==
    ASSUME NEW m, IsMeasure(m), NEW g, IsGraph(g), NEW volatility \in Nat,
           NEW version \in Nat \ {0}
    PROVE  IsSnapshot(Snapshot(version, m, g, volatility))
<1> DEFINE x == Snapshot(version, m, g, volatility)
<1>1. /\ {m.execution, m.validation, m.disputes, m.freshness, m.risk, m.exposed} \subseteq 0 .. Unit
      /\ \A d \in DOMAIN m.competence : m.competence[d] \in 0 .. Unit
      /\ m.quarantines \in Nat /\ m.volume \in Nat
  BY DEF IsMeasure
<1>2. /\ g.verdicts \in Nat /\ g.diversity \in 0 .. Unit /\ g.mutual \in Int
      /\ g.closed \in Nat /\ g.reversals \in Nat /\ g.issuer \in Nat /\ g.infra \in Nat
  BY DEF IsGraph
<1>0. PICK dual \in Int : dual = Unit - g.diversity
  <2>1. Unit \in Int
    BY DEF Unit
  <2>2. g.diversity \in Int
    BY <1>2, <2>1
  <2>3. QED
    BY <2>1, <2>2
<1>3. Sockpuppet(g) \in 0 .. Unit
  <2>1. PICK y \in Int : y = 45 * g.issuer + 35 * g.infra + 20 * dual
    BY <1>2
  <2>2. QED
    BY <1>0, <2>1, ShareOfRatio DEF Sockpuppet
<1>4. Bribery(m, g) \in 0 .. Unit
  <2>1. PICK y \in Int : y = 45 * m.exposed + 30 * g.mutual + 25 * g.reversals
    BY <1>1, <1>2
  <2>2. QED
    BY <2>1, ShareOfRatio DEF Bribery
<1>5. Anomaly(m, g, volatility) \in 0 .. Unit
  <2>1. PICK y \in Int : y = 40 * volatility + 30 * m.exposed + 30 * g.closed
    BY <1>1, <1>2
  <2>2. QED
    BY <2>1, ShareOfRatio DEF Anomaly
<1>6. CollusionRisk(g) \in 0 .. Unit
  <2>1. PICK y \in Int : y = 40 * g.mutual + 20 * g.closed + 15 * dual
                                + 15 * g.issuer + 10 * g.infra
    BY <1>2
  <2>2. QED
    BY <1>0, <2>1, ShareOfRatio DEF CollusionRisk
<1>7. Fraction(Ratio(14 * g.reversals, 10) + m.disputes) \in 0 .. Unit
  <2>1. PICK y \in Int : y = 14 * g.reversals
    BY <1>2
  <2>2. PICK z \in Int : z = Ratio(y, 10)
    BY RatioIsWhole
  <2>3. PICK u \in Int : u = z + m.disputes
    BY <1>1
  <2>4. QED
    BY <2>1, <2>2, <2>3, FractionIsShare
<1>8. Fraction(Unit - volatility) \in 0 .. Unit
  <2>1. PICK y \in Int : y = Unit - volatility
    BY DEF Unit
  <2>2. QED
    BY <2>1, FractionIsShare
<1>9. x.economicIntegrity \in 0 .. 100
  <2>0. Unit \in Int
    BY DEF Unit
  <2>1. PICK y \in Int : y = 40 * m.execution + 25 * m.validation + 20 * (Unit - m.disputes)
                                + 15 * (Unit - m.risk)
    BY <1>1, <2>0
  <2>2. x.economicIntegrity = Percent(Fraction(Ratio(y, 100)))
    BY <2>1 DEF Snapshot
  <2>3. PICK z \in 0 .. Unit : z = Fraction(Ratio(y, 100))
    BY ShareOfRatio
  <2>4. QED
    BY <2>2, <2>3, PercentIsWhole
<1>10. x.adversarialRisk \in 0 .. 100
  <2>1. PICK r \in Int : r = Ratio(7 * m.risk, 10)
    <3>1. PICK y \in Int : y = 7 * m.risk
      BY <1>1
    <3>2. QED
      BY <3>1, RatioIsWhole
  <2>2. PICK a \in Int : a = Anomaly(m, g, volatility) + r
    BY <1>5
  <2>3. PICK c \in Int : c = Fraction(a)
    BY FractionIsShare
  <2>4. PICK y \in Int : y = 40 * CollusionRisk(g) + 25 * Sockpuppet(g) + 20 * Bribery(m, g) + 15 * c
    BY <1>3, <1>4, <1>6
  <2>5. x.adversarialRisk = Percent(Fraction(Ratio(y, 100)))
    BY <2>1, <2>2, <2>3, <2>4 DEF Snapshot
  <2>6. PICK z \in 0 .. Unit : z = Fraction(Ratio(y, 100))
    BY ShareOfRatio
  <2>7. QED
    BY <2>5, <2>6, PercentIsWhole
<1>11. /\ x.version = version /\ x.identity = 9600 /\ x.execution = m.execution
       /\ x.validation = m.validation /\ x.stability = Fraction(Unit - volatility)
       /\ x.competence = m.competence /\ x.disputes = m.disputes /\ x.freshness = m.freshness
       /\ x.diversity = g.diversity /\ x.reversals = g.reversals /\ x.issuer = g.issuer
       /\ x.infra = g.infra /\ x.closed = g.closed /\ x.collusion = CollusionRisk(g)
       /\ x.asymmetry = Fraction(Ratio(14 * g.reversals, 10) + m.disputes)
       /\ x.sockpuppet = Sockpuppet(g) /\ x.bribery = Bribery(m, g)
       /\ x.anomaly = Anomaly(m, g, volatility)
       /\ x.quarantines = m.quarantines /\ x.volume = m.volume
  BY DEF Snapshot
<1> HIDE DEF x
<1>12. \A d \in Dimensions : x[d] \in 0 .. Unit
  <2>1. /\ x.execution \in 0 .. Unit /\ x.validation \in 0 .. Unit /\ x.disputes \in 0 .. Unit
        /\ x.freshness \in 0 .. Unit /\ x.diversity \in 0 .. Unit
    BY <1>1, <1>2, <1>11
  <2>2. /\ x.stability \in 0 .. Unit /\ x.collusion \in 0 .. Unit /\ x.asymmetry \in 0 .. Unit
        /\ x.sockpuppet \in 0 .. Unit /\ x.bribery \in 0 .. Unit /\ x.anomaly \in 0 .. Unit
    BY <1>3, <1>4, <1>5, <1>6, <1>7, <1>8, <1>11
  <2>3. x.identity \in 0 .. Unit
    BY <1>11 DEF Unit
  <2>4. QED
    BY <2>1, <2>2, <2>3 DEF Dimensions
<1>13. IsSnapshot(x)
  BY <1>1, <1>2, <1>9, <1>10, <1>11, <1>12 DEF IsSnapshot
<1>14. QED
  BY <1>13 DEF x

\* What has all its numbers lacks none.
LEMMA SnapshotIsComplete ==
    ASSUME NEW x, IsSnapshot(x)
    PROVE  x.execution # NaN /\ x.execution # Null /\ x.adversarialRisk # Null /\ Read(x) = x
<1>1. x.execution \in Int /\ x.adversarialRisk \in Int
  BY DEF IsSnapshot, Dimensions
<1>2. QED
  BY <1>1, NumbersAssumption DEF Read

\* What is stored is a snapshot once its nulls are read.
LEMMA StoredIsReadable ==
    ASSUME NEW x, IsStored(x)
    PROVE  x.execution # NaN /\ IsSnapshot(Read(x))
<1>1. CASE IsSnapshot(x)
  BY <1>1, SnapshotIsComplete
<1>2. CASE ~ IsSnapshot(x)
  BY <1>2, NumbersAssumption DEF IsStored
<1>3. QED
  BY <1>1, <1>2

\* A snapshot put together from its parts has the fields it is meant to have.
LEMMA SnapshotHasFields ==
    ASSUME NEW version, NEW m, NEW g, NEW volatility, NEW x, x = Snapshot(version, m, g, volatility)
    PROVE  {"execution", "stability", "bribery", "anomaly", "economicIntegrity",
            "adversarialRisk"} \subseteq DOMAIN x
BY DEF Snapshot

\* What loses its weights is stored with nulls, which read as a snapshot again.
LEMMA LostIsStored ==
    ASSUME NEW x, IsSnapshot(x), {"execution", "stability", "bribery", "anomaly",
              "economicIntegrity", "adversarialRisk"} \subseteq DOMAIN x
    PROVE  /\ Without(x, NaN).execution = NaN
           /\ IsStored(Saved(Without(x, NaN)))
<1> DEFINE y == Without(x, NaN)
           z == Without(y, Null)
           r == Read(z)
<1>1. y.execution = NaN
  BY DEF Without
<1>2. Saved(y) = z
  BY <1>1 DEF Saved
<1>3. {z.execution, z.stability, z.bribery, z.anomaly, z.economicIntegrity, z.adversarialRisk}
        = {Null}
  BY DEF Without
<1>4. /\ z.version = x.version /\ z.identity = x.identity /\ z.validation = x.validation
      /\ z.competence = x.competence /\ z.disputes = x.disputes /\ z.freshness = x.freshness
      /\ z.diversity = x.diversity /\ z.reversals = x.reversals /\ z.issuer = x.issuer
      /\ z.infra = x.infra /\ z.closed = x.closed /\ z.collusion = x.collusion
      /\ z.asymmetry = x.asymmetry /\ z.sockpuppet = x.sockpuppet
      /\ z.quarantines = x.quarantines /\ z.volume = x.volume
  BY DEF Without
<1>5. {"execution", "stability", "bribery", "anomaly", "economicIntegrity", "adversarialRisk"}
        \subseteq DOMAIN z
  BY DEF Without
<1> HIDE DEF z
<1>6. r = [Without(z, 0) EXCEPT !.economicIntegrity = 55, !.adversarialRisk = Percent(z.collusion)]
  BY <1>3 DEF Read
<1>7. /\ r.version = x.version /\ r.identity = x.identity /\ r.validation = x.validation
      /\ r.competence = x.competence /\ r.disputes = x.disputes /\ r.freshness = x.freshness
      /\ r.diversity = x.diversity /\ r.reversals = x.reversals /\ r.issuer = x.issuer
      /\ r.infra = x.infra /\ r.closed = x.closed /\ r.collusion = x.collusion
      /\ r.asymmetry = x.asymmetry /\ r.sockpuppet = x.sockpuppet
      /\ r.quarantines = x.quarantines /\ r.volume = x.volume
  BY <1>4, <1>6 DEF Without
<1>8. /\ r.execution = 0 /\ r.stability = 0 /\ r.bribery = 0 /\ r.anomaly = 0
      /\ r.economicIntegrity = 55 /\ r.adversarialRisk = Percent(x.collusion)
  BY <1>4, <1>5, <1>6 DEF Without
<1> HIDE DEF r
<1>9. \A d \in Dimensions : x[d] \in 0 .. Unit
  BY DEF IsSnapshot
<1>10. x.collusion \in 0 .. Unit
  BY <1>9 DEF Dimensions
<1>11. r.adversarialRisk \in 0 .. 100 /\ r.economicIntegrity \in 0 .. 100
  BY <1>8, <1>10, PercentIsWhole
<1>12. \A d \in Dimensions : r[d] \in 0 .. Unit
  <2>1. /\ x.identity \in 0 .. Unit /\ x.validation \in 0 .. Unit /\ x.disputes \in 0 .. Unit
        /\ x.freshness \in 0 .. Unit /\ x.diversity \in 0 .. Unit /\ x.collusion \in 0 .. Unit
        /\ x.asymmetry \in 0 .. Unit /\ x.sockpuppet \in 0 .. Unit
    BY <1>9 DEF Dimensions
  <2>2. 0 \in 0 .. Unit
    BY DEF Unit
  <2>3. QED
    BY <1>7, <1>8, <2>1, <2>2 DEF Dimensions
<1>13. IsSnapshot(r)
  BY <1>7, <1>11, <1>12 DEF IsSnapshot
<1>14. IsStored(z)
  BY <1>3, <1>13 DEF IsStored, r
<1>15. QED
  BY <1>1, <1>2, <1>14

\* computeSnapshot makes a snapshot of any evidence, and it lacks numbers only for a
\* task in the recent window that has no weight.
THEOREM SnapshotsAreSnapshots ==
    ASSUME NEW s, NEW w, IsReported(w), NEW now \in Nat, NEW known,
           NEW previous, previous = NoSnapshot \/ IsStored(previous)
    PROVE  LET x == ComputeSnapshot(s, w, now, previous, known) IN
           /\ IF Weightless(Newest(w, Recent)) THEN x.execution = NaN ELSE IsSnapshot(x)
           /\ IsStored(Saved(x))
<1>0. PICK e : e = Weighed(w) /\ IsEvidence(e)
  BY WeighedIsEvidence
<1>1. PICK g : g = Graph(s, Newest(e, Medium), known)
  OBVIOUS
<1>2. IsGraph(g)
  BY <1>0, <1>1, NewestIsEvidence, GraphIsGraph, WindowsAssumption
<1>3. PICK m : m = Measure(e, now, g)
  OBVIOUS
<1>4. IsMeasure(m)
  BY <1>0, <1>2, <1>3, MeasureIsMeasure
<1>5. PICK v \in Nat : v = Volatility(m, previous)
  BY <1>4, VolatilityIsWhole
<1>6. PICK n \in Nat \ {0} : n = NextVersion(previous)
  <2>1. IsStored(previous) => previous.version \in Nat
    BY VersionOfStored
  <2>2. QED
    BY <2>1 DEF NextVersion, NoSnapshot
<1>7. PICK full : full = Snapshot(n, m, g, v)
  OBVIOUS
<1>8. IsSnapshot(full)
  BY <1>2, <1>4, <1>7, SnapshotIsSnapshot
<1>9. PICK lost \in BOOLEAN : lost = Weightless(Newest(w, Recent))
  BY Zenon DEF Weightless
<1>10. ComputeSnapshot(s, w, now, previous, known) = WeighIn(full, lost)
  BY <1>0, <1>1, <1>3, <1>5, <1>6, <1>7, <1>9, Zenon DEF ComputeSnapshot, SnapshotWith, SnapshotFrom
<1>11. CASE lost
  <2>1. WeighIn(full, lost) = Without(full, NaN)
    BY <1>11 DEF WeighIn
  <2>2. Without(full, NaN).execution = NaN /\ IsStored(Saved(Without(full, NaN)))
    BY <1>7, <1>8, SnapshotHasFields, LostIsStored
  <2>3. QED
    BY <1>9, <1>10, <1>11, <2>1, <2>2
<1>12. CASE ~ lost
  <2>1. WeighIn(full, lost) = full
    BY <1>12 DEF WeighIn
  <2>2. Saved(full) = full
    BY <1>8, SnapshotIsComplete DEF Saved
  <2>3. QED
    BY <1>8, <1>9, <1>10, <1>12, <2>1, <2>2 DEF IsStored
<1>13. QED
  BY <1>11, <1>12

-----------------------------------------------------------------------------
(* The resolution *)

\* How a snapshot fits a context and a domain are shares.
LEMMA FitIsShare ==
    ASSUME NEW x, IsSnapshot(x), NEW context
    PROVE  /\ ContextFit(x, context) \in 0 .. Unit
           /\ DomainFit(x, context.domain, 2000) \in 0 .. Unit
<1>1. \A d \in DOMAIN x.competence : x.competence[d] \in 0 .. Unit
  BY DEF IsSnapshot
<1>2. 3500 \in 0 .. Unit /\ 1200 \in 0 .. Unit /\ 2000 \in 0 .. Unit
  BY DEF Unit
<1>3. QED
  BY <1>1, <1>2 DEF ContextFit, DomainFit

\* The score is from 0 to 100.
LEMMA ScoreIsPercentage ==
    ASSUME NEW x, IsSnapshot(x), NEW adversarial \in Int, NEW context
    PROVE  Score(x, adversarial, context) \in 0 .. 100
<1>1. PICK fit \in Int : fit = ContextFit(x, context)
  BY FitIsShare
<1>2. /\ x.identity \in Int /\ x.execution \in Int /\ x.validation \in Int /\ x.freshness \in Int
      /\ x.stability \in Int /\ x.disputes \in Int /\ x.asymmetry \in Int
      /\ x.collusion \in Int /\ x.sockpuppet \in Int /\ x.bribery \in Int /\ x.anomaly \in Int
  BY DEF IsSnapshot, Dimensions
<1>3. adversarial \in Int
  OBVIOUS
<1>4. PICK a \in Int : a = 55 * x.collusion + 20 * x.sockpuppet + 15 * x.bribery + 10 * x.anomaly
  BY <1>2
<1>5. PICK suspicion \in Int : suspicion = Fraction(Ratio(a, 100))
  BY ShareOfRatio
<1>6. Unit \in Int
  BY DEF Unit
<1>7. PICK raw \in Int :
         raw = 20 * Unit + 15 * x.identity + 20 * x.execution + 15 * x.validation + 15 * fit
                 + 10 * x.freshness + 10 * x.stability - 20 * x.disputes - 12 * x.asymmetry
                 - 25 * suspicion - 10 * (Unit - x.freshness) - 1200 * 20
                 - 1500 * adversarial
  <2>1. PICK good \in Int :
           good = 20 * Unit + 15 * x.identity + 20 * x.execution + 15 * x.validation + 15 * fit
                    + 10 * x.freshness + 10 * x.stability
    BY <1>2, <1>6
  <2>2. PICK bad \in Int : bad = 20 * x.disputes + 12 * x.asymmetry + 25 * suspicion
    BY <1>2
  <2>3. PICK risk \in Int : risk = 10 * (Unit - x.freshness) + 1200 * 20 + 1500 * adversarial
    BY <1>2, <1>3, <1>6
  <2>4. PICK raw \in Int : raw = good - bad - risk
    OBVIOUS
  <2>5. raw = 20 * Unit + 15 * x.identity + 20 * x.execution + 15 * x.validation + 15 * fit
                + 10 * x.freshness + 10 * x.stability - 20 * x.disputes - 12 * x.asymmetry
                - 25 * suspicion - 10 * (Unit - x.freshness) - 1200 * 20
                - 1500 * adversarial
    BY <1>2, <1>3, <1>6, <2>1, <2>2, <2>3, <2>4, SMTT(60)
  <2>6. QED
    BY <2>4, <2>5
<1>8. Score(x, adversarial, context) = Ratio(Clamp(0, raw, 100 * Unit), Unit)
  BY <1>1, <1>4, <1>5, <1>7 DEF Score
<1>9. Ratio(Clamp(0, raw, 100 * Unit), Unit) \in 0 .. 100
  BY DEF Ratio, Clamp, Unit
<1>10. QED
  BY <1>8, <1>9

\* The confidence is whole.
LEMMA ConfidenceIsWhole ==
    ASSUME NEW x, IsSnapshot(x), NEW context
    PROVE  Confidence(x, context) \in Int
<1>1. PICK fit \in Int : fit = ContextFit(x, context)
  BY FitIsShare
<1>2. /\ x.freshness \in Int /\ x.diversity \in Int /\ x.disputes \in Int
      /\ x.sockpuppet \in Int /\ x.anomaly \in Int /\ x.volume \in Int /\ x.reversals \in Int
  BY DEF IsSnapshot, Dimensions
<1>3. PICK volume \in Int : volume = Fraction(x.volume * 500)
  <2>1. PICK y \in Int : y = x.volume * 500
    BY <1>2
  <2>2. QED
    BY <2>1, FractionIsShare
<1>4. PICK contradiction \in Int :
         contradiction = Fraction(x.disputes + Ratio(50 * x.reversals + 20 * x.sockpuppet
                                                       + 15 * x.anomaly, 100))
  <2>1. PICK y \in Int : y = 50 * x.reversals + 20 * x.sockpuppet + 15 * x.anomaly
    BY <1>2
  <2>2. PICK z \in Int : z = Ratio(y, 100)
    BY RatioIsWhole
  <2>3. PICK u \in Int : u = x.disputes + z
    BY <1>2
  <2>4. QED
    BY <2>1, <2>2, <2>3, FractionIsShare
<1>5. Unit \in Int
  BY DEF Unit
<1>6. PICK raw \in Int : raw = 35 * volume + 20 * x.freshness + 20 * x.diversity + 15 * fit
                                  + 10 * (Unit - contradiction)
  BY <1>2, <1>5
<1>7. PICK c \in Int : c = Fraction(Ratio(raw, 100))
  BY ShareOfRatio
<1>8. Confidence(x, context) = Ratio(c, 100)
  BY <1>1, <1>3, <1>4, <1>6, <1>7 DEF Confidence
<1>9. QED
  BY <1>8, RatioIsWhole

\* What a resolution says of a snapshot with a score, field by field.
LEMMA Resolved ==
    ASSUME NEW x, x.execution # NaN, NEW context
    PROVE  LET r == ComputeResolution(x, context)
               y == Read(x)
           IN  /\ r.score = Score(y, ScoredRisk(x), context) /\ r.confidence = Confidence(y, context)
               /\ r.band = ScoreBand(r.score) /\ r.state = TrustState(y, r.score)
               /\ r.decision = Decision(PolicyAction(y, r.state))
<1> DEFINE y == Read(x)
           score == Score(y, ScoredRisk(x), context)
<1>1. ComputeResolution(x, context) =
         Resolution(y, context, score, TrustState(y, score), PolicyAction(y, TrustState(y, score)))
  BY DEF ComputeResolution, ResolutionOf, ResolutionAt, ResolutionIn
<1> HIDE DEF y, score
<1>2. QED
  BY <1>1 DEF Resolution, y, score

\* And of one that has none.
LEMMA Unresolved ==
    ASSUME NEW x, x.execution = NaN, NEW context
    PROVE  LET r == ComputeResolution(x, context) IN
           /\ r.score = NaN /\ r.band = "quarantined" /\ r.state = UnscoredState(x)
           /\ r.decision = Decision(UnscoredAction(r.state))
BY DEF ComputeResolution, Unscored

\* The risk in the score is a number, read or not.
LEMMA ScoredRiskIsWhole ==
    ASSUME NEW x, IsStored(x)
    PROVE  ScoredRisk(x) \in Int
<1>1. ASSUME IsSnapshot(x) PROVE x.adversarialRisk \in Int
  BY <1>1 DEF IsSnapshot
<1>2. ~ IsSnapshot(x) => x.adversarialRisk = Null
  BY DEF IsStored
<1>3. QED
  BY <1>1, <1>2 DEF ScoredRisk

\* Every score has a band, and a low one is in the two lowest.
LEMMA BandOfScore ==
    ASSUME NEW score \in 0 .. 100
    PROVE  /\ ScoreBand(score) \in {"quarantined", "restricted", "watch", "allowed", "preferred",
                                    "privileged"}
           /\ score <= 35 => ScoreBand(score) \in {"quarantined", "restricted"}
<1>1. \/ score \in 90 .. 100 \/ score \in 75 .. 89 \/ score \in 60 .. 74
      \/ score \in 40 .. 59 \/ score \in 20 .. 39 \/ score \in 0 .. 19
  OBVIOUS
<1>2. QED
  BY <1>1 DEF ScoreBand

\* A subject with a QUARANTINE record in its window is denied, whatever its score
\* and even if it has none.
THEOREM QuarantineDenies ==
    ASSUME NEW x, NEW context, x.quarantines > 0
    PROVE  ComputeResolution(x, context).decision = "deny"
<1>1. Read(x).quarantines = x.quarantines
  BY DEF Read, Without
<1>2. CASE x.execution # NaN
  <2>1. PICK y : y = Read(x)
    OBVIOUS
  <2>2. PICK r : r = ComputeResolution(x, context)
    OBVIOUS
  <2>3. r.state = TrustState(y, r.score) /\ r.decision = Decision(PolicyAction(y, r.state))
    BY <1>2, <2>1, <2>2, Resolved
  <2>4. y.quarantines > 0
    BY <1>1, <2>1
  <2>5. QED
    BY <2>2, <2>3, <2>4 DEF TrustState, PolicyAction, Decision
<1>3. CASE x.execution = NaN
  BY <1>3, Unresolved DEF UnscoredState, UnscoredAction, Decision
<1>4. QED
  BY <1>2, <1>3

\* A snapshot as the engine has it at hand: it was stored, or it has no score.
AtHand(x) == x.execution = NaN \/ IsStored(x)

\* Who is denied has such a record, or a high adversarial risk, or a band nobody trusts.
THEOREM DenialHasReason ==
    ASSUME NEW x, AtHand(x), NEW context, ComputeResolution(x, context).decision = "deny"
    PROVE  \/ x.quarantines > 0 \/ Read(x).adversarialRisk >= 80
           \/ ComputeResolution(x, context).band \in {"quarantined", "restricted"}
<1>0. CASE x.execution = NaN
  BY <1>0, Unresolved
<1> SUFFICES ASSUME x.execution # NaN
             PROVE  \/ x.quarantines > 0 \/ Read(x).adversarialRisk >= 80
                    \/ ComputeResolution(x, context).band \in {"quarantined", "restricted"}
  BY <1>0
<1>1. PICK y : y = Read(x) /\ IsSnapshot(y)
  BY StoredIsReadable DEF AtHand
<1>2. PICK score \in 0 .. 100 : score = Score(y, ScoredRisk(x), context)
  BY <1>1, ScoredRiskIsWhole, ScoreIsPercentage DEF AtHand
<1>3. PICK state : state = TrustState(y, score)
  OBVIOUS
<1>4. PICK r : r = ComputeResolution(x, context)
  OBVIOUS
<1>5. r.score = score /\ r.state = state /\ r.band = ScoreBand(score)
  BY <1>1, <1>2, <1>3, <1>4, Resolved
<1>6. Decision(PolicyAction(y, state)) = "deny"
  BY <1>1, <1>4, <1>5, Resolved
<1>7. state \in {"QUARANTINED", "COMPROMISED"}
  BY <1>6 DEF PolicyAction, Decision
<1>8. y.adversarialRisk \in Int /\ y.quarantines = x.quarantines
  BY <1>1 DEF IsSnapshot, Read, Without
<1>9. x.quarantines > 0 \/ y.adversarialRisk >= 80 \/ score <= 35
  BY <1>3, <1>7, <1>8 DEF TrustState
<1>10. QED
  BY <1>1, <1>4, <1>5, <1>9, BandOfScore

\* Nobody in such a band may validate, and most of the amount is held back.
LEMMA LowBandIsNotTrusted ==
    ASSUME NEW band \in {"quarantined", "restricted"}, NEW context
    PROVE  ~ ValidationEligible(band, context)
<1>1. DOMAIN BandOrder = 1 .. 6
  BY DEF BandOrder
<1>2. /\ BandOrder[1] = "quarantined" /\ BandOrder[2] = "restricted" /\ BandOrder[3] = "watch"
      /\ BandOrder[4] = "allowed" /\ BandOrder[5] = "preferred" /\ BandOrder[6] = "privileged"
  BY DEF BandOrder
<1>3. \A i \in 1 .. 6 : \/ i = 1 \/ i = 2 \/ i = 3 \/ i = 4 \/ i = 5 \/ i = 6
  OBVIOUS
<1>4. Rank("quarantined") = 1 /\ Rank("restricted") = 2 /\ Rank("allowed") = 4 /\ Rank("preferred") = 5
  <2>1. \A i \in DOMAIN BandOrder : BandOrder[i] = "quarantined" => i = 1
    BY <1>1, <1>2, <1>3
  <2>2. \A i \in DOMAIN BandOrder : BandOrder[i] = "restricted" => i = 2
    BY <1>1, <1>2, <1>3
  <2>3. \A i \in DOMAIN BandOrder : BandOrder[i] = "allowed" => i = 4
    BY <1>1, <1>2, <1>3
  <2>4. \A i \in DOMAIN BandOrder : BandOrder[i] = "preferred" => i = 5
    BY <1>1, <1>2, <1>3
  <2>5. {1, 2, 4, 5} \subseteq DOMAIN BandOrder
    BY <1>1
  <2>6. QED
    BY <1>2, <2>1, <2>2, <2>3, <2>4, <2>5, Zenon DEF Rank
<1>5. QED
  BY <1>4 DEF ValidationEligible, BandAtLeast

\* At least a quarter of the amount is held back for somebody in such a band.
LEMMA LowBandIsEscrowed ==
    ASSUME NEW r, r.band \in {"quarantined", "restricted"}, NEW risk \in {"low", "medium", "high"}
    PROVE  EscrowRatio(r, risk) \in Nat /\ EscrowRatio(r, risk) >= 2500
BY DEF EscrowRatio, Fraction, Clamp, Ratio, Unit

-----------------------------------------------------------------------------
(* Routing *)

\* Entries that can be ranked.
Rankable(list) ==
    /\ list \in Seq(Listed(list))
    /\ \A i \in DOMAIN list : list[i].score \in Int /\ IdOrder[list[i].subject] \in Int

\* The ranking is the same entries, each once: the place of each is a rank that
\* one of them has.
LEMMA RankedIsPermutation ==
    ASSUME NEW list, Rankable(list)
    PROVE  /\ DOMAIN RankedEntries(list) = DOMAIN list
           /\ \E h : /\ h \in [DOMAIN list -> DOMAIN list]
                     /\ \A k \in DOMAIN list : RankedEntries(list)[k] = list[h[k]]
                     /\ \A k, l \in DOMAIN list : h[k] = h[l] => k = l
<1> DEFINE D == DOMAIN list
           Before(i, j) == \/ ByScore(list[i], list[j])
                           \/ ~ ByScore(list[j], list[i]) /\ i < j
           B == {p \in D \X D : Before(p[1], p[2])}
           h == [k \in D |-> CHOOSE i \in D : Cardinality({j \in D : Before(j, i)}) = k - 1]
<1>1. D = 1 .. Len(list) /\ Len(list) \in Nat
  BY DEF Rankable
<1>2. IsFiniteSet(D) /\ Cardinality(D) = Len(list)
  <2>1. PICK n \in Nat : n = Len(list)
    BY <1>1
  <2>2. IsFiniteSet(1 .. n) /\ Cardinality(1 .. n) = n
    BY FS_Interval
  <2> HIDE DEF D
  <2>3. QED
    BY <1>1, <2>1, <2>2
<1>3. \A i, j \in D : <<i, j>> \in B <=> Before(i, j)
  OBVIOUS
<1>4. Orders(B, D)
  <2>1. ASSUME NEW i \in D PROVE list[i].score \in Int /\ IdOrder[list[i].subject] \in Int /\ i \in Int
    BY <1>1 DEF Rankable
  <2>2. \A i \in D : ~ Before(i, i)
    BY <2>1 DEF ByScore
  <2>3. \A i, j \in D : i # j => Before(i, j) \/ Before(j, i)
    BY <2>1 DEF ByScore
  <2>4. ASSUME NEW i \in D, NEW j \in D, NEW k \in D, Before(i, j), Before(j, k) PROVE Before(i, k)
    BY <2>1, <2>4 DEF ByScore
  <2> HIDE DEF Before
  <2>5. QED
    BY <1>3, <2>2, <2>3, <2>4 DEF Orders
<1>5. \A i \in D : RankIn(D, B, i) = Cardinality({j \in D : Before(j, i)})
  <2>1. ASSUME NEW i \in D
        PROVE  {j \in D : <<j, i>> \in B} = {j \in D : Before(j, i)}
    BY <1>3
  <2>2. QED
    BY <2>1 DEF RankIn
<1>6. ASSUME NEW k \in D PROVE h[k] \in D /\ RankIn(D, B, h[k]) = k - 1
  <2>1. k - 1 \in 0 .. Cardinality(D) - 1
    BY <1>1, <1>2
  <2>2. PICK i \in D : RankIn(D, B, i) = k - 1
    BY <1>2, <1>4, <2>1, RanksAreTaken, Zenon
  <2>3. h[k] = CHOOSE x \in D : Cardinality({j \in D : Before(j, x)}) = k - 1
    OBVIOUS
  <2> HIDE DEF h, Before
  <2>4. h[k] \in D /\ Cardinality({j \in D : Before(j, h[k])}) = k - 1
    BY <1>5, <2>2, <2>3, Zenon
  <2>5. QED
    BY <1>5, <2>4, Zenon
<1>7. RankedEntries(list) = [k \in D |-> list[h[k]]]
  BY DEF RankedEntries, Ranked
<1> HIDE DEF h, B, Before
<1>8. ASSUME NEW k \in D, NEW l \in D, h[k] = h[l] PROVE k = l
  <2>1. k - 1 = l - 1
    BY <1>6, <1>8
  <2>2. QED
    BY <1>1, <2>1
<1>9. h \in [D -> D]
  BY <1>6 DEF h
<1>10. \A k \in D : RankedEntries(list)[k] = list[h[k]]
  BY <1>7
<1>11. \A k, l \in D : h[k] = h[l] => k = l
  BY <1>8
<1>12. DOMAIN RankedEntries(list) = D
  BY <1>7
<1>13. QED
  BY <1>9, <1>10, <1>11, <1>12

\* The first n of the ranking, and what they are about.
IsBest(best, names, list, n) ==
    /\ best = Newest(RankedEntries(list), n)
    /\ names = [i \in DOMAIN best |-> best[i].subject]

\* Names that are those of entries, and different if the entries' are.
AreOf(names, best, list) ==
    /\ names \in Seq(Listed(names)) /\ Len(names) = Len(best)
    /\ \A i \in DOMAIN names : \E k \in DOMAIN list : names[i] = list[k].subject
    /\ (\A k, l \in DOMAIN list : list[k].subject = list[l].subject => k = l) =>
          \A i, j \in DOMAIN names : names[i] = names[j] => i = j

\* The first of a ranking are entries of the list it ranks.
LEMMA BestAreEntries ==
    ASSUME NEW list, Rankable(list), NEW n \in Nat, NEW best, NEW names, IsBest(best, names, list, n)
    PROVE  AreOf(names, best, list)
<1> DEFINE ranked == RankedEntries(list)
           m == IF Len(ranked) < n THEN Len(ranked) ELSE n
<1>1. DOMAIN list = 1 .. Len(list) /\ Len(list) \in Nat
  BY DEF Rankable
<1>2. PICK h : /\ h \in [DOMAIN list -> DOMAIN list]
               /\ \A k \in DOMAIN list : ranked[k] = list[h[k]]
               /\ \A k, l \in DOMAIN list : h[k] = h[l] => k = l
  BY RankedIsPermutation
<1>3. DOMAIN ranked = 1 .. Len(list)
  BY <1>1, RankedIsPermutation
<1>4. ranked = [k \in 1 .. Len(list) |-> ranked[k]]
  BY <1>3 DEF RankedEntries, Ranked
<1> HIDE DEF ranked
<1>5. ranked \in Seq(Listed(list)) /\ Len(ranked) = Len(list)
  <2>1. \A k \in 1 .. Len(list) : ranked[k] \in Listed(list)
    BY <1>1, <1>2 DEF Listed
  <2>2. QED
    BY <1>1, <1>4, <2>1
<1>6. m \in 0 .. Len(list)
  BY <1>1, <1>5
<1>7. best = SubSeq(ranked, 1, m)
  BY DEF IsBest, Newest, ranked
<1> HIDE DEF m
<1>8. DOMAIN best = 1 .. m /\ Len(best) = m /\ \A i \in 1 .. m : best[i] = ranked[i]
  BY <1>1, <1>5, <1>6, <1>7
<1>9. \A i \in 1 .. m : i \in DOMAIN list /\ best[i] = list[h[i]] /\ h[i] \in DOMAIN list
  BY <1>1, <1>2, <1>6, <1>8
<1>0. names = [i \in DOMAIN best |-> best[i].subject]
  BY DEF IsBest
<1>10. DOMAIN names = 1 .. m /\ \A i \in 1 .. m : names[i] = list[h[i]].subject
  BY <1>0, <1>8, <1>9
<1>11. names \in Seq(Listed(names)) /\ Len(names) = m
  <2>1. names = [i \in 1 .. m |-> names[i]]
    BY <1>0, <1>8
  <2>2. \A i \in 1 .. m : names[i] \in Listed(names)
    BY <1>10 DEF Listed
  <2>3. m \in Nat
    BY <1>6
  <2>4. QED
    BY <2>1, <2>2, <2>3
<1>12. \A i \in DOMAIN names : \E k \in DOMAIN list : names[i] = list[k].subject
  BY <1>9, <1>10
<1>13. ASSUME \A k, l \in DOMAIN list : list[k].subject = list[l].subject => k = l,
              NEW i \in DOMAIN names, NEW j \in DOMAIN names, names[i] = names[j]
       PROVE  i = j
  <2>1. h[i] = h[j]
    BY <1>9, <1>10, <1>13
  <2>2. QED
    BY <1>2, <1>9, <1>10, <1>13, <2>1
<1>14. QED
  BY <1>8, <1>11, <1>12, <1>13 DEF AreOf

\* The scores that candidates are ranked by are whole.
LEMMA ScoresAreWhole ==
    ASSUME NEW x, IsStored(x), NEW context
    PROVE  SelectionScore(x, context) \in Int /\ ExecutionScore(x, context) \in Int
<1>0. PICK y : y = Read(x) /\ IsSnapshot(y) /\ x.execution # NaN
  BY StoredIsReadable
<1>1. PICK score \in Int : score = Score(y, ScoredRisk(x), context)
  BY <1>0, ScoredRiskIsWhole, ScoreIsPercentage
<1>2. PICK c \in Int : c = Confidence(y, context)
  BY <1>0, ConfidenceIsWhole
<1>3. PICK fit \in Int : fit = DomainFit(x, context.domain, 2000)
  <2>1. x.competence = y.competence
    BY <1>0 DEF Read, Without
  <2>2. DomainFit(x, context.domain, 2000) = DomainFit(y, context.domain, 2000)
    BY <2>1 DEF DomainFit
  <2>3. QED
    BY <1>0, <2>2, FitIsShare
<1>4. PICK e \in Int : e = y.execution
  BY <1>0 DEF IsSnapshot, Dimensions
<1>5. PICK u \in Int : u = ExecutorReliability(x)
  <2>1. x.execution # Null => y.execution = x.execution
    BY <1>0 DEF Read
  <2>2. QED
    BY <1>4, <2>1 DEF ExecutorReliability, Unit
<1>6. PICK r : r = ComputeResolution(x, context)
  OBVIOUS
<1>7. r.score = score /\ r.confidence = c
  BY <1>0, <1>1, <1>2, <1>6, Resolved
<1>8. PICK a \in Int : a = Clamp(0, 5500 * score + 25 * fit + 1000 * c + 2 * e, 100 * Unit)
  BY DEF Clamp, Unit
<1>9. PICK b \in Int : b = Clamp(0, 4500 * score + 25 * u + 20 * fit + 1000 * c, 100 * Unit)
  BY DEF Clamp, Unit
<1>10. SelectionScore(x, context) = Ratio(a, Unit)
  BY <1>0, <1>3, <1>4, <1>6, <1>7, <1>8 DEF SelectionScore
<1>11. ExecutionScore(x, context) = Ratio(b, Unit)
  BY <1>3, <1>5, <1>6, <1>7, <1>9 DEF ExecutionScore
<1>12. Ratio(a, Unit) \in Int /\ Ratio(b, Unit) \in Int
  BY RatioIsWhole DEF Unit
<1>13. QED
  BY <1>10, <1>11, <1>12

\* What is filtered from a list without repetition has none.
LEMMA FilteredOnce ==
    ASSUME NEW T, NEW list \in Seq(T), NEW S, \A i, j \in DOMAIN list : list[i] = list[j] => i = j
    PROVE  \A i, j \in DOMAIN Filtered(list, S) :
              Filtered(list, S)[i] = Filtered(list, S)[j] => i = j
<1>1. PICK h : Picks(h, list, S)
  BY FilteredIsTaken
<1>2. PICK kept \in Seq(T) : kept = Filtered(list, S)
  BY FilteredType
<1>3. DOMAIN kept = 1 .. Len(kept) /\ DOMAIN list = 1 .. Len(list) /\ Len(kept) \in Nat
  OBVIOUS
<1>4. /\ h \in [1 .. Len(kept) -> 1 .. Len(list)]
      /\ \A i, j \in 1 .. Len(kept) : i < j => h[i] < h[j]
      /\ \A i \in 1 .. Len(kept) : kept[i] = list[h[i]]
  BY <1>1, <1>2 DEF Picks
<1>5. ASSUME NEW i \in DOMAIN kept, NEW j \in DOMAIN kept, kept[i] = kept[j] PROVE i = j
  <2>1. h[i] = h[j]
    BY <1>3, <1>4, <1>5
  <2>2. h[i] \in Int /\ i \in Int /\ j \in Int
    BY <1>3, <1>4
  <2>3. ~ (i < j) /\ ~ (j < i)
    BY <1>3, <1>4, <2>1, <2>2
  <2>4. QED
    BY <2>2, <2>3
<1>6. QED
  BY <1>2, <1>5

\* The entries for candidates that were kept, with whatever scores.
LEMMA EntriesAreRankable ==
    ASSUME NEW T, NEW kept \in Seq(T), NEW scores,
           \A i \in DOMAIN kept : scores[i] \in Int /\ IdOrder[kept[i]] \in Int,
           NEW entries, entries = [i \in DOMAIN kept |-> [subject |-> kept[i], score |-> scores[i]]]
    PROVE  /\ Rankable(entries) /\ DOMAIN entries = DOMAIN kept
           /\ \A i \in DOMAIN kept : entries[i].subject = kept[i]
<1>1. DOMAIN kept = 1 .. Len(kept) /\ Len(kept) \in Nat
  OBVIOUS
<1>2. \A i \in DOMAIN kept : entries[i] \in Listed(entries)
  BY DEF Listed
<1>3. entries = [i \in 1 .. Len(kept) |-> entries[i]]
  BY <1>1
<1>4. entries \in Seq(Listed(entries))
  BY <1>1, <1>2, <1>3
<1>5. QED
  BY <1>4 DEF Rankable

\* The validators selected are candidates that qualify, and if the quorum is said
\* to be satisfied and no candidate was listed twice, as many as required.
THEOREM ValidatorsQualify ==
    ASSUME NEW T, NEW candidates \in Seq(T), NEW required \in Nat, NEW s, NEW context,
           NEW status, NEW snap,
           \A c \in Listed(candidates) :
              Qualifies(c, snap[s], context, status, snap) => AtHand(snap[c]) /\ IdOrder[c] \in Int,
           NEW route, route = SelectValidators(s, candidates, required, context, status, snap)
    PROVE  /\ \A v \in Listed(route.selected) :
                 v \in Listed(candidates) /\ Qualifies(v, snap[s], context, status, snap)
           /\ route.satisfied /\ Cardinality(Listed(candidates)) = Len(candidates) =>
                 Cardinality(Listed(route.selected)) >= required
<1> DEFINE S == {c \in Listed(candidates) : Qualifies(c, snap[s], context, status, snap)}
<1>1. PICK kept \in Seq(T) : kept = Filtered(candidates, S)
  BY FilteredType
<1>2. Listed(kept) = Listed(candidates) \cap S
  BY <1>1, FilteredMembers
<1> DEFINE scores == [i \in DOMAIN kept |-> SelectionScore(snap[kept[i]], context)]
<1>3. \A i \in DOMAIN kept : kept[i] \in S /\ kept[i] \in Listed(candidates)
  BY <1>2 DEF Listed
<1>4. ASSUME NEW i \in DOMAIN kept PROVE scores[i] \in Int /\ IdOrder[kept[i]] \in Int
  <2>1. PICK c : c = kept[i] /\ Qualifies(c, snap[s], context, status, snap)
    BY <1>3
  <2>2. AtHand(snap[c]) /\ IdOrder[c] \in Int
    BY <1>3, <2>1
  <2>3. ValidationEligible(ComputeResolution(snap[c], context).band, context)
    BY <2>1 DEF Qualifies
  <2>4. IsStored(snap[c])
    BY <2>2, <2>3, Unresolved, LowBandIsNotTrusted DEF AtHand
  <2>5. SelectionScore(snap[kept[i]], context) \in Int
    BY <2>1, <2>4, ScoresAreWhole
  <2>6. QED
    BY <2>1, <2>2, <2>5
<1>5. PICK entries : entries = [i \in DOMAIN kept |-> [subject |-> kept[i], score |-> scores[i]]]
  OBVIOUS
<1>6. /\ Rankable(entries) /\ DOMAIN entries = DOMAIN kept
      /\ \A i \in DOMAIN kept : entries[i].subject = kept[i]
  <2> HIDE DEF scores
  <2>1. QED
    BY <1>4, <1>5, EntriesAreRankable
<1>7. PICK best : best = Newest(RankedEntries(entries), required)
  OBVIOUS
<1>8. PICK names : names = [i \in DOMAIN best |-> best[i].subject]
  OBVIOUS
<1>9. route.selected = names /\ (route.satisfied => Len(best) >= required)
  <2>1. route = ValidatorRoute(candidates, kept, best, required)
    BY <1>1, <1>5, <1>7 DEF SelectValidators, ElectFrom
  <2>2. QED
    BY <1>8, <2>1 DEF ValidatorRoute, QuorumSatisfied
<1>10. /\ names \in Seq(Listed(names)) /\ Len(names) = Len(best)
       /\ \A i \in DOMAIN names : \E k \in DOMAIN entries : names[i] = entries[k].subject
       /\ (\A k, l \in DOMAIN entries : entries[k].subject = entries[l].subject => k = l) =>
             \A i, j \in DOMAIN names : names[i] = names[j] => i = j
  <2>1. IsBest(best, names, entries, required)
    BY <1>7, <1>8 DEF IsBest
  <2>2. AreOf(names, best, entries)
    BY <1>6, <2>1, BestAreEntries
  <2>3. QED
    BY <2>2 DEF AreOf
<1> HIDE DEF S, scores
<1>11. ASSUME NEW v \in Listed(names)
       PROVE  v \in Listed(candidates) /\ Qualifies(v, snap[s], context, status, snap)
  <2>1. PICK i \in DOMAIN names : v = names[i]
    BY DEF Listed
  <2>2. PICK k \in DOMAIN kept : v = kept[k]
    BY <1>6, <1>10, <2>1
  <2>3. QED
    BY <1>3, <2>2 DEF S
<1>12. ASSUME route.satisfied, Cardinality(Listed(candidates)) = Len(candidates)
       PROVE  Cardinality(Listed(names)) >= required
  <2>1. \A i, j \in DOMAIN candidates : candidates[i] = candidates[j] => i = j
    BY <1>12, ListedOnce
  <2>2. \A i, j \in DOMAIN kept : kept[i] = kept[j] => i = j
    BY <1>1, <2>1, FilteredOnce
  <2>3. \A i, j \in DOMAIN names : names[i] = names[j] => i = j
    BY <1>6, <1>10, <2>2
  <2>4. Cardinality(Listed(names)) = Len(names)
    BY <1>10, <2>3, ListedOnce
  <2>5. QED
    BY <1>9, <1>10, <1>12, <2>4
<1>13. QED
  BY <1>9, <1>11, <1>12

\* The executors ranked are those kept.
LEMMA ExecutorsAreKept ==
    ASSUME NEW T, NEW kept \in Seq(T), NEW lost \in Int, NEW context, NEW snap, NEW n \in Nat,
           \A v \in Listed(kept) : IsStored(snap[v]) /\ IdOrder[v] \in Int,
           NEW best, best = Newest(ExecutorEntries(kept, lost, context, snap), n)
    PROVE  \A i \in DOMAIN best : best[i].subject \in Listed(kept)
<1> DEFINE scores == [i \in DOMAIN kept |-> Positive(ExecutionScore(snap[kept[i]], context) - lost)]
<1>1. ASSUME NEW i \in DOMAIN kept PROVE scores[i] \in Int /\ IdOrder[kept[i]] \in Int
  <2>1. kept[i] \in Listed(kept)
    BY DEF Listed
  <2>2. PICK e \in Int : e = ExecutionScore(snap[kept[i]], context)
    BY <2>1, ScoresAreWhole
  <2>3. Positive(e - lost) \in Int
    BY DEF Positive
  <2>4. QED
    BY <2>1, <2>2, <2>3
<1>2. PICK entries : entries = [i \in DOMAIN kept |-> [subject |-> kept[i], score |-> scores[i]]]
  OBVIOUS
<1>3. best = Newest(RankedEntries(entries), n)
  BY <1>2 DEF ExecutorEntries
<1> HIDE DEF scores
<1>4. /\ Rankable(entries) /\ DOMAIN entries = DOMAIN kept
      /\ \A i \in DOMAIN kept : entries[i].subject = kept[i]
  BY <1>1, <1>2, EntriesAreRankable
<1>5. PICK names : names = [i \in DOMAIN best |-> best[i].subject]
  OBVIOUS
<1>6. \A i \in DOMAIN names : \E k \in DOMAIN entries : names[i] = entries[k].subject
  <2>1. IsBest(best, names, entries, n)
    BY <1>3, <1>5 DEF IsBest
  <2>2. AreOf(names, best, entries)
    BY <1>4, <2>1, BestAreEntries
  <2>3. QED
    BY <2>2 DEF AreOf
<1>7. QED
  BY <1>4, <1>5, <1>6 DEF Listed

\* Nor are others in the entries of those trusted, in whatever order.
LEMMA TrustedAreKept ==
    ASSUME NEW T, NEW kept \in Seq(T), NEW context, NEW snap, NEW n \in Nat,
           \A v \in Listed(kept) : AtHand(snap[v]) /\ IdOrder[v] \in Int,
           NEW entries \in TrustedEntries(kept, context, snap),
           NEW best, best = Newest(entries, n)
    PROVE  \A i \in DOMAIN best : best[i].subject \in Listed(kept)
<1>1. CASE \E c \in Listed(kept) : snap[c].execution = NaN
  <2>1. PICK order \in [DOMAIN kept -> DOMAIN kept] :
           entries = [i \in DOMAIN kept |-> [subject |-> kept[order[i]], score |-> NaN]]
    BY <1>1 DEF TrustedEntries, Bijection, Injection
  <2>2. DOMAIN kept = 1 .. Len(kept) /\ Len(kept) \in Nat
    OBVIOUS
  <2>3. entries \in Seq(Listed(entries)) /\ Len(entries) = Len(kept)
    <3>1. \A i \in 1 .. Len(kept) : entries[i] \in Listed(entries)
      BY <2>1, <2>2 DEF Listed
    <3>2. entries = [i \in 1 .. Len(kept) |-> entries[i]]
      BY <2>1, <2>2
    <3>3. QED
      BY <2>2, <3>1, <3>2
  <2>4. PICK m \in 0 .. Len(kept) : best = SubSeq(entries, 1, m)
    <3>1. best = SubSeq(entries, 1, IF Len(entries) < n THEN Len(entries) ELSE n)
      BY DEF Newest
    <3>2. CASE Len(entries) < n
      <4>1. Len(entries) \in 0 .. Len(kept)
        BY <2>2, <2>3
      <4>2. QED
        BY <3>1, <3>2, <4>1
    <3>3. CASE ~ (Len(entries) < n)
      <4>1. n \in 0 .. Len(kept)
        BY <2>2, <2>3, <3>3
      <4>2. QED
        BY <3>1, <3>3, <4>1
    <3>4. QED
      BY <3>2, <3>3
  <2>5. DOMAIN best = 1 .. m /\ \A i \in 1 .. m : best[i] = entries[i]
    BY <2>2, <2>3, <2>4
  <2>6. ASSUME NEW i \in DOMAIN best PROVE best[i].subject \in Listed(kept)
    <3>1. i \in DOMAIN kept
      BY <2>2, <2>4, <2>5, <2>6
    <3>2. best[i].subject = kept[order[i]] /\ order[i] \in DOMAIN kept
      BY <2>1, <2>5, <2>6, <3>1
    <3>3. QED
      BY <3>2 DEF Listed
  <2>7. QED
    BY <2>6
<1>2. CASE ~ \E c \in Listed(kept) : snap[c].execution = NaN
  <2>1. entries = ExecutorEntries(kept, 0, context, snap)
    BY <1>2 DEF TrustedEntries
  <2>2. \A v \in Listed(kept) : IsStored(snap[v]) /\ IdOrder[v] \in Int
    BY <1>2 DEF AtHand
  <2>3. 0 \in Int
    OBVIOUS
  <2>4. QED
    BY <2>1, <2>2, <2>3, ExecutorsAreKept, Zenon
<1>3. QED
  BY <1>1, <1>2

\* The executors selected may execute; and they are allowed by the policy, or the
\* answer says that it was downgraded and they are not of the lowest band.
THEOREM ExecutorsAreAble ==
    ASSUME NEW T, NEW candidates \in Seq(T), NEW minimum \in Nat, NEW downgrade, NEW context,
           NEW status, NEW snap,
           \A c \in Listed(candidates) :
              MayExecute(c, status, snap) => AtHand(snap[c]) /\ IdOrder[c] \in Int,
           NEW route,
           route \in SelectExecutors(candidates, minimum, downgrade, context, status, snap)
    PROVE  \A v \in Listed(route.selected) :
              /\ v \in Listed(candidates) /\ MayExecute(v, status, snap)
              /\ \/ ComputeResolution(snap[v], context).decision = "allow"
                 \/ route.downgraded /\ ComputeResolution(snap[v], context).band # "quarantined"
<1> DEFINE Able == {c \in Listed(candidates) : MayExecute(c, status, snap)}
           Trusted == {c \in Able : ComputeResolution(snap[c], context).decision = "allow"}
           Degraded == {c \in Able \ Trusted : Degradable(ComputeResolution(snap[c], context), downgrade)}
<1>1. PICK sure \in Seq(T) : sure = Filtered(candidates, Trusted)
  BY FilteredType
<1>2. PICK rest \in Seq(T) : rest = Filtered(candidates, Degraded)
  BY FilteredType
<1>3. Listed(sure) = Listed(candidates) \cap Trusted /\ Listed(rest) = Listed(candidates) \cap Degraded
  BY <1>1, <1>2, FilteredMembers
<1>4. PICK entries \in TrustedEntries(sure, context, snap) :
         route = Fallback(Newest(entries, minimum),
                          Newest(ExecutorEntries(rest, 15, context, snap), 1))
  BY <1>1, <1>2 DEF SelectExecutors
<1>5. PICK first, second :
         /\ first = Newest(entries, minimum)
         /\ second = Newest(ExecutorEntries(rest, 15, context, snap), 1)
  OBVIOUS
<1>6. route = Fallback(first, second)
  BY <1>4, <1>5
<1>7. \A v \in Able : AtHand(snap[v]) /\ IdOrder[v] \in Int
  OBVIOUS
<1>0. \A v \in Degraded : IsStored(snap[v])
  <2>1. ASSUME NEW v \in Degraded PROVE ComputeResolution(snap[v], context).band # "quarantined"
    BY DEF Degradable
  <2>2. QED
    BY <1>7, <2>1, Unresolved DEF AtHand
<1>8. Trusted \subseteq Able /\ Degraded \subseteq Able
  OBVIOUS
<1> HIDE DEF Able, Trusted, Degraded
<1>9. \A i \in DOMAIN first : first[i].subject \in Trusted
  <2>1. \A v \in Listed(sure) : AtHand(snap[v]) /\ IdOrder[v] \in Int
    BY <1>3, <1>7, <1>8
  <2>2. \A i \in DOMAIN first : first[i].subject \in Listed(sure)
    BY <1>4, <1>5, <2>1, TrustedAreKept, Zenon
  <2>3. QED
    BY <1>3, <2>2
<1>10. \A i \in DOMAIN second : second[i].subject \in Degraded
  <2>1. \A v \in Listed(rest) : IsStored(snap[v]) /\ IdOrder[v] \in Int
    BY <1>0, <1>3, <1>7, <1>8
  <2>2. 15 \in Int /\ 1 \in Nat
    OBVIOUS
  <2>3. \A i \in DOMAIN second : second[i].subject \in Listed(rest)
    BY <1>5, <2>1, <2>2, ExecutorsAreKept, Zenon
  <2>4. QED
    BY <1>3, <2>3
<1>11. CASE first = <<>>
  <2>1. route.selected = [i \in DOMAIN second |-> second[i].subject]
    BY <1>6, <1>11 DEF Fallback, ExecutorRoute
  <2>2. second # <<>> => route.downgraded
    <3>1. ASSUME second # <<>>
          PROVE  route = [selected |-> [i \in DOMAIN second |-> second[i].subject],
                          downgraded |-> TRUE]
      BY <1>6, <1>11, <3>1 DEF Fallback, ExecutorRoute
    <3>2. QED
      BY <3>1
  <2>3. ASSUME NEW v \in Listed(route.selected)
        PROVE  v \in Degraded /\ route.downgraded
    <3>1. PICK i \in DOMAIN second : v = second[i].subject
      BY <2>1 DEF Listed
    <3>2. second # <<>>
      BY <3>1
    <3>3. QED
      BY <1>10, <2>2, <3>1, <3>2
  <2>4. QED
    BY <1>8, <2>3 DEF Degraded, Able, Degradable
<1>12. CASE first # <<>>
  <2>1. route.selected = [i \in DOMAIN first |-> first[i].subject]
    BY <1>6, <1>12 DEF Fallback, ExecutorRoute
  <2>2. ASSUME NEW v \in Listed(route.selected) PROVE v \in Trusted
    BY <1>9, <2>1 DEF Listed
  <2>3. QED
    BY <2>2 DEF Trusted, Able
<1>13. QED
  BY <1>11, <1>12
=============================================================================
