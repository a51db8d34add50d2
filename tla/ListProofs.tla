----------------------------- MODULE ListProofs -----------------------------
(***************************************************************************)
(* What Filtered and SumOver compute, for every list and every finite set. *)
(* The induction principles of the library range over operators; here it   *)
(* is a set of numbers that contains zero and the successor of each of its *)
(* members.  That a recursive function exists is shown the same way.       *)
(***************************************************************************)
EXTENDS Lists, SequenceTheorems, FiniteSetTheorems, TLAPS

\* A set that contains 0 and with every number its successor contains all numbers.
LEMMA SetInduction ==
    ASSUME NEW S, 0 \in S, \A n \in Nat : n \in S => n + 1 \in S
    PROVE  \A n \in Nat : n \in S
<1> SUFFICES ASSUME NEW k \in Nat, k \notin S PROVE FALSE
  OBVIOUS
<1> DEFINE T == Nat \ S
<1>1. T \subseteq Nat /\ T # {}
  OBVIOUS
<1> HIDE DEF T
<1>2. PICK m \in T : \A y \in T : ~ (<<y, m>> \in OpToRel(<, Nat))
  BY <1>1, WFMin, NatLessThanWellFounded
<1>3. \A y \in T : ~ (y < m)
  BY <1>1, <1>2 DEF OpToRel
<1>4. m # 0 /\ m \in Nat
  BY DEF T
<1>5. m - 1 \in Nat /\ m - 1 \notin T
  BY <1>3, <1>4
<1>6. m - 1 \in S
  BY <1>5 DEF T
<1>7. QED
  BY <1>4, <1>5, <1>6 DEF T

-----------------------------------------------------------------------------
(* Filtered *)

\* The prefixes u of what is filtered, one for each prefix of the list.
Sifting(u, list, S) ==
    /\ DOMAIN u = 0 .. Len(list)
    /\ u[0] = <<>>
    /\ \A n \in 1 .. Len(list) :
          u[n] = IF list[n] \in S THEN Append(u[n - 1], list[n]) ELSE u[n - 1]

\* They exist, and the last of them is what Filtered returns.
LEMMA FilteredUnfolds ==
    ASSUME NEW list, Len(list) \in Nat, NEW S
    PROVE  \E u : Sifting(u, list, S) /\ Filtered(list, S) = u[Len(list)]
<1> DEFINE R(u, n) == [i \in 0 .. n |->
                         IF i = 0 THEN <<>>
                         ELSE IF list[i] \in S THEN Append(u[i - 1], list[i]) ELSE u[i - 1]]
           G == {n \in Nat : \E u : u = R(u, n)}
<1>1. 0 \in G
  <2>1. R(<<>>, 0) = R(R(<<>>, 0), 0)
    OBVIOUS
  <2>2. QED
    BY <2>1
<1>2. ASSUME NEW n \in Nat, n \in G PROVE n + 1 \in G
  <2>1. PICK u : u = R(u, n)
    BY <1>2
  <2>2. \A i \in 0 .. n : u[i] = IF i = 0 THEN <<>>
                                 ELSE IF list[i] \in S THEN Append(u[i - 1], list[i])
                                 ELSE u[i - 1]
    BY <2>1, Zenon
  <2>3. PICK v : v = R(u, n + 1)
    OBVIOUS
  <2>4. \A i \in 0 .. n + 1 : v[i] = IF i = 0 THEN <<>>
                                     ELSE IF list[i] \in S THEN Append(u[i - 1], list[i])
                                     ELSE u[i - 1]
    BY <2>3, Zenon
  <2>5. \A i \in 0 .. n : i \in 0 .. n + 1
    OBVIOUS
  <2>6. \A i \in 0 .. n : v[i] = u[i]
    BY <2>2, <2>4, <2>5, Zenon
  <2>7. \A i \in 0 .. n + 1 : i # 0 => i - 1 \in 0 .. n
    OBVIOUS
  <2>8. R(u, n + 1) = R(v, n + 1)
    BY <2>6, <2>7
  <2>9. v = R(v, n + 1) /\ n + 1 \in Nat
    <3> HIDE DEF R
    <3>1. QED
      BY <2>3, <2>8
  <2>10. QED
    <3> HIDE DEF R
    <3>1. QED
      BY <2>9
<1>3. Len(list) \in G
  <2> HIDE DEF G
  <2>1. QED
    BY <1>1, <1>2, SetInduction
<1>4. PICK u : u = R(u, Len(list))
  BY <1>3
<1> DEFINE w == CHOOSE f : f = R(f, Len(list))
<1>5. w = R(w, Len(list))
  BY <1>4
<1>6. Filtered(list, S) = w[Len(list)]
  BY DEF Filtered
<1> HIDE DEF w
<1>7. DOMAIN w = 0 .. Len(list)
  BY <1>5, Zenon
<1>8. \A i \in 0 .. Len(list) : w[i] = IF i = 0 THEN <<>>
                                       ELSE IF list[i] \in S THEN Append(w[i - 1], list[i])
                                       ELSE w[i - 1]
  BY <1>5, Zenon
<1> HIDE DEF R
<1>9. w[0] = <<>>
  <2>1. 0 \in 0 .. Len(list)
    OBVIOUS
  <2>2. QED
    BY <1>8, <2>1, Zenon
<1>10. ASSUME NEW n \in 1 .. Len(list)
       PROVE  w[n] = IF list[n] \in S THEN Append(w[n - 1], list[n]) ELSE w[n - 1]
  <2>1. n \in 0 .. Len(list) /\ n # 0
    OBVIOUS
  <2>2. QED
    BY <1>8, <2>1, Zenon
<1>11. Sifting(w, list, S)
  BY <1>7, <1>9, <1>10, Zenon DEF Sifting
<1>12. QED
  BY <1>6, <1>11

\* Of such prefixes the last is the same, whichever were taken.
LEMMA SiftingIsUnique ==
    ASSUME NEW list, Len(list) \in Nat, NEW S,
           NEW u, NEW w, Sifting(u, list, S), Sifting(w, list, S)
    PROVE  \A n \in 0 .. Len(list) : u[n] = w[n]
<1> DEFINE G == {n \in Nat : n <= Len(list) => u[n] = w[n]}
<1>1. 0 \in G
  BY DEF Sifting
<1>2. ASSUME NEW n \in Nat, n \in G PROVE n + 1 \in G
  <2>1. n + 1 <= Len(list) => n + 1 \in 1 .. Len(list) /\ (n + 1) - 1 = n /\ u[n] = w[n]
    BY <1>2
  <2>2. n + 1 <= Len(list) => u[n + 1] = w[n + 1]
    BY <2>1 DEF Sifting
  <2>3. QED
    BY <2>2
<1>3. \A n \in Nat : n \in G
  <2> HIDE DEF G
  <2>1. QED
    BY <1>1, <1>2, SetInduction
<1>4. QED
  BY <1>3

\* So Filtered returns the last of any prefixes found.
LEMMA FilteredIsLast ==
    ASSUME NEW list, Len(list) \in Nat, NEW S, NEW u, Sifting(u, list, S)
    PROVE  Filtered(list, S) = u[Len(list)]
<1>1. PICK w : Sifting(w, list, S) /\ Filtered(list, S) = w[Len(list)]
  BY FilteredUnfolds
<1>2. Len(list) \in 0 .. Len(list)
  OBVIOUS
<1>3. u[Len(list)] = w[Len(list)]
  BY <1>1, <1>2, SiftingIsUnique
<1>4. QED
  BY <1>1, <1>3

\* Nothing is filtered from nothing.
LEMMA FilteredOfNothing ==
    ASSUME NEW S
    PROVE  Filtered(<<>>, S) = <<>>
<1>1. Len(<<>>) = 0
  OBVIOUS
<1>2. PICK w : Sifting(w, <<>>, S) /\ Filtered(<<>>, S) = w[0]
  BY <1>1, FilteredUnfolds
<1>3. QED
  BY <1>2 DEF Sifting

\* The prefixes for a list are those for any beginning of it.
LEMMA FilteredAppend ==
    ASSUME NEW T, NEW list \in Seq(T), NEW e \in T, NEW S
    PROVE  Filtered(Append(list, e), S) =
             IF e \in S THEN Append(Filtered(list, S), e) ELSE Filtered(list, S)
<1> DEFINE longer == Append(list, e)
           L == Len(list)
<1>1. Len(longer) = L + 1 /\ L \in Nat /\ \A i \in 1 .. L : longer[i] = list[i]
  OBVIOUS
<1>2. longer[L + 1] = e
  OBVIOUS
<1> HIDE DEF longer, L
<1>3. PICK w : Sifting(w, longer, S) /\ Filtered(longer, S) = w[L + 1]
  BY <1>1, FilteredUnfolds
<1> DEFINE u == [n \in 0 .. L |-> w[n]]
<1>4. Sifting(u, list, S)
  <2>1. DOMAIN u = 0 .. L /\ \A n \in 0 .. L : u[n] = w[n]
    OBVIOUS
  <2> HIDE DEF u
  <2>2. u[0] = <<>>
    BY <1>1, <1>3, <2>1 DEF Sifting
  <2>3. ASSUME NEW n \in 1 .. L
        PROVE  u[n] = IF list[n] \in S THEN Append(u[n - 1], list[n]) ELSE u[n - 1]
    <3>1. n \in 1 .. Len(longer) /\ n \in 0 .. L /\ n - 1 \in 0 .. L
      BY <1>1
    <3>2. u[n] = w[n] /\ u[n - 1] = w[n - 1] /\ longer[n] = list[n]
      BY <1>1, <2>1, <3>1
    <3>3. w[n] = IF longer[n] \in S THEN Append(w[n - 1], longer[n]) ELSE w[n - 1]
      BY <1>3, <3>1, Zenon DEF Sifting
    <3>4. QED
      BY <3>2, <3>3, Zenon
  <2>4. QED
    BY <2>1, <2>2, <2>3, Zenon DEF Sifting, L
<1>5. Filtered(list, S) = w[L]
  <2>1. Filtered(list, S) = u[L]
    <3> HIDE DEF u
    <3>1. QED
      BY <1>1, <1>4, FilteredIsLast DEF L
  <2>2. QED
    BY <1>1, <2>1
<1>6. w[L + 1] = IF e \in S THEN Append(w[L], e) ELSE w[L]
  <2>1. L + 1 \in 1 .. Len(longer) /\ (L + 1) - 1 = L
    BY <1>1
  <2>2. w[L + 1] = IF longer[L + 1] \in S THEN Append(w[(L + 1) - 1], longer[L + 1])
                   ELSE w[(L + 1) - 1]
    BY <1>3, <2>1, Zenon DEF Sifting
  <2>3. QED
    BY <1>2, <2>1, <2>2
<1>7. QED
  BY <1>3, <1>5, <1>6 DEF longer

\* A list that is not empty is another one and its last element.
LEMMA LastApart ==
    ASSUME NEW T, NEW list \in Seq(T), NEW n \in Nat, Len(list) = n + 1
    PROVE  \E front \in Seq(T), e \in T : Len(front) = n /\ list = Append(front, e)
<1> DEFINE front == [i \in 1 .. n |-> list[i]]
<1>1. front \in Seq(T) /\ Len(front) = n /\ list[n + 1] \in T
  OBVIOUS
<1>2. list = Append(front, list[n + 1])
  OBVIOUS
<1>3. QED
  BY <1>1, <1>2

\* A set that contains the empty list, and with every list those that are one
\* element longer, contains all lists.
LEMMA ListInduction ==
    ASSUME NEW T, NEW G, <<>> \in G,
           \A list \in Seq(T), e \in T : list \in G => Append(list, e) \in G
    PROVE  \A list \in Seq(T) : list \in G
<1> DEFINE H == {n \in Nat : \A list \in Seq(T) : Len(list) = n => list \in G}
<1>1. 0 \in H
  OBVIOUS
<1>2. ASSUME NEW n \in Nat, n \in H PROVE n + 1 \in H
  <2>1. ASSUME NEW list \in Seq(T), Len(list) = n + 1 PROVE list \in G
    <3>1. PICK front \in Seq(T), e \in T : Len(front) = n /\ list = Append(front, e)
      BY <2>1, LastApart
    <3>2. front \in G
      BY <1>2, <3>1
    <3>3. QED
      BY <3>1, <3>2
  <2>2. QED
    BY <2>1
<1>3. \A n \in Nat : n \in H
  <2> HIDE DEF H
  <2>1. QED
    BY <1>1, <1>2, SetInduction
<1>4. QED
  BY <1>3

\* What is filtered is a list of the same kind.
LEMMA FilteredType ==
    ASSUME NEW T, NEW list \in Seq(T), NEW S
    PROVE  Filtered(list, S) \in Seq(T)
<1> DEFINE G == {l \in Seq(T) : Filtered(l, S) \in Seq(T)}
<1>1. <<>> \in G
  <2>1. <<>> \in Seq(T)
    OBVIOUS
  <2>2. Filtered(<<>>, S) \in Seq(T)
    BY <2>1, FilteredOfNothing, Zenon
  <2>3. QED
    BY <2>1, <2>2
<1>2. ASSUME NEW l \in Seq(T), NEW e \in T, l \in G PROVE Append(l, e) \in G
  <2>1. PICK was \in Seq(T) : was = Filtered(l, S)
    BY <1>2
  <2>2. Filtered(Append(l, e), S) = IF e \in S THEN Append(was, e) ELSE was
    BY <2>1, FilteredAppend
  <2>3. Append(was, e) \in Seq(T) /\ Append(l, e) \in Seq(T)
    OBVIOUS
  <2>4. Filtered(Append(l, e), S) \in Seq(T)
    BY <2>2, <2>3, Zenon
  <2>5. QED
    BY <2>3, <2>4
<1>3. \A l \in Seq(T) : l \in G
  <2> HIDE DEF G
  <2>1. QED
    BY <1>1, <1>2, ListInduction
<1>4. QED
  BY <1>3

\* To filter two lists put together is to put together what is filtered.
LEMMA FilteredConcat ==
    ASSUME NEW T, NEW a \in Seq(T), NEW b \in Seq(T), NEW S
    PROVE  Filtered(a \o b, S) = Filtered(a, S) \o Filtered(b, S)
<1> DEFINE G == {l \in Seq(T) : Filtered(a \o l, S) = Filtered(a, S) \o Filtered(l, S)}
<1>1. <<>> \in G
  <2>1. Filtered(a, S) \in Seq(T) /\ Filtered(<<>>, S) = <<>> /\ a \o <<>> = a
    BY FilteredType, FilteredOfNothing
  <2>2. QED
    BY <2>1
<1>2. ASSUME NEW l \in Seq(T), NEW e \in T, l \in G PROVE Append(l, e) \in G
  <2>1. a \o Append(l, e) = Append(a \o l, e) /\ a \o l \in Seq(T)
    OBVIOUS
  <2>2. Filtered(Append(l, e), S) = IF e \in S THEN Append(Filtered(l, S), e) ELSE Filtered(l, S)
    BY FilteredAppend
  <2>3. Filtered(Append(a \o l, e), S)
          = IF e \in S THEN Append(Filtered(a \o l, S), e) ELSE Filtered(a \o l, S)
    BY <2>1, FilteredAppend
  <2>4. PICK x \in Seq(T) : x = Filtered(a, S)
    BY FilteredType
  <2>5. PICK y \in Seq(T) : y = Filtered(l, S)
    BY FilteredType
  <2>6. x \o Append(y, e) = Append(x \o y, e)
    OBVIOUS
  <2>7. Filtered(a \o l, S) = Filtered(a, S) \o Filtered(l, S)
    BY <1>2
  <2>8. Filtered(a \o Append(l, e), S) = Filtered(a, S) \o Filtered(Append(l, e), S)
    BY <2>1, <2>2, <2>3, <2>4, <2>5, <2>6, <2>7, Zenon
  <2>9. QED
    BY <2>8
<1>3. \A l \in Seq(T) : l \in G
  <2> HIDE DEF G
  <2>1. QED
    BY <1>1, <1>2, ListInduction
<1>4. QED
  BY <1>3

\* The places of the list that what is filtered was taken from: in order, each
\* once, and all that hold a member of S.
Picks(h, list, S) ==
    /\ h \in [1 .. Len(Filtered(list, S)) -> 1 .. Len(list)]
    /\ \A i, j \in 1 .. Len(Filtered(list, S)) : i < j => h[i] < h[j]
    /\ \A i \in 1 .. Len(Filtered(list, S)) :
          Filtered(list, S)[i] = list[h[i]] /\ list[h[i]] \in S
    /\ \A n \in 1 .. Len(list) :
          list[n] \in S => \E i \in 1 .. Len(Filtered(list, S)) : h[i] = n

\* A filtered list is taken from the list: its elements are those of the list in S, in order.
LEMMA FilteredIsTaken ==
    ASSUME NEW T, NEW list \in Seq(T), NEW S
    PROVE  \E h : Picks(h, list, S)
<1> DEFINE G == {l \in Seq(T) : \E h : Picks(h, l, S)}
<1>1. <<>> \in G
  <2>1. Filtered(<<>>, S) = <<>>
    BY FilteredOfNothing
  <2>2. Picks(<<>>, <<>>, S)
    BY <2>1 DEF Picks
  <2>3. QED
    BY <2>2
<1>2. ASSUME NEW l \in Seq(T), NEW e \in T, l \in G PROVE Append(l, e) \in G
  <2>1. PICK h : Picks(h, l, S)
    BY <1>2
  <2> DEFINE longer == Append(l, e)
             was == Filtered(l, S)
             now == Filtered(longer, S)
  <2>2. now = IF e \in S THEN Append(was, e) ELSE was
    BY FilteredAppend
  <2>3. was \in Seq(T) /\ Len(was) \in Nat /\ Len(l) \in Nat
    BY FilteredType
  <2>4. /\ longer \in Seq(T) /\ Len(longer) = Len(l) + 1 /\ longer[Len(l) + 1] = e
        /\ \A i \in 1 .. Len(l) : longer[i] = l[i]
    OBVIOUS
  <2>5. /\ h \in [1 .. Len(was) -> 1 .. Len(l)]
        /\ \A i, j \in 1 .. Len(was) : i < j => h[i] < h[j]
        /\ \A i \in 1 .. Len(was) : was[i] = l[h[i]] /\ l[h[i]] \in S
        /\ \A n \in 1 .. Len(l) : l[n] \in S => \E i \in 1 .. Len(was) : h[i] = n
    BY <2>1 DEF Picks
  <2> HIDE DEF longer, was, now
  <2>6. CASE e \notin S
    <3>1. now = was
      BY <2>2, <2>6
    <3>2. /\ h \in [1 .. Len(was) -> 1 .. Len(longer)]
          /\ \A i \in 1 .. Len(was) : was[i] = longer[h[i]] /\ longer[h[i]] \in S
      <4>1. \A i \in 1 .. Len(was) : h[i] \in 1 .. Len(l) /\ longer[h[i]] = l[h[i]]
        BY <2>4, <2>5
      <4>2. 1 .. Len(l) \subseteq 1 .. Len(longer)
        BY <2>3, <2>4
      <4>3. h \in [1 .. Len(was) -> 1 .. Len(longer)]
        BY <2>5, <4>2
      <4>4. QED
        BY <2>5, <4>1, <4>3
    <3>3. ASSUME NEW n \in 1 .. Len(longer), longer[n] \in S
          PROVE  \E i \in 1 .. Len(was) : h[i] = n
      <4>1. n \in 1 .. Len(l) /\ l[n] \in S
        BY <2>3, <2>4, <2>6, <3>3
      <4>2. QED
        BY <2>5, <4>1
    <3>4. Picks(h, longer, S)
      BY <2>5, <3>1, <3>2, <3>3, Zenon DEF Picks, now
    <3>5. QED
      BY <2>4, <3>4 DEF longer
  <2>7. CASE e \in S
    <3> DEFINE k == [i \in 1 .. Len(was) + 1 |-> IF i <= Len(was) THEN h[i] ELSE Len(l) + 1]
    <3>1. now = Append(was, e)
      BY <2>2, <2>7
    <3>2. /\ Len(now) = Len(was) + 1 /\ now[Len(was) + 1] = e
          /\ \A i \in 1 .. Len(was) : now[i] = was[i]
      BY <2>3, <3>1
    <3>3. /\ \A i \in 1 .. Len(was) : k[i] = h[i] /\ h[i] \in 1 .. Len(l)
          /\ k[Len(was) + 1] = Len(l) + 1
          /\ k \in [1 .. Len(was) + 1 -> 1 .. Len(l) + 1]
      <4>1. PICK m \in Nat : m = Len(was)
        BY <2>3
      <4>2. PICK n \in Nat : n = Len(l)
        BY <2>3
      <4>3. \A i \in 1 .. m : h[i] \in 1 .. n
        BY <2>5, <4>1, <4>2
      <4>4. k = [i \in 1 .. m + 1 |-> IF i <= m THEN h[i] ELSE n + 1]
        BY <4>1, <4>2
      <4> HIDE DEF k
      <4>5. /\ \A i \in 1 .. m : k[i] = h[i] /\ h[i] \in 1 .. n
            /\ k[m + 1] = n + 1
            /\ k \in [1 .. m + 1 -> 1 .. n + 1]
        BY <4>3, <4>4
      <4>6. QED
        BY <4>1, <4>2, <4>5
    <3> HIDE DEF k
    <3>4. \A i, j \in 1 .. Len(now) : i < j => k[i] < k[j]
      <4>1. ASSUME NEW i \in 1 .. Len(now), NEW j \in 1 .. Len(now), i < j PROVE k[i] < k[j]
        <5>1. i \in 1 .. Len(was) /\ k[i] = h[i] /\ h[i] \in 1 .. Len(l)
          BY <2>3, <3>2, <3>3, <4>1
        <5>2. CASE j = Len(was) + 1
          BY <2>3, <3>3, <5>1, <5>2
        <5>3. CASE j # Len(was) + 1
          <6>1. j \in 1 .. Len(was) /\ k[j] = h[j]
            BY <2>3, <3>2, <3>3, <5>3
          <6>2. QED
            BY <2>5, <4>1, <5>1, <6>1
        <5>4. QED
          BY <5>2, <5>3
      <4>2. QED
        BY <4>1
    <3>5. \A i \in 1 .. Len(now) : now[i] = longer[k[i]] /\ longer[k[i]] \in S
      <4>1. \A i \in 1 .. Len(was) : now[i] = longer[k[i]] /\ longer[k[i]] \in S
        BY <2>3, <2>4, <2>5, <3>2, <3>3
      <4>2. now[Len(was) + 1] = longer[k[Len(was) + 1]] /\ longer[k[Len(was) + 1]] \in S
        BY <2>4, <2>7, <3>2, <3>3
      <4>3. QED
        BY <2>3, <3>2, <4>1, <4>2
    <3>6. ASSUME NEW n \in 1 .. Len(longer), longer[n] \in S
          PROVE  \E i \in 1 .. Len(now) : k[i] = n
      <4>1. CASE n = Len(l) + 1
        <5>1. Len(was) + 1 \in 1 .. Len(now)
          BY <2>3, <3>2
        <5>2. QED
          BY <3>3, <4>1, <5>1
      <4>2. CASE n # Len(l) + 1
        <5>1. n \in 1 .. Len(l) /\ l[n] \in S
          BY <2>3, <2>4, <3>6, <4>2
        <5>2. PICK i \in 1 .. Len(was) : h[i] = n
          BY <2>5, <5>1
        <5>3. i \in 1 .. Len(now) /\ k[i] = n
          BY <2>3, <3>2, <3>3, <5>2
        <5>4. QED
          BY <5>3
      <4>3. QED
        BY <4>1, <4>2
    <3>7. Picks(k, longer, S)
      BY <2>4, <3>2, <3>3, <3>4, <3>5, <3>6 DEF Picks, now
    <3>8. QED
      BY <2>4, <3>7 DEF longer
  <2>8. QED
    BY <2>6, <2>7
<1>3. \A l \in Seq(T) : l \in G
  <2> HIDE DEF G
  <2>1. QED
    BY <1>1, <1>2, ListInduction
<1>4. QED
  BY <1>3

\* A member of what is filtered is one of the list and of S, and the other way round.
LEMMA FilteredMembers ==
    ASSUME NEW T, NEW list \in Seq(T), NEW S
    PROVE  Listed(Filtered(list, S)) = Listed(list) \cap S
<1>1. PICK h : Picks(h, list, S)
  BY FilteredIsTaken
<1>2. Filtered(list, S) \in Seq(T)
  BY FilteredType
<1>3. DOMAIN Filtered(list, S) = 1 .. Len(Filtered(list, S)) /\ DOMAIN list = 1 .. Len(list)
  BY <1>2
<1>4. QED
  BY <1>1, <1>3 DEF Picks, Listed

-----------------------------------------------------------------------------
(* Finite sets *)

\* Sets that contain the empty set, and what one more element makes of each of
\* them, contain every finite set D.
LEMMA FiniteInduction ==
    ASSUME NEW D, IsFiniteSet(D), NEW G, {} \in G,
           \A S \in SUBSET D, x \in D : S \in G /\ x \notin S => S \cup {x} \in G
    PROVE  D \in G
<1> DEFINE H == {n \in Nat : \A S \in SUBSET D : Cardinality(S) = n => S \in G}
<1>1. 0 \in H
  <2>1. ASSUME NEW S \in SUBSET D, Cardinality(S) = 0 PROVE S \in G
    <3>1. S = {}
      BY <2>1, FS_Subset, FS_EmptySet
    <3>2. QED
      BY <3>1
  <2>2. QED
    BY <2>1
<1>2. ASSUME NEW n \in Nat, n \in H PROVE n + 1 \in H
  <2>1. ASSUME NEW S \in SUBSET D, Cardinality(S) = n + 1 PROVE S \in G
    <3>1. IsFiniteSet(S)
      BY FS_Subset
    <3>2. S # {}
      BY <2>1, FS_EmptySet
    <3>3. PICK x \in S : TRUE
      BY <3>2
    <3>4. Cardinality(S \ {x}) = n
      <4>1. Cardinality(S \ {x}) = Cardinality(S) - 1
        BY <3>1, FS_RemoveElement
      <4>2. QED
        BY <2>1, <4>1
    <3>5. S \ {x} \in G /\ S \ {x} \in SUBSET D
      BY <1>2, <3>4
    <3>6. (S \ {x}) \cup {x} \in G
      BY <3>5
    <3>7. (S \ {x}) \cup {x} = S
      OBVIOUS
    <3>8. QED
      BY <3>6, <3>7
  <2>2. QED
    BY <2>1
<1>3. Cardinality(D) \in H
  <2> HIDE DEF H
  <2>1. QED
    BY <1>1, <1>2, SetInduction, FS_CardinalityType
<1>4. QED
  BY <1>3

\* A finite set of numbers has a greatest.
LEMMA MaxExists ==
    ASSUME NEW D, IsFiniteSet(D), D \subseteq Int, D # {}
    PROVE  \E m \in D : \A x \in D : m >= x
<1> DEFINE G == {S \in SUBSET D : S # {} => \E m \in S : \A x \in S : m >= x}
<1>1. {} \in G
  OBVIOUS
<1>2. ASSUME NEW S \in SUBSET D, NEW x \in D, S \in G, x \notin S PROVE S \cup {x} \in G
  <2>1. CASE S = {}
    BY <2>1
  <2>2. CASE S # {}
    <3>1. PICK m \in S : \A y \in S : m >= y
      BY <1>2, <2>2
    <3>2. \E k \in S \cup {x} : \A y \in S \cup {x} : k >= y
      <4>1. CASE m >= x
        BY <3>1, <4>1
      <4>2. CASE ~ (m >= x)
        <5>1. \A y \in S \cup {x} : x >= y
          BY <3>1, <4>2
        <5>2. QED
          BY <5>1
      <4>3. QED
        BY <4>1, <4>2
    <3>3. QED
      BY <3>2
  <2>3. QED
    BY <2>1, <2>2
<1>3. D \in G
  <2> HIDE DEF G
  <2>1. QED
    BY <1>1, <1>2, FiniteInduction
<1>4. QED
  BY <1>3

\* What a function makes of a finite set is finite.
LEMMA ImageIsFinite ==
    ASSUME NEW D, IsFiniteSet(D), NEW f
    PROVE  IsFiniteSet({f[x] : x \in D})
<1> DEFINE g == [x \in D |-> f[x]]
<1>1. g \in Surjection(D, {f[x] : x \in D})
  BY DEF Surjection
<1>2. QED
  BY <1>1, FS_Surjection

\* A set of naturals has a least.
LEMMA MinExists ==
    ASSUME NEW D, D \subseteq Nat, D # {}
    PROVE  \E m \in D : \A x \in D : m <= x
<1>1. PICK m \in D : \A y \in D : ~ (<<y, m>> \in OpToRel(<, Nat))
  BY WFMin, NatLessThanWellFounded
<1>2. \A y \in D : ~ (y < m)
  BY <1>1 DEF OpToRel
<1>3. \A y \in D : m <= y
  BY <1>2
<1>4. QED
  BY <1>3

-----------------------------------------------------------------------------
(* SumOver *)

\* The sums u over the subsets of S.
Summing(u, f, S) ==
    \A T \in SUBSET S :
       u[T] = IF T = {} THEN 0 ELSE f[CHOOSE x \in T : TRUE] + u[T \ {CHOOSE x \in T : TRUE}]

\* They exist, and that over S is what SumOver returns.
LEMMA SumUnfolds ==
    ASSUME NEW f, NEW S, IsFiniteSet(S)
    PROVE  \E u : Summing(u, f, S) /\ SumOver(f, S) = u[S]
<1> DEFINE R(u) == [T \in SUBSET S |->
                      IF T = {} THEN 0
                      ELSE LET x == CHOOSE x \in T : TRUE IN f[x] + u[T \ {x}]]
           Small(n) == {T \in SUBSET S : Cardinality(T) <= n}
           G == {n \in Nat : \E u : \A T \in Small(n) : u[T] = R(u)[T]}
<1>1. ASSUME NEW u, NEW T \in SUBSET S
      PROVE  R(u)[T] = IF T = {} THEN 0
                       ELSE f[CHOOSE x \in T : TRUE] + u[T \ {CHOOSE x \in T : TRUE}]
  OBVIOUS
<1>2. ASSUME NEW T \in SUBSET S PROVE IsFiniteSet(T) /\ Cardinality(T) \in Nat
  BY FS_Subset, FS_CardinalityType
<1>3. ASSUME NEW n \in Nat, NEW T \in Small(n + 1), T # {}
      PROVE  T \ {CHOOSE x \in T : TRUE} \in Small(n)
  <2>1. PICK x \in T : x = CHOOSE y \in T : TRUE
    BY <1>3
  <2>2. Cardinality(T \ {x}) = Cardinality(T) - 1
    BY <1>2, FS_RemoveElement
  <2>3. Cardinality(T \ {x}) <= n
    BY <1>2, <2>2
  <2>4. QED
    BY <2>1, <2>3
<1> HIDE DEF R
<1>4. 0 \in G
  <2>1. PICK u : u = R(R(<<>>))
    OBVIOUS
  <2>2. ASSUME NEW T \in Small(0) PROVE u[T] = R(u)[T]
    <3>1. T \in SUBSET S /\ Cardinality(T) = 0
      BY <1>2
    <3>2. T = {}
      BY <1>2, <3>1, FS_EmptySet
    <3>3. R(R(<<>>))[T] = 0 /\ R(u)[T] = 0
      BY <1>1, <3>1, <3>2
    <3>4. QED
      BY <2>1, <3>3
  <2>3. QED
    BY <2>2
<1>5. ASSUME NEW n \in Nat, n \in G PROVE n + 1 \in G
  <2>1. PICK u : \A T \in Small(n) : u[T] = R(u)[T]
    BY <1>5
  <2>2. PICK v : v = R(u)
    OBVIOUS
  <2>3. \A T \in Small(n) : u[T] = v[T]
    BY <2>1, <2>2
  <2>4. ASSUME NEW T \in Small(n + 1) PROVE v[T] = R(v)[T]
    <3>1. T \in SUBSET S
      OBVIOUS
    <3>2. CASE T = {}
      BY <1>1, <2>2, <3>1, <3>2
    <3>3. CASE T # {}
      <4>1. PICK x : x = CHOOSE y \in T : TRUE
        OBVIOUS
      <4>2. T \ {x} \in Small(n)
        BY <1>3, <3>3, <4>1
      <4>3. R(u)[T] = f[x] + u[T \ {x}] /\ R(v)[T] = f[x] + v[T \ {x}]
        BY <1>1, <3>1, <3>3, <4>1
      <4>4. u[T \ {x}] = v[T \ {x}]
        BY <2>3, <4>2
      <4>5. QED
        BY <2>2, <4>3, <4>4
    <3>4. QED
      BY <3>2, <3>3
  <2>5. QED
    BY <2>4
<1>6. Cardinality(S) \in G
  <2> HIDE DEF G
  <2>1. QED
    BY <1>4, <1>5, SetInduction, FS_CardinalityType
<1>7. PICK u : \A T \in Small(Cardinality(S)) : u[T] = R(u)[T]
  BY <1>6
<1>8. ASSUME NEW T \in SUBSET S PROVE T \in Small(Cardinality(S))
  BY <1>2, FS_Subset
<1>9. \E v : v = R(v)
  <2>1. PICK v : v = R(u)
    OBVIOUS
  <2>2. \A T \in SUBSET S : v[T] = u[T]
    BY <1>7, <1>8, <2>1
  <2>3. R(u) = R(v)
    <3>1. \A T \in SUBSET S : T \ {CHOOSE x \in T : TRUE} \in SUBSET S
      OBVIOUS
    <3>2. QED
      BY <2>2, <3>1 DEF R
  <2>4. QED
    BY <2>1, <2>3
<1> DEFINE w == CHOOSE v : v = R(v)
<1>10. w = R(w)
  BY <1>9
<1>11. SumOver(f, S) = w[S]
  BY DEF SumOver, R
<1> HIDE DEF w
<1>12. Summing(w, f, S)
  BY <1>1, <1>10 DEF Summing
<1>13. QED
  BY <1>11, <1>12

\* A sum of naturals is a natural.
LEMMA SumIsNatural ==
    ASSUME NEW f, NEW S, IsFiniteSet(S), \A x \in S : f[x] \in Nat
    PROVE  SumOver(f, S) \in Nat
<1>1. PICK u : Summing(u, f, S) /\ SumOver(f, S) = u[S]
  BY SumUnfolds
<1> DEFINE H == {n \in Nat : \A T \in SUBSET S : Cardinality(T) = n => u[T] \in Nat}
<1>2. ASSUME NEW T \in SUBSET S PROVE IsFiniteSet(T) /\ Cardinality(T) \in Nat
  BY FS_Subset, FS_CardinalityType
<1>3. 0 \in H
  <2>1. ASSUME NEW T \in SUBSET S, Cardinality(T) = 0 PROVE u[T] \in Nat
    <3>1. T = {}
      BY <1>2, <2>1, FS_EmptySet
    <3>2. u[T] = 0
      BY <1>1, <3>1, Zenon DEF Summing
    <3>3. QED
      BY <3>2
  <2>2. QED
    BY <2>1
<1>4. ASSUME NEW n \in Nat, n \in H PROVE n + 1 \in H
  <2>1. ASSUME NEW T \in SUBSET S, Cardinality(T) = n + 1 PROVE u[T] \in Nat
    <3>1. T # {}
      BY <2>1, FS_EmptySet
    <3>2. PICK x \in T : x = CHOOSE y \in T : TRUE
      BY <3>1
    <3>3. u[T] = f[x] + u[T \ {x}]
      BY <1>1, <3>1, <3>2, Zenon DEF Summing
    <3>4. Cardinality(T \ {x}) = n
      <4>1. Cardinality(T \ {x}) = Cardinality(T) - 1
        BY <1>2, FS_RemoveElement
      <4>2. QED
        BY <2>1, <4>1
    <3>5. u[T \ {x}] \in Nat
      BY <1>4, <3>4
    <3>6. QED
      BY <3>3, <3>5
  <2>2. QED
    BY <2>1
<1>5. Cardinality(S) \in H
  <2> HIDE DEF H
  <2>1. QED
    BY <1>3, <1>4, SetInduction, FS_CardinalityType
<1>6. QED
  BY <1>1, <1>5

-----------------------------------------------------------------------------
(* PowerOfTwo *)

\* A power of two is a number, and not zero.
LEMMA PowerIsPositive ==
    ASSUME NEW n \in Nat
    PROVE  PowerOfTwo(n) \in Nat \ {0}
<1> DEFINE R(u, k) == [i \in 0 .. k |-> IF i = 0 THEN 1 ELSE 2 * u[i - 1]]
           G == {k \in Nat : \E u : u = R(u, k)}
<1>1. 0 \in G
  <2>1. R(<<>>, 0) = R(R(<<>>, 0), 0)
    OBVIOUS
  <2>2. QED
    BY <2>1
<1>2. ASSUME NEW k \in Nat, k \in G PROVE k + 1 \in G
  <2>1. PICK u : u = R(u, k)
    BY <1>2
  <2>2. \A i \in 0 .. k : u[i] = IF i = 0 THEN 1 ELSE 2 * u[i - 1]
    BY <2>1, Zenon
  <2>3. PICK v : v = R(u, k + 1)
    OBVIOUS
  <2>4. \A i \in 0 .. k + 1 : v[i] = IF i = 0 THEN 1 ELSE 2 * u[i - 1]
    BY <2>3, Zenon
  <2>5. \A i \in 0 .. k : i \in 0 .. k + 1
    OBVIOUS
  <2>6. \A i \in 0 .. k : v[i] = u[i]
    BY <2>2, <2>4, <2>5, Zenon
  <2>7. \A i \in 0 .. k + 1 : i # 0 => i - 1 \in 0 .. k
    OBVIOUS
  <2>8. R(u, k + 1) = R(v, k + 1)
    BY <2>6, <2>7
  <2>9. v = R(v, k + 1) /\ k + 1 \in Nat
    <3> HIDE DEF R
    <3>1. QED
      BY <2>3, <2>8
  <2>10. QED
    <3> HIDE DEF R
    <3>1. QED
      BY <2>9
<1>3. n \in G
  <2> HIDE DEF G
  <2>1. QED
    BY <1>1, <1>2, SetInduction
<1>4. PICK u : u = R(u, n)
  BY <1>3
<1> DEFINE w == CHOOSE f : f = R(f, n)
<1>5. w = R(w, n)
  BY <1>4
<1>6. PowerOfTwo(n) = w[n]
  BY DEF PowerOfTwo
<1> HIDE DEF w
<1>7. \A i \in 0 .. n : w[i] = IF i = 0 THEN 1 ELSE 2 * w[i - 1]
  BY <1>5, Zenon
<1> DEFINE H == {i \in Nat : i <= n => w[i] \in Nat \ {0}}
<1>8. 0 \in H
  BY <1>7
<1>9. ASSUME NEW i \in Nat, i \in H PROVE i + 1 \in H
  <2>1. i + 1 <= n => i + 1 \in 0 .. n /\ i + 1 # 0 /\ (i + 1) - 1 = i /\ w[i] \in Nat \ {0}
    BY <1>9
  <2>2. i + 1 <= n => w[i + 1] = 2 * w[i]
    BY <1>7, <2>1
  <2>3. QED
    BY <2>1, <2>2
<1>10. n \in H
  <2> HIDE DEF H
  <2>1. QED
    BY <1>8, <1>9, SetInduction
<1>11. QED
  BY <1>6, <1>10

-----------------------------------------------------------------------------
(* Ranks *)

\* A list names as many elements as it is long exactly if it names none twice.
LEMMA ListedOnce ==
    ASSUME NEW T, NEW list \in Seq(T)
    PROVE  /\ IsFiniteSet(Listed(list)) /\ Cardinality(Listed(list)) <= Len(list)
           /\ Cardinality(Listed(list)) = Len(list)
                <=> \A i, j \in DOMAIN list : list[i] = list[j] => i = j
<1>1. DOMAIN list = 1 .. Len(list) /\ Len(list) \in Nat
  OBVIOUS
<1>2. IsFiniteSet(1 .. Len(list)) /\ Cardinality(1 .. Len(list)) = Len(list)
  BY <1>1, FS_Interval
<1>3. list \in [1 .. Len(list) -> Listed(list)]
  BY <1>1 DEF Listed
<1>4. list \in Surjection(1 .. Len(list), Listed(list))
  BY <1>1, <1>3 DEF Surjection, Listed
<1>5. /\ IsFiniteSet(Listed(list)) /\ Cardinality(Listed(list)) <= Len(list)
      /\ Cardinality(Listed(list)) = Len(list)
           <=> list \in Injection(1 .. Len(list), Listed(list))
  BY <1>2, <1>4, FS_Surjection
<1>6. list \in Injection(1 .. Len(list), Listed(list))
        <=> \A i, j \in DOMAIN list : list[i] = list[j] => i = j
  BY <1>1, <1>3 DEF Injection, IsInjective
<1>7. QED
  BY <1>5, <1>6

\* How many elements of D come before i.
RankIn(D, B, i) == Cardinality({j \in D : <<j, i>> \in B})

\* B orders D strictly and totally.
Orders(B, D) ==
    /\ \A i \in D : <<i, i>> \notin B
    /\ \A i, j \in D : i # j => <<i, j>> \in B \/ <<j, i>> \in B
    /\ \A i, j, k \in D : <<i, j>> \in B /\ <<j, k>> \in B => <<i, k>> \in B

\* What comes before another has fewer elements before it.
LEMMA RanksGrow ==
    ASSUME NEW D, IsFiniteSet(D), NEW B, Orders(B, D), NEW i \in D, NEW j \in D, <<i, j>> \in B
    PROVE  RankIn(D, B, i) < RankIn(D, B, j)
<1> DEFINE P == {k \in D : <<k, i>> \in B}
           S == {k \in D : <<k, j>> \in B}
<1>1. P \subseteq S \ {i} /\ i \in S
  BY DEF Orders
<1>2. IsFiniteSet(S) /\ IsFiniteSet(P) /\ Cardinality(S) \in Nat /\ Cardinality(P) \in Nat
  <2>1. P \in SUBSET D /\ S \in SUBSET D
    OBVIOUS
  <2>2. QED
    BY <2>1, FS_Subset, FS_CardinalityType
<1>3. IsFiniteSet(S \ {i}) /\ Cardinality(S \ {i}) = Cardinality(S) - 1
  BY <1>1, <1>2, FS_RemoveElement
<1>4. Cardinality(P) <= Cardinality(S \ {i})
  BY <1>1, <1>3, FS_Subset
<1>5. RankIn(D, B, i) = Cardinality(P) /\ RankIn(D, B, j) = Cardinality(S)
  BY DEF RankIn
<1> HIDE DEF P, S
<1>6. QED
  BY <1>2, <1>3, <1>4, <1>5

\* No two have one rank, and no rank is left out.
LEMMA RanksAreTaken ==
    ASSUME NEW D, IsFiniteSet(D), NEW B, Orders(B, D)
    PROVE  /\ \A i, j \in D : RankIn(D, B, i) = RankIn(D, B, j) => i = j
           /\ \A r \in 0 .. Cardinality(D) - 1 : \E i \in D : RankIn(D, B, i) = r
<1> DEFINE n == Cardinality(D)
           f == [i \in D |-> RankIn(D, B, i)]
<1>1. n \in Nat
  BY FS_CardinalityType
<1>2. ASSUME NEW i \in D PROVE RankIn(D, B, i) \in 0 .. n - 1
  <2> DEFINE P == {k \in D : <<k, i>> \in B}
  <2>1. P \in SUBSET (D \ {i})
    BY DEF Orders
  <2>2. IsFiniteSet(D \ {i}) /\ Cardinality(D \ {i}) = n - 1
    BY FS_RemoveElement
  <2>4. RankIn(D, B, i) = Cardinality(P)
    BY DEF RankIn
  <2> HIDE DEF P, n
  <2>3. IsFiniteSet(P) /\ Cardinality(P) <= n - 1 /\ Cardinality(P) \in Nat
    <3>1. IsFiniteSet(P) /\ Cardinality(P) <= Cardinality(D \ {i})
      BY <2>1, <2>2, FS_Subset, Zenon
    <3>2. QED
      BY <2>2, <3>1, FS_CardinalityType
  <2>5. QED
    BY <1>1, <2>3, <2>4
<1>3. ASSUME NEW i \in D, NEW j \in D, i # j PROVE RankIn(D, B, i) # RankIn(D, B, j)
  <2>1. RankIn(D, B, i) < RankIn(D, B, j) \/ RankIn(D, B, j) < RankIn(D, B, i)
    BY <1>3, RanksGrow DEF Orders
  <2>2. RankIn(D, B, i) \in Int /\ RankIn(D, B, j) \in Int
    BY <1>2
  <2>3. QED
    BY <2>1, <2>2
<1>4. f \in Injection(D, 0 .. n - 1)
  <2>1. f \in [D -> 0 .. n - 1]
    BY <1>2
  <2>2. \A i, j \in D : f[i] = f[j] => i = j
    BY <1>3
  <2>3. QED
    BY <2>1, <2>2 DEF Injection, IsInjective
<1>5. IsFiniteSet(0 .. n - 1) /\ Cardinality(0 .. n - 1) = n
  BY <1>1, FS_Interval
<1>6. f \in Surjection(D, 0 .. n - 1)
  <2> HIDE DEF f
  <2>1. QED
    BY <1>4, <1>5, FS_Injection
<1>7. \A r \in 0 .. n - 1 : \E i \in D : f[i] = r
  BY <1>6 DEF Surjection
<1>8. QED
  BY <1>3, <1>7

-----------------------------------------------------------------------------
(* Concatenation *)

\* An element between two lists.
LEMMA ConcatOfThree ==
    ASSUME NEW T, NEW a \in Seq(T), NEW e \in T, NEW b \in Seq(T), NEW new, new = (a \o <<e>>) \o b
    PROVE  /\ new \in Seq(T) /\ Len(new) = Len(a) + 1 + Len(b)
           /\ \A i \in 1 .. Len(a) : new[i] = a[i]
           /\ new[Len(a) + 1] = e
           /\ \A i \in 1 .. Len(b) : new[Len(a) + 1 + i] = b[i]
<1> DEFINE c == a \o <<e>>
<1>1. c \in Seq(T) /\ Len(c) = Len(a) + 1 /\ c[Len(a) + 1] = e /\ \A i \in 1 .. Len(a) : c[i] = a[i]
  OBVIOUS
<1>2. new = c \o b
  OBVIOUS
<1> HIDE DEF c
<1>3. new \in Seq(T) /\ Len(new) = Len(c) + Len(b)
  BY <1>1, <1>2
<1>4. \A i \in 1 .. Len(c) + Len(b) : new[i] = IF i <= Len(c) THEN c[i] ELSE b[i - Len(c)]
  <2>1. \A i \in 1 .. Len(c) + Len(b) : (c \o b)[i] = IF i <= Len(c) THEN c[i] ELSE b[i - Len(c)]
    BY <1>1, ConcatProperties
  <2>2. QED
    BY <1>2, <2>1, Zenon
<1>5. Len(a) \in Nat /\ Len(b) \in Nat
  OBVIOUS
<1>6. PICK k \in Nat : k = Len(a)
  BY <1>5
<1>7. PICK m \in Nat : m = Len(b)
  BY <1>5
<1>8. \A i \in 1 .. k + 1 + m : new[i] = IF i <= k + 1 THEN c[i] ELSE b[i - (k + 1)]
  BY <1>1, <1>4, <1>6, <1>7
<1>9. ASSUME NEW i \in 1 .. m PROVE new[k + 1 + i] = b[i]
  <2>1. k + 1 + i \in 1 .. k + 1 + m /\ ~ (k + 1 + i <= k + 1) /\ (k + 1 + i) - (k + 1) = i
    OBVIOUS
  <2>2. QED
    BY <1>8, <2>1
<1>10. \A i \in 1 .. k : new[i] = a[i]
  BY <1>1, <1>6, <1>8
<1>11. new[k + 1] = e
  BY <1>1, <1>6, <1>8
<1>12. QED
  BY <1>1, <1>3, <1>6, <1>7, <1>9, <1>10, <1>11

\* An element put into a list at place k + 1.
Spliced(new, list, n, e, k) ==
    /\ new = SubSeq(list, 1, k) \o <<e>> \o SubSeq(list, k + 1, n)
    /\ Len(new) = n + 1 /\ new[k + 1] = e
    /\ \A i \in 1 .. k : new[i] = list[i]
    /\ \A i \in k + 2 .. n + 1 : new[i] = list[i - 1]

\* There is a list with e spliced in before place k + 1.
LEMMA SpliceIsList ==
    ASSUME NEW T, NEW list \in Seq(T), NEW e \in T, NEW n \in Nat, n = Len(list), NEW k \in 0 .. n
    PROVE  \E new \in Seq(T) : Spliced(new, list, n, e, k)
<1> DEFINE a == SubSeq(list, 1, k)
           b == SubSeq(list, k + 1, n)
<1>1. a \in Seq(T) /\ Len(a) = k /\ \A i \in 1 .. k : a[i] = list[i]
  OBVIOUS
<1>2. b \in Seq(T) /\ Len(b) = n - k /\ \A i \in 1 .. n - k : b[i] = list[i + k]
  OBVIOUS
<1> HIDE DEF a, b
<1>3. PICK new : new = (a \o <<e>>) \o b
  OBVIOUS
<1>4. /\ new \in Seq(T) /\ Len(new) = Len(a) + 1 + Len(b)
      /\ \A i \in 1 .. Len(a) : new[i] = a[i]
      /\ new[Len(a) + 1] = e
      /\ \A i \in 1 .. Len(b) : new[Len(a) + 1 + i] = b[i]
  BY <1>1, <1>2, <1>3, ConcatOfThree
<1>5. new = SubSeq(list, 1, k) \o <<e>> \o SubSeq(list, k + 1, n)
  BY <1>3, Zenon DEF a, b
<1>6. Len(new) = n + 1 /\ new[k + 1] = e
  BY <1>1, <1>2, <1>4
<1>7. \A i \in 1 .. k : new[i] = list[i]
  BY <1>1, <1>4
<1>8. ASSUME NEW i \in k + 2 .. n + 1 PROVE new[i] = list[i - 1]
  <2>1. PICK j \in 1 .. n - k : j = i - (k + 1)
    OBVIOUS
  <2>2. new[k + 1 + j] = b[j] /\ b[j] = list[j + k]
    BY <1>1, <1>2, <1>4
  <2>3. k + 1 + j = i /\ j + k = i - 1
    BY <2>1
  <2>4. QED
    BY <2>2, <2>3
<1>9. QED
  BY <1>4, <1>5, <1>6, <1>7, <1>8 DEF Spliced

\* A part of a list that starts after skip elements.
LEMMA PartOf ==
    ASSUME NEW T, NEW list \in Seq(T), NEW n \in Nat, n = Len(list), NEW skip \in 0 .. n
    PROVE  /\ SubSeq(list, skip + 1, n) \in Seq(T)
           /\ Len(SubSeq(list, skip + 1, n)) = n - skip
           /\ \A i \in 1 .. n - skip : SubSeq(list, skip + 1, n)[i] = list[i + skip]
OBVIOUS

\* The parts of a list that ends later: one that ended before is the same, one
\* that goes on to the end is longer by what was added.
PartsGrow(T, longer, list, more, first, last, next) ==
    /\ SubSeq(list, first, last) \in Seq(T) /\ SubSeq(list, next, Len(list)) \in Seq(T)
    /\ SubSeq(longer, first, last) = SubSeq(list, first, last)
    /\ SubSeq(longer, next, Len(longer)) = SubSeq(list, next, Len(list)) \o more
    /\ longer \in Seq(T) /\ Len(longer) >= Len(list) /\ Len(longer) \in Nat

\* Adding to a list is that.
LEMMA LaterParts ==
    ASSUME NEW T, NEW list \in Seq(T), NEW more \in Seq(T),
           NEW first \in Nat \ {0}, NEW last \in Nat, NEW next \in Nat,
           last < next, next <= Len(list) + 1, NEW longer, longer = list \o more
    PROVE  PartsGrow(T, longer, list, more, first, last, next)
<1>1. PICK n \in Nat : n = Len(list) /\ DOMAIN list = 1 .. n
  OBVIOUS
<1>2. PICK m \in Nat : m = Len(more) /\ DOMAIN more = 1 .. m
  OBVIOUS
<1>3. longer \in Seq(T) /\ Len(longer) = n + m /\ DOMAIN longer = 1 .. n + m
  BY <1>1, <1>2
<1>4. /\ \A i \in 1 .. n : longer[i] = list[i] /\ list[i] \in T
      /\ \A i \in 1 .. m : longer[n + i] = more[i] /\ more[i] \in T
  BY <1>1, <1>2
<1>5. /\ SubSeq(list, first, last) = [i \in 1 .. (last - first) + 1 |-> list[first + i - 1]]
      /\ SubSeq(longer, first, last) = [i \in 1 .. (last - first) + 1 |-> longer[first + i - 1]]
  OBVIOUS
<1>6. \A i \in 1 .. (last - first) + 1 : first + i - 1 \in 1 .. n
  BY <1>1
<1>7. SubSeq(longer, first, last) = SubSeq(list, first, last) /\ SubSeq(list, first, last) \in Seq(T)
  BY <1>4, <1>5, <1>6
<1>8. PICK skip \in 0 .. n : next = skip + 1
  <2>1. next - 1 \in 0 .. n /\ next = (next - 1) + 1
    BY <1>1
  <2>2. QED
    BY <2>1
<1>20. PICK k \in Nat : k = n - skip
  OBVIOUS
<1>21. /\ \A i \in 1 .. k : i + skip \in 1 .. n
       /\ \A i \in 1 .. k + m : i > k => i - k \in 1 .. m /\ i + skip = n + (i - k)
       /\ (n + m) - skip = k + m
  BY <1>20
<1>9. PICK tail \in Seq(T) : /\ tail = SubSeq(list, next, n) /\ Len(tail) = k
                            /\ \A i \in 1 .. k : tail[i] = list[i + skip]
  <2>1. /\ SubSeq(list, skip + 1, n) \in Seq(T) /\ Len(SubSeq(list, skip + 1, n)) = n - skip
        /\ \A i \in 1 .. n - skip : SubSeq(list, skip + 1, n)[i] = list[i + skip]
    <3>1. n = Len(list)
      BY <1>1
    <3>2. QED
      BY ONLY <3>1, PartOf, skip \in 0 .. n, n \in Nat, list \in Seq(T)
  <2>2. PICK p : p = SubSeq(list, skip + 1, n)
    OBVIOUS
  <2>3. p = SubSeq(list, next, n)
    BY <1>8, <2>2
  <2>4. p \in Seq(T) /\ Len(p) = k /\ \A i \in 1 .. k : p[i] = list[i + skip]
    BY <1>20, <2>1, <2>2, Zenon
  <2>5. QED
    BY <2>3, <2>4
<1>10. skip \in 0 .. n + m
  OBVIOUS
<1>11. PICK after \in Seq(T) : /\ after = SubSeq(longer, next, n + m) /\ Len(after) = k + m
                              /\ \A i \in 1 .. k + m : after[i] = longer[i + skip]
  <2>1. PICK len \in Nat : len = n + m
    OBVIOUS
  <2>2. longer \in Seq(T) /\ len = Len(longer) /\ skip \in 0 .. len
    BY <1>3, <1>10, <2>1
  <2>3. SubSeq(longer, skip + 1, len) \in Seq(T) /\ Len(SubSeq(longer, skip + 1, len)) = len - skip
        /\ \A i \in 1 .. len - skip : SubSeq(longer, skip + 1, len)[i] = longer[i + skip]
    BY ONLY <2>1, <2>2, PartOf, skip \in 0 .. n
  <2>4. len - skip = k + m
    BY <1>21, <2>1
  <2>5. PICK p : p = SubSeq(longer, skip + 1, len)
    OBVIOUS
  <2>6. p = SubSeq(longer, next, n + m)
    BY <1>8, <2>1, <2>5
  <2>7. p \in Seq(T) /\ Len(p) = k + m /\ \A i \in 1 .. k + m : p[i] = longer[i + skip]
    BY <2>3, <2>4, <2>5
  <2>8. QED
    BY <2>6, <2>7
<1>12. after = tail \o more
  <2>1. PICK both : both = tail \o more
    OBVIOUS
  <2>2. /\ both \in Seq(T) /\ Len(both) = k + m
        /\ \A i \in 1 .. k + m : both[i] = IF i <= k THEN tail[i] ELSE more[i - k]
    <3>1. PICK p \in Nat : p = Len(tail) + Len(more)
      OBVIOUS
    <3>2. /\ tail \o more \in Seq(T) /\ Len(tail \o more) = p
          /\ \A i \in 1 .. p :
                (tail \o more)[i] = IF i <= Len(tail) THEN tail[i] ELSE more[i - Len(tail)]
      BY <3>1, ConcatProperties, Zenon
    <3>3. p = k + m /\ Len(tail) = k
      BY <1>2, <1>9, <3>1
    <3>4. QED
      BY <2>1, <3>2, <3>3, Zenon
  <2>3. ASSUME NEW i \in 1 .. k + m PROVE both[i] = after[i]
    <3>1. CASE i <= k
      <4>1. i \in 1 .. k
        BY <2>3, <3>1
      <4>2. after[i] = longer[i + skip] /\ both[i] = list[i + skip]
        BY <1>9, <1>11, <2>2, <2>3, <3>1, <4>1
      <4>3. QED
        BY <1>4, <1>21, <4>1, <4>2
    <3>2. CASE i > k
      <4>1. PICK j \in 1 .. m : j = i - k /\ i + skip = n + j
        BY <1>21, <2>3, <3>2
      <4>2. after[i] = more[j]
        BY <1>4, <1>11, <2>3, <4>1
      <4>3. both[i] = more[j]
        BY <2>2, <2>3, <3>2, <4>1
      <4>4. QED
        BY <4>2, <4>3
    <3>3. QED
      BY <2>3, <3>1, <3>2
  <2>4. QED
    BY <1>11, <2>1, <2>2, <2>3, SeqEqual
<1>13. SubSeq(longer, next, Len(longer)) = SubSeq(list, next, Len(list)) \o more
  BY <1>1, <1>3, <1>9, <1>11, <1>12, Zenon
<1>14. SubSeq(list, next, Len(list)) \in Seq(T)
  BY <1>1, <1>9, Zenon
<1>15. Len(longer) >= Len(list) /\ Len(longer) \in Nat
  BY <1>1, <1>3
<1>16. QED
  BY <1>3, <1>7, <1>13, <1>14, <1>15, Zenon DEF PartsGrow

\* What is added to the second of two lists is filtered last.
FiltersLast(T, S) ==
    \A a, b, more \in Seq(T) :
       Filtered(a \o (b \o more), S) = Filtered(a \o b, S) \o Filtered(more, S)

\* That is so of all lists.
LEMMA FilteredOfTwo == ASSUME NEW T, NEW S PROVE FiltersLast(T, S)
<1> SUFFICES ASSUME NEW a \in Seq(T), NEW b \in Seq(T), NEW more \in Seq(T)
             PROVE  Filtered(a \o (b \o more), S) = Filtered(a \o b, S) \o Filtered(more, S)
  BY DEF FiltersLast
<1>1. (a \o b) \o more = a \o (b \o more)
  BY ConcatAssociative
<1>2. a \o b \in Seq(T)
  OBVIOUS
<1>3. Filtered((a \o b) \o more, S) = Filtered(a \o b, S) \o Filtered(more, S)
  <2>1. PICK c \in Seq(T) : c = a \o b
    BY <1>2
  <2>2. Filtered(c \o more, S) = Filtered(c, S) \o Filtered(more, S)
    BY FilteredConcat
  <2>3. QED
    BY <2>1, <2>2, Zenon
<1>4. QED
  BY <1>1, <1>3, Zenon

\* What is wanted of two parts of a list, of which the second goes on to the
\* end, grows by what is wanted of what is added.
PartsFilter(longer, list, more, f, l, v, wants) ==
    /\ v <= Len(longer) + 1
    /\ Filtered(SubSeq(longer, f, l) \o SubSeq(longer, v, Len(longer)), wants) =
         Filtered(SubSeq(list, f, l) \o SubSeq(list, v, Len(list)), wants) \o Filtered(more, wants)

\* Adding to a list is that.
LEMMA FilteredPartsGrow ==
    ASSUME NEW T, NEW list \in Seq(T), NEW more \in Seq(T), NEW wants,
           NEW f \in Nat \ {0}, NEW l \in Nat, NEW v \in Nat, l < v, v <= Len(list) + 1
    PROVE  list \o more \in Seq(T) /\ PartsFilter(list \o more, list, more, f, l, v, wants)
<1>1. PICK longer : longer = list \o more
  OBVIOUS
<1>2. PartsGrow(T, longer, list, more, f, l, v)
  BY <1>1, LaterParts, Zenon
<1>3. PICK a \in Seq(T), b \in Seq(T) :
         a = SubSeq(list, f, l) /\ b = SubSeq(list, v, Len(list))
  BY <1>2, Zenon DEF PartsGrow
<1>4. SubSeq(longer, f, l) \o SubSeq(longer, v, Len(longer)) = a \o (b \o more)
  BY <1>2, <1>3, Zenon DEF PartsGrow
<1>5. Filtered(a \o (b \o more), wants) = Filtered(a \o b, wants) \o Filtered(more, wants)
  <2>1. FiltersLast(T, wants)
    BY FilteredOfTwo
  <2>2. a \in Seq(T) /\ b \in Seq(T) /\ more \in Seq(T)
    OBVIOUS
  <2>3. QED
    BY <2>1, <2>2, Zenon DEF FiltersLast
<1>6. longer \in Seq(T)
  BY <1>2, Zenon DEF PartsGrow
<1>7. v <= Len(longer) + 1
  <2>1. Len(longer) >= Len(list) /\ Len(longer) \in Nat
    BY <1>2, Zenon DEF PartsGrow
  <2>2. PICK m \in Nat, n \in Nat : m = Len(longer) /\ n = Len(list)
    BY <2>1
  <2>3. v <= n + 1 /\ m >= n
    BY <2>1, <2>2
  <2>4. v <= m + 1
    BY <2>3
  <2>5. QED
    BY <2>2, <2>4
<1>8. QED
  BY <1>1, <1>3, <1>4, <1>5, <1>6, <1>7, Zenon DEF PartsFilter
=============================================================================
