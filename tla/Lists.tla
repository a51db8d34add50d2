------------------------------- MODULE Lists -------------------------------
(***************************************************************************)
(* What the code does with its arrays: filter and reduce.  The community   *)
(* modules have the same as operators that take an operator; here a test   *)
(* is a set and a summand a function, and the recursion is that of a       *)
(* function, so that ListProofs can say what they compute for any list.    *)
(***************************************************************************)
EXTENDS Integers, Sequences, FiniteSets

Listed(list) == {list[i] : i \in DOMAIN list}

\* Array.filter: the elements that are in S, in their order.
Filtered(list, S) ==
    LET upTo[n \in 0..Len(list)] ==
          IF n = 0 THEN <<>>
          ELSE IF list[n] \in S THEN Append(upTo[n - 1], list[n]) ELSE upTo[n - 1]
    IN  upTo[Len(list)]

\* Array.reduce of a sum: of the numbers f[x], for x in S.
SumOver(f, S) ==
    LET sum[T \in SUBSET S] ==
          IF T = {} THEN 0
          ELSE LET x == CHOOSE x \in T : TRUE IN f[x] + sum[T \ {x}]
    IN  sum[S]

\* 2 to the power of n.
PowerOfTwo(n) ==
    LET doubled[i \in 0..n] == IF i = 0 THEN 1 ELSE 2 * doubled[i - 1]
    IN  doubled[n]
=============================================================================
