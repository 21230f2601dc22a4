------------------------ MODULE EndpointPacingProofs ------------------------
(***************************************************************************)
(* Proofs about RateRules and EndpointPacing: what the loops of            *)
(* normalizeRules and matchRule compute for every list of rules and every  *)
(* request, and that the endpoint of a rule keeps that rule's limits.  The *)
(* loops are recursive functions of the turn: that such a function exists, *)
(* and that a fact holds after every turn, is induction over a set of      *)
(* numbers.                                                                *)
(***************************************************************************)
EXTENDS EndpointPacing, RateLimiterProofs, SequenceTheorems, WellFoundedInduction

\* A set of natural numbers that is not empty has a smallest one.
LEMMA Smallest ==
  ASSUME NEW S \in SUBSET Nat, S # {}
  PROVE  \E n \in S : \A m \in S : n <= m
<1> DEFINE R == {ss \in Nat \X Nat : ss[1] < ss[2]}
<1>1. IsWellFoundedOn(R, Nat)
  BY NatLessThanWellFounded, Zenon DEF OpToRel
<1>2. PICK x \in S : \A y \in S : ~ (<<y, x>> \in R)
  <2> HIDE DEF R
  <2> QED BY <1>1, WFMin
<1>3. \A y \in S : <<y, x>> \in R <=> y < x
  OBVIOUS
<1>4. \A y \in S : ~ (y < x)
  BY <1>2, <1>3
<1> HIDE DEF R
<1> QED BY <1>4

\* Induction over the turns of a loop: the turns after which a fact holds are
\* all of them, if it holds before the first and each turn keeps it.
LEMMA EveryTurn ==
  ASSUME NEW N \in Nat, NEW H, 0 \in H, \A i \in 1..N : i - 1 \in H => i \in H
  PROVE  \A i \in 0..N : i \in H
<1> DEFINE Without == {i \in 0..N : i \notin H}
<1>1. SUFFICES ASSUME Without # {} PROVE FALSE
  OBVIOUS
<1>2. Without \in SUBSET Nat
  OBVIOUS
<1>3. PICK n \in Without : \A m \in Without : n <= m
  <2> HIDE DEF Without
  <2> QED BY <1>1, <1>2, Smallest
<1>4. n \in 1..N /\ n - 1 \in 0..N /\ n \notin H
  BY <1>3
<1>5. n - 1 \in H
  BY <1>3, <1>4
<1> QED BY <1>4, <1>5

\* What a loop leaves after each of its N turns, if it starts with z and turn i
\* makes turn[i][x] of x.
Loop(g, N, z, turn) == g[0] = z /\ \A i \in 1..N : g[i] = turn[i][g[i - 1]]

LEMMA LoopExists ==
  ASSUME NEW N \in Nat, NEW T, NEW z \in T, NEW turn \in [1..N -> [T -> T]]
  PROVE  \E g \in [0..N -> T] : Loop(g, N, z, turn)
<1> DEFINE After(n, g) == Loop(g, n, z, turn)
           H == {n \in 0..N : \E g \in [0..n -> T] : After(n, g)}
<1>1. 0 \in H
  <2> DEFINE h == [i \in 0..0 |-> z]
  <2>1. h \in [0..0 -> T] /\ h[0] = z
    OBVIOUS
  <2>2. After(0, h)
    BY <2>1 DEF Loop
  <2> HIDE DEF h
  <2> QED BY <2>1, <2>2
<1>2. ASSUME NEW n \in 1..N, n - 1 \in H PROVE n \in H
  <2>1. PICK g \in [0..(n - 1) -> T] : After(n - 1, g)
    BY <1>2
  <2> DEFINE h == [i \in 0..n |-> IF i = n THEN turn[n][g[n - 1]] ELSE g[i]]
  <2>2. g[n - 1] \in T /\ turn[n][g[n - 1]] \in T
    OBVIOUS
  <2>3. h \in [0..n -> T]
    BY <2>2
  <2>4. h[0] = z
    BY <2>1 DEF Loop
  <2>5. ASSUME NEW i \in 1..n PROVE h[i] = turn[i][h[i - 1]]
    <3>1. CASE i = n
      <4>1. h[n - 1] = g[n - 1] /\ h[n] = turn[n][g[n - 1]]
        OBVIOUS
      <4> QED BY <3>1, <4>1
    <3>2. CASE i # n
      <4>1. i \in 1..(n - 1) /\ h[i] = g[i] /\ h[i - 1] = g[i - 1]
        BY <3>2
      <4> QED BY <2>1, <4>1 DEF Loop
    <3> QED BY <3>1, <3>2
  <2>6. After(n, h)
    BY <2>4, <2>5 DEF Loop
  <2> HIDE DEF h, After
  <2> QED BY <2>3, <2>6
<1>3. N \in H
  <2> HIDE DEF H
  <2>1. \A i \in 0..N : i \in H
    BY <1>1, <1>2, EveryTurn
  <2> QED BY <2>1
<1>4. \E g \in [0..N -> T] : After(N, g)
  <2> HIDE DEF After
  <2> QED BY <1>3, Zenon
<1> QED BY <1>4

-----------------------------------------------------------------------------

LEMMA MethodReplaced ==
  ASSUME NEW A, NEW B, NEW C, NEW D, NEW F, NEW m \in A,
         NEW r \in [method : A, prefix : B, minInterval : C, maxConcurrent : D, perAccount : F]
  PROVE  LET u == [r EXCEPT !.method = m] IN
         /\ u \in [method : A, prefix : B, minInterval : C, maxConcurrent : D, perAccount : F]
         /\ u.method = m /\ u.prefix = r.prefix /\ u.minInterval = r.minInterval
         /\ u.maxConcurrent = r.maxConcurrent /\ u.perAccount = r.perAccount
  OBVIOUS

\* The rules as the loop keeps them.
NormalRules == {Upper(rule) : rule \in RateLimitRules}

LEMMA UpperFields ==
  ASSUME NEW rule \in RateLimitRules
  PROVE  /\ Upper(rule) \in NormalRules
         /\ Upper(rule).method = ToUpper(rule.method) /\ Upper(rule).prefix = rule.prefix
         /\ Upper(rule).minInterval = rule.minInterval
         /\ Upper(rule).maxConcurrent = rule.maxConcurrent
         /\ Upper(rule).perAccount = rule.perAccount
<1> DEFINE A == STRING \cup {ToUpper(rule.method)}
<1>1. ToUpper(rule.method) \in A
  OBVIOUS
<1>2. rule \in [method : A, prefix : Seq(STRING), minInterval : Nat, maxConcurrent : Nat,
                perAccount : BOOLEAN]
  <2> HIDE DEF ToUpper
  <2> QED BY DEF RateLimitRules
<1> HIDE DEF ToUpper, A
<1>3. LET u == Upper(rule) IN
      /\ u.method = ToUpper(rule.method) /\ u.prefix = rule.prefix
      /\ u.minInterval = rule.minInterval
      /\ u.maxConcurrent = rule.maxConcurrent /\ u.perAccount = rule.perAccount
  BY <1>1, <1>2, MethodReplaced, Zenon DEF Upper
<1> QED BY <1>3, Zenon DEF NormalRules

\* The loop of normalizeRules, turn by turn.
LEMMA KeptTurns ==
  ASSUME NEW rules \in Seq(RateLimitRules)
  PROVE  /\ KeptOf(rules) \in [0..Len(rules) -> Seq(NormalRules)]
         /\ KeptOf(rules)[0] = <<>>
         /\ \A i \in 1..Len(rules) :
              KeptOf(rules)[i] = IF rules[i].prefix = <<>> THEN KeptOf(rules)[i - 1]
                                 ELSE Append(KeptOf(rules)[i - 1], Upper(rules[i]))
<1> DEFINE N == Len(rules)
           T == Seq(NormalRules)
           Turn(i, x) == IF rules[i].prefix = <<>> THEN x ELSE Append(x, Upper(rules[i]))
           Of(g) == [i \in 0..N |-> IF i = 0 THEN <<>> ELSE Turn(i, g[i - 1])]
           turn == [i \in 1..N |-> [x \in T |-> Turn(i, x)]]
<1>1. N \in Nat /\ <<>> \in T
  OBVIOUS
<1>2. turn \in [1..N -> [T -> T]]
  <2>1. \A i \in 1..N, x \in T : Turn(i, x) \in T
    BY UpperFields
  <2> HIDE DEF T, Turn, N
  <2> QED BY <2>1
<1>3. PICK g \in [0..N -> T] : Loop(g, N, <<>>, turn)
  <2> HIDE DEF T, N, turn
  <2> QED BY <1>1, <1>2, LoopExists
<1>4. \A i \in 1..N : g[i] = Turn(i, g[i - 1])
  <2>1. \A i \in 1..N, x \in T : turn[i][x] = Turn(i, x)
    <3> HIDE DEF Turn, T, N
    <3> QED BY Zenon
  <2>2. \A i \in 1..N : g[i - 1] \in T
    BY <1>1
  <2> HIDE DEF turn, Turn, T, N
  <2> QED BY <1>3, <2>1, <2>2 DEF Loop
<1>5. g = Of(g)
  <2> HIDE DEF Turn, T, N
  <2>1. \A i \in 0..N : g[i] = Of(g)[i]
    BY <1>1, <1>3, <1>4 DEF Loop
  <2> QED BY <2>1, <1>3
<1> DEFINE out == KeptOf(rules)
<1>6. out = Of(out)
  <2>1. out = CHOOSE o : o = Of(o)
    BY Zenon DEF KeptOf
  <2> HIDE DEF Of, out
  <2> QED BY <1>5, <2>1
<1>7. out[0] = <<>> /\ \A i \in 1..N : out[i] = Turn(i, out[i - 1])
  <2> HIDE DEF Turn, out, N
  <2> QED BY <1>1, <1>6
<1>8. \A i \in 0..N : out[i] \in T
  <2> DEFINE H == {i \in 0..N : out[i] \in T}
  <2>1. 0 \in H
    <3> HIDE DEF out, T, Turn
    <3> QED BY <1>1, <1>7
  <2>2. ASSUME NEW i \in 1..N, i - 1 \in H PROVE i \in H
    <3>1. \A x \in T : Turn(i, x) \in T
      BY UpperFields
    <3> HIDE DEF Turn, out, T
    <3>2. out[i - 1] \in T /\ out[i] = Turn(i, out[i - 1])
      BY <1>7, <2>2
    <3> QED BY <3>1, <3>2
  <2>3. \A i \in 0..N : i \in H
    <3> HIDE DEF H, N
    <3> QED BY <1>1, <2>1, <2>2, EveryTurn
  <2> QED BY <2>3
<1>9. out \in [0..N -> T]
  <2> HIDE DEF Turn, T, N, out
  <2> QED BY <1>6, <1>8
<1> QED BY <1>7, <1>9

\* from tells where the rules of list come from, when list is what the loop
\* keeps of the first n rules: each from its own place, in order, and every rule
\* with a prefix is there.
Origin(from, list, rules, n) ==
    /\ \A k \in 1..Len(list) : /\ list[k] = Upper(rules[from[k]])
                               /\ rules[from[k]].prefix # <<>>
    /\ \A k, m \in 1..Len(list) : k < m => from[k] < from[m]
    /\ \A j \in 1..n : rules[j].prefix # <<>> => \E k \in 1..Len(list) : from[k] = j

\* normalizeRules keeps exactly the rules that have a prefix, in the order of
\* the list and with their method in upper case, and none of them twice.
THEOREM NormalizedInOrder ==
  ASSUME NEW rules \in Seq(RateLimitRules)
  PROVE  LET list == normalizeRules(rules) IN
         /\ list \in Seq(NormalRules)
         /\ \E from \in [1..Len(list) -> 1..Len(rules)] : Origin(from, list, rules, Len(rules))
<1> DEFINE N == Len(rules)
           out == KeptOf(rules)
           H == {n \in 0..N : \E from \in [1..Len(out[n]) -> 1..n] : Origin(from, out[n], rules, n)}
<1>1. /\ N \in Nat /\ out \in [0..N -> Seq(NormalRules)] /\ out[0] = <<>>
      /\ \A i \in 1..N : out[i] = IF rules[i].prefix = <<>> THEN out[i - 1]
                                  ELSE Append(out[i - 1], Upper(rules[i]))
  BY KeptTurns
<1> HIDE DEF out
<1>2. 0 \in H
  <2> DEFINE from == [k \in 1..0 |-> 0]
  <2>1. Len(out[0]) = 0
    BY <1>1
  <2>2. from \in [1..0 -> 1..0] /\ Origin(from, out[0], rules, 0)
    BY <2>1 DEF Origin
  <2> HIDE DEF from
  <2> QED BY <1>1, <2>1, <2>2
<1>3. ASSUME NEW i \in 1..N, i - 1 \in H PROVE i \in H
  <2>1. PICK f \in [1..Len(out[i - 1]) -> 1..(i - 1)] : Origin(f, out[i - 1], rules, i - 1)
    BY <1>3
  <2> DEFINE old == out[i - 1]
             n == Len(old)
  <2>2. old \in Seq(NormalRules) /\ n \in Nat
    BY <1>1
  <2>3. CASE rules[i].prefix = <<>>
    <3>1. out[i] = old
      BY <1>1, <2>3
    <3>2. f \in [1..n -> 1..i]
      OBVIOUS
    <3>3. Origin(f, old, rules, i)
      BY <2>1, <2>3 DEF Origin
    <3> HIDE DEF old, n
    <3>4. \E from \in [1..Len(out[i]) -> 1..i] : Origin(from, out[i], rules, i)
      BY <3>1, <3>2, <3>3 DEF n
    <3> QED BY <3>4
  <2>4. CASE rules[i].prefix # <<>>
    <3> DEFINE from == [k \in 1..(n + 1) |-> IF k = n + 1 THEN i ELSE f[k]]
               new == Append(old, Upper(rules[i]))
    <3>1. out[i] = new
      BY <1>1, <2>4
    <3>2. /\ Len(new) = n + 1 /\ new[n + 1] = Upper(rules[i])
          /\ \A k \in 1..n : new[k] = old[k]
      BY <2>2
    <3>3. /\ from \in [1..(n + 1) -> 1..i] /\ from[n + 1] = i
          /\ \A k \in 1..n : from[k] = f[k] /\ f[k] \in 1..(i - 1)
      <4>1. f \in [1..n -> 1..(i - 1)]
        OBVIOUS
      <4> HIDE DEF n, old
      <4> QED BY <2>2, <4>1
    <3> HIDE DEF from, new, old, n
    <3>4. Origin(from, new, rules, i)
      <4>0. \A k \in 1..(n + 1) : k \in 1..n \/ k = n + 1
        BY <2>2
      <4>1. \A k \in 1..(n + 1) : new[k] = Upper(rules[from[k]]) /\ rules[from[k]].prefix # <<>>
        <5>1. \A k \in 1..n : old[k] = Upper(rules[f[k]]) /\ rules[f[k]].prefix # <<>>
          BY <2>1 DEF Origin, n, old
        <5> QED BY <2>4, <3>2, <3>3, <4>0, <5>1
      <4>2. \A k, m \in 1..(n + 1) : k < m => from[k] < from[m]
        <5>1. \A k, m \in 1..n : k < m => f[k] < f[m]
          BY <2>1 DEF Origin, n, old
        <5>2. \A k \in 1..n : f[k] < i
          BY <3>3
        <5>3. \A m \in 1..n : ~ (n + 1 < m)
          BY <2>2
        <5> SUFFICES ASSUME NEW k \in 1..(n + 1), NEW m \in 1..(n + 1), k < m
                     PROVE  from[k] < from[m]
          OBVIOUS
        <5>4. k \in 1..n
          BY <2>2, <4>0, <5>3
        <5>5. CASE m \in 1..n
          BY <3>3, <5>1, <5>4, <5>5
        <5>6. CASE m = n + 1
          BY <3>3, <5>2, <5>4, <5>6
        <5> QED BY <4>0, <5>5, <5>6
      <4>3. ASSUME NEW j \in 1..i, rules[j].prefix # <<>>
            PROVE  \E k \in 1..(n + 1) : from[k] = j
        <5>1. CASE j = i
          BY <2>2, <3>3, <5>1
        <5>2. CASE j # i
          <6>1. PICK k \in 1..n : f[k] = j
            BY <2>1, <4>3, <5>2 DEF Origin, n, old
          <6> QED BY <2>2, <3>3, <6>1
        <5> QED BY <5>1, <5>2
      <4> QED BY <3>2, <4>1, <4>2, <4>3 DEF Origin
    <3> QED BY <3>1, <3>2, <3>3, <3>4
  <2> QED BY <2>3, <2>4
<1>4. N \in H
  <2> HIDE DEF H, N
  <2>1. \A i \in 0..N : i \in H
    BY <1>1, <1>2, <1>3, EveryTurn
  <2> QED BY <1>1, <2>1
<1>5. out[N] \in Seq(NormalRules)
  BY <1>1
<1>6. normalizeRules(rules) = out[N]
  BY DEF normalizeRules, out
<1> QED BY <1>4, <1>5, <1>6

-----------------------------------------------------------------------------

\* The loop of matchRule, turn by turn.
LEMMA BestTurns ==
  ASSUME NEW rules \in Seq(NormalRules), NEW method, NEW path
  PROVE  LET best == BestOf(rules, method, path) IN
         /\ best[0] = 0
         /\ \A i \in 1..Len(rules) :
              /\ best[i - 1] \in 0..(i - 1)
              /\ best[i] = IF Fits(rules[i], method, path)
                              /\ (best[i - 1] = 0
                                    \/ Len(rules[i].prefix) > Len(rules[best[i - 1]].prefix))
                           THEN i ELSE best[i - 1]
<1> DEFINE N == Len(rules)
           T == 0..N
           Better(i, x) == Fits(rules[i], method, path)
                           /\ (x = 0 \/ Len(rules[i].prefix) > Len(rules[x].prefix))
           Turn(i, x) == IF Better(i, x) THEN i ELSE x
           Of(g) == [i \in 0..N |-> IF i = 0 THEN 0 ELSE Turn(i, g[i - 1])]
           turn == [i \in 1..N |-> [x \in T |-> Turn(i, x)]]
<1>1. N \in Nat /\ 0 \in T
  OBVIOUS
<1>2. turn \in [1..N -> [T -> T]]
  <2>1. \A i \in 1..N, x \in T : Turn(i, x) \in T
    <3> HIDE DEF Better, N
    <3> QED BY <1>1
  <2> HIDE DEF T, Turn, N
  <2> QED BY <2>1
<1>3. PICK g \in [0..N -> T] : Loop(g, N, 0, turn)
  <2> HIDE DEF T, N, turn
  <2> QED BY <1>1, <1>2, LoopExists
<1>4. \A i \in 1..N : g[i] = Turn(i, g[i - 1])
  <2>1. \A i \in 1..N, x \in T : turn[i][x] = Turn(i, x)
    <3> HIDE DEF Turn, T, N
    <3> QED BY Zenon
  <2>2. \A i \in 1..N : g[i - 1] \in T
    <3> HIDE DEF N, T
    <3> QED BY <1>1
  <2> HIDE DEF turn, Turn, T, N
  <2> QED BY <1>3, <2>1, <2>2 DEF Loop
<1>5. g = Of(g)
  <2> HIDE DEF Turn, T, N
  <2>1. \A i \in 0..N : g[i] = Of(g)[i]
    BY <1>1, <1>3, <1>4 DEF Loop
  <2> QED BY <2>1, <1>3
<1> DEFINE best == BestOf(rules, method, path)
<1>6. best = Of(best)
  <2>1. best = CHOOSE o : o = Of(o)
    BY Zenon DEF BestOf
  <2> HIDE DEF Of, best
  <2> QED BY <1>5, <2>1
<1>7. best[0] = 0 /\ \A i \in 1..N : best[i] = Turn(i, best[i - 1])
  <2> HIDE DEF Turn, best, N
  <2>1. Of(best)[0] = 0 /\ \A i \in 1..N : Of(best)[i] = Turn(i, best[i - 1])
    BY <1>1
  <2> HIDE DEF Of
  <2> QED BY <1>6, <2>1
<1>8. \A i \in 0..N : best[i] \in 0..i
  <2> DEFINE H == {i \in 0..N : best[i] \in 0..i}
  <2>1. 0 \in H
    <3> HIDE DEF best, Turn, N
    <3> QED BY <1>1, <1>7
  <2>2. ASSUME NEW i \in 1..N, i - 1 \in H PROVE i \in H
    <3>1. best[i - 1] \in 0..(i - 1) /\ best[i] = Turn(i, best[i - 1])
      BY <1>7, <2>2
    <3>2. best[i] = i \/ best[i] = best[i - 1]
      <4> HIDE DEF Better, best, N
      <4> QED BY <3>1
    <3> HIDE DEF Turn, best, N
    <3>3. i \in 0..N /\ best[i] \in 0..i
      <4> DEFINE a == best[i - 1]
                 b == best[i]
      <4>1. a \in 0..(i - 1) /\ (b = i \/ b = a)
        BY <3>1, <3>2
      <4> HIDE DEF a, b
      <4>2. i \in 0..N /\ b \in 0..i
        BY <1>1, <4>1
      <4> QED BY <4>2 DEF b
    <3> QED BY <3>3
  <2>3. \A i \in 0..N : i \in H
    <3> HIDE DEF H, N
    <3> QED BY <1>1, <2>1, <2>2, EveryTurn
  <2> QED BY <2>3
<1>9. \A i \in 1..N : best[i - 1] \in 0..(i - 1)
  <2> HIDE DEF best, N
  <2> QED BY <1>1, <1>8
<1> QED BY <1>7, <1>9

\* b is the place of the best of the first n rules: the first of the longest
\* that fit, 0 if none fits.
IsBest(b, rules, n, method, path) ==
    LET fits(j) == Fits(rules[j], method, path)
        length(j) == Len(rules[j].prefix)
    IN /\ b = 0 => \A j \in 1..n : ~ fits(j)
       /\ b # 0 => /\ b \in 1..n /\ fits(b)
                   /\ \A j \in 1..n : fits(j) =>
                        length(j) < length(b) \/ (length(j) = length(b) /\ b <= j)

LEMMA PrefixType ==
  ASSUME NEW rules \in Seq(NormalRules), NEW i \in 1..Len(rules)
  PROVE  rules[i].prefix \in Seq(STRING) /\ Len(rules[i].prefix) \in Nat
<1>1. rules[i] \in NormalRules
  OBVIOUS
<1>2. PICK rule \in RateLimitRules : rules[i] = Upper(rule)
  BY <1>1, Zenon DEF NormalRules
<1>3. rules[i].prefix = rule.prefix
  BY <1>2, UpperFields
<1>4. rule.prefix \in Seq(STRING)
  BY DEF RateLimitRules
<1> QED BY <1>3, <1>4

\* matchRule finds a rule whenever one fits the request, and then the one with
\* the longest prefix; of several as long, the first in the list.
THEOREM MatchIsLongest ==
  ASSUME NEW rules \in Seq(NormalRules), NEW method, NEW path
  PROVE  IsBest(matchRule(rules, method, path), rules, Len(rules), method, path)
<1> DEFINE N == Len(rules)
           best == BestOf(rules, method, path)
           fits(j) == Fits(rules[j], method, path)
           length(j) == Len(rules[j].prefix)
           H == {n \in 0..N : IsBest(best[n], rules, n, method, path)}
<1>1. /\ N \in Nat /\ best[0] = 0
      /\ \A i \in 1..N :
           /\ best[i - 1] \in 0..(i - 1)
           /\ best[i] = IF fits(i) /\ (best[i - 1] = 0 \/ length(i) > length(best[i - 1]))
                        THEN i ELSE best[i - 1]
  BY BestTurns
<1>2. \A i \in 1..N : length(i) \in Nat
  BY PrefixType
<1>3. ASSUME NEW n \in 0..N, NEW b
      PROVE  IsBest(b, rules, n, method, path) <=>
               /\ b = 0 => \A j \in 1..n : ~ fits(j)
               /\ b # 0 => /\ b \in 1..n /\ fits(b)
                           /\ \A j \in 1..n : fits(j) =>
                                length(j) < length(b) \/ (length(j) = length(b) /\ b <= j)
  BY DEF IsBest
<1> HIDE DEF fits, length, best, N
<1>4. 0 \in H
  <2>1. 0 \in 0..N
    BY <1>1
  <2>2. IsBest(0, rules, 0, method, path)
    BY <1>3, <2>1
  <2> QED BY <1>1, <2>1, <2>2
<1>5. ASSUME NEW i \in 1..N, i - 1 \in H PROVE i \in H
  <2>1. i - 1 \in 0..N /\ i \in 0..N /\ \A j \in 1..i : j \in 1..(i - 1) \/ j = i
    BY <1>1
  <2> DEFINE a == best[i - 1]
  <2>2. a \in 0..(i - 1) /\ IsBest(a, rules, i - 1, method, path)
    BY <1>1, <1>5
  <2>3. /\ a = 0 => \A j \in 1..(i - 1) : ~ fits(j)
        /\ a # 0 => /\ a \in 1..(i - 1) /\ fits(a)
                    /\ \A j \in 1..(i - 1) : fits(j) =>
                         length(j) < length(a) \/ (length(j) = length(a) /\ a <= j)
    BY <1>3, <2>1, <2>2
  <2>4. \A j \in 1..i : length(j) \in Nat
    BY <1>1, <1>2
  <2>5. CASE fits(i) /\ (a = 0 \/ length(i) > length(a))
    <3>1. best[i] = i
      BY <1>1, <2>5
    <3>2. \A j \in 1..(i - 1) : fits(j) => length(j) < length(i)
      <4>1. CASE a = 0
        BY <2>3, <4>1
      <4>2. CASE a # 0
        <5> HIDE DEF a
        <5>1. a \in 1..(i - 1) /\ a \in 1..i
          BY <2>3, <4>2
        <5>2. \A j \in 1..(i - 1) : fits(j) => length(j) <= length(a)
          BY <2>1, <2>3, <2>4, <4>2, <5>1
        <5> QED BY <2>1, <2>4, <2>5, <4>2, <5>1, <5>2
      <4> QED BY <4>1, <4>2
    <3>3. IsBest(i, rules, i, method, path)
      BY <1>3, <2>1, <2>5, <3>2
    <3> QED BY <2>1, <3>1, <3>3
  <2>6. CASE ~ (fits(i) /\ (a = 0 \/ length(i) > length(a)))
    <3>1. best[i] = a
      BY <1>1, <2>6
    <3> HIDE DEF a
    <3>2. CASE a = 0
      <4>1. IsBest(a, rules, i, method, path)
        BY <1>3, <2>1, <2>3, <2>6, <3>2
      <4> QED BY <2>1, <3>1, <4>1
    <3>3. CASE a # 0
      <4>1. a \in 1..i /\ fits(a) /\ a <= i
        BY <2>3, <3>3
      <4>2. fits(i) => length(i) < length(a) \/ length(i) = length(a)
        BY <2>4, <2>6, <3>3, <4>1
      <4>3. IsBest(a, rules, i, method, path)
        BY <1>3, <2>1, <2>3, <3>3, <4>1, <4>2
      <4> QED BY <2>1, <3>1, <4>3
    <3> QED BY <3>2, <3>3
  <2> QED BY <2>5, <2>6
<1>6. N \in H
  <2> HIDE DEF H
  <2>1. \A i \in 0..N : i \in H
    BY <1>1, <1>4, <1>5, EveryTurn
  <2> QED BY <1>1, <2>1
<1>7. matchRule(rules, method, path) = best[N]
  BY DEF matchRule, best, N
<1> QED BY <1>6, <1>7 DEF N

-----------------------------------------------------------------------------

LEMMA NoMethod == \A m : ToUpper(m) = "" <=> m = ""
  BY DEF ToUpper

LEMMA WholePath ==
  ASSUME NEW path, NEW p \in Seq(STRING), stripQuery(path) = p,
         NEW q \in Seq(STRING)
  PROVE  /\ HasPrefix(stripQuery(path), p)
         /\ HasPrefix(stripQuery(path), q) => Len(q) <= Len(p) /\ (Len(q) = Len(p) => q = p)
<1>1. SubSeq(p, 1, Len(p)) = p /\ Len(p) \in Nat /\ Len(q) \in Nat
  BY SubSeqFull
<1> QED BY <1>1 DEF HasPrefix

\* What the assumptions say of the rule that a request is under.
LEMMA RuleOfRequest ==
  /\ Normalized \in Seq(NormalRules) /\ Rules = 1..Len(Normalized)
  /\ \A r \in Requests :
       IsBest(RuleOf[r], Normalized, Len(Normalized), Call[r].method, Call[r].path)
  /\ \A q \in Rules : /\ MinInterval[q] = Normalized[q].minInterval
                      /\ MaxConcurrent[q] = Normalized[q].maxConcurrent
                      /\ q \in PerAccount <=> Normalized[q].perAccount
<1>1. Normalized \in Seq(NormalRules)
  BY ListAssumption, NormalizedInOrder DEF Normalized
<1>2. Rules = 1..Len(Normalized)
  <2>1. Rules = DOMAIN Normalized
    BY MatchedAssumption
  <2> HIDE DEF Normalized
  <2> QED BY <1>1, <2>1
<1>3. \A r \in Requests : RuleOf[r] = matchRule(Normalized, Call[r].method, Call[r].path)
  BY MatchedAssumption, Zenon
<1>4. \A r \in Requests :
        IsBest(RuleOf[r], Normalized, Len(Normalized), Call[r].method, Call[r].path)
  BY <1>1, <1>3, MatchIsLongest, Zenon
<1>5. \A q \in Rules : MinInterval[q] = Normalized[q].minInterval
  BY MatchedAssumption, Zenon
<1>6. \A q \in Rules : MaxConcurrent[q] = Normalized[q].maxConcurrent
  BY MatchedAssumption, Zenon
<1>7. \A q \in Rules : q \in PerAccount <=> Normalized[q].perAccount
  BY MatchedAssumption, Zenon
<1> QED BY <1>1, <1>2, <1>4, <1>5, <1>6, <1>7, Zenon

\* The requests to the endpoint of a rule that no other rivals are under that
\* rule, all in the same place.
LEMMA EndpointRule ==
  ASSUME NEW i \in DOMAIN Given, Given[i].prefix # <<>>
  PROVE  \E q \in Rules : /\ Normalized[q] = Upper(Given[i])
                          /\ \A r \in Requests : <<i, r>> \in Endpoint => RuleOf[r] = q
<1> DEFINE N == Len(Normalized)
<1>1. PICK from \in [1..N -> 1..Len(Given)] : Origin(from, Normalized, Given, Len(Given))
  BY ListAssumption, NormalizedInOrder DEF Normalized
<1>2. /\ Given \in Seq(RateLimitRules) /\ i \in 1..Len(Given) /\ N \in Nat
      /\ DOMAIN Given = 1..Len(Given)
  BY ListAssumption, RuleOfRequest
<1>3. PICK q \in 1..N : from[q] = i
  BY <1>1, <1>2 DEF Origin
<1>4. \A k \in 1..N : /\ Given[from[k]] \in RateLimitRules
                      /\ Normalized[k] = Upper(Given[from[k]])
  BY <1>1, <1>2 DEF Origin
<1>5. \A k \in 1..N : /\ Normalized[k].method = ToUpper(Given[from[k]].method)
                      /\ Normalized[k].prefix = Given[from[k]].prefix
                      /\ Normalized[k].prefix \in Seq(STRING)
  BY <1>4, UpperFields, PrefixType, RuleOfRequest
<1>6. ASSUME NEW r \in Requests, <<i, r>> \in Endpoint
      PROVE  RuleOf[r] = q
  <2> DEFINE m == Call[r].method
             path == Call[r].path
             b == RuleOf[r]
  <2>1. Unrivalled(i) /\ Meant(Given[i], r)
    BY <1>6 DEF Endpoint
  <2>2. stripQuery(path) = Given[i].prefix /\ Names(Given[i], m)
    BY <2>1 DEF Meant
  <2>3. IsBest(b, Normalized, N, m, path)
    BY RuleOfRequest
  <2> HIDE DEF m, path, b, N
  <2>4. Fits(Normalized[q], m, path)
    <3>1. Normalized[q].method \in {"", ToUpper(m)}
      BY <1>3, <1>5, <2>2, NoMethod DEF Names
    <3>2. HasPrefix(stripQuery(path), Normalized[q].prefix)
      BY <1>3, <1>5, <2>2, WholePath
    <3> QED BY <3>1, <3>2 DEF Fits
  <2>5. /\ b \in 1..N /\ Fits(Normalized[b], m, path)
        /\ Len(Normalized[q].prefix) <= Len(Normalized[b].prefix)
    <3>1. b # 0
      BY <1>3, <2>3, <2>4 DEF IsBest
    <3>2. b \in 1..N /\ Fits(Normalized[b], m, path)
      BY <2>3, <3>1 DEF IsBest
    <3>3. \/ Len(Normalized[q].prefix) < Len(Normalized[b].prefix)
          \/ Len(Normalized[q].prefix) = Len(Normalized[b].prefix)
      BY <1>3, <2>3, <2>4, <3>1 DEF IsBest
    <3>4. Len(Normalized[q].prefix) \in Nat /\ Len(Normalized[b].prefix) \in Nat
      BY <1>3, <1>5, <3>2
    <3> QED BY <3>2, <3>3, <3>4
  <2>6. Normalized[b].prefix = Normalized[q].prefix
    <3> DEFINE p == Normalized[q].prefix
               pb == Normalized[b].prefix
    <3>1. p \in Seq(STRING) /\ pb \in Seq(STRING) /\ stripQuery(path) = p
      BY <1>3, <1>5, <2>2, <2>5
    <3>2. HasPrefix(stripQuery(path), pb)
      BY <2>5 DEF Fits
    <3> HIDE DEF p, pb
    <3>3. Len(pb) <= Len(p) /\ (Len(pb) = Len(p) => pb = p)
      BY <3>1, <3>2, WholePath
    <3>4. Len(p) <= Len(pb)
      BY <2>5 DEF p, pb
    <3>5. Len(p) \in Nat /\ Len(pb) \in Nat
      BY <3>1
    <3> QED BY <3>3, <3>4, <3>5 DEF p, pb
  <2>7. from[b] = i
    <3>1. from[b] \in DOMAIN Given /\ Given[from[b]].prefix = Given[i].prefix
      BY <1>1, <1>2, <1>3, <1>5, <2>5, <2>6
    <3>2. Names(Given[from[b]], m)
      BY <1>5, <2>5, NoMethod DEF Fits, Names
    <3> QED BY <2>1, <3>1, <3>2 DEF Unrivalled, m
  <2>8. b = q
    <3>1. \A k, l \in 1..N : k < l => from[k] < from[l]
      BY <1>1 DEF Origin, N
    <3>2. from[b] \in Nat
      BY <2>7, <1>2
    <3> QED BY <1>2, <1>3, <2>5, <2>7, <3>1, <3>2
  <2> QED BY <2>8 DEF b
<1>7. q \in Rules
  BY <1>3, RuleOfRequest
<1> QED BY <1>3, <1>4, <1>6, <1>7

\* The requests to the endpoint of a rule keep its limits, for every list.
THEOREM EndpointsLimited == Spec => []EndpointLimits
<1>1. TypeOK /\ RuleSpacing /\ SlotsMatchFlights => EndpointLimits
  <2> SUFFICES ASSUME TypeOK, RuleSpacing, SlotsMatchFlights,
                      NEW i \in DOMAIN Given, NEW r \in Requests,
                      <<i, r>> \in Endpoint, Paced(r)
               PROVE  LET rule == Given[i]
                          with == {s \in Requests : <<i, s>> \in Endpoint /\ Together(rule, r, s)}
                      IN /\ rule.maxConcurrent = 0 =>
                              \A s \in with \ {r} : Apart(sentAt[r], sentAt[s], rule.minInterval)
                         /\ rule.maxConcurrent > 0 =>
                              Cardinality({s \in with : pc[s] = "inflight"}) <= rule.maxConcurrent
    <3>1. \A e \in Endpoint : \E i \in DOMAIN Given, r \in Requests : e = <<i, r>>
      BY DEF Endpoint
    <3> QED BY <3>1 DEF EndpointLimits
  <2> DEFINE rule == Given[i]
             with == {s \in Requests : <<i, s>> \in Endpoint /\ Together(rule, r, s)}
             flying == {s \in with : pc[s] = "inflight"}
  <2>1. Given[i].prefix # <<>>
    BY DEF Endpoint, Meant
  <2>2. PICK q \in Rules :
          Normalized[q] = Upper(rule) /\ \A s \in Requests : <<i, s>> \in Endpoint => RuleOf[s] = q
    BY <2>1, EndpointRule
  <2>3. rule \in RateLimitRules
    BY ListAssumption
  <2>4. /\ MinInterval[q] = rule.minInterval /\ MaxConcurrent[q] = rule.maxConcurrent
        /\ q \in PerAccount <=> rule.perAccount
    BY <2>2, <2>3, UpperFields, RuleOfRequest
  <2> HIDE DEF rule
  <2>5. \A s \in with : /\ RuleOf[s] = q /\ Limited(s) /\ Paced(s) /\ Key(s) = Key(r)
                        /\ Interval(s) = rule.minInterval /\ Capacity(s) = rule.maxConcurrent
    <3> SUFFICES ASSUME NEW s \in with
                 PROVE  /\ RuleOf[s] = q /\ Limited(s) /\ Paced(s) /\ Key(s) = Key(r)
                        /\ Interval(s) = rule.minInterval /\ Capacity(s) = rule.maxConcurrent
      OBVIOUS
    <3>1. RuleOf[s] = q /\ RuleOf[r] = q /\ q # NoRule
      BY <2>2, RulesAssumption
    <3>2. Together(rule, r, s)
      OBVIOUS
    <3>3. Key(s) = Key(r)
      BY <2>4, <3>1, <3>2 DEF Together, Key, KeyFor
    <3> QED BY <2>4, <3>1, <3>2, <3>3 DEF Together, Limited, Interval, Capacity
  <2>6. /\ Limited(r) /\ Interval(r) = rule.minInterval /\ Capacity(r) = rule.maxConcurrent
        /\ RuleOf[r] = q
    BY <2>2, <2>4, RulesAssumption DEF Limited, Interval, Capacity
  <2>7. ASSUME rule.maxConcurrent = 0, NEW s \in with \ {r}
        PROVE  Apart(sentAt[r], sentAt[s], rule.minInterval)
    BY <2>5, <2>6, <2>7 DEF RuleSpacing
  <2>8. ASSUME rule.maxConcurrent > 0 PROVE Cardinality(flying) <= rule.maxConcurrent
    <3> DEFINE held == slots[Key(r)]
    <3>1. Key(r) \in Keys /\ Key(r)[2] = q
      BY <2>6, KeyType DEF Key, KeyFor
    <3>2. flying \subseteq held
      BY <2>5, <2>8, <3>1 DEF SlotsMatchFlights, Paced
    <3>3. held # {} => Cardinality(held) <= rule.maxConcurrent
      BY <2>4, <3>1 DEF SlotsMatchFlights
    <3>4. IsFiniteSet(held)
      BY <3>1, FS_Subset, RequestsAssumption DEF TypeOK
    <3>5. /\ Cardinality(flying) <= Cardinality(held)
          /\ Cardinality(flying) \in Nat /\ Cardinality(held) \in Nat
      BY <3>2, <3>4, FS_Subset, FS_CardinalityType
    <3>6. Cardinality({}) = 0
      BY FS_EmptySet
    <3>7. rule.maxConcurrent \in Nat
      BY <2>3 DEF RateLimitRules
    <3> QED BY <2>8, <3>3, <3>5, <3>6, <3>7
  <2> QED BY <2>7, <2>8 DEF rule
<1> QED BY <1>1, LimiterTypeCorrect, EndpointPaced, SlotsKept, PTL

=============================================================================
