------------------------------ MODULE Recursion -----------------------------
(***************************************************************************)
(* Induction over the natural numbers in a form that needs no operator as  *)
(* a parameter, and with it what the operators for sequences that the      *)
(* models are built from return.                                           *)
(***************************************************************************)
EXTENDS Integers, Sequences, SequencesExt, Totals, WellFoundedInduction, TLAPS

\* A set of natural numbers has a least member.
LEMMA LeastMember ==
  ASSUME NEW S, S \subseteq Nat, S # {}
  PROVE  \E m \in S : \A k \in S : m <= k
<1> DEFINE R == OpToRel(<, Nat)
<1>1. \A a, b \in Nat : a < b => <<a, b>> \in R
  BY DEF OpToRel
<1>2. IsWellFoundedOn(R, Nat)
  BY NatLessThanWellFounded
<1> HIDE DEF R
<1>3. PICK m \in S : \A k \in S : ~ (<<k, m>> \in R)
  BY <1>2, WFMin
<1>4. \A k \in S : m <= k
  <2> TAKE k \in S
  <2>1. m \in Nat /\ k \in Nat
    OBVIOUS
  <2>2. ~(k < m)
    BY <1>1, <1>3, <2>1
  <2> QED  BY <2>1, <2>2
<1> QED  BY <1>4

\* Induction: a set that has 0 and the successor of each of its members.
LEMMA Induction ==
  ASSUME NEW S, 0 \in S, \A n \in Nat : n \in S => n + 1 \in S
  PROVE  \A n \in Nat : n \in S
<1> DEFINE T == Nat \ S
<1> SUFFICES T = {}
  OBVIOUS
<1> SUFFICES ASSUME T # {} PROVE FALSE
  OBVIOUS
<1>1. PICK m \in T : \A k \in T : m <= k
  BY LeastMember
<1>2. m \in Nat /\ m # 0 /\ m - 1 \in Nat
  OBVIOUS
<1>3. m - 1 \in S
  BY <1>1, <1>2
<1>4. (m - 1) + 1 \in S
  BY <1>2, <1>3
<1> QED  BY <1>2, <1>4

\* A finite number of natural numbers has an upper bound.
LEMMA UpperBound ==
  ASSUME NEW n \in Nat, NEW f \in [1..n -> Nat]
  PROVE  \E b \in Nat : \A i \in 1..n : f[i] <= b
<1> DEFINE S == {k \in Nat : k <= n => \E b \in Nat : \A i \in 1..k : f[i] <= b}
<1>1. 0 \in S
  OBVIOUS
<1>2. ASSUME NEW k \in Nat, k \in S PROVE k + 1 \in S
  <2> SUFFICES ASSUME k + 1 <= n PROVE \E b \in Nat : \A i \in 1..(k + 1) : f[i] <= b
    OBVIOUS
  <2>1. PICK b \in Nat : \A i \in 1..k : f[i] <= b
    BY <1>2
  <2>2. f[k + 1] \in Nat
    OBVIOUS
  <2> DEFINE c == IF f[k + 1] <= b THEN b ELSE f[k + 1]
  <2>3. c \in Nat /\ \A i \in 1..(k + 1) : f[i] <= c
    BY <2>1, <2>2
  <2> QED  BY <2>3
<1> HIDE DEF S
<1>3. n \in S
  BY <1>1, <1>2, Induction
<1> QED  BY <1>3 DEF S

\* f is defined by recursion on 0..n: from base, by step.
Recursive(f, V, base, n, step) ==
  /\ f \in [0..n -> V] /\ f[0] = base
  /\ \A i \in 1..n : f[i] = step[i][f[i - 1]]

\* Such a function exists.
LEMMA RecursionExists ==
  ASSUME NEW V, NEW base, base \in V, NEW n, n \in Nat,
         NEW step, step \in [1..n -> [V -> V]]
  PROVE  \E f : Recursive(f, V, base, n, step)
<1> DEFINE Upto(k, f) == f \in [0..k -> V] /\ f[0] = base
                         /\ \A i \in 1..k : f[i] = step[i][f[i - 1]]
<1> DEFINE S == {k \in Nat : k <= n => \E f : Upto(k, f)}
<1>1. 0 \in S
  <2> DEFINE f == [i \in {0} |-> base]
  <2>1. Upto(0, f)
    OBVIOUS
  <2> QED  BY <2>1
<1>2. ASSUME NEW k \in Nat, k \in S PROVE k + 1 \in S
  <2> SUFFICES ASSUME k + 1 <= n PROVE \E f : Upto(k + 1, f)
    OBVIOUS
  <2>1. PICK f : Upto(k, f)
    BY <1>2
  <2>2. step[k + 1][f[k]] \in V
    <3>1. f[k] \in V /\ k + 1 \in 1..n
      BY <2>1
    <3> QED  BY <3>1
  <2> DEFINE g == [i \in 0..(k + 1) |-> IF i = k + 1 THEN step[k + 1][f[k]] ELSE f[i]]
  <2>3. g \in [0..(k + 1) -> V]
    BY <2>1, <2>2
  <2>4. g[0] = base
    BY <2>1
  <2>5. ASSUME NEW i \in 1..(k + 1) PROVE g[i] = step[i][g[i - 1]]
    <3>1. CASE i = k + 1
      <4>1. g[i] = step[k + 1][f[k]] /\ g[i - 1] = f[k]
        BY <3>1
      <4> QED  BY <3>1, <4>1
    <3>2. CASE i # k + 1
      <4>1. i \in 1..k /\ g[i] = f[i] /\ g[i - 1] = f[i - 1]
        BY <3>2
      <4> QED  BY <4>1, <2>1
    <3> QED  BY <3>1, <3>2
  <2> HIDE DEF g
  <2> QED  BY <2>3, <2>4, <2>5
<1> HIDE DEF S
<1>3. n \in S
  BY <1>1, <1>2, Induction
<1> QED  BY <1>3 DEF S, Recursive

\* FlattenSeq puts the sequences one after another.
LEMMA FlattenSeqDef ==
  ASSUME NEW S, NEW seqs \in Seq(Seq(S)), Len(seqs) > 0
  PROVE  \E g \in [1..Len(seqs) -> Seq(S)] :
           /\ g = [i \in 1..Len(seqs) |-> IF i = 1 THEN seqs[i] ELSE g[i - 1] \o seqs[i]]
           /\ FlattenSeq(seqs) = g[Len(seqs)]
<1> DEFINE n == Len(seqs)
           Flat(g) == [i \in 1..n |-> IF i = 1 THEN seqs[i] ELSE g[i - 1] \o seqs[i]]
           step == [i \in 1..n |-> [v \in Seq(S) |-> IF i = 1 THEN seqs[i] ELSE v \o seqs[i]]]
           flatten == CHOOSE g : g = Flat(g)
<1>1. n \in Nat /\ n > 0 /\ << >> \in Seq(S) /\ \A i \in 1..n : seqs[i] \in Seq(S)
  OBVIOUS
<1>2. step \in [1..n -> [Seq(S) -> Seq(S)]]
  BY <1>1
<1>3. \A i \in 1..n, v \in Seq(S) : step[i][v] = IF i = 1 THEN seqs[i] ELSE v \o seqs[i]
  OBVIOUS
<1> HIDE DEF step
<1> HIDE DEF n
<1>4. PICK f \in [0..n -> Seq(S)] : f[0] = << >> /\ \A i \in 1..n : f[i] = step[i][f[i - 1]]
  <2> DEFINE V == Seq(S)
             base == << >>
  <2>1. base \in V /\ n \in Nat /\ step \in [1..n -> [V -> V]]
    BY <1>1, <1>2
  <2> HIDE DEF V, base
  <2>2. \E f : Recursive(f, V, base, n, step)
    BY <2>1, RecursionExists
  <2> QED  BY <2>2 DEF V, base, Recursive
<1> DEFINE h == [i \in 1..n |-> f[i]]
<1>5. h = Flat(h)
  <2>1. ASSUME NEW i \in 1..n
        PROVE  h[i] = IF i = 1 THEN seqs[i] ELSE h[i - 1] \o seqs[i]
    <3>1. i - 1 \in 0..n /\ f[i - 1] \in Seq(S) /\ h[i] = f[i]
      <4>1. i - 1 \in 0..n
        BY <1>1
      <4> QED  BY <4>1, <1>4
    <3>2. f[i] = IF i = 1 THEN seqs[i] ELSE f[i - 1] \o seqs[i]
      BY <1>3, <1>4, <3>1
    <3>3. i # 1 => h[i - 1] = f[i - 1]
      BY <1>1
    <3> QED  BY <3>1, <3>2, <3>3
  <2> HIDE DEF h
  <2>2. h = [i \in 1..n |-> h[i]]
    BY DEF h
  <2> QED  BY <2>1, <2>2
<1> HIDE DEF h
<1>6. flatten = Flat(flatten)
  BY <1>5
<1>7. FlattenSeq(seqs) = flatten[n]
  BY <1>1 DEF FlattenSeq, n
<1> HIDE DEF flatten
<1>8. \A i \in 1..n : flatten[i] = IF i = 1 THEN seqs[i] ELSE flatten[i - 1] \o seqs[i]
  BY <1>6
<1> DEFINE T == {k \in Nat : k + 1 <= n => flatten[k + 1] \in Seq(S)}
<1>9. 0 \in T
  <2>1. 1 \in 1..n /\ seqs[1] \in Seq(S)
    BY <1>1
  <2>2. flatten[1] = seqs[1]
    BY <1>8, <2>1
  <2> QED  BY <2>1, <2>2
<1>10. ASSUME NEW k \in Nat, k \in T PROVE k + 1 \in T
  <2> SUFFICES ASSUME k + 2 <= n PROVE flatten[k + 2] \in Seq(S)
    OBVIOUS
  <2>1. k + 2 \in 1..n /\ k + 2 # 1 /\ (k + 2) - 1 = k + 1 /\ k + 1 <= n
    BY <1>1
  <2>2. flatten[k + 2] = flatten[k + 1] \o seqs[k + 2]
    BY <1>8, <2>1
  <2>3. flatten[k + 1] \in Seq(S) /\ seqs[k + 2] \in Seq(S)
    BY <1>1, <1>10, <2>1
  <2> QED  BY <2>2, <2>3
<1> HIDE DEF T
<1>11. \A k \in Nat : k \in T
  BY <1>9, <1>10, Induction
<1>12. \A i \in 1..n : flatten[i] \in Seq(S)
  <2> TAKE i \in 1..n
  <2>1. i - 1 \in Nat /\ (i - 1) + 1 = i /\ i <= n
    BY <1>1
  <2>2. i - 1 \in T
    BY <1>11, <2>1
  <2> QED  BY <2>1, <2>2 DEF T
<1>13. flatten = [i \in 1..n |-> flatten[i]]
  BY <1>6
<1>14. flatten \in [1..n -> Seq(S)]
  BY <1>12, <1>13
<1> QED  BY <1>6, <1>7, <1>14 DEF n

\* It keeps to the elements of the sequences.
LEMMA FlattenSeqType ==
  ASSUME NEW S, NEW seqs \in Seq(Seq(S))
  PROVE  FlattenSeq(seqs) \in Seq(S)
<1>1. CASE Len(seqs) = 0
  BY <1>1 DEF FlattenSeq
<1>2. CASE Len(seqs) > 0
  <2>1. PICK g \in [1..Len(seqs) -> Seq(S)] : FlattenSeq(seqs) = g[Len(seqs)]
    BY <1>2, FlattenSeqDef
  <2>2. Len(seqs) \in 1..Len(seqs)
    BY <1>2
  <2> QED  BY <2>1, <2>2
<1> QED  BY <1>1, <1>2

\* A bounded set of natural numbers has a largest member.
LEMMA MaxOfBounded ==
  ASSUME NEW S, S \subseteq Nat, S # {}, NEW b \in Nat, \A x \in S : x <= b
  PROVE  Max(S) \in S /\ \A x \in S : x <= Max(S)
<1> DEFINE B == {n \in Nat : \A x \in S : x <= n}
<1>1. PICK m \in B : \A k \in B : m <= k
  <2>1. B \subseteq Nat /\ b \in B
    OBVIOUS
  <2> HIDE DEF B
  <2> QED  BY <2>1, LeastMember
<1>2. m \in Nat /\ \A x \in S : x <= m
  BY <1>1
<1>3. m \in S
  <2>1. CASE m = 0
    <3>1. PICK x \in S : TRUE
      OBVIOUS
    <3>2. x \in Nat /\ x <= 0
      BY <1>2, <2>1
    <3>3. x = m
      BY <2>1, <3>2
    <3> QED  BY <3>3
  <2>2. CASE m # 0
    <3>1. m - 1 \in Nat /\ m - 1 \notin B
      BY <1>1, <1>2, <2>2
    <3>2. PICK x \in S : ~(x <= m - 1)
      BY <3>1
    <3>3. x = m
      BY <1>2, <3>1, <3>2
    <3> QED  BY <3>3
  <2> QED  BY <2>1, <2>2
<1>4. \E x \in S : \A y \in S : x >= y
  BY <1>2, <1>3
<1>5. Max(S) \in S /\ \A y \in S : Max(S) >= y
  BY <1>4 DEF Max
<1> QED  BY <1>5

-----------------------------------------------------------------------------
(* Sums *)

\* The sums of the first numbers of a sequence are numbers, each of them the one
\* before and the next number.
LEMMA SumsDef ==
  ASSUME NEW N \in Nat, NEW f \in [1..N -> Int]
  PROVE  /\ Sums(f) \in [0..N -> Int] /\ Sums(f)[0] = 0
         /\ \A n \in 1..N : Sums(f)[n] = Sums(f)[n - 1] + f[n]
         /\ Total(f) = Sums(f)[N]
<1> DEFINE V == Int
           Eq(g) == [n \in 0..Len(f) |-> IF n = 0 THEN 0 ELSE g[n - 1] + f[n]]
           Sum == CHOOSE g : g = Eq(g)
           step == [n \in 1..N |-> [x \in V |-> x + f[n]]]
<1>1. Len(f) = N
  OBVIOUS
<1>2. Sums(f) = Sum
  BY DEF Sums
<1>3. \A g : \A n \in 0..N : Eq(g)[n] = IF n = 0 THEN 0 ELSE g[n - 1] + f[n]
  BY <1>1
<1>4. \A g : Eq(g) = [n \in 0..N |-> Eq(g)[n]]
  BY <1>1
<1> HIDE DEF Eq
<1>5. 0 \in V /\ step \in [1..N -> [V -> V]]
  OBVIOUS
<1>6. \A n \in 1..N : \A x \in V : step[n][x] = x + f[n]
  OBVIOUS
<1>7. \A n \in 1..N : \A x \in V : x + f[n] \in V
  OBVIOUS
<1> HIDE DEF V, step
<1>8. PICK g : Recursive(g, V, 0, N, step)
  BY <1>5, RecursionExists
<1>9. g = Eq(g)
  <2>1. ASSUME NEW n \in 0..N PROVE g[n] = Eq(g)[n]
    <3>1. CASE n = 0
      BY <1>3, <1>8, <3>1 DEF Recursive
    <3>2. CASE n # 0
      <4>1. n \in 1..N /\ n - 1 \in 0..N
        BY <3>2
      <4>2. g[n] = step[n][g[n - 1]] /\ g[n - 1] \in V
        BY <1>8, <4>1 DEF Recursive
      <4>3. g[n] = g[n - 1] + f[n]
        BY <1>6, <4>1, <4>2
      <4> QED  BY <1>3, <3>2, <4>3
    <3> QED  BY <3>1, <3>2
  <2>2. g = [n \in 0..N |-> g[n]]
    BY <1>8 DEF Recursive
  <2>3. Eq(g) = [n \in 0..N |-> Eq(g)[n]]
    BY <1>4
  <2> QED  BY <2>1, <2>2, <2>3
<1>10. Sum = Eq(Sum)
  BY <1>9
<1> HIDE DEF Sum
<1>11. \A n \in 0..N : Sum[n] = IF n = 0 THEN 0 ELSE Sum[n - 1] + f[n]
  BY <1>3, <1>10
<1> DEFINE T == {n \in Nat : n <= N => Sum[n] \in V}
<1>12. 0 \in T
  BY <1>5, <1>11
<1>13. ASSUME NEW n \in Nat, n \in T PROVE n + 1 \in T
  <2> SUFFICES ASSUME n + 1 <= N PROVE Sum[n + 1] \in V
    OBVIOUS
  <2>1. n + 1 \in 1..N /\ n + 1 \in 0..N /\ n + 1 # 0 /\ (n + 1) - 1 = n /\ n <= N
    OBVIOUS
  <2>2. Sum[n + 1] = Sum[n] + f[n + 1]
    BY <1>11, <2>1
  <2>3. Sum[n] \in V
    BY <1>13, <2>1
  <2> QED  BY <1>7, <2>1, <2>2, <2>3
<1> HIDE DEF T
<1>14. \A n \in Nat : n \in T
  BY <1>12, <1>13, Induction
<1>15. \A n \in 0..N : Sum[n] \in Int
  BY <1>14 DEF T, V
<1>16. Sum = [n \in 0..N |-> Sum[n]]
  BY <1>4, <1>10
<1>17. Sum \in [0..N -> Int]
  BY <1>15, <1>16
<1>18. Sum[0] = 0 /\ \A n \in 1..N : Sum[n] = Sum[n - 1] + f[n]
  BY <1>11
<1>19. Total(f) = Sum[N]
  BY <1>1, <1>2 DEF Total
<1> QED  BY <1>2, <1>17, <1>18, <1>19

\* Sums depend only on the numbers that are added.
LEMMA SumsAgree ==
  ASSUME NEW N \in Nat, NEW f \in [1..N -> Int], NEW M \in Nat, NEW g \in [1..M -> Int],
         NEW n \in Nat, n <= N, n <= M, \A i \in 1..n : f[i] = g[i]
  PROVE  Sums(f)[n] = Sums(g)[n]
<1> DEFINE F == Sums(f)
           G == Sums(g)
<1>1. F[0] = 0 /\ \A k \in 1..N : F[k] = F[k - 1] + f[k]
  BY SumsDef
<1>2. G[0] = 0 /\ \A k \in 1..M : G[k] = G[k - 1] + g[k]
  BY SumsDef
<1> HIDE DEF F, G
<1> DEFINE T == {k \in Nat : k <= n => F[k] = G[k]}
<1>3. 0 \in T
  BY <1>1, <1>2
<1>4. ASSUME NEW k \in Nat, k \in T PROVE k + 1 \in T
  <2> SUFFICES ASSUME k + 1 <= n PROVE F[k + 1] = G[k + 1]
    OBVIOUS
  <2>1. k + 1 \in 1..N /\ k + 1 \in 1..M /\ k + 1 \in 1..n /\ (k + 1) - 1 = k
    OBVIOUS
  <2>2. F[k + 1] = F[k] + f[k + 1] /\ G[k + 1] = G[k] + g[k + 1]
    BY <1>1, <1>2, <2>1
  <2>3. F[k] = G[k] /\ f[k + 1] = g[k + 1]
    BY <1>4, <2>1
  <2> QED  BY <2>2, <2>3
<1> HIDE DEF T
<1>5. n \in T
  BY <1>3, <1>4, Induction
<1> QED  BY <1>5 DEF T, F, G

\* Replacing one number changes the total by the difference.
LEMMA TotalChange ==
  ASSUME NEW N \in Nat, NEW f \in [1..N -> Int], NEW g \in [1..N -> Int], NEW i \in 1..N,
         \A k \in 1..N : k # i => f[k] = g[k]
  PROVE  Total(g) = Total(f) + (g[i] - f[i])
<1> DEFINE F == Sums(f)
           G == Sums(g)
           d == g[i] - f[i]
<1>1. F \in [0..N -> Int] /\ F[0] = 0 /\ (\A k \in 1..N : F[k] = F[k - 1] + f[k]) /\ Total(f) = F[N]
  BY SumsDef
<1>2. G \in [0..N -> Int] /\ G[0] = 0 /\ (\A k \in 1..N : G[k] = G[k - 1] + g[k]) /\ Total(g) = G[N]
  BY SumsDef
<1>3. d \in Int /\ g[i] = f[i] + d
  OBVIOUS
<1> HIDE DEF F, G, d
<1> DEFINE T == {k \in Nat : k <= N => G[k] = F[k] + (IF k < i THEN 0 ELSE d)}
<1>4. 0 \in T
  BY <1>1, <1>2
<1>5. ASSUME NEW k \in Nat, k \in T PROVE k + 1 \in T
  <2> SUFFICES ASSUME k + 1 <= N
               PROVE  G[k + 1] = F[k + 1] + (IF k + 1 < i THEN 0 ELSE d)
    OBVIOUS
  <2>1. k + 1 \in 1..N /\ (k + 1) - 1 = k /\ k \in 0..N
    OBVIOUS
  <2>2. F[k + 1] = F[k] + f[k + 1] /\ F[k] \in Int /\ f[k + 1] \in Int
    BY <1>1, <2>1
  <2>3. G[k + 1] = G[k] + g[k + 1] /\ G[k] \in Int /\ g[k + 1] \in Int
    BY <1>2, <2>1
  <2>4. G[k] = F[k] + (IF k < i THEN 0 ELSE d)
    BY <1>5, <2>1
  <2>5. CASE k + 1 = i
    <3>1. g[k + 1] = f[k + 1] + d
      BY <1>3, <2>5
    <3>2. G[k] = F[k]
      BY <2>2, <2>4, <2>5
    <3> QED  BY <1>3, <2>2, <2>3, <2>5, <3>1, <3>2
  <2>6. CASE k + 1 # i
    <3>1. f[k + 1] = g[k + 1]
      BY <2>1, <2>6
    <3>2. k < i <=> k + 1 < i
      BY <2>1, <2>6
    <3>3. G[k] = F[k] + (IF k + 1 < i THEN 0 ELSE d)
      BY <2>4, <3>2
    <3> QED  BY <1>3, <2>2, <2>3, <3>1, <3>3
  <2> QED  BY <2>5, <2>6
<1> HIDE DEF T
<1>6. N \in T
  BY <1>4, <1>5, Induction
<1>7. G[N] = F[N] + d
  BY <1>6 DEF T
<1> QED  BY <1>1, <1>2, <1>7 DEF d

\* Adding number by number adds the totals.
LEMMA TotalAdd ==
  ASSUME NEW N \in Nat, NEW f \in [1..N -> Int], NEW g \in [1..N -> Int], NEW h \in [1..N -> Int],
         \A k \in 1..N : h[k] = f[k] + g[k]
  PROVE  Total(h) = Total(f) + Total(g)
<1> DEFINE F == Sums(f)
           G == Sums(g)
           H == Sums(h)
<1>1. F \in [0..N -> Int] /\ F[0] = 0 /\ (\A k \in 1..N : F[k] = F[k - 1] + f[k]) /\ Total(f) = F[N]
  BY SumsDef
<1>2. G \in [0..N -> Int] /\ G[0] = 0 /\ (\A k \in 1..N : G[k] = G[k - 1] + g[k]) /\ Total(g) = G[N]
  BY SumsDef
<1>3. H[0] = 0 /\ (\A k \in 1..N : H[k] = H[k - 1] + h[k]) /\ Total(h) = H[N]
  BY SumsDef
<1> HIDE DEF F, G, H
<1> DEFINE T == {k \in Nat : k <= N => H[k] = F[k] + G[k]}
<1>4. 0 \in T
  <2>1. H[0] = 0 /\ F[0] = 0 /\ G[0] = 0
    BY <1>1, <1>2, <1>3
  <2> QED  BY <2>1
<1>5. ASSUME NEW k \in Nat, k \in T PROVE k + 1 \in T
  <2> SUFFICES ASSUME k + 1 <= N PROVE H[k + 1] = F[k + 1] + G[k + 1]
    OBVIOUS
  <2>1. k + 1 \in 1..N /\ (k + 1) - 1 = k /\ k \in 0..N
    OBVIOUS
  <2>2. F[k + 1] = F[k] + f[k + 1] /\ F[k] \in Int /\ f[k + 1] \in Int
    BY <1>1, <2>1
  <2>3. G[k + 1] = G[k] + g[k + 1] /\ G[k] \in Int /\ g[k + 1] \in Int
    BY <1>2, <2>1
  <2>4. H[k + 1] = H[k] + h[k + 1] /\ h[k + 1] = f[k + 1] + g[k + 1]
    BY <1>3, <2>1
  <2>5. H[k] = F[k] + G[k]
    BY <1>5, <2>1
  <2> QED  BY <2>2, <2>3, <2>4, <2>5
<1> HIDE DEF T
<1>6. N \in T
  BY <1>4, <1>5, Induction
<1> QED  BY <1>1, <1>2, <1>3, <1>6 DEF T

LEMMA TotalInt ==
  ASSUME NEW N \in Nat, NEW f \in [1..N -> Int]
  PROVE  Total(f) \in Int
BY SumsDef

LEMMA TotalZero ==
  ASSUME NEW N \in Nat, NEW f \in [1..N -> Int], \A i \in 1..N : f[i] = 0
  PROVE  Total(f) = 0
<1> DEFINE F == Sums(f)
<1>1. F[0] = 0 /\ (\A n \in 1..N : F[n] = F[n - 1] + f[n]) /\ Total(f) = F[N]
  BY SumsDef
<1> HIDE DEF F
<1> DEFINE T == {n \in Nat : n <= N => F[n] = 0}
<1>2. 0 \in T
  BY <1>1
<1>3. ASSUME NEW n \in Nat, n \in T PROVE n + 1 \in T
  <2> SUFFICES ASSUME n + 1 <= N PROVE F[n + 1] = 0
    OBVIOUS
  <2>1. n + 1 \in 1..N /\ (n + 1) - 1 = n
    OBVIOUS
  <2>2. F[n + 1] = F[n] + f[n + 1] /\ F[n] = 0 /\ f[n + 1] = 0
    BY <1>1, <1>3, <2>1
  <2> QED  BY <2>2
<1> HIDE DEF T
<1>4. N \in T
  BY <1>2, <1>3, Induction
<1> QED  BY <1>1, <1>4 DEF T

\* A total that is nowhere smaller is not smaller.
LEMMA TotalMonotone ==
  ASSUME NEW N \in Nat, NEW f \in [1..N -> Int], NEW g \in [1..N -> Int],
         \A i \in 1..N : f[i] <= g[i]
  PROVE  Total(f) <= Total(g)
<1> DEFINE F == Sums(f)
           G == Sums(g)
<1>1. F \in [0..N -> Int] /\ F[0] = 0 /\ (\A n \in 1..N : F[n] = F[n - 1] + f[n]) /\ Total(f) = F[N]
  BY SumsDef
<1>2. G \in [0..N -> Int] /\ G[0] = 0 /\ (\A n \in 1..N : G[n] = G[n - 1] + g[n]) /\ Total(g) = G[N]
  BY SumsDef
<1> HIDE DEF F, G
<1> DEFINE T == {n \in Nat : n <= N => F[n] <= G[n]}
<1>3. 0 \in T
  <2>1. F[0] = 0 /\ G[0] = 0
    BY <1>1, <1>2
  <2> QED  BY <2>1
<1>4. ASSUME NEW n \in Nat, n \in T PROVE n + 1 \in T
  <2> SUFFICES ASSUME n + 1 <= N PROVE F[n + 1] <= G[n + 1]
    OBVIOUS
  <2>1. n + 1 \in 1..N /\ (n + 1) - 1 = n /\ n \in 0..N
    OBVIOUS
  <2>2. F[n + 1] = F[n] + f[n + 1] /\ F[n] \in Int /\ f[n + 1] \in Int
    BY <1>1, <2>1
  <2>3. G[n + 1] = G[n] + g[n + 1] /\ G[n] \in Int /\ g[n + 1] \in Int
    BY <1>2, <2>1
  <2>4. F[n] <= G[n] /\ f[n + 1] <= g[n + 1]
    BY <1>4, <2>1
  <2> QED  BY <2>2, <2>3, <2>4
<1> HIDE DEF T
<1>5. N \in T
  BY <1>3, <1>4, Induction
<1> QED  BY <1>1, <1>2, <1>5 DEF T

\* One more number
LEMMA TotalMore ==
  ASSUME NEW N \in Nat, NEW f \in [1..N -> Int], NEW g \in [1..(N + 1) -> Int],
         \A k \in 1..N : f[k] = g[k]
  PROVE  Total(g) = Total(f) + g[N + 1]
<1> DEFINE M == N + 1
<1>1. M \in Nat /\ g \in [1..M -> Int] /\ N <= M /\ N \in 0..M /\ M \in 1..M /\ M - 1 = N
  OBVIOUS
<1> HIDE DEF M
<1>2. Sums(f)[N] = Sums(g)[N]
  BY <1>1, SumsAgree
<1>3. Total(f) = Sums(f)[N]
  BY SumsDef
<1>4. /\ Total(g) = Sums(g)[M] /\ Sums(g) \in [0..M -> Int]
      /\ \A k \in 1..M : Sums(g)[k] = Sums(g)[k - 1] + g[k]
  BY <1>1, SumsDef
<1>5. Sums(g)[M] = Sums(g)[N] + g[M]
  BY <1>1, <1>4
<1> QED  BY <1>2, <1>3, <1>4, <1>5 DEF M

\* A total of natural numbers is at least each of them.
LEMMA TotalAtLeast ==
  ASSUME NEW N \in Nat, NEW f \in [1..N -> Nat]
  PROVE  Total(f) \in Nat /\ \A i \in 1..N : f[i] <= Total(f)
<1> DEFINE zero == [k \in 1..N |-> 0]
<1>1. zero \in [1..N -> Int] /\ f \in [1..N -> Int] /\ \A k \in 1..N : zero[k] = 0
  OBVIOUS
<1> HIDE DEF zero
<1>2. Total(zero) = 0
  BY <1>1, TotalZero
<1>3. ASSUME NEW g \in [1..N -> Nat] PROVE Total(g) \in Nat
  <2>1. g \in [1..N -> Int] /\ \A k \in 1..N : zero[k] <= g[k]
    BY <1>1
  <2>2. Total(zero) <= Total(g) /\ Total(g) \in Int
    BY <1>1, <2>1, TotalMonotone, TotalInt
  <2> QED  BY <1>2, <2>2
<1>4. ASSUME NEW i \in 1..N PROVE f[i] <= Total(f)
  <2> DEFINE g == [k \in 1..N |-> IF k = i THEN 0 ELSE f[k]]
  <2>1. g \in [1..N -> Nat] /\ g \in [1..N -> Int] /\ g[i] = 0 /\ \A k \in 1..N : k # i => f[k] = g[k]
    OBVIOUS
  <2> HIDE DEF g
  <2>2. Total(g) \in Nat
    BY <1>3, <2>1
  <2>3. Total(g) = Total(f) + (g[i] - f[i])
    BY <1>1, <2>1, TotalChange
  <2>4. Total(f) \in Nat /\ f[i] \in Nat
    BY <1>3
  <2> QED  BY <2>1, <2>2, <2>3, <2>4
<1> QED  BY <1>3, <1>4

\* The total of the numbers of two sequences after each other
LEMMA TotalConcat ==
  ASSUME NEW N \in Nat, NEW f \in [1..N -> Int], NEW M \in Nat, NEW g \in [1..M -> Int],
         NEW h \in [1..(N + M) -> Int],
         \A k \in 1..N : h[k] = f[k], \A k \in 1..M : h[N + k] = g[k]
  PROVE  Total(h) = Total(f) + Total(g)
<1> DEFINE F == Sums(f)
           G == Sums(g)
           H == Sums(h)
           K == N + M
<1>1. K \in Nat /\ h \in [1..K -> Int] /\ N <= K
  OBVIOUS
<1>2. F \in [0..N -> Int] /\ Total(f) = F[N]
  BY SumsDef
<1>3. G \in [0..M -> Int] /\ G[0] = 0 /\ (\A k \in 1..M : G[k] = G[k - 1] + g[k]) /\ Total(g) = G[M]
  BY SumsDef
<1>4. H \in [0..K -> Int] /\ (\A k \in 1..K : H[k] = H[k - 1] + h[k]) /\ Total(h) = H[K]
  <2> HIDE DEF K
  <2> QED  BY <1>1, SumsDef
<1>5. H[N] = F[N]
  <2> HIDE DEF K
  <2>1. N <= N /\ \A k \in 1..N : f[k] = h[k]
    OBVIOUS
  <2>2. Sums(f)[N] = Sums(h)[N]
    BY <1>1, <2>1, SumsAgree
  <2> QED  BY <2>2
<1> HIDE DEF F, G, H
<1> DEFINE T == {k \in Nat : k <= M => H[N + k] = F[N] + G[k]}
<1>6. 0 \in T
  BY <1>2, <1>3, <1>5
<1>7. ASSUME NEW k \in Nat, k \in T PROVE k + 1 \in T
  <2> SUFFICES ASSUME k + 1 <= M PROVE H[N + (k + 1)] = F[N] + G[k + 1]
    OBVIOUS
  <2>1. /\ k + 1 \in 1..M /\ (k + 1) - 1 = k /\ k \in 0..M /\ k <= M /\ N + (k + 1) \in 1..K
        /\ (N + (k + 1)) - 1 = N + k
    OBVIOUS
  <2>2. H[N + (k + 1)] = H[N + k] + h[N + (k + 1)]
    BY <1>4, <2>1
  <2>3. h[N + (k + 1)] = g[k + 1] /\ g[k + 1] \in Int
    BY <2>1
  <2>4. G[k + 1] = G[k] + g[k + 1] /\ G[k] \in Int
    BY <1>3, <2>1
  <2>5. H[N + k] = F[N] + G[k]
    BY <1>7, <2>1
  <2>6. F[N] \in Int
    BY <1>2
  <2> QED  BY <2>2, <2>3, <2>4, <2>5, <2>6
<1> HIDE DEF T
<1>8. M \in T
  BY <1>6, <1>7, Induction
<1> QED  BY <1>2, <1>3, <1>4, <1>8 DEF T
=============================================================================
