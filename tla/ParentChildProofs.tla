-------------------------- MODULE ParentChildProofs -------------------------
(***************************************************************************)
(* Proofs about ParentChild, for any number of children, rows and values:  *)
(* the count of every object is the number of the places that hold it, and *)
(* the result that is delivered is the join.                               *)
(*                                                                         *)
(* Balanced says the first of a heap when it is known how often each       *)
(* address is held outside; the lemmas say how each operation changes the  *)
(* two.  For the second, JInv follows the rows of the tables into groups,  *)
(* sets and the result; Grows says what an operation leaves of them.       *)
(***************************************************************************)
EXTENDS ParentChild, Recursion, FiniteSetTheorems

-----------------------------------------------------------------------------
(* Types *)

Addresses == Nat \ {0}

\* How often something is held, by address
Tallies == [Addresses -> Nat]

RowOf(k)   == [n : Nat, refs : [1..k -> Nat]]
AnyRow     == [n : Nat, refs : Seq(Nat)]
AnyGroup   == [key : AnyRow, rows : Seq(AnyRow), set : Nat]
Objects    == [kind : {"text", "set", "partition"}, refs : Int, text : Values,
               rows : Seq(AnyRow), groups : Seq(AnyGroup), empty : Nat, extracting : BOOLEAN]
Heaps      == Seq(Objects)

ChildSteps == {"create", "call", "fetch", "partition", "extract"}
OtherSteps == {"call_parent", "fetch_parent", "load_keys", "out_union", "finish",
               "error", "returned"}

TypeOK ==
  /\ tables \in [child : [Children -> Inputs], parent : Inputs]
  /\ heap \in Heaps
  /\ partition \in [Children -> Nat]
  /\ key \in [Children -> RowOf(1)]
  /\ child \in [Children -> RowOf(1)]
  /\ parent \in RowOf(1)
  /\ out \in RowOf(1 + NChildren)
  /\ tmp \in [Children -> Nat]
  /\ rows \in Seq(RowOf(1 + NChildren))
  /\ at \in [do : ChildSteps, c : Children] \cup [do : OtherSteps, c : {0}]
  /\ served \in Nat
  /\ result \in Nat
  /\ IsFiniteSet(held) /\ \A x \in held : x.set \in Nat

\* The partitions that were created so far
Made ==
  CASE at.do = "create" -> at.c - 1
    [] at.do \in {"call", "fetch", "partition"} -> at.c
    [] OTHER -> NChildren

\* No set was extracted from the partition at p.
Unextracted(h, p) == \A i \in DOMAIN h[p].groups : h[p].groups[i].set = Null

\* The partitions the procedure has, and the result set it delivered
PartitionsThere(h, p) ==
  \A c \in Children : p[c] # Null => p[c] \in DOMAIN h /\ h[p[c]].kind = "partition"
ResultThere(h, r) ==
  r # Null => r \in DOMAIN h /\ h[r].rows \in Seq(RowOf(1 + NChildren))

Control ==
  /\ at.do \notin {"error", "returned"} =>
       \A c \in Children : partition[c] # Null <=> c <= Made
  /\ at.do \in {"create", "call", "fetch", "partition"} =>
       \A c \in Children : partition[c] # Null => Unextracted(heap, partition[c])
  /\ PartitionsThere(heap, partition)
  /\ at # Stmt("returned") => result = Null /\ held = {}
  /\ ResultThere(heap, result)

-----------------------------------------------------------------------------
(* Counts *)

\* The count of an object, as the heap has it.
RefsAt(h, a) == IF a \in DOMAIN h THEN h[a].refs ELSE 0

\* The objects' counts in h are what holds them in h and, by n, elsewhere.
Balanced(h, n) == \A a \in Addresses : RefsAt(h, a) = n[a] + OwnedCount(h, a)

\* How often each address is held outside of the heap.
Outside == [a \in Addresses |-> Count(Holders, a) + HeldCount(held, a)]

\* The objects of h are still there in g, with the same rows.
Kept(h, g) ==
  /\ Len(h) <= Len(g)
  /\ \A a \in DOMAIN h : g[a].kind = h[a].kind /\ g[a].rows = h[a].rows

IInv == TypeOK /\ Control /\ Balanced(heap, Outside)

-----------------------------------------------------------------------------
(* Counting references *)

Ones(s, a) == [i \in 1..Len(s) |-> IF s[i] = a THEN 1 ELSE 0]

LEMMA OnesFacts ==
  ASSUME NEW s \in Seq(Nat), NEW a
  PROVE  /\ Len(s) \in Nat /\ Ones(s, a) \in [1..Len(s) -> Nat] /\ Ones(s, a) \in [1..Len(s) -> Int]
         /\ \A i \in 1..Len(s) : Ones(s, a)[i] = IF s[i] = a THEN 1 ELSE 0
BY DEF Ones

LEMMA CountIsTotal ==
  ASSUME NEW s \in Seq(Nat), NEW a
  PROVE  /\ IsFiniteSet({i \in DOMAIN s : s[i] = a})
         /\ Count(s, a) = Total(Ones(s, a)) /\ Count(s, a) \in Nat
<1> DEFINE N == Len(s)
           f == Ones(s, a)
           F == Sums(f)
           S(n) == {i \in 1..n : s[i] = a}
           T == {n \in Nat : n <= N => IsFiniteSet(S(n)) /\ Cardinality(S(n)) = F[n] /\ F[n] \in Nat}
<1>1. N \in Nat /\ DOMAIN s = 1..N /\ \A i \in 1..N : f[i] = IF s[i] = a THEN 1 ELSE 0
  BY OnesFacts
<1>2. F[0] = 0 /\ (\A n \in 1..N : F[n] = F[n - 1] + f[n]) /\ Total(f) = F[N]
  BY OnesFacts, SumsDef, SMTT(30)
<1>3. 0 \in T
  <2>1. S(0) = {}
    OBVIOUS
  <2> QED  BY <1>2, <2>1, FS_EmptySet
<1>4. ASSUME NEW n \in Nat, n \in T PROVE n + 1 \in T
  <2> SUFFICES ASSUME n + 1 <= N
               PROVE  IsFiniteSet(S(n + 1)) /\ Cardinality(S(n + 1)) = F[n + 1] /\ F[n + 1] \in Nat
    OBVIOUS
  <2>1. n <= N /\ n + 1 \in 1..N /\ (n + 1) - 1 = n
    BY <1>1
  <2>2. IsFiniteSet(S(n)) /\ Cardinality(S(n)) = F[n] /\ F[n] \in Nat
    BY <1>4, <2>1
  <2>3. F[n + 1] = F[n] + IF s[n + 1] = a THEN 1 ELSE 0
    BY <1>1, <1>2, <2>1
  <2>4. CASE s[n + 1] = a
    <3>1. S(n + 1) = S(n) \cup {n + 1} /\ n + 1 \notin S(n)
      BY <2>4
    <3> HIDE DEF S
    <3> QED  BY <2>2, <2>3, <2>4, <3>1, FS_AddElement
  <2>5. CASE s[n + 1] # a
    <3>1. S(n + 1) = S(n)
      BY <2>5
    <3> HIDE DEF S
    <3> QED  BY <2>2, <2>3, <2>5, <3>1
  <2> QED  BY <2>4, <2>5
<1> HIDE DEF T
<1>5. N \in T
  BY <1>1, <1>3, <1>4, Induction
<1>6. IsFiniteSet(S(N)) /\ Cardinality(S(N)) = F[N] /\ F[N] \in Nat
  BY <1>1, <1>5 DEF T
<1>7. {i \in DOMAIN s : s[i] = a} = S(N)
  BY <1>1
<1> QED  BY <1>2, <1>6, <1>7 DEF Count

LEMMA CountConcat ==
  ASSUME NEW s \in Seq(Nat), NEW t \in Seq(Nat), NEW a
  PROVE  s \o t \in Seq(Nat) /\ Count(s \o t, a) = Count(s, a) + Count(t, a)
<1> DEFINE u == s \o t
           N == Len(s)
           M == Len(t)
<1>1. /\ u \in Seq(Nat) /\ Len(u) = N + M /\ N \in Nat /\ M \in Nat
      /\ \A i \in 1..N : u[i] = s[i]
      /\ \A i \in 1..M : u[N + i] = t[i]
  OBVIOUS
<1> HIDE DEF u
<1>2. /\ Ones(s, a) \in [1..N -> Int] /\ Ones(t, a) \in [1..M -> Int]
      /\ Ones(u, a) \in [1..(N + M) -> Int]
  BY <1>1, OnesFacts
<1>3. \A i \in 1..N : Ones(u, a)[i] = Ones(s, a)[i]
  <2> TAKE i \in 1..N
  <2>1. i \in 1..Len(u)
    BY <1>1
  <2> QED  BY <1>1, <2>1 DEF Ones
<1>4. \A i \in 1..M : Ones(u, a)[N + i] = Ones(t, a)[i]
  <2> TAKE i \in 1..M
  <2>1. N + i \in 1..Len(u)
    BY <1>1
  <2> QED  BY <1>1, <2>1 DEF Ones
<1> HIDE DEF N, M
<1>5. Total(Ones(u, a)) = Total(Ones(s, a)) + Total(Ones(t, a))
  BY <1>1, <1>2, <1>3, <1>4, TotalConcat
<1> QED  BY <1>1, <1>5, CountIsTotal DEF u

LEMMA CountFacts ==
  ASSUME NEW a
  PROVE  /\ Count(<< >>, a) = 0
         /\ \A b \in Nat : Count(<<b>>, a) = IF b = a THEN 1 ELSE 0
         /\ \A s \in Seq(Nat) : /\ Count(s, a) \in Nat
                                /\ Count(s, a) # 0 <=> \E i \in 1..Len(s) : s[i] = a
<1>1. ASSUME NEW s \in Seq(Nat)
      PROVE  /\ Count(s, a) \in Nat
             /\ Count(s, a) # 0 <=> \E i \in 1..Len(s) : s[i] = a
  <2> DEFINE S == {i \in DOMAIN s : s[i] = a}
  <2>1. IsFiniteSet(S) /\ Count(s, a) = Cardinality(S) /\ Count(s, a) \in Nat
    BY CountIsTotal DEF Count
  <2>2. S = {} <=> ~ \E i \in 1..Len(s) : s[i] = a
    OBVIOUS
  <2> HIDE DEF S
  <2> QED  BY <2>1, <2>2, FS_EmptySet
<1>2. Count(<< >>, a) = 0
  <2> DEFINE s == << >>
  <2>1. s \in Seq(Nat) /\ ~ \E i \in 1..Len(s) : s[i] = a
    OBVIOUS
  <2> HIDE DEF s
  <2>2. Count(s, a) = 0
    BY <1>1, <2>1
  <2> QED  BY <2>2 DEF s
<1>3. ASSUME NEW b \in Nat PROVE Count(<<b>>, a) = IF b = a THEN 1 ELSE 0
  <2> DEFINE s == <<b>>
  <2>1. s \in Seq(Nat) /\ Len(s) = 1 /\ s[1] = b /\ 1 \in 1..1
    OBVIOUS
  <2> HIDE DEF s
  <2>2. Ones(s, a) \in [1..1 -> Int] /\ Ones(s, a)[1] = IF b = a THEN 1 ELSE 0
    BY <2>1, OnesFacts
  <2> DEFINE f == Ones(s, a)
             F == Sums(f)
  <2>3. Total(f) = F[1] /\ F[0] = 0 /\ \A n \in 1..1 : F[n] = F[n - 1] + f[n]
    BY <2>1, <2>2, SumsDef
  <2>4. Count(s, a) = Total(f)
    BY <2>1, CountIsTotal
  <2> HIDE DEF F, f
  <2>5. F[1] = F[0] + f[1]
    BY <2>3
  <2> QED  BY <2>2, <2>3, <2>4, <2>5 DEF s, f
<1> QED  BY <1>1, <1>2, <1>3

LEMMA CountNat ==
  ASSUME NEW s \in Seq(Nat), NEW a
  PROVE  Count(s, a) \in Nat
BY CountFacts

LEMMA CountOne ==
  ASSUME NEW b \in Nat, NEW a
  PROVE  Count(<<b>>, a) = IF b = a THEN 1 ELSE 0
BY CountFacts

LEMMA CountOneNat ==
  ASSUME NEW b \in Nat, NEW a
  PROVE  Count(<<b>>, a) \in Nat
<1>1. Count(<<b>>, a) = 0 \/ Count(<<b>>, a) = 1
  BY CountOne
<1> QED  BY <1>1

\* Of the first and of the rest
LEMMA CountHead ==
  ASSUME NEW s \in Seq(Nat), s # << >>, NEW a
  PROVE  /\ Head(s) \in Nat /\ Tail(s) \in Seq(Nat)
         /\ Count(s, a) = (IF Head(s) = a THEN 1 ELSE 0) + Count(Tail(s), a)
<1> DEFINE h == <<Head(s)>>
           t == Tail(s)
<1>1. Head(s) \in Nat /\ h \in Seq(Nat) /\ t \in Seq(Nat) /\ s = h \o t
  OBVIOUS
<1>2. Count(h, a) = IF Head(s) = a THEN 1 ELSE 0
  BY <1>1, CountFacts
<1> HIDE DEF h, t
<1>3. Count(s, a) = Count(h, a) + Count(t, a)
  BY <1>1, CountConcat
<1> QED  BY <1>1, <1>2, <1>3 DEF t

Amounts(seqs, a) == [i \in 1..Len(seqs) |-> Count(seqs[i], a)]

LEMMA AmountsFacts ==
  ASSUME NEW seqs \in Seq(Seq(Nat)), NEW a
  PROVE  /\ Len(seqs) \in Nat /\ Amounts(seqs, a) \in [1..Len(seqs) -> Nat]
         /\ Amounts(seqs, a) \in [1..Len(seqs) -> Int]
         /\ \A i \in 1..Len(seqs) : Amounts(seqs, a)[i] = Count(seqs[i], a) /\ seqs[i] \in Seq(Nat)
<1>1. \A i \in 1..Len(seqs) : seqs[i] \in Seq(Nat) /\ Count(seqs[i], a) \in Nat
  <2> TAKE i \in 1..Len(seqs)
  <2>1. seqs[i] \in Seq(Nat)
    OBVIOUS
  <2> QED  BY <2>1, CountFacts
<1> QED  BY <1>1 DEF Amounts

\* Of sequences one after another
LEMMA CountFlat ==
  ASSUME NEW seqs \in Seq(Seq(Nat)), NEW a
  PROVE  FlattenSeq(seqs) \in Seq(Nat) /\ Count(FlattenSeq(seqs), a) = Total(Amounts(seqs, a))
<1> DEFINE n == Len(seqs)
           f == Amounts(seqs, a)
           F == Sums(f)
<1>1. /\ n \in Nat /\ \A i \in 1..n : f[i] = Count(seqs[i], a) /\ seqs[i] \in Seq(Nat)
  BY AmountsFacts
<1>2. F[0] = 0 /\ (\A i \in 1..n : F[i] = F[i - 1] + f[i]) /\ Total(f) = F[n]
  BY AmountsFacts, SumsDef, ZenonT(40)
<1>3. FlattenSeq(seqs) \in Seq(Nat)
  BY FlattenSeqType
<1>4. CASE n = 0
  <2>1. seqs = << >> /\ FlattenSeq(seqs) = << >>
    BY <1>4 DEF FlattenSeq
  <2> QED  BY <1>2, <1>3, <1>4, <2>1, CountFacts
<1>5. CASE n > 0
  <2>1. PICK g \in [1..n -> Seq(Nat)] :
          /\ g = [i \in 1..n |-> IF i = 1 THEN seqs[i] ELSE g[i - 1] \o seqs[i]]
          /\ FlattenSeq(seqs) = g[n]
    BY <1>5, FlattenSeqDef
  <2>2. \A i \in 1..n : g[i] = IF i = 1 THEN seqs[i] ELSE g[i - 1] \o seqs[i]
    BY <2>1
  <2> HIDE DEF f, F, n
  <2> DEFINE T == {i \in Nat : i + 1 <= n => Count(g[i + 1], a) = F[i + 1]}
  <2>3. 0 \in T
    <3>1. 1 \in 1..n /\ 1 - 1 = 0 /\ 0 + 1 = 1
      BY <1>1, <1>5
    <3>2. g[1] = seqs[1] /\ f[1] = Count(seqs[1], a) /\ F[1] = F[1 - 1] + f[1]
      BY <1>1, <1>2, <2>2, <3>1
    <3>3. Count(seqs[1], a) \in Nat
      BY <1>1, <3>1, CountFacts
    <3>4. Count(g[1], a) = F[1]
      BY <1>2, <3>1, <3>2, <3>3
    <3> QED  BY <3>1, <3>4
  <2>4. ASSUME NEW i \in Nat, i \in T PROVE i + 1 \in T
    <3> SUFFICES ASSUME (i + 1) + 1 <= n PROVE Count(g[(i + 1) + 1], a) = F[(i + 1) + 1]
      OBVIOUS
    <3> DEFINE k == (i + 1) + 1
    <3>1. k \in 1..n /\ k # 1 /\ k - 1 = i + 1 /\ i + 1 \in 1..n /\ i + 1 <= n
      BY <1>1
    <3> HIDE DEF k
    <3>2. g[k] = g[i + 1] \o seqs[k] /\ g[i + 1] \in Seq(Nat) /\ seqs[k] \in Seq(Nat)
      BY <1>1, <2>2, <3>1
    <3>3. Count(g[k], a) = Count(g[i + 1], a) + Count(seqs[k], a)
      BY <3>2, CountConcat
    <3>4. F[k] = F[i + 1] + Count(seqs[k], a)
      BY <1>1, <1>2, <3>1
    <3>5. Count(g[i + 1], a) = F[i + 1]
      BY <2>4, <3>1
    <3> QED  BY <3>3, <3>4, <3>5 DEF k
  <2> HIDE DEF T
  <2>5. \A i \in Nat : i \in T
    BY <2>3, <2>4, Induction
  <2>6. n - 1 \in Nat /\ (n - 1) + 1 = n /\ n <= n
    BY <1>1, <1>5
  <2>7. n - 1 \in T
    BY <2>5, <2>6
  <2>8. Count(g[n], a) = F[n]
    BY <2>6, <2>7 DEF T
  <2> QED  BY <1>2, <1>3, <2>1, <2>8 DEF f
<1> QED  BY <1>1, <1>4, <1>5

-----------------------------------------------------------------------------
(* What rows and objects hold *)

RefsOf(rs) == [i \in 1..Len(rs) |-> rs[i].refs]

LEMMA RowRefsFacts ==
  ASSUME NEW rs \in Seq(AnyRow), NEW a
  PROVE  /\ RefsOf(rs) \in Seq(Seq(Nat)) /\ Len(RefsOf(rs)) = Len(rs)
         /\ \A i \in 1..Len(rs) : RefsOf(rs)[i] = rs[i].refs /\ rs[i].refs \in Seq(Nat)
         /\ RowRefs(rs) \in Seq(Nat)
         /\ Count(RowRefs(rs), a) = Total(Amounts(RefsOf(rs), a))
<1>1. \A i \in 1..Len(rs) : rs[i].refs \in Seq(Nat)
  <2> TAKE i \in 1..Len(rs)
  <2>1. rs[i] \in AnyRow
    OBVIOUS
  <2> QED  BY <2>1 DEF AnyRow
<1>2. RefsOf(rs) \in Seq(Seq(Nat)) /\ Len(RefsOf(rs)) = Len(rs)
  BY <1>1 DEF RefsOf
<1>3. \A i \in 1..Len(rs) : RefsOf(rs)[i] = rs[i].refs
  BY DEF RefsOf
<1>4. RowRefs(rs) = FlattenSeq(RefsOf(rs))
  <2>1. DOMAIN rs = 1..Len(rs)
    OBVIOUS
  <2> QED  BY <2>1 DEF RowRefs, RefsOf
<1> QED  BY <1>1, <1>2, <1>3, <1>4, CountFlat

\* No row, one row, a row more
LEMMA RowRefsMore ==
  ASSUME NEW rs \in Seq(AnyRow), NEW r \in AnyRow, NEW a
  PROVE  /\ Append(rs, r) \in Seq(AnyRow)
         /\ Count(RowRefs(Append(rs, r)), a) = Count(RowRefs(rs), a) + Count(r.refs, a)
<1> DEFINE N == Len(rs)
           new == Append(rs, r)
           f == Amounts(RefsOf(rs), a)
           g == Amounts(RefsOf(new), a)
<1>1. /\ N \in Nat /\ new \in Seq(AnyRow) /\ Len(new) = N + 1 /\ new[N + 1] = r
      /\ \A i \in 1..N : new[i] = rs[i]
  OBVIOUS
<1> HIDE DEF new
<1>2. f \in [1..N -> Int] /\ \A i \in 1..N : f[i] = Count(rs[i].refs, a)
  BY RowRefsFacts, AmountsFacts
<1>3. g \in [1..(N + 1) -> Int] /\ \A i \in 1..(N + 1) : g[i] = Count(new[i].refs, a)
  BY <1>1, RowRefsFacts, AmountsFacts
<1> HIDE DEF f, g
<1>4. \A i \in 1..N : f[i] = g[i]
  <2> TAKE i \in 1..N
  <2>1. i \in 1..(N + 1)
    BY <1>1
  <2> QED  BY <1>1, <1>2, <1>3, <2>1
<1>5. g[N + 1] = Count(r.refs, a)
  BY <1>1, <1>3
<1> HIDE DEF N
<1>6. Total(g) = Total(f) + g[N + 1]
  BY <1>1, <1>2, <1>3, <1>4, TotalMore
<1>7. Count(RowRefs(new), a) = Total(g) /\ Count(RowRefs(rs), a) = Total(f)
  BY <1>1, RowRefsFacts DEF f, g
<1> QED  BY <1>1, <1>5, <1>6, <1>7 DEF new

LEMMA RowRefsFew ==
  ASSUME NEW a
  PROVE  /\ RowRefs(<< >>) = << >>
         /\ \A r \in AnyRow : Count(RowRefs(<<r>>), a) = Count(r.refs, a)
<1>1. RowRefs(<< >>) = << >>
  BY DEF RowRefs, FlattenSeq
<1>2. ASSUME NEW r \in AnyRow PROVE Count(RowRefs(<<r>>), a) = Count(r.refs, a)
  <2> DEFINE none == << >>
             one  == <<r>>
  <2>1. none \in Seq(AnyRow) /\ one = Append(none, r)
    OBVIOUS
  <2>2. Count(RowRefs(none), a) = 0
    BY <1>1, CountFacts
  <2> HIDE DEF none, one
  <2>3. Count(RowRefs(Append(none, r)), a) = 0 + Count(r.refs, a)
    BY <2>1, <2>2, RowRefsMore
  <2>4. r.refs \in Seq(Nat)
    BY DEF AnyRow
  <2>5. Count(r.refs, a) \in Nat
    BY <2>4, CountFacts
  <2>6. Count(RowRefs(one), a) = Count(r.refs, a)
    BY <2>1, <2>3, <2>5
  <2> QED  BY <2>6 DEF one
<1> QED  BY <1>1, <1>2

\* The rows hold what each of them holds.
LEMMA RowRefsHold ==
  ASSUME NEW rs \in Seq(AnyRow), NEW i \in 1..Len(rs), NEW a
  PROVE  Count(rs[i].refs, a) <= Count(RowRefs(rs), a)
<1> DEFINE f == Amounts(RefsOf(rs), a)
           N == Len(rs)
<1>1. N \in Nat /\ f \in [1..N -> Nat] /\ f[i] = Count(rs[i].refs, a) /\ Count(RowRefs(rs), a) = Total(f)
  BY RowRefsFacts, AmountsFacts
<1> HIDE DEF f
<1>2. i \in 1..N
  OBVIOUS
<1> HIDE DEF N
<1> QED  BY <1>1, <1>2, TotalAtLeast

LEMMA GroupFacts ==
  ASSUME NEW g \in AnyGroup, NEW a
  PROVE  /\ g.key \in AnyRow /\ g.rows \in Seq(AnyRow) /\ g.set \in Nat /\ g.key.refs \in Seq(Nat)
         /\ GroupRefs(g) \in Seq(Nat)
         /\ Count(GroupRefs(g), a) =
              Count(g.key.refs, a) + (IF g.set # Null THEN Count(<<g.set>>, a) ELSE Count(RowRefs(g.rows), a))
<1>1. g.key \in AnyRow /\ g.rows \in Seq(AnyRow) /\ g.set \in Nat /\ g.key.refs \in Seq(Nat)
  BY DEF AnyGroup, AnyRow
<1> DEFINE t == IF g.set # Null THEN <<g.set>> ELSE RowRefs(g.rows)
<1>2. t \in Seq(Nat) /\ Count(t, a) = IF g.set # Null THEN Count(<<g.set>>, a) ELSE Count(RowRefs(g.rows), a)
  <2>1. RowRefs(g.rows) \in Seq(Nat) /\ <<g.set>> \in Seq(Nat)
    BY <1>1, RowRefsFacts
  <2> QED  BY <2>1
<1>3. GroupRefs(g) = g.key.refs \o t
  BY DEF GroupRefs
<1> HIDE DEF t
<1> QED  BY <1>1, <1>2, <1>3, CountConcat

GroupsRefs(gs) == [i \in 1..Len(gs) |-> GroupRefs(gs[i])]
GroupsCount(gs, a) == Total(Amounts(GroupsRefs(gs), a))

LEMMA GroupsFacts ==
  ASSUME NEW gs \in Seq(AnyGroup), NEW a
  PROVE  /\ Len(gs) \in Nat /\ Len(GroupsRefs(gs)) = Len(gs)
         /\ Amounts(GroupsRefs(gs), a) \in [1..Len(gs) -> Nat]
         /\ Amounts(GroupsRefs(gs), a) \in [1..Len(gs) -> Int]
         /\ \A i \in 1..Len(gs) : Amounts(GroupsRefs(gs), a)[i] = Count(GroupRefs(gs[i]), a)
         /\ FlattenSeq(GroupsRefs(gs)) \in Seq(Nat)
         /\ Count(FlattenSeq(GroupsRefs(gs)), a) = GroupsCount(gs, a)
         /\ GroupsCount(gs, a) \in Nat
<1>1. \A i \in 1..Len(gs) : gs[i] \in AnyGroup
  OBVIOUS
<1>2. \A i \in 1..Len(gs) : GroupRefs(gs[i]) \in Seq(Nat)
  BY <1>1, GroupFacts
<1> DEFINE seqs == GroupsRefs(gs)
<1>3. seqs \in Seq(Seq(Nat)) /\ Len(seqs) = Len(gs) /\ \A i \in 1..Len(gs) : seqs[i] = GroupRefs(gs[i])
  BY <1>2 DEF GroupsRefs
<1> HIDE DEF seqs
<1>4. /\ Len(seqs) \in Nat /\ Amounts(seqs, a) \in [1..Len(seqs) -> Nat]
      /\ Amounts(seqs, a) \in [1..Len(seqs) -> Int]
      /\ \A i \in 1..Len(seqs) : Amounts(seqs, a)[i] = Count(seqs[i], a)
  BY <1>3, AmountsFacts
<1>5. FlattenSeq(seqs) \in Seq(Nat) /\ Count(FlattenSeq(seqs), a) = Total(Amounts(seqs, a))
  BY <1>3, CountFlat
<1>6. Total(Amounts(seqs, a)) \in Nat
  BY <1>5, CountFacts, ZenonT(40)
<1> QED  BY <1>3, <1>4, <1>5, <1>6 DEF GroupsCount, seqs

LEMMA ObjectFacts ==
  ASSUME NEW o \in Objects
  PROVE  /\ o.kind \in {"text", "set", "partition"} /\ o.refs \in Int /\ o.text \in Values
         /\ o.rows \in Seq(AnyRow) /\ o.groups \in Seq(AnyGroup) /\ o.empty \in Nat
         /\ o.extracting \in BOOLEAN
BY DEF Objects

LEMMA OwnedFacts ==
  ASSUME NEW o \in Objects, NEW a
  PROVE  /\ Owned(o) \in Seq(Nat)
         /\ Count(Owned(o), a) = Count(RowRefs(o.rows), a)
                                 + (IF o.kind = "partition" THEN Count(<<o.empty>>, a) ELSE 0)
                                 + GroupsCount(o.groups, a)
<1> DEFINE r == RowRefs(o.rows)
           e == IF o.kind = "partition" THEN <<o.empty>> ELSE << >>
           g == FlattenSeq(GroupsRefs(o.groups))
<1>1. r \in Seq(Nat)
  BY ObjectFacts, RowRefsFacts
<1>2. e \in Seq(Nat) /\ Count(e, a) = IF o.kind = "partition" THEN Count(<<o.empty>>, a) ELSE 0
  <2>1. <<o.empty>> \in Seq(Nat)
    BY ObjectFacts
  <2> QED  BY <2>1, CountFacts
<1>3. g \in Seq(Nat) /\ Count(g, a) = GroupsCount(o.groups, a)
  BY ObjectFacts, GroupsFacts
<1>4. Owned(o) = r \o e \o g
  <2>1. DOMAIN o.groups = 1..Len(o.groups)
    BY ObjectFacts
  <2> QED  BY <2>1 DEF Owned, GroupsRefs
<1> HIDE DEF r, e, g
<1>5. r \o e \in Seq(Nat) /\ Count(r \o e, a) = Count(r, a) + Count(e, a)
  BY <1>1, <1>2, CountConcat
<1> DEFINE re == r \o e
<1> HIDE DEF re
<1>6. re \o g \in Seq(Nat) /\ Count(re \o g, a) = Count(re, a) + Count(g, a)
  BY <1>3, <1>5, CountConcat DEF re
<1>7. Owned(o) = re \o g
  BY <1>4 DEF re
<1> QED  BY <1>2, <1>3, <1>5, <1>6, <1>7 DEF re, r

LEMMA OwnedType ==
  ASSUME NEW o \in Objects
  PROVE  Owned(o) \in Seq(Nat)
BY OwnedFacts

-----------------------------------------------------------------------------
(* What a heap holds *)

OwnedBy(o, a) == IF o.refs > 0 THEN Count(Owned(o), a) ELSE 0
SizeOwned(o)  == IF o.refs > 0 THEN Len(Owned(o)) ELSE 0

OwnedAmounts(h, a) == [b \in 1..Len(h) |-> OwnedBy(h[b], a)]
OwnedSizes(h)      == [b \in 1..Len(h) |-> SizeOwned(h[b])]

LEMMA HeapFacts ==
  ASSUME NEW h \in Heaps
  PROVE  /\ Len(h) \in Nat /\ DOMAIN h = 1..Len(h)
         /\ \A b \in 1..Len(h) : h[b] \in Objects /\ b \in Nat /\ b \in Addresses
BY DEF Heaps, Addresses

LEMMA OwnedByFacts ==
  ASSUME NEW o \in Objects, NEW a
  PROVE  OwnedBy(o, a) \in Nat /\ SizeOwned(o) \in Nat
<1>1. Count(Owned(o), a) \in Nat
  BY OwnedType, CountNat
<1>2. Len(Owned(o)) \in Nat
  BY OwnedType
<1> QED  BY <1>1, <1>2 DEF OwnedBy, SizeOwned

LEMMA OwnedCountFacts ==
  ASSUME NEW h \in Heaps, NEW a
  PROVE  /\ OwnedAmounts(h, a) \in [1..Len(h) -> Nat] /\ OwnedAmounts(h, a) \in [1..Len(h) -> Int]
         /\ \A b \in 1..Len(h) : OwnedAmounts(h, a)[b] = OwnedBy(h[b], a)
         /\ OwnedCount(h, a) = Total(OwnedAmounts(h, a)) /\ OwnedCount(h, a) \in Nat
         /\ \A b \in 1..Len(h) : OwnedBy(h[b], a) <= OwnedCount(h, a)
<1>1. Len(h) \in Nat /\ DOMAIN h = 1..Len(h) /\ \A b \in 1..Len(h) : h[b] \in Objects
  BY HeapFacts
<1>2. \A b \in 1..Len(h) : OwnedBy(h[b], a) \in Nat
  BY <1>1, OwnedByFacts
<1>3. /\ OwnedAmounts(h, a) \in [1..Len(h) -> Nat] /\ OwnedAmounts(h, a) \in [1..Len(h) -> Int]
      /\ \A b \in 1..Len(h) : OwnedAmounts(h, a)[b] = OwnedBy(h[b], a)
  BY <1>2 DEF OwnedAmounts
<1>4. OwnedCount(h, a) = Total(OwnedAmounts(h, a))
  BY <1>1 DEF OwnedCount, OwnedAmounts, OwnedBy
<1>5. Total(OwnedAmounts(h, a)) \in Nat /\ \A b \in 1..Len(h) : OwnedAmounts(h, a)[b] <= Total(OwnedAmounts(h, a))
  BY <1>1, <1>3, TotalAtLeast
<1> QED  BY <1>3, <1>4, <1>5

LEMMA OwnedSizesFacts ==
  ASSUME NEW h \in Heaps
  PROVE  /\ OwnedSizes(h) \in [1..Len(h) -> Nat] /\ OwnedSizes(h) \in [1..Len(h) -> Int]
         /\ \A b \in 1..Len(h) : OwnedSizes(h)[b] = SizeOwned(h[b])
         /\ Total(OwnedSizes(h)) \in Nat
<1>1. Len(h) \in Nat /\ \A b \in 1..Len(h) : h[b] \in Objects
  BY HeapFacts
<1>2. \A b \in 1..Len(h) : SizeOwned(h[b]) \in Nat
  BY <1>1, OwnedByFacts
<1>3. /\ OwnedSizes(h) \in [1..Len(h) -> Nat] /\ OwnedSizes(h) \in [1..Len(h) -> Int]
      /\ \A b \in 1..Len(h) : OwnedSizes(h)[b] = SizeOwned(h[b])
  BY <1>2 DEF OwnedSizes
<1> QED  BY <1>1, <1>3, TotalAtLeast

\* Another object at one address, or the same at all
LEMMA OwnedCountChange ==
  ASSUME NEW h \in Heaps, NEW g \in Heaps, Len(g) = Len(h), NEW p \in 1..Len(h),
         \A b \in 1..Len(h) : b # p => g[b] = h[b]
  PROVE  /\ \A a : OwnedCount(g, a) = OwnedCount(h, a) + (OwnedBy(g[p], a) - OwnedBy(h[p], a))
         /\ Total(OwnedSizes(g)) = Total(OwnedSizes(h)) + (SizeOwned(g[p]) - SizeOwned(h[p]))
<1> DEFINE N == Len(h)
<1>1. N \in Nat /\ p \in 1..N /\ Len(g) = N
  BY HeapFacts
<1>2. ASSUME NEW a PROVE OwnedCount(g, a) = OwnedCount(h, a) + (OwnedBy(g[p], a) - OwnedBy(h[p], a))
  <2> DEFINE e == OwnedAmounts(h, a)
             f == OwnedAmounts(g, a)
  <2>1. e \in [1..N -> Int] /\ OwnedCount(h, a) = Total(e) /\ \A b \in 1..N : e[b] = OwnedBy(h[b], a)
    BY OwnedCountFacts
  <2>2. f \in [1..N -> Int] /\ OwnedCount(g, a) = Total(f) /\ \A b \in 1..N : f[b] = OwnedBy(g[b], a)
    BY <1>1, OwnedCountFacts
  <2> HIDE DEF e, f
  <2>3. \A b \in 1..N : b # p => e[b] = f[b]
    BY <2>1, <2>2
  <2> HIDE DEF N
  <2>4. Total(f) = Total(e) + (f[p] - e[p])
    BY <1>1, <2>1, <2>2, <2>3, TotalChange
  <2> QED  BY <1>1, <2>1, <2>2, <2>4
<1>3. Total(OwnedSizes(g)) = Total(OwnedSizes(h)) + (SizeOwned(g[p]) - SizeOwned(h[p]))
  <2> DEFINE e == OwnedSizes(h)
             f == OwnedSizes(g)
  <2>1. e \in [1..N -> Int] /\ \A b \in 1..N : e[b] = SizeOwned(h[b])
    BY OwnedSizesFacts
  <2>2. f \in [1..N -> Int] /\ \A b \in 1..N : f[b] = SizeOwned(g[b])
    BY <1>1, OwnedSizesFacts
  <2> HIDE DEF e, f
  <2>3. \A b \in 1..N : b # p => e[b] = f[b]
    BY <2>1, <2>2
  <2> HIDE DEF N
  <2>4. Total(f) = Total(e) + (f[p] - e[p])
    BY <1>1, <2>1, <2>2, <2>3, TotalChange
  <2>5. f[p] = SizeOwned(g[p]) /\ e[p] = SizeOwned(h[p])
    BY <1>1, <2>1, <2>2
  <2> QED  BY <2>4, <2>5 DEF e, f
<1> QED  BY <1>2, <1>3

LEMMA OwnedCountSame ==
  ASSUME NEW h \in Heaps, NEW g \in Heaps, Len(g) = Len(h), NEW a,
         \A b \in 1..Len(h) : OwnedBy(g[b], a) = OwnedBy(h[b], a)
  PROVE  OwnedCount(g, a) = OwnedCount(h, a)
<1>1. OwnedAmounts(g, a) = OwnedAmounts(h, a)
  BY DEF OwnedAmounts
<1> QED  BY <1>1, OwnedCountFacts

\* A new object
LEMMA OwnedCountNew ==
  ASSUME NEW h \in Heaps, NEW o \in Objects, NEW a
  PROVE  /\ New(h, o) \in Heaps /\ Len(New(h, o)) = Len(h) + 1 /\ New(h, o)[Len(h) + 1] = o
         /\ \A b \in 1..Len(h) : New(h, o)[b] = h[b]
         /\ OwnedCount(New(h, o), a) = OwnedCount(h, a) + OwnedBy(o, a)
<1> DEFINE N == Len(h)
           g == New(h, o)
           e == OwnedAmounts(h, a)
           f == OwnedAmounts(g, a)
<1>1. /\ N \in Nat /\ g \in Heaps /\ Len(g) = N + 1 /\ g[N + 1] = o
      /\ \A b \in 1..N : g[b] = h[b]
  BY DEF Heaps, New
<1> HIDE DEF g
<1>2. e \in [1..N -> Int] /\ OwnedCount(h, a) = Total(e) /\ \A b \in 1..N : e[b] = OwnedBy(h[b], a)
  BY OwnedCountFacts
<1>3. f \in [1..(N + 1) -> Int] /\ OwnedCount(g, a) = Total(f) /\ \A b \in 1..(N + 1) : f[b] = OwnedBy(g[b], a)
  BY <1>1, OwnedCountFacts
<1> HIDE DEF e, f
<1>4. \A b \in 1..N : e[b] = f[b]
  <2> TAKE b \in 1..N
  <2>1. b \in 1..(N + 1)
    BY <1>1
  <2> QED  BY <1>1, <1>2, <1>3, <2>1
<1>5. f[N + 1] = OwnedBy(o, a)
  BY <1>1, <1>3
<1> HIDE DEF N
<1>6. Total(f) = Total(e) + f[N + 1]
  BY <1>1, <1>2, <1>3, <1>4, TotalMore
<1> QED  BY <1>1, <1>2, <1>3, <1>5, <1>6 DEF g, N

\* What an object owns does not depend on its count.
LEMMA OwnedSame ==
  ASSUME NEW o, NEW p, p.kind = o.kind, p.rows = o.rows, p.groups = o.groups, p.empty = o.empty
  PROVE  Owned(p) = Owned(o)
BY DEF Owned

LEMMA BalancedFacts ==
  ASSUME NEW h \in Heaps, NEW n \in Tallies, Balanced(h, n), NEW a \in Addresses
  PROVE  /\ n[a] \in Nat /\ RefsAt(h, a) \in Nat /\ RefsAt(h, a) = n[a] + OwnedCount(h, a)
         /\ a \in DOMAIN h => h[a].refs = RefsAt(h, a)
         /\ RefsAt(h, a) # 0 => a \in 1..Len(h)
         /\ n[a] # 0 => a \in 1..Len(h) /\ h[a].refs > 0
         /\ \A b \in 1..Len(h) : OwnedBy(h[b], a) # 0 => RefsAt(h, a) > 0
<1>1. n[a] \in Nat /\ OwnedCount(h, a) \in Nat /\ RefsAt(h, a) = n[a] + OwnedCount(h, a)
  BY OwnedCountFacts DEF Tallies, Balanced
<1>2. RefsAt(h, a) # 0 => a \in 1..Len(h)
  BY HeapFacts DEF RefsAt
<1>3. a \in DOMAIN h => h[a].refs = RefsAt(h, a)
  BY DEF RefsAt
<1>4. \A b \in 1..Len(h) : OwnedBy(h[b], a) # 0 => RefsAt(h, a) > 0
  <2> TAKE b \in 1..Len(h)
  <2>1. OwnedBy(h[b], a) <= OwnedCount(h, a) /\ h[b] \in Objects
    BY OwnedCountFacts, HeapFacts
  <2>2. OwnedBy(h[b], a) \in Nat
    BY <2>1, OwnedByFacts
  <2> QED  BY <1>1, <2>1, <2>2
<1>5. DOMAIN h = 1..Len(h)
  BY HeapFacts
<1> QED  BY <1>1, <1>2, <1>3, <1>4, <1>5

-----------------------------------------------------------------------------
(* The operations on counts *)

\* g is h but for the counts.
OnlyCounts(h, g) ==
  /\ Len(g) = Len(h)
  /\ \A b \in 1..Len(h) : g[b] = [h[b] EXCEPT !.refs = g[b].refs]

\* Every object that is referred to is there.
Alive(h, refs) == \A a \in Addresses : Count(refs, a) # 0 => RefsAt(h, a) > 0

\* m is n and what refs holds.
Joins(m, n, refs) == \A a \in Addresses : m[a] = n[a] + Count(refs, a)

LEMMA OnlyCountsFacts ==
  ASSUME NEW h \in Heaps, NEW g, OnlyCounts(h, g)
  PROVE  /\ Kept(h, g) /\ Len(g) = Len(h)
         /\ \A b \in 1..Len(h) : /\ g[b].kind = h[b].kind /\ g[b].rows = h[b].rows
                                 /\ g[b].groups = h[b].groups /\ g[b].empty = h[b].empty
                                 /\ g[b].text = h[b].text
                                 /\ Owned(g[b]) = Owned(h[b])
<1>1. Len(g) = Len(h) /\ Len(h) \in Nat /\ DOMAIN h = 1..Len(h)
  BY HeapFacts DEF OnlyCounts
<1>2. ASSUME NEW b \in 1..Len(h)
      PROVE  /\ g[b].kind = h[b].kind /\ g[b].rows = h[b].rows
             /\ g[b].groups = h[b].groups /\ g[b].empty = h[b].empty
             /\ g[b].text = h[b].text
             /\ Owned(g[b]) = Owned(h[b])
  <2> DEFINE o == h[b]
             r == g[b].refs
  <2>1. o \in Objects /\ g[b] = [o EXCEPT !.refs = r]
    BY <1>2, HeapFacts DEF OnlyCounts
  <2> HIDE DEF o, r
  <2>2. /\ g[b].kind = o.kind /\ g[b].rows = o.rows /\ g[b].groups = o.groups
        /\ g[b].empty = o.empty /\ g[b].text = o.text
    BY <2>1 DEF Objects
  <2>3. Owned(g[b]) = Owned(o)
    BY <2>2, OwnedSame
  <2> QED  BY <2>2, <2>3 DEF o
<1>3. Kept(h, g)
  BY <1>1, <1>2 DEF Kept
<1> QED  BY <1>1, <1>2, <1>3

LEMMA RetainBalanced ==
  ASSUME NEW h \in Heaps, NEW n \in Tallies, NEW m \in Tallies, NEW refs \in Seq(Nat),
         Balanced(h, n), Alive(h, refs), Joins(m, n, refs)
  PROVE  /\ Retain(h, refs) \in Heaps /\ Balanced(Retain(h, refs), m)
         /\ OnlyCounts(h, Retain(h, refs))
         /\ \A b \in 1..Len(h) : Retain(h, refs)[b].refs > 0 <=> h[b].refs > 0
<1> DEFINE g == Retain(h, refs)
           N == Len(h)
<1>1. N \in Nat /\ DOMAIN h = 1..N /\ \A b \in 1..N : h[b] \in Objects /\ b \in Addresses
  BY HeapFacts
<1>2. \A b \in 1..N : /\ h[b].refs \in Nat /\ Count(refs, b) \in Nat
                      /\ Count(refs, b) # 0 => h[b].refs > 0
  <2> TAKE b \in 1..N
  <2>1. h[b].refs = RefsAt(h, b) /\ RefsAt(h, b) \in Nat
    BY <1>1, BalancedFacts
  <2>2. Count(refs, b) \in Nat
    BY CountNat
  <2>3. b \in Addresses /\ (Count(refs, b) # 0 => RefsAt(h, b) > 0)
    BY <1>1 DEF Alive
  <2> QED  BY <2>1, <2>2, <2>3
<1>3. \A b \in 1..N : g[b] = [h[b] EXCEPT !.refs = h[b].refs + Count(refs, b)]
  <2> TAKE b \in 1..N
  <2>1. g[b] = [h[b] EXCEPT !.refs = IF @ <= 0 /\ Count(refs, b) > 0 THEN -1 ELSE @ + Count(refs, b)]
    BY <1>1 DEF Retain
  <2>2. ~(h[b].refs <= 0 /\ Count(refs, b) > 0)
    BY <1>2
  <2> QED  BY <2>1, <2>2
<1>4. g = [b \in 1..N |-> g[b]]
  BY <1>1 DEF Retain
<1> HIDE DEF g
<1>5. \A b \in 1..N : g[b] \in Objects /\ g[b].refs = h[b].refs + Count(refs, b)
  <2> TAKE b \in 1..N
  <2> DEFINE r == h[b].refs + Count(refs, b)
             o == h[b]
  <2>1. r \in Int /\ o \in Objects
    BY <1>1, <1>2
  <2>2. g[b] = [o EXCEPT !.refs = r]
    BY <1>3
  <2> HIDE DEF r, o
  <2>3. g[b] \in Objects /\ g[b].refs = r
    BY <2>1, <2>2 DEF Objects
  <2> QED  BY <2>3 DEF r
<1>6. g \in Heaps /\ Len(g) = N /\ DOMAIN g = 1..N
  BY <1>1, <1>4, <1>5 DEF Heaps
<1>7. OnlyCounts(h, g)
  <2>1. \A b \in 1..N : g[b] = [h[b] EXCEPT !.refs = g[b].refs]
    BY <1>3, <1>5
  <2> QED  BY <1>6, <2>1 DEF OnlyCounts
<1>8. \A b \in 1..N : g[b].refs > 0 <=> h[b].refs > 0
  BY <1>2, <1>5
<1>9. Balanced(g, m)
  <2> SUFFICES ASSUME NEW a \in Addresses PROVE RefsAt(g, a) = m[a] + OwnedCount(g, a)
    BY DEF Balanced
  <2>1. \A b \in 1..N : OwnedBy(g[b], a) = OwnedBy(h[b], a)
    BY <1>7, <1>8, OnlyCountsFacts DEF OwnedBy
  <2>2. OwnedCount(g, a) = OwnedCount(h, a)
    BY <1>6, <2>1, OwnedCountSame
  <2>3. RefsAt(g, a) = RefsAt(h, a) + Count(refs, a)
    <3>1. CASE a \in 1..N
      BY <1>1, <1>5, <1>6, <3>1 DEF RefsAt
    <3>2. CASE a \notin 1..N
      <4>1. RefsAt(h, a) = 0 /\ RefsAt(g, a) = 0
        BY <1>1, <1>6, <3>2 DEF RefsAt
      <4>2. Count(refs, a) = 0
        BY <4>1 DEF Alive
      <4> QED  BY <4>1, <4>2
    <3> QED  BY <3>1, <3>2
  <2>4. RefsAt(h, a) = n[a] + OwnedCount(h, a) /\ m[a] = n[a] + Count(refs, a)
    BY DEF Balanced, Joins
  <2>5. n[a] \in Nat /\ OwnedCount(h, a) \in Nat /\ Count(refs, a) \in Nat
    BY BalancedFacts, OwnedCountFacts, CountFacts
  <2> QED  BY <2>2, <2>3, <2>4, <2>5
<1> QED  BY <1>6, <1>7, <1>8, <1>9 DEF g

\* A new object is held once, and holds what was held elsewhere.
LEMMA NewBalanced ==
  ASSUME NEW h \in Heaps, NEW n \in Tallies, NEW m \in Tallies, NEW o \in Objects, o.refs = 1,
         Balanced(h, n),
         \A a \in Addresses : m[a] + Count(Owned(o), a) = n[a] + Count(<<Len(h) + 1>>, a)
  PROVE  New(h, o) \in Heaps /\ Len(New(h, o)) = Len(h) + 1 /\ Balanced(New(h, o), m) /\ Kept(h, New(h, o))
<1> DEFINE g == New(h, o)
           N == Len(h)
<1>1. /\ g \in Heaps /\ Len(g) = N + 1 /\ g[N + 1] = o /\ \A b \in 1..N : g[b] = h[b]
      /\ \A a : OwnedCount(g, a) = OwnedCount(h, a) + OwnedBy(o, a)
  BY OwnedCountNew
<1>2. N \in Nat /\ DOMAIN h = 1..N /\ DOMAIN g = 1..(N + 1)
  BY <1>1, HeapFacts
<1> HIDE DEF g
<1>3. Balanced(g, m)
  <2> SUFFICES ASSUME NEW a \in Addresses PROVE RefsAt(g, a) = m[a] + OwnedCount(g, a)
    BY DEF Balanced
  <2>1. OwnedBy(o, a) = Count(Owned(o), a)
    BY DEF OwnedBy
  <2>2. RefsAt(g, a) = RefsAt(h, a) + Count(<<N + 1>>, a)
    <3>1. Count(<<N + 1>>, a) = IF N + 1 = a THEN 1 ELSE 0
      BY <1>2, CountOne
    <3>2. CASE a = N + 1
      <4>1. RefsAt(h, a) = 0 /\ RefsAt(g, a) = 1
        BY <1>1, <1>2, <3>2 DEF RefsAt
      <4> QED  BY <3>1, <3>2, <4>1
    <3>3. CASE a # N + 1
      <4>1. RefsAt(h, a) = RefsAt(g, a)
        <5>1. CASE a \in 1..N
          BY <1>1, <1>2, <5>1 DEF RefsAt
        <5>2. CASE a \notin 1..N
          <6>1. a \notin 1..(N + 1)
            BY <1>2, <3>3, <5>2
          <6> QED  BY <1>2, <5>2, <6>1 DEF RefsAt
        <5> QED  BY <5>1, <5>2
      <4>2. RefsAt(h, a) \in Nat
        BY BalancedFacts
      <4> QED  BY <3>1, <3>3, <4>1, <4>2
    <3> QED  BY <3>2, <3>3
  <2>3. RefsAt(h, a) = n[a] + OwnedCount(h, a) /\ n[a] \in Nat /\ OwnedCount(h, a) \in Nat /\ m[a] \in Nat
    BY BalancedFacts, OwnedCountFacts DEF Tallies
  <2>4. Count(Owned(o), a) \in Nat /\ Count(<<N + 1>>, a) \in Nat
    <3>1. Owned(o) \in Seq(Nat) /\ <<N + 1>> \in Seq(Nat)
      BY <1>2, OwnedType
    <3> QED  BY <3>1, CountNat
  <2>5. m[a] + Count(Owned(o), a) = n[a] + Count(<<N + 1>>, a)
    OBVIOUS
  <2>6. OwnedCount(g, a) = OwnedCount(h, a) + OwnedBy(o, a)
    BY <1>1
  <2> QED  BY ONLY <2>1, <2>2, <2>3, <2>4, <2>5, <2>6, SMTT(30)
<1>4. Kept(h, g)
  BY <1>1, <1>2 DEF Kept
<1> QED  BY <1>1, <1>3, <1>4 DEF g

\* An object that holds something else.
LEMMA UpdateBalanced ==
  ASSUME NEW h \in Heaps, NEW n \in Tallies, NEW m \in Tallies, NEW p \in 1..Len(h),
         NEW o \in Objects, o.refs = h[p].refs, o.refs > 0, o.kind = h[p].kind, o.rows = h[p].rows,
         Balanced(h, n),
         \A a \in Addresses : m[a] + Count(Owned(o), a) = n[a] + Count(Owned(h[p]), a)
  PROVE  /\ [h EXCEPT ![p] = o] \in Heaps /\ Balanced([h EXCEPT ![p] = o], m)
         /\ Kept(h, [h EXCEPT ![p] = o]) /\ Len([h EXCEPT ![p] = o]) = Len(h)
<1> DEFINE g == [h EXCEPT ![p] = o]
           N == Len(h)
<1>1. /\ g \in Heaps /\ Len(g) = N /\ g[p] = o /\ \A b \in 1..N : b # p => g[b] = h[b]
  BY DEF Heaps
<1>2. N \in Nat /\ DOMAIN h = 1..N /\ DOMAIN g = 1..N /\ h[p] \in Objects
  BY <1>1, HeapFacts
<1> HIDE DEF g
<1>3. \A a : OwnedCount(g, a) = OwnedCount(h, a) + (OwnedBy(g[p], a) - OwnedBy(h[p], a))
  BY <1>1, OwnedCountChange
<1>4. Balanced(g, m)
  <2> SUFFICES ASSUME NEW a \in Addresses PROVE RefsAt(g, a) = m[a] + OwnedCount(g, a)
    BY DEF Balanced
  <2>1. OwnedBy(g[p], a) = Count(Owned(o), a) /\ OwnedBy(h[p], a) = Count(Owned(h[p]), a)
    BY <1>1 DEF OwnedBy
  <2>2. RefsAt(g, a) = RefsAt(h, a)
    BY <1>1, <1>2 DEF RefsAt
  <2>3. RefsAt(h, a) = n[a] + OwnedCount(h, a) /\ n[a] \in Nat /\ OwnedCount(h, a) \in Nat /\ m[a] \in Nat
    BY BalancedFacts, OwnedCountFacts DEF Tallies
  <2>4. Count(Owned(o), a) \in Nat /\ Count(Owned(h[p]), a) \in Nat
    <3>1. Owned(o) \in Seq(Nat) /\ Owned(h[p]) \in Seq(Nat)
      BY <1>2, OwnedType
    <3> QED  BY <3>1, CountNat
  <2>5. m[a] + Count(Owned(o), a) = n[a] + Count(Owned(h[p]), a)
    OBVIOUS
  <2>6. OwnedCount(g, a) = OwnedCount(h, a) + (OwnedBy(g[p], a) - OwnedBy(h[p], a))
    BY <1>3
  <2> QED  BY ONLY <2>1, <2>2, <2>3, <2>4, <2>5, <2>6, SMTT(30)
<1>5. Kept(h, g)
  BY <1>1, <1>2 DEF Kept
<1> QED  BY <1>1, <1>4, <1>5 DEF g

-----------------------------------------------------------------------------
(* Release *)

\* The heap and what is still due, when m is what stays.
Releasing(h, m) ==
  {s \in [heap : Heaps, due : Seq(Nat)] :
     /\ OnlyCounts(h, s.heap)
     /\ \A a \in Addresses : RefsAt(s.heap, a) = m[a] + Count(s.due, a) + OwnedCount(s.heap, a)}

\* What is due and what may become due.
Work(s) == Len(s.due) + Total(OwnedSizes(s.heap))

LEMMA OnlyCountsTransitive ==
  ASSUME NEW h \in Heaps, NEW g \in Heaps, NEW f \in Heaps, OnlyCounts(h, g), OnlyCounts(g, f)
  PROVE  OnlyCounts(h, f)
<1>1. Len(f) = Len(h) /\ Len(g) = Len(h)
  BY DEF OnlyCounts
<1>2. ASSUME NEW b \in 1..Len(h) PROVE f[b] = [h[b] EXCEPT !.refs = f[b].refs]
  <2> DEFINE o == h[b]
             r == g[b].refs
             q == f[b].refs
  <2>1. o \in Objects /\ g[b] = [o EXCEPT !.refs = r] /\ f[b] = [g[b] EXCEPT !.refs = q]
    BY <1>1, <1>2, HeapFacts DEF OnlyCounts
  <2> HIDE DEF o, r, q
  <2>2. f[b] = [o EXCEPT !.refs = q]
    BY <2>1 DEF Objects
  <2> QED  BY <2>2 DEF o, q
<1> QED  BY <1>1, <1>2 DEF OnlyCounts

LEMMA WorkFacts ==
  ASSUME NEW h \in Heaps, NEW m \in Tallies, NEW s \in Releasing(h, m)
  PROVE  /\ s.heap \in Heaps /\ s.due \in Seq(Nat) /\ OnlyCounts(h, s.heap)
         /\ Len(s.due) \in Nat /\ Total(OwnedSizes(s.heap)) \in Nat /\ Work(s) \in Nat
         /\ Work(s) = 0 => s.due = << >>
         /\ \A a \in Addresses : RefsAt(s.heap, a) = m[a] + Count(s.due, a) + OwnedCount(s.heap, a)
<1>1. /\ s.heap \in Heaps /\ s.due \in Seq(Nat) /\ OnlyCounts(h, s.heap)
      /\ \A a \in Addresses : RefsAt(s.heap, a) = m[a] + Count(s.due, a) + OwnedCount(s.heap, a)
  BY DEF Releasing
<1>2. Len(s.due) \in Nat /\ Total(OwnedSizes(s.heap)) \in Nat
  BY <1>1, OwnedSizesFacts
<1>3. Len(s.due) = 0 => s.due = << >>
  BY <1>1
<1> QED  BY <1>1, <1>2, <1>3 DEF Work

\* One reference less: it was counted, and if it was the last one what the object owned
\* becomes due.
LEMMA ReleaseNextFacts ==
  ASSUME NEW h \in Heaps, NEW m \in Tallies, NEW s \in Releasing(h, m)
  PROVE  /\ ReleaseNext(s) \in Releasing(h, m)
         /\ s.due = << >> => ReleaseNext(s) = s
         /\ s.due # << >> => Work(ReleaseNext(s)) = Work(s) - 1
<1> DEFINE g == s.heap
           due == s.due
           c == Head(due)
           t == Tail(due)
           z == ReleaseNext(s)
<1>1. /\ g \in Heaps /\ due \in Seq(Nat) /\ OnlyCounts(h, g)
      /\ Len(due) \in Nat /\ Total(OwnedSizes(g)) \in Nat
      /\ \A a \in Addresses : RefsAt(g, a) = m[a] + Count(due, a) + OwnedCount(g, a)
  BY WorkFacts
<1>2. s = [heap |-> g, due |-> due] /\ Work(s) = Len(due) + Total(OwnedSizes(g))
  BY DEF Releasing, Work
<1>3. CASE due = << >>
  BY <1>3 DEF ReleaseNext
<1>4. CASE due # << >> /\ c = Null
  <2>1. z = [heap |-> g, due |-> t]
    BY <1>2, <1>4 DEF ReleaseNext
  <2>2. t \in Seq(Nat) /\ Len(t) = Len(due) - 1 /\ Len(t) \in Nat
    BY <1>1, <1>4
  <2>3. \A a \in Addresses : Count(due, a) = Count(t, a)
    <3> TAKE a \in Addresses
    <3>1. c # a /\ Count(t, a) \in Nat
      BY <1>4, <2>2, CountNat DEF Addresses, Null
    <3>2. Count(due, a) = (IF c = a THEN 1 ELSE 0) + Count(t, a)
      BY <1>1, <1>4, CountHead
    <3> QED  BY <3>1, <3>2
  <2> HIDE DEF g, t
  <2>4. z \in Releasing(h, m)
    BY <1>1, <2>1, <2>2, <2>3 DEF Releasing
  <2>5. Work(z) = Len(t) + Total(OwnedSizes(g))
    BY <2>1 DEF Work
  <2>6. Work(z) = Work(s) - 1
    BY <1>1, <1>2, <2>2, <2>5
  <2> QED  BY <1>4, <2>4, <2>6
<1>5. CASE due # << >> /\ c # Null
  <2> DEFINE o == g[c]
             r == o.refs
             p == [o EXCEPT !.refs = r - 1]
             less == [g EXCEPT ![c] = p]
             freed == IF r - 1 = 0 THEN Owned(o) ELSE << >>
             next == freed \o t
  <2>1. t \in Seq(Nat) /\ Len(t) = Len(due) - 1 /\ Len(t) \in Nat /\ c \in Addresses
    BY <1>1, <1>5, CountHead DEF Addresses, Null
  <2>2. \A a \in Addresses : Count(due, a) = (IF c = a THEN 1 ELSE 0) + Count(t, a)
    BY <1>1, <1>5, CountHead
  <2>3. RefsAt(g, c) \in Nat /\ RefsAt(g, c) # 0
    <3>1. m[c] \in Nat /\ OwnedCount(g, c) \in Nat /\ Count(t, c) \in Nat
      BY <1>1, <2>1, OwnedCountFacts, CountNat DEF Tallies
    <3>2. RefsAt(g, c) = m[c] + (1 + Count(t, c)) + OwnedCount(g, c)
      BY <1>1, <2>1, <2>2
    <3> QED  BY <3>1, <3>2
  <2>4. c \in 1..Len(g) /\ DOMAIN g = 1..Len(g) /\ r \in Nat /\ r > 0 /\ o \in Objects /\ RefsAt(g, c) = r
    <3>1. c \in DOMAIN g /\ r = RefsAt(g, c)
      BY <2>3 DEF RefsAt
    <3>2. DOMAIN g = 1..Len(g) /\ \A b \in 1..Len(g) : g[b] \in Objects
      BY <1>1, HeapFacts
    <3> QED  BY <2>3, <3>1, <3>2
  <2>5. /\ p \in Objects /\ p.refs = r - 1 /\ p.kind = o.kind /\ p.rows = o.rows
        /\ p.groups = o.groups /\ p.empty = o.empty
    <3>1. r - 1 \in Int
      BY <2>4
    <3> HIDE DEF o, r
    <3> QED  BY <2>4, <3>1 DEF Objects
  <2>6. Owned(p) = Owned(o) /\ Owned(o) \in Seq(Nat)
    BY <2>4, <2>5, OwnedSame, OwnedType
  <2> HIDE DEF p
  <2>7. /\ less \in Heaps /\ Len(less) = Len(g) /\ less[c] = p
        /\ \A b \in 1..Len(g) : b # c => less[b] = g[b]
    BY <1>1, <2>4, <2>5 DEF Heaps
  <2>8. z = [heap |-> less, due |-> next]
    <3>1. less = [g EXCEPT ![c].refs = @ - 1]
      BY <2>4 DEF p
    <3>2. less[c].refs = r - 1
      BY <2>5, <2>7
    <3> QED  BY <1>5, <3>1, <3>2 DEF ReleaseNext
  <2>9. OnlyCounts(g, less)
    <3>1. ASSUME NEW b \in 1..Len(g) PROVE less[b] = [g[b] EXCEPT !.refs = less[b].refs]
      <4>1. CASE b = c
        <5>1. less[c] = [o EXCEPT !.refs = p.refs]
          BY <2>5, <2>7 DEF p
        <5> QED  BY <2>7, <4>1, <5>1
      <4>2. CASE b # c
        <5> DEFINE x == g[b]
        <5>1. x \in Objects /\ less[b] = x
          BY <1>1, <2>7, <4>2, HeapFacts
        <5> HIDE DEF x
        <5>2. x = [x EXCEPT !.refs = x.refs]
          BY <5>1 DEF Objects
        <5> QED  BY <5>1, <5>2 DEF x
      <4> QED  BY <4>1, <4>2
    <3> QED  BY <2>7, <3>1 DEF OnlyCounts
  <2>10. OnlyCounts(h, less)
    BY <1>1, <2>7, <2>9, OnlyCountsTransitive
  <2>11. freed \in Seq(Nat) /\ next \in Seq(Nat) /\ Len(next) = Len(freed) + Len(t)
    BY <2>1, <2>6
  <2>12. /\ \A a \in Addresses : OwnedCount(less, a) = OwnedCount(g, a) + (OwnedBy(p, a) - OwnedBy(o, a))
         /\ Total(OwnedSizes(less)) = Total(OwnedSizes(g)) + (SizeOwned(p) - SizeOwned(o))
    <3> HIDE DEF less, g
    <3>1. /\ \A a : OwnedCount(less, a) = OwnedCount(g, a) + (OwnedBy(less[c], a) - OwnedBy(g[c], a))
          /\ Total(OwnedSizes(less)) = Total(OwnedSizes(g)) + (SizeOwned(less[c]) - SizeOwned(g[c]))
      BY <1>1, <2>4, <2>7, OwnedCountChange
    <3> QED  BY <2>7, <3>1
  <2>13. /\ SizeOwned(o) = Len(Owned(o)) /\ SizeOwned(p) = IF r - 1 = 0 THEN 0 ELSE Len(Owned(o))
         /\ \A a : /\ OwnedBy(o, a) = Count(Owned(o), a)
                   /\ OwnedBy(p, a) = IF r - 1 = 0 THEN 0 ELSE Count(Owned(o), a)
    <3> HIDE DEF o
    <3>1. r - 1 = 0 <=> ~(r - 1 > 0)
      BY <2>4
    <3> QED  BY <2>4, <2>5, <2>6, <3>1 DEF OwnedBy, SizeOwned
  <2>14. Len(freed) = SizeOwned(o) - SizeOwned(p) /\ Len(freed) \in Nat
    <3>1. Len(Owned(o)) \in Nat
      BY <2>6
    <3> QED  BY <2>13, <3>1
  <2>15. \A a \in Addresses : Count(freed, a) = OwnedBy(o, a) - OwnedBy(p, a)
    <3> TAKE a \in Addresses
    <3>1. Count(Owned(o), a) \in Nat /\ Count(<< >>, a) = 0
      BY <2>6, CountNat, CountFacts
    <3> QED  BY <2>13, <3>1
  <2>16. \A a \in Addresses : Count(next, a) = Count(freed, a) + Count(t, a)
    <3> HIDE DEF freed
    <3> QED  BY <2>1, <2>11, CountConcat
  <2>17. ASSUME NEW a \in Addresses PROVE RefsAt(less, a) = m[a] + Count(next, a) + OwnedCount(less, a)
    <3>1. RefsAt(less, a) = RefsAt(g, a) - (IF c = a THEN 1 ELSE 0)
      <4>1. CASE c = a
        BY <2>4, <2>5, <2>7, <4>1 DEF RefsAt, Heaps
      <4>2. CASE c # a
        <5>1. RefsAt(g, a) \in Nat
          <6>1. m[a] \in Nat /\ OwnedCount(g, a) \in Nat /\ Count(due, a) \in Nat
            BY <1>1, OwnedCountFacts, CountNat DEF Tallies
          <6> QED  BY <1>1, <6>1
        <5>2. RefsAt(less, a) = RefsAt(g, a)
          BY <2>4, <2>7, <4>2 DEF RefsAt, Heaps
        <5> QED  BY <4>2, <5>1, <5>2
      <4> QED  BY <4>1, <4>2
    <3>2. RefsAt(g, a) = m[a] + ((IF c = a THEN 1 ELSE 0) + Count(t, a)) + OwnedCount(g, a)
      BY <1>1, <2>2
    <3>3. Count(next, a) = (OwnedBy(o, a) - OwnedBy(p, a)) + Count(t, a)
      BY <2>15, <2>16
    <3>4. OwnedCount(less, a) = OwnedCount(g, a) + (OwnedBy(p, a) - OwnedBy(o, a))
      BY <2>12
    <3>5. /\ m[a] \in Nat /\ OwnedCount(g, a) \in Nat /\ Count(t, a) \in Nat
          /\ OwnedBy(p, a) \in Nat /\ OwnedBy(o, a) \in Nat
      BY <1>1, <2>1, <2>4, <2>5, OwnedCountFacts, OwnedByFacts, CountNat DEF Tallies
    <3> QED  BY ONLY <3>1, <3>2, <3>3, <3>4, <3>5
  <2> HIDE DEF less, next
  <2>18. z \in Releasing(h, m)
    BY <2>7, <2>8, <2>10, <2>11, <2>17 DEF Releasing
  <2>19. Work(z) = Len(next) + Total(OwnedSizes(less))
    BY <2>8 DEF Work
  <2>20. SizeOwned(p) \in Nat /\ SizeOwned(o) \in Nat
    BY <2>4, <2>5, OwnedByFacts
  <2>21. Work(z) = Work(s) - 1
    <3>1. Total(OwnedSizes(less)) = Total(OwnedSizes(g)) + (SizeOwned(p) - SizeOwned(o))
      BY <2>12
    <3>2. Len(next) = (SizeOwned(o) - SizeOwned(p)) + (Len(due) - 1)
      BY <2>1, <2>11, <2>14
    <3>3. Work(s) = Len(due) + Total(OwnedSizes(g)) /\ Len(due) \in Nat /\ Total(OwnedSizes(g)) \in Nat
      BY <1>1, <1>2
    <3> QED  BY ONLY <2>19, <2>20, <3>1, <3>2, <3>3
  <2> QED  BY <1>5, <2>18, <2>21
<1> QED  BY <1>3, <1>4, <1>5

LEMMA ReleaseBalanced ==
  ASSUME NEW h \in Heaps, NEW n \in Tallies, NEW m \in Tallies, NEW refs \in Seq(Nat),
         Balanced(h, n), Joins(n, m, refs)
  PROVE  /\ Release(h, refs) \in Heaps /\ Balanced(Release(h, refs), m)
         /\ OnlyCounts(h, Release(h, refs))
<1> DEFINE start == [heap |-> h, due |-> refs]
           N == ReleaseSteps(h, refs)
           Eq(g) == [k \in 0..N |-> IF k = 0 THEN start ELSE ReleaseNext(g[k - 1])]
           after == CHOOSE g : g = Eq(g)
           V == Releasing(h, m)
           step == [k \in 1..N |-> [s \in V |-> ReleaseNext(s)]]
<1>1. Release(h, refs) = after[N].heap
  BY DEF Release
<1>2. \A g : \A k \in 0..N : Eq(g)[k] = IF k = 0 THEN start ELSE ReleaseNext(g[k - 1])
  OBVIOUS
<1>3. \A g : Eq(g) = [k \in 0..N |-> Eq(g)[k]]
  OBVIOUS
<1>4. start \in V
  <2>1. OnlyCounts(h, h)
    <3>1. ASSUME NEW b \in 1..Len(h) PROVE h[b] = [h[b] EXCEPT !.refs = h[b].refs]
      <4> DEFINE o == h[b]
      <4>1. o \in Objects
        BY HeapFacts
      <4> HIDE DEF o
      <4>2. o = [o EXCEPT !.refs = o.refs]
        BY <4>1 DEF Objects
      <4> QED  BY <4>2 DEF o
    <3> QED  BY <3>1 DEF OnlyCounts
  <2>2. \A a \in Addresses : RefsAt(h, a) = m[a] + Count(refs, a) + OwnedCount(h, a)
    BY DEF Balanced, Joins
  <2> QED  BY <2>1, <2>2 DEF Releasing
<1>5. N = Work(start) /\ N \in Nat
  <2>1. N = Len(refs) + Total(OwnedSizes(h))
    <3>1. DOMAIN h = 1..Len(h)
      BY HeapFacts
    <3> QED  BY <3>1 DEF ReleaseSteps, OwnedSizes, SizeOwned
  <2>2. N = Work(start)
    BY <2>1 DEF Work
  <2> QED  BY <1>4, <2>2, WorkFacts
<1>6. step \in [1..N -> [V -> V]] /\ \A k \in 1..N : \A s \in V : step[k][s] = ReleaseNext(s)
  BY ReleaseNextFacts
<1> HIDE DEF Eq, V, step, N, start
<1>7. PICK g : Recursive(g, V, start, N, step)
  BY <1>4, <1>5, <1>6, RecursionExists
<1>8. g = Eq(g)
  <2>1. ASSUME NEW k \in 0..N PROVE g[k] = Eq(g)[k]
    <3>1. CASE k = 0
      BY <1>2, <1>7, <3>1 DEF Recursive
    <3>2. CASE k # 0
      <4>1. k \in 1..N /\ k - 1 \in 0..N
        BY <1>5, <3>2
      <4>2. g[k] = step[k][g[k - 1]] /\ g[k - 1] \in V
        BY <1>7, <4>1 DEF Recursive
      <4> QED  BY <1>2, <1>6, <3>2, <4>1, <4>2
    <3> QED  BY <3>1, <3>2
  <2>2. g = [k \in 0..N |-> g[k]]
    BY <1>7 DEF Recursive
  <2> QED  BY <1>3, <2>1, <2>2
<1>9. after = Eq(after)
  BY <1>8
<1> HIDE DEF after
<1>10. after[0] = start /\ \A k \in 1..N : after[k] = ReleaseNext(after[k - 1])
  <2>1. \A k \in 0..N : after[k] = IF k = 0 THEN start ELSE ReleaseNext(after[k - 1])
    BY <1>2, <1>9
  <2>2. after[0] = start
    <3>1. 0 \in 0..N
      BY <1>5
    <3>2. after[0] = IF 0 = 0 THEN start ELSE ReleaseNext(after[0 - 1])
      BY <2>1, <3>1, Zenon
    <3> QED  BY <3>2
  <2>3. ASSUME NEW k \in 1..N PROVE after[k] = ReleaseNext(after[k - 1])
    <3>1. k \in 0..N /\ k # 0
      BY <1>5
    <3>2. after[k] = IF k = 0 THEN start ELSE ReleaseNext(after[k - 1])
      BY <2>1, <3>1, Zenon
    <3> QED  BY <3>1, <3>2
  <2> QED  BY <2>2, <2>3
\* After k steps nothing is due, or there is less to do by k.
<1> DEFINE T == {k \in Nat : k <= N => /\ after[k] \in V
                                       /\ after[k].due = << >> \/ Work(after[k]) = N - k}
<1>11. 0 \in T
  BY <1>4, <1>5, <1>10
<1>12. ASSUME NEW k \in Nat, k \in T PROVE k + 1 \in T
  <2> SUFFICES ASSUME k + 1 <= N
               PROVE  /\ after[k + 1] \in V
                      /\ after[k + 1].due = << >> \/ Work(after[k + 1]) = N - (k + 1)
    OBVIOUS
  <2> DEFINE s == after[k]
  <2>1. k <= N /\ k + 1 \in 1..N /\ (k + 1) - 1 = k
    BY <1>5
  <2>2. s \in V /\ (s.due = << >> \/ Work(s) = N - k)
    BY <1>12, <2>1
  <2>3. after[k + 1] = ReleaseNext(s)
    BY <1>10, <2>1
  <2> HIDE DEF s
  <2>4. /\ ReleaseNext(s) \in V
        /\ s.due = << >> => ReleaseNext(s) = s
        /\ s.due # << >> => Work(ReleaseNext(s)) = Work(s) - 1
    BY <2>2, ReleaseNextFacts DEF V
  <2> QED  BY <1>5, <2>2, <2>3, <2>4
<1> HIDE DEF T
<1>13. N \in T
  BY <1>5, <1>11, <1>12, Induction
<1> DEFINE s == after[N]
<1>14. s \in V /\ (s.due = << >> \/ Work(s) = N - N)
  BY <1>5, <1>13 DEF T
<1> HIDE DEF s
<1>15. s.due = << >>
  BY <1>5, <1>14, WorkFacts DEF V
<1>16. /\ s.heap \in Heaps /\ OnlyCounts(h, s.heap)
       /\ \A a \in Addresses : RefsAt(s.heap, a) = m[a] + Count(s.due, a) + OwnedCount(s.heap, a)
  BY <1>14, WorkFacts DEF V
<1>17. Balanced(s.heap, m)
  <2> SUFFICES ASSUME NEW a \in Addresses PROVE RefsAt(s.heap, a) = m[a] + OwnedCount(s.heap, a)
    BY DEF Balanced
  <2>1. Count(s.due, a) = 0
    BY <1>15, CountFacts
  <2>2. m[a] \in Nat
    BY DEF Tallies
  <2> QED  BY <1>16, <2>1, <2>2
<1> QED  BY <1>1, <1>16, <1>17 DEF s

-----------------------------------------------------------------------------
(* The calls of the runtime *)

LEMMA SameTally ==
  ASSUME NEW h, NEW n, NEW m, Balanced(h, n), \A a \in Addresses : m[a] = n[a]
  PROVE  Balanced(h, m)
BY DEF Balanced

LEMMA AssignBalanced ==
  ASSUME NEW h \in Heaps, NEW n \in Tallies, NEW m \in Tallies, NEW old \in Nat, NEW new \in Nat,
         Balanced(h, n), new # Null => RefsAt(h, new) > 0,
         \A a \in Addresses : m[a] + Count(<<old>>, a) = n[a] + Count(<<new>>, a)
  PROVE  /\ Assign(h, old, new) \in Heaps /\ Balanced(Assign(h, old, new), m)
         /\ OnlyCounts(h, Assign(h, old, new))
<1> DEFINE both == [a \in Addresses |-> n[a] + Count(<<new>>, a)]
           g == Retain(h, <<new>>)
           f == Release(g, <<old>>)
<1>1. <<new>> \in Seq(Nat) /\ <<old>> \in Seq(Nat)
  OBVIOUS
<1>2. \A a \in Addresses : n[a] \in Nat /\ Count(<<new>>, a) \in Nat
  BY <1>1, CountNat DEF Tallies
<1>3. both \in Tallies /\ \A a \in Addresses : both[a] = n[a] + Count(<<new>>, a)
  BY <1>2 DEF Tallies
<1>4. Alive(h, <<new>>)
  <2> SUFFICES ASSUME NEW a \in Addresses, Count(<<new>>, a) # 0 PROVE RefsAt(h, a) > 0
    BY DEF Alive
  <2>1. new = a /\ new # Null
    BY CountOne DEF Addresses, Null
  <2> QED  BY <2>1
<1> HIDE DEF both
<1>5. Joins(both, n, <<new>>) /\ Joins(both, m, <<old>>)
  BY <1>3 DEF Joins
<1>6. g \in Heaps /\ Balanced(g, both) /\ OnlyCounts(h, g)
  BY <1>1, <1>3, <1>4, <1>5, RetainBalanced
<1> HIDE DEF g
<1>7. f \in Heaps /\ Balanced(f, m) /\ OnlyCounts(g, f)
  BY <1>1, <1>3, <1>5, <1>6, ReleaseBalanced
<1>8. Assign(h, old, new) = f
  BY DEF Assign, g
<1> HIDE DEF f
<1>9. OnlyCounts(h, f)
  BY <1>6, <1>7, OnlyCountsTransitive
<1> QED  BY <1>7, <1>8, <1>9

\* An object without groups owns what its rows hold.
LEMMA ObjectMade ==
  ASSUME NEW kind \in {"text", "set", "partition"}, NEW text \in Values, NEW rs \in Seq(AnyRow)
  PROVE  LET o == Object(kind, text, rs, << >>) IN
         /\ o \in Objects /\ o.refs = 1 /\ o.kind = kind /\ o.rows = rs /\ o.text = text
         /\ o.groups = << >>
         /\ \A a \in Addresses : Count(Owned(o), a) = Count(RowRefs(rs), a)
<1> DEFINE o == Object(kind, text, rs, << >>)
<1>1. << >> \in Seq(AnyGroup)
  OBVIOUS
<1>2. /\ o \in Objects /\ o.refs = 1 /\ o.kind = kind /\ o.rows = rs /\ o.text = text
      /\ o.groups = << >> /\ o.empty = Null
  BY <1>1 DEF Object, Objects, Null
<1> HIDE DEF o
<1>3. ASSUME NEW a \in Addresses PROVE Count(Owned(o), a) = Count(RowRefs(rs), a)
  <2>1. Count(<<Null>>, a) = 0
    BY CountOne DEF Null, Addresses
  <2>2. GroupsCount(o.groups, a) = 0
    <3> DEFINE gs == << >>
    <3>1. gs \in Seq(AnyGroup) /\ GroupsRefs(gs) = << >> /\ Len(gs) = 0
      BY DEF GroupsRefs
    <3>2. FlattenSeq(GroupsRefs(gs)) = << >>
      BY <3>1 DEF FlattenSeq
    <3> HIDE DEF gs
    <3>3. Count(FlattenSeq(GroupsRefs(gs)), a) = GroupsCount(gs, a)
      BY <3>1, GroupsFacts
    <3>4. GroupsCount(gs, a) = 0
      BY <3>2, <3>3, CountFacts
    <3>5. o.groups = gs
      BY <1>2 DEF gs
    <3> QED  BY <3>4, <3>5
  <2>3. RowRefs(rs) \in Seq(Nat)
    BY RowRefsFacts
  <2>4. Count(RowRefs(rs), a) \in Nat
    BY <2>3, CountNat
  <2>5. Count(Owned(o), a) = Count(RowRefs(o.rows), a)
                                 + (IF o.kind = "partition" THEN Count(<<o.empty>>, a) ELSE 0)
                                 + GroupsCount(o.groups, a)
    BY <1>2, OwnedFacts
  <2> QED  BY <1>2, <2>1, <2>2, <2>4, <2>5
<1> QED  BY <1>2, <1>3 DEF o

\* Rows of a known width
LEMMA RowFacts ==
  ASSUME NEW k \in Nat, NEW r \in RowOf(k)
  PROVE  /\ r \in AnyRow /\ r.n \in Nat /\ r.refs \in [1..k -> Nat] /\ r.refs \in Seq(Nat) /\ Len(r.refs) = k
         /\ \A i \in 1..k : /\ r.refs[i] \in Nat
                            /\ r.refs[i] \in Addresses => Count(r.refs, r.refs[i]) # 0
<1>1. r.n \in Nat /\ r.refs \in [1..k -> Nat] /\ r = [n |-> r.n, refs |-> r.refs]
  BY DEF RowOf
<1>2. r.refs \in Seq(Nat) /\ Len(r.refs) = k
  BY <1>1
<1>3. r \in AnyRow
  BY <1>1, <1>2 DEF AnyRow
<1>4. \A i \in 1..k : r.refs[i] \in Nat /\ Count(r.refs, r.refs[i]) # 0
  <2> TAKE i \in 1..k
  <2>1. i \in 1..Len(r.refs) /\ r.refs[i] \in Nat
    BY <1>1, <1>2
  <2> QED  BY <1>2, <2>1, CountFacts
<1> QED  BY <1>1, <1>2, <1>3, <1>4

LEMMA RowMade ==
  ASSUME NEW n \in Nat, NEW b \in Nat
  PROVE  Row(n, <<b>>) \in RowOf(1) /\ Row(n, <<b>>).refs = <<b>>
BY DEF Row, RowOf

LEMMA RowOfOne ==
  ASSUME NEW r \in RowOf(1)
  PROVE  r.refs[1] \in Nat /\ r.refs = <<r.refs[1]>>
BY DEF RowOf

LEMMA EmptyRowFacts ==
  ASSUME NEW k \in Nat
  PROVE  /\ EmptyRow(k) \in RowOf(k)
         /\ \A a \in Addresses : Count(EmptyRow(k).refs, a) = 0
<1> DEFINE r == EmptyRow(k)
<1>1. r \in RowOf(k) /\ r.refs = [i \in 1..k |-> 0]
  BY DEF EmptyRow, Row, RowOf, Null
<1>2. r.refs \in Seq(Nat) /\ \A i \in 1..Len(r.refs) : r.refs[i] = 0
  BY <1>1
<1> HIDE DEF r
<1>3. \A a \in Addresses : Count(r.refs, a) = 0
  <2> TAKE a \in Addresses
  <2>1. ~ \E i \in 1..Len(r.refs) : r.refs[i] = a
    BY <1>2 DEF Addresses
  <2> QED  BY <1>2, <2>1, CountFacts
<1> QED  BY <1>1, <1>3 DEF r

\* Where no set was extracted yet, there is none afterwards.
StaysOpen(h, g) == \A p \in DOMAIN h : Unextracted(h, p) => Unextracted(g, p)

LEMMA OnlyCountsOpen ==
  ASSUME NEW h \in Heaps, NEW g, OnlyCounts(h, g)
  PROVE  StaysOpen(h, g)
BY OnlyCountsFacts, HeapFacts DEF StaysOpen, Unextracted

LEMMA NewOpen ==
  ASSUME NEW h \in Heaps, NEW o \in Objects
  PROVE  StaysOpen(h, New(h, o))
<1> DEFINE g == New(h, o)
<1>1. DOMAIN h = 1..Len(h) /\ \A b \in 1..Len(h) : g[b] = h[b]
  BY HeapFacts, OwnedCountNew
<1> HIDE DEF g
<1> QED  BY <1>1 DEF StaysOpen, Unextracted, g

LEMMA KeptTransitive ==
  ASSUME NEW h \in Heaps, NEW g \in Heaps, NEW f \in Heaps, Kept(h, g), Kept(g, f)
  PROVE  Kept(h, f)
<1>1. /\ Len(h) \in Nat /\ Len(g) \in Nat /\ Len(f) \in Nat /\ DOMAIN h = 1..Len(h) /\ DOMAIN g = 1..Len(g)
      /\ Len(h) <= Len(g) /\ Len(g) <= Len(f)
  BY HeapFacts DEF Kept
<1>2. \A a \in 1..Len(h) : a \in 1..Len(g)
  BY <1>1
<1> QED  BY <1>1, <1>2 DEF Kept

LEMMA OpenTransitive ==
  ASSUME NEW h \in Heaps, NEW g \in Heaps, NEW f \in Heaps, Kept(h, g), StaysOpen(h, g), StaysOpen(g, f)
  PROVE  StaysOpen(h, f)
<1>1. /\ Len(h) \in Nat /\ Len(g) \in Nat /\ DOMAIN h = 1..Len(h) /\ DOMAIN g = 1..Len(g)
      /\ Len(h) <= Len(g)
  BY HeapFacts DEF Kept
<1>2. \A a \in 1..Len(h) : a \in 1..Len(g)
  BY <1>1
<1> QED  BY <1>1, <1>2 DEF StaysOpen

\* g is h with more objects and other counts; the groups of the partition at p may
\* have changed as well.  Texts and rows never do.
Grows(h, g, p) ==
  /\ Len(h) <= Len(g)
  /\ \A a \in 1..Len(h) : /\ g[a].text = h[a].text /\ g[a].rows = h[a].rows
                          /\ a # p => g[a].groups = h[a].groups /\ g[a].empty = h[a].empty

LEMMA OnlyCountsGrow ==
  ASSUME NEW h \in Heaps, NEW g, OnlyCounts(h, g), NEW p
  PROVE  Grows(h, g, p)
BY OnlyCountsFacts, HeapFacts DEF Grows

LEMMA NewGrows ==
  ASSUME NEW h \in Heaps, NEW o \in Objects, NEW p
  PROVE  Grows(h, New(h, o), p) /\ New(h, o) \in Heaps /\ Len(New(h, o)) = Len(h) + 1 /\ New(h, o)[Len(h) + 1] = o
<1> DEFINE g == New(h, o)
<1>1. g \in Heaps /\ Len(g) = Len(h) + 1 /\ g[Len(h) + 1] = o /\ Len(h) \in Nat /\ \A b \in 1..Len(h) : g[b] = h[b]
  BY OwnedCountNew, HeapFacts
<1> HIDE DEF g
<1> QED  BY <1>1 DEF Grows, g

LEMMA GrowsTransitive ==
  ASSUME NEW h \in Heaps, NEW g \in Heaps, NEW f \in Heaps, NEW p, Grows(h, g, p), Grows(g, f, p)
  PROVE  Grows(h, f, p)
<1>1. Len(h) \in Nat /\ Len(g) \in Nat /\ Len(f) \in Nat /\ Len(h) <= Len(g) /\ Len(g) <= Len(f)
  BY HeapFacts DEF Grows
<1>2. \A a \in 1..Len(h) : a \in 1..Len(g)
  BY <1>1
<1> QED  BY <1>1, <1>2 DEF Grows

\* A reference to this text, or NULL
HasValue(h, ref, v) == (ref # Null => ref \in DOMAIN h) /\ ValueAt(h, ref) = v

\* A row from a statement: what the cursor held is released, and it holds the new text.
LEMMA FetchRowBalanced ==
  ASSUME NEW h \in Heaps, NEW n \in Tallies, NEW m \in Tallies, NEW old \in RowOf(1),
         NEW num \in Nat, NEW value \in Values,
         Balanced(h, n), Joins(n, m, old.refs)
  PROVE  LET f == FetchRow(h, old, num, value) IN
         /\ f.row \in RowOf(1) /\ f.heap \in Heaps /\ Kept(h, f.heap) /\ StaysOpen(h, f.heap)
         /\ Grows(h, f.heap, Null) /\ f.row.n = num /\ HasValue(f.heap, f.row.refs[1], value)
         /\ \A k \in Tallies : Joins(k, m, f.row.refs) => Balanced(f.heap, k)
<1> DEFINE g == Release(h, old.refs)
<1>1. g \in Heaps /\ Balanced(g, m) /\ OnlyCounts(h, g)
  BY RowFacts, ReleaseBalanced
<1>2. Len(g) = Len(h) /\ Kept(h, g) /\ StaysOpen(h, g) /\ Grows(h, g, Null)
  BY <1>1, OnlyCountsFacts, OnlyCountsOpen, OnlyCountsGrow
<1>3. Null \in Nat /\ \A a \in Addresses : Count(<<Null>>, a) = 0 /\ m[a] \in Nat
  BY CountOne DEF Null, Addresses, Tallies
<1>4. CASE value = NoKey
  <2> DEFINE r == Row(num, <<Null>>)
  <2>1. FetchRow(h, old, num, value) = [heap |-> g, row |-> r]
    BY <1>4 DEF FetchRow
  <2>2. r \in RowOf(1) /\ r.refs = <<Null>> /\ r.n = num
    BY <1>3, RowMade DEF Row
  <2> HIDE DEF r, g
  <2>3. ASSUME NEW k \in Tallies, Joins(k, m, r.refs) PROVE Balanced(g, k)
    <3>1. \A a \in Addresses : k[a] = m[a]
      BY <1>3, <2>2, <2>3 DEF Joins
    <3> QED  BY <1>1, <3>1, SameTally
  <2>4. HasValue(g, r.refs[1], value)
    BY <1>4, <2>2 DEF HasValue, ValueAt
  <2> QED  BY <1>1, <1>2, <2>1, <2>2, <2>3, <2>4
<1>5. CASE value # NoKey
  <2> DEFINE o == Object("text", value, << >>, << >>)
             l == Len(h) + 1
             r == Row(num, <<l>>)
             f == New(g, o)
  <2>1. FetchRow(h, old, num, value) = [heap |-> f, row |-> r]
    BY <1>5 DEF FetchRow
  <2>2. l \in Nat /\ l = Len(g) + 1
    BY <1>2, HeapFacts
  <2>3. r \in RowOf(1) /\ r.refs = <<l>> /\ r.n = num
    BY <2>2, RowMade DEF Row
  <2>4. o \in Objects /\ o.refs = 1 /\ o.text = value /\ \A a \in Addresses : Count(Owned(o), a) = 0
    <3> DEFINE none == << >>
    <3>1. none \in Seq(AnyRow) /\ o = Object("text", value, none, << >>)
      OBVIOUS
    <3>2. \A a \in Addresses : Count(RowRefs(none), a) = 0
      BY RowRefsFew, CountFacts
    <3> HIDE DEF none, o
    <3>3. o \in Objects /\ o.refs = 1 /\ o.text = value /\ \A a \in Addresses : Count(Owned(o), a) = Count(RowRefs(none), a)
      BY <3>1, ObjectMade
    <3> QED  BY <3>2, <3>3
  <2> HIDE DEF o, l, r, g
  <2>5. ASSUME NEW k \in Tallies, Joins(k, m, r.refs) PROVE Balanced(f, k)
    <3>1. \A a \in Addresses : k[a] + Count(Owned(o), a) = m[a] + Count(<<Len(g) + 1>>, a)
      <4> TAKE a \in Addresses
      <4>1. k[a] = m[a] + Count(<<l>>, a) /\ k[a] \in Nat /\ Count(Owned(o), a) = 0
        BY <2>3, <2>4, <2>5 DEF Joins, Tallies
      <4> QED  BY <2>2, <4>1
    <3> QED  BY <1>1, <2>4, <3>1, NewBalanced
  <2>6. f \in Heaps /\ StaysOpen(g, f) /\ Kept(g, f)
    <3>1. f \in Heaps /\ Len(f) = Len(g) + 1 /\ \A b \in 1..Len(g) : f[b] = g[b]
      BY <1>1, <2>4, OwnedCountNew
    <3>2. DOMAIN g = 1..Len(g) /\ Len(g) \in Nat
      BY <1>1, HeapFacts
    <3> HIDE DEF f
    <3>3. Kept(g, f)
      BY <3>1, <3>2 DEF Kept
    <3> QED  BY <1>1, <2>4, <3>1, <3>3, NewOpen DEF f
  <2>7. Grows(g, f, Null) /\ Len(f) = l /\ f[l] = o
    BY <1>1, <2>2, <2>4, NewGrows
  <2> HIDE DEF f
  <2>8. Kept(h, f) /\ StaysOpen(h, f) /\ Grows(h, f, Null)
    BY <1>1, <1>2, <2>6, <2>7, KeptTransitive, OpenTransitive, GrowsTransitive
  <2>9. HasValue(f, r.refs[1], value)
    <3>1. l \in DOMAIN f /\ l # Null
      BY <1>1, <2>2, <2>6, <2>7, HeapFacts DEF Null
    <3> QED  BY <2>3, <2>4, <2>7, <3>1 DEF HasValue, ValueAt
  <2> QED  BY <2>1, <2>3, <2>5, <2>6, <2>8, <2>9
<1> QED  BY <1>4, <1>5

\* One group more, or another at one place
LEMMA GroupsMore ==
  ASSUME NEW gs \in Seq(AnyGroup), NEW x \in AnyGroup, NEW a
  PROVE  /\ Append(gs, x) \in Seq(AnyGroup)
         /\ GroupsCount(Append(gs, x), a) = GroupsCount(gs, a) + Count(GroupRefs(x), a)
<1> DEFINE N == Len(gs)
           new == Append(gs, x)
           f == Amounts(GroupsRefs(gs), a)
           g == Amounts(GroupsRefs(new), a)
<1>1. /\ N \in Nat /\ new \in Seq(AnyGroup) /\ Len(new) = N + 1 /\ new[N + 1] = x
      /\ \A i \in 1..N : new[i] = gs[i]
  OBVIOUS
<1> HIDE DEF new
<1>2. f \in [1..N -> Int] /\ GroupsCount(gs, a) = Total(f) /\ \A i \in 1..N : f[i] = Count(GroupRefs(gs[i]), a)
  BY GroupsFacts DEF GroupsCount
<1>3. /\ g \in [1..(N + 1) -> Int] /\ GroupsCount(new, a) = Total(g)
      /\ \A i \in 1..(N + 1) : g[i] = Count(GroupRefs(new[i]), a)
  BY <1>1, GroupsFacts DEF GroupsCount
<1> HIDE DEF f, g
<1>4. \A i \in 1..N : f[i] = g[i]
  <2> TAKE i \in 1..N
  <2>1. i \in 1..(N + 1)
    BY <1>1
  <2> QED  BY <1>1, <1>2, <1>3, <2>1
<1>5. g[N + 1] = Count(GroupRefs(x), a)
  BY <1>1, <1>3
<1> HIDE DEF N
<1>6. Total(g) = Total(f) + g[N + 1]
  BY <1>1, <1>2, <1>3, <1>4, TotalMore
<1> QED  BY <1>1, <1>2, <1>3, <1>5, <1>6 DEF new

LEMMA GroupsChange ==
  ASSUME NEW gs \in Seq(AnyGroup), NEW i \in 1..Len(gs), NEW x \in AnyGroup, NEW a
  PROVE  /\ [gs EXCEPT ![i] = x] \in Seq(AnyGroup) /\ Len([gs EXCEPT ![i] = x]) = Len(gs)
         /\ GroupsCount([gs EXCEPT ![i] = x], a) =
              GroupsCount(gs, a) + (Count(GroupRefs(x), a) - Count(GroupRefs(gs[i]), a))
<1> DEFINE N == Len(gs)
           new == [gs EXCEPT ![i] = x]
           f == Amounts(GroupsRefs(gs), a)
           g == Amounts(GroupsRefs(new), a)
<1>1. /\ N \in Nat /\ i \in 1..N /\ new \in Seq(AnyGroup) /\ Len(new) = N /\ new[i] = x
      /\ \A j \in 1..N : j # i => new[j] = gs[j]
  OBVIOUS
<1> HIDE DEF new
<1>2. f \in [1..N -> Int] /\ GroupsCount(gs, a) = Total(f) /\ \A j \in 1..N : f[j] = Count(GroupRefs(gs[j]), a)
  BY GroupsFacts DEF GroupsCount
<1>3. /\ g \in [1..N -> Int] /\ GroupsCount(new, a) = Total(g)
      /\ \A j \in 1..N : g[j] = Count(GroupRefs(new[j]), a)
  BY <1>1, GroupsFacts DEF GroupsCount
<1> HIDE DEF f, g
<1>4. \A j \in 1..N : j # i => f[j] = g[j]
  BY <1>1, <1>2, <1>3
<1>5. g[i] = Count(GroupRefs(x), a) /\ f[i] = Count(GroupRefs(gs[i]), a)
  BY <1>1, <1>2, <1>3
<1>6. Total(g) = Total(f) + (g[i] - f[i])
  <2> HIDE DEF N
  <2> QED  BY <1>1, <1>2, <1>3, <1>4, TotalChange
<1> QED  BY <1>1, <1>2, <1>3, <1>5, <1>6 DEF new

\* An object owns what its groups hold.
LEMMA OwnedGroups ==
  ASSUME NEW o \in Objects, NEW i \in 1..Len(o.groups), NEW a
  PROVE  Count(GroupRefs(o.groups[i]), a) <= Count(Owned(o), a)
<1> DEFINE gs == o.groups
           f == Amounts(GroupsRefs(gs), a)
           N == Len(gs)
           r == Count(RowRefs(o.rows), a)
           e == IF o.kind = "partition" THEN Count(<<o.empty>>, a) ELSE 0
           x == GroupsCount(gs, a)
<1>1. gs \in Seq(AnyGroup) /\ o.rows \in Seq(AnyRow) /\ o.empty \in Nat
  BY ObjectFacts
<1> HIDE DEF gs
<1>2. N \in Nat /\ i \in 1..N /\ f \in [1..N -> Nat] /\ x = Total(f) /\ f[i] = Count(GroupRefs(gs[i]), a)
  BY <1>1, GroupsFacts DEF GroupsCount, gs
<1> HIDE DEF f
<1>3. f[i] <= x /\ x \in Nat
  <2> HIDE DEF N
  <2> QED  BY <1>2, TotalAtLeast
<1>4. Count(Owned(o), a) = r + e + x
  BY OwnedFacts DEF gs
<1>5. r \in Nat
  BY <1>1, RowRefsFacts, CountNat
<1>6. e \in Nat
  BY <1>1, CountOne
<1>7. f[i] \in Nat
  BY <1>2
<1> HIDE DEF r, e, x
<1> QED  BY <1>2, <1>3, <1>4, <1>5, <1>6, <1>7 DEF gs

LEMMA PartitionCursorBalanced ==
  ASSUME NEW h \in Heaps, NEW n \in Tallies, Balanced(h, n), NEW p \in 1..Len(h),
         h[p].refs > 0, Unextracted(h, p),
         NEW k \in RowOf(1), NEW row \in RowOf(1), Alive(h, k.refs), Alive(h, row.refs)
  PROVE  LET g == PartitionCursor(h, p, k, row) IN
         g \in Heaps /\ Balanced(g, n) /\ Kept(h, g) /\ StaysOpen(h, g)
<1> DEFINE known == GroupsOf(h, p, k)
           i == CHOOSE i \in known : TRUE
           gs == h[p].groups
           fresh == [key |-> k, rows |-> <<row>>, set |-> Null]
           more == [gs[i] EXCEPT !.rows = Append(@, row)]
           groups == IF known = {} THEN Append(gs, fresh) ELSE [gs EXCEPT ![i] = more]
           kept == row.refs \o (IF known = {} THEN k.refs ELSE << >>)
           r == Retain(h, kept)
           o == [r[p] EXCEPT !.groups = groups]
           g == PartitionCursor(h, p, k, row)
           both == [a \in Addresses |-> n[a] + Count(kept, a)]
<1>1. known \subseteq DOMAIN gs /\ h[p] \in Objects /\ gs \in Seq(AnyGroup) /\ DOMAIN gs = 1..Len(gs)
  <2>1. h[p] \in Objects
    BY HeapFacts
  <2>2. gs \in Seq(AnyGroup)
    BY <2>1, ObjectFacts
  <2> QED  BY <2>1, <2>2 DEF GroupsOf
<1>2. known # {} => i \in 1..Len(gs) /\ i \in known
  BY <1>1
<1>3. /\ k \in AnyRow /\ row \in AnyRow /\ k.refs \in Seq(Nat) /\ row.refs \in Seq(Nat)
      /\ \A a : Count(k.refs, a) \in Nat /\ Count(row.refs, a) \in Nat
  BY RowFacts, CountNat
<1>4. kept \in Seq(Nat) /\ \A a : Count(kept, a) = Count(row.refs, a) + (IF known = {} THEN Count(k.refs, a) ELSE 0)
  <2> DEFINE t == IF known = {} THEN k.refs ELSE << >>
  <2>1. t \in Seq(Nat)
    BY <1>3
  <2>2. \A a : Count(t, a) = IF known = {} THEN Count(k.refs, a) ELSE 0
    BY CountFacts
  <2> HIDE DEF t
  <2>3. row.refs \o t \in Seq(Nat) /\ \A a : Count(row.refs \o t, a) = Count(row.refs, a) + Count(t, a)
    BY <1>3, <2>1, CountConcat
  <2> QED  BY <2>2, <2>3 DEF t
<1>5. g = [r EXCEPT ![p].groups = groups]
  BY DEF PartitionCursor
<1> HIDE DEF known, i, kept, gs
<1>6. Alive(h, kept)
  BY <1>3, <1>4 DEF Alive
<1>7. both \in Tallies /\ Joins(both, n, kept)
  <2>1. \A a \in Addresses : n[a] \in Nat /\ Count(kept, a) \in Nat
    BY <1>4, CountNat DEF Tallies
  <2> QED  BY <2>1 DEF Tallies, Joins
<1> HIDE DEF both
<1>8. /\ r \in Heaps /\ Balanced(r, both) /\ OnlyCounts(h, r)
      /\ \A b \in 1..Len(h) : r[b].refs > 0 <=> h[b].refs > 0
  BY <1>4, <1>6, <1>7, RetainBalanced
<1>9. /\ Len(r) = Len(h) /\ r[p] \in Objects /\ r[p].refs > 0 /\ r[p].groups = gs
      /\ r[p].rows = h[p].rows /\ r[p].kind = h[p].kind /\ r[p].empty = h[p].empty
      /\ Kept(h, r) /\ StaysOpen(h, r) /\ DOMAIN r = 1..Len(r)
  BY <1>8, OnlyCountsFacts, OnlyCountsOpen, HeapFacts DEF gs
<1> HIDE DEF r
<1>10. /\ groups \in Seq(AnyGroup) /\ \A j \in DOMAIN groups : groups[j].set = Null
       /\ \A a \in Addresses : GroupsCount(groups, a) = GroupsCount(gs, a) + Count(kept, a)
  <2>1. \A j \in 1..Len(gs) : gs[j].set = Null /\ gs[j] \in AnyGroup
    BY <1>1 DEF Unextracted, gs
  <2>2. CASE known = {}
    <3>1. fresh \in AnyGroup
      BY <1>3 DEF AnyGroup, Null
    <3>2. fresh.key = k /\ fresh.rows = <<row>> /\ fresh.set = Null
      OBVIOUS
    <3>3. groups = Append(gs, fresh)
      BY <2>2
    <3> HIDE DEF fresh, groups
    <3>4. \A a : Count(GroupRefs(fresh), a) = Count(k.refs, a) + Count(row.refs, a)
      <4> TAKE a
      <4>1. Count(RowRefs(<<row>>), a) = Count(row.refs, a)
        BY <1>3, RowRefsFew
      <4>2. Count(GroupRefs(fresh), a) = Count(fresh.key.refs, a)
              + (IF fresh.set # Null THEN Count(<<fresh.set>>, a) ELSE Count(RowRefs(fresh.rows), a))
        BY <3>1, GroupFacts
      <4> QED  BY <3>2, <4>1, <4>2
    <3>5. \A a : GroupsCount(groups, a) = GroupsCount(gs, a) + Count(GroupRefs(fresh), a)
      BY <1>1, <3>1, <3>3, GroupsMore
    <3>6. \A j \in DOMAIN groups : groups[j].set = Null
      BY <1>1, <2>1, <3>1, <3>2, <3>3
    <3>7. groups \in Seq(AnyGroup)
      BY <1>1, <3>1, <3>3
    <3>8. \A a \in Addresses : GroupsCount(groups, a) = GroupsCount(gs, a) + Count(kept, a)
      <4> TAKE a \in Addresses
      <4>1. GroupsCount(gs, a) \in Nat
        BY <1>1, GroupsFacts
      <4> QED  BY <1>3, <1>4, <2>2, <3>4, <3>5, <4>1
    <3> QED  BY <3>6, <3>7, <3>8
  <2>3. CASE known # {}
    <3> DEFINE x == gs[i]
    <3>1. i \in 1..Len(gs) /\ x \in AnyGroup /\ x.set = Null
      BY <1>2, <2>1, <2>3
    <3>2. x.key \in AnyRow /\ x.rows \in Seq(AnyRow) /\ x.key.refs \in Seq(Nat)
      BY <3>1, GroupFacts
    <3>3. groups = [gs EXCEPT ![i] = more]
      BY <2>3
    <3>4. more = [x EXCEPT !.rows = Append(x.rows, row)]
      OBVIOUS
    <3> HIDE DEF x, more, groups
    <3>5. /\ Append(x.rows, row) \in Seq(AnyRow)
          /\ \A a : Count(RowRefs(Append(x.rows, row)), a) = Count(RowRefs(x.rows), a) + Count(row.refs, a)
      BY <1>3, <3>2, RowRefsMore
    <3>6. more \in AnyGroup /\ more.key = x.key /\ more.set = Null /\ more.rows = Append(x.rows, row)
      BY <3>1, <3>4, <3>5 DEF AnyGroup
    <3>7. \A a : Count(GroupRefs(more), a) = Count(GroupRefs(x), a) + Count(row.refs, a)
      <4> TAKE a
      <4>1. Count(GroupRefs(x), a) = Count(x.key.refs, a) + Count(RowRefs(x.rows), a)
        BY <3>1, GroupFacts
      <4>2. Count(GroupRefs(more), a) = Count(x.key.refs, a) + Count(RowRefs(Append(x.rows, row)), a)
        BY <3>6, GroupFacts
      <4>3. RowRefs(x.rows) \in Seq(Nat)
        BY <3>2, RowRefsFacts
      <4>4. Count(x.key.refs, a) \in Nat /\ Count(RowRefs(x.rows), a) \in Nat
        BY <3>2, <4>3, CountNat
      <4>5. Count(RowRefs(Append(x.rows, row)), a) = Count(RowRefs(x.rows), a) + Count(row.refs, a)
        BY <3>5
      <4>6. Count(row.refs, a) \in Nat
        BY <1>3
      <4> QED  BY ONLY <4>1, <4>2, <4>4, <4>5, <4>6
    <3>8. \A a : GroupsCount(groups, a) = GroupsCount(gs, a) + (Count(GroupRefs(more), a) - Count(GroupRefs(x), a))
      BY <1>1, <3>1, <3>3, <3>6, GroupsChange DEF x
    <3>9. groups \in Seq(AnyGroup) /\ \A j \in DOMAIN groups : groups[j].set = Null
      BY <1>1, <2>1, <3>1, <3>3, <3>6
    <3>10. \A a \in Addresses : GroupsCount(groups, a) = GroupsCount(gs, a) + Count(kept, a)
      <4> TAKE a \in Addresses
      <4>1. GroupsCount(gs, a) \in Nat /\ GroupRefs(x) \in Seq(Nat)
        BY <1>1, <3>1, GroupsFacts, GroupFacts
      <4>2. Count(GroupRefs(x), a) \in Nat
        BY <4>1, CountNat
      <4>3. Count(kept, a) = Count(row.refs, a)
        BY <1>3, <1>4, <2>3
      <4> QED  BY <1>3, <3>7, <3>8, <4>1, <4>2, <4>3
    <3> QED  BY <3>9, <3>10
  <2> QED  BY <2>2, <2>3
<1> HIDE DEF groups
<1>11. o \in Objects /\ o.refs = r[p].refs /\ o.kind = r[p].kind /\ o.rows = r[p].rows /\ o.groups = groups
       /\ o.empty = r[p].empty
  <2> DEFINE q == r[p]
  <2>1. q \in Objects
    BY <1>9
  <2> HIDE DEF q
  <2>2. LET z == [q EXCEPT !.groups = groups] IN
        z \in Objects /\ z.refs = q.refs /\ z.kind = q.kind /\ z.rows = q.rows /\ z.groups = groups
        /\ z.empty = q.empty
    BY <1>10, <2>1 DEF Objects
  <2> QED  BY <2>2 DEF q
<1>12. g = [r EXCEPT ![p] = o]
  BY <1>5, <1>9
<1> HIDE DEF o
<1>13. \A a \in Addresses : n[a] + Count(Owned(o), a) = both[a] + Count(Owned(r[p]), a)
  <2> TAKE a \in Addresses
  <2>1. Count(Owned(o), a) = Count(RowRefs(r[p].rows), a)
                             + (IF r[p].kind = "partition" THEN Count(<<r[p].empty>>, a) ELSE 0)
                             + GroupsCount(groups, a)
    BY <1>11, OwnedFacts
  <2>2. Count(Owned(r[p]), a) = Count(RowRefs(r[p].rows), a)
                             + (IF r[p].kind = "partition" THEN Count(<<r[p].empty>>, a) ELSE 0)
                             + GroupsCount(gs, a)
    BY <1>9, OwnedFacts
  <2>3. GroupsCount(groups, a) = GroupsCount(gs, a) + Count(kept, a) /\ GroupsCount(gs, a) \in Nat
    BY <1>1, <1>10, GroupsFacts
  <2>4. r[p].rows \in Seq(AnyRow) /\ r[p].empty \in Nat
    BY <1>9, ObjectFacts
  <2>5. RowRefs(r[p].rows) \in Seq(Nat)
    BY <2>4, RowRefsFacts
  <2>6. Count(RowRefs(r[p].rows), a) \in Nat /\ Count(<<r[p].empty>>, a) \in Nat
    <3>1. \A b \in Nat : Count(<<b>>, a) \in Nat
      BY CountOne
    <3>2. Count(RowRefs(r[p].rows), a) \in Nat
      BY <2>5, CountNat
    <3> QED  BY <2>4, <3>1, <3>2
  <2>7. both[a] = n[a] + Count(kept, a) /\ n[a] \in Nat /\ Count(kept, a) \in Nat
    BY <1>4, <1>7, CountNat DEF Joins, Tallies
  <2> DEFINE e == IF r[p].kind = "partition" THEN Count(<<r[p].empty>>, a) ELSE 0
  <2>8. e \in Nat
    BY <2>6
  <2>9. Count(Owned(o), a) = Count(RowRefs(r[p].rows), a) + e + GroupsCount(groups, a)
        /\ Count(Owned(r[p]), a) = Count(RowRefs(r[p].rows), a) + e + GroupsCount(gs, a)
    BY <2>1, <2>2
  <2> HIDE DEF e
  <2> QED  BY ONLY <2>3, <2>6, <2>7, <2>8, <2>9
<1>14. g \in Heaps /\ Balanced(g, n) /\ Kept(r, g) /\ Len(g) = Len(r)
  <2>1. p \in 1..Len(r) /\ o.refs > 0
    BY <1>9, <1>11
  <2> DEFINE u == [r EXCEPT ![p] = o]
  <2>2. r \in Heaps /\ both \in Tallies /\ n \in Tallies /\ o \in Objects /\ Balanced(r, both)
    BY <1>7, <1>8, <1>11
  <2>3. u \in Heaps /\ Balanced(u, n) /\ Kept(r, u) /\ Len(u) = Len(r)
    BY <1>11, <1>13, <2>1, <2>2, UpdateBalanced
  <2> HIDE DEF g, u
  <2> QED  BY <1>12, <2>3 DEF u
<1> HIDE DEF g
<1>15. StaysOpen(r, g)
  <2> SUFFICES ASSUME NEW b \in 1..Len(r), Unextracted(r, b) PROVE Unextracted(g, b)
    BY <1>9 DEF StaysOpen
  <2>1. CASE b = p
    BY <1>8, <1>9, <1>10, <1>11, <1>12, <2>1 DEF Unextracted
  <2>2. CASE b # p
    BY <1>9, <1>12, <2>2 DEF Unextracted
  <2> QED  BY <2>1, <2>2
<1>16. Kept(h, g) /\ StaysOpen(h, g)
  BY <1>8, <1>9, <1>14, <1>15, KeptTransitive, OpenTransitive
<1> QED  BY <1>14, <1>16 DEF g

-----------------------------------------------------------------------------
(* Extracting a set *)

\* A new object takes over references of p, which now holds the object.
LEMMA MoveBalanced ==
  ASSUME NEW h \in Heaps, NEW n \in Tallies, Balanced(h, n), NEW o \in Objects, o.refs = 1,
         NEW p \in 1..Len(h), NEW q \in Objects,
         q.refs = h[p].refs, q.refs > 0, q.kind = h[p].kind, q.rows = h[p].rows,
         \A a \in Addresses : Count(Owned(q), a) + Count(Owned(o), a) =
                                Count(Owned(h[p]), a) + Count(<<Len(h) + 1>>, a)
  PROVE  /\ [New(h, o) EXCEPT ![p] = q] \in Heaps /\ Balanced([New(h, o) EXCEPT ![p] = q], n)
         /\ Kept(h, [New(h, o) EXCEPT ![p] = q]) /\ Len([New(h, o) EXCEPT ![p] = q]) = Len(h) + 1
         /\ [New(h, o) EXCEPT ![p] = q][Len(h) + 1] = o
<1> DEFINE N == Len(h)
           f == New(h, o)
           g == [f EXCEPT ![p] = q]
<1>1. N \in Nat /\ DOMAIN h = 1..N /\ \A b \in 1..N : h[b] \in Objects
  BY HeapFacts
<1>2. /\ f \in Heaps /\ Len(f) = N + 1 /\ f[N + 1] = o /\ \A b \in 1..N : f[b] = h[b]
      /\ \A a : OwnedCount(f, a) = OwnedCount(h, a) + OwnedBy(o, a)
  BY OwnedCountNew
<1> HIDE DEF f
<1>3. /\ g \in Heaps /\ Len(g) = N + 1 /\ g[p] = q /\ DOMAIN g = 1..(N + 1)
      /\ \A b \in 1..(N + 1) : b # p => g[b] = f[b]
  BY <1>1, <1>2 DEF Heaps
<1>4. /\ g[N + 1] = o /\ p \in 1..(N + 1) /\ f[p] = h[p]
      /\ \A b \in 1..N : g[b].refs = h[b].refs /\ g[b].kind = h[b].kind /\ g[b].rows = h[b].rows
  BY <1>1, <1>2, <1>3
<1> HIDE DEF g
<1>5. \A a : OwnedCount(g, a) = OwnedCount(f, a) + (OwnedBy(g[p], a) - OwnedBy(f[p], a))
  BY <1>2, <1>3, <1>4, OwnedCountChange
<1>6. Balanced(g, n)
  <2> SUFFICES ASSUME NEW a \in Addresses PROVE RefsAt(g, a) = n[a] + OwnedCount(g, a)
    BY DEF Balanced
  <2>1. OwnedBy(o, a) = Count(Owned(o), a) /\ OwnedBy(q, a) = Count(Owned(q), a)
        /\ OwnedBy(h[p], a) = Count(Owned(h[p]), a)
    BY DEF OwnedBy
  <2>2. OwnedCount(g, a) = OwnedCount(h, a) + OwnedBy(o, a) + (OwnedBy(q, a) - OwnedBy(h[p], a))
    BY <1>2, <1>3, <1>4, <1>5
  <2>3. OwnedBy(o, a) \in Nat /\ OwnedBy(q, a) \in Nat /\ OwnedBy(h[p], a) \in Nat /\ OwnedCount(h, a) \in Nat
    BY <1>1, OwnedByFacts, OwnedCountFacts
  <2>4. Count(<<N + 1>>, a) = IF N + 1 = a THEN 1 ELSE 0
    BY <1>1, CountOne
  <2>5. Count(Owned(q), a) + Count(Owned(o), a) = Count(Owned(h[p]), a) + Count(<<N + 1>>, a)
    OBVIOUS
  <2>6. OwnedCount(g, a) = OwnedCount(h, a) + IF N + 1 = a THEN 1 ELSE 0
    BY ONLY <2>1, <2>2, <2>3, <2>4, <2>5
  <2>7. RefsAt(g, a) = RefsAt(h, a) + IF N + 1 = a THEN 1 ELSE 0
    <3>1. CASE a \in 1..N
      <4>1. h[a].refs \in Int /\ a # N + 1 /\ a \in 1..(N + 1)
        BY <1>1, <3>1, ObjectFacts
      <4> QED  BY <1>1, <1>3, <1>4, <3>1, <4>1 DEF RefsAt
    <3>2. CASE a = N + 1
      BY <1>1, <1>3, <1>4, <3>2 DEF RefsAt
    <3>3. CASE a \notin 1..(N + 1)
      BY <1>1, <1>3, <3>3 DEF RefsAt
    <3> QED  BY <1>1, <3>1, <3>2, <3>3
  <2>8. RefsAt(h, a) = n[a] + OwnedCount(h, a) /\ n[a] \in Nat
    BY BalancedFacts
  <2> QED  BY ONLY <2>3, <2>6, <2>7, <2>8
<1>7. Kept(h, g)
  BY <1>1, <1>3, <1>4 DEF Kept
<1> QED  BY <1>3, <1>4, <1>6, <1>7 DEF f, g

\* What the set of a new buffer takes over
LEMMA SetMade ==
  ASSUME NEW rs \in Seq(AnyRow)
  PROVE  LET o == Object("set", NoKey, rs, << >>) IN
         o \in Objects /\ o.refs = 1 /\ \A a \in Addresses : Count(Owned(o), a) = Count(RowRefs(rs), a)
<1>1. NoKey \in Values
  BY DEF Values
<1> QED  BY <1>1, ObjectMade

LEMMA ExtractFlag ==
  ASSUME NEW q \in Objects, NEW b \in BOOLEAN
  PROVE  LET z == [q EXCEPT !.extracting = b] IN
         /\ z \in Objects /\ z.refs = q.refs /\ z.kind = q.kind /\ z.rows = q.rows
         /\ z.groups = q.groups /\ z.empty = q.empty
BY DEF Objects

LEMMA ExtractGroups ==
  ASSUME NEW q \in Objects, NEW gs \in Seq(AnyGroup), NEW e \in Nat
  PROVE  /\ LET z == [q EXCEPT !.groups = gs] IN
            /\ z \in Objects /\ z.refs = q.refs /\ z.kind = q.kind /\ z.rows = q.rows
            /\ z.groups = gs /\ z.empty = q.empty
         /\ LET z == [q EXCEPT !.empty = e] IN
            /\ z \in Objects /\ z.refs = q.refs /\ z.kind = q.kind /\ z.rows = q.rows
            /\ z.groups = q.groups /\ z.empty = e
BY DEF Objects

\* The set of a group, or the empty one of a partition, is held by it.
LEMMA SharedAlive ==
  ASSUME NEW h \in Heaps, NEW n \in Tallies, Balanced(h, n), NEW p \in 1..Len(h), h[p].refs > 0,
         NEW a \in Addresses,
         \/ h[p].kind = "partition" /\ a = h[p].empty
         \/ \E i \in 1..Len(h[p].groups) : a = h[p].groups[i].set
  PROVE  RefsAt(h, a) > 0
<1> DEFINE o == h[p]
<1>1. o \in Objects /\ o.refs > 0 /\ Owned(o) \in Seq(Nat)
  BY HeapFacts, OwnedType
<1>2. o.rows \in Seq(AnyRow) /\ o.groups \in Seq(AnyGroup) /\ o.empty \in Nat
  BY <1>1, ObjectFacts
<1>3. Count(<<a>>, a) = 1 /\ Count(Owned(o), a) \in Nat
  <2>1. a \in Nat
    BY DEF Addresses
  <2> QED  BY <1>1, <2>1, CountOne, CountNat
<1>4. Count(Owned(o), a) > 0
  <2>1. CASE o.kind = "partition" /\ a = o.empty
    <3>1. RowRefs(o.rows) \in Seq(Nat)
      BY <1>2, RowRefsFacts
    <3>2. Count(RowRefs(o.rows), a) \in Nat /\ GroupsCount(o.groups, a) \in Nat
      BY <1>2, <3>1, CountNat, GroupsFacts
    <3>3. Count(Owned(o), a) = Count(RowRefs(o.rows), a)
                               + (IF o.kind = "partition" THEN Count(<<o.empty>>, a) ELSE 0)
                               + GroupsCount(o.groups, a)
      BY <1>1, OwnedFacts
    <3>4. Count(Owned(o), a) = Count(RowRefs(o.rows), a) + 1 + GroupsCount(o.groups, a)
      BY <1>3, <2>1, <3>3
    <3> QED  BY ONLY <3>2, <3>4
  <2>2. CASE \E i \in 1..Len(o.groups) : a = o.groups[i].set
    <3>1. PICK i \in 1..Len(o.groups) : a = o.groups[i].set
      BY <2>2
    <3> DEFINE x == o.groups[i]
    <3>2. x \in AnyGroup /\ a = x.set /\ x.set # Null
      BY <1>2, <3>1 DEF Addresses, Null
    <3>3. Count(GroupRefs(x), a) <= Count(Owned(o), a)
      BY <1>1, <3>1, OwnedGroups
    <3> HIDE DEF x
    <3>4. x.key.refs \in Seq(Nat)
      BY <3>2, GroupFacts
    <3>5. Count(x.key.refs, a) \in Nat
      BY <3>4, CountNat
    <3>6. Count(GroupRefs(x), a) =
            Count(x.key.refs, a) + (IF x.set # Null THEN Count(<<x.set>>, a) ELSE Count(RowRefs(x.rows), a))
      BY <3>2, GroupFacts
    <3>7. Count(GroupRefs(x), a) = Count(x.key.refs, a) + 1
      BY <1>3, <3>2, <3>6
    <3> QED  BY ONLY <1>3, <3>3, <3>5, <3>7
  <2> QED  BY <2>1, <2>2
<1>5. OwnedBy(o, a) # 0
  BY <1>1, <1>3, <1>4 DEF OwnedBy
<1> QED  BY <1>5, BalancedFacts

\* One more reference to an object that is there
LEMMA RetainOne ==
  ASSUME NEW h \in Heaps, NEW n \in Tallies, Balanced(h, n), NEW a \in Addresses, RefsAt(h, a) > 0
  PROVE  LET g == Retain(h, <<a>>) IN
         /\ g \in Heaps /\ Kept(h, g) /\ OnlyCounts(h, g)
         /\ \A m \in Tallies : Joins(m, n, <<a>>) => Balanced(g, m)
<1> DEFINE s == <<a>>
           m0 == [b \in Addresses |-> n[b] + Count(s, b)]
<1>1. a \in Nat /\ s \in Seq(Nat) /\ \A b : Count(s, b) = IF a = b THEN 1 ELSE 0
  BY CountOne DEF Addresses
<1> HIDE DEF s
<1>2. Alive(h, s)
  BY <1>1 DEF Alive
<1>3. m0 \in Tallies /\ Joins(m0, n, s)
  <2>1. \A b \in Addresses : n[b] \in Nat /\ Count(s, b) \in Nat
    BY <1>1, CountNat DEF Tallies
  <2> QED  BY <2>1 DEF Tallies, Joins
<1> HIDE DEF m0
<1>4. Retain(h, s) \in Heaps /\ OnlyCounts(h, Retain(h, s)) /\ Balanced(Retain(h, s), m0)
  BY <1>1, <1>2, <1>3, RetainBalanced
<1>5. Kept(h, Retain(h, s))
  BY <1>4, OnlyCountsFacts
<1>6. ASSUME NEW m \in Tallies, Joins(m, n, s) PROVE Balanced(Retain(h, s), m)
  BY <1>1, <1>2, <1>6, RetainBalanced
<1> QED  BY <1>4, <1>5, <1>6 DEF s

LEMMA ExtractGroup ==
  ASSUME NEW y \in AnyGroup, NEW rs \in Seq(AnyRow), NEW a \in Nat
  PROVE  LET w == [y EXCEPT !.rows = rs, !.set = a] IN w \in AnyGroup /\ w.key = y.key /\ w.set = a
BY DEF AnyGroup

LEMMA ExtractBalanced ==
  ASSUME NEW h \in Heaps, NEW n \in Tallies, Balanced(h, n), NEW p \in 1..Len(h),
         h[p].refs > 0, h[p].kind = "partition", NEW k
  PROVE  LET e == ExtractPartition(h, p, k) IN
         /\ e.set \in Addresses /\ e.heap \in Heaps /\ Kept(h, e.heap)
         /\ \A m \in Tallies : Joins(m, n, <<e.set>>) => Balanced(e.heap, m)
<1> DEFINE known == GroupsOf(h, p, k)
           i == CHOOSE g \in known : TRUE
           q == [h[p] EXCEPT !.extracting = TRUE]
           begun == [h EXCEPT ![p] = q]
           gs == h[p].groups
           shared == IF known # {} THEN gs[i].set ELSE h[p].empty
           rs == IF known # {} THEN gs[i].rows ELSE << >>
           fresh == Object("set", NoKey, rs, << >>)
           a == Len(h) + 1
           made == New(begun, fresh)
           x == [gs[i] EXCEPT !.rows = << >>, !.set = a]
           more == [gs EXCEPT ![i] = x]
           z == IF known # {} THEN [q EXCEPT !.groups = more] ELSE [q EXCEPT !.empty = a]
           kept == [made EXCEPT ![p] = z]
           e == ExtractPartition(h, p, k)
<1>1. h[p] \in Objects /\ Len(h) \in Nat /\ DOMAIN h = 1..Len(h)
  BY HeapFacts
<1>2. gs \in Seq(AnyGroup) /\ h[p].empty \in Nat
  BY <1>1, ObjectFacts
<1>3. known # {} => i \in 1..Len(gs)
  <2>1. known \subseteq DOMAIN gs
    BY DEF GroupsOf
  <2> QED  BY <1>2, <2>1
<1>4. /\ q \in Objects /\ q.refs = h[p].refs /\ q.kind = h[p].kind /\ q.rows = h[p].rows
      /\ q.groups = gs /\ q.empty = h[p].empty
  <2> DEFINE o == h[p]
  <2>1. o \in Objects
    BY <1>1
  <2> HIDE DEF o
  <2>2. LET y == [o EXCEPT !.extracting = TRUE] IN
        /\ y \in Objects /\ y.refs = o.refs /\ y.kind = o.kind /\ y.rows = o.rows
        /\ y.groups = o.groups /\ y.empty = o.empty
    BY <2>1, ExtractFlag
  <2> QED  BY <2>2 DEF o
<1>5. begun = [h EXCEPT ![p].extracting = TRUE]
  OBVIOUS
<1>6. e = IF shared # Null THEN [heap |-> Retain(begun, <<shared>>), set |-> shared]
          ELSE [heap |-> Retain(kept, <<a>>), set |-> a]
  <2>1. made[p] = q /\ p \in DOMAIN made
    <3>1. begun \in Seq(Objects) /\ Len(begun) = Len(h) /\ begun[p] = q
      BY <1>1, <1>4 DEF Heaps
    <3> HIDE DEF begun, fresh, q
    <3> QED  BY <1>1, <3>1 DEF New
  <2> HIDE DEF q, fresh, rs
  <2>2. CASE known # {}
    <3>1. kept = [made EXCEPT ![p].groups[i] = [@ EXCEPT !.rows = << >>, !.set = a]]
      BY <1>4, <2>1, <2>2
    <3> QED  BY <1>5, <2>2, <3>1 DEF ExtractPartition, fresh, rs
  <2>3. CASE known = {}
    <3>1. kept = [made EXCEPT ![p].empty = a]
      BY <1>4, <2>1, <2>3
    <3> QED  BY <1>5, <2>3, <3>1 DEF ExtractPartition, fresh, rs
  <2> QED  BY <2>2, <2>3
<1> HIDE DEF e, q, known, i
<1>7. begun \in Heaps /\ Balanced(begun, n) /\ Kept(h, begun) /\ Len(begun) = Len(h) /\ begun[p] = q
  <2>1. Owned(q) = Owned(h[p])
    BY <1>4, OwnedSame
  <2>2. \A b \in Addresses : n[b] + Count(Owned(q), b) = n[b] + Count(Owned(h[p]), b)
    BY <2>1
  <2>3. begun[p] = q
    BY <1>1
  <2> QED  BY <1>4, <2>2, <2>3, UpdateBalanced
<1> HIDE DEF begun
<1>8. CASE shared # Null
  <2>1. shared \in Addresses
    <3>1. known # {} => gs[i] \in AnyGroup
      BY <1>2, <1>3
    <3>2. shared \in Nat
      BY <1>2, <3>1 DEF AnyGroup
    <3> QED  BY <1>8, <3>2 DEF Addresses, Null
  <2>2. RefsAt(begun, shared) > 0
    <3>1. \/ begun[p].kind = "partition" /\ shared = begun[p].empty
          \/ \E j \in 1..Len(begun[p].groups) : shared = begun[p].groups[j].set
      BY <1>3, <1>4, <1>7
    <3>2. p \in 1..Len(begun) /\ begun[p].refs > 0
      BY <1>4, <1>7
    <3> HIDE DEF shared
    <3> QED  BY <1>7, <2>1, <3>1, <3>2, SharedAlive
  <2> HIDE DEF shared
  <2> DEFINE r == Retain(begun, <<shared>>)
  <2>3. /\ r \in Heaps /\ Kept(begun, r)
        /\ \A m \in Tallies : Joins(m, n, <<shared>>) => Balanced(r, m)
    BY <1>7, <2>1, <2>2, RetainOne
  <2>4. e.set = shared /\ e.heap = r
    BY <1>6, <1>8
  <2> HIDE DEF r
  <2>5. Kept(h, r)
    BY <1>7, <2>3, KeptTransitive
  <2> QED  BY <2>1, <2>3, <2>4, <2>5 DEF e
<1>9. CASE shared = Null
  <2>1. a \in Addresses /\ rs \in Seq(AnyRow) /\ z \in Objects
        /\ z.refs = q.refs /\ z.kind = q.kind /\ z.rows = q.rows
        /\ \A b \in Addresses : Count(Owned(z), b) + Count(RowRefs(rs), b) = Count(Owned(q), b) + Count(<<a>>, b)
    <3>1. a \in Addresses /\ a \in Nat
      BY <1>1 DEF Addresses
    <3> HIDE DEF a
    <3>2. CASE known # {}
      <4> DEFINE y == gs[i]
                 w == [y EXCEPT !.rows = << >>, !.set = a]
      <4>1. y \in AnyGroup /\ y.set = Null
        BY <1>2, <1>3, <1>9, <3>2
      <4>2. y.key \in AnyRow /\ y.rows \in Seq(AnyRow) /\ y.key.refs \in Seq(Nat)
        BY <4>1, GroupFacts
      <4>3. x = w /\ rs = y.rows /\ z = [q EXCEPT !.groups = more] /\ more = [gs EXCEPT ![i] = x]
        BY <3>2
      <4> HIDE DEF y, x, rs, z, more
      <4>4. w \in AnyGroup /\ w.key = y.key /\ w.set = a
        <5> DEFINE none == << >>
        <5>1. none \in Seq(AnyRow) /\ w = [y EXCEPT !.rows = none, !.set = a]
          OBVIOUS
        <5> HIDE DEF none, w
        <5> QED  BY <3>1, <4>1, <5>1, ExtractGroup, ZenonT(40)
      <4> HIDE DEF w
      <4>5. /\ more \in Seq(AnyGroup)
            /\ \A b : GroupsCount(more, b) = GroupsCount(gs, b) + (Count(GroupRefs(w), b) - Count(GroupRefs(y), b))
        BY <1>2, <1>3, <3>2, <4>3, <4>4, GroupsChange DEF y
      <4>6. /\ z \in Objects /\ z.refs = q.refs /\ z.kind = q.kind /\ z.rows = q.rows
            /\ z.groups = more /\ z.empty = q.empty
        BY <1>4, <3>1, <4>3, <4>5, ExtractGroups, ZenonT(40)
      <4>7. ASSUME NEW b \in Addresses
            PROVE  Count(Owned(z), b) + Count(RowRefs(rs), b) = Count(Owned(q), b) + Count(<<a>>, b)
        <5> DEFINE u == Count(RowRefs(q.rows), b) + (IF q.kind = "partition" THEN Count(<<q.empty>>, b) ELSE 0)
        <5>1. Count(Owned(z), b) = u + GroupsCount(more, b)
          BY <4>6, OwnedFacts
        <5>2. Count(Owned(q), b) = u + GroupsCount(gs, b)
          BY <1>4, OwnedFacts
        <5>3. u \in Nat
          <6>1. q.rows \in Seq(AnyRow) /\ q.empty \in Nat
            BY <1>4, ObjectFacts
          <6>2. \A c \in Nat : Count(<<c>>, b) \in Nat
            BY CountOne
          <6>3. RowRefs(q.rows) \in Seq(Nat)
            BY <6>1, RowRefsFacts
          <6>4. Count(RowRefs(q.rows), b) \in Nat /\ Count(<<q.empty>>, b) \in Nat
            BY <6>1, <6>2, <6>3, CountNat
          <6> QED  BY <6>4
        <5> HIDE DEF u
        <5>4. Count(GroupRefs(w), b) = Count(y.key.refs, b) + Count(<<a>>, b)
          <6>1. w.set # Null
            BY <3>1, <4>4 DEF Addresses, Null
          <6> QED  BY <4>4, <6>1, GroupFacts
        <5>5. Count(GroupRefs(y), b) = Count(y.key.refs, b) + Count(RowRefs(rs), b)
          BY <4>1, <4>3, GroupFacts
        <5>6. Count(y.key.refs, b) \in Nat /\ Count(RowRefs(rs), b) \in Nat /\ Count(<<a>>, b) \in Nat
              /\ GroupsCount(gs, b) \in Nat
          <6>1. RowRefs(rs) \in Seq(Nat)
            BY <4>2, <4>3, RowRefsFacts
          <6>2. Count(<<a>>, b) \in Nat
            BY <3>1, CountOne
          <6>3. GroupsCount(gs, b) \in Nat
            BY <1>2, GroupsFacts
          <6> QED  BY <4>2, <6>1, <6>2, <6>3, CountNat
        <5>7. GroupsCount(more, b) = GroupsCount(gs, b) + (Count(GroupRefs(w), b) - Count(GroupRefs(y), b))
          BY <4>5
        <5> QED  BY ONLY <5>1, <5>2, <5>3, <5>4, <5>5, <5>6, <5>7
      <4> QED  BY <3>1, <4>2, <4>3, <4>6, <4>7 DEF a
    <3>3. CASE known = {}
      <4>1. rs = << >> /\ z = [q EXCEPT !.empty = a] /\ q.empty = Null /\ rs \in Seq(AnyRow)
        BY <1>4, <1>9, <3>3
      <4> HIDE DEF rs, z
      <4>2. /\ z \in Objects /\ z.refs = q.refs /\ z.kind = q.kind /\ z.rows = q.rows
            /\ z.groups = q.groups /\ z.empty = a
        BY <1>4, <1>2, <3>1, <4>1, ExtractGroups, ZenonT(40)
      <4>3. ASSUME NEW b \in Addresses
            PROVE  Count(Owned(z), b) + Count(RowRefs(rs), b) = Count(Owned(q), b) + Count(<<a>>, b)
        <5>1. Count(RowRefs(rs), b) = 0
          BY <4>1, RowRefsFew, CountFacts
        <5>2. Count(<<q.empty>>, b) = 0
          <6>1. q.empty \in Nat /\ q.empty # b
            BY <4>1 DEF Addresses, Null
          <6> QED  BY <6>1, CountOne
        <5>3. Count(Owned(z), b) = Count(RowRefs(q.rows), b) + Count(<<a>>, b) + GroupsCount(q.groups, b)
          BY <1>4, <4>2, OwnedFacts
        <5>4. Count(Owned(q), b) = Count(RowRefs(q.rows), b) + 0 + GroupsCount(q.groups, b)
          BY <1>4, <5>2, OwnedFacts
        <5>5. Count(RowRefs(q.rows), b) \in Nat /\ Count(<<a>>, b) \in Nat /\ GroupsCount(q.groups, b) \in Nat
          <6>1. q.rows \in Seq(AnyRow) /\ q.groups \in Seq(AnyGroup)
            BY <1>4, ObjectFacts
          <6>2. RowRefs(q.rows) \in Seq(Nat) /\ GroupsCount(q.groups, b) \in Nat
            BY <6>1, RowRefsFacts, GroupsFacts
          <6> QED  BY <3>1, <6>2, CountNat, CountOne
        <5> QED  BY ONLY <5>1, <5>3, <5>4, <5>5
      <4> QED  BY <3>1, <4>1, <4>2, <4>3 DEF a
    <3> QED  BY <3>2, <3>3 DEF a
  <2>2. fresh \in Objects /\ fresh.refs = 1 /\ \A b \in Addresses : Count(Owned(fresh), b) = Count(RowRefs(rs), b)
    BY <2>1, SetMade
  <2> HIDE DEF z, fresh, rs
  <2>3. /\ kept \in Heaps /\ Balanced(kept, n) /\ Kept(begun, kept) /\ kept[a] = fresh /\ Len(kept) = a
    <3>1. \A b \in Addresses : Count(Owned(z), b) + Count(Owned(fresh), b) = Count(Owned(begun[p]), b) + Count(<<Len(begun) + 1>>, b)
      BY <1>7, <2>1, <2>2
    <3>2. p \in 1..Len(begun) /\ z.refs = begun[p].refs /\ z.refs > 0 /\ z.kind = begun[p].kind /\ z.rows = begun[p].rows
      BY <1>4, <1>7, <2>1
    <3> DEFINE v == [New(begun, fresh) EXCEPT ![p] = z]
    <3>3. begun \in Heaps /\ Balanced(begun, n) /\ fresh \in Objects /\ fresh.refs = 1 /\ z \in Objects
      BY <1>7, <2>1, <2>2
    <3>4. /\ v \in Heaps /\ Balanced(v, n) /\ Kept(begun, v)
          /\ Len(v) = Len(begun) + 1 /\ v[Len(begun) + 1] = fresh
      BY <3>1, <3>2, <3>3, MoveBalanced
    <3> QED  BY <1>7, <3>4
  <2> HIDE DEF kept
  <2>4. RefsAt(kept, a) > 0
    <3>1. a \in 1..Len(kept)
      BY <1>1, <2>3
    <3>2. a \in DOMAIN kept
      BY <2>3, <3>1, HeapFacts
    <3> QED  BY <2>2, <2>3, <3>2 DEF RefsAt
  <2> HIDE DEF a
  <2> DEFINE r == Retain(kept, <<a>>)
  <2>5. /\ r \in Heaps /\ Kept(kept, r)
        /\ \A m \in Tallies : Joins(m, n, <<a>>) => Balanced(r, m)
    BY <2>1, <2>3, <2>4, RetainOne
  <2>6. e.set = a /\ e.heap = r
    BY <1>6, <1>9
  <2> HIDE DEF r
  <2>7. Kept(h, r)
    BY <1>7, <2>3, <2>5, KeptTransitive
  <2> QED  BY <2>1, <2>5, <2>6, <2>7 DEF e
<1> QED  BY <1>8, <1>9

-----------------------------------------------------------------------------
(* What is held outside of the heap, place by place *)

KeyCount(k, a) == Total([c \in Children |-> Count(k[c].refs, a)])
RefCount(p, a) == Total([c \in Children |-> Count(<<p[c]>>, a)])

LEMMA KeyCountFacts ==
  ASSUME NEW k \in [Children -> RowOf(1)], NEW a
  PROVE  /\ KeyCount(k, a) \in Nat
         /\ \A c \in Children : /\ k[c].refs \in Seq(Nat) /\ Count(k[c].refs, a) \in Nat
                                /\ Count(k[c].refs, a) <= KeyCount(k, a)
         /\ [c \in Children |-> Count(k[c].refs, a)] \in [1..NChildren -> Nat]
         /\ [c \in Children |-> Count(k[c].refs, a)] \in [1..NChildren -> Int]
<1> DEFINE f == [c \in Children |-> Count(k[c].refs, a)]
<1>1. NChildren \in Nat /\ 1 \in Nat
  BY ParentChildAssumption
<1>2. ASSUME NEW c \in Children PROVE k[c].refs \in Seq(Nat)
  <2>1. k[c] \in RowOf(1)
    OBVIOUS
  <2> QED  BY <1>1, <2>1, RowFacts
<1>3. \A c \in Children : Count(k[c].refs, a) \in Nat
  BY <1>2, CountNat
<1>4. f \in [1..NChildren -> Nat] /\ f \in [1..NChildren -> Int]
  BY <1>3 DEF Children
<1>5. \A c \in Children : f[c] = Count(k[c].refs, a)
  OBVIOUS
<1> HIDE DEF f
<1>6. Total(f) \in Nat /\ \A c \in 1..NChildren : f[c] <= Total(f)
  BY <1>1, <1>4, TotalAtLeast
<1>7. KeyCount(k, a) = Total(f)
  BY DEF KeyCount, f
<1>8. \A c \in Children : Count(k[c].refs, a) <= KeyCount(k, a)
  BY <1>5, <1>6, <1>7 DEF Children
<1> QED  BY <1>2, <1>3, <1>4, <1>6, <1>7, <1>8 DEF f

LEMMA KeyCountChange ==
  ASSUME NEW k \in [Children -> RowOf(1)], NEW j \in [Children -> RowOf(1)], NEW c \in Children,
         \A d \in Children : d # c => j[d] = k[d], NEW a
  PROVE  KeyCount(j, a) = KeyCount(k, a) + (Count(j[c].refs, a) - Count(k[c].refs, a))
<1> DEFINE f == [d \in Children |-> Count(k[d].refs, a)]
           g == [d \in Children |-> Count(j[d].refs, a)]
<1>1. f \in [1..NChildren -> Int] /\ g \in [1..NChildren -> Int] /\ NChildren \in Nat /\ c \in 1..NChildren
  BY KeyCountFacts, ParentChildAssumption DEF Children
<1>2. f[c] = Count(k[c].refs, a) /\ g[c] = Count(j[c].refs, a) /\ \A d \in 1..NChildren : d # c => f[d] = g[d]
  BY DEF Children
<1>3. KeyCount(k, a) = Total(f) /\ KeyCount(j, a) = Total(g)
  BY DEF KeyCount
<1> HIDE DEF f, g
<1>4. Total(g) = Total(f) + (g[c] - f[c])
  BY <1>1, <1>2, TotalChange
<1> QED  BY <1>2, <1>3, <1>4

LEMMA KeyCountNone ==
  ASSUME NEW a \in Addresses
  PROVE  /\ [c \in Children |-> EmptyRow(1)] \in [Children -> RowOf(1)]
         /\ KeyCount([c \in Children |-> EmptyRow(1)], a) = 0
<1> DEFINE k == [c \in Children |-> EmptyRow(1)]
           f == [c \in Children |-> Count(k[c].refs, a)]
<1>1. 1 \in Nat
  OBVIOUS
<1>2. EmptyRow(1) \in RowOf(1) /\ Count(EmptyRow(1).refs, a) = 0
  BY <1>1, EmptyRowFacts
<1>3. k \in [Children -> RowOf(1)] /\ \A c \in Children : Count(k[c].refs, a) = 0
  BY <1>2
<1> HIDE DEF k
<1>4. f \in [1..NChildren -> Int] /\ NChildren \in Nat /\ \A c \in 1..NChildren : f[c] = 0
  BY <1>3, KeyCountFacts, ParentChildAssumption DEF Children
<1>5. KeyCount(k, a) = Total(f)
  BY DEF KeyCount
<1> HIDE DEF f
<1>6. Total(f) = 0
  BY <1>4, TotalZero
<1> QED  BY <1>3, <1>5, <1>6 DEF k

LEMMA RefCountFacts ==
  ASSUME NEW p \in [Children -> Nat], NEW a
  PROVE  /\ RefCount(p, a) \in Nat
         /\ \A c \in Children : Count(<<p[c]>>, a) \in Nat
         /\ [c \in Children |-> Count(<<p[c]>>, a)] \in [1..NChildren -> Nat]
         /\ [c \in Children |-> Count(<<p[c]>>, a)] \in [1..NChildren -> Int]
         /\ \A c \in Children : p[c] = a => RefCount(p, a) # 0
<1> DEFINE f == [c \in Children |-> Count(<<p[c]>>, a)]
<1>1. NChildren \in Nat
  BY ParentChildAssumption
<1>2. \A b \in Nat : Count(<<b>>, a) = IF b = a THEN 1 ELSE 0
  BY CountOne
<1>3. \A c \in Children : Count(<<p[c]>>, a) = IF p[c] = a THEN 1 ELSE 0
  BY <1>2
<1>4. f \in [1..NChildren -> Nat] /\ f \in [1..NChildren -> Int]
  BY <1>3 DEF Children
<1>5. \A c \in 1..NChildren : p[c] = a => f[c] = 1
  BY <1>3 DEF Children
<1>6. RefCount(p, a) = Total(f)
  BY DEF RefCount
<1>7. \A c \in Children : Count(<<p[c]>>, a) \in Nat
  BY <1>3
<1> HIDE DEF f
<1>8. Total(f) \in Nat /\ \A c \in 1..NChildren : f[c] <= Total(f)
  BY <1>1, <1>4, TotalAtLeast
<1>9. \A c \in 1..NChildren : p[c] = a => Total(f) # 0
  BY <1>5, <1>8
<1> QED  BY <1>4, <1>6, <1>7, <1>8, <1>9 DEF f, Children

LEMMA RefCountChange ==
  ASSUME NEW p \in [Children -> Nat], NEW q \in [Children -> Nat], NEW c \in Children,
         \A d \in Children : d # c => q[d] = p[d], NEW a
  PROVE  RefCount(q, a) = RefCount(p, a) + (Count(<<q[c]>>, a) - Count(<<p[c]>>, a))
<1> DEFINE f == [d \in Children |-> Count(<<p[d]>>, a)]
           g == [d \in Children |-> Count(<<q[d]>>, a)]
<1>1. f \in [1..NChildren -> Int] /\ g \in [1..NChildren -> Int] /\ NChildren \in Nat /\ c \in 1..NChildren
  BY RefCountFacts, ParentChildAssumption DEF Children
<1>2. f[c] = Count(<<p[c]>>, a) /\ g[c] = Count(<<q[c]>>, a) /\ \A d \in 1..NChildren : d # c => f[d] = g[d]
  BY DEF Children
<1>3. RefCount(p, a) = Total(f) /\ RefCount(q, a) = Total(g)
  BY DEF RefCount
<1> HIDE DEF f, g
<1>4. Total(g) = Total(f) + (g[c] - f[c])
  BY <1>1, <1>2, TotalChange
<1> QED  BY <1>2, <1>3, <1>4

LEMMA RefCountNone ==
  ASSUME NEW a \in Addresses
  PROVE  /\ [c \in Children |-> Null] \in [Children -> Nat]
         /\ RefCount([c \in Children |-> Null], a) = 0
<1> DEFINE p == [c \in Children |-> Null]
           f == [c \in Children |-> Count(<<p[c]>>, a)]
<1>1. Null \in Nat /\ Null # a
  BY DEF Null, Addresses
<1>2. Count(<<Null>>, a) = 0
  BY <1>1, CountOne
<1>3. p \in [Children -> Nat] /\ \A c \in Children : Count(<<p[c]>>, a) = 0
  BY <1>1, <1>2
<1> HIDE DEF p
<1>4. f \in [1..NChildren -> Int] /\ NChildren \in Nat /\ \A c \in 1..NChildren : f[c] = 0
  BY <1>3, RefCountFacts, ParentChildAssumption DEF Children
<1>5. RefCount(p, a) = Total(f)
  BY DEF RefCount
<1> HIDE DEF f
<1>6. Total(f) = 0
  BY <1>4, TotalZero
<1> QED  BY <1>3, <1>5, <1>6 DEF p

LocalsOf(k, p, ch, o, pa, t) ==
  FlattenSeq([c \in Children |-> k[c].refs \o <<p[c]>> \o ch[c].refs])
  \o o.refs \o pa.refs \o [c \in Children |-> t[c]]

\* What a child has: its key, its partition and its row
LEMMA ChildLocals ==
  ASSUME NEW k \in [Children -> RowOf(1)], NEW p \in [Children -> Nat], NEW ch \in [Children -> RowOf(1)], NEW a
  PROVE  LET s == FlattenSeq([c \in Children |-> k[c].refs \o <<p[c]>> \o ch[c].refs]) IN
         s \in Seq(Nat) /\ Count(s, a) = KeyCount(k, a) + RefCount(p, a) + KeyCount(ch, a)
<1> DEFINE seqs == [c \in Children |-> k[c].refs \o <<p[c]>> \o ch[c].refs]
           f == [c \in Children |-> Count(k[c].refs, a)]
           g == [c \in Children |-> Count(<<p[c]>>, a)]
           h == [c \in Children |-> Count(ch[c].refs, a)]
           fg == [c \in 1..NChildren |-> f[c] + g[c]]
           all == Amounts(seqs, a)
<1>1. NChildren \in Nat
  BY ParentChildAssumption
<1>2. /\ f \in [1..NChildren -> Int] /\ g \in [1..NChildren -> Int] /\ h \in [1..NChildren -> Int]
      /\ KeyCount(k, a) = Total(f) /\ RefCount(p, a) = Total(g) /\ KeyCount(ch, a) = Total(h)
  BY KeyCountFacts, RefCountFacts DEF KeyCount, RefCount
<1>3. ASSUME NEW c \in Children
      PROVE  /\ seqs[c] \in Seq(Nat)
             /\ Count(seqs[c], a) = f[c] + g[c] + h[c]
  <2> DEFINE one == <<p[c]>>
  <2>1. k[c].refs \in Seq(Nat) /\ ch[c].refs \in Seq(Nat) /\ one \in Seq(Nat)
    BY KeyCountFacts
  <2>2. seqs[c] = k[c].refs \o one \o ch[c].refs /\ f[c] = Count(k[c].refs, a) /\ g[c] = Count(one, a)
        /\ h[c] = Count(ch[c].refs, a)
    OBVIOUS
  <2> HIDE DEF one, seqs, f, g, h
  <2> DEFINE ko == k[c].refs \o one
  <2>3. ko \in Seq(Nat) /\ Count(ko, a) = Count(k[c].refs, a) + Count(one, a)
    BY <2>1, CountConcat
  <2>4. seqs[c] = ko \o ch[c].refs
    BY <2>2
  <2> HIDE DEF ko
  <2>5. seqs[c] \in Seq(Nat) /\ Count(seqs[c], a) = Count(ko, a) + Count(ch[c].refs, a)
    BY <2>1, <2>3, <2>4, CountConcat
  <2> QED  BY <2>2, <2>3, <2>5
<1>4. DOMAIN seqs = 1..NChildren
  BY DEF Children
<1> HIDE DEF seqs
<1>5. seqs \in Seq(Seq(Nat)) /\ Len(seqs) = NChildren
  <2> DEFINE Ss == Seq(Nat)
  <2>1. seqs = [c \in 1..NChildren |-> seqs[c]] /\ \A c \in 1..NChildren : seqs[c] \in Ss
    BY <1>3, <1>4 DEF Children, seqs
  <2> HIDE DEF Ss
  <2>2. seqs \in Seq(Ss) /\ Len(seqs) = NChildren
    BY <1>1, <2>1, SMTT(30)
  <2> QED  BY <2>2 DEF Ss
<1>6. FlattenSeq(seqs) \in Seq(Nat) /\ Count(FlattenSeq(seqs), a) = Total(all)
  BY <1>5, CountFlat
<1>7. all \in [1..NChildren -> Int] /\ \A c \in 1..NChildren : all[c] = Count(seqs[c], a)
  BY <1>5, AmountsFacts
<1> HIDE DEF f, g, h, all
<1>8. fg \in [1..NChildren -> Int] /\ \A c \in 1..NChildren : fg[c] = f[c] + g[c]
  BY <1>2
<1>9. \A c \in 1..NChildren : all[c] = fg[c] + h[c]
  BY <1>3, <1>7, <1>8 DEF Children
<1> HIDE DEF fg
<1>10. Total(fg) = Total(f) + Total(g)
  BY <1>1, <1>2, <1>8, TotalAdd
<1>11. Total(all) = Total(fg) + Total(h)
  BY <1>1, <1>2, <1>7, <1>8, <1>9, TotalAdd
<1>12. Count(FlattenSeq(seqs), a) = KeyCount(k, a) + RefCount(p, a) + KeyCount(ch, a)
  BY <1>2, <1>6, <1>10, <1>11
<1> QED  BY <1>6, <1>12 DEF seqs

\* The places outside of the heap
Places(k, p, ch, o, pa, t, rs, res, hs) ==
  /\ k \in [Children -> RowOf(1)] /\ p \in [Children -> Nat] /\ ch \in [Children -> RowOf(1)]
  /\ o \in RowOf(1 + NChildren) /\ pa \in RowOf(1) /\ t \in [Children -> Nat]
  /\ rs \in Seq(RowOf(1 + NChildren)) /\ res \in Nat
  /\ IsFiniteSet(hs) /\ \A x \in hs : x.set \in Nat

LEMMA LocalsCount ==
  ASSUME NEW k, NEW p, NEW ch, NEW o, NEW pa, NEW t, NEW rs, NEW res, NEW hs,
         Places(k, p, ch, o, pa, t, rs, res, hs), NEW a
  PROVE  /\ LocalsOf(k, p, ch, o, pa, t) \in Seq(Nat)
         /\ Count(LocalsOf(k, p, ch, o, pa, t), a) =
              KeyCount(k, a) + RefCount(p, a) + KeyCount(ch, a)
              + Count(o.refs, a) + Count(pa.refs, a) + RefCount(t, a)
<1> DEFINE s == FlattenSeq([c \in Children |-> k[c].refs \o <<p[c]>> \o ch[c].refs])
           u == [c \in Children |-> t[c]]
           so == s \o o.refs
           sop == so \o pa.refs
<1> k \in [Children -> RowOf(1)] /\ p \in [Children -> Nat] /\ ch \in [Children -> RowOf(1)]
    /\ o \in RowOf(1 + NChildren) /\ pa \in RowOf(1) /\ t \in [Children -> Nat]
  BY DEF Places
<1>1. NChildren \in Nat /\ 1 \in Nat /\ 1 + NChildren \in Nat
  BY ParentChildAssumption
<1>2. s \in Seq(Nat) /\ Count(s, a) = KeyCount(k, a) + RefCount(p, a) + KeyCount(ch, a)
  BY ChildLocals, ZenonT(40)
<1>3. o.refs \in Seq(Nat) /\ pa.refs \in Seq(Nat)
  BY <1>1, RowFacts
<1>4. u \in Seq(Nat) /\ Len(u) = NChildren /\ \A c \in 1..NChildren : u[c] = t[c] /\ t[c] \in Nat
  BY <1>1 DEF Children
<1> HIDE DEF s, u
<1>5. so \in Seq(Nat) /\ Count(so, a) = Count(s, a) + Count(o.refs, a)
  BY <1>2, <1>3, CountConcat
<1> HIDE DEF so
<1>6. sop \in Seq(Nat) /\ Count(sop, a) = Count(so, a) + Count(pa.refs, a)
  BY <1>3, <1>5, CountConcat
<1> HIDE DEF sop
<1>7. sop \o u \in Seq(Nat) /\ Count(sop \o u, a) = Count(sop, a) + Count(u, a)
  BY <1>4, <1>6, CountConcat
<1>8. Count(u, a) = RefCount(t, a)
  <2> DEFINE f == Ones(u, a)
             g == [c \in Children |-> Count(<<t[c]>>, a)]
  <2>1. f \in [1..NChildren -> Int] /\ \A c \in 1..NChildren : f[c] = IF u[c] = a THEN 1 ELSE 0
    BY <1>4, OnesFacts
  <2>2. \A b \in Nat : Count(<<b>>, a) = IF b = a THEN 1 ELSE 0
    BY CountOne
  <2>3. f = g
    <3>1. DOMAIN f = 1..NChildren /\ DOMAIN g = 1..NChildren
      BY <2>1 DEF Children
    <3>2. \A c \in 1..NChildren : f[c] = g[c]
      BY <1>4, <2>1, <2>2 DEF Children
    <3>3. f = [c \in 1..NChildren |-> f[c]] /\ g = [c \in 1..NChildren |-> g[c]]
      BY <2>1 DEF Children
    <3> HIDE DEF f, g
    <3> QED  BY <3>2, <3>3
  <2>4. Count(u, a) = Total(f) /\ RefCount(t, a) = Total(g)
    BY <1>4, CountIsTotal DEF RefCount
  <2> QED  BY <2>3, <2>4
<1>9. LocalsOf(k, p, ch, o, pa, t) = sop \o u
  BY DEF LocalsOf, sop, so, s, u
<1> QED  BY <1>2, <1>5, <1>6, <1>7, <1>8, <1>9

\* What they hold, by address
Shares(k, p, ch, o, pa, t, rs, res, hs) ==
  [a \in Addresses |-> KeyCount(k, a) + RefCount(p, a) + KeyCount(ch, a)
                       + Count(o.refs, a) + Count(pa.refs, a) + RefCount(t, a)
                       + Count(RowRefs(rs), a) + Count(<<res>>, a) + HeldCount(hs, a)]

LEMMA WideRows ==
  ASSUME NEW k \in Nat, NEW rs \in Seq(RowOf(k))
  PROVE  rs \in Seq(AnyRow) /\ RowRefs(rs) \in Seq(Nat)
<1>1. \A r \in RowOf(k) : r \in AnyRow
  BY RowFacts
<1>2. rs \in Seq(AnyRow)
  BY <1>1
<1> QED  BY <1>2, RowRefsFacts

LEMMA HeldCountFacts ==
  ASSUME NEW hs, IsFiniteSet(hs), NEW a
  PROVE  /\ HeldCount(hs, a) \in Nat
         /\ HeldCount({}, a) = 0
         /\ \A x : x \notin hs => HeldCount(hs \cup {x}, a) = HeldCount(hs, a) + IF x.set = a THEN 1 ELSE 0
         /\ \A x \in hs : HeldCount(hs, a) = HeldCount(hs \ {x}, a) + IF x.set = a THEN 1 ELSE 0
<1> DEFINE S(g) == {x \in g : x.set = a}
<1>1. IsFiniteSet(S(hs)) /\ Cardinality(S(hs)) \in Nat
  <2>1. S(hs) \subseteq hs
    OBVIOUS
  <2> HIDE DEF S
  <2> QED  BY <2>1, FS_Subset, FS_CardinalityType
<1>2. HeldCount({}, a) = 0
  <2>1. S({}) = {}
    OBVIOUS
  <2> QED  BY <2>1, FS_EmptySet DEF HeldCount
<1>3. ASSUME NEW x, x \notin hs
      PROVE  HeldCount(hs \cup {x}, a) = HeldCount(hs, a) + IF x.set = a THEN 1 ELSE 0
  <2>1. CASE x.set = a
    <3>1. S(hs \cup {x}) = S(hs) \cup {x} /\ x \notin S(hs)
      BY <1>3, <2>1
    <3>2. Cardinality(S(hs) \cup {x}) = Cardinality(S(hs)) + 1
      BY <1>1, <3>1, FS_AddElement
    <3>3. HeldCount(hs \cup {x}, a) = HeldCount(hs, a) + 1
      BY <3>1, <3>2 DEF HeldCount
    <3> QED  BY <2>1, <3>3
  <2>2. CASE x.set # a
    <3>1. S(hs \cup {x}) = S(hs)
      BY <2>2
    <3>2. HeldCount(hs \cup {x}, a) = HeldCount(hs, a) /\ HeldCount(hs, a) \in Nat
      BY <1>1, <3>1 DEF HeldCount
    <3> QED  BY <2>2, <3>2
  <2> QED  BY <2>1, <2>2
<1>4. ASSUME NEW x \in hs
      PROVE  HeldCount(hs, a) = HeldCount(hs \ {x}, a) + IF x.set = a THEN 1 ELSE 0
  <2>1. CASE x.set = a
    <3>1. S(hs \ {x}) = S(hs) \ {x} /\ x \in S(hs)
      BY <2>1
    <3>2. Cardinality(S(hs) \ {x}) = Cardinality(S(hs)) - 1
      BY <1>1, <3>1, FS_RemoveElement
    <3> QED  BY <1>1, <2>1, <3>1, <3>2 DEF HeldCount
  <2>2. CASE x.set # a
    <3>1. S(hs \ {x}) = S(hs)
      BY <2>2
    <3> QED  BY <1>1, <2>2, <3>1, SMTT(30) DEF HeldCount
  <2> QED  BY <2>1, <2>2
<1> QED  BY <1>1, <1>2, <1>3, <1>4 DEF HeldCount

LEMMA RowRefsOne ==
  ASSUME NEW r \in RowOf(1), NEW a
  PROVE  r.refs \in Seq(Nat) /\ Count(r.refs, a) \in Nat
<1>1. 1 \in Nat
  OBVIOUS
<1>2. r.refs \in Seq(Nat)
  BY <1>1, RowFacts
<1> QED  BY <1>2, CountNat

LEMMA SharesFacts ==
  ASSUME NEW k, NEW p, NEW ch, NEW o, NEW pa, NEW t, NEW rs, NEW res, NEW hs,
         Places(k, p, ch, o, pa, t, rs, res, hs)
  PROVE  /\ Shares(k, p, ch, o, pa, t, rs, res, hs) \in Tallies
         /\ \A a \in Addresses :
              /\ KeyCount(k, a) \in Nat /\ RefCount(p, a) \in Nat /\ KeyCount(ch, a) \in Nat
              /\ Count(o.refs, a) \in Nat /\ Count(pa.refs, a) \in Nat /\ RefCount(t, a) \in Nat
              /\ Count(RowRefs(rs), a) \in Nat /\ Count(<<res>>, a) \in Nat /\ HeldCount(hs, a) \in Nat
              /\ Shares(k, p, ch, o, pa, t, rs, res, hs)[a] =
                   KeyCount(k, a) + RefCount(p, a) + KeyCount(ch, a)
                   + Count(o.refs, a) + Count(pa.refs, a) + RefCount(t, a)
                   + Count(RowRefs(rs), a) + Count(<<res>>, a) + HeldCount(hs, a)
<1>1. /\ k \in [Children -> RowOf(1)] /\ p \in [Children -> Nat] /\ ch \in [Children -> RowOf(1)]
      /\ o \in RowOf(1 + NChildren) /\ pa \in RowOf(1) /\ t \in [Children -> Nat]
      /\ rs \in Seq(RowOf(1 + NChildren)) /\ res \in Nat /\ IsFiniteSet(hs)
  BY DEF Places
<1>2. 1 \in Nat /\ 1 + NChildren \in Nat
  BY ParentChildAssumption
<1>3. o.refs \in Seq(Nat) /\ pa.refs \in Seq(Nat) /\ RowRefs(rs) \in Seq(Nat)
  BY <1>1, <1>2, RowFacts, WideRows
<1>4. ASSUME NEW a \in Addresses
      PROVE  /\ KeyCount(k, a) \in Nat /\ RefCount(p, a) \in Nat /\ KeyCount(ch, a) \in Nat
             /\ Count(o.refs, a) \in Nat /\ Count(pa.refs, a) \in Nat /\ RefCount(t, a) \in Nat
             /\ Count(RowRefs(rs), a) \in Nat /\ Count(<<res>>, a) \in Nat /\ HeldCount(hs, a) \in Nat
  <2>1. KeyCount(k, a) \in Nat /\ KeyCount(ch, a) \in Nat
    BY <1>1, KeyCountFacts
  <2>2. RefCount(p, a) \in Nat /\ RefCount(t, a) \in Nat
    BY <1>1, RefCountFacts
  <2>3. Count(o.refs, a) \in Nat /\ Count(pa.refs, a) \in Nat /\ Count(RowRefs(rs), a) \in Nat
    BY <1>3, CountNat
  <2>4. Count(<<res>>, a) \in Nat
    BY <1>1, CountOneNat
  <2>5. HeldCount(hs, a) \in Nat
    BY <1>1, HeldCountFacts
  <2> QED  BY <2>1, <2>2, <2>3, <2>4, <2>5
<1>5. Shares(k, p, ch, o, pa, t, rs, res, hs) \in Tallies
  BY <1>4 DEF Shares, Tallies
<1> QED  BY <1>4, <1>5 DEF Shares

OutsideOf(k, p, ch, o, pa, t, rs, res, hs) ==
  [a \in Addresses |-> Count(LocalsOf(k, p, ch, o, pa, t) \o RowRefs(rs) \o <<res>>, a) + HeldCount(hs, a)]

\* They are all that is held outside of the heap.
LEMMA OutsideIsShares ==
  ASSUME NEW k, NEW p, NEW ch, NEW o, NEW pa, NEW t, NEW rs, NEW res, NEW hs,
         Places(k, p, ch, o, pa, t, rs, res, hs)
  PROVE  OutsideOf(k, p, ch, o, pa, t, rs, res, hs) = Shares(k, p, ch, o, pa, t, rs, res, hs)
<1> DEFINE loc == LocalsOf(k, p, ch, o, pa, t)
           w == <<res>>
           lr == loc \o RowRefs(rs)
<1> HIDE DEF loc, w, lr
<1>1. /\ k \in [Children -> RowOf(1)] /\ p \in [Children -> Nat] /\ ch \in [Children -> RowOf(1)]
      /\ o \in RowOf(1 + NChildren) /\ pa \in RowOf(1) /\ t \in [Children -> Nat]
      /\ rs \in Seq(RowOf(1 + NChildren)) /\ res \in Nat /\ 1 + NChildren \in Nat
  BY ParentChildAssumption DEF Places
<1>2. w \in Seq(Nat)
  BY <1>1 DEF w
<1>3. RowRefs(rs) \in Seq(Nat)
  BY <1>1, WideRows
<1>4. ASSUME NEW a \in Addresses
      PROVE  Count(loc \o RowRefs(rs) \o w, a) =
               KeyCount(k, a) + RefCount(p, a) + KeyCount(ch, a)
               + Count(o.refs, a) + Count(pa.refs, a) + RefCount(t, a)
               + Count(RowRefs(rs), a) + Count(w, a)
  <2>1. loc \in Seq(Nat) /\ Count(loc, a) = KeyCount(k, a) + RefCount(p, a) + KeyCount(ch, a)
              + Count(o.refs, a) + Count(pa.refs, a) + RefCount(t, a)
    <3>1. /\ LocalsOf(k, p, ch, o, pa, t) \in Seq(Nat)
          /\ Count(LocalsOf(k, p, ch, o, pa, t), a) = KeyCount(k, a) + RefCount(p, a) + KeyCount(ch, a)
              + Count(o.refs, a) + Count(pa.refs, a) + RefCount(t, a)
      BY LocalsCount
    <3> QED  BY <3>1 DEF loc
  <2> HIDE DEF loc, w
  <2>2. lr \in Seq(Nat) /\ Count(lr, a) = Count(loc, a) + Count(RowRefs(rs), a)
    BY <1>3, <2>1, CountConcat DEF lr
  <2> HIDE DEF lr
  <2>3. Count(lr \o w, a) = Count(lr, a) + Count(w, a)
    BY <1>2, <2>2, CountConcat
  <2>4. Count(loc \o RowRefs(rs) \o w, a) = Count(lr \o w, a)
    BY DEF lr
  <2> QED  BY <2>1, <2>2, <2>3, <2>4
<1> QED  BY <1>4 DEF OutsideOf, Shares, loc, w

\* When only the key of a child changes
LEMMA KeyShare ==
  ASSUME NEW k, NEW p, NEW ch, NEW o, NEW pa, NEW t, NEW rs, NEW res, NEW hs, NEW y,
         Places(k, p, ch, o, pa, t, rs, res, hs), Places(y, p, ch, o, pa, t, rs, res, hs),
         NEW c \in Children, \A d \in Children : d # c => y[d] = k[d],
         NEW a \in Addresses
  PROVE  Shares(y, p, ch, o, pa, t, rs, res, hs)[a] + Count(k[c].refs, a) =
           Shares(k, p, ch, o, pa, t, rs, res, hs)[a] + Count(y[c].refs, a)
<1> DEFINE old == Shares(k, p, ch, o, pa, t, rs, res, hs)[a]
           new == Shares(y, p, ch, o, pa, t, rs, res, hs)[a]
<1>1. /\ old = KeyCount(k, a) + RefCount(p, a) + KeyCount(ch, a)
                 + Count(o.refs, a) + Count(pa.refs, a) + RefCount(t, a)
                 + Count(RowRefs(rs), a) + Count(<<res>>, a) + HeldCount(hs, a)
      /\ new = KeyCount(y, a) + RefCount(p, a) + KeyCount(ch, a)
                 + Count(o.refs, a) + Count(pa.refs, a) + RefCount(t, a)
                 + Count(RowRefs(rs), a) + Count(<<res>>, a) + HeldCount(hs, a)
  BY DEF Shares
<1>2. /\ KeyCount(k, a) \in Nat /\ RefCount(p, a) \in Nat /\ KeyCount(ch, a) \in Nat
      /\ Count(o.refs, a) \in Nat /\ Count(pa.refs, a) \in Nat /\ RefCount(t, a) \in Nat
      /\ Count(RowRefs(rs), a) \in Nat /\ Count(<<res>>, a) \in Nat /\ HeldCount(hs, a) \in Nat
  BY SharesFacts
<1>3. k \in [Children -> RowOf(1)] /\ y \in [Children -> RowOf(1)]
  BY DEF Places
<1>4. KeyCount(y, a) = KeyCount(k, a) + (Count(y[c].refs, a) - Count(k[c].refs, a))
  BY <1>3, KeyCountChange
<1>5. Count(y[c].refs, a) \in Nat /\ Count(k[c].refs, a) \in Nat
  BY <1>3, KeyCountFacts
<1> HIDE DEF old, new
<1>6. new + Count(k[c].refs, a) = old + Count(y[c].refs, a)
  BY ONLY <1>1, <1>2, <1>4, <1>5
<1> QED  BY <1>6 DEF old, new

\* When only the partition of a child changes
LEMMA PartitionShare ==
  ASSUME NEW k, NEW p, NEW ch, NEW o, NEW pa, NEW t, NEW rs, NEW res, NEW hs, NEW y,
         Places(k, p, ch, o, pa, t, rs, res, hs), Places(k, y, ch, o, pa, t, rs, res, hs),
         NEW c \in Children, \A d \in Children : d # c => y[d] = p[d],
         NEW a \in Addresses
  PROVE  Shares(k, y, ch, o, pa, t, rs, res, hs)[a] + Count(<<p[c]>>, a) =
           Shares(k, p, ch, o, pa, t, rs, res, hs)[a] + Count(<<y[c]>>, a)
<1> DEFINE old == Shares(k, p, ch, o, pa, t, rs, res, hs)[a]
           new == Shares(k, y, ch, o, pa, t, rs, res, hs)[a]
<1>1. /\ old = KeyCount(k, a) + RefCount(p, a) + KeyCount(ch, a)
                 + Count(o.refs, a) + Count(pa.refs, a) + RefCount(t, a)
                 + Count(RowRefs(rs), a) + Count(<<res>>, a) + HeldCount(hs, a)
      /\ new = KeyCount(k, a) + RefCount(y, a) + KeyCount(ch, a)
                 + Count(o.refs, a) + Count(pa.refs, a) + RefCount(t, a)
                 + Count(RowRefs(rs), a) + Count(<<res>>, a) + HeldCount(hs, a)
  BY DEF Shares
<1>2. /\ KeyCount(k, a) \in Nat /\ RefCount(p, a) \in Nat /\ KeyCount(ch, a) \in Nat
      /\ Count(o.refs, a) \in Nat /\ Count(pa.refs, a) \in Nat /\ RefCount(t, a) \in Nat
      /\ Count(RowRefs(rs), a) \in Nat /\ Count(<<res>>, a) \in Nat /\ HeldCount(hs, a) \in Nat
  BY SharesFacts
<1>3. p \in [Children -> Nat] /\ y \in [Children -> Nat]
  BY DEF Places
<1>4. RefCount(y, a) = RefCount(p, a) + (Count(<<y[c]>>, a) - Count(<<p[c]>>, a))
  BY <1>3, RefCountChange
<1>5. Count(<<y[c]>>, a) \in Nat /\ Count(<<p[c]>>, a) \in Nat
  BY <1>3, RefCountFacts
<1> HIDE DEF old, new
<1>6. new + Count(<<p[c]>>, a) = old + Count(<<y[c]>>, a)
  BY ONLY <1>1, <1>2, <1>4, <1>5
<1> QED  BY <1>6 DEF old, new

\* When only the row of a child changes
LEMMA ChildShare ==
  ASSUME NEW k, NEW p, NEW ch, NEW o, NEW pa, NEW t, NEW rs, NEW res, NEW hs, NEW y,
         Places(k, p, ch, o, pa, t, rs, res, hs), Places(k, p, y, o, pa, t, rs, res, hs),
         NEW c \in Children, \A d \in Children : d # c => y[d] = ch[d],
         NEW a \in Addresses
  PROVE  Shares(k, p, y, o, pa, t, rs, res, hs)[a] + Count(ch[c].refs, a) =
           Shares(k, p, ch, o, pa, t, rs, res, hs)[a] + Count(y[c].refs, a)
<1> DEFINE old == Shares(k, p, ch, o, pa, t, rs, res, hs)[a]
           new == Shares(k, p, y, o, pa, t, rs, res, hs)[a]
<1>1. /\ old = KeyCount(k, a) + RefCount(p, a) + KeyCount(ch, a)
                 + Count(o.refs, a) + Count(pa.refs, a) + RefCount(t, a)
                 + Count(RowRefs(rs), a) + Count(<<res>>, a) + HeldCount(hs, a)
      /\ new = KeyCount(k, a) + RefCount(p, a) + KeyCount(y, a)
                 + Count(o.refs, a) + Count(pa.refs, a) + RefCount(t, a)
                 + Count(RowRefs(rs), a) + Count(<<res>>, a) + HeldCount(hs, a)
  BY DEF Shares
<1>2. /\ KeyCount(k, a) \in Nat /\ RefCount(p, a) \in Nat /\ KeyCount(ch, a) \in Nat
      /\ Count(o.refs, a) \in Nat /\ Count(pa.refs, a) \in Nat /\ RefCount(t, a) \in Nat
      /\ Count(RowRefs(rs), a) \in Nat /\ Count(<<res>>, a) \in Nat /\ HeldCount(hs, a) \in Nat
  BY SharesFacts
<1>3. ch \in [Children -> RowOf(1)] /\ y \in [Children -> RowOf(1)]
  BY DEF Places
<1>4. KeyCount(y, a) = KeyCount(ch, a) + (Count(y[c].refs, a) - Count(ch[c].refs, a))
  BY <1>3, KeyCountChange
<1>5. Count(y[c].refs, a) \in Nat /\ Count(ch[c].refs, a) \in Nat
  BY <1>3, KeyCountFacts
<1> HIDE DEF old, new
<1>6. new + Count(ch[c].refs, a) = old + Count(y[c].refs, a)
  BY ONLY <1>1, <1>2, <1>4, <1>5
<1> QED  BY <1>6 DEF old, new

\* When only the temporary of a child changes
LEMMA TmpShare ==
  ASSUME NEW k, NEW p, NEW ch, NEW o, NEW pa, NEW t, NEW rs, NEW res, NEW hs, NEW y,
         Places(k, p, ch, o, pa, t, rs, res, hs), Places(k, p, ch, o, pa, y, rs, res, hs),
         NEW c \in Children, \A d \in Children : d # c => y[d] = t[d],
         NEW a \in Addresses
  PROVE  Shares(k, p, ch, o, pa, y, rs, res, hs)[a] + Count(<<t[c]>>, a) =
           Shares(k, p, ch, o, pa, t, rs, res, hs)[a] + Count(<<y[c]>>, a)
<1> DEFINE old == Shares(k, p, ch, o, pa, t, rs, res, hs)[a]
           new == Shares(k, p, ch, o, pa, y, rs, res, hs)[a]
<1>1. /\ old = KeyCount(k, a) + RefCount(p, a) + KeyCount(ch, a)
                 + Count(o.refs, a) + Count(pa.refs, a) + RefCount(t, a)
                 + Count(RowRefs(rs), a) + Count(<<res>>, a) + HeldCount(hs, a)
      /\ new = KeyCount(k, a) + RefCount(p, a) + KeyCount(ch, a)
                 + Count(o.refs, a) + Count(pa.refs, a) + RefCount(y, a)
                 + Count(RowRefs(rs), a) + Count(<<res>>, a) + HeldCount(hs, a)
  BY DEF Shares
<1>2. /\ KeyCount(k, a) \in Nat /\ RefCount(p, a) \in Nat /\ KeyCount(ch, a) \in Nat
      /\ Count(o.refs, a) \in Nat /\ Count(pa.refs, a) \in Nat /\ RefCount(t, a) \in Nat
      /\ Count(RowRefs(rs), a) \in Nat /\ Count(<<res>>, a) \in Nat /\ HeldCount(hs, a) \in Nat
  BY SharesFacts
<1>3. t \in [Children -> Nat] /\ y \in [Children -> Nat]
  BY DEF Places
<1>4. RefCount(y, a) = RefCount(t, a) + (Count(<<y[c]>>, a) - Count(<<t[c]>>, a))
  BY <1>3, RefCountChange
<1>5. Count(<<y[c]>>, a) \in Nat /\ Count(<<t[c]>>, a) \in Nat
  BY <1>3, RefCountFacts
<1> HIDE DEF old, new
<1>6. new + Count(<<t[c]>>, a) = old + Count(<<y[c]>>, a)
  BY ONLY <1>1, <1>2, <1>4, <1>5
<1> QED  BY <1>6 DEF old, new

\* When only the out cursor changes
LEMMA OutShare ==
  ASSUME NEW k, NEW p, NEW ch, NEW o, NEW pa, NEW t, NEW rs, NEW res, NEW hs, NEW y,
         Places(k, p, ch, o, pa, t, rs, res, hs), Places(k, p, ch, y, pa, t, rs, res, hs),
         NEW a \in Addresses
  PROVE  Shares(k, p, ch, y, pa, t, rs, res, hs)[a] + Count(o.refs, a) =
           Shares(k, p, ch, o, pa, t, rs, res, hs)[a] + Count(y.refs, a)
<1> DEFINE old == Shares(k, p, ch, o, pa, t, rs, res, hs)[a]
           new == Shares(k, p, ch, y, pa, t, rs, res, hs)[a]
<1>1. /\ old = KeyCount(k, a) + RefCount(p, a) + KeyCount(ch, a)
                 + Count(o.refs, a) + Count(pa.refs, a) + RefCount(t, a)
                 + Count(RowRefs(rs), a) + Count(<<res>>, a) + HeldCount(hs, a)
      /\ new = KeyCount(k, a) + RefCount(p, a) + KeyCount(ch, a)
                 + Count(y.refs, a) + Count(pa.refs, a) + RefCount(t, a)
                 + Count(RowRefs(rs), a) + Count(<<res>>, a) + HeldCount(hs, a)
  BY DEF Shares
<1>2. /\ KeyCount(k, a) \in Nat /\ RefCount(p, a) \in Nat /\ KeyCount(ch, a) \in Nat
      /\ Count(o.refs, a) \in Nat /\ Count(pa.refs, a) \in Nat /\ RefCount(t, a) \in Nat
      /\ Count(RowRefs(rs), a) \in Nat /\ Count(<<res>>, a) \in Nat /\ HeldCount(hs, a) \in Nat
  BY SharesFacts
<1>3. Count(y.refs, a) \in Nat
  BY SharesFacts
<1> HIDE DEF old, new
<1>4. new + Count(o.refs, a) = old + Count(y.refs, a)
  BY ONLY <1>1, <1>2, <1>3
<1> QED  BY <1>4 DEF old, new

\* When only the parent row changes
LEMMA ParentShare ==
  ASSUME NEW k, NEW p, NEW ch, NEW o, NEW pa, NEW t, NEW rs, NEW res, NEW hs, NEW y,
         Places(k, p, ch, o, pa, t, rs, res, hs), Places(k, p, ch, o, y, t, rs, res, hs),
         NEW a \in Addresses
  PROVE  Shares(k, p, ch, o, y, t, rs, res, hs)[a] + Count(pa.refs, a) =
           Shares(k, p, ch, o, pa, t, rs, res, hs)[a] + Count(y.refs, a)
<1> DEFINE old == Shares(k, p, ch, o, pa, t, rs, res, hs)[a]
           new == Shares(k, p, ch, o, y, t, rs, res, hs)[a]
<1>1. /\ old = KeyCount(k, a) + RefCount(p, a) + KeyCount(ch, a)
                 + Count(o.refs, a) + Count(pa.refs, a) + RefCount(t, a)
                 + Count(RowRefs(rs), a) + Count(<<res>>, a) + HeldCount(hs, a)
      /\ new = KeyCount(k, a) + RefCount(p, a) + KeyCount(ch, a)
                 + Count(o.refs, a) + Count(y.refs, a) + RefCount(t, a)
                 + Count(RowRefs(rs), a) + Count(<<res>>, a) + HeldCount(hs, a)
  BY DEF Shares
<1>2. /\ KeyCount(k, a) \in Nat /\ RefCount(p, a) \in Nat /\ KeyCount(ch, a) \in Nat
      /\ Count(o.refs, a) \in Nat /\ Count(pa.refs, a) \in Nat /\ RefCount(t, a) \in Nat
      /\ Count(RowRefs(rs), a) \in Nat /\ Count(<<res>>, a) \in Nat /\ HeldCount(hs, a) \in Nat
  BY SharesFacts
<1>3. Count(y.refs, a) \in Nat
  BY SharesFacts
<1> HIDE DEF old, new
<1>4. new + Count(pa.refs, a) = old + Count(y.refs, a)
  BY ONLY <1>1, <1>2, <1>3
<1> QED  BY <1>4 DEF old, new

\* When only the buffer changes
LEMMA RowsShare ==
  ASSUME NEW k, NEW p, NEW ch, NEW o, NEW pa, NEW t, NEW rs, NEW res, NEW hs, NEW y,
         Places(k, p, ch, o, pa, t, rs, res, hs), Places(k, p, ch, o, pa, t, y, res, hs),
         NEW a \in Addresses
  PROVE  Shares(k, p, ch, o, pa, t, y, res, hs)[a] + Count(RowRefs(rs), a) =
           Shares(k, p, ch, o, pa, t, rs, res, hs)[a] + Count(RowRefs(y), a)
<1> DEFINE old == Shares(k, p, ch, o, pa, t, rs, res, hs)[a]
           new == Shares(k, p, ch, o, pa, t, y, res, hs)[a]
<1>1. /\ old = KeyCount(k, a) + RefCount(p, a) + KeyCount(ch, a)
                 + Count(o.refs, a) + Count(pa.refs, a) + RefCount(t, a)
                 + Count(RowRefs(rs), a) + Count(<<res>>, a) + HeldCount(hs, a)
      /\ new = KeyCount(k, a) + RefCount(p, a) + KeyCount(ch, a)
                 + Count(o.refs, a) + Count(pa.refs, a) + RefCount(t, a)
                 + Count(RowRefs(y), a) + Count(<<res>>, a) + HeldCount(hs, a)
  BY DEF Shares
<1>2. /\ KeyCount(k, a) \in Nat /\ RefCount(p, a) \in Nat /\ KeyCount(ch, a) \in Nat
      /\ Count(o.refs, a) \in Nat /\ Count(pa.refs, a) \in Nat /\ RefCount(t, a) \in Nat
      /\ Count(RowRefs(rs), a) \in Nat /\ Count(<<res>>, a) \in Nat /\ HeldCount(hs, a) \in Nat
  BY SharesFacts
<1>3. Count(RowRefs(y), a) \in Nat
  BY SharesFacts
<1> HIDE DEF old, new
<1>4. new + Count(RowRefs(rs), a) = old + Count(RowRefs(y), a)
  BY ONLY <1>1, <1>2, <1>3
<1> QED  BY <1>4 DEF old, new

\* When only the result changes
LEMMA ResultShare ==
  ASSUME NEW k, NEW p, NEW ch, NEW o, NEW pa, NEW t, NEW rs, NEW res, NEW hs, NEW y,
         Places(k, p, ch, o, pa, t, rs, res, hs), Places(k, p, ch, o, pa, t, rs, y, hs),
         NEW a \in Addresses
  PROVE  Shares(k, p, ch, o, pa, t, rs, y, hs)[a] + Count(<<res>>, a) =
           Shares(k, p, ch, o, pa, t, rs, res, hs)[a] + Count(<<y>>, a)
<1> DEFINE old == Shares(k, p, ch, o, pa, t, rs, res, hs)[a]
           new == Shares(k, p, ch, o, pa, t, rs, y, hs)[a]
<1>1. /\ old = KeyCount(k, a) + RefCount(p, a) + KeyCount(ch, a)
                 + Count(o.refs, a) + Count(pa.refs, a) + RefCount(t, a)
                 + Count(RowRefs(rs), a) + Count(<<res>>, a) + HeldCount(hs, a)
      /\ new = KeyCount(k, a) + RefCount(p, a) + KeyCount(ch, a)
                 + Count(o.refs, a) + Count(pa.refs, a) + RefCount(t, a)
                 + Count(RowRefs(rs), a) + Count(<<y>>, a) + HeldCount(hs, a)
  BY DEF Shares
<1>2. /\ KeyCount(k, a) \in Nat /\ RefCount(p, a) \in Nat /\ KeyCount(ch, a) \in Nat
      /\ Count(o.refs, a) \in Nat /\ Count(pa.refs, a) \in Nat /\ RefCount(t, a) \in Nat
      /\ Count(RowRefs(rs), a) \in Nat /\ Count(<<res>>, a) \in Nat /\ HeldCount(hs, a) \in Nat
  BY SharesFacts
<1>3. Count(<<y>>, a) \in Nat
  BY SharesFacts
<1> HIDE DEF old, new
<1>4. new + Count(<<res>>, a) = old + Count(<<y>>, a)
  BY ONLY <1>1, <1>2, <1>3
<1> QED  BY <1>4 DEF old, new

\* Each place holds no more than all of them.
LEMMA SharesBound ==
  ASSUME NEW k, NEW p, NEW ch, NEW o, NEW pa, NEW t, NEW rs, NEW res, NEW hs,
         Places(k, p, ch, o, pa, t, rs, res, hs), NEW a \in Addresses
  PROVE  LET all == Shares(k, p, ch, o, pa, t, rs, res, hs)[a] IN
         /\ all \in Nat
         /\ \A c \in Children : /\ Count(k[c].refs, a) <= all /\ Count(ch[c].refs, a) <= all
                                /\ p[c] = a => all # 0
                                /\ t[c] = a => all # 0
         /\ Count(o.refs, a) <= all /\ Count(pa.refs, a) <= all /\ Count(RowRefs(rs), a) <= all
         /\ Count(<<res>>, a) <= all /\ HeldCount(hs, a) <= all
<1> DEFINE all == Shares(k, p, ch, o, pa, t, rs, res, hs)[a]
<1>1. all = KeyCount(k, a) + RefCount(p, a) + KeyCount(ch, a)
            + Count(o.refs, a) + Count(pa.refs, a) + RefCount(t, a)
            + Count(RowRefs(rs), a) + Count(<<res>>, a) + HeldCount(hs, a)
  BY DEF Shares
<1>2. /\ KeyCount(k, a) \in Nat /\ RefCount(p, a) \in Nat /\ KeyCount(ch, a) \in Nat
      /\ Count(o.refs, a) \in Nat /\ Count(pa.refs, a) \in Nat /\ RefCount(t, a) \in Nat
      /\ Count(RowRefs(rs), a) \in Nat /\ Count(<<res>>, a) \in Nat /\ HeldCount(hs, a) \in Nat
  BY SharesFacts
<1> HIDE DEF all
<1>3. /\ all \in Nat /\ KeyCount(k, a) <= all /\ RefCount(p, a) <= all /\ KeyCount(ch, a) <= all
      /\ Count(o.refs, a) <= all /\ Count(pa.refs, a) <= all /\ RefCount(t, a) <= all
      /\ Count(RowRefs(rs), a) <= all /\ Count(<<res>>, a) <= all /\ HeldCount(hs, a) <= all
  BY ONLY <1>1, <1>2
<1>4. k \in [Children -> RowOf(1)] /\ ch \in [Children -> RowOf(1)] /\ p \in [Children -> Nat] /\ t \in [Children -> Nat]
  BY DEF Places
<1>5. ASSUME NEW c \in Children
      PROVE  Count(k[c].refs, a) <= all /\ Count(ch[c].refs, a) <= all
  <2>1. Count(k[c].refs, a) <= KeyCount(k, a) /\ Count(ch[c].refs, a) <= KeyCount(ch, a)
        /\ Count(k[c].refs, a) \in Nat /\ Count(ch[c].refs, a) \in Nat
    BY <1>4, KeyCountFacts
  <2> QED  BY ONLY <1>2, <1>3, <2>1
<1>6. \A c \in Children : (p[c] = a => RefCount(p, a) # 0) /\ (t[c] = a => RefCount(t, a) # 0)
  BY <1>4, RefCountFacts
<1>7. (RefCount(p, a) # 0 => all # 0) /\ (RefCount(t, a) # 0 => all # 0)
  BY <1>2, <1>3
<1> QED  BY <1>3, <1>5, <1>6, <1>7 DEF all

\* Between what a place held and what it holds next, it is empty.
LEMMA Middle ==
  ASSUME NEW n \in Tallies, NEW m \in Tallies, NEW s \in Seq(Nat), NEW t \in Seq(Nat),
         \A a \in Addresses : Count(s, a) <= n[a] /\ m[a] + Count(s, a) = n[a] + Count(t, a)
  PROVE  \E e \in Tallies : Joins(n, e, s) /\ Joins(m, e, t)
<1> DEFINE e == [a \in Addresses |-> n[a] - Count(s, a)]
<1>1. \A a \in Addresses : n[a] \in Nat /\ m[a] \in Nat /\ Count(s, a) \in Nat /\ Count(t, a) \in Nat
  BY CountNat DEF Tallies
<1>2. e \in Tallies
  BY <1>1 DEF Tallies
<1>3. ASSUME NEW a \in Addresses PROVE n[a] = e[a] + Count(s, a) /\ m[a] = e[a] + Count(t, a)
  <2>1. e[a] = n[a] - Count(s, a) /\ m[a] + Count(s, a) = n[a] + Count(t, a)
    OBVIOUS
  <2>2. n[a] \in Nat /\ m[a] \in Nat /\ Count(s, a) \in Nat /\ Count(t, a) \in Nat
    BY <1>1
  <2> DEFINE x == n[a]
             y == m[a]
             cs == Count(s, a)
             ct == Count(t, a)
  <2>3. x \in Nat /\ y \in Nat /\ cs \in Nat /\ ct \in Nat /\ y + cs = x + ct
    BY <2>1, <2>2
  <2>4. e[a] = x - cs
    BY <2>1
  <2> HIDE DEF e, x, y, cs, ct
  <2>5. x = (x - cs) + cs /\ y = (x - cs) + ct
    BY ONLY <2>3
  <2> QED  BY <2>4, <2>5 DEF x, y, cs, ct
<1> HIDE DEF e
<1> QED  BY <1>2, <1>3 DEF Joins

-----------------------------------------------------------------------------
(* The steps *)

Tally == Shares(key, partition, child, out, parent, tmp, rows, result, held)

LEMMA TallyIsOutside ==
  /\ TypeOK => /\ Places(key, partition, child, out, parent, tmp, rows, result, held)
               /\ Tally \in Tallies /\ Tally = Outside
  /\ TypeOK' => /\ Places(key', partition', child', out', parent', tmp', rows', result', held')
                /\ Tally' \in Tallies /\ Tally' = Outside'
<1>1. ASSUME TypeOK
      PROVE  /\ Places(key, partition, child, out, parent, tmp, rows, result, held)
             /\ Tally \in Tallies /\ Tally = Outside
  <2>1. Places(key, partition, child, out, parent, tmp, rows, result, held)
    BY <1>1 DEF TypeOK, Places
  <2>2. Outside = OutsideOf(key, partition, child, out, parent, tmp, rows, result, held)
    BY DEF Outside, OutsideOf, Holders, Locals, LocalsOf
  <2> QED  BY <2>1, <2>2, SharesFacts, OutsideIsShares DEF Tally
<1>2. ASSUME TypeOK'
      PROVE  /\ Places(key', partition', child', out', parent', tmp', rows', result', held')
             /\ Tally' \in Tallies /\ Tally' = Outside'
  <2>1. Places(key', partition', child', out', parent', tmp', rows', result', held')
    BY <1>2 DEF TypeOK, Places
  <2>2. Outside' = OutsideOf(key', partition', child', out', parent', tmp', rows', result', held')
    BY DEF Outside, OutsideOf, Holders, Locals, LocalsOf
  <2> QED  BY <2>1, <2>2, SharesFacts, OutsideIsShares DEF Tally
<1> QED  BY <1>1, <1>2

\* What an action starts from, and what is left to show of it
LEMMA Before ==
  ASSUME IInv
  PROVE  /\ TypeOK /\ Control /\ heap \in Heaps /\ Tally \in Tallies /\ Balanced(heap, Tally)
         /\ Places(key, partition, child, out, parent, tmp, rows, result, held)
         /\ PartitionsThere(heap, partition) /\ ResultThere(heap, result)
BY TallyIsOutside DEF IInv, TypeOK, Control

LEMMA After ==
  ASSUME TypeOK', Control', Balanced(heap', Tally')
  PROVE  IInv'
<1>1. Tally' = Outside'
  BY TallyIsOutside
<1> QED  BY <1>1 DEF IInv

LEMMA ThereKept ==
  ASSUME NEW h \in Heaps, NEW g \in Heaps, Kept(h, g), NEW p, NEW r
  PROVE  /\ PartitionsThere(h, p) => PartitionsThere(g, p)
         /\ ResultThere(h, r) => ResultThere(g, r)
<1>1. \A a \in DOMAIN h : a \in DOMAIN g /\ g[a].kind = h[a].kind /\ g[a].rows = h[a].rows
  BY HeapFacts DEF Kept
<1> QED  BY <1>1 DEF PartitionsThere, ResultThere

\* An address that is held outside is that of an object.
LEMMA HeldAlive ==
  ASSUME NEW h \in Heaps, NEW n \in Tallies, Balanced(h, n), NEW a \in Nat, a # Null,
         a \in Addresses => n[a] # 0
  PROVE  a \in Addresses /\ a \in 1..Len(h) /\ h[a].refs > 0 /\ RefsAt(h, a) > 0
<1>1. a \in Addresses /\ n[a] # 0
  BY DEF Addresses, Null
<1>2. a \in 1..Len(h) /\ h[a].refs > 0
  BY <1>1, BalancedFacts
<1> QED  BY <1>1, <1>2, HeapFacts DEF RefsAt

LEMMA PartitionMade ==
  LET o == Object("partition", NoKey, << >>, << >>) IN
  /\ o \in Objects /\ o.refs = 1 /\ o.kind = "partition" /\ o.groups = << >>
  /\ \A a \in Addresses : Count(Owned(o), a) = 0
<1> DEFINE none == << >>
           o == Object("partition", NoKey, none, << >>)
<1>1. NoKey \in Values /\ none \in Seq(AnyRow)
  BY DEF Values
<1>2. \A a : Count(RowRefs(none), a) = 0
  BY RowRefsFew, CountFacts
<1> HIDE DEF none
<1>3. /\ o \in Objects /\ o.refs = 1 /\ o.kind = "partition" /\ o.groups = << >>
      /\ \A a \in Addresses : Count(Owned(o), a) = Count(RowRefs(none), a)
  BY <1>1, ObjectMade
<1> QED  BY <1>2, <1>3 DEF none

LEMMA CreatePartitionKeeps ==
  ASSUME IInv, NEW c \in Children, CreatePartition(c)
  PROVE  IInv'
<1> DEFINE o == Object("partition", NoKey, << >>, << >>)
           g == New(heap, o)
           b == Len(heap) + 1
<1>1. /\ at = [do |-> "create", c |-> c] /\ heap' = g
      /\ partition' = [partition EXCEPT ![c] = Len(heap')] /\ at' = [do |-> "call", c |-> c]
      /\ UNCHANGED << tables, key, child, parent, out, tmp, rows, served, result, held >>
  BY DEF CreatePartition, Begin
<1>2. /\ TypeOK /\ Control /\ heap \in Heaps /\ Tally \in Tallies /\ Balanced(heap, Tally)
      /\ Places(key, partition, child, out, parent, tmp, rows, result, held)
      /\ PartitionsThere(heap, partition) /\ ResultThere(heap, result)
  BY Before
<1>3. c \in Nat /\ NChildren \in Nat /\ Children = 1..NChildren /\ b \in Nat /\ b >= 1 /\ b # Null /\ Len(heap) \in Nat
  BY <1>2, HeapFacts, ParentChildAssumption DEF Children, Null
<1>4. partition[c] = Null /\ \A d \in Children : partition[d] # Null <=> d <= c - 1
  BY <1>1, <1>2, <1>3 DEF Control, Made
<1>5. /\ o \in Objects /\ o.refs = 1 /\ o.kind = "partition" /\ o.groups = << >>
      /\ \A a \in Addresses : Count(Owned(o), a) = 0
  BY PartitionMade
<1> HIDE DEF o
<1>6. g \in Heaps /\ Len(g) = b /\ g[b] = o /\ StaysOpen(heap, g)
  BY <1>2, <1>5, OwnedCountNew, NewOpen
<1> HIDE DEF g, b
<1>7. partition' = [partition EXCEPT ![c] = b] /\ partition \in [Children -> Nat]
      /\ partition' \in [Children -> Nat] /\ partition'[c] = b /\ \A d \in Children : d # c => partition'[d] = partition[d]
  BY <1>1, <1>2, <1>3, <1>6 DEF TypeOK
<1>8. TypeOK'
  BY <1>1, <1>2, <1>6, <1>7 DEF TypeOK, ChildSteps
<1>9. Tally' \in Tallies /\ Places(key', partition', child', out', parent', tmp', rows', result', held')
  BY <1>8, TallyIsOutside
<1>10. \A a \in Addresses : Tally'[a] + Count(Owned(o), a) = Tally[a] + Count(<<b>>, a)
  <2> TAKE a \in Addresses
  <2>1. Tally'[a] + Count(<<partition[c]>>, a) = Tally[a] + Count(<<partition'[c]>>, a)
    <3>1. Places(key, partition', child, out, parent, tmp, rows, result, held)
      BY <1>1, <1>9
    <3>2. Tally' = Shares(key, partition', child, out, parent, tmp, rows, result, held)
      BY <1>1 DEF Tally
    <3>3. Shares(key, partition', child, out, parent, tmp, rows, result, held)[a] + Count(<<partition[c]>>, a)
          = Shares(key, partition, child, out, parent, tmp, rows, result, held)[a] + Count(<<partition'[c]>>, a)
      <4>1. \A d \in Children : d # c => partition'[d] = partition[d]
        BY <1>7
      <4> QED  BY <1>2, <3>1, <4>1, PartitionShare
    <3> QED  BY <3>2, <3>3 DEF Tally
  <2>2. Count(<<partition[c]>>, a) = 0
    BY <1>3, <1>4, CountOne DEF Null, Addresses
  <2> QED  BY <1>5, <1>7, <2>1, <2>2
<1>11. Balanced(g, Tally') /\ Kept(heap, g)
  BY <1>2, <1>5, <1>9, <1>10, NewBalanced DEF g, b
<1>12. Control'
  <2>1. \A d \in Children : partition'[d] # Null <=> d <= c
    BY <1>3, <1>4, <1>7
  <2>2. \A d \in Children : partition'[d] # Null => Unextracted(heap', partition'[d])
    <3> TAKE d \in Children
    <3> SUFFICES ASSUME partition'[d] # Null PROVE Unextracted(g, partition'[d])
      BY <1>1
    <3>1. CASE d = c
      BY <1>5, <1>6, <1>7, <3>1 DEF Unextracted
    <3>2. CASE d # c
      <4>1. partition[d] # Null /\ partition[d] \in DOMAIN heap /\ Unextracted(heap, partition[d])
        BY <1>1, <1>2, <1>7, <3>2 DEF Control, PartitionsThere
      <4> QED  BY <1>6, <1>7, <3>2, <4>1 DEF StaysOpen
    <3> QED  BY <3>1, <3>2
  <2>3. PartitionsThere(heap', partition')
    <3>1. PartitionsThere(g, partition)
      BY <1>2, <1>6, <1>11, ThereKept
    <3>2. b \in DOMAIN g
      BY <1>3, <1>6, HeapFacts
    <3> QED  BY <1>1, <1>5, <1>6, <1>7, <3>1, <3>2 DEF PartitionsThere
  <2>4. ResultThere(heap', result')
    BY <1>1, <1>2, <1>6, <1>11, ThereKept
  <2>5. result' = Null /\ held' = {}
    BY <1>1, <1>2 DEF Control, Stmt
  <2> QED  BY <1>1, <2>1, <2>2, <2>3, <2>4, <2>5 DEF Control, Made
<1> QED  BY <1>1, <1>8, <1>11, <1>12, After

\* No set was extracted while the children are read.
LEMMA OpenKept ==
  ASSUME NEW h, NEW g, NEW p, StaysOpen(h, g), PartitionsThere(h, p),
         \A c \in Children : p[c] # Null => Unextracted(h, p[c])
  PROVE  \A c \in Children : p[c] # Null => Unextracted(g, p[c])
BY DEF StaysOpen, PartitionsThere

LEMMA ClearRowBalanced ==
  ASSUME NEW h \in Heaps, NEW n \in Tallies, NEW m \in Tallies, NEW old \in RowOf(1),
         Balanced(h, n), Joins(n, m, old.refs)
  PROVE  LET f == ClearRow(h, old) IN
         /\ f.row \in RowOf(1) /\ f.heap \in Heaps /\ Kept(h, f.heap) /\ StaysOpen(h, f.heap)
         /\ Grows(h, f.heap, Null)
         /\ \A k \in Tallies : Joins(k, m, f.row.refs) => Balanced(f.heap, k)
<1> DEFINE g == Release(h, old.refs)
           r == EmptyRow(1)
<1>1. 1 \in Nat
  OBVIOUS
<1>2. old.refs \in Seq(Nat) /\ Len(old.refs) = 1
  BY <1>1, RowFacts
<1>3. g \in Heaps /\ Balanced(g, m) /\ OnlyCounts(h, g)
  BY <1>2, ReleaseBalanced
<1>4. Kept(h, g) /\ StaysOpen(h, g) /\ Grows(h, g, Null)
  BY <1>3, OnlyCountsFacts, OnlyCountsOpen, OnlyCountsGrow
<1>5. r \in RowOf(1) /\ \A a \in Addresses : Count(r.refs, a) = 0
  BY <1>1, EmptyRowFacts
<1>6. ClearRow(h, old) = [heap |-> g, row |-> r]
  BY <1>2 DEF ClearRow
<1> HIDE DEF g, r
<1>7. ASSUME NEW k \in Tallies, Joins(k, m, r.refs) PROVE Balanced(g, k)
  <2>1. \A a \in Addresses : k[a] = m[a]
    BY <1>5, <1>7 DEF Joins, Tallies
  <2> QED  BY <1>3, <2>1, SameTally
<1> QED  BY <1>3, <1>4, <1>5, <1>6, <1>7

\* A row was fetched, or cleared.
Fetched(h, old, f, m) ==
  /\ f.row \in RowOf(1) /\ f.heap \in Heaps /\ Kept(h, f.heap) /\ StaysOpen(h, f.heap)
  /\ Grows(h, f.heap, Null)
  /\ \A num \in Nat, value \in Values :
       f = FetchRow(h, old, num, value) => f.row.n = num /\ HasValue(f.heap, f.row.refs[1], value)
  /\ \A k \in Tallies : Joins(k, m, f.row.refs) => Balanced(f.heap, k)

\* The row of a child and the heap, as FETCH leaves them
LEMMA FetchChildHeap ==
  ASSUME IInv, NEW c \in Children, NEW f,
         \/ f = ClearRow(heap, child[c])
         \/ \E num \in Nat, value \in Values : f = FetchRow(heap, child[c], num, value),
         heap' = f.heap, child' = [child EXCEPT ![c] = f.row],
         UNCHANGED << partition, key, parent, out, tmp, rows, result, held >>
  PROVE  /\ heap' \in Heaps /\ child' \in [Children -> RowOf(1)]
         /\ Kept(heap, heap') /\ StaysOpen(heap, heap') /\ Balanced(heap', Tally')
         /\ Grows(heap, heap', Null)
         /\ \A num \in Nat, value \in Values :
              f = FetchRow(heap, child[c], num, value) => f.row.n = num /\ HasValue(heap', f.row.refs[1], value)
<1> DEFINE old == child[c]
           n == Tally
           m == Tally'
<1>1. /\ TypeOK /\ heap \in Heaps /\ Tally \in Tallies /\ Balanced(heap, Tally)
      /\ Places(key, partition, child, out, parent, tmp, rows, result, held)
  BY Before
<1>2. child \in [Children -> RowOf(1)] /\ old \in RowOf(1)
  BY <1>1 DEF TypeOK
<1>3. ASSUME NEW e \in Tallies, Joins(Tally, e, old.refs) PROVE Fetched(heap, old, f, e)
  <2>1. ASSUME NEW num \in Nat, NEW value \in Values, f = FetchRow(heap, old, num, value)
        PROVE  /\ f.row \in RowOf(1) /\ f.heap \in Heaps /\ Kept(heap, f.heap) /\ StaysOpen(heap, f.heap)
               /\ Grows(heap, f.heap, Null) /\ f.row.n = num /\ HasValue(f.heap, f.row.refs[1], value)
               /\ \A k \in Tallies : Joins(k, e, f.row.refs) => Balanced(f.heap, k)
    BY <1>1, <1>2, <1>3, <2>1, FetchRowBalanced
  <2>2. ASSUME f = ClearRow(heap, old)
        PROVE  /\ f.row \in RowOf(1) /\ f.heap \in Heaps /\ Kept(heap, f.heap) /\ StaysOpen(heap, f.heap)
               /\ Grows(heap, f.heap, Null)
               /\ \A k \in Tallies : Joins(k, e, f.row.refs) => Balanced(f.heap, k)
    BY <1>1, <1>2, <1>3, <2>2, ClearRowBalanced
  <2> QED  BY <2>1, <2>2 DEF Fetched
<1>4. \A a \in Addresses : Count(old.refs, a) <= Tally[a] /\ Tally[a] \in Nat
  BY <1>1, SharesBound DEF Tally
<1>5. /\ f.row \in RowOf(1) /\ f.heap \in Heaps /\ Kept(heap, f.heap) /\ StaysOpen(heap, f.heap)
      /\ Grows(heap, f.heap, Null)
      /\ \A num \in Nat, value \in Values :
           f = FetchRow(heap, old, num, value) => f.row.n = num /\ HasValue(f.heap, f.row.refs[1], value)
  <2> DEFINE e == [a \in Addresses |-> Tally[a] - Count(old.refs, a)]
  <2>1. \A a \in Addresses : Count(old.refs, a) \in Nat
    BY <1>2, RowRefsOne
  <2>2. e \in Tallies /\ \A a \in Addresses : Tally[a] = e[a] + Count(old.refs, a)
    BY <1>4, <2>1 DEF Tallies
  <2> HIDE DEF e
  <2>3. Fetched(heap, old, f, e)
    BY <1>3, <2>2 DEF Joins
  <2> QED  BY <2>3 DEF Fetched
<1>6. child' \in [Children -> RowOf(1)] /\ child'[c] = f.row /\ \A d \in Children : d # c => child'[d] = child[d]
  BY <1>2, <1>5
<1>7. Places(key, partition, child', out, parent, tmp, rows, result, held)
  BY <1>1, <1>6 DEF Places
<1>8. m = Shares(key, partition, child', out, parent, tmp, rows, result, held) /\ m \in Tallies
  BY <1>7, SharesFacts DEF Tally
<1>9. \A a \in Addresses : m[a] + Count(old.refs, a) = Tally[a] + Count(f.row.refs, a)
  <2> TAKE a \in Addresses
  <2>1. Shares(key, partition, child', out, parent, tmp, rows, result, held)[a] + Count(child[c].refs, a)
        = Shares(key, partition, child, out, parent, tmp, rows, result, held)[a] + Count(child'[c].refs, a)
    <3>1. PICK y : y = child'
      OBVIOUS
    <3>2. Places(key, partition, y, out, parent, tmp, rows, result, held) /\ \A d \in Children : d # c => y[d] = child[d]
      BY <1>6, <1>7, <3>1
    <3>3. Shares(key, partition, y, out, parent, tmp, rows, result, held)[a] + Count(child[c].refs, a)
          = Shares(key, partition, child, out, parent, tmp, rows, result, held)[a] + Count(y[c].refs, a)
      BY <1>1, <3>2, ChildShare
    <3> QED  BY <3>1, <3>3
  <2> QED  BY <1>6, <1>8, <2>1 DEF Tally
<1>10. old.refs \in Seq(Nat) /\ f.row.refs \in Seq(Nat)
  BY <1>2, <1>5, RowRefsOne
<1> HIDE DEF old, m
<1>11. PICK e \in Tallies : Joins(Tally, e, old.refs) /\ Joins(m, e, f.row.refs)
  BY <1>1, <1>4, <1>8, <1>9, <1>10, Middle
<1>12. Balanced(f.heap, m)
  BY <1>3, <1>8, <1>11 DEF Fetched
<1> QED  BY <1>5, <1>6, <1>12 DEF m, old

\* Nothing was delivered yet.
LEMMA NothingDelivered ==
  ASSUME Control, at.do # "returned"
  PROVE  result = Null /\ held = {}
BY DEF Control, Stmt

LEMMA FetchChildKeeps ==
  ASSUME IInv, NEW c \in Children, FetchChild(c)
  PROVE  IInv' /\ Grows(heap, heap', Null)
<1>1. /\ TypeOK /\ Control /\ heap \in Heaps
      /\ PartitionsThere(heap, partition) /\ ResultThere(heap, result)
  BY Before
<1>2. /\ at = [do |-> "fetch", c |-> c] /\ at.do = "fetch" /\ at.c = c
      /\ UNCHANGED << tables, partition, key, parent, out, tmp, rows, result, held >>
  BY DEF FetchChild
<1>3. c \in Nat /\ NChildren \in Nat /\ Children = 1..NChildren /\ c + 1 \in Nat /\ c <= NChildren
  BY ParentChildAssumption DEF Children
<1>4. \A d \in Children : partition[d] # Null <=> d <= c
  BY <1>1, <1>2 DEF Control, Made
<1>5. \A d \in Children : partition[d] # Null => Unextracted(heap, partition[d])
  BY <1>1, <1>2 DEF Control
<1>6. result = Null /\ held = {}
  BY <1>1, <1>2, NothingDelivered
<1>7. \E f : /\ heap' = f.heap /\ child' = [child EXCEPT ![c] = f.row]
             /\ \/ f = ClearRow(heap, child[c])
                \/ \E num \in Nat, value \in Values : f = FetchRow(heap, child[c], num, value)
  <2>1. CASE /\ served < Len(tables.child[c])
             /\ LET f == FetchRow(heap, child[c], served + 1, tables.child[c][served + 1])
                IN  heap' = f.heap /\ child' = [child EXCEPT ![c] = f.row]
    <3> DEFINE num == served + 1
               value == tables.child[c][num]
               f == FetchRow(heap, child[c], num, value)
    <3>1. num \in Nat /\ value \in Values
      <4>1. served \in Nat /\ tables.child[c] \in Inputs
        BY <1>1 DEF TypeOK
      <4>2. PICK N \in 0..MaxRows : tables.child[c] \in [1..N -> Values]
        BY <4>1 DEF Inputs
      <4>3. N \in Nat /\ Len(tables.child[c]) = N
        BY <4>2, ParentChildAssumption
      <4> QED  BY <2>1, <4>1, <4>2, <4>3
    <3>2. heap' = f.heap /\ child' = [child EXCEPT ![c] = f.row]
      BY <2>1
    <3> HIDE DEF num, value
    <3> QED  BY <3>1, <3>2
  <2>2. CASE LET f == ClearRow(heap, child[c])
             IN  heap' = f.heap /\ child' = [child EXCEPT ![c] = f.row]
    BY <2>2
  <2> QED  BY <2>1, <2>2 DEF FetchChild
<1>8. /\ heap' \in Heaps /\ child' \in [Children -> RowOf(1)]
      /\ Kept(heap, heap') /\ StaysOpen(heap, heap') /\ Balanced(heap', Tally')
      /\ Grows(heap, heap', Null)
  BY <1>2, <1>7, FetchChildHeap
<1>9. /\ served' \in Nat
      /\ \/ at' = [do |-> "partition", c |-> c]
         \/ at' = [do |-> "error", c |-> 0]
         \/ c < NChildren /\ at' = [do |-> "create", c |-> c + 1]
         \/ ~ (c < NChildren) /\ at' = [do |-> "call_parent", c |-> 0]
  BY <1>1 DEF FetchChild, TypeOK, Fails, Stmt, Begin
<1>10. TypeOK'
  <2>1. at' \in [do : ChildSteps, c : Children] \cup [do : OtherSteps, c : {0}]
    BY <1>3, <1>9 DEF ChildSteps, OtherSteps
  <2> QED  BY <1>1, <1>2, <1>8, <1>9, <2>1 DEF TypeOK
<1>11. Control'
  <2>1. at'.do \notin {"error", "returned"} =>
          \A d \in Children : partition'[d] # Null <=> d <= Made'
    BY <1>2, <1>3, <1>4, <1>9 DEF Made
  <2>2. \A d \in Children : partition'[d] # Null => Unextracted(heap', partition'[d])
    BY <1>1, <1>2, <1>5, <1>8, OpenKept
  <2>3. PartitionsThere(heap', partition') /\ ResultThere(heap', result')
    BY <1>1, <1>2, <1>8, ThereKept
  <2> QED  BY <1>2, <1>6, <2>1, <2>2, <2>3 DEF Control
<1> QED  BY <1>8, <1>10, <1>11, After

LEMMA CallChildKeeps ==
  ASSUME IInv, NEW c \in Children, CallChild(c)
  PROVE  IInv'
<1>1. /\ TypeOK /\ Control /\ heap \in Heaps /\ Balanced(heap, Tally)
      /\ PartitionsThere(heap, partition) /\ ResultThere(heap, result)
  BY Before
<1>2. /\ at = [do |-> "call", c |-> c] /\ at.do = "call" /\ at.c = c /\ served' = 0
      /\ UNCHANGED << tables, heap, partition, key, child, parent, out, tmp, rows, result, held >>
      /\ at' = [do |-> "error", c |-> 0] \/ at' = [do |-> "fetch", c |-> c]
  BY DEF CallChild, Fails, Stmt
<1>3. result = Null /\ held = {}
  BY <1>1, <1>2, NothingDelivered
<1>4. TypeOK'
  BY <1>1, <1>2 DEF TypeOK, ChildSteps, OtherSteps
<1>5. Tally' = Tally
  BY <1>2 DEF Tally
<1>6. Control'
  BY <1>1, <1>2, <1>3 DEF Control, Made
<1> QED  BY <1>1, <1>2, <1>4, <1>5, <1>6, After

LEMMA CallParentKeeps ==
  ASSUME IInv, CallParent
  PROVE  IInv'
<1>1. /\ TypeOK /\ Control /\ heap \in Heaps /\ Balanced(heap, Tally)
      /\ PartitionsThere(heap, partition) /\ ResultThere(heap, result)
  BY Before
<1>2. /\ at = [do |-> "call_parent", c |-> 0] /\ at.do = "call_parent" /\ served' = 0
      /\ UNCHANGED << tables, heap, partition, key, child, parent, out, tmp, rows, result, held >>
      /\ at' = [do |-> "error", c |-> 0] \/ at' = [do |-> "fetch_parent", c |-> 0]
  BY DEF CallParent, Fails, Stmt
<1>3. result = Null /\ held = {}
  BY <1>1, <1>2, NothingDelivered
<1>4. TypeOK'
  BY <1>1, <1>2 DEF TypeOK, ChildSteps, OtherSteps
<1>5. Tally' = Tally
  BY <1>2 DEF Tally
<1>6. Control'
  BY <1>1, <1>2, <1>3 DEF Control, Made
<1> QED  BY <1>1, <1>2, <1>4, <1>5, <1>6, After

LEMMA FetchParentHeap ==
  ASSUME IInv, NEW f,
         \/ f = ClearRow(heap, parent)
         \/ \E num \in Nat, value \in Values : f = FetchRow(heap, parent, num, value),
         heap' = f.heap, parent' = f.row,
         UNCHANGED << partition, key, child, out, tmp, rows, result, held >>
  PROVE  /\ heap' \in Heaps /\ parent' \in RowOf(1) /\ Kept(heap, heap') /\ Balanced(heap', Tally')
         /\ Grows(heap, heap', Null)
         /\ \A num \in Nat, value \in Values :
              f = FetchRow(heap, parent, num, value) => f.row.n = num /\ HasValue(heap', f.row.refs[1], value)
<1> DEFINE old == parent
           m == Tally'
<1>1. /\ TypeOK /\ heap \in Heaps /\ Tally \in Tallies /\ Balanced(heap, Tally)
      /\ Places(key, partition, child, out, parent, tmp, rows, result, held)
  BY Before
<1>2. old \in RowOf(1)
  BY <1>1 DEF TypeOK
<1>3. ASSUME NEW e \in Tallies, Joins(Tally, e, old.refs) PROVE Fetched(heap, old, f, e)
  <2>1. ASSUME NEW num \in Nat, NEW value \in Values, f = FetchRow(heap, old, num, value)
        PROVE  /\ f.row \in RowOf(1) /\ f.heap \in Heaps /\ Kept(heap, f.heap) /\ StaysOpen(heap, f.heap)
               /\ Grows(heap, f.heap, Null) /\ f.row.n = num /\ HasValue(f.heap, f.row.refs[1], value)
               /\ \A k \in Tallies : Joins(k, e, f.row.refs) => Balanced(f.heap, k)
    BY <1>1, <1>2, <1>3, <2>1, FetchRowBalanced
  <2>2. ASSUME f = ClearRow(heap, old)
        PROVE  /\ f.row \in RowOf(1) /\ f.heap \in Heaps /\ Kept(heap, f.heap) /\ StaysOpen(heap, f.heap)
               /\ Grows(heap, f.heap, Null)
               /\ \A k \in Tallies : Joins(k, e, f.row.refs) => Balanced(f.heap, k)
    BY <1>1, <1>2, <1>3, <2>2, ClearRowBalanced
  <2> QED  BY <2>1, <2>2 DEF Fetched
<1>4. \A a \in Addresses : Count(old.refs, a) <= Tally[a] /\ Tally[a] \in Nat
  BY <1>1, SharesBound DEF Tally
<1>5. /\ f.row \in RowOf(1) /\ f.heap \in Heaps /\ Kept(heap, f.heap)
      /\ Grows(heap, f.heap, Null)
      /\ \A num \in Nat, value \in Values :
           f = FetchRow(heap, old, num, value) => f.row.n = num /\ HasValue(f.heap, f.row.refs[1], value)
  <2> DEFINE e == [a \in Addresses |-> Tally[a] - Count(old.refs, a)]
  <2>1. \A a \in Addresses : Count(old.refs, a) \in Nat
    BY <1>2, RowRefsOne
  <2>2. e \in Tallies /\ \A a \in Addresses : Tally[a] = e[a] + Count(old.refs, a)
    BY <1>4, <2>1 DEF Tallies
  <2> HIDE DEF e
  <2>3. Fetched(heap, old, f, e)
    BY <1>3, <2>2 DEF Joins
  <2> QED  BY <2>3 DEF Fetched
<1>6. Places(key, partition, child, out, parent', tmp, rows, result, held)
  BY <1>1, <1>5 DEF Places
<1>7. m = Shares(key, partition, child, out, parent', tmp, rows, result, held) /\ m \in Tallies
  BY <1>6, SharesFacts DEF Tally
<1>8. \A a \in Addresses : m[a] + Count(old.refs, a) = Tally[a] + Count(f.row.refs, a)
  <2> TAKE a \in Addresses
  <2>1. Shares(key, partition, child, out, parent', tmp, rows, result, held)[a] + Count(parent.refs, a)
        = Shares(key, partition, child, out, parent, tmp, rows, result, held)[a] + Count(parent'.refs, a)
    <3>1. PICK y : y = parent'
      OBVIOUS
    <3>2. Places(key, partition, child, out, y, tmp, rows, result, held)
      BY <1>6, <3>1
    <3>3. Shares(key, partition, child, out, y, tmp, rows, result, held)[a] + Count(parent.refs, a)
          = Shares(key, partition, child, out, parent, tmp, rows, result, held)[a] + Count(y.refs, a)
      BY <1>1, <3>2, ParentShare
    <3> QED  BY <3>1, <3>3
  <2> QED  BY <1>7, <2>1 DEF Tally
<1>9. old.refs \in Seq(Nat) /\ f.row.refs \in Seq(Nat)
  BY <1>2, <1>5, RowRefsOne
<1> HIDE DEF old, m
<1>10. PICK e \in Tallies : Joins(Tally, e, old.refs) /\ Joins(m, e, f.row.refs)
  BY <1>1, <1>4, <1>7, <1>8, <1>9, Middle
<1>11. Balanced(f.heap, m)
  BY <1>3, <1>7, <1>10 DEF Fetched
<1> QED  BY <1>5, <1>11 DEF m, old

\* Once the parent is read, every partition is there.
LEMMA LateControl ==
  ASSUME TypeOK, Control, heap \in Heaps, heap' \in Heaps, Kept(heap, heap'),
         at.do \in {"call_parent", "fetch_parent", "load_keys", "extract", "out_union"},
         at'.do \in {"fetch_parent", "load_keys", "extract", "out_union", "finish", "error"},
         UNCHANGED << partition, result, held >>
  PROVE  Control'
<1>1. result = Null /\ held = {}
  BY NothingDelivered
<1>2. PartitionsThere(heap, partition) /\ ResultThere(heap, result)
  BY DEF Control
<1>3. PartitionsThere(heap', partition) /\ ResultThere(heap', result)
  BY <1>2, ThereKept
<1>4. \A d \in Children : partition[d] # Null <=> d <= NChildren
  BY DEF Control, Made
<1>5. at'.do \notin {"error", "returned"} => \A d \in Children : partition'[d] # Null <=> d <= Made'
  BY <1>4 DEF Made
<1>6. at'.do \notin {"create", "call", "fetch", "partition"}
  OBVIOUS
<1> QED  BY <1>1, <1>3, <1>5, <1>6 DEF Control

LEMMA FetchParentKeeps ==
  ASSUME IInv, FetchParent
  PROVE  IInv' /\ Grows(heap, heap', Null)
<1>1. TypeOK /\ Control /\ heap \in Heaps
  BY Before
<1>2. /\ at.do = "fetch_parent"
      /\ UNCHANGED << tables, partition, key, child, out, tmp, rows, result, held >>
  BY DEF FetchParent, Stmt
<1>3. \E f : /\ heap' = f.heap /\ parent' = f.row
             /\ \/ f = ClearRow(heap, parent)
                \/ \E num \in Nat, value \in Values : f = FetchRow(heap, parent, num, value)
  <2>1. CASE /\ served < Len(tables.parent)
             /\ LET f == FetchRow(heap, parent, served + 1, tables.parent[served + 1])
                IN  heap' = f.heap /\ parent' = f.row
    <3> DEFINE num == served + 1
               value == tables.parent[num]
               f == FetchRow(heap, parent, num, value)
    <3>1. num \in Nat /\ value \in Values
      <4>1. served \in Nat /\ tables.parent \in Inputs
        BY <1>1 DEF TypeOK
      <4>2. PICK N \in 0..MaxRows : tables.parent \in [1..N -> Values]
        BY <4>1 DEF Inputs
      <4>3. N \in Nat /\ Len(tables.parent) = N
        BY <4>2, ParentChildAssumption
      <4> QED  BY <2>1, <4>1, <4>2, <4>3
    <3>2. heap' = f.heap /\ parent' = f.row
      BY <2>1
    <3> HIDE DEF num, value
    <3> QED  BY <3>1, <3>2
  <2>2. CASE LET f == ClearRow(heap, parent) IN heap' = f.heap /\ parent' = f.row
    BY <2>2
  <2> QED  BY <2>1, <2>2 DEF FetchParent
<1>4. /\ heap' \in Heaps /\ parent' \in RowOf(1) /\ Kept(heap, heap') /\ Balanced(heap', Tally')
      /\ Grows(heap, heap', Null)
  BY <1>2, <1>3, FetchParentHeap
<1>5. /\ served' \in Nat
      /\ at' \in {[do |-> "load_keys", c |-> 0], [do |-> "error", c |-> 0], [do |-> "finish", c |-> 0]}
  BY <1>1 DEF FetchParent, TypeOK, Fails, Stmt
<1>6. TypeOK'
  <2>1. at' \in [do : ChildSteps, c : Children] \cup [do : OtherSteps, c : {0}]
    BY <1>5 DEF OtherSteps
  <2> QED  BY <1>1, <1>2, <1>4, <1>5, <2>1 DEF TypeOK
<1>7. Control'
  BY <1>1, <1>2, <1>4, <1>5, LateControl
<1> QED  BY <1>4, <1>6, <1>7, After

LEMMA PartitionChildKeeps ==
  ASSUME IInv, NEW c \in Children, PartitionChild(c)
  PROVE  /\ IInv'
         /\ LET loaded == Assign(heap, key[c].refs[1], child[c].refs[1]) IN
            /\ loaded \in Heaps /\ OnlyCounts(heap, loaded)
            /\ partition[c] \in 1..Len(loaded) /\ Unextracted(loaded, partition[c])
            /\ heap' = PartitionCursor(loaded, partition[c], Row(0, child[c].refs), child[c])
<1> DEFINE row == child[c]
           k == Row(0, row.refs)
           b == row.refs[1]
           old == key[c].refs[1]
           p == partition[c]
           loaded == Assign(heap, old, b)
           g == PartitionCursor(loaded, p, k, row)
           m == Tally'
<1>1. /\ TypeOK /\ Control /\ heap \in Heaps /\ Tally \in Tallies /\ Balanced(heap, Tally)
      /\ Places(key, partition, child, out, parent, tmp, rows, result, held)
      /\ PartitionsThere(heap, partition) /\ ResultThere(heap, result)
  BY Before
<1>2. /\ at = [do |-> "partition", c |-> c] /\ at.do = "partition" /\ at.c = c
      /\ key' = [key EXCEPT ![c] = k] /\ heap' = PartitionCursor(Assign(heap, old, k.refs[1]), p, k, row)
      /\ at' = [do |-> "fetch", c |-> c]
      /\ UNCHANGED << tables, partition, child, parent, out, tmp, rows, served, result, held >>
  BY DEF PartitionChild
<1>3. /\ row \in RowOf(1) /\ key[c] \in RowOf(1) /\ key \in [Children -> RowOf(1)] /\ p \in Nat
      /\ partition \in [Children -> Nat]
  BY <1>1 DEF TypeOK
<1>4. row.refs = <<b>> /\ b \in Nat /\ key[c].refs = <<old>> /\ old \in Nat
  BY <1>3, RowOfOne
<1>5. k \in RowOf(1) /\ k.refs = row.refs /\ k.refs[1] = b
  <2>1. Row(0, <<b>>) \in RowOf(1) /\ Row(0, <<b>>).refs = <<b>>
    BY <1>4, RowMade
  <2> QED  BY <1>4, <2>1
<1>6. heap' = g
  BY <1>2, <1>5
<1> HIDE DEF k
<1>7. /\ key' \in [Children -> RowOf(1)] /\ key'[c] = k /\ \A d \in Children : d # c => key'[d] = key[d]
  BY <1>2, <1>3, <1>5
<1>8. Places(key', partition, child, out, parent, tmp, rows, result, held)
  BY <1>1, <1>7 DEF Places
<1>9. m = Shares(key', partition, child, out, parent, tmp, rows, result, held) /\ m \in Tallies
  BY <1>2, <1>8, SharesFacts DEF Tally
<1>10. \A a \in Addresses : m[a] + Count(<<old>>, a) = Tally[a] + Count(<<b>>, a)
  <2> TAKE a \in Addresses
  <2>1. PICK y : y = key'
    OBVIOUS
  <2>2. Places(y, partition, child, out, parent, tmp, rows, result, held) /\ \A d \in Children : d # c => y[d] = key[d]
    BY <1>7, <1>8, <2>1
  <2>3. Shares(y, partition, child, out, parent, tmp, rows, result, held)[a] + Count(key[c].refs, a)
        = Shares(key, partition, child, out, parent, tmp, rows, result, held)[a] + Count(y[c].refs, a)
    BY <1>1, <2>2, KeyShare
  <2> QED  BY <1>4, <1>5, <1>7, <1>9, <2>1, <2>3 DEF Tally
<1>11. \A a \in Addresses : /\ Count(<<b>>, a) <= Tally[a] /\ Tally[a] \in Nat
                            /\ Count(<<b>>, a) <= m[a] /\ m[a] \in Nat
                            /\ p = a => m[a] # 0
  <2> TAKE a \in Addresses
  <2>1. Count(child[c].refs, a) <= Tally[a] /\ Tally[a] \in Nat
    BY <1>1, SharesBound DEF Tally
  <2>2. PICK y : y = key'
    OBVIOUS
  <2>3. Places(y, partition, child, out, parent, tmp, rows, result, held)
    BY <1>8, <2>2
  <2>4. /\ Shares(y, partition, child, out, parent, tmp, rows, result, held)[a] \in Nat
        /\ Count(child[c].refs, a) <= Shares(y, partition, child, out, parent, tmp, rows, result, held)[a]
        /\ p = a => Shares(y, partition, child, out, parent, tmp, rows, result, held)[a] # 0
    BY <2>3, SharesBound
  <2> QED  BY <1>4, <1>9, <2>1, <2>2, <2>4
<1> HIDE DEF m
<1>12. b # Null => RefsAt(heap, b) > 0
  <2> SUFFICES ASSUME b # Null PROVE RefsAt(heap, b) > 0
    OBVIOUS
  <2>1. b \in Addresses => Tally[b] # 0
    <3>1. Count(<<b>>, b) = 1
      BY <1>4, CountOne
    <3> QED  BY <1>11, <3>1
  <2> HIDE DEF b
  <2> QED  BY <1>1, <1>4, <2>1, HeldAlive
<1>13. loaded \in Heaps /\ Balanced(loaded, m) /\ OnlyCounts(heap, loaded)
  <2> HIDE DEF b, old
  <2> QED  BY <1>1, <1>4, <1>9, <1>10, <1>12, AssignBalanced
<1> HIDE DEF loaded, row
<1>14. Kept(heap, loaded) /\ StaysOpen(heap, loaded) /\ Len(loaded) = Len(heap)
  BY <1>1, <1>13, OnlyCountsFacts, OnlyCountsOpen
<1>15. /\ p # Null /\ p \in DOMAIN heap /\ Unextracted(heap, p)
       /\ \A d \in Children : partition[d] # Null <=> d <= c
       /\ \A d \in Children : partition[d] # Null => Unextracted(heap, partition[d])
  BY <1>1, <1>2 DEF Control, Made, PartitionsThere, Children
<1>16. p \in 1..Len(loaded) /\ loaded[p].refs > 0 /\ Unextracted(loaded, p)
  <2>1. p \in Addresses => m[p] # 0
    BY <1>11
  <2>2. p \in 1..Len(loaded) /\ loaded[p].refs > 0
    BY <1>3, <1>9, <1>13, <1>15, <2>1, HeldAlive
  <2> QED  BY <1>14, <1>15, <2>2 DEF StaysOpen
<1>17. Alive(loaded, row.refs)
  <2> SUFFICES ASSUME NEW a \in Addresses, Count(<<b>>, a) # 0 PROVE RefsAt(loaded, a) > 0
    BY <1>4 DEF Alive
  <2>1. a = b
    BY <1>4, CountOne
  <2>2. m[a] # 0
    <3>1. Count(<<b>>, a) = 1
      BY <1>4, <2>1, CountOne
    <3> QED  BY <1>11, <3>1
  <2>3. a \in Nat /\ a # Null
    BY DEF Addresses, Null
  <2> QED  BY <1>9, <1>13, <2>2, <2>3, HeldAlive
<1>18. g \in Heaps /\ Balanced(g, m) /\ Kept(loaded, g) /\ StaysOpen(loaded, g)
  BY <1>3, <1>5, <1>9, <1>13, <1>16, <1>17, PartitionCursorBalanced
<1> HIDE DEF g
<1>19. Kept(heap, g) /\ StaysOpen(heap, g)
  BY <1>1, <1>13, <1>14, <1>18, KeptTransitive, OpenTransitive
<1>20. TypeOK'
  BY <1>1, <1>2, <1>6, <1>7, <1>18 DEF TypeOK, ChildSteps
<1>21. Control'
  <2>1. at'.do \notin {"error", "returned"} => \A d \in Children : partition'[d] # Null <=> d <= Made'
    BY <1>2, <1>15 DEF Made
  <2>2. \A d \in Children : partition'[d] # Null => Unextracted(heap', partition'[d])
    BY <1>1, <1>2, <1>6, <1>15, <1>19, OpenKept
  <2>3. PartitionsThere(heap', partition') /\ ResultThere(heap', result')
    BY <1>1, <1>2, <1>6, <1>18, <1>19, ThereKept
  <2>4. result' = Null /\ held' = {}
    BY <1>1, <1>2, NothingDelivered
  <2> QED  BY <2>1, <2>2, <2>3, <2>4 DEF Control
<1>22. IInv'
  BY <1>6, <1>18, <1>20, <1>21, After DEF m
<1>23. heap' = PartitionCursor(loaded, p, Row(0, row.refs), row)
  BY <1>6 DEF g, k
<1> HIDE DEF p
<1> QED  BY <1>13, <1>16, <1>22, <1>23 DEF loaded, row, p

\* The key of each child in turn: tal are the tallies on the way.
LEMMA LoadBalanced ==
  ASSUME NEW h \in Heaps, NEW k \in [Children -> RowOf(1)], NEW ref \in Nat,
         NEW tal \in [0..NChildren -> Tallies], Balanced(h, tal[0]),
         \A c \in 1..NChildren : \A a \in Addresses :
           tal[c][a] + Count(<<k[c].refs[1]>>, a) = tal[c - 1][a] + Count(<<ref>>, a),
         \A c \in 0..NChildren : ref \in Addresses => tal[c][ref] # 0
  PROVE  /\ LoadEach(h, k, ref) \in Heaps /\ Balanced(LoadEach(h, k, ref), tal[NChildren])
         /\ OnlyCounts(h, LoadEach(h, k, ref))
<1> DEFINE N == NChildren
           old(c) == k[c].refs[1]
           Eq(g) == [c \in 0..N |-> IF c = 0 THEN h ELSE Assign(g[c - 1], old(c), ref)]
           loaded == CHOOSE g : g = Eq(g)
           step == [c \in 1..N |-> [s \in Heaps |->
                     IF Assign(s, old(c), ref) \in Heaps THEN Assign(s, old(c), ref) ELSE s]]
<1>0. LoadEach(h, k, ref) = loaded[N]
  BY DEF LoadEach
<1>1. N \in Nat /\ Children = 1..N /\ \A c \in 1..N : old(c) \in Nat
  BY RowOfOne, ParentChildAssumption DEF Children
<1>2. \A g : \A c \in 0..N : Eq(g)[c] = IF c = 0 THEN h ELSE Assign(g[c - 1], old(c), ref)
  OBVIOUS
<1>3. \A g : Eq(g) = [c \in 0..N |-> Eq(g)[c]]
  OBVIOUS
<1>4. /\ step \in [1..N -> [Heaps -> Heaps]]
      /\ \A c \in 1..N : \A s \in Heaps :
           Assign(s, old(c), ref) \in Heaps => step[c][s] = Assign(s, old(c), ref)
  OBVIOUS
\* An assignment keeps the balance.
<1>5. ASSUME NEW c \in 1..N, NEW s \in Heaps, Balanced(s, tal[c - 1])
      PROVE  /\ Assign(s, old(c), ref) \in Heaps /\ Balanced(Assign(s, old(c), ref), tal[c])
             /\ OnlyCounts(s, Assign(s, old(c), ref))
  <2> DEFINE n == tal[c - 1]
             m == tal[c]
  <2>1. c - 1 \in 0..N /\ c \in 0..N
    BY <1>1
  <2>2. n \in Tallies /\ m \in Tallies /\ old(c) \in Nat
    BY <1>1, <2>1
  <2>3. \A a \in Addresses : m[a] + Count(<<old(c)>>, a) = n[a] + Count(<<ref>>, a)
    OBVIOUS
  <2>4. ref \in Addresses => n[ref] # 0
    BY <2>1
  <2>5. Balanced(s, n)
    BY <1>5
  <2> HIDE DEF n, m, old
  <2>6. ref # Null => RefsAt(s, ref) > 0
    BY <2>2, <2>4, <2>5, HeldAlive
  <2>7. /\ Assign(s, old(c), ref) \in Heaps /\ Balanced(Assign(s, old(c), ref), m)
        /\ OnlyCounts(s, Assign(s, old(c), ref))
    BY <2>2, <2>3, <2>5, <2>6, AssignBalanced
  <2> QED  BY <2>7 DEF m
<1> HIDE DEF Eq, step, N, old
<1>6. PICK g : Recursive(g, Heaps, h, N, step)
  BY <1>1, <1>4, RecursionExists
<1> DEFINE Good(c) == /\ g[c] \in Heaps /\ Balanced(g[c], tal[c]) /\ OnlyCounts(h, g[c])
                      /\ c # 0 => g[c] = Assign(g[c - 1], old(c), ref)
           T == {c \in Nat : c <= N => Good(c)}
<1>7. 0 \in T
  <2>1. OnlyCounts(h, h)
    <3>1. ASSUME NEW b \in 1..Len(h) PROVE h[b] = [h[b] EXCEPT !.refs = h[b].refs]
      <4> DEFINE o == h[b]
      <4>1. o \in Objects
        BY HeapFacts
      <4> HIDE DEF o
      <4>2. o = [o EXCEPT !.refs = o.refs]
        BY <4>1 DEF Objects
      <4> QED  BY <4>2 DEF o
    <3> QED  BY <3>1 DEF OnlyCounts
  <2>2. g[0] = h
    BY <1>6 DEF Recursive
  <2> QED  BY <2>1, <2>2
<1>8. ASSUME NEW c \in Nat, c \in T PROVE c + 1 \in T
  <2> SUFFICES ASSUME c + 1 <= N PROVE Good(c + 1)
    OBVIOUS
  <2> DEFINE d == c + 1
             s == g[c]
  <2>1. c <= N /\ d \in 1..N /\ d - 1 = c /\ d # 0
    BY <1>1
  <2>2. s \in Heaps /\ Balanced(s, tal[c]) /\ OnlyCounts(h, s)
    BY <1>8, <2>1
  <2>3. g[d] = step[d][g[d - 1]]
    BY <1>6, <2>1 DEF Recursive
  <2> HIDE DEF d
  <2>4. /\ Assign(s, old(d), ref) \in Heaps /\ Balanced(Assign(s, old(d), ref), tal[d])
        /\ OnlyCounts(s, Assign(s, old(d), ref))
    <3>1. Balanced(s, tal[d - 1])
      BY <2>1, <2>2
    <3> HIDE DEF s
    <3> QED  BY <1>5, <2>1, <2>2, <3>1
  <2>5. g[d] = Assign(s, old(d), ref)
    BY <1>4, <2>1, <2>2, <2>3, <2>4
  <2>6. OnlyCounts(h, g[d])
    <3> HIDE DEF s
    <3> QED  BY <2>2, <2>4, <2>5, OnlyCountsTransitive
  <2>7. Good(d)
    BY <2>1, <2>4, <2>5, <2>6
  <2> QED  BY <2>7 DEF d
<1> HIDE DEF T, Good
<1>9. \A c \in Nat : c \in T
  BY <1>7, <1>8, Induction
<1>10. \A c \in 0..N : Good(c)
  BY <1>1, <1>9 DEF T
<1>11. g = Eq(g)
  <2>1. ASSUME NEW c \in 0..N PROVE g[c] = Eq(g)[c]
    <3>1. CASE c = 0
      BY <1>2, <1>6, <3>1 DEF Recursive
    <3>2. CASE c # 0
      <4>1. g[c] = Assign(g[c - 1], old(c), ref)
        BY <1>10, <3>2 DEF Good
      <4>2. Eq(g)[c] = IF c = 0 THEN h ELSE Assign(g[c - 1], old(c), ref)
        BY <1>2
      <4> QED  BY <3>2, <4>1, <4>2
    <3> QED  BY <3>1, <3>2
  <2>2. g = [c \in 0..N |-> g[c]]
    BY <1>6 DEF Recursive
  <2> QED  BY <1>3, <2>1, <2>2
<1>12. loaded = Eq(loaded)
  BY <1>11
<1> HIDE DEF loaded
<1>13. loaded[0] = h /\ \A c \in 1..N : loaded[c] = Assign(loaded[c - 1], old(c), ref)
  <2>1. \A c \in 0..N : loaded[c] = IF c = 0 THEN h ELSE Assign(loaded[c - 1], old(c), ref)
    BY <1>2, <1>12
  <2>2. loaded[0] = h
    <3>1. 0 \in 0..N
      BY <1>1
    <3>2. loaded[0] = IF 0 = 0 THEN h ELSE Assign(loaded[0 - 1], old(0), ref)
      BY <2>1, <3>1, Zenon
    <3> QED  BY <3>2
  <2>3. ASSUME NEW c \in 1..N PROVE loaded[c] = Assign(loaded[c - 1], old(c), ref)
    <3>1. c \in 0..N /\ c # 0
      BY <1>1
    <3>2. loaded[c] = IF c = 0 THEN h ELSE Assign(loaded[c - 1], old(c), ref)
      BY <2>1, <3>1, Zenon
    <3> QED  BY <3>1, <3>2
  <2> QED  BY <2>2, <2>3
<1>14. \A c \in 1..N : g[c] = Assign(g[c - 1], old(c), ref)
  <2> TAKE c \in 1..N
  <2>1. c \in 0..N /\ c # 0
    BY <1>1
  <2> QED  BY <1>10, <2>1 DEF Good
<1> DEFINE U == {c \in Nat : c <= N => loaded[c] = g[c]}
<1>15. 0 \in U
  BY <1>6, <1>13 DEF Recursive
<1>16. ASSUME NEW c \in Nat, c \in U PROVE c + 1 \in U
  <2> SUFFICES ASSUME c + 1 <= N PROVE loaded[c + 1] = g[c + 1]
    OBVIOUS
  <2> DEFINE d == c + 1
  <2>1. d \in 1..N /\ d - 1 = c /\ c <= N
    BY <1>1
  <2>2. loaded[c] = g[c]
    BY <1>16, <2>1
  <2> HIDE DEF d
  <2>3. loaded[d] = g[d]
    BY <1>13, <1>14, <2>1, <2>2
  <2> QED  BY <2>3 DEF d
<1> HIDE DEF U
<1>17. N \in U
  BY <1>1, <1>15, <1>16, Induction
<1>18. loaded[N] = g[N]
  BY <1>1, <1>17 DEF U
<1>19. N \in 0..N
  BY <1>1
<1>20. loaded[N] \in Heaps /\ Balanced(loaded[N], tal[N]) /\ OnlyCounts(h, loaded[N])
  BY <1>10, <1>18, <1>19 DEF Good
<1> QED  BY <1>0, <1>20 DEF N

LEMMA SlotChange ==
  ASSUME NEW k \in Nat, NEW f \in [1..k -> Nat], NEW g \in [1..k -> Nat], NEW i \in 1..k,
         \A j \in 1..k : j # i => g[j] = f[j], NEW a
  PROVE  Count(g, a) + Count(<<f[i]>>, a) = Count(f, a) + Count(<<g[i]>>, a)
<1>1. f \in Seq(Nat) /\ g \in Seq(Nat) /\ Len(f) = k /\ Len(g) = k
  OBVIOUS
<1> DEFINE u == Ones(f, a)
           v == Ones(g, a)
<1>2. /\ u \in [1..k -> Int] /\ \A j \in 1..k : u[j] = IF f[j] = a THEN 1 ELSE 0
      /\ v \in [1..k -> Int] /\ \A j \in 1..k : v[j] = IF g[j] = a THEN 1 ELSE 0
  <2>1. u \in [1..Len(f) -> Int] /\ \A j \in 1..Len(f) : u[j] = IF f[j] = a THEN 1 ELSE 0
    BY <1>1, OnesFacts, SMTT(30)
  <2>2. v \in [1..Len(g) -> Int] /\ \A j \in 1..Len(g) : v[j] = IF g[j] = a THEN 1 ELSE 0
    <3>1. g \in Seq(Nat)
      BY <1>1
    <3>2. \A s \in Seq(Nat) : /\ Ones(s, a) \in [1..Len(s) -> Int]
                              /\ \A j \in 1..Len(s) : Ones(s, a)[j] = IF s[j] = a THEN 1 ELSE 0
      BY OnesFacts
    <3> QED  BY ONLY <3>1, <3>2
  <2> QED  BY <1>1, <2>1, <2>2
<1>3. Count(f, a) = Total(u) /\ Count(g, a) = Total(v) /\ Count(f, a) \in Nat /\ Count(g, a) \in Nat
  BY <1>1, CountIsTotal
<1>4. f[i] \in Nat /\ g[i] \in Nat
  OBVIOUS
<1>5. Count(<<f[i]>>, a) = u[i] /\ Count(<<g[i]>>, a) = v[i] /\ u[i] \in Int /\ v[i] \in Int
  BY <1>2, <1>4, CountOne
<1>6. \A j \in 1..k : j # i => u[j] = v[j]
  BY <1>2
<1> HIDE DEF u, v
<1>7. Total(v) = Total(u) + (v[i] - u[i])
  BY <1>2, <1>6, TotalChange
<1> QED  BY <1>3, <1>5, <1>7, SMTT(30)

\* When only one reference of the out cursor changes
LEMMA OutSlot ==
  ASSUME NEW k, NEW p, NEW ch, NEW o, NEW pa, NEW t, NEW rs, NEW res, NEW hs, NEW y,
         Places(k, p, ch, o, pa, t, rs, res, hs), Places(k, p, ch, y, pa, t, rs, res, hs),
         NEW i \in 1..(1 + NChildren), \A j \in 1..(1 + NChildren) : j # i => y.refs[j] = o.refs[j],
         NEW a \in Addresses
  PROVE  /\ o.refs[i] \in Nat /\ y.refs[i] \in Nat
         /\ Shares(k, p, ch, y, pa, t, rs, res, hs)[a] + Count(<<o.refs[i]>>, a) =
              Shares(k, p, ch, o, pa, t, rs, res, hs)[a] + Count(<<y.refs[i]>>, a)
<1> DEFINE N == 1 + NChildren
           old == Shares(k, p, ch, o, pa, t, rs, res, hs)[a]
           new == Shares(k, p, ch, y, pa, t, rs, res, hs)[a]
           co == Count(o.refs, a)
           cy == Count(y.refs, a)
           bo == Count(<<o.refs[i]>>, a)
           by == Count(<<y.refs[i]>>, a)
<1>1. N \in Nat /\ o.refs \in [1..N -> Nat] /\ y.refs \in [1..N -> Nat]
  BY RowFacts, ParentChildAssumption, SMTT(30) DEF Places
<1>2. o.refs[i] \in Nat /\ y.refs[i] \in Nat
  BY <1>1
<1>3. cy + bo = co + by
  BY <1>1, SlotChange
<1>4. new + co = old + cy
  BY OutShare
<1>5. old \in Nat /\ new \in Nat /\ co \in Nat /\ cy \in Nat
  BY SharesBound, SharesFacts
<1>6. bo \in Nat /\ by \in Nat
  BY <1>2, CountOneNat
<1> HIDE DEF old, new, co, cy, bo, by
<1>7. new + bo = old + by
  BY ONLY <1>3, <1>4, <1>5, <1>6
<1> QED  BY <1>2, <1>7 DEF old, new, bo, by

KeyAfter(k, r, c) == [d \in Children |-> IF d <= c THEN r ELSE k[d]]

LEMMA KeyAfterFacts ==
  ASSUME NEW k \in [Children -> RowOf(1)], NEW r \in RowOf(1)
  PROVE  /\ \A c \in 0..NChildren : KeyAfter(k, r, c) \in [Children -> RowOf(1)]
         /\ KeyAfter(k, r, 0) = k /\ KeyAfter(k, r, NChildren) = [d \in Children |-> r]
         /\ \A c \in 1..NChildren : /\ c \in Children /\ c \in 0..NChildren /\ c - 1 \in 0..NChildren
                                    /\ KeyAfter(k, r, c - 1)[c] = k[c] /\ KeyAfter(k, r, c)[c] = r
                                    /\ \A d \in Children : d # c => KeyAfter(k, r, c)[d] = KeyAfter(k, r, c - 1)[d]
<1>1. NChildren \in Nat /\ Children = 1..NChildren
  BY ParentChildAssumption DEF Children
<1>2. \A c : \A d \in Children : KeyAfter(k, r, c)[d] = IF d <= c THEN r ELSE k[d]
  BY DEF KeyAfter
<1>3. \A c \in 0..NChildren : KeyAfter(k, r, c) \in [Children -> RowOf(1)]
  BY DEF KeyAfter
<1>4. KeyAfter(k, r, 0) = k /\ KeyAfter(k, r, NChildren) = [d \in Children |-> r]
  BY <1>1 DEF KeyAfter
<1>5. \A c \in 1..NChildren : c \in Children /\ c \in 0..NChildren /\ c - 1 \in 0..NChildren
  BY <1>1
<1>6. \A c \in 1..NChildren : /\ KeyAfter(k, r, c - 1)[c] = k[c] /\ KeyAfter(k, r, c)[c] = r
                              /\ \A d \in Children : d # c => KeyAfter(k, r, c)[d] = KeyAfter(k, r, c - 1)[d]
  BY <1>1, <1>2
<1> QED  BY <1>3, <1>4, <1>5, <1>6

\* Every key takes the reference of the parent's row.
LEMMA KeysLoaded ==
  ASSUME NEW k, NEW p, NEW ch, NEW o, NEW pa, NEW t, NEW rs, NEW res, NEW hs,
         Places(k, p, ch, o, pa, t, rs, res, hs), NEW r \in RowOf(1), r.refs = pa.refs,
         NEW h \in Heaps, Balanced(h, Shares(k, p, ch, o, pa, t, rs, res, hs))
  PROVE  LET y == [d \in Children |-> r]
             g == LoadEach(h, k, pa.refs[1])
         IN  /\ Places(y, p, ch, o, pa, t, rs, res, hs)
             /\ g \in Heaps /\ OnlyCounts(h, g)
             /\ Balanced(g, Shares(y, p, ch, o, pa, t, rs, res, hs))
<1> DEFINE b == pa.refs[1]
           K(c) == KeyAfter(k, r, c)
           S(c) == Shares(K(c), p, ch, o, pa, t, rs, res, hs)
           tal == [c \in 0..NChildren |-> S(c)]
<1>1. k \in [Children -> RowOf(1)] /\ pa \in RowOf(1)
  BY DEF Places
<1>2. b \in Nat /\ r.refs = <<b>> /\ pa.refs = <<b>>
  BY <1>1, RowOfOne
<1>3. /\ \A c \in 0..NChildren : K(c) \in [Children -> RowOf(1)]
      /\ K(0) = k /\ K(NChildren) = [d \in Children |-> r]
      /\ \A c \in 1..NChildren : /\ c \in Children /\ c \in 0..NChildren /\ c - 1 \in 0..NChildren
                                 /\ K(c - 1)[c] = k[c] /\ K(c)[c] = r
                                 /\ \A d \in Children : d # c => K(c)[d] = K(c - 1)[d]
  BY <1>1, KeyAfterFacts
<1>4. NChildren \in 0..NChildren /\ 0 \in 0..NChildren
  BY ParentChildAssumption
<1> HIDE DEF K
<1>5. ASSUME NEW c \in 0..NChildren PROVE Places(K(c), p, ch, o, pa, t, rs, res, hs)
  BY <1>3 DEF Places
<1>6. ASSUME NEW c \in 0..NChildren
      PROVE  S(c) \in Tallies /\ \A a \in Addresses : S(c)[a] \in Nat /\ Count(pa.refs, a) <= S(c)[a]
  BY <1>5, SharesFacts, SharesBound
<1>7. ASSUME NEW c \in 1..NChildren, NEW a \in Addresses
      PROVE  S(c)[a] + Count(<<k[c].refs[1]>>, a) = S(c - 1)[a] + Count(<<b>>, a)
  <2>1. Places(K(c), p, ch, o, pa, t, rs, res, hs) /\ Places(K(c - 1), p, ch, o, pa, t, rs, res, hs) /\ c \in Children
        /\ \A d \in Children : d # c => K(c)[d] = K(c - 1)[d]
    BY <1>3, <1>5
  <2>2. S(c)[a] + Count(K(c - 1)[c].refs, a) = S(c - 1)[a] + Count(K(c)[c].refs, a)
    BY <2>1, KeyShare
  <2>3. k[c].refs = <<k[c].refs[1]>>
    BY <1>1, <2>1, RowOfOne
  <2> QED  BY <1>2, <1>3, <2>2, <2>3
<1>8. /\ tal \in [0..NChildren -> Tallies] /\ tal[0] = S(0) /\ tal[NChildren] = S(NChildren)
      /\ \A c \in 1..NChildren : tal[c] = S(c) /\ tal[c - 1] = S(c - 1)
      /\ \A c \in 0..NChildren : tal[c] = S(c)
  <2>1. \A c \in 0..NChildren : S(c) \in Tallies
    BY <1>6
  <2> HIDE DEF S
  <2> QED  BY <1>3, <1>4, <2>1
<1>9. \A c \in 1..NChildren : \A a \in Addresses :
        tal[c][a] + Count(<<k[c].refs[1]>>, a) = tal[c - 1][a] + Count(<<b>>, a)
  <2> HIDE DEF S, tal, b
  <2> QED  BY <1>7, <1>8
<1>10. \A c \in 0..NChildren : b \in Addresses => tal[c][b] # 0
  <2> TAKE c \in 0..NChildren
  <2> HAVE b \in Addresses
  <2>1. Count(pa.refs, b) = 1
    BY <1>2, CountOne
  <2>2. S(c)[b] \in Nat /\ Count(pa.refs, b) <= S(c)[b]
    BY <1>6
  <2> HIDE DEF S, tal, b
  <2> QED  BY <1>8, <2>1, <2>2
<1>11. Balanced(h, tal[0])
  <2>1. S(0) = Shares(k, p, ch, o, pa, t, rs, res, hs)
    BY <1>3
  <2> HIDE DEF S, tal
  <2> QED  BY <1>8, <2>1
<1>12. S(NChildren) = Shares([d \in Children |-> r], p, ch, o, pa, t, rs, res, hs)
  BY <1>3
<1>13. Places([d \in Children |-> r], p, ch, o, pa, t, rs, res, hs)
  BY <1>3, <1>4, <1>5
<1> DEFINE g == LoadEach(h, k, b)
<1> HIDE DEF S, tal, b
<1>14. g \in Heaps /\ Balanced(g, tal[NChildren]) /\ OnlyCounts(h, g)
  BY <1>1, <1>2, <1>8, <1>9, <1>10, <1>11, LoadBalanced
<1> HIDE DEF g
<1>15. Balanced(g, Shares([d \in Children |-> r], p, ch, o, pa, t, rs, res, hs))
  BY <1>8, <1>12, <1>14
<1> QED  BY <1>13, <1>14, <1>15 DEF g, b

LEMMA LoadKeysKeeps ==
  ASSUME IInv, LoadKeys
  PROVE  IInv' /\ Grows(heap, heap', Null)
<1> DEFINE ref == parent.refs[1]
           r == Row(0, parent.refs)
           y == Row(parent.n, [out.refs EXCEPT ![1] = ref])
           k == [c \in Children |-> r]
           mid == LoadEach(heap, key, ref)
           old == out.refs[1]
           g == Assign(mid, old, ref)
           n == Shares(k, partition, child, out, parent, tmp, rows, result, held)
           m == Tally'
<1>1. /\ TypeOK /\ Control /\ heap \in Heaps /\ Tally \in Tallies /\ Balanced(heap, Tally)
      /\ Places(key, partition, child, out, parent, tmp, rows, result, held)
      /\ PartitionsThere(heap, partition) /\ ResultThere(heap, result)
  BY Before
<1>2. /\ at.do = "load_keys" /\ heap' = g /\ key' = k /\ out' = y
      /\ at' = [do |-> "extract", c |-> 1]
      /\ UNCHANGED << tables, partition, child, parent, tmp, rows, served, result, held >>
  BY DEF LoadKeys, Stmt
<1>3. /\ parent \in RowOf(1) /\ out \in RowOf(1 + NChildren) /\ NChildren \in Nat /\ 1 + NChildren \in Nat
      /\ 1 \in 1..(1 + NChildren) /\ 1 \in Children
  BY <1>1, ParentChildAssumption DEF TypeOK, Children
<1>4. ref \in Nat /\ parent.refs = <<ref>> /\ parent.n \in Nat
  BY <1>3, RowOfOne DEF RowOf
<1>5. r \in RowOf(1) /\ r.refs = parent.refs
  <2>1. Row(0, <<ref>>) \in RowOf(1) /\ Row(0, <<ref>>).refs = <<ref>>
    BY <1>4, RowMade
  <2> QED  BY <1>4, <2>1
<1>6. y \in RowOf(1 + NChildren) /\ y.refs[1] = ref /\ \A j \in 1..(1 + NChildren) : j # 1 => y.refs[j] = out.refs[j]
  BY <1>3, <1>4 DEF Row, RowOf
<1>7. /\ Places(k, partition, child, out, parent, tmp, rows, result, held)
      /\ mid \in Heaps /\ OnlyCounts(heap, mid) /\ Balanced(mid, n)
  <2>1. Balanced(heap, Shares(key, partition, child, out, parent, tmp, rows, result, held))
    BY <1>1 DEF Tally
  <2>2. Places(key, partition, child, out, parent, tmp, rows, result, held) /\ heap \in Heaps
    BY <1>1
  <2> HIDE DEF r
  <2> QED  BY ONLY <1>5, <2>1, <2>2, KeysLoaded
<1> HIDE DEF r, y, k, mid, g
<1>8. n \in Tallies /\ \A a \in Addresses : n[a] \in Nat /\ Count(parent.refs, a) <= n[a]
  BY <1>7, SharesFacts, SharesBound
<1>9. Places(k, partition, child, y, parent, tmp, rows, result, held)
  BY <1>6, <1>7 DEF Places
<1>10. m = Shares(k, partition, child, y, parent, tmp, rows, result, held) /\ m \in Tallies
  BY <1>2, <1>9, SharesFacts DEF Tally
<1>11. old \in Nat /\ \A a \in Addresses : m[a] + Count(<<old>>, a) = n[a] + Count(<<ref>>, a)
  <2>1. old \in Nat
    BY <1>3, RowFacts
  <2>2. ASSUME NEW a \in Addresses PROVE m[a] + Count(<<old>>, a) = n[a] + Count(<<ref>>, a)
    <3>1. Shares(k, partition, child, y, parent, tmp, rows, result, held)[a] + Count(<<out.refs[1]>>, a)
          = Shares(k, partition, child, out, parent, tmp, rows, result, held)[a] + Count(<<y.refs[1]>>, a)
      BY <1>3, <1>6, <1>7, <1>9, OutSlot
    <3> QED  BY <1>6, <1>10, <3>1
  <2> QED  BY <2>1, <2>2
<1>12. ref # Null => RefsAt(mid, ref) > 0
  <2> SUFFICES ASSUME ref # Null PROVE RefsAt(mid, ref) > 0
    OBVIOUS
  <2>1. ref \in Addresses => n[ref] # 0
    <3>1. Count(<<ref>>, ref) = 1
      BY <1>4, CountOne
    <3> QED  BY <1>4, <1>8, <3>1
  <2> HIDE DEF n, ref
  <2> QED  BY <1>4, <1>7, <1>8, <2>1, HeldAlive
<1>13. g \in Heaps /\ Balanced(g, m) /\ OnlyCounts(mid, g)
  <2> HIDE DEF n, m, ref, old
  <2> QED  BY <1>4, <1>7, <1>8, <1>10, <1>11, <1>12, AssignBalanced DEF g
<1>14. Kept(heap, g) /\ OnlyCounts(heap, g)
  <2>1. OnlyCounts(heap, g)
    BY <1>1, <1>7, <1>13, OnlyCountsTransitive
  <2> QED  BY <1>1, <2>1, OnlyCountsFacts
<1>15. TypeOK'
  <2>1. k \in [Children -> RowOf(1)]
    BY <1>7 DEF Places
  <2> QED  BY <1>1, <1>2, <1>3, <1>6, <1>13, <2>1 DEF TypeOK, ChildSteps
<1>16. Control'
  BY <1>1, <1>2, <1>13, <1>14, LateControl
<1>17. Grows(heap, heap', Null)
  BY <1>1, <1>2, <1>14, OnlyCountsGrow
<1> QED  BY <1>2, <1>13, <1>15, <1>16, <1>17, After DEF m

LEMMA ExtractKeeps ==
  ASSUME IInv, NEW c \in Children, Extract(c)
  PROVE  /\ IInv'
         /\ LET e == ExtractPartition(heap, partition[c], key[c]) IN
            /\ e.set \in Addresses /\ e.heap \in Heaps /\ OnlyCounts(e.heap, heap')
            /\ partition[c] \in 1..Len(heap)
            /\ out' = [out EXCEPT !.refs[1 + c] = e.set]
<1> DEFINE p == partition[c]
           e == ExtractPartition(heap, p, key[c])
           x == e.set
           f == e.heap
           h == Release(f, <<tmp[c]>>)
           i == 1 + c
           old == out.refs[i]
           g == Assign(h, old, x)
           y == [out EXCEPT !.refs[i] = x]
           u == [tmp EXCEPT ![c] = x]
           m1 == [a \in Addresses |-> Tally[a] + Count(<<x>>, a)]
           m2 == Shares(key, partition, child, out, parent, u, rows, result, held)
           m == Tally'
<1>1. /\ TypeOK /\ Control /\ heap \in Heaps /\ Tally \in Tallies /\ Balanced(heap, Tally)
      /\ Places(key, partition, child, out, parent, tmp, rows, result, held)
      /\ PartitionsThere(heap, partition) /\ ResultThere(heap, result)
  BY Before
<1>2. /\ at = [do |-> "extract", c |-> c] /\ at.do = "extract" /\ heap' = g /\ tmp' = u /\ out' = y
      /\ at' = IF c < NChildren THEN [do |-> "extract", c |-> c + 1] ELSE [do |-> "out_union", c |-> 0]
      /\ UNCHANGED << tables, partition, key, child, parent, rows, served, result, held >>
  BY DEF Extract, Stmt
<1>3. /\ out \in RowOf(1 + NChildren) /\ NChildren \in Nat /\ 1 + NChildren \in Nat /\ c \in Nat /\ c <= NChildren
      /\ i \in 1..(1 + NChildren) /\ tmp \in [Children -> Nat] /\ partition \in [Children -> Nat] /\ Children = 1..NChildren
      /\ tmp[c] \in Nat /\ p \in Nat
  BY <1>1, ParentChildAssumption, SMTT(30) DEF TypeOK, Children
<1>4. p # Null /\ heap[p].kind = "partition"
  BY <1>1, <1>2, <1>3 DEF Control, Made, PartitionsThere
<1>5. p \in 1..Len(heap) /\ heap[p].refs > 0
  <2>1. p \in Addresses => Tally[p] # 0
    BY <1>1, SharesBound DEF Tally
  <2> HIDE DEF p
  <2> QED  BY <1>1, <1>3, <1>4, <2>1, HeldAlive
<1>6. /\ x \in Addresses /\ f \in Heaps /\ Kept(heap, f)
      /\ \A k \in Tallies : Joins(k, Tally, <<x>>) => Balanced(f, k)
  BY <1>1, <1>4, <1>5, ExtractBalanced
<1> HIDE DEF e, p, i
<1>7. x \in Nat /\ x # Null /\ \A a \in Addresses : Count(<<x>>, a) \in Nat /\ Tally[a] \in Nat
  BY <1>1, <1>6, CountOneNat DEF Addresses, Null, Tallies
<1>8. m1 \in Tallies /\ (\A a \in Addresses : m1[a] = Tally[a] + Count(<<x>>, a)) /\ Joins(m1, Tally, <<x>>)
  BY <1>7 DEF Tallies, Joins
<1> HIDE DEF m1, x, f
<1>9. Balanced(f, m1)
  BY <1>6, <1>8
<1>10. u \in [Children -> Nat] /\ u[c] = x /\ \A d \in Children : d # c => u[d] = tmp[d]
  BY <1>3, <1>7
<1> HIDE DEF u
<1>11. Places(key, partition, child, out, parent, u, rows, result, held)
  BY <1>1, <1>10 DEF Places
<1>12. m2 \in Tallies
  BY <1>11, SharesFacts
<1>13. \A a \in Addresses : m2[a] + Count(<<tmp[c]>>, a) = Tally[a] + Count(<<x>>, a)
  <2> TAKE a \in Addresses
  <2>1. Shares(key, partition, child, out, parent, u, rows, result, held)[a] + Count(<<tmp[c]>>, a)
        = Shares(key, partition, child, out, parent, tmp, rows, result, held)[a] + Count(<<u[c]>>, a)
    BY <1>1, <1>10, <1>11, TmpShare
  <2> QED  BY <1>10, <2>1 DEF Tally
<1> HIDE DEF m2
<1>14. Joins(m1, m2, <<tmp[c]>>)
  BY <1>8, <1>13 DEF Joins
<1>15. h \in Heaps /\ Balanced(h, m2) /\ OnlyCounts(f, h)
  <2>1. <<tmp[c]>> \in Seq(Nat)
    BY <1>3
  <2> QED  BY <1>6, <1>8, <1>9, <1>12, <1>14, <2>1, ReleaseBalanced
<1> HIDE DEF h
<1>16. y \in RowOf(1 + NChildren) /\ y.refs[i] = x /\ \A j \in 1..(1 + NChildren) : j # i => y.refs[j] = out.refs[j]
  <2>1. out \in RowOf(1 + NChildren) /\ i \in 1..(1 + NChildren) /\ x \in Nat
    BY <1>3, <1>7
  <2> QED  BY ONLY <2>1 DEF RowOf
<1> HIDE DEF y
<1>17. Places(key, partition, child, y, parent, u, rows, result, held)
  BY <1>11, <1>16 DEF Places
<1>18. m = Shares(key, partition, child, y, parent, u, rows, result, held) /\ m \in Tallies
  BY <1>2, <1>17, SharesFacts DEF Tally
<1>19. old \in Nat /\ \A a \in Addresses : m[a] + Count(<<old>>, a) = m2[a] + Count(<<x>>, a)
  <2>1. old \in Nat
    BY <1>3, RowFacts
  <2>2. ASSUME NEW a \in Addresses PROVE m[a] + Count(<<old>>, a) = m2[a] + Count(<<x>>, a)
    <3>1. Shares(key, partition, child, y, parent, u, rows, result, held)[a] + Count(<<out.refs[i]>>, a)
          = Shares(key, partition, child, out, parent, u, rows, result, held)[a] + Count(<<y.refs[i]>>, a)
      <4>1. i \in 1..(1 + NChildren) /\ \A j \in 1..(1 + NChildren) : j # i => y.refs[j] = out.refs[j]
        BY <1>3, <1>16
      <4> QED  BY ONLY <1>11, <1>17, <2>2, <4>1, OutSlot
    <3> QED  BY <1>16, <1>18, <3>1 DEF m2
  <2> QED  BY <2>1, <2>2
<1> HIDE DEF m, old
<1>20. x # Null => RefsAt(h, x) > 0
  <2>1. m2[x] # 0
    <3>1. \A a \in Addresses : m2[a] \in Nat
      BY <1>12 DEF Tallies
    <3>2. x = u[c]
      BY <1>10
    <3>3. x \in Addresses
      BY <1>6
    <3>4. u[c] = x => m2[x] # 0
      BY <1>11, <3>3, SharesBound DEF m2
    <3> QED  BY <3>2, <3>4
  <2> QED  BY <1>7, <1>12, <1>15, <2>1, HeldAlive
<1>21. g \in Heaps /\ Balanced(g, m) /\ OnlyCounts(h, g)
  BY <1>7, <1>12, <1>15, <1>18, <1>19, <1>20, AssignBalanced
<1> HIDE DEF g
<1>22. Kept(heap, g)
  <2>1. OnlyCounts(f, g)
    BY <1>15, <1>21, <1>6, OnlyCountsTransitive
  <2>2. Kept(f, g)
    BY <1>6, <2>1, OnlyCountsFacts
  <2> QED  BY <1>1, <1>6, <1>21, <2>2, KeptTransitive
<1>23. TypeOK'
  <2>1. at' \in [do : ChildSteps, c : Children] \cup [do : OtherSteps, c : {0}]
    BY <1>2, <1>3 DEF ChildSteps, OtherSteps
  <2> QED  BY <1>1, <1>2, <1>10, <1>16, <1>21, <2>1 DEF TypeOK
<1>24. Control'
  <2>1. at'.do \in {"extract", "out_union"}
    BY <1>2
  <2> QED  BY <1>1, <1>2, <1>21, <1>22, <2>1, LateControl
<1>25. OnlyCounts(f, g)
  BY <1>6, <1>15, <1>21, OnlyCountsTransitive
<1>26. IInv'
  BY <1>2, <1>21, <1>23, <1>24, After DEF m
<1>27. x \in Addresses /\ f \in Heaps /\ OnlyCounts(f, heap') /\ p \in 1..Len(heap) /\ out' = [out EXCEPT !.refs[1 + c] = x]
  BY <1>2, <1>5, <1>6, <1>25 DEF y, i
<1> QED  BY <1>26, <1>27 DEF x, f, e, p

LEMMA OutUnionKeeps ==
  ASSUME IInv, OutUnion
  PROVE  IInv' /\ Grows(heap, heap', Null)
<1> DEFINE g == Retain(heap, out.refs)
           y == Append(rows, out)
           m == Tally'
<1>1. /\ TypeOK /\ Control /\ heap \in Heaps /\ Tally \in Tallies /\ Balanced(heap, Tally)
      /\ Places(key, partition, child, out, parent, tmp, rows, result, held)
      /\ PartitionsThere(heap, partition) /\ ResultThere(heap, result)
  BY Before
<1>2. /\ at.do = "out_union" /\ heap' = g /\ rows' = y /\ at' = [do |-> "fetch_parent", c |-> 0]
      /\ UNCHANGED << tables, partition, key, child, parent, out, tmp, served, result, held >>
  BY DEF OutUnion, Stmt
<1>3. /\ out \in RowOf(1 + NChildren) /\ 1 + NChildren \in Nat /\ rows \in Seq(RowOf(1 + NChildren))
      /\ y \in Seq(RowOf(1 + NChildren))
  BY <1>1, ParentChildAssumption DEF TypeOK
<1>4. out.refs \in Seq(Nat) /\ out \in AnyRow /\ rows \in Seq(AnyRow)
  BY <1>3, RowFacts, WideRows
<1>5. \A a \in Addresses : Count(RowRefs(y), a) = Count(RowRefs(rows), a) + Count(out.refs, a)
  BY <1>4, RowRefsMore
<1> HIDE DEF y
<1>6. Places(key, partition, child, out, parent, tmp, y, result, held)
  BY <1>1, <1>3 DEF Places
<1>7. m = Shares(key, partition, child, out, parent, tmp, y, result, held) /\ m \in Tallies
  BY <1>2, <1>6, SharesFacts DEF Tally
<1>8. \A a \in Addresses : Count(RowRefs(rows), a) \in Nat /\ Count(out.refs, a) \in Nat
                           /\ Count(out.refs, a) <= Tally[a] /\ Tally[a] \in Nat
  BY <1>1, SharesFacts, SharesBound DEF Tally
<1>9. Joins(m, Tally, out.refs)
  <2> SUFFICES ASSUME NEW a \in Addresses PROVE m[a] = Tally[a] + Count(out.refs, a)
    BY DEF Joins
  <2>1. Shares(key, partition, child, out, parent, tmp, y, result, held)[a] + Count(RowRefs(rows), a)
        = Shares(key, partition, child, out, parent, tmp, rows, result, held)[a] + Count(RowRefs(y), a)
    BY <1>1, <1>6, RowsShare
  <2>2. m[a] + Count(RowRefs(rows), a) = Tally[a] + Count(RowRefs(y), a)
    BY <1>7, <2>1 DEF Tally
  <2>3. m[a] \in Nat /\ Tally[a] \in Nat
    BY <1>7, <1>8 DEF Tallies
  <2> HIDE DEF m
  <2> QED  BY <1>5, <1>8, <2>2, <2>3
<1> HIDE DEF m
<1>10. Alive(heap, out.refs)
  <2> SUFFICES ASSUME NEW a \in Addresses, Count(out.refs, a) # 0 PROVE RefsAt(heap, a) > 0
    BY DEF Alive
  <2>1. Tally[a] # 0 /\ a \in Nat /\ a # Null
    BY <1>8 DEF Addresses, Null
  <2> QED  BY <1>1, <2>1, HeldAlive
<1>11. g \in Heaps /\ Balanced(g, m) /\ OnlyCounts(heap, g)
  BY <1>1, <1>4, <1>7, <1>9, <1>10, RetainBalanced
<1> HIDE DEF g
<1>12. Kept(heap, g)
  BY <1>1, <1>11, OnlyCountsFacts
<1>13. TypeOK'
  BY <1>1, <1>2, <1>3, <1>11 DEF TypeOK, OtherSteps
<1>14. Control'
  BY <1>1, <1>2, <1>11, <1>12, LateControl
<1>15. Grows(heap, heap', Null)
  BY <1>1, <1>2, <1>11, OnlyCountsGrow
<1> QED  BY <1>2, <1>11, <1>13, <1>14, <1>15, After DEF m

\* The buffer becomes the result set, or is given back.
LEMMA DeliveredBalanced ==
  ASSUME IInv, at.do # "returned", NEW none, none = << >>, NEW res,
         res = IF at = Stmt("finish") THEN Len(heap) + 1 ELSE Null
  PROVE  /\ Grows(heap, Delivered, Null) /\ (res # Null => res \in DOMAIN Delivered /\ Delivered[res].rows = rows)
         /\ res \in Nat /\ Delivered \in Heaps /\ Kept(heap, Delivered) /\ ResultThere(Delivered, res)
         /\ Places(key, partition, child, out, parent, tmp, none, res, held)
         /\ Balanced(Delivered, Shares(key, partition, child, out, parent, tmp, none, res, held))
<1> DEFINE m1 == Shares(key, partition, child, out, parent, tmp, none, result, held)
           m2 == Shares(key, partition, child, out, parent, tmp, none, res, held)
<1>1. /\ TypeOK /\ Control /\ heap \in Heaps /\ Tally \in Tallies /\ Balanced(heap, Tally)
      /\ Places(key, partition, child, out, parent, tmp, rows, result, held)
      /\ Len(heap) \in Nat /\ DOMAIN heap = 1..Len(heap)
  BY Before, HeapFacts
<1>2. result = Null /\ held = {}
  BY <1>1, NothingDelivered
<1>3. none \in Seq(RowOf(1 + NChildren)) /\ \A a : RowRefs(none) = << >> /\ Count(RowRefs(none), a) = 0
  BY RowRefsFew, CountFacts
<1>4. res \in Nat
  BY <1>1 DEF Null
<1>5. /\ rows \in Seq(RowOf(1 + NChildren)) /\ 1 + NChildren \in Nat
  BY <1>1, ParentChildAssumption DEF TypeOK
<1>6. rows \in Seq(AnyRow) /\ RowRefs(rows) \in Seq(Nat)
  BY <1>5, WideRows
<1>7. /\ Places(key, partition, child, out, parent, tmp, none, result, held)
      /\ Places(key, partition, child, out, parent, tmp, none, res, held)
  BY <1>1, <1>3, <1>4 DEF Places
<1>8. m1 \in Tallies /\ m2 \in Tallies
  BY <1>7, SharesFacts
<1>9. \A a \in Addresses : /\ m1[a] \in Nat /\ m2[a] \in Nat /\ Tally[a] \in Nat
                           /\ Count(RowRefs(rows), a) \in Nat /\ Count(<<res>>, a) \in Nat
  <2>1. \A a \in Addresses : m1[a] \in Nat /\ m2[a] \in Nat /\ Tally[a] \in Nat
    <3> HIDE DEF m1, m2
    <3> QED  BY <1>1, <1>8 DEF Tallies
  <2> QED  BY <1>4, <1>6, <2>1, CountNat, CountOneNat
<1>10. \A a \in Addresses : m1[a] + Count(RowRefs(rows), a) = Tally[a]
  <2> TAKE a \in Addresses
  <2>1. m1[a] + Count(RowRefs(rows), a) = Tally[a] + Count(RowRefs(none), a)
    BY <1>1, <1>7, RowsShare DEF Tally
  <2> HIDE DEF m1
  <2> QED  BY <1>3, <1>9, <2>1
<1>11. \A a \in Addresses : m2[a] = m1[a] + Count(<<res>>, a)
  <2> TAKE a \in Addresses
  <2>1. m2[a] + Count(<<result>>, a) = m1[a] + Count(<<res>>, a)
    BY <1>7, ResultShare
  <2>2. Count(<<Null>>, a) = 0
    BY CountOne DEF Null, Addresses
  <2> HIDE DEF m1, m2
  <2> QED  BY <1>2, <1>9, <2>1, <2>2
<1> HIDE DEF m1, m2
<1>12. CASE at = Stmt("finish")
  <2> DEFINE o == Object("set", NoKey, rows, << >>)
             g == New(heap, o)
  <2>1. res = Len(heap) + 1 /\ Delivered = g
    BY <1>12 DEF Delivered
  <2>2. o \in Objects /\ o.refs = 1 /\ \A a \in Addresses : Count(Owned(o), a) = Count(RowRefs(rows), a)
    BY <1>6, SetMade
  <2>3. o.rows = rows
    BY DEF Object
  <2> HIDE DEF o
  <2>4. \A a \in Addresses : m2[a] + Count(Owned(o), a) = Tally[a] + Count(<<Len(heap) + 1>>, a)
    <3> TAKE a \in Addresses
    <3>1. m2[a] = m1[a] + Count(<<res>>, a) /\ m1[a] + Count(RowRefs(rows), a) = Tally[a]
      BY <1>10, <1>11
    <3>2. Count(Owned(o), a) = Count(RowRefs(rows), a) /\ res = Len(heap) + 1
      BY <2>1, <2>2
    <3> QED  BY <1>9, <3>1, <3>2
  <2>5. g \in Heaps /\ Len(g) = Len(heap) + 1 /\ Balanced(g, m2) /\ Kept(heap, g)
    BY <1>1, <1>8, <2>2, <2>4, NewBalanced
  <2>6. g[Len(heap) + 1] = o
    BY <1>1 DEF New, Heaps
  <2>8. Grows(heap, g, Null)
    BY <1>1, <2>2, NewGrows
  <2> HIDE DEF g
  <2>9. res \in DOMAIN g /\ g[res].rows = rows
    BY <1>1, <2>1, <2>3, <2>5, <2>6, HeapFacts
  <2>7. ResultThere(g, res)
    BY <1>1, <1>5, <2>1, <2>3, <2>5, <2>6, HeapFacts DEF ResultThere
  <2> QED  BY <1>4, <1>7, <2>1, <2>5, <2>7, <2>8, <2>9 DEF m2
<1>13. CASE at # Stmt("finish")
  <2> DEFINE g == Release(heap, RowRefs(rows))
  <2>1. res = Null /\ Delivered = g
    BY <1>13 DEF Delivered
  <2>2. \A a \in Addresses : m2[a] = m1[a]
    <3> TAKE a \in Addresses
    <3>1. Count(<<Null>>, a) = 0
      BY CountOne DEF Null, Addresses
    <3> QED  BY <1>9, <1>11, <2>1, <3>1
  <2>3. Joins(Tally, m2, RowRefs(rows))
    BY <1>10, <2>2 DEF Joins
  <2>4. g \in Heaps /\ Balanced(g, m2) /\ OnlyCounts(heap, g)
    BY <1>1, <1>6, <1>8, <2>3, ReleaseBalanced
  <2> HIDE DEF g
  <2>5. Kept(heap, g) /\ ResultThere(g, res) /\ Grows(heap, g, Null)
    BY <1>1, <2>1, <2>4, OnlyCountsFacts, OnlyCountsGrow DEF ResultThere
  <2> QED  BY <1>4, <1>7, <2>1, <2>4, <2>5 DEF m2
<1> QED  BY <1>12, <1>13

LEMMA CleanUpKeeps ==
  ASSUME IInv, CleanUp
  PROVE  /\ IInv' /\ Grows(heap, heap', Null)
         /\ result' = IF at = Stmt("finish") THEN Len(heap) + 1 ELSE Null
         /\ result' # Null => result' \in DOMAIN heap' /\ heap'[result'].rows = rows
<1> DEFINE none == << >>
           ks == [c \in Children |-> EmptyRow(1)]
           ps == [c \in Children |-> Null]
           pa == EmptyRow(1)
           o == EmptyRow(1 + NChildren)
           res == IF at = Stmt("finish") THEN Len(heap) + 1 ELSE Null
           due == LocalsOf(key, partition, child, out, parent, tmp)
           h == Delivered
           g == Release(h, due)
           m1 == Shares(key, partition, child, out, parent, tmp, none, res, held)
           m == Shares(ks, ps, ks, o, pa, ps, none, res, held)
<1>1. TypeOK /\ Control /\ Places(key, partition, child, out, parent, tmp, rows, result, held)
  BY Before
<1>2. /\ at.do # "returned" /\ heap' = g /\ result' = res /\ rows' = none /\ partition' = ps /\ key' = ks
      /\ child' = ks /\ parent' = pa /\ out' = o /\ tmp' = ps /\ at' = Stmt("returned")
      /\ UNCHANGED << tables, served, held >>
  BY DEF CleanUp, Stmt, Locals, LocalsOf
<1>3. Tally' = m
  BY <1>2 DEF Tally
<1>4. result = Null /\ held = {}
  BY <1>1, <1>2, NothingDelivered
<1> HIDE DEF res, h, none
<1>5. /\ res \in Nat /\ h \in Heaps /\ Kept(heap, h) /\ ResultThere(h, res)
      /\ Places(key, partition, child, out, parent, tmp, none, res, held)
      /\ Balanced(h, m1)
  <2>1. none = << >> /\ res = IF at = Stmt("finish") THEN Len(heap) + 1 ELSE Null
    BY DEF none, res
  <2> QED  BY <1>2, <2>1, DeliveredBalanced DEF h
<1>6. /\ ks \in [Children -> RowOf(1)] /\ ps \in [Children -> Nat] /\ pa \in RowOf(1)
      /\ o \in RowOf(1 + NChildren)
      /\ \A a \in Addresses : /\ KeyCount(ks, a) = 0 /\ RefCount(ps, a) = 0
                              /\ Count(pa.refs, a) = 0 /\ Count(o.refs, a) = 0
  <2>1. 1 \in Nat /\ 1 + NChildren \in Nat
    BY ParentChildAssumption
  <2>2. EmptyRow(1) \in RowOf(1) /\ o \in RowOf(1 + NChildren)
        /\ \A a \in Addresses : Count(pa.refs, a) = 0 /\ Count(o.refs, a) = 0
    BY <2>1, EmptyRowFacts
  <2>3. ks \in [Children -> RowOf(1)] /\ ps \in [Children -> Nat]
    BY <2>2 DEF Null
  <2>4. \A a \in Addresses : KeyCount(ks, a) = 0 /\ RefCount(ps, a) = 0
    BY KeyCountNone, RefCountNone
  <2> QED  BY <2>2, <2>3, <2>4
<1> HIDE DEF ks, ps, pa, o
<1>7. Places(ks, ps, ks, o, pa, ps, none, res, held)
  BY <1>5, <1>6 DEF Places
<1>8. due \in Seq(Nat)
  BY <1>1, LocalsCount
<1>9. m1 \in Tallies /\ m \in Tallies
  BY <1>5, <1>7, SharesFacts
<1>10. Joins(m1, m, due)
  <2> SUFFICES ASSUME NEW a \in Addresses PROVE m1[a] = m[a] + Count(due, a)
    BY DEF Joins
  <2> DEFINE kc == KeyCount(key, a)
             pc == RefCount(partition, a)
             cc == KeyCount(child, a)
             oc == Count(out.refs, a)
             ac == Count(parent.refs, a)
             tc == RefCount(tmp, a)
             nc == Count(RowRefs(none), a)
             rc == Count(<<res>>, a)
             hc == HeldCount(held, a)
  <2>1. /\ m1[a] = kc + pc + cc + oc + ac + tc + nc + rc + hc
        /\ kc \in Nat /\ pc \in Nat /\ cc \in Nat /\ oc \in Nat /\ ac \in Nat /\ tc \in Nat
        /\ nc \in Nat /\ rc \in Nat /\ hc \in Nat
    BY <1>5, SharesFacts
  <2>2. m[a] = 0 + 0 + 0 + 0 + 0 + 0 + nc + rc + hc
    <3>1. m[a] = KeyCount(ks, a) + RefCount(ps, a) + KeyCount(ks, a)
                 + Count(o.refs, a) + Count(pa.refs, a) + RefCount(ps, a) + nc + rc + hc
      BY <1>7, SharesFacts
    <3> QED  BY <1>6, <3>1
  <2>3. Count(due, a) = kc + pc + cc + oc + ac + tc
    BY <1>1, LocalsCount
  <2> HIDE DEF m1, m, due, kc, pc, cc, oc, ac, tc, nc, rc, hc
  <2> QED  BY ONLY <2>1, <2>2, <2>3
<1> HIDE DEF m1, m, due
<1>11. g \in Heaps /\ Balanced(g, m) /\ OnlyCounts(h, g)
  BY <1>5, <1>8, <1>9, <1>10, ReleaseBalanced
<1> HIDE DEF g
<1>12. ResultThere(g, res)
  BY <1>5, <1>11, OnlyCountsFacts, ThereKept
<1>13. TypeOK'
  <2>1. none \in Seq(RowOf(1 + NChildren))
    BY DEF none
  <2> QED  BY <1>1, <1>2, <1>5, <1>6, <1>11, <2>1 DEF TypeOK, OtherSteps, Stmt
<1>14. Control'
  <2>1. \A c \in Children : partition'[c] = Null
    BY <1>2 DEF ps
  <2>2. PartitionsThere(heap', partition')
    BY <2>1 DEF PartitionsThere
  <2> QED  BY <1>2, <1>12, <2>2 DEF Control, Stmt
<1>15. IInv'
  BY <1>2, <1>3, <1>11, <1>13, <1>14, After
<1>16. Grows(heap, h, Null) /\ (res # Null => res \in DOMAIN h /\ h[res].rows = rows)
  <2>1. none = << >> /\ res = IF at = Stmt("finish") THEN Len(heap) + 1 ELSE Null
    BY DEF none, res
  <2> QED  BY <1>2, <2>1, DeliveredBalanced DEF h
<1>17. Grows(heap, g, Null)
  <2>1. Grows(h, g, Null)
    BY <1>5, <1>11, OnlyCountsGrow
  <2>2. heap \in Heaps
    BY <1>1 DEF TypeOK
  <2> QED  BY <1>5, <1>11, <1>16, <2>1, <2>2, GrowsTransitive
<1>18. res # Null => res \in DOMAIN g /\ g[res].rows = rows
  BY <1>5, <1>11, <1>16, OnlyCountsFacts, HeapFacts
<1> QED  BY <1>2, <1>15, <1>17, <1>18 DEF res

-----------------------------------------------------------------------------
(* The caller *)

\* When only what the caller kept changes
LEMMA HeldShare ==
  ASSUME NEW k, NEW p, NEW ch, NEW o, NEW pa, NEW t, NEW rs, NEW res, NEW hs, NEW y,
         Places(k, p, ch, o, pa, t, rs, res, hs), Places(k, p, ch, o, pa, t, rs, res, y),
         NEW a \in Addresses
  PROVE  Shares(k, p, ch, o, pa, t, rs, res, y)[a] + HeldCount(hs, a) =
           Shares(k, p, ch, o, pa, t, rs, res, hs)[a] + HeldCount(y, a)
<1> DEFINE old == Shares(k, p, ch, o, pa, t, rs, res, hs)[a]
           new == Shares(k, p, ch, o, pa, t, rs, res, y)[a]
<1>1. /\ old = KeyCount(k, a) + RefCount(p, a) + KeyCount(ch, a)
                 + Count(o.refs, a) + Count(pa.refs, a) + RefCount(t, a)
                 + Count(RowRefs(rs), a) + Count(<<res>>, a) + HeldCount(hs, a)
      /\ new = KeyCount(k, a) + RefCount(p, a) + KeyCount(ch, a)
                 + Count(o.refs, a) + Count(pa.refs, a) + RefCount(t, a)
                 + Count(RowRefs(rs), a) + Count(<<res>>, a) + HeldCount(y, a)
  BY DEF Shares
<1>2. /\ KeyCount(k, a) \in Nat /\ RefCount(p, a) \in Nat /\ KeyCount(ch, a) \in Nat
      /\ Count(o.refs, a) \in Nat /\ Count(pa.refs, a) \in Nat /\ RefCount(t, a) \in Nat
      /\ Count(RowRefs(rs), a) \in Nat /\ Count(<<res>>, a) \in Nat /\ HeldCount(hs, a) \in Nat
  BY SharesFacts
<1>3. HeldCount(y, a) \in Nat
  BY SharesFacts
<1> HIDE DEF old, new
<1>4. new + HeldCount(hs, a) = old + HeldCount(y, a)
  BY ONLY <1>1, <1>2, <1>3
<1> QED  BY <1>4 DEF old, new

\* After the procedure there is the result set to care for.
LEMMA CallerControl ==
  ASSUME Control, heap \in Heaps, heap' \in Heaps, Kept(heap, heap'),
         at = Stmt("returned"), UNCHANGED << at, partition >>, result' \in {result, Null}
  PROVE  Control'
<1>1. PartitionsThere(heap, partition) /\ ResultThere(heap, result)
  BY DEF Control
<1>2. PartitionsThere(heap', partition) /\ ResultThere(heap', result)
  BY <1>1, ThereKept
<1>3. ResultThere(heap', result')
  BY <1>2 DEF ResultThere
<1> QED  BY <1>2, <1>3 DEF Control, Stmt

\* A set in a row of a live result set is alive.
LEMMA RowSetAlive ==
  ASSUME NEW h \in Heaps, NEW n \in Tallies, Balanced(h, n), NEW b \in 1..Len(h), h[b].refs > 0,
         NEW k \in Nat, h[b].rows \in Seq(RowOf(k)), NEW i \in 1..Len(h[b].rows), NEW j \in 1..k
  PROVE  LET set == h[b].rows[i].refs[j] IN set \in Nat /\ (set # Null => RefsAt(h, set) > 0)
<1> DEFINE rs == h[b].rows
           r == rs[i]
           set == r.refs[j]
<1>1. h[b] \in Objects
  BY HeapFacts
<1>2. r \in RowOf(k) /\ rs \in Seq(AnyRow) /\ RowRefs(rs) \in Seq(Nat)
  BY WideRows
<1>3. set \in Nat /\ (set \in Addresses => Count(r.refs, set) # 0) /\ r.refs \in Seq(Nat)
  BY <1>2, RowFacts
<1>4. ASSUME set # Null PROVE RefsAt(h, set) > 0
  <2> HIDE DEF set
  <2>1. set \in Addresses /\ Count(r.refs, set) # 0
    BY <1>3, <1>4 DEF Addresses, Null
  <2>2. Count(r.refs, set) <= Count(RowRefs(rs), set)
    BY <1>2, RowRefsHold
  <2>3. Count(r.refs, set) \in Nat /\ Count(RowRefs(rs), set) \in Nat
    BY <1>2, <1>3, CountNat
  <2>4. h[b].groups \in Seq(AnyGroup) /\ h[b].empty \in Nat
    BY <1>1, ObjectFacts
  <2>5. GroupsCount(h[b].groups, set) \in Nat /\ Count(<<h[b].empty>>, set) \in Nat
    <3>1. FlattenSeq(GroupsRefs(h[b].groups)) \in Seq(Nat)
          /\ Count(FlattenSeq(GroupsRefs(h[b].groups)), set) = GroupsCount(h[b].groups, set)
      BY <2>4, GroupsFacts
    <3> QED  BY <2>4, <3>1, CountNat, CountOneNat
  <2>6. Count(Owned(h[b]), set) = Count(RowRefs(rs), set)
                                  + (IF h[b].kind = "partition" THEN Count(<<h[b].empty>>, set) ELSE 0)
                                  + GroupsCount(h[b].groups, set)
    BY <1>1, OwnedFacts
  <2> HIDE DEF rs, r
  <2>7. Count(Owned(h[b]), set) # 0
    BY <2>1, <2>2, <2>3, <2>5, <2>6
  <2>8. OwnedBy(h[b], set) # 0
    BY <2>7 DEF OwnedBy
  <2> QED  BY <2>1, <2>8, BalancedFacts
<1> QED  BY <1>3, <1>4

LEMMA HoldChildSetKeeps ==
  ASSUME IInv, NEW i \in Nat, NEW c \in Children, HoldChildSet(i, c)
  PROVE  IInv' /\ Grows(heap, heap', Null)
<1> DEFINE set == heap[result].rows[i].refs[1 + c]
           x == [set |-> set, row |-> i, child |-> c]
           y == held \cup {x}
           g == Retain(heap, <<set>>)
           m == Tally'
<1>1. /\ TypeOK /\ Control /\ heap \in Heaps /\ Tally \in Tallies /\ Balanced(heap, Tally)
      /\ Places(key, partition, child, out, parent, tmp, rows, result, held)
      /\ ResultThere(heap, result)
  BY Before
<1>2. /\ at = Stmt("returned") /\ result # Null /\ i \in DOMAIN heap[result].rows
      /\ ~ (\E z \in held : z.row = i /\ z.child = c) /\ held' = y /\ heap' = g
      /\ UNCHANGED << tables, partition, key, child, parent, out, tmp, rows, at, served, result >>
  BY DEF HoldChildSet
<1>3. result \in Nat /\ 1 + NChildren \in Nat /\ 1 + c \in 1..(1 + NChildren) /\ IsFiniteSet(held)
      /\ \A z \in held : z.set \in Nat
  BY <1>1, ParentChildAssumption DEF TypeOK, Children
<1>4. result \in 1..Len(heap) /\ heap[result].refs > 0
  <2>1. result \in Addresses => Tally[result] # 0
    <3> HAVE result \in Addresses
    <3>1. Count(<<result>>, result) <= Tally[result] /\ Tally[result] \in Nat
      BY <1>1, SharesBound DEF Tally
    <3>2. Count(<<result>>, result) = 1
      BY <1>3, CountOne
    <3> QED  BY <3>1, <3>2
  <2> QED  BY <1>1, <1>2, <1>3, <2>1, HeldAlive
<1>5. set \in Nat /\ (set # Null => RefsAt(heap, set) > 0)
  <2>1. heap[result].rows \in Seq(RowOf(1 + NChildren))
    BY <1>1, <1>2 DEF ResultThere
  <2>2. i \in 1..Len(heap[result].rows)
    BY <1>2, <2>1
  <2> QED  BY <1>1, <1>3, <1>4, <2>1, <2>2, RowSetAlive
<1> HIDE DEF set
<1>6. x \notin held /\ x.set = set
  BY <1>2
<1> HIDE DEF x
<1>7. IsFiniteSet(y) /\ \A z \in y : z.set \in Nat
  BY <1>3, <1>5, <1>6, FS_AddElement
<1>8. \A a \in Addresses : /\ HeldCount(y, a) = HeldCount(held, a) + Count(<<set>>, a)
                           /\ HeldCount(held, a) \in Nat /\ Count(<<set>>, a) \in Nat
  <2> TAKE a \in Addresses
  <2>1. HeldCount(y, a) = HeldCount(held, a) + IF x.set = a THEN 1 ELSE 0
    BY <1>3, <1>6, HeldCountFacts
  <2>2. Count(<<set>>, a) = IF set = a THEN 1 ELSE 0
    BY <1>5, CountOne
  <2>3. HeldCount(held, a) \in Nat
    BY <1>3, HeldCountFacts
  <2> QED  BY <1>6, <2>1, <2>2, <2>3
<1> HIDE DEF y
<1>9. Places(key, partition, child, out, parent, tmp, rows, result, y)
  BY <1>1, <1>7 DEF Places
<1>10. m = Shares(key, partition, child, out, parent, tmp, rows, result, y) /\ m \in Tallies
  BY <1>2, <1>9, SharesFacts DEF Tally
<1>11. Joins(m, Tally, <<set>>)
  <2> SUFFICES ASSUME NEW a \in Addresses PROVE m[a] = Tally[a] + Count(<<set>>, a)
    BY DEF Joins
  <2>1. Shares(key, partition, child, out, parent, tmp, rows, result, y)[a] + HeldCount(held, a)
        = Shares(key, partition, child, out, parent, tmp, rows, result, held)[a] + HeldCount(y, a)
    BY <1>1, <1>9, HeldShare
  <2>2. m[a] + HeldCount(held, a) = Tally[a] + HeldCount(y, a)
    BY <1>10, <2>1 DEF Tally
  <2>3. m[a] \in Nat /\ Tally[a] \in Nat
    BY <1>1, <1>10 DEF Tallies
  <2> HIDE DEF m
  <2> QED  BY <1>8, <2>2, <2>3
<1> HIDE DEF m
<1>12. Alive(heap, <<set>>) /\ <<set>> \in Seq(Nat)
  <2>1. \A a \in Addresses : Count(<<set>>, a) # 0 => set = a /\ set # Null
    BY <1>5, CountOne DEF Addresses, Null
  <2> QED  BY <1>5, <2>1 DEF Alive
<1>13. g \in Heaps /\ Balanced(g, m) /\ OnlyCounts(heap, g)
  BY <1>1, <1>10, <1>11, <1>12, RetainBalanced
<1> HIDE DEF g
<1>14. Kept(heap, g)
  BY <1>1, <1>13, OnlyCountsFacts
<1>15. TypeOK'
  BY <1>1, <1>2, <1>7, <1>13 DEF TypeOK
<1>16. Control'
  BY <1>1, <1>2, <1>13, <1>14, CallerControl
<1>17. Grows(heap, heap', Null)
  BY <1>1, <1>2, <1>13, OnlyCountsGrow
<1> QED  BY <1>2, <1>13, <1>15, <1>16, <1>17, After DEF m

LEMMA ReleaseChildSetKeeps ==
  ASSUME IInv, NEW x \in held, ReleaseChildSet(x)
  PROVE  IInv' /\ Grows(heap, heap', Null)
<1> DEFINE set == x.set
           y == held \ {x}
           g == Release(heap, <<set>>)
           m == Tally'
<1>1. /\ TypeOK /\ Control /\ heap \in Heaps /\ Tally \in Tallies /\ Balanced(heap, Tally)
      /\ Places(key, partition, child, out, parent, tmp, rows, result, held)
  BY Before
<1>2. /\ held' = y /\ heap' = g
      /\ UNCHANGED << tables, partition, key, child, parent, out, tmp, rows, at, served, result >>
  BY DEF ReleaseChildSet
<1>3. at = Stmt("returned")
  BY <1>1 DEF Control
<1>4. IsFiniteSet(held) /\ (\A z \in held : z.set \in Nat) /\ set \in Nat /\ <<set>> \in Seq(Nat)
  BY <1>1 DEF TypeOK
<1>5. IsFiniteSet(y) /\ \A z \in y : z.set \in Nat
  BY <1>4, FS_RemoveElement
<1>6. \A a \in Addresses : /\ HeldCount(held, a) = HeldCount(y, a) + Count(<<set>>, a)
                           /\ HeldCount(y, a) \in Nat /\ Count(<<set>>, a) \in Nat
  <2> TAKE a \in Addresses
  <2>1. HeldCount(held, a) = HeldCount(held \ {x}, a) + IF x.set = a THEN 1 ELSE 0
    BY <1>4, HeldCountFacts
  <2>2. Count(<<set>>, a) = IF set = a THEN 1 ELSE 0
    BY <1>4, CountOne
  <2>3. HeldCount(y, a) \in Nat
    BY <1>5, HeldCountFacts
  <2> QED  BY <2>1, <2>2, <2>3
<1> HIDE DEF y, set
<1>7. Places(key, partition, child, out, parent, tmp, rows, result, y)
  BY <1>1, <1>5 DEF Places
<1>8. m = Shares(key, partition, child, out, parent, tmp, rows, result, y) /\ m \in Tallies
  BY <1>2, <1>7, SharesFacts DEF Tally
<1>9. Joins(Tally, m, <<set>>)
  <2> SUFFICES ASSUME NEW a \in Addresses PROVE Tally[a] = m[a] + Count(<<set>>, a)
    BY DEF Joins
  <2>1. Shares(key, partition, child, out, parent, tmp, rows, result, y)[a] + HeldCount(held, a)
        = Shares(key, partition, child, out, parent, tmp, rows, result, held)[a] + HeldCount(y, a)
    BY <1>1, <1>7, HeldShare
  <2>2. m[a] + HeldCount(held, a) = Tally[a] + HeldCount(y, a)
    BY <1>8, <2>1 DEF Tally
  <2>3. m[a] \in Nat /\ Tally[a] \in Nat
    BY <1>1, <1>8 DEF Tallies
  <2> HIDE DEF m
  <2> QED  BY <1>6, <2>2, <2>3, SMTT(30)
<1> HIDE DEF m
<1>10. g \in Heaps /\ Balanced(g, m) /\ OnlyCounts(heap, g)
  BY <1>1, <1>4, <1>8, <1>9, ReleaseBalanced
<1> HIDE DEF g
<1>11. Kept(heap, g)
  BY <1>1, <1>10, OnlyCountsFacts
<1>12. TypeOK'
  BY <1>1, <1>2, <1>5, <1>10 DEF TypeOK
<1>13. Control'
  BY <1>1, <1>2, <1>3, <1>10, <1>11, CallerControl
<1>14. Grows(heap, heap', Null)
  BY <1>1, <1>2, <1>10, OnlyCountsGrow
<1> QED  BY <1>2, <1>10, <1>12, <1>13, <1>14, After DEF m

LEMMA ReleaseResultKeeps ==
  ASSUME IInv, ReleaseResult
  PROVE  IInv' /\ Grows(heap, heap', Null)
<1> DEFINE g == Release(heap, <<result>>)
           m == Tally'
<1>1. /\ TypeOK /\ Control /\ heap \in Heaps /\ Tally \in Tallies /\ Balanced(heap, Tally)
      /\ Places(key, partition, child, out, parent, tmp, rows, result, held)
  BY Before
<1>2. /\ at = Stmt("returned") /\ heap' = g /\ result' = Null
      /\ UNCHANGED << tables, partition, key, child, parent, out, tmp, rows, at, served, held >>
  BY DEF ReleaseResult
<1>3. result \in Nat /\ <<result>> \in Seq(Nat) /\ Null \in Nat
  BY <1>1 DEF TypeOK, Null
<1>4. Places(key, partition, child, out, parent, tmp, rows, Null, held)
  BY <1>1, <1>3 DEF Places
<1>5. m = Shares(key, partition, child, out, parent, tmp, rows, Null, held) /\ m \in Tallies
  BY <1>2, <1>4, SharesFacts DEF Tally
<1>6. Joins(Tally, m, <<result>>)
  <2> SUFFICES ASSUME NEW a \in Addresses PROVE Tally[a] = m[a] + Count(<<result>>, a)
    BY DEF Joins
  <2>1. Shares(key, partition, child, out, parent, tmp, rows, Null, held)[a] + Count(<<result>>, a)
        = Shares(key, partition, child, out, parent, tmp, rows, result, held)[a] + Count(<<Null>>, a)
    BY <1>1, <1>4, ResultShare
  <2>2. m[a] + Count(<<result>>, a) = Tally[a] + Count(<<Null>>, a)
    BY <1>5, <2>1 DEF Tally
  <2>3. m[a] \in Nat /\ Tally[a] \in Nat /\ Count(<<result>>, a) \in Nat
    BY <1>1, <1>3, <1>5, CountOneNat DEF Tallies
  <2>4. Count(<<Null>>, a) = 0
    BY CountOne DEF Null, Addresses
  <2> HIDE DEF m
  <2> QED  BY <2>2, <2>3, <2>4
<1> HIDE DEF m
<1>7. g \in Heaps /\ Balanced(g, m) /\ OnlyCounts(heap, g)
  BY <1>1, <1>3, <1>5, <1>6, ReleaseBalanced
<1> HIDE DEF g
<1>8. Kept(heap, g)
  BY <1>1, <1>7, OnlyCountsFacts
<1>9. TypeOK'
  BY <1>1, <1>2, <1>3, <1>7 DEF TypeOK
<1>10. Control'
  BY <1>1, <1>2, <1>7, <1>8, CallerControl
<1>11. Grows(heap, heap', Null)
  BY <1>1, <1>2, <1>7, OnlyCountsGrow
<1> QED  BY <1>2, <1>7, <1>9, <1>10, <1>11, After DEF m

-----------------------------------------------------------------------------
(* The specification *)

LEMMA InitHolds ==
  ASSUME Init
  PROVE  IInv
<1> DEFINE none == << >>
           ks == [c \in Children |-> EmptyRow(1)]
           ps == [c \in Children |-> Null]
           pa == EmptyRow(1)
           o == EmptyRow(1 + NChildren)
<1>1. /\ tables \in [child : [Children -> Inputs], parent : Inputs]
      /\ heap = none /\ partition = ps /\ key = ks /\ child = ks /\ parent = pa /\ out = o /\ tmp = ps
      /\ rows = none /\ at = [do |-> "create", c |-> 1] /\ served = 0 /\ result = Null /\ held = {}
  BY DEF Init, Begin
<1>2. /\ ks \in [Children -> RowOf(1)] /\ ps \in [Children -> Nat] /\ pa \in RowOf(1)
      /\ o \in RowOf(1 + NChildren)
      /\ \A a \in Addresses : /\ KeyCount(ks, a) = 0 /\ RefCount(ps, a) = 0
                              /\ Count(pa.refs, a) = 0 /\ Count(o.refs, a) = 0
  <2>1. 1 \in Nat /\ 1 + NChildren \in Nat
    BY ParentChildAssumption
  <2>2. EmptyRow(1) \in RowOf(1) /\ o \in RowOf(1 + NChildren)
        /\ \A a \in Addresses : Count(pa.refs, a) = 0 /\ Count(o.refs, a) = 0
    BY <2>1, EmptyRowFacts
  <2>3. ks \in [Children -> RowOf(1)] /\ ps \in [Children -> Nat]
    BY <2>2 DEF Null
  <2>4. \A a \in Addresses : KeyCount(ks, a) = 0 /\ RefCount(ps, a) = 0
    BY KeyCountNone, RefCountNone
  <2> QED  BY <2>2, <2>3, <2>4
<1>3. \A c \in Children : ps[c] = Null
  OBVIOUS
<1>4. none \in Heaps /\ none \in Seq(RowOf(1 + NChildren)) /\ Len(none) = 0 /\ DOMAIN none = {}
  BY DEF Heaps
<1>5. \A a : Count(RowRefs(none), a) = 0
  BY RowRefsFew, CountFacts
<1>6. 1 \in Children /\ Children = 1..NChildren /\ NChildren \in Nat /\ Null \in Nat
  BY ParentChildAssumption DEF Children, Null
<1> HIDE DEF none, ks, ps, pa, o
<1>7. TypeOK
  <2>1. IsFiniteSet({})
    BY FS_EmptySet
  <2> QED  BY <1>1, <1>2, <1>4, <1>6, <2>1 DEF TypeOK, ChildSteps
<1>8. Control
  <2>1. \A c \in Children : partition[c] = Null
    BY <1>1, <1>3
  <2>2. \A c \in Children : ~ (c <= Made)
    BY <1>1, <1>6 DEF Made
  <2> QED  BY <1>1, <2>1, <2>2 DEF Control, PartitionsThere, ResultThere
<1>9. Tally = Outside /\ Places(ks, ps, ks, o, pa, ps, none, Null, {})
      /\ Tally = Shares(ks, ps, ks, o, pa, ps, none, Null, {})
  BY <1>1, <1>7, TallyIsOutside DEF Tally
<1>10. Balanced(none, Tally)
  <2> SUFFICES ASSUME NEW a \in Addresses PROVE RefsAt(none, a) = Tally[a] + OwnedCount(none, a)
    BY DEF Balanced
  <2>1. RefsAt(none, a) = 0
    BY <1>4 DEF RefsAt
  <2>2. OwnedCount(none, a) = 0
    <3> DEFINE f == OwnedAmounts(none, a)
    <3>1. f \in [1..Len(none) -> Int] /\ OwnedCount(none, a) = Total(f)
      BY <1>4, OwnedCountFacts
    <3> HIDE DEF f
    <3>2. f \in [1..0 -> Int] /\ 0 \in Nat /\ \A i \in 1..0 : f[i] = 0
      BY <1>4, <3>1
    <3> QED  BY <3>1, <3>2, TotalZero
  <2>3. HeldCount({}, a) = 0
    BY FS_EmptySet, HeldCountFacts
  <2>4. Count(<<Null>>, a) = 0
    BY CountOne DEF Null, Addresses
  <2>5. Tally[a] = KeyCount(ks, a) + RefCount(ps, a) + KeyCount(ks, a)
                   + Count(o.refs, a) + Count(pa.refs, a) + RefCount(ps, a)
                   + Count(RowRefs(none), a) + Count(<<Null>>, a) + HeldCount({}, a)
    BY <1>9, SharesFacts
  <2>6. Tally[a] = 0
    BY <1>2, <1>5, <2>3, <2>4, <2>5
  <2> QED  BY <2>1, <2>2, <2>6
<1> QED  BY <1>1, <1>7, <1>8, <1>9, <1>10 DEF IInv

LEMMA StutterKeeps ==
  ASSUME IInv, UNCHANGED vars
  PROVE  IInv'
<1>1. /\ TypeOK /\ Control /\ heap \in Heaps /\ Balanced(heap, Tally)
  BY Before
<1>2. UNCHANGED << tables, heap, partition, key, child, parent, out, tmp, rows, at, served, result, held >>
  BY DEF vars
<1>3. TypeOK'
  BY <1>1, <1>2 DEF TypeOK
<1>4. Control'
  BY <1>1, <1>2 DEF Control, Made
<1>5. Tally' = Tally
  BY <1>2 DEF Tally
<1> QED  BY <1>1, <1>2, <1>3, <1>4, <1>5, After

LEMMA NextKeeps ==
  ASSUME IInv, [Next]_vars
  PROVE  IInv'
<1>1. CASE \E c \in Children : \/ CreatePartition(c) \/ CallChild(c) \/ FetchChild(c)
                               \/ PartitionChild(c) \/ Extract(c)
  BY <1>1, CreatePartitionKeeps, CallChildKeeps, FetchChildKeeps, PartitionChildKeeps, ExtractKeeps
<1>2. CASE CallParent \/ FetchParent \/ LoadKeys
  BY <1>2, CallParentKeeps, FetchParentKeeps, LoadKeysKeeps
<1>3. CASE OutUnion \/ CleanUp \/ ReleaseResult
  BY <1>3, OutUnionKeeps, CleanUpKeeps, ReleaseResultKeeps
<1>4. ASSUME NEW i \in 1..MaxRows, NEW c \in Children, HoldChildSet(i, c) PROVE IInv'
  <2>1. i \in Nat
    BY ParentChildAssumption
  <2> QED  BY <1>4, <2>1, HoldChildSetKeeps
<1>5. CASE \E x \in held : ReleaseChildSet(x)
  BY <1>5, ReleaseChildSetKeeps
<1>6. CASE UNCHANGED vars
  BY <1>6, StutterKeeps
<1> QED  BY <1>1, <1>2, <1>3, <1>4, <1>5, <1>6 DEF Next

\* The counts that the generated code keeps with its retains and releases
\* are, at every statement and on every path, those of the invariant.
THEOREM ParentChildInvariant == Spec => []IInv
<1>1. Init => IInv
  BY InitHolds
<1>2. IInv /\ [Next]_vars => IInv'
  BY NextKeeps
<1> QED  BY <1>1, <1>2, PTL DEF Spec

\* Every object's count is the number of places that hold it: the locals of
\* the expanded procedure, the buffer of OUT UNION, live partitions and
\* result sets, and the caller.  So nothing is freed while it can be reached,
\* and what nothing holds has been freed: on an error exit as well, and
\* however the caller keeps child sets and lets go of them.
THEOREM CountsAreExact == Spec => []CountsMatchHolders
<1>1. IInv => CountsMatchHolders
  <2> SUFFICES ASSUME IInv, NEW a \in DOMAIN heap
               PROVE heap[a].refs = Count(Holders, a) + HeldCount(held, a) + OwnedCount(heap, a)
    BY DEF CountsMatchHolders
  <2>1. heap \in Heaps /\ Tally \in Tallies /\ Balanced(heap, Tally) /\ Tally = Outside
    BY Before, TallyIsOutside
  <2>2. a \in Addresses
    BY <2>1, HeapFacts
  <2>3. heap[a].refs = Outside[a] + OwnedCount(heap, a)
    BY <2>1, <2>2 DEF Balanced, RefsAt
  <2> QED  BY <2>2, <2>3 DEF Outside
<1> QED  BY <1>1, ParentChildInvariant, PTL

-----------------------------------------------------------------------------
(* What the objects hold: the join *)

\* rs is the rows with value v among the first m of table t, in their order.
RowsFor(h, rs, t, v, m) ==
  /\ InOrder(rs)
  /\ \A i \in DOMAIN rs : /\ rs[i].n \in 1..m /\ t[rs[i].n] = v
                          /\ rs[i] \in RowOf(1) /\ HasValue(h, rs[i].refs[1], v)
  /\ \A n \in 1..m : t[n] = v => \E i \in DOMAIN rs : rs[i].n = n

SetFor(h, s, t, v) == s \in DOMAIN h /\ RowsFor(h, h[s].rows, t, v, Len(t))

\* The value of a group, and its rows, in the buffer or in the set
KeyAt(h, g)     == ValueAt(h, g.key.refs[1])
GroupRows(h, g) == IF g.set = Null THEN g.rows ELSE h[g.set].rows

\* What a group refers to is there.
GroupThere(h, g) ==
  /\ g.key.refs[1] # Null => g.key.refs[1] \in DOMAIN h
  /\ g.set # Null => g.set \in DOMAIN h

\* The groups gs have the first m rows of t, a group for each value.
GroupsFor(h, gs, t, m) ==
  /\ \A i \in DOMAIN gs : GroupThere(h, gs[i]) /\ RowsFor(h, GroupRows(h, gs[i]), t, KeyAt(h, gs[i]), m)
  /\ \A i, j \in DOMAIN gs : KeyAt(h, gs[i]) = KeyAt(h, gs[j]) => i = j
  /\ \A n \in 1..m : \E i \in DOMAIN gs : KeyAt(h, gs[i]) = t[n]

NoRows(h, set) == set # Null => set \in DOMAIN h /\ h[set].rows = << >>

Grouped(h, p, t, m) == p \in DOMAIN h /\ GroupsFor(h, h[p].groups, t, m) /\ NoRows(h, h[p].empty)

\* Set s was extracted for value v.
GivesFrom(h, gs, empty, v, s) ==
  /\ s # Null
  /\ \/ \E i \in DOMAIN gs : KeyAt(h, gs[i]) = v /\ gs[i].set = s
     \/ (\A i \in DOMAIN gs : KeyAt(h, gs[i]) # v) /\ empty = s

Gives(h, p, v, s) == GivesFrom(h, h[p].groups, h[p].empty, v, s)

-----------------------------------------------------------------------------
(* It stays so while objects are made and counted. *)

LEMMA ValueGrows ==
  ASSUME NEW h \in Heaps, NEW g \in Heaps, NEW p, Grows(h, g, p), NEW ref, ref # Null => ref \in DOMAIN h
  PROVE  ValueAt(g, ref) = ValueAt(h, ref) /\ (ref # Null => ref \in DOMAIN g)
<1>1. /\ DOMAIN h = 1..Len(h) /\ DOMAIN g = 1..Len(g) /\ Len(h) \in Nat /\ Len(g) \in Nat /\ Len(h) <= Len(g)
      /\ \A a \in 1..Len(h) : g[a].text = h[a].text
  BY HeapFacts DEF Grows
<1> QED  BY <1>1 DEF ValueAt

LEMMA HasValueGrows ==
  ASSUME NEW h \in Heaps, NEW g \in Heaps, NEW p, Grows(h, g, p), NEW ref, NEW v, HasValue(h, ref, v)
  PROVE  HasValue(g, ref, v)
BY ValueGrows DEF HasValue

LEMMA RowsForGrows ==
  ASSUME NEW h \in Heaps, NEW g \in Heaps, NEW p, Grows(h, g, p),
         NEW rs, NEW t, NEW v, NEW m, RowsFor(h, rs, t, v, m)
  PROVE  RowsFor(g, rs, t, v, m)
BY HasValueGrows DEF RowsFor

LEMMA SetForGrows ==
  ASSUME NEW h \in Heaps, NEW g \in Heaps, NEW p, Grows(h, g, p), NEW s, NEW t, NEW v, SetFor(h, s, t, v)
  PROVE  SetFor(g, s, t, v)
<1>1. s \in DOMAIN g /\ g[s].rows = h[s].rows
  BY HeapFacts DEF SetFor, Grows
<1>2. RowsFor(g, h[s].rows, t, v, Len(t))
  BY RowsForGrows DEF SetFor
<1> QED  BY <1>1, <1>2 DEF SetFor

LEMMA GroupGrows ==
  ASSUME NEW h \in Heaps, NEW g \in Heaps, NEW p, Grows(h, g, p), NEW x, GroupThere(h, x)
  PROVE  GroupThere(g, x) /\ KeyAt(g, x) = KeyAt(h, x) /\ GroupRows(g, x) = GroupRows(h, x)
<1>1. KeyAt(g, x) = KeyAt(h, x) /\ (x.key.refs[1] # Null => x.key.refs[1] \in DOMAIN g)
  BY ValueGrows DEF GroupThere, KeyAt
<1>2. x.set # Null => x.set \in DOMAIN g /\ g[x.set].rows = h[x.set].rows
  BY HeapFacts DEF GroupThere, Grows
<1> QED  BY <1>1, <1>2 DEF GroupThere, GroupRows

LEMMA GroupsForGrow ==
  ASSUME NEW h \in Heaps, NEW g \in Heaps, NEW p, Grows(h, g, p), NEW gs, NEW t, NEW m, GroupsFor(h, gs, t, m)
  PROVE  GroupsFor(g, gs, t, m) /\ \A i \in DOMAIN gs : KeyAt(g, gs[i]) = KeyAt(h, gs[i])
<1>1. ASSUME NEW i \in DOMAIN gs
      PROVE  /\ GroupThere(g, gs[i]) /\ KeyAt(g, gs[i]) = KeyAt(h, gs[i])
             /\ RowsFor(g, GroupRows(g, gs[i]), t, KeyAt(g, gs[i]), m)
  <2>1. GroupThere(h, gs[i]) /\ RowsFor(h, GroupRows(h, gs[i]), t, KeyAt(h, gs[i]), m)
    BY DEF GroupsFor
  <2>2. GroupThere(g, gs[i]) /\ KeyAt(g, gs[i]) = KeyAt(h, gs[i]) /\ GroupRows(g, gs[i]) = GroupRows(h, gs[i])
    BY <2>1, GroupGrows
  <2>3. RowsFor(g, GroupRows(h, gs[i]), t, KeyAt(h, gs[i]), m)
    BY <2>1, RowsForGrows
  <2> QED  BY <2>2, <2>3
<1> QED  BY <1>1 DEF GroupsFor

LEMMA NoRowsGrow ==
  ASSUME NEW h \in Heaps, NEW g \in Heaps, NEW p, Grows(h, g, p), NEW set, NoRows(h, set)
  PROVE  NoRows(g, set)
BY HeapFacts DEF NoRows, Grows

LEMMA GroupedGrows ==
  ASSUME NEW h \in Heaps, NEW g \in Heaps, NEW p, Grows(h, g, p), NEW q, q # p, NEW t, NEW m, Grouped(h, q, t, m)
  PROVE  /\ Grouped(g, q, t, m)
         /\ \A v, s : Gives(h, q, v, s) => Gives(g, q, v, s)
<1>1. q \in DOMAIN g /\ g[q].groups = h[q].groups /\ g[q].empty = h[q].empty
  BY HeapFacts DEF Grouped, Grows
<1>2. GroupsFor(g, h[q].groups, t, m) /\ NoRows(g, h[q].empty)
      /\ \A i \in DOMAIN h[q].groups : KeyAt(g, h[q].groups[i]) = KeyAt(h, h[q].groups[i])
  BY GroupsForGrow, NoRowsGrow DEF Grouped
<1>3. ASSUME NEW v, NEW s, Gives(h, q, v, s) PROVE Gives(g, q, v, s)
  <2> DEFINE gs == h[q].groups
  <2>1. GivesFrom(h, gs, h[q].empty, v, s) /\ \A i \in DOMAIN gs : KeyAt(g, gs[i]) = KeyAt(h, gs[i])
    BY <1>2, <1>3 DEF Gives
  <2>2. GivesFrom(g, gs, h[q].empty, v, s)
    <3> HIDE DEF gs
    <3> QED  BY <2>1 DEF GivesFrom
  <2> QED  BY <1>1, <2>2 DEF Gives
<1> QED  BY <1>1, <1>2, <1>3 DEF Grouped

-----------------------------------------------------------------------------
(* What a partition gives *)

LEMMA RowsForNone ==
  ASSUME NEW h, NEW t, NEW v, NEW m, \A n \in 1..m : t[n] # v
  PROVE  RowsFor(h, << >>, t, v, m)
BY DEF RowsFor, InOrder

\* The set for a value is its rows, and there is only one.
LEMMA GivesSet ==
  ASSUME NEW h \in Heaps, NEW p, NEW t, Grouped(h, p, t, Len(t)), NEW v, NEW s, Gives(h, p, v, s)
  PROVE  SetFor(h, s, t, v)
<1> DEFINE gs == h[p].groups
<1>1. GroupsFor(h, gs, t, Len(t)) /\ NoRows(h, h[p].empty) /\ GivesFrom(h, gs, h[p].empty, v, s)
  BY DEF Grouped, Gives
<1> HIDE DEF gs
<1>2. CASE \E i \in DOMAIN gs : KeyAt(h, gs[i]) = v /\ gs[i].set = s
  <2>1. PICK i \in DOMAIN gs : KeyAt(h, gs[i]) = v /\ gs[i].set = s
    BY <1>2
  <2>2. s # Null /\ GroupThere(h, gs[i]) /\ RowsFor(h, GroupRows(h, gs[i]), t, v, Len(t))
    BY <1>1, <2>1 DEF GivesFrom, GroupsFor
  <2> QED  BY <2>1, <2>2 DEF GroupThere, GroupRows, SetFor
<1>3. CASE (\A i \in DOMAIN gs : KeyAt(h, gs[i]) # v) /\ h[p].empty = s
  <2>1. s \in DOMAIN h /\ h[s].rows = << >>
    BY <1>1, <1>3 DEF GivesFrom, NoRows
  <2>2. \A n \in 1..Len(t) : t[n] # v
    BY <1>1, <1>3 DEF GroupsFor
  <2> QED  BY <2>1, <2>2, RowsForNone DEF SetFor
<1> QED  BY <1>1, <1>2, <1>3 DEF GivesFrom

LEMMA GivesOne ==
  ASSUME NEW h, NEW p, NEW t, NEW m, Grouped(h, p, t, m), NEW v, NEW s, NEW r, Gives(h, p, v, s), Gives(h, p, v, r)
  PROVE  s = r
<1> DEFINE gs == h[p].groups
<1>1. GroupsFor(h, gs, t, m) /\ GivesFrom(h, gs, h[p].empty, v, s) /\ GivesFrom(h, gs, h[p].empty, v, r)
  BY DEF Grouped, Gives
<1> HIDE DEF gs
<1> QED  BY <1>1 DEF GroupsFor, GivesFrom

-----------------------------------------------------------------------------
(* Partitioning *)

LEMMA RowsForSkip ==
  ASSUME NEW h, NEW rs, NEW t, NEW v, NEW m \in Nat, RowsFor(h, rs, t, v, m), t[m + 1] # v
  PROVE  RowsFor(h, rs, t, v, m + 1)
<1>1. \A n \in 1..(m + 1) : n \in 1..m \/ n = m + 1
  OBVIOUS
<1>2. \A n \in 1..m : n \in 1..(m + 1)
  OBVIOUS
<1> QED  BY <1>1, <1>2 DEF RowsFor

LEMMA RowsForMore ==
  ASSUME NEW h, NEW rs \in Seq(AnyRow), NEW t, NEW v, NEW m \in Nat, RowsFor(h, rs, t, v, m), t[m + 1] = v,
         NEW row \in RowOf(1), row.n = m + 1, HasValue(h, row.refs[1], v)
  PROVE  RowsFor(h, Append(rs, row), t, v, m + 1)
<1> DEFINE N == Len(rs)
           y == Append(rs, row)
<1>1. /\ N \in Nat /\ DOMAIN rs = 1..N /\ DOMAIN y = 1..(N + 1) /\ y[N + 1] = row
      /\ \A i \in 1..N : y[i] = rs[i]
  BY RowFacts
<1> HIDE DEF y, N
<1>2. \A i \in 1..N : rs[i].n \in 1..m /\ t[rs[i].n] = v /\ rs[i] \in RowOf(1) /\ HasValue(h, rs[i].refs[1], v)
  BY <1>1 DEF RowsFor
<1>3. \A i \in 1..(N + 1) : i \in 1..N \/ i = N + 1
  BY <1>1
<1>4. \A i \in 1..(N + 1) : y[i].n \in 1..(m + 1) /\ t[y[i].n] = v /\ y[i] \in RowOf(1) /\ HasValue(h, y[i].refs[1], v)
  <2> TAKE i \in 1..(N + 1)
  <2>1. CASE i \in 1..N
    <3>1. y[i] = rs[i] /\ rs[i].n \in 1..(m + 1)
      BY <1>1, <1>2, <2>1
    <3> QED  BY <1>2, <2>1, <3>1
  <2>2. CASE i = N + 1
    BY <1>1, <2>2
  <2> QED  BY <1>3, <2>1, <2>2
<1>5. InOrder(y)
  <2> SUFFICES ASSUME NEW i \in 1..(N + 1), NEW j \in 1..(N + 1), i < j PROVE y[i].n < y[j].n
    BY <1>1 DEF InOrder
  <2>1. i \in 1..N
    BY <1>1
  <2>2. CASE j \in 1..N
    BY <1>1, <2>1, <2>2 DEF RowsFor, InOrder
  <2>3. CASE j = N + 1
    <3>1. y[i].n \in 1..m /\ y[j].n = m + 1
      BY <1>1, <1>2, <2>1, <2>3
    <3> QED  BY <3>1
  <2> QED  BY <1>3, <2>2, <2>3
<1>6. \A n \in 1..(m + 1) : t[n] = v => \E i \in 1..(N + 1) : y[i].n = n
  <2> TAKE n \in 1..(m + 1)
  <2> HAVE t[n] = v
  <2>1. CASE n \in 1..m
    <3>1. PICK i \in 1..N : rs[i].n = n
      BY <1>1, <2>1 DEF RowsFor
    <3>2. i \in 1..(N + 1) /\ y[i].n = n
      BY <1>1, <3>1
    <3> QED  BY <3>2
  <2>2. CASE n = m + 1
    <3>1. N + 1 \in 1..(N + 1) /\ y[N + 1].n = n
      BY <1>1, <2>2
    <3> QED  BY <3>1
  <2> QED  BY <2>1, <2>2
<1> QED  BY <1>1, <1>4, <1>5, <1>6 DEF RowsFor, y

\* Retaining leaves the objects as they are.
LEMMA RetainOnlyCounts ==
  ASSUME NEW h \in Heaps, NEW refs
  PROVE  OnlyCounts(h, Retain(h, refs))
<1> DEFINE g == Retain(h, refs)
           more(b) == IF h[b].refs <= 0 /\ Count(refs, b) > 0 THEN -1 ELSE h[b].refs + Count(refs, b)
<1>1. DOMAIN h = 1..Len(h) /\ Len(h) \in Nat /\ \A b \in 1..Len(h) : h[b] \in Objects
  BY HeapFacts
<1>2. g = [b \in 1..Len(h) |-> [h[b] EXCEPT !.refs = more(b)]]
  BY <1>1 DEF Retain
<1> HIDE DEF more
<1>3. Len(g) = Len(h) /\ \A b \in 1..Len(h) : g[b] = [h[b] EXCEPT !.refs = more(b)]
  BY <1>1, <1>2
<1>4. ASSUME NEW b \in 1..Len(h) PROVE g[b] = [h[b] EXCEPT !.refs = g[b].refs]
  <2> DEFINE o == h[b]
             r == more(b)
  <2>1. o \in Objects /\ g[b] = [o EXCEPT !.refs = r]
    BY <1>1, <1>3
  <2> HIDE DEF g, o, r
  <2>2. "refs" \in DOMAIN o
    BY <2>1 DEF Objects
  <2>3. [o EXCEPT !.refs = r].refs = r
    BY <2>2
  <2>4. g[b].refs = r
    BY <2>1, <2>3
  <2> QED  BY <2>1, <2>4 DEF o
<1> HIDE DEF g
<1> QED  BY <1>3, <1>4 DEF OnlyCounts, g

\* The next row of a value that has no group yet
LEMMA GroupsForFresh ==
  ASSUME NEW h, NEW gs \in Seq(AnyGroup), NEW t, NEW m \in Nat, GroupsFor(h, gs, t, m),
         NEW k \in RowOf(1), NEW row \in RowOf(1), k.refs = row.refs, row.n = m + 1,
         HasValue(h, row.refs[1], t[m + 1]),
         \A i \in DOMAIN gs : KeyAt(h, gs[i]) # t[m + 1]
  PROVE  GroupsFor(h, Append(gs, [key |-> k, rows |-> <<row>>, set |-> Null]), t, m + 1)
<1> DEFINE N == Len(gs)
           x == [key |-> k, rows |-> <<row>>, set |-> Null]
           y == Append(gs, x)
           v == t[m + 1]
<1>1. /\ N \in Nat /\ DOMAIN gs = 1..N /\ DOMAIN y = 1..(N + 1) /\ y[N + 1] = x
      /\ \A i \in 1..N : y[i] = gs[i]
  OBVIOUS
<1>2. x.key = k /\ x.rows = <<row>> /\ x.set = Null
  OBVIOUS
<1> HIDE DEF x, y, N, v
<1>3. GroupThere(h, x) /\ KeyAt(h, x) = v /\ GroupRows(h, x) = <<row>>
  BY <1>2 DEF HasValue, GroupThere, KeyAt, GroupRows, v
<1>4. RowsFor(h, <<row>>, t, v, m + 1)
  <2> DEFINE none == << >>
             one == Append(none, row)
  <2>1. none \in Seq(AnyRow) /\ one = <<row>>
    OBVIOUS
  <2>2. row \in AnyRow
    BY RowFacts
  <2>3. \A n \in 1..m : t[n] # v
    BY <1>1 DEF GroupsFor, v
  <2>4. RowsFor(h, none, t, v, m)
    BY <2>3, RowsForNone
  <2> HIDE DEF none
  <2>5. RowsFor(h, one, t, v, m + 1)
    BY <2>1, <2>2, <2>4, RowsForMore DEF v
  <2> QED  BY <2>1, <2>5
<1>5. \A i \in 1..(N + 1) : i \in 1..N \/ i = N + 1
  BY <1>1
<1>6. \A i \in 1..(N + 1) : GroupThere(h, y[i]) /\ RowsFor(h, GroupRows(h, y[i]), t, KeyAt(h, y[i]), m + 1)
  <2> TAKE i \in 1..(N + 1)
  <2>1. CASE i \in 1..N
    <3>1. /\ y[i] = gs[i] /\ GroupThere(h, gs[i]) /\ KeyAt(h, gs[i]) # v
          /\ RowsFor(h, GroupRows(h, gs[i]), t, KeyAt(h, gs[i]), m)
      BY <1>1, <2>1 DEF GroupsFor, v
    <3>2. RowsFor(h, GroupRows(h, gs[i]), t, KeyAt(h, gs[i]), m + 1)
      BY <3>1, RowsForSkip DEF v
    <3> QED  BY <3>1, <3>2
  <2>2. CASE i = N + 1
    BY <1>1, <1>3, <1>4, <2>2
  <2> QED  BY <1>5, <2>1, <2>2
<1>7. \A i, j \in 1..(N + 1) : KeyAt(h, y[i]) = KeyAt(h, y[j]) => i = j
  <2>1. \A i \in 1..N : KeyAt(h, y[i]) = KeyAt(h, gs[i]) /\ KeyAt(h, y[i]) # v
    BY <1>1 DEF v
  <2>2. \A i, j \in 1..N : KeyAt(h, gs[i]) = KeyAt(h, gs[j]) => i = j
    BY <1>1 DEF GroupsFor
  <2>3. KeyAt(h, y[N + 1]) = v
    BY <1>1, <1>3
  <2> QED  BY <1>5, <2>1, <2>2, <2>3
<1>8. \A n \in 1..(m + 1) : \E i \in 1..(N + 1) : KeyAt(h, y[i]) = t[n]
  <2> TAKE n \in 1..(m + 1)
  <2>1. CASE n \in 1..m
    <3>1. PICK i \in 1..N : KeyAt(h, gs[i]) = t[n]
      BY <1>1, <2>1 DEF GroupsFor
    <3>2. i \in 1..(N + 1) /\ KeyAt(h, y[i]) = t[n]
      BY <1>1, <3>1
    <3> QED  BY <3>2
  <2>2. CASE n = m + 1
    <3>1. N + 1 \in 1..(N + 1) /\ KeyAt(h, y[N + 1]) = t[n]
      BY <1>1, <1>3, <2>2 DEF v
    <3> QED  BY <3>1
  <2> QED  BY <2>1, <2>2
<1> QED  BY <1>1, <1>6, <1>7, <1>8 DEF GroupsFor, x, y

\* The next row of a value that has one, with its rows still in the buffer
LEMMA GroupsForKnown ==
  ASSUME NEW h, NEW gs \in Seq(AnyGroup), NEW t, NEW m \in Nat, GroupsFor(h, gs, t, m),
         NEW row \in RowOf(1), row.n = m + 1, HasValue(h, row.refs[1], t[m + 1]),
         NEW i \in DOMAIN gs, KeyAt(h, gs[i]) = t[m + 1], gs[i].set = Null
  PROVE  GroupsFor(h, [gs EXCEPT ![i].rows = Append(@, row)], t, m + 1)
<1> DEFINE x == [gs[i] EXCEPT !.rows = Append(@, row)]
           y == [gs EXCEPT ![i] = x]
           v == t[m + 1]
<1>1. DOMAIN y = DOMAIN gs /\ y[i] = x /\ \A j \in DOMAIN gs : j # i => y[j] = gs[j]
  OBVIOUS
<1>2. gs[i] \in AnyGroup /\ gs[i].rows \in Seq(AnyRow)
  <2>1. gs[i] \in AnyGroup
    OBVIOUS
  <2> QED  BY <2>1, GroupFacts
<1>3. x.key = gs[i].key /\ x.rows = Append(gs[i].rows, row) /\ x.set = Null
  <2> DEFINE u == gs[i]
  <2>1. u \in AnyGroup /\ u.set = Null /\ x = [u EXCEPT !.rows = Append(u.rows, row)]
    BY <1>2
  <2> HIDE DEF u, x
  <2>2. x.key = u.key /\ x.rows = Append(u.rows, row) /\ x.set = Null
    BY <2>1 DEF AnyGroup
  <2> QED  BY <2>2 DEF u
<1>4. y = [gs EXCEPT ![i].rows = Append(@, row)]
  OBVIOUS
<1> HIDE DEF x, y, v
<1>5. GroupThere(h, gs[i]) /\ RowsFor(h, gs[i].rows, t, v, m)
  BY DEF GroupsFor, GroupRows, v
<1>6. RowsFor(h, x.rows, t, v, m + 1)
  <2> QED  BY <1>2, <1>3, <1>5, RowsForMore DEF v
<1>7. GroupThere(h, x) /\ KeyAt(h, x) = v /\ GroupRows(h, x) = x.rows
  BY <1>3, <1>5 DEF GroupThere, KeyAt, GroupRows, v
<1>8. \A j \in DOMAIN gs : KeyAt(h, y[j]) = KeyAt(h, gs[j])
  BY <1>1, <1>7 DEF v
<1>9. \A j \in DOMAIN gs : GroupThere(h, y[j]) /\ RowsFor(h, GroupRows(h, y[j]), t, KeyAt(h, y[j]), m + 1)
  <2> TAKE j \in DOMAIN gs
  <2>1. CASE j = i
    BY <1>1, <1>6, <1>7, <2>1
  <2>2. CASE j # i
    <3>1. /\ y[j] = gs[j] /\ GroupThere(h, gs[j]) /\ KeyAt(h, gs[j]) # v
          /\ RowsFor(h, GroupRows(h, gs[j]), t, KeyAt(h, gs[j]), m)
      BY <1>1, <2>2 DEF GroupsFor, v
    <3>2. RowsFor(h, GroupRows(h, gs[j]), t, KeyAt(h, gs[j]), m + 1)
      BY <3>1, RowsForSkip DEF v
    <3> QED  BY <3>1, <3>2
  <2> QED  BY <2>1, <2>2
<1>10. \A n \in 1..(m + 1) : \E j \in DOMAIN gs : KeyAt(h, y[j]) = t[n]
  <2> TAKE n \in 1..(m + 1)
  <2>1. CASE n \in 1..m
    BY <1>8, <2>1 DEF GroupsFor
  <2>2. CASE n = m + 1
    BY <1>8, <2>2
  <2> QED  BY <2>1, <2>2
<1>11. \A j, l \in DOMAIN gs : KeyAt(h, y[j]) = KeyAt(h, y[l]) => j = l
  BY <1>8 DEF GroupsFor
<1> QED  BY <1>1, <1>4, <1>9, <1>10, <1>11 DEF GroupsFor

\* Other groups for the partition at p
LEMMA RegroupGrows ==
  ASSUME NEW h \in Heaps, NEW r, OnlyCounts(h, r), DOMAIN r = 1..Len(h), NEW p \in 1..Len(h), NEW gs
  PROVE  LET g == [r EXCEPT ![p] = [r[p] EXCEPT !.groups = gs]] IN
         g \in Heaps => Grows(h, g, p) /\ g[p].groups = gs /\ g[p].empty = h[p].empty /\ Len(g) = Len(h)
<1> DEFINE g == [r EXCEPT ![p] = [r[p] EXCEPT !.groups = gs]]
<1> SUFFICES ASSUME g \in Heaps
             PROVE  Grows(h, g, p) /\ g[p].groups = gs /\ g[p].empty = h[p].empty /\ Len(g) = Len(h)
  OBVIOUS
<1>1. /\ Len(h) \in Nat /\ Len(r) = Len(h) /\ h[p] \in Objects
      /\ \A b \in 1..Len(h) : /\ r[b].rows = h[b].rows /\ r[b].groups = h[b].groups /\ r[b].empty = h[b].empty
                              /\ r[b].text = h[b].text
  BY OnlyCountsFacts, HeapFacts
<1> DEFINE o == r[p]
           x == [o EXCEPT !.groups = gs]
<1>2. g[p] = x /\ DOMAIN g = 1..Len(h) /\ \A b \in 1..Len(h) : b # p => g[b] = r[b]
  OBVIOUS
<1>3. {"groups", "empty", "rows", "text"} \subseteq DOMAIN o
  <2> DEFINE q == h[p]
             c == o.refs
  <2>1. q \in Objects /\ o = [q EXCEPT !.refs = c]
    BY <1>1 DEF OnlyCounts
  <2> HIDE DEF q, c, o
  <2>2. {"groups", "empty", "rows", "text"} \subseteq DOMAIN q
    BY <2>1 DEF Objects
  <2>3. DOMAIN o = DOMAIN q
    BY <2>1
  <2> QED  BY <2>2, <2>3
<1>4. Len(g) = Len(h)
  BY <1>1, <1>2, HeapFacts
<1> HIDE DEF o
<1>5. x.groups = gs /\ x.empty = o.empty /\ x.rows = o.rows /\ x.text = o.text
  BY <1>3
<1> HIDE DEF x
<1>6. o.empty = h[p].empty /\ o.rows = h[p].rows /\ o.text = h[p].text
  BY <1>1 DEF o
<1>7. \A a \in 1..Len(h) : /\ g[a].text = h[a].text /\ g[a].rows = h[a].rows
                           /\ a # p => g[a].groups = h[a].groups /\ g[a].empty = h[a].empty
  <2> TAKE a \in 1..Len(h)
  <2>1. CASE a = p
    BY <1>2, <1>5, <1>6, <2>1
  <2>2. CASE a # p
    BY <1>1, <1>2, <2>2
  <2> QED  BY <2>1, <2>2
<1> QED  BY <1>1, <1>2, <1>4, <1>5, <1>6, <1>7 DEF Grows

\* One more row in its partition
LEMMA PartitionCursorGroups ==
  ASSUME NEW h \in Heaps, NEW p \in 1..Len(h), Unextracted(h, p), NEW t, NEW m \in Nat, Grouped(h, p, t, m),
         NEW k \in RowOf(1), NEW row \in RowOf(1), k.refs = row.refs, row.n = m + 1,
         HasValue(h, row.refs[1], t[m + 1]),
         PartitionCursor(h, p, k, row) \in Heaps
  PROVE  LET g == PartitionCursor(h, p, k, row) IN Grows(h, g, p) /\ Grouped(g, p, t, m + 1)
<1> DEFINE known == GroupsOf(h, p, k)
           i == CHOOSE i \in known : TRUE
           gs == h[p].groups
           fresh == [key |-> k, rows |-> <<row>>, set |-> Null]
           groups == IF known = {} THEN Append(gs, fresh) ELSE [gs EXCEPT ![i].rows = Append(@, row)]
           kept == row.refs \o (IF known = {} THEN k.refs ELSE << >>)
           r == Retain(h, kept)
           g == PartitionCursor(h, p, k, row)
           v == t[m + 1]
<1>1. h[p] \in Objects /\ gs \in Seq(AnyGroup) /\ DOMAIN h = 1..Len(h) /\ Len(h) \in Nat
  <2>1. h[p] \in Objects /\ DOMAIN h = 1..Len(h) /\ Len(h) \in Nat
    BY HeapFacts
  <2> QED  BY <2>1, ObjectFacts
<1>2. known = {j \in DOMAIN gs : KeyAt(h, gs[j]) = v}
  BY DEF GroupsOf, SameKey, KeyAt, HasValue
<1>3. GroupsFor(h, gs, t, m) /\ NoRows(h, h[p].empty)
  BY DEF Grouped
<1>4. g = [r EXCEPT ![p] = [r[p] EXCEPT !.groups = groups]] /\ g \in Heaps
  BY DEF PartitionCursor
<1>5. OnlyCounts(h, r) /\ DOMAIN r = 1..Len(h)
  <2>1. DOMAIN r = DOMAIN h
    BY DEF Retain
  <2> HIDE DEF kept
  <2> QED  BY <1>1, <2>1, RetainOnlyCounts
<1> HIDE DEF g, r, kept
<1>6. Grows(h, g, p) /\ g[p].groups = groups /\ g[p].empty = h[p].empty /\ Len(g) = Len(h)
  <2> HIDE DEF groups, known, i, gs
  <2> DEFINE u == [r EXCEPT ![p] = [r[p] EXCEPT !.groups = groups]]
  <2>1. u \in Heaps => Grows(h, u, p) /\ u[p].groups = groups /\ u[p].empty = h[p].empty /\ Len(u) = Len(h)
    BY <1>5, RegroupGrows, Zenon
  <2> QED  BY <1>4, <2>1
<1>7. GroupsFor(h, groups, t, m + 1)
  <2>1. CASE known = {}
    <3>1. \A j \in DOMAIN gs : KeyAt(h, gs[j]) # v
      BY <1>2, <2>1
    <3> HIDE DEF gs, known
    <3>2. groups = Append(gs, fresh)
      BY <2>1
    <3> QED  BY <1>1, <1>3, <3>1, <3>2, GroupsForFresh
  <2>2. CASE known # {}
    <3>1. i \in known
      BY <2>2
    <3>2. i \in DOMAIN gs /\ KeyAt(h, gs[i]) = v /\ gs[i].set = Null
      BY <1>2, <3>1 DEF Unextracted
    <3>3. groups = [gs EXCEPT ![i].rows = Append(@, row)]
      BY <2>2
    <3> HIDE DEF gs, known, i, groups
    <3> QED  BY <1>1, <1>3, <3>2, <3>3, GroupsForKnown
  <2> QED  BY <2>1, <2>2
<1> HIDE DEF groups
<1>8. GroupsFor(g, groups, t, m + 1) /\ NoRows(g, h[p].empty)
  BY <1>3, <1>4, <1>6, <1>7, GroupsForGrow, NoRowsGrow
<1>9. p \in DOMAIN g
  BY <1>4, <1>6, HeapFacts
<1> QED  BY <1>6, <1>8, <1>9 DEF Grouped, g

-----------------------------------------------------------------------------
(* Extracting *)

\* The rows of a group move from its buffer to a set.
LEMMA GroupsForMoved ==
  ASSUME NEW h, NEW gs, NEW t, NEW m, GroupsFor(h, gs, t, m),
         NEW i \in DOMAIN gs, gs[i].set = Null, NEW a \in DOMAIN h, a # Null, h[a].rows = gs[i].rows,
         NEW y, DOMAIN y = DOMAIN gs, y[i].key = gs[i].key, y[i].set = a, \A j \in DOMAIN gs : j # i => y[j] = gs[j]
  PROVE  /\ GroupsFor(h, y, t, m)
         /\ \A j \in DOMAIN gs : /\ KeyAt(h, y[j]) = KeyAt(h, gs[j])
                                 /\ gs[j].set # Null => y[j].set = gs[j].set
<1>1. GroupThere(h, y[i]) /\ KeyAt(h, y[i]) = KeyAt(h, gs[i]) /\ GroupRows(h, y[i]) = GroupRows(h, gs[i])
  BY DEF GroupsFor, GroupThere, KeyAt, GroupRows
<1>2. \A j \in DOMAIN gs : KeyAt(h, y[j]) = KeyAt(h, gs[j]) /\ GroupThere(h, y[j]) /\ GroupRows(h, y[j]) = GroupRows(h, gs[j])
  BY <1>1 DEF GroupsFor
<1>3. GroupsFor(h, y, t, m)
  BY <1>2 DEF GroupsFor
<1> QED  BY <1>2, <1>3

\* A group whose rows are in a set
LEMMA GroupMoved ==
  ASSUME NEW gs \in Seq(AnyGroup), NEW i \in DOMAIN gs, NEW a \in Nat
  PROVE  LET y == [gs EXCEPT ![i] = [@ EXCEPT !.rows = << >>, !.set = a]] IN
         /\ y \in Seq(AnyGroup) /\ DOMAIN y = DOMAIN gs /\ y[i].key = gs[i].key /\ y[i].set = a
         /\ \A j \in DOMAIN gs : j # i => y[j] = gs[j]
<1> DEFINE u == gs[i]
           x == [u EXCEPT !.rows = << >>, !.set = a]
           y == [gs EXCEPT ![i] = x]
           none == << >>
<1>1. DOMAIN y = DOMAIN gs /\ y[i] = x /\ \A j \in DOMAIN gs : j # i => y[j] = gs[j]
  OBVIOUS
<1>2. u \in AnyGroup /\ none \in Seq(AnyRow) /\ x = [u EXCEPT !.rows = none, !.set = a]
  OBVIOUS
<1> HIDE DEF u, none, x
<1>3. x \in AnyGroup /\ x.key = u.key /\ x.set = a
  BY <1>2, ExtractGroup, ZenonT(40)
<1>4. y \in Seq(AnyGroup)
  BY <1>3
<1>5. y = [gs EXCEPT ![i] = [@ EXCEPT !.rows = << >>, !.set = a]]
  BY DEF x, u
<1> HIDE DEF y
<1> QED  BY <1>1, <1>3, <1>4, <1>5 DEF u

LEMMA UpdateGrows ==
  ASSUME NEW h \in Heaps, NEW p \in 1..Len(h), NEW q \in Objects, q.rows = h[p].rows, q.text = h[p].text
  PROVE  LET g == [h EXCEPT ![p] = q] IN
         /\ g \in Heaps /\ Len(g) = Len(h) /\ g[p] = q /\ Grows(h, g, p)
         /\ \A b \in 1..Len(h) : b # p => g[b] = h[b]
         /\ q.groups = h[p].groups /\ q.empty = h[p].empty => Grows(h, g, Null)
<1> DEFINE g == [h EXCEPT ![p] = q]
<1>1. g \in Heaps /\ Len(g) = Len(h) /\ g[p] = q /\ \A b \in 1..Len(h) : b # p => g[b] = h[b]
  BY HeapFacts DEF Heaps
<1>2. Len(h) \in Nat
  BY HeapFacts
<1> HIDE DEF g
<1>3. Grows(h, g, p) /\ (q.groups = h[p].groups /\ q.empty = h[p].empty => Grows(h, g, Null))
  BY <1>1, <1>2 DEF Grows
<1> QED  BY <1>1, <1>3 DEF g

LEMMA FlagSet ==
  ASSUME NEW q \in Objects
  PROVE  LET z == [q EXCEPT !.extracting = TRUE] IN
         z \in Objects /\ z.rows = q.rows /\ z.text = q.text /\ z.groups = q.groups /\ z.empty = q.empty
BY DEF Objects

LEMMA GroupsSet ==
  ASSUME NEW q \in Objects, NEW gs \in Seq(AnyGroup), NEW e \in Nat
  PROVE  /\ LET z == [q EXCEPT !.groups = gs] IN
            z \in Objects /\ z.rows = q.rows /\ z.text = q.text /\ z.groups = gs /\ z.empty = q.empty
         /\ LET z == [q EXCEPT !.empty = e] IN
            z \in Objects /\ z.rows = q.rows /\ z.text = q.text /\ z.groups = q.groups /\ z.empty = e
BY DEF Objects

\* What was given stays so, and what is asked for is given.
GivesStay(h, g, p) == \A w, s : Gives(h, p, w, s) => Gives(g, p, w, s)

LEMMA ExtractGroupsFor ==
  ASSUME NEW h \in Heaps, NEW p \in 1..Len(h), NEW t, NEW m, Grouped(h, p, t, m),
         NEW k, NEW v, HasValue(h, k.refs[1], v), ExtractPartition(h, p, k).heap \in Heaps
  PROVE  LET e == ExtractPartition(h, p, k) IN
         /\ Grows(h, e.heap, p) /\ Grouped(e.heap, p, t, m)
         /\ Gives(e.heap, p, v, e.set) /\ GivesStay(h, e.heap, p)
<1> DEFINE known == GroupsOf(h, p, k)
           i == CHOOSE g \in known : TRUE
           q == [h[p] EXCEPT !.extracting = TRUE]
           begun == [h EXCEPT ![p] = q]
           gs == h[p].groups
           shared == IF known # {} THEN gs[i].set ELSE h[p].empty
           rs == IF known # {} THEN gs[i].rows ELSE << >>
           fresh == Object("set", NoKey, rs, << >>)
           a == Len(h) + 1
           made == New(begun, fresh)
           x == [gs[i] EXCEPT !.rows = << >>, !.set = a]
           more == [gs EXCEPT ![i] = [@ EXCEPT !.rows = << >>, !.set = a]]
           z == IF known # {} THEN [q EXCEPT !.groups = more] ELSE [q EXCEPT !.empty = a]
           kept == [made EXCEPT ![p] = z]
           e == ExtractPartition(h, p, k)
<1>1. /\ h[p] \in Objects /\ Len(h) \in Nat /\ DOMAIN h = 1..Len(h) /\ p # Null
      /\ GroupsFor(h, gs, t, m) /\ NoRows(h, h[p].empty)
  BY HeapFacts DEF Null, Grouped
<1>2. gs \in Seq(AnyGroup) /\ h[p].empty \in Nat
  BY <1>1, ObjectFacts
<1>3. known = {j \in DOMAIN gs : KeyAt(h, gs[j]) = v}
  BY DEF GroupsOf, SameKey, KeyAt, HasValue
<1>4. known # {} => i \in known /\ i \in DOMAIN gs /\ KeyAt(h, gs[i]) = v
  BY <1>3
<1>5. q \in Objects /\ q.rows = h[p].rows /\ q.text = h[p].text /\ q.groups = gs /\ q.empty = h[p].empty
  <2> DEFINE o == h[p]
  <2>1. o \in Objects
    BY <1>1
  <2> HIDE DEF o
  <2>2. LET y == [o EXCEPT !.extracting = TRUE] IN
        y \in Objects /\ y.rows = o.rows /\ y.text = o.text /\ y.groups = o.groups /\ y.empty = o.empty
    BY <2>1, FlagSet
  <2> QED  BY <2>2 DEF o
<1>6. begun = [h EXCEPT ![p].extracting = TRUE]
  OBVIOUS
<1>7. e = IF shared # Null THEN [heap |-> Retain(begun, <<shared>>), set |-> shared]
          ELSE [heap |-> Retain(kept, <<a>>), set |-> a]
  <2>1. made[p] = q /\ p \in DOMAIN made
    <3>1. begun \in Seq(Objects) /\ Len(begun) = Len(h) /\ begun[p] = q
      BY <1>1, <1>5 DEF Heaps
    <3> HIDE DEF begun, fresh, q
    <3> QED  BY <1>1, <3>1 DEF New
  <2> HIDE DEF q, fresh, rs
  <2>2. CASE known # {}
    <3>1. kept = [made EXCEPT ![p].groups[i] = [@ EXCEPT !.rows = << >>, !.set = a]]
      BY <1>5, <2>1, <2>2
    <3> QED  BY <1>6, <2>2, <3>1 DEF ExtractPartition, fresh, rs
  <2>3. CASE known = {}
    <3>1. kept = [made EXCEPT ![p].empty = a]
      BY <1>5, <2>1, <2>3
    <3> QED  BY <1>6, <2>3, <3>1 DEF ExtractPartition, fresh, rs
  <2> QED  BY <2>2, <2>3
<1>8. e.heap \in Heaps
  OBVIOUS
<1> HIDE DEF e, q
<1>9. begun \in Heaps /\ Len(begun) = Len(h) /\ begun[p] = q /\ Grows(h, begun, Null) /\ Grows(h, begun, p)
  BY <1>5, UpdateGrows
<1>10. CASE shared # Null
  <2>1. e.set = shared /\ e.heap = Retain(begun, <<shared>>)
    BY <1>7, <1>10
  <2>2. Gives(h, p, v, shared)
    <3>1. CASE known # {}
      BY <1>4, <1>10, <3>1 DEF Gives, GivesFrom
    <3>2. CASE known = {}
      BY <1>3, <1>10, <3>2 DEF Gives, GivesFrom
    <3> QED  BY <3>1, <3>2
  <2> HIDE DEF known, i, begun, gs, shared
  <2>3. OnlyCounts(begun, e.heap)
    BY <1>9, <2>1, RetainOnlyCounts
  <2>4. Grows(begun, e.heap, Null) /\ Grows(begun, e.heap, p)
    BY <1>9, <2>3, OnlyCountsGrow
  <2>5. Grows(h, e.heap, Null) /\ Grows(h, e.heap, p)
    BY <1>8, <1>9, <2>4, GrowsTransitive
  <2>6. Grouped(e.heap, p, t, m) /\ \A w, s : Gives(h, p, w, s) => Gives(e.heap, p, w, s)
    BY <1>1, <1>8, <2>5, GroupedGrows
  <2> QED  BY <2>1, <2>2, <2>5, <2>6 DEF e, GivesStay
<1>11. CASE shared = Null
  <2>1. e.set = a /\ e.heap = Retain(kept, <<a>>)
    BY <1>7, <1>11
  <2>2. rs \in Seq(AnyRow)
    <3>1. CASE known # {}
      <4>1. gs[i] \in AnyGroup
        BY <1>2, <1>4, <3>1
      <4> QED  BY <3>1, <4>1, GroupFacts
    <3>2. CASE known = {}
      BY <3>2
    <3> QED  BY <3>1, <3>2
  <2>3. fresh \in Objects /\ fresh.rows = rs
    <3> HIDE DEF rs
    <3>1. NoKey \in Values
      BY DEF Values
    <3> QED  BY <2>2, <3>1, ObjectMade
  <2> HIDE DEF fresh, begun
  <2>4. Grows(begun, made, Null) /\ Grows(begun, made, p) /\ made \in Heaps /\ Len(made) = a /\ made[a] = fresh
    BY <1>9, <2>3, NewGrows
  <2>5. made[p] = q
    BY <1>9, <2>3, OwnedCountNew
  <2>6. a \in Nat /\ a # Null /\ a # p
    BY <1>1 DEF Null
  <2> DEFINE empty == IF known # {} THEN h[p].empty ELSE a
             groups == IF known # {} THEN more ELSE gs
  <2>7. z \in Objects /\ z.rows = q.rows /\ z.text = q.text /\ z.groups = groups /\ z.empty = empty
    <3>1. CASE known # {}
      <4>1. more \in Seq(AnyGroup)
        <5>1. i \in DOMAIN gs
          BY <1>4, <3>1
        <5> HIDE DEF gs, i, a
        <5> QED  BY <1>2, <2>6, <5>1, GroupMoved
      <4>2. z = [q EXCEPT !.groups = more]
        BY <3>1
      <4>3. groups = more /\ empty = q.empty
        BY <1>5, <3>1
      <4> HIDE DEF more, z, groups, empty, a
      <4> QED  BY <1>5, <2>6, <4>1, <4>2, <4>3, GroupsSet, ZenonT(40)
    <3>2. CASE known = {}
      <4>1. z = [q EXCEPT !.empty = a] /\ groups = q.groups /\ empty = a /\ q.groups \in Seq(AnyGroup)
        BY <1>2, <1>5, <3>2
      <4> HIDE DEF z, groups, empty, a
      <4> QED  BY <1>5, <2>6, <4>1, GroupsSet, ZenonT(40)
    <3> QED  BY <3>1, <3>2
  <2> HIDE DEF z, made
  <2>8. kept \in Heaps /\ Len(kept) = a /\ kept[p] = z /\ kept[a] = fresh /\ Grows(made, kept, p)
    <3>1. p \in 1..Len(made) /\ z.rows = made[p].rows /\ z.text = made[p].text /\ a \in 1..Len(made)
      BY <1>1, <2>4, <2>5, <2>7
    <3> HIDE DEF a, fresh, groups, empty
    <3>2. LET g == [made EXCEPT ![p] = z] IN
          /\ g \in Heaps /\ Len(g) = Len(made) /\ g[p] = z /\ Grows(made, g, p)
          /\ \A b \in 1..Len(made) : b # p => g[b] = made[b]
          /\ z.groups = made[p].groups /\ z.empty = made[p].empty => Grows(made, g, Null)
      <4> HIDE DEF kept
      <4> QED  BY <2>4, <2>7, <3>1, UpdateGrows, Zenon
    <3> QED  BY <2>4, <2>6, <3>1, <3>2
  <2> HIDE DEF kept
  <2>9. Grows(h, kept, p)
    <3>1. Grows(h, made, p)
      BY <1>9, <2>4, GrowsTransitive
    <3> QED  BY <2>4, <2>8, <3>1, GrowsTransitive
  <2>10. GroupsFor(kept, gs, t, m) /\ NoRows(kept, h[p].empty) /\ \A j \in DOMAIN gs : KeyAt(kept, gs[j]) = KeyAt(h, gs[j])
    BY <1>1, <2>8, <2>9, GroupsForGrow, NoRowsGrow
  <2>11. a \in DOMAIN kept /\ p \in DOMAIN kept
    BY <1>1, <2>8, HeapFacts
  <2>12. /\ GroupsFor(kept, groups, t, m) /\ NoRows(kept, empty) /\ GivesFrom(kept, groups, empty, v, a)
         /\ \A w, s : GivesFrom(h, gs, h[p].empty, w, s) => GivesFrom(kept, groups, empty, w, s)
    <3>1. CASE known # {}
      <4>1. i \in DOMAIN gs /\ gs[i].set = Null /\ kept[a].rows = gs[i].rows /\ KeyAt(h, gs[i]) = v
        BY <1>4, <1>11, <2>3, <2>8, <3>1
      <4>2. groups = more /\ empty = h[p].empty
        BY <3>1
      <4> HIDE DEF gs, i, groups, empty, a
      <4>3. /\ GroupsFor(kept, more, t, m) /\ DOMAIN more = DOMAIN gs /\ more[i].set = a
            /\ \A j \in DOMAIN gs : /\ KeyAt(kept, more[j]) = KeyAt(kept, gs[j])
                                    /\ gs[j].set # Null => more[j].set = gs[j].set
        <5>1. /\ DOMAIN more = DOMAIN gs /\ more[i].key = gs[i].key /\ more[i].set = a
              /\ \A j \in DOMAIN gs : j # i => more[j] = gs[j]
          BY <1>2, <2>6, <4>1, GroupMoved
        <5> HIDE DEF more
        <5> QED  BY <2>6, <2>10, <2>11, <4>1, <5>1, GroupsForMoved
      <4> HIDE DEF more
      <4>4. \A j \in DOMAIN gs : KeyAt(kept, more[j]) = KeyAt(h, gs[j])
        BY <2>10, <4>3
      <4>5. GivesFrom(kept, more, empty, v, a)
        BY <2>6, <4>1, <4>3, <4>4 DEF GivesFrom
      <4>6. ASSUME NEW w, NEW s, GivesFrom(h, gs, empty, w, s) PROVE GivesFrom(kept, more, empty, w, s)
        <5>1. s # Null
          BY <4>6 DEF GivesFrom
        <5>2. CASE \E j \in DOMAIN gs : KeyAt(h, gs[j]) = w /\ gs[j].set = s
          <6>1. PICK j \in DOMAIN gs : KeyAt(h, gs[j]) = w /\ gs[j].set = s
            BY <5>2
          <6>2. j \in DOMAIN more /\ KeyAt(kept, more[j]) = w /\ more[j].set = s
            BY <4>3, <4>4, <5>1, <6>1
          <6> QED  BY <5>1, <6>2 DEF GivesFrom
        <5>3. CASE (\A j \in DOMAIN gs : KeyAt(h, gs[j]) # w) /\ empty = s
          BY <4>3, <4>4, <5>1, <5>3 DEF GivesFrom
        <5> QED  BY <4>6, <5>2, <5>3 DEF GivesFrom
      <4> QED  BY <2>10, <4>2, <4>3, <4>5, <4>6
    <3>2. CASE known = {}
      <4>1. groups = gs /\ empty = a /\ h[p].empty = Null /\ \A j \in DOMAIN gs : KeyAt(h, gs[j]) # v
        BY <1>3, <1>11, <3>2
      <4>2. kept[a].rows = << >>
        BY <2>3, <2>8, <3>2
      <4> HIDE DEF gs, groups, empty, a
      <4>3. NoRows(kept, a)
        BY <2>11, <4>2 DEF NoRows
      <4>4. GivesFrom(kept, gs, a, v, a)
        BY <2>6, <2>10, <4>1 DEF GivesFrom
      <4>5. ASSUME NEW w, NEW s, GivesFrom(h, gs, Null, w, s) PROVE GivesFrom(kept, gs, a, w, s)
        BY <2>10, <4>5 DEF GivesFrom
      <4> QED  BY <2>10, <4>1, <4>3, <4>4, <4>5
    <3> QED  BY <3>1, <3>2
  <2>13. Grouped(kept, p, t, m) /\ Gives(kept, p, v, a) /\ \A w, s : Gives(h, p, w, s) => Gives(kept, p, w, s)
    <3> HIDE DEF groups, empty, gs, a
    <3>1. kept[p].groups = groups /\ kept[p].empty = empty
      BY <2>7, <2>8
    <3> QED  BY <2>11, <2>12, <3>1 DEF Grouped, Gives, gs
  <2> HIDE DEF a, gs
  <2>14. OnlyCounts(kept, e.heap)
    BY <2>1, <2>8, RetainOnlyCounts
  <2>15. Grows(kept, e.heap, Null) /\ Grows(kept, e.heap, p)
    BY <2>8, <2>14, OnlyCountsGrow
  <2>16. Grouped(e.heap, p, t, m) /\ \A w, s : Gives(kept, p, w, s) => Gives(e.heap, p, w, s)
    BY <1>1, <1>8, <2>8, <2>13, <2>15, GroupedGrows
  <2>17. Grows(h, e.heap, p)
    BY <1>8, <2>8, <2>9, <2>15, GrowsTransitive
  <2> QED  BY <2>1, <2>13, <2>16, <2>17 DEF e, GivesStay
<1> QED  BY <1>10, <1>11

-----------------------------------------------------------------------------
(* The join at each statement *)

\* The rows of child d that are in its partition, once there is one
Filled(d) ==
  IF at.c # d THEN Len(tables.child[d])
  ELSE CASE at.do = "call"      -> 0
         [] at.do = "fetch"     -> served
         [] at.do = "partition" -> served - 1
         [] OTHER               -> Len(tables.child[d])

PartitionsApart == \A c, d \in Children : c # d /\ partition[c] # Null => partition[c] # partition[d]

Partitioned ==
  at.do \notin {"error", "returned"} =>
    \A d \in Children : d <= Made => Grouped(heap, partition[d], tables.child[d], Filled(d))

\* The row that was read from the child, if one was, is the next one.
RowRead ==
  /\ at.do = "fetch" => served <= Len(tables.child[at.c])
  /\ at.do = "partition" => /\ served \in 1..Len(tables.child[at.c])
                            /\ child[at.c].n = served
                            /\ HasValue(heap, child[at.c].refs[1], tables.child[at.c][served])
  /\ at.do \in {"create", "call", "fetch", "partition", "call_parent"} => rows = << >>

\* r is row n of the parent, whose values are t, with the sets of the first k children.
RowDone(h, ps, t, r, n, k) ==
  /\ r.n = n /\ HasValue(h, r.refs[1], t[n])
  /\ \A c \in 1..k : Gives(h, ps[c], t[n], r.refs[1 + c])

Late == {"fetch_parent", "load_keys", "extract", "out_union", "finish"}

\* The rows that are joined are the first ones of the parent; out is the next.
Joining ==
  /\ at.do = "fetch_parent" => served = Len(rows) /\ served <= Len(tables.parent)
  /\ at.do = "finish" => Len(rows) = Len(tables.parent)
  /\ at.do \in {"load_keys", "extract", "out_union"} =>
       served \in 1..Len(tables.parent) /\ Len(rows) = served - 1
  /\ at.do = "load_keys" => parent.n = served /\ HasValue(heap, parent.refs[1], tables.parent[served])
  /\ at.do = "extract" =>
       /\ \A d \in Children : HasValue(heap, key[d].refs[1], tables.parent[served])
       /\ RowDone(heap, partition, tables.parent, out, served, at.c - 1)
  /\ at.do = "out_union" => RowDone(heap, partition, tables.parent, out, served, NChildren)
  /\ at.do \in Late => \A i \in DOMAIN rows : RowDone(heap, partition, tables.parent, rows[i], i, NChildren)

\* rs is the parent's rows with their sets.
Joined(h, ts, rs) ==
  /\ Len(rs) = Len(ts.parent)
  /\ \A i \in DOMAIN rs : /\ rs[i].n = i /\ HasValue(h, rs[i].refs[1], ts.parent[i])
                          /\ \A c \in Children : SetFor(h, rs[i].refs[1 + c], ts.child[c], ts.parent[i])
  /\ \A i, j \in DOMAIN rs, c \in Children :
       ts.parent[i] = ts.parent[j] => rs[i].refs[1 + c] = rs[j].refs[1 + c]

Delivering ==
  /\ result # Null => Joined(heap, tables, heap[result].rows)
  /\ \A x \in held : /\ x.row \in DOMAIN tables.parent /\ x.child \in Children
                     /\ SetFor(heap, x.set, tables.child[x.child], tables.parent[x.row])

JInv == PartitionsApart /\ Partitioned /\ RowRead /\ Joining /\ Delivering

LEMMA InputFacts ==
  ASSUME NEW t \in Inputs
  PROVE  Len(t) \in Nat /\ DOMAIN t = 1..Len(t) /\ \A n \in 1..Len(t) : t[n] \in Values
<1>1. PICK N \in 0..MaxRows : t \in [1..N -> Values]
  BY DEF Inputs
<1>2. N \in Nat /\ Len(t) = N
  BY <1>1, ParentChildAssumption
<1> QED  BY <1>1, <1>2

LEMMA TableFacts ==
  ASSUME TypeOK
  PROVE  /\ \A c \in Children : tables.child[c] \in Inputs
         /\ tables.parent \in Inputs
         /\ at = [do |-> at.do, c |-> at.c] /\ served \in Nat
BY DEF TypeOK

\* Before the procedure returns nothing was delivered.
LEMMA NotYet ==
  ASSUME IInv', at' # Stmt("returned")
  PROVE  Delivering'
BY DEF IInv, Control, Delivering

LEMMA Apart ==
  ASSUME PartitionsApart, partition' = partition
  PROVE  PartitionsApart'
BY DEF PartitionsApart

\* The partitions that are made keep their rows.
LEMMA GroupedKept ==
  ASSUME IInv, Partitioned, at.do \notin {"error", "returned"}, heap' \in Heaps, NEW p, Grows(heap, heap', p),
         NEW d \in Children, d <= Made, partition[d] # p
  PROVE  /\ partition[d] # Null
         /\ Grouped(heap, partition[d], tables.child[d], Filled(d))
         /\ Grouped(heap', partition[d], tables.child[d], Filled(d))
         /\ \A v, s : Gives(heap, partition[d], v, s) => Gives(heap', partition[d], v, s)
<1>1. heap \in Heaps /\ partition[d] # Null
  BY Before DEF Control
<1>2. Grouped(heap, partition[d], tables.child[d], Filled(d))
  BY DEF Partitioned
<1> QED  BY <1>1, <1>2, GroupedGrows

LEMMA CreatePartitionJoins ==
  ASSUME IInv, JInv, NEW c \in Children, CreatePartition(c)
  PROVE  JInv'
<1> DEFINE o == Object("partition", NoKey, << >>, << >>)
           N == Len(heap)
<1>1. TypeOK /\ Control /\ heap \in Heaps /\ PartitionsThere(heap, partition) /\ IInv' /\ heap' \in Heaps
  BY Before, CreatePartitionKeeps DEF IInv, TypeOK
<1>2. /\ at = [do |-> "create", c |-> c] /\ at.do = "create" /\ at.c = c
      /\ heap' = New(heap, o) /\ partition' = [partition EXCEPT ![c] = Len(heap')]
      /\ at' = [do |-> "call", c |-> c] /\ at'.do = "call" /\ at'.c = c
      /\ UNCHANGED << tables, rows, served >>
  BY DEF CreatePartition, Begin
<1>3. o \in Objects /\ o.groups = << >> /\ o.empty = Null
  <2>1. o.empty = Null
    BY DEF Object
  <2> QED  BY <2>1, PartitionMade
<1> HIDE DEF o
<1>4. /\ Grows(heap, heap', Null) /\ Len(heap') = N + 1 /\ heap'[N + 1] = o /\ N \in Nat
      /\ DOMAIN heap = 1..N /\ N + 1 \in DOMAIN heap'
  BY <1>1, <1>2, <1>3, NewGrows, HeapFacts
<1>5. /\ partition' \in [Children -> Nat] /\ partition'[c] = N + 1
      /\ \A d \in Children : d # c => partition'[d] = partition[d] /\ (partition[d] # Null => partition[d] \in 1..N)
  BY <1>1, <1>2, <1>4 DEF TypeOK, PartitionsThere
<1>6. PartitionsApart'
  <2> SUFFICES ASSUME NEW d \in Children, NEW f \in Children, d # f, partition'[d] # Null
               PROVE  partition'[d] # partition'[f]
    BY DEF PartitionsApart
  <2>1. CASE d = c
    BY <1>4, <1>5, <2>1 DEF Null
  <2>2. CASE d # c /\ f = c
    BY <1>4, <1>5, <2>2 DEF Null
  <2>3. CASE d # c /\ f # c
    BY <1>5, <2>3 DEF JInv, PartitionsApart
  <2> QED  BY <2>1, <2>2, <2>3
<1>7. c \in Nat /\ Children \subseteq Nat
  BY ParentChildAssumption DEF Children
<1>8. ASSUME NEW d \in Children, d <= c
      PROVE  Grouped(heap', partition'[d], tables'.child[d], Filled(d)')
  <2>1. CASE d = c
    <3>1. Filled(d)' = 0
      BY <1>2, <2>1 DEF Filled
    <3>2. GroupsFor(heap', << >>, tables.child[d], 0) /\ NoRows(heap', Null)
      BY DEF GroupsFor, NoRows
    <3> QED  BY <1>2, <1>3, <1>4, <1>5, <2>1, <3>1, <3>2 DEF Grouped
  <2>2. CASE d # c
    <3>1. d <= Made /\ Filled(d) = Len(tables.child[d]) /\ Filled(d)' = Len(tables'.child[d])
      BY <1>2, <1>7, <1>8, <2>2 DEF Made, Filled
    <3>2. partition[d] # Null
      BY <1>1, <1>2, <3>1 DEF Control
    <3>3. Grouped(heap', partition[d], tables.child[d], Filled(d))
      BY <1>1, <1>2, <1>4, <3>1, <3>2, GroupedKept DEF JInv
    <3> QED  BY <1>2, <1>5, <2>2, <3>1, <3>3
  <2> QED  BY <2>1, <2>2
<1>9. Partitioned'
  BY <1>2, <1>8 DEF Partitioned, Made
<1>10. RowRead' /\ Joining'
  BY <1>2 DEF JInv, RowRead, Joining, Late
<1>11. Delivering'
  BY <1>1, <1>2, NotYet DEF Stmt
<1> QED  BY <1>6, <1>9, <1>10, <1>11 DEF JInv

LEMMA CallChildJoins ==
  ASSUME IInv, JInv, NEW c \in Children, CallChild(c)
  PROVE  JInv'
<1>1. TypeOK /\ IInv'
  BY Before, CallChildKeeps
<1>2. /\ at = [do |-> "call", c |-> c] /\ at.do = "call" /\ at.c = c /\ served' = 0
      /\ UNCHANGED << tables, heap, partition, rows >>
      /\ \/ at' = [do |-> "error", c |-> 0] /\ at'.do = "error"
         \/ at' = [do |-> "fetch", c |-> c] /\ at'.do = "fetch" /\ at'.c = c
  BY DEF CallChild, Fails, Stmt
<1>3. tables.child[c] \in Inputs
  BY <1>1, TableFacts
<1>4. Len(tables.child[c]) \in Nat
  BY <1>3, InputFacts
<1>5. PartitionsApart'
  BY <1>2, Apart DEF JInv
<1>6. Partitioned'
  <2>1. CASE at'.do = "error"
    BY <2>1 DEF Partitioned
  <2>2. CASE at'.do = "fetch"
    <3>1. Made' = Made /\ \A d : Filled(d)' = Filled(d)
      BY <1>2, <2>2 DEF Made, Filled
    <3> QED  BY <1>2, <2>2, <3>1 DEF JInv, Partitioned
  <2> QED  BY <1>2, <2>1, <2>2
<1>7. RowRead' /\ Joining'
  BY <1>2, <1>4 DEF JInv, RowRead, Joining, Late
<1>8. Delivering'
  BY <1>1, <1>2, NotYet DEF Stmt
<1> QED  BY <1>5, <1>6, <1>7, <1>8 DEF JInv

LEMMA FetchChildJoins ==
  ASSUME IInv, JInv, NEW c \in Children, FetchChild(c)
  PROVE  JInv'
<1> DEFINE t == tables.child[c]
<1>1. /\ TypeOK /\ Control /\ heap \in Heaps /\ IInv' /\ heap' \in Heaps /\ Grows(heap, heap', Null)
      /\ child \in [Children -> RowOf(1)]
  BY Before, FetchChildKeeps DEF IInv, TypeOK
<1>2. /\ at = [do |-> "fetch", c |-> c] /\ at.do = "fetch" /\ at.c = c
      /\ UNCHANGED << tables, partition, key, parent, out, tmp, rows, result, held >>
  BY DEF FetchChild
<1>3. t \in Inputs /\ served \in Nat /\ served <= Len(t) /\ rows = << >>
  BY <1>1, <1>2, TableFacts DEF JInv, RowRead
<1>4. Len(t) \in Nat /\ DOMAIN t = 1..Len(t) /\ \A n \in 1..Len(t) : t[n] \in Values
  BY <1>3, InputFacts
<1>5. c \in Nat /\ NChildren \in Nat /\ Children = 1..NChildren /\ c <= NChildren
  BY ParentChildAssumption DEF Children
<1>6. PartitionsApart'
  BY <1>2, Apart DEF JInv
<1>7. ASSUME NEW d \in Children, d <= c
      PROVE  Grouped(heap', partition'[d], tables'.child[d], IF d = c THEN served ELSE Len(tables'.child[d]))
  <2>1. d <= Made /\ Filled(d) = IF d = c THEN served ELSE Len(tables.child[d])
    BY <1>2, <1>7 DEF Made, Filled
  <2>2. partition[d] # Null
    BY <1>1, <1>2, <2>1 DEF Control
  <2>3. Grouped(heap', partition[d], tables.child[d], Filled(d))
    BY <1>1, <1>2, <2>1, <2>2, GroupedKept DEF JInv
  <2> QED  BY <1>2, <2>1, <2>3
<1>8. CASE /\ served < Len(t)
           /\ LET f == FetchRow(heap, child[c], served + 1, t[served + 1])
              IN  heap' = f.heap /\ child' = [child EXCEPT ![c] = f.row]
           /\ served' = served + 1 /\ at' = [do |-> "partition", c |-> c]
  <2> DEFINE num == served + 1
             value == t[num]
             f == FetchRow(heap, child[c], num, value)
  <2>1. num \in Nat /\ num \in 1..Len(t) /\ value \in Values
    BY <1>3, <1>4, <1>8
  <2>2. heap' = f.heap /\ child' = [child EXCEPT ![c] = f.row]
    BY <1>8
  <2>3. served' = num /\ at'.do = "partition" /\ at'.c = c /\ num - 1 = served
    BY <1>3, <1>8
  <2> HIDE DEF num, value
  <2>4. f.row.n = num /\ HasValue(heap', f.row.refs[1], value)
    <3>1. f = ClearRow(heap, child[c]) \/ \E n \in Nat, v \in Values : f = FetchRow(heap, child[c], n, v)
      BY <2>1
    <3> HIDE DEF f
    <3>2. \A n \in Nat, v \in Values :
            f = FetchRow(heap, child[c], n, v) => f.row.n = n /\ HasValue(heap', f.row.refs[1], v)
      BY <1>2, <2>2, <3>1, FetchChildHeap
    <3> QED  BY <2>1, <3>2 DEF f
  <2>5. child'[c] = f.row
    BY <1>1, <2>2
  <2> HIDE DEF f
  <2>6. RowRead'
    BY <1>2, <1>3, <2>1, <2>3, <2>4, <2>5 DEF RowRead, value
  <2>7. Partitioned'
    <3>1. Made' = c /\ \A d : Filled(d)' = IF d = c THEN served ELSE Len(tables'.child[d])
      BY <2>3 DEF Made, Filled
    <3> QED  BY <1>7, <3>1 DEF Partitioned
  <2>8. Joining' /\ Delivering'
    BY <1>1, <1>8, <2>3, NotYet DEF Joining, Late, Stmt
  <2> QED  BY <1>6, <2>6, <2>7, <2>8 DEF JInv
<1>9. CASE /\ UNCHANGED served
           /\ at' = Stmt("error")
  <2>1. at'.do = "error" /\ at' # Stmt("returned")
    BY <1>9 DEF Stmt
  <2>2. Partitioned' /\ RowRead' /\ Joining' /\ Delivering'
    BY <1>1, <2>1, NotYet DEF Partitioned, RowRead, Joining, Late
  <2> QED  BY <1>6, <2>2 DEF JInv
<1>10. CASE /\ UNCHANGED served /\ served = Len(t)
            /\ at' = IF c < NChildren THEN Begin(c + 1) ELSE Stmt("call_parent")
  <2>1. \/ at'.do = "create" /\ at'.c = c + 1
        \/ at'.do = "call_parent" /\ at'.c = 0 /\ c = NChildren
    BY <1>5, <1>10 DEF Begin, Stmt
  <2>2. at' # Stmt("returned")
    BY <2>1 DEF Stmt
  <2>3. Made' = c
    BY <1>5, <2>1 DEF Made
  <2>4. \A d \in Children : Filled(d)' = Len(tables'.child[d])
    BY <1>5, <2>1 DEF Filled
  <2>5. Partitioned'
    <3> SUFFICES ASSUME NEW d \in Children, d <= c
                 PROVE  Grouped(heap', partition'[d], tables'.child[d], Len(tables'.child[d]))
      BY <2>3, <2>4 DEF Partitioned
    <3>1. Len(tables'.child[d]) = IF d = c THEN served ELSE Len(tables'.child[d])
      BY <1>2, <1>10
    <3> QED  BY <1>7, <3>1
  <2>6. RowRead' /\ Joining' /\ Delivering'
    BY <1>1, <1>2, <1>3, <2>1, <2>2, NotYet DEF RowRead, Joining, Late
  <2> QED  BY <1>6, <2>5, <2>6 DEF JInv
<1> QED  BY <1>8, <1>9, <1>10 DEF FetchChild, Fails

LEMMA PartitionChildJoins ==
  ASSUME IInv, JInv, NEW c \in Children, PartitionChild(c)
  PROVE  JInv'
<1> DEFINE t == tables.child[c]
           row == child[c]
           k == Row(0, row.refs)
           p == partition[c]
           loaded == Assign(heap, key[c].refs[1], row.refs[1])
           g == PartitionCursor(loaded, p, k, row)
           m == served - 1
<1>1. TypeOK /\ Control /\ heap \in Heaps /\ IInv' /\ heap' \in Heaps
  BY Before, PartitionChildKeeps DEF IInv, TypeOK
<1>2. /\ at = [do |-> "partition", c |-> c] /\ at.do = "partition" /\ at.c = c
      /\ at' = [do |-> "fetch", c |-> c] /\ at'.do = "fetch" /\ at'.c = c
      /\ UNCHANGED << tables, partition, child, parent, out, tmp, rows, served, result, held >>
  BY DEF PartitionChild
<1>3. loaded \in Heaps /\ OnlyCounts(heap, loaded) /\ p \in 1..Len(loaded) /\ Unextracted(loaded, p) /\ heap' = g
  BY PartitionChildKeeps
<1>4. /\ t \in Inputs /\ served \in Nat /\ served \in 1..Len(t) /\ rows = << >>
      /\ row.n = served /\ HasValue(heap, row.refs[1], t[served])
  BY <1>1, <1>2, TableFacts DEF JInv, RowRead
<1>5. m \in Nat /\ m + 1 = served /\ served <= Len(t)
  BY <1>4
<1>6. row \in RowOf(1) /\ k \in RowOf(1) /\ k.refs = row.refs
  <2>1. row \in RowOf(1)
    BY <1>1 DEF TypeOK
  <2> HIDE DEF row
  <2>2. row.refs = << row.refs[1] >> /\ row.refs[1] \in Nat
    BY <2>1, RowOfOne
  <2>3. Row(0, << row.refs[1] >>) \in RowOf(1) /\ Row(0, << row.refs[1] >>).refs = << row.refs[1] >>
    BY <2>2, RowMade
  <2> QED  BY <2>1, <2>2, <2>3
<1> HIDE DEF loaded, k
<1>7. Grows(heap, loaded, Null)
  BY <1>1, <1>3, OnlyCountsGrow
<1>8. ASSUME NEW d \in Children, d <= c
      PROVE  partition[d] # Null /\ Grouped(loaded, partition[d], tables.child[d], IF d = c THEN m ELSE Len(tables.child[d]))
  <2>1. d <= Made /\ Filled(d) = IF d = c THEN m ELSE Len(tables.child[d])
    BY <1>2, <1>8 DEF Made, Filled
  <2>2. partition[d] # Null /\ Grouped(heap, partition[d], tables.child[d], Filled(d))
    BY <1>1, <1>2, <2>1 DEF Control, JInv, Partitioned
  <2>3. Grouped(loaded, partition[d], tables.child[d], Filled(d))
    BY <1>1, <1>3, <1>7, <2>2, GroupedGrows
  <2> QED  BY <2>1, <2>2, <2>3
<1>9. Grows(loaded, g, p) /\ Grouped(g, p, t, served)
  <2>1. c <= c
    BY ParentChildAssumption DEF Children
  <2>2. Grouped(loaded, p, t, m)
    BY <1>8, <2>1
  <2>3. HasValue(loaded, row.refs[1], t[m + 1]) /\ row.n = m + 1
    BY <1>1, <1>3, <1>4, <1>5, <1>7, HasValueGrows
  <2>4. g \in Heaps
    BY <1>1, <1>3
  <2> HIDE DEF m, p, t, row
  <2> QED  BY <1>3, <1>5, <1>6, <2>2, <2>3, <2>4, PartitionCursorGroups
<1>10. ASSUME NEW d \in Children, d <= c
       PROVE  Grouped(heap', partition'[d], tables'.child[d], Filled(d)')
  <2>1. CASE d = c
    <3>1. Filled(d)' = served
      BY <1>2, <2>1 DEF Filled
    <3> QED  BY <1>2, <1>3, <1>9, <2>1, <3>1
  <2>2. CASE d # c
    <3>1. Filled(d)' = Len(tables'.child[d]) /\ partition[d] # p
      BY <1>2, <1>8, <1>10, <2>2 DEF Filled, JInv, PartitionsApart
    <3>2. Grouped(loaded, partition[d], tables.child[d], Len(tables.child[d]))
      BY <1>8, <1>10, <2>2
    <3> HIDE DEF p, g
    <3>3. Grouped(g, partition[d], tables.child[d], Len(tables.child[d]))
      BY <1>1, <1>3, <1>9, <3>1, <3>2, GroupedGrows
    <3> QED  BY <1>2, <1>3, <3>1, <3>3
  <2> QED  BY <2>1, <2>2
<1>11. PartitionsApart'
  BY <1>2, Apart DEF JInv
<1>12. Partitioned'
  BY <1>2, <1>10 DEF Partitioned, Made
<1>13. RowRead' /\ Joining' /\ Delivering'
  BY <1>1, <1>2, <1>4, <1>5, NotYet DEF RowRead, Joining, Late, Stmt
<1> QED  BY <1>11, <1>12, <1>13 DEF JInv

LEMMA CallParentJoins ==
  ASSUME IInv, JInv, CallParent
  PROVE  JInv'
<1>1. TypeOK /\ IInv' /\ tables.parent \in Inputs
  BY Before, CallParentKeeps, TableFacts
<1>2. /\ at = [do |-> "call_parent", c |-> 0] /\ at.do = "call_parent" /\ at.c = 0 /\ served' = 0
      /\ UNCHANGED << tables, heap, partition, rows >>
      /\ \/ at' = [do |-> "error", c |-> 0] /\ at'.do = "error"
         \/ at' = [do |-> "fetch_parent", c |-> 0] /\ at'.do = "fetch_parent" /\ at'.c = 0
  BY DEF CallParent, Fails, Stmt
<1>3. Len(tables.parent) \in Nat /\ rows = << >>
  BY <1>1, <1>2, InputFacts DEF JInv, RowRead
<1>4. PartitionsApart'
  BY <1>2, Apart DEF JInv
<1>5. Partitioned'
  <2>1. CASE at'.do = "error"
    BY <2>1 DEF Partitioned
  <2>2. CASE at'.do = "fetch_parent" /\ at'.c = 0
    <3>1. Made' = Made /\ \A d \in Children : Filled(d)' = Filled(d)
      BY <1>2, <2>2 DEF Made, Filled
    <3> QED  BY <1>2, <2>2, <3>1 DEF JInv, Partitioned
  <2> QED  BY <1>2, <2>1, <2>2
<1>6. RowRead' /\ Delivering'
  BY <1>1, <1>2, <1>3, NotYet DEF RowRead, Stmt
<1>7. Joining'
  BY <1>2, <1>3 DEF Joining, Late
<1> QED  BY <1>4, <1>5, <1>6, <1>7 DEF JInv

-----------------------------------------------------------------------------
(* The parent's rows *)

AllGrouped(h, ps, ts) ==
  \A d \in Children : ps[d] # Null /\ Grouped(h, ps[d], ts.child[d], Len(ts.child[d]))

LEMMA LateGrouped ==
  ASSUME IInv, JInv, at.do \in Late
  PROVE  AllGrouped(heap, partition, tables)
<1> SUFFICES ASSUME NEW d \in Children
             PROVE  partition[d] # Null /\ Grouped(heap, partition[d], tables.child[d], Len(tables.child[d]))
  BY DEF AllGrouped
<1>1. Made = NChildren /\ Filled(d) = Len(tables.child[d]) /\ d <= NChildren
  BY ParentChildAssumption DEF Made, Filled, Late, Children
<1>2. partition[d] # Null
  BY <1>1, Before DEF Control, Late
<1> QED  BY <1>1, <1>2 DEF JInv, Partitioned, Late

LEMMA LateAgain ==
  ASSUME AllGrouped(heap', partition', tables'), at'.do \in Late \cup {"error", "returned"}
  PROVE  Partitioned' /\ RowRead'
<1>1. CASE at'.do \in Late
  <2>1. Made' = NChildren /\ \A d \in Children : Filled(d)' = Len(tables'.child[d])
    BY <1>1 DEF Made, Filled, Late
  <2>2. Partitioned'
    BY <2>1 DEF AllGrouped, Partitioned
  <2> QED  BY <1>1, <2>2 DEF RowRead, Late
<1>2. CASE at'.do \in {"error", "returned"}
  BY <1>2 DEF Partitioned, RowRead
<1> QED  BY <1>1, <1>2

LEMMA RowDoneKept ==
  ASSUME NEW h \in Heaps, NEW g \in Heaps, NEW p, Grows(h, g, p), NEW ps, NEW k \in Nat, k <= NChildren,
         \A d \in Children : \A v, s : Gives(h, ps[d], v, s) => Gives(g, ps[d], v, s),
         NEW t, NEW r, NEW n, RowDone(h, ps, t, r, n, k)
  PROVE  RowDone(g, ps, t, r, n, k)
<1>1. r.n = n /\ HasValue(h, r.refs[1], t[n]) /\ \A c \in 1..k : Gives(h, ps[c], t[n], r.refs[1 + c])
  BY DEF RowDone
<1>2. HasValue(g, r.refs[1], t[n])
  BY <1>1, HasValueGrows
<1>3. \A c \in 1..k : c \in Children
  BY ParentChildAssumption DEF Children
<1>4. \A c \in 1..k : Gives(g, ps[c], t[n], r.refs[1 + c])
  BY <1>1, <1>3
<1> QED  BY <1>1, <1>2, <1>4 DEF RowDone

\* While objects are made and counted, the rows that are joined stay so.
LEMMA LateStays ==
  ASSUME IInv, JInv, at.do \in Late, heap' \in Heaps, Grows(heap, heap', Null),
         partition' = partition, tables' = tables
  PROVE  /\ AllGrouped(heap', partition', tables')
         /\ \A t, r, n, k : k \in Nat /\ k <= NChildren /\ RowDone(heap, partition, t, r, n, k)
                              => RowDone(heap', partition', t, r, n, k)
<1>1. heap \in Heaps /\ AllGrouped(heap, partition, tables)
  BY Before, LateGrouped
<1>2. \A d \in Children : /\ Grouped(heap', partition[d], tables.child[d], Len(tables.child[d]))
                          /\ \A v, s : Gives(heap, partition[d], v, s) => Gives(heap', partition[d], v, s)
  BY <1>1, GroupedGrows DEF AllGrouped
<1>3. AllGrouped(heap', partition', tables')
  BY <1>1, <1>2 DEF AllGrouped
<1>4. ASSUME NEW t, NEW r, NEW n, NEW k, k \in Nat, k <= NChildren, RowDone(heap, partition, t, r, n, k)
      PROVE  RowDone(heap', partition', t, r, n, k)
  BY <1>1, <1>2, <1>4, RowDoneKept
<1> QED  BY <1>3, <1>4

LEMMA FetchParentJoins ==
  ASSUME IInv, JInv, FetchParent
  PROVE  JInv'
<1> DEFINE t == tables.parent
<1>1. TypeOK /\ Control /\ heap \in Heaps /\ IInv' /\ heap' \in Heaps /\ Grows(heap, heap', Null)
  BY Before, FetchParentKeeps DEF IInv, TypeOK
<1>2. /\ at = Stmt("fetch_parent") /\ at.do = "fetch_parent" /\ at.do \in Late
      /\ UNCHANGED << tables, partition, key, child, out, tmp, rows, result, held >>
  BY DEF FetchParent, Stmt, Late
<1>3. t \in Inputs /\ served \in Nat /\ served = Len(rows) /\ served <= Len(t)
      /\ \A i \in DOMAIN rows : RowDone(heap, partition, t, rows[i], i, NChildren)
  BY <1>1, <1>2, TableFacts DEF JInv, Joining
<1>4. Len(t) \in Nat /\ \A n \in 1..Len(t) : t[n] \in Values
  BY <1>3, InputFacts
<1>5. /\ AllGrouped(heap', partition', tables')
      /\ \A i \in DOMAIN rows' : RowDone(heap', partition', tables'.parent, rows'[i], i, NChildren)
  <2>1. NChildren \in Nat /\ NChildren <= NChildren
    BY ParentChildAssumption
  <2> QED  BY <1>1, <1>2, <1>3, <2>1, LateStays
<1>6. PartitionsApart'
  BY <1>2, Apart DEF JInv
<1>7. CASE /\ served < Len(t)
           /\ LET f == FetchRow(heap, parent, served + 1, t[served + 1]) IN heap' = f.heap /\ parent' = f.row
           /\ served' = served + 1 /\ at' = Stmt("load_keys")
  <2> DEFINE num == served + 1
             value == t[num]
             f == FetchRow(heap, parent, num, value)
  <2>1. num \in Nat /\ num \in 1..Len(t) /\ value \in Values
    BY <1>3, <1>4, <1>7
  <2>2. heap' = f.heap /\ parent' = f.row
    BY <1>7
  <2>3. served' = num /\ at'.do = "load_keys" /\ num - 1 = served /\ at' # Stmt("returned")
    BY <1>3, <1>7 DEF Stmt
  <2> HIDE DEF num, value
  <2>4. f.row.n = num /\ HasValue(heap', f.row.refs[1], value)
    <3>1. f = ClearRow(heap, parent) \/ \E n \in Nat, v \in Values : f = FetchRow(heap, parent, n, v)
      BY <2>1
    <3> HIDE DEF f
    <3>2. \A n \in Nat, v \in Values :
            f = FetchRow(heap, parent, n, v) => f.row.n = n /\ HasValue(heap', f.row.refs[1], v)
      BY <1>2, <2>2, <3>1, FetchParentHeap
    <3> QED  BY <2>1, <3>2 DEF f
  <2> HIDE DEF f
  <2>5. Joining'
    BY <1>2, <1>3, <1>5, <2>1, <2>2, <2>3, <2>4 DEF Joining, value
  <2>6. Partitioned' /\ RowRead' /\ Delivering'
    BY <1>1, <1>5, <2>3, LateAgain, NotYet DEF Late
  <2> QED  BY <1>6, <2>5, <2>6 DEF JInv
<1>8. CASE UNCHANGED served /\ at' = Stmt("error")
  <2>1. at'.do = "error" /\ at' # Stmt("returned")
    BY <1>8 DEF Stmt
  <2>2. Partitioned' /\ RowRead' /\ Joining' /\ Delivering'
    BY <1>1, <2>1, NotYet DEF Partitioned, RowRead, Joining, Late
  <2> QED  BY <1>6, <2>2 DEF JInv
<1>9. CASE UNCHANGED served /\ served = Len(t) /\ at' = Stmt("finish")
  <2>1. at'.do = "finish" /\ at' # Stmt("returned")
    BY <1>9 DEF Stmt
  <2>2. Joining'
    BY <1>2, <1>3, <1>5, <1>9, <2>1 DEF Joining
  <2>3. Partitioned' /\ RowRead' /\ Delivering'
    BY <1>1, <1>5, <2>1, LateAgain, NotYet DEF Late
  <2> QED  BY <1>6, <2>2, <2>3 DEF JInv
<1> QED  BY <1>7, <1>8, <1>9 DEF FetchParent, Fails

LEMMA LoadKeysJoins ==
  ASSUME IInv, JInv, LoadKeys
  PROVE  JInv'
<1> DEFINE t == tables.parent
           ref == parent.refs[1]
<1>1. /\ TypeOK /\ Control /\ heap \in Heaps /\ IInv' /\ heap' \in Heaps /\ Grows(heap, heap', Null)
      /\ out \in RowOf(1 + NChildren)
  BY Before, LoadKeysKeeps DEF IInv, TypeOK
<1>2. /\ at = Stmt("load_keys") /\ at.do = "load_keys" /\ at.do \in Late
      /\ key' = [c \in Children |-> Row(0, parent.refs)]
      /\ out' = Row(parent.n, [out.refs EXCEPT ![1] = ref])
      /\ at' = [do |-> "extract", c |-> 1] /\ at'.do = "extract" /\ at'.c = 1 /\ at' # Stmt("returned")
      /\ UNCHANGED << tables, partition, child, parent, tmp, rows, served, result, held >>
  BY DEF LoadKeys, Stmt, Late
<1>3. /\ served \in 1..Len(t) /\ Len(rows) = served - 1 /\ parent.n = served /\ HasValue(heap, ref, t[served])
      /\ \A i \in DOMAIN rows : RowDone(heap, partition, t, rows[i], i, NChildren)
  BY <1>2 DEF JInv, Joining
<1>4. /\ AllGrouped(heap', partition', tables')
      /\ \A i \in DOMAIN rows' : RowDone(heap', partition', tables'.parent, rows'[i], i, NChildren)
  <2>1. NChildren \in Nat /\ NChildren <= NChildren
    BY ParentChildAssumption
  <2> QED  BY <1>1, <1>2, <1>3, <2>1, LateStays
<1>5. HasValue(heap', ref, t[served])
  BY <1>1, <1>3, HasValueGrows
<1>6. \A d \in Children : key'[d].refs[1] = ref
  BY <1>2 DEF Row
<1>7. out'.n = served /\ out'.refs[1] = ref
  <2> DEFINE r == out.refs
  <2>1. r \in [1..(1 + NChildren) -> Nat] /\ 1 \in 1..(1 + NChildren)
    BY <1>1, ParentChildAssumption DEF RowOf
  <2> HIDE DEF r
  <2>2. [r EXCEPT ![1] = ref][1] = ref
    BY <2>1
  <2>3. out'.n = parent.n /\ out'.refs = [r EXCEPT ![1] = ref]
    BY <1>2 DEF Row, r
  <2> QED  BY <1>3, <2>2, <2>3
<1>8. RowDone(heap', partition', tables'.parent, out', served', at'.c - 1)
  BY <1>2, <1>5, <1>7 DEF RowDone
<1>9. Joining'
  BY <1>2, <1>3, <1>4, <1>5, <1>6, <1>8 DEF Joining
<1>10. Partitioned' /\ RowRead' /\ Delivering' /\ PartitionsApart'
  BY <1>1, <1>2, <1>4, LateAgain, NotYet, Apart DEF Late, JInv
<1> QED  BY <1>9, <1>10 DEF JInv

LEMMA OutUnionJoins ==
  ASSUME IInv, JInv, OutUnion
  PROVE  JInv'
<1> DEFINE t == tables.parent
           N == Len(rows)
<1>1. /\ TypeOK /\ Control /\ heap \in Heaps /\ IInv' /\ heap' \in Heaps /\ Grows(heap, heap', Null)
      /\ rows \in Seq(RowOf(1 + NChildren)) /\ t \in Inputs
  BY Before, OutUnionKeeps, TableFacts DEF IInv, TypeOK
<1>2. /\ at = Stmt("out_union") /\ at.do = "out_union" /\ at.do \in Late
      /\ rows' = Append(rows, out) /\ at' = Stmt("fetch_parent") /\ at'.do = "fetch_parent"
      /\ at' # Stmt("returned")
      /\ UNCHANGED << tables, partition, key, child, parent, out, tmp, served, result, held >>
  BY DEF OutUnion, Stmt, Late
<1>3. /\ served \in 1..Len(t) /\ N = served - 1 /\ RowDone(heap, partition, t, out, served, NChildren)
      /\ \A i \in DOMAIN rows : RowDone(heap, partition, t, rows[i], i, NChildren)
  BY <1>2 DEF JInv, Joining
<1>4. Len(t) \in Nat
  BY <1>1, InputFacts
<1>5. /\ AllGrouped(heap', partition', tables')
      /\ \A r, n : RowDone(heap, partition, t, r, n, NChildren) => RowDone(heap', partition', t, r, n, NChildren)
  <2>1. NChildren \in Nat /\ NChildren <= NChildren
    BY ParentChildAssumption
  <2> QED  BY <1>1, <1>2, <2>1, LateStays
<1>6. /\ N \in Nat /\ DOMAIN rows = 1..N /\ Len(rows') = N + 1 /\ DOMAIN rows' = 1..(N + 1) /\ rows'[N + 1] = out
      /\ N + 1 = served /\ \A i \in 1..N : rows'[i] = rows[i]
  BY <1>1, <1>2, <1>3, <1>4
<1> HIDE DEF N
<1>7. \A i \in DOMAIN rows' : RowDone(heap', partition', t, rows'[i], i, NChildren)
  <2> SUFFICES ASSUME NEW i \in 1..(N + 1) PROVE RowDone(heap', partition', t, rows'[i], i, NChildren)
    BY <1>6
  <2>1. CASE i \in 1..N
    BY <1>3, <1>5, <1>6, <2>1
  <2>2. CASE i = N + 1
    BY <1>3, <1>5, <1>6, <2>2
  <2> QED  BY <1>6, <2>1, <2>2
<1>8. Joining'
  <2>1. served' = Len(rows') /\ served' <= Len(tables'.parent)
    BY <1>2, <1>3, <1>4, <1>6
  <2> QED  BY <1>2, <1>7, <2>1 DEF Joining
<1>9. Partitioned' /\ RowRead' /\ Delivering' /\ PartitionsApart'
  BY <1>1, <1>2, <1>5, LateAgain, NotYet, Apart DEF Late, JInv
<1> QED  BY <1>8, <1>9 DEF JInv

LEMMA ExtractJoins ==
  ASSUME IInv, JInv, NEW c \in Children, Extract(c)
  PROVE  JInv'
<1> DEFINE t == tables.parent
           p == partition[c]
           m == tables.child[c]
           k == key[c]
           v == t[served]
           e == ExtractPartition(heap, p, k)
<1>1. /\ TypeOK /\ Control /\ heap \in Heaps /\ IInv' /\ heap' \in Heaps /\ out \in RowOf(1 + NChildren)
      /\ e.set \in Addresses /\ e.heap \in Heaps /\ OnlyCounts(e.heap, heap') /\ p \in 1..Len(heap)
      /\ out' = [out EXCEPT !.refs[1 + c] = e.set]
  BY Before, ExtractKeeps DEF IInv, TypeOK
<1>2. /\ at = [do |-> "extract", c |-> c] /\ at.do = "extract" /\ at.c = c /\ at.do \in Late
      /\ at' = IF c < NChildren THEN [do |-> "extract", c |-> c + 1] ELSE Stmt("out_union")
      /\ UNCHANGED << tables, partition, key, child, parent, rows, served, result, held >>
  BY DEF Extract, Late
<1>3. /\ served \in 1..Len(t) /\ Len(rows) = served - 1
      /\ (\A d \in Children : HasValue(heap, key[d].refs[1], v)) /\ RowDone(heap, partition, t, out, served, c - 1)
      /\ \A i \in DOMAIN rows : RowDone(heap, partition, t, rows[i], i, NChildren)
  BY <1>2 DEF JInv, Joining
<1>4. c \in Nat /\ NChildren \in Nat /\ 1 <= c /\ c <= NChildren /\ c - 1 \in Nat /\ Children = 1..NChildren
  BY ParentChildAssumption DEF Children
<1>5. AllGrouped(heap, partition, tables)
  BY <1>2, LateGrouped
<1> HIDE DEF e
<1>6. /\ Grows(heap, e.heap, p) /\ Grouped(e.heap, p, m, Len(m))
      /\ Gives(e.heap, p, v, e.set) /\ GivesStay(heap, e.heap, p)
  <2>1. Grouped(heap, p, m, Len(m)) /\ HasValue(heap, k.refs[1], v)
    BY <1>3, <1>5 DEF AllGrouped
  <2> HIDE DEF p, m, k, v
  <2> QED  BY <1>1, <2>1, ExtractGroupsFor DEF e
<1>7. Grows(e.heap, heap', Null) /\ Grows(e.heap, heap', p) /\ Grows(heap, heap', p) /\ p # Null
  <2>1. Grows(e.heap, heap', Null) /\ Grows(e.heap, heap', p)
    BY <1>1, OnlyCountsGrow
  <2> QED  BY <1>1, <1>6, <2>1, GrowsTransitive DEF Null
<1>8. Grouped(heap', p, m, Len(m)) /\ \A w, s : Gives(e.heap, p, w, s) => Gives(heap', p, w, s)
  <2> HIDE DEF p, m
  <2> QED  BY <1>1, <1>6, <1>7, GroupedGrows
<1>9. ASSUME NEW d \in Children
      PROVE  /\ Grouped(heap', partition[d], tables.child[d], Len(tables.child[d]))
             /\ \A w, s : Gives(heap, partition[d], w, s) => Gives(heap', partition[d], w, s)
  <2>1. CASE d = c
    BY <1>6, <1>8, <2>1 DEF GivesStay
  <2>2. CASE d # c
    <3>1. partition[d] # p /\ Grouped(heap, partition[d], tables.child[d], Len(tables.child[d]))
      BY <1>5, <2>2 DEF AllGrouped, JInv, PartitionsApart
    <3> HIDE DEF p
    <3> QED  BY <1>1, <1>7, <3>1, GroupedGrows
  <2> QED  BY <2>1, <2>2
<1>10. AllGrouped(heap', partition', tables')
  BY <1>2, <1>5, <1>9 DEF AllGrouped
<1>11. ASSUME NEW r, NEW n, NEW j \in Nat, j <= NChildren, RowDone(heap, partition, t, r, n, j)
       PROVE  RowDone(heap', partition, t, r, n, j)
  <2>1. \A d \in Children : \A w, s : Gives(heap, partition[d], w, s) => Gives(heap', partition[d], w, s)
    BY <1>9
  <2> HIDE DEF p
  <2> QED  BY <1>1, <1>7, <1>11, <2>1, RowDoneKept
<1>12. \A i \in DOMAIN rows' : RowDone(heap', partition', tables'.parent, rows'[i], i, NChildren)
  BY <1>2, <1>3, <1>4, <1>11
<1>13. \A d \in Children : HasValue(heap', key'[d].refs[1], tables'.parent[served'])
  <2> TAKE d \in Children
  <2>1. HasValue(heap, key[d].refs[1], v)
    BY <1>3
  <2> HIDE DEF p
  <2>2. HasValue(heap', key[d].refs[1], v)
    BY <1>1, <1>7, <2>1, HasValueGrows
  <2> QED  BY <1>2, <2>2
<1>14. out'.n = out.n /\ out'.refs[1 + c] = e.set /\ \A i \in 1..c : out'.refs[i] = out.refs[i]
  <2> DEFINE r == out.refs
  <2>1. r \in [1..(1 + NChildren) -> Nat] /\ out = [n |-> out.n, refs |-> r]
    BY <1>1 DEF RowOf
  <2>2. out' = [out EXCEPT !.refs = [r EXCEPT ![1 + c] = e.set]]
    BY <1>1
  <2>3. 1 + c \in 1..(1 + NChildren) /\ \A i \in 1..c : i \in 1..(1 + NChildren) /\ i # 1 + c
    BY <1>4
  <2> HIDE DEF r
  <2> DEFINE r2 == [r EXCEPT ![1 + c] = e.set]
  <2>4. r2[1 + c] = e.set /\ \A i \in 1..c : r2[i] = r[i]
    BY <2>1, <2>3
  <2> HIDE DEF r2
  <2>5. out'.n = out.n /\ out'.refs = r2
    BY <2>1, <2>2 DEF r2
  <2> QED  BY <2>4, <2>5 DEF r
<1>15. RowDone(heap', partition, t, out', served, c)
  <2>1. RowDone(heap', partition, t, out, served, c - 1)
    BY <1>3, <1>4, <1>11
  <2>2. Gives(heap', p, v, e.set)
    BY <1>6, <1>8
  <2>3. out'.n = served /\ HasValue(heap', out'.refs[1], v)
    <3>1. 1 \in 1..c
      BY <1>4
    <3> QED  BY <1>14, <2>1, <3>1 DEF RowDone
  <2>4. ASSUME NEW d \in 1..c PROVE Gives(heap', partition[d], v, out'.refs[1 + d])
    <3>1. CASE d = c
      BY <1>14, <2>2, <3>1
    <3>2. CASE d # c
      <4>1. d \in 1..(c - 1) /\ 1 + d \in 1..c
        BY <1>4, <3>2
      <4>2. Gives(heap', partition[d], v, out.refs[1 + d])
        BY <2>1, <4>1 DEF RowDone
      <4> QED  BY <1>14, <4>1, <4>2
    <3> QED  BY <3>1, <3>2
  <2> QED  BY <2>3, <2>4 DEF RowDone
<1>16. \/ at'.do = "extract" /\ at'.c - 1 = c
       \/ at'.do = "out_union" /\ c = NChildren
  BY <1>2, <1>4 DEF Stmt
<1>17. Joining'
  <2>1. CASE at'.do = "extract" /\ at'.c - 1 = c
    BY <1>2, <1>3, <1>12, <1>13, <1>15, <2>1 DEF Joining
  <2>2. CASE at'.do = "out_union" /\ c = NChildren
    BY <1>2, <1>3, <1>12, <1>15, <2>2 DEF Joining
  <2> QED  BY <1>16, <2>1, <2>2
<1>18. Partitioned' /\ RowRead' /\ Delivering' /\ PartitionsApart'
  <2>1. at' # Stmt("returned") /\ at'.do \in Late
    BY <1>16 DEF Stmt, Late
  <2> QED  BY <1>1, <1>2, <1>10, <2>1, LateAgain, NotYet, Apart DEF JInv
<1> QED  BY <1>17, <1>18 DEF JInv

\* At the end every row has its sets, so the result set does.
LEMMA RowsJoined ==
  ASSUME NEW h \in Heaps, NEW ps, NEW ts, AllGrouped(h, ps, ts), NEW rs, Len(rs) = Len(ts.parent),
         \A i \in DOMAIN rs : RowDone(h, ps, ts.parent, rs[i], i, NChildren)
  PROVE  Joined(h, ts, rs)
<1>1. \A i \in DOMAIN rs, c \in Children : Gives(h, ps[c], ts.parent[i], rs[i].refs[1 + c])
  BY DEF RowDone, Children
<1>2. ASSUME NEW i \in DOMAIN rs, NEW c \in Children
      PROVE  SetFor(h, rs[i].refs[1 + c], ts.child[c], ts.parent[i])
  <2>1. Grouped(h, ps[c], ts.child[c], Len(ts.child[c])) /\ Gives(h, ps[c], ts.parent[i], rs[i].refs[1 + c])
    BY <1>1 DEF AllGrouped
  <2> QED  BY <2>1, GivesSet
<1>3. ASSUME NEW i \in DOMAIN rs, NEW j \in DOMAIN rs, NEW c \in Children, ts.parent[i] = ts.parent[j]
      PROVE  rs[i].refs[1 + c] = rs[j].refs[1 + c]
  <2> DEFINE v == ts.parent[i]
             s == rs[i].refs[1 + c]
             r == rs[j].refs[1 + c]
  <2>1. Grouped(h, ps[c], ts.child[c], Len(ts.child[c])) /\ Gives(h, ps[c], v, s) /\ Gives(h, ps[c], v, r)
    BY <1>1, <1>3 DEF AllGrouped
  <2> HIDE DEF v, s, r
  <2>2. s = r
    BY <2>1, GivesOne
  <2> QED  BY <2>2 DEF s, r
<1>4. \A i \in DOMAIN rs : rs[i].n = i /\ HasValue(h, rs[i].refs[1], ts.parent[i])
  BY DEF RowDone
<1> QED  BY <1>2, <1>3, <1>4 DEF Joined

\* When the procedure has returned, only what was delivered matters.
LEMMA Returned ==
  ASSUME at'.do \in {"error", "returned"}
  PROVE  Partitioned' /\ RowRead' /\ Joining'
BY DEF Partitioned, RowRead, Joining, Late

LEMMA CleanUpJoins ==
  ASSUME IInv, JInv, CleanUp
  PROVE  JInv'
<1>1. /\ TypeOK /\ Control /\ heap \in Heaps /\ IInv' /\ heap' \in Heaps /\ Grows(heap, heap', Null)
      /\ result' = IF at = Stmt("finish") THEN Len(heap) + 1 ELSE Null
      /\ result' # Null => heap'[result'].rows = rows
  BY Before, CleanUpKeeps DEF IInv, TypeOK
<1>2. /\ at \in {Stmt("finish"), Stmt("error")} /\ at # Stmt("returned")
      /\ at' = Stmt("returned") /\ at'.do = "returned" /\ partition' = [d \in Children |-> Null]
      /\ UNCHANGED << tables, served, held >>
  BY DEF CleanUp, Stmt
<1>3. held' = {}
  BY <1>1, <1>2 DEF Control
<1>4. PartitionsApart'
  BY <1>2 DEF PartitionsApart
<1>5. ASSUME result' # Null PROVE Joined(heap', tables, rows)
  <2>1. at = Stmt("finish") /\ at.do = "finish" /\ at.do \in Late
    BY <1>1, <1>2, <1>5 DEF Stmt, Late
  <2>2. Len(rows) = Len(tables.parent) /\ \A i \in DOMAIN rows : RowDone(heap, partition, tables.parent, rows[i], i, NChildren)
    BY <2>1 DEF JInv, Joining
  <2>3. AllGrouped(heap, partition, tables)
    BY <2>1, LateGrouped
  <2>4. \A d \in Children : /\ Grouped(heap', partition[d], tables.child[d], Len(tables.child[d]))
                            /\ \A v, s : Gives(heap, partition[d], v, s) => Gives(heap', partition[d], v, s)
    BY <1>1, <2>3, GroupedGrows DEF AllGrouped
  <2>5. AllGrouped(heap', partition, tables)
    BY <2>3, <2>4 DEF AllGrouped
  <2>6. \A i \in DOMAIN rows : RowDone(heap', partition, tables.parent, rows[i], i, NChildren)
    <3>1. NChildren \in Nat /\ NChildren <= NChildren
      BY ParentChildAssumption
    <3> QED  BY <1>1, <2>2, <2>4, <3>1, RowDoneKept
  <2> QED  BY <1>1, <2>2, <2>5, <2>6, RowsJoined
<1>6. Delivering'
  BY <1>1, <1>2, <1>3, <1>5 DEF Delivering
<1> QED  BY <1>2, <1>4, <1>6, Returned DEF JInv

\* What was delivered stays while the caller holds more or less of it.
LEMMA JoinedGrows ==
  ASSUME NEW h \in Heaps, NEW g \in Heaps, NEW p, Grows(h, g, p), NEW ts, NEW rs, Joined(h, ts, rs)
  PROVE  Joined(g, ts, rs)
<1>1. \A i \in DOMAIN rs : HasValue(g, rs[i].refs[1], ts.parent[i])
  BY HasValueGrows DEF Joined
<1>2. ASSUME NEW i \in DOMAIN rs, NEW c \in Children
      PROVE  SetFor(g, rs[i].refs[1 + c], ts.child[c], ts.parent[i])
  BY SetForGrows DEF Joined
<1> QED  BY <1>1, <1>2 DEF Joined

LEMMA DeliveredStays ==
  ASSUME IInv, JInv, heap' \in Heaps, Grows(heap, heap', Null), tables' = tables
  PROVE  /\ result # Null => Joined(heap', tables', heap'[result].rows)
         /\ \A x \in held : /\ x.row \in DOMAIN tables'.parent /\ x.child \in Children
                            /\ SetFor(heap', x.set, tables'.child[x.child], tables'.parent[x.row])
<1>1. heap \in Heaps /\ ResultThere(heap, result)
  BY Before
<1>2. ASSUME result # Null PROVE Joined(heap', tables', heap'[result].rows)
  <2>1. result \in DOMAIN heap /\ Joined(heap, tables, heap[result].rows)
    BY <1>1, <1>2 DEF ResultThere, JInv, Delivering
  <2>2. heap'[result].rows = heap[result].rows
    BY <1>1, <2>1, HeapFacts DEF Grows
  <2>3. Joined(heap', tables, heap[result].rows)
    BY <1>1, <2>1, JoinedGrows
  <2> QED  BY <2>2, <2>3
<1>3. ASSUME NEW x \in held
      PROVE  /\ x.row \in DOMAIN tables'.parent /\ x.child \in Children
             /\ SetFor(heap', x.set, tables'.child[x.child], tables'.parent[x.row])
  <2>1. /\ x.row \in DOMAIN tables.parent /\ x.child \in Children
        /\ SetFor(heap, x.set, tables.child[x.child], tables.parent[x.row])
    BY DEF JInv, Delivering
  <2> QED  BY <1>1, <2>1, SetForGrows
<1> QED  BY <1>2, <1>3

LEMMA HoldChildSetJoins ==
  ASSUME IInv, JInv, NEW i \in Nat, NEW c \in Children, HoldChildSet(i, c)
  PROVE  JInv'
<1> DEFINE rs == heap[result].rows
           set == rs[i].refs[1 + c]
           x == [set |-> set, row |-> i, child |-> c]
<1>1. IInv' /\ heap \in Heaps /\ heap' \in Heaps /\ Grows(heap, heap', Null) /\ TypeOK /\ ResultThere(heap, result)
  BY Before, HoldChildSetKeeps DEF IInv, TypeOK
<1>2. /\ at = Stmt("returned") /\ at' = at /\ at'.do = "returned" /\ result # Null /\ i \in DOMAIN rs
      /\ held' = held \cup {x}
      /\ UNCHANGED << tables, partition, result >>
  BY DEF HoldChildSet, Stmt
<1>3. Joined(heap, tables, rs)
  BY <1>2 DEF JInv, Delivering
<1>4. i \in DOMAIN tables.parent
  <2>1. Len(rs) = Len(tables.parent) /\ tables.parent \in Inputs
    BY <1>1, <1>3, TableFacts DEF Joined
  <2>2. rs \in Seq(RowOf(1 + NChildren))
    BY <1>1, <1>2 DEF ResultThere
  <2> HIDE DEF rs
  <2>3. DOMAIN rs = 1..Len(rs)
    BY <2>2
  <2> QED  BY <1>2, <2>1, <2>3, InputFacts
<1>5. SetFor(heap, set, tables.child[c], tables.parent[i])
  BY <1>2, <1>3 DEF Joined
<1> HIDE DEF set
<1>6. SetFor(heap', set, tables.child[c], tables.parent[i])
  BY <1>1, <1>5, SetForGrows
<1>7. x.set = set /\ x.row = i /\ x.child = c
  OBVIOUS
<1> HIDE DEF x
<1>8. Delivering'
  BY <1>1, <1>2, <1>4, <1>6, <1>7, DeliveredStays DEF Delivering
<1>9. PartitionsApart'
  BY <1>2, Apart DEF JInv
<1> QED  BY <1>2, <1>8, <1>9, Returned DEF JInv

LEMMA ReleaseChildSetJoins ==
  ASSUME IInv, JInv, NEW x \in held, ReleaseChildSet(x)
  PROVE  JInv'
<1>1. /\ IInv' /\ heap' \in Heaps /\ Grows(heap, heap', Null) /\ Control /\ IInv
      /\ UNCHANGED << tables, partition, result, at >> /\ held' = held \ {x}
  BY Before, ReleaseChildSetKeeps DEF IInv, TypeOK, ReleaseChildSet
<1>2. at = Stmt("returned")
  BY <1>1 DEF Control
<1>3. at'.do = "returned"
  BY <1>1, <1>2 DEF Stmt
<1>4. Delivering'
  BY <1>1, DeliveredStays DEF Delivering
<1>5. PartitionsApart'
  BY <1>1, Apart DEF JInv
<1> QED  BY <1>3, <1>4, <1>5, Returned DEF JInv

LEMMA ReleaseResultJoins ==
  ASSUME IInv, JInv, ReleaseResult
  PROVE  JInv'
<1>1. /\ IInv' /\ heap' \in Heaps /\ Grows(heap, heap', Null)
      /\ UNCHANGED << tables, partition, held >> /\ result' = Null /\ at'.do = "returned"
  BY Before, ReleaseResultKeeps DEF IInv, TypeOK, ReleaseResult, Stmt
<1>2. Delivering'
  BY <1>1, DeliveredStays DEF Delivering
<1>3. PartitionsApart'
  BY <1>1, Apart DEF JInv
<1> QED  BY <1>1, <1>2, <1>3, Returned DEF JInv

LEMMA InitJoins ==
  ASSUME Init
  PROVE  JInv
<1>1. /\ at.do = "create" /\ at.c = 1 /\ heap = << >> /\ rows = << >> /\ result = Null /\ held = {}
      /\ \A c \in Children : partition[c] = Null
  BY DEF Init, Begin
<1>2. \A d \in Children : ~(d <= Made)
  BY <1>1, ParentChildAssumption DEF Made, Children
<1> QED  BY <1>1, <1>2 DEF JInv, PartitionsApart, Partitioned, RowRead, Joining, Late, Delivering

LEMMA StutterJoins ==
  ASSUME JInv, UNCHANGED vars
  PROVE  JInv'
<1>1. /\ tables' = tables /\ heap' = heap /\ partition' = partition /\ key' = key /\ child' = child
      /\ parent' = parent /\ out' = out /\ rows' = rows /\ at' = at /\ served' = served
      /\ result' = result /\ held' = held
  BY DEF vars
<1>2. Made' = Made /\ \A d : Filled(d)' = Filled(d)
  BY <1>1 DEF Made, Filled
<1>3. PartitionsApart' /\ Partitioned' /\ RowRead' /\ Delivering'
  BY <1>1, <1>2 DEF JInv, PartitionsApart, Partitioned, RowRead, Delivering
<1>4. Joining'
  BY <1>1 DEF JInv, Joining
<1> QED  BY <1>3, <1>4 DEF JInv

LEMMA NextJoins ==
  ASSUME IInv, JInv, [Next]_vars
  PROVE  JInv'
<1>1. CASE \E c \in Children : \/ CreatePartition(c) \/ CallChild(c) \/ FetchChild(c)
                               \/ PartitionChild(c) \/ Extract(c)
  BY <1>1, CreatePartitionJoins, CallChildJoins, FetchChildJoins, PartitionChildJoins, ExtractJoins
<1>2. CASE CallParent \/ FetchParent \/ LoadKeys
  BY <1>2, CallParentJoins, FetchParentJoins, LoadKeysJoins
<1>3. CASE OutUnion \/ CleanUp \/ ReleaseResult
  BY <1>3, OutUnionJoins, CleanUpJoins, ReleaseResultJoins
<1>4. ASSUME NEW i \in 1..MaxRows, NEW c \in Children, HoldChildSet(i, c) PROVE JInv'
  <2>1. i \in Nat
    BY ParentChildAssumption
  <2> QED  BY <1>4, <2>1, HoldChildSetJoins
<1>5. CASE \E x \in held : ReleaseChildSet(x)
  BY <1>5, ReleaseChildSetJoins
<1>6. CASE UNCHANGED vars
  BY <1>6, StutterJoins
<1> QED  BY <1>1, <1>2, <1>3, <1>4, <1>5, <1>6 DEF Next

-----------------------------------------------------------------------------
(* The sets are those of the join *)

LEMMA AliveIsLive ==
  ASSUME NEW a, RefsAt(heap, a) > 0
  PROVE  a \in Live
<1>1. a \in DOMAIN heap
  BY DEF RefsAt
<1> QED  BY <1>1 DEF RefsAt, Live

LEMMA SetExact ==
  ASSUME IInv, NEW c \in Children, NEW v, NEW set, SetFor(heap, set, tables.child[c], v), RefsAt(heap, set) > 0
  PROVE  IsSetFor(set, c, v)
<1> DEFINE t == tables.child[c]
           rs == heap[set].rows
<1>1. /\ heap \in Heaps /\ Tally \in Tallies /\ Balanced(heap, Tally) /\ TypeOK
      /\ set \in 1..Len(heap) /\ heap[set].refs > 0 /\ rs \in Seq(AnyRow)
  <2>1. heap \in Heaps /\ Tally \in Tallies /\ Balanced(heap, Tally) /\ TypeOK
    BY Before
  <2>2. set \in 1..Len(heap) /\ heap[set] \in Objects
    BY <2>1, HeapFacts DEF SetFor
  <2>3. heap[set].refs > 0
    BY <2>1, <2>2, HeapFacts DEF RefsAt
  <2> QED  BY <2>1, <2>2, <2>3, ObjectFacts
<1>2. RowsFor(heap, rs, t, v, Len(t)) /\ t \in Inputs
  BY <1>1, TableFacts DEF SetFor
<1>3. Len(t) \in Nat /\ DOMAIN t = 1..Len(t)
  BY <1>2, InputFacts
<1>4. rs \in Seq(RowOf(1)) /\ DOMAIN rs = 1..Len(rs)
  <2> HIDE DEF rs
  <2>1. DOMAIN rs = 1..Len(rs) /\ Len(rs) \in Nat
    BY <1>1
  <2>2. \A i \in 1..Len(rs) : rs[i] \in RowOf(1)
    BY <1>2, <2>1 DEF RowsFor
  <2> QED  BY <1>1, <2>1, <2>2
<1> HIDE DEF rs, t
<1>5. ASSUME NEW i \in 1..Len(rs)
      PROVE  ValueAt(heap, rs[i].refs[1]) = v /\ ToSet(rs[i].refs) \subseteq Live \cup {Null}
  <2> DEFINE r == rs[i]
             b == r.refs[1]
  <2>1. ValueAt(heap, b) = v
    BY <1>2, <1>4 DEF RowsFor, HasValue
  <2>2. b \in Nat /\ (b # Null => RefsAt(heap, b) > 0)
    <3>1. 1 \in Nat /\ 1 \in 1..1
      OBVIOUS
    <3> QED  BY <1>1, <1>4, <3>1, RowSetAlive DEF rs
  <2>3. ToSet(r.refs) = {b}
    <3>1. r \in RowOf(1)
      BY <1>4
    <3> HIDE DEF r
    <3>2. DOMAIN r.refs = {1}
      BY <3>1 DEF RowOf
    <3> QED  BY <3>2 DEF ToSet
  <2> HIDE DEF b
  <2>4. ToSet(r.refs) \subseteq Live \cup {Null}
    BY <2>2, <2>3, AliveIsLive
  <2> QED  BY <2>1, <2>4 DEF b
<1>6. ToSet(rs) = {rs[i] : i \in 1..Len(rs)}
  BY <1>4 DEF ToSet
<1>7. {r.n : r \in ToSet(rs)} = Matching(c, v)
  <2>1. ASSUME NEW i \in 1..Len(rs) PROVE rs[i].n \in DOMAIN t /\ t[rs[i].n] = v
    BY <1>2, <1>3, <1>4 DEF RowsFor
  <2>2. ASSUME NEW n \in DOMAIN t, t[n] = v PROVE \E i \in 1..Len(rs) : rs[i].n = n
    BY <1>2, <1>3, <1>4, <2>2 DEF RowsFor
  <2>3. Matching(c, v) = {n \in DOMAIN t : t[n] = v}
    BY DEF Matching, t
  <2>4. {r.n : r \in ToSet(rs)} = {rs[i].n : i \in 1..Len(rs)}
    BY <1>6
  <2>5. {rs[i].n : i \in 1..Len(rs)} \subseteq {n \in DOMAIN t : t[n] = v}
    BY <2>1
  <2>6. {n \in DOMAIN t : t[n] = v} \subseteq {rs[i].n : i \in 1..Len(rs)}
    <3> SUFFICES ASSUME NEW n \in DOMAIN t, t[n] = v PROVE \E i \in 1..Len(rs) : rs[i].n = n
      BY Zenon
    <3> QED  BY <2>2
  <2> QED  BY <2>3, <2>4, <2>5, <2>6
<1>8. InOrder(rs)
  BY <1>2 DEF RowsFor
<1>9. set \in Live
  BY AliveIsLive
<1>10. \A r \in ToSet(rs) : ValueAt(heap, r.refs[1]) = v /\ ToSet(r.refs) \subseteq Live \cup {Null}
  BY <1>5, <1>6
<1> QED  BY <1>7, <1>8, <1>9, <1>10 DEF IsSetFor, rs

\* What the caller can reach, it holds or a live set does.
LEMMA ResultHeld ==
  ASSUME IInv
  PROVE  /\ result # Null => result \in 1..Len(heap) /\ heap[result].refs > 0
         /\ \A x \in held : x.set # Null => RefsAt(heap, x.set) > 0
<1>1. /\ heap \in Heaps /\ Tally \in Tallies /\ Balanced(heap, Tally) /\ TypeOK
      /\ Places(key, partition, child, out, parent, tmp, rows, result, held)
  BY Before
<1>2. \A a \in Addresses : /\ Tally[a] \in Nat
                           /\ Count(<<result>>, a) <= Tally[a] /\ HeldCount(held, a) <= Tally[a]
  BY <1>1, SharesBound DEF Tally
<1>3. ASSUME result # Null PROVE result \in 1..Len(heap) /\ heap[result].refs > 0
  <2>1. result \in Nat
    BY <1>1 DEF TypeOK
  <2>2. result \in Addresses
    BY <1>3, <2>1 DEF Addresses, Null
  <2>3. Count(<<result>>, result) = 1
    BY <2>1, CountOne
  <2>4. Tally[result] # 0
    BY <1>2, <2>2, <2>3
  <2> QED  BY <1>1, <1>3, <2>1, <2>4, HeldAlive
<1>4. ASSUME NEW x \in held, x.set # Null PROVE RefsAt(heap, x.set) > 0
  <2> DEFINE a == x.set
  <2>1. a \in Nat /\ IsFiniteSet(held)
    BY <1>1 DEF TypeOK
  <2>2. HeldCount(held, a) \in Nat /\ HeldCount(held, a) # 0
    <3>1. IsFiniteSet(held \ {x})
      BY <2>1, FS_RemoveElement
    <3>2. HeldCount(held \ {x}, a) \in Nat
      BY <3>1, HeldCountFacts
    <3>3. HeldCount(held, a) = HeldCount(held \ {x}, a) + 1
      BY <2>1, HeldCountFacts
    <3> QED  BY <3>2, <3>3
  <2>3. a # Null
    BY <1>4
  <2> HIDE DEF a
  <2>4. a \in Addresses
    BY <2>1, <2>3 DEF Addresses, Null
  <2>5. Tally[a] # 0
    BY <1>2, <2>2, <2>4
  <2>6. RefsAt(heap, a) > 0
    BY <1>1, <2>1, <2>3, <2>5, HeldAlive
  <2> QED  BY <2>6 DEF a
<1> QED  BY <1>3, <1>4

LEMMA SetNotNull ==
  ASSUME heap \in Heaps, NEW s, NEW t, NEW v, SetFor(heap, s, t, v)
  PROVE  s # Null
BY HeapFacts DEF SetFor, Null

LEMMA JoinedIsExact ==
  ASSUME IInv, JInv
  PROVE  JoinIsExact
<1>1. /\ heap \in Heaps /\ Tally \in Tallies /\ Balanced(heap, Tally) /\ TypeOK /\ ResultThere(heap, result)
  BY Before
<1>2. ASSUME result # Null
      PROVE  LET rs == heap[result].rows IN
             /\ Len(rs) = Len(tables.parent)
             /\ \A i \in DOMAIN rs : /\ rs[i].n = i
                                     /\ ValueAt(heap, rs[i].refs[1]) = tables.parent[i]
                                     /\ \A c \in Children : IsSetFor(rs[i].refs[1 + c], c, tables.parent[i])
             /\ \A i, j \in DOMAIN rs, c \in Children :
                  tables.parent[i] = tables.parent[j] => rs[i].refs[1 + c] = rs[j].refs[1 + c]
  <2> DEFINE rs == heap[result].rows
  <2>1. Joined(heap, tables, rs)
    BY <1>2 DEF JInv, Delivering
  <2>2. result \in 1..Len(heap) /\ heap[result].refs > 0
    BY <1>2, ResultHeld
  <2>3. rs \in Seq(RowOf(1 + NChildren)) /\ DOMAIN rs = 1..Len(rs)
    <3>1. rs \in Seq(RowOf(1 + NChildren))
      BY <1>1, <1>2 DEF ResultThere
    <3> HIDE DEF rs
    <3> QED  BY <3>1
  <2>4. ASSUME NEW i \in DOMAIN rs, NEW c \in Children
        PROVE  IsSetFor(rs[i].refs[1 + c], c, tables.parent[i])
    <3> DEFINE s == rs[i].refs[1 + c]
    <3>1. SetFor(heap, s, tables.child[c], tables.parent[i])
      BY <2>1 DEF Joined
    <3>2. 1 + NChildren \in Nat /\ 1 + c \in 1..(1 + NChildren) /\ i \in 1..Len(rs)
      BY <2>3, ParentChildAssumption DEF Children
    <3>3. s # Null => RefsAt(heap, s) > 0
      BY <1>1, <2>2, <2>3, <3>2, RowSetAlive
    <3> HIDE DEF s
    <3>4. IsSetFor(s, c, tables.parent[i])
      BY <1>1, <3>1, <3>3, SetNotNull, SetExact
    <3> QED  BY <3>4 DEF s
  <2> HIDE DEF rs
  <2>5. Len(rs) = Len(tables.parent)
        /\ (\A i \in DOMAIN rs : rs[i].n = i /\ ValueAt(heap, rs[i].refs[1]) = tables.parent[i])
        /\ \A i, j \in DOMAIN rs, c \in Children :
             tables.parent[i] = tables.parent[j] => rs[i].refs[1 + c] = rs[j].refs[1 + c]
    BY <2>1 DEF Joined, HasValue
  <2> QED  BY <2>4, <2>5 DEF rs
<1>3. ASSUME NEW x \in held PROVE IsSetFor(x.set, x.child, tables.parent[x.row])
  <2>1. x.child \in Children /\ SetFor(heap, x.set, tables.child[x.child], tables.parent[x.row])
    BY DEF JInv, Delivering
  <2>2. x.set # Null
    BY <1>1, <2>1, SetNotNull
  <2>3. RefsAt(heap, x.set) > 0
    BY <2>2, ResultHeld
  <2> QED  BY <2>1, <2>3, SetExact
<1> QED  BY <1>2, <1>3 DEF JoinIsExact

\* A delivered result set is the parent's rows in order, each with exactly the
\* rows of every child that have its value, NULL matching NULL, in the order the
\* child returned them; parents with the same value share a set; and a set the
\* caller kept stays so when the result set is gone.
THEOREM JoinedAsAsked == Spec => []JoinIsExact
<1>1. Init => IInv /\ JInv
  BY InitHolds, InitJoins
<1>2. IInv /\ JInv /\ [Next]_vars => IInv' /\ JInv'
  BY NextKeeps, NextJoins
<1>3. IInv /\ JInv => JoinIsExact
  BY JoinedIsExact
<1> QED  BY <1>1, <1>2, <1>3, PTL DEF Spec
=============================================================================
