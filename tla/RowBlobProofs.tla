---------------------------- MODULE RowBlobProofs ---------------------------
(***************************************************************************)
(* Proofs about RowBlob, for any shapes, values and sizes.                 *)
(***************************************************************************)
EXTENDS RowBlob, Recursion, FiniteSetTheorems

-----------------------------------------------------------------------------
(* Numbers in groups of bits *)

\* A function on 0..n stays in V when it starts there and each step leads there.
LEMMA StepsStayIn ==
  ASSUME NEW V, NEW n \in Nat, NEW f, f[0] \in V,
         \A i \in 1..n : f[i - 1] \in V => f[i] \in V
  PROVE  \A i \in 0..n : f[i] \in V
<1> DEFINE T == {i \in Nat : i <= n => f[i] \in V}
<1>1. 0 \in T
  OBVIOUS
<1>2. ASSUME NEW i \in Nat, i \in T PROVE i + 1 \in T
  <2> SUFFICES ASSUME i + 1 <= n PROVE f[i + 1] \in V
    OBVIOUS
  <2>1. i + 1 \in 1..n /\ (i + 1) - 1 = i /\ i <= n
    OBVIOUS
  <2>2. f[i] \in V
    BY <1>2, <2>1
  <2> QED  BY <2>1, <2>2
<1> HIDE DEF T
<1>3. \A i \in Nat : i \in T
  BY <1>1, <1>2, Induction
<1> QED  BY <1>3 DEF T

LEMMA NumberFacts ==
  ASSUME NEW type \in IntTypes
  PROVE  /\ Half[type] \in Nat /\ Half[type] > 0 /\ MaxBytes[type] \in Nat
         /\ Group \in Nat /\ Group > 1
BY RowBlobAssumption

LEMMA GroupFacts ==
  ASSUME NEW u \in Nat
  PROVE  /\ Group \in Nat /\ Group > 1
         /\ u \div Group \in Nat /\ u % Group \in Nat /\ u % Group < Group
         /\ Group * (u \div Group) \in Nat
         /\ u = Group * (u \div Group) + (u % Group)
<1>1. Group \in Nat /\ Group > 1
  BY RowBlobAssumption
<1>2. u \div Group \in Nat
  BY <1>1
<1>3. Group * (u \div Group) \in Nat
  <2> DEFINE a == u \div Group
  <2> HIDE DEF a
  <2>1. a \in Nat
    BY <1>2 DEF a
  <2>2. Group * a \in Nat
    BY <1>1, <2>1
  <2> QED  BY <2>2 DEF a
<1> QED  BY <1>1, <1>2, <1>3

LEMMA GroupDivides ==
  ASSUME NEW u \in Nat, NEW v \in Nat, u <= v
  PROVE  u \div Group <= v \div Group
<1> DEFINE a == u \div Group
           b == v \div Group
           c == u % Group
           d == v % Group
<1>1. a \in Nat /\ c \in Nat /\ c < Group /\ u = Group * a + c
  BY GroupFacts
<1>2. b \in Nat /\ d \in Nat /\ d < Group /\ v = Group * b + d /\ Group \in Nat
  BY GroupFacts
<1> HIDE DEF a, b, c, d
<1> SUFFICES ASSUME b + 1 <= a PROVE FALSE
  BY <1>1, <1>2 DEF a, b
<1>3. PICK k \in Nat : a = b + 1 + k
  <2>1. a - (b + 1) \in Nat /\ a = b + 1 + (a - (b + 1))
    BY <1>1, <1>2
  <2> QED  BY <2>1
<1>4. Group * a = Group * b + Group + Group * k /\ Group * k \in Nat
  BY <1>2, <1>3
<1> QED  BY <1>1, <1>2, <1>4

\* The numbers of Shifted: each is the one before without its last group.
LEMMA ShiftedDef ==
  ASSUME NEW u \in Nat, NEW n \in Nat
  PROVE  /\ Shifted(u, n) \in [0..n -> Nat] /\ Shifted(u, n)[0] = u
         /\ \A j \in 1..n : Shifted(u, n)[j] = Shifted(u, n)[j - 1] \div Group
<1> DEFINE Eq(g) == [j \in 0..n |-> IF j = 0 THEN u ELSE g[j - 1] \div Group]
           rest == CHOOSE g : g = Eq(g)
           V == Nat
           step == [j \in 1..n |-> [x \in V |-> x \div Group]]
<1>1. Shifted(u, n) = rest
  BY DEF Shifted
<1>2. \A g : \A j \in 0..n : Eq(g)[j] = IF j = 0 THEN u ELSE g[j - 1] \div Group
  OBVIOUS
<1>3. \A g : Eq(g) = [j \in 0..n |-> Eq(g)[j]]
  OBVIOUS
<1>4. \A x \in V : x \div Group \in V
  BY GroupFacts
<1>5. u \in V /\ step \in [1..n -> [V -> V]]
  BY <1>4
<1>6. \A j \in 1..n : \A x \in V : step[j][x] = x \div Group
  OBVIOUS
<1> HIDE DEF Eq, V, step
<1>7. PICK g : Recursive(g, V, u, n, step)
  BY <1>5, RecursionExists
<1>8. g = Eq(g)
  <2>1. ASSUME NEW j \in 0..n PROVE g[j] = Eq(g)[j]
    <3>1. CASE j = 0
      BY <1>2, <1>7, <3>1 DEF Recursive
    <3>2. CASE j # 0
      <4>1. j \in 1..n /\ j - 1 \in 0..n
        BY <3>2
      <4>2. g[j] = step[j][g[j - 1]] /\ g[j - 1] \in V
        BY <1>7, <4>1 DEF Recursive
      <4> QED  BY <1>2, <1>6, <3>2, <4>1, <4>2
    <3> QED  BY <3>1, <3>2
  <2>2. g = [j \in 0..n |-> g[j]]
    BY <1>7 DEF Recursive
  <2> QED  BY <1>3, <2>1, <2>2
<1>9. rest = Eq(rest)
  BY <1>8
<1> HIDE DEF rest
<1>10. \A j \in 0..n : rest[j] = IF j = 0 THEN u ELSE rest[j - 1] \div Group
  BY <1>2, <1>9
<1>11. \A j \in 0..n : rest[j] \in V
  <2>1. rest[0] \in V
    BY <1>5, <1>10
  <2>2. \A j \in 1..n : rest[j - 1] \in V => rest[j] \in V
    BY <1>4, <1>10
  <2> QED  BY <2>1, <2>2, StepsStayIn
<1>12. rest = [j \in 0..n |-> rest[j]]
  BY <1>3, <1>9
<1>13. rest \in [0..n -> Nat]
  BY <1>11, <1>12 DEF V
<1> QED  BY <1>1, <1>10, <1>13

\* A smaller number is used up no later, and what is used up stays so.
LEMMA ShiftedOrder ==
  ASSUME NEW u \in Nat, NEW v \in Nat, NEW n \in Nat, u <= v
  PROVE  \A j \in 0..n : Shifted(u, n)[j] <= Shifted(v, n)[j]
<1> DEFINE f == Shifted(u, n)
           g == Shifted(v, n)
           T == {j \in Nat : j <= n => f[j] <= g[j]}
<1>1. f \in [0..n -> Nat] /\ f[0] = u /\ \A j \in 1..n : f[j] = f[j - 1] \div Group
  BY ShiftedDef
<1>2. g \in [0..n -> Nat] /\ g[0] = v /\ \A j \in 1..n : g[j] = g[j - 1] \div Group
  BY ShiftedDef
<1> HIDE DEF f, g
<1>3. 0 \in T
  BY <1>1, <1>2
<1>4. ASSUME NEW j \in Nat, j \in T PROVE j + 1 \in T
  <2> SUFFICES ASSUME j + 1 <= n PROVE f[j + 1] <= g[j + 1]
    OBVIOUS
  <2>1. j + 1 \in 1..n /\ (j + 1) - 1 = j /\ j \in 0..n
    OBVIOUS
  <2>2. f[j] <= g[j] /\ f[j] \in Nat /\ g[j] \in Nat
    BY <1>1, <1>2, <1>4, <2>1
  <2>3. f[j + 1] = f[j] \div Group /\ g[j + 1] = g[j] \div Group
    BY <1>1, <1>2, <2>1
  <2> QED  BY <2>2, <2>3, GroupDivides
<1> HIDE DEF T
<1>5. \A j \in Nat : j \in T
  BY <1>3, <1>4, Induction
<1> QED  BY <1>5 DEF T, f, g

LEMMA ModSmall ==
  ASSUME NEW m \in Nat, NEW x \in Nat, x < m
  PROVE  x % m = x /\ (x + m) % m = x
<1>1. m > 0
  OBVIOUS
<1>2. x % m = x
  BY <1>1
<1>3. (x + m) % m = x
  <2> DEFINE y == x + m
             q == y \div m
             r == y % m
  <2>1. y \in Nat /\ q \in Nat /\ r \in Nat /\ r < m /\ y = m * q + r
    BY <1>1
  <2> HIDE DEF q, r
  <2>2. CASE q = 0
    BY <2>1, <2>2
  <2>3. CASE q = 1
    BY <2>1, <2>3 DEF r
  <2>4. CASE q > 1
    <3>1. PICK k \in Nat : q = 2 + k
      <4>1. q - 2 \in Nat /\ q = 2 + (q - 2)
        BY <2>1, <2>4
      <4> QED  BY <4>1
    <3>2. m * q = m + m + m * k /\ m * k \in Nat
      BY <3>1
    <3> QED  BY <2>1, <3>2
  <2> QED  BY <2>1, <2>2, <2>3, <2>4
<1> QED  BY <1>2, <1>3

LEMMA ModNegative ==
  ASSUME NEW m \in Nat, NEW x \in Nat, 0 < x, x <= m
  PROVE  (-x) % m = m - x
<1> DEFINE y == -x
           q == y \div m
           r == y % m
<1>1. y \in Int /\ q \in Int /\ r \in Nat /\ r < m /\ y = m * q + r
  OBVIOUS
<1> HIDE DEF q, r
<1>2. CASE q = -1
  BY <1>1, <1>2 DEF r
<1>3. CASE q >= 0
  <2>1. m * q \in Nat
    BY <1>1, <1>3
  <2> QED  BY <1>1, <2>1
<1>4. CASE q < -1
  <2>1. PICK k \in Nat : q = -2 - k
    <3>1. -2 - q \in Nat /\ q = -2 - (-2 - q)
      BY <1>1, <1>4
    <3> QED  BY <3>1
  <2>2. m * q = -m - m - m * k /\ m * k \in Nat
    BY <2>1
  <2> QED  BY <1>1, <2>2
<1> QED  BY <1>1, <1>2, <1>3, <1>4

\* ZigzagDecode undoes ZigzagEncode.
LEMMA ZigzagInverse ==
  ASSUME NEW half \in Nat, half > 0, NEW i \in (-half)..(half - 1)
  PROVE  /\ ZigzagEncode(i, half) \in Nat /\ ZigzagEncode(i, half) <= 2 * half - 1
         /\ ZigzagDecode(ZigzagEncode(i, half)) = i
<1>1. CASE i >= 0
  <2>1. ZigzagEncode(i, half) = 2 * i
    BY <1>1 DEF ZigzagEncode
  <2>2. (2 * i) % 2 = 0 /\ (2 * i) \div 2 = i
    OBVIOUS
  <2> QED  BY <1>1, <2>1, <2>2 DEF ZigzagDecode
<1>2. CASE i < 0
  <2> DEFINE m == 2 * half
             x == -2 * i
             u == x - 1
  <2>1. m \in Nat /\ x \in Nat /\ 0 < x /\ x <= m /\ 2 * i = -x
    BY <1>2
  <2>2. (2 * i) % m = m - x
    BY <2>1, ModNegative
  <2>3. ZigzagEncode(i, half) = u
    BY <1>2, <2>1, <2>2 DEF ZigzagEncode
  <2>4. u % 2 = 1 /\ u \div 2 = -i - 1
    BY <1>2
  <2> QED  BY <2>1, <2>3, <2>4 DEF ZigzagDecode
<1> QED  BY <1>1, <1>2

\* The least member of a set of natural numbers
LEMMA MinOfSet ==
  ASSUME NEW S, S \subseteq Nat, S # {}
  PROVE  Min(S) \in S /\ \A x \in S : Min(S) <= x
<1>1. PICK m \in S : \A x \in S : m <= x
  BY LeastMember
<1> QED  BY <1>1 DEF Min

\* What the writer's loop makes of a number of a type: the groups of u up to the
\* one after which nothing is left.
IsVarint(bytes, type, u, n, rest) ==
  /\ n \in 1..MaxBytes[type] /\ bytes \in Seq(Nat) /\ Len(bytes) = n
  /\ rest \in [0..n -> Nat] /\ rest[0] = u /\ rest[n] = 0
  /\ \A j \in 1..n : rest[j] = rest[j - 1] \div Group
  /\ \A j \in 1..n : bytes[j] = (rest[j - 1] % Group) + (IF j < n THEN Group ELSE 0)

LEMMA VarintBytesDef ==
  ASSUME NEW type \in IntTypes, NEW i \in (-Half[type])..(Half[type] - 1)
  PROVE  \E n, rest : IsVarint(VarintBytes(i, type), type, ZigzagEncode(i, Half[type]), n, rest)
<1> DEFINE half == Half[type]
           max == MaxBytes[type]
           u == ZigzagEncode(i, half)
           top == 2 * half - 1
           rest == Shifted(u, max)
           S == {m \in 1..max : rest[m] = 0}
           n == Min(S)
           bytes == [j \in 1..n |-> (rest[j - 1] % Group) + (IF j < n THEN Group ELSE 0)]
<1>1. half \in Nat /\ half > 0 /\ max \in Nat /\ Shifted(top, max)[max] = 0
  BY RowBlobAssumption
<1>2. u \in Nat /\ top \in Nat /\ top > 0 /\ u <= top
  BY <1>1, ZigzagInverse
<1>3. VarintBytes(i, type) = bytes
  BY DEF VarintBytes
<1> HIDE DEF half, max, u, top
<1>4. max # 0
  BY <1>1, <1>2, ShiftedDef
<1>5. rest \in [0..max -> Nat] /\ rest[0] = u /\ \A j \in 1..max : rest[j] = rest[j - 1] \div Group
  BY <1>1, <1>2, ShiftedDef
<1>6. rest[max] = 0
  <2>1. max \in 0..max
    BY <1>1
  <2>2. rest[max] <= Shifted(top, max)[max]
    BY <1>1, <1>2, <2>1, ShiftedOrder
  <2> QED  BY <1>1, <1>5, <2>1, <2>2
<1> HIDE DEF rest
<1>7. n \in 1..max /\ rest[n] = 0
  <2>1. S \subseteq Nat /\ max \in S
    BY <1>1, <1>4, <1>6
  <2>2. Min(S) \in S
    BY <2>1, MinOfSet
  <2> QED  BY <2>2
<1> HIDE DEF n
<1>8. \A j \in 1..n : bytes[j] \in Nat
  <2> TAKE j \in 1..n
  <2>1. rest[j - 1] \in Nat
    BY <1>1, <1>5, <1>7
  <2>2. rest[j - 1] % Group \in Nat /\ Group \in Nat
    BY <2>1, GroupFacts
  <2> QED  BY <2>2
<1>9. bytes \in Seq(Nat) /\ Len(bytes) = n
  <2>1. n \in Nat /\ bytes \in [1..n -> Nat]
    BY <1>7, <1>8
  <2> HIDE DEF bytes
  <2> QED  BY <2>1
<1> DEFINE f == [j \in 0..n |-> rest[j]]
<1>10. IsVarint(bytes, type, u, n, f)
  <2>1. f \in [0..n -> Nat] /\ f[0] = u /\ f[n] = 0
    BY <1>1, <1>5, <1>7
  <2>2. \A j \in 1..n : f[j] = f[j - 1] \div Group /\ f[j - 1] = rest[j - 1]
    BY <1>1, <1>5, <1>7
  <2> QED  BY <1>7, <1>9, <2>1, <2>2 DEF IsVarint, max
<1> QED  BY <1>3, <1>10 DEF u, half

\* The numbers of Joined: the value of a byte and of those after it.
LEMMA JoinedDef ==
  ASSUME NEW s \in Seq(Nat), NEW p \in Nat \ {0}, NEW n \in Nat, p + n - 1 <= Len(s)
  PROVE  \E from \in [0..n -> Nat] :
           /\ Joined(s, p, n) = from[n] /\ from[0] = 0
           /\ \A j \in 1..n : from[j] = (s[p + n - j] % Group) + Group * from[j - 1]
<1> DEFINE Eq(g) == [j \in 0..n |-> IF j = 0 THEN 0 ELSE (s[p + n - j] % Group) + Group * g[j - 1]]
           from == CHOOSE g : g = Eq(g)
           V == Nat
           d == [j \in 1..n |-> s[p + n - j] % Group]
           step == [j \in 1..n |-> [x \in V |-> d[j] + Group * x]]
<1>1. Joined(s, p, n) = from[n]
  BY DEF Joined
<1>2. \A g : \A j \in 0..n : Eq(g)[j] = IF j = 0 THEN 0 ELSE (s[p + n - j] % Group) + Group * g[j - 1]
  OBVIOUS
<1>3. \A g : Eq(g) = [j \in 0..n |-> Eq(g)[j]]
  OBVIOUS
<1>4. \A j \in 1..n : d[j] = s[p + n - j] % Group /\ d[j] \in Nat
  <2> TAKE j \in 1..n
  <2>1. s[p + n - j] \in Nat
    <3>1. p + n - j \in 1..Len(s)
      OBVIOUS
    <3> QED  BY <3>1
  <2> QED  BY <2>1, GroupFacts
<1> HIDE DEF d
<1>5. \A j \in 1..n : \A x \in V : d[j] + Group * x \in V
  <2>1. Group \in Nat
    BY RowBlobAssumption
  <2> TAKE j \in 1..n
  <2> TAKE x \in V
  <2>2. d[j] \in Nat /\ x \in Nat
    BY <1>4
  <2> DEFINE e == d[j]
  <2> HIDE DEF e
  <2>3. e + Group * x \in Nat
    BY <2>1, <2>2 DEF e
  <2> QED  BY <2>3 DEF e
<1>6. 0 \in V /\ step \in [1..n -> [V -> V]]
  BY <1>5
<1>7. \A j \in 1..n : \A x \in V : step[j][x] = d[j] + Group * x
  OBVIOUS
<1> HIDE DEF Eq, V, step
<1>8. PICK g : Recursive(g, V, 0, n, step)
  BY <1>6, RecursionExists
<1>9. g = Eq(g)
  <2>1. ASSUME NEW j \in 0..n PROVE g[j] = Eq(g)[j]
    <3>1. CASE j = 0
      BY <1>2, <1>8, <3>1 DEF Recursive
    <3>2. CASE j # 0
      <4>1. j \in 1..n /\ j - 1 \in 0..n
        BY <3>2
      <4>2. g[j] = step[j][g[j - 1]] /\ g[j - 1] \in V
        BY <1>8, <4>1 DEF Recursive
      <4>3. g[j] = d[j] + Group * g[j - 1]
        BY <1>7, <4>1, <4>2
      <4>4. d[j] = s[p + n - j] % Group
        BY <1>4, <4>1
      <4> QED  BY <1>2, <3>2, <4>3, <4>4
    <3> QED  BY <3>1, <3>2
  <2>2. g = [j \in 0..n |-> g[j]]
    BY <1>8 DEF Recursive
  <2> QED  BY <1>3, <2>1, <2>2
<1>10. from = Eq(from)
  BY <1>9
<1> HIDE DEF from
<1>11. from[0] = 0 /\ \A j \in 1..n : from[j] = (s[p + n - j] % Group) + Group * from[j - 1]
  BY <1>2, <1>10
<1>12. \A j \in 0..n : from[j] \in V
  <2>1. from[0] \in V
    BY <1>6, <1>11
  <2>2. \A j \in 1..n : from[j - 1] \in V => from[j] \in V
    BY <1>4, <1>5, <1>11
  <2> QED  BY <2>1, <2>2, StepsStayIn
<1>13. from = [j \in 0..n |-> from[j]]
  BY <1>3, <1>10
<1>14. from \in [0..n -> Nat]
  BY <1>12, <1>13 DEF V
<1> QED  BY <1>1, <1>11, <1>14

\* The cells at p of s are those given, as far as s goes.
Begins(s, p, cells) ==
  \A j \in 1..Len(cells) : p + j - 1 <= Len(s) => s[p + j - 1] = cells[j]

\* Reading the bytes that were written for a number gives the number.
LEMMA VarintJoined ==
  ASSUME NEW s \in Seq(Nat), NEW p \in Nat \ {0}, NEW type \in IntTypes, NEW u \in Nat,
         NEW bytes, NEW n, NEW rest, IsVarint(bytes, type, u, n, rest),
         Begins(s, p, bytes), p + n - 1 <= Len(s)
  PROVE  Joined(s, p, n) = u
<1>1. /\ n \in Nat /\ n > 0 /\ rest \in [0..n -> Nat] /\ rest[0] = u /\ rest[n] = 0 /\ Len(bytes) = n
      /\ \A j \in 1..n : rest[j] = rest[j - 1] \div Group
      /\ \A j \in 1..n : bytes[j] = (rest[j - 1] % Group) + (IF j < n THEN Group ELSE 0)
  <2>1. n \in 1..MaxBytes[type] /\ MaxBytes[type] \in Nat
    BY NumberFacts DEF IsVarint
  <2>2. n \in Nat /\ n > 0
    BY <2>1
  <2> QED  BY <2>2 DEF IsVarint
<1>2. PICK from \in [0..n -> Nat] :
        /\ Joined(s, p, n) = from[n] /\ from[0] = 0
        /\ \A j \in 1..n : from[j] = (s[p + n - j] % Group) + Group * from[j - 1]
  <2> DEFINE S == Seq(Nat)
  <2>1. n \in Nat /\ p + n - 1 <= Len(s) /\ p \in Nat \ {0} /\ s \in Seq(Nat)
    BY <1>1
  <2>2. \E from \in [0..n -> Nat] :
        /\ Joined(s, p, n) = from[n] /\ from[0] = 0
        /\ \A j \in 1..n : from[j] = (s[p + n - j] % Group) + Group * from[j - 1]
    BY ONLY <2>1, JoinedDef
  <2> QED  BY <2>2
<1>3. \A j \in 1..n : s[p + j - 1] = bytes[j]
  <2> TAKE j \in 1..n
  <2>1. j \in 1..Len(bytes) /\ p + j - 1 <= Len(s)
    BY <1>1
  <2> QED  BY <2>1 DEF Begins
<1>4. \A j \in 1..n : s[p + j - 1] % Group = rest[j - 1] % Group
  <2> TAKE j \in 1..n
  <2>1. rest[j - 1] \in Nat
    <3>1. j - 1 \in 0..n
      BY <1>1
    <3> QED  BY <1>1, <3>1
  <2> DEFINE r == rest[j - 1] % Group
  <2>2. r \in Nat /\ r < Group /\ Group \in Nat
    <3> DEFINE x == rest[j - 1]
    <3>1. x \in Nat
      BY <2>1
    <3> HIDE DEF x
    <3>2. x % Group \in Nat /\ x % Group < Group /\ Group \in Nat
      BY ONLY <3>1, GroupFacts
    <3> QED  BY <3>2 DEF x
  <2>3. s[p + j - 1] = r + (IF j < n THEN Group ELSE 0)
    <3>1. s[p + j - 1] = bytes[j]
      BY ONLY <1>3
    <3>2. bytes[j] = (rest[j - 1] % Group) + (IF j < n THEN Group ELSE 0)
      BY ONLY <1>1
    <3> QED  BY ONLY <3>1, <3>2 DEF r
  <2> HIDE DEF r
  <2>4. r % Group = r /\ (r + Group) % Group = r
    BY <2>2, ModSmall
  <2>5. CASE j < n
    BY <2>3, <2>4, <2>5 DEF r
  <2>6. CASE ~(j < n)
    <3>1. s[p + j - 1] = r
      BY <2>2, <2>3, <2>6
    <3> QED  BY <2>4, <3>1 DEF r
  <2> QED  BY <2>5, <2>6
<1> DEFINE T == {j \in Nat : j <= n => from[j] = rest[n - j]}
<1>5. 0 \in T
  BY <1>1, <1>2
<1>6. ASSUME NEW j \in Nat, j \in T PROVE j + 1 \in T
  <2> SUFFICES ASSUME j + 1 <= n PROVE from[j + 1] = rest[n - (j + 1)]
    OBVIOUS
  <2> DEFINE k == n - j
             v == rest[k - 1]
  <2>1. k \in 1..n /\ j + 1 \in 1..n /\ n - (j + 1) = k - 1 /\ p + n - (j + 1) = p + k - 1 /\ (j + 1) - 1 = j
    BY <1>1
  <2>2. from[j + 1] = (s[p + k - 1] % Group) + Group * from[j]
    BY <1>2, <2>1
  <2>3. from[j] = rest[k] /\ rest[k] = v \div Group /\ s[p + k - 1] % Group = v % Group
    <3>1. from[j] = rest[k]
      <4>1. j <= n
        BY <1>1
      <4> QED  BY <1>6, <4>1
    <3>2. rest[k] = v \div Group
      BY <1>1, <2>1
    <3>3. s[p + k - 1] % Group = v % Group
      BY ONLY <1>4, <2>1
    <3> QED  BY <3>1, <3>2, <3>3
  <2>4. v \in Nat
    <3>1. k - 1 \in 0..n
      BY <1>1, <2>1
    <3> QED  BY <1>1, <3>1
  <2> HIDE DEF k
  <2> HIDE DEF v
  <2>5. v = Group * (v \div Group) + (v % Group) /\ Group * (v \div Group) \in Nat /\ v % Group \in Nat
    BY <2>4, GroupFacts
  <2>6. from[j + 1] = v
    BY <2>2, <2>3, <2>5
  <2> QED  BY <2>1, <2>6 DEF v
<1> HIDE DEF T
<1>7. n \in T
  BY <1>1, <1>5, <1>6, Induction
<1>8. from[n] = rest[n - n] /\ n - n = 0
  BY <1>1, <1>7 DEF T
<1> QED  BY <1>1, <1>2, <1>8

\* x is what reading at p gives where k cells were written for v: v, or an error
\* when the input ends before they do.
Reads(x, v, s, p, k) ==
  /\ x.ok \in BOOLEAN /\ (x.ok <=> p + k - 1 <= Len(s))
  /\ x.ok => x.val = v /\ x.next = p + k

LEMMA VarintReads ==
  ASSUME NEW s \in Seq(Nat), NEW p \in Nat \ {0}, NEW type \in IntTypes,
         NEW i \in (-Half[type])..(Half[type] - 1), Begins(s, p, VarintBytes(i, type))
  PROVE  Reads(VarintAt(s, p, type), i, s, p, Len(VarintBytes(i, type)))
<1> DEFINE half == Half[type]
           max == MaxBytes[type]
           u == ZigzagEncode(i, half)
           bytes == VarintBytes(i, type)
           ends == VarintEnds(s, p, max)
           x == VarintAt(s, p, type)
<1>1. half \in Nat /\ half > 0 /\ max \in Nat /\ Group \in Nat /\ Group > 1
  BY NumberFacts
<1>2. u \in Nat /\ u <= 2 * half - 1 /\ ZigzagDecode(u) = i
  BY <1>1, ZigzagInverse
<1>3. PICK n, rest : IsVarint(bytes, type, u, n, rest)
  BY VarintBytesDef
<1> DEFINE m == CHOOSE k \in ends : TRUE
<1>4. x = IF ends = {} THEN [ok |-> FALSE]
          ELSE [ok |-> TRUE, val |-> ZigzagDecode(Joined(s, p, m) % (2 * half)), next |-> p + m]
  BY DEF VarintAt
<1>5. n \in 1..max /\ n \in Nat /\ n > 0 /\ Len(bytes) = n
  BY <1>1, <1>3 DEF IsVarint
<1>6. \A k \in 1..n : k < n => bytes[k] >= Group
  <2> TAKE k \in 1..n
  <2> SUFFICES ASSUME k < n PROVE bytes[k] >= Group
    OBVIOUS
  <2>1. rest[k - 1] \in Nat
    BY <1>3, <1>5 DEF IsVarint
  <2>2. bytes[k] = (rest[k - 1] % Group) + Group
    BY <1>3, <1>5 DEF IsVarint
  <2>3. rest[k - 1] % Group \in Nat
    BY <2>1, GroupFacts
  <2> HIDE DEF bytes
  <2> QED  BY <1>1, <2>2, <2>3
<1>7. bytes[n] < Group
  <2>1. rest[n - 1] \in Nat
    BY <1>3, <1>5 DEF IsVarint
  <2>2. bytes[n] = (rest[n - 1] % Group) + 0
    BY <1>3, <1>5 DEF IsVarint
  <2>3. rest[n - 1] % Group \in Nat /\ rest[n - 1] % Group < Group
    BY <2>1, GroupFacts
  <2> HIDE DEF bytes
  <2> QED  BY <1>1, <2>2, <2>3
<1>8. \A k \in 1..n : p + k - 1 <= Len(s) => s[p + k - 1] = bytes[k] /\ bytes[k] \in Nat
  <2> TAKE k \in 1..n
  <2>1. k \in 1..Len(bytes)
    BY <1>5
  <2>2. bytes \in Seq(Nat)
    BY <1>3 DEF IsVarint
  <2>3. bytes[k] \in Nat
    <3> HIDE DEF bytes
    <3> QED  BY <2>1, <2>2
  <2> HIDE DEF bytes
  <2> QED  BY <2>1, <2>3 DEF Begins, bytes
<1>9. \A k \in ends : /\ k \in 1..max /\ p + k - 1 <= Len(s) /\ s[p + k - 1] < Group
                      /\ \A l \in 1..(k - 1) : s[p + l - 1] >= Group
  BY DEF VarintEnds
<1>10. CASE p + n - 1 <= Len(s)
  <2>1. n \in ends
    <3>1. s[p + n - 1] < Group
      BY <1>5, <1>7, <1>8, <1>10
    <3>2. \A l \in 1..(n - 1) : s[p + l - 1] >= Group
      <4> TAKE l \in 1..(n - 1)
      <4>1. l \in 1..n /\ l < n /\ p + l - 1 <= Len(s)
        BY <1>5, <1>10
      <4> QED  BY <1>6, <1>8, <4>1
    <3> QED  BY <1>5, <1>10, <3>1, <3>2 DEF VarintEnds
  <2>2. \A k \in ends : k = n
    <3> TAKE k \in ends
    <3> HIDE DEF ends
    <3>1. k \in Nat /\ k >= 1
      BY <1>1, <1>9
    <3>2. CASE k < n
      <4>1. k \in 1..n /\ p + k - 1 <= Len(s)
        BY <1>5, <1>9, <3>1, <3>2
      <4>2. s[p + k - 1] = bytes[k] /\ bytes[k] \in Nat /\ bytes[k] >= Group /\ s[p + k - 1] < Group
        BY <1>6, <1>8, <1>9, <3>2, <4>1
      <4> QED  BY <1>1, <4>2
    <3>3. CASE n < k
      <4>1. n \in 1..(k - 1) /\ n \in 1..n
        BY <1>5, <3>1, <3>3
      <4>2. s[p + n - 1] >= Group /\ s[p + n - 1] = bytes[n] /\ bytes[n] \in Nat
        BY <1>8, <1>9, <1>10, <4>1
      <4> QED  BY <1>1, <1>7, <4>2
    <3> QED  BY <1>5, <3>1, <3>2, <3>3
  <2>3. m = n /\ ends # {}
    BY <2>1, <2>2
  <2>4. Joined(s, p, n) = u
    BY <1>2, <1>3, <1>10, VarintJoined
  <2>5. u % (2 * half) = u
    <3> DEFINE w == 2 * half
    <3>1. w \in Nat /\ u \in Nat /\ u < w
      BY <1>1, <1>2
    <3> HIDE DEF w, u
    <3>2. u % w = u
      BY <3>1, ModSmall
    <3> QED  BY <3>2 DEF w
  <2>6. x = [ok |-> TRUE, val |-> i, next |-> p + n]
    BY <1>2, <1>4, <2>3, <2>4, <2>5
  <2> HIDE DEF x, bytes
  <2> QED  BY <1>5, <1>10, <2>6 DEF Reads, x, bytes
<1>11. CASE ~(p + n - 1 <= Len(s))
  <2>1. ends = {}
    <3> SUFFICES ASSUME NEW k \in ends PROVE FALSE
      OBVIOUS
    <3> HIDE DEF ends
    <3>1. k \in 1..max /\ k \in Nat /\ p + k - 1 <= Len(s) /\ s[p + k - 1] < Group
      BY <1>1, <1>9
    <3>2. k < n /\ k \in 1..n
      BY <1>5, <1>11, <3>1
    <3>3. s[p + k - 1] = bytes[k] /\ bytes[k] \in Nat /\ bytes[k] >= Group
      BY <1>6, <1>8, <3>1, <3>2
    <3> QED  BY <1>1, <3>1, <3>3
  <2>2. x = [ok |-> FALSE]
    BY <1>4, <2>1
  <2> HIDE DEF x, bytes
  <2> QED  BY <1>5, <1>11, <2>2 DEF Reads, x, bytes
<1> QED  BY <1>10, <1>11

\* What is read when nothing is known of the input: the reader goes on within it.
LEMMA VarintType ==
  ASSUME NEW s \in Seq(Nat), NEW p \in Nat \ {0}, NEW type \in IntTypes, VarintAt(s, p, type).ok
  PROVE  /\ VarintAt(s, p, type).val \in Int
         /\ VarintAt(s, p, type).next \in Nat /\ VarintAt(s, p, type).next > p
         /\ VarintAt(s, p, type).next <= Len(s) + 1
<1> DEFINE half == Half[type]
           max == MaxBytes[type]
           ends == VarintEnds(s, p, max)
           m == CHOOSE k \in ends : TRUE
           x == VarintAt(s, p, type)
<1>1. half \in Nat /\ half > 0 /\ max \in Nat
  BY NumberFacts
<1>2. x = IF ends = {} THEN [ok |-> FALSE]
          ELSE [ok |-> TRUE, val |-> ZigzagDecode(Joined(s, p, m) % (2 * half)), next |-> p + m]
  BY DEF VarintAt
<1>3. ends # {}
  BY <1>2
<1>4. m \in ends
  BY <1>3
<1>5. m \in 1..max /\ p + m - 1 <= Len(s)
  BY <1>4 DEF VarintEnds
<1>6. m \in Nat /\ m > 0
  BY <1>1, <1>5
<1> HIDE DEF m
<1>7. Joined(s, p, m) \in Nat
  <2>1. m \in Nat /\ p + m - 1 <= Len(s) /\ p \in Nat \ {0} /\ s \in Seq(Nat)
    BY <1>5, <1>6
  <2>2. \E from \in [0..m -> Nat] :
        /\ Joined(s, p, m) = from[m] /\ from[0] = 0
        /\ \A j \in 1..m : from[j] = (s[p + m - j] % Group) + Group * from[j - 1]
    BY ONLY <2>1, JoinedDef
  <2>3. PICK from \in [0..m -> Nat] : Joined(s, p, m) = from[m]
    BY <2>2
  <2>4. m \in 0..m
    BY <1>6
  <2> QED  BY <2>3, <2>4
<1> DEFINE w == 2 * half
           u == Joined(s, p, m) % w
<1>8. u \in Nat
  <2>1. w \in Nat /\ w > 0
    BY <1>1
  <2> HIDE DEF w
  <2> QED  BY <1>7, <2>1
<1>9. x = [ok |-> TRUE, val |-> ZigzagDecode(u), next |-> p + m]
  BY <1>2, <1>3
<1> HIDE DEF u, x
<1>10. ZigzagDecode(u) \in Int
  BY <1>8 DEF ZigzagDecode
<1> QED  BY <1>5, <1>6, <1>9, <1>10 DEF x

-----------------------------------------------------------------------------
(* Counting columns *)

\* How many numbers from 1 below i are in S
CountBelow(S, i) == Cardinality({j \in 1..(i - 1) : j \in S})

LEMMA CountFacts ==
  ASSUME NEW S, NEW i \in Nat
  PROVE  /\ CountBelow(S, i) \in Nat /\ CountBelow(S, 1) = 0
         /\ i > 0 => CountBelow(S, i + 1) = CountBelow(S, i) + (IF i \in S THEN 1 ELSE 0)
<1> DEFINE below(k) == {j \in 1..(k - 1) : j \in S}
<1>1. ASSUME NEW k \in Nat PROVE IsFiniteSet(below(k)) /\ Cardinality(below(k)) \in Nat
  <2>1. IsFiniteSet(1..(k - 1))
    BY FS_Interval
  <2>2. IsFiniteSet(below(k))
    BY <2>1, FS_Subset
  <2> QED  BY <2>2, FS_CardinalityType
<1>2. below(1) = {}
  OBVIOUS
<1>3. CountBelow(S, 1) = 0
  BY <1>2, FS_EmptySet DEF CountBelow
<1>4. ASSUME i > 0 PROVE CountBelow(S, i + 1) = CountBelow(S, i) + (IF i \in S THEN 1 ELSE 0)
  <2>1. CASE i \in S
    <3>1. below(i + 1) = below(i) \cup {i} /\ i \notin below(i)
      BY <1>4, <2>1
    <3>2. IsFiniteSet(below(i))
      BY <1>1
    <3> HIDE DEF below
    <3>3. Cardinality(below(i + 1)) = Cardinality(below(i)) + 1
      BY <3>1, <3>2, FS_AddElement
    <3> QED  BY <2>1, <3>3 DEF CountBelow, below
  <2>2. CASE i \notin S
    <3>1. below(i + 1) = below(i)
      BY <1>4, <2>2
    <3>2. Cardinality(below(i + 1)) = Cardinality(below(i)) /\ Cardinality(below(i)) \in Nat
      BY <1>1, <3>1
    <3> QED  BY <2>2, <3>2 DEF CountBelow
  <2> QED  BY <2>1, <2>2
<1>5. CountBelow(S, i) \in Nat
  BY <1>1 DEF CountBelow
<1> QED  BY <1>3, <1>4, <1>5

\* A later number has at least as many below it, and more when the earlier one counts.
LEMMA CountOrder ==
  ASSUME NEW S, NEW i \in Nat \ {0}, NEW j \in Nat
  PROVE  /\ i <= j => CountBelow(S, i) <= CountBelow(S, j)
         /\ (i < j /\ i \in S) => CountBelow(S, i) < CountBelow(S, j)
<1> DEFINE below(k) == {l \in 1..(k - 1) : l \in S}
<1>1. ASSUME NEW k \in Nat, k <= j PROVE CountBelow(S, k) <= CountBelow(S, j)
  <2>1. IsFiniteSet(1..(j - 1))
    BY FS_Interval
  <2>2. IsFiniteSet(below(j))
    BY <2>1, FS_Subset
  <2>3. below(k) \subseteq below(j)
    BY <1>1
  <2>4. Cardinality(below(k)) <= Cardinality(below(j))
    BY <2>2, <2>3, FS_Subset
  <2> QED  BY <2>4 DEF CountBelow
<1>2. i <= j => CountBelow(S, i) <= CountBelow(S, j)
  BY <1>1
<1>3. ASSUME i < j, i \in S PROVE CountBelow(S, i) < CountBelow(S, j)
  <2>1. CountBelow(S, i + 1) <= CountBelow(S, j)
    BY <1>1, <1>3
  <2>2. CountBelow(S, i + 1) = CountBelow(S, i) + 1
    BY <1>3, CountFacts
  <2>3. CountBelow(S, i) \in Nat /\ CountBelow(S, j) \in Nat
    BY CountFacts
  <2> QED  BY <2>1, <2>2, <2>3
<1> QED  BY <1>2, <1>3

\* The columns that have a bit for NULL, and those that are one
NullableColumns(cols) == {j \in Nat : ~cols[j].notnull}
BoolColumns(cols) == {j \in Nat : cols[j].type = "bool"}

LEMMA ColumnCounts ==
  ASSUME NEW cols, NEW i \in Nat
  PROVE  /\ NullablesBefore(cols, i) = CountBelow(NullableColumns(cols), i)
         /\ BoolsBefore(cols, i) = CountBelow(BoolColumns(cols), i)
<1>1. {j \in 1..(i - 1) : ~cols[j].notnull} = {j \in 1..(i - 1) : j \in NullableColumns(cols)}
  BY DEF NullableColumns
<1>2. {j \in 1..(i - 1) : cols[j].type = "bool"} = {j \in 1..(i - 1) : j \in BoolColumns(cols)}
  BY DEF BoolColumns
<1> QED  BY <1>1, <1>2 DEF NullablesBefore, BoolsBefore, CountBelow

LEMMA CountsBefore ==
  ASSUME NEW cols, NEW i \in Nat \ {0}
  PROVE  /\ NullablesBefore(cols, i) \in Nat /\ BoolsBefore(cols, i) \in Nat
         /\ NullablesBefore(cols, 1) = 0 /\ BoolsBefore(cols, 1) = 0
         /\ NullablesBefore(cols, i + 1) = NullablesBefore(cols, i) + (IF cols[i].notnull THEN 0 ELSE 1)
         /\ BoolsBefore(cols, i + 1) = BoolsBefore(cols, i) + (IF cols[i].type = "bool" THEN 1 ELSE 0)
<1>1. /\ NullablesBefore(cols, i) = CountBelow(NullableColumns(cols), i)
      /\ BoolsBefore(cols, i) = CountBelow(BoolColumns(cols), i)
  BY ColumnCounts
<1>2. /\ NullablesBefore(cols, i + 1) = CountBelow(NullableColumns(cols), i + 1)
      /\ BoolsBefore(cols, i + 1) = CountBelow(BoolColumns(cols), i + 1)
  BY ColumnCounts
<1>3. /\ NullablesBefore(cols, 1) = CountBelow(NullableColumns(cols), 1)
      /\ BoolsBefore(cols, 1) = CountBelow(BoolColumns(cols), 1)
  BY ColumnCounts
<1>4. i \in NullableColumns(cols) <=> ~cols[i].notnull
  BY DEF NullableColumns
<1>5. i \in BoolColumns(cols) <=> cols[i].type = "bool"
  BY DEF BoolColumns
<1>6. /\ CountBelow(NullableColumns(cols), i) \in Nat /\ CountBelow(NullableColumns(cols), 1) = 0
      /\ CountBelow(NullableColumns(cols), i + 1)
         = CountBelow(NullableColumns(cols), i) + (IF i \in NullableColumns(cols) THEN 1 ELSE 0)
  BY CountFacts
<1>7. /\ CountBelow(BoolColumns(cols), i) \in Nat /\ CountBelow(BoolColumns(cols), 1) = 0
      /\ CountBelow(BoolColumns(cols), i + 1)
         = CountBelow(BoolColumns(cols), i) + (IF i \in BoolColumns(cols) THEN 1 ELSE 0)
  BY CountFacts
<1> QED  BY <1>1, <1>2, <1>3, <1>4, <1>5, <1>6, <1>7

\* Two columns with a bit of one kind have different bits, all below the number of them.
LEMMA BitsDiffer ==
  ASSUME NEW cols, NEW i \in Nat \ {0}, NEW j \in Nat \ {0}
  PROVE  /\ (~cols[i].notnull /\ i < j) => NullablesBefore(cols, i) < NullablesBefore(cols, j)
         /\ (cols[i].type = "bool" /\ i < j) => BoolsBefore(cols, i) < BoolsBefore(cols, j)
<1>1. /\ NullablesBefore(cols, i) = CountBelow(NullableColumns(cols), i)
      /\ BoolsBefore(cols, i) = CountBelow(BoolColumns(cols), i)
      /\ NullablesBefore(cols, j) = CountBelow(NullableColumns(cols), j)
      /\ BoolsBefore(cols, j) = CountBelow(BoolColumns(cols), j)
  BY ColumnCounts
<1>2. (~cols[i].notnull /\ i < j) => CountBelow(NullableColumns(cols), i) < CountBelow(NullableColumns(cols), j)
  BY CountOrder DEF NullableColumns
<1>3. (cols[i].type = "bool" /\ i < j) => CountBelow(BoolColumns(cols), i) < CountBelow(BoolColumns(cols), j)
  BY CountOrder DEF BoolColumns
<1> QED  BY <1>1, <1>2, <1>3

\* The letter of a column tells what it needs to.
LEMMA CodeFacts ==
  ASSUME NEW c \in Column
  PROVE  /\ Code(c) \in Nat /\ Code(c) # 0 /\ CodeType(Code(c)) = c.type
         /\ CodeNullable(Code(c)) <=> ~c.notnull
<1>1. c.type \in Types /\ c.notnull \in BOOLEAN
  BY DEF Column
<1>2. \A t \in Types : Letter[t] \in Nat /\ Letter[t] > 0
  BY DEF Types, Letter
<1>3. \A t, v \in Types : Letter[t] = Letter[v] => t = v
  BY DEF Types, Letter
<1> DEFINE n == Letter[c.type]
<1>4. n \in Nat /\ n > 0
  BY <1>1, <1>2
<1>5. Code(c) = 2 * n + (IF c.notnull THEN 0 ELSE 1)
  BY DEF Code
<1>6. Code(c) \in Nat /\ Code(c) # 0 /\ Code(c) \div 2 = n /\ (Code(c) % 2 = 1 <=> ~c.notnull)
  <2> HIDE DEF n
  <2> QED  BY <1>1, <1>4, <1>5
<1>7. CodeType(Code(c)) = c.type
  BY <1>1, <1>3, <1>6 DEF CodeType
<1> QED  BY <1>6, <1>7 DEF CodeNullable

-----------------------------------------------------------------------------
(* Sequences and buffers *)

LEMMA Concatenation ==
  ASSUME NEW s \in Seq(Nat), NEW t \in Seq(Nat)
  PROVE  /\ s \o t \in Seq(Nat) /\ Len(s) \in Nat /\ Len(t) \in Nat
         /\ Len(s \o t) = Len(s) + Len(t)
         /\ \A j \in 1..Len(s) : (s \o t)[j] = s[j]
         /\ \A j \in 1..Len(t) : (s \o t)[Len(s) + j] = t[j]
OBVIOUS

LEMMA SameSequence ==
  ASSUME NEW s \in Seq(Nat), NEW t \in Seq(Nat), Len(s) = Len(t), \A j \in 1..Len(s) : s[j] = t[j]
  PROVE  s = t
OBVIOUS

\* A buffer has not left its first block while what it has fits there.
Buffers ==
  {b \in [data : Seq(Nat), max : Nat, gen : Nat] :
     Len(b.data) <= GrowthSize => b.gen = 1 /\ b.max = GrowthSize}

LEMMA BufferFacts ==
  ASSUME NEW b \in Buffers
  PROVE  /\ b.data \in Seq(Nat) /\ Len(b.data) \in Nat /\ b.max \in Nat /\ b.gen \in Nat
         /\ b = [data |-> b.data, max |-> b.max, gen |-> b.gen]
         /\ Len(b.data) <= GrowthSize => b.gen = 1 /\ b.max = GrowthSize
<1>1. b \in [data : Seq(Nat), max : Nat, gen : Nat]
  BY DEF Buffers
<1>2. b.data \in Seq(Nat) /\ b.max \in Nat /\ b.gen \in Nat /\ b = [data |-> b.data, max |-> b.max, gen |-> b.gen]
  BY <1>1
<1>3. Len(b.data) \in Nat
  <2> DEFINE d == b.data
  <2>1. d \in Seq(Nat)
    BY <1>2
  <2> HIDE DEF d
  <2>2. Len(d) \in Nat
    BY <2>1
  <2> QED  BY <2>2 DEF d
<1> QED  BY <1>2, <1>3 DEF Buffers

LEMMA NewBufferFacts ==
  NewBuffer \in Buffers /\ NewBuffer.data = << >> /\ GrowthSize \in Nat
<1>1. GrowthSize \in Nat
  BY RowBlobAssumption
<1>2. NewBuffer = [data |-> << >>, max |-> GrowthSize, gen |-> 1]
  BY DEF NewBuffer
<1> QED  BY <1>1, <1>2 DEF Buffers

LEMMA Append1Facts ==
  ASSUME NEW b \in Buffers, NEW cells \in Seq(Nat)
  PROVE  Append1(b, cells) \in Buffers /\ Append1(b, cells).data = b.data \o cells
<1> DEFINE d == b.data
           e == d \o cells
           c == Append1(b, cells)
           n == Len(cells)
           k == Len(d)
<1>1. /\ d \in Seq(Nat) /\ k \in Nat /\ b.max \in Nat /\ b.gen \in Nat
      /\ b = [data |-> d, max |-> b.max, gen |-> b.gen]
      /\ k <= GrowthSize => b.gen = 1 /\ b.max = GrowthSize
  BY BufferFacts
<1>2. e \in Seq(Nat) /\ Len(e) = k + n /\ n \in Nat
  BY <1>1, Concatenation
<1>3. GrowthSize \in Nat
  BY NewBufferFacts
<1>4. c = IF n > b.max - k THEN [data |-> e, max |-> n + 2 * b.max, gen |-> b.gen + 1]
          ELSE [b EXCEPT !.data = e]
  BY DEF Append1
<1> HIDE DEF d, e, n, k, c
<1>5. CASE n > b.max - k
  <2>1. c = [data |-> e, max |-> n + 2 * b.max, gen |-> b.gen + 1]
    BY <1>4, <1>5
  <2>2. n + 2 * b.max \in Nat /\ b.gen + 1 \in Nat
    BY <1>1, <1>2
  <2>3. ~(Len(e) <= GrowthSize)
    BY <1>1, <1>2, <1>3, <1>5
  <2>4. c \in Buffers
    BY <1>2, <2>1, <2>2, <2>3 DEF Buffers
  <2> QED  BY <2>1, <2>4 DEF c, e, d
<1>6. CASE ~(n > b.max - k)
  <2>1. c = [data |-> e, max |-> b.max, gen |-> b.gen]
    BY <1>1, <1>4, <1>6
  <2>2. Len(e) <= GrowthSize => k <= GrowthSize
    BY <1>1, <1>2, <1>3
  <2>3. c \in Buffers
    BY <1>1, <1>2, <2>1, <2>2 DEF Buffers
  <2> QED  BY <2>1, <2>3 DEF c, e, d
<1> QED  BY <1>5, <1>6

\* s is d and after it the first n of bytes.
Extends(s, d, bytes, n) ==
  /\ s \in Seq(Nat) /\ Len(s) = Len(d) + n
  /\ \A j \in 1..Len(d) : s[j] = d[j]
  /\ \A j \in 1..n : s[Len(d) + j] = bytes[j]

LEMMA AppendBytesFacts ==
  ASSUME NEW b \in Buffers, NEW bytes \in Seq(Nat)
  PROVE  AppendBytes(b, bytes) \in Buffers /\ AppendBytes(b, bytes).data = b.data \o bytes
<1> DEFINE N == Len(bytes)
           Eq(g) == [n \in 0..N |-> IF n = 0 THEN b ELSE Append1(g[n - 1], <<bytes[n]>>)]
           after == CHOOSE g : g = Eq(g)
           V == Buffers
           step == [n \in 1..N |-> [c \in V |-> Append1(c, <<bytes[n]>>)]]
<1>1. AppendBytes(b, bytes) = after[N]
  BY DEF AppendBytes
<1>2. \A g : \A n \in 0..N : Eq(g)[n] = IF n = 0 THEN b ELSE Append1(g[n - 1], <<bytes[n]>>)
  OBVIOUS
<1>3. \A g : Eq(g) = [n \in 0..N |-> Eq(g)[n]]
  OBVIOUS
<1>4. N \in Nat /\ \A n \in 1..N : bytes[n] \in Nat /\ <<bytes[n]>> \in Seq(Nat)
  OBVIOUS
<1>5. \A n \in 1..N : \A c \in V : Append1(c, <<bytes[n]>>) \in V
  BY <1>4, Append1Facts
<1>6. b \in V /\ step \in [1..N -> [V -> V]]
  BY <1>5
<1>7. \A n \in 1..N : \A c \in V : step[n][c] = Append1(c, <<bytes[n]>>)
  OBVIOUS
<1> HIDE DEF Eq, V, step, N
<1>8. PICK g : Recursive(g, V, b, N, step)
  BY <1>4, <1>6, RecursionExists
<1>9. g = Eq(g)
  <2>1. ASSUME NEW n \in 0..N PROVE g[n] = Eq(g)[n]
    <3>1. CASE n = 0
      BY <1>2, <1>8, <3>1 DEF Recursive
    <3>2. CASE n # 0
      <4>1. n \in 1..N /\ n - 1 \in 0..N
        BY <1>4, <3>2
      <4>2. g[n] = step[n][g[n - 1]] /\ g[n - 1] \in V
        BY <1>8, <4>1 DEF Recursive
      <4> QED  BY <1>2, <1>7, <3>2, <4>1, <4>2
    <3> QED  BY <3>1, <3>2
  <2>2. g = [n \in 0..N |-> g[n]]
    BY <1>8 DEF Recursive
  <2> QED  BY <1>3, <2>1, <2>2
<1>10. after = Eq(after)
  BY <1>9
<1> HIDE DEF after
<1>11. after[0] = b /\ \A n \in 1..N : after[n] = Append1(after[n - 1], <<bytes[n]>>)
  <2>1. \A n \in 0..N : after[n] = IF n = 0 THEN b ELSE Append1(after[n - 1], <<bytes[n]>>)
    BY <1>2, <1>10
  <2>2. N \in Nat
    BY <1>4
  <2>3. after[0] = b
    <3>1. 0 \in 0..N
      BY <2>2
    <3>2. after[0] = IF 0 = 0 THEN b ELSE Append1(after[0 - 1], <<bytes[0]>>)
      BY <2>1, <3>1, Zenon
    <3> QED  BY <3>2
  <2>4. ASSUME NEW n \in 1..N PROVE after[n] = Append1(after[n - 1], <<bytes[n]>>)
    <3>1. n \in 0..N /\ n # 0
      BY <2>2
    <3>2. after[n] = IF n = 0 THEN b ELSE Append1(after[n - 1], <<bytes[n]>>)
      BY <2>1, <3>1, Zenon
    <3> QED  BY <3>1, <3>2
  <2> QED  BY <2>3, <2>4
<1>12. \A n \in 0..N : after[n] \in V
  <2>1. \A n \in 1..N : after[n - 1] \in V => after[n] \in V
    BY <1>5, <1>11
  <2> QED  BY <1>4, <1>6, <1>11, <2>1, StepsStayIn
<1> DEFINE d == b.data
           T == {n \in Nat : n <= N => Extends(after[n].data, d, bytes, n)}
<1>13. d \in Seq(Nat) /\ Len(d) \in Nat
  BY BufferFacts
<1> HIDE DEF d
<1>14. 0 \in T
  BY <1>11, <1>13 DEF Extends, d
<1>15. ASSUME NEW n \in Nat, n \in T PROVE n + 1 \in T
  <2> SUFFICES ASSUME n + 1 <= N PROVE Extends(after[n + 1].data, d, bytes, n + 1)
    OBVIOUS
  <2> DEFINE s == after[n].data
             t == <<bytes[n + 1]>>
             u == after[n + 1].data
  <2>1. n + 1 \in 1..N /\ (n + 1) - 1 = n /\ n \in 0..N /\ n <= N
    BY <1>4
  <2>2. Extends(s, d, bytes, n)
    BY <1>15, <2>1
  <2>3. after[n] \in Buffers /\ t \in Seq(Nat) /\ Len(t) = 1 /\ t[1] = bytes[n + 1]
    BY <1>4, <1>12, <2>1 DEF V
  <2>4. after[n + 1] = Append1(after[n], t)
    BY <1>11, <2>1
  <2> HIDE DEF t
  <2>5. u = s \o t
    BY <2>3, <2>4, Append1Facts
  <2>6. s \in Seq(Nat) /\ Len(s) = Len(d) + n
    BY <2>2 DEF Extends
  <2> HIDE DEF s, u
  <2>7. /\ u \in Seq(Nat) /\ Len(u) = Len(s) + Len(t)
        /\ \A j \in 1..Len(s) : u[j] = s[j]
        /\ \A j \in 1..Len(t) : u[Len(s) + j] = t[j]
    BY <2>3, <2>5, <2>6, Concatenation
  <2>8. \A j \in 1..Len(d) : u[j] = d[j]
    BY <1>13, <2>2, <2>6, <2>7 DEF Extends
  <2>9. ASSUME NEW j \in 1..(n + 1) PROVE u[Len(d) + j] = bytes[j]
    <3>1. CASE j <= n
      <4>1. j \in 1..n /\ Len(d) + j \in 1..Len(s)
        BY <1>13, <2>6, <3>1
      <4> QED  BY <2>2, <2>7, <4>1 DEF Extends
    <3>2. CASE ~(j <= n)
      <4>1. j = n + 1 /\ 1 \in 1..Len(t) /\ Len(d) + j = Len(s) + 1
        BY <1>13, <2>3, <2>6, <3>2
      <4> QED  BY <2>3, <2>7, <4>1
    <3> QED  BY <3>1, <3>2
  <2>10. Len(u) = Len(d) + (n + 1)
    BY <1>13, <2>3, <2>6, <2>7
  <2>11. Extends(u, d, bytes, n + 1)
    BY <2>7, <2>8, <2>9, <2>10 DEF Extends
  <2> QED  BY <2>11 DEF u
<1> HIDE DEF T
<1>16. \A n \in Nat : n \in T
  BY <1>14, <1>15, Induction
<1> DEFINE s == after[N].data
<1>17. Extends(s, d, bytes, N)
  BY <1>4, <1>16 DEF T
<1> HIDE DEF s
<1>18. s = d \o bytes
  <2> DEFINE t == d \o bytes
             k == Len(d)
  <2>1. /\ t \in Seq(Nat) /\ Len(t) = k + N /\ k \in Nat
        /\ \A j \in 1..k : t[j] = d[j]
        /\ \A j \in 1..N : t[k + j] = bytes[j]
    BY <1>13, Concatenation DEF N
  <2>2. s \in Seq(Nat) /\ Len(s) = k + N /\ (\A j \in 1..k : s[j] = d[j]) /\ \A j \in 1..N : s[k + j] = bytes[j]
    BY <1>17 DEF Extends
  <2> HIDE DEF t, k
  <2>3. ASSUME NEW j \in 1..(k + N) PROVE s[j] = t[j]
    <3>1. CASE j <= k
      BY <2>1, <2>2, <3>1
    <3>2. CASE ~(j <= k)
      <4>1. j - k \in 1..N /\ j = k + (j - k)
        BY <1>4, <2>1, <3>2
      <4>2. s[k + (j - k)] = bytes[j - k] /\ t[k + (j - k)] = bytes[j - k]
        BY <2>1, <2>2, <4>1
      <4> QED  BY <4>1, <4>2
    <3> QED  BY <3>1, <3>2
  <2>4. s = t
    BY <2>1, <2>2, <2>3, SameSequence
  <2> QED  BY <2>4 DEF t
<1>19. N \in 0..N
  BY <1>4
<1> QED  BY <1>1, <1>12, <1>18, <1>19 DEF V, d, s

-----------------------------------------------------------------------------
(* Writing a row *)

\* What the writer appends for a value and for a field
Cells(type, v) ==
  CASE type \in IntTypes -> VarintBytes(v, type)
    [] type = "real" -> v
    [] type = "bool" -> << >>
    [] type = "text" -> v \o << 0 >>
    [] type = "blob" -> VarintBytes(Len(v), "int") \o v

FieldCells(c, v) == IF v = NULL THEN << >> ELSE Cells(c.type, v)

LEMMA ValueFacts ==
  ASSUME NEW type \in Types, NEW v \in Values[type]
  PROVE  /\ v # NULL
         /\ type \in IntTypes => v \in (-Half[type])..(Half[type] - 1)
         /\ type = "real" => v \in Seq(Nat) /\ Len(v) = RealBytes
         /\ type = "bool" => v \in BOOLEAN
         /\ type = "text" => v \in Seq(Nat) /\ \A j \in 1..Len(v) : v[j] # 0
         /\ type = "blob" => v \in Seq(Nat) /\ Len(v) \in (-Half["int"])..(Half["int"] - 1)
<1>1. type \in IntTypes => v \in (-Half[type])..(Half[type] - 1)
  BY RowBlobAssumption
<1>2. type = "real" => v \in Seq(Nat) /\ Len(v) = RealBytes
  BY RowBlobAssumption
<1>3. type = "bool" => v \in BOOLEAN
  BY RowBlobAssumption
<1>4. type = "text" => v \in Seq(Nat) /\ \A j \in 1..Len(v) : v[j] # 0
  <2>1. type = "text" => v \in Seq(Nat \ {0})
    BY RowBlobAssumption
  <2> QED  BY <2>1
<1>5. type = "blob" => v \in Seq(Nat) /\ Len(v) < Half["int"]
  BY RowBlobAssumption
<1>6. Half["int"] \in Nat /\ \A t \in IntTypes : Half[t] \in Nat
  BY NumberFacts DEF IntTypes
<1>7. type = "blob" => Len(v) \in (-Half["int"])..(Half["int"] - 1)
  <2>1. v \in Seq(Nat) => Len(v) \in Nat
    OBVIOUS
  <2> QED  BY <1>5, <1>6, <2>1
<1>8. NULL \notin Int /\ NULL \notin BOOLEAN /\ NULL \notin Seq(Nat)
  BY RowBlobAssumption
<1>9. type \in IntTypes => v \in Int
  BY <1>1, <1>6
<1>10. v # NULL
  BY <1>2, <1>3, <1>4, <1>5, <1>8, <1>9 DEF Types, IntTypes
<1> QED  BY <1>1, <1>2, <1>3, <1>4, <1>5, <1>7, <1>10

LEMMA VarintIsBytes ==
  ASSUME NEW type \in IntTypes, NEW i \in (-Half[type])..(Half[type] - 1)
  PROVE  VarintBytes(i, type) \in Seq(Nat)
<1>1. PICK n, rest : IsVarint(VarintBytes(i, type), type, ZigzagEncode(i, Half[type]), n, rest)
  BY VarintBytesDef
<1> QED  BY <1>1 DEF IsVarint

LEMMA CellsOf ==
  ASSUME NEW type \in Types, NEW v
  PROVE  /\ type \in IntTypes => Cells(type, v) = VarintBytes(v, type)
         /\ type = "real" => Cells(type, v) = v
         /\ type = "bool" => Cells(type, v) = << >>
         /\ type = "text" => Cells(type, v) = v \o << 0 >>
         /\ type = "blob" => Cells(type, v) = VarintBytes(Len(v), "int") \o v
BY DEF Cells, IntTypes

LEMMA CellsFacts ==
  ASSUME NEW type \in Types, NEW v \in Values[type]
  PROVE  Cells(type, v) \in Seq(Nat)
<1>1. CASE type \in IntTypes
  <2>1. v \in (-Half[type])..(Half[type] - 1)
    BY <1>1, ValueFacts
  <2>2. Cells(type, v) = VarintBytes(v, type)
    BY <1>1, CellsOf
  <2> QED  BY <1>1, <2>1, <2>2, VarintIsBytes
<1>2. CASE type = "real"
  BY <1>2, ValueFacts, CellsOf
<1>3. CASE type = "bool"
  <2>1. Cells(type, v) = << >>
    BY <1>3, CellsOf
  <2> QED  BY <2>1
<1>4. CASE type = "text"
  <2>1. v \in Seq(Nat)
    BY <1>4, ValueFacts
  <2>2. Cells(type, v) = v \o << 0 >>
    BY <1>4, CellsOf
  <2>3. << 0 >> \in Seq(Nat)
    OBVIOUS
  <2> QED  BY <2>1, <2>2, <2>3, Concatenation
<1>5. CASE type = "blob"
  <2>1. v \in Seq(Nat) /\ Len(v) \in (-Half["int"])..(Half["int"] - 1)
    BY <1>5, ValueFacts
  <2>2. VarintBytes(Len(v), "int") \in Seq(Nat)
    BY <2>1, VarintIsBytes DEF IntTypes
  <2>3. Cells(type, v) = VarintBytes(Len(v), "int") \o v
    BY <1>5, CellsOf
  <2> QED  BY <2>1, <2>2, <2>3, Concatenation
<1> QED  BY <1>1, <1>2, <1>3, <1>4, <1>5 DEF Types, IntTypes

\* The row being written.  The pointer to the bits is good while the row is in
\* the first block of the buffer.
Outputs ==
  {o \in [buf : Buffers, bits : [gen : Nat, at : Nat]] :
     Len(o.buf.data) <= GrowthSize => o.bits.gen = 1}

\* e is d with the bits K after cell at set, and cells after it.
Written(d, e, at, K, cells) ==
  /\ e \in Seq(Nat) /\ Len(e) = Len(d) + Len(cells)
  /\ \A j \in 1..Len(d) : e[j] = IF j - at - 1 \in K THEN 1 ELSE d[j]
  /\ \A j \in 1..Len(cells) : e[Len(d) + j] = cells[j]

\* From o to p, the bits K have been set and cells written.
Puts(o, p, K, cells) ==
  /\ p \in Outputs /\ p.bits = o.bits
  /\ Len(p.buf.data) = Len(o.buf.data) + Len(cells)
  /\ Len(p.buf.data) <= GrowthSize => Written(o.buf.data, p.buf.data, o.bits.at, K, cells)

LEMMA OutputFacts ==
  ASSUME NEW o \in Outputs
  PROVE  /\ o.buf \in Buffers /\ o.bits.gen \in Nat /\ o.bits.at \in Nat
         /\ o.buf.data \in Seq(Nat) /\ Len(o.buf.data) \in Nat
         /\ o = [buf |-> o.buf, bits |-> o.bits]
         /\ Len(o.buf.data) <= GrowthSize => o.bits.gen = 1 /\ o.buf.gen = 1
<1>1. o \in [buf : Buffers, bits : [gen : Nat, at : Nat]]
  BY DEF Outputs
<1>2. o.buf \in Buffers /\ o.bits \in [gen : Nat, at : Nat] /\ o = [buf |-> o.buf, bits |-> o.bits]
  BY <1>1
<1>3. o.bits.gen \in Nat /\ o.bits.at \in Nat
  BY <1>2
<1>4. /\ o.buf.data \in Seq(Nat) /\ Len(o.buf.data) \in Nat
      /\ Len(o.buf.data) <= GrowthSize => o.buf.gen = 1
  BY <1>2, BufferFacts
<1>5. Len(o.buf.data) <= GrowthSize => o.bits.gen = 1
  BY DEF Outputs
<1> QED  BY <1>2, <1>3, <1>4, <1>5

LEMMA OutputOf ==
  ASSUME NEW o \in Outputs, NEW b \in Buffers, Len(b.data) >= Len(o.buf.data)
  PROVE  /\ [o EXCEPT !.buf = b] \in Outputs
         /\ [o EXCEPT !.buf = b].buf = b /\ [o EXCEPT !.buf = b].bits = o.bits
<1> DEFINE p == [o EXCEPT !.buf = b]
<1>1. o \in [buf : Buffers, bits : [gen : Nat, at : Nat]]
  BY DEF Outputs
<1>2. p \in [buf : Buffers, bits : [gen : Nat, at : Nat]] /\ p.buf = b /\ p.bits = o.bits
  BY <1>1
<1>3. Len(b.data) <= GrowthSize => o.bits.gen = 1
  <2>1. Len(b.data) \in Nat /\ Len(o.buf.data) \in Nat /\ GrowthSize \in Nat
    BY BufferFacts, OutputFacts, NewBufferFacts
  <2>2. Len(b.data) <= GrowthSize => Len(o.buf.data) <= GrowthSize
    BY <2>1
  <2> QED  BY <2>2, OutputFacts
<1> HIDE DEF p
<1>4. p \in Outputs
  BY <1>2, <1>3 DEF Outputs
<1> QED  BY <1>2, <1>4 DEF p

LEMMA PutsData ==
  ASSUME NEW o \in Outputs, NEW p \in Outputs, NEW cells \in Seq(Nat), p.bits = o.bits,
         p.buf.data = o.buf.data \o cells
  PROVE  Puts(o, p, {}, cells)
<1> DEFINE d == o.buf.data
           e == p.buf.data
<1>1. d \in Seq(Nat) /\ Len(d) \in Nat
  BY OutputFacts
<1>2. e = d \o cells
  OBVIOUS
<1> HIDE DEF d, e
<1>3. /\ e \in Seq(Nat) /\ Len(e) = Len(d) + Len(cells)
      /\ \A j \in 1..Len(d) : e[j] = d[j]
      /\ \A j \in 1..Len(cells) : e[Len(d) + j] = cells[j]
  BY <1>1, <1>2, Concatenation
<1>4. Written(d, e, o.bits.at, {}, cells)
  BY <1>3 DEF Written
<1> QED  BY <1>3, <1>4 DEF Puts, d, e

LEMMA PutsAfterBit ==
  ASSUME NEW o \in Outputs, NEW p, NEW q, NEW K, NEW M, NEW cells \in Seq(Nat),
         Puts(o, p, K, << >>), Puts(p, q, M, cells)
  PROVE  Puts(o, q, K \cup M, cells)
<1> DEFINE d == o.buf.data
           e == p.buf.data
           f == q.buf.data
           at == o.bits.at
           none == << >>
<1>1. /\ q \in Outputs /\ q.bits = o.bits /\ p.bits = o.bits /\ p \in Outputs
      /\ Len(e) = Len(d) + Len(none) /\ Len(f) = Len(e) + Len(cells)
      /\ Len(e) <= GrowthSize => Written(d, e, at, K, none)
      /\ Len(f) <= GrowthSize => Written(e, f, at, M, cells)
  BY DEF Puts
<1>2. Len(none) = 0 /\ Len(cells) \in Nat
  OBVIOUS
<1>3. Len(d) \in Nat /\ GrowthSize \in Nat
  BY OutputFacts, NewBufferFacts
<1> HIDE DEF d, e, f, at, none
<1>4. Len(e) = Len(d) /\ Len(f) = Len(d) + Len(cells) /\ (Len(f) <= GrowthSize => Len(e) <= GrowthSize)
  BY <1>1, <1>2, <1>3
<1>5. ASSUME Len(f) <= GrowthSize PROVE Written(d, f, at, K \cup M, cells)
  <2>1. Written(d, e, at, K, none) /\ Written(e, f, at, M, cells)
    BY <1>1, <1>4, <1>5
  <2>2. \A j \in 1..Len(d) : e[j] = IF j - at - 1 \in K THEN 1 ELSE d[j]
    BY <2>1 DEF Written
  <2>3. /\ f \in Seq(Nat)
        /\ \A j \in 1..Len(d) : f[j] = IF j - at - 1 \in M THEN 1 ELSE e[j]
        /\ \A j \in 1..Len(cells) : f[Len(d) + j] = cells[j]
    BY <1>4, <2>1 DEF Written
  <2>4. \A j \in 1..Len(d) : f[j] = IF j - at - 1 \in K \cup M THEN 1 ELSE d[j]
    BY <2>2, <2>3
  <2> QED  BY <1>4, <2>3, <2>4 DEF Written
<1> QED  BY <1>1, <1>4, <1>5 DEF Puts, d, e, f, at

LEMMA SetCell ==
  ASSUME NEW s \in Seq(Nat), NEW k
  PROVE  /\ [s EXCEPT ![k] = 1] \in Seq(Nat) /\ Len([s EXCEPT ![k] = 1]) = Len(s)
         /\ \A j \in 1..Len(s) : [s EXCEPT ![k] = 1][j] = IF j = k THEN 1 ELSE s[j]
<1> DEFINE t == [s EXCEPT ![k] = 1]
<1>1. Len(s) \in Nat /\ s \in [1..Len(s) -> Nat]
  OBVIOUS
<1>2. t \in [1..Len(s) -> Nat]
  BY <1>1
<1>3. \A j \in 1..Len(s) : t[j] = IF j = k THEN 1 ELSE s[j]
  BY <1>1
<1> HIDE DEF t
<1>4. t \in Seq(Nat) /\ Len(t) = Len(s)
  BY <1>1, <1>2
<1> QED  BY <1>3, <1>4 DEF t

LEMMA SetBitFacts ==
  ASSUME NEW o \in Outputs, NEW k \in Nat
  PROVE  Puts(o, SetBit(o, k), {k}, << >>)
<1> DEFINE d == o.buf.data
           b == o.buf
           idx == o.bits.at + k + 1
           e == [d EXCEPT ![idx] = 1]
           c == [data |-> e, max |-> b.max, gen |-> b.gen]
           none == << >>
           p == SetBit(o, k)
<1>1. /\ d \in Seq(Nat) /\ Len(d) \in Nat /\ b \in Buffers /\ o.bits.at \in Nat
      /\ Len(d) <= GrowthSize => o.bits.gen = 1 /\ b.gen = 1
      /\ o = [buf |-> b, bits |-> o.bits]
  BY OutputFacts
<1>2. b = [data |-> d, max |-> b.max, gen |-> b.gen] /\ b.max \in Nat /\ b.gen \in Nat
      /\ (Len(d) <= GrowthSize => b.gen = 1 /\ b.max = GrowthSize)
  BY <1>1, BufferFacts
<1>3. none \in Seq(Nat) /\ Len(none) = 0
  OBVIOUS
<1>4. CASE o.bits.gen = o.buf.gen
  <2>1. p = [o EXCEPT !.buf.data[idx] = 1]
    BY <1>4 DEF SetBit
  <2>2. p = [o EXCEPT !.buf = c]
    <3>1. [b EXCEPT !.data[idx] = 1] = c
      <4>1. e = [b.data EXCEPT ![idx] = 1]
        OBVIOUS
      <4> HIDE DEF b, e, d
      <4>2. [b EXCEPT !.data[idx] = 1] = [b EXCEPT !.data = e]
        BY <4>1, Zenon
      <4> QED  BY <1>2, <4>2
    <3>2. p = [o EXCEPT !.buf = [b EXCEPT !.data[idx] = 1]]
      BY <2>1
    <3> QED  BY <3>1, <3>2
  <2> HIDE DEF idx
  <2>3. e \in Seq(Nat) /\ Len(e) = Len(d) /\ \A j \in 1..Len(d) : e[j] = IF j = idx THEN 1 ELSE d[j]
    <3> HIDE DEF d
    <3> QED  BY <1>1, SetCell
  <2> HIDE DEF e, d, b
  <2>4. c \in Buffers /\ c.data = e
    BY <1>2, <2>3 DEF Buffers
  <2> HIDE DEF c, p
  <2>5. p \in Outputs /\ p.buf = c /\ p.bits = o.bits
    BY <1>1, <2>2, <2>3, <2>4, OutputOf DEF d
  <2>6. \A j \in 1..Len(d) : j = idx <=> j - o.bits.at - 1 \in {k}
    BY <1>1 DEF idx
  <2>7. \A j \in 1..Len(d) : e[j] = IF j - o.bits.at - 1 \in {k} THEN 1 ELSE d[j]
    BY <2>3, <2>6
  <2> HIDE DEF none
  <2>8. Written(d, e, o.bits.at, {k}, none)
    BY <1>1, <1>3, <2>3, <2>7 DEF Written
  <2>9. Len(e) = Len(d) + Len(none)
    BY <1>1, <1>3, <2>3
  <2>10. Puts(o, p, {k}, none)
    BY <2>4, <2>5, <2>8, <2>9 DEF Puts, d
  <2> QED  BY <2>10 DEF p, none
<1>5. CASE ~(o.bits.gen = o.buf.gen)
  <2>1. p = o
    BY <1>5 DEF SetBit
  <2>2. ~(Len(d) <= GrowthSize)
    BY <1>1, <1>5
  <2> HIDE DEF p, d, none
  <2>3. Len(d) = Len(d) + Len(none)
    BY <1>1, <1>3
  <2>4. Puts(o, p, {k}, none)
    BY <2>1, <2>2, <2>3 DEF Puts, d
  <2> QED  BY <2>4 DEF p, none
<1> QED  BY <1>4, <1>5

LEMMA PutFacts ==
  ASSUME NEW o \in Outputs, NEW cells \in Seq(Nat)
  PROVE  /\ Put(o, cells) \in Outputs /\ Put(o, cells).bits = o.bits
         /\ Put(o, cells).buf.data = o.buf.data \o cells
         /\ PutBytes(o, cells) \in Outputs /\ PutBytes(o, cells).bits = o.bits
         /\ PutBytes(o, cells).buf.data = o.buf.data \o cells
<1> DEFINE d == o.buf.data
           b == o.buf
<1>1. d \in Seq(Nat) /\ Len(d) \in Nat /\ b \in Buffers
  BY OutputFacts
<1>2. Len(d \o cells) = Len(d) + Len(cells) /\ Len(cells) \in Nat
  <2> HIDE DEF d
  <2> QED  BY <1>1, Concatenation
<1>3. Len(d \o cells) >= Len(d)
  <2> HIDE DEF d
  <2> QED  BY <1>1, <1>2
<1> DEFINE c == Append1(b, cells)
           a == AppendBytes(b, cells)
<1>4. c \in Buffers /\ c.data = d \o cells
  <2> HIDE DEF b, c
  <2>1. c \in Buffers /\ c.data = b.data \o cells
    BY <1>1, Append1Facts DEF c
  <2> QED  BY <2>1 DEF b
<1>5. a \in Buffers /\ a.data = d \o cells
  <2> HIDE DEF b, a
  <2>1. a \in Buffers /\ a.data = b.data \o cells
    BY <1>1, AppendBytesFacts DEF a
  <2> QED  BY <2>1 DEF b
<1>6. Put(o, cells) = [o EXCEPT !.buf = c] /\ PutBytes(o, cells) = [o EXCEPT !.buf = a]
  BY DEF Put, PutBytes
<1> HIDE DEF a, c
<1>7. [o EXCEPT !.buf = c] \in Outputs /\ [o EXCEPT !.buf = c].buf = c /\ [o EXCEPT !.buf = c].bits = o.bits
  BY <1>3, <1>4, OutputOf
<1>8. [o EXCEPT !.buf = a] \in Outputs /\ [o EXCEPT !.buf = a].buf = a /\ [o EXCEPT !.buf = a].bits = o.bits
  BY <1>3, <1>5, OutputOf
<1> QED  BY <1>4, <1>5, <1>6, <1>7, <1>8

LEMMA PutValueOf ==
  ASSUME NEW type \in Types, NEW o, NEW v, NEW k
  PROVE  /\ type \in IntTypes => PutValue(o, type, v, k) = PutBytes(o, VarintBytes(v, type))
         /\ type = "real" => PutValue(o, type, v, k) = Put(o, v)
         /\ type = "bool" => PutValue(o, type, v, k) = IF v THEN SetBit(o, k) ELSE o
         /\ type = "text" => PutValue(o, type, v, k) = Put(o, v \o << 0 >>)
         /\ type = "blob" => PutValue(o, type, v, k) = Put(PutBytes(o, VarintBytes(Len(v), "int")), v)
BY DEF PutValue, IntTypes

\* The bit that a value takes: a bool has no other cells.
ValueMarks(type, v, k) == {l \in {k} : type = "bool" /\ v = TRUE}

LEMMA PutsNothing ==
  ASSUME NEW o \in Outputs
  PROVE  Puts(o, o, {}, << >>)
<1> DEFINE d == o.buf.data
           none == << >>
<1>1. d \in Seq(Nat) /\ Len(d) \in Nat /\ none \in Seq(Nat) /\ Len(none) = 0
  BY OutputFacts
<1> HIDE DEF d, none
<1>2. Written(d, d, o.bits.at, {}, none) /\ Len(d) = Len(d) + Len(none)
  BY <1>1 DEF Written
<1> QED  BY <1>2 DEF Puts, d, none

LEMMA PutValueFacts ==
  ASSUME NEW o \in Outputs, NEW type \in Types, NEW v \in Values[type], NEW k \in Nat
  PROVE  Puts(o, PutValue(o, type, v, k), ValueMarks(type, v, k), Cells(type, v))
<1> DEFINE p == PutValue(o, type, v, k)
           cells == Cells(type, v)
           M == ValueMarks(type, v, k)
<1>1. cells \in Seq(Nat)
  BY CellsFacts
<1>2. type # "bool" => M = {}
  BY DEF ValueMarks
<1>3. CASE type \in IntTypes \cup {"real", "text"}
  <2>1. p = Put(o, cells) \/ p = PutBytes(o, cells)
    <3>1. CASE type \in IntTypes
      <4>1. cells = VarintBytes(v, type)
        BY <3>1, CellsOf
      <4>2. p = PutBytes(o, VarintBytes(v, type))
        BY <3>1, PutValueOf
      <4> QED  BY <4>1, <4>2
    <3>2. CASE type = "real"
      <4>1. cells = v
        BY <3>2, CellsOf
      <4>2. p = Put(o, v)
        BY <3>2, PutValueOf
      <4> QED  BY <4>1, <4>2
    <3>3. CASE type = "text"
      <4>1. cells = v \o << 0 >>
        BY <3>3, CellsOf
      <4>2. p = Put(o, v \o << 0 >>)
        BY <3>3, PutValueOf
      <4> QED  BY <4>1, <4>2
    <3> QED  BY <1>3, <3>1, <3>2, <3>3
  <2> HIDE DEF p, cells
  <2>2. p \in Outputs /\ p.bits = o.bits /\ p.buf.data = o.buf.data \o cells
    <3>1. CASE p = Put(o, cells)
      BY <1>1, <3>1, PutFacts
    <3>2. CASE p = PutBytes(o, cells)
      BY <1>1, <3>2, PutFacts
    <3> QED  BY <2>1, <3>1, <3>2
  <2>3. Puts(o, p, {}, cells)
    BY <1>1, <2>2, PutsData
  <2>4. M = {}
    BY <1>2, <1>3 DEF IntTypes
  <2> QED  BY <2>3, <2>4 DEF p, cells
<1>4. CASE type = "blob"
  <2> DEFINE n == VarintBytes(Len(v), "int")
             q == PutBytes(o, n)
             d == o.buf.data
  <2>1. v \in Seq(Nat) /\ Len(v) \in (-Half["int"])..(Half["int"] - 1)
    BY <1>4, ValueFacts
  <2>2. n \in Seq(Nat) /\ d \in Seq(Nat)
    BY <2>1, VarintIsBytes, OutputFacts DEF IntTypes
  <2>3. cells = n \o v /\ p = Put(q, v)
    <3>1. cells = n \o v
      BY <1>4, CellsOf
    <3>2. p = Put(q, v)
      BY <1>4, PutValueOf
    <3> QED  BY <3>1, <3>2
  <2> HIDE DEF n, p, cells, q
  <2>4. q \in Outputs /\ q.bits = o.bits /\ q.buf.data = d \o n
    BY <2>2, PutFacts DEF q
  <2>5. p \in Outputs /\ p.bits = o.bits /\ p.buf.data = q.buf.data \o v
    BY <2>1, <2>3, <2>4, PutFacts
  <2>6. p.buf.data = (d \o n) \o v
    BY <2>4, <2>5
  <2>7. (d \o n) \o v = d \o (n \o v)
    <3> HIDE DEF d
    <3> QED  BY <2>1, <2>2
  <2>8. Puts(o, p, {}, cells)
    BY <1>1, <2>3, <2>5, <2>6, <2>7, PutsData
  <2> QED  BY <1>2, <1>4, <2>8 DEF p, cells
<1>5. CASE type = "bool"
  <2>1. v \in BOOLEAN /\ cells = << >> /\ p = IF v THEN SetBit(o, k) ELSE o
    BY <1>5, ValueFacts, CellsOf, PutValueOf
  <2>2. CASE v = TRUE
    <3>1. p = SetBit(o, k) /\ M = {k}
      BY <1>5, <2>1, <2>2 DEF ValueMarks
    <3> QED  BY <2>1, <3>1, SetBitFacts
  <2>3. CASE v = FALSE
    <3>1. p = o /\ M = {}
      BY <1>5, <2>1, <2>3 DEF ValueMarks
    <3> QED  BY <2>1, <3>1, PutsNothing
  <2> QED  BY <2>1, <2>2, <2>3
<1> QED  BY <1>3, <1>4, <1>5 DEF Types, IntTypes

\* What a row may hold in a column
Fits(c, v) == v \in Values[c.type] \/ (v = NULL /\ ~c.notnull)

\* The bits that a field takes: that it is not NULL, and that it is true
Marks(cols, i, v) ==
  {k \in Nat : \/ ~cols[i].notnull /\ v # NULL /\ k = NullablesBefore(cols, i)
               \/ cols[i].type = "bool" /\ v = TRUE /\ k = Nullables(cols) + BoolsBefore(cols, i)}

LEMMA ColumnFacts ==
  ASSUME NEW cols \in Seq(Column), NEW i \in 1..Len(cols)
  PROVE  /\ Len(cols) \in Nat /\ i \in Nat \ {0}
         /\ cols[i] \in Column /\ cols[i].type \in Types /\ cols[i].notnull \in BOOLEAN
         /\ NullablesBefore(cols, i) \in Nat /\ BoolsBefore(cols, i) \in Nat
         /\ Nullables(cols) \in Nat /\ Bools(cols) \in Nat
<1>1. Len(cols) \in Nat /\ i \in Nat \ {0} /\ cols[i] \in Column
  OBVIOUS
<1>2. cols[i].type \in Types /\ cols[i].notnull \in BOOLEAN
  BY <1>1 DEF Column
<1>3. NullablesBefore(cols, i) \in Nat /\ BoolsBefore(cols, i) \in Nat
  BY <1>1, CountsBefore
<1>4. Len(cols) + 1 \in Nat \ {0}
  BY <1>1
<1>5. Nullables(cols) \in Nat /\ Bools(cols) \in Nat
  BY <1>4, CountsBefore DEF Nullables, Bools
<1> QED  BY <1>1, <1>2, <1>3, <1>5

LEMMA FieldCellsFacts ==
  ASSUME NEW c \in Column, NEW v, Fits(c, v)
  PROVE  FieldCells(c, v) \in Seq(Nat) /\ Len(FieldCells(c, v)) \in Nat
<1>1. CASE v = NULL
  BY <1>1 DEF FieldCells
<1>2. CASE v # NULL
  <2>1. c.type \in Types /\ v \in Values[c.type]
    BY <1>2 DEF Column, Fits
  <2> DEFINE cells == Cells(c.type, v)
  <2>2. cells \in Seq(Nat)
    BY <2>1, CellsFacts
  <2>3. FieldCells(c, v) = cells
    BY <1>2 DEF FieldCells
  <2> HIDE DEF cells
  <2> QED  BY <2>2, <2>3
<1> QED  BY <1>1, <1>2

LEMMA PutFieldFacts ==
  ASSUME NEW cols \in Seq(Column), NEW i \in 1..Len(cols), NEW o \in Outputs, NEW v,
         Fits(cols[i], v)
  PROVE  Puts(o, PutField(o, cols, i, v), Marks(cols, i, v), FieldCells(cols[i], v))
<1> DEFINE c == cols[i]
           nb == NullablesBefore(cols, i)
           bb == Nullables(cols) + BoolsBefore(cols, i)
           M == Marks(cols, i, v)
           V == ValueMarks(c.type, v, bb)
           p == PutField(o, cols, i, v)
<1>1. c.type \in Types /\ c.notnull \in BOOLEAN /\ nb \in Nat /\ bb \in Nat
  BY ColumnFacts
<1>2. CASE v = NULL
  <2>1. NULL \notin BOOLEAN
    BY RowBlobAssumption
  <2>2. p = o /\ FieldCells(c, v) = << >>
    BY <1>2 DEF PutField, FieldCells
  <2>3. M = {}
    BY <1>2, <2>1 DEF Marks
  <2> HIDE DEF p, M, c
  <2> QED  BY <2>2, <2>3, PutsNothing DEF p, M, c
<1>3. CASE v # NULL
  <2> DEFINE q == IF c.notnull THEN o ELSE SetBit(o, nb)
             K == IF c.notnull THEN {} ELSE {nb}
             cells == Cells(c.type, v)
  <2>1. v \in Values[c.type]
    BY <1>3 DEF Fits
  <2>2. p = PutValue(q, c.type, v, bb) /\ FieldCells(c, v) = cells
    BY <1>3 DEF PutField, FieldCells
  <2>3. M = K \cup V
    BY <1>1, <1>3 DEF Marks, ValueMarks
  <2>4. cells \in Seq(Nat)
    BY <1>1, <2>1, CellsFacts
  <2>5. Puts(o, q, K, << >>)
    <3>1. CASE c.notnull
      BY <3>1, PutsNothing
    <3>2. CASE ~c.notnull
      BY <1>1, <3>2, SetBitFacts
    <3> QED  BY <3>1, <3>2
  <2> HIDE DEF q, p, K, V, cells, M, c, nb, bb
  <2>6. q \in Outputs
    BY <2>5 DEF Puts
  <2>7. Puts(q, p, V, cells)
    BY <1>1, <2>1, <2>2, <2>6, PutValueFacts DEF V, cells
  <2>8. Puts(o, p, K \cup V, cells)
    BY <2>4, <2>5, <2>7, PutsAfterBit
  <2>9. Puts(o, p, M, FieldCells(c, v))
    BY <2>2, <2>3, <2>8
  <2> QED  BY <2>9 DEF M, p, c
<1> QED  BY <1>2, <1>3

LEMMA BitCellsFacts ==
  ASSUME NEW n \in Nat
  PROVE  BitCells(n) \in Nat /\ BitCells(n) >= n
<1> DEFINE y == n + ByteBits - 1
           q == y \div ByteBits
           r == y % ByteBits
           w == q * ByteBits
<1>1. ByteBits \in Nat /\ ByteBits > 0
  BY RowBlobAssumption
<1>2. y \in Nat
  BY <1>1
<1>3. q \in Nat /\ r \in Nat /\ r < ByteBits /\ y = ByteBits * q + r
  <2> HIDE DEF y
  <2> QED  BY <1>1, <1>2
<1> HIDE DEF q, r
<1>4. w \in Nat /\ w = ByteBits * q
  BY <1>1, <1>3
<1> HIDE DEF w
<1>5. w >= n
  BY <1>1, <1>3, <1>4
<1>6. BitCells(n) = w
  BY DEF BitCells, w, q, y
<1> QED  BY <1>4, <1>5, <1>6

\* Each column has its own bits, within the bit vector.
LEMMA BitRange ==
  ASSUME NEW cols \in Seq(Column), NEW i \in 1..Len(cols)
  PROVE  /\ ~cols[i].notnull => NullablesBefore(cols, i) < Nullables(cols)
         /\ cols[i].type = "bool" => BoolsBefore(cols, i) < Bools(cols)
         /\ BitCells(Nullables(cols) + Bools(cols)) \in Nat
         /\ BitCells(Nullables(cols) + Bools(cols)) >= Nullables(cols) + Bools(cols)
<1>1. Nullables(cols) \in Nat /\ Bools(cols) \in Nat /\ Len(cols) \in Nat /\ i \in Nat \ {0}
  BY ColumnFacts
<1> DEFINE l == Len(cols) + 1
<1>2. l \in Nat \ {0} /\ i < l
  BY <1>1
<1>3. Nullables(cols) = NullablesBefore(cols, l) /\ Bools(cols) = BoolsBefore(cols, l)
  BY DEF Nullables, Bools
<1> HIDE DEF l
<1>4. /\ (~cols[i].notnull /\ i < l) => NullablesBefore(cols, i) < NullablesBefore(cols, l)
      /\ (cols[i].type = "bool" /\ i < l) => BoolsBefore(cols, i) < BoolsBefore(cols, l)
  BY <1>1, <1>2, BitsDiffer
<1> DEFINE n == Nullables(cols) + Bools(cols)
<1>5. n \in Nat
  BY <1>1
<1> HIDE DEF n
<1>6. BitCells(n) \in Nat /\ BitCells(n) >= n
  BY <1>5, BitCellsFacts
<1> QED  BY <1>2, <1>3, <1>4, <1>6 DEF n

\* The cells before those of the first field
Header(cols) == Len(cols) + 1 + BitCells(Nullables(cols) + Bools(cols))

HeadLaid(data, cols) ==
  data[Len(cols) + 1] = 0 /\ \A j \in 1..Len(cols) : data[j] = Code(cols[j])

NullBit(cols, i) == Len(cols) + 1 + NullablesBefore(cols, i) + 1
BoolBit(cols, i) == Len(cols) + 1 + Nullables(cols) + BoolsBefore(cols, i) + 1

BitsLaid(data, cols, vals) ==
  \A i \in 1..Len(cols) :
    /\ ~cols[i].notnull =>
         data[NullBit(cols, i)] = IF i <= Len(vals) /\ vals[i] # NULL THEN 1 ELSE 0
    /\ cols[i].type = "bool" =>
         data[BoolBit(cols, i)] = IF i <= Len(vals) /\ vals[i] = TRUE THEN 1 ELSE 0

\* Field i is in the cells after the first at[i - 1] ones.
FieldLaid(data, cols, vals, at, i) ==
  /\ at[i - 1] \in Nat /\ at[i - 1] >= Header(cols) /\ at[i] <= Len(data)
  /\ Len(FieldCells(cols[i], vals[i])) \in Nat
  /\ at[i] = at[i - 1] + Len(FieldCells(cols[i], vals[i]))
  /\ Begins(data, at[i - 1] + 1, FieldCells(cols[i], vals[i]))

FieldsLaid(data, cols, vals, at) ==
  /\ at \in [0..Len(vals) -> Nat] /\ at[0] = Header(cols) /\ at[Len(vals)] = Len(data)
  /\ \A i \in 1..Len(vals) : FieldLaid(data, cols, vals, at, i)

\* The fields written so far are in the data as the format has them.
Laid(data, cols, vals) ==
  /\ data \in Seq(Nat) /\ Header(cols) <= Len(data)
  /\ HeadLaid(data, cols) /\ BitsLaid(data, cols, vals)
  /\ \E at : FieldsLaid(data, cols, vals, at)

\* A field sets no bits but its own.
OwnMarks(cols, i, v) ==
  \A m \in 1..Len(cols) :
    /\ ~cols[m].notnull =>
         (NullablesBefore(cols, m) \in Marks(cols, i, v) <=> m = i /\ v # NULL)
    /\ cols[m].type = "bool" =>
         (Nullables(cols) + BoolsBefore(cols, m) \in Marks(cols, i, v) <=> m = i /\ v = TRUE)

LEMMA MarksFacts ==
  ASSUME NEW cols \in Seq(Column), NEW i \in 1..Len(cols), NEW v
  PROVE  /\ \A k \in Marks(cols, i, v) : k \in Nat /\ k < BitCells(Nullables(cols) + Bools(cols))
         /\ OwnMarks(cols, i, v)
<1> DEFINE N == Nullables(cols)
           B == BitCells(Nullables(cols) + Bools(cols))
           M == Marks(cols, i, v)
           nb(m) == NullablesBefore(cols, m)
           bb(m) == BoolsBefore(cols, m)
<1>1. ASSUME NEW m \in 1..Len(cols)
      PROVE  /\ N \in Nat /\ Bools(cols) \in Nat /\ nb(m) \in Nat /\ bb(m) \in Nat /\ m \in Nat \ {0}
             /\ ~cols[m].notnull => nb(m) < N
             /\ cols[m].type = "bool" => bb(m) < Bools(cols)
             /\ B \in Nat /\ B >= N + Bools(cols)
  BY ColumnFacts, BitRange
<1>2. ASSUME NEW m \in 1..Len(cols), NEW l \in 1..Len(cols), m < l
      PROVE  /\ ~cols[m].notnull => nb(m) < nb(l)
             /\ cols[m].type = "bool" => bb(m) < bb(l)
  <2>1. m \in Nat \ {0} /\ l \in Nat \ {0}
    BY <1>1
  <2> QED  BY <1>2, <2>1, BitsDiffer
<1>3. \A k : k \in M <=> k \in Nat /\ \/ ~cols[i].notnull /\ v # NULL /\ k = nb(i)
                                      \/ cols[i].type = "bool" /\ v = TRUE /\ k = N + bb(i)
  BY DEF Marks
<1> HIDE DEF N, B, M, nb, bb
<1>4. ASSUME NEW k \in M PROVE k \in Nat /\ k < B
  BY <1>1, <1>3
<1>5. ASSUME NEW m \in 1..Len(cols), ~cols[m].notnull
      PROVE  nb(m) \in M <=> m = i /\ v # NULL
  <2>1. nb(m) < N /\ nb(m) \in Nat /\ bb(i) \in Nat /\ N \in Nat /\ nb(i) \in Nat
    BY <1>1, <1>5
  <2>2. nb(m) # N + bb(i)
    BY <2>1
  <2>3. (~cols[i].notnull /\ m # i) => nb(m) # nb(i)
    <3>1. CASE m < i
      BY <1>2, <1>5, <2>1, <3>1
    <3>2. CASE i < m
      BY <1>2, <2>1, <3>2
    <3> QED  BY <1>1, <3>1, <3>2
  <2> QED  BY <1>3, <1>5, <2>1, <2>2, <2>3
<1>6. ASSUME NEW m \in 1..Len(cols), cols[m].type = "bool"
      PROVE  N + bb(m) \in M <=> m = i /\ v = TRUE
  <2>1. bb(m) \in Nat /\ bb(i) \in Nat /\ N \in Nat /\ nb(i) \in Nat /\ N + bb(m) \in Nat
        /\ (~cols[i].notnull => nb(i) < N)
    BY <1>1
  <2>2. ~cols[i].notnull => nb(i) # N + bb(m)
    BY <2>1
  <2>3. (cols[i].type = "bool" /\ m # i) => bb(m) # bb(i)
    <3>1. CASE m < i
      BY <1>2, <1>6, <2>1, <3>1
    <3>2. CASE i < m
      BY <1>2, <2>1, <3>2
    <3> QED  BY <1>1, <3>1, <3>2
  <2>4. N + bb(m) = N + bb(i) <=> bb(m) = bb(i)
    BY <2>1
  <2> QED  BY <1>3, <1>6, <2>1, <2>2, <2>3, <2>4
<1>7. OwnMarks(cols, i, v)
  BY <1>5, <1>6 DEF OwnMarks, M, N, nb, bb
<1> QED  BY <1>4, <1>7 DEF M, B

LEMMA Appended ==
  ASSUME NEW S, NEW s \in Seq(S), NEW v \in S
  PROVE  /\ Append(s, v) \in Seq(S) /\ Len(s) \in Nat /\ Len(Append(s, v)) = Len(s) + 1
         /\ \A j \in 1..Len(s) : Append(s, v)[j] = s[j]
         /\ Append(s, v)[Len(s) + 1] = v
OBVIOUS

\* What row holds, and after it v: vals and then w
Longer(vals, w, v) ==
  /\ Len(vals) \in Nat /\ Len(w) = Len(vals) + 1
  /\ \A j \in 1..Len(vals) : w[j] = vals[j]
  /\ w[Len(vals) + 1] = v

LEMMA HeadNext ==
  ASSUME NEW cols \in Seq(Column), NEW i \in 1..Len(cols), NEW v, NEW d, NEW e, NEW cells,
         d \in Seq(Nat), Header(cols) <= Len(d), HeadLaid(d, cols),
         Written(d, e, Len(cols) + 1, Marks(cols, i, v), cells)
  PROVE  /\ HeadLaid(e, cols) /\ Header(cols) \in Nat /\ Len(d) \in Nat
         /\ \A j \in 1..Len(d) : j > Header(cols) => e[j] = d[j]
<1> DEFINE B == BitCells(Nullables(cols) + Bools(cols))
           L == Len(cols)
           M == Marks(cols, i, v)
<1>1. L \in Nat /\ B \in Nat /\ Len(d) \in Nat
  BY ColumnFacts, BitRange
<1>2. \A k \in M : k \in Nat /\ k < B
  BY MarksFacts
<1>3. \A j \in 1..Len(d) : e[j] = IF j - (L + 1) - 1 \in M THEN 1 ELSE d[j]
  BY DEF Written
<1>4. Header(cols) = L + 1 + B
  BY DEF Header
<1> HIDE DEF B, M, L
<1>5. ASSUME NEW j \in 1..(L + 1) PROVE e[j] = d[j]
  <2>1. j \in 1..Len(d) /\ ~(j - (L + 1) - 1 \in Nat)
    BY <1>1, <1>4
  <2> QED  BY <1>2, <1>3, <2>1
<1>6. ASSUME NEW j \in 1..Len(d), j > Header(cols) PROVE e[j] = d[j]
  <2>1. ~(j - (L + 1) - 1 < B)
    BY <1>1, <1>4, <1>6
  <2> QED  BY <1>2, <1>3, <2>1
<1>7. HeadLaid(e, cols)
  <2>1. L + 1 \in 1..(L + 1) /\ \A j \in 1..L : j \in 1..(L + 1)
    BY <1>1
  <2>2. d[L + 1] = 0 /\ \A j \in 1..L : d[j] = Code(cols[j])
    BY DEF HeadLaid, L
  <2> QED  BY <1>5, <2>1, <2>2 DEF HeadLaid, L
<1> QED  BY <1>1, <1>4, <1>6, <1>7

LEMMA BitsNext ==
  ASSUME NEW cols \in Seq(Column), NEW i \in 1..Len(cols), NEW v, NEW d, NEW e, NEW cells,
         NEW vals, NEW w, i = Len(vals) + 1, Longer(vals, w, v),
         d \in Seq(Nat), Header(cols) <= Len(d), BitsLaid(d, cols, vals),
         Written(d, e, Len(cols) + 1, Marks(cols, i, v), cells)
  PROVE  BitsLaid(e, cols, w)
<1> DEFINE L == Len(cols)
           N == Nullables(cols)
           B == BitCells(Nullables(cols) + Bools(cols))
           M == Marks(cols, i, v)
<1>1. \A j \in 1..Len(d) : e[j] = IF j - (L + 1) - 1 \in M THEN 1 ELSE d[j]
  BY DEF Written
<1>2. /\ Len(vals) \in Nat /\ Len(w) = i /\ w[i] = v
      /\ \A j \in 1..Len(vals) : w[j] = vals[j]
  BY DEF Longer
<1> SUFFICES ASSUME NEW m \in 1..Len(cols)
             PROVE  /\ ~cols[m].notnull =>
                         e[NullBit(cols, m)] = IF m <= Len(w) /\ w[m] # NULL THEN 1 ELSE 0
                    /\ cols[m].type = "bool" =>
                         e[BoolBit(cols, m)] = IF m <= Len(w) /\ w[m] = TRUE THEN 1 ELSE 0
  BY DEF BitsLaid
<1>3. /\ L \in Nat /\ B \in Nat /\ N \in Nat /\ Bools(cols) \in Nat /\ B >= N + Bools(cols)
      /\ m \in Nat /\ m > 0 /\ Len(d) \in Nat /\ L + 1 + B <= Len(d)
  BY ColumnFacts, BitRange DEF Header
<1>4. /\ ~cols[m].notnull => (NullablesBefore(cols, m) \in M <=> m = i /\ v # NULL)
      /\ cols[m].type = "bool" => (N + BoolsBefore(cols, m) \in M <=> m = i /\ v = TRUE)
  <2>1. OwnMarks(cols, i, v)
    BY MarksFacts
  <2> QED  BY <2>1 DEF OwnMarks
<1> HIDE DEF L, N, B, M
<1>5. m < i => m \in 1..Len(vals) /\ m <= Len(w) /\ m <= Len(vals) /\ w[m] = vals[m]
  <2> DEFINE n == Len(vals)
             k == Len(w)
  <2>1. n \in Nat /\ k = n + 1 /\ i = n + 1
    BY <1>2
  <2> HIDE DEF n, k
  <2>2. m < i => m \in 1..n /\ m <= k /\ m <= n
    BY <1>3, <2>1
  <2> QED  BY <1>2, <2>2 DEF n, k
<1>6. m = i => m <= Len(w) /\ ~(m <= Len(vals)) /\ w[m] = v
  BY <1>2, <1>3
<1>7. m > i => ~(m <= Len(w)) /\ ~(m <= Len(vals))
  BY <1>2, <1>3
<1>8. ASSUME ~cols[m].notnull
      PROVE  e[NullBit(cols, m)] = IF m <= Len(w) /\ w[m] # NULL THEN 1 ELSE 0
  <2> DEFINE k == NullablesBefore(cols, m)
             j == NullBit(cols, m)
  <2>1. k \in Nat /\ k < N
    BY <1>8, ColumnFacts, BitRange DEF N
  <2>2. k \in M <=> m = i /\ v # NULL
    BY <1>8, <1>4
  <2>3. d[j] = IF m <= Len(vals) /\ vals[m] # NULL THEN 1 ELSE 0
    BY <1>8 DEF BitsLaid
  <2>4. j = L + 1 + k + 1
    BY DEF NullBit, L
  <2> HIDE DEF k, j
  <2>5. j \in 1..Len(d) /\ j - (L + 1) - 1 = k
    BY <1>3, <2>1, <2>4
  <2>6. e[j] = IF k \in M THEN 1 ELSE d[j]
    BY <1>1, <2>5
  <2>7. e[j] = IF m <= Len(w) /\ w[m] # NULL THEN 1 ELSE 0
    BY <1>2, <1>3, <1>5, <1>6, <1>7, <2>2, <2>3, <2>6
  <2> QED  BY <2>7 DEF j
<1>9. ASSUME cols[m].type = "bool"
      PROVE  e[BoolBit(cols, m)] = IF m <= Len(w) /\ w[m] = TRUE THEN 1 ELSE 0
  <2> DEFINE k == N + BoolsBefore(cols, m)
             j == BoolBit(cols, m)
  <2>1. k \in Nat /\ k < N + Bools(cols)
    <3>1. BoolsBefore(cols, m) \in Nat
      BY ColumnFacts
    <3>2. BoolsBefore(cols, m) < Bools(cols)
      BY <1>9, BitRange
    <3> DEFINE b == BoolsBefore(cols, m)
               t == Bools(cols)
    <3>3. b \in Nat /\ b < t /\ t \in Nat /\ N \in Nat
      BY <1>3, <3>1, <3>2
    <3> HIDE DEF b, t
    <3>4. N + b \in Nat /\ N + b < N + t
      BY <3>3
    <3> QED  BY <3>4 DEF b, t
  <2>2. k \in M <=> m = i /\ v = TRUE
    BY <1>9, <1>4
  <2>3. d[j] = IF m <= Len(vals) /\ vals[m] = TRUE THEN 1 ELSE 0
    BY <1>9 DEF BitsLaid
  <2>4. j = L + 1 + k + 1
    <3>1. BoolsBefore(cols, m) \in Nat
      BY ColumnFacts
    <3>2. j = L + 1 + N + BoolsBefore(cols, m) + 1
      BY DEF BoolBit, L, N
    <3> HIDE DEF j
    <3> QED  BY <1>3, <3>1, <3>2
  <2> HIDE DEF k, j
  <2>5. j \in 1..Len(d) /\ j - (L + 1) - 1 = k
    BY <1>3, <2>1, <2>4
  <2>6. e[j] = IF k \in M THEN 1 ELSE d[j]
    BY <1>1, <2>5
  <2>7. e[j] = IF m <= Len(w) /\ w[m] = TRUE THEN 1 ELSE 0
    BY <1>2, <1>3, <1>5, <1>6, <1>7, <2>2, <2>3, <2>6
  <2> QED  BY <2>7 DEF j
<1> QED  BY <1>8, <1>9

LEMMA Below ==
  ASSUME NEW i \in Nat, i > 0
  PROVE  0 \in 0..i /\ i \in 0..i /\ 0 # i /\ i - 1 \in 0..i /\ i - 1 # i
OBVIOUS

\* e is d and after it cells, but for cells of the header.
Grown(d, e, H, cells) ==
  /\ e \in Seq(Nat) /\ Len(e) = Len(d) + Len(cells)
  /\ \A j \in 1..Len(d) : j > H => e[j] = d[j]
  /\ \A j \in 1..Len(cells) : e[Len(d) + j] = cells[j]

LEMMA FieldsNext ==
  ASSUME NEW cols \in Seq(Column), NEW i \in 1..Len(cols), NEW v, Fits(cols[i], v), NEW d, NEW e,
         NEW vals, NEW w, i = Len(vals) + 1, Longer(vals, w, v),
         d \in Seq(Nat), Header(cols) <= Len(d), NEW at, FieldsLaid(d, cols, vals, at),
         Header(cols) \in Nat, Grown(d, e, Header(cols), FieldCells(cols[i], v))
  PROVE  \E to : FieldsLaid(e, cols, w, to)
<1> DEFINE H == Header(cols)
           cells(k, x) == FieldCells(cols[k], x)
           to == [k \in 0..i |-> IF k = i THEN Len(e) ELSE at[k]]
           E == Len(e)
           D == Len(d)
           n == Len(cells(i, v))
<1>1. /\ Len(vals) \in Nat /\ Len(w) = i /\ w[i] = v
      /\ \A j \in 1..Len(vals) : w[j] = vals[j]
  BY DEF Longer
<1>2. E \in Nat /\ D \in Nat /\ n \in Nat /\ E = D + n /\ i \in Nat /\ i > 0 /\ Len(vals) = i - 1
  <2>1. cells(i, v) \in Seq(Nat) /\ n \in Nat
    BY FieldCellsFacts
  <2>2. E \in Nat /\ D \in Nat /\ E = D + n
    BY DEF Grown
  <2>3. i \in Nat /\ i > 0 /\ Len(vals) = i - 1
    BY <1>1
  <2> QED  BY <2>1, <2>2, <2>3
<1>3. at \in [0..(i - 1) -> Nat] /\ at[0] = H /\ at[i - 1] = D
  BY <1>2 DEF FieldsLaid
<1>4. \A k \in 1..(i - 1) : FieldLaid(d, cols, vals, at, k)
  BY <1>2 DEF FieldsLaid
<1> HIDE DEF E, D, H, n
<1>5. to \in [0..i -> Nat]
  <2>1. \A k \in 0..i : k # i => k \in 0..(i - 1)
    BY <1>2
  <2> QED  BY <1>2, <1>3, <2>1 DEF E
<1>6. to[0] = H /\ to[i] = E /\ to[i - 1] = D /\ \A k \in 0..(i - 1) : to[k] = at[k]
  <2>1. 0 \in 0..i /\ i \in 0..i /\ 0 # i /\ i - 1 \in 0..i /\ i - 1 # i
    BY <1>2, Below
  <2>2. \A k \in 0..(i - 1) : k \in 0..i /\ k # i
    BY <1>2
  <2>3. to[0] = at[0] /\ to[i] = E /\ to[i - 1] = at[i - 1]
    <3>1. \A k \in 0..i : to[k] = IF k = i THEN E ELSE at[k]
      BY DEF E
    <3> HIDE DEF to
    <3> QED  BY <2>1, <3>1
  <2>4. \A k \in 0..(i - 1) : to[k] = at[k]
    BY <2>2
  <2> QED  BY <1>3, <2>3, <2>4
<1> HIDE DEF to, cells
<1>7. ASSUME NEW k \in 1..(i - 1) PROVE FieldLaid(e, cols, w, to, k)
  <2> DEFINE c == cells(k, w[k])
             a == at[k - 1]
             b == at[k]
  <2>1. w[k] = vals[k]
    BY <1>1, <1>2
  <2>2. a \in Nat /\ a >= H /\ b <= D /\ b = a + Len(c) /\ Begins(d, a + 1, c)
    BY <1>4, <2>1 DEF FieldLaid, H, D, cells
  <2>3. Len(c) \in Nat
    BY <1>4, <2>1 DEF FieldLaid, cells
  <2>4. to[k - 1] = a /\ to[k] = b
    BY <1>2, <1>6
  <2> HIDE DEF a, b, c
  <2>5. ASSUME NEW j \in 1..Len(c), a + 1 + j - 1 <= Len(e) PROVE e[a + 1 + j - 1] = c[j]
    <3> DEFINE q == a + 1 + j - 1
    <3>0. H \in Nat
      BY DEF H
    <3>1. q \in 1..D /\ q > H /\ q <= D
      BY <1>2, <2>2, <2>3, <3>0
    <3>2. d[q] = c[j]
      BY <2>2, <3>1 DEF Begins, D
    <3> HIDE DEF q
    <3>3. e[q] = d[q]
      BY <3>1 DEF D, H, Grown
    <3> QED  BY <3>2, <3>3 DEF q
  <2>6. Begins(e, a + 1, c)
    BY <2>5 DEF Begins
  <2>7. b <= E
    BY <1>2, <2>2, <2>3
  <2> QED  BY <2>2, <2>4, <2>6, <2>7 DEF FieldLaid, H, E, c, cells
<1>8. FieldLaid(e, cols, w, to, i)
  <2> DEFINE c == cells(i, v)
  <2>1. \A j \in 1..Len(c) : e[D + j] = c[j]
    BY DEF cells, D, Grown
  <2> HIDE DEF c
  <2>2. Len(c) = n
    BY DEF c, n
  <2>3. Begins(e, D + 1, c)
    <3>1. \A j \in 1..Len(c) : D + 1 + j - 1 = D + j
      BY <1>2, <2>2
    <3>2. \A j \in 1..Len(c) : e[D + 1 + j - 1] = c[j]
      BY <2>1, <3>1
    <3> QED  BY <3>2 DEF Begins
  <2>4. D >= H
    BY DEF D, H
  <2>5. FieldCells(cols[i], w[i]) = c
    BY <1>1 DEF c, cells
  <2>6. /\ to[i - 1] \in Nat /\ to[i - 1] >= H /\ to[i] <= E /\ Len(c) \in Nat
        /\ to[i] = to[i - 1] + Len(c) /\ Begins(e, to[i - 1] + 1, c)
    BY <1>2, <1>6, <2>2, <2>3, <2>4
  <2> QED  BY <2>5, <2>6 DEF FieldLaid, H, E
<1>9. \A k \in 1..i : k = i \/ k \in 1..(i - 1)
  BY <1>2
<1>10. FieldsLaid(e, cols, w, to)
  BY <1>1, <1>5, <1>6, <1>7, <1>8, <1>9 DEF FieldsLaid, H, E
<1> QED  BY <1>10

LEMMA LaidNext ==
  ASSUME NEW cols \in Seq(Column), NEW i \in 1..Len(cols), NEW v, Fits(cols[i], v), NEW d, NEW e,
         NEW vals, NEW w, i = Len(vals) + 1, Longer(vals, w, v), Laid(d, cols, vals),
         Written(d, e, Len(cols) + 1, Marks(cols, i, v), FieldCells(cols[i], v))
  PROVE  Laid(e, cols, w)
<1> DEFINE cells == FieldCells(cols[i], v)
<1>1. /\ d \in Seq(Nat) /\ Header(cols) <= Len(d)
      /\ HeadLaid(d, cols) /\ BitsLaid(d, cols, vals)
  BY DEF Laid
<1>2. PICK at : FieldsLaid(d, cols, vals, at)
  BY DEF Laid
<1>3. e \in Seq(Nat) /\ Len(e) = Len(d) + Len(cells) /\ \A j \in 1..Len(cells) : e[Len(d) + j] = cells[j]
  BY DEF Written
<1>4. /\ HeadLaid(e, cols) /\ Header(cols) \in Nat /\ Len(d) \in Nat
      /\ \A j \in 1..Len(d) : j > Header(cols) => e[j] = d[j]
  BY <1>1, HeadNext
<1>5. BitsLaid(e, cols, w)
  BY <1>1, BitsNext
<1>6. \E to : FieldsLaid(e, cols, w, to)
  <2>1. /\ cols \in Seq(Column) /\ i \in 1..Len(cols) /\ Fits(cols[i], v)
        /\ i = Len(vals) + 1 /\ Longer(vals, w, v)
    OBVIOUS
  <2>2. Grown(d, e, Header(cols), cells)
    BY <1>3, <1>4 DEF Grown
  <2> QED  BY ONLY <1>1, <1>2, <1>4, <2>1, <2>2, FieldsNext
<1>7. Header(cols) <= Len(e)
  <2>1. Len(cells) \in Nat
    <3>1. cols[i] \in Column
      BY ColumnFacts
    <3> QED  BY <3>1, FieldCellsFacts
  <2> HIDE DEF cells
  <2> QED  BY <1>1, <1>3, <1>4, <2>1
<1> QED  BY <1>3, <1>4, <1>5, <1>6, <1>7 DEF Laid

LEMMA HeaderFacts ==
  ASSUME NEW cols \in Seq(Column)
  PROVE  /\ Len(cols) \in Nat /\ Nullables(cols) \in Nat /\ Bools(cols) \in Nat
         /\ BitCells(Nullables(cols) + Bools(cols)) \in Nat
         /\ Header(cols) \in Nat /\ Header(cols) > Len(cols)
<1>1. Len(cols) \in Nat /\ Len(cols) + 1 \in Nat \ {0}
  OBVIOUS
<1>2. Nullables(cols) \in Nat /\ Bools(cols) \in Nat
  BY <1>1, CountsBefore DEF Nullables, Bools
<1> DEFINE n == Nullables(cols) + Bools(cols)
           w == BitCells(n)
<1>3. n \in Nat
  BY <1>2
<1> HIDE DEF n
<1>4. w \in Nat
  BY <1>3, BitCellsFacts
<1>5. Header(cols) = Len(cols) + 1 + w
  BY DEF Header, n
<1> HIDE DEF w
<1>6. Header(cols) \in Nat /\ Header(cols) > Len(cols)
  BY <1>1, <1>4, <1>5
<1> QED  BY <1>1, <1>2, <1>4, <1>6 DEF w, n

LEMMA StartRowFacts ==
  ASSUME NEW cols \in Seq(Column)
  PROVE  /\ StartRow(cols) \in Outputs /\ StartRow(cols).bits.at = Len(cols) + 1
         /\ Laid(StartRow(cols).buf.data, cols, << >>)
<1> DEFINE L == Len(cols)
           n == Nullables(cols) + Bools(cols)
           B == BitCells(n)
           codes == [i \in DOMAIN cols |-> Code(cols[i])]
           head == codes \o << 0 >>
           zeros == Zeros(B)
           b == AppendBytes(NewBuffer, head)
           b2 == Append1(b, zeros)
           o == StartRow(cols)
           data == b2.data
           empty == << >>
<1>1. L \in Nat /\ B \in Nat /\ Header(cols) = L + 1 + B /\ Header(cols) \in Nat
  <2>1. B \in Nat /\ L \in Nat /\ Header(cols) \in Nat
    BY HeaderFacts
  <2>2. Header(cols) = L + 1 + B
    BY DEF Header
  <2> QED  BY <2>1, <2>2
<1>2. codes \in Seq(Nat) /\ Len(codes) = L /\ \A j \in 1..L : codes[j] = Code(cols[j])
  <2>1. DOMAIN cols = 1..L
    OBVIOUS
  <2>2. \A j \in 1..L : Code(cols[j]) \in Nat
    <3>1. \A j \in 1..L : cols[j] \in Column
      OBVIOUS
    <3> QED  BY <3>1, CodeFacts
  <2>3. codes = [j \in 1..L |-> Code(cols[j])]
    BY <2>1
  <2> HIDE DEF L, codes
  <2>4. codes \in [1..L -> Nat]
    BY <2>2, <2>3
  <2>5. codes \in Seq(Nat) /\ Len(codes) = L
    BY <1>1, <2>4
  <2> QED  BY <2>3, <2>5
<1> DEFINE end == << 0 >>
<1>3. end \in Seq(Nat) /\ Len(end) = 1 /\ end[1] = 0 /\ 1 \in 1..1
  OBVIOUS
<1> HIDE DEF codes, end
<1>4. /\ head \in Seq(Nat) /\ Len(head) = L + 1 /\ head[L + 1] = 0
      /\ \A j \in 1..L : head[j] = Code(cols[j])
  <2>1. head = codes \o end
    BY DEF end
  <2> HIDE DEF head, L
  <2>2. /\ head \in Seq(Nat) /\ Len(head) = Len(codes) + Len(end)
        /\ \A j \in 1..Len(codes) : head[j] = codes[j]
        /\ \A j \in 1..Len(end) : head[Len(codes) + j] = end[j]
    BY <1>2, <1>3, <2>1, Concatenation
  <2> QED  BY <1>2, <1>3, <2>2
<1>5. zeros \in Seq(Nat) /\ Len(zeros) = B /\ \A j \in 1..B : zeros[j] = 0
  <2> HIDE DEF B
  <2>1. zeros = [j \in 1..B |-> 0]
    BY DEF Zeros
  <2> HIDE DEF zeros
  <2>2. zeros \in [1..B -> Nat]
    BY <2>1
  <2>3. zeros \in Seq(Nat) /\ Len(zeros) = B
    BY <1>1, <2>2
  <2> QED  BY <2>1, <2>3
<1> HIDE DEF head, zeros
<1>6. b \in Buffers /\ b.data = head
  <2>1. NewBuffer \in Buffers /\ NewBuffer.data = << >>
    BY NewBufferFacts
  <2>2. b \in Buffers /\ b.data = NewBuffer.data \o head
    BY <1>4, <2>1, AppendBytesFacts
  <2>3. << >> \o head = head
    BY <1>4
  <2> QED  BY <2>1, <2>2, <2>3
<1>7. b2 \in Buffers /\ data = head \o zeros
  <2> HIDE DEF b
  <2>1. b2 \in Buffers /\ b2.data = b.data \o zeros
    BY <1>5, <1>6, Append1Facts
  <2> QED  BY <1>6, <2>1
<1>8. o = [buf |-> b2, bits |-> [gen |-> b2.gen, at |-> L + 1]]
  <2>1. Len(b.data) = L + 1
    BY <1>4, <1>6
  <2>2. o = [buf |-> b2, bits |-> [gen |-> b2.gen, at |-> Len(b.data)]]
    <3> HIDE DEF n
    <3>1. o = LET c == AppendBytes(NewBuffer, head) c2 == Append1(c, zeros)
              IN [buf |-> c2, bits |-> [gen |-> c2.gen, at |-> Len(c.data)]]
      BY DEF StartRow, head, codes, zeros, n
    <3> QED  BY <3>1
  <2> QED  BY <2>1, <2>2
<1> HIDE DEF b2, o
<1>9. /\ data \in Seq(Nat) /\ Len(data) = L + 1 + B
      /\ \A j \in 1..(L + 1) : data[j] = head[j]
      /\ \A j \in 1..B : data[L + 1 + j] = 0
  <2>1. /\ data \in Seq(Nat) /\ Len(data) = Len(head) + Len(zeros)
        /\ \A j \in 1..Len(head) : data[j] = head[j]
        /\ \A j \in 1..Len(zeros) : data[Len(head) + j] = zeros[j]
    <3> DEFINE d == data
    <3>1. d = head \o zeros
      BY <1>7
    <3> HIDE DEF d
    <3>2. /\ d \in Seq(Nat) /\ Len(d) = Len(head) + Len(zeros)
          /\ \A j \in 1..Len(head) : d[j] = head[j]
          /\ \A j \in 1..Len(zeros) : d[Len(head) + j] = zeros[j]
      BY <1>4, <1>5, <3>1, Concatenation
    <3> QED  BY <3>2 DEF d
  <2> HIDE DEF data, L, B
  <2> QED  BY <1>4, <1>5, <2>1
<1>10. o \in Outputs /\ o.bits.at = L + 1
  <2>1. b2.gen \in Nat /\ (Len(data) <= GrowthSize => b2.gen = 1)
    BY <1>7, BufferFacts
  <2>2. L + 1 \in Nat
    BY <1>1
  <2>3. o \in [buf : Buffers, bits : [gen : Nat, at : Nat]]
    BY <1>7, <1>8, <2>1, <2>2
  <2>4. o.buf = b2 /\ o.bits.gen = b2.gen /\ o.bits.at = L + 1
    BY <1>8
  <2> QED  BY <2>1, <2>3, <2>4 DEF Outputs
<1> HIDE DEF data, L, B, empty
<1>11. HeadLaid(data, cols)
  <2>1. data[L + 1] = 0
    BY <1>1, <1>4, <1>9
  <2>2. \A j \in 1..L : data[j] = Code(cols[j])
    BY <1>1, <1>4, <1>9
  <2> QED  BY <2>1, <2>2 DEF HeadLaid, L
<1>12. Len(empty) = 0
  BY DEF empty
<1>13. BitsLaid(data, cols, empty)
  <2> SUFFICES ASSUME NEW m \in 1..Len(cols)
               PROVE  /\ ~cols[m].notnull =>
                           data[NullBit(cols, m)] = IF m <= Len(empty) /\ empty[m] # NULL THEN 1 ELSE 0
                      /\ cols[m].type = "bool" =>
                           data[BoolBit(cols, m)] = IF m <= Len(empty) /\ empty[m] = TRUE THEN 1 ELSE 0
    BY DEF BitsLaid
  <2>1. ~(m <= Len(empty))
    BY <1>1, <1>12 DEF L
  <2> DEFINE nb == NullablesBefore(cols, m)
             bb == BoolsBefore(cols, m)
             N == Nullables(cols)
  <2>2. nb \in Nat /\ bb \in Nat /\ N \in Nat /\ Bools(cols) \in Nat
    BY ColumnFacts
  <2>3. /\ ~cols[m].notnull => nb < N
        /\ cols[m].type = "bool" => bb < Bools(cols)
        /\ B >= N + Bools(cols)
    BY BitRange DEF B, n
  <2>4. NullBit(cols, m) = L + 1 + nb + 1 /\ BoolBit(cols, m) = L + 1 + N + bb + 1
    BY DEF NullBit, BoolBit, L
  <2> HIDE DEF nb, bb, N
  <2>5. ASSUME ~cols[m].notnull PROVE data[NullBit(cols, m)] = 0
    <3>1. nb + 1 \in 1..B /\ L + 1 + nb + 1 = L + 1 + (nb + 1)
      BY <1>1, <2>2, <2>3, <2>5
    <3> QED  BY <1>9, <2>4, <3>1
  <2>6. ASSUME cols[m].type = "bool" PROVE data[BoolBit(cols, m)] = 0
    <3>1. N + bb + 1 \in 1..B /\ L + 1 + N + bb + 1 = L + 1 + (N + bb + 1)
      BY <1>1, <2>2, <2>3, <2>6
    <3> QED  BY <1>9, <2>4, <3>1
  <2> QED  BY <2>1, <2>5, <2>6
<1>14. \E at : FieldsLaid(data, cols, empty, at)
  <2> DEFINE at == [k \in 0..0 |-> Header(cols)]
  <2>1. at \in [0..0 -> Nat] /\ at[0] = Header(cols)
    BY <1>1
  <2> HIDE DEF at
  <2>2. 1..Len(empty) = {}
    BY <1>12
  <2>3. FieldsLaid(data, cols, empty, at)
    BY <1>1, <1>9, <1>12, <2>1, <2>2 DEF FieldsLaid
  <2> QED  BY <2>3
<1>15. Laid(data, cols, empty)
  BY <1>1, <1>9, <1>11, <1>13, <1>14 DEF Laid
<1>16. o.buf.data = data
  BY <1>8 DEF data
<1> QED  BY <1>10, <1>15, <1>16 DEF o, L, empty

-----------------------------------------------------------------------------
(* Reading a value *)

LEMMA Slice ==
  ASSUME NEW s \in Seq(Nat), NEW p \in Nat \ {0}, NEW q \in Nat, p <= q + 1, q <= Len(s)
  PROVE  /\ SubSeq(s, p, q) \in Seq(Nat) /\ Len(SubSeq(s, p, q)) = q - p + 1
         /\ \A j \in 1..(q - p + 1) : SubSeq(s, p, q)[j] = s[p + j - 1]
OBVIOUS

\* The cells at p of s, when they are all there, are v.
LEMMA SliceIs ==
  ASSUME NEW s \in Seq(Nat), NEW p \in Nat \ {0}, NEW v \in Seq(Nat), NEW q,
         q = p + Len(v) - 1, q <= Len(s), Begins(s, p, v)
  PROVE  SubSeq(s, p, q) = v
<1> DEFINE t == SubSeq(s, p, q)
           k == Len(v)
<1>1. k \in Nat
  OBVIOUS
<1>2. q \in Nat /\ p <= q + 1 /\ q - p + 1 = k
  <2> HIDE DEF k
  <2> QED  BY <1>1 DEF k
<1>3. t \in Seq(Nat) /\ Len(t) = k /\ \A j \in 1..k : t[j] = s[p + j - 1]
  <2>1. t \in Seq(Nat) /\ Len(t) = q - p + 1 /\ \A j \in 1..(q - p + 1) : t[j] = s[p + j - 1]
    BY <1>2, Slice
  <2> HIDE DEF t, k
  <2> QED  BY <1>2, <2>1
<1>4. Len(s) \in Nat
  OBVIOUS
<1>5. \A j \in 1..k : p + j - 1 <= Len(s)
  <2> HIDE DEF k
  <2> QED  BY <1>1, <1>2, <1>4
<1>6. \A j \in 1..k : t[j] = v[j]
  <2>1. \A j \in 1..k : p + j - 1 <= Len(s) => s[p + j - 1] = v[j]
    BY DEF Begins
  <2> HIDE DEF t, k
  <2> QED  BY <1>3, <1>5, <2>1
<1> HIDE DEF t
<1>7. t = v
  BY <1>3, <1>6, SameSequence
<1> QED  BY <1>7 DEF t

LEMMA BytesRead ==
  ASSUME NEW s \in Seq(Nat), NEW p \in Nat \ {0}, NEW v \in Seq(Nat), Begins(s, p, v)
  PROVE  Reads(BytesAt(s, p, Len(v)), v, s, p, Len(v))
<1> DEFINE k == Len(v)
           x == BytesAt(s, p, k)
           q == p + k - 1
<1>1. k \in Nat /\ Len(s) \in Nat
  OBVIOUS
<1>2. x = IF k < 0 \/ q > Len(s) THEN [ok |-> FALSE]
          ELSE [ok |-> TRUE, val |-> SubSeq(s, p, q), next |-> p + k]
  BY DEF BytesAt
<1>3. q <= Len(s) => SubSeq(s, p, q) = v
  BY SliceIs
<1> HIDE DEF x, k
<1>4. CASE q <= Len(s)
  BY <1>1, <1>2, <1>3, <1>4 DEF Reads, x, k
<1>5. CASE ~(q <= Len(s))
  <2>1. q > Len(s)
    BY <1>1, <1>5
  <2> QED  BY <1>1, <1>2, <1>5, <2>1 DEF Reads, x, k
<1> QED  BY <1>4, <1>5

LEMMA TextReads ==
  ASSUME NEW s \in Seq(Nat), NEW p \in Nat \ {0}, NEW v \in Seq(Nat), \A j \in 1..Len(v) : v[j] # 0,
         Begins(s, p, v \o << 0 >>)
  PROVE  Reads(TextAt(s, p), v, s, p, Len(v \o << 0 >>))
<1> DEFINE k == Len(v)
           end == << 0 >>
           cells == v \o end
           ends == TextEnds(s, p)
           x == TextAt(s, p)
           q == p + k
<1>1. k \in Nat /\ Len(s) \in Nat /\ end \in Seq(Nat) /\ Len(end) = 1 /\ end[1] = 0
  OBVIOUS
<1> HIDE DEF end
<1>2. Len(cells) = k + 1 /\ cells[k + 1] = 0 /\ \A j \in 1..k : cells[j] = v[j]
  <2> HIDE DEF cells, k
  <2>1. /\ Len(cells) = Len(v) + Len(end)
        /\ \A j \in 1..Len(v) : cells[j] = v[j]
        /\ \A j \in 1..Len(end) : cells[Len(v) + j] = end[j]
    BY <1>1, Concatenation DEF cells
  <2> QED  BY <1>1, <2>1 DEF k
<1> HIDE DEF k, cells
<1>3. \A j \in 1..(k + 1) : p + j - 1 <= Len(s) => s[p + j - 1] = cells[j]
  BY <1>2 DEF Begins, cells, end
<1>4. ends = {r \in p..Len(s) : s[r] = 0}
  BY DEF TextEnds
<1> HIDE DEF ends
<1>5. \A r \in p..Len(s) : r < q => s[r] # 0
  <2> SUFFICES ASSUME NEW r \in p..Len(s), r < q PROVE s[r] # 0
    OBVIOUS
  <2> DEFINE j == r - p + 1
  <2>1. j \in 1..k /\ j \in 1..(k + 1) /\ p + j - 1 = r /\ r <= Len(s)
    BY <1>1
  <2> HIDE DEF j
  <2>2. s[r] = v[j]
    BY <1>2, <1>3, <2>1
  <2> QED  BY <2>1, <2>2 DEF k
<1>6. q <= Len(s) => q \in ends
  <2>1. k + 1 \in 1..(k + 1) /\ p + (k + 1) - 1 = q /\ (q <= Len(s) => q \in p..Len(s))
    BY <1>1
  <2>2. q <= Len(s) => s[q] = 0
    BY <1>2, <1>3, <2>1
  <2> QED  BY <1>4, <2>1, <2>2
<1>7. x = IF ends = {} THEN [ok |-> FALSE]
          ELSE [ok |-> TRUE, val |-> SubSeq(s, p, Min(ends) - 1), next |-> Min(ends) + 1]
  BY DEF TextAt, ends
<1> HIDE DEF x
<1>8. q \in Nat /\ p + (k + 1) - 1 = q /\ p + (k + 1) = q + 1 /\ q - 1 = p + k - 1
  BY <1>1
<1>9. CASE q <= Len(s)
  <2>1. ends # {} /\ ends \subseteq Nat
    <3>1. \A r \in p..Len(s) : r \in Nat
      BY <1>1
    <3> QED  BY <1>4, <1>6, <1>9, <3>1
  <2>2. Min(ends) \in ends /\ \A r \in ends : Min(ends) <= r
    BY <2>1, MinOfSet
  <2>3. Min(ends) = q
    <3>1. Min(ends) <= q /\ Min(ends) \in p..Len(s) /\ s[Min(ends)] = 0
      BY <1>4, <1>6, <1>9, <2>2
    <3>2. ~(Min(ends) < q)
      BY <1>5, <3>1
    <3> QED  BY <1>8, <3>1, <3>2
  <2> DEFINE r == q - 1
  <2>4. r = p + Len(v) - 1 /\ r <= Len(s)
    BY <1>1, <1>8, <1>9 DEF k
  <2>5. Begins(s, p, v)
    <3>1. \A j \in 1..k : p + j - 1 <= Len(s) => s[p + j - 1] = v[j]
      <4>1. \A j \in 1..k : j \in 1..(k + 1)
        BY <1>1
      <4> QED  BY <1>2, <1>3, <4>1
    <3> QED  BY <3>1 DEF Begins, k
  <2> HIDE DEF r
  <2>6. SubSeq(s, p, r) = v
    BY <2>4, <2>5, SliceIs
  <2>7. x.ok = TRUE /\ x.val = v /\ x.next = q + 1
    BY <1>7, <2>1, <2>3, <2>6 DEF r
  <2>8. Reads(x, v, s, p, k + 1)
    BY <1>8, <1>9, <2>7 DEF Reads
  <2> QED  BY <1>2, <2>8 DEF x, cells, end
<1>10. CASE ~(q <= Len(s))
  <2>1. ends = {}
    <3>1. \A r \in p..Len(s) : r < q
      BY <1>1, <1>8, <1>10
    <3> QED  BY <1>4, <1>5, <3>1
  <2>2. x.ok = FALSE
    BY <1>7, <2>1
  <2>3. Reads(x, v, s, p, k + 1)
    BY <1>8, <1>10, <2>2 DEF Reads
  <2> QED  BY <1>2, <2>3 DEF x, cells, end
<1> QED  BY <1>9, <1>10

LEMMA ValueAtOf ==
  ASSUME NEW type \in Types, NEW s, NEW p, NEW bit
  PROVE  /\ type \in IntTypes => ValueAt(s, p, type, bit) = VarintAt(s, p, type)
         /\ type = "real" => ValueAt(s, p, type, bit) = BytesAt(s, p, RealBytes)
         /\ type = "bool" => ValueAt(s, p, type, bit) = [ok |-> TRUE, val |-> bit = 1, next |-> p]
         /\ type = "text" => ValueAt(s, p, type, bit) = TextAt(s, p)
         /\ (type = "blob" /\ VarintAt(s, p, "int").ok) =>
              ValueAt(s, p, type, bit) = BytesAt(s, VarintAt(s, p, "int").next, VarintAt(s, p, "int").val)
         /\ (type = "blob" /\ ~VarintAt(s, p, "int").ok) => ValueAt(s, p, type, bit) = VarintAt(s, p, "int")
BY DEF ValueAt, IntTypes

LEMMA BeginsParts ==
  ASSUME NEW s \in Seq(Nat), NEW p \in Nat \ {0}, NEW a \in Seq(Nat), NEW b \in Seq(Nat),
         Begins(s, p, a \o b)
  PROVE  Begins(s, p, a) /\ Begins(s, p + Len(a), b) /\ Len(a \o b) = Len(a) + Len(b)
<1> DEFINE c == a \o b
<1>1. /\ Len(a) \in Nat /\ Len(b) \in Nat /\ Len(c) = Len(a) + Len(b)
      /\ \A j \in 1..Len(a) : c[j] = a[j]
      /\ \A j \in 1..Len(b) : c[Len(a) + j] = b[j]
  BY Concatenation
<1> HIDE DEF c
<1>2. \A j \in 1..Len(c) : p + j - 1 <= Len(s) => s[p + j - 1] = c[j]
  BY DEF Begins, c
<1>3. Begins(s, p, a)
  <2>1. \A j \in 1..Len(a) : j \in 1..Len(c)
    BY <1>1
  <2> QED  BY <1>1, <1>2, <2>1 DEF Begins
<1>4. Begins(s, p + Len(a), b)
  <2> SUFFICES ASSUME NEW j \in 1..Len(b), p + Len(a) + j - 1 <= Len(s)
               PROVE  s[p + Len(a) + j - 1] = b[j]
    BY DEF Begins
  <2> DEFINE i == Len(a) + j
  <2>1. i \in 1..Len(c) /\ p + i - 1 = p + Len(a) + j - 1
    BY <1>1
  <2> HIDE DEF i
  <2>2. s[p + i - 1] = c[i]
    BY <1>2, <2>1
  <2>3. c[i] = b[j]
    BY <1>1 DEF i
  <2> QED  BY <2>1, <2>2, <2>3
<1> QED  BY <1>1, <1>3, <1>4 DEF c

\* Where a value's cells are, ValueAt reads the value, unless they end too soon.
LEMMA ValueReads ==
  ASSUME NEW s \in Seq(Nat), NEW p \in Nat \ {0}, p <= Len(s) + 1, NEW type \in Types,
         NEW v \in Values[type], Begins(s, p, Cells(type, v)),
         NEW bit, type = "bool" => (bit = 1 <=> v = TRUE)
  PROVE  Reads(ValueAt(s, p, type, bit), v, s, p, Len(Cells(type, v)))
<1> DEFINE x == ValueAt(s, p, type, bit)
           cells == Cells(type, v)
<1>1. CASE type \in IntTypes
  <2>1. v \in (-Half[type])..(Half[type] - 1)
    BY <1>1, ValueFacts
  <2>2. cells = VarintBytes(v, type)
    BY <1>1, CellsOf
  <2>3. x = VarintAt(s, p, type)
    BY <1>1, ValueAtOf
  <2>4. Begins(s, p, VarintBytes(v, type))
    BY <2>2
  <2> QED  BY <1>1, <2>1, <2>2, <2>3, <2>4, VarintReads
<1>2. CASE type = "real"
  <2>1. v \in Seq(Nat) /\ Len(v) = RealBytes
    BY <1>2, ValueFacts
  <2>2. cells = v
    BY <1>2, CellsOf
  <2>3. x = BytesAt(s, p, Len(v))
    BY <1>2, <2>1, ValueAtOf
  <2>4. Begins(s, p, v)
    BY <2>2
  <2> QED  BY <2>1, <2>2, <2>3, <2>4, BytesRead
<1>3. CASE type = "bool"
  <2>1. v \in BOOLEAN /\ cells = << >>
    <3>1. v \in BOOLEAN
      BY <1>3, ValueFacts
    <3>2. cells = << >>
      BY <1>3, CellsOf
    <3> QED  BY <3>1, <3>2
  <2>2. x = [ok |-> TRUE, val |-> bit = 1, next |-> p]
    BY <1>3, ValueAtOf
  <2>3. (bit = 1) = v
    BY <1>3, <2>1
  <2> HIDE DEF x
  <2>4. x.ok = TRUE /\ x.val = v /\ x.next = p
    BY <2>2, <2>3
  <2>5. Len(cells) = 0 /\ Len(s) \in Nat
    <3>1. Len(s) \in Nat
      OBVIOUS
    <3> QED  BY <2>1, <3>1
  <2> HIDE DEF cells
  <2>6. p + Len(cells) - 1 <= Len(s) /\ p + Len(cells) = p
    BY <2>5
  <2>7. Reads(x, v, s, p, Len(cells))
    BY <2>4, <2>6 DEF Reads
  <2> QED  BY <2>7 DEF x, cells
<1>4. CASE type = "text"
  <2>1. v \in Seq(Nat) /\ \A j \in 1..Len(v) : v[j] # 0
    BY <1>4, ValueFacts
  <2>2. cells = v \o << 0 >>
    BY <1>4, CellsOf
  <2>3. x = TextAt(s, p)
    BY <1>4, ValueAtOf
  <2>4. Begins(s, p, v \o << 0 >>)
    BY <2>2
  <2> QED  BY <2>1, <2>2, <2>3, <2>4, TextReads
<1>5. CASE type = "blob"
  <2> DEFINE n == VarintBytes(Len(v), "int")
             h == VarintAt(s, p, "int")
             l == Len(v)
             q == p + Len(n)
             int == "int"
  <2>1. v \in Seq(Nat) /\ l \in (-Half[int])..(Half[int] - 1) /\ l \in Nat
    BY <1>5, ValueFacts
  <2>2. n \in Seq(Nat) /\ int \in IntTypes
    BY <2>1, VarintIsBytes DEF IntTypes
  <2>3. cells = n \o v
    BY <1>5, CellsOf
  <2>4. /\ h.ok => x = BytesAt(s, h.next, h.val)
        /\ ~h.ok => x = h
    BY <1>5, ValueAtOf
  <2>5. Begins(s, p, cells)
    OBVIOUS
  <2> HIDE DEF n, x, cells, l, int
  <2>6. Begins(s, p, n) /\ Begins(s, q, v) /\ Len(cells) = Len(n) + l
    BY <2>1, <2>2, <2>3, <2>5, BeginsParts DEF l
  <2>7. Reads(h, l, s, p, Len(n))
    <3>1. n = VarintBytes(l, int)
      BY DEF n, l, int
    <3>2. Begins(s, p, VarintBytes(l, int))
      BY <2>6, <3>1
    <3>3. Reads(VarintAt(s, p, int), l, s, p, Len(VarintBytes(l, int)))
      BY <2>1, <2>2, <3>2, VarintReads
    <3> QED  BY <3>1, <3>3 DEF int
  <2>8. /\ h.ok \in BOOLEAN /\ (h.ok <=> p + Len(n) - 1 <= Len(s))
        /\ h.ok => h.val = l /\ h.next = q
    BY <2>7 DEF Reads
  <2>9. Len(n) \in Nat /\ Len(s) \in Nat /\ q \in Nat \ {0}
    <3>1. Len(n) \in Nat /\ Len(s) \in Nat
      BY <2>2
    <3> QED  BY <3>1
  <2>10. CASE h.ok
    <3>1. x = BytesAt(s, q, Len(v))
      BY <2>4, <2>8, <2>10 DEF l
    <3>2. Reads(BytesAt(s, q, Len(v)), v, s, q, Len(v))
      BY <2>1, <2>6, <2>9, BytesRead
    <3>3. Reads(x, v, s, q, l)
      BY <3>1, <3>2 DEF l
    <3>4. q + l - 1 = p + Len(cells) - 1 /\ q + l = p + Len(cells)
      BY <2>1, <2>6, <2>9
    <3>5. Reads(x, v, s, p, Len(cells))
      BY <3>3, <3>4 DEF Reads
    <3> QED  BY <3>5 DEF x, cells
  <2>11. CASE ~h.ok
    <3>1. x.ok = FALSE
      BY <2>4, <2>8, <2>11
    <3>2. ~(p + Len(cells) - 1 <= Len(s))
      BY <2>1, <2>6, <2>8, <2>9, <2>11
    <3>3. Reads(x, v, s, p, Len(cells))
      BY <3>1, <3>2 DEF Reads
    <3> QED  BY <3>3 DEF x, cells
  <2> QED  BY <2>10, <2>11
<1> QED  BY <1>1, <1>2, <1>3, <1>4, <1>5 DEF Types, IntTypes

\* Reading any value from any bytes ends within them or just after, and what it
\* makes for a text or a blob is not NULL.
Moves(x, s, p) == x.next \in Nat /\ x.next >= p /\ x.next <= Len(s) + 1

LEMMA BytesMove ==
  ASSUME NEW s \in Seq(Nat), NEW p \in Nat \ {0}, NEW n \in Int, BytesAt(s, p, n).ok
  PROVE  Moves(BytesAt(s, p, n), s, p) /\ BytesAt(s, p, n).val \in Seq(Nat)
<1> DEFINE x == BytesAt(s, p, n)
           q == p + n - 1
<1>1. x = IF n < 0 \/ q > Len(s) THEN [ok |-> FALSE]
          ELSE [ok |-> TRUE, val |-> SubSeq(s, p, q), next |-> p + n]
  BY DEF BytesAt
<1>2. Len(s) \in Nat
  OBVIOUS
<1> HIDE DEF x
<1>3. ~(n < 0 \/ q > Len(s))
  BY <1>1 DEF x
<1>4. x.val = SubSeq(s, p, q) /\ x.next = p + n
  BY <1>1, <1>3
<1>5. q \in Nat /\ p <= q + 1 /\ q <= Len(s) /\ p + n \in Nat /\ p + n >= p /\ p + n <= Len(s) + 1
  BY <1>2, <1>3
<1> HIDE DEF q
<1>6. SubSeq(s, p, q) \in Seq(Nat)
  BY <1>5, Slice
<1> QED  BY <1>4, <1>5, <1>6 DEF Moves, x

LEMMA TextMoves ==
  ASSUME NEW s \in Seq(Nat), NEW p \in Nat \ {0}, TextAt(s, p).ok
  PROVE  Moves(TextAt(s, p), s, p) /\ TextAt(s, p).val \in Seq(Nat)
<1> DEFINE x == TextAt(s, p)
           ends == TextEnds(s, p)
           m == Min(ends)
           q == m - 1
<1>1. x = IF ends = {} THEN [ok |-> FALSE]
          ELSE [ok |-> TRUE, val |-> SubSeq(s, p, q), next |-> m + 1]
  BY DEF TextAt
<1>2. Len(s) \in Nat
  OBVIOUS
<1> HIDE DEF x, m
<1>3. ends # {}
  BY <1>1 DEF x
<1>4. ends \subseteq p..Len(s) /\ ends \subseteq Nat
  <2>1. ends \subseteq p..Len(s)
    BY DEF TextEnds
  <2>2. \A r \in p..Len(s) : r \in Nat
    BY <1>2
  <2> QED  BY <2>1, <2>2
<1> HIDE DEF ends
<1>5. m \in ends
  BY <1>3, <1>4, MinOfSet DEF m
<1>6. m \in p..Len(s)
  BY <1>4, <1>5
<1>7. q \in Nat /\ p <= q + 1 /\ q <= Len(s) /\ m + 1 \in Nat /\ m + 1 >= p /\ m + 1 <= Len(s) + 1
  BY <1>2, <1>6
<1>8. x.val = SubSeq(s, p, q) /\ x.next = m + 1
  BY <1>1, <1>3
<1> HIDE DEF q
<1>9. SubSeq(s, p, q) \in Seq(Nat)
  BY <1>7, Slice
<1> QED  BY <1>7, <1>8, <1>9 DEF Moves, x

LEMMA ValueMoves ==
  ASSUME NEW s \in Seq(Nat), NEW p \in Nat \ {0}, p <= Len(s) + 1, NEW type \in Types, NEW bit,
         ValueAt(s, p, type, bit).ok
  PROVE  /\ Moves(ValueAt(s, p, type, bit), s, p)
         /\ type \in RefTypes => ValueAt(s, p, type, bit).val # NULL
<1> DEFINE x == ValueAt(s, p, type, bit)
           h == VarintAt(s, p, "int")
<1>1. NULL \notin Seq(Nat)
  BY RowBlobAssumption
<1>2. Len(s) \in Nat
  OBVIOUS
<1>3. CASE type \in IntTypes
  <2>1. x = VarintAt(s, p, type)
    BY <1>3, ValueAtOf
  <2>2. x.ok
    OBVIOUS
  <2>3. x.next \in Nat /\ x.next > p /\ x.next <= Len(s) + 1
    BY <1>3, <2>1, <2>2, VarintType
  <2>4. type \notin RefTypes
    BY <1>3 DEF RefTypes, IntTypes
  <2> QED  BY <1>2, <2>3, <2>4 DEF Moves
<1>4. CASE type = "real"
  <2>1. x = BytesAt(s, p, RealBytes) /\ RealBytes \in Int
    BY <1>4, ValueAtOf DEF RealBytes
  <2>2. x.ok
    OBVIOUS
  <2>3. Moves(x, s, p)
    BY <2>1, <2>2, BytesMove
  <2>4. type \notin RefTypes
    BY <1>4 DEF RefTypes
  <2> QED  BY <2>3, <2>4
<1>5. CASE type = "bool"
  <2>1. x = [ok |-> TRUE, val |-> bit = 1, next |-> p]
    BY <1>5, ValueAtOf
  <2>2. x.next = p
    BY <2>1
  <2>3. type \notin RefTypes
    BY <1>5 DEF RefTypes
  <2> QED  BY <1>2, <2>2, <2>3 DEF Moves
<1>6. CASE type = "text"
  <2>1. x = TextAt(s, p)
    BY <1>6, ValueAtOf
  <2>2. x.ok
    OBVIOUS
  <2>3. Moves(x, s, p) /\ x.val \in Seq(Nat)
    BY <2>1, <2>2, TextMoves
  <2> QED  BY <1>1, <2>3
<1>7. CASE type = "blob"
  <2> DEFINE q == h.next
             n == h.val
  <2>1. x.ok
    OBVIOUS
  <2>2. CASE h.ok
    <3>1. x = BytesAt(s, q, n)
      BY <1>7, <2>2, ValueAtOf
    <3>2. n \in Int /\ q \in Nat /\ q > p
      BY <2>2, VarintType DEF IntTypes
    <3> HIDE DEF q, n, x
    <3>3. q \in Nat \ {0}
      BY <3>2
    <3>4. BytesAt(s, q, n).ok
      BY <2>1, <3>1
    <3>5. Moves(x, s, q) /\ x.val \in Seq(Nat)
      BY <3>1, <3>2, <3>3, <3>4, BytesMove
    <3>6. Moves(x, s, p)
      BY <1>2, <3>2, <3>5 DEF Moves
    <3> QED  BY <1>1, <3>5, <3>6 DEF x
  <2>3. CASE ~h.ok
    <3>1. x = h
      BY <1>7, <2>3, ValueAtOf
    <3> QED  BY <2>1, <2>3, <3>1
  <2> QED  BY <2>2, <2>3
<1> QED  BY <1>3, <1>4, <1>5, <1>6, <1>7 DEF Types, IntTypes

-----------------------------------------------------------------------------
(* Reading the header *)

\* s is what is left of d when it is cut short.
Prefix(s, d) ==
  s \in Seq(Nat) /\ Len(s) <= Len(d) /\ \A j \in 1..Len(s) : s[j] = d[j]

LEMMA BeginsPrefix ==
  ASSUME NEW d \in Seq(Nat), NEW s, Prefix(s, d), NEW p \in Nat \ {0}, NEW cells,
         Len(cells) \in Nat, Begins(d, p, cells)
  PROVE  Begins(s, p, cells)
<1> SUFFICES ASSUME NEW j \in 1..Len(cells), p + j - 1 <= Len(s) PROVE s[p + j - 1] = cells[j]
  BY DEF Begins
<1> DEFINE q == p + j - 1
<1>1. s \in Seq(Nat) /\ Len(s) <= Len(d) /\ \A r \in 1..Len(s) : s[r] = d[r]
  BY DEF Prefix
<1>2. Len(s) \in Nat /\ Len(d) \in Nat
  BY <1>1
<1>3. q \in 1..Len(s) /\ q <= Len(d)
  BY <1>1, <1>2
<1>4. d[q] = cells[j]
  BY <1>3 DEF Begins
<1> HIDE DEF q
<1>5. s[q] = d[q]
  BY <1>1, <1>3
<1> QED  BY <1>4, <1>5 DEF q

\* What ReadHeader makes of the header of the columns, its bits being those of d
IsHeader(h, cols, d) ==
  /\ Len(h.codes) = Len(cols) /\ \A j \in 1..Len(cols) : h.codes[j] = Code(cols[j])
  /\ h.nulls = Nullables(cols) /\ h.next = Header(cols) + 1
  /\ \A k \in 1..BitCells(Nullables(cols) + Bools(cols)) : h.bits[k] = d[Len(cols) + 1 + k]

ReadHeaderOf(s, z, codes, nulls, bools, bits) ==
  /\ z = Min(TextEnds(s, 1)) /\ codes = SubSeq(s, 1, z - 1)
  /\ nulls = Cardinality({j \in 1..(z - 1) : CodeNullable(codes[j])})
  /\ bools = Cardinality({j \in 1..(z - 1) : CodeType(codes[j]) = "bool"})
  /\ bits = BytesAt(s, z + 1, BitCells(nulls + bools))

LEMMA ReadHeaderDef ==
  ASSUME NEW s
  PROVE  /\ TextEnds(s, 1) = {} => ReadHeader(s) = [ok |-> FALSE]
         /\ TextEnds(s, 1) # {} =>
              \E z, codes, nulls, bools, bits :
                /\ ReadHeaderOf(s, z, codes, nulls, bools, bits)
                /\ ReadHeader(s) = IF bits.ok
                                   THEN [ok |-> TRUE, codes |-> codes, nulls |-> nulls,
                                         bits |-> bits.val, next |-> bits.next]
                                   ELSE bits
<1> DEFINE z == Min(TextEnds(s, 1))
           codes == SubSeq(s, 1, z - 1)
           nulls == Cardinality({j \in 1..(z - 1) : CodeNullable(codes[j])})
           bools == Cardinality({j \in 1..(z - 1) : CodeType(codes[j]) = "bool"})
           bits == BytesAt(s, z + 1, BitCells(nulls + bools))
<1>1. ReadHeaderOf(s, z, codes, nulls, bools, bits)
  BY DEF ReadHeaderOf
<1>2. TextEnds(s, 1) # {} =>
        ReadHeader(s) = IF bits.ok
                        THEN [ok |-> TRUE, codes |-> codes, nulls |-> nulls,
                              bits |-> bits.val, next |-> bits.next]
                        ELSE bits
  BY DEF ReadHeader
<1>3. TextEnds(s, 1) = {} => ReadHeader(s) = [ok |-> FALSE]
  BY DEF ReadHeader
<1> HIDE DEF z, codes, nulls, bools, bits
<1> QED  BY <1>1, <1>2, <1>3

LEMMA HeaderReads ==
  ASSUME NEW cols \in Seq(Column), NEW d \in Seq(Nat), Header(cols) <= Len(d), HeadLaid(d, cols),
         NEW s, Prefix(s, d)
  PROVE  /\ ReadHeader(s).ok <=> Header(cols) <= Len(s)
         /\ ReadHeader(s).ok => IsHeader(ReadHeader(s), cols, d)
<1> DEFINE L == Len(cols)
           N == Nullables(cols)
           B == BitCells(Nullables(cols) + Bools(cols))
           h == ReadHeader(s)
           ends == TextEnds(s, 1)
<1>1. /\ L \in Nat /\ N \in Nat /\ Bools(cols) \in Nat /\ B \in Nat
      /\ Header(cols) \in Nat /\ Header(cols) > L /\ Header(cols) = L + 1 + B
  BY HeaderFacts DEF Header
<1>2. s \in Seq(Nat) /\ Len(s) <= Len(d) /\ Len(s) \in Nat /\ \A j \in 1..Len(s) : s[j] = d[j]
  BY DEF Prefix
<1>3. \A j \in 1..L : d[j] = Code(cols[j]) /\ Code(cols[j]) \in Nat /\ d[j] # 0
  <2>1. ASSUME NEW j \in 1..L PROVE d[j] = Code(cols[j]) /\ Code(cols[j]) \in Nat /\ Code(cols[j]) # 0
    <3>1. cols[j] \in Column
      OBVIOUS
    <3>2. d[j] = Code(cols[j])
      BY DEF HeadLaid
    <3> QED  BY <3>1, <3>2, CodeFacts
  <2> QED  BY <2>1
<1>4. d[L + 1] = 0
  BY DEF HeadLaid
<1>5. ends = {r \in 1..Len(s) : s[r] = 0}
  BY DEF TextEnds
<1> HIDE DEF L, N, B, ends
<1>6. CASE ~(L + 1 <= Len(s))
  <2>1. \A r \in 1..Len(s) : r \in 1..L
    BY <1>1, <1>2, <1>6
  <2>2. ends = {}
    BY <1>2, <1>3, <1>5, <2>1
  <2>3. h = [ok |-> FALSE]
    BY <2>2, ReadHeaderDef DEF ends
  <2>4. ~(Header(cols) <= Len(s))
    BY <1>1, <1>2, <1>6
  <2> QED  BY <2>3, <2>4
<1>7. CASE L + 1 <= Len(s)
  <2>1. L + 1 \in 1..Len(s) /\ s[L + 1] = 0
    BY <1>1, <1>2, <1>4, <1>7
  <2>2. L + 1 \in ends
    BY <1>5, <2>1
  <2>3. ends \subseteq Nat /\ ends # {}
    <3>1. \A r \in 1..Len(s) : r \in Nat
      BY <1>2
    <3> QED  BY <1>5, <2>2, <3>1
  <2>4. Min(ends) = L + 1
    <3>1. Min(ends) \in ends /\ \A r \in ends : Min(ends) <= r
      BY <2>3, MinOfSet
    <3>2. Min(ends) <= L + 1 /\ Min(ends) \in 1..Len(s) /\ s[Min(ends)] = 0
      BY <1>5, <2>2, <3>1
    <3>3. ~(Min(ends) \in 1..L)
      BY <1>2, <1>3, <3>2
    <3> DEFINE m == Min(ends)
    <3>4. m \in Nat /\ m > 0 /\ m <= L + 1 /\ ~(m \in 1..L)
      BY <1>2, <3>2, <3>3
    <3> HIDE DEF m, L
    <3>5. m = L + 1
      BY <1>1, <3>4
    <3> QED  BY <3>5 DEF m
  <2>5. PICK z, codes, nulls, bools, bits :
          /\ ReadHeaderOf(s, z, codes, nulls, bools, bits)
          /\ ReadHeader(s) = IF bits.ok
                             THEN [ok |-> TRUE, codes |-> codes, nulls |-> nulls,
                                   bits |-> bits.val, next |-> bits.next]
                             ELSE bits
    BY <2>3, ReadHeaderDef DEF ends
  <2>6. z = L + 1 /\ z - 1 = L /\ codes = SubSeq(s, 1, L)
    BY <1>1, <2>4, <2>5 DEF ReadHeaderOf, ends
  <2>7. Len(codes) = L /\ \A j \in 1..L : codes[j] = Code(cols[j])
    <3>1. /\ Len(SubSeq(s, 1, L)) = L - 1 + 1
          /\ \A j \in 1..(L - 1 + 1) : SubSeq(s, 1, L)[j] = s[1 + j - 1]
      <4>1. L \in Nat /\ 1 \in Nat \ {0} /\ 1 <= L + 1 /\ L <= Len(s)
        BY <1>1, <1>2, <1>7
      <4> QED  BY <1>2, <4>1, Slice
    <3>2. L - 1 + 1 = L /\ \A j \in 1..L : 1 + j - 1 = j /\ j \in 1..Len(s)
      BY <1>1, <1>2, <1>7
    <3>3. \A j \in 1..L : codes[j] = s[j]
      BY <2>6, <3>1, <3>2
    <3> QED  BY <1>2, <1>3, <2>6, <3>1, <3>2, <3>3
  <2>8. \A j \in 1..L : /\ CodeNullable(codes[j]) <=> ~cols[j].notnull
                        /\ CodeType(codes[j]) = cols[j].type
    <3> SUFFICES ASSUME NEW j \in 1..L
                 PROVE  /\ CodeNullable(codes[j]) <=> ~cols[j].notnull
                        /\ CodeType(codes[j]) = cols[j].type
      OBVIOUS
    <3>1. cols[j] \in Column
      BY DEF L
    <3>2. codes[j] = Code(cols[j])
      BY <2>7
    <3> QED  BY <3>1, <3>2, CodeFacts
  <2>9. nulls = N /\ bools = Bools(cols)
    <3>1. {j \in 1..(z - 1) : CodeNullable(codes[j])} = {j \in 1..(L + 1 - 1) : ~cols[j].notnull}
      <4>1. 1..(z - 1) = 1..L /\ 1..(L + 1 - 1) = 1..L
        BY <1>1, <2>6
      <4> QED  BY <2>8, <4>1
    <3>2. {j \in 1..(z - 1) : CodeType(codes[j]) = "bool"} = {j \in 1..(L + 1 - 1) : cols[j].type = "bool"}
      <4>1. 1..(z - 1) = 1..L /\ 1..(L + 1 - 1) = 1..L
        BY <1>1, <2>6
      <4> QED  BY <2>8, <4>1
    <3>3. /\ nulls = Cardinality({j \in 1..(z - 1) : CodeNullable(codes[j])})
          /\ bools = Cardinality({j \in 1..(z - 1) : CodeType(codes[j]) = "bool"})
      BY <2>5 DEF ReadHeaderOf
    <3>4. /\ N = Cardinality({j \in 1..(L + 1 - 1) : ~cols[j].notnull})
          /\ Bools(cols) = Cardinality({j \in 1..(L + 1 - 1) : cols[j].type = "bool"})
      BY DEF N, L, Nullables, Bools, NullablesBefore, BoolsBefore
    <3> QED  BY <3>1, <3>2, <3>3, <3>4
  <2>10. bits = BytesAt(s, L + 2, B)
    <3>1. z + 1 = L + 2
      BY <1>1, <2>6
    <3> QED  BY <2>5, <2>9, <3>1 DEF ReadHeaderOf, B, N
  <2>11. L + 2 + B - 1 = Header(cols) /\ L + 2 + B = Header(cols) + 1 /\ ~(B < 0)
    BY <1>1
  <2>12. bits = IF Header(cols) > Len(s) THEN [ok |-> FALSE]
                ELSE [ok |-> TRUE, val |-> SubSeq(s, L + 2, Header(cols)), next |-> Header(cols) + 1]
    BY <2>10, <2>11 DEF BytesAt
  <2>13. CASE Header(cols) > Len(s)
    <3>1. bits.ok = FALSE
      BY <2>12, <2>13
    <3>2. h.ok = FALSE
      BY <2>5, <3>1
    <3> QED  BY <1>1, <1>2, <2>13, <3>2
  <2>14. CASE ~(Header(cols) > Len(s))
    <3>1. bits.ok = TRUE /\ bits.val = SubSeq(s, L + 2, Header(cols)) /\ bits.next = Header(cols) + 1
      BY <2>12, <2>14
    <3>2. h = [ok |-> TRUE, codes |-> codes, nulls |-> nulls, bits |-> bits.val, next |-> bits.next]
      BY <2>5, <3>1
    <3> HIDE DEF h
    <3>3. h.ok = TRUE /\ h.codes = codes /\ h.nulls = nulls /\ h.bits = bits.val /\ h.next = bits.next
      BY <3>2
    <3>4. h.ok = TRUE /\ h.codes = codes /\ h.nulls = N /\ h.bits = SubSeq(s, L + 2, Header(cols))
          /\ h.next = Header(cols) + 1
      BY <2>9, <3>1, <3>3
    <3>5. ASSUME NEW l \in 1..B PROVE h.bits[l] = d[L + 1 + l]
      <4>1. L + 2 \in Nat \ {0} /\ L + 2 <= Header(cols) + 1 /\ Header(cols) <= Len(s)
        BY <1>1, <1>2, <2>14
      <4>2. \A k \in 1..(Header(cols) - (L + 2) + 1) :
              SubSeq(s, L + 2, Header(cols))[k] = s[L + 2 + k - 1]
        BY <1>1, <1>2, <4>1, Slice
      <4>3. Header(cols) - (L + 2) + 1 = B
        BY <1>1
      <4> DEFINE H == Header(cols)
                 m == Len(s)
      <4>4. L \in Nat /\ B \in Nat /\ H = L + 1 + B /\ H <= m /\ m \in Nat
        BY <1>1, <1>2, <4>1
      <4> HIDE DEF H, m, L, B
      <4>5. L + 2 + l - 1 = L + 1 + l
        BY <4>4
      <4>6. L + 1 + l \in 1..m
        BY <4>4
      <4>7. h.bits[l] = s[L + 1 + l]
        BY <3>4, <4>2, <4>3, <4>5
      <4> QED  BY <1>2, <4>6, <4>7 DEF m
    <3>6. IsHeader(h, cols, d)
      BY <2>7, <3>4, <3>5 DEF IsHeader, L, N, B
    <3> QED  BY <1>1, <1>2, <2>14, <3>4, <3>6 DEF h
  <2> QED  BY <2>13, <2>14
<1> QED  BY <1>6, <1>7

\* Whatever the bytes, what follows their header is within them or just after.
LEMMA HeaderMoves ==
  ASSUME NEW s \in Seq(Nat), ReadHeader(s).ok
  PROVE  Moves(ReadHeader(s), s, 1)
<1> DEFINE h == ReadHeader(s)
           ends == TextEnds(s, 1)
<1>1. ends # {}
  <2>1. ends = {} => h = [ok |-> FALSE]
    BY ReadHeaderDef
  <2> HIDE DEF ends, h
  <2>2. h.ok
    BY DEF h
  <2> QED  BY <2>1, <2>2
<1>2. PICK z, codes, nulls, bools, bits :
        /\ ReadHeaderOf(s, z, codes, nulls, bools, bits)
        /\ ReadHeader(s) = IF bits.ok
                           THEN [ok |-> TRUE, codes |-> codes, nulls |-> nulls,
                                 bits |-> bits.val, next |-> bits.next]
                           ELSE bits
  BY <1>1, ReadHeaderDef
<1>3. Len(s) \in Nat
  OBVIOUS
<1>4. ends \subseteq Nat /\ \A r \in ends : r \in 1..Len(s)
  <2>1. \A r \in 1..Len(s) : r \in Nat
    BY <1>3
  <2> QED  BY <2>1 DEF TextEnds
<1>5. z \in ends
  <2> HIDE DEF ends
  <2>1. Min(ends) \in ends
    BY <1>1, <1>4, MinOfSet
  <2> QED  BY <1>2, <2>1 DEF ReadHeaderOf, ends
<1>6. z \in Nat /\ z > 0
  BY <1>3, <1>4, <1>5
<1>7. nulls \in Nat /\ bools \in Nat
  <2>1. IsFiniteSet(1..(z - 1))
    BY <1>6, FS_Interval
  <2> DEFINE N == {j \in 1..(z - 1) : CodeNullable(codes[j])}
             B == {j \in 1..(z - 1) : CodeType(codes[j]) = "bool"}
  <2>2. N \subseteq 1..(z - 1) /\ B \subseteq 1..(z - 1)
    OBVIOUS
  <2>3. nulls = Cardinality(N) /\ bools = Cardinality(B)
    BY <1>2 DEF ReadHeaderOf
  <2> HIDE DEF N, B
  <2>4. IsFiniteSet(N) /\ IsFiniteSet(B)
    BY <2>1, <2>2, FS_Subset
  <2> QED  BY <2>3, <2>4, FS_CardinalityType
<1> DEFINE n == nulls + bools
           w == BitCells(n)
           p == z + 1
<1>8. n \in Nat
  BY <1>7
<1> HIDE DEF n
<1>9. w \in Int /\ p \in Nat \ {0} /\ p > 1
  <2>1. w \in Nat
    BY <1>8, BitCellsFacts
  <2> HIDE DEF w
  <2> QED  BY <1>6, <2>1
<1>10. bits = BytesAt(s, p, w)
  BY <1>2 DEF ReadHeaderOf, n
<1> HIDE DEF w, p
<1>11. bits.ok
  BY <1>2
<1>12. Moves(bits, s, p)
  BY <1>9, <1>10, <1>11, BytesMove
<1>13. h.next = bits.next
  <2>1. h = [ok |-> TRUE, codes |-> codes, nulls |-> nulls, bits |-> bits.val, next |-> bits.next]
    BY <1>2, <1>11
  <2> HIDE DEF h
  <2> QED  BY <2>1
<1> HIDE DEF h
<1>14. Moves(h, s, 1)
  BY <1>9, <1>12, <1>13 DEF Moves
<1> QED  BY <1>14 DEF h

LEMMA AcceptsReadable ==
  ASSUME NEW row, row.cols \in Seq(Column), shape \in Seq(Column), NEW h, NEW d,
         IsHeader(h, row.cols, d)
  PROVE  Accepts(h.codes) <=> Readable(row)
<1> DEFINE cols == row.cols
           codes == h.codes
<1>1. Len(codes) = Len(cols) /\ \A j \in 1..Len(cols) : codes[j] = Code(cols[j])
  BY DEF IsHeader
<1>2. cols \in Seq(Column) /\ Len(cols) \in Nat /\ Len(shape) \in Nat /\ DOMAIN shape = 1..Len(shape)
  OBVIOUS
<1> HIDE DEF codes, cols
<1>3. ASSUME NEW i \in DOMAIN shape
      PROVE  (IF i <= Len(codes)
              THEN /\ CodeType(codes[i]) = shape[i].type
                   /\ shape[i].notnull => ~CodeNullable(codes[i])
              ELSE ~shape[i].notnull)
         <=> (IF i <= Len(cols)
              THEN cols[i].type = shape[i].type /\ (shape[i].notnull => cols[i].notnull)
              ELSE ~shape[i].notnull)
  <2>1. CASE i <= Len(cols)
    <3>1. i \in 1..Len(cols)
      BY <1>2, <2>1
    <3>2. cols[i] \in Column /\ codes[i] = Code(cols[i])
      BY <1>1, <1>2, <3>1
    <3>3. CodeType(codes[i]) = cols[i].type /\ (CodeNullable(codes[i]) <=> ~cols[i].notnull)
      BY <3>2, CodeFacts
    <3> QED  BY <1>1, <2>1, <3>3
  <2>2. CASE ~(i <= Len(cols))
    BY <1>1, <2>2
  <2> QED  BY <2>1, <2>2
<1> QED  BY <1>3 DEF Accepts, Readable, codes, cols

\* A field v in the cells from a to b of s is found there, unless it is cut off:
\* x is what reading makes of it, and fetch whether it is read at all.
Found(fetch, x, v, s, a, b) ==
  /\ b \in Nat /\ (fetch <=> v # NULL)
  /\ v = NULL => b = a
  /\ v # NULL => (x.ok <=> b <= Len(s)) /\ (x.ok => x.val = v /\ x.next = b + 1)

\* What the loop over the fields finds at column i of a row.
LEMMA FieldReads ==
  ASSUME NEW cols \in Seq(Column), NEW vals, Len(vals) = Len(cols), NEW i \in 1..Len(cols),
         Fits(cols[i], vals[i]),
         NEW d \in Seq(Nat), BitsLaid(d, cols, vals), NEW at, FieldsLaid(d, cols, vals, at),
         NEW s, Prefix(s, d), at[i - 1] <= Len(s), NEW h, IsHeader(h, cols, d),
         NEW bit, cols[i].type = "bool" => bit = h.bits[h.nulls + BoolsBefore(cols, i) + 1]
  PROVE  Found(CodeNullable(h.codes[i]) => h.bits[NullablesBefore(cols, i) + 1] = 1,
               ValueAt(s, at[i - 1] + 1, cols[i].type, bit), vals[i], s, at[i - 1], at[i])
<1> DEFINE L == Len(cols)
           N == Nullables(cols)
           B == BitCells(Nullables(cols) + Bools(cols))
           nb == NullablesBefore(cols, i)
           bb == BoolsBefore(cols, i)
           c == cols[i]
           v == vals[i]
           a == at[i - 1]
           p == a + 1
           cells == FieldCells(c, v)
           x == ValueAt(s, p, c.type, bit)
<1>1. /\ L \in Nat /\ i \in Nat \ {0} /\ c \in Column /\ c.type \in Types /\ c.notnull \in BOOLEAN
      /\ nb \in Nat /\ bb \in Nat /\ N \in Nat /\ Bools(cols) \in Nat
  BY ColumnFacts
<1>2. /\ ~c.notnull => nb < N
      /\ c.type = "bool" => bb < Bools(cols)
      /\ B \in Nat /\ B >= N + Bools(cols)
  BY BitRange
<1>3. h.codes[i] = Code(c) /\ h.nulls = N /\ \A k \in 1..B : h.bits[k] = d[L + 1 + k]
  BY DEF IsHeader
<1>4. CodeNullable(h.codes[i]) <=> ~c.notnull
  <2> HIDE DEF c
  <2> QED  BY <1>1, <1>3, CodeFacts
<1>5. i <= Len(vals)
  BY <1>1
<1>6. /\ ~c.notnull => d[NullBit(cols, i)] = IF v # NULL THEN 1 ELSE 0
      /\ c.type = "bool" => d[BoolBit(cols, i)] = IF v = TRUE THEN 1 ELSE 0
  BY <1>5 DEF BitsLaid
<1>7. NullBit(cols, i) = L + 1 + nb + 1 /\ BoolBit(cols, i) = L + 1 + N + bb + 1
  BY DEF NullBit, BoolBit
<1>8. FieldLaid(d, cols, vals, at, i) /\ at \in [0..L -> Nat]
  BY DEF FieldsLaid
<1>9. /\ a \in Nat /\ at[i] <= Len(d) /\ Len(cells) \in Nat /\ at[i] = a + Len(cells)
      /\ Begins(d, p, cells)
  BY <1>8 DEF FieldLaid
<1>10. at[i] \in Nat /\ p \in Nat \ {0}
  <2> HIDE DEF a, cells
  <2> QED  BY <1>9
<1>11. v # NULL => v \in Values[c.type]
  BY DEF Fits
<1>12. c.notnull => v # NULL
  <2>1. c.notnull => v \in Values[c.type]
    BY DEF Fits
  <2> HIDE DEF c, v
  <2> QED  BY <1>1, <2>1, ValueFacts
<1>13. ~c.notnull => h.bits[nb + 1] = IF v # NULL THEN 1 ELSE 0
  <2> HIDE DEF L, nb, c, v, N, B
  <2>1. ~c.notnull => nb + 1 \in 1..B /\ L + 1 + (nb + 1) = L + 1 + nb + 1
    BY <1>1, <1>2
  <2> QED  BY <1>3, <1>6, <1>7, <2>1
<1>14. (CodeNullable(h.codes[i]) => h.bits[nb + 1] = 1) <=> v # NULL
  <2> HIDE DEF c, v, nb
  <2> QED  BY <1>1, <1>4, <1>12, <1>13
<1>15. v = NULL => at[i] = a
  <2>1. v = NULL => cells = << >>
    BY DEF FieldCells
  <2>2. v = NULL => Len(cells) = 0
    BY <2>1
  <2> HIDE DEF a, cells, v
  <2> QED  BY <1>9, <2>2
<1>16. ASSUME v # NULL
       PROVE  (x.ok <=> at[i] <= Len(s)) /\ (x.ok => x.val = v /\ x.next = at[i] + 1)
  <2> DEFINE type == c.type
             k == Len(cells)
  <2>1. s \in Seq(Nat)
    BY DEF Prefix
  <2>2. cells = Cells(type, v)
    BY <1>16 DEF FieldCells
  <2>3. type = "bool" => (bit = 1 <=> v = TRUE)
    <3>1. type = "bool" => bit = h.bits[N + bb + 1]
      BY <1>3
    <3>2. type = "bool" => N + bb + 1 \in 1..B /\ L + 1 + (N + bb + 1) = L + 1 + N + bb + 1
      <4> SUFFICES ASSUME type = "bool"
                   PROVE  N + bb + 1 \in 1..B /\ L + 1 + (N + bb + 1) = L + 1 + N + bb + 1
        OBVIOUS
      <4> DEFINE t == Bools(cols)
      <4>1. /\ bb \in Nat /\ N \in Nat /\ L \in Nat /\ B \in Nat /\ t \in Nat
            /\ B >= N + t /\ bb < t
        BY <1>1, <1>2
      <4> HIDE DEF L, N, bb, B, t
      <4>2. N + bb + 1 \in 1..B
        BY <4>1
      <4>3. L + 1 + (N + bb + 1) = L + 1 + N + bb + 1
        BY <4>1
      <4> QED  BY <4>2, <4>3
    <3>3. type = "bool" => bit = IF v = TRUE THEN 1 ELSE 0
      <4> HIDE DEF L, N, bb, B, v
      <4> QED  BY <1>3, <1>6, <1>7, <3>1, <3>2
    <3> HIDE DEF v, type
    <3> QED  BY <3>3
  <2>4. Len(s) \in Nat /\ p <= Len(s) + 1
    <3>1. Len(s) \in Nat
      BY <2>1
    <3> HIDE DEF a
    <3> QED  BY <1>9, <3>1 DEF a
  <2> HIDE DEF cells, p, v, c, type
  <2>5. Begins(s, p, cells)
    BY <1>9, <1>10, BeginsPrefix
  <2>6. type \in Types /\ v \in Values[type]
    BY <1>1, <1>11, <1>16 DEF type
  <2>7. Reads(ValueAt(s, p, type, bit), v, s, p, Len(Cells(type, v)))
    <3>1. Begins(s, p, Cells(type, v))
      BY <2>2, <2>5
    <3> QED  BY <1>10, <2>1, <2>3, <2>4, <2>6, <3>1, ValueReads
  <2> HIDE DEF x
  <2>8. /\ x.ok \in BOOLEAN /\ (x.ok <=> p + k - 1 <= Len(s))
        /\ x.ok => x.val = v /\ x.next = p + k
    BY <2>2, <2>7 DEF Reads, x, type
  <2> HIDE DEF k
  <2>9. p + k - 1 = at[i] /\ p + k = at[i] + 1
    <3> HIDE DEF a
    <3> QED  BY <1>9 DEF p, k
  <2> QED  BY <2>8, <2>9
<1> DEFINE fetch == CodeNullable(h.codes[i]) => h.bits[nb + 1] = 1
<1>17. fetch <=> v # NULL
  BY <1>14
<1> HIDE DEF fetch, x, v, a
<1>18. Found(fetch, x, v, s, a, at[i])
  BY <1>10, <1>15, <1>16, <1>17 DEF Found
<1> QED  BY <1>18 DEF fetch, x, v, a

-----------------------------------------------------------------------------
(* Streams *)

\* s has the first i blobs one after the other; blob k is what is after the first
\* ends[k - 1] - base cells.
Joins(s, blobs, ends, base, i) ==
  /\ s \in Seq(Nat) /\ Len(s) = ends[i] - base
  /\ \A k \in 1..i : /\ ends[k - 1] >= base /\ ends[k - 1] <= ends[k] /\ ends[k] <= ends[i]
                     /\ \A j \in 1..Len(blobs[k]) : s[ends[k - 1] - base + j] = blobs[k][j]

Ends(ends, blobs, base) ==
  /\ ends \in [0..Len(blobs) -> Nat] /\ ends[0] = base
  /\ \A i \in 1..Len(blobs) : ends[i] = ends[i - 1] + Len(blobs[i])

LEMMA Grows ==
  ASSUME NEW a \in Nat, NEW b \in Nat, NEW l \in Nat, NEW m \in Nat, NEW t \in Nat,
         l = a - b, t = l + m
  PROVE  a >= b /\ t = a + m - b
OBVIOUS

LEMMA JoinsNext ==
  ASSUME NEW blobs \in Seq(Seq(Nat)), NEW base \in Nat, NEW ends, Ends(ends, blobs, base),
         NEW i \in Nat, i > 0, i + 1 <= Len(blobs), NEW s, Joins(s, blobs, ends, base, i)
  PROVE  Joins(s \o blobs[i + 1], blobs, ends, base, i + 1)
<1> DEFINE n == Len(blobs)
           b == blobs[i + 1]
           t == s \o b
<1>1. n \in Nat /\ i + 1 \in 1..n /\ b \in Seq(Nat) /\ (i + 1) - 1 = i
  OBVIOUS
<1>2. /\ ends \in [0..n -> Nat]
      /\ \A k \in 1..n : ends[k] = ends[k - 1] + Len(blobs[k])
  BY DEF Ends
<1>3. s \in Seq(Nat) /\ Len(s) = ends[i] - base
  BY DEF Joins
<1>4. \A k \in 1..i :
        /\ ends[k - 1] >= base /\ ends[k - 1] <= ends[k] /\ ends[k] <= ends[i]
        /\ \A j \in 1..Len(blobs[k]) : s[ends[k - 1] - base + j] = blobs[k][j]
  BY DEF Joins
<1> HIDE DEF b, n
<1>5. ends[i + 1] = ends[i] + Len(b) /\ ends[i] \in Nat /\ ends[i + 1] \in Nat /\ Len(b) \in Nat
  <2>1. ends[i + 1] = ends[i] + Len(b)
    BY <1>1, <1>2 DEF b
  <2>2. i \in 0..n /\ i + 1 \in 0..n
    BY <1>1
  <2> QED  BY <1>1, <1>2, <2>1, <2>2
<1>6. /\ t \in Seq(Nat) /\ Len(t) = Len(s) + Len(b) /\ Len(s) \in Nat
      /\ \A j \in 1..Len(s) : t[j] = s[j]
      /\ \A j \in 1..Len(b) : t[Len(s) + j] = b[j]
  BY <1>1, <1>3, Concatenation
<1> HIDE DEF t
<1>7. Len(t) = ends[i + 1] - base /\ ends[i] >= base
  <2>1. Len(t) \in Nat
    BY <1>6
  <2> DEFINE e == ends[i]
             l == Len(s)
             m == Len(b)
             k == Len(t)
  <2>2. e \in Nat /\ base \in Nat /\ l \in Nat /\ m \in Nat /\ k \in Nat /\ l = e - base /\ k = l + m
    BY <1>3, <1>5, <1>6, <2>1
  <2> HIDE DEF e, l, m, k
  <2>3. e >= base /\ k = e + m - base
    BY ONLY <2>2, Grows
  <2> QED  BY <1>5, <2>3 DEF e, m, k
<1>8. ASSUME NEW k \in 1..(i + 1)
      PROVE  /\ ends[k - 1] >= base /\ ends[k - 1] <= ends[k] /\ ends[k] <= ends[i + 1]
             /\ \A j \in 1..Len(blobs[k]) : t[ends[k - 1] - base + j] = blobs[k][j]
  <2>1. CASE k = i + 1
    <3>1. \A j \in 1..Len(b) : t[ends[i] - base + j] = b[j]
      BY <1>3, <1>6
    <3>2. ends[i] <= ends[i + 1]
      BY <1>5
    <3>3. k - 1 = i /\ blobs[k] = b
      BY <1>1, <2>1 DEF b
    <3>4. ends[k - 1] = ends[i] /\ ends[k] = ends[i + 1]
      BY <2>1, <3>3
    <3> QED  BY <1>5, <1>7, <3>1, <3>2, <3>3, <3>4
  <2>2. CASE k # i + 1
    <3>1. k \in 1..i /\ k \in 1..n /\ k - 1 \in 0..n /\ k \in 0..n
      BY <1>1, <2>2
    <3>2. ends[k - 1] >= base /\ ends[k - 1] <= ends[k] /\ ends[k] <= ends[i]
      BY <1>4, <3>1
    <3>3. \A j \in 1..Len(blobs[k]) : s[ends[k - 1] - base + j] = blobs[k][j]
      BY <1>4, <3>1
    <3>4. ends[k - 1] \in Nat /\ ends[k] \in Nat /\ ends[k] = ends[k - 1] + Len(blobs[k])
      BY <1>2, <3>1
    <3>5. blobs[k] \in Seq(Nat)
      BY <3>1 DEF n
    <3>6. Len(blobs[k]) \in Nat
      BY <3>5
    <3>7. \A j \in 1..Len(blobs[k]) : ends[k - 1] - base + j \in 1..Len(s)
      <4> DEFINE e == ends[k - 1]
                 f == ends[k]
                 l == Len(blobs[k])
                 top == ends[i]
      <4>1. e \in Nat /\ f \in Nat /\ l \in Nat /\ f = e + l /\ e >= base /\ f <= top /\ top \in Nat
        BY <1>5, <3>2, <3>4, <3>6
      <4>2. Len(s) = top - base
        BY <1>3
      <4> HIDE DEF e, f, l, top
      <4>3. \A j \in 1..l : e - base + j \in 1..Len(s)
        BY <4>1, <4>2
      <4> QED  BY <4>3 DEF e, l
    <3>8. \A j \in 1..Len(blobs[k]) : t[ends[k - 1] - base + j] = blobs[k][j]
      BY <1>6, <3>3, <3>7
    <3>9. ends[k] <= ends[i + 1]
      <4> DEFINE f == ends[k]
                 top == ends[i]
                 l == Len(b)
                 new == ends[i + 1]
      <4>1. f \in Nat /\ top \in Nat /\ l \in Nat /\ f <= top /\ new = top + l
        BY <1>5, <3>2, <3>4
      <4> HIDE DEF f, top, l, new
      <4>2. f <= new
        BY <4>1
      <4> QED  BY <4>2 DEF f, new
    <3> QED  BY <3>2, <3>8, <3>9
  <2> QED  BY <2>1, <2>2
<1>9. Joins(t, blobs, ends, base, i + 1)
  BY <1>6, <1>7, <1>8 DEF Joins
<1> QED  BY <1>9 DEF t, b

LEMMA FlattenJoins ==
  ASSUME NEW blobs \in Seq(Seq(Nat)), Len(blobs) > 0, NEW base \in Nat,
         NEW ends, Ends(ends, blobs, base)
  PROVE  Joins(FlattenSeq(blobs), blobs, ends, base, Len(blobs))
<1> DEFINE n == Len(blobs)
<1>1. n \in Nat /\ n > 0 /\ \A i \in 1..n : blobs[i] \in Seq(Nat) /\ Len(blobs[i]) \in Nat
  OBVIOUS
<1>2. PICK g \in [1..Len(blobs) -> Seq(Nat)] :
        /\ g = [i \in 1..Len(blobs) |-> IF i = 1 THEN blobs[i] ELSE g[i - 1] \o blobs[i]]
        /\ FlattenSeq(blobs) = g[Len(blobs)]
  BY FlattenSeqDef
<1>3. \A i \in 1..n : g[i] = IF i = 1 THEN blobs[i] ELSE g[i - 1] \o blobs[i]
  BY <1>2
<1>4. FlattenSeq(blobs) = g[n]
  BY <1>2
<1>5. /\ ends \in [0..n -> Nat] /\ ends[0] = base
      /\ \A i \in 1..n : ends[i] = ends[i - 1] + Len(blobs[i])
  BY DEF Ends
<1> HIDE DEF n
<1> DEFINE T == {i \in Nat : (i > 0 /\ i <= n) => Joins(g[i], blobs, ends, base, i)}
<1>6. 0 \in T
  OBVIOUS
<1>7. ASSUME NEW i \in Nat, i \in T PROVE i + 1 \in T
  <2> SUFFICES ASSUME i + 1 <= n PROVE Joins(g[i + 1], blobs, ends, base, i + 1)
    OBVIOUS
  <2>1. i + 1 \in 1..n
    BY <1>1
  <2>2. CASE i = 0
    <3> DEFINE b == blobs[1]
    <3>1. 1 \in 1..n /\ 0 \in 0..n /\ 1 \in 0..n /\ 1 - 1 = 0
      BY <1>1
    <3>2. g[1] = b /\ b \in Seq(Nat) /\ Len(b) \in Nat
      BY <1>1, <1>3, <3>1
    <3>3. ends[1] = base + Len(b) /\ ends[0] = base
      BY <1>5, <3>1
    <3> HIDE DEF b
    <3>4. \A j \in 1..Len(b) : b[ends[0] - base + j] = b[j]
      BY <3>2, <3>3
    <3>5. Len(b) = ends[1] - base /\ ends[0] <= ends[1] /\ ends[1] <= ends[1]
      BY <3>2, <3>3
    <3>6. Joins(b, blobs, ends, base, 1)
      <4> SUFFICES ASSUME NEW k \in 1..1
                   PROVE  /\ ends[k - 1] >= base /\ ends[k - 1] <= ends[k] /\ ends[k] <= ends[1]
                          /\ \A j \in 1..Len(blobs[k]) : b[ends[k - 1] - base + j] = blobs[k][j]
        BY <3>2, <3>5 DEF Joins
      <4>1. k = 1 /\ blobs[k] = b
        BY DEF b
      <4>2. ends[k - 1] = ends[0] /\ ends[k] = ends[1]
        BY <4>1
      <4>3. ends[0] >= base
        BY <3>3
      <4> QED  BY <3>4, <3>5, <4>1, <4>2, <4>3
    <3> QED  BY <2>2, <3>2, <3>6
  <2>3. CASE i # 0
    <3>1. i > 0 /\ i <= n /\ i + 1 # 1 /\ (i + 1) - 1 = i
      BY <1>1, <2>3
    <3>2. Joins(g[i], blobs, ends, base, i)
      BY <1>7, <3>1
    <3>3. g[i + 1] = g[i] \o blobs[i + 1]
      BY <1>3, <2>1, <3>1
    <3>4. i + 1 <= Len(blobs)
      BY DEF n
    <3> HIDE DEF T
    <3>5. Joins(g[i] \o blobs[i + 1], blobs, ends, base, i + 1)
      BY <3>1, <3>2, <3>4, JoinsNext
    <3> QED  BY <3>3, <3>5
  <2> QED  BY <2>2, <2>3
<1> HIDE DEF T
<1>8. n \in T
  BY <1>1, <1>6, <1>7, Induction
<1>9. Joins(g[n], blobs, ends, base, n)
  BY <1>1, <1>8 DEF T
<1> QED  BY <1>4, <1>9 DEF n

LEMMA StreamDef ==
  ASSUME NEW blobs \in Seq(Seq(Nat))
  PROVE  \E ends : /\ Ends(ends, blobs, 1 + Len(blobs))
                   /\ StreamOf(blobs) = <<Len(blobs)>> \o [i \in DOMAIN blobs |-> ends[i]]
                                          \o FlattenSeq(blobs)
<1> DEFINE N == Len(blobs)
           base == 1 + N
           Eq(g) == [i \in 0..N |-> IF i = 0 THEN 1 + N ELSE g[i - 1] + Len(blobs[i])]
           ends == CHOOSE g : g = Eq(g)
           V == Nat
           step == [i \in 1..N |-> [c \in V |-> c + Len(blobs[i])]]
<1>1. StreamOf(blobs) = <<N>> \o [i \in DOMAIN blobs |-> ends[i]] \o FlattenSeq(blobs)
  BY DEF StreamOf
<1>2. \A g : \A i \in 0..N : Eq(g)[i] = IF i = 0 THEN base ELSE g[i - 1] + Len(blobs[i])
  OBVIOUS
<1>3. \A g : Eq(g) = [i \in 0..N |-> Eq(g)[i]]
  OBVIOUS
<1>4. N \in Nat /\ \A i \in 1..N : Len(blobs[i]) \in Nat
  <2>1. N \in Nat /\ \A i \in 1..N : blobs[i] \in Seq(Nat)
    OBVIOUS
  <2> QED  BY <2>1
<1>5. base \in V /\ step \in [1..N -> [V -> V]]
  <2> HIDE DEF N
  <2> QED  BY <1>4
<1>6. \A i \in 1..N : \A c \in V : step[i][c] = c + Len(blobs[i])
  OBVIOUS
<1> HIDE DEF Eq, step, N, base
<1>7. PICK g : Recursive(g, V, base, N, step)
  BY <1>4, <1>5, RecursionExists
<1>8. /\ g \in [0..N -> V] /\ g[0] = base
      /\ \A i \in 1..N : g[i] = g[i - 1] + Len(blobs[i])
  <2>1. g \in [0..N -> V] /\ g[0] = base /\ \A i \in 1..N : g[i] = step[i][g[i - 1]]
    BY <1>7 DEF Recursive
  <2>2. \A i \in 1..N : i - 1 \in 0..N
    BY <1>4
  <2> QED  BY <1>6, <2>1, <2>2
<1>9. g = Eq(g)
  <2>1. ASSUME NEW i \in 0..N PROVE g[i] = Eq(g)[i]
    <3>1. CASE i = 0
      BY <1>2, <1>8, <3>1
    <3>2. CASE i # 0
      <4>1. i \in 1..N
        BY <1>4, <3>2
      <4> QED  BY <1>2, <1>8, <3>2, <4>1
    <3> QED  BY <3>1, <3>2
  <2>2. g = [i \in 0..N |-> g[i]]
    BY <1>8
  <2> QED  BY <1>3, <2>1, <2>2
<1>10. ends = Eq(ends)
  BY <1>9
<1> HIDE DEF ends
<1>11. \A i \in 0..N : ends[i] = IF i = 0 THEN base ELSE ends[i - 1] + Len(blobs[i])
  BY <1>2, <1>10
<1>12. ends[0] = base
  <2>1. 0 \in 0..N
    BY <1>4
  <2> QED  BY <1>11, <2>1
<1>13. \A i \in 1..N : ends[i] = ends[i - 1] + Len(blobs[i])
  <2>1. \A i \in 1..N : i \in 0..N /\ i # 0
    BY <1>4
  <2> QED  BY <1>11, <2>1
<1>14. \A i \in 0..N : ends[i] \in V
  <2>1. \A i \in 1..N : ends[i - 1] \in V => ends[i] \in V
    BY <1>4, <1>13
  <2> HIDE DEF V
  <2> QED  BY <1>4, <1>5, <1>12, <2>1, StepsStayIn
<1>15. ends \in [0..N -> Nat]
  <2>1. ends = [i \in 0..N |-> ends[i]]
    BY <1>3, <1>10
  <2> QED  BY <1>14, <2>1
<1>16. Ends(ends, blobs, base)
  BY <1>12, <1>13, <1>15 DEF Ends, N
<1> QED  BY <1>1, <1>16 DEF N, base

\* A stream has the number of its blobs, where each ends, and the blobs.
IsStream(s, blobs, ends) ==
  /\ s \in Seq(Nat) /\ s[1] = Len(blobs) /\ Len(s) = ends[Len(blobs)]
  /\ ends \in [0..Len(blobs) -> Nat] /\ ends[0] = 1 + Len(blobs)
  /\ \A i \in 1..Len(blobs) :
       /\ s[i + 1] = ends[i] /\ ends[i - 1] >= 1 + Len(blobs)
       /\ ends[i] = ends[i - 1] + Len(blobs[i]) /\ ends[i] <= Len(s)
       /\ Begins(s, ends[i - 1] + 1, blobs[i])

LEMMA StreamIs ==
  ASSUME NEW blobs \in Seq(Seq(Nat)), Len(blobs) > 0
  PROVE  \E ends : IsStream(StreamOf(blobs), blobs, ends)
<1> DEFINE n == Len(blobs)
           base == 1 + n
           flat == FlattenSeq(blobs)
           s == StreamOf(blobs)
           one == <<n>>
<1>1. PICK ends : /\ Ends(ends, blobs, 1 + Len(blobs))
                  /\ StreamOf(blobs) = <<Len(blobs)>> \o [i \in DOMAIN blobs |-> ends[i]]
                                         \o FlattenSeq(blobs)
  BY StreamDef
<1> DEFINE tab == [i \in DOMAIN blobs |-> ends[i]]
           front == one \o tab
<1>2. n \in Nat /\ n > 0 /\ DOMAIN blobs = 1..n /\ base \in Nat /\ \A i \in 1..n : blobs[i] \in Seq(Nat)
  OBVIOUS
<1>3. s = front \o flat
  BY <1>1
<1>4. /\ ends \in [0..n -> Nat] /\ ends[0] = base
      /\ \A i \in 1..n : ends[i] = ends[i - 1] + Len(blobs[i])
  BY <1>1 DEF Ends
<1>5. Joins(flat, blobs, ends, base, n)
  <2> HIDE DEF flat
  <2>1. base \in Nat /\ Ends(ends, blobs, base)
    BY <1>1, <1>2
  <2> HIDE DEF base
  <2> QED  BY <2>1, FlattenJoins DEF flat
<1>6. one \in Seq(Nat) /\ Len(one) = 1 /\ one[1] = n
  BY <1>2
<1>7. tab \in Seq(Nat) /\ Len(tab) = n /\ \A i \in 1..n : tab[i] = ends[i]
  <2>1. tab = [i \in 1..n |-> ends[i]]
    BY <1>2
  <2> HIDE DEF tab, n
  <2>2. tab \in [1..n -> Nat]
    <3>1. \A i \in 1..n : i \in 0..n
      BY <1>2
    <3> QED  BY <1>4, <2>1, <3>1
  <2>3. tab \in Seq(Nat) /\ Len(tab) = n
    BY <1>2, <2>2
  <2> QED  BY <2>1, <2>3
<1> HIDE DEF s, flat, one, tab
<1>8. /\ front \in Seq(Nat) /\ Len(front) = base /\ front[1] = n
      /\ \A i \in 1..n : front[i + 1] = ends[i]
  <2> HIDE DEF front, n
  <2>1. /\ front \in Seq(Nat) /\ Len(front) = Len(one) + Len(tab)
        /\ \A j \in 1..Len(one) : front[j] = one[j]
        /\ \A j \in 1..Len(tab) : front[Len(one) + j] = tab[j]
    BY <1>6, <1>7, Concatenation DEF front
  <2>2. 1 \in 1..Len(one) /\ Len(front) = base
    BY <1>2, <1>6, <1>7, <2>1 DEF base
  <2>3. \A i \in 1..n : 1 + i = i + 1
    BY <1>2
  <2> QED  BY <1>6, <1>7, <2>1, <2>2, <2>3
<1>9. flat \in Seq(Nat) /\ Len(flat) = ends[n] - base /\ Len(flat) \in Nat
  <2>1. flat \in Seq(Nat) /\ Len(flat) = ends[n] - base
    BY <1>5 DEF Joins
  <2> QED  BY <2>1
<1> HIDE DEF front
<1>10. /\ s \in Seq(Nat) /\ Len(s) = base + Len(flat)
       /\ \A j \in 1..base : s[j] = front[j]
       /\ \A j \in 1..Len(flat) : s[base + j] = flat[j]
  <2>1. /\ s \in Seq(Nat) /\ Len(s) = Len(front) + Len(flat)
        /\ \A j \in 1..Len(front) : s[j] = front[j]
        /\ \A j \in 1..Len(flat) : s[Len(front) + j] = flat[j]
    BY <1>3, <1>8, <1>9, Concatenation
  <2> HIDE DEF base
  <2> QED  BY <1>8, <2>1
<1>11. Len(s) = ends[n] /\ ends[n] \in Nat
  <2> HIDE DEF n, base
  <2>0. n \in 0..n
    BY <1>2
  <2>1. ends[n] \in Nat
    BY <1>4, <2>0
  <2> QED  BY <1>2, <1>9, <1>10, <2>1
<1>12. s[1] = n /\ \A i \in 1..n : s[i + 1] = ends[i]
  <2>1. 1 \in 1..base /\ \A i \in 1..n : i + 1 \in 1..base
    BY <1>2
  <2> HIDE DEF n, base
  <2> QED  BY <1>8, <1>10, <2>1
<1>13. ASSUME NEW i \in 1..n
       PROVE  /\ ends[i - 1] >= base /\ ends[i] <= Len(s)
              /\ Begins(s, ends[i - 1] + 1, blobs[i])
  <2> DEFINE e == ends[i - 1]
             f == ends[i]
             b == blobs[i]
             l == Len(b)
             top == ends[n]
  <2>1. /\ e >= base /\ e <= f /\ f <= top
        /\ \A j \in 1..l : flat[e - base + j] = b[j]
    BY <1>5 DEF Joins
  <2>2. e \in Nat /\ f \in Nat /\ l \in Nat /\ f = e + l
    <3>1. i - 1 \in 0..n /\ i \in 0..n
      BY <1>2
    <3>2. b \in Seq(Nat)
      BY <1>2
    <3>3. l \in Nat
      <4> HIDE DEF b
      <4> QED  BY <3>2
    <3> HIDE DEF n, b
    <3>4. f = e + Len(blobs[i])
      BY <1>4
    <3> QED  BY <1>4, <3>1, <3>3, <3>4 DEF b
  <2>3. Len(flat) = top - base /\ top \in Nat /\ Len(s) = top
    BY <1>9, <1>11
  <2> HIDE DEF e, f, b, l, top, n, base
  <2>4. \A j \in 1..l : e - base + j \in 1..Len(flat) /\ base + (e - base + j) = e + 1 + j - 1
    <3>1. base \in Nat /\ e \in Nat /\ l \in Nat
      BY <1>2, <2>2
    <3>2. Len(flat) = top - base
      BY <2>3
    <3>3. e >= base /\ e + l <= top /\ top \in Nat
      BY <2>1, <2>2, <2>3
    <3> QED  BY <3>1, <3>2, <3>3
  <2>5. \A j \in 1..l : s[e + 1 + j - 1] = b[j]
    BY <1>10, <2>1, <2>4
  <2>6. Begins(s, e + 1, b)
    BY <2>5 DEF Begins, l
  <2> QED  BY <2>1, <2>3, <2>6 DEF e, f, b
<1> HIDE DEF n, base
<1>14. IsStream(s, blobs, ends)
  BY <1>4, <1>10, <1>11, <1>12, <1>13 DEF IsStream, n, base
<1> QED  BY <1>14 DEF s

LEMMA StreamSlices ==
  ASSUME NEW blobs \in Seq(Seq(Nat)), NEW index \in Int
  PROVE  IF index \in 0..(Len(blobs) - 1)
         THEN StreamSlice(StreamOf(blobs), index).ok
              /\ StreamSlice(StreamOf(blobs), index).val = blobs[index + 1]
         ELSE ~StreamSlice(StreamOf(blobs), index).ok
<1> DEFINE n == Len(blobs)
           s == StreamOf(blobs)
           x == StreamSlice(s, index)
           bad == \/ Len(s) < 1
                  \/ index < 0 \/ index >= s[1] \/ index + 2 > Len(s)
                  \/ s[index + 2] > Len(s)
           end == s[index + 2]
           start == IF index > 0 THEN s[index + 1] ELSE s[1] + 1
<1>1. n \in Nat /\ \A i \in 1..n : blobs[i] \in Seq(Nat)
  OBVIOUS
<1>2. x = IF bad THEN [ok |-> FALSE]
          ELSE IF start > end THEN [ok |-> FALSE]
               ELSE [ok |-> TRUE, val |-> SubSeq(s, start + 1, end)]
  BY DEF StreamSlice
<1>3. s[1] = n
  <2>1. CASE n > 0
    <3>1. PICK ends : IsStream(s, blobs, ends)
      BY <2>1, StreamIs
    <3> QED  BY <3>1 DEF IsStream
  <2>2. CASE n = 0
    <3>1. blobs = << >> /\ FlattenSeq(blobs) = << >> /\ DOMAIN blobs = {}
      <4>1. blobs = << >> /\ DOMAIN blobs = {}
        BY <2>2
      <4>2. FlattenSeq(blobs) = << >>
        BY <2>2, <4>1 DEF FlattenSeq
      <4> QED  BY <4>1, <4>2
    <3>2. PICK ends : s = <<n>> \o [i \in DOMAIN blobs |-> ends[i]] \o FlattenSeq(blobs)
      BY StreamDef
    <3> DEFINE one == <<n>>
               none == << >>
    <3>3. [i \in DOMAIN blobs |-> ends[i]] = none
      BY <3>1
    <3>4. s = (one \o none) \o none
      BY <3>1, <3>2, <3>3
    <3>5. one \in Seq(Nat) /\ none \in Seq(Nat) /\ Len(one) = 1 /\ one[1] = n
      BY <1>1
    <3> HIDE DEF one, none, s
    <3> DEFINE t == one \o none
    <3>6. /\ t \in Seq(Nat) /\ Len(t) = Len(one) + Len(none) /\ Len(none) \in Nat
          /\ \A j \in 1..Len(one) : t[j] = one[j]
      BY <3>5, Concatenation
    <3> HIDE DEF t
    <3>7. \A j \in 1..Len(t) : (t \o none)[j] = t[j]
      BY <3>5, <3>6, Concatenation
    <3>8. 1 \in 1..Len(one) /\ 1 \in 1..Len(t)
      BY <3>5, <3>6
    <3> QED  BY <3>4, <3>5, <3>6, <3>7, <3>8 DEF t
  <2> QED  BY <1>1, <2>1, <2>2
<1>4. CASE index \notin 0..(n - 1)
  <2>1. index < 0 \/ index >= n
    BY <1>1, <1>4
  <2>2. bad
    BY <1>3, <2>1
  <2> HIDE DEF bad, x
  <2>3. ~x.ok
    BY <1>2, <2>2
  <2> QED  BY <1>4, <2>3 DEF x
<1>5. CASE index \in 0..(n - 1)
  <2>1. n > 0
    BY <1>1, <1>5
  <2>2. PICK ends : IsStream(s, blobs, ends)
    BY <2>1, StreamIs
  <2> DEFINE i == index + 1
             b == blobs[i]
  <2>3. i \in 1..n /\ i - 1 = index /\ i + 1 = index + 2 /\ i \in 0..n /\ index \in 0..n
    BY <1>1, <1>5
  <2>4. /\ s \in Seq(Nat) /\ ends \in [0..n -> Nat] /\ ends[0] = 1 + n
        /\ \A k \in 1..n : s[k + 1] = ends[k]
    BY <2>2 DEF IsStream
  <2>5. /\ ends[i - 1] >= 1 + n /\ ends[i] = ends[i - 1] + Len(b) /\ ends[i] <= Len(s)
        /\ Begins(s, ends[i - 1] + 1, b)
    BY <2>2, <2>3 DEF IsStream
  <2>6. b \in Seq(Nat)
    BY <1>1, <2>3
  <2> HIDE DEF b
  <2>7. Len(b) \in Nat /\ Len(s) \in Nat /\ ends[i] \in Nat /\ ends[i - 1] \in Nat
    <3>1. Len(b) \in Nat
      BY <2>6
    <3>2. Len(s) \in Nat
      <4> HIDE DEF s
      <4> QED  BY <2>4
    <3> HIDE DEF n, i, s
    <3> QED  BY <2>3, <2>4, <3>1, <3>2
  <2> HIDE DEF n, s, i
  <2>8. end = ends[i]
    BY <2>3, <2>4
  <2>9. start = ends[i - 1]
    <3>1. CASE index > 0
      <4>1. index \in 1..n
        BY <1>1, <2>3, <3>1
      <4> QED  BY <2>3, <2>4, <3>1, <4>1
    <3>2. CASE ~(index > 0)
      <4>1. index = 0 /\ i - 1 = 0
        BY <1>5, <1>1, <2>3, <3>2
      <4> QED  BY <1>1, <1>3, <2>4, <3>2, <4>1
    <3> QED  BY <3>1, <3>2
  <2> HIDE DEF end, start
  <2>10. ~bad
    <3>1. ~(Len(s) < 1) /\ ~(index < 0) /\ ~(index >= n) /\ ~(index + 2 > Len(s)) /\ ~(end > Len(s))
      BY <1>1, <1>5, <2>5, <2>7, <2>8
    <3> QED  BY <1>3, <3>1 DEF end
  <2>11. ~(start > end)
    BY <2>5, <2>7, <2>8, <2>9
  <2> DEFINE p == start + 1
  <2>12. p \in Nat \ {0} /\ end = p + Len(b) - 1 /\ end <= Len(s) /\ Begins(s, p, b)
    BY <2>5, <2>7, <2>8, <2>9
  <2> HIDE DEF p, bad, x
  <2>13. SubSeq(s, p, end) = b
    BY <2>4, <2>6, <2>12, SliceIs
  <2>14. x.ok /\ x.val = b
    <3>1. x = [ok |-> TRUE, val |-> SubSeq(s, p, end)]
      BY <1>2, <2>10, <2>11 DEF p
    <3> QED  BY <2>13, <3>1
  <2> QED  BY <1>5, <2>14 DEF x, b, i, n, s
<1> QED  BY <1>4, <1>5

-----------------------------------------------------------------------------
(* The inductive invariant *)

AllValues == {NULL} \cup (UNION {Values[t] : t \in Types})
Rows == [cols : WriterShapes, vals : Seq(AllValues), blob : Seq(Nat)]

Small(data) == Len(data) <= GrowthSize

\* A row written is laid out as the format has it while it is small.  A larger one
\* may have outgrown the block that the pointer to its bits is to.
RowIs(row) ==
  /\ Len(row.vals) = Len(row.cols)
  /\ \A j \in 1..Len(row.cols) : Fits(row.cols[j], row.vals[j])
  /\ Small(row.blob) => Laid(row.blob, row.cols, row.vals)

\* So is the row being written, as far as it goes.
OutputIs(w) ==
  /\ w = [cols |-> w.cols, vals |-> w.vals, o |-> w.o]
  /\ w.cols \in WriterShapes /\ w.vals \in Seq(AllValues) /\ w.o \in Outputs
  /\ Len(w.vals) <= Len(w.cols)
  /\ \A j \in 1..Len(w.vals) : Fits(w.cols[j], w.vals[j])
  /\ w.o.bits.at = Len(w.cols) + 1
  /\ Small(w.o.buf.data) => Laid(w.o.buf.data, w.cols, w.vals)

RefAt(sh, j) == sh[j].type \in RefTypes
Held(sh, fields) == Cardinality({j \in DOMAIN fields : RefAt(sh, j) /\ fields[j] # NULL})

\* The cursor c has n references, and none when it has no row.
CursorIs(sh, c, n, phase) ==
  /\ c = [has_row |-> c.has_row, fields |-> c.fields] /\ c.has_row \in BOOLEAN
  /\ c.fields = [j \in DOMAIN sh |-> c.fields[j]]
  /\ n = Held(sh, c.fields)
  /\ (~c.has_row /\ phase # "fields") => n = 0

\* A reader of shape sh can make do with the columns.
Suits(sh, cols) ==
  \A j \in DOMAIN sh :
    IF j <= Len(cols)
    THEN cols[j].type = sh[j].type /\ (sh[j].notnull => cols[j].notnull)
    ELSE ~sh[j].notnull

FieldOf(row, j) == IF j <= Len(row.vals) THEN row.vals[j] ELSE NULL

\* The reader i is where field i.i of the row is.
IsAt(row, i) ==
  /\ i.nulls = NullablesBefore(row.cols, i.i) /\ i.bools = BoolsBefore(row.cols, i.i)
  /\ \E at : FieldsLaid(row.blob, row.cols, row.vals, at) /\ i.at = at[i.i - 1] + 1

\* The reader i follows the row and has its fields up to i.i in the cursor c.
Follows(sh, row, c, i) ==
  /\ Suits(sh, row.cols) /\ IsHeader(i.head, row.cols, row.blob)
  /\ \A j \in 1..(i.i - 1) : c.fields[j] = FieldOf(row, j)
  /\ i.i <= Len(row.cols) => IsAt(row, i)

\* What there is to say of a reader i between two fields.
ReadingIs(sh, rw, c, i) ==
  /\ i = [phase |-> "fields", row |-> i.row, whole |-> i.whole, bytes |-> i.bytes,
          head |-> i.head, i |-> i.i, at |-> i.at, nulls |-> i.nulls, bools |-> i.bools]
  /\ ~c.has_row /\ \A j \in DOMAIN sh : (j >= i.i /\ RefAt(sh, j)) => c.fields[j] = NULL
  /\ i.row \in DOMAIN rw /\ Prefix(i.bytes, rw[i.row].blob)
  /\ i.whole => Len(i.bytes) = Len(rw[i.row].blob)
  /\ i.i \in 1..(Len(sh) + 1) /\ i.at \in 1..(Len(i.bytes) + 1)
  /\ Small(rw[i.row].blob) => Follows(sh, rw[i.row], c, i)

\* What there is to say of a reader i that has ended.
ReadIs(sh, rw, c, i) ==
  /\ i.phase = "ok" =>
       /\ i.row \in DOMAIN rw
       /\ Small(rw[i.row].blob) =>
            /\ Suits(sh, rw[i.row].cols)
            /\ c.fields = [j \in DOMAIN sh |-> FieldOf(rw[i.row], j)]
  /\ (i.phase = "error" /\ i.whole) =>
       i.row \in DOMAIN rw /\ (Small(rw[i.row].blob) => ~Suits(sh, rw[i.row].cols))

RowsInv == rows \in Seq(Rows) /\ Len(rows) <= MaxRows /\ \A r \in DOMAIN rows : RowIs(rows[r])
WriteInv == Writing => OutputIs(out) /\ in.phase = "none" /\ Len(rows) < MaxRows
CursorInv == CursorIs(shape, cursor, refs, in.phase)
ReadInv ==
  /\ in.phase = "fields" => ReadingIs(shape, rows, cursor, in)
  /\ in.phase \in {"ok", "error"} => ReadIs(shape, rows, cursor, in)

IInv ==
  /\ shape \in ReaderShapes /\ in.phase \in {"none", "fields", "ok", "error"}
  /\ RowsInv /\ WriteInv /\ CursorInv /\ ReadInv

LEMMA ShapeFacts ==
  /\ \A sh \in ReaderShapes : sh \in Seq(Column) /\ Len(sh) \in Nat /\ DOMAIN sh = 1..Len(sh)
  /\ \A cols \in WriterShapes : cols \in Seq(Column) /\ Len(cols) \in Nat
<1>1. ReaderShapes \cup WriterShapes \subseteq Seq(Column)
  BY RowBlobAssumption
<1>2. \A sh \in Seq(Column) : Len(sh) \in Nat /\ DOMAIN sh = 1..Len(sh)
  OBVIOUS
<1> QED  BY <1>1, <1>2

\* Taking the next value of the row
LEMMA WriteNext ==
  ASSUME NEW w, OutputIs(w), Len(w.vals) < Len(w.cols), NEW v,
         Fits(w.cols[Len(w.vals) + 1], v)
  PROVE  OutputIs([cols |-> w.cols, vals |-> Append(w.vals, v),
                   o |-> PutField(w.o, w.cols, Len(w.vals) + 1, v)])
<1> DEFINE cols == w.cols
           vals == w.vals
           o == w.o
           i == Len(vals) + 1
           more == Append(vals, v)
           p == PutField(o, cols, i, v)
           cells == FieldCells(cols[i], v)
           d == o.buf.data
           e == p.buf.data
           K == Marks(cols, i, v)
<1>1. /\ cols \in WriterShapes /\ vals \in Seq(AllValues) /\ o \in Outputs
      /\ Len(vals) <= Len(cols) /\ o.bits.at = Len(cols) + 1
      /\ \A j \in 1..Len(vals) : Fits(cols[j], vals[j])
      /\ Small(d) => Laid(d, cols, vals)
      /\ w = [cols |-> cols, vals |-> vals, o |-> o]
  BY DEF OutputIs
<1>2. cols \in Seq(Column) /\ Len(cols) \in Nat
  BY <1>1, ShapeFacts
<1> HIDE DEF p, o, more
<1>4. Fits(cols[i], v) /\ Len(vals) \in Nat
  BY <1>1
<1>5. v \in AllValues
  <2>1. i \in 1..Len(cols)
    BY <1>2, <1>4
  <2>2. cols[i].type \in Types
    BY <1>2, <2>1, ColumnFacts
  <2> DEFINE t == cols[i].type
  <2>3. v \in Values[t] \/ v = NULL
    BY <1>4 DEF Fits
  <2> HIDE DEF t, cols, vals
  <2> QED  BY <2>2, <2>3 DEF t, AllValues
<1> HIDE DEF cols, vals
<1>6. /\ more \in Seq(AllValues) /\ Len(vals) \in Nat /\ Len(more) = Len(vals) + 1
      /\ \A j \in 1..Len(vals) : more[j] = vals[j]
      /\ more[Len(vals) + 1] = v
  <2> DEFINE S == AllValues
  <2>1. vals \in Seq(S) /\ v \in S
    BY <1>1, <1>5
  <2> HIDE DEF S
  <2>2. /\ more \in Seq(S) /\ Len(vals) \in Nat /\ Len(more) = Len(vals) + 1
        /\ \A j \in 1..Len(vals) : more[j] = vals[j]
        /\ more[Len(vals) + 1] = v
    BY <2>1, Appended DEF more
  <2> QED  BY <2>2 DEF S
<1>7. Longer(vals, more, v)
  BY <1>6 DEF Longer
<1>8. i \in 1..Len(cols)
  <2>1. Len(vals) < Len(cols)
    BY DEF vals, cols
  <2> QED  BY <1>2, <1>6, <2>1
<1> HIDE DEF i
<1>9. Puts(o, p, K, cells)
  BY <1>1, <1>2, <1>4, <1>8, PutFieldFacts DEF p
<1>10. /\ p \in Outputs /\ p.bits = o.bits /\ Len(e) = Len(d) + Len(cells)
       /\ Small(e) => Written(d, e, Len(cols) + 1, K, cells)
  BY <1>1, <1>9 DEF Puts, Small
<1>11. Small(e) => Laid(e, cols, more)
  <2> SUFFICES ASSUME Small(e) PROVE Laid(e, cols, more)
    OBVIOUS
  <2>1. cols[i] \in Column
    BY <1>2, <1>8, ColumnFacts
  <2>2. Len(cells) \in Nat
    BY <1>4, <2>1, FieldCellsFacts
  <2>3. Len(d) \in Nat
    BY <1>1, OutputFacts
  <2>4. GrowthSize \in Nat
    BY NewBufferFacts
  <2> HIDE DEF d, e, cells, K
  <2>5. Small(d)
    BY <1>10, <2>2, <2>3, <2>4 DEF Small
  <2>6. Laid(d, cols, vals) /\ Written(d, e, Len(cols) + 1, K, cells)
    BY <1>1, <1>10, <2>5 DEF d
  <2>7. i = Len(vals) + 1
    BY DEF i
  <2> QED  BY <1>2, <1>4, <1>7, <1>8, <2>6, <2>7, LaidNext DEF K, cells
<1>12. \A j \in 1..Len(more) : Fits(cols[j], more[j])
  <2> SUFFICES ASSUME NEW j \in 1..Len(more) PROVE Fits(cols[j], more[j])
    OBVIOUS
  <2>1. CASE j = i
    BY <1>4, <1>6, <2>1 DEF i
  <2>2. CASE j # i
    <3>1. j \in 1..Len(vals)
      BY <1>6, <2>2 DEF i
    <3> QED  BY <1>1, <1>6, <3>1
  <2> QED  BY <2>1, <2>2
<1>13. Len(more) <= Len(cols)
  BY <1>2, <1>6, <1>8 DEF i
<1>15. p.bits.at = Len(cols) + 1
  BY <1>1, <1>10
<1> HIDE DEF e
<1>16. OutputIs([cols |-> cols, vals |-> more, o |-> p])
  BY <1>1, <1>6, <1>10, <1>11, <1>12, <1>13, <1>15 DEF OutputIs, e
<1> QED  BY <1>16 DEF cols, more, p, vals, o, i

-----------------------------------------------------------------------------
(* The references of a cursor *)

LEMMA HeldFacts ==
  ASSUME NEW sh \in ReaderShapes, NEW f, f = [j \in DOMAIN sh |-> f[j]]
  PROVE  /\ Held(sh, f) \in Nat
         /\ (\A j \in DOMAIN sh : RefAt(sh, j) => f[j] = NULL) => Held(sh, f) = 0
         /\ \A k \in DOMAIN sh : \A v : (RefAt(sh, k) => f[k] = NULL) =>
              Held(sh, [f EXCEPT ![k] = v]) = Held(sh, f) + (IF RefAt(sh, k) /\ v # NULL THEN 1 ELSE 0)
<1> DEFINE S == {j \in DOMAIN f : RefAt(sh, j) /\ f[j] # NULL}
<1>1. DOMAIN sh = 1..Len(sh) /\ Len(sh) \in Nat /\ DOMAIN f = DOMAIN sh
  BY ShapeFacts
<1>2. IsFiniteSet(S)
  <2>1. IsFiniteSet(1..Len(sh))
    <3> DEFINE l == Len(sh)
    <3>1. l \in Int /\ 1 \in Int
      BY <1>1
    <3> HIDE DEF l
    <3>2. IsFiniteSet(1..l)
      BY <3>1, FS_Interval
    <3> QED  BY <3>2 DEF l
  <2>2. S \subseteq 1..Len(sh)
    BY <1>1
  <2> HIDE DEF S
  <2> QED  BY <2>1, <2>2, FS_Subset
<1>3. Held(sh, f) = Cardinality(S)
  BY DEF Held
<1>4. Held(sh, f) \in Nat
  <2> HIDE DEF S
  <2> QED  BY <1>2, <1>3, FS_CardinalityType
<1>5. ASSUME \A j \in DOMAIN sh : RefAt(sh, j) => f[j] = NULL PROVE Held(sh, f) = 0
  <2>1. S = {}
    BY <1>1, <1>5
  <2> HIDE DEF S
  <2> QED  BY <1>3, <2>1, FS_EmptySet
<1>6. ASSUME NEW k \in DOMAIN sh, NEW v, RefAt(sh, k) => f[k] = NULL
      PROVE  Held(sh, [f EXCEPT ![k] = v]) = Held(sh, f) + (IF RefAt(sh, k) /\ v # NULL THEN 1 ELSE 0)
  <2> DEFINE g == [f EXCEPT ![k] = v]
             T == {j \in DOMAIN g : RefAt(sh, j) /\ g[j] # NULL}
  <2>1. Held(sh, g) = Cardinality(T)
    BY DEF Held
  <2>2. DOMAIN g = DOMAIN sh /\ \A j \in DOMAIN sh : g[j] = IF j = k THEN v ELSE f[j]
    BY <1>1
  <2> HIDE DEF g
  <2>3. CASE RefAt(sh, k) /\ v # NULL
    <3>1. T = S \cup {k} /\ k \notin S
      BY <1>1, <1>6, <2>2, <2>3
    <3> HIDE DEF S, T
    <3>2. Cardinality(S \cup {k}) = Cardinality(S) + 1
      BY <1>2, <3>1, FS_AddElement
    <3> QED  BY <1>3, <2>1, <2>3, <3>1, <3>2 DEF g
  <2>4. CASE ~(RefAt(sh, k) /\ v # NULL)
    <3>1. T = S
      BY <1>1, <1>6, <2>2, <2>4
    <3> HIDE DEF S, T
    <3> QED  BY <1>3, <1>4, <2>1, <2>4, <3>1 DEF g
  <2> QED  BY <2>3, <2>4
<1> QED  BY <1>4, <1>5, <1>6

LEMMA HeldTakes ==
  ASSUME NEW sh \in ReaderShapes, NEW f, f = [j \in DOMAIN sh |-> f[j]], NEW k \in DOMAIN sh,
         NEW v, RefAt(sh, k) => f[k] = NULL
  PROVE  Held(sh, [f EXCEPT ![k] = v]) = Held(sh, f) + (IF RefAt(sh, k) /\ v # NULL THEN 1 ELSE 0)
BY HeldFacts

LEMMA ClearedFacts ==
  ASSUME NEW c, NEW n, NEW phase, CursorIs(shape, c, n, phase), shape \in ReaderShapes
  PROVE  /\ n - RefsIn(c.fields) = 0
         /\ \A p : CursorIs(shape, Cleared(c), 0, p)
         /\ ~Cleared(c).has_row
         /\ \A j \in DOMAIN shape : RefAt(shape, j) => Cleared(c).fields[j] = NULL
<1> DEFINE f == c.fields
           x == Cleared(c)
           g == [j \in DOMAIN f |-> IF IsRef(j) THEN NULL ELSE f[j]]
<1>1. f = [j \in DOMAIN shape |-> f[j]] /\ n = Held(shape, f)
  BY DEF CursorIs
<1>2. \A j : IsRef(j) <=> RefAt(shape, j)
  BY DEF IsRef, RefAt
<1>3. RefsIn(f) = Held(shape, f)
  BY <1>2 DEF RefsIn, Held
<1>4. Held(shape, f) \in Nat
  <2> HIDE DEF f
  <2> QED  BY <1>1, HeldFacts
<1>5. x = [has_row |-> FALSE, fields |-> g]
  BY DEF Cleared
<1>6. DOMAIN f = DOMAIN shape
  <2> HIDE DEF f
  <2> QED  BY <1>1
<1>7. /\ g = [j \in DOMAIN shape |-> g[j]]
      /\ \A j \in DOMAIN shape : RefAt(shape, j) => g[j] = NULL
  <2> HIDE DEF f
  <2> QED  BY <1>2, <1>6
<1> HIDE DEF g, x, f
<1>8. Held(shape, g) = 0
  BY <1>7, HeldFacts
<1>9. x.has_row = FALSE /\ x.fields = g /\ x = [has_row |-> x.has_row, fields |-> x.fields]
  BY <1>5
<1>10. \A p : CursorIs(shape, x, 0, p)
  BY <1>7, <1>8, <1>9 DEF CursorIs
<1>11. n - RefsIn(f) = 0
  BY <1>1, <1>3, <1>4
<1> QED  BY <1>7, <1>9, <1>10, <1>11 DEF x, f

-----------------------------------------------------------------------------
(* Reading from its start *)

LEMMA RowFacts ==
  ASSUME RowsInv, NEW r \in DOMAIN rows
  PROVE  /\ RowIs(rows[r]) /\ rows[r] \in Rows /\ rows[r].cols \in WriterShapes
         /\ rows[r].cols \in Seq(Column) /\ Len(rows[r].cols) \in Nat
         /\ rows[r].blob \in Seq(Nat) /\ Len(rows[r].blob) \in Nat
<1>1. rows \in Seq(Rows) /\ RowIs(rows[r])
  BY DEF RowsInv
<1>2. rows[r] \in Rows
  <2> DEFINE S == Rows
  <2>1. rows \in Seq(S)
    BY <1>1
  <2> HIDE DEF S
  <2>2. rows[r] \in S
    BY <2>1
  <2> QED  BY <2>2 DEF S
<1>3. rows[r].cols \in WriterShapes /\ rows[r].blob \in Seq(Nat)
  BY <1>2 DEF Rows
<1>4. Len(rows[r].blob) \in Nat
  BY <1>3
<1> QED  BY <1>1, <1>2, <1>3, <1>4, ShapeFacts

\* The reader of the header h is where the first field is.
LEMMA FollowsFirst ==
  ASSUME NEW row, row.cols \in Seq(Column), Laid(row.blob, row.cols, row.vals),
         NEW sh, Suits(sh, row.cols), NEW c,
         NEW i, i.i = 1, i.nulls = 0, i.bools = 0, i.at = i.head.next,
         IsHeader(i.head, row.cols, row.blob)
  PROVE  Follows(sh, row, c, i)
<1>1. PICK at : FieldsLaid(row.blob, row.cols, row.vals, at)
  BY DEF Laid
<1>2. i.at = at[0] + 1
  BY <1>1 DEF FieldsLaid, IsHeader
<1>3. NullablesBefore(row.cols, 1) = 0 /\ BoolsBefore(row.cols, 1) = 0
  <2>1. 1 \in Nat \ {0}
    OBVIOUS
  <2> QED  BY <2>1, CountsBefore
<1>4. i.i - 1 = 0
  OBVIOUS
<1>5. IsAt(row, i)
  BY <1>1, <1>2, <1>3, <1>4 DEF IsAt
<1>6. \A j \in 1..(i.i - 1) : FALSE
  OBVIOUS
<1> QED  BY <1>5, <1>6 DEF Follows

LEMMA ReadStarts ==
  ASSUME shape \in ReaderShapes, RowsInv, CursorInv, shape' = shape, rows' = rows,
         NEW r \in DOMAIN rows, NEW s, Prefix(s, rows[r].blob),
         NEW whole, whole => Len(s) = Len(rows[r].blob), Read(s, r, whole)
  PROVE  in'.phase \in {"fields", "error"} /\ CursorInv' /\ ReadInv'
<1> DEFINE row == rows[r]
           d == row.blob
           cols == row.cols
           h == ReadHeader(s)
           good == h.ok /\ Accepts(h.codes)
           i1 == [phase |-> "fields", row |-> r, whole |-> whole, bytes |-> s,
                  head |-> h, i |-> 1, at |-> h.next, nulls |-> 0, bools |-> 0]
           i2 == [phase |-> "error", row |-> r, whole |-> whole]
           c == Cleared(cursor)
<1>1. /\ RowIs(row) /\ cols \in Seq(Column) /\ Len(cols) \in Nat
      /\ d \in Seq(Nat) /\ Len(d) \in Nat
  BY RowFacts
<1>2. cursor' = c /\ refs' = refs - RefsIn(cursor.fields) /\ in' = IF good THEN i1 ELSE i2
  BY DEF Read, ClearCursor
<1>3. /\ refs - RefsIn(cursor.fields) = 0 /\ ~c.has_row
      /\ \A p : CursorIs(shape, c, 0, p)
      /\ \A j \in DOMAIN shape : RefAt(shape, j) => c.fields[j] = NULL
  BY ClearedFacts DEF CursorInv
<1>4. CursorInv'
  BY <1>2, <1>3 DEF CursorInv
<1>5. shape \in Seq(Column) /\ Len(shape) \in Nat
  BY ShapeFacts
<1>6. s \in Seq(Nat) /\ Len(s) \in Nat
  BY DEF Prefix
<1>7. Small(d) => Laid(d, cols, row.vals)
  BY <1>1 DEF RowIs
<1>8. Small(d) => /\ h.ok <=> Header(cols) <= Len(s)
                  /\ h.ok => IsHeader(h, cols, d)
                  /\ Header(cols) <= Len(d)
  <2> SUFFICES ASSUME Small(d)
               PROVE  /\ h.ok <=> Header(cols) <= Len(s)
                      /\ h.ok => IsHeader(h, cols, d)
                      /\ Header(cols) <= Len(d)
    OBVIOUS
  <2>1. Header(cols) <= Len(d) /\ HeadLaid(d, cols)
    BY <1>7 DEF Laid
  <2> HIDE DEF d, cols
  <2>2. Prefix(s, d)
    BY DEF d
  <2> QED  BY <1>1, <2>1, <2>2, HeaderReads
<1>9. (Small(d) /\ h.ok) => (Accepts(h.codes) <=> Suits(shape, cols))
  <2> SUFFICES ASSUME IsHeader(h, cols, d) PROVE Accepts(h.codes) <=> Suits(shape, cols)
    BY <1>8
  <2>1. Readable(row) <=> Suits(shape, cols)
    BY DEF Readable, Suits
  <2> HIDE DEF h
  <2>2. Accepts(h.codes) <=> Readable(row)
    <3>1. row.cols \in Seq(Column) /\ IsHeader(h, row.cols, d)
      BY <1>1
    <3> HIDE DEF row, d
    <3> QED  BY <1>5, <3>1, AcceptsReadable
  <2> QED  BY <2>1, <2>2
<1>10. CASE good
  <2>1. in' = i1
    BY <1>2, <1>10
  <2>2. Moves(h, s, 1)
    BY <1>6, <1>10, HeaderMoves
  <2> HIDE DEF h
  <2>3. h.next \in 1..(Len(s) + 1)
    BY <1>6, <2>2 DEF Moves
  <2>4. Small(d) => Follows(shape, row, c, i1)
    <3> SUFFICES ASSUME Small(d) PROVE Follows(shape, row, c, i1)
      OBVIOUS
    <3>1. Laid(d, cols, row.vals) /\ IsHeader(h, cols, d) /\ Suits(shape, cols)
      BY <1>7, <1>8, <1>9, <1>10
    <3>2. /\ i1.i = 1 /\ i1.nulls = 0 /\ i1.bools = 0 /\ i1.at = i1.head.next
          /\ i1.head = h
      OBVIOUS
    <3> HIDE DEF i1, row, c
    <3> QED  BY <1>1, <3>1, <3>2, FollowsFirst
  <2>5. ReadingIs(shape, rows, c, i1)
    <3>1. /\ i1.phase = "fields" /\ i1.row = r /\ i1.whole = whole /\ i1.bytes = s /\ i1.head = h
          /\ i1.i = 1 /\ i1.at = h.next /\ i1.nulls = 0 /\ i1.bools = 0
          /\ i1 = [phase |-> "fields", row |-> i1.row, whole |-> i1.whole, bytes |-> i1.bytes,
                   head |-> i1.head, i |-> i1.i, at |-> i1.at, nulls |-> i1.nulls, bools |-> i1.bools]
      OBVIOUS
    <3>2. 1 \in 1..(Len(shape) + 1)
      BY <1>5
    <3> HIDE DEF i1, c
    <3> QED  BY <1>3, <2>3, <2>4, <3>1, <3>2 DEF ReadingIs
  <2>6. i1.phase = "fields"
    OBVIOUS
  <2> HIDE DEF i1, c
  <2> QED  BY <1>2, <1>4, <2>1, <2>5, <2>6 DEF ReadInv
<1>11. CASE ~good
  <2>1. in' = i2
    BY <1>2, <1>11
  <2>2. i2.phase = "error" /\ i2.row = r /\ i2.whole = whole
    OBVIOUS
  <2>3. (whole /\ Small(d)) => ~Suits(shape, cols)
    BY <1>8, <1>9, <1>11
  <2> HIDE DEF i2, c, good
  <2>4. ReadIs(shape, rows, c, i2)
    BY <2>2, <2>3 DEF ReadIs
  <2> QED  BY <1>2, <1>4, <2>1, <2>2, <2>4 DEF ReadInv
<1> QED  BY <1>10, <1>11

-----------------------------------------------------------------------------
(* Reading a field *)

FieldEnds(row, i, b) ==
  \E at : FieldsLaid(row.blob, row.cols, row.vals, at) /\ b = at[i.i] + 1

\* What is found at a column that the row has: fetch is whether its value is
\* read, and x what reading makes of it.
FoundAt(row, i, s, fetch, x, b) ==
  /\ FieldEnds(row, i, b) /\ (fetch <=> row.vals[i.i] # NULL)
  /\ ~fetch => b = i.at
  /\ (fetch /\ x.ok) => x.val = row.vals[i.i] /\ x.next = b
  /\ (fetch /\ ~x.ok) => Len(s) < Len(row.blob)

Fetches(i) == CodeNullable(i.head.codes[i.i]) => i.head.bits[i.nulls + 1] = 1

LEMMA FieldFound ==
  ASSUME NEW row, RowIs(row), row.cols \in Seq(Column), row.blob \in Seq(Nat), Small(row.blob),
         NEW i, IsAt(row, i), IsHeader(i.head, row.cols, row.blob), i.i \in 1..Len(row.cols),
         NEW s, Prefix(s, row.blob), i.at <= Len(s) + 1,
         NEW bit, (row.cols[i.i].type = "bool" /\ Fetches(i)) =>
                     bit = i.head.bits[i.head.nulls + i.bools + 1]
  PROVE  \E b : FoundAt(row, i, s, Fetches(i), ValueAt(s, i.at, row.cols[i.i].type, bit), b)
<1> DEFINE cols == row.cols
           vals == row.vals
           d == row.blob
           k == i.i
           h == i.head
           whatever == IF Fetches(i) THEN bit ELSE h.bits[h.nulls + BoolsBefore(cols, k) + 1]
           x == ValueAt(s, i.at, cols[k].type, bit)
           y == ValueAt(s, i.at, cols[k].type, whatever)
<1>1. /\ Len(vals) = Len(cols) /\ Fits(cols[k], vals[k]) /\ Laid(d, cols, vals)
      /\ Len(d) \in Nat /\ Len(cols) \in Nat
  BY DEF RowIs
<1>2. BitsLaid(d, cols, vals)
  BY <1>1 DEF Laid
<1>3. PICK at : FieldsLaid(d, cols, vals, at) /\ i.at = at[k - 1] + 1
  BY DEF IsAt
<1>4. i.nulls = NullablesBefore(cols, k) /\ i.bools = BoolsBefore(cols, k)
  BY DEF IsAt
<1>5. at[k - 1] \in Nat /\ at[k] <= Len(d)
  BY <1>1, <1>3 DEF FieldsLaid, FieldLaid
<1>6. s \in Seq(Nat) /\ Len(s) \in Nat
  BY DEF Prefix
<1>7. at[k - 1] <= Len(s)
  BY <1>3, <1>5, <1>6
<1>8. cols[k].type = "bool" => whatever = h.bits[h.nulls + BoolsBefore(cols, k) + 1]
  BY <1>4
<1>9. /\ cols \in Seq(Column) /\ k \in 1..Len(cols) /\ d \in Seq(Nat) /\ Prefix(s, d)
      /\ IsHeader(h, cols, d)
  OBVIOUS
<1>10. Fetches(i) <=> (CodeNullable(h.codes[k]) => h.bits[NullablesBefore(cols, k) + 1] = 1)
  BY <1>4 DEF Fetches
<1>11. Fetches(i) => whatever = bit
  OBVIOUS
<1> HIDE DEF cols, vals, d, k, h, whatever
<1>12. Found(Fetches(i), ValueAt(s, at[k - 1] + 1, cols[k].type, whatever), vals[k], s, at[k - 1], at[k])
  <2>1. Found(CodeNullable(h.codes[k]) => h.bits[NullablesBefore(cols, k) + 1] = 1,
              ValueAt(s, at[k - 1] + 1, cols[k].type, whatever), vals[k], s, at[k - 1], at[k])
    BY <1>1, <1>2, <1>3, <1>7, <1>8, <1>9, FieldReads
  <2> QED  BY <1>10, <2>1 DEF Found
<1>13. Found(Fetches(i), y, vals[k], s, at[k - 1], at[k])
  BY <1>3, <1>12
<1>14. Fetches(i) => y = x
  BY <1>11
<1> HIDE DEF x, y
<1> DEFINE b == at[k] + 1
<1>15. FieldEnds(row, i, b)
  BY <1>3 DEF FieldEnds, cols, vals, d, k
<1>16. (Fetches(i) /\ ~x.ok) => Len(s) < Len(d)
  <2>1. at[k] \in Nat /\ ((Fetches(i) /\ ~x.ok) => ~(at[k] <= Len(s)))
    BY <1>13, <1>14 DEF Found
  <2> QED  BY <1>1, <1>5, <1>6, <2>1
<1>17. ~Fetches(i) => b = i.at
  BY <1>3, <1>13 DEF Found
<1>18. (Fetches(i) /\ x.ok) => x.val = vals[k] /\ x.next = b
  BY <1>13, <1>14 DEF Found
<1>19. Fetches(i) <=> vals[k] # NULL
  BY <1>13 DEF Found
<1> HIDE DEF b
<1>20. FoundAt(row, i, s, Fetches(i), x, b)
  BY <1>15, <1>16, <1>17, <1>18, <1>19 DEF FoundAt, vals, k, d
<1> QED  BY <1>20 DEF x, cols, k

\* Whether the field at i is read at all
Fetched(i) == i.i <= Len(i.head.codes) /\ Fetches(i)

\* From i, the reader has taken the value v and is at next.
Took(x, i, v, next) ==
  \/ ~Fetched(i) /\ v = NULL /\ next = i.at
  \/ Fetched(i) /\ x.ok /\ v = x.val /\ next = x.next

\* j is the reader i at the next field.
Advanced(sh, i, j, next) ==
  /\ j.i = i.i + 1 /\ j.at = next /\ j.head = i.head
  /\ j.nulls = IF i.i <= Len(i.head.codes) /\ CodeNullable(i.head.codes[i.i])
               THEN i.nulls + 1 ELSE i.nulls
  /\ j.bools = IF sh[i.i].type = "bool" THEN i.bools + 1 ELSE i.bools

LEMMA ArrivesNext ==
  ASSUME NEW row, row.cols \in Seq(Column),
         NEW i, IsAt(row, i), IsHeader(i.head, row.cols, row.blob), i.i \in 1..Len(row.cols),
         NEW sh, sh[i.i].type = row.cols[i.i].type,
         NEW j, NEW next, Advanced(sh, i, j, next), FieldEnds(row, i, next)
  PROVE  IsAt(row, j)
<1> DEFINE cols == row.cols
           k == i.i
<1>1. PICK at : FieldsLaid(row.blob, row.cols, row.vals, at) /\ next = at[i.i] + 1
  BY DEF FieldEnds
<1>2. i.nulls = NullablesBefore(cols, k) /\ i.bools = BoolsBefore(cols, k)
  BY DEF IsAt
<1>3. Len(i.head.codes) = Len(cols) /\ i.head.codes[k] = Code(cols[k])
  BY DEF IsHeader
<1>4. k \in Nat \ {0} /\ Len(cols) \in Nat /\ k <= Len(cols) /\ cols[k] \in Column
  OBVIOUS
<1>5. CodeNullable(i.head.codes[k]) <=> ~cols[k].notnull
  <2> HIDE DEF cols, k
  <2>1. CodeNullable(Code(cols[k])) <=> ~cols[k].notnull
    <3> DEFINE q == cols[k]
    <3>1. q \in Column
      BY <1>4
    <3> HIDE DEF q
    <3>2. CodeNullable(Code(q)) <=> ~q.notnull
      BY <3>1, CodeFacts
    <3> QED  BY <3>2 DEF q
  <2> QED  BY <1>3, <2>1
<1>6. /\ j.i = k + 1 /\ j.at = next
      /\ j.nulls = IF k <= Len(i.head.codes) /\ CodeNullable(i.head.codes[k])
                   THEN i.nulls + 1 ELSE i.nulls
      /\ j.bools = IF cols[k].type = "bool" THEN i.bools + 1 ELSE i.bools
  BY DEF Advanced
<1> HIDE DEF cols, k
<1>7. /\ NullablesBefore(cols, k) \in Nat /\ BoolsBefore(cols, k) \in Nat
      /\ NullablesBefore(cols, k + 1) = NullablesBefore(cols, k) + (IF cols[k].notnull THEN 0 ELSE 1)
      /\ BoolsBefore(cols, k + 1) = BoolsBefore(cols, k) + (IF cols[k].type = "bool" THEN 1 ELSE 0)
  BY <1>4, CountsBefore
<1>8. j.nulls = NullablesBefore(cols, j.i)
  BY <1>2, <1>3, <1>4, <1>5, <1>6, <1>7
<1>9. j.bools = BoolsBefore(cols, j.i)
  BY <1>2, <1>6, <1>7
<1>10. j.i - 1 = i.i
  BY <1>4, <1>6 DEF k
<1> QED  BY <1>1, <1>6, <1>8, <1>9, <1>10 DEF IsAt, cols

NextFollows(sh, row, c, i, x) ==
  \A v, next, j, e :
    /\ Took(x, i, v, next) /\ Advanced(sh, i, j, next)
    /\ e.fields[i.i] = v /\ \A m \in 1..(i.i - 1) : e.fields[m] = c.fields[m]
    => Follows(sh, row, e, j)

\* What the reader is, following the row from one field to the next
LEMMA FollowsNext ==
  ASSUME NEW row, RowIs(row), row.cols \in Seq(Column), row.blob \in Seq(Nat), Small(row.blob),
         NEW sh \in ReaderShapes, NEW c, NEW i, Follows(sh, row, c, i), i.i \in 1..Len(sh),
         NEW s, Prefix(s, row.blob), i.at <= Len(s) + 1,
         NEW bit, (sh[i.i].type = "bool" /\ Fetched(i)) => bit = i.head.bits[i.head.nulls + i.bools + 1],
         NEW x, x = ValueAt(s, i.at, sh[i.i].type, bit)
  PROVE  /\ (Fetched(i) /\ ~x.ok) => Len(s) < Len(row.blob)
         /\ NextFollows(sh, row, c, i, x)
<1> DEFINE cols == row.cols
           k == i.i
           fields(e) == \A m \in 1..(k - 1) : e.fields[m] = c.fields[m]
<1>1. /\ Suits(sh, cols) /\ IsHeader(i.head, cols, row.blob)
      /\ \A m \in 1..(k - 1) : c.fields[m] = FieldOf(row, m)
      /\ k <= Len(cols) => IsAt(row, i)
  BY DEF Follows
<1>2. Len(row.vals) = Len(cols) /\ Len(cols) \in Nat /\ Len(sh) \in Nat /\ DOMAIN sh = 1..Len(sh)
  BY ShapeFacts DEF RowIs
<1>3. Len(i.head.codes) = Len(cols)
  BY <1>1 DEF IsHeader
<1>4. CASE k <= Len(cols)
  <2>1. IsAt(row, i) /\ k \in 1..Len(cols)
    BY <1>1, <1>4
  <2>2. sh[k].type = cols[k].type
    BY <1>1, <1>2, <1>4 DEF Suits
  <2>3. Fetched(i) <=> Fetches(i)
    BY <1>3, <1>4 DEF Fetched
  <2>4. (cols[k].type = "bool" /\ Fetches(i)) => bit = i.head.bits[i.head.nulls + i.bools + 1]
    BY <2>2, <2>3
  <2>5. \E b : FoundAt(row, i, s, Fetches(i), ValueAt(s, i.at, cols[k].type, bit), b)
    BY <1>1, <2>1, <2>4, FieldFound
  <2>6. PICK b : FoundAt(row, i, s, Fetched(i), x, b)
    <3>1. x = ValueAt(s, i.at, cols[k].type, bit)
      BY <2>2
    <3> HIDE DEF cols, k
    <3>2. PICK b : FoundAt(row, i, s, Fetches(i), x, b)
      BY <2>5, <3>1
    <3>3. FoundAt(row, i, s, Fetched(i), x, b)
      BY <2>3, <3>2 DEF FoundAt
    <3> QED  BY <3>3
  <2>7. (Fetched(i) /\ ~x.ok) => Len(s) < Len(row.blob)
    BY <2>6 DEF FoundAt
  <2>8. ASSUME NEW v, NEW next, NEW j, NEW e, Took(x, i, v, next), Advanced(sh, i, j, next),
               e.fields[k] = v, fields(e)
        PROVE  Follows(sh, row, e, j)
    <3>1. next = b /\ v = row.vals[k]
      BY <2>6, <2>8 DEF Took, FoundAt
    <3>2. FieldEnds(row, i, next)
      BY <2>6, <3>1 DEF FoundAt
    <3>3. IsAt(row, j)
      BY <1>1, <2>1, <2>2, <2>8, <3>2, ArrivesNext
    <3>4. j.i = k + 1 /\ j.head = i.head
      BY <2>8 DEF Advanced
    <3>5. v = FieldOf(row, k)
      BY <1>2, <1>4, <3>1 DEF FieldOf
    <3>6. ASSUME NEW m \in 1..(j.i - 1) PROVE e.fields[m] = FieldOf(row, m)
      <4>1. m = k \/ m \in 1..(k - 1)
        BY <3>4
      <4>2. CASE m = k
        BY <2>8, <3>5, <4>2
      <4>3. CASE m \in 1..(k - 1)
        BY <1>1, <2>8, <4>3
      <4> QED  BY <4>1, <4>2, <4>3
    <3> QED  BY <1>1, <3>3, <3>4, <3>6 DEF Follows
  <2> QED  BY <2>7, <2>8 DEF NextFollows
<1>5. CASE ~(k <= Len(cols))
  <2>1. ~Fetched(i)
    BY <1>3, <1>5 DEF Fetched
  <2>2. ASSUME NEW v, NEW next, NEW j, NEW e, Took(x, i, v, next), Advanced(sh, i, j, next),
               e.fields[k] = v, fields(e)
        PROVE  Follows(sh, row, e, j)
    <3>1. v = NULL
      BY <2>1, <2>2 DEF Took
    <3>2. j.i = k + 1 /\ j.head = i.head
      BY <2>2 DEF Advanced
    <3>3. v = FieldOf(row, k)
      BY <1>2, <1>5, <3>1 DEF FieldOf
    <3>4. ASSUME NEW m \in 1..(j.i - 1) PROVE e.fields[m] = FieldOf(row, m)
      <4>1. m = k \/ m \in 1..(k - 1)
        BY <3>2
      <4>2. CASE m = k
        BY <2>2, <3>3, <4>2
      <4>3. CASE m \in 1..(k - 1)
        BY <1>1, <2>2, <4>3
      <4> QED  BY <4>1, <4>2, <4>3
    <3>5. ~(j.i <= Len(cols))
      BY <1>2, <1>5, <3>2
    <3> QED  BY <1>1, <3>2, <3>4, <3>5 DEF Follows
  <2> QED  BY <2>1, <2>2 DEF NextFollows
<1> QED  BY <1>4, <1>5

LEMMA NextFieldIs ==
  ASSUME in = [phase |-> "fields", row |-> in.row, whole |-> in.whole, bytes |-> in.bytes,
               head |-> in.head, i |-> in.i, at |-> in.at, nulls |-> in.nulls, bools |-> in.bools],
         NEW next, NEW j, j = NextField(next)
  PROVE  /\ j = [phase |-> "fields", row |-> j.row, whole |-> j.whole, bytes |-> j.bytes,
                 head |-> j.head, i |-> j.i, at |-> j.at, nulls |-> j.nulls, bools |-> j.bools]
         /\ j.row = in.row /\ j.whole = in.whole /\ j.bytes = in.bytes
         /\ Advanced(shape, in, j, next)
<1> DEFINE a == in.i + 1
           b == IF Nullable THEN in.nulls + 1 ELSE in.nulls
           c == IF shape[in.i].type = "bool" THEN in.bools + 1 ELSE in.bools
<1>1. j = [in EXCEPT !.i = a, !.at = next, !.nulls = b, !.bools = c]
  BY DEF NextField
<1> DEFINE r == in.row
           w == in.whole
           y == in.bytes
           h == in.head
<1> DEFINE new == [phase |-> "fields", row |-> in.row, whole |-> in.whole, bytes |-> in.bytes,
                   head |-> in.head, i |-> a, at |-> next, nulls |-> b, bools |-> c]
<1> HIDE DEF a, b, c
<1>2. j = new
  <2> DEFINE i == in.i
             at == in.at
             n == in.nulls
             k == in.bools
  <2>1. in = [phase |-> "fields", row |-> r, whole |-> w, bytes |-> y, head |-> h,
              i |-> i, at |-> at, nulls |-> n, bools |-> k]
    OBVIOUS
  <2> HIDE DEF i, at, n, k, r, w, y, h
  <2>2. j = [phase |-> "fields", row |-> r, whole |-> w, bytes |-> y, head |-> h,
             i |-> a, at |-> next, nulls |-> b, bools |-> c]
    BY <1>1, <2>1
  <2> QED  BY <2>2 DEF r, w, y, h
<1>3. /\ j.phase = "fields" /\ j.row = in.row /\ j.whole = in.whole /\ j.bytes = in.bytes
      /\ j.head = in.head /\ j.i = a /\ j.at = next /\ j.nulls = b /\ j.bools = c
  BY <1>2
<1>4. b = IF in.i <= Len(in.head.codes) /\ CodeNullable(in.head.codes[in.i])
          THEN in.nulls + 1 ELSE in.nulls
  BY DEF b, Nullable, Present
<1>5. Advanced(shape, in, j, next)
  BY <1>3, <1>4 DEF Advanced, a, c
<1>6. j = [phase |-> "fields", row |-> j.row, whole |-> j.whole, bytes |-> j.bytes,
           head |-> j.head, i |-> j.i, at |-> j.at, nulls |-> j.nulls, bools |-> j.bools]
  BY <1>2, <1>3
<1> QED  BY <1>3, <1>5, <1>6

\* The bit and the value that ReadField reads
BitRead == IF shape[in.i].type = "bool" /\ Fetch
           THEN in.head.bits[in.head.nulls + in.bools + 1] ELSE 0
ValueRead == ValueAt(in.bytes, in.at, shape[in.i].type, BitRead)

LEMMA FetchIs == Fetch <=> Fetched(in)
BY DEF Fetch, Fetched, Fetches, Nullable, Present

LEMMA ReadFollows ==
  ASSUME IInv, in.phase = "fields", in.i <= Len(shape), Small(rows[in.row].blob)
  PROVE  /\ (Fetch /\ ~ValueRead.ok) => Len(in.bytes) < Len(rows[in.row].blob)
         /\ NextFollows(shape, rows[in.row], cursor, in, ValueRead)
<1> DEFINE row == rows[in.row]
           s == in.bytes
<1>1. ReadingIs(shape, rows, cursor, in) /\ RowsInv /\ shape \in ReaderShapes
  BY DEF IInv, ReadInv
<1>2. /\ in.row \in DOMAIN rows /\ Prefix(s, row.blob) /\ in.i \in 1..(Len(shape) + 1)
      /\ in.at \in 1..(Len(s) + 1) /\ Follows(shape, row, cursor, in)
  BY <1>1 DEF ReadingIs
<1>3. RowIs(row) /\ row.cols \in Seq(Column) /\ row.blob \in Seq(Nat)
  <2> DEFINE r == in.row
  <2>1. r \in DOMAIN rows
    BY <1>2
  <2> HIDE DEF r
  <2>2. RowIs(rows[r]) /\ rows[r].cols \in Seq(Column) /\ rows[r].blob \in Seq(Nat)
    BY <1>1, <2>1, RowFacts
  <2> QED  BY <2>2 DEF r
<1>4. in.i \in 1..Len(shape) /\ in.at <= Len(s) + 1
  <2>1. Len(shape) \in Nat
    BY <1>1, ShapeFacts
  <2>2. Len(s) \in Nat
    BY <1>2 DEF Prefix
  <2> QED  BY <1>2, <2>1, <2>2
<1>5. Fetch <=> Fetched(in)
  BY FetchIs
<1>6. (shape[in.i].type = "bool" /\ Fetched(in)) => BitRead = in.head.bits[in.head.nulls + in.bools + 1]
  BY <1>5 DEF BitRead
<1>7. ValueRead = ValueAt(s, in.at, shape[in.i].type, BitRead)
  BY DEF ValueRead
<1>8. Small(row.blob)
  OBVIOUS
<1> HIDE DEF row, s
<1>9. /\ (Fetched(in) /\ ~ValueRead.ok) => Len(s) < Len(row.blob)
      /\ NextFollows(shape, row, cursor, in, ValueRead)
  BY <1>1, <1>2, <1>3, <1>4, <1>6, <1>7, <1>8, FollowsNext
<1> QED  BY <1>5, <1>9 DEF row, s

LEMMA ValueReadMoves ==
  ASSUME IInv, in.phase = "fields", in.i <= Len(shape), ValueRead.ok
  PROVE  /\ ValueRead.next \in 1..(Len(in.bytes) + 1)
         /\ RefAt(shape, in.i) => ValueRead.val # NULL
<1> DEFINE s == in.bytes
           p == in.at
           t == shape[in.i].type
<1>1. ReadingIs(shape, rows, cursor, in) /\ shape \in ReaderShapes
  BY DEF IInv, ReadInv
<1>2. Prefix(s, rows[in.row].blob) /\ in.i \in 1..(Len(shape) + 1) /\ p \in 1..(Len(s) + 1)
  BY <1>1 DEF ReadingIs
<1>3. shape \in Seq(Column) /\ Len(shape) \in Nat
  BY <1>1, ShapeFacts
<1>4. in.i \in 1..Len(shape)
  BY <1>2, <1>3
<1>5. t \in Types
  BY <1>3, <1>4, ColumnFacts
<1>6. s \in Seq(Nat) /\ Len(s) \in Nat
  BY <1>2 DEF Prefix
<1>7. p \in Nat \ {0} /\ p <= Len(s) + 1
  BY <1>2, <1>6
<1>8. ValueRead = ValueAt(s, p, t, BitRead)
  BY DEF ValueRead
<1>9. RefAt(shape, in.i) <=> t \in RefTypes
  BY DEF RefAt
<1> HIDE DEF s, p, t
<1>10. Moves(ValueAt(s, p, t, BitRead), s, p) /\ (t \in RefTypes => ValueAt(s, p, t, BitRead).val # NULL)
  BY <1>5, <1>6, <1>7, <1>8, ValueMoves
<1>11. ValueRead.next \in 1..(Len(s) + 1)
  BY <1>6, <1>7, <1>8, <1>10 DEF Moves
<1> QED  BY <1>8, <1>9, <1>10, <1>11 DEF s

\* The cursor with the value v in the field that is being read
Taken(v) == [cursor EXCEPT !.fields[in.i] = v]

LEMMA CursorTakes ==
  ASSUME IInv, in.phase = "fields", in.i <= Len(shape), NEW v
  PROVE  /\ CursorIs(shape, Taken(v), refs + (IF RefAt(shape, in.i) /\ v # NULL THEN 1 ELSE 0), "fields")
         /\ ~Taken(v).has_row /\ Taken(v).fields[in.i] = v
         /\ \A m \in 1..(in.i - 1) : Taken(v).fields[m] = cursor.fields[m]
         /\ \A j \in DOMAIN shape :
              (j >= in.i + 1 /\ RefAt(shape, j)) => Taken(v).fields[j] = NULL
<1> DEFINE e == Taken(v)
           f == cursor.fields
           k == in.i
           g == [f EXCEPT ![k] = v]
<1>1. /\ ReadingIs(shape, rows, cursor, in) /\ shape \in ReaderShapes
      /\ CursorIs(shape, cursor, refs, in.phase)
  BY DEF IInv, ReadInv, CursorInv
<1>2. /\ ~cursor.has_row /\ \A j \in DOMAIN shape : (j >= k /\ RefAt(shape, j)) => f[j] = NULL
      /\ k \in 1..(Len(shape) + 1)
  BY <1>1 DEF ReadingIs
<1>3. /\ cursor = [has_row |-> cursor.has_row, fields |-> f] /\ cursor.has_row \in BOOLEAN
      /\ f = [j \in DOMAIN shape |-> f[j]] /\ refs = Held(shape, f)
  BY <1>1 DEF CursorIs
<1>4. Len(shape) \in Nat /\ DOMAIN shape = 1..Len(shape)
  BY <1>1, ShapeFacts
<1>5. k \in DOMAIN shape
  BY <1>2, <1>4
<1>6. e = [cursor EXCEPT !.fields = g]
  <2>1. [cursor EXCEPT !.fields[k] = v] = [cursor EXCEPT !.fields = [f EXCEPT ![k] = v]]
    <3> HIDE DEF k
    <3> QED  BY <1>3
  <2> QED  BY <2>1 DEF Taken
<1> HIDE DEF e
<1>7. e = [has_row |-> cursor.has_row, fields |-> g]
  <2> DEFINE has == cursor.has_row
  <2>1. cursor = [has_row |-> has, fields |-> f]
    BY <1>3
  <2> HIDE DEF has, f, g
  <2> QED  BY <1>6, <2>1 DEF has
<1>8. e.has_row = cursor.has_row /\ e.fields = g /\ e = [has_row |-> e.has_row, fields |-> e.fields]
  <2> HIDE DEF g
  <2> QED  BY <1>7
<1> HIDE DEF f
<1>9. /\ g = [j \in DOMAIN shape |-> g[j]]
      /\ \A j \in DOMAIN shape : g[j] = IF j = k THEN v ELSE f[j]
  BY <1>3, <1>5
<1>10. Held(shape, g) = Held(shape, f) + (IF RefAt(shape, k) /\ v # NULL THEN 1 ELSE 0)
  <2>1. RefAt(shape, k) => f[k] = NULL
    BY <1>2, <1>5, <1>4
  <2> HIDE DEF k
  <2> QED  BY <1>1, <1>3, <1>5, <2>1, HeldTakes
<1> HIDE DEF g
<1>11. CursorIs(shape, e, refs + (IF RefAt(shape, k) /\ v # NULL THEN 1 ELSE 0), "fields")
  BY <1>3, <1>8, <1>9, <1>10 DEF CursorIs
<1>12. \A m \in 1..(k - 1) : e.fields[m] = f[m]
  BY <1>4, <1>5, <1>8, <1>9
<1>13. \A j \in DOMAIN shape : (j >= k + 1 /\ RefAt(shape, j)) => e.fields[j] = NULL
  BY <1>2, <1>4, <1>5, <1>8, <1>9
<1>14. e.fields[k] = v
  BY <1>5, <1>8, <1>9
<1> QED  BY <1>2, <1>8, <1>11, <1>12, <1>13, <1>14 DEF e, f, k

\* The reader goes on to the next field, with the value v for this one.
LEMMA TakesNext ==
  ASSUME IInv, in.phase = "fields", in.i <= Len(shape), shape' = shape, rows' = rows,
         NEW v, NEW next, Took(ValueRead, in, v, next), cursor' = Taken(v), in' = NextField(next),
         refs' = refs + (IF RefAt(shape, in.i) /\ v # NULL THEN 1 ELSE 0)
  PROVE  in'.phase = "fields" /\ CursorInv' /\ ReadInv'
<1> DEFINE j == NextField(next)
           e == Taken(v)
           row == rows[in.row]
<1>1. ReadingIs(shape, rows, cursor, in) /\ shape \in ReaderShapes
  BY DEF IInv, ReadInv
<1>2. /\ in = [phase |-> "fields", row |-> in.row, whole |-> in.whole, bytes |-> in.bytes,
               head |-> in.head, i |-> in.i, at |-> in.at, nulls |-> in.nulls, bools |-> in.bools]
      /\ in.row \in DOMAIN rows /\ Prefix(in.bytes, row.blob)
      /\ in.whole => Len(in.bytes) = Len(row.blob)
      /\ in.i \in 1..(Len(shape) + 1) /\ in.at \in 1..(Len(in.bytes) + 1)
  BY <1>1 DEF ReadingIs
<1>3. /\ j = [phase |-> "fields", row |-> j.row, whole |-> j.whole, bytes |-> j.bytes,
              head |-> j.head, i |-> j.i, at |-> j.at, nulls |-> j.nulls, bools |-> j.bools]
      /\ j.row = in.row /\ j.whole = in.whole /\ j.bytes = in.bytes
      /\ Advanced(shape, in, j, next)
  BY <1>2, NextFieldIs
<1>4. /\ CursorIs(shape, e, refs', "fields")
      /\ ~e.has_row /\ e.fields[in.i] = v
      /\ \A m \in 1..(in.i - 1) : e.fields[m] = cursor.fields[m]
      /\ \A m \in DOMAIN shape : (m >= in.i + 1 /\ RefAt(shape, m)) => e.fields[m] = NULL
  BY CursorTakes
<1>5. next \in 1..(Len(in.bytes) + 1)
  BY <1>2, ValueReadMoves DEF Took
<1>6. j.i = in.i + 1 /\ j.at = next
  BY <1>3 DEF Advanced
<1>7. Len(shape) \in Nat
  BY <1>1, ShapeFacts
<1>8. j.i \in 1..(Len(shape) + 1)
  BY <1>2, <1>6, <1>7
<1>9. Small(row.blob) => Follows(shape, row, e, j)
  <2> SUFFICES ASSUME Small(row.blob) PROVE Follows(shape, row, e, j)
    OBVIOUS
  <2>1. NextFollows(shape, row, cursor, in, ValueRead)
    BY ReadFollows
  <2> HIDE DEF j, e, row
  <2> QED  BY <1>3, <1>4, <2>1 DEF NextFollows
<1>10. cursor' = e /\ in' = j
  OBVIOUS
<1> HIDE DEF j, e
<1>11. j.phase = "fields"
  BY <1>3
<1>12. ReadingIs(shape, rows, e, j)
  BY <1>2, <1>3, <1>4, <1>5, <1>6, <1>8, <1>9 DEF ReadingIs
<1> QED  BY <1>4, <1>10, <1>11, <1>12 DEF CursorInv, ReadInv

LEMMA ReadFieldNext ==
  ASSUME IInv, ReadField
  PROVE  in'.phase \in {"fields", "error"} /\ CursorInv' /\ ReadInv'
<1>1. /\ in.phase = "fields" /\ in.i <= Len(shape) /\ shape' = shape /\ rows' = rows
      /\ \/ /\ ~Fetch
            /\ cursor' = Taken(NULL) /\ in' = NextField(in.at) /\ refs' = refs
         \/ /\ Fetch /\ ValueRead.ok
            /\ cursor' = Taken(ValueRead.val) /\ in' = NextField(ValueRead.next)
            /\ refs' = IF RefAt(shape, in.i) THEN refs + 1 ELSE refs
         \/ /\ Fetch /\ ~ValueRead.ok
            /\ ClearCursor
            /\ in' = [phase |-> "error", row |-> in.row, whole |-> in.whole]
  BY DEF ReadField, ValueRead, BitRead, Taken, IsRef, RefAt
<1>2. CursorIs(shape, cursor, refs, in.phase) /\ shape \in ReaderShapes /\ RowsInv
      /\ ReadingIs(shape, rows, cursor, in)
  BY <1>1 DEF IInv, CursorInv, ReadInv
<1>3. refs \in Nat
  <2> DEFINE f == cursor.fields
  <2>1. refs = Held(shape, f) /\ f = [j \in DOMAIN shape |-> f[j]]
    BY <1>2 DEF CursorIs
  <2> HIDE DEF f
  <2> QED  BY <1>2, <2>1, HeldFacts
<1>4. CASE ~Fetch
  <2>1. cursor' = Taken(NULL) /\ in' = NextField(in.at)
    BY <1>1, <1>4
  <2>2. Took(ValueRead, in, NULL, in.at)
    BY <1>4, FetchIs DEF Took
  <2>3. refs' = refs + (IF RefAt(shape, in.i) /\ NULL # NULL THEN 1 ELSE 0)
    BY <1>1, <1>3, <1>4
  <2> QED  BY <1>1, <2>1, <2>2, <2>3, TakesNext
<1>5. CASE Fetch /\ ValueRead.ok
  <2> DEFINE v == ValueRead.val
             next == ValueRead.next
  <2>1. cursor' = Taken(v) /\ in' = NextField(next)
    BY <1>1, <1>5
  <2>2. Took(ValueRead, in, v, next)
    BY <1>5, FetchIs DEF Took
  <2>3. refs' = refs + (IF RefAt(shape, in.i) /\ v # NULL THEN 1 ELSE 0)
    BY <1>1, <1>3, <1>5, ValueReadMoves
  <2> HIDE DEF v, next
  <2> QED  BY <1>1, <2>1, <2>2, <2>3, TakesNext
<1>6. CASE Fetch /\ ~ValueRead.ok
  <2> DEFINE c == Cleared(cursor)
             i2 == [phase |-> "error", row |-> in.row, whole |-> in.whole]
             row == rows[in.row]
  <2>1. cursor' = c /\ refs' = refs - RefsIn(cursor.fields) /\ in' = i2
    BY <1>1, <1>6 DEF ClearCursor
  <2>2. refs - RefsIn(cursor.fields) = 0 /\ \A p : CursorIs(shape, c, 0, p)
    BY <1>2, ClearedFacts
  <2>3. i2.phase = "error" /\ i2.row = in.row /\ i2.whole = in.whole
    OBVIOUS
  <2>4. in.row \in DOMAIN rows /\ (in.whole => Len(in.bytes) = Len(row.blob)) /\ Prefix(in.bytes, row.blob)
    BY <1>2 DEF ReadingIs
  <2>5. ~(in.whole /\ Small(row.blob))
    <3>1. Small(row.blob) => Len(in.bytes) < Len(row.blob)
      BY <1>1, <1>6, ReadFollows
    <3>2. Len(in.bytes) \in Nat
      BY <2>4 DEF Prefix
    <3> QED  BY <2>4, <3>1, <3>2
  <2> HIDE DEF c, i2
  <2>6. ReadIs(shape, rows, c, i2)
    BY <2>3, <2>4, <2>5 DEF ReadIs
  <2>7. CursorInv'
    <3>1. CursorIs(shape, c, 0, i2.phase) /\ refs' = 0
      BY <2>1, <2>2
    <3> QED  BY <1>1, <2>1, <3>1 DEF CursorInv
  <2>8. ReadInv'
    BY <1>1, <2>1, <2>3, <2>6 DEF ReadInv
  <2> QED  BY <2>1, <2>3, <2>7, <2>8
<1> QED  BY <1>4, <1>5, <1>6

LEMMA GetsRow ==
  ASSUME NEW c, NEW a, NEW b, NEW f, c = [has_row |-> a, fields |-> f]
  PROVE  [c EXCEPT !.has_row = b] = [has_row |-> b, fields |-> f]
OBVIOUS

LEMMA ReadEndNext ==
  ASSUME IInv, ReadEnd
  PROVE  in'.phase = "ok" /\ CursorInv' /\ ReadInv'
<1> DEFINE f == cursor.fields
           row == rows[in.row]
           c == [cursor EXCEPT !.has_row = TRUE]
           i2 == [phase |-> "ok", row |-> in.row, whole |-> in.whole]
<1>1. /\ in.phase = "fields" /\ in.i > Len(shape) /\ shape' = shape /\ rows' = rows /\ refs' = refs
      /\ cursor' = c /\ in' = i2
  BY DEF ReadEnd
<1>2. CursorIs(shape, cursor, refs, in.phase) /\ ReadingIs(shape, rows, cursor, in)
      /\ shape \in ReaderShapes
  BY <1>1 DEF IInv, CursorInv, ReadInv
<1>3. /\ cursor = [has_row |-> cursor.has_row, fields |-> f]
      /\ f = [j \in DOMAIN shape |-> f[j]] /\ refs = Held(shape, f)
  BY <1>2 DEF CursorIs
<1>4. c = [has_row |-> TRUE, fields |-> f]
  BY <1>3, GetsRow
<1>5. c.has_row = TRUE /\ c.fields = f /\ c = [has_row |-> c.has_row, fields |-> c.fields]
  <2> HIDE DEF f, c
  <2> QED  BY <1>4
<1>6. i2.phase = "ok" /\ i2.row = in.row
  OBVIOUS
<1>7. Len(shape) \in Nat /\ DOMAIN shape = 1..Len(shape)
  BY <1>2, ShapeFacts
<1>8. in.i = Len(shape) + 1 /\ in.row \in DOMAIN rows /\ (Small(row.blob) => Follows(shape, row, cursor, in))
  <2>1. in.i \in 1..(Len(shape) + 1)
    BY <1>2 DEF ReadingIs
  <2>2. in.i = Len(shape) + 1
    BY <1>1, <1>7, <2>1
  <2> QED  BY <1>2, <2>2 DEF ReadingIs
<1>9. Small(row.blob) => Suits(shape, row.cols) /\ f = [j \in DOMAIN shape |-> FieldOf(row, j)]
  <2> SUFFICES ASSUME Small(row.blob)
               PROVE  Suits(shape, row.cols) /\ f = [j \in DOMAIN shape |-> FieldOf(row, j)]
    OBVIOUS
  <2>1. Suits(shape, row.cols) /\ \A j \in 1..(in.i - 1) : f[j] = FieldOf(row, j)
    BY <1>8 DEF Follows
  <2>2. \A j \in DOMAIN shape : f[j] = FieldOf(row, j)
    BY <1>7, <1>8, <2>1
  <2> HIDE DEF f, row
  <2>3. f = [j \in DOMAIN shape |-> FieldOf(row, j)]
    BY <1>3, <2>2
  <2> QED  BY <2>1, <2>3
<1> HIDE DEF c, i2, f
<1>10. ReadIs(shape, rows, c, i2)
  BY <1>5, <1>6, <1>8, <1>9 DEF ReadIs
<1>11. CursorIs(shape, c, refs, "ok")
  BY <1>3, <1>5 DEF CursorIs
<1> QED  BY <1>1, <1>6, <1>10, <1>11 DEF CursorInv, ReadInv

-----------------------------------------------------------------------------
(* The reading actions *)

\* A reading step leaves what has been written alone.
LEMMA ReadKeeps ==
  ASSUME IInv, ~Writing, UNCHANGED <<shape, rows, out>>,
         in'.phase \in {"fields", "ok", "error"}, CursorInv', ReadInv'
  PROVE  IInv'
<1>1. RowsInv'
  BY DEF IInv, RowsInv
<1>2. WriteInv'
  BY DEF WriteInv, Writing
<1> QED  BY <1>1, <1>2 DEF IInv

LEMMA ReadyFacts ==
  ASSUME IInv
  PROVE  /\ shape \in ReaderShapes /\ RowsInv /\ CursorInv
         /\ in.phase = "fields" => ~Writing
BY DEF IInv, WriteInv

LEMMA FromBlobNext ==
  ASSUME IInv, NEW r \in DOMAIN rows, NEW n \in 0..Len(rows[r].blob), FromBlob(r, n)
  PROVE  IInv'
<1> DEFINE d == rows[r].blob
<1>1. shape \in ReaderShapes /\ RowsInv /\ CursorInv
  BY ReadyFacts
<1>2. d \in Seq(Nat) /\ Len(d) \in Nat
  BY <1>1, RowFacts
<1>3. /\ ~Writing /\ UNCHANGED <<shape, rows, out>>
      /\ Read(SubSeq(d, 1, n), r, n = Len(d))
  BY DEF FromBlob, Ready
<1>4. PICK s : s = SubSeq(d, 1, n)
  OBVIOUS
<1>5. PICK whole \in BOOLEAN : whole <=> n = Len(d)
  <2>1. (n = Len(d)) \in BOOLEAN
    OBVIOUS
  <2> QED  BY <2>1
<1>6. Read(s, r, whole)
  <2>1. whole = (n = Len(d))
    BY <1>5
  <2> QED  BY <1>3, <1>4, <2>1
<1>7. n \in Nat /\ n <= Len(d)
  BY <1>2
<1> HIDE DEF d
<1>8. s \in Seq(Nat) /\ Len(s) = n /\ \A j \in 1..n : s[j] = d[j]
  <2>1. 1 \in Nat \ {0} /\ 1 <= n + 1 /\ n - 1 + 1 = n /\ \A j \in 1..n : 1 + j - 1 = j
    BY <1>7
  <2>2. s \in Seq(Nat) /\ Len(s) = n - 1 + 1 /\ \A j \in 1..(n - 1 + 1) : s[j] = d[1 + j - 1]
    BY <1>2, <1>4, <1>7, <2>1, Slice
  <2> QED  BY <2>1, <2>2
<1>9. Prefix(s, d) /\ (whole => Len(s) = Len(d))
  BY <1>5, <1>7, <1>8 DEF Prefix
<1>10. in'.phase \in {"fields", "error"} /\ CursorInv' /\ ReadInv'
  BY <1>1, <1>3, <1>6, <1>9, ReadStarts DEF d
<1> QED  BY <1>3, <1>10, ReadKeeps

LEMMA BlobsOfRows ==
  ASSUME RowsInv
  PROVE  /\ [r \in DOMAIN rows |-> rows[r].blob] \in Seq(Seq(Nat))
         /\ Len([r \in DOMAIN rows |-> rows[r].blob]) = Len(rows)
         /\ DOMAIN rows = 1..Len(rows) /\ Len(rows) \in Nat
<1> DEFINE S == Rows
           B == Seq(Nat)
<1>1. rows \in Seq(S)
  BY DEF RowsInv
<1>2. \A r \in DOMAIN rows : rows[r].blob \in B
  BY RowFacts
<1> HIDE DEF S, B
<1>3. DOMAIN rows = 1..Len(rows) /\ Len(rows) \in Nat
  BY <1>1
<1> DEFINE n == Len(rows)
           blobs == [r \in 1..n |-> rows[r].blob]
<1>4. n \in Nat /\ \A r \in 1..n : rows[r].blob \in B
  BY <1>2, <1>3
<1> HIDE DEF n
<1>5. blobs \in Seq(B) /\ Len(blobs) = n
  BY <1>4
<1> QED  BY <1>3, <1>5 DEF n, B

LEMMA FromStreamNext ==
  ASSUME IInv, NEW index \in Int, FromStream(index)
  PROVE  IInv'
<1> DEFINE blobs == [r \in DOMAIN rows |-> rows[r].blob]
           slice == StreamSlice(StreamOf(blobs), index)
<1>1. shape \in ReaderShapes /\ RowsInv /\ CursorInv
  BY ReadyFacts
<1>2. /\ ~Writing /\ UNCHANGED <<shape, rows, out>>
      /\ IF slice.ok
         THEN Read(slice.val, index + 1, TRUE)
         ELSE ClearCursor /\ in' = [phase |-> "error", row |-> 0, whole |-> FALSE]
  BY DEF FromStream, Ready
<1>3. blobs \in Seq(Seq(Nat)) /\ Len(blobs) = Len(rows) /\ DOMAIN rows = 1..Len(rows) /\ Len(rows) \in Nat
  BY <1>1, BlobsOfRows
<1>4. IF index \in 0..(Len(blobs) - 1) THEN slice.ok /\ slice.val = blobs[index + 1] ELSE ~slice.ok
  <2> HIDE DEF blobs
  <2> QED  BY <1>3, StreamSlices
<1>5. CASE slice.ok
  <2> DEFINE r == index + 1
  <2>1. r \in DOMAIN rows /\ slice.val = rows[r].blob
    BY <1>3, <1>4, <1>5
  <2> HIDE DEF slice, r
  <2>2. PICK s : s = rows[r].blob
    OBVIOUS
  <2>3. Read(s, r, TRUE)
    BY <1>2, <1>5, <2>1, <2>2 DEF r
  <2>4. Prefix(s, rows[r].blob) /\ Len(s) = Len(rows[r].blob)
    <3>1. rows[r].blob \in Seq(Nat) /\ Len(rows[r].blob) \in Nat
      BY <1>1, <2>1, RowFacts
    <3> QED  BY <2>2, <3>1 DEF Prefix
  <2>5. PICK whole : whole = TRUE
    OBVIOUS
  <2>6. Read(s, r, whole) /\ (whole => Len(s) = Len(rows[r].blob))
    BY <2>3, <2>4, <2>5
  <2>7. in'.phase \in {"fields", "error"} /\ CursorInv' /\ ReadInv'
    BY <1>1, <1>2, <2>1, <2>4, <2>6, ReadStarts
  <2> QED  BY <1>2, <2>7, ReadKeeps
<1>6. CASE ~slice.ok
  <2> DEFINE c == Cleared(cursor)
             i2 == [phase |-> "error", row |-> 0, whole |-> FALSE]
  <2>1. cursor' = c /\ refs' = refs - RefsIn(cursor.fields) /\ in' = i2
    BY <1>2, <1>6 DEF ClearCursor
  <2>2. refs - RefsIn(cursor.fields) = 0 /\ \A p : CursorIs(shape, c, 0, p)
    BY <1>1, ClearedFacts DEF CursorInv
  <2>3. i2.phase = "error" /\ i2.whole = FALSE
    OBVIOUS
  <2> HIDE DEF c, i2, slice
  <2>4. CursorInv'
    <3>1. CursorIs(shape, c, 0, i2.phase) /\ refs' = 0
      BY <2>1, <2>2
    <3> QED  BY <1>2, <2>1, <3>1 DEF CursorInv
  <2>5. ReadInv'
    BY <1>2, <2>1, <2>3 DEF ReadInv, ReadIs
  <2> QED  BY <1>2, <2>1, <2>3, <2>4, <2>5, ReadKeeps
<1> QED  BY <1>5, <1>6

-----------------------------------------------------------------------------
(* The writing actions *)

\* A writing step leaves the cursor alone.
LEMMA WriteKeeps ==
  ASSUME IInv, in.phase = "none", UNCHANGED <<shape, cursor, refs, in>>, RowsInv', WriteInv'
  PROVE  IInv'
<1>1. CursorInv'
  BY DEF IInv, CursorInv
<1>2. ReadInv'
  BY DEF ReadInv
<1> QED  BY <1>1, <1>2 DEF IInv

LEMMA WriteHeaderNext ==
  ASSUME IInv, NEW cols \in WriterShapes, WriteHeader(cols)
  PROVE  IInv'
<1> DEFINE o == StartRow(cols)
           empty == << >>
           w == [cols |-> cols, vals |-> empty, o |-> o]
<1>1. /\ in = NoRead /\ Len(rows) < MaxRows /\ out' = w
      /\ UNCHANGED <<shape, cursor, refs, rows, in>>
  BY DEF WriteHeader
<1>2. cols \in Seq(Column) /\ Len(cols) \in Nat
  BY ShapeFacts
<1> HIDE DEF o
<1>3. o \in Outputs /\ o.bits.at = Len(cols) + 1 /\ Laid(o.buf.data, cols, empty)
  BY <1>2, StartRowFacts DEF o
<1>4. empty \in Seq(AllValues) /\ Len(empty) = 0
  OBVIOUS
<1> HIDE DEF empty
<1>5. w.cols = cols /\ w.vals = empty /\ w.o = o /\ w = [cols |-> w.cols, vals |-> w.vals, o |-> w.o]
  OBVIOUS
<1> HIDE DEF w
<1>6. OutputIs(w)
  <2>1. Len(w.vals) <= Len(w.cols) /\ \A j \in 1..Len(w.vals) : Fits(w.cols[j], w.vals[j])
    BY <1>2, <1>4, <1>5
  <2> QED  BY <1>3, <1>4, <1>5, <2>1 DEF OutputIs
<1>7. in.phase = "none"
  BY <1>1 DEF NoRead
<1>8. WriteInv'
  BY <1>1, <1>6, <1>7 DEF WriteInv
<1>9. RowsInv'
  BY <1>1 DEF IInv, RowsInv
<1> QED  BY <1>1, <1>7, <1>8, <1>9, WriteKeeps

LEMMA WriteFieldNext ==
  ASSUME IInv, NEW v, WriteField(v)
  PROVE  IInv'
<1> DEFINE i == Len(out.vals) + 1
           vals == Append(out.vals, v)
           o == PutField(out.o, out.cols, i, v)
           w == [cols |-> out.cols, vals |-> vals, o |-> o]
<1>1. /\ Writing /\ Len(out.vals) < Len(out.cols) /\ UNCHANGED <<shape, cursor, refs, rows, in>>
      /\ v \in Values[out.cols[i].type] \/ (v = NULL /\ ~out.cols[i].notnull)
      /\ out' = [out EXCEPT !.vals = vals, !.o = o]
  BY DEF WriteField
<1>2. OutputIs(out) /\ in.phase = "none" /\ Len(rows) < MaxRows
  BY <1>1 DEF IInv, WriteInv
<1>3. Fits(out.cols[i], v)
  BY <1>1 DEF Fits
<1>4. OutputIs(w)
  <2> DEFINE z == out
  <2>1. /\ OutputIs(z) /\ Len(z.vals) < Len(z.cols) /\ Fits(z.cols[Len(z.vals) + 1], v)
    BY <1>1, <1>2, <1>3
  <2>2. w = [cols |-> z.cols, vals |-> Append(z.vals, v),
             o |-> PutField(z.o, z.cols, Len(z.vals) + 1, v)]
    OBVIOUS
  <2> HIDE DEF z, w
  <2>3. OutputIs([cols |-> z.cols, vals |-> Append(z.vals, v),
                  o |-> PutField(z.o, z.cols, Len(z.vals) + 1, v)])
    BY <2>1, WriteNext
  <2> QED  BY <2>2, <2>3
<1>5. out' = w
  <2> DEFINE c == out.cols
             u == out.vals
             p == out.o
  <2>1. out = [cols |-> c, vals |-> u, o |-> p]
    BY <1>2 DEF OutputIs
  <2> HIDE DEF c, u, p, vals, o
  <2>2. out' = [cols |-> c, vals |-> vals, o |-> o]
    BY <1>1, <2>1
  <2> QED  BY <2>2 DEF c
<1> HIDE DEF w
<1>6. WriteInv'
  BY <1>1, <1>2, <1>4, <1>5 DEF WriteInv
<1>7. RowsInv'
  BY <1>1 DEF IInv, RowsInv
<1> QED  BY <1>1, <1>2, <1>6, <1>7, WriteKeeps

LEMMA WriteEndNext ==
  ASSUME IInv, WriteEnd
  PROVE  IInv'
<1> DEFINE row == [cols |-> out.cols, vals |-> out.vals, blob |-> out.o.buf.data]
           more == Append(rows, row)
           S == Rows
<1>1. /\ Writing /\ Len(out.vals) = Len(out.cols) /\ UNCHANGED <<shape, cursor, refs, in>>
      /\ rows' = more /\ out' = NoRow
  BY DEF WriteEnd
<1>2. /\ OutputIs(out) /\ in.phase = "none" /\ Len(rows) < MaxRows
      /\ rows \in Seq(S) /\ \A r \in DOMAIN rows : RowIs(rows[r])
  BY <1>1 DEF IInv, WriteInv, RowsInv
<1>3. /\ out.cols \in WriterShapes /\ out.vals \in Seq(AllValues) /\ out.o \in Outputs
      /\ \A j \in 1..Len(out.vals) : Fits(out.cols[j], out.vals[j])
      /\ Small(out.o.buf.data) => Laid(out.o.buf.data, out.cols, out.vals)
  BY <1>2 DEF OutputIs
<1>4. out.o.buf.data \in Seq(Nat)
  <2> DEFINE o == out.o
  <2>1. o \in Outputs
    BY <1>3
  <2> HIDE DEF o
  <2>2. o.buf.data \in Seq(Nat)
    BY <2>1, OutputFacts
  <2> QED  BY <2>2 DEF o
<1>5. row \in S
  BY <1>3, <1>4 DEF Rows
<1>6. row.cols = out.cols /\ row.vals = out.vals /\ row.blob = out.o.buf.data
  OBVIOUS
<1> HIDE DEF row, S
<1>7. RowIs(row)
  BY <1>1, <1>3, <1>6 DEF RowIs
<1>8. /\ more \in Seq(S) /\ Len(rows) \in Nat /\ Len(more) = Len(rows) + 1
      /\ \A j \in 1..Len(rows) : more[j] = rows[j]
      /\ more[Len(rows) + 1] = row
  BY <1>2, <1>5, Appended
<1> HIDE DEF more
<1>9. \A r \in DOMAIN more : RowIs(more[r])
  <2>1. DOMAIN more = 1..(Len(rows) + 1) /\ DOMAIN rows = 1..Len(rows)
    BY <1>2, <1>8
  <2> SUFFICES ASSUME NEW r \in 1..(Len(rows) + 1) PROVE RowIs(more[r])
    BY <2>1
  <2>2. CASE r = Len(rows) + 1
    BY <1>7, <1>8, <2>2
  <2>3. CASE r # Len(rows) + 1
    <3>1. r \in DOMAIN rows
      BY <1>8, <2>1, <2>3
    <3> QED  BY <1>2, <1>8, <2>1, <3>1
  <2> QED  BY <2>2, <2>3
<1>10. Len(more) <= MaxRows
  <2>1. MaxRows \in Nat
    BY RowBlobAssumption
  <2> QED  BY <1>2, <1>8, <2>1
<1>11. RowsInv'
  BY <1>1, <1>8, <1>9, <1>10 DEF RowsInv, S
<1>12. WriteInv'
  BY <1>1 DEF WriteInv, Writing, NoRow
<1> QED  BY <1>1, <1>2, <1>11, <1>12, WriteKeeps

-----------------------------------------------------------------------------
(* The theorems *)

LEMMA InitIs == Init => IInv
<1> SUFFICES ASSUME Init PROVE IInv
  OBVIOUS
<1> DEFINE f == [j \in DOMAIN shape |-> NULL]
           c == [has_row |-> FALSE, fields |-> f]
<1>1. /\ shape \in ReaderShapes /\ cursor = c /\ refs = 0 /\ rows = << >> /\ out = NoRow
      /\ in = NoRead
  BY DEF Init
<1>2. in.phase = "none" /\ ~Writing
  BY <1>1 DEF NoRead, Writing, NoRow
<1>3. RowsInv
  <2> DEFINE S == Rows
             empty == << >>
  <2>1. rows = empty /\ empty \in Seq(S) /\ Len(empty) = 0 /\ DOMAIN empty = {}
    BY <1>1
  <2>2. MaxRows \in Nat
    BY RowBlobAssumption
  <2> HIDE DEF S, empty
  <2>3. Len(rows) <= MaxRows
    BY <2>1, <2>2
  <2> QED  BY <2>1, <2>3 DEF RowsInv, S
<1>4. CursorInv
  <2>1. f = [j \in DOMAIN shape |-> f[j]] /\ \A j \in DOMAIN shape : f[j] = NULL
    OBVIOUS
  <2> HIDE DEF f
  <2>2. Held(shape, f) = 0
    BY <1>1, <2>1, HeldFacts
  <2>3. c.has_row = FALSE /\ c.fields = f /\ c = [has_row |-> c.has_row, fields |-> c.fields]
    OBVIOUS
  <2> HIDE DEF c
  <2>4. CursorIs(shape, c, 0, in.phase)
    BY <2>1, <2>2, <2>3 DEF CursorIs
  <2> QED  BY <1>1, <2>4 DEF CursorInv
<1>5. ReadInv
  BY <1>2 DEF ReadInv
<1>6. WriteInv
  BY <1>2 DEF WriteInv
<1> QED  BY <1>1, <1>2, <1>3, <1>4, <1>5, <1>6 DEF IInv

LEMMA NextKeeps == IInv /\ [Next]_vars => IInv'
<1> SUFFICES ASSUME IInv, [Next]_vars PROVE IInv'
  OBVIOUS
<1>1. ASSUME NEW cols \in WriterShapes, WriteHeader(cols) PROVE IInv'
  BY <1>1, WriteHeaderNext
<1>2. ASSUME NEW v, WriteField(v) PROVE IInv'
  BY <1>2, WriteFieldNext
<1>3. CASE WriteEnd
  BY <1>3, WriteEndNext
<1>4. ASSUME NEW r \in DOMAIN rows, NEW n \in 0..Len(rows[r].blob), FromBlob(r, n) PROVE IInv'
  BY <1>4, FromBlobNext
<1>5. ASSUME NEW index \in -1..Len(rows), FromStream(index) PROVE IInv'
  <2>1. index \in Int
    OBVIOUS
  <2> QED  BY <1>5, <2>1, FromStreamNext
<1>6. CASE ReadField
  <2>1. in'.phase \in {"fields", "error"} /\ CursorInv' /\ ReadInv'
    BY <1>6, ReadFieldNext
  <2>2. UNCHANGED <<shape, rows, out>> /\ in.phase = "fields"
    BY <1>6 DEF ReadField
  <2> QED  BY <2>1, <2>2, ReadyFacts, ReadKeeps
<1>7. CASE ReadEnd
  <2>1. in'.phase = "ok" /\ CursorInv' /\ ReadInv'
    BY <1>7, ReadEndNext
  <2>2. UNCHANGED <<shape, rows, out>> /\ in.phase = "fields"
    BY <1>7 DEF ReadEnd
  <2> QED  BY <2>1, <2>2, ReadyFacts, ReadKeeps
<1>8. CASE UNCHANGED vars
  <2>1. /\ shape' = shape /\ cursor' = cursor /\ refs' = refs /\ rows' = rows /\ out' = out
        /\ in' = in
    BY <1>8 DEF vars
  <2>2. RowsInv' /\ CursorInv'
    BY <2>1 DEF IInv, RowsInv, CursorInv
  <2>3. WriteInv' /\ ReadInv'
    BY <2>1 DEF IInv, WriteInv, ReadInv, Writing
  <2> QED  BY <2>1, <2>2, <2>3 DEF IInv
<1> QED  BY <1>1, <1>2, <1>3, <1>4, <1>5, <1>6, <1>7, <1>8 DEF Next

LEMMA IInvHolds == Spec => []IInv
<1>1. Init => IInv
  BY InitIs
<1>2. IInv /\ [Next]_vars => IInv'
  BY NextKeeps
<1> QED  BY <1>1, <1>2, PTL DEF Spec

\* Types: the cursor has a field for every column of its shape, and the position
\* of the loop of cql_cursor_from_bytes is within the bytes or just after.
THEOREM RowBlobIsTyped == Spec => []RowBlobTypeOK
<1>1. ASSUME IInv PROVE RowBlobTypeOK
  <2> DEFINE f == cursor.fields
  <2>1. /\ shape \in ReaderShapes /\ in.phase \in {"none", "fields", "ok", "error"}
        /\ RowsInv /\ WriteInv /\ CursorIs(shape, cursor, refs, in.phase) /\ ReadInv
    BY <1>1 DEF IInv, CursorInv
  <2>2. cursor.has_row \in BOOLEAN /\ f = [j \in DOMAIN shape |-> f[j]] /\ refs = Held(shape, f)
    BY <2>1 DEF CursorIs
  <2>3. DOMAIN f = DOMAIN shape /\ refs \in Nat
    <3> HIDE DEF f
    <3> QED  BY <2>1, <2>2, HeldFacts
  <2>4. Len(rows) <= MaxRows /\ \A r \in DOMAIN rows : rows[r].cols \in WriterShapes
    BY <2>1, RowFacts DEF RowsInv
  <2>5. Writing => out.cols \in WriterShapes
    BY <2>1 DEF WriteInv, OutputIs
  <2>6. in.phase = "fields" => in.at \in 1..(Len(in.bytes) + 1)
    BY <2>1 DEF ReadInv, ReadingIs
  <2> QED  BY <2>1, <2>2, <2>3, <2>4, <2>5, <2>6 DEF RowBlobTypeOK
<1> QED  BY <1>1, IInvHolds, PTL

\* The strings and blobs that reading has made are those that the cursor holds:
\* cql_clear_references_before_deserialization runs at the start of every read
\* and at each of its error exits, so that none leaks or is released twice.
THEOREM ReferencesAreHeld == Spec => []CursorReferencesBalance
<1>1. ASSUME IInv PROVE CursorReferencesBalance
  <2>1. CursorIs(shape, cursor, refs, in.phase)
    BY <1>1 DEF IInv, CursorInv
  <2>2. RefsIn(cursor.fields) = Held(shape, cursor.fields)
    BY DEF RefsIn, Held, IsRef, RefAt
  <2> QED  BY <2>1, <2>2 DEF CursorReferencesBalance, CursorIs
<1> QED  BY <1>1, IInvHolds, PTL

\* cql_cursor_from_blob_stream finds at each index the blob that
\* cql_make_blob_stream was given there, and nothing at any other index.
THEOREM StreamsGiveTheirBlobs == Spec => []StreamIsItsBlobs
<1>1. ASSUME IInv PROVE StreamIsItsBlobs
  <2> DEFINE blobs == [r \in DOMAIN rows |-> rows[r].blob]
  <2>1. RowsInv
    BY <1>1 DEF IInv
  <2>2. blobs \in Seq(Seq(Nat)) /\ Len(blobs) = Len(rows) /\ Len(rows) \in Nat
    BY <2>1, BlobsOfRows
  <2> HIDE DEF blobs
  <2>3. ASSUME NEW index \in -1..(Len(rows) + 1)
        PROVE  IF index \in 0..(Len(rows) - 1)
               THEN StreamSlice(StreamOf(blobs), index).ok
                    /\ StreamSlice(StreamOf(blobs), index).val = blobs[index + 1]
               ELSE ~StreamSlice(StreamOf(blobs), index).ok
    <3>1. index \in Int
      OBVIOUS
    <3> QED  BY <2>2, <3>1, StreamSlices
  <2> QED  BY <2>3 DEF StreamIsItsBlobs, blobs
<1> QED  BY <1>1, IInvHolds, PTL

\* cql_cursor_from_bytes "is the inverse of cql_cursor_to_bytebuf" for every row
\* whose blob fits in the buffer's first block: a cursor whose shape the row
\* suits gets the row's values, and any other refuses it.
THEOREM SmallRowsReadBack ==
  Spec => [](Len(rows[in.row].blob) <= GrowthSize => ReadsBackWhatWasWritten)
<1> DEFINE small == Len(rows[in.row].blob) <= GrowthSize
<1>1. ASSUME IInv PROVE small => ReadsBackWhatWasWritten
  <2> DEFINE row == rows[in.row]
  <2> SUFFICES ASSUME Small(row.blob), in.phase \in {"ok", "error"}, in.whole
               PROVE  /\ in.phase = "ok" <=> Readable(row)
                      /\ in.phase = "ok" => cursor.fields = AsRead(row)
    BY DEF ReadsBackWhatWasWritten, Small
  <2>1. ReadIs(shape, rows, cursor, in)
    BY <1>1 DEF IInv, ReadInv
  <2>2. Readable(row) <=> Suits(shape, row.cols)
    BY DEF Readable, Suits
  <2>3. AsRead(row) = [j \in DOMAIN shape |-> FieldOf(row, j)]
    BY DEF AsRead, FieldOf
  <2>4. in.phase = "ok" => /\ Suits(shape, row.cols)
                           /\ cursor.fields = [j \in DOMAIN shape |-> FieldOf(row, j)]
    BY <2>1 DEF ReadIs
  <2>5. in.phase = "error" => ~Suits(shape, row.cols)
    BY <2>1 DEF ReadIs
  <2> HIDE DEF row
  <2> QED  BY <2>2, <2>3, <2>4, <2>5
<1> HIDE DEF small
<1>2. IInv => (small => ReadsBackWhatWasWritten)
  BY <1>1
<1>3. Spec => [](small => ReadsBackWhatWasWritten)
  BY <1>2, IInvHolds, PTL
<1> QED  BY <1>3 DEF small

\* A blob of such a row that was cut short is refused or read as the row that it
\* is from; it is never read as another one.
THEOREM SmallPrefixesAreNotMisread ==
  Spec => [](Len(rows[in.row].blob) <= GrowthSize => PrefixIsNeverMisread)
<1> DEFINE small == Len(rows[in.row].blob) <= GrowthSize
<1>1. ASSUME IInv PROVE small => PrefixIsNeverMisread
  <2> DEFINE row == rows[in.row]
  <2> SUFFICES ASSUME Small(row.blob), in.phase = "ok"
               PROVE  Readable(row) /\ cursor.fields = AsRead(row)
    BY DEF PrefixIsNeverMisread, Small
  <2>1. ReadIs(shape, rows, cursor, in)
    BY <1>1 DEF IInv, ReadInv
  <2>2. Readable(row) <=> Suits(shape, row.cols)
    BY DEF Readable, Suits
  <2>3. AsRead(row) = [j \in DOMAIN shape |-> FieldOf(row, j)]
    BY DEF AsRead, FieldOf
  <2>4. Suits(shape, row.cols) /\ cursor.fields = [j \in DOMAIN shape |-> FieldOf(row, j)]
    BY <2>1 DEF ReadIs
  <2> QED  BY <2>2, <2>3, <2>4
<1> HIDE DEF small
<1>2. IInv => (small => PrefixIsNeverMisread)
  BY <1>1
<1>3. Spec => [](small => PrefixIsNeverMisread)
  BY <1>2, IInvHolds, PTL
<1> QED  BY <1>3 DEF small
=============================================================================
