-------------------------- MODULE BackedTableProofs -------------------------
(***************************************************************************)
(* Proofs about BackedTable, for any tables, types, statements and values. *)
(*                                                                         *)
(* Every blob in the backing table is what Encode makes of a list of       *)
(* columns; the lemmas say what can be read back from it, how long it is,  *)
(* and that an update yields such a blob again.                            *)
(***************************************************************************)
EXTENDS BackedTable, Recursion

-----------------------------------------------------------------------------
(* Columns and what is written for them *)

\* Columns as Encode is given them, with ids in I
Column(I) == {c \in [id : I, type : Types, v : Values] : Compat(c.v, c.type)}

\* The variable parts of a list of columns, one after the other.
LEMMA VariablesDef ==
  ASSUME NEW C, NEW columns \in Seq(C), \A c \in C : Written(c) \in Seq(Nat)
  PROVE  /\ Variables(columns) \in [0..Len(columns) -> Seq(Nat)]
         /\ Variables(columns)[0] = << >>
         /\ \A n \in 1..Len(columns) :
              Variables(columns)[n] = Variables(columns)[n - 1] \o Written(columns[n])
<1> DEFINE N == Len(columns)
           V == Seq(Nat)
           base == << >>
           w == [n \in 1..N |-> Written(columns[n])]
           Eq(g) == [n \in 0..N |-> IF n = 0 THEN << >> ELSE g[n - 1] \o Written(columns[n])]
           U == CHOOSE g : g = Eq(g)
           step == [n \in 1..N |-> [x \in V |-> x \o w[n]]]
<1>1. N \in Nat /\ \A n \in 1..N : w[n] = Written(columns[n]) /\ w[n] \in V
  OBVIOUS
<1>2. Variables(columns) = U
  BY DEF Variables
<1>3. \A g : \A n \in 0..N : Eq(g)[n] = IF n = 0 THEN base ELSE g[n - 1] \o w[n]
  BY <1>1
<1>4. \A g : Eq(g) = [n \in 0..N |-> Eq(g)[n]]
  OBVIOUS
<1> HIDE DEF Eq, w, N
<1>5. \A n \in 1..N : \A x \in V : x \o w[n] \in V
  BY <1>1
<1>6. base \in V /\ step \in [1..N -> [V -> V]]
  BY <1>5
<1>7. \A n \in 1..N : \A x \in V : step[n][x] = x \o w[n]
  OBVIOUS
<1> HIDE DEF V, step, base
<1>8. PICK g : Recursive(g, V, base, N, step)
  BY <1>1, <1>6, RecursionExists
<1>9. g = Eq(g)
  <2>1. ASSUME NEW n \in 0..N PROVE g[n] = Eq(g)[n]
    <3>1. CASE n = 0
      BY <1>3, <1>8, <3>1 DEF Recursive
    <3>2. CASE n # 0
      <4>1. n \in 1..N /\ n - 1 \in 0..N
        BY <1>1, <3>2
      <4>2. g[n] = step[n][g[n - 1]] /\ g[n - 1] \in V
        BY <1>8, <4>1 DEF Recursive
      <4>3. g[n] = g[n - 1] \o w[n]
        BY <1>7, <4>1, <4>2
      <4> QED  BY <1>3, <3>2, <4>3
    <3> QED  BY <3>1, <3>2
  <2>2. g = [n \in 0..N |-> g[n]]
    BY <1>8 DEF Recursive
  <2>3. Eq(g) = [n \in 0..N |-> Eq(g)[n]]
    BY <1>4
  <2> QED  BY <2>1, <2>2, <2>3
<1>10. U = Eq(U)
  BY <1>9
<1> HIDE DEF U
<1>11. \A n \in 0..N : U[n] = IF n = 0 THEN base ELSE U[n - 1] \o w[n]
  BY <1>3, <1>10
<1> DEFINE T == {n \in Nat : n <= N => U[n] \in V}
<1>12. 0 \in T
  BY <1>1, <1>6, <1>11
<1>13. ASSUME NEW n \in Nat, n \in T PROVE n + 1 \in T
  <2> SUFFICES ASSUME n + 1 <= N PROVE U[n + 1] \in V
    OBVIOUS
  <2>1. n + 1 \in 1..N /\ n + 1 \in 0..N /\ n + 1 # 0 /\ (n + 1) - 1 = n /\ n <= N
    BY <1>1
  <2>2. U[n + 1] = U[n] \o w[n + 1]
    BY <1>11, <2>1
  <2>3. U[n] \in V
    BY <1>13, <2>1
  <2> QED  BY <1>5, <2>1, <2>2, <2>3
<1> HIDE DEF T
<1>14. \A n \in Nat : n \in T
  BY <1>12, <1>13, Induction
<1>15. \A n \in 0..N : U[n] \in V
  BY <1>1, <1>14 DEF T
<1>16. U = [n \in 0..N |-> U[n]]
  BY <1>4, <1>10
<1>17. U \in [0..N -> V]
  BY <1>15, <1>16
<1>18. U[0] = base
  BY <1>1, <1>11
<1>19. ASSUME NEW n \in 1..N PROVE U[n] = U[n - 1] \o w[n]
  <2>1. n \in 0..N /\ n # 0
    BY <1>1
  <2> QED  BY <1>11, <2>1
<1> QED  BY <1>1, <1>2, <1>17, <1>18, <1>19 DEF V, base, N

\* The columns that Only keeps, after each number of columns
Keeps(U, C, columns, S) ==
  /\ U \in [0..Len(columns) -> Seq(C)]
  /\ U[0] = << >>
  /\ \A n \in 1..Len(columns) :
       U[n] = IF n \in S THEN Append(U[n - 1], columns[n]) ELSE U[n - 1]
  /\ Only(columns, S) = U[Len(columns)]

LEMMA OnlyDef ==
  ASSUME NEW C, NEW columns \in Seq(C), NEW S
  PROVE  \E U : Keeps(U, C, columns, S)
<1> DEFINE N == Len(columns)
           V == Seq(C)
           base == << >>
           Eq(g) == [n \in 0..N |-> IF n = 0 THEN << >>
                                    ELSE IF n \in S THEN Append(g[n - 1], columns[n]) ELSE g[n - 1]]
           U == CHOOSE g : g = Eq(g)
           step == [n \in 1..N |-> [x \in V |-> IF n \in S THEN Append(x, columns[n]) ELSE x]]
<1>1. N \in Nat /\ \A n \in 1..N : columns[n] \in C
  OBVIOUS
<1>2. Only(columns, S) = U[N]
  BY DEF Only
<1>3. \A g : \A n \in 0..N : Eq(g)[n] = IF n = 0 THEN base
                                    ELSE IF n \in S THEN Append(g[n - 1], columns[n]) ELSE g[n - 1]
  BY <1>1
<1>4. \A g : Eq(g) = [n \in 0..N |-> Eq(g)[n]]
  OBVIOUS
<1> HIDE DEF Eq, N
<1>5. \A n \in 1..N : \A x \in V : (IF n \in S THEN Append(x, columns[n]) ELSE x) \in V
  BY <1>1
<1>6. base \in V /\ step \in [1..N -> [V -> V]]
  BY <1>5
<1>7. \A n \in 1..N : \A x \in V : step[n][x] = IF n \in S THEN Append(x, columns[n]) ELSE x
  OBVIOUS
<1> HIDE DEF V, step, base
<1>8. PICK g : Recursive(g, V, base, N, step)
  BY <1>1, <1>6, RecursionExists
<1>9. g = Eq(g)
  <2>1. ASSUME NEW n \in 0..N PROVE g[n] = Eq(g)[n]
    <3>1. CASE n = 0
      BY <1>3, <1>8, <3>1 DEF Recursive
    <3>2. CASE n # 0
      <4>1. n \in 1..N /\ n - 1 \in 0..N
        BY <1>1, <3>2
      <4>2. g[n] = step[n][g[n - 1]] /\ g[n - 1] \in V
        BY <1>8, <4>1 DEF Recursive
      <4>3. g[n] = IF n \in S THEN Append(g[n - 1], columns[n]) ELSE g[n - 1]
        BY <1>7, <4>1, <4>2
      <4> QED  BY <1>3, <3>2, <4>3
    <3> QED  BY <3>1, <3>2
  <2>2. g = [n \in 0..N |-> g[n]]
    BY <1>8 DEF Recursive
  <2>3. Eq(g) = [n \in 0..N |-> Eq(g)[n]]
    BY <1>4
  <2> QED  BY <2>1, <2>2, <2>3
<1>10. U = Eq(U)
  BY <1>9
<1> HIDE DEF U
<1>11. \A n \in 0..N : U[n] = IF n = 0 THEN base
                              ELSE IF n \in S THEN Append(U[n - 1], columns[n]) ELSE U[n - 1]
  BY <1>3, <1>10
<1> DEFINE T == {n \in Nat : n <= N => U[n] \in V}
<1>12. 0 \in T
  BY <1>1, <1>6, <1>11
<1>13. ASSUME NEW n \in Nat, n \in T PROVE n + 1 \in T
  <2> SUFFICES ASSUME n + 1 <= N PROVE U[n + 1] \in V
    OBVIOUS
  <2>1. n + 1 \in 1..N /\ n + 1 \in 0..N /\ n + 1 # 0 /\ (n + 1) - 1 = n /\ n <= N
    BY <1>1
  <2>2. U[n + 1] = IF n + 1 \in S THEN Append(U[n], columns[n + 1]) ELSE U[n]
    BY <1>11, <2>1
  <2>3. U[n] \in V
    BY <1>13, <2>1
  <2> QED  BY <1>5, <2>1, <2>2, <2>3
<1> HIDE DEF T
<1>14. \A n \in Nat : n \in T
  BY <1>12, <1>13, Induction
<1>15. \A n \in 0..N : U[n] \in V
  BY <1>1, <1>14 DEF T
<1>16. U = [n \in 0..N |-> U[n]]
  BY <1>4, <1>10
<1>17. U \in [0..N -> V]
  BY <1>15, <1>16
<1>18. U[0] = base /\ \A n \in 1..N : U[n] = IF n \in S THEN Append(U[n - 1], columns[n]) ELSE U[n - 1]
  BY <1>1, <1>11
<1> QED  BY <1>1, <1>2, <1>17, <1>18 DEF Keeps, V, base, N

\* One sequence after another
LEMMA Concatenation ==
  ASSUME NEW s \in Seq(Nat), NEW t \in Seq(Nat)
  PROVE  /\ s \o t \in Seq(Nat) /\ Len(s) \in Nat /\ Len(t) \in Nat
         /\ Len(s \o t) = Len(s) + Len(t) /\ Len(s \o t) \in Nat /\ Len(s) <= Len(s \o t)
         /\ \A j \in 1..Len(s) : (s \o t)[j] = s[j]
         /\ \A j \in 1..Len(t) : (s \o t)[Len(s) + j] = t[j]
OBVIOUS

LEMMA SameSequence ==
  ASSUME NEW s \in Seq(Nat), NEW t \in Seq(Nat), Len(s) = Len(t), \A j \in 1..Len(s) : s[j] = t[j]
  PROVE  s = t
OBVIOUS

LEMMA IsSequence ==
  ASSUME NEW C, NEW n \in Nat, NEW f, f = [i \in 1..n |-> f[i]], \A i \in 1..n : f[i] \in C
  PROVE  f \in Seq(C) /\ Len(f) = n /\ DOMAIN f = 1..n
<1>1. f \in [1..n -> C]
  OBVIOUS
<1> QED  BY <1>1

\* A value that a column takes, and what is written for it.
LEMMA ColumnFacts ==
  ASSUME NEW I, NEW c \in Column(I)
  PROVE  /\ c.id \in I /\ c.type \in Types /\ c.v \in Values /\ c.v # NULL
         /\ c.v.s \in Seq(Nat) /\ c.v.i \in Int
         /\ c = [id |-> c.id, type |-> c.type, v |-> c.v]
         /\ c.type \in {"BOOL", "INT32", "INT64", "FLOAT"} => c.v.s = << >>
         /\ VariableSize(c.v, c.type) \in Nat
         /\ Written(c) \in Seq(Nat) /\ Len(Written(c)) = VariableSize(c.v, c.type)
<1>1. c \in [id : I, type : Types, v : Values] /\ Compat(c.v, c.type)
  BY DEF Column
<1>2. c.id \in I /\ c.type \in Types /\ c.v \in Values /\ c = [id |-> c.id, type |-> c.type, v |-> c.v]
  BY <1>1
<1>3. NULL.st = "NULL" /\ NULL.i = 0 /\ NULL.s = << >>
  BY BackedTableAssumption
<1>4. c.v # NULL
  BY <1>1, <1>2, <1>3 DEF Compat, Types
<1>5. c.v.s \in Seq(Nat) /\ c.v.i \in Int
  <2>1. << >> \in Seq(Nat)
    OBVIOUS
  <2>2. CASE c.v \in [st : {"INTEGER", "FLOAT"}, i : Int, s : {<< >>}]
    BY <2>1, <2>2
  <2>3. CASE c.v \in [st : {"TEXT", "BLOB"}, i : {0}, s : Seq(Nat)]
    <3>1. c.v.s \in Seq(Nat) /\ c.v.i \in {0}
      BY <2>3
    <3> QED  BY <3>1
  <2> QED  BY <1>2, <1>4, <2>2, <2>3 DEF Values
<1>6. c.type \in {"BOOL", "INT32", "INT64", "FLOAT"} => c.v.s = << >>
  BY <1>1, <1>2, <1>3 DEF Values, Compat
<1>7. VariableSize(c.v, c.type) \in Nat
  BY <1>5 DEF VariableSize
<1>8. Written(c) \in Seq(Nat)
  BY <1>5 DEF Written
<1>9. Len(Written(c)) = VariableSize(c.v, c.type)
  BY <1>5 DEF Written, VariableSize
<1> QED  BY <1>2, <1>4, <1>5, <1>6, <1>7, <1>8, <1>9

\* The value that a column then has: a bool is 0 or 1 and a number in a column of
\* floats a float.  It takes the same bytes.
Stored(c) == [c EXCEPT !.v = KT!Stored(c.type, c.v)]

LEMMA StoredFacts ==
  ASSUME NEW I, NEW c \in Column(I)
  PROVE  /\ Stored(c) \in Column(I) /\ Stored(c).id = c.id /\ Stored(c).type = c.type
         /\ Stored(c).v = KT!Stored(c.type, c.v)
         /\ Written(Stored(c)) = Written(c)
         /\ VariableSize(Stored(c).v, c.type) = VariableSize(c.v, c.type)
         /\ \A here : FixedPart(Stored(c), here) = FixedPart(c, here)
<1> DEFINE w == KT!Stored(c.type, c.v)
<1>1. c \in [id : I, type : Types, v : Values] /\ Compat(c.v, c.type) /\ c.v # NULL
      /\ c.type \in Types /\ c.v.i \in Int /\ c.v \in Values
  BY ColumnFacts DEF Column
<1>2. w = CASE c.type = "BOOL" -> [c.v EXCEPT !.i = IF c.v.i = 0 THEN 0 ELSE 1]
            [] c.type = "FLOAT" -> [c.v EXCEPT !.st = "FLOAT"]
            [] OTHER -> c.v
  BY <1>1 DEF KT!Stored
<1>3. c.type \in {"BOOL", "FLOAT"} => c.v \in [st : {"INTEGER", "FLOAT"}, i : Int, s : {<< >>}]
  BY <1>1 DEF Values, Compat
<1>4. w \in Values /\ Compat(w, c.type) /\ w.s = c.v.s
  <2>1. CASE c.type = "BOOL"
    BY <1>1, <1>2, <1>3, <2>1 DEF Values, Compat
  <2>2. CASE c.type = "FLOAT"
    BY <1>1, <1>2, <1>3, <2>2 DEF Values, Compat
  <2>3. CASE c.type \notin {"BOOL", "FLOAT"}
    BY <1>1, <1>2, <2>3
  <2> QED  BY <2>1, <2>2, <2>3
<1>5. c.type = "BOOL" => (w.i = 0 <=> c.v.i = 0)
  BY <1>2, <1>3
<1>6. c.type # "BOOL" => w.i = c.v.i
  BY <1>2, <1>3
<1> HIDE DEF w
<1>7. Stored(c) = [c EXCEPT !.v = w]
  BY DEF Stored, w
<1>8. Stored(c) \in [id : I, type : Types, v : Values] /\ Stored(c).id = c.id /\ Stored(c).type = c.type /\ Stored(c).v = w
  BY <1>1, <1>4, <1>7
<1>9. Stored(c) \in Column(I)
  BY <1>4, <1>8 DEF Column
<1>10. Written(Stored(c)) = Written(c) /\ VariableSize(w, c.type) = VariableSize(c.v, c.type)
  BY <1>4, <1>8 DEF Written, VariableSize
<1>11. ASSUME NEW here PROVE FixedPart(Stored(c), here) = FixedPart(c, here)
  BY <1>4, <1>5, <1>6, <1>8 DEF FixedPart
<1> QED  BY <1>8, <1>9, <1>10, <1>11 DEF w

\* The sizes of the columns
Sizes(columns) == [n \in DOMAIN columns |-> VariableSize(columns[n].v, columns[n].type)]

LEMMA SizesFacts ==
  ASSUME NEW I, NEW columns \in Seq(Column(I))
  PROVE  /\ Sizes(columns) \in [1..Len(columns) -> Nat]
         /\ Sizes(columns) \in [1..Len(columns) -> Int]
         /\ \A n \in 1..Len(columns) : Sizes(columns)[n] = VariableSize(columns[n].v, columns[n].type)
         /\ SizeOf(columns) = Total(Sizes(columns))
<1> DEFINE C == Column(I)
<1>1. columns \in Seq(C) /\ \A c \in C : VariableSize(c.v, c.type) \in Nat
  BY ColumnFacts
<1> HIDE DEF C
<1>2. DOMAIN columns = 1..Len(columns) /\ \A n \in 1..Len(columns) : columns[n] \in C
  BY <1>1
<1>3. \A n \in 1..Len(columns) : VariableSize(columns[n].v, columns[n].type) \in Nat
  BY <1>1, <1>2
<1>4. Sizes(columns) \in [1..Len(columns) -> Nat]
  BY <1>2, <1>3 DEF Sizes
<1>5. \A n \in 1..Len(columns) : Sizes(columns)[n] = VariableSize(columns[n].v, columns[n].type)
  BY <1>2 DEF Sizes
<1>6. SizeOf(columns) = Total(Sizes(columns))
  BY DEF SizeOf, Sizes
<1> QED  BY <1>4, <1>5, <1>6

\* What is written for the first columns is as long as their sizes say, and it
\* stays where it is when more is written.
\* Each of the sequences U[0], ..., U[N] begins with the ones before it.
Grows(U, N) ==
  \A m, n \in 0..N : m <= n =>
    Len(U[m]) <= Len(U[n]) /\ \A j \in 1..Len(U[m]) : U[n][j] = U[m][j]

LEMMA VariablesFacts ==
  ASSUME NEW I, NEW columns \in Seq(Column(I))
  PROVE  LET N == Len(columns)
             U == Variables(columns)
         IN /\ U \in [0..N -> Seq(Nat)] /\ U[0] = << >>
            /\ \A n \in 1..N : U[n] = U[n - 1] \o Written(columns[n])
            /\ \A n \in 0..N : Len(U[n]) = Sums(Sizes(columns))[n]
            /\ \A n \in 1..N : Len(U[n]) = Len(U[n - 1]) + VariableSize(columns[n].v, columns[n].type)
            /\ Grows(U, N)
            /\ Len(U[N]) = SizeOf(columns) /\ SizeOf(columns) \in Nat
<1> DEFINE C == Column(I)
           N == Len(columns)
           U == Variables(columns)
           w == [n \in 1..N |-> Written(columns[n])]
           F == Sums(Sizes(columns))
<1>1. columns \in Seq(C) /\ \A c \in C : Written(c) \in Seq(Nat) /\ Len(Written(c)) = VariableSize(c.v, c.type)
  BY ColumnFacts
<1> HIDE DEF C
<1>2. U \in [0..N -> Seq(Nat)] /\ U[0] = << >> /\ \A n \in 1..N : U[n] = U[n - 1] \o Written(columns[n])
  BY <1>1, VariablesDef
<1>3. N \in Nat /\ \A n \in 1..N : columns[n] \in C
  BY <1>1
<1>4. \A n \in 1..N : w[n] = Written(columns[n]) /\ w[n] \in Seq(Nat) /\ Len(w[n]) = Sizes(columns)[n]
  BY <1>1, <1>3, SizesFacts
<1>5. Sizes(columns) \in [1..N -> Int] /\ SizeOf(columns) = Total(Sizes(columns))
      /\ \A n \in 1..N : Sizes(columns)[n] = VariableSize(columns[n].v, columns[n].type)
  BY SizesFacts
<1>6. F[0] = 0 /\ (\A n \in 1..N : F[n] = F[n - 1] + Sizes(columns)[n]) /\ SizeOf(columns) = F[N]
  BY <1>3, <1>5, SumsDef
<1> HIDE DEF N, U, w, F
<1>7. \A n \in 1..N : U[n] = U[n - 1] \o w[n] /\ U[n] \in Seq(Nat) /\ U[n - 1] \in Seq(Nat)
  <2> TAKE n \in 1..N
  <2>1. n \in 0..N /\ n - 1 \in 0..N
    BY <1>3
  <2> QED  BY <1>2, <1>4, <2>1
<1>8. \A n \in 1..N : Len(U[n]) = Len(U[n - 1]) + Len(w[n])
  <2> TAKE n \in 1..N
  <2> DEFINE a == U[n - 1]
             b == w[n]
  <2>1. a \in Seq(Nat) /\ b \in Seq(Nat) /\ U[n] = a \o b
    BY <1>4, <1>7
  <2> HIDE DEF a, b
  <2>2. Len(U[n]) = Len(a) + Len(b)
    BY <2>1, Concatenation
  <2> QED  BY <2>2 DEF a, b
<1>9. \A n \in 0..N : Len(U[n]) = F[n]
  <2> DEFINE T == {n \in Nat : n <= N => Len(U[n]) = F[n]}
  <2>1. 0 \in T
    BY <1>2, <1>6
  <2>2. ASSUME NEW n \in Nat, n \in T PROVE n + 1 \in T
    <3> SUFFICES ASSUME n + 1 <= N PROVE Len(U[n + 1]) = F[n + 1]
      OBVIOUS
    <3>1. n + 1 \in 1..N /\ (n + 1) - 1 = n /\ n <= N
      BY <1>3
    <3>2. Len(U[n + 1]) = Len(U[n]) + Len(w[n + 1])
      BY <1>8, <3>1
    <3>3. F[n + 1] = F[n] + Sizes(columns)[n + 1]
      BY <1>6, <3>1
    <3>4. Len(U[n]) = F[n] /\ Len(w[n + 1]) = Sizes(columns)[n + 1]
      BY <1>4, <2>2, <3>1
    <3> QED  BY <3>2, <3>3, <3>4
  <2> HIDE DEF T
  <2>3. \A n \in Nat : n \in T
    BY <2>1, <2>2, Induction
  <2> QED  BY <1>3, <2>3 DEF T
<1>10. ASSUME NEW m \in 0..N
       PROVE  \A n \in 0..N : m <= n =>
                Len(U[m]) <= Len(U[n]) /\ \A j \in 1..Len(U[m]) : U[n][j] = U[m][j]
  <2> DEFINE s == U[m]
             Holds(n) == Len(s) <= Len(U[n]) /\ \A j \in 1..Len(s) : U[n][j] = s[j]
             T == {n \in Nat : m <= n /\ n <= N => Holds(n)}
  <2>1. s \in Seq(Nat) /\ Len(s) \in Nat /\ m \in Nat
    BY <1>2, <1>3
  <2>2. 0 \in T
    <3> SUFFICES ASSUME m <= 0 PROVE Holds(0)
      OBVIOUS
    <3>1. m = 0
      BY <2>1
    <3> QED  BY <2>1, <3>1
  <2>3. ASSUME NEW n \in Nat, n \in T PROVE n + 1 \in T
    <3> SUFFICES ASSUME m <= n + 1, n + 1 <= N PROVE Holds(n + 1)
      OBVIOUS
    <3>1. CASE m = n + 1
      BY <2>1, <3>1
    <3>2. CASE m # n + 1
      <4>1. m <= n /\ n <= N /\ n + 1 \in 1..N /\ (n + 1) - 1 = n
        BY <1>3, <2>1, <3>2
      <4>2. Holds(n)
        BY <2>3, <4>1
      <4>3. U[n + 1] = U[n] \o w[n + 1] /\ U[n] \in Seq(Nat) /\ w[n + 1] \in Seq(Nat)
        BY <1>4, <1>7, <4>1
      <4>4. Len(U[n]) <= Len(U[n + 1]) /\ \A j \in 1..Len(U[n]) : U[n + 1][j] = U[n][j]
        <5> DEFINE a == U[n]
                   b == w[n + 1]
        <5>1. a \in Seq(Nat) /\ b \in Seq(Nat) /\ U[n + 1] = a \o b
          BY <4>3
        <5> HIDE DEF a, b
        <5>2. Len(a) <= Len(U[n + 1]) /\ \A j \in 1..Len(a) : U[n + 1][j] = a[j]
          BY <5>1, Concatenation
        <5> QED  BY <5>2 DEF a
      <4>5. Len(U[n]) \in Nat /\ Len(U[n + 1]) \in Nat
        BY <4>3, Concatenation
      <4> QED  BY <2>1, <4>2, <4>4, <4>5
    <3> QED  BY <3>1, <3>2
  <2> HIDE DEF T
  <2>4. \A n \in Nat : n \in T
    BY <2>2, <2>3, Induction
  <2> QED  BY <1>3, <2>4 DEF T
<1>11. \A n \in 1..N : Len(U[n]) = Len(U[n - 1]) + VariableSize(columns[n].v, columns[n].type)
  BY <1>4, <1>5, <1>8
<1>12. Len(U[N]) = SizeOf(columns) /\ SizeOf(columns) \in Nat
  <2>1. N \in 0..N /\ U[N] \in Seq(Nat)
    BY <1>2, <1>3
  <2>2. Len(U[N]) = F[N] /\ Len(U[N]) \in Nat
    BY <1>9, <2>1
  <2> QED  BY <1>6, <2>2
<1>13. Grows(U, N)
  BY <1>10 DEF Grows
<1> QED  BY <1>2, <1>9, <1>11, <1>12, <1>13 DEF N, U, F

LEMMA SizeOfFacts ==
  ASSUME NEW I, NEW columns \in Seq(Column(I))
  PROVE  SizeOf(columns) \in Nat
BY VariablesFacts

-----------------------------------------------------------------------------
(* Blobs *)

\* The parts of a blob: the variable part is as long as the sizes of its columns
\* say, and each column refers to its own stretch of it.
HasParts(b, rt, columns, start, size) ==
  /\ b = [rt |-> b.rt, cols |-> b.cols, var |-> b.var, size |-> b.size]
  /\ b.rt = rt /\ b.size = size /\ b.var = Variables(columns)[Len(columns)]
  /\ DOMAIN b.cols = 1..Len(columns) /\ Len(b.cols) = Len(columns)
  /\ \A n \in 1..Len(columns) :
       b.cols[n] = FixedPart(columns[n], start + Len(Variables(columns)[n - 1]))
  /\ b.var \in Seq(Nat) /\ Len(b.var) = SizeOf(columns) /\ Len(b.var) \in Nat

LEMMA EncodeParts ==
  ASSUME NEW I, NEW columns \in Seq(Column(I)), NEW rt, NEW start, NEW size,
         NEW b, b = Encode(rt, columns, start, size)
  PROVE  HasParts(b, rt, columns, start, size)
<1> DEFINE N == Len(columns)
           U == Variables(columns)
           C == Column(I)
           cols == [n \in DOMAIN columns |-> FixedPart(columns[n], start + Len(U[n - 1]))]
<1>1. b = [rt |-> rt, cols |-> cols, var |-> U[N], size |-> size]
  BY DEF Encode
<1>2. U \in [0..N -> Seq(Nat)] /\ Len(U[N]) = SizeOf(columns) /\ SizeOf(columns) \in Nat
  BY VariablesFacts
<1>3. columns \in Seq(C)
  OBVIOUS
<1> HIDE DEF C
<1>4. N \in Nat /\ DOMAIN columns = 1..N
  BY <1>3
<1>5. \A n \in 1..N : cols[n] = FixedPart(columns[n], start + Len(U[n - 1]))
  BY <1>4
<1>6. DOMAIN cols = 1..N
  BY <1>4
<1> HIDE DEF N, U, cols
<1>7. b.rt = rt /\ b.size = size /\ b.var = U[N] /\ b.cols = cols
      /\ b = [rt |-> b.rt, cols |-> b.cols, var |-> b.var, size |-> b.size]
  BY <1>1
<1>8. N \in 0..N
  BY <1>4
<1>9. Len(cols) = N
  BY <1>4, <1>6
<1>10. U[N] \in Seq(Nat)
  BY <1>2, <1>8
<1> QED  BY <1>2, <1>5, <1>6, <1>7, <1>9, <1>10 DEF HasParts, N, U

\* c is column x of blob b, with its bytes after the first `here' of the variable part.
HoldsAt(b, c, x, start, here) ==
  /\ c.id = x.id /\ c.type = x.type
  /\ StoredSize(c) = VariableSize(x.v, x.type) /\ StoredSize(c) \in Nat
  /\ c.type = "BOOL" => c.i = (IF x.v.i = 0 THEN 0 ELSE 1)
  /\ c.type \in {"INT32", "INT64", "FLOAT"} => c.i = x.v.i
  /\ Variable(c.type) => c.off = start + here /\ c.len = Len(x.v.s)
  /\ here \in Nat /\ here + StoredSize(c) <= Len(b.var)
  /\ \A j \in 1..StoredSize(c) : b.var[here + j] = Written(x)[j]

LEMMA EncodeColumn ==
  ASSUME NEW I, NEW columns \in Seq(Column(I)), NEW rt, NEW start \in Nat, NEW size,
         NEW b, b = Encode(rt, columns, start, size), NEW n \in 1..Len(columns)
  PROVE  HoldsAt(b, b.cols[n], columns[n], start, Len(Variables(columns)[n - 1]))
<1> DEFINE N == Len(columns)
           U == Variables(columns)
           here == Len(U[n - 1])
           x == columns[n]
           c == b.cols[n]
<1>1. c = FixedPart(x, start + here) /\ b.var = U[N]
  <2>1. HasParts(b, rt, columns, start, size)
    BY EncodeParts
  <2> QED  BY <2>1 DEF HasParts
<1>2. x \in Column(I)
  OBVIOUS
<1>3. x.type \in Types /\ x.v.s \in Seq(Nat) /\ VariableSize(x.v, x.type) \in Nat
      /\ Written(x) \in Seq(Nat) /\ Len(Written(x)) = VariableSize(x.v, x.type)
  BY <1>2, ColumnFacts
<1>4. /\ U \in [0..N -> Seq(Nat)] /\ U[n] = U[n - 1] \o Written(x)
      /\ Len(U[n]) = here + VariableSize(x.v, x.type)
  BY VariablesFacts
<1>5. N \in Nat /\ n \in 0..N /\ N \in 0..N /\ n - 1 \in 0..N /\ n <= N
  OBVIOUS
<1>6. Len(U[n]) <= Len(U[N]) /\ \A j \in 1..Len(U[n]) : U[N][j] = U[n][j]
  <2>1. Grows(U, N)
    BY VariablesFacts
  <2> HIDE DEF U, N
  <2> QED  BY <1>5, <2>1 DEF Grows
<1> HIDE DEF N, U, x, c
<1>7. here \in Nat
  BY <1>4, <1>5
<1> DEFINE h == here
           w == Written(x)
<1>8. \A j \in 1..Len(w) : U[n][h + j] = w[j]
  <2> DEFINE a == U[n - 1]
  <2>1. a \in Seq(Nat) /\ w \in Seq(Nat) /\ U[n] = a \o w /\ h = Len(a)
    BY <1>3, <1>4, <1>5
  <2> HIDE DEF a, w, h
  <2>2. \A j \in 1..Len(w) : (a \o w)[Len(a) + j] = w[j]
    BY <2>1, Concatenation
  <2> QED  BY <2>1, <2>2
<1>9. c.id = x.id /\ c.type = x.type
      /\ (x.type = "BOOL" => c.i = (IF x.v.i = 0 THEN 0 ELSE 1))
      /\ (x.type \in {"INT32", "INT64", "FLOAT"} => c.i = x.v.i)
      /\ c.off = (IF Variable(x.type) THEN start + here ELSE 0)
      /\ c.len = (IF Variable(x.type) THEN Len(x.v.s) ELSE 0)
  <2> HIDE DEF here
  <2> QED  BY <1>1 DEF FixedPart
<1> HIDE DEF here
<1>10. StoredSize(c) = VariableSize(x.v, x.type)
  BY <1>9 DEF StoredSize, VariableSize, Variable
<1>11. here + StoredSize(c) <= Len(b.var)
  BY <1>1, <1>4, <1>6, <1>10
<1>12. ASSUME NEW j \in 1..StoredSize(c) PROVE b.var[here + j] = Written(x)[j]
  <2>1. here + j \in 1..Len(U[n]) /\ j \in 1..Len(w)
    BY <1>3, <1>4, <1>7, <1>10
  <2>2. b.var[here + j] = U[n][here + j]
    BY <1>1, <1>6, <2>1
  <2> QED  BY <1>8, <2>1, <2>2
<1>13. StoredSize(c) \in Nat
  BY <1>3, <1>10
<1> QED  BY <1>7, <1>9, <1>10, <1>11, <1>12, <1>13 DEF HoldsAt, x, c, here, U

\* The columns are read back from a blob as they were stored.
LEMMA DecodeEncode ==
  ASSUME NEW I, NEW columns \in Seq(Column(I)), NEW rt, NEW start \in Nat, NEW size,
         NEW b, b = Encode(rt, columns, start, size), NEW n \in 1..Len(columns)
  PROVE  Decode(b, b.cols[n], start) = Stored(columns[n]).v
<1> DEFINE c == b.cols[n]
           here == Len(Variables(columns)[n - 1])
           x == columns[n]
           v == x.v
<1>1. HoldsAt(b, c, x, start, here)
  BY EncodeColumn
<1>2. b.var \in Seq(Nat) /\ Len(b.var) \in Nat
  <2>1. HasParts(b, rt, columns, start, size)
    BY EncodeParts
  <2> QED  BY <2>1 DEF HasParts
<1>3. x \in Column(I)
  OBVIOUS
<1>4. Stored(x).v = KT!Stored(x.type, v) /\ v # NULL /\ v \in Values /\ x.type \in Types /\ v.s \in Seq(Nat)
      /\ (x.type \in {"BOOL", "INT32", "INT64", "FLOAT"} => v.s = << >>)
  BY <1>3, ColumnFacts, StoredFacts
<1>5. Compat(v, x.type)
  BY <1>3 DEF Column
<1> SUFFICES Decode(b, c, start) = Stored(x).v
  OBVIOUS
<1> HIDE DEF c, here, x, v
<1>6. Stored(x).v = CASE x.type = "BOOL" -> [v EXCEPT !.i = IF v.i = 0 THEN 0 ELSE 1]
                      [] x.type = "FLOAT" -> [v EXCEPT !.st = "FLOAT"]
                      [] OTHER -> v
  BY <1>4 DEF KT!Stored
<1>7. CASE x.type \in {"BOOL", "INT32", "INT64", "FLOAT"}
  <2>1. v \in [st : {"INTEGER", "FLOAT"}, i : Int, s : {<< >>}]
    BY <1>4, <1>5, <1>7 DEF Values, Compat
  <2>2. v = [st |-> v.st, i |-> v.i, s |-> << >>] /\ v.i \in Int
    BY <2>1
  <2>3. CASE x.type = "BOOL"
    <3>1. v.st = "INTEGER"
      BY <1>5, <2>3 DEF Compat
    <3>2. c.i = (IF v.i = 0 THEN 0 ELSE 1)
      BY <1>1, <2>3 DEF HoldsAt, v
    <3>3. Decode(b, c, start) = [st |-> "INTEGER", i |-> IF c.i = 0 THEN 0 ELSE 1, s |-> << >>]
      BY <1>1, <2>3 DEF HoldsAt, Decode
    <3>4. [v EXCEPT !.i = IF v.i = 0 THEN 0 ELSE 1] = [st |-> v.st, i |-> IF v.i = 0 THEN 0 ELSE 1, s |-> << >>]
      BY <2>1
    <3>5. Stored(x).v = [v EXCEPT !.i = IF v.i = 0 THEN 0 ELSE 1]
      BY <1>6, <2>3
    <3> QED  BY <3>1, <3>2, <3>3, <3>4, <3>5
  <2>4. CASE x.type \in {"INT32", "INT64"}
    <3>1. v.st = "INTEGER"
      BY <1>5, <2>4 DEF Compat
    <3>2. c.i = v.i
      BY <1>1, <2>4 DEF HoldsAt, v
    <3>3. Decode(b, c, start) = [st |-> "INTEGER", i |-> c.i, s |-> << >>]
      BY <1>1, <2>4 DEF HoldsAt, Decode
    <3>4. Stored(x).v = v
      BY <1>6, <2>4
    <3> QED  BY <2>2, <3>1, <3>2, <3>3, <3>4
  <2>5. CASE x.type = "FLOAT"
    <3>2. c.i = v.i
      BY <1>1, <2>5 DEF HoldsAt, v
    <3>3. Decode(b, c, start) = [st |-> "FLOAT", i |-> c.i, s |-> << >>]
      BY <1>1, <2>5 DEF HoldsAt, Decode
    <3>4. [v EXCEPT !.st = "FLOAT"] = [st |-> "FLOAT", i |-> v.i, s |-> << >>]
      BY <2>1
    <3>5. Stored(x).v = [v EXCEPT !.st = "FLOAT"]
      BY <1>6, <2>5
    <3> QED  BY <3>2, <3>3, <3>4, <3>5
  <2> QED  BY <1>7, <2>3, <2>4, <2>5
<1>8. CASE x.type \in {"STRING", "BLOB"}
  <2>1. v \in [st : {"TEXT", "BLOB"}, i : {0}, s : Seq(Nat)]
    BY <1>4, <1>5, <1>8 DEF Values, Compat
  <2>2. v = [st |-> v.st, i |-> 0, s |-> v.s]
    BY <2>1
  <2>3. v.st = (IF x.type = "STRING" THEN "TEXT" ELSE "BLOB")
    BY <1>5, <1>8 DEF Compat
  <2>4. c.off - start = here /\ c.len = Len(v.s)
    BY <1>1, <1>8 DEF HoldsAt, Variable, v
  <2> DEFINE k == Len(v.s)
             s == v.s
             var == b.var
             sub == SubSeq(var, here + 1, here + k)
  <2>5. k \in Nat /\ k <= StoredSize(c) /\ \A j \in 1..k : Written(x)[j] = s[j]
    <3>1. CASE x.type = "STRING"
      <4>1. Written(x) = s \o <<0>> /\ s \in Seq(Nat) /\ <<0>> \in Seq(Nat)
        <5>1. Written(x) = s \o <<0>>
          BY <3>1 DEF Written, v
        <5>2. s \in Seq(Nat)
          BY <1>4
        <5> HIDE DEF s
        <5> QED  BY <5>1, <5>2
      <4>2. StoredSize(c) = k + 1
        BY <1>1, <3>1 DEF HoldsAt, VariableSize, v
      <4>3. k \in Nat /\ \A j \in 1..k : Written(x)[j] = s[j]
        <5> DEFINE z == <<0>>
        <5> HIDE DEF s, z
        <5>1. s \in Seq(Nat) /\ z \in Seq(Nat) /\ Written(x) = s \o z
          BY <4>1 DEF z
        <5>2. Len(s) \in Nat /\ \A j \in 1..Len(s) : (s \o z)[j] = s[j]
          BY <5>1, Concatenation
        <5> QED  BY <5>1, <5>2 DEF s
      <4> QED  BY <4>2, <4>3
    <3>2. CASE x.type = "BLOB"
      BY <1>1, <1>4, <3>2 DEF HoldsAt, VariableSize, Written, v
    <3> QED  BY <1>8, <3>1, <3>2
  <2>6. Bytes(b, c, start) = sub
    BY <2>4 DEF Bytes
  <2>7. sub = s
    <3> HIDE DEF s, var, k
    <3>1. s \in Seq(Nat) /\ Len(s) = k /\ k \in Nat /\ var \in Seq(Nat) /\ here \in Nat /\ here + k <= Len(var)
      BY <1>1, <1>2, <1>4, <2>5 DEF HoldsAt, s, var, k
    <3>2. \A j \in 1..k : var[here + j] = s[j]
      BY <1>1, <2>5 DEF HoldsAt, var
    <3>3. sub \in Seq(Nat) /\ Len(sub) = k /\ \A j \in 1..k : sub[j] = var[here + j]
      BY <3>1
    <3> HIDE DEF sub
    <3> QED  BY <3>1, <3>2, <3>3, SameSequence
  <2>8. Decode(b, c, start) = [st |-> IF x.type = "STRING" THEN "TEXT" ELSE "BLOB", i |-> 0, s |-> Bytes(b, c, start)]
    BY <1>1, <1>8 DEF HoldsAt, Decode
  <2>9. Stored(x).v = v
    BY <1>6, <1>8
  <2> QED  BY <2>2, <2>3, <2>6, <2>7, <2>8, <2>9
<1> QED  BY <1>4, <1>7, <1>8 DEF Types

\* The properties of a blob that StoredBlobsAreValid is about
Sound(b, start) ==
  /\ Valid(b, start)
  /\ Len(b.var) <= b.size
  /\ \A m, n \in DOMAIN b.cols :
       (m < n /\ Variable(b.cols[m].type) /\ Variable(b.cols[n].type)) =>
          b.cols[m].off + StoredSize(b.cols[m]) <= b.cols[n].off

\* Encode makes sound blobs when it has enough space.
LEMMA EncodeSound ==
  ASSUME NEW I, NEW columns \in Seq(Column(I)), NEW rt, NEW start \in Nat, NEW size \in Int,
         SizeOf(columns) <= size, NEW b, b = Encode(rt, columns, start, size)
  PROVE  Sound(b, start)
<1> DEFINE N == Len(columns)
           U == Variables(columns)
           C == Column(I)
<1>1. /\ DOMAIN b.cols = 1..N /\ b.var \in Seq(Nat) /\ Len(b.var) = SizeOf(columns) /\ Len(b.var) \in Nat
      /\ b.size = size
  <2>1. HasParts(b, rt, columns, start, size)
    BY EncodeParts
  <2> QED  BY <2>1 DEF HasParts
<1>2. \A n \in 1..N : HoldsAt(b, b.cols[n], columns[n], start, Len(U[n - 1]))
  BY EncodeColumn
<1>3. N \in Nat /\ \A n \in 1..N : columns[n] \in C
  <2>1. columns \in Seq(C)
    OBVIOUS
  <2> HIDE DEF C
  <2> QED  BY <2>1
<1>4. \A n \in 1..N : Len(U[n]) = Len(U[n - 1]) + VariableSize(columns[n].v, columns[n].type)
  BY VariablesFacts
<1>5. \A m, n \in 0..N : m <= n => Len(U[m]) <= Len(U[n])
  <2>1. Grows(U, N)
    BY VariablesFacts
  <2> HIDE DEF U, N
  <2> QED  BY <2>1 DEF Grows
<1> HIDE DEF N, U
<1>6. Valid(b, start)
  <2>1. ASSUME NEW n \in 1..N
        PROVE  LET c == b.cols[n]
                   inside(k) == c.off >= start /\ c.off + k <= start + b.size
               IN CASE c.type = "STRING" -> /\ inside(c.len + 1)
                                            /\ b.var[c.off - start + c.len + 1] = 0
                    [] c.type = "BLOB" -> inside(c.len)
                    [] OTHER -> TRUE
    <3> DEFINE c == b.cols[n]
               x == columns[n]
               here == Len(U[n - 1])
    <3>1. HoldsAt(b, c, x, start, here) /\ x \in C
      BY <1>2, <1>3
    <3>2. x.v.s \in Seq(Nat)
      BY <3>1, ColumnFacts
    <3> HIDE DEF c, x, here, C
    <3>3. here \in Nat /\ here + StoredSize(c) <= b.size
      BY <1>1, <3>1 DEF HoldsAt
    <3>4. CASE c.type = "STRING"
      <4>1. c.off = start + here /\ c.len = Len(x.v.s) /\ StoredSize(c) = c.len + 1 /\ c.len \in Nat
        <5>1. c.off = start + here /\ c.len = Len(x.v.s)
          BY <3>1, <3>4 DEF HoldsAt, Variable
        <5>2. StoredSize(c) = c.len + 1
          BY <3>4 DEF StoredSize
        <5>3. Len(x.v.s) \in Nat
          <6> DEFINE s == x.v.s
          <6>1. s \in Seq(Nat)
            BY <3>2
          <6> HIDE DEF s
          <6>2. Len(s) \in Nat
            BY <6>1
          <6> QED  BY <6>2 DEF s
        <5> QED  BY <5>1, <5>2, <5>3
      <4>2. b.var[here + (c.len + 1)] = Written(x)[c.len + 1]
        <5>1. c.len + 1 \in 1..StoredSize(c)
          BY <4>1
        <5> QED  BY <3>1, <5>1 DEF HoldsAt
      <4>3. Written(x)[c.len + 1] = 0
        <5>1. Written(x) = x.v.s \o <<0>>
          BY <3>1, <3>4 DEF HoldsAt, Written
        <5> DEFINE s == x.v.s
                   z == <<0>>
        <5>2. s \in Seq(Nat) /\ z \in Seq(Nat) /\ Len(z) = 1 /\ z[1] = 0 /\ Written(x) = s \o z /\ c.len = Len(s)
          BY <3>2, <4>1, <5>1
        <5> HIDE DEF s, z
        <5>3. \A j \in 1..Len(z) : (s \o z)[Len(s) + j] = z[j]
          BY <5>2, Concatenation
        <5>4. 1 \in 1..Len(z) /\ Len(s) + 1 = c.len + 1
          BY <5>2
        <5> QED  BY <5>2, <5>3, <5>4
      <4>4. c.off - start + c.len + 1 = here + (c.len + 1)
        BY <3>3, <4>1
      <4>5. b.var[c.off - start + c.len + 1] = 0
        BY <4>2, <4>3, <4>4
      <4>6. c.off >= start /\ c.off + (c.len + 1) <= start + b.size
        <5>1. c.off = start + here /\ here \in Nat /\ here + (c.len + 1) <= b.size /\ c.len \in Nat
          BY <3>3, <4>1
        <5>2. b.size \in Int
          BY <1>1
        <5> DEFINE off == c.off
                   len == c.len
                   room == b.size
        <5>3. off = start + here /\ here \in Nat /\ here + (len + 1) <= room /\ len \in Nat /\ room \in Int
          BY <5>1, <5>2
        <5> HIDE DEF off, len, room
        <5>4. off >= start /\ off + (len + 1) <= start + room
          BY <5>3
        <5> QED  BY <5>4 DEF off, len, room
      <4> QED  BY <3>4, <4>5, <4>6 DEF c
    <3>5. CASE c.type = "BLOB"
      <4>1. c.off = start + here /\ StoredSize(c) = c.len /\ StoredSize(c) \in Nat
        BY <3>1, <3>5 DEF HoldsAt, Variable, StoredSize
      <4>2. c.off >= start /\ c.off + c.len <= start + b.size
        BY <1>1, <3>3, <4>1
      <4> QED  BY <3>5, <4>2 DEF c
    <3> QED  BY <3>4, <3>5 DEF c
  <2> QED  BY <1>1, <2>1 DEF Valid
<1>7. ASSUME NEW m \in 1..N, NEW n \in 1..N, m < n,
             Variable(b.cols[m].type), Variable(b.cols[n].type)
      PROVE  b.cols[m].off + StoredSize(b.cols[m]) <= b.cols[n].off
  <2>1. /\ b.cols[m].off = start + Len(U[m - 1]) /\ b.cols[n].off = start + Len(U[n - 1])
        /\ StoredSize(b.cols[m]) = VariableSize(columns[m].v, columns[m].type)
        /\ StoredSize(b.cols[m]) \in Nat /\ Len(U[m - 1]) \in Nat /\ Len(U[n - 1]) \in Nat
    BY <1>2, <1>7 DEF HoldsAt
  <2>2. Len(U[m]) <= Len(U[n - 1])
    <3>1. m \in 0..N /\ n - 1 \in 0..N /\ m <= n - 1
      BY <1>3, <1>7
    <3> QED  BY <1>5, <3>1
  <2>3. Len(U[m]) = Len(U[m - 1]) + StoredSize(b.cols[m])
    BY <1>4, <2>1
  <2> DEFINE um == Len(U[m - 1])
             un == Len(U[n - 1])
             k == StoredSize(b.cols[m])
  <2>4. um \in Nat /\ un \in Nat /\ k \in Nat /\ um + k <= un
    BY <2>1, <2>2, <2>3
  <2>5. b.cols[m].off = start + um /\ b.cols[n].off = start + un
    BY <2>1
  <2> HIDE DEF um, un, k
  <2>6. b.cols[m].off + k <= b.cols[n].off
    BY <2>4, <2>5
  <2> QED  BY <2>6 DEF k
<1> QED  BY <1>1, <1>6, <1>7 DEF Sound

\* What Encode makes of columns depends only on the bytes written for them.
WrittenAlike(columns, others) ==
  /\ Len(columns) = Len(others)
  /\ \A n \in 1..Len(columns) :
       /\ Written(columns[n]) = Written(others[n])
       /\ \A here : FixedPart(columns[n], here) = FixedPart(others[n], here)

LEMMA SameBytes ==
  ASSUME NEW I, NEW J, NEW columns \in Seq(Column(I)), NEW others \in Seq(Column(J)),
         WrittenAlike(columns, others), NEW rt, NEW start, NEW size
  PROVE  Encode(rt, columns, start, size) = Encode(rt, others, start, size)
         /\ SizeOf(columns) = SizeOf(others)
<1> DEFINE N == Len(columns)
           U == Variables(columns)
           W == Variables(others)
<1>1. U \in [0..N -> Seq(Nat)] /\ U[0] = << >> /\ Len(U[N]) = SizeOf(columns)
      /\ \A n \in 1..N : U[n] = U[n - 1] \o Written(columns[n])
  BY VariablesFacts
<1>2. W \in [0..N -> Seq(Nat)] /\ W[0] = << >> /\ Len(W[N]) = SizeOf(others)
      /\ \A n \in 1..N : W[n] = W[n - 1] \o Written(others[n])
  <2>1. N = Len(others)
    BY DEF WrittenAlike
  <2> HIDE DEF N
  <2> QED  BY <2>1, VariablesFacts
<1>3. N \in Nat /\ DOMAIN columns = 1..N /\ DOMAIN others = 1..N /\ N = Len(others)
  <2> DEFINE C == Column(I)
             D == Column(J)
  <2>1. columns \in Seq(C) /\ others \in Seq(D)
    OBVIOUS
  <2> HIDE DEF C, D
  <2> QED  BY <2>1 DEF WrittenAlike
<1> HIDE DEF U, W, N
<1> DEFINE T == {n \in Nat : n <= N => U[n] = W[n]}
<1>4. 0 \in T
  BY <1>1, <1>2
<1>5. ASSUME NEW n \in Nat, n \in T PROVE n + 1 \in T
  <2> SUFFICES ASSUME n + 1 <= N PROVE U[n + 1] = W[n + 1]
    OBVIOUS
  <2>1. n + 1 \in 1..N /\ (n + 1) - 1 = n /\ U[n] = W[n]
    BY <1>3, <1>5
  <2>2. U[n + 1] = U[n] \o Written(columns[n + 1])
    BY <1>1, <2>1
  <2>3. W[n + 1] = W[n] \o Written(others[n + 1])
    BY <1>2, <2>1
  <2>4. Written(columns[n + 1]) = Written(others[n + 1])
    BY <2>1 DEF WrittenAlike, N
  <2> QED  BY <2>1, <2>2, <2>3, <2>4
<1> HIDE DEF T
<1>6. \A n \in Nat : n \in T
  BY <1>4, <1>5, Induction
<1>7. \A n \in 0..N : U[n] = W[n]
  BY <1>3, <1>6 DEF T
<1>8. U = W
  <2>1. U = [n \in 0..N |-> U[n]] /\ W = [n \in 0..N |-> W[n]]
    BY <1>1, <1>2
  <2> QED  BY <1>7, <2>1
<1>9. [n \in DOMAIN columns |-> FixedPart(columns[n], start + Len(U[n - 1]))]
      = [n \in DOMAIN others |-> FixedPart(others[n], start + Len(W[n - 1]))]
  <2>1. \A n \in 1..N : FixedPart(columns[n], start + Len(U[n - 1])) = FixedPart(others[n], start + Len(W[n - 1]))
    BY <1>8 DEF WrittenAlike, N
  <2> QED  BY <1>3, <2>1
<1>10. N = Len(others)
  BY <1>3
<1> QED  BY <1>1, <1>2, <1>8, <1>9, <1>10 DEF Encode, U, W, N

\* The values of the columns of a list, as they are read back
StoredColumns(columns) == [n \in DOMAIN columns |-> Stored(columns[n])]

LEMMA EncodeStored ==
  ASSUME NEW I, NEW columns \in Seq(Column(I)), NEW rt, NEW start, NEW size
  PROVE  /\ StoredColumns(columns) \in Seq(Column(I)) /\ Len(StoredColumns(columns)) = Len(columns)
         /\ Encode(rt, StoredColumns(columns), start, size) = Encode(rt, columns, start, size)
         /\ SizeOf(StoredColumns(columns)) = SizeOf(columns)
<1> DEFINE C == Column(I)
           others == StoredColumns(columns)
<1>1. \A c \in C : /\ Stored(c) \in C /\ Written(Stored(c)) = Written(c)
                   /\ \A here : FixedPart(Stored(c), here) = FixedPart(c, here)
  BY StoredFacts
<1>2. columns \in Seq(C)
  OBVIOUS
<1> HIDE DEF C
<1>3. Len(columns) \in Nat /\ \A n \in 1..Len(columns) : columns[n] \in C /\ others[n] = Stored(columns[n])
  BY <1>2 DEF StoredColumns
<1>4. others \in Seq(C) /\ Len(others) = Len(columns)
  BY <1>1, <1>2, <1>3 DEF StoredColumns
<1>5. WrittenAlike(columns, others)
  BY <1>1, <1>3, <1>4 DEF WrittenAlike
<1> HIDE DEF others
<1>6. others \in Seq(Column(I))
  BY <1>4 DEF C
<1>7. Encode(rt, columns, start, size) = Encode(rt, others, start, size) /\ SizeOf(columns) = SizeOf(others)
  BY <1>5, <1>6, SameBytes
<1> QED  BY <1>4, <1>6, <1>7 DEF others

-----------------------------------------------------------------------------
(* Totals of the columns that an update names *)

\* d[m], for the m in Q, is the number f[at[m]], and no two m have the same place:
\* the total of d is that of f over those places.
Picks(d, Q, M, at, f, g, N) ==
  /\ M \in Nat /\ N \in Nat /\ Q \subseteq 1..M
  /\ d \in [1..M -> Int] /\ f \in [1..N -> Int] /\ g \in [1..N -> Int]
  /\ \A m \in Q : at[m] \in 1..N
  /\ \A m, n \in Q : at[m] = at[n] => m = n
  /\ \A m \in 1..M : d[m] = IF m \in Q THEN f[at[m]] ELSE 0
  /\ \A i \in 1..N : g[i] = IF \E m \in Q : at[m] = i THEN f[i] ELSE 0

LEMMA TotalPicked ==
  ASSUME NEW d, NEW Q, NEW M, NEW at, NEW f, NEW g, NEW N, Picks(d, Q, M, at, f, g, N)
  PROVE  Total(d) = Total(g)
<1> DEFINE D == Sums(d)
           Partly(h, k) == \A i \in 1..N : h[i] = IF \E m \in Q : m <= k /\ at[m] = i THEN f[i] ELSE 0
           T == {k \in Nat : k <= M => \A h \in [1..N -> Int] : Partly(h, k) => Total(h) = D[k]}
<1>1. /\ M \in Nat /\ N \in Nat /\ Q \subseteq 1..M
      /\ d \in [1..M -> Int] /\ f \in [1..N -> Int] /\ g \in [1..N -> Int]
  BY DEF Picks
<1>2. \A m \in Q : at[m] \in 1..N
  BY DEF Picks
<1>3. \A m, n \in Q : at[m] = at[n] => m = n
  BY DEF Picks
<1>4. \A m \in 1..M : d[m] = IF m \in Q THEN f[at[m]] ELSE 0
  BY DEF Picks
<1>5. \A i \in 1..N : g[i] = IF \E m \in Q : at[m] = i THEN f[i] ELSE 0
  BY DEF Picks
<1>6. D \in [0..M -> Int] /\ D[0] = 0 /\ (\A k \in 1..M : D[k] = D[k - 1] + d[k]) /\ Total(d) = D[M]
  BY <1>1, SumsDef
<1> HIDE DEF D
<1>7. 0 \in T
  <2> SUFFICES ASSUME NEW h \in [1..N -> Int], Partly(h, 0) PROVE Total(h) = 0
    BY <1>6
  <2>1. \A i \in 1..N : h[i] = 0
    BY <1>1
  <2> QED  BY <1>1, <2>1, TotalZero
<1>8. ASSUME NEW k \in Nat, k \in T PROVE k + 1 \in T
  <2> SUFFICES ASSUME k + 1 <= M, NEW h \in [1..N -> Int], Partly(h, k + 1)
               PROVE  Total(h) = D[k + 1]
    OBVIOUS
  <2>1. k + 1 \in 1..M /\ (k + 1) - 1 = k /\ k \in 0..M
    BY <1>1
  <2>2. D[k + 1] = D[k] + d[k + 1] /\ D[k] \in Int /\ d[k + 1] \in Int
    BY <1>1, <1>6, <2>1
  <2>3. \A e \in [1..N -> Int] : Partly(e, k) => Total(e) = D[k]
    <3> HIDE DEF Partly
    <3>1. k <= M
      BY <2>1
    <3> QED  BY <1>8, <3>1
  <2>4. CASE k + 1 \notin Q
    <3>1. \A m \in Q : m <= k + 1 <=> m <= k
      BY <1>1, <2>4
    <3>2. Partly(h, k)
      BY <3>1
    <3>3. Total(h) = D[k] /\ d[k + 1] = 0
      BY <1>4, <2>1, <2>3, <2>4, <3>2
    <3> QED  BY <2>2, <3>3
  <2>5. CASE k + 1 \in Q
    <3> DEFINE i == at[k + 1]
               e == [j \in 1..N |-> IF j = i THEN 0 ELSE h[j]]
    <3>1. i \in 1..N /\ d[k + 1] = f[i]
      BY <1>2, <1>4, <2>1, <2>5
    <3>2. e \in [1..N -> Int] /\ e[i] = 0 /\ \A j \in 1..N : j # i => e[j] = h[j]
      BY <3>1
    <3>3. Partly(e, k)
      <4> SUFFICES ASSUME NEW j \in 1..N
                   PROVE  e[j] = IF \E m \in Q : m <= k /\ at[m] = j THEN f[j] ELSE 0
        OBVIOUS
      <4>1. h[j] = IF \E m \in Q : m <= k + 1 /\ at[m] = j THEN f[j] ELSE 0
        OBVIOUS
      <4>2. CASE j = i
        <5>1. \A m \in Q : m <= k => at[m] # i
          BY <1>1, <1>3, <2>5
        <5> QED  BY <3>2, <4>2, <5>1
      <4>3. CASE j # i
        <5>1. \A m \in Q : at[m] = j => (m <= k + 1 <=> m <= k)
          BY <1>1, <4>3
        <5> HIDE DEF e, i
        <5> QED  BY <3>2, <4>1, <4>3, <5>1
      <4> QED  BY <4>2, <4>3
    <3>4. h[i] = f[i]
      BY <1>1, <2>5, <3>1
    <3> HIDE DEF e, i
    <3>5. Total(h) = Total(e) + (h[i] - e[i])
      <4>1. N \in Nat /\ e \in [1..N -> Int] /\ h \in [1..N -> Int] /\ i \in 1..N
        BY <1>1, <3>1, <3>2
      <4>2. \A j \in 1..N : j # i => e[j] = h[j]
        BY <3>2
      <4> HIDE DEF Partly, T
      <4> QED  BY <4>1, <4>2, TotalChange
    <3>6. Total(e) = D[k]
      <4> HIDE DEF Partly
      <4> QED  BY <2>3, <3>2, <3>3
    <3>7. f[i] \in Int
      BY <1>1, <3>1
    <3> QED  BY <2>2, <3>1, <3>2, <3>4, <3>5, <3>6, <3>7
  <2> QED  BY <2>4, <2>5
<1>9. M \in T
  <2> HIDE DEF T
  <2> QED  BY <1>1, <1>7, <1>8, Induction
<1>10. Partly(g, M)
  <2>1. \A m \in Q : m <= M
    BY <1>1
  <2> QED  BY <1>5, <2>1
<1>11. \A h \in [1..N -> Int] : Partly(h, M) => Total(h) = D[M]
  <2> HIDE DEF Partly
  <2>1. M <= M
    BY <1>1
  <2> QED  BY <1>9, <2>1
<1> HIDE DEF Partly
<1> QED  BY <1>1, <1>6, <1>10, <1>11

-----------------------------------------------------------------------------
(* Key blobs *)

\* The columns of a key of t
KeyLists(t) ==
  {columns \in Seq(Column({0})) :
     /\ Len(columns) = Len(KeyTypes[t])
     /\ \A n \in 1..Len(columns) : columns[n].type = KeyTypes[t][n]}

KeyOf(t, columns) == Encode(RecordType[t], columns, KeyStart(Len(columns)), SizeOf(columns))

TypedKey(t, key) == [n \in DOMAIN key |-> [id |-> 0, type |-> KeyTypes[t][n], v |-> key[n]]]

\* A key whose values the columns take
FitsKey(t, key) == \A n \in 1..Len(key) : Compat(key[n], KeyTypes[t][n])

LEMMA KeyTypesFacts ==
  ASSUME NEW t \in Tables
  PROVE  /\ KeyTypes[t] \in Seq(Types) /\ Len(KeyTypes[t]) \in Nat /\ Len(KeyTypes[t]) > 0
         /\ \A n \in 1..Len(KeyTypes[t]) : KeyTypes[t][n] \in Types
         /\ DOMAIN KeyTypes[t] = 1..Len(KeyTypes[t])
<1> DEFINE s == KeyTypes[t]
           S == Types
<1>1. s \in Seq(S) /\ s # << >>
  BY BackedTableAssumption
<1> HIDE DEF s, S
<1>2. Len(s) \in Nat /\ Len(s) > 0 /\ DOMAIN s = 1..Len(s) /\ \A n \in 1..Len(s) : s[n] \in S
  BY <1>1
<1> QED  BY <1>1, <1>2 DEF s, S

\* What is known of the columns of a key
LEMMA KeyListFacts ==
  ASSUME NEW t \in Tables, NEW columns \in KeyLists(t)
  PROVE  /\ columns \in Seq(Column({0})) /\ Len(columns) = Len(KeyTypes[t]) /\ Len(columns) \in Nat
         /\ Len(columns) > 0 /\ DOMAIN columns = 1..Len(columns)
         /\ \A n \in 1..Len(columns) :
              /\ columns[n] \in Column({0}) /\ columns[n].type = KeyTypes[t][n]
              /\ columns[n] = [id |-> 0, type |-> KeyTypes[t][n], v |-> columns[n].v]
              /\ columns[n].v \in Values /\ Compat(columns[n].v, KeyTypes[t][n])
<1> DEFINE C == Column({0})
<1>1. columns \in Seq(C) /\ Len(columns) = Len(KeyTypes[t])
      /\ \A n \in 1..Len(columns) : columns[n].type = KeyTypes[t][n]
  BY DEF KeyLists
<1> HIDE DEF C
<1>2. DOMAIN columns = 1..Len(columns) /\ \A n \in 1..Len(columns) : columns[n] \in C
  BY <1>1
<1>3. Len(columns) \in Nat /\ Len(columns) > 0
  BY <1>1, KeyTypesFacts
<1>4. \A c \in C : c.id = 0 /\ c = [id |-> c.id, type |-> c.type, v |-> c.v] /\ c.v \in Values /\ Compat(c.v, c.type)
  BY DEF C, Column
<1> QED  BY <1>1, <1>2, <1>3, <1>4 DEF C

LEMMA TypedKeyFacts ==
  ASSUME NEW t \in Tables, NEW key \in Seq(Values), Len(key) = Len(KeyTypes[t]), FitsKey(t, key)
  PROVE  /\ TypedKey(t, key) \in KeyLists(t) /\ Len(TypedKey(t, key)) = Len(key)
         /\ \A n \in 1..Len(key) : TypedKey(t, key)[n] = [id |-> 0, type |-> KeyTypes[t][n], v |-> key[n]]
<1> DEFINE columns == TypedKey(t, key)
           C == Column({0})
           V == Values
<1>1. key \in Seq(V)
  OBVIOUS
<1> HIDE DEF V
<1>2. Len(key) \in Nat /\ DOMAIN key = 1..Len(key) /\ \A n \in 1..Len(key) : key[n] \in V
  BY <1>1
<1>3. \A n \in 1..Len(key) : columns[n] = [id |-> 0, type |-> KeyTypes[t][n], v |-> key[n]]
  BY <1>2 DEF TypedKey
<1>4. \A n \in 1..Len(key) : columns[n] \in C
  <2> TAKE n \in 1..Len(key)
  <2>1. KeyTypes[t][n] \in Types /\ key[n] \in Values /\ Compat(key[n], KeyTypes[t][n])
    BY <1>2, KeyTypesFacts DEF FitsKey, V
  <2> DEFINE c == columns[n]
  <2>2. c = [id |-> 0, type |-> KeyTypes[t][n], v |-> key[n]]
    BY <1>3
  <2> HIDE DEF c
  <2>3. c \in [id : {0}, type : Types, v : Values] /\ Compat(c.v, c.type)
    BY <2>1, <2>2
  <2>4. c \in Column({0})
    BY <2>3 DEF Column
  <2> QED  BY <2>4 DEF c
<1> HIDE DEF C
<1>5. columns \in Seq(C) /\ Len(columns) = Len(key)
  <2>1. columns = [n \in 1..Len(key) |-> columns[n]]
    BY <1>2 DEF TypedKey
  <2> HIDE DEF columns
  <2> QED  BY <1>2, <1>4, <2>1, IsSequence
<1> HIDE DEF columns
<1>6. columns \in KeyLists(t)
  <2>1. ASSUME NEW n \in 1..Len(columns) PROVE columns[n].type = KeyTypes[t][n]
    <3>1. columns[n] = [id |-> 0, type |-> KeyTypes[t][n], v |-> key[n]]
      BY <1>3, <1>5
    <3> QED  BY <3>1
  <2>2. columns \in Seq(Column({0})) /\ Len(columns) = Len(KeyTypes[t])
    BY <1>5 DEF C
  <2> QED  BY <2>1, <2>2 DEF KeyLists
<1> QED  BY <1>3, <1>5, <1>6 DEF columns

\* bcreatekey makes a key blob, and fails only when a value does not fit.
LEMMA KeyBlobFacts ==
  ASSUME NEW t \in Tables, NEW key \in Seq(Values), Len(key) = Len(KeyTypes[t])
  PROVE  KeyBlob(t, key) = IF FitsKey(t, key) THEN Result(KeyOf(t, TypedKey(t, key))) ELSE Error
<1> DEFINE V == Values
           args == [i \in DOMAIN key |-> [v |-> key[i], type |-> KeyTypes[t][i]]]
           columns == [n \in DOMAIN args |-> [id |-> 0, type |-> args[n].type, v |-> args[n].v]]
<1>1. key \in Seq(V) /\ Len(key) > 0
  BY KeyTypesFacts
<1> HIDE DEF V
<1>2. Len(key) \in Nat /\ DOMAIN key = 1..Len(key)
  BY <1>1
<1>3. DOMAIN args = 1..Len(key) /\ Len(args) = Len(key) /\ args # << >>
  BY <1>1, <1>2
<1>4. \A n \in 1..Len(key) : args[n].v = key[n] /\ args[n].type = KeyTypes[t][n]
  BY <1>2
<1>5. columns = TypedKey(t, key)
  BY <1>2, <1>3, <1>4 DEF TypedKey
<1>6. Len(TypedKey(t, key)) = Len(key)
  BY <1>2 DEF TypedKey
<1>7. KeyBlob(t, key) =
        IF args = << >> \/ \E n \in DOMAIN args : ~Compat(args[n].v, args[n].type) THEN Error
        ELSE Result(Encode(RecordType[t], columns, KeyStart(Len(args)), SizeOf(columns)))
  BY DEF KeyBlob, bcreatekey
<1> HIDE DEF args, columns
<1>8. (\E n \in DOMAIN args : ~Compat(args[n].v, args[n].type)) <=> ~FitsKey(t, key)
  BY <1>3, <1>4 DEF FitsKey
<1> QED  BY <1>3, <1>5, <1>6, <1>7, <1>8 DEF KeyOf

\* A key blob is sound, its columns are read back, and bcreatekey makes the same blob
\* of them: a key has one blob.
LEMMA KeyRead ==
  ASSUME NEW t \in Tables, NEW columns \in KeyLists(t), NEW k, k = KeyOf(t, columns)
  PROVE  /\ k.rt = RecordType[t] /\ k.size = SizeOf(columns)
         /\ Len(k.cols) = Len(columns) /\ DOMAIN k.cols = 1..Len(columns)
         /\ KeyColumns(k) \in Seq(Values) /\ Len(KeyColumns(k)) = Len(KeyTypes[t])
         /\ \A n \in 1..Len(columns) : KeyColumns(k)[n] = Stored(columns[n]).v
         /\ FitsKey(t, KeyColumns(k))
         /\ Sound(k, KeyStart(Len(k.cols)))
         /\ KeyBlob(t, KeyColumns(k)) = Result(k)
<1> DEFINE N == Len(columns)
           start == KeyStart(N)
           size == SizeOf(columns)
           key == KeyColumns(k)
<1>1. /\ columns \in Seq(Column({0})) /\ N = Len(KeyTypes[t]) /\ N \in Nat /\ DOMAIN columns = 1..N
      /\ \A n \in 1..N : /\ columns[n] \in Column({0}) /\ columns[n].type = KeyTypes[t][n]
                         /\ columns[n] = [id |-> 0, type |-> KeyTypes[t][n], v |-> columns[n].v]
  BY KeyListFacts
<1>2. start \in Nat
  BY <1>1 DEF KeyStart
<1>3. k = Encode(RecordType[t], columns, start, size)
  BY DEF KeyOf
<1>4. size \in Nat /\ size <= size
  BY <1>1, SizeOfFacts
<1> HIDE DEF start, size
<1>5. k.rt = RecordType[t] /\ k.size = size /\ DOMAIN k.cols = 1..N /\ Len(k.cols) = N
  <2>1. HasParts(k, RecordType[t], columns, start, size)
    BY <1>1, <1>3, EncodeParts
  <2> QED  BY <2>1 DEF HasParts
<1>6. KeyStart(Len(k.cols)) = start
  BY <1>5 DEF start
<1>7. Sound(k, start)
  <2>1. size \in Int /\ SizeOf(columns) <= size
    BY <1>4 DEF size
  <2> QED  BY <1>1, <1>2, <1>3, <2>1, EncodeSound
<1>8. \A n \in 1..N : key[n] = Stored(columns[n]).v
  <2> TAKE n \in 1..N
  <2>1. Decode(k, k.cols[n], start) = Stored(columns[n]).v
    BY <1>1, <1>2, <1>3, DecodeEncode
  <2> QED  BY <1>5, <1>6, <2>1 DEF KeyColumns
<1>9. key = [n \in 1..N |-> key[n]]
  BY <1>5 DEF KeyColumns
<1>10. \A n \in 1..N : /\ key[n] \in Values /\ Compat(key[n], KeyTypes[t][n])
                       /\ Stored(columns[n]) = [id |-> 0, type |-> KeyTypes[t][n], v |-> key[n]]
  <2> TAKE n \in 1..N
  <2> DEFINE c == columns[n]
             s == Stored(c)
  <2>1. c \in Column({0}) /\ c.type = KeyTypes[t][n] /\ key[n] = s.v
    BY <1>1, <1>8
  <2> HIDE DEF c
  <2>2. s \in Column({0}) /\ s.type = KeyTypes[t][n]
    BY <2>1, StoredFacts
  <2> HIDE DEF s
  <2>3. s.id = 0 /\ s.v \in Values /\ Compat(s.v, s.type) /\ s = [id |-> s.id, type |-> s.type, v |-> s.v]
    BY <2>2 DEF Column
  <2>4. s.v \in Values /\ Compat(s.v, KeyTypes[t][n]) /\ s = [id |-> 0, type |-> KeyTypes[t][n], v |-> s.v]
    BY <2>2, <2>3
  <2> QED  BY <2>1, <2>4 DEF s, c
<1> HIDE DEF key, N
<1>11. key \in Seq(Values) /\ Len(key) = N /\ DOMAIN key = 1..N
  <2>1. N \in Nat /\ \A n \in 1..N : key[n] \in Values
    BY <1>1, <1>10
  <2> QED  BY <1>9, <2>1, IsSequence
<1>12. FitsKey(t, key)
  BY <1>10, <1>11 DEF FitsKey
<1>13. TypedKey(t, key) = StoredColumns(columns)
  BY <1>1, <1>10, <1>11 DEF TypedKey, StoredColumns
<1>14. KeyOf(t, StoredColumns(columns)) = k
  <2>1. /\ Len(StoredColumns(columns)) = N /\ SizeOf(StoredColumns(columns)) = size
        /\ Encode(RecordType[t], StoredColumns(columns), start, size) = k
    BY <1>1, <1>3, EncodeStored DEF N, size
  <2> QED  BY <2>1 DEF KeyOf, start
<1>15. KeyBlob(t, key) = Result(k)
  BY <1>1, <1>11, <1>12, <1>13, <1>14, KeyBlobFacts
<1> QED  BY <1>1, <1>5, <1>6, <1>7, <1>8, <1>11, <1>12, <1>15 DEF key, N, size

\* Assignments to columns, whose values the columns of these types take
FitsAll(ups, types) == \A n \in DOMAIN ups : Compat(ups[n].v, types[ups[n].f])

LEMMA AssignmentFacts ==
  ASSUME NEW S, NEW ups, AreAssignments(ups, S)
  PROVE  /\ Len(ups) \in Nat /\ DOMAIN ups = 1..Len(ups)
         /\ \A n \in 1..Len(ups) : ups[n].f \in S /\ ups[n].v \in Values
         /\ \A m, n \in 1..Len(ups) : ups[m].f = ups[n].f => m = n
         /\ \A n \in 1..Len(ups) : (CHOOSE m \in DOMAIN ups : ups[m].f = ups[n].f) = n
<1> DEFINE R == [f : S, v : Values]
<1>1. ups \in Seq(R) /\ \A m, n \in DOMAIN ups : ups[m].f = ups[n].f => m = n
  BY DEF AreAssignments
<1>2. \A r \in R : r.f \in S /\ r.v \in Values
  OBVIOUS
<1> HIDE DEF R
<1>3. Len(ups) \in Nat /\ DOMAIN ups = 1..Len(ups) /\ \A n \in 1..Len(ups) : ups[n] \in R
  BY <1>1
<1>4. ASSUME NEW n \in 1..Len(ups) PROVE (CHOOSE m \in DOMAIN ups : ups[m].f = ups[n].f) = n
  BY <1>1, <1>3
<1> QED  BY <1>1, <1>2, <1>3, <1>4

\* bupdatekey makes the key blob of the new values, whatever the order in which they
\* are given, and fails only when one of them does not fit.
LEMMA KeyUpdate ==
  ASSUME NEW t \in Tables, NEW columns \in KeyLists(t), NEW k, k = KeyOf(t, columns),
         NEW ups, AreAssignments(ups, DOMAIN KeyTypes[t]), ups # << >>
  PROVE  LET new == UpdatedKeyColumns(k, ups) IN
         /\ ~FitsAll(ups, KeyTypes[t]) => bupdatekey(k, ups) = Error
         /\ FitsAll(ups, KeyTypes[t]) =>
              /\ new \in KeyLists(t) /\ bupdatekey(k, ups) = Result(KeyOf(t, new))
              /\ \A n \in DOMAIN ups : new[ups[n].f].v = ups[n].v
              /\ \A i \in 1..Len(columns) :
                   (\A n \in DOMAIN ups : ups[n].f # i) => new[i].v = KeyColumns(k)[i]
<1> DEFINE N == Len(columns)
           M == Len(ups)
           new == UpdatedKeyColumns(k, ups)
           start == KeyStart(N)
           at == [n \in 1..M |-> ups[n].f]
           old == Sizes(columns)
           grow == [n \in DOMAIN ups |-> VariableSize(ups[n].v, k.cols[ups[n].f].type)
                                         - StoredSize(k.cols[ups[n].f])]
<1>1. /\ columns \in Seq(Column({0})) /\ N = Len(KeyTypes[t]) /\ N \in Nat
      /\ \A n \in 1..N : columns[n] \in Column({0}) /\ columns[n].type = KeyTypes[t][n]
                         /\ KeyTypes[t][n] \in Types
  BY KeyListFacts, KeyTypesFacts
<1>2. /\ M \in Nat /\ DOMAIN ups = 1..M
      /\ \A n \in 1..M : ups[n].f \in 1..N /\ ups[n].v \in Values
      /\ \A m, n \in 1..M : ups[m].f = ups[n].f => m = n
      /\ \A n \in 1..M : (CHOOSE m \in DOMAIN ups : ups[m].f = ups[n].f) = n
  <2>1. DOMAIN KeyTypes[t] = 1..N
    BY <1>1, KeyTypesFacts
  <2> QED  BY <2>1, AssignmentFacts
<1>3. /\ k.rt = RecordType[t] /\ k.size = SizeOf(columns) /\ Len(k.cols) = N /\ DOMAIN k.cols = 1..N
      /\ \A n \in 1..N : KeyColumns(k)[n] = Stored(columns[n]).v
      /\ Sound(k, start)
  BY KeyRead
<1>4. start \in Nat
  BY <1>1 DEF KeyStart
<1>5. \A n \in 1..N : k.cols[n].type = KeyTypes[t][n] /\ StoredSize(k.cols[n]) = old[n]
  <2> TAKE n \in 1..N
  <2> DEFINE size == SizeOf(columns)
  <2>1. k = Encode(RecordType[t], columns, start, size)
    BY DEF KeyOf
  <2>2. size \in Nat
    BY <1>1, SizeOfFacts
  <2> HIDE DEF size, start
  <2>3. HoldsAt(k, k.cols[n], columns[n], start, Len(Variables(columns)[n - 1]))
    BY <1>1, <1>4, <2>1, EncodeColumn
  <2>4. old[n] = VariableSize(columns[n].v, columns[n].type)
    BY <1>1, SizesFacts
  <2> QED  BY <1>1, <2>3, <2>4 DEF HoldsAt
<1> HIDE DEF start, N, M
<1>6. bupdatekey(k, ups) =
        IF FitsAll(ups, KeyTypes[t])
        THEN Result(Encode(k.rt, new, start, k.size + Total(grow)))
        ELSE Error
  <2> DEFINE bad(n) == \/ ups[n].f \notin DOMAIN k.cols
                       \/ \E m \in 1..(n - 1) : ups[m].f = ups[n].f
                       \/ ~Compat(ups[n].v, k.cols[ups[n].f].type)
  <2>1. bupdatekey(k, ups) =
          IF ups = << >> \/ ~Valid(k, KeyStart(Len(k.cols))) \/ \E n \in DOMAIN ups : bad(n)
          THEN Error
          ELSE Result(Encode(k.rt, new, KeyStart(Len(k.cols)), k.size + Total(grow)))
    BY DEF bupdatekey
  <2>2. Valid(k, start) /\ KeyStart(Len(k.cols)) = start
    BY <1>3 DEF Sound, start
  <2>3. ASSUME NEW n \in 1..M PROVE bad(n) <=> ~Compat(ups[n].v, KeyTypes[t][ups[n].f])
    <3>1. ~\E m \in 1..(n - 1) : ups[m].f = ups[n].f
      <4> SUFFICES ASSUME NEW m \in 1..(n - 1), ups[m].f = ups[n].f PROVE FALSE
        OBVIOUS
      <4>1. m \in 1..M /\ m # n
        BY <1>2
      <4> QED  BY <1>2, <4>1
    <3>2. ups[n].f \in DOMAIN k.cols /\ k.cols[ups[n].f].type = KeyTypes[t][ups[n].f]
      BY <1>2, <1>3, <1>5
    <3> QED  BY <3>1, <3>2
  <2> HIDE DEF bad, new, grow
  <2>4. (\E n \in DOMAIN ups : bad(n)) <=> ~FitsAll(ups, KeyTypes[t])
    BY <1>2, <2>3 DEF FitsAll
  <2> QED  BY <2>1, <2>2, <2>4
<1> SUFFICES ASSUME FitsAll(ups, KeyTypes[t])
             PROVE  /\ new \in KeyLists(t) /\ bupdatekey(k, ups) = Result(KeyOf(t, new))
                    /\ \A n \in DOMAIN ups : new[ups[n].f].v = ups[n].v
                    /\ \A i \in 1..N :
                         (\A n \in DOMAIN ups : ups[n].f # i) => new[i].v = KeyColumns(k)[i]
  BY <1>6 DEF N
<1>7. \A n \in 1..M : /\ new[ups[n].f].v = ups[n].v /\ new[ups[n].f].type = KeyTypes[t][ups[n].f]
  <2> TAKE n \in 1..M
  <2>1. ups[n].f \in DOMAIN k.cols /\ k.cols[ups[n].f].type = KeyTypes[t][ups[n].f]
    BY <1>2, <1>3, <1>5
  <2>2. \E m \in DOMAIN ups : ups[m].f = ups[n].f
    BY <1>2
  <2>3. (CHOOSE m \in DOMAIN ups : ups[m].f = ups[n].f) = n
    BY <1>2
  <2> QED  BY <2>1, <2>2, <2>3 DEF UpdatedKeyColumns
<1>8. ASSUME NEW i \in 1..N, \A n \in 1..M : ups[n].f # i
      PROVE  new[i].v = KeyColumns(k)[i] /\ new[i].v = Stored(columns[i]).v
  BY <1>2, <1>3, <1>8 DEF UpdatedKeyColumns
<1>9. new = [i \in 1..N |-> new[i]] /\ \A i \in 1..N : new[i] = [id |-> 0, type |-> KeyTypes[t][i], v |-> new[i].v]
  BY <1>3, <1>5 DEF UpdatedKeyColumns
<1> HIDE DEF new
<1>10. \A i \in 1..N : new[i].v \in Values /\ Compat(new[i].v, KeyTypes[t][i])
  <2> TAKE i \in 1..N
  <2>1. CASE \E n \in 1..M : ups[n].f = i
    <3>1. PICK n \in 1..M : ups[n].f = i
      BY <2>1
    <3> QED  BY <1>2, <1>7, <3>1 DEF FitsAll
  <2>2. CASE \A n \in 1..M : ups[n].f # i
    <3> DEFINE c == columns[i]
    <3>1. c \in Column({0}) /\ c.type = KeyTypes[t][i] /\ new[i].v = Stored(c).v
      BY <1>1, <1>8, <2>2
    <3> HIDE DEF c
    <3>2. Stored(c) \in Column({0}) /\ Stored(c).type = KeyTypes[t][i]
      BY <3>1, StoredFacts
    <3> QED  BY <3>1, <3>2 DEF Column
  <2> QED  BY <2>1, <2>2
<1>11. \A i \in 1..N : new[i] \in Column({0}) /\ new[i].type = KeyTypes[t][i]
  <2> TAKE i \in 1..N
  <2> DEFINE c == new[i]
  <2>1. c = [id |-> 0, type |-> KeyTypes[t][i], v |-> c.v] /\ c.v \in Values /\ Compat(c.v, KeyTypes[t][i])
        /\ KeyTypes[t][i] \in Types
    BY <1>1, <1>9, <1>10
  <2> HIDE DEF c
  <2>2. c.type = KeyTypes[t][i] /\ c \in [id : {0}, type : Types, v : Values]
    BY <2>1
  <2>3. c \in Column({0})
    BY <2>1, <2>2 DEF Column
  <2> QED  BY <2>2, <2>3 DEF c
<1>12. new \in Seq(Column({0})) /\ Len(new) = N
  <2>1. N \in Nat /\ new = [i \in 1..N |-> new[i]] /\ \A i \in 1..N : new[i] \in Column({0})
    BY <1>1, <1>9, <1>11
  <2> QED  BY <2>1, IsSequence
<1>13. new \in KeyLists(t)
  BY <1>1, <1>11, <1>12 DEF KeyLists
<1>14. SizeOf(new) = SizeOf(columns) + Total(grow)
  <2> DEFINE now == Sizes(new)
             diff == [i \in 1..N |-> now[i] - old[i]]
  <2>1. /\ old \in [1..N -> Int] /\ SizeOf(columns) = Total(old)
        /\ \A i \in 1..N : old[i] = VariableSize(columns[i].v, columns[i].type)
    BY <1>1, SizesFacts DEF N
  <2>2. /\ now \in [1..N -> Int] /\ SizeOf(new) = Total(now)
        /\ \A i \in 1..N : now[i] = VariableSize(new[i].v, new[i].type)
    BY <1>12, SizesFacts
  <2> HIDE DEF old, now
  <2>3. diff \in [1..N -> Int] /\ \A i \in 1..N : now[i] = old[i] + diff[i] /\ diff[i] = now[i] - old[i]
    BY <2>1, <2>2
  <2> HIDE DEF diff
  <2>4. \A n \in 1..M : grow[n] = diff[at[n]] /\ at[n] = ups[n].f /\ at[n] \in 1..N
    <3> TAKE n \in 1..M
    <3> DEFINE i == ups[n].f
    <3>1. i \in 1..N /\ at[n] = i
      BY <1>2
    <3>2. k.cols[i].type = KeyTypes[t][i] /\ StoredSize(k.cols[i]) = old[i]
      BY <1>5, <3>1
    <3>3. now[i] = VariableSize(ups[n].v, KeyTypes[t][i])
      BY <1>7, <2>2, <3>1
    <3>4. grow[n] = VariableSize(ups[n].v, k.cols[i].type) - StoredSize(k.cols[i])
      BY <1>2
    <3> QED  BY <2>3, <3>1, <3>2, <3>3, <3>4
  <2>5. grow \in [1..M -> Int]
    <3>1. grow = [n \in 1..M |-> grow[n]]
      BY <1>2
    <3>2. \A n \in 1..M : grow[n] \in Int
      BY <2>3, <2>4
    <3> HIDE DEF grow
    <3> QED  BY <3>1, <3>2
  <2>6. \A i \in 1..N : (\A n \in 1..M : at[n] # i) => diff[i] = 0
    <3> SUFFICES ASSUME NEW i \in 1..N, \A n \in 1..M : at[n] # i PROVE diff[i] = 0
      OBVIOUS
    <3>1. new[i].v = Stored(columns[i]).v
      BY <1>8, <2>4
    <3>2. VariableSize(Stored(columns[i]).v, columns[i].type) = VariableSize(columns[i].v, columns[i].type)
      BY <1>1, StoredFacts
    <3>3. now[i] = old[i]
      BY <1>1, <1>11, <2>1, <2>2, <3>1, <3>2
    <3> QED  BY <2>1, <2>3, <3>3
  <2> HIDE DEF grow
  <2>7. \A m, n \in 1..M : at[m] = at[n] => m = n
    BY <1>2, <2>4
  <2> HIDE DEF at
  <2>8. Picks(grow, 1..M, M, at, diff, diff, N)
    BY <1>1, <1>2, <2>3, <2>4, <2>5, <2>6, <2>7 DEF Picks
  <2>9. Total(grow) = Total(diff)
    BY <2>8, TotalPicked
  <2>10. Total(now) = Total(old) + Total(diff)
    BY <1>1, <2>1, <2>2, <2>3, TotalAdd
  <2> QED  BY <2>1, <2>2, <2>9, <2>10
<1>15. KeyOf(t, new) = Encode(k.rt, new, start, k.size + Total(grow))
  BY <1>3, <1>12, <1>14 DEF KeyOf, start
<1> HIDE DEF grow
<1> QED  BY <1>2, <1>6, <1>7, <1>8, <1>13, <1>15

-----------------------------------------------------------------------------
(* Lists of columns: some of them, and one list after another *)

Sized(C) == \A c \in C : VariableSize(c.v, c.type) \in Int

LEMMA SizedList ==
  ASSUME NEW C, Sized(C), NEW columns \in Seq(C)
  PROVE  /\ Len(columns) \in Nat /\ DOMAIN columns = 1..Len(columns)
         /\ Sizes(columns) \in [1..Len(columns) -> Int]
         /\ \A n \in 1..Len(columns) : Sizes(columns)[n] = VariableSize(columns[n].v, columns[n].type)
         /\ SizeOf(columns) = Total(Sizes(columns))
         /\ SizeOf(columns) = Sums(Sizes(columns))[Len(columns)]
<1>1. Len(columns) \in Nat /\ DOMAIN columns = 1..Len(columns) /\ \A n \in 1..Len(columns) : columns[n] \in C
  OBVIOUS
<1>2. \A n \in 1..Len(columns) : VariableSize(columns[n].v, columns[n].type) \in Int
  BY <1>1 DEF Sized
<1>3. Sizes(columns) \in [1..Len(columns) -> Int]
  BY <1>1, <1>2 DEF Sizes
<1>4. \A n \in 1..Len(columns) : Sizes(columns)[n] = VariableSize(columns[n].v, columns[n].type)
  BY <1>1 DEF Sizes
<1>5. SizeOf(columns) = Total(Sizes(columns))
  BY DEF SizeOf, Sizes
<1>6. Total(Sizes(columns)) = Sums(Sizes(columns))[Len(columns)]
  BY <1>1, <1>3, SumsDef
<1> QED  BY <1>1, <1>3, <1>4, <1>5, <1>6

\* The size of a list of columns after another is the sum of theirs.
LEMMA SizeOfBoth ==
  ASSUME NEW C, Sized(C), NEW a \in Seq(C), NEW b \in Seq(C)
  PROVE  SizeOf(a \o b) = SizeOf(a) + SizeOf(b) /\ SizeOf(a) \in Int /\ SizeOf(b) \in Int
<1> DEFINE c == a \o b
           N == Len(a)
           M == Len(b)
           sa == Sizes(a)
           sb == Sizes(b)
           sc == Sizes(c)
           F == Sums(sa)
           G == Sums(sb)
           H == Sums(sc)
<1>1. N \in Nat /\ M \in Nat /\ c \in Seq(C) /\ Len(c) = N + M
      /\ (\A i \in 1..N : c[i] = a[i]) /\ (\A i \in 1..M : c[N + i] = b[i])
  OBVIOUS
<1>2. sa \in [1..N -> Int] /\ SizeOf(a) = F[N]
      /\ \A n \in 1..N : sa[n] = VariableSize(a[n].v, a[n].type)
  BY SizedList
<1>3. sb \in [1..M -> Int] /\ SizeOf(b) = G[M]
      /\ \A n \in 1..M : sb[n] = VariableSize(b[n].v, b[n].type)
  BY SizedList
<1> HIDE DEF c
<1>4. sc \in [1..(N + M) -> Int] /\ SizeOf(c) = H[N + M]
      /\ \A n \in 1..(N + M) : sc[n] = VariableSize(c[n].v, c[n].type)
  <2> HIDE DEF N, M
  <2>1. sc \in [1..Len(c) -> Int] /\ SizeOf(c) = H[Len(c)]
        /\ \A n \in 1..Len(c) : sc[n] = VariableSize(c[n].v, c[n].type)
    BY <1>1, SizedList
  <2> QED  BY <1>1, <2>1
<1> HIDE DEF N, M, sa, sb, sc
<1>5. F \in [0..N -> Int]
  BY <1>1, <1>2, SumsDef
<1>6. G \in [0..M -> Int] /\ G[0] = 0 /\ \A n \in 1..M : G[n] = G[n - 1] + sb[n]
  BY <1>1, <1>3, SumsDef
<1>7. N + M \in Nat /\ \A n \in 1..(N + M) : H[n] = H[n - 1] + sc[n]
  <2> DEFINE K == N + M
  <2>1. K \in Nat /\ sc \in [1..K -> Int]
    BY <1>1, <1>4
  <2> HIDE DEF K
  <2>2. \A n \in 1..K : H[n] = H[n - 1] + sc[n]
    BY <2>1, SumsDef
  <2> QED  BY <2>1, <2>2 DEF K
<1>8. \A i \in 1..N : sc[i] = sa[i]
  <2> TAKE i \in 1..N
  <2>1. i \in 1..(N + M)
    BY <1>1
  <2> QED  BY <1>1, <1>2, <1>4, <2>1
<1>9. \A i \in 1..M : sc[N + i] = sb[i]
  <2> TAKE i \in 1..M
  <2>1. N + i \in 1..(N + M)
    BY <1>1
  <2> QED  BY <1>1, <1>3, <1>4, <2>1
<1>10. H[N] = F[N]
  <2>1. N <= N /\ N <= N + M
    BY <1>1
  <2> QED  BY <1>1, <1>2, <1>4, <1>7, <1>8, <2>1, SumsAgree
<1> HIDE DEF F, G, H
<1> DEFINE T == {k \in Nat : k <= M => H[N + k] = F[N] + G[k]}
<1>11. F[N] \in Int
  BY <1>1, <1>5
<1>12. 0 \in T
  BY <1>1, <1>6, <1>10, <1>11
<1>13. ASSUME NEW k \in Nat, k \in T PROVE k + 1 \in T
  <2> SUFFICES ASSUME k + 1 <= M PROVE H[N + (k + 1)] = F[N] + G[k + 1]
    OBVIOUS
  <2>1. k + 1 \in 1..M /\ (k + 1) - 1 = k /\ k \in 0..M /\ N + (k + 1) \in 1..(N + M) /\ (N + (k + 1)) - 1 = N + k
    BY <1>1
  <2>2. H[N + (k + 1)] = H[N + k] + sc[N + (k + 1)]
    BY <1>7, <2>1
  <2>3. G[k + 1] = G[k] + sb[k + 1] /\ G[k] \in Int /\ sb[k + 1] \in Int
    BY <1>3, <1>6, <2>1
  <2>4. H[N + k] = F[N] + G[k] /\ sc[N + (k + 1)] = sb[k + 1]
    BY <1>9, <1>13, <2>1
  <2> QED  BY <1>11, <2>2, <2>3, <2>4
<1> HIDE DEF T
<1>14. M \in T
  BY <1>1, <1>12, <1>13, Induction
<1>15. H[N + M] = F[N] + G[M] /\ G[M] \in Int
  BY <1>1, <1>6, <1>14 DEF T
<1> QED  BY <1>2, <1>3, <1>4, <1>11, <1>15 DEF c

\* The columns of a list have ids of their own.
DistinctIds(columns) == \A m, n \in 1..Len(columns) : columns[m].id = columns[n].id => m = n

\* Only keeps the columns chosen, each of them once.
KeepsOnly(out, columns, S) ==
  /\ \A j \in 1..Len(out) : \E i \in 1..Len(columns) : i \in S /\ out[j] = columns[i]
  /\ \A i \in 1..Len(columns) : i \in S => \E j \in 1..Len(out) : out[j] = columns[i]

LEMMA OnlyFacts ==
  ASSUME NEW C, NEW columns \in Seq(C), NEW S, DistinctIds(columns)
  PROVE  /\ Only(columns, S) \in Seq(C) /\ DistinctIds(Only(columns, S))
         /\ KeepsOnly(Only(columns, S), columns, S)
<1> DEFINE N == Len(columns)
<1>0. PICK U : Keeps(U, C, columns, S)
  BY OnlyDef
<1>1. /\ U \in [0..N -> Seq(C)] /\ U[0] = << >> /\ Only(columns, S) = U[N]
      /\ \A n \in 1..N : U[n] = IF n \in S THEN Append(U[n - 1], columns[n]) ELSE U[n - 1]
  BY <1>0 DEF Keeps
<1>2. N \in Nat /\ \A n \in 1..N : columns[n] \in C
  OBVIOUS
<1> DEFINE From(x, n) == \A j \in 1..Len(x) : \E i \in 1..n : i \in S /\ x[j] = columns[i]
           All(x, n) == \A i \in 1..n : i \in S => \E j \in 1..Len(x) : x[j] = columns[i]
           T == {n \in Nat : n <= N => From(U[n], n) /\ All(U[n], n) /\ DistinctIds(U[n])}
<1> HIDE DEF N
<1>3. 0 \in T
  BY <1>1 DEF DistinctIds
<1>4. ASSUME NEW n \in Nat, n \in T PROVE n + 1 \in T
  <2> SUFFICES ASSUME n + 1 <= N
               PROVE  From(U[n + 1], n + 1) /\ All(U[n + 1], n + 1) /\ DistinctIds(U[n + 1])
    OBVIOUS
  <2> DEFINE x == U[n]
             y == U[n + 1]
             c == columns[n + 1]
  <2>1. n + 1 \in 1..N /\ (n + 1) - 1 = n /\ n \in 0..N /\ n <= N
    BY <1>2
  <2>2. x \in Seq(C) /\ c \in C
    BY <1>1, <1>2, <2>1
  <2>3. y = IF n + 1 \in S THEN Append(x, c) ELSE x
    BY <1>1, <2>1
  <2>4. From(x, n) /\ All(x, n) /\ DistinctIds(x)
    BY <1>4, <2>1
  <2>5. SUFFICES From(y, n + 1) /\ All(y, n + 1) /\ DistinctIds(y)
    OBVIOUS
  <2> HIDE DEF x, y
  <2>6. CASE n + 1 \notin S
    <3>1. y = x
      BY <2>3, <2>6
    <3>2. From(x, n + 1) /\ All(x, n + 1)
      BY <2>4, <2>6
    <3> QED  BY <2>4, <3>1, <3>2
  <2>7. CASE n + 1 \in S
    <3> DEFINE k == Len(x)
    <3>1. k \in Nat /\ Len(y) = k + 1 /\ y[k + 1] = c /\ \A j \in 1..k : y[j] = x[j]
      BY <2>2, <2>3, <2>7
    <3>2. From(y, n + 1)
      <4> SUFFICES ASSUME NEW j \in 1..Len(y) PROVE \E i \in 1..(n + 1) : i \in S /\ y[j] = columns[i]
        OBVIOUS
      <4>1. CASE j = k + 1
        BY <2>7, <3>1, <4>1
      <4>2. CASE j # k + 1
        <5>1. j \in 1..k
          BY <3>1, <4>2
        <5>2. PICK i \in 1..n : i \in S /\ x[j] = columns[i]
          BY <2>4, <5>1
        <5>3. i \in 1..(n + 1)
          OBVIOUS
        <5> QED  BY <3>1, <5>1, <5>2, <5>3
      <4> QED  BY <4>1, <4>2
    <3>3. All(y, n + 1)
      <4> SUFFICES ASSUME NEW i \in 1..(n + 1), i \in S PROVE \E j \in 1..Len(y) : y[j] = columns[i]
        OBVIOUS
      <4>1. CASE i = n + 1
        BY <3>1, <4>1
      <4>2. CASE i # n + 1
        <5>1. PICK j \in 1..k : x[j] = columns[i]
          BY <2>4, <4>2
        <5>2. j \in 1..Len(y)
          BY <3>1
        <5> QED  BY <3>1, <5>1, <5>2
      <4> QED  BY <4>1, <4>2
    <3>4. \A j \in 1..k : y[j].id # c.id
      <4> SUFFICES ASSUME NEW j \in 1..k PROVE y[j].id # c.id
        OBVIOUS
      <4>1. PICK i \in 1..n : x[j] = columns[i]
        BY <2>4
      <4>2. i \in 1..N /\ i # n + 1
        BY <1>2, <2>1
      <4>3. columns[i].id # c.id
        BY <2>1, <4>2 DEF DistinctIds, N
      <4> QED  BY <3>1, <4>1, <4>3
    <3>5. DistinctIds(y)
      <4> SUFFICES ASSUME NEW p \in 1..(k + 1), NEW q \in 1..(k + 1), y[p].id = y[q].id PROVE p = q
        BY <3>1 DEF DistinctIds
      <4>1. CASE p \in 1..k /\ q \in 1..k
        BY <2>4, <3>1, <4>1 DEF DistinctIds
      <4>2. CASE p = k + 1 \/ q = k + 1
        <5>1. (p = k + 1 \/ p \in 1..k) /\ (q = k + 1 \/ q \in 1..k)
          BY <3>1
        <5> QED  BY <3>1, <3>4, <4>2, <5>1
      <4> QED  BY <3>1, <4>1, <4>2
    <3> QED  BY <3>2, <3>3, <3>5
  <2> QED  BY <2>6, <2>7
<1> HIDE DEF T
<1>5. N \in T
  BY <1>2, <1>3, <1>4, Induction
<1>6. From(U[N], N) /\ All(U[N], N) /\ DistinctIds(U[N])
  BY <1>2, <1>5 DEF T
<1>7. U[N] \in Seq(C)
  BY <1>1, <1>2
<1> QED  BY <1>1, <1>6, <1>7 DEF KeepsOnly, N

LEMMA SizeOfFew ==
  ASSUME NEW C, Sized(C)
  PROVE  /\ SizeOf(<< >>) = 0
         /\ \A x \in Seq(C), c \in C :
              SizeOf(Append(x, c)) = SizeOf(x) + VariableSize(c.v, c.type) /\ SizeOf(x) \in Int
<1>1. SizeOf(<< >>) = 0
  <2> DEFINE e == << >>
  <2>1. e \in Seq(C) /\ Len(e) = 0
    OBVIOUS
  <2> HIDE DEF e
  <2>2. Sizes(e) \in [1..0 -> Int] /\ SizeOf(e) = Sums(Sizes(e))[0]
    BY <2>1, SizedList
  <2>3. Sums(Sizes(e))[0] = 0
    BY <2>2, SumsDef
  <2> QED  BY <2>2, <2>3 DEF e
<1>2. ASSUME NEW x \in Seq(C), NEW c \in C
      PROVE  SizeOf(Append(x, c)) = SizeOf(x) + VariableSize(c.v, c.type) /\ SizeOf(x) \in Int
  <2> DEFINE e == <<c>>
  <2>1. e \in Seq(C) /\ Len(e) = 1 /\ e[1] = c /\ Append(x, c) = x \o e
    OBVIOUS
  <2> HIDE DEF e
  <2>2. SizeOf(x \o e) = SizeOf(x) + SizeOf(e) /\ SizeOf(x) \in Int
    BY <2>1, SizeOfBoth
  <2>3. SizeOf(e) = VariableSize(c.v, c.type)
    <3> DEFINE s == Sizes(e)
    <3>1. s \in [1..1 -> Int] /\ SizeOf(e) = Sums(s)[1] /\ s[1] = VariableSize(e[1].v, e[1].type)
      BY <2>1, SizedList
    <3> HIDE DEF s
    <3>2. Sums(s)[0] = 0 /\ \A n \in 1..1 : Sums(s)[n] = Sums(s)[n - 1] + s[n]
      BY <3>1, SumsDef
    <3>3. Sums(s)[1] = Sums(s)[0] + s[1] /\ s[1] \in Int
      BY <3>1, <3>2
    <3> QED  BY <2>1, <3>1, <3>2, <3>3
  <2> QED  BY <2>1, <2>2, <2>3
<1> QED  BY <1>1, <1>2

\* The size of the columns that Only keeps is the sum of theirs.
LEMMA OnlySize ==
  ASSUME NEW C, Sized(C), NEW columns \in Seq(C), NEW S, NEW h \in [1..Len(columns) -> Int],
         \A i \in 1..Len(columns) :
           h[i] = IF i \in S THEN VariableSize(columns[i].v, columns[i].type) ELSE 0
  PROVE  SizeOf(Only(columns, S)) = Total(h)
<1> DEFINE N == Len(columns)
           H == Sums(h)
<1>0. PICK U : Keeps(U, C, columns, S)
  BY OnlyDef
<1>1. /\ U \in [0..N -> Seq(C)] /\ U[0] = << >> /\ Only(columns, S) = U[N]
      /\ \A n \in 1..N : U[n] = IF n \in S THEN Append(U[n - 1], columns[n]) ELSE U[n - 1]
  BY <1>0 DEF Keeps
<1>2. N \in Nat /\ \A n \in 1..N : columns[n] \in C
  OBVIOUS
<1>3. \A i \in 1..N : h[i] = IF i \in S THEN VariableSize(columns[i].v, columns[i].type) ELSE 0
  OBVIOUS
<1>4. H[0] = 0 /\ (\A n \in 1..N : H[n] = H[n - 1] + h[n]) /\ Total(h) = H[N] /\ H \in [0..N -> Int]
  <2>1. N \in Nat /\ h \in [1..N -> Int]
    OBVIOUS
  <2> HIDE DEF N
  <2> QED  BY <2>1, SumsDef
<1> DEFINE T == {n \in Nat : n <= N => SizeOf(U[n]) = H[n]}
<1> HIDE DEF N, H
<1>5. 0 \in T
  BY <1>1, <1>4, SizeOfFew
<1>6. ASSUME NEW n \in Nat, n \in T PROVE n + 1 \in T
  <2> SUFFICES ASSUME n + 1 <= N PROVE SizeOf(U[n + 1]) = H[n + 1]
    OBVIOUS
  <2> DEFINE x == U[n]
             y == U[n + 1]
             c == columns[n + 1]
  <2>1. n + 1 \in 1..N /\ (n + 1) - 1 = n /\ n \in 0..N /\ n <= N
    BY <1>2
  <2>2. x \in Seq(C) /\ c \in C /\ SizeOf(x) = H[n] /\ H[n] \in Int
    BY <1>1, <1>2, <1>4, <1>6, <2>1
  <2>3. y = IF n + 1 \in S THEN Append(x, c) ELSE x
    BY <1>1, <2>1
  <2>4. H[n + 1] = H[n] + h[n + 1] /\ h[n + 1] = IF n + 1 \in S THEN VariableSize(c.v, c.type) ELSE 0
    BY <1>3, <1>4, <2>1
  <2>5. SizeOf(Append(x, c)) = SizeOf(x) + VariableSize(c.v, c.type)
    <3> HIDE DEF x, c
    <3> QED  BY <2>2, SizeOfFew
  <2> HIDE DEF x, y, c
  <2>6. SizeOf(y) = H[n + 1]
    BY <2>2, <2>3, <2>4, <2>5
  <2> QED  BY <2>6 DEF y
<1> HIDE DEF T
<1>7. N \in T
  BY <1>2, <1>5, <1>6, Induction
<1> QED  BY <1>1, <1>2, <1>4, <1>7 DEF T

-----------------------------------------------------------------------------
(* Value blobs *)

\* The columns of a value of t, in any order, and the blob of them
ValLists(t) ==
  {columns \in Seq(Column(DOMAIN FieldTypes[t])) :
     /\ DistinctIds(columns)
     /\ \A n \in 1..Len(columns) : columns[n].type = FieldTypes[t][columns[n].id]}

ValOf(t, columns, size) == Encode(RecordType[t], columns, ValStart(Len(columns)), size)

\* What a list of columns has for a field
FieldOf(columns, f) ==
  IF \E n \in DOMAIN columns : columns[n].id = f
  THEN Stored(columns[CHOOSE n \in DOMAIN columns : columns[n].id = f]).v
  ELSE NULL

LEMMA ValListFacts ==
  ASSUME NEW t \in Tables, NEW columns \in ValLists(t)
  PROVE  /\ columns \in Seq(Column(DOMAIN FieldTypes[t])) /\ Len(columns) \in Nat
         /\ DOMAIN columns = 1..Len(columns) /\ DistinctIds(columns)
         /\ \A n \in 1..Len(columns) :
              /\ columns[n] \in Column(DOMAIN FieldTypes[t])
              /\ columns[n].id \in DOMAIN FieldTypes[t]
              /\ columns[n].type = FieldTypes[t][columns[n].id]
              /\ FieldOf(columns, columns[n].id) = Stored(columns[n]).v
<1> DEFINE C == Column(DOMAIN FieldTypes[t])
<1>1. columns \in Seq(C) /\ DistinctIds(columns)
      /\ \A n \in 1..Len(columns) : columns[n].type = FieldTypes[t][columns[n].id]
  BY DEF ValLists
<1> HIDE DEF C
<1>2. Len(columns) \in Nat /\ DOMAIN columns = 1..Len(columns) /\ \A n \in 1..Len(columns) : columns[n] \in C
  BY <1>1
<1>3. \A n \in 1..Len(columns) : columns[n].id \in DOMAIN FieldTypes[t]
  BY <1>2, ColumnFacts DEF C
<1>4. ASSUME NEW n \in 1..Len(columns)
      PROVE  FieldOf(columns, columns[n].id) = Stored(columns[n]).v
  <2>1. (CHOOSE m \in DOMAIN columns : columns[m].id = columns[n].id) = n
    BY <1>1, <1>2 DEF DistinctIds
  <2>2. \E m \in DOMAIN columns : columns[m].id = columns[n].id
    BY <1>2
  <2> QED  BY <2>1, <2>2 DEF FieldOf
<1> QED  BY <1>1, <1>2, <1>3, <1>4 DEF C

\* A value blob is sound, and each of its fields is found by its id.
LEMMA ValRead ==
  ASSUME NEW t \in Tables, NEW columns \in ValLists(t), NEW size \in Int, SizeOf(columns) <= size,
         NEW b, b = ValOf(t, columns, size)
  PROVE  /\ b.rt = RecordType[t] /\ b.size = size
         /\ Len(b.cols) = Len(columns) /\ DOMAIN b.cols = 1..Len(columns)
         /\ Sound(b, ValStart(Len(b.cols)))
         /\ \A n \in 1..Len(columns) :
              /\ b.cols[n].id = columns[n].id /\ b.cols[n].type = columns[n].type
              /\ StoredSize(b.cols[n]) = VariableSize(columns[n].v, columns[n].type)
              /\ Decode(b, b.cols[n], ValStart(Len(b.cols))) = Stored(columns[n]).v
              /\ ColumnOf(b, columns[n].id) = n
         /\ \A f : (\A n \in 1..Len(columns) : columns[n].id # f) => ColumnOf(b, f) = 0
         /\ \A f : bgetval(b, f) = FieldOf(columns, f)
<1> DEFINE N == Len(columns)
           start == ValStart(N)
           I == DOMAIN FieldTypes[t]
<1>1. /\ columns \in Seq(Column(I)) /\ N \in Nat /\ DOMAIN columns = 1..N /\ DistinctIds(columns)
      /\ \A n \in 1..N : FieldOf(columns, columns[n].id) = Stored(columns[n]).v
  BY ValListFacts
<1>2. start \in Nat
  BY <1>1 DEF ValStart
<1>3. b = Encode(RecordType[t], columns, start, size)
  BY DEF ValOf
<1> HIDE DEF start, I
<1>4. b.rt = RecordType[t] /\ b.size = size /\ DOMAIN b.cols = 1..N /\ Len(b.cols) = N
  <2>1. HasParts(b, RecordType[t], columns, start, size)
    BY <1>1, <1>3, EncodeParts
  <2> QED  BY <2>1 DEF HasParts
<1>5. ValStart(Len(b.cols)) = start
  BY <1>4 DEF start
<1>6. Sound(b, start)
  BY <1>1, <1>2, <1>3, EncodeSound
<1>7. \A n \in 1..N :
        /\ b.cols[n].id = columns[n].id /\ b.cols[n].type = columns[n].type
        /\ StoredSize(b.cols[n]) = VariableSize(columns[n].v, columns[n].type)
  <2> TAKE n \in 1..N
  <2>1. HoldsAt(b, b.cols[n], columns[n], start, Len(Variables(columns)[n - 1]))
    BY <1>1, <1>2, <1>3, EncodeColumn
  <2> QED  BY <2>1 DEF HoldsAt
<1>8. \A n \in 1..N : Decode(b, b.cols[n], start) = Stored(columns[n]).v
  <2> TAKE n \in 1..N
  <2> QED  BY <1>1, <1>2, <1>3, DecodeEncode
<1> HIDE DEF N
<1>9. \A n \in 1..N : ColumnOf(b, columns[n].id) = n
  <2> TAKE n \in 1..N
  <2> DEFINE found == {m \in DOMAIN b.cols : b.cols[m].id = columns[n].id}
  <2>1. found = {n}
    BY <1>1, <1>4, <1>7 DEF DistinctIds, N
  <2>2. n \in Int
    BY <1>1
  <2>3. Min(found) = n
    BY <2>1, <2>2 DEF Min
  <2> QED  BY <2>1, <2>3 DEF ColumnOf
<1>10. ASSUME NEW f, \A n \in 1..N : columns[n].id # f PROVE ColumnOf(b, f) = 0
  <2>1. {m \in DOMAIN b.cols : b.cols[m].id = f} = {}
    BY <1>4, <1>7, <1>10
  <2> QED  BY <2>1 DEF ColumnOf
<1>11. ASSUME NEW f PROVE bgetval(b, f) = FieldOf(columns, f)
  <2>1. CASE \E n \in 1..N : columns[n].id = f
    <3>1. PICK n \in 1..N : columns[n].id = f
      BY <2>1
    <3>2. ColumnOf(b, f) = n /\ n # 0
      BY <1>1, <1>9, <3>1
    <3>3. bgetval(b, f) = Decode(b, b.cols[n], start)
      BY <1>5, <3>2 DEF bgetval
    <3> QED  BY <1>1, <1>8, <3>1, <3>3
  <2>2. CASE \A n \in 1..N : columns[n].id # f
    <3>1. bgetval(b, f) = NULL
      BY <1>10, <2>2 DEF bgetval
    <3> QED  BY <1>1, <2>2, <3>1 DEF FieldOf
  <2> QED  BY <2>1, <2>2
<1> QED  BY <1>4, <1>5, <1>6, <1>7, <1>8, <1>9, <1>10, <1>11 DEF N

\* The arguments of the blob functions for a list of assignments
Arguments(t) == [id : DOMAIN FieldTypes[t], v : Values, type : Types]

\* What a list of assignments makes of a field that has the value old
Assigned(t, list, f, old) ==
  IF \E n \in DOMAIN list : list[n].f = f
  THEN KT!Stored(FieldTypes[t][f], list[CHOOSE n \in DOMAIN list : list[n].f = f].v)
  ELSE old

FitsFields(t, list) ==
  \A n \in DOMAIN list : list[n].v = NULL \/ Compat(list[n].v, FieldTypes[t][list[n].f])

LEMMA ArgumentsSized ==
  ASSUME NEW t \in Tables
  PROVE  Sized(Arguments(t))
<1> SUFFICES ASSUME NEW c \in Arguments(t) PROVE VariableSize(c.v, c.type) \in Int
  BY DEF Sized
<1>1. c.v \in Values
  BY DEF Arguments
<1>2. c.v.s \in Seq(Nat)
  <2>1. << >> \in Seq(Nat)
    OBVIOUS
  <2>2. CASE c.v \in [st : {"INTEGER", "FLOAT"}, i : Int, s : {<< >>}]
    BY <2>1, <2>2
  <2>3. CASE c.v \in [st : {"TEXT", "BLOB"}, i : {0}, s : Seq(Nat)]
    BY <2>3
  <2>4. CASE c.v = NULL
    BY <2>1, <2>4, BackedTableAssumption
  <2> QED  BY <1>1, <2>2, <2>3, <2>4 DEF Values
<1>3. Len(c.v.s) \in Nat
  BY <1>2
<1> QED  BY <1>3 DEF VariableSize

LEMMA ArgsFacts ==
  ASSUME NEW t \in Tables, NEW list, AreAssignments(list, DOMAIN FieldTypes[t])
  PROVE  /\ Args(t, list) \in Seq(Arguments(t)) /\ Len(Args(t, list)) = Len(list) /\ Len(list) \in Nat
         /\ DOMAIN Args(t, list) = 1..Len(list) /\ DOMAIN list = 1..Len(list)
         /\ DistinctIds(Args(t, list))
         /\ \A n \in 1..Len(list) :
              /\ Args(t, list)[n].id = list[n].f /\ Args(t, list)[n].v = list[n].v
              /\ Args(t, list)[n].type = FieldTypes[t][list[n].f]
              /\ list[n].f \in DOMAIN FieldTypes[t] /\ list[n].v \in Values
              /\ (CHOOSE m \in DOMAIN list : list[m].f = list[n].f) = n
         /\ \A m, n \in 1..Len(list) : list[m].f = list[n].f => m = n
<1> DEFINE M == Len(list)
           ups == Args(t, list)
           I == DOMAIN FieldTypes[t]
<1>1. /\ M \in Nat /\ DOMAIN list = 1..M
      /\ \A n \in 1..M : list[n].f \in I /\ list[n].v \in Values
      /\ \A m, n \in 1..M : list[m].f = list[n].f => m = n
      /\ \A n \in 1..M : (CHOOSE m \in DOMAIN list : list[m].f = list[n].f) = n
  BY AssignmentFacts
<1>2. \A f \in I : FieldTypes[t][f] \in Types
  <2>1. FieldTypes[t] \in [I -> Types]
    BY BackedTableAssumption
  <2> QED  BY <2>1
<1>3. \A n \in 1..M : ups[n] = [id |-> list[n].f, v |-> list[n].v, type |-> FieldTypes[t][list[n].f]]
  BY <1>1 DEF Args
<1>4. ups = [n \in 1..M |-> ups[n]]
  BY <1>1 DEF Args
<1> HIDE DEF ups, M, I
<1>5. \A n \in 1..M : /\ ups[n].id = list[n].f /\ ups[n].v = list[n].v
                      /\ ups[n].type = FieldTypes[t][list[n].f]
  <2> TAKE n \in 1..M
  <2>1. ups[n] = [id |-> list[n].f, v |-> list[n].v, type |-> FieldTypes[t][list[n].f]]
    BY <1>3
  <2> QED  BY <2>1
<1>6. \A n \in 1..M : ups[n] \in Arguments(t)
  <2> TAKE n \in 1..M
  <2>1. ups[n] = [id |-> list[n].f, v |-> list[n].v, type |-> FieldTypes[t][list[n].f]]
    BY <1>3
  <2>2. list[n].f \in I /\ list[n].v \in Values /\ FieldTypes[t][list[n].f] \in Types
    BY <1>1, <1>2
  <2> QED  BY <2>1, <2>2 DEF Arguments, I
<1>7. ups \in Seq(Arguments(t)) /\ Len(ups) = M /\ DOMAIN ups = 1..M
  BY <1>1, <1>4, <1>6, IsSequence
<1>8. DistinctIds(ups)
  BY <1>1, <1>5, <1>7 DEF DistinctIds
<1> QED  BY <1>1, <1>5, <1>7, <1>8 DEF ups, M, I

\* The arguments that are not NULL are the columns of a value.
LEMMA PresentFacts ==
  ASSUME NEW t \in Tables, NEW list, AreAssignments(list, DOMAIN FieldTypes[t]), FitsFields(t, list)
  PROVE  /\ Present(Args(t, list)) \in ValLists(t)
         /\ \A j \in 1..Len(Present(Args(t, list))) :
              \E n \in 1..Len(list) : list[n].f = Present(Args(t, list))[j].id
         /\ \A f : FieldOf(Present(Args(t, list)), f) = Assigned(t, list, f, NULL)
<1> DEFINE M == Len(list)
           ups == Args(t, list)
           S == {n \in DOMAIN ups : ups[n].v # NULL}
           out == Present(ups)
           I == DOMAIN FieldTypes[t]
<1>1. /\ ups \in Seq(Arguments(t)) /\ Len(ups) = M /\ M \in Nat /\ DOMAIN ups = 1..M /\ DOMAIN list = 1..M
      /\ DistinctIds(ups)
      /\ \A n \in 1..M : /\ ups[n].id = list[n].f /\ ups[n].v = list[n].v
                         /\ ups[n].type = FieldTypes[t][list[n].f]
                         /\ list[n].f \in I /\ list[n].v \in Values
                         /\ (CHOOSE m \in DOMAIN list : list[m].f = list[n].f) = n
      /\ \A m, n \in 1..M : list[m].f = list[n].f => m = n
  BY ArgsFacts
<1>2. out = Only(ups, S)
  BY DEF Present
<1> HIDE DEF ups, M, I
<1>3. out \in Seq(Arguments(t)) /\ DistinctIds(out) /\ KeepsOnly(out, ups, S)
  <2> HIDE DEF S
  <2> QED  BY <1>1, <1>2, OnlyFacts
<1>4. \A n \in S : n \in 1..M /\ list[n].v # NULL /\ ups[n] \in Arguments(t)
                   /\ Compat(ups[n].v, ups[n].type)
  <2> SUFFICES ASSUME NEW n \in S
               PROVE  n \in 1..M /\ list[n].v # NULL /\ ups[n] \in Arguments(t)
                      /\ Compat(ups[n].v, ups[n].type)
    OBVIOUS
  <2>1. n \in 1..M /\ list[n].v # NULL
    BY <1>1
  <2>2. ups[n] \in Arguments(t)
    <3> DEFINE A == Arguments(t)
    <3>1. ups \in Seq(A) /\ n \in 1..Len(ups)
      BY <1>1, <2>1
    <3> HIDE DEF A
    <3> QED  BY <3>1 DEF A
  <2>3. Compat(list[n].v, FieldTypes[t][list[n].f])
    BY <1>1, <2>1 DEF FitsFields
  <2> QED  BY <1>1, <2>1, <2>2, <2>3
<1>5. \A n \in S : ups[n] \in Column(I)
  BY <1>4 DEF Column, Arguments, I
<1> HIDE DEF out
<1>6. Len(out) \in Nat /\ DOMAIN out = 1..Len(out) /\ out = [j \in 1..Len(out) |-> out[j]]
  <2> DEFINE A == Arguments(t)
  <2>1. out \in Seq(A)
    BY <1>3
  <2> HIDE DEF A
  <2> QED  BY <2>1
<1>7. \A j \in 1..Len(out) : \E n \in S : out[j] = ups[n]
  BY <1>3 DEF KeepsOnly
<1>8. \A j \in 1..Len(out) : out[j] \in Column(I) /\ out[j].type = FieldTypes[t][out[j].id]
  <2> TAKE j \in 1..Len(out)
  <2>1. PICK n \in S : out[j] = ups[n]
    BY <1>7
  <2> HIDE DEF S
  <2> QED  BY <1>1, <1>4, <1>5, <2>1
<1>9. out \in Seq(Column(I))
  <2>1. \A j \in 1..Len(out) : out[j] \in Column(I)
    BY <1>8
  <2> QED  BY <1>6, <2>1, IsSequence
<1>10. out \in ValLists(t)
  BY <1>3, <1>8, <1>9 DEF ValLists, I
<1>11. \A j \in 1..Len(out) : \E n \in 1..M : list[n].f = out[j].id /\ list[n].v # NULL
  <2> TAKE j \in 1..Len(out)
  <2>1. PICK n \in S : out[j] = ups[n]
    BY <1>7
  <2> HIDE DEF S
  <2> QED  BY <1>1, <1>4, <2>1
<1>12. ASSUME NEW f PROVE FieldOf(out, f) = Assigned(t, list, f, NULL)
  <2>1. CASE \E n \in 1..M : list[n].f = f /\ list[n].v # NULL
    <3>1. PICK n \in 1..M : list[n].f = f /\ list[n].v # NULL
      BY <2>1
    <3>2. n \in S
      BY <1>1, <3>1
    <3> HIDE DEF S
    <3>3. PICK j \in 1..Len(out) : out[j] = ups[n]
      BY <1>1, <1>3, <3>2 DEF KeepsOnly
    <3> DEFINE c == ups[n]
    <3>4. c \in Column(I) /\ c.id = f /\ c.v = list[n].v /\ c.type = FieldTypes[t][f]
      BY <1>1, <1>5, <3>1, <3>2
    <3>5. FieldOf(out, f) = Stored(c).v
      <4>1. FieldOf(out, out[j].id) = Stored(out[j]).v
        BY <1>10, ValListFacts
      <4> QED  BY <3>3, <3>4, <4>1
    <3> HIDE DEF c
    <3>6. Stored(c).v = KT!Stored(c.type, c.v)
      BY <3>4, StoredFacts
    <3>7. Assigned(t, list, f, NULL) = KT!Stored(FieldTypes[t][f], list[n].v)
      <4>1. (CHOOSE m \in DOMAIN list : list[m].f = f) = n /\ \E m \in DOMAIN list : list[m].f = f
        BY <1>1, <3>1
      <4> QED  BY <4>1 DEF Assigned
    <3> QED  BY <3>4, <3>5, <3>6, <3>7
  <2>2. CASE ~\E n \in 1..M : list[n].f = f /\ list[n].v # NULL
    <3>1. \A j \in 1..Len(out) : out[j].id # f
      BY <1>11, <2>2
    <3>2. FieldOf(out, f) = NULL
      BY <1>6, <3>1 DEF FieldOf
    <3>3. Assigned(t, list, f, NULL) = NULL
      <4>1. CASE \E n \in 1..M : list[n].f = f
        <5>1. PICK n \in 1..M : list[n].f = f
          BY <4>1
        <5>2. list[n].v = NULL
          BY <2>2, <5>1
        <5>3. (CHOOSE m \in DOMAIN list : list[m].f = f) = n
          BY <1>1, <5>1
        <5>4. KT!Stored(FieldTypes[t][f], NULL) = NULL
          BY DEF KT!Stored
        <5> QED  BY <5>2, <5>3, <5>4 DEF Assigned
      <4>2. CASE ~\E n \in 1..M : list[n].f = f
        BY <1>1, <4>2 DEF Assigned
      <4> QED  BY <4>1, <4>2
    <3> QED  BY <3>2, <3>3
  <2> QED  BY <2>1, <2>2
<1> QED  BY <1>10, <1>11, <1>12 DEF out, ups, M

\* bcreateval makes a value blob, and fails only when a value does not fit.
LEMMA ValCreate ==
  ASSUME NEW t \in Tables, NEW list, AreAssignments(list, DOMAIN FieldTypes[t])
  PROVE  LET columns == Present(Args(t, list))
         IN ValBlob(t, list) =
              IF FitsFields(t, list) THEN Result(ValOf(t, columns, SizeOf(columns))) ELSE Error
<1> DEFINE ups == Args(t, list)
<1>1. /\ DOMAIN ups = DOMAIN list
      /\ \A n \in DOMAIN list : ups[n].v = list[n].v /\ ups[n].type = FieldTypes[t][list[n].f]
  BY ArgsFacts
<1>2. ValBlob(t, list) =
        IF \E n \in DOMAIN ups : ups[n].v # NULL /\ ~Compat(ups[n].v, ups[n].type) THEN Error
        ELSE Result(ValOf(t, Present(ups), SizeOf(Present(ups))))
  BY DEF ValBlob, bcreateval, ValOf
<1> HIDE DEF ups
<1>3. (\E n \in DOMAIN ups : ups[n].v # NULL /\ ~Compat(ups[n].v, ups[n].type)) <=> ~FitsFields(t, list)
  BY <1>1 DEF FitsFields
<1> QED  BY <1>2, <1>3 DEF ups

\* The values of a blob are stored again as they are.
LEMMA StoredTwice ==
  ASSUME NEW I, NEW c \in Column(I)
  PROVE  Stored(Stored(c)).v = Stored(c).v
<1> DEFINE s == Stored(c)
<1>1. s \in Column(I) /\ s.type = c.type /\ s.v = KT!Stored(c.type, c.v)
  BY StoredFacts
<1>2. c.v # NULL /\ c.v \in Values /\ Compat(c.v, c.type)
  BY ColumnFacts DEF Column
<1>3. s.v # NULL
  BY <1>1, ColumnFacts
<1> HIDE DEF s
<1>4. Stored(s).v = KT!Stored(s.type, s.v)
  BY <1>1, StoredFacts
<1> DEFINE v == c.v
           w == s.v
<1>5. CASE c.type = "BOOL"
  <2>1. v \in [st : {"INTEGER", "FLOAT"}, i : Int, s : {<< >>}]
    BY <1>2, <1>5 DEF Values, Compat
  <2>2. w = [v EXCEPT !.i = IF v.i = 0 THEN 0 ELSE 1]
    BY <1>1, <1>2, <1>5 DEF KT!Stored
  <2>3. Stored(s).v = [w EXCEPT !.i = IF w.i = 0 THEN 0 ELSE 1]
    BY <1>1, <1>3, <1>4, <1>5 DEF KT!Stored
  <2> HIDE DEF v, w
  <2>4. w = [st |-> v.st, i |-> IF v.i = 0 THEN 0 ELSE 1, s |-> << >>]
    BY <2>1, <2>2
  <2>5. [w EXCEPT !.i = IF w.i = 0 THEN 0 ELSE 1] = w
    BY <2>4
  <2> QED  BY <2>3, <2>5 DEF w, s
<1>6. CASE c.type = "FLOAT"
  <2>1. v \in [st : {"INTEGER", "FLOAT"}, i : Int, s : {<< >>}]
    BY <1>2, <1>6 DEF Values, Compat
  <2>2. w = [v EXCEPT !.st = "FLOAT"]
    BY <1>1, <1>2, <1>6 DEF KT!Stored
  <2>3. Stored(s).v = [w EXCEPT !.st = "FLOAT"]
    BY <1>1, <1>3, <1>4, <1>6 DEF KT!Stored
  <2> HIDE DEF v, w
  <2>4. w = [st |-> "FLOAT", i |-> v.i, s |-> << >>]
    BY <2>1, <2>2
  <2>5. [w EXCEPT !.st = "FLOAT"] = w
    BY <2>4
  <2> QED  BY <2>3, <2>5 DEF w, s
<1>7. CASE c.type \notin {"BOOL", "FLOAT"}
  <2>1. w = v /\ Stored(s).v = w
    BY <1>1, <1>2, <1>3, <1>4, <1>7 DEF KT!Stored
  <2> QED  BY <2>1 DEF s
<1> QED  BY <1>5, <1>6, <1>7

LEMMA StoredList ==
  ASSUME NEW t \in Tables, NEW columns \in ValLists(t)
  PROVE  /\ StoredColumns(columns) \in ValLists(t) /\ Len(StoredColumns(columns)) = Len(columns)
         /\ SizeOf(StoredColumns(columns)) = SizeOf(columns)
         /\ \A n \in 1..Len(columns) : /\ StoredColumns(columns)[n] = Stored(columns[n])
                                       /\ StoredColumns(columns)[n].id = columns[n].id
         /\ \A f : FieldOf(StoredColumns(columns), f) = FieldOf(columns, f)
<1> DEFINE N == Len(columns)
           I == DOMAIN FieldTypes[t]
           out == StoredColumns(columns)
<1>1. /\ columns \in Seq(Column(I)) /\ N \in Nat /\ DOMAIN columns = 1..N /\ DistinctIds(columns)
      /\ \A n \in 1..N : /\ columns[n] \in Column(I) /\ columns[n].id \in I
                         /\ columns[n].type = FieldTypes[t][columns[n].id]
                         /\ FieldOf(columns, columns[n].id) = Stored(columns[n]).v
  BY ValListFacts
<1>2. out \in Seq(Column(I)) /\ Len(out) = N /\ SizeOf(out) = SizeOf(columns)
  <2> DEFINE rt == 0
             start == 0
             size == 0
  <2> HIDE DEF rt, start, size
  <2>1. /\ StoredColumns(columns) \in Seq(Column(I)) /\ Len(StoredColumns(columns)) = Len(columns)
        /\ Encode(rt, StoredColumns(columns), start, size) = Encode(rt, columns, start, size)
        /\ SizeOf(StoredColumns(columns)) = SizeOf(columns)
    BY <1>1, EncodeStored
  <2> QED  BY <2>1
<1>3. DOMAIN out = 1..N /\ \A n \in 1..N : out[n] = Stored(columns[n])
  BY <1>1 DEF StoredColumns
<1> HIDE DEF N, I, out
<1>4. \A n \in 1..N : out[n].id = columns[n].id /\ out[n].type = columns[n].type
                      /\ Stored(out[n]).v = Stored(columns[n]).v
  <2> TAKE n \in 1..N
  <2> DEFINE c == columns[n]
  <2>1. c \in Column(I) /\ out[n] = Stored(c)
    BY <1>1, <1>3
  <2> HIDE DEF c
  <2>2. Stored(c).id = c.id /\ Stored(c).type = c.type /\ Stored(Stored(c)).v = Stored(c).v
    BY <2>1, StoredFacts, StoredTwice
  <2> QED  BY <2>1, <2>2 DEF c
<1>5. DistinctIds(out)
  BY <1>1, <1>2, <1>4 DEF DistinctIds, N
<1>6. out \in ValLists(t)
  BY <1>1, <1>2, <1>4, <1>5 DEF ValLists, I
<1>7. ASSUME NEW f PROVE FieldOf(out, f) = FieldOf(columns, f)
  <2>1. CASE \E n \in 1..N : columns[n].id = f
    <3>1. PICK n \in 1..N : columns[n].id = f
      BY <2>1
    <3>2. FieldOf(out, out[n].id) = Stored(out[n]).v
      BY <1>2, <1>6, ValListFacts
    <3> QED  BY <1>1, <1>4, <3>1, <3>2
  <2>2. CASE \A n \in 1..N : columns[n].id # f
    BY <1>1, <1>3, <1>4, <2>2 DEF FieldOf
  <2> QED  BY <2>1, <2>2
<1> QED  BY <1>2, <1>3, <1>4, <1>6, <1>7 DEF out, N

\* The columns of a value after an update
Updated(b, columns, ups) ==
  Present(ups) \o Only(StoredColumns(columns), (1..Len(columns)) \ Dirty(b, ups))

LEMMA ValUpdateShape ==
  ASSUME NEW t \in Tables, NEW columns \in ValLists(t), NEW size \in Int, SizeOf(columns) <= size,
         NEW b, b = ValOf(t, columns, size),
         NEW list, AreAssignments(list, DOMAIN FieldTypes[t]), list # << >>
  PROVE  LET ups == Args(t, list)
             new == Updated(b, columns, ups)
         IN bupdateval(b, ups) =
              IF FitsFields(t, list)
              THEN Result(ValOf(t, new, size + Total([n \in DOMAIN ups |-> Adjustment(b, ups[n])])))
              ELSE Error
<1> DEFINE N == Len(columns)
           ups == Args(t, list)
           new == Updated(b, columns, ups)
           start == ValStart(Len(b.cols))
           stored == [n \in DOMAIN b.cols |->
                        [id |-> b.cols[n].id, type |-> b.cols[n].type, v |-> Decode(b, b.cols[n], start)]]
           total == Total([n \in DOMAIN ups |-> Adjustment(b, ups[n])])
<1>1. /\ b.rt = RecordType[t] /\ b.size = size /\ DOMAIN b.cols = 1..N
      /\ Sound(b, start)
      /\ \A n \in 1..N : /\ b.cols[n].id = columns[n].id /\ b.cols[n].type = columns[n].type
                         /\ Decode(b, b.cols[n], start) = Stored(columns[n]).v
                         /\ ColumnOf(b, columns[n].id) = n
      /\ \A f : (\A n \in 1..N : columns[n].id # f) => ColumnOf(b, f) = 0
  BY ValRead
<1>2. /\ N \in Nat /\ DOMAIN columns = 1..N
      /\ \A n \in 1..N : columns[n] \in Column(DOMAIN FieldTypes[t])
                         /\ columns[n].type = FieldTypes[t][columns[n].id]
  BY ValListFacts
<1>3. /\ DOMAIN ups = 1..Len(list) /\ DOMAIN list = 1..Len(list) /\ Len(list) \in Nat /\ ups # << >>
      /\ Len(ups) = Len(list) /\ DistinctIds(ups)
      /\ \A n \in 1..Len(list) : ups[n].id = list[n].f /\ ups[n].v = list[n].v
                                 /\ ups[n].type = FieldTypes[t][list[n].f]
  <2>1. /\ DOMAIN ups = 1..Len(list) /\ DOMAIN list = 1..Len(list) /\ Len(list) \in Nat
        /\ Len(ups) = Len(list) /\ DistinctIds(ups)
        /\ \A n \in 1..Len(list) : ups[n].id = list[n].f /\ ups[n].v = list[n].v
                                   /\ ups[n].type = FieldTypes[t][list[n].f]
    BY ArgsFacts
  <2>2. Len(list) # 0
    BY DEF AreAssignments
  <2> HIDE DEF ups
  <2> QED  BY <2>1, <2>2
<1>4. stored = StoredColumns(columns)
  <2>1. \A n \in 1..N : [id |-> b.cols[n].id, type |-> b.cols[n].type, v |-> Decode(b, b.cols[n], start)]
                        = Stored(columns[n])
    <3> TAKE n \in 1..N
    <3> DEFINE c == columns[n]
    <3>1. c \in Column(DOMAIN FieldTypes[t])
      BY <1>2
    <3> HIDE DEF c
    <3>2. Stored(c) = [id |-> c.id, type |-> c.type, v |-> Stored(c).v]
      <4>1. Stored(c) \in Column(DOMAIN FieldTypes[t]) /\ Stored(c).id = c.id /\ Stored(c).type = c.type
        BY <3>1, StoredFacts
      <4>2. Stored(c) = [id |-> Stored(c).id, type |-> Stored(c).type, v |-> Stored(c).v]
        BY <4>1, ColumnFacts
      <4> QED  BY <4>1, <4>2
    <3> QED  BY <1>1, <3>2 DEF c
  <2> HIDE DEF start
  <2> QED  BY <1>1, <1>2, <2>1 DEF StoredColumns
<1> DEFINE bad(n) == LET c == ColumnOf(b, ups[n].id) IN
                     \/ /\ c # 0
                        /\ \/ ups[n].type # b.cols[c].type
                           \/ \E m \in 1..(n - 1) : ups[m].id = ups[n].id
                     \/ ups[n].v # NULL /\ ~Compat(ups[n].v, ups[n].type)
           result == Present(ups) \o Only(stored, DOMAIN stored \ Dirty(b, ups))
<1>5. bupdateval(b, ups) =
        IF ups = << >> \/ ~Valid(b, start) \/ \E n \in DOMAIN ups : bad(n) THEN Error
        ELSE Result(Encode(b.rt, result, ValStart(Len(result)), b.size + total))
  BY DEF bupdateval
<1>6. result = new
  <2>1. DOMAIN stored = 1..N
    BY <1>1
  <2> HIDE DEF stored
  <2> QED  BY <1>4, <2>1 DEF Updated
<1>7. Valid(b, start)
  BY <1>1 DEF Sound
<1> HIDE DEF ups, start, stored, result, total, new
<1>8. ASSUME NEW n \in 1..Len(list)
      PROVE  bad(n) <=> list[n].v # NULL /\ ~Compat(list[n].v, FieldTypes[t][list[n].f])
  <2> DEFINE c == ColumnOf(b, ups[n].id)
  <2>1. ~\E m \in 1..(n - 1) : ups[m].id = ups[n].id
    <3> SUFFICES ASSUME NEW m \in 1..(n - 1), ups[m].id = ups[n].id PROVE FALSE
      OBVIOUS
    <3>1. m \in 1..Len(list) /\ m # n
      BY <1>3
    <3> QED  BY <1>3, <3>1 DEF DistinctIds
  <2>2. c # 0 => ups[n].type = b.cols[c].type
    <3> SUFFICES ASSUME c # 0 PROVE ups[n].type = b.cols[c].type
      OBVIOUS
    <3>1. PICK i \in 1..N : columns[i].id = ups[n].id
      BY <1>1
    <3>2. c = i
      BY <1>1, <3>1
    <3> HIDE DEF c
    <3> QED  BY <1>1, <1>2, <1>3, <3>1, <3>2
  <2>3. bad(n) <=> ups[n].v # NULL /\ ~Compat(ups[n].v, ups[n].type)
    BY <2>1, <2>2
  <2> HIDE DEF bad
  <2> QED  BY <1>3, <2>3
<1> HIDE DEF bad
<1>9. (\E n \in DOMAIN ups : bad(n)) <=> ~FitsFields(t, list)
  BY <1>3, <1>8 DEF FitsFields
<1>10. bupdateval(b, ups) =
         IF FitsFields(t, list) THEN Result(Encode(RecordType[t], new, ValStart(Len(new)), size + total))
         ELSE Error
  BY <1>1, <1>3, <1>5, <1>6, <1>7, <1>9
<1> QED  BY <1>10 DEF ValOf, ups, new, total

\* Which columns an update names
LEMMA DirtyFacts ==
  ASSUME NEW t \in Tables, NEW columns \in ValLists(t), NEW size \in Int, SizeOf(columns) <= size,
         NEW b, b = ValOf(t, columns, size),
         NEW list, AreAssignments(list, DOMAIN FieldTypes[t])
  PROVE  \A i \in 1..Len(columns) :
           i \in Dirty(b, Args(t, list)) <=> \E n \in DOMAIN list : list[n].f = columns[i].id
<1> DEFINE N == Len(columns)
           ups == Args(t, list)
<1>1. /\ \A n \in 1..N : ColumnOf(b, columns[n].id) = n
      /\ \A f : (\A n \in 1..N : columns[n].id # f) => ColumnOf(b, f) = 0
  BY ValRead
<1>2. DOMAIN ups = DOMAIN list /\ \A n \in DOMAIN list : ups[n].id = list[n].f
  BY ArgsFacts
<1>3. N \in Nat
  BY ValListFacts
<1> HIDE DEF N, ups
<1>4. ASSUME NEW i \in 1..N PROVE i \in Dirty(b, ups) <=> \E n \in DOMAIN list : list[n].f = columns[i].id
  <2>1. ASSUME i \in Dirty(b, ups) PROVE \E n \in DOMAIN list : list[n].f = columns[i].id
    <3>1. PICK n \in DOMAIN list : ColumnOf(b, list[n].f) = i
      BY <1>2, <2>1 DEF Dirty
    <3>2. PICK m \in 1..N : columns[m].id = list[n].f
      BY <1>1, <1>3, <3>1
    <3>3. m = i
      BY <1>1, <3>1, <3>2
    <3> QED  BY <3>2, <3>3
  <2>2. ASSUME NEW n \in DOMAIN list, list[n].f = columns[i].id PROVE i \in Dirty(b, ups)
    <3>1. ColumnOf(b, ups[n].id) = i
      BY <1>1, <1>2, <2>2
    <3> QED  BY <1>2, <3>1 DEF Dirty
  <2> QED  BY <2>1, <2>2
<1> QED  BY <1>4 DEF N, ups

\* After an update each field has the value assigned to it, or the one it had.
LEMMA UpdatedFields ==
  ASSUME NEW t \in Tables, NEW columns \in ValLists(t), NEW size \in Int, SizeOf(columns) <= size,
         NEW b, b = ValOf(t, columns, size),
         NEW list, AreAssignments(list, DOMAIN FieldTypes[t]), FitsFields(t, list)
  PROVE  /\ Updated(b, columns, Args(t, list)) \in ValLists(t)
         /\ \A f : FieldOf(Updated(b, columns, Args(t, list)), f)
                   = Assigned(t, list, f, FieldOf(columns, f))
<1> DEFINE N == Len(columns)
           ups == Args(t, list)
           I == DOMAIN FieldTypes[t]
           C == Column(I)
           first == Present(ups)
           stored == StoredColumns(columns)
           S == (1..N) \ Dirty(b, ups)
           rest == Only(stored, S)
           new == Updated(b, columns, ups)
           P == Len(first)
           R == Len(rest)
<1>1. /\ first \in ValLists(t)
      /\ \A j \in 1..P : \E n \in 1..Len(list) : list[n].f = first[j].id
      /\ \A f : FieldOf(first, f) = Assigned(t, list, f, NULL)
  BY PresentFacts
<1>2. /\ stored \in ValLists(t) /\ Len(stored) = N
      /\ \A n \in 1..N : stored[n].id = columns[n].id
      /\ \A f : FieldOf(stored, f) = FieldOf(columns, f)
  BY StoredList
<1>3. \A i \in 1..N : i \in S <=> ~\E n \in DOMAIN list : list[n].f = columns[i].id
  BY DirtyFacts
<1>4. DOMAIN list = 1..Len(list) /\ \A n \in 1..Len(list) : list[n].f \in I
  BY ArgsFacts
<1> HIDE DEF first, stored, ups, S
<1>5. /\ first \in Seq(C) /\ P \in Nat /\ DOMAIN first = 1..P /\ DistinctIds(first)
      /\ \A n \in 1..P : /\ first[n] \in C /\ first[n].type = FieldTypes[t][first[n].id]
                         /\ FieldOf(first, first[n].id) = Stored(first[n]).v
  BY <1>1, ValListFacts
<1>6. /\ stored \in Seq(C) /\ N \in Nat /\ DOMAIN stored = 1..N /\ DistinctIds(stored)
      /\ \A n \in 1..N : /\ stored[n] \in C /\ stored[n].type = FieldTypes[t][stored[n].id]
                         /\ FieldOf(stored, stored[n].id) = Stored(stored[n]).v
  <2> HIDE DEF N
  <2> QED  BY <1>2, ValListFacts
<1> HIDE DEF C
<1>7. rest \in Seq(C) /\ DistinctIds(rest) /\ KeepsOnly(rest, stored, S)
  BY <1>6, OnlyFacts
<1> HIDE DEF rest
<1>8. R \in Nat /\ DOMAIN rest = 1..R /\ \A j \in 1..R : rest[j] \in C
  BY <1>7
<1>9. \A j \in 1..R : \E i \in 1..N : i \in S /\ rest[j] = stored[i]
  BY <1>2, <1>7 DEF KeepsOnly
<1>10. \A i \in 1..N : i \in S => \E j \in 1..R : rest[j] = stored[i]
  BY <1>2, <1>7 DEF KeepsOnly
<1>11. new = first \o rest
  BY DEF Updated, rest, first, S, stored
<1> HIDE DEF new, N, P, R
<1>12. /\ new \in Seq(C) /\ Len(new) = P + R /\ DOMAIN new = 1..(P + R)
       /\ (\A j \in 1..P : new[j] = first[j]) /\ (\A j \in 1..R : new[P + j] = rest[j])
  BY <1>5, <1>7, <1>11 DEF P, R
<1>13. \A j \in 1..R : ~\E n \in DOMAIN list : list[n].f = rest[j].id
  <2> TAKE j \in 1..R
  <2>1. PICK i \in 1..N : i \in S /\ rest[j] = stored[i]
    BY <1>9
  <2> QED  BY <1>2, <1>3, <2>1
<1>14. \A j \in 1..P, k \in 1..R : first[j].id # rest[k].id
  <2> TAKE j \in 1..P, k \in 1..R
  <2>1. \E n \in DOMAIN list : list[n].f = first[j].id
    BY <1>1, <1>4 DEF P
  <2> QED  BY <1>13, <2>1
<1>15. \A j \in 1..(P + R) : (j \in 1..P /\ new[j] = first[j])
                             \/ (j - P \in 1..R /\ new[j] = rest[j - P])
  <2> TAKE j \in 1..(P + R)
  <2>1. CASE j \in 1..P
    BY <1>12, <2>1
  <2>2. CASE j \notin 1..P
    <3>1. j - P \in 1..R /\ P + (j - P) = j
      BY <1>5, <1>8, <2>2
    <3>2. new[P + (j - P)] = rest[j - P]
      BY <1>12, <3>1
    <3> QED  BY <3>1, <3>2
  <2> QED  BY <2>1, <2>2
<1>16. DistinctIds(new)
  <2> SUFFICES ASSUME NEW m \in 1..(P + R), NEW n \in 1..(P + R), new[m].id = new[n].id PROVE m = n
    BY <1>12 DEF DistinctIds
  <2>1. CASE m \in 1..P /\ n \in 1..P
    BY <1>5, <1>12, <2>1 DEF DistinctIds, P
  <2>2. CASE m \in 1..P /\ n \notin 1..P
    <3>1. n - P \in 1..R /\ new[n] = rest[n - P] /\ new[m] = first[m]
      BY <1>12, <1>15, <2>2
    <3> QED  BY <1>14, <2>2, <3>1
  <2>3. CASE m \notin 1..P /\ n \in 1..P
    <3>1. m - P \in 1..R /\ new[m] = rest[m - P] /\ new[n] = first[n]
      BY <1>12, <1>15, <2>3
    <3> QED  BY <1>14, <2>3, <3>1
  <2>4. CASE m \notin 1..P /\ n \notin 1..P
    <3>1. /\ m - P \in 1..R /\ new[m] = rest[m - P]
          /\ n - P \in 1..R /\ new[n] = rest[n - P]
      BY <1>15, <2>4
    <3>2. m - P = n - P
      BY <1>7, <3>1 DEF DistinctIds, R
    <3> QED  BY <1>5, <1>8, <3>2
  <2> QED  BY <2>1, <2>2, <2>3, <2>4
<1>17. \A j \in 1..(P + R) : new[j].type = FieldTypes[t][new[j].id]
  <2> TAKE j \in 1..(P + R)
  <2>1. CASE j \in 1..P /\ new[j] = first[j]
    BY <1>5, <2>1
  <2>2. CASE j - P \in 1..R /\ new[j] = rest[j - P]
    <3>1. PICK i \in 1..N : rest[j - P] = stored[i]
      BY <1>9, <2>2
    <3> QED  BY <1>6, <2>2, <3>1
  <2> QED  BY <1>15, <2>1, <2>2
<1>18. new \in ValLists(t)
  BY <1>12, <1>16, <1>17 DEF ValLists, C, I
<1>19. ASSUME NEW f PROVE FieldOf(new, f) = Assigned(t, list, f, FieldOf(columns, f))
  <2>1. \A j \in 1..(P + R) : FieldOf(new, new[j].id) = Stored(new[j]).v
    BY <1>12, <1>18, ValListFacts
  <2>2. CASE \E n \in DOMAIN list : list[n].f = f
    <3>1. Assigned(t, list, f, FieldOf(columns, f)) = FieldOf(first, f)
      BY <1>1, <2>2 DEF Assigned
    <3>2. CASE \E j \in 1..P : first[j].id = f
      <4>1. PICK j \in 1..P : first[j].id = f
        BY <3>2
      <4>2. j \in 1..(P + R) /\ new[j] = first[j]
        BY <1>5, <1>8, <1>12
      <4>3. FieldOf(new, f) = Stored(first[j]).v
        BY <2>1, <4>1, <4>2
      <4> QED  BY <1>5, <3>1, <4>1, <4>3
    <3>3. CASE \A j \in 1..P : first[j].id # f
      <4>1. \A j \in 1..R : rest[j].id # f
        BY <1>13, <2>2
      <4>2. \A j \in 1..(P + R) : new[j].id # f
        BY <1>15, <3>3, <4>1
      <4>3. FieldOf(new, f) = NULL
        BY <1>12, <4>2 DEF FieldOf
      <4>4. FieldOf(first, f) = NULL
        BY <1>5, <3>3 DEF FieldOf
      <4> QED  BY <3>1, <4>3, <4>4
    <3> QED  BY <3>2, <3>3
  <2>3. CASE ~\E n \in DOMAIN list : list[n].f = f
    <3>1. Assigned(t, list, f, FieldOf(columns, f)) = FieldOf(stored, f)
      BY <1>2, <2>3 DEF Assigned
    <3>2. \A j \in 1..P : first[j].id # f
      BY <1>1, <1>4, <2>3 DEF P
    <3>3. CASE \E i \in 1..N : stored[i].id = f
      <4>1. PICK i \in 1..N : stored[i].id = f
        BY <3>3
      <4>2. i \in S
        BY <1>2, <1>3, <2>3, <4>1
      <4>3. PICK j \in 1..R : rest[j] = stored[i]
        BY <1>10, <4>2
      <4>4. P + j \in 1..(P + R) /\ new[P + j] = stored[i]
        BY <1>5, <1>8, <1>12, <4>3
      <4>5. FieldOf(new, f) = Stored(stored[i]).v
        BY <2>1, <4>1, <4>4
      <4> QED  BY <1>6, <3>1, <4>1, <4>5
    <3>4. CASE \A i \in 1..N : stored[i].id # f
      <4>1. \A j \in 1..R : rest[j].id # f
        BY <1>9, <3>4
      <4>2. \A j \in 1..(P + R) : new[j].id # f
        BY <1>15, <3>2, <4>1
      <4>3. FieldOf(new, f) = NULL
        BY <1>12, <4>2 DEF FieldOf
      <4>4. FieldOf(stored, f) = NULL
        BY <1>6, <3>4 DEF FieldOf
      <4> QED  BY <3>1, <4>3, <4>4
    <3> QED  BY <3>3, <3>4
  <2> QED  BY <2>2, <2>3
<1> QED  BY <1>18, <1>19 DEF new, ups

\* The space that an update asks for is enough for the columns that it leaves.
LEMMA UpdatedSize ==
  ASSUME NEW t \in Tables, NEW columns \in ValLists(t), NEW size \in Int, SizeOf(columns) <= size,
         NEW b, b = ValOf(t, columns, size),
         NEW list, AreAssignments(list, DOMAIN FieldTypes[t]), FitsFields(t, list)
  PROVE  LET ups == Args(t, list)
             total == Total([n \in DOMAIN ups |-> Adjustment(b, ups[n])])
         IN total \in Int /\ SizeOf(Updated(b, columns, ups)) <= size + total
<1> DEFINE N == Len(columns)
           ups == Args(t, list)
           M == Len(list)
           I == DOMAIN FieldTypes[t]
           C == Column(I)
           A == Arguments(t)
           stored == StoredColumns(columns)
           old == Sizes(columns)
           P == {n \in DOMAIN ups : ups[n].v # NULL}
           S == (1..N) \ Dirty(b, ups)
           first == Present(ups)
           rest == Only(stored, S)
           adj == [n \in DOMAIN ups |-> Adjustment(b, ups[n])]
           at == [n \in 1..M |-> ColumnOf(b, ups[n].id)]
           Q == {n \in 1..M : ups[n].v # NULL /\ at[n] # 0}
           p == [n \in 1..M |-> IF ups[n].v # NULL THEN VariableSize(ups[n].v, ups[n].type) ELSE 0]
           d == [n \in 1..M |-> IF n \in Q THEN old[at[n]] ELSE 0]
           q == [i \in 1..N |-> IF i \in S THEN old[i] ELSE 0]
           g == [i \in 1..N |-> IF \E n \in Q : at[n] = i THEN old[i] ELSE 0]
           gq == [i \in 1..N |-> g[i] + q[i]]
<1>1. /\ DOMAIN b.cols = 1..N
      /\ \A n \in 1..N : /\ StoredSize(b.cols[n]) = VariableSize(columns[n].v, columns[n].type)
                         /\ ColumnOf(b, columns[n].id) = n
      /\ \A f : (\A n \in 1..N : columns[n].id # f) => ColumnOf(b, f) = 0
  BY ValRead
<1>2. columns \in Seq(C) /\ N \in Nat /\ DOMAIN columns = 1..N
  BY ValListFacts
<1>3. /\ ups \in Seq(A) /\ M \in Nat /\ DOMAIN ups = 1..M /\ Len(ups) = M /\ DistinctIds(ups)
  BY ArgsFacts
<1>4. Sized(A)
  BY ArgumentsSized
<1>5. Sized(C)
  <2> SUFFICES ASSUME NEW c \in C PROVE VariableSize(c.v, c.type) \in Int
    BY DEF Sized
  <2>1. VariableSize(c.v, c.type) \in Nat
    BY ColumnFacts
  <2> QED  BY <2>1
<1>6. /\ old \in [1..N -> Nat] /\ old \in [1..N -> Int] /\ SizeOf(columns) = Total(old)
      /\ \A n \in 1..N : old[n] = VariableSize(columns[n].v, columns[n].type)
  <2> HIDE DEF C
  <2> QED  BY <1>2, SizesFacts DEF C
<1>7. /\ stored \in ValLists(t) /\ Len(stored) = N
      /\ \A n \in 1..N : stored[n] = Stored(columns[n])
  BY StoredList
<1>8. stored \in Seq(C)
  BY <1>7, ValListFacts
<1>9. \A n \in 1..N : VariableSize(stored[n].v, stored[n].type) = old[n]
  <2> TAKE n \in 1..N
  <2> DEFINE c == columns[n]
  <2>1. c \in Column(I)
    BY <1>2
  <2> HIDE DEF c
  <2>2. Stored(c).type = c.type /\ VariableSize(Stored(c).v, c.type) = VariableSize(c.v, c.type)
    BY <2>1, StoredFacts
  <2> QED  BY <1>6, <1>7, <2>2 DEF c
<1>10. first \in ValLists(t)
  BY PresentFacts
<1>11. first \in Seq(C)
  BY <1>10, ValListFacts
<1> HIDE DEF C, A, I, stored, old
<1>12. DistinctIds(stored)
  BY <1>7, ValListFacts
<1>13. rest \in Seq(C)
  <2> HIDE DEF S
  <2> QED  BY <1>8, <1>12, OnlyFacts
<1>14. \A n \in 1..M : ups[n] \in A
  BY <1>3
<1> HIDE DEF ups
<1>15. p \in [1..M -> Int]
  BY <1>4, <1>14 DEF Sized
<1>16. SizeOf(first) = Total(p)
  <2>1. \A n \in 1..Len(ups) : p[n] = IF n \in P THEN VariableSize(ups[n].v, ups[n].type) ELSE 0
    BY <1>3
  <2>2. p \in [1..Len(ups) -> Int]
    BY <1>3, <1>15
  <2>3. first = Only(ups, P)
    BY DEF Present
  <2> HIDE DEF p, P
  <2>4. SizeOf(Only(ups, P)) = Total(p)
    BY <1>3, <1>4, <2>1, <2>2, OnlySize
  <2> QED  BY <2>3, <2>4
<1>17. q \in [1..N -> Int]
  BY <1>6
<1>18. SizeOf(rest) = Total(q)
  <2>1. \A n \in 1..Len(stored) : q[n] = IF n \in S THEN VariableSize(stored[n].v, stored[n].type) ELSE 0
    BY <1>7, <1>9
  <2>2. q \in [1..Len(stored) -> Int]
    BY <1>7, <1>17
  <2> HIDE DEF q, S
  <2> QED  BY <1>5, <1>8, <2>1, <2>2, OnlySize
<1>19. SizeOf(Updated(b, columns, ups)) = Total(p) + Total(q)
  <2>1. Updated(b, columns, ups) = first \o rest
    BY DEF Updated, stored
  <2> HIDE DEF first, rest, p, q
  <2>2. SizeOf(first \o rest) = SizeOf(first) + SizeOf(rest)
    BY <1>5, <1>11, <1>13, SizeOfBoth
  <2> QED  BY <1>16, <1>18, <2>1, <2>2
<1>20. \A n \in 1..M : at[n] = 0 \/ (at[n] \in 1..N /\ columns[at[n]].id = ups[n].id)
  <2> TAKE n \in 1..M
  <2>1. CASE \A i \in 1..N : columns[i].id # ups[n].id
    BY <1>1, <2>1
  <2>2. CASE \E i \in 1..N : columns[i].id = ups[n].id
    <3>1. PICK i \in 1..N : columns[i].id = ups[n].id
      BY <2>2
    <3>2. at[n] = i
      BY <1>1, <3>1
    <3> QED  BY <3>1, <3>2
  <2> QED  BY <2>1, <2>2
<1>21. \A n \in 1..M : at[n] = ColumnOf(b, ups[n].id)
  OBVIOUS
<1> HIDE DEF at
<1>22. \A n \in Q : n \in 1..M /\ at[n] \in 1..N /\ columns[at[n]].id = ups[n].id
  BY <1>20
<1>23. \A m, n \in Q : at[m] = at[n] => m = n
  <2> TAKE m, n \in Q
  <2>1. at[m] = at[n] => ups[m].id = ups[n].id
    BY <1>22
  <2> QED  BY <1>3, <1>22, <2>1 DEF DistinctIds
<1>24. d \in [1..M -> Int]
  BY <1>6, <1>22
<1>25. \A n \in 1..M : adj[n] = p[n] - d[n]
  <2> TAKE n \in 1..M
  <2> DEFINE u == ups[n]
  <2>1. adj[n] = Adjustment(b, u)
    BY <1>3
  <2>2. u.v # NULL => VariableSize(u.v, u.type) \in Int
    BY <1>4, <1>14 DEF Sized
  <2>3. CASE u.v = NULL
    <3>1. adj[n] = 0 /\ p[n] = 0 /\ d[n] = 0
      BY <2>1, <2>3 DEF Adjustment
    <3> QED  BY <3>1
  <2>4. CASE u.v # NULL /\ at[n] = 0
    <3>1. adj[n] = VariableSize(u.v, u.type) /\ p[n] = VariableSize(u.v, u.type) /\ d[n] = 0
      BY <1>21, <2>1, <2>4 DEF Adjustment
    <3> QED  BY <2>2, <2>4, <3>1
  <2>5. CASE u.v # NULL /\ at[n] # 0
    <3>1. adj[n] = VariableSize(u.v, u.type) - StoredSize(b.cols[at[n]])
      BY <1>21, <2>1, <2>5 DEF Adjustment
    <3>2. p[n] = VariableSize(u.v, u.type) /\ d[n] = old[at[n]]
      BY <2>5
    <3>3. at[n] \in 1..N
      BY <1>20, <2>5
    <3>4. StoredSize(b.cols[at[n]]) = old[at[n]]
      BY <1>1, <1>6, <3>3
    <3> QED  BY <3>1, <3>2, <3>4
  <2> QED  BY <2>3, <2>4, <2>5
<1>26. adj \in [1..M -> Int]
  <2>1. adj = [n \in 1..M |-> p[n] - d[n]]
    BY <1>3, <1>25
  <2> HIDE DEF adj, p, d
  <2>2. [n \in 1..M |-> p[n] - d[n]] \in [1..M -> Int]
    BY <1>15, <1>24
  <2> QED  BY <2>1, <2>2
<1>27. g \in [1..N -> Int]
  BY <1>6
<1>28. gq \in [1..N -> Int] /\ \A i \in 1..N : gq[i] = g[i] + q[i]
  <2> HIDE DEF g, q
  <2> QED  BY <1>17, <1>27
<1>29. \A i \in 1..N : gq[i] <= old[i]
  <2> TAKE i \in 1..N
  <2>1. old[i] \in Nat
    BY <1>6
  <2>2. CASE \E n \in Q : at[n] = i
    <3>1. PICK n \in Q : at[n] = i
      BY <2>2
    <3>2. i \in Dirty(b, ups)
      BY <1>3, <1>21, <1>22, <3>1 DEF Dirty
    <3>3. g[i] = old[i] /\ q[i] = 0
      BY <2>2, <3>2
    <3> QED  BY <1>28, <2>1, <3>3
  <2>3. CASE ~\E n \in Q : at[n] = i
    <3>1. g[i] = 0 /\ (q[i] = 0 \/ q[i] = old[i])
      BY <2>3
    <3> QED  BY <1>28, <2>1, <3>1
  <2> QED  BY <2>2, <2>3
<1>30. Picks(d, Q, M, at, old, g, N)
  <2>1. Q \subseteq 1..M
    OBVIOUS
  <2>2. /\ \A n \in 1..M : d[n] = IF n \in Q THEN old[at[n]] ELSE 0
        /\ \A i \in 1..N : g[i] = IF \E n \in Q : at[n] = i THEN old[i] ELSE 0
    OBVIOUS
  <2> HIDE DEF d, g, Q
  <2> QED  BY <1>2, <1>3, <1>6, <1>22, <1>23, <1>24, <1>27, <2>1, <2>2 DEF Picks
<1> HIDE DEF d, g, q, p, adj, gq, Q
<1>31. Total(d) = Total(g)
  BY <1>30, TotalPicked
<1>32. Total(gq) = Total(g) + Total(q)
  BY <1>2, <1>17, <1>27, <1>28, TotalAdd
<1>33. Total(gq) <= Total(old)
  BY <1>2, <1>6, <1>28, <1>29, TotalMonotone
<1>34. \A n \in 1..M : p[n] = adj[n] + d[n]
  <2> TAKE n \in 1..M
  <2>1. adj[n] = p[n] - d[n] /\ p[n] \in Int /\ d[n] \in Int
    BY <1>15, <1>24, <1>25
  <2> QED  BY <2>1
<1>35. Total(p) = Total(adj) + Total(d)
  BY <1>3, <1>15, <1>24, <1>26, <1>34, TotalAdd
<1>36. /\ Total(adj) \in Int /\ Total(d) \in Int /\ Total(p) \in Int /\ Total(q) \in Int
       /\ Total(g) \in Int /\ Total(gq) \in Int /\ Total(old) \in Int
  BY <1>2, <1>3, <1>6, <1>15, <1>17, <1>24, <1>26, <1>27, <1>28, TotalInt
<1>37. SizeOf(Updated(b, columns, ups)) <= size + Total(adj)
  <2> DEFINE a == Total(adj)
             e == Total(d)
             r == Total(q)
             o == Total(old)
             x == Total(p)
             y == Total(g)
             z == Total(gq)
             u == SizeOf(Updated(b, columns, ups))
             w == SizeOf(columns)
  <2>1. /\ u = x + r /\ x = a + e /\ e = y /\ z = y + r /\ z <= o /\ w = o /\ w <= size
        /\ a \in Int /\ e \in Int /\ r \in Int /\ o \in Int /\ x \in Int /\ y \in Int /\ z \in Int
    BY <1>6, <1>19, <1>31, <1>32, <1>33, <1>35, <1>36
  <2> SUFFICES u <= size + a
    OBVIOUS
  <2> HIDE DEF a, e, r, o, x, y, z, u, w
  <2> QED  BY <2>1
<1> QED  BY <1>36, <1>37 DEF adj, ups

-----------------------------------------------------------------------------
(* The blobs of the backing table, and what a statement makes of them *)

IsKey(t, k) == \E columns \in KeyLists(t) : k = KeyOf(t, columns)
IsVal(t, b) ==
  \E columns \in ValLists(t), size \in Int : SizeOf(columns) <= size /\ b = ValOf(t, columns, size)

\* What a value blob says of each field
Record(t, b) == [f \in DOMAIN FieldTypes[t] |-> bgetval(b, f)]

\* The storage classes that cql_blobtype_vs_argtype_compat lets through are those
\* that the column takes.
LEMMA CompatFits ==
  ASSUME NEW type \in Types, NEW v
  PROVE  Compat(v, type) <=> KT!Fits(type, v)
BY DEF Types, Compat, KT!Fits

LEMMA KeyFacts ==
  ASSUME NEW t \in Tables, NEW k, IsKey(t, k)
  PROVE  /\ k.rt = RecordType[t] /\ KeyColumns(k) \in Seq(Values)
         /\ Len(KeyColumns(k)) = Len(KeyTypes[t]) /\ DOMAIN KeyColumns(k) = DOMAIN KeyTypes[t]
         /\ Sound(k, KeyStart(Len(k.cols)))
         /\ KeyBlob(t, KeyColumns(k)) = Result(k)
<1>1. PICK columns \in KeyLists(t) : k = KeyOf(t, columns)
  BY DEF IsKey
<1>2. /\ k.rt = RecordType[t] /\ KeyColumns(k) \in Seq(Values)
      /\ Len(KeyColumns(k)) = Len(KeyTypes[t])
      /\ Sound(k, KeyStart(Len(k.cols)))
      /\ KeyBlob(t, KeyColumns(k)) = Result(k)
  BY <1>1, KeyRead
<1>3. DOMAIN KeyTypes[t] = 1..Len(KeyTypes[t])
  BY KeyTypesFacts
<1> DEFINE key == KeyColumns(k)
           V == Values
<1> HIDE DEF key, V
<1>4. key \in Seq(V) /\ Len(key) = Len(KeyTypes[t])
  BY <1>2 DEF key, V
<1>5. DOMAIN key = 1..Len(key)
  BY <1>4
<1> QED  BY <1>2, <1>3, <1>4, <1>5 DEF key

\* A table tells its keys apart by their columns, and its keys from those of others.
LEMMA KeyIsItsColumns ==
  ASSUME NEW t \in Tables, NEW u \in Tables, NEW k, IsKey(t, k), NEW l, IsKey(u, l)
  PROVE  /\ k.rt = RecordType[u] => t = u
         /\ t = u /\ KeyColumns(k) = KeyColumns(l) => k = l
<1>1. k.rt = RecordType[t] /\ KeyBlob(t, KeyColumns(k)) = Result(k)
  BY KeyFacts
<1>2. KeyBlob(u, KeyColumns(l)) = Result(l)
  BY KeyFacts
<1>3. RecordType[t] = RecordType[u] => t = u
  BY BackedTableAssumption
<1>4. Result(k) = Result(l) => k = l
  BY DEF Result
<1> QED  BY <1>1, <1>2, <1>3, <1>4

\* bcreatekey makes a key of the values, as they are stored, or fails when they do
\* not fit.
LEMMA KeyCreated ==
  ASSUME NEW t \in Tables, NEW key \in Seq(Values), Len(key) = Len(KeyTypes[t])
  PROVE  LET made == KeyBlob(t, key) IN
         /\ made.ok \in BOOLEAN /\ (made.ok <=> KT!KeyFits(t, key))
         /\ made.ok => /\ IsKey(t, made.blob)
                       /\ KeyColumns(made.blob) = [i \in DOMAIN key |-> KT!Stored(KeyTypes[t][i], key[i])]
<1> DEFINE N == Len(key)
           V == Values
           columns == TypedKey(t, key)
           k == KeyOf(t, columns)
           made == KeyBlob(t, key)
<1>1. N \in Nat /\ DOMAIN key = 1..N
  <2> HIDE DEF V
  <2>1. key \in Seq(V)
    BY DEF V
  <2> QED  BY <2>1
<1>2. made = IF FitsKey(t, key) THEN Result(k) ELSE Error
  BY KeyBlobFacts
<1>3. FitsKey(t, key) <=> KT!KeyFits(t, key)
  <2>1. \A n \in 1..N : KeyTypes[t][n] \in Types
    BY KeyTypesFacts
  <2>2. \A n \in 1..N : Compat(key[n], KeyTypes[t][n]) <=> KT!Fits(KeyTypes[t][n], key[n])
    BY <2>1, CompatFits
  <2> QED  BY <1>1, <2>2 DEF FitsKey, KT!KeyFits
<1>4. CASE ~FitsKey(t, key)
  BY <1>2, <1>3, <1>4 DEF Error
<1>5. CASE FitsKey(t, key)
  <2>1. /\ columns \in KeyLists(t) /\ Len(columns) = N
        /\ \A n \in 1..N : columns[n] = [id |-> 0, type |-> KeyTypes[t][n], v |-> key[n]]
    BY <1>5, TypedKeyFacts
  <2> HIDE DEF columns
  <2>2. made.ok = TRUE /\ made.blob = k
    BY <1>2, <1>5 DEF Result
  <2>3. IsKey(t, k)
    BY <2>1 DEF IsKey
  <2>4. /\ Len(k.cols) = Len(columns) /\ DOMAIN k.cols = 1..Len(columns)
        /\ \A n \in 1..Len(columns) : KeyColumns(k)[n] = Stored(columns[n]).v
    BY <2>1, KeyRead
  <2>5. \A n \in 1..N : KeyColumns(k)[n] = KT!Stored(KeyTypes[t][n], key[n])
    <3> TAKE n \in 1..N
    <3> DEFINE c == columns[n]
    <3>1. c \in Column({0})
      BY <2>1, KeyListFacts
    <3> HIDE DEF c
    <3>2. Stored(c).v = KT!Stored(c.type, c.v)
      BY <3>1, StoredFacts
    <3>3. c = [id |-> 0, type |-> KeyTypes[t][n], v |-> key[n]]
      BY <2>1 DEF c
    <3>4. c.type = KeyTypes[t][n] /\ c.v = key[n]
      BY <3>3
    <3> QED  BY <2>1, <2>4, <3>2, <3>4 DEF c
  <2>6. KeyColumns(k) = [n \in 1..N |-> KeyColumns(k)[n]]
    BY <2>1, <2>4 DEF KeyColumns
  <2> HIDE DEF k
  <2>7. KeyColumns(k) = [i \in DOMAIN key |-> KT!Stored(KeyTypes[t][i], key[i])]
    BY <1>1, <2>5, <2>6
  <2> QED  BY <1>3, <1>5, <2>2, <2>3, <2>7
<1> QED  BY <1>4, <1>5

\* bupdatekey assigns to columns of a key, or fails when a value does not fit.
LEMMA KeyChanged ==
  ASSUME NEW t \in Tables, NEW k, IsKey(t, k), NEW list, AreAssignments(list, DOMAIN KeyTypes[t])
  PROVE  LET made == NewKey(k, list) IN
         /\ made.ok \in BOOLEAN /\ (made.ok <=> KT!KeyListFits(KeyTypes[t], list))
         /\ made.ok => /\ IsKey(t, made.blob)
                       /\ KeyColumns(made.blob) = KT!Assign(KeyTypes[t], KeyColumns(k), list)
         /\ list = << >> => made = Result(k)
<1> DEFINE M == Len(list)
           types == KeyTypes[t]
           made == NewKey(k, list)
<1>1. /\ M \in Nat /\ DOMAIN list = 1..M
      /\ \A n \in 1..M : list[n].f \in DOMAIN types /\ list[n].v \in Values
      /\ \A n \in 1..M : (CHOOSE m \in DOMAIN list : list[m].f = list[n].f) = n
  BY AssignmentFacts
<1>2. /\ Len(types) \in Nat /\ DOMAIN types = 1..Len(types)
      /\ \A n \in 1..Len(types) : types[n] \in Types
  BY KeyTypesFacts
<1>3. PICK columns \in KeyLists(t) : k = KeyOf(t, columns)
  BY DEF IsKey
<1>4. KeyColumns(k) \in Seq(Values) /\ DOMAIN KeyColumns(k) = DOMAIN types
  BY KeyFacts
<1>5. CASE list = << >>
  <2>1. made = Result(k) /\ made.ok = TRUE /\ made.blob = k
    BY <1>5 DEF NewKey, Result
  <2>2. DOMAIN list = {}
    BY <1>5
  <2>3. KT!KeyListFits(types, list)
    BY <2>2 DEF KT!KeyListFits
  <2> DEFINE key == KeyColumns(k)
             V == Values
  <2> HIDE DEF key, V
  <2>4. key \in Seq(V)
    BY <1>4 DEF key, V
  <2>5. key = [i \in DOMAIN key |-> key[i]]
    BY <2>4
  <2>6. KT!Assign(types, key, list) = [i \in DOMAIN key |-> key[i]]
    BY <2>2 DEF KT!Assign
  <2> QED  BY <2>1, <2>3, <2>5, <2>6 DEF key
<1>6. CASE list # << >>
  <2> DEFINE new == UpdatedKeyColumns(k, list)
             k2 == KeyOf(t, new)
  <2>1. /\ ~FitsAll(list, types) => bupdatekey(k, list) = Error
        /\ FitsAll(list, types) =>
             /\ new \in KeyLists(t) /\ bupdatekey(k, list) = Result(k2)
             /\ \A n \in DOMAIN list : new[list[n].f].v = list[n].v
             /\ \A i \in 1..Len(columns) :
                  (\A n \in DOMAIN list : list[n].f # i) => new[i].v = KeyColumns(k)[i]
    BY <1>3, <1>6, KeyUpdate
  <2>2. made = bupdatekey(k, list)
    BY <1>6 DEF NewKey
  <2>3. FitsAll(list, types) <=> KT!KeyListFits(types, list)
    <3>1. \A n \in 1..M : Compat(list[n].v, types[list[n].f]) <=> KT!Fits(types[list[n].f], list[n].v)
      BY <1>1, <1>2, CompatFits
    <3> QED  BY <1>1, <3>1 DEF FitsAll, KT!KeyListFits
  <2>4. CASE ~FitsAll(list, types)
    <3>1. made.ok = FALSE
      BY <2>1, <2>2, <2>4 DEF Error
    <3> QED  BY <1>6, <2>3, <2>4, <3>1
  <2>5. CASE FitsAll(list, types)
    <3> HIDE DEF new
    <3>1. new \in KeyLists(t) /\ made.ok = TRUE /\ made.blob = k2
      BY <2>1, <2>2, <2>5 DEF Result
    <3>2. IsKey(t, k2)
      BY <3>1 DEF IsKey
    <3>3. Len(columns) = Len(types) /\ Len(new) = Len(types)
      BY <3>1, KeyListFacts
    <3>4. \A n \in 1..Len(types) : KeyColumns(k)[n] = Stored(columns[n]).v
      <4>1. \A n \in 1..Len(columns) : KeyColumns(k)[n] = Stored(columns[n]).v
        BY <1>3, KeyRead
      <4> QED  BY <3>3, <4>1
    <3>5. /\ DOMAIN k2.cols = 1..Len(types)
          /\ \A n \in 1..Len(types) : KeyColumns(k2)[n] = Stored(new[n]).v
      <4> DEFINE kk == k2
      <4>1. kk = KeyOf(t, new)
        OBVIOUS
      <4> HIDE DEF kk
      <4>2. DOMAIN kk.cols = 1..Len(new)
        BY <3>1, <4>1, KeyRead
      <4>3. \A n \in 1..Len(new) : KeyColumns(kk)[n] = Stored(new[n]).v
        BY <3>1, <4>1, KeyRead
      <4> QED  BY <3>3, <4>2, <4>3 DEF kk
    <3>11. \A i \in 1..Len(types) : columns[i] \in Column({0}) /\ columns[i].type = types[i]
      <4>1. \A i \in 1..Len(columns) : columns[i] \in Column({0}) /\ columns[i].type = types[i]
        BY KeyListFacts
      <4> QED  BY <3>3, <4>1
    <3>12. \A i \in 1..Len(types) : new[i] \in Column({0}) /\ new[i].type = types[i]
      <4>1. \A i \in 1..Len(new) : new[i] \in Column({0}) /\ new[i].type = types[i]
        BY <3>1, KeyListFacts
      <4> QED  BY <3>3, <4>1
    <3>6. \A i \in 1..Len(types) : Stored(new[i]).v = KT!Stored(types[i], new[i].v)
      <4> TAKE i \in 1..Len(types)
      <4> DEFINE c == new[i]
      <4>1. c \in Column({0}) /\ c.type = types[i]
        BY <3>12
      <4> HIDE DEF c
      <4>2. Stored(c).v = KT!Stored(c.type, c.v)
        BY <4>1, StoredFacts
      <4> QED  BY <4>1, <4>2 DEF c
    <3>7. \A i \in 1..Len(types) : KT!Stored(types[i], KeyColumns(k)[i]) = KeyColumns(k)[i]
      <4> TAKE i \in 1..Len(types)
      <4> DEFINE c == columns[i]
      <4>1. c \in Column({0}) /\ c.type = types[i]
        BY <3>11
      <4>2. KeyColumns(k)[i] = Stored(c).v
        BY <3>4
      <4> HIDE DEF c
      <4>3. Stored(Stored(c)).v = Stored(c).v
        BY <4>1, StoredTwice
      <4> DEFINE s == Stored(c)
      <4>4. s \in Column({0}) /\ s.type = c.type
        BY <4>1, StoredFacts
      <4> HIDE DEF s
      <4>5. Stored(s).v = KT!Stored(s.type, s.v)
        BY <4>4, StoredFacts
      <4> QED  BY <4>1, <4>2, <4>3, <4>4, <4>5 DEF s
    <3>8. ASSUME NEW i \in 1..Len(types)
          PROVE  KeyColumns(k2)[i] = IF \E n \in DOMAIN list : list[n].f = i
                                     THEN KT!Stored(types[i], list[CHOOSE n \in DOMAIN list : list[n].f = i].v)
                                     ELSE KeyColumns(k)[i]
      <4>1. CASE \E n \in DOMAIN list : list[n].f = i
        <5>1. PICK n \in DOMAIN list : list[n].f = i
          BY <4>1
        <5>2. (CHOOSE m \in DOMAIN list : list[m].f = i) = n
          BY <1>1, <5>1
        <5>3. new[i].v = list[n].v
          BY <2>1, <2>5, <5>1
        <5> QED  BY <3>5, <3>6, <4>1, <5>2, <5>3
      <4>2. CASE ~\E n \in DOMAIN list : list[n].f = i
        <5>1. new[i].v = KeyColumns(k)[i]
          BY <2>1, <2>5, <3>3, <4>2
        <5> QED  BY <3>5, <3>6, <3>7, <4>2, <5>1
      <4> QED  BY <4>1, <4>2
    <3>9. KeyColumns(k2) = [i \in 1..Len(types) |-> KeyColumns(k2)[i]]
      BY <3>5 DEF KeyColumns
    <3> HIDE DEF k2
    <3>10. KeyColumns(k2) = KT!Assign(types, KeyColumns(k), list)
      BY <1>2, <1>4, <3>8, <3>9 DEF KT!Assign
    <3> QED  BY <1>6, <2>3, <2>5, <3>1, <3>2, <3>10
  <2> QED  BY <2>4, <2>5
<1> QED  BY <1>5, <1>6

LEMMA ValFacts ==
  ASSUME NEW t \in Tables, NEW b, IsVal(t, b)
  PROVE  b.rt = RecordType[t] /\ Sound(b, ValStart(Len(b.cols)))
<1>1. PICK columns \in ValLists(t), size \in Int : SizeOf(columns) <= size /\ b = ValOf(t, columns, size)
  BY DEF IsVal
<1> QED  BY <1>1, ValRead

\* What fits the columns of a table, as the code and as the promise have it
LEMMA FieldsFit ==
  ASSUME NEW t \in Tables, NEW list, AreAssignments(list, DOMAIN FieldTypes[t])
  PROVE  FitsFields(t, list) <=> KT!ListFits(FieldTypes[t], list)
<1>1. /\ DOMAIN list = 1..Len(list)
      /\ \A n \in 1..Len(list) : list[n].f \in DOMAIN FieldTypes[t]
  BY ArgsFacts
<1>2. \A f \in DOMAIN FieldTypes[t] : FieldTypes[t][f] \in Types
  BY BackedTableAssumption
<1>3. \A n \in 1..Len(list) : Compat(list[n].v, FieldTypes[t][list[n].f])
                              <=> KT!Fits(FieldTypes[t][list[n].f], list[n].v)
  BY <1>1, <1>2, CompatFits
<1> QED  BY <1>1, <1>3 DEF FitsFields, KT!ListFits

\* The record of a list of columns
LEMMA RecordOf ==
  ASSUME NEW t \in Tables, NEW columns \in ValLists(t), NEW size \in Int, SizeOf(columns) <= size
  PROVE  /\ IsVal(t, ValOf(t, columns, size))
         /\ Record(t, ValOf(t, columns, size)) = [f \in DOMAIN FieldTypes[t] |-> FieldOf(columns, f)]
<1> DEFINE b == ValOf(t, columns, size)
<1>1. \A f : bgetval(b, f) = FieldOf(columns, f)
  BY ValRead
<1>2. IsVal(t, b)
  BY DEF IsVal
<1> HIDE DEF b
<1>3. Record(t, b) = [f \in DOMAIN FieldTypes[t] |-> FieldOf(columns, f)]
  BY <1>1 DEF Record
<1> QED  BY <1>2, <1>3 DEF b

\* bcreateval makes a value whose columns are those assigned, and the rest NULL.
LEMMA ValCreated ==
  ASSUME NEW t \in Tables, NEW list, AreAssignments(list, DOMAIN FieldTypes[t])
  PROVE  LET made == ValBlob(t, list) IN
         /\ made.ok \in BOOLEAN /\ (made.ok <=> KT!ListFits(FieldTypes[t], list))
         /\ made.ok => /\ IsVal(t, made.blob)
                       /\ Record(t, made.blob)
                          = KT!Assign(FieldTypes[t], [f \in DOMAIN FieldTypes[t] |-> NULL], list)
<1> DEFINE columns == Present(Args(t, list))
           b == ValOf(t, columns, SizeOf(columns))
           made == ValBlob(t, list)
           I == DOMAIN FieldTypes[t]
           none == [f \in I |-> NULL]
<1>1. made = IF FitsFields(t, list) THEN Result(b) ELSE Error
  BY ValCreate
<1>2. FitsFields(t, list) <=> KT!ListFits(FieldTypes[t], list)
  BY FieldsFit
<1>3. CASE ~FitsFields(t, list)
  <2>1. made.ok = FALSE
    BY <1>1, <1>3 DEF Error
  <2> QED  BY <1>2, <1>3, <2>1
<1>4. CASE FitsFields(t, list)
  <2>1. columns \in ValLists(t) /\ \A f : FieldOf(columns, f) = Assigned(t, list, f, NULL)
    BY <1>4, PresentFacts
  <2> HIDE DEF columns
  <2>2. SizeOf(columns) \in Int /\ SizeOf(columns) <= SizeOf(columns)
    <3>1. columns \in Seq(Column(I))
      BY <2>1, ValListFacts
    <3> HIDE DEF I
    <3>2. SizeOf(columns) \in Nat
      BY <3>1, SizeOfFacts
    <3> QED  BY <3>2
  <2>3. made.ok = TRUE /\ made.blob = b
    BY <1>1, <1>4 DEF Result
  <2>4. IsVal(t, b) /\ Record(t, b) = [f \in I |-> FieldOf(columns, f)]
    BY <2>1, <2>2, RecordOf
  <2>5. KT!Assign(FieldTypes[t], none, list) = [f \in I |-> Assigned(t, list, f, NULL)]
    BY DEF KT!Assign, Assigned
  <2>6. [f \in I |-> FieldOf(columns, f)] = [f \in I |-> Assigned(t, list, f, NULL)]
    BY <2>1
  <2> HIDE DEF b, none
  <2> QED  BY <1>2, <1>4, <2>3, <2>4, <2>5, <2>6 DEF none
<1> QED  BY <1>3, <1>4

\* bupdateval assigns to columns of a value, or fails when a value does not fit.
LEMMA ValChanged ==
  ASSUME NEW t \in Tables, NEW b, IsVal(t, b), NEW list, AreAssignments(list, DOMAIN FieldTypes[t])
  PROVE  LET made == NewVal(t, b, list) IN
         /\ made.ok \in BOOLEAN /\ (made.ok <=> KT!ListFits(FieldTypes[t], list))
         /\ made.ok => /\ IsVal(t, made.blob)
                       /\ Record(t, made.blob) = KT!Assign(FieldTypes[t], Record(t, b), list)
<1> DEFINE made == NewVal(t, b, list)
           I == DOMAIN FieldTypes[t]
<1>1. PICK columns \in ValLists(t), size \in Int : SizeOf(columns) <= size /\ b = ValOf(t, columns, size)
  BY DEF IsVal
<1>2. FitsFields(t, list) <=> KT!ListFits(FieldTypes[t], list)
  BY FieldsFit
<1>3. Record(t, b) = [f \in I |-> FieldOf(columns, f)]
  BY <1>1, RecordOf
<1>4. KT!Assign(FieldTypes[t], Record(t, b), list)
      = [f \in I |-> Assigned(t, list, f, FieldOf(columns, f))]
  <2> DEFINE r == Record(t, b)
  <2>1. DOMAIN r = I /\ \A f \in I : r[f] = FieldOf(columns, f)
    BY <1>3
  <2> HIDE DEF r
  <2>2. KT!Assign(FieldTypes[t], r, list)
        = [f \in I |-> Assigned(t, list, f, FieldOf(columns, f))]
    BY <2>1 DEF KT!Assign, Assigned
  <2> QED  BY <2>2 DEF r
<1>5. CASE list = << >>
  <2>1. made.ok = TRUE /\ made.blob = b
    BY <1>5 DEF NewVal, Result
  <2>2. DOMAIN list = {}
    BY <1>5
  <2>3. KT!ListFits(FieldTypes[t], list)
    BY <2>2 DEF KT!ListFits
  <2>4. \A f : Assigned(t, list, f, FieldOf(columns, f)) = FieldOf(columns, f)
    BY <2>2 DEF Assigned
  <2>5. KT!Assign(FieldTypes[t], Record(t, b), list) = Record(t, b)
    BY <1>3, <1>4, <2>4
  <2> QED  BY <2>1, <2>3, <2>5
<1>6. CASE list # << >>
  <2> DEFINE ups == Args(t, list)
             new == Updated(b, columns, ups)
             total == Total([n \in DOMAIN ups |-> Adjustment(b, ups[n])])
             size2 == size + total
             b2 == ValOf(t, new, size2)
  <2>1. made = bupdateval(b, ups)
    BY <1>6 DEF NewVal
  <2>2. bupdateval(b, ups) = IF FitsFields(t, list) THEN Result(b2) ELSE Error
    BY <1>1, <1>6, ValUpdateShape
  <2>3. CASE ~FitsFields(t, list)
    <3>1. made.ok = FALSE
      BY <2>1, <2>2, <2>3 DEF Error
    <3> QED  BY <1>2, <2>3, <3>1
  <2>4. CASE FitsFields(t, list)
    <3>1. new \in ValLists(t) /\ \A f : FieldOf(new, f) = Assigned(t, list, f, FieldOf(columns, f))
      BY <1>1, <2>4, UpdatedFields
    <3>2. total \in Int /\ SizeOf(new) <= size2
      BY <1>1, <2>4, UpdatedSize
    <3>3. made.ok = TRUE /\ made.blob = b2
      BY <2>1, <2>2, <2>4 DEF Result
    <3> HIDE DEF new, total
    <3>4. size2 \in Int
      BY <1>1, <3>2
    <3> HIDE DEF size2
    <3>5. IsVal(t, b2) /\ Record(t, b2) = [f \in I |-> FieldOf(new, f)]
      BY <3>1, <3>2, <3>4, RecordOf
    <3>6. [f \in I |-> FieldOf(new, f)] = [f \in I |-> Assigned(t, list, f, FieldOf(columns, f))]
      BY <3>1
    <3> QED  BY <1>2, <1>4, <2>4, <3>3, <3>5, <3>6
  <2> QED  BY <2>3, <2>4
<1> QED  BY <1>5, <1>6

-----------------------------------------------------------------------------
(* The backing table, and the rows that it stands for *)

IsBacking(bk) ==
  /\ bk = [k \in DOMAIN bk |-> bk[k]]
  /\ \A k \in DOMAIN bk : \E t \in Tables : IsKey(t, k) /\ IsVal(t, bk[k])

Row(t, k, b) == [t |-> t, key |-> KeyColumns(k), rec |-> Record(t, b)]

RowsIn(bk) ==
  UNION {{Row(t, k, bk[k]) : k \in {l \in DOMAIN bk : l.rt = RecordType[t]}} : t \in Tables}

LEMMA RowsAre ==
  Rows = RowsIn(backing) /\ Rows' = RowsIn(backing')
<1>1. Rows = RowsIn(backing)
  BY DEF Rows, RowsIn, Row, RowsOf, Record
<1>2. Rows' = RowsIn(backing')
  BY DEF Rows, RowsIn, Row, RowsOf, Record
<1> QED  BY <1>1, <1>2

\* A key blob in the backing table belongs to the table of its record type.
LEMMA OwnKey ==
  ASSUME NEW bk, IsBacking(bk), NEW k \in DOMAIN bk, NEW t \in Tables
  PROVE  /\ k.rt = RecordType[t] <=> IsKey(t, k)
         /\ IsKey(t, k) => IsVal(t, bk[k])
<1>1. PICK u \in Tables : IsKey(u, k) /\ IsVal(u, bk[k])
  BY DEF IsBacking
<1>2. k.rt = RecordType[t] => t = u
  <2>1. k.rt = RecordType[u]
    BY <1>1, KeyFacts
  <2> QED  BY <2>1, BackedTableAssumption
<1>3. IsKey(t, k) => k.rt = RecordType[t]
  BY KeyFacts
<1> QED  BY <1>1, <1>2, <1>3

LEMMA RowsMember ==
  ASSUME NEW bk, IsBacking(bk)
  PROVE  /\ \A r \in RowsIn(bk) : \E t \in Tables, k \in DOMAIN bk :
              IsKey(t, k) /\ IsVal(t, bk[k]) /\ r = Row(t, k, bk[k])
         /\ \A t \in Tables, k \in DOMAIN bk : IsKey(t, k) => Row(t, k, bk[k]) \in RowsIn(bk)
<1>1. ASSUME NEW r \in RowsIn(bk)
      PROVE  \E t \in Tables, k \in DOMAIN bk : IsKey(t, k) /\ IsVal(t, bk[k]) /\ r = Row(t, k, bk[k])
  <2>1. PICK t \in Tables : r \in {Row(t, k, bk[k]) : k \in {l \in DOMAIN bk : l.rt = RecordType[t]}}
    BY DEF RowsIn
  <2>2. PICK k \in DOMAIN bk : k.rt = RecordType[t] /\ r = Row(t, k, bk[k])
    BY <2>1
  <2>3. IsKey(t, k) /\ IsVal(t, bk[k])
    BY <2>2, OwnKey
  <2> QED  BY <2>2, <2>3
<1>2. ASSUME NEW t \in Tables, NEW k \in DOMAIN bk, IsKey(t, k) PROVE Row(t, k, bk[k]) \in RowsIn(bk)
  <2>1. k.rt = RecordType[t]
    BY <1>2, OwnKey
  <2> QED  BY <2>1 DEF RowsIn
<1> QED  BY <1>1, <1>2

LEMMA RowFacts ==
  ASSUME NEW t, NEW k, NEW b
  PROVE  Row(t, k, b).t = t /\ Row(t, k, b).key = KeyColumns(k) /\ Row(t, k, b).rec = Record(t, b)
BY DEF Row

\* Rows have one key blob.
LEMMA SameRow ==
  ASSUME NEW t \in Tables, NEW u \in Tables, NEW k, IsKey(t, k), NEW l, IsKey(u, l), NEW b, NEW c,
         Row(t, k, b).t = Row(u, l, c).t, Row(t, k, b).key = Row(u, l, c).key
  PROVE  t = u /\ k = l
<1>1. t = u /\ KeyColumns(k) = KeyColumns(l)
  BY RowFacts
<1> QED  BY <1>1, KeyIsItsColumns

\* The row with a key is the one of its key blob.
LEMMA RowsWithKey ==
  ASSUME NEW bk, IsBacking(bk), NEW t \in Tables, NEW k, IsKey(t, k), NEW b
  PROVE  {r \in RowsIn(bk) : r.t = Row(t, k, b).t /\ r.key = Row(t, k, b).key}
         = IF k \in DOMAIN bk THEN {Row(t, k, bk[k])} ELSE {}
<1> DEFINE found == {r \in RowsIn(bk) : r.t = Row(t, k, b).t /\ r.key = Row(t, k, b).key}
<1>1. ASSUME NEW r \in found PROVE k \in DOMAIN bk /\ r = Row(t, k, bk[k])
  <2>1. PICK u \in Tables, l \in DOMAIN bk : IsKey(u, l) /\ r = Row(u, l, bk[l])
    BY RowsMember
  <2>2. Row(u, l, bk[l]).t = Row(t, k, b).t /\ Row(u, l, bk[l]).key = Row(t, k, b).key
    BY <1>1, <2>1
  <2>3. u = t /\ l = k
    BY <2>1, <2>2, SameRow
  <2> QED  BY <2>1, <2>3
<1>2. ASSUME k \in DOMAIN bk PROVE Row(t, k, bk[k]) \in found
  <2>1. Row(t, k, bk[k]) \in RowsIn(bk)
    BY <1>2, RowsMember
  <2>2. Row(t, k, bk[k]).t = Row(t, k, b).t /\ Row(t, k, bk[k]).key = Row(t, k, b).key
    BY RowFacts
  <2> QED  BY <2>1, <2>2
<1> HIDE DEF found
<1> QED  BY <1>1, <1>2 DEF found

\* The rows of a table whose keys are in a set
RowsAt(t, bk, S) == {Row(t, k, bk[k]) : k \in S}
KeysIn(bk, t, where) == {k \in {l \in DOMAIN bk : l.rt = RecordType[t]} : KeyColumns(k) \in where}
RowsWith(rows, t, where) == {r \in rows : r.t = t /\ r.key \in where}

LEMMA SelectedRows ==
  ASSUME NEW bk, IsBacking(bk), NEW t \in Tables, NEW where
  PROVE  /\ KeysIn(bk, t, where) \subseteq DOMAIN bk
         /\ \A k \in KeysIn(bk, t, where) : IsKey(t, k) /\ IsVal(t, bk[k])
         /\ RowsWith(RowsIn(bk), t, where) = RowsAt(t, bk, KeysIn(bk, t, where))
<1> DEFINE hit == KeysIn(bk, t, where)
<1>1. hit \subseteq DOMAIN bk /\ \A k \in hit : IsKey(t, k) /\ IsVal(t, bk[k]) /\ KeyColumns(k) \in where
  BY OwnKey DEF KeysIn
<1>2. ASSUME NEW r \in RowsIn(bk), r.t = t, r.key \in where PROVE \E k \in hit : r = Row(t, k, bk[k])
  <2>1. PICK u \in Tables, l \in DOMAIN bk : IsKey(u, l) /\ r = Row(u, l, bk[l])
    BY RowsMember
  <2>2. u = t /\ KeyColumns(l) \in where
    BY <1>2, <2>1, RowFacts
  <2>3. l \in hit
    BY <2>1, <2>2, OwnKey DEF KeysIn
  <2> QED  BY <2>1, <2>2, <2>3
<1>3. ASSUME NEW k \in hit
      PROVE  Row(t, k, bk[k]) \in RowsIn(bk) /\ Row(t, k, bk[k]).t = t /\ Row(t, k, bk[k]).key \in where
  <2>1. k \in DOMAIN bk /\ IsKey(t, k) /\ KeyColumns(k) \in where
    BY <1>1
  <2>2. Row(t, k, bk[k]) \in RowsIn(bk)
    BY <2>1, RowsMember
  <2> QED  BY <2>1, <2>2, RowFacts
<1> HIDE DEF hit
<1>4. RowsWith(RowsIn(bk), t, where) = RowsAt(t, bk, hit)
  BY <1>2, <1>3 DEF RowsWith, RowsAt
<1> QED  BY <1>1, <1>4 DEF hit

\* Rows of a table go and others come, whose keys are not those of rows that stay.
Replaceable(bk, t, hit, came, K, V) ==
  /\ IsBacking(bk) /\ hit \subseteq DOMAIN bk
  /\ \A k \in hit : IsKey(t, k)
  /\ \A k \in came : IsKey(t, K[k]) /\ IsVal(t, V[k]) /\ K[k] \notin DOMAIN bk \ hit
  /\ \A k, l \in came : K[k] = K[l] => k = l

Replace(bk, hit, came, K, V) ==
  [x \in (DOMAIN bk \ hit) \cup {K[k] : k \in came} |->
     IF x \in {K[k] : k \in came} THEN V[CHOOSE k \in came : K[k] = x] ELSE bk[x]]

\* The rows that come
RowsMade(t, K, V, S) == {Row(t, K[k], V[k]) : k \in S}

LEMMA RowsReplaced ==
  ASSUME NEW bk, NEW t \in Tables, NEW hit, NEW came, NEW K, NEW V,
         Replaceable(bk, t, hit, came, K, V), NEW new, new = Replace(bk, hit, came, K, V)
  PROVE  /\ IsBacking(new)
         /\ RowsIn(new) = (RowsIn(bk) \ RowsAt(t, bk, hit)) \cup RowsMade(t, K, V, came)
<1> DEFINE gone == {Row(t, k, bk[k]) : k \in hit}
           rows == {Row(t, K[k], V[k]) : k \in came}
<1>1. /\ IsBacking(bk) /\ hit \subseteq DOMAIN bk
      /\ \A k \in hit : IsKey(t, k)
      /\ \A k \in came : IsKey(t, K[k]) /\ IsVal(t, V[k]) /\ K[k] \notin DOMAIN bk \ hit
      /\ \A k, l \in came : K[k] = K[l] => k = l
  BY DEF Replaceable
<1>2. \A k \in came : (CHOOSE l \in came : K[l] = K[k]) = k
  BY <1>1
<1>3. \A k \in came : K[k] \in DOMAIN new /\ new[K[k]] = V[k]
  BY <1>2 DEF Replace
<1>4. \A x \in DOMAIN bk \ hit : x \in DOMAIN new /\ new[x] = bk[x]
  BY <1>1 DEF Replace
<1>5. \A x \in DOMAIN new : (x \in DOMAIN bk /\ x \notin hit) \/ \E k \in came : x = K[k]
  BY DEF Replace
<1>6. new = [x \in DOMAIN new |-> new[x]]
  BY DEF Replace
<1>7. IsBacking(new)
  <2> SUFFICES ASSUME NEW x \in DOMAIN new PROVE \E u \in Tables : IsKey(u, x) /\ IsVal(u, new[x])
    BY <1>6 DEF IsBacking
  <2>1. CASE x \in DOMAIN bk \ hit
    BY <1>1, <1>4, <2>1 DEF IsBacking
  <2>2. CASE \E k \in came : x = K[k]
    BY <1>1, <1>3, <2>2
  <2> QED  BY <1>5, <2>1, <2>2
<1>8. ASSUME NEW r \in RowsIn(new) PROVE (r \in RowsIn(bk) /\ r \notin gone) \/ r \in rows
  <2>1. PICK u \in Tables, x \in DOMAIN new : IsKey(u, x) /\ r = Row(u, x, new[x])
    BY <1>7, RowsMember
  <2>2. CASE x \in DOMAIN bk /\ x \notin hit
    <3>1. r = Row(u, x, bk[x])
      BY <1>4, <2>1, <2>2
    <3>2. r \in RowsIn(bk)
      BY <1>1, <2>1, <2>2, <3>1, RowsMember
    <3>3. r \notin gone
      <4> SUFFICES ASSUME NEW k \in hit, r = Row(t, k, bk[k]) PROVE FALSE
        OBVIOUS
      <4>1. t = u /\ KeyColumns(k) = KeyColumns(x)
        <5>1. r.t = t /\ r.key = KeyColumns(k)
          BY RowFacts
        <5>2. r.t = u /\ r.key = KeyColumns(x)
          BY <3>1, RowFacts
        <5> QED  BY <5>1, <5>2
      <4>2. IsKey(t, k) /\ IsKey(t, x)
        BY <1>1, <2>1, <4>1
      <4>3. k = x
        BY <4>1, <4>2, KeyIsItsColumns
      <4> QED  BY <2>2, <4>3
    <3> QED  BY <3>2, <3>3
  <2>3. CASE \E k \in came : x = K[k]
    <3>1. PICK k \in came : x = K[k]
      BY <2>3
    <3>2. IsKey(t, x) /\ new[x] = V[k]
      BY <1>1, <1>3, <3>1
    <3>3. u = t
      BY <2>1, <3>2, KeyFacts, KeyIsItsColumns
    <3> QED  BY <2>1, <3>1, <3>2, <3>3
  <2> QED  BY <1>5, <2>2, <2>3
<1>9. ASSUME NEW r \in RowsIn(bk), r \notin gone PROVE r \in RowsIn(new)
  <2>1. PICK u \in Tables, x \in DOMAIN bk : IsKey(u, x) /\ r = Row(u, x, bk[x])
    BY <1>1, RowsMember
  <2>2. x \notin hit
    <3> SUFFICES ASSUME x \in hit PROVE FALSE
      OBVIOUS
    <3>1. IsKey(t, x)
      BY <1>1
    <3>2. u = t
      BY <2>1, <3>1, KeyFacts, KeyIsItsColumns
    <3> QED  BY <1>9, <2>1, <3>2
  <2>3. x \in DOMAIN new /\ r = Row(u, x, new[x])
    BY <1>4, <2>1, <2>2
  <2> QED  BY <1>7, <2>1, <2>3, RowsMember
<1>10. ASSUME NEW k \in came PROVE Row(t, K[k], V[k]) \in RowsIn(new)
  <2>1. K[k] \in DOMAIN new /\ new[K[k]] = V[k] /\ IsKey(t, K[k])
    BY <1>1, <1>3
  <2>2. Row(t, K[k], new[K[k]]) \in RowsIn(new)
    BY <1>7, <2>1, RowsMember
  <2> QED  BY <2>1, <2>2
<1> HIDE DEF gone
<1>11. RowsIn(new) = (RowsIn(bk) \ gone) \cup rows
  <2>1. rows \subseteq RowsIn(new)
    BY <1>10
  <2> HIDE DEF rows
  <2> QED  BY <1>8, <1>9, <2>1
<1> QED  BY <1>7, <1>11 DEF gone, RowsAt, RowsMade

-----------------------------------------------------------------------------
(* The statements *)

LEMMA StatementFacts ==
  ASSUME NEW q \in Statements
  PROVE  /\ q.t \in Tables
         /\ AreAssignments(q.vals, DOMAIN FieldTypes[q.t])
         /\ AreAssignments(q.set, DOMAIN FieldTypes[q.t])
         /\ AreAssignments(q.setKey, DOMAIN KeyTypes[q.t])
         /\ q.op \in {"insert", "upsert"} =>
              q.key \in Seq(Values) /\ Len(q.key) = Len(KeyTypes[q.t]) /\ q.setKey = << >>
         /\ q.setKey # << >> => \E key \in q.where : q.where = {key}
<1>1. IsStatement(q)
  BY BackedTableAssumption
<1> QED  BY <1>1 DEF IsStatement

LEMMA DeleteStep ==
  ASSUME IsBacking(backing), NEW q \in Statements, ExecDelete(q)
  PROVE  IsBacking(backing') /\ KT!Delete(q)
<1> DEFINE t == q.t
           where == q.where
           bk == backing
           new == backing'
           hit == KeysIn(bk, t, where)
<1>1. t \in Tables
  BY StatementFacts
<1>2. hit = Selected(q.t, q.where)
  BY DEF Selected, RowsOf, KeysIn
<1>3. outcome' = "ok" /\ new = [k \in DOMAIN bk \ hit |-> bk[k]]
  BY <1>2 DEF ExecDelete, Succeed
<1>4. Rows = RowsIn(bk) /\ Rows' = RowsIn(new)
  BY RowsAre
<1> DEFINE none == {}
           K == {}
           V == {}
<1>5. new = Replace(bk, hit, none, K, V)
  <2>1. Replace(bk, hit, none, K, V) = [k \in DOMAIN bk \ hit |-> bk[k]]
    BY DEF Replace
  <2> QED  BY <1>3, <2>1
<1>6. /\ hit \subseteq DOMAIN bk /\ \A k \in hit : IsKey(t, k)
      /\ RowsWith(RowsIn(bk), t, where) = RowsAt(t, bk, hit)
  BY <1>1, SelectedRows
<1>7. Replaceable(bk, t, hit, none, K, V)
  BY <1>6 DEF Replaceable
<1>8. RowsMade(t, K, V, none) = {}
  BY DEF RowsMade
<1> HIDE DEF K, V, none, hit, new, t, where, bk
<1>9. IsBacking(new) /\ RowsIn(new) = (RowsIn(bk) \ RowsAt(t, bk, hit)) \cup RowsMade(t, K, V, none)
  BY <1>1, <1>5, <1>7, RowsReplaced
<1>10. Rows' = Rows \ RowsWith(Rows, t, where)
  BY <1>4, <1>6, <1>8, <1>9
<1>11. KT!Delete(q)
  BY <1>3, <1>10 DEF KT!Delete, KT!Become, KT!Selected, RowsWith, t, where
<1> QED  BY <1>9, <1>11 DEF new

\* An INSERT puts a row in the table, in the place of the one with its key.
LEMMA RowPut ==
  ASSUME NEW bk, IsBacking(bk), NEW t \in Tables, NEW k, IsKey(t, k), NEW v, IsVal(t, v),
         NEW new, new = Put(bk, k, v)
  PROVE  /\ IsBacking(new)
         /\ RowsIn(new) = (RowsIn(bk) \ (IF k \in DOMAIN bk THEN {Row(t, k, bk[k])} ELSE {}))
                          \cup {Row(t, k, v)}
<1> DEFINE hit == IF k \in DOMAIN bk THEN {k} ELSE {}
           came == {k}
           K == [x \in {k} |-> k]
           V == [x \in {k} |-> v]
<1>1. new = Replace(bk, hit, came, K, V)
  <2>1. {K[x] : x \in came} = {k} /\ (CHOOSE x \in came : K[x] = k) = k
    OBVIOUS
  <2>2. (DOMAIN bk \ hit) \cup {k} = DOMAIN bk \cup {k}
    OBVIOUS
  <2>3. Replace(bk, hit, came, K, V) = [x \in DOMAIN bk \cup {k} |-> IF x = k THEN v ELSE bk[x]]
    BY <2>1, <2>2 DEF Replace
  <2> QED  BY <2>3 DEF Put
<1>2. Replaceable(bk, t, hit, came, K, V)
  BY DEF Replaceable
<1>3. RowsMade(t, K, V, came) = {Row(t, k, v)}
  BY DEF RowsMade
<1>4. RowsAt(t, bk, hit) = IF k \in DOMAIN bk THEN {Row(t, k, bk[k])} ELSE {}
  BY DEF RowsAt
<1> HIDE DEF hit, came, K, V
<1>5. /\ IsBacking(new)
      /\ RowsIn(new) = (RowsIn(bk) \ RowsAt(t, bk, hit)) \cup RowsMade(t, K, V, came)
  BY <1>1, <1>2, RowsReplaced
<1> QED  BY <1>3, <1>4, <1>5

\* A changed row
LEMMA RowChanged ==
  ASSUME NEW q \in Statements, NEW k, NEW b, NEW k2, NEW b2,
         KeyColumns(k2) = KT!Assign(KeyTypes[q.t], KeyColumns(k), q.setKey),
         Record(q.t, b2) = KT!Assign(FieldTypes[q.t], Record(q.t, b), q.set)
  PROVE  KT!Changed(Row(q.t, k, b), q) = Row(q.t, k2, b2)
<1> DEFINE r == Row(q.t, k, b)
           x == KeyColumns(k)
           y == Record(q.t, b)
           x2 == KT!Assign(KeyTypes[q.t], x, q.setKey)
           y2 == KT!Assign(FieldTypes[q.t], y, q.set)
<1>1. r = [t |-> q.t, key |-> x, rec |-> y]
  BY DEF Row
<1>2. Row(q.t, k2, b2) = [t |-> q.t, key |-> x2, rec |-> y2]
  BY DEF Row
<1> HIDE DEF r, x, y
<1>3. r.t = q.t /\ r.key = x /\ r.rec = y
  BY <1>1
<1>4. KT!Changed(r, q) = [r EXCEPT !.key = KT!Assign(KeyTypes[r.t], r.key, q.setKey),
                                   !.rec = KT!Assign(FieldTypes[r.t], r.rec, q.set)]
  BY DEF KT!Changed
<1>5. KT!Changed(r, q) = [r EXCEPT !.key = x2, !.rec = y2]
  BY <1>3, <1>4
<1> HIDE DEF x2, y2
<1>6. [r EXCEPT !.key = x2, !.rec = y2] = [t |-> q.t, key |-> x2, rec |-> y2]
  <2> DEFINE t == q.t
  <2>1. r = [t |-> t, key |-> x, rec |-> y]
    BY <1>1
  <2> HIDE DEF t
  <2> DEFINE s == [r EXCEPT !.key = x2]
  <2>2. [r EXCEPT !.key = x2, !.rec = y2] = [s EXCEPT !.rec = y2]
    OBVIOUS
  <2>3. s = [t |-> t, key |-> x2, rec |-> y]
    BY <2>1
  <2> HIDE DEF s
  <2>4. [s EXCEPT !.rec = y2] = [t |-> t, key |-> x2, rec |-> y2]
    BY <2>3
  <2> QED  BY <2>2, <2>4 DEF t
<1> QED  BY <1>2, <1>5, <1>6 DEF r

\* The row that an INSERT makes
LEMMA RowInserted ==
  ASSUME NEW q \in Statements, q.op \in {"insert", "upsert"},
         KeyBlob(q.t, q.key).ok, ValBlob(q.t, q.vals).ok
  PROVE  /\ IsKey(q.t, KeyBlob(q.t, q.key).blob) /\ IsVal(q.t, ValBlob(q.t, q.vals).blob)
         /\ KT!NewRow(q) = Row(q.t, KeyBlob(q.t, q.key).blob, ValBlob(q.t, q.vals).blob)
<1> DEFINE t == q.t
           key == q.key
           vals == q.vals
           k == KeyBlob(t, key)
           v == ValBlob(t, vals)
<1>1. /\ t \in Tables /\ key \in Seq(Values) /\ Len(key) = Len(KeyTypes[t])
      /\ AreAssignments(vals, DOMAIN FieldTypes[t])
  BY StatementFacts
<1>2. IsKey(t, k.blob) /\ KeyColumns(k.blob) = [i \in DOMAIN key |-> KT!Stored(KeyTypes[t][i], key[i])]
  BY <1>1, KeyCreated
<1>3. /\ IsVal(t, v.blob)
      /\ Record(t, v.blob) = KT!Assign(FieldTypes[t], [f \in DOMAIN FieldTypes[t] |-> NULL], vals)
  BY <1>1, ValCreated
<1>4. KT!NewRow(q) = [t |-> t, key |-> [i \in DOMAIN key |-> KT!Stored(KeyTypes[t][i], key[i])],
                      rec |-> KT!Assign(FieldTypes[t], [f \in DOMAIN FieldTypes[t] |-> NULL], vals)]
  BY DEF KT!NewRow, KT!Fields
<1>5. Row(t, k.blob, v.blob) = [t |-> t, key |-> KeyColumns(k.blob), rec |-> Record(t, v.blob)]
  BY DEF Row
<1>6. KT!NewRow(q) = Row(t, k.blob, v.blob)
  BY <1>2, <1>3, <1>4, <1>5
<1> QED  BY <1>2, <1>3, <1>6

LEMMA InsertStep ==
  ASSUME IsBacking(backing), NEW q \in Statements, q.op \in {"insert", "upsert"}, ExecInsert(q)
  PROVE  IsBacking(backing') /\ KT!Insert(q)
<1> DEFINE t == q.t
           bk == backing
           new == backing'
           k == KeyBlob(t, q.key)
           v == ValBlob(t, q.vals)
           kb == k.blob
           vb == v.blob
           v2 == NewVal(t, bk[kb], q.set)
           made == k.ok /\ v.ok
           conflict == made /\ kb \in DOMAIN bk
           fits == KT!KeyFits(t, q.key) /\ KT!ListFits(FieldTypes[t], q.vals)
           changes == q.op = "upsert" /\ KT!ListFits(FieldTypes[t], q.set)
           conflicts == {r \in Rows : KT!SameKey(r, KT!NewRow(q))}
<1>1. /\ t \in Tables /\ q.key \in Seq(Values) /\ Len(q.key) = Len(KeyTypes[t]) /\ q.setKey = << >>
      /\ AreAssignments(q.vals, DOMAIN FieldTypes[t]) /\ AreAssignments(q.set, DOMAIN FieldTypes[t])
      /\ AreAssignments(q.setKey, DOMAIN KeyTypes[t])
  BY StatementFacts
<1>2. Rows = RowsIn(bk) /\ Rows' = RowsIn(new)
  BY RowsAre
<1>3. \/ made /\ ~conflict /\ Succeed(Put(bk, kb, vb))
      \/ conflict /\ q.op = "upsert" /\ v2.ok /\ Succeed(Put(bk, kb, v2.blob))
      \/ ~made /\ Fail
      \/ conflict /\ (q.op = "insert" \/ ~v2.ok) /\ Fail
  BY DEF ExecInsert
<1>4. KT!Insert(q) <=>
        \/ fits /\ conflicts = {} /\ KT!Become(Rows \cup {KT!NewRow(q)})
        \/ fits /\ conflicts # {} /\ changes
           /\ KT!Become((Rows \ conflicts) \cup {KT!Changed(r, q) : r \in conflicts})
        \/ (~fits \/ (conflicts # {} /\ ~changes)) /\ KT!Fail
  BY DEF KT!Insert
<1>5. k.ok <=> KT!KeyFits(t, q.key)
  BY <1>1, KeyCreated
<1>6. v.ok <=> KT!ListFits(FieldTypes[t], q.vals)
  BY <1>1, ValCreated
<1>7. made <=> fits
  BY <1>5, <1>6
<1>8. made => /\ IsKey(t, kb) /\ IsVal(t, vb) /\ KT!NewRow(q) = Row(t, kb, vb)
              /\ conflicts = IF kb \in DOMAIN bk THEN {Row(t, kb, bk[kb])} ELSE {}
  <2> SUFFICES ASSUME made
               PROVE  /\ IsKey(t, kb) /\ IsVal(t, vb) /\ KT!NewRow(q) = Row(t, kb, vb)
                      /\ conflicts = IF kb \in DOMAIN bk THEN {Row(t, kb, bk[kb])} ELSE {}
    OBVIOUS
  <2>1. IsKey(t, kb) /\ IsVal(t, vb) /\ KT!NewRow(q) = Row(t, kb, vb)
    BY RowInserted
  <2>2. conflicts = {r \in RowsIn(bk) : r.t = Row(t, kb, vb).t /\ r.key = Row(t, kb, vb).key}
    BY <1>2, <2>1 DEF KT!SameKey
  <2> HIDE DEF kb, vb, conflicts, t
  <2>3. {r \in RowsIn(bk) : r.t = Row(t, kb, vb).t /\ r.key = Row(t, kb, vb).key}
        = IF kb \in DOMAIN bk THEN {Row(t, kb, bk[kb])} ELSE {}
    BY <1>1, <2>1, RowsWithKey
  <2> QED  BY <2>1, <2>2, <2>3
<1>9. conflict => v2.ok <=> KT!ListFits(FieldTypes[t], q.set)
  <2> SUFFICES ASSUME conflict PROVE v2.ok <=> KT!ListFits(FieldTypes[t], q.set)
    OBVIOUS
  <2>1. IsVal(t, bk[kb])
    BY <1>1, <1>8, OwnKey
  <2> QED  BY <1>1, <2>1, ValChanged
<1>10. conflict /\ v2.ok => IsVal(t, v2.blob) /\ KT!Changed(Row(t, kb, bk[kb]), q) = Row(t, kb, v2.blob)
  <2> SUFFICES ASSUME conflict, v2.ok
               PROVE  IsVal(t, v2.blob) /\ KT!Changed(Row(t, kb, bk[kb]), q) = Row(t, kb, v2.blob)
    OBVIOUS
  <2>1. IsVal(t, bk[kb]) /\ IsKey(t, kb)
    BY <1>1, <1>8, OwnKey
  <2>2. IsVal(t, v2.blob) /\ Record(t, v2.blob) = KT!Assign(FieldTypes[t], Record(t, bk[kb]), q.set)
    BY <1>1, <2>1, ValChanged
  <2>3. KeyColumns(kb) = KT!Assign(KeyTypes[t], KeyColumns(kb), q.setKey)
    <3> DEFINE k2 == NewKey(kb, q.setKey)
    <3>1. k2.ok /\ k2.blob = kb
      BY <1>1 DEF NewKey, Result
    <3>2. k2.ok => KeyColumns(k2.blob) = KT!Assign(KeyTypes[t], KeyColumns(kb), q.setKey)
      BY <1>1, <2>1, KeyChanged
    <3> HIDE DEF k2
    <3> QED  BY <3>1, <3>2
  <2> QED  BY <2>2, <2>3, RowChanged
<1>11. CASE made /\ ~conflict /\ Succeed(Put(bk, kb, vb))
  <2>1. new = Put(bk, kb, vb) /\ outcome' = "ok"
    BY <1>11 DEF Succeed
  <2>2. IsKey(t, kb) /\ IsVal(t, vb) /\ kb \notin DOMAIN bk
    BY <1>8, <1>11
  <2> HIDE DEF kb, vb, t
  <2>3. /\ IsBacking(new)
        /\ RowsIn(new) = (RowsIn(bk) \ (IF kb \in DOMAIN bk THEN {Row(t, kb, bk[kb])} ELSE {}))
                         \cup {Row(t, kb, vb)}
    BY <1>1, <2>1, <2>2, RowPut
  <2>4. conflicts = {} /\ fits
    BY <1>7, <1>8, <1>11, <2>2
  <2>5. KT!Become(Rows \cup {KT!NewRow(q)})
    BY <1>2, <1>8, <1>11, <2>1, <2>2, <2>3 DEF KT!Become
  <2> HIDE DEF fits, conflicts, changes
  <2> QED  BY <1>4, <2>3, <2>4, <2>5
<1>12. CASE conflict /\ q.op = "upsert" /\ v2.ok /\ Succeed(Put(bk, kb, v2.blob))
  <2> DEFINE vb2 == v2.blob
  <2>1. new = Put(bk, kb, vb2) /\ outcome' = "ok"
    BY <1>12 DEF Succeed
  <2>2. IsKey(t, kb) /\ IsVal(t, vb2) /\ kb \in DOMAIN bk
    BY <1>8, <1>10, <1>12
  <2>3. conflicts = {Row(t, kb, bk[kb])} /\ fits
    BY <1>7, <1>8, <1>12, <2>2
  <2>4. KT!Changed(Row(t, kb, bk[kb]), q) = Row(t, kb, vb2)
    BY <1>10, <1>12
  <2>5. changes
    BY <1>9, <1>12
  <2> HIDE DEF kb, vb2, t
  <2>6. /\ IsBacking(new)
        /\ RowsIn(new) = (RowsIn(bk) \ (IF kb \in DOMAIN bk THEN {Row(t, kb, bk[kb])} ELSE {}))
                         \cup {Row(t, kb, vb2)}
    BY <1>1, <2>1, <2>2, RowPut
  <2> HIDE DEF fits, conflicts, changes
  <2>7. {KT!Changed(r, q) : r \in conflicts} = {Row(t, kb, vb2)}
    BY <2>3, <2>4
  <2>8. KT!Become((Rows \ conflicts) \cup {KT!Changed(r, q) : r \in conflicts})
    BY <1>2, <2>1, <2>2, <2>3, <2>6, <2>7 DEF KT!Become
  <2> QED  BY <1>4, <2>3, <2>5, <2>6, <2>8
<1>13. CASE ~made /\ Fail
  <2>1. ~fits /\ KT!Fail /\ IsBacking(new)
    BY <1>2, <1>7, <1>13 DEF Fail, KT!Fail
  <2> HIDE DEF fits, conflicts, changes
  <2> QED  BY <1>4, <2>1
<1>14. CASE conflict /\ (q.op = "insert" \/ ~v2.ok) /\ Fail
  <2>1. KT!Fail /\ IsBacking(new)
    BY <1>2, <1>14 DEF Fail, KT!Fail
  <2>2. conflicts # {} /\ ~changes
    BY <1>8, <1>9, <1>14
  <2> HIDE DEF fits, conflicts, changes
  <2> QED  BY <1>4, <2>1, <2>2
<1> QED  BY <1>3, <1>11, <1>12, <1>13, <1>14

\* What an UPDATE makes of the key and the value of a row
ChangedKey(q, k) == NewKey(k, q.setKey)
ChangedVal(q, bk, k) == NewVal(q.t, bk[k], q.set)

LEMMA RowUpdated ==
  ASSUME NEW q \in Statements, NEW bk, NEW k, IsKey(q.t, k), IsVal(q.t, bk[k])
  PROVE  /\ ChangedKey(q, k).ok <=> KT!KeyListFits(KeyTypes[q.t], q.setKey)
         /\ ChangedVal(q, bk, k).ok <=> KT!ListFits(FieldTypes[q.t], q.set)
         /\ ChangedKey(q, k).ok /\ ChangedVal(q, bk, k).ok =>
              /\ IsKey(q.t, ChangedKey(q, k).blob) /\ IsVal(q.t, ChangedVal(q, bk, k).blob)
              /\ KT!Changed(Row(q.t, k, bk[k]), q)
                 = Row(q.t, ChangedKey(q, k).blob, ChangedVal(q, bk, k).blob)
         /\ q.setKey = << >> => ChangedKey(q, k).blob = k
<1> DEFINE t == q.t
           b == bk[k]
           k2 == NewKey(k, q.setKey)
           v2 == NewVal(t, b, q.set)
<1>1. /\ t \in Tables
      /\ AreAssignments(q.set, DOMAIN FieldTypes[t]) /\ AreAssignments(q.setKey, DOMAIN KeyTypes[t])
  BY StatementFacts
<1>2. /\ k2.ok <=> KT!KeyListFits(KeyTypes[t], q.setKey)
      /\ k2.ok => IsKey(t, k2.blob)
                  /\ KeyColumns(k2.blob) = KT!Assign(KeyTypes[t], KeyColumns(k), q.setKey)
  BY <1>1, KeyChanged
<1>3. /\ v2.ok <=> KT!ListFits(FieldTypes[t], q.set)
      /\ v2.ok => IsVal(t, v2.blob)
                  /\ Record(t, v2.blob) = KT!Assign(FieldTypes[t], Record(t, b), q.set)
  BY <1>1, ValChanged
<1>4. q.setKey = << >> => k2.blob = k
  BY DEF NewKey, Result
<1>5. k2.ok /\ v2.ok => KT!Changed(Row(t, k, b), q) = Row(t, k2.blob, v2.blob)
  BY <1>2, <1>3, RowChanged
<1> QED  BY <1>2, <1>3, <1>4, <1>5 DEF ChangedKey, ChangedVal

\* A statement does not give the same key to two rows.
LEMMA KeysStayApart ==
  ASSUME NEW q \in Statements, NEW k, IsKey(q.t, k), NEW l, IsKey(q.t, l),
         KeyColumns(k) \in q.where, KeyColumns(l) \in q.where,
         ChangedKey(q, k).blob = ChangedKey(q, l).blob
  PROVE  k = l
<1>1. q.t \in Tables
  BY StatementFacts
<1>2. CASE q.setKey = << >>
  BY <1>2 DEF ChangedKey, NewKey, Result
<1>3. CASE q.setKey # << >>
  <2>1. \E key \in q.where : q.where = {key}
    BY <1>3, StatementFacts
  <2>2. KeyColumns(k) = KeyColumns(l)
    BY <2>1
  <2> QED  BY <1>1, <2>2, KeyIsItsColumns
<1> QED  BY <1>2, <1>3

LEMMA UpdateStep ==
  ASSUME IsBacking(backing), NEW q \in Statements, ExecUpdate(q)
  PROVE  IsBacking(backing') /\ KT!Update(q)
<1> DEFINE t == q.t
           bk == backing
           new == backing'
           hit == KeysIn(bk, t, q.where)
           K == [k \in hit |-> ChangedKey(q, k).blob]
           V == [k \in hit |-> ChangedVal(q, bk, k).blob]
           moved == {ChangedKey(q, k).blob : k \in hit}
           allOk == \A k \in hit : ChangedKey(q, k).ok /\ ChangedVal(q, bk, k).ok
           free == \A k \in hit : ChangedKey(q, k).blob \notin DOMAIN bk \ hit
           found == RowsWith(Rows, t, q.where)
           fits == KT!KeyListFits(KeyTypes[t], q.setKey) /\ KT!ListFits(FieldTypes[t], q.set)
           clash == \E r \in found, s \in Rows \ found : KT!SameKey(KT!Changed(r, q), s)
           after == [x \in (DOMAIN bk \ hit) \cup moved |->
                       IF x \in moved
                       THEN ChangedVal(q, bk, CHOOSE k \in hit : ChangedKey(q, k).blob = x).blob
                       ELSE bk[x]]
<1>1. t \in Tables
  BY StatementFacts
<1>2. Rows = RowsIn(bk) /\ Rows' = RowsIn(new)
  BY RowsAre
<1>3. hit = Selected(q.t, q.where)
  BY DEF Selected, RowsOf, KeysIn
<1>4. IF allOk /\ free THEN Succeed(after) ELSE Fail
  <2> HIDE DEF hit
  <2>1. IF allOk /\ free THEN Succeed(after) ELSE Fail
    BY <1>3 DEF ExecUpdate, ChangedKey, ChangedVal
  <2> QED  BY <2>1
<1>5. KT!Update(q) <=>
        IF found = {} \/ (fits /\ ~clash)
        THEN KT!Become((Rows \ found) \cup {KT!Changed(r, q) : r \in found})
        ELSE KT!Fail
  <2>1. KT!Selected(q) = found
    BY DEF KT!Selected, RowsWith
  <2> HIDE DEF found
  <2> QED  BY <2>1 DEF KT!Update
<1>6. /\ hit \subseteq DOMAIN bk /\ \A k \in hit : IsKey(t, k) /\ IsVal(t, bk[k])
      /\ found = RowsAt(t, bk, hit)
  BY <1>1, <1>2, SelectedRows
<1>7. \A k \in hit : KeyColumns(k) \in q.where
  BY DEF KeysIn
<1> HIDE DEF hit
<1>8. \A k \in hit :
        /\ ChangedKey(q, k).ok <=> KT!KeyListFits(KeyTypes[t], q.setKey)
        /\ ChangedVal(q, bk, k).ok <=> KT!ListFits(FieldTypes[t], q.set)
  BY <1>6, RowUpdated
<1>9. found = {} <=> hit = {}
  BY <1>6 DEF RowsAt
<1>10. allOk <=> found = {} \/ fits
  BY <1>8, <1>9
<1>11. allOk => \A k \in hit :
         /\ IsKey(t, K[k]) /\ IsVal(t, V[k])
         /\ KT!Changed(Row(t, k, bk[k]), q) = Row(t, K[k], V[k])
  <2> SUFFICES ASSUME allOk, NEW k \in hit
               PROVE  /\ IsKey(t, K[k]) /\ IsVal(t, V[k])
                      /\ KT!Changed(Row(t, k, bk[k]), q) = Row(t, K[k], V[k])
    OBVIOUS
  <2>1. K[k] = ChangedKey(q, k).blob /\ V[k] = ChangedVal(q, bk, k).blob
    OBVIOUS
  <2>2. ChangedKey(q, k).ok /\ ChangedVal(q, bk, k).ok
    OBVIOUS
  <2>3. IsKey(t, k) /\ IsVal(t, bk[k])
    BY <1>6
  <2> HIDE DEF K, V, allOk
  <2>4. /\ IsKey(t, ChangedKey(q, k).blob) /\ IsVal(t, ChangedVal(q, bk, k).blob)
        /\ KT!Changed(Row(t, k, bk[k]), q) = Row(t, ChangedKey(q, k).blob, ChangedVal(q, bk, k).blob)
    BY <2>2, <2>3, RowUpdated
  <2> QED  BY <2>1, <2>4
<1>12. \A k, l \in hit : K[k] = K[l] => k = l
  <2> TAKE k, l \in hit
  <2>1. IsKey(t, k) /\ IsKey(t, l) /\ KeyColumns(k) \in q.where /\ KeyColumns(l) \in q.where
    BY <1>6, <1>7
  <2>2. K[k] = ChangedKey(q, k).blob /\ K[l] = ChangedKey(q, l).blob
    OBVIOUS
  <2> HIDE DEF K
  <2> QED  BY <2>1, <2>2, KeysStayApart
<1>13. after = Replace(bk, hit, hit, K, V)
  <2>1. moved = {K[k] : k \in hit}
    OBVIOUS
  <2>6. \A k \in hit : K[k] = ChangedKey(q, k).blob /\ V[k] = ChangedVal(q, bk, k).blob
    OBVIOUS
  <2>7. \A x \in moved : \E k \in hit : K[k] = x
    BY <2>1
  <2> HIDE DEF K, V, moved
  <2>2. ASSUME NEW x \in moved
        PROVE  ChangedVal(q, bk, CHOOSE k \in hit : ChangedKey(q, k).blob = x).blob
               = V[CHOOSE k \in hit : K[k] = x]
    <3>1. PICK k \in hit : K[k] = x
      BY <2>7
    <3>2. (CHOOSE l \in hit : K[l] = x) = k
      BY <1>12, <3>1
    <3>3. (CHOOSE l \in hit : ChangedKey(q, l).blob = x) = k
      BY <1>12, <2>6, <3>1
    <3> QED  BY <2>6, <3>2, <3>3
  <2> DEFINE R == {K[k] : k \in hit}
  <2> DEFINE changed(x) == ChangedVal(q, bk, CHOOSE k \in hit : ChangedKey(q, k).blob = x).blob
             given(x) == V[CHOOSE k \in hit : K[k] = x]
  <2>3. \A x \in moved : changed(x) = given(x)
    BY <2>2
  <2>4. Replace(bk, hit, hit, K, V)
        = [x \in (DOMAIN bk \ hit) \cup R |-> IF x \in R THEN V[CHOOSE k \in hit : K[k] = x] ELSE bk[x]]
    BY DEF Replace
  <2>5. R = moved
    BY <2>1
  <2> HIDE DEF R
  <2>8. Replace(bk, hit, hit, K, V)
        = [x \in (DOMAIN bk \ hit) \cup moved |->
             IF x \in moved THEN given(x) ELSE bk[x]]
    BY <2>4, <2>5
  <2>9. after = [x \in (DOMAIN bk \ hit) \cup moved |-> IF x \in moved THEN changed(x) ELSE bk[x]]
    OBVIOUS
  <2> HIDE DEF changed, given, after
  <2> QED  BY <2>3, <2>8, <2>9
<1>14. \A k \in hit : K[k] = ChangedKey(q, k).blob
  OBVIOUS
<1> HIDE DEF K, V, after
<1>15. allOk => free <=> ~clash
  <2> SUFFICES ASSUME allOk PROVE free <=> ~clash
    OBVIOUS
  <2>1. ASSUME clash PROVE ~free
    <3>1. PICK r \in found, s \in Rows \ found : KT!SameKey(KT!Changed(r, q), s)
      BY <2>1
    <3>2. PICK k \in hit : r = Row(t, k, bk[k])
      BY <1>6, <3>1 DEF RowsAt
    <3>3. PICK u \in Tables, x \in DOMAIN bk : IsKey(u, x) /\ s = Row(u, x, bk[x])
      BY <1>2, RowsMember
    <3>4. KT!Changed(r, q) = Row(t, K[k], V[k]) /\ IsKey(t, K[k])
      BY <1>11, <3>2
    <3>5. t = u /\ KeyColumns(K[k]) = KeyColumns(x)
      <4>1. KT!Changed(r, q).t = t /\ KT!Changed(r, q).key = KeyColumns(K[k])
        BY <3>4, RowFacts
      <4>2. s.t = u /\ s.key = KeyColumns(x)
        BY <3>3, RowFacts
      <4> QED  BY <3>1, <4>1, <4>2 DEF KT!SameKey
    <3>6. K[k] = x
      BY <1>1, <3>3, <3>4, <3>5, KeyIsItsColumns
    <3>7. x \notin hit
      <4> SUFFICES ASSUME x \in hit PROVE FALSE
        OBVIOUS
      <4>1. s \in found
        BY <1>6, <3>3, <3>5 DEF RowsAt
      <4> QED  BY <3>1, <4>1
    <3> QED  BY <1>14, <3>3, <3>6, <3>7
  <2>2. ASSUME ~free PROVE clash
    <3>1. PICK k \in hit : K[k] \in DOMAIN bk /\ K[k] \notin hit
      BY <1>14, <2>2
    <3> DEFINE x == K[k]
               r == Row(t, k, bk[k])
               s == Row(t, x, bk[x])
    <3>2. IsKey(t, x) /\ KT!Changed(r, q) = Row(t, x, V[k])
      BY <1>11
    <3>3. r \in found
      BY <1>6 DEF RowsAt
    <3> HIDE DEF x
    <3>4. x \in DOMAIN bk /\ x \notin hit
      BY <3>1 DEF x
    <3>5. s \in Rows
      BY <1>1, <1>2, <3>2, <3>4, RowsMember
    <3>6. s \notin found
      <4> SUFFICES ASSUME NEW l \in hit, s = Row(t, l, bk[l]) PROVE FALSE
        BY <1>6 DEF RowsAt
      <4>1. s.key = KeyColumns(x)
        BY RowFacts
      <4>2. s.key = KeyColumns(l)
        BY RowFacts
      <4>3. IsKey(t, l)
        BY <1>6
      <4>4. KeyColumns(l) = KeyColumns(x)
        BY <4>1, <4>2
      <4>5. l = x
        BY <1>1, <3>2, <4>3, <4>4, KeyIsItsColumns
      <4> QED  BY <3>4, <4>5
    <3>7. KT!SameKey(KT!Changed(r, q), s)
      <4>1. Row(t, x, V[k]).t = t /\ Row(t, x, V[k]).key = KeyColumns(x)
        BY RowFacts
      <4>2. s.t = t /\ s.key = KeyColumns(x)
        BY RowFacts
      <4> HIDE DEF r, s
      <4> QED  BY <3>2, <4>1, <4>2 DEF KT!SameKey
    <3> HIDE DEF r, s
    <3> QED  BY <3>3, <3>5, <3>6, <3>7
  <2> QED  BY <2>1, <2>2
<1>16. CASE allOk /\ free
  <2>1. new = after /\ outcome' = "ok"
    BY <1>4, <1>16 DEF Succeed
  <2>2. Replaceable(bk, t, hit, hit, K, V)
    BY <1>6, <1>11, <1>12, <1>14, <1>16 DEF Replaceable
  <2>3. new = Replace(bk, hit, hit, K, V)
    BY <1>13, <2>1
  <2> HIDE DEF new, t, bk
  <2>4. IsBacking(new) /\ RowsIn(new) = (RowsIn(bk) \ RowsAt(t, bk, hit)) \cup RowsMade(t, K, V, hit)
    BY <1>1, <2>2, <2>3, RowsReplaced
  <2>5. {KT!Changed(r, q) : r \in found} = RowsMade(t, K, V, hit)
    BY <1>6, <1>11, <1>16 DEF RowsAt, RowsMade
  <2>6. KT!Become((Rows \ found) \cup {KT!Changed(r, q) : r \in found})
    BY <1>2, <1>6, <2>1, <2>4, <2>5 DEF KT!Become
  <2>7. found = {} \/ (fits /\ ~clash)
    BY <1>10, <1>15, <1>16
  <2> HIDE DEF found, fits, clash
  <2> QED  BY <1>5, <2>4, <2>6, <2>7 DEF new, t
<1>17. CASE ~(allOk /\ free)
  <2>1. KT!Fail /\ IsBacking(new)
    BY <1>2, <1>4, <1>17 DEF Fail, KT!Fail
  <2>2. ~(found = {} \/ (fits /\ ~clash))
    <3>1. found = {} => free
      BY <1>9
    <3> HIDE DEF found, fits, clash, allOk, free
    <3> QED  BY <1>10, <1>15, <1>17, <3>1
  <2> HIDE DEF found, fits, clash
  <2> QED  BY <1>5, <2>1, <2>2
<1> QED  BY <1>16, <1>17

-----------------------------------------------------------------------------
(* The theorems *)

Inv == IsBacking(backing)

LEMMA InitHolds ==
  Init => Inv /\ KT!Init
<1> SUFFICES ASSUME Init PROVE Inv /\ KT!Init
  OBVIOUS
<1>1. backing = [k \in {} |-> NULL] /\ stmt = NULL /\ outcome = "none"
  BY DEF Init
<1> DEFINE none == [k \in {} |-> NULL]
<1>2. DOMAIN none = {} /\ none = [k \in DOMAIN none |-> none[k]]
  OBVIOUS
<1> HIDE DEF none
<1>3. IsBacking(none)
  BY <1>2 DEF IsBacking
<1>4. RowsIn(none) = {}
  BY <1>2 DEF RowsIn
<1>5. backing = none
  BY <1>1 DEF none
<1>6. Rows = {}
  BY <1>4, <1>5, RowsAre
<1> QED  BY <1>1, <1>3, <1>5, <1>6 DEF Inv, KT!Init

\* Every step of the code is one of the promise, or leaves its rows alone.
LEMMA StepHolds ==
  Inv /\ [Next]_vars => Inv' /\ [KT!Next]_<<Rows, stmt, outcome>>
<1> SUFFICES ASSUME Inv, [Next]_vars PROVE Inv' /\ [KT!Next]_<<Rows, stmt, outcome>>
  OBVIOUS
<1>1. IsBacking(backing)
  BY DEF Inv
<1>2. CASE Next
  <2>1. PICK q \in Statements : Exec(q)
    BY <1>2 DEF Next
  <2>2. stmt' = q
    BY <2>1 DEF Exec
  <2>3. \/ q.op \in {"insert", "upsert"} /\ ExecInsert(q)
        \/ q.op = "update" /\ ExecUpdate(q)
        \/ q.op = "delete" /\ ExecDelete(q)
    BY <2>1 DEF Exec
  <2>4. CASE q.op \in {"insert", "upsert"} /\ ExecInsert(q)
    <3>1. IsBacking(backing') /\ KT!Insert(q)
      BY <1>1, <2>4, InsertStep
    <3>2. KT!Next
      BY <2>2, <2>4, <3>1 DEF KT!Next
    <3> QED  BY <3>1, <3>2 DEF Inv
  <2>5. CASE q.op = "update" /\ ExecUpdate(q)
    <3>1. IsBacking(backing') /\ KT!Update(q)
      BY <1>1, <2>5, UpdateStep
    <3>2. KT!Next
      BY <2>2, <2>5, <3>1 DEF KT!Next
    <3> QED  BY <3>1, <3>2 DEF Inv
  <2>6. CASE q.op = "delete" /\ ExecDelete(q)
    <3>1. IsBacking(backing') /\ KT!Delete(q)
      BY <1>1, <2>6, DeleteStep
    <3>2. KT!Next
      BY <2>2, <2>6, <3>1 DEF KT!Next
    <3> QED  BY <3>1, <3>2 DEF Inv
  <2> QED  BY <2>3, <2>4, <2>5, <2>6
<1>3. CASE UNCHANGED vars
  <2>1. backing' = backing /\ stmt' = stmt /\ outcome' = outcome
    BY <1>3 DEF vars
  <2>2. Rows' = Rows
    BY <2>1, RowsAre
  <2> QED  BY <1>1, <2>1, <2>2 DEF Inv
<1> QED  BY <1>2, <1>3

THEOREM Invariance == Spec => []Inv
<1>1. Init => Inv
  BY InitHolds
<1>2. Inv /\ [Next]_vars => Inv'
  BY StepHolds
<1> QED  BY <1>1, <1>2, PTL DEF Spec

\* Whatever statements run, every blob in the backing table passes the checks that the
\* functions make of it, has the space for what was written to it, gives each of its
\* columns bytes of its own, and has the record type of its key.
THEOREM BlobsStayValid == Spec => []StoredBlobsAreValid
<1>1. Inv => StoredBlobsAreValid
  <2> SUFFICES ASSUME Inv, NEW k \in DOMAIN backing
               PROVE  /\ Sound(k, KeyStart(Len(k.cols)))
                      /\ Sound(backing[k], ValStart(Len(backing[k].cols)))
                      /\ backing[k].rt = k.rt
    BY DEF StoredBlobsAreValid, Sound
  <2>1. PICK t \in Tables : IsKey(t, k) /\ IsVal(t, backing[k])
    BY DEF Inv, IsBacking
  <2>2. Sound(k, KeyStart(Len(k.cols))) /\ k.rt = RecordType[t]
    BY <2>1, KeyFacts
  <2>3. Sound(backing[k], ValStart(Len(backing[k].cols))) /\ backing[k].rt = RecordType[t]
    BY <2>1, ValFacts
  <2> QED  BY <2>2, <2>3
<1> QED  BY <1>1, Invariance, PTL

\* However a key was reached, by bcreatekey or by updates in any order, its blob is the
\* one that bcreatekey makes of its columns.
THEOREM KeysStayCanonical == Spec => []KeyBlobsAreCanonical
<1>1. Inv => KeyBlobsAreCanonical
  <2> SUFFICES ASSUME Inv, NEW t \in Tables, NEW k \in RowsOf(t)
               PROVE  KeyBlob(t, KeyColumns(k)).ok /\ KeyBlob(t, KeyColumns(k)).blob = k
    BY DEF KeyBlobsAreCanonical
  <2>1. k \in DOMAIN backing /\ k.rt = RecordType[t] /\ IsBacking(backing)
    BY DEF RowsOf, Inv
  <2>2. IsKey(t, k)
    BY <2>1, OwnKey
  <2>3. KeyBlob(t, KeyColumns(k)) = Result(k)
    BY <2>2, KeyFacts
  <2> QED  BY <2>3 DEF Result
<1> QED  BY <1>1, Invariance, PTL

\* Backed tables implement keyed tables: the statements that rewrite.c makes of those on
\* a backed table, with the blobs that cqlrt_common.c makes, do what the statements on
\* an ordinary table do.
THEOREM BackedTablesAreTables == Spec => ImplementsTables
<1>1. Init => KT!Init
  BY InitHolds
<1>2. Inv /\ [Next]_vars => [KT!Next]_<<Rows, stmt, outcome>>
  BY StepHolds
<1>3. Spec => KT!Spec
  BY <1>1, <1>2, Invariance, PTL DEF Spec, KT!Spec
<1> QED  BY <1>3 DEF ImplementsTables
=============================================================================
