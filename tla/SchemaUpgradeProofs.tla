------------------------- MODULE SchemaUpgradeProofs ------------------------
(***************************************************************************)
(* Proofs about SchemaUpgrade, for every set of schemas, any number of     *)
(* releases, installs and interruptions.                                   *)
(*                                                                         *)
(* What a device may find in a script is a fact about the generator: the   *)
(* statements of Script(s, v) are permitted for s.  That is shown part by  *)
(* part, as the script is generated; the theorems then follow from what    *)
(* the permitted statements do to the database.  What a migration          *)
(* procedure may rely on is a fact about their order: a plan of what is    *)
(* known before each statement, derived the same way.                      *)
(***************************************************************************)
EXTENDS SchemaUpgrade, Recursion

IsSequence(q) == q \in Seq(ToSet(q))

\* Statements have the fields of Do.
IsStatement(x) ==
  /\ x = [op |-> x.op, name |-> x.name, value |-> x.value, when |-> x.when, at |-> x.at]
  /\ IsSequence(x.when)

\* Some table of s left @recreate: its script may drop tables that refer to it.
LeavesRecreate(s) == \E t \in Tables : s.tables[t].fromRecreate

Creates == {"create view", "create trigger", "create index", "create kept table",
            "create table if unknown", "create recreate table"}
OnTables == {"create kept table", "create table if unknown", "create recreate table",
             "add column if unknown", "drop table", "drop table and forget"}

\* What only the tables and columns of the versions need: the dictionaries, the
\* tables that keep their data, and the migration procedures named after them.
Restless == {"get table defs", "create table if unknown", "add column if unknown", "run"}

\* The statements that the generator may emit for s.  A table is dropped only
\* if it is deleted, recreated, or may refer to one that left @recreate; the
\* version on record is only ever set to that of s; and of the operations that
\* a part of the script does without, it only runs procedures that refill.
Permitted(s, without, op, name, value) ==
  /\ op \in {"drop view", "create view"} => name \in Views
  /\ op \in {"drop trigger", "create trigger"} => name \in Triggers
  /\ op \in {"drop index", "create index"} => name \in Indices
  /\ op \in OnTables => name \in Tables
  /\ op \in Creates => value \in Nat
  /\ op = "drop table" => ~Live(s, name) \/ Recreated(s, name)
  /\ op = "drop table and forget" => LeavesRecreate(s)
  /\ op = "set facet" /\ name = VersionFacet => value = Number(MaxVersion(s))
  /\ op = "set version crc" => name # VersionFacet
  /\ op \in without => op = "run" /\ name[1] = "refill"

Stmt(s, without, x) == IsStatement(x) /\ Permitted(s, without, x.op, x.name, x.value)

\* A sequence of such statements.
Lawful(s, without, q) == q \in Seq(ToSet(q)) /\ \A x \in ToSet(q) : Stmt(s, without, x)

-----------------------------------------------------------------------------
(* Sequences of permitted statements. *)

\* A record with the fields of Do, and its when or at replaced.
LEMMA Fields ==
  ASSUME NEW o, NEW n, NEW v, NEW w, NEW a, NEW w2, NEW a2
  PROVE  LET x == [op |-> o, name |-> n, value |-> v, when |-> w, at |-> a]
             y == [op |-> o, name |-> n, value |-> v, when |-> w2, at |-> a]
             z == [op |-> o, name |-> n, value |-> v, when |-> w, at |-> a2]
         IN /\ x.op = o /\ x.name = n /\ x.value = v /\ x.when = w /\ x.at = a
            /\ [x EXCEPT !.when = w2] = y /\ [x EXCEPT !.at = a2] = z
OBVIOUS

\* One more condition
LEMMA OneMore ==
  /\ IsSequence(<< >>)
  /\ \A c, q : IsSequence(q) =>
       /\ IsSequence(<<c>> \o q)
       /\ 1 \in DOMAIN (<<c>> \o q) /\ (<<c>> \o q)[1] = c
       /\ q = << >> => <<c>> \o q = <<c>>
<1>1. IsSequence(<< >>)
  BY DEF IsSequence, ToSet
<1>2. ASSUME NEW c, NEW q, IsSequence(q)
      PROVE  /\ IsSequence(<<c>> \o q)
             /\ 1 \in DOMAIN (<<c>> \o q) /\ (<<c>> \o q)[1] = c
             /\ q = << >> => <<c>> \o q = <<c>>
  <2> DEFINE S == ToSet(q) \cup {c}
             r == <<c>> \o q
  <2>1. q \in Seq(ToSet(q))
    BY <1>2 DEF IsSequence
  <2>2. q \in Seq(S) /\ <<c>> \in Seq(S)
    <3> DEFINE T == ToSet(q)
    <3>1. q \in Seq(T) /\ T \subseteq S /\ c \in S
      BY <2>1
    <3> HIDE DEF T, S
    <3> QED  BY <3>1
  <2> HIDE DEF S
  <2>3. r \in Seq(S) /\ Len(r) = 1 + Len(q) /\ r[1] = c /\ 1 \in DOMAIN r /\ Len(r) \in Nat
    BY <2>2
  <2>4. q = << >> => r = <<c>>
    OBVIOUS
  <2> HIDE DEF r
  <2>5. r = [k \in 1..Len(r) |-> r[k]] /\ \A k \in 1..Len(r) : r[k] \in ToSet(r)
    BY <2>3 DEF ToSet
  <2>6. IsSequence(r)
    BY <2>3, <2>5 DEF IsSequence
  <2> QED  BY <2>3, <2>4, <2>6 DEF r
<1> QED  BY <1>1, <1>2

\* Replacing when or at leaves a statement what it is.
LEMMA SameStatement ==
  ASSUME NEW s, NEW without, NEW x, Stmt(s, without, x), NEW w2, NEW a2
  PROVE  /\ IsSequence(w2) => Stmt(s, without, [x EXCEPT !.when = w2])
         /\ Stmt(s, without, [x EXCEPT !.at = a2])
         /\ [x EXCEPT !.at = a2].at = a2
<1> DEFINE o == x.op
           n == x.name
           v == x.value
           w == x.when
           a == x.at
           y == [op |-> o, name |-> n, value |-> v, when |-> w2, at |-> a]
           z == [op |-> o, name |-> n, value |-> v, when |-> w, at |-> a2]
<1>1. x = [op |-> o, name |-> n, value |-> v, when |-> w, at |-> a] /\ IsSequence(w)
  BY Zenon DEF Stmt, IsStatement
<1>2. Permitted(s, without, o, n, v)
  BY DEF Stmt
<1> HIDE DEF o, n, v, w, a
<1>3. [x EXCEPT !.when = w2] = y /\ [x EXCEPT !.at = a2] = z
  BY <1>1
<1>4. y.op = o /\ y.name = n /\ y.value = v /\ y.when = w2 /\ y.at = a
  BY Fields
<1>5. z.op = o /\ z.name = n /\ z.value = v /\ z.when = w /\ z.at = a2
  BY Fields
<1>6. (IsSequence(w2) => Stmt(s, without, y)) /\ Stmt(s, without, z)
  BY <1>1, <1>2, <1>4, <1>5, Zenon DEF Stmt, IsStatement
<1> HIDE DEF y, z
<1> QED  BY <1>3, <1>5, <1>6

\* A sequence over permitted statements is one of them.
LEMMA LawfulFrom ==
  ASSUME NEW s, NEW without, NEW S, \A x \in S : Stmt(s, without, x), NEW q \in Seq(S)
  PROVE  Lawful(s, without, q)
<1>1. \A k \in 1..Len(q) : q[k] \in S
  OBVIOUS
<1>2. ToSet(q) = {q[k] : k \in 1..Len(q)} /\ Len(q) \in Nat
  BY DEF ToSet
<1>3. q \in Seq(ToSet(q))
  <2>1. q = [k \in 1..Len(q) |-> q[k]]
    OBVIOUS
  <2>2. \A k \in 1..Len(q) : q[k] \in ToSet(q)
    BY <1>2
  <2> QED  BY <1>2, <2>1, <2>2
<1> QED  BY <1>1, <1>2, <1>3 DEF Lawful

\* The parts of a lawful script, for names in any order.
LEMMA LawfulForEach ==
  ASSUME NEW s, NEW without, NEW D, NEW order \in Seq(D), NEW part,
         \A d \in D : Lawful(s, without, part[d])
  PROVE  Lawful(s, without, ForEach(order, part))
<1> DEFINE S == UNION {ToSet(part[d]) : d \in D}
           seqs == [k \in DOMAIN order |-> part[order[k]]]
<1>1. \A x \in S : Stmt(s, without, x)
  BY DEF Lawful
<1>2. ASSUME NEW d \in D PROVE part[d] \in Seq(S)
  <2> DEFINE T == ToSet(part[d])
  <2>1. part[d] \in Seq(T) /\ T \subseteq S
    BY DEF Lawful
  <2> HIDE DEF T, S
  <2> QED  BY <2>1
<1> HIDE DEF S
<1>3. seqs \in Seq(Seq(S))
  <2>1. Len(order) \in Nat /\ DOMAIN order = 1..Len(order)
    OBVIOUS
  <2>2. \A k \in 1..Len(order) : part[order[k]] \in Seq(S)
    BY <1>2
  <2> QED  BY <2>1, <2>2
<1> HIDE DEF seqs
<1>4. FlattenSeq(seqs) \in Seq(S)
  BY <1>3, FlattenSeqType
<1>5. Lawful(s, without, FlattenSeq(seqs))
  BY <1>1, <1>4, LawfulFrom
<1> QED  BY <1>5 DEF ForEach, seqs

\* One part after another.
LEMMA LawfulConcat ==
  ASSUME NEW s, NEW without, NEW p, NEW q, Lawful(s, without, p), Lawful(s, without, q)
  PROVE  Lawful(s, without, p \o q)
<1> DEFINE P == ToSet(p)
           Q == ToSet(q)
           S == P \cup Q
<1>1. p \in Seq(P) /\ q \in Seq(Q) /\ \A x \in S : Stmt(s, without, x)
  BY DEF Lawful
<1> HIDE DEF P, Q
<1>2. p \in Seq(S) /\ q \in Seq(S)
  BY <1>1
<1>3. p \o q \in Seq(S)
  BY <1>2
<1> HIDE DEF S
<1> QED  BY <1>1, <1>3, LawfulFrom

\* A single statement and none.
LEMMA LawfulOne ==
  ASSUME NEW s, NEW without
  PROVE  /\ \A x : Stmt(s, without, x) => Lawful(s, without, <<x>>)
         /\ \A x, y : Stmt(s, without, x) /\ Stmt(s, without, y) => Lawful(s, without, <<x, y>>)
         /\ Lawful(s, without, << >>)
<1>1. ASSUME NEW x, NEW y, Stmt(s, without, x), Stmt(s, without, y)
      PROVE  Lawful(s, without, <<x, y>>) /\ Lawful(s, without, <<x>>)
  <2>1. <<x, y>> \in Seq({x, y}) /\ <<x>> \in Seq({x, y}) /\ \A z \in {x, y} : Stmt(s, without, z)
    BY <1>1
  <2> QED  BY <2>1, LawfulFrom
<1>2. Lawful(s, without, << >>)
  <2>1. << >> \in Seq({})
    OBVIOUS
  <2> QED  BY <2>1, LawfulFrom
<1> QED  BY <1>1, <1>2

\* Statements made conditional are the same statements.
LEMMA LawfulIf ==
  ASSUME NEW s, NEW without, NEW c, NEW q, Lawful(s, without, q)
  PROVE  Lawful(s, without, If(c, q))
<1> DEFINE S == {[x EXCEPT !.when = <<c>> \o @] : x \in ToSet(q)}
<1>1. \A x \in ToSet(q) : Stmt(s, without, [x EXCEPT !.when = <<c>> \o @])
  <2> TAKE x \in ToSet(q)
  <2>1. Stmt(s, without, x) /\ IsSequence(x.when)
    BY DEF Lawful, Stmt, IsStatement
  <2>2. IsSequence(<<c>> \o x.when)
    BY <2>1, OneMore
  <2> QED  BY <2>1, <2>2, SameStatement
<1>2. \A z \in S : Stmt(s, without, z)
  BY <1>1
<1>3. If(c, q) \in Seq(S)
  <2> DEFINE T == ToSet(q)
  <2>1. q \in Seq(T)
    BY DEF Lawful
  <2>2. Len(q) \in Nat /\ DOMAIN q = 1..Len(q) /\ \A k \in 1..Len(q) : q[k] \in T
    <3> HIDE DEF T
    <3> QED  BY <2>1
  <2>3. \A k \in 1..Len(q) : [q[k] EXCEPT !.when = <<c>> \o @] \in S
    BY <2>2
  <2> HIDE DEF S
  <2> QED  BY <2>2, <2>3 DEF If
<1> HIDE DEF S
<1> QED  BY <1>2, <1>3, LawfulFrom

\* The members of S among some names.
LEMMA AmongType ==
  ASSUME NEW D, NEW order \in Seq(D), NEW S
  PROVE  Among(order, S) \in Seq(D \cap S)
<1> DEFINE R == D \cap S
           part == [x \in ToSet(order) |-> IF x \in S THEN <<x>> ELSE << >>]
           seqs == [k \in DOMAIN order |-> part[order[k]]]
<1>1. Len(order) \in Nat /\ DOMAIN order = 1..Len(order)
      /\ \A k \in 1..Len(order) : order[k] \in D /\ order[k] \in ToSet(order)
  BY DEF ToSet
<1>2. \A x \in ToSet(order) \cap D : part[x] \in Seq(R)
  <2> TAKE x \in ToSet(order) \cap D
  <2>1. x \in S => <<x>> \in Seq(R)
    OBVIOUS
  <2>2. << >> \in Seq(R)
    OBVIOUS
  <2> HIDE DEF R
  <2> QED  BY <2>1, <2>2
<1> HIDE DEF R, part
<1>3. seqs \in Seq(Seq(R))
  <2>1. \A k \in 1..Len(order) : part[order[k]] \in Seq(R)
    BY <1>1, <1>2
  <2> QED  BY <1>1, <2>1
<1> HIDE DEF seqs
<1>4. FlattenSeq(seqs) \in Seq(R)
  BY <1>3, FlattenSeqType
<1> QED  BY <1>4 DEF Among, ForEach, seqs, part, R

\* Reversing an order keeps its names.
LEMMA ReverseType ==
  ASSUME NEW D, NEW order \in Seq(D)
  PROVE  Reverse(order) \in Seq(D)
<1>1. \A i \in 1..Len(order) : order[(Len(order) - i) + 1] \in D
  <2> TAKE i \in 1..Len(order)
  <2>1. Len(order) \in Nat /\ (Len(order) - i) + 1 \in 1..Len(order)
    OBVIOUS
  <2> QED  BY <2>1
<1> QED  BY <1>1 DEF Reverse

\* The names that s declares, and what it says of them.
LEMMA Declarations ==
  ASSUME NEW s, WellFormed(s)
  PROVE  /\ \A t \in Tables :
              /\ s.tables[t].def \in Nat /\ s.tables[t].version \in Nat
              /\ s.tables[t].column \in Nat /\ s.tables[t].delete \in Nat
              /\ s.tables[t].unsub \in BOOLEAN /\ s.tables[t].fromRecreate \in BOOLEAN
         /\ \A i \in Indices : s.indices[i] \in Int
         /\ \A v \in Views : s.views[v] \in Int
         /\ \A r \in Triggers : s.triggers[r] \in Int
         /\ s.adhoc \in Nat
<1>1. s \in SchemaDecls
  BY DEF WellFormed
<1>2. /\ s.tables \in [Tables -> TableDecls] /\ s.indices \in [Indices -> Int]
      /\ s.views \in [Views -> Int] /\ s.triggers \in [Triggers -> Int] /\ s.adhoc \in Nat
  BY <1>1 DEF SchemaDecls
<1>3. ASSUME NEW d \in TableDecls
      PROVE  /\ d.def \in Nat /\ d.version \in Nat /\ d.column \in Nat /\ d.delete \in Nat
             /\ d.unsub \in BOOLEAN /\ d.fromRecreate \in BOOLEAN
  BY DEF TableDecls
<1>4. \A t \in Tables : s.tables[t] \in TableDecls
  BY <1>2
<1> QED  BY <1>2, <1>3, <1>4

\* The statements that Do makes, and when they are permitted.
LEMMA DoStmt ==
  ASSUME NEW s, NEW without, NEW op, NEW name, NEW value, Permitted(s, without, op, name, value)
  PROVE  Stmt(s, without, Do(op, name, value))
<1> DEFINE x == Do(op, name, value)
<1>1. x = [op |-> op, name |-> name, value |-> value, when |-> << >>, at |-> 0]
  BY DEF Do
<1>2. x.op = op /\ x.name = name /\ x.value = value /\ x.when = << >> /\ x.at = 0
  BY <1>1
<1> HIDE DEF x
<1>3. IsStatement(x)
  BY <1>1, <1>2, OneMore, Zenon DEF IsStatement
<1>4. Stmt(s, without, x)
  BY <1>2, <1>3, Zenon DEF Stmt
<1> QED  BY <1>4 DEF x

\* Facets other than the version may be set to anything.
LEMMA SetFacetStmt ==
  ASSUME NEW s, NEW without \in SUBSET Restless, NEW f, NEW v, f # VersionFacet
  PROVE  Stmt(s, without, SetFacet(f, v))
<1>1. Permitted(s, without, "set facet", f, v)
  BY DEF Permitted, Creates, OnTables, Restless
<1> QED  BY <1>1, DoStmt DEF SetFacet

\* None of the other facets is the version.
LEMMA OtherFacets ==
  /\ \A x : IndexFacet(x) # VersionFacet /\ GroupFacet(x) # VersionFacet
            /\ OneTimeDropFacet(x) # VersionFacet /\ ProcFacet(x) # VersionFacet
  /\ BaselineFacet # VersionFacet /\ CrcFacet # VersionFacet
  /\ NoVirtualCrcFacet # VersionFacet /\ \A v : AllTablesFacet(v) # VersionFacet
<1>1. \A x : IndexFacet(x) # VersionFacet /\ GroupFacet(x) # VersionFacet
             /\ OneTimeDropFacet(x) # VersionFacet /\ ProcFacet(x) # VersionFacet
  BY DEF IndexFacet, GroupFacet, OneTimeDropFacet, ProcFacet, VersionFacet
<1>2. BaselineFacet # VersionFacet /\ CrcFacet # VersionFacet
      /\ NoVirtualCrcFacet # VersionFacet
  BY DEF BaselineFacet, CrcFacet, NoVirtualCrcFacet, VersionFacet
<1>3. \A v : AllTablesFacet(v) # VersionFacet
  BY DEF AllTablesFacet, VersionFacet
<1> QED  BY <1>1, <1>2, <1>3

\* The largest version is a number.
LEMMA MaxVersionType ==
  ASSUME NEW s, WellFormed(s)
  PROVE  MaxVersion(s) \in Nat /\ \A n \in Versions(s) : n <= MaxVersion(s)
<1> DEFINE V == Versions(s) \cup {0}
           all(t) == s.tables[t].version + s.tables[t].column + s.tables[t].delete
           f == [k \in 1..Len(TableOrder) |-> all(TableOrder[k])]
<1>1. TableOrder \in Seq(Tables) /\ Len(TableOrder) \in Nat
      /\ DOMAIN TableOrder = 1..Len(TableOrder)
  BY NamesAssumption
<1>2. \A t \in Tables : s.tables[t].version \in Nat /\ s.tables[t].column \in Nat
                        /\ s.tables[t].delete \in Nat
  BY Declarations
<1>3. f \in [1..Len(TableOrder) -> Nat]
  <2>1. \A t \in Tables : all(t) \in Nat
    BY <1>2
  <2>2. \A k \in 1..Len(TableOrder) : TableOrder[k] \in Tables
    BY <1>1
  <2> HIDE DEF all
  <2> QED  BY <2>1, <2>2
<1>4. \A k \in 1..Len(TableOrder) : f[k] = all(TableOrder[k])
  OBVIOUS
<1> HIDE DEF f
<1>5. PICK b \in Nat : \A k \in 1..Len(TableOrder) : f[k] <= b
  BY <1>1, <1>3, UpperBound
<1>6. ASSUME NEW t \in Tables
      PROVE  /\ s.tables[t].version <= b /\ s.tables[t].column <= b
             /\ s.tables[t].delete <= b
  <2>1. PICK k \in 1..Len(TableOrder) : t = TableOrder[k]
    BY <1>1 DEF Tables, ToSet
  <2>2. all(t) <= b
    BY <1>4, <1>5, <2>1
  <2> QED  BY <1>2, <2>2
<1>7. s.adhoc \in Nat
  BY Declarations
<1>8. V \subseteq Nat /\ V # {} /\ \A x \in V : x <= b + s.adhoc + 1
  BY <1>2, <1>6, <1>7 DEF Versions
<1>9. b + s.adhoc + 1 \in Nat
  BY <1>7
<1> HIDE DEF V
<1>10. Max(V) \in V /\ \A x \in V : x <= Max(V)
  BY <1>8, <1>9, MaxOfBounded
<1> QED  BY <1>8, <1>10 DEF MaxVersion, V

-----------------------------------------------------------------------------
(* The parts of a script, in the order of UpgradeScript. *)

\* cg_schema_manage_views
LEMMA ViewsLawful ==
  ASSUME NEW s, NEW without \in SUBSET Restless, WellFormed(s)
  PROVE  Lawful(s, without, DropViews(s)) /\ Lawful(s, without, CreateViews(s))
<1> DEFINE drop == [v \in Views |->
             IF s.views[v] = Undeclared THEN << >> ELSE <<Do("drop view", v, 0)>>]
           create == [v \in Views |->
             IF s.views[v] > 0 THEN <<Do("create view", v, s.views[v])>> ELSE << >>]
<1>1. ASSUME NEW v \in Views PROVE Lawful(s, without, drop[v]) /\ Lawful(s, without, create[v])
  <2>1. Permitted(s, without, "drop view", v, 0)
    BY DEF Permitted, Creates, OnTables, Restless
  <2>2. s.views[v] > 0 => Permitted(s, without, "create view", v, s.views[v])
    <3>1. s.views[v] > 0 => s.views[v] \in Nat
      BY Declarations
    <3> QED  BY <3>1 DEF Permitted, Creates, OnTables, Restless
  <2> QED  BY <2>1, <2>2, DoStmt, LawfulOne
<1>2. ViewOrder \in Seq(Views)
  BY NamesAssumption
<1> HIDE DEF drop, create
<1>3. Lawful(s, without, ForEach(ViewOrder, drop)) /\ Lawful(s, without, ForEach(ViewOrder, create))
  BY <1>1, <1>2, LawfulForEach
<1> QED  BY <1>3 DEF DropViews, CreateViews, drop, create

\* cg_schema_manage_triggers
LEMMA TriggersLawful ==
  ASSUME NEW s, NEW without \in SUBSET Restless, WellFormed(s)
  PROVE  Lawful(s, without, DropTriggers(s)) /\ Lawful(s, without, CreateTriggers(s))
<1> DEFINE drop == [r \in Triggers |->
             IF s.triggers[r] = Undeclared THEN << >> ELSE <<Do("drop trigger", r, 0)>>]
           create == [r \in Triggers |->
             IF s.triggers[r] > 0 /\ ~IsDeleted(s, TriggerTable[r])
             THEN <<Do("create trigger", r, s.triggers[r])>> ELSE << >>]
<1>1. ASSUME NEW r \in Triggers PROVE Lawful(s, without, drop[r]) /\ Lawful(s, without, create[r])
  <2>1. Permitted(s, without, "drop trigger", r, 0)
    BY DEF Permitted, Creates, OnTables, Restless
  <2>2. s.triggers[r] > 0 => Permitted(s, without, "create trigger", r, s.triggers[r])
    <3>1. s.triggers[r] > 0 => s.triggers[r] \in Nat
      BY Declarations
    <3> QED  BY <3>1 DEF Permitted, Creates, OnTables, Restless
  <2> QED  BY <2>1, <2>2, DoStmt, LawfulOne
<1>2. TriggerOrder \in Seq(Triggers)
  BY NamesAssumption
<1> HIDE DEF drop, create
<1>3. /\ Lawful(s, without, ForEach(TriggerOrder, drop))
      /\ Lawful(s, without, ForEach(TriggerOrder, create))
  BY <1>1, <1>2, LawfulForEach
<1> QED  BY <1>3 DEF DropTriggers, CreateTriggers, drop, create

\* cg_schema_manage_indices
LEMMA IndicesLawful ==
  ASSUME NEW s, NEW without \in SUBSET Restless, WellFormed(s)
  PROVE  Lawful(s, without, DropIndices(s)) /\ Lawful(s, without, CreateIndices(s))
<1> DEFINE drop == [i \in Indices |->
             IF s.indices[i] = Undeclared THEN << >>
             ELSE IF s.indices[i] = Deleted \/ IsDeleted(s, IndexTable[i])
             THEN CondemnIndex(i)
             ELSE IF Recreated(s, IndexTable[i]) THEN << >>
             ELSE IfFacetIsNot(IndexFacet(i), Crc(s.indices[i]), <<Do("drop index", i, 0)>>)]
           create == [i \in Indices |->
             IF s.indices[i] > 0 /\ ~IsDeleted(s, IndexTable[i]) /\ ~Recreated(s, IndexTable[i])
             THEN IfFacetIsNot(IndexFacet(i), Crc(s.indices[i]),
                    <<Do("create index", i, s.indices[i]),
                      SetFacet(IndexFacet(i), Crc(s.indices[i]))>>)
             ELSE << >>]
<1>1. ASSUME NEW i \in Indices PROVE Lawful(s, without, drop[i]) /\ Lawful(s, without, create[i])
  <2>1. Stmt(s, without, Do("drop index", i, 0))
    <3>1. Permitted(s, without, "drop index", i, 0)
      BY DEF Permitted, Creates, OnTables, Restless
    <3> QED  BY <3>1, DoStmt
  <2>2. s.indices[i] > 0 => Stmt(s, without, Do("create index", i, s.indices[i]))
    <3>1. s.indices[i] > 0 => Permitted(s, without, "create index", i, s.indices[i])
      <4>1. s.indices[i] > 0 => s.indices[i] \in Nat
        BY Declarations
      <4> QED  BY <4>1 DEF Permitted, Creates, OnTables, Restless
    <3> QED  BY <3>1, DoStmt
  <2>3. \A v : Stmt(s, without, SetFacet(IndexFacet(i), v))
    BY SetFacetStmt, OtherFacets
  <2>4. Lawful(s, without, CondemnIndex(i))
    BY <2>1, <2>3, LawfulOne DEF CondemnIndex
  <2>5. \A c : Lawful(s, without, If(c, <<Do("drop index", i, 0)>>))
    BY <2>1, LawfulOne, LawfulIf
  <2>6. s.indices[i] > 0 =>
          \A c : Lawful(s, without, If(c, <<Do("create index", i, s.indices[i]),
                                   SetFacet(IndexFacet(i), Crc(s.indices[i]))>>))
    BY <2>2, <2>3, LawfulOne, LawfulIf
  <2>7. Lawful(s, without, drop[i])
    BY <2>4, <2>5, LawfulOne DEF IfFacetIsNot
  <2>8. Lawful(s, without, create[i])
    BY <2>6, LawfulOne DEF IfFacetIsNot
  <2> QED  BY <2>7, <2>8
<1>2. IndexOrder \in Seq(Indices)
  BY NamesAssumption
<1> HIDE DEF drop, create
<1>3. /\ Lawful(s, without, ForEach(IndexOrder, drop))
      /\ Lawful(s, without, ForEach(IndexOrder, create))
  BY <1>1, <1>2, LawfulForEach
<1> QED  BY <1>3 DEF DropIndices, CreateIndices, drop, create

\* cg_generate_baseline_tables
LEMMA BaselineLawful ==
  ASSUME NEW s, NEW without \in SUBSET Restless, WellFormed(s)
  PROVE  Lawful(s, without, InstallBaseline(s))
<1> DEFINE part == [t \in Tables |->
             IF InBaseline(s, t) THEN <<Do("create kept table", t, s.tables[t].def)>> ELSE << >>]
           crc(v) == <<Do("set version crc", BaselineFacet, v)>>
<1>1. ASSUME NEW t \in Tables PROVE Lawful(s, without, part[t])
  <2>1. Permitted(s, without, "create kept table", t, s.tables[t].def)
    BY Declarations DEF Permitted, Creates, OnTables, Restless
  <2> QED  BY <2>1, DoStmt, LawfulOne
<1>2. TableOrder \in Seq(Tables)
  BY NamesAssumption
<1> HIDE DEF part
<1>3. Lawful(s, without, ForEach(TableOrder, part))
  BY <1>1, <1>2, LawfulForEach
<1>4. ASSUME NEW v PROVE Lawful(s, without, crc(v))
  <2>1. Permitted(s, without, "set version crc", BaselineFacet, v)
    BY OtherFacets DEF Permitted, Creates, OnTables, Restless
  <2> QED  BY <2>1, DoStmt, LawfulOne
<1> HIDE DEF crc
<1>5. Lawful(s, without, ForEach(TableOrder, part) \o crc(BaselineCrc(s)))
  BY <1>3, <1>4, LawfulConcat
<1>6. \A c : Lawful(s, without, If(c, ForEach(TableOrder, part) \o crc(BaselineCrc(s))))
  BY <1>5, LawfulIf
<1> QED  BY <1>4, <1>6 DEF InstallBaseline, IfFacetIsNot, part, crc

\* One level of the recursion of emit_full_drop, given the level below it.
FullDropStep(s, below) ==
  [u \in Tables |->
    ForEach(TableOrder, [v \in Tables |->
      IF v \in {w \in Tables \ {u} : Declared(s, w) /\ u \in s.tables[w].refs}
      THEN below[v] ELSE << >>])
    \o ForEach(IndexOrder, [i \in Indices |->
      IF IndexTable[i] = u /\ s.indices[i] # Undeclared
      THEN <<SetFacet(IndexFacet(i), NoFacet)>> ELSE << >>])
    \o <<Do("drop table and forget", u, 0)>>]

\* What it emits.
Drops ==
  {SetFacet(IndexFacet(i), NoFacet) : i \in Indices}
    \cup {Do("drop table and forget", u, 0) : u \in Tables}

\* ForEach over sequences of statements of one set.
LEMMA ForEachType ==
  ASSUME NEW S, NEW D, NEW order \in Seq(D), NEW part, \A d \in D : part[d] \in Seq(S)
  PROVE  ForEach(order, part) \in Seq(S)
<1> DEFINE seqs == [k \in DOMAIN order |-> part[order[k]]]
<1>1. seqs \in Seq(Seq(S))
  <2>1. Len(order) \in Nat /\ DOMAIN order = 1..Len(order)
    OBVIOUS
  <2>2. \A k \in 1..Len(order) : part[order[k]] \in Seq(S)
    OBVIOUS
  <2> QED  BY <2>1, <2>2
<1> HIDE DEF seqs
<1>2. FlattenSeq(seqs) \in Seq(S)
  BY <1>1, FlattenSeqType
<1> QED  BY <1>2 DEF ForEach, seqs

\* One table more, given what is emitted for the tables that refer to it.
LEMMA FullDropStepType ==
  ASSUME NEW s, NEW below \in [Tables -> Seq(Drops)]
  PROVE  FullDropStep(s, below) \in [Tables -> Seq(Drops)]
<1> SUFFICES ASSUME NEW u \in Tables PROVE FullDropStep(s, below)[u] \in Seq(Drops)
  BY DEF FullDropStep
<1> DEFINE refs == [v \in Tables |->
             IF v \in {w \in Tables \ {u} : Declared(s, w) /\ u \in s.tables[w].refs}
             THEN below[v] ELSE << >>]
           facets == [i \in Indices |->
             IF IndexTable[i] = u /\ s.indices[i] # Undeclared
             THEN <<SetFacet(IndexFacet(i), NoFacet)>> ELSE << >>]
           last == <<Do("drop table and forget", u, 0)>>
<1>1. \A v \in Tables : refs[v] \in Seq(Drops)
  OBVIOUS
<1>2. \A i \in Indices : facets[i] \in Seq(Drops)
  <2> TAKE i \in Indices
  <2>1. SetFacet(IndexFacet(i), NoFacet) \in Drops
    BY DEF Drops
  <2> QED  BY <2>1
<1>3. last \in Seq(Drops)
  <2> DEFINE d == Do("drop table and forget", u, 0)
  <2>1. d \in Drops
    BY DEF Drops
  <2> HIDE DEF d
  <2>2. <<d>> \in Seq(Drops)
    BY <2>1
  <2> QED  BY <2>2 DEF d
<1>4. FullDropStep(s, below)[u] = ForEach(TableOrder, refs) \o ForEach(IndexOrder, facets) \o last
  BY DEF FullDropStep
<1> HIDE DEF refs, facets, last
<1>5. ForEach(TableOrder, refs) \in Seq(Drops) /\ ForEach(IndexOrder, facets) \in Seq(Drops)
  BY <1>1, <1>2, ForEachType, NamesAssumption
<1> QED  BY <1>3, <1>4, <1>5

\* emit_full_drop: what is true of every level of the recursion is true of it.
LEMMA FullDropIn ==
  ASSUME NEW s, NEW t, NEW V, [u \in Tables |-> << >>] \in V,
         \A g \in V : FullDropStep(s, g) \in V
  PROVE  \E g \in V : FullDrop(s, t) = g[t]
<1> DEFINE N == Len(TableOrder)
           Sources(u) == {v \in Tables \ {u} : Declared(s, v) /\ u \in s.tables[v].refs}
           Eq(D) == [n \in 0..N |-> [u \in Tables |->
             IF n = 0 THEN << >>
             ELSE ForEach(TableOrder, [v \in Tables |->
                    IF v \in Sources(u) THEN D[n - 1][v] ELSE << >>])
                  \o ForEach(IndexOrder, [i \in Indices |->
                    IF IndexTable[i] = u /\ s.indices[i] # Undeclared
                    THEN <<SetFacet(IndexFacet(i), NoFacet)>> ELSE << >>])
                  \o <<Do("drop table and forget", u, 0)>>]]
           Drop == CHOOSE D : D = Eq(D)
           none == [u \in Tables |-> << >>]
           step == [n \in 1..N |-> [g \in V |-> FullDropStep(s, g)]]
<1>1. N \in Nat
  BY NamesAssumption
<1>2. FullDrop(s, t) = Drop[N][t]
  BY DEF FullDrop
<1>3. \A D : \A n \in 0..N : Eq(D)[n] = IF n = 0 THEN none ELSE FullDropStep(s, D[n - 1])
  BY DEF FullDropStep
<1>4. \A D : Eq(D) = [n \in 0..N |-> Eq(D)[n]]
  OBVIOUS
<1> HIDE DEF Eq
<1>5. none \in V /\ step \in [1..N -> [V -> V]]
  OBVIOUS
<1>6. \A n \in 1..N : \A g \in V : step[n][g] = FullDropStep(s, g)
  OBVIOUS
<1>7. \A g \in V : FullDropStep(s, g) \in V
  OBVIOUS
<1> HIDE DEF N, step, none
<1>8. PICK f : Recursive(f, V, none, N, step)
  BY <1>1, <1>5, RecursionExists
<1>9. f = Eq(f)
  <2>1. ASSUME NEW n \in 0..N PROVE f[n] = Eq(f)[n]
    <3>1. CASE n = 0
      BY <1>3, <1>8, <3>1 DEF Recursive
    <3>2. CASE n # 0
      <4>1. n \in 1..N /\ n - 1 \in 0..N
        BY <1>1, <3>2
      <4>2. f[n] = step[n][f[n - 1]] /\ f[n - 1] \in V
        BY <1>8, <4>1 DEF Recursive
      <4>3. f[n] = FullDropStep(s, f[n - 1])
        BY <1>6, <4>1, <4>2
      <4> QED  BY <1>3, <3>2, <4>3
    <3> QED  BY <3>1, <3>2
  <2>2. f = [n \in 0..N |-> f[n]]
    BY <1>8 DEF Recursive
  <2>3. Eq(f) = [n \in 0..N |-> Eq(f)[n]]
    BY <1>4
  <2> QED  BY <2>1, <2>2, <2>3
<1>10. Drop = Eq(Drop)
  BY <1>9
<1> HIDE DEF Drop
<1>11. \A n \in 0..N : Drop[n] = IF n = 0 THEN none ELSE FullDropStep(s, Drop[n - 1])
  BY <1>3, <1>10
<1> DEFINE T == {n \in Nat : n <= N => Drop[n] \in V}
<1>12. 0 \in T
  BY <1>1, <1>5, <1>11
<1>13. ASSUME NEW n \in Nat, n \in T PROVE n + 1 \in T
  <2> SUFFICES ASSUME n + 1 <= N PROVE Drop[n + 1] \in V
    OBVIOUS
  <2>1. n + 1 \in 0..N /\ n + 1 # 0 /\ (n + 1) - 1 = n /\ n <= N
    BY <1>1
  <2>2. Drop[n + 1] = FullDropStep(s, Drop[n])
    BY <1>11, <2>1
  <2>3. Drop[n] \in V
    BY <1>13, <2>1
  <2> QED  BY <1>7, <2>2, <2>3
<1> HIDE DEF T
<1>14. N \in T
  BY <1>1, <1>12, <1>13, Induction
<1>15. Drop[N] \in V
  BY <1>1, <1>14 DEF T
<1> QED  BY <1>2, <1>15

\* The statements that it emits.
LEMMA FullDropType ==
  ASSUME NEW s, NEW t \in Tables
  PROVE  FullDrop(s, t) \in Seq(Drops)
<1> DEFINE V == [Tables -> Seq(Drops)]
<1>1. [u \in Tables |-> << >>] \in V
  OBVIOUS
<1>2. \A g \in V : FullDropStep(s, g) \in V
  BY FullDropStepType
<1> HIDE DEF V
<1>3. PICK g \in V : FullDrop(s, t) = g[t]
  BY <1>1, <1>2, FullDropIn
<1> QED  BY <1>3 DEF V

\* SCHEMA_ANNOTATION_CREATE_TABLE
LEMMA CreateTableLawful ==
  ASSUME NEW s, WellFormed(s), NEW t \in Tables
  PROVE  Lawful(s, {}, CreateTable(s, t))
<1> DEFINE drop == FullDrop(s, t) \o <<SetFacet(OneTimeDropFacet(t), Number(s.tables[t].version))>>
           create == <<Do("create table if unknown", t, s.tables[t].def)>>
<1>1. LeavesRecreate(s) => \A x \in Drops : Stmt(s, {}, x)
  <2> SUFFICES ASSUME LeavesRecreate(s), NEW x \in Drops PROVE Stmt(s, {}, x)
    OBVIOUS
  <2>1. \A i : Stmt(s, {}, SetFacet(IndexFacet(i), NoFacet))
    BY SetFacetStmt, OtherFacets
  <2>2. \A u \in Tables : Stmt(s, {}, Do("drop table and forget", u, 0))
    <3> TAKE u \in Tables
    <3>1. Permitted(s, {}, "drop table and forget", u, 0)
      BY DEF Permitted, Creates, OnTables, Restless
    <3> QED  BY <3>1, DoStmt
  <2> QED  BY <2>1, <2>2 DEF Drops
<1>2. s.tables[t].fromRecreate => LeavesRecreate(s)
  BY DEF LeavesRecreate
<1>3. s.tables[t].fromRecreate => Lawful(s, {}, FullDrop(s, t))
  <2>1. FullDrop(s, t) \in Seq(Drops)
    BY FullDropType
  <2> QED  BY <1>1, <1>2, <2>1, LawfulFrom
<1>4. Lawful(s, {}, <<SetFacet(OneTimeDropFacet(t), Number(s.tables[t].version))>>)
  BY SetFacetStmt, OtherFacets, LawfulOne
<1>5. s.tables[t].fromRecreate => Lawful(s, {}, drop)
  BY <1>3, <1>4, LawfulConcat
<1>6. Permitted(s, {}, "create table if unknown", t, s.tables[t].def)
  BY Declarations DEF Permitted, Creates, OnTables, Restless
<1>7. Lawful(s, {}, create)
  BY <1>6, DoStmt, LawfulOne
<1> HIDE DEF drop, create
<1>8. s.tables[t].fromRecreate => \A c : Lawful(s, {}, If(c, drop) \o create)
  BY <1>5, <1>7, LawfulIf, LawfulConcat
<1>9. Lawful(s, {}, << >> \o create)
  BY <1>7, LawfulOne, LawfulConcat
<1>10. CASE s.tables[t].fromRecreate
  BY <1>8, <1>10 DEF CreateTable, IfFacetIsNot, drop, create
<1>11. CASE ~s.tables[t].fromRecreate
  BY <1>9, <1>11 DEF CreateTable, create
<1> QED  BY <1>10, <1>11

\* A migration procedure with the facet that records it.
LEMMA RunOnceLawful ==
  ASSUME NEW s, NEW proc, NEW version
  PROVE  Lawful(s, {}, RunOnce(proc, version))
<1>1. Permitted(s, {}, "run", proc, 0)
  BY DEF Permitted, Creates, OnTables, Restless
<1>2. Stmt(s, {}, Do("run", proc, 0)) /\ Stmt(s, {}, SetFacet(ProcFacet(proc), Number(version)))
  BY <1>1, DoStmt, SetFacetStmt, OtherFacets
<1> QED  BY <1>2, LawfulOne, LawfulIf DEF RunOnce

\* The tables and columns of a version.
LEMMA AlterSchemaLawful ==
  ASSUME NEW s, WellFormed(s), NEW v
  PROVE  Lawful(s, {}, AlterSchema(s, v))
<1> DEFINE create == [t \in Tables |-> IF CreatedIn(s, t, v) THEN CreateTable(s, t) ELSE << >>]
           column == [t \in Tables |->
             IF ColumnIn(s, t, v) THEN <<Do("add column if unknown", t, 0)>> ELSE << >>]
<1>1. ASSUME NEW t \in Tables PROVE Lawful(s, {}, create[t]) /\ Lawful(s, {}, column[t])
  <2>1. Permitted(s, {}, "add column if unknown", t, 0)
    BY DEF Permitted, Creates, OnTables, Restless
  <2> QED  BY <2>1, DoStmt, LawfulOne, CreateTableLawful
<1> HIDE DEF create, column
<1>2. Lawful(s, {}, ForEach(TableOrder, create)) /\ Lawful(s, {}, ForEach(TableOrder, column))
  BY <1>1, LawfulForEach, NamesAssumption
<1>3. Lawful(s, {}, ForEach(TableOrder, create) \o ForEach(TableOrder, column))
  BY <1>2, LawfulConcat
<1> QED  BY <1>3 DEF AlterSchema, create, column

\* cg_schema_end_version
LEMMA MigrateDataLawful ==
  ASSUME NEW s, NEW v
  PROVE  Lawful(s, {}, MigrateData(s, v))
<1> DEFINE create == [t \in Tables |->
             IF CreatedIn(s, t, v) /\ HasProc(s, t, "create")
             THEN RunOnce(TableProc(t, "create"), v) ELSE << >>]
           column == [t \in Tables |->
             IF ColumnIn(s, t, v) /\ HasProc(s, t, "column")
             THEN RunOnce(TableProc(t, "column"), v) ELSE << >>]
           delete == [t \in Tables |->
             IF DeletedIn(s, t, v) /\ HasProc(s, t, "delete")
             THEN RunOnce(TableProc(t, "delete"), v) ELSE << >>]
           adhoc == IF s.adhoc = v THEN RunOnce(AdHocProc, v) ELSE << >>
<1>1. \A t \in Tables :
        /\ Lawful(s, {}, create[t])
        /\ Lawful(s, {}, column[t])
        /\ Lawful(s, {}, delete[t])
  BY RunOnceLawful, LawfulOne
<1>2. Lawful(s, {}, adhoc)
  BY RunOnceLawful, LawfulOne
<1>3. TableOrder \in Seq(Tables) /\ Reverse(TableOrder) \in Seq(Tables)
  BY ReverseType, NamesAssumption
<1> HIDE DEF create, column, delete, adhoc
<1>4. /\ Lawful(s, {}, ForEach(TableOrder, create)) /\ Lawful(s, {}, ForEach(TableOrder, column))
      /\ Lawful(s, {}, ForEach(Reverse(TableOrder), delete))
  BY <1>1, <1>3, LawfulForEach
<1>5. Lawful(s, {}, ((ForEach(TableOrder, create) \o ForEach(TableOrder, column))
                   \o ForEach(Reverse(TableOrder), delete)) \o adhoc)
  BY <1>2, <1>4, LawfulConcat
<1> QED  BY <1>5 DEF MigrateData, create, column, delete, adhoc

\* Lawful parts, one for each number.
LEMMA LawfulFlatten ==
  ASSUME NEW s, NEW without, NEW n \in Nat, NEW seqs, seqs = [k \in 1..n |-> seqs[k]],
         \A k \in 1..n : Lawful(s, without, seqs[k])
  PROVE  Lawful(s, without, FlattenSeq(seqs))
<1> DEFINE S == UNION {ToSet(seqs[k]) : k \in 1..n}
<1>1. \A x \in S : Stmt(s, without, x)
  BY DEF Lawful
<1>2. ASSUME NEW k \in 1..n PROVE seqs[k] \in Seq(S)
  <2> DEFINE T == ToSet(seqs[k])
  <2>1. seqs[k] \in Seq(T) /\ T \subseteq S
    BY DEF Lawful
  <2> HIDE DEF T, S
  <2> QED  BY <2>1
<1> HIDE DEF S
<1>3. seqs \in Seq(Seq(S))
  BY <1>2
<1>4. FlattenSeq(seqs) \in Seq(S)
  BY <1>3, FlattenSeqType
<1> QED  BY <1>1, <1>4, LawfulFrom

\* The versions one after another.
LEMMA VersionsLawful ==
  ASSUME NEW s, WellFormed(s)
  PROVE  Lawful(s, {}, UpgradeVersions(s))
<1> DEFINE n == MaxVersion(s)
           seqs == [v \in 1..n |-> UpgradeToVersion(s, v)]
<1>1. \A v : Lawful(s, {}, UpgradeToVersion(s, v))
  BY AlterSchemaLawful, MigrateDataLawful, LawfulConcat DEF UpgradeToVersion
<1>2. n \in Nat
  BY MaxVersionType
<1>3. \A v \in 1..n : seqs[v] = UpgradeToVersion(s, v)
  OBVIOUS
<1>4. seqs = [v \in 1..n |-> seqs[v]]
  OBVIOUS
<1> HIDE DEF n, seqs
<1>5. Lawful(s, {}, FlattenSeq(seqs))
  BY <1>1, <1>2, <1>3, <1>4, LawfulFlatten
<1> QED  BY <1>5 DEF UpgradeVersions, seqs, n

\* <proc>_cql_drop_tables: only deleted and unsubscribed tables.
LEMMA DropTablesLawful ==
  ASSUME NEW s, NEW without \in SUBSET Restless, WellFormed(s)
  PROVE  Lawful(s, without, DropTables(s))
<1> DEFINE n == MaxVersion(s)
           order == Reverse(TableOrder)
           deleted(v) == [t \in Tables |->
             IF DeletedIn(s, t, v) THEN <<Do("drop table", t, 0)>> ELSE << >>]
           unsub == [t \in Tables |->
             IF Kept(s, t) /\ s.tables[t].unsub THEN <<Do("drop table", t, 0)>> ELSE << >>]
           seqs == [v \in 1..n |-> ForEach(order, deleted(v))]
<1>1. \A t \in Tables : ~Live(s, t) => Lawful(s, without, <<Do("drop table", t, 0)>>)
  <2> TAKE t \in Tables
  <2>1. ~Live(s, t) => Permitted(s, without, "drop table", t, 0)
    BY DEF Permitted, Creates, OnTables, Restless
  <2> QED  BY <2>1, DoStmt, LawfulOne
<1>2. \A v \in 1..n, t \in Tables : Lawful(s, without, deleted(v)[t])
  <2> TAKE v \in 1..n, t \in Tables
  <2>1. DeletedIn(s, t, v) => ~Live(s, t)
    BY MaxVersionType DEF DeletedIn, Live, IsDeleted
  <2> QED  BY <1>1, <2>1, LawfulOne
<1>3. \A t \in Tables : Lawful(s, without, unsub[t])
  <2> TAKE t \in Tables
  <2>1. s.tables[t].unsub => ~Live(s, t)
    BY DEF Live, IsDeleted
  <2> QED  BY <1>1, <2>1, LawfulOne
<1>4. order \in Seq(Tables)
  BY ReverseType, NamesAssumption
<1>5. n \in Nat
  BY MaxVersionType
<1> HIDE DEF order, deleted, unsub, n
<1>6. \A v \in 1..n : Lawful(s, without, ForEach(order, deleted(v)))
  BY <1>2, <1>4, LawfulForEach
<1>7. Lawful(s, without, ForEach(order, unsub))
  BY <1>3, <1>4, LawfulForEach
<1>8. \A v \in 1..n : seqs[v] = ForEach(order, deleted(v))
  OBVIOUS
<1>9. seqs = [v \in 1..n |-> seqs[v]]
  OBVIOUS
<1> HIDE DEF seqs
<1>10. Lawful(s, without, FlattenSeq(seqs))
  BY <1>5, <1>6, <1>8, <1>9, LawfulFlatten
<1>11. Lawful(s, without, FlattenSeq(seqs) \o ForEach(order, unsub))
  BY <1>7, <1>10, LawfulConcat
<1> QED  BY <1>11 DEF DropTables, seqs, order, deleted, unsub, n

-----------------------------------------------------------------------------
(* Tables that are recreated. *)

\* The groups of s among S, and the groups that depend on one.
LEMMA GroupsAmongType ==
  ASSUME NEW s, NEW S
  PROVE  GroupsAmong(s, S) \in Seq(Groups(s))
<1> DEFINE part == [t \in Tables |->
      IF Recreated(s, t) /\ GroupOf(s, t) \in S /\ t = TablesOf(s, GroupOf(s, t))[1]
      THEN <<GroupOf(s, t)>> ELSE << >>]
<1>1. \A t \in Tables : part[t] \in Seq(Groups(s))
  <2> TAKE t \in Tables
  <2>1. Recreated(s, t) => GroupOf(s, t) \in Groups(s)
    BY DEF Groups
  <2> QED  BY <2>1
<1> HIDE DEF part
<1>2. ForEach(TableOrder, part) \in Seq(Groups(s))
  BY <1>1, ForEachType, NamesAssumption
<1> QED  BY <1>2 DEF GroupsAmong, part

\* The drops of recreated tables.
GroupDrops(s) == {Do("drop table", t, 0) : t \in {u \in Tables : Recreated(s, u)}}

\* They are permitted.
LEMMA GroupDropsLawful ==
  ASSUME NEW s, NEW without \in SUBSET Restless, NEW q \in Seq(GroupDrops(s))
  PROVE  Lawful(s, without, q)
<1>1. ASSUME NEW t \in Tables, Recreated(s, t) PROVE Stmt(s, without, Do("drop table", t, 0))
  <2>1. Permitted(s, without, "drop table", t, 0)
    BY <1>1 DEF Permitted, Creates, OnTables, Restless
  <2> QED  BY <2>1, DoStmt
<1>2. \A x \in GroupDrops(s) : Stmt(s, without, x)
  BY <1>1 DEF GroupDrops
<1> QED  BY <1>2, LawfulFrom

\* The drops of some recreated tables, in any order.
LEMMA DropEachType ==
  ASSUME NEW s, NEW order \in Seq({t \in Tables : Recreated(s, t)})
  PROVE  ForEach(order, [t \in Tables |-> <<Do("drop table", t, 0)>>]) \in Seq(GroupDrops(s))
<1> DEFINE D == {t \in Tables : Recreated(s, t)}
           part == [t \in Tables |-> <<Do("drop table", t, 0)>>]
<1>1. \A t \in D : part[t] \in Seq(GroupDrops(s))
  <2> TAKE t \in D
  <2> DEFINE d == Do("drop table", t, 0)
  <2>1. d \in GroupDrops(s)
    BY DEF GroupDrops
  <2>2. part[t] = <<d>>
    OBVIOUS
  <2> HIDE DEF d, part
  <2>3. <<d>> \in Seq(GroupDrops(s))
    BY <2>1
  <2> QED  BY <2>2, <2>3
<1> HIDE DEF part
<1>2. order \in Seq(D)
  OBVIOUS
<1> HIDE DEF D
<1>3. ForEach(order, part) \in Seq(GroupDrops(s))
  BY <1>1, <1>2, ForEachType
<1> QED  BY <1>3 DEF part

\* The step of the recursion of GroupDrop.
GroupDropStep(s, below) == [h \in Groups(s) |->
  ForEach(GroupsAmong(s, ChildGroups(s, h)), below)
  \o ForEach(Reverse(TablesOf(s, h)), [t \in Tables |-> <<Do("drop table", t, 0)>>])]

\* The tables of a group are recreated tables.
LEMMA GroupTables ==
  ASSUME NEW s, NEW S, NEW g
  PROVE  Among(TableOrder, {t \in InGroup(s, g) : t \in S})
           \in Seq({t \in Tables : Recreated(s, t)})
         /\ TablesOf(s, g) \in Seq({t \in Tables : Recreated(s, t)})
<1> DEFINE D == {t \in Tables : Recreated(s, t)}
           I == {t \in InGroup(s, g) : t \in S}
<1>1. Among(TableOrder, I) \in Seq(Tables \cap I)
      /\ Among(TableOrder, InGroup(s, g)) \in Seq(Tables \cap InGroup(s, g))
  BY AmongType, NamesAssumption
<1>2. Tables \cap I \subseteq D /\ Tables \cap InGroup(s, g) \subseteq D
  BY DEF InGroup
<1>3. \A A, B : A \subseteq B => Seq(A) \subseteq Seq(B)
  OBVIOUS
<1> HIDE DEF D, I
<1>4. Among(TableOrder, I) \in Seq(D) /\ Among(TableOrder, InGroup(s, g)) \in Seq(D)
  BY <1>1, <1>2, <1>3
<1> QED  BY <1>4 DEF TablesOf, D, I

\* One level of emit_group_drop, given the one below.
LEMMA GroupDropStepType ==
  ASSUME NEW s, NEW below \in [Groups(s) -> Seq(GroupDrops(s))]
  PROVE  GroupDropStep(s, below) \in [Groups(s) -> Seq(GroupDrops(s))]
<1> SUFFICES ASSUME NEW h \in Groups(s) PROVE GroupDropStep(s, below)[h] \in Seq(GroupDrops(s))
  BY DEF GroupDropStep
<1> DEFINE part == [t \in Tables |-> <<Do("drop table", t, 0)>>]
           order == Reverse(TablesOf(s, h))
           D == {t \in Tables : Recreated(s, t)}
<1>1. GroupDropStep(s, below)[h]
        = ForEach(GroupsAmong(s, ChildGroups(s, h)), below) \o ForEach(order, part)
  BY DEF GroupDropStep
<1>2. TablesOf(s, h) \in Seq(D)
  BY GroupTables
<1>3. order \in Seq(D)
  BY <1>2, ReverseType
<1>4. ForEach(order, part) \in Seq(GroupDrops(s))
  BY <1>3, DropEachType
<1> HIDE DEF part, order, D
<1>5. ForEach(GroupsAmong(s, ChildGroups(s, h)), below) \in Seq(GroupDrops(s))
  BY GroupsAmongType, ForEachType
<1> QED  BY <1>1, <1>4, <1>5

\* emit_group_drop
LEMMA GroupDropType ==
  ASSUME NEW s, NEW g \in Groups(s)
  PROVE  GroupDrop(s, g) \in Seq(GroupDrops(s))
<1> DEFINE N == Len(TableOrder)
           V == [Groups(s) -> Seq(GroupDrops(s))]
           Eq(D) == [n \in 0..N |-> [h \in Groups(s) |->
             IF n = 0 THEN << >>
             ELSE ForEach(GroupsAmong(s, ChildGroups(s, h)), D[n - 1])
                  \o ForEach(Reverse(TablesOf(s, h)),
                       [t \in Tables |-> <<Do("drop table", t, 0)>>])]]
           Drop == CHOOSE D : D = Eq(D)
           none == [h \in Groups(s) |-> << >>]
           step == [n \in 1..N |-> [d \in V |-> GroupDropStep(s, d)]]
<1>1. N \in Nat
  BY NamesAssumption
<1>2. GroupDrop(s, g) = Drop[N][g]
  BY DEF GroupDrop
<1>3. \A D : \A n \in 0..N : Eq(D)[n] = IF n = 0 THEN none ELSE GroupDropStep(s, D[n - 1])
  BY DEF GroupDropStep
<1>4. \A D : Eq(D) = [n \in 0..N |-> Eq(D)[n]]
  OBVIOUS
<1> HIDE DEF Eq
<1>5. none \in V /\ step \in [1..N -> [V -> V]]
  BY GroupDropStepType
<1>6. \A n \in 1..N : \A d \in V : step[n][d] = GroupDropStep(s, d)
  OBVIOUS
<1>7. \A d \in V : GroupDropStep(s, d) \in V
  BY GroupDropStepType
<1> HIDE DEF N, V, step, none
<1>8. PICK f : Recursive(f, V, none, N, step)
  BY <1>1, <1>5, RecursionExists
<1>9. f = Eq(f)
  <2>1. ASSUME NEW n \in 0..N PROVE f[n] = Eq(f)[n]
    <3>1. CASE n = 0
      BY <1>3, <1>8, <3>1 DEF Recursive
    <3>2. CASE n # 0
      <4>1. n \in 1..N /\ n - 1 \in 0..N
        BY <1>1, <3>2
      <4>2. f[n] = step[n][f[n - 1]] /\ f[n - 1] \in V
        BY <1>8, <4>1 DEF Recursive
      <4>3. f[n] = GroupDropStep(s, f[n - 1])
        BY <1>6, <4>1, <4>2
      <4> QED  BY <1>3, <3>2, <4>3
    <3> QED  BY <3>1, <3>2
  <2>2. f = [n \in 0..N |-> f[n]]
    BY <1>8 DEF Recursive
  <2>3. Eq(f) = [n \in 0..N |-> Eq(f)[n]]
    BY <1>4
  <2> QED  BY <2>1, <2>2, <2>3
<1>10. Drop = Eq(Drop)
  BY <1>9
<1> HIDE DEF Drop
<1>11. \A n \in 0..N : Drop[n] = IF n = 0 THEN none ELSE GroupDropStep(s, Drop[n - 1])
  BY <1>3, <1>10
<1> DEFINE T == {n \in Nat : n <= N => Drop[n] \in V}
<1>12. 0 \in T
  BY <1>1, <1>5, <1>11
<1>13. ASSUME NEW n \in Nat, n \in T PROVE n + 1 \in T
  <2> SUFFICES ASSUME n + 1 <= N PROVE Drop[n + 1] \in V
    OBVIOUS
  <2>1. n + 1 \in 0..N /\ n + 1 # 0 /\ (n + 1) - 1 = n /\ n <= N
    BY <1>1
  <2>2. Drop[n + 1] = GroupDropStep(s, Drop[n])
    BY <1>11, <2>1
  <2>3. Drop[n] \in V
    BY <1>13, <2>1
  <2> QED  BY <1>7, <2>2, <2>3
<1> HIDE DEF T
<1>14. N \in T
  BY <1>1, <1>12, <1>13, Induction
<1>15. Drop[N] \in V
  BY <1>1, <1>14 DEF T
<1> QED  BY <1>2, <1>15 DEF V

\* cql_rebuild_recreate_group
LEMMA RebuildGroupLawful ==
  ASSUME NEW s, NEW without \in SUBSET Restless, WellFormed(s), NEW g
  PROVE  Lawful(s, without, RebuildGroup(s, g))
<1> DEFINE D == {t \in Tables : Recreated(s, t)}
           dead == Among(TableOrder, {t \in InGroup(s, g) : IsDeleted(s, t)})
           alive == Among(TableOrder, {t \in InGroup(s, g) : Live(s, t)})
           drop == [t \in Tables |-> <<Do("drop table", t, 0)>>]
           index(t) == [i \in Indices |-> <<Do("create index", i, s.indices[i])>>]
           create == [t \in Tables |->
             <<Do("create recreate table", t, s.tables[t].def)>>
             \o ForEach(LiveIndices(s, t), index(t))]
<1>1. dead \in Seq(D) /\ alive \in Seq(D)
  <2>1. /\ {t \in InGroup(s, g) : IsDeleted(s, t)}
             = {t \in InGroup(s, g) : t \in {u \in Tables : IsDeleted(s, u)}}
        /\ {t \in InGroup(s, g) : Live(s, t)}
             = {t \in InGroup(s, g) : t \in {u \in Tables : Live(s, u)}}
    BY DEF InGroup
  <2> QED  BY <2>1, GroupTables
<1>2. Reverse(dead) \in Seq(D) /\ Reverse(alive) \in Seq(D) /\ alive \in Seq(Tables)
  <2>1. D \subseteq Tables
    OBVIOUS
  <2> HIDE DEF D, dead, alive
  <2> QED  BY <1>1, <2>1, ReverseType
<1>3. /\ Lawful(s, without, ForEach(Reverse(dead), drop))
      /\ Lawful(s, without, ForEach(Reverse(alive), drop))
  <2> HIDE DEF dead, alive
  <2> QED  BY <1>2, DropEachType, GroupDropsLawful
<1>4. ASSUME NEW t \in Tables PROVE Lawful(s, without, create[t])
  <2> DEFINE L == {i \in Indices : s.indices[i] > 0}
             P == {i \in Indices : IndexTable[i] = t /\ s.indices[i] > 0 /\ Live(s, t)}
  <2>1. LiveIndices(s, t) \in Seq(Indices \cap P) /\ Indices \cap P \subseteq L
    BY AmongType, NamesAssumption DEF LiveIndices
  <2>2. LiveIndices(s, t) \in Seq(L)
    <3> HIDE DEF P, L
    <3> QED  BY <2>1
  <2>3. \A i \in L : Lawful(s, without, index(t)[i])
    <3> TAKE i \in L
    <3>1. Permitted(s, without, "create index", i, s.indices[i])
      <4>1. s.indices[i] \in Nat
        BY Declarations
      <4> QED  BY <4>1 DEF Permitted, Creates, OnTables, Restless
    <3> QED  BY <3>1, DoStmt, LawfulOne
  <2>4. Permitted(s, without, "create recreate table", t, s.tables[t].def)
    BY Declarations DEF Permitted, Creates, OnTables, Restless
  <2>5. Lawful(s, without, <<Do("create recreate table", t, s.tables[t].def)>>)
    BY <2>4, DoStmt, LawfulOne
  <2>6. create[t] = <<Do("create recreate table", t, s.tables[t].def)>>
                      \o ForEach(LiveIndices(s, t), index(t))
    OBVIOUS
  <2> HIDE DEF index, L, create
  <2>7. Lawful(s, without, ForEach(LiveIndices(s, t), index(t)))
    BY <2>2, <2>3, LawfulForEach
  <2> QED  BY <2>5, <2>6, <2>7, LawfulConcat
<1> HIDE DEF dead, alive, drop, create
<1>5. Lawful(s, without, ForEach(alive, create))
  BY <1>2, <1>4, LawfulForEach
<1>6. Lawful(s, without, (ForEach(Reverse(dead), drop) \o ForEach(Reverse(alive), drop))
                  \o ForEach(alive, create))
  BY <1>3, <1>5, LawfulConcat
<1> QED  BY <1>6 DEF RebuildGroup, dead, alive, drop, create

\* One group: rebuilt if its CRC changed, and the groups that depend on it condemned.
LEMMA RecreateGroupLawful ==
  ASSUME NEW s, NEW without \in SUBSET Restless, WellFormed(s), NEW g
  PROVE  Lawful(s, without, RecreateGroup(s, g))
<1> DEFINE children == GroupsAmong(s, ChildGroups(s, g))
           drop == [c \in Groups(s) |-> GroupDrop(s, c)]
           condemn == [c \in Groups(s) |-> CondemnGroup(c)]
           refill == IF g \in s.refill THEN <<Do("run", RefillProc(g), g)>> ELSE << >>
           last == <<SetFacet(GroupFacet(g), GroupCrc(s, g))>>
<1>1. Lawful(s, without, RebuildGroup(s, g))
  BY RebuildGroupLawful
<1>2. children \in Seq(Groups(s))
  BY GroupsAmongType
<1>3. \A c \in Groups(s) : Lawful(s, without, drop[c])
  BY GroupDropType, GroupDropsLawful
<1>4. \A c \in Groups(s) : Lawful(s, without, condemn[c])
  <2> TAKE c \in Groups(s)
  <2>1. Permitted(s, without, "forget saved facet", GroupFacet(c), 0)
    BY DEF Permitted, Creates, OnTables, Restless
  <2>2. Stmt(s, without, Do("forget saved facet", GroupFacet(c), 0))
        /\ Stmt(s, without, SetFacet(GroupFacet(c), NoFacet))
    BY <2>1, DoStmt, SetFacetStmt, OtherFacets
  <2> QED  BY <2>2, LawfulOne DEF CondemnGroup
<1>5. Lawful(s, without, refill)
  <2>1. Permitted(s, without, "run", RefillProc(g), g)
    BY DEF Permitted, Creates, OnTables, RefillProc, Restless
  <2> QED  BY <2>1, DoStmt, LawfulOne
<1>6. Lawful(s, without, last)
  BY SetFacetStmt, OtherFacets, LawfulOne
<1> HIDE DEF children, drop, condemn, refill, last
<1>7. Lawful(s, without, ForEach(children, drop)) /\ Lawful(s, without, ForEach(children, condemn))
  BY <1>2, <1>3, <1>4, LawfulForEach
<1>8. Lawful(s, without, (((RebuildGroup(s, g) \o ForEach(children, drop))
                              \o ForEach(children, condemn)) \o refill) \o last)
  BY <1>1, <1>5, <1>6, <1>7, LawfulConcat
<1>9. \A c : Lawful(s, without, If(c, (((RebuildGroup(s, g) \o ForEach(children, drop))
                                 \o ForEach(children, condemn)) \o refill) \o last))
  BY <1>8, LawfulIf
<1> QED  BY <1>9 DEF RecreateGroup, IfFacetIsNot, children, drop, condemn, refill, last

\* recreate_comparator
LEMMA GroupOrderType ==
  ASSUME NEW s, NEW virtual
  PROVE  GroupOrder(s, virtual) \in Seq(Groups(s))
<1> DEFINE n == Len(TableOrder)
           Weighing(w) == {g \in Groups(s) : /\ VirtualGroup(s, g) = virtual
                                             /\ Cardinality(Descendants(s, g)) = w}
           seqs == [k \in 1..n |-> GroupsAmong(s, Weighing(n - k))]
<1>1. n \in Nat
  BY NamesAssumption
<1>2. \A w : GroupsAmong(s, Weighing(w)) \in Seq(Groups(s))
  BY GroupsAmongType
<1> HIDE DEF n, Weighing
<1>3. seqs \in Seq(Seq(Groups(s)))
  BY <1>1, <1>2
<1> HIDE DEF seqs
<1>4. FlattenSeq(seqs) \in Seq(Groups(s))
  BY <1>3, FlattenSeqType
<1> QED  BY <1>4 DEF GroupOrder, seqs, Weighing, n

\* cg_schema_manage_recreate_tables
LEMMA RecreateTablesLawful ==
  ASSUME NEW s, NEW without \in SUBSET Restless, WellFormed(s), NEW virtual
  PROVE  Lawful(s, without, RecreateTables(s, virtual))
<1> DEFINE part == [g \in Groups(s) |-> RecreateGroup(s, g)]
           last == <<SetFacet(AllTablesFacet(virtual), AllTablesCrc(s, virtual))>>
<1>1. \A g \in Groups(s) : Lawful(s, without, part[g])
  BY RecreateGroupLawful
<1>2. Lawful(s, without, last)
  BY SetFacetStmt, OtherFacets, LawfulOne
<1> HIDE DEF part, last
<1>3. Lawful(s, without, ForEach(GroupOrder(s, virtual), part))
  BY <1>1, GroupOrderType, LawfulForEach
<1>4. Lawful(s, without, ForEach(GroupOrder(s, virtual), part) \o last)
  BY <1>2, <1>3, LawfulConcat
<1>5. \A c : Lawful(s, without, If(c, ForEach(GroupOrder(s, virtual), part) \o last))
  BY <1>4, LawfulIf
<1> QED  BY <1>5 DEF RecreateTables, IfFacetIsNot, part, last

-----------------------------------------------------------------------------
(* The whole script. *)

\* <proc>_perform_upgrade_steps
LEMMA MainStepsLawful ==
  ASSUME NEW s, WellFormed(s)
  PROVE  Lawful(s, {}, MainSteps(s))
<1> DEFINE defs == <<Do("get table defs", "", 0)>>
           recreate == IF Groups(s) # {} THEN RecreateTables(s, FALSE) ELSE << >>
           last == <<SetFacet(VersionFacet, Number(MaxVersion(s))),
                     SetFacet(NoVirtualCrcFacet, NoVirtualCrc(s))>>
<1>1. Lawful(s, {}, defs)
  <2>1. Permitted(s, {}, "get table defs", "", 0)
    BY DEF Permitted, Creates, OnTables, Restless
  <2> QED  BY <2>1, DoStmt, LawfulOne
<1>2. Lawful(s, {}, recreate)
  BY RecreateTablesLawful, LawfulOne
<1>3. Lawful(s, {}, last)
  <2>1. Permitted(s, {}, "set facet", VersionFacet, Number(MaxVersion(s)))
    BY DEF Permitted, Creates, OnTables, Restless
  <2>2. Stmt(s, {}, SetFacet(VersionFacet, Number(MaxVersion(s))))
    BY <2>1, DoStmt DEF SetFacet
  <2>3. Stmt(s, {}, SetFacet(NoVirtualCrcFacet, NoVirtualCrc(s)))
    BY SetFacetStmt, OtherFacets
  <2> QED  BY <2>2, <2>3, LawfulOne
<1> HIDE DEF defs, recreate, last
<1>4. Lawful(s, {}, ((DropViews(s) \o DropIndices(s)) \o DropTriggers(s)) \o InstallBaseline(s))
  BY ViewsLawful, IndicesLawful, TriggersLawful, BaselineLawful, LawfulConcat
<1> DEFINE a == ((DropViews(s) \o DropIndices(s)) \o DropTriggers(s)) \o InstallBaseline(s)
<1> HIDE DEF a
<1>5. Lawful(s, {}, (((a \o defs) \o UpgradeVersions(s)) \o DropTables(s)) \o recreate)
  BY <1>1, <1>2, <1>4, VersionsLawful, DropTablesLawful, LawfulConcat DEF a
<1> DEFINE b == (((a \o defs) \o UpgradeVersions(s)) \o DropTables(s)) \o recreate
<1> HIDE DEF b
<1>6. Lawful(s, {}, ((b \o CreateViews(s)) \o CreateIndices(s)) \o CreateTriggers(s))
  BY <1>5, ViewsLawful, IndicesLawful, TriggersLawful, LawfulConcat DEF b
<1>7. Lawful(s, {}, (((b \o CreateViews(s)) \o CreateIndices(s)) \o CreateTriggers(s)) \o last)
  BY <1>3, <1>6, LawfulConcat
<1>8. \A c : Lawful(s, {}, If(c, (((b \o CreateViews(s)) \o CreateIndices(s)) \o CreateTriggers(s))
                               \o last))
  BY <1>7, LawfulIf
<1> QED  BY <1>8 DEF MainSteps, IfFacetIsNot, a, b, defs, recreate, last

\* The script, with and without the steps for the virtual tables: permitted
\* statements, each with its position.
LEMMA ScriptLawful ==
  ASSUME NEW s, WellFormed(s), NEW v \in BOOLEAN
  PROVE  /\ Len(Script(s, v)) \in Nat
         /\ \A k \in 1..Len(Script(s, v)) :
              Stmt(s, {}, Script(s, v)[k]) /\ Script(s, v)[k].at = k
<1> DEFINE virtual == IF v THEN VirtualSteps(s) ELSE << >>
           steps == MainSteps(s) \o virtual
           S == ToSet(steps)
<1>1. Lawful(s, {}, virtual)
  <2> DEFINE recreate == IF Groups(s) # {} THEN RecreateTables(s, TRUE) ELSE << >>
  <2>1. Lawful(s, {}, recreate)
    BY RecreateTablesLawful, LawfulOne
  <2>2. Lawful(s, {}, <<SetFacet(CrcFacet, SchemaCrc(s))>>)
    BY SetFacetStmt, OtherFacets, LawfulOne
  <2> HIDE DEF recreate
  <2>3. Lawful(s, {}, recreate \o <<SetFacet(CrcFacet, SchemaCrc(s))>>)
    BY <2>1, <2>2, LawfulConcat
  <2>4. Lawful(s, {}, VirtualSteps(s))
    BY <2>3 DEF VirtualSteps, recreate
  <2> QED  BY <2>4, LawfulOne
<1> HIDE DEF virtual
<1>2. Lawful(s, {}, steps)
  BY <1>1, MainStepsLawful, LawfulConcat
<1> HIDE DEF steps
<1>3. steps \in Seq(S) /\ \A x \in S : Stmt(s, {}, x)
  BY <1>2 DEF Lawful
<1> HIDE DEF S
<1>4. Len(steps) \in Nat /\ DOMAIN steps = 1..Len(steps) /\ \A k \in 1..Len(steps) : steps[k] \in S
  BY <1>3
<1> DEFINE script == [k \in DOMAIN steps |-> [steps[k] EXCEPT !.at = k]]
<1>5. Script(s, v) = script
  BY DEF Script, steps, virtual
<1>6. Len(script) = Len(steps)
  BY <1>4
<1>7. \A k \in 1..Len(steps) : script[k] = [steps[k] EXCEPT !.at = k]
  BY <1>4
<1>8. \A k \in 1..Len(steps) : Stmt(s, {}, script[k]) /\ script[k].at = k
  <2> TAKE k \in 1..Len(steps)
  <2>1. Stmt(s, {}, steps[k])
    BY <1>3, <1>4
  <2>2. ASSUME NEW x, Stmt(s, {}, x)
        PROVE  Stmt(s, {}, [x EXCEPT !.at = k]) /\ [x EXCEPT !.at = k].at = k
    BY <2>2, SameStatement
  <2> QED  BY <1>7, <2>1, <2>2
<1> HIDE DEF script
<1> QED  BY <1>4, <1>5, <1>6, <1>8

-----------------------------------------------------------------------------
(* What the statements do to the database and to the run. *)

IsDb(d) == d = [tables |-> d.tables, indices |-> d.indices, views |-> d.views,
                triggers |-> d.triggers, facets |-> d.facets]

DbOK(d) ==
  /\ IsDb(d)
  /\ d.tables \in [Tables -> DbTables]
  /\ d.indices \in [Indices -> Nat] /\ d.views \in [Views -> Nat]
  /\ d.triggers \in [Triggers -> Nat]

IsRun(r) == r = [pc |-> r.pc, virtual |-> r.virtual, facets |-> r.facets, saved |-> r.saved,
                 known |-> r.known, columns |-> r.columns, lost |-> r.lost]

RunOK(r) ==
  /\ IsRun(r)
  /\ r.pc \in Nat /\ r.virtual \in BOOLEAN
  /\ r.known \subseteq Tables /\ r.columns \subseteq r.known
  /\ r.pc = 0 => r = Idle

VersionIn(d) == Find(d.facets, VersionFacet)[1]

\* Table t is still there, with its column.
Survives(d, e, t) ==
  d.tables[t].exists => e.tables[t].exists /\ (d.tables[t].column => e.tables[t].column)

\* From d to e: the version on record is kept and no table is lost.
Harmless(d, e) ==
  DbOK(e) /\ e.facets = d.facets /\ \A t \in Tables : Survives(d, e, t)

\* The fields of a record other than the one that is replaced.
LEMMA DbFields ==
  ASSUME NEW d, IsDb(d), NEW w, NEW e
  PROVE  /\ e = [d EXCEPT !.tables = w] =>
              /\ IsDb(e) /\ e.tables = w /\ e.indices = d.indices /\ e.views = d.views
              /\ e.triggers = d.triggers /\ e.facets = d.facets
         /\ e = [d EXCEPT !.indices = w] =>
              /\ IsDb(e) /\ e.tables = d.tables /\ e.indices = w /\ e.views = d.views
              /\ e.triggers = d.triggers /\ e.facets = d.facets
         /\ e = [d EXCEPT !.views = w] =>
              /\ IsDb(e) /\ e.tables = d.tables /\ e.indices = d.indices /\ e.views = w
              /\ e.triggers = d.triggers /\ e.facets = d.facets
         /\ e = [d EXCEPT !.triggers = w] =>
              /\ IsDb(e) /\ e.tables = d.tables /\ e.indices = d.indices /\ e.views = d.views
              /\ e.triggers = w /\ e.facets = d.facets
         /\ e = [d EXCEPT !.facets = w] =>
              /\ IsDb(e) /\ e.tables = d.tables /\ e.indices = d.indices /\ e.views = d.views
              /\ e.triggers = d.triggers /\ e.facets = w
<1>1. PICK T, I, V, R, F :
        d = [tables |-> T, indices |-> I, views |-> V, triggers |-> R, facets |-> F]
  BY DEF IsDb
<1> QED  BY <1>1 DEF IsDb

\* Views, triggers and indices come and go; tables and facets stay.
LEMMA ObjectChange ==
  ASSUME NEW d, DbOK(d), NEW n \in Nat
  PROVE  /\ \A v \in Views : Harmless(d, [d EXCEPT !.views[v] = n])
         /\ \A r \in Triggers : Harmless(d, [d EXCEPT !.triggers[r] = n])
         /\ \A i \in Indices : Harmless(d, [d EXCEPT !.indices[i] = n])
<1>1. ASSUME NEW e, DbOK(e), e.tables = d.tables, e.facets = d.facets
      PROVE  Harmless(d, e)
  BY <1>1 DEF Harmless, Survives
<1>2. ASSUME NEW v \in Views PROVE Harmless(d, [d EXCEPT !.views[v] = n])
  <2> DEFINE w == [d.views EXCEPT ![v] = n]
  <2>1. w \in [Views -> Nat]
    BY DEF DbOK
  <2>2. [d EXCEPT !.views[v] = n] = [d EXCEPT !.views = w]
    OBVIOUS
  <2> HIDE DEF w
  <2> DEFINE e == [d EXCEPT !.views = w]
  <2>3. e = [d EXCEPT !.views = w] /\ IsDb(d)
    BY DEF DbOK
  <2> HIDE DEF e
  <2>4. DbOK(e) /\ e.tables = d.tables /\ e.facets = d.facets
    BY <2>1, <2>3, DbFields DEF DbOK
  <2>5. Harmless(d, e)
    BY <1>1, <2>4
  <2> QED  BY <2>2, <2>5 DEF e
<1>3. ASSUME NEW r \in Triggers PROVE Harmless(d, [d EXCEPT !.triggers[r] = n])
  <2> DEFINE w == [d.triggers EXCEPT ![r] = n]
  <2>1. w \in [Triggers -> Nat]
    BY DEF DbOK
  <2>2. [d EXCEPT !.triggers[r] = n] = [d EXCEPT !.triggers = w]
    OBVIOUS
  <2> HIDE DEF w
  <2> DEFINE e == [d EXCEPT !.triggers = w]
  <2>3. e = [d EXCEPT !.triggers = w] /\ IsDb(d)
    BY DEF DbOK
  <2> HIDE DEF e
  <2>4. DbOK(e) /\ e.tables = d.tables /\ e.facets = d.facets
    BY <2>1, <2>3, DbFields DEF DbOK
  <2>5. Harmless(d, e)
    BY <1>1, <2>4
  <2> QED  BY <2>2, <2>5 DEF e
<1>4. ASSUME NEW i \in Indices PROVE Harmless(d, [d EXCEPT !.indices[i] = n])
  <2> DEFINE w == [d.indices EXCEPT ![i] = n]
  <2>1. w \in [Indices -> Nat]
    BY DEF DbOK
  <2>2. [d EXCEPT !.indices[i] = n] = [d EXCEPT !.indices = w]
    OBVIOUS
  <2> HIDE DEF w
  <2> DEFINE e == [d EXCEPT !.indices = w]
  <2>3. e = [d EXCEPT !.indices = w] /\ IsDb(d)
    BY DEF DbOK
  <2> HIDE DEF e
  <2>4. DbOK(e) /\ e.tables = d.tables /\ e.facets = d.facets
    BY <2>1, <2>3, DbFields DEF DbOK
  <2>5. Harmless(d, e)
    BY <1>1, <2>4
  <2> QED  BY <2>2, <2>5 DEF e
<1> QED  BY <1>2, <1>3, <1>4

\* A table that is not there is created, one that is gets its column or is filled.
LEMMA TableChange ==
  ASSUME NEW d, DbOK(d)
  PROVE  /\ \A t \in Tables, n \in Nat, k \in BOOLEAN :
              ~d.tables[t].exists => Harmless(d, [d EXCEPT !.tables[t] = NewTable(n, k)])
         /\ \A t \in Tables : Harmless(d, [d EXCEPT !.tables[t].column = TRUE])
         /\ \A w \in [Tables -> DbTables] :
              (\A t \in Tables : /\ w[t].exists <=> d.tables[t].exists
                                 /\ w[t].column <=> d.tables[t].column)
                => Harmless(d, [d EXCEPT !.tables = w])
<1>1. ASSUME NEW w \in [Tables -> DbTables], NEW e, e = [d EXCEPT !.tables = w]
      PROVE  DbOK(e) /\ e.tables = w /\ e.facets = d.facets
  <2>1. IsDb(d)
    BY DEF DbOK
  <2>2. /\ IsDb(e) /\ e.tables = w /\ e.indices = d.indices /\ e.views = d.views
        /\ e.triggers = d.triggers /\ e.facets = d.facets
    BY <1>1, <2>1, DbFields
  <2> QED  BY <2>2 DEF DbOK
<1>2. ASSUME NEW t \in Tables, NEW n \in Nat, NEW k \in BOOLEAN, ~d.tables[t].exists
      PROVE  Harmless(d, [d EXCEPT !.tables[t] = NewTable(n, k)])
  <2> DEFINE new == NewTable(n, k)
             w == [d.tables EXCEPT ![t] = new]
  <2>1. new \in DbTables
    BY DEF NewTable, DbTables
  <2> HIDE DEF new
  <2>2. w \in [Tables -> DbTables] /\ \A u \in Tables : u # t => w[u] = d.tables[u]
    BY <2>1 DEF DbOK
  <2>3. [d EXCEPT !.tables[t] = new] = [d EXCEPT !.tables = w]
    OBVIOUS
  <2> HIDE DEF w
  <2> DEFINE e == [d EXCEPT !.tables = w]
  <2>4. DbOK(e) /\ e.tables = w /\ e.facets = d.facets
    BY <1>1, <2>2
  <2> HIDE DEF e
  <2>5. Harmless(d, e)
    BY <1>2, <2>2, <2>4 DEF Harmless, Survives
  <2> QED  BY <2>3, <2>5 DEF e, new
<1>3. ASSUME NEW t \in Tables PROVE Harmless(d, [d EXCEPT !.tables[t].column = TRUE])
  <2> DEFINE new == [d.tables[t] EXCEPT !.column = TRUE]
             w == [d.tables EXCEPT ![t] = new]
  <2>1. new \in DbTables /\ new.column /\ (d.tables[t].exists <=> new.exists)
    <3>1. d.tables[t] \in DbTables
      BY DEF DbOK
    <3> QED  BY <3>1 DEF DbTables
  <2>2. [d EXCEPT !.tables[t].column = TRUE] = [d EXCEPT !.tables = w]
    OBVIOUS
  <2> HIDE DEF new
  <2>3. /\ w \in [Tables -> DbTables] /\ w[t] = new
        /\ \A u \in Tables : u # t => w[u] = d.tables[u]
    BY <2>1 DEF DbOK
  <2> HIDE DEF w
  <2> DEFINE e == [d EXCEPT !.tables = w]
  <2>4. DbOK(e) /\ e.tables = w /\ e.facets = d.facets
    BY <1>1, <2>3
  <2> HIDE DEF e
  <2>5. Harmless(d, e)
    BY <2>1, <2>3, <2>4 DEF Harmless, Survives
  <2> QED  BY <2>2, <2>5 DEF e
<1>4. ASSUME NEW w \in [Tables -> DbTables],
             \A t \in Tables : /\ w[t].exists <=> d.tables[t].exists
                               /\ w[t].column <=> d.tables[t].column
      PROVE  Harmless(d, [d EXCEPT !.tables = w])
  <2> DEFINE e == [d EXCEPT !.tables = w]
  <2>1. DbOK(e) /\ e.tables = w /\ e.facets = d.facets
    BY <1>1
  <2> HIDE DEF e
  <2>2. Harmless(d, e)
    BY <1>4, <2>1 DEF Harmless, Survives
  <2> QED  BY <2>2 DEF e
<1> QED  BY <1>2, <1>3, <1>4

\* Only the dropped table goes.
LEMMA TableDrop ==
  ASSUME NEW d, DbOK(d), NEW t \in Tables, NEW e, e = WithoutTable(d, t)
  PROVE  DbOK(e) /\ e.facets = d.facets /\ \A u \in Tables \ {t} : Survives(d, e, u)
<1> DEFINE w == [d.tables EXCEPT ![t] = NoTable]
           x == [i \in Indices |-> IF IndexTable[i] = t THEN 0 ELSE d.indices[i]]
           y == [r \in Triggers |-> IF TriggerTable[r] = t THEN 0 ELSE d.triggers[r]]
           e1 == [d EXCEPT !.tables = w]
           e2 == [e1 EXCEPT !.indices = x]
           e3 == [e2 EXCEPT !.triggers = y]
<1>1. NoTable \in DbTables
  BY DEF NoTable, DbTables
<1>2. w \in [Tables -> DbTables] /\ \A u \in Tables \ {t} : w[u] = d.tables[u]
  BY <1>1 DEF DbOK
<1>3. x \in [Indices -> Nat] /\ y \in [Triggers -> Nat]
  BY DEF DbOK
<1>4. e = e3
  <2>1. PICK T, I, V, R, F :
          d = [tables |-> T, indices |-> I, views |-> V, triggers |-> R, facets |-> F]
    BY DEF DbOK, IsDb
  <2> QED  BY <2>1 DEF WithoutTable
<1> HIDE DEF w, x, y
<1>5. IsDb(d)
  BY DEF DbOK
<1>6. /\ IsDb(e1) /\ e1.tables = w /\ e1.indices = d.indices /\ e1.views = d.views
      /\ e1.triggers = d.triggers /\ e1.facets = d.facets
  <2> DEFINE f == e1
  <2>1. f = [d EXCEPT !.tables = w]
    OBVIOUS
  <2> HIDE DEF f
  <2>2. /\ IsDb(f) /\ f.tables = w /\ f.indices = d.indices /\ f.views = d.views
        /\ f.triggers = d.triggers /\ f.facets = d.facets
    BY <1>5, <2>1, DbFields
  <2> QED  BY <2>2 DEF f
<1> HIDE DEF e1
<1>7. /\ IsDb(e2) /\ e2.tables = e1.tables /\ e2.indices = x /\ e2.views = e1.views
      /\ e2.triggers = e1.triggers /\ e2.facets = e1.facets
  <2> DEFINE f == e2
  <2>1. f = [e1 EXCEPT !.indices = x]
    OBVIOUS
  <2> HIDE DEF f
  <2>2. /\ IsDb(f) /\ f.tables = e1.tables /\ f.indices = x /\ f.views = e1.views
        /\ f.triggers = e1.triggers /\ f.facets = e1.facets
    BY <1>6, <2>1, DbFields
  <2> QED  BY <2>2 DEF f
<1> HIDE DEF e2
<1>8. e = [e2 EXCEPT !.triggers = y]
  BY <1>4
<1> HIDE DEF e3
<1>9. /\ IsDb(e) /\ e.tables = e2.tables /\ e.indices = e2.indices /\ e.views = e2.views
      /\ e.triggers = y /\ e.facets = e2.facets
  BY <1>7, <1>8, DbFields
<1>10. /\ e.tables = w /\ e.indices = x /\ e.views = d.views /\ e.triggers = y
       /\ e.facets = d.facets /\ IsDb(e)
  BY <1>6, <1>7, <1>9
<1> HIDE <1>4, <1>8
<1>11. DbOK(e)
  BY <1>2, <1>3, <1>10 DEF DbOK
<1>12. \A u \in Tables \ {t} : Survives(d, e, u)
  BY <1>2, <1>10 DEF Survives
<1> QED  BY <1>10, <1>11, <1>12

\* Setting facet f changes the version on record only if f is the version.
LEMMA FacetChange ==
  ASSUME NEW d, DbOK(d), NEW f, NEW v, NEW e, e = [d EXCEPT !.facets = Upsert(d.facets, f, v)]
  PROVE  /\ DbOK(e) /\ \A t \in Tables : Survives(d, e, t)
         /\ VersionIn(e) = IF f = VersionFacet THEN v[1] ELSE VersionIn(d)
<1> DEFINE w == Upsert(d.facets, f, v)
<1>1. e = [d EXCEPT !.facets = w] /\ IsDb(d)
  BY DEF DbOK
<1>2. /\ DOMAIN w = DOMAIN d.facets \cup {f}
      /\ \A x \in DOMAIN w : w[x] = IF x = f THEN v ELSE d.facets[x]
  BY DEF Upsert
<1> HIDE DEF w
<1>3. /\ IsDb(e) /\ e.tables = d.tables /\ e.indices = d.indices /\ e.views = d.views
      /\ e.triggers = d.triggers /\ e.facets = w
  BY <1>1, DbFields
<1>4. DbOK(e) /\ \A t \in Tables : Survives(d, e, t)
  BY <1>3 DEF DbOK, Survives
<1>5. Find(w, VersionFacet) = IF f = VersionFacet THEN v ELSE Find(d.facets, VersionFacet)
  BY <1>2 DEF Find
<1> QED  BY <1>3, <1>4, <1>5 DEF VersionIn

\* The next position, and what a run keeps in memory.
LEMMA RunChange ==
  ASSUME NEW r, RunOK(r), NEW n \in Nat, n > 0, NEW q
  PROVE  /\ q = [r EXCEPT !.pc = n] => RunOK(q)
         /\ \A x : q = [r EXCEPT !.pc = n, !.lost = x] => RunOK(q)
         /\ \A x, t : q = [r EXCEPT !.pc = n, !.known = @ \ {t}, !.columns = @ \ {t}, !.lost = x]
                        => RunOK(q)
         /\ \A k \in SUBSET Tables : \A c \in SUBSET k :
              q = [r EXCEPT !.pc = n, !.known = k, !.columns = c] => RunOK(q)
         /\ \A x : q = [r EXCEPT !.pc = n, !.facets = x] => RunOK(q)
         /\ \A x : q = [r EXCEPT !.pc = n, !.saved = x] => RunOK(q)
<1>1. PICK P, V, F, S, K, C, L :
        /\ r = [pc |-> P, virtual |-> V, facets |-> F, saved |-> S,
                known |-> K, columns |-> C, lost |-> L]
        /\ V \in BOOLEAN /\ K \subseteq Tables /\ C \subseteq K
  BY DEF RunOK, IsRun
<1> DEFINE Made(f, s, k, c, l) ==
      [pc |-> n, virtual |-> V, facets |-> f, saved |-> s,
       known |-> k, columns |-> c, lost |-> l]
<1>2. \A f, s, k, c, l : k \subseteq Tables /\ c \subseteq k => RunOK(Made(f, s, k, c, l))
  BY <1>1 DEF RunOK, IsRun
<1>3. ASSUME q = [r EXCEPT !.pc = n]
      PROVE  RunOK(q)
  <2>1. q = Made(F, S, K, C, L)
    BY <1>1, <1>3
  <2>2. K \subseteq Tables /\ C \subseteq K
    BY <1>1
  <2>3. RunOK(Made(F, S, K, C, L))
    BY <1>2, <2>2, Zenon
  <2> HIDE DEF Made
  <2> QED  BY <2>1, <2>3, Zenon
<1>4. ASSUME NEW x, q = [r EXCEPT !.pc = n, !.lost = x]
      PROVE  RunOK(q)
  <2>1. q = Made(F, S, K, C, x)
    BY <1>1, <1>4
  <2>2. K \subseteq Tables /\ C \subseteq K
    BY <1>1
  <2>3. RunOK(Made(F, S, K, C, x))
    BY <1>2, <2>2, Zenon
  <2> HIDE DEF Made
  <2> QED  BY <2>1, <2>3, Zenon
<1>5. ASSUME NEW x, NEW t,
             q = [r EXCEPT !.pc = n, !.known = @ \ {t}, !.columns = @ \ {t}, !.lost = x]
      PROVE  RunOK(q)
  <2>1. q = Made(F, S, K \ {t}, C \ {t}, x)
    BY <1>1, <1>5
  <2>2. K \ {t} \subseteq Tables /\ C \ {t} \subseteq K \ {t}
    BY <1>1
  <2>3. RunOK(Made(F, S, K \ {t}, C \ {t}, x))
    BY <1>2, <2>2, Zenon
  <2> HIDE DEF Made
  <2> QED  BY <2>1, <2>3, Zenon
<1>6. ASSUME NEW k \in SUBSET Tables, NEW c \in SUBSET k,
             q = [r EXCEPT !.pc = n, !.known = k, !.columns = c]
      PROVE  RunOK(q)
  <2>1. q = Made(F, S, k, c, L)
    BY <1>1, <1>6
  <2>2. k \subseteq Tables /\ c \subseteq k
    BY <1>1
  <2>3. RunOK(Made(F, S, k, c, L))
    BY <1>2, <2>2, Zenon
  <2> HIDE DEF Made
  <2> QED  BY <2>1, <2>3, Zenon
<1>7. ASSUME NEW x, q = [r EXCEPT !.pc = n, !.facets = x]
      PROVE  RunOK(q)
  <2>1. q = Made(x, S, K, C, L)
    BY <1>1, <1>7
  <2>2. K \subseteq Tables /\ C \subseteq K
    BY <1>1
  <2>3. RunOK(Made(x, S, K, C, L))
    BY <1>2, <2>2, Zenon
  <2> HIDE DEF Made
  <2> QED  BY <2>1, <2>3, Zenon
<1>8. ASSUME NEW x, q = [r EXCEPT !.pc = n, !.saved = x]
      PROVE  RunOK(q)
  <2>1. q = Made(F, x, K, C, L)
    BY <1>1, <1>8
  <2>2. K \subseteq Tables /\ C \subseteq K
    BY <1>1
  <2>3. RunOK(Made(F, x, K, C, L))
    BY <1>2, <2>2, Zenon
  <2> HIDE DEF Made
  <2> QED  BY <2>1, <2>3, Zenon
<1> QED  BY <1>3, <1>4, <1>5, <1>6, <1>7, <1>8, Zenon

\* What executing a statement x of the script of s does.  The version on record
\* stays or becomes that of s, and a table goes only by a drop.
Outcome(s, x) ==
  /\ UNCHANGED <<releases, app>>
  /\ DbOK(db') /\ RunOK(run')
  /\ VersionIn(db') \in {VersionIn(db), MaxVersion(s)}
  /\ \A t \in Tables :
       \/ Survives(db, db', t)
       \/ x.op \in {"drop table", "drop table and forget"} /\ x.name = t

\* The script goes on, or gives up.
LEMMA RunGoesOn ==
  ASSUME RunOK(run), NEW x, x.at \in Nat
  PROVE  /\ Advance(x) => RunOK(run')
         /\ RunOK(Idle)
         /\ After(x) \in Nat /\ After(x) > 0
<1>1. After(x) \in Nat /\ After(x) > 0
  BY DEF After
<1> DEFINE n == After(x)
           q == run'
<1>2. Advance(x) => q = [run EXCEPT !.pc = n]
  BY DEF Advance
<1> HIDE DEF n, q
<1>3. q = [run EXCEPT !.pc = n] => RunOK(q)
  BY <1>1, RunChange DEF n
<1>4. RunOK(Idle)
  BY DEF RunOK, IsRun, Idle
<1> QED  BY <1>1, <1>2, <1>3, <1>4 DEF q

\* A statement that changes nothing of the kind.
LEMMA HarmlessOutcome ==
  ASSUME NEW s, NEW x, DbOK(db), RunOK(run'), UNCHANGED <<releases, app>>,
         db' = db \/ Harmless(db, db')
  PROVE  Outcome(s, x)
<1>1. Harmless(db, db)
  BY DEF Harmless, Survives
<1>2. Harmless(db, db')
  BY <1>1
<1> QED  BY <1>2 DEF Outcome, Harmless, VersionIn

\* The operands of the statements for views, triggers and indices.
LEMMA ObjectOperands ==
  ASSUME NEW s, NEW x, Stmt(s, {}, x)
  PROVE  /\ x.op = "drop view" => x.name \in Views
         /\ x.op = "create view" => x.name \in Views /\ x.value \in Nat
         /\ x.op = "drop trigger" => x.name \in Triggers
         /\ x.op = "create trigger" => x.name \in Triggers /\ x.value \in Nat
         /\ x.op = "drop index" => x.name \in Indices
         /\ x.op = "create index" => x.name \in Indices /\ x.value \in Nat
BY DEF Stmt, Permitted, Creates

\* Views, triggers and indices
LEMMA ObjectStatements ==
  ASSUME DbOK(db), RunOK(run), NEW s, NEW x, Stmt(s, {}, x), x.at \in Nat,
         \/ DropView(x) \/ CreateView(x) \/ DropTrigger(x) \/ CreateTrigger(x)
         \/ DropIndex(x) \/ CreateIndex(x)
  PROVE  Outcome(s, x)
<1>1. UNCHANGED <<releases, app>>
  BY DEF DropView, CreateView, DropTrigger, CreateTrigger, DropIndex, CreateIndex
<1>2. RunOK(run')
  <2>1. Advance(x) \/ run' = Idle
    BY DEF DropView, CreateView, DropTrigger, CreateTrigger, DropIndex, CreateIndex, Refused
  <2> QED  BY <2>1, RunGoesOn
<1>3. db' = db \/ Harmless(db, db')
  <2>1. CASE DropView(x)
    <3>1. x.name \in Views /\ db' = [db EXCEPT !.views[x.name] = 0]
      BY <2>1, ObjectOperands DEF DropView
    <3> QED  BY <3>1, ObjectChange
  <2>2. CASE CreateView(x)
    <3>1. x.name \in Views /\ x.value \in Nat
      BY <2>2, ObjectOperands DEF CreateView
    <3>2. db' = [db EXCEPT !.views[x.name] = x.value] \/ db' = db
      BY <2>2 DEF CreateView, Refused
    <3> QED  BY <3>1, <3>2, ObjectChange
  <2>3. CASE DropTrigger(x)
    <3>1. x.name \in Triggers /\ db' = [db EXCEPT !.triggers[x.name] = 0]
      BY <2>3, ObjectOperands DEF DropTrigger
    <3> QED  BY <3>1, ObjectChange
  <2>4. CASE CreateTrigger(x)
    <3>1. x.name \in Triggers /\ x.value \in Nat
      BY <2>4, ObjectOperands DEF CreateTrigger
    <3>2. db' = [db EXCEPT !.triggers[x.name] = x.value] \/ db' = db
      BY <2>4 DEF CreateTrigger, Refused
    <3> QED  BY <3>1, <3>2, ObjectChange
  <2>5. CASE DropIndex(x)
    <3>1. x.name \in Indices /\ db' = [db EXCEPT !.indices[x.name] = 0]
      BY <2>5, ObjectOperands DEF DropIndex
    <3> QED  BY <3>1, ObjectChange
  <2>6. CASE CreateIndex(x)
    <3>1. x.name \in Indices /\ x.value \in Nat
      BY <2>6, ObjectOperands DEF CreateIndex
    <3>2. db' = [db EXCEPT !.indices[x.name] = x.value] \/ db' = db
      BY <2>6 DEF CreateIndex, Refused
    <3> QED  BY <3>1, <3>2, ObjectChange
  <2> QED  BY <2>1, <2>2, <2>3, <2>4, <2>5, <2>6
<1> QED  BY <1>1, <1>2, <1>3, HarmlessOutcome

\* The operands of the statements for tables.
LEMMA TableOperands ==
  ASSUME NEW s, NEW x, Stmt(s, {}, x)
  PROVE  /\ x.op \in {"create kept table", "create table if unknown", "create recreate table"}
              => x.name \in Tables /\ x.value \in Nat
         /\ x.op \in {"add column if unknown", "drop table", "drop table and forget"}
              => x.name \in Tables
BY DEF Stmt, Permitted, Creates, OnTables

\* Tables are created, altered and filled
LEMMA TableStatements ==
  ASSUME DbOK(db), RunOK(run), NEW s, NEW x, Stmt(s, {}, x), x.at \in Nat,
         \/ CreateKeptTable(x) \/ CreateTableIfUnknown(x) \/ CreateRecreateTable(x)
         \/ AddColumnIfUnknown(x) \/ RunProcedure(x)
  PROVE  Outcome(s, x)
<1>1. UNCHANGED <<releases, app>>
  BY DEF CreateKeptTable, CreateTableIfUnknown, CreateRecreateTable, AddColumnIfUnknown,
         RunProcedure
<1>2. RunOK(run')
  <2>1. Advance(x) \/ run' = Idle
    BY DEF CreateKeptTable, CreateTableIfUnknown, CreateRecreateTable, AddColumnIfUnknown,
           RunProcedure, Refused
  <2> QED  BY <2>1, RunGoesOn
<1>3. db' = db \/ Harmless(db, db')
  <2>1. CASE CreateKeptTable(x)
    <3>1. x.name \in Tables /\ x.value \in Nat
      BY <2>1, TableOperands DEF CreateKeptTable
    <3>2. db' = db \/ (~db.tables[x.name].exists
                        /\ db' = [db EXCEPT !.tables[x.name] = NewTable(x.value, TRUE)])
      BY <2>1 DEF CreateKeptTable
    <3>3. ~db.tables[x.name].exists
            => Harmless(db, [db EXCEPT !.tables[x.name] = NewTable(x.value, TRUE)])
      <4>1. TRUE \in BOOLEAN
        OBVIOUS
      <4> QED  BY <3>1, <4>1, TableChange, Zenon
    <3> QED  BY <3>2, <3>3, Zenon
  <2>2. CASE CreateTableIfUnknown(x)
    <3>1. x.name \in Tables /\ x.value \in Nat
      BY <2>2, TableOperands DEF CreateTableIfUnknown
    <3>2. db' = db \/ (~db.tables[x.name].exists
                        /\ db' = [db EXCEPT !.tables[x.name] = NewTable(x.value, TRUE)])
      BY <2>2 DEF CreateTableIfUnknown
    <3>3. ~db.tables[x.name].exists
            => Harmless(db, [db EXCEPT !.tables[x.name] = NewTable(x.value, TRUE)])
      <4>1. TRUE \in BOOLEAN
        OBVIOUS
      <4> QED  BY <3>1, <4>1, TableChange, Zenon
    <3> QED  BY <3>2, <3>3, Zenon
  <2>3. CASE CreateRecreateTable(x)
    <3>1. x.name \in Tables /\ x.value \in Nat
      BY <2>3, TableOperands DEF CreateRecreateTable
    <3>2. db' = db \/ (~db.tables[x.name].exists
                        /\ db' = [db EXCEPT !.tables[x.name] = NewTable(x.value, FALSE)])
      BY <2>3 DEF CreateRecreateTable, Refused
    <3>3. ~db.tables[x.name].exists
            => Harmless(db, [db EXCEPT !.tables[x.name] = NewTable(x.value, FALSE)])
      <4>1. FALSE \in BOOLEAN
        OBVIOUS
      <4> QED  BY <3>1, <4>1, TableChange, Zenon
    <3> QED  BY <3>2, <3>3, Zenon
  <2>4. CASE AddColumnIfUnknown(x)
    <3>1. x.name \in Tables
      BY <2>4, TableOperands DEF AddColumnIfUnknown
    <3>2. db' = db \/ db' = [db EXCEPT !.tables[x.name].column = TRUE]
      BY <2>4 DEF AddColumnIfUnknown, Refused
    <3> QED  BY <3>1, <3>2, TableChange
  <2>5. CASE RunProcedure(x)
    <3> DEFINE fills(t) == x.name[1] = "refill" /\ Recreated(Current, t)
                           /\ GroupOf(Current, t) = x.value /\ db.tables[t].exists
               w == [t \in Tables |-> IF fills(t) THEN [db.tables[t] EXCEPT !.filled = TRUE]
                                      ELSE db.tables[t]]
    <3>1. db' = [db EXCEPT !.tables = w]
      BY <2>5 DEF RunProcedure
    <3> HIDE DEF fills
    <3>2. ASSUME NEW d \in DbTables
          PROVE  /\ [d EXCEPT !.filled = TRUE] \in DbTables
                 /\ [d EXCEPT !.filled = TRUE].exists <=> d.exists
                 /\ [d EXCEPT !.filled = TRUE].column <=> d.column
      BY DEF DbTables
    <3>3. \A t \in Tables : db.tables[t] \in DbTables
      BY DEF DbOK
    <3>4. \A t \in Tables : /\ w[t] \in DbTables
                            /\ w[t].exists <=> db.tables[t].exists
                            /\ w[t].column <=> db.tables[t].column
      <4> TAKE t \in Tables
      <4>1. CASE fills(t)
        <5>1. w[t] = [db.tables[t] EXCEPT !.filled = TRUE]
          BY <4>1
        <5> HIDE DEF w
        <5> QED  BY <3>2, <3>3, <5>1
      <4>2. CASE ~fills(t)
        <5>1. w[t] = db.tables[t]
          BY <4>2
        <5> HIDE DEF w
        <5> QED  BY <3>3, <5>1
      <4> QED  BY <4>1, <4>2
    <3>5. w = [t \in Tables |-> w[t]]
      OBVIOUS
    <3> HIDE DEF w
    <3>6. w \in [Tables -> DbTables]
      BY <3>4, <3>5
    <3> QED  BY <3>1, <3>4, <3>6, TableChange
  <2> QED  BY <2>1, <2>2, <2>3, <2>4, <2>5
<1> QED  BY <1>1, <1>2, <1>3, HarmlessOutcome

\* Tables are dropped: only the one that is named goes.
LEMMA DropStatements ==
  ASSUME DbOK(db), RunOK(run), NEW s, NEW x, Stmt(s, {}, x), x.at \in Nat,
         DropTable(x) \/ DropTableAndForget(x)
  PROVE  Outcome(s, x)
<1>1. UNCHANGED <<releases, app>> /\ x.op \in {"drop table", "drop table and forget"}
      /\ db' = WithoutTable(db, x.name)
  BY DEF DropTable, DropTableAndForget
<1>2. x.name \in Tables
  BY <1>1, TableOperands
<1>3. After(x) \in Nat /\ After(x) > 0
  BY RunGoesOn
<1>4. RunOK(run')
  <2> DEFINE q == run'
             n == After(x)
             l == run.lost \cup LostWith(x.name)
             u == x.name
  <2> DEFINE A == q = [run EXCEPT !.pc = n, !.lost = l]
             B == q = [run EXCEPT !.pc = n, !.known = @ \ {u}, !.columns = @ \ {u}, !.lost = l]
  <2>1. A \/ B
    BY DEF DropTable, DropTableAndForget
  <2>2. n \in Nat /\ n > 0
    BY <1>3
  <2> HIDE DEF q, n, l, u
  <2>3. A => RunOK(q)
    BY <2>2, RunChange, Zenon
  <2>4. B => RunOK(q)
    BY <2>2, RunChange, Zenon
  <2> QED  BY <2>1, <2>3, <2>4 DEF q
<1>5. DbOK(db') /\ db'.facets = db.facets /\ \A u \in Tables \ {x.name} : Survives(db, db', u)
  <2> DEFINE e == db'
  <2>1. e = WithoutTable(db, x.name)
    BY <1>1
  <2> HIDE DEF e
  <2>2. DbOK(e) /\ e.facets = db.facets /\ \A u \in Tables \ {x.name} : Survives(db, e, u)
    BY <1>2, <2>1, TableDrop
  <2> QED  BY <2>2 DEF e
<1> QED  BY <1>1, <1>4, <1>5 DEF Outcome, VersionIn

\* The dictionaries are filled, and facets are written and forgotten.
LEMMA FacetStatements ==
  ASSUME DbOK(db), RunOK(run), NEW s, NEW x, Stmt(s, {}, x), x.at \in Nat,
         GetTableDefs(x) \/ SetFacetVersion(x) \/ SetVersionCrc(x) \/ ForgetSavedFacet(x)
  PROVE  Outcome(s, x)
<1> DEFINE q == run'
           e == db'
           n == After(x)
<1>1. n \in Nat /\ n > 0
  BY RunGoesOn
<1>2. CASE GetTableDefs(x)
  <2> DEFINE k == {t \in Tables : db.tables[t].exists}
             c == {t \in Tables : db.tables[t].exists /\ db.tables[t].column}
  <2>1. q = [run EXCEPT !.pc = n, !.known = k, !.columns = c]
    BY <1>2 DEF GetTableDefs
  <2>2. k \in SUBSET Tables /\ c \in SUBSET k
    OBVIOUS
  <2>3. db' = db /\ UNCHANGED <<releases, app>>
    BY <1>2 DEF GetTableDefs
  <2> HIDE DEF q, n, k, c
  <2>4. RunOK(q)
    BY <1>1, <2>1, <2>2, RunChange
  <2> QED  BY <2>3, <2>4, HarmlessOutcome DEF q
<1>3. CASE ForgetSavedFacet(x)
  <2> DEFINE v == [f \in DOMAIN run.saved \ {x.name} |-> run.saved[f]]
  <2>1. q = [run EXCEPT !.pc = n, !.saved = v]
    BY <1>3 DEF ForgetSavedFacet
  <2>2. db' = db /\ UNCHANGED <<releases, app>>
    BY <1>3 DEF ForgetSavedFacet
  <2> HIDE DEF q, n, v
  <2>3. RunOK(q)
    BY <1>1, <2>1, RunChange
  <2> QED  BY <2>2, <2>3, HarmlessOutcome DEF q
<1>4. CASE SetFacetVersion(x) \/ SetVersionCrc(x)
  <2>1. UNCHANGED <<releases, app>>
    BY <1>4 DEF SetFacetVersion, SetVersionCrc
  <2>2. e = [db EXCEPT !.facets = Upsert(db.facets, x.name, x.value)]
    BY <1>4 DEF SetFacetVersion, SetVersionCrc
  <2>3. RunOK(q)
    <3> DEFINE v == Upsert(run.facets, x.name, x.value)
    <3>1. q = [run EXCEPT !.pc = n, !.facets = v] \/ q = [run EXCEPT !.pc = n]
      BY <1>4 DEF SetFacetVersion, SetVersionCrc, Advance
    <3> HIDE DEF q, n, v
    <3> QED  BY <1>1, <3>1, RunChange
  <2>4. x.name = VersionFacet => x.value = Number(MaxVersion(s))
    BY <1>4 DEF SetFacetVersion, SetVersionCrc, Stmt, Permitted
  <2>5. x.name = VersionFacet => x.value[1] = MaxVersion(s)
    BY <2>4 DEF Number
  <2> DEFINE f == x.name
             v == x.value
  <2>6. e = [db EXCEPT !.facets = Upsert(db.facets, f, v)]
    BY <2>2
  <2>7. f = VersionFacet => v[1] = MaxVersion(s)
    BY <2>5
  <2> HIDE DEF q, e, n, f, v
  <2>8. /\ DbOK(e) /\ \A t \in Tables : Survives(db, e, t)
        /\ VersionIn(e) = IF f = VersionFacet THEN v[1] ELSE VersionIn(db)
    BY <2>6, FacetChange
  <2> QED  BY <2>1, <2>3, <2>7, <2>8 DEF Outcome, q, e
<1> QED  BY <1>2, <1>3, <1>4

\* Any statement
LEMMA ExecuteOutcome ==
  ASSUME DbOK(db), RunOK(run), NEW s, NEW x, Stmt(s, {}, x), x.at \in Nat, Execute(x)
  PROVE  Outcome(s, x)
<1>1. CASE \/ DropView(x) \/ CreateView(x) \/ DropTrigger(x) \/ CreateTrigger(x)
           \/ DropIndex(x) \/ CreateIndex(x)
  BY <1>1, ObjectStatements
<1>2. CASE \/ CreateKeptTable(x) \/ CreateTableIfUnknown(x) \/ CreateRecreateTable(x)
           \/ AddColumnIfUnknown(x) \/ RunProcedure(x)
  BY <1>2, TableStatements
<1>3. CASE DropTable(x) \/ DropTableAndForget(x)
  BY <1>3, DropStatements
<1>4. CASE GetTableDefs(x) \/ SetFacetVersion(x) \/ SetVersionCrc(x) \/ ForgetSavedFacet(x)
  BY <1>4, FacetStatements
<1> QED  BY <1>1, <1>2, <1>3, <1>4 DEF Execute

\* All conditions of statement k of a script hold.
Opens(script, k) == \A n \in DOMAIN script[k].when : Holds(script[k].when[n])

\* The statement that is due is the first one from here on whose conditions hold.
LEMMA DueAt ==
  ASSUME RunOK(run), Current \in Schemas, NEW x \in Due
  PROVE  /\ Running /\ run.virtual \in BOOLEAN /\ run.pc \in Nat
         /\ \E k \in run.pc .. Len(Script(Current, run.virtual)) :
              /\ x = Script(Current, run.virtual)[k]
              /\ Opens(Script(Current, run.virtual), k)
              /\ \A j \in run.pc .. k - 1 : ~Opens(Script(Current, run.virtual), j)
<1> DEFINE script == Script(Current, run.virtual)
           rest == run.pc .. Len(script)
           First(k) == Opens(script, k) /\ \A j \in run.pc .. k - 1 : ~Opens(script, j)
           opens == {k \in rest : Opens(script, k)}
<1>1. Running
  BY DEF Due
<1>2. run.virtual \in BOOLEAN /\ run.pc \in Nat /\ run.pc > 0
  BY <1>1 DEF RunOK, Running
<1>3. WellFormed(Current)
  BY UpgradeAssumption
<1>4. Scripts[Current][run.virtual] = script
  BY <1>2 DEF Scripts
<1>5. Len(script) \in Nat
  BY <1>2, <1>3, ScriptLawful
<1>6. x \in DueIn(script)
  BY <1>1, <1>4 DEF Due
<1>7. opens # {} /\ x = script[CHOOSE k \in rest : First(k)]
  <2> HIDE DEF script
  <2> QED  BY <1>6 DEF DueIn, Opens
<1> HIDE DEF script
<1>8. \E k \in rest : First(k)
  <2>1. opens \subseteq Nat
    BY <1>2, <1>5
  <2>2. PICK m \in opens : \A k \in opens : m <= k
    BY <1>7, <2>1, LeastMember
  <2>3. m \in rest /\ Opens(script, m)
    OBVIOUS
  <2>4. ASSUME NEW j \in run.pc .. m - 1 PROVE ~Opens(script, j)
    <3>1. j \in rest /\ ~(m <= j)
      BY <1>2, <1>5, <2>3
    <3> QED  BY <2>2, <3>1
  <2> QED  BY <2>3, <2>4
<1>9. PICK k \in rest : x = script[k] /\ First(k)
  <2> HIDE DEF First
  <2> QED  BY <1>7, <1>8
<1> QED  BY <1>1, <1>2, <1>9 DEF script

\* The statement that is due is a statement of the installed release's script.
LEMMA DueStatement ==
  ASSUME RunOK(run), Current \in Schemas, NEW x \in Due
  PROVE  Running /\ Stmt(Current, {}, x) /\ x.at \in Nat
<1>1. /\ Running /\ run.virtual \in BOOLEAN
      /\ \E k \in run.pc .. Len(Script(Current, run.virtual)) :
           x = Script(Current, run.virtual)[k]
  BY DueAt
<1>2. run.pc \in Nat /\ run.pc > 0
  BY <1>1, DueAt DEF Running
<1>3. WellFormed(Current)
  BY UpgradeAssumption
<1> DEFINE script == Script(Current, run.virtual)
<1>4. Len(script) \in Nat
      /\ \A k \in 1..Len(script) : Stmt(Current, {}, script[k]) /\ script[k].at = k
  BY <1>1, <1>3, ScriptLawful
<1>5. PICK k \in run.pc .. Len(script) : x = script[k]
  BY <1>1
<1> HIDE DEF script
<1>6. k \in 1..Len(script)
  BY <1>2, <1>4
<1> QED  BY <1>1, <1>4, <1>5, <1>6

-----------------------------------------------------------------------------
(* The invariant. *)

\* The types, and what DowngradeRefused needs to be inductive: a script that is
\* running belongs to a release at least as late as the version on record.
UpgradeInv ==
  /\ releases \in Seq(Schemas) /\ Len(releases) \in 1 .. MaxReleases
  /\ app \in DOMAIN releases
  /\ DbOK(db) /\ RunOK(run)
  /\ VersionIn(db) \in Int
  /\ run.pc > 0 => VersionIn(db) <= MaxVersion(Current)

\* The installed release is a schema the compiler accepted.
LEMMA CurrentSchema ==
  ASSUME UpgradeInv
  PROVE  Current \in Schemas /\ WellFormed(Current) /\ MaxVersion(Current) \in Nat
<1>1. Current \in Schemas
  BY DEF UpgradeInv, Current
<1> QED  BY <1>1, UpgradeAssumption, MaxVersionType

\* A new device
LEMMA InitInv ==
  ASSUME Init
  PROVE  UpgradeInv
<1>1. releases \in Seq(Schemas) /\ Len(releases) \in 1 .. MaxReleases /\ app \in DOMAIN releases
  <2>1. PICK s \in Schemas : releases = <<s>>
    BY DEF Init
  <2>2. MaxReleases \in Nat \ {0}
    BY UpgradeAssumption
  <2> QED  BY <2>1, <2>2 DEF Init
<1>2. DbOK(db)
  <2>1. NoTable \in DbTables
    BY DEF NoTable, DbTables
  <2> QED  BY <2>1 DEF Init, DbOK, IsDb
<1>3. RunOK(run) /\ run.pc = 0
  BY DEF Init, RunOK, IsRun, Idle
<1>4. VersionIn(db) = -1
  <2>1. db.facets = << >>
    BY DEF Init
  <2>2. Find(db.facets, VersionFacet) = NoFacet
    BY <2>1 DEF Find
  <2> QED  BY <2>2 DEF VersionIn, NoFacet, Number
<1> QED  BY <1>1, <1>2, <1>3, <1>4 DEF UpgradeInv

\* What a step of a script does: the script belongs to the installed release,
\* which is not a downgrade.
LEMMA StepOutcome ==
  ASSUME UpgradeInv, NEW x \in Due, Execute(x)
  PROVE  /\ Outcome(Current, x) /\ Stmt(Current, {}, x)
         /\ VersionIn(db) <= MaxVersion(Current)
<1>1. Running /\ Stmt(Current, {}, x) /\ x.at \in Nat
  BY CurrentSchema, DueStatement DEF UpgradeInv
<1>2. Outcome(Current, x)
  BY <1>1, ExecuteOutcome DEF UpgradeInv
<1> QED  BY <1>1, <1>2 DEF UpgradeInv, Running

\* Every step keeps the invariant.
LEMMA NextInv ==
  ASSUME UpgradeInv, [Next]_vars
  PROVE  UpgradeInv'
<1>1. ASSUME NEW s \in Schemas, Release(s) PROVE UpgradeInv'
  <2>1. /\ ~(run.pc > 0) /\ Len(releases) < MaxReleases /\ releases' = Append(releases, s)
        /\ UNCHANGED <<app, db, run, ghost>>
    BY <1>1 DEF Release, Running
  <2>2. releases' \in Seq(Schemas) /\ Len(releases') \in 1 .. MaxReleases
        /\ app' \in DOMAIN releases'
    <3>1. MaxReleases \in Nat
      BY UpgradeAssumption
    <3> QED  BY <2>1, <3>1 DEF UpgradeInv
  <2>3. DbOK(db)' /\ RunOK(run)' /\ VersionIn(db)' \in Int /\ ~(run'.pc > 0)
    BY <2>1 DEF UpgradeInv
  <2> QED  BY <2>2, <2>3 DEF UpgradeInv
<1>2. ASSUME NEW i \in DOMAIN releases, Install(i) PROVE UpgradeInv'
  <2>1. ~(run.pc > 0) /\ app' = i /\ UNCHANGED <<releases, db, run>>
    BY <1>2 DEF Install, Running
  <2> QED  BY <2>1 DEF UpgradeInv
<1>3. ASSUME NEW v \in BOOLEAN, Start(v) PROVE UpgradeInv'
  <2>1. /\ ~IsDowngrade /\ UNCHANGED <<releases, app, db>>
        /\ run' = [Idle EXCEPT !.pc = 1, !.virtual = v, !.facets = db.facets, !.saved = db.facets]
    BY <1>3 DEF Start
  <2>2. RunOK(run')
    <3> DEFINE f == db.facets
               q == run'
    <3>1. q = [pc |-> 1, virtual |-> v, facets |-> f, saved |-> f,
               known |-> {}, columns |-> {}, lost |-> {}]
      BY <2>1 DEF Idle
    <3> HIDE DEF f, q
    <3>2. RunOK(q)
      BY <3>1 DEF RunOK, IsRun
    <3> QED  BY <3>2 DEF q
  <2>3. ~(VersionIn(db) > MaxVersion(Current))
    BY <2>1 DEF IsDowngrade, RecordedVersion, VersionIn
  <2>4. VersionIn(db) <= MaxVersion(Current)
    BY <2>3, CurrentSchema DEF UpgradeInv
  <2>5. VersionIn(db') = VersionIn(db) /\ Current' = Current /\ DbOK(db')
    BY <2>1 DEF Current, UpgradeInv
  <2> QED  BY <2>1, <2>2, <2>4, <2>5 DEF UpgradeInv
<1>4. ASSUME NEW x \in Due, Execute(x) PROVE UpgradeInv'
  <2>1. Outcome(Current, x) /\ VersionIn(db) <= MaxVersion(Current)
    BY <1>4, StepOutcome
  <2>2. VersionIn(db') \in Int /\ VersionIn(db') <= MaxVersion(Current)
    <3> DEFINE m == MaxVersion(Current)
               old == VersionIn(db)
               new == VersionIn(db')
    <3>1. new \in {old, m} /\ old <= m /\ old \in Int /\ m \in Nat
      BY <2>1, CurrentSchema DEF Outcome, UpgradeInv
    <3> HIDE DEF m, old, new
    <3>2. new \in Int /\ new <= m
      BY <3>1
    <3> QED  BY <3>2 DEF m, new
  <2>3. UNCHANGED <<releases, app>> /\ Current' = Current /\ DbOK(db') /\ RunOK(run')
    BY <2>1 DEF Outcome, Current
  <2> QED  BY <2>2, <2>3 DEF UpgradeInv
<1>5. ASSUME UNCHANGED <<releases, app, db>>, run' = Idle PROVE UpgradeInv'
  <2>1. RunOK(run') /\ run'.pc = 0
    BY <1>5 DEF RunOK, IsRun, Idle
  <2>2. VersionIn(db') = VersionIn(db) /\ DbOK(db')
    BY <1>5 DEF UpgradeInv
  <2> QED  BY <1>5, <2>1, <2>2 DEF UpgradeInv
<1>6. Step => UpgradeInv'
  <2> SUFFICES ASSUME Step PROVE UpgradeInv'
    OBVIOUS
  <2>1. (\E x \in Due : Execute(x)) \/ Finish
    BY DEF Step
  <2> QED  BY <1>4, <1>5, <2>1 DEF Finish
<1>7. Crash => UpgradeInv'
  BY <1>5 DEF Crash
<1>8. CASE UNCHANGED vars
  <2>1. UNCHANGED <<releases, app, db, run>>
    BY <1>8 DEF vars
  <2>2. VersionIn(db') = VersionIn(db) /\ Current' = Current /\ DbOK(db') /\ RunOK(run')
    BY <2>1 DEF Current, UpgradeInv
  <2> QED  BY <2>1, <2>2 DEF UpgradeInv
<1> QED  BY <1>1, <1>2, <1>3, <1>6, <1>7, <1>8 DEF Next

\* The database changes only by a statement of a script.
LEMMA OnlyScripts ==
  ASSUME [Next]_vars, db' # db
  PROVE  \E x \in Due : Execute(x)
<1>1. Step
  BY DEF Next, Release, Install, Start, Crash, vars
<1>2. ~Finish
  BY DEF Finish
<1> QED  BY <1>1, <1>2 DEF Step

\* For every family of schemas, the state of the device has the shape that the
\* actions expect, and nothing of a run stays in memory when no script is running.
THEOREM TypesHold == Spec => []UpgradeTypeOK
<1>1. UpgradeInv => UpgradeTypeOK
  BY DEF UpgradeInv, UpgradeTypeOK, DbOK, RunOK, Running
<1> QED  BY <1>1, InitInv, NextInv, PTL DEF Spec

\* For every family of schemas, a script whose schema is older than the version
\* on record never touches the database, and the version on record never goes
\* back, however the script is interrupted and whatever is installed in between.
THEOREM DowngradesAreRefused == Spec => DowngradeRefused
<1>1. ASSUME UpgradeInv, [Next]_vars, db' # db
      PROVE  RecordedVersion <= MaxVersion(Current) /\ RecordedVersion' >= RecordedVersion
  <2>1. PICK x \in Due : Execute(x)
    BY <1>1, OnlyScripts
  <2>2. Outcome(Current, x) /\ VersionIn(db) <= MaxVersion(Current)
    BY <1>1, <2>1, StepOutcome
  <2>3. VersionIn(db') >= VersionIn(db)
    <3> DEFINE m == MaxVersion(Current)
               old == VersionIn(db)
               new == VersionIn(db')
    <3>1. new \in {old, m} /\ old <= m /\ old \in Int /\ m \in Nat
      BY <1>1, <2>2, CurrentSchema DEF Outcome, UpgradeInv
    <3> HIDE DEF m, old, new
    <3>2. new >= old
      BY <3>1
    <3> QED  BY <3>2 DEF old, new
  <2> QED  BY <2>2, <2>3 DEF RecordedVersion, VersionIn
<1>2. UpgradeInv /\ [Next]_vars
        => [db' # db => RecordedVersion <= MaxVersion(Current)
                          /\ RecordedVersion' >= RecordedVersion]_vars
  BY <1>1
<1> QED  BY <1>2, InitInv, NextInv, PTL DEF Spec, DowngradeRefused

\* While a release in which no table left @recreate is installed, its tables
\* that are live and not recreated stay, with their columns.
LiveTablesStay ==
  [][\A t \in Tables :
       /\ ~LeavesRecreate(Current)
       /\ db.tables[t].exists /\ Live(Current, t) /\ ~Recreated(Current, t)
       => db'.tables[t].exists /\ (db.tables[t].column => db'.tables[t].column)]_vars

\* No statement of a script can drop such a table.
LEMMA LiveTableStays ==
  ASSUME UpgradeInv, [Next]_vars, NEW t \in Tables, ~LeavesRecreate(Current),
         db.tables[t].exists, Live(Current, t), ~Recreated(Current, t)
  PROVE  db'.tables[t].exists /\ (db.tables[t].column => db'.tables[t].column)
<1>1. CASE db' = db
  BY <1>1
<1>2. CASE db' # db
  <2>1. PICK x \in Due : Execute(x)
    BY <1>2, OnlyScripts
  <2>2. Outcome(Current, x) /\ Stmt(Current, {}, x)
    BY <2>1, StepOutcome
  <2>3. ~(x.op = "drop table" /\ x.name = t) /\ x.op # "drop table and forget"
    BY <2>2 DEF Stmt, Permitted
  <2>4. Survives(db, db', t)
    BY <2>2, <2>3 DEF Outcome
  <2> QED  BY <2>4 DEF Survives
<1> QED  BY <1>1, <1>2

\* For every family of schemas, the script of a release in which no table left
\* @recreate drops no live table but recreated ones.
THEOREM ScriptsDropNoLiveTable == Spec => LiveTablesStay
<1>1. UpgradeInv /\ [Next]_vars =>
        [\A t \in Tables :
           /\ ~LeavesRecreate(Current)
           /\ db.tables[t].exists /\ Live(Current, t) /\ ~Recreated(Current, t)
           => db'.tables[t].exists /\ (db.tables[t].column => db'.tables[t].column)]_vars
  BY LiveTableStays
<1> QED  BY <1>1, InitInv, NextInv, PTL DEF Spec, LiveTablesStay

\* For every family of schemas that moves no table from @recreate to @create, a
\* table that keeps its data is never dropped and keeps its column, across any
\* releases, interruptions and installs.
THEOREM DataSurvives ==
  ASSUME \A s \in Schemas : ~LeavesRecreate(s)
  PROVE  Spec => PreciousDataSurvives
<1>1. ASSUME UpgradeInv, [Next]_vars, NEW t \in Tables,
             db.tables[t].exists, db.tables[t].kept, Live(Current, t),
             \A k \in 1 .. app : ~Recreated(releases[k], t)
      PROVE  db'.tables[t].exists /\ (db.tables[t].column => db'.tables[t].column)
  <2>1. app \in 1 .. app
    BY <1>1 DEF UpgradeInv
  <2>2. ~Recreated(Current, t) /\ ~LeavesRecreate(Current)
    BY <1>1, <2>1, CurrentSchema DEF Current
  <2> QED  BY <1>1, <2>2, LiveTableStays
<1>2. UpgradeInv /\ [Next]_vars =>
        [\A t \in Tables :
           /\ db.tables[t].exists /\ db.tables[t].kept /\ Live(Current, t)
           /\ \A k \in 1 .. app : ~Recreated(releases[k], t)
           => db'.tables[t].exists /\ (db.tables[t].column => db'.tables[t].column)]_vars
  BY <1>1
<1> QED  BY <1>2, InitInv, NextInv, PTL DEF Spec, PreciousDataSurvives

-----------------------------------------------------------------------------
(* What the statements of a script need of those before them. *)

\* What may hold while a script runs: the dictionaries in memory list only what
\* is there, table t is there, and so is its added column.
Dictionary == <<"dictionary">>
TableFact(t) == <<"table", t>>
ColumnFact(t) == <<"column", t>>

\* The facts that a statement establishes, ends and relies on.
Makes(x) ==
  CASE x.op = "get table defs" -> {Dictionary}
    [] x.op = "create table if unknown" -> {TableFact(x.name)}
    [] x.op = "add column if unknown" -> {ColumnFact(x.name)}
    [] OTHER -> {}

Breaks(x) ==
  CASE x.op = "drop table" -> {Dictionary, TableFact(x.name), ColumnFact(x.name)}
    [] x.op = "drop table and forget" -> {TableFact(x.name), ColumnFact(x.name)}
    [] OTHER -> {}

Needs(x) ==
  CASE x.op \in {"create table if unknown", "add column if unknown"} -> {Dictionary}
    [] x.op = "run" ->
         {TableFact(t) : t \in {u \in Tables : x.name \in {TableProc(u, "create"),
                                                           TableProc(u, "delete")}}}
           \cup {ColumnFact(t) : t \in {u \in Tables : x.name = TableProc(u, "column")}}
    [] OTHER -> {}

\* a[k]: what is known before statement k of q.  What establishes a fact is not
\* conditional, so that it is never passed over.
Outline(q, a) ==
  /\ a = [k \in 1..(Len(q) + 1) |-> a[k]]
  /\ \A k \in 1..Len(q) :
       /\ Needs(q[k]) \subseteq a[k]
       /\ a[k + 1] \subseteq (a[k] \ Breaks(q[k])) \cup Makes(q[k])
       /\ IsStatement(q[k]) /\ (Makes(q[k]) # {} => q[k].when = << >>)

\* Where E is known, q finds what it needs, and F is known after it.
Ready(E, q, F) ==
  /\ q \in Seq(ToSet(q))
  /\ \E a : Outline(q, a) /\ a[1] \subseteq E /\ F \subseteq a[Len(q) + 1]

\* Sequences over any set are sequences over their own members.
LEMMA OwnSet ==
  ASSUME NEW S, NEW q \in Seq(S)
  PROVE  /\ q \in Seq(ToSet(q)) /\ ToSet(q) \subseteq S
         /\ Len(q) \in Nat /\ DOMAIN q = 1..Len(q) /\ \A k \in 1..Len(q) : q[k] \in ToSet(q)
<1>1. \A k \in 1..Len(q) : q[k] \in S
  OBVIOUS
<1>2. ToSet(q) = {q[k] : k \in 1..Len(q)} /\ Len(q) \in Nat /\ DOMAIN q = 1..Len(q)
  BY DEF ToSet
<1>3. q = [k \in 1..Len(q) |-> q[k]] /\ \A k \in 1..Len(q) : q[k] \in ToSet(q)
  BY <1>2
<1>4. q \in Seq(ToSet(q))
  BY <1>2, <1>3
<1> QED  BY <1>1, <1>2, <1>3, <1>4

\* No statements at all need nothing and keep what is known.
LEMMA ReadyNone ==
  ASSUME NEW E, NEW F, F \subseteq E
  PROVE  Ready(E, << >>, F)
<1> DEFINE a == [k \in 1..(Len(<< >>) + 1) |-> E]
<1>1. << >> \in Seq(ToSet(<< >>)) /\ Len(<< >>) = 0
  BY DEF ToSet
<1>2. a[1] = E /\ a = [k \in 1..(Len(<< >>) + 1) |-> a[k]]
  OBVIOUS
<1> HIDE DEF a
<1>3. Outline(<< >>, a)
  BY <1>1, <1>2 DEF Outline
<1> QED  BY <1>1, <1>2, <1>3 DEF Ready

\* One statement.
LEMMA ReadyOne ==
  ASSUME NEW E, NEW F, NEW x, IsStatement(x), Needs(x) \subseteq E,
         Makes(x) # {} => x.when = << >>,
         F \subseteq (E \ Breaks(x)) \cup Makes(x)
  PROVE  Ready(E, <<x>>, F)
<1> DEFINE q == <<x>>
           after == (E \ Breaks(x)) \cup Makes(x)
           a == [k \in 1..(Len(q) + 1) |-> IF k = 1 THEN E ELSE after]
<1>1. q \in Seq({x}) /\ Len(q) = 1 /\ q[1] = x
  OBVIOUS
<1>2. q \in Seq(ToSet(q))
  BY <1>1, OwnSet
<1> HIDE DEF q, after
<1>3. a[1] = E /\ a[2] = after /\ a = [k \in 1..(Len(q) + 1) |-> a[k]]
  BY <1>1
<1> HIDE DEF a
<1>4. \A k \in 1..Len(q) : k = 1 /\ k + 1 = 2 /\ q[k] = x
  BY <1>1
<1>5. Outline(q, a)
  BY <1>3, <1>4 DEF Outline, after
<1>6. a[1] \subseteq E /\ F \subseteq a[Len(q) + 1]
  BY <1>1, <1>3 DEF after
<1> QED  BY <1>2, <1>5, <1>6 DEF Ready, q

\* One part after another
LEMMA ReadyConcat ==
  ASSUME NEW E, NEW F, NEW G, NEW p, NEW q, Ready(E, p, F), Ready(F, q, G)
  PROVE  Ready(E, p \o q, G)
<1>1. PICK a : Outline(p, a) /\ a[1] \subseteq E /\ F \subseteq a[Len(p) + 1]
  BY DEF Ready
<1>2. PICK b : Outline(q, b) /\ b[1] \subseteq F /\ G \subseteq b[Len(q) + 1]
  BY DEF Ready
<1> DEFINE P == ToSet(p)
           Q == ToSet(q)
           m == Len(p)
           n == Len(q)
           r == p \o q
<1>3. p \in Seq(P) /\ q \in Seq(Q)
  BY DEF Ready
<1>4. m \in Nat /\ n \in Nat /\ r \in Seq(P \cup Q) /\ Len(r) = m + n
      /\ (\A k \in 1..m : r[k] = p[k]) /\ (\A k \in 1..n : r[m + k] = q[k])
  <2> HIDE DEF P, Q
  <2> QED  BY <1>3
<1>5. r \in Seq(ToSet(r))
  BY <1>4, OwnSet
<1> DEFINE c == [k \in 1..(Len(r) + 1) |-> IF k <= m THEN a[k] ELSE b[k - m]]
<1> HIDE DEF P, Q, r, m, n
<1>6. c = [k \in 1..(Len(r) + 1) |-> c[k]]
      /\ (\A k \in 1..m : c[k] = a[k]) /\ \A k \in 1..(n + 1) : c[m + k] = b[k]
  BY <1>4
<1> HIDE DEF c
<1>7. \A k \in 1..m :
        /\ Needs(p[k]) \subseteq a[k]
        /\ a[k + 1] \subseteq (a[k] \ Breaks(p[k])) \cup Makes(p[k])
        /\ IsStatement(p[k]) /\ (Makes(p[k]) # {} => p[k].when = << >>)
  BY <1>1 DEF Outline, m
<1>8. \A k \in 1..n :
        /\ Needs(q[k]) \subseteq b[k]
        /\ b[k + 1] \subseteq (b[k] \ Breaks(q[k])) \cup Makes(q[k])
        /\ IsStatement(q[k]) /\ (Makes(q[k]) # {} => q[k].when = << >>)
  BY <1>2 DEF Outline, n
<1>9. c[m + 1] \subseteq a[m + 1]
  <2>1. 1 \in 1..(n + 1)
    BY <1>4
  <2>2. c[m + 1] = b[1]
    BY <1>6, <2>1
  <2> QED  BY <1>1, <1>2, <2>2 DEF m
<1>10. ASSUME NEW k \in 1..Len(r)
       PROVE  /\ Needs(r[k]) \subseteq c[k]
              /\ c[k + 1] \subseteq (c[k] \ Breaks(r[k])) \cup Makes(r[k])
              /\ IsStatement(r[k]) /\ (Makes(r[k]) # {} => r[k].when = << >>)
  <2>1. CASE k \in 1..m
    <3>1. r[k] = p[k] /\ c[k] = a[k]
      BY <1>4, <1>6, <2>1
    <3>2. c[k + 1] \subseteq a[k + 1]
      <4>1. CASE k = m
        BY <1>9, <4>1
      <4>2. CASE k # m
        <5>1. k + 1 \in 1..m
          BY <1>4, <2>1, <4>2
        <5> QED  BY <1>6, <5>1
      <4> QED  BY <4>1, <4>2
    <3> QED  BY <1>7, <2>1, <3>1, <3>2
  <2>2. CASE k \notin 1..m
    <3> DEFINE i == k - m
    <3>1. i \in 1..n /\ k = m + i /\ k + 1 = m + (i + 1) /\ i + 1 \in 1..(n + 1)
          /\ i \in 1..(n + 1)
      BY <1>4, <2>2
    <3> HIDE DEF i
    <3>2. r[k] = q[i] /\ c[k] = b[i] /\ c[k + 1] = b[i + 1]
      BY <1>4, <1>6, <3>1
    <3> QED  BY <1>8, <3>1, <3>2
  <2> QED  BY <2>1, <2>2
<1>11. Outline(r, c)
  BY <1>6, <1>10 DEF Outline
<1>12. c[1] \subseteq E
  <2>1. CASE m = 0
    <3>1. c[1] \subseteq a[1]
      BY <1>9, <2>1
    <3> QED  BY <1>1, <3>1
  <2>2. CASE m # 0
    <3>1. 1 \in 1..m
      BY <1>4, <2>2
    <3>2. c[1] = a[1]
      BY <1>6, <3>1
    <3> QED  BY <1>1, <3>2
  <2> QED  BY <2>1, <2>2
<1>13. G \subseteq c[Len(r) + 1]
  <2>1. c[Len(r) + 1] = b[n + 1]
    <3>1. Len(r) + 1 = m + (n + 1) /\ n + 1 \in 1..(n + 1)
      BY <1>4
    <3> QED  BY <1>6, <3>1
  <2> QED  BY <1>2, <2>1 DEF n
<1> QED  BY <1>5, <1>11, <1>12, <1>13 DEF Ready, r

\* What is known more is no hindrance, nor what is known no longer.
LEMMA ReadyWeaken ==
  ASSUME NEW E, NEW F, NEW q, Ready(E, q, F), NEW D, NEW G, E \subseteq D, G \subseteq F
  PROVE  Ready(D, q, G)
<1>1. PICK a : Outline(q, a) /\ a[1] \subseteq E /\ F \subseteq a[Len(q) + 1]
  BY DEF Ready
<1>2. a[1] \subseteq D /\ G \subseteq a[Len(q) + 1]
  BY <1>1
<1> QED  BY <1>1, <1>2 DEF Ready

\* Parts one after another, each ready where the one before it ends.
LEMMA ReadyFlatten ==
  ASSUME NEW n \in Nat, NEW seqs, seqs = [k \in 1..n |-> seqs[k]], NEW known,
         \A k \in 1..n : Ready(known[k - 1], seqs[k], known[k])
  PROVE  Ready(known[0], FlattenSeq(seqs), known[n])
<1> DEFINE S == UNION {ToSet(seqs[k]) : k \in 1..n}
<1>1. ASSUME NEW k \in 1..n PROVE seqs[k] \in Seq(S)
  <2> DEFINE T == ToSet(seqs[k])
  <2>1. seqs[k] \in Seq(T) /\ T \subseteq S
    BY DEF Ready
  <2> HIDE DEF T, S
  <2> QED  BY <2>1
<1> HIDE DEF S
<1>2. seqs \in Seq(Seq(S)) /\ Len(seqs) = n
  BY <1>1
<1>3. CASE n = 0
  <2>1. FlattenSeq(seqs) = << >>
    BY <1>2, <1>3 DEF FlattenSeq
  <2>2. Ready(known[0], << >>, known[0])
    BY ReadyNone
  <2> QED  BY <1>3, <2>1, <2>2
<1>4. CASE n # 0
  <2>1. PICK g \in [1..n -> Seq(S)] :
          /\ g = [i \in 1..n |-> IF i = 1 THEN seqs[i] ELSE g[i - 1] \o seqs[i]]
          /\ FlattenSeq(seqs) = g[n]
    <3>1. Len(seqs) > 0
      BY <1>2, <1>4
    <3> QED  BY <1>2, <3>1, FlattenSeqDef
  <2>2. \A i \in 1..n : g[i] = IF i = 1 THEN seqs[i] ELSE g[i - 1] \o seqs[i]
    BY <2>1, Zenon
  <2> DEFINE N == {i \in Nat : i < n => Ready(known[0], g[i + 1], known[i + 1])}
  <2>3. 0 \in N
    <3>1. g[1] = seqs[1] /\ 1 \in 1..n /\ 0 + 1 = 1 /\ 1 - 1 = 0
      BY <1>4, <2>2
    <3>2. Ready(known[1 - 1], seqs[1], known[1])
      BY <3>1
    <3> QED  BY <3>1, <3>2
  <2>4. ASSUME NEW i \in Nat, i \in N PROVE i + 1 \in N
    <3> SUFFICES ASSUME i + 1 < n
                 PROVE  Ready(known[0], g[(i + 1) + 1], known[(i + 1) + 1])
      OBVIOUS
    <3> DEFINE j == i + 1
               k == j + 1
    <3>1. j \in Nat /\ k \in 1..n /\ k # 1 /\ k - 1 = j /\ i < n
      OBVIOUS
    <3>2. Ready(known[0], g[j], known[j])
      BY <2>4, <3>1
    <3> HIDE DEF j
    <3>3. Ready(known[k - 1], seqs[k], known[k])
      BY <3>1
    <3> HIDE DEF k
    <3>4. g[k] = g[j] \o seqs[k]
      BY <2>2, <3>1
    <3>5. Ready(known[0], g[j] \o seqs[k], known[k])
      BY <3>1, <3>2, <3>3, ReadyConcat
    <3> QED  BY <3>4, <3>5 DEF j, k
  <2> HIDE DEF N
  <2>5. \A i \in Nat : i \in N
    BY <2>3, <2>4, Induction
  <2>6. n - 1 \in Nat /\ n - 1 < n /\ (n - 1) + 1 = n
    BY <1>4
  <2> QED  BY <2>1, <2>5, <2>6 DEF N
<1> QED  BY <1>3, <1>4

\* The same for each name of an order.
LEMMA ReadyForEach ==
  ASSUME NEW D, NEW order \in Seq(D), NEW part, NEW known,
         \A k \in 1..Len(order) : Ready(known[k - 1], part[order[k]], known[k])
  PROVE  Ready(known[0], ForEach(order, part), known[Len(order)])
<1> DEFINE seqs == [k \in DOMAIN order |-> part[order[k]]]
           n == Len(order)
<1>1. n \in Nat /\ DOMAIN order = 1..n
  OBVIOUS
<1>2. seqs = [k \in 1..n |-> seqs[k]] /\ \A k \in 1..n : seqs[k] = part[order[k]]
  BY <1>1
<1> HIDE DEF n
<1>3. \A k \in 1..n : Ready(known[k - 1], seqs[k], known[k])
  BY <1>2 DEF n
<1> HIDE DEF seqs
<1>4. Ready(known[0], FlattenSeq(seqs), known[n])
  BY <1>1, <1>2, <1>3, ReadyFlatten
<1> QED  BY <1>4 DEF ForEach, seqs, n

\* Each part leaves what is known as it is.
LEMMA ReadyEach ==
  ASSUME NEW D, NEW order \in Seq(D), NEW part, NEW E, \A d \in D : Ready(E, part[d], E)
  PROVE  Ready(E, ForEach(order, part), E)
<1> DEFINE known == [k \in 0..Len(order) |-> E]
<1>1. Len(order) \in Nat /\ \A k \in 1..Len(order) : order[k] \in D
  OBVIOUS
<1>2. \A k \in 0..Len(order) : known[k] = E
  OBVIOUS
<1>3. \A k \in 1..Len(order) : k \in 0..Len(order) /\ k - 1 \in 0..Len(order)
  BY <1>1
<1> HIDE DEF known
<1>4. \A k \in 1..Len(order) : Ready(known[k - 1], part[order[k]], known[k])
  <2> TAKE k \in 1..Len(order)
  <2>1. known[k - 1] = E /\ known[k] = E /\ order[k] \in D
    BY <1>1, <1>2, <1>3
  <2> QED  BY <2>1
<1>5. Ready(known[0], ForEach(order, part), known[Len(order)])
  BY <1>4, ReadyForEach
<1> QED  BY <1>1, <1>2, <1>5

\* Statements that need no more than what is known and change nothing of it.
LEMMA ReadyCalm ==
  ASSUME NEW E, NEW S, NEW q \in Seq(S),
         \A x \in S : /\ IsStatement(x) /\ Needs(x) \subseteq E
                      /\ Makes(x) = {} /\ Breaks(x) \cap E = {}
  PROVE  Ready(E, q, E)
<1> DEFINE a == [k \in 1..(Len(q) + 1) |-> E]
<1>1. q \in Seq(ToSet(q)) /\ Len(q) \in Nat /\ \A k \in 1..Len(q) : q[k] \in S
  BY OwnSet
<1>2. a = [k \in 1..(Len(q) + 1) |-> a[k]] /\ \A k \in 1..(Len(q) + 1) : a[k] = E
  OBVIOUS
<1>3. 1 \in 1..(Len(q) + 1) /\ Len(q) + 1 \in 1..(Len(q) + 1)
      /\ \A k \in 1..Len(q) : k \in 1..(Len(q) + 1) /\ k + 1 \in 1..(Len(q) + 1)
  BY <1>1
<1> HIDE DEF a
<1>4. \A k \in 1..Len(q) :
        /\ Needs(q[k]) \subseteq a[k]
        /\ a[k + 1] \subseteq (a[k] \ Breaks(q[k])) \cup Makes(q[k])
        /\ IsStatement(q[k]) /\ (Makes(q[k]) # {} => q[k].when = << >>)
  BY <1>1, <1>2, <1>3
<1>5. Outline(q, a)
  BY <1>2, <1>4 DEF Outline
<1> QED  BY <1>1, <1>2, <1>3, <1>5 DEF Ready

\* What does without the operations on these facts.
LEMMA QuietNeeds ==
  ASSUME NEW s, NEW x, Stmt(s, Restless, x)
  PROVE  IsStatement(x) /\ Needs(x) = {} /\ Makes(x) = {}
<1>1. IsStatement(x) /\ (x.op \in Restless => x.op = "run" /\ x.name[1] = "refill")
  BY DEF Stmt, Permitted
<1>2. Makes(x) = {}
  BY <1>1 DEF Makes, Restless
<1>3. x.op = "run" => Needs(x) = {}
  <2>1. \A t, a : TableProc(t, a)[1] = a
    BY DEF TableProc
  <2>2. x.op = "run" => \A u \in Tables : x.name \notin {TableProc(u, "create"),
                          TableProc(u, "delete"), TableProc(u, "column")}
    BY <1>1, <2>1 DEF Restless
  <2> QED  BY <2>2 DEF Needs
<1>4. Needs(x) = {}
  BY <1>1, <1>3 DEF Needs, Restless
<1> QED  BY <1>1, <1>2, <1>4

\* The parts of a script that do without them.
LEMMA ReadyQuiet ==
  ASSUME NEW s, NEW q, Lawful(s, Restless, q)
  PROVE  Ready({}, q, {})
<1>1. q \in Seq(ToSet(q)) /\ \A x \in ToSet(q) : Stmt(s, Restless, x)
  BY DEF Lawful
<1>2. \A x \in ToSet(q) : IsStatement(x) /\ Needs(x) \subseteq {} /\ Makes(x) = {}
                          /\ Breaks(x) \cap {} = {}
  BY <1>1, QuietNeeds
<1> DEFINE S == ToSet(q)
<1>3. q \in Seq(S) /\ \A x \in S : IsStatement(x) /\ Needs(x) \subseteq {} /\ Makes(x) = {}
                                   /\ Breaks(x) \cap {} = {}
  BY <1>1, <1>2
<1> HIDE DEF S
<1> QED  BY <1>3, ReadyCalm

\* The facts are different.
LEMMA FactsDiffer ==
  /\ \A t, u : TableFact(t) = TableFact(u) => t = u
  /\ \A t, u : ColumnFact(t) = ColumnFact(u) => t = u
  /\ \A t, u : TableFact(t) # ColumnFact(u) /\ TableFact(t) # Dictionary
               /\ ColumnFact(t) # Dictionary
<1>1. \A t, u : TableFact(t) = TableFact(u) => t = u
  BY DEF TableFact
<1>2. \A t, u : ColumnFact(t) = ColumnFact(u) => t = u
  BY DEF ColumnFact
<1>3. \A t, u : TableFact(t) # ColumnFact(u) /\ TableFact(t) # Dictionary
                /\ ColumnFact(t) # Dictionary
  BY DEF TableFact, ColumnFact, Dictionary
<1> QED  BY <1>1, <1>2, <1>3

\* What Do makes.
LEMMA DoFields ==
  \A op, name, value :
    /\ IsStatement(Do(op, name, value))
    /\ Do(op, name, value).op = op /\ Do(op, name, value).name = name
    /\ Do(op, name, value).value = value /\ Do(op, name, value).when = << >>
<1> TAKE op, name, value
<1> DEFINE x == Do(op, name, value)
<1>1. x = [op |-> op, name |-> name, value |-> value, when |-> << >>, at |-> 0]
  BY DEF Do
<1>2. x.op = op /\ x.name = name /\ x.value = value /\ x.when = << >> /\ x.at = 0
  BY <1>1
<1> HIDE DEF x
<1>3. IsStatement(x)
  BY <1>1, <1>2, OneMore, Zenon DEF IsStatement
<1> QED  BY <1>2, <1>3 DEF x

\* It is unconditional.
LEMMA DoWhen == \A op, name, value : Do(op, name, value).when = << >>
BY DoFields

\* The conditions are no matter to what a statement is about.
LEMMA SameWhen ==
  ASSUME NEW x, IsStatement(x), NEW w, IsSequence(w), NEW y, y = [x EXCEPT !.when = w]
  PROVE  /\ IsStatement(y) /\ y.op = x.op /\ y.name = x.name /\ y.when = w
         /\ Makes(y) = Makes(x) /\ Breaks(y) = Breaks(x) /\ Needs(y) = Needs(x)
<1>1. PICK o, n, v, c, a : x = [op |-> o, name |-> n, value |-> v, when |-> c, at |-> a]
  BY DEF IsStatement
<1>2. x.op = o /\ x.name = n /\ x.when = c
  BY <1>1, Fields
<1>3. IsSequence(w)
  BY <1>2 DEF IsStatement
<1>4. y = [op |-> o, name |-> n, value |-> v, when |-> w, at |-> a]
  BY <1>1
<1>5. y.op = o /\ y.name = n /\ y.value = v /\ y.when = w /\ y.at = a
  BY <1>4
<1>6. IsStatement(y)
  BY <1>3, <1>4, <1>5, Zenon DEF IsStatement
<1>7. Makes(y) = Makes(x) /\ Breaks(y) = Breaks(x) /\ Needs(y) = Needs(x)
  BY <1>2, <1>5 DEF Makes, Breaks, Needs
<1> QED  BY <1>2, <1>5, <1>6, <1>7

\* Nor is its position.
LEMMA SameAt ==
  ASSUME NEW x, IsStatement(x), NEW w, NEW y, y = [x EXCEPT !.at = w]
  PROVE  /\ IsStatement(y) /\ y.op = x.op /\ y.name = x.name /\ y.when = x.when
         /\ Makes(y) = Makes(x) /\ Breaks(y) = Breaks(x) /\ Needs(y) = Needs(x)
<1>1. PICK o, n, v, c, a : x = [op |-> o, name |-> n, value |-> v, when |-> c, at |-> a]
  BY DEF IsStatement
<1>2. x.op = o /\ x.name = n /\ x.when = c
  BY <1>1, Fields
<1>3. IsSequence(c)
  BY <1>2 DEF IsStatement
<1>4. y = [op |-> o, name |-> n, value |-> v, when |-> c, at |-> w]
  BY <1>1
<1>5. y.op = o /\ y.name = n /\ y.value = v /\ y.when = c /\ y.at = w
  BY <1>4
<1>6. IsStatement(y)
  BY <1>3, <1>4, <1>5, Zenon DEF IsStatement
<1>7. Makes(y) = Makes(x) /\ Breaks(y) = Breaks(x) /\ Needs(y) = Needs(x)
  BY <1>2, <1>5 DEF Makes, Breaks, Needs
<1> QED  BY <1>2, <1>5, <1>6, <1>7

\* Statements of the same kind under a condition.
LEMMA ReadyIf ==
  ASSUME NEW E, NEW c, NEW S, NEW q \in Seq(S),
         \A x \in S : /\ IsStatement(x) /\ Needs(x) \subseteq E
                      /\ Makes(x) = {} /\ Breaks(x) \cap E = {}
  PROVE  Ready(E, If(c, q), E)
<1> DEFINE R == {[x EXCEPT !.when = <<c>> \o @] : x \in S}
<1>1. If(c, q) \in Seq(R)
  <2>1. Len(q) \in Nat /\ DOMAIN q = 1..Len(q) /\ \A k \in 1..Len(q) : q[k] \in S
    OBVIOUS
  <2>2. \A k \in 1..Len(q) : [q[k] EXCEPT !.when = <<c>> \o @] \in R
    BY <2>1
  <2> HIDE DEF R
  <2> QED  BY <2>1, <2>2 DEF If
<1>2. \A y \in R : /\ IsStatement(y) /\ Needs(y) \subseteq E
                   /\ Makes(y) = {} /\ Breaks(y) \cap E = {}
  <2> TAKE y \in R
  <2>1. PICK x \in S : y = [x EXCEPT !.when = <<c>> \o @]
    OBVIOUS
  <2>2. y = [x EXCEPT !.when = <<c>> \o x.when]
    BY <2>1
  <2> DEFINE w == <<c>> \o x.when
  <2>3. y = [x EXCEPT !.when = w] /\ IsStatement(x) /\ IsSequence(w)
    BY <2>2, OneMore DEF IsStatement
  <2> HIDE DEF w, R
  <2>4. IsStatement(y) /\ Makes(y) = Makes(x) /\ Breaks(y) = Breaks(x) /\ Needs(y) = Needs(x)
    BY <2>3, SameWhen
  <2> QED  BY <2>4
<1> HIDE DEF R
<1> QED  BY <1>1, <1>2, ReadyCalm

-----------------------------------------------------------------------------
(* The tables and columns of the versions. *)

\* Table t may refer to p: p keeps its data, is declared before t and is created
\* no later.
Follows(s, p, t) ==
  /\ Kept(s, p) /\ s.tables[p].version <= s.tables[t].version
  /\ \E j, k \in DOMAIN TableOrder : j < k /\ TableOrder[j] = p /\ TableOrder[k] = t

\* Deleted tables, too, refer only to such tables.  The compiler sees to it
\* while they are live; afterwards a table that they refer to may be moved to
\* @recreate and back, and is then created later than they are.
DeletedRefsFit(s) ==
  \A t \in Tables : Kept(s, t) /\ s.tables[t].delete > 0 =>
    \A p \in s.tables[t].refs : Follows(s, p, t)

\* The tables that the drop of u, with all that refers to it, may take: among
\* those that keep their data, only tables that are not created before u.
Dependents(s, u) ==
  {w \in Tables : Kept(s, w) =>
     /\ Kept(s, u)
     /\ \/ s.tables[u].version < s.tables[w].version
        \/ /\ s.tables[u].version = s.tables[w].version
           /\ \E j, k \in DOMAIN TableOrder : j <= k /\ TableOrder[j] = u /\ TableOrder[k] = w}

\* Every table that keeps its data refers to tables that it may refer to.
LEMMA RefsFollow ==
  ASSUME NEW s, WellFormed(s), DeletedRefsFit(s), NEW t \in Tables, Kept(s, t),
         NEW p \in s.tables[t].refs
  PROVE  Follows(s, p, t)
<1>1. CASE s.tables[t].delete > 0
  BY <1>1 DEF DeletedRefsFit
<1>2. CASE ~(s.tables[t].delete > 0)
  <2>1. Declared(s, t) /\ ~Recreated(s, t)
    BY DEF Kept, Declared, Recreated
  <2>2. ReferenceOK(s, t, p)
    BY <2>1 DEF WellFormed
  <2> QED  BY <1>2, <2>1, <2>2 DEF ReferenceOK, Follows
<1> QED  BY <1>1, <1>2

\* What refers to a table that goes with u goes with u.
LEMMA DependentsClosed ==
  ASSUME NEW s, WellFormed(s), DeletedRefsFit(s), NEW u \in Tables, NEW v \in Tables,
         u \in s.tables[v].refs
  PROVE  Dependents(s, v) \subseteq Dependents(s, u)
<1> SUFFICES ASSUME NEW w \in Dependents(s, v), Kept(s, w)
             PROVE  w \in Dependents(s, u)
  BY DEF Dependents
<1>1. /\ w \in Tables /\ Kept(s, v)
      /\ \/ s.tables[v].version < s.tables[w].version
         \/ /\ s.tables[v].version = s.tables[w].version
            /\ \E j, k \in DOMAIN TableOrder : j <= k /\ TableOrder[j] = v /\ TableOrder[k] = w
  BY DEF Dependents
<1>2. Follows(s, u, v)
  BY <1>1, RefsFollow
<1>3. /\ s.tables[u].version \in Nat /\ s.tables[v].version \in Nat
      /\ s.tables[w].version \in Nat
  BY <1>1, Declarations
<1>4. Kept(s, u) /\ s.tables[u].version <= s.tables[v].version
  BY <1>2 DEF Follows
<1>5. CASE s.tables[u].version < s.tables[w].version
  BY <1>1, <1>4, <1>5 DEF Dependents
<1>6. CASE ~(s.tables[u].version < s.tables[w].version)
  <2>1. s.tables[u].version = s.tables[w].version /\ ~(s.tables[v].version < s.tables[w].version)
    BY <1>1, <1>3, <1>4, <1>6
  <2>2. PICK j, k \in DOMAIN TableOrder : j <= k /\ TableOrder[j] = v /\ TableOrder[k] = w
    BY <1>1, <2>1
  <2>3. PICK h, i \in DOMAIN TableOrder : h < i /\ TableOrder[h] = u /\ TableOrder[i] = v
    BY <1>2 DEF Follows
  <2>4. i = j
    BY <2>2, <2>3, NamesAssumption
  <2>5. h <= k
    <3>1. DOMAIN TableOrder \subseteq Int
      BY NamesAssumption
    <3> QED  BY <2>2, <2>3, <2>4, <3>1
  <2> QED  BY <1>1, <1>4, <2>1, <2>2, <2>3, <2>5 DEF Dependents
<1> QED  BY <1>5, <1>6

\* The statements of such a drop.
DropsOf(s, u) ==
  {SetFacet(IndexFacet(i), NoFacet) : i \in Indices}
    \cup {Do("drop table and forget", w, 0) : w \in Dependents(s, u)}

\* One level of it
LEMMA FullDropStepOf ==
  ASSUME NEW s, WellFormed(s), DeletedRefsFit(s), NEW below,
         \A v \in Tables : below[v] \in Seq(DropsOf(s, v)), NEW u \in Tables
  PROVE  FullDropStep(s, below)[u] \in Seq(DropsOf(s, u))
<1> DEFINE S == DropsOf(s, u)
           refs == [v \in Tables |->
             IF v \in {w \in Tables \ {u} : Declared(s, w) /\ u \in s.tables[w].refs}
             THEN below[v] ELSE << >>]
           facets == [i \in Indices |->
             IF IndexTable[i] = u /\ s.indices[i] # Undeclared
             THEN <<SetFacet(IndexFacet(i), NoFacet)>> ELSE << >>]
           last == <<Do("drop table and forget", u, 0)>>
<1>0. \A A, B : A \subseteq B => Seq(A) \subseteq Seq(B)
  OBVIOUS
<1>1. ASSUME NEW v \in Tables PROVE refs[v] \in Seq(S)
  <2>1. CASE v \in {w \in Tables \ {u} : Declared(s, w) /\ u \in s.tables[w].refs}
    <3>1. Dependents(s, v) \subseteq Dependents(s, u)
      BY <2>1, DependentsClosed
    <3>2. DropsOf(s, v) \subseteq S
      BY <3>1 DEF DropsOf
    <3>3. refs[v] = below[v] /\ below[v] \in Seq(DropsOf(s, v))
      BY <2>1
    <3> HIDE DEF refs, S
    <3> QED  BY <1>0, <3>2, <3>3
  <2>2. CASE v \notin {w \in Tables \ {u} : Declared(s, w) /\ u \in s.tables[w].refs}
    <3>1. refs[v] = << >>
      BY <2>2
    <3> HIDE DEF refs, S
    <3> QED  BY <3>1
  <2> QED  BY <2>1, <2>2
<1>2. \A i \in Indices : facets[i] \in Seq(S)
  <2> TAKE i \in Indices
  <2>1. SetFacet(IndexFacet(i), NoFacet) \in S
    BY DEF DropsOf
  <2> HIDE DEF S
  <2> QED  BY <2>1
<1>3. last \in Seq(S)
  <2> DEFINE d == Do("drop table and forget", u, 0)
  <2>1. u \in Dependents(s, u)
    <3>1. PICK k \in DOMAIN TableOrder : TableOrder[k] = u
      BY DEF Tables, ToSet
    <3>2. k <= k
      BY NamesAssumption
    <3> QED  BY <3>1, <3>2 DEF Dependents
  <2>2. d \in S
    BY <2>1 DEF DropsOf
  <2> HIDE DEF d, S
  <2>3. <<d>> \in Seq(S)
    BY <2>2
  <2> QED  BY <2>3 DEF d
<1>4. FullDropStep(s, below)[u] = ForEach(TableOrder, refs) \o ForEach(IndexOrder, facets) \o last
  BY DEF FullDropStep
<1> HIDE DEF refs, facets, last, S
<1>5. ForEach(TableOrder, refs) \in Seq(S) /\ ForEach(IndexOrder, facets) \in Seq(S)
  BY <1>1, <1>2, ForEachType, NamesAssumption
<1>6. FullDropStep(s, below)[u] \in Seq(S)
  BY <1>3, <1>4, <1>5
<1> QED  BY <1>6 DEF S

\* All levels
LEMMA FullDropOf ==
  ASSUME NEW s, WellFormed(s), DeletedRefsFit(s), NEW t \in Tables
  PROVE  FullDrop(s, t) \in Seq(DropsOf(s, t))
<1> DEFINE all == UNION {Seq(DropsOf(s, u)) : u \in Tables}
           V == {g \in [Tables -> all] : \A u \in Tables : g[u] \in Seq(DropsOf(s, u))}
<1>1. [u \in Tables |-> << >>] \in V
  <2>1. \A u \in Tables : << >> \in Seq(DropsOf(s, u))
    OBVIOUS
  <2> QED  BY <2>1
<1>2. ASSUME NEW g \in V PROVE FullDropStep(s, g) \in V
  <2>1. \A u \in Tables : g[u] \in Seq(DropsOf(s, u))
    OBVIOUS
  <2>2. \A u \in Tables : FullDropStep(s, g)[u] \in Seq(DropsOf(s, u))
    BY <2>1, FullDropStepOf
  <2>3. FullDropStep(s, g) = [u \in Tables |-> FullDropStep(s, g)[u]]
    BY DEF FullDropStep
  <2>4. \A u \in Tables : Seq(DropsOf(s, u)) \subseteq all
    OBVIOUS
  <2> HIDE DEF all
  <2> QED  BY <2>2, <2>3, <2>4
<1> HIDE DEF V
<1>3. PICK g \in V : FullDrop(s, t) = g[t]
  BY <1>1, <1>2, FullDropIn
<1> QED  BY <1>3 DEF V

-----------------------------------------------------------------------------
(* What is known after each version. *)

AddedBy(s, v) == {u \in Tables : s.tables[u].plan = "create" /\ s.tables[u].version <= v}
ExtendedBy(s, v) ==
  {u \in Tables : Kept(s, u) /\ ~IsDeleted(s, u) /\ s.tables[u].column \in 1..v}

\* After the tables S and the columns of the tables C.
Known(S, C) == {Dictionary} \cup {TableFact(t) : t \in S} \cup {ColumnFact(t) : t \in C}

KnownAfter(s, v) == Known(AddedBy(s, v), ExtendedBy(s, v))

\* The first k tables of the order.
FirstTables(k) == {TableOrder[j] : j \in 1..k}

\* Version v has created those of its tables that are among the first k.
CreatedTo(s, v, k) ==
  Known(AddedBy(s, v - 1) \cup {t \in FirstTables(k) : CreatedIn(s, t, v)}, ExtendedBy(s, v - 1))

\* Likewise for its columns.
ExtendedTo(s, v, k) ==
  Known(AddedBy(s, v), ExtendedBy(s, v - 1) \cup {t \in FirstTables(k) : ColumnIn(s, t, v)})

\* What a table and a column of what is known are.
LEMMA KnownFacts ==
  ASSUME NEW S, NEW C, NEW t
  PROVE  /\ TableFact(t) \in Known(S, C) <=> t \in S
         /\ ColumnFact(t) \in Known(S, C) <=> t \in C
         /\ Dictionary \in Known(S, C)
BY FactsDiffer DEF Known

\* More tables and columns, more is known.
LEMMA KnownGrows ==
  ASSUME NEW S, NEW C, NEW T, NEW D, S \subseteq T, C \subseteq D
  PROVE  Known(S, C) \subseteq Known(T, D)
BY DEF Known

\* The versions of a table that keeps its data.
LEMMA TableVersions ==
  ASSUME NEW s, WellFormed(s), NEW t \in Tables
  PROVE  /\ s.tables[t].version \in Nat /\ s.tables[t].column \in Nat /\ s.tables[t].delete \in Nat
         /\ s.tables[t].plan = "create" => Kept(s, t) /\ s.tables[t].version > 0
         /\ s.tables[t].column > 0 => s.tables[t].column > s.tables[t].version
         /\ Kept(s, t) /\ s.tables[t].delete > 0 => s.tables[t].delete > s.tables[t].version
<1>1. VersionsFit(s.tables[t])
  BY DEF WellFormed
<1> QED  BY <1>1, Declarations DEF VersionsFit, Kept

\* The statements that drop and record facets.
LEMMA PlainFacts ==
  ASSUME NEW x
  PROVE  /\ \A f, v : x = SetFacet(f, v) =>
              IsStatement(x) /\ Needs(x) = {} /\ Makes(x) = {} /\ Breaks(x) = {}
         /\ \A w : x = Do("drop table and forget", w, 0) =>
              /\ IsStatement(x) /\ Needs(x) = {} /\ Makes(x) = {}
              /\ Breaks(x) = {TableFact(w), ColumnFact(w)}
<1>1. ASSUME NEW f, NEW v, x = SetFacet(f, v)
      PROVE  IsStatement(x) /\ Needs(x) = {} /\ Makes(x) = {} /\ Breaks(x) = {}
  <2>1. x = Do("set facet", f, v)
    BY <1>1 DEF SetFacet
  <2>2. IsStatement(x)
    BY <2>1, DoFields, Zenon
  <2>3. x.op = "set facet"
    BY <2>1, DoFields, Zenon
  <2> QED  BY <2>2, <2>3 DEF Needs, Makes, Breaks
<1>2. ASSUME NEW w, x = Do("drop table and forget", w, 0)
      PROVE  /\ IsStatement(x) /\ Needs(x) = {} /\ Makes(x) = {}
             /\ Breaks(x) = {TableFact(w), ColumnFact(w)}
  <2>1. IsStatement(x)
    BY <1>2, DoFields, Zenon
  <2>2. x.op = "drop table and forget" /\ x.name = w
    BY <1>2, DoFields, Zenon
  <2> QED  BY <2>1, <2>2 DEF Needs, Makes, Breaks
<1> QED  BY <1>1, <1>2

\* The drop of a table that left @recreate takes no table of the versions before,
\* and none that its own version has created so far.
LEMMA DropsSpare ==
  ASSUME NEW s, WellFormed(s), NEW v \in Nat, NEW k \in DOMAIN TableOrder,
         CreatedIn(s, TableOrder[k], v), NEW w \in Dependents(s, TableOrder[k])
  PROVE  TableFact(w) \notin CreatedTo(s, v, k - 1) /\ ColumnFact(w) \notin CreatedTo(s, v, k - 1)
<1> DEFINE t == TableOrder[k]
<1>1. w \in Tables /\ t \in Tables /\ k \in Nat
  BY NamesAssumption DEF Dependents
<1>2. /\ s.tables[w].version \in Nat /\ s.tables[w].column \in Nat
      /\ s.tables[w].plan = "create" => Kept(s, w)
      /\ s.tables[w].column > 0 => s.tables[w].column > s.tables[w].version
  BY <1>1, TableVersions
<1>3. s.tables[t].version = v
  BY DEF CreatedIn
<1>4. Kept(s, w) =>
        \/ v < s.tables[w].version
        \/ /\ v = s.tables[w].version
           /\ \E i, j \in DOMAIN TableOrder : i <= j /\ TableOrder[i] = t /\ TableOrder[j] = w
  BY <1>3 DEF Dependents
<1>5. w \notin AddedBy(s, v - 1)
  BY <1>2, <1>4 DEF AddedBy
<1>6. w \notin ExtendedBy(s, v - 1)
  BY <1>2, <1>4 DEF ExtendedBy
<1>7. ~(w \in FirstTables(k - 1) /\ CreatedIn(s, w, v))
  <2> SUFFICES ASSUME w \in FirstTables(k - 1), CreatedIn(s, w, v) PROVE FALSE
    OBVIOUS
  <2>1. PICK h \in 1..(k - 1) : TableOrder[h] = w
    BY DEF FirstTables
  <2>2. h \in DOMAIN TableOrder
    BY <1>1, NamesAssumption
  <2>3. Kept(s, w) /\ s.tables[w].version = v
    BY <1>2 DEF CreatedIn
  <2>4. PICK i, j \in DOMAIN TableOrder : i <= j /\ TableOrder[i] = t /\ TableOrder[j] = w
    BY <1>3, <1>4, <2>3
  <2>5. i = k /\ j = h
    BY <2>1, <2>2, <2>4, NamesAssumption
  <2> QED  BY <1>1, <2>1, <2>4, <2>5
<1> QED  BY <1>5, <1>6, <1>7, KnownFacts DEF CreatedTo

\* The tables of the order up to one more.
LEMMA FirstTablesGrow ==
  /\ FirstTables(0) = {} /\ FirstTables(Len(TableOrder)) = Tables
  /\ \A k \in DOMAIN TableOrder : FirstTables(k) = FirstTables(k - 1) \cup {TableOrder[k]}
<1>1. Len(TableOrder) \in Nat /\ DOMAIN TableOrder = 1..Len(TableOrder)
  BY NamesAssumption
<1>2. FirstTables(0) = {}
  BY DEF FirstTables
<1>3. FirstTables(Len(TableOrder)) = Tables
  BY <1>1 DEF FirstTables, Tables, ToSet
<1>4. ASSUME NEW k \in DOMAIN TableOrder
      PROVE  FirstTables(k) = FirstTables(k - 1) \cup {TableOrder[k]}
  <2>1. 1..k = (1..(k - 1)) \cup {k}
    BY <1>1
  <2> QED  BY <2>1 DEF FirstTables
<1> QED  BY <1>2, <1>3, <1>4

\* The creation of one table leaves the tables before it and adds its own.
LEMMA CreateTableReady ==
  ASSUME NEW s, WellFormed(s), DeletedRefsFit(s), NEW v \in Nat, NEW k \in DOMAIN TableOrder,
         CreatedIn(s, TableOrder[k], v)
  PROVE  Ready(CreatedTo(s, v, k - 1), CreateTable(s, TableOrder[k]), CreatedTo(s, v, k))
<1> DEFINE t == TableOrder[k]
           E == CreatedTo(s, v, k - 1)
           F == CreatedTo(s, v, k)
           d == s.tables[t]
           c == Condition(OneTimeDropFacet(t), FALSE, Number(d.version))
           set == SetFacet(OneTimeDropFacet(t), Number(d.version))
           first == IF d.fromRecreate THEN If(c, FullDrop(s, t) \o <<set>>) ELSE << >>
           last == Do("create table if unknown", t, d.def)
           S == DropsOf(s, t) \cup {set}
<1>1. CreateTable(s, t) = first \o <<last>>
  BY DEF CreateTable, IfFacetIsNot
<1>2. t \in Tables
  BY NamesAssumption
<1>3. \A x \in S : /\ IsStatement(x) /\ Needs(x) \subseteq E
                   /\ Makes(x) = {} /\ Breaks(x) \cap E = {}
  <2> TAKE x \in S
  <2>1. ASSUME NEW f, NEW n, x = SetFacet(f, n)
        PROVE  /\ IsStatement(x) /\ Needs(x) \subseteq E
               /\ Makes(x) = {} /\ Breaks(x) \cap E = {}
    BY <2>1, PlainFacts
  <2>2. ASSUME NEW w \in Dependents(s, t), x = Do("drop table and forget", w, 0)
        PROVE  /\ IsStatement(x) /\ Needs(x) \subseteq E
               /\ Makes(x) = {} /\ Breaks(x) \cap E = {}
    <3>1. TableFact(w) \notin E /\ ColumnFact(w) \notin E
      BY DropsSpare
    <3> HIDE DEF E
    <3>2. /\ IsStatement(x) /\ Needs(x) = {} /\ Makes(x) = {}
          /\ Breaks(x) = {TableFact(w), ColumnFact(w)}
      BY <2>2, PlainFacts, Zenon
    <3> QED  BY <3>1, <3>2
  <2>3. \/ \E f, n : x = SetFacet(f, n)
        \/ \E w \in Dependents(s, t) : x = Do("drop table and forget", w, 0)
    BY DEF DropsOf
  <2> HIDE DEF E, t
  <2> QED  BY <2>1, <2>2, <2>3
<1>4. Ready(E, first, E)
  <2>1. FullDrop(s, t) \in Seq(DropsOf(s, t))
    BY <1>2, FullDropOf
  <2> DEFINE drop == FullDrop(s, t)
             D == DropsOf(s, t)
  <2>2. drop \o <<set>> \in Seq(S)
    <3> HIDE DEF drop, D, set
    <3>1. drop \in Seq(S) /\ <<set>> \in Seq(S)
      <4>1. D \subseteq S
        BY DEF D
      <4>2. drop \in Seq(D)
        BY <2>1 DEF drop, D
      <4> HIDE DEF S
      <4>3. drop \in Seq(S)
        BY <4>1, <4>2
      <4>4. set \in S
        BY DEF S
      <4> QED  BY <4>3, <4>4
    <3> HIDE DEF S
    <3> QED  BY <3>1
  <2> HIDE DEF S, drop, set, E, c
  <2>3. Ready(E, If(c, drop \o <<set>>), E)
    BY <1>3, <2>2, ReadyIf
  <2>4. Ready(E, << >>, E)
    BY ReadyNone
  <2> QED  BY <2>3, <2>4 DEF drop
<1>5. Ready(E, <<last>>, F)
  <2>1. /\ IsStatement(last) /\ last.op = "create table if unknown" /\ last.name = t
        /\ last.when = << >>
    <3>1. PICK value : last = Do("create table if unknown", t, value)
      OBVIOUS
    <3> HIDE DEF last, t, d
    <3>2. IsStatement(last)
      BY <3>1, DoFields, Zenon
    <3>3. last.op = "create table if unknown" /\ last.name = t
      BY <3>1, DoFields, Zenon
    <3>4. last.when = << >>
      BY <3>1, DoWhen, Zenon
    <3> QED  BY <3>2, <3>3, <3>4
  <2>2. Needs(last) = {Dictionary} /\ Makes(last) = {TableFact(t)} /\ Breaks(last) = {}
    <3> HIDE DEF last, t
    <3> QED  BY <2>1 DEF Needs, Makes, Breaks
  <2>3. Dictionary \in E
    BY DEF CreatedTo, Known
  <2>4. F \subseteq E \cup {TableFact(t)}
    BY FirstTablesGrow DEF CreatedTo, Known
  <2> HIDE DEF last, E, F, t
  <2> QED  BY <2>1, <2>2, <2>3, <2>4, ReadyOne
<1> HIDE DEF first, last, E, F
<1>6. Ready(E, first \o <<last>>, F)
  BY <1>4, <1>5, ReadyConcat
<1> QED  BY <1>1, <1>6 DEF E, F, t

\* A version's tables, and then its columns.
LEMMA AlterSchemaReady ==
  ASSUME NEW s, WellFormed(s), DeletedRefsFit(s), NEW v \in Nat, v > 0
  PROVE  Ready(KnownAfter(s, v - 1), AlterSchema(s, v), KnownAfter(s, v))
<1> DEFINE n == Len(TableOrder)
           create == [t \in Tables |-> IF CreatedIn(s, t, v) THEN CreateTable(s, t) ELSE << >>]
           extend == [t \in Tables |->
             IF ColumnIn(s, t, v) THEN <<Do("add column if unknown", t, 0)>> ELSE << >>]
           created == [k \in 0..n |-> CreatedTo(s, v, k)]
           extended == [k \in 0..n |-> ExtendedTo(s, v, k)]
<1>0. /\ TableOrder \in Seq(Tables) /\ n \in Nat /\ DOMAIN TableOrder = 1..n
      /\ \A k \in 1..n : TableOrder[k] \in Tables /\ k \in 0..n /\ k - 1 \in 0..n
      /\ 0 \in 0..n /\ n \in 0..n
  BY NamesAssumption
<1>1. /\ \A t \in Tables : create[t] = IF CreatedIn(s, t, v) THEN CreateTable(s, t) ELSE << >>
      /\ \A t \in Tables : extend[t] = IF ColumnIn(s, t, v)
                                       THEN <<Do("add column if unknown", t, 0)>> ELSE << >>
      /\ \A k \in 0..n : created[k] = CreatedTo(s, v, k) /\ extended[k] = ExtendedTo(s, v, k)
  OBVIOUS
<1>2. AlterSchema(s, v) = ForEach(TableOrder, create) \o ForEach(TableOrder, extend)
  BY DEF AlterSchema
<1> HIDE DEF create, extend, created, extended, n
<1>3. ASSUME NEW k \in 1..n PROVE Ready(created[k - 1], create[TableOrder[k]], created[k])
  <2> DEFINE t == TableOrder[k]
  <2>1. created[k - 1] = CreatedTo(s, v, k - 1) /\ created[k] = CreatedTo(s, v, k)
        /\ t \in Tables /\ k \in DOMAIN TableOrder
    BY <1>0, <1>1
  <2>2. CASE CreatedIn(s, t, v)
    <3>1. create[t] = CreateTable(s, t)
      BY <1>1, <2>1, <2>2
    <3> QED  BY <2>1, <2>2, <3>1, CreateTableReady
  <2>3. CASE ~CreatedIn(s, t, v)
    <3>1. create[t] = << >>
      BY <1>1, <2>1, <2>3
    <3>2. {u \in FirstTables(k) : CreatedIn(s, u, v)}
            = {u \in FirstTables(k - 1) : CreatedIn(s, u, v)}
      BY <2>1, <2>3, FirstTablesGrow
    <3>3. created[k] = created[k - 1]
      BY <2>1, <3>2 DEF CreatedTo
    <3> QED  BY <3>1, <3>3, ReadyNone
  <2> QED  BY <2>2, <2>3
<1>4. Ready(created[0], ForEach(TableOrder, create), created[n])
  BY <1>0, <1>3, ReadyForEach DEF n
<1>5. ASSUME NEW k \in 1..n PROVE Ready(extended[k - 1], extend[TableOrder[k]], extended[k])
  <2> DEFINE t == TableOrder[k]
  <2>1. extended[k - 1] = ExtendedTo(s, v, k - 1) /\ extended[k] = ExtendedTo(s, v, k)
        /\ t \in Tables /\ k \in DOMAIN TableOrder
    BY <1>0, <1>1
  <2>2. CASE ColumnIn(s, t, v)
    <3> DEFINE x == Do("add column if unknown", t, 0)
    <3>1. extend[t] = <<x>>
      BY <1>1, <2>1, <2>2
    <3>2. IsStatement(x) /\ x.op = "add column if unknown" /\ x.name = t /\ x.when = << >>
      <4>1. x = Do("add column if unknown", t, 0)
        OBVIOUS
      <4> HIDE DEF x, t
      <4>2. IsStatement(x)
        BY <4>1, DoFields, Zenon
      <4>3. x.op = "add column if unknown" /\ x.name = t
        BY <4>1, DoFields, Zenon
      <4>4. x.when = << >>
        BY <4>1, DoWhen, Zenon
      <4> QED  BY <4>2, <4>3, <4>4
    <3> HIDE DEF x
    <3>3. Needs(x) = {Dictionary} /\ Makes(x) = {ColumnFact(t)} /\ Breaks(x) = {}
      <4> HIDE DEF t
      <4> QED  BY <3>2 DEF Needs, Makes, Breaks
    <3>4. Dictionary \in ExtendedTo(s, v, k - 1)
      BY DEF ExtendedTo, Known
    <3>5. ExtendedTo(s, v, k) \subseteq ExtendedTo(s, v, k - 1) \cup {ColumnFact(t)}
      BY <2>1, FirstTablesGrow DEF ExtendedTo, Known
    <3> HIDE DEF t
    <3>6. Ready(ExtendedTo(s, v, k - 1), <<x>>, ExtendedTo(s, v, k))
      BY <3>2, <3>3, <3>4, <3>5, ReadyOne
    <3> QED  BY <2>1, <3>1, <3>6 DEF t
  <2>3. CASE ~ColumnIn(s, t, v)
    <3>1. extend[t] = << >>
      BY <1>1, <2>1, <2>3
    <3>2. {u \in FirstTables(k) : ColumnIn(s, u, v)}
            = {u \in FirstTables(k - 1) : ColumnIn(s, u, v)}
      BY <2>1, <2>3, FirstTablesGrow
    <3>3. extended[k] = extended[k - 1]
      BY <2>1, <3>2 DEF ExtendedTo
    <3> QED  BY <3>1, <3>3, ReadyNone
  <2> QED  BY <2>2, <2>3
<1>6. Ready(extended[0], ForEach(TableOrder, extend), extended[n])
  BY <1>0, <1>5, ReadyForEach DEF n
<1>7. created[0] \subseteq KnownAfter(s, v - 1)
  BY <1>0, <1>1, FirstTablesGrow DEF CreatedTo, KnownAfter, Known
<1>8. extended[0] \subseteq created[n]
  <2>1. AddedBy(s, v) \subseteq AddedBy(s, v - 1) \cup {t \in Tables : CreatedIn(s, t, v)}
    <3>1. \A t \in Tables : s.tables[t].version \in Nat
      BY TableVersions
    <3> QED  BY <3>1 DEF AddedBy, CreatedIn
  <2>2. FirstTables(n) = Tables /\ FirstTables(0) = {}
    BY FirstTablesGrow DEF n
  <2>3. extended[0] = Known(AddedBy(s, v), ExtendedBy(s, v - 1))
    BY <1>0, <1>1, <2>2 DEF ExtendedTo
  <2>4. created[n] = Known(AddedBy(s, v - 1) \cup {t \in Tables : CreatedIn(s, t, v)},
                           ExtendedBy(s, v - 1))
    BY <1>0, <1>1, <2>2 DEF CreatedTo
  <2> QED  BY <2>1, <2>3, <2>4, KnownGrows
<1>9. KnownAfter(s, v) \subseteq extended[n]
  <2>1. ExtendedBy(s, v) \subseteq ExtendedBy(s, v - 1) \cup {t \in Tables : ColumnIn(s, t, v)}
    <3>1. \A t \in Tables : s.tables[t].column \in Nat
      BY TableVersions
    <3> QED  BY <3>1 DEF ExtendedBy, ColumnIn
  <2>2. FirstTables(n) = Tables
    BY FirstTablesGrow DEF n
  <2>3. extended[n] = Known(AddedBy(s, v), ExtendedBy(s, v - 1)
                                             \cup {t \in Tables : ColumnIn(s, t, v)})
    BY <1>0, <1>1, <2>2 DEF ExtendedTo
  <2> QED  BY <2>1, <2>3, KnownGrows DEF KnownAfter
<1>10. /\ Ready(KnownAfter(s, v - 1), ForEach(TableOrder, create), created[n])
       /\ Ready(created[n], ForEach(TableOrder, extend), KnownAfter(s, v))
  BY <1>4, <1>6, <1>7, <1>8, <1>9, ReadyWeaken
<1> QED  BY <1>2, <1>10, ReadyConcat

\* What a migration procedure relies on: the table, or the column, that its name tells.
LEMMA RunNeeds ==
  ASSUME NEW proc, NEW x, x = Do("run", proc, 0)
  PROVE  /\ IsStatement(x) /\ Makes(x) = {} /\ Breaks(x) = {}
         /\ \A t \in Tables : /\ proc = TableProc(t, "create") => Needs(x) \subseteq {TableFact(t)}
                              /\ proc = TableProc(t, "delete") => Needs(x) \subseteq {TableFact(t)}
                              /\ proc = TableProc(t, "column") => Needs(x) \subseteq {ColumnFact(t)}
         /\ proc = AdHocProc => Needs(x) = {}
<1>1. IsStatement(x)
  BY DoFields, Zenon
<1>2. x.op = "run" /\ x.name = proc
  BY DoFields, Zenon
<1>3. Makes(x) = {} /\ Breaks(x) = {}
  BY <1>2 DEF Makes, Breaks
<1>4. Needs(x) =
        {TableFact(t) : t \in {u \in Tables : proc \in {TableProc(u, "create"),
                                                        TableProc(u, "delete")}}}
          \cup {ColumnFact(t) : t \in {u \in Tables : proc = TableProc(u, "column")}}
  BY <1>2 DEF Needs
<1>5. \A t, u, a, b : TableProc(t, a) = TableProc(u, b) => t = u /\ a = b
  BY DEF TableProc
<1>6. \A t, a : Len(AdHocProc) = 1 /\ Len(TableProc(t, a)) = 2
  BY DEF TableProc, AdHocProc
<1>7. ASSUME NEW t \in Tables
      PROVE  /\ proc = TableProc(t, "create") => Needs(x) \subseteq {TableFact(t)}
             /\ proc = TableProc(t, "delete") => Needs(x) \subseteq {TableFact(t)}
             /\ proc = TableProc(t, "column") => Needs(x) \subseteq {ColumnFact(t)}
  <2>1. \A u \in Tables : \A a, b : TableProc(t, a) = TableProc(u, b) => t = u /\ a = b
    BY <1>5
  <2>2. "create" # "column" /\ "delete" # "column"
    OBVIOUS
  <2> QED  BY <1>4, <2>1, <2>2
<1>8. proc = AdHocProc => Needs(x) = {}
  <2>1. \A u \in Tables : AdHocProc # TableProc(u, "create") /\ AdHocProc # TableProc(u, "delete")
                          /\ AdHocProc # TableProc(u, "column")
    BY <1>6
  <2> QED  BY <1>4, <2>1
<1> QED  BY <1>1, <1>3, <1>7, <1>8

\* A procedure whose table is known runs, and nothing changes.
LEMMA RunOnceReady ==
  ASSUME NEW E, NEW proc, NEW n, Needs(Do("run", proc, 0)) \subseteq E
  PROVE  Ready(E, RunOnce(proc, n), E)
<1> DEFINE c == Condition(ProcFacet(proc), TRUE, NoFacet)
           go == Do("run", proc, 0)
           set == SetFacet(ProcFacet(proc), Number(n))
           S == {go, set}
<1>1. RunOnce(proc, n) = If(c, <<go, set>>)
  BY DEF RunOnce
<1>2. IsStatement(go) /\ Needs(go) \subseteq E /\ Makes(go) = {} /\ Breaks(go) \cap E = {}
  BY RunNeeds
<1>3. IsStatement(set) /\ Needs(set) \subseteq E /\ Makes(set) = {} /\ Breaks(set) \cap E = {}
  BY PlainFacts
<1> HIDE DEF c, go, set
<1>4. <<go, set>> \in Seq(S)
  OBVIOUS
<1>5. \A x \in S : /\ IsStatement(x) /\ Needs(x) \subseteq E
                   /\ Makes(x) = {} /\ Breaks(x) \cap E = {}
  BY <1>2, <1>3
<1> HIDE DEF S
<1> QED  BY <1>1, <1>4, <1>5, ReadyIf

\* The procedures of a version run when its tables and columns are there.
LEMMA MigrateDataReady ==
  ASSUME NEW s, WellFormed(s), ~MigratesDeletedBase(s), NEW v \in Nat, v > 0
  PROVE  Ready(KnownAfter(s, v), MigrateData(s, v), KnownAfter(s, v))
<1> DEFINE E == KnownAfter(s, v)
           creates == [t \in Tables |->
             IF CreatedIn(s, t, v) /\ HasProc(s, t, "create")
             THEN RunOnce(TableProc(t, "create"), v) ELSE << >>]
           columns == [t \in Tables |->
             IF ColumnIn(s, t, v) /\ HasProc(s, t, "column")
             THEN RunOnce(TableProc(t, "column"), v) ELSE << >>]
           deletes == [t \in Tables |->
             IF DeletedIn(s, t, v) /\ HasProc(s, t, "delete")
             THEN RunOnce(TableProc(t, "delete"), v) ELSE << >>]
           adhoc == IF s.adhoc = v THEN RunOnce(AdHocProc, v) ELSE << >>
<1>1. MigrateData(s, v) = ForEach(TableOrder, creates) \o ForEach(TableOrder, columns)
                            \o ForEach(Reverse(TableOrder), deletes) \o adhoc
  BY DEF MigrateData
<1>2. TableOrder \in Seq(Tables) /\ Reverse(TableOrder) \in Seq(Tables)
  BY NamesAssumption, ReverseType
<1>3. \A t \in Tables : TableFact(t) \in E <=> t \in AddedBy(s, v)
  BY KnownFacts DEF KnownAfter
<1>4. \A t \in Tables : ColumnFact(t) \in E <=> t \in ExtendedBy(s, v)
  BY KnownFacts DEF KnownAfter
<1> HIDE DEF E
<1>5. Ready(E, << >>, E)
  BY ReadyNone
<1>6. ASSUME NEW t \in Tables PROVE Ready(E, creates[t], E)
  <2>1. CASE CreatedIn(s, t, v) /\ HasProc(s, t, "create")
    <3>1. t \in AddedBy(s, v)
      BY <2>1, TableVersions DEF CreatedIn, AddedBy
    <3>2. Needs(Do("run", TableProc(t, "create"), 0)) \subseteq E
      BY <1>3, <3>1, RunNeeds
    <3> QED  BY <2>1, <3>2, RunOnceReady
  <2> QED  BY <1>5, <2>1
<1>7. ASSUME NEW t \in Tables PROVE Ready(E, columns[t], E)
  <2>1. CASE ColumnIn(s, t, v) /\ HasProc(s, t, "column")
    <3>1. t \in ExtendedBy(s, v)
      BY <2>1 DEF ColumnIn, ExtendedBy
    <3>2. Needs(Do("run", TableProc(t, "column"), 0)) \subseteq E
      BY <1>4, <3>1, RunNeeds
    <3> QED  BY <2>1, <3>2, RunOnceReady
  <2> QED  BY <1>5, <2>1
<1>8. ASSUME NEW t \in Tables PROVE Ready(E, deletes[t], E)
  <2>1. CASE DeletedIn(s, t, v) /\ HasProc(s, t, "delete")
    <3>1. s.tables[t].plan # "base"
      BY <2>1 DEF MigratesDeletedBase
    <3>2. Kept(s, t) /\ s.tables[t].delete = v
      BY <2>1 DEF DeletedIn
    <3>3. s.tables[t].plan = "create"
      BY <3>1, <3>2 DEF Kept
    <3>4. s.tables[t].version \in Nat /\ v > s.tables[t].version
      BY <3>2, TableVersions
    <3>5. t \in AddedBy(s, v)
      BY <3>3, <3>4 DEF AddedBy
    <3>6. Needs(Do("run", TableProc(t, "delete"), 0)) \subseteq E
      BY <1>3, <3>5, RunNeeds
    <3> QED  BY <2>1, <3>6, RunOnceReady
  <2> QED  BY <1>5, <2>1
<1>9. Ready(E, adhoc, E)
  <2>1. Needs(Do("run", AdHocProc, 0)) \subseteq E
    BY RunNeeds
  <2> QED  BY <1>5, <2>1, RunOnceReady
<1> HIDE DEF creates, columns, deletes, adhoc
<1>10. /\ Ready(E, ForEach(TableOrder, creates), E)
       /\ Ready(E, ForEach(TableOrder, columns), E)
       /\ Ready(E, ForEach(Reverse(TableOrder), deletes), E)
  BY <1>2, <1>6, <1>7, <1>8, ReadyEach
<1>11. Ready(E, ForEach(TableOrder, creates) \o ForEach(TableOrder, columns), E)
  BY <1>10, ReadyConcat
<1>12. Ready(E, ForEach(TableOrder, creates) \o ForEach(TableOrder, columns)
                  \o ForEach(Reverse(TableOrder), deletes), E)
  BY <1>10, <1>11, ReadyConcat
<1>13. Ready(E, ForEach(TableOrder, creates) \o ForEach(TableOrder, columns)
                  \o ForEach(Reverse(TableOrder), deletes) \o adhoc, E)
  BY <1>9, <1>12, ReadyConcat
<1> QED  BY <1>1, <1>13 DEF E

\* All versions, from the first.
LEMMA UpgradeVersionsReady ==
  ASSUME NEW s, WellFormed(s), DeletedRefsFit(s), ~MigratesDeletedBase(s)
  PROVE  Ready({Dictionary}, UpgradeVersions(s), {})
<1> DEFINE n == MaxVersion(s)
           seqs == [v \in 1..n |-> UpgradeToVersion(s, v)]
           known == [v \in 0..n |-> KnownAfter(s, v)]
<1>1. n \in Nat
  BY MaxVersionType
<1> HIDE DEF n
<1>2. /\ seqs = [v \in 1..n |-> seqs[v]]
      /\ \A v \in 1..n : seqs[v] = UpgradeToVersion(s, v) /\ v \in Nat /\ v > 0
                         /\ known[v] = KnownAfter(s, v) /\ known[v - 1] = KnownAfter(s, v - 1)
      /\ known[0] = KnownAfter(s, 0)
  BY <1>1
<1> HIDE DEF seqs, known
<1>3. \A v \in 1..n : Ready(known[v - 1], seqs[v], known[v])
  <2> TAKE v \in 1..n
  <2>1. v \in Nat /\ v > 0
    BY <1>2
  <2>2. /\ Ready(KnownAfter(s, v - 1), AlterSchema(s, v), KnownAfter(s, v))
        /\ Ready(KnownAfter(s, v), MigrateData(s, v), KnownAfter(s, v))
    BY <2>1, AlterSchemaReady, MigrateDataReady
  <2>3. Ready(KnownAfter(s, v - 1), UpgradeToVersion(s, v), KnownAfter(s, v))
    BY <2>2, ReadyConcat DEF UpgradeToVersion
  <2> QED  BY <1>2, <2>3
<1>4. Ready(known[0], FlattenSeq(seqs), known[n])
  BY <1>1, <1>2, <1>3, ReadyFlatten
<1>5. known[0] \subseteq {Dictionary}
  <2>1. AddedBy(s, 0) = {}
    <3>1. \A t \in Tables : s.tables[t].version \in Nat
            /\ (s.tables[t].plan = "create" => s.tables[t].version > 0)
      BY TableVersions
    <3> QED  BY <3>1 DEF AddedBy
  <2>2. ExtendedBy(s, 0) = {}
    BY DEF ExtendedBy
  <2> QED  BY <1>2, <2>1, <2>2 DEF KnownAfter, Known
<1>6. Ready({Dictionary}, FlattenSeq(seqs), {})
  BY <1>4, <1>5, ReadyWeaken
<1> QED  BY <1>6 DEF UpgradeVersions, seqs, n

-----------------------------------------------------------------------------
(* The plan of a whole script. *)

NoVirtualChanged(s) == Condition(NoVirtualCrcFacet, FALSE, NoVirtualCrc(s))

\* a[k]: what is known before statement k of the main steps of s.
IsPlan(s, a) ==
  /\ a[1] = {}
  /\ \A k \in 1..Len(MainSteps(s)) :
       LET x == MainSteps(s)[k] IN
       /\ IsStatement(x)
       /\ Needs(x) \subseteq a[k] /\ a[k + 1] \subseteq (a[k] \ Breaks(x)) \cup Makes(x)
       /\ 1 \in DOMAIN x.when /\ x.when[1] = NoVirtualChanged(s)
       /\ Makes(x) # {} => x.when = <<NoVirtualChanged(s)>>

Plan(s) == CHOOSE a : IsPlan(s, a)

\* The versions find the dictionary before them; what is around them finds nothing
\* and needs nothing.
LEMMA BodyReady ==
  ASSUME NEW s, WellFormed(s), DeletedRefsFit(s), ~MigratesDeletedBase(s)
  PROVE  \E body : MainSteps(s) = If(NoVirtualChanged(s), body) /\ Ready({}, body, {})
<1> DEFINE W == Restless
           defs == <<Do("get table defs", "", 0)>>
           recreate == IF Groups(s) # {} THEN RecreateTables(s, FALSE) ELSE << >>
           last == <<SetFacet(VersionFacet, Number(MaxVersion(s))),
                     SetFacet(NoVirtualCrcFacet, NoVirtualCrc(s))>>
           body == DropViews(s) \o DropIndices(s) \o DropTriggers(s) \o InstallBaseline(s)
                   \o defs \o UpgradeVersions(s) \o DropTables(s) \o recreate
                   \o CreateViews(s) \o CreateIndices(s) \o CreateTriggers(s) \o last
<1>1. MainSteps(s) = If(NoVirtualChanged(s), body)
  BY DEF MainSteps, IfFacetIsNot, NoVirtualChanged
<1>2. W \in SUBSET Restless
  OBVIOUS
<1>3. Lawful(s, W, recreate)
  BY <1>2, RecreateTablesLawful, LawfulOne
<1>4. Lawful(s, W, last)
  <2>1. Permitted(s, W, "set facet", VersionFacet, Number(MaxVersion(s)))
    BY DEF Permitted, Creates, OnTables, Restless
  <2>2. Stmt(s, W, SetFacet(VersionFacet, Number(MaxVersion(s))))
    BY <2>1, DoStmt DEF SetFacet
  <2>3. Stmt(s, W, SetFacet(NoVirtualCrcFacet, NoVirtualCrc(s)))
    BY <1>2, SetFacetStmt, OtherFacets
  <2> QED  BY <2>2, <2>3, LawfulOne
<1>5. Ready({}, defs, {Dictionary})
  <2> DEFINE x == Do("get table defs", "", 0)
  <2>1. IsStatement(x)
    BY DoFields, Zenon
  <2>2. x.op = "get table defs"
    BY DoFields, Zenon
  <2>3. x.when = << >>
    BY DoWhen, Zenon
  <2> HIDE DEF x
  <2>4. Needs(x) = {} /\ Makes(x) = {Dictionary} /\ Breaks(x) = {}
    BY <2>2 DEF Needs, Makes, Breaks
  <2>5. Ready({}, <<x>>, {Dictionary})
    BY <2>1, <2>3, <2>4, ReadyOne
  <2> QED  BY <2>5 DEF x
<1> HIDE DEF W, defs, recreate, last
<1>6. Ready({}, ((DropViews(s) \o DropIndices(s)) \o DropTriggers(s)) \o InstallBaseline(s), {})
  BY <1>2, ViewsLawful, IndicesLawful, TriggersLawful, BaselineLawful, LawfulConcat, ReadyQuiet
     DEF W
<1> DEFINE a == ((DropViews(s) \o DropIndices(s)) \o DropTriggers(s)) \o InstallBaseline(s)
<1>7. /\ Ready({}, DropTables(s), {}) /\ Ready({}, recreate, {}) /\ Ready({}, last, {})
      /\ Ready({}, CreateViews(s), {}) /\ Ready({}, CreateIndices(s), {})
      /\ Ready({}, CreateTriggers(s), {})
  BY <1>2, <1>3, <1>4, DropTablesLawful, ViewsLawful, IndicesLawful, TriggersLawful, ReadyQuiet
     DEF W
<1> HIDE DEF a
<1>8. Ready({}, (a \o defs) \o UpgradeVersions(s), {})
  BY <1>5, <1>6, UpgradeVersionsReady, ReadyConcat DEF a
<1> DEFINE b == (a \o defs) \o UpgradeVersions(s)
<1> HIDE DEF b
<1>9. Ready({}, (b \o DropTables(s)) \o recreate, {})
  BY <1>7, <1>8, ReadyConcat DEF b
<1> DEFINE c == (b \o DropTables(s)) \o recreate
<1> HIDE DEF c
<1>10. Ready({}, ((c \o CreateViews(s)) \o CreateIndices(s)) \o CreateTriggers(s), {})
  BY <1>7, <1>9, ReadyConcat DEF c
<1>11. Ready({}, (((c \o CreateViews(s)) \o CreateIndices(s)) \o CreateTriggers(s)) \o last, {})
  BY <1>7, <1>10, ReadyConcat
<1>12. body = (((c \o CreateViews(s)) \o CreateIndices(s)) \o CreateTriggers(s)) \o last
  BY DEF a, b, c
<1> HIDE DEF body
<1> QED  BY <1>1, <1>11, <1>12

\* Every script of such a schema has a plan.
LEMMA PlanExists ==
  ASSUME NEW s, WellFormed(s), DeletedRefsFit(s), ~MigratesDeletedBase(s)
  PROVE  IsPlan(s, Plan(s))
<1> DEFINE c == NoVirtualChanged(s)
<1>1. PICK body : MainSteps(s) = If(c, body) /\ Ready({}, body, {})
  BY BodyReady
<1>2. PICK a : Outline(body, a) /\ a[1] \subseteq {}
  BY <1>1 DEF Ready
<1>3. Len(body) \in Nat /\ DOMAIN body = 1..Len(body)
  <2> DEFINE S == ToSet(body)
  <2>1. body \in Seq(S)
    BY <1>1 DEF Ready
  <2> HIDE DEF S
  <2> QED  BY <2>1
<1> HIDE DEF c
<1>4. /\ Len(MainSteps(s)) = Len(body)
      /\ \A k \in 1..Len(body) : MainSteps(s)[k] = [body[k] EXCEPT !.when = <<c>> \o body[k].when]
  BY <1>1, <1>3 DEF If
<1>5. ASSUME NEW k \in 1..Len(body), NEW x, x = MainSteps(s)[k]
      PROVE  /\ IsStatement(x)
             /\ Needs(x) \subseteq a[k] /\ a[k + 1] \subseteq (a[k] \ Breaks(x)) \cup Makes(x)
             /\ 1 \in DOMAIN x.when /\ x.when[1] = c
             /\ Makes(x) # {} => x.when = <<c>>
  <2> DEFINE y == body[k]
             w == <<c>> \o y.when
  <2>1. /\ Needs(y) \subseteq a[k] /\ a[k + 1] \subseteq (a[k] \ Breaks(y)) \cup Makes(y)
        /\ IsStatement(y) /\ (Makes(y) # {} => y.when = << >>)
    BY <1>2 DEF Outline
  <2>2. x = [y EXCEPT !.when = w]
    BY <1>4, <1>5
  <2>3. IsSequence(w) /\ 1 \in DOMAIN w /\ w[1] = c /\ (y.when = << >> => w = <<c>>)
    BY <2>1, OneMore DEF IsStatement
  <2> HIDE DEF y, w
  <2>4. /\ IsStatement(x) /\ x.when = w
        /\ Makes(x) = Makes(y) /\ Breaks(x) = Breaks(y) /\ Needs(x) = Needs(y)
    BY <2>1, <2>2, <2>3, SameWhen
  <2> QED  BY <2>1, <2>3, <2>4
<1>6. IsPlan(s, a)
  BY <1>2, <1>4, <1>5 DEF IsPlan, c
<1> QED  BY <1>6 DEF Plan

\* The steps of a script: the main ones first, then those for the virtual tables,
\* which need nothing of the kind.
LEMMA ScriptParts ==
  ASSUME NEW s, WellFormed(s), NEW v \in BOOLEAN
  PROVE  /\ Len(MainSteps(s)) \in Nat
         /\ \A k \in 1..Len(Script(s, v)) :
              /\ Script(s, v)[k].at = k
              /\ k <= Len(MainSteps(s)) => Script(s, v)[k] = [MainSteps(s)[k] EXCEPT !.at = k]
              /\ k > Len(MainSteps(s)) => Stmt(s, Restless, Script(s, v)[k])
<1> DEFINE virtual == IF v THEN VirtualSteps(s) ELSE << >>
           main == MainSteps(s)
           steps == main \o virtual
           S == ToSet(main)
           T == ToSet(virtual)
<1>1. Lawful(s, Restless, virtual)
  <2> DEFINE W == Restless
             recreate == IF Groups(s) # {} THEN RecreateTables(s, TRUE) ELSE << >>
  <2>0. W \in SUBSET Restless
    OBVIOUS
  <2> HIDE DEF W
  <2>1. Lawful(s, W, recreate)
    BY <2>0, RecreateTablesLawful, LawfulOne
  <2>2. Lawful(s, W, <<SetFacet(CrcFacet, SchemaCrc(s))>>)
    BY <2>0, SetFacetStmt, OtherFacets, LawfulOne
  <2> HIDE DEF recreate
  <2>3. Lawful(s, W, recreate \o <<SetFacet(CrcFacet, SchemaCrc(s))>>)
    BY <2>1, <2>2, LawfulConcat
  <2>4. Lawful(s, W, VirtualSteps(s))
    BY <2>3 DEF VirtualSteps, recreate
  <2>5. Lawful(s, W, << >>)
    BY LawfulOne
  <2> QED  BY <2>4, <2>5 DEF W
<1>2. Lawful(s, {}, main)
  BY MainStepsLawful
<1> DEFINE script == [k \in DOMAIN steps |-> [steps[k] EXCEPT !.at = k]]
<1>3. Script(s, v) = script
  BY DEF Script
<1> HIDE DEF virtual, main
<1>4. main \in Seq(S) /\ virtual \in Seq(T) /\ (\A x \in S : Stmt(s, {}, x))
      /\ \A x \in T : Stmt(s, Restless, x)
  BY <1>1, <1>2 DEF Lawful
<1> HIDE DEF S, T
<1>5. /\ Len(main) \in Nat /\ Len(virtual) \in Nat /\ Len(steps) = Len(main) + Len(virtual)
      /\ DOMAIN steps = 1..Len(steps)
      /\ \A k \in 1..Len(main) : steps[k] = main[k] /\ main[k] \in S
      /\ \A k \in 1..Len(virtual) : steps[Len(main) + k] = virtual[k] /\ virtual[k] \in T
  BY <1>4
<1> HIDE DEF steps
<1>6. Len(script) = Len(steps) /\ \A k \in 1..Len(steps) : script[k] = [steps[k] EXCEPT !.at = k]
  BY <1>5
<1> HIDE DEF script
<1>7. ASSUME NEW k \in 1..Len(script)
      PROVE  /\ script[k].at = k
             /\ k <= Len(main) => script[k] = [main[k] EXCEPT !.at = k]
             /\ k > Len(main) => Stmt(s, Restless, script[k])
  <2> DEFINE x == steps[k]
  <2>1. script[k] = [x EXCEPT !.at = k]
    BY <1>6
  <2>2. CASE k <= Len(main)
    <3>1. x = main[k] /\ Stmt(s, {}, x)
      BY <1>4, <1>5, <1>6, <2>2
    <3> HIDE DEF x
    <3> QED  BY <2>1, <2>2, <3>1, SameStatement
  <2>3. CASE k > Len(main)
    <3> DEFINE j == k - Len(main)
    <3>1. j \in 1..Len(virtual) /\ k = Len(main) + j
      BY <1>5, <1>6, <2>3
    <3> HIDE DEF j
    <3>2. Stmt(s, Restless, x)
      BY <1>4, <1>5, <3>1
    <3> HIDE DEF x
    <3>3. ASSUME NEW y, Stmt(s, Restless, y)
          PROVE  Stmt(s, Restless, [y EXCEPT !.at = k]) /\ [y EXCEPT !.at = k].at = k
      BY <3>3, SameStatement
    <3>4. ~(k <= Len(main))
      BY <1>5, <2>3
    <3> QED  BY <2>1, <3>2, <3>3, <3>4
  <2> QED  BY <1>5, <1>6, <2>2, <2>3
<1> QED  BY <1>3, <1>5, <1>7 DEF main

-----------------------------------------------------------------------------
(* What is known while a script runs. *)

\* Fact f holds.
Established(f) ==
  /\ f = Dictionary =>
       /\ \A t \in run.known : db.tables[t].exists
       /\ \A t \in run.columns : db.tables[t].exists /\ db.tables[t].column
  /\ \A t \in Tables : /\ f = TableFact(t) => db.tables[t].exists
                       /\ f = ColumnFact(t) => db.tables[t].exists /\ db.tables[t].column

Memory(r, pc, known, columns) == r.pc = pc /\ r.known = known /\ r.columns = columns

\* What a run keeps in memory, field by field.
LEMMA RunFields ==
  ASSUME NEW r, RunOK(r), NEW n, NEW q
  PROVE  /\ q = [r EXCEPT !.pc = n] => Memory(q, n, r.known, r.columns)
         /\ \A x : q = [r EXCEPT !.pc = n, !.lost = x]
                   => Memory(q, n, r.known, r.columns)
         /\ \A x : q = [r EXCEPT !.pc = n, !.facets = x]
                   => Memory(q, n, r.known, r.columns)
         /\ \A x : q = [r EXCEPT !.pc = n, !.saved = x]
                   => Memory(q, n, r.known, r.columns)
         /\ \A x, k, c : q = [r EXCEPT !.pc = n, !.known = k, !.columns = c, !.lost = x]
                         => Memory(q, n, k, c)
         /\ \A k, c : q = [r EXCEPT !.pc = n, !.known = k, !.columns = c]
                      => Memory(q, n, k, c)
<1>1. PICK P, V, F, S, K, C, L :
        r = [pc |-> P, virtual |-> V, facets |-> F, saved |-> S,
             known |-> K, columns |-> C, lost |-> L]
  BY DEF RunOK, IsRun
<1>2. r.known = K /\ r.columns = C
  BY <1>1
<1>3. q = [r EXCEPT !.pc = n] => Memory(q, n, K, C)
  BY <1>1 DEF Memory
<1>4. \A x : q = [r EXCEPT !.pc = n, !.lost = x] => Memory(q, n, K, C)
  BY <1>1 DEF Memory
<1>5. \A x : q = [r EXCEPT !.pc = n, !.facets = x] => Memory(q, n, K, C)
  BY <1>1 DEF Memory
<1>6. \A x : q = [r EXCEPT !.pc = n, !.saved = x] => Memory(q, n, K, C)
  BY <1>1 DEF Memory
<1>7. \A x, k, c : q = [r EXCEPT !.pc = n, !.known = k, !.columns = c, !.lost = x]
                   => Memory(q, n, k, c)
  BY <1>1 DEF Memory
<1>8. \A k, c : q = [r EXCEPT !.pc = n, !.known = k, !.columns = c]
                => Memory(q, n, k, c)
  BY <1>1 DEF Memory
<1> QED  BY <1>2, <1>3, <1>4, <1>5, <1>6, <1>7, <1>8

\* A script that is not refused goes on after x, and its dictionaries change
\* only where x says so.
LEMMA NextStatement ==
  ASSUME RunOK(run), NEW x, Execute(x), run'.pc > 0
  PROVE  /\ run'.pc = After(x)
         /\ \/ /\ x.op \notin {"drop table and forget", "get table defs"}
               /\ run'.known = run.known /\ run'.columns = run.columns
            \/ /\ x.op = "drop table and forget"
               /\ run'.known = run.known \ {x.name} /\ run'.columns = run.columns \ {x.name}
            \/ /\ x.op = "get table defs" /\ db' = db
               /\ run'.known = {t \in Tables : db.tables[t].exists}
               /\ run'.columns = {t \in Tables : db.tables[t].exists /\ db.tables[t].column}
<1> DEFINE q == run'
           n == After(x)
<1>1. ~Refused
  <2>1. Refused => run'.pc = 0
    BY DEF Refused, Idle
  <2> QED  BY <2>1
<1>2. CASE GetTableDefs(x)
  <2> DEFINE k == {t \in Tables : db.tables[t].exists}
             c == {t \in Tables : db.tables[t].exists /\ db.tables[t].column}
  <2>1. q = [run EXCEPT !.pc = n, !.known = k, !.columns = c] /\ db' = db
        /\ x.op = "get table defs"
    BY <1>2 DEF GetTableDefs
  <2> HIDE DEF q, n, k, c
  <2>2. Memory(q, n, k, c)
    BY <2>1, RunFields
  <2> QED  BY <2>1, <2>2 DEF Memory, q, n, k, c
<1>3. CASE DropTableAndForget(x)
  <2> DEFINE k == run.known \ {x.name}
             c == run.columns \ {x.name}
             l == run.lost \cup LostWith(x.name)
  <2>1. q = [run EXCEPT !.pc = n, !.known = k, !.columns = c, !.lost = l]
        /\ x.op = "drop table and forget"
    BY <1>3 DEF DropTableAndForget
  <2> HIDE DEF q, n, k, c, l
  <2>2. Memory(q, n, k, c)
    BY <2>1, RunFields
  <2> QED  BY <2>1, <2>2 DEF Memory, q, n, k, c
<1>4. CASE ~GetTableDefs(x) /\ ~DropTableAndForget(x)
  <2>1. \/ q = [run EXCEPT !.pc = n]
        \/ \E y : q = [run EXCEPT !.pc = n, !.lost = y]
        \/ \E y : q = [run EXCEPT !.pc = n, !.facets = y]
        \/ \E y : q = [run EXCEPT !.pc = n, !.saved = y]
    <3>1. \/ Advance(x) \/ DropTable(x) \/ SetFacetVersion(x) \/ ForgetSavedFacet(x)
      BY <1>1, <1>4 DEF Execute, DropView, CreateView, DropTrigger, CreateTrigger, DropIndex,
         CreateIndex, CreateKeptTable, CreateTableIfUnknown, CreateRecreateTable,
         AddColumnIfUnknown, SetVersionCrc, RunProcedure
    <3>2. Advance(x) => q = [run EXCEPT !.pc = n]
      BY DEF Advance
    <3>3. DropTable(x) => \E y : q = [run EXCEPT !.pc = n, !.lost = y]
      BY DEF DropTable
    <3>4. SetFacetVersion(x) => \E y : q = [run EXCEPT !.pc = n, !.facets = y]
      BY DEF SetFacetVersion
    <3>5. ForgetSavedFacet(x) => \E y : q = [run EXCEPT !.pc = n, !.saved = y]
      BY DEF ForgetSavedFacet
    <3> HIDE DEF q, n
    <3> QED  BY <3>1, <3>2, <3>3, <3>4, <3>5
  <2>2. x.op \notin {"drop table and forget", "get table defs"}
    BY <1>4 DEF Execute, DropView, CreateView, DropTrigger, CreateTrigger, DropIndex,
       CreateIndex, CreateKeptTable, CreateTableIfUnknown, CreateRecreateTable,
       AddColumnIfUnknown, DropTable, SetFacetVersion, SetVersionCrc, ForgetSavedFacet,
       RunProcedure
  <2> HIDE DEF q, n
  <2>3. Memory(q, n, run.known, run.columns)
    BY <2>1, RunFields
  <2> QED  BY <2>2, <2>3 DEF Memory, q, n
<1> QED  BY <1>2, <1>3, <1>4

\* A statement that finds what it needs establishes what it makes, and ends only
\* what it breaks.
LEMMA FactsFollow ==
  ASSUME DbOK(db), RunOK(run), NEW s, NEW x, Stmt(s, {}, x), x.at \in Nat, Execute(x),
         run'.pc > 0, \A f \in Needs(x) : Established(f),
         NEW f, f \in Makes(x) \/ (Established(f) /\ f \notin Breaks(x))
  PROVE  Established(f)'
<1>1. Outcome(s, x)
  BY ExecuteOutcome
<1>2. \A t \in Tables :
        \/ Survives(db, db', t)
        \/ x.op \in {"drop table", "drop table and forget"} /\ x.name = t
  BY <1>1 DEF Outcome
<1>3. run.known \subseteq Tables /\ run.columns \subseteq Tables
  BY DEF RunOK
<1>4. CASE f = Dictionary
  <2>1. SUFFICES /\ \A t \in run'.known : db'.tables[t].exists
                 /\ \A t \in run'.columns : db'.tables[t].exists /\ db'.tables[t].column
    BY <1>4, FactsDiffer DEF Established
  <2>2. CASE x.op = "get table defs"
    <3>1. /\ db' = db
          /\ run'.known = {t \in Tables : db.tables[t].exists}
          /\ run'.columns = {t \in Tables : db.tables[t].exists /\ db.tables[t].column}
      BY <2>2, NextStatement
    <3> QED  BY <3>1
  <2>3. CASE x.op # "get table defs"
    <3>1. Makes(x) \subseteq {TableFact(x.name), ColumnFact(x.name)}
      BY <2>3 DEF Makes
    <3>2. f \notin Makes(x)
      BY <1>4, <3>1, FactsDiffer
    <3>3. Established(Dictionary) /\ Dictionary \notin Breaks(x)
      BY <1>4, <3>2
    <3>4. x.op # "drop table"
      BY <3>3 DEF Breaks
    <3>5. /\ \A t \in run.known : db.tables[t].exists
          /\ \A t \in run.columns : db.tables[t].exists /\ db.tables[t].column
      BY <3>3 DEF Established
    <3>6. \/ run'.known = run.known /\ run'.columns = run.columns
          \/ /\ x.op = "drop table and forget"
             /\ run'.known = run.known \ {x.name} /\ run'.columns = run.columns \ {x.name}
      BY <2>3, NextStatement
    <3>7. CASE x.op # "drop table and forget"
      <4>1. \A t \in Tables : Survives(db, db', t)
        BY <1>2, <3>4, <3>7
      <4> QED  BY <1>3, <3>5, <3>6, <3>7, <4>1 DEF Survives
    <3>8. CASE x.op = "drop table and forget"
      <4>1. run'.known = run.known \ {x.name} /\ run'.columns = run.columns \ {x.name}
        BY <3>8, NextStatement
      <4>2. \A t \in Tables \ {x.name} : Survives(db, db', t)
        BY <1>2
      <4> QED  BY <1>3, <3>5, <4>1, <4>2 DEF Survives
    <3> QED  BY <3>7, <3>8
  <2> QED  BY <2>2, <2>3
<1>5. ASSUME NEW t \in Tables, f = TableFact(t) PROVE db'.tables[t].exists
  <2>1. CASE f \in Makes(x)
    <3>1. x.op = "create table if unknown" /\ x.name = t
      BY <1>5, <2>1, FactsDiffer DEF Makes
    <3>2. Dictionary \in Needs(x)
      BY <3>1 DEF Needs
    <3>3. \A u \in run.known : db.tables[u].exists
      BY <3>2 DEF Established
    <3>4. db' = IF t \in run.known \/ db.tables[t].exists THEN db
                ELSE [db EXCEPT !.tables[t] = NewTable(x.value, TRUE)]
      BY <3>1 DEF Execute, DropView, CreateView, DropTrigger, CreateTrigger, DropIndex,
         CreateIndex, CreateKeptTable, CreateTableIfUnknown, CreateRecreateTable,
         AddColumnIfUnknown, DropTable, DropTableAndForget, SetFacetVersion, SetVersionCrc,
         ForgetSavedFacet, RunProcedure, GetTableDefs
    <3>5. CASE t \in run.known \/ db.tables[t].exists
      BY <3>3, <3>4, <3>5
    <3>6. CASE ~(t \in run.known \/ db.tables[t].exists)
      <4> DEFINE new == NewTable(x.value, TRUE)
      <4>1. new.exists
        BY DEF NewTable
      <4>2. db' = [db EXCEPT !.tables[t] = new]
        BY <3>4, <3>6
      <4> HIDE DEF new
      <4>3. db'.tables[t] = new
        BY <4>2 DEF DbOK, IsDb
      <4> QED  BY <4>1, <4>3
    <3> QED  BY <3>5, <3>6
  <2>2. CASE f \notin Makes(x)
    <3>1. db.tables[t].exists /\ TableFact(t) \notin Breaks(x)
      BY <1>5, <2>2 DEF Established
    <3>2. ~(x.op \in {"drop table", "drop table and forget"} /\ x.name = t)
      BY <3>1 DEF Breaks
    <3> QED  BY <1>2, <3>1, <3>2 DEF Survives
  <2> QED  BY <2>1, <2>2
<1>6. ASSUME NEW t \in Tables, f = ColumnFact(t)
      PROVE  db'.tables[t].exists /\ db'.tables[t].column
  <2>1. CASE f \in Makes(x)
    <3>1. x.op = "add column if unknown" /\ x.name = t
      BY <1>6, <2>1, FactsDiffer DEF Makes
    <3>2. Dictionary \in Needs(x)
      BY <3>1 DEF Needs
    <3>3. \A u \in run.columns : db.tables[u].exists /\ db.tables[u].column
      BY <3>2 DEF Established
    <3>4. AddColumnIfUnknown(x)
      BY <3>1 DEF Execute, DropView, CreateView, DropTrigger, CreateTrigger, DropIndex,
         CreateIndex, CreateKeptTable, CreateTableIfUnknown, CreateRecreateTable,
         DropTable, DropTableAndForget, SetFacetVersion, SetVersionCrc,
         ForgetSavedFacet, RunProcedure, GetTableDefs
    <3>5. ~Refused
      BY DEF Refused, Idle
    <3>6. \/ t \in run.columns /\ db' = db
          \/ db.tables[t].exists /\ db' = [db EXCEPT !.tables[t].column = TRUE]
      BY <3>1, <3>4, <3>5 DEF AddColumnIfUnknown
    <3>7. CASE t \in run.columns /\ db' = db
      BY <3>3, <3>7
    <3>8. CASE db.tables[t].exists /\ db' = [db EXCEPT !.tables[t].column = TRUE]
      <4> DEFINE new == [db.tables[t] EXCEPT !.column = TRUE]
      <4>1. new.exists = db.tables[t].exists /\ new.column
        <5>1. db.tables[t] \in DbTables
          BY DEF DbOK
        <5> QED  BY <5>1 DEF DbTables
      <4>2. db' = [db EXCEPT !.tables[t] = new]
        BY <3>8
      <4> HIDE DEF new
      <4>3. db'.tables[t] = new
        BY <4>2 DEF DbOK, IsDb
      <4> QED  BY <3>8, <4>1, <4>3
    <3> QED  BY <3>6, <3>7, <3>8
  <2>2. CASE f \notin Makes(x)
    <3>1. db.tables[t].exists /\ db.tables[t].column /\ ColumnFact(t) \notin Breaks(x)
      BY <1>6, <2>2 DEF Established
    <3>2. ~(x.op \in {"drop table", "drop table and forget"} /\ x.name = t)
      BY <3>1 DEF Breaks
    <3> QED  BY <1>2, <3>1, <3>2 DEF Survives
  <2> QED  BY <2>1, <2>2
<1>7. CASE f # Dictionary
  BY <1>5, <1>6, <1>7 DEF Established
<1> QED  BY <1>4, <1>7

\* While the main steps run, what their plan has for the next statement is so.
PlanInv ==
  run.pc > 0 /\ run.pc <= Len(MainSteps(Current)) =>
    \A f \in Plan(Current)[run.pc] : Established(f)

\* No release migrates the deletion of a baseline table.
NoDeletedBase == \A i \in DOMAIN releases : ~MigratesDeletedBase(releases[i])

\* What is known before the statement that is due: statements that were passed over
\* would have established nothing, for what establishes a fact waits for no
\* condition but that of the main steps as a whole.
LEMMA DueFacts ==
  ASSUME UpgradeInv, PlanInv, DeletedRefsFit(Current), ~MigratesDeletedBase(Current),
         NEW x \in Due
  PROVE  /\ \A f \in Needs(x) : Established(f)
         /\ After(x) <= Len(MainSteps(Current)) =>
              \A f \in Plan(Current)[After(x)] :
                f \in Makes(x) \/ (Established(f) /\ f \notin Breaks(x))
<1> DEFINE script == Script(Current, run.virtual)
           main == MainSteps(Current)
           m == Len(main)
           a == Plan(Current)
           c == NoVirtualChanged(Current)
<1>1. WellFormed(Current) /\ Current \in Schemas /\ RunOK(run)
  BY CurrentSchema DEF UpgradeInv
<1>2. /\ run.virtual \in BOOLEAN /\ run.pc \in Nat /\ run.pc > 0
      /\ \E k \in run.pc .. Len(script) :
           /\ x = script[k] /\ Opens(script, k)
           /\ \A j \in run.pc .. k - 1 : ~Opens(script, j)
  BY <1>1, DueAt DEF Running
<1>3. PICK k \in run.pc .. Len(script) :
        /\ x = script[k] /\ Opens(script, k)
        /\ \A j \in run.pc .. k - 1 : ~Opens(script, j)
  BY <1>2
<1>4. /\ m \in Nat /\ Len(script) \in Nat
      /\ \A j \in 1..Len(script) :
           /\ script[j].at = j
           /\ j <= m => script[j] = [main[j] EXCEPT !.at = j]
           /\ j > m => Stmt(Current, Restless, script[j])
  BY <1>1, <1>2, ScriptParts, ScriptLawful
<1>5. IsPlan(Current, a)
  BY <1>1, PlanExists
<1>6. \A j \in 1..m :
        /\ IsStatement(main[j])
        /\ Needs(main[j]) \subseteq a[j]
        /\ a[j + 1] \subseteq (a[j] \ Breaks(main[j])) \cup Makes(main[j])
        /\ 1 \in DOMAIN main[j].when /\ main[j].when[1] = c
        /\ Makes(main[j]) # {} => main[j].when = <<c>>
  BY <1>5 DEF IsPlan
<1>7. run.pc <= m => \A f \in a[run.pc] : Established(f)
  BY <1>2 DEF PlanInv
<1> HIDE DEF script, main, m, a, c
<1>8. k \in 1..Len(script) /\ x.at = k /\ After(x) = k + 1
  <2>1. k \in 1..Len(script)
    BY <1>2, <1>3, <1>4
  <2>2. x.at = k
    BY <1>3, <1>4, <2>1
  <2> QED  BY <2>1, <2>2 DEF After
<1>9. CASE k > m
  <2>1. Stmt(Current, Restless, x)
    BY <1>3, <1>4, <1>8, <1>9
  <2>2. Needs(x) = {}
    BY <2>1, QuietNeeds
  <2>3. ~(After(x) <= m)
    BY <1>4, <1>8, <1>9
  <2> QED  BY <2>2, <2>3 DEF m, main
<1>10. CASE k <= m
  <2>1. ASSUME NEW j \in run.pc .. k
        PROVE  /\ j \in 1..m
               /\ script[j].when = main[j].when
               /\ Needs(script[j]) = Needs(main[j]) /\ Makes(script[j]) = Makes(main[j])
               /\ Breaks(script[j]) = Breaks(main[j])
    <3>1. j \in 1..m /\ j \in 1..Len(script) /\ j <= m
      BY <1>2, <1>3, <1>4, <1>8, <1>10
    <3> DEFINE y == main[j]
               z == script[j]
    <3>2. IsStatement(y) /\ z = [y EXCEPT !.at = j]
      BY <1>4, <1>6, <3>1
    <3> HIDE DEF y, z
    <3>3. z.when = y.when /\ Needs(z) = Needs(y) /\ Makes(z) = Makes(y) /\ Breaks(z) = Breaks(y)
      BY <3>2, SameAt
    <3> QED  BY <3>1, <3>3 DEF y, z
  <2>2. Holds(c)
    <3>1. k \in run.pc .. k
      BY <1>2, <1>3
    <3>2. k \in 1..m /\ script[k].when = main[k].when
      BY <2>1, <3>1
    <3>3. 1 \in DOMAIN script[k].when /\ script[k].when[1] = c
      BY <1>6, <3>2
    <3> QED  BY <1>3, <3>3 DEF Opens
  <2>3. ASSUME NEW j \in run.pc .. k - 1
        PROVE  a[j + 1] \subseteq a[j]
    <3>1. j \in run.pc .. k
      BY <1>2, <1>3, <1>4
    <3>2. ~Opens(script, j)
      BY <1>3
    <3>3. Makes(main[j]) = {}
      <4> SUFFICES ASSUME Makes(main[j]) # {} PROVE FALSE
        OBVIOUS
      <4>1. script[j].when = <<c>>
        BY <1>6, <2>1, <3>1
      <4>2. \A n \in DOMAIN script[j].when : script[j].when[n] = c
        BY <4>1
      <4> QED  BY <2>2, <3>2, <4>2 DEF Opens
    <3> QED  BY <1>6, <2>1, <3>1, <3>3
  <2>4. a[k] \subseteq a[run.pc]
    <3> DEFINE N == {i \in Nat : run.pc + i <= k => a[run.pc + i] \subseteq a[run.pc]}
    <3>1. 0 \in N
      <4>1. run.pc + 0 = run.pc
        BY <1>2
      <4> QED  BY <4>1
    <3>2. ASSUME NEW i \in Nat, i \in N PROVE i + 1 \in N
      <4> SUFFICES ASSUME run.pc + (i + 1) <= k
                   PROVE  a[run.pc + (i + 1)] \subseteq a[run.pc]
        OBVIOUS
      <4> DEFINE j == run.pc + i
      <4>1. j \in run.pc .. k - 1 /\ run.pc + (i + 1) = j + 1 /\ run.pc + i <= k
        BY <1>2, <1>3, <1>4
      <4>2. a[j] \subseteq a[run.pc]
        BY <3>2, <4>1
      <4> HIDE DEF j
      <4>3. a[j + 1] \subseteq a[j]
        BY <2>3, <4>1
      <4> QED  BY <4>1, <4>2, <4>3
    <3> HIDE DEF N
    <3>3. \A i \in Nat : i \in N
      BY <3>1, <3>2, Induction
    <3>4. k - run.pc \in Nat /\ run.pc + (k - run.pc) = k /\ k <= k
      BY <1>2, <1>3, <1>4
    <3> QED  BY <3>3, <3>4 DEF N
  <2>5. \A f \in a[k] : Established(f)
    <3>1. run.pc <= m
      BY <1>2, <1>3, <1>4, <1>10
    <3> QED  BY <1>7, <2>4, <3>1
  <2>6. /\ Needs(x) \subseteq a[k]
        /\ a[k + 1] \subseteq (a[k] \ Breaks(x)) \cup Makes(x)
    <3>1. k \in run.pc .. k
      BY <1>2, <1>3
    <3>2. /\ k \in 1..m /\ Needs(x) = Needs(main[k]) /\ Makes(x) = Makes(main[k])
          /\ Breaks(x) = Breaks(main[k])
      BY <1>3, <2>1, <3>1
    <3> QED  BY <1>6, <3>2
  <2> QED  BY <1>8, <2>5, <2>6 DEF a
<1> QED  BY <1>4, <1>8, <1>9, <1>10

\* Every step keeps to the plan.
LEMMA NextPlan ==
  ASSUME \A s \in Schemas : DeletedRefsFit(s), UpgradeInv, NoDeletedBase, PlanInv, [Next]_vars
  PROVE  PlanInv'
<1>1. DeletedRefsFit(Current) /\ ~MigratesDeletedBase(Current) /\ WellFormed(Current)
  BY CurrentSchema DEF UpgradeInv, NoDeletedBase, Current
<1>2. ASSUME ~(run'.pc > 0) PROVE PlanInv'
  BY <1>2 DEF PlanInv
<1>3. ASSUME NEW s \in Schemas, Release(s) PROVE PlanInv'
  BY <1>2, <1>3 DEF Release, Running
<1>4. ASSUME NEW i \in DOMAIN releases, Install(i) PROVE PlanInv'
  BY <1>2, <1>4 DEF Install, Running
<1>5. ASSUME NEW v \in BOOLEAN, Start(v) PROVE PlanInv'
  <2>1. run'.pc = 1
    <3> DEFINE f == db.facets
               q == run'
    <3>1. q = [pc |-> 1, virtual |-> v, facets |-> f, saved |-> f,
               known |-> {}, columns |-> {}, lost |-> {}]
      BY <1>5 DEF Start, Idle
    <3> HIDE DEF f, q
    <3>2. q.pc = 1
      BY <3>1
    <3> QED  BY <3>2 DEF q
  <2>2. Current' = Current
    BY <1>5 DEF Start, Current
  <2>3. Plan(Current)[1] = {}
    BY <1>1, PlanExists DEF IsPlan
  <2> QED  BY <2>1, <2>2, <2>3 DEF PlanInv
<1>6. ASSUME NEW x \in Due, Execute(x) PROVE PlanInv'
  <2> SUFFICES ASSUME run'.pc > 0, run'.pc <= Len(MainSteps(Current)')
               PROVE  \A f \in Plan(Current)'[run'.pc] : Established(f)'
    BY DEF PlanInv
  <2>1. Outcome(Current, x) /\ Stmt(Current, {}, x) /\ x.at \in Nat
    BY <1>6, StepOutcome, CurrentSchema, DueStatement DEF UpgradeInv
  <2>2. Current' = Current
    BY <2>1 DEF Outcome, Current
  <2>3. run'.pc = After(x)
    BY <1>6, NextStatement DEF UpgradeInv
  <2>4. /\ \A f \in Needs(x) : Established(f)
        /\ \A f \in Plan(Current)[After(x)] :
             f \in Makes(x) \/ (Established(f) /\ f \notin Breaks(x))
    BY <1>1, <2>2, <2>3, DueFacts
  <2>5. \A f \in Plan(Current)[After(x)] : Established(f)'
    <3> TAKE f \in Plan(Current)[After(x)]
    <3>1. f \in Makes(x) \/ (Established(f) /\ f \notin Breaks(x))
      BY <2>4
    <3> QED  BY <1>6, <2>1, <2>4, <3>1, FactsFollow DEF UpgradeInv
  <2> QED  BY <2>2, <2>3, <2>5
<1>7. ASSUME run' = Idle PROVE PlanInv'
  BY <1>2, <1>7 DEF Idle
<1>8. Step => PlanInv'
  <2> SUFFICES ASSUME Step PROVE PlanInv'
    OBVIOUS
  <2>1. (\E x \in Due : Execute(x)) \/ Finish
    BY DEF Step
  <2> QED  BY <1>6, <1>7, <2>1 DEF Finish
<1>9. Crash => PlanInv'
  BY <1>7 DEF Crash
<1>10. CASE UNCHANGED vars
  BY <1>10 DEF vars, PlanInv, Current, Established
<1> QED  BY <1>3, <1>4, <1>5, <1>8, <1>9, <1>10 DEF Next

\* No release that migrates the deletion of a baseline table is ever made.
LEMMA NextNoDeletedBase ==
  ASSUME "migrate_deleted_base" \notin Practices, UpgradeInv, NoDeletedBase, [Next]_vars
  PROVE  NoDeletedBase'
<1>1. ASSUME NEW s \in Schemas, Release(s) PROVE NoDeletedBase'
  <2>1. releases' = Append(releases, s) /\ ~MigratesDeletedBase(s)
    BY <1>1 DEF Release
  <2>2. releases \in Seq(Schemas)
    BY DEF UpgradeInv
  <2> DEFINE r == releases'
  <2>3. \A i \in DOMAIN r : (i \in DOMAIN releases /\ r[i] = releases[i]) \/ r[i] = s
    BY <2>1, <2>2
  <2> HIDE DEF r
  <2>4. \A i \in DOMAIN r : ~MigratesDeletedBase(r[i])
    BY <2>1, <2>3 DEF NoDeletedBase
  <2> QED  BY <2>4 DEF NoDeletedBase, r
<1>2. CASE UNCHANGED releases
  BY <1>2 DEF NoDeletedBase
<1>3. ASSUME NEW i \in DOMAIN releases, Install(i) PROVE UNCHANGED releases
  BY <1>3 DEF Install
<1>4. ASSUME NEW v \in BOOLEAN, Start(v) PROVE UNCHANGED releases
  BY <1>4 DEF Start
<1>5. Step => UNCHANGED releases
  <2>1. \A x \in Due : Execute(x) => UNCHANGED releases
    BY StepOutcome DEF Outcome
  <2> QED  BY <2>1 DEF Step, Finish
<1>6. Crash \/ UNCHANGED vars => UNCHANGED releases
  BY DEF Crash, vars
<1> QED  BY <1>1, <1>2, <1>3, <1>4, <1>5, <1>6 DEF Next

\* For every family of schemas whose deleted tables refer only to what is created
\* before them, with no migration for the deletion of a baseline table: whenever a
\* migration procedure is due, its table exists, with the new column if it is for
\* one, whatever was skipped, interrupted or run before.
THEOREM MigrationsFindTables ==
  ASSUME \A s \in Schemas : DeletedRefsFit(s), "migrate_deleted_base" \notin Practices
  PROVE  Spec => []MigrationsSeeTheirTable
<1> DEFINE Inv == UpgradeInv /\ NoDeletedBase /\ PlanInv
<1>1. Init => Inv
  <2> SUFFICES ASSUME Init PROVE Inv
    OBVIOUS
  <2>1. PICK s \in Schemas : ~MigratesDeletedBase(s) /\ releases = <<s>>
    BY DEF Init
  <2>2. \A i \in DOMAIN releases : releases[i] = s
    BY <2>1
  <2>3. NoDeletedBase
    BY <2>1, <2>2 DEF NoDeletedBase
  <2>4. run.pc = 0
    BY DEF Init, Idle
  <2>5. PlanInv
    BY <2>4 DEF PlanInv
  <2> QED  BY <2>3, <2>5, InitInv
<1>2. Inv /\ [Next]_vars => Inv'
  <2> SUFFICES ASSUME Inv, [Next]_vars PROVE Inv'
    OBVIOUS
  <2>1. UpgradeInv'
    BY NextInv
  <2>2. NoDeletedBase'
    BY NextNoDeletedBase
  <2>3. PlanInv'
    BY NextPlan
  <2> QED  BY <2>1, <2>2, <2>3
<1>3. Inv => MigrationsSeeTheirTable
  <2> SUFFICES ASSUME Inv, NEW x \in Due, x.op = "run", NEW t \in Tables
               PROVE  /\ x.name \in {TableProc(t, b) : b \in {"create", "column", "delete"}} =>
                           db.tables[t].exists
                      /\ x.name = TableProc(t, "column") => db.tables[t].column
    BY DEF MigrationsSeeTheirTable
  <2>1. DeletedRefsFit(Current) /\ ~MigratesDeletedBase(Current)
    BY CurrentSchema DEF UpgradeInv, NoDeletedBase, Current
  <2>2. \A f \in Needs(x) : Established(f)
    BY <2>1, DueFacts
  <2>3. x.name = TableProc(t, "create") \/ x.name = TableProc(t, "delete")
          => TableFact(t) \in Needs(x)
    BY DEF Needs
  <2>4. x.name = TableProc(t, "column") => ColumnFact(t) \in Needs(x)
    BY DEF Needs
  <2> QED  BY <2>2, <2>3, <2>4 DEF Established
<1> QED  BY <1>1, <1>2, <1>3, PTL DEF Spec
=============================================================================
