------------------------------- MODULE Schema -------------------------------
(***************************************************************************)
(* What a CQL program declares about its schema, and how a declaration may *)
(* change from one release to the next (the previous-schema validation of  *)
(* sources/sem.c).                                                         *)
(*                                                                         *)
(* A table is on one of three plans: "base" (no annotation), "create"      *)
(* (@create) or "recreate" (@recreate); base and create tables keep their  *)
(* data and may only gain columns, recreate tables change at will and are  *)
(* dropped when they do.  The text of a definition is a number: two        *)
(* definitions are the same text exactly when the numbers are equal.       *)
(***************************************************************************)
EXTENDS Integers, Sequences, FiniteSets, SequencesExt

CONSTANTS
  TableOrder,     \* the tables, in the order of their declarations
  IndexOrder,     \* the indices, likewise
  IndexTable,     \* index -> the table it is on
  ViewOrder,
  TriggerOrder,
  TriggerTable    \* trigger -> the table it is on

Tables == ToSet(TableOrder)
Indices == ToSet(IndexOrder)
Views == ToSet(ViewOrder)
Triggers == ToSet(TriggerOrder)

\* No table is declared twice.
ASSUME NamesAssumption ==
  /\ TableOrder \in Seq(Tables) /\ IndexOrder \in Seq(Indices)
  /\ \A j, k \in DOMAIN TableOrder : TableOrder[j] = TableOrder[k] => j = k
  /\ ViewOrder \in Seq(Views) /\ TriggerOrder \in Seq(Triggers)
  /\ IndexTable \in [Indices -> Tables]
  /\ TriggerTable \in [Triggers -> Tables]

Plans == {"none", "base", "create", "recreate"}

\* An index, view or trigger is not declared, declared with @delete, or
\* declared with a definition.
Undeclared == 0
Deleted == -1

\* version 0 stands for "no such annotation".
TableDecls ==
  [plan         : Plans,
   version      : Nat,              \* @create(version)
   fromRecreate : BOOLEAN,          \* @create(version, cql:from_recreate)
   delete       : Nat,              \* @delete(delete), or 1 for @recreate @delete
   unsub        : BOOLEAN,          \* named by an @unsub directive
   column       : Nat,              \* a column with @create(column)
   def          : Nat,              \* the text of the rest of the table
   group        : STRING,           \* @recreate(group), "" for none
   virtual      : BOOLEAN,
   refs         : SUBSET Tables,    \* tables its foreign keys refer to
   procs        : SUBSET {"create", "column", "delete"}] \* annotations with a migration procedure

NoTableDecl ==
  [plan |-> "none", version |-> 0, fromRecreate |-> FALSE, delete |-> 0,
   unsub |-> FALSE, column |-> 0, def |-> 0, group |-> "", virtual |-> FALSE,
   refs |-> {}, procs |-> {}]

SchemaDecls ==
  [tables   : [Tables -> TableDecls],
   indices  : [Indices -> Int],
   views    : [Views -> Int],
   triggers : [Triggers -> Int],
   adhoc    : Nat,                  \* @schema_ad_hoc_migration(adhoc, proc)
   refill   : SUBSET STRING]        \* groups with a recreate migration procedure

Declared(s, t) == s.tables[t].plan # "none"
Recreated(s, t) == s.tables[t].plan = "recreate"
Kept(s, t) == s.tables[t].plan \in {"base", "create"}

\* is_deleted: deleted or unsubscribed
IsDeleted(s, t) == s.tables[t].delete > 0 \/ s.tables[t].unsub
Live(s, t) == Declared(s, t) /\ ~IsDeleted(s, t)

\* create_group_id: a table without a group is a group of its own.
GroupOf(s, t) == IF s.tables[t].group = "" THEN t ELSE s.tables[t].group
Groups(s) == {GroupOf(s, t) : t \in {u \in Tables : Recreated(s, u)}}
InGroup(s, g) == {t \in Tables : Recreated(s, t) /\ GroupOf(s, t) = g}

\* recreate_group_deps: the groups whose tables, unless deleted, refer to tables of g
ChildGroups(s, g) ==
  {GroupOf(s, t) : t \in {u \in Tables : /\ Recreated(s, u) /\ s.tables[u].delete = 0
                                         /\ s.tables[u].refs \cap InGroup(s, g) # {}}}
    \ {g}

\* Every version an annotation of the schema names (an @unsub is recorded as version 1).
Versions(s) ==
  {s.adhoc}
    \cup {s.tables[t].version : t \in {u \in Tables : Kept(s, u)}}
    \cup {s.tables[t].column : t \in {u \in Tables : Kept(s, u)}}
    \cup {s.tables[t].delete : t \in {u \in Tables : Kept(s, u)}}
    \cup (IF \E t \in Tables : Kept(s, t) /\ s.tables[t].unsub THEN {1} ELSE {})

MaxVersion(s) == Max(Versions(s) \cup {0})
-----------------------------------------------------------------------------
(* Declarations the compiler accepts on their own. *)

\* The versions of one table fit together.
VersionsFit(d) ==
  /\ (d.plan = "create") = (d.version > 0)
  /\ d.plan \in {"base", "create"} /\ d.delete > 0 => d.delete > d.version
  /\ d.column > 0 => d.column > d.version /\ (d.delete > 0 => d.column < d.delete)
  /\ d.plan = "recreate" => d.column = 0 /\ d.delete \in {0, 1} /\ d.procs = {}
  /\ d.fromRecreate => d.plan = "create" /\ "create" \notin d.procs
  /\ d.unsub => d.delete = 0
  /\ d.group # "" \/ d.virtual => d.plan = "recreate"

\* A foreign key of t may refer to p: p is declared earlier, neither deleted nor
\* created later, and is not @recreate unless t is.  A deleted table is exempt.
ReferenceOK(s, t, p) ==
  \/ s.tables[t].delete > 0
  \/ /\ \E j, k \in DOMAIN TableOrder : j < k /\ TableOrder[j] = p /\ TableOrder[k] = t
     /\ Declared(s, p) /\ s.tables[p].delete = 0
     /\ s.tables[p].unsub => s.tables[t].unsub
     /\ Recreated(s, t) \/ (Kept(s, p) /\ s.tables[p].version <= s.tables[t].version)

\* walk_recreate_group_deps: every group reached from g along its child groups
Descendants(s, g) ==
  LET Reached[n \in Nat] ==
        IF n = 0 THEN ChildGroups(s, g)
        ELSE Reached[n - 1] \cup UNION {ChildGroups(s, h) : h \in Reached[n - 1]}
  IN  Reached[Len(TableOrder)]

WellFormed(s) ==
  /\ s \in SchemaDecls
  /\ \A t \in Tables : VersionsFit(s.tables[t])
  /\ \A t \in Tables : Declared(s, t) => \A p \in s.tables[t].refs : ReferenceOK(s, t, p)
  /\ \A g \in Groups(s) : g \notin Descendants(s, g)
  /\ s.refill \subseteq Groups(s)
  /\ \A i \in Indices : s.indices[i] # Undeclared =>
       LET d == s.tables[IndexTable[i]]
       IN  d.plan # "none" /\ d.delete = 0 /\ ~d.virtual
  /\ \A r \in Triggers : s.triggers[r] # Undeclared =>
       LET d == s.tables[TriggerTable[r]]
       IN  d.plan # "none" /\ d.delete = 0 /\ ~d.virtual
-----------------------------------------------------------------------------
(* Changes the compiler accepts, given the previous schema. *)

\* A table that was in the previous schema (sem_validate_attrs_prev_cur and
\* sem_validate_previous_table); last is the largest version in that schema.
OldTableOK(p, c, last) ==
  /\ c.plan # "none"
  /\ p.version > 0 \/ p.delete > 0 => (c.plan = "recreate" => p.plan = "recreate")
  /\ p.delete > 0 => c.delete = p.delete
  /\ p.plan = "recreate" /\ c.plan # "recreate" =>
       c.fromRecreate /\ c.delete = 0 /\ c.version >= last
  /\ p.plan # "recreate" =>
       /\ c.plan = "recreate" \/ (c.plan = p.plan /\ c.version = p.version)
       /\ c.fromRecreate = p.fromRecreate
       /\ ("create" \in c.procs) = ("create" \in p.procs)
  /\ p.delete > 0 => ("delete" \in c.procs) = ("delete" \in p.procs)
  /\ p.plan # "recreate" /\ c.plan # "recreate" =>
       /\ c.def = p.def
       /\ p.column > 0 => c.column = p.column /\ c.refs = p.refs
                            /\ ("column" \in c.procs) = ("column" \in p.procs)
       /\ p.column = 0 /\ c.column > 0 => c.column >= last /\ p.refs \subseteq c.refs
       /\ p.column = 0 /\ c.column = 0 => c.refs = p.refs

\* A table that was not (sem_validate_all_tables_not_in_previous).
NewTableOK(c, last) ==
  \/ c.plan \in {"none", "recreate"}
  \/ c.plan = "create" /\ c.version >= last
  \/ c.plan = "base" /\ last = 0

LegalChange(p, c) ==
  /\ \A t \in Tables :
       IF Declared(p, t) THEN OldTableOK(p.tables[t], c.tables[t], MaxVersion(p))
       ELSE NewTableOK(c.tables[t], MaxVersion(p))
  /\ \A i \in Indices : p.indices[i] # Undeclared /\ c.indices[i] = Undeclared =>
       c.tables[IndexTable[i]].delete > 0
  /\ \A r \in Triggers : p.triggers[r] # Undeclared /\ c.triggers[r] = Undeclared =>
       c.tables[TriggerTable[r]].delete > 0
  /\ \A v \in Views : p.views[v] # Undeclared => c.views[v] # Undeclared
  /\ p.adhoc > 0 => c.adhoc = p.adhoc
  /\ p.adhoc = 0 /\ c.adhoc > 0 => c.adhoc >= MaxVersion(p)
=============================================================================
