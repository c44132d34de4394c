---------------------------- MODULE UpgradeScript ---------------------------
(***************************************************************************)
(* The upgrade script the compiler generates for a schema                  *)
(* (cg_schema_upgrade_main in sources/cg_schema.c), as the sequence of the *)
(* statements it executes, each of which SQLite commits on its own.        *)
(*                                                                         *)
(* The procedures of the script are expanded in place, and the IFs around  *)
(* a statement are its list of conditions on facets: no statement of a     *)
(* block changes a facet the block's IF tests, except the last.            *)
(*                                                                         *)
(* Facets are rows of the facets table: names with a version or a CRC.     *)
(* The CRC of a text is taken to be the text itself, and the exclusive or  *)
(* of CRCs the set of the texts that occur an odd number of times.         *)
(***************************************************************************)
EXTENDS Schema

Crc(text) == <<"crc", text>>
Number(n) == <<n>>
NoFacet == Number(-1)

IndexFacet(i) == <<"index_crc", i>>
GroupFacet(g) == <<"group_crc", g>>            \* also <table>_table_crc
OneTimeDropFacet(t) == <<"1_time_drop", t>>
ProcFacet(p) == <<"proc", p>>
BaselineFacet == <<"cql_schema_v0">>
VersionFacet == <<"cql_schema_version">>
CrcFacet == <<"cql_schema_crc">>
NoVirtualCrcFacet == <<"cql_schema_crc_no_virtual">>
AllTablesFacet(virtual) ==
  IF virtual THEN <<"all_virtual_tables_crc">> ELSE <<"all_nonvirtual_tables_crc">>

\* Migration procedures, named after the annotation that names them.
TableProc(t, annotation) == <<annotation, t>>
AdHocProc == <<"ad hoc">>
RefillProc(g) == <<"refill", g>>

\* One statement: name and value are its operands, when its conditions, at its
\* position in the script.
Do(op, name, value) == [op |-> op, name |-> name, value |-> value, when |-> << >>, at |-> 0]
SetFacet(facet, value) == Do("set facet", facet, value)

Condition(facet, equal, value) == [facet |-> facet, equal |-> equal, value |-> value]
If(condition, statements) ==
  [k \in DOMAIN statements |-> [statements[k] EXCEPT !.when = <<condition>> \o @]]
IfFacetIsNot(facet, value, statements) == If(Condition(facet, FALSE, value), statements)

\* The parts of a sequence, one for each name in order.
ForEach(order, part) == FlattenSeq([k \in DOMAIN order |-> part[order[k]]])

\* The names of S, in order.
Among(order, S) ==
  ForEach(order, [x \in ToSet(order) |-> IF x \in S THEN <<x>> ELSE << >>])
-----------------------------------------------------------------------------
(* Views, triggers and indices. *)

\* cg_schema_manage_views
DropViews(s) ==
  ForEach(ViewOrder, [v \in Views |->
    IF s.views[v] = Undeclared THEN << >> ELSE <<Do("drop view", v, 0)>>])

CreateViews(s) ==
  ForEach(ViewOrder, [v \in Views |->
    IF s.views[v] > 0 THEN <<Do("create view", v, s.views[v])>> ELSE << >>])

\* Mutant of DropTriggers: only condemned triggers are dropped.
DropCondemnedTriggers(s) ==
  ForEach(TriggerOrder, [r \in Triggers |->
    IF s.triggers[r] = Deleted THEN <<Do("drop trigger", r, 0)>> ELSE << >>])

\* cg_schema_manage_triggers
DropTriggers(s) ==
  ForEach(TriggerOrder, [r \in Triggers |->
    IF s.triggers[r] = Undeclared THEN << >> ELSE <<Do("drop trigger", r, 0)>>])

CreateTriggers(s) ==
  ForEach(TriggerOrder, [r \in Triggers |->
    IF s.triggers[r] > 0 /\ ~IsDeleted(s, TriggerTable[r])
    THEN <<Do("create trigger", r, s.triggers[r])>> ELSE << >>])

\* Mutant of CondemnIndex: the facet stays.
CondemnIndexKeepsFacet(i) == <<Do("drop index", i, 0)>>

CondemnIndex(i) == <<Do("drop index", i, 0), SetFacet(IndexFacet(i), NoFacet)>>

\* cg_schema_manage_indices: a condemned index is dropped and its facet
\* reset; a changed one is dropped; one on a @recreate table is left to it.
DropIndices(s) ==
  ForEach(IndexOrder, [i \in Indices |->
    IF s.indices[i] = Undeclared THEN << >>
    ELSE IF s.indices[i] = Deleted \/ IsDeleted(s, IndexTable[i])
    THEN CondemnIndex(i)
    ELSE IF Recreated(s, IndexTable[i]) THEN << >>
    ELSE IfFacetIsNot(IndexFacet(i), Crc(s.indices[i]), <<Do("drop index", i, 0)>>)])

CreateIndices(s) ==
  ForEach(IndexOrder, [i \in Indices |->
    IF s.indices[i] > 0 /\ ~IsDeleted(s, IndexTable[i]) /\ ~Recreated(s, IndexTable[i])
    THEN IfFacetIsNot(IndexFacet(i), Crc(s.indices[i]),
           <<Do("create index", i, s.indices[i]),
             SetFacet(IndexFacet(i), Crc(s.indices[i]))>>)
    ELSE << >>])
-----------------------------------------------------------------------------
(* Tables that keep their data. *)

\* cg_generate_baseline_tables
InBaseline(s, t) == s.tables[t].plan = "base" /\ ~IsDeleted(s, t)
BaselineCrc(s) == Crc({<<t, s.tables[t].def>> : t \in {u \in Tables : InBaseline(s, u)}})

InstallBaseline(s) ==
  IF \E t \in Tables : InBaseline(s, t)
  THEN IfFacetIsNot(BaselineFacet, BaselineCrc(s),
         ForEach(TableOrder, [t \in Tables |->
           IF InBaseline(s, t) THEN <<Do("create kept table", t, s.tables[t].def)>> ELSE << >>])
         \o <<Do("set version crc", BaselineFacet, BaselineCrc(s))>>)
  ELSE <<Do("set version crc", BaselineFacet, NoFacet)>>

\* emit_full_drop: t and, first, every table that refers to it
FullDrop(s, t) ==
  LET Sources(u) == {v \in Tables \ {u} : Declared(s, v) /\ u \in s.tables[v].refs}
      Drop[n \in 0 .. Len(TableOrder)] == [u \in Tables |->
        IF n = 0 THEN << >>
        ELSE ForEach(TableOrder, [v \in Tables |->
               IF v \in Sources(u) THEN Drop[n - 1][v] ELSE << >>])
             \o ForEach(IndexOrder, [i \in Indices |->
               IF IndexTable[i] = u /\ s.indices[i] # Undeclared
               THEN <<SetFacet(IndexFacet(i), NoFacet)>> ELSE << >>])
             \o <<Do("drop table and forget", u, 0)>>]
  IN  Drop[Len(TableOrder)][t]

\* Mutant of CreateTable: the one-time drop happens every time.
CreateTableDropsAgain(s, t) ==
  (IF s.tables[t].fromRecreate THEN FullDrop(s, t) ELSE << >>)
  \o <<Do("create table if unknown", t, s.tables[t].def)>>

\* SCHEMA_ANNOTATION_CREATE_TABLE, for a table created in any version
CreateTable(s, t) ==
  (IF s.tables[t].fromRecreate
   THEN IfFacetIsNot(OneTimeDropFacet(t), Number(s.tables[t].version),
          FullDrop(s, t) \o <<SetFacet(OneTimeDropFacet(t), Number(s.tables[t].version))>>)
   ELSE << >>)
  \o <<Do("create table if unknown", t, s.tables[t].def)>>

\* A migration procedure runs unless its facet says that it has.
RunOnce(proc, version) ==
  If(Condition(ProcFacet(proc), TRUE, NoFacet),
     <<Do("run", proc, 0), SetFacet(ProcFacet(proc), Number(version))>>)

HasProc(s, t, annotation) == annotation \in s.tables[t].procs
CreatedIn(s, t, v) == s.tables[t].plan = "create" /\ s.tables[t].version = v
ColumnIn(s, t, v) == Kept(s, t) /\ s.tables[t].column = v /\ ~IsDeleted(s, t)
DeletedIn(s, t, v) == Kept(s, t) /\ s.tables[t].delete = v

\* The tables and columns of version v.
AlterSchema(s, v) ==
  ForEach(TableOrder, [t \in Tables |-> IF CreatedIn(s, t, v) THEN CreateTable(s, t) ELSE << >>])
  \o ForEach(TableOrder, [t \in Tables |->
       IF ColumnIn(s, t, v) THEN <<Do("add column if unknown", t, 0)>> ELSE << >>])

\* The migration procedures that its annotations name (cg_schema_end_version).
MigrateData(s, v) ==
  ForEach(TableOrder, [t \in Tables |->
       IF CreatedIn(s, t, v) /\ HasProc(s, t, "create")
       THEN RunOnce(TableProc(t, "create"), v) ELSE << >>])
  \o ForEach(TableOrder, [t \in Tables |->
       IF ColumnIn(s, t, v) /\ HasProc(s, t, "column")
       THEN RunOnce(TableProc(t, "column"), v) ELSE << >>])
  \o ForEach(Reverse(TableOrder), [t \in Tables |->
       IF DeletedIn(s, t, v) /\ HasProc(s, t, "delete")
       THEN RunOnce(TableProc(t, "delete"), v) ELSE << >>])
  \o (IF s.adhoc = v THEN RunOnce(AdHocProc, v) ELSE << >>)

\* Mutant of UpgradeToVersion: the procedures run first.
UpgradeToVersionMigratesFirst(s, v) == MigrateData(s, v) \o AlterSchema(s, v)

\* The annotations of version v in the order of annotation_comparator.
UpgradeToVersion(s, v) == AlterSchema(s, v) \o MigrateData(s, v)

UpgradeVersions(s) == FlattenSeq([v \in 1 .. MaxVersion(s) |-> UpgradeToVersion(s, v)])

\* <proc>_cql_drop_tables: the @delete drops by version, then the @unsub drops
DropTables(s) ==
  FlattenSeq([v \in 1 .. MaxVersion(s) |->
    ForEach(Reverse(TableOrder), [t \in Tables |->
      IF DeletedIn(s, t, v) THEN <<Do("drop table", t, 0)>> ELSE << >>])])
  \o ForEach(Reverse(TableOrder), [t \in Tables |->
       IF Kept(s, t) /\ s.tables[t].unsub THEN <<Do("drop table", t, 0)>> ELSE << >>])
-----------------------------------------------------------------------------
(* Tables that are recreated (cg_schema_manage_recreate_tables). *)

TablesOf(s, g) == Among(TableOrder, InGroup(s, g))

\* The live indices of a live table, in order.
LiveIndices(s, t) ==
  Among(IndexOrder, {i \in Indices : IndexTable[i] = t /\ s.indices[i] > 0 /\ Live(s, t)})

\* The groups of S, in the order of their first tables.
GroupsAmong(s, S) ==
  ForEach(TableOrder, [t \in Tables |->
    IF Recreated(s, t) /\ GroupOf(s, t) \in S /\ t = TablesOf(s, GroupOf(s, t))[1]
    THEN <<GroupOf(s, t)>> ELSE << >>])

\* The texts whose CRCs go into the group's, table by table: its CREATE TABLE,
\* and what the buffers of table drops and of index creates hold by then.
CrcTexts(s, g) ==
  LET ts == TablesOf(s, g)
      Make(t) == IF Live(s, t) THEN <<"make", t, s.tables[t].def, s.tables[t].refs>> ELSE <<"">>
      Indexed(t) == LET is == LiveIndices(s, t)
                    IN  [k \in DOMAIN is |-> <<is[k], s.indices[is[k]]>>]
      DeletedTo(k) == Among(SubSeq(ts, 1, k), {t \in Tables : IsDeleted(s, t)})
  IN  FlattenSeq([k \in DOMAIN ts |->
        <<Make(ts[k]),
          <<"delete", DeletedTo(k)>>,
          <<"index", FlattenSeq([j \in 1 .. k |-> Indexed(ts[j])])>>>>])
      \o (IF g \in s.refill THEN <<<<"refill", g>>>> ELSE << >>)

Xor(texts) ==
  {x \in ToSet(texts) : Cardinality({k \in DOMAIN texts : texts[k] = x}) % 2 = 1}

GroupCrc(s, g) == Crc(Xor(CrcTexts(s, g)))

\* cql_rebuild_recreate_group (sources/cqlrt_common.c), which always recreates
RebuildGroup(s, g) ==
  LET dead == Among(TableOrder, {t \in InGroup(s, g) : IsDeleted(s, t)})
      alive == Among(TableOrder, {t \in InGroup(s, g) : Live(s, t)})
      Drop == [t \in Tables |-> <<Do("drop table", t, 0)>>]
  IN  ForEach(Reverse(dead), Drop) \o ForEach(Reverse(alive), Drop)
      \o ForEach(alive, [t \in Tables |->
           <<Do("create recreate table", t, s.tables[t].def)>>
           \o ForEach(LiveIndices(s, t), [i \in Indices |->
                <<Do("create index", i, s.indices[i])>>])])

\* emit_group_drop: the tables of g after those of the groups that depend on it
GroupDrop(s, g) ==
  LET Drop[n \in 0 .. Len(TableOrder)] == [h \in Groups(s) |->
        IF n = 0 THEN << >>
        ELSE ForEach(GroupsAmong(s, ChildGroups(s, h)), Drop[n - 1])
             \o ForEach(Reverse(TablesOf(s, h)), [t \in Tables |-> <<Do("drop table", t, 0)>>])]
  IN  Drop[Len(TableOrder)][g]

\* Mutant of CondemnGroup: the saved facet stays.
CondemnGroupSilently(g) == <<SetFacet(GroupFacet(g), NoFacet)>>

CondemnGroup(g) ==
  <<SetFacet(GroupFacet(g), NoFacet), Do("forget saved facet", GroupFacet(g), 0)>>

\* One group: rebuild it if its CRC changed, condemn the groups that depend on it.
RecreateGroup(s, g) ==
  LET children == GroupsAmong(s, ChildGroups(s, g))
  IN  IfFacetIsNot(GroupFacet(g), GroupCrc(s, g),
        RebuildGroup(s, g)
        \o ForEach(children, [c \in Groups(s) |-> GroupDrop(s, c)])
        \o ForEach(children, [c \in Groups(s) |-> CondemnGroup(c)])
        \o (IF g \in s.refill THEN <<Do("run", RefillProc(g), g)>> ELSE << >>)
        \o <<SetFacet(GroupFacet(g), GroupCrc(s, g))>>)

VirtualGroup(s, g) == \E t \in InGroup(s, g) : s.tables[t].virtual

\* recreate_comparator: a group comes before the groups that depend on it.  The
\* code leaves the order of unrelated groups to a hash table.
GroupOrder(s, virtual) ==
  LET n == Len(TableOrder)
      Weighing(w) == {g \in Groups(s) : /\ VirtualGroup(s, g) = virtual
                                        /\ Cardinality(Descendants(s, g)) = w}
  IN  FlattenSeq([k \in 1 .. n |-> GroupsAmong(s, Weighing(n - k))])

\* The text of the recreate procedure itself.
AllTablesCrc(s, virtual) ==
  LET order == GroupOrder(s, virtual)
  IN  Crc([k \in DOMAIN order |-> <<order[k], CrcTexts(s, order[k]), ChildGroups(s, order[k])>>])

RecreateTables(s, virtual) ==
  IfFacetIsNot(AllTablesFacet(virtual), AllTablesCrc(s, virtual),
    ForEach(GroupOrder(s, virtual), [g \in Groups(s) |-> RecreateGroup(s, g)])
    \o <<SetFacet(AllTablesFacet(virtual), AllTablesCrc(s, virtual))>>)
-----------------------------------------------------------------------------
(* The whole script. *)

\* cg_schema_compute_crc, with and without the virtual tables
SchemaCrc(s) == Crc(s)
NoVirtualCrc(s) ==
  Crc([s EXCEPT !.tables =
        [t \in Tables |-> IF s.tables[t].virtual THEN NoTableDecl ELSE s.tables[t]]])

\* <proc>_perform_upgrade_steps
MainSteps(s) ==
  IfFacetIsNot(NoVirtualCrcFacet, NoVirtualCrc(s),
    DropViews(s) \o DropIndices(s) \o DropTriggers(s)
    \o InstallBaseline(s)
    \o <<Do("get table defs", "", 0)>>
    \o UpgradeVersions(s)
    \o DropTables(s)
    \o (IF Groups(s) # {} THEN RecreateTables(s, FALSE) ELSE << >>)
    \o CreateViews(s) \o CreateIndices(s) \o CreateTriggers(s)
    \o <<SetFacet(VersionFacet, Number(MaxVersion(s))),
         SetFacet(NoVirtualCrcFacet, NoVirtualCrc(s))>>)

\* Mutant of VirtualSteps: the schema's CRC is not recorded.
VirtualStepsUnrecorded(s) == IF Groups(s) # {} THEN RecreateTables(s, TRUE) ELSE << >>

VirtualSteps(s) ==
  (IF Groups(s) # {} THEN RecreateTables(s, TRUE) ELSE << >>)
  \o <<SetFacet(CrcFacet, SchemaCrc(s))>>

\* The statements, each with its position.
Script(s, includeVirtual) ==
  LET steps == MainSteps(s) \o (IF includeVirtual THEN VirtualSteps(s) ELSE << >>)
  IN  [k \in DOMAIN steps |-> [steps[k] EXCEPT !.at = k]]
=============================================================================
