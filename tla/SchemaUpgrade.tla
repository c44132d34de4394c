---------------------------- MODULE SchemaUpgrade ---------------------------
(***************************************************************************)
(* A device whose database is brought from release to release by the       *)
(* upgrade scripts the compiler generates.                                 *)
(*                                                                         *)
(* The team releases schemas, each accepted by the compiler against the    *)
(* one before it.  The device installs a release, runs its script one      *)
(* statement at a time, may be interrupted after any statement (a crash,   *)
(* or an error SQLite reports), and then runs the script again from the    *)
(* start or installs another release first.                                *)
(***************************************************************************)
EXTENDS UpgradeScript

CONSTANTS
  Schemas,         \* the schemas a release may declare
  Practices,       \* which of AllPractices the team and its devices follow
  MaxReleases, MaxInstalls, MaxCrashes

\* Ways to use the scripts that they do not cope with; see the README.
AllPractices ==
  {"rollback",              \* going back to a release that is not refused as a downgrade
   "revert",                \* after an interruption, installing a release that takes a change back
   "regroup",               \* moving a table from one @recreate group to another
   "drop_dependents",       \* moving a table others refer to from @recreate to @create
   "index_in_group",        \* an index on a table of a group that is not the group's last
   "migrate_deleted_base"}  \* a migration procedure for the deletion of a baseline table

ASSUME UpgradeAssumption ==
  /\ \A s \in Schemas : WellFormed(s)
  /\ Practices \subseteq AllPractices
  /\ MaxReleases \in Nat \ {0} /\ MaxInstalls \in Nat /\ MaxCrashes \in Nat

VARIABLES
  releases,   \* the schemas released so far
  app,        \* the release installed on the device
  db,         \* the database
  run,        \* the execution of the script
  ghost       \* history variables, for the properties only

vars == <<releases, app, db, run, ghost>>

\* Constant, so that TLC computes each script once.
Scripts == [s \in Schemas |-> [v \in BOOLEAN |-> Script(s, v)]]

\* A table in the database: its text, whether it has the added column, whether
\* it was created as a table that keeps its data, and whether the procedure
\* that refills a recreated table has run since.
NoTable == [exists |-> FALSE, def |-> 0, column |-> FALSE, kept |-> FALSE, filled |-> FALSE]
NewTable(def, kept) == [exists |-> TRUE, def |-> def, column |-> FALSE, kept |-> kept, filled |-> FALSE]

Idle ==
  [pc |-> 0, virtual |-> FALSE, facets |-> << >>, saved |-> << >>,
   known |-> {}, columns |-> {}, lost |-> {}]

Current == releases[app]
Running == run.pc > 0
Find(facets, f) == IF f \in DOMAIN facets THEN facets[f] ELSE NoFacet
Upsert(facets, f, v) ==
  [x \in DOMAIN facets \cup {f} |-> IF x = f THEN v ELSE facets[x]]
-----------------------------------------------------------------------------
(* The script goes on with its next statement whose conditions hold. *)

Holds(c) == (Find(run.facets, c.facet) = c.value) = c.equal

\* That statement in a set of its own, which is empty at the end of the script.
DueIn(script) ==
  LET rest == run.pc .. Len(script)
      Open(k) == \A n \in DOMAIN script[k].when : Holds(script[k].when[n])
      First(k) == Open(k) /\ \A j \in run.pc .. k - 1 : ~Open(j)
  IN  IF \E k \in rest : Open(k) THEN {script[CHOOSE k \in rest : First(k)]} ELSE {}

Due == IF Running THEN UNION {DueIn(script) : script \in {Scripts[Current][run.virtual]}} ELSE {}

\* Statement s is done: go on after it.
After(s) == s.at + 1
Advance(s) == run' = [run EXCEPT !.pc = After(s)]

\* SQLite refuses the statement: the script's CATCH drops what it holds in
\* memory and throws.
Refused == run' = Idle /\ ghost' = [ghost EXCEPT !.failed = TRUE] /\ db' = db
-----------------------------------------------------------------------------
(* Statements. *)

DropView(s) ==
  /\ s.op = "drop view"
  /\ db' = [db EXCEPT !.views[s.name] = 0]
  /\ Advance(s)
  /\ UNCHANGED <<releases, app, ghost>>

CreateView(s) ==
  /\ s.op = "create view"
  /\ IF db.views[s.name] = 0
     THEN /\ db' = [db EXCEPT !.views[s.name] = s.value]
          /\ Advance(s)
          /\ UNCHANGED ghost
     ELSE Refused
  /\ UNCHANGED <<releases, app>>

DropTrigger(s) ==
  /\ s.op = "drop trigger"
  /\ db' = [db EXCEPT !.triggers[s.name] = 0]
  /\ Advance(s)
  /\ UNCHANGED <<releases, app, ghost>>

CreateTrigger(s) ==
  /\ s.op = "create trigger"
  /\ IF db.triggers[s.name] = 0 /\ db.tables[TriggerTable[s.name]].exists
     THEN /\ db' = [db EXCEPT !.triggers[s.name] = s.value]
          /\ Advance(s)
          /\ UNCHANGED ghost
     ELSE Refused
  /\ UNCHANGED <<releases, app>>

DropIndex(s) ==
  /\ s.op = "drop index"
  /\ db' = [db EXCEPT !.indices[s.name] = 0]
  /\ Advance(s)
  /\ UNCHANGED <<releases, app, ghost>>

CreateIndex(s) ==
  /\ s.op = "create index"
  /\ IF db.indices[s.name] = 0 /\ db.tables[IndexTable[s.name]].exists
     THEN /\ db' = [db EXCEPT !.indices[s.name] = s.value]
          /\ Advance(s)
          /\ UNCHANGED ghost
     ELSE Refused
  /\ UNCHANGED <<releases, app>>

\* CREATE TABLE IF NOT EXISTS, with the original columns only
CreateKeptTable(s) ==
  /\ s.op = "create kept table"
  /\ db' = IF db.tables[s.name].exists THEN db
           ELSE [db EXCEPT !.tables[s.name] = NewTable(s.value, TRUE)]
  /\ Advance(s)
  /\ UNCHANGED <<releases, app, ghost>>

\* the same, unless <proc>_table_exists finds the table in the dictionary
CreateTableIfUnknown(s) ==
  /\ s.op = "create table if unknown"
  /\ db' = IF s.name \in run.known \/ db.tables[s.name].exists THEN db
           ELSE [db EXCEPT !.tables[s.name] = NewTable(s.value, TRUE)]
  /\ Advance(s)
  /\ UNCHANGED <<releases, app, ghost>>

CreateRecreateTable(s) ==
  /\ s.op = "create recreate table"
  /\ IF db.tables[s.name].exists
     THEN Refused
     ELSE /\ db' = [db EXCEPT !.tables[s.name] = NewTable(s.value, FALSE)]
          /\ Advance(s)
          /\ UNCHANGED ghost
  /\ UNCHANGED <<releases, app>>

\* ALTER TABLE ADD COLUMN, unless <proc>_column_exists finds the column
AddColumnIfUnknown(s) ==
  /\ s.op = "add column if unknown"
  /\ LET t == s.name IN
     IF t \in run.columns \/ (db.tables[t].exists /\ ~db.tables[t].column)
     THEN /\ db' = IF t \in run.columns THEN db ELSE [db EXCEPT !.tables[t].column = TRUE]
          /\ Advance(s)
          /\ UNCHANGED ghost
     ELSE Refused
  /\ UNCHANGED <<releases, app>>

\* DROP TABLE IF EXISTS takes the table's indices and triggers with it.
WithoutTable(d, t) ==
  [d EXCEPT !.tables[t] = NoTable,
            !.indices = [i \in Indices |-> IF IndexTable[i] = t THEN 0 ELSE @[i]],
            !.triggers = [r \in Triggers |-> IF TriggerTable[r] = t THEN 0 ELSE @[r]]]

\* The @recreate groups whose data a drop of t takes.
LostWith(t) ==
  IF db.tables[t].exists /\ Live(Current, t) /\ Recreated(Current, t)
  THEN {GroupOf(Current, t)} ELSE {}

DropTable(s) ==
  /\ s.op = "drop table"
  /\ db' = WithoutTable(db, s.name)
  /\ run' = [run EXCEPT !.pc = After(s), !.lost = @ \cup LostWith(s.name)]
  /\ UNCHANGED <<releases, app, ghost>>

\* <proc>_drop_table_helper also marks the table dropped in the dictionary.
DropTableAndForget(s) ==
  /\ s.op = "drop table and forget"
  /\ db' = WithoutTable(db, s.name)
  /\ run' = [run EXCEPT !.pc = After(s),
                        !.known = @ \ {s.name}, !.columns = @ \ {s.name},
                        !.lost = @ \cup LostWith(s.name)]
  /\ UNCHANGED <<releases, app, ghost>>

\* <proc>_get_table_defs reads the tables' texts into the dictionary.
GetTableDefs(s) ==
  /\ s.op = "get table defs"
  /\ run' = [run EXCEPT !.pc = After(s),
                        !.known = {t \in Tables : db.tables[t].exists},
                        !.columns = {t \in Tables : db.tables[t].exists /\ db.tables[t].column}]
  /\ UNCHANGED <<releases, app, db, ghost>>

\* <proc>_cql_set_facet_version writes the table and the copy in memory
SetFacetVersion(s) ==
  /\ s.op = "set facet"
  /\ db' = [db EXCEPT !.facets = Upsert(@, s.name, s.value)]
  /\ run' = [run EXCEPT !.pc = After(s), !.facets = Upsert(@, s.name, s.value)]
  /\ UNCHANGED <<releases, app, ghost>>

\* <proc>_cql_set_version_crc writes the table only
SetVersionCrc(s) ==
  /\ s.op = "set version crc"
  /\ db' = [db EXCEPT !.facets = Upsert(@, s.name, s.value)]
  /\ Advance(s)
  /\ UNCHANGED <<releases, app, ghost>>

\* <proc>_cql_schema_delete_saved_facet
ForgetSavedFacet(s) ==
  /\ s.op = "forget saved facet"
  /\ run' = [run EXCEPT !.pc = After(s),
       !.saved = [f \in DOMAIN run.saved \ {s.name} |-> run.saved[f]]]
  /\ UNCHANGED <<releases, app, db, ghost>>

\* A migration procedure of the application; one for a recreated group fills
\* its tables.
RunProcedure(s) ==
  /\ s.op = "run"
  /\ db' = [db EXCEPT !.tables = [t \in Tables |->
       IF s.name[1] = "refill" /\ Recreated(Current, t)
            /\ GroupOf(Current, t) = s.value /\ db.tables[t].exists
       THEN [db.tables[t] EXCEPT !.filled = TRUE] ELSE db.tables[t]]]
  /\ Advance(s)
  /\ ghost' = [ghost EXCEPT !.ran = @ \cup {s.name}]
  /\ UNCHANGED <<releases, app>>

\* Mutant of Finish: the dictionaries are not freed.
FinishKeepsMemory ==
  /\ Running
  /\ run' = [run EXCEPT !.pc = 0]
  /\ ghost' = IF run.virtual THEN [ghost EXCEPT !.dirty = FALSE, !.deployed = app] ELSE ghost
  /\ UNCHANGED <<releases, app, db>>

\* The script is done: <proc>_fetch_changed_facets reports, and the memory is freed.
Finish ==
  /\ Running
  /\ run' = Idle
  /\ ghost' = IF run.virtual THEN [ghost EXCEPT !.dirty = FALSE, !.deployed = app] ELSE ghost
  /\ UNCHANGED <<releases, app, db>>

Execute(s) ==
  \/ DropView(s) \/ CreateView(s) \/ DropTrigger(s) \/ CreateTrigger(s)
  \/ DropIndex(s) \/ CreateIndex(s) \/ CreateKeptTable(s) \/ CreateTableIfUnknown(s)
  \/ CreateRecreateTable(s) \/ AddColumnIfUnknown(s) \/ DropTable(s) \/ DropTableAndForget(s)
  \/ GetTableDefs(s) \/ SetFacetVersion(s) \/ SetVersionCrc(s) \/ ForgetSavedFacet(s)
  \/ RunProcedure(s)

Step ==
  \E due \in {Due} :
    \/ \E s \in due : Execute(s)
    \/ due = {} /\ Finish
-----------------------------------------------------------------------------
(* The device and the team. *)

IsCurrent == Find(db.facets, CrcFacet) = SchemaCrc(Current)
RecordedVersion == Find(db.facets, VersionFacet)[1]
IsDowngrade == RecordedVersion > MaxVersion(Current)

\* Mutant of Start: nobody looks at the recorded version.
StartRegardless(virtual) ==
  /\ ~Running
  /\ ~IsCurrent
  /\ run' = [Idle EXCEPT !.pc = 1, !.virtual = virtual,
                         !.facets = db.facets, !.saved = db.facets]
  /\ ghost' = [ghost EXCEPT !.dirty = TRUE]
  /\ UNCHANGED <<releases, app, db>>

\* <proc>_helper and <proc>_perform_needed_upgrades: run the script unless the
\* CRC matches or the database is from a later version.
Start(virtual) ==
  /\ ~Running
  /\ ~IsCurrent /\ ~IsDowngrade
  /\ run' = [Idle EXCEPT !.pc = 1, !.virtual = virtual,
                         !.facets = db.facets, !.saved = db.facets]
  /\ ghost' = [ghost EXCEPT !.dirty = TRUE]
  /\ UNCHANGED <<releases, app, db>>

\* The process ends, or SQLite reports an error, between two statements.
Crash ==
  /\ Running /\ ghost.crashes < MaxCrashes
  /\ run' = Idle
  /\ ghost' = [ghost EXCEPT !.crashes = @ + 1]
  /\ UNCHANGED <<releases, app, db>>

IndexOf(s, x) == IF Live(s, IndexTable[x]) THEN s.indices[x] ELSE Deleted

\* Release i has a table or an index as an earlier release had it, and one in
\* between had not.
TakesBack(i) ==
  \E j, k \in 1 .. i :
    /\ j < k
    /\ \/ \E t \in Tables : /\ releases[i].tables[t] = releases[j].tables[t]
                            /\ releases[i].tables[t] # releases[k].tables[t]
       \/ \E x \in Indices : /\ IndexOf(releases[i], x) = IndexOf(releases[j], x)
                             /\ IndexOf(releases[i], x) # IndexOf(releases[k], x)

Install(i) ==
  /\ ~Running /\ i # app /\ ghost.installs < MaxInstalls
  /\ i < app => "rollback" \in Practices
                  \/ (~ghost.dirty /\ RecordedVersion > MaxVersion(releases[i]))
  /\ i > app /\ ghost.dirty =>
       \/ "rollback" \in Practices
       \/ i > ghost.deployed /\ ("revert" \in Practices \/ ~TakesBack(i))
  /\ app' = i
  /\ ghost' = [ghost EXCEPT !.installs = @ + 1]
  /\ UNCHANGED <<releases, db, run>>

Regroups(p, c) ==
  \E t \in Tables : Recreated(p, t) /\ Recreated(c, t) /\ GroupOf(p, t) # GroupOf(c, t)

\* A table leaves @recreate while a table that refers to it may be in the database.
DropsDependents(c) ==
  \E t, u \in Tables :
    /\ c.tables[t].fromRecreate /\ t \in c.tables[u].refs
    /\ \E k \in DOMAIN releases : Recreated(releases[k], t) /\ Declared(releases[k], u)

IndexInGroup(c) ==
  \E g \in Groups(c) : \E k \in DOMAIN TablesOf(c, g) :
    k < Len(TablesOf(c, g)) /\ LiveIndices(c, TablesOf(c, g)[k]) # << >>

MigratesDeletedBase(c) ==
  \E t \in Tables : c.tables[t].plan = "base" /\ HasProc(c, t, "delete")

\* A release means nothing to a script that is running: releasing between runs
\* reaches the same installs.
Release(s) ==
  /\ ~Running /\ Len(releases) < MaxReleases
  /\ LegalChange(releases[Len(releases)], s) /\ s # releases[Len(releases)]
  /\ Regroups(releases[Len(releases)], s) => "regroup" \in Practices
  /\ DropsDependents(s) => "drop_dependents" \in Practices
  /\ IndexInGroup(s) => "index_in_group" \in Practices
  /\ MigratesDeletedBase(s) => "migrate_deleted_base" \in Practices
  /\ releases' = Append(releases, s)
  /\ UNCHANGED <<app, db, run, ghost>>

\* The first release has no previous schema to be checked against.
Init ==
  /\ \E s \in Schemas :
       /\ IndexInGroup(s) => "index_in_group" \in Practices
       /\ MigratesDeletedBase(s) => "migrate_deleted_base" \in Practices
       /\ releases = <<s>>
  /\ app = 1
  /\ db = [tables |-> [t \in Tables |-> NoTable], indices |-> [i \in Indices |-> 0],
           views |-> [v \in Views |-> 0], triggers |-> [r \in Triggers |-> 0],
           facets |-> << >>]
  /\ run = Idle
  /\ ghost = [failed |-> FALSE, ran |-> {}, dirty |-> FALSE, deployed |-> 0,
              installs |-> 0, crashes |-> 0]

Next ==
  \/ \E s \in Schemas : Release(s)
  \/ \E i \in DOMAIN releases : Install(i)
  \/ \E v \in BOOLEAN : Start(v)
  \/ Step
  \/ Crash

\* The application calls the full upgrade again and again, and a script that
\* is not interrupted goes on.
Spec == Init /\ [][Next]_vars /\ WF_vars(Step) /\ SF_vars(Start(TRUE))
-----------------------------------------------------------------------------
(* Properties. *)

DbTables == [exists : BOOLEAN, def : Nat, column : BOOLEAN, kept : BOOLEAN, filled : BOOLEAN]

\* The state has the shape the actions expect; facets are kept as rows, and
\* nothing of a run stays in memory when no script is running.
UpgradeTypeOK ==
  /\ releases \in Seq(Schemas) /\ Len(releases) \in 1 .. MaxReleases
  /\ app \in DOMAIN releases
  /\ db.tables \in [Tables -> DbTables]
  /\ db.indices \in [Indices -> Nat] /\ db.views \in [Views -> Nat]
  /\ db.triggers \in [Triggers -> Nat]
  /\ run.pc \in Nat
  /\ run.known \subseteq Tables /\ run.columns \subseteq run.known
  /\ ~Running => run = Idle

\* What the database holds of a declared table, index, view or trigger.
TableDeployed(t) ==
  LET d == Current.tables[t]
      x == db.tables[t]
  IN  IF ~Declared(Current, t) THEN TRUE
      ELSE IF IsDeleted(Current, t) THEN ~x.exists
      ELSE /\ x.exists /\ x.def = d.def /\ x.column = (d.column > 0)
           /\ Recreated(Current, t) /\ GroupOf(Current, t) \in Current.refill => x.filled

IndexDeployed(i) ==
  Current.indices[i] # Undeclared =>
    db.indices[i] = IF Live(Current, IndexTable[i]) /\ Current.indices[i] > 0
                    THEN Current.indices[i] ELSE 0

TriggerDeployed(r) ==
  Current.triggers[r] # Undeclared =>
    db.triggers[r] = IF Live(Current, TriggerTable[r]) /\ Current.triggers[r] > 0
                     THEN Current.triggers[r] ELSE 0

ViewDeployed(v) ==
  Current.views[v] # Undeclared =>
    db.views[v] = IF Current.views[v] > 0 THEN Current.views[v] ELSE 0

\* The migration procedures the script has to have run.
NeededProcs ==
  {TableProc(t, "create") : t \in {u \in Tables : HasProc(Current, u, "create")}}
    \cup {TableProc(t, "column") :
            t \in {u \in Tables : HasProc(Current, u, "column") /\ Live(Current, u)}}
    \cup {TableProc(t, "delete") :
            t \in {u \in Tables : HasProc(Current, u, "delete") /\ Current.tables[u].delete > 0}}
    \cup (IF Current.adhoc > 0 THEN {AdHocProc} ELSE {})

NoVirtualDeployed ==
  /\ \A t \in Tables : ~Current.tables[t].virtual => TableDeployed(t)
  /\ \A i \in Indices : IndexDeployed(i)
  /\ \A r \in Triggers : TriggerDeployed(r)
  /\ \A v \in Views : ViewDeployed(v)
  /\ NeededProcs \subseteq ghost.ran

\* When no script is running and the CRC in the facets table says that the
\* database is at the installed release, it is: every declared object is there
\* with its current definition, every deleted one is gone and every migration
\* procedure has run, whatever releases were skipped and wherever scripts were
\* interrupted.  The same without the virtual tables for the CRC that leaves
\* them out.
UpgradeIsComplete ==
  ~Running =>
    /\ Find(db.facets, NoVirtualCrcFacet) = NoVirtualCrc(Current) => NoVirtualDeployed
    /\ IsCurrent => NoVirtualDeployed /\ \A t \in Tables : TableDeployed(t)

\* SQLite accepts every statement of every script: nothing is created twice,
\* and no column, index or trigger is added to a table that is not there.
NoStatementFails == ~ghost.failed

\* A migration procedure runs while the table its annotation is on exists, with
\* the new column if it is for one.
MigrationsSeeTheirTable ==
  \A s \in Due : s.op = "run" =>
    \A t \in Tables :
      /\ s.name \in {TableProc(t, a) : a \in {"create", "column", "delete"}} =>
           db.tables[t].exists
      /\ s.name = TableProc(t, "column") => db.tables[t].column

\* At the end of a script, the facet of every @recreate group whose tables it
\* dropped is among the changed facets it reports, the groups dropped only
\* because they depend on a changed one included.
ReportIsComplete ==
  Running /\ Due = {} =>
    \A g \in run.lost :
      LET f == GroupFacet(g) IN
      f \in DOMAIN db.facets /\ (f \in DOMAIN run.saved => run.saved[f] # db.facets[f])

\* A table created to keep its data, live in the installed release and never
\* declared @recreate on the way, is never dropped and keeps its column.
PreciousDataSurvives ==
  [][\A t \in Tables :
       /\ db.tables[t].exists /\ db.tables[t].kept /\ Live(Current, t)
       /\ \A k \in 1 .. app : ~Recreated(releases[k], t)
       => db'.tables[t].exists /\ (db.tables[t].column => db'.tables[t].column)]_vars

\* A script whose schema is older than the version on record does not touch the
\* database, and the version on record never goes back.
DowngradeRefused ==
  [][db' # db => RecordedVersion <= MaxVersion(Current) /\ RecordedVersion' >= RecordedVersion]_vars

\* Once releases, installs and crashes stop, the device ends with the database
\* at its release, or refuses the release as a downgrade: no script fails for
\* ever or leaves work that a further run would not do.
UpgradeCompletes == <>[](~Running /\ (IsCurrent \/ IsDowngrade))
=============================================================================
