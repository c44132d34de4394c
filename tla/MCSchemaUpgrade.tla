-------------------------- MODULE MCSchemaUpgrade ---------------------------
(***************************************************************************)
(* Small families of schemas for SchemaUpgrade.  A release never leaves    *)
(* its family, because declared tables have to stay declared.              *)
(***************************************************************************)
EXTENDS SchemaUpgrade

MCTableOrder == <<"p", "d", "m", "r", "c", "e", "x">>
MCIndexOrder == <<"ip", "im", "ir", "ic">>
MCIndexTable == [ip |-> "p", im |-> "m", ir |-> "r", ic |-> "c"]
MCViewOrder == <<"v">>
MCTriggerOrder == <<"g">>
MCTriggerTable == [g |-> "p"]

Empty ==
  [tables |-> [t \in Tables |-> NoTableDecl], indices |-> [i \in Indices |-> Undeclared],
   views |-> [v \in Views |-> Undeclared], triggers |-> [r \in Triggers |-> Undeclared],
   adhoc |-> 0, refill |-> {}]

Base == [NoTableDecl EXCEPT !.plan = "base", !.def = 1]
Created(version) == [NoTableDecl EXCEPT !.plan = "create", !.def = 1, !.version = version]
Recreate(def) == [NoTableDecl EXCEPT !.plan = "recreate", !.def = def]

\* Tables that keep their data: a column added with a migration procedure,
\* subscription given up and taken up, and indices, a view and a trigger that
\* change or go.
KeptFamily ==
  LET First == [Empty EXCEPT !.tables.p = Base, !.indices.ip = 1, !.views.v = 1, !.triggers.g = 1]
      Column == [First EXCEPT !.tables.p.column = 2, !.tables.p.procs = {"column"}]
  IN  {First,
       [Column EXCEPT !.indices.ip = 2, !.views.v = 2, !.triggers.g = 2],
       [Column EXCEPT !.indices.ip = Deleted, !.views.v = Deleted, !.triggers.g = Deleted],
       [First EXCEPT !.tables.p.unsub = TRUE]}

\* Tables created in a version, one that refers to the baseline's, with a column
\* added later, deleted later or unsubscribed, and an ad hoc migration.
CreatedFamily ==
  LET First == [Empty EXCEPT !.tables.p = Base]
      Second == [First EXCEPT !.tables.d = [Created(1) EXCEPT !.procs = {"create"}, !.refs = {"p"}]]
  IN  {First, Second,
       [Second EXCEPT !.tables.d.column = 2, !.tables.p.column = 1],
       [Second EXCEPT !.tables.d.unsub = TRUE],
       [Second EXCEPT !.tables.d.delete = 2, !.tables.d.procs = {"create", "delete"},
                      !.tables.p.delete = 2, !.adhoc = 2]}

\* A table that gives up its data and later keeps it again, with an index.
MovedFamily ==
  LET First == [Empty EXCEPT !.tables.m = Base, !.indices.im = 1]
      Second == [First EXCEPT !.tables.m = Recreate(2)]
      Third == [Second EXCEPT !.tables.m = [Created(1) EXCEPT !.fromRecreate = TRUE, !.def = 3]]
  IN  {First, Second, Third,
       [Third EXCEPT !.tables.m.column = 2, !.indices.im = 2]}

\* Recreated tables r, c that refers to r, and e that refers to c; c is refilled
\* by a procedure and has an index, and r and c may share a group.
RecreateFamily ==
  LET First == [Empty EXCEPT !.tables.r = Recreate(1),
                             !.tables.c = [Recreate(1) EXCEPT !.refs = {"r"}],
                             !.tables.e = [Recreate(1) EXCEPT !.refs = {"c"}],
                             !.indices.ic = 1, !.refill = {"c"}]
  IN  {First,
       [First EXCEPT !.tables.r.def = 2],
       [First EXCEPT !.tables.c.def = 2, !.indices.ic = 2, !.tables.e.unsub = TRUE],
       [First EXCEPT !.tables.e.refs = {}, !.tables.c.delete = 1, !.refill = {},
                     !.indices.ic = Undeclared]}

\* The same with r and c in one group, which is rebuilt as a whole.
GroupFamily ==
  LET First == [Empty EXCEPT !.tables.r = [Recreate(1) EXCEPT !.group = "both"],
                             !.tables.c = [Recreate(1) EXCEPT !.group = "both", !.refs = {"r"}],
                             !.tables.e = [Recreate(1) EXCEPT !.refs = {"r"}],
                             !.indices.ic = 1, !.refill = {"both"}]
  IN  {First,
       [First EXCEPT !.tables.r.def = 2, !.indices.ic = 2],
       [First EXCEPT !.tables.c.unsub = TRUE]}

\* A virtual table beside a table that keeps its data.
VirtualFamily ==
  LET First == [Empty EXCEPT !.tables.p = Base,
                             !.tables.x = [Recreate(1) EXCEPT !.virtual = TRUE]]
  IN  {First,
       [First EXCEPT !.tables.x.def = 2, !.tables.p.column = 1],
       [First EXCEPT !.tables.x.delete = 1]}

MCSchemas ==
  KeptFamily \cup CreatedFamily \cup MovedFamily \cup RecreateFamily
    \cup GroupFamily \cup VirtualFamily

-----------------------------------------------------------------------------
(* Schemas whose upgrades go wrong, one practice each. *)

\* A baseline table deleted with a migration procedure.
DeletedBaseSchemas ==
  {[Empty EXCEPT !.tables.p = Base,
                 !.tables.d = [Base EXCEPT !.delete = 1, !.procs = {"delete"}]]}

\* Table m comes from @recreate in the version that deletes c, which once referred
\* to m and is migrated away.
DroppedDeletedSchemas ==
  {[Empty EXCEPT !.tables.m = [Created(2) EXCEPT !.fromRecreate = TRUE],
                 !.tables.c = [Created(1) EXCEPT !.delete = 2, !.procs = {"delete"},
                                                 !.refs = {"m"}]]}

\* Table m moves from @recreate to @create while c, which keeps its data, gains a
\* column that refers to m.
DependentSchemas ==
  LET First == [Empty EXCEPT !.tables.m = Recreate(1), !.tables.c = Created(1)]
  IN  {First,
       [First EXCEPT !.tables.m = [Created(1) EXCEPT !.fromRecreate = TRUE],
                     !.tables.c.column = 2, !.tables.c.refs = {"m"}]}

\* Only the index on the first table of a group changes.
IndexInGroupSchemas ==
  LET First == [Empty EXCEPT !.tables.r = [Recreate(1) EXCEPT !.group = "both"],
                             !.tables.c = [Recreate(1) EXCEPT !.group = "both"],
                             !.indices.ir = 1]
  IN  {First, [First EXCEPT !.indices.ir = 2]}

\* Only an index changes, so that the next release may change it back.
RevertSchemas ==
  LET First == [Empty EXCEPT !.tables.p = Base, !.indices.ip = 1]
  IN  {First, [First EXCEPT !.indices.ip = 2]}

=============================================================================
