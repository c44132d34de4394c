# A TLA+ development for CG-SQL

CG-SQL compiles stored procedures written in CQL into C (or Lua) that calls SQLite, and generates
the scripts that upgrade a device's database from one release of a schema to the next.  This
directory models the parts of it whose correctness depends on sequences of steps: the flow
analysis behind type improvements, schema upgrade, the control flow of the generated C, the rewrites
behind backed tables and parent/child results, and the parts of the runtime that all of these stand
on: hash tables, row blobs, key and value blobs, and partitions.  Paths below are relative to the
repository.

## Inventory

| Part | State it keeps | Operations | Interacts with | What makes it correct |
|---|---|---|---|---|
| Flow contexts, `sources/flow.c` | stack of contexts with histories of flag changes, `top_jump_context`, improvement flags on types | push, pop, set, un-set | called by `sem.c` | histories account for every change; a pop restores or merges exactly |
| Nullability inference, `sources/sem.c` | flags on variables, loop analysis state | one handler per statement | drives `flow.c`; `cg_c.c` drops null checks where it improves | a variable taken for NOT NULL is not NULL when the code runs |
| Schema declarations, `sources/sem.c` | tables, columns, versions, groups, the previous schema | declare, compare with the previous schema | feeds schema upgrade | only changes that a script can carry out are accepted |
| Schema upgrade, `sources/cg_schema.c`, `cqlrt_common.c` | facets table, table dictionary, the database | one script per release | runs on devices, after any earlier release, interrupted anywhere | the CRC on record implies the schema; data is kept; procedures see their tables |
| Lexer, grammar, AST, macros: `cql.l`, `cql.y`, `ast.c` | AST, macro argument frames | parse, expand | feeds `sem.c` | expansion ends; nesting is restored |
| Symbol tables, buffers, pools: `symtab.c`, `bytebuf.c`, `charbuf.c`, `minipool.c` | open addressing table, growing buffers | add, find, grow | everything | growth loses nothing |
| Types, enforcement, regions: `sem.c` | enforcement stack, region graph, name scopes | one check per construct | `rewrite.c`, `eval.c` | scopes and options are restored; regions are acyclic |
| Rewriter, `rewrite.c` | AST | one rewrite per construct | `sem.c` | result has the meaning of the original |
| Constant evaluation, `eval.c` | none | fold an expression | `sem.c` | widths, NULL and division as at run time |
| SQL text, `gen_sql.c` | output buffer, callbacks | print | all generators | parsing the text gives the tree back |
| C and Lua code, `cg_c.c`, `cg_lua.c` | scratch variables, cleanup labels, error targets | one function per construct | runtime | references released once on every exit, errors reach the right handler |
| Runtime, `cqlrt_common.c`, `cqlrt.c`, `cqlrt.lua` | reference counts, result sets, dictionaries, blobs, partitions | about 200 functions | generated code, SQLite | counts balance; encodings round-trip |
| JSON, query plan, test helpers, statistics | none | print | AST | text only |

The parts meet in the generated code: a procedure is `cg_c.c`'s translation of statements that
`rewrite.c` may have expanded and `sem.c` has annotated; it calls SQLite and `cqlrt_common.c`, and
every call may fail.  Three of the modules follow such a path from the statement to the runtime:
`GeneratedCode` (statement, C, SQLite), `ParentChild` (statement, expansion, C, partitions, owner of
the result) and `BackedTable` (statement, expansion, blob functions, backing table).

The compiler is single-threaded and keeps its state in globals, so its hard behaviours are long
sequences of legal calls, order, and stale copies.  Upgrade scripts run unattended on devices:
there the hard behaviours are interruption between two statements, skipped releases, going back,
and facets that no longer describe the database.  Generated procedures have no exceptions and no
collector: errors are gotos, and every copy of a reference is paired with a retain and a release by
hand, so there the hard behaviours are a failure between any two calls, a statement reused in the
state an error left it, a pointer into a buffer that has moved, and objects that outlive the
procedure.  PROJECT.json lists the hazards at their lines.

## Modules

| Module | Models | Builds on |
|---|---|---|
| `FlowContext` | the data structures and functions of `flow.c` as operators on one state | |
| `Flow` | `flow.c` as a state machine: any sequence of calls its callers may make | `FlowContext` |
| `FlowProofs` | theorems about `Flow` | `Flow`, `TLAPS` |
| `FlowAnalysis` | the statement handlers of `sem.c`, composed with the execution of the analysed body | `FlowContext` |
| `FlowAnalysisProofs` | theorems about the analysis of `FlowAnalysis` | `FlowAnalysis`, `FlowProofs`, `Recursion` |
| `Schema` | declarations, and which changes the previous-schema check accepts | |
| `UpgradeScript` | the statements `cg_schema_upgrade_main` generates for a schema | `Schema` |
| `SchemaUpgrade` | a device that installs releases and runs their scripts | `UpgradeScript` |
| `Totals` | the sum of a sequence of numbers | |
| `Recursion` | induction over the naturals, and what sums and the sequence operators return | `Totals`, `TLAPS` |
| `SchemaUpgradeProofs` | theorems about `SchemaUpgrade` and the scripts of any schema | `SchemaUpgrade`, `Recursion` |
| `StatementMeaning` | what statements mean, without labels or return codes: the reference for `GeneratedCode` | |
| `GeneratedCode` | the C that `cg_c.c` generates for a procedure, compiled and then run against SQLite | `StatementMeaning` |
| `Dictionary` | what dictionaries promise: a map | |
| `Hashtab` | `cql_hashtab` and the dictionary functions, probe by probe, with reference counts | refines `Dictionary` |
| `HashtabProofs` | theorems about `Hashtab`, the refinement included | `Hashtab`, `TLAPS` |
| `RowBlob` | byte buffers, cursors to blobs and back, blob streams | |
| `RowBlobProofs` | theorems about `RowBlob` | `RowBlob`, `Recursion` |
| `KeyedTables` | what backed tables promise: ordinary tables | |
| `BackedTable` | the rewritten statements and the six blob functions under them | `Totals`, refines `KeyedTables` |
| `BackedTableProofs` | theorems about `BackedTable`, the refinement included | `BackedTable`, `Recursion` |
| `ParentChild` | OUT UNION of a parent joined to children: expansion, C, partitions, owner | `Totals` |
| `ParentChildProofs` | theorems about `ParentChild` | `ParentChild`, `Recursion` |
| `MC...` | small instances of each | |

### Flow

The state `fs` is the stack of open contexts, `top_jump_context` as an index into it, the flags,
and `aborted`, which says that an assertion has failed.  A context has the kind and fields of
`flow_context`.  A history is kept per type as its delta sum, whether a SET occurs in it, and its
oldest item, which is all that the code ever asks of one; `entry`, `outs` and `undone` are history
variables that only the properties read.  Each push, pop, set and un-set of `flow.c` is one action.

`CallersMay` lists two uses of the interface that `sem.c` makes and the code does not account
for.  The run `flow` and the theorems are about callers that make neither; the counterexamples below
show what each one leads to.  Jump contexts may nest.  `undone` of a jump context has what was un-set
while it was the innermost one, so `JumpIsPessimistic` makes no claim about what was un-set in another
jump context within it: that does get lost when a branch in between reverts it (`MCNestJumps.cfg`).

### FlowAnalysis

A body is a sequence of tokens (`if`, `else`, `while`, `setnull`, `call`, ...).  It is grown while
it is analysed, each token by the handler in `sem.c`, loop bodies twice as in
`sem_stmt_list_within_loop`; then it runs, following the control flow that `cg_c.c` generates.
`improved[i]` is what the analysis took for NOT NULL at token `i`, and `InferenceIsSound` compares
it with the variables that are not NULL whenever token `i` runs.  Conditions are abstracted to the
null tests on their AND or OR spine and an opaque rest that may be true or false.

`Shapes` lists combinations of statements that the analysis handles unsoundly; bodies with one are
left out of the passing run.  Three have a counterexample of their own below.  The others were
found the same way and are: a loop or a TRY within a loop or a TRY (an un-set is lost when a branch in
between reverts it); a copy from a variable within a loop (two passes over a body are not a
fixpoint when NULL travels along a chain of copies); an un-improvement in the update list of a
FOR, which is analysed after the body it precedes; and LEAVE in a SWITCH, whose branch is elided
as one that jumps although it only leaves the SWITCH.

### Schema upgrade

A schema gives every table its plan (`base`, `create`, `recreate`), versions, group, references,
column and migration procedures, and every index, view and trigger a definition.  Texts are
numbers, a CRC is its text, and the exclusive or of CRCs is the set of the texts that occur an odd
number of times.  A script is a sequence of statements, each with the facet conditions around it.
`SchemaUpgrade` executes it one statement at a time, since SQLite commits each on its own; `Crash`
between any two of them drops what the script holds in memory.  A statement that SQLite would
refuse ends the script and sets `ghost.failed`.  Foreign keys are not enforced (the SQLite default).

`Practices` lists ways of using the scripts that they do not cope with, left out of the passing run:

- `migrate_deleted_base`, `drop_dependents`, `index_in_group`: see the counterexamples below;
- `rollback`: after an interruption, or a run without virtual tables, the CRC of the previous
  release is still on record, so going back to it does nothing; going back without a change of
  version is not refused either;
- `revert`: a script interrupted after it dropped an index or a group, followed by a release that
  takes the change back, finds a facet that matches and does not create the object again
  (`MCRevert.cfg`);
- `regroup`: the facet of a group that a table left stays behind and matches when it returns.

### Generated code

`Emit` compiles a procedure body, statement by statement, into a sequence of C instructions.  Its
context `x` is the state of the generator that decides where a jump goes: `error_target`,
`rcthrown_current`, `cg_in_loop` and the loop or SWITCH that a `break`, a `continue` or the FOR label belongs to, each saved
and restored by the code that changes it and therefore passed down here.  Then the instructions run:
one action per kind of C statement, over `_rc_`, the saved `_rc_thrown_N`, the state of every
`sqlite3_stmt` and the savepoints.  SQLite may answer any statement with an error (a RELEASE too,
as a commit may fail), and conditions are true or false; the answers are recorded in `events`.
`Meaning(events, program)` runs the same body by structural recursion with the same answers, and
`CompiledAsMeant` compares what a caller can see.  Statements that SQLite refuses because they were
not reset (see `statement_reuse`) are the one case it excuses.  ROLLBACK TO, and preparing
the empty result, are taken to succeed: the code goes on to the RELEASE when a ROLLBACK fails
(`cg_c.c:5539-5542`), so such a failure is only seen if the RELEASE fails as well.

### Hash tables and dictionaries

A call is as many steps as it probes slots and moves entries, so the properties hold also in the
middle of a rehash.  `cql_hashtab_rehash` calls `cql_hashtab_add`, which may call it again; `frames`
is that recursion, and `RehashDoesNotNest` says that it has one level.  `rc` counts references,
`held` those of the program, and `ReferencesBalance` says that the table, the entries yet to be moved
and the program account for all of them.  The refinement maps the slots (during a rehash, the old
ones as well) to a map from texts to values, and the effect of a call to the step at which it becomes
visible.

### Row blobs

The type codes, the bit vector of nulls and bools, zig-zag and variable-length integers, strings and
blobs are written cell by cell; integers have a width (5 and 9 bits in groups of 2 stand for 32 and
64 in groups of 7), so that the last group is partly filled and the longest encoding occurs.  The
buffer has a capacity, and a block number by which a pointer into a block that was given back is
told from one into the current block.  A reader has a shape of its own and reads any prefix of a blob
or of a stream.  `PrefixIsNeverMisread` and `ReadsBackWhatWasWritten` compare what it got with the
row that was written, columns added or missing included.

### Backed tables

A statement on a backed table is executed as `rewrite.c` writes it: the WHERE picks rows of one
record type through `bgetkey`, and the new blobs come from `bcreatekey`, `bcreateval`, `bupdatekey`
and `bupdateval`, modelled with their offsets, lengths, allocated sizes and error returns.  The
refinement decodes the backing table into the rows of two tables.  `KeyBlobsAreCanonical` is what
makes a key unique: equal keys have equal blobs, whichever function made them.  An UPDATE of key
columns names one row (`IsStatement`, assumed by `BackedTableAssumption`): whether several rows that
swap keys clash depends on the order in which SQLite visits them.  An upsert whose DO UPDATE assigns
to key columns is left out.

### Parent and child results

Each statement of the expansion is an action; each database call in it may fail and go to the
cleanup.  The heap holds strings, partitions and result sets with their counts; rows in cursors,
keys, buffers and sets hold addresses.  `CountsMatchHolders` recounts the holders of every object
after every statement: none is freed early, none is left over.  `Release` works off the references
that are due one at a time (`ReleaseNext`), as the nested finalizers do; `ReleaseSteps` bounds their
number by what is there to be released.  `JoinIsExact` compares the result with the join of the
tables: the rows in it, their order, and the sharing of sets.  After the procedure returned, the caller may keep child sets, release
the result, and release them later.

## Runs

| Run | Bounds | Shows |
|---|---|---|
| `flow` | 4 open contexts, 2 branches in a group, 1 type | `TypeOK`, `HistoryBalanced`, `NoAssertionFails`, `TopJumpIsInnermost`, `BranchPopRestores`, `ImprovementsAreScoped`, `MergeIsSound`, `JumpIsPessimistic`; jump contexts nest |
| `infer` | bodies of 5 to 7 tokens in six dialects, 2 variables | `FlowAnalysisTypeOK`, `InferenceIsSound`, `AnalysisNeverAborts`, `NothingLeaksFromProcedure`, `ReanalysisOnlyLoses` |
| `upgrade` | 3 releases out of six families of schemas (23 schemas), 2 installs, 1 interruption | `UpgradeTypeOK`, `UpgradeIsComplete`, `NoStatementFails`, `MigrationsSeeTheirTable`, `ReportIsComplete`, `PreciousDataSurvives`, `DowngradeRefused`, `UpgradeCompletes` |
| `generated_code` | 91 bodies of loops, SWITCH and TRY in loops, TRY in CATCH, and savepoints; 12 answers other than the calm one | `CompiledAsMeant`, `SavepointsUnwound` |
| `hashtab` | 6 key strings, two of them equal, 4 slots growing to 8, values counted and not | `HashtabTypeOK`, `EntriesReachable`, `ReferencesBalance`, `NoUseAfterFree`, `RehashDoesNotNest`, `ImplementsDictionary`, `CallsReturn` |
| `row_blob` | 7 writer shapes, 4 reader shapes, 2 rows, every prefix | `RowBlobTypeOK`, `ReadsBackWhatWasWritten`, `PrefixIsNeverMisread`, `CursorReferencesBalance`, `StreamIsItsBlobs` |
| `backed_table` | 2 tables, 25 statements, variable parts of value blobs up to 3 bytes | `StoredBlobsAreValid`, `KeyBlobsAreCanonical`, `ImplementsTables` |
| `parent_child` | 2 children, 2 keys and NULL, up to 2 rows each, every call may fail | `CountsMatchHolders`, `JoinIsExact` |
| `elided_branch` | 8 tokens | violation of `InferenceIsSound` |
| `full_drop_dependents` | 2 schemas | violation of `PreciousDataSurvives` |
| `row_blob_growth` | 1 shape, a buffer of 6 cells | violation of `ReadsBackWhatWasWritten` |
| `statement_reuse` | the bodies of `generated_code`, 6 answers | violation of `StatementsStartReady` |

Why the bounds are enough.  Types do not interact in `flow.c`, so one type suffices for `flow`; four
contexts hold a branch in a group inside a jump or another branch, and a jump in a branch inside a
jump; two branches are the least that
can disagree.  In `infer` each dialect has the statements of one feature and enough tokens for two
of its blocks or one with a statement before, in and after it.  In `upgrade` each family declares
what interacts: columns with unsubscription and indices; create, delete and ad hoc versions; a
table that changes plans; references between recreated tables, with and without a group; and
virtual tables.  Three releases allow skipping one and returning to an earlier definition.  The
same run was also made with two interruptions.  In `generated_code` twelve answers allow two or three
turns of a loop with a failure in each, which is what a reused statement or a wrong target needs.  In
`hashtab` four slots are overloaded by the fourth entry, so the table grows once, and the hash codes
collide, wrap around the end and part after the growth; the equal keys tell content from identity.
In `row_blob` every type occurs nullable or not, before and after each other, with bit vectors of one
and more bytes; two rows are what a reader needs to have something left over from the first.  In
`backed_table` the key of `t` has two variable columns, the least that can get out of order, and a
value blob may hold an empty, a one-byte and a grown column.  In `parent_child` two rows give equal
parents, equal children, keys without children and an empty result.

Deadlock is checked in `hashtab` and `backed_table`, where there is always another call.  Elsewhere
a finished body or procedure, a device at its last release, and rows that have been read may stop.

Fairness is assumed by two properties.  `CallsReturn` assumes weak fairness of the steps of a running
call of `Hashtab`: a call runs in the thread of its caller and waits for nothing, so only a loop that
does not end could keep it from returning.  `UpgradeCompletes` assumes weak fairness of `Step`, because a script that is
not interrupted goes on, and strong fairness of `Start(TRUE)`, because an application calls the
full upgrade whenever it opens the database, while interruptions and calls without virtual tables
may come in between.  Interruptions are bounded by `MaxCrashes`; without a bound nothing completes.

## Disagreements between code and documentation

Each violation run has an entry under `findings` with the sentence it contradicts.  In short:

- `elided_branch`: a branch that always jumps leaves its group's improvements counted, and a variable
  that may be NULL is taken for NOT NULL.
- `full_drop_dependents`: moving a table from `@recreate` to `@create` drops tables that refer to it.
- `row_blob_growth`: `cql_cursor_to_bytebuf` keeps a pointer to the bit vector across appends that
  may move the buffer.
- `statement_reuse`: a statement in a loop that fails within a TRY is not reset, so its next binding
  is refused.

Eight more configurations end in a counterexample and are kept to reproduce it
(`tlc -config <cfg> <module>`):

| Configuration | Module | Violates | Because |
|---|---|---|---|
| `MCNestJumps.cfg` | `MCFlow` | `RevertedUnsetsReachJump` | an un-set in an inner jump context that a branch reverted does not reach the outer one (`flow.c:706`) |
| `MCCallInCondition.cfg` | `MCFlowAnalysis` | `AnalysisNeverAborts` | a call in a condition un-improves globals in the branch group itself and fails an assertion of `merge_effects` (`flow.c:426`) |
| `MCLoopCondition.cfg` | `MCFlowAnalysis` | `LoopConditionIsSound` | the condition of a loop is analysed once, before the body (`sem.c:22782`) |
| `MCDeletedBase.cfg` | `MCSchemaUpgrade` | `MigrationsSeeTheirTable` | the migration of a deleted baseline table runs on a fresh install that never had it (`cg_schema.c:2070`) |
| `MCDropDeleted.cfg` | `MCSchemaUpgrade` | `MigrationsSeeTheirTable` | the one-time drop of a table that left `@recreate` (`cg_schema.c:2003`) comes before the migrations of its version, among them that of a deleted table that referred to it and is dropped along |
| `MCIndexInGroup.cfg` | `MCSchemaUpgrade` | `UpgradeIsComplete` | the CRC of a group leaves out indices of all but its last table (`cg_schema.c:1443`) |
| `MCRevert.cfg` | `MCSchemaUpgrade` | `UpgradeIsComplete` | a script drops an index to change it and is interrupted; the next release changes the index back, its facet still matches and it is not created again (`cg_schema.c:1098`) |
| `MCBlobSlack.cfg` | `MCBackedTable` | `ValueBlobsAreCompact` | a column set to NULL keeps its bytes in the value blob (`cqlrt_common.c:6839`); the blob is larger, not wrong |

Not covered by a run: the guide says of a migration procedure that "each proc is run exactly one
time" (`docs/user_guide/10_schema_management.md:139`), but an interruption between the call and the
facet that records it runs it again; and the guide drops tables at the end of each version
(line 140), while the script drops them all after the last.

## Proofs

`FlowProofs` proves, for every set of types, every depth and every number of branches:
`TypeCorrect`, `HistoryIsBalanced`, `AssertionsHold`, `TopJumpCorrect`, `BranchesRestore`,
`ImprovementsScoped`, `MergesAreSound` and `JumpsArePessimistic`, each stating the property that
the run `flow` checks.  They assume `BoundsAssumption` and that callers are `Disciplined` (neither
un-sets in a condition nor jumps after a negative improvement).

The properties are not inductive as they stand: that a merge is sound depends on what the
histories of the branches say, which was fixed when those branches were popped.  The inductive
invariant `IInv` therefore says of every open context that its history accounts for the change of
the flags since it was pushed (`HistoryOK`), that a branch starts from its group's flags
(`BranchAt`), that nothing has been un-set by the conditions of a group (`CondAt`), and that the
merged histories of a group count, for every type, exactly the branches that end with the flag set
(`GroupAt`); `JumpsOK` links the jump contexts and `UndoneOK` says that a flag un-set while
a jump context was the innermost one is known to it.  Each action is shown to preserve it, one lemma per pop, and the
action properties follow from the invariant before the step.

`FlowAnalysisProofs` proves, for every set of variables, globals and dialects, and for bodies of any
length nested to any depth: `NeverAborts`, `NothingLeaks` and `ExecutionStaysInBody`, each stating a
property of the run `infer`.  They assume `Disciplined`: the bodies contain neither an IF whose
condition calls a procedure nor a branch that always jumps after a condition whose falsity improved a
variable.  These are the two combinations whose calls the assertions of `flow.c` do not allow for
(`MCCallInCondition.cfg` and the run `elided_branch` show them), and `infer` leaves them out too.  The
other combinations that `infer` leaves out, nested loops and TRY blocks among them, are included here.

`NeverAborts` closes the assumption that `FlowProofs` makes about callers: here the callers are the
handlers of `sem.c`.  `FlowProofs` is instantiated and its lemmas, one per call of `flow.c`, are used
for the calls that make up a handler.  What has to be found is in which context each call happens.
The invariant `AnalysisInv` therefore relates the stack of contexts to the open blocks: there is a
cut of the stack (`Cut`) that gives every open block the context or the two contexts that its
handler pushed, of the kinds that it pops at its end (`BlockAt`); a context above a group is one of
its branches (`GroupsHaveBranches`), which is what makes an un-set legal wherever a statement
stands; and the first context is the procedure's, started without improvements (`Rooted`), which
is what leaves no flag set when it is popped.  A call may change the flags and histories of any open
context but neither kinds nor number below where it works; that is `Below`, which `FlowProofs` now
states of every call beside the invariant.

`ExecutionStaysInBody` is about the body that the analysis leaves behind: the execution goes to the
handler of a TRY, to the next part of an IF or a SWITCH, to the update list or the end of a loop, and
each of these has to exist.  The invariant `BodyInv` says that the body is well bracketed (`Bracketed`):
every part and end names its opener, the openers of the open blocks stand one after another, every
closed block has its end, and what follows the opener of an open block belongs to it or to a block
within.  The last is needed because a second analysis of a loop goes back to its opener with the body
already there: what is analysed so far is then a shorter prefix, and it must still be well bracketed.

`HashtabProofs` proves, for every set of strings, every hash function and every initial size:
`HashtabTypes`, `EntriesFound`, `ReferencesAreBalanced`, `NothingUsedAfterFree`, `OneRehashAtATime`
and `HashtabIsMap`, each stating a property of the run `hashtab`.  They assume `HashtabAssumption`:
every text has a hash code in `Nat`, references are not plain values, and NULL is neither.

Here too one invariant `IInv` carries all of them.  `TableInv` says that the table can be searched
(`Reach`: no free slot between a key's home and its entry; `Distinct`: no text twice), that at most
three quarters of it are used, and that a search under way has passed only entries of other texts
(`Probed`); without the last, storing an entry where the search ended could not be shown to keep
`Distinct`.  Between the steps of a rehash the new table is half filled, so `RehashOK` relates it to
the old one: every entry of the new table came from a slot before the one being moved, and the
count is at most the number of slots passed.  That gives both that an entry being moved is not there
yet and, the new table being twice as large, that adding it cannot overload the table, which is why
rehashes do not nest.  `CountInv` counts references by slots: those of the new table and those of the
old one from the current slot on; `EntriesAre` shows that these are the entries of
`ReferencesBalance`.  `CallOK` keeps the arguments of a call alive and `UpsertOK` says that an upsert
adds only what it has not found, both needed for the refinement: under `MapOf` a step of `Insert`
or `FindProbe` is the effect of the open request, and probing, growing and moving are stutters,
because a text is bound by the new table or the rest of the old one, never by both to different
values (`MapIsBound`).

`SchemaUpgradeProofs` proves, for every family of schemas the compiler accepts and any number of
releases, installs and interruptions: `TypesHold` and `DowngradesAreRefused`, each stating a property
of the run `upgrade`, and `ScriptsDropNoLiveTable`.  They assume `NamesAssumption` and
`UpgradeAssumption`: orders are sequences of the names, no table is declared twice, and every schema is
well formed.  `DataSurvives`
states `PreciousDataSurvives` under one more assumption: no schema moves a table from `@recreate` to
`@create` (`LeavesRecreate`).  With such a move the property is not true of every schema, because the
one-time drop takes along whatever refers to the table; the run `upgrade` checks families with the
move, `full_drop_dependents` shows the loss, and `ScriptsDropNoLiveTable` holds release by release.

These are facts about a generator, so most of the proof is about what it generates.  `Permitted` says
which statements a script of a schema may hold: their operands are declared names and definitions, a
table is dropped only if it is deleted, recreated, or may refer to one that left `@recreate`, and
only the version of the schema itself is written as the version on record.  `Lawful` sequences of
them are closed under the ways in which `UpgradeScript` puts scripts together, and one lemma per part
of the script ends in `ScriptLawful`.  `FullDrop` and `GroupDrop` recurse along references; that their
definitions have a value at all, and that each level emits permitted statements, is shown by
induction over the levels (`Recursion`, where induction is stated for sets so that no operator has to
be passed).  `Outcome` then says what executing a permitted statement does, one lemma per kind, and
the invariant `UpgradeInv` adds to the types what `DowngradeRefused` needs to be inductive: a script
that is running belongs to a release at least as late as the version on record.

`MigrationsFindTables` states `MigrationsSeeTheirTable`: whatever was skipped, interrupted or run
before, a migration procedure that is due finds its table, and its column if it is for one.  This is
a fact about the order of a script.  `Outline` annotates a sequence of statements with what is known
before each: the dictionaries in memory list only what is there, a table is there, a column is there.
A statement may need such facts, establish some and end others (`Needs`, `Makes`, `Breaks`), and
`Ready(E, q, F)` says that `q`, started where `E` is known, finds what it needs and leaves `F`.
`ReadyQuiet` and its companions pass it along concatenation and repetition, one lemma per part of the
generator derives it (`CreateTableReady`, `AlterSchemaReady`, `MigrateDataReady`,
`UpgradeVersionsReady`, `BodyReady`), and `PlanExists` gives the plan of a whole script.  The invariant
`PlanInv` says that the plan holds at the statement that comes next.  A statement passed over
establishes nothing, which is harmless because what establishes a fact has no condition but the one
on all of the main steps (`DueFacts`); after an interruption a script starts from nothing known.  The
drop of a table that left `@recreate` is the delicate part: it takes whatever refers to the table, so
`Dependents` bounds that by the tables created no earlier, which no migration before it has met.

The theorem has two hypotheses.  No release migrates the deletion of a baseline table (the practice
`migrate_deleted_base`; `MCDeletedBase.cfg` shows the property violated).  And deleted tables refer
only to tables declared before them and created no later than they are (`DeletedRefsFit`).  For live
tables that follows from what the compiler checks (`RefsFollow`), but it does not look at the
references of a deleted table, and a table it refers to may have gone to `@recreate` and come back
with a later `@create`.  If that is the version in which the deleted table goes, the one-time drop takes
the table before its delete migration runs, even on a fresh install (`MCDropDeleted.cfg`).  The hypothesis
asks for more than that needs: in versions after the deletion the drop comes too late to do harm.
All schemas of the run `upgrade` satisfy it, those with a deleted table that has a reference included.

`BackedTableProofs` proves, for every family of tables, key and field types, values (strings and blobs
of any length) and statements: `BlobsStayValid`, `KeysStayCanonical` and `BackedTablesAreTables`, each
stating a property of the run `backed_table`.  They assume `BackedTableAssumption`: record types tell
tables apart, a table has a key, and the statements are ones that the compiler accepts
(`IsStatement`).  They hold for any `MaxVariable`, the bound of the run.

The invariant `Inv` says where the blobs come from: a key blob is `KeyOf` some values of the columns of
a table, and the value blob under it is `ValOf` a list of columns of the same table, no two for one
field, in at least the space that they take (`SizeOf(columns) <= size`; equality would be false, see
`MCBlobSlack.cfg`).  The properties are not inductive without this: that a blob passes
`cql_validate_blob_variable_fields` does not say what `bupdateval` makes of it.  The lemmas in between
follow the code.  `EncodeColumn`, `DecodeEncode` and `EncodeSound`: the columns written one after
another can be read back as `Stored`, lie inside the blob and do not overlap.  `KeyUpdate`:
`bupdatekey` makes exactly `KeyOf` the updated columns, and the space it computes, the old size and
the differences, is the size of the new columns; since `bcreatekey` makes `KeyOf` too, one key has one
blob.  `UpdatedFields` and `UpdatedSize`: what `bupdateval` leaves has each field once, with the value
assigned or the one before, and fits into the space computed from the adjustments (`TotalPicked`: the
sum over the arguments of the sizes replaced is the sum over the columns marked dirty).  `RowsReplaced`
lifts this to the rows that the backing table stands for, and one lemma per statement (`InsertStep`,
`UpdateStep`, `DeleteStep`) shows the step of `KeyedTables`, failures included: a key blob clashes
with another exactly when the rows have the same key.

`RowBlobProofs` proves, for any shapes of rows and readers, any values, any number of rows and any
sizes of bytes, groups and integers: `RowBlobIsTyped`, `ReferencesAreHeld` and
`StreamsGiveTheirBlobs`, which state properties of the run `row_blob`, and `SmallRowsReadBack` and
`SmallPrefixesAreNotMisread`, which state its two others for rows whose blob is at most
`GrowthSize` long.  Of all longer rows they are not true: the pointer to the bits may be to a block
that was freed (`row_blob_growth`).  A buffer has moved exactly when its data is longer than that, so
the condition leaves out the rows whose buffer moved and no others.  The theorems assume
`RowBlobAssumption`: `MaxBytes` groups hold every integer of its width, values are of their column's
type, texts contain no zero, a blob is shorter than an int can say, and NULL is none of them.

The proof follows the bytes.  `VarintReads`: reading where an integer was written gives the
integer, and gives an error exactly when the input ends before its last byte.  `ValueReads` says
this of every type.  `Laid` describes the layout of a row as far as it is written: its type codes,
its bits, and for every field the cells from one position to the next.  `LaidNext` shows that
writing a field keeps it, for which no two fields may share a bit (`MarksFacts`).  `HeaderReads` and
`FieldReads` read it back, from any prefix of it.  The invariant `IInv` says that rows and the row
being written are `Laid` as long as they are `Small`, and, of a reader between two fields, that it
`Follows` the row that its bytes are from: its position, and the indices of its next bits, are those
that the writer had at the column (`IsAt`), and the fields so far are the row's.  Without the indices,
which no property mentions, nothing could be said of the next field.  `Held` counts the references
of a cursor; the fields not yet read hold none, so that storing into one loses none.
`StreamSlices` relates the ends in the table of a stream to where `FlattenSeq` puts each blob.

`ParentChildProofs` proves, for any number of children, rows and values, both properties of the run
`parent_child`: `CountsAreExact` states `CountsMatchHolders`, and `JoinedAsAsked` states `JoinIsExact`.
It assumes `ParentChildAssumption`: there is a child, and NULL is not a key.

`Balanced(h, n)` says it of a heap `h` when `n` counts what holds each address outside of it.  That
is the form in which it can be passed along a statement, which goes through heaps that no variable
ever has: one lemma per operation says how `n` has to change with the heap.  `RetainBalanced` needs
that what is retained is alive, for an object whose count reached zero does not come back; every use
therefore shows that something still holds it (`HeldAlive`, `SharedAlive`, `RowSetAlive`).
`ReleaseBalanced` is the hard one, since a count that reaches zero releases in turn what its object
owned: the references that are due count as holders outside (`Releasing`), and `Work`, the references
due and those of the objects still alive, goes down with each step, so `ReleaseSteps` steps leave
nothing due.  `MoveBalanced` and `ExtractBalanced` follow a buffer that becomes a result set: its rows
change owner and no count changes.  `Shares` splits what is held outside of the heap by local, key,
cursor, temporary, buffer and caller, and one lemma per place (`KeyShare` to `HeldShare`) says what
storing into it does.

The invariant `IInv` has, besides the balance, which partitions exist at which statement, that an
address taken for a partition or a result set is that of one, and that no group has a set while the
children are still read (`Unextracted`).  The last is not about counts at all, and the property is not
inductive without it: a row added to a group whose buffer has become a set would be retained for
an owner that the finalizer no longer releases it for.  This is what the assertion on `did_extract`
in `cql_partition_cursor` is there for.

`JoinedAsAsked` needs both this invariant and `JInv`, since a count says that a set is there and not
what is in it.  `JInv` follows the tables' rows: `Partitioned` says of each partition that its groups
have different values, one for each value read so far, and that a group has the rows with its value, in
order, in its buffer or in its set (`GroupsFor`); `Joining`, that the rows joined so far are the first of
the parent and hold, for each child, the set that its partition gives for the value (`RowDone`, `Gives`);
`Delivering`, that this stays when the partitions are gone.  The argument is that no operation takes
back what it gave: `Grows` (texts and rows of an object never change, and the groups of one partition
at most do) holds of every statement, so each lemma is only about the partition at hand.
`GroupsForFresh` and `GroupsForKnown` add a row to a group, `GroupsForMoved` moves rows from a buffer to
a set, and `ExtractGroupsFor` says that what was given for one key is given unchanged after any other
was asked for, which is why parents with one value share a set.  `PartitionsApart` is needed there: were
the partitions of two children one object, rows of one child would turn up in the sets of the other.

Only model-checked: that inference is sound and that a second analysis of a loop only loses
improvements (`InferenceIsSound`, `ReanalysisOnlyLoses`: they need an invariant about every path of
execution through the body so far); `generated_code`, whose bodies are recursive data, out of this
prover's reach for all inputs (`CompiledAsMeant`, `SavepointsUnwound`); that an upgrade is complete, fails
no statement and reports every group (`UpgradeIsComplete`, `NoStatementFails`, `ReportIsComplete`),
which depends on what every earlier script left behind; and liveness (`CallsReturn`,
`UpgradeCompletes`), which the prover does not do.

## Not modelled

See `components` in PROJECT.json.  Most of the repository by size is SQLite, the amalgamated copies
of the compiler, and functions that check, print or copy one construct each; they keep no state from
which a sequence of steps could go wrong.

Within the modelled parts: LOOP FETCH, CASE, IIF and the row and initialisation improvements, which
use the same flow contexts; in schema upgrade regions, temporary schema, `min_schema_version`,
deletion of columns (which runs no DDL), migration procedures of deleted views, indices and triggers,
and collisions of CRCs (the order of unrelated groups, which the code leaves to a hash table, is
fixed); in generated code calls of other procedures, conditional fragments (whose statements
are not reused) and boxed statements; in the runtime running out of memory, blob headers that were
damaged by other programs, and the deserialization of blobs that no writer made, except prefixes;
in backed tables expressions in SET lists that read other columns, and joins of backed tables.

## Plan

1. Done: `FlowContext`, `Flow`, `FlowAnalysis`, `FlowProofs`; `Schema`, `UpgradeScript`, `SchemaUpgrade`.
2. Done: `Dictionary`, `Hashtab`; `RowBlob`; `KeyedTables`, `BackedTable`; `ParentChild`;
   `StatementMeaning`, `GeneratedCode`.
3. Done: `HashtabProofs`, `FlowAnalysisProofs`, `SchemaUpgradeProofs`, `BackedTableProofs`,
   `RowBlobProofs`, `ParentChildProofs`.  Theorems next: that a table moved from `@recreate` is
   dropped only once (`PreciousDataSurvives` with such moves).
4. Boxed statements in `GeneratedCode`; regions in `Schema`.
