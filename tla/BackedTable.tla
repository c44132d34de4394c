----------------------------- MODULE BackedTable ----------------------------
(***************************************************************************)
(* Backed tables: rewrite.c turns the statements on them into statements   *)
(* on one backing table of two blobs, and the functions bcreatekey,        *)
(* bgetkey, bupdatekey, bcreateval, bgetval and bupdateval of              *)
(* cqlrt_common.c make, read and change those blobs.                       *)
(*                                                                         *)
(* A blob is [rt, cols, var, size]: the record type, the fixed parts of    *)
(* its columns, the bytes written to the variable part and the bytes that  *)
(* were allocated for it.  A column's fixed part is [id, type, i, off,     *)
(* len]: a number, or the offset from the start of the blob and the length *)
(* of what the variable part holds.                                        *)
(***************************************************************************)
EXTENDS Integers, Sequences, FiniteSetsExt, Totals

CONSTANTS
  Tables, KeyTypes, FieldTypes, NULL, Statements,
  RecordType,   \* RecordType[t]: the hash that tells the tables apart
  MaxVariable   \* bound on the variable part of a value blob

Types == {"BOOL", "INT32", "INT64", "FLOAT", "STRING", "BLOB"}

\* SQL values: a number, or the bytes of a text or blob
Values ==
  [st : {"INTEGER", "FLOAT"}, i : Int, s : {<< >>}]
    \cup [st : {"TEXT", "BLOB"}, i : {0}, s : Seq(Nat)] \cup {NULL}

\* Assignments [f, v] to columns among S, none of them assigned twice
AreAssignments(list, S) ==
  /\ list \in Seq([f : S, v : Values])
  /\ \A m, n \in DOMAIN list : list[m].f = list[n].f => m = n

\* The statements: an INSERT has a value for every key column (CQL0158), defaults
\* included, and no column is assigned twice (CQL0153).  An UPDATE of key columns
\* names the row that it is about, and an upsert leaves them alone.
IsStatement(q) ==
  /\ q.op \in {"insert", "upsert", "update", "delete"} /\ q.t \in Tables
  /\ q.op \in {"insert", "upsert"} =>
       q.key \in Seq(Values) /\ Len(q.key) = Len(KeyTypes[q.t]) /\ q.setKey = << >>
  /\ AreAssignments(q.vals, DOMAIN FieldTypes[q.t])
  /\ AreAssignments(q.set, DOMAIN FieldTypes[q.t])
  /\ AreAssignments(q.setKey, DOMAIN KeyTypes[q.t])
  /\ q.setKey # << >> => \E key \in q.where : q.where = {key}

ASSUME BackedTableAssumption ==
  /\ MaxVariable \in Nat
  /\ NULL = [st |-> "NULL", i |-> 0, s |-> << >>]
  /\ \A t \in Tables :
       /\ KeyTypes[t] \in Seq(Types) /\ KeyTypes[t] # << >>
       /\ FieldTypes[t] \in [DOMAIN FieldTypes[t] -> Types]
  /\ \A t, u \in Tables : RecordType[t] = RecordType[u] => t = u
  /\ \A q \in Statements : IsStatement(q)

VARIABLES
  backing,      \* the backing table: value blobs by key blob
  stmt,
  outcome

vars == <<backing, stmt, outcome>>

Error == [ok |-> FALSE]
Result(b) == [ok |-> TRUE, blob |-> b]
-----------------------------------------------------------------------------
(* What both kinds of blob share *)

\* variable_offset of a blob with n columns: the header, then 8 bytes and a
\* type code for each column, and the field id in a value blob.
KeyStart(n) == 16 + 9 * n
ValStart(n) == 16 + 17 * n

Variable(type) == type \in {"STRING", "BLOB"}

\* cql_blobtype_vs_argtype_compat
Compat(v, type) ==
  CASE type \in {"BOOL", "INT32", "INT64"} -> v.st = "INTEGER"
    [] type = "FLOAT" -> v.st \in {"FLOAT", "INTEGER"}
    [] type = "STRING" -> v.st = "TEXT"
    [] type = "BLOB" -> v.st = "BLOB"
    [] OTHER -> FALSE

\* ... and the variable size it reports
VariableSize(v, type) ==
  CASE type = "STRING" -> Len(v.s) + 1
    [] type = "BLOB" -> Len(v.s)
    [] OTHER -> 0

\* The space that a stored column takes
StoredSize(c) ==
  CASE c.type = "STRING" -> c.len + 1
    [] c.type = "BLOB" -> c.len
    [] OTHER -> 0

\* What is written for a column [id, type, v]: its bytes in the variable part,
\* and its fixed part when they start at `here'.
Written(c) ==
  CASE c.type = "STRING" -> c.v.s \o <<0>>
    [] c.type = "BLOB" -> c.v.s
    [] OTHER -> << >>

FixedPart(c, here) ==
  [id |-> c.id, type |-> c.type,
   i |-> CASE c.type = "BOOL" -> IF c.v.i = 0 THEN 0 ELSE 1
           [] c.type \in {"INT32", "INT64", "FLOAT"} -> c.v.i
           [] OTHER -> 0,
   off |-> IF Variable(c.type) THEN here ELSE 0,
   len |-> IF Variable(c.type) THEN Len(c.v.s) ELSE 0]

\* The variable part after each number of columns
Variables(columns) ==
  LET Upto[n \in 0..Len(columns)] ==
        IF n = 0 THEN << >> ELSE Upto[n - 1] \o Written(columns[n])
  IN Upto

\* The columns written one after another, in this order
Encode(rt, columns, start, size) ==
  LET upto == Variables(columns)
  IN [rt |-> rt,
      cols |-> [n \in DOMAIN columns |-> FixedPart(columns[n], start + Len(upto[n - 1]))],
      var |-> upto[Len(columns)],
      size |-> size]

\* The bytes that a column refers to
Bytes(b, c, start) == SubSeq(b.var, c.off - start + 1, c.off - start + c.len)

\* The value of a column, as bgetkey and bgetval return it
Decode(b, c, start) ==
  CASE c.type = "BOOL" -> [st |-> "INTEGER", i |-> IF c.i = 0 THEN 0 ELSE 1, s |-> << >>]
    [] c.type \in {"INT32", "INT64"} -> [st |-> "INTEGER", i |-> c.i, s |-> << >>]
    [] c.type = "FLOAT" -> [st |-> "FLOAT", i |-> c.i, s |-> << >>]
    [] c.type = "STRING" -> [st |-> "TEXT", i |-> 0, s |-> Bytes(b, c, start)]
    [] c.type = "BLOB" -> [st |-> "BLOB", i |-> 0, s |-> Bytes(b, c, start)]

\* cql_validate_blob_variable_fields, which every function applies to the
\* blob that it is given.
Valid(b, start) ==
  \A n \in DOMAIN b.cols :
    LET c == b.cols[n]
        inside(k) == c.off >= start /\ c.off + k <= start + b.size
    IN CASE c.type = "STRING" -> /\ inside(c.len + 1)
                                 /\ b.var[c.off - start + c.len + 1] = 0
         [] c.type = "BLOB" -> inside(c.len)
         [] OTHER -> TRUE

SizeOf(columns) == Total([n \in DOMAIN columns |-> VariableSize(columns[n].v, columns[n].type)])

\* The columns whose indices are in S, in their order
Only(columns, S) ==
  LET Upto[n \in 0..Len(columns)] ==
        IF n = 0 THEN << >>
        ELSE IF n \in S THEN Append(Upto[n - 1], columns[n]) ELSE Upto[n - 1]
  IN Upto[Len(columns)]
-----------------------------------------------------------------------------
(* Key blobs: all columns, in the order of the key *)

bcreatekey(rt, args) ==
  IF args = << >> \/ \E n \in DOMAIN args : ~Compat(args[n].v, args[n].type) THEN Error
  ELSE LET columns == [n \in DOMAIN args |-> [id |-> 0, type |-> args[n].type, v |-> args[n].v]]
       IN Result(Encode(rt, columns, KeyStart(Len(args)), SizeOf(columns)))

KeyColumns(b) == [n \in DOMAIN b.cols |-> Decode(b, b.cols[n], KeyStart(Len(b.cols)))]

\* Mutant: as in bupdateval, the new values are written before the old ones.
Mutant_UpdatedKeyColumns(b, ups) ==
  LET old == [n \in DOMAIN b.cols |-> [id |-> 0, type |-> b.cols[n].type, v |-> KeyColumns(b)[n]]]
  IN [n \in DOMAIN ups |-> [id |-> 0, type |-> b.cols[ups[n].f].type, v |-> ups[n].v]]
     \o Only(old, DOMAIN old \ {ups[n].f : n \in DOMAIN ups})

\* The columns after an update, whatever the order of its arguments: the
\* third pass of bupdatekey goes by column.
UpdatedKeyColumns(b, ups) ==
  [i \in DOMAIN b.cols |->
     [id |-> 0, type |-> b.cols[i].type,
      v |-> IF \E n \in DOMAIN ups : ups[n].f = i
            THEN ups[CHOOSE n \in DOMAIN ups : ups[n].f = i].v
            ELSE KeyColumns(b)[i]]]

bupdatekey(b, ups) ==
  LET start == KeyStart(Len(b.cols))
      grow(n) == VariableSize(ups[n].v, b.cols[ups[n].f].type) - StoredSize(b.cols[ups[n].f])
  IN IF \/ ups = << >> \/ ~Valid(b, start)
        \/ \E n \in DOMAIN ups :
             \/ ups[n].f \notin DOMAIN b.cols
             \/ \E m \in 1..(n - 1) : ups[m].f = ups[n].f
             \/ ~Compat(ups[n].v, b.cols[ups[n].f].type)
     THEN Error
     ELSE Result(Encode(b.rt, UpdatedKeyColumns(b, ups), start,
                        b.size + Total([n \in DOMAIN ups |-> grow(n)])))
-----------------------------------------------------------------------------
(* Value blobs: the columns that are not NULL, in any order *)

Present(args) == Only(args, {n \in DOMAIN args : args[n].v # NULL})

bcreateval(rt, args) ==
  IF \E n \in DOMAIN args : args[n].v # NULL /\ ~Compat(args[n].v, args[n].type) THEN Error
  ELSE LET columns == Present(args)
       IN Result(Encode(rt, columns, ValStart(Len(columns)), SizeOf(columns)))

\* The first column with this field id, or 0
ColumnOf(b, id) ==
  LET found == {n \in DOMAIN b.cols : b.cols[n].id = id}
  IN IF found = {} THEN 0 ELSE Min(found)

bgetval(b, id) ==
  LET n == ColumnOf(b, id)
  IN IF n = 0 THEN NULL ELSE Decode(b, b.cols[n], ValStart(Len(b.cols)))

\* Mutant: only a new value replaces the stored one; NULL does not delete it.
Mutant_Dirty(b, ups) == {ColumnOf(b, ups[n].id) : n \in {m \in DOMAIN ups : ups[m].v # NULL}}

\* The stored columns that the update names; they get CQL_BLOB_TYPE_DIRTY.
Dirty(b, ups) == {ColumnOf(b, ups[n].id) : n \in DOMAIN ups}

\* Mutant: the zero after a stored string is given back twice.
Mutant_Adjustment(b, u) ==
  IF u.v = NULL THEN 0
  ELSE IF ColumnOf(b, u.id) = 0 THEN VariableSize(u.v, u.type)
  ELSE VariableSize(u.v, u.type) - StoredSize(b.cols[ColumnOf(b, u.id)])
       - (IF u.type = "STRING" THEN 1 ELSE 0)

\* What an update adds to variable_size_adjustment.  variable_size_stored
\* stays zero for a column that is set to NULL.
Adjustment(b, u) ==
  IF u.v = NULL THEN 0
  ELSE IF ColumnOf(b, u.id) = 0 THEN VariableSize(u.v, u.type)
  ELSE VariableSize(u.v, u.type) - StoredSize(b.cols[ColumnOf(b, u.id)])

\* The new values come first, then the columns that were not named.
bupdateval(b, ups) ==
  LET start == ValStart(Len(b.cols))
      stored == [n \in DOMAIN b.cols |->
                   [id |-> b.cols[n].id, type |-> b.cols[n].type, v |-> Decode(b, b.cols[n], start)]]
      columns == Present(ups) \o Only(stored, DOMAIN stored \ Dirty(b, ups))
  IN IF \/ ups = << >> \/ ~Valid(b, start)
        \/ \E n \in DOMAIN ups :
             LET c == ColumnOf(b, ups[n].id) IN
             \/ /\ c # 0
                /\ \/ ups[n].type # b.cols[c].type
                   \/ \E m \in 1..(n - 1) : ups[m].id = ups[n].id
             \/ ups[n].v # NULL /\ ~Compat(ups[n].v, ups[n].type)
     THEN Error
     ELSE Result(Encode(b.rt, columns, ValStart(Len(columns)),
                        b.size + Total([n \in DOMAIN ups |-> Adjustment(b, ups[n])])))
-----------------------------------------------------------------------------
(* The rewritten statements *)

\* cql_blob_create and cql_blob_update: the arguments get their field ids
\* and types from the columns of the backed table.
Args(t, list) ==
  [n \in DOMAIN list |->
     [id |-> list[n].f, v |-> list[n].v, type |-> FieldTypes[t][list[n].f]]]

KeyBlob(t, key) ==
  bcreatekey(RecordType[t], [i \in DOMAIN key |-> [v |-> key[i], type |-> KeyTypes[t][i]]])
ValBlob(t, vals) == bcreateval(RecordType[t], Args(t, vals))

NewVal(t, b, set) == IF set = << >> THEN Result(b) ELSE bupdateval(b, Args(t, set))
NewKey(b, setKey) == IF setKey = << >> THEN Result(b) ELSE bupdatekey(b, setKey)

\* rowid IN (SELECT rowid FROM t WHERE ...): t is a common table expression
\* over the rows of the backing table with its record type.
RowsOf(t) == {k \in DOMAIN backing : k.rt = RecordType[t]}
Selected(t, where) == {k \in RowsOf(t) : KeyColumns(k) \in where}

Put(rows, k, v) == [x \in DOMAIN rows \cup {k} |-> IF x = k THEN v ELSE rows[x]]

Succeed(rows) == outcome' = "ok" /\ backing' = rows
Fail == outcome' = "error" /\ UNCHANGED backing

\* rewrite_insert_statement_for_backed_table; an upsert changes the row
\* that it conflicts with.
ExecInsert(q) ==
  LET k == KeyBlob(q.t, q.key)
      v == ValBlob(q.t, q.vals)
      made == k.ok /\ v.ok
      conflict == made /\ k.blob \in DOMAIN backing
      v2 == NewVal(q.t, backing[k.blob], q.set)
  IN \/ made /\ ~conflict /\ Succeed(Put(backing, k.blob, v.blob))
     \/ /\ conflict /\ q.op = "upsert" /\ v2.ok
        /\ Succeed(Put(backing, k.blob, v2.blob))
     \/ ~made /\ Fail
     \/ conflict /\ (q.op = "insert" \/ ~v2.ok) /\ Fail

\* rewrite_update_statement_for_backed_table
ExecUpdate(q) ==
  LET hit == Selected(q.t, q.where)
      k2(k) == NewKey(k, q.setKey)
      v2(k) == NewVal(q.t, backing[k], q.set)
      good == /\ \A k \in hit : k2(k).ok /\ v2(k).ok
              /\ \A k \in hit : k2(k).blob \notin DOMAIN backing \ hit
      moved == {k2(k).blob : k \in hit}
  IN IF good
     THEN Succeed([x \in (DOMAIN backing \ hit) \cup moved |->
                     IF x \in moved THEN v2(CHOOSE k \in hit : k2(k).blob = x).blob
                     ELSE backing[x]])
     ELSE Fail

\* rewrite_delete_statement_for_backed_table
ExecDelete(q) ==
  Succeed([k \in DOMAIN backing \ Selected(q.t, q.where) |-> backing[k]])

Init ==
  /\ backing = [k \in {} |-> NULL]
  /\ stmt = NULL
  /\ outcome = "none"

Exec(q) ==
  /\ stmt' = q
  /\ \/ q.op \in {"insert", "upsert"} /\ ExecInsert(q)
     \/ q.op = "update" /\ ExecUpdate(q)
     \/ q.op = "delete" /\ ExecDelete(q)
  /\ \A k \in DOMAIN backing' : backing'[k].size <= MaxVariable

Next == \E q \in Statements : Exec(q)

Spec == Init /\ [][Next]_vars
-----------------------------------------------------------------------------

\* The rows that the backing table stands for
Rows ==
  UNION {{[t |-> t, key |-> KeyColumns(k),
           rec |-> [f \in DOMAIN FieldTypes[t] |-> bgetval(backing[k], f)]] : k \in RowsOf(t)}
         : t \in Tables}

KT == INSTANCE KeyedTables WITH rows <- Rows

\* Every blob in the backing table is one that the functions accept, nothing
\* was written past the memory allocated for it and no two of its columns
\* share bytes: one bad blob would make every statement on every table fail.
StoredBlobsAreValid ==
  LET good(b, start) ==
        /\ Valid(b, start)
        /\ Len(b.var) <= b.size
        /\ \A m, n \in DOMAIN b.cols :
             (m < n /\ Variable(b.cols[m].type) /\ Variable(b.cols[n].type)) =>
                b.cols[m].off + StoredSize(b.cols[m]) <= b.cols[n].off
  IN \A k \in DOMAIN backing :
       /\ good(k, KeyStart(Len(k.cols)))
       /\ good(backing[k], ValStart(Len(backing[k].cols)))
       /\ backing[k].rt = k.rt

\* "there is one canonical key blob for any combination of key values": a key
\* that was reached by updates, in any order, is the blob that bcreatekey
\* makes.  The primary key of the backing table compares blobs.
KeyBlobsAreCanonical ==
  \A t \in Tables : \A k \in RowsOf(t) :
    LET fresh == KeyBlob(t, KeyColumns(k)) IN fresh.ok /\ fresh.blob = k

\* Backed tables are tables: their rows are found by key, hold what was last
\* assigned and NULL otherwise, tables that share a backing table do not see
\* each other, and a statement fails only when it must and then changes
\* nothing.
ImplementsTables == KT!Spec

\* "We need to track how much variable space we need to add or remove": a
\* value blob has no more space than its columns take.
ValueBlobsAreCompact ==
  \A k \in DOMAIN backing : backing[k].size = Len(backing[k].var)
=============================================================================
