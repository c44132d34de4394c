----------------------------- MODULE KeyedTables ----------------------------
(***************************************************************************)
(* What a CQL programmer is promised of backed tables: each is an ordinary *)
(* table with a primary key and typed columns that may be NULL.  A         *)
(* statement does all of its work, or fails and changes nothing.           *)
(***************************************************************************)
EXTENDS Integers, Sequences, FiniteSets

CONSTANTS
  Tables,
  KeyTypes,    \* KeyTypes[t]: the types of the key columns, a sequence
  FieldTypes,  \* FieldTypes[t]: the types of the other columns, by field id
  NULL,        \* the SQL NULL: a value, like the others a record [st, i, s]
  Statements   \* the statements of the program: [op, t, where, key, vals, setKey, set]

VARIABLES
  rows,        \* the rows of the tables: [t, key, rec]
  stmt,        \* the last statement
  outcome      \* whether it succeeded

Fields(t) == DOMAIN FieldTypes[t]

\* The storage classes of SQLite that a column takes
Fits(type, v) ==
  v.st \in CASE type \in {"BOOL", "INT32", "INT64"} -> {"INTEGER"}
             [] type = "FLOAT" -> {"FLOAT", "INTEGER"}
             [] type = "STRING" -> {"TEXT"}
             [] type = "BLOB" -> {"BLOB"}

\* The value that a column then has
Stored(type, v) ==
  IF v = NULL THEN NULL
  ELSE CASE type = "BOOL" -> [v EXCEPT !.i = IF v.i = 0 THEN 0 ELSE 1]
         [] type = "FLOAT" -> [v EXCEPT !.st = "FLOAT"]
         [] OTHER -> v

\* Lists of assignments [f, v] to the columns f with types[f].  NULL fits
\* every column but those of the key.
KeyListFits(types, list) == \A n \in DOMAIN list : Fits(types[list[n].f], list[n].v)
ListFits(types, list) ==
  \A n \in DOMAIN list : list[n].v = NULL \/ Fits(types[list[n].f], list[n].v)

Assign(types, rec, list) ==
  [f \in DOMAIN rec |->
     IF \E n \in DOMAIN list : list[n].f = f
     THEN Stored(types[f], list[CHOOSE n \in DOMAIN list : list[n].f = f].v)
     ELSE rec[f]]

KeyFits(t, key) == \A i \in DOMAIN key : Fits(KeyTypes[t][i], key[i])

\* The row that an INSERT makes: columns that it does not name are NULL.
NewRow(q) ==
  [t |-> q.t,
   key |-> [i \in DOMAIN q.key |-> Stored(KeyTypes[q.t][i], q.key[i])],
   rec |-> Assign(FieldTypes[q.t], [f \in Fields(q.t) |-> NULL], q.vals)]

\* A row after the assignments of a statement
Changed(r, q) ==
  [r EXCEPT !.key = Assign(KeyTypes[r.t], @, q.setKey),
            !.rec = Assign(FieldTypes[r.t], @, q.set)]

SameKey(r, s) == r.t = s.t /\ r.key = s.key

Fail == outcome' = "error" /\ UNCHANGED rows
Become(new) == outcome' = "ok" /\ rows' = new

\* INSERT, and ON CONFLICT DO UPDATE when q says so
Insert(q) ==
  LET fits == KeyFits(q.t, q.key) /\ ListFits(FieldTypes[q.t], q.vals)
      conflicts == {r \in rows : SameKey(r, NewRow(q))}
      changes == q.op = "upsert" /\ ListFits(FieldTypes[q.t], q.set)
  IN \/ fits /\ conflicts = {} /\ Become(rows \cup {NewRow(q)})
     \/ /\ fits /\ conflicts # {} /\ changes
        /\ Become((rows \ conflicts) \cup {Changed(r, q) : r \in conflicts})
     \/ (~fits \/ (conflicts # {} /\ ~changes)) /\ Fail

Selected(q) == {r \in rows : r.t = q.t /\ r.key \in q.where}

\* UPDATE of the rows whose key is in q.where
Update(q) ==
  LET hit == Selected(q)
      fits == KeyListFits(KeyTypes[q.t], q.setKey) /\ ListFits(FieldTypes[q.t], q.set)
      clash == \E r \in hit, s \in rows \ hit : SameKey(Changed(r, q), s)
  IN IF hit = {} \/ (fits /\ ~clash)
     THEN Become((rows \ hit) \cup {Changed(r, q) : r \in hit})
     ELSE Fail

Delete(q) == Become(rows \ Selected(q))

Init ==
  /\ rows = {}
  /\ stmt = NULL
  /\ outcome = "none"

Next ==
  /\ stmt' \in Statements
  /\ \/ stmt'.op \in {"insert", "upsert"} /\ Insert(stmt')
     \/ stmt'.op = "update" /\ Update(stmt')
     \/ stmt'.op = "delete" /\ Delete(stmt')

Spec == Init /\ [][Next]_<<rows, stmt, outcome>>
=============================================================================
