---------------------------- MODULE ParentChild ----------------------------
(***************************************************************************)
(* OUT UNION CALL parent JOIN CALL child1 USING (k) AND CALL child2 ...:   *)
(* the statements the rewriter expands it to (rewrite.c), the C that is    *)
(* generated for them, the partition objects of the runtime they call, and *)
(* the owner of the result set, who may keep a child set for longer.       *)
(*                                                                         *)
(* Only reference counting keeps these objects alive: column values are    *)
(* copied between cursors, keys, buffers and result sets as raw pointers,  *)
(* and each copy must be paired with a retain and a release.  A database   *)
(* call may fail at any point, and the exit path gives everything back.    *)
(***************************************************************************)
EXTENDS Integers, Sequences, SequencesExt, FiniteSets, Totals

CONSTANTS Keys,        \* the text values of the join column
          NoKey,       \* its NULL
          NChildren,   \* the number of child results joined to the parent
          MaxRows      \* bound: rows a child or the parent returns

ASSUME ParentChildAssumption ==
  NoKey \notin Keys /\ NChildren \in Nat \ {0} /\ MaxRows \in Nat

Children == 1..NChildren
Values   == Keys \cup {NoKey}
Null     == 0                    \* a NULL reference

VARIABLES
  tables,    \* what the calls return: [child, parent] sequences of join values
  heap,      \* the reference counted objects, by address
  partition, \* __partition__N: the references of the procedure
  key,       \* __key__N: one row each
  child,     \* __child_cursor__N: one row each
  parent,    \* __parent__0
  out,       \* __out_cursor__0
  tmp,       \* _tmp_object_N: the object a nested call returned
  rows,      \* _rows_: the buffer of OUT UNION
  at,        \* the statement to run next
  served,    \* rows fetched from the statement being stepped
  result,    \* the result set handed to the caller
  held       \* child sets the caller retained: [set, row, child]

vars == << tables, heap, partition, key, child, parent, out, tmp, rows, at,
           served, result, held >>

----------------------------------------------------------------------------
(* Objects and rows.  A row is its plain columns, here the number of the   *)
(* row it came from, and its references, kept together in every layout.    *)

Row(n, refs) == [n |-> n, refs |-> refs]
EmptyRow(k)  == Row(0, [i \in 1..k |-> Null])

Object(kind, text, rs, groups) ==
  [kind |-> kind, refs |-> 1, text |-> text, rows |-> rs, groups |-> groups,
   empty |-> Null, extracting |-> FALSE]

New(h, o) == Append(h, o)        \* its address is the length of the heap

RowRefs(rs) == FlattenSeq([i \in DOMAIN rs |-> rs[i].refs])

(* cql_partition_key_release and cql_partition_val_release: a group is the *)
(* key row it copied and either its buffer or, once extracted, the set.    *)
GroupRefs(g) == g.key.refs \o (IF g.set # Null THEN <<g.set>> ELSE RowRefs(g.rows))

(* What the finalizer of an object releases.                               *)
Mutant_Owned(o) == RowRefs(o.rows) \o FlattenSeq([i \in DOMAIN o.groups |-> GroupRefs(o.groups[i])])
Owned(o) == RowRefs(o.rows)
            \o (IF o.kind = "partition" THEN <<o.empty>> ELSE << >>)
            \o FlattenSeq([i \in DOMAIN o.groups |-> GroupRefs(o.groups[i])])

(* Retaining an object that was freed leaves it at -1: no count comes back *)
(* from there.                                                             *)
Count(refs, a) == Cardinality({i \in DOMAIN refs : refs[i] = a})

Retain(h, refs) ==
  [a \in DOMAIN h |->
     [h[a] EXCEPT !.refs = IF @ <= 0 /\ Count(refs, a) > 0 THEN -1 ELSE @ + Count(refs, a)]]

(* Each reference in turn; an object whose count reaches zero is finalized *)
(* on the spot, and what it owned is released before the rest.  s is the   *)
(* heap and the references that are still due.                             *)
ReleaseNext(s) ==
  IF s.due = << >> THEN s
  ELSE LET a == Head(s.due) IN
       IF a = Null THEN [s EXCEPT !.due = Tail(@)]
       ELSE LET less == [s.heap EXCEPT ![a].refs = @ - 1]
                last == less[a].refs = 0
            IN  [heap |-> less,
                 due  |-> (IF last THEN Owned(s.heap[a]) ELSE << >>) \o Tail(s.due)]

(* No reference is released twice: this many steps at most.                *)
ReleaseSteps(h, refs) ==
  Len(refs) + Total([a \in DOMAIN h |-> IF h[a].refs > 0 THEN Len(Owned(h[a])) ELSE 0])

Release(h, refs) ==
  LET after[n \in 0..ReleaseSteps(h, refs)] ==
        IF n = 0 THEN [heap |-> h, due |-> refs] ELSE ReleaseNext(after[n - 1])
  IN  after[ReleaseSteps(h, refs)].heap

(* cql_set_string_ref, cql_set_object_ref: retain first, for an alias.     *)
Assign(h, old, new) == Release(Retain(h, <<new>>), <<old>>)

----------------------------------------------------------------------------
(* The runtime calls.                                                      *)

ValueAt(h, ref) == IF ref = Null THEN NoKey ELSE h[ref].text

(* cql_cursors_equal: by value, and two NULLs are equal.                   *)
Mutant_SameKey(h, k1, k2) == k1.refs[1] = k2.refs[1]
SameKey(h, k1, k2) == ValueAt(h, k1.refs[1]) = ValueAt(h, k2.refs[1])

GroupsOf(h, p, k) == {i \in DOMAIN h[p].groups : SameKey(h, h[p].groups[i].key, k)}

(* cql_partition_cursor: a new group copies and retains the key; the row   *)
(* is copied to the buffer of its group and retained.                      *)
PartitionCursor(h, p, k, row) ==
  LET known  == GroupsOf(h, p, k)
      groups == IF known = {} THEN Append(h[p].groups, [key |-> k, rows |-> <<row>>, set |-> Null])
                ELSE [h[p].groups EXCEPT ![CHOOSE i \in known : TRUE].rows = Append(@, row)]
      kept   == row.refs \o (IF known = {} THEN k.refs ELSE << >>)
  IN  [Retain(h, kept) EXCEPT ![p].groups = groups]

(* cql_extract_partition: the first time a key is asked for its buffer     *)
(* becomes a result set that the group keeps; later calls share it.  All   *)
(* absent keys share one empty set.  Yields the heap and the set.          *)
ExtractPartition(h, p, k) ==
  LET known == GroupsOf(h, p, k)
      i     == CHOOSE g \in known : TRUE
      begun == [h EXCEPT ![p].extracting = TRUE]
      shared == IF known # {} THEN h[p].groups[i].set ELSE h[p].empty
      fresh == Object("set", NoKey, IF known # {} THEN h[p].groups[i].rows ELSE << >>, << >>)
      a     == Len(h) + 1
      made  == New(begun, fresh)
      kept  == IF known # {}
               THEN [made EXCEPT ![p].groups[i] = [@ EXCEPT !.rows = << >>, !.set = a]]
               ELSE [made EXCEPT ![p].empty = a]
  IN  IF shared # Null THEN [heap |-> Retain(begun, <<shared>>), set |-> shared]
      ELSE [heap |-> Retain(kept, <<a>>), set |-> a]

(* cql_multifetch of one row: the text column becomes a new string.        *)
FetchRow(h, old, n, value) ==
  IF value = NoKey THEN [heap |-> Release(h, old.refs), row |-> Row(n, <<Null>>)]
  ELSE [heap |-> New(Release(h, old.refs), Object("text", value, << >>, << >>)),
        row  |-> Row(n, <<Len(h) + 1>>)]

(* cql_multinull: no row, the references are dropped.                      *)
ClearRow(h, old) == [heap |-> Release(h, old.refs), row |-> EmptyRow(Len(old.refs))]

----------------------------------------------------------------------------
(* The procedure, one action for each C statement of the expansion.        *)

Begin(c) == [do |-> "create", c |-> c]
Stmt(d)  == [do |-> d, c |-> 0]
Inputs   == UNION {[1..n -> Values] : n \in 0..MaxRows}

Init ==
  /\ tables \in [child : [Children -> Inputs], parent : Inputs]
  /\ heap = << >>
  /\ partition = [c \in Children |-> Null]
  /\ key       = [c \in Children |-> EmptyRow(1)]
  /\ child     = [c \in Children |-> EmptyRow(1)]
  /\ parent    = EmptyRow(1)
  /\ out       = EmptyRow(1 + NChildren)
  /\ tmp       = [c \in Children |-> Null]
  /\ rows = << >>
  /\ at = Begin(1)
  /\ served = 0
  /\ result = Null
  /\ held = {}

Fails == at' = Stmt("error")

(* LET __partition__c := cql_partition_create();                           *)
CreatePartition(c) ==
  /\ at = Begin(c)
  /\ heap' = New(heap, Object("partition", NoKey, << >>, << >>))
  /\ partition' = [partition EXCEPT ![c] = Len(heap')]
  /\ at' = [do |-> "call", c |-> c]
  /\ UNCHANGED << tables, key, child, parent, out, tmp, rows, served, result, held >>

(* CURSOR __child_cursor__c FOR CALL child(): may fail to prepare.         *)
CallChild(c) ==
  /\ at = [do |-> "call", c |-> c]
  /\ served' = 0
  /\ Fails \/ at' = [do |-> "fetch", c |-> c]
  /\ UNCHANGED << tables, heap, partition, key, child, parent, out, tmp, rows, result, held >>

(* LOOP FETCH __child_cursor__c: a row, the end, or an error.              *)
FetchChild(c) ==
  /\ at = [do |-> "fetch", c |-> c]
  /\ \/ /\ served < Len(tables.child[c])
        /\ LET f == FetchRow(heap, child[c], served + 1, tables.child[c][served + 1])
           IN  heap' = f.heap /\ child' = [child EXCEPT ![c] = f.row]
        /\ served' = served + 1
        /\ at' = [do |-> "partition", c |-> c]
     \/ /\ LET f == ClearRow(heap, child[c])
           IN  heap' = f.heap /\ child' = [child EXCEPT ![c] = f.row]
        /\ UNCHANGED served
        /\ \/ Fails
           \/ /\ served = Len(tables.child[c])
              /\ at' = IF c < NChildren THEN Begin(c + 1) ELSE Stmt("call_parent")
  /\ UNCHANGED << tables, partition, key, parent, out, tmp, rows, result, held >>

(* FETCH __key__c FROM __child_cursor__c(LIKE __key__c);                   *)
(* SET __result__ := cql_partition_cursor(...)                             *)
PartitionChild(c) ==
  /\ at = [do |-> "partition", c |-> c]
  /\ LET k == Row(0, child[c].refs)
         loaded == Assign(heap, key[c].refs[1], k.refs[1])
     IN  /\ key' = [key EXCEPT ![c] = k]
         /\ heap' = PartitionCursor(loaded, partition[c], k, child[c])
  /\ at' = [do |-> "fetch", c |-> c]
  /\ UNCHANGED << tables, partition, child, parent, out, tmp, rows, served, result, held >>

CallParent ==
  /\ at = Stmt("call_parent")
  /\ served' = 0
  /\ Fails \/ at' = Stmt("fetch_parent")
  /\ UNCHANGED << tables, heap, partition, key, child, parent, out, tmp, rows, result, held >>

(* LOOP FETCH __parent__0                                                  *)
FetchParent ==
  /\ at = Stmt("fetch_parent")
  /\ \/ /\ served < Len(tables.parent)
        /\ LET f == FetchRow(heap, parent, served + 1, tables.parent[served + 1])
           IN  heap' = f.heap /\ parent' = f.row
        /\ served' = served + 1
        /\ at' = Stmt("load_keys")
     \/ /\ LET f == ClearRow(heap, parent) IN heap' = f.heap /\ parent' = f.row
        /\ UNCHANGED served
        /\ \/ Fails
           \/ served = Len(tables.parent) /\ at' = Stmt("finish")
  /\ UNCHANGED << tables, partition, key, child, out, tmp, rows, result, held >>

(* FETCH __key__c FROM __parent__0(LIKE __key__c), for each child, then    *)
(* the parent's columns of FETCH __out_cursor__0 FROM VALUES (...)         *)
LoadEach(h, k, ref) ==
  LET loaded[c \in 0..NChildren] ==
        IF c = 0 THEN h ELSE Assign(loaded[c - 1], k[c].refs[1], ref)
  IN  loaded[NChildren]

LoadKeys ==
  /\ at = Stmt("load_keys")
  /\ LET ref == parent.refs[1]
     IN  heap' = Assign(LoadEach(heap, key, ref), out.refs[1], ref)
  /\ key' = [c \in Children |-> Row(0, parent.refs)]
  /\ out' = Row(parent.n, [out.refs EXCEPT ![1] = parent.refs[1]])
  /\ at' = [do |-> "extract", c |-> 1]
  /\ UNCHANGED << tables, partition, child, parent, tmp, rows, served, result, held >>

(* ... cql_extract_partition(__partition__c, __key__c): the object goes    *)
(* through a temporary, that keeps the reference the call returned.        *)
Extract(c) ==
  /\ at = [do |-> "extract", c |-> c]
  /\ LET e == ExtractPartition(heap, partition[c], key[c])
         h == Release(e.heap, <<tmp[c]>>)
     IN  /\ tmp' = [tmp EXCEPT ![c] = e.set]
         /\ heap' = Assign(h, out.refs[1 + c], e.set)
         /\ out' = [out EXCEPT !.refs[1 + c] = e.set]
  /\ at' = IF c < NChildren THEN [do |-> "extract", c |-> c + 1] ELSE Stmt("out_union")
  /\ UNCHANGED << tables, partition, key, child, parent, rows, served, result, held >>

(* OUT UNION __out_cursor__0                                               *)
OutUnion ==
  /\ at = Stmt("out_union")
  /\ heap' = Retain(heap, out.refs)
  /\ rows' = Append(rows, out)
  /\ at' = Stmt("fetch_parent")
  /\ UNCHANGED << tables, partition, key, child, parent, out, tmp, served, result, held >>

(* cql_cleanup: cql_results_from_data, then everything the procedure holds *)
(* in the order of its declarations.                                       *)
Locals == FlattenSeq([c \in Children |-> key[c].refs \o <<partition[c]>> \o child[c].refs])
          \o out.refs \o parent.refs \o [c \in Children |-> tmp[c]]

Delivered ==
  IF at = Stmt("finish")
  THEN New(heap, Object("set", NoKey, rows, << >>))
  ELSE Release(heap, RowRefs(rows))

CleanUp ==
  /\ at \in {Stmt("finish"), Stmt("error")}
  /\ result' = IF at = Stmt("finish") THEN Len(heap) + 1 ELSE Null
  /\ heap' = Release(Delivered, Locals)
  /\ rows' = << >>
  /\ partition' = [c \in Children |-> Null]
  /\ key'    = [c \in Children |-> EmptyRow(1)]
  /\ child'  = [c \in Children |-> EmptyRow(1)]
  /\ parent' = EmptyRow(1)
  /\ out'    = EmptyRow(1 + NChildren)
  /\ tmp'    = [c \in Children |-> Null]
  /\ at' = Stmt("returned")
  /\ UNCHANGED << tables, served, held >>

----------------------------------------------------------------------------
(* The caller: it may keep any child set, and lets go in any order.        *)

HoldChildSet(i, c) ==
  /\ at = Stmt("returned") /\ result # Null
  /\ i \in DOMAIN heap[result].rows
  /\ LET set == heap[result].rows[i].refs[1 + c] IN
     /\ ~ \E x \in held : x.row = i /\ x.child = c
     /\ held' = held \cup {[set |-> set, row |-> i, child |-> c]}
     /\ heap' = Retain(heap, <<set>>)
  /\ UNCHANGED << tables, partition, key, child, parent, out, tmp, rows, at, served, result >>

ReleaseChildSet(x) ==
  /\ x \in held
  /\ held' = held \ {x}
  /\ heap' = Release(heap, <<x.set>>)
  /\ UNCHANGED << tables, partition, key, child, parent, out, tmp, rows, at, served, result >>

ReleaseResult ==
  /\ at = Stmt("returned") /\ result # Null
  /\ heap' = Release(heap, <<result>>)
  /\ result' = Null
  /\ UNCHANGED << tables, partition, key, child, parent, out, tmp, rows, at, served, held >>

Next ==
  \/ \E c \in Children : \/ CreatePartition(c) \/ CallChild(c) \/ FetchChild(c)
                         \/ PartitionChild(c) \/ Extract(c)
  \/ CallParent \/ FetchParent \/ LoadKeys \/ OutUnion \/ CleanUp \/ ReleaseResult
  \/ \E i \in 1..MaxRows, c \in Children : HoldChildSet(i, c)
  \/ \E x \in held : ReleaseChildSet(x)

Spec == Init /\ [][Next]_vars

----------------------------------------------------------------------------
(* Every place that holds a reference, each as often as it holds one.      *)
Live    == {a \in DOMAIN heap : heap[a].refs > 0}
Holders == Locals \o RowRefs(rows) \o <<result>>

HeldCount(hs, a) == Cardinality({x \in hs : x.set = a})
OwnedCount(h, a) ==
  Total([b \in DOMAIN h |-> IF h[b].refs > 0 THEN Count(Owned(h[b]), a) ELSE 0])

(* At every statement, on every path, the count of an object is the number *)
(* of places that hold it: locals, the row buffer, live partitions and     *)
(* result sets, and the caller.  Nothing is freed while it can be reached, *)
(* nothing is left behind on an error exit or when the caller is done.     *)
CountsMatchHolders ==
  \A a \in DOMAIN heap :
    heap[a].refs = Count(Holders, a) + HeldCount(held, a) + OwnedCount(heap, a)

(* The join, from the two tables: the rows of a child with the parent's    *)
(* value, NULL matching NULL, in the order the child returned them.        *)
Matching(c, v) == {n \in DOMAIN tables.child[c] : tables.child[c][n] = v}
InOrder(rs)    == \A i, j \in DOMAIN rs : i < j => rs[i].n < rs[j].n

IsSetFor(set, c, v) ==
  /\ set \in Live
  /\ InOrder(heap[set].rows)
  /\ {r.n : r \in ToSet(heap[set].rows)} = Matching(c, v)
  /\ \A r \in ToSet(heap[set].rows) : ValueAt(heap, r.refs[1]) = v /\ ToSet(r.refs) \subseteq Live \cup {Null}

(* A delivered result set is the parent's rows in order, each with exactly *)
(* its children; parents with the same value share one set; and a child    *)
(* set the caller kept stays intact after the result set is gone.          *)
JoinIsExact ==
  /\ result # Null =>
       LET rs == heap[result].rows IN
       /\ Len(rs) = Len(tables.parent)
       /\ \A i \in DOMAIN rs : /\ rs[i].n = i
                               /\ ValueAt(heap, rs[i].refs[1]) = tables.parent[i]
                               /\ \A c \in Children : IsSetFor(rs[i].refs[1 + c], c, tables.parent[i])
       /\ \A i, j \in DOMAIN rs, c \in Children :
            tables.parent[i] = tables.parent[j] => rs[i].refs[1 + c] = rs[j].refs[1 + c]
  /\ \A x \in held : IsSetFor(x.set, x.child, tables.parent[x.row])
=============================================================================
