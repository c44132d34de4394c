------------------------------- MODULE Hashtab ------------------------------
(***************************************************************************)
(* cql_hashtab of cqlrt_common.c, the open-addressing hash table under     *)
(* every dictionary of the runtime and under facets and partitions, with   *)
(* the reference counts of the strings it holds.  A call proceeds in the   *)
(* steps of its loops: one step per slot probed and one per entry moved by *)
(* a rehash.                                                               *)
(***************************************************************************)
EXTENDS Integers, Sequences, FiniteSets

CONSTANTS
  Ref,        \* string references, that is, non-null pointers
  Content,    \* the contents of a string: distinct references may be equal
  HashOf,     \* the hash code of a content
  Plain,      \* values that are no references: CRCs, longs, reals
  Keys, Vals, \* the keys and values that calls use
  Released,   \* the references that the program may drop
  NULL,
  InitSize    \* HASHTAB_INIT_SIZE

Text == {Content[r] : r \in Ref}
Val == Ref \cup Plain

ASSUME HashtabAssumption ==
  /\ DOMAIN Content = Ref
  /\ HashOf \in [Text -> Nat]
  /\ NULL \notin Ref \cup Plain
  /\ NULL \notin [op : {"add", "upsert", "find"}, text : Text, val : Val \cup {NULL}]
  /\ Ref \cap Plain = {}
  /\ Keys \subseteq Ref /\ Vals \subseteq Val /\ Released \subseteq Ref
  /\ InitSize \in Nat \ {0}

VARIABLES
  kind,      \* "refs": values are retained (string, object and blob
             \* dictionaries); "plain": they are not (facets, long, real)
  capacity, count, payload,   \* the fields of cql_hashtab
  rc,        \* the reference count of every string, 0 once it is freed
  held,      \* how many of those references the program owns
  pc,        \* where the running call is, "none" when there is no table
  call,      \* its operation, key and value
  offset,    \* the slot that it looks at next
  frames,    \* one [old, i] per cql_hashtab_rehash that is running
  ret,       \* the result of the last call, known once its effect is done
  fault      \* TRUE once a freed string has been retained or released

vars == <<kind, capacity, count, payload, rc, held, pc, call, offset, frames,
          ret, fault>>
table == <<kind, capacity, count, payload>>
counts == <<rc, held, fault>>
-----------------------------------------------------------------------------

Slot == [key : Ref \cup {NULL}, val : Val \cup {NULL}]
EmptySlot == [key |-> NULL, val |-> NULL]

\* cql_hashtab_set_payload
NewPayload(cap) == [i \in 0..(cap - 1) |-> EmptySlot]

\* cql_key_str_hash, reduced to a slot
Home(k, cap) == HashOf[Content[k]] % cap

\* Mutant: references are compared, not the strings.
Mutant_SameKey(k1, k2) == k1 = k2

\* cql_key_str_eq
SameKey(k1, k2) == Content[k1] = Content[k2]

\* Mutant: the end of the table is not noticed.
Mutant_NextSlot(i, cap) == i + 1

\* The wrapping increment at the end of the probing loops.
NextSlot(i, cap) == IF i + 1 >= cap THEN 0 ELSE i + 1

\* Mutant: the table grows only when it is full.
Mutant_Overloaded(n, cap) == n > cap

\* The test before cql_hashtab_rehash: more than .75 of the slots are used.
Overloaded(n, cap) == 4 * n > 3 * cap

\* The references that the table takes for an entry: always its key, and its
\* value in a dictionary of references.
Uses(r, e) ==
  (IF r = e.key THEN 1 ELSE 0) + (IF kind = "refs" /\ r = e.val THEN 1 ELSE 0)

\* retain_key and retain_val, release_key and release_val
Retain(e) ==
  /\ rc' = [r \in Ref |-> rc[r] + Uses(r, e)]
  /\ fault' = (fault \/ \E r \in Ref : Uses(r, e) > 0 /\ rc[r] = 0)

\* Mutant: moved entries are not released.
Mutant_Release(e) == UNCHANGED <<rc, fault>>

Release(e) ==
  /\ rc' = [r \in Ref |-> rc[r] - Uses(r, e)]
  /\ fault' = (fault \/ \E r \in Ref : Uses(r, e) > rc[r])

\* Mutant: the old value is released first.
Mutant_ReplaceValue(old, new) ==
  IF kind = "refs"
  THEN LET released == [rc EXCEPT ![old] = @ - 1] IN
       /\ rc' = [released EXCEPT ![new] = @ + 1]
       /\ fault' = (fault \/ rc[old] = 0 \/ released[new] = 0)
  ELSE UNCHANGED <<rc, fault>>

\* A value is replaced in place: the new one is retained before the old one
\* is released, "in case it is the same as the old value".
ReplaceValue(old, new) ==
  IF kind = "refs"
  THEN LET retained == [rc EXCEPT ![new] = @ + 1] IN
       /\ rc' = [retained EXCEPT ![old] = @ - 1]
       /\ fault' = (fault \/ rc[new] = 0 \/ retained[old] = 0)
  ELSE UNCHANGED <<rc, fault>>
-----------------------------------------------------------------------------

NoCall == [op |-> "find", key |-> NULL, val |-> NULL]

Init ==
  /\ kind = "plain" /\ capacity = InitSize /\ count = 0
  /\ payload = NewPayload(InitSize)
  /\ rc = [r \in Ref |-> 1]
  /\ held = [r \in Ref |-> 1]
  /\ pc = "none"
  /\ call = NoCall
  /\ offset = 0
  /\ frames = << >>
  /\ ret = NULL
  /\ fault = FALSE

\* cql_facets_create, cql_string_dictionary_create and the others
Create(kd) ==
  /\ pc = "none"
  /\ kind' = kd
  /\ capacity' = InitSize /\ count' = 0 /\ payload' = NewPayload(InitSize)
  /\ pc' = "idle"
  /\ UNCHANGED <<counts, call, offset, frames, ret>>

\* The program drops a reference of its own.
Drop(r) ==
  /\ pc = "idle"
  /\ held[r] > 0
  /\ held' = [held EXCEPT ![r] = @ - 1]
  /\ rc' = [rc EXCEPT ![r] = @ - 1]
  /\ UNCHANGED <<table, pc, call, offset, frames, ret, fault>>

\* A call starts.  Its arguments are live strings, not necessarily owned by
\* the program: find hands out values that only the table owns.
Begin(o, k, v) ==
  /\ pc = "idle"
  /\ rc[k] > 0
  /\ v \in Ref => rc[v] > 0
  /\ call' = [op |-> o, key |-> k, val |-> v]
  /\ pc' = IF o = "add" THEN "add" ELSE "find"
  /\ offset' = Home(k, capacity)
  /\ UNCHANGED <<table, counts, frames, ret>>

FacetAdd(k, v) == kind = "plain" /\ v \in Plain /\ Begin("add", k, v)
DictionaryAdd(k, v) == (v \in Ref <=> kind = "refs") /\ Begin("upsert", k, v)
DictionaryFind(k) == Begin("find", k, NULL)

\* The call returns to the program and its locals are gone.
Return(result) ==
  ret' = result /\ pc' = "idle" /\ call' = NoCall /\ offset' = 0

\* One round of the loop of cql_hashtab_find, and what its caller does with
\* the outcome: an add mutates the entry found, or goes on to add one.
FindProbe ==
  /\ pc = "find"
  /\ LET s == payload[offset] IN
     \/ /\ s.key = NULL /\ call.op = "find"
        /\ Return(NULL)
        /\ UNCHANGED <<table, counts>>
     \/ /\ s.key = NULL /\ call.op = "upsert"
        /\ pc' = "add" /\ offset' = Home(call.key, capacity)
        /\ UNCHANGED <<table, counts, call, ret>>
     \/ /\ s.key # NULL /\ ~SameKey(s.key, call.key)
        /\ offset' = NextSlot(offset, capacity)
        /\ UNCHANGED <<table, counts, pc, call, ret>>
     \/ /\ s.key # NULL /\ SameKey(s.key, call.key) /\ call.op = "find"
        /\ Return(s.val)
        /\ UNCHANGED <<table, counts>>
     \/ /\ s.key # NULL /\ SameKey(s.key, call.key) /\ call.op = "upsert"
        /\ payload' = [payload EXCEPT ![offset].val = call.val]
        /\ ReplaceValue(s.val, call.val)
        /\ Return("exists")
        /\ UNCHANGED <<kind, capacity, count, held>>
  /\ UNCHANGED frames

\* The entry that cql_hashtab_add is adding: that of the call, or the one
\* that the innermost rehash is moving.
Adding == IF frames = << >>
          THEN [key |-> call.key, val |-> call.val]
          ELSE Head(frames).old[Head(frames).i]

\* cql_hashtab_add returns, to the caller or into cql_hashtab_rehash.
AddReturns(result) ==
  IF frames = << >>
  THEN Return(result)
  ELSE pc' = "release" /\ UNCHANGED <<ret, call, offset>>

\* Mutant: the count is not reset when the entries are about to be added again.
Mutant_Grow(filled) ==
  /\ capacity' = 2 * capacity
  /\ count' = count + 1
  /\ payload' = NewPayload(2 * capacity)
  /\ frames' = <<[old |-> filled, i |-> 0]>> \o frames
  /\ pc' = "rehash"
  /\ ret' = IF frames = << >> THEN "added" ELSE ret
  /\ UNCHANGED <<call, offset>>

\* cql_hashtab_rehash up to its loop
Grow(filled) ==
  /\ capacity' = 2 * capacity
  /\ count' = 0
  /\ payload' = NewPayload(2 * capacity)
  /\ frames' = <<[old |-> filled, i |-> 0]>> \o frames
  /\ pc' = "rehash"
  /\ ret' = IF frames = << >> THEN "added" ELSE ret
  /\ UNCHANGED <<call, offset>>

\* A free slot is found: the entry is stored, and a table that is now too
\* full is replaced by one of twice the size, into which the loop of
\* cql_hashtab_rehash moves the entries of the old one.
Insert ==
  /\ pc = "add" /\ payload[offset].key = NULL
  /\ Retain(Adding)
  /\ LET filled == [payload EXCEPT ![offset] = Adding] IN
     IF Overloaded(count + 1, capacity)
     THEN Grow(filled)
     ELSE /\ payload' = filled
          /\ count' = count + 1
          /\ AddReturns("added")
          /\ UNCHANGED <<capacity, frames>>
  /\ UNCHANGED <<kind, held>>

\* An occupied slot: the key is there already, or the next slot is tried.
AddProbe ==
  /\ pc = "add" /\ payload[offset].key # NULL
  /\ IF SameKey(payload[offset].key, Adding.key)
     THEN AddReturns("exists")
     ELSE offset' = NextSlot(offset, capacity) /\ UNCHANGED <<pc, call, ret>>
  /\ UNCHANGED <<table, counts, frames>>

\* Mutant: entries are moved to the slot where the last one was added or later.
Mutant_RehashHome(k) == offset

\* Where the search for a slot of the new table starts
RehashHome(k) == Home(k, capacity)

\* The loop of cql_hashtab_rehash at old_payload[i]
Rehash ==
  /\ pc = "rehash"
  /\ LET f == Head(frames) IN
     \/ /\ f.i \notin DOMAIN f.old        \* free(old_payload), return to add
        /\ frames' = Tail(frames)
        /\ IF Tail(frames) = << >>
           THEN Return(ret)
           ELSE pc' = "release" /\ UNCHANGED <<ret, call, offset>>
     \/ /\ f.i \in DOMAIN f.old /\ f.old[f.i].key = NULL
        /\ frames' = [frames EXCEPT ![1].i = @ + 1]
        /\ UNCHANGED <<pc, offset, call, ret>>
     \/ /\ f.i \in DOMAIN f.old /\ f.old[f.i].key # NULL
        /\ offset' = RehashHome(f.old[f.i].key)
        /\ pc' = "add"
        /\ UNCHANGED <<frames, call, ret>>
  /\ UNCHANGED <<table, counts>>

\* The entry moved was retained by cql_hashtab_add, so the old table's
\* references are released.
RehashRelease ==
  /\ pc = "release"
  /\ Release(Adding)
  /\ frames' = [frames EXCEPT ![1].i = @ + 1]
  /\ pc' = "rehash"
  /\ UNCHANGED <<table, held, call, offset, ret>>

\* cql_hashtab_delete, when the last reference to the dictionary goes
Held(r) ==
  Cardinality({i \in DOMAIN payload : payload[i].key = r})
  + IF kind = "refs" THEN Cardinality({i \in DOMAIN payload : payload[i].val = r})
                     ELSE 0

Delete ==
  /\ pc = "idle"
  /\ rc' = [r \in Ref |-> rc[r] - Held(r)]
  /\ fault' = (fault \/ \E r \in Ref : rc[r] < Held(r))
  /\ pc' = "none"
  /\ capacity' = InitSize /\ count' = 0 /\ payload' = NewPayload(InitSize)
  /\ UNCHANGED <<kind, held, call, offset, frames, ret>>

\* The steps of a call that is under way.
Step == FindProbe \/ Insert \/ AddProbe \/ Rehash \/ RehashRelease

Next ==
  \/ \E kd \in {"refs", "plain"} : Create(kd)
  \/ \E r \in Released : Drop(r)
  \/ \E k \in Keys :
       \/ \E v \in Vals : FacetAdd(k, v) \/ DictionaryAdd(k, v)
       \/ DictionaryFind(k)
  \/ Step
  \/ Delete

Spec == Init /\ [][Next]_vars

\* A call runs to its end: nothing else runs in its thread.
FairSpec == Spec /\ WF_vars(Step)
-----------------------------------------------------------------------------

HashtabTypeOK ==
  /\ kind \in {"refs", "plain"}
  /\ capacity \in Nat \ {0} /\ count \in Nat
  /\ payload \in [0..(capacity - 1) -> Slot]
  /\ rc \in [Ref -> Nat] /\ held \in [Ref -> Nat]
  /\ pc \in {"none", "idle", "find", "add", "rehash", "release"}
  /\ call.op \in {"add", "upsert", "find"}
  /\ call.key \in Ref \cup {NULL} /\ call.val \in Val \cup {NULL}
  /\ offset \in Nat
  /\ pc \in {"find", "add"} => offset \in 0..(capacity - 1)
  /\ ret \in Val \cup {NULL, "added", "exists"}
  /\ fault \in BOOLEAN

Used(p) == {i \in DOMAIN p : p[i].key # NULL}

\* The slots from a to b, going round the end of the table.
Between(a, b, cap) == IF a <= b THEN a..b ELSE (a..(cap - 1)) \cup (0..b)

\* Every entry can be found: the loop of cql_hashtab_find stops at the first
\* empty slot, so none may lie between the home of a key and its entry, and
\* no text may have two entries.  The count on which growth depends is that
\* of the entries, and a slot stays free for the loops to stop at.
EntriesReachable ==
  /\ \A i \in Used(payload) :
       Between(Home(payload[i].key, capacity), i, capacity) \subseteq Used(payload)
  /\ \A i, j \in Used(payload) :
       SameKey(payload[i].key, payload[j].key) => i = j
  /\ count = Cardinality(Used(payload))
  /\ count < capacity

\* What the table holds: its own entries and, during a rehash, those of the
\* old table that have not been released yet.
Entries ==
  {<<0, i>> : i \in Used(payload)} \cup
  {e \in (DOMAIN frames) \X (0..capacity) :
     /\ e[2] \in DOMAIN frames[e[1]].old
     /\ e[2] >= frames[e[1]].i
     /\ frames[e[1]].old[e[2]].key # NULL}
EntryAt(e) == IF e[1] = 0 THEN payload[e[2]] ELSE frames[e[1]].old[e[2]]

\* The count of every string is the number of references that the program
\* and the table have to it, at every step of a rehash too: none is lost and
\* none is released twice.
ReferencesBalance ==
  \A r \in Ref :
    rc[r] = held[r] + Cardinality({e \in Entries : EntryAt(e).key = r})
            + IF kind = "refs"
              THEN Cardinality({e \in Entries : EntryAt(e).val = r})
              ELSE 0

\* No string is used after it was freed: not by the order of retain and
\* release when a value is replaced by itself, nor by the program dropping
\* its references while entries remain.
NoUseAfterFree ==
  /\ ~fault
  /\ \A e \in Entries : rc[EntryAt(e).key] > 0

\* cql_hashtab_rehash adds to a table that is large enough: the recursion
\* through cql_hashtab_add ends at depth one.
RehashDoesNotNest == Len(frames) <= 1

\* Every call returns, since a probe finds its key or a free slot.
CallsReturn == (pc \notin {"idle", "none"}) ~> (pc = "idle")

\* The map that the table stands for.
MapOf ==
  [t \in Text |->
     IF \E e \in Entries : Content[EntryAt(e).key] = t
     THEN EntryAt(CHOOSE e \in Entries : Content[EntryAt(e).key] = t).val
     ELSE NULL]

\* A call is open until its effect is done; growing the table comes after.
OpenRequest ==
  IF pc \in {"idle", "none"} \/ frames # << >>
  THEN NULL
  ELSE [op |-> call.op, text |-> Content[call.key], val |-> call.val]

Map == INSTANCE Dictionary WITH
         Val <- Val \cup {NULL}, None <- NULL,
         dict <- MapOf, req <- OpenRequest, ret <- ret

\* The hash table implements the map that its callers see: whatever the
\* collisions, wrapping and growth, no entry is lost, duplicated or changed.
ImplementsDictionary == Map!Spec
=============================================================================
