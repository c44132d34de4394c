---------------------------- MODULE HashtabProofs ---------------------------
(***************************************************************************)
(* Proofs about Hashtab, for every set of strings, every hash function and *)
(* every initial size: the table can always be searched, references are    *)
(* accounted for, and the table implements the map of module Dictionary.   *)
(***************************************************************************)
EXTENDS Hashtab, FiniteSetTheorems, TLAPS

\* What a slot in use holds, in a dictionary of kind kd.
EntryOK(e, kd) ==
  /\ e \in [key : Ref, val : Val]
  /\ e.val \in Ref <=> kd = "refs"

SlotsOK(p, n, kd) ==
  /\ p \in [0..(n - 1) -> Slot]
  /\ \A i \in 0..(n - 1) : p[i] = EmptySlot \/ EntryOK(p[i], kd)

\* The two halves of EntriesReachable: no free slot before an entry, and no
\* text twice.
Reach(p, n) ==
  \A i \in Used(p) : Between(Home(p[i].key, n), i, n) \subseteq Used(p)
Distinct(p) ==
  \A i, j \in Used(p) : SameKey(p[i].key, p[j].key) => i = j

\* A search for k that has come to slot o has passed only entries of other texts.
Probed(p, n, k, o) ==
  \A i \in Between(Home(k, n), o, n) \ {o} :
    p[i].key # NULL /\ ~SameKey(p[i].key, k)

CallOK ==
  /\ call \in [op : {"add", "upsert", "find"}, key : Ref \cup {NULL}, val : Val \cup {NULL}]
  /\ pc \in {"find", "add"} /\ frames = << >> =>
       /\ call.key \in Ref /\ rc[call.key] > 0
       /\ pc = "find" => call.op # "add"
       /\ pc = "add" => call.op # "find"
       /\ call.op # "find" =>
            /\ EntryOK([key |-> call.key, val |-> call.val], kind)
            /\ call.val \in Ref => rc[call.val] > 0

\* The rehash that is under way, of a table of n slots: what has been moved
\* came from the slots before f.i, or is the entry at f.i itself.
RehashOK(f, n) ==
  /\ f \in [old : [0..(n - 1) -> Slot], i : 0..n]
  /\ capacity = 2 * n
  /\ SlotsOK(f.old, n, kind) /\ Distinct(f.old)
  /\ pc \in {"add", "release"} => f.i < n /\ f.old[f.i].key # NULL
  /\ \A j \in Used(payload) : \E m \in 0..(n - 1) :
       /\ payload[j] = f.old[m]
       /\ m < f.i \/ (m = f.i /\ pc = "release")
  /\ pc = "release" => \E j \in Used(payload) : payload[j] = f.old[f.i]
  /\ count <= f.i + (IF pc = "release" THEN 1 ELSE 0)

FramesOK ==
  /\ pc \in {"none", "idle", "find"} => frames = << >>
  /\ pc \in {"rehash", "release"} => frames # << >>
  /\ frames # << >> => /\ frames = <<frames[1]>>
                       /\ RehashOK(frames[1], capacity \div 2)

\* The shape of the state: everything but the reference counts.
TableInv ==
  /\ kind \in {"refs", "plain"}
  /\ capacity \in Nat \ {0} /\ count \in Nat
  /\ SlotsOK(payload, capacity, kind)
  /\ Reach(payload, capacity) /\ Distinct(payload)
  /\ count = Cardinality(Used(payload)) /\ 4 * count <= 3 * capacity
  /\ rc \in [Ref -> Int] /\ held \in [Ref -> Nat]
  /\ pc \in {"none", "idle", "find", "add", "rehash", "release"}
  /\ pc = "none" => Used(payload) = {}
  /\ offset \in Nat
  /\ ret \in Val \cup {NULL, "added", "exists"}
  /\ FramesOK
  /\ pc \in {"find", "add"} =>
       offset < capacity /\ Probed(payload, capacity, Adding.key, offset)

\* An upsert adds an entry only after it has not found one.
UpsertOK ==
  pc = "add" /\ frames = << >> /\ call.op = "upsert" =>
    \A i \in Used(payload) : ~SameKey(payload[i].key, call.key)

\* The references to r of the entries of p at the slots of S, in a dictionary
\* of kind kd.
UsesOf(e, r, kd) ==
  (IF r = e.key THEN 1 ELSE 0) + (IF kd = "refs" /\ r = e.val THEN 1 ELSE 0)
Holds(p, S, r, kd) ==
  Cardinality({i \in S : p[i].key = r})
  + IF kd = "refs" THEN Cardinality({i \in S : p[i].val = r}) ELSE 0

\* The entries of the old table that a rehash has not released yet.
Pending(f) == {m \in Used(f.old) : m >= f.i}
PendingHolds(fs, r, kd) ==
  IF fs = << >> THEN 0 ELSE Holds(fs[1].old, Pending(fs[1]), r, kd)

CountInv ==
  /\ fault = FALSE
  /\ \A r \in Ref : rc[r] = held[r] + Holds(payload, Used(payload), r, kind)
                            + PendingHolds(frames, r, kind)

IInv == TableInv /\ CallOK /\ CountInv /\ UpsertOK
-----------------------------------------------------------------------------
(* Searching a table p of n slots. *)

LEMMA HomeType ==
  ASSUME NEW k \in Ref, NEW n \in Nat \ {0}
  PROVE  Home(k, n) \in 0..(n - 1)
<1>1. HashOf[Content[k]] \in Nat
  BY HashtabAssumption DEF Text
<1> QED  BY <1>1 DEF Home

LEMMA NextSlotType ==
  ASSUME NEW n \in Nat \ {0}, NEW o \in 0..(n - 1)
  PROVE  NextSlot(o, n) \in 0..(n - 1)
BY DEF NextSlot

\* An entry is in use, a free slot is not.
LEMMA SlotUsed ==
  ASSUME NEW n \in Nat \ {0}, NEW kd, NEW p, SlotsOK(p, n, kd),
         NEW i \in 0..(n - 1)
  PROVE  /\ DOMAIN p = 0..(n - 1)
         /\ Used(p) \in SUBSET (0..(n - 1))
         /\ i \in Used(p) <=> p[i].key # NULL
         /\ i \in Used(p) <=> EntryOK(p[i], kd)
         /\ i \notin Used(p) => p[i] = EmptySlot
BY HashtabAssumption DEF SlotsOK, Used, EntryOK, EmptySlot

LEMMA NothingProbed ==
  ASSUME NEW n \in Nat \ {0}, NEW p, NEW k \in Ref
  PROVE  Probed(p, n, k, Home(k, n))
BY HomeType DEF Probed, Between

\* The loop of a search goes on to the next slot.
LEMMA ProbeNext ==
  ASSUME NEW n \in Nat \ {0}, NEW p, NEW k \in Ref, NEW o \in 0..(n - 1),
         Probed(p, n, k, o), p[o].key # NULL, ~SameKey(p[o].key, k)
  PROVE  Probed(p, n, k, NextSlot(o, n))
<1> DEFINE h == Home(k, n)
<1>1. h \in 0..(n - 1)
  BY HomeType
<1>2. Between(h, NextSlot(o, n), n) \ {NextSlot(o, n)}
        \subseteq (Between(h, o, n) \ {o}) \cup {o}
  <2> HIDE DEF h
  <2> QED  BY <1>1 DEF Between, NextSlot
<1> QED  BY <1>2 DEF Probed

\* A search that ends at a free slot has not missed its key.
LEMMA ProbedAbsent ==
  ASSUME NEW n \in Nat \ {0}, NEW kd, NEW p, SlotsOK(p, n, kd), Reach(p, n),
         NEW k \in Ref, NEW o \in 0..(n - 1),
         Probed(p, n, k, o), p[o].key = NULL
  PROVE  \A i \in Used(p) : ~SameKey(p[i].key, k)
<1> SUFFICES ASSUME NEW i \in Used(p), SameKey(p[i].key, k)
             PROVE  FALSE
  OBVIOUS
<1>1. i \in 0..(n - 1) /\ o \notin Used(p)
  BY SlotUsed
<1>2. Home(p[i].key, n) = Home(k, n)
  BY DEF SameKey, Home
<1> DEFINE h == Home(k, n)
<1>3. h \in 0..(n - 1)
  BY HomeType
<1>4. Between(h, i, n) \subseteq Used(p)
  BY <1>2 DEF Reach
<1>5. o \notin Between(h, i, n)
  BY <1>1, <1>4
<1>6. i \in Between(h, o, n) \ {o}
  <2> HIDE DEF h
  <2> QED  BY <1>1, <1>3, <1>5 DEF Between
<1> QED  BY <1>6 DEF Probed

\* The free slot where the search for its key ended is the place for an entry.
Stored(p, n, o, e, q) ==
  /\ p[o].key = NULL /\ Probed(p, n, e.key, o)
  /\ q = [p EXCEPT ![o] = e]

LEMMA StoreAt ==
  ASSUME NEW n \in Nat \ {0}, NEW kd, NEW p, SlotsOK(p, n, kd),
         Reach(p, n), Distinct(p), NEW e, EntryOK(e, kd), NEW o \in 0..(n - 1),
         NEW q, Stored(p, n, o, e, q)
  PROVE  /\ SlotsOK(q, n, kd) /\ Reach(q, n) /\ Distinct(q)
         /\ Used(q) = Used(p) \cup {o} /\ o \notin Used(p)
         /\ IsFiniteSet(Used(p))
         /\ Cardinality(Used(q)) = Cardinality(Used(p)) + 1
<1>1. /\ p \in [0..(n - 1) -> Slot] /\ DOMAIN q = 0..(n - 1) /\ q[o] = e
      /\ \A i \in 0..(n - 1) : i # o => q[i] = p[i]
      /\ Probed(p, n, e.key, o) /\ p[o].key = NULL
  BY DEF SlotsOK, Stored
<1>2. e \in Slot /\ e.key # NULL /\ e.key \in Ref
  BY HashtabAssumption DEF EntryOK, Slot
<1>3. SlotsOK(q, n, kd)
  <2>1. q \in [0..(n - 1) -> Slot]
    BY <1>1, <1>2 DEF Stored
  <2> QED  BY <2>1, <1>1 DEF SlotsOK
<1>4. Used(q) = Used(p) \cup {o} /\ o \notin Used(p)
  BY <1>1, <1>2 DEF Used
<1>5. Used(p) \in SUBSET (0..(n - 1))
  BY SlotUsed
<1>6. IsFiniteSet(Used(p))
  <2>1. IsFiniteSet(0..(n - 1))
    BY 0 \in Int, n - 1 \in Int, FS_Interval
  <2> QED  BY <1>5, <2>1, FS_Subset
<1>7. Cardinality(Used(q)) = Cardinality(Used(p)) + 1
  BY <1>4, <1>6, FS_AddElement
<1>8. Reach(q, n)
  <2> SUFFICES ASSUME NEW i \in Used(q)
               PROVE  Between(Home(q[i].key, n), i, n) \subseteq Used(q)
    BY DEF Reach
  <2>1. CASE i # o
    BY <2>1, <1>1, <1>4, <1>5 DEF Reach
  <2>2. CASE i = o
    <3> DEFINE h == Home(e.key, n)
    <3>1. h \in 0..(n - 1)
      BY <1>2, HomeType
    <3>2. Between(h, o, n) \subseteq 0..(n - 1)
      <4> HIDE DEF h
      <4> QED  BY <3>1 DEF Between
    <3>3. Between(h, o, n) \ {o} \subseteq Used(p)
      BY <3>2, <1>1 DEF Probed, Used
    <3> QED  BY <2>2, <3>3, <1>1, <1>4
  <2> QED  BY <2>1, <2>2
<1>9. Distinct(q)
  <2>1. \A i \in Used(p) : ~SameKey(p[i].key, e.key)
    BY <1>1, <1>2, ProbedAbsent
  <2> QED  BY <2>1, <1>1, <1>4, <1>5 DEF Distinct, SameKey
<1> QED  BY <1>3, <1>4, <1>6, <1>7, <1>8, <1>9

\* A new table is empty.
LEMMA NewTable ==
  ASSUME NEW n \in Nat \ {0}, NEW kd
  PROVE  LET p == NewPayload(n)
         IN  /\ SlotsOK(p, n, kd) /\ Reach(p, n) /\ Distinct(p)
             /\ Used(p) = {} /\ Cardinality(Used(p)) = 0
<1>1. Used(NewPayload(n)) = {}
  BY DEF Used, NewPayload, EmptySlot
<1>2. SlotsOK(NewPayload(n), n, kd)
  BY DEF SlotsOK, NewPayload, EmptySlot, Slot
<1> QED  BY <1>1, <1>2, FS_EmptySet DEF Reach, Distinct

\* An entry replaced by one of the same key leaves the others where they are.
Replaced(p, o, e, q) == e.key = p[o].key /\ q = [p EXCEPT ![o] = e]

LEMMA ReplaceAt ==
  ASSUME NEW n \in Nat \ {0}, NEW kd, NEW p, SlotsOK(p, n, kd),
         Reach(p, n), Distinct(p), NEW o \in Used(p),
         NEW e, EntryOK(e, kd), NEW q, Replaced(p, o, e, q)
  PROVE  /\ SlotsOK(q, n, kd) /\ Reach(q, n) /\ Distinct(q)
         /\ Used(q) = Used(p) /\ DOMAIN q = DOMAIN p
         /\ \A i \in DOMAIN p : i # o => q[i] = p[i]
         /\ q[o] = e
<1>0. Used(p) \in SUBSET (0..(n - 1))
  <2>1. DOMAIN p = 0..(n - 1)
    BY DEF SlotsOK
  <2> QED  BY <2>1 DEF Used
<1>1. o \in 0..(n - 1) /\ p[o].key # NULL
  BY <1>0 DEF Used
<1>2. /\ p \in [0..(n - 1) -> Slot] /\ DOMAIN q = 0..(n - 1) /\ q[o] = e
      /\ \A i \in 0..(n - 1) : i # o => q[i] = p[i]
  BY <1>1 DEF SlotsOK, Replaced
<1>3. e \in Slot /\ \A i \in 0..(n - 1) : q[i].key = p[i].key
  BY <1>1, <1>2 DEF EntryOK, Slot, Replaced
<1>4. SlotsOK(q, n, kd)
  <2>1. q \in [0..(n - 1) -> Slot]
    BY <1>1, <1>2, <1>3 DEF Replaced
  <2> QED  BY <2>1, <1>2, <1>3 DEF SlotsOK
<1>5. Used(q) = Used(p)
  BY <1>2, <1>3 DEF Used
<1>6. \A i \in Used(p) : q[i].key = p[i].key
  BY <1>2, <1>3 DEF Used
<1>7. Reach(q, n) /\ Distinct(q)
  BY <1>5, <1>6 DEF Reach, Distinct
<1> QED  BY <1>2, <1>4, <1>5, <1>7

-----------------------------------------------------------------------------
(* The table, its call and its rehash, action by action. *)

LEMMA InitTable == Init => TableInv /\ CallOK
<1> SUFFICES ASSUME Init PROVE TableInv /\ CallOK
  OBVIOUS
<1>1. InitSize \in Nat \ {0}
  BY HashtabAssumption
<1>2. CallOK
  BY DEF Init, CallOK, NoCall
<1>3. FramesOK
  BY DEF Init, FramesOK
<1> QED  BY <1>1, <1>2, <1>3, NewTable DEF Init, TableInv

LEMMA CreateTable ==
  ASSUME TableInv, CallOK, NEW kd \in {"refs", "plain"}, Create(kd)
  PROVE  TableInv' /\ CallOK'
<1> USE DEF Create, counts
<1>1. InitSize \in Nat \ {0}
  BY HashtabAssumption
<1>2. CallOK'
  BY DEF CallOK, TableInv
<1>3. FramesOK'
  BY DEF FramesOK, TableInv
<1>4. /\ SlotsOK(payload, capacity, kind)' /\ Reach(payload, capacity)'
      /\ Distinct(payload)' /\ Used(payload)' = {} /\ Cardinality(Used(payload)') = 0
  BY <1>1, NewTable
<1> QED  BY <1>1, <1>2, <1>3, <1>4 DEF TableInv

LEMMA DropTable ==
  ASSUME TableInv, CallOK, NEW r \in Ref, Drop(r)
  PROVE  TableInv' /\ CallOK'
<1> USE DEF Drop, table
<1>1. CallOK'
  BY DEF CallOK
<1>2. FramesOK'
  BY DEF FramesOK, TableInv
<1>3. rc' \in [Ref -> Int] /\ held' \in [Ref -> Nat]
  BY DEF TableInv
<1> QED  BY <1>1, <1>2, <1>3 DEF TableInv

LEMMA BeginTable ==
  ASSUME TableInv, CallOK, NEW o \in {"add", "upsert", "find"}, NEW k \in Ref,
         NEW v \in Val \cup {NULL}, Begin(o, k, v),
         o # "find" => EntryOK([key |-> k, val |-> v], kind)
  PROVE  TableInv' /\ CallOK'
<1> USE DEF Begin, table, counts
<1>1. frames = << >>
  BY DEF TableInv, FramesOK
<1>2. CallOK'
  BY <1>1 DEF CallOK
<1>3. FramesOK'
  BY <1>1 DEF FramesOK, TableInv
<1>4. Adding'.key = k
  BY <1>1 DEF Adding
<1>5. offset' \in Nat /\ offset' < capacity /\ Probed(payload, capacity, k, offset')
  BY HomeType, NothingProbed DEF TableInv
<1> QED  BY <1>2, <1>3, <1>4, <1>5 DEF TableInv

LEMMA DeleteTable ==
  ASSUME TableInv, CallOK, Delete
  PROVE  TableInv' /\ CallOK'
<1> USE DEF Delete
<1>1. InitSize \in Nat \ {0}
  BY HashtabAssumption
<1>2. CallOK'
  BY DEF CallOK
<1>3. FramesOK'
  BY DEF FramesOK, TableInv
<1>4. /\ SlotsOK(payload, capacity, kind)' /\ Reach(payload, capacity)'
      /\ Distinct(payload)' /\ Used(payload)' = {} /\ Cardinality(Used(payload)') = 0
  BY <1>1, NewTable
<1>5. \A r \in Ref : Held(r) \in Int
  <2> SUFFICES ASSUME NEW r \in Ref
               PROVE  Held(r) \in Int
    OBVIOUS
  <2>1. IsFiniteSet(DOMAIN payload)
    <3>1. DOMAIN payload = 0..(capacity - 1) /\ capacity - 1 \in Int
      BY DEF TableInv, SlotsOK
    <3> QED  BY <3>1, 0 \in Int, FS_Interval
  <2>2. /\ Cardinality({i \in DOMAIN payload : payload[i].key = r}) \in Nat
        /\ Cardinality({i \in DOMAIN payload : payload[i].val = r}) \in Nat
    BY <2>1, FS_Subset, FS_CardinalityType
  <2> QED  BY <2>2 DEF Held
<1>6. rc' \in [Ref -> Int]
  BY <1>5 DEF TableInv
<1> QED  BY <1>1, <1>2, <1>3, <1>4, <1>6 DEF TableInv

LEMMA FindProbeTable ==
  ASSUME TableInv, CallOK, FindProbe
  PROVE  TableInv' /\ CallOK'
<1> DEFINE s == payload[offset]
<1> USE DEF table, counts
<1>1. /\ pc = "find" /\ frames = << >> /\ UNCHANGED frames
      /\ Adding.key = call.key /\ call.key \in Ref
      /\ offset \in 0..(capacity - 1)
      /\ Probed(payload, capacity, call.key, offset)
  BY DEF FindProbe, TableInv, FramesOK, Adding, CallOK
<1>2. ASSUME Return(ret'), ret' \in Val \cup {NULL, "added", "exists"},
             UNCHANGED <<kind, capacity, count, held>>,
             rc' \in [Ref -> Int],
             SlotsOK(payload', capacity, kind), Reach(payload', capacity),
             Distinct(payload'), Used(payload') = Used(payload)
      PROVE  TableInv' /\ CallOK'
  <2>1. CallOK'
    BY <1>1, <1>2, HashtabAssumption DEF Return, NoCall, CallOK
  <2>2. FramesOK'
    BY <1>1, <1>2 DEF Return, FramesOK
  <2> QED  BY <1>1, <1>2, <2>1, <2>2 DEF TableInv, Return
<1>3. s.key # NULL => EntryOK(s, kind) /\ offset \in Used(payload)
  BY <1>1, SlotUsed DEF TableInv
<1>4. CASE s.key = NULL /\ call.op = "find" /\ Return(NULL) /\ UNCHANGED <<table, counts>>
  BY <1>2, <1>4 DEF Return, TableInv
<1>5. CASE /\ s.key = NULL /\ call.op = "upsert"
           /\ pc' = "add" /\ offset' = Home(call.key, capacity)
           /\ UNCHANGED <<table, counts, call, ret>>
  <2>1. CallOK'
    BY <1>1, <1>5 DEF CallOK
  <2>2. FramesOK'
    BY <1>1, <1>5 DEF FramesOK
  <2>3. Adding'.key = call.key
    BY <1>1, <1>5 DEF Adding
  <2>4. Home(call.key, capacity) \in 0..(capacity - 1) /\ capacity \in Nat \ {0}
    BY <1>1, HomeType DEF TableInv
  <2>5. offset' \in Nat /\ offset' < capacity
    BY <1>5, <2>4
  <2>6. Probed(payload, capacity, call.key, offset')
    BY <1>1, <1>5, <2>4, NothingProbed
  <2> QED  BY <1>1, <1>5, <2>1, <2>2, <2>3, <2>5, <2>6 DEF TableInv
<1>6. CASE /\ s.key # NULL /\ ~SameKey(s.key, call.key)
           /\ offset' = NextSlot(offset, capacity)
           /\ UNCHANGED <<table, counts, pc, call, ret>>
  <2>1. CallOK'
    BY <1>1, <1>6 DEF CallOK
  <2>2. FramesOK'
    BY <1>1, <1>6 DEF FramesOK
  <2>3. Adding'.key = call.key
    BY <1>1, <1>6 DEF Adding
  <2>4. offset' \in Nat /\ offset' < capacity
    <3>1. NextSlot(offset, capacity) \in 0..(capacity - 1) /\ capacity \in Nat
      BY <1>1, NextSlotType DEF TableInv
    <3> QED  BY <1>6, <3>1
  <2>5. Probed(payload, capacity, call.key, offset')
    BY <1>1, <1>6, ProbeNext DEF TableInv
  <2> QED  BY <1>1, <1>6, <2>1, <2>2, <2>3, <2>4, <2>5 DEF TableInv
<1>7. CASE /\ s.key # NULL /\ SameKey(s.key, call.key) /\ call.op = "find"
           /\ Return(s.val)
           /\ UNCHANGED <<table, counts>>
  BY <1>2, <1>3, <1>7 DEF Return, TableInv, EntryOK
<1>8. CASE /\ s.key # NULL /\ SameKey(s.key, call.key) /\ call.op = "upsert"
           /\ payload' = [payload EXCEPT ![offset].val = call.val]
           /\ ReplaceValue(s.val, call.val)
           /\ Return("exists")
           /\ UNCHANGED <<kind, capacity, count, held>>
  <2>1. EntryOK([key |-> s.key, val |-> call.val], kind)
    BY <1>1, <1>3, <1>8 DEF CallOK, EntryOK
  <2>2. /\ SlotsOK(payload', capacity, kind) /\ Reach(payload', capacity)
        /\ Distinct(payload') /\ Used(payload') = Used(payload)
    <3>1. /\ capacity \in Nat \ {0} /\ SlotsOK(payload, capacity, kind)
          /\ Reach(payload, capacity) /\ Distinct(payload) /\ offset \in Used(payload)
      BY <1>3, <1>8 DEF TableInv
    <3>2. s \in [key : Ref, val : Val]
      BY <1>3, <1>8 DEF EntryOK
    <3>3. [s EXCEPT !.val = call.val] = [key |-> s.key, val |-> call.val]
      BY <3>2
    <3>4. payload' = [payload EXCEPT ![offset] = [s EXCEPT !.val = call.val]]
      BY <1>8
    <3> DEFINE e == [key |-> s.key, val |-> call.val]
    <3>5. payload' = [payload EXCEPT ![offset] = e]
      BY <3>3, <3>4
    <3>6. EntryOK(e, kind) /\ Replaced(payload, offset, e, payload')
      BY <2>1, <3>5 DEF Replaced
    <3> HIDE DEF e
    <3> QED  BY <3>1, <3>6, ReplaceAt
  <2>3. rc' \in [Ref -> Int]
    <3>1. kind = "refs" => s.val \in Ref /\ call.val \in Ref
      BY <1>3, <1>8, <2>1 DEF EntryOK
    <3> QED  BY <1>8, <3>1 DEF ReplaceValue, TableInv
  <2> QED  BY <1>2, <1>8, <2>2, <2>3 DEF Return
<1> QED  BY <1>4, <1>5, <1>6, <1>7, <1>8 DEF FindProbe

LEMMA OneFrame ==
  ASSUME NEW f
  PROVE  /\ Head(<<f>>) = f /\ Tail(<<f>>) = << >> /\ <<f>>[1] = f
         /\ <<f>> # << >> /\ Len(<<f>>) = 1 /\ <<f>> \o << >> = <<f>>
         /\ DOMAIN <<f>> = {1} /\ DOMAIN << >> = {}
OBVIOUS

\* A rehash that is under way has one frame, for a table of half the size.
LEMMA InRehash ==
  ASSUME TableInv, frames # << >>
  PROVE  /\ frames = <<frames[1]>> /\ Head(frames) = frames[1]
         /\ Tail(frames) = << >>
         /\ capacity \div 2 \in Nat \ {0} /\ capacity = 2 * (capacity \div 2)
         /\ RehashOK(frames[1], capacity \div 2)
         /\ SlotsOK(frames[1].old, capacity \div 2, kind) /\ Distinct(frames[1].old)
         /\ frames[1] = [old |-> frames[1].old, i |-> frames[1].i]
         /\ frames[1].i \in 0..(capacity \div 2)
         /\ Adding = frames[1].old[frames[1].i]
<1>1. frames = <<frames[1]>> /\ RehashOK(frames[1], capacity \div 2)
  BY DEF TableInv, FramesOK
<1>2. /\ capacity = 2 * (capacity \div 2)
      /\ frames[1] \in [old : [0..((capacity \div 2) - 1) -> Slot], i : 0..(capacity \div 2)]
      /\ SlotsOK(frames[1].old, capacity \div 2, kind) /\ Distinct(frames[1].old)
  BY <1>1 DEF RehashOK
<1>3. capacity \div 2 \in Nat \ {0}
  BY <1>2 DEF TableInv
<1>4. Head(frames) = frames[1] /\ Tail(frames) = << >>
  BY <1>1, OneFrame, Zenon
<1>5. Adding = frames[1].old[frames[1].i]
  BY <1>4 DEF Adding
<1>6. /\ frames[1] = [old |-> frames[1].old, i |-> frames[1].i]
      /\ frames[1].i \in 0..(capacity \div 2)
  BY <1>2
<1> QED  BY <1>1, <1>2, <1>3, <1>4, <1>5, <1>6

\* What is added is an entry; a rehash adds texts that are not yet there.
LEMMA AddingOK ==
  ASSUME TableInv, CallOK, pc = "add"
  PROVE  /\ EntryOK(Adding, kind)
         /\ frames # << >> =>
              \A j \in Used(payload) : ~SameKey(payload[j].key, Adding.key)
<1>1. CASE frames = << >>
  BY <1>1 DEF CallOK, Adding
<1>2. CASE frames # << >>
  <2> DEFINE f == frames[1]
             n == capacity \div 2
  <2>1. /\ RehashOK(f, n) /\ n \in Nat \ {0} /\ Adding = f.old[f.i]
        /\ SlotsOK(f.old, n, kind) /\ f.i \in 0..n
    BY <1>2, InRehash
  <2>2. f.i \in 0..(n - 1) /\ f.i \in Used(f.old)
    <3>1. f.i < n /\ f.old[f.i].key # NULL
      BY <2>1 DEF RehashOK
    <3> QED  BY <2>1, <3>1, SlotUsed
  <2>3. EntryOK(Adding, kind)
    BY <2>1, <2>2, SlotUsed
  <2>4. ASSUME NEW j \in Used(payload), SameKey(payload[j].key, Adding.key)
        PROVE  FALSE
    <3>1. PICK m \in 0..(n - 1) : payload[j] = f.old[m] /\ m < f.i
      BY <2>1, <2>4 DEF RehashOK
    <3>2. j \in 0..(capacity - 1) /\ payload[j].key # NULL
      BY SlotUsed DEF TableInv, Used
    <3>3. m \in Used(f.old)
      BY <2>1, <2>2, <3>1, <3>2, SlotUsed
    <3> QED  BY <2>1, <2>2, <2>4, <3>1, <3>3 DEF RehashOK, Distinct
  <2> QED  BY <2>3, <2>4
<1> QED  BY <1>1, <1>2

LEMMA AddProbeTable ==
  ASSUME TableInv, CallOK, AddProbe
  PROVE  TableInv' /\ CallOK'
<1> USE DEF table, counts
<1> DEFINE k == Adding.key
<1>1. /\ pc = "add" /\ UNCHANGED <<table, counts, frames>>
      /\ offset \in 0..(capacity - 1) /\ payload[offset].key # NULL
      /\ Probed(payload, capacity, k, offset)
  BY DEF AddProbe, TableInv
<1>2. k \in Ref
  BY <1>1, AddingOK DEF EntryOK
<1>3. CASE SameKey(payload[offset].key, k) /\ frames = << >>
  <2>1. Return("exists")
    BY <1>3 DEF AddProbe, AddReturns
  <2>2. CallOK'
    BY <1>1, <2>1 DEF Return, NoCall, CallOK
  <2>3. FramesOK'
    BY <1>1, <1>3, <2>1 DEF Return, FramesOK
  <2> QED  BY <1>1, <2>1, <2>2, <2>3 DEF TableInv, Return
<1>4. CASE SameKey(payload[offset].key, k) /\ frames # << >>
  <2>1. offset \in Used(payload)
    BY <1>1, SlotUsed DEF TableInv
  <2> QED  BY <1>1, <1>4, <2>1, AddingOK
<1>5. CASE ~SameKey(payload[offset].key, k)
  <2>1. offset' = NextSlot(offset, capacity) /\ UNCHANGED <<pc, call, ret>>
    BY <1>5 DEF AddProbe
  <2>2. CallOK'
    BY <1>1, <2>1 DEF CallOK
  <2>3. FramesOK'
    BY <1>1, <2>1 DEF FramesOK, RehashOK, TableInv
  <2>4. Adding' = Adding
    BY <1>1, <2>1 DEF Adding
  <2>5. offset' \in Nat /\ offset' < capacity
    <3>1. NextSlot(offset, capacity) \in 0..(capacity - 1) /\ capacity \in Nat
      BY <1>1, NextSlotType DEF TableInv
    <3> QED  BY <2>1, <3>1
  <2>6. Probed(payload, capacity, k, offset')
    BY <1>1, <1>2, <1>5, <2>1, ProbeNext DEF TableInv
  <2> QED  BY <1>1, <2>1, <2>2, <2>3, <2>4, <2>5, <2>6 DEF TableInv
<1> QED  BY <1>3, <1>4, <1>5

\* The parts of the invariant that concern the table alone.
Sound(p, n, c, kd) ==
  /\ kd \in {"refs", "plain"} /\ n \in Nat \ {0} /\ c \in Nat
  /\ SlotsOK(p, n, kd) /\ Reach(p, n) /\ Distinct(p)
  /\ c = Cardinality(Used(p)) /\ 4 * c <= 3 * n

\* The table once the entry is stored.
LEMMA InsertFills ==
  ASSUME TableInv, CallOK, pc = "add",
         NEW q, Stored(payload, capacity, offset, Adding, q)
  PROVE  /\ SlotsOK(q, capacity, kind) /\ Reach(q, capacity) /\ Distinct(q)
         /\ Used(q) = Used(payload) \cup {offset} /\ offset \notin Used(payload)
         /\ IsFiniteSet(Used(payload)) /\ IsFiniteSet(Used(q))
         /\ Cardinality(Used(q)) = count + 1
         /\ q[offset] = Adding
         /\ \A j \in Used(payload) : j # offset /\ q[j] = payload[j]
<1>1. /\ offset \in 0..(capacity - 1) /\ capacity \in Nat \ {0}
      /\ SlotsOK(payload, capacity, kind) /\ Reach(payload, capacity) /\ Distinct(payload)
      /\ count = Cardinality(Used(payload))
  BY DEF TableInv
<1>2. EntryOK(Adding, kind)
  BY AddingOK
<1>4. q[offset] = Adding
  BY <1>1 DEF SlotsOK, Stored
<1>5. \A j \in Used(payload) : j # offset /\ q[j] = payload[j]
  BY <1>1 DEF Used, SlotsOK, Stored
<1>6. /\ SlotsOK(q, capacity, kind) /\ Reach(q, capacity) /\ Distinct(q)
      /\ Used(q) = Used(payload) \cup {offset} /\ offset \notin Used(payload)
      /\ IsFiniteSet(Used(payload))
      /\ Cardinality(Used(q)) = Cardinality(Used(payload)) + 1
  BY <1>1, <1>2, StoreAt
<1>7. IsFiniteSet(Used(q))
  BY <1>6, FS_AddElement
<1> QED  BY <1>1, <1>4, <1>5, <1>6, <1>7

LEMMA InsertTable ==
  ASSUME TableInv, CallOK, Insert
  PROVE  TableInv' /\ CallOK'
<1> DEFINE filled == [payload EXCEPT ![offset] = Adding]
<1>1. /\ pc = "add" /\ payload[offset].key = NULL /\ UNCHANGED <<kind, held>>
      /\ Retain(Adding)
      /\ offset \in 0..(capacity - 1) /\ capacity \in Nat \ {0}
      /\ count \in Nat
  BY DEF Insert, TableInv
<1>3. /\ SlotsOK(filled, capacity, kind) /\ Reach(filled, capacity) /\ Distinct(filled)
      /\ Used(filled) = Used(payload) \cup {offset}
      /\ Cardinality(Used(filled)) = count + 1
      /\ filled[offset] = Adding
      /\ \A j \in Used(payload) : j # offset /\ filled[j] = payload[j]
  <2>1. Stored(payload, capacity, offset, Adding, filled)
    BY <1>1 DEF Stored, TableInv
  <2> HIDE DEF filled
  <2> QED  BY <1>1, <2>1, InsertFills
<1>4. rc' \in [Ref -> Int]
  <2>1. \A r \in Ref : Uses(r, Adding) \in Int
    BY DEF Uses
  <2> QED  BY <1>1, <2>1 DEF Retain, TableInv
<1> HIDE DEF filled
<1>a. ASSUME ~Overloaded(count + 1, capacity)
      PROVE  Sound(filled, capacity, count + 1, kind)
  <2>1. 4 * (count + 1) <= 3 * capacity
    BY <1>1, <1>a DEF Overloaded
  <2>2. count + 1 \in Nat /\ kind \in {"refs", "plain"}
    BY <1>1 DEF TableInv
  <2> QED  BY <1>1, <1>3, <2>1, <2>2 DEF Sound
<1>5. CASE frames = << >> /\ ~Overloaded(count + 1, capacity)
  <2>1. /\ payload' = filled /\ count' = count + 1 /\ UNCHANGED <<capacity, frames>>
        /\ Return("added")
    BY <1>5 DEF Insert, AddReturns, filled
  <2>2. CallOK'
    BY <2>1, HashtabAssumption DEF Return, NoCall, CallOK
  <2>3. FramesOK'
    BY <1>5, <2>1 DEF Return, FramesOK
  <2>5. Sound(payload', capacity', count', kind')
    BY <1>1, <1>a, <1>5, <2>1
  <2>6. /\ pc' \in {"idle", "rehash", "release"} /\ held' \in [Ref -> Nat] /\ offset' \in Nat
        /\ ret' \in Val \cup {NULL, "added", "exists"}
    BY <1>1, <2>1 DEF Return, TableInv
  <2> QED  BY <1>4, <2>2, <2>3, <2>5, <2>6 DEF TableInv, Sound
<1>6. CASE frames = << >> /\ Overloaded(count + 1, capacity)
  <2> DEFINE f == [old |-> filled, i |-> 0]
  <2>1. /\ payload' = NewPayload(2 * capacity) /\ count' = 0 /\ capacity' = 2 * capacity
        /\ pc' = "rehash" /\ ret' = "added" /\ UNCHANGED <<call, offset>>
        /\ frames' = <<f>> \o << >>
    BY <1>6 DEF Insert, Grow, filled
  <2>2. frames' = <<f>> /\ frames'[1] = f /\ frames' # << >>
    <3> HIDE DEF f
    <3> QED  BY <2>1, OneFrame, Zenon
  <2>3. capacity' \div 2 = capacity /\ capacity' \in Nat \ {0}
    BY <1>1, <2>1
  <2>4. /\ SlotsOK(payload', capacity', kind') /\ Reach(payload', capacity')
        /\ Distinct(payload') /\ Used(payload') = {} /\ Cardinality(Used(payload')) = 0
    BY <2>1, <2>3, NewTable
  <2>5. f \in [old : [0..(capacity - 1) -> Slot], i : 0..capacity]
    BY <1>1, <1>3 DEF SlotsOK
  <2>6. f.old = filled /\ f.i = 0
    OBVIOUS
  <2> HIDE DEF f
  <2>7. RehashOK(frames[1], capacity \div 2)'
    BY <1>1, <1>3, <2>1, <2>2, <2>3, <2>4, <2>5, <2>6 DEF RehashOK
  <2>8. FramesOK'
    BY <2>1, <2>2, <2>7 DEF FramesOK
  <2>9. CallOK'
    BY <2>1 DEF CallOK
  <2>10. Sound(payload', capacity', count', kind')
    BY <1>1, <2>1, <2>3, <2>4 DEF Sound, TableInv
  <2>11. /\ pc' \in {"idle", "rehash", "release"} /\ held' \in [Ref -> Nat] /\ offset' \in Nat
         /\ ret' \in Val \cup {NULL, "added", "exists"}
    BY <1>1, <2>1 DEF TableInv
  <2> QED  BY <1>4, <2>8, <2>9, <2>10, <2>11 DEF TableInv, Sound
<1>7. CASE frames # << >>
  <2> DEFINE f == frames[1]
             n == capacity \div 2
  <2>1. /\ RehashOK(f, n) /\ n \in Nat \ {0} /\ Adding = f.old[f.i] /\ capacity = 2 * n
        /\ f.i \in 0..n /\ frames = <<f>>
    BY <1>7, InRehash
  <2>2. count <= f.i /\ f.i < n /\ f.old[f.i].key # NULL
    BY <1>1, <2>1 DEF RehashOK
  <2>3. ~Overloaded(count + 1, capacity)
    BY <1>1, <2>1, <2>2 DEF Overloaded
  <2>4. /\ payload' = filled /\ count' = count + 1 /\ UNCHANGED <<capacity, frames>>
        /\ pc' = "release" /\ UNCHANGED <<ret, call, offset>>
    BY <1>7, <2>3 DEF Insert, AddReturns, filled
  <2>5. RehashOK(f, n)'
    <3>1. /\ f \in [old : [0..(n - 1) -> Slot], i : 0..n]
          /\ SlotsOK(f.old, n, kind) /\ Distinct(f.old)
          /\ \A j \in Used(payload) : \E m \in 0..(n - 1) : payload[j] = f.old[m] /\ m < f.i
      BY <1>1, <2>1 DEF RehashOK
    <3>2. \A j \in Used(filled) : \E m \in 0..(n - 1) :
            filled[j] = f.old[m] /\ (m < f.i \/ m = f.i)
      BY <1>3, <2>1, <2>2, <3>1
    <3>3. \E j \in Used(filled) : filled[j] = f.old[f.i]
      BY <1>3, <2>1
    <3>4. UNCHANGED <<f, n, kind, capacity>>
      BY <1>1, <2>4
    <3>5. count' <= f.i + 1
      BY <1>1, <2>1, <2>2, <2>4
    <3> HIDE DEF f, n
    <3> QED  BY <2>1, <2>2, <2>4, <3>1, <3>2, <3>3, <3>4, <3>5 DEF RehashOK
  <2>6. FramesOK'
    BY <1>7, <2>1, <2>4, <2>5 DEF FramesOK
  <2>7. CallOK'
    BY <1>7, <2>4 DEF CallOK
  <2>9. Sound(payload', capacity', count', kind')
    BY <1>1, <1>a, <2>3, <2>4
  <2>10. /\ pc' \in {"idle", "rehash", "release"} /\ held' \in [Ref -> Nat] /\ offset' \in Nat
         /\ ret' \in Val \cup {NULL, "added", "exists"}
    BY <1>1, <2>4 DEF TableInv
  <2> QED  BY <1>4, <2>6, <2>7, <2>9, <2>10 DEF TableInv, Sound
<1> QED  BY <1>5, <1>6, <1>7

LEMMA FrameStep ==
  ASSUME NEW f, f = [old |-> f.old, i |-> f.i]
  PROVE  /\ [<<f>> EXCEPT ![1].i = @ + 1] = <<[old |-> f.old, i |-> f.i + 1]>>
<1>1. [f EXCEPT !.i = @ + 1] = [old |-> f.old, i |-> f.i + 1]
  OBVIOUS
<1> QED  BY <1>1

LEMMA RehashTable ==
  ASSUME TableInv, CallOK, Rehash
  PROVE  TableInv' /\ CallOK'
<1> USE DEF table, counts
<1> DEFINE f == frames[1]
           n == capacity \div 2
<1>1. pc = "rehash" /\ frames # << >> /\ UNCHANGED <<table, counts>>
  BY DEF Rehash, TableInv, FramesOK
<1>2. /\ RehashOK(f, n) /\ n \in Nat \ {0} /\ capacity = 2 * n /\ f.i \in 0..n
      /\ frames = <<f>> /\ Head(frames) = f /\ Tail(frames) = << >>
      /\ SlotsOK(f.old, n, kind) /\ f = [old |-> f.old, i |-> f.i]
  BY <1>1, InRehash
<1>3. DOMAIN f.old = 0..(n - 1)
  BY <1>2 DEF SlotsOK
<1>4. CASE f.i \notin DOMAIN f.old /\ frames' = << >> /\ Return(ret)
  <2>1. CallOK'
    BY <1>4, HashtabAssumption DEF Return, NoCall, CallOK
  <2>2. FramesOK'
    BY <1>4 DEF Return, FramesOK
  <2> QED  BY <1>1, <1>4, <2>1, <2>2 DEF TableInv, Return
<1>5. CASE /\ f.i \in DOMAIN f.old /\ f.old[f.i].key = NULL
           /\ frames' = [frames EXCEPT ![1].i = @ + 1]
           /\ UNCHANGED <<pc, offset, call, ret>>
  <2> DEFINE g == [old |-> f.old, i |-> f.i + 1]
  <2>1. frames' = <<g>>
    BY <1>2, <1>5, FrameStep
  <2>2. g.old = f.old /\ g.i = f.i + 1
    OBVIOUS
  <2>3. g \in [old : [0..(n - 1) -> Slot], i : 0..n]
    BY <1>2, <1>3, <1>5 DEF SlotsOK
  <2> HIDE DEF g
  <2>4. RehashOK(frames[1], capacity \div 2)'
    <3>1. (capacity \div 2)' = n /\ frames'[1] = g
      BY <1>1, <2>1
    <3>2. count <= g.i
      BY <1>1, <1>2, <2>2 DEF RehashOK, TableInv
    <3>3. \A j \in Used(payload) : \E m \in 0..(n - 1) : payload[j] = g.old[m] /\ m < g.i
      <4>1. \A j \in Used(payload) : \E m \in 0..(n - 1) : payload[j] = f.old[m] /\ m < f.i
        BY <1>1, <1>2 DEF RehashOK
      <4>2. \A m \in 0..(n - 1) : m < f.i => m < g.i
        BY <1>2, <2>2
      <4> QED  BY <2>2, <4>1, <4>2
    <3>4. SlotsOK(g.old, n, kind) /\ Distinct(g.old) /\ capacity = 2 * n
      BY <1>2, <2>2 DEF RehashOK
    <3> HIDE DEF n
    <3> QED  BY <1>1, <1>5, <2>1, <2>3, <3>1, <3>2, <3>3, <3>4 DEF RehashOK
  <2>5. frames' = <<frames'[1]>> /\ frames' # << >>
    BY <2>1, OneFrame, Zenon
  <2>6. FramesOK'
    BY <1>1, <1>5, <2>4, <2>5 DEF FramesOK
  <2>7. CallOK'
    BY <1>1, <1>5 DEF CallOK
  <2> QED  BY <1>1, <1>5, <2>6, <2>7 DEF TableInv
<1>6. CASE /\ f.i \in DOMAIN f.old /\ f.old[f.i].key # NULL
           /\ offset' = RehashHome(f.old[f.i].key)
           /\ pc' = "add"
           /\ UNCHANGED <<frames, call, ret>>
  <2>1. Adding' = f.old[f.i]
    BY <1>1, <1>2, <1>6 DEF Adding
  <2>2. f.old[f.i].key \in Ref
    BY <1>2, <1>3, <1>6, SlotUsed DEF EntryOK
  <2>3. /\ offset' = Home(f.old[f.i].key, capacity) /\ offset' \in 0..(capacity - 1)
        /\ capacity \in Nat \ {0}
    BY <1>6, <2>2, HomeType DEF RehashHome, TableInv
  <2>4. offset' \in Nat /\ offset' < capacity
    BY <2>3
  <2>5. Probed(payload, capacity, f.old[f.i].key, offset')
    BY <2>2, <2>3, NothingProbed
  <2>6. RehashOK(f, n)'
    <3>1. UNCHANGED <<f, n>>
      BY <1>1, <1>6
    <3>2. f.i < n
      BY <1>2, <1>3, <1>6
    <3> HIDE DEF f, n
    <3> QED  BY <1>1, <1>2, <1>6, <3>1, <3>2 DEF RehashOK
  <2>7. FramesOK'
    BY <1>1, <1>2, <1>6, <2>6 DEF FramesOK
  <2>8. CallOK'
    BY <1>1, <1>6 DEF CallOK
  <2> QED  BY <1>1, <1>6, <2>1, <2>4, <2>5, <2>7, <2>8 DEF TableInv
<1> QED  BY <1>2, <1>4, <1>5, <1>6 DEF Rehash

LEMMA RehashReleaseTable ==
  ASSUME TableInv, CallOK, RehashRelease
  PROVE  TableInv' /\ CallOK'
<1> USE DEF table
<1> DEFINE f == frames[1]
           n == capacity \div 2
           g == [old |-> f.old, i |-> f.i + 1]
<1>1. /\ pc = "release" /\ frames # << >> /\ pc' = "rehash" /\ Release(Adding)
      /\ UNCHANGED <<table, held, call, offset, ret>>
  BY DEF RehashRelease, TableInv, FramesOK
<1>2. /\ RehashOK(f, n) /\ n \in Nat \ {0} /\ capacity = 2 * n /\ f.i \in 0..n
      /\ frames = <<f>> /\ SlotsOK(f.old, n, kind) /\ f = [old |-> f.old, i |-> f.i]
  BY <1>1, InRehash
<1>3. f.i < n
  BY <1>1, <1>2 DEF RehashOK
<1>4. frames' = <<g>>
  BY <1>2, FrameStep DEF RehashRelease
<1>5. g.old = f.old /\ g.i = f.i + 1
  OBVIOUS
<1>6. g \in [old : [0..(n - 1) -> Slot], i : 0..n]
  BY <1>2, <1>3 DEF SlotsOK
<1> HIDE DEF g
<1>7. RehashOK(frames[1], capacity \div 2)'
  <2>1. (capacity \div 2)' = n /\ frames'[1] = g
    BY <1>1, <1>4
  <2>2. count <= g.i
    BY <1>1, <1>2, <1>5 DEF RehashOK, TableInv
  <2>3. \A j \in Used(payload) : \E m \in 0..(n - 1) : payload[j] = g.old[m] /\ m < g.i
    <3>1. \A j \in Used(payload) : \E m \in 0..(n - 1) :
            payload[j] = f.old[m] /\ (m < f.i \/ m = f.i)
      BY <1>1, <1>2 DEF RehashOK
    <3>2. \A m \in 0..(n - 1) : (m < f.i \/ m = f.i) => m < g.i
      BY <1>2, <1>5
    <3> QED  BY <1>5, <3>1, <3>2
  <2>4. SlotsOK(g.old, n, kind) /\ Distinct(g.old) /\ capacity = 2 * n
    BY <1>2, <1>5 DEF RehashOK
  <2> HIDE DEF n
  <2> QED  BY <1>1, <1>4, <1>6, <2>1, <2>2, <2>3, <2>4 DEF RehashOK
<1>8. frames' = <<frames'[1]>> /\ frames' # << >>
  BY <1>4, OneFrame, Zenon
<1>9. FramesOK'
  BY <1>1, <1>7, <1>8 DEF FramesOK
<1>10. CallOK'
  BY <1>1 DEF CallOK
<1>11. rc' \in [Ref -> Int]
  <2>1. \A r \in Ref : Uses(r, Adding) \in Int
    BY DEF Uses
  <2> QED  BY <1>1, <2>1 DEF Release, TableInv
<1> QED  BY <1>1, <1>9, <1>10, <1>11 DEF TableInv

LEMMA TableStep == TableInv /\ CallOK /\ [Next]_vars => TableInv' /\ CallOK'
<1> SUFFICES ASSUME TableInv, CallOK, [Next]_vars
             PROVE  TableInv' /\ CallOK'
  OBVIOUS
<1>1. ASSUME NEW kd \in {"refs", "plain"}, Create(kd)
      PROVE  TableInv' /\ CallOK'
  BY <1>1, CreateTable
<1>2. ASSUME NEW r \in Released, Drop(r)
      PROVE  TableInv' /\ CallOK'
  BY <1>2, DropTable, HashtabAssumption
<1>3. ASSUME NEW k \in Keys, NEW v \in Vals, FacetAdd(k, v)
      PROVE  TableInv' /\ CallOK'
  <2>1. k \in Ref /\ v \in Val /\ EntryOK([key |-> k, val |-> v], kind)
    BY <1>3, HashtabAssumption DEF FacetAdd, EntryOK
  <2> QED  BY <1>3, <2>1, BeginTable DEF FacetAdd
<1>4. ASSUME NEW k \in Keys, NEW v \in Vals, DictionaryAdd(k, v)
      PROVE  TableInv' /\ CallOK'
  <2>1. k \in Ref /\ v \in Val /\ EntryOK([key |-> k, val |-> v], kind)
    BY <1>4, HashtabAssumption DEF DictionaryAdd, EntryOK
  <2> QED  BY <1>4, <2>1, BeginTable DEF DictionaryAdd
<1>5. ASSUME NEW k \in Keys, DictionaryFind(k)
      PROVE  TableInv' /\ CallOK'
  <2>1. k \in Ref
    BY HashtabAssumption
  <2> QED  BY <1>5, <2>1, BeginTable DEF DictionaryFind
<1>6. CASE Step
  BY <1>6, FindProbeTable, InsertTable, AddProbeTable, RehashTable, RehashReleaseTable
     DEF Step
<1>7. CASE Delete
  BY <1>7, DeleteTable
<1>8. CASE UNCHANGED vars
  <2>1. UNCHANGED <<kind, capacity, count, payload, rc, held, pc, call, offset, frames, ret>>
    BY <1>8 DEF vars
  <2>2. CallOK'
    BY <2>1 DEF CallOK
  <2>3. FramesOK'
    BY <2>1 DEF FramesOK, TableInv, RehashOK
  <2>4. Adding' = Adding
    BY <2>1 DEF Adding
  <2> QED  BY <2>1, <2>2, <2>3, <2>4 DEF TableInv
<1> QED  BY <1>1, <1>2, <1>3, <1>4, <1>5, <1>6, <1>7, <1>8 DEF Next

-----------------------------------------------------------------------------
(* Counting the references of a set of entries. *)

LEMMA HoldsType ==
  ASSUME NEW p, NEW S, IsFiniteSet(S), NEW r, NEW kd
  PROVE  Holds(p, S, r, kd) \in Nat
<1>1. {i \in S : p[i].key = r} \subseteq S /\ {i \in S : p[i].val = r} \subseteq S
  OBVIOUS
<1>2. /\ Cardinality({i \in S : p[i].key = r}) \in Nat
      /\ Cardinality({i \in S : p[i].val = r}) \in Nat
  BY <1>1, FS_Subset, FS_CardinalityType
<1> QED  BY <1>2 DEF Holds

LEMMA HoldsNothing ==
  ASSUME NEW p, NEW r, NEW kd
  PROVE  Holds(p, {}, r, kd) = 0
<1>1. {i \in {} : p[i].key = r} = {} /\ {i \in {} : p[i].val = r} = {}
  OBVIOUS
<1> QED  BY <1>1, FS_EmptySet DEF Holds

\* Entries that stay the same hold the same.
LEMMA HoldsSame ==
  ASSUME NEW p, NEW q, NEW S, \A i \in S : q[i] = p[i], NEW r, NEW kd
  PROVE  Holds(q, S, r, kd) = Holds(p, S, r, kd)
<1>1. /\ {i \in S : q[i].key = r} = {i \in S : p[i].key = r}
      /\ {i \in S : q[i].val = r} = {i \in S : p[i].val = r}
  OBVIOUS
<1> QED  BY <1>1 DEF Holds

LEMMA CountWithout ==
  ASSUME NEW T, IsFiniteSet(T), NEW o
  PROVE  Cardinality(T) = Cardinality(T \ {o}) + IF o \in T THEN 1 ELSE 0
<1>1. IsFiniteSet(T \ {o}) /\ Cardinality(T) \in Nat
  BY FS_Subset, FS_CardinalityType
<1>2. CASE o \in T
  <2>1. T = (T \ {o}) \cup {o} /\ o \notin T \ {o}
    BY <1>2
  <2>2. Cardinality((T \ {o}) \cup {o}) = Cardinality(T \ {o}) + 1
    BY <1>1, FS_AddElement
  <2> QED  BY <1>2, <2>1, <2>2
<1>3. CASE o \notin T
  <2>1. T \ {o} = T
    BY <1>3
  <2> QED  BY <1>1, <1>3, <2>1
<1> QED  BY <1>2, <1>3

\* What the entry at o contributes.
LEMMA HoldsWithout ==
  ASSUME NEW p, NEW S, IsFiniteSet(S), NEW o \in S, NEW r, NEW kd
  PROVE  /\ Holds(p, S, r, kd) = Holds(p, S \ {o}, r, kd) + UsesOf(p[o], r, kd)
         /\ Holds(p, S \ {o}, r, kd) \in Nat /\ UsesOf(p[o], r, kd) \in Nat
<1>1. IsFiniteSet(S \ {o})
  BY FS_Subset
<1>2. /\ {i \in S \ {o} : p[i].key = r} \subseteq S
      /\ {i \in S \ {o} : p[i].val = r} \subseteq S
  OBVIOUS
<1>3. /\ Cardinality({i \in S \ {o} : p[i].key = r}) \in Nat
      /\ Cardinality({i \in S \ {o} : p[i].val = r}) \in Nat
  BY <1>2, FS_Subset, FS_CardinalityType
<1>4. /\ Cardinality({i \in S : p[i].key = r})
           = Cardinality({i \in S \ {o} : p[i].key = r}) + IF p[o].key = r THEN 1 ELSE 0
      /\ Cardinality({i \in S : p[i].val = r})
           = Cardinality({i \in S \ {o} : p[i].val = r}) + IF p[o].val = r THEN 1 ELSE 0
  <2> DEFINE K == {i \in S : p[i].key = r}
             V == {i \in S : p[i].val = r}
  <2>1. /\ {i \in S \ {o} : p[i].key = r} = K \ {o} /\ o \in K <=> p[o].key = r
        /\ {i \in S \ {o} : p[i].val = r} = V \ {o} /\ o \in V <=> p[o].val = r
    OBVIOUS
  <2>2. IsFiniteSet(K) /\ IsFiniteSet(V)
    BY FS_Subset
  <2> HIDE DEF K, V
  <2>3. /\ Cardinality(K) = Cardinality(K \ {o}) + IF o \in K THEN 1 ELSE 0
        /\ Cardinality(V) = Cardinality(V \ {o}) + IF o \in V THEN 1 ELSE 0
    BY <2>2, CountWithout
  <2> QED  BY <2>1, <2>3 DEF K, V
<1>5. UsesOf(p[o], r, kd) \in Nat
  BY DEF UsesOf
<1>6. Holds(p, S \ {o}, r, kd) \in Nat
  BY <1>1, HoldsType
<1> QED  BY <1>3, <1>4, <1>5, <1>6 DEF Holds, UsesOf

-----------------------------------------------------------------------------
(* The reference counts, action by action. *)

LEMMA FiniteParts ==
  ASSUME TableInv
  PROVE  /\ IsFiniteSet(Used(payload))
         /\ frames # << >> => IsFiniteSet(Pending(frames[1]))
<1>1. \A n \in Nat \ {0} : \A p : SlotsOK(p, n, kind) => IsFiniteSet(Used(p))
  <2> SUFFICES ASSUME NEW n \in Nat \ {0}, NEW p, SlotsOK(p, n, kind)
               PROVE  IsFiniteSet(Used(p))
    OBVIOUS
  <2>1. DOMAIN p = 0..(n - 1)
    BY DEF SlotsOK
  <2>2. Used(p) \subseteq 0..(n - 1)
    BY <2>1 DEF Used
  <2> QED  BY <2>2, 0 \in Int, n - 1 \in Int, FS_Interval, FS_Subset
<1>2. IsFiniteSet(Used(payload))
  BY <1>1 DEF TableInv
<1>3. ASSUME frames # << >>
      PROVE  IsFiniteSet(Pending(frames[1]))
  <2>1. IsFiniteSet(Used(frames[1].old))
    BY <1>1, <1>3, InRehash
  <2>2. Pending(frames[1]) \subseteq Used(frames[1].old)
    BY DEF Pending
  <2> QED  BY <2>1, <2>2, FS_Subset
<1> QED  BY <1>2, <1>3

\* The parts of a count are numbers, so none exceeds the count.
LEMMA CountParts ==
  ASSUME TableInv, CountInv, NEW r \in Ref
  PROVE  /\ held[r] \in Nat /\ rc[r] \in Nat
         /\ Holds(payload, Used(payload), r, kind) \in Nat
         /\ PendingHolds(frames, r, kind) \in Nat
         /\ rc[r] = held[r] + Holds(payload, Used(payload), r, kind)
                    + PendingHolds(frames, r, kind)
<1>1. held[r] \in Nat
  BY DEF TableInv
<1>2. Holds(payload, Used(payload), r, kind) \in Nat
  BY FiniteParts, HoldsType
<1>3. PendingHolds(frames, r, kind) \in Nat
  BY FiniteParts, HoldsType DEF PendingHolds
<1> QED  BY <1>1, <1>2, <1>3 DEF CountInv

\* A step that touches neither entries nor counts.
LEMMA CountSame ==
  ASSUME TableInv, CountInv, UNCHANGED <<kind, payload, frames, rc, held, fault>>
  PROVE  CountInv'
BY DEF CountInv

LEMMA DropCount ==
  ASSUME TableInv, CountInv, NEW r \in Ref, Drop(r)
  PROVE  CountInv'
<1>1. /\ rc' = [rc EXCEPT ![r] = @ - 1] /\ held' = [held EXCEPT ![r] = @ - 1]
      /\ UNCHANGED <<kind, payload, frames, fault>>
  BY DEF Drop, table
<1>2. ASSUME NEW x \in Ref
      PROVE  rc'[x] = held'[x] + Holds(payload, Used(payload), x, kind)
                      + PendingHolds(frames, x, kind)
  <2>1. CASE x = r
    <3>1. rc'[x] = rc[x] - 1 /\ held'[x] = held[x] - 1
      BY <1>1, <2>1 DEF TableInv
    <3> QED  BY <3>1, CountParts
  <2>2. CASE x # r
    <3>1. rc'[x] = rc[x] /\ held'[x] = held[x]
      BY <1>1, <2>2 DEF TableInv
    <3> QED  BY <3>1, CountParts
  <2> QED  BY <2>1, <2>2
<1> QED  BY <1>1, <1>2 DEF CountInv

LEMMA CreateCount ==
  ASSUME TableInv, CountInv, NEW kd \in {"refs", "plain"}, Create(kd)
  PROVE  CountInv'
<1>1. /\ Used(payload) = {} /\ frames = << >> /\ UNCHANGED <<frames, rc, held, fault>>
  BY DEF Create, counts, TableInv, FramesOK
<1>2. Used(payload') = {}
  BY HashtabAssumption, NewTable DEF Create
<1>3. ASSUME NEW r \in Ref
      PROVE  rc'[r] = held'[r] + Holds(payload', Used(payload'), r, kind')
                      + PendingHolds(frames', r, kind')
  BY <1>1, <1>2, HoldsNothing DEF CountInv, PendingHolds
<1> QED  BY <1>1, <1>3 DEF CountInv

LEMMA DeleteCount ==
  ASSUME TableInv, CountInv, Delete
  PROVE  CountInv'
<1>1. /\ frames = << >> /\ UNCHANGED <<frames, held>>
      /\ rc' = [r \in Ref |-> rc[r] - Held(r)]
      /\ fault' = (fault \/ \E r \in Ref : rc[r] < Held(r))
  BY DEF Delete, TableInv, FramesOK
<1>2. Used(payload') = {}
  BY HashtabAssumption, NewTable DEF Delete
<1>3. ASSUME NEW r \in Ref
      PROVE  Held(r) = Holds(payload, Used(payload), r, kind)
  <2>1. \A i \in DOMAIN payload :
          i \in Used(payload) \/ (payload[i].key = NULL /\ payload[i].val = NULL)
    BY HashtabAssumption DEF TableInv, SlotsOK, Used, EntryOK, EmptySlot
  <2>2. r # NULL /\ Used(payload) \subseteq DOMAIN payload
    BY HashtabAssumption DEF Used
  <2>3. /\ {i \in DOMAIN payload : payload[i].key = r} = {i \in Used(payload) : payload[i].key = r}
        /\ {i \in DOMAIN payload : payload[i].val = r} = {i \in Used(payload) : payload[i].val = r}
    BY <2>1, <2>2
  <2> QED  BY <2>3 DEF Held, Holds
<1>4. ASSUME NEW r \in Ref
      PROVE  rc[r] >= Held(r) /\ rc[r] - Held(r) = held[r]
  BY <1>1, <1>3, CountParts DEF PendingHolds
<1>5. fault' = FALSE
  <2>1. \A r \in Ref : ~(rc[r] < Held(r))
    BY <1>3, <1>4, CountParts
  <2> QED  BY <1>1, <2>1 DEF CountInv
<1>6. ASSUME NEW r \in Ref
      PROVE  rc'[r] = held'[r] + Holds(payload', Used(payload'), r, kind')
                      + PendingHolds(frames', r, kind')
  <2>1. rc'[r] = held[r] /\ held[r] \in Nat
    BY <1>1, <1>4, CountParts
  <2> QED  BY <1>1, <1>2, <2>1, HoldsNothing DEF PendingHolds
<1> QED  BY <1>5, <1>6 DEF CountInv

\* The program's own uses of an entry are among its counts.
LEMMA UsesType ==
  ASSUME NEW r, NEW e
  PROVE  UsesOf(e, r, kind) = Uses(r, e) /\ Uses(r, e) \in Nat
BY DEF UsesOf, Uses

\* Storing an entry, wherever the table keeps it afterwards.
LEMMA InsertHolds ==
  ASSUME TableInv, CallOK, pc = "add",
         NEW q, Stored(payload, capacity, offset, Adding, q), NEW r
  PROVE  /\ Holds(q, Used(q), r, kind)
              = Holds(payload, Used(payload), r, kind) + Uses(r, Adding)
         /\ Holds(payload, Used(payload), r, kind) \in Nat
<1>1. /\ Used(q) = Used(payload) \cup {offset} /\ offset \notin Used(payload)
      /\ IsFiniteSet(Used(payload)) /\ IsFiniteSet(Used(q))
      /\ q[offset] = Adding /\ \A j \in Used(payload) : q[j] = payload[j]
  BY InsertFills
<1>2. Used(q) \ {offset} = Used(payload) /\ offset \in Used(q)
  BY <1>1
<1>3. Holds(q, Used(q), r, kind)
        = Holds(q, Used(q) \ {offset}, r, kind) + UsesOf(q[offset], r, kind)
  BY <1>1, <1>2, HoldsWithout
<1>4. Holds(q, Used(payload), r, kind) = Holds(payload, Used(payload), r, kind)
  BY <1>1, HoldsSame
<1>5. Holds(payload, Used(payload), r, kind) \in Nat
  BY <1>1, HoldsType
<1> QED  BY <1>1, <1>2, <1>3, <1>4, <1>5, UsesType

\* The entry that a rehash is moving is one of those pending.
LEMMA PendingEntry ==
  ASSUME TableInv, frames # << >>, pc \in {"add", "release"}
  PROVE  /\ frames[1].i \in Pending(frames[1]) /\ frames[1].i \in Nat
         /\ Adding = frames[1].old[frames[1].i]
         /\ EntryOK(Adding, kind)
         /\ \A r : PendingHolds(frames, r, kind)
                     = Holds(frames[1].old, Pending(frames[1]) \ {frames[1].i}, r, kind)
                       + Uses(r, Adding)
         /\ \A r : Holds(frames[1].old, Pending(frames[1]) \ {frames[1].i}, r, kind) \in Nat
<1> DEFINE f == frames[1]
           n == capacity \div 2
<1>1. /\ RehashOK(f, n) /\ n \in Nat \ {0} /\ f.i \in 0..n /\ SlotsOK(f.old, n, kind)
      /\ Adding = f.old[f.i]
  BY InRehash
<1>2. f.i < n /\ f.old[f.i].key # NULL
  BY <1>1 DEF RehashOK
<1>3. f.i \in 0..(n - 1) /\ f.i \in Used(f.old) /\ EntryOK(Adding, kind)
  BY <1>1, <1>2, SlotUsed
<1>4. f.i \in Pending(f)
  BY <1>1, <1>3 DEF Pending
<1>5. IsFiniteSet(Pending(f))
  BY FiniteParts
<1>6. ASSUME NEW r
      PROVE  /\ PendingHolds(frames, r, kind)
                  = Holds(f.old, Pending(f) \ {f.i}, r, kind) + Uses(r, Adding)
             /\ Holds(f.old, Pending(f) \ {f.i}, r, kind) \in Nat
  <2>1. /\ Holds(f.old, Pending(f), r, kind)
             = Holds(f.old, Pending(f) \ {f.i}, r, kind) + UsesOf(f.old[f.i], r, kind)
        /\ Holds(f.old, Pending(f) \ {f.i}, r, kind) \in Nat
    <3> DEFINE S == Pending(f)
               p == f.old
               m == f.i
    <3>1. IsFiniteSet(S) /\ m \in S
      BY <1>4, <1>5
    <3> HIDE DEF S, p, m
    <3>2. /\ Holds(p, S, r, kind) = Holds(p, S \ {m}, r, kind) + UsesOf(p[m], r, kind)
          /\ Holds(p, S \ {m}, r, kind) \in Nat
      BY <3>1, HoldsWithout
    <3> QED  BY <3>2 DEF S, p, m
  <2>2. UsesOf(f.old[f.i], r, kind) = Uses(r, Adding)
    BY <1>1, UsesType
  <2> QED  BY <2>1, <2>2 DEF PendingHolds
<1>7. f.i \in Nat
  BY <1>1
<1> QED  BY <1>1, <1>3, <1>4, <1>6, <1>7, Zenon

\* A new table is empty, and every entry of the old one is pending.
LEMMA GrowMoves ==
  ASSUME TableInv, frames = << >>, NEW q, Used(q) \subseteq Nat, Grow(q)
  PROVE  /\ Used(payload') = {} /\ frames' # << >> /\ frames'[1].old = q
         /\ Pending(frames'[1]) = Used(q)
         /\ pc' = "rehash" /\ ret' = "added"
<1> DEFINE f == [old |-> q, i |-> 0]
<1>1. /\ payload' = NewPayload(2 * capacity) /\ 2 * capacity \in Nat \ {0}
      /\ frames' = <<f>> \o << >> /\ pc' = "rehash" /\ ret' = "added"
  BY DEF Grow, TableInv
<1>2. Used(payload') = {}
  BY <1>1, NewTable
<1>3. frames'[1] = f /\ frames' # << >>
  <2> HIDE DEF f
  <2> QED  BY <1>1, OneFrame, Zenon
<1>4. f.old = q /\ f.i = 0
  OBVIOUS
<1> HIDE DEF f
<1>5. Pending(f) = Used(q)
  BY <1>4 DEF Pending
<1> QED  BY <1>1, <1>2, <1>3, <1>4, <1>5

LEMMA InsertCount ==
  ASSUME TableInv, CallOK, CountInv, Insert
  PROVE  CountInv'
<1> DEFINE filled == [payload EXCEPT ![offset] = Adding]
<1>1. /\ pc = "add" /\ payload[offset].key = NULL /\ UNCHANGED <<kind, held>>
      /\ Retain(Adding)
  BY DEF Insert
<1>2. Stored(payload, capacity, offset, Adding, filled)
  BY <1>1 DEF Stored, TableInv
<1>3. \A r : /\ Holds(filled, Used(filled), r, kind)
                  = Holds(payload, Used(payload), r, kind) + Uses(r, Adding)
             /\ Holds(payload, Used(payload), r, kind) \in Nat
  <2> HIDE DEF filled
  <2> QED  BY <1>1, <1>2, InsertHolds
<1>4. fault' = FALSE
  <2>1. ASSUME NEW r \in Ref, Uses(r, Adding) > 0
        PROVE  rc[r] # 0
    <3>1. CASE frames = << >>
      <4>1. /\ Adding = [key |-> call.key, val |-> call.val]
            /\ EntryOK(Adding, kind) /\ rc[call.key] > 0
            /\ call.val \in Ref => rc[call.val] > 0
        BY <1>1, <3>1 DEF Adding, CallOK
      <4>2. r = call.key \/ (kind = "refs" /\ r = call.val)
        BY <2>1, <4>1 DEF Uses
      <4> QED  BY <4>1, <4>2
    <3>2. CASE frames # << >>
      <4> DEFINE H == Holds(frames[1].old, Pending(frames[1]) \ {frames[1].i}, r, kind)
      <4>0. PendingHolds(frames, r, kind) = H + Uses(r, Adding) /\ H \in Nat
        BY <1>1, <3>2, PendingEntry
      <4> HIDE DEF H
      <4>1. PendingHolds(frames, r, kind) > 0
        BY <2>1, <4>0, UsesType
      <4> QED  BY <4>1, CountParts
    <3> QED  BY <3>1, <3>2
  <2> QED  BY <1>1, <2>1 DEF Retain, CountInv
<1>5. \A r \in Ref : rc'[r] = rc[r] + Uses(r, Adding)
  BY <1>1 DEF Retain
<1> HIDE DEF filled
<1>6. CASE payload' = filled /\ UNCHANGED frames
  <2>1. ASSUME NEW r \in Ref
        PROVE  rc'[r] = held'[r] + Holds(payload', Used(payload'), r, kind')
                        + PendingHolds(frames', r, kind')
    <3>1. /\ kind' = kind /\ held'[r] = held[r] /\ payload' = filled /\ frames' = frames
          /\ rc'[r] = rc[r] + Uses(r, Adding)
      BY <1>1, <1>5, <1>6
    <3> QED  BY <1>3, <3>1, CountParts, UsesType
  <2> QED  BY <1>4, <2>1 DEF CountInv
<1>7. CASE frames = << >> /\ Grow(filled)
  <2>1. Used(filled) \subseteq Nat
    <3>1. Used(filled) = Used(payload) \cup {offset}
      BY <1>1, <1>2, InsertFills
    <3>2. Used(payload) \subseteq Nat /\ offset \in Nat
      BY DEF TableInv, SlotsOK, Used
    <3> QED  BY <3>1, <3>2
  <2>2. /\ Used(payload') = {} /\ frames' # << >> /\ frames'[1].old = filled
        /\ Pending(frames'[1]) = Used(filled)
    BY <1>7, <2>1, GrowMoves
  <2>6. ASSUME NEW r \in Ref
        PROVE  rc'[r] = held'[r] + Holds(payload', Used(payload'), r, kind')
                        + PendingHolds(frames', r, kind')
    <3>1. Holds(payload', Used(payload'), r, kind') = 0
      BY <2>2, HoldsNothing
    <3>2. PendingHolds(frames', r, kind') = Holds(filled, Used(filled), r, kind)
      BY <1>1, <2>2 DEF PendingHolds
    <3>3. PendingHolds(frames, r, kind) = 0
      BY <1>7 DEF PendingHolds
    <3>4. held'[r] = held[r] /\ rc'[r] = rc[r] + Uses(r, Adding)
      BY <1>1, <1>5
    <3> QED  BY <1>3, <3>1, <3>2, <3>3, <3>4, CountParts, UsesType
  <2> QED  BY <1>4, <2>6 DEF CountInv
<1>8. frames # << >> => ~Overloaded(count + 1, capacity)
  <2> SUFFICES ASSUME frames # << >>
               PROVE  ~Overloaded(count + 1, capacity)
    OBVIOUS
  <2>1. /\ RehashOK(frames[1], capacity \div 2) /\ frames[1].i \in Nat
        /\ capacity = 2 * (capacity \div 2) /\ capacity \div 2 \in Nat \ {0}
    BY InRehash
  <2>2. count <= frames[1].i /\ frames[1].i < capacity \div 2
    BY <1>1, <2>1 DEF RehashOK
  <2> QED  BY <2>1, <2>2 DEF Overloaded, TableInv
<1> QED  BY <1>6, <1>7, <1>8 DEF Insert, filled

LEMMA FindProbeCount ==
  ASSUME TableInv, CallOK, CountInv, FindProbe
  PROVE  CountInv'
<1> DEFINE s == payload[offset]
<1>1. /\ pc = "find" /\ frames = << >> /\ UNCHANGED frames
      /\ offset \in 0..(capacity - 1)
  BY DEF FindProbe, TableInv, FramesOK
<1>2. CASE UNCHANGED <<table, counts>>
  BY <1>1, <1>2, CountSame DEF table, counts
<1>3. CASE /\ s.key # NULL /\ call.op = "upsert"
           /\ payload' = [payload EXCEPT ![offset].val = call.val]
           /\ ReplaceValue(s.val, call.val)
           /\ UNCHANGED <<kind, capacity, count, held>>
  <2> DEFINE e == [key |-> s.key, val |-> call.val]
  <2>1. /\ offset \in Used(payload) /\ EntryOK(s, kind)
        /\ payload \in [0..(capacity - 1) -> Slot]
    BY <1>1, <1>3, SlotUsed DEF TableInv, SlotsOK
  <2>2. kind = "refs" => s.val \in Ref /\ call.val \in Ref /\ rc[call.val] > 0
    BY <1>1, <1>3, <2>1 DEF CallOK, EntryOK
  <2>3. payload' = [payload EXCEPT ![offset] = e]
    <3>1. s \in [key : Ref, val : Val]
      BY <2>1 DEF EntryOK
    <3>2. [s EXCEPT !.val = call.val] = e
      BY <3>1
    <3>3. payload' = [payload EXCEPT ![offset] = [s EXCEPT !.val = call.val]]
      BY <1>3
    <3> QED  BY <3>2, <3>3
  <2>4. e.key = s.key /\ e.val = call.val /\ s.key \in Ref
    BY <2>1 DEF EntryOK
  <2> HIDE DEF e
  <2>5. /\ payload'[offset] = e
        /\ \A i \in Used(payload) : i # offset => payload'[i] = payload[i]
    BY <1>1, <2>1, <2>3 DEF Used
  <2>6. Used(payload') = Used(payload)
    <3>1. e.key # NULL /\ DOMAIN payload' = DOMAIN payload
      BY <2>3, <2>4, HashtabAssumption
    <3>2. \A i \in DOMAIN payload : i # offset => payload'[i] = payload[i]
      BY <1>1, <2>1, <2>3
    <3> QED  BY <2>1, <2>5, <3>1, <3>2 DEF Used
  <2> DEFINE S == Used(payload)
             R(r) == Holds(payload, S \ {offset}, r, kind)
  <2>7. ASSUME NEW r \in Ref
        PROVE  /\ Holds(payload, S, r, kind) = R(r) + UsesOf(s, r, kind)
               /\ Holds(payload', S, r, kind) = R(r) + UsesOf(e, r, kind)
               /\ R(r) \in Nat
    <3>1. IsFiniteSet(S) /\ offset \in S
      BY <2>1, FiniteParts
    <3> HIDE DEF S
    <3>2. /\ Holds(payload, S, r, kind) = R(r) + UsesOf(payload[offset], r, kind)
          /\ R(r) \in Nat
      BY <3>1, HoldsWithout
    <3>3. Holds(payload', S, r, kind)
            = Holds(payload', S \ {offset}, r, kind) + UsesOf(payload'[offset], r, kind)
      BY <3>1, HoldsWithout
    <3>4. Holds(payload', S \ {offset}, r, kind) = R(r)
      <4>1. \A i \in S \ {offset} : payload'[i] = payload[i]
        BY <2>5 DEF S
      <4> QED  BY <4>1, HoldsSame
    <3> QED  BY <2>5, <3>2, <3>3, <3>4
  <2>8. fault' = FALSE
    <3>1. CASE kind = "refs"
      <4> DEFINE retained == [rc EXCEPT ![call.val] = @ + 1]
      <4>1. s.val \in Ref /\ rc[s.val] > 0 /\ rc[call.val] > 0 /\ call.val \in Ref
        <5>1. s.val \in Ref
          BY <2>2, <3>1
        <5>2. UsesOf(s, s.val, kind) > 0 /\ UsesOf(s, s.val, kind) \in Nat
          BY <3>1 DEF UsesOf
        <5> HIDE DEF R, S, s
        <5>3. Holds(payload, S, s.val, kind) = R(s.val) + UsesOf(s, s.val, kind) /\ R(s.val) \in Nat
          BY <2>7, <5>1
        <5>4. Holds(payload, Used(payload), s.val, kind) > 0
          BY <5>2, <5>3 DEF S
        <5> QED  BY <2>2, <3>1, <5>1, <5>4, CountParts
      <4>2. retained[s.val] # 0
        BY <4>1 DEF TableInv
      <4>3. fault' = (fault \/ rc[call.val] = 0 \/ retained[s.val] = 0)
        BY <1>3, <3>1 DEF ReplaceValue
      <4>4. rc[call.val] # 0
        BY <4>1 DEF TableInv
      <4> HIDE DEF retained
      <4> QED  BY <4>2, <4>3, <4>4 DEF CountInv
    <3>2. CASE kind # "refs"
      BY <1>3, <3>2 DEF ReplaceValue, CountInv
    <3> QED  BY <3>1, <3>2
  <2>9. ASSUME NEW r \in Ref
        PROVE  rc'[r] = rc[r] - UsesOf(s, r, kind) + UsesOf(e, r, kind)
    <3>1. CASE kind = "refs"
      <4>1. /\ s.val \in Ref /\ call.val \in Ref /\ rc \in [Ref -> Int]
            /\ rc' = [[rc EXCEPT ![call.val] = @ + 1] EXCEPT ![s.val] = @ - 1]
        BY <1>3, <2>2, <3>1 DEF ReplaceValue, TableInv
      <4>2. rc'[r] = rc[r] + (IF r = call.val THEN 1 ELSE 0) - (IF r = s.val THEN 1 ELSE 0)
        BY <4>1
      <4>3. rc[r] \in Int
        BY <4>1
      <4> QED  BY <2>4, <3>1, <4>2, <4>3 DEF UsesOf
    <3>2. CASE kind # "refs"
      <4>1. rc' = rc /\ rc[r] \in Int
        BY <1>3, <3>2 DEF ReplaceValue, TableInv
      <4> QED  BY <2>4, <3>2, <4>1 DEF UsesOf
    <3> QED  BY <3>1, <3>2
  <2>10. ASSUME NEW r \in Ref
         PROVE  rc'[r] = held'[r] + Holds(payload', Used(payload'), r, kind')
                         + PendingHolds(frames', r, kind')
    <3>1. /\ kind' = kind /\ held'[r] = held[r] /\ frames' = frames
          /\ Used(payload') = Used(payload)
      BY <1>1, <1>3, <2>6
    <3>2. UsesOf(s, r, kind) \in Nat /\ UsesOf(e, r, kind) \in Nat
      BY DEF UsesOf
    <3>3. /\ Holds(payload, Used(payload), r, kind) = R(r) + UsesOf(s, r, kind)
          /\ Holds(payload', Used(payload), r, kind) = R(r) + UsesOf(e, r, kind)
          /\ R(r) \in Nat
      BY <2>7
    <3> HIDE DEF R
    <3> QED  BY <2>9, <3>1, <3>2, <3>3, CountParts
  <2> QED  BY <2>8, <2>10 DEF CountInv
<1> QED  BY <1>2, <1>3 DEF FindProbe

LEMMA RehashCount ==
  ASSUME TableInv, CallOK, CountInv, Rehash
  PROVE  CountInv'
<1> DEFINE f == frames[1]
           n == capacity \div 2
<1>1. /\ frames # << >> /\ UNCHANGED <<table, counts>>
      /\ RehashOK(f, n) /\ n \in Nat \ {0} /\ f.i \in 0..n /\ frames = <<f>>
      /\ Head(frames) = f /\ Tail(frames) = << >> /\ SlotsOK(f.old, n, kind)
      /\ f = [old |-> f.old, i |-> f.i]
  <2>1. frames # << >> /\ UNCHANGED <<table, counts>>
    BY DEF Rehash, TableInv, FramesOK
  <2> QED  BY <2>1, InRehash
<1>2. DOMAIN f.old = 0..(n - 1)
  BY <1>1 DEF SlotsOK
<1>3. CASE UNCHANGED frames
  BY <1>1, <1>3, CountSame DEF table, counts
<1>4. CASE f.i \notin DOMAIN f.old /\ frames' = << >>
  <2>1. Pending(f) = {}
    BY <1>1, <1>2, <1>4 DEF Pending, Used
  <2>2. ASSUME NEW r \in Ref
        PROVE  PendingHolds(frames', r, kind) = PendingHolds(frames, r, kind)
    BY <1>1, <1>4, <2>1, HoldsNothing DEF PendingHolds
  <2> QED  BY <1>1, <2>2 DEF CountInv, table, counts
<1>5. CASE /\ f.i \in DOMAIN f.old /\ f.old[f.i].key = NULL
           /\ frames' = [frames EXCEPT ![1].i = @ + 1]
  <2> DEFINE g == [old |-> f.old, i |-> f.i + 1]
  <2>1. frames' = <<g>>
    BY <1>1, <1>5, FrameStep
  <2>2. g.old = f.old /\ g.i = f.i + 1
    OBVIOUS
  <2> HIDE DEF g
  <2>3. frames'[1] = g /\ frames' # << >>
    BY <2>1, OneFrame, Zenon
  <2>4. Pending(g) = Pending(f)
    <3>1. \A m \in 0..(n - 1) : m # f.i => (m >= f.i <=> m >= g.i)
      BY <1>1, <2>2
    <3> QED  BY <1>2, <1>5, <2>2, <3>1 DEF Pending, Used
  <2>5. ASSUME NEW r \in Ref
        PROVE  PendingHolds(frames', r, kind) = PendingHolds(frames, r, kind)
    BY <1>1, <2>2, <2>3, <2>4 DEF PendingHolds
  <2> QED  BY <1>1, <2>5 DEF CountInv, table, counts
<1> QED  BY <1>1, <1>3, <1>4, <1>5 DEF Rehash

LEMMA RehashReleaseCount ==
  ASSUME TableInv, CallOK, CountInv, RehashRelease
  PROVE  CountInv'
<1> DEFINE f == frames[1]
           n == capacity \div 2
           g == [old |-> f.old, i |-> f.i + 1]
<1>1. /\ pc = "release" /\ frames # << >> /\ Release(Adding)
      /\ UNCHANGED <<kind, payload, held>>
  BY DEF RehashRelease, TableInv, FramesOK, table
<1>2. /\ n \in Nat \ {0} /\ f.i \in 0..n /\ frames = <<f>> /\ SlotsOK(f.old, n, kind)
      /\ f = [old |-> f.old, i |-> f.i]
  BY <1>1, InRehash
<1>3. frames' = <<g>>
  BY <1>2, FrameStep DEF RehashRelease
<1>4. g.old = f.old /\ g.i = f.i + 1
  OBVIOUS
<1> HIDE DEF g
<1>5. frames'[1] = g /\ frames' # << >>
  BY <1>3, OneFrame, Zenon
<1>6. Pending(g) = Pending(f) \ {f.i}
  <2>1. \A m \in 0..(n - 1) : m >= g.i <=> (m >= f.i /\ m # f.i)
    BY <1>2, <1>4
  <2>2. DOMAIN f.old = 0..(n - 1)
    BY <1>2 DEF SlotsOK
  <2> QED  BY <1>4, <2>1, <2>2 DEF Pending, Used
<1>7. ASSUME NEW r \in Ref
      PROVE  /\ PendingHolds(frames, r, kind) = PendingHolds(frames', r, kind) + Uses(r, Adding)
             /\ PendingHolds(frames', r, kind) \in Nat
  <2>1. /\ PendingHolds(frames, r, kind)
             = Holds(f.old, Pending(f) \ {f.i}, r, kind) + Uses(r, Adding)
        /\ Holds(f.old, Pending(f) \ {f.i}, r, kind) \in Nat
    BY <1>1, PendingEntry
  <2>2. PendingHolds(frames', r, kind) = Holds(f.old, Pending(f) \ {f.i}, r, kind)
    BY <1>4, <1>5, <1>6 DEF PendingHolds
  <2> QED  BY <2>1, <2>2
<1>8. fault' = FALSE
  <2>1. \A r \in Ref : ~(Uses(r, Adding) > rc[r])
    BY <1>7, CountParts, UsesType
  <2> QED  BY <1>1, <2>1 DEF Release, CountInv
<1>9. ASSUME NEW r \in Ref
      PROVE  rc'[r] = held'[r] + Holds(payload', Used(payload'), r, kind')
                      + PendingHolds(frames', r, kind')
  <2>1. /\ kind' = kind /\ payload' = payload /\ held'[r] = held[r]
        /\ rc'[r] = rc[r] - Uses(r, Adding)
    BY <1>1 DEF Release
  <2> QED  BY <1>7, <2>1, CountParts, UsesType
<1> QED  BY <1>8, <1>9 DEF CountInv

LEMMA CountStep == TableInv /\ CallOK /\ CountInv /\ [Next]_vars => CountInv'
<1> SUFFICES ASSUME TableInv, CallOK, CountInv, [Next]_vars
             PROVE  CountInv'
  OBVIOUS
<1>1. ASSUME NEW kd \in {"refs", "plain"}, Create(kd)
      PROVE  CountInv'
  BY <1>1, CreateCount
<1>2. ASSUME NEW r \in Released, Drop(r)
      PROVE  CountInv'
  BY <1>2, DropCount, HashtabAssumption
<1>3. ASSUME NEW o, NEW k, NEW v, Begin(o, k, v)
      PROVE  CountInv'
  BY <1>3, CountSame DEF Begin, table, counts
<1>4. ASSUME AddProbe
      PROVE  CountInv'
  BY <1>4, CountSame DEF AddProbe, table, counts
<1>5. CASE UNCHANGED vars
  BY <1>5, CountSame DEF vars
<1> QED
  BY <1>1, <1>2, <1>3, <1>4, <1>5, FindProbeCount, InsertCount, RehashCount,
     RehashReleaseCount, DeleteCount
     DEF Next, Step, FacetAdd, DictionaryAdd, DictionaryFind

LEMMA UpsertStep == TableInv /\ CallOK /\ UpsertOK /\ [Next]_vars => UpsertOK'
<1> SUFFICES ASSUME TableInv, CallOK, UpsertOK, [Next]_vars
             PROVE  UpsertOK'
  OBVIOUS
<1>1. ASSUME pc' # "add"
      PROVE  UpsertOK'
  BY <1>1 DEF UpsertOK
<1>2. ASSUME UNCHANGED <<pc, frames, call, payload>>
      PROVE  UpsertOK'
  BY <1>2 DEF UpsertOK
<1>3. ASSUME NEW o, NEW k, NEW v, Begin(o, k, v)
      PROVE  UpsertOK'
  BY <1>3 DEF Begin, UpsertOK
<1>4. CASE FindProbe
  <2>1. CASE UNCHANGED pc /\ UNCHANGED <<table, counts>>
    <3>1. pc' = "find"
      BY <1>4, <2>1 DEF FindProbe
    <3> QED  BY <1>1, <3>1
  <2>2. CASE Return(ret')
    BY <1>1, <2>2 DEF Return
  <2>3. CASE /\ payload[offset].key = NULL /\ call.op = "upsert"
             /\ UNCHANGED <<table, counts, call, ret>> /\ UNCHANGED frames
    <3>1. /\ capacity \in Nat \ {0} /\ SlotsOK(payload, capacity, kind)
          /\ Reach(payload, capacity) /\ offset \in 0..(capacity - 1)
          /\ frames = << >> /\ call.key \in Ref
          /\ Probed(payload, capacity, call.key, offset)
      BY <1>4 DEF FindProbe, TableInv, FramesOK, CallOK, Adding
    <3>2. \A i \in Used(payload) : ~SameKey(payload[i].key, call.key)
      BY <2>3, <3>1, ProbedAbsent
    <3> QED  BY <2>3, <3>2 DEF UpsertOK, table
  <2> QED  BY <1>4, <2>1, <2>2, <2>3 DEF FindProbe, Return
<1>5. CASE Insert
  <2>1. pc' # "add"
    BY <1>5 DEF Insert, Grow, AddReturns, Return
  <2> QED  BY <1>1, <2>1
<1>6. CASE AddProbe
  <2>1. pc' # "add" \/ UNCHANGED <<pc, frames, call, payload>>
    BY <1>6 DEF AddProbe, AddReturns, Return, table
  <2> QED  BY <1>1, <1>2, <2>1
<1>7. CASE Rehash
  <2>1. pc' # "add" \/ (frames # << >> /\ UNCHANGED frames)
    BY <1>7 DEF Rehash, Return, TableInv, FramesOK
  <2> QED  BY <1>1, <2>1 DEF UpsertOK
<1>8. CASE RehashRelease
  BY <1>1, <1>8 DEF RehashRelease
<1>9. ASSUME NEW kd, Create(kd)
      PROVE  UpsertOK'
  BY <1>1, <1>9 DEF Create
<1>10. ASSUME NEW r, Drop(r)
       PROVE  UpsertOK'
  BY <1>2, <1>10 DEF Drop, table
<1>11. CASE Delete
  BY <1>1, <1>11 DEF Delete
<1>12. CASE UNCHANGED vars
  BY <1>2, <1>12 DEF vars
<1> QED
  BY <1>3, <1>4, <1>5, <1>6, <1>7, <1>8, <1>9, <1>10, <1>11, <1>12
     DEF Next, Step, FacetAdd, DictionaryAdd, DictionaryFind

LEMMA InitCount == Init => CountInv
<1> SUFFICES ASSUME Init PROVE CountInv
  OBVIOUS
<1>1. Used(payload) = {}
  BY HashtabAssumption, NewTable DEF Init
<1>2. fault = FALSE /\ frames = << >> /\ \A r \in Ref : rc[r] = 1 /\ held[r] = 1
  BY DEF Init
<1> QED  BY <1>1, <1>2, HoldsNothing DEF CountInv, PendingHolds

\* The inductive invariant: searches, the rehash that is under way and the
\* reference counts depend on each other, so none is preserved alone.
THEOREM HashtabInvariant == Spec => []IInv
<1>1. Init => IInv
  BY InitTable, InitCount DEF IInv, UpsertOK, Init
<1>2. IInv /\ [Next]_vars => IInv'
  BY TableStep, CountStep, UpsertStep DEF IInv
<1> QED  BY <1>1, <1>2, PTL DEF Spec

-----------------------------------------------------------------------------
(* What the table holds, in the terms of Hashtab. *)

PendingSlots == IF frames = << >> THEN {} ELSE Pending(frames[1])

LEMMA EntriesAre ==
  TableInv =>
    /\ Entries = ({0} \X Used(payload)) \cup ({1} \X PendingSlots)
    /\ \A i \in Used(payload) : EntryAt(<<0, i>>) = payload[i]
    /\ \A m \in PendingSlots : EntryAt(<<1, m>>) = frames[1].old[m]
    /\ \A i \in Used(payload) : EntryOK(payload[i], kind)
    /\ \A m \in PendingSlots : EntryOK(frames[1].old[m], kind)
    /\ IsFiniteSet(Used(payload)) /\ IsFiniteSet(PendingSlots)
<1> SUFFICES ASSUME TableInv
             PROVE  /\ Entries = ({0} \X Used(payload)) \cup ({1} \X PendingSlots)
                    /\ \A i \in Used(payload) : EntryAt(<<0, i>>) = payload[i]
                    /\ \A m \in PendingSlots : EntryAt(<<1, m>>) = frames[1].old[m]
                    /\ \A i \in Used(payload) : EntryOK(payload[i], kind)
                    /\ \A m \in PendingSlots : EntryOK(frames[1].old[m], kind)
                    /\ IsFiniteSet(Used(payload)) /\ IsFiniteSet(PendingSlots)
  OBVIOUS
<1> DEFINE New == {<<0, i>> : i \in Used(payload)}
           Old == {e \in (DOMAIN frames) \X (0..capacity) :
                     /\ e[2] \in DOMAIN frames[e[1]].old
                     /\ e[2] >= frames[e[1]].i
                     /\ frames[e[1]].old[e[2]].key # NULL}
<1>1. New = {0} \X Used(payload)
  OBVIOUS
<1>2. Old = {1} \X PendingSlots
  <2>1. CASE frames = << >>
    <3>1. DOMAIN frames = {}
      BY <2>1
    <3> QED  BY <2>1, <3>1 DEF PendingSlots
  <2>2. CASE frames # << >>
    <3> DEFINE f == frames[1]
               n == capacity \div 2
    <3>1. /\ frames = <<f>> /\ n \in Nat \ {0} /\ SlotsOK(f.old, n, kind) /\ capacity = 2 * n
      BY <2>2, InRehash
    <3>2. DOMAIN frames = {1}
      BY <3>1, OneFrame, Zenon
    <3>3. DOMAIN f.old = 0..(n - 1)
      BY <3>1 DEF SlotsOK
    <3>4. DOMAIN f.old \subseteq 0..capacity
      BY <3>1, <3>3
    <3>5. PendingSlots = {m \in DOMAIN f.old : f.old[m].key # NULL /\ m >= f.i}
      BY <2>2 DEF PendingSlots, Pending, Used
    <3>6. Old = {e \in {1} \X (0..capacity) :
                   e[2] \in DOMAIN f.old /\ e[2] >= f.i /\ f.old[e[2]].key # NULL}
      BY <3>2
    <3> HIDE DEF f, Old
    <3> QED  BY <3>4, <3>5, <3>6
  <2> QED  BY <2>1, <2>2
<1>3. Entries = New \cup Old
  BY DEF Entries
<1>4. \A i \in Used(payload) : EntryAt(<<0, i>>) = payload[i]
  BY DEF EntryAt
<1>5. \A m \in PendingSlots : EntryAt(<<1, m>>) = frames[1].old[m]
  BY DEF EntryAt
<1>6. \A i \in Used(payload) : EntryOK(payload[i], kind)
  BY HashtabAssumption DEF TableInv, SlotsOK, Used, EmptySlot
<1>7. \A m \in PendingSlots : EntryOK(frames[1].old[m], kind)
  <2>1. CASE frames # << >>
    <3>1. SlotsOK(frames[1].old, capacity \div 2, kind)
      BY <2>1, InRehash
    <3>2. \A m \in PendingSlots : m \in DOMAIN frames[1].old /\ frames[1].old[m].key # NULL
      BY <2>1 DEF PendingSlots, Pending, Used
    <3>3. EmptySlot.key = NULL
      BY DEF EmptySlot
    <3> QED  BY <3>1, <3>2, <3>3 DEF SlotsOK
  <2> QED  BY <2>1 DEF PendingSlots
<1>8. IsFiniteSet(Used(payload)) /\ IsFiniteSet(PendingSlots)
  BY FiniteParts, FS_EmptySet DEF PendingSlots
<1> HIDE DEF New, Old
<1> QED  BY <1>1, <1>2, <1>3, <1>4, <1>5, <1>6, <1>7, <1>8

\* The entries of two tables are counted one table at a time.
LEMMA TaggedCount ==
  ASSUME NEW S, IsFiniteSet(S), NEW T, IsFiniteSet(T),
         NEW A, A = ({0} \X S) \cup ({1} \X T)
  PROVE  Cardinality(A) = Cardinality(S) + Cardinality(T)
<1>1. /\ IsFiniteSet({0}) /\ Cardinality({0}) = 1
      /\ IsFiniteSet({1}) /\ Cardinality({1}) = 1
  BY FS_Singleton
<1> DEFINE B == {0} \X S
           C == {1} \X T
<1>2. /\ IsFiniteSet(B) /\ Cardinality(B) = 1 * Cardinality(S)
      /\ IsFiniteSet(C) /\ Cardinality(C) = 1 * Cardinality(T)
  BY <1>1, FS_Product
<1>3. B \cap C = {} /\ A = B \cup C
  OBVIOUS
<1>4. Cardinality(S) \in Nat /\ Cardinality(T) \in Nat /\ Cardinality(B \cap C) = 0
  BY <1>3, FS_CardinalityType, FS_EmptySet
<1> HIDE DEF B, C
<1>5. Cardinality(B \cup C) = Cardinality(B) + Cardinality(C) - Cardinality(B \cap C)
  BY <1>2, FS_Union
<1>6. Cardinality(B) = Cardinality(S) /\ Cardinality(C) = Cardinality(T)
  BY <1>2, <1>4
<1>7. Cardinality(A) = Cardinality(B \cup C)
  BY <1>3
<1> QED  BY <1>4, <1>5, <1>6, <1>7

LEMMA CountsAre ==
  ASSUME TableInv, NEW r \in Ref
  PROVE  /\ Cardinality({e \in Entries : EntryAt(e).key = r})
            + (IF kind = "refs" THEN Cardinality({e \in Entries : EntryAt(e).val = r}) ELSE 0)
              = Holds(payload, Used(payload), r, kind) + PendingHolds(frames, r, kind)
         /\ Cardinality({e \in Entries : EntryAt(e).key = r}) \in Nat
         /\ Cardinality({e \in Entries : EntryAt(e).val = r}) \in Nat
<1> DEFINE S == Used(payload)
           T == PendingSlots
           old == frames[1].old
           KS == {i \in S : payload[i].key = r}
           KT == {m \in T : old[m].key = r}
           VS == {i \in S : payload[i].val = r}
           VT == {m \in T : old[m].val = r}
           K == {e \in Entries : EntryAt(e).key = r}
           V == {e \in Entries : EntryAt(e).val = r}
<1>1. /\ Entries = ({0} \X S) \cup ({1} \X T)
      /\ \A i \in S : EntryAt(<<0, i>>) = payload[i]
      /\ \A m \in T : EntryAt(<<1, m>>) = old[m]
      /\ IsFiniteSet(S) /\ IsFiniteSet(T)
  BY EntriesAre
<1>2. K = ({0} \X KS) \cup ({1} \X KT) /\ V = ({0} \X VS) \cup ({1} \X VT)
  <2> HIDE DEF S, T, old
  <2>1. \A e \in {0} \X S : e = <<0, e[2]>> /\ e[2] \in S
    OBVIOUS
  <2>2. \A e \in {1} \X T : e = <<1, e[2]>> /\ e[2] \in T
    OBVIOUS
  <2> QED  BY <1>1, <2>1, <2>2
<1>3. /\ IsFiniteSet(KS) /\ IsFiniteSet(KT) /\ IsFiniteSet(VS) /\ IsFiniteSet(VT)
  <2>1. KS \subseteq S /\ VS \subseteq S /\ KT \subseteq T /\ VT \subseteq T
    OBVIOUS
  <2> HIDE DEF S, T, KS, KT, VS, VT
  <2> QED  BY <1>1, <2>1, FS_Subset
<1>4. /\ Holds(payload, S, r, kind)
           = Cardinality(KS) + IF kind = "refs" THEN Cardinality(VS) ELSE 0
      /\ PendingHolds(frames, r, kind)
           = Cardinality(KT) + IF kind = "refs" THEN Cardinality(VT) ELSE 0
  <2>1. CASE frames = << >>
    <3>1. KT = {} /\ VT = {}
      BY <2>1 DEF PendingSlots
    <3> HIDE DEF KT, VT
    <3> QED  BY <2>1, <3>1, FS_EmptySet DEF Holds, PendingHolds
  <2>2. CASE frames # << >>
    <3>1. T = Pending(frames[1])
      BY <2>2 DEF PendingSlots
    <3> QED  BY <2>2, <3>1 DEF Holds, PendingHolds
  <2> QED  BY <2>1, <2>2
<1>5. /\ Cardinality(KS) \in Nat /\ Cardinality(KT) \in Nat
      /\ Cardinality(VS) \in Nat /\ Cardinality(VT) \in Nat
  <2> HIDE DEF KS, KT, VS, VT
  <2> QED  BY <1>3, FS_CardinalityType
<1> HIDE DEF KS, KT, VS, VT, K, V
<1>6. /\ Cardinality(K) = Cardinality(KS) + Cardinality(KT)
      /\ Cardinality(V) = Cardinality(VS) + Cardinality(VT)
  BY <1>2, <1>3, TaggedCount
<1>7. /\ Cardinality(K) + (IF kind = "refs" THEN Cardinality(V) ELSE 0)
           = Holds(payload, S, r, kind) + PendingHolds(frames, r, kind)
      /\ Cardinality(K) \in Nat /\ Cardinality(V) \in Nat
  <2> HIDE DEF S
  <2> QED  BY <1>4, <1>5, <1>6
<1> QED  BY <1>7 DEF K, V

-----------------------------------------------------------------------------
(* The properties of Hashtab. *)

\* cqlrt_common.c keeps its fields in range: a probe stays inside the table,
\* and no reference count falls below zero.
THEOREM HashtabTypes == Spec => []HashtabTypeOK
<1>1. IInv => HashtabTypeOK
  <2> SUFFICES ASSUME IInv PROVE HashtabTypeOK
    OBVIOUS
  <2>1. TableInv /\ CallOK /\ CountInv
    BY DEF IInv
  <2>2. rc \in [Ref -> Nat]
    <3>1. \A r \in Ref : rc[r] \in Nat
      BY <2>1, CountParts
    <3>2. rc \in [Ref -> Int]
      BY <2>1 DEF TableInv
    <3> QED  BY <3>1, <3>2
  <2>3. payload \in [0..(capacity - 1) -> Slot]
    BY <2>1 DEF TableInv, SlotsOK
  <2>4. pc \in {"find", "add"} => offset \in 0..(capacity - 1)
    BY <2>1 DEF TableInv
  <2>5. /\ call.op \in {"add", "upsert", "find"}
        /\ call.key \in Ref \cup {NULL} /\ call.val \in Val \cup {NULL}
    BY <2>1 DEF CallOK
  <2> QED  BY <2>1, <2>2, <2>3, <2>4, <2>5 DEF HashtabTypeOK, TableInv, CountInv
<1> QED  BY <1>1, HashtabInvariant, PTL

\* cql_hashtab_find stops at the first free slot: whatever was added and
\* however the table has grown, it finds every entry there is.
THEOREM EntriesFound == Spec => []EntriesReachable
<1>1. IInv => EntriesReachable
  <2> SUFFICES ASSUME IInv PROVE EntriesReachable
    OBVIOUS
  <2>1. /\ Reach(payload, capacity) /\ Distinct(payload) /\ count = Cardinality(Used(payload))
        /\ 4 * count <= 3 * capacity /\ count \in Nat /\ capacity \in Nat \ {0}
    BY DEF IInv, TableInv
  <2>2. count < capacity
    BY <2>1
  <2> QED  BY <2>1, <2>2 DEF EntriesReachable, Reach, Distinct
<1> QED  BY <1>1, HashtabInvariant, PTL

\* retain and release are paired in every add, replacement, rehash and delete:
\* a string's count is the program's references and the table's.
THEOREM ReferencesAreBalanced == Spec => []ReferencesBalance
<1>1. IInv => ReferencesBalance
  <2> SUFFICES ASSUME IInv, NEW r \in Ref
               PROVE  rc[r] = held[r] + Cardinality({e \in Entries : EntryAt(e).key = r})
                              + IF kind = "refs"
                                THEN Cardinality({e \in Entries : EntryAt(e).val = r})
                                ELSE 0
    BY DEF ReferencesBalance
  <2> DEFINE K == Cardinality({e \in Entries : EntryAt(e).key = r})
             V == Cardinality({e \in Entries : EntryAt(e).val = r})
             S == Holds(payload, Used(payload), r, kind)
             P == PendingHolds(frames, r, kind)
  <2>1. TableInv /\ CountInv
    BY DEF IInv
  <2>2. /\ K + (IF kind = "refs" THEN V ELSE 0) = S + P
        /\ K \in Nat /\ V \in Nat
    BY <2>1, CountsAre
  <2>3. /\ rc[r] = held[r] + S + P /\ held[r] \in Nat /\ S \in Nat /\ P \in Nat
    BY <2>1, CountParts
  <2> HIDE DEF K, V, S, P
  <2>4. rc[r] = held[r] + K + IF kind = "refs" THEN V ELSE 0
    BY <2>2, <2>3
  <2> QED  BY <2>4 DEF K, V
<1> QED  BY <1>1, HashtabInvariant, PTL

\* No entry of the table has a key that was freed, whatever the program drops,
\* and nothing retains or releases a freed string.
THEOREM NothingUsedAfterFree == Spec => []NoUseAfterFree
<1>1. IInv => NoUseAfterFree
  <2> SUFFICES ASSUME IInv PROVE NoUseAfterFree
    OBVIOUS
  <2>1. TableInv /\ CountInv
    BY DEF IInv
  <2>2. ASSUME NEW e \in Entries
        PROVE  rc[EntryAt(e).key] > 0
    <3> DEFINE r == EntryAt(e).key
               K == {x \in Entries : EntryAt(x).key = r}
    <3>1. r \in Ref
      <4>1. /\ Entries = ({0} \X Used(payload)) \cup ({1} \X PendingSlots)
            /\ \A i \in Used(payload) : EntryAt(<<0, i>>) = payload[i]
            /\ \A m \in PendingSlots : EntryAt(<<1, m>>) = frames[1].old[m]
            /\ \A i \in Used(payload) : EntryOK(payload[i], kind)
            /\ \A m \in PendingSlots : EntryOK(frames[1].old[m], kind)
        BY <2>1, EntriesAre
      <4>2. EntryOK(EntryAt(e), kind)
        <5>1. CASE e \in {0} \X Used(payload)
          <6>1. e = <<0, e[2]>> /\ e[2] \in Used(payload)
            BY <5>1
          <6> QED  BY <4>1, <6>1
        <5>2. CASE e \in {1} \X PendingSlots
          <6>1. e = <<1, e[2]>> /\ e[2] \in PendingSlots
            BY <5>2
          <6> QED  BY <4>1, <6>1
        <5> QED  BY <4>1, <5>1, <5>2
      <4> QED  BY <4>2 DEF EntryOK
    <3>2. e \in K /\ Cardinality(K) \in Nat
      <4> HIDE DEF r
      <4>1. Cardinality(K) \in Nat
        BY <2>1, <3>1, CountsAre
      <4> QED  BY <4>1 DEF r
    <3>3. IsFiniteSet(K)
      <4>1. IsFiniteSet(Entries)
        <5>1. /\ Entries = ({0} \X Used(payload)) \cup ({1} \X PendingSlots)
              /\ IsFiniteSet(Used(payload)) /\ IsFiniteSet(PendingSlots)
          BY <2>1, EntriesAre
        <5>2. IsFiniteSet({0} \X Used(payload)) /\ IsFiniteSet({1} \X PendingSlots)
          BY <5>1, FS_Singleton, FS_Product
        <5> QED  BY <5>1, <5>2, FS_Union
      <4>2. K \subseteq Entries
        OBVIOUS
      <4> QED  BY <4>1, <4>2, FS_Subset
    <3>4. Cardinality(K) > 0
      <4>1. Cardinality(K) # 0
        BY <3>2, <3>3, FS_EmptySet
      <4> QED  BY <3>2, <4>1
    <3> DEFINE V == Cardinality({x \in Entries : EntryAt(x).val = r})
               S == Holds(payload, Used(payload), r, kind)
               P == PendingHolds(frames, r, kind)
    <3>5. /\ Cardinality(K) + (IF kind = "refs" THEN V ELSE 0) = S + P /\ V \in Nat
          /\ rc[r] = held[r] + S + P /\ held[r] \in Nat /\ S \in Nat /\ P \in Nat
      <4> HIDE DEF r
      <4> QED  BY <2>1, <3>1, CountsAre, CountParts
    <3> HIDE DEF K, V, S, P, r
    <3>6. rc[r] > 0
      BY <3>2, <3>4, <3>5
    <3> QED  BY <3>6 DEF r
  <2> QED  BY <2>1, <2>2 DEF NoUseAfterFree, CountInv
<1> QED  BY <1>1, HashtabInvariant, PTL

\* cql_hashtab_add and cql_hashtab_rehash call each other, but not for ever:
\* the entries being moved never fill the new table enough for another rehash.
THEOREM OneRehashAtATime == Spec => []RehashDoesNotNest
<1>1. IInv => RehashDoesNotNest
  <2> SUFFICES ASSUME IInv PROVE Len(frames) <= 1
    BY DEF RehashDoesNotNest
  <2>1. frames = << >> \/ frames = <<frames[1]>>
    BY DEF IInv, TableInv, FramesOK
  <2> QED  BY <2>1
<1> QED  BY <1>1, HashtabInvariant, PTL

-----------------------------------------------------------------------------
(* The table implements the map. *)

\* The texts that are bound, and to what.
Bound(p, fs, t, v) ==
  \/ \E i \in Used(p) : Content[p[i].key] = t /\ p[i].val = v
  \/ /\ fs # << >>
     /\ \E m \in Pending(fs[1]) : Content[fs[1].old[m].key] = t /\ fs[1].old[m].val = v

\* A text is bound once: an entry that is both in the new table and pending
\* is the same entry.
MapIsBound ==
  /\ MapOf \in [Text -> Val \cup {NULL}]
  /\ \A t \in Text, v \in Val : MapOf[t] = v <=> Bound(payload, frames, t, v)

LEMMA OneEntryPerText ==
  ASSUME TableInv, NEW e1 \in Entries, NEW e2 \in Entries,
         Content[EntryAt(e1).key] = Content[EntryAt(e2).key]
  PROVE  EntryAt(e1) = EntryAt(e2)
<1> DEFINE S == Used(payload)
           T == PendingSlots
           f == frames[1]
           n == capacity \div 2
<1>1. /\ Entries = ({0} \X S) \cup ({1} \X T)
      /\ \A i \in S : EntryAt(<<0, i>>) = payload[i]
      /\ \A m \in T : EntryAt(<<1, m>>) = f.old[m]
      /\ Distinct(payload)
  BY EntriesAre DEF TableInv
<1>2. \A e \in {0} \X S : e = <<0, e[2]>> /\ e[2] \in S
  OBVIOUS
<1>3. \A e \in {1} \X T : e = <<1, e[2]>> /\ e[2] \in T
  OBVIOUS
<1>4. \A i, j \in S : Content[payload[i].key] = Content[payload[j].key] => i = j
  BY <1>1 DEF Distinct, SameKey
<1>5. \A i, j \in T : Content[f.old[i].key] = Content[f.old[j].key] => i = j
  <2>1. CASE frames # << >>
    <3>1. Distinct(f.old)
      BY <2>1, InRehash
    <3> QED  BY <2>1, <3>1 DEF Distinct, SameKey, PendingSlots, Pending
  <2> QED  BY <2>1 DEF PendingSlots
<1>6. \A i \in S, m \in T :
        Content[payload[i].key] = Content[f.old[m].key] => payload[i] = f.old[m]
  <2>1. CASE frames # << >>
    <3> SUFFICES ASSUME NEW i \in S, NEW m \in T,
                        Content[payload[i].key] = Content[f.old[m].key]
                 PROVE  payload[i] = f.old[m]
      OBVIOUS
    <3>1. RehashOK(f, n) /\ n \in Nat \ {0} /\ SlotsOK(f.old, n, kind) /\ Distinct(f.old)
      BY <2>1, InRehash
    <3>2. PICK l \in 0..(n - 1) : payload[i] = f.old[l]
      BY <3>1 DEF RehashOK
    <3>3. payload[i].key # NULL
      BY DEF Used
    <3>4. l \in Used(f.old) /\ m \in Used(f.old)
      BY <2>1, <3>1, <3>2, <3>3, SlotUsed DEF PendingSlots, Pending
    <3>5. l = m
      BY <3>1, <3>2, <3>4 DEF Distinct, SameKey
    <3> QED  BY <3>2, <3>5
  <2> QED  BY <2>1 DEF PendingSlots
<1> HIDE DEF S, T, f
<1>7. CASE e1 \in {0} \X S /\ e2 \in {0} \X S
  BY <1>1, <1>2, <1>4, <1>7
<1>8. CASE e1 \in {1} \X T /\ e2 \in {1} \X T
  BY <1>1, <1>3, <1>5, <1>8
<1>9. CASE e1 \in {0} \X S /\ e2 \in {1} \X T
  BY <1>1, <1>2, <1>3, <1>6, <1>9
<1>10. CASE e1 \in {1} \X T /\ e2 \in {0} \X S
  BY <1>1, <1>2, <1>3, <1>6, <1>10
<1> QED  BY <1>1, <1>7, <1>8, <1>9, <1>10

LEMMA MapValues == TableInv => MapIsBound
<1> SUFFICES ASSUME TableInv PROVE MapIsBound
  OBVIOUS
<1> DEFINE S == Used(payload)
           T == PendingSlots
           f == frames[1]
<1>1. /\ Entries = ({0} \X S) \cup ({1} \X T)
      /\ \A i \in S : EntryAt(<<0, i>>) = payload[i]
      /\ \A m \in T : EntryAt(<<1, m>>) = f.old[m]
      /\ \A i \in S : EntryOK(payload[i], kind)
      /\ \A m \in T : EntryOK(f.old[m], kind)
  BY EntriesAre
<1>2. \A e \in {0} \X S : e = <<0, e[2]>> /\ e[2] \in S
  OBVIOUS
<1>3. \A e \in {1} \X T : e = <<1, e[2]>> /\ e[2] \in T
  OBVIOUS
<1>4. \A t, v : Bound(payload, frames, t, v)
                  <=> \E e \in Entries : Content[EntryAt(e).key] = t /\ EntryAt(e).val = v
  <2> SUFFICES ASSUME NEW t, NEW v
               PROVE  Bound(payload, frames, t, v)
                        <=> \E e \in Entries : Content[EntryAt(e).key] = t /\ EntryAt(e).val = v
    OBVIOUS
  <2>1. Bound(payload, frames, t, v)
          <=> \/ \E i \in S : Content[payload[i].key] = t /\ payload[i].val = v
              \/ \E m \in T : Content[f.old[m].key] = t /\ f.old[m].val = v
    BY DEF Bound, PendingSlots
  <2> HIDE DEF S, T, f
  <2>2. ASSUME Bound(payload, frames, t, v)
        PROVE  \E e \in Entries : Content[EntryAt(e).key] = t /\ EntryAt(e).val = v
    <3>1. CASE \E i \in S : Content[payload[i].key] = t /\ payload[i].val = v
      <4>1. PICK i \in S : Content[payload[i].key] = t /\ payload[i].val = v
        BY <3>1
      <4>2. <<0, i>> \in Entries
        BY <1>1
      <4> QED  BY <1>1, <4>1, <4>2
    <3>2. CASE \E m \in T : Content[f.old[m].key] = t /\ f.old[m].val = v
      <4>1. PICK m \in T : Content[f.old[m].key] = t /\ f.old[m].val = v
        BY <3>2
      <4>2. <<1, m>> \in Entries
        BY <1>1
      <4> QED  BY <1>1, <4>1, <4>2
    <3> QED  BY <2>1, <2>2, <3>1, <3>2
  <2>3. ASSUME NEW e \in Entries, Content[EntryAt(e).key] = t, EntryAt(e).val = v
        PROVE  Bound(payload, frames, t, v)
    <3>1. CASE e \in {0} \X S
      BY <1>1, <1>2, <2>1, <2>3, <3>1
    <3>2. CASE e \in {1} \X T
      BY <1>1, <1>3, <2>1, <2>3, <3>2
    <3> QED  BY <1>1, <3>1, <3>2
  <2> QED  BY <2>2, <2>3
<1>5. \A e \in Entries : EntryAt(e).val \in Val
  <2> HIDE DEF S, T, f
  <2> QED  BY <1>1, <1>2, <1>3 DEF EntryOK
<1>6. ASSUME NEW t \in Text
      PROVE  /\ MapOf[t] \in Val \cup {NULL}
             /\ \A v \in Val : MapOf[t] = v
                  <=> \E e \in Entries : Content[EntryAt(e).key] = t /\ EntryAt(e).val = v
  <2>1. CASE \E e \in Entries : Content[EntryAt(e).key] = t
    <3> DEFINE c == CHOOSE e \in Entries : Content[EntryAt(e).key] = t
    <3>1. c \in Entries /\ Content[EntryAt(c).key] = t
      BY <2>1
    <3>2. MapOf[t] = EntryAt(c).val
      BY <2>1 DEF MapOf
    <3> HIDE DEF c
    <3>3. \A e \in Entries : Content[EntryAt(e).key] = t => EntryAt(e) = EntryAt(c)
      BY <3>1, OneEntryPerText
    <3> QED  BY <1>5, <3>1, <3>2, <3>3
  <2>2. CASE ~\E e \in Entries : Content[EntryAt(e).key] = t
    <3>1. MapOf[t] = NULL
      BY <2>2 DEF MapOf
    <3> QED  BY <2>2, <3>1, HashtabAssumption DEF Val
  <2> QED  BY <2>1, <2>2
<1>7. MapOf = [t \in Text |-> MapOf[t]]
  BY DEF MapOf
<1>8. MapOf \in [Text -> Val \cup {NULL}]
  BY <1>6, <1>7
<1> QED  BY <1>4, <1>6, <1>8 DEF MapIsBound

LEMMA MapValuesNext == TableInv' => MapIsBound'
BY MapValues, PTL

LEMMA MapSame ==
  ASSUME MapIsBound, MapIsBound',
         \A t \in Text, v \in Val :
           Bound(payload', frames', t, v) <=> Bound(payload, frames, t, v)
  PROVE  MapOf' = MapOf
<1>1. /\ MapOf \in [Text -> Val \cup {NULL}] /\ MapOf' \in [Text -> Val \cup {NULL}]
      /\ \A t \in Text, v \in Val : MapOf[t] = v <=> Bound(payload, frames, t, v)
      /\ \A t \in Text, v \in Val : MapOf'[t] = v <=> Bound(payload', frames', t, v)
  BY DEF MapIsBound
<1>2. ASSUME NEW t \in Text
      PROVE  MapOf'[t] = MapOf[t]
  BY <1>1
<1> QED  BY <1>1, <1>2

LEMMA MapSet ==
  ASSUME MapIsBound, MapIsBound', NEW x \in Text, NEW w \in Val,
         \A t \in Text, v \in Val :
           Bound(payload', frames', t, v) <=> IF t = x THEN v = w
                                              ELSE Bound(payload, frames, t, v)
  PROVE  MapOf' = [MapOf EXCEPT ![x] = w]
<1>1. /\ MapOf \in [Text -> Val \cup {NULL}] /\ MapOf' \in [Text -> Val \cup {NULL}]
      /\ \A t \in Text, v \in Val : MapOf[t] = v <=> Bound(payload, frames, t, v)
      /\ \A t \in Text, v \in Val : MapOf'[t] = v <=> Bound(payload', frames', t, v)
  BY DEF MapIsBound
<1>2. MapOf'[x] = w
  BY <1>1
<1>3. ASSUME NEW t \in Text, t # x
      PROVE  MapOf'[t] = MapOf[t]
  BY <1>1, <1>3
<1> QED  BY <1>1, <1>2, <1>3

\* The map of a table without entries
LEMMA MapOfNothing ==
  TableInv /\ Used(payload) = {} /\ frames = << >> => MapOf = Map!Empty
<1> SUFFICES ASSUME TableInv, Used(payload) = {}, frames = << >>
             PROVE  MapOf = Map!Empty
  OBVIOUS
<1>1. Entries = {}
  <2>1. Entries = ({0} \X Used(payload)) \cup ({1} \X PendingSlots)
    BY EntriesAre
  <2> QED  BY <2>1 DEF PendingSlots
<1> QED  BY <1>1 DEF MapOf, Map!Empty

LEMMA MapOfNothingNext ==
  (TableInv /\ Used(payload) = {} /\ frames = << >>)' => (MapOf = Map!Empty)'
BY MapOfNothing, PTL

LEMMA TextType ==
  ASSUME NEW r \in Ref
  PROVE  Content[r] \in Text
BY DEF Text

LEMMA InitMap == Init => Map!Init
<1> SUFFICES ASSUME Init PROVE Map!Init
  OBVIOUS
<1>1. TableInv /\ Used(payload) = {} /\ frames = << >>
  BY InitTable, NewTable, HashtabAssumption DEF Init
<1> QED  BY <1>1, MapOfNothing DEF Map!Init, Init, OpenRequest

\* A step that leaves the map, the request and the result alone is invisible.
LEMMA Stutters ==
  ASSUME MapIsBound, MapIsBound', UNCHANGED <<OpenRequest, ret>>,
         \A t \in Text, v \in Val :
           Bound(payload', frames', t, v) <=> Bound(payload, frames, t, v)
  PROVE  UNCHANGED Map!vars
BY MapSame DEF Map!vars

LEMMA BeginMap ==
  ASSUME TableInv, MapIsBound, MapIsBound',
         NEW o \in {"add", "upsert", "find"}, NEW k \in Ref, NEW v \in Val \cup {NULL},
         Begin(o, k, v)
  PROVE  Map!Next
<1>1. /\ frames = << >> /\ UNCHANGED <<payload, frames, ret>> /\ pc = "idle"
      /\ call' = [op |-> o, key |-> k, val |-> v] /\ pc' \in {"add", "find"}
  BY DEF Begin, table, TableInv, FramesOK
<1>2. MapOf' = MapOf
  BY <1>1, MapSame
<1>3. OpenRequest = NULL
  BY <1>1 DEF OpenRequest
<1> DEFINE r == [op |-> o, text |-> Content[k], val |-> v]
<1>4. OpenRequest' = r
  BY <1>1 DEF OpenRequest
<1>5. r \in Map!Request
  BY TextType DEF Map!Request
<1> HIDE DEF r
<1>6. Map!Call(r)
  BY <1>1, <1>2, <1>3, <1>4 DEF Map!Call
<1> QED  BY <1>5, <1>6 DEF Map!Next

\* The request that is being served.
LEMMA RequestIs ==
  ASSUME TableInv, CallOK, pc \in {"find", "add"}, frames = << >>
  PROVE  /\ OpenRequest # NULL
         /\ OpenRequest = [op |-> call.op, text |-> Content[call.key], val |-> call.val]
         /\ OpenRequest.op = call.op /\ OpenRequest.text = Content[call.key]
         /\ OpenRequest.val = call.val
         /\ call.key \in Ref /\ Content[call.key] \in Text
         /\ call.op # "find" => call.val \in Val
         /\ Adding = [key |-> call.key, val |-> call.val]
<1>1. OpenRequest = [op |-> call.op, text |-> Content[call.key], val |-> call.val]
  BY DEF OpenRequest
<1>2. /\ call.key \in Ref /\ call.op \in {"add", "upsert", "find"} /\ call.val \in Val \cup {NULL}
      /\ call.op # "find" => call.val \in Val
  BY DEF CallOK, EntryOK
<1>3. OpenRequest \in [op : {"add", "upsert", "find"}, text : Text, val : Val \cup {NULL}]
  BY <1>1, <1>2, TextType
<1>4. OpenRequest # NULL
  BY <1>3, HashtabAssumption
<1> QED  BY <1>1, <1>2, <1>4, TextType DEF Adding

\* What a search finds: nothing once it is at a free slot, else the value bound.
LEMMA SearchResult ==
  ASSUME TableInv, CallOK, MapIsBound, pc \in {"find", "add"}, frames = << >>
  PROVE  LET s == payload[offset]
             x == Content[call.key]
         IN  /\ s.key = NULL => /\ \A i \in Used(payload) : Content[payload[i].key] # x
                                /\ MapOf[x] = NULL
             /\ s.key # NULL /\ SameKey(s.key, call.key) =>
                  offset \in Used(payload) /\ s.val \in Val /\ MapOf[x] = s.val
<1> DEFINE s == payload[offset]
           x == Content[call.key]
<1>1. /\ capacity \in Nat \ {0} /\ SlotsOK(payload, capacity, kind)
      /\ Reach(payload, capacity) /\ offset \in 0..(capacity - 1)
      /\ call.key \in Ref /\ x \in Text
      /\ Probed(payload, capacity, call.key, offset)
  BY RequestIs DEF TableInv, Adding
<1>2. /\ MapOf \in [Text -> Val \cup {NULL}]
      /\ \A t \in Text, v \in Val : MapOf[t] = v <=> Bound(payload, frames, t, v)
  BY DEF MapIsBound
<1>3. CASE s.key = NULL
  <2>1. \A i \in Used(payload) : Content[payload[i].key] # x
    BY <1>1, <1>3, ProbedAbsent DEF SameKey
  <2>2. \A v \in Val : ~Bound(payload, frames, x, v)
    BY <2>1 DEF Bound
  <2>3. MapOf[x] = NULL
    BY <1>1, <1>2, <2>2
  <2> QED  BY <1>3, <2>1, <2>3
<1>4. CASE s.key # NULL /\ SameKey(s.key, call.key)
  <2>1. offset \in Used(payload) /\ EntryOK(s, kind)
    BY <1>1, <1>4, SlotUsed
  <2>2. s.val \in Val /\ Content[s.key] = x
    BY <1>4, <2>1 DEF EntryOK, SameKey
  <2>3. Bound(payload, frames, x, s.val)
    BY <2>1, <2>2 DEF Bound
  <2> QED  BY <1>1, <1>2, <1>4, <2>1, <2>2, <2>3
<1> QED  BY <1>3, <1>4

\* cql_hashtab_find does what its caller asked of the map.
LEMMA FindProbeMap ==
  ASSUME TableInv, CallOK, MapIsBound, MapIsBound', FindProbe
  PROVE  Map!Next \/ UNCHANGED Map!vars
<1> DEFINE s == payload[offset]
           x == Content[call.key]
<1>1. /\ pc = "find" /\ frames = << >> /\ frames' = << >>
      /\ offset \in 0..(capacity - 1) /\ payload \in [0..(capacity - 1) -> Slot]
  BY DEF FindProbe, TableInv, FramesOK, SlotsOK
<1>2. /\ OpenRequest # NULL
      /\ OpenRequest.op = call.op /\ OpenRequest.text = x /\ OpenRequest.val = call.val
      /\ call.op # "find" => call.val \in Val
      /\ x \in Text /\ call.key \in Ref
  BY <1>1, RequestIs
<1>3. /\ s.key = NULL => MapOf[x] = NULL
      /\ s.key # NULL /\ SameKey(s.key, call.key) =>
           offset \in Used(payload) /\ s.val \in Val /\ MapOf[x] = s.val
  BY <1>1, SearchResult
<1>4. ASSUME Return(ret')
      PROVE  OpenRequest' = NULL
  BY <1>4 DEF Return, OpenRequest
<1>5. ASSUME UNCHANGED <<table, counts>>
      PROVE  MapOf' = MapOf
  BY <1>1, <1>5, MapSame DEF table
<1>6. CASE s.key = NULL /\ call.op = "find" /\ Return(NULL) /\ UNCHANGED <<table, counts>>
  <2>1. Map!Find
    BY <1>2, <1>3, <1>4, <1>5, <1>6 DEF Map!Find, Return
  <2> QED  BY <2>1 DEF Map!Next
<1>7. CASE UNCHANGED <<table, counts, call, ret>> /\ pc' \in {"find", "add"}
  <2>1. OpenRequest' = OpenRequest
    BY <1>1, <1>7 DEF OpenRequest
  <2> QED  BY <1>5, <1>7, <2>1 DEF Map!vars
<1>8. CASE /\ s.key # NULL /\ SameKey(s.key, call.key) /\ call.op = "find"
           /\ Return(s.val)
           /\ UNCHANGED <<table, counts>>
  <2>1. Map!Find
    BY <1>2, <1>3, <1>4, <1>5, <1>8 DEF Map!Find, Return
  <2> QED  BY <2>1 DEF Map!Next
<1>9. CASE /\ s.key # NULL /\ SameKey(s.key, call.key) /\ call.op = "upsert"
           /\ payload' = [payload EXCEPT ![offset].val = call.val]
           /\ Return("exists")
  <2>1. offset \in Used(payload) /\ s.val \in Val /\ MapOf[x] = s.val /\ Content[s.key] = x
    BY <1>3, <1>9 DEF SameKey
  <2>2. /\ payload'[offset].key = s.key /\ payload'[offset].val = call.val
        /\ DOMAIN payload' = DOMAIN payload
        /\ \A i \in DOMAIN payload : i # offset => payload'[i] = payload[i]
    <3>1. s \in [key : Ref \cup {NULL}, val : Val \cup {NULL}]
      BY <1>1 DEF Slot
    <3>2. payload' = [payload EXCEPT ![offset] = [s EXCEPT !.val = call.val]]
      BY <1>9
    <3>3. [s EXCEPT !.val = call.val] = [key |-> s.key, val |-> call.val]
      BY <3>1
    <3>4. payload' = [payload EXCEPT ![offset] = [key |-> s.key, val |-> call.val]]
      BY <3>2, <3>3
    <3> QED  BY <1>1, <3>4
  <2>3. Used(payload') = Used(payload)
    BY <2>1, <2>2, <1>9 DEF Used
  <2>4. \A i \in Used(payload) : Content[payload[i].key] = x => i = offset
    BY <2>1 DEF TableInv, Distinct, SameKey
  <2>5. ASSUME NEW t \in Text, NEW v \in Val
        PROVE  Bound(payload', frames', t, v) <=> IF t = x THEN v = call.val
                                                  ELSE Bound(payload, frames, t, v)
    <3>1. Bound(payload', frames', t, v)
            <=> \E i \in Used(payload) : Content[payload'[i].key] = t /\ payload'[i].val = v
      BY <1>1, <2>3 DEF Bound
    <3>2. Bound(payload, frames, t, v)
            <=> \E i \in Used(payload) : Content[payload[i].key] = t /\ payload[i].val = v
      BY <1>1 DEF Bound
    <3>3. \A i \in Used(payload) : i # offset => payload'[i] = payload[i]
      BY <2>2 DEF Used
    <3>4. CASE t = x
      BY <2>1, <2>2, <2>4, <3>1, <3>3, <3>4
    <3>5. CASE t # x
      BY <2>1, <2>2, <3>1, <3>2, <3>3, <3>5
    <3> QED  BY <3>4, <3>5
  <2>6. MapOf' = [MapOf EXCEPT ![x] = call.val]
    <3> DEFINE w == call.val
    <3>1. w \in Val /\ x \in Text
      BY <1>2, <1>9
    <3>2. \A t \in Text, v \in Val :
            Bound(payload', frames', t, v) <=> IF t = x THEN v = w
                                               ELSE Bound(payload, frames, t, v)
      BY <2>5
    <3> HIDE DEF x, w
    <3>3. MapOf' = [MapOf EXCEPT ![x] = w]
      BY <3>1, <3>2, MapSet
    <3> QED  BY <3>3 DEF w
  <2>7. s.val # NULL
    BY <2>1, HashtabAssumption DEF Val
  <2>8. Map!Upsert
    BY <1>2, <1>4, <1>9, <2>1, <2>6, <2>7 DEF Map!Upsert, Return
  <2> QED  BY <2>8 DEF Map!Next
<1> QED  BY <1>1, <1>6, <1>7, <1>8, <1>9 DEF FindProbe, Return

\* The values bound once an entry is stored.
LEMMA StoredBinds ==
  ASSUME TableInv, CallOK, pc = "add",
         NEW q, Stored(payload, capacity, offset, Adding, q), NEW t, NEW v
  PROVE  (\E i \in Used(q) : Content[q[i].key] = t /\ q[i].val = v)
           <=> \/ \E i \in Used(payload) : Content[payload[i].key] = t /\ payload[i].val = v
               \/ t = Content[Adding.key] /\ v = Adding.val
<1>1. /\ Used(q) = Used(payload) \cup {offset} /\ q[offset] = Adding
      /\ \A j \in Used(payload) : q[j] = payload[j]
  BY InsertFills
<1> QED  BY <1>1

LEMMA InsertMap ==
  ASSUME TableInv, CallOK, UpsertOK, MapIsBound, MapIsBound', Insert
  PROVE  Map!Next \/ UNCHANGED Map!vars
<1> DEFINE filled == [payload EXCEPT ![offset] = Adding]
           x == Content[Adding.key]
<1>1. pc = "add" /\ payload[offset].key = NULL
  BY DEF Insert
<1>2. Stored(payload, capacity, offset, Adding, filled)
  BY <1>1 DEF Stored, TableInv
<1>3. ASSUME NEW t, NEW v
      PROVE  (\E i \in Used(filled) : Content[filled[i].key] = t /\ filled[i].val = v)
               <=> \/ \E i \in Used(payload) :
                        Content[payload[i].key] = t /\ payload[i].val = v
                   \/ t = x /\ v = Adding.val
  <2> HIDE DEF filled
  <2> QED  BY <1>1, <1>2, StoredBinds
<1>4. CASE frames = << >>
  <2>1. /\ OpenRequest # NULL
        /\ OpenRequest.op = call.op /\ OpenRequest.text = Content[call.key]
        /\ OpenRequest.val = call.val /\ call.op \in {"add", "upsert"}
        /\ call.key \in Ref /\ Content[call.key] \in Text /\ call.val \in Val
        /\ Adding = [key |-> call.key, val |-> call.val]
    BY <1>1, <1>4, RequestIs DEF CallOK
  <2>2. /\ \A i \in Used(payload) : Content[payload[i].key] # x
        /\ MapOf[x] = NULL /\ x = Content[call.key] /\ Adding.val = call.val
    BY <1>1, <1>4, <2>1, SearchResult
  <2>3. /\ OpenRequest' = NULL /\ ret' = "added"
        /\ \A t, v : Bound(payload', frames', t, v)
             <=> \E i \in Used(filled) : Content[filled[i].key] = t /\ filled[i].val = v
    <3>1. CASE payload' = filled /\ frames' = << >> /\ Return("added")
      BY <3>1 DEF Return, OpenRequest, Bound
    <3>2. CASE Grow(filled)
      <4>1. Used(filled) \subseteq Nat
        <5> HIDE DEF filled
        <5>1. Used(filled) = Used(payload) \cup {offset}
          BY <1>1, <1>2, InsertFills
        <5>2. Used(payload) \subseteq Nat /\ offset \in Nat
          BY DEF TableInv, SlotsOK, Used
        <5> QED  BY <5>1, <5>2
      <4> HIDE DEF filled
      <4>2. /\ Used(payload') = {} /\ frames' # << >> /\ frames'[1].old = filled
            /\ Pending(frames'[1]) = Used(filled) /\ pc' = "rehash" /\ ret' = "added"
        BY <1>4, <3>2, <4>1, GrowMoves
      <4> QED  BY <4>2 DEF OpenRequest, Bound
    <3> QED  BY <1>4, <3>1, <3>2 DEF Insert, AddReturns
  <2>4. ASSUME NEW t \in Text, NEW v \in Val
        PROVE  Bound(payload', frames', t, v) <=> IF t = x THEN v = call.val
                                                  ELSE Bound(payload, frames, t, v)
    <3>1. Bound(payload', frames', t, v)
            <=> \/ \E i \in Used(payload) :
                     Content[payload[i].key] = t /\ payload[i].val = v
                \/ t = x /\ v = call.val
      <4> HIDE DEF x, filled
      <4>1. Adding.val = call.val
        BY <2>2
      <4>2. Bound(payload', frames', t, v)
              <=> \E i \in Used(filled) : Content[filled[i].key] = t /\ filled[i].val = v
        BY <2>3
      <4> QED  BY <1>3, <4>1, <4>2
    <3>2. Bound(payload, frames, t, v)
            <=> \E i \in Used(payload) : Content[payload[i].key] = t /\ payload[i].val = v
      BY <1>4 DEF Bound
    <3> HIDE DEF x, filled
    <3> QED  BY <2>2, <3>1, <3>2
  <2>5. MapOf' = [MapOf EXCEPT ![Content[call.key]] = call.val]
    <3> DEFINE w == call.val
    <3>1. w \in Val /\ x \in Text /\ x = Content[call.key]
      BY <2>1, <2>2
    <3>2. \A t \in Text, v \in Val :
            Bound(payload', frames', t, v) <=> IF t = x THEN v = w
                                               ELSE Bound(payload, frames, t, v)
      BY <2>4
    <3> HIDE DEF x, w
    <3>3. MapOf' = [MapOf EXCEPT ![x] = w]
      BY <3>1, <3>2, MapSet
    <3> QED  BY <3>1, <3>3 DEF w
  <2>6. CASE call.op = "add"
    <3>1. Map!Add
      BY <2>1, <2>2, <2>3, <2>5, <2>6 DEF Map!Add
    <3> QED  BY <3>1 DEF Map!Next
  <2>7. CASE call.op = "upsert"
    <3>1. Map!Upsert
      BY <2>1, <2>2, <2>3, <2>5, <2>7 DEF Map!Upsert
    <3> QED  BY <3>1 DEF Map!Next
  <2> QED  BY <2>1, <2>6, <2>7
<1>5. CASE frames # << >>
  <2>1. /\ frames[1].i \in Pending(frames[1]) /\ Adding = frames[1].old[frames[1].i]
    BY <1>1, <1>5, PendingEntry
  <2>2. ~Overloaded(count + 1, capacity)
    <3>1. /\ RehashOK(frames[1], capacity \div 2) /\ frames[1].i \in Nat
          /\ capacity = 2 * (capacity \div 2) /\ capacity \div 2 \in Nat \ {0}
      BY <1>5, InRehash
    <3>2. count <= frames[1].i /\ frames[1].i < capacity \div 2
      BY <1>1, <3>1 DEF RehashOK
    <3> QED  BY <3>1, <3>2 DEF Overloaded, TableInv
  <2>3. payload' = filled /\ UNCHANGED <<frames, ret>>
    BY <1>5, <2>2 DEF Insert, AddReturns
  <2>4. OpenRequest' = NULL /\ OpenRequest = NULL
    BY <1>5, <2>3 DEF OpenRequest
  <2>5. ASSUME NEW t \in Text, NEW v \in Val
        PROVE  Bound(payload', frames', t, v) <=> Bound(payload, frames, t, v)
    <3>1. Bound(payload', frames', t, v)
            <=> Bound(payload, frames, t, v) \/ (t = x /\ v = Adding.val)
      <4> HIDE DEF filled
      <4> QED  BY <1>3, <1>5, <2>3 DEF Bound
    <3>2. (t = x /\ v = Adding.val) => Bound(payload, frames, t, v)
      BY <1>5, <2>1 DEF Bound
    <3> QED  BY <3>1, <3>2
  <2>6. UNCHANGED <<OpenRequest, ret>>
    BY <2>3, <2>4
  <2> QED  BY <2>5, <2>6, Stutters
<1> QED  BY <1>4, <1>5

LEMMA AddProbeMap ==
  ASSUME TableInv, CallOK, UpsertOK, MapIsBound, MapIsBound', AddProbe
  PROVE  Map!Next \/ UNCHANGED Map!vars
<1>1. /\ pc = "add" /\ UNCHANGED <<payload, frames>> /\ payload[offset].key # NULL
      /\ offset \in 0..(capacity - 1) /\ SlotsOK(payload, capacity, kind)
      /\ capacity \in Nat \ {0}
  BY DEF AddProbe, table, TableInv
<1>2. MapOf' = MapOf
  BY <1>1, MapSame
<1>3. CASE SameKey(payload[offset].key, Adding.key) /\ frames = << >>
  <2>1. Return("exists")
    BY <1>3 DEF AddProbe, AddReturns
  <2>2. /\ OpenRequest # NULL
        /\ OpenRequest.op = call.op /\ OpenRequest.text = Content[call.key]
        /\ call.op \in {"add", "upsert"} /\ Adding.key = call.key
    BY <1>1, <1>3, RequestIs DEF CallOK
  <2>3. /\ offset \in Used(payload) /\ payload[offset].val \in Val
        /\ MapOf[Content[call.key]] = payload[offset].val
    BY <1>1, <1>3, <2>2, SearchResult
  <2>4. call.op = "add"
    BY <1>1, <1>3, <2>2, <2>3 DEF UpsertOK
  <2>5. MapOf[Content[call.key]] # NULL
    BY <2>3, HashtabAssumption DEF Val
  <2>6. Map!Add
    BY <1>2, <2>1, <2>2, <2>4, <2>5 DEF Map!Add, Return, OpenRequest
  <2> QED  BY <2>6 DEF Map!Next
<1>4. CASE frames # << >>
  <2>1. OpenRequest' = NULL /\ OpenRequest = NULL /\ UNCHANGED ret
    BY <1>1, <1>4 DEF OpenRequest, AddProbe, AddReturns
  <2> QED  BY <1>2, <2>1 DEF Map!vars
<1>5. CASE ~SameKey(payload[offset].key, Adding.key)
  <2>1. UNCHANGED <<pc, call, ret>>
    BY <1>5 DEF AddProbe
  <2>2. OpenRequest' = OpenRequest
    BY <1>1, <2>1 DEF OpenRequest
  <2> QED  BY <1>2, <2>1, <2>2 DEF Map!vars
<1> QED  BY <1>3, <1>4, <1>5

\* Moving the entries is invisible: an entry is pending until it is in the new
\* table.
LEMMA RehashMap ==
  ASSUME TableInv, CallOK, MapIsBound, MapIsBound', Rehash
  PROVE  UNCHANGED Map!vars
<1> DEFINE f == frames[1]
           n == capacity \div 2
<1>1. /\ frames # << >> /\ UNCHANGED <<table, counts>> /\ pc = "rehash"
      /\ n \in Nat \ {0} /\ f.i \in 0..n /\ frames = <<f>>
      /\ Head(frames) = f /\ Tail(frames) = << >> /\ SlotsOK(f.old, n, kind)
      /\ f = [old |-> f.old, i |-> f.i]
  <2>1. frames # << >> /\ UNCHANGED <<table, counts>> /\ pc = "rehash"
    BY DEF Rehash, TableInv, FramesOK
  <2> QED  BY <2>1, InRehash
<1>2. DOMAIN f.old = 0..(n - 1)
  BY <1>1 DEF SlotsOK
<1>3. OpenRequest = NULL /\ payload' = payload
  BY <1>1 DEF OpenRequest, table
<1>4. CASE UNCHANGED <<frames, ret>>
  <2>1. OpenRequest' = NULL
    BY <1>1, <1>4 DEF OpenRequest
  <2>2. UNCHANGED <<OpenRequest, ret>>
    BY <1>3, <1>4, <2>1
  <2> QED  BY <1>3, <1>4, <2>2, Stutters
<1>5. CASE f.i \notin DOMAIN f.old /\ frames' = << >> /\ Return(ret)
  <2>1. Pending(f) = {}
    BY <1>1, <1>2, <1>5 DEF Pending, Used
  <2>2. UNCHANGED <<OpenRequest, ret>>
    BY <1>3, <1>5 DEF OpenRequest, Return
  <2>3. ASSUME NEW t \in Text, NEW v \in Val
        PROVE  Bound(payload', frames', t, v) <=> Bound(payload, frames, t, v)
    BY <1>1, <1>3, <1>5, <2>1 DEF Bound
  <2> QED  BY <2>2, <2>3, Stutters
<1>6. CASE /\ f.i \in DOMAIN f.old /\ f.old[f.i].key = NULL
           /\ frames' = [frames EXCEPT ![1].i = @ + 1] /\ UNCHANGED ret
  <2> DEFINE g == [old |-> f.old, i |-> f.i + 1]
  <2>1. frames' = <<g>>
    BY <1>1, <1>6, FrameStep
  <2>2. g.old = f.old /\ g.i = f.i + 1
    OBVIOUS
  <2> HIDE DEF g
  <2>3. frames'[1] = g /\ frames' # << >>
    BY <2>1, OneFrame, Zenon
  <2>4. Pending(g) = Pending(f)
    <3>1. \A m \in 0..(n - 1) : m # f.i => (m >= f.i <=> m >= g.i)
      BY <1>1, <2>2
    <3> QED  BY <1>2, <1>6, <2>2, <3>1 DEF Pending, Used
  <2>5. ASSUME NEW t \in Text, NEW v \in Val
        PROVE  Bound(payload', frames', t, v) <=> Bound(payload, frames, t, v)
    BY <1>1, <1>3, <2>2, <2>3, <2>4 DEF Bound
  <2>6. UNCHANGED <<OpenRequest, ret>>
    BY <1>3, <1>6, <2>3 DEF OpenRequest
  <2> QED  BY <2>5, <2>6, Stutters
<1> QED  BY <1>1, <1>4, <1>5, <1>6 DEF Rehash

LEMMA RehashReleaseMap ==
  ASSUME TableInv, CallOK, MapIsBound, MapIsBound', RehashRelease
  PROVE  UNCHANGED Map!vars
<1> DEFINE f == frames[1]
           n == capacity \div 2
           g == [old |-> f.old, i |-> f.i + 1]
<1>1. pc = "release" /\ frames # << >> /\ UNCHANGED <<payload, ret>>
  BY DEF RehashRelease, TableInv, FramesOK, table
<1>2. /\ n \in Nat \ {0} /\ f.i \in 0..n /\ frames = <<f>> /\ SlotsOK(f.old, n, kind)
      /\ f = [old |-> f.old, i |-> f.i] /\ RehashOK(f, n)
  BY <1>1, InRehash
<1>3. frames' = <<g>>
  BY <1>2, FrameStep DEF RehashRelease
<1>4. g.old = f.old /\ g.i = f.i + 1
  OBVIOUS
<1> HIDE DEF g
<1>5. frames'[1] = g /\ frames' # << >>
  BY <1>3, OneFrame, Zenon
<1>6. Pending(g) = Pending(f) \ {f.i}
  <2>1. \A m \in 0..(n - 1) : m >= g.i <=> (m >= f.i /\ m # f.i)
    BY <1>2, <1>4
  <2>2. DOMAIN f.old = 0..(n - 1)
    BY <1>2 DEF SlotsOK
  <2> QED  BY <1>4, <2>1, <2>2 DEF Pending, Used
<1>7. PICK j \in Used(payload) : payload[j] = f.old[f.i]
  BY <1>1, <1>2 DEF RehashOK
<1>8. ASSUME NEW t \in Text, NEW v \in Val
      PROVE  Bound(payload', frames', t, v) <=> Bound(payload, frames, t, v)
  <2>1. Bound(payload', frames', t, v)
          <=> \/ \E i \in Used(payload) : Content[payload[i].key] = t /\ payload[i].val = v
              \/ \E m \in Pending(f) \ {f.i} :
                   Content[f.old[m].key] = t /\ f.old[m].val = v
    BY <1>1, <1>4, <1>5, <1>6 DEF Bound
  <2>2. Bound(payload, frames, t, v)
          <=> \/ \E i \in Used(payload) : Content[payload[i].key] = t /\ payload[i].val = v
              \/ \E m \in Pending(f) : Content[f.old[m].key] = t /\ f.old[m].val = v
    BY <1>1 DEF Bound
  <2> QED  BY <1>7, <2>1, <2>2
<1>9. UNCHANGED <<OpenRequest, ret>>
  BY <1>1, <1>5 DEF OpenRequest
<1> QED  BY <1>8, <1>9, Stutters

LEMMA ResetMap ==
  ASSUME TableInv, TableInv', Delete
  PROVE  Map!Next
<1>1. /\ Used(payload') = {} /\ frames' = << >>
      /\ OpenRequest = NULL /\ OpenRequest' = NULL /\ ret' = ret
  BY HashtabAssumption, NewTable DEF Delete, OpenRequest, TableInv, FramesOK
<1>2. MapOf' = Map!Empty
  BY <1>1, MapOfNothingNext DEF Map!Empty
<1> QED  BY <1>1, <1>2 DEF Map!Next, Map!Reset

LEMMA CreateMap ==
  ASSUME TableInv, TableInv', NEW kd, Create(kd)
  PROVE  UNCHANGED Map!vars
<1>1. /\ Used(payload) = {} /\ Used(payload') = {} /\ frames = << >> /\ frames' = << >>
      /\ OpenRequest = NULL /\ OpenRequest' = NULL /\ ret' = ret
  BY HashtabAssumption, NewTable DEF Create, OpenRequest, TableInv, FramesOK
<1>2. MapOf = Map!Empty /\ MapOf' = Map!Empty
  BY <1>1, MapOfNothing, MapOfNothingNext DEF Map!Empty
<1> QED  BY <1>1, <1>2 DEF Map!vars

LEMMA MapStep ==
  TableInv /\ CallOK /\ UpsertOK /\ TableInv' /\ [Next]_vars => [Map!Next]_(Map!vars)
<1> SUFFICES ASSUME TableInv, CallOK, UpsertOK, TableInv', [Next]_vars
             PROVE  Map!Next \/ UNCHANGED Map!vars
  OBVIOUS
<1>1. MapIsBound /\ MapIsBound'
  BY MapValues, MapValuesNext
<1>2. ASSUME NEW kd, Create(kd)
      PROVE  UNCHANGED Map!vars
  BY <1>2, CreateMap
<1>3. ASSUME UNCHANGED <<payload, frames, pc, call, ret>>
      PROVE  UNCHANGED Map!vars
  <2>1. UNCHANGED <<OpenRequest, ret>>
    BY <1>3 DEF OpenRequest
  <2> QED  BY <1>1, <1>3, <2>1, Stutters
<1>4. ASSUME NEW r, Drop(r)
      PROVE  UNCHANGED Map!vars
  BY <1>3, <1>4 DEF Drop, table
<1>5. ASSUME NEW k \in Keys,
             \/ \E v \in Vals : FacetAdd(k, v) \/ DictionaryAdd(k, v)
             \/ DictionaryFind(k)
      PROVE  Map!Next
  <2>1. PICK o \in {"add", "upsert", "find"}, v \in Val \cup {NULL} : Begin(o, k, v)
    BY <1>5, HashtabAssumption DEF FacetAdd, DictionaryAdd, DictionaryFind
  <2>2. k \in Ref
    BY HashtabAssumption
  <2> QED  BY <1>1, <2>1, <2>2, BeginMap
<1>6. CASE Step
  BY <1>1, <1>6, FindProbeMap, InsertMap, AddProbeMap, RehashMap, RehashReleaseMap DEF Step
<1>7. CASE Delete
  BY <1>7, ResetMap
<1>8. CASE UNCHANGED vars
  BY <1>3, <1>8 DEF vars
<1> QED  BY <1>2, <1>4, <1>5, <1>6, <1>7, <1>8 DEF Next

\* The dictionaries of cqlrt_common.c are maps to their callers: no collision,
\* wrapping or growth loses, duplicates or changes an entry, and every call
\* returns what the map says.
THEOREM HashtabIsMap == Spec => ImplementsDictionary
<1>1. Init => Map!Init
  BY InitMap
<1>2. IInv /\ IInv' /\ [Next]_vars => [Map!Next]_(Map!vars)
  BY MapStep DEF IInv
<1> QED  BY <1>1, <1>2, HashtabInvariant, PTL DEF Spec, ImplementsDictionary, Map!Spec
=============================================================================
