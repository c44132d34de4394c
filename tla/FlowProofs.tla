----------------------------- MODULE FlowProofs -----------------------------
(***************************************************************************)
(* Proofs about Flow, for every set of types and every bound.              *)
(*                                                                         *)
(* The inductive invariant is local to each open context: what its history *)
(* says of the flags it started from (entry) and of those it sees now      *)
(* (ValueAt), and, for a branch group, how the sums over its branches      *)
(* account for the flags at the end of each branch it counts.              *)
(***************************************************************************)
EXTENDS Flow, TLAPS

\* The callers never un-set a flag in the condition of a branch, and no branch
\* always jumps once its group holds improvements of its own.
Disciplined ==
  /\ "unset_in_condition" \notin CallersMay
  /\ "jump_after_negative" \notin CallersMay

\* The history of c accounts for the flags v that c sees now.
HistoryOK(c, v) ==
  \A t \in Types :
    /\ c.sum[t] = Value(v[t]) - Value(c.entry[t])
    /\ c.oldest[t] = 1 => ~c.entry[t]
    /\ c.oldest[t] = -1 => c.entry[t]
    /\ c.oldest[t] = 0 => v[t] = c.entry[t] /\ t \notin c.sets
    /\ v[t] /\ ~c.entry[t] => t \in c.sets

\* The history of c holds improvements only.
OnlyImproves(c, v) ==
  \A t \in Types : c.entry[t] => v[t] /\ t \notin c.sets

\* Context i lies in a condition: in a group, outside its branches.
InCond(s, i) ==
  \E g \in 1..(i - 1) : s.stack[g].kind = "group" /\ s.stack[g + 1].kind # "branch"

BranchOpenAt(s, i) == i < Depth(s) /\ s.stack[i + 1].kind = "branch"

\* What the branches that group c counts have contributed: the branch that is
\* open, if any, has so far contributed a copy of the group's own history.
Settled(c, open, t) == c.bsum[t] - (IF open THEN c.sum[t] ELSE 0)
SettledCount(c, open) == c.count - (IF open THEN 1 ELSE 0)

GroupOK(c, open) ==
  /\ SettledCount(c, open) >= 0
  /\ \A t \in Types :
       LET n == Settled(c, open, t)
           m == SettledCount(c, open)
       IN /\ c.entry[t] => -m <= n /\ n <= 0
          /\ ~c.entry[t] => 0 <= n /\ n <= m
          /\ (\E o \in c.outs : ~o[t]) => (IF c.entry[t] THEN n < 0 ELSE n < m)
          /\ t \notin c.bseen => c.bsum[t] = 0
          /\ t \in c.bseen => m > 0 \/ (open /\ c.oldest[t] # 0)

BranchAt(s, i) ==
  s.stack[i].kind = "branch" =>
    /\ i > 1 /\ s.stack[i - 1].kind = "group"
    /\ s.stack[i].jumps => Mentioned(s.stack[i - 1]) = {}

GroupAt(s, i) ==
  s.stack[i].kind = "group" =>
    OnlyImproves(s.stack[i], ValueAt(s, i)) /\ GroupOK(s.stack[i], BranchOpenAt(s, i))

\* No flag that was set on entry is un-set while context i is open.
CondAt(s, i) ==
  InCond(s, i) =>
    LET c == s.stack[i]
    IN /\ OnlyImproves(c, ValueAt(s, i))
       /\ \A t \in Types : c.entry[t] =>
            /\ t \notin c.unsets
            /\ c.kind = "group" => Settled(c, BranchOpenAt(s, i), t) = 0
            /\ s.flag[t]
            /\ \A k \in i..Depth(s) : s.stack[k].entry[t]

StackAt(s, i) ==
  /\ HistoryOK(s.stack[i], ValueAt(s, i)) /\ BranchAt(s, i) /\ CondAt(s, i)
  /\ i < Depth(s) => GroupAt(s, i)

StackOK(s) == \A i \in 1..Depth(s) : StackAt(s, i)

Innermost(s, j, n) ==
  /\ j \in 0..n
  /\ j # 0 => s.stack[j].kind = "jump"
  /\ \A k \in (j + 1)..n : s.stack[k].kind # "jump"

JumpsOK(s) ==
  /\ Innermost(s, s.topJump, Depth(s))
  /\ \A i \in 1..Depth(s) :
       s.stack[i].kind = "jump" => Innermost(s, s.stack[i].nearest, i - 1)

\* What was un-set while a jump context was the innermost one is either noted in
\* it or was recorded in its own history.
UndoneOK(s) ==
  \A i \in 1..Depth(s) : s.stack[i].kind = "jump" =>
    \A t \in Types :
      t \in s.stack[i].undone \ s.stack[i].unsets /\ ValueAt(s, i)[t]
        => t \in s.stack[i].sets

\* The invariant, but for the top context when that is a group: while a group is
\* popped it merges its branches, and only then its history is to be accounted.
ClosingInv(s) ==
  /\ s \in States
  /\ ~s.aborted
  /\ StackOK(s)
  /\ JumpsOK(s)
  /\ UndoneOK(s)

FlowInv(s) == ClosingInv(s) /\ (Depth(s) > 0 => GroupAt(s, Depth(s)))

IInv == FlowInv(fs)
-----------------------------------------------------------------------------
(* Histories. *)

\* The fields of a context that are not its history.
SameButHistory(c, d) ==
  /\ c.kind = d.kind /\ c.bsum = d.bsum /\ c.bseen = d.bseen /\ c.count = d.count
  /\ c.covers = d.covers /\ c.jumps = d.jumps /\ c.nearest = d.nearest
  /\ c.unsets = d.unsets /\ c.entry = d.entry /\ c.outs = d.outs /\ c.undone = d.undone

\* Recording leaves a context a context and changes its history only.
LEMMA RecordType ==
  ASSUME NEW c \in Contexts, NEW T \in SUBSET Types, NEW delta \in {-1, 1}
  PROVE  /\ Record(c, T, delta) \in Contexts
         /\ SameButHistory(Record(c, T, delta), c)
<1> DEFINE r == Record(c, T, delta)
<1>1. r = [c EXCEPT !.sum = r.sum, !.sets = r.sets, !.oldest = r.oldest]
  BY DEF Record, Contexts
<1>2. r.sum \in [Types -> Int]
  BY DEF Record, Contexts
<1>3. r.sets \in SUBSET Types
  BY DEF Record, Contexts
<1>4. r.oldest \in [Types -> Deltas]
  BY DEF Record, Contexts, Deltas
<1>5. SameButHistory(r, c)
  BY DEF Record, Contexts, SameButHistory
<1> HIDE DEF r
<1>6. r \in Contexts
  BY <1>1, <1>2, <1>3, <1>4, <1>5 DEF Contexts, SameButHistory
<1> QED  BY <1>5, <1>6 DEF r

\* Recording the SET of flags that are unset keeps the history accounting.
LEMMA RecordSet ==
  ASSUME NEW c \in Contexts, NEW v \in Flags, NEW T \in SUBSET Types,
         NEW w \in Flags, HistoryOK(c, v),
         \A t \in T : ~v[t], \A t \in Types : w[t] <=> t \in T \/ v[t]
  PROVE  HistoryOK(Record(c, T, 1), w)
<1> DEFINE r == Record(c, T, 1)
<1> SUFFICES ASSUME NEW t \in Types
             PROVE  /\ r.sum[t] = Value(w[t]) - Value(c.entry[t])
                    /\ r.oldest[t] = 1 => ~c.entry[t]
                    /\ r.oldest[t] = -1 => c.entry[t]
                    /\ r.oldest[t] = 0 => w[t] = c.entry[t] /\ t \notin r.sets
                    /\ w[t] /\ ~c.entry[t] => t \in r.sets
  BY RecordType DEF HistoryOK, SameButHistory
<1>1. /\ r.sum[t] = IF t \in T THEN c.sum[t] + 1 ELSE c.sum[t]
      /\ t \in r.sets <=> t \in c.sets \/ t \in T
      /\ r.oldest[t] = IF t \in T /\ c.oldest[t] = 0 THEN 1 ELSE c.oldest[t]
  BY DEF Record, Contexts
<1>2. /\ c.sum[t] \in Int /\ c.oldest[t] \in {-1, 0, 1}
      /\ v[t] \in BOOLEAN /\ w[t] \in BOOLEAN /\ c.entry[t] \in BOOLEAN
  BY DEF Contexts, Flags, Deltas
<1> QED  BY <1>1, <1>2 DEF HistoryOK, Value

\* Recording the UNSET of flags that are set keeps the history accounting.
LEMMA RecordUnset ==
  ASSUME NEW c \in Contexts, NEW v \in Flags, NEW T \in SUBSET Types,
         NEW w \in Flags, HistoryOK(c, v),
         \A t \in T : v[t], \A t \in Types : w[t] <=> v[t] /\ t \notin T
  PROVE  HistoryOK(Record(c, T, -1), w)
<1> DEFINE r == Record(c, T, -1)
<1> SUFFICES ASSUME NEW t \in Types
             PROVE  /\ r.sum[t] = Value(w[t]) - Value(c.entry[t])
                    /\ r.oldest[t] = 1 => ~c.entry[t]
                    /\ r.oldest[t] = -1 => c.entry[t]
                    /\ r.oldest[t] = 0 => w[t] = c.entry[t] /\ t \notin r.sets
                    /\ w[t] /\ ~c.entry[t] => t \in r.sets
  BY RecordType DEF HistoryOK, SameButHistory
<1>1. /\ r.sum[t] = IF t \in T THEN c.sum[t] - 1 ELSE c.sum[t]
      /\ r.sets = c.sets
      /\ r.oldest[t] = IF t \in T /\ c.oldest[t] = 0 THEN -1 ELSE c.oldest[t]
  BY DEF Record, Contexts
<1>2. /\ c.sum[t] \in Int /\ c.oldest[t] \in {-1, 0, 1}
      /\ v[t] \in BOOLEAN /\ w[t] \in BOOLEAN /\ c.entry[t] \in BOOLEAN
  BY DEF Contexts, Flags, Deltas
<1> QED  BY <1>1, <1>2 DEF HistoryOK, Value

\* A child's history moved to its parent accounts for what the child left.
LEMMA AppendBoth ==
  ASSUME NEW c \in Contexts, NEW p \in Contexts, NEW v \in Flags,
         HistoryOK(c, v), HistoryOK(p, c.entry)
  PROVE  /\ AppendHistory(c, p) \in Contexts
         /\ SameButHistory(AppendHistory(c, p), p)
         /\ HistoryOK(AppendHistory(c, p), v)
         /\ DeltaSumsInRange(AppendHistory(c, p))
<1> DEFINE r == AppendHistory(c, p)
<1>1. r \in Contexts /\ SameButHistory(r, p)
  <2>1. r = [p EXCEPT !.sum = r.sum, !.sets = r.sets, !.oldest = r.oldest]
    BY DEF AppendHistory, Contexts
  <2>2. r.sum \in [Types -> Int]
    BY DEF AppendHistory, Contexts
  <2>3. r.sets \in SUBSET Types
    BY DEF AppendHistory, Contexts
  <2>4. r.oldest \in [Types -> Deltas]
    BY DEF AppendHistory, Contexts, Deltas
  <2>5. SameButHistory(r, p)
    BY DEF AppendHistory, Contexts, SameButHistory
  <2> HIDE DEF r
  <2> QED  BY <2>1, <2>2, <2>3, <2>4, <2>5 DEF Contexts, SameButHistory
<1>2. HistoryOK(AppendHistory(c, p), v)
  BY DEF HistoryOK, AppendHistory, Contexts, Flags, Value, Deltas
<1>3. DeltaSumsInRange(AppendHistory(c, p))
  BY <1>1, <1>2 DEF HistoryOK, DeltaSumsInRange, Deltas, Value
<1> QED  BY <1>1, <1>2, <1>3
-----------------------------------------------------------------------------
(* States. *)

\* The fields of a context other than unsets and undone.
SameButUnsets(c, d) ==
  /\ c.kind = d.kind /\ c.bsum = d.bsum /\ c.bseen = d.bseen /\ c.count = d.count
  /\ c.covers = d.covers /\ c.jumps = d.jumps /\ c.nearest = d.nearest
  /\ c.sum = d.sum /\ c.sets = d.sets /\ c.oldest = d.oldest
  /\ c.entry = d.entry /\ c.outs = d.outs

\* The fields of a state.
LEMMA StateFields ==
  ASSUME NEW s \in States
  PROVE  /\ s.flag \in Flags /\ s.topJump \in Nat /\ s.aborted \in BOOLEAN
         /\ s.stack \in Seq(Contexts) /\ Depth(s) \in Nat
         /\ \A i \in 1..Depth(s) : s.stack[i] \in Contexts
         /\ DOMAIN s.stack = 1..Depth(s)
BY DEF States, Depth

\* A function on 1..n is a sequence.
LEMMA IsASeq ==
  ASSUME NEW S, NEW n \in Nat, NEW q \in [1..n -> S]
  PROVE  q \in Seq(S) /\ Len(q) = n
OBVIOUS

\* Replacing the top context.
LEMMA SetTopShape ==
  ASSUME NEW s \in States, Depth(s) > 0, NEW c \in Contexts
  PROVE  LET u == SetTop(s, c) IN
         /\ u \in States /\ Depth(u) = Depth(s)
         /\ u.flag = s.flag /\ u.topJump = s.topJump /\ u.aborted = s.aborted
         /\ \A i \in 1..Depth(s) : u.stack[i] = IF i = Depth(s) THEN c ELSE s.stack[i]
<1>1. SetTop(s, c) = [s EXCEPT !.stack = [s.stack EXCEPT ![Len(s.stack)] = c]]
  BY DEF SetTop, Depth, States
<1>2. [s.stack EXCEPT ![Len(s.stack)] = c] \in Seq(Contexts)
  BY StateFields DEF Depth
<1> QED  BY <1>1, <1>2 DEF States, Depth

\* What NoteInJump changes of a context.
LEMMA NoteShape ==
  ASSUME NEW s \in States, NEW i \in 1..Depth(s), NEW T \in SUBSET Types
  PROVE  LET c == s.stack[i]
             d == NoteInJump(s, i, T)
         IN /\ d \in Contexts /\ SameButUnsets(d, c)
            /\ d.unsets = IF i = s.topJump /\ i # Depth(s) THEN c.unsets \cup T ELSE c.unsets
            /\ d.undone = IF i = s.topJump THEN c.undone \cup T ELSE c.undone
<1> DEFINE c == s.stack[i]
           d == NoteInJump(s, i, T)
<1>0. c \in Contexts
  BY StateFields
<1>1. d = [c EXCEPT !.unsets = d.unsets, !.undone = d.undone]
  BY <1>0 DEF NoteInJump, Contexts
<1>2. /\ d.unsets = IF i = s.topJump /\ i # Depth(s) THEN c.unsets \cup T ELSE c.unsets
      /\ d.undone = IF i = s.topJump THEN c.undone \cup T ELSE c.undone
  BY <1>0 DEF NoteInJump, Contexts
<1>3. d.unsets \in SUBSET Types /\ d.undone \in SUBSET Types
  BY <1>0, <1>2 DEF Contexts
<1> HIDE DEF c, d
<1>4. d \in Contexts /\ SameButUnsets(d, c)
  BY <1>0, <1>1, <1>3 DEF Contexts, SameButUnsets
<1> QED  BY <1>2, <1>4 DEF c, d

\* u is s with the flags in T un-set.
UnsetResult(s, u, T) ==
  /\ u \in States /\ Depth(u) = Depth(s)
  /\ u.topJump = s.topJump /\ u.aborted = s.aborted
  /\ \A t \in Types : u.flag[t] <=> s.flag[t] /\ t \notin T
  /\ SameButUnsets(u.stack[Depth(s)], Record(s.stack[Depth(s)], T, -1))
  /\ \A i \in 1..(Depth(s) - 1) : SameButUnsets(u.stack[i], s.stack[i])
  /\ \A i \in 1..Depth(s) :
       /\ u.stack[i].unsets = IF i = s.topJump /\ i # Depth(s)
                              THEN s.stack[i].unsets \cup T ELSE s.stack[i].unsets
       /\ u.stack[i].undone = IF i = s.topJump
                              THEN s.stack[i].undone \cup T ELSE s.stack[i].undone

\* What un-setting flags does to the flags and to every open context.
LEMMA UnsetShape ==
  ASSUME NEW s \in States, Depth(s) > 0, NEW T \in SUBSET Types
  PROVE  UnsetResult(s, UnsetFlags(s, T), T)
<1> DEFINE r == SetTop(s, Record(Top(s), T, -1))
           f == [t \in Types |-> s.flag[t] /\ t \notin T]
           q == [i \in 1..Depth(s) |-> NoteInJump(r, i, T)]
           u == UnsetFlags(s, T)
<1>1. Top(s) \in Contexts /\ Record(Top(s), T, -1) \in Contexts
      /\ SameButHistory(Record(Top(s), T, -1), Top(s))
  BY RecordType, StateFields DEF Top
<1>2. /\ r \in States /\ Depth(r) = Depth(s)
      /\ r.flag = s.flag /\ r.topJump = s.topJump /\ r.aborted = s.aborted
      /\ \A i \in 1..Depth(s) :
           r.stack[i] = IF i = Depth(s) THEN Record(Top(s), T, -1) ELSE s.stack[i]
  BY <1>1, SetTopShape
<1>3. u = [r EXCEPT !.flag = f, !.stack = q]
  BY DEF UnsetFlags
<1> HIDE DEF r
<1>4. q \in Seq(Contexts) /\ Len(q) = Depth(s)
  <2>1. q \in [1..Depth(s) -> Contexts]
    BY <1>2, NoteShape
  <2>2. Depth(s) \in Nat
    BY StateFields
  <2> QED  BY <2>1, <2>2, IsASeq
<1>5. f \in Flags
  BY StateFields DEF Flags
<1> HIDE DEF f, q
<1>6. /\ u \in States /\ Depth(u) = Depth(s)
      /\ u.topJump = s.topJump /\ u.aborted = s.aborted
      /\ u.flag = f /\ u.stack = q
  BY <1>2, <1>3, <1>4, <1>5 DEF States, Depth
<1> HIDE DEF u
<1>7. ASSUME NEW i \in 1..Depth(s)
      PROVE  /\ SameButUnsets(q[i], r.stack[i])
             /\ q[i].unsets = IF i = s.topJump /\ i # Depth(s)
                              THEN r.stack[i].unsets \cup T ELSE r.stack[i].unsets
             /\ q[i].undone = IF i = s.topJump
                              THEN r.stack[i].undone \cup T ELSE r.stack[i].undone
  <2>1. q[i] = NoteInJump(r, i, T)
    BY DEF q
  <2>2. r \in States /\ i \in 1..Depth(r) /\ r.topJump = s.topJump /\ Depth(r) = Depth(s)
    BY <1>2
  <2> HIDE DEF q
  <2> DEFINE p == NoteInJump(r, i, T)
  <2>3. /\ SameButUnsets(p, r.stack[i])
        /\ p.unsets = IF i = r.topJump /\ i # Depth(r)
                      THEN r.stack[i].unsets \cup T ELSE r.stack[i].unsets
        /\ p.undone = IF i = r.topJump
                      THEN r.stack[i].undone \cup T ELSE r.stack[i].undone
    BY <2>2, NoteShape
  <2> HIDE DEF p
  <2>4. q[i] = p
    BY <2>1 DEF p
  <2> QED  BY <2>2, <2>3, <2>4
<1>8. ASSUME NEW i \in 1..Depth(s)
      PROVE  /\ r.stack[i].kind = s.stack[i].kind /\ r.stack[i].unsets = s.stack[i].unsets
             /\ r.stack[i].undone = s.stack[i].undone
  BY <1>1, <1>2 DEF SameButHistory, Top
<1>9. \A t \in Types : f[t] <=> s.flag[t] /\ t \notin T
  BY DEF f
<1>10. Depth(s) \in Nat
  BY StateFields
<1>11. SameButUnsets(q[Depth(s)], Record(s.stack[Depth(s)], T, -1))
  <2>1. Depth(s) \in 1..Depth(s)
    BY <1>10
  <2>2. r.stack[Depth(s)] = Record(s.stack[Depth(s)], T, -1)
    BY <1>2, <2>1 DEF Top
  <2> QED  BY <1>7, <2>1, <2>2
<1>12. ASSUME NEW i \in 1..(Depth(s) - 1)
       PROVE  SameButUnsets(q[i], s.stack[i])
  <2>1. i \in 1..Depth(s) /\ i # Depth(s)
    BY <1>10
  <2>2. r.stack[i] = s.stack[i]
    BY <1>2, <2>1
  <2> QED  BY <1>7, <2>1, <2>2
<1> QED  BY <1>6, <1>7, <1>8, <1>9, <1>11, <1>12 DEF u, UnsetResult

\* Accounting for the branches does not depend on unsets and undone.
LEMMA SameGroup ==
  ASSUME NEW c, NEW d, NEW open, SameButUnsets(d, c), GroupOK(c, open)
  PROVE  GroupOK(d, open)
<1>1. \A t : Settled(d, open, t) = Settled(c, open, t)
  BY DEF Settled, SameButUnsets
<1>2. SettledCount(d, open) = SettledCount(c, open)
  BY DEF SettledCount, SameButUnsets
<1> QED  BY <1>1, <1>2 DEF GroupOK, SameButUnsets

\* Contexts 1..m survive a step that changes only their unsets and undone, and
\* that keeps every flag a context in a condition started with.
LEMMA PrefixFrame ==
  ASSUME NEW s \in States, NEW w \in States, NEW m \in Nat,
         m < Depth(s), m < Depth(w),
         w.stack[m + 1].kind = s.stack[m + 1].kind,
         w.stack[m + 1].entry = s.stack[m + 1].entry,
         \A i \in 1..m : SameButUnsets(w.stack[i], s.stack[i]),
         \A i \in 1..m : StackAt(s, i),
         \A i \in 1..m : InCond(s, i) => \A t \in Types : s.stack[i].entry[t] =>
           /\ t \notin w.stack[i].unsets /\ w.flag[t]
           /\ \A k \in i..Depth(w) : w.stack[k].entry[t]
  PROVE  \A i \in 1..m : StackAt(w, i)
<1> SUFFICES ASSUME NEW i \in 1..m
             PROVE  StackAt(w, i)
  OBVIOUS
<1>0. Depth(s) \in Nat /\ Depth(w) \in Nat
  BY StateFields
<1>1. /\ ValueAt(w, i) = ValueAt(s, i)
      /\ BranchOpenAt(w, i) = BranchOpenAt(s, i)
  BY <1>0 DEF ValueAt, BranchOpenAt, SameButUnsets
<1>2. InCond(w, i) <=> InCond(s, i)
  BY <1>0 DEF InCond, SameButUnsets
<1>3. SameButUnsets(w.stack[i], s.stack[i]) /\ StackAt(s, i)
  OBVIOUS
<1>4. HistoryOK(w.stack[i], ValueAt(w, i))
  BY <1>1, <1>3 DEF StackAt, HistoryOK, SameButUnsets
<1>5. BranchAt(w, i)
  BY <1>3 DEF StackAt, BranchAt, SameButUnsets, Mentioned
<1>6. GroupAt(w, i)
  <2>1. GroupOK(s.stack[i], BranchOpenAt(s, i)) => GroupOK(w.stack[i], BranchOpenAt(s, i))
    BY <1>3, SameGroup
  <2>2. GroupAt(s, i)
    BY <1>0, <1>3 DEF StackAt
  <2> QED  BY <1>1, <1>3, <2>1, <2>2 DEF GroupAt, OnlyImproves, SameButUnsets
<1>7. CondAt(w, i)
  BY <1>1, <1>2, <1>3 DEF StackAt, CondAt, OnlyImproves, SameButUnsets, Settled
<1> QED  BY <1>4, <1>5, <1>6, <1>7 DEF StackAt
-----------------------------------------------------------------------------
(* Setting and un-setting flags. *)

\* What setting flags does to the flags and to the open contexts.
LEMMA SetShape ==
  ASSUME NEW s \in States, Depth(s) > 0, NEW T \in SUBSET Types
  PROVE  LET u == SetFlags(s, T)
         IN /\ u \in States /\ Depth(u) = Depth(s)
            /\ u.topJump = s.topJump /\ u.aborted = s.aborted
            /\ \A t \in Types : u.flag[t] <=> t \in T \/ s.flag[t]
            /\ \A i \in 1..Depth(s) :
                 u.stack[i] = IF i = Depth(s) THEN Record(s.stack[i], T, 1) ELSE s.stack[i]
<1> DEFINE r == SetTop(s, Record(Top(s), T, 1))
           f == [t \in Types |-> t \in T \/ s.flag[t]]
           u == SetFlags(s, T)
<1>1. Top(s) \in Contexts /\ Record(Top(s), T, 1) \in Contexts
  BY RecordType, StateFields DEF Top
<1>2. /\ r \in States /\ Depth(r) = Depth(s)
      /\ r.topJump = s.topJump /\ r.aborted = s.aborted
      /\ \A i \in 1..Depth(s) :
           r.stack[i] = IF i = Depth(s) THEN Record(Top(s), T, 1) ELSE s.stack[i]
  BY <1>1, SetTopShape
<1>3. u = [r EXCEPT !.flag = f]
  BY DEF SetFlags
<1>4. f \in Flags
  BY StateFields DEF Flags
<1>5. \A t \in Types : f[t] <=> t \in T \/ s.flag[t]
  OBVIOUS
<1> HIDE DEF r, f
<1>6. /\ u \in States /\ Depth(u) = Depth(s) /\ u.flag = f /\ u.stack = r.stack
      /\ u.topJump = s.topJump /\ u.aborted = s.aborted
  BY <1>2, <1>3, <1>4 DEF States, Depth
<1> HIDE DEF u
<1> QED  BY <1>2, <1>5, <1>6 DEF u, Top

\* What the invariant says of the top context, and of contexts in conditions.
LEMMA TopGroup ==
  ASSUME NEW s \in States, FlowInv(s), Depth(s) > 0, Top(s).kind = "group"
  PROVE  OnlyImproves(Top(s), s.flag) /\ GroupOK(Top(s), FALSE)
<1>1. GroupAt(s, Depth(s)) /\ BranchOpenAt(s, Depth(s)) = FALSE
      /\ ValueAt(s, Depth(s)) = s.flag
  BY StateFields DEF FlowInv, BranchOpenAt, ValueAt
<1>2. OnlyImproves(Top(s), ValueAt(s, Depth(s))) /\ GroupOK(Top(s), BranchOpenAt(s, Depth(s)))
  BY <1>1 DEF GroupAt, Top
<1> QED  BY <1>1, <1>2, Zenon

\* What the invariant says of a top context that lies in a condition.
LEMMA TopCond ==
  ASSUME NEW s \in States, StackOK(s), Depth(s) > 0, InCond(s, Depth(s))
  PROVE  /\ OnlyImproves(Top(s), s.flag)
         /\ \A t \in Types : Top(s).entry[t] /\ Top(s).kind = "group" => Top(s).bsum[t] = 0
<1>1. CondAt(s, Depth(s)) /\ BranchOpenAt(s, Depth(s)) = FALSE
      /\ ValueAt(s, Depth(s)) = s.flag /\ Top(s) \in Contexts
  BY StateFields DEF StackOK, StackAt, BranchOpenAt, ValueAt, Top
<1>2. OnlyImproves(Top(s), s.flag)
  BY <1>1 DEF CondAt, Top
<1>3. \A t \in Types : Top(s).entry[t] /\ Top(s).kind = "group"
         => Settled(Top(s), BranchOpenAt(s, Depth(s)), t) = 0
  BY <1>1 DEF CondAt, Top
<1> QED  BY <1>1, <1>2, <1>3 DEF Settled, Contexts

\* A flag that a context in a condition started with is still set, in every
\* context opened since.
LEMMA CondKeeps ==
  ASSUME NEW s \in States, StackOK(s), NEW i \in 1..Depth(s), InCond(s, i),
         NEW t \in Types, s.stack[i].entry[t]
  PROVE  /\ s.flag[t] /\ t \notin s.stack[i].unsets
         /\ \A k \in i..Depth(s) : s.stack[k].entry[t]
BY DEF StackOK, StackAt, CondAt

\* A step from s to w that leaves m contexts open, of which it changes the last
\* one, and unsets and undone of the others.
FrameOK(s, w, m) ==
  LET d == w.stack[m]
  IN /\ Depth(w) = m
     /\ Innermost(w, w.topJump, m)
     /\ \A i \in 1..m : /\ w.stack[i].kind = s.stack[i].kind
                        /\ w.stack[i].entry = s.stack[i].entry
                        /\ w.stack[i].nearest = s.stack[i].nearest
     /\ \A i \in 1..(m - 1) : SameButUnsets(w.stack[i], s.stack[i])
     /\ HistoryOK(d, w.flag)
     /\ d.kind = "branch" /\ d.jumps => Mentioned(s.stack[m - 1]) = {}
     /\ InCond(s, m) =>
          /\ OnlyImproves(d, w.flag)
          /\ \A t \in Types : d.entry[t] /\ d.kind = "group" => d.bsum[t] = 0
     /\ \A i \in 1..m : InCond(s, i) => \A t \in Types : s.stack[i].entry[t] =>
          w.flag[t] /\ t \notin w.stack[i].unsets

\* Such a step keeps the invariant of the stack.
LEMMA Frame ==
  ASSUME NEW s, ClosingInv(s), NEW w \in States, NEW m \in 1..Depth(s), FrameOK(s, w, m)
  PROVE  StackOK(w) /\ JumpsOK(w)
<1> DEFINE d == w.stack[m]
<1> USE DEF FrameOK
<1>0. /\ s \in States /\ Depth(s) \in Nat /\ m \in Nat /\ m > 0 /\ m - 1 \in Nat
      /\ m - 1 < Depth(s) /\ m - 1 < Depth(w) /\ (m - 1) + 1 = m
      /\ d \in Contexts
  BY StateFields DEF ClosingInv
<1>1. \A i \in 1..Depth(s) : StackAt(s, i)
  BY DEF ClosingInv, StackOK
<1>2. ValueAt(w, m) = w.flag /\ BranchOpenAt(w, m) = FALSE
  BY <1>0 DEF ValueAt, BranchOpenAt
<1>3. \A i \in 1..m : InCond(w, i) <=> InCond(s, i)
  BY <1>0 DEF InCond
<1>4. \A i \in 1..m : InCond(s, i) => \A t \in Types : s.stack[i].entry[t] =>
        \A k \in i..m : w.stack[k].entry[t]
  BY <1>0, CondKeeps DEF ClosingInv
<1>5. \A i \in 1..(m - 1) : StackAt(w, i)
  BY <1>0, <1>1, <1>4, PrefixFrame
<1>6. BranchAt(w, m)
  <2>1. ASSUME d.kind = "branch"
        PROVE  m > 1 /\ s.stack[m - 1].kind = "group"
    BY <1>0, <1>1, <2>1 DEF StackAt, BranchAt
  <2>2. m > 1 => Mentioned(w.stack[m - 1]) = Mentioned(s.stack[m - 1])
                 /\ w.stack[m - 1].kind = s.stack[m - 1].kind
    BY <1>0 DEF Mentioned, SameButUnsets
  <2> QED  BY <2>1, <2>2 DEF BranchAt
<1>7. CondAt(w, m)
  <2>1. SUFFICES ASSUME InCond(w, m), NEW t \in Types, d.entry[t]
                 PROVE  /\ OnlyImproves(d, ValueAt(w, m))
                        /\ t \notin d.unsets
                        /\ d.kind = "group" => Settled(d, BranchOpenAt(w, m), t) = 0
                        /\ w.flag[t]
                        /\ \A k \in m..Depth(w) : w.stack[k].entry[t]
    <3>1. InCond(w, m) => OnlyImproves(d, ValueAt(w, m))
      BY <1>0, <1>2, <1>3
    <3> QED  BY <3>1 DEF CondAt
  <2>2. OnlyImproves(d, ValueAt(w, m))
    BY <1>0, <1>2, <1>3, <2>1
  <2>3. d.kind = "group" => Settled(d, BranchOpenAt(w, m), t) = 0
    BY <1>0, <1>2, <1>3, <2>1 DEF Settled, Contexts
  <2>4. t \notin d.unsets /\ w.flag[t]
    BY <1>0, <1>3, <2>1
  <2>5. \A k \in m..Depth(w) : w.stack[k].entry[t]
    BY <1>0, <2>1
  <2> QED  BY <2>2, <2>3, <2>4, <2>5
<1>8. StackOK(w)
  BY <1>0, <1>2, <1>5, <1>6, <1>7 DEF StackOK, StackAt
<1>9. JumpsOK(w)
  <2>1. ASSUME NEW i \in 1..m, w.stack[i].kind = "jump"
        PROVE  Innermost(w, w.stack[i].nearest, i - 1)
    <3>1. Innermost(s, s.stack[i].nearest, i - 1)
      BY <1>0, <2>1 DEF ClosingInv, JumpsOK
    <3>2. \A k \in 1..(i - 1) : k \in 1..m
      BY <1>0
    <3> QED  BY <1>0, <3>1, <3>2 DEF Innermost
  <2> QED  BY <2>1 DEF JumpsOK
<1> QED  BY <1>8, <1>9

\* The top group is accounted for.
LEMMA TopGroupAt ==
  ASSUME NEW w \in States, Depth(w) > 0,
         Top(w).kind = "group" => OnlyImproves(Top(w), w.flag) /\ GroupOK(Top(w), FALSE)
  PROVE  GroupAt(w, Depth(w))
<1>1. ValueAt(w, Depth(w)) = w.flag /\ BranchOpenAt(w, Depth(w)) = FALSE
  BY StateFields DEF ValueAt, BranchOpenAt
<1>2. SUFFICES ASSUME Top(w).kind = "group"
               PROVE  OnlyImproves(Top(w), ValueAt(w, Depth(w)))
                      /\ GroupOK(Top(w), BranchOpenAt(w, Depth(w)))
  BY DEF GroupAt, Top
<1> QED  BY <1>1, <1>2, Zenon

\* Setting flags that are unset keeps the invariant.
LEMMA SetInv ==
  ASSUME NEW s, ClosingInv(s), Depth(s) > 0, NEW T \in SUBSET Types,
         \A t \in T : ~s.flag[t]
  PROVE  /\ ClosingInv(SetFlags(s, T))
         /\ FlowInv(s) => FlowInv(SetFlags(s, T))
<1> DEFINE u == SetFlags(s, T)
           n == Depth(s)
           c == s.stack[n]
           d == u.stack[n]
<1>0. s \in States /\ n \in Nat /\ c \in Contexts /\ s.flag \in Flags /\ n \in 1..n
  BY StateFields DEF ClosingInv
<1>1. /\ u \in States /\ Depth(u) = n
      /\ u.topJump = s.topJump /\ u.aborted = s.aborted
      /\ \A t \in Types : u.flag[t] <=> t \in T \/ s.flag[t]
      /\ \A i \in 1..n : u.stack[i] = IF i = n THEN Record(s.stack[i], T, 1) ELSE s.stack[i]
  BY <1>0, SetShape
<1> HIDE DEF u
<1>2. SameButHistory(d, c) /\ d = Record(c, T, 1) /\ d.sets = c.sets \cup T
  <2>1. d = Record(c, T, 1)
    BY <1>0, <1>1
  <2>2. SameButHistory(d, c)
    BY <1>0, <2>1, RecordType
  <2>3. d.sets = c.sets \cup T
    BY <1>0, <2>1 DEF Record, Contexts
  <2> QED  BY <2>1, <2>2, <2>3
<1>3. u.flag \in Flags
  BY <1>1, StateFields
<1>4. StackAt(s, n) /\ ValueAt(s, n) = s.flag /\ BranchOpenAt(s, n) = FALSE
  BY <1>0 DEF ClosingInv, StackOK, ValueAt, BranchOpenAt
<1>5. \A i \in 1..n : /\ u.stack[i].kind = s.stack[i].kind
                      /\ u.stack[i].entry = s.stack[i].entry
                      /\ u.stack[i].nearest = s.stack[i].nearest
                      /\ u.stack[i].unsets = s.stack[i].unsets
  BY <1>1, <1>2 DEF SameButHistory
<1>6. HistoryOK(d, u.flag)
  BY <1>0, <1>1, <1>2, <1>3, <1>4, RecordSet DEF StackAt
<1>7. OnlyImproves(c, s.flag) => OnlyImproves(d, u.flag)
  BY <1>1, <1>2 DEF OnlyImproves, SameButHistory
<1>8. GroupOK(c, FALSE) => GroupOK(d, FALSE)
  BY <1>2 DEF GroupOK, Settled, SettledCount, SameButHistory
<1>9. StackOK(u) /\ JumpsOK(u)
  <2>1. \A i \in 1..(n - 1) : SameButUnsets(u.stack[i], s.stack[i])
    BY <1>0, <1>1 DEF SameButUnsets
  <2>2. d.kind = "branch" /\ d.jumps => Mentioned(s.stack[n - 1]) = {}
    BY <1>2, <1>4 DEF StackAt, BranchAt, SameButHistory
  <2>4. InCond(s, n) => /\ OnlyImproves(d, u.flag)
                        /\ \A t \in Types : d.entry[t] /\ d.kind = "group" => d.bsum[t] = 0
    BY <1>0, <1>2, <1>7, TopCond DEF SameButHistory, ClosingInv, Top
  <2>5. \A i \in 1..n : InCond(s, i) => \A t \in Types : s.stack[i].entry[t] =>
          u.flag[t] /\ t \notin u.stack[i].unsets
    BY <1>0, <1>1, <1>5, CondKeeps DEF ClosingInv
  <2>6. Innermost(u, u.topJump, n)
    BY <1>0, <1>1, <1>5 DEF ClosingInv, JumpsOK, Innermost
  <2>7. FrameOK(s, u, n)
    BY <1>1, <1>5, <1>6, <2>1, <2>2, <2>4, <2>5, <2>6 DEF FrameOK
  <2> QED  BY <1>0, <1>1, <2>7, Frame
<1>10. UndoneOK(u)
  <2> SUFFICES ASSUME NEW i \in 1..n, u.stack[i].kind = "jump"
               PROVE  \A t \in Types : t \in u.stack[i].undone \ u.stack[i].unsets
                        /\ ValueAt(u, i)[t] => t \in u.stack[i].sets
    BY <1>1 DEF UndoneOK
  <2>1. CASE i = n
    <3>1. ValueAt(u, n) = u.flag
      BY <1>1 DEF ValueAt
    <3> QED  BY <2>1, <1>0, <1>1, <1>2, <1>4, <3>1 DEF ClosingInv, UndoneOK, SameButHistory
  <2>2. CASE i # n
    <3>1. u.stack[i] = s.stack[i] /\ ValueAt(u, i) = ValueAt(s, i)
      BY <2>2, <1>0, <1>1, <1>5 DEF ValueAt
    <3> QED  BY <3>1 DEF ClosingInv, UndoneOK
  <2> QED  BY <2>1, <2>2
<1>11. ClosingInv(u)
  BY <1>1, <1>9, <1>10 DEF ClosingInv
<1>12. FlowInv(s) => FlowInv(u)
  <2>1. ASSUME FlowInv(s), Top(u).kind = "group"
        PROVE  OnlyImproves(Top(u), u.flag) /\ GroupOK(Top(u), FALSE)
    <3>1. Top(u) = d /\ Top(s) = c /\ c.kind = "group"
      BY <1>1, <1>2, <2>1 DEF Top, SameButHistory
    <3>2. OnlyImproves(c, s.flag) /\ GroupOK(c, FALSE)
      BY <1>0, <2>1, <3>1, TopGroup
    <3> QED  BY <1>7, <1>8, <3>1, <3>2
  <2> QED  BY <1>1, <1>11, <2>1, TopGroupAt DEF FlowInv
<1> QED  BY <1>11, <1>12 DEF u

\* Un-setting flags that are set keeps the invariant, unless it un-sets a flag
\* that a context in a condition started with; the same for the top group.
LEMMA UnsetInv ==
  ASSUME NEW s, ClosingInv(s), Depth(s) > 0, NEW T \in SUBSET Types,
         \A t \in T : s.flag[t],
         InCond(s, Depth(s)) => \A t \in T : ~Top(s).entry[t]
  PROVE  /\ ClosingInv(UnsetFlags(s, T))
         /\ FlowInv(s) /\ (Top(s).kind = "group" => \A t \in T : ~Top(s).entry[t])
              => FlowInv(UnsetFlags(s, T))
<1> DEFINE u == UnsetFlags(s, T)
           n == Depth(s)
           c == s.stack[n]
           d == u.stack[n]
           r == Record(c, T, -1)
<1>0. s \in States /\ n \in Nat /\ c \in Contexts /\ s.flag \in Flags /\ n \in 1..n
  BY StateFields DEF ClosingInv
<1>1. /\ u \in States /\ Depth(u) = n
      /\ u.topJump = s.topJump /\ u.aborted = s.aborted
      /\ \A t \in Types : u.flag[t] <=> s.flag[t] /\ t \notin T
      /\ SameButUnsets(d, r)
      /\ \A i \in 1..(n - 1) : SameButUnsets(u.stack[i], s.stack[i])
      /\ \A i \in 1..n :
           /\ u.stack[i].unsets = IF i = s.topJump /\ i # n
                                  THEN s.stack[i].unsets \cup T ELSE s.stack[i].unsets
           /\ u.stack[i].undone = IF i = s.topJump
                                  THEN s.stack[i].undone \cup T ELSE s.stack[i].undone
  <2>1. UnsetResult(s, u, T)
    BY <1>0, UnsetShape
  <2> HIDE DEF u
  <2> QED  BY <2>1 DEF UnsetResult
<1> HIDE DEF u
<1>2. /\ SameButUnsets(d, r) /\ SameButHistory(r, c) /\ r \in Contexts
      /\ d.unsets = c.unsets /\ r.sets = c.sets
  <2>1. SameButUnsets(d, r) /\ d.unsets = c.unsets
    BY <1>0, <1>1
  <2>2. SameButHistory(r, c) /\ r \in Contexts
    BY <1>0, RecordType
  <2>3. r.sets = c.sets
    BY <1>0 DEF Record, Contexts
  <2> QED  BY <2>1, <2>2, <2>3
<1>3. u.flag \in Flags
  BY <1>1, StateFields
<1>4. StackAt(s, n) /\ ValueAt(s, n) = s.flag /\ BranchOpenAt(s, n) = FALSE
  BY <1>0 DEF ClosingInv, StackOK, ValueAt, BranchOpenAt
<1>5. \A i \in 1..n : /\ u.stack[i].kind = s.stack[i].kind
                      /\ u.stack[i].entry = s.stack[i].entry
                      /\ u.stack[i].nearest = s.stack[i].nearest
  <2>1. /\ d.kind = c.kind /\ d.entry = c.entry /\ d.nearest = c.nearest
    BY <1>2 DEF SameButHistory, SameButUnsets
  <2>2. ASSUME NEW i \in 1..n, i # n
        PROVE  /\ u.stack[i].kind = s.stack[i].kind
               /\ u.stack[i].entry = s.stack[i].entry
               /\ u.stack[i].nearest = s.stack[i].nearest
    BY <1>0, <1>1, <2>2 DEF SameButUnsets
  <2> QED  BY <2>1, <2>2
<1>6. HistoryOK(d, u.flag)
  <2>1. HistoryOK(r, u.flag)
    BY <1>0, <1>1, <1>3, <1>4, RecordUnset DEF StackAt
  <2> QED  BY <1>2, <2>1 DEF HistoryOK, SameButUnsets
<1>7. OnlyImproves(c, s.flag) /\ (\A t \in T : ~c.entry[t]) => OnlyImproves(d, u.flag)
  BY <1>1, <1>2 DEF OnlyImproves, SameButHistory, SameButUnsets
<1>8. GroupOK(c, FALSE) => GroupOK(d, FALSE)
  <2>1. GroupOK(c, FALSE) => GroupOK(r, FALSE)
    BY <1>2 DEF GroupOK, Settled, SettledCount, SameButHistory
  <2> QED  BY <1>2, <2>1, SameGroup
<1>9. StackOK(u) /\ JumpsOK(u)
  <2>1. \A i \in 1..(n - 1) : SameButUnsets(u.stack[i], s.stack[i])
    BY <1>0, <1>1
  <2>2. d.kind = "branch" /\ d.jumps => Mentioned(s.stack[n - 1]) = {}
    BY <1>2, <1>4 DEF StackAt, BranchAt, SameButHistory, SameButUnsets
  <2>3. InCond(s, n) => /\ OnlyImproves(d, u.flag)
                        /\ \A t \in Types : d.entry[t] /\ d.kind = "group" => d.bsum[t] = 0
    BY <1>0, <1>2, <1>7, TopCond DEF SameButHistory, SameButUnsets, ClosingInv, Top
  <2>4. \A i \in 1..n : InCond(s, i) => InCond(s, n)
    BY <1>0 DEF InCond
  <2>5. ASSUME NEW i \in 1..n, InCond(s, i), NEW t \in Types, s.stack[i].entry[t]
        PROVE  u.flag[t] /\ t \notin u.stack[i].unsets
    <3>1. s.flag[t] /\ t \notin s.stack[i].unsets /\ c.entry[t]
      BY <1>0, <2>5, CondKeeps DEF ClosingInv
    <3>2. t \notin T
      BY <2>4, <2>5, <3>1 DEF Top
    <3> QED  BY <1>1, <3>1, <3>2
  <2>6. Innermost(u, u.topJump, n)
    BY <1>0, <1>1, <1>5 DEF ClosingInv, JumpsOK, Innermost
  <2>7. FrameOK(s, u, n)
    BY <1>1, <1>5, <1>6, <2>1, <2>2, <2>3, <2>5, <2>6 DEF FrameOK
  <2> QED  BY <1>0, <1>1, <2>7, Frame
<1>10. UndoneOK(u)
  <2> SUFFICES ASSUME NEW i \in 1..n, u.stack[i].kind = "jump"
               PROVE  \A t \in Types : t \in u.stack[i].undone \ u.stack[i].unsets
                        /\ ValueAt(u, i)[t] => t \in u.stack[i].sets
    BY <1>1 DEF UndoneOK
  <2>0. /\ s.stack[i].kind = "jump"
        /\ \A t \in Types : t \in s.stack[i].undone \ s.stack[i].unsets
             /\ ValueAt(s, i)[t] => t \in s.stack[i].sets
    BY <1>5 DEF ClosingInv, UndoneOK
  <2>1. CASE i = n
    <3>1. ValueAt(u, n) = u.flag
      BY <1>1 DEF ValueAt
    <3>2. d.sets = c.sets
      BY <1>2 DEF SameButUnsets
    <3>3. d.undone = c.undone \cup T
      <4>1. Innermost(s, s.topJump, n)
        BY DEF ClosingInv, JumpsOK
      <4>2. s.topJump = n
        BY <1>0, <2>0, <2>1, <4>1 DEF Innermost
      <4> QED  BY <1>0, <1>1, <2>1, <4>2
    <3> QED  BY <2>0, <2>1, <1>1, <1>2, <1>4, <1>5, <3>1, <3>2, <3>3
  <2>2. CASE i # n
    <3>1. ValueAt(u, i) = ValueAt(s, i) /\ u.stack[i].sets = s.stack[i].sets
      <4>1. SameButUnsets(u.stack[i], s.stack[i])
        BY <1>0, <1>1, <2>2
      <4>2. u.stack[i + 1].entry = s.stack[i + 1].entry
        BY <1>0, <1>5, <2>2
      <4> QED  BY <1>1, <2>2, <4>1, <4>2 DEF ValueAt, SameButUnsets
    <3>2. \/ /\ u.stack[i].undone = s.stack[i].undone \cup T
             /\ u.stack[i].unsets = s.stack[i].unsets \cup T
          \/ /\ u.stack[i].undone = s.stack[i].undone
             /\ u.stack[i].unsets = s.stack[i].unsets
      BY <1>1, <2>2
    <3> QED  BY <1>5, <2>0, <3>1, <3>2
  <2> QED  BY <2>1, <2>2
<1>11. ClosingInv(u)
  BY <1>1, <1>9, <1>10 DEF ClosingInv
<1>12. ASSUME FlowInv(s), Top(s).kind = "group" => \A t \in T : ~Top(s).entry[t]
       PROVE  FlowInv(u)
  <2>1. ASSUME Top(u).kind = "group"
        PROVE  OnlyImproves(Top(u), u.flag) /\ GroupOK(Top(u), FALSE)
    <3>1. Top(u) = d /\ Top(s) = c /\ c.kind = "group"
      BY <1>0, <1>1, <1>5, <2>1 DEF Top
    <3>2. OnlyImproves(c, s.flag) /\ GroupOK(c, FALSE)
      BY <1>0, <1>12, <3>1, TopGroup
    <3> QED  BY <1>7, <1>8, <1>12, <3>1, <3>2
  <2> QED  BY <1>1, <1>11, <2>1, TopGroupAt DEF FlowInv
<1> QED  BY <1>11, <1>12 DEF u
-----------------------------------------------------------------------------
(* What a call leaves of the contexts that stay open. *)

\* Contexts 1..m keep their kinds and the flags they started from.
Below(s, w, m) ==
  \A i \in 1..m : /\ w.stack[i].kind = s.stack[i].kind
                  /\ w.stack[i].entry = s.stack[i].entry

\* Setting flags changes no context's kind or entry.
LEMMA SetKeepsBelow ==
  ASSUME NEW s \in States, Depth(s) > 0, NEW T \in SUBSET Types
  PROVE  Below(s, SetFlags(s, T), Depth(s))
<1>1. \A i \in 1..Depth(s) :
        /\ s.stack[i] \in Contexts
        /\ SetFlags(s, T).stack[i]
             = IF i = Depth(s) THEN Record(s.stack[i], T, 1) ELSE s.stack[i]
  BY SetShape, StateFields
<1>2. \A i \in 1..Depth(s) : SameButHistory(Record(s.stack[i], T, 1), s.stack[i])
  BY <1>1, RecordType
<1> QED  BY <1>1, <1>2 DEF Below, SameButHistory

\* Nor does un-setting them, wherever the un-set is noted.
LEMMA UnsetKeepsBelow ==
  ASSUME NEW s \in States, Depth(s) > 0, NEW T \in SUBSET Types
  PROVE  Below(s, UnsetFlags(s, T), Depth(s))
<1> DEFINE u == UnsetFlags(s, T)
           n == Depth(s)
<1>1. UnsetResult(s, u, T)
  BY UnsetShape
<1>2. n \in Nat /\ n \in 1..n /\ s.stack[n] \in Contexts
  BY StateFields
<1>3. SameButHistory(Record(s.stack[n], T, -1), s.stack[n])
  BY <1>2, RecordType
<1> HIDE DEF u
<1>4. u.stack[n].kind = s.stack[n].kind /\ u.stack[n].entry = s.stack[n].entry
  BY <1>1, <1>3 DEF UnsetResult, SameButUnsets, SameButHistory
<1>5. \A i \in 1..(n - 1) :
        u.stack[i].kind = s.stack[i].kind /\ u.stack[i].entry = s.stack[i].entry
  BY <1>1 DEF UnsetResult, SameButUnsets
<1> QED  BY <1>2, <1>4, <1>5 DEF Below, u
-----------------------------------------------------------------------------
(* Popping contexts. *)

\* What dropping the top context does to the stack.
LEMMA DropShape ==
  ASSUME NEW s \in States, Depth(s) > 0
  PROVE  LET w == Drop(s) IN
         /\ w \in States /\ Depth(w) = Depth(s) - 1
         /\ w.flag = s.flag /\ w.topJump = s.topJump /\ w.aborted = s.aborted
         /\ \A i \in 1..(Depth(s) - 1) : w.stack[i] = s.stack[i]
<1> DEFINE q == SubSeq(s.stack, 1, Depth(s) - 1)
<1>1. s.stack \in Seq(Contexts) /\ Depth(s) = Len(s.stack) /\ Depth(s) - 1 \in Nat
  BY StateFields DEF Depth
<1>2. /\ q \in Seq(Contexts) /\ Len(q) = Depth(s) - 1
      /\ \A i \in 1..(Depth(s) - 1) : q[i] = s.stack[i]
  BY <1>1
<1> HIDE DEF q
<1>3. Drop(s) = [s EXCEPT !.stack = q]
  BY DEF Drop, q
<1> QED  BY <1>2, <1>3 DEF States, Depth

\* w is s with its top context popped, whose history went to the parent.
MoveResult(s, w) ==
  /\ w \in States /\ Depth(w) = Depth(s) - 1
  /\ w.flag = s.flag /\ w.topJump = s.topJump
  /\ Depth(s) > 1 =>
       LET d == AppendHistory(s.stack[Depth(s)], s.stack[Depth(s) - 1])
       IN /\ w.stack[Depth(s) - 1] = d
          /\ w.aborted <=> s.aborted \/ ~DeltaSumsInRange(d)
  /\ Depth(s) = 1 => (w.aborted <=> s.aborted \/ ~DeltaSumsInRange(s.stack[1]))
  /\ \A i \in 1..(Depth(s) - 2) : w.stack[i] = s.stack[i]

\* An assertion changes nothing but whether the compiler has aborted.
LEMMA AssertShape ==
  ASSUME NEW s \in States, NEW cond \in BOOLEAN
  PROVE  LET w == AssertThat(s, cond) IN
         /\ w \in States /\ Depth(w) = Depth(s) /\ w.stack = s.stack
         /\ w.flag = s.flag /\ w.topJump = s.topJump
         /\ w.aborted <=> s.aborted \/ ~cond
BY DEF AssertThat, States, Depth

\* What move_history_to_parent and the pop do to the stack.
LEMMA MoveShape ==
  ASSUME NEW s \in States, Depth(s) > 0, HistoryOK(s.stack[Depth(s)], s.flag),
         Depth(s) > 1 => HistoryOK(s.stack[Depth(s) - 1], s.stack[Depth(s)].entry)
  PROVE  MoveResult(s, MoveHistoryToParentAndDrop(s))
<1> DEFINE n == Depth(s)
           c == s.stack[n]
           w == MoveHistoryToParentAndDrop(s)
           r == Drop(s)
<1>0. n \in Nat /\ c \in Contexts /\ s.flag \in Flags
  BY StateFields
<1>1. /\ r \in States /\ Depth(r) = n - 1
      /\ r.flag = s.flag /\ r.topJump = s.topJump /\ r.aborted = s.aborted
      /\ \A i \in 1..(n - 1) : r.stack[i] = s.stack[i]
  BY DropShape
<1> HIDE DEF r
<1>2. CASE n > 1
  <2> DEFINE p == s.stack[n - 1]
             d == AppendHistory(c, p)
             q == SetTop(r, d)
  <2>1. p \in Contexts /\ d \in Contexts
    BY <1>0, <1>2, AppendBoth, StateFields
  <2> HIDE DEF d
  <2>2. /\ q \in States /\ Depth(q) = n - 1
        /\ q.flag = s.flag /\ q.topJump = s.topJump /\ q.aborted = s.aborted
        /\ \A i \in 1..(n - 1) : q.stack[i] = IF i = n - 1 THEN d ELSE r.stack[i]
    <3>1. r \in States /\ Depth(r) > 0 /\ d \in Contexts
      BY <1>0, <1>1, <1>2, <2>1
    <3>2. /\ q \in States /\ Depth(q) = Depth(r)
          /\ q.flag = r.flag /\ q.topJump = r.topJump /\ q.aborted = r.aborted
          /\ \A i \in 1..Depth(r) : q.stack[i] = IF i = Depth(r) THEN d ELSE r.stack[i]
      BY <3>1, SetTopShape
    <3> HIDE DEF q
    <3> QED  BY <1>1, <3>2
  <2>3. w = AssertThat(q, DeltaSumsInRange(d))
    BY <1>2 DEF MoveHistoryToParentAndDrop, HasParent, Top, Parent, r, d
  <2>4. DeltaSumsInRange(d) \in BOOLEAN
    BY DEF DeltaSumsInRange
  <2> HIDE DEF q, w
  <2>5. /\ w \in States /\ Depth(w) = n - 1 /\ w.stack = q.stack
        /\ w.flag = s.flag /\ w.topJump = s.topJump
        /\ w.aborted <=> s.aborted \/ ~DeltaSumsInRange(d)
    BY <2>2, <2>3, <2>4, AssertShape
  <2>6. w.stack[n - 1] = d /\ \A i \in 1..(n - 2) : w.stack[i] = s.stack[i]
    BY <1>0, <1>1, <1>2, <2>2, <2>5
  <2> QED  BY <1>2, <2>5, <2>6 DEF MoveResult, w, d
<1>3. CASE n = 1
  <2>1. w = AssertThat(r, DeltaSumsInRange(s.stack[1]))
    BY <1>3 DEF MoveHistoryToParentAndDrop, HasParent, Top, r
  <2>2. DeltaSumsInRange(s.stack[1]) \in BOOLEAN
    BY DEF DeltaSumsInRange
  <2> HIDE DEF w
  <2>3. /\ w \in States /\ Depth(w) = n - 1 /\ w.stack = r.stack
        /\ w.flag = s.flag /\ w.topJump = s.topJump
        /\ w.aborted <=> s.aborted \/ ~DeltaSumsInRange(s.stack[1])
    BY <1>1, <2>1, <2>2, AssertShape
  <2> QED  BY <1>3, <2>3 DEF MoveResult, w
<1> QED  BY <1>0, <1>2, <1>3

\* Popping a context that is not a branch: w is s with the context popped, and
\* with j the innermost jump context that is left.
LEMMA PopInv ==
  ASSUME NEW s, ClosingInv(s), Depth(s) > 0, Top(s).kind # "branch",
         NEW j \in Nat, Innermost(s, j, Depth(s) - 1)
  PROVE  FlowInv([MoveHistoryToParentAndDrop(s) EXCEPT !.topJump = j])
<1> DEFINE n == Depth(s)
           c == s.stack[n]
           p == s.stack[n - 1]
           x == MoveHistoryToParentAndDrop(s)
           w == [x EXCEPT !.topJump = j]
<1> SUFFICES FlowInv(w)
  OBVIOUS
<1>0. /\ s \in States /\ n \in Nat /\ n \in 1..n /\ c \in Contexts /\ s.flag \in Flags
      /\ Top(s) = c
  BY StateFields DEF ClosingInv, Top
<1>1. /\ HistoryOK(c, s.flag) /\ ValueAt(s, n) = s.flag
      /\ n > 1 => StackAt(s, n - 1) /\ ValueAt(s, n - 1) = c.entry /\ p \in Contexts
                  /\ HistoryOK(p, c.entry)
  BY <1>0, StateFields DEF ClosingInv, StackOK, StackAt, ValueAt
<1>2. MoveResult(s, x)
  BY <1>0, <1>1, MoveShape
<1> HIDE DEF x
<1>3. /\ w \in States /\ w.stack = x.stack /\ Depth(w) = Depth(x) /\ w.flag = x.flag
      /\ w.topJump = j /\ w.aborted = x.aborted
  BY <1>2 DEF MoveResult, States, Depth
<1> HIDE DEF w
<1>4. CASE n = 1
  <2>1. Depth(w) = 0 /\ DeltaSumsInRange(s.stack[1])
    BY <1>1, <1>2, <1>3, <1>4 DEF MoveResult, HistoryOK, DeltaSumsInRange, Deltas, Value
  <2>2. ~w.aborted
    BY <1>2, <1>3, <1>4, <2>1 DEF MoveResult, ClosingInv
  <2>3. StackOK(w) /\ UndoneOK(w)
    BY <2>1 DEF StackOK, UndoneOK
  <2>4. JumpsOK(w)
    BY <1>3, <1>4, <2>1 DEF JumpsOK, Innermost
  <2> QED  BY <1>3, <2>1, <2>2, <2>3, <2>4 DEF FlowInv, ClosingInv
<1>5. CASE n > 1
  <2> DEFINE m == n - 1
             d == AppendHistory(c, p)
  <2>1. /\ d \in Contexts /\ SameButHistory(d, p) /\ HistoryOK(d, s.flag)
        /\ DeltaSumsInRange(d)
    BY <1>0, <1>1, <1>5, AppendBoth
  <2>2. d.sets = c.sets \cup p.sets
    BY <1>0, <1>1, <1>5 DEF AppendHistory, Contexts
  <2> HIDE DEF d
  <2>3. /\ Depth(w) = m /\ w.flag = s.flag /\ ~w.aborted /\ w.stack[m] = d
        /\ \A i \in 1..(m - 1) : w.stack[i] = s.stack[i]
    BY <1>0, <1>2, <1>3, <1>5, <2>1 DEF MoveResult, ClosingInv, d
  <2>4. m \in 1..n /\ m \in Nat /\ n - 2 = m - 1
    BY <1>0, <1>5
  <2>5. \A i \in 1..m : /\ w.stack[i].kind = s.stack[i].kind
                        /\ w.stack[i].entry = s.stack[i].entry
                        /\ w.stack[i].nearest = s.stack[i].nearest
                        /\ w.stack[i].unsets = s.stack[i].unsets
    BY <2>1, <2>3, <2>4 DEF SameButHistory
  <2>6. InCond(s, n) => OnlyImproves(c, s.flag)
    BY <1>0, TopCond DEF ClosingInv
  <2>7. /\ InCond(s, m) => InCond(s, n)
        /\ p.kind = "group" => InCond(s, n)
    BY <1>0, <1>5 DEF InCond
  <2>8. OnlyImproves(c, s.flag) /\ OnlyImproves(p, c.entry) => OnlyImproves(d, s.flag)
    BY <2>1, <2>2 DEF OnlyImproves, SameButHistory
  <2>9. BranchOpenAt(s, m) = FALSE
    BY <1>0, <1>5 DEF BranchOpenAt
  <2>10. InCond(s, m) =>
           /\ OnlyImproves(d, s.flag)
           /\ \A t \in Types : d.entry[t] /\ d.kind = "group" => d.bsum[t] = 0
    <3>1. ASSUME InCond(s, m)
          PROVE  OnlyImproves(p, c.entry)
      BY <1>1, <1>5, <3>1 DEF StackAt, CondAt
    <3>2. ASSUME InCond(s, m), NEW t \in Types, p.entry[t], p.kind = "group"
          PROVE  Settled(p, BranchOpenAt(s, m), t) = 0
      BY <1>1, <1>5, <3>2 DEF StackAt, CondAt
    <3>3. ASSUME InCond(s, m), NEW t \in Types, p.entry[t], p.kind = "group"
          PROVE  p.bsum[t] = 0
      BY <1>1, <1>5, <2>9, <3>2, <3>3 DEF Settled, Contexts
    <3> QED  BY <2>1, <2>6, <2>7, <2>8, <3>1, <3>3 DEF SameButHistory
  <2>11. d.kind = "branch" /\ d.jumps => Mentioned(s.stack[m - 1]) = {}
    BY <1>1, <1>5, <2>1 DEF StackAt, BranchAt, SameButHistory
  <2>12. \A i \in 1..(m - 1) : SameButUnsets(w.stack[i], s.stack[i])
    BY <2>3 DEF SameButUnsets
  <2>13. \A i \in 1..m : InCond(s, i) => \A t \in Types : s.stack[i].entry[t] =>
           w.flag[t] /\ t \notin w.stack[i].unsets
    BY <1>0, <2>3, <2>4, <2>5, CondKeeps DEF ClosingInv
  <2>14. Innermost(w, w.topJump, m)
    BY <1>0, <1>3, <2>4, <2>5 DEF Innermost
  <2>15. FrameOK(s, w, m)
    BY <2>1, <2>3, <2>5, <2>10, <2>11, <2>12, <2>13, <2>14 DEF FrameOK
  <2>16. StackOK(w) /\ JumpsOK(w)
    BY <1>3, <2>4, <2>15, Frame
  <2>17. UndoneOK(w)
    <3> SUFFICES ASSUME NEW i \in 1..m, w.stack[i].kind = "jump"
                 PROVE  \A t \in Types : t \in w.stack[i].undone \ w.stack[i].unsets
                          /\ ValueAt(w, i)[t] => t \in w.stack[i].sets
      BY <2>3 DEF UndoneOK
    <3>1. /\ i \in 1..n
          /\ \A t \in Types : t \in s.stack[i].undone \ s.stack[i].unsets
               /\ ValueAt(s, i)[t] => t \in s.stack[i].sets
      BY <1>0, <2>4, <2>5 DEF ClosingInv, UndoneOK
    <3>2. CASE i = m
      <4>1. ValueAt(w, i) = s.flag /\ d.undone = p.undone
        BY <2>1, <2>3, <3>2 DEF ValueAt, SameButHistory
      <4>2. \A t \in Types : s.flag[t] /\ ~c.entry[t] => t \in c.sets
        BY <1>1 DEF HistoryOK
      <4> QED  BY <1>1, <1>5, <2>2, <2>3, <2>5, <3>1, <3>2, <4>1, <4>2
    <3>3. CASE i # m
      <4>1. w.stack[i] = s.stack[i] /\ ValueAt(w, i) = ValueAt(s, i)
        BY <1>0, <2>3, <2>4, <2>5, <3>3 DEF ValueAt
      <4> QED  BY <3>1, <4>1
    <3> QED  BY <3>2, <3>3
  <2>18. ASSUME d.kind = "group"
         PROVE  OnlyImproves(d, s.flag) /\ GroupOK(d, FALSE)
    <3>1. p.kind = "group"
      BY <2>1, <2>18 DEF SameButHistory
    <3>2. OnlyImproves(p, ValueAt(s, m)) /\ GroupOK(p, BranchOpenAt(s, m))
      BY <1>0, <1>1, <1>5, <3>1 DEF StackAt, GroupAt
    <3>3. GroupOK(p, FALSE) /\ OnlyImproves(p, c.entry)
      BY <1>1, <1>5, <2>9, <3>2, Zenon
    <3>4. GroupOK(p, FALSE) => GroupOK(d, FALSE)
      BY <2>1 DEF GroupOK, Settled, SettledCount, SameButHistory
    <3> QED  BY <2>6, <2>7, <2>8, <3>1, <3>3, <3>4
  <2>19. GroupAt(w, Depth(w))
    <3>1. Depth(w) > 0 /\ Top(w) = d
      BY <1>0, <1>5, <2>3 DEF Top
    <3>2. Top(w).kind = "group" => OnlyImproves(Top(w), w.flag) /\ GroupOK(Top(w), FALSE)
      BY <2>3, <2>18, <3>1
    <3> QED  BY <1>3, <3>1, <3>2, TopGroupAt
  <2> QED  BY <1>3, <2>3, <2>16, <2>17, <2>19 DEF FlowInv, ClosingInv
<1> QED  BY <1>0, <1>4, <1>5

\* What un-setting flags leaves alone.
LEMMA UnsetKeeps ==
  ASSUME NEW s \in States, Depth(s) > 0, NEW T \in SUBSET Types
  PROVE  LET u == UnsetFlags(s, T) IN
         /\ u \in States /\ Depth(u) = Depth(s) /\ u.topJump = s.topJump
         /\ \A t \in Types : u.flag[t] <=> s.flag[t] /\ t \notin T
         /\ Top(u).kind = Top(s).kind /\ Top(u).entry = Top(s).entry
         /\ Top(u).nearest = Top(s).nearest /\ Top(u).sets = Top(s).sets
         /\ Top(u).bsum = Top(s).bsum /\ Top(u).bseen = Top(s).bseen
         /\ Top(u).count = Top(s).count /\ Top(u).covers = Top(s).covers
         /\ Top(u).outs = Top(s).outs
<1> DEFINE u == UnsetFlags(s, T)
<1>1. UnsetResult(s, u, T)
  BY UnsetShape
<1>2. Top(s) \in Contexts /\ Depth(s) \in Nat
  BY StateFields DEF Top
<1> DEFINE r == Record(Top(s), T, -1)
<1>3. SameButHistory(r, Top(s)) /\ r.sets = Top(s).sets
  <2>1. SameButHistory(r, Top(s))
    BY <1>2, RecordType
  <2>2. r.sets = Top(s).sets
    BY <1>2 DEF Record, Contexts
  <2> QED  BY <2>1, <2>2
<1>4. SameButUnsets(Top(u), r)
  BY <1>1 DEF UnsetResult, Top
<1> HIDE DEF u, r
<1> QED  BY <1>1, <1>3, <1>4 DEF UnsetResult, SameButUnsets, SameButHistory, u

\* The top of a stack that is not empty.
LEMMA TopIsContext ==
  ASSUME NEW s \in States, Depth(s) > 0
  PROVE  Top(s) \in Contexts
BY StateFields DEF Top

\* unset_all_improvements is an un-set of flags.
LEMMA UnsetAllKeepsBelow ==
  ASSUME NEW s \in States, Depth(s) > 0
  PROVE  /\ Below(s, UnsetAllImprovements(s), Depth(s))
         /\ UnsetAllImprovements(s) \in States
         /\ Depth(UnsetAllImprovements(s)) = Depth(s)
<1>1. Top(s).sets \in SUBSET Types
  BY TopIsContext DEF Contexts
<1>2. {t \in Top(s).sets : s.flag[t]} \in SUBSET Types
  BY <1>1
<1> QED  BY <1>2, UnsetKeepsBelow, UnsetKeeps DEF UnsetAllImprovements

\* unset_all_improvements keeps the invariant.
LEMMA UnsetAllInv ==
  ASSUME NEW s, ClosingInv(s), Depth(s) > 0
  PROVE  LET u == UnsetAllImprovements(s) IN
         /\ ClosingInv(u)
         /\ FlowInv(s) => FlowInv(u)
         /\ Depth(u) = Depth(s) /\ u.topJump = s.topJump
         /\ \A t \in Types : u.flag[t] <=> s.flag[t] /\ t \notin Top(s).sets
         /\ Top(u).kind = Top(s).kind /\ Top(u).entry = Top(s).entry
         /\ Top(u).nearest = Top(s).nearest
         /\ Top(u).bsum = Top(s).bsum /\ Top(u).bseen = Top(s).bseen
         /\ Top(u).count = Top(s).count /\ Top(u).covers = Top(s).covers
         /\ Top(u).outs = Top(s).outs
<1> DEFINE T == {t \in Top(s).sets : s.flag[t]}
           u == UnsetFlags(s, T)
<1>0. s \in States /\ Top(s).sets \in SUBSET Types
  <2>1. s \in States
    BY DEF ClosingInv
  <2>2. Top(s) \in Contexts
    BY <2>1, TopIsContext
  <2> QED  BY <2>1, <2>2 DEF Contexts
<1>1. UnsetAllImprovements(s) = u
  BY DEF UnsetAllImprovements
<1>2. T \in SUBSET Types /\ \A t \in T : s.flag[t] /\ t \in Top(s).sets
  BY <1>0
<1>3. \A t \in Types : s.flag[t] /\ t \notin T <=> s.flag[t] /\ t \notin Top(s).sets
  OBVIOUS
<1> HIDE DEF T
<1>4. InCond(s, Depth(s)) => \A t \in T : ~Top(s).entry[t]
  BY <1>0, <1>2, TopCond DEF ClosingInv, OnlyImproves
<1>5. FlowInv(s) /\ Top(s).kind = "group" => \A t \in T : ~Top(s).entry[t]
  BY <1>0, <1>2, TopGroup DEF OnlyImproves
<1>6. ClosingInv(u) /\ (FlowInv(s) => FlowInv(u))
  BY <1>2, <1>4, <1>5, UnsetInv
<1>7. /\ Depth(u) = Depth(s) /\ u.topJump = s.topJump
      /\ \A t \in Types : u.flag[t] <=> s.flag[t] /\ t \notin T
      /\ Top(u).kind = Top(s).kind /\ Top(u).entry = Top(s).entry
      /\ Top(u).nearest = Top(s).nearest
      /\ Top(u).bsum = Top(s).bsum /\ Top(u).bseen = Top(s).bseen
      /\ Top(u).count = Top(s).count /\ Top(u).covers = Top(s).covers
      /\ Top(u).outs = Top(s).outs
  BY <1>0, <1>2, UnsetKeeps
<1> HIDE DEF u
<1> QED  BY <1>1, <1>3, <1>6, <1>7

\* A context that is popped leaves the flags as they are.
LEMMA MoveKeeps ==
  ASSUME NEW s, ClosingInv(s), Depth(s) > 0
  PROVE  LET x == MoveHistoryToParentAndDrop(s) IN
         /\ x \in States /\ Depth(x) = Depth(s) - 1
         /\ x.flag = s.flag /\ x.topJump = s.topJump
<1>1. s \in States /\ Depth(s) \in Nat
  BY StateFields DEF ClosingInv
<1>2. /\ HistoryOK(s.stack[Depth(s)], s.flag)
      /\ Depth(s) > 1 => HistoryOK(s.stack[Depth(s) - 1], s.stack[Depth(s)].entry)
  BY <1>1 DEF ClosingInv, StackOK, StackAt, ValueAt
<1> QED  BY <1>1, <1>2, MoveShape DEF MoveResult

\* Moving a history to the parent changes only the parent's history.
LEMMA MoveKeepsBelow ==
  ASSUME NEW s, ClosingInv(s), Depth(s) > 0
  PROVE  Below(s, MoveHistoryToParentAndDrop(s), Depth(s) - 1)
<1> DEFINE w == MoveHistoryToParentAndDrop(s)
           n == Depth(s)
<1>1. s \in States /\ n \in Nat
  BY StateFields DEF ClosingInv
<1>2. /\ HistoryOK(s.stack[n], s.flag)
      /\ n > 1 => HistoryOK(s.stack[n - 1], s.stack[n].entry)
  BY <1>1 DEF ClosingInv, StackOK, StackAt, ValueAt
<1>3. MoveResult(s, w)
  BY <1>1, <1>2, MoveShape
<1> HIDE DEF w
<1>4. n > 1 => /\ w.stack[n - 1].kind = s.stack[n - 1].kind
               /\ w.stack[n - 1].entry = s.stack[n - 1].entry
  <2> SUFFICES ASSUME n > 1
               PROVE  /\ w.stack[n - 1].kind = s.stack[n - 1].kind
                      /\ w.stack[n - 1].entry = s.stack[n - 1].entry
    OBVIOUS
  <2>1. w.stack[n - 1] = AppendHistory(s.stack[n], s.stack[n - 1])
    BY <1>3 DEF MoveResult
  <2>2. s.stack[n - 1] \in Contexts
    BY <1>1, StateFields
  <2> QED  BY <2>1, <2>2 DEF AppendHistory, Contexts
<1>5. \A i \in 1..(n - 2) : w.stack[i] = s.stack[i]
  BY <1>3 DEF MoveResult
<1> QED  BY <1>1, <1>4, <1>5 DEF Below, w

\* A context that is neither a branch nor a jump context.
LEMMA PopPlainInv ==
  ASSUME NEW s, ClosingInv(s), Depth(s) > 0, Top(s).kind \in {"normal", "group"}
  PROVE  LET x == MoveHistoryToParentAndDrop(s) IN
         /\ FlowInv(x) /\ x.flag = s.flag /\ Depth(x) = Depth(s) - 1
         /\ Below(s, x, Depth(s) - 1)
<1> DEFINE x == MoveHistoryToParentAndDrop(s)
<1>1. x \in States /\ x.flag = s.flag /\ x.topJump = s.topJump /\ Depth(x) = Depth(s) - 1
  BY MoveKeeps
<1>2. s \in States /\ Depth(s) \in Nat /\ s.topJump \in Nat
  BY StateFields DEF ClosingInv
<1>3. Innermost(s, s.topJump, Depth(s) - 1)
  BY <1>2 DEF ClosingInv, JumpsOK, Innermost, Top
<1> HIDE DEF x
<1>4. [x EXCEPT !.topJump = s.topJump] = x
  BY <1>1 DEF States
<1>5. FlowInv([x EXCEPT !.topJump = s.topJump])
  BY <1>2, <1>3, PopInv DEF x
<1> QED  BY <1>1, <1>4, <1>5, MoveKeepsBelow DEF x

\* _flow_pop_context_normal keeps the invariant and undoes every improvement.
LEMMA PopNormalInv ==
  ASSUME NEW s, FlowInv(s), Depth(s) > 0, Top(s).kind = "normal"
  PROVE  /\ FlowInv(PopNormal(s)) /\ Depth(PopNormal(s)) = Depth(s) - 1
         /\ Below(s, PopNormal(s), Depth(s) - 1)
         /\ \A t \in Types : PopNormal(s).flag[t] => Top(s).entry[t]
<1> DEFINE u == UnsetAllImprovements(s)
<1>1. ClosingInv(s) /\ s \in States /\ Depth(s) \in Nat
  BY StateFields DEF FlowInv, ClosingInv
<1>2. /\ ClosingInv(u) /\ Depth(u) = Depth(s) /\ Top(u).kind = "normal"
      /\ \A t \in Types : u.flag[t] <=> s.flag[t] /\ t \notin Top(s).sets
      /\ Below(s, u, Depth(s))
  BY <1>1, UnsetAllInv, UnsetAllKeepsBelow
<1>3. HistoryOK(Top(s), s.flag)
  BY <1>1 DEF ClosingInv, StackOK, StackAt, ValueAt, Top
<1> HIDE DEF u
<1>4. /\ FlowInv(PopNormal(s)) /\ Depth(PopNormal(s)) = Depth(s) - 1
      /\ PopNormal(s).flag = u.flag
      /\ Below(u, PopNormal(s), Depth(s) - 1)
  BY <1>2, PopPlainInv DEF PopNormal, u
<1>5. Below(s, PopNormal(s), Depth(s) - 1)
  BY <1>1, <1>2, <1>4 DEF Below
<1> QED  BY <1>2, <1>3, <1>4, <1>5 DEF HistoryOK

\* _flow_pop_context_jump keeps the invariant, undoes every improvement and repeats
\* every un-set made while the context was the innermost jump context.
LEMMA PopJumpInv ==
  ASSUME NEW s, FlowInv(s), Depth(s) > 0, Top(s).kind = "jump"
  PROVE  /\ FlowInv(PopJump(s)) /\ Depth(PopJump(s)) = Depth(s) - 1
         /\ Below(s, PopJump(s), Depth(s) - 1)
         /\ \A t \in Types : PopJump(s).flag[t] => Top(s).entry[t]
         /\ \A t \in Top(s).undone : ~PopJump(s).flag[t]
<1> DEFINE T == {t \in Top(s).unsets : s.flag[t]}
           again == UnsetFlags(s, T)
           rest == UnsetAllImprovements(again)
           x == MoveHistoryToParentAndDrop(rest)
           j == Top(s).nearest
<1>1. /\ ClosingInv(s) /\ s \in States /\ Depth(s) \in Nat /\ Depth(s) \in 1..Depth(s)
      /\ Top(s) \in Contexts /\ T \in SUBSET Types /\ j \in Nat
      /\ Top(s).undone \in SUBSET Types
  BY StateFields DEF FlowInv, ClosingInv, Contexts, Top
<1>2. \A t \in Types : t \in T <=> s.flag[t] /\ t \in Top(s).unsets
  OBVIOUS
<1>3. \A t \in T : s.flag[t] /\ t \in Top(s).unsets
  OBVIOUS
<1> HIDE DEF T
<1>4. InCond(s, Depth(s)) => \A t \in T : ~Top(s).entry[t]
  BY <1>1, <1>3, CondKeeps DEF ClosingInv, Top
<1>5. ClosingInv(again)
  BY <1>1, <1>3, <1>4, UnsetInv
<1>6. /\ Depth(again) = Depth(s) /\ Top(again).sets = Top(s).sets
      /\ Top(again).kind = "jump" /\ Top(again).nearest = j
      /\ \A t \in Types : again.flag[t] <=> s.flag[t] /\ t \notin T
      /\ Below(s, again, Depth(s)) /\ again \in States
  BY <1>1, UnsetKeeps, UnsetKeepsBelow
<1> HIDE DEF again
<1>7. /\ ClosingInv(rest) /\ Depth(rest) = Depth(s)
      /\ Top(rest).kind = "jump" /\ Top(rest).nearest = j
      /\ \A t \in Types : rest.flag[t] <=> again.flag[t] /\ t \notin Top(s).sets
      /\ Below(again, rest, Depth(s))
  BY <1>5, <1>6, UnsetAllInv, UnsetAllKeepsBelow
<1> HIDE DEF rest
<1>8. Innermost(rest, j, Depth(rest) - 1)
  BY <1>1, <1>7 DEF ClosingInv, JumpsOK, Top
<1>9. FlowInv([x EXCEPT !.topJump = j])
  BY <1>1, <1>7, <1>8, PopInv
<1>10. /\ x \in States /\ Depth(x) = Depth(s) - 1 /\ x.flag = rest.flag
       /\ Below(rest, x, Depth(s) - 1)
  BY <1>7, MoveKeeps, MoveKeepsBelow
<1>11. PopJump(s) = [x EXCEPT !.topJump = j]
  BY DEF PopJump, x, rest, again, T
<1> HIDE DEF x, j
<1>12. /\ Depth(PopJump(s)) = Depth(s) - 1 /\ PopJump(s).flag = rest.flag
       /\ PopJump(s).stack = x.stack
  BY <1>10, <1>11 DEF States, Depth
<1>13. HistoryOK(Top(s), s.flag)
  BY <1>1 DEF ClosingInv, StackOK, StackAt, ValueAt, Top
<1>14. \A t \in Types : rest.flag[t] => Top(s).entry[t]
  BY <1>6, <1>7, <1>13 DEF HistoryOK
<1>15. ASSUME NEW t \in Top(s).undone
       PROVE  ~rest.flag[t]
  <2>1. t \in Top(s).undone \ Top(s).unsets /\ s.flag[t] => t \in Top(s).sets
    BY <1>1, <1>15 DEF ClosingInv, UndoneOK, ValueAt, Top
  <2> QED  BY <1>1, <1>2, <1>6, <1>7, <1>15, <2>1
<1>16. Below(s, PopJump(s), Depth(s) - 1)
  BY <1>1, <1>6, <1>7, <1>10, <1>12 DEF Below
<1> QED  BY <1>9, <1>11, <1>12, <1>14, <1>15, <1>16

\* A group whose history is forgotten once the flags are back to what they were.
LEMMA ClearInv ==
  ASSUME NEW s, FlowInv(s), Depth(s) > 0, Top(s).kind = "group",
         \A t \in Types : s.flag[t] <=> Top(s).entry[t]
  PROVE  LET k == SetTop(s, ClearHistory(Top(s))) IN
         /\ FlowInv(k) /\ Depth(k) = Depth(s) /\ k.flag = s.flag
         /\ SameButHistory(Top(k), Top(s)) /\ Below(s, k, Depth(s))
<1> DEFINE n == Depth(s)
           c == Top(s)
           d == ClearHistory(c)
           k == SetTop(s, d)
<1>0. /\ ClosingInv(s) /\ s \in States /\ n \in Nat /\ n \in 1..n /\ c \in Contexts
      /\ s.flag \in Flags /\ c = s.stack[n]
  BY StateFields DEF FlowInv, ClosingInv, Top
<1>1. d \in Contexts /\ SameButHistory(d, c)
  <2>1. d = [c EXCEPT !.sum = d.sum, !.sets = d.sets, !.oldest = d.oldest]
    BY <1>0 DEF ClearHistory, Contexts
  <2>2. d.sum \in [Types -> Int] /\ d.sets \in SUBSET Types /\ d.oldest \in [Types -> Deltas]
    BY <1>0 DEF ClearHistory, Contexts, Deltas
  <2>3. SameButHistory(d, c)
    BY <1>0 DEF ClearHistory, Contexts, SameButHistory
  <2> HIDE DEF d
  <2> QED  BY <1>0, <2>1, <2>2, <2>3 DEF Contexts, SameButHistory
<1>2. /\ d.sets = {} /\ \A t \in Types : d.sum[t] = 0 /\ d.oldest[t] = 0
  BY <1>0 DEF ClearHistory, Contexts
<1> HIDE DEF d
<1>3. /\ k \in States /\ Depth(k) = n
      /\ k.flag = s.flag /\ k.topJump = s.topJump /\ k.aborted = s.aborted
      /\ \A i \in 1..n : k.stack[i] = IF i = n THEN d ELSE s.stack[i]
  BY <1>0, <1>1, SetTopShape
<1> HIDE DEF k, c
<1>4. k.stack[n] = d /\ Top(k) = d
  BY <1>0, <1>3 DEF Top
<1>5. HistoryOK(d, k.flag)
  <2> SUFFICES ASSUME NEW t \in Types
               PROVE  /\ d.sum[t] = Value(s.flag[t]) - Value(d.entry[t])
                      /\ s.flag[t] = d.entry[t]
    BY <1>2, <1>3 DEF HistoryOK
  <2>1. s.flag[t] = d.entry[t]
    <3>1. s.flag[t] \in BOOLEAN /\ c.entry[t] \in BOOLEAN /\ d.entry = c.entry
      BY <1>0, <1>1 DEF Flags, Contexts, SameButHistory
    <3> QED  BY <3>1 DEF c
  <2> QED  BY <1>2, <2>1 DEF Value
<1>6. OnlyImproves(d, k.flag)
  BY <1>0, <1>1, <1>2, <1>3 DEF OnlyImproves, SameButHistory, c
<1>7. GroupOK(c, FALSE) => GroupOK(d, FALSE)
  BY <1>1 DEF GroupOK, Settled, SettledCount, SameButHistory
<1>8. \A i \in 1..n : /\ k.stack[i].kind = s.stack[i].kind
                      /\ k.stack[i].entry = s.stack[i].entry
                      /\ k.stack[i].nearest = s.stack[i].nearest
                      /\ k.stack[i].unsets = s.stack[i].unsets
  BY <1>0, <1>1, <1>3 DEF SameButHistory
<1>9. FrameOK(s, k, n)
  <2>1. \A i \in 1..(n - 1) : SameButUnsets(k.stack[i], s.stack[i])
    BY <1>0, <1>3 DEF SameButUnsets
  <2>2. d.kind = "group"
    BY <1>1 DEF SameButHistory, c
  <2>3. InCond(s, n) => \A t \in Types : d.entry[t] /\ d.kind = "group" => d.bsum[t] = 0
    BY <1>0, <1>1, TopCond DEF SameButHistory, ClosingInv, c
  <2>4. \A i \in 1..n : InCond(s, i) => \A t \in Types : s.stack[i].entry[t] =>
          k.flag[t] /\ t \notin k.stack[i].unsets
    BY <1>0, <1>3, <1>8, CondKeeps DEF ClosingInv
  <2>5. Innermost(k, k.topJump, n)
    BY <1>0, <1>3, <1>8 DEF ClosingInv, JumpsOK, Innermost
  <2> QED  BY <1>3, <1>4, <1>5, <1>6, <1>8, <2>1, <2>2, <2>3, <2>4, <2>5 DEF FrameOK
<1>10. StackOK(k) /\ JumpsOK(k)
  BY <1>0, <1>3, <1>9, Frame
<1>11. UndoneOK(k)
  <2> SUFFICES ASSUME NEW i \in 1..n, k.stack[i].kind = "jump"
               PROVE  \A t \in Types : t \in k.stack[i].undone \ k.stack[i].unsets
                        /\ ValueAt(k, i)[t] => t \in k.stack[i].sets
    BY <1>3 DEF UndoneOK
  <2>1. i # n
    BY <1>1, <1>4 DEF SameButHistory, c
  <2>2. k.stack[i] = s.stack[i] /\ ValueAt(k, i) = ValueAt(s, i)
    BY <1>0, <1>3, <1>8, <2>1 DEF ValueAt
  <2> QED  BY <2>2 DEF FlowInv, ClosingInv, UndoneOK
<1>12. GroupAt(k, Depth(k))
  <2>1. OnlyImproves(Top(k), k.flag) /\ GroupOK(Top(k), FALSE)
    BY <1>0, <1>4, <1>6, <1>7, TopGroup DEF c
  <2> QED  BY <1>0, <1>3, <2>1, TopGroupAt
<1>13. ClosingInv(k)
  BY <1>0, <1>3, <1>10, <1>11 DEF ClosingInv
<1>14. Below(s, k, n)
  BY <1>8 DEF Below
<1> QED  BY <1>1, <1>3, <1>4, <1>12, <1>13, <1>14 DEF FlowInv, k, c, d

\* merge_effects fails no assertion and keeps what a closing group needs.
LEMMA MergeInv ==
  ASSUME NEW s, FlowInv(s), Depth(s) > 0, Top(s).kind = "group",
         \A t \in Types : s.flag[t] <=> Top(s).entry[t]
  PROVE  LET b == MergeEffects(s) IN
         /\ ClosingInv(b) /\ Depth(b) = Depth(s) /\ Top(b).kind = "group"
         /\ Below(s, b, Depth(s))
         /\ \A t \in Types : b.flag[t] =>
              /\ \A o \in Top(s).outs : o[t]
              /\ Top(s).covers \/ Top(s).entry[t]
<1> DEFINE g == Top(s)
           improved == {t \in g.bseen : g.covers /\ g.bsum[t] = g.count}
           unimproved == {t \in g.bseen \ improved : g.bsum[t] < 0}
           a == SetFlags(s, improved)
           b == UnsetFlags(a, unimproved)
           ok == \A t \in g.bseen : MergeAsserts(s, t)
<1>0. /\ ClosingInv(s) /\ s \in States /\ Depth(s) \in Nat /\ g \in Contexts
      /\ ~s.aborted
  BY StateFields DEF FlowInv, ClosingInv, Top
<1>1. /\ improved \in SUBSET Types /\ unimproved \in SUBSET Types
      /\ g.count \in Nat /\ g.bseen \in SUBSET Types
      /\ \A t \in Types : g.bsum[t] \in Int
  BY <1>0 DEF Contexts
<1>2. GroupOK(g, FALSE)
  BY <1>0, TopGroup
<1>3. ASSUME NEW t \in Types
      PROVE  /\ s.flag[t] => -g.count <= g.bsum[t] /\ g.bsum[t] <= 0
             /\ ~s.flag[t] => 0 <= g.bsum[t] /\ g.bsum[t] <= g.count
             /\ (\E o \in g.outs : ~o[t]) =>
                  (IF g.entry[t] THEN g.bsum[t] < 0 ELSE g.bsum[t] < g.count)
             /\ t \notin g.bseen => g.bsum[t] = 0
             /\ t \in g.bseen => g.count > 0
  BY <1>1, <1>2 DEF GroupOK, Settled, SettledCount
<1>4. ok = TRUE
  BY <1>0, <1>1, <1>3 DEF MergeAsserts
<1>5. /\ \A t \in improved : ~s.flag[t] /\ g.covers /\ g.bsum[t] = g.count
      /\ \A t \in unimproved : s.flag[t] /\ g.bsum[t] < 0
      /\ \A t \in Types : g.bsum[t] < 0 => t \in unimproved
  BY <1>1, <1>3
<1> HIDE DEF improved, unimproved, ok
<1>6. /\ ClosingInv(a) /\ Depth(a) = Depth(s)
      /\ \A t \in Types : a.flag[t] <=> t \in improved \/ s.flag[t]
      /\ Top(a).kind = "group" /\ Top(a).entry = g.entry
      /\ \A i \in 1..Depth(s) : a.stack[i].kind = s.stack[i].kind
  <2>1. ClosingInv(a)
    BY <1>0, <1>1, <1>5, SetInv
  <2>2. /\ Depth(a) = Depth(s)
        /\ \A t \in Types : a.flag[t] <=> t \in improved \/ s.flag[t]
        /\ \A i \in 1..Depth(s) :
             a.stack[i] = IF i = Depth(s) THEN Record(s.stack[i], improved, 1) ELSE s.stack[i]
    BY <1>0, <1>1, SetShape
  <2>3. SameButHistory(Record(g, improved, 1), g)
    BY <1>0, <1>1, RecordType
  <2> HIDE DEF a
  <2>4. Top(a) = Record(g, improved, 1)
    BY <1>0, <2>2 DEF Top
  <2>5. \A i \in 1..Depth(s) : a.stack[i].kind = s.stack[i].kind
    BY <2>2, <2>3 DEF Top, SameButHistory
  <2> QED  BY <2>1, <2>2, <2>3, <2>4, <2>5 DEF SameButHistory
<1> HIDE DEF a
<1>7. InCond(a, Depth(a)) => \A t \in unimproved : ~Top(a).entry[t]
  <2>1. InCond(a, Depth(a)) => InCond(s, Depth(s))
    BY <1>0, <1>6 DEF InCond
  <2>2. InCond(s, Depth(s)) => \A t \in Types : g.entry[t] => g.bsum[t] = 0
    BY <1>0, TopCond DEF ClosingInv
  <2> QED  BY <1>1, <1>5, <1>6, <2>1, <2>2
<1>8. /\ ClosingInv(b) /\ Depth(b) = Depth(s) /\ Top(b).kind = "group"
      /\ \A t \in Types : b.flag[t] <=> a.flag[t] /\ t \notin unimproved
  <2>1. ClosingInv(b)
    BY <1>1, <1>5, <1>6, <1>7, UnsetInv
  <2> QED  BY <1>1, <1>6, <2>1, UnsetKeeps DEF ClosingInv
<1> HIDE DEF b
<1>9. MergeEffects(s) = b
  <2>1. MergeEffects(s) = AssertThat(b, ok)
    BY DEF MergeEffects, b, a, ok, improved, unimproved
  <2>2. b \in States /\ b.aborted = FALSE
    BY <1>8, StateFields DEF ClosingInv
  <2>3. AssertThat(b, TRUE) = b
    BY <2>2 DEF AssertThat, States
  <2> QED  BY <1>4, <2>1, <2>3
<1>10. ASSUME NEW t \in Types, b.flag[t]
       PROVE  /\ \A o \in g.outs : o[t]
              /\ g.covers \/ g.entry[t]
  <2>1. CASE t \in improved
    BY <1>1, <1>3, <1>5, <2>1
  <2>2. CASE t \notin improved
    <3>1. g.entry[t] /\ t \notin unimproved
      BY <1>6, <1>8, <1>10, <2>2
    <3> QED  BY <1>3, <1>5, <3>1
  <2> QED  BY <2>1, <2>2
<1>11. Below(s, b, Depth(s))
  <2>1. Below(s, a, Depth(s))
    BY <1>0, <1>1, SetKeepsBelow DEF a
  <2>2. Below(a, b, Depth(s))
    BY <1>0, <1>1, <1>6, UnsetKeepsBelow DEF ClosingInv, b
  <2> QED  BY <2>1, <2>2 DEF Below
<1> QED  BY <1>8, <1>9, <1>10, <1>11

\* _flow_pop_context_branch_group keeps the invariant and merges soundly.
LEMMA PopGroupInv ==
  ASSUME NEW s, FlowInv(s), Depth(s) > 0, Top(s).kind = "group"
  PROVE  /\ FlowInv(PopBranchGroup(s)) /\ Depth(PopBranchGroup(s)) = Depth(s) - 1
         /\ Below(s, PopBranchGroup(s), Depth(s) - 1)
         /\ \A t \in Types : PopBranchGroup(s).flag[t] =>
              /\ \A o \in Top(s).outs : o[t]
              /\ Top(s).covers \/ Top(s).entry[t]
<1> DEFINE u == UnsetAllImprovements(s)
           k == SetTop(u, ClearHistory(Top(u)))
           b == MergeEffects(k)
<1>0. ClosingInv(s) /\ s \in States /\ Depth(s) \in Nat /\ Top(s) \in Contexts
  BY StateFields DEF FlowInv, ClosingInv, Top
<1>1. /\ FlowInv(u) /\ Depth(u) = Depth(s) /\ Top(u).kind = "group"
      /\ \A t \in Types : u.flag[t] <=> s.flag[t] /\ t \notin Top(s).sets
      /\ Top(u).entry = Top(s).entry /\ Top(u).covers = Top(s).covers
      /\ Top(u).outs = Top(s).outs
      /\ Below(s, u, Depth(s))
  BY <1>0, UnsetAllInv, UnsetAllKeepsBelow
<1> HIDE DEF u
<1>2. \A t \in Types : u.flag[t] <=> Top(u).entry[t]
  <2>1. HistoryOK(Top(s), s.flag) /\ OnlyImproves(Top(s), s.flag)
    <3>1. HistoryOK(Top(s), s.flag)
      BY <1>0 DEF ClosingInv, StackOK, StackAt, ValueAt, Top
    <3> QED  BY <1>0, <3>1, TopGroup
  <2> QED  BY <1>1, <2>1 DEF HistoryOK, OnlyImproves
<1>3. /\ FlowInv(k) /\ Depth(k) = Depth(s) /\ k.flag = u.flag
      /\ SameButHistory(Top(k), Top(u)) /\ Below(u, k, Depth(s))
  BY <1>1, <1>2, ClearInv
<1> HIDE DEF k
<1>4. Top(k).kind = "group" /\ \A t \in Types : k.flag[t] <=> Top(k).entry[t]
  BY <1>1, <1>2, <1>3 DEF SameButHistory
<1>5. /\ ClosingInv(b) /\ Depth(b) = Depth(s) /\ Top(b).kind = "group"
      /\ Below(k, b, Depth(s))
      /\ \A t \in Types : b.flag[t] =>
           /\ \A o \in Top(k).outs : o[t]
           /\ Top(k).covers \/ Top(k).entry[t]
  BY <1>3, <1>4, MergeInv
<1> HIDE DEF b
<1>6. PopBranchGroup(s) = MoveHistoryToParentAndDrop(b)
  BY DEF PopBranchGroup, b, k, u
<1>7. FlowInv(PopBranchGroup(s)) /\ PopBranchGroup(s).flag = b.flag
      /\ Depth(PopBranchGroup(s)) = Depth(s) - 1
      /\ Below(b, PopBranchGroup(s), Depth(s) - 1)
  BY <1>5, <1>6, PopPlainInv
<1>8. Below(s, PopBranchGroup(s), Depth(s) - 1)
  BY <1>0, <1>1, <1>3, <1>5, <1>7 DEF Below
<1> QED  BY <1>1, <1>3, <1>5, <1>7, <1>8 DEF SameButHistory

\* Popping a branch restores the flags it started from, and its group accounts
\* for it, or for it never having been there.
LEMMA PopBranchInv ==
  ASSUME NEW s, FlowInv(s), Depth(s) > 0, Top(s).kind = "branch"
  PROVE  /\ FlowInv(PopBranch(s)) /\ Depth(PopBranch(s)) = Depth(s) - 1
         /\ PopBranch(s).flag = Top(s).entry
         /\ Below(s, PopBranch(s), Depth(s) - 1)
<1> DEFINE n == Depth(s)
           m == n - 1
           b == s.stack[n]
           g == s.stack[m]
           counted == [AddToBranchHistories(g, b) EXCEPT !.outs = g.outs \cup {s.flag}]
           elided == [g EXCEPT !.count = g.count - 1]
           h == IF b.jumps THEN elided ELSE counted
           r == Drop(s)
           q == SetTop(r, h)
           f == [t \in Types |-> \/ b.oldest[t] = -1
                                 \/ b.oldest[t] = 0 /\ s.flag[t]]
           w == PopBranch(s)
<1>0. /\ ClosingInv(s) /\ s \in States /\ n \in Nat /\ b \in Contexts /\ s.flag \in Flags
      /\ b.kind = "branch" /\ n \in 1..n
  BY StateFields DEF FlowInv, ClosingInv, Top
<1>1. StackAt(s, n) /\ HistoryOK(b, s.flag) /\ BranchAt(s, n)
  BY <1>0 DEF ClosingInv, StackOK, StackAt, ValueAt
<1>2. m > 0 /\ m \in 1..n /\ m < n /\ g.kind = "group" /\ g \in Contexts
  BY <1>0, <1>1, StateFields DEF BranchAt
<1>3. ValueAt(s, m) = b.entry /\ BranchOpenAt(s, m) = TRUE
  BY <1>0, <1>2 DEF ValueAt, BranchOpenAt
<1>4. HistoryOK(g, b.entry) /\ OnlyImproves(g, b.entry) /\ GroupOK(g, TRUE)
  <2>1. StackAt(s, m)
    BY <1>0, <1>2 DEF ClosingInv, StackOK
  <2>2. OnlyImproves(g, ValueAt(s, m)) /\ GroupOK(g, BranchOpenAt(s, m))
    BY <1>2, <2>1 DEF StackAt, GroupAt
  <2>3. HistoryOK(g, b.entry)
    BY <1>3, <2>1 DEF StackAt
  <2> QED  BY <1>3, <2>2, <2>3, Zenon
<1>5. /\ s.flag \in Flags /\ b.entry \in Flags /\ g.entry \in Flags
      /\ \A t \in Types : /\ b.sum[t] \in Int /\ g.sum[t] \in Int /\ g.bsum[t] \in Int
                          /\ b.oldest[t] \in {-1, 0, 1}
                          /\ s.flag[t] \in BOOLEAN /\ b.entry[t] \in BOOLEAN
                          /\ g.entry[t] \in BOOLEAN
      /\ g.count \in Nat /\ g.bseen \in SUBSET Types
  BY <1>0, <1>2 DEF Contexts, Flags, Deltas
<1>6. f = b.entry
  <2>1. \A t \in Types : f[t] = b.entry[t]
    BY <1>1, <1>5 DEF HistoryOK
  <2> QED  BY <1>5, <2>1 DEF Flags
<1> HIDE DEF f
<1>7. g.count >= 1
  BY <1>4, <1>5 DEF GroupOK, SettledCount
<1>8. /\ h \in Contexts /\ h.kind = g.kind /\ h.sum = g.sum /\ h.sets = g.sets
      /\ h.oldest = g.oldest /\ h.covers = g.covers /\ h.jumps = g.jumps
      /\ h.nearest = g.nearest /\ h.unsets = g.unsets /\ h.entry = g.entry
      /\ h.undone = g.undone
  <2>1. CASE b.jumps
    <3>1. g.count - 1 \in Nat
      BY <1>5, <1>7
    <3> QED  BY <1>2, <2>1, <3>1 DEF Contexts
  <2>2. CASE ~b.jumps
    <3> DEFINE bs == [t \in Types |-> g.bsum[t] + b.sum[t]]
               sn == g.bseen \cup Mentioned(b)
               os == g.outs \cup {s.flag}
    <3>1. counted = [g EXCEPT !.bsum = bs, !.bseen = sn, !.outs = os]
      BY <1>2 DEF AddToBranchHistories, Contexts
    <3>2. bs \in [Types -> Int] /\ sn \in SUBSET Types
      BY <1>5 DEF Mentioned
    <3>3. os \in SUBSET Flags
      BY <1>2, <1>5 DEF Contexts
    <3> HIDE DEF bs, sn, os, counted
    <3> QED  BY <1>2, <2>2, <3>1, <3>2, <3>3 DEF Contexts
  <2> QED  BY <2>1, <2>2
<1>9. /\ b.jumps => /\ h.bsum = g.bsum /\ h.bseen = g.bseen /\ h.outs = g.outs
                    /\ h.count = g.count - 1
      /\ ~b.jumps => /\ \A t \in Types : h.bsum[t] = g.bsum[t] + b.sum[t]
                     /\ h.bseen = g.bseen \cup Mentioned(b)
                     /\ h.outs = g.outs \cup {s.flag} /\ h.count = g.count
  BY <1>2 DEF AddToBranchHistories, Contexts
<1> HIDE DEF h
<1>10. /\ r \in States /\ Depth(r) = m
       /\ r.topJump = s.topJump /\ r.aborted = s.aborted
       /\ \A i \in 1..m : r.stack[i] = s.stack[i]
  BY <1>0, DropShape
<1> HIDE DEF r
<1>11. /\ q \in States /\ Depth(q) = m
       /\ q.topJump = s.topJump /\ q.aborted = s.aborted
       /\ \A i \in 1..m : q.stack[i] = IF i = m THEN h ELSE r.stack[i]
  BY <1>2, <1>8, <1>10, SetTopShape
<1> HIDE DEF q
<1>12. w = [q EXCEPT !.flag = f]
  BY DEF PopBranch, q, r, f, h, Top, Parent
<1> HIDE DEF w
<1>13. /\ w \in States /\ Depth(w) = m /\ w.topJump = s.topJump /\ w.aborted = s.aborted
       /\ w.flag = b.entry
       /\ \A i \in 1..m : w.stack[i] = IF i = m THEN h ELSE s.stack[i]
  BY <1>2, <1>5, <1>6, <1>10, <1>11, <1>12 DEF States, Depth
<1>14. w.stack[m] = h
  BY <1>2, <1>13
<1>15. \A i \in 1..m : /\ w.stack[i].kind = s.stack[i].kind
                       /\ w.stack[i].entry = s.stack[i].entry
                       /\ w.stack[i].nearest = s.stack[i].nearest
                       /\ w.stack[i].unsets = s.stack[i].unsets
  BY <1>8, <1>13
<1>16. HistoryOK(h, b.entry) /\ OnlyImproves(h, b.entry)
  BY <1>4, <1>8 DEF HistoryOK, OnlyImproves
\* When the branch is elided, its group holds no improvements of its own.
<1>17. b.jumps => Mentioned(g) = {} /\ \A t \in Types : g.oldest[t] = 0 /\ g.sum[t] = 0
  <2>1. b.jumps => Mentioned(g) = {}
    BY <1>0, <1>1 DEF BranchAt
  <2>2. b.jumps => \A t \in Types : g.oldest[t] = 0
    BY <2>1 DEF Mentioned
  <2> QED  BY <1>4, <1>5, <2>1, <2>2 DEF HistoryOK, Value
\* What a counted branch has contributed in all.
<1>18. \A t \in Types : b.sum[t] + g.sum[t] = Value(s.flag[t]) - Value(g.entry[t])
  BY <1>1, <1>4, <1>5 DEF HistoryOK, Value
<1>19. \A t \in Types :
         /\ b.jumps => h.bsum[t] = Settled(g, TRUE, t)
         /\ ~b.jumps => h.bsum[t] = Settled(g, TRUE, t) + Value(s.flag[t]) - Value(g.entry[t])
  BY <1>5, <1>9, <1>17, <1>18 DEF Settled, Value
<1>20. GroupOK(h, FALSE)
  <2> DEFINE k == SettledCount(g, TRUE)
  <2>1. k \in Nat /\ k = g.count - 1
    BY <1>5, <1>7 DEF SettledCount
  <2>2. SettledCount(h, FALSE) = IF b.jumps THEN k ELSE k + 1
    BY <1>5, <1>9, <2>1 DEF SettledCount
  <2> HIDE DEF k
  <2>3. ASSUME NEW t \in Types
        PROVE  LET x == h.bsum[t]
                   y == IF b.jumps THEN k ELSE k + 1
               IN /\ h.entry[t] => -y <= x /\ x <= 0
                  /\ ~h.entry[t] => 0 <= x /\ x <= y
                  /\ (\E o \in h.outs : ~o[t]) => (IF h.entry[t] THEN x < 0 ELSE x < y)
                  /\ t \notin h.bseen => h.bsum[t] = 0
                  /\ t \in h.bseen => y > 0
    <3> DEFINE z == Settled(g, TRUE, t)
    <3>1. /\ g.entry[t] => -k <= z /\ z <= 0
          /\ ~g.entry[t] => 0 <= z /\ z <= k
          /\ (\E o \in g.outs : ~o[t]) => (IF g.entry[t] THEN z < 0 ELSE z < k)
          /\ t \notin g.bseen => g.bsum[t] = 0
          /\ t \in g.bseen => k > 0 \/ g.oldest[t] # 0
      BY <1>4 DEF GroupOK, k
    <3>2. z \in Int
      BY <1>5 DEF Settled
    <3>3. /\ b.jumps => h.bsum[t] = z
          /\ ~b.jumps => h.bsum[t] = z + Value(s.flag[t]) - Value(g.entry[t])
      BY <1>19
    <3> HIDE DEF z
    <3>4. CASE b.jumps
      BY <1>8, <1>9, <1>17, <2>1, <3>1, <3>2, <3>3, <3>4
    <3>5. CASE ~b.jumps
      <4>1. \/ s.flag[t] /\ g.entry[t] /\ h.bsum[t] = z
            \/ ~s.flag[t] /\ ~g.entry[t] /\ h.bsum[t] = z
            \/ s.flag[t] /\ ~g.entry[t] /\ h.bsum[t] = z + 1
            \/ ~s.flag[t] /\ g.entry[t] /\ h.bsum[t] = z - 1
        BY <1>5, <3>2, <3>3, <3>5 DEF Value
      <4>2. (\E o \in h.outs : ~o[t]) <=> (\E o \in g.outs : ~o[t]) \/ ~s.flag[t]
        BY <1>9, <3>5
      <4>3. t \notin h.bseen => h.bsum[t] = 0
        <5>1. ASSUME t \notin h.bseen
              PROVE  g.bsum[t] = 0 /\ b.oldest[t] = 0
          BY <1>9, <3>1, <3>5, <5>1 DEF Mentioned
        <5>2. b.oldest[t] = 0 => b.sum[t] = 0
          BY <1>1, <1>5 DEF HistoryOK, Value
        <5> QED  BY <1>5, <1>9, <3>5, <5>1, <5>2
      <4> QED  BY <1>8, <2>1, <3>1, <3>2, <3>5, <4>1, <4>2, <4>3
    <3> QED  BY <3>4, <3>5
  <2>4. \A t \in Types : Settled(h, FALSE, t) = h.bsum[t]
    BY <1>5, <1>9 DEF Settled
  <2>5. SettledCount(h, FALSE) >= 0
    <3> DEFINE x == SettledCount(h, FALSE)
    <3>1. x = k \/ x = k + 1
      BY <2>2, Zenon
    <3> HIDE DEF x
    <3>2. x >= 0
      BY <2>1, <3>1
    <3> QED  BY <3>2, Zenon DEF x
  <2> QED  BY <2>2, <2>3, <2>4, <2>5 DEF GroupOK
<1>21. FrameOK(s, w, m)
  <2>1. \A i \in 1..(m - 1) : SameButUnsets(w.stack[i], s.stack[i])
    BY <1>2, <1>13 DEF SameButUnsets
  <2>2. h.kind = "group"
    BY <1>2, <1>8
  <2>3. ASSUME InCond(s, m), NEW t \in Types, h.entry[t]
        PROVE  h.bsum[t] = 0
    <3>1. CondAt(s, m) /\ g.entry[t]
      BY <1>2, <1>8, <2>3 DEF FlowInv, ClosingInv, StackOK, StackAt
    <3>2. Settled(g, BranchOpenAt(s, m), t) = 0 /\ s.flag[t]
      BY <1>2, <2>3, <3>1 DEF CondAt
    <3>3. Settled(g, TRUE, t) = 0
      BY <1>3, <3>2
    <3>4. CASE b.jumps
      BY <1>19, <3>3, <3>4
    <3>5. CASE ~b.jumps
      <4>1. h.bsum[t] = 0 + Value(TRUE) - Value(TRUE)
        BY <1>5, <1>19, <3>1, <3>2, <3>3, <3>5
      <4> QED  BY <4>1 DEF Value
    <3> QED  BY <3>4, <3>5
  <2>4. \A i \in 1..m : InCond(s, i) => \A t \in Types : s.stack[i].entry[t] =>
          w.flag[t] /\ t \notin w.stack[i].unsets
    BY <1>0, <1>2, <1>13, <1>15, CondKeeps DEF ClosingInv
  <2>5. Innermost(w, w.topJump, m)
    BY <1>0, <1>2, <1>13, <1>15 DEF ClosingInv, JumpsOK, Innermost
  <2> QED  BY <1>13, <1>14, <1>15, <1>16, <2>1, <2>2, <2>3, <2>4, <2>5 DEF FrameOK
<1>22. StackOK(w) /\ JumpsOK(w)
  BY <1>0, <1>2, <1>13, <1>21, Frame
<1>23. UndoneOK(w)
  <2> SUFFICES ASSUME NEW i \in 1..m, w.stack[i].kind = "jump"
               PROVE  \A t \in Types : t \in w.stack[i].undone \ w.stack[i].unsets
                        /\ ValueAt(w, i)[t] => t \in w.stack[i].sets
    BY <1>13 DEF UndoneOK
  <2>1. i # m
    BY <1>2, <1>8, <1>14
  <2>2. w.stack[i] = s.stack[i] /\ ValueAt(w, i) = ValueAt(s, i)
    BY <1>0, <1>2, <1>13, <1>15, <2>1 DEF ValueAt
  <2>3. i \in 1..n
    BY <1>0, <1>2
  <2> QED  BY <2>2, <2>3 DEF FlowInv, ClosingInv, UndoneOK
<1>24. GroupAt(w, Depth(w))
  <2>1. Depth(w) > 0 /\ Top(w) = h
    BY <1>2, <1>13, <1>14 DEF Top
  <2> QED  BY <1>13, <1>16, <1>20, <2>1, TopGroupAt
<1>25. FlowInv(w)
  BY <1>0, <1>13, <1>22, <1>23, <1>24 DEF FlowInv, ClosingInv
<1>26. Below(s, w, m)
  BY <1>15 DEF Below
<1> QED  BY <1>13, <1>25, <1>26 DEF w, Top
-----------------------------------------------------------------------------
(* Pushing a context. *)

\* Context c has just been opened in s.
Fresh(s, c) ==
  /\ c \in Contexts /\ c.entry = s.flag
  /\ c.sets = {} /\ c.bseen = {} /\ c.count = 0 /\ c.jumps = FALSE
  /\ c.unsets = {} /\ c.outs = {} /\ c.undone = {}
  /\ \A t \in Types : c.sum[t] = 0 /\ c.oldest[t] = 0 /\ c.bsum[t] = 0

\* The record a push creates is a fresh context.
LEMMA NewContextFresh ==
  ASSUME NEW s \in States, NEW kind \in Kinds
  PROVE  /\ Fresh(s, NewContext(s, kind))
         /\ NewContext(s, kind).kind = kind /\ NewContext(s, kind).nearest = 0
<1> DEFINE c == NewContext(s, kind)
           z == [t \in Types |-> 0]
<1>1. z \in [Types -> Int] /\ z \in [Types -> Deltas] /\ s.flag \in Flags
  BY StateFields DEF Deltas
<1>2. c.sum = z /\ c.oldest = z /\ c.bsum = z
  BY DEF NewContext
<1>3. c = [kind |-> kind, sum |-> z, sets |-> {}, oldest |-> z, bsum |-> z,
           bseen |-> {}, count |-> 0, covers |-> FALSE, jumps |-> FALSE, nearest |-> 0,
           unsets |-> {}, entry |-> s.flag, outs |-> {}, undone |-> {}]
  BY DEF NewContext
<1>4. \A t \in Types : z[t] = 0
  OBVIOUS
<1> HIDE DEF z, c
<1>5. c \in Contexts
  BY <1>1, <1>3 DEF Contexts
<1>6. /\ c.entry = s.flag /\ c.sets = {} /\ c.bseen = {} /\ c.count = 0 /\ c.jumps = FALSE
      /\ c.unsets = {} /\ c.outs = {} /\ c.undone = {}
      /\ c.kind = kind /\ c.nearest = 0
  BY <1>3
<1> QED  BY <1>2, <1>4, <1>5, <1>6 DEF Fresh, c

\* What a push does to the stack.
LEMMA PushShape ==
  ASSUME NEW s \in States, NEW c \in Contexts, NEW j \in Nat
  PROVE  LET w == [Push(s, c) EXCEPT !.topJump = j] IN
         /\ w \in States /\ Depth(w) = Depth(s) + 1
         /\ w.flag = s.flag /\ w.topJump = j /\ w.aborted = s.aborted
         /\ \A i \in 1..Depth(s) : w.stack[i] = s.stack[i]
         /\ w.stack[Depth(s) + 1] = c
<1> DEFINE q == Append(s.stack, c)
           w == [Push(s, c) EXCEPT !.topJump = j]
<1>1. /\ q \in Seq(Contexts) /\ Len(q) = Len(s.stack) + 1
      /\ \A i \in 1..Len(s.stack) : q[i] = s.stack[i]
      /\ q[Len(s.stack) + 1] = c
  BY StateFields
<1> HIDE DEF q
<1>2. w = [s EXCEPT !.stack = q, !.topJump = j]
  BY DEF Push, States, q
<1> HIDE DEF w
<1>3. /\ w \in States /\ w.stack = q /\ w.flag = s.flag /\ w.topJump = j
      /\ w.aborted = s.aborted
  BY <1>1, <1>2 DEF States
<1> QED  BY <1>1, <1>3 DEF Depth, w

\* s is ready for context c: a branch opens in a group, whose history it is
\* charged with, and a jump context remembers the innermost one.
PushOK(s, c, j) ==
  /\ Fresh(s, c)
  /\ c.kind = "branch" => Depth(s) > 0 /\ Top(s).kind = "group"
  /\ Depth(s) > 0 /\ Top(s).kind = "group" =>
       OnlyImproves(Top(s), s.flag) /\ GroupOK(Top(s), c.kind = "branch")
  /\ IF c.kind = "jump" THEN j = Depth(s) + 1 /\ c.nearest = s.topJump
                        ELSE j = s.topJump

\* Opening a context keeps the invariant.
LEMMA PushInv ==
  ASSUME NEW s, ClosingInv(s), NEW c, NEW j \in Nat, PushOK(s, c, j)
  PROVE  FlowInv([Push(s, c) EXCEPT !.topJump = j])
<1> DEFINE n == Depth(s)
           w == [Push(s, c) EXCEPT !.topJump = j]
           p == s.stack[n]
<1>0. /\ s \in States /\ n \in Nat /\ c \in Contexts /\ Fresh(s, c) /\ s.flag \in Flags
      /\ s.topJump \in Nat /\ n + 1 \in Nat
  BY StateFields DEF PushOK, Fresh, ClosingInv
<1>1. /\ w \in States /\ Depth(w) = n + 1
      /\ w.flag = s.flag /\ w.topJump = j /\ w.aborted = s.aborted
      /\ \A i \in 1..n : w.stack[i] = s.stack[i]
      /\ w.stack[n + 1] = c
  BY <1>0, PushShape
<1> HIDE DEF w
<1>2. \A i \in 1..n : StackAt(s, i)
  BY DEF ClosingInv, StackOK
<1>3. /\ \A i \in 1..n : ValueAt(w, i) = ValueAt(s, i)
      /\ ValueAt(w, n + 1) = s.flag
  <2>1. ValueAt(w, n + 1) = s.flag
    BY <1>1 DEF ValueAt
  <2>2. ASSUME NEW i \in 1..n
        PROVE  ValueAt(w, i) = ValueAt(s, i)
    <3>1. CASE i = n
      BY <1>0, <1>1, <3>1 DEF ValueAt, Fresh
    <3>2. CASE i # n
      BY <1>0, <1>1, <3>2 DEF ValueAt
    <3> QED  BY <3>1, <3>2
  <2> QED  BY <2>1, <2>2
<1>4. \A i \in 1..n : InCond(w, i) <=> InCond(s, i)
  BY <1>0, <1>1 DEF InCond
<1>5. \A i \in 1..n : InCond(s, i) => \A t \in Types : s.stack[i].entry[t] =>
        /\ t \notin w.stack[i].unsets /\ w.flag[t]
        /\ \A k \in i..Depth(w) : w.stack[k].entry[t]
  <2> SUFFICES ASSUME NEW i \in 1..n, InCond(s, i), NEW t \in Types, s.stack[i].entry[t]
               PROVE  /\ t \notin w.stack[i].unsets /\ w.flag[t]
                      /\ \A k \in i..Depth(w) : w.stack[k].entry[t]
    OBVIOUS
  <2>1. /\ s.flag[t] /\ t \notin s.stack[i].unsets
        /\ \A k \in i..n : s.stack[k].entry[t]
    BY <1>0, CondKeeps DEF ClosingInv
  <2>2. ASSUME NEW k \in i..Depth(w)
        PROVE  w.stack[k].entry[t]
    <3>1. CASE k = n + 1
      BY <1>0, <1>1, <2>1, <3>1 DEF Fresh
    <3>2. CASE k # n + 1
      BY <1>0, <1>1, <2>1, <3>2
    <3> QED  BY <3>1, <3>2
  <2> QED  BY <1>1, <2>1, <2>2
<1>6. ASSUME NEW i \in 1..(n - 1)
      PROVE  StackAt(w, i)
  <2> DEFINE m == n - 1
  <2>1. /\ m \in Nat /\ m < n /\ m < Depth(w) /\ m + 1 = n /\ n \in 1..n
        /\ \A k \in 1..m : k \in 1..n
    BY <1>0, <1>1
  <2> HIDE DEF m
  <2>2. \A k \in 1..m : SameButUnsets(w.stack[k], s.stack[k])
    BY <1>1, <2>1 DEF SameButUnsets
  <2>3. w.stack[m + 1] = s.stack[m + 1]
    BY <1>1, <2>1
  <2>4. \A k \in 1..m : StackAt(w, k)
    BY <1>0, <1>1, <1>2, <1>5, <2>1, <2>2, <2>3, PrefixFrame
  <2> QED  BY <2>4 DEF m
<1>7. ASSUME n > 0
      PROVE  StackAt(w, n)
  <2>0. n \in 1..n /\ p \in Contexts /\ w.stack[n] = p /\ Top(s) = p
    BY <1>0, <1>1, <1>7, StateFields DEF Top
  <2>1. StackAt(s, n) /\ ValueAt(s, n) = s.flag /\ ValueAt(w, n) = s.flag
    BY <1>2, <1>3, <2>0 DEF ValueAt
  <2>2. HistoryOK(p, s.flag) /\ BranchAt(s, n) /\ CondAt(s, n)
    BY <2>1 DEF StackAt
  <2>3. BranchAt(w, n)
    BY <1>0, <1>1, <2>0, <2>2 DEF BranchAt
  <2>4. BranchOpenAt(w, n) = (c.kind = "branch")
    BY <1>0, <1>1 DEF BranchOpenAt
  <2>5. GroupAt(w, n)
    <3>1. p.kind = "group" => OnlyImproves(p, s.flag) /\ GroupOK(p, c.kind = "branch")
      BY <1>7, <2>0, Zenon DEF PushOK
    <3> QED  BY <2>0, <2>1, <2>4, <3>1, Zenon DEF GroupAt
  <2>6. CondAt(w, n)
    <3>1. SUFFICES ASSUME InCond(w, n)
                   PROVE  /\ OnlyImproves(p, s.flag)
                          /\ \A t \in Types : p.entry[t] =>
                               /\ t \notin p.unsets
                               /\ p.kind = "group" => Settled(p, BranchOpenAt(w, n), t) = 0
                               /\ w.flag[t]
                               /\ \A k \in n..Depth(w) : w.stack[k].entry[t]
      BY <2>0, <2>1 DEF CondAt
    <3>2. InCond(s, n)
      BY <1>4, <2>0, <3>1
    <3>3. /\ OnlyImproves(p, s.flag)
          /\ \A t \in Types : p.entry[t] /\ p.kind = "group" => p.bsum[t] = 0
      BY <1>0, <1>7, <2>0, <3>2, TopCond DEF ClosingInv
    <3>4. ASSUME NEW t \in Types, p.entry[t], p.kind = "group"
          PROVE  Settled(p, BranchOpenAt(w, n), t) = 0
      <4>1. p.sum[t] = 0
        BY <2>2, <3>3, <3>4 DEF HistoryOK, OnlyImproves, Value
      <4>2. p.bsum[t] = 0
        BY <3>3, <3>4
      <4> QED  BY <4>1, <4>2 DEF Settled
    <3> QED  BY <1>5, <2>0, <3>2, <3>3, <3>4
  <2> QED  BY <2>0, <2>1, <2>2, <2>3, <2>5, <2>6 DEF StackAt
<1>8. OnlyImproves(c, s.flag) /\ HistoryOK(c, s.flag) /\ GroupOK(c, FALSE)
  <2>1. OnlyImproves(c, s.flag)
    BY <1>0 DEF OnlyImproves, Fresh
  <2>2. HistoryOK(c, s.flag)
    BY <1>0 DEF HistoryOK, Fresh, Value
  <2>3. GroupOK(c, FALSE)
    BY <1>0 DEF GroupOK, Fresh, Settled, SettledCount
  <2> QED  BY <2>1, <2>2, <2>3
<1>9. BranchOpenAt(w, n + 1) = FALSE
  BY <1>0, <1>1 DEF BranchOpenAt
<1>10. StackAt(w, n + 1)
  <2>1. BranchAt(w, n + 1)
    <3>1. c.kind = "branch" => n > 0 /\ s.stack[n].kind = "group"
      BY DEF PushOK, Top
    <3>2. c.jumps = FALSE
      BY <1>0 DEF Fresh
    <3> QED  BY <1>0, <1>1, <3>1, <3>2 DEF BranchAt
  <2>2. CondAt(w, n + 1)
    <3>1. \A t \in Types : Settled(c, BranchOpenAt(w, n + 1), t) = 0
      BY <1>0, <1>9 DEF Settled, Fresh
    <3>2. \A k \in (n + 1)..Depth(w) : w.stack[k] = c
      BY <1>0, <1>1
    <3> QED  BY <1>0, <1>1, <1>3, <1>8, <3>1, <3>2 DEF CondAt, Fresh
  <2>3. HistoryOK(w.stack[n + 1], ValueAt(w, n + 1))
    BY <1>1, <1>3, <1>8
  <2> QED  BY <1>0, <1>1, <2>1, <2>2, <2>3 DEF StackAt
<1>11. StackOK(w)
  <2> SUFFICES ASSUME NEW i \in 1..(n + 1)
               PROVE  StackAt(w, i)
    BY <1>1 DEF StackOK
  <2>1. CASE i = n + 1
    BY <1>10, <2>1
  <2>2. CASE i # n + 1 /\ i = n
    BY <1>0, <1>7, <2>2
  <2>3. CASE i # n + 1 /\ i # n
    BY <1>0, <1>6, <2>3
  <2> QED  BY <2>1, <2>2, <2>3
<1>12. JumpsOK(w)
  <2>1. Innermost(s, s.topJump, n)
    BY DEF ClosingInv, JumpsOK
  <2>2. Innermost(w, w.topJump, n + 1)
    <3>1. CASE c.kind = "jump"
      BY <1>0, <1>1, <3>1 DEF PushOK, Innermost
    <3>2. CASE c.kind # "jump"
      <4>1. j = s.topJump
        BY <3>2 DEF PushOK
      <4> QED  BY <1>0, <1>1, <2>1, <3>2, <4>1 DEF Innermost
    <3> QED  BY <3>1, <3>2
  <2>3. ASSUME NEW i \in 1..(n + 1), w.stack[i].kind = "jump"
        PROVE  Innermost(w, w.stack[i].nearest, i - 1)
    <3>1. CASE i = n + 1
      <4>1. w.stack[i].nearest = s.topJump
        BY <1>1, <2>3, <3>1 DEF PushOK
      <4> QED  BY <1>0, <1>1, <2>1, <3>1, <4>1 DEF Innermost
    <3>2. CASE i # n + 1
      <4>1. i \in 1..n /\ w.stack[i] = s.stack[i]
        BY <1>0, <1>1, <3>2
      <4>2. Innermost(s, s.stack[i].nearest, i - 1)
        BY <2>3, <4>1 DEF ClosingInv, JumpsOK
      <4> QED  BY <1>0, <1>1, <4>1, <4>2 DEF Innermost
    <3> QED  BY <3>1, <3>2
  <2> QED  BY <1>1, <2>2, <2>3 DEF JumpsOK
<1>13. UndoneOK(w)
  <2> SUFFICES ASSUME NEW i \in 1..(n + 1), w.stack[i].kind = "jump"
               PROVE  \A t \in Types : t \in w.stack[i].undone \ w.stack[i].unsets
                        /\ ValueAt(w, i)[t] => t \in w.stack[i].sets
    BY <1>1 DEF UndoneOK
  <2>1. CASE i = n + 1
    BY <1>0, <1>1, <2>1 DEF PushOK, Fresh
  <2>2. CASE i # n + 1
    <3>1. i \in 1..n /\ w.stack[i] = s.stack[i] /\ ValueAt(w, i) = ValueAt(s, i)
      BY <1>0, <1>1, <1>3, <2>2
    <3> QED  BY <3>1 DEF ClosingInv, UndoneOK
  <2> QED  BY <2>1, <2>2
<1>14. GroupAt(w, Depth(w))
  <2>1. Depth(w) > 0 /\ Top(w) = c
    BY <1>0, <1>1 DEF Top
  <2> QED  BY <1>1, <1>8, <2>1, TopGroupAt
<1>15. ~w.aborted
  BY <1>1 DEF ClosingInv
<1> QED  BY <1>1, <1>11, <1>12, <1>13, <1>14, <1>15 DEF FlowInv, ClosingInv, w
-----------------------------------------------------------------------------
(* Steps that change the top context's own members. *)

\* d is context c but for the members of its kind.
SameHistory(c, d) ==
  /\ c.kind = d.kind /\ c.entry = d.entry /\ c.nearest = d.nearest
  /\ c.sum = d.sum /\ c.sets = d.sets /\ c.oldest = d.oldest
  /\ c.unsets = d.unsets /\ c.undone = d.undone

\* Such a change keeps the invariant of the stack, and that of a group as long
\* as the group still accounts for its branches.
LEMMA TopChange ==
  ASSUME NEW s, ClosingInv(s), Depth(s) > 0, NEW d \in Contexts, SameHistory(Top(s), d),
         d.kind = "branch" /\ d.jumps => Mentioned(s.stack[Depth(s) - 1]) = {},
         InCond(s, Depth(s)) =>
           \A t \in Types : d.entry[t] /\ d.kind = "group" => d.bsum[t] = 0
  PROVE  LET w == SetTop(s, d) IN
         /\ ClosingInv(w) /\ Depth(w) = Depth(s) /\ w.flag = s.flag
         /\ Top(w) = d /\ w.topJump = s.topJump
         /\ Below(s, w, Depth(s))
         /\ (d.kind = "group" => OnlyImproves(d, s.flag) /\ GroupOK(d, FALSE)) => FlowInv(w)
<1> DEFINE n == Depth(s)
           c == s.stack[n]
           w == SetTop(s, d)
<1>0. /\ s \in States /\ n \in Nat /\ n \in 1..n /\ c \in Contexts /\ c = Top(s)
  BY StateFields DEF ClosingInv, Top
<1>1. /\ w \in States /\ Depth(w) = n
      /\ w.flag = s.flag /\ w.topJump = s.topJump /\ w.aborted = s.aborted
      /\ \A i \in 1..n : w.stack[i] = IF i = n THEN d ELSE s.stack[i]
  BY <1>0, SetTopShape
<1> HIDE DEF w
<1>2. w.stack[n] = d /\ Top(w) = d
  BY <1>0, <1>1 DEF Top
<1>3. \A i \in 1..n : /\ w.stack[i].kind = s.stack[i].kind
                      /\ w.stack[i].entry = s.stack[i].entry
                      /\ w.stack[i].nearest = s.stack[i].nearest
                      /\ w.stack[i].unsets = s.stack[i].unsets
                      /\ w.stack[i].undone = s.stack[i].undone
                      /\ w.stack[i].sets = s.stack[i].sets
  BY <1>0, <1>1 DEF SameHistory
<1>4. HistoryOK(d, w.flag)
  <2>1. HistoryOK(c, s.flag)
    BY <1>0 DEF ClosingInv, StackOK, StackAt, ValueAt
  <2> QED  BY <1>0, <1>1, <2>1 DEF HistoryOK, SameHistory
<1>5. FrameOK(s, w, n)
  <2>1. \A i \in 1..(n - 1) : SameButUnsets(w.stack[i], s.stack[i])
    BY <1>0, <1>1 DEF SameButUnsets
  <2>2. InCond(s, n) => OnlyImproves(d, w.flag)
    BY <1>0, <1>1, TopCond DEF OnlyImproves, SameHistory, ClosingInv
  <2>3. \A i \in 1..n : InCond(s, i) => \A t \in Types : s.stack[i].entry[t] =>
          w.flag[t] /\ t \notin w.stack[i].unsets
    BY <1>0, <1>1, <1>3, CondKeeps DEF ClosingInv
  <2>4. Innermost(w, w.topJump, n)
    BY <1>0, <1>1, <1>3 DEF ClosingInv, JumpsOK, Innermost
  <2> QED  BY <1>1, <1>2, <1>3, <1>4, <2>1, <2>2, <2>3, <2>4 DEF FrameOK
<1>6. StackOK(w) /\ JumpsOK(w)
  BY <1>0, <1>1, <1>5, Frame
<1>7. UndoneOK(w)
  <2> SUFFICES ASSUME NEW i \in 1..n, w.stack[i].kind = "jump"
               PROVE  \A t \in Types : t \in w.stack[i].undone \ w.stack[i].unsets
                        /\ ValueAt(w, i)[t] => t \in w.stack[i].sets
    BY <1>1 DEF UndoneOK
  <2>1. ValueAt(w, i) = ValueAt(s, i)
    BY <1>0, <1>1, <1>3 DEF ValueAt
  <2> QED  BY <1>3, <2>1 DEF ClosingInv, UndoneOK
<1>8. ClosingInv(w)
  BY <1>1, <1>6, <1>7 DEF ClosingInv
<1>9. ASSUME d.kind = "group" => OnlyImproves(d, s.flag) /\ GroupOK(d, FALSE)
      PROVE  FlowInv(w)
  <2>1. GroupAt(w, Depth(w))
    BY <1>0, <1>1, <1>2, <1>9, TopGroupAt
  <2> QED  BY <1>8, <2>1 DEF FlowInv
<1>10. Below(s, w, n)
  BY <1>3 DEF Below
<1> QED  BY <1>1, <1>2, <1>8, <1>9, <1>10 DEF w

\* flow_set_context_branch_group_covers_all_cases keeps the invariant.
LEMMA CoversInv ==
  ASSUME NEW s, FlowInv(s), Depth(s) > 0, Top(s).kind = "group", NEW x \in BOOLEAN
  PROVE  /\ FlowInv(SetCoversAllCases(s, x)) /\ Depth(SetCoversAllCases(s, x)) = Depth(s)
         /\ Below(s, SetCoversAllCases(s, x), Depth(s))
<1> DEFINE c == Top(s)
           d == [c EXCEPT !.covers = x]
<1>0. ClosingInv(s) /\ s \in States /\ Depth(s) \in Nat /\ c \in Contexts
  BY StateFields DEF FlowInv, ClosingInv, Top
<1>1. /\ d \in Contexts /\ SameHistory(c, d) /\ d.bsum = c.bsum /\ d.bseen = c.bseen
      /\ d.count = c.count /\ d.outs = c.outs /\ d.kind = "group"
  BY <1>0 DEF Contexts, SameHistory
<1>2. OnlyImproves(c, s.flag) /\ GroupOK(c, FALSE)
  BY <1>0, TopGroup
<1> HIDE DEF d
<1>3. OnlyImproves(d, s.flag)
  BY <1>1, <1>2 DEF OnlyImproves, SameHistory
<1>4. GroupOK(d, FALSE)
  BY <1>1, <1>2 DEF GroupOK, Settled, SettledCount, SameHistory
<1>5. InCond(s, Depth(s)) => \A t \in Types : d.entry[t] /\ d.kind = "group" => d.bsum[t] = 0
  BY <1>0, <1>1, TopCond DEF ClosingInv, SameHistory
<1>6. SetCoversAllCases(s, x) = SetTop(s, d)
  BY DEF SetCoversAllCases, d
<1> QED  BY <1>0, <1>1, <1>3, <1>4, <1>5, <1>6, TopChange

\* flow_context_branch_group_add_empty_branch keeps the invariant.
LEMMA EmptyBranchInv ==
  ASSUME NEW s, FlowInv(s), Depth(s) > 0, Top(s).kind = "group"
  PROVE  /\ FlowInv(AddEmptyBranch(s)) /\ Depth(AddEmptyBranch(s)) = Depth(s)
         /\ Below(s, AddEmptyBranch(s), Depth(s))
<1> DEFINE c == Top(s)
           d == [c EXCEPT !.count = @ + 1, !.outs = @ \cup {s.flag}]
<1>0. /\ ClosingInv(s) /\ s \in States /\ Depth(s) \in Nat /\ c \in Contexts
      /\ s.flag \in Flags /\ c.entry \in Flags /\ c.count \in Nat
      /\ \A t \in Types : c.bsum[t] \in Int /\ s.flag[t] \in BOOLEAN /\ c.entry[t] \in BOOLEAN
  BY StateFields DEF FlowInv, ClosingInv, Top, Contexts, Flags
<1>1. /\ d \in Contexts /\ SameHistory(c, d) /\ d.bsum = c.bsum /\ d.bseen = c.bseen
      /\ d.count = c.count + 1 /\ d.outs = c.outs \cup {s.flag} /\ d.kind = "group"
  <2>1. c.count + 1 \in Nat /\ c.outs \cup {s.flag} \in SUBSET Flags
    BY <1>0 DEF Contexts
  <2> QED  BY <1>0, <2>1 DEF Contexts, SameHistory
<1>2. OnlyImproves(c, s.flag) /\ GroupOK(c, FALSE)
  BY <1>0, TopGroup
<1> HIDE DEF d, c
<1>3. OnlyImproves(d, s.flag)
  BY <1>1, <1>2 DEF OnlyImproves, SameHistory
<1>4. GroupOK(d, FALSE)
  <2>1. ASSUME NEW t \in Types
        PROVE  /\ c.entry[t] => -c.count <= c.bsum[t] /\ c.bsum[t] <= 0
               /\ ~c.entry[t] => 0 <= c.bsum[t] /\ c.bsum[t] <= c.count
               /\ (\E o \in c.outs : ~o[t]) =>
                    (IF c.entry[t] THEN c.bsum[t] < 0 ELSE c.bsum[t] < c.count)
               /\ t \notin c.bseen => c.bsum[t] = 0
    BY <1>0, <1>2 DEF GroupOK, Settled, SettledCount
  <2>2. ASSUME NEW t \in Types
        PROVE  /\ d.entry[t] => -(c.count + 1) <= c.bsum[t] /\ c.bsum[t] <= 0
               /\ ~d.entry[t] => 0 <= c.bsum[t] /\ c.bsum[t] <= c.count + 1
               /\ (\E o \in d.outs : ~o[t]) =>
                    (IF d.entry[t] THEN c.bsum[t] < 0 ELSE c.bsum[t] < c.count + 1)
               /\ t \notin d.bseen => c.bsum[t] = 0
    <3>1. c.entry[t] => s.flag[t]
      BY <1>2 DEF OnlyImproves
    <3>2. (\E o \in d.outs : ~o[t]) => (\E o \in c.outs : ~o[t]) \/ ~s.flag[t]
      BY <1>1
    <3>3. d.entry = c.entry /\ d.bseen = c.bseen
      BY <1>1 DEF SameHistory
    <3> QED  BY <1>0, <2>1, <3>1, <3>2, <3>3
  <2> QED  BY <1>0, <1>1, <2>2 DEF GroupOK, Settled, SettledCount
<1>5. InCond(s, Depth(s)) => \A t \in Types : d.entry[t] /\ d.kind = "group" => d.bsum[t] = 0
  BY <1>0, <1>1, TopCond DEF ClosingInv, SameHistory, c
<1>6. AddEmptyBranch(s) = SetTop(s, d)
  BY DEF AddEmptyBranch, d, c
<1> QED  BY <1>0, <1>1, <1>3, <1>4, <1>5, <1>6, TopChange DEF c

\* flow_set_context_always_jumps keeps the invariant when the group of the branch
\* holds no improvements of its own.
LEMMA AlwaysJumpsInv ==
  ASSUME NEW s, FlowInv(s), Depth(s) > 0,
         Top(s).kind = "branch" => Mentioned(Parent(s)) = {}
  PROVE  /\ FlowInv(SetAlwaysJumps(s)) /\ Depth(SetAlwaysJumps(s)) = Depth(s)
         /\ Below(s, SetAlwaysJumps(s), Depth(s))
<1> DEFINE c == Top(s)
           d == [c EXCEPT !.jumps = TRUE]
<1>0. ClosingInv(s) /\ s \in States /\ Depth(s) \in Nat /\ c \in Contexts
  BY StateFields DEF FlowInv, ClosingInv, Top
<1>1. CASE c.kind # "branch"
  BY <1>1 DEF SetAlwaysJumps, Below
<1>2. CASE c.kind = "branch"
  <2>1. d \in Contexts /\ SameHistory(c, d) /\ d.kind = "branch"
    BY <1>0, <1>2 DEF Contexts, SameHistory
  <2>2. Mentioned(s.stack[Depth(s) - 1]) = {}
    BY <1>2 DEF Parent
  <2>3. SetAlwaysJumps(s) = SetTop(s, d)
    BY <1>2 DEF SetAlwaysJumps
  <2> HIDE DEF d
  <2> QED  BY <1>0, <2>1, <2>2, <2>3, TopChange
<1> QED  BY <1>1, <1>2

\* _flow_push_context_branch keeps the invariant: the group is charged with its
\* own history, which the branch starts from.
LEMMA PushBranchInv ==
  ASSUME NEW s, FlowInv(s), Depth(s) > 0, Top(s).kind = "group"
  PROVE  /\ FlowInv(PushBranch(s)) /\ Depth(PushBranch(s)) = Depth(s) + 1
         /\ Below(s, PushBranch(s), Depth(s)) /\ Top(PushBranch(s)).kind = "branch"
<1> DEFINE g == Top(s)
           bs == [t \in Types |-> g.bsum[t] + g.sum[t]]
           sn == g.bseen \cup Mentioned(g)
           h == [AddToBranchHistories(g, g) EXCEPT !.count = g.count + 1]
           u == SetTop(s, h)
           c == NewContext(s, "branch")
<1>0. /\ ClosingInv(s) /\ s \in States /\ Depth(s) \in Nat /\ g \in Contexts
      /\ s.flag \in Flags /\ g.entry \in Flags /\ g.count \in Nat /\ g.bseen \in SUBSET Types
      /\ \A t \in Types : /\ g.bsum[t] \in Int /\ g.sum[t] \in Int
                          /\ s.flag[t] \in BOOLEAN /\ g.entry[t] \in BOOLEAN
  BY StateFields DEF FlowInv, ClosingInv, Top, Contexts, Flags
<1>1. /\ h = [g EXCEPT !.bsum = bs, !.bseen = sn, !.count = g.count + 1]
  BY <1>0 DEF AddToBranchHistories, Contexts
<1>2. bs \in [Types -> Int] /\ sn \in SUBSET Types /\ g.count + 1 \in Nat
  BY <1>0 DEF Mentioned
<1>3. \A t \in Types : bs[t] = g.bsum[t] + g.sum[t]
  OBVIOUS
<1> HIDE DEF bs, sn, h, g
<1>4. /\ h \in Contexts /\ SameHistory(g, h) /\ h.bsum = bs /\ h.bseen = sn
      /\ h.count = g.count + 1 /\ h.outs = g.outs /\ h.kind = "group"
  BY <1>0, <1>1, <1>2 DEF Contexts, SameHistory, g
<1>5. OnlyImproves(g, s.flag) /\ GroupOK(g, FALSE) /\ HistoryOK(g, s.flag)
  <2>1. HistoryOK(g, s.flag)
    BY <1>0 DEF ClosingInv, StackOK, StackAt, ValueAt, Top, g
  <2> QED  BY <1>0, <2>1, TopGroup DEF g
<1>6. \A t \in Types : g.entry[t] => g.sum[t] = 0
  BY <1>0, <1>5 DEF HistoryOK, OnlyImproves, Value
<1>7. OnlyImproves(h, s.flag)
  BY <1>4, <1>5 DEF OnlyImproves, SameHistory
<1>8. GroupOK(h, TRUE)
  <2>1. ASSUME NEW t \in Types
        PROVE  Settled(h, TRUE, t) = Settled(g, FALSE, t)
    BY <1>0, <1>3, <1>4 DEF Settled, SameHistory
  <2>2. SettledCount(h, TRUE) = SettledCount(g, FALSE) /\ SettledCount(g, FALSE) = g.count
    BY <1>0, <1>4 DEF SettledCount
  <2>3. ASSUME NEW t \in Types
        PROVE  /\ t \notin h.bseen => h.bsum[t] = 0
               /\ t \in h.bseen => g.count > 0 \/ h.oldest[t] # 0
    <3>1. /\ t \notin g.bseen => g.bsum[t] = 0
          /\ t \in g.bseen => g.count > 0
      BY <1>0, <1>5 DEF GroupOK, Settled, SettledCount
    <3>2. g.oldest[t] = 0 => g.sum[t] = 0
      BY <1>0, <1>5 DEF HistoryOK, Value
    <3> QED  BY <1>0, <1>3, <1>4, <3>1, <3>2 DEF sn, Mentioned, SameHistory
  <2>4. h.entry = g.entry /\ h.outs = g.outs
    BY <1>4 DEF SameHistory
  <2> HIDE DEF h
  <2> QED  BY <1>0, <1>5, <2>1, <2>2, <2>3, <2>4 DEF GroupOK
<1>9. InCond(s, Depth(s)) => \A t \in Types : h.entry[t] /\ h.kind = "group" => h.bsum[t] = 0
  <2>1. InCond(s, Depth(s)) => \A t \in Types : g.entry[t] => g.bsum[t] = 0
    BY <1>0, TopCond DEF ClosingInv, g
  <2> QED  BY <1>0, <1>3, <1>4, <1>6, <2>1 DEF SameHistory
<1>10. /\ ClosingInv(u) /\ Depth(u) = Depth(s) /\ u.flag = s.flag /\ Top(u) = h
       /\ u.topJump = s.topJump /\ Below(s, u, Depth(s))
  BY <1>0, <1>4, <1>9, TopChange DEF g
<1>11. c = NewContext(u, "branch") /\ PushBranch(s) = Push(u, c)
  BY <1>10 DEF NewContext, PushBranch, h, g
<1>12. u \in States /\ u.topJump \in Nat
  BY <1>10, StateFields DEF ClosingInv
<1> HIDE DEF u, c
<1>13. Fresh(u, c) /\ c.kind = "branch" /\ c \in Contexts
  <2>1. "branch" \in Kinds
    BY DEF Kinds
  <2>2. Fresh(u, c) /\ c.kind = "branch"
    BY <1>11, <1>12, <2>1, NewContextFresh
  <2> QED  BY <2>2 DEF Fresh
<1>14. PushOK(u, c, u.topJump)
  <2>1. GroupOK(Top(u), c.kind = "branch")
    <3>1. (c.kind = "branch") = TRUE
      BY <1>13
    <3> QED  BY <1>8, <1>10, <3>1, Zenon
  <2>2. OnlyImproves(Top(u), u.flag)
    BY <1>7, <1>10
  <2> QED  BY <1>4, <1>10, <1>13, <2>1, <2>2 DEF PushOK
<1>15. [Push(u, c) EXCEPT !.topJump = u.topJump] = Push(u, c)
  BY <1>12 DEF Push, States
<1>16. FlowInv(Push(u, c))
  <2>1. FlowInv([Push(u, c) EXCEPT !.topJump = u.topJump])
    BY <1>10, <1>12, <1>14, PushInv
  <2> QED  BY <1>15, <2>1
<1>17. /\ Depth(Push(u, c)) = Depth(u) + 1
       /\ \A i \in 1..Depth(u) : Push(u, c).stack[i] = u.stack[i]
       /\ Push(u, c).stack[Depth(u) + 1] = c
  BY <1>12, <1>13, <1>15, PushShape
<1>18. Below(s, PushBranch(s), Depth(s)) /\ Top(PushBranch(s)).kind = "branch"
  BY <1>10, <1>11, <1>13, <1>17 DEF Below, Top
<1> QED  BY <1>10, <1>11, <1>16, <1>17, <1>18

\* _flow_push_context_normal and _flow_push_context_branch_group keep the invariant.
LEMMA PushPlainInv ==
  ASSUME NEW s, FlowInv(s), NEW kind \in {"normal", "group"}
  PROVE  /\ FlowInv(Push(s, NewContext(s, kind)))
         /\ Depth(Push(s, NewContext(s, kind))) = Depth(s) + 1
         /\ Below(s, Push(s, NewContext(s, kind)), Depth(s))
         /\ Top(Push(s, NewContext(s, kind))).kind = kind
         /\ Top(Push(s, NewContext(s, kind))).entry = s.flag
<1> DEFINE c == NewContext(s, kind)
<1>0. ClosingInv(s) /\ s \in States /\ Depth(s) \in Nat /\ s.topJump \in Nat
  BY StateFields DEF FlowInv, ClosingInv
<1>1. Fresh(s, c) /\ c.kind = kind
  <2>1. kind \in Kinds
    BY DEF Kinds
  <2> QED  BY <1>0, <2>1, NewContextFresh
<1> HIDE DEF c
<1>2. PushOK(s, c, s.topJump)
  <2>1. Depth(s) > 0 /\ Top(s).kind = "group" =>
          OnlyImproves(Top(s), s.flag) /\ GroupOK(Top(s), c.kind = "branch")
    <3>1. (c.kind = "branch") = FALSE
      BY <1>1
    <3>2. Depth(s) > 0 /\ Top(s).kind = "group" =>
            OnlyImproves(Top(s), s.flag) /\ GroupOK(Top(s), FALSE)
      BY <1>0, TopGroup
    <3> QED  BY <3>1, <3>2, Zenon
  <2>2. c.kind # "branch" /\ c.kind # "jump"
    BY <1>1
  <2> QED  BY <1>1, <2>1, <2>2, Zenon DEF PushOK
<1>3. c \in Contexts
  BY <1>1 DEF Fresh
<1>4. [Push(s, c) EXCEPT !.topJump = s.topJump] = Push(s, c)
  BY <1>0 DEF Push, States
<1>5. FlowInv([Push(s, c) EXCEPT !.topJump = s.topJump])
  BY <1>0, <1>2, PushInv
<1>6. /\ Depth(Push(s, c)) = Depth(s) + 1
      /\ \A i \in 1..Depth(s) : Push(s, c).stack[i] = s.stack[i]
      /\ Push(s, c).stack[Depth(s) + 1] = c
  BY <1>0, <1>3, <1>4, PushShape
<1>7. c.entry = s.flag
  BY <1>1 DEF Fresh
<1>8. Below(s, Push(s, c), Depth(s)) /\ Top(Push(s, c)) = c
  BY <1>6 DEF Below, Top
<1> QED  BY <1>1, <1>4, <1>5, <1>6, <1>7, <1>8 DEF c

\* _flow_push_context_jump keeps the invariant.
LEMMA PushJumpInv ==
  ASSUME NEW s, FlowInv(s)
  PROVE  /\ FlowInv(PushJump(s)) /\ Depth(PushJump(s)) = Depth(s) + 1
         /\ Below(s, PushJump(s), Depth(s)) /\ Top(PushJump(s)).kind = "jump"
<1> DEFINE k == NewContext(s, "jump")
           c == [k EXCEPT !.nearest = s.topJump]
           j == Depth(s) + 1
<1>0. ClosingInv(s) /\ s \in States /\ Depth(s) \in Nat /\ s.topJump \in Nat /\ j \in Nat
  BY StateFields DEF FlowInv, ClosingInv
<1>1. Fresh(s, k) /\ k.kind = "jump"
  <2>1. "jump" \in Kinds
    BY DEF Kinds
  <2> QED  BY <1>0, <2>1, NewContextFresh
<1> HIDE DEF k
<1>2. Fresh(s, c) /\ c.kind = "jump" /\ c.nearest = s.topJump
  BY <1>0, <1>1 DEF Fresh, Contexts
<1>3. PushJump(s) = [Push(s, c) EXCEPT !.topJump = j]
  BY DEF PushJump, k
<1> HIDE DEF c, j
<1>4. PushOK(s, c, j)
  <2>1. Depth(s) > 0 /\ Top(s).kind = "group" =>
          OnlyImproves(Top(s), s.flag) /\ GroupOK(Top(s), c.kind = "branch")
    <3>1. (c.kind = "branch") = FALSE
      BY <1>2
    <3>2. Depth(s) > 0 /\ Top(s).kind = "group" =>
            OnlyImproves(Top(s), s.flag) /\ GroupOK(Top(s), FALSE)
      BY <1>0, TopGroup
    <3> QED  BY <3>1, <3>2, Zenon
  <2>2. c.kind # "branch" /\ c.kind = "jump"
    BY <1>2
  <2>3. j = Depth(s) + 1
    BY DEF j
  <2> QED  BY <1>2, <2>1, <2>2, <2>3, Zenon DEF PushOK
<1>5. c \in Contexts
  BY <1>2 DEF Fresh
<1>6. FlowInv([Push(s, c) EXCEPT !.topJump = j])
  BY <1>0, <1>4, PushInv
<1>7. /\ Depth(PushJump(s)) = Depth(s) + 1
      /\ \A i \in 1..Depth(s) : PushJump(s).stack[i] = s.stack[i]
      /\ PushJump(s).stack[Depth(s) + 1] = c
  BY <1>0, <1>3, <1>5, PushShape
<1>8. Below(s, PushJump(s), Depth(s)) /\ Top(PushJump(s)).kind = "jump"
  BY <1>2, <1>7 DEF Below, Top
<1> QED  BY <1>3, <1>6, <1>7, <1>8
-----------------------------------------------------------------------------
(* The invariant of the specification. *)

\* No context is open at first.
LEMMA InitStateInv == FlowInv(InitState) /\ Depth(InitState) = 0
<1> DEFINE s == InitState
<1>1. s \in States /\ Depth(s) = 0 /\ ~s.aborted /\ s.topJump = 0
  BY DEF InitState, States, Flags, Depth
<1> HIDE DEF s
<1>2. StackOK(s) /\ JumpsOK(s) /\ UndoneOK(s)
  BY <1>1 DEF StackOK, JumpsOK, UndoneOK, Innermost
<1>3. FlowInv(s) /\ Depth(s) = 0
  BY <1>1, <1>2 DEF FlowInv, ClosingInv
<1> QED  BY <1>3 DEF s

LEMMA InitInv == Init => IInv
BY InitStateInv DEF Init, IInv

\* What each pop guarantees, and that no other step closes a context.
StepOK ==
  /\ Popping("branch") => fs'.flag = Top(fs).entry
  /\ Popping("normal") \/ Popping("jump") => \A t \in Types : fs'.flag[t] => Top(fs).entry[t]
  /\ Popping("group") => \A t \in Types : fs'.flag[t] =>
       /\ \A o \in Top(fs).outs : o[t]
       /\ Top(fs).covers \/ Top(fs).entry[t]
  /\ Popping("jump") => \A t \in Top(fs).undone : ~fs'.flag[t]

\* A step that closes no context has nothing to guarantee.
LEMMA NotPopping ==
  ASSUME fs \in States, Depth(fs') >= Depth(fs), Depth(fs') \in Int
  PROVE  StepOK
<1>1. \A kind : ~Popping(kind)
  BY StateFields DEF Popping
<1> QED  BY <1>1 DEF StepOK

\* Every step of disciplined callers keeps the invariant.
LEMMA NextInv ==
  ASSUME Disciplined, IInv, Next
  PROVE  IInv' /\ StepOK
<1> DEFINE n == Depth(fs)
<1>0. FlowInv(fs) /\ ClosingInv(fs) /\ fs \in States /\ n \in Nat /\ fs.topJump \in Nat
  BY StateFields DEF IInv, FlowInv, ClosingInv
<1>i. IInv' <=> FlowInv(fs')
  BY DEF IInv
<1>1. ASSUME NEW t \in Types, SetFlag(t)
      PROVE  IInv' /\ StepOK
  <2>1. /\ n > 0 /\ ~fs.flag[t] /\ fs' = SetFlags(fs, {t}) /\ {t} \in SUBSET Types
    BY <1>1 DEF SetFlag
  <2>2. FlowInv(fs')
    BY <1>0, <2>1, SetInv
  <2>3. Depth(fs') = n
    BY <1>0, <2>1, SetShape
  <2> QED  BY <1>0, <1>i, <2>2, <2>3, NotPopping
<1>2. ASSUME NEW t \in Types, UnsetFlag(t)
      PROVE  IInv' /\ StepOK
  <2>1. /\ n > 0 /\ fs.flag[t] /\ fs' = UnsetFlags(fs, {t}) /\ {t} \in SUBSET Types
        /\ ~InCondition(fs)
    BY <1>2 DEF UnsetFlag, Disciplined
  <2>2. ~InCond(fs, n) /\ Top(fs).kind # "group"
    <3>0. /\ n \in 1..n /\ \A g \in 1..(n - 1) : g \in 1..n
      BY <1>0, <2>1
    <3>1. \A g \in 1..n : fs.stack[g].kind = "group" =>
            g # n /\ fs.stack[g + 1].kind = "branch"
      BY <2>1 DEF InCondition, InConditionAt
    <3>2. Top(fs).kind # "group"
      BY <3>0, <3>1 DEF Top
    <3>3. ~InCond(fs, n)
      BY <3>0, <3>1 DEF InCond
    <3> QED  BY <3>2, <3>3
  <2>3. FlowInv(fs')
    BY <1>0, <2>1, <2>2, UnsetInv
  <2>4. Depth(fs') = n
    BY <1>0, <2>1, UnsetKeeps
  <2> QED  BY <1>0, <1>i, <2>3, <2>4, NotPopping
<1>3. CASE NormalPush
  <2>1. FlowInv(fs') /\ Depth(fs') = n + 1
    BY <1>0, <1>3, PushPlainInv DEF NormalPush, PushNormal
  <2> QED  BY <1>0, <1>i, <2>1, NotPopping
<1>4. CASE GroupPush
  <2>1. FlowInv(fs') /\ Depth(fs') = n + 1
    BY <1>0, <1>4, PushPlainInv DEF GroupPush, PushBranchGroup
  <2> QED  BY <1>0, <1>i, <2>1, NotPopping
<1>5. ASSUME NEW x \in BOOLEAN, GroupCovers(x)
      PROVE  IInv' /\ StepOK
  <2>1. FlowInv(fs') /\ Depth(fs') = n
    BY <1>0, <1>5, CoversInv DEF GroupCovers, TopIs
  <2> QED  BY <1>0, <1>i, <2>1, NotPopping
<1>6. CASE GroupEmptyBranch
  <2>1. FlowInv(fs') /\ Depth(fs') = n
    BY <1>0, <1>6, EmptyBranchInv DEF GroupEmptyBranch, TopIs
  <2> QED  BY <1>0, <1>i, <2>1, NotPopping
<1>7. CASE BranchPush
  <2>1. FlowInv(fs') /\ Depth(fs') = n + 1
    BY <1>0, <1>7, PushBranchInv DEF BranchPush, TopIs
  <2> QED  BY <1>0, <1>i, <2>1, NotPopping
<1>8. CASE AlwaysJumps
  <2>1. FlowInv(fs') /\ Depth(fs') = n
    BY <1>0, <1>8, AlwaysJumpsInv DEF AlwaysJumps, TopIs, Disciplined
  <2> QED  BY <1>0, <1>i, <2>1, NotPopping
<1>9. CASE JumpPush
  <2>1. FlowInv(fs') /\ Depth(fs') = n + 1
    BY <1>0, <1>9, PushJumpInv DEF JumpPush
  <2> QED  BY <1>0, <1>i, <2>1, NotPopping
<1>10. CASE NormalPop
  <2>1. n > 0 /\ Top(fs).kind = "normal" /\ fs' = PopNormal(fs)
    BY <1>10 DEF NormalPop, TopIs
  <2>2. FlowInv(fs') /\ \A t \in Types : fs'.flag[t] => Top(fs).entry[t]
    BY <1>0, <2>1, PopNormalInv
  <2> QED  BY <1>i, <2>1, <2>2 DEF StepOK, Popping, TopIs
<1>11. CASE GroupPop
  <2>1. n > 0 /\ Top(fs).kind = "group" /\ fs' = PopBranchGroup(fs)
    BY <1>11 DEF GroupPop, TopIs
  <2>2. FlowInv(fs') /\ \A t \in Types : fs'.flag[t] =>
          /\ \A o \in Top(fs).outs : o[t]
          /\ Top(fs).covers \/ Top(fs).entry[t]
    BY <1>0, <2>1, PopGroupInv
  <2> QED  BY <1>i, <2>1, <2>2 DEF StepOK, Popping, TopIs
<1>12. CASE BranchPop
  <2>1. n > 0 /\ Top(fs).kind = "branch" /\ fs' = PopBranch(fs)
    BY <1>12 DEF BranchPop, TopIs
  <2>2. FlowInv(fs') /\ fs'.flag = Top(fs).entry
    BY <1>0, <2>1, PopBranchInv
  <2> QED  BY <1>i, <2>1, <2>2 DEF StepOK, Popping, TopIs
<1>13. CASE JumpPop
  <2>1. n > 0 /\ Top(fs).kind = "jump" /\ fs' = PopJump(fs)
    BY <1>13 DEF JumpPop, TopIs
  <2>2. /\ FlowInv(fs') /\ \A t \in Types : fs'.flag[t] => Top(fs).entry[t]
        /\ \A t \in Top(fs).undone : ~fs'.flag[t]
    BY <1>0, <2>1, PopJumpInv
  <2> QED  BY <1>i, <2>1, <2>2 DEF StepOK, Popping, TopIs
<1> QED
  BY <1>1, <1>2, <1>3, <1>4, <1>5, <1>6, <1>7, <1>8, <1>9, <1>10, <1>11, <1>12, <1>13
  DEF Next

\* The invariant holds of every reachable state.
LEMMA Invariance ==
  ASSUME Disciplined
  PROVE  Spec => []IInv
<1>1. Init => IInv
  BY InitInv
<1>2. IInv /\ [Next]_fs => IInv'
  <2>1. ASSUME IInv, Next
        PROVE  IInv'
    BY <2>1, NextInv
  <2>2. ASSUME IInv, UNCHANGED fs
        PROVE  IInv'
    BY <2>2 DEF IInv
  <2> QED  BY <2>1, <2>2
<1> QED  BY <1>1, <1>2, PTL DEF Spec

\* Type correctness: every call leaves a well-formed stack of contexts.
THEOREM TypeCorrect ==
  ASSUME Disciplined
  PROVE  Spec => []TypeOK
<1>1. IInv => TypeOK
  BY DEF IInv, FlowInv, ClosingInv, TypeOK
<1> QED  BY <1>1, Invariance, PTL

\* The history of every open context accounts for the change of every flag since
\* the context was pushed (record_in_history, move_history_to_parent).
THEOREM HistoryIsBalanced ==
  ASSUME Disciplined
  PROVE  Spec => []HistoryBalanced
<1>1. IInv => HistoryBalanced
  BY DEF IInv, FlowInv, ClosingInv, StackOK, StackAt, HistoryOK, HistoryBalanced
<1> QED  BY <1>1, Invariance, PTL

\* No assertion of merge_effects or invariant_delta_sum fails.
THEOREM AssertionsHold ==
  ASSUME Disciplined
  PROVE  Spec => []NoAssertionFails
<1>1. IInv => NoAssertionFails
  BY DEF IInv, FlowInv, ClosingInv, NoAssertionFails
<1> QED  BY <1>1, Invariance, PTL

\* top_jump_context is the innermost open jump context.
THEOREM TopJumpCorrect ==
  ASSUME Disciplined
  PROVE  Spec => []TopJumpIsInnermost
<1>1. IInv => TopJumpIsInnermost
  BY DEF IInv, FlowInv, ClosingInv, JumpsOK, Innermost, TopJumpIsInnermost
<1> QED  BY <1>1, Invariance, PTL

\* Every pop does to the flags what it promises.
LEMMA StepsOK ==
  ASSUME Disciplined
  PROVE  Spec => [][StepOK]_fs
<1>1. IInv /\ [Next]_fs => [StepOK]_fs
  BY NextInv
<1> QED  BY <1>1, Invariance, PTL DEF Spec

\* A popped branch leaves the flags as it found them (_flow_pop_context_branch).
THEOREM BranchesRestore ==
  ASSUME Disciplined
  PROVE  Spec => BranchPopRestores
<1>1. [StepOK]_fs => [Popping("branch") => fs'.flag = Top(fs).entry]_fs
  BY DEF StepOK
<1> QED  BY <1>1, StepsOK, PTL DEF BranchPopRestores

\* What a normal or a jump context improves does not outlive it.
THEOREM ImprovementsScoped ==
  ASSUME Disciplined
  PROVE  Spec => ImprovementsAreScoped
<1>1. [StepOK]_fs => [Popping("normal") \/ Popping("jump")
        => \A t \in Types : fs'.flag[t] => Top(fs).entry[t]]_fs
  BY DEF StepOK
<1> QED  BY <1>1, StepsOK, PTL DEF ImprovementsAreScoped

\* A flag set after a branch group was set at the end of each of its branches
\* (merge_effects).
THEOREM MergesAreSound ==
  ASSUME Disciplined
  PROVE  Spec => MergeIsSound
<1>1. [StepOK]_fs => [Popping("group") => \A t \in Types : fs'.flag[t] =>
        /\ \A o \in Top(fs).outs : o[t]
        /\ Top(fs).covers \/ Top(fs).entry[t]]_fs
  BY DEF StepOK
<1> QED  BY <1>1, StepsOK, PTL DEF MergeIsSound

\* What is un-set within a jump context, but not within another one in it, is unset
\* after it (_flow_pop_context_jump).
THEOREM JumpsArePessimistic ==
  ASSUME Disciplined
  PROVE  Spec => JumpIsPessimistic
<1>1. [StepOK]_fs => [Popping("jump") => \A t \in Top(fs).undone : ~fs'.flag[t]]_fs
  BY DEF StepOK
<1> QED  BY <1>1, StepsOK, PTL DEF JumpIsPessimistic
=============================================================================
