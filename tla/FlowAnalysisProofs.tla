------------------------- MODULE FlowAnalysisProofs -------------------------
(***************************************************************************)
(* Proofs about FlowAnalysis, for every set of variables, every set of     *)
(* globals and every dialect: bodies of any length, nested to any depth.   *)
(*                                                                         *)
(* The handlers of sem.c call flow.c in a discipline of their own: each    *)
(* open block of the body owns the context or the two contexts it pushed.  *)
(* The invariant says how the stack of contexts is cut into those of the   *)
(* open blocks; with it the lemmas of FlowProofs apply to every call that  *)
(* a handler makes.                                                        *)
(*                                                                         *)
(* A second invariant says that the analysed body is well bracketed, from  *)
(* which the execution finds every place it goes to.                       *)
(***************************************************************************)
EXTENDS FlowAnalysis, Recursion, TLAPS

\* The lemmas of FlowProofs about the operators of FlowContext; the bounds play
\* no part in them, and loops and TRY blocks may nest.
F == INSTANCE FlowProofs
       WITH MaxDepth <- 0, MaxBranches <- 0, CallersMay <- {}

\* No condition of an IF calls a procedure, and no branch that always jumps
\* follows a condition whose falsity improved a variable.
Disciplined ==
  /\ "call_in_condition" \notin Shapes
  /\ "jump_after_negative" \notin Shapes

\* The kind of the context that the handler of a block pushes.
CondBlocks == {"if", "else", "switch"}
Ops == CondBlocks \cup {"while", "for", "update", "try", "catch"}

KindOf(op) ==
  IF op \in CondBlocks THEN "group"
  ELSE IF op \in {"update", "catch"} THEN "normal" ELSE "jump"

LoopStates == {"none", "analyze", "reanalyze"}

BlockTypes ==
  [op : Ops, at : Nat, c : AllConds, open : BOOLEAN, bare : BOOLEAN,
   guard : BOOLEAN, jumps : BOOLEAN, saved : LoopStates]

\* Block b owns the contexts from lo + 1 to hi: its group and the branch that is
\* open in it (always one in a SWITCH), or its only context.
BlockAt(s, b, lo, hi) ==
  /\ b.op = "switch" => b.open
  /\ hi = IF b.op \in CondBlocks /\ b.open THEN lo + 2 ELSE lo + 1
  /\ s.stack[lo + 1].kind = KindOf(b.op)
  /\ hi = lo + 2 => s.stack[hi].kind = "branch"

\* The open blocks own all contexts but the first one; d[i] of them lie outside
\* block i.
Cut(s, bs, d) ==
  /\ d \in [1..(Len(bs) + 1) -> Nat \ {0}]
  /\ d[1] = 1 /\ Depth(s) = d[Len(bs) + 1]
  /\ \A i \in 1..(Len(bs) + 1), j \in 1..(Len(bs) + 1) : j <= i => d[j] <= d[i]
  /\ \A i \in 1..Len(bs) : BlockAt(s, bs[i], d[i], d[i + 1])

Nested(s, bs) == \E d : Cut(s, bs, d)

\* The first context is the procedure's own; it started without improvements.
Rooted(s) ==
  /\ Depth(s) > 0
  /\ s.stack[1].kind = "normal"
  /\ \A t \in Types : ~s.stack[1].entry[t]

\* A context above a group is one of its branches: none is open in a condition.
GroupsHaveBranches(s) ==
  \A g \in 1..(Depth(s) - 1) :
    s.stack[g].kind = "group" => s.stack[g + 1].kind = "branch"

Good(s) == F!FlowInv(s) /\ Rooted(s) /\ GroupsHaveBranches(s)

Aligned(s, bs) == Good(s) /\ bs \in Seq(BlockTypes) /\ Nested(s, bs)

\* The inductive invariant.
AnalysisInv ==
  /\ dialect \in DOMAIN Dialects
  /\ loopState \in LoopStates /\ at \in Nat
  /\ phase = "analysis" => Aligned(fs, blocks)
  /\ phase # "analysis" => fs = InitState
-----------------------------------------------------------------------------
(* The operators of the instance are those of FlowContext. *)

\* The assumption of Flow holds of the instance.
LEMMA Bounds == 0 \in Nat /\ {} \subseteq F!Uses
BY DEF F!Uses

\* The analysis reads the same parts of a context in FlowContext and in FlowProofs.
LEMMA SameParts ==
  /\ F!States = States /\ F!Contexts = Contexts /\ F!Flags = Flags
  /\ F!InitState = InitState
  /\ \A s : F!Depth(s) = Depth(s) /\ F!Top(s) = Top(s) /\ F!Parent(s) = Parent(s)
  /\ \A s, c : F!SetTop(s, c) = SetTop(s, c) /\ F!Push(s, c) = Push(s, c)
  /\ \A s, b : F!AssertThat(s, b) = AssertThat(s, b)
  /\ \A s, kind : F!NewContext(s, kind) = NewContext(s, kind)
  /\ \A c : F!Mentioned(c) = Mentioned(c) /\ F!ClearHistory(c) = ClearHistory(c)
  /\ \A c, T, delta : F!Record(c, T, delta) = Record(c, T, delta)
  /\ \A c, d : F!AppendHistory(c, d) = AppendHistory(c, d)
  /\ \A c, d : F!AddToBranchHistories(c, d) = AddToBranchHistories(c, d)
<1>1. F!States = States /\ F!Contexts = Contexts /\ F!Flags = Flags
  BY DEF F!States, States, F!Contexts, Contexts, F!Flags, Flags, F!Kinds, Kinds,
         F!Deltas, Deltas
<1>2. F!InitState = InitState
  BY DEF F!InitState, InitState
<1>3. \A s : F!Depth(s) = Depth(s) /\ F!Top(s) = Top(s) /\ F!Parent(s) = Parent(s)
  BY DEF F!Depth, Depth, F!Top, Top, F!Parent, Parent
<1>4. \A s, c : F!SetTop(s, c) = SetTop(s, c) /\ F!Push(s, c) = Push(s, c)
  BY <1>3, Zenon DEF F!SetTop, SetTop, F!Push, Push
<1>5. \A s, b : F!AssertThat(s, b) = AssertThat(s, b)
  BY Zenon DEF F!AssertThat, AssertThat
<1>6. \A s, kind : F!NewContext(s, kind) = NewContext(s, kind)
  BY Zenon DEF F!NewContext, NewContext
<1>7. \A c : F!Mentioned(c) = Mentioned(c) /\ F!ClearHistory(c) = ClearHistory(c)
  BY Zenon DEF F!Mentioned, Mentioned, F!ClearHistory, ClearHistory
<1>8. \A c, T, delta : F!Record(c, T, delta) = Record(c, T, delta)
  BY Zenon DEF F!Record, Record
<1>9. \A c, d : F!AppendHistory(c, d) = AppendHistory(c, d)
  BY Zenon DEF F!AppendHistory, AppendHistory
<1>10. \A c, d : F!AddToBranchHistories(c, d) = AddToBranchHistories(c, d)
  BY <1>7, Zenon DEF F!AddToBranchHistories, AddToBranchHistories
<1> QED  BY <1>1, <1>2, <1>3, <1>4, <1>5, <1>6, <1>7, <1>8, <1>9, <1>10

\* The calls of flow.c are the same operators in FlowAnalysis and in FlowProofs.
LEMMA SameCalls ==
  ASSUME NEW s
  PROVE  /\ \A T : F!SetFlags(s, T) = SetFlags(s, T)
         /\ \A T : F!UnsetFlags(s, T) = UnsetFlags(s, T)
         /\ F!UnsetAllImprovements(s) = UnsetAllImprovements(s)
         /\ F!MoveHistoryToParentAndDrop(s) = MoveHistoryToParentAndDrop(s)
         /\ F!SetCoversAllCases(s, TRUE) = SetCoversAllCases(s, TRUE)
         /\ F!SetCoversAllCases(s, FALSE) = SetCoversAllCases(s, FALSE)
         /\ F!AddEmptyBranch(s) = AddEmptyBranch(s)
         /\ F!PushBranch(s) = PushBranch(s)
         /\ F!PopBranch(s) = PopBranch(s)
         /\ F!SetAlwaysJumps(s) = SetAlwaysJumps(s)
         /\ F!PushJump(s) = PushJump(s)
<1>1. \A u, T : F!SetFlags(u, T) = SetFlags(u, T)
  BY SameParts, Zenon DEF F!SetFlags, SetFlags
<1>2. \A u, i, T : F!NoteInJump(u, i, T) = NoteInJump(u, i, T)
  BY Zenon DEF F!NoteInJump, NoteInJump, F!Depth, Depth
<1>3. \A u, T : F!UnsetFlags(u, T) = UnsetFlags(u, T)
  BY <1>2, SameParts, Zenon DEF F!UnsetFlags, UnsetFlags
<1>4. F!UnsetAllImprovements(s) = UnsetAllImprovements(s)
  BY <1>3, SameParts, Zenon DEF F!UnsetAllImprovements, UnsetAllImprovements
<1>5. F!MoveHistoryToParentAndDrop(s) = MoveHistoryToParentAndDrop(s)
  <2>1. F!Drop(s) = Drop(s) /\ F!HasParent(s) = HasParent(s)
    BY SameParts, Zenon DEF F!Drop, Drop, F!HasParent, HasParent
  <2>2. \A c : F!DeltaSumsInRange(c) = DeltaSumsInRange(c)
    BY Zenon DEF F!DeltaSumsInRange, DeltaSumsInRange, F!Deltas, Deltas
  <2> QED  BY <2>1, <2>2, SameParts, Zenon
           DEF F!MoveHistoryToParentAndDrop, MoveHistoryToParentAndDrop
<1>6. /\ F!SetCoversAllCases(s, TRUE) = SetCoversAllCases(s, TRUE)
      /\ F!SetCoversAllCases(s, FALSE) = SetCoversAllCases(s, FALSE)
      /\ F!AddEmptyBranch(s) = AddEmptyBranch(s)
      /\ F!SetAlwaysJumps(s) = SetAlwaysJumps(s)
  BY SameParts, Zenon DEF F!SetCoversAllCases, SetCoversAllCases, F!AddEmptyBranch,
     AddEmptyBranch, F!SetAlwaysJumps, SetAlwaysJumps
<1>7. F!PushBranch(s) = PushBranch(s)
  BY SameParts, Zenon DEF F!PushBranch, PushBranch
<1>8. F!PopBranch(s) = PopBranch(s)
  <2>1. F!Drop(s) = Drop(s)
    BY SameParts, Zenon DEF F!Drop, Drop
  <2> QED  BY <2>1, SameParts, Zenon DEF F!PopBranch, PopBranch
<1>9. F!PushJump(s) = PushJump(s)
  BY SameParts, Zenon DEF F!PushJump, PushJump
<1> QED  BY <1>1, <1>3, <1>4, <1>5, <1>6, <1>7, <1>8, <1>9

-----------------------------------------------------------------------------
(* What each call leaves of a good stack of contexts. *)

\* Call s -> w leaves contexts 1..n, with their kinds and what they started from.
Leaves(s, w, n) == Good(w) /\ Depth(w) = n /\ F!Below(s, w, n)

\* Call s -> w pushes a context of this kind.
Adds(s, w, kind) ==
  /\ Good(w) /\ Depth(w) = Depth(s) + 1
  /\ F!Below(s, w, Depth(s)) /\ w.stack[Depth(w)].kind = kind

\* A good state and its top context.
LEMMA GoodParts ==
  ASSUME NEW s, Good(s)
  PROVE  /\ s \in States /\ ~s.aborted /\ Depth(s) \in Nat /\ Depth(s) > 0
         /\ s.flag \in Flags /\ Top(s) = s.stack[Depth(s)]
         /\ F!FlowInv(s) /\ F!ClosingInv(s) /\ s \in F!States /\ F!Depth(s) > 0
         /\ ~F!InCond(s, F!Depth(s))
<1>1. F!ClosingInv(s) /\ s \in F!States /\ ~s.aborted /\ F!FlowInv(s)
  BY DEF Good, F!FlowInv, F!ClosingInv
<1>2. Depth(s) \in Nat /\ s.flag \in Flags
  BY <1>1, Bounds, F!StateFields, SameParts
<1>3. ~F!InCond(s, F!Depth(s))
  BY <1>2, SameParts DEF F!InCond, Good, GroupsHaveBranches
<1> QED  BY <1>1, <1>2, <1>3, SameParts DEF Good, Rooted, Top

\* The contexts that a call leaves have their branches as before.
LEMMA StaysGood ==
  ASSUME NEW s, Good(s), NEW w, F!FlowInv(w), NEW n \in 1..Depth(s),
         Depth(w) = n, F!Below(s, w, n)
  PROVE  Leaves(s, w, n)
<1>1. Depth(s) \in Nat /\ n \in Nat
  BY GoodParts
<1>2. \A i \in 1..n : /\ w.stack[i].kind = s.stack[i].kind
                      /\ w.stack[i].entry = s.stack[i].entry
  BY DEF F!Below
<1>3. Rooted(w)
  BY <1>1, <1>2 DEF Good, Rooted
<1>4. GroupsHaveBranches(w)
  <2> SUFFICES ASSUME NEW g \in 1..(n - 1), w.stack[g].kind = "group"
               PROVE  w.stack[g + 1].kind = "branch"
    BY DEF GroupsHaveBranches
  <2>1. g \in 1..n /\ g + 1 \in 1..n /\ g \in 1..(Depth(s) - 1)
    BY <1>1
  <2> QED  BY <1>2, <2>1 DEF Good, GroupsHaveBranches
<1> QED  BY <1>3, <1>4 DEF Leaves, Good

\* Only a branch is pushed on a group.
LEMMA GrowsGood ==
  ASSUME NEW s, Good(s), NEW w, F!FlowInv(w), Depth(w) = Depth(s) + 1,
         F!Below(s, w, Depth(s)), NEW kind, w.stack[Depth(w)].kind = kind,
         Top(s).kind = "group" => kind = "branch"
  PROVE  Adds(s, w, kind)
<1>1. Depth(s) \in Nat /\ Depth(s) > 0
  BY GoodParts
<1>2. \A i \in 1..Depth(s) : /\ w.stack[i].kind = s.stack[i].kind
                             /\ w.stack[i].entry = s.stack[i].entry
  BY DEF F!Below
<1>3. Rooted(w)
  BY <1>1, <1>2 DEF Good, Rooted
<1>4. GroupsHaveBranches(w)
  <2> SUFFICES ASSUME NEW g \in 1..Depth(s), w.stack[g].kind = "group"
               PROVE  w.stack[g + 1].kind = "branch"
    BY <1>1 DEF GroupsHaveBranches
  <2>1. CASE g = Depth(s)
    BY <1>1, <1>2, <2>1 DEF Top
  <2>2. CASE g # Depth(s)
    <3>1. g \in 1..(Depth(s) - 1) /\ g + 1 \in 1..Depth(s)
      BY <1>1, <2>2
    <3> QED  BY <1>2, <3>1 DEF Good, GroupsHaveBranches
  <2> QED  BY <2>1, <2>2
<1> QED  BY <1>3, <1>4 DEF Adds, Good

\* Two calls in a row.
LEMMA LeavesTrans ==
  ASSUME NEW s, NEW w, NEW x, NEW n \in Nat, NEW m \in Nat, m <= n,
         F!Below(s, w, n), F!Below(w, x, m)
  PROVE  F!Below(s, x, m)
BY DEF F!Below

\* Setting a flag leaves the contexts as they are.
LEMMA ImproveGood ==
  ASSUME NEW s, Good(s), NEW T \in SUBSET Types
  PROVE  Leaves(s, Improve(s, T), Depth(s))
<1> DEFINE U == {v \in T : ~s.flag[v]}
           w == SetFlags(s, U)
<1>1. U \in SUBSET Types /\ \A t \in U : ~s.flag[t]
  OBVIOUS
<1> HIDE DEF U
<1>2. F!FlowInv(F!SetFlags(s, U))
  BY <1>1, GoodParts, Bounds, F!SetInv
<1>3. F!Below(s, F!SetFlags(s, U), F!Depth(s))
  BY <1>1, GoodParts, Bounds, F!SetKeepsBelow
<1>4. F!Depth(F!SetFlags(s, U)) = F!Depth(s)
  BY <1>1, GoodParts, Bounds, F!SetShape
<1>5. F!FlowInv(w) /\ F!Below(s, w, Depth(s)) /\ Depth(w) = Depth(s)
  BY <1>2, <1>3, <1>4, SameParts, SameCalls
<1>6. Depth(s) \in 1..Depth(s)
  BY GoodParts
<1> HIDE DEF w
<1>7. Leaves(s, w, Depth(s))
  BY <1>5, <1>6, StaysGood
<1> QED  BY <1>7 DEF w, U, Improve

\* So does un-setting one, where no condition is open.
LEMMA UnimproveGood ==
  ASSUME NEW s, Good(s), Top(s).kind # "group", NEW T \in SUBSET Types
  PROVE  Leaves(s, Unimprove(s, T), Depth(s))
<1> DEFINE U == {v \in T : s.flag[v]}
           w == UnsetFlags(s, U)
<1>1. U \in SUBSET Types /\ \A t \in U : s.flag[t]
  OBVIOUS
<1> HIDE DEF U
<1>2. F!FlowInv(F!UnsetFlags(s, U))
  BY <1>1, GoodParts, Bounds, F!UnsetInv, SameParts
<1>3. F!Below(s, F!UnsetFlags(s, U), F!Depth(s))
  BY <1>1, GoodParts, Bounds, F!UnsetKeepsBelow
<1>4. F!Depth(F!UnsetFlags(s, U)) = F!Depth(s)
  BY <1>1, GoodParts, Bounds, F!UnsetKeeps
<1>5. F!FlowInv(w) /\ F!Below(s, w, Depth(s)) /\ Depth(w) = Depth(s)
  BY <1>2, <1>3, <1>4, SameParts, SameCalls
<1>6. Depth(s) \in 1..Depth(s)
  BY GoodParts
<1> HIDE DEF w
<1>7. Leaves(s, w, Depth(s))
  BY <1>5, <1>6, StaysGood
<1> QED  BY <1>7 DEF w, U, Unimprove

\* The parameter-free pushes are calls of Push.
LEMMA PushNormalGood ==
  ASSUME NEW s, Good(s), Top(s).kind # "group"
  PROVE  Adds(s, PushNormal(s), "normal")
<1> DEFINE w == PushNormal(s)
<1>1. /\ F!FlowInv(F!Push(s, F!NewContext(s, "normal")))
      /\ F!Depth(F!Push(s, F!NewContext(s, "normal"))) = F!Depth(s) + 1
      /\ F!Below(s, F!Push(s, F!NewContext(s, "normal")), F!Depth(s))
      /\ F!Top(F!Push(s, F!NewContext(s, "normal"))).kind = "normal"
  BY GoodParts, Bounds, F!PushPlainInv
<1>2. F!Push(s, F!NewContext(s, "normal")) = w
  BY SameParts DEF PushNormal
<1>3. /\ F!FlowInv(w) /\ Depth(w) = Depth(s) + 1 /\ F!Below(s, w, Depth(s))
      /\ Top(w).kind = "normal"
  BY <1>1, <1>2, SameParts
<1> HIDE DEF w
<1>4. w.stack[Depth(w)].kind = "normal"
  BY <1>3 DEF Top
<1>5. Adds(s, w, "normal")
  BY <1>3, <1>4, GrowsGood
<1> QED  BY <1>5 DEF w

\* A branch group is pushed on a context that is not itself a group.
LEMMA PushGroupGood ==
  ASSUME NEW s, Good(s), Top(s).kind # "group"
  PROVE  Adds(s, PushBranchGroup(s), "group")
<1> DEFINE w == PushBranchGroup(s)
<1>1. /\ F!FlowInv(F!Push(s, F!NewContext(s, "group")))
      /\ F!Depth(F!Push(s, F!NewContext(s, "group"))) = F!Depth(s) + 1
      /\ F!Below(s, F!Push(s, F!NewContext(s, "group")), F!Depth(s))
      /\ F!Top(F!Push(s, F!NewContext(s, "group"))).kind = "group"
  BY GoodParts, Bounds, F!PushPlainInv
<1>2. F!Push(s, F!NewContext(s, "group")) = w
  BY SameParts DEF PushBranchGroup
<1>3. /\ F!FlowInv(w) /\ Depth(w) = Depth(s) + 1 /\ F!Below(s, w, Depth(s))
      /\ Top(w).kind = "group"
  BY <1>1, <1>2, SameParts
<1> HIDE DEF w
<1>4. w.stack[Depth(w)].kind = "group"
  BY <1>3 DEF Top
<1>5. Adds(s, w, "group")
  BY <1>3, <1>4, GrowsGood
<1> QED  BY <1>5 DEF w

\* A jump context likewise.
LEMMA PushJumpGood ==
  ASSUME NEW s, Good(s), Top(s).kind # "group"
  PROVE  Adds(s, PushJump(s), "jump")
<1> DEFINE w == PushJump(s)
<1>1. /\ F!FlowInv(F!PushJump(s)) /\ F!Depth(F!PushJump(s)) = F!Depth(s) + 1
      /\ F!Below(s, F!PushJump(s), F!Depth(s)) /\ F!Top(F!PushJump(s)).kind = "jump"
  BY GoodParts, Bounds, F!PushJumpInv
<1>2. /\ F!FlowInv(w) /\ Depth(w) = Depth(s) + 1 /\ F!Below(s, w, Depth(s))
      /\ Top(w).kind = "jump"
  BY <1>1, SameParts, SameCalls
<1> HIDE DEF w
<1>3. w.stack[Depth(w)].kind = "jump"
  BY <1>2 DEF Top
<1>4. Adds(s, w, "jump")
  BY <1>2, <1>3, GrowsGood
<1> QED  BY <1>4 DEF w

\* A branch is pushed on its group.
LEMMA PushBranchGood ==
  ASSUME NEW s, Good(s), Top(s).kind = "group"
  PROVE  Adds(s, PushBranch(s), "branch")
<1> DEFINE w == PushBranch(s)
<1>1. /\ F!FlowInv(F!PushBranch(s)) /\ F!Depth(F!PushBranch(s)) = F!Depth(s) + 1
      /\ F!Below(s, F!PushBranch(s), F!Depth(s)) /\ F!Top(F!PushBranch(s)).kind = "branch"
  BY GoodParts, Bounds, F!PushBranchInv, SameParts
<1>2. /\ F!FlowInv(w) /\ Depth(w) = Depth(s) + 1 /\ F!Below(s, w, Depth(s))
      /\ Top(w).kind = "branch"
  BY <1>1, SameParts, SameCalls
<1> HIDE DEF w
<1>3. w.stack[Depth(w)].kind = "branch"
  BY <1>2 DEF Top
<1>4. Adds(s, w, "branch")
  BY <1>2, <1>3, GrowsGood
<1> QED  BY <1>4 DEF w

\* Popping a normal context leaves the contexts below it.
LEMMA PopNormalGood ==
  ASSUME NEW s, Good(s), Top(s).kind = "normal", Depth(s) > 1
  PROVE  Leaves(s, PopNormal(s), Depth(s) - 1)
<1> DEFINE w == PopNormal(s)
<1>1. /\ F!FlowInv(F!PopNormal(s)) /\ F!Depth(F!PopNormal(s)) = F!Depth(s) - 1
      /\ F!Below(s, F!PopNormal(s), F!Depth(s) - 1)
  BY GoodParts, Bounds, F!PopNormalInv, SameParts
<1>2. F!PopNormal(s) = w
  BY SameCalls DEF F!PopNormal, PopNormal
<1>3. F!FlowInv(w) /\ Depth(w) = Depth(s) - 1 /\ F!Below(s, w, Depth(s) - 1)
  BY <1>1, <1>2, SameParts
<1>4. Depth(s) - 1 \in 1..Depth(s)
  BY GoodParts
<1> HIDE DEF w
<1>5. Leaves(s, w, Depth(s) - 1)
  BY <1>3, <1>4, StaysGood
<1> QED  BY <1>5 DEF w

\* So does popping a jump context.
LEMMA PopJumpGood ==
  ASSUME NEW s, Good(s), Top(s).kind = "jump", Depth(s) > 1
  PROVE  Leaves(s, PopJump(s), Depth(s) - 1)
<1> DEFINE w == PopJump(s)
<1>1. /\ F!FlowInv(F!PopJump(s)) /\ F!Depth(F!PopJump(s)) = F!Depth(s) - 1
      /\ F!Below(s, F!PopJump(s), F!Depth(s) - 1)
  BY GoodParts, Bounds, F!PopJumpInv, SameParts
<1>2. F!PopJump(s) = w
  BY SameCalls, SameParts, Zenon DEF F!PopJump, PopJump
<1>3. F!FlowInv(w) /\ Depth(w) = Depth(s) - 1 /\ F!Below(s, w, Depth(s) - 1)
  BY <1>1, <1>2, SameParts
<1>4. Depth(s) - 1 \in 1..Depth(s)
  BY GoodParts
<1> HIDE DEF w
<1>5. Leaves(s, w, Depth(s) - 1)
  BY <1>3, <1>4, StaysGood
<1> QED  BY <1>5 DEF w

\* So does popping a branch group that has had a branch.
LEMMA PopGroupGood ==
  ASSUME NEW s, Good(s), Top(s).kind = "group", Depth(s) > 1
  PROVE  Leaves(s, PopBranchGroup(s), Depth(s) - 1)
<1> DEFINE w == PopBranchGroup(s)
<1>1. /\ F!FlowInv(F!PopBranchGroup(s)) /\ F!Depth(F!PopBranchGroup(s)) = F!Depth(s) - 1
      /\ F!Below(s, F!PopBranchGroup(s), F!Depth(s) - 1)
  BY GoodParts, Bounds, F!PopGroupInv, SameParts
<1>2. F!PopBranchGroup(s) = w
  <2>1. \A u, t : F!MergeAsserts(u, t) = MergeAsserts(u, t)
    BY SameParts, Zenon DEF F!MergeAsserts, MergeAsserts
  <2>2. \A u : F!MergeEffects(u) = MergeEffects(u)
    BY <2>1, SameCalls, SameParts, Zenon DEF F!MergeEffects, MergeEffects
  <2> QED  BY <2>2, SameCalls, SameParts, Zenon DEF F!PopBranchGroup, PopBranchGroup
<1>3. F!FlowInv(w) /\ Depth(w) = Depth(s) - 1 /\ F!Below(s, w, Depth(s) - 1)
  BY <1>1, <1>2, SameParts
<1>4. Depth(s) - 1 \in 1..Depth(s)
  BY GoodParts
<1> HIDE DEF w
<1>5. Leaves(s, w, Depth(s) - 1)
  BY <1>3, <1>4, StaysGood
<1> QED  BY <1>5 DEF w

\* Popping a branch leaves its group, which now has had one.
LEMMA PopBranchGood ==
  ASSUME NEW s, Good(s), Top(s).kind = "branch", Depth(s) > 1
  PROVE  Leaves(s, PopBranch(s), Depth(s) - 1)
<1> DEFINE w == PopBranch(s)
<1>1. /\ F!FlowInv(F!PopBranch(s)) /\ F!Depth(F!PopBranch(s)) = F!Depth(s) - 1
      /\ F!Below(s, F!PopBranch(s), F!Depth(s) - 1)
  BY GoodParts, Bounds, F!PopBranchInv, SameParts
<1>2. F!FlowInv(w) /\ Depth(w) = Depth(s) - 1 /\ F!Below(s, w, Depth(s) - 1)
  BY <1>1, SameCalls, SameParts
<1>3. Depth(s) - 1 \in 1..Depth(s)
  BY GoodParts
<1> HIDE DEF w
<1>4. Leaves(s, w, Depth(s) - 1)
  BY <1>2, <1>3, StaysGood
<1> QED  BY <1>4 DEF w

\* Noting that a group covers every case leaves the contexts.
LEMMA CoversGood ==
  ASSUME NEW s, Good(s), Top(s).kind = "group", NEW b \in BOOLEAN
  PROVE  Leaves(s, SetCoversAllCases(s, b), Depth(s))
<1> DEFINE w == SetCoversAllCases(s, b)
<1>1. /\ F!FlowInv(F!SetCoversAllCases(s, b))
      /\ F!Depth(F!SetCoversAllCases(s, b)) = F!Depth(s)
      /\ F!Below(s, F!SetCoversAllCases(s, b), F!Depth(s))
  BY GoodParts, Bounds, F!CoversInv, SameParts
<1>2. F!SetCoversAllCases(s, b) = w
  BY SameCalls
<1>3. F!FlowInv(w) /\ Depth(w) = Depth(s) /\ F!Below(s, w, Depth(s))
  BY <1>1, <1>2, SameParts
<1>4. Depth(s) \in 1..Depth(s)
  BY GoodParts
<1> HIDE DEF w
<1>5. Leaves(s, w, Depth(s))
  BY <1>3, <1>4, StaysGood
<1> QED  BY <1>5 DEF w

\* The empty branch that sem.c adds for a missing ELSE leaves the contexts.
LEMMA EmptyBranchGood ==
  ASSUME NEW s, Good(s), Top(s).kind = "group"
  PROVE  Leaves(s, AddEmptyBranch(s), Depth(s))
<1> DEFINE w == AddEmptyBranch(s)
<1>1. /\ F!FlowInv(F!AddEmptyBranch(s)) /\ F!Depth(F!AddEmptyBranch(s)) = F!Depth(s)
      /\ F!Below(s, F!AddEmptyBranch(s), F!Depth(s))
  BY GoodParts, Bounds, F!EmptyBranchInv, SameParts
<1>2. F!FlowInv(w) /\ Depth(w) = Depth(s) /\ F!Below(s, w, Depth(s))
  BY <1>1, SameCalls, SameParts
<1>3. Depth(s) \in 1..Depth(s)
  BY GoodParts
<1> HIDE DEF w
<1>4. Leaves(s, w, Depth(s))
  BY <1>2, <1>3, StaysGood
<1> QED  BY <1>4 DEF w

\* Marking the current branch as one that always jumps leaves the contexts.
LEMMA AlwaysJumpsGood ==
  ASSUME NEW s, Good(s), Top(s).kind = "branch" => Mentioned(Parent(s)) = {}
  PROVE  Leaves(s, SetAlwaysJumps(s), Depth(s))
<1> DEFINE w == SetAlwaysJumps(s)
<1>1. /\ F!FlowInv(F!SetAlwaysJumps(s)) /\ F!Depth(F!SetAlwaysJumps(s)) = F!Depth(s)
      /\ F!Below(s, F!SetAlwaysJumps(s), F!Depth(s))
  BY GoodParts, Bounds, F!AlwaysJumpsInv, SameParts
<1>2. F!FlowInv(w) /\ Depth(w) = Depth(s) /\ F!Below(s, w, Depth(s))
  BY <1>1, SameCalls, SameParts
<1>3. Depth(s) \in 1..Depth(s)
  BY GoodParts
<1> HIDE DEF w
<1>4. Leaves(s, w, Depth(s))
  BY <1>2, <1>3, StaysGood
<1> QED  BY <1>4 DEF w

-----------------------------------------------------------------------------
(* How the contexts of the open blocks change. *)

\* The first n members of a sequence.
LEMMA Prefix ==
  ASSUME NEW B, NEW bs \in Seq(B), NEW n \in Nat, n <= Len(bs)
  PROVE  /\ SubSeq(bs, 1, n) \in Seq(B) /\ Len(SubSeq(bs, 1, n)) = n
         /\ \A i \in 1..n : SubSeq(bs, 1, n)[i] = bs[i]
OBVIOUS

\* The blocks around the innermost one keep their contexts when it is closed.
LEMMA LastBlock ==
  ASSUME NEW bs \in Seq(BlockTypes), bs # << >>
  PROVE  /\ Len(bs) \in Nat /\ Len(bs) > 0 /\ Last(bs) = bs[Len(bs)]
         /\ Last(bs) \in BlockTypes
         /\ Front(bs) \in Seq(BlockTypes) /\ Len(Front(bs)) = Len(bs) - 1
         /\ \A i \in 1..(Len(bs) - 1) : Front(bs)[i] = bs[i]
<1>1. Len(bs) \in Nat /\ Len(bs) > 0 /\ Len(bs) - 1 \in Nat
  OBVIOUS
<1>2. Last(bs) = bs[Len(bs)] /\ Last(bs) \in BlockTypes
  BY <1>1 DEF Last
<1> DEFINE m == Len(bs) - 1
<1>3. m \in Nat /\ m <= Len(bs) /\ Front(bs) = SubSeq(bs, 1, m)
  BY <1>1 DEF Front
<1> HIDE DEF m
<1>4. /\ SubSeq(bs, 1, m) \in Seq(BlockTypes) /\ Len(SubSeq(bs, 1, m)) = m
      /\ \A i \in 1..m : SubSeq(bs, 1, m)[i] = bs[i]
  BY <1>3, Prefix
<1>5. /\ Front(bs) \in Seq(BlockTypes) /\ Len(Front(bs)) = m
      /\ \A i \in 1..m : Front(bs)[i] = bs[i]
  BY <1>3, <1>4
<1> QED  BY <1>1, <1>2, <1>5 DEF m

\* Replacing the innermost block leaves the ones around it.
LEMMA ReplacedBlock ==
  ASSUME NEW bs \in Seq(BlockTypes), bs # << >>, NEW b \in BlockTypes
  PROVE  LET cs == [bs EXCEPT ![Len(bs)] = b] IN
         /\ cs \in Seq(BlockTypes) /\ Len(cs) = Len(bs) /\ cs[Len(bs)] = b
         /\ \A i \in 1..(Len(bs) - 1) : cs[i] = bs[i]
OBVIOUS

\* A block keeps its contexts as long as they and its own fields are kept.
LEMMA SameBlockAt ==
  ASSUME NEW s, NEW w, NEW lo \in Nat, NEW hi \in Nat, NEW b, NEW c,
         BlockAt(s, b, lo, hi), NEW n \in Nat, hi <= n, F!Below(s, w, n),
         c.op = b.op, c.open = b.open
  PROVE  BlockAt(w, c, lo, hi)
<1>1. lo + 1 \in 1..n /\ hi \in 1..n
  BY DEF BlockAt
<1> QED  BY <1>1 DEF BlockAt, F!Below

\* The contexts of the innermost block start above context lo.
OwnedFrom(s, bs, lo) ==
  /\ lo > 0 /\ lo < Depth(s)
  /\ BlockAt(s, Last(bs), lo, Depth(s))
  \* the block is closed
  /\ \A w : Leaves(s, w, lo) => Aligned(w, Front(bs))
  \* the block goes on, in contexts of its own
  /\ \A w : \A b \in BlockTypes :
       /\ Good(w) /\ Depth(w) > lo /\ F!Below(s, w, lo)
       /\ BlockAt(w, b, lo, Depth(w))
       => Aligned(w, [bs EXCEPT ![Len(bs)] = b])

\* The contexts of the innermost block are those above the ones around it.
LEMMA InnerBlock ==
  ASSUME NEW s, NEW bs, Aligned(s, bs), bs # << >>
  PROVE  \E lo \in Nat : OwnedFrom(s, bs, lo)
<1> DEFINE n == Len(bs)
<1>1. PICK d : Cut(s, bs, d)
  BY DEF Aligned, Nested
<1> DEFINE lo == d[n]
<1>2. /\ bs \in Seq(BlockTypes) /\ n \in Nat /\ n > 0 /\ Depth(s) \in Nat
      /\ Last(bs) = bs[n] /\ Last(bs) \in BlockTypes
  BY LastBlock, GoodParts DEF Aligned
<1>3. /\ d \in [1..(n + 1) -> Nat \ {0}] /\ d[1] = 1 /\ Depth(s) = d[n + 1]
      /\ \A i \in 1..(n + 1), j \in 1..(n + 1) : j <= i => d[j] <= d[i]
      /\ \A i \in 1..n : BlockAt(s, bs[i], d[i], d[i + 1])
  BY <1>1 DEF Cut
<1>4. n \in 1..n /\ n \in 1..(n + 1) /\ n + 1 \in 1..(n + 1) /\ lo \in Nat /\ lo > 0
  BY <1>2, <1>3
<1>5. BlockAt(s, Last(bs), lo, Depth(s))
  BY <1>2, <1>3, <1>4
<1>6. lo < Depth(s)
  BY <1>2, <1>4, <1>5 DEF BlockAt
<1>7. ASSUME NEW w, Leaves(s, w, lo)
      PROVE  Aligned(w, Front(bs))
  <2> DEFINE e == [i \in 1..n |-> d[i]]
             fr == Front(bs)
  <2>1. Good(w) /\ Depth(w) = lo /\ F!Below(s, w, lo)
    BY <1>7 DEF Leaves
  <2>2. fr \in Seq(BlockTypes) /\ Len(fr) = n - 1 /\ \A i \in 1..(n - 1) : fr[i] = bs[i]
    BY <1>2, LastBlock
  <2> HIDE DEF fr
  <2>3. Cut(w, fr, e)
    <3>1. /\ e \in [1..n -> Nat \ {0}] /\ e[1] = 1 /\ Depth(w) = e[n]
          /\ \A i \in 1..n, j \in 1..n : j <= i => e[j] <= e[i]
      BY <1>2, <1>3, <1>4, <2>1
    <3>2. ASSUME NEW i \in 1..(n - 1)
          PROVE  BlockAt(w, fr[i], e[i], e[i + 1])
      <4>1. /\ i \in 1..n /\ i + 1 \in 1..n /\ i \in 1..(n + 1) /\ i + 1 \in 1..(n + 1)
            /\ i + 1 <= n
        BY <1>2
      <4>2. /\ BlockAt(s, bs[i], d[i], d[i + 1]) /\ d[i] \in Nat /\ d[i + 1] \in Nat
            /\ d[i + 1] <= lo
        BY <1>3, <1>4, <4>1
      <4>3. BlockAt(w, fr[i], d[i], d[i + 1])
        BY <1>4, <2>1, <2>2, <4>2, SameBlockAt
      <4> QED  BY <4>1, <4>3
    <3>3. n - 1 + 1 = n
      BY <1>2
    <3> HIDE DEF e, lo
    <3> QED  BY <2>2, <3>1, <3>2, <3>3 DEF Cut
  <2> QED  BY <2>1, <2>2, <2>3 DEF Aligned, Nested, fr
<1>8. ASSUME NEW w, NEW b \in BlockTypes, Good(w), Depth(w) > lo, F!Below(s, w, lo),
             BlockAt(w, b, lo, Depth(w))
      PROVE  Aligned(w, [bs EXCEPT ![n] = b])
  <2> DEFINE e == [d EXCEPT ![n + 1] = Depth(w)]
             cs == [bs EXCEPT ![n] = b]
  <2>1. /\ cs \in Seq(BlockTypes) /\ Len(cs) = n /\ cs[n] = b
        /\ \A i \in 1..(n - 1) : cs[i] = bs[i]
    BY <1>2, ReplacedBlock
  <2>2. Depth(w) \in Nat
    BY <1>8, GoodParts
  <2> HIDE DEF cs
  <2>3. \A i \in 1..(n + 1) : e[i] = IF i = n + 1 THEN Depth(w) ELSE d[i]
    BY <1>3
  <2>4. e \in [1..(n + 1) -> Nat \ {0}]
    BY <1>3, <1>4, <1>8, <2>2
  <2> HIDE DEF e
  <2>5. e[1] = 1 /\ Depth(w) = e[n + 1] /\ e[n] = lo
    BY <1>2, <1>3, <1>4, <2>3
  <2>6. ASSUME NEW i \in 1..(n + 1), NEW j \in 1..(n + 1), j <= i
        PROVE  e[j] <= e[i]
    <3>1. CASE i # n + 1
      BY <1>2, <1>3, <2>3, <2>6, <3>1
    <3>2. CASE i = n + 1 /\ j # n + 1
      <4>1. j <= n
        BY <1>2, <3>2
      <4>2. d[j] <= lo /\ d[j] \in Nat
        BY <1>3, <1>4, <4>1
      <4> HIDE DEF lo
      <4> QED  BY <1>4, <1>8, <2>2, <2>3, <3>2, <4>2
    <3>3. CASE i = n + 1 /\ j = n + 1
      BY <2>2, <2>3, <3>3
    <3> QED  BY <3>1, <3>2, <3>3
  <2>7. ASSUME NEW i \in 1..n
        PROVE  BlockAt(w, cs[i], e[i], e[i + 1])
    <3>1. CASE i = n
      BY <1>2, <1>8, <2>1, <2>5, <3>1
    <3>2. CASE i # n
      <4>1. i \in 1..(n - 1) /\ i \in 1..(n + 1) /\ i + 1 \in 1..(n + 1) /\ i + 1 <= n
        BY <1>2, <3>2
      <4>2. /\ BlockAt(s, bs[i], d[i], d[i + 1]) /\ d[i] \in Nat /\ d[i + 1] \in Nat
            /\ d[i + 1] <= lo /\ e[i] = d[i] /\ e[i + 1] = d[i + 1]
        <5>1. BlockAt(s, bs[i], d[i], d[i + 1]) /\ d[i] \in Nat /\ d[i + 1] \in Nat
          BY <1>3, <4>1
        <5>2. d[i + 1] <= d[n]
          BY <1>3, <1>4, <4>1
        <5>3. e[i] = d[i] /\ e[i + 1] = d[i + 1]
          BY <1>2, <2>3, <4>1
        <5> QED  BY <5>1, <5>2, <5>3
      <4>3. BlockAt(w, cs[i], d[i], d[i + 1])
        BY <1>4, <1>8, <2>1, <4>1, <4>2, SameBlockAt
      <4> QED  BY <4>2, <4>3
    <3> QED  BY <3>1, <3>2
  <2>8. Cut(w, cs, e)
    BY <2>1, <2>4, <2>5, <2>6, <2>7 DEF Cut
  <2> QED  BY <1>8, <2>1, <2>8 DEF Aligned, Nested, cs
<1> HIDE DEF lo
<1> QED  BY <1>4, <1>5, <1>6, <1>7, <1>8 DEF OwnedFrom

\* A statement was analysed in the current list.
LEMMA WithinAligned ==
  ASSUME NEW s, NEW bs, Aligned(s, bs)
  PROVE  /\ Aligned(s, Within(bs)) /\ Len(Within(bs)) = Len(bs)
         /\ bs = << >> => Within(bs) = << >>
         /\ bs # << >> => /\ Within(bs) = [bs EXCEPT ![Len(bs)] = [Last(bs) EXCEPT !.bare = FALSE]]
                          /\ Within(bs) # << >> /\ Last(Within(bs)) = [Last(bs) EXCEPT !.bare = FALSE]
<1>1. CASE bs = << >>
  BY <1>1 DEF Within
<1>2. CASE bs # << >>
  <2> DEFINE b == [Last(bs) EXCEPT !.bare = FALSE]
             cs == [bs EXCEPT ![Len(bs)] = b]
  <2>1. /\ bs \in Seq(BlockTypes) /\ Len(bs) \in Nat /\ Len(bs) > 0
        /\ Last(bs) = bs[Len(bs)] /\ Last(bs) \in BlockTypes
    BY <1>2, LastBlock DEF Aligned
  <2>2. b \in BlockTypes /\ b.op = Last(bs).op /\ b.open = Last(bs).open
    BY <2>1 DEF BlockTypes
  <2>3. Within(bs) = cs
    BY <1>2, <2>1 DEF Within
  <2>4. Aligned(s, cs)
    <3>1. PICK lo \in Nat : OwnedFrom(s, bs, lo)
      BY <1>2, InnerBlock
    <3>2. F!Below(s, s, lo) /\ Good(s)
      BY DEF F!Below, Aligned
    <3>3. BlockAt(s, b, lo, Depth(s))
      BY <2>2, <3>1 DEF OwnedFrom, BlockAt
    <3> HIDE DEF b
    <3> QED  BY <2>2, <3>1, <3>2, <3>3 DEF OwnedFrom
  <2> HIDE DEF b
  <2>5. cs \in Seq(BlockTypes) /\ Len(cs) = Len(bs) /\ cs[Len(bs)] = b
    BY <1>2, <2>1, <2>2, ReplacedBlock
  <2> HIDE DEF cs
  <2>6. cs # << >> /\ Last(cs) = b
    BY <2>1, <2>5 DEF Last
  <2> QED  BY <1>2, <2>3, <2>4, <2>5, <2>6 DEF b, cs
<1> QED  BY <1>1, <1>2

\* A block is opened, with the contexts that its handler has pushed.
LEMMA OpensAligned ==
  ASSUME NEW s, NEW bs, Aligned(s, bs), NEW w, NEW b \in BlockTypes,
         Good(w), Depth(w) > Depth(s), F!Below(s, w, Depth(s)),
         BlockAt(w, b, Depth(s), Depth(w))
  PROVE  Aligned(w, Append(bs, b))
<1> DEFINE n == Len(bs)
           cs == Append(bs, b)
<1>1. PICK d : Cut(s, bs, d)
  BY DEF Aligned, Nested
<1>2. n \in Nat /\ Depth(s) \in Nat /\ Depth(w) \in Nat /\ bs \in Seq(BlockTypes)
  BY GoodParts DEF Aligned
<1>3. /\ cs \in Seq(BlockTypes) /\ Len(cs) = n + 1 /\ cs[n + 1] = b
      /\ \A i \in 1..n : cs[i] = bs[i]
  BY <1>2
<1>4. /\ d \in [1..(n + 1) -> Nat \ {0}] /\ d[1] = 1 /\ Depth(s) = d[n + 1]
      /\ \A i \in 1..(n + 1), j \in 1..(n + 1) : j <= i => d[j] <= d[i]
      /\ \A i \in 1..n : BlockAt(s, bs[i], d[i], d[i + 1])
  BY <1>1 DEF Cut
<1> DEFINE e == [i \in 1..(n + 2) |-> IF i = n + 2 THEN Depth(w) ELSE d[i]]
<1> HIDE DEF cs
<1>5. e \in [1..(n + 2) -> Nat \ {0}]
  BY <1>2, <1>4
<1>6. e[n + 2] = Depth(w) /\ \A i \in 1..(n + 1) : e[i] = d[i]
  BY <1>2
<1> HIDE DEF e
<1>7. ASSUME NEW i \in 1..(n + 2), NEW j \in 1..(n + 2), j <= i
      PROVE  e[j] <= e[i]
  <2>1. CASE i \in 1..(n + 1)
    <3>1. j \in 1..(n + 1)
      BY <1>2, <1>7, <2>1
    <3> QED  BY <1>4, <1>6, <1>7, <2>1, <3>1
  <2>2. CASE i = n + 2 /\ j \in 1..(n + 1)
    <3>1. n + 1 \in 1..(n + 1) /\ j <= n + 1
      BY <1>2, <2>2
    <3>2. d[j] <= Depth(s) /\ d[j] \in Nat
      BY <1>4, <2>2, <3>1
    <3> QED  BY <1>2, <1>6, <2>2, <3>2
  <2>3. CASE i = n + 2 /\ j = n + 2
    BY <1>2, <1>6, <2>3
  <2> QED  BY <1>2, <2>1, <2>2, <2>3
<1>8. ASSUME NEW i \in 1..(n + 1)
      PROVE  BlockAt(w, cs[i], e[i], e[i + 1])
  <2>1. CASE i = n + 1
    <3>1. i \in 1..(n + 1) /\ i + 1 = n + 2
      BY <1>2, <2>1
    <3> QED  BY <1>3, <1>4, <1>6, <2>1, <3>1
  <2>2. CASE i # n + 1
    <3>1. /\ i \in 1..n /\ i + 1 \in 1..(n + 1) /\ n + 1 \in 1..(n + 1)
          /\ i + 1 <= n + 1
      BY <1>2, <2>2
    <3>2. BlockAt(s, bs[i], d[i], d[i + 1]) /\ d[i] \in Nat /\ d[i + 1] \in Nat
      BY <1>4, <3>1
    <3>3. d[i + 1] <= Depth(s)
      BY <1>4, <3>1
    <3>4. BlockAt(w, cs[i], d[i], d[i + 1])
      BY <1>2, <1>3, <3>1, <3>2, <3>3, SameBlockAt
    <3> QED  BY <1>6, <3>1, <3>4
  <2> QED  BY <2>1, <2>2
<1>9. Cut(w, cs, e)
  <2>1. Len(cs) + 1 = n + 2 /\ 1 \in 1..(n + 1)
    BY <1>2, <1>3
  <2>2. e[1] = 1 /\ Depth(w) = e[n + 2]
    BY <1>4, <1>6, <2>1
  <2> QED  BY <1>3, <1>5, <1>7, <1>8, <2>1, <2>2 DEF Cut
<1> QED  BY <1>3, <1>9 DEF Aligned, Nested, cs

\* The innermost block and the current context.
LEMMA BlockShape ==
  ASSUME NEW s, Good(s), NEW b \in BlockTypes, NEW lo \in Nat, BlockAt(s, b, lo, Depth(s))
  PROVE  /\ b.op \in CondBlocks /\ b.open =>
              /\ Depth(s) = lo + 2 /\ Top(s).kind = "branch"
              /\ s.stack[lo + 1].kind = "group"
         /\ b.op \in CondBlocks /\ ~b.open =>
              Depth(s) = lo + 1 /\ Top(s).kind = "group"
         /\ b.op \notin CondBlocks =>
              Depth(s) = lo + 1 /\ Top(s).kind = KindOf(b.op)
         /\ b.open => Top(s).kind # "group"
<1>1. b.open \in BOOLEAN /\ Depth(s) \in Nat
  BY GoodParts DEF BlockTypes
<1> QED  BY <1>1 DEF BlockAt, Top, KindOf

\* Where a statement may follow, the current context is not a group.
LEMMA TopWhereOpen ==
  ASSUME NEW s, NEW bs, Aligned(s, bs), bs # << >> => Last(bs).open
  PROVE  Top(s).kind # "group"
<1>1. CASE bs = << >>
  <2>1. PICK d : Cut(s, bs, d)
    BY DEF Aligned, Nested
  <2>2. Depth(s) = 1
    BY <1>1, <2>1 DEF Cut
  <2> QED  BY <2>2 DEF Aligned, Good, Rooted, Top
<1>2. CASE bs # << >>
  <2>1. PICK lo \in Nat : BlockAt(s, Last(bs), lo, Depth(s))
    BY <1>2, InnerBlock DEF OwnedFrom
  <2>2. Last(bs) \in BlockTypes /\ Good(s)
    BY <1>2, LastBlock DEF Aligned
  <2> QED  BY <1>2, <2>1, <2>2, BlockShape
<1> QED  BY <1>1, <1>2

\* A call that leaves every context leaves the blocks' contexts.
LEMMA LeavesAligned ==
  ASSUME NEW s, NEW bs, Aligned(s, bs), NEW w, Leaves(s, w, Depth(s))
  PROVE  Aligned(w, bs)
<1>1. /\ Good(w) /\ Depth(w) = Depth(s) /\ F!Below(s, w, Depth(s))
      /\ Depth(s) \in Nat /\ bs \in Seq(BlockTypes)
  BY GoodParts DEF Leaves, Aligned
<1>2. PICK d : Cut(s, bs, d)
  BY DEF Aligned, Nested
<1>3. Cut(w, bs, d)
  <2>1. ASSUME NEW i \in 1..Len(bs)
        PROVE  BlockAt(w, bs[i], d[i], d[i + 1])
    <3>1. /\ i \in 1..(Len(bs) + 1) /\ i + 1 \in 1..(Len(bs) + 1) /\ i + 1 <= Len(bs) + 1
          /\ Len(bs) + 1 \in 1..(Len(bs) + 1)
      BY <1>1
    <3>2. BlockAt(s, bs[i], d[i], d[i + 1]) /\ d[i] \in Nat /\ d[i + 1] \in Nat
      BY <1>2, <3>1 DEF Cut
    <3>3. d[i + 1] <= Depth(s)
      BY <1>2, <3>1 DEF Cut
    <3> QED  BY <1>1, <3>2, <3>3, SameBlockAt
  <2> QED  BY <1>1, <1>2, <2>1 DEF Cut
<1> QED  BY <1>1, <1>3 DEF Aligned, Nested
-----------------------------------------------------------------------------
(* The handlers of statements. *)

\* What a handler does not change.
LEMMA HandlerInv ==
  ASSUME AnalysisInv, phase = "analysis", UNCHANGED <<dialect, phase>>,
         loopState' \in LoopStates, at' \in Nat, Aligned(fs', blocks')
  PROVE  AnalysisInv'
BY DEF AnalysisInv

\* A statement that leaves every open context keeps the invariant.
LEMMA StatementInv ==
  ASSUME AnalysisInv, NEW tok, NEW s, Statement(tok, s), Leaves(fs, s, Depth(fs))
  PROVE  AnalysisInv'
<1>1. /\ phase = "analysis" /\ UNCHANGED <<dialect, phase>>
      /\ loopState' = loopState /\ fs' = s /\ blocks' = Within(blocks) /\ at' = at + 1
  BY DEF Statement, MayFollow, Advance, rvars
<1>2. Aligned(s, Within(blocks))
  BY <1>1, LeavesAligned, WithinAligned DEF AnalysisInv
<1>3. loopState' \in LoopStates /\ at' \in Nat
  BY <1>1 DEF AnalysisInv
<1> QED  BY <1>1, <1>2, <1>3, HandlerInv

\* The state in which a statement is analysed.
LEMMA FollowGood ==
  ASSUME AnalysisInv, MayFollow
  PROVE  /\ phase = "analysis" /\ Good(fs) /\ Aligned(fs, blocks)
         /\ Top(fs).kind # "group" /\ blocks \in Seq(BlockTypes)
<1>1. phase = "analysis" /\ (blocks # << >> => Last(blocks).open)
  BY DEF MayFollow, Block
<1> QED  BY <1>1, TopWhereOpen DEF AnalysisInv, Aligned

\* Nothing happened to the flow contexts.
LEMMA SameLeaves ==
  ASSUME NEW s, Good(s)
  PROVE  Leaves(s, s, Depth(s))
BY DEF Leaves, F!Below

\* The statements without blocks: assignments, calls and un-sets.
LEMMA SimpleInv ==
  ASSUME AnalysisInv,
         \/ AnalyseRead
         \/ \E v \in Dialect.vars : AnalyseSetNull(v)
         \/ \E v \in Dialect.vars : AnalyseSetVal(v)
         \/ \E v, w \in Dialect.vars : AnalyseCopy(v, w)
         \/ AnalyseCall
  PROVE  AnalysisInv'
<1>1. Dialect.vars \subseteq Types /\ Globals \subseteq Types
  BY FlowAnalysisAssumption DEF AnalysisInv, Dialect, IsDialect
<1>2. CASE AnalyseRead
  <2>1. Leaves(fs, fs, Depth(fs))
    BY <1>2, FollowGood, SameLeaves DEF AnalyseRead, Statement
  <2> QED  BY <1>2, <2>1, StatementInv DEF AnalyseRead
<1>3. ASSUME NEW v \in Dialect.vars, AnalyseSetNull(v)
      PROVE  AnalysisInv'
  <2>1. Leaves(fs, Unimprove(fs, {v}), Depth(fs))
    BY <1>1, <1>3, FollowGood, UnimproveGood DEF AnalyseSetNull, Statement
  <2> QED  BY <1>3, <2>1, StatementInv DEF AnalyseSetNull
<1>4. ASSUME NEW v \in Dialect.vars, AnalyseSetVal(v)
      PROVE  AnalysisInv'
  <2>1. Leaves(fs, Improve(fs, {v}), Depth(fs))
    BY <1>1, <1>4, FollowGood, ImproveGood DEF AnalyseSetVal, Statement
  <2> QED  BY <1>4, <2>1, StatementInv DEF AnalyseSetVal
<1>5. ASSUME NEW v \in Dialect.vars, NEW w \in Dialect.vars, AnalyseCopy(v, w)
      PROVE  AnalysisInv'
  <2> DEFINE s == IF fs.flag[w] THEN Improve(fs, {v}) ELSE Unimprove(fs, {v})
  <2>1. /\ Leaves(fs, Improve(fs, {v}), Depth(fs))
        /\ Leaves(fs, Unimprove(fs, {v}), Depth(fs))
    BY <1>1, <1>5, FollowGood, ImproveGood, UnimproveGood DEF AnalyseCopy, Statement
  <2>2. Leaves(fs, s, Depth(fs))
    BY <2>1
  <2>3. Statement(NewToken("copy", v, w, NoCond, FALSE, 0), s)
    BY <1>5 DEF AnalyseCopy
  <2> HIDE DEF s
  <2> QED  BY <2>2, <2>3, StatementInv
<1>6. CASE AnalyseCall
  <2>1. Leaves(fs, Unimprove(fs, Globals), Depth(fs))
    BY <1>1, <1>6, FollowGood, UnimproveGood DEF AnalyseCall, Statement
  <2> QED  BY <1>6, <2>1, StatementInv DEF AnalyseCall
<1> QED  BY <1>2, <1>3, <1>4, <1>5, <1>6

\* Noting something else of the innermost block.
LEMMA NotedAligned ==
  ASSUME NEW s, NEW bs, Aligned(s, bs), bs # << >>, NEW b \in BlockTypes,
         b.op = Last(bs).op, b.open = Last(bs).open
  PROVE  Aligned(s, [bs EXCEPT ![Len(bs)] = b])
<1>1. PICK lo \in Nat : OwnedFrom(s, bs, lo)
  BY InnerBlock
<1>2. F!Below(s, s, lo) /\ Good(s)
  BY DEF F!Below, Aligned
<1>3. BlockAt(s, b, lo, Depth(s))
  BY <1>1 DEF OwnedFrom, BlockAt
<1> QED  BY <1>1, <1>2, <1>3 DEF OwnedFrom

\* The statements that jump: LEAVE, CONTINUE, RETURN, THROW.
LEMMA ControlInv ==
  ASSUME Disciplined, AnalysisInv, NEW op, NEW link, Control(op, link)
  PROVE  AnalysisInv'
<1> DEFINE cs == Within(blocks)
           b == [Last(cs) EXCEPT !.jumps = TRUE]
           s == SetAlwaysJumps(fs)
<1>1. /\ MayFollow /\ blocks # << >> /\ UNCHANGED <<dialect, phase>>
      /\ Top(fs).kind = "branch" => Mentioned(Parent(fs)) = {}
      /\ loopState' = loopState /\ fs' = s /\ at' = at + 1
      /\ blocks' = [cs EXCEPT ![Len(blocks)].jumps = TRUE]
  BY DEF Control, Advance, rvars, Disciplined
<1>2. Leaves(fs, s, Depth(fs)) /\ phase = "analysis" /\ Aligned(fs, blocks)
  BY <1>1, FollowGood, AlwaysJumpsGood
<1> HIDE DEF s
<1>3. Aligned(s, blocks)
  BY <1>2, LeavesAligned
<1>4. Aligned(s, cs) /\ Len(cs) = Len(blocks) /\ cs # << >>
  BY <1>1, <1>3, WithinAligned
<1> HIDE DEF cs
<1>5. cs \in Seq(BlockTypes) /\ Last(cs) = cs[Len(cs)] /\ Last(cs) \in BlockTypes
  BY <1>4, LastBlock DEF Aligned
<1>6. b \in BlockTypes /\ b.op = Last(cs).op /\ b.open = Last(cs).open
  BY <1>5 DEF BlockTypes
<1>7. blocks' = [cs EXCEPT ![Len(cs)] = b]
  BY <1>1, <1>4, <1>5
<1> HIDE DEF b
<1>8. Aligned(fs', blocks')
  <2>1. Aligned(s, [cs EXCEPT ![Len(cs)] = b])
    BY <1>4, <1>6, NotedAligned
  <2> QED  BY <1>1, <1>7, <2>1
<1>9. loopState' \in LoopStates /\ at' \in Nat
  BY <1>1 DEF AnalysisInv
<1> QED  BY <1>1, <1>2, <1>8, <1>9, HandlerInv

\* The pushed contexts of a new block.
LEMMA OpenedInv ==
  ASSUME AnalysisInv, MayFollow, NEW op \in Ops, NEW c \in AllConds, NEW open \in BOOLEAN,
         UNCHANGED <<dialect, phase>>, loopState' \in LoopStates, Advance,
         blocks' = Append(Within(blocks), NewBlock(op, c, open)),
         Good(fs'), Depth(fs') > Depth(fs), F!Below(fs, fs', Depth(fs)),
         BlockAt(fs', NewBlock(op, c, open), Depth(fs), Depth(fs'))
  PROVE  AnalysisInv'
<1> DEFINE b == NewBlock(op, c, open)
<1>1. phase = "analysis" /\ Aligned(fs, Within(blocks))
  BY FollowGood, WithinAligned
<1>2. b \in BlockTypes
  <2>1. at \in Nat /\ loopState \in LoopStates
    BY DEF AnalysisInv
  <2> QED  BY <2>1 DEF NewBlock, BlockTypes
<1> HIDE DEF b
<1>3. Aligned(fs', blocks')
  BY <1>1, <1>2, OpensAligned DEF b
<1>4. at' \in Nat
  BY DEF Advance, AnalysisInv
<1> QED  BY <1>1, <1>3, <1>4, HandlerInv

\* The state in which a block is ended or continued; the contexts below lo are
\* those of the blocks around it.
LEMMA CloseGood ==
  ASSUME AnalysisInv, NEW ops, MayClose(ops)
  PROVE  /\ phase = "analysis" /\ Good(fs) /\ Aligned(fs, blocks) /\ blocks # << >>
         /\ Block \in BlockTypes /\ Block.op \in ops /\ Block = blocks[Len(blocks)]
         /\ Len(blocks) \in Nat /\ blocks \in Seq(BlockTypes) /\ Block = Last(blocks)
BY LastBlock DEF MayClose, AnalysisInv, Aligned, Block

\* A block is closed, its contexts having been popped.
LEMMA ClosedInv ==
  ASSUME AnalysisInv, phase = "analysis", UNCHANGED <<dialect, phase>>, Advance,
         loopState' \in LoopStates, NEW lo, OwnedFrom(fs, blocks, lo),
         Leaves(fs, fs', lo), blocks' = Front(blocks)
  PROVE  AnalysisInv'
<1>1. at' \in Nat /\ Aligned(fs', blocks')
  BY DEF Advance, AnalysisInv, OwnedFrom
<1> QED  BY <1>1, HandlerInv

-----------------------------------------------------------------------------
(* IF and SWITCH. *)

\* The branch for the statements of an alternative: a condition is set and the branch pushed.
LEMMA OpenBranchGood ==
  ASSUME NEW s, Good(s), Top(s).kind = "group", NEW c \in AllConds, ~c.call,
         NEW empty \in BOOLEAN
  PROVE  LET w == OpenBranch(s, c, empty) IN
         /\ Good(w) /\ F!Below(s, w, Depth(s))
         /\ Depth(w) = IF empty THEN Depth(s) ELSE Depth(s) + 1
         /\ ~empty => w.stack[Depth(w)].kind = "branch"
<1> DEFINE T == IF c.k = "and" THEN c.vs ELSE {}
           U == IF c.k = "or" THEN c.vs ELSE {}
<1>1. T \in SUBSET Types /\ U \in SUBSET Types /\ Depth(s) \in Nat
  BY GoodParts DEF AllConds
<1>2. CASE empty
  <2> DEFINE u == AddEmptyBranch(s)
             w == Improve(u, U)
  <2>1. OpenBranch(s, c, empty) = w
    BY <1>2 DEF OpenBranch, AnalyseCond, ImproveIfFalse
  <2>2. Leaves(s, u, Depth(s))
    BY EmptyBranchGood
  <2> HIDE DEF u, U
  <2>3. Leaves(u, w, Depth(u))
    BY <1>1, <2>2, ImproveGood DEF Leaves
  <2> HIDE DEF w
  <2>4. Good(w) /\ Depth(w) = Depth(s) /\ F!Below(s, w, Depth(s))
    BY <1>1, <2>2, <2>3, LeavesTrans DEF Leaves
  <2> QED  BY <1>2, <2>1, <2>4
<1>3. CASE ~empty
  <2> DEFINE u == PushBranch(s)
             w == Improve(u, T)
  <2>1. OpenBranch(s, c, empty) = w
    BY <1>3 DEF OpenBranch, AnalyseCond, ImproveIfTrue
  <2>2. Adds(s, u, "branch")
    BY PushBranchGood
  <2> HIDE DEF u, T
  <2>3. Leaves(u, w, Depth(u))
    BY <1>1, <2>2, ImproveGood DEF Adds
  <2> HIDE DEF w
  <2>4. Good(w) /\ Depth(w) = Depth(s) + 1
    BY <2>2, <2>3 DEF Adds, Leaves
  <2>5. F!Below(s, w, Depth(s))
    <3>1. F!Below(s, u, Depth(s)) /\ F!Below(u, w, Depth(u)) /\ Depth(u) = Depth(s) + 1
      BY <2>2, <2>3 DEF Adds, Leaves
    <3> QED  BY <1>1, <3>1 DEF F!Below
  <2>6. w.stack[Depth(w)].kind = "branch"
    <3>1. Depth(w) = Depth(u) /\ Depth(u) \in 1..Depth(u)
      BY <1>1, <2>2, <2>3 DEF Adds, Leaves
    <3>2. w.stack[Depth(u)].kind = u.stack[Depth(u)].kind
      BY <2>3, <3>1 DEF Leaves, F!Below
    <3> QED  BY <2>2, <3>1, <3>2 DEF Adds
  <2> QED  BY <1>3, <2>1, <2>4, <2>5, <2>6
<1> QED  BY <1>2, <1>3

\* After the statements of a branch the group is the current context.
LEMMA BranchClosed ==
  ASSUME NEW s, NEW bs, Aligned(s, bs), bs # << >>, NEW lo \in Nat, OwnedFrom(s, bs, lo),
         Last(bs).op \in CondBlocks, Last(bs).open
  PROVE  LET w == PopBranch(s) IN
         Leaves(s, w, lo + 1) /\ Top(w).kind = "group"
<1> DEFINE w == PopBranch(s)
<1>1. Good(s) /\ Last(bs) \in BlockTypes /\ BlockAt(s, Last(bs), lo, Depth(s)) /\ lo > 0
  BY LastBlock DEF Aligned, OwnedFrom
<1>2. Depth(s) = lo + 2 /\ Top(s).kind = "branch" /\ s.stack[lo + 1].kind = "group"
  BY <1>1, BlockShape
<1>3. Leaves(s, w, lo + 1)
  BY <1>1, <1>2, PopBranchGood
<1> HIDE DEF w
<1>4. Top(w).kind = "group"
  BY <1>2, <1>3 DEF Leaves, F!Below, Top
<1> QED  BY <1>3, <1>4 DEF w

\* The same where a condition may have had no statements.
LEMMA ClosedSoFarGood ==
  ASSUME Aligned(fs, blocks), blocks # << >>, NEW lo \in Nat, OwnedFrom(fs, blocks, lo),
         Block.op \in CondBlocks
  PROVE  Leaves(fs, ClosedSoFar, lo + 1) /\ Top(ClosedSoFar).kind = "group"
<1>1. /\ Good(fs) /\ Block = Last(blocks) /\ Block \in BlockTypes /\ lo > 0
      /\ BlockAt(fs, Block, lo, Depth(fs))
  BY LastBlock DEF Aligned, Block, OwnedFrom
<1>2. CASE Block.open
  <2> DEFINE u == PopBranch(fs)
             U == IF Block.c.k = "or" THEN Block.c.vs ELSE {}
             w == Improve(u, U)
  <2>1. Leaves(fs, u, lo + 1) /\ Top(u).kind = "group"
    BY <1>1, <1>2, BranchClosed
  <2>2. U \in SUBSET Types
    BY <1>1 DEF BlockTypes, AllConds
  <2>3. ClosedSoFar = w
    BY <1>2 DEF ClosedSoFar, CloseBranch, ImproveIfFalse
  <2> HIDE DEF u, U
  <2>4. Leaves(u, w, lo + 1)
    BY <2>1, <2>2, ImproveGood DEF Leaves
  <2> HIDE DEF w
  <2>5. Leaves(fs, w, lo + 1)
    BY <2>1, <2>4, LeavesTrans DEF Leaves
  <2>6. Top(w).kind = "group"
    BY <2>1, <2>4 DEF Leaves, F!Below, Top
  <2> QED  BY <2>3, <2>5, <2>6
<1>3. CASE ~Block.open
  <2>1. Depth(fs) = lo + 1 /\ Top(fs).kind = "group"
    BY <1>1, <1>3, BlockShape
  <2>2. Leaves(fs, fs, lo + 1)
    BY <1>1, <2>1, SameLeaves
  <2> QED  BY <1>3, <2>1, <2>2 DEF ClosedSoFar
<1> QED  BY <1>2, <1>3

\* sem_if_stmt up to the statements of its first branch.
LEMMA IfInv ==
  ASSUME Disciplined, AnalysisInv, NEW c \in Dialect.conds, NEW empty \in BOOLEAN,
         AnalyseIf(c, empty)
  PROVE  AnalysisInv'
<1> DEFINE u == PushBranchGroup(fs)
           w == OpenBranch(u, c, empty)
           b == NewBlock("if", c, ~empty)
<1>1. c \in AllConds /\ ~c.call
  BY FlowAnalysisAssumption
     DEF AnalysisInv, Dialect, IsDialect, AnalyseIf, CondAllowed, Disciplined
<1>2. /\ MayFollow /\ fs' = w /\ blocks' = Append(Within(blocks), b)
      /\ UNCHANGED <<dialect, phase>> /\ Advance /\ loopState' \in LoopStates
  BY DEF AnalyseIf, rvars, AnalysisInv
<1>3. Good(fs) /\ Top(fs).kind # "group" /\ Depth(fs) \in Nat /\ Depth(fs) > 0
  BY <1>2, FollowGood, GoodParts
<1>4. Adds(fs, u, "group")
  BY <1>3, PushGroupGood
<1> HIDE DEF u
<1>5. /\ Good(u) /\ Depth(u) = Depth(fs) + 1 /\ F!Below(fs, u, Depth(fs))
      /\ u.stack[Depth(u)].kind = "group" /\ Top(u).kind = "group"
  BY <1>4 DEF Adds, Top
<1>6. /\ Good(w) /\ F!Below(u, w, Depth(u))
      /\ Depth(w) = IF empty THEN Depth(u) ELSE Depth(u) + 1
      /\ ~empty => w.stack[Depth(w)].kind = "branch"
  BY <1>1, <1>5, OpenBranchGood
<1> HIDE DEF w
<1>7. F!Below(fs, w, Depth(fs)) /\ w.stack[Depth(fs) + 1].kind = "group"
  BY <1>3, <1>5, <1>6 DEF F!Below
<1>8. BlockAt(w, b, Depth(fs), Depth(w)) /\ Depth(w) > Depth(fs)
  <2>1. b.op = "if" /\ b.op \in CondBlocks /\ (b.open <=> ~empty)
    BY DEF NewBlock, CondBlocks
  <2> HIDE DEF b
  <2> QED  BY <1>3, <1>5, <1>6, <1>7, <2>1 DEF BlockAt, KindOf
<1>9. "if" \in Ops /\ (~empty) \in BOOLEAN
  BY DEF Ops, CondBlocks
<1> QED  BY <1>1, <1>2, <1>6, <1>7, <1>8, <1>9, OpenedInv

\* The next alternative of an IF or a SWITCH, for which s was set up above lo.
LEMMA AlternativeInv ==
  ASSUME AnalysisInv, NEW ops, MayClose(ops), ops \subseteq CondBlocks,
         NEW tok, tok.empty \in BOOLEAN, "switch" \in ops => ~tok.empty, NEW c \in AllConds, NEW seen, NEW s,
         Alternative(tok, seen, s, c), NEW lo \in Nat, OwnedFrom(fs, blocks, lo),
         Good(s), F!Below(fs, s, lo), s.stack[lo + 1].kind = "group",
         Depth(s) = IF tok.empty THEN lo + 1 ELSE lo + 2,
         ~tok.empty => s.stack[lo + 2].kind = "branch"
  PROVE  AnalysisInv'
<1> DEFINE b == [Block EXCEPT !.c = c, !.open = ~tok.empty, !.bare = ~tok.empty,
                              !.guard = FALSE, !.jumps = FALSE,
                              !.op = IF tok.op = "else" THEN "else" ELSE Block.op]
<1>1. /\ phase = "analysis" /\ blocks # << >> /\ Block \in BlockTypes /\ Block.op \in ops
      /\ Block = blocks[Len(blocks)]
  BY CloseGood
<1>2. fs' = s /\ UNCHANGED <<dialect, phase>> /\ at' = at + 1 /\ loopState' = loopState
  BY DEF Alternative, rvars, Advance
<1>3. blocks' = [blocks EXCEPT ![Len(blocks)] = b]
  BY Zenon DEF Alternative
<1>4. Block.op \in Ops /\ (IF tok.op = "else" THEN "else" ELSE Block.op) \in CondBlocks
  BY <1>1 DEF CondBlocks, Ops
<1>5. /\ b \in BlockTypes /\ b.op \in CondBlocks /\ (b.open <=> ~tok.empty)
      /\ b.op = "switch" => ~tok.empty
  BY <1>1, <1>4 DEF BlockTypes, Ops
<1> HIDE DEF b
<1>6. BlockAt(s, b, lo, Depth(s)) /\ Depth(s) > lo
  BY <1>5 DEF BlockAt, KindOf
<1>7. Aligned(s, [blocks EXCEPT ![Len(blocks)] = b])
  BY <1>5, <1>6 DEF OwnedFrom
<1>8. Aligned(fs', blocks')
  BY <1>2, <1>3, <1>7
<1>9. loopState' \in LoopStates /\ at' \in Nat
  BY <1>2 DEF AnalysisInv
<1> QED  BY <1>1, <1>2, <1>8, <1>9, HandlerInv

\* ELSE IF: the next branch of the group of an IF.
LEMMA ElseIfInv ==
  ASSUME Disciplined, AnalysisInv, NEW c \in Dialect.conds, NEW empty \in BOOLEAN,
         AnalyseElseIf(c, empty)
  PROVE  AnalysisInv'
<1> DEFINE tok == NewToken("elseif", NoVar, NoVar, c, empty, Block.at)
           u == ClosedSoFar
           w == OpenBranch(u, c, empty)
<1>1. c \in AllConds /\ ~c.call
  BY FlowAnalysisAssumption
     DEF AnalysisInv, Dialect, IsDialect, AnalyseElseIf, CondAllowed, Disciplined
<1>2. MayClose({"if"}) /\ Alternative(tok, u, w, c)
  BY DEF AnalyseElseIf
<1>3. tok.empty = empty /\ {"if"} \subseteq CondBlocks
  BY DEF NewToken, CondBlocks
<1> HIDE DEF tok
<1>4. Aligned(fs, blocks) /\ blocks # << >> /\ Block.op \in CondBlocks
  BY <1>2, <1>3, CloseGood
<1>5. PICK lo \in Nat : OwnedFrom(fs, blocks, lo)
  BY <1>4, InnerBlock
<1>6. Leaves(fs, u, lo + 1) /\ Top(u).kind = "group"
  BY <1>4, <1>5, ClosedSoFarGood
<1> HIDE DEF u
<1>7. Good(u) /\ Depth(u) = lo + 1 /\ F!Below(fs, u, lo + 1) /\ u.stack[lo + 1].kind = "group"
  BY <1>6 DEF Leaves, Top
<1>8. /\ Good(w) /\ F!Below(u, w, lo + 1)
      /\ Depth(w) = IF empty THEN lo + 1 ELSE lo + 2
      /\ ~empty => w.stack[lo + 2].kind = "branch"
  <2>1. /\ Good(w) /\ F!Below(u, w, Depth(u))
        /\ Depth(w) = IF empty THEN Depth(u) ELSE Depth(u) + 1
        /\ ~empty => w.stack[Depth(w)].kind = "branch"
    BY <1>1, <1>6, <1>7, OpenBranchGood
  <2> HIDE DEF w
  <2>2. lo + 1 + 1 = lo + 2
    OBVIOUS
  <2> QED  BY <1>7, <2>1, <2>2
<1> HIDE DEF w
<1>9. F!Below(fs, w, lo) /\ w.stack[lo + 1].kind = "group"
  BY <1>7, <1>8 DEF F!Below
<1> QED  BY <1>1, <1>2, <1>3, <1>5, <1>8, <1>9, AlternativeInv

\* ELSE: the last branch of a group, which covers every case.
LEMMA ElseInv ==
  ASSUME AnalysisInv, NEW empty \in BOOLEAN, AnalyseElse(empty)
  PROVE  AnalysisInv'
<1> DEFINE tok == NewToken("else", NoVar, NoVar, NoCond, empty, Block.at)
           u == ClosedSoFar
           x == SetCoversAllCases(u, TRUE)
           w == IF empty THEN AddEmptyBranch(x) ELSE PushBranch(x)
<1>1. NoCond \in AllConds
  BY DEF NoCond, AllConds
<1>2. MayClose({"if"}) /\ Alternative(tok, x, w, NoCond)
  BY DEF AnalyseElse
<1>3. tok.empty = empty /\ {"if"} \subseteq CondBlocks
  BY DEF NewToken, CondBlocks
<1> HIDE DEF tok
<1>4. Aligned(fs, blocks) /\ blocks # << >> /\ Block.op \in CondBlocks
  BY <1>2, <1>3, CloseGood
<1>5. PICK lo \in Nat : OwnedFrom(fs, blocks, lo)
  BY <1>4, InnerBlock
<1>6. Leaves(fs, u, lo + 1) /\ Top(u).kind = "group"
  BY <1>4, <1>5, ClosedSoFarGood
<1> HIDE DEF u
<1>7. /\ Good(u) /\ Depth(u) = lo + 1 /\ F!Below(fs, u, lo + 1)
      /\ u.stack[lo + 1].kind = "group"
  BY <1>6 DEF Leaves, Top
<1>8. Leaves(u, x, lo + 1)
  BY <1>6, <1>7, CoversGood
<1> HIDE DEF x
<1>9. /\ Good(x) /\ Depth(x) = lo + 1 /\ F!Below(fs, x, lo + 1)
      /\ x.stack[lo + 1].kind = "group" /\ Top(x).kind = "group"
  BY <1>7, <1>8 DEF Leaves, F!Below, Top
<1>10. CASE empty
  <2>1. Leaves(x, AddEmptyBranch(x), lo + 1)
    BY <1>9, EmptyBranchGood
  <2>2. Leaves(x, w, lo + 1)
    BY <1>10, <2>1
  <2> HIDE DEF w
  <2>3. /\ Good(w) /\ Depth(w) = lo + 1 /\ F!Below(fs, w, lo)
        /\ w.stack[lo + 1].kind = "group"
    BY <1>9, <2>2 DEF Leaves, F!Below
  <2>4. /\ tok.empty \in BOOLEAN /\ Depth(w) = IF tok.empty THEN lo + 1 ELSE lo + 2
        /\ ~tok.empty => w.stack[lo + 2].kind = "branch"
    BY <1>3, <1>10, <2>3
  <2> QED  BY <1>1, <1>2, <1>3, <1>5, <2>3, <2>4, AlternativeInv
<1>11. CASE ~empty
  <2>1. Adds(x, PushBranch(x), "branch")
    BY <1>9, PushBranchGood
  <2>2. Adds(x, w, "branch")
    BY <1>11, <2>1
  <2> HIDE DEF w
  <2>3. /\ Good(w) /\ Depth(w) = lo + 2 /\ F!Below(fs, w, lo)
        /\ w.stack[lo + 1].kind = "group" /\ w.stack[lo + 2].kind = "branch"
    BY <1>9, <2>2 DEF Adds, F!Below
  <2> QED  BY <1>1, <1>2, <1>3, <1>5, <1>11, <2>3, AlternativeInv
<1> QED  BY <1>10, <1>11

\* The context of a group is popped at the end of its block.
LEMMA GroupEnded ==
  ASSUME NEW s, Good(s), NEW u, NEW lo \in Nat, lo > 0, Leaves(s, u, lo + 1),
         Top(u).kind = "group"
  PROVE  Leaves(s, PopBranchGroup(u), lo)
<1> DEFINE w == PopBranchGroup(u)
<1>1. Good(u) /\ Depth(u) = lo + 1 /\ F!Below(s, u, lo + 1)
  BY DEF Leaves
<1>2. lo + 1 > 1 /\ lo + 1 - 1 = lo /\ lo + 1 \in Nat
  OBVIOUS
<1>3. Leaves(u, w, lo)
  BY <1>1, <1>2, PopGroupGood
<1> HIDE DEF w
<1>4. F!Below(s, w, lo)
  BY <1>1, <1>3 DEF Leaves, F!Below
<1> QED  BY <1>3, <1>4 DEF Leaves, w

\* The end of an IF: the last branch and the group are popped.
LEMMA EndIfInv ==
  ASSUME AnalysisInv, AnalyseEndIf
  PROVE  AnalysisInv'
<1> DEFINE u == ClosedSoFar
           s == PopBranchGroup(u)
           U == IF Block.c.k = "or" THEN Block.c.vs ELSE {}
           w == Improve(s, U)
<1>1. /\ MayClose({"if", "else"}) /\ UNCHANGED <<dialect, phase, loopState>>
      /\ Advance /\ blocks' = Front(blocks) /\ (fs' = w \/ fs' = s)
  BY DEF AnalyseEndIf, Close, rvars, ImproveIfFalse
<1>2. /\ Aligned(fs, blocks) /\ blocks # << >> /\ Block.op \in CondBlocks
      /\ Block \in BlockTypes /\ Good(fs) /\ phase = "analysis"
  BY <1>1, CloseGood DEF CondBlocks
<1>3. PICK lo \in Nat : OwnedFrom(fs, blocks, lo)
  BY <1>2, InnerBlock
<1>4. Leaves(fs, u, lo + 1) /\ Top(u).kind = "group" /\ lo > 0
  BY <1>2, <1>3, ClosedSoFarGood DEF OwnedFrom
<1> HIDE DEF u
<1>5. Leaves(fs, s, lo)
  BY <1>2, <1>4, GroupEnded
<1>6. U \in SUBSET Types
  BY <1>2 DEF BlockTypes, AllConds
<1> HIDE DEF s, U
<1>7. Leaves(s, w, lo)
  BY <1>5, <1>6, ImproveGood DEF Leaves
<1> HIDE DEF w
<1>8. Leaves(fs, w, lo)
  BY <1>5, <1>7, LeavesTrans DEF Leaves
<1>9. Leaves(fs, fs', lo) /\ loopState' \in LoopStates
  BY <1>1, <1>5, <1>8 DEF AnalysisInv
<1> QED  BY <1>1, <1>2, <1>3, <1>9, ClosedInv

\* sem_switch_stmt up to its first case.
LEMMA SwitchInv ==
  ASSUME AnalysisInv, AnalyseSwitch
  PROVE  AnalysisInv'
<1> DEFINE u == PushBranchGroup(fs)
           w == PushBranch(u)
           b == NewBlock("switch", NoCond, TRUE)
<1>1. NoCond \in AllConds /\ "switch" \in Ops /\ TRUE \in BOOLEAN
  BY DEF NoCond, AllConds, Ops, CondBlocks
<1>2. /\ MayFollow /\ fs' = w /\ blocks' = Append(Within(blocks), b)
      /\ UNCHANGED <<dialect, phase>> /\ Advance /\ loopState' \in LoopStates
  BY DEF AnalyseSwitch, rvars, AnalysisInv
<1>3. Good(fs) /\ Top(fs).kind # "group" /\ Depth(fs) \in Nat /\ Depth(fs) > 0
  BY <1>2, FollowGood, GoodParts
<1>4. Adds(fs, u, "group")
  BY <1>3, PushGroupGood
<1> HIDE DEF u
<1>5. /\ Good(u) /\ Depth(u) = Depth(fs) + 1 /\ F!Below(fs, u, Depth(fs))
      /\ u.stack[Depth(u)].kind = "group" /\ Top(u).kind = "group"
  BY <1>4 DEF Adds, Top
<1>6. Adds(u, w, "branch")
  BY <1>5, PushBranchGood
<1> HIDE DEF w
<1>7. /\ Good(w) /\ F!Below(fs, w, Depth(fs)) /\ Depth(w) = Depth(fs) + 2
      /\ w.stack[Depth(fs) + 1].kind = "group" /\ w.stack[Depth(fs) + 2].kind = "branch"
  BY <1>3, <1>5, <1>6 DEF Adds, F!Below
<1>8. b.op \in CondBlocks /\ b.open
  BY DEF NewBlock, CondBlocks
<1> HIDE DEF b
<1>9. BlockAt(w, b, Depth(fs), Depth(w)) /\ Depth(w) > Depth(fs)
  BY <1>3, <1>7, <1>8 DEF BlockAt, KindOf
<1> QED  BY <1>1, <1>2, <1>7, <1>9, OpenedInv DEF b

\* After the statements of a case of a SWITCH.
LEMMA SwitchClosed ==
  ASSUME AnalysisInv, MayClose({"switch"})
  PROVE  /\ phase = "analysis" /\ Good(fs)
         /\ \E lo \in Nat : /\ OwnedFrom(fs, blocks, lo) /\ lo > 0
                            /\ Leaves(fs, PopBranch(fs), lo + 1)
                            /\ Top(PopBranch(fs)).kind = "group"
<1>1. /\ Aligned(fs, blocks) /\ blocks # << >> /\ Block.op \in CondBlocks /\ Good(fs)
      /\ Block = Last(blocks) /\ phase = "analysis"
  BY CloseGood DEF CondBlocks
<1>2. PICK lo \in Nat : OwnedFrom(fs, blocks, lo)
  BY <1>1, InnerBlock
<1>3. Block.open
  BY <1>1, <1>2, CloseGood DEF OwnedFrom, BlockAt
<1>4. Leaves(fs, PopBranch(fs), lo + 1) /\ Top(PopBranch(fs)).kind = "group" /\ lo > 0
  BY <1>1, <1>2, <1>3, BranchClosed DEF OwnedFrom
<1> QED  BY <1>1, <1>2, <1>4

\* The next case of a SWITCH.
LEMMA WhenInv ==
  ASSUME AnalysisInv, AnalyseWhen
  PROVE  AnalysisInv'
<1> DEFINE tok == NewToken("when", NoVar, NoVar, NoCond, FALSE, Block.at)
           u == PopBranch(fs)
           w == PushBranch(u)
<1>1. MayClose({"switch"}) /\ Alternative(tok, u, w, NoCond) /\ NoCond \in AllConds
  BY DEF AnalyseWhen, NoCond, AllConds
<1>2. tok.empty = FALSE /\ {"switch"} \subseteq CondBlocks
  BY DEF NewToken, CondBlocks
<1> HIDE DEF tok
<1>3. PICK lo \in Nat : /\ OwnedFrom(fs, blocks, lo) /\ lo > 0
                        /\ Leaves(fs, u, lo + 1) /\ Top(u).kind = "group"
  BY <1>1, SwitchClosed
<1> HIDE DEF u
<1>4. /\ Good(u) /\ Depth(u) = lo + 1 /\ F!Below(fs, u, lo + 1)
      /\ u.stack[lo + 1].kind = "group"
  BY <1>3 DEF Leaves, Top
<1>5. Adds(u, w, "branch")
  BY <1>3, <1>4, PushBranchGood
<1> HIDE DEF w
<1>6. /\ Good(w) /\ Depth(w) = lo + 2 /\ F!Below(fs, w, lo)
      /\ w.stack[lo + 1].kind = "group" /\ w.stack[lo + 2].kind = "branch"
  BY <1>4, <1>5 DEF Adds, F!Below
<1>7. tok.empty \in BOOLEAN /\ Depth(w) = IF tok.empty THEN lo + 1 ELSE lo + 2
  BY <1>2, <1>6
<1> QED  BY <1>1, <1>2, <1>3, <1>6, <1>7, AlternativeInv

\* The end of a SWITCH.
LEMMA EndSwitchInv ==
  ASSUME AnalysisInv, NEW covers \in BOOLEAN, AnalyseEndSwitch(covers)
  PROVE  AnalysisInv'
<1> DEFINE u == PopBranch(fs)
           x == SetCoversAllCases(u, covers)
           w == PopBranchGroup(x)
<1>1. /\ MayClose({"switch"}) /\ UNCHANGED <<dialect, phase, loopState>> /\ Advance
      /\ blocks' = Front(blocks) /\ fs' = w
  BY DEF AnalyseEndSwitch, Close, rvars
<1>2. phase = "analysis" /\ Good(fs)
  BY <1>1, SwitchClosed
<1>3. PICK lo \in Nat : /\ OwnedFrom(fs, blocks, lo) /\ lo > 0
                        /\ Leaves(fs, u, lo + 1) /\ Top(u).kind = "group"
  BY <1>1, SwitchClosed
<1> HIDE DEF u
<1>4. /\ Good(u) /\ Depth(u) = lo + 1 /\ F!Below(fs, u, lo + 1)
      /\ u.stack[lo + 1].kind = "group"
  BY <1>3 DEF Leaves, Top
<1>5. Leaves(u, x, lo + 1)
  BY <1>3, <1>4, CoversGood
<1> HIDE DEF x
<1>6. Leaves(fs, x, lo + 1) /\ Top(x).kind = "group"
  BY <1>4, <1>5 DEF Leaves, F!Below, Top
<1>7. Leaves(fs, w, lo)
  BY <1>2, <1>3, <1>6, GroupEnded
<1>8. loopState' \in LoopStates
  BY <1>1 DEF AnalysisInv
<1> QED  BY <1>1, <1>2, <1>3, <1>7, <1>8, ClosedInv
-----------------------------------------------------------------------------
(* Loops and TRY. *)

\* A loop up to its body.
LEMMA LoopInv ==
  ASSUME AnalysisInv, NEW op \in Loops, NEW c \in Dialect.conds, AnalyseLoop(op, c)
  PROVE  AnalysisInv'
<1> DEFINE T == IF c.k = "and" THEN c.vs ELSE {}
           s == AnalyseCond(fs, c)
           u == PushJump(s)
           w == Improve(u, T)
           b == NewBlock(op, c, TRUE)
<1>1. c \in AllConds /\ Globals \in SUBSET Types
  BY FlowAnalysisAssumption DEF AnalysisInv, Dialect, IsDialect
<1>2. /\ MayFollow /\ fs' = w /\ blocks' = Append(Within(blocks), b)
      /\ UNCHANGED <<dialect, phase>> /\ Advance /\ loopState' \in LoopStates
  BY DEF AnalyseLoop, rvars, AnalysisInv, LoopStates, ImproveIfTrue
<1>3. Good(fs) /\ Top(fs).kind # "group" /\ Depth(fs) \in Nat /\ Depth(fs) > 0
  BY <1>2, FollowGood, GoodParts
<1>4. Leaves(fs, s, Depth(fs))
  BY <1>1, <1>3, SameLeaves, UnimproveGood DEF AnalyseCond
<1> HIDE DEF s
<1>5. Depth(fs) \in 1..Depth(fs) /\ Depth(s) = Depth(fs)
  BY <1>3, <1>4 DEF Leaves
<1>6. Good(s) /\ Top(s).kind # "group"
  BY <1>3, <1>4, <1>5 DEF Leaves, F!Below, Top
<1>7. Adds(s, u, "jump") /\ T \in SUBSET Types
  BY <1>1, <1>6, PushJumpGood DEF AllConds
<1> HIDE DEF u, T
<1>8. Leaves(u, w, Depth(u)) /\ Depth(u) = Depth(fs) + 1
  BY <1>5, <1>7, ImproveGood DEF Adds
<1> HIDE DEF w
<1>9. Good(w) /\ Depth(w) = Depth(fs) + 1
  BY <1>8 DEF Leaves
<1>10. F!Below(fs, w, Depth(fs)) /\ w.stack[Depth(fs) + 1].kind = "jump"
  <2>1. /\ F!Below(fs, s, Depth(fs)) /\ F!Below(s, u, Depth(fs))
        /\ F!Below(u, w, Depth(fs) + 1) /\ u.stack[Depth(fs) + 1].kind = "jump"
    BY <1>4, <1>5, <1>7, <1>8 DEF Leaves, Adds
  <2> QED  BY <1>3, <2>1 DEF F!Below
<1>11. b.op = op
  BY DEF NewBlock
<1> HIDE DEF b
<1>12. BlockAt(w, b, Depth(fs), Depth(w)) /\ Depth(w) > Depth(fs)
  BY <1>3, <1>9, <1>10, <1>11 DEF BlockAt, KindOf, CondBlocks, Loops
<1>13. op \in Ops /\ TRUE \in BOOLEAN
  BY DEF Ops, Loops
<1> QED  BY <1>1, <1>2, <1>9, <1>10, <1>12, <1>13, OpenedInv DEF b

\* A block whose statements are in a context of their own: a loop, its update
\* list, a TRY or a CATCH.
LEMMA PlainBlock ==
  ASSUME AnalysisInv, NEW ops, MayClose(ops), ops \cap CondBlocks = {}
  PROVE  \E lo \in Nat : /\ OwnedFrom(fs, blocks, lo) /\ lo > 0
                         /\ Depth(fs) = lo + 1 /\ Top(fs).kind = KindOf(Block.op)
                         /\ fs.stack[lo].kind # "group"
<1>1. /\ Aligned(fs, blocks) /\ blocks # << >> /\ Block.op \notin CondBlocks /\ Good(fs)
      /\ Block = Last(blocks) /\ Block \in BlockTypes /\ Block.op \in ops
  BY CloseGood
<1>2. PICK lo \in Nat : OwnedFrom(fs, blocks, lo)
  BY <1>1, InnerBlock
<1>3. lo > 0 /\ BlockAt(fs, Block, lo, Depth(fs))
  BY <1>1, <1>2 DEF OwnedFrom
<1>4. Depth(fs) = lo + 1 /\ Top(fs).kind = KindOf(Block.op)
  BY <1>1, <1>3, BlockShape
<1>5. fs.stack[lo].kind # "group"
  <2>1. KindOf(Block.op) # "branch" /\ Top(fs) = fs.stack[lo + 1]
    BY <1>4 DEF KindOf, Top
  <2>2. lo \in 1..(Depth(fs) - 1)
    BY <1>3, <1>4
  <2> QED  BY <1>1, <1>4, <2>1, <2>2 DEF Good, GroupsHaveBranches
<1> QED  BY <1>2, <1>3, <1>4, <1>5

\* Its context is popped.
LEMMA PlainPopped ==
  ASSUME AnalysisInv, NEW ops, MayClose(ops), ops \cap CondBlocks = {}
  PROVE  \E lo \in Nat :
           /\ OwnedFrom(fs, blocks, lo) /\ lo > 0
           /\ ops \cap {"update", "catch"} = {} =>
                Leaves(fs, PopJump(fs), lo) /\ Top(PopJump(fs)).kind # "group"
           /\ ops \subseteq {"update", "catch"} => Leaves(fs, PopNormal(fs), lo)
<1>1. PICK lo \in Nat : /\ OwnedFrom(fs, blocks, lo) /\ lo > 0 /\ Depth(fs) = lo + 1
                        /\ Top(fs).kind = KindOf(Block.op) /\ fs.stack[lo].kind # "group"
  BY PlainBlock
<1>2. Good(fs) /\ Block.op \in ops /\ Depth(fs) > 1 /\ Depth(fs) - 1 = lo
  BY <1>1, CloseGood
<1>3. ASSUME ops \cap {"update", "catch"} = {}
      PROVE  Leaves(fs, PopJump(fs), lo) /\ Top(PopJump(fs)).kind # "group"
  <2>1. Top(fs).kind = "jump"
    BY <1>1, <1>2, <1>3 DEF KindOf
  <2>2. Leaves(fs, PopJump(fs), lo)
    BY <1>2, <2>1, PopJumpGood
  <2> QED  BY <1>1, <2>2 DEF Leaves, F!Below, Top
<1>4. ASSUME ops \subseteq {"update", "catch"}
      PROVE  Leaves(fs, PopNormal(fs), lo)
  <2>1. Top(fs).kind = "normal"
    BY <1>1, <1>2, <1>4 DEF KindOf, CondBlocks
  <2> QED  BY <1>2, <2>1, PopNormalGood
<1> QED  BY <1>1, <1>3, <1>4

\* Its contents go on in a new context.
LEMMA PlainInv ==
  ASSUME AnalysisInv, phase = "analysis", blocks # << >>, UNCHANGED <<dialect, phase>>,
         loopState' \in LoopStates, at' \in Nat,
         NEW lo \in Nat, lo > 0, OwnedFrom(fs, blocks, lo), NEW p, Leaves(fs, p, lo),
         NEW b \in BlockTypes, b.op \notin CondBlocks,
         blocks' = [blocks EXCEPT ![Len(blocks)] = b],
         NEW w, fs' = w, Adds(p, w, KindOf(b.op))
  PROVE  AnalysisInv'
<1>1. /\ Depth(p) = lo /\ F!Below(fs, p, lo) /\ Good(w) /\ Depth(w) = lo + 1
      /\ F!Below(p, w, lo) /\ w.stack[lo + 1].kind = KindOf(b.op)
  BY DEF Leaves, Adds
<1>2. F!Below(fs, w, lo)
  BY <1>1 DEF F!Below
<1>3. BlockAt(w, b, lo, Depth(w)) /\ Depth(w) > lo
  BY <1>1 DEF BlockAt, CondBlocks
<1>4. Aligned(w, [blocks EXCEPT ![Len(blocks)] = b])
  BY <1>1, <1>2, <1>3 DEF OwnedFrom
<1>5. Aligned(fs', blocks')
  BY <1>4
<1> QED  BY <1>5, HandlerInv

\* The second analysis of a loop starts in a context of its own.
LEMMA LoopAgainInv ==
  ASSUME AnalysisInv, NEW ops, MayClose(ops), ops \subseteq Loops, NEW tok, LoopAgain(tok)
  PROVE  AnalysisInv'
<1> DEFINE T == IF Block.c.k = "and" THEN Block.c.vs ELSE {}
           p == PopJump(fs)
           u == PushJump(p)
           w == Improve(u, T)
           b == [Block EXCEPT !.jumps = FALSE]
<1>1. /\ fs' = w /\ loopState' = "reanalyze" /\ at' = Block.at + 1
      /\ UNCHANGED <<dialect, phase>>
  BY DEF LoopAgain, rvars, ImproveIfTrue
<1>2. blocks' = [blocks EXCEPT ![Len(blocks)] = b]
  BY CloseGood, Zenon DEF LoopAgain
<1>3. /\ phase = "analysis" /\ blocks # << >> /\ Block \in BlockTypes /\ Block.op \in ops
  BY CloseGood
<1>4. ops \cap CondBlocks = {} /\ ops \cap {"update", "catch"} = {}
  BY DEF Loops, CondBlocks
<1>5. PICK lo \in Nat : /\ OwnedFrom(fs, blocks, lo) /\ lo > 0
                        /\ Leaves(fs, p, lo) /\ Top(p).kind # "group"
  BY <1>4, PlainPopped
<1> HIDE DEF p
<1>6. Adds(p, u, "jump") /\ T \in SUBSET Types
  BY <1>3, <1>5, PushJumpGood DEF Leaves, BlockTypes, AllConds
<1> HIDE DEF u, T
<1>7. Leaves(u, w, Depth(u)) /\ Depth(p) = lo /\ Depth(u) = lo + 1
  BY <1>5, <1>6, ImproveGood DEF Adds, Leaves
<1> HIDE DEF w
<1>8. Adds(p, w, "jump")
  BY <1>6, <1>7 DEF Adds, Leaves, F!Below
<1>9. b \in BlockTypes /\ b.op = Block.op
  BY <1>3 DEF BlockTypes
<1>10. b.op \notin CondBlocks /\ KindOf(b.op) = "jump"
  BY <1>3, <1>4, <1>9 DEF KindOf, CondBlocks
<1>11. loopState' \in LoopStates /\ at' \in Nat
  BY <1>1, <1>3 DEF LoopStates, BlockTypes
<1> HIDE DEF b
<1>12. Adds(p, w, KindOf(b.op))
  BY <1>8, <1>10
<1> QED  BY <1>1, <1>2, <1>3, <1>5, <1>9, <1>10, <1>11, <1>12, PlainInv

\* The end of a loop: the first time its body is analysed again.
LEMMA EndWhileInv ==
  ASSUME AnalysisInv, AnalyseEndWhile
  PROVE  AnalysisInv'
<1> DEFINE tok == NewToken("endwhile", NoVar, NoVar, NoCond, FALSE, Block.at)
<1>1. MayClose({"while"})
  BY DEF AnalyseEndWhile
<1>2. CASE LoopAgain(tok)
  BY <1>1, <1>2, LoopAgainInv DEF Loops
<1>3. CASE Close(tok, PopJump(fs)) /\ loopState' = Block.saved
  <2>1. /\ UNCHANGED <<dialect, phase>> /\ Advance /\ blocks' = Front(blocks)
        /\ fs' = PopJump(fs)
    BY <1>3 DEF Close, rvars
  <2>2. phase = "analysis" /\ loopState' \in LoopStates
    BY <1>1, <1>3, CloseGood DEF BlockTypes
  <2>3. {"while"} \cap CondBlocks = {} /\ {"while"} \cap {"update", "catch"} = {}
    BY DEF CondBlocks
  <2>4. PICK lo \in Nat : OwnedFrom(fs, blocks, lo) /\ Leaves(fs, PopJump(fs), lo)
    BY <1>1, <2>3, PlainPopped
  <2>5. Leaves(fs, fs', lo)
    BY <2>1, <2>4
  <2> QED  BY <2>1, <2>2, <2>4, <2>5, ClosedInv
<1> QED  BY <1>2, <1>3 DEF AnalyseEndWhile

\* The update list of a FOR and the handler of a TRY are analysed in a normal
\* context, after that of the loop or of the TRY.
LEMMA NextPartInv ==
  ASSUME AnalysisInv, NEW op1 \in {"for", "try"}, MayClose({op1}),
         NEW op \in {"update", "catch"}, UNCHANGED <<dialect, phase>>, Advance,
         loopState' \in LoopStates, fs' = PushNormal(PopJump(fs)),
         blocks' = [blocks EXCEPT ![Len(blocks)] =
                      [@ EXCEPT !.op = op, !.bare = TRUE, !.jumps = FALSE]]
  PROVE  AnalysisInv'
<1> DEFINE b == [Block EXCEPT !.op = op, !.bare = TRUE, !.jumps = FALSE]
           p == PopJump(fs)
           w == PushNormal(p)
<1>1. {op1} \cap CondBlocks = {} /\ {op1} \cap {"update", "catch"} = {}
  BY DEF CondBlocks
<1>2. /\ phase = "analysis" /\ blocks # << >> /\ Block \in BlockTypes
      /\ Block = blocks[Len(blocks)]
  BY CloseGood
<1>3. blocks' = [blocks EXCEPT ![Len(blocks)] = b]
  BY <1>2, Zenon
<1>4. PICK lo \in Nat : /\ OwnedFrom(fs, blocks, lo) /\ lo > 0
                        /\ Leaves(fs, p, lo) /\ Top(p).kind # "group"
  BY <1>1, PlainPopped
<1> HIDE DEF p
<1>5. Adds(p, w, "normal")
  BY <1>4, PushNormalGood DEF Leaves
<1>6. fs' = w /\ at' \in Nat
  BY DEF p, Advance, AnalysisInv
<1> HIDE DEF w
<1>7. b \in BlockTypes /\ b.op = op
  BY <1>2 DEF BlockTypes, Ops
<1> HIDE DEF b
<1>8. b.op \notin CondBlocks /\ Adds(p, w, KindOf(b.op))
  BY <1>5, <1>7 DEF KindOf, CondBlocks
<1> QED  BY <1>2, <1>3, <1>4, <1>6, <1>7, <1>8, PlainInv

\* The update list of a FOR.
LEMMA UpdateInv ==
  ASSUME AnalysisInv, AnalyseUpdate
  PROVE  AnalysisInv'
<1> DEFINE tok == NewToken("update", NoVar, NoVar, NoCond, FALSE, Block.at)
<1>1. MayClose({"for"})
  BY DEF AnalyseUpdate
<1>2. CASE LoopAgain(tok)
  BY <1>1, <1>2, LoopAgainInv DEF Loops
<1>3. CASE ~LoopAgain(tok)
  <2>1. /\ UNCHANGED <<dialect, phase>> /\ Advance /\ fs' = PushNormal(PopJump(fs))
        /\ loopState' = Block.saved
        /\ blocks' = [blocks EXCEPT ![Len(blocks)] =
                        [@ EXCEPT !.op = "update", !.bare = TRUE, !.jumps = FALSE]]
    BY <1>3 DEF AnalyseUpdate, rvars
  <2>2. loopState' \in LoopStates
    BY <1>1, <2>1, CloseGood DEF BlockTypes
  <2> QED  BY <1>1, <2>1, <2>2, NextPartInv
<1> QED  BY <1>2, <1>3

\* The CATCH of a TRY.
LEMMA CatchInv ==
  ASSUME AnalysisInv, AnalyseCatch
  PROVE  AnalysisInv'
<1>1. /\ MayClose({"try"}) /\ UNCHANGED <<dialect, phase>> /\ Advance
      /\ fs' = PushNormal(PopJump(fs)) /\ loopState' = loopState
      /\ blocks' = [blocks EXCEPT ![Len(blocks)] =
                      [@ EXCEPT !.op = "catch", !.bare = TRUE, !.jumps = FALSE]]
  BY DEF AnalyseCatch, rvars
<1>2. loopState' \in LoopStates
  BY <1>1 DEF AnalysisInv
<1> QED  BY <1>1, <1>2, NextPartInv

\* The end of a CATCH or of an update list.
LEMMA EndPartInv ==
  ASSUME AnalysisInv, AnalyseEndFor \/ AnalyseEndTry
  PROVE  AnalysisInv'
<1>1. PICK op \in {"update", "catch"} : MayClose({op})
  BY DEF AnalyseEndFor, AnalyseEndTry
<1>2. /\ UNCHANGED <<dialect, phase>> /\ Advance /\ blocks' = Front(blocks)
      /\ fs' = PopNormal(fs) /\ loopState' = loopState
  BY DEF AnalyseEndFor, AnalyseEndTry, Close, rvars
<1>3. phase = "analysis" /\ loopState' \in LoopStates
  BY <1>1, <1>2, CloseGood DEF AnalysisInv
<1>4. {op} \cap CondBlocks = {} /\ {op} \subseteq {"update", "catch"}
  BY DEF CondBlocks
<1>5. PICK lo \in Nat : OwnedFrom(fs, blocks, lo) /\ Leaves(fs, PopNormal(fs), lo)
  BY <1>1, <1>4, PlainPopped
<1>6. Leaves(fs, fs', lo)
  BY <1>2, <1>5
<1> QED  BY <1>2, <1>3, <1>5, <1>6, ClosedInv

\* A TRY up to its statements.
LEMMA TryInv ==
  ASSUME AnalysisInv, AnalyseTry
  PROVE  AnalysisInv'
<1> DEFINE w == PushJump(fs)
           b == NewBlock("try", NoCond, TRUE)
<1>1. NoCond \in AllConds /\ "try" \in Ops /\ TRUE \in BOOLEAN
  BY DEF NoCond, AllConds, Ops
<1>2. /\ MayFollow /\ fs' = w /\ blocks' = Append(Within(blocks), b)
      /\ UNCHANGED <<dialect, phase>> /\ Advance /\ loopState' \in LoopStates
  BY DEF AnalyseTry, rvars, AnalysisInv
<1>3. Good(fs) /\ Top(fs).kind # "group" /\ Depth(fs) \in Nat
  BY <1>2, FollowGood, GoodParts
<1>4. Adds(fs, w, "jump")
  BY <1>3, PushJumpGood
<1> HIDE DEF w
<1>5. /\ Good(w) /\ F!Below(fs, w, Depth(fs)) /\ Depth(w) = Depth(fs) + 1
      /\ w.stack[Depth(fs) + 1].kind = "jump"
  BY <1>4 DEF Adds
<1>6. b.op = "try"
  BY DEF NewBlock
<1> HIDE DEF b
<1>7. BlockAt(w, b, Depth(fs), Depth(w)) /\ Depth(w) > Depth(fs)
  BY <1>3, <1>5, <1>6 DEF BlockAt, KindOf, CondBlocks
<1> QED  BY <1>1, <1>2, <1>5, <1>7, OpenedInv DEF b
-----------------------------------------------------------------------------
(* The end of the procedure. *)

\* Popping the procedure's own context leaves nothing: the flags it leaves are
\* set only where the context started with them set.
LEMMA NothingLeft ==
  ASSUME NEW s, Good(s), Depth(s) = 1
  PROVE  PopNormal(s) = InitState
<1> DEFINE w == PopNormal(s)
<1>1. Top(s).kind = "normal" /\ \A t \in Types : ~Top(s).entry[t]
  BY DEF Good, Rooted, Top
<1>2. /\ F!FlowInv(F!PopNormal(s)) /\ F!Depth(F!PopNormal(s)) = F!Depth(s) - 1
      /\ \A t \in Types : F!PopNormal(s).flag[t] => F!Top(s).entry[t]
  BY <1>1, GoodParts, Bounds, F!PopNormalInv, SameParts
<1>3. F!PopNormal(s) = w
  BY SameCalls DEF F!PopNormal, PopNormal
<1>4. F!FlowInv(w) /\ Depth(w) = 0 /\ \A t \in Types : ~w.flag[t]
  BY <1>1, <1>2, <1>3, SameParts
<1> HIDE DEF w
<1>5. /\ w \in States /\ ~w.aborted /\ F!Innermost(w, w.topJump, 0)
  BY <1>4, SameParts DEF F!FlowInv, F!ClosingInv, F!JumpsOK
<1>6. w.topJump = 0
  BY <1>5 DEF F!Innermost
<1>7. w.stack = << >>
  BY <1>4, <1>5 DEF States, Depth
<1>8. w.flag = [t \in Types |-> FALSE]
  BY <1>4, <1>5 DEF States, Flags
<1>9. w.aborted = FALSE
  BY <1>5 DEF States
<1>10. w = InitState
  BY <1>5, <1>6, <1>7, <1>8, <1>9 DEF States, InitState
<1> QED  BY <1>10 DEF w

\* The end of the procedure, after which the flow contexts are as initially.
LEMMA FinishInv ==
  ASSUME AnalysisInv, Finish
  PROVE  AnalysisInv'
<1>1. /\ Aligned(fs, blocks) /\ blocks = << >> /\ fs' = PopNormal(fs)
      /\ phase' = "running" /\ UNCHANGED <<dialect, at, loopState>>
  BY DEF AnalysisInv, Finish
<1>2. Depth(fs) = 1 /\ Good(fs)
  BY <1>1 DEF Aligned, Nested, Cut
<1>3. fs' = InitState
  BY <1>1, <1>2, NothingLeft
<1> QED  BY <1>1, <1>3 DEF AnalysisInv

\* The invariant holds when the analysis starts.
LEMMA AnalysisInit == Init => AnalysisInv
<1> SUFFICES ASSUME Init PROVE AnalysisInv
  OBVIOUS
<1>1. /\ fs = PushNormal(InitState) /\ blocks = << >> /\ phase = "analysis"
      /\ dialect \in DOMAIN Dialects /\ loopState = "none" /\ at = 1
  BY DEF Init, InitAnalysis
<1>2. F!FlowInv(InitState) /\ Depth(InitState) = 0
  BY Bounds, F!InitStateInv, SameParts
<1>3. /\ F!FlowInv(F!Push(InitState, F!NewContext(InitState, "normal")))
      /\ F!Depth(F!Push(InitState, F!NewContext(InitState, "normal"))) = F!Depth(InitState) + 1
      /\ F!Top(F!Push(InitState, F!NewContext(InitState, "normal"))).kind = "normal"
      /\ F!Top(F!Push(InitState, F!NewContext(InitState, "normal"))).entry = InitState.flag
  BY <1>2, Bounds, F!PushPlainInv
<1>4. F!Push(InitState, F!NewContext(InitState, "normal")) = fs
  BY <1>1, SameParts DEF PushNormal
<1>5. /\ F!FlowInv(fs) /\ Depth(fs) = 1 /\ Top(fs).kind = "normal"
      /\ Top(fs).entry = InitState.flag
  BY <1>2, <1>3, <1>4, SameParts
<1>6. Good(fs)
  BY <1>5 DEF Good, Rooted, GroupsHaveBranches, Top, InitState
<1> DEFINE d == [i \in 1..1 |-> 1]
<1>7. Cut(fs, << >>, d)
  BY <1>5 DEF Cut
<1>8. Aligned(fs, blocks)
  BY <1>1, <1>6, <1>7 DEF Aligned, Nested
<1> QED  BY <1>1, <1>8 DEF AnalysisInv, LoopStates

-----------------------------------------------------------------------------
(* The theorems. *)

\* The execution of the body does not touch the analyser's state.
LEMMA RunInv ==
  ASSUME AnalysisInv, Run
  PROVE  AnalysisInv'
<1>1. phase = "running" /\ UNCHANGED avars /\ phase' # "analysis"
  BY DEF Run, RunRead, RunAssign, RunCall, RunReturn, RunThrow, RunLeave, RunContinue,
         RunCond, RunPast, RunInto, RunSwitch, RunLoop, RunRepeat, RunOff, Running, Step,
         ThrowTo
<1> QED  BY <1>1 DEF AnalysisInv, avars

\* Every handler keeps the invariant.
LEMMA AnalysisNext ==
  ASSUME Disciplined, AnalysisInv, [Next]_vars
  PROVE  AnalysisInv'
<1>1. CASE UNCHANGED vars
  BY <1>1 DEF AnalysisInv, vars, avars, rvars
<1>2. CASE Run
  BY <1>2, RunInv
<1>3. CASE Analyse
  <2>1. ASSUME \/ AnalyseRead
               \/ \E v \in Dialect.vars : AnalyseSetNull(v)
               \/ \E v \in Dialect.vars : AnalyseSetVal(v)
               \/ \E v, w \in Dialect.vars : AnalyseCopy(v, w)
               \/ AnalyseCall
        PROVE  AnalysisInv'
    BY <2>1, SimpleInv
  <2>2. ASSUME AnalyseReturn \/ AnalyseThrow \/ AnalyseContinue \/ AnalyseLeave
        PROVE  AnalysisInv'
    <3>1. \E op, link : Control(op, link)
      BY <2>2 DEF AnalyseReturn, AnalyseThrow, AnalyseContinue, AnalyseLeave
    <3> QED  BY <3>1, ControlInv
  <2>3. ASSUME NEW c \in Dialect.conds, NEW empty \in BOOLEAN,
               AnalyseIf(c, empty) \/ AnalyseElseIf(c, empty)
        PROVE  AnalysisInv'
    BY <2>3, IfInv, ElseIfInv
  <2>4. ASSUME NEW empty \in BOOLEAN, AnalyseElse(empty)
        PROVE  AnalysisInv'
    BY <2>4, ElseInv
  <2>5. ASSUME NEW covers \in BOOLEAN, AnalyseEndSwitch(covers)
        PROVE  AnalysisInv'
    BY <2>5, EndSwitchInv
  <2>6. ASSUME NEW op \in Loops, NEW c \in Dialect.conds, AnalyseLoop(op, c)
        PROVE  AnalysisInv'
    BY <2>6, LoopInv
  <2>7. ASSUME AnalyseEndIf \/ AnalyseSwitch \/ AnalyseWhen \/ AnalyseEndWhile
        PROVE  AnalysisInv'
    BY <2>7, EndIfInv, SwitchInv, WhenInv, EndWhileInv
  <2>8. ASSUME \/ AnalyseUpdate \/ AnalyseEndFor \/ AnalyseTry \/ AnalyseCatch
               \/ AnalyseEndTry \/ Finish
        PROVE  AnalysisInv'
    BY <2>8, UpdateInv, EndPartInv, TryInv, CatchInv, FinishInv
  <2> QED  BY <1>3, <2>1, <2>2, <2>3, <2>4, <2>5, <2>6, <2>7, <2>8 DEF Analyse
<1> QED  BY <1>1, <1>2, <1>3 DEF Next

\* The contexts of flow.c are at every point those that the open blocks of the
\* analysed body account for.
THEOREM ContextsFollowBlocks ==
  ASSUME Disciplined
  PROVE  Spec => []AnalysisInv
<1>1. AnalysisInv /\ [Next]_vars => AnalysisInv'
  BY AnalysisNext
<1> QED  BY <1>1, AnalysisInit, PTL DEF Spec

\* No Contract() or Invariant() of flow.c fails, whatever procedure body is
\* analysed and however its blocks nest.
THEOREM NeverAborts ==
  ASSUME Disciplined
  PROVE  Spec => []AnalysisNeverAborts
<1>1. AnalysisInv => AnalysisNeverAborts
  BY GoodParts DEF AnalysisInv, Aligned, AnalysisNeverAborts, InitState
<1> QED  BY <1>1, ContextsFollowBlocks, PTL

\* No context and no improvement outlives the analysis of a procedure.
THEOREM NothingLeaks ==
  ASSUME Disciplined
  PROVE  Spec => []NothingLeaksFromProcedure
<1>1. AnalysisInv => NothingLeaksFromProcedure
  BY DEF AnalysisInv, NothingLeaksFromProcedure, InitState
<1> QED  BY <1>1, ContextsFollowBlocks, PTL
-----------------------------------------------------------------------------
(* The tokens of the body. *)

Openers == {"if", "switch", "while", "for", "try"}
Middles == {"elseif", "else", "when", "update", "catch"}
Ends == {"endif", "endswitch", "endwhile", "endfor", "endtry"}

OpNames ==
  Openers \cup Middles \cup Ends \cup Controls
    \cup {"read", "setnull", "setval", "copy", "call"}

Tokens ==
  [op : OpNames, v : Types \cup {NoVar}, w : Types \cup {NoVar}, c : AllConds,
   empty : BOOLEAN, link : Nat]

\* The token that opened a block of this kind.
Opener(op) ==
  CASE op \in {"if", "else"} -> "if"
    [] op \in {"for", "update"} -> "for"
    [] op \in {"try", "catch"} -> "try"
    [] OTHER -> op

\* The block that token b opened is among these.
OpenAs(bs, b, ops) == \E k \in 1..Len(bs) : bs[k].at = b /\ bs[k].op \in ops

\* Block b has such a part between the tokens i and n.
HasPart(p, n, b, i, ops) ==
  \E j \in (i + 1)..(n - 1) : p[j].link = b /\ p[j].op \in ops

\* Block b is open, or it was ended after token i.
Ended(p, n, bs, b, i) == OpenAs(bs, b, Ops) \/ HasPart(p, n, b, i, Ends)

\* A token's place among those before token n, of which the blocks bs are open.
TokenAt(p, n, bs, i) ==
  LET b == p[i].link
      op == p[i].op
      Under(ops) == b \in 1..(i - 1) /\ p[b].op \in ops
  IN /\ op \in Openers => Ended(p, n, bs, i, i)
     /\ op = "try" => OpenAs(bs, i, {"try"}) \/ HasPart(p, n, i, i, {"catch"})
     /\ op = "for" => OpenAs(bs, i, {"for"}) \/ HasPart(p, n, i, i, {"update"})
     /\ op \in Middles => Under(Openers) /\ Ended(p, n, bs, b, i)
     /\ op \in Ends => Under(Openers)
     /\ op \in {"call", "throw"} => b = 0 \/ Under({"try"})
     /\ op = "leave" => Under(Loops \cup {"switch"})
     /\ op = "continue" => Under(Loops)
     /\ op \in {"setnull", "setval", "copy"} => p[i].v \in Types

\* The open blocks begin one after the other, each at the token that opened it;
\* the parts that follow that token are its own or those of blocks within it.
OpenedAt(p, n, bs) ==
  /\ \A k \in 1..Len(bs) :
       bs[k].at \in 1..(n - 1) /\ p[bs[k].at].op = Opener(bs[k].op) /\ bs[k].op \in Ops
  /\ \A k \in 1..Len(bs), l \in 1..Len(bs) : k < l => bs[k].at < bs[l].at
  /\ \A k \in 1..Len(bs), j \in 1..(n - 1) :
       j > bs[k].at /\ p[j].op \in Middles \cup Ends => p[j].link >= bs[k].at

\* The body up to token n is well bracketed.
Bracketed(p, n, bs) ==
  /\ n \in 1..(Len(p) + 1)
  /\ OpenedAt(p, n, bs)
  /\ \A i \in 1..(n - 1) : TokenAt(p, n, bs, i)

\* The inductive invariant of the body and of its execution.
BodyInv ==
  /\ dialect \in DOMAIN Dialects
  /\ prog \in Seq(Tokens)
  /\ improved \in Seq(SUBSET Types) /\ Len(improved) = Len(prog)
  /\ Bracketed(prog, at, blocks)
  /\ phase \in {"analysis", "running", "done"}
  /\ phase # "analysis" => blocks = << >> /\ at = Len(prog) + 1
  /\ ip \in 1..(Len(prog) + 1) /\ testing \in BOOLEAN /\ env \subseteq Types
-----------------------------------------------------------------------------
\* An open block.
LEMMA OneBlock ==
  ASSUME NEW bs \in Seq(BlockTypes), NEW k \in 1..Len(bs)
  PROVE  bs[k] \in BlockTypes /\ bs[k].at \in Nat /\ bs[k].op \in Ops
<1>1. bs[k] \in BlockTypes
  OBVIOUS
<1> QED  BY <1>1 DEF BlockTypes

\* A part that was there is there.
LEMMA PartKept ==
  ASSUME NEW p, NEW q, NEW n \in Nat, NEW m \in Nat, n <= m, NEW i \in Nat, NEW b, NEW ops,
         \A j \in 1..(n - 1) : q[j] = p[j], HasPart(p, n, b, i, ops)
  PROVE  HasPart(q, m, b, i, ops)
<1>1. PICK j \in (i + 1)..(n - 1) : p[j].link = b /\ p[j].op \in ops
  BY DEF HasPart
<1>2. j \in 1..(n - 1) /\ j \in (i + 1)..(m - 1)
  OBVIOUS
<1>3. q[j] = p[j]
  BY <1>2
<1> QED  BY <1>1, <1>2, <1>3 DEF HasPart

\* The token that was analysed is a part of its block.
LEMMA PartAdded ==
  ASSUME NEW q, NEW n \in Nat, NEW i \in Nat, i < n, NEW ops, q[n].op \in ops
  PROVE  HasPart(q, n + 1, q[n].link, i, ops)
<1>1. n \in (i + 1)..((n + 1) - 1)
  OBVIOUS
<1> QED  BY <1>1 DEF HasPart

\* What a step of the analysis may do to the open blocks bs: those not in cs
\* were ended by the token, or it began their next part.
Follows(q, n, bs, cs) ==
  \A b :
    /\ OpenAs(bs, b, Ops) => OpenAs(cs, b, Ops) \/ (q[n].link = b /\ q[n].op \in Ends)
    /\ OpenAs(bs, b, {"try"}) => OpenAs(cs, b, {"try"}) \/ (q[n].link = b /\ q[n].op = "catch")
    /\ OpenAs(bs, b, {"for"}) => OpenAs(cs, b, {"for"}) \/ (q[n].link = b /\ q[n].op = "update")

\* A token keeps its place when the next token was analysed.
LEMMA TokenKept ==
  ASSUME NEW p, NEW q, NEW n \in Nat, NEW bs, NEW cs, \A j \in 1..(n - 1) : q[j] = p[j],
         Follows(q, n, bs, cs), NEW i \in 1..(n - 1), TokenAt(p, n, bs, i)
  PROVE  TokenAt(q, n + 1, cs, i)
<1> DEFINE b == p[i].link
           op == p[i].op
<1>1. q[i] = p[i] /\ i \in Nat /\ i < n /\ n + 1 \in Nat /\ n <= n + 1
  OBVIOUS
<1>2. ASSUME NEW ops, b \in 1..(i - 1), p[b].op \in ops
      PROVE  q[b].op \in ops
  <2>1. b \in 1..(n - 1)
    BY <1>2
  <2> QED  BY <1>2, <2>1
<1>3. ASSUME NEW x, Ended(p, n, bs, x, i)
      PROVE  Ended(q, n + 1, cs, x, i)
  <2>1. CASE HasPart(p, n, x, i, Ends)
    BY <1>1, <2>1, PartKept DEF Ended
  <2>2. CASE OpenAs(bs, x, Ops)
    <3>1. OpenAs(cs, x, Ops) \/ (q[n].link = x /\ q[n].op \in Ends)
      BY <2>2 DEF Follows
    <3> QED  BY <1>1, <3>1, PartAdded DEF Ended
  <2> QED  BY <1>3, <2>1, <2>2 DEF Ended
<1>4. ASSUME op = "try", OpenAs(bs, i, {"try"}) \/ HasPart(p, n, i, i, {"catch"})
      PROVE  OpenAs(cs, i, {"try"}) \/ HasPart(q, n + 1, i, i, {"catch"})
  <2>1. CASE HasPart(p, n, i, i, {"catch"})
    BY <1>1, <2>1, PartKept
  <2>2. CASE OpenAs(bs, i, {"try"})
    <3>1. OpenAs(cs, i, {"try"}) \/ (q[n].link = i /\ q[n].op \in {"catch"})
      BY <2>2 DEF Follows
    <3> QED  BY <1>1, <3>1, PartAdded
  <2> QED  BY <1>4, <2>1, <2>2
<1>5. ASSUME op = "for", OpenAs(bs, i, {"for"}) \/ HasPart(p, n, i, i, {"update"})
      PROVE  OpenAs(cs, i, {"for"}) \/ HasPart(q, n + 1, i, i, {"update"})
  <2>1. CASE HasPart(p, n, i, i, {"update"})
    BY <1>1, <2>1, PartKept
  <2>2. CASE OpenAs(bs, i, {"for"})
    <3>1. OpenAs(cs, i, {"for"}) \/ (q[n].link = i /\ q[n].op \in {"update"})
      BY <2>2 DEF Follows
    <3> QED  BY <1>1, <3>1, PartAdded
  <2> QED  BY <1>5, <2>1, <2>2
<1> QED
  <2>1. op \in Openers => Ended(q, n + 1, cs, i, i)
    BY <1>3 DEF TokenAt
  <2>2. op \in Middles => (b \in 1..(i - 1) /\ q[b].op \in Openers) /\ Ended(q, n + 1, cs, b, i)
    BY <1>2, <1>3 DEF TokenAt
  <2>3. op \in Ends => b \in 1..(i - 1) /\ q[b].op \in Openers
    BY <1>2 DEF TokenAt
  <2>4. op \in {"call", "throw"} => b = 0 \/ (b \in 1..(i - 1) /\ q[b].op \in {"try"})
    BY <1>2 DEF TokenAt
  <2>5. op = "leave" => b \in 1..(i - 1) /\ q[b].op \in Loops \cup {"switch"}
    BY <1>2 DEF TokenAt
  <2>6. op = "continue" => b \in 1..(i - 1) /\ q[b].op \in Loops
    BY <1>2 DEF TokenAt
  <2>7. op = "try" => OpenAs(cs, i, {"try"}) \/ HasPart(q, n + 1, i, i, {"catch"})
    BY <1>4 DEF TokenAt
  <2>8. op = "for" => OpenAs(cs, i, {"for"}) \/ HasPart(q, n + 1, i, i, {"update"})
    BY <1>5 DEF TokenAt
  <2>9. op \in {"setnull", "setval", "copy"} => q[i].v \in Types
    BY <1>1 DEF TokenAt
  <2> QED  BY <1>1, <2>1, <2>2, <2>3, <2>4, <2>5, <2>6, <2>7, <2>8, <2>9 DEF TokenAt

\* The next token was analysed.
LEMMA BracketedNext ==
  ASSUME NEW p, NEW q \in Seq(Tokens), NEW n \in 1..Len(q), NEW bs, NEW cs,
         \A j \in 1..(n - 1) : q[j] = p[j], Bracketed(p, n, bs),
         Follows(q, n, bs, cs), OpenedAt(q, n + 1, cs), TokenAt(q, n + 1, cs, n)
  PROVE  Bracketed(q, n + 1, cs)
<1>1. n \in Nat /\ n + 1 \in 1..(Len(q) + 1)
  OBVIOUS
<1>2. ASSUME NEW i \in 1..((n + 1) - 1)
      PROVE  TokenAt(q, n + 1, cs, i)
  <2>1. CASE i = n
    BY <2>1
  <2>2. CASE i # n
    <3>1. i \in 1..(n - 1)
      BY <1>1, <2>2
    <3>2. TokenAt(p, n, bs, i)
      BY <3>1 DEF Bracketed
    <3> QED  BY <1>1, <3>1, <3>2, TokenKept
  <2> QED  BY <2>1, <2>2
<1> QED  BY <1>1, <1>2 DEF Bracketed

\* The blocks that stay open keep their places.
LEMMA OpenedKept ==
  ASSUME NEW p, NEW q \in Seq(Tokens), NEW n \in 1..Len(q),
         NEW bs \in Seq(BlockTypes), NEW cs \in Seq(BlockTypes), Len(cs) <= Len(bs),
         \A j \in 1..(n - 1) : q[j] = p[j], OpenedAt(p, n, bs),
         \A k \in 1..Len(cs) : cs[k].at = bs[k].at /\ Opener(cs[k].op) = Opener(bs[k].op),
         q[n].op \in Middles \cup Ends => bs # << >> /\ q[n].link = bs[Len(bs)].at
  PROVE  OpenedAt(q, n + 1, cs)
<1>1. Len(bs) \in Nat /\ Len(cs) \in Nat /\ n \in Nat /\ \A k \in 1..Len(cs) : k \in 1..Len(bs)
  OBVIOUS
<1>2. ASSUME NEW k \in 1..Len(cs)
      PROVE  /\ cs[k].at \in 1..((n + 1) - 1) /\ q[cs[k].at].op = Opener(cs[k].op)
             /\ cs[k].op \in Ops
  <2>1. bs[k].at \in 1..(n - 1) /\ p[bs[k].at].op = Opener(bs[k].op)
    BY <1>1 DEF OpenedAt
  <2>2. cs[k].op \in Ops
    BY OneBlock
  <2>3. q[bs[k].at] = p[bs[k].at]
    BY <2>1
  <2> QED  BY <1>1, <2>1, <2>2, <2>3
<1>3. ASSUME NEW k \in 1..Len(cs), NEW l \in 1..Len(cs), k < l
      PROVE  cs[k].at < cs[l].at
  <2>1. bs[k].at < bs[l].at
    BY <1>1, <1>3 DEF OpenedAt
  <2> QED  BY <2>1
<1>4. ASSUME NEW k \in 1..Len(cs), NEW j \in 1..((n + 1) - 1), j > cs[k].at,
             q[j].op \in Middles \cup Ends
      PROVE  q[j].link >= cs[k].at
  <2>1. CASE j = n
    <3>1. k \in 1..Len(bs) /\ Len(bs) \in 1..Len(bs) /\ bs[k].at \in 1..(n - 1)
      BY <1>1 DEF OpenedAt
    <3>2. k = Len(bs) \/ bs[k].at < bs[Len(bs)].at
      BY <1>1, <3>1 DEF OpenedAt
    <3>3. q[j].link = bs[Len(bs)].at /\ cs[k].at = bs[k].at
      BY <1>4, <2>1
    <3>4. bs[k].at \in Nat /\ bs[Len(bs)].at \in Nat
      BY <3>1, OneBlock
    <3> QED  BY <3>2, <3>3, <3>4
  <2>2. CASE j # n
    <3>1. j \in 1..(n - 1) /\ k \in 1..Len(bs)
      BY <1>1, <2>2
    <3>2. q[j] = p[j] /\ cs[k].at = bs[k].at
      BY <3>1
    <3> QED  BY <1>4, <3>1, <3>2 DEF OpenedAt
  <2> QED  BY <2>1, <2>2
<1> QED  BY <1>2, <1>3, <1>4 DEF OpenedAt

\* The token opens a block.
LEMMA OpenedPushed ==
  ASSUME NEW p, NEW q \in Seq(Tokens), NEW n \in 1..Len(q),
         NEW bs \in Seq(BlockTypes), NEW cs \in Seq(BlockTypes), Len(cs) = Len(bs) + 1,
         \A j \in 1..(n - 1) : q[j] = p[j], OpenedAt(p, n, bs),
         \A k \in 1..Len(bs) : cs[k].at = bs[k].at /\ cs[k].op = bs[k].op,
         cs[Len(cs)].at = n, q[n].op = Opener(cs[Len(cs)].op), q[n].op \notin Middles \cup Ends
  PROVE  OpenedAt(q, n + 1, cs)
<1>1. Len(bs) \in Nat /\ n \in Nat
  OBVIOUS
<1>2. \A k \in 1..Len(cs) : k = Len(cs) \/ k \in 1..Len(bs)
  BY <1>1
<1>3. ASSUME NEW k \in 1..Len(bs)
      PROVE  /\ cs[k].at \in 1..(n - 1) /\ cs[k].at = bs[k].at /\ q[cs[k].at] = p[cs[k].at]
             /\ p[bs[k].at].op = Opener(bs[k].op)
  <2>1. bs[k].at \in 1..(n - 1) /\ p[bs[k].at].op = Opener(bs[k].op)
    BY DEF OpenedAt
  <2>2. cs[k].at = bs[k].at
    OBVIOUS
  <2> QED  BY <2>1, <2>2
<1>4. ASSUME NEW k \in 1..Len(cs)
      PROVE  /\ cs[k].at \in 1..((n + 1) - 1) /\ q[cs[k].at].op = Opener(cs[k].op)
             /\ cs[k].op \in Ops
  <2>1. cs[k].op \in Ops
    BY OneBlock
  <2>2. CASE k = Len(cs)
    BY <1>1, <2>1, <2>2
  <2>3. CASE k \in 1..Len(bs)
    <3>1. cs[k].op = bs[k].op
      BY <2>3
    <3>2. q[cs[k].at].op = p[bs[k].at].op
      BY <1>3, <2>3
    <3>3. q[cs[k].at].op = Opener(cs[k].op)
      BY <1>3, <2>3, <3>1, <3>2
    <3> QED  BY <1>1, <1>3, <2>1, <2>3, <3>3
  <2> QED  BY <1>2, <2>2, <2>3
<1>5. ASSUME NEW k \in 1..Len(cs), NEW l \in 1..Len(cs), k < l
      PROVE  cs[k].at < cs[l].at
  <2>1. k \in 1..Len(bs)
    BY <1>1, <1>5
  <2>2. CASE l = Len(cs)
    BY <1>1, <1>3, <2>1, <2>2
  <2>3. CASE l \in 1..Len(bs)
    <3>1. bs[k].at < bs[l].at
      BY <1>5, <2>1, <2>3 DEF OpenedAt
    <3> QED  BY <2>1, <2>3, <3>1
  <2> QED  BY <1>2, <2>2, <2>3
<1>6. ASSUME NEW k \in 1..Len(cs), NEW j \in 1..((n + 1) - 1), j > cs[k].at,
             q[j].op \in Middles \cup Ends
      PROVE  q[j].link >= cs[k].at
  <2>1. j \in 1..(n - 1) /\ k # Len(cs)
    BY <1>1, <1>6
  <2>2. k \in 1..Len(bs)
    BY <1>2, <2>1
  <2>3. q[j] = p[j] /\ cs[k].at = bs[k].at
    BY <2>1, <2>2
  <2> QED  BY <1>6, <2>1, <2>2, <2>3 DEF OpenedAt
<1> QED  BY <1>4, <1>5, <1>6 DEF OpenedAt
-----------------------------------------------------------------------------
(* The steps of the analysis. *)

\* What a step of the analysis keeps of the state besides the body.
Analysed(tok, seen) ==
  /\ phase = "analysis" /\ tok \in Tokens /\ Takes(tok, seen)
  /\ UNCHANGED <<dialect, rvars>>

\* The token that is analysed is new, or the one that stands there.
LEMMA TakesToken ==
  ASSUME BodyInv, NEW tok \in Tokens, NEW seen, Takes(tok, seen)
  PROVE  /\ prog' \in Seq(Tokens) /\ at \in 1..Len(prog') /\ prog'[at] = tok
         /\ \A j \in 1..(at - 1) : prog'[j] = prog[j]
         /\ Len(prog) <= Len(prog') /\ Len(prog) \in Nat /\ Len(prog') \in Nat
         /\ improved' \in Seq(SUBSET Types) /\ Len(improved') = Len(prog')
<1>1. /\ prog \in Seq(Tokens) /\ Len(prog) \in Nat /\ at \in 1..(Len(prog) + 1)
      /\ DOMAIN prog = 1..Len(prog)
  BY DEF BodyInv, Bracketed
<1>2. improved \in Seq(SUBSET Types) /\ Len(improved) = Len(prog)
  BY <1>1 DEF BodyInv
<1>3. Improved(seen) \in SUBSET Types
  BY DEF Improved
<1>4. CASE at <= Len(prog)
  <2>1. /\ prog[at] = tok /\ prog' = prog
        /\ improved' = [improved EXCEPT ![at] = Improved(seen)]
    BY <1>4 DEF Takes
  <2>2. prog' \in Seq(Tokens) /\ at \in 1..Len(prog') /\ prog'[at] = tok
    BY <1>1, <1>4, <2>1
  <2>3. improved' \in Seq(SUBSET Types) /\ Len(improved') = Len(improved)
    <3>1. at \in 1..Len(improved)
      BY <1>1, <1>2, <1>4
    <3> QED  BY <1>2, <1>3, <2>1, <3>1
  <2> QED  BY <1>1, <1>2, <2>1, <2>2, <2>3
<1>5. CASE ~(at <= Len(prog))
  <2>1. prog' = Append(prog, tok) /\ improved' = Append(improved, Improved(seen))
    BY <1>5 DEF Takes
  <2>2. /\ prog' \in Seq(Tokens) /\ Len(prog') = Len(prog) + 1 /\ at = Len(prog) + 1
        /\ prog'[at] = tok /\ \A j \in 1..Len(prog) : prog'[j] = prog[j]
    BY <1>1, <1>5, <2>1
  <2>3. improved' \in Seq(SUBSET Types) /\ Len(improved') = Len(prog) + 1
    BY <1>2, <1>3, <2>1
  <2> QED  BY <1>1, <2>2, <2>3
<1> QED  BY <1>4, <1>5

\* The invariant after a token was analysed: what its handler does is to be shown.
LEMMA BodyNext ==
  ASSUME BodyInv, NEW tok, NEW seen, Analysed(tok, seen), at' = at + 1,
         Follows(prog', at, blocks, blocks'), OpenedAt(prog', at + 1, blocks'),
         TokenAt(prog', at + 1, blocks', at)
  PROVE  BodyInv'
<1>1. /\ tok \in Tokens /\ Takes(tok, seen) /\ phase = "analysis" /\ phase' = phase
      /\ dialect' = dialect /\ ip' = ip /\ testing' = testing /\ env' = env
  BY DEF Analysed, rvars
<1>2. /\ prog' \in Seq(Tokens) /\ at \in 1..Len(prog') /\ prog'[at] = tok
      /\ \A j \in 1..(at - 1) : prog'[j] = prog[j]
      /\ Len(prog) <= Len(prog') /\ Len(prog) \in Nat /\ Len(prog') \in Nat
      /\ improved' \in Seq(SUBSET Types) /\ Len(improved') = Len(prog')
  BY <1>1, TakesToken
<1>3. Bracketed(prog', at', blocks')
  BY <1>2, BracketedNext DEF BodyInv
<1>4. ip' \in 1..(Len(prog') + 1)
  BY <1>1, <1>2 DEF BodyInv
<1> QED  BY <1>1, <1>2, <1>3, <1>4 DEF BodyInv

\* A token that is no part of a block stands where what it refers to is open.
Stands(tok) ==
  LET b == tok.link
      Under(ops) == b \in 1..(at - 1) /\ prog[b].op \in ops
  IN /\ tok.op \notin Openers \cup Middles \cup Ends
     /\ tok.op \in {"call", "throw"} => b = 0 \/ Under({"try"})
     /\ tok.op = "leave" => Under(Loops \cup {"switch"})
     /\ tok.op = "continue" => Under(Loops)
     /\ tok.op \in {"setnull", "setval", "copy"} => tok.v \in Types

\* The blocks are the same but for what has been seen in them.
SameBlocks(bs, cs) ==
  /\ cs \in Seq(BlockTypes) /\ Len(cs) = Len(bs)
  /\ \A k \in 1..Len(bs) : cs[k].at = bs[k].at /\ cs[k].op = bs[k].op

\* A statement without blocks.
LEMMA StatementBody ==
  ASSUME BodyInv, NEW tok, NEW seen, Analysed(tok, seen), Stands(tok), at' = at + 1,
         blocks \in Seq(BlockTypes), SameBlocks(blocks, blocks')
  PROVE  BodyInv'
<1>1. /\ prog' \in Seq(Tokens) /\ at \in 1..Len(prog') /\ prog'[at] = tok
      /\ \A j \in 1..(at - 1) : prog'[j] = prog[j]
  BY TakesToken DEF Analysed
<1>2. \A b, ops : OpenAs(blocks, b, ops) => OpenAs(blocks', b, ops)
  BY DEF OpenAs, SameBlocks
<1>3. Follows(prog', at, blocks, blocks')
  BY <1>2 DEF Follows
<1>4. OpenedAt(prog', at + 1, blocks')
  <2>1. Len(blocks) \in Nat /\ OpenedAt(prog, at, blocks)
    BY DEF BodyInv, Bracketed
  <2>2. prog'[at].op \notin Middles \cup Ends
    BY <1>1 DEF Stands
  <2> QED  BY <1>1, <2>1, <2>2, OpenedKept DEF SameBlocks
<1>5. TokenAt(prog', at + 1, blocks', at)
  <2>1. \A b \in 1..(at - 1) : prog'[b].op = prog[b].op
    BY <1>1
  <2>2. tok.op \notin Openers /\ tok.op \notin Middles /\ tok.op \notin Ends
        /\ tok.op # "try" /\ tok.op # "for"
    BY DEF Stands, Openers
  <2> QED  BY <1>1, <2>1, <2>2 DEF TokenAt, Stands
<1> QED  BY <1>3, <1>4, <1>5, BodyNext

\* A statement with blocks opens one.
LEMMA OpenBody ==
  ASSUME BodyInv, NEW tok, NEW seen, Analysed(tok, seen), at' = at + 1,
         tok.op \in Openers, blocks \in Seq(BlockTypes), NEW bs, SameBlocks(blocks, bs),
         NEW b \in BlockTypes, b.op = tok.op, b.at = at, blocks' = Append(bs, b)
  PROVE  BodyInv'
<1>1. /\ prog' \in Seq(Tokens) /\ at \in 1..Len(prog') /\ prog'[at] = tok
      /\ \A j \in 1..(at - 1) : prog'[j] = prog[j]
  BY TakesToken DEF Analysed
<1>2. /\ blocks' \in Seq(BlockTypes) /\ Len(blocks') = Len(blocks) + 1
      /\ blocks'[Len(blocks')] = b /\ Len(blocks) \in Nat
      /\ \A k \in 1..Len(blocks) : blocks'[k] = bs[k]
  BY DEF SameBlocks
<1>3. \A k \in 1..Len(blocks) : blocks'[k].at = blocks[k].at /\ blocks'[k].op = blocks[k].op
  BY <1>2 DEF SameBlocks
<1>4. \A c, ops : OpenAs(blocks, c, ops) => OpenAs(blocks', c, ops)
  <2> TAKE c, ops
  <2> HAVE OpenAs(blocks, c, ops)
  <2>1. PICK k \in 1..Len(blocks) : blocks[k].at = c /\ blocks[k].op \in ops
    BY DEF OpenAs
  <2>2. k \in 1..Len(blocks')
    BY <1>2
  <2> QED  BY <1>3, <2>1, <2>2 DEF OpenAs
<1>5. Follows(prog', at, blocks, blocks')
  BY <1>4 DEF Follows
<1>6. OpenedAt(prog', at + 1, blocks')
  <2>1. OpenedAt(prog, at, blocks)
    BY DEF BodyInv, Bracketed
  <2>2. prog'[at].op \notin Middles \cup Ends /\ prog'[at].op = Opener(b.op)
    BY <1>1 DEF Openers, Middles, Ends, Opener
  <2>3. blocks'[Len(blocks')].at = at /\ prog'[at].op = Opener(blocks'[Len(blocks')].op)
    BY <1>2, <2>2
  <2> QED  BY <1>1, <1>2, <1>3, <2>1, <2>2, <2>3, OpenedPushed
<1>7. TokenAt(prog', at + 1, blocks', at)
  <2>1. Len(blocks') \in 1..Len(blocks') /\ tok.op \in Ops
    BY <1>2 DEF BlockTypes
  <2>2. OpenAs(blocks', at, {tok.op}) /\ OpenAs(blocks', at, Ops)
    BY <1>2, <2>1 DEF OpenAs
  <2>3. Ended(prog', at + 1, blocks', at, at)
    BY <2>2 DEF Ended
  <2>4. /\ tok.op \notin Middles /\ tok.op \notin Ends
        /\ tok.op \notin {"call", "throw", "leave", "continue", "setnull", "setval", "copy"}
    BY DEF Openers, Middles, Ends
  <2>5. /\ tok.op = "try" => OpenAs(blocks', at, {"try"})
        /\ tok.op = "for" => OpenAs(blocks', at, {"for"})
    BY <2>2
  <2> QED  BY <1>1, <2>3, <2>4, <2>5 DEF TokenAt
<1> QED  BY <1>5, <1>6, <1>7, BodyNext

\* The innermost block.
LEMMA InnermostBlock ==
  ASSUME BodyInv, blocks \in Seq(BlockTypes), blocks # << >>
  PROVE  /\ Len(blocks) \in Nat /\ Len(blocks) \in 1..Len(blocks)
         /\ Block = blocks[Len(blocks)] /\ Block \in BlockTypes
         /\ Block.at \in 1..(at - 1) /\ prog[Block.at].op = Opener(Block.op)
<1>1. Len(blocks) \in Nat /\ Len(blocks) \in 1..Len(blocks) /\ Block = blocks[Len(blocks)]
  BY LastBlock DEF Block
<1>2. OpenedAt(prog, at, blocks)
  BY DEF BodyInv, Bracketed
<1> QED  BY <1>1, <1>2, LastBlock DEF OpenedAt, Block

\* A token that is the next part of the innermost block, or that ends it.
LEMMA PartBody ==
  ASSUME BodyInv, NEW tok, NEW seen, Analysed(tok, seen), at' = at + 1,
         tok.op \in Middles \cup Ends, blocks \in Seq(BlockTypes), blocks # << >>,
         tok.link = Block.at, Opener(Block.op) \in Openers,
         \/ /\ tok.op \in Ends /\ blocks' = Front(blocks)
            /\ Block.op \notin {"try", "for"}
         \/ /\ tok.op \in Middles /\ blocks' \in Seq(BlockTypes)
            /\ Len(blocks') = Len(blocks)
            /\ \A k \in 1..(Len(blocks) - 1) : blocks'[k] = blocks[k]
            /\ blocks'[Len(blocks)].at = Block.at
            /\ Opener(blocks'[Len(blocks)].op) = Opener(Block.op)
            /\ Block.op = "try" => tok.op = "catch"
            /\ Block.op = "for" => tok.op = "update"
  PROVE  BodyInv'
<1> DEFINE m == Len(blocks)
<1>1. /\ prog' \in Seq(Tokens) /\ at \in 1..Len(prog') /\ prog'[at] = tok
      /\ \A j \in 1..(at - 1) : prog'[j] = prog[j]
  BY TakesToken DEF Analysed
<1>2. /\ m \in Nat /\ m \in 1..m /\ Block = blocks[m] /\ Block \in BlockTypes
      /\ Block.at \in 1..(at - 1) /\ prog[Block.at].op = Opener(Block.op)
  BY InnermostBlock
<1>3. /\ blocks' \in Seq(BlockTypes) /\ Len(blocks') \in Nat /\ Len(blocks') <= m
      /\ Len(blocks') >= m - 1
      /\ \A k \in 1..(m - 1) : blocks'[k] = blocks[k]
      /\ Len(blocks') = m => /\ blocks'[m].at = Block.at /\ blocks'[m].op \in Ops
                             /\ Opener(blocks'[m].op) = Opener(Block.op)
  <2>1. CASE tok.op \in Ends /\ blocks' = Front(blocks)
    BY <1>2, <2>1, LastBlock
  <2>2. CASE ~(tok.op \in Ends /\ blocks' = Front(blocks))
    <3>1. blocks' \in Seq(BlockTypes) /\ Len(blocks') = m
      BY <2>2
    <3>2. blocks'[m].op \in Ops
      BY <1>2, <3>1, OneBlock
    <3> QED  BY <1>2, <2>2, <3>1, <3>2
  <2> QED  BY <2>1, <2>2
<1>4. ASSUME NEW b, NEW ops, OpenAs(blocks, b, ops), ~OpenAs(blocks', b, ops)
      PROVE  b = Block.at /\ Block.op \in ops
  <2>1. PICK k \in 1..m : blocks[k].at = b /\ blocks[k].op \in ops
    BY <1>4 DEF OpenAs
  <2>2. CASE k = m
    BY <1>2, <2>1, <2>2
  <2>3. CASE k # m
    <3>1. k \in 1..(m - 1) /\ k \in 1..Len(blocks')
      BY <1>2, <1>3, <2>3
    <3>2. blocks'[k] = blocks[k]
      BY <1>3, <3>1
    <3> QED  BY <1>4, <2>1, <3>1, <3>2 DEF OpenAs
  <2> QED  BY <2>2, <2>3
<1>5. Len(blocks') = m => OpenAs(blocks', Block.at, Ops)
  BY <1>2, <1>3 DEF OpenAs
<1>6. tok.op \in Ends \/ (tok.op \in Middles /\ Len(blocks') = m)
  OBVIOUS
<1>7. Follows(prog', at, blocks, blocks')
  <2> SUFFICES ASSUME NEW b
               PROVE  /\ OpenAs(blocks, b, Ops) => OpenAs(blocks', b, Ops)
                                                   \/ (tok.link = b /\ tok.op \in Ends)
                      /\ OpenAs(blocks, b, {"try"}) => OpenAs(blocks', b, {"try"})
                                                   \/ (tok.link = b /\ tok.op = "catch")
                      /\ OpenAs(blocks, b, {"for"}) => OpenAs(blocks', b, {"for"})
                                                   \/ (tok.link = b /\ tok.op = "update")
    BY <1>1 DEF Follows
  <2>1. OpenAs(blocks, b, Ops) => OpenAs(blocks', b, Ops) \/ (tok.link = b /\ tok.op \in Ends)
    BY <1>4, <1>5, <1>6
  <2>2. ASSUME OpenAs(blocks, b, {"try"}), ~OpenAs(blocks', b, {"try"})
        PROVE  tok.link = b /\ tok.op = "catch"
    <3>1. b = Block.at /\ Block.op = "try"
      BY <1>4, <2>2
    <3> QED  BY <3>1
  <2>3. ASSUME OpenAs(blocks, b, {"for"}), ~OpenAs(blocks', b, {"for"})
        PROVE  tok.link = b /\ tok.op = "update"
    <3>1. b = Block.at /\ Block.op = "for"
      BY <1>4, <2>3
    <3> QED  BY <3>1
  <2> QED  BY <2>1, <2>2, <2>3
<1>8. OpenedAt(prog', at + 1, blocks')
  <2>1. OpenedAt(prog, at, blocks)
    BY DEF BodyInv, Bracketed
  <2>2. \A k \in 1..Len(blocks') :
          blocks'[k].at = blocks[k].at /\ Opener(blocks'[k].op) = Opener(blocks[k].op)
    <3> TAKE k \in 1..Len(blocks')
    <3>1. k \in 1..(m - 1) \/ (k = m /\ Len(blocks') = m)
      BY <1>2, <1>3
    <3> QED  BY <1>2, <1>3, <3>1
  <2>3. prog'[at].link = blocks[Len(blocks)].at
    BY <1>1, <1>2
  <2> QED  BY <1>1, <1>2, <1>3, <2>1, <2>2, <2>3, OpenedKept
<1>9. TokenAt(prog', at + 1, blocks', at)
  <2>1. tok.link \in 1..(at - 1) /\ prog'[tok.link].op \in Openers
    BY <1>1, <1>2
  <2>2. tok.op \in Middles => tok.op \notin Ends
    BY DEF Middles, Ends
  <2>3. tok.op \in Middles => Ended(prog', at + 1, blocks', tok.link, at)
    BY <1>5, <1>6, <2>2 DEF Ended
  <2>4. /\ tok.op \notin Openers /\ tok.op # "try" /\ tok.op # "for"
        /\ tok.op \notin {"call", "throw", "leave", "continue", "setnull", "setval", "copy"}
    BY DEF Openers, Middles, Ends
  <2> QED  BY <1>1, <2>1, <2>3, <2>4 DEF TokenAt
<1> QED  BY <1>7, <1>8, <1>9, BodyNext

\* The body of an outermost loop is analysed again: its tokens, and what ended
\* within it, no longer count as seen.
LEMMA AgainBody ==
  ASSUME BodyInv, AnalysisInv, NEW op \in Loops, MayClose({op}), NEW tok \in Tokens, LoopAgain(tok)
  PROVE  BodyInv'
<1> DEFINE B == Block.at
           m == Len(blocks)
<1>1. /\ phase = "analysis" /\ blocks # << >> /\ Block \in BlockTypes /\ Block.op = op
      /\ blocks \in Seq(BlockTypes)
  BY CloseGood
<1>2. /\ m \in Nat /\ m \in 1..m /\ Block = blocks[m]
      /\ B \in 1..(at - 1) /\ prog[B].op = Opener(op)
  BY <1>1, InnermostBlock
<1>3. /\ Takes(tok, fs) /\ at' = B + 1 /\ UNCHANGED <<dialect, rvars>>
      /\ blocks' = [blocks EXCEPT ![m].jumps = FALSE]
  BY DEF LoopAgain
<1>4. /\ prog' \in Seq(Tokens) /\ at \in 1..Len(prog') /\ prog'[at] = tok
      /\ \A j \in 1..(at - 1) : prog'[j] = prog[j]
      /\ Len(prog) <= Len(prog') /\ Len(prog) \in Nat /\ Len(prog') \in Nat
      /\ improved' \in Seq(SUBSET Types) /\ Len(improved') = Len(prog')
  BY <1>3, TakesToken
<1>5. blocks' = [blocks EXCEPT ![m] = [Block EXCEPT !.jumps = FALSE]]
  BY <1>2, <1>3
<1>6. [Block EXCEPT !.jumps = FALSE] \in BlockTypes
  BY <1>1 DEF BlockTypes
<1>7. /\ Len(blocks') = m /\ \A k \in 1..(m - 1) : blocks'[k] = blocks[k]
      /\ blocks'[m] = [Block EXCEPT !.jumps = FALSE]
  <2> DEFINE b == [Block EXCEPT !.jumps = FALSE]
             cs == [blocks EXCEPT ![Len(blocks)] = b]
  <2>1. b \in BlockTypes /\ blocks' = cs
    BY <1>5, <1>6
  <2> HIDE DEF b
  <2>2. Len(cs) = Len(blocks) /\ cs[Len(blocks)] = b /\ \A k \in 1..(Len(blocks) - 1) : cs[k] = blocks[k]
    BY <1>1, <2>1, ReplacedBlock
  <2> QED  BY <2>1, <2>2 DEF b
<1>8. \A k \in 1..m : blocks'[k].at = blocks[k].at /\ blocks'[k].op = blocks[k].op
  <2>1. blocks'[m].at = Block.at /\ blocks'[m].op = Block.op
    BY <1>1, <1>7 DEF BlockTypes
  <2>2. \A k \in 1..m : k = m \/ k \in 1..(m - 1)
    BY <1>2
  <2> QED  BY <1>2, <1>7, <2>1, <2>2
<1>9. \A b, ops : OpenAs(blocks, b, ops) => OpenAs(blocks', b, ops)
  BY <1>7, <1>8 DEF OpenAs
<1>10. OpenedAt(prog, at, blocks)
  BY DEF BodyInv, Bracketed
<1>11. at \in Nat /\ B \in Nat /\ B < at
  BY <1>2, <1>4
<1>12. \A k \in 1..m : /\ blocks[k].at \in 1..B /\ blocks[k].op \in Ops
                       /\ prog'[blocks[k].at].op = Opener(blocks[k].op)
  <2> TAKE k \in 1..m
  <2>1. /\ blocks[k].at \in 1..(at - 1) /\ prog[blocks[k].at].op = Opener(blocks[k].op)
        /\ blocks[k].op \in Ops
    BY <1>10 DEF OpenedAt
  <2>2. k = m \/ blocks[k].at < blocks[m].at
    BY <1>2, <1>10 DEF OpenedAt
  <2>3. blocks[k].at <= B
    BY <1>2, <1>11, <2>1, <2>2
  <2>4. prog'[blocks[k].at] = prog[blocks[k].at]
    BY <1>4, <2>1
  <2> QED  BY <1>11, <2>1, <2>3, <2>4
<1>13. OpenedAt(prog', B + 1, blocks')
  <2>1. \A k \in 1..m, l \in 1..m : k < l => blocks[k].at < blocks[l].at
    BY <1>10 DEF OpenedAt
  <2>2. ASSUME NEW k \in 1..m, NEW j \in 1..B, j > blocks[k].at, prog'[j].op \in Middles \cup Ends
        PROVE  prog'[j].link >= blocks[k].at
    <3>1. j \in 1..(at - 1)
      BY <1>11
    <3>2. prog'[j] = prog[j]
      BY <1>4, <3>1
    <3> QED  BY <1>10, <2>2, <3>1, <3>2 DEF OpenedAt
  <2>3. 1..((B + 1) - 1) = 1..B
    BY <1>11
  <2> QED  BY <1>7, <1>8, <1>12, <2>1, <2>2, <2>3 DEF OpenedAt
<1>14. ASSUME NEW i \in 1..B, NEW b, b <= i, b \in Nat, NEW ops, ops \subseteq Middles \cup Ends,
              HasPart(prog, at, b, i, ops)
       PROVE  HasPart(prog', B + 1, b, i, ops) \/ (b = B /\ i = B)
  <2>1. PICK j \in (i + 1)..(at - 1) : prog[j].link = b /\ prog[j].op \in ops
    BY <1>14 DEF HasPart
  <2>2. j \in 1..(at - 1) /\ i \in Nat
    BY <1>11
  <2>3. prog'[j] = prog[j]
    BY <1>4, <2>2
  <2>4. CASE j <= B
    <3>1. j \in (i + 1)..((B + 1) - 1)
      BY <1>11, <2>2, <2>4
    <3> QED  BY <2>1, <2>3, <3>1 DEF HasPart
  <2>5. CASE ~(j <= B)
    <3>1. j > blocks[m].at /\ m \in 1..m /\ prog[j].op \in Middles \cup Ends
      BY <1>2, <1>11, <1>14, <2>1, <2>2, <2>5
    <3>2. prog[j].link >= blocks[m].at
      BY <1>10, <2>2, <3>1 DEF OpenedAt
    <3> QED  BY <1>2, <1>11, <1>14, <2>1, <2>2, <3>2
  <2> QED  BY <2>4, <2>5
<1>15. OpenAs(blocks', B, {op}) /\ OpenAs(blocks', B, Ops)
  <2>1. blocks'[m].at = B /\ blocks'[m].op = op /\ op \in Ops
    BY <1>1, <1>2, <1>8, <1>12
  <2> QED  BY <1>2, <1>7, <2>1 DEF OpenAs
<1>16. ASSUME NEW i \in 1..B, NEW b \in Nat, b <= i, Ended(prog, at, blocks, b, i)
       PROVE  Ended(prog', B + 1, blocks', b, i)
  BY <1>9, <1>14, <1>15, <1>16 DEF Ended
<1>17. ASSUME NEW i \in 1..B
       PROVE  TokenAt(prog', B + 1, blocks', i)
  <2> DEFINE b == prog[i].link
             o == prog[i].op
  <2>1. i \in 1..(at - 1) /\ i \in Nat /\ i <= i
    BY <1>11
  <2>2. prog'[i] = prog[i]
    BY <1>4, <2>1
  <2>3. TokenAt(prog, at, blocks, i)
    BY <2>1 DEF BodyInv, Bracketed
  <2>4. ASSUME NEW ops, b \in 1..(i - 1), prog[b].op \in ops
        PROVE  prog'[b].op \in ops
    <3>1. b \in 1..(at - 1)
      BY <1>11, <2>1, <2>4
    <3> QED  BY <1>4, <2>4, <3>1
  <2>5. o \in Openers => Ended(prog', B + 1, blocks', i, i)
    BY <1>16, <2>1, <2>3 DEF TokenAt
  <2>6. o \in Middles => (b \in 1..(i - 1) /\ prog'[b].op \in Openers)
                         /\ Ended(prog', B + 1, blocks', b, i)
    <3> HAVE o \in Middles
    <3>1. b \in 1..(i - 1) /\ prog[b].op \in Openers /\ Ended(prog, at, blocks, b, i)
      BY <2>3 DEF TokenAt
    <3>2. b \in Nat /\ b <= i
      BY <2>1, <3>1
    <3> QED  BY <1>16, <2>4, <3>1, <3>2
  <2>7. /\ o \in Ends => b \in 1..(i - 1) /\ prog'[b].op \in Openers
        /\ o \in {"call", "throw"} => b = 0 \/ (b \in 1..(i - 1) /\ prog'[b].op \in {"try"})
        /\ o = "leave" => b \in 1..(i - 1) /\ prog'[b].op \in Loops \cup {"switch"}
        /\ o = "continue" => b \in 1..(i - 1) /\ prog'[b].op \in Loops
    BY <2>3, <2>4 DEF TokenAt
  <2>8. Opener(op) = op /\ op \in {"while", "for"}
    BY DEF Opener, Loops
  <2>9. o = "try" => OpenAs(blocks', i, {"try"}) \/ HasPart(prog', B + 1, i, i, {"catch"})
    <3> HAVE o = "try"
    <3>1. i # B
      BY <1>2, <2>8
    <3>2. {"catch"} \subseteq Middles \cup Ends
      BY DEF Middles
    <3> QED  BY <1>9, <1>14, <2>1, <2>3, <3>1, <3>2 DEF TokenAt
  <2>10. o = "for" => OpenAs(blocks', i, {"for"}) \/ HasPart(prog', B + 1, i, i, {"update"})
    <3> HAVE o = "for"
    <3>1. i = B => op = "for"
      BY <1>2, <2>8
    <3>2. {"update"} \subseteq Middles \cup Ends
      BY DEF Middles
    <3> QED  BY <1>9, <1>14, <1>15, <2>1, <2>3, <3>1, <3>2 DEF TokenAt
  <2>11. o \in {"setnull", "setval", "copy"} => prog'[i].v \in Types
    BY <2>2, <2>3 DEF TokenAt
  <2> QED  BY <2>2, <2>5, <2>6, <2>7, <2>9, <2>10, <2>11 DEF TokenAt
<1>18. Bracketed(prog', at', blocks')
  <2>1. B + 1 \in 1..(Len(prog') + 1) /\ 1..((B + 1) - 1) = 1..B
    BY <1>4, <1>11
  <2> QED  BY <1>3, <1>13, <1>17, <2>1 DEF Bracketed
<1>19. /\ dialect' = dialect /\ phase' = phase /\ ip' = ip /\ testing' = testing /\ env' = env
  BY <1>3 DEF rvars
<1>20. ip' \in 1..(Len(prog') + 1)
  BY <1>4, <1>19 DEF BodyInv
<1> QED  BY <1>1, <1>4, <1>18, <1>19, <1>20 DEF BodyInv
-----------------------------------------------------------------------------
(* The handlers. *)

\* The tokens that the handlers make.
LEMMA NoneMade == NoVar \in Types \cup {NoVar} /\ NoCond \in AllConds
BY DEF NoCond, AllConds

\* The block that a jump refers to: an open one of those kinds.
LEMMA InnermostOpen ==
  ASSUME BodyInv, blocks \in Seq(BlockTypes), NEW ops
  PROVE  \/ Innermost(ops) = 0
         \/ /\ Innermost(ops) \in 1..(at - 1)
            /\ \E o \in ops : prog[Innermost(ops)].op = Opener(o)
<1> DEFINE open == {i \in DOMAIN blocks : blocks[i].op \in ops}
<1>1. open \subseteq 1..Len(blocks) /\ Len(blocks) \in Nat
  OBVIOUS
<1>2. CASE open = {}
  BY <1>2 DEF Innermost
<1>3. CASE open # {}
  <2>1. open \subseteq Nat /\ \A k \in open : k <= Len(blocks)
    BY <1>1
  <2>2. Max(open) \in open
    <3> HIDE DEF open
    <3> QED  BY <1>1, <1>3, <2>1, MaxOfBounded
  <2>3. Innermost(ops) = blocks[Max(open)].at
    BY <1>3 DEF Innermost
  <2>4. Max(open) \in 1..Len(blocks) /\ blocks[Max(open)].op \in ops
    BY <2>2
  <2> HIDE DEF open
  <2>5. OpenedAt(prog, at, blocks)
    BY DEF BodyInv, Bracketed
  <2>6. /\ blocks[Max(open)].at \in 1..(at - 1)
        /\ prog[blocks[Max(open)].at].op = Opener(blocks[Max(open)].op)
    BY <2>4, <2>5 DEF OpenedAt
  <2> QED  BY <2>3, <2>4, <2>6
<1> QED  BY <1>2, <1>3

\* Noting that a statement was analysed.
LEMMA WithinSame ==
  ASSUME NEW bs \in Seq(BlockTypes)
  PROVE  SameBlocks(bs, Within(bs)) /\ Within(bs) \in Seq(BlockTypes)
<1>1. CASE bs = << >>
  BY <1>1 DEF Within, SameBlocks
<1>2. CASE bs # << >>
  <2> DEFINE b == [Last(bs) EXCEPT !.bare = FALSE]
             cs == [bs EXCEPT ![Len(bs)] = b]
  <2>1. /\ Len(bs) \in Nat /\ Len(bs) > 0 /\ Last(bs) = bs[Len(bs)] /\ Last(bs) \in BlockTypes
    BY <1>2, LastBlock
  <2>2. b \in BlockTypes /\ b.op = Last(bs).op /\ b.at = Last(bs).at
    BY <2>1 DEF BlockTypes
  <2>3. Within(bs) = cs
    BY <1>2, <2>1 DEF Within
  <2> HIDE DEF b
  <2>4. /\ cs \in Seq(BlockTypes) /\ Len(cs) = Len(bs) /\ cs[Len(bs)] = b
        /\ \A i \in 1..(Len(bs) - 1) : cs[i] = bs[i]
    BY <1>2, <2>2, ReplacedBlock
  <2> HIDE DEF cs
  <2>5. \A k \in 1..Len(bs) : cs[k].at = bs[k].at /\ cs[k].op = bs[k].op
    <3> TAKE k \in 1..Len(bs)
    <3>1. k = Len(bs) \/ k \in 1..(Len(bs) - 1)
      BY <2>1
    <3> QED  BY <2>1, <2>2, <2>4, <3>1
  <2> QED  BY <2>3, <2>4, <2>5 DEF SameBlocks
<1> QED  BY <1>1, <1>2

\* Replacing the innermost block by one that began at the same token.
LEMMA ReplacedSame ==
  ASSUME NEW bs \in Seq(BlockTypes), bs # << >>, NEW b \in BlockTypes,
         b.at = bs[Len(bs)].at, b.op = bs[Len(bs)].op
  PROVE  SameBlocks(bs, [bs EXCEPT ![Len(bs)] = b])
<1> DEFINE cs == [bs EXCEPT ![Len(bs)] = b]
<1>1. /\ cs \in Seq(BlockTypes) /\ Len(cs) = Len(bs) /\ cs[Len(bs)] = b
      /\ \A i \in 1..(Len(bs) - 1) : cs[i] = bs[i]
  BY ReplacedBlock
<1>2. Len(bs) \in Nat
  OBVIOUS
<1> HIDE DEF cs
<1>3. \A k \in 1..Len(bs) : cs[k].at = bs[k].at /\ cs[k].op = bs[k].op
  <2> TAKE k \in 1..Len(bs)
  <2>1. k = Len(bs) \/ k \in 1..(Len(bs) - 1)
    BY <1>2
  <2> QED  BY <1>1, <2>1
<1>4. SameBlocks(bs, cs)
  BY <1>1, <1>3 DEF SameBlocks
<1> QED  BY <1>4 DEF cs

LEMMA SameTrans ==
  ASSUME NEW bs, NEW cs, NEW ds, SameBlocks(bs, cs), SameBlocks(cs, ds)
  PROVE  SameBlocks(bs, ds)
BY DEF SameBlocks

\* A statement without blocks.
LEMMA StatementStep ==
  ASSUME BodyInv, AnalysisInv, NEW tok \in Tokens, NEW s, Statement(tok, s), Stands(tok)
  PROVE  BodyInv'
<1>1. /\ MayFollow /\ Takes(tok, fs) /\ blocks' = Within(blocks) /\ at' = at + 1
      /\ UNCHANGED <<dialect, rvars>>
  BY DEF Statement, Advance
<1>2. phase = "analysis" /\ blocks \in Seq(BlockTypes)
  BY <1>1, FollowGood
<1>3. Analysed(tok, fs)
  BY <1>1, <1>2 DEF Analysed
<1> QED  BY <1>1, <1>2, <1>3, WithinSame, StatementBody

\* The assignments, reads and calls.
LEMMA SimpleStep ==
  ASSUME BodyInv, AnalysisInv,
         \/ AnalyseRead
         \/ \E v \in Dialect.vars : AnalyseSetNull(v)
         \/ \E v \in Dialect.vars : AnalyseSetVal(v)
         \/ \E v, w \in Dialect.vars : AnalyseCopy(v, w)
         \/ AnalyseCall
  PROVE  BodyInv'
<1>1. Dialect.vars \subseteq Types
  BY FlowAnalysisAssumption DEF BodyInv, Dialect, IsDialect
<1>2. 0 \in Nat /\ FALSE \in BOOLEAN
  OBVIOUS
<1>3. ASSUME NEW op \in {"read", "setnull", "setval", "copy"}, NEW v \in Types \cup {NoVar},
             NEW w \in Types \cup {NoVar}, op = "read" \/ v \in Types, NEW s,
             Statement(NewToken(op, v, w, NoCond, FALSE, 0), s)
      PROVE  BodyInv'
  <2> DEFINE tok == NewToken(op, v, w, NoCond, FALSE, 0)
  <2>1. op \in OpNames
    BY DEF OpNames
  <2>2. tok \in Tokens /\ tok.op = op /\ tok.v = v
    BY <1>2, <2>1, NoneMade DEF NewToken, Tokens
  <2>3. Statement(tok, s)
    BY <1>3
  <2> HIDE DEF tok
  <2>4. Stands(tok)
    BY <1>3, <2>2 DEF Stands, Openers, Middles, Ends
  <2> QED  BY <2>2, <2>3, <2>4, StatementStep
<1>4. CASE AnalyseRead
  BY <1>3, <1>4, NoneMade DEF AnalyseRead, Plain
<1>5. ASSUME NEW v \in Dialect.vars, AnalyseSetNull(v) PROVE BodyInv'
  <2>1. Statement(NewToken("setnull", v, NoVar, NoCond, FALSE, 0), Unimprove(fs, {v}))
    BY <1>5 DEF AnalyseSetNull, Plain
  <2> QED  BY <1>1, <1>3, <2>1, NoneMade
<1>6. ASSUME NEW v \in Dialect.vars, AnalyseSetVal(v) PROVE BodyInv'
  <2>1. Statement(NewToken("setval", v, NoVar, NoCond, FALSE, 0), Improve(fs, {v}))
    BY <1>6 DEF AnalyseSetVal, Plain
  <2> QED  BY <1>1, <1>3, <2>1, NoneMade
<1>7. ASSUME NEW v \in Dialect.vars, NEW w \in Dialect.vars, AnalyseCopy(v, w) PROVE BodyInv'
  <2>1. \E s : Statement(NewToken("copy", v, w, NoCond, FALSE, 0), s)
    BY <1>7 DEF AnalyseCopy
  <2> QED  BY <1>1, <1>3, <2>1
<1>8. CASE AnalyseCall
  <2> DEFINE b == Innermost({"try"})
             tok == NewToken("call", NoVar, NoVar, NoCond, FALSE, b)
  <2>1. Statement(tok, Unimprove(fs, Globals)) /\ MayFollow
    BY <1>8 DEF AnalyseCall, Statement
  <2>2. b = 0 \/ (b \in 1..(at - 1) /\ prog[b].op = Opener("try"))
    BY <2>1, FollowGood, InnermostOpen
  <2>3. b \in Nat
    BY <2>2
  <2> HIDE DEF b
  <2>9. "call" \in OpNames
    BY DEF OpNames
  <2>4. tok \in Tokens /\ tok.op = "call" /\ tok.link = b
    BY <2>3, <2>9, NoneMade DEF NewToken, Tokens
  <2> HIDE DEF tok
  <2>5. Stands(tok)
    BY <2>2, <2>4 DEF Stands, Openers, Middles, Ends, Opener
  <2> QED  BY <2>1, <2>4, <2>5, StatementStep
<1> QED  BY <1>4, <1>5, <1>6, <1>7, <1>8

\* RETURN, THROW, LEAVE and CONTINUE.
LEMMA ControlStep ==
  ASSUME BodyInv, AnalysisInv, AnalyseReturn \/ AnalyseThrow \/ AnalyseContinue \/ AnalyseLeave
  PROVE  BodyInv'
<1> DEFINE Jumps(op, link) ==
             /\ Control(op, link)
             /\ op = "return" => link = 0
             /\ op = "throw" => link = Innermost({"try"})
             /\ op = "continue" => link # 0 /\ link = Innermost(Loops)
             /\ op = "leave" => link # 0 /\ link = Innermost(Loops \cup {"switch"})
<1>0. PICK op \in Controls : \E link : Jumps(op, link)
  BY DEF AnalyseReturn, AnalyseThrow, AnalyseContinue, AnalyseLeave, Controls
<1>1. PICK link : Jumps(op, link)
  BY <1>0
<1> DEFINE tok == NewToken(op, NoVar, NoVar, NoCond, FALSE, link)
           cs == Within(blocks)
           b == [cs[Len(cs)] EXCEPT !.jumps = TRUE]
<1>2. /\ MayFollow /\ Takes(tok, fs) /\ blocks # << >> /\ at' = at + 1
      /\ blocks' = [cs EXCEPT ![Len(blocks)].jumps = TRUE] /\ UNCHANGED <<dialect, rvars>>
  BY <1>1 DEF Control, Advance
<1>3. phase = "analysis" /\ blocks \in Seq(BlockTypes)
  BY <1>2, FollowGood
<1>4. SameBlocks(blocks, cs) /\ cs \in Seq(BlockTypes)
  BY <1>3, WithinSame
<1> HIDE DEF cs
<1>5. Len(cs) = Len(blocks) /\ cs # << >> /\ cs[Len(cs)] \in BlockTypes
  <2>1. Len(cs) = Len(blocks) /\ Len(blocks) \in Nat /\ Len(blocks) > 0
    BY <1>2, <1>3, <1>4 DEF SameBlocks
  <2>2. cs # << >> /\ Len(cs) \in 1..Len(cs)
    BY <1>4, <2>1
  <2> QED  BY <1>4, <2>1, <2>2, OneBlock
<1>6. b \in BlockTypes /\ b.op = cs[Len(cs)].op /\ b.at = cs[Len(cs)].at
  BY <1>5 DEF BlockTypes
<1>7. blocks' = [cs EXCEPT ![Len(cs)] = b]
  BY <1>2, <1>5
<1> HIDE DEF b
<1>8. SameBlocks(blocks, blocks')
  BY <1>4, <1>5, <1>6, <1>7, ReplacedSame, SameTrans
<1>9. /\ op = "throw" => link = 0 \/ (link \in 1..(at - 1) /\ prog[link].op \in {"try"})
      /\ op = "continue" => link \in 1..(at - 1) /\ prog[link].op \in Loops
      /\ op = "leave" => link \in 1..(at - 1) /\ prog[link].op \in Loops \cup {"switch"}
  <2>1. \A o \in Loops \cup {"switch", "try"} : Opener(o) = o
    BY DEF Loops, Opener
  <2>2. ASSUME op = "throw", link # 0
        PROVE  link \in 1..(at - 1) /\ prog[link].op \in {"try"}
    BY <1>1, <1>3, <2>1, <2>2, InnermostOpen
  <2>3. ASSUME op = "continue"
        PROVE  link \in 1..(at - 1) /\ prog[link].op \in Loops
    <3>1. link # 0 /\ link = Innermost(Loops)
      BY <1>1, <2>3
    <3>2. link \in 1..(at - 1) /\ \E o \in Loops : prog[link].op = Opener(o)
      BY <1>3, <3>1, InnermostOpen
    <3> QED  BY <2>1, <3>2
  <2>4. ASSUME op = "leave"
        PROVE  link \in 1..(at - 1) /\ prog[link].op \in Loops \cup {"switch"}
    <3>1. link # 0 /\ link = Innermost(Loops \cup {"switch"})
      BY <1>1, <2>4
    <3>2. link \in 1..(at - 1) /\ \E o \in Loops \cup {"switch"} : prog[link].op = Opener(o)
      BY <1>3, <3>1, InnermostOpen
    <3> QED  BY <2>1, <3>2
  <2> QED  BY <2>2, <2>3, <2>4
<1>10. op \in OpNames /\ link \in Nat
  BY <1>1, <1>9 DEF Controls, OpNames
<1>11. tok \in Tokens /\ tok.op = op /\ tok.link = link
  BY <1>10, NoneMade DEF NewToken, Tokens
<1> HIDE DEF tok
<1>12. Stands(tok)
  BY <1>9, <1>11 DEF Stands, Openers, Middles, Ends, Controls
<1>13. Analysed(tok, fs)
  BY <1>2, <1>3, <1>11 DEF Analysed
<1> QED  BY <1>2, <1>3, <1>8, <1>12, <1>13, StatementBody

\* The conditions of a dialect.
LEMMA CondTyped ==
  ASSUME BodyInv, NEW c \in Dialect.conds
  PROVE  c \in AllConds
BY FlowAnalysisAssumption DEF BodyInv, Dialect, IsDialect

\* A block is opened.
LEMMA OpenStep ==
  ASSUME BodyInv, AnalysisInv, MayFollow, NEW op \in Openers, NEW c \in AllConds,
         NEW open \in BOOLEAN, NEW tok \in Tokens, tok.op = op, Takes(tok, fs),
         blocks' = Append(Within(blocks), NewBlock(op, c, open)), at' = at + 1,
         UNCHANGED <<dialect, rvars>>
  PROVE  BodyInv'
<1> DEFINE b == NewBlock(op, c, open)
<1>1. phase = "analysis" /\ blocks \in Seq(BlockTypes)
  BY FollowGood
<1>2. at \in Nat /\ loopState \in LoopStates /\ op \in Ops
  BY DEF AnalysisInv, Openers, Ops, CondBlocks
<1>3. b \in BlockTypes /\ b.op = op /\ b.at = at
  BY <1>2 DEF NewBlock, BlockTypes
<1> HIDE DEF b
<1>4. SameBlocks(blocks, Within(blocks)) /\ Analysed(tok, fs) /\ blocks' = Append(Within(blocks), b)
  BY <1>1, WithinSame DEF Analysed, b
<1> QED  BY <1>1, <1>3, <1>4, OpenBody

\* The next part of the innermost block begins.
LEMMA MiddleStep ==
  ASSUME BodyInv, AnalysisInv, NEW ops, MayClose(ops), NEW tok \in Tokens, NEW seen,
         Takes(tok, seen), tok.op \in Middles, tok.link = Block.at, NEW b \in BlockTypes,
         b.at = Block.at, Opener(b.op) = Opener(Block.op), Opener(Block.op) \in Openers,
         Block.op = "try" => tok.op = "catch", Block.op = "for" => tok.op = "update",
         blocks' = [blocks EXCEPT ![Len(blocks)] = b], at' = at + 1,
         UNCHANGED <<dialect, rvars>>
  PROVE  BodyInv'
<1>1. phase = "analysis" /\ blocks # << >> /\ blocks \in Seq(BlockTypes)
  BY CloseGood
<1>2. /\ blocks' \in Seq(BlockTypes) /\ Len(blocks') = Len(blocks) /\ blocks'[Len(blocks)] = b
      /\ \A k \in 1..(Len(blocks) - 1) : blocks'[k] = blocks[k]
  BY <1>1, ReplacedBlock
<1>3. Analysed(tok, seen)
  BY <1>1 DEF Analysed
<1> QED  BY <1>1, <1>2, <1>3, PartBody

\* The innermost block ends.
LEMMA EndStep ==
  ASSUME BodyInv, AnalysisInv, NEW ops, MayClose(ops), NEW tok \in Tokens, NEW s, Close(tok, s),
         tok.op \in Ends, tok.link = Block.at, Opener(Block.op) \in Openers,
         Block.op \notin {"try", "for"}
  PROVE  BodyInv'
<1>1. phase = "analysis" /\ blocks # << >> /\ blocks \in Seq(BlockTypes)
  BY CloseGood
<1>2. Takes(tok, fs) /\ blocks' = Front(blocks) /\ at' = at + 1 /\ UNCHANGED <<dialect, rvars>>
  BY DEF Close, Advance
<1>3. Analysed(tok, fs)
  BY <1>1, <1>2 DEF Analysed
<1> QED  BY <1>1, <1>2, <1>3, PartBody

\* The token of a part of the innermost block.
LEMMA PartToken ==
  ASSUME BodyInv, AnalysisInv, NEW ops, MayClose(ops), NEW op \in Middles \cup Ends,
         NEW c \in AllConds, NEW empty \in BOOLEAN
  PROVE  LET tok == NewToken(op, NoVar, NoVar, c, empty, Block.at)
         IN tok \in Tokens /\ tok.op = op /\ tok.link = Block.at /\ tok.empty = empty
<1>1. Block.at \in Nat
  BY CloseGood, InnermostBlock DEF BlockTypes
<1>2. op \in OpNames
  BY DEF OpNames
<1> QED  BY <1>1, <1>2, NoneMade DEF NewToken, Tokens

\* The token that opens a block.
LEMMA OpenToken ==
  ASSUME NEW op \in Openers, NEW c \in AllConds, NEW empty \in BOOLEAN
  PROVE  LET tok == NewToken(op, NoVar, NoVar, c, empty, 0)
         IN tok \in Tokens /\ tok.op = op
<1>1. op \in OpNames /\ 0 \in Nat
  BY DEF OpNames
<1> QED  BY <1>1, NoneMade DEF NewToken, Tokens

\* IF, SWITCH, WHILE, FOR and TRY.
LEMMA OpenersStep ==
  ASSUME BodyInv, AnalysisInv,
         \/ \E c \in Dialect.conds, empty \in BOOLEAN : AnalyseIf(c, empty)
         \/ AnalyseSwitch
         \/ \E op \in Loops, c \in Dialect.conds : AnalyseLoop(op, c)
         \/ AnalyseTry
  PROVE  BodyInv'
<1>1. PICK op \in Openers, c \in AllConds, empty \in BOOLEAN, open \in BOOLEAN :
         /\ MayFollow /\ Takes(NewToken(op, NoVar, NoVar, c, empty, 0), fs)
         /\ blocks' = Append(Within(blocks), NewBlock(op, c, open))
         /\ Advance /\ UNCHANGED <<dialect, rvars>>
  <2>1. ASSUME NEW c \in Dialect.conds, NEW empty \in BOOLEAN, AnalyseIf(c, empty)
        PROVE  \E open \in BOOLEAN :
                 /\ MayFollow /\ Takes(NewToken("if", NoVar, NoVar, c, empty, 0), fs)
                 /\ blocks' = Append(Within(blocks), NewBlock("if", c, open))
                 /\ Advance /\ UNCHANGED <<dialect, rvars>>
    <3>1. (~empty) \in BOOLEAN
      OBVIOUS
    <3> QED  BY <2>1, <3>1, Zenon DEF AnalyseIf
  <2>2. ASSUME AnalyseSwitch
        PROVE  /\ MayFollow /\ Takes(NewToken("switch", NoVar, NoVar, NoCond, FALSE, 0), fs)
               /\ blocks' = Append(Within(blocks), NewBlock("switch", NoCond, TRUE))
               /\ Advance /\ UNCHANGED <<dialect, rvars>>
    BY <2>2, Zenon DEF AnalyseSwitch, Plain
  <2>3. ASSUME NEW op \in Loops, NEW c \in Dialect.conds, AnalyseLoop(op, c)
        PROVE  /\ MayFollow /\ Takes(NewToken(op, NoVar, NoVar, c, FALSE, 0), fs)
               /\ blocks' = Append(Within(blocks), NewBlock(op, c, TRUE))
               /\ Advance /\ UNCHANGED <<dialect, rvars>>
    BY <2>3, Zenon DEF AnalyseLoop
  <2>4. ASSUME AnalyseTry
        PROVE  /\ MayFollow /\ Takes(NewToken("try", NoVar, NoVar, NoCond, FALSE, 0), fs)
               /\ blocks' = Append(Within(blocks), NewBlock("try", NoCond, TRUE))
               /\ Advance /\ UNCHANGED <<dialect, rvars>>
    BY <2>4, Zenon DEF AnalyseTry, Plain
  <2>5. {"if", "switch", "try"} \cup Loops \subseteq Openers /\ TRUE \in BOOLEAN /\ FALSE \in BOOLEAN
    BY DEF Openers, Loops
  <2>6. "if" \in Openers /\ "switch" \in Openers /\ "try" \in Openers
        /\ \A op \in Loops : op \in Openers
    BY <2>5
  <2>7. \A c \in Dialect.conds : c \in AllConds
    BY CondTyped
  <2> QED  BY <2>1, <2>2, <2>3, <2>4, <2>5, <2>6, <2>7, NoneMade, Zenon
<1> DEFINE tok == NewToken(op, NoVar, NoVar, c, empty, 0)
<1>2. tok \in Tokens /\ tok.op = op
  BY OpenToken
<1>3. Takes(tok, fs) /\ at' = at + 1
  BY <1>1 DEF Advance
<1> HIDE DEF tok
<1> QED  BY <1>1, <1>2, <1>3, OpenStep

\* ELSE IF, ELSE and WHEN.
LEMMA AlternativeStep ==
  ASSUME BodyInv, AnalysisInv, NEW ops \in {{"if"}, {"switch"}}, MayClose(ops),
         NEW op \in {"elseif", "else", "when"}, op = "else" => ops = {"if"},
         NEW d \in AllConds, NEW empty \in BOOLEAN, NEW seen, NEW s, NEW c \in AllConds,
         Alternative(NewToken(op, NoVar, NoVar, d, empty, Block.at), seen, s, c)
  PROVE  BodyInv'
<1> DEFINE tok == NewToken(op, NoVar, NoVar, d, empty, Block.at)
           b == [Block EXCEPT !.c = c, !.open = ~tok.empty, !.bare = ~tok.empty,
                              !.guard = FALSE, !.jumps = FALSE,
                              !.op = IF tok.op = "else" THEN "else" ELSE Block.op]
<1>1. Block \in BlockTypes /\ Block.op \in ops
  BY CloseGood
<1>2. op \in Middles \cup Ends /\ op \in Middles
  BY DEF Middles
<1>3. tok \in Tokens /\ tok.op = op /\ tok.link = Block.at /\ tok.empty = empty
  BY <1>2, PartToken
<1>4. /\ Takes(tok, seen) /\ at' = at + 1 /\ UNCHANGED <<dialect, rvars>>
      /\ blocks' = [blocks EXCEPT ![Len(blocks)] = b]
  BY Zenon DEF Alternative, Advance
<1> HIDE DEF tok
<1>5. /\ b \in BlockTypes /\ b.at = Block.at
      /\ b.op = IF op = "else" THEN "else" ELSE Block.op
  <2>1. (IF op = "else" THEN "else" ELSE Block.op) \in Ops
    BY <1>1 DEF Ops, CondBlocks
  <2> QED  BY <1>1, <1>3, <2>1 DEF BlockTypes
<1> HIDE DEF b
<1>6. /\ Opener(b.op) = Opener(Block.op) /\ Opener(Block.op) \in Openers
      /\ Block.op # "try" /\ Block.op # "for"
  BY <1>1, <1>5 DEF Opener, Openers
<1> QED  BY <1>2, <1>3, <1>4, <1>5, <1>6, MiddleStep

\* The update list of a FOR and the handler of a TRY.
LEMMA SecondStep ==
  ASSUME BodyInv, AnalysisInv, NEW op1 \in {"for", "try"}, NEW op \in {"update", "catch"},
         op1 = "for" <=> op = "update", MayClose({op1}),
         Takes(NewToken(op, NoVar, NoVar, NoCond, FALSE, Block.at), fs),
         at' = at + 1, UNCHANGED <<dialect, rvars>>,
         blocks' = [blocks EXCEPT ![Len(blocks)] =
                      [@ EXCEPT !.op = op, !.bare = TRUE, !.jumps = FALSE]]
  PROVE  BodyInv'
<1> DEFINE tok == NewToken(op, NoVar, NoVar, NoCond, FALSE, Block.at)
           b == [Block EXCEPT !.op = op, !.bare = TRUE, !.jumps = FALSE]
<1>1. Block \in BlockTypes /\ Block.op = op1 /\ Block = blocks[Len(blocks)]
  BY CloseGood
<1>2. op \in Middles /\ op \in Middles \cup Ends /\ FALSE \in BOOLEAN /\ op \in Ops
  BY DEF Middles, Ops
<1>3. tok \in Tokens /\ tok.op = op /\ tok.link = Block.at
  BY <1>2, NoneMade, PartToken
<1>4. Takes(tok, fs)
  OBVIOUS
<1> HIDE DEF tok
<1>5. blocks' = [blocks EXCEPT ![Len(blocks)] = b]
  BY <1>1, Zenon
<1>6. b \in BlockTypes /\ b.at = Block.at /\ b.op = op
  BY <1>1, <1>2 DEF BlockTypes
<1> HIDE DEF b
<1>7. /\ Opener(b.op) = Opener(Block.op) /\ Opener(Block.op) \in Openers
      /\ Block.op = "try" => tok.op = "catch"
      /\ Block.op = "for" => tok.op = "update"
  BY <1>1, <1>3, <1>6 DEF Opener, Openers
<1> QED  BY <1>2, <1>3, <1>4, <1>5, <1>6, <1>7, MiddleStep

\* The end of a block.
LEMMA ClosedStep ==
  ASSUME BodyInv, AnalysisInv, NEW ops, ops \subseteq {"if", "else", "switch", "while", "update", "catch"},
         MayClose(ops), NEW op \in Ends, NEW empty \in BOOLEAN, NEW s,
         Close(NewToken(op, NoVar, NoVar, NoCond, empty, Block.at), s)
  PROVE  BodyInv'
<1> DEFINE tok == NewToken(op, NoVar, NoVar, NoCond, empty, Block.at)
<1>1. Block.op \in ops
  BY CloseGood
<1>2. tok \in Tokens /\ tok.op = op /\ tok.link = Block.at
  BY NoneMade, PartToken
<1>3. Close(tok, s)
  OBVIOUS
<1> HIDE DEF tok
<1>4. Opener(Block.op) \in Openers /\ Block.op \notin {"try", "for"}
  BY <1>1 DEF Opener, Openers
<1> QED  BY <1>2, <1>3, <1>4, EndStep

\* The end of the body of a loop, which may be analysed again.
LEMMA AgainStep ==
  ASSUME BodyInv, AnalysisInv, NEW op \in Loops, MayClose({op}), NEW part \in Middles \cup Ends,
         LoopAgain(NewToken(part, NoVar, NoVar, NoCond, FALSE, Block.at))
  PROVE  BodyInv'
<1> DEFINE tok == NewToken(part, NoVar, NoVar, NoCond, FALSE, Block.at)
<1>1. tok \in Tokens
  BY NoneMade, PartToken
<1>2. LoopAgain(tok)
  OBVIOUS
<1> HIDE DEF tok
<1> QED  BY <1>1, <1>2, AgainBody

\* The parts of the blocks, and their ends.
LEMMA PartsStep ==
  ASSUME BodyInv, AnalysisInv,
         \/ \E c \in Dialect.conds, empty \in BOOLEAN : AnalyseElseIf(c, empty)
         \/ \E empty \in BOOLEAN : AnalyseElse(empty)
         \/ AnalyseEndIf
         \/ AnalyseWhen
         \/ \E covers \in BOOLEAN : AnalyseEndSwitch(covers)
         \/ AnalyseEndWhile
         \/ AnalyseUpdate
         \/ AnalyseEndFor
         \/ AnalyseCatch
         \/ AnalyseEndTry
  PROVE  BodyInv'
<1>1. ASSUME NEW c \in Dialect.conds, NEW empty \in BOOLEAN, AnalyseElseIf(c, empty)
      PROVE  BodyInv'
  <2>1. /\ MayClose({"if"})
        /\ Alternative(NewToken("elseif", NoVar, NoVar, c, empty, Block.at),
                       ClosedSoFar, OpenBranch(ClosedSoFar, c, empty), c)
    BY <1>1, Zenon DEF AnalyseElseIf
  <2> QED  BY <2>1, CondTyped, AlternativeStep
<1>2. ASSUME NEW empty \in BOOLEAN, AnalyseElse(empty)
      PROVE  BodyInv'
  <2>1. /\ MayClose({"if"})
        /\ \E seen, s : Alternative(NewToken("else", NoVar, NoVar, NoCond, empty, Block.at),
                                    seen, s, NoCond)
    BY <1>2, Zenon DEF AnalyseElse
  <2> QED  BY <2>1, NoneMade, AlternativeStep
<1>3. CASE AnalyseWhen
  <2>1. /\ MayClose({"switch"})
        /\ Alternative(NewToken("when", NoVar, NoVar, NoCond, FALSE, Block.at),
                       PopBranch(fs), PushBranch(PopBranch(fs)), NoCond)
    BY <1>3, Zenon DEF AnalyseWhen
  <2> QED  BY <2>1, NoneMade, AlternativeStep
<1>4. CASE AnalyseEndIf
  <2>1. /\ MayClose({"if", "else"})
        /\ \E s : Close(NewToken("endif", NoVar, NoVar, NoCond, FALSE, Block.at), s)
    BY <1>4, Zenon DEF AnalyseEndIf
  <2>2. "endif" \in Ends /\ {"if", "else"} \subseteq {"if", "else", "switch", "while", "update", "catch"}
    BY DEF Ends
  <2> QED  BY <2>1, <2>2, ClosedStep
<1>5. ASSUME NEW covers \in BOOLEAN, AnalyseEndSwitch(covers)
      PROVE  BodyInv'
  <2>1. /\ MayClose({"switch"})
        /\ \E s : Close(NewToken("endswitch", NoVar, NoVar, NoCond, covers, Block.at), s)
    BY <1>5, Zenon DEF AnalyseEndSwitch
  <2>2. "endswitch" \in Ends /\ {"switch"} \subseteq {"if", "else", "switch", "while", "update", "catch"}
    BY DEF Ends
  <2> QED  BY <2>1, <2>2, ClosedStep
<1>6. CASE AnalyseEndWhile
  <2>1. /\ MayClose({"while"})
        /\ \/ LoopAgain(NewToken("endwhile", NoVar, NoVar, NoCond, FALSE, Block.at))
           \/ \E s : Close(NewToken("endwhile", NoVar, NoVar, NoCond, FALSE, Block.at), s)
    BY <1>6, Zenon DEF AnalyseEndWhile
  <2>2. /\ "endwhile" \in Ends /\ "endwhile" \in Middles \cup Ends /\ "while" \in Loops
        /\ {"while"} \subseteq {"if", "else", "switch", "while", "update", "catch"}
    BY DEF Ends, Loops
  <2> QED  BY <2>1, <2>2, ClosedStep, AgainStep
<1>7. CASE AnalyseUpdate
  <2>1. /\ MayClose({"for"})
        /\ \/ LoopAgain(NewToken("update", NoVar, NoVar, NoCond, FALSE, Block.at))
           \/ /\ Takes(NewToken("update", NoVar, NoVar, NoCond, FALSE, Block.at), fs)
              /\ Advance /\ UNCHANGED <<dialect, rvars>>
              /\ blocks' = [blocks EXCEPT ![Len(blocks)] =
                              [@ EXCEPT !.op = "update", !.bare = TRUE, !.jumps = FALSE]]
    BY <1>7, Zenon DEF AnalyseUpdate
  <2>2. "update" \in Middles \cup Ends /\ "for" \in Loops
    BY DEF Middles, Loops
  <2>3. Advance => at' = at + 1
    BY DEF Advance
  <2>5. CASE LoopAgain(NewToken("update", NoVar, NoVar, NoCond, FALSE, Block.at))
    BY <2>1, <2>2, <2>5, AgainStep
  <2>6. CASE ~LoopAgain(NewToken("update", NoVar, NoVar, NoCond, FALSE, Block.at))
    BY <2>1, <2>3, <2>6, SecondStep
  <2> QED  BY <2>5, <2>6
<1>8. CASE AnalyseEndFor
  <2>1. /\ MayClose({"update"})
        /\ \E s : Close(NewToken("endfor", NoVar, NoVar, NoCond, FALSE, Block.at), s)
    BY <1>8, Zenon DEF AnalyseEndFor
  <2>2. "endfor" \in Ends /\ {"update"} \subseteq {"if", "else", "switch", "while", "update", "catch"}
    BY DEF Ends
  <2> QED  BY <2>1, <2>2, ClosedStep
<1>9. CASE AnalyseCatch
  <2>1. /\ MayClose({"try"})
        /\ Takes(NewToken("catch", NoVar, NoVar, NoCond, FALSE, Block.at), fs)
        /\ Advance /\ UNCHANGED <<dialect, rvars>>
        /\ blocks' = [blocks EXCEPT ![Len(blocks)] =
                        [@ EXCEPT !.op = "catch", !.bare = TRUE, !.jumps = FALSE]]
    BY <1>9, Zenon DEF AnalyseCatch
  <2>2. at' = at + 1
    BY <2>1 DEF Advance
  <2> QED  BY <2>1, <2>2, SecondStep
<1>10. CASE AnalyseEndTry
  <2>1. /\ MayClose({"catch"})
        /\ \E s : Close(NewToken("endtry", NoVar, NoVar, NoCond, FALSE, Block.at), s)
    BY <1>10, Zenon DEF AnalyseEndTry
  <2>2. "endtry" \in Ends /\ {"catch"} \subseteq {"if", "else", "switch", "while", "update", "catch"}
    BY DEF Ends
  <2> QED  BY <2>1, <2>2, ClosedStep
<1> QED  BY <1>1, <1>2, <1>3, <1>4, <1>5, <1>6, <1>7, <1>8, <1>9, <1>10

\* The body is complete; it starts to run.
LEMMA FinishStep ==
  ASSUME BodyInv, Finish
  PROVE  BodyInv'
<1>1. /\ blocks = << >> /\ at > Len(prog) /\ phase' = "running"
      /\ env' \in SUBSET Dialect.vars
      /\ dialect' = dialect /\ prog' = prog /\ improved' = improved /\ at' = at
      /\ blocks' = blocks /\ ip' = ip /\ testing' = testing
  BY DEF Finish
<1>2. at = Len(prog) + 1
  BY <1>1 DEF BodyInv, Bracketed
<1>3. Dialect.vars \subseteq Types
  BY FlowAnalysisAssumption DEF BodyInv, Dialect, IsDialect
<1> QED  BY <1>1, <1>2, <1>3 DEF BodyInv

\* Nothing is analysed yet.
LEMMA BodyInit == Init => BodyInv
<1> SUFFICES ASSUME Init PROVE BodyInv
  OBVIOUS
<1>1. /\ dialect \in DOMAIN Dialects /\ prog = << >> /\ improved = << >> /\ at = 1
      /\ blocks = << >> /\ phase = "analysis" /\ ip = 1 /\ testing = FALSE /\ env = {}
  BY DEF Init, InitAnalysis
<1>2. Bracketed(prog, at, blocks)
  BY <1>1 DEF Bracketed, OpenedAt
<1>3. prog \in Seq(Tokens) /\ improved \in Seq(SUBSET Types) /\ Len(improved) = Len(prog)
  BY <1>1
<1>4. Len(prog) = 0 /\ testing \in BOOLEAN /\ env \subseteq Types
  BY <1>1
<1>5. ip \in 1..(Len(prog) + 1)
  BY <1>1, <1>4
<1> QED  BY <1>1, <1>2, <1>3, <1>4, <1>5 DEF BodyInv
-----------------------------------------------------------------------------
(* The execution. *)

\* Every token of a complete body stands where its block was ended.
Complete ==
  \A i \in 1..Len(prog) :
    LET b == prog[i].link
        op == prog[i].op
        End(x) == HasPart(prog, Len(prog) + 1, x, i, Ends)
        Part(part) == HasPart(prog, Len(prog) + 1, i, i, {part})
        Under(ops) == b \in 1..(i - 1) /\ prog[b].op \in ops
    IN /\ op \in Openers => End(i)
       /\ op = "try" => Part("catch")
       /\ op = "for" => Part("update")
       /\ op \in Middles => Under(Openers) /\ End(b)
       /\ op \in Ends => Under(Openers)
       /\ op \in {"call", "throw"} => b = 0 \/ Under({"try"})
       /\ op = "leave" => Under(Loops \cup {"switch"})
       /\ op = "continue" => Under(Loops)
       /\ op \in {"setnull", "setval", "copy"} => prog[i].v \in Types

LEMMA BodyComplete ==
  ASSUME BodyInv, phase # "analysis"
  PROVE  Complete /\ Len(prog) \in Nat
<1>1. blocks = << >> /\ at = Len(prog) + 1 /\ Len(prog) \in Nat /\ Bracketed(prog, at, blocks)
  BY DEF BodyInv
<1>2. \A b, ops : ~OpenAs(blocks, b, ops)
  BY <1>1 DEF OpenAs
<1>3. \A i \in 1..Len(prog) : TokenAt(prog, Len(prog) + 1, blocks, i)
  BY <1>1 DEF Bracketed
<1>4. Complete
  <2> SUFFICES ASSUME NEW i \in 1..Len(prog)
               PROVE  LET b == prog[i].link
                          op == prog[i].op
                          End(x) == HasPart(prog, Len(prog) + 1, x, i, Ends)
                          Part(part) == HasPart(prog, Len(prog) + 1, i, i, {part})
                          Under(ops) == b \in 1..(i - 1) /\ prog[b].op \in ops
                      IN /\ op \in Openers => End(i)
                         /\ op = "try" => Part("catch")
                         /\ op = "for" => Part("update")
                         /\ op \in Middles => Under(Openers) /\ End(b)
                         /\ op \in Ends => Under(Openers)
                         /\ op \in {"call", "throw"} => b = 0 \/ Under({"try"})
                         /\ op = "leave" => Under(Loops \cup {"switch"})
                         /\ op = "continue" => Under(Loops)
                         /\ op \in {"setnull", "setval", "copy"} => prog[i].v \in Types
    BY DEF Complete
  <2>1. TokenAt(prog, Len(prog) + 1, blocks, i)
    BY <1>3
  <2> QED  BY <1>2, <2>1 DEF TokenAt, Ended
<1> QED  BY <1>1, <1>4

\* A part of a block after one of its tokens.
LEMMA PartThere ==
  ASSUME Len(prog) \in Nat, NEW b \in 1..Len(prog), NEW i \in Nat, b <= i, NEW ops,
         ops \subseteq Ends \cup {"update", "catch"}, HasPart(prog, Len(prog) + 1, b, i, ops)
  PROVE  \E j \in Parts(b) : j > i /\ prog[j].op \in ops
<1>1. PICK j \in (i + 1)..((Len(prog) + 1) - 1) : prog[j].link = b /\ prog[j].op \in ops
  BY DEF HasPart
<1>2. j \in b..Len(prog) /\ j > i
  OBVIOUS
<1> QED  BY <1>1, <1>2 DEF Parts, Ends

\* Where the execution goes after a block, or to its next part.
LEMMA JumpsInside ==
  ASSUME Len(prog) \in Nat, NEW b \in 1..Len(prog), NEW i \in Nat, b <= i,
         HasPart(prog, Len(prog) + 1, b, i, Ends)
  PROVE  /\ Past(b) \in 1..(Len(prog) + 1)
         /\ BlockOf(i) = b => PartAfter(i) \in 1..(Len(prog) + 1)
<1>1. PICK j \in Parts(b) : j > i
  BY PartThere
<1>2. Parts(b) \subseteq Nat /\ \A x \in Parts(b) : x \in 1..Len(prog)
  BY DEF Parts
<1>3. Max(Parts(b)) \in Parts(b)
  BY <1>1, <1>2, MaxOfBounded
<1>4. Past(b) \in 1..(Len(prog) + 1)
  BY <1>2, <1>3 DEF Past
<1>5. ASSUME BlockOf(i) = b PROVE PartAfter(i) \in 1..(Len(prog) + 1)
  <2> DEFINE later == {x \in Parts(b) : x > i}
  <2>1. later \subseteq Nat /\ later # {}
    BY <1>1, <1>2
  <2>2. \E m \in later : \A k \in later : m <= k
    BY <2>1, LeastMember
  <2>3. PartAfter(i) = Min(later)
    BY <1>5 DEF PartAfter
  <2>4. Min(later) \in later
    <3> HIDE DEF later
    <3> QED  BY <2>2 DEF Min
  <2>5. Min(later) \in 1..Len(prog)
    BY <1>2, <2>4
  <2> QED  BY <2>3, <2>5
<1> QED  BY <1>4, <1>5

\* The part of a block that has this name.
LEMMA NamedInside ==
  ASSUME Len(prog) \in Nat, NEW b \in 1..Len(prog), NEW op \in {"update", "catch"},
         HasPart(prog, Len(prog) + 1, b, b, {op})
  PROVE  PartNamed(b, op) + 1 \in 1..(Len(prog) + 1)
<1>1. PICK j \in Parts(b) : prog[j].op = op
  BY PartThere
<1>2. PartNamed(b, op) \in Parts(b)
  BY <1>1 DEF PartNamed
<1> QED  BY <1>2 DEF Parts

\* A step of the execution changes no token and stays within the body.
LEMMA RunKept ==
  ASSUME BodyInv, phase = "running", UNCHANGED avars, phase' \in {"running", "done"},
         ip' \in 1..(Len(prog) + 1), testing' \in BOOLEAN, env' \subseteq Types
  PROVE  BodyInv'
<1>1. /\ dialect' = dialect /\ prog' = prog /\ improved' = improved /\ at' = at
      /\ blocks' = blocks
  BY DEF avars
<1> QED  BY <1>1 DEF BodyInv

\* What a call leaves of the variables.
LEMMA AfterCallTyped ==
  ASSUME BodyInv, NEW e \in AfterCall
  PROVE  e \subseteq Types
BY FlowAnalysisAssumption DEF AfterCall, BodyInv, Dialect, IsDialect

\* An error goes to the handler of its TRY, or ends the procedure.
LEMMA ThrowStep ==
  ASSUME BodyInv, Running({"call", "throw"}), ThrowTo(prog[ip].link), env' \subseteq Types
  PROVE  BodyInv'
<1> DEFINE b == prog[ip].link
<1>1. /\ phase = "running" /\ ip \in 1..Len(prog) /\ prog[ip].op \in {"call", "throw"}
      /\ Complete /\ Len(prog) \in Nat /\ testing \in BOOLEAN
  BY BodyComplete DEF Running, BodyInv
<1>2. b = 0 \/ (b \in 1..(ip - 1) /\ prog[b].op = "try")
  BY <1>1 DEF Complete
<1>3. CASE b = 0
  <2>1. UNCHANGED avars /\ phase' = "done" /\ ip' = ip /\ testing' = testing
    BY <1>3 DEF ThrowTo
  <2>2. ip' \in 1..(Len(prog) + 1)
    BY <1>1, <2>1
  <2> QED  BY <1>1, <2>1, <2>2, RunKept
<1>4. CASE b # 0
  <2>1. /\ UNCHANGED avars /\ phase' = phase /\ ip' = PartNamed(b, "catch") + 1
        /\ testing' = FALSE
    BY <1>4 DEF ThrowTo, Goto
  <2>2. b \in 1..Len(prog) /\ prog[b].op = "try"
    BY <1>1, <1>2, <1>4
  <2>3. HasPart(prog, Len(prog) + 1, b, b, {"catch"})
    BY <1>1, <2>2 DEF Complete
  <2>4. ip' \in 1..(Len(prog) + 1)
    BY <1>1, <2>1, <2>2, <2>3, NamedInside
  <2>5. testing' \in BOOLEAN /\ phase' \in {"running", "done"}
    BY <1>1, <2>1
  <2> QED  BY <1>1, <2>1, <2>4, <2>5, RunKept
<1> QED  BY <1>3, <1>4

\* Where the execution may go from a token.
LEMMA Targets ==
  ASSUME BodyInv, phase = "running", ip <= Len(prog)
  PROVE  /\ ip \in 1..Len(prog) /\ ip + 1 \in 1..(Len(prog) + 1) /\ Len(prog) \in Nat
         /\ prog[ip].op \in Openers =>
              /\ BlockOf(ip) = ip /\ Past(ip) \in 1..(Len(prog) + 1)
              /\ PartAfter(ip) \in 1..(Len(prog) + 1)
         /\ prog[ip].op \in Middles =>
              /\ Past(BlockOf(ip)) \in 1..(Len(prog) + 1)
              /\ PartAfter(ip) \in 1..(Len(prog) + 1)
         /\ prog[ip].op \in Ends => prog[ip].link \in 1..Len(prog)
         /\ prog[ip].op \in {"leave", "continue"} =>
              /\ prog[ip].link \in 1..Len(prog) /\ prog[prog[ip].link].op \in Openers
              /\ Past(prog[ip].link) \in 1..(Len(prog) + 1)
<1> DEFINE b == prog[ip].link
           N == Len(prog)
<1>1. ip \in 1..N /\ N \in Nat /\ ip \in Nat /\ Complete
  BY BodyComplete DEF BodyInv
<1>2. ip + 1 \in 1..(N + 1)
  BY <1>1
<1>3. ASSUME prog[ip].op \in Openers
      PROVE  /\ BlockOf(ip) = ip /\ Past(ip) \in 1..(N + 1) /\ PartAfter(ip) \in 1..(N + 1)
  <2>1. BlockOf(ip) = ip
    BY <1>3 DEF BlockOf, Openers
  <2>2. HasPart(prog, N + 1, ip, ip, Ends)
    BY <1>1, <1>3 DEF Complete
  <2> QED  BY <1>1, <2>1, <2>2, JumpsInside
<1>4. ASSUME prog[ip].op \in Middles
      PROVE  Past(BlockOf(ip)) \in 1..(N + 1) /\ PartAfter(ip) \in 1..(N + 1)
  <2>1. BlockOf(ip) = b
    BY <1>4 DEF BlockOf, Middles
  <2>2. b \in 1..(ip - 1) /\ HasPart(prog, N + 1, b, ip, Ends)
    BY <1>1, <1>4 DEF Complete
  <2>3. b \in 1..N /\ b <= ip
    BY <1>1, <2>2
  <2> QED  BY <1>1, <2>1, <2>2, <2>3, JumpsInside
<1>5. ASSUME prog[ip].op \in Ends PROVE b \in 1..N
  <2>1. b \in 1..(ip - 1)
    BY <1>1, <1>5 DEF Complete
  <2> QED  BY <1>1, <2>1
<1>6. ASSUME prog[ip].op \in {"leave", "continue"}
      PROVE  b \in 1..N /\ prog[b].op \in Openers /\ Past(b) \in 1..(N + 1)
  <2>1. b \in 1..(ip - 1) /\ prog[b].op \in Loops \cup {"switch"}
    BY <1>1, <1>6 DEF Complete
  <2>2. b \in 1..N /\ b \in Nat /\ b <= b /\ prog[b].op \in Openers
    BY <1>1, <2>1 DEF Loops, Openers
  <2>3. HasPart(prog, N + 1, b, b, Ends)
    BY <1>1, <2>2 DEF Complete
  <2> QED  BY <1>1, <2>2, <2>3, JumpsInside
<1> QED  BY <1>1, <1>2, <1>3, <1>4, <1>5, <1>6

\* The execution never leaves the body.
LEMMA RunStep ==
  ASSUME BodyInv, Run
  PROVE  BodyInv'
<1> DEFINE N == Len(prog)
           tok == prog[ip]
<1>1. ASSUME NEW i \in 1..(N + 1), Goto(i), Step, phase = "running", env' \subseteq Types
      PROVE  BodyInv'
  BY <1>1, RunKept DEF Goto, Step
<1>2. env \subseteq Types /\ ip \in 1..(N + 1) /\ testing \in BOOLEAN
  BY DEF BodyInv
<1>3. \A ops : Running(ops) => phase = "running" /\ ip <= N /\ tok.op \in ops
  BY DEF Running
<1>4. \A e \in AfterCall : e \subseteq Types
  BY AfterCallTyped
<1>5. phase = "running" /\ ip <= N =>
        /\ ip \in 1..N /\ ip + 1 \in 1..(N + 1) /\ N \in Nat
        /\ tok.op \in Openers =>
             /\ BlockOf(ip) = ip /\ Past(ip) \in 1..(N + 1) /\ PartAfter(ip) \in 1..(N + 1)
        /\ tok.op \in Middles => Past(BlockOf(ip)) \in 1..(N + 1) /\ PartAfter(ip) \in 1..(N + 1)
        /\ tok.op \in Ends => tok.link \in 1..N
        /\ tok.op \in {"leave", "continue"} =>
             /\ tok.link \in 1..N /\ prog[tok.link].op \in Openers
             /\ Past(tok.link) \in 1..(N + 1)
  BY Targets
<1>6. CASE RunRead
  BY <1>1, <1>2, <1>3, <1>5, <1>6 DEF RunRead
<1>7. CASE RunAssign
  <2>1. Running({"setnull", "setval", "copy"}) /\ Goto(ip + 1) /\ Step
        /\ (env' = env \ {tok.v} \/ env' = env \cup {tok.v})
    BY <1>7 DEF RunAssign
  <2>2. tok.v \in Types
    <3>1. Complete /\ phase = "running" /\ ip \in 1..N
      BY <1>3, <1>5, <2>1, BodyComplete
    <3> QED  BY <1>3, <2>1, <3>1 DEF Complete
  <2>3. env' \subseteq Types
    BY <1>2, <2>1, <2>2
  <2> QED  BY <1>1, <1>3, <1>5, <2>1, <2>3
<1>8. CASE RunCall
  <2>1. Running({"call"}) /\ env' \in AfterCall
        /\ ((Goto(ip + 1) /\ Step) \/ ThrowTo(tok.link))
    BY <1>8 DEF RunCall
  <2>2. Running({"call", "throw"})
    BY <2>1 DEF Running
  <2> QED  BY <1>1, <1>3, <1>4, <1>5, <2>1, <2>2, ThrowStep
<1>9. CASE RunReturn \/ RunOff
  <2>1. phase = "running" /\ phase' = "done" /\ UNCHANGED <<avars, ip, testing, env>>
    BY <1>3, <1>9 DEF RunReturn, RunOff
  <2> QED  BY <1>2, <2>1, RunKept
<1>10. CASE RunThrow
  <2>1. Running({"call", "throw"}) /\ ThrowTo(tok.link) /\ env' = env
    BY <1>10 DEF RunThrow, Running
  <2> QED  BY <1>2, <2>1, ThrowStep
<1>11. CASE RunLeave
  <2>1. Running({"leave"}) /\ Goto(Past(tok.link)) /\ Step /\ env' = env
    BY <1>11 DEF RunLeave
  <2> QED  BY <1>1, <1>2, <1>3, <1>5, <2>1
<1>12. CASE RunContinue
  <2> DEFINE b == tok.link
  <2>1. /\ Running({"continue"}) /\ Step /\ env' = env
        /\ Goto(IF prog[b].op = "for" THEN PartNamed(b, "update") + 1 ELSE b)
    BY <1>12 DEF RunContinue
  <2>2. b \in 1..N /\ N \in Nat /\ phase = "running"
    BY <1>3, <1>5, <2>1
  <2>3. prog[b].op = "for" => PartNamed(b, "update") + 1 \in 1..(N + 1)
    <3> HAVE prog[b].op = "for"
    <3>1. HasPart(prog, N + 1, b, b, {"update"})
      BY <2>2, BodyComplete DEF Complete
    <3> QED  BY <2>2, <3>1, NamedInside
  <2>4. (IF prog[b].op = "for" THEN PartNamed(b, "update") + 1 ELSE b) \in 1..(N + 1)
    BY <2>2, <2>3
  <2> QED  BY <1>1, <1>2, <2>1, <2>2, <2>4
<1>13. CASE RunCond
  <2>1. /\ Running({"if"}) \/ Running({"elseif"})
        /\ Step
        /\ env' = env \/ env' \in AfterCall
        /\ \/ Goto(Past(BlockOf(ip)))
           \/ Goto(ip + 1)
           \/ ip' = PartAfter(ip) /\ testing' = TRUE
    BY <1>13 DEF RunCond
  <2>2. phase = "running" /\ ip <= N /\ tok.op \in Openers \cup Middles
    BY <1>3, <2>1 DEF Openers, Middles
  <2>3. Past(BlockOf(ip)) \in 1..(N + 1) /\ PartAfter(ip) \in 1..(N + 1) /\ ip + 1 \in 1..(N + 1)
    BY <1>5, <2>2
  <2>4. env' \subseteq Types
    BY <1>2, <1>4, <2>1
  <2>5. CASE ip' = PartAfter(ip) /\ testing' = TRUE
    <3>1. UNCHANGED avars /\ phase' = phase
      BY <2>1 DEF Step
    <3> QED  BY <2>2, <2>3, <2>4, <2>5, <3>1, RunKept
  <2> QED  BY <1>1, <2>1, <2>2, <2>3, <2>4, <2>5
<1>14. CASE RunPast
  <2>1. /\ Running({"elseif", "else", "when", "catch"})
        /\ Goto(Past(BlockOf(ip))) /\ Step /\ env' = env
    BY <1>14 DEF RunPast
  <2>2. phase = "running" /\ ip <= N /\ tok.op \in Middles
    BY <1>3, <2>1 DEF Middles
  <2> QED  BY <1>1, <1>2, <1>5, <2>1, <2>2
<1>15. CASE RunInto
  <2>1. phase = "running" /\ ip <= N /\ Goto(ip + 1) /\ Step /\ env' = env
    BY <1>3, <1>15 DEF RunInto
  <2> QED  BY <1>1, <1>2, <1>5, <2>1
<1>16. CASE RunSwitch
  <2>1. Running({"switch"}) /\ Step /\ env' = env /\ \E j \in {ip} \cup Parts(ip) : Goto(j + 1)
    BY <1>16 DEF RunSwitch
  <2>2. PICK j \in {ip} \cup Parts(ip) : Goto(j + 1)
    BY <2>1
  <2>3. phase = "running" /\ ip \in 1..N /\ N \in Nat
    BY <1>3, <1>5, <2>1
  <2>4. j + 1 \in 1..(N + 1)
    BY <2>3 DEF Parts
  <2> QED  BY <1>1, <1>2, <2>1, <2>2, <2>3, <2>4
<1>17. CASE RunLoop
  <2>1. /\ Running(Loops) /\ Step /\ (env' = env \/ env' \in AfterCall)
        /\ (Goto(ip + 1) \/ Goto(Past(ip)))
    BY <1>17 DEF RunLoop
  <2>2. phase = "running" /\ ip <= N /\ tok.op \in Openers
    BY <1>3, <2>1 DEF Openers, Loops
  <2>3. env' \subseteq Types
    BY <1>2, <1>4, <2>1
  <2> QED  BY <1>1, <1>5, <2>1, <2>2, <2>3
<1>18. CASE RunRepeat
  <2>1. Running({"endwhile", "endfor"}) /\ Goto(tok.link) /\ Step /\ env' = env
    BY <1>18 DEF RunRepeat
  <2>2. phase = "running" /\ ip <= N /\ tok.op \in Ends
    BY <1>3, <2>1 DEF Ends
  <2>3. tok.link \in 1..(N + 1)
    BY <1>5, <2>2
  <2> QED  BY <1>1, <1>2, <2>1, <2>2, <2>3
<1> QED  BY <1>6, <1>7, <1>8, <1>9, <1>10, <1>11, <1>12, <1>13, <1>14, <1>15, <1>16, <1>17,
             <1>18 DEF Run
-----------------------------------------------------------------------------

\* Every step keeps the body well bracketed and the execution within it.
LEMMA BodyStep ==
  ASSUME AnalysisInv, BodyInv, [Next]_vars
  PROVE  BodyInv'
<1>1. CASE UNCHANGED vars
  <2>1. /\ dialect' = dialect /\ prog' = prog /\ improved' = improved /\ at' = at
        /\ blocks' = blocks /\ phase' = phase /\ ip' = ip /\ testing' = testing /\ env' = env
    BY <1>1 DEF vars, avars, rvars
  <2> QED  BY <2>1 DEF BodyInv
<1>2. CASE Run
  BY <1>2, RunStep
<1>3. CASE Analyse
  BY <1>3, SimpleStep, ControlStep, OpenersStep, PartsStep, FinishStep DEF Analyse
<1> QED  BY <1>1, <1>2, <1>3 DEF Next

\* The types, and with them that the execution of any body stays within it:
\* every jump, alternative and handler it goes to is there.
THEOREM ExecutionStaysInBody ==
  ASSUME Disciplined
  PROVE  Spec => []FlowAnalysisTypeOK
<1>1. AnalysisInv /\ BodyInv => FlowAnalysisTypeOK
  <2> SUFFICES ASSUME AnalysisInv, BodyInv PROVE FlowAnalysisTypeOK
    OBVIOUS
  <2>1. fs \in States
    <3>1. InitState \in States
      BY DEF InitState, States, Flags
    <3> QED  BY <3>1, GoodParts DEF AnalysisInv, Aligned
  <2>2. /\ Len(improved) = Len(prog) /\ \A i \in DOMAIN improved : improved[i] \subseteq Types
        /\ at \in 1..(Len(prog) + 1)
    BY DEF BodyInv, Bracketed
  <2>3. loopState \in {"none", "analyze", "reanalyze"}
    BY DEF AnalysisInv, LoopStates
  <2> QED  BY <2>1, <2>2, <2>3 DEF BodyInv, FlowAnalysisTypeOK
<1>2. AnalysisInv /\ BodyInv /\ [Next]_vars => BodyInv'
  BY BodyStep
<1> QED  BY <1>1, <1>2, BodyInit, ContextsFollowBlocks, PTL DEF Spec
=============================================================================
