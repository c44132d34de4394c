---------------------------- MODULE FlowContext -----------------------------
(***************************************************************************)
(* Control-flow contexts of the semantic analyser (sources/flow.c).        *)
(*                                                                         *)
(* While a procedure body is analysed, a stack of flow contexts tracks     *)
(* which "improvements" (inferred NOT NULL, initialisation complete,       *)
(* cursor has a row) hold at the current program point.  An improvement is *)
(* a flag on a type; each context keeps the history of the flags set and   *)
(* unset within it, and popping a context decides what survives.           *)
(*                                                                         *)
(* The whole state is one record so that the handlers of sem.c, which make *)
(* several of these calls in one step, can be written as compositions.     *)
(*                                                                         *)
(* A history (a linked list of type/delta items, newest first) is only     *)
(* ever summed per type, searched for a SET item, or replayed backwards.   *)
(* It is kept per type as: the sum of its deltas, whether it has a SET     *)
(* item, and its oldest delta (0 when no item mentions the type), which is *)
(* what replaying it backwards undoes last.                                *)
(***************************************************************************)
EXTENDS Integers, Sequences, FiniteSets

CONSTANT Types    \* the mutable types that can carry an improvement

Kinds == {"normal", "group", "branch", "jump"}
Deltas == {-1, 0, 1}
Flags == [Types -> BOOLEAN]

\* entry, outs and undone are history variables (they only serve properties):
\* the flags when the context was pushed, the flags at the end of each branch
\* that the group counts, and every type unset while the jump context was the
\* innermost one.
Contexts ==
  [kind   : Kinds,
   sum    : [Types -> Int],   \* history: sum of the deltas
   sets   : SUBSET Types,     \* history: types with a SET item
   oldest : [Types -> Deltas],\* history: the oldest delta
   bsum   : [Types -> Int],   \* group: sum over branch_histories
   bseen  : SUBSET Types,     \* group: types in branch_histories
   count  : Nat,              \* group: branch_count
   covers : BOOLEAN,          \* group: covers_all_cases
   jumps  : BOOLEAN,          \* branch: always_jumps
   nearest: Nat,              \* jump: nearest_jump_context (0 for none)
   unsets : SUBSET Types,     \* jump: unset_histories
   entry  : Flags,
   outs   : SUBSET Flags,
   undone : SUBSET Types]

States ==
  [flag    : Flags,           \* the flags themselves
   stack   : Seq(Contexts),   \* current_context is the last one
   topJump : Nat,             \* top_jump_context, 0 for none
   aborted : BOOLEAN]         \* an Invariant() or Contract() failed

InitState ==
  [flag |-> [t \in Types |-> FALSE], stack |-> << >>,
   topJump |-> 0, aborted |-> FALSE]

Depth(s) == Len(s.stack)
Top(s) == s.stack[Depth(s)]
SetTop(s, c) == [s EXCEPT !.stack[Depth(s)] = c]
Parent(s) == s.stack[Depth(s) - 1]
HasParent(s) == Depth(s) > 1

\* Invariant(cond) and Contract(cond) are assert(): a failure ends the compiler.
AssertThat(s, cond) == [s EXCEPT !.aborted = @ \/ ~cond]

Value(b) == IF b THEN 1 ELSE 0
-----------------------------------------------------------------------------
(* Histories. *)

\* The types a context's history mentions.
Mentioned(c) == {t \in Types : c.oldest[t] # 0}

\* record_in_history, for every type in T.
Record(c, T, delta) ==
  [c EXCEPT !.sum    = [t \in Types |-> IF t \in T THEN c.sum[t] + delta ELSE c.sum[t]],
            !.sets   = IF delta = 1 THEN c.sets \cup T ELSE c.sets,
            !.oldest = [t \in Types |-> IF t \in T /\ c.oldest[t] = 0
                                        THEN delta ELSE c.oldest[t]]]

\* history = NULL
ClearHistory(c) ==
  [c EXCEPT !.sum    = [t \in Types |-> 0],
            !.sets   = {},
            !.oldest = [t \in Types |-> 0]]

\* append_history: the (newer) history of "new" followed by that of "old".
AppendHistory(new, old) ==
  [old EXCEPT !.sum    = [t \in Types |-> new.sum[t] + old.sum[t]],
              !.sets   = new.sets \cup old.sets,
              !.oldest = [t \in Types |-> IF old.oldest[t] # 0
                                          THEN old.oldest[t] ELSE new.oldest[t]]]

\* The history of c added to the branch_histories of group g.
AddToBranchHistories(g, c) ==
  [g EXCEPT !.bsum  = [t \in Types |-> g.bsum[t] + c.sum[t]],
            !.bseen = g.bseen \cup Mentioned(c)]
-----------------------------------------------------------------------------
(* Setting and unsetting flags. *)

\* flow_set_flag_for_type, for every type in T; none of them is set.
SetFlags(s, T) ==
  [SetTop(s, Record(Top(s), T, 1)) EXCEPT
     !.flag = [t \in Types |-> t \in T \/ s.flag[t]]]

\* Mutant of NoteInJump: un-sets in nested contexts are not noted.
NoteInJumpNever(s, i, T) ==
  LET c == s.stack[i]
  IN IF i = s.topJump THEN [c EXCEPT !.undone = c.undone \cup T] ELSE c

\* The unset also goes to the innermost jump context, unless that is the
\* current context, whose history has just recorded it.
NoteInJump(s, i, T) ==
  LET c == s.stack[i]
      d == IF i = s.topJump THEN [c EXCEPT !.undone = c.undone \cup T] ELSE c
  IN IF i = s.topJump /\ i # Depth(s) THEN [d EXCEPT !.unsets = c.unsets \cup T] ELSE d

\* flow_unset_flag_for_type, for every type in T; all of them are set.
UnsetFlags(s, T) ==
  LET r == SetTop(s, Record(Top(s), T, -1))
  IN [r EXCEPT !.flag  = [t \in Types |-> s.flag[t] /\ t \notin T],
               !.stack = [i \in 1..Depth(s) |-> NoteInJump(r, i, T)]]

\* unset_all_improvements
UnsetAllImprovements(s) ==
  UnsetFlags(s, {t \in Top(s).sets : s.flag[t]})
-----------------------------------------------------------------------------
(* Pushing and popping contexts. *)

\* push_context_with_kind, and the initialisation of the kind's own members.
NewContext(s, kind) ==
  [kind |-> kind,
   sum |-> [t \in Types |-> 0], sets |-> {}, oldest |-> [t \in Types |-> 0],
   bsum |-> [t \in Types |-> 0], bseen |-> {}, count |-> 0, covers |-> FALSE,
   jumps |-> FALSE, nearest |-> 0, unsets |-> {},
   entry |-> s.flag, outs |-> {}, undone |-> {}]

Push(s, c) == [s EXCEPT !.stack = Append(s.stack, c)]

\* current_context = current_context->parent
Drop(s) == [s EXCEPT !.stack = SubSeq(s.stack, 1, Depth(s) - 1)]

\* invariant_delta_sum
DeltaSumsInRange(c) == \A t \in Types : c.sum[t] \in Deltas

\* Mutant of MoveHistoryToParentAndDrop: the history is lost.
DropWithHistory(s) == AssertThat(Drop(s), DeltaSumsInRange(Top(s)))

\* move_history_to_parent, then current_context = current_context->parent
MoveHistoryToParentAndDrop(s) ==
  IF HasParent(s)
  THEN LET p == AppendHistory(Top(s), Parent(s))
       IN AssertThat(SetTop(Drop(s), p), DeltaSumsInRange(p))
  ELSE AssertThat(Drop(s), DeltaSumsInRange(Top(s)))

\* _flow_push_context_normal
PushNormal(s) == Push(s, NewContext(s, "normal"))

\* Mutant of PopNormal: the improvements are kept.
PopNormalKeeps(s) == MoveHistoryToParentAndDrop(s)

\* _flow_pop_context_normal
PopNormal(s) == MoveHistoryToParentAndDrop(UnsetAllImprovements(s))

\* _flow_push_context_branch_group
PushBranchGroup(s) == Push(s, NewContext(s, "group"))

\* flow_set_context_branch_group_covers_all_cases
SetCoversAllCases(s, b) == SetTop(s, [Top(s) EXCEPT !.covers = b])

\* Mutant of AddEmptyBranch: branch_count is not incremented.
AddEmptyBranchUncounted(s) == SetTop(s, [Top(s) EXCEPT !.outs = @ \cup {s.flag}])

\* flow_context_branch_group_add_empty_branch
AddEmptyBranch(s) ==
  SetTop(s, [Top(s) EXCEPT !.count = @ + 1, !.outs = @ \cup {s.flag}])

\* The assertions at the head of merge_effects, for type t.
MergeAsserts(s, t) ==
  LET g == Top(s)
      n == g.bsum[t]
  IN /\ g.count > 0
     /\ n <= 0 \/ ~s.flag[t]
     /\ n >= 0 \/ s.flag[t]
     /\ n <= g.count /\ -n <= g.count

\* merge_effects, for every type in the branch histories.
MergeEffects(s) ==
  LET g == Top(s)
      improved   == {t \in g.bseen : g.covers /\ g.bsum[t] = g.count}
      unimproved == {t \in g.bseen \ improved : g.bsum[t] < 0}
  IN AssertThat(UnsetFlags(SetFlags(s, improved), unimproved),
            \A t \in g.bseen : MergeAsserts(s, t))

\* _flow_pop_context_branch_group
PopBranchGroup(s) ==
  LET u == UnsetAllImprovements(s)
  IN MoveHistoryToParentAndDrop(MergeEffects(SetTop(u, ClearHistory(Top(u)))))

\* Mutant of PushBranch: branch_count is not incremented.
PushBranchUncounted(s) ==
  Push(SetTop(s, AddToBranchHistories(Top(s), Top(s))), NewContext(s, "branch"))

\* _flow_push_context_branch: the history of the group itself counts for the
\* new branch.
PushBranch(s) ==
  LET g == Top(s)
      h == [AddToBranchHistories(g, g) EXCEPT !.count = g.count + 1]
  IN Push(SetTop(s, h), NewContext(s, "branch"))

\* flow_set_context_always_jumps(true)
SetAlwaysJumps(s) ==
  IF Top(s).kind # "branch" THEN s ELSE SetTop(s, [Top(s) EXCEPT !.jumps = TRUE])

\* Mutant of PopBranch: the history is not undone.
PopBranchKeeps(s) ==
  LET b == Top(s)
      g == Parent(s)
      counted == [AddToBranchHistories(g, b) EXCEPT !.outs = g.outs \cup {s.flag}]
  IN SetTop(Drop(s), IF b.jumps THEN [g EXCEPT !.count = g.count - 1] ELSE counted)

\* _flow_pop_context_branch: undo the history, then count the branch or elide it.
PopBranch(s) ==
  LET b == Top(s)
      g == Parent(s)
      counted == [AddToBranchHistories(g, b) EXCEPT !.outs = g.outs \cup {s.flag}]
      elided  == [g EXCEPT !.count = g.count - 1]
  IN [SetTop(Drop(s), IF b.jumps THEN elided ELSE counted) EXCEPT
        !.flag = [t \in Types |-> \/ b.oldest[t] = -1
                                  \/ b.oldest[t] = 0 /\ s.flag[t]]]

\* Mutant of PushJump: the jump context around it is not remembered.
PushJumpForgetsOuter(s) ==
  [Push(s, NewContext(s, "jump")) EXCEPT !.topJump = Depth(s) + 1]

\* _flow_push_context_jump
PushJump(s) ==
  [Push(s, [NewContext(s, "jump") EXCEPT !.nearest = s.topJump]) EXCEPT
     !.topJump = Depth(s) + 1]

\* Mutant of PopJump: top_jump_context is not restored.
PopJumpKeepsTop(s) ==
  MoveHistoryToParentAndDrop(
    UnsetAllImprovements(UnsetFlags(s, {t \in Top(s).unsets : s.flag[t]})))

\* _flow_pop_context_jump
PopJump(s) ==
  LET again == UnsetFlags(s, {t \in Top(s).unsets : s.flag[t]})
      rest  == UnsetAllImprovements(again)
  IN [MoveHistoryToParentAndDrop(rest) EXCEPT !.topJump = Top(s).nearest]
=============================================================================
