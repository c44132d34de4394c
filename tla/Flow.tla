-------------------------------- MODULE Flow --------------------------------
(***************************************************************************)
(* The flow contexts of FlowContext as a state machine: any sequence of    *)
(* calls that callers of flow.c may make.                                  *)
(***************************************************************************)
EXTENDS FlowContext

CONSTANTS
  MaxDepth,     \* bound on the number of open contexts
  MaxBranches,  \* bound on the branches of one branch group
  CallersMay    \* the uses of the interface that the callers make, see Uses

\* Uses of the interface, all of them made by sem.c, whose effects the code
\* does not account for.
\*   unset_in_condition   unset a flag in a branch group outside its branches
\*   jump_after_negative  a branch that always jumps, pushed when its group
\*                        already holds (negative) improvements
Uses == {"unset_in_condition", "jump_after_negative"}

ASSUME BoundsAssumption ==
  /\ MaxDepth \in Nat
  /\ MaxBranches \in Nat
  /\ CallersMay \subseteq Uses

VARIABLE fs     \* current_context, top_jump_context and the flags
-----------------------------------------------------------------------------

TopIs(kind) == Depth(fs) > 0 /\ Top(fs).kind = kind
Room == Depth(fs) < MaxDepth

\* The condition of a branch (or any expression outside the branches of a
\* group) is being analysed.
InConditionAt(s, i) ==
  \E g \in 1..i : /\ s.stack[g].kind = "group"
                  /\ g = Depth(s) \/ s.stack[g + 1].kind # "branch"

InCondition(s) == InConditionAt(s, Depth(s))

Init == fs = InitState

SetFlag(t) ==
  /\ Depth(fs) > 0
  /\ ~fs.flag[t]
  /\ fs' = SetFlags(fs, {t})

UnsetFlag(t) ==
  /\ Depth(fs) > 0
  /\ fs.flag[t]
  /\ InCondition(fs) => "unset_in_condition" \in CallersMay
  /\ fs' = UnsetFlags(fs, {t})

NormalPush == Room /\ fs' = PushNormal(fs)
NormalPop == TopIs("normal") /\ fs' = PopNormal(fs)

GroupPush == Room /\ fs' = PushBranchGroup(fs)
GroupCovers(b) == TopIs("group") /\ fs' = SetCoversAllCases(fs, b)
GroupEmptyBranch ==
  TopIs("group") /\ Top(fs).count < MaxBranches /\ fs' = AddEmptyBranch(fs)
GroupPop == TopIs("group") /\ fs' = PopBranchGroup(fs)

BranchPush ==
  Room /\ TopIs("group") /\ Top(fs).count < MaxBranches /\ fs' = PushBranch(fs)

\* A control statement was analysed in the current context.
AlwaysJumps ==
  /\ Depth(fs) > 0
  /\ TopIs("branch") /\ Mentioned(Parent(fs)) # {}
       => "jump_after_negative" \in CallersMay
  /\ fs' = SetAlwaysJumps(fs)

BranchPop == TopIs("branch") /\ fs' = PopBranch(fs)

JumpPush == Room /\ fs' = PushJump(fs)
JumpPop == TopIs("jump") /\ fs' = PopJump(fs)

Next ==
  /\ ~fs.aborted
  /\ \/ \E t \in Types : SetFlag(t)
     \/ \E t \in Types : UnsetFlag(t)
     \/ NormalPush
     \/ NormalPop
     \/ GroupPush
     \/ \E b \in BOOLEAN : GroupCovers(b)
     \/ GroupEmptyBranch
     \/ GroupPop
     \/ BranchPush
     \/ AlwaysJumps
     \/ BranchPop
     \/ JumpPush
     \/ JumpPop

Spec == Init /\ [][Next]_fs
-----------------------------------------------------------------------------
(* Properties. *)

TypeOK == fs \in States

Popping(kind) == TopIs(kind) /\ Depth(fs') < Depth(fs)

\* The flags as context i sees them: when a context is open above it, what
\* that context found.
ValueAt(s, i) == IF i = Depth(s) THEN s.flag ELSE s.stack[i + 1].entry

\* The history of every open context accounts exactly for the change of every
\* flag since the context was pushed (flow.c relies on "a delta sum of -1, 0,
\* or 1" in every history: move_history_to_parent, merge_effects).
HistoryBalanced ==
  \A i \in 1..Depth(fs) : \A t \in Types :
    fs.stack[i].sum[t] = Value(ValueAt(fs, i)[t]) - Value(fs.stack[i].entry[t])

\* No Contract() or Invariant() of merge_effects or invariant_delta_sum fails.
NoAssertionFails == ~fs.aborted

\* top_jump_context is the innermost open jump context, and each jump context
\* remembers the next one out, so that un-sets reach the right context.
TopJumpIsInnermost ==
  LET IsInnermost(j, n) ==
        /\ j \in 0..n
        /\ j # 0 => fs.stack[j].kind = "jump"
        /\ \A k \in (j + 1)..n : fs.stack[k].kind # "jump"
  IN /\ IsInnermost(fs.topJump, Depth(fs))
     /\ \A i \in 1..Depth(fs) :
          fs.stack[i].kind = "jump" => IsInnermost(fs.stack[i].nearest, i - 1)

\* Popping a branch leaves the flags "as though nothing ever happened"
\* (_flow_pop_context_branch): every later branch of the group starts from the
\* flags this one started from.
BranchPopRestores ==
  [][Popping("branch") => fs'.flag = Top(fs).entry]_fs

\* An improvement made within a normal or a jump context does not outlive it.
ImprovementsAreScoped ==
  [][Popping("normal") \/ Popping("jump")
       => \A t \in Types : fs'.flag[t] => Top(fs).entry[t]]_fs

\* A flag that is set after a branch group was set at the end of every branch
\* that can reach the end of the group, and, when the branches may all be
\* passed over, before the group as well (merge_effects).
MergeIsSound ==
  [][Popping("group")
       => \A t \in Types : fs'.flag[t] =>
            /\ \A o \in Top(fs).outs : o[t]
            /\ Top(fs).covers \/ Top(fs).entry[t]]_fs

\* "after the context has ended, all possible un-sets within it happened": a
\* flag unset within a jump context, in whatever branches and contexts but those
\* of another jump context in it, is unset after it.
JumpIsPessimistic ==
  [][Popping("jump") => \A t \in Top(fs).undone : ~fs'.flag[t]]_fs

\* What a popped branch restores although it was unset in the branch, the jump
\* context around it knows of (flow_unset_flag_for_type).  Not so when it was
\* unset in a jump context within the branch.
RevertedUnsetsReachJump ==
  [][Popping("branch") /\ fs.topJump # 0
       => \A t \in Types : Top(fs).oldest[t] = -1
            => t \in fs.stack[fs.topJump].unsets]_fs
=============================================================================
