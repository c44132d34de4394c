---------------------------- MODULE FlowAnalysis ----------------------------
(***************************************************************************)
(* Inference of NOT NULL for nullable variables: the statement handlers of *)
(* sources/sem.c that drive the flow contexts, composed with the execution *)
(* of the analysed procedure.                                              *)
(*                                                                         *)
(* A procedure body is a sequence of tokens, grown one token at a time as  *)
(* it is analysed, so that a behaviour is: some body is analysed (loop     *)
(* bodies twice), then it runs.  For every token the analysis notes which  *)
(* variables it took for NOT NULL there, which is what the code generator  *)
(* uses: an improved variable is read without a null check.                *)
(*                                                                         *)
(* Expressions are abstracted to whether they are nullable; conditions to  *)
(* the null tests on their AND or OR spine and an opaque rest.             *)
(***************************************************************************)
EXTENDS FlowContext, SequencesExt

CONSTANTS
  Globals,     \* the variables (members of Types) that are global
  Dialects,    \* kinds of bodies, by name: see IsDialect
  Shapes       \* the combinations they may show, see AllShapes

\* Combinations of statements that the analysis does not handle soundly.
\*   jump_after_negative  a branch of an IF that always jumps, after a condition
\*                        whose falsity improved a variable
\*   call_in_condition    a condition of an IF that calls a procedure
\*   nested_jump          a loop or a TRY within a loop or a TRY
\*   copy_in_loop         an assignment from a variable within a loop
\*   update_unimproves    an un-improvement in the update list of a FOR
\*   leave_in_switch      LEAVE of a SWITCH
AllShapes == {"jump_after_negative", "call_in_condition", "nested_jump",
              "copy_in_loop", "update_unimproves", "leave_in_switch"}

\* k = "and": every variable of vs IS NOT NULL, and the opaque rest, if any;
\* k = "or":  some variable of vs IS NULL, or the opaque rest, if any.
\* call: the rest calls a procedure.
AllConds ==
  [k : {"and", "or"}, vs : SUBSET Types, rest : BOOLEAN, call : BOOLEAN]

\* The bounds on a body: its statements and blocks, the variables it uses, its
\* conditions, and how many tokens it has.
IsDialect(d) ==
  /\ d.vars \subseteq Types /\ d.conds \subseteq AllConds /\ d.size \in Nat
  /\ \A op \in d.ops : op \in STRING

ASSUME FlowAnalysisAssumption ==
  /\ Globals \subseteq Types
  /\ \A d \in DOMAIN Dialects : IsDialect(Dialects[d])
  /\ Shapes \subseteq AllShapes

VARIABLES
  dialect,   \* the kind of body
  prog,      \* the body: a sequence of tokens
  improved,  \* for each token, the variables taken for NOT NULL at it
  at,        \* the token being analysed
  blocks,    \* the open blocks (the analyser's own call stack)
  loopState, \* current_loop_analysis_state
  fs,        \* the flow contexts
  phase,     \* "analysis", "running" or "done"
  ip,        \* the token to execute
  testing,   \* ip is reached because the previous condition was false
  env        \* the variables that are not NULL

avars == <<dialect, prog, improved, at, blocks, loopState, fs>>
rvars == <<phase, ip, testing, env>>
vars == <<avars, rvars>>

Dialect == Dialects[dialect]

Improved(s) == {v \in Types : s.flag[v]}

NoVar == "none"
NoCond == [k |-> "and", vs |-> {}, rest |-> TRUE, call |-> FALSE]
Loops == {"while", "for"}
JumpBlocks == Loops \cup {"try"}
Controls == {"return", "throw", "leave", "continue"}

InitAnalysis ==
  /\ prog = << >> /\ improved = << >> /\ at = 1 /\ blocks = << >>
  /\ loopState = "none"
  /\ fs = PushNormal(InitState)     \* sem_inside_create_proc_stmt

Init ==
  /\ dialect \in DOMAIN Dialects
  /\ InitAnalysis
  /\ phase = "analysis" /\ ip = 1 /\ testing = FALSE /\ env = {}
-----------------------------------------------------------------------------
(* Improvements. *)

\* sem_set_notnull_improved, for every variable in T
Improve(s, T) == SetFlags(s, {v \in T : ~s.flag[v]})

\* sem_unset_notnull_improved, and sem_unset_global_notnull_improvements
Unimprove(s, T) == UnsetFlags(s, {v \in T : s.flag[v]})

\* Mutant of ImproveIfFalse: applied to AND conditions too.
ImproveIfEitherFalse(s, c) == Improve(s, c.vs)

\* sem_set_improvements_for_true_condition, ..._for_false_condition
ImproveIfTrue(s, c) == Improve(s, IF c.k = "and" THEN c.vs ELSE {})
ImproveIfFalse(s, c) == Improve(s, IF c.k = "or" THEN c.vs ELSE {})

\* The analysis of a condition: a procedure called by it may set any global.
AnalyseCond(s, c) == IF c.call THEN Unimprove(s, Globals) ELSE s
-----------------------------------------------------------------------------
(* The tokens of a body. *)

Block == Last(blocks)
InBlock(op) == blocks # << >> /\ Block.op = op

\* The opening token of the innermost open block of one of these kinds, or 0.
Innermost(ops) ==
  LET open == {i \in DOMAIN blocks : blocks[i].op \in ops}
  IN IF open = {} THEN 0 ELSE blocks[Max(open)].at

\* The token analysed next: during reanalysis the one already there, else a
\* new one, while there is room to close the open blocks.
NewToken(op, v, w, c, empty, link) ==
  [op |-> op, v |-> v, w |-> w, c |-> c, empty |-> empty, link |-> link]

\* s: the flow state in which the expressions of the token are analysed.
Takes(tok, s) ==
  IF at <= Len(prog)
  THEN /\ prog[at] = tok
       /\ UNCHANGED prog
       /\ improved' = [improved EXCEPT ![at] = Improved(s)]
  ELSE /\ tok.op \in Dialect.ops /\ Len(prog) < Dialect.size
       /\ prog' = Append(prog, tok)
       /\ improved' = Append(improved, Improved(s))

\* A statement may follow in the current list (sem_last_statement_in_block), and
\* the open blocks can still be closed.
MayFollow ==
  /\ phase = "analysis" /\ ~fs.aborted
  /\ at > Len(prog) => Len(prog) + Len(blocks) < Dialect.size
  /\ blocks # << >> => Block.open /\ ~Block.jumps

MayClose(ops) ==
  phase = "analysis" /\ ~fs.aborted /\ blocks # << >> /\ Block.op \in ops /\ ~Block.bare

\* A list of statements is not empty: bare until a statement was analysed in it.
NewBlock(op, c, open) ==
  [op |-> op, at |-> at, c |-> c, open |-> open, bare |-> open, guard |-> TRUE,
   jumps |-> FALSE, saved |-> loopState]

Advance == at' = at + 1
Within(bs) ==
  IF bs = << >> THEN bs ELSE [bs EXCEPT ![Len(bs)].bare = FALSE]
-----------------------------------------------------------------------------
(* Simple statements (sem_one_stmt and the handler it dispatches to). *)

Statement(tok, s) ==
  /\ MayFollow
  /\ Takes(tok, fs)
  /\ fs' = s
  /\ blocks' = Within(blocks)
  /\ Advance
  /\ UNCHANGED <<dialect, loopState, rvars>>

Plain(op, v) == NewToken(op, v, NoVar, NoCond, FALSE, 0)

\* Any statement that only reads variables.
AnalyseRead == Statement(Plain("read", NoVar), fs)

MayUnimprove == Innermost({"update"}) # 0 => "update_unimproves" \in Shapes

\* SET v := [nullable expression], or v passed as an OUT argument
AnalyseSetNull(v) ==
  MayUnimprove /\ Statement(Plain("setnull", v), Unimprove(fs, {v}))

\* SET v := [not null expression]
AnalyseSetVal(v) == Statement(Plain("setval", v), Improve(fs, {v}))

\* SET v := w
AnalyseCopy(v, w) ==
  /\ Innermost(Loops) # 0 => "copy_in_loop" \in Shapes
  /\ MayUnimprove
  /\ Statement(NewToken("copy", v, w, NoCond, FALSE, 0),
               IF fs.flag[w] THEN Improve(fs, {v}) ELSE Unimprove(fs, {v}))

\* Mutant of AnalyseCall: improvements of globals are kept.
AnalyseCallKeeps ==
  /\ MayUnimprove
  /\ Statement(NewToken("call", NoVar, NoVar, NoCond, FALSE, Innermost({"try"})), fs)

\* CALL p(): may throw
AnalyseCall ==
  /\ MayUnimprove
  /\ Statement(NewToken("call", NoVar, NoVar, NoCond, FALSE, Innermost({"try"})),
               Unimprove(fs, Globals))

\* RETURN, THROW, LEAVE, CONTINUE: sem_one_stmt then notes that the current
\* context always jumps.
Control(op, link) ==
  /\ MayFollow
  /\ blocks # << >>
  /\ Top(fs).kind = "branch" /\ Mentioned(Parent(fs)) # {}
       => "jump_after_negative" \in Shapes
  /\ Takes(NewToken(op, NoVar, NoVar, NoCond, FALSE, link), fs)
  /\ fs' = SetAlwaysJumps(fs)
  /\ blocks' = [Within(blocks) EXCEPT ![Len(blocks)].jumps = TRUE]
  /\ Advance
  /\ UNCHANGED <<dialect, loopState, rvars>>

AnalyseReturn == Control("return", 0)
AnalyseThrow == Control("throw", Innermost({"try"}))
AnalyseContinue == Innermost(Loops) # 0 /\ Control("continue", Innermost(Loops))
AnalyseLeave ==
  LET b == Innermost(Loops \cup {"switch"})
  IN /\ b # 0
     /\ prog[b].op = "switch" => "leave_in_switch" \in Shapes
     /\ Control("leave", b)
-----------------------------------------------------------------------------
(* IF: sem_if_stmt, sem_cond_action, sem_elseif_list. *)

CondAllowed(c) == c.call => "call_in_condition" \in Shapes

\* [cond] THEN [stmt_list]: the branch of a condition, up to its statements.
OpenBranch(s, c, empty) ==
  LET t == AnalyseCond(s, c)
  IN IF empty THEN ImproveIfFalse(AddEmptyBranch(t), c)
              ELSE ImproveIfTrue(PushBranch(t), c)

\* The end of the statements of a branch with condition c; a later branch may
\* rely on c being false.
CloseBranch(s, c) == ImproveIfFalse(PopBranch(s), c)

ClosedSoFar == IF Block.open THEN CloseBranch(fs, Block.c) ELSE fs

AnalyseIf(c, empty) ==
  /\ MayFollow
  /\ CondAllowed(c)
  /\ Takes(NewToken("if", NoVar, NoVar, c, empty, 0), fs)
  /\ fs' = OpenBranch(PushBranchGroup(fs), c, empty)
  /\ blocks' = Append(Within(blocks), NewBlock("if", c, ~empty))
  /\ Advance
  /\ UNCHANGED <<dialect, loopState, rvars>>

\* The next alternative of the innermost block.
Alternative(tok, seen, s, c) ==
  /\ Takes(tok, seen)
  /\ fs' = s
  /\ blocks' = [blocks EXCEPT ![Len(blocks)] =
                  [Block EXCEPT !.c = c, !.open = ~tok.empty, !.bare = ~tok.empty,
                                !.guard = FALSE, !.jumps = FALSE,
                                !.op = IF tok.op = "else" THEN "else" ELSE Block.op]]
  /\ Advance
  /\ UNCHANGED <<dialect, loopState, rvars>>

AnalyseElseIf(c, empty) ==
  /\ MayClose({"if"})
  /\ CondAllowed(c)
  /\ Alternative(NewToken("elseif", NoVar, NoVar, c, empty, Block.at),
                 ClosedSoFar, OpenBranch(ClosedSoFar, c, empty), c)

AnalyseElse(empty) ==
  /\ MayClose({"if"})
  /\ LET s == SetCoversAllCases(ClosedSoFar, TRUE)
     IN Alternative(NewToken("else", NoVar, NoVar, NoCond, empty, Block.at),
                    s, IF empty THEN AddEmptyBranch(s) ELSE PushBranch(s), NoCond)

Close(tok, s) ==
  /\ Takes(tok, fs)
  /\ fs' = s
  /\ blocks' = Front(blocks)
  /\ Advance
  /\ UNCHANGED <<dialect, rvars>>

\* END IF.  An IF without alternatives whose statements contain a control
\* statement is a guard: what follows may rely on its condition being false.
AnalyseEndIf ==
  /\ MayClose({"if", "else"})
  /\ LET s == PopBranchGroup(ClosedSoFar)
         isGuard == Block.guard /\ Block.open /\ Block.jumps
     IN Close(NewToken("endif", NoVar, NoVar, NoCond, FALSE, Block.at),
              IF isGuard THEN ImproveIfFalse(s, Block.c) ELSE s)
  /\ UNCHANGED loopState
-----------------------------------------------------------------------------
(* SWITCH: sem_switch_stmt, sem_switch_cases.  all: ALL VALUES.            *)

AnalyseSwitch ==
  /\ MayFollow
  /\ Takes(Plain("switch", NoVar), fs)
  /\ fs' = PushBranch(PushBranchGroup(fs))
  /\ blocks' = Append(Within(blocks), NewBlock("switch", NoCond, TRUE))
  /\ Advance
  /\ UNCHANGED <<dialect, loopState, rvars>>

AnalyseWhen ==
  /\ MayClose({"switch"})
  /\ Alternative(NewToken("when", NoVar, NoVar, NoCond, FALSE, Block.at),
                 PopBranch(fs), PushBranch(PopBranch(fs)), NoCond)

\* covers: an ELSE was present (the last branch is it), or ALL VALUES.
AnalyseEndSwitch(covers) ==
  /\ MayClose({"switch"})
  /\ Close(NewToken("endswitch", NoVar, NoVar, NoCond, covers, Block.at),
           PopBranchGroup(SetCoversAllCases(PopBranch(fs), covers)))
  /\ UNCHANGED loopState
-----------------------------------------------------------------------------
(* Loops: sem_while_stmt, sem_for_stmt, sem_stmt_list_within_loop. *)

JumpAllowed == Innermost(JumpBlocks) # 0 => "nested_jump" \in Shapes

AnalyseLoop(op, c) ==
  /\ MayFollow
  /\ JumpAllowed
  /\ Takes(NewToken(op, NoVar, NoVar, c, FALSE, 0), fs)
  /\ fs' = ImproveIfTrue(PushJump(AnalyseCond(fs, c)), c)
  /\ blocks' = Append(Within(blocks), NewBlock(op, c, TRUE))
  /\ loopState' = IF loopState = "none" THEN "analyze" ELSE loopState
  /\ Advance
  /\ UNCHANGED <<dialect, rvars>>

\* Mutant of Reanalyses: loops are analysed once.
ReanalysesNever == FALSE

\* The end of the statements of a loop: an outermost loop is analysed again.
Reanalyses == loopState = "analyze" /\ Block.saved = "none"

\* Mutant of LoopAgain: the effects of the first analysis are kept.
LoopAgainOpen(tok) ==
  /\ Reanalyses
  /\ Takes(tok, fs)
  /\ fs' = ImproveIfTrue(PushJump(fs), Block.c)
  /\ loopState' = "reanalyze"
  /\ at' = Block.at + 1
  /\ blocks' = [blocks EXCEPT ![Len(blocks)].jumps = FALSE]
  /\ UNCHANGED <<dialect, rvars>>

LoopAgain(tok) ==
  /\ Reanalyses
  /\ Takes(tok, fs)
  /\ fs' = ImproveIfTrue(PushJump(PopJump(fs)), Block.c)
  /\ loopState' = "reanalyze"
  /\ at' = Block.at + 1
  /\ blocks' = [blocks EXCEPT ![Len(blocks)].jumps = FALSE]
  /\ UNCHANGED <<dialect, rvars>>

AnalyseEndWhile ==
  /\ MayClose({"while"})
  /\ LET tok == NewToken("endwhile", NoVar, NoVar, NoCond, FALSE, Block.at)
     IN \/ LoopAgain(tok)
        \/ /\ ~Reanalyses
           /\ Close(tok, PopJump(fs))
           /\ loopState' = Block.saved

\* After the statements of a FOR come its update statements (sem_stmt_list).
AnalyseUpdate ==
  /\ MayClose({"for"})
  /\ LET tok == NewToken("update", NoVar, NoVar, NoCond, FALSE, Block.at)
     IN \/ LoopAgain(tok)
        \/ /\ ~Reanalyses
           /\ Takes(tok, fs)
           /\ fs' = PushNormal(PopJump(fs))
           /\ loopState' = Block.saved
           /\ blocks' = [blocks EXCEPT ![Len(blocks)] =
                           [@ EXCEPT !.op = "update", !.bare = TRUE, !.jumps = FALSE]]
           /\ Advance
           /\ UNCHANGED <<dialect, rvars>>

AnalyseEndFor ==
  /\ MayClose({"update"})
  /\ Close(NewToken("endfor", NoVar, NoVar, NoCond, FALSE, Block.at), PopNormal(fs))
  /\ UNCHANGED loopState
-----------------------------------------------------------------------------
(* TRY ... CATCH ... END: sem_trycatch_stmt. *)

AnalyseTry ==
  /\ MayFollow
  /\ JumpAllowed
  /\ Takes(Plain("try", NoVar), fs)
  /\ fs' = PushJump(fs)
  /\ blocks' = Append(Within(blocks), NewBlock("try", NoCond, TRUE))
  /\ Advance
  /\ UNCHANGED <<dialect, loopState, rvars>>

AnalyseCatch ==
  /\ MayClose({"try"})
  /\ Takes(NewToken("catch", NoVar, NoVar, NoCond, FALSE, Block.at), fs)
  /\ fs' = PushNormal(PopJump(fs))
  /\ blocks' = [blocks EXCEPT ![Len(blocks)] =
                  [@ EXCEPT !.op = "catch", !.bare = TRUE, !.jumps = FALSE]]
  /\ Advance
  /\ UNCHANGED <<dialect, loopState, rvars>>

AnalyseEndTry ==
  /\ MayClose({"catch"})
  /\ Close(NewToken("endtry", NoVar, NoVar, NoCond, FALSE, Block.at), PopNormal(fs))
  /\ UNCHANGED loopState

\* The end of the procedure: its context is popped; it can now be executed.
Finish ==
  /\ phase = "analysis" /\ ~fs.aborted
  /\ blocks = << >> /\ at > Len(prog) /\ prog # << >>
  /\ fs' = PopNormal(fs)
  /\ phase' = "running"
  /\ env' \in SUBSET Dialect.vars   \* parameters and globals: any values
  /\ UNCHANGED <<dialect, prog, improved, at, blocks, loopState, ip, testing>>
-----------------------------------------------------------------------------
(* The execution of the body, as the generated code does it. *)

BlockOf(i) == IF prog[i].op \in {"if", "switch", "while", "for", "try"}
              THEN i ELSE prog[i].link

\* The tokens that structure the block opened at b: its alternatives and end.
Parts(b) ==
  {j \in b..Len(prog) :
     /\ prog[j].link = b
     /\ prog[j].op \in {"elseif", "else", "endif", "when", "endswitch", "endwhile",
                        "update", "endfor", "catch", "endtry"}}

PartAfter(i) == Min({j \in Parts(BlockOf(i)) : j > i})
Past(b) == Max(Parts(b)) + 1
PartNamed(b, op) == CHOOSE j \in Parts(b) : prog[j].op = op

Running(ops) == phase = "running" /\ ip <= Len(prog) /\ prog[ip].op \in ops

Goto(i) == ip' = i /\ testing' = FALSE
Step == phase' = phase /\ UNCHANGED avars

\* An error ends the procedure or reaches the handler of the try block b.
ThrowTo(b) ==
  /\ UNCHANGED avars
  /\ IF b = 0 THEN phase' = "done" /\ UNCHANGED <<ip, testing>>
              ELSE phase' = phase /\ Goto(PartNamed(b, "catch") + 1)

\* What a called procedure may make of the variables.
AfterCall == {e \in SUBSET Dialect.vars : e \ Globals = env \ Globals}

\* The values that the condition can have.
Outcomes(c) ==
  LET tests == IF c.k = "and" THEN c.vs \subseteq env ELSE ~(c.vs \subseteq env)
      decides == tests = (c.k = "or")
  IN IF c.rest /\ ~decides THEN BOOLEAN ELSE {tests}

RunRead == Running({"read"}) /\ Goto(ip + 1) /\ Step /\ UNCHANGED env

RunAssign ==
  /\ Running({"setnull", "setval", "copy"})
  /\ LET tok == prog[ip]
         isNull == CASE tok.op = "setnull" -> BOOLEAN
                     [] tok.op = "setval"  -> {FALSE}
                     [] tok.op = "copy"    -> {tok.w \notin env}
     IN \E n \in isNull : env' = IF n THEN env \ {tok.v} ELSE env \cup {tok.v}
  /\ Goto(ip + 1) /\ Step

RunCall ==
  /\ Running({"call"})
  /\ env' \in AfterCall
  /\ \/ Goto(ip + 1) /\ Step
     \/ ThrowTo(prog[ip].link)

RunReturn ==
  Running({"return"}) /\ phase' = "done" /\ UNCHANGED <<avars, ip, testing, env>>

RunThrow == Running({"throw"}) /\ ThrowTo(prog[ip].link) /\ UNCHANGED env

RunLeave == Running({"leave"}) /\ Goto(Past(prog[ip].link)) /\ Step /\ UNCHANGED env

RunContinue ==
  /\ Running({"continue"})
  /\ LET b == prog[ip].link
     IN Goto(IF prog[b].op = "for" THEN PartNamed(b, "update") + 1 ELSE b)
  /\ Step /\ UNCHANGED env

\* The condition of an IF, or of an ELSE IF when those before it were false.
RunCond ==
  /\ Running({"if"}) \/ (Running({"elseif"}) /\ testing)
  /\ LET tok == prog[ip]
     IN /\ \E holds \in Outcomes(tok.c) :
             IF holds
             THEN Goto(IF tok.empty THEN Past(BlockOf(ip)) ELSE ip + 1)
             ELSE ip' = PartAfter(ip) /\ testing' = TRUE
        /\ IF tok.c.call THEN env' \in AfterCall ELSE UNCHANGED env
  /\ Step

\* The end of an alternative, of a switch case, or of a try block.
RunPast ==
  /\ Running({"elseif", "else", "when", "catch"}) /\ ~testing
  /\ Goto(Past(BlockOf(ip))) /\ Step /\ UNCHANGED env

RunInto ==
  /\ \/ Running({"else"}) /\ testing
     \/ Running({"endif", "endswitch", "endtry", "try", "update"})
  /\ Goto(ip + 1) /\ Step /\ UNCHANGED env

RunSwitch ==
  /\ Running({"switch"})
  /\ \E j \in {ip} \cup Parts(ip) :
        \/ prog[j].op \in {"switch", "when"} /\ Goto(j + 1)
        \/ prog[j].op = "endswitch" /\ ~prog[j].empty /\ Goto(j + 1)
  /\ Step /\ UNCHANGED env

RunLoop ==
  /\ Running(Loops)
  /\ \E holds \in Outcomes(prog[ip].c) : Goto(IF holds THEN ip + 1 ELSE Past(ip))
  /\ Step
  /\ IF prog[ip].c.call THEN env' \in AfterCall ELSE UNCHANGED env

RunRepeat ==
  Running({"endwhile", "endfor"}) /\ Goto(prog[ip].link) /\ Step /\ UNCHANGED env

RunOff ==
  /\ phase = "running" /\ ip > Len(prog)
  /\ phase' = "done" /\ UNCHANGED <<avars, ip, testing, env>>
-----------------------------------------------------------------------------

Analyse ==
  \/ AnalyseRead
  \/ \E v \in Dialect.vars : AnalyseSetNull(v)
  \/ \E v \in Dialect.vars : AnalyseSetVal(v)
  \/ \E v, w \in Dialect.vars : AnalyseCopy(v, w)
  \/ AnalyseCall
  \/ AnalyseReturn
  \/ AnalyseThrow
  \/ AnalyseContinue
  \/ AnalyseLeave
  \/ \E c \in Dialect.conds, empty \in BOOLEAN : AnalyseIf(c, empty)
  \/ \E c \in Dialect.conds, empty \in BOOLEAN : AnalyseElseIf(c, empty)
  \/ \E empty \in BOOLEAN : AnalyseElse(empty)
  \/ AnalyseEndIf
  \/ AnalyseSwitch
  \/ AnalyseWhen
  \/ \E covers \in BOOLEAN : AnalyseEndSwitch(covers)
  \/ \E op \in Loops, c \in Dialect.conds : AnalyseLoop(op, c)
  \/ AnalyseEndWhile
  \/ AnalyseUpdate
  \/ AnalyseEndFor
  \/ AnalyseTry
  \/ AnalyseCatch
  \/ AnalyseEndTry
  \/ Finish

Run ==
  \/ RunRead
  \/ RunAssign
  \/ RunCall
  \/ RunReturn
  \/ RunThrow
  \/ RunLeave
  \/ RunContinue
  \/ RunCond
  \/ RunPast
  \/ RunInto
  \/ RunSwitch
  \/ RunLoop
  \/ RunRepeat
  \/ RunOff

Next == Analyse \/ Run

Spec == Init /\ [][Next]_vars
-----------------------------------------------------------------------------
(* Properties. *)

FlowAnalysisTypeOK ==
  /\ fs \in States
  /\ Len(improved) = Len(prog) /\ \A i \in DOMAIN improved : improved[i] \subseteq Types
  /\ at \in 1..(Len(prog) + 1)
  /\ loopState \in {"none", "analyze", "reanalyze"}
  /\ phase \in {"analysis", "running", "done"}
  /\ ip \in 1..(Len(prog) + 1) /\ testing \in BOOLEAN /\ env \subseteq Types

\* Wherever the body runs, a variable that the analysis took for NOT NULL at a
\* statement or at the condition of an IF is not NULL.
InferenceIsSound ==
  \/ Running({"read", "setnull", "setval", "copy", "call", "if", "switch"})
  \/ Running({"elseif"}) /\ testing
  => improved[ip] \subseteq env

\* The same for the condition of a loop, which runs once per iteration.
LoopConditionIsSound == Running(Loops) => improved[ip] \subseteq env

\* No assertion of flow.c fails while a body is analysed.
AnalysisNeverAborts == ~fs.aborted

\* After a procedure no context is left open and no improvement is left behind
\* that the next procedure would inherit.
NothingLeaksFromProcedure ==
  phase # "analysis" => fs = [InitState EXCEPT !.aborted = fs.aborted]

\* The second analysis of a loop only takes improvements away.
ReanalysisOnlyLoses ==
  [][at <= Len(prog) => improved'[at] \subseteq improved[at]]_<<avars, rvars>>
=============================================================================
