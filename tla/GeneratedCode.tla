--------------------------- MODULE GeneratedCode ---------------------------
(***************************************************************************)
(* The C that cg_c.c generates for the statements of a procedure: one      *)
(* return code variable, gotos to the current error target, labels for     *)
(* CATCH and for the update list of a FOR, prepared statements that are    *)
(* kept and reset when the SQL is in a loop, and one cleanup at the end.   *)
(* A program is compiled by Emit and then runs, one C statement at a time, *)
(* against a database that may refuse any statement.                       *)
(***************************************************************************)
EXTENDS StatementMeaning, SequencesExt, FiniteSets

CONSTANTS Programs,   \* the procedure bodies to compile
          MaxEvents   \* bound: answers of the database that are not the calm one's

----------------------------------------------------------------------------
(* Code generation.  An instruction is [op, at, arg]: at is the label or    *)
(* the prepared statement it is about, arg the source statement or the     *)
(* return codes it accepts.  The context of a statement list:              *)
(*   err      error_target          thrown   rcthrown_current              *)
(*   in_loop  cg_in_loop            for      for_loop_cur                  *)
(*   c_loop   the C loop a continue belongs to                             *)
(*   breaks   the C loop or switch a break belongs to                      *)

I(op, at, arg) == << [op |-> op, at |-> at, arg |-> arg] >>
Label(k, n) == <<k, n>>
CleanUp     == Label("cql_cleanup", 0)
Goto(l)     == I("goto", l, {})
Here(l)     == I("label", l, {})
Unless(rcs, l) == I("unless", l, rcs)     \* if (_rc_ is not one of rcs) goto l

(* cg_bound_sql_statement: outside of a loop the shared _temp_stmt, in a   *)
(* loop a statement of its own, prepared once.                             *)
Temp(s, x) == IF x.in_loop = "none" THEN 0 ELSE s.id

(* Prepare and bind.                                                       *)
Bound(s, x) ==
  I(IF Temp(s, x) = 0 THEN "prepare" ELSE "prepare_once", Temp(s, x), s.op)
  \o I("bind", Temp(s, x), s.op) \o Unless({"ok"}, x.err)

(* cg_temp_stmt_cleanup and the end of an executed statement: finalized,   *)
(* or reset when it is kept for the next turn of the loop.                 *)
Done(s, x) == I(IF Temp(s, x) = 0 THEN "finalize" ELSE "reset", Temp(s, x), s.op)

EmitExec(s, x) == Bound(s, x) \o I("step", Temp(s, x), s) \o Unless({"done"}, x.err) \o Done(s, x)
EmitGet(s, x)  == Bound(s, x) \o I("step", Temp(s, x), s) \o Unless({"row"}, x.err)
                  \o I("column", 0, s) \o Done(s, x)

(* SELECT ... IF NOTHING OR NULL THROW                                     *)
EmitGetOrThrow(s, x) ==
  Bound(s, x) \o I("step", Temp(s, x), s) \o Unless({"row", "done"}, x.err)
  \o I("if_done_or_null", x.err, {}) \o I("column", 0, s) \o I("rc_ok", 0, {}) \o Done(s, x)

(* cg_continue_stmt: in the body of a FOR the update list comes next.      *)
Mutant_EmitContinue(x) == Goto(Label("top", x.c_loop))
EmitContinue(x) ==
  Goto(IF x.in_loop = "for" THEN Label("for_continue", x.for) ELSE Label("top", x.c_loop))

EmitReturn == I("rc_ok", 0, {}) \o Goto(CleanUp)
EmitLeave(x) == Goto(Label("end", x.breaks))

(* cg_commit_return_stmt and cg_rollback_return_stmt.                      *)
EmitCommitReturn(s, x) == I("release", 0, s) \o Unless({"ok"}, x.err) \o EmitReturn
EmitRollbackReturn(s, x) ==
  I("rollback", 0, s) \o I("release", 0, s) \o Unless({"ok"}, x.err) \o EmitReturn

(* IF and the loops, around the code of their statement lists.             *)
EmitIf(s, then, else) ==
  I("if_not", Label("else", s.id), s) \o then \o Goto(Label("end", s.id))
  \o Here(Label("else", s.id)) \o else \o Here(Label("end", s.id))

(* SWITCH of one WHEN and an ELSE, each of which ends in a break.          *)
EmitSwitch(s, when, else) ==
  I("if_not", Label("default", s.id), s) \o when \o Goto(Label("end", s.id))
  \o Here(Label("default", s.id)) \o else \o Here(Label("end", s.id))

Forever(s, body) ==
  Here(Label("top", s.id)) \o body \o Goto(Label("top", s.id)) \o Here(Label("end", s.id))

EmitWhile(s, body) == Forever(s, I("if_not", Label("end", s.id), s) \o body)

EmitFor(s, body, update) ==
  Forever(s, I("if_not", Label("end", s.id), s) \o body
             \o Here(Label("for_continue", s.id)) \o update)

(* CURSOR C FOR SELECT ...: in a loop the statement of the last turn goes. *)
EmitOpen(s, x) ==
  (IF x.in_loop = "none" THEN << >> ELSE I("finalize", s.id, s.op))
  \o I("prepare", s.id, "open") \o Unless({"ok"}, x.err)

(* LOOP FETCH C                                                            *)
EmitLoop(s, x, body) ==
  Forever(s, I("step", s.id, Leaf("fetch", s.id)) \o Unless({"row", "done"}, x.err)
             \o I("if_no_row", Label("end", s.id), {}) \o body)

RECURSIVE Emit(_, _), EmitOne(_, _)

Emit(ss, x) == FlattenSeq([i \in DOMAIN ss |-> EmitOne(ss[i], x)])

(* cg_trycatch_helper: the error target is the CATCH while the TRY is      *)
(* emitted and the old one again for the CATCH.  `extras` and `handler`    *)
(* are code, for a TRY that the generator itself writes.                   *)
TryCatch(id, body, extras, handler) ==
  body \o extras \o Goto(Label("catch_end", id)) \o Here(Label("catch_start", id))
  \o I("save_thrown", id, {}) \o handler \o Here(Label("catch_end", id))

InTry(x, id)   == [x EXCEPT !.err = Label("catch_start", id)]
InCatch(x, id) == [x EXCEPT !.thrown = id]
InLoop(x, k, id) == [x EXCEPT !.in_loop = k, !.c_loop = id, !.breaks = id,
                              !.for = IF k = "for" THEN id ELSE @]

InSwitch(x, id) == [x EXCEPT !.breaks = id]

EmitThrow(x) == I("best_error", x.thrown, {}) \o Goto(x.err)

(* cg_proc_savepoint_stmt.                                                 *)
Mutant_EmitSavepoint(s, body, x) ==
  I("savepoint", 0, s) \o Unless({"ok"}, x.err)
  \o TryCatch(s.id, body,
              I("release", 0, s) \o Unless({"ok"}, Label("catch_start", s.id)),
              I("rollback", 0, s) \o EmitThrow(InCatch(x, s.id)))
EmitSavepoint(s, body, x) ==
  I("savepoint", 0, s) \o Unless({"ok"}, x.err)
  \o TryCatch(s.id, body,
              I("release", 0, s) \o Unless({"ok"}, Label("catch_start", s.id)),
              I("rollback", 0, s) \o I("release", 0, s) \o Unless({"ok"}, x.err)
              \o EmitThrow(InCatch(x, s.id)))

EmitOne(s, x) ==
  CASE s.op = "exec"         -> EmitExec(s, x)
    [] s.op = "run"          -> I("sql_exec", 0, s) \o Unless({"ok"}, x.err)
    [] s.op = "get"          -> EmitGet(s, x)
    [] s.op = "get_or_throw" -> EmitGetOrThrow(s, x)
    [] s.op = "select"       -> I("prepare_result", 0, s) \o Unless({"ok"}, x.err)
    [] s.op = "note"         -> I("note", x.thrown, s)
    [] s.op = "throw"        -> EmitThrow(x)
    [] s.op = "return"       -> EmitReturn
    [] s.op = "leave"        -> EmitLeave(x)
    [] s.op = "continue"     -> EmitContinue(x)
    [] s.op = "if"           -> EmitIf(s, Emit(s.a, x), Emit(s.b, x))
    [] s.op = "switch"       -> EmitSwitch(s, Emit(s.a, InSwitch(x, s.id)), Emit(s.b, InSwitch(x, s.id)))
    [] s.op = "while"        -> EmitWhile(s, Emit(s.a, InLoop(x, "any", s.id)))
    [] s.op = "for"          -> EmitFor(s, Emit(s.a, InLoop(x, "for", s.id)),
                                        Emit(s.b, InLoop(x, "for", s.id)))
    [] s.op = "each"         -> EmitOpen(s, x) \o EmitLoop(s, x, Emit(s.a, InLoop(x, "any", s.id)))
    [] s.op = "try"          -> TryCatch(s.id, Emit(s.a, InTry(x, s.id)), << >>, Emit(s.b, InCatch(x, s.id)))
    [] s.op = "savepoint"    -> EmitSavepoint(s, Emit(s.a, InTry(x, s.id)), x)
    [] s.op = "commit_return"   -> EmitCommitReturn(s, x)
    [] s.op = "rollback_return" -> EmitRollbackReturn(s, x)

(* cg_create_proc_stmt: the body, _rc_ = SQLITE_OK, and the cleanup label. *)
InProc == [err |-> CleanUp, thrown |-> 0, in_loop |-> "none", for |-> 0,
           c_loop |-> 0, breaks |-> 0]
EmitProc(body) == Emit(body, InProc) \o I("rc_ok", 0, {}) \o Here(CleanUp)

----------------------------------------------------------------------------
VARIABLES
  program,  \* the body being run
  code,     \* the C that was generated for it
  pc,       \* the next instruction; past the last one, the cleanup
  rc,       \* _rc_: ok, row, done, misuse or error
  rcs,      \* _rc_thrown_N, by CATCH; 0 is the default SQLITE_OK
  stmts,    \* the state of each sqlite3_stmt: none, ready, row or halted
  null,     \* the column the last step read is NULL
  result,   \* *_result_stmt
  writes,   \* what the procedure wrote and has not undone
  saves,    \* the savepoints, oldest first: where each began, and if it was undone
  notes,    \* what the statements of the program observed
  events,   \* the answers of the database and of the conditions
  misused,  \* a prepared statement was used before it was reset
  over      \* the procedure has returned

vars == << program, code, pc, rc, rcs, stmts, null, result, writes, saves, notes,
           events, misused, over >>

CallersSave == [mark |-> 0, undone |-> FALSE]

Init ==
  /\ program \in Programs
  /\ code = EmitProc(program)
  /\ pc = 1
  /\ rc = "ok"
  /\ rcs = [i \in {0} |-> "ok"]
  /\ stmts = [i \in {} |-> "none"]
  /\ null = FALSE
  /\ result = "none"
  /\ writes = << >>
  /\ saves = <<CallersSave>>
  /\ notes = << >>
  /\ events = << >>
  /\ misused = FALSE
  /\ over = FALSE

Running == ~ over /\ pc <= Len(code)
Instr   == code[pc]
Is(op)  == Running /\ Instr.op = op
Line(l) == CHOOSE i \in DOMAIN code :
             code[i].op = "label" /\ code[i].at = l

StateOf(n) == IF n \in DOMAIN stmts THEN stmts[n] ELSE "none"
Becomes(n, st) == stmts' = [i \in DOMAIN stmts \cup {n} |-> IF i = n THEN st ELSE stmts[i]]

(* A question to the database or to a condition, and its answer.           *)
Draw(op, answer) ==
  IF Len(events) < MaxEvents
  THEN answer \in ToSet(Answers(op)) /\ events' = Append(events, answer)
  ELSE answer = Calm(op) /\ UNCHANGED events

AllAnswers == {"yes", "no", "null", "err"}
Advance == pc' = pc + 1

(* label, goto and the tests of _rc_.                                      *)
Jump ==
  /\ Running /\ Instr.op \in {"label", "goto", "unless", "if_no_row", "if_done_or_null"}
  /\ LET taken == CASE Instr.op = "label"     -> FALSE
                    [] Instr.op = "goto"      -> TRUE
                    [] Instr.op = "unless"    -> rc \notin Instr.arg
                    [] Instr.op = "if_no_row" -> rc # "row"
                    [] OTHER                  -> rc = "done" \/ null
     IN  pc' = IF taken THEN Line(Instr.at) ELSE pc + 1
  /\ UNCHANGED << program, code, rc, rcs, stmts, null, result, writes, saves, notes, events, misused, over >>

(* A condition of IF, SWITCH, WHILE or FOR.                                *)
Condition ==
  /\ Is("if_not")
  /\ \E answer \in {"yes", "no"} :
       /\ Draw(Instr.arg.op, answer)
       /\ pc' = IF answer = "no" THEN Line(Instr.at) ELSE pc + 1
  /\ UNCHANGED << program, code, rc, rcs, stmts, null, result, writes, saves, notes, misused, over >>

SetRc ==
  /\ Running /\ Instr.op \in {"rc_ok", "best_error", "save_thrown"}
  /\ rc' = CASE Instr.op = "rc_ok" -> "ok"
             [] Instr.op = "best_error" -> BestError(rcs[Instr.at])
             [] OTHER -> rc
  /\ rcs' = IF Instr.op = "save_thrown"
            THEN [i \in DOMAIN rcs \cup {Instr.at} |-> IF i = Instr.at THEN rc ELSE rcs[i]]
            ELSE rcs
  /\ Advance
  /\ UNCHANGED << program, code, stmts, null, result, writes, saves, notes, events, misused, over >>

(* @rc is the code of the nearest CATCH; a column read is noted as well.   *)
Observe ==
  /\ Running /\ Instr.op \in {"note", "column"}
  /\ notes' = Append(notes, <<Instr.arg.id, IF Instr.op = "note" THEN rcs[Instr.at] ELSE "ok">>)
  /\ Advance
  /\ UNCHANGED << program, code, rc, rcs, stmts, null, result, writes, saves, events, misused, over >>

(* cql_prepare finalizes what the variable held; in a loop it is skipped   *)
(* when the statement is there already.                                    *)
Prepare ==
  /\ Running /\ Instr.op \in {"prepare", "prepare_once"}
  /\ \/ /\ Instr.op = "prepare_once" /\ StateOf(Instr.at) # "none"
        /\ rc' = "ok"
        /\ UNCHANGED << stmts, events >>
     \/ /\ Instr.op = "prepare" \/ StateOf(Instr.at) = "none"
        /\ \/ /\ Draw(Instr.arg, "err")
              /\ rc' = "error" /\ Becomes(Instr.at, "none")
           \/ /\ rc' = "ok" /\ Becomes(Instr.at, "ready")
              /\ IF Instr.arg = "open" THEN Draw("open", "yes") ELSE UNCHANGED events
  /\ Advance
  /\ UNCHANGED << program, code, rcs, null, result, writes, saves, notes, misused, over >>

(* cql_multibind: SQLite refuses to bind a statement that has been stepped *)
(* and not reset; a statement that cannot be bound is finalized.           *)
Bind ==
  /\ Is("bind")
  /\ LET late == rc = "ok" /\ StateOf(Instr.at) # "ready" IN
     /\ rc' = IF late THEN "misuse" ELSE rc
     /\ misused' = (misused \/ late)
     /\ IF late THEN Becomes(Instr.at, "none") ELSE UNCHANGED stmts
  /\ Advance
  /\ UNCHANGED << program, code, rcs, null, result, writes, saves, notes, events, over >>

(* sqlite3_step.                                                           *)
Step ==
  /\ Is("step")
  /\ \E answer \in AllAnswers :
       /\ Draw(Instr.arg.op, answer)
       /\ LET done == IF Instr.arg.op \in {"exec"} THEN answer = "yes" ELSE answer = "no" IN
          /\ rc' = IF answer = "err" THEN "error" ELSE IF done THEN "done" ELSE "row"
          /\ Becomes(Instr.at, IF rc' = "row" THEN "row" ELSE "halted")
       /\ null' = (answer = "null")
       /\ writes' = IF Instr.arg.op = "exec" /\ answer = "yes" THEN Append(writes, Instr.arg.id) ELSE writes
  /\ Advance
  /\ UNCHANGED << program, code, rcs, result, saves, notes, misused, over >>

(* sqlite3_reset and cql_finalize_stmt.                                    *)
Release ==
  /\ Running /\ Instr.op \in {"reset", "finalize"}
  /\ Becomes(Instr.at, IF Instr.op = "reset" THEN "ready" ELSE "none")
  /\ Advance
  /\ UNCHANGED << program, code, rc, rcs, null, result, writes, saves, notes, events, misused, over >>

(* A loose SELECT prepares the statement that the procedure hands out.     *)
PrepareResult ==
  /\ Is("prepare_result")
  /\ \E answer \in {"yes", "err"} :
       /\ Draw("select", answer)
       /\ rc' = IF answer = "err" THEN "error" ELSE "ok"
       /\ result' = IF answer = "err" THEN "none" ELSE "select"
  /\ Advance
  /\ UNCHANGED << program, code, rcs, stmts, null, writes, saves, notes, misused, over >>

(* cql_exec of a statement without variables.                              *)
SqlExec ==
  /\ Is("sql_exec")
  /\ \E answer \in {"yes", "err"} :
       /\ Draw("run", answer)
       /\ rc' = IF answer = "err" THEN "error" ELSE "ok"
       /\ writes' = IF answer = "err" THEN writes ELSE Append(writes, Instr.arg.id)
  /\ Advance
  /\ UNCHANGED << program, code, rcs, stmts, null, result, saves, notes, misused, over >>

Savepoint ==
  /\ Is("savepoint")
  /\ \E answer \in {"yes", "err"} :
       /\ Draw("savepoint", answer)
       /\ rc' = IF answer = "err" THEN "error" ELSE "ok"
       /\ saves' = IF answer = "err" THEN saves
                   ELSE Append(saves, [mark |-> Len(writes), undone |-> FALSE])
  /\ Advance
  /\ UNCHANGED << program, code, rcs, stmts, null, result, writes, notes, misused, over >>

(* ROLLBACK TO keeps the savepoint; it is taken to succeed.                *)
Rollback ==
  /\ Is("rollback")
  /\ rc' = "ok"
  /\ writes' = SubSeq(writes, 1, Last(saves).mark)
  /\ saves' = [saves EXCEPT ![Len(saves)].undone = TRUE]
  /\ Advance
  /\ UNCHANGED << program, code, rcs, stmts, null, result, notes, events, misused, over >>

(* RELEASE may fail, as a commit can, unless there is nothing to commit.   *)
ReleaseSavepoint ==
  /\ Is("release")
  /\ \E answer \in {"yes", "err"} :
       /\ IF Last(saves).undone THEN answer = "yes" /\ UNCHANGED events ELSE Draw("release", answer)
       /\ rc' = IF answer = "err" THEN "error" ELSE "ok"
       /\ saves' = IF answer = "err" THEN saves ELSE Front(saves)
  /\ Advance
  /\ UNCHANGED << program, code, rcs, stmts, null, result, writes, notes, misused, over >>

(* The cleanup: every statement variable is finalized; without an error    *)
(* there is a result, an empty one if no SELECT ran; preparing that one is *)
(* taken to succeed.                                                       *)
CleanUpAndReturn ==
  /\ ~ over /\ pc > Len(code)
  /\ stmts' = [i \in DOMAIN stmts |-> "none"]
  /\ result' = IF rc = "ok" /\ result = "none" THEN "no rows" ELSE result
  /\ over' = TRUE
  /\ UNCHANGED << program, code, pc, rc, rcs, null, writes, saves, notes, events, misused >>

Next == \/ Jump \/ Condition \/ SetRc \/ Observe \/ Prepare \/ Bind \/ Step \/ Release
        \/ PrepareResult \/ SqlExec \/ Savepoint \/ Rollback \/ ReleaseSavepoint
        \/ CleanUpAndReturn

Spec == Init /\ [][Next]_vars

----------------------------------------------------------------------------
(* The compiled procedure does what its statements mean: the same things   *)
(* observed in the same order with the same @rc, the same rows kept, the   *)
(* same return code and, without an error, the result it selected or an    *)
(* empty one -- unless SQLite refused a statement that was kept for the    *)
(* next turn of a loop.                                                    *)
CompiledAsMeant ==
  over /\ ~ misused =>
    LET meant == Meaning(events, program)
    IN  /\ notes = meant.notes
        /\ writes = meant.writes
        /\ rc = meant.rc
        /\ rc = "ok" => result = IF meant.selected THEN "select" ELSE "no rows"

(* Whatever fails, the procedure returns with the savepoints it was called *)
(* with, and a PROC SAVEPOINT that ends in an error has written nothing.   *)
SavepointsUnwound ==
  over => /\ saves = <<CallersSave>>
          /\ (rc # "ok" /\ Len(program) = 1 /\ program[1].op = "savepoint") => writes = << >>

(* A statement of the source finds its prepared statement ready, whatever  *)
(* became of its execution in an earlier turn of the loop.                 *)
StatementsStartReady == ~ misused
=============================================================================
