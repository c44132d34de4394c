-------------------------- MODULE StatementMeaning --------------------------
(***************************************************************************)
(* What the statements of a procedure mean, as the language defines them:  *)
(* structured control flow, errors that unwind to the nearest CATCH, and   *)
(* PROC SAVEPOINT as all or nothing.  No labels, no return code variable,  *)
(* no prepared statements: the reference for the code that is generated.   *)
(*                                                                         *)
(* A statement is [op, id, a, b]; a and b are its statement lists.  What   *)
(* the database and the conditions answer is a sequence of events, one for *)
(* each time a statement asks; once it is used up the answer is Calm(op).  *)
(***************************************************************************)
EXTENDS Integers, Sequences

Stmt(op, id, a, b) == [op |-> op, id |-> id, a |-> a, b |-> b]
Leaf(op, id)       == Stmt(op, id, << >>, << >>)

(* The answers a statement can get; the first is the calm one.             *)
Answers(op) ==
  CASE op \in {"exec", "run", "select", "savepoint", "release", "rollback", "open"} -> <<"yes", "err">>
    [] op \in {"while", "for", "if", "switch"} -> <<"no", "yes">>
    [] op = "fetch"        -> <<"no", "yes", "err">>
    [] op = "get"          -> <<"yes", "no", "err">>
    [] op = "get_or_throw" -> <<"yes", "no", "null", "err">>

Calm(op) == Answers(op)[1]

(* cql_best_error: only an error can be thrown.                            *)
BestError(rc) == IF rc \in {"ok", "row", "done"} THEN "error" ELSE rc

----------------------------------------------------------------------------
(* A state of the meaning: events answered so far, the notes taken, the    *)
(* rows written, whether a result was selected, and how the last statement *)
(* ended: next, raise, leave, continue or return, with the error raised.   *)
Start == [events |-> 0, notes |-> << >>, writes |-> << >>, selected |-> FALSE,
          how |-> "next", rc |-> "ok"]

Asked(st)     == [st EXCEPT !.events = @ + 1]
Raise(st, rc) == [st EXCEPT !.how = "raise", !.rc = rc]
Went(st)      == [st EXCEPT !.how = "next"]

RECURSIVE Do(_, _, _, _), DoOne(_, _, _, _), Repeat(_, _, _, _), EachRow(_, _, _, _)

Do(events, ss, st, thrown) ==
  IF ss = << >> \/ st.how # "next" THEN st
  ELSE Do(events, Tail(ss), DoOne(events, Head(ss), st, thrown), thrown)

Answer(events, st, op) ==
  IF st.events < Len(events) THEN events[st.events + 1] ELSE Calm(op)

(* WHILE and FOR: CONTINUE goes on to the next turn, which in a FOR starts *)
(* with its update list.                                                   *)
Repeat(events, s, st, thrown) ==
  IF Answer(events, st, s.op) = "no" THEN Asked(st)
  ELSE LET body == Do(events, s.a, Asked(st), thrown)
           turn == IF body.how \in {"next", "continue"} THEN Do(events, s.b, Went(body), thrown) ELSE body
       IN  IF turn.how = "next" THEN Repeat(events, s, turn, thrown)
           ELSE IF turn.how = "leave" THEN Went(turn) ELSE turn

EachRow(events, s, st, thrown) ==
  CASE Answer(events, st, "fetch") = "no"  -> Asked(st)
    [] Answer(events, st, "fetch") = "err" -> Raise(Asked(st), "error")
    [] OTHER -> LET body == Do(events, s.a, Asked(st), thrown) IN
                IF body.how \in {"next", "continue"} THEN EachRow(events, s, Went(body), thrown)
                ELSE IF body.how = "leave" THEN Went(body) ELSE body

DoOne(events, s, st, thrown) ==
  LET answer(op) == Answer(events, st, op)
      asked      == Asked(st)
  IN
  CASE s.op \in {"exec", "run"} ->
         IF answer(s.op) = "err" THEN Raise(asked, "error")
         ELSE [asked EXCEPT !.writes = Append(@, s.id)]
    [] s.op \in {"get", "get_or_throw"} ->
         CASE answer(s.op) = "yes"  -> [asked EXCEPT !.notes = Append(@, <<s.id, "ok">>)]
           [] answer(s.op) = "no"   -> Raise(asked, "done")
           [] answer(s.op) = "null" -> Raise(asked, "row")
           [] OTHER                 -> Raise(asked, "error")
    [] s.op = "select" ->
         IF answer("select") = "err" THEN [Raise(asked, "error") EXCEPT !.selected = FALSE]
         ELSE [asked EXCEPT !.selected = TRUE]
    [] s.op = "note"   -> [st EXCEPT !.notes = Append(@, <<s.id, thrown>>)]
    [] s.op = "throw"  -> Raise(st, BestError(thrown))
    [] s.op \in {"leave", "continue", "return"} -> [st EXCEPT !.how = s.op]
    [] s.op = "if" -> Do(events, IF answer("if") = "yes" THEN s.a ELSE s.b, asked, thrown)
    [] s.op = "switch" ->
         LET body == Do(events, IF answer("switch") = "yes" THEN s.a ELSE s.b, asked, thrown)
         IN  IF body.how = "leave" THEN Went(body) ELSE body
    [] s.op \in {"while", "for"} -> Repeat(events, s, st, thrown)
    [] s.op = "each" ->
         IF answer("open") = "err" THEN Raise(asked, "error") ELSE EachRow(events, s, asked, thrown)
    [] s.op = "try" ->
         LET body == Do(events, s.a, st, thrown)
         IN  IF body.how = "raise" THEN Do(events, s.b, Went(body), body.rc) ELSE body
    [] s.op = "commit_return" ->
         IF answer("release") = "err" THEN Raise(asked, "error") ELSE [asked EXCEPT !.how = "return"]
    [] s.op = "rollback_return" -> [st EXCEPT !.how = "abandon"]
    [] s.op = "savepoint" ->
         IF answer("savepoint") = "err" THEN Raise(asked, "error")
         ELSE LET body == Do(events, s.a, asked, thrown)
                  undone(r) == [r EXCEPT !.writes = st.writes]
              IN  CASE body.how = "raise"   -> undone(Raise(body, BestError(body.rc)))
                    [] body.how = "abandon" -> undone([body EXCEPT !.how = "return"])
                    [] body.how = "next"    ->
                         IF Answer(events, body, "release") = "err"
                         THEN undone(Raise(Asked(body), "error")) ELSE Asked(body)
                    [] OTHER -> body

(* What a caller sees of a procedure: its notes, what it wrote, its return *)
(* code, and whether it made a result.                                     *)
Meaning(events, program) ==
  LET st == Do(events, program, Start, "ok")
  IN  [notes |-> st.notes, writes |-> st.writes,
       rc |-> IF st.how = "raise" THEN st.rc ELSE "ok", selected |-> st.selected]
=============================================================================
