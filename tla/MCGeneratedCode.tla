--------------------------- MODULE MCGeneratedCode ---------------------------
(* The procedure bodies that TLC compiles and runs: each kind of statement *)
(* where its jumps and its errors are the least obvious.                   *)
EXTENDS GeneratedCode

(* A statement list that names its statements from n on.                   *)
RECURSIVE Body(_, _)
Body(op, n) ==
  CASE op = "try_exec"     -> << Stmt("try", n, << Leaf("exec", n + 1) >>, << Leaf("note", n + 2) >>) >>
    [] op = "retry"        -> << Stmt("try", n, << Leaf("exec", n + 1), Leaf("note", n + 2) >>,
                                            << Leaf("continue", n + 3) >>) >>
    [] op = "give_up"      -> << Stmt("try", n, << Leaf("get", n + 1) >>,
                                            << Leaf("note", n + 2), Leaf("leave", n + 3) >>) >>
    [] op = "rethrow"      -> << Stmt("try", n, << Leaf("get_or_throw", n + 1) >>,
                                            << Leaf("note", n + 2), Leaf("throw", n + 3) >>) >>
    [] op = "leave_try"    -> << Stmt("try", n, << Leaf("exec", n + 1), Leaf("leave", n + 2) >>,
                                            << Leaf("return", n + 3) >>) >>
    [] op = "if_leave"     -> << Stmt("if", n, << Leaf("leave", n + 1) >>, << Leaf("exec", n + 2) >>) >>
    [] op = "if_continue"  -> << Stmt("if", n, << Leaf("continue", n + 1) >>, << Leaf("return", n + 2) >>),
                                 Leaf("note", n + 3) >>
    [] op = "inner_while"  -> << Stmt("while", n, << Leaf("exec", n + 1), Leaf("continue", n + 2) >>, << >>),
                                 Leaf("continue", n + 3), Leaf("note", n + 4) >>
    [] op = "inner_each"   -> << Stmt("each", n, << Leaf("exec", n + 1), Leaf("leave", n + 2) >>, << >>),
                                 Leaf("note", n + 3) >>
    [] op = "switch"       -> << Stmt("switch", n, << Leaf("exec", n + 1), Leaf("leave", n + 2) >>,
                                               << Leaf("continue", n + 3) >>), Leaf("note", n + 4) >>
    [] op = "switch_try"   -> << Stmt("switch", n, Body("leave_try", n + 1), Body("give_up", n + 5)),
                                 Leaf("note", n + 9) >>
    [] op = "throw"        -> << Leaf("throw", n) >>
    [] op = "run"          -> << Leaf("run", n) >>
    [] op = "select"       -> << Leaf("select", n) >>

Bodies == {"try_exec", "retry", "give_up", "rethrow", "leave_try", "if_leave", "if_continue",
           "inner_while", "inner_each", "switch", "switch_try"}

Loops ==
  { << Stmt(loop, 10, Body(op, 20), IF loop = "for" THEN << Leaf("note", 11) >> ELSE << >>),
       Leaf("exec", 12), Leaf("note", 13) >> : loop \in {"while", "for", "each"}, op \in Bodies }
  \cup { << Stmt("try", 9, << Stmt("for", 10, Body(op, 20), Body("try_exec", 30)) >>,
                       << Leaf("note", 11) >>) >> : op \in Bodies }
  \cup { << Stmt("for", 10, << Stmt(loop, 15, Body(op, 20), << >>), Leaf("continue", 16) >>,
                        << Leaf("note", 11) >>) >> :
           loop \in {"while", "each", "for"}, op \in {"retry", "leave_try", "if_continue", "switch"} }

(* An error in a CATCH, and @rc on the way out of one.                     *)
Nests ==
  { << Stmt("try", 10, Body(op, 20), Body(op2, 30)), Leaf("note", 11), Leaf("throw", 12) >> :
      op \in {"rethrow", "run", "select", "try_exec"}, op2 \in {"try_exec", "rethrow", "throw"} }
  \cup { << Stmt("try", 10, << Leaf("run", 11), Leaf("select", 12), Leaf("get_or_throw", 13) >>,
                        << Leaf("note", 14), Stmt("try", 15, Body("throw", 16), << Leaf("note", 17) >>),
                           Leaf("note", 18), Leaf("throw", 19) >>) >> }

Savepoints ==
  { << Stmt("savepoint", 10, << Leaf("run", 11) >> \o Body(op, 20) \o last, << >>) >> :
      op \in {"rethrow", "try_exec", "run", "select"},
      last \in { << >>, << Leaf("commit_return", 12) >>, << Leaf("rollback_return", 12) >>,
                 << Leaf("throw", 12) >>,
                 << Stmt("if", 12, << Leaf("rollback_return", 13) >>, << Leaf("commit_return", 14) >>) >> } }
  \cup { << Stmt("savepoint", 10,
               << Stmt("try", 11, << Leaf("run", 12), Leaf("commit_return", 13) >>,
                              << Leaf("note", 14), Leaf("rollback_return", 15) >>) >>, << >>) >>,
         << Stmt("savepoint", 10,
               << Stmt("while", 11, Body("retry", 20), << >>),
                  Leaf("run", 12) >>, << >>) >> }

MCPrograms == Loops \cup Nests \cup Savepoints
=============================================================================
