--------------------------- MODULE MCFlowAnalysis ---------------------------
(* FlowAnalysis on small instances. *)
EXTENDS FlowAnalysis

CONSTANTS x, y

Cond(k, vs, rest, call) == [k |-> k, vs |-> vs, rest |-> rest, call |-> call]

Bounds(size, vs, conds, ops) ==
  [size |-> size, vars |-> vs, conds |-> conds, ops |-> ops]

\* x IS NOT NULL AND rest; x IS NULL
TestConds == {Cond("and", {x}, TRUE, FALSE), Cond("or", {x}, FALSE, FALSE)}
\* an opaque condition
PlainConds == {Cond("and", {}, TRUE, FALSE)}
\* the same, one that calls a procedure, and x IS NULL
CallConds == PlainConds \cup {Cond("and", {}, TRUE, TRUE), Cond("or", {x}, FALSE, FALSE)}

If == {"if", "else", "endif"}
While == {"while", "endwhile"}
For == {"for", "update", "endfor"}
Try == {"try", "catch", "endtry"}
Switch == {"switch", "when", "endswitch"}

Sound ==
  [branches |->
     Bounds(7, {x}, TestConds, {"setnull", "setval"} \cup If),
   guards |->
     Bounds(6, {x}, TestConds, {"setnull", "read", "return", "elseif"} \cup If),
   copies |->
     Bounds(5, {x, y}, PlainConds, {"setnull", "setval", "copy", "if", "endif"}),
   errors |->
     Bounds(6, {x}, PlainConds, {"setnull", "setval", "call", "throw"} \cup Try),
   switches |->
     Bounds(7, {x}, PlainConds, {"setnull", "setval"} \cup Switch),
   loops |->
     Bounds(7, {x}, PlainConds,
            {"setnull", "setval", "leave", "continue"} \cup While \cup For \cup If)]

ElidedBranch ==
  [d |-> Bounds(8, {x}, TestConds, {"setnull", "read", "return", "elseif"} \cup If)]
CallInCondition == [d |-> Bounds(6, {x}, CallConds, {"read", "return", "if", "endif"})]
LoopCondition == [d |-> Bounds(5, {x}, PlainConds, {"setnull", "setval"} \cup While)]
=============================================================================
