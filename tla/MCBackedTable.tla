---------------------------- MODULE MCBackedTable ---------------------------
(* Two backed tables in one backing table: t has a key of a string and a   *)
(* blob, so that the variable part of its key can get out of order; u has  *)
(* a bool, which is normalized.                                            *)
EXTENDS BackedTable, TLC

Num(i) == [st |-> "INTEGER", i |-> i, s |-> << >>]
Text(s) == [st |-> "TEXT", i |-> 0, s |-> s]
Blob(s) == [st |-> "BLOB", i |-> 0, s |-> s]

MCNull == [st |-> "NULL", i |-> 0, s |-> << >>]
MCKeyTypes == "t" :> <<"STRING", "BLOB">> @@ "u" :> <<"BOOL">>
MCFieldTypes == "t" :> (1 :> "STRING" @@ 2 :> "BLOB") @@ "u" :> (4 :> "FLOAT")
MCRecordType == "t" :> 70 @@ "u" :> 71

Bind(f, v) == [f |-> f, v |-> v]

\* SET lists: the compiler refuses two assignments to one column.
ListsOver(binds) ==
  {<< >>} \cup {<<b>> : b \in binds}
  \cup {<<b, c>> : b \in binds, c \in binds}
Lists(binds) == {l \in ListsOver(binds) : \A m, n \in DOMAIN l : l[m].f = l[n].f => m = n}

FieldBinds == {Bind(1, Text(<<5>>)), Bind(1, MCNull), Bind(2, Blob(<<0>>))}
KeyBinds == {Bind(1, Text(<<5>>)), Bind(2, Blob(<<5>>))}
BadField == <<Bind(2, Blob(<< >>)), Bind(1, Num(1))>>
BadKey == <<Bind(2, Blob(<<5>>)), Bind(1, MCNull)>>

KeyA == <<Text(<<5>>), Blob(<< >>)>>
KeyB == <<Text(<< >>), Blob(<<5>>)>>
AllKeys == {<<Text(a), Blob(b)>> : a \in {<< >>, <<5>>}, b \in {<< >>, <<5>>}}

Stmt(op, t, where, key, vals, setKey, set) ==
  [op |-> op, t |-> t, where |-> where, key |-> key, vals |-> vals,
   setKey |-> setKey, set |-> set]

OnT ==
  {Stmt("insert", "t", {}, KeyA, l, << >>, << >>) :
     l \in {<<Bind(1, Text(<<5>>)), Bind(2, Blob(<<0>>))>>, BadField}}
  \cup {Stmt("insert", "t", {}, KeyB, <<Bind(2, MCNull)>>, << >>, << >>),
        Stmt("insert", "t", {}, <<MCNull, Blob(<< >>)>>, << >>, << >>, << >>)}
  \cup {Stmt("upsert", "t", {}, KeyB, <<Bind(2, Blob(<<0>>))>>, << >>, l) :
          l \in {<<Bind(1, Text(<< >>))>>, BadField}}
  \cup {Stmt("update", "t", {KeyA}, << >>, << >>, << >>, l) :
          l \in (Lists(FieldBinds) \cup {BadField}) \ {<< >>}}
  \cup {Stmt("update", "t", {KeyB}, << >>, << >>, l, << >>) :
          l \in (Lists(KeyBinds) \cup {BadKey}) \ {<< >>}}
  \cup {Stmt("update", "t", AllKeys, << >>, << >>, << >>, <<Bind(1, MCNull), Bind(2, Blob(<<0>>))>>),
        Stmt("update", "t", {KeyA}, << >>, << >>, <<Bind(2, Blob(<<5>>))>>, <<Bind(1, Text(<<5>>))>>),
        Stmt("delete", "t", {KeyA}, << >>, << >>, << >>, << >>),
        Stmt("delete", "t", AllKeys \ {KeyA}, << >>, << >>, << >>, << >>)}
OnU ==
  {Stmt("insert", "u", {}, <<Num(2)>>, <<Bind(4, Num(7))>>, << >>, << >>),
   Stmt("update", "u", {<<Num(1)>>}, << >>, << >>, <<Bind(1, Num(0))>>, <<Bind(4, MCNull)>>)}

MCStatements == OnT \cup OnU
=============================================================================
