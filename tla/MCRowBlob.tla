------------------------------ MODULE MCRowBlob -----------------------------
(* Integers of 5 bits in groups of 2, and longs of 9, stand for 32 and 64   *)
(* bits in groups of 7: the last group is partly used in both.             *)
EXTENDS RowBlob, TLC

N(t) == [type |-> t, notnull |-> TRUE]
Y(t) == [type |-> t, notnull |-> FALSE]

MCHalf == "int" :> 2^4 @@ "long" :> 2^8
MCMaxBytes == "int" :> 3 @@ "long" :> 5
MCValues ==
  "int" :> {-16, 9} @@ "long" :> {-256} @@ "real" :> {<<0, 3>>}
  @@ "bool" :> BOOLEAN @@ "text" :> {<< >>, <<5>>} @@ "blob" :> {<<0, 5>>}

MCReaderShapes == {
  <<Y("bool"), N("int"), Y("text")>>,
  <<Y("text"), Y("blob"), Y("bool")>>,
  <<N("text"), Y("long")>>,
  <<Y("bool"), Y("bool"), N("bool")>>}
MCWriterShapes == MCReaderShapes \cup {
  <<N("bool"), N("int")>>,
  <<Y("text"), N("blob"), N("bool"), N("real")>>,
  <<Y("text")>>}

\* Rows that outgrow the first block of the buffer
MCLongRows == {<<N("text"), Y("int")>>}
=============================================================================
