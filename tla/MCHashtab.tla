------------------------------ MODULE MCHashtab -----------------------------
(* Five key strings, two of them equal, with hash codes that collide, wrap *)
(* around the end of the table and part when it grows from 4 to 8 slots.   *)
EXTENDS Hashtab, TLC

CONSTANTS k1, k2, k3, k4, k5, k6, v1, n1

MCRef == {k1, k2, k3, k4, k5, k6, v1}
MCContent == (k1 :> "a" @@ k2 :> "b" @@ k3 :> "c" @@ k4 :> "d" @@ k5 :> "e"
              @@ k6 :> "a" @@ v1 :> "v")
MCHash == ("a" :> 3 @@ "b" :> 7 @@ "c" :> 3 @@ "d" :> 6 @@ "e" :> 2 @@ "v" :> 0)
MCKeys == {k1, k2, k3, k4, k5, k6}
MCVals == {v1, n1}
MCReleased == {v1}
=============================================================================
