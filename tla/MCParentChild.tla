--------------------------- MODULE MCParentChild ---------------------------
(* A parent joined to two children over two texts and NULL, at most two    *)
(* rows each: a key twice, a key absent from a child, no rows at all.      *)
EXTENDS ParentChild, TLC
CONSTANTS ka, kb

Symmetric == Permutations({ka, kb})
=============================================================================
