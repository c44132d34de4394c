------------------------------- MODULE MCFlow -------------------------------
(* Flow on small instances. *)
EXTENDS Flow

CONSTANT x

NoUses == {}
=============================================================================
