------------------------------- MODULE Totals -------------------------------
(* Sums over sequences of numbers *)
EXTENDS Integers, Sequences

\* The sums of the first numbers of a sequence, and of all
Sums(f) == LET Sum[n \in 0..Len(f)] == IF n = 0 THEN 0 ELSE Sum[n - 1] + f[n] IN Sum
Total(f) == Sums(f)[Len(f)]
=============================================================================
