------------------------------- MODULE Powers -------------------------------
(* The powers of two, of which every size and count of the heap is made.    *)
EXTENDS Naturals

Pow2[n \in Nat] == IF n = 0 THEN 1 ELSE 2 * Pow2[n - 1]
=============================================================================
