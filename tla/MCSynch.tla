------------------------------- MODULE MCSynch -------------------------------
(* Synch on a few threads and objects. *)
EXTENDS Synch, TLC

Zero == [s \in Sem |-> 0]

(* Threads other than the main one are interchangeable. *)
Symmetry == Permutations(Thread \ {Main})
=============================================================================
