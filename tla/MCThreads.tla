------------------------------ MODULE MCThreads ------------------------------
(* Threads on a few control blocks. *)
EXTENDS Threads, TLC

(* All control blocks but the main thread's are interchangeable. *)
Symmetry == Permutations(Thread \ {Main})
=============================================================================
