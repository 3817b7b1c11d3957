---------------------------- MODULE MCFileSystem ----------------------------
(***************************************************************************)
(* A disk of nine sectors of two bytes, a directory of three entries of which *)
(* the second lies across its two sectors, and files of up to two sectors.   *)
(***************************************************************************)
EXTENDS FileSystem

CONSTANTS a, b, x, y, z  \* file names

\* A third name in the setup about crashes.
MCFileNames == [orderly |-> {a, b}, stale |-> {a, b}, crash |-> {x, y, z}]
NameSymmetry == {p @@ q : p \in Permutations({a, b}), q \in Permutations({x, y, z})}

\* What is written matters in the orderly setup; in the others, only where.
MCRequests == [orderly |-> UNION {[1..n -> Bytes] : n \in 1..MaxRequest},
               crash |-> {<<0>>, <<0, 0, 0>>}, stale |-> {[i \in 1..n |-> 0] : n \in 1..MaxRequest}]
MCHeapBytes == [orderly |-> Bytes, crash |-> {0}, stale |-> {0}]
=============================================================================
