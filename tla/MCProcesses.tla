----------------------------- MODULE MCProcesses -----------------------------
(* Processes with few pages, pids and exit codes. *)
EXTENDS Processes, TLC

With(pids, frames, slices, calls) ==
  [numPids |-> pids, numFrames |-> frames, slices |-> slices, calls |-> calls]

(* Without Kill; with Kill; with time slices; with fewer pids than frames. *)
Mixed == {
  With(4, 3, FALSE, {"Fork", "Yield", "Exit", "Join", "Halt"}),
  With(4, 3, FALSE, {"Fork", "Exit", "Join", "Kill"}),
  With(3, 2, TRUE, {"Fork", "Exit", "Kill", "Exec"}),
  With(2, 4, FALSE, {"Fork", "Yield", "Exit", "Kill"})}

Joins  == {With(4, 3, FALSE, {"Fork", "Exit", "Join"})}
Kills  == {With(4, 3, FALSE, {"Fork", "Yield", "Exit", "Kill"})}

(* Processes other than the first are interchangeable. *)
Symmetry == Permutations(Proc \ {Main})
=============================================================================
