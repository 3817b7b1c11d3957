----------------------------- MODULE MCDevices -----------------------------
(* Instances of Devices: the echo loop on its own and two threads that     *)
(* share the disk, each with and without time slices.                      *)
EXTENDS Devices

Started(threads, typed) ==
  {[threads |-> threads, timer |-> b, typed |-> typed] : b \in BOOLEAN}

MCSetups ==
  UNION {Started({"a", "b"}, <<>>),
         Started({"echo"}, <<"x", "y", "x", "q", "x">>),
         Started({"echo"}, <<"x", EOF, "y", "q">>)}
=============================================================================
