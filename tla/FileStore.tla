----------------------------- MODULE FileStore ------------------------------
(***************************************************************************)
(* What the file system promises its one client: a set of named files of    *)
(* fixed length, each an array of bytes, and an open file with a position.  *)
(* A write takes effect sector by sector, so its bytes are installed in     *)
(* pieces, front to back; nothing else about files, and no other file, ever *)
(* changes.                                                                 *)
(***************************************************************************)
EXTENDS Integers, Sequences

CONSTANTS Names, Bytes,
          MaxBytes,   \* the length of the longest file and of the longest request
          NoFile      \* no open file

VARIABLES
  files,   \* a function from the names that exist to sequences of bytes
  open,    \* NoFile or [name, pos]
  want,    \* the bytes of the write in progress not installed yet: a function of offsets
  got      \* what the read just done returned; empty after any other step

vars == <<files, open, want, got>>

Init == files = << >> /\ open = NoFile /\ want = << >> /\ got = << >>

Data == UNION {[1..k -> Bytes] : k \in 0..MaxBytes}

\* A new file has the length asked for and whatever bytes its sectors had.
Create ==
  /\ got' = << >>
  /\ UNCHANGED <<open, want>>
  /\ files' \in {[m \in DOMAIN files \cup {n} |-> IF m = n THEN content ELSE files[m]] :
                   n \in Names \ DOMAIN files, content \in Data}

Remove ==
  /\ got' = << >>
  /\ UNCHANGED <<open, want>>
  /\ files' \in {[m \in DOMAIN files \ {n} |-> files[m]] : n \in DOMAIN files}

Open ==
  /\ open' \in {[name |-> n, pos |-> 0] : n \in DOMAIN files}
  /\ got' = << >>
  /\ UNCHANGED <<files, want>>

Close ==
  /\ open' = NoFile
  /\ got' = << >>
  /\ UNCHANGED <<files, want>>

Seek ==
  /\ open # NoFile
  /\ open' \in [name: {open.name}, pos: 0..MaxBytes]
  /\ got' = << >>
  /\ UNCHANGED <<files, want>>

\* The bytes from the position up to the end of the file, at most as many as asked for.
Window(n) == LET left == Len(files[open.name]) - open.pos
             IN  IF left < 0 THEN 0 ELSE IF n < left THEN n ELSE left

Read ==
  /\ open # NoFile /\ want = << >>
  /\ \E n \in 0..MaxBytes :
       /\ got' = SubSeq(files[open.name], open.pos + 1, open.pos + Window(n))
       /\ open' = [open EXCEPT !.pos = @ + Window(n)]
  /\ UNCHANGED <<files, want>>

BeginWrite ==
  /\ open # NoFile /\ want = << >>
  /\ got' = << >>
  /\ UNCHANGED <<files, open>>
  /\ want' \in {[o \in open.pos .. open.pos + Window(Len(data)) - 1 |-> data[o - open.pos + 1]] :
                  data \in Data}

\* The bytes up to some offset land; the position moves when the last of them has.
Land ==
  /\ \E last \in DOMAIN want :
       LET left == {o \in DOMAIN want : o > last}
       IN  /\ want' = [o \in left |-> want[o]]
           /\ files' = [files EXCEPT ![open.name] =
                          [i \in DOMAIN @ |->
                             IF i - 1 \in DOMAIN want \ left THEN want[i - 1] ELSE @[i]]]
           /\ open' = IF left = {} THEN [open EXCEPT !.pos = last + 1] ELSE open
  /\ got' = << >>

Next == Create \/ Remove \/ Open \/ Close \/ Seek \/ Read \/ BeginWrite \/ Land
Spec == Init /\ [][Next]_vars
=============================================================================
