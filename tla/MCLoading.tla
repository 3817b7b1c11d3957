----------------------------- MODULE MCLoading -----------------------------
(* An instance of Loading: executables with aligned and unaligned data,    *)
(* and object files with the sections coff2noff tells apart.               *)
EXTENDS Loading, TLC

Section(name, addr, bytes) == [name |-> name, paddr |-> addr, vaddr |-> addr, bytes |-> bytes]
Bytes(f, name, n) == [i \in 1 .. n |-> <<f, name, i>>]
text(f, n) == Section(".text", 0, Bytes(f, ".text", n))
data(f, name, a, n) == Section(name, a, Bytes(f, name, n))
bss(name, a, n) == Section(name, a, Zeroes(n))

MCCoff ==
  [f \in {"small", "large", "odd", "both", "twobss", "apart", "gap", "late",
          "bare", "other"} |->
     CASE f = "small" -> <<text(f, 3), data(f, ".data", 3, 2)>>
       [] f = "large" -> <<text(f, 4), data(f, ".data", 4, 4), bss(".bss", 8, 1)>>
       [] f = "odd"   -> <<text(f, 5), data(f, ".data", 5, 2)>>
       [] f = "both"  -> <<text(f, 2), data(f, ".rdata", 2, 1), data(f, ".data", 3, 1)>>
       [] f = "twobss" -> <<text(f, 2), bss(".sbss", 2, 1), bss(".bss", 3, 1)>>
       [] f = "apart" -> <<text(f, 2), bss(".sbss", 2, 1), bss(".bss", 4, 1)>>
       [] f = "gap"   -> <<text(f, 2), data(f, ".data", 3, 2), bss(".bss", 5, 0)>>
       [] f = "late"  -> <<data(f, ".data", 2, 2), text(f, 2)>>
       [] f = "bare"  -> <<text(f, 1), data(f, ".rdata", 1, 0), data(f, ".data", 1, 1)>>
       [] f = "other" -> <<text(f, 1), data(f, ".sdata", 1, 1)>>]

\* Processes are interchangeable.
Renaming == Permutations(Processes)

\* Nothing is said of the states that follow a stray copy.
NotStrayed == ~ strayed
=============================================================================
