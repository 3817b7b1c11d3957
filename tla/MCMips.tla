------------------------------- MODULE MCMips -------------------------------
(***************************************************************************)
(* Programs, registers and page tables for MipsLockstep, with words of eight *)
(* bits (two to a byte), pages of eight bytes and four frames.               *)
(***************************************************************************)
EXTENDS MipsLockstep

R(funct, rs, rt, rd, shamt) ==
  [op |-> 0, rs |-> rs, rt |-> rt, rd |-> rd, shamt |-> shamt, funct |-> funct,
   immed |-> 0, target |-> 0]
I(op, rs, rt, immed) ==
  [op |-> op, rs |-> rs, rt |-> rt, rd |-> 0, shamt |-> 0, funct |-> 0,
   immed |-> immed, target |-> 0]
J(op, target) == [I(op, 0, 0, 0) EXCEPT !.target = target]

\* Values on both sides of every sign and carry boundary.
Values == {0, 1, 4, 5, 127, 128, 131, 255}
Immediates == {0, 1, 4, 7, 8, 15}

\* Every instruction on its own: all functs, all primary opcodes, all BCOND codes.
Singles ==
  { <<R(f, 1, 2, rd, 3)>> : f \in 0..63, rd \in {0, 1, 3} }
    \cup { <<I(op, 1, 2, immed)>> : op \in 1..63, immed \in Immediates }
    \cup { <<I(1, 1, rt, 4)>> : rt \in {0, 1, 5, 16, 17} }
    \cup { <<J(op, 3)>> : op \in {2, 3} }

Entry(v, p) == [virtualPage |-> v, physicalPage |-> p, valid |-> TRUE, readOnly |-> FALSE,
                use |-> FALSE, dirty |-> FALSE]
Scattered == [tlb |-> FALSE, entries |-> << Entry(0, 2), Entry(1, 0), Entry(2, 3) >>]

\* Page tables with an entry that does not translate, and TLBs that miss a page or hold two
\* entries for one.
BadTables ==
  { [Scattered EXCEPT !.entries[1].readOnly = TRUE],
    [Scattered EXCEPT !.entries[2].readOnly = TRUE],
    [Scattered EXCEPT !.entries[2].valid = FALSE],
    [Scattered EXCEPT !.entries[2].physicalPage = NumPhysPages],
    [tlb |-> TRUE, entries |-> << Entry(2, 1), Entry(0, 0) >>],
    [tlb |-> TRUE, entries |-> << [Entry(0, 1) EXCEPT !.valid = FALSE], Entry(1, 2), Entry(0, 3) >>] }

MCMemory == [a \in 0 .. MemorySize - 1 |-> (a * a + a \div 3) % 4]

Pairs(as, bs) == {<<a, b>> : a \in as, b \in bs}   \* the contents of r1 and r2

Accesses == {32, 33, 34, 35, 36, 38, 40, 41, 42, 43, 46}

\* Short programs with loads, stores, branches and a link in each other's delay slots.
Pieces == { I(35, 1, 2, 0), I(32, 1, 3, 1), I(33, 1, 2, 2), R(33, 2, 1, 3, 0), I(43, 1, 3, 4),
            I(40, 1, 2, 1), I(4, 2, 3, 1), I(9, 1, 1, 4), J(3, 1), R(8, 31, 0, 0, 0) }

MCFamilies ==
  { [programs |-> Singles, regs |-> Pairs(Values, Values), maps |-> {Scattered}],
    [programs |-> {<<I(op, 1, 2, k)>> : op \in Accesses, k \in {0, 1}},
     regs |-> Pairs({4, 8, 9, 10, 12, 40}, {200}), maps |-> BadTables],
    [programs |-> {<<p, q, r>> : p \in Pieces, q \in Pieces, r \in Pieces},
     regs |-> Pairs({4}, {4, 200}), maps |-> {Scattered}] }
=============================================================================
