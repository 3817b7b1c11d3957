------------------------------- MODULE Mips --------------------------------
(***************************************************************************)
(* The simulated CPU of machine/: instruction decoding and execution         *)
(* (mipssim.cc), address translation and memory (translate.cc) and the trap  *)
(* into the kernel (machine.cc).                                             *)
(*                                                                           *)
(* A machine is a record: "reg" the register file with the eight registers   *)
(* the simulator adds, "mem" main memory, "map" the page table or TLB,       *)
(* "trap" the exception that ended the run.  An instruction word is a record *)
(* of its fields (the packing into bits is left out); programs are kept      *)
(* beside the data memory, since none of them writes its own code.           *)
(***************************************************************************)
EXTENDS MipsWords, FiniteSetsExt

CONSTANTS PageSize, NumPhysPages

MemorySize == PageSize * NumPhysPages

R31 == 31
HiReg == 32
LoReg == 33
PCReg == 34
NextPCReg == 35
PrevPCReg == 36
LoadReg == 37
LoadValueReg == 38
BadVAddrReg == 39
NumTotalRegs == 40

MachineState == [reg: [0 .. NumTotalRegs - 1 -> Int],
                 mem: [0 .. MemorySize - 1 -> Byte],
                 map: [tlb: BOOLEAN,
                       entries: Seq([virtualPage: Nat, physicalPage: Nat, valid: BOOLEAN,
                                     readOnly: BOOLEAN, use: BOOLEAN, dirty: BOOLEAN])],
                 trap: STRING]

-----------------------------------------------------------------------------
(* Decoding *)

Repeat(op, n) == [i \in 1..n |-> op]

\* Indexed by the primary opcode field, from 0; every format is IFMT but the first four's.
opTable ==
  << "SPECIAL", "BCOND", "J", "JAL", "BEQ", "BNE", "BLEZ", "BGTZ",
     "ADDI", "ADDIU", "SLTI", "SLTIU", "ANDI", "ORI", "XORI", "LUI" >>
  \o Repeat("UNIMP", 4) \o Repeat("RES", 12)
  \o << "LB", "LH", "LWL", "LW", "LBU", "LHU", "LWR", "RES",
        "SB", "SH", "SWL", "SW", "RES", "RES", "SWR", "RES" >>
  \o Repeat("UNIMP", 4) \o Repeat("RES", 4) \o Repeat("UNIMP", 4) \o Repeat("RES", 4)

\* Indexed by the funct field of a SPECIAL instruction, from 0.
specialTable ==
  << "SLL", "RES", "SRL", "SRA", "SLLV", "RES", "SRLV", "SRAV",
     "JR", "JALR", "RES", "RES", "SYSCALL", "UNIMP", "RES", "RES",
     "MFHI", "MTHI", "MFLO", "MTLO", "RES", "RES", "RES", "RES",
     "MULT", "MULTU", "DIV", "DIVU", "RES", "RES", "RES", "RES",
     "ADD", "ADDU", "SUB", "SUBU", "AND", "OR", "XOR", "NOR",
     "RES", "RES", "SLT", "SLTU" >> \o Repeat("RES", 20)

\* The instruction as OneInstruction sees it: opCode, registers, and in "extra" the
\* sign-extended immediate, the shift amount or the jump target.
Decode(raw) ==
  LET primary == opTable[raw.op + 1]
      bcond == CASE raw.rt = 0 -> "BLTZ" [] raw.rt = 1 -> "BGEZ"
                 [] raw.rt = 16 -> "BLTZAL" [] raw.rt = 17 -> "BGEZAL" [] OTHER -> "UNIMP"
  IN  [opCode |-> CASE primary = "SPECIAL" -> specialTable[raw.funct + 1]
                    [] primary = "BCOND" -> bcond
                    [] OTHER -> primary,
       rs |-> raw.rs, rt |-> raw.rt, rd |-> raw.rd,
       extra |-> CASE primary = "SPECIAL" -> raw.shamt
                   [] primary \in {"J", "JAL"} -> raw.target
                   [] OTHER -> Extend(raw.immed, HalfBits)]

-----------------------------------------------------------------------------
(* Registers, traps and memory *)

\* Finish the load in its delay slot and start the next one; r0 stays zero.
DelayedLoad(m, nextReg, nextValue) ==
  LET landed == [m.reg EXCEPT ![m.reg[LoadReg]] = m.reg[LoadValueReg]]
  IN  [m EXCEPT !.reg = [landed EXCEPT ![LoadReg] = nextReg, ![LoadValueReg] = nextValue,
                                       ![0] = 0]]

(* Mutant: the trap forgets the load that was in progress. *)
RaiseExceptionInFlight(m, which, badVAddr) ==
  [m EXCEPT !.reg = [@ EXCEPT ![BadVAddrReg] = badVAddr, ![LoadReg] = 0], !.trap = which]

\* The handler itself is the kernel's: the trap ends the run of the user program.
RaiseException(m, which, badVAddr) ==
  [DelayedLoad([m EXCEPT !.reg[BadVAddrReg] = badVAddr], 0, 0) EXCEPT !.trap = which]

\* The entry that maps a virtual page: by index in a page table, by search in a TLB.
\* 0 when there is none.
EntryFor(map, vpn) ==
  IF map.tlb
  THEN LET hits == {i \in DOMAIN map.entries :
                      map.entries[i].valid /\ map.entries[i].virtualPage = vpn}
       IN  IF hits = {} THEN 0 ELSE Min(hits)
  ELSE IF vpn + 1 \in DOMAIN map.entries THEN vpn + 1 ELSE 0

(* Mutant: the read-only bit is not looked at. *)
TranslateErrorWritable(map, addr, size, writing) ==
  LET e == EntryFor(map, addr \div PageSize)
  IN  IF addr % size # 0 THEN "AddressError"
      ELSE IF e = 0 THEN IF map.tlb THEN "PageFault" ELSE "AddressError"
      ELSE IF ~map.entries[e].valid THEN "PageFault"
      ELSE IF map.entries[e].physicalPage >= NumPhysPages THEN "BusError"
      ELSE "NoException"

\* The exception an access raises; the order of the tests is the code's.
TranslateError(map, addr, size, writing) ==
  LET e == EntryFor(map, addr \div PageSize)
  IN  IF addr % size # 0 THEN "AddressError"
      ELSE IF e = 0 THEN IF map.tlb THEN "PageFault" ELSE "AddressError"
      ELSE IF ~map.entries[e].valid THEN "PageFault"
      ELSE IF map.entries[e].readOnly /\ writing THEN "ReadOnly"
      ELSE IF map.entries[e].physicalPage >= NumPhysPages THEN "BusError"
      ELSE "NoException"

\* A translation that succeeds sets the use and dirty bits of its entry.
Translate(map, addr, size, writing) ==
  LET e == EntryFor(map, addr \div PageSize)
      error == TranslateError(map, addr, size, writing)
  IN  IF error # "NoException"
      THEN [exception |-> error, physAddr |-> 0, map |-> map]
      ELSE [exception |-> error,
            physAddr |-> map.entries[e].physicalPage * PageSize + (addr % PageSize),
            map |-> [map EXCEPT !.entries[e].use = TRUE,
                                !.entries[e].dirty = @ \/ writing]]

\* The machine after a read, which trapped or holds the value in "value".
ReadMem(m, addr, size) ==
  LET t == Translate(m.map, addr, size, FALSE)
  IN  IF t.exception # "NoException"
      THEN [m |-> RaiseException(m, t.exception, addr), value |-> 0]
      ELSE [m |-> [m EXCEPT !.map = t.map], value |-> Fetched(m.mem, t.physAddr, size)]

WriteMem(m, addr, size, value) ==
  LET t == Translate(m.map, addr, size, TRUE)
  IN  IF t.exception # "NoException"
      THEN RaiseException(m, t.exception, addr)
      ELSE [m EXCEPT !.map = t.map, !.mem = Stored(@, t.physAddr, size, value)]

Trapped(m) == m.trap # "NoException"
-----------------------------------------------------------------------------
(* The instructions, in the order of the switch of OneInstruction.  registers *)
(* are unsigned ints, so every comparison and shift written on them is the    *)
(* unsigned one unless the code goes through an int.                          *)

SetReg(m, r, v) == [m EXCEPT !.reg[r] = v]
SetHiLo(m, hi, lo) == [m EXCEPT !.reg[HiReg] = hi, !.reg[LoReg] = lo]

SameSign(x, y) == Negative(x) = Negative(y)

\* ADD to ANDI.
AddOrAnd(m, i) ==
  LET s == m.reg[i.rs]
      t == m.reg[i.rt]
      sum == Wrap(s + t)
      sumI == Wrap(s + i.extra)
  IN  CASE i.opCode = "ADD" ->
             IF SameSign(s, t) /\ ~SameSign(s, sum)
             THEN RaiseException(m, "Overflow", 0) ELSE SetReg(m, i.rd, sum)
        [] i.opCode = "ADDI" ->
             IF SameSign(s, i.extra) /\ ~SameSign(i.extra, sumI)
             THEN RaiseException(m, "Overflow", 0) ELSE SetReg(m, i.rt, sumI)
        [] i.opCode = "ADDIU" -> SetReg(m, i.rt, sumI)
        [] i.opCode = "ADDU" -> SetReg(m, i.rd, sum)
        [] i.opCode = "AND" -> SetReg(m, i.rd, s & t)
        [] i.opCode = "ANDI" -> SetReg(m, i.rt, s & Low(i.extra, HalfBits))

\* BEQ to BNE: is the branch taken?  The AL forms link before they test.
BranchTaken(reg, i) ==
  LET s == reg[i.rs]
  IN  CASE i.opCode = "BEQ" -> s = reg[i.rt]
        [] i.opCode \in {"BGEZ", "BGEZAL"} -> ~Negative(s)
        [] i.opCode = "BGTZ" -> s > 0
        [] i.opCode = "BLEZ" -> s <= 0
        [] i.opCode \in {"BLTZ", "BLTZAL"} -> Negative(s)
        [] i.opCode = "BNE" -> s # reg[i.rt]

\* DIV and DIVU, which the unsigned registers make the same.
Divide(m, i) ==
  LET s == m.reg[i.rs]
      t == m.reg[i.rt]
  IN  IF t = 0 THEN SetHiLo(m, 0, 0) ELSE SetHiLo(m, s % t, s \div t)

\* JAL to JR: the link register is written before the target is read.  The model's
\* addresses lie in one of the regions a jump target cannot leave.
Jump(m, i) ==
  LET link == Wrap(m.reg[NextPCReg] + 4)
      linked == CASE i.opCode = "JAL" -> SetReg(m, R31, link)
                  [] i.opCode = "JALR" -> SetReg(m, i.rd, link)
                  [] OTHER -> m
  IN  [m |-> linked,
       pcAfter |-> IF i.opCode \in {"J", "JAL"} THEN Wrap(i.extra * 4)
                   ELSE linked.reg[i.rs]]

\* The value a load will put in rt.  LWL and LWR start from the value rt is about to have.
LoadedValue(m, i, value) ==
  LET old == IF m.reg[LoadReg] = i.rt THEN m.reg[LoadValueReg] ELSE m.reg[i.rt]
  IN  CASE i.opCode = "LB" -> Extend(value, ByteBits)
        [] i.opCode = "LH" -> Extend(value, HalfBits)
        [] i.opCode = "LWR" -> (old - Low(old, ByteBits)) + ShiftRight(value, 3 * ByteBits)
        [] OTHER -> value

AccessSize(op) ==
  CASE op \in {"LB", "LBU", "SB"} -> 1 [] op \in {"LH", "LHU", "SH"} -> 2 [] OTHER -> 4

\* LB to LWR, but LUI.  The four unaligned instructions assert an aligned address.
Load(m, i) ==
  LET addr == Wrap(m.reg[i.rs] + i.extra)
      size == AccessSize(i.opCode)
      read == ReadMem(m, addr, size)
  IN  IF i.opCode \in {"LWL", "LWR"} /\ addr % 4 # 0
      THEN [m |-> [m EXCEPT !.trap = "Abort"], value |-> 0]
      ELSE IF addr % size # 0
      THEN [m |-> RaiseException(m, "AddressError", addr), value |-> 0]
      ELSE [m |-> read.m, value |-> LoadedValue(m, i, read.value)]
\* The shift-and-add loop of Mult over the bits of a, for the magnitudes of the operands.
MultLoop(a, b) ==
  LET step(x) ==
        LET lo == IF x.a % 2 = 1 THEN Wrap(x.lo + x.bLo) ELSE x.lo
            carry == Bit(x.a % 2 = 1 /\ lo < x.bLo)
            hi == IF x.a % 2 = 1 THEN Wrap(x.hi + carry + x.bHi) ELSE x.hi
        IN  [a |-> ShiftRightSigned(x.a, 1), lo |-> lo, hi |-> hi,
             bHi |-> Wrap(2 * x.bHi + Bit(Negative(x.bLo))), bLo |-> ShiftLeft(x.bLo, 1)]
      after[n \in 0..WordBits] ==
        IF n = 0 THEN [a |-> a, lo |-> 0, hi |-> 0, bHi |-> 0, bLo |-> b] ELSE step(after[n - 1])
  IN  <<after[WordBits].hi, after[WordBits].lo>>

Mult(a, b, signedArith) ==
  LET magnitude(x) == IF signedArith /\ Negative(x) THEN Wrap(-AsInt(x)) ELSE x
      product == MultLoop(magnitude(a), magnitude(b))
  IN  IF a = 0 \/ b = 0 THEN <<0, 0>>
      ELSE IF signedArith /\ ~SameSign(a, b) THEN NegatedPair(product[1], product[2])
      ELSE product

\* MFHI to MULTU.
MoveOrMultiply(m, i) ==
  LET product == Mult(m.reg[i.rs], m.reg[i.rt], i.opCode = "MULT")
  IN  CASE i.opCode = "MFHI" -> SetReg(m, i.rd, m.reg[HiReg])
        [] i.opCode = "MFLO" -> SetReg(m, i.rd, m.reg[LoReg])
        [] i.opCode = "MTHI" -> SetReg(m, HiReg, m.reg[i.rs])
        [] i.opCode = "MTLO" -> SetReg(m, LoReg, m.reg[i.rs])
        [] i.opCode \in {"MULT", "MULTU"} -> SetHiLo(m, product[1], product[2])

\* NOR to ORI.  OR reads rs twice and never rt.
NorOr(m, i) ==
  LET s == m.reg[i.rs]
  IN  CASE i.opCode = "NOR" -> SetReg(m, i.rd, Complement(s | m.reg[i.rt]))
        [] i.opCode = "OR" -> SetReg(m, i.rd, s | s)
        [] i.opCode = "ORI" -> SetReg(m, i.rt, s | Low(i.extra, HalfBits))

\* SLL to SRLV.  SRA shifts an unsigned register, SRL an int copy of it.
ShiftOrCompare(m, i) ==
  LET s == m.reg[i.rs]
      t == m.reg[i.rt]
      by == s % WordBits
  IN  CASE i.opCode = "SLL" -> SetReg(m, i.rd, ShiftLeft(t, i.extra))
        [] i.opCode = "SLLV" -> SetReg(m, i.rd, ShiftLeft(t, by))
        [] i.opCode \in {"SLT", "SLTU"} -> SetReg(m, i.rd, Bit(s < t))
        [] i.opCode \in {"SLTI", "SLTIU"} -> SetReg(m, i.rt, Bit(s < i.extra))
        [] i.opCode = "SRA" -> SetReg(m, i.rd, ShiftRight(t, i.extra))
        [] i.opCode = "SRAV" -> SetReg(m, i.rd, ShiftRight(t, by))
        [] i.opCode = "SRL" -> SetReg(m, i.rd, ShiftRightSigned(t, i.extra))
        [] i.opCode = "SRLV" -> SetReg(m, i.rd, ShiftRightSigned(t, by))

Subtract(m, i) ==
  LET s == m.reg[i.rs]
      t == m.reg[i.rt]
      diff == Wrap(s - t)
  IN  IF i.opCode = "SUB" /\ ~SameSign(s, t) /\ ~SameSign(s, diff)
      THEN RaiseException(m, "Overflow", 0) ELSE SetReg(m, i.rd, diff)

\* SB, SH and SW.
Store(m, i) == WriteMem(m, Wrap(m.reg[i.rs] + i.extra), AccessSize(i.opCode), m.reg[i.rt])

\* SWL and SWR read the word, merge rt into it and write it back.
StoreUnaligned(m, i) ==
  LET addr == Wrap(m.reg[i.rs] + i.extra)
      read == ReadMem(m, addr, 4)
      t == m.reg[i.rt]
      merged == IF i.opCode = "SWL" THEN t
                ELSE Low(read.value, 3 * ByteBits) + ShiftLeft(t, 3 * ByteBits)
  IN  IF addr % 4 # 0 THEN [m EXCEPT !.trap = "Abort"]
      ELSE IF Trapped(read.m) THEN read.m
      ELSE WriteMem(read.m, addr, 4, merged)

\* XOR and XORI.
ExclusiveOr(m, i) ==
  IF i.opCode = "XOR" THEN SetReg(m, i.rd, m.reg[i.rs] ^^ m.reg[i.rt])
  ELSE SetReg(m, i.rt, m.reg[i.rs] ^^ Low(i.extra, HalfBits))

Branches == {"BEQ", "BGEZ", "BGEZAL", "BGTZ", "BLEZ", "BLTZ", "BLTZAL", "BNE"}
Loads == {"LB", "LBU", "LH", "LHU", "LW", "LWL", "LWR"}

\* Every instruction but the branches, jumps and loads: the machine before it moves on.
Operate(m, i) ==
  LET op == i.opCode
  IN  CASE op \in {"ADD", "ADDI", "ADDIU", "ADDU", "AND", "ANDI"} -> AddOrAnd(m, i)
        [] op \in {"DIV", "DIVU"} -> Divide(m, i)
        [] op = "LUI" -> SetReg(m, i.rt, ShiftLeft(i.extra, HalfBits))
        [] op \in {"MFHI", "MFLO", "MTHI", "MTLO", "MULT", "MULTU"} -> MoveOrMultiply(m, i)
        [] op \in {"NOR", "OR", "ORI"} -> NorOr(m, i)
        [] op \in {"SB", "SH", "SW"} -> Store(m, i)
        [] op \in {"SLL", "SLLV", "SLT", "SLTI", "SLTIU", "SLTU",
                   "SRA", "SRAV", "SRL", "SRLV"} -> ShiftOrCompare(m, i)
        [] op \in {"SUB", "SUBU"} -> Subtract(m, i)
        [] op \in {"SWL", "SWR"} -> StoreUnaligned(m, i)
        [] op = "SYSCALL" -> RaiseException(m, "Syscall", 0)
        [] op \in {"XOR", "XORI"} -> ExclusiveOr(m, i)
        [] op \in {"RES", "UNIMP"} -> RaiseException(m, "IllegalInstr", 0)

(* Mutant: a branch takes effect at once, without its delay slot. *)
AdvanceEarly(m, loadReg, loadValue, pcAfter) ==
  LET n == DelayedLoad(m, loadReg, loadValue)
  IN  [n EXCEPT !.reg = [@ EXCEPT ![PrevPCReg] = n.reg[PCReg], ![PCReg] = pcAfter,
                                  ![NextPCReg] = Wrap(pcAfter + 4)]]

\* The successful end of an instruction.
Advance(m, loadReg, loadValue, pcAfter) ==
  LET n == DelayedLoad(m, loadReg, loadValue)
  IN  [n EXCEPT !.reg = [@ EXCEPT ![PrevPCReg] = n.reg[PCReg], ![PCReg] = n.reg[NextPCReg],
                                  ![NextPCReg] = pcAfter]]

\* Fetch, decode and execute; an instruction that traps does not move on.
OneInstruction(m, program) ==
  LET fetch == ReadMem(m, m.reg[PCReg], 4)
      f == fetch.m
      i == Decode(InstructionAt(program, m.reg[PCReg]))
      next == m.reg[NextPCReg]
      linked == IF i.opCode \in {"BGEZAL", "BLTZAL"} THEN SetReg(f, R31, Wrap(next + 4)) ELSE f
      load == Load(f, i)
      jump == Jump(f, i)
      done == Operate(f, i)
  IN  IF Trapped(f) THEN f
      ELSE IF i.opCode \in Branches
      THEN Advance(linked, 0, 0,
                   Wrap(next + IF BranchTaken(linked.reg, i) THEN i.extra * 4 ELSE 4))
      ELSE IF i.opCode \in {"J", "JAL", "JALR", "JR"} THEN Advance(jump.m, 0, 0, jump.pcAfter)
      ELSE IF i.opCode \in Loads
      THEN IF Trapped(load.m) THEN load.m ELSE Advance(load.m, i.rt, load.value, Wrap(next + 4))
      ELSE IF Trapped(done) THEN done ELSE Advance(done, 0, 0, Wrap(next + 4))
=============================================================================
