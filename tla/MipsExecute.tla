---------------------------- MODULE MipsExecute ----------------------------
(***************************************************************************)
(* The second interpreter of the repository: bin/execute.c, the stand-alone *)
(* simulator that ships with the object-file tools.  It has a flat memory,  *)
(* no load delay and no exceptions, and its registers are ints.  The state  *)
(* is a record like the one of Mips: reg, hi, lo, pc, npc, mem and stop.    *)
(***************************************************************************)
EXTENDS MipsWords

\* encode.h: the primary opcodes, those of SPECIAL and those of BCOND.
normalCode ==
  [SPECIAL |-> 0, BCOND |-> 1, J |-> 2, JAL |-> 3, BEQ |-> 4, BNE |-> 5, BLEZ |-> 6, BGTZ |-> 7,
   ADDI |-> 8, ADDIU |-> 9, SLTI |-> 10, SLTIU |-> 11, ANDI |-> 12, ORI |-> 13, XORI |-> 14,
   LUI |-> 15, COP0 |-> 16, COP1 |-> 17, COP2 |-> 18, COP3 |-> 19,
   LB |-> 32, LH |-> 33, LWL |-> 34, LW |-> 35, LBU |-> 36, LHU |-> 37, LWR |-> 38,
   SB |-> 40, SH |-> 41, SWL |-> 42, SW |-> 43, SWR |-> 46,
   LWC0 |-> 48, LWC1 |-> 49, LWC2 |-> 50, LWC3 |-> 51,
   SWC0 |-> 56, SWC1 |-> 57, SWC2 |-> 58, SWC3 |-> 59]

specialCode ==
  [SLL |-> 0, SRL |-> 2, SRA |-> 3, SLLV |-> 4, SRLV |-> 6, SRAV |-> 7, JR |-> 8, JALR |-> 9,
   SYSCALL |-> 12, BREAK |-> 13, MFHI |-> 16, MTHI |-> 17, MFLO |-> 18, MTLO |-> 19,
   MULT |-> 24, MULTU |-> 25, DIV |-> 26, DIVU |-> 27, ADD |-> 32, ADDU |-> 33, SUB |-> 34,
   SUBU |-> 35, AND |-> 36, OR |-> 37, XOR |-> 38, NOR |-> 39, SLT |-> 42, SLTU |-> 43]

bcondCode == [BLTZ |-> 0, BGEZ |-> 1, BLTZAL |-> 16, BGEZAL |-> 17]

\* The case label the nested switches reach; "default" when there is none.
Label(code, n) ==
  IF \E name \in DOMAIN code : code[name] = n
  THEN CHOOSE name \in DOMAIN code : code[name] = n ELSE "default"
CaseOf(raw) ==
  LET primary == Label(normalCode, raw.op)
  IN  CASE primary = "SPECIAL" -> Label(specialCode, raw.funct)
        [] primary = "BCOND" -> Label(bcondCode, raw.rt)
        [] OTHER -> primary

\* Shifts, by a constant or by a register of which the host uses the low bits.
ShiftResult(op, s, t, sh) ==
  LET by == s % WordBits
  IN  CASE op = "SLL" -> ShiftLeft(t, sh)
        [] op = "SRL" -> ShiftRight(t, sh)
        [] op = "SRA" -> ShiftRightSigned(t, sh)
        [] op = "SLLV" -> ShiftLeft(t, by)
        [] op = "SRLV" -> ShiftRight(t, by)
        [] op = "SRAV" -> ShiftRightSigned(t, by)

ShiftOps == {"SLL", "SRL", "SRA", "SLLV", "SRLV", "SRAV"}

\* The other three-register instructions: the new value of rd.
ArithmeticResult(op, s, t) ==
  CASE op \in {"ADD", "ADDU"} -> Wrap(s + t)
    [] op \in {"SUB", "SUBU"} -> Wrap(s - t)
    [] op = "AND" -> s & t
    [] op = "OR" -> s | t
    [] op = "XOR" -> s ^^ t
    [] op = "NOR" -> Complement(s | t)
    [] op = "SLT" -> Bit(AsInt(s) < AsInt(t))
    [] op = "SLTU" -> Bit(s < t)

ArithmeticOps == {"ADD", "ADDU", "SUB", "SUBU", "AND", "OR", "XOR", "NOR", "SLT", "SLTU"}
RegisterOps == ShiftOps \cup ArithmeticOps

\* The immediate instructions: the new value of rt, from the sign-extended immediate.
ImmediateResult(op, s, immed) ==
  CASE op \in {"ADDI", "ADDIU"} -> Wrap(s + immed)
    [] op = "SLTI" -> Bit(AsInt(s) < AsInt(immed))
    [] op = "SLTIU" -> Bit(s < immed)
    [] op = "ANDI" -> s & immed
    [] op = "ORI" -> s | immed
    [] op = "XORI" -> s ^^ immed
    [] op = "LUI" -> ShiftLeft(immed, HalfBits)

ImmediateOps == {"ADDI", "ADDIU", "SLTI", "SLTIU", "ANDI", "ORI", "XORI", "LUI"}

\* <<HI, LO>> after MULT, whose high word is pieced together from half words without the
\* carry of the low ones, and MULTU.
Product(op, s, t) ==
  LET signed == op = "MULT"
      a == IF signed /\ Negative(s) THEN Wrap(-AsInt(s)) ELSE s
      b == IF signed /\ Negative(t) THEN Wrap(-AsInt(t)) ELSE t
      al == Low(a, HalfBits)
      ah == ShiftRight(a, HalfBits)
      bl == Low(b, HalfBits)
      bh == ShiftRight(b, HalfBits)
      hi == Wrap(ah * bh + ShiftRightSigned(Wrap(ah * bl), HalfBits)
                 + ShiftRightSigned(Wrap(bh * al), HalfBits))
      lo == Wrap(a * b)
  IN  IF signed /\ Negative(s) # Negative(t) THEN NegatedPair(hi, lo) ELSE <<hi, lo>>

\* C division truncates towards zero.
Quotient(a, b) == LET q == (IF a < 0 THEN -a ELSE a) \div (IF b < 0 THEN -b ELSE b)
                  IN  IF (a < 0) # (b < 0) THEN -q ELSE q

\* <<HI, LO>> after DIV and DIVU with a divisor that is not zero.
Divided(op, s, t) ==
  LET a == IF op = "DIV" THEN AsInt(s) ELSE s
      b == IF op = "DIV" THEN AsInt(t) ELSE t
  IN  <<Wrap(a - b * Quotient(a, b)), Wrap(Quotient(a, b))>>

\* Conditional branches.
Taken(op, s, t) ==
  CASE op = "BEQ" -> s = t
    [] op = "BNE" -> s # t
    [] op \in {"BLTZ", "BLTZAL"} -> AsInt(s) < 0
    [] op \in {"BGEZ", "BGEZAL"} -> AsInt(s) >= 0
    [] op = "BLEZ" -> AsInt(s) <= 0
    [] op = "BGTZ" -> AsInt(s) > 0

BranchOps == {"BEQ", "BNE", "BLTZ", "BGEZ", "BLTZAL", "BGEZAL", "BLEZ", "BGTZ"}

\* Loads: the new value of rt.
LoadResult(op, mem, addr, old) ==
  LET aligned == addr - (addr % 4)
      word == Fetched(mem, aligned, 4)
      low == addr % 4
      back == (-addr) % 4
  IN  CASE op = "LB" -> Extend(Fetched(mem, addr, 1), ByteBits)
        [] op = "LBU" -> Fetched(mem, addr, 1)
        [] op = "LH" -> Extend(Fetched(mem, addr, 2), HalfBits)
        [] op = "LHU" -> Fetched(mem, addr, 2)
        [] op = "LW" -> Fetched(mem, addr, 4)
        [] op = "LWL" -> old | ShiftLeft(word, ByteBits * low)
        [] op = "LWR" -> (IF low = 0 THEN 0 ELSE old & ShiftLeft(Modulus - 1, ByteBits * low))
                           | ShiftRightSigned(word, ByteBits * back)

LoadOps == {"LB", "LBU", "LH", "LHU", "LW", "LWL", "LWR"}
StoreSize == [SB |-> 1, SH |-> 2, SW |-> 4]
\* One turn of the loop of runprogram.
RunInstruction(x, program) ==
  LET raw == InstructionAt(program, x.pc)
      op == CaseOf(raw)
      reg == [x.reg EXCEPT ![0] = 0]
      s == reg[raw.rs]
      t == reg[raw.rt]
      immed == Extend(raw.immed, HalfBits)
      addr == Wrap(s + immed)
      link == Wrap(x.pc + 8)
      linked == [reg EXCEPT ![31] = link]
      target == Wrap(x.pc + 4 + immed * 4)
      n == [x EXCEPT !.reg = reg, !.pc = x.npc, !.npc = Wrap(x.npc + 4)]
  IN  CASE op \in ShiftOps -> [n EXCEPT !.reg[raw.rd] = ShiftResult(op, s, t, raw.shamt)]
        [] op \in ArithmeticOps -> [n EXCEPT !.reg[raw.rd] = ArithmeticResult(op, s, t)]
        [] op \in ImmediateOps -> [n EXCEPT !.reg[raw.rt] = ImmediateResult(op, s, immed)]
        [] op \in LoadOps -> [n EXCEPT !.reg[raw.rt] = LoadResult(op, x.mem, addr, t)]
        [] op \in DOMAIN StoreSize -> [n EXCEPT !.mem = Stored(@, addr, StoreSize[op], t)]
        [] op = "MFHI" -> [n EXCEPT !.reg[raw.rd] = x.hi]
        [] op = "MFLO" -> [n EXCEPT !.reg[raw.rd] = x.lo]
        [] op = "MTHI" -> [n EXCEPT !.hi = s]
        [] op = "MTLO" -> [n EXCEPT !.lo = s]
        [] op \in {"MULT", "MULTU"} ->
             [n EXCEPT !.hi = Product(op, s, t)[1], !.lo = Product(op, s, t)[2]]
        [] op \in {"DIV", "DIVU"} ->
             IF t = 0 THEN [n EXCEPT !.stop = TRUE]   \* the host's division trap
             ELSE [n EXCEPT !.hi = Divided(op, s, t)[1], !.lo = Divided(op, s, t)[2]]
        [] op = "JR" -> [n EXCEPT !.npc = s]
        [] op = "JALR" -> [n EXCEPT !.npc = s, !.reg[raw.rd] = link]
        [] op = "J" -> [n EXCEPT !.npc = Wrap(raw.target * 4)]
        [] op = "JAL" -> [n EXCEPT !.npc = Wrap(raw.target * 4), !.reg = linked]
        [] op \in {"BLTZAL", "BGEZAL"} ->
             [n EXCEPT !.reg = linked,
                       !.npc = IF Taken(op, linked[raw.rs], t) THEN target ELSE @]
        [] op \in BranchOps -> [n EXCEPT !.npc = IF Taken(op, s, t) THEN target ELSE @]
        [] OTHER -> [n EXCEPT !.stop = TRUE]          \* system_trap, u(), no coprocessors
=============================================================================
