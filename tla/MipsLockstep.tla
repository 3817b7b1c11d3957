--------------------------- MODULE MipsLockstep ----------------------------
(***************************************************************************)
(* User programs on the simulated CPU, with the device interrupts that       *)
(* Machine::Run lets in between instructions, and the same programs on the   *)
(* stand-alone simulator beside it.                                          *)
(*                                                                           *)
(* A run starts with a program and the state of a process that is about to   *)
(* run it: register contents, a page table or TLB.  "agreed" records that    *)
(* every instruction so far was one on which the two simulators are meant    *)
(* to agree, and none touched a register in the delay slot of its load or    *)
(* jumped from the delay slot of a jump.                                     *)
(***************************************************************************)
EXTENDS Mips

CONSTANTS Families,   \* records of the programs, register contents and tables to start from
          Memory      \* the contents of main memory at the start

X == INSTANCE MipsExecute

VARIABLES cpu, exe, program, agreed
vars == <<cpu, exe, program, agreed>>

\* A process as RestoreUserState leaves it: no load is pending.
StartRegs(given) ==
  [r \in 0 .. NumTotalRegs - 1 |->
     CASE r = NextPCReg -> 4 [] r \in DOMAIN given -> given[r] [] OTHER -> 0]

\* Memory as the program addresses it, for the pages that are mapped.
VirtualSize(map) == PageSize * Len(map.entries)
VirtualMemory(mem, map) ==
  [a \in {v \in 0 .. VirtualSize(map) - 1 : TranslateError(map, v, 1, FALSE) = "NoException"} |->
     mem[Translate(map, a, 1, FALSE).physAddr]]

Init ==
  \E f \in Families : \E p \in f.programs, given \in f.regs, map \in f.maps :
    /\ program = p
    /\ cpu = [reg |-> StartRegs(given), mem |-> Memory, map |-> map, trap |-> "NoException"]
    /\ exe = [reg |-> [r \in 0..31 |-> StartRegs(given)[r]], hi |-> 0, lo |-> 0,
              pc |-> 0, npc |-> 4, mem |-> VirtualMemory(Memory, map), stop |-> FALSE]
    /\ agreed = TRUE

Jumps == Branches \cup {"J", "JAL", "JALR", "JR"}

\* The registers an instruction reads or writes.
Touches(i) == {i.rs, i.rt} \cup (IF i.opCode \in {"JAL", "BGEZAL", "BLTZAL"} THEN {R31} ELSE {})
                \cup (IF i.opCode \in X!RegisterOps \cup {"JALR", "MFHI", "MFLO"}
                      THEN {i.rd} ELSE {})

\* The instruction is one on which the two programs compute the same.  The exceptions are
\* the places where one of them departs from the instruction set: signed comparison, signed
\* division and right shifts of negative numbers and OR in mipssim.cc; the high word of a
\* product, logical immediates with the top bit set and the unaligned loads and stores in
\* execute.c; JALR with rd = rs, whose order differs.
Agreeable(i, reg) ==
  LET s == reg[i.rs]
      t == reg[i.rt]
  IN  CASE i.opCode \in {"SLT"} -> SameSign(s, t)
        [] i.opCode = "SLTI" -> SameSign(s, i.extra)
        [] i.opCode \in {"BGTZ", "BLEZ"} -> ~Negative(s)
        [] i.opCode = "DIV" -> t # 0 /\ ~Negative(s) /\ ~Negative(t)
        [] i.opCode = "DIVU" -> t # 0
        [] i.opCode \in {"SRA", "SRAV", "SRL", "SRLV"} -> ~Negative(t)
        [] i.opCode = "OR" -> (s | t) = s
        [] i.opCode \in {"ANDI", "ORI", "XORI"} -> ~Negative(i.extra)
        [] i.opCode = "JALR" -> i.rd # i.rs
        [] OTHER -> i.opCode \notin {"MULT", "MULTU", "LWL", "LWR", "SWL", "SWR"}

\* One instruction of the user program on both simulators.
Instruction ==
  /\ ~Trapped(cpu) /\ ~exe.stop
  /\ cpu' = OneInstruction(cpu, program)
  /\ IF Trapped(cpu') THEN UNCHANGED <<exe, agreed>>
     ELSE LET i == Decode(InstructionAt(program, cpu.reg[PCReg]))
          IN  /\ agreed' = (/\ agreed
                            /\ Agreeable(i, cpu.reg)
                            /\ i.opCode \in Jumps => cpu.reg[NextPCReg] = Wrap(cpu.reg[PCReg] + 4)
                            /\ cpu.reg[LoadReg] \notin Touches(i) \ {0})
              /\ exe' = IF agreed' THEN X!RunInstruction(exe, program) ELSE exe
  /\ UNCHANGED program

\* A device interrupt between two instructions: CheckIfDue finishes the pending load
\* before it runs the handler.
Interrupt ==
  /\ ~Trapped(cpu)
  /\ cpu' = DelayedLoad(cpu, 0, 0)
  /\ UNCHANGED <<exe, program, agreed>>

Next == Instruction \/ Interrupt
Spec == Init /\ [][Next]_vars
-----------------------------------------------------------------------------
\* The registers a later instruction can rely on: with the pending load applied.
Visible(m) == DelayedLoad(m, 0, 0).reg

\* As long as a program keeps to the instructions the two simulators are meant to agree on
\* and leaves load delay slots alone, they stay in step: same registers, same memory seen
\* through the page table, same program counters, whatever interrupts came in between.
Lockstep ==
  agreed =>
    /\ \A r \in 1..31 : Visible(cpu)[r] = exe.reg[r]
    /\ cpu.reg[HiReg] = exe.hi /\ cpu.reg[LoReg] = exe.lo
    /\ cpu.reg[PCReg] = exe.pc /\ cpu.reg[NextPCReg] = exe.npc
    /\ VirtualMemory(cpu.mem, cpu.map) = exe.mem
    /\ ~exe.stop

\* An instruction that traps can be run again once the kernel has dealt with the cause: it
\* leaves memory, the program counters and every register as they were, but for the load that
\* was pending (now finished) and BadVAddr (machine.cc:100, mipssim.cc "don't install in case
\* there's an error").
Restartable ==
  [][Trapped(cpu') =>
       /\ cpu'.mem = cpu.mem
       /\ \A r \in (0 .. NumTotalRegs - 1) \ {BadVAddrReg} :
            cpu'.reg[r] = IF cpu'.trap = "Abort" THEN cpu.reg[r] ELSE Visible(cpu)[r]]_vars

\* What a kernel that pages would rely on: an instruction changes memory only through a page that
\* is mapped and not read only, and leaves that page marked used and dirty (Machine::Translate).
ChangedIsDirty ==
  [][\A a \in DOMAIN cpu.mem : cpu'.mem[a] # cpu.mem[a] =>
       \E e \in DOMAIN cpu'.map.entries :
         LET entry == cpu'.map.entries[e]
         IN  /\ entry.physicalPage = a \div PageSize
             /\ entry.valid /\ entry.use /\ entry.dirty /\ ~entry.readOnly]_vars
=============================================================================
