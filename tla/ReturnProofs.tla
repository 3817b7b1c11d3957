---------------------------- MODULE ReturnProofs ----------------------------
(***************************************************************************)
(* Proofs about module Processes, from the invariant of ProcessesProofs:   *)
(* how a process comes back from its system calls.  Join returns only      *)
(* after the process it waits for has ended, and without time slices a     *)
(* process always goes on with its own registers.                          *)
(***************************************************************************)
EXTENDS ProcessesProofs

JoinType == [pid : Int, child : Proc \cup {NULL}, status : ExitValues \cup {NULL}]

(* Who waits in join waits for a live process with the pid it asks for, or has
   been told how that process ended.                                          *)
Waits(q) == \/ joining[q].status # NULL
            \/ /\ joining[q].child \in Live
               /\ pcb[joining[q].child].pid = joining[q].pid

JoinInv ==
  /\ joining \in [Proc -> JoinType]
  /\ \A q \in Live : at[q] = "joining" => Waits(q)

(* What Yield does to where the threads are. *)
LEMMA YieldMoves ==
  ASSUME SchedInv, power = "running", NEW place \in Where, NEW context, Yield(place, context)
  PROVE  /\ \A q \in Proc \ {current} : at'[q] = "joining" => at[q] = "joining"
         /\ at'[current] = "joining" => place = "joining"
<1>0. current \in Proc /\ at \in [Proc -> Where]
  BY DEF SchedInv
<1>1. CASE IsEmpty(ready)
  BY <1>0, <1>1 DEF Yield
<1>2. CASE ~ IsEmpty(ready)
  <2> DEFINE next == Head(ready.items)
  <2>1. at' = Places(next, place)
    BY <1>2 DEF Yield
  <2>2. next \in Range(ready.items)
    BY <1>2, RemovedFacts DEF SchedInv
  <2>3. next \in Proc /\ next # current
    BY <2>2 DEF SchedInv, Live
  <2> HIDE DEF next
  <2> QED BY <1>0, <2>1, <2>3 DEF Places
<1> QED BY <1>1, <1>2

(* Steps after which the same processes live, or more. *)
LEMMA JoinStays ==
  ASSUME JoinInv, joining' \in [Proc -> JoinType], Live \subseteq Live',
         \A q \in Live : pcb'[q].pid = pcb[q].pid,
         \A q \in Live' : at'[q] = "joining" =>
            \/ q \in Live /\ at[q] = "joining" /\ joining'[q] = joining[q]
            \/ joining'[q].child \in Live /\ pcb[joining'[q].child].pid = joining'[q].pid
  PROVE  JoinInv'
<1> SUFFICES ASSUME NEW q \in Live', at'[q] = "joining" PROVE Waits(q)'
  BY DEF JoinInv
<1>1. CASE q \in Live /\ at[q] = "joining" /\ joining'[q] = joining[q]
  <2>1. Waits(q)
    BY <1>1 DEF JoinInv
  <2> QED BY <1>1, <2>1 DEF Waits
<1>2. CASE joining'[q].child \in Live /\ pcb[joining'[q].child].pid = joining'[q].pid
  BY <1>2 DEF Waits
<1> QED BY <1>1, <1>2

(* A process ends: who waits for it is told. *)
LEMMA JoinEnds ==
  ASSUME JoinInv, NEW p \in Live, Live' = Live \ {p}, NEW how \in ExitValues, Ends(p, how),
         \A q \in Live \ {p} : pcb'[q].pid = pcb[q].pid,
         \A q \in Live \ {p} : at'[q] = "joining" => at[q] = "joining"
  PROVE  JoinInv'
<1>0. Live \subseteq Proc /\ how # NULL
  BY ProcessesAssumption DEF Live, ExitValues
<1>1. \A q \in Proc : joining[q] \in JoinType
  BY DEF JoinInv
<1>2. ASSUME NEW q \in Proc
      PROVE  /\ q = p => joining'[q] = NotJoining
             /\ q # p /\ joining[q].child = p =>
                  joining'[q] = [joining[q] EXCEPT !.child = NULL, !.status = how]
             /\ q # p /\ joining[q].child # p => joining'[q] = joining[q]
  BY DEF Ends
<1>3. joining' \in [Proc -> JoinType]
  <2>1. ASSUME NEW q \in Proc PROVE joining'[q] \in JoinType
    <3>1. NotJoining \in JoinType
      BY DEF NotJoining, JoinType
    <3>2. CASE q # p /\ joining[q].child = p
      <4> DEFINE j == joining[q]
      <4>1. j \in JoinType /\ joining'[q] = [j EXCEPT !.child = NULL, !.status = how]
        BY <1>1, <1>2, <3>2
      <4> HIDE DEF j
      <4> QED BY <4>1 DEF JoinType
    <3>3. CASE q = p \/ joining[q].child # p
      BY <1>1, <1>2, <3>1, <3>3
    <3> QED BY <3>2, <3>3
  <2>2. joining' = [q \in Proc |-> joining'[q]]
    BY DEF Ends
  <2> QED BY <2>1, <2>2
<1>4. ASSUME NEW q \in Live', at'[q] = "joining" PROVE Waits(q)'
  <2>0. q \in Live /\ q # p /\ q \in Proc /\ Waits(q)
    BY <1>0, <1>4 DEF JoinInv
  <2>1. CASE joining[q].child = p
    <3>1. joining'[q].status = how
      BY <1>1, <1>2, <2>0, <2>1 DEF JoinType
    <3> QED BY <1>0, <3>1 DEF Waits
  <2>2. CASE joining[q].child # p
    BY <1>2, <2>0, <2>2 DEF Waits
  <2> QED BY <2>1, <2>2
<1> QED BY <1>3, <1>4 DEF JoinInv

LEMMA FinishMoves ==
  ASSUME SchedInv, power = "running", Finish
  PROVE  \A q \in Proc \ {current} : at'[q] = "joining" => at[q] = "joining"
<1>0. current \in Proc /\ at \in [Proc -> Where]
  BY DEF SchedInv
<1>1. CASE IsEmpty(ready)
  BY <1>0, <1>1 DEF Finish
<1>2. CASE ~ IsEmpty(ready)
  <2> DEFINE next == Head(ready.items)
  <2>1. at' = Places(next, "none")
    BY <1>2 DEF Finish
  <2>2. next \in Range(ready.items)
    BY <1>2, RemovedFacts DEF SchedInv
  <2>3. next \in Proc /\ next # current
    BY <2>2 DEF SchedInv, Live
  <2> HIDE DEF next
  <2> QED BY <1>0, <2>1, <2>3 DEF Places
<1> QED BY <1>1, <1>2

(* Steps that change neither who lives nor the PCBs nor what join remembers. *)
LEMMA JoinSame ==
  ASSUME JoinInv, Live' = Live, UNCHANGED <<pcb, joining>>,
         \A q \in Live : at'[q] = "joining" => at[q] = "joining"
  PROVE  JoinInv'
<1>1. joining' \in [Proc -> JoinType]
  BY DEF JoinInv
<1> QED BY <1>1, JoinStays

LEMMA JoinYield ==
  ASSUME ProcInv, JoinInv, power = "running", NEW place \in Where, NEW context,
         Yield(place, context), place = "joining" => at[current] = "joining",
         IsEmpty(ready) => at[current] # "starting",
         UNCHANGED <<setup, pageTable, pcb, joining, power>>
  PROVE  JoinInv'
<1>1. Live' = Live
  BY YieldFacts DEF ProcInv
<1>2. \A q \in Live : at'[q] = "joining" => at[q] = "joining"
  BY YieldMoves DEF ProcInv, Live
<1> QED BY <1>1, <1>2, JoinSame

LEMMA JoinStop ==
  ASSUME JoinInv, NEW how, Stop(how)
  PROVE  JoinInv'
<1>1. UNCHANGED <<life, at, pcb, joining>>
  BY DEF Stop, schedVars, pcbVars
<1>2. Live' = Live
  BY <1>1 DEF Live
<1> QED BY <1>1, <1>2, JoinSame

LEMMA JoinExit ==
  ASSUME ProcInv, JoinInv, power = "running", NEW code \in ExitValues, ExitWith(code)
  PROVE  JoinInv'
<1>1. CASE Stop("undefined")
  BY <1>1, JoinStop
<1>2. CASE ~ Stop("undefined")
  <2>1. /\ pcb' = [q \in Proc |->
                     IF q = pcb[current].parent
                     THEN [Unlinked(current)[q] EXCEPT !.exitValue = code]
                     ELSE Unlinked(current)[q]]
        /\ ReleaseAll(current) /\ Ends(current, code) /\ Finish
    BY <1>2 DEF ExitWith
  <2>2. setup' = setup
    BY <2>1 DEF Finish
  <2>3. current \in Live /\ current \in Proc /\ SchedInv
    BY DEF ProcInv, SchedInv
  <2>4. \A q \in Proc \ {current} : pageTable'[q] = pageTable[q]
    BY <2>1, <2>3 DEF ReleaseAll, ProcInv, MemInv
  <2>5. Live' = Live \ {current}
    BY <2>1, <2>2, <2>3, <2>4, FinishFacts
  <2>6. \A q \in Live \ {current} : at'[q] = "joining" => at[q] = "joining"
    BY <2>1, <2>3, FinishMoves DEF Live
  <2>7. /\ Unlinked(current) \in [Proc -> PCBType]
        /\ \A q \in Proc \ {current} : Unlinked(current)[q].pid = pcb[q].pid
    BY <2>3, UnlinkedFacts DEF ProcInv, TableInv
  <2>8. \A q \in Live \ {current} : pcb'[q].pid = pcb[q].pid
    BY <2>1, <2>7 DEF PCBType, Live
  <2> QED BY <2>1, <2>3, <2>5, <2>6, <2>8, JoinEnds
<1> QED BY <1>1, <1>2

LEMMA JoinKill ==
  ASSUME ProcInv, JoinInv, NEW pid, Kill(pid)
  PROVE  JoinInv'
<1> DEFINE p == GetProcess(pid)
<1>0. /\ pid \in pidMap /\ SchedInv /\ TableInv
  BY DEF Kill, ProcInv
<1>1. p \in Live /\ p \in Proc
  <2>1. PICK q \in Live : pid = pcb[q].pid
    BY <1>0 DEF TableInv, PidsAgree
  <2> QED BY <1>0, <2>1 DEF GetProcess, TableInv, PidsAgree, Live
<1>2. CASE Stop("undefined")
  BY <1>2, JoinStop
<1>3. CASE ~ Stop("undefined")
  <2>1. /\ pcb' = Unlinked(p) /\ Ends(p, Garbage)
        /\ life' = [life EXCEPT ![p] = "dead"]
        /\ at' = [at EXCEPT ![p] = "none"]
    BY <1>3 DEF Kill
  <2> HIDE DEF p
  <2>2. Live' = Live \ {p}
    BY <1>0, <1>1, <2>1 DEF Live, SchedInv
  <2>3. \A q \in Live \ {p} : pcb'[q].pid = pcb[q].pid
    <3>1. \A q \in Proc \ {p} : Unlinked(p)[q].pid = pcb[q].pid
      BY <1>0, <1>1, UnlinkedFacts DEF TableInv
    <3> QED BY <2>1, <3>1 DEF Live
  <2>4. \A q \in Live \ {p} : at'[q] = "joining" => at[q] = "joining"
    BY <1>0, <2>1 DEF SchedInv, Live
  <2>5. Garbage \in ExitValues
    BY DEF ExitValues
  <2> QED BY <1>1, <2>1, <2>2, <2>3, <2>4, <2>5, JoinEnds
<1> QED BY <1>2, <1>3

LEMMA JoinFork ==
  ASSUME ProcInv, JoinInv, NEW child \in Proc, Fork(child)
  PROVE  JoinInv'
<1> DEFINE pid == Find(1, pidMap, Pid)[1]
<1>1. /\ life[child] = "none"
      /\ pcb' = [pcb EXCEPT ![child] = NewPCB(pid, current),
                            ![current].children = Appended(@, child)]
      /\ life' = [life EXCEPT ![child] = "live"]
      /\ at' = [at EXCEPT ![child] = "fresh", ![current] = "forking"]
      /\ joining' = joining
  BY DEF Fork
<1> HIDE DEF pid
<1>2. /\ pcb \in [Proc -> PCBType] /\ at \in [Proc -> Where] /\ current \in Proc
      /\ life \in [Proc -> Lives]
  BY DEF ProcInv, SchedInv, TableInv
<1>3. Live' = Live \cup {child} /\ child \notin Live /\ Live \subseteq Proc
  BY <1>1, <1>2 DEF Live
<1>4. ASSUME NEW q \in Live PROVE pcb'[q].pid = pcb[q].pid
  <2>1. CASE q = current
    <3>1. pcb'[q] = [pcb[q] EXCEPT !.children = Appended(@, child)]
      BY <1>1, <1>2, <1>3, <2>1
    <3>2. pcb[q] \in PCBType
      BY <1>2, <1>3
    <3> HIDE <1>1
    <3> QED BY <3>1, <3>2 DEF PCBType
  <2>2. CASE q # current
    BY <1>1, <1>2, <1>3, <2>2
  <2> QED BY <2>1, <2>2
<1>5. \A q \in Live' : at'[q] = "joining" => q \in Live /\ at[q] = "joining"
  BY <1>1, <1>2, <1>3
<1>6. joining' \in [Proc -> JoinType]
  BY <1>1 DEF JoinInv
<1> QED BY <1>1, <1>3, <1>4, <1>5, <1>6, JoinStays

LEMMA JoinJoin ==
  ASSUME ProcInv, JoinInv, NEW pid, Join(pid)
  PROVE  JoinInv'
<1> DEFINE c == GetProcess(pid)
<1>0. /\ power = "running" /\ pid \in Pid /\ c \in Range(pcb[current].children.items)
      /\ joining' = [joining EXCEPT ![current] = [pid |-> pid, child |-> c, status |-> NULL]]
      /\ Yield("joining", Context(registers.of, "call"))
      /\ UNCHANGED <<pcb, pageTable, power, setup>>
      /\ SchedInv /\ CpuInv /\ TableInv /\ at[current] = "user"
  BY DEF Join, Invokes, ProcInv, memVars
<1>1. current \in Live /\ current \in Proc /\ "joining" \in Where
  BY <1>0 DEF SchedInv, Where
<1>2. c \in Live /\ c \in Proc
  BY <1>0, <1>1 DEF TableInv, Live
<1>3. pcb[c].pid = pid
  <2>1. c # NULL
    BY <1>2, ProcessesAssumption
  <2>2. pid \in pidMap /\ c = pcbTable[pid]
    BY <2>1 DEF GetProcess
  <2>3. PICK q \in Live : pcb[q].pid = pid
    BY <1>0, <2>2 DEF TableInv, PidsAgree
  <2> QED BY <1>0, <2>2, <2>3 DEF TableInv, PidsAgree
<1> HIDE DEF c
<1>4. Live' = Live
  BY <1>0, <1>1, YieldFacts
<1>5. \A q \in Proc \ {current} : at'[q] = "joining" => at[q] = "joining"
  BY <1>0, <1>1, YieldMoves
<1>6. /\ joining'[current] = [pid |-> pid, child |-> c, status |-> NULL]
      /\ \A q \in Proc \ {current} : joining'[q] = joining[q]
      /\ joining' = [q \in Proc |-> joining'[q]]
  BY <1>0, <1>1 DEF JoinInv
<1>7. joining'[current] \in JoinType /\ joining'[current].child = c /\ joining'[current].pid = pid
  <2>1. pid \in Int
    BY <1>0 DEF Pid
  <2> QED BY <1>2, <1>6, <2>1 DEF JoinType
<1>8. joining' \in [Proc -> JoinType]
  <2>1. \A q \in Proc : joining'[q] \in JoinType
    BY <1>6, <1>7 DEF JoinInv
  <2> QED BY <1>6, <2>1
<1>9. ASSUME NEW q \in Live', at'[q] = "joining"
      PROVE  \/ q \in Live /\ at[q] = "joining" /\ joining'[q] = joining[q]
             \/ joining'[q].child \in Live /\ pcb[joining'[q].child].pid = joining'[q].pid
  <2>1. CASE q = current
    BY <1>2, <1>3, <1>7, <2>1
  <2>2. CASE q # current
    BY <1>4, <1>5, <1>6, <1>9, <2>2 DEF Live
  <2> QED BY <2>1, <2>2
<1> QED BY <1>0, <1>4, <1>8, <1>9, JoinStays

LEMMA JoinNext ==
  ASSUME ProcInv, JoinInv, [ProcNext]_procVars
  PROVE  JoinInv'
<1> USE DEF schedVars, pcbVars, memVars, cpuVars
<1>a. ASSUME UNCHANGED <<life, at, pcb, joining>> PROVE JoinInv'
  BY <1>a, JoinSame DEF Live
<1>b. ASSUME UNCHANGED <<life, pcb, joining>>, at' = [at EXCEPT ![current] = "user"]
      PROVE JoinInv'
  <2>1. \A q \in Live : at'[q] = "joining" => at[q] = "joining"
    BY <1>b DEF Live, ProcInv, SchedInv
  <2> QED BY <1>b, <2>1, JoinSame DEF Live
<1>0. CASE UNCHANGED procVars
  BY <1>0, <1>a DEF procVars
<1>1. CASE ForkNoMemory \/ ForkNoPid \/ ExecMissing
  BY <1>1, <1>a DEF ForkNoMemory, ForkNoPid, ExecMissing
<1>2. CASE ResumeFork \/ Start \/ ResumeYield
  BY <1>2, <1>b DEF ResumeFork, Start, ResumeYield
<1>3. CASE JoinReturns
  <2>1. /\ at' = [at EXCEPT ![current] = "user"]
        /\ joining' = [joining EXCEPT ![current] = NotJoining]
        /\ UNCHANGED <<life, pcb>>
    BY <1>3 DEF JoinReturns
  <2>2. Live' = Live /\ current \in Proc /\ at \in [Proc -> Where]
    BY <2>1 DEF Live, ProcInv, SchedInv
  <2>3. joining' \in [Proc -> JoinType]
    BY <2>1, <2>2 DEF JoinInv, JoinType, NotJoining
  <2>4. \A q \in Live' : at'[q] = "joining" =>
          q \in Live /\ at[q] = "joining" /\ joining'[q] = joining[q]
    BY <2>1, <2>2 DEF JoinInv, Live
  <2> QED BY <2>1, <2>2, <2>3, <2>4, JoinStays
<1>4. CASE KernelSlice
  <2>1. at[current] \in Where
    BY <1>4 DEF KernelSlice, Where
  <2> QED BY <1>4, <2>1, JoinYield DEF KernelSlice
<1>5. CASE TimeSlice \/ YieldCall
  <2>1. "user" \in Where /\ "yielding" \in Where
    BY DEF Where
  <2> QED BY <1>5, <2>1, JoinYield DEF TimeSlice, YieldCall, Invokes
<1>6. CASE \E child \in Proc : Fork(child)
  BY <1>6, JoinFork
<1>7. CASE \E code \in Codes : Exit(code)
  BY <1>7, JoinExit DEF Exit, Invokes, ExitValues
<1>8. CASE \E pid \in PidArg : JoinNoChild(pid) \/ KillNobody(pid)
  BY <1>8, <1>a, JoinStop DEF JoinNoChild, KillNobody
<1>9. CASE \E pid \in PidArg : Join(pid)
  BY <1>9, JoinJoin
<1>10. CASE \E pid \in PidArg : Kill(pid)
  BY <1>10, JoinKill
<1>11. CASE JoinWaits
  <2>1. "joining" \in Where
    BY DEF Where
  <2> QED BY <1>11, <2>1, JoinYield DEF JoinWaits
<1>12. CASE KillSelf
  <2>1. pcb[current].pid \in ExitValues
    BY DEF ProcInv, SchedInv, TableInv, PCBType, ExitValues
  <2> QED BY <1>12, <2>1, JoinExit DEF KillSelf, Invokes
<1>13. CASE ExecUnrecognizable \/ HaltCall
  BY <1>13, JoinStop DEF ExecUnrecognizable, HaltCall
<1>14. CASE \E n \in Sizes : ExecTooBig(n) \/ Exec(n)
  BY <1>14, <1>a DEF ExecTooBig, Exec
<1>15. CASE Stopped
  BY <1>0, <1>15 DEF Stopped
<1> QED BY <1>0, <1>1, <1>2, <1>3, <1>4, <1>5, <1>6, <1>7, <1>8, <1>9, <1>10, <1>11, <1>12,
           <1>13, <1>14, <1>15 DEF ProcNext

(* Join returns only after the process it was called for has exited or was
   killed, also when its pid is in use again: the new holder of the pid keeps
   join waiting, and nothing else lets it return early (syscall.h:63).        *)
THEOREM JoinReturnsLate == ProcSpec => JoinedHasFinished
<1>1. ProcInit => JoinInv
  <2> SUFFICES ASSUME ProcInit PROVE JoinInv
    OBVIOUS
  <2>1. joining \in [Proc -> JoinType]
    BY DEF ProcInit, NotJoining, JoinType
  <2>2. \A q \in Live : at[q] # "joining"
    BY DEF ProcInit, Live
  <2> QED BY <2>1, <2>2 DEF JoinInv
<1>2. ProcInv /\ JoinInv /\ [ProcNext]_procVars =>
        [JoinReturns => joining[current].status # NULL]_procVars
  <2> SUFFICES ASSUME ProcInv, JoinInv, JoinReturns PROVE joining[current].status # NULL
    OBVIOUS
  <2>1. /\ power = "running" /\ at[current] = "joining"
        /\ GetProcess(joining[current].pid) = NULL
    BY DEF JoinReturns
  <2>2. current \in Live /\ Waits(current)
    BY <2>1 DEF ProcInv, SchedInv, JoinInv
  <2>3. ASSUME NEW c \in Live, pcb[c].pid = joining[current].pid PROVE FALSE
    <3>1. GetProcess(joining[current].pid) = c
      BY <2>3 DEF GetProcess, ProcInv, TableInv, PidsAgree
    <3> QED BY <2>1, <3>1, ProcessesAssumption DEF Live
  <2> QED BY <2>2, <2>3 DEF Waits
<1> QED BY <1>1, <1>2, InitHolds, NextKeeps, JoinNext, PTL DEF ProcSpec, JoinedHasFinished
-----------------------------------------------------------------------------
Points == {"none", "entry", "past entry", "func", "past func", "call", "on"}
ContextType == [of : Proc, pc : Points]

(* Without time slices: who runs has its own registers in the machine or, inside
   Fork and before it starts, saved; all others have them saved.                *)
ContextInv ==
  /\ registers \in ContextType
  /\ saved \in [Proc -> ContextType]
  /\ ~setup.slices =>
       /\ power = "running" =>
            /\ at[current] \in {"user", "yielding", "joining"} => registers.of = current
            /\ at[current] \in {"forking", "starting"} => saved[current].of = current
       /\ \A p \in Live \ {current} : saved[p].of = p

LEMMA ContextFacts ==
  /\ \A p \in Proc, pc \in Points : Context(p, pc) \in ContextType /\ Context(p, pc).of = p
  /\ \A c \in ContextType : Updated(c) \in ContextType /\ Updated(c).of = c.of
<1>1. ASSUME NEW p \in Proc, NEW pc \in Points
      PROVE  Context(p, pc) \in ContextType /\ Context(p, pc).of = p
  BY DEF Context, ContextType
<1>2. ASSUME NEW c \in ContextType PROVE Updated(c) \in ContextType /\ Updated(c).of = c.of
  <2> DEFINE pc == CASE c.pc = "entry" -> "past entry"
                     [] c.pc = "func"  -> "past func"
                     [] OTHER          -> "on"
  <2>1. Updated(c) = [c EXCEPT !.pc = pc]
    BY DEF Updated
  <2>2. pc \in Points
    BY DEF Points
  <2> HIDE DEF pc
  <2> QED BY <2>1, <2>2 DEF ContextType
<1> QED BY <1>1, <1>2

(* Yield with the caller's registers, in a kernel without time slices. *)
LEMMA ContextYield ==
  ASSUME ProcInv, ContextInv, power = "running", NEW place \in Where,
         NEW context \in ContextType, Yield(place, context),
         ~setup.slices => context.of = current,
         place \in {"user", "yielding", "joining"} \/ setup.slices,
         IsEmpty(ready) => at[current] # "starting",
         UNCHANGED <<setup, pageTable, power>>
  PROVE  ContextInv'
<1>0. /\ current \in Proc /\ at \in [Proc -> Where] /\ Live' = Live /\ Live \subseteq Proc
      /\ current \in Live
  BY YieldFacts DEF ProcInv, SchedInv, Live
<1>1. CASE IsEmpty(ready)
  <2>1. /\ registers' = context /\ at' = [at EXCEPT ![current] = place]
        /\ UNCHANGED <<current, saved>>
    BY <1>1 DEF Yield
  <2>2. at'[current] = place
    BY <1>0, <2>1
  <2> QED BY <1>0, <2>1, <2>2 DEF ContextInv
<1>2. CASE ~ IsEmpty(ready)
  <2> DEFINE next == Head(ready.items)
  <2>1. /\ saved' = [saved EXCEPT ![current] = context]
        /\ Run(next, doomed, life) /\ at' = Places(next, place)
    BY <1>2 DEF Yield
  <2>2. next \in Range(ready.items)
    BY <1>2, RemovedFacts DEF ProcInv, SchedInv
  <2>3. next \in Live /\ next \in Proc /\ next # current
    BY <2>2 DEF ProcInv, SchedInv, Live
  <2> HIDE DEF next
  <2>4. /\ current' = next
        /\ at'[next] = IF at[next] = "fresh" THEN "starting" ELSE at[next]
        /\ registers' = IF at[next] = "fresh" THEN registers ELSE saved[next]
    BY <1>0, <2>1, <2>3 DEF Run, Places
  <2>5. /\ saved' \in [Proc -> ContextType] /\ saved'[current] = context
        /\ \A q \in Proc \ {current} : saved'[q] = saved[q]
        /\ registers' \in ContextType
    BY <1>0, <2>1, <2>3, <2>4 DEF ContextInv
  <2>6. ASSUME ~setup.slices
        PROVE  /\ saved'[next].of = next
               /\ at[next] # "fresh" => registers'.of = next
               /\ \A q \in Live \ {next} : saved'[q].of = q
    BY <1>0, <2>3, <2>4, <2>5, <2>6 DEF ContextInv
  <2> QED BY <1>0, <2>4, <2>5, <2>6 DEF ContextInv
<1> QED BY <1>1, <1>2

LEMMA ContextStop ==
  ASSUME ContextInv, NEW how, how # "running", Stop(how)
  PROVE  ContextInv'
BY DEF ContextInv, Stop, schedVars, cpuVars, Live

LEMMA ContextExit ==
  ASSUME ProcInv, ContextInv, power = "running", NEW code, ExitWith(code)
  PROVE  ContextInv'
<1>1. CASE Stop("undefined")
  BY <1>1, ContextStop
<1>2. CASE ~ Stop("undefined")
  <2>1. ReleaseAll(current) /\ Finish
    BY <1>2 DEF ExitWith
  <2>2. /\ setup' = setup /\ current \in Proc /\ current \in Live /\ Live \subseteq Proc
        /\ at \in [Proc -> Where] /\ SchedInv
    BY <2>1 DEF Finish, ProcInv, SchedInv, Live
  <2>3. \A q \in Proc \ {current} : pageTable'[q] = pageTable[q]
    BY <2>1, <2>2 DEF ReleaseAll, ProcInv, MemInv
  <2>4. Live' = Live \ {current}
    BY <2>1, <2>2, <2>3, FinishFacts
  <2>5. CASE IsEmpty(ready)
    <3>1. power' = "idle" /\ UNCHANGED <<current, registers, saved>>
      BY <2>1, <2>5 DEF Finish, cpuVars
    <3> QED BY <2>2, <2>4, <3>1 DEF ContextInv
  <2>6. CASE ~ IsEmpty(ready)
    <3> DEFINE next == Head(ready.items)
               dying == [life EXCEPT ![current] = "dead"]
    <3>1. /\ saved' = [saved EXCEPT ![current] = Context(current, "none")]
          /\ Run(next, current, dying) /\ at' = Places(next, "none")
      BY <2>1, <2>6 DEF Finish
    <3>2. next \in Range(ready.items)
      BY <2>2, <2>6, RemovedFacts DEF SchedInv
    <3>3. next \in Live /\ next \in Proc /\ next # current
      BY <2>2, <3>2 DEF SchedInv, Live
    <3> HIDE DEF next, dying
    <3>4. /\ current' = next
          /\ at'[next] = IF at[next] = "fresh" THEN "starting" ELSE at[next]
          /\ registers' = IF at[next] = "fresh" THEN registers ELSE saved[next]
      BY <2>2, <3>1, <3>3 DEF Run, Places
    <3>5. Context(current, "none") \in ContextType
      BY <2>2, ContextFacts DEF Points
    <3>6. /\ saved' \in [Proc -> ContextType]
          /\ \A q \in Proc \ {current} : saved'[q] = saved[q]
          /\ registers' \in ContextType
      BY <2>2, <3>1, <3>3, <3>4, <3>5 DEF ContextInv
    <3>7. ASSUME ~setup.slices
          PROVE  /\ saved'[next].of = next
                 /\ at[next] # "fresh" => registers'.of = next
                 /\ \A q \in Live' \ {next} : saved'[q].of = q
      BY <2>2, <2>4, <3>3, <3>4, <3>6, <3>7 DEF ContextInv
    <3> QED BY <2>2, <3>4, <3>6, <3>7 DEF ContextInv
  <2> QED BY <2>5, <2>6
<1> QED BY <1>1, <1>2

LEMMA ContextKill ==
  ASSUME ProcInv, ContextInv, NEW pid, Kill(pid)
  PROVE  ContextInv'
<1> DEFINE p == GetProcess(pid)
<1>0. /\ pid \in pidMap /\ SchedInv /\ TableInv /\ pid # pcb[current].pid
      /\ power = "running" /\ at[current] = "user"
  BY DEF Kill, ProcInv, Invokes
<1>1. p \in Live /\ p \in Proc /\ p # current
  <2>1. PICK q \in Live : pid = pcb[q].pid
    BY <1>0 DEF TableInv, PidsAgree
  <2> QED BY <1>0, <2>1 DEF GetProcess, TableInv, PidsAgree, Live
<1>2. CASE Stop("undefined")
  BY <1>2, ContextStop
<1>3. CASE ~ Stop("undefined")
  <2>1. /\ life' = [life EXCEPT ![p] = "dead"]
        /\ at' = [at EXCEPT ![p] = "none"]
        /\ registers' = Context(registers.of, "on")
        /\ saved' = [saved EXCEPT ![p] = Context(p, "none")]
        /\ UNCHANGED <<current, power, setup>>
    BY <1>3 DEF Kill
  <2> HIDE DEF p
  <2>2. Live' = Live \ {p} /\ current \in Proc /\ at'[current] = at[current]
    BY <1>0, <1>1, <2>1 DEF Live, SchedInv
  <2>3. registers.of \in Proc
    BY DEF ContextInv, ContextType
  <2>4. /\ registers' \in ContextType /\ registers'.of = registers.of
        /\ Context(p, "none") \in ContextType
    BY <1>1, <2>1, <2>3, ContextFacts DEF Points
  <2>5. /\ saved' \in [Proc -> ContextType]
        /\ \A q \in Proc \ {p} : saved'[q] = saved[q]
    BY <1>1, <2>1, <2>4 DEF ContextInv
  <2>6. \A q \in Live' \ {current'} : q \in Live \ {current} /\ saved'[q] = saved[q]
    BY <2>1, <2>2, <2>5 DEF Live
  <2> QED BY <1>0, <2>1, <2>2, <2>4, <2>5, <2>6 DEF ContextInv
<1> QED BY <1>2, <1>3

LEMMA ContextFork ==
  ASSUME ProcInv, ContextInv, NEW child \in Proc, Fork(child)
  PROVE  ContextInv'
<1>1. /\ life[child] = "none" /\ power = "running" /\ at[current] = "user"
      /\ registers' = Context(child, "func")
      /\ saved' = [saved EXCEPT ![current] = Context(registers.of, "call"),
                                ![child] = Context(child, "func")]
      /\ life' = [life EXCEPT ![child] = "live"]
      /\ at' = [at EXCEPT ![child] = "fresh", ![current] = "forking"]
      /\ UNCHANGED <<current, power, setup>>
  BY DEF Fork, Invokes
<1>2. /\ current \in Proc /\ current \in Live /\ life \in [Proc -> Lives]
      /\ at \in [Proc -> Where] /\ registers.of \in Proc
  BY <1>1 DEF ProcInv, SchedInv, ContextInv, ContextType
<1>3. Live' = Live \cup {child} /\ child # current /\ at'[current] = "forking" /\ Live \subseteq Proc
  BY <1>1, <1>2 DEF Live
<1>4. /\ Context(registers.of, "call") \in ContextType
      /\ Context(registers.of, "call").of = registers.of
      /\ Context(child, "func") \in ContextType /\ Context(child, "func").of = child
  BY <1>2, ContextFacts DEF Points
<1>5. /\ saved' \in [Proc -> ContextType]
      /\ saved'[current].of = registers.of /\ saved'[child].of = child
      /\ \A q \in Proc \ {current, child} : saved'[q] = saved[q]
  BY <1>1, <1>2, <1>3, <1>4 DEF ContextInv
<1> HIDE DEF Context
<1>6. ASSUME ~setup.slices
      PROVE  saved'[current].of = current /\ \A q \in Live' \ {current} : saved'[q].of = q
  BY <1>1, <1>3, <1>5, <1>6 DEF ContextInv
<1> QED BY <1>1, <1>3, <1>4, <1>5, <1>6 DEF ContextInv

(* Steps of the running process that change at most its own registers. *)
LEMMA ContextOwn ==
  ASSUME ProcInv, ContextInv, power = "running",
         UNCHANGED <<setup, current, life, saved, power>>, registers' \in ContextType,
         at' = at \/ at' = [at EXCEPT ![current] = "user"],
         ~setup.slices => \/ registers'.of = current
                          \/ registers'.of = registers.of /\ at' = at
  PROVE  ContextInv'
<1>1. Live' = Live /\ current \in Proc /\ at \in [Proc -> Where]
  BY DEF Live, ProcInv, SchedInv
<1>2. CASE at' = at
  BY <1>1, <1>2 DEF ContextInv
<1>3. CASE at' = [at EXCEPT ![current] = "user"]
  <2>1. at'[current] = "user"
    BY <1>1, <1>3
  <2>2. ~setup.slices => \/ registers'.of = current
                         \/ registers'.of = registers.of /\ at[current] = "user"
    BY <1>1, <1>3, <2>1
  <2> QED BY <1>1, <2>1, <2>2 DEF ContextInv
<1> QED BY <1>2, <1>3

LEMMA ContextNext ==
  ASSUME ProcInv, ContextInv, [ProcNext]_procVars
  PROVE  ContextInv'
<1> USE DEF schedVars, pcbVars, memVars, cpuVars
<1>a. current \in Proc /\ registers \in ContextType /\ saved[current] \in ContextType
      /\ registers.of \in Proc
  BY DEF ProcInv, SchedInv, ContextInv, ContextType
<1>b. \A c \in ContextType : Updated(c) \in ContextType /\ Updated(c).of = c.of
  BY ContextFacts
<1>c. /\ Context(registers.of, "on") \in ContextType
      /\ Context(registers.of, "on").of = registers.of
      /\ Context(registers.of, "call") \in ContextType
      /\ Context(registers.of, "call").of = registers.of
      /\ Context(current, "entry") \in ContextType
      /\ Context(current, "entry").of = current
  BY <1>a, ContextFacts DEF Points
<1>d. "user" \in Where /\ "yielding" \in Where /\ "joining" \in Where
  BY DEF Where
<1>0. CASE UNCHANGED procVars
  BY <1>0 DEF procVars, ContextInv, Live
<1>1. CASE ForkNoMemory \/ ForkNoPid \/ ExecMissing
  BY <1>1, <1>c, ContextOwn DEF ForkNoMemory, ForkNoPid, ExecMissing, Invokes, Return
<1>2. CASE ResumeFork
  <2>1. ~setup.slices => Updated(saved[current]).of = current
    BY <1>2, <1>a, <1>b DEF ResumeFork, ContextInv
  <2> QED BY <1>2, <1>a, <1>b, <2>1, ContextOwn DEF ResumeFork
<1>3. CASE Start
  <2>1. ~setup.slices => saved[current].of = current
    BY <1>3 DEF Start, ContextInv
  <2> QED BY <1>3, <1>a, <2>1, ContextOwn DEF Start
<1>4. CASE ResumeYield \/ JoinReturns
  <2>1. ~setup.slices => Updated(registers).of = current
    BY <1>4, <1>a, <1>b DEF ResumeYield, JoinReturns, ContextInv
  <2> QED BY <1>4, <1>a, <1>b, <2>1, ContextOwn DEF ResumeYield, JoinReturns
<1>5. CASE KernelSlice
  <2>1. at[current] \in Where
    BY <1>5 DEF KernelSlice, Where
  <2> QED BY <1>5, <1>a, <2>1, ContextYield DEF KernelSlice
<1>6. CASE TimeSlice
  BY <1>6, <1>c, <1>d, ContextYield DEF TimeSlice
<1>7. CASE YieldCall
  <2>1. ~setup.slices => Context(registers.of, "call").of = current
    BY <1>7, <1>c DEF YieldCall, Invokes, ContextInv
  <2> QED BY <1>7, <1>c, <1>d, <2>1, ContextYield DEF YieldCall, Invokes
<1>8. CASE \E child \in Proc : Fork(child)
  BY <1>8, ContextFork
<1>9. CASE (\E code \in Codes : Exit(code)) \/ KillSelf
  BY <1>9, ContextExit DEF Exit, KillSelf, Invokes
<1>10. CASE \E pid \in PidArg : JoinNoChild(pid) \/ KillNobody(pid)
  <2>1. PICK pid \in PidArg : JoinNoChild(pid) \/ KillNobody(pid)
    BY <1>10
  <2>2. CASE Stop("aborted")
    BY <2>2, ContextStop
  <2>3. CASE ~ Stop("aborted")
    BY <1>c, <2>1, <2>3, ContextOwn DEF JoinNoChild, KillNobody, Invokes, Return
  <2> QED BY <2>2, <2>3
<1>11. CASE \E pid \in PidArg : Join(pid)
  <2>1. ~setup.slices => Context(registers.of, "call").of = current
    BY <1>11, <1>c DEF Join, Invokes, ContextInv
  <2> QED BY <1>11, <1>c, <1>d, <2>1, ContextYield DEF Join, Invokes
<1>12. CASE \E pid \in PidArg : Kill(pid)
  BY <1>12, ContextKill
<1>13. CASE JoinWaits
  <2>1. ~setup.slices => registers.of = current
    BY <1>13 DEF JoinWaits, ContextInv
  <2> QED BY <1>13, <1>a, <1>d, <2>1, ContextYield DEF JoinWaits
<1>14. CASE ExecUnrecognizable \/ HaltCall
  BY <1>14, ContextStop DEF ExecUnrecognizable, HaltCall
<1>15. CASE \E n \in Sizes : ExecTooBig(n)
  BY <1>15, <1>c, ContextOwn DEF ExecTooBig, Invokes, Return
<1>16. CASE \E n \in Sizes : Exec(n)
  <2>1. PICK n \in Sizes : Exec(n)
    BY <1>16
  <2>2. /\ registers' = Updated(Context(current, "entry")) /\ power = "running"
        /\ UNCHANGED <<setup, current, life, saved, power, at>>
    BY <2>1 DEF Exec, Invokes
  <2>3. registers' \in ContextType /\ registers'.of = current
    BY <1>b, <1>c, <2>2
  <2> QED BY <2>2, <2>3, ContextOwn
<1>17. CASE Stopped
  BY <1>0, <1>17 DEF Stopped
<1> QED BY <1>0, <1>1, <1>2, <1>3, <1>4, <1>5, <1>6, <1>7, <1>8, <1>9, <1>10, <1>11, <1>12,
           <1>13, <1>14, <1>15, <1>16, <1>17 DEF ProcNext

(* Without time slices a user program goes on with its own registers after Fork,
   Exec, Yield, Join and every switch.                                           *)
THEOREM ContextCorrect == ProcSpec => []OwnContextUnsliced
<1>1. ProcInit => ContextInv
  <2> SUFFICES ASSUME ProcInit PROVE ContextInv
    OBVIOUS
  <2>1. /\ current = Main /\ registers = Context(Main, "entry") /\ Live = {Main}
        /\ at = [p \in Proc |-> IF p = Main THEN "user" ELSE "none"]
        /\ saved = [p \in Proc |-> Context(p, "none")] /\ Main \in Proc
    BY ProcessesAssumption DEF ProcInit, Live
  <2>2. /\ \A p \in Proc : Context(p, "none") \in ContextType
        /\ Context(Main, "entry") \in ContextType /\ Context(Main, "entry").of = Main
    BY <2>1, ContextFacts DEF Points
  <2> QED BY <2>1, <2>2 DEF ContextInv
<1>2. ProcInv /\ ContextInv => OwnContextUnsliced
  BY DEF ContextInv, OwnContextUnsliced
<1> QED BY <1>1, <1>2, InitHolds, NextKeeps, ContextNext, PTL DEF ProcSpec
=============================================================================
