------------------------------ MODULE Processes ------------------------------
(***************************************************************************)
(* The process system calls of userprog/exception.cc with the process      *)
(* control blocks, the pids, the physical frames and the page tables they  *)
(* maintain, and the saving and restoring of user registers by             *)
(* Scheduler::Run.                                                         *)
(*                                                                         *)
(* A process is a PCB, its AddrSpace and its Thread.  The kernel of the    *)
(* userprog build leaves the CPU only in Thread::Yield and Thread::Finish; *)
(* with time slices (nachos -rs) also where interrupts are enabled again:  *)
(* in Thread::Fork, at the end of Yield, and when a new thread starts.     *)
(* Locks do nothing in this build.  User programs make any of their system *)
(* calls at any time.                                                      *)
(***************************************************************************)
EXTENDS ListOps, Functions

CONSTANTS
  Proc,       \* places for processes (bounds how many are live or leaked)
  Main,       \* the process that StartProcess makes
  NULL, Garbage,
  Sizes,      \* page counts of the executables
  Codes,      \* exit codes
  Setups      \* kernels and programs, see Setup

Call == {"Fork", "Yield", "Exit", "Join", "Kill", "Exec", "Halt"}

(* The sizes of ProcessManager and MemoryManager, whether nachos runs with -rs,
   and the system calls that the programs make.                               *)
Setup == [numPids : Nat \ {0}, numFrames : Nat \ {0}, slices : BOOLEAN, calls : SUBSET Call]

ASSUME ProcessesAssumption ==
  /\ IsFiniteSet(Proc) /\ Main \in Proc /\ NULL \notin Proc /\ Garbage # NULL
  /\ Garbage \notin Proc /\ NULL \notin Codes /\ NULL \notin Int
  /\ Setups \subseteq Setup
  /\ Sizes # {} /\ \A s \in Setups : Sizes \subseteq 1..s.numFrames

VARIABLES
  setup,        \* the setup, which never changes
  current,      \* currentThread
  ready,        \* Scheduler::readyList
  doomed,       \* threadToBeDestroyed
  life,         \* of every process: none, live, dead (its Thread is not deleted)
  at,           \* where in the kernel a process is
  pcb,          \* the fields of its PCB
  joining,      \* the local variables of join, and who is awaited
  pidMap,       \* ProcessManager::map
  pcbTable,     \* ProcessManager::pcbTable
  used,         \* MemoryManager::virtMem
  pageTable,    \* the physical pages of each AddrSpace
  registers,    \* the machine's registers
  saved,        \* Thread::userRegisters
  translation,  \* Machine::pageTable
  power         \* running, halted, idle, aborted, undefined

schedVars  == <<current, ready, doomed, life, at>>
pcbVars    == <<pcb, joining, pidMap, pcbTable>>
memVars    == <<used, pageTable>>
cpuVars    == <<registers, saved, translation>>
procVars   == <<setup, schedVars, pcbVars, memVars, cpuVars, power>>

Live == {p \in Proc : life[p] = "live"}
Pid == 0..setup.numPids - 1
Frame == 0..setup.numFrames - 1
(* What programs pass to Join and Kill: pids, the -1 of a Fork that failed, and
   numbers too large.                                                         *)
PidArg == UNION {-1..s.numPids : s \in Setups}

(* The contents of the registers: whose execution they continue, and where: at the
   entry of a program or at the function of a Fork, one instruction past it, at a
   system call, after it, or nowhere yet.                                         *)
Context(p, place) == [of |-> p, pc |-> place]

(* PCB::PCB, with its pid and its parent set: childExitValue is not initialized. *)
NewPCB(pid, parent) ==
  [pid |-> pid, parent |-> parent, children |-> EmptyList, exitValue |-> Garbage]
NoPCB == NewPCB(-1, NULL)
NotJoining == [pid |-> -1, child |-> NULL, status |-> NULL]

(* The first n clear bits, as n calls of BitMap::Find return them. *)
Find(n, busy, all) ==
  LET clear == all \ busy
  IN  [i \in 1..n |-> CHOOSE f \in clear : Cardinality({g \in clear : g < f}) = i - 1]

NumClear == Cardinality(Frame \ used)

(* Mutant: the loop stops before the last page. *)
ReleaseOneShort(p) == used \ {pageTable[p][i] : i \in 1..Len(pageTable[p]) - 1}

(* AddrSpace::ReleasePhysicalMemory *)
ReleasePhysicalMemory(p) == used \ Range(pageTable[p])

(* StartProcess, up to machine->Run. *)
ProcInit ==
  /\ setup \in Setups
  /\ current = Main /\ ready = EmptyList /\ doomed = NULL
  /\ life = [p \in Proc |-> IF p = Main THEN "live" ELSE "none"]
  /\ at = [p \in Proc |-> IF p = Main THEN "user" ELSE "none"]
  /\ pcb = [p \in Proc |-> IF p = Main THEN NewPCB(0, NULL) ELSE NoPCB]
  /\ joining = [p \in Proc |-> NotJoining]
  /\ pidMap = {0}
  /\ pcbTable = [i \in Pid |-> IF i = 0 THEN Main ELSE Garbage]
  /\ \E n \in Sizes :
       /\ pageTable = [p \in Proc |-> IF p = Main THEN Find(n, {}, Frame) ELSE <<>>]
       /\ used = Range(Find(n, {}, Frame))
  /\ translation = pageTable[Main]
  /\ registers = Context(Main, "entry")
  /\ saved = [p \in Proc |-> Context(p, "none")]
  /\ power = "running"
-----------------------------------------------------------------------------
(* update: the program counter moves past one instruction. *)
Updated(context) ==
  [context EXCEPT !.pc = CASE @ = "entry" -> "past entry"
                           [] @ = "func"  -> "past func"
                           [] OTHER       -> "on"]

(* Mutant: threadToBeDestroyed is not reset. *)
RunKeepsDoomed(next, d, lf) ==
  /\ current' = next
  /\ doomed' = d
  /\ IF at[next] = "fresh"
     THEN life' = lf /\ UNCHANGED <<registers, translation>>
     ELSE /\ life' = [p \in Proc |-> IF p = d THEN "none" ELSE lf[p]]
          /\ registers' = saved[next]
          /\ translation' = pageTable[next]

(* Mutant: RestoreState is not called. *)
RunKeepsTranslation(next, d, lf) ==
  /\ current' = next
  /\ UNCHANGED translation
  /\ IF at[next] = "fresh"
     THEN doomed' = d /\ life' = lf /\ UNCHANGED registers
     ELSE /\ doomed' = NULL
          /\ life' = [p \in Proc |-> IF p = d THEN "none" ELSE lf[p]]
          /\ registers' = saved[next]

(* Scheduler::Run, when threadToBeDestroyed is d and the lives are as in lf.  A
   thread that runs for the first time begins in ThreadRoot; another one comes
   back from SWITCH, deletes the carcass and restores its registers.           *)
Run(next, d, lf) ==
  /\ current' = next
  /\ IF at[next] = "fresh"
     THEN doomed' = d /\ life' = lf /\ UNCHANGED <<registers, translation>>
     ELSE /\ doomed' = NULL
          /\ life' = [p \in Proc |-> IF p = d THEN "none" ELSE lf[p]]
          /\ registers' = saved[next]
          /\ translation' = pageTable[next]

(* Where the two threads of a switch are afterwards. *)
Places(next, place) ==
  [at EXCEPT ![current] = place, ![next] = IF @ = "fresh" THEN "starting" ELSE @]

(* Thread::Yield, called at place with context in the registers.  With nothing
   ready it returns at once.                                                 *)
Yield(place, context) ==
  \/ /\ IsEmpty(ready)
     /\ registers' = context
     /\ at' = [at EXCEPT ![current] = place]
     /\ UNCHANGED <<current, ready, doomed, life, saved, translation>>
  \/ /\ ~IsEmpty(ready)
     /\ LET next == Head(ready.items)
        IN  /\ ready' = Appended(Removed(ready), current)
            /\ saved' = [saved EXCEPT ![current] = context]
            /\ Run(next, doomed, life)
            /\ at' = Places(next, place)

(* Thread::Finish of the current thread. *)
Finish ==
  LET dying == [life EXCEPT ![current] = "dead"]
  IN  \/ /\ IsEmpty(ready)
         /\ power' = "idle"
         /\ life' = dying /\ doomed' = current
         /\ at' = [at EXCEPT ![current] = "none"]
         /\ UNCHANGED <<setup, current, ready, cpuVars>>
      \/ /\ ~IsEmpty(ready)
         /\ LET next == Head(ready.items)
            IN  /\ ready' = Removed(ready)
                /\ saved' = [saved EXCEPT ![current] = Context(current, "none")]
                /\ Run(next, current, dying)
                /\ at' = Places(next, "none")
         /\ UNCHANGED <<power, setup>>

(* A system call that the current process makes. *)
Invokes(call) == power = "running" /\ at[current] = "user" /\ call \in setup.calls

(* The call returns at once, with its result in r2. *)
Return ==
  /\ registers' = Context(registers.of, "on")
  /\ UNCHANGED <<saved, translation>>

(* ASSERT fails, or freed memory is used. *)
Stop(how) ==
  /\ power' = how
  /\ UNCHANGED <<setup, schedVars, pcbVars, memVars, cpuVars>>
-----------------------------------------------------------------------------
(* AddrSpace::copy returns NULL, or a copy in these frames. *)
CopyFails == Len(pageTable[current]) > NumClear
CopyFrames == Find(Len(pageTable[current]), used, Frame)

(* fork, step 2 on: there is no room for a copy of the address space. *)
ForkNoMemory ==
  /\ Invokes("Fork")
  /\ CopyFails
  /\ Return
  /\ UNCHANGED <<schedVars, pcbVars, memVars, power, setup>>

(* fork, step 4: no pid is left.  The frames of the copy stay marked. *)
ForkNoPid ==
  /\ Invokes("Fork")
  /\ ~CopyFails
  /\ pidMap = Pid
  /\ used' = used \cup Range(CopyFrames)
  /\ Return
  /\ UNCHANGED <<schedVars, pcbVars, pageTable, power, setup>>

(* fork, steps 1 to 7.  The registers hold those of the child when Thread::Fork
   enables interrupts.                                                         *)
Fork(child) ==
  /\ Invokes("Fork")
  /\ life[child] = "none"
  /\ ~CopyFails
  /\ pidMap # Pid
  /\ LET frames == CopyFrames
         pid    == Find(1, pidMap, Pid)[1]
     IN  /\ used' = used \cup Range(frames)
         /\ pageTable' = [pageTable EXCEPT ![child] = frames]
         /\ pidMap' = pidMap \cup {pid}
         /\ pcbTable' = [pcbTable EXCEPT ![pid] = child]
         /\ pcb' = [pcb EXCEPT ![child] = NewPCB(pid, current),
                               ![current].children = Appended(@, child)]
  /\ registers' = Context(child, "func")
  /\ saved' = [saved EXCEPT ![current] = Context(registers.of, "call"), ![child] = registers']
  /\ ready' = Appended(ready, child)
  /\ life' = [life EXCEPT ![child] = "live"]
  /\ at' = [at EXCEPT ![child] = "fresh", ![current] = "forking"]
  /\ UNCHANGED <<current, doomed, joining, translation, power, setup>>

(* Mutant: the registers are not restored. *)
ResumeForkUnrestored ==
  /\ power = "running" /\ at[current] = "forking"
  /\ registers' = Updated(registers)
  /\ at' = [at EXCEPT ![current] = "user"]
  /\ UNCHANGED <<current, ready, doomed, life, pcbVars, memVars, saved, translation, power, setup>>

(* fork, steps 8 to 10. *)
ResumeFork ==
  /\ power = "running" /\ at[current] = "forking"
  /\ registers' = Updated(saved[current])
  /\ at' = [at EXCEPT ![current] = "user"]
  /\ UNCHANGED <<current, ready, doomed, life, pcbVars, memVars, saved, translation, power, setup>>

(* dummy, where a forked thread starts. *)
Start ==
  /\ power = "running" /\ at[current] = "starting"
  /\ registers' = saved[current]
  /\ translation' = pageTable[current]
  /\ at' = [at EXCEPT ![current] = "user"]
  /\ UNCHANGED <<current, ready, doomed, life, pcbVars, memVars, saved, power, setup>>

(* Interrupts are enabled again inside the kernel and the timer has fired. *)
KernelSlice ==
  /\ power = "running" /\ setup.slices
  /\ at[current] \in {"forking", "yielding", "joining", "starting"}
  /\ ~IsEmpty(ready)
  /\ Yield(at[current], registers)
  /\ UNCHANGED <<pcbVars, memVars, power, setup>>

(* The timer fires after a user instruction. *)
TimeSlice ==
  /\ power = "running" /\ setup.slices
  /\ at[current] = "user"
  /\ ~IsEmpty(ready)
  /\ Yield("user", Context(registers.of, "on"))
  /\ UNCHANGED <<pcbVars, memVars, power, setup>>

(* yield *)
YieldCall ==
  /\ Invokes("Yield")
  /\ Yield("yielding", Context(registers.of, "call"))
  /\ UNCHANGED <<pcbVars, memVars, power, setup>>

ResumeYield ==
  /\ power = "running" /\ at[current] = "yielding"
  /\ registers' = Updated(registers)
  /\ at' = [at EXCEPT ![current] = "user"]
  /\ UNCHANGED <<current, ready, doomed, life, pcbVars, memVars, saved, translation, power, setup>>
-----------------------------------------------------------------------------
(* Mutant: the parent keeps p on its list. *)
UnlinkedFromChildren(p) ==
  LET children == Range(pcb[p].children.items)
  IN  [q \in Proc |->
         IF q = p THEN NoPCB
         ELSE [pcb[q] EXCEPT !.parent = IF q \in children THEN NULL ELSE @]]

(* The PCBs after the children of p are told that they have no parent, and p is
   off the list of its own parent.                                            *)
Unlinked(p) ==
  LET children == Range(pcb[p].children.items)
  IN  [q \in Proc |->
         IF q = p THEN NoPCB
         ELSE [pcb[q] EXCEPT
                 !.parent = IF q \in children THEN NULL ELSE @,
                 !.children = IF q = pcb[p].parent THEN RemovedElement(@, {p}) ELSE @]]

(* The parent pointer leads to a PCB that was deleted. *)
ParentGone(p) == pcb[p].parent \in Proc \ Live

(* Mutant: the bit of the pid stays set. *)
ReleaseKeepsPid(p) ==
  /\ UNCHANGED pidMap
  /\ pcbTable' = [pcbTable EXCEPT ![pcb[p].pid] = NULL]
  /\ used' = ReleasePhysicalMemory(p)
  /\ pageTable' = [pageTable EXCEPT ![p] = <<>>]

(* removePCB, clearPID, ReleasePhysicalMemory, and the deletion of the space. *)
ReleaseAll(p) ==
  /\ pidMap' = pidMap \ {pcb[p].pid}
  /\ pcbTable' = [pcbTable EXCEPT ![pcb[p].pid] = NULL]
  /\ used' = ReleasePhysicalMemory(p)
  /\ pageTable' = [pageTable EXCEPT ![p] = <<>>]

(* History: who waits for p learns how it ended; p itself no longer waits. *)
Ends(p, how) ==
  joining' = [q \in Proc |->
                IF q = p THEN NotJoining
                ELSE IF joining[q].child = p THEN [joining[q] EXCEPT !.child = NULL, !.status = how]
                ELSE joining[q]]

(* exit with a code. *)
ExitWith(code) ==
  \/ ParentGone(current) /\ Stop("undefined")
  \/ /\ ~ParentGone(current)
     /\ LET parent == pcb[current].parent
        IN  pcb' = [q \in Proc |->
                      IF q = parent THEN [Unlinked(current)[q] EXCEPT !.exitValue = code]
                                    ELSE Unlinked(current)[q]]
     /\ ReleaseAll(current)
     /\ Ends(current, code)
     /\ Finish

Exit(code) == Invokes("Exit") /\ ExitWith(code)

(* ProcessManager::getProcess; BitMap::Test asserts that pid is in range. *)
GetProcess(pid) == IF pid \in pidMap THEN pcbTable[pid] ELSE NULL

(* join, when it returns -1 or fails in getProcess. *)
JoinNoChild(pid) ==
  /\ Invokes("Join")
  /\ \/ /\ pid >= setup.numPids
        /\ Stop("aborted")
     \/ /\ pid < setup.numPids
        /\ pid < 0 \/ GetProcess(pid) \notin Range(pcb[current].children.items)
        /\ Return
        /\ UNCHANGED <<schedVars, pcbVars, memVars, power, setup>>

(* join of a child, up to the first Yield. *)
Join(pid) ==
  /\ Invokes("Join")
  /\ pid \in Pid
  /\ GetProcess(pid) \in Range(pcb[current].children.items)
  /\ joining' = [joining EXCEPT ![current] =
                   [pid |-> pid, child |-> GetProcess(pid), status |-> NULL]]
  /\ Yield("joining", Context(registers.of, "call"))
  /\ UNCHANGED <<pcb, pidMap, pcbTable, memVars, power, setup>>

(* The loop of join tests again and yields again. *)
JoinWaits ==
  /\ power = "running" /\ at[current] = "joining"
  /\ GetProcess(joining[current].pid) # NULL
  /\ Yield("joining", registers)
  /\ UNCHANGED <<pcbVars, memVars, power, setup>>

(* Mutant: join does not test again after its Yield. *)
JoinYieldsOnce ==
  /\ power = "running" /\ at[current] = "joining"
  /\ registers' = Updated(registers)
  /\ at' = [at EXCEPT ![current] = "user"]
  /\ joining' = [joining EXCEPT ![current] = NotJoining]
  /\ UNCHANGED <<current, ready, doomed, life, pcb, pidMap, pcbTable, memVars, saved,
                 translation, power, setup>>

(* join returns the childExitValue of the caller. *)
JoinReturns ==
  /\ power = "running" /\ at[current] = "joining"
  /\ GetProcess(joining[current].pid) = NULL
  /\ registers' = Updated(registers)
  /\ at' = [at EXCEPT ![current] = "user"]
  /\ joining' = [joining EXCEPT ![current] = NotJoining]
  /\ UNCHANGED <<current, ready, doomed, life, pcb, pidMap, pcbTable, memVars, saved,
                 translation, power, setup>>
-----------------------------------------------------------------------------
(* kill of a pid that is not in use, or not a pid. *)
KillNobody(pid) ==
  /\ Invokes("Kill")
  /\ \/ pid \notin Pid /\ Stop("aborted")
     \/ /\ pid \in Pid /\ GetProcess(pid) = NULL
        /\ Return
        /\ UNCHANGED <<schedVars, pcbVars, memVars, power, setup>>

(* kill of the caller; r4 holds its pid, which becomes the exit code. *)
KillSelf ==
  /\ Invokes("Kill")
  /\ ExitWith(pcb[current].pid)

(* Scheduler::Remove *)
SchedulerRemove(p) ==
  ready' = RemovedElement(ready, {p}) /\ doomed' = p

(* kill of another process, with Scheduler::Remove. *)
Kill(pid) ==
  /\ Invokes("Kill")
  /\ pid \in pidMap /\ pid # pcb[current].pid
  /\ LET p == GetProcess(pid)
     IN  \/ ParentGone(p) /\ Stop("undefined")
         \/ /\ ~ParentGone(p)
            /\ pcb' = Unlinked(p)
            /\ ReleaseAll(p)
            /\ Ends(p, Garbage)
            /\ SchedulerRemove(p)
            /\ life' = [life EXCEPT ![p] = "dead"]
            /\ at' = [at EXCEPT ![p] = "none"]
            /\ registers' = Context(registers.of, "on")
            /\ saved' = [saved EXCEPT ![p] = Context(p, "none")]
            /\ UNCHANGED <<current, translation, power, setup>>
-----------------------------------------------------------------------------
(* exec of a file that does not exist. *)
ExecMissing ==
  /\ Invokes("Exec")
  /\ Return
  /\ UNCHANGED <<schedVars, pcbVars, memVars, power, setup>>

(* exec of a file that is not an executable: ASSERT in AddrSpace::Replace. *)
ExecUnrecognizable == Invokes("Exec") /\ Stop("aborted")

(* newNumPages - numPages > getFree(): the difference is unsigned, so a negative
   one is larger than any number of frames.                                    *)
TooBig(n) ==
  \/ n < Len(pageTable[current])
  \/ n - Len(pageTable[current]) > NumClear

ExecTooBig(n) ==
  /\ Invokes("Exec")
  /\ TooBig(n)
  /\ Return
  /\ UNCHANGED <<schedVars, pcbVars, memVars, power, setup>>

(* exec of an executable with n pages; InitRegisters, then update. *)
Exec(n) ==
  /\ Invokes("Exec")
  /\ ~TooBig(n)
  /\ LET others == ReleasePhysicalMemory(current)
         frames == Find(n, others, Frame)
     IN  /\ used' = others \cup Range(frames)
         /\ pageTable' = [pageTable EXCEPT ![current] = frames]
         /\ translation' = frames
  /\ registers' = Updated(Context(current, "entry"))
  /\ UNCHANGED <<schedVars, pcbVars, saved, power, setup>>

(* Any other system call: Interrupt::Halt. *)
HaltCall == Invokes("Halt") /\ Stop("halted")

Stopped == power # "running" /\ UNCHANGED procVars

ProcNext ==
  \/ ForkNoMemory \/ ForkNoPid \/ ResumeFork \/ Start
  \/ KernelSlice \/ TimeSlice \/ YieldCall \/ ResumeYield
  \/ \E child \in Proc : Fork(child)
  \/ \E code \in Codes : Exit(code)
  \/ \E pid \in PidArg : JoinNoChild(pid) \/ Join(pid) \/ KillNobody(pid) \/ Kill(pid)
  \/ JoinWaits \/ JoinReturns \/ KillSelf
  \/ ExecMissing \/ ExecUnrecognizable
  \/ \E n \in Sizes : ExecTooBig(n) \/ Exec(n)
  \/ HaltCall \/ Stopped

ProcSpec == ProcInit /\ [][ProcNext]_procVars
-----------------------------------------------------------------------------
(* ProcessManager's bitmap and table describe the live processes: every live
   process is found under its own pid, no pid is marked for nobody, and
   getProcess never returns an entry of the table that was not written.      *)
PidsAgree ==
  /\ pidMap = {pcb[p].pid : p \in Live}
  /\ \A p \in Live : pcbTable[pcb[p].pid] = p

(* Fork, Exec, Exit and Kill keep the memory of processes apart: no frame is in
   two page tables or twice in one, and MemoryManager has every one marked.  And
   no frame is lost, as long as there are pids for all processes that the memory
   has room for: what MemoryManager has marked some live process maps.         *)
FramesAccounted ==
  /\ \A p \in Live : Range(pageTable[p]) \subseteq used
  /\ \A p, q \in Live : \A i \in DOMAIN pageTable[p], j \in DOMAIN pageTable[q] :
       pageTable[p][i] = pageTable[q][j] => p = q /\ i = j
  /\ setup.numPids >= setup.numFrames =>
       used = UNION {Range(pageTable[p]) : p \in Live}

(* The list of children that Exit and Join walk holds only live processes, each
   once, whose parent pointer leads back: Mapcar(nullParent) in exit writes to
   no freed PCB.                                                              *)
ChildrenAlive ==
  \A p \in Live : LET c == pcb[p].children.items
                  IN  /\ \A i \in DOMAIN c : c[i] \in Live /\ pcb[c[i]].parent = p
                      /\ \A i, j \in DOMAIN c : c[i] = c[j] => i = j

(* Exit and Kill take a thread out of circulation before it is deleted: the
   ready list holds live processes other than the current one, each once, and
   threadToBeDestroyed is a thread that exited or was killed, never one that
   Scheduler::Run can still switch to.                                        *)
OnlyLiveRun ==
  /\ doomed # NULL => life[doomed] = "dead"
  /\ power = "running" =>
       /\ Range(ready.items) \subseteq Live \ {current}
       /\ \A i, j \in DOMAIN ready.items : ready.items[i] = ready.items[j] => i = j

(* While a user program runs, the machine translates with its page table, also
   after exec replaced it and after a switch to a new thread.                 *)
TranslatesOwn ==
  power = "running" /\ at[current] = "user" => translation = pageTable[current]

(* Without time slices a user program always goes on with its own registers,
   after Fork and after every switch.                                        *)
OwnContextUnsliced ==
  ~setup.slices /\ power = "running" /\ at[current] = "user" => registers.of = current

(* Join returns only after the process it was called for has finished, though
   the pid may be in use again by then (syscall.h:63).                       *)
JoinedHasFinished == [][JoinReturns => joining[current].status # NULL]_procVars
-----------------------------------------------------------------------------
(* "Only return once the the user program "id" has finished.  Return the exit
   status." (syscall.h:63)                                                   *)
JoinReturnsStatus ==
  [][JoinReturns => pcb[current].exitValue = joining[current].status]_procVars

(* Interrupt::Idle stops the machine "Assuming the program completed."
   (interrupt.cc:232): every process has exited or was killed.        *)
IdleMeansDone == power = "idle" => Live = {}
=============================================================================
