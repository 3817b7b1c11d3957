# Nachos in TLA+

A TLA+ model of the Nachos 3.4 system in `src/nachos-3.4/code`: the kernel, the
simulated machine and its devices, the file system, the post office, the test
programs and the object-file tools. It is checked with TLC on small instances;
what matters most about the scheduler, the synchronization objects, the processes,
the disk, the console, the post office and the elevator is proved with TLAPS for any number of
threads, processes, frames, sectors, mailboxes, floors and so on.

## The system

Nachos is a teaching operating system that runs as one Unix process. A simulated
machine (`machine/`) has a clock that only moves when the simulator says so, a
queue of interrupts that are due at some time, and devices (timer, disk, console,
network) that put interrupts on that queue. The kernel runs on it:

| part | source | how it interacts |
|---|---|---|
| threads, scheduler | `threads/thread.cc`, `scheduler.cc` | one ready list, one CPU; a thread gives the CPU up in `Yield`, `Sleep` or `Finish` |
| semaphores, locks, conditions | `threads/synch.cc` | sleep on a queue, made ready by another thread or by an interrupt handler |
| interrupts | `machine/interrupt.cc` | critical sections run with interrupts off; enabling them ticks the clock, which runs the handlers that are due and may end in a `Yield` |
| timer | `machine/timer.cc`, `threads/system.cc` | with `nachos -rs` asks for a `Yield` at random times |
| lists | `threads/list.cc`, `synchlist.cc` | every queue above; the synchronized list adds a lock and a condition |
| elevator, thread tests | `threads/elevator.cc`, `threadtest.cc` | programs on semaphores, run by `main` |
| processes | `userprog/exception.cc`, `pcb.cc`, `processmanager.cc` | system calls Fork, Exec, Join, Exit, Yield, Kill |
| memory | `userprog/memorymanager.cc`, `bitmap.cc`, `addrspace.cc` | frames of the machine given to processes |
| CPU | `machine/machine.cc`, `mipssim.cc`, `translate.cc` | runs user instructions, translates addresses, raises exceptions |
| disk, file system | `machine/disk.cc`, `filesys/` | `SynchDisk` waits for the disk's interrupt; directories, file headers and a bitmap on it |
| network, post office | `machine/network.cc`, `network/post.cc` | unreliable packets, mailboxes, a helper thread |
| console | `machine/console.cc`, `userprog/progtest.cc` | one character at a time each way; the echo loop |
| object-file tools | `bin/coff2noff.c`, `coff2flat.c`, `execute.c`, `main.c` | make the files that address spaces are loaded from; a second, stand-alone MIPS interpreter |

`PROJECT.json` lists all of them with their status, and the hazards of the code at
the lines where they bite.

Locks and conditions have two versions: the real one where `CHANGED` and `THREADS`
are defined (the threads and filesys builds), and one that does nothing (userprog,
network). Modules say which one they assume.

## Modules

| module | models |
|---|---|
| `Threads` | control blocks, ready list, `Fork`, `Yield`, `Sleep`, `Finish`, `Scheduler::Run`, the idle loop |
| `Synch` | semaphores, locks and conditions on top of `Threads`, and a device whose handler calls `V` |
| `Monitor` | what `synch.h` promises: the abstract specification `Synch` implements |
| `ListOps` | what the operations of class `List` do to the sequence of its items, a stale `last` included |
| `NachosList` | `list.cc` pointer by pointer, shown to do what `ListOps` says |
| `Processes` | the system calls Fork, Exec, Join, Exit, Yield, Kill and Halt on PCBs, pids, frames, page tables, registers and the ready list |
| `Loading` | object file to NOFF and flat file, and the frames of address spaces through load, Fork, Exec and Exit |
| `MipsWords`, `Mips` | machine words; decoding, execution, translation, memory and traps of the simulated CPU |
| `MipsExecute`, `MipsLockstep` | the stand-alone interpreter; both CPUs run side by side with device interrupts in between |
| `Devices` | the interrupt queue and the clock, timer, console with its echo loop, disk with `SynchDisk` |
| `FileSystem` | directory, bitmap, headers and open files on a disk, sector write by sector write, with crashes |
| `FileStore` | what the file system promises its client: the abstract specification `FileSystem` implements |
| `Post` | network device, post office, mailboxes (synchronized lists) and `MailTest` on several machines |
| `Elevator`, `ThreadTest` | `elevator.cc` and `threadtest.cc` |
| `Programs` | `main`'s choice of one of the last three, and the calls of `MailTest` |
| `ThreadsProofs`, `SynchProofs`, `ProcessesProofs`, `ReturnProofs`, `DevicesProofs`, `PostProofs`, `ElevatorProofs` | theorems and their proofs |
| `MC...` | instances for TLC |

### Threads

`currentThread`, `readyList`, `threadToBeDestroyed` and `status` are the variables
of the code. `life` says where a control block is in its life (`unused`, `fresh`
until `ThreadRoot` runs, `live`, `finished`), `idle` that `Interrupt::Idle` is
firing interrupts, `halted` that `Interrupt::Halt` was called.

One action is one stretch of code with interrupts off, because that is what the
single CPU executes without interruption. `Fork`, `Yield` and `Finish` are the
functions of those names. `Sleep(ts)` and `Wakeup(ts)` are the two shapes of a
critical section of `synch.cc`: it makes the threads of `ts` ready, and then does
or does not sleep. After `Sleep` or `Finish` the thread is still `currentThread`,
in the loop of `Thread::Sleep`: `Dispatch` is the loop finding a thread, and
`IdleWakeup` and `Halt` are `Interrupt::Idle`. A thread that resumes inside
`Scheduler::Run` deletes the carcass, a fresh one does not.

`Yield` is what a time slice does, and a thread may be interrupted wherever it
enables interrupts, so it is possible in every state in which a thread executes.

### Synch

`value`, `free`, `holder`, `queue` are the members of the classes. `inside[t]` is
the object in whose operation thread `t` is sleeping or has just been resumed,
`waitLock[t]` the lock its `Wait` has to take again, `pending` the devices that
will interrupt, `held` the locks a thread has acquired and not released (a
history of the calls, not read by the code; only the convention below uses it).
`P` and `Acquire` are one pass of their loops; a pass that sleeps is continued by
`ResumeP`, `ResumeAcquire`, `ResumeWait`. Between being switched to and that
continuation nothing else can happen, as in the code. `Lock::Lock` does not set
`holder`, so `SynchInit` lets it be anything.

`Conventional` says whether threads keep the convention of `synch.h` that only
the thread that acquired a lock releases it. `Release` by another thread takes
the first waiter off the queue and does not wake it, so some properties hold only
with the convention.

### Lists

`NachosList` has the pointers `first`, `last` and `next`, and a memory of cells in
which `new` may return any cell that is not allocated, a freed one included.
`TheList` reads the sequence of items off the pointers; `endKnown` says that
`last` points to the end of it. `RemoveElement` never sets `last`, so after it
removed the end of a list of several elements `endKnown` is false and `Append`
links its element to nothing. `ListOps` states this meaning once, as operators,
and `Processes` uses them for the ready list and the lists of children. The
constant `Uses` says which operations the user of each kind of list calls: no list of
the kernel mixes `RemoveElement` with the sorted operations. `Search` and `Mapcar`
only read: they are membership of, and a walk over, the items. A freed cell that
some other structure was given, and that `Append` then writes to, is beyond the
model.

### Processes

A process is a PCB, an address space and a thread; `life` is `dead` between the end
of the process and the deletion of its thread. `pcb`, `pidMap`, `pcbTable`, `used`
and `pageTable` are the data of `PCB`, `ProcessManager`, `MemoryManager` and
`AddrSpace`; bits and frames are taken first-fit as by `BitMap::Find`. A frame's
contents are the subject of `Loading`.

The registers are abstracted to whose execution they continue (`of`) and where the
program counter stands (`pc`): at the entry of a program, at the function of a
Fork, at a system call, after it, or one instruction past the entry or the
function. `update` moves the counter, `Scheduler::Run` saves and restores.

`at` is the place of a process in the kernel. The userprog build switches threads
only inside `Yield` and `Finish`; a system call is one action up to its first
`Yield`, and the rest of it a second one. With `slices` (`nachos -rs`) the timer
also switches after any user instruction (`TimeSlice`) and where the kernel enables
interrupts (`KernelSlice`): in `Thread::Fork`, at the end of `Yield` and when a new
thread starts. The programs make the system calls of `calls`, with any arguments and
in any order; pids range from -1 to one past the last. `slices`, `calls`, and the
numbers of pids and frames are fields of `setup`, which is chosen in the initial
state and never changes; one run thus covers several machines and workloads.

`power` becomes `idle` when `Finish` finds nothing to run, `halted` by the Halt call,
`aborted` by a failed `ASSERT`, and `undefined` when a deleted PCB is used through a
stale parent pointer: nothing is claimed about what follows. The fields `child` and
`status` of `joining` are history, for the properties of Join.

### Loading

An object file is a sequence of sections with their addresses; a byte is a value of its own, so one that
ends up in the wrong place is seen there. `ConvertSection` is the loop of `coff2noff`
with the files it refuses, `Flat` is `coff2flat`, and `load_program` of the interpreter
is the reference for what memory should hold (it puts a section at its address and gives up
on one that does not fit). `StartProcess`, `Fork`, `Replace` (Exec)
and `Release` change frames, bitmap and page tables as `addrspace.cc` does, `ReadFile`
piece by piece. `strayed` records that a piece was copied across the end of its frame:
from then on nothing is claimed, and the run `loading` does not look further.

### Machine

`Mips` is the CPU as a function from a machine record to the next one: `Decode`,
`OneInstruction` with its delayed load and delayed branch, `Translate` over a page table
or a TLB, `RaiseException`. Words are four bytes of `ByteBits` bits each, so that sign,
carry and alignment are those of the real machine at a size TLC can enumerate. An
instruction is a record of its fields; the packing into bits is left out. `MipsExecute`
is `runprogram` of `bin/execute.c`. `MipsLockstep` steps both. `Agreeable` excludes the
instructions on which one of the two departs from the instruction set (below) and
programs that use a register in the delay slot of its load.

### Devices

Time is relative to `totalTicks`: a pending interrupt holds the ticks left, `dial` is the
clock modulo one revolution of the disk. So the model needs no bound on time. A step of a
thread is one kernel call with interrupts off; enabling interrupts is a tick (`Tick`),
followed by `CheckIfDue` until nothing is due and by `OneTickDone`, which yields if the
timer asked for it. `Idle`, `IdleMore` and `IdleDone` are `Interrupt::Idle` with its rule
that a machine with nothing but a timer stops. `setup` says which threads main starts,
whether there is a timer, and what is typed.

### File system

An operation reads what it needs, works in memory and leaves in `todo` the sector writes it
still has to do, in the order of the code; `WriteSector` does one of them, and `Crash` may
come between any two. A restart opens the disk as it is. The directory takes two sectors
and one of its entries lies across them, as the seventh does in the code (entries of 20
bytes, sectors of 128). One client at a time, as `filesys.cc` assumes. `setup` tells apart
orderly use, use with crashes, and use of a file that is removed while it is open.
`WriteAt` has the code's conditions for reading the first and the last sector before they are
partly overwritten; bytes of its buffer that are neither read nor written are whatever the heap
holds (`uninit`). `FileStore` has named byte arrays, one open file, and writes that put the given
bytes in place front to back in pieces; the refinement mapping reads the files off directory,
bitmap and headers.

After a crash files are created, opened, written and removed as before. `victim` is the directory
entry that was being created or removed, and `spread` says that its file was then removed or
written where it shares a sector with another: the damage is no longer the victim's alone. When the header of a file has been overwritten, Open or Remove takes bytes for sector
numbers (`Misread`), and the behaviour ends there: what the code does next depends on those bytes.

### Programs

`Post`: the steps of a machine end where interrupts are enabled, that is at the end of each
call on a semaphore, lock or condition; machines interleave freely; the network loses
packets if `lossy`. `locks` tells the build with real locks from the default one, where they
are dummies and `Condition::Wait` fails an assertion. `Elevator`: a section under a semaphore
is one step, except where a thread holds one lock and waits for another. `heap` is what
`new int[size]` finds in the counters that are never cleared, cell by cell. Two floors are the
least: with one the elevator leaves past the ends of its arrays. `ThreadTest`: the ready list
decides who runs; a thread loses the processor by `Yield`, by sleeping or by a time slice, which
may come wherever interrupts are enabled: after each step, and also when a thread has just
started or resumed and has done nothing yet (`resuming`, `Resume`).

## Runs

| run | instance | shows |
|---|---|---|
| `threads` | 4 control blocks, with time slices | the ready list holds exactly the READY threads, once each; only finished threads are deleted, never the current one; a READY thread runs again, unless the machine halts |
| `synch` | 4 threads, 1 semaphore with device, 1 lock, 1 condition, value at most 2, convention kept | no lost wakeup, mutual exclusion, the machine halts only when nobody can go on, refinement of `Threads` and of `Monitor` |
| `list` | 4 cells, 3 items, 3 keys; a queue, a sorted list, and a list with RemoveElement | every operation on the pointers does what `ListOps` says (items, order, `last`), freed cells allocated again included |
| `processes` | 4 places, programs of 1 and 2 pages, the four setups `Mixed` | pids, frames and children exact; only live processes are ready; own page table; own registers (without slices); Join waits for the process it was called for |
| `loading` | 3 processes, 3 programs, 10 object files, 7 frames of 3 bytes | every process has its program's memory; a refused call changes nothing; the converters and the interpreter's loader agree |
| `machine` | 8-bit words, 4 frames of 8 bytes; see below | the two CPUs stay in step, a trapped instruction can be run again, what changes is marked dirty |
| `devices` | 2 threads with 2 disk requests each on 2 tracks of 3 sectors, or the echo loop; with and without timer | the interrupt queue is sorted and holds exactly what the devices owe; nobody gets another's completion; each character echoed once; latencies leave time for the sector to pass the head; everybody is served |
| `filesys` | 9 sectors of 2 bytes, 3 directory entries, 2 names (3 with crashes), interchangeable, files of 0 and 3 bytes, requests of 1 to 3 bytes | the bitmap is exact between operations; metadata is never overwritten; what a crash costs; without one, refinement of `FileStore` |
| `programs` | `MailTest` and 2 senders with 2 receivers on 2 machines; 3 people, 3 floors, capacity 2; 3 testers, 2 loops, with semaphores, locks or neither, the first two with and without time slices | mail arrives once and in order; one packet at a time; elevator counts exact; the final values are final; everybody is answered, arrives and prints |
| `load_stray`, `join_status`, `lost_thread` | as `loading`, `processes` | **violated** (below) |

Bounds. Four control blocks allow two sleepers, a thread that wakes them and a
barging fourth; they also let a block be deleted and used again while two others
finish. Value 2 (`MaxValue`) is needed for a second `V` before the first woken
thread runs. Objects do not interact, so one of each kind is enough, except
through the ready list and through `Wait`, which uses a lock and a condition. Four cells
let a list of three elements lose its end, and the freed cell be used for the next element.

In `Processes`, three frames allow a parent and two children, or a process of two
pages and one more; the fourth place lets a process be created while the thread of
a dead one is not deleted. Pids outnumber frames as in the code (10 pids; 32 frames
of which a program takes at least 9), so only the setup with two pids
and four frames reaches the Fork that finds no pid and loses the frames of its copy. One
exit code is enough where no property reads it; `join_status` has two. Exec and time slices
multiply the states, so their setup has two frames.

`Loading`: seven frames hold two programs and a copy in frames that are not adjacent; the
object files have each section `coff2noff` tells apart, alone and combined, with and without
gaps. `Mips`: every single instruction on operands at the boundaries of sign and carry,
accesses of every size and alignment through invalid, read-only and out-of-range entries of
page table and TLB, and all programs of three instructions from ten that load, store, branch
and jump, so that every pair of delays meets. `Devices`: the times are small numbers that
keep the order of the real ones and let a timer, a poll and a completion be due at the same
tick; two tracks and three sectors give requests with and without seek, before and behind
the head; time is relative, so the state space is finite without a bound on it. `FileSystem`: nine
sectors are exhausted by two files; a file of three bytes has a full and a partial sector, and
requests of up to three bytes start and end inside and at the ends of both. What is written is
told apart where a property reads it, in orderly use; elsewhere only where it goes matters.
`Programs`: two receivers on one box are needed for a stolen message, capacity two for a full
car with a third person at the door, two loops for a time slice between two updates.

Fairness. `threads` assumes weak fairness of `Yield` (the timer of `nachos -rs`:
without it a thread may keep the CPU for ever) and of `Dispatch`, which is straight-line
kernel code. `devices` assumes that the simulator goes on (weak fairness of `Next`) and that
`Random` does not draw the shortest time slice for ever (strong fairness of `LongSlice`:
a time slice of one tick would be spent on the switch itself). `programs` assumes weak
fairness of polls, completions, postal workers and clients, each a loop that the kernel's
first-in first-out ready list always comes back to; strong fairness of the elevator and of
each person, since the queue of lock `e` is first in, first out and the elevator yields after
each release. The thread test goes on (weak fairness), and its running thread takes its next
step again and again (strong fairness of `Proceed`): the intervals of the timer are random, so
threads are not cut off for ever each time before they do anything. No mail is assumed to arrive when the
network loses packets, and no thread to call an operation of `Synch`.

Deadlock is checked where the machine always has a next step or a halted state that
stutters (`Threads`, `Synch`, lists, `Processes`). In the other runs the system really stops:
programs end, traps and aborts are final, all requests are done.

Every property is also run against a mutant of the code (`PROJECT.json`,
"mutants"; the definitions marked "Mutant" in the modules) that breaks it.

### Findings

`List::RemoveElement` leaves `last` dangling when it removes the end of a list, and
the next `Append` is lost. Kill of the last thread on the ready list therefore makes
the next forked thread disappear (`lost_thread`), and the machine stops with its
process live. In the same way a parent that forks A and B, and forks C after B has
exited, does not have C among its children: Join of C returns -1, and if the parent
exits C keeps a pointer to its deleted PCB (`power` is `undefined` when it is used).

Join returns the last exit status of any child (`join_status`): two children that
exit before the parent runs leave one status.

`AddrSpace::ReadFile` copies what is left of a segment in one piece if it is shorter than a
page, also across the end of a frame (`load_stray`): after a fork and an exec the piece
lands in the frame of another process.

Modelled, and without a run of their own:

- `threadToBeDestroyed` is one slot. If A finishes, a thread B that never ran is switched to
  (it starts in `ThreadRoot`, which does not delete) and finishes too, A is never deleted,
  contrary to the comment of `Finish`. What is deleted is still always a finished thread.
- With time slices Fork can lose the registers of the parent, and the child its own: both are
  saved when the machine may hold those of another process. Hence `OwnContextUnsliced`.
- Exec counts its own system call after it has set the counter to 0, so that programs start at
  their second instruction, past the call of `main`.
- Exec of a file that is not an executable, and Kill or Join with a number that is no pid, fail
  an assertion (`aborted`). Exec refuses a program smaller than its caller, because the
  difference of the page counts is unsigned (`TooBig`).
- A Fork that finds no pid loses the frames of its copy (`FramesAccounted` therefore asks for
  as many pids as frames).
- The CPUs differ: the registers of `mipssim.cc` are unsigned, so SLT, SLTI, BGTZ, BLEZ, DIV and
  the right shifts treat negative numbers as large ones, and its OR is of `rs` with itself;
  `execute.c` drops the high word of a product, extends the sign of logical immediates, and has
  no correct unaligned loads and stores. `Agreeable` lists them.
- `coff2noff` refuses two uninitialised sections that follow each other and accepts two with a
  gap (`coff2noff.c:208` tests the opposite).
- In the default network build locks are dummies and `Condition::Wait` is an assertion that
  fails, so a Receive before its mail arrived stops the machine. `EveryoneDone` is about the
  build with locks.
- The elevator's counters are not initialised; a nonzero one keeps it going for ever
  (`CountsExact` has the offset). It leaves with semaphore `c` taken, so people who come after
  it stopped wait for ever; and somebody on the top floor who wants the top floor is never let
  go. `EveryoneArrives` excludes these three.
- With locks and a timer the thread test may print early: `threadtest.cc:84` compares with the
  threads that have started, so one that finishes its loops while the others are cut off before
  their first step sees everybody done. `FinalIsFinal` is about semaphores, with or without a
  timer, and about locks without one.
- After a crash during Create or Remove a file and the free map may disagree. As long as the file
  is not touched nothing else is damaged (`CrashDamage`); removing or writing it may damage the
  file that was given its sectors since.
- A character that equals `(char)EOF` is taken for an empty console buffer and can be overwritten.

## Proofs

`ThreadsProofs`, from `ThreadAssumption` (the threads are a finite set that has `Main` and
not `NULL`). The invariant `SchedInv` is the conjunction of `TypeOK`,
`ReadyListExact`, `StatusAgrees` and `CarcassIsDead`. None is inductive alone:
`Run` needs the head of the ready list to be READY and so not the carcass, and
the carcass to be BLOCKED and so not on the list. Lemmas about `Append`, `Tail`
and concatenation carry "each once" through the list operations; one lemma per
action follows. Proved: type correctness, `ReadyListExact`, `StatusAgrees`,
`CarcassIsDead`, and that only finished threads are deleted.

`SynchProofs`, also from `SynchAssumption` (objects of different kinds differ, initial
values are natural numbers, devices increment semaphores). The invariant `SynchInv` adds to
`SchedInv` and the type invariant:
a thread inside an operation is live and one in `Wait` knows its lock, every
queue holds sleepers of its object (all of them, with the convention),
`MutualExclusion`, `NoLostV` and `NoLostRelease`. `NoLostV` counts: the value is
at most the number of woken threads while others sleep; `V` adds one to both,
the end of `P` takes one from the value and at most one from the woken, and a
`P` that sleeps again has seen value zero. Each operation is also shown to be a
step of `Threads` (`ThreadsSimulated`), which gives the refinement theorem
`SynchImplementsThreads` and lets `SchedInv` be inherited instead of proved again.
`NothingLeftToRun` follows from the invariant and the fact that the machine halts
with an empty ready list.

`ProcessesProofs`, from `ProcessesAssumption` (finitely many places; `NULL` and `Garbage` are
nothing else; a program fits into the frames of an empty machine). The invariant `ProcInv` has
four parts: `SchedInv` here says that current and ready processes are live and that only a dead
thread waits for deletion; `TableInv` that pids and PCBs agree and that children lists lead to
live processes whose parent pointer leads back; `MemInv` that live processes have at least one
frame, share none, and that all their frames are marked; `CpuInv` that the machine translates
with the table of the running process once that has started. They need each other: Exit and Kill walk
the children, so the table must be right for the ready list to stay so, and Fork takes a pid
after it took frames. That no frame is lost with as many pids as frames is a counting argument:
every live process has a pid and at least one frame, so if a copy found its frames, some pid is
free. Proved: `PidsAgree`, `OnlyLiveRun`, `ChildrenAlive`, `FramesAccounted`, `TranslatesOwn`.

`ReturnProofs` adds two invariants on top. `JoinInv`: who waits in Join waits for a live process
with the pid asked for, or has been told how it ended; it gives `JoinedHasFinished`, also when
the pid is in use again. `ContextInv`: without slices the registers in the machine are those of
the running process or, inside Fork and before a new thread starts, its saved ones are, and
everybody else's are saved; it gives `OwnContextUnsliced`.

`DevicesProofs`, from `TimesAssumption` (times and sizes are positive) and `SetupsAssumption`
(`Nobody` is no thread, what is typed is a sequence). `CompletionIsOwn` is not inductive: it needs
that the queue never holds an interrupt of the disk when the disk is not active, and never two
(`Owed`), through every insertion, put-back and tick, and that no completion is left over when
the lock is free (`NothingLeftOver`). The lemmas on `Insert` follow the position of each interrupt.
It follows that `ASSERT(!active)` of a disk request never fails. `EchoExact` rests on `Buffered`: a
character is in the buffer as long as its `V` has not been answered by `GetChar`.

`PostProofs`, from `PlansAssumption` (programs are nonempty sequences of operations on existing
machines, and a reply follows a receive). `MailOnce` and `SendsPaced` need `PostInv`: the device's
buffer is full exactly when the postal worker has been told of a packet and has not fetched it
(`BufferOK`), so no packet is fetched twice or overwritten; the waiters of a mailbox are asleep
for it, once each (`WaitersOK`); and with locks a packet is with the device, or reported, exactly
while its sender waits (`PacedOK`). Both hold for any machines, mailboxes and programs, with
losses or without; `SendsPaced` is about the build with locks.

`ElevatorProofs`, from `FloorsAssumption` and `OutingsAssumption` (at least two floors, trips between
them). `CountsExact` needs that riders are waiting for a floor they did not start from, that `count` is the number of those who have
arrived, that the car does not set off beyond the ends, and that `c` stays taken only once the
elevator has stopped (`ElevatorInv`).

Only model-checked: the liveness properties (`ReadyRuns`, `EverythingServed`, `EveryoneDone`,
`EveryoneArrives`, `EveryonePrints`), since fairness is out of the prover's reach; the
refinements of `Monitor` and of `FileStore`; lists, loading, the CPUs, the file system, the
thread test, and the interrupt queue and the latencies of `Devices`. What a recursive computation
gives for every input (the CPUs' arithmetic and bit operations, the loops over sections and bytes)
cannot be proved by induction here.

## Not modelled

- Host I/O and debugging output (`sysdep.cc`, `utility.cc`), the assembly context switch
  (`switch.s`): the switch is what `Scheduler::Run` makes of it.
- Statistics, disassemblers, `Print`, `List` and dump functions, the C++ examples: they only print.
- The parsing of the command line; `main`'s effects are the initial states.
- Files of more than `NumDirect` sectors, which `FileHeader::Allocate` does not check for, and
  several clients of the file system at a time, which its comments exclude.
- The stand-alone interpreter's system calls on host files, its statistics and its histograms.
- The packing of bits and fields into words and of records into sectors; byte order.
- Open, Read, Write, Close and Create as system calls: they are empty in the code.
