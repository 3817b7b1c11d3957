-------------------------------- MODULE Synch --------------------------------
(***************************************************************************)
(* The synchronization objects of threads/synch.cc (semaphores, locks and  *)
(* condition variables, as built with CHANGED and THREADS), on top of the  *)
(* scheduler of module Threads, used by threads that may call any of their *)
(* operations in any order, and by device interrupt handlers that call     *)
(* Semaphore::V.                                                           *)
(*                                                                         *)
(* Interrupts are disabled inside an operation, so each operation is one   *)
(* step up to its end or to its call of Thread::Sleep; a thread that has   *)
(* slept resumes inside the operation, in a step of its own.  Interrupts   *)
(* and time slices come at the end of an operation, when SetLevel enables  *)
(* interrupts again and calls OneTick: in the model, while the current     *)
(* thread is outside every operation.                                      *)
(***************************************************************************)
EXTENDS Threads

CONSTANTS
  Sem, Lock, Cond,   \* the objects
  InitialValue,      \* the initial value of the semaphores
  MaxValue,          \* bound: V is not called on a semaphore of this value
  Device,            \* the semaphores that interrupt handlers increment
  Conventional       \* threads release, and wait with, only locks they hold

Object == Sem \cup Lock \cup Cond

(* A thread is outside every operation; a name that is not an Object. *)
Outside == "outside"

ASSUME SynchAssumption ==
  /\ Sem \cap Lock = {} /\ Sem \cap Cond = {} /\ Lock \cap Cond = {}
  /\ Outside \notin Object
  /\ InitialValue \in [Sem -> Nat]
  /\ MaxValue \in Nat
  /\ Device \subseteq Sem
  /\ Conventional \in BOOLEAN

VARIABLES
  value,    \* Semaphore::value
  free,     \* Lock::free
  holder,   \* Lock::holder
  queue,    \* the queue of every object, front first
  inside,   \* the object whose P, Acquire or Wait a thread is in, or Outside
  waitLock, \* the conditionLock of a thread in Condition::Wait, or NULL
  pending,  \* the devices that have an interrupt scheduled
  held      \* history: the locks whose Acquire or Wait returned to a thread,
            \* and that it has not released since

synchVars == <<value, free, holder, queue, inside, waitLock, pending, held>>
vars == <<threadVars, synchVars>>

(* A semaphore's value is "always >= 0" (synch.h), though it is an int, and only
   threads sleep in the queues of semaphores, locks and conditions.          *)
SynchTypeOK ==
  /\ TypeOK
  /\ value \in [Sem -> Nat]
  /\ free \in [Lock -> BOOLEAN]
  /\ holder \in [Lock -> Thread \cup {NULL}]
  /\ queue \in [Object -> Seq(Thread)]
  /\ inside \in [Thread -> Object \cup {Outside}]
  /\ waitLock \in [Thread -> Lock \cup {NULL}]
  /\ pending \subseteq Device
  /\ held \in [Thread -> SUBSET Lock]

(* The constructors; Lock::Lock leaves holder uninitialized. *)
SynchInit ==
  /\ value = InitialValue
  /\ free = [l \in Lock |-> TRUE]
  /\ holder \in [Lock -> Thread \cup {NULL}]
  /\ queue = [o \in Object |-> <<>>]
  /\ inside = [t \in Thread |-> Outside]
  /\ waitLock = [t \in Thread |-> NULL]
  /\ pending = {}
  /\ held = [t \in Thread |-> {}]

Init == ThreadsInit /\ SynchInit
-----------------------------------------------------------------------------
self == currentThread

(* The current thread runs outside the operations: it may call one. *)
InClient == Executing /\ inside[self] = Outside

(* The current thread has been woken and switched to inside an operation. *)
Resumed(o) == Executing /\ inside[self] = o

(* List::Remove: what it returns, as a sequence, and what it leaves. *)
First(q) == IF q = <<>> THEN <<>> ELSE <<Head(q)>>
Rest(q) == IF q = <<>> THEN <<>> ELSE Tail(q)

(* Mutant: the thread sleeps without having appended itself. *)
SleepOnNothing(o, q, ts) ==
  /\ queue' = q
  /\ inside' = [inside EXCEPT ![self] = o]
  /\ Sleep(ts)

(* queue->Append(currentThread); currentThread->Sleep(), in an operation of o
   that has made the threads of ts ready.  The value of q is that of queue. *)
SleepOn(o, q, ts) ==
  /\ queue' = [q EXCEPT ![o] = Append(@, self)]
  /\ inside' = [inside EXCEPT ![self] = o]
  /\ Sleep(ts)

(* The end of an operation that wakes nobody. *)
Return ==
  /\ inside' = [inside EXCEPT ![self] = Outside]
  /\ UNCHANGED <<threadVars, queue>>
-----------------------------------------------------------------------------
(* Semaphore::P: one pass of its loop. *)
PLoop(s) ==
  /\ \/ value[s] = 0 /\ SleepOn(s, queue, <<>>) /\ UNCHANGED value
     \/ value[s] > 0 /\ Return /\ value' = [value EXCEPT ![s] = @ - 1]
  /\ UNCHANGED <<free, holder, waitLock, pending, held>>

P(s) == InClient /\ PLoop(s)
ResumeP(s) == Resumed(s) /\ PLoop(s)

(* An interrupt that is already scheduled will also increment s. *)
Room(s) == value[s] + (IF s \in pending THEN 1 ELSE 0) < MaxValue

(* Semaphore::V, apart from what it does to the threads. *)
Increment(s) ==
  /\ value' = [value EXCEPT ![s] = @ + 1]
  /\ queue' = [queue EXCEPT ![s] = Rest(@)]
  /\ UNCHANGED <<free, holder, inside, waitLock, held>>

(* Mutant: V wakes a thread only if the value was zero. *)
VWakesAtZero(s) ==
  /\ InClient
  /\ Room(s)
  /\ value' = [value EXCEPT ![s] = @ + 1]
  /\ IF value[s] = 0
     THEN Wakeup(First(queue[s])) /\ queue' = [queue EXCEPT ![s] = Rest(@)]
     ELSE UNCHANGED <<threadVars, queue>>
  /\ UNCHANGED <<free, holder, inside, waitLock, pending, held>>

V(s) ==
  /\ InClient
  /\ Room(s)
  /\ Wakeup(First(queue[s]))
  /\ Increment(s)
  /\ UNCHANGED pending
-----------------------------------------------------------------------------
(* Mutant: Acquire tests free once, with if instead of while. *)
AcquireTestsOnce(l) ==
  /\ \/ /\ inside[self] # l /\ ~free[l]
        /\ SleepOn(l, queue, <<>>)
        /\ UNCHANGED <<free, holder, waitLock, held>>
     \/ /\ inside[self] = l \/ free[l]
        /\ Return
        /\ free' = [free EXCEPT ![l] = FALSE]
        /\ holder' = [holder EXCEPT ![l] = self]
        /\ waitLock' = [waitLock EXCEPT ![self] = NULL]
        /\ held' = [held EXCEPT ![self] = @ \cup {l}]
  /\ UNCHANGED <<value, pending>>

(* Lock::Acquire: one pass of its loop. *)
AcquireLoop(l) ==
  /\ \/ /\ ~free[l]
        /\ SleepOn(l, queue, <<>>)
        /\ UNCHANGED <<free, holder, waitLock, held>>
     \/ /\ free[l]
        /\ Return
        /\ free' = [free EXCEPT ![l] = FALSE]
        /\ holder' = [holder EXCEPT ![l] = self]
        /\ waitLock' = [waitLock EXCEPT ![self] = NULL]
        /\ held' = [held EXCEPT ![self] = @ \cup {l}]
  /\ UNCHANGED <<value, pending>>

Acquire(l) == InClient /\ AcquireLoop(l)
ResumeAcquire(l) == Resumed(l) /\ AcquireLoop(l)

(* "by convention, only the thread that acquired the lock may release it" *)
MayRelease(l) == Conventional => l \in held[self]

(* Lock::Release, apart from its effect on the threads: the first waiter
   leaves the queue whoever calls, but only the holder wakes it.            *)
Released(l) == IF self = holder[l] THEN First(queue[l]) ELSE <<>>

ReleaseLock(l) ==
  /\ free' = IF self = holder[l] THEN [free EXCEPT ![l] = TRUE] ELSE free
  /\ held' = [held EXCEPT ![self] = @ \ {l}]
  /\ UNCHANGED <<value, holder, pending>>

(* Mutant: Release frees the lock and leaves its queue alone. *)
ReleaseWakesNobody(l) ==
  /\ InClient
  /\ MayRelease(l)
  /\ ReleaseLock(l)
  /\ UNCHANGED <<threadVars, queue, inside, waitLock>>

Release(l) ==
  /\ InClient
  /\ MayRelease(l)
  /\ Wakeup(Released(l))
  /\ queue' = [queue EXCEPT ![l] = Rest(@)]
  /\ ReleaseLock(l)
  /\ UNCHANGED <<inside, waitLock>>
-----------------------------------------------------------------------------
(* Condition::Wait, up to its call of Sleep. *)
Wait(c, l) ==
  /\ InClient
  /\ MayRelease(l)
  /\ ReleaseLock(l)
  /\ SleepOn(c, [queue EXCEPT ![l] = Rest(@)], Released(l))
  /\ waitLock' = [waitLock EXCEPT ![self] = l]

(* Mutant: Wait returns without taking the lock again. *)
WaitForgetsLock(c) ==
  /\ Resumed(c)
  /\ Return
  /\ waitLock' = [waitLock EXCEPT ![self] = NULL]
  /\ UNCHANGED <<value, free, holder, pending, held>>

(* Condition::Wait after Sleep: it calls Acquire. *)
ResumeWait(c) == Resumed(c) /\ AcquireLoop(waitLock[self])

(* Condition::Signal and Condition::Broadcast wake the threads of ts. *)
WakeWaiters(c, ts, rest) ==
  /\ InClient
  /\ Wakeup(ts)
  /\ queue' = [queue EXCEPT ![c] = rest]
  /\ UNCHANGED <<value, free, holder, inside, waitLock, pending, held>>

Signal(c) == WakeWaiters(c, First(queue[c]), Rest(queue[c]))
Broadcast(c) == WakeWaiters(c, queue[c], <<>>)
-----------------------------------------------------------------------------
(* A thread asks a device for an operation: its driver calls
   Interrupt::Schedule.  A device works on one operation at a time.         *)
StartDevice(d) ==
  /\ InClient
  /\ d \notin pending
  /\ Room(d)
  /\ pending' = pending \cup {d}
  /\ UNCHANGED <<threadVars, value, free, holder, queue, inside, waitLock, held>>

(* Mutant: interrupts are not disabled while Thread::Sleep looks for a thread. *)
InterruptInSleep(d) ==
  /\ d \in pending
  /\ InClient \/ InSleep
  /\ ReadyToRun(First(queue[d]))
  /\ Increment(d)
  /\ pending' = pending \ {d}
  /\ UNCHANGED <<currentThread, life, threadToBeDestroyed, idle, halted>>

(* Interrupt::CheckIfDue runs the handler, which calls Semaphore::V: when
   SetLevel or the machine ticks, or when the machine idles.                *)
Interrupt(d) ==
  /\ d \in pending
  /\ \/ InClient /\ Wakeup(First(queue[d]))
     \/ IdleWakeup(First(queue[d]))
  /\ Increment(d)
  /\ pending' = pending \ {d}

(* The operations of Threads, by a thread outside the operations. *)
ForkThread(child) == InClient /\ Fork(child) /\ UNCHANGED synchVars

YieldThread == InClient /\ Yield /\ UNCHANGED synchVars

FinishThread ==
  /\ InClient
  /\ Finish
  /\ held' = [held EXCEPT ![self] = {}]
  /\ UNCHANGED <<value, free, holder, queue, inside, waitLock, pending>>

DispatchThread == Dispatch /\ UNCHANGED synchVars

(* Mutant: the machine halts though threads are ready. *)
HaltEarly ==
  /\ pending = {} /\ InSleep
  /\ halted' = TRUE
  /\ UNCHANGED <<currentThread, readyList, status, life, threadToBeDestroyed, idle>>
  /\ UNCHANGED synchVars

HaltMachine == pending = {} /\ Halt /\ UNCHANGED synchVars

MachineHalted == Halted /\ UNCHANGED synchVars

Next ==
  \/ \E s \in Sem : P(s) \/ ResumeP(s) \/ V(s)
  \/ \E l \in Lock : Acquire(l) \/ ResumeAcquire(l) \/ Release(l)
  \/ \E c \in Cond : ResumeWait(c) \/ Signal(c) \/ Broadcast(c)
  \/ \E c \in Cond, l \in Lock : Wait(c, l)
  \/ \E d \in Device : StartDevice(d) \/ Interrupt(d)
  \/ \E child \in Thread : ForkThread(child)
  \/ YieldThread \/ FinishThread \/ DispatchThread \/ HaltMachine \/ MachineHalted

Spec == Init /\ [][Next]_vars
-----------------------------------------------------------------------------
(* The threads that were taken off the queue of o and have not tested again
   what they wait for.                                                      *)
Woken(o) == {t \in Thread : inside[t] = o /\ status[t] # "BLOCKED"}

(* The live threads that sleep in an operation of o. *)
Asleep(o) == {t \in Sleeping : inside[t] = o}

(* Every sleeping thread is on the queue of the object it sleeps on, once, and
   on no other: there somebody can find it.  (Semaphore::P, Lock::Acquire and
   Release, Condition::Wait, Signal and Broadcast.)                         *)
SleepersQueued ==
  /\ \A o \in Object : IsInjective(queue[o]) /\ Range(queue[o]) = Asleep(o)
  /\ \A t \in Sleeping : inside[t] \in Object

(* Without the convention on Release a thread may be on no queue, but what is
   on a queue still sleeps there: V, Release, Signal and Broadcast never put
   a thread on the ready list that is running, ready or dead.               *)
QueuedAsleep ==
  \A o \in Object : IsInjective(queue[o]) /\ Range(queue[o]) \subseteq Asleep(o)

(* At most one thread is between the return of Acquire or Wait and its Release
   of the same lock, and the lock knows which: Lock::free and Lock::holder.   *)
MutualExclusion ==
  \A t \in Thread : \A l \in held[t] :
    /\ ~free[l] /\ holder[l] = t
    /\ \A u \in Thread \ {t} : l \notin held[u]

(* No wakeup is lost: while threads sleep on a semaphore, each unit of its
   value has a woken thread that is still to test it.  (P tests in a loop
   because another thread may take the value first.)                        *)
NoLostV ==
  \A s \in Sem : queue[s] # <<>> => value[s] <= Cardinality(Woken(s))

(* While threads sleep in Acquire of a free lock, one of them has been woken
   and will test the lock again.                                            *)
NoLostRelease ==
  \A l \in Lock : free[l] /\ queue[l] # <<>> => Woken(l) # {}

(* Interrupt::Idle: "Assuming the program completed."  When the machine stops
   no thread is left behind that could go on: whoever sleeps in P waits for a
   zero semaphore, whoever sleeps in Acquire waits for a lock that is taken.  *)
HaltsOnlyWhenStuck ==
  halted => \A t \in Thread : life[t] = "live" =>
              /\ status[t] = "BLOCKED"
              /\ inside[t] \in Sem => value[inside[t]] = 0
              /\ inside[t] \in Lock => ~free[inside[t]]

(* What the operations do to the threads, the scheduler allows. *)
ImplementsThreads == ThreadsSpec

(* The operations, queues and all, do what synch.h promises of them. *)
Abstract == INSTANCE Monitor WITH
  owner <- [l \in Lock |-> IF free[l] THEN NULL ELSE holder[l]],
  waiters <- [c \in Cond |-> Range(queue[c])],
  pledged <- waitLock

ImplementsMonitor == Abstract!MonitorSpec
=============================================================================
