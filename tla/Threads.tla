------------------------------- MODULE Threads -------------------------------
(***************************************************************************)
(* Threads and the scheduler of the Nachos kernel: threads/thread.cc and   *)
(* threads/scheduler.cc, with the idle loop of machine/interrupt.cc.       *)
(*                                                                         *)
(* Nachos runs on one simulated processor.  A thread loses it only inside  *)
(* Thread::Yield (called by the thread itself, or by Interrupt::OneTick    *)
(* after a time slice), Thread::Sleep and Thread::Finish.  Kernel code     *)
(* runs with interrupts disabled from SetLevel(IntOff) to the matching     *)
(* SetLevel(oldLevel), and a step below is one such critical section; the  *)
(* two exceptions are the loop of Thread::Sleep, whose steps are Dispatch, *)
(* IdleWakeup and Halt, and the resumption of a sleeping thread.           *)
(*                                                                         *)
(* Which threads a critical section wakes and puts to sleep is left open   *)
(* here (Wakeup, Sleep): this module is what every synchronization object  *)
(* may ask of the scheduler, and module Synch implements it.               *)
(***************************************************************************)
EXTENDS Integers, Sequences, FiniteSets, Functions

CONSTANTS
  Thread,   \* the thread control blocks that can be allocated
  Main,     \* the thread Initialize makes out of the running program
  NULL      \* the null pointer

ASSUME ThreadAssumption ==
  /\ IsFiniteSet(Thread)
  /\ Main \in Thread
  /\ NULL \notin Thread

VARIABLES
  currentThread,        \* system.cc: the thread that holds the CPU
  readyList,            \* Scheduler::readyList, front first
  status,               \* Thread::status
  life,                 \* where a control block is in its life, see below
  threadToBeDestroyed,  \* system.cc: the carcass Scheduler::Run deletes
  idle,                 \* Interrupt::Idle is firing pending interrupts
  halted                \* Interrupt::Halt was called

threadVars ==
  <<currentThread, readyList, status, life, threadToBeDestroyed, idle, halted>>

Status == {"JUST_CREATED", "RUNNING", "READY", "BLOCKED"}

(* unused: not allocated, or deleted; fresh: forked, but ThreadRoot has not
   run yet; live: its procedure is running; finished: in Thread::Finish.    *)
Life == {"unused", "fresh", "live", "finished"}

(* There is always a current thread, the ready list holds threads, and at most
   one thread is waiting in threadToBeDestroyed to be deleted.               *)
TypeOK ==
  /\ currentThread \in Thread
  /\ readyList \in Seq(Thread)
  /\ status \in [Thread -> Status]
  /\ life \in [Thread -> Life]
  /\ threadToBeDestroyed \in Thread \cup {NULL}
  /\ idle \in BOOLEAN
  /\ halted \in BOOLEAN

ThreadsInit ==
  /\ currentThread = Main
  /\ readyList = <<>>
  /\ status = [t \in Thread |-> IF t = Main THEN "RUNNING" ELSE "JUST_CREATED"]
  /\ life = [t \in Thread |-> IF t = Main THEN "live" ELSE "unused"]
  /\ threadToBeDestroyed = NULL
  /\ idle = FALSE
  /\ halted = FALSE
-----------------------------------------------------------------------------
(* The current thread executes its own code; otherwise it is in the loop of
   Thread::Sleep, with its status changed and the CPU not yet given away.   *)
Executing == ~halted /\ status[currentThread] = "RUNNING"

InSleep == ~halted /\ status[currentThread] # "RUNNING"

(* Scheduler::ReadyToRun, for each thread of ts in turn. *)
MarkReady(st, ts) == [t \in Thread |-> IF t \in Range(ts) THEN "READY" ELSE st[t]]

(* Mutant: ReadyToRun forgets setStatus(READY). *)
ReadyToRunUnmarked(ts) ==
  /\ readyList' = readyList \o ts
  /\ UNCHANGED status

ReadyToRun(ts) ==
  /\ status' = MarkReady(status, ts)
  /\ readyList' = readyList \o ts

(* Scheduler::Run.  The thread switched to continues after its own call of
   SWITCH and deletes the carcass; a fresh one starts in ThreadRoot, which
   does not.  st is the status of the threads when Run is called.           *)
Run(next, st) ==
  LET carcass == IF life[next] = "fresh" THEN {} ELSE {threadToBeDestroyed}
  IN  /\ currentThread' = next
      /\ status' = [t \in Thread |-> IF t = next THEN "RUNNING"
                                     ELSE IF t \in carcass THEN "JUST_CREATED"
                                     ELSE st[t]]
      /\ life' = [t \in Thread |-> IF t = next THEN "live"
                                   ELSE IF t \in carcass THEN "unused"
                                   ELSE life[t]]
      /\ threadToBeDestroyed' = IF life[next] = "fresh" THEN threadToBeDestroyed
                                                        ELSE NULL
-----------------------------------------------------------------------------
(* new Thread followed by Thread::Fork. *)
Fork(child) ==
  /\ Executing
  /\ life[child] = "unused"
  /\ life' = [life EXCEPT ![child] = "fresh"]
  /\ ReadyToRun(<<child>>)
  /\ UNCHANGED <<currentThread, threadToBeDestroyed, idle, halted>>

(* Mutant: Yield puts the thread at the front, with List::Prepend. *)
YieldToFront ==
  /\ Executing
  /\ readyList # <<>>
  /\ readyList' = <<currentThread>> \o Tail(readyList)
  /\ Run(Head(readyList), MarkReady(status, <<currentThread>>))
  /\ UNCHANGED <<idle, halted>>

(* Thread::Yield; with an empty ready list it changes nothing. *)
Yield ==
  /\ Executing
  /\ readyList # <<>>
  /\ readyList' = Append(Tail(readyList), currentThread)
  /\ Run(Head(readyList), MarkReady(status, <<currentThread>>))
  /\ UNCHANGED <<idle, halted>>

(* Mutant: Finish deletes the thread on whose stack it runs. *)
FinishDeletes ==
  /\ Executing
  /\ life' = [life EXCEPT ![currentThread] = "unused"]
  /\ status' = [status EXCEPT ![currentThread] = "JUST_CREATED"]
  /\ UNCHANGED <<currentThread, readyList, threadToBeDestroyed, idle, halted>>

(* Thread::Finish, up to the loop of Thread::Sleep. *)
Finish ==
  /\ Executing
  /\ threadToBeDestroyed' = currentThread
  /\ life' = [life EXCEPT ![currentThread] = "finished"]
  /\ status' = [status EXCEPT ![currentThread] = "BLOCKED"]
  /\ UNCHANGED <<currentThread, readyList, idle, halted>>

(* A critical section of the current thread, or of an interrupt handler on
   its stack, that makes the threads of ts ready.                           *)
Wakeup(ts) ==
  /\ Executing
  /\ ReadyToRun(ts)
  /\ UNCHANGED <<currentThread, life, threadToBeDestroyed, idle, halted>>

(* A critical section that makes the threads of ts ready and then enters
   Thread::Sleep, up to its loop.                                           *)
Sleep(ts) ==
  /\ Executing
  /\ status' = [MarkReady(status, ts) EXCEPT ![currentThread] = "BLOCKED"]
  /\ readyList' = readyList \o ts
  /\ UNCHANGED <<currentThread, life, threadToBeDestroyed, idle, halted>>

(* The loop of Thread::Sleep finds a thread and runs it, possibly itself. *)
Dispatch ==
  /\ InSleep
  /\ readyList # <<>>
  /\ readyList' = Tail(readyList)
  /\ Run(Head(readyList), status)
  /\ idle' = FALSE
  /\ UNCHANGED halted

(* Interrupt::Idle fires one pending interrupt, whose handler makes the
   threads of ts ready; it goes on with all that are due before it returns. *)
IdleWakeup(ts) ==
  /\ InSleep
  /\ readyList = <<>> \/ idle
  /\ ReadyToRun(ts)
  /\ idle' = TRUE
  /\ UNCHANGED <<currentThread, life, threadToBeDestroyed, halted>>

(* Interrupt::Idle finds no pending interrupt and stops the machine. *)
Halt ==
  /\ InSleep
  /\ readyList = <<>>
  /\ halted' = TRUE
  /\ UNCHANGED <<currentThread, readyList, status, life, threadToBeDestroyed, idle>>

(* The program has exited: nothing happens any more. *)
Halted == halted /\ UNCHANGED threadVars
-----------------------------------------------------------------------------
(* The threads that sleep on something, and the orders in which some of them
   can be woken by one critical section.                                    *)
Sleeping == {t \in Thread : status[t] = "BLOCKED" /\ life[t] = "live"}

WakeOrders ==
  {ts \in UNION {[1..n -> Sleeping] : n \in 0..Cardinality(Thread)} : IsInjective(ts)}

ThreadsNext ==
  \/ \E child \in Thread : Fork(child)
  \/ Yield
  \/ Finish
  \/ \E ts \in WakeOrders : Wakeup(ts)
  \/ \E ts \in WakeOrders : Sleep(ts)
  \/ Dispatch
  \/ \E ts \in WakeOrders : IdleWakeup(ts)
  \/ Halt
  \/ Halted

ThreadsSpec == ThreadsInit /\ [][ThreadsNext]_threadVars

(* Yield is fair where the timer of Interrupt is running (nachos -rs): a time
   slice ends every thread's turn.  The loop of Thread::Sleep goes on.      *)
ThreadsFairness == WF_threadVars(Yield) /\ WF_threadVars(Dispatch)

FairThreadsSpec == ThreadsSpec /\ ThreadsFairness
-----------------------------------------------------------------------------
(* The ready list holds exactly the READY threads, each once: a thread lost
   from it never runs again, and one on it twice runs while it sleeps.
   (Scheduler::ReadyToRun and FindNextToRun, List::Append and Remove.)      *)
ReadyListExact ==
  /\ IsInjective(readyList)
  /\ Range(readyList) = {t \in Thread : status[t] = "READY"}

(* Only the thread that holds the CPU is RUNNING, and one that is forked but
   has not run, or has finished, is never taken for a sleeper: Scheduler::Run
   sets the status of the next thread only, its callers that of the old one. *)
StatusAgrees ==
  \A t \in Thread :
    /\ status[t] = "RUNNING" => t = currentThread
    /\ status[t] = "JUST_CREATED" <=> life[t] = "unused"
    /\ life[t] = "fresh" => status[t] = "READY"
    /\ life[t] = "finished" => status[t] = "BLOCKED"

(* threadToBeDestroyed is a thread that has called Finish, so the delete of
   Scheduler::Run frees no thread that can run again.                       *)
CarcassIsDead ==
  threadToBeDestroyed # NULL => life[threadToBeDestroyed] = "finished"

(* Thread::~Thread: ASSERT(this != currentThread), and the deleted thread has
   called Finish.                                                           *)
DeletesOnlyCarcasses ==
  [][\A t \in Thread :
       life[t] # "unused" /\ life'[t] = "unused"
         => life[t] = "finished" /\ t # currentThread']_threadVars

(* Thread::Yield: a thread put on the end of the ready list "will eventually
   be re-scheduled", unless the machine halts first.                        *)
ReadyRuns ==
  \A t \in Thread : status[t] = "READY" ~> (status[t] = "RUNNING" \/ halted)
=============================================================================
