---------------------------- MODULE ThreadTest ----------------------------
(***************************************************************************)
(* threads/threadtest.cc: main() forks NumThreads threads and joins them   *)
(* in SimpleThread, which adds to SharedVariable Loops times under a       *)
(* semaphore or a lock, waits until all have done so, and prints the       *)
(* variable.  The thread that runs is the first of "order"; the others are *)
(* the ready list, which is first in, first out.  A thread gives up the    *)
(* processor by Yield or by sleeping and, with a timer, at the end of any  *)
(* call that turns interrupts on.  The end of Yield and the start of a     *)
(* thread are such calls: a thread may lose the processor again as soon as *)
(* it gets it.                                                             *)
(***************************************************************************)
EXTENDS Integers, Sequences, FiniteSets

CONSTANTS NumThreads, Loops, Variants, Unprinted

ASSUME TestAssumption == NumThreads \in Nat /\ Loops \in Nat

VARIABLES
  variant,    \* [sync: which #if of threadtest.cc, sliced: is there a timer]
  order,      \* the running thread and the ready list
  resuming,   \* the threads that are to leave Yield, or to start, when they run next
  thread,     \* thread -> [at, num, val]
  shared,     \* SharedVariable
  numIn,      \* the global count
  mutex,      \* semaphore or lock l: [free, queue]
  gate,       \* the semaphore barrier or the lock b: [value, queue]
  printed     \* thread -> the final value it printed

testVars == <<variant, order, resuming, thread, shared, numIn, mutex, gate, printed>>

Testers == 0 .. NumThreads
FirstStep == IF variant.sync = "locks" THEN "start" ELSE "enter"

TestInit ==
  /\ variant \in Variants
  /\ order = <<0>>
  /\ resuming = 1 .. NumThreads
  /\ thread = [t \in Testers |->
       [at |-> IF t = 0 /\ NumThreads > 0 THEN "fork" ELSE FirstStep,
        num |-> 0, val |-> 0]]
  /\ shared = 0
  /\ numIn = 0
  /\ mutex = [free |-> TRUE, queue |-> <<>>]
  /\ gate = [value |-> IF variant.sync = "locks" THEN 1 ELSE 0, queue |-> <<>>]
  /\ printed = [t \in Testers |-> Unprinted]

\* What becomes of the running thread t, when "list" holds it and the ready
\* list: it goes on, yields, or sleeps.
GoesOn(list) == order' = list /\ resuming' = resuming \ {Head(list)}
Yields(list) ==
  /\ order' = Append(Tail(list), Head(list))
  /\ resuming' = resuming \cup {Head(list)}
Ticks(list) == GoesOn(list) \/ (variant.sliced /\ Yields(list))
Sleeps == order' = Tail(order) /\ resuming' = resuming \ {Head(order)}
At(t, at) == thread' = [thread EXCEPT ![t].at = at]

\* The first sleeper of a queue becomes ready.
Woken(queue) == IF queue = <<>> THEN order ELSE Append(order, Head(queue))
Rest(queue) == IF queue = <<>> THEN queue ELSE Tail(queue)
-----------------------------------------------------------------------------
\* ThreadTest: fork the others one by one, then SimpleThread(0).
ForkTester(t) ==
  /\ thread[t].at = "fork"
  /\ LET next == thread[t].num + 1
     IN  /\ Ticks(Append(order, next))
         /\ thread' = [thread EXCEPT ![t] =
              IF next = NumThreads THEN [@ EXCEPT !.at = FirstStep, !.num = 0]
              ELSE [@ EXCEPT !.num = next]]
  /\ UNCHANGED <<variant, shared, numIn, mutex, gate, printed>>

\* HW1_LOCKS: "b->Acquire(); count++; b->Release();"
StartCount(t) ==
  /\ thread[t].at = "start"
  /\ IF gate.value = 0
     THEN /\ gate' = [gate EXCEPT !.queue = Append(@, t)]
          /\ Sleeps
          /\ UNCHANGED thread
     ELSE /\ gate' = [gate EXCEPT !.value = 0]
          /\ Ticks(order)
          /\ At(t, "started")
  /\ UNCHANGED <<variant, shared, numIn, mutex, printed>>

EndCount(t) ==
  /\ thread[t].at = "started"
  /\ numIn' = numIn + 1
  /\ gate' = [value |-> 1, queue |-> Rest(gate.queue)]
  /\ Ticks(Woken(gate.queue))
  /\ At(t, "enter")
  /\ UNCHANGED <<variant, shared, mutex, printed>>

\* semaphore->P() or l->Acquire(); nothing in the plain variant
Enter(t) ==
  /\ thread[t].at = "enter"
  /\ \/ /\ variant.sync = "plain"
        /\ GoesOn(order) /\ At(t, "read") /\ UNCHANGED mutex
     \/ /\ variant.sync # "plain" /\ mutex.free
        /\ mutex' = [mutex EXCEPT !.free = FALSE]
        /\ Ticks(order) /\ At(t, "read")
     \/ /\ variant.sync # "plain" /\ ~ mutex.free
        /\ mutex' = [mutex EXCEPT !.queue = Append(@, t)]
        /\ Sleeps /\ UNCHANGED thread
  /\ UNCHANGED <<variant, shared, numIn, gate, printed>>

ReadShared(t) ==
  /\ thread[t].at = "read"
  /\ thread' = [thread EXCEPT ![t].val = shared, ![t].at = "write"]
  /\ Yields(order)
  /\ UNCHANGED <<variant, shared, numIn, mutex, gate, printed>>

\* The update, and semaphore->V() or l->Release()
WriteShared(t) ==
  /\ thread[t].at = "write"
  /\ shared' = thread[t].val + 1
  /\ IF variant.sync = "plain" THEN GoesOn(order) /\ UNCHANGED mutex
     ELSE /\ mutex' = [free |-> TRUE, queue |-> Rest(mutex.queue)]
          /\ Ticks(Woken(mutex.queue))
  /\ At(t, "loop")
  /\ UNCHANGED <<variant, numIn, gate, printed>>

EndLoop(t) ==
  /\ thread[t].at = "loop"
  /\ thread' = [thread EXCEPT ![t].num = @ + 1, ![t].at =
       IF thread[t].num + 1 < Loops THEN "enter"
       ELSE CASE variant.sync = "semaphores" -> "arrive"
              [] variant.sync = "locks" -> "spin"
              [] variant.sync = "plain" -> "print"]
  /\ Yields(order)
  /\ UNCHANGED <<variant, shared, numIn, mutex, gate, printed>>

\* barrier->V()
OpenGate(t, at) ==
  /\ gate' = [value |-> gate.value + 1, queue |-> Rest(gate.queue)]
  /\ Ticks(Woken(gate.queue))
  /\ At(t, at)

(* Mutant: the barrier opens for the last thread but one. *)
ArriveEarly(t) ==
  /\ thread[t].at = "arrive"
  /\ IF numIn < NumThreads - 1
     THEN /\ numIn' = numIn + 1
          /\ At(t, "pass")
          /\ GoesOn(order)
          /\ UNCHANGED gate
     ELSE OpenGate(t, "pass") /\ UNCHANGED numIn
  /\ UNCHANGED <<variant, shared, mutex, printed>>
\* The last of the NumThreads + 1 threads opens the barrier.
Arrive(t) ==
  /\ thread[t].at = "arrive"
  /\ IF numIn < NumThreads
     THEN /\ numIn' = numIn + 1
          /\ At(t, "pass")
          /\ GoesOn(order)
          /\ UNCHANGED gate
     ELSE OpenGate(t, "pass") /\ UNCHANGED numIn
  /\ UNCHANGED <<variant, shared, mutex, printed>>

\* barrier->P()
Pass(t) ==
  /\ thread[t].at = "pass"
  /\ IF gate.value = 0
     THEN /\ gate' = [gate EXCEPT !.queue = Append(@, t)]
          /\ Sleeps
          /\ UNCHANGED thread
     ELSE /\ gate' = [gate EXCEPT !.value = @ - 1]
          /\ Ticks(order)
          /\ At(t, "passed")
  /\ UNCHANGED <<variant, shared, numIn, mutex, printed>>

(* Mutant: a thread closes the barrier behind it. *)
HoldOpenNot(t) ==
  /\ thread[t].at = "passed"
  /\ At(t, "print")
  /\ GoesOn(order)
  /\ UNCHANGED <<variant, shared, numIn, mutex, gate, printed>>
HoldOpen(t) ==
  /\ thread[t].at = "passed"
  /\ OpenGate(t, "print")
  /\ UNCHANGED <<variant, shared, numIn, mutex, printed>>

\* HW1_LOCKS: "while(SharedVariable < 5*count) currentThread->Yield();"
Spin(t) ==
  /\ thread[t].at = "spin"
  /\ IF shared < Loops * numIn THEN Yields(order) /\ UNCHANGED thread
     ELSE At(t, "print") /\ GoesOn(order)
  /\ UNCHANGED <<variant, shared, numIn, mutex, gate, printed>>

PrintFinal(t) ==
  /\ thread[t].at = "print"
  /\ printed' = [printed EXCEPT ![t] = shared]
  /\ At(t, "finished")
  /\ Sleeps
  /\ UNCHANGED <<variant, shared, numIn, mutex, gate>>

SimpleThread(t) ==
  \/ StartCount(t) \/ EndCount(t) \/ Enter(t) \/ ReadShared(t) \/ WriteShared(t)
  \/ EndLoop(t) \/ Arrive(t) \/ Pass(t) \/ HoldOpen(t) \/ Spin(t)
  \/ PrintFinal(t)

\* SetLevel at the end of Yield and InterruptEnable at the start of a thread tick: the timer
\* may make the thread yield before it does anything else.
Resume(t) ==
  /\ variant.sliced /\ t \in resuming
  /\ Yields(order)
  /\ UNCHANGED <<variant, thread, shared, numIn, mutex, gate, printed>>

\* The running thread does its next step.
Proceed(t) == order # <<>> /\ t = Head(order) /\ (ForkTester(t) \/ SimpleThread(t))

TestNext ==
  \/ \E t \in Testers : Proceed(t)
  \/ order # <<>> /\ Resume(Head(order))
-----------------------------------------------------------------------------
\* The barrier and the exclusive updates do their work: every thread that prints a final value
\* prints the sum of all the threads' additions, with semaphores even when time slices cut the
\* threads anywhere (threadtest.cc:55), with locks when there is no timer.  (With locks and a
\* timer, threadtest.cc:84 compares with the threads that have started: a thread that does all
\* its loops while the others are cut off before their first step prints early.)
FinalIsFinal ==
  (variant.sync = "semaphores" \/ (variant.sync = "locks" /\ ~variant.sliced)) =>
    \A t \in Testers : printed[t] \in {Unprinted, Loops * (NumThreads + 1)}

\* Every thread gets past the barrier, or the loop that stands for it, and prints, however often
\* time slices put it off (threadtest.cc:60, 84).
EveryonePrints == (Len(order) > 1) ~> (\A t \in Testers : printed[t] # Unprinted)
=============================================================================
