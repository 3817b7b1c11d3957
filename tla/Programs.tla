------------------------------ MODULE Programs ------------------------------
(***************************************************************************)
(* threads/main.cc: the build and the command line decide which of the     *)
(* kernel's test programs main() runs: the thread tests, the elevator or,  *)
(* on each of two machines, the post office's exchange.  Only the one      *)
(* chosen takes steps.                                                     *)
(***************************************************************************)
EXTENDS Post, Elevator, ThreadTest

VARIABLE chosen

\* network/nettest.cc: what each machine does in the post office's exchange.
send(to, b) == [op |-> "send", to |-> to, box |-> b, reply |-> 1]
receive(b) == [op |-> "receive", to |-> Reply, box |-> b, reply |-> 1]
MailTest(farAddr) == <<send(farAddr, 0), receive(0), send(Reply, 1), receive(1)>>

vars == <<chosen, postVars, elevatorVars, testVars>>

\* A program that is not chosen is in some initial state, always the same.
Init ==
  /\ chosen \in {"mail", "elevator", "threads"}
  /\ PostInit /\ ElevatorInit /\ TestInit
  /\ chosen # "mail" => plan = CHOOSE p \in Plans : TRUE
  /\ chosen # "elevator" => outing = CHOOSE o \in Outings : TRUE
  /\ chosen # "threads" => variant = CHOOSE v \in Variants : TRUE

main ==
  \/ chosen = "mail" /\ PostNext /\ UNCHANGED <<elevatorVars, testVars>>
  \/ chosen = "elevator" /\ ElevatorNext /\ UNCHANGED <<postVars, testVars>>
  \/ chosen = "threads" /\ TestNext /\ UNCHANGED <<postVars, elevatorVars>>

Next == main /\ UNCHANGED chosen

\* A device that has been set going interrupts, polls go on for ever, and the
\* scheduler's ready list is first in, first out.
PostFairness ==
  /\ \A m \in Machines :
       /\ WF_postVars(chosen = "mail" /\ machine[m] = "up" /\ CheckPktAvail(m))
       /\ WF_postVars(chosen = "mail" /\ machine[m] = "up" /\ SendDone(m))
       /\ WF_postVars(chosen = "mail" /\ PostalDelivery(m))
  /\ \A c \in AllClients :
       WF_postVars(chosen = "mail" /\ c \in Clients /\ Client(c))

\* A step of the elevator's thread, or of the running thread of the thread test (one formula
\* for two programs: only the chosen one can take it).
ThreadStep ==
  \/ chosen = "elevator" /\ Manager /\ UNCHANGED testVars
  \/ chosen = "threads" /\ (\E t \in Testers : Proceed(t)) /\ UNCHANGED elevatorVars

\* Elevator: the queue of the lock e is first in, first out too, and the elevator yields after
\* each release while its doors are open.  Thread test: the intervals of the timer are random
\* (-rs), so when threads that could do more than yield get the processor again and again,
\* they are not cut off each time before they do anything.
ThreadFairness ==
  /\ WF_elevatorVars(chosen = "elevator" /\ ArrivingGoingFromTo)
  /\ WF_testVars(chosen = "threads" /\ TestNext)
  /\ SF_<<elevatorVars, thread, mutex, gate>>(ThreadStep)
  /\ \A p \in UNION {DOMAIN o.trips : o \in Outings} :
       SF_elevatorVars(chosen = "elevator" /\ p \in People /\ Person(p))

Spec ==
  /\ Init /\ [][Next]_vars
  /\ PostFairness
  /\ ThreadFairness
=============================================================================
