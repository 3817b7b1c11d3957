----------------------------- MODULE Elevator -----------------------------
(***************************************************************************)
(* threads/elevator.cc: the elevator's thread and the threads of the       *)
(* people who ride it.                                                     *)
(*                                                                         *)
(* The sections under the semaphores q and c contain no call that sleeps,  *)
(* and what they read and write is read and written under the same         *)
(* semaphore, so each is one step.  The same holds for what a person does  *)
(* with the lock e between waking up and releasing it, and for the         *)
(* elevator's steps between Acquire and Release.  The exceptions are kept  *)
(* apart: the person who has arrived holds e until c is had, and so does   *)
(* the elevator between moving and looking at the counts; at the end it    *)
(* leaves with c taken.                                                    *)
(***************************************************************************)
EXTENDS Integers, Sequences, FiniteSets

CONSTANTS NumFloors,
          Capacity,     \* 5 in the code
          Outings,      \* [trips, sliced, heap], see below
          NoOne

Queues == {"up", "upTo", "down", "downTo"}

\* With one floor, which elevator.cc:218 lets pass, the ground floor is the top floor and the
\* elevator leaves it for a second, past the end of the arrays.
ASSUME FloorsAssumption == NumFloors \in Nat /\ NumFloors > 1 /\ Capacity \in Nat
ASSUME OutingsAssumption ==
  \A o \in Outings : /\ o.trips \in Seq((1 .. NumFloors) \X (1 .. NumFloors))
                     /\ o.heap \in [Queues -> [1 .. NumFloors -> Int]]

VARIABLES
  outing,     \* trips: the calls of main(), <<atFloor, toFloor>>;
              \* sliced: can main() lose the processor between them;
              \* heap: what "new int[size]" finds in each place
  car,        \* eThread and movingUp: floor, people, up
  manager,    \* the elevator's thread: at, and which queues it serves
  calls,      \* upQueue, upToQueue, downQueue, downToQueue
  holder,     \* holder of the lock e
  person,     \* person -> [at, in]
  cTaken,     \* the elevator has taken c and will not give it back
  id, count   \* people who have come, people who have arrived

elevatorVars == <<outing, car, manager, calls, holder, person, cTaken, id, count>>

TheElevator == 0     \* its thread, as a holder of e
Floors == 1 .. NumFloors
People == 1 .. Len(outing.trips)
AtFloor(p) == outing.trips[p][1]
ToFloor(p) == outing.trips[p][2]
GoingUp(p) == ToFloor(p) >= AtFloor(p)
Queue(p) == IF GoingUp(p) THEN "up" ELSE "down"
ToQueue(p) == IF GoingUp(p) THEN "upTo" ELSE "downTo"
Become(p, at) == person' = [person EXCEPT ![p].at = at]

ElevatorInit ==
  /\ outing \in Outings
  /\ car = [floor |-> 1, people |-> 0, up |-> TRUE]
  /\ manager = [at |-> "start", in |-> "up", out |-> "downTo"]
  /\ calls = outing.heap
  /\ holder = NoOne
  /\ person = [p \in People |-> [at |-> "away", in |-> FALSE]]
  /\ cTaken = FALSE
  /\ id = 0
  /\ count = 0

\* main() runs on unless the timer takes the processor from it.
MayRun == outing.sliced \/ id = Len(outing.trips) \/ cTaken
-----------------------------------------------------------------------------
\* main() calls ArrivingGoingFromTo.
ArrivingGoingFromTo ==
  /\ id < Len(outing.trips)
  /\ ~ cTaken
  /\ id' = id + 1
  /\ Become(id + 1, "button")
  /\ UNCHANGED <<outing, car, manager, calls, holder, cTaken, count>>

(* Person *)

PressButton(p) ==
  /\ person[p].at = "button"
  /\ calls' = [calls EXCEPT ![Queue(p)][AtFloor(p)] = @ + 1]
  /\ Become(p, "wait")
  /\ UNCHANGED <<outing, car, manager, holder, cTaken, id, count>>

\* e->Acquire(); cv->Wait(e)
WaitForDoors(p) ==
  /\ person[p].at = "wait"
  /\ holder = NoOne
  /\ Become(p, "asleep")
  /\ UNCHANGED <<outing, car, manager, calls, holder, cTaken, id, count>>

\* The three things a person who wakes up may find.
SameFloor(p) == AtFloor(p) = ToFloor(p) /\ car.floor = AtFloor(p)
(* Mutant: nobody counts the people in the elevator. *)
MayEnterCrowded(p) ==
  /\ ~ person[p].in
  /\ car.floor = AtFloor(p)
  /\ GoingUp(p) = car.up
MayEnter(p) ==
  /\ ~ person[p].in
  /\ car.floor = AtFloor(p)
  /\ GoingUp(p) = car.up
  /\ car.people < Capacity
MayLeave(p) == person[p].in /\ car.floor = ToFloor(p)

StepAside(p) ==                      \* the floor was the one wanted
  /\ SameFloor(p)
  /\ calls' = [calls EXCEPT !["up"][AtFloor(p)] = @ - 1]
  /\ Become(p, "arrived")
  /\ holder' = p
  /\ UNCHANGED car

GetIn(p) ==
  /\ ~ SameFloor(p) /\ MayEnter(p)
  /\ calls' = [calls EXCEPT ![ToQueue(p)][ToFloor(p)] = @ + 1,
                            ![Queue(p)][AtFloor(p)] = @ - 1]
  /\ car' = [car EXCEPT !.people = @ + 1]
  /\ person' = [person EXCEPT ![p] = [at |-> "wait", in |-> TRUE]]
  /\ UNCHANGED holder

GetOut(p) ==
  /\ ~ SameFloor(p) /\ ~ MayEnter(p) /\ MayLeave(p)
  /\ calls' = [calls EXCEPT ![ToQueue(p)][ToFloor(p)] = @ - 1]
  /\ car' = [car EXCEPT !.people = @ - 1]
  /\ person' = [person EXCEPT ![p] = [at |-> "arrived", in |-> FALSE]]
  /\ holder' = p

KeepWaiting(p) ==
  /\ ~ SameFloor(p) /\ ~ MayEnter(p) /\ ~ MayLeave(p)
  /\ Become(p, "wait")
  /\ UNCHANGED <<calls, car, holder>>

\* Wait has the lock again.
LookAround(p) ==
  /\ person[p].at = "woken"
  /\ holder = NoOne
  /\ StepAside(p) \/ GetIn(p) \/ GetOut(p) \/ KeepWaiting(p)
  /\ UNCHANGED <<outing, manager, cTaken, id, count>>

(* Mutant: one who was on the right floor from the start is not counted. *)
BeCountedRider(p) ==
  /\ person[p].at = "arrived"
  /\ ~ cTaken
  /\ count' = IF AtFloor(p) = ToFloor(p) THEN count ELSE count + 1
  /\ holder' = NoOne
  /\ Become(p, "done")
  /\ UNCHANGED <<outing, car, manager, calls, cTaken, id>>
BeCounted(p) ==
  /\ person[p].at = "arrived"
  /\ ~ cTaken
  /\ count' = count + 1
  /\ holder' = NoOne
  /\ Become(p, "done")
  /\ UNCHANGED <<outing, car, manager, calls, cTaken, id>>

Person(p) ==
  /\ MayRun
  /\ PressButton(p) \/ WaitForDoors(p) \/ LookAround(p) \/ BeCounted(p)
-----------------------------------------------------------------------------
(* Manager and ManagerHelper *)

SomeoneIn(queue) == calls[queue][car.floor] > 0 /\ car.people < Capacity
SomeoneOut(queue) == calls[queue][car.floor] > 0

ManagerStart ==
  /\ manager.at = "start"
  /\ holder = NoOne
  /\ manager' = [manager EXCEPT !.at = "floor"]
  /\ holder' = TheElevator
  /\ UNCHANGED <<outing, car, calls, person, cTaken, id, count>>

\* The direction and the queues of this floor; does anyone get in or out?
ArriveAtFloor ==
  LET up == car.floor = 1 \/ (car.floor # NumFloors /\ car.up)
      in == IF up THEN "up" ELSE "down"
      out == IF car.floor = 1 THEN "downTo"
             ELSE IF car.floor = NumFloors THEN "upTo"
             ELSE IF up THEN "upTo" ELSE "downTo"
  IN  /\ manager.at = "floor"
      /\ car' = [car EXCEPT !.up = up]
      /\ manager' = [at |-> IF SomeoneIn(in) \/ SomeoneOut(out)
                            THEN "doors" ELSE "close",
                     in |-> in, out |-> out]
      /\ holder' = NoOne
      /\ UNCHANGED <<outing, calls, person, cTaken, id, count>>

\* While someone wants in or out: look again, and wake everyone up.
OpenDoors ==
  /\ manager.at = "doors"
  /\ holder = NoOne
  /\ manager' = [manager EXCEPT !.at =
                   IF SomeoneIn(manager.in) \/ SomeoneOut(manager.out)
                   THEN "doors" ELSE "close"]
  /\ person' = [p \in People |->
                  IF person[p].at = "asleep" THEN [person[p] EXCEPT !.at = "woken"]
                  ELSE person[p]]
  /\ UNCHANGED <<outing, car, calls, holder, cTaken, id, count>>

Move ==
  /\ manager.at = "close"
  /\ holder = NoOne
  /\ holder' = TheElevator
  /\ car' = [car EXCEPT !.floor = IF car.up THEN @ + 1 ELSE @ - 1]
  /\ manager' = [manager EXCEPT !.at = "counts"]
  /\ UNCHANGED <<outing, calls, person, cTaken, id, count>>

\* Everyone has arrived: the elevator stops, and c is never given back.
LookAtCounts ==
  /\ manager.at = "counts"
  /\ ~ cTaken
  /\ IF id = count
     THEN /\ cTaken' = TRUE
          /\ holder' = NoOne
          /\ manager' = [manager EXCEPT !.at = "stopped"]
     ELSE /\ manager' = [manager EXCEPT !.at = "floor"]
          /\ UNCHANGED <<holder, cTaken>>
  /\ UNCHANGED <<outing, car, calls, person, id, count>>

Manager ==
  /\ MayRun
  /\ \/ ManagerStart \/ ArriveAtFloor \/ OpenDoors \/ Move \/ LookAtCounts
-----------------------------------------------------------------------------
ElevatorNext ==
  \/ ArrivingGoingFromTo
  \/ \E p \in People : Person(p)
  \/ Manager
-----------------------------------------------------------------------------
\* Who is in the car, and whom the number on a floor of a queue stands for:
\* those who wait there, and those who ride there.
Inside == {p \in People : person[p].in}
Waiting(p) == ~ person[p].in /\ person[p].at \in {"wait", "asleep", "woken"}
Calling(q, f) ==
  {p \in People : \/ Waiting(p) /\ Queue(p) = q /\ AtFloor(p) = f
                  \/ person[p].in /\ ToQueue(p) = q /\ ToFloor(p) = f}

\* What the elevator and its riders count agrees with where the riders are:
\* never more than Capacity in the car, every button pressed stands for one
\* person waiting there or riding there, and the elevator stops only when
\* everyone who has come has arrived.
CountsExact ==
  /\ car.people = Cardinality(Inside)
  /\ car.people <= Capacity
  /\ car.floor \in Floors
  /\ \A q \in DOMAIN calls, f \in Floors :
       calls[q][f] = outing.heap[q][f] + Cardinality(Calling(q, f))
  /\ manager.at = "stopped" =>
       \A p \in People : person[p].at \in {"away", "done"}

\* Everyone arrives and the elevator stops, if all came before it set off,
\* the arrays were clear and nobody waits on the top floor for that floor.
EveryoneArrives ==
  /\ id > 0
  /\ ~ outing.sliced /\ \A q \in Queues, f \in Floors : outing.heap[q][f] = 0
  /\ \A p \in People : AtFloor(p) = ToFloor(p) => AtFloor(p) < NumFloors
  ~> /\ \A p \in People : person[p].at = "done"
     /\ manager.at = "stopped"
=============================================================================
