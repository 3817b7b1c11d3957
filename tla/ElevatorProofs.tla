--------------------------- MODULE ElevatorProofs ---------------------------
(***************************************************************************)
(* Proofs about module Elevator, for any number of floors, any capacity    *)
(* and any trips: what the elevator and its riders count is exact.         *)
(***************************************************************************)
EXTENDS Elevator, FiniteSetTheorems, TLAPS

Places == {"away", "button", "wait", "asleep", "woken", "arrived", "done"}
CarType == [floor : Floors, people : Int, up : BOOLEAN]
ManagerType == [at : {"start", "floor", "doors", "close", "counts", "stopped"},
                in : {"up", "down"}, out : {"upTo", "downTo"}]
CallsType == [Queues -> [Floors -> Int]]
PersonType == [People -> [at : Places, in : BOOLEAN]]

ElevatorTypeOK ==
  /\ outing \in Outings
  /\ car \in CarType
  /\ manager \in ManagerType
  /\ calls \in CallsType
  /\ person \in PersonType
  /\ cTaken \in BOOLEAN
  /\ id \in 0 .. Len(outing.trips)
  /\ count \in Nat

Done == {p \in People : person[p].at = "done"}

(* Those who ride are waiting for their floor, which is not where they came
   from; the people who have come are the first id; count is the number of
   those who have arrived; the car does not set off through the roof or the
   ground; and c stays taken only once the elevator has stopped.             *)
ElevatorInv ==
  /\ ElevatorTypeOK
  /\ \A p \in People : person[p].in => /\ person[p].at \in {"wait", "asleep", "woken"}
                                       /\ AtFloor(p) # ToFloor(p)
  /\ \A p \in People : person[p].at = "away" <=> p > id
  /\ count = Cardinality(Done)
  /\ manager.at \in {"doors", "close"} =>
       IF car.up THEN car.floor < NumFloors ELSE car.floor > 1
  /\ cTaken <=> manager.at = "stopped"
  /\ CountsExact

(* The people are finitely many, and floors are floors. *)
LEMMA PeopleFacts ==
  ASSUME outing \in Outings
  PROVE  /\ IsFiniteSet(People)
         /\ Len(outing.trips) \in Nat
         /\ outing.heap \in CallsType
         /\ \A p \in People : AtFloor(p) \in Floors /\ ToFloor(p) \in Floors
<1>1. outing.trips \in Seq(Floors \X Floors) /\ outing.heap \in CallsType
  BY OutingsAssumption DEF Floors, CallsType
<1>2. Len(outing.trips) \in Nat
  BY <1>1
<1>3. IsFiniteSet(People)
  BY <1>2, FS_Interval DEF People
<1>4. \A p \in People : outing.trips[p] \in Floors \X Floors
  BY <1>1 DEF People
<1> QED BY <1>1, <1>2, <1>3, <1>4 DEF AtFloor, ToFloor

(* A set of people gains or loses one. *)
LEMMA CountOne ==
  ASSUME NEW S, IsFiniteSet(S), NEW A \in SUBSET S, NEW p \in S
  PROVE  /\ Cardinality(A) \in Nat
         /\ p \notin A => Cardinality(A \cup {p}) = Cardinality(A) + 1
         /\ p \in A => Cardinality(A \ {p}) = Cardinality(A) - 1
<1>1. IsFiniteSet(A)
  BY FS_Subset
<1> QED BY <1>1, FS_CardinalityType, FS_AddElement, FS_RemoveElement

(* Nothing but the trips decides who goes where. *)
LEMMA SameTrips ==
  ASSUME outing' = outing
  PROVE  /\ People' = People
         /\ \A p : /\ AtFloor(p)' = AtFloor(p) /\ ToFloor(p)' = ToFloor(p)
                  /\ Queue(p)' = Queue(p) /\ ToQueue(p)' = ToQueue(p)
BY DEF People, AtFloor, ToFloor, GoingUp, Queue, ToQueue

(* Where somebody stands changes, but not whether that is in the car or
   waiting: every count stays.                                              *)
LEMMA SameCounts ==
  ASSUME outing' = outing,
         \A p \in People : /\ person'[p].in = person[p].in
                           /\ Waiting(p)' = Waiting(p)
  PROVE  /\ Inside' = Inside
         /\ \A q, f : Calling(q, f)' = Calling(q, f)
<1>1. Inside' = Inside
  BY SameTrips DEF Inside
<1>2. ASSUME NEW q, NEW f PROVE Calling(q, f)' = Calling(q, f)
  BY SameTrips DEF Calling
<1> QED BY <1>1, <1>2

(* main() lets a person come. *)
LEMMA ArrivingKeeps ==
  ASSUME ElevatorInv, ArrivingGoingFromTo
  PROVE  ElevatorInv'
<1> DEFINE p == id + 1
<1>0. /\ IsFiniteSet(People) /\ Len(outing.trips) \in Nat
  BY PeopleFacts DEF ElevatorInv, ElevatorTypeOK
<1>1. /\ p \in People /\ person[p].at = "away" /\ id' = id + 1 /\ ~ cTaken
      /\ person' = [person EXCEPT ![p].at = "button"]
      /\ UNCHANGED <<outing, car, manager, calls, holder, cTaken, count>>
  BY <1>0 DEF ElevatorInv, ElevatorTypeOK, ArrivingGoingFromTo, People, Become
<1>2. /\ person' \in PersonType
      /\ person'[p].at = "button" /\ person'[p].in = person[p].in
      /\ \A r \in People \ {p} : person'[r] = person[r]
  BY <1>1 DEF ElevatorInv, ElevatorTypeOK, PersonType, Places
<1>3. ElevatorTypeOK'
  BY <1>0, <1>1, <1>2, SameTrips DEF ElevatorInv, ElevatorTypeOK, People, Floors, CarType, CallsType, PersonType, Places
<1>4. ~ person[p].in
  BY <1>1 DEF ElevatorInv
<1>5. \A r \in People : person'[r].in = person[r].in /\ Waiting(r)' = Waiting(r)
  BY <1>1, <1>2 DEF Waiting
<1>6. Inside' = Inside /\ \A q, f : Calling(q, f)' = Calling(q, f)
  BY <1>1, <1>5, SameCounts
<1>7. Done' = Done
  BY <1>1, <1>2, SameTrips DEF Done
<1>8. \A r \in People' : person'[r].in => /\ person'[r].at \in {"wait", "asleep", "woken"}
                                         /\ AtFloor(r)' # ToFloor(r)'
  BY <1>1, <1>2, <1>4, SameTrips DEF ElevatorInv
<1>9. \A r \in People' : person'[r].at = "away" <=> r > id'
  BY <1>0, <1>1, <1>2, SameTrips DEF ElevatorInv, ElevatorTypeOK, People
<1>10. CountsExact'
  BY <1>1, <1>6 DEF ElevatorInv, CountsExact, Floors
<1> QED BY <1>1, <1>3, <1>7, <1>8, <1>9, <1>10 DEF ElevatorInv

Calls(p, q, f) == \/ Waiting(p) /\ Queue(p) = q /\ AtFloor(p) = f
                  \/ person[p].in /\ ToQueue(p) = q /\ ToFloor(p) = f

(* What one person does changes each count by that person. *)
LEMMA OnePerson ==
  ASSUME outing \in Outings, outing' = outing, NEW p \in People,
         \A r \in People \ {p} : person'[r] = person[r]
  PROVE  /\ Cardinality(Inside) \in Nat
         /\ Cardinality(Inside') = Cardinality(Inside)
              + (IF person'[p].in THEN 1 ELSE 0) - (IF person[p].in THEN 1 ELSE 0)
         /\ Cardinality(Done) \in Nat
         /\ Cardinality(Done') = Cardinality(Done)
              + (IF person'[p].at = "done" THEN 1 ELSE 0)
              - (IF person[p].at = "done" THEN 1 ELSE 0)
         /\ \A q, f :
              /\ Cardinality(Calling(q, f)) \in Nat
              /\ Cardinality(Calling(q, f)') = Cardinality(Calling(q, f))
                   + (IF Calls(p, q, f)' THEN 1 ELSE 0)
                   - (IF Calls(p, q, f) THEN 1 ELSE 0)
<1>0. IsFiniteSet(People) /\ People' = People
  BY PeopleFacts, SameTrips
<1>1. ASSUME NEW A \in SUBSET People, NEW B \in SUBSET People, A \ {p} = B \ {p}
      PROVE  /\ Cardinality(A) \in Nat
             /\ Cardinality(B) = Cardinality(A) + (IF p \in B THEN 1 ELSE 0)
                                 - (IF p \in A THEN 1 ELSE 0)
  <2>1. /\ Cardinality(A) \in Nat /\ Cardinality(A \ {p}) \in Nat
        /\ p \in A => Cardinality(A \ {p}) = Cardinality(A) - 1
        /\ p \in B => Cardinality(B \ {p}) = Cardinality(B) - 1
        /\ Cardinality(B) \in Nat
    BY <1>0, CountOne
  <2> DEFINE a == Cardinality(A)
             b == Cardinality(B)
             rest == Cardinality(A \ {p})
  <2>2. rest = (IF p \in A THEN a - 1 ELSE a)
    <3>1. p \notin A => A \ {p} = A
      OBVIOUS
    <3> QED BY <2>1, <3>1
  <2>3. rest = (IF p \in B THEN b - 1 ELSE b)
    <3>1. p \notin B => B \ {p} = B
      OBVIOUS
    <3>2. rest = Cardinality(B \ {p})
      BY <1>1
    <3> QED BY <2>1, <3>1, <3>2
  <2>4. a \in Nat /\ b \in Nat
    BY <2>1
  <2> HIDE DEF a, b, rest
  <2>5. b = a + (IF p \in B THEN 1 ELSE 0) - (IF p \in A THEN 1 ELSE 0)
    BY <2>2, <2>3, <2>4
  <2> QED BY <2>4, <2>5 DEF a, b
<1>2. /\ Inside \in SUBSET People /\ Inside' \in SUBSET People
      /\ Inside \ {p} = Inside' \ {p}
      /\ p \in Inside <=> person[p].in
      /\ p \in Inside' <=> person'[p].in
  BY <1>0 DEF Inside
<1>3. /\ Done \in SUBSET People /\ Done' \in SUBSET People
      /\ Done \ {p} = Done' \ {p}
      /\ p \in Done <=> person[p].at = "done"
      /\ p \in Done' <=> person'[p].at = "done"
  BY <1>0 DEF Done
<1>4. ASSUME NEW q, NEW f
      PROVE  /\ Calling(q, f) \in SUBSET People /\ Calling(q, f)' \in SUBSET People
             /\ Calling(q, f) \ {p} = Calling(q, f)' \ {p}
             /\ p \in Calling(q, f) <=> Calls(p, q, f)
             /\ p \in Calling(q, f)' <=> Calls(p, q, f)'
  <2>1. \A r \in People \ {p} : Calls(r, q, f)' <=> Calls(r, q, f)
    BY SameTrips DEF Calls, Waiting
  <2>2. /\ Calling(q, f) = {r \in People : Calls(r, q, f)}
        /\ Calling(q, f)' = {r \in People : Calls(r, q, f)'}
    BY <1>0 DEF Calling, Calls
  <2> QED BY <2>1, <2>2
<1>5. /\ Cardinality(Inside) \in Nat
      /\ Cardinality(Inside') = Cardinality(Inside)
           + (IF person'[p].in THEN 1 ELSE 0) - (IF person[p].in THEN 1 ELSE 0)
  BY <1>1, <1>2
<1>6. /\ Cardinality(Done) \in Nat
      /\ Cardinality(Done') = Cardinality(Done)
           + (IF person'[p].at = "done" THEN 1 ELSE 0)
           - (IF person[p].at = "done" THEN 1 ELSE 0)
  BY <1>1, <1>3
<1>7. ASSUME NEW q, NEW f
      PROVE  /\ Cardinality(Calling(q, f)) \in Nat
             /\ Cardinality(Calling(q, f)') = Cardinality(Calling(q, f))
                  + (IF Calls(p, q, f)' THEN 1 ELSE 0)
                  - (IF Calls(p, q, f) THEN 1 ELSE 0)
  BY <1>1, <1>4
<1> QED BY <1>5, <1>6, <1>7


(* A step of one person keeps the invariant when each number changes by
   that person: in the car, in the queues and among those who arrived.      *)
LEMMA PersonKeeps ==
  ASSUME ElevatorInv, NEW p \in People,
         UNCHANGED <<outing, manager, cTaken, id>>,
         person' \in PersonType,
         \A r \in People \ {p} : person'[r] = person[r],
         person[p].at \notin {"away", "done"}, person'[p].at # "away",
         person'[p].in => /\ person'[p].at \in {"wait", "asleep", "woken"}
                          /\ AtFloor(p) # ToFloor(p),
         car' \in CarType,
         car'.floor = car.floor, car'.up = car.up, car'.people <= Capacity,
         car'.people = car.people + (IF person'[p].in THEN 1 ELSE 0)
                                  - (IF person[p].in THEN 1 ELSE 0),
         count' = count + (IF person'[p].at = "done" THEN 1 ELSE 0),
         calls' \in CallsType,
         \A q \in Queues, f \in Floors :
           calls'[q][f] = calls[q][f] + (IF Calls(p, q, f)' THEN 1 ELSE 0)
                                      - (IF Calls(p, q, f) THEN 1 ELSE 0)
  PROVE  ElevatorInv'
<1>1. /\ outing \in Outings /\ outing.heap \in CallsType /\ calls \in CallsType
      /\ count \in Nat
  BY PeopleFacts DEF ElevatorInv, ElevatorTypeOK, CallsType, Queues
<1>2. People' = People /\ Floors' = Floors
  BY SameTrips DEF Floors
<1>3. ElevatorTypeOK'
  <2>1. count' \in Nat
    BY <1>1
  <2> QED BY <1>1, <1>2, <2>1
          DEF ElevatorInv, ElevatorTypeOK, PersonType, Places, CallsType, Queues
<1>4. \A r \in People' :
        person'[r].in => /\ person'[r].at \in {"wait", "asleep", "woken"}
                         /\ AtFloor(r)' # ToFloor(r)'
  BY <1>2, SameTrips DEF ElevatorInv
<1>5. \A r \in People' : person'[r].at = "away" <=> r > id'
  BY <1>2 DEF ElevatorInv
<1>6. count' = Cardinality(Done)'
  <2>1. /\ Cardinality(Done) \in Nat
        /\ Cardinality(Done') = Cardinality(Done)
             + (IF person'[p].at = "done" THEN 1 ELSE 0)
             - (IF person[p].at = "done" THEN 1 ELSE 0)
    BY <1>1, OnePerson
  <2> QED BY <2>1 DEF ElevatorInv
<1>7. car'.people = Cardinality(Inside)'
  <2>1. Cardinality(Inside') = Cardinality(Inside)
           + (IF person'[p].in THEN 1 ELSE 0) - (IF person[p].in THEN 1 ELSE 0)
    BY <1>1, OnePerson
  <2> QED BY <2>1 DEF ElevatorInv, CountsExact
<1>8. ASSUME NEW q \in Queues, NEW f \in Floors
      PROVE  calls'[q][f] = outing.heap[q][f] + Cardinality(Calling(q, f)')
  <2> DEFINE n == Cardinality(Calling(q, f))
             m == Cardinality(Calling(q, f)')
             gained == IF Calls(p, q, f)' THEN 1 ELSE 0
             lost == IF Calls(p, q, f) THEN 1 ELSE 0
  <2>1. n \in Nat /\ m = n + gained - lost
    BY <1>1, OnePerson
  <2>2. calls[q][f] = outing.heap[q][f] + n
    BY <1>1 DEF ElevatorInv, CountsExact, CallsType
  <2>3. calls'[q][f] = calls[q][f] + gained - lost
    OBVIOUS
  <2>4. gained \in Int /\ lost \in Int /\ outing.heap[q][f] \in Int
    BY <1>1 DEF CallsType
  <2> HIDE DEF n, m, gained, lost
  <2>5. calls'[q][f] = outing.heap[q][f] + m
    BY <2>1, <2>2, <2>3, <2>4
  <2> QED BY <2>5 DEF m
<1>9. manager.at # "stopped"
  BY DEF ElevatorInv, CountsExact
<1>10. CountsExact'
  BY <1>2, <1>7, <1>8, <1>9 DEF CountsExact, CallsType, CarType
<1> QED BY <1>3, <1>4, <1>5, <1>6, <1>10 DEF ElevatorInv

(* What is known of a person about to act. *)
LEMMA PersonFacts ==
  ASSUME ElevatorInv, NEW p \in People
  PROVE  /\ AtFloor(p) \in Floors /\ ToFloor(p) \in Floors
         /\ Queue(p) \in Queues /\ ToQueue(p) \in Queues /\ Queue(p) # ToQueue(p)
         /\ calls \in CallsType
         /\ \A q \in Queues, f \in Floors : calls[q][f] \in Int
         /\ person \in PersonType
         /\ car \in CarType
         /\ car.people <= Capacity /\ count \in Nat
         /\ person[p].in => AtFloor(p) # ToFloor(p)
<1>1. calls \in CallsType /\ person \in PersonType /\ outing \in Outings
  BY DEF ElevatorInv, ElevatorTypeOK, CallsType, Queues, PersonType, Places
<1>2. AtFloor(p) \in Floors /\ ToFloor(p) \in Floors
  BY <1>1, PeopleFacts
<1>3. \A q \in Queues, f \in Floors : calls[q][f] \in Int
  BY <1>1 DEF CallsType
<1>4. /\ car \in CarType
      /\ car.people <= Capacity /\ count \in Nat
      /\ person[p].in => AtFloor(p) # ToFloor(p)
  BY DEF ElevatorInv, ElevatorTypeOK, CountsExact
<1>5. Queue(p) \in Queues /\ ToQueue(p) \in Queues /\ Queue(p) # ToQueue(p)
  BY DEF Queue, ToQueue, Queues
<1> QED BY <1>1, <1>2, <1>3, <1>4, <1>5

(* A person presses the button of the floor. *)
LEMMA PressButtonKeeps ==
  ASSUME ElevatorInv, NEW p \in People, PressButton(p)
  PROVE  ElevatorInv'
<1>1. /\ person[p].at = "button" /\ ~ person[p].in
      /\ UNCHANGED <<outing, car, manager, cTaken, id, count>>
  BY DEF ElevatorInv, PressButton
<1>2. /\ person' \in PersonType
      /\ person'[p].at = "wait" /\ person'[p].in = person[p].in
      /\ \A r \in People \ {p} : person'[r] = person[r]
  BY PersonFacts DEF PressButton, Become, PersonType, Places
<1>3. /\ calls' \in CallsType
      /\ \A q \in Queues, f \in Floors :
           calls'[q][f] = IF q = Queue(p) /\ f = AtFloor(p)
                          THEN calls[q][f] + 1 ELSE calls[q][f]
  BY PersonFacts DEF PressButton, CallsType
<1>4. ASSUME NEW q \in Queues, NEW f \in Floors
      PROVE  calls'[q][f] = calls[q][f] + (IF Calls(p, q, f)' THEN 1 ELSE 0)
                                        - (IF Calls(p, q, f) THEN 1 ELSE 0)
  <2>1. /\ ~ Calls(p, q, f)
        /\ Calls(p, q, f)' <=> q = Queue(p) /\ f = AtFloor(p)
    BY <1>1, <1>2, SameTrips DEF Calls, Waiting
  <2> QED BY <1>3, <2>1, PersonFacts
<1>5. /\ car' \in CarType
      /\ car'.floor = car.floor /\ car'.up = car.up /\ car'.people <= Capacity
      /\ car'.people = car.people + (IF person'[p].in THEN 1 ELSE 0)
                                  - (IF person[p].in THEN 1 ELSE 0)
      /\ count' = count + (IF person'[p].at = "done" THEN 1 ELSE 0)
  BY <1>1, <1>2, PersonFacts DEF CarType
<1>6. /\ person[p].at \notin {"away", "done"} /\ person'[p].at # "away"
      /\ ~ person'[p].in
      /\ UNCHANGED <<outing, manager, cTaken, id>>
  BY <1>1, <1>2
<1> QED BY <1>2, <1>3, <1>4, <1>5, <1>6, PersonKeeps

(* A person who waits goes on waiting, awake or asleep. *)
LEMMA WaitingKeeps ==
  ASSUME ElevatorInv, NEW p \in People, NEW at \in {"wait", "asleep"},
         person[p].at \in {"wait", "asleep", "woken"}, Become(p, at),
         UNCHANGED <<outing, car, manager, calls, cTaken, id, count>>
  PROVE  ElevatorInv'
<1>1. /\ person' \in PersonType
      /\ person'[p].at = at /\ person'[p].in = person[p].in
      /\ \A r \in People \ {p} : person'[r] = person[r]
  BY PersonFacts DEF Become, PersonType, Places
<1>2. calls' \in CallsType
  BY PersonFacts
<1>3. ASSUME NEW q \in Queues, NEW f \in Floors
      PROVE  calls'[q][f] = calls[q][f] + (IF Calls(p, q, f)' THEN 1 ELSE 0)
                                        - (IF Calls(p, q, f) THEN 1 ELSE 0)
  <2>1. Calls(p, q, f)' <=> Calls(p, q, f)
    BY <1>1, SameTrips DEF Calls, Waiting
  <2> QED BY <2>1, PersonFacts
<1>4. /\ car' \in CarType
      /\ car'.floor = car.floor /\ car'.up = car.up /\ car'.people <= Capacity
      /\ car'.people = car.people + (IF person'[p].in THEN 1 ELSE 0)
                                  - (IF person[p].in THEN 1 ELSE 0)
      /\ count' = count + (IF person'[p].at = "done" THEN 1 ELSE 0)
  BY <1>1, PersonFacts DEF CarType
<1>5. /\ person[p].at \notin {"away", "done"} /\ person'[p].at # "away"
      /\ person'[p].in => /\ person'[p].at \in {"wait", "asleep", "woken"}
                          /\ AtFloor(p) # ToFloor(p)
      /\ UNCHANGED <<outing, manager, cTaken, id>>
  BY <1>1, PersonFacts
<1> QED BY <1>1, <1>2, <1>3, <1>4, <1>5, PersonKeeps

(* A person finds the floor wanted is the one they are on. *)
LEMMA StepAsideKeeps ==
  ASSUME ElevatorInv, NEW p \in People, person[p].at = "woken", StepAside(p),
         UNCHANGED <<outing, manager, cTaken, id, count>>
  PROVE  ElevatorInv'
<1>1. AtFloor(p) = ToFloor(p) /\ ~ person[p].in /\ Queue(p) = "up"
  <2>1. AtFloor(p) = ToFloor(p) /\ ~ person[p].in
    BY PersonFacts DEF StepAside, SameFloor
  <2>2. AtFloor(p) \in Int
    BY PersonFacts DEF Floors
  <2> QED BY <2>1, <2>2 DEF Queue, GoingUp
<1>2. /\ person' \in PersonType
      /\ person'[p].at = "arrived" /\ person'[p].in = person[p].in
      /\ \A r \in People \ {p} : person'[r] = person[r]
  BY PersonFacts DEF StepAside, Become, PersonType, Places
<1>3. /\ calls' \in CallsType
      /\ \A q \in Queues, f \in Floors :
           calls'[q][f] = IF q = Queue(p) /\ f = AtFloor(p)
                          THEN calls[q][f] - 1 ELSE calls[q][f]
  BY <1>1, PersonFacts DEF StepAside, CallsType
<1>4. ASSUME NEW q \in Queues, NEW f \in Floors
      PROVE  calls'[q][f] = calls[q][f] + (IF Calls(p, q, f)' THEN 1 ELSE 0)
                                        - (IF Calls(p, q, f) THEN 1 ELSE 0)
  <2>1. /\ ~ Calls(p, q, f)'
        /\ Calls(p, q, f) <=> q = Queue(p) /\ f = AtFloor(p)
    BY <1>1, <1>2, SameTrips DEF Calls, Waiting
  <2> QED BY <1>3, <2>1, PersonFacts
<1>5. /\ car' \in CarType
      /\ car'.floor = car.floor /\ car'.up = car.up /\ car'.people <= Capacity
      /\ car'.people = car.people + (IF person'[p].in THEN 1 ELSE 0)
                                  - (IF person[p].in THEN 1 ELSE 0)
      /\ count' = count + (IF person'[p].at = "done" THEN 1 ELSE 0)
  BY <1>2, PersonFacts DEF StepAside, CarType
<1>6. /\ person[p].at \notin {"away", "done"} /\ person'[p].at # "away"
      /\ ~ person'[p].in
      /\ UNCHANGED <<outing, manager, cTaken, id>>
  BY <1>1, <1>2
<1> QED BY <1>2, <1>3, <1>4, <1>5, <1>6, PersonKeeps

(* A person gets into the car. *)
LEMMA GetInKeeps ==
  ASSUME ElevatorInv, NEW p \in People, person[p].at = "woken", GetIn(p),
         UNCHANGED <<outing, manager, cTaken, id, count>>
  PROVE  ElevatorInv'
<1>1. ~ person[p].in /\ AtFloor(p) # ToFloor(p) /\ car.people < Capacity
  BY DEF GetIn, MayEnter, SameFloor
<1>2. /\ person' \in PersonType
      /\ person'[p].at = "wait" /\ person'[p].in = TRUE
      /\ \A r \in People \ {p} : person'[r] = person[r]
  BY PersonFacts DEF GetIn, PersonType, Places
<1>3. /\ calls' \in CallsType
      /\ \A q \in Queues, f \in Floors :
           calls'[q][f] = IF q = Queue(p) /\ f = AtFloor(p) THEN calls[q][f] - 1
                          ELSE IF q = ToQueue(p) /\ f = ToFloor(p) THEN calls[q][f] + 1
                          ELSE calls[q][f]
  BY PersonFacts DEF GetIn, CallsType
<1>4. ASSUME NEW q \in Queues, NEW f \in Floors
      PROVE  calls'[q][f] = calls[q][f] + (IF Calls(p, q, f)' THEN 1 ELSE 0)
                                        - (IF Calls(p, q, f) THEN 1 ELSE 0)
  <2>1. /\ Calls(p, q, f)' <=> q = ToQueue(p) /\ f = ToFloor(p)
        /\ Calls(p, q, f) <=> q = Queue(p) /\ f = AtFloor(p)
    BY <1>1, <1>2, SameTrips DEF Calls, Waiting
  <2> QED BY <1>3, <2>1, PersonFacts
<1>5. /\ car' \in CarType
      /\ car'.floor = car.floor /\ car'.up = car.up /\ car'.people <= Capacity
      /\ car'.people = car.people + (IF person'[p].in THEN 1 ELSE 0)
                                  - (IF person[p].in THEN 1 ELSE 0)
      /\ count' = count + (IF person'[p].at = "done" THEN 1 ELSE 0)
  BY <1>1, <1>2, PersonFacts, FloorsAssumption DEF GetIn, CarType
<1>6. /\ person[p].at \notin {"away", "done"} /\ person'[p].at # "away"
      /\ person'[p].in => /\ person'[p].at \in {"wait", "asleep", "woken"}
                          /\ AtFloor(p) # ToFloor(p)
      /\ UNCHANGED <<outing, manager, cTaken, id>>
  BY <1>1, <1>2
<1> QED BY <1>2, <1>3, <1>4, <1>5, <1>6, PersonKeeps

(* A person gets out of the car. *)
LEMMA GetOutKeeps ==
  ASSUME ElevatorInv, NEW p \in People, person[p].at = "woken", GetOut(p),
         UNCHANGED <<outing, manager, cTaken, id, count>>
  PROVE  ElevatorInv'
<1>1. person[p].in
  BY DEF GetOut, MayLeave
<1>2. /\ person' \in PersonType
      /\ person'[p].at = "arrived" /\ person'[p].in = FALSE
      /\ \A r \in People \ {p} : person'[r] = person[r]
  BY PersonFacts DEF GetOut, PersonType, Places
<1>3. /\ calls' \in CallsType
      /\ \A q \in Queues, f \in Floors :
           calls'[q][f] = IF q = ToQueue(p) /\ f = ToFloor(p)
                          THEN calls[q][f] - 1 ELSE calls[q][f]
  BY PersonFacts DEF GetOut, CallsType
<1>4. ASSUME NEW q \in Queues, NEW f \in Floors
      PROVE  calls'[q][f] = calls[q][f] + (IF Calls(p, q, f)' THEN 1 ELSE 0)
                                        - (IF Calls(p, q, f) THEN 1 ELSE 0)
  <2>1. /\ ~ Calls(p, q, f)'
        /\ Calls(p, q, f) <=> q = ToQueue(p) /\ f = ToFloor(p)
    BY <1>1, <1>2, SameTrips DEF Calls, Waiting
  <2> QED BY <1>3, <2>1, PersonFacts
<1>5. /\ car' \in CarType
      /\ car'.floor = car.floor /\ car'.up = car.up /\ car'.people <= Capacity
      /\ car'.people = car.people + (IF person'[p].in THEN 1 ELSE 0)
                                  - (IF person[p].in THEN 1 ELSE 0)
      /\ count' = count + (IF person'[p].at = "done" THEN 1 ELSE 0)
  BY <1>1, <1>2, PersonFacts, FloorsAssumption DEF GetOut, CarType
<1>6. /\ person[p].at \notin {"away", "done"} /\ person'[p].at # "away"
      /\ ~ person'[p].in
      /\ UNCHANGED <<outing, manager, cTaken, id>>
  BY <1>1, <1>2
<1> QED BY <1>2, <1>3, <1>4, <1>5, <1>6, PersonKeeps

(* A person who has arrived is counted. *)
LEMMA BeCountedKeeps ==
  ASSUME ElevatorInv, NEW p \in People, BeCounted(p)
  PROVE  ElevatorInv'
<1>1. person[p].at = "arrived" /\ ~ person[p].in
  BY DEF ElevatorInv, BeCounted
<1>2. /\ person' \in PersonType
      /\ person'[p].at = "done" /\ person'[p].in = person[p].in
      /\ \A r \in People \ {p} : person'[r] = person[r]
  BY PersonFacts DEF BeCounted, Become, PersonType, Places
<1>3. calls' = calls /\ calls' \in CallsType /\ outing' = outing
  BY PersonFacts DEF BeCounted
<1>4. ASSUME NEW q \in Queues, NEW f \in Floors
      PROVE  calls'[q][f] = calls[q][f] + (IF Calls(p, q, f)' THEN 1 ELSE 0)
                                        - (IF Calls(p, q, f) THEN 1 ELSE 0)
  <2>1. ~ Calls(p, q, f)' /\ ~ Calls(p, q, f)
    BY <1>1, <1>2 DEF Calls, Waiting
  <2> QED BY <1>3, <2>1, PersonFacts
<1>5. /\ car' \in CarType
      /\ car'.floor = car.floor /\ car'.up = car.up /\ car'.people <= Capacity
      /\ car'.people = car.people + (IF person'[p].in THEN 1 ELSE 0)
                                  - (IF person[p].in THEN 1 ELSE 0)
      /\ count' = count + (IF person'[p].at = "done" THEN 1 ELSE 0)
  BY <1>2, PersonFacts DEF BeCounted, CarType
<1>6. /\ person[p].at \notin {"away", "done"} /\ person'[p].at # "away"
      /\ ~ person'[p].in
      /\ UNCHANGED <<outing, manager, cTaken, id>>
  BY <1>1, <1>2 DEF BeCounted
<1> QED BY <1>2, <1>3, <1>4, <1>5, <1>6, PersonKeeps

(* A step of the elevator keeps the invariant when it moves nobody between
   the car, the queues and those who arrived.                               *)
LEMMA ManagerKeeps ==
  ASSUME ElevatorInv, UNCHANGED <<outing, calls, id, count>>,
         person' \in PersonType,
         \A p \in People : /\ person'[p].in = person[p].in
                           /\ Waiting(p)' = Waiting(p)
                           /\ person'[p].at = "done" <=> person[p].at = "done"
                           /\ person'[p].at = "away" <=> person[p].at = "away"
                           /\ person'[p].in =>
                                person'[p].at \in {"wait", "asleep", "woken"},
         car' \in CarType,
         car'.people = car.people,
         manager' \in ManagerType, cTaken' \in BOOLEAN,
         manager'.at \in {"doors", "close"} =>
           IF car'.up THEN car'.floor < NumFloors ELSE car'.floor > 1,
         cTaken' <=> manager'.at = "stopped",
         manager'.at = "stopped" => \A p \in People : person'[p].at \in {"away", "done"}
  PROVE  ElevatorInv'
<1>1. People' = People /\ Floors' = Floors
  BY SameTrips DEF Floors
<1>2. ElevatorTypeOK'
  BY <1>1 DEF ElevatorInv, ElevatorTypeOK, PersonType, Places, ManagerType
<1>3. Inside' = Inside /\ \A q, f : Calling(q, f)' = Calling(q, f)
  BY SameCounts
<1>4. Done' = Done
  BY <1>1 DEF Done
<1>5. \A p \in People' :
        person'[p].in => /\ person'[p].at \in {"wait", "asleep", "woken"}
                         /\ AtFloor(p)' # ToFloor(p)'
  BY <1>1, SameTrips DEF ElevatorInv
<1>6. \A p \in People' : person'[p].at = "away" <=> p > id'
  BY <1>1 DEF ElevatorInv
<1>7. CountsExact'
  BY <1>1, <1>3 DEF ElevatorInv, CountsExact, CarType, CallsType
<1> QED BY <1>2, <1>4, <1>5, <1>6, <1>7 DEF ElevatorInv

(* The elevator's thread starts. *)
LEMMA ManagerStartKeeps ==
  ASSUME ElevatorInv, ManagerStart
  PROVE  ElevatorInv'
<1>1. /\ manager' \in ManagerType /\ manager'.at = "floor" /\ ~ cTaken
      /\ UNCHANGED <<outing, car, calls, person, cTaken, id, count>>
  BY DEF ElevatorInv, ElevatorTypeOK, ManagerStart, ManagerType
<1>2. \A p \in People : Waiting(p)' = Waiting(p)
  BY <1>1 DEF Waiting
<1>3. /\ person' \in PersonType
      /\ car' \in CarType
      /\ cTaken' \in BOOLEAN
  BY <1>1 DEF ElevatorInv, ElevatorTypeOK, PersonType, Places
<1>4. \A p \in People : person[p].in => person[p].at \in {"wait", "asleep", "woken"}
  BY DEF ElevatorInv
<1> QED BY <1>1, <1>2, <1>3, <1>4, ManagerKeeps

(* The elevator reaches a floor and decides which way it goes next. *)
LEMMA ArriveAtFloorKeeps ==
  ASSUME ElevatorInv, ArriveAtFloor
  PROVE  ElevatorInv'
<1>1. /\ manager.at = "floor" /\ ~ cTaken
      /\ UNCHANGED <<outing, calls, person, cTaken, id, count>>
  BY DEF ElevatorInv, ArriveAtFloor
<1>2. manager' \in ManagerType /\ manager'.at \in {"doors", "close"}
  BY DEF ArriveAtFloor, ManagerType
<1>3. /\ car' \in CarType
      /\ car'.people = car.people
      /\ IF car'.up THEN car'.floor < NumFloors ELSE car'.floor > 1
  <2> DEFINE up == car.floor = 1 \/ (car.floor # NumFloors /\ car.up)
  <2>1. /\ car \in CarType
        /\ car' = [car EXCEPT !.up = up]
    BY DEF ElevatorInv, ElevatorTypeOK, ArriveAtFloor
  <2>2. up \in BOOLEAN
    BY <2>1
  <2>3. IF up THEN car.floor < NumFloors ELSE car.floor > 1
    BY <2>1, FloorsAssumption DEF Floors, CarType
  <2> HIDE DEF up
  <2>4. /\ car' \in CarType
        /\ car'.people = car.people /\ car'.floor = car.floor /\ car'.up = up
    BY <2>1, <2>2 DEF CarType
  <2> QED BY <2>3, <2>4
<1>4. \A p \in People : Waiting(p)' = Waiting(p)
  BY <1>1 DEF Waiting
<1>5. person' \in PersonType /\ cTaken' \in BOOLEAN
  BY <1>1 DEF ElevatorInv, ElevatorTypeOK, PersonType, Places
<1>6. \A p \in People : person[p].in => person[p].at \in {"wait", "asleep", "woken"}
  BY DEF ElevatorInv
<1> QED BY <1>1, <1>2, <1>3, <1>4, <1>5, <1>6, ManagerKeeps

(* The elevator opens the doors and wakes up those who wait. *)
LEMMA OpenDoorsKeeps ==
  ASSUME ElevatorInv, OpenDoors
  PROVE  ElevatorInv'
<1>1. /\ manager.at = "doors" /\ ~ cTaken
      /\ UNCHANGED <<outing, car, calls, cTaken, id, count>>
  BY DEF ElevatorInv, OpenDoors
<1>2. manager' \in ManagerType /\ manager'.at \in {"doors", "close"}
  BY DEF ElevatorInv, ElevatorTypeOK, OpenDoors, ManagerType
<1>3. /\ person' \in PersonType
      /\ \A p \in People :
           /\ person'[p].in = person[p].in
           /\ person'[p].at = IF person[p].at = "asleep" THEN "woken" ELSE person[p].at
  BY DEF ElevatorInv, ElevatorTypeOK, OpenDoors, PersonType, Places
<1>4. \A p \in People : /\ Waiting(p)' = Waiting(p)
                        /\ person'[p].in =>
                             person'[p].at \in {"wait", "asleep", "woken"}
  BY <1>3 DEF ElevatorInv, Waiting
<1>5. /\ car' \in CarType /\ cTaken' \in BOOLEAN
      /\ IF car'.up THEN car'.floor < NumFloors ELSE car'.floor > 1
  BY <1>1 DEF ElevatorInv, ElevatorTypeOK
<1> QED BY <1>1, <1>2, <1>3, <1>4, <1>5, ManagerKeeps

(* The elevator moves by one floor. *)
LEMMA MoveKeeps ==
  ASSUME ElevatorInv, Move
  PROVE  ElevatorInv'
<1>1. /\ manager.at = "close" /\ ~ cTaken
      /\ UNCHANGED <<outing, calls, person, cTaken, id, count>>
  BY DEF ElevatorInv, Move
<1>2. manager' \in ManagerType /\ manager'.at = "counts"
  BY DEF ElevatorInv, ElevatorTypeOK, Move, ManagerType
<1>3. /\ car' \in CarType
      /\ car'.people = car.people
  <2> DEFINE next == IF car.up THEN car.floor + 1 ELSE car.floor - 1
  <2>1. /\ car \in CarType
        /\ car' = [car EXCEPT !.floor = next]
    BY DEF ElevatorInv, ElevatorTypeOK, Move
  <2>2. IF car.up THEN car.floor < NumFloors ELSE car.floor > 1
    BY <1>1 DEF ElevatorInv
  <2>3. next \in Floors
    BY <2>1, <2>2, FloorsAssumption DEF Floors, CarType
  <2> HIDE DEF next
  <2> QED BY <2>1, <2>3 DEF CarType
<1>4. \A p \in People : Waiting(p)' = Waiting(p)
  BY <1>1 DEF Waiting
<1>5. person' \in PersonType /\ cTaken' \in BOOLEAN
  BY <1>1 DEF ElevatorInv, ElevatorTypeOK, PersonType, Places
<1>6. \A p \in People : person[p].in => person[p].at \in {"wait", "asleep", "woken"}
  BY DEF ElevatorInv
<1> QED BY <1>1, <1>2, <1>3, <1>4, <1>5, <1>6, ManagerKeeps

(* The elevator looks at the counts: when they agree, all who came arrived. *)
LEMMA LookAtCountsKeeps ==
  ASSUME ElevatorInv, LookAtCounts
  PROVE  ElevatorInv'
<1>1. /\ manager.at = "counts" /\ ~ cTaken
      /\ UNCHANGED <<outing, car, calls, person, id, count>>
  BY DEF LookAtCounts
<1>2. /\ manager' \in ManagerType /\ cTaken' \in BOOLEAN
      /\ manager'.at = IF id = count THEN "stopped" ELSE "floor"
      /\ cTaken' <=> id = count
  BY DEF ElevatorInv, ElevatorTypeOK, LookAtCounts, ManagerType
<1>3. ASSUME id = count
      PROVE  \A p \in People : person[p].at \in {"away", "done"}
  <2>1. id \in Nat /\ Len(outing.trips) \in Nat
    BY PeopleFacts DEF ElevatorInv, ElevatorTypeOK
  <2>2. IsFiniteSet(1 .. id) /\ Cardinality(1 .. id) = id
    <3>1. IsFiniteSet(1 .. id) /\ Cardinality(1 .. id) = (IF 1 > id THEN 0 ELSE id - 1 + 1)
      BY <2>1, FS_Interval
    <3> QED BY <2>1, <3>1
  <2>3. Done \subseteq 1 .. id
    BY <2>1 DEF Done, ElevatorInv, People
  <2>4. Cardinality(Done) = Cardinality(1 .. id)
    BY <1>3, <2>2 DEF ElevatorInv
  <2>5. Done = 1 .. id
    BY <2>2, <2>3, <2>4, FS_Subset
  <2> QED BY <2>1, <2>5 DEF Done, ElevatorInv, People
<1>4. \A p \in People : Waiting(p)' = Waiting(p)
  BY <1>1 DEF Waiting
<1>5. /\ person' \in PersonType
      /\ car' \in CarType
  BY <1>1 DEF ElevatorInv, ElevatorTypeOK, PersonType, Places
<1>6. \A p \in People : person[p].in => person[p].at \in {"wait", "asleep", "woken"}
  BY DEF ElevatorInv
<1> QED BY <1>1, <1>2, <1>3, <1>4, <1>5, <1>6, ManagerKeeps

(* Nobody has come, and every number is what the arrays were found with. *)
LEMMA ElevatorInitInv == ElevatorInit => ElevatorInv
<1> SUFFICES ASSUME ElevatorInit PROVE ElevatorInv
  OBVIOUS
<1>1. /\ outing.heap \in CallsType /\ Len(outing.trips) \in Nat
      /\ \A p \in People : person[p].at = "away" /\ ~ person[p].in
  BY PeopleFacts DEF ElevatorInit
<1>2. ElevatorTypeOK
  <2>1. car \in CarType
    BY FloorsAssumption DEF ElevatorInit, Floors, CarType
  <2>2. calls \in CallsType
    BY <1>1 DEF ElevatorInit, CallsType, Queues
  <2>3. person \in PersonType
    BY DEF ElevatorInit, PersonType, Places
  <2>4. manager \in ManagerType
    BY DEF ElevatorInit, ManagerType
  <2>5. /\ outing \in Outings /\ cTaken \in BOOLEAN
        /\ id \in 0 .. Len(outing.trips) /\ count \in Nat
    <3>1. outing \in Outings /\ cTaken = FALSE /\ id = 0 /\ count = 0
      BY DEF ElevatorInit
    <3>2. cTaken \in BOOLEAN
      BY <3>1
    <3>3. id \in 0 .. Len(outing.trips) /\ count \in Nat
      <4>1. id = 0 /\ count = 0 /\ Len(outing.trips) \in Nat
        BY <1>1, <3>1
      <4> QED BY <4>1
    <3> QED BY <3>1, <3>2, <3>3
  <2> QED BY <2>1, <2>2, <2>3, <2>4, <2>5 DEF ElevatorTypeOK
<1>3. Done = {} /\ Inside = {} /\ \A q, f : Calling(q, f) = {}
  BY <1>1 DEF Done, Inside, Calling, Waiting
<1>4. Cardinality({}) = 0
  BY FS_EmptySet
<1>5. CountsExact
  <2>1. \A q, f : Cardinality(Calling(q, f)) = 0
    BY <1>3, <1>4
  <2>2. \A q \in DOMAIN calls, f \in Floors : calls[q][f] = outing.heap[q][f] /\ calls[q][f] \in Int
    BY <1>1 DEF ElevatorInit, CallsType
  <2>3. car.people = Cardinality(Inside) /\ car.people <= Capacity /\ car.floor \in Floors
    BY <1>3, <1>4, FloorsAssumption DEF ElevatorInit, Floors
  <2> QED BY <1>1, <2>1, <2>2, <2>3 DEF CountsExact
<1> QED BY <1>1, <1>2, <1>3, <1>4, <1>5 DEF ElevatorInv, ElevatorInit, People

(* Every step keeps the invariant. *)
LEMMA ElevatorNextInv == ElevatorInv /\ [ElevatorNext]_elevatorVars => ElevatorInv'
<1> SUFFICES ASSUME ElevatorInv, [ElevatorNext]_elevatorVars PROVE ElevatorInv'
  OBVIOUS
<1>1. CASE ArrivingGoingFromTo
  BY <1>1, ArrivingKeeps
<1>2. ASSUME NEW p \in People, Person(p) PROVE ElevatorInv'
  <2>1. CASE PressButton(p)
    BY <2>1, PressButtonKeeps
  <2>2. CASE WaitForDoors(p)
    BY <2>2, WaitingKeeps DEF WaitForDoors
  <2>3. CASE LookAround(p)
    <3>1. /\ person[p].at = "woken" /\ UNCHANGED <<outing, manager, cTaken, id, count>>
          /\ StepAside(p) \/ GetIn(p) \/ GetOut(p) \/ KeepWaiting(p)
      BY <2>3 DEF LookAround
    <3>2. CASE StepAside(p)
      BY <3>1, <3>2, StepAsideKeeps
    <3>3. CASE GetIn(p)
      BY <3>1, <3>3, GetInKeeps
    <3>4. CASE GetOut(p)
      BY <3>1, <3>4, GetOutKeeps
    <3>5. CASE KeepWaiting(p)
      BY <3>1, <3>5, WaitingKeeps DEF KeepWaiting
    <3> QED BY <3>1, <3>2, <3>3, <3>4, <3>5
  <2>4. CASE BeCounted(p)
    BY <2>4, BeCountedKeeps
  <2> QED BY <1>2, <2>1, <2>2, <2>3, <2>4 DEF Person
<1>3. CASE Manager
  BY <1>3, ManagerStartKeeps, ArriveAtFloorKeeps, OpenDoorsKeeps, MoveKeeps,
     LookAtCountsKeeps DEF Manager
<1>4. CASE UNCHANGED elevatorVars
  <2>1. UNCHANGED <<outing, car, manager, calls, person, cTaken, id, count>>
    BY <1>4 DEF elevatorVars
  <2>2. \A p \in People : Waiting(p)' = Waiting(p)
    BY <2>1 DEF Waiting
  <2>3. /\ person' \in PersonType /\ manager' \in ManagerType /\ cTaken' \in BOOLEAN
        /\ car' \in CarType
    BY <2>1 DEF ElevatorInv, ElevatorTypeOK, PersonType, Places, ManagerType
  <2>4. /\ \A p \in People : person[p].in => person[p].at \in {"wait", "asleep", "woken"}
        /\ manager.at \in {"doors", "close"} =>
             IF car.up THEN car.floor < NumFloors ELSE car.floor > 1
        /\ cTaken <=> manager.at = "stopped"
        /\ manager.at = "stopped" => \A p \in People : person[p].at \in {"away", "done"}
    BY DEF ElevatorInv, CountsExact
  <2> QED BY <2>1, <2>2, <2>3, <2>4, ManagerKeeps
<1> QED BY <1>1, <1>2, <1>3, <1>4 DEF ElevatorNext

(* For any building and any trips, what the elevator and its riders count
   is exact in every state of every run: never more than Capacity in the
   car, a button pressed for each person who waits or rides, and the
   elevator stopped only when all who came have arrived.                    *)
THEOREM ElevatorCountsCorrect ==
  ElevatorInit /\ [][ElevatorNext]_elevatorVars => []CountsExact
<1>1. ElevatorInv => CountsExact
  BY DEF ElevatorInv
<1> QED BY ElevatorInitInv, ElevatorNextInv, <1>1, PTL

=============================================================================
