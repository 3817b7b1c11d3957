----------------------------- MODULE SynchProofs -----------------------------
(***************************************************************************)
(* Proofs about module Synch, for any number of threads, semaphores, locks *)
(* and condition variables: no wakeup is lost, locks exclude, and what the *)
(* operations ask of the scheduler it allows.                              *)
(***************************************************************************)
EXTENDS Synch, ThreadsProofs, FiniteSetTheorems

(* A thread inside an operation is live, and one in Wait knows its lock. *)
InsideOK ==
  \A t \in Thread :
    /\ inside[t] # Outside => life[t] = "live"
    /\ inside[t] \in Cond => waitLock[t] \in Lock

(* The inductive invariant. *)
SynchInv ==
  /\ SynchTypeOK
  /\ SchedInv
  /\ InsideOK
  /\ QueuedAsleep
  /\ Conventional => SleepersQueued
  /\ MutualExclusion
  /\ NoLostV
  /\ NoLostRelease

(* List::Remove splits a queue into the thread it returns and the rest. *)
LEMMA FirstRest ==
  ASSUME NEW S, NEW q \in Seq(S)
  PROVE  /\ First(q) \in Seq(S) /\ Rest(q) \in Seq(S)
         /\ Range(q) = Range(First(q)) \cup Range(Rest(q))
         /\ IsInjective(First(q))
         /\ IsInjective(q) => /\ IsInjective(Rest(q))
                              /\ Range(First(q)) \cap Range(Rest(q)) = {}
         /\ q # <<>> => First(q) = <<Head(q)>> /\ Range(First(q)) = {Head(q)} /\ Head(q) \in S
         /\ Rest(q) # <<>> => q # <<>>
<1>1. Range(<<>>) = {} /\ IsInjective(<<>>) /\ <<>> \in Seq(S)
  BY EmptySeq DEF Range, IsInjective
<1>2. CASE q = <<>>
  BY <1>1, <1>2 DEF First, Rest
<1>3. CASE q # <<>>
  <2>1. First(q) = <<Head(q)>> /\ Rest(q) = Tail(q)
    BY <1>3 DEF First, Rest
  <2>2. /\ Head(q) \in S /\ Tail(q) \in Seq(S)
        /\ Range(q) = {Head(q)} \cup Range(Tail(q))
        /\ IsInjective(q) => IsInjective(Tail(q)) /\ Head(q) \notin Range(Tail(q))
    BY <1>3, TailFacts
  <2>3. ASSUME NEW e \in S
        PROVE  <<e>> \in Seq(S) /\ Range(<<e>>) = {e} /\ IsInjective(<<e>>)
    BY DEF Range, IsInjective
  <2> QED BY <1>3, <2>1, <2>2, <2>3
<1> QED BY <1>2, <1>3

(* The queue of an object, the thread at its front, and no thread are orders
   in which the scheduler can be asked to wake threads.                      *)
LEMMA QueuesAreWakeOrders ==
  ASSUME SynchTypeOK, QueuedAsleep
  PROVE  /\ <<>> \in WakeOrders
         /\ \A o \in Object : queue[o] \in WakeOrders /\ First(queue[o]) \in WakeOrders
<1>1. ASSUME NEW ts \in Seq(Thread), IsInjective(ts), Range(ts) \subseteq Sleeping
      PROVE  ts \in WakeOrders
  <2>1. Len(ts) \in Nat /\ DOMAIN ts = 1..Len(ts) /\ ts \in [1..Len(ts) -> Thread]
    BY LenProperties
  <2>2. ts \in [1..Len(ts) -> Sleeping]
    BY <1>1, <2>1 DEF Range
  <2>3. ts \in Injection(1..Len(ts), Thread)
    BY <1>1, <2>1 DEF Injection
  <2>4. Cardinality(1..Len(ts)) = Len(ts)
    BY <2>1, FS_Interval
  <2>5. Len(ts) <= Cardinality(Thread)
    BY <2>3, <2>4, FS_Injection, ThreadAssumption
  <2>6. Cardinality(Thread) \in Nat
    BY FS_CardinalityType, ThreadAssumption
  <2>7. Len(ts) \in 0..Cardinality(Thread)
    BY <2>1, <2>5, <2>6
  <2> QED BY <1>1, <2>2, <2>7 DEF WakeOrders
<1>2. <<>> \in WakeOrders
  <2>1. <<>> \in Seq(Thread) /\ IsInjective(<<>>) /\ Range(<<>>) = {}
    BY EmptySeq DEF IsInjective, Range
  <2> QED BY <2>1, <1>1
<1>3. ASSUME NEW o \in Object
      PROVE  queue[o] \in WakeOrders /\ First(queue[o]) \in WakeOrders
  <2>1. queue[o] \in Seq(Thread)
    BY DEF SynchTypeOK
  <2>2. IsInjective(queue[o]) /\ Range(queue[o]) \subseteq Sleeping
    BY DEF QueuedAsleep, Asleep
  <2>3. /\ First(queue[o]) \in Seq(Thread) /\ IsInjective(First(queue[o]))
        /\ Range(First(queue[o])) \subseteq Range(queue[o])
    BY <2>1, FirstRest
  <2> QED BY <1>1, <2>1, <2>2, <2>3
<1> QED BY <1>2, <1>3

(* The current thread, while it executes, is live and on no queue. *)
LEMMA SelfFacts ==
  ASSUME SynchInv, Executing
  PROVE  /\ self \in Thread /\ status[self] = "RUNNING" /\ life[self] = "live"
         /\ self \notin Sleeping
         /\ \A o \in Object : self \notin Range(queue[o])
<1>1. self \in Thread /\ status[self] = "RUNNING"
  BY DEF SynchInv, SchedInv, TypeOK, Executing, self
<1>2. life[self] = "live"
  BY <1>1 DEF SynchInv, SchedInv, TypeOK, StatusAgrees, Life
<1>3. self \notin Sleeping
  BY <1>1 DEF Sleeping
<1> QED BY <1>1, <1>2, <1>3 DEF SynchInv, QueuedAsleep, Asleep

(* A wakeup: who sleeps, and who has been woken, before and after. *)
LEMMA WakeupFacts ==
  ASSUME SynchInv, NEW ts \in WakeOrders, Wakeup(ts) \/ IdleWakeup(ts),
         UNCHANGED inside
  PROVE  /\ Sleeping' = Sleeping \ Range(ts)
         /\ \A o \in Object :
              Woken(o)' = Woken(o) \cup {t \in Range(ts) : inside[t] = o}
         /\ life' = life
<1>1. status' = MarkReady(status, ts) /\ life' = life
  BY DEF Wakeup, IdleWakeup, ReadyToRun
<1>2. Range(ts) \subseteq Sleeping
  BY WakeOrderFacts
<1>3. \A t \in Thread : status'[t] = IF t \in Range(ts) THEN "READY" ELSE status[t]
  BY <1>1 DEF MarkReady
<1>4. Sleeping' = Sleeping \ Range(ts)
  BY <1>1, <1>3 DEF Sleeping
<1>5. \A o \in Object : Woken(o)' = Woken(o) \cup {t \in Range(ts) : inside[t] = o}
  BY <1>2, <1>3 DEF Woken, Sleeping
<1> QED BY <1>1, <1>4, <1>5

(* A step of the scheduler alone changes neither. *)
LEMMA SchedFacts ==
  ASSUME SynchInv, UNCHANGED inside,
         \/ \E child \in Thread : Fork(child)
         \/ Yield \/ Dispatch \/ Halt
         \/ Finish /\ inside[self] = Outside
         \/ UNCHANGED threadVars
  PROVE  /\ Sleeping' = Sleeping
         /\ \A o \in Object : Woken(o)' = Woken(o)
         /\ \A t \in Thread : inside[t] # Outside => life'[t] = "live"
<1> USE DEF SynchInv, SchedInv, TypeOK
<1> SUFFICES ASSUME NEW t \in Thread
             PROVE  /\ (status'[t] = "BLOCKED" /\ life'[t] = "live")
                          <=> (status[t] = "BLOCKED" /\ life[t] = "live")
                    /\ inside[t] # Outside =>
                          /\ status'[t] # "BLOCKED" <=> status[t] # "BLOCKED"
                          /\ life'[t] = "live"
  BY SynchAssumption DEF Sleeping, Woken
<1>1. inside[t] # Outside => life[t] = "live"
  BY DEF InsideOK
<1>2. ASSUME NEW child \in Thread, Fork(child)
      PROVE  /\ t # child => status'[t] = status[t] /\ life'[t] = life[t]
             /\ t = child => status'[t] = "READY" /\ life[t] = "unused"
             /\ life' = [life EXCEPT ![child] = "fresh"]
  <2>1. Range(<<child>>) = {child} BY DEF Range
  <2> QED BY <1>2, <2>1 DEF Fork, ReadyToRun, MarkReady
<1>3. ASSUME NEW next \in Thread, NEW st, Run(next, st), status[next] = "READY",
             \A u \in Thread : st[u] = "BLOCKED" <=> status[u] = "BLOCKED"
      PROVE  /\ (status'[t] = "BLOCKED" /\ life'[t] = "live")
                   <=> (status[t] = "BLOCKED" /\ life[t] = "live")
             /\ inside[t] # Outside =>
                   /\ status'[t] # "BLOCKED" <=> status[t] # "BLOCKED"
                   /\ life'[t] = "live"
  <2>1. CASE t = next
    BY <1>3, <2>1 DEF Run
  <2>2. CASE t # next /\ life[next] # "fresh" /\ t = threadToBeDestroyed
    BY <1>1, <1>3, <2>2, ThreadAssumption DEF Run, CarcassIsDead
  <2>3. CASE t # next /\ (life[next] = "fresh" \/ t # threadToBeDestroyed)
    BY <1>1, <1>3, <2>3 DEF Run
  <2> QED BY <2>1, <2>2, <2>3
<1>4. readyList # <<>> => Head(readyList) \in Thread /\ status[Head(readyList)] = "READY"
  BY TailFacts DEF ReadyListExact
<1>5. CASE \E child \in Thread : Fork(child)
  BY <1>1, <1>2, <1>5 DEF StatusAgrees
<1>6. CASE Yield
  <2>1. \A u \in Thread : MarkReady(status, <<currentThread>>)[u] = "BLOCKED"
                           <=> status[u] = "BLOCKED"
    <3>1. Range(<<currentThread>>) = {currentThread} BY DEF Range
    <3> QED BY <1>6, <3>1 DEF MarkReady, Yield, Executing
  <2> QED BY <1>3, <1>4, <1>6, <2>1 DEF Yield
<1>7. CASE Dispatch
  BY <1>3, <1>4, <1>7 DEF Dispatch
<1>8. CASE Finish /\ inside[self] = Outside
  BY <1>1, <1>8 DEF Finish, Executing, self
<1>9. CASE Halt \/ UNCHANGED threadVars
  BY <1>1, <1>9 DEF Halt, threadVars
<1> QED BY <1>5, <1>6, <1>7, <1>8, <1>9

(* Going to sleep on the queue of o, after waking the threads of ts, from
   queues q that those have left.                                           *)
LEMMA SleepOnFacts ==
  ASSUME SynchInv, NEW o \in Object, NEW q \in [Object -> Seq(Thread)],
         NEW ts \in WakeOrders, SleepOn(o, q, ts),
         \A x \in Object : IsInjective(q[x]) /\ Range(q[x]) \subseteq Asleep(x) \ Range(ts)
  PROVE  /\ queue' \in [Object -> Seq(Thread)]
         /\ \A x \in Object : /\ IsInjective(queue'[x])
                              /\ Range(queue'[x]) = Range(q[x]) \cup (IF x = o THEN {self} ELSE {})
                              /\ x # o => queue'[x] = q[x]
         /\ inside' = [inside EXCEPT ![self] = o]
         /\ Sleeping' = (Sleeping \ Range(ts)) \cup {self}
         /\ \A x \in Object : Asleep(x)' = (Asleep(x) \ Range(ts)) \cup
                                           (IF x = o THEN {self} ELSE {})
         /\ \A x \in Object : Woken(x)' = (Woken(x) \ {self}) \cup
                                          {t \in Range(ts) : inside[t] = x}
         /\ life' = life
<1>1. /\ queue' = [q EXCEPT ![o] = Append(@, self)]
      /\ inside' = [inside EXCEPT ![self] = o]
      /\ Executing
      /\ status' = [MarkReady(status, ts) EXCEPT ![self] = "BLOCKED"]
      /\ life' = life
  BY DEF SleepOn, Sleep, self
<1>2. /\ self \in Thread /\ status[self] = "RUNNING" /\ life[self] = "live"
      /\ self \notin Sleeping
  BY <1>1, SelfFacts
<1>3. Range(ts) \subseteq Sleeping
  BY WakeOrderFacts
<1>4. self \notin Range(q[o])
  BY <1>2 DEF Asleep
<1>5. q[o] \in Seq(Thread) /\ IsInjective(q[o])
  OBVIOUS
<1>6. /\ Append(q[o], self) \in Seq(Thread)
      /\ Range(Append(q[o], self)) = Range(q[o]) \cup {self}
      /\ IsInjective(Append(q[o], self))
  BY <1>2, <1>4, <1>5, AppendFacts
<1>7. queue' \in [Object -> Seq(Thread)]
  BY <1>1, <1>6
<1>8. ASSUME NEW x \in Object
      PROVE  /\ IsInjective(queue'[x])
             /\ Range(queue'[x]) = Range(q[x]) \cup (IF x = o THEN {self} ELSE {})
             /\ x # o => queue'[x] = q[x]
  <2>1. CASE x = o BY <1>1, <1>6, <2>1
  <2>2. CASE x # o BY <1>1, <2>2
  <2> QED BY <2>1, <2>2
<1>9. \A t \in Thread : status'[t] = IF t = self THEN "BLOCKED"
                                     ELSE IF t \in Range(ts) THEN "READY" ELSE status[t]
  BY <1>1 DEF MarkReady
<1>10. Sleeping' = (Sleeping \ Range(ts)) \cup {self}
  BY <1>1, <1>2, <1>3, <1>9 DEF Sleeping
<1>11. \A t \in Thread : inside'[t] = IF t = self THEN o ELSE inside[t]
  BY <1>1, <1>2 DEF SynchInv, SynchTypeOK
<1>12. ASSUME NEW x \in Object
       PROVE  Asleep(x)' = (Asleep(x) \ Range(ts)) \cup (IF x = o THEN {self} ELSE {})
  BY <1>2, <1>10, <1>11 DEF Asleep, Sleeping
<1>13. ASSUME NEW x \in Object
       PROVE  Woken(x)' = (Woken(x) \ {self}) \cup {t \in Range(ts) : inside[t] = x}
  BY <1>2, <1>3, <1>9, <1>11 DEF Woken, Sleeping
<1> QED BY <1>1, <1>7, <1>8, <1>10, <1>12, <1>13

(* The same when nobody is woken: Semaphore::P and Lock::Acquire. *)
LEMMA SleepOnlyFacts ==
  ASSUME SynchInv, NEW o \in Object, SleepOn(o, queue, <<>>)
  PROVE  /\ queue' \in [Object -> Seq(Thread)]
         /\ \A x \in Object : /\ IsInjective(queue'[x])
                              /\ Range(queue'[x]) = Range(queue[x]) \cup (IF x = o THEN {self} ELSE {})
                              /\ x # o => queue'[x] = queue[x]
         /\ inside' = [inside EXCEPT ![self] = o]
         /\ Sleeping' = Sleeping \cup {self}
         /\ \A x \in Object : Asleep(x)' = Asleep(x) \cup (IF x = o THEN {self} ELSE {})
         /\ \A x \in Object : Woken(x)' = Woken(x) \ {self}
         /\ life' = life
         /\ QueuedAsleep'
         /\ Conventional => SleepersQueued'
<1> DEFINE ts == <<>>
<1>1. ts \in WakeOrders /\ Range(ts) = {}
  BY QueuesAreWakeOrders DEF Range, SynchInv
<1>2. queue \in [Object -> Seq(Thread)] /\ SleepOn(o, queue, ts)
  BY DEF SynchInv, SynchTypeOK
<1>3. \A x \in Object : IsInjective(queue[x]) /\ Range(queue[x]) \subseteq Asleep(x) \ Range(ts)
  BY <1>1 DEF SynchInv, QueuedAsleep
<1> HIDE DEF ts
<1>4. /\ queue' \in [Object -> Seq(Thread)]
      /\ \A x \in Object : /\ IsInjective(queue'[x])
                           /\ Range(queue'[x]) = Range(queue[x]) \cup (IF x = o THEN {self} ELSE {})
                           /\ x # o => queue'[x] = queue[x]
      /\ inside' = [inside EXCEPT ![self] = o]
      /\ Sleeping' = (Sleeping \ Range(ts)) \cup {self}
      /\ \A x \in Object : Asleep(x)' = (Asleep(x) \ Range(ts)) \cup
                                        (IF x = o THEN {self} ELSE {})
      /\ \A x \in Object : Woken(x)' = (Woken(x) \ {self}) \cup
                                       {t \in Range(ts) : inside[t] = x}
      /\ life' = life
  BY <1>1, <1>2, <1>3, SleepOnFacts
<1>5. /\ Sleeping' = Sleeping \cup {self}
      /\ \A x \in Object : Asleep(x)' = Asleep(x) \cup (IF x = o THEN {self} ELSE {})
      /\ \A x \in Object : Woken(x)' = Woken(x) \ {self}
  BY <1>1, <1>4
<1>6. QueuedAsleep'
  BY <1>3, <1>4, <1>5 DEF QueuedAsleep
<1>7. ASSUME Conventional PROVE SleepersQueued'
  <2>1. \A x \in Object : Range(queue[x]) = Asleep(x)
    BY <1>7 DEF SynchInv, SleepersQueued
  <2>2. ASSUME NEW x \in Object
        PROVE  IsInjective(queue'[x]) /\ Range(queue'[x]) = Asleep(x)'
    <3>1. IsInjective(queue'[x]) BY <1>4
    <3>2. Range(queue'[x]) = Range(queue[x]) \cup (IF x = o THEN {self} ELSE {}) BY <1>4
    <3>3. Asleep(x)' = Asleep(x) \cup (IF x = o THEN {self} ELSE {}) BY <1>5
    <3> QED BY <2>1, <3>1, <3>2, <3>3
  <2>3. \A t \in Sleeping' : inside'[t] \in Object
    BY <1>4, <1>5, <1>7 DEF SynchInv, SleepersQueued, SynchTypeOK, Sleeping
  <2> QED BY <2>2, <2>3 DEF SleepersQueued
<1> QED BY <1>4, <1>5, <1>6, <1>7

(* Returning from an operation. *)
LEMMA ReturnFacts ==
  ASSUME SynchInv, Executing, Return
  PROVE  /\ inside' = [inside EXCEPT ![self] = Outside]
         /\ queue' = queue /\ life' = life
         /\ Sleeping' = Sleeping
         /\ \A x \in Object : Asleep(x)' = Asleep(x)
         /\ \A x \in Object : Woken(x)' = Woken(x) \ {self}
         /\ QueuedAsleep'
         /\ Conventional => SleepersQueued'
<1>1. /\ inside' = [inside EXCEPT ![self] = Outside]
      /\ queue' = queue /\ status' = status /\ life' = life
  BY DEF Return, threadVars
<1>2. self \in Thread /\ self \notin Sleeping
  BY SelfFacts
<1>3. \A t \in Thread : inside'[t] = IF t = self THEN Outside ELSE inside[t]
  BY <1>1, <1>2 DEF SynchInv, SynchTypeOK
<1>4. Sleeping' = Sleeping
  BY <1>1 DEF Sleeping
<1>5. \A x \in Object : Asleep(x)' = Asleep(x)
  BY <1>2, <1>3, <1>4 DEF Asleep, Sleeping
<1>6. \A x \in Object : Woken(x)' = Woken(x) \ {self}
  BY <1>1, <1>3, SynchAssumption DEF Woken
<1>7. QueuedAsleep'
  BY <1>1, <1>5 DEF SynchInv, QueuedAsleep
<1>8. Conventional => SleepersQueued'
  BY <1>1, <1>2, <1>3, <1>4, <1>5 DEF SynchInv, SleepersQueued, Sleeping
<1> QED BY <1>1, <1>4, <1>5, <1>6, <1>7, <1>8

(* The sets of woken threads are finite. *)
LEMMA WokenFinite ==
  ASSUME NEW x
  PROVE  /\ IsFiniteSet(Woken(x)) /\ Cardinality(Woken(x)) \in Nat
         /\ IsFiniteSet(Woken(x)') /\ Cardinality(Woken(x)') \in Nat
<1>1. Woken(x) \in SUBSET Thread /\ Woken(x)' \in SUBSET Thread
  BY DEF Woken
<1> QED BY <1>1, FS_Subset, FS_CardinalityType, ThreadAssumption
-----------------------------------------------------------------------------
(* Each action preserves the invariant; that it preserves SchedInv follows
   from SchedStep, once the action is known to be a step of Threads.        *)

LEMMA SchedulerPreserves ==
  ASSUME SynchInv, SchedInv',
         UNCHANGED <<value, free, holder, queue, inside, waitLock>>,
         pending' \subseteq Device,
         \/ held' = held
         \/ held' = [held EXCEPT ![self] = {}],
         \/ \E child \in Thread : Fork(child)
         \/ Yield \/ Dispatch \/ Halt
         \/ Finish /\ inside[self] = Outside
         \/ UNCHANGED threadVars
  PROVE  SynchInv'
<1> USE DEF SynchInv
<1>1. self \in Thread
  BY DEF SynchTypeOK, TypeOK, self
<1>2. /\ Sleeping' = Sleeping
      /\ \A o \in Object : Woken(o)' = Woken(o)
      /\ \A t \in Thread : inside[t] # Outside => life'[t] = "live"
  BY SchedFacts
<1>3. \A o \in Object : Asleep(o)' = Asleep(o)
  BY <1>2 DEF Asleep
<1>4. SynchTypeOK'
  BY <1>1 DEF SynchTypeOK, SchedInv
<1>5. InsideOK'
  BY <1>2 DEF InsideOK
<1>6. QueuedAsleep'
  BY <1>3 DEF QueuedAsleep
<1>7. Conventional => SleepersQueued'
  BY <1>2, <1>3 DEF SleepersQueued
<1>8. MutualExclusion'
  BY <1>1 DEF MutualExclusion, SynchTypeOK
<1>9. NoLostV'
  BY <1>2 DEF NoLostV, Object
<1>10. NoLostRelease'
  BY <1>2 DEF NoLostRelease, Object
<1> QED BY <1>4, <1>5, <1>6, <1>7, <1>8, <1>9, <1>10

LEMMA PLoopPreserves ==
  ASSUME SynchInv, SchedInv', NEW s \in Sem, Executing,
         inside[self] \in {Outside, s}, PLoop(s)
  PROVE  SynchInv'
<1> USE DEF SynchInv
<1>1. /\ s \in Object /\ s \notin Cond /\ s \notin Lock
      /\ \A x \in Object \ {s} : inside[self] # x
  BY SynchAssumption DEF Object
<1>2. /\ self \in Thread /\ status[self] = "RUNNING" /\ life[self] = "live"
      /\ self \notin Sleeping
  BY SelfFacts
<1>3. UNCHANGED <<free, holder, waitLock, pending, held>>
  BY DEF PLoop
<1>4. MutualExclusion'
  BY <1>3 DEF MutualExclusion
<1>5. CASE value[s] = 0 /\ SleepOn(s, queue, <<>>) /\ UNCHANGED value
  <2>2. /\ queue' \in [Object -> Seq(Thread)]
        /\ \A x \in Object : x # s => queue'[x] = queue[x]
        /\ inside' = [inside EXCEPT ![self] = s]
        /\ \A x \in Object : Woken(x)' = Woken(x) \ {self}
        /\ life' = life
        /\ QueuedAsleep'
        /\ Conventional => SleepersQueued'
    BY <1>1, <1>5, SleepOnlyFacts
  <2>3. SynchTypeOK'
    BY <1>1, <1>2, <1>3, <1>5, <2>2 DEF SynchTypeOK, SchedInv
  <2>4. InsideOK'
    BY <1>1, <1>2, <1>3, <2>2 DEF InsideOK, SynchTypeOK
  <2>7. NoLostV'
    <3> SUFFICES ASSUME NEW x \in Sem, queue'[x] # <<>>
                 PROVE  value'[x] <= Cardinality(Woken(x)')
      BY DEF NoLostV
    <3>1. CASE x = s
      BY <1>5, <3>1, WokenFinite
    <3>2. CASE x # s
      <4>1. self \notin Woken(x) /\ x \in Object
        BY <1>1, <3>2 DEF Woken, Object
      <4>2. Woken(x)' = Woken(x) /\ queue'[x] = queue[x]
        <5>1. Woken(x)' = Woken(x) \ {self} /\ queue'[x] = queue[x]
          BY <2>2, <3>2, <4>1, Zenon
        <5> QED BY <4>1, <5>1, Zenon
      <4> QED BY <1>5, <4>2 DEF NoLostV
    <3> QED BY <3>1, <3>2
  <2>8. NoLostRelease'
    <3> SUFFICES ASSUME NEW x \in Lock, free'[x], queue'[x] # <<>>
                 PROVE  Woken(x)' # {}
      BY DEF NoLostRelease
    <3>1. self \notin Woken(x) /\ x \in Object /\ x # s
      BY <1>1 DEF Woken, Object
    <3>2. Woken(x)' = Woken(x) /\ queue'[x] = queue[x]
      <4>1. Woken(x)' = Woken(x) \ {self} /\ queue'[x] = queue[x]
        BY <2>2, <3>1, Zenon
      <4> QED BY <3>1, <4>1, Zenon
    <3> QED BY <1>3, <3>2 DEF NoLostRelease
  <2> QED BY <1>4, <2>2, <2>3, <2>4, <2>7, <2>8
<1>6. CASE value[s] > 0 /\ Return /\ value' = [value EXCEPT ![s] = @ - 1]
  <2>1. /\ inside' = [inside EXCEPT ![self] = Outside]
        /\ queue' = queue /\ life' = life
        /\ Sleeping' = Sleeping
        /\ \A x \in Object : Asleep(x)' = Asleep(x)
        /\ \A x \in Object : Woken(x)' = Woken(x) \ {self}
        /\ QueuedAsleep'
        /\ Conventional => SleepersQueued'
    BY <1>6, ReturnFacts
  <2>2. value' \in [Sem -> Nat]
    BY <1>6 DEF SynchTypeOK
  <2>3. SynchTypeOK'
    BY <1>2, <1>3, <2>1, <2>2 DEF SynchTypeOK, SchedInv
  <2>4. InsideOK'
    BY <1>2, <1>3, <2>1, SynchAssumption DEF InsideOK, SynchTypeOK, Object
  <2>7. NoLostV'
    <3> SUFFICES ASSUME NEW x \in Sem, queue[x] # <<>>
                 PROVE  value'[x] <= Cardinality(Woken(x)')
      BY <2>1 DEF NoLostV
    <3>1. value[x] <= Cardinality(Woken(x)) /\ value[x] \in Nat
      BY DEF NoLostV, SynchTypeOK
    <3>2. CASE x = s
      <4>1. Cardinality(Woken(s)') = IF self \in Woken(s) THEN Cardinality(Woken(s)) - 1
                                                          ELSE Cardinality(Woken(s))
        BY <1>1, <2>1, WokenFinite, FS_RemoveElement
      <4>2. value'[s] = value[s] - 1
        BY <1>6 DEF SynchTypeOK
      <4> QED BY <3>1, <3>2, <4>1, <4>2, WokenFinite
    <3>3. CASE x # s
      <4>1. self \notin Woken(x) /\ x \in Object
        BY <1>1, <3>3 DEF Woken, Object
      <4>2. Woken(x)' = Woken(x) /\ value'[x] = value[x]
        BY <1>6, <2>1, <3>3, <4>1 DEF SynchTypeOK
      <4> QED BY <3>1, <4>2
    <3> QED BY <3>2, <3>3
  <2>8. NoLostRelease'
    <3> SUFFICES ASSUME NEW x \in Lock, free[x], queue[x] # <<>>
                 PROVE  Woken(x)' # {}
      BY <1>3, <2>1 DEF NoLostRelease
    <3>1. self \notin Woken(x) /\ x \in Object
      BY <1>1 DEF Woken, Object
    <3> QED BY <2>1, <3>1 DEF NoLostRelease
  <2> QED BY <1>4, <2>1, <2>3, <2>4, <2>7, <2>8
<1> QED BY <1>5, <1>6 DEF PLoop

(* Taking the threads of ts, and perhaps others, off the queue of o and waking
   those of ts.                                                             *)
LEMMA DequeueFacts ==
  ASSUME SynchInv, NEW o \in Object, NEW ts \in WakeOrders, NEW rest \in Seq(Thread),
         IsInjective(rest),
         Range(ts) \subseteq Range(queue[o]),
         Range(rest) \subseteq Range(queue[o]) \ Range(ts),
         Wakeup(ts) \/ IdleWakeup(ts),
         queue' = [queue EXCEPT ![o] = rest], UNCHANGED inside
  PROVE  /\ queue' \in [Object -> Seq(Thread)] /\ queue'[o] = rest
         /\ \A x \in Object \ {o} : queue'[x] = queue[x] /\ Woken(x)' = Woken(x)
         /\ Woken(o)' = Woken(o) \cup Range(ts)
         /\ Woken(o) \cap Range(ts) = {}
         /\ life' = life
         /\ QueuedAsleep'
         /\ Conventional /\ Range(rest) = Range(queue[o]) \ Range(ts) => SleepersQueued'
<1> USE DEF SynchInv
<1>1. /\ queue' \in [Object -> Seq(Thread)] /\ queue'[o] = rest
      /\ \A x \in Object \ {o} : queue'[x] = queue[x]
  BY DEF SynchTypeOK
<1>2. /\ Sleeping' = Sleeping \ Range(ts)
      /\ \A x \in Object : Woken(x)' = Woken(x) \cup {t \in Range(ts) : inside[t] = x}
      /\ life' = life
  BY WakeupFacts
<1>3. \A t \in Range(ts) : inside[t] = o /\ t \in Sleeping
  BY DEF QueuedAsleep, Asleep
<1>4. /\ \A x \in Object \ {o} : Woken(x)' = Woken(x)
      /\ Woken(o)' = Woken(o) \cup Range(ts)
      /\ Woken(o) \cap Range(ts) = {}
  <2>1. ASSUME NEW x \in Object \ {o} PROVE {t \in Range(ts) : inside[t] = x} = {}
    BY <1>3
  <2>2. {t \in Range(ts) : inside[t] = o} = Range(ts)
    BY <1>3
  <2>3. Woken(o) \cap Range(ts) = {}
    BY <1>3 DEF Woken, Sleeping
  <2> QED BY <1>2, <2>1, <2>2, <2>3
<1>5. \A x \in Object : Asleep(x)' = IF x = o THEN Asleep(o) \ Range(ts) ELSE Asleep(x)
  BY <1>2, <1>3 DEF Asleep
<1>6. QueuedAsleep'
  <2> SUFFICES ASSUME NEW x \in Object
               PROVE  IsInjective(queue'[x]) /\ Range(queue'[x]) \subseteq Asleep(x)'
    BY DEF QueuedAsleep
  <2>1. CASE x = o BY <1>1, <1>5, <2>1 DEF QueuedAsleep
  <2>2. CASE x # o BY <1>1, <1>5, <2>2 DEF QueuedAsleep
  <2> QED BY <2>1, <2>2
<1>7. ASSUME Conventional, Range(rest) = Range(queue[o]) \ Range(ts)
      PROVE  SleepersQueued'
  <2>1. ASSUME NEW x \in Object
        PROVE  IsInjective(queue'[x]) /\ Range(queue'[x]) = Asleep(x)'
    <3>1. CASE x = o BY <1>1, <1>5, <1>7, <3>1 DEF SleepersQueued
    <3>2. CASE x # o BY <1>1, <1>5, <1>7, <3>2 DEF SleepersQueued
    <3> QED BY <3>1, <3>2
  <2>2. \A t \in Sleeping' : inside'[t] \in Object
    BY <1>2, <1>7 DEF SleepersQueued
  <2> QED BY <2>1, <2>2 DEF SleepersQueued
<1> QED BY <1>1, <1>2, <1>4, <1>6, <1>7

(* List::Remove as the dequeuing of an operation. *)
LEMMA RemoveFacts ==
  ASSUME SynchInv, NEW o \in Object
  PROVE  /\ First(queue[o]) \in WakeOrders /\ <<>> \in WakeOrders
         /\ Range(First(queue[o])) \subseteq Range(queue[o])
         /\ Rest(queue[o]) \in Seq(Thread) /\ IsInjective(Rest(queue[o]))
         /\ Range(Rest(queue[o])) = Range(queue[o]) \ Range(First(queue[o]))
         /\ Rest(queue[o]) # <<>> => queue[o] # <<>>
         /\ queue[o] # <<>> => \E t : Range(First(queue[o])) = {t}
<1> USE DEF SynchInv
<1>1. queue[o] \in Seq(Thread) /\ IsInjective(queue[o])
  BY DEF SynchTypeOK, QueuedAsleep
<1>2. First(queue[o]) \in WakeOrders /\ <<>> \in WakeOrders
  BY QueuesAreWakeOrders
<1>3. /\ Rest(queue[o]) \in Seq(Thread) /\ IsInjective(Rest(queue[o]))
      /\ Range(queue[o]) = Range(First(queue[o])) \cup Range(Rest(queue[o]))
      /\ Range(First(queue[o])) \cap Range(Rest(queue[o])) = {}
      /\ Rest(queue[o]) # <<>> => queue[o] # <<>>
      /\ queue[o] # <<>> => Range(First(queue[o])) = {Head(queue[o])}
  BY <1>1, FirstRest
<1> QED BY <1>2, <1>3

LEMMA IncrementPreserves ==
  ASSUME SynchInv, SchedInv', NEW s \in Sem,
         Wakeup(First(queue[s])) \/ IdleWakeup(First(queue[s])),
         Increment(s), pending' \subseteq Device
  PROVE  SynchInv'
<1> USE DEF SynchInv
<1> DEFINE ts == First(queue[s])
           rest == Rest(queue[s])
<1>1. /\ s \in Object /\ s \notin Lock
  BY SynchAssumption DEF Object
<1>2. /\ value' = [value EXCEPT ![s] = @ + 1]
      /\ queue' = [queue EXCEPT ![s] = rest]
      /\ UNCHANGED <<free, holder, inside, waitLock, held>>
  BY DEF Increment
<1>3. /\ ts \in WakeOrders /\ Range(ts) \subseteq Range(queue[s])
      /\ rest \in Seq(Thread) /\ IsInjective(rest)
      /\ Range(rest) = Range(queue[s]) \ Range(ts)
      /\ rest # <<>> => queue[s] # <<>>
      /\ queue[s] # <<>> => \E t : Range(ts) = {t}
  BY <1>1, RemoveFacts
<1>4. Wakeup(ts) \/ IdleWakeup(ts)
  OBVIOUS
<1> HIDE DEF ts, rest
<1>5. /\ queue' \in [Object -> Seq(Thread)] /\ queue'[s] = rest
      /\ \A x \in Object \ {s} : queue'[x] = queue[x] /\ Woken(x)' = Woken(x)
      /\ Woken(s)' = Woken(s) \cup Range(ts)
      /\ Woken(s) \cap Range(ts) = {}
      /\ life' = life
      /\ QueuedAsleep'
      /\ Conventional => SleepersQueued'
  BY <1>1, <1>2, <1>3, <1>4, DequeueFacts
<1>6. SynchTypeOK'
  BY <1>2, <1>5 DEF SynchTypeOK, SchedInv
<1>7. InsideOK'
  BY <1>2, <1>5 DEF InsideOK
<1>8. MutualExclusion'
  BY <1>2 DEF MutualExclusion
<1>9. NoLostV'
  <2> SUFFICES ASSUME NEW x \in Sem, queue'[x] # <<>>
               PROVE  value'[x] <= Cardinality(Woken(x)')
    BY DEF NoLostV
  <2>1. CASE x = s
    <3>1. queue[s] # <<>> BY <1>3, <1>5, <2>1
    <3>2. PICK t : Range(ts) = {t} BY <1>3, <3>1
    <3>3. Woken(s)' = Woken(s) \cup {t} /\ t \notin Woken(s) BY <1>5, <3>2
    <3>4. Cardinality(Woken(s)') = Cardinality(Woken(s)) + 1
      BY <3>3, WokenFinite, FS_AddElement
    <3>5. value[s] <= Cardinality(Woken(s)) /\ value'[s] = value[s] + 1 /\ value[s] \in Nat
      BY <1>2, <3>1 DEF NoLostV, SynchTypeOK
    <3> QED BY <2>1, <3>4, <3>5, WokenFinite
  <2>2. CASE x # s
    <3>1. queue'[x] = queue[x] /\ Woken(x)' = Woken(x) /\ value'[x] = value[x]
      BY <1>2, <1>5, <2>2 DEF Object, SynchTypeOK
    <3> QED BY <3>1 DEF NoLostV
  <2> QED BY <2>1, <2>2
<1>10. NoLostRelease'
  BY <1>1, <1>2, <1>5 DEF NoLostRelease, Object
<1> QED BY <1>5, <1>6, <1>7, <1>8, <1>9, <1>10

LEMMA WakeWaitersPreserves ==
  ASSUME SynchInv, SchedInv', NEW c \in Cond, NEW ts, NEW rest,
         \/ ts = First(queue[c]) /\ rest = Rest(queue[c])
         \/ ts = queue[c] /\ rest = <<>>,
         WakeWaiters(c, ts, rest)
  PROVE  SynchInv'
<1> USE DEF SynchInv
<1>1. c \in Object /\ c \notin Lock /\ c \notin Sem
  BY SynchAssumption DEF Object
<1>2. /\ ts \in WakeOrders /\ Range(ts) \subseteq Range(queue[c])
      /\ rest \in Seq(Thread) /\ IsInjective(rest)
      /\ Range(rest) = Range(queue[c]) \ Range(ts)
  <2>1. CASE ts = First(queue[c]) /\ rest = Rest(queue[c])
    BY <1>1, <2>1, RemoveFacts
  <2>2. CASE ts = queue[c] /\ rest = <<>>
    <3>1. Range(rest) = {} /\ IsInjective(rest) /\ rest \in Seq(Thread)
      BY <2>2, EmptySeq DEF Range, IsInjective
    <3>2. queue[c] \in WakeOrders
      BY <1>1, QueuesAreWakeOrders
    <3> QED BY <2>2, <3>1, <3>2
  <2> QED BY <2>1, <2>2
<1>3. /\ Wakeup(ts)
      /\ queue' = [queue EXCEPT ![c] = rest]
      /\ UNCHANGED <<value, free, holder, inside, waitLock, pending, held>>
  BY DEF WakeWaiters
<1>4. /\ queue' \in [Object -> Seq(Thread)]
      /\ \A x \in Object \ {c} : queue'[x] = queue[x] /\ Woken(x)' = Woken(x)
      /\ life' = life
      /\ QueuedAsleep'
      /\ Conventional => SleepersQueued'
  BY <1>1, <1>2, <1>3, DequeueFacts
<1>5. SynchTypeOK'
  BY <1>3, <1>4 DEF SynchTypeOK, SchedInv
<1>6. InsideOK'
  BY <1>3, <1>4 DEF InsideOK
<1>7. MutualExclusion'
  BY <1>3 DEF MutualExclusion
<1>8. NoLostV'
  BY <1>1, <1>3, <1>4 DEF NoLostV, Object
<1>9. NoLostRelease'
  BY <1>1, <1>3, <1>4 DEF NoLostRelease, Object
<1> QED BY <1>4, <1>5, <1>6, <1>7, <1>8, <1>9

LEMMA AcquireLoopPreserves ==
  ASSUME SynchInv, SchedInv', NEW l \in Lock, Executing,
         inside[self] \in {Outside, l} \cup Cond, AcquireLoop(l)
  PROVE  SynchInv'
<1> USE DEF SynchInv
<1>1. /\ l \in Object /\ l \notin Cond /\ l \notin Sem
      /\ \A x \in (Sem \cup Lock) \ {l} : x \in Object /\ inside[self] # x
  BY SynchAssumption DEF Object
<1>2. self \in Thread /\ life[self] = "live"
  BY SelfFacts
<1>3. UNCHANGED <<value, pending>>
  BY DEF AcquireLoop
<1>4. \A x \in (Sem \cup Lock) \ {l} : self \notin Woken(x)
  BY <1>1 DEF Woken
<1>5. CASE /\ ~free[l]
           /\ SleepOn(l, queue, <<>>)
           /\ UNCHANGED <<free, holder, waitLock, held>>
  <2>1. /\ queue' \in [Object -> Seq(Thread)]
        /\ \A x \in Object : x # l => queue'[x] = queue[x]
        /\ inside' = [inside EXCEPT ![self] = l]
        /\ \A x \in Object : Woken(x)' = Woken(x) \ {self}
        /\ life' = life
        /\ QueuedAsleep'
        /\ Conventional => SleepersQueued'
    BY <1>1, <1>5, SleepOnlyFacts
  <2>2. SynchTypeOK'
    BY <1>1, <1>2, <1>3, <1>5, <2>1 DEF SynchTypeOK, SchedInv
  <2>3. InsideOK'
    BY <1>1, <1>2, <1>5, <2>1 DEF InsideOK, SynchTypeOK
  <2>4. MutualExclusion'
    BY <1>5 DEF MutualExclusion
  <2>5. ASSUME NEW x \in (Sem \cup Lock) \ {l}
        PROVE  queue'[x] = queue[x] /\ Woken(x)' = Woken(x)
    <3>1. self \notin Woken(x) /\ x \in Object /\ x # l
      BY <1>1, <1>4
    <3> QED BY <2>1, <3>1
  <2>6. NoLostV'
    BY <1>1, <1>3, <2>5 DEF NoLostV
  <2>7. NoLostRelease'
    BY <1>5, <2>5 DEF NoLostRelease
  <2> QED BY <2>1, <2>2, <2>3, <2>4, <2>6, <2>7
<1>6. CASE /\ free[l]
           /\ Return
           /\ free' = [free EXCEPT ![l] = FALSE]
           /\ holder' = [holder EXCEPT ![l] = self]
           /\ waitLock' = [waitLock EXCEPT ![self] = NULL]
           /\ held' = [held EXCEPT ![self] = @ \cup {l}]
  <2>1. /\ inside' = [inside EXCEPT ![self] = Outside]
        /\ queue' = queue /\ life' = life
        /\ \A x \in Object : Woken(x)' = Woken(x) \ {self}
        /\ QueuedAsleep'
        /\ Conventional => SleepersQueued'
    BY <1>6, ReturnFacts
  <2>2. SynchTypeOK'
    BY <1>1, <1>2, <1>3, <1>6, <2>1 DEF SynchTypeOK, SchedInv
  <2>3. InsideOK'
    BY <1>2, <1>6, <2>1, SynchAssumption DEF InsideOK, SynchTypeOK, Object
  <2>4. MutualExclusion'
    <3>1. \A t \in Thread : l \notin held[t]
      BY <1>6 DEF MutualExclusion
    <3>2. /\ \A t \in Thread : held'[t] = IF t = self THEN held[t] \cup {l} ELSE held[t]
          /\ \A x \in Lock : free'[x] = IF x = l THEN FALSE ELSE free[x]
          /\ \A x \in Lock : holder'[x] = IF x = l THEN self ELSE holder[x]
          /\ \A t \in Thread : held[t] \subseteq Lock
      BY <1>2, <1>6 DEF SynchTypeOK
    <3> SUFFICES ASSUME NEW t \in Thread, NEW x \in held'[t]
                 PROVE  /\ ~free'[x] /\ holder'[x] = t
                        /\ \A u \in Thread \ {t} : x \notin held'[u]
      BY DEF MutualExclusion
    <3>3. CASE x = l BY <3>1, <3>2, <3>3
    <3>4. CASE x # l
      <4>1. x \in held[t] /\ x \in Lock BY <3>2, <3>4
      <4>2. ~free[x] /\ holder[x] = t /\ \A u \in Thread \ {t} : x \notin held[u]
        BY <4>1 DEF MutualExclusion
      <4>3. ASSUME NEW u \in Thread \ {t}
            PROVE  x \notin held'[u]
        <5>1. x \notin held[u] BY <4>2
        <5>2. held'[u] = held[u] \cup {l} \/ held'[u] = held[u] BY <3>2
        <5> QED BY <3>4, <5>1, <5>2
      <4> QED BY <3>2, <3>4, <4>1, <4>2, <4>3
    <3> QED BY <3>3, <3>4
  <2>5. ASSUME NEW x \in (Sem \cup Lock) \ {l}
        PROVE  Woken(x)' = Woken(x)
    <3>1. self \notin Woken(x) /\ x \in Object
      BY <1>1, <1>4
    <3> QED BY <2>1, <3>1
  <2>6. NoLostV'
    BY <1>1, <1>3, <2>1, <2>5 DEF NoLostV
  <2>7. NoLostRelease'
    BY <1>6, <2>1, <2>5 DEF NoLostRelease, SynchTypeOK
  <2> QED BY <2>1, <2>2, <2>3, <2>4, <2>6, <2>7
<1> QED BY <1>5, <1>6 DEF AcquireLoop

(* What Lock::Release leaves of the locks, whoever calls it. *)
LEMMA ReleaseLockFacts ==
  ASSUME SynchInv, NEW l \in Lock, Executing, MayRelease(l), ReleaseLock(l)
  PROVE  /\ free' \in [Lock -> BOOLEAN] /\ held' \in [Thread -> SUBSET Lock]
         /\ UNCHANGED <<value, holder, pending>>
         /\ \A x \in Lock \ {l} : free'[x] = free[x]
         /\ MutualExclusion'
         /\ Conventional => self = holder[l]
         /\ self # holder[l] => free' = free
<1> USE DEF SynchInv
<1>1. self \in Thread
  BY SelfFacts
<1>2. /\ free' = IF self = holder[l] THEN [free EXCEPT ![l] = TRUE] ELSE free
      /\ held' = [held EXCEPT ![self] = @ \ {l}]
      /\ UNCHANGED <<value, holder, pending>>
  BY DEF ReleaseLock
<1>3. Conventional => self = holder[l]
  BY <1>1 DEF MayRelease, MutualExclusion
<1>4. /\ \A t \in Thread : held'[t] = IF t = self THEN held[t] \ {l} ELSE held[t]
      /\ \A t \in Thread : held[t] \subseteq Lock
      /\ \A x \in Lock : free'[x] = IF x = l /\ self = holder[l] THEN TRUE ELSE free[x]
  BY <1>1, <1>2 DEF SynchTypeOK
<1>5. MutualExclusion'
  <2> SUFFICES ASSUME NEW t \in Thread, NEW x \in held'[t]
               PROVE  /\ ~free'[x] /\ holder'[x] = t
                      /\ \A u \in Thread \ {t} : x \notin held'[u]
    BY DEF MutualExclusion
  <2>1. x \in held[t] /\ x \in Lock /\ (t = self => x # l)
    BY <1>4
  <2>2. ~free[x] /\ holder[x] = t /\ \A u \in Thread \ {t} : x \notin held[u]
    BY <2>1 DEF MutualExclusion
  <2> QED BY <1>2, <1>4, <2>1, <2>2
<1> QED BY <1>1, <1>2, <1>3, <1>4, <1>5 DEF SynchTypeOK

LEMMA ReleasePreserves ==
  ASSUME SynchInv, SchedInv', NEW l \in Lock, Release(l)
  PROVE  SynchInv'
<1> USE DEF SynchInv
<1> DEFINE ts == Released(l)
           rest == Rest(queue[l])
<1>1. /\ l \in Object /\ l \notin Cond /\ l \notin Sem
  BY SynchAssumption DEF Object
<1>2. /\ Executing /\ MayRelease(l) /\ Wakeup(ts) /\ ReleaseLock(l)
      /\ queue' = [queue EXCEPT ![l] = rest]
      /\ UNCHANGED <<inside, waitLock>>
  BY DEF Release, InClient
<1>3. /\ free' \in [Lock -> BOOLEAN] /\ held' \in [Thread -> SUBSET Lock]
      /\ UNCHANGED <<value, holder, pending>>
      /\ \A x \in Lock \ {l} : free'[x] = free[x]
      /\ MutualExclusion'
      /\ Conventional => self = holder[l]
      /\ self # holder[l] => free' = free
  BY <1>2, ReleaseLockFacts
<1>4. /\ ts \in WakeOrders /\ Range(ts) \subseteq Range(queue[l])
      /\ rest \in Seq(Thread) /\ IsInjective(rest)
      /\ Range(rest) \subseteq Range(queue[l]) \ Range(ts)
      /\ self = holder[l] => Range(rest) = Range(queue[l]) \ Range(ts)
      /\ rest # <<>> => queue[l] # <<>>
      /\ self = holder[l] /\ queue[l] # <<>> => Range(ts) # {}
  <2>1. Range(<<>>) = {} BY DEF Range
  <2> QED BY <1>1, <2>1, RemoveFacts DEF Released
<1> HIDE DEF ts, rest
<1>5. /\ queue' \in [Object -> Seq(Thread)] /\ queue'[l] = rest
      /\ \A x \in Object \ {l} : queue'[x] = queue[x] /\ Woken(x)' = Woken(x)
      /\ Woken(l)' = Woken(l) \cup Range(ts)
      /\ life' = life
      /\ QueuedAsleep'
      /\ Conventional => SleepersQueued'
  BY <1>1, <1>2, <1>3, <1>4, DequeueFacts
<1>6. SynchTypeOK'
  BY <1>2, <1>3, <1>5 DEF SynchTypeOK, SchedInv
<1>7. InsideOK'
  BY <1>2, <1>5 DEF InsideOK
<1>8. NoLostV'
  BY <1>1, <1>3, <1>5 DEF NoLostV, Object
<1>9. NoLostRelease'
  <2> SUFFICES ASSUME NEW x \in Lock, free'[x], queue'[x] # <<>>
               PROVE  Woken(x)' # {}
    BY DEF NoLostRelease
  <2>1. CASE x = l /\ self = holder[l]
    BY <1>4, <1>5, <2>1
  <2>2. CASE x = l /\ self # holder[l]
    BY <1>3, <1>4, <1>5, <2>2 DEF NoLostRelease
  <2>3. CASE x # l
    BY <1>3, <1>5, <2>3 DEF NoLostRelease, Object
  <2> QED BY <2>1, <2>2, <2>3
<1> QED BY <1>3, <1>5, <1>6, <1>7, <1>8, <1>9

LEMMA WaitPreserves ==
  ASSUME SynchInv, SchedInv', NEW c \in Cond, NEW l \in Lock, Wait(c, l)
  PROVE  SynchInv'
<1> USE DEF SynchInv
<1> DEFINE ts == Released(l)
           q == [queue EXCEPT ![l] = Rest(@)]
<1>1. /\ l \in Object /\ l \notin Sem
      /\ c \in Object /\ c \notin Sem /\ c \notin Lock /\ c # l
  BY SynchAssumption DEF Object
<1>2. /\ Executing /\ inside[self] = Outside /\ MayRelease(l) /\ ReleaseLock(l)
      /\ SleepOn(c, q, ts)
      /\ waitLock' = [waitLock EXCEPT ![self] = l]
  BY DEF Wait, InClient
<1>3. /\ free' \in [Lock -> BOOLEAN] /\ held' \in [Thread -> SUBSET Lock]
      /\ UNCHANGED <<value, holder, pending>>
      /\ \A x \in Lock \ {l} : free'[x] = free[x]
      /\ MutualExclusion'
      /\ Conventional => self = holder[l]
      /\ self # holder[l] => free' = free
  BY <1>2, ReleaseLockFacts
<1>4. /\ ts \in WakeOrders /\ Range(ts) \subseteq Range(queue[l])
      /\ Rest(queue[l]) \in Seq(Thread) /\ IsInjective(Rest(queue[l]))
      /\ Range(Rest(queue[l])) \subseteq Range(queue[l]) \ Range(ts)
      /\ self = holder[l] => Range(Rest(queue[l])) = Range(queue[l]) \ Range(ts)
      /\ Rest(queue[l]) # <<>> => queue[l] # <<>>
      /\ self = holder[l] /\ queue[l] # <<>> => Range(ts) # {}
  <2>1. Range(<<>>) = {} BY DEF Range
  <2> QED BY <1>1, <2>1, RemoveFacts DEF Released
<1>5. /\ q \in [Object -> Seq(Thread)] /\ q[l] = Rest(queue[l])
      /\ \A x \in Object \ {l} : q[x] = queue[x]
  BY <1>1, <1>4 DEF SynchTypeOK
<1>6. /\ self \in Thread /\ life[self] = "live" /\ self \notin Sleeping
      /\ \A x \in Object : self \notin Woken(x)
  BY <1>2, SelfFacts, SynchAssumption DEF Woken
<1> HIDE DEF ts, q
<1>7. \A t \in Range(ts) : inside[t] = l /\ t \in Sleeping
  BY <1>1, <1>4 DEF QueuedAsleep, Asleep
<1>8. ASSUME NEW x \in Object
      PROVE  IsInjective(q[x]) /\ Range(q[x]) \subseteq Asleep(x) \ Range(ts)
  <2>1. IsInjective(queue[x]) /\ Range(queue[x]) \subseteq Asleep(x)
    BY DEF QueuedAsleep
  <2>2. CASE x = l BY <1>4, <1>5, <2>1, <2>2
  <2>3. CASE x # l
    <3>1. Asleep(x) \cap Range(ts) = {} BY <1>7, <2>3 DEF Asleep
    <3> QED BY <1>5, <2>1, <2>3, <3>1
  <2> QED BY <2>2, <2>3
<1>9. /\ queue' \in [Object -> Seq(Thread)]
      /\ \A x \in Object : /\ IsInjective(queue'[x])
                           /\ Range(queue'[x]) = Range(q[x]) \cup (IF x = c THEN {self} ELSE {})
                           /\ x # c => queue'[x] = q[x]
      /\ inside' = [inside EXCEPT ![self] = c]
      /\ Sleeping' = (Sleeping \ Range(ts)) \cup {self}
      /\ \A x \in Object : Asleep(x)' = (Asleep(x) \ Range(ts)) \cup
                                        (IF x = c THEN {self} ELSE {})
      /\ \A x \in Object : Woken(x)' = (Woken(x) \ {self}) \cup
                                       {t \in Range(ts) : inside[t] = x}
      /\ life' = life
  BY <1>1, <1>2, <1>4, <1>5, <1>8, SleepOnFacts
<1>10. SynchTypeOK'
  BY <1>1, <1>2, <1>3, <1>6, <1>9 DEF SynchTypeOK, SchedInv
<1>11. InsideOK'
  BY <1>1, <1>2, <1>6, <1>9 DEF InsideOK, SynchTypeOK
<1>12. QueuedAsleep'
  <2> SUFFICES ASSUME NEW x \in Object
               PROVE  IsInjective(queue'[x]) /\ Range(queue'[x]) \subseteq Asleep(x)'
    BY DEF QueuedAsleep
  <2> QED BY <1>8, <1>9
<1>13. ASSUME Conventional PROVE SleepersQueued'
  <2>1. ASSUME NEW x \in Object
        PROVE  Range(queue'[x]) = Asleep(x)'
    <3>1. Range(queue[x]) = Asleep(x)
      BY <1>13 DEF SleepersQueued
    <3>2. Range(q[x]) = Asleep(x) \ Range(ts)
      <4>1. CASE x = l BY <1>3, <1>4, <1>5, <1>13, <3>1, <4>1
      <4>2. CASE x # l
        <5>1. Asleep(x) \cap Range(ts) = {} BY <1>7, <4>2 DEF Asleep
        <5> QED BY <1>5, <3>1, <4>2, <5>1
      <4> QED BY <4>1, <4>2
    <3> QED BY <1>9, <3>2
  <2>2. \A t \in Sleeping' : inside'[t] \in Object
    BY <1>1, <1>6, <1>9, <1>13 DEF SleepersQueued, SynchTypeOK, Sleeping
  <2> QED BY <1>9, <2>1, <2>2 DEF SleepersQueued
<1>14. ASSUME NEW x \in Object \ {l}
       PROVE  Woken(x)' = Woken(x)
  <2>1. {t \in Range(ts) : inside[t] = x} = {} BY <1>7
  <2>2. self \notin Woken(x) BY <1>6
  <2>3. Woken(x)' = (Woken(x) \ {self}) \cup {t \in Range(ts) : inside[t] = x}
    BY <1>9
  <2> QED BY <2>1, <2>2, <2>3
<1>15. Woken(l)' = Woken(l) \cup Range(ts)
  <2>1. {t \in Range(ts) : inside[t] = l} = Range(ts) BY <1>7
  <2>2. self \notin Woken(l) BY <1>1, <1>6
  <2> QED BY <1>1, <1>9, <2>1, <2>2
<1>16. NoLostV'
  <2> SUFFICES ASSUME NEW x \in Sem, queue'[x] # <<>>
               PROVE  value'[x] <= Cardinality(Woken(x)')
    BY DEF NoLostV
  <2>1. x \in Object \ {l} /\ x # c BY <1>1 DEF Object
  <2>2. Woken(x)' = Woken(x) /\ queue'[x] = queue[x] BY <1>5, <1>9, <1>14, <2>1
  <2> QED BY <1>3, <2>2 DEF NoLostV
<1>17. NoLostRelease'
  <2> SUFFICES ASSUME NEW x \in Lock, free'[x], queue'[x] # <<>>
               PROVE  Woken(x)' # {}
    BY DEF NoLostRelease
  <2>1. x \in Object /\ x # c BY <1>1 DEF Object
  <2>2. queue'[x] = q[x] BY <1>9, <2>1
  <2>3. CASE x = l /\ self = holder[l]
    BY <1>4, <1>5, <1>15, <2>2, <2>3
  <2>4. CASE x = l /\ self # holder[l]
    BY <1>3, <1>4, <1>5, <1>15, <2>2, <2>4 DEF NoLostRelease
  <2>5. CASE x # l
    <3>1. Woken(x)' = Woken(x) /\ queue'[x] = queue[x] BY <1>5, <1>14, <2>1, <2>2, <2>5
    <3> QED BY <1>3, <2>5, <3>1 DEF NoLostRelease
  <2> QED BY <2>3, <2>4, <2>5
<1> QED BY <1>3, <1>10, <1>11, <1>12, <1>13, <1>16, <1>17
-----------------------------------------------------------------------------
(* What an operation asks of the scheduler is a step of module Threads. *)
LEMMA ThreadsSimulated ==
  ASSUME SynchInv, [Next]_vars
  PROVE  [ThreadsNext]_threadVars
<1>1. /\ <<>> \in WakeOrders
      /\ \A o \in Object : queue[o] \in WakeOrders /\ First(queue[o]) \in WakeOrders
  BY QueuesAreWakeOrders DEF SynchInv
<1>2. ASSUME NEW ts \in WakeOrders, Wakeup(ts) \/ Sleep(ts) \/ IdleWakeup(ts)
      PROVE  ThreadsNext
  BY <1>2 DEF ThreadsNext
<1>3. ASSUME NEW l \in Lock, AcquireLoop(l)
      PROVE  [ThreadsNext]_threadVars
  BY <1>1, <1>2, <1>3 DEF AcquireLoop, SleepOn, Return
<1>4. ASSUME NEW s \in Sem, P(s) \/ ResumeP(s) \/ V(s)
      PROVE  [ThreadsNext]_threadVars
  BY <1>1, <1>2, <1>4 DEF P, ResumeP, PLoop, SleepOn, Return, V, Object
<1>5. ASSUME NEW l \in Lock, Acquire(l) \/ ResumeAcquire(l) \/ Release(l)
      PROVE  [ThreadsNext]_threadVars
  BY <1>1, <1>2, <1>3, <1>5 DEF Acquire, ResumeAcquire, Release, Released, Object
<1>6. ASSUME NEW c \in Cond, ResumeWait(c) \/ Signal(c) \/ Broadcast(c)
      PROVE  [ThreadsNext]_threadVars
  <2>1. CASE ResumeWait(c)
    <3>1. waitLock[self] \in Lock
      BY <2>1, SelfFacts DEF ResumeWait, Resumed, SynchInv, InsideOK
    <3> QED BY <1>3, <2>1, <3>1 DEF ResumeWait
  <2>2. CASE Signal(c) \/ Broadcast(c)
    BY <1>1, <1>2, <2>2 DEF Signal, Broadcast, WakeWaiters, Object
  <2> QED BY <1>6, <2>1, <2>2
<1>7. ASSUME NEW c \in Cond, NEW l \in Lock, Wait(c, l)
      PROVE  [ThreadsNext]_threadVars
  BY <1>1, <1>2, <1>7 DEF Wait, SleepOn, Released, Object
<1>8. ASSUME NEW d \in Device, StartDevice(d) \/ Interrupt(d)
      PROVE  [ThreadsNext]_threadVars
  <2>1. d \in Object BY SynchAssumption DEF Object
  <2> QED BY <1>1, <1>2, <1>8, <2>1 DEF StartDevice, Interrupt
<1>9. ASSUME NEW child \in Thread, ForkThread(child)
      PROVE  [ThreadsNext]_threadVars
  BY <1>9 DEF ForkThread, ThreadsNext
<1>10. CASE YieldThread \/ FinishThread \/ DispatchThread \/ HaltMachine \/ MachineHalted
  BY <1>10 DEF YieldThread, FinishThread, DispatchThread, HaltMachine, MachineHalted,
               ThreadsNext
<1>11. CASE UNCHANGED vars
  BY <1>11 DEF vars
<1> QED BY <1>4, <1>5, <1>6, <1>7, <1>8, <1>9, <1>10, <1>11 DEF Next

LEMMA SynchInvInit == Init => SynchInv
<1> SUFFICES ASSUME Init PROVE SynchInv
  OBVIOUS
<1> USE SynchAssumption, ThreadAssumption DEF Init, SynchInit
<1>1. SchedInv
  BY SchedInit
<1>2. Sleeping = {}
  BY DEF Sleeping, ThreadsInit
<1>3. Range(<<>>) = {} /\ IsInjective(<<>>) /\ <<>> \in Seq(Thread)
  BY EmptySeq DEF Range, IsInjective
<1>4. \A o \in Object : queue[o] = <<>> /\ Asleep(o) = {}
  BY <1>2 DEF Asleep
<1>5. SynchTypeOK
  BY <1>1, <1>3 DEF SynchTypeOK, SchedInv
<1>6. InsideOK
  BY DEF InsideOK, Object
<1>7. QueuedAsleep /\ SleepersQueued
  BY <1>2, <1>3, <1>4 DEF QueuedAsleep, SleepersQueued
<1>8. MutualExclusion
  BY DEF MutualExclusion
<1>9. NoLostV /\ NoLostRelease
  BY <1>4 DEF NoLostV, NoLostRelease, Object
<1> QED BY <1>1, <1>5, <1>6, <1>7, <1>8, <1>9 DEF SynchInv

LEMMA SynchStep == SynchInv /\ [Next]_vars => SynchInv'
<1> SUFFICES ASSUME SynchInv, [Next]_vars PROVE SynchInv'
  OBVIOUS
<1>1. SchedInv'
  BY ThreadsSimulated, SchedStep DEF SynchInv
<1>2. ASSUME NEW s \in Sem, P(s) \/ ResumeP(s)
      PROVE  SynchInv'
  BY <1>1, <1>2, PLoopPreserves DEF P, ResumeP, InClient, Resumed
<1>3. ASSUME NEW s \in Sem, V(s)
      PROVE  SynchInv'
  <2>1. pending' \subseteq Device BY <1>3 DEF V, SynchInv, SynchTypeOK
  <2> QED BY <1>1, <1>3, <2>1, IncrementPreserves DEF V
<1>4. ASSUME NEW l \in Lock, Acquire(l) \/ ResumeAcquire(l)
      PROVE  SynchInv'
  BY <1>1, <1>4, AcquireLoopPreserves DEF Acquire, ResumeAcquire, InClient, Resumed
<1>5. ASSUME NEW l \in Lock, Release(l)
      PROVE  SynchInv'
  BY <1>1, <1>5, ReleasePreserves
<1>6. ASSUME NEW c \in Cond, ResumeWait(c)
      PROVE  SynchInv'
  <2>1. waitLock[self] \in Lock
    BY <1>6, SelfFacts DEF ResumeWait, Resumed, SynchInv, InsideOK
  <2> QED BY <1>1, <1>6, <2>1, AcquireLoopPreserves DEF ResumeWait, Resumed
<1>7. ASSUME NEW c \in Cond, Signal(c) \/ Broadcast(c)
      PROVE  SynchInv'
  BY <1>1, <1>7, WakeWaitersPreserves DEF Signal, Broadcast
<1>8. ASSUME NEW c \in Cond, NEW l \in Lock, Wait(c, l)
      PROVE  SynchInv'
  BY <1>1, <1>8, WaitPreserves
<1>9. ASSUME NEW d \in Device, Interrupt(d)
      PROVE  SynchInv'
  <2>1. /\ d \in Sem /\ pending' \subseteq Device
    BY <1>9, SynchAssumption DEF Interrupt, SynchInv, SynchTypeOK
  <2> QED BY <1>1, <1>9, <2>1, IncrementPreserves DEF Interrupt
<1>10. ASSUME NEW d \in Device, StartDevice(d)
       PROVE  SynchInv'
  <2>1. pending' \subseteq Device BY <1>10 DEF StartDevice, SynchInv, SynchTypeOK
  <2> QED BY <1>1, <1>10, <2>1, SchedulerPreserves DEF StartDevice
<1>11. CASE \/ \E child \in Thread : ForkThread(child)
            \/ YieldThread \/ FinishThread \/ DispatchThread \/ HaltMachine \/ MachineHalted
            \/ UNCHANGED vars
  <2>1. pending' \subseteq Device
    BY <1>11 DEF ForkThread, YieldThread, FinishThread, DispatchThread, HaltMachine,
                 MachineHalted, vars, synchVars, SynchInv, SynchTypeOK
  <2> QED BY <1>1, <1>11, <2>1, SchedulerPreserves
          DEF ForkThread, YieldThread, FinishThread, DispatchThread, HaltMachine,
              MachineHalted, Halted, InClient, vars, synchVars
<1> QED BY <1>2, <1>3, <1>4, <1>5, <1>6, <1>7, <1>8, <1>9, <1>10, <1>11 DEF Next
-----------------------------------------------------------------------------
(* The state of the synchronization objects keeps its types. *)
THEOREM SynchTypeCorrect == Spec => []SynchTypeOK
<1>1. SynchInv => SynchTypeOK BY DEF SynchInv
<1> QED BY <1>1, SynchInvInit, SynchStep, PTL DEF Spec

(* A lock excludes: at most one thread is between its Acquire, or Wait, and
   its Release, and Lock::holder names it, even if other threads break the
   convention on Release.                                                    *)
THEOREM LocksExclude == Spec => []MutualExclusion
<1>1. SynchInv => MutualExclusion BY DEF SynchInv
<1> QED BY <1>1, SynchInvInit, SynchStep, PTL DEF Spec

(* No V is lost: while threads sleep in P each unit of the value has a woken
   thread that is still to test it.                                          *)
THEOREM NoVIsLost == Spec => []NoLostV
<1>1. SynchInv => NoLostV BY DEF SynchInv
<1> QED BY <1>1, SynchInvInit, SynchStep, PTL DEF Spec

(* No Release is lost: a free lock that threads sleep for has a woken thread
   that is still to test it.                                                 *)
THEOREM NoReleaseIsLost == Spec => []NoLostRelease
<1>1. SynchInv => NoLostRelease BY DEF SynchInv
<1> QED BY <1>1, SynchInvInit, SynchStep, PTL DEF Spec

(* Whatever the threads do, a queue holds threads that sleep there. *)
THEOREM QueuesHoldSleepers == Spec => []QueuedAsleep
<1>1. SynchInv => QueuedAsleep BY DEF SynchInv
<1> QED BY <1>1, SynchInvInit, SynchStep, PTL DEF Spec

(* If only holders release locks, every sleeping thread is on the queue of
   the object it sleeps on.                                                  *)
THEOREM SleepersAreQueued == ASSUME Conventional PROVE Spec => []SleepersQueued
<1>1. SynchInv => SleepersQueued BY DEF SynchInv
<1> QED BY <1>1, SynchInvInit, SynchStep, PTL DEF Spec

(* Semaphores, locks and condition variables use the scheduler as module
   Threads allows: every behaviour of Synch is one of Threads.               *)
THEOREM SynchImplementsThreads == Spec => ImplementsThreads
<1>1. Init => ThreadsInit BY DEF Init
<1>2. SynchInv /\ [Next]_vars => [ThreadsNext]_threadVars BY ThreadsSimulated
<1> QED BY <1>1, <1>2, SynchInvInit, SynchStep, PTL DEF Spec, ImplementsThreads, ThreadsSpec

(* Interrupt::Idle stops the machine with no thread ready or running. *)
Quiet == halted => readyList = <<>> /\ status[currentThread] # "RUNNING"

LEMMA QuietStep == Quiet /\ [ThreadsNext]_threadVars => Quiet'
<1> SUFFICES ASSUME Quiet, [ThreadsNext]_threadVars PROVE Quiet'
  OBVIOUS
<1> USE DEF Quiet
<1>1. CASE halted
  BY <1>1 DEF ThreadsNext, Fork, Yield, Finish, Wakeup, Sleep, Dispatch, IdleWakeup, Halt,
              Halted, Executing, InSleep, threadVars
<1>2. CASE ~halted
  <2>1. CASE Halt BY <2>1 DEF Halt, InSleep
  <2>2. CASE ~Halt
    BY <1>2, <2>2 DEF ThreadsNext, Fork, Yield, Finish, Wakeup, Sleep, Dispatch, IdleWakeup,
                      Halted, threadVars
  <2> QED BY <2>1, <2>2
<1> QED BY <1>1, <1>2

LEMMA QuietMeansStuck ==
  ASSUME SynchInv, Quiet, Conventional
  PROVE  HaltsOnlyWhenStuck
<1> USE DEF SynchInv, SchedInv, TypeOK
<1> SUFFICES ASSUME halted, NEW t \in Thread, life[t] = "live"
             PROVE  /\ status[t] = "BLOCKED"
                    /\ inside[t] \in Sem => value[inside[t]] = 0
                    /\ inside[t] \in Lock => ~free[inside[t]]
  BY DEF HaltsOnlyWhenStuck
<1>1. readyList = <<>> /\ status[currentThread] # "RUNNING"
  BY DEF Quiet
<1>2. Range(<<>>) = {}
  BY DEF Range
<1>3. ASSUME NEW u \in Thread, life[u] = "live"
      PROVE  status[u] = "BLOCKED"
  <2>1. status[u] # "READY" BY <1>1, <1>2 DEF ReadyListExact
  <2>2. status[u] # "RUNNING" BY <1>1 DEF StatusAgrees
  <2>3. status[u] # "JUST_CREATED" BY <1>3 DEF StatusAgrees
  <2> QED BY <2>1, <2>2, <2>3 DEF Status
<1>4. ASSUME NEW o \in Object PROVE Woken(o) = {}
  <2>1. o # Outside BY SynchAssumption
  <2> QED BY <1>3, <2>1 DEF Woken, InsideOK
<1>5. ASSUME NEW o \in Object, inside[t] = o PROVE queue[o] # <<>>
  <2>1. t \in Asleep(o) BY <1>3, <1>5 DEF Asleep, Sleeping
  <2> QED BY <1>2, <2>1 DEF SleepersQueued
<1>6. ASSUME NEW s \in Sem, inside[t] = s PROVE value[s] = 0
  <2>1. s \in Object BY DEF Object
  <2>2. value[s] <= Cardinality(Woken(s)) BY <1>5, <1>6, <2>1 DEF NoLostV
  <2>3. Cardinality(Woken(s)) = 0 BY <1>4, <2>1, FS_EmptySet
  <2>4. value[s] \in Nat BY DEF SynchTypeOK
  <2> QED BY <2>2, <2>3, <2>4
<1>7. ASSUME NEW l \in Lock, inside[t] = l PROVE ~free[l]
  <2>1. l \in Object BY DEF Object
  <2> QED BY <1>4, <1>5, <1>7, <2>1 DEF NoLostRelease
<1> QED BY <1>3, <1>6, <1>7

(* If only holders release locks, the machine stops only when every thread
   left waits for something no thread has given back.                        *)
THEOREM NothingLeftToRun == ASSUME Conventional PROVE Spec => []HaltsOnlyWhenStuck
<1>1. Init => Quiet BY DEF Init, ThreadsInit, Quiet
<1>2. SynchInv /\ [Next]_vars => [ThreadsNext]_threadVars BY ThreadsSimulated
<1>3. SynchInv /\ Quiet => HaltsOnlyWhenStuck BY QuietMeansStuck
<1> QED BY <1>1, <1>2, <1>3, SynchInvInit, SynchStep, QuietStep, PTL DEF Spec
=============================================================================
