---------------------------- MODULE ThreadsProofs ----------------------------
(***************************************************************************)
(* Proofs about module Threads: the scheduler keeps its ready list, the    *)
(* status of the threads and the carcass consistent, for any number of     *)
(* threads and whatever the synchronization objects ask of it.             *)
(***************************************************************************)
EXTENDS Threads, SequenceTheorems, TLAPS

(* What Append does to the elements of a list (List::Append). *)
LEMMA AppendFacts ==
  ASSUME NEW S, NEW q \in Seq(S), NEW e \in S
  PROVE  /\ Append(q, e) \in Seq(S)
         /\ Range(Append(q, e)) = Range(q) \cup {e}
         /\ IsInjective(q) /\ e \notin Range(q) => IsInjective(Append(q, e))
<1> DEFINE a == Append(q, e)
<1>1. /\ a \in Seq(S) /\ Len(a) = Len(q) + 1
      /\ a[Len(a)] = e
      /\ \A i \in 1..Len(q) : a[i] = q[i]
  BY AppendProperties
<1>2. DOMAIN a = 1..Len(q) + 1 /\ DOMAIN q = 1..Len(q) /\ Len(q) \in Nat
  BY <1>1, LenProperties
<1>3. Range(a) = Range(q) \cup {e}
  BY <1>1, <1>2 DEF Range
<1>4. IsInjective(q) /\ e \notin Range(q) => IsInjective(a)
  BY <1>1, <1>2 DEF Range, IsInjective
<1> QED BY <1>1, <1>3, <1>4

(* What taking the first element off a list leaves (List::Remove). *)
LEMMA TailFacts ==
  ASSUME NEW S, NEW q \in Seq(S), q # <<>>
  PROVE  /\ Head(q) \in S
         /\ Tail(q) \in Seq(S)
         /\ Range(q) = {Head(q)} \cup Range(Tail(q))
         /\ IsInjective(q) => IsInjective(Tail(q)) /\ Head(q) \notin Range(Tail(q))
<1> DEFINE r == Tail(q)
<1>1. /\ Head(q) \in S /\ r \in Seq(S) /\ Len(r) = Len(q) - 1
      /\ \A i \in 1..Len(r) : r[i] = q[i + 1]
      /\ Head(q) = q[1]
  BY HeadTailProperties
<1>2. /\ DOMAIN r = 1..Len(q) - 1 /\ DOMAIN q = 1..Len(q)
      /\ Len(q) \in Nat /\ Len(q) >= 1
  BY <1>1, LenProperties, EmptySeq
<1>3. Range(q) = {q[1]} \cup Range(r)
  <2>1. ASSUME NEW x \in Range(q) PROVE x \in {q[1]} \cup Range(r)
    <3>1. PICK i \in 1..Len(q) : x = q[i]
      BY <1>2 DEF Range
    <3>2. CASE i = 1 BY <3>1, <3>2
    <3>3. CASE i # 1
      <4>1. i - 1 \in 1..Len(r) /\ r[i - 1] = q[i]
        BY <1>1, <1>2, <3>1, <3>3
      <4> QED BY <4>1, <1>1, <1>2, <3>1 DEF Range
    <3> QED BY <3>2, <3>3
  <2>2. ASSUME NEW x \in {q[1]} \cup Range(r) PROVE x \in Range(q)
    <3>1. CASE x = q[1] BY <1>2, <3>1 DEF Range
    <3>2. CASE x \in Range(r)
      <4>1. PICK i \in 1..Len(r) : x = r[i]
        BY <3>2, <1>1, <1>2 DEF Range
      <4> QED BY <4>1, <1>1, <1>2 DEF Range
    <3> QED BY <3>1, <3>2, <2>2
  <2> QED BY <2>1, <2>2
<1>4. IsInjective(q) => IsInjective(r) /\ q[1] \notin Range(r)
  BY <1>1, <1>2 DEF Range, IsInjective
<1> QED BY <1>1, <1>3, <1>4

(* What appending several elements in turn does. *)
LEMMA ConcatFacts ==
  ASSUME NEW S, NEW p \in Seq(S), NEW q \in Seq(S)
  PROVE  /\ p \o q \in Seq(S)
         /\ Range(p \o q) = Range(p) \cup Range(q)
         /\ IsInjective(p) /\ IsInjective(q) /\ Range(p) \cap Range(q) = {}
              => IsInjective(p \o q)
<1> DEFINE r == p \o q
<1>1. /\ r \in Seq(S) /\ Len(r) = Len(p) + Len(q)
      /\ \A i \in 1..Len(r) : r[i] = IF i <= Len(p) THEN p[i] ELSE q[i - Len(p)]
  BY ConcatProperties
<1>2. /\ DOMAIN r = 1..Len(p) + Len(q)
      /\ DOMAIN p = 1..Len(p) /\ DOMAIN q = 1..Len(q)
      /\ Len(p) \in Nat /\ Len(q) \in Nat
  BY <1>1, LenProperties
<1>3. Range(r) = Range(p) \cup Range(q)
  BY RangeConcatenation
<1> HIDE DEF r
<1>4. ASSUME IsInjective(p), IsInjective(q), Range(p) \cap Range(q) = {}
      PROVE  IsInjective(r)
  <2> SUFFICES ASSUME NEW i \in 1..Len(r), NEW j \in 1..Len(r), r[i] = r[j]
               PROVE  i = j
    BY <1>1, <1>2 DEF IsInjective
  <2>0. /\ \A x, y \in 1..Len(p) : p[x] = p[y] => x = y
        /\ \A x, y \in 1..Len(q) : q[x] = q[y] => x = y
        /\ \A x \in 1..Len(p), y \in 1..Len(q) : p[x] # q[y]
    <3>1. \A x, y \in 1..Len(p) : p[x] = p[y] => x = y
      BY <1>2, <1>4, Zenon DEF IsInjective
    <3>2. \A x, y \in 1..Len(q) : q[x] = q[y] => x = y
      BY <1>2, <1>4, Zenon DEF IsInjective
    <3>3. \A x \in 1..Len(p), y \in 1..Len(q) : p[x] \in Range(p) /\ q[y] \in Range(q)
      BY <1>2, Zenon DEF Range
    <3> QED BY <3>1, <3>2, <3>3, <1>4
  <2>1. CASE i <= Len(p) /\ j <= Len(p)
    BY <2>0, <2>1, <1>1, <1>2
  <2>2. CASE i > Len(p) /\ j > Len(p)
    <3>1. i - Len(p) \in 1..Len(q) /\ j - Len(p) \in 1..Len(q)
      BY <2>2, <1>1, <1>2
    <3>2. q[i - Len(p)] = q[j - Len(p)]
      BY <2>2, <1>1, <1>2
    <3>3. i - Len(p) = j - Len(p)
      BY <3>1, <3>2, <2>0
    <3> QED BY <3>3, <1>1, <1>2
  <2>3. CASE i <= Len(p) /\ j > Len(p)
    <3>1. i \in 1..Len(p) /\ j - Len(p) \in 1..Len(q)
      BY <2>3, <1>1, <1>2
    <3>2. p[i] = q[j - Len(p)]
      BY <2>3, <1>1, <1>2
    <3> QED BY <3>1, <3>2, <2>0
  <2>4. CASE i > Len(p) /\ j <= Len(p)
    <3>1. j \in 1..Len(p) /\ i - Len(p) \in 1..Len(q)
      BY <2>4, <1>1, <1>2
    <3>2. p[j] = q[i - Len(p)]
      BY <2>4, <1>1, <1>2
    <3> QED BY <3>1, <3>2, <2>0
  <2> QED BY <2>1, <2>2, <2>3, <2>4, <1>1, <1>2
<1> QED BY <1>1, <1>3, <1>4 DEF r
-----------------------------------------------------------------------------
(* The inductive invariant of the scheduler. *)
SchedInv == TypeOK /\ ReadyListExact /\ StatusAgrees /\ CarcassIsDead

(* An order in which sleeping threads are woken is a list of them. *)
LEMMA WakeOrderFacts ==
  ASSUME NEW ts \in WakeOrders
  PROVE  ts \in Seq(Thread) /\ IsInjective(ts) /\ Range(ts) \subseteq Sleeping
<1>1. PICK n \in 0..Cardinality(Thread) : ts \in [1..n -> Sleeping]
  BY DEF WakeOrders
<1>2. IsInjective(ts)
  BY DEF WakeOrders
<1>3. n \in Nat
  BY <1>1
<1>4. ts \in Seq(Thread)
  BY <1>1, <1>3 DEF Sleeping
<1>5. Range(ts) \subseteq Sleeping
  BY <1>1 DEF Range
<1> QED BY <1>2, <1>4, <1>5

(* ReadyToRun of sleeping threads keeps the ready list exact. *)
LEMMA ReadyToRunFacts ==
  ASSUME TypeOK, ReadyListExact,
         NEW ts \in Seq(Thread), IsInjective(ts),
         \A t \in Range(ts) : status[t] # "READY"
  PROVE  /\ readyList \o ts \in Seq(Thread)
         /\ IsInjective(readyList \o ts)
         /\ Range(readyList \o ts) = Range(readyList) \cup Range(ts)
         /\ MarkReady(status, ts) \in [Thread -> Status]
<1>1. Range(readyList) \cap Range(ts) = {}
  BY DEF ReadyListExact
<1>2. MarkReady(status, ts) \in [Thread -> Status]
  BY DEF MarkReady, TypeOK, Status
<1> QED BY <1>1, <1>2, ConcatFacts DEF TypeOK, ReadyListExact

LEMMA ForkPreserves ==
  ASSUME SchedInv, NEW child \in Thread, Fork(child)
  PROVE  SchedInv'
<1> DEFINE ts == <<child>>
<1> USE DEF SchedInv
<1>1. /\ ts \in Seq(Thread) /\ Range(ts) = {child} /\ IsInjective(ts)
      /\ status[child] = "JUST_CREATED"
  BY DEF Range, IsInjective, StatusAgrees, Fork
<1> HIDE DEF ts
<1>2. status' = MarkReady(status, ts) /\ readyList' = readyList \o ts
  BY DEF Fork, ReadyToRun, ts
<1>3. TypeOK'
  BY <1>1, <1>2, ReadyToRunFacts DEF Fork, TypeOK, Life
<1>4. ReadyListExact'
  BY <1>1, <1>2, ReadyToRunFacts DEF ReadyListExact, MarkReady, TypeOK
<1>5. StatusAgrees'
  BY <1>1, <1>2 DEF StatusAgrees, MarkReady, TypeOK, Fork, Executing
<1>6. CarcassIsDead'
  BY DEF CarcassIsDead, Fork, TypeOK
<1> QED BY <1>3, <1>4, <1>5, <1>6

LEMMA FinishPreserves ==
  ASSUME SchedInv, Finish
  PROVE  SchedInv'
<1> USE DEF SchedInv, Finish, Executing
<1>1. TypeOK' BY DEF TypeOK, Life, Status
<1>2. ReadyListExact' BY DEF ReadyListExact, TypeOK
<1>3. StatusAgrees' BY DEF StatusAgrees, TypeOK
<1>4. CarcassIsDead' BY DEF CarcassIsDead, TypeOK
<1> QED BY <1>1, <1>2, <1>3, <1>4

LEMMA WakeupPreserves ==
  ASSUME SchedInv, NEW ts \in WakeOrders, Wakeup(ts) \/ IdleWakeup(ts)
  PROVE  SchedInv'
<1> USE DEF SchedInv
<1>1. /\ ts \in Seq(Thread) /\ IsInjective(ts)
      /\ \A t \in Range(ts) : t \in Thread /\ status[t] = "BLOCKED" /\ life[t] = "live"
  BY WakeOrderFacts DEF Sleeping
<1>2. /\ status' = MarkReady(status, ts) /\ readyList' = readyList \o ts
      /\ UNCHANGED <<currentThread, life, threadToBeDestroyed, halted>>
      /\ idle' \in BOOLEAN
  BY DEF Wakeup, IdleWakeup, ReadyToRun, TypeOK
<1>3. TypeOK'
  BY <1>1, <1>2, ReadyToRunFacts DEF TypeOK
<1>4. ReadyListExact'
  BY <1>1, <1>2, ReadyToRunFacts DEF ReadyListExact, MarkReady, TypeOK
<1>5. StatusAgrees'
  BY <1>1, <1>2 DEF StatusAgrees, MarkReady, TypeOK
<1>6. CarcassIsDead'
  BY <1>2 DEF CarcassIsDead
<1> QED BY <1>3, <1>4, <1>5, <1>6

LEMMA SleepPreserves ==
  ASSUME SchedInv, NEW ts \in WakeOrders, Sleep(ts)
  PROVE  SchedInv'
<1> USE DEF SchedInv
<1>1. /\ ts \in Seq(Thread) /\ IsInjective(ts)
      /\ \A t \in Range(ts) : t \in Thread /\ status[t] = "BLOCKED" /\ life[t] = "live"
  BY WakeOrderFacts DEF Sleeping
<1>2. /\ status' = [MarkReady(status, ts) EXCEPT ![currentThread] = "BLOCKED"]
      /\ readyList' = readyList \o ts
      /\ UNCHANGED <<currentThread, life, threadToBeDestroyed, idle, halted>>
      /\ status[currentThread] = "RUNNING"
  BY DEF Sleep, Executing
<1>3. TypeOK'
  BY <1>1, <1>2, ReadyToRunFacts DEF TypeOK, Status
<1>4. ReadyListExact'
  BY <1>1, <1>2, ReadyToRunFacts DEF ReadyListExact, MarkReady, TypeOK
<1>5. StatusAgrees'
  BY <1>1, <1>2 DEF StatusAgrees, MarkReady, TypeOK
<1>6. CarcassIsDead'
  BY <1>2 DEF CarcassIsDead
<1> QED BY <1>3, <1>4, <1>5, <1>6

(* Scheduler::Run, for a caller that gives the old thread the status st and
   leaves the list rl behind.                                               *)
LEMMA RunPreserves ==
  ASSUME SchedInv,
         NEW next \in Thread, NEW st \in [Thread -> Status], NEW rl \in Seq(Thread),
         status[next] = "READY", Run(next, st), readyList' = rl,
         IsInjective(rl),
         Range(rl) = {t \in Thread : st[t] = "READY"} \ {next},
         \A t \in Thread \ {currentThread} : st[t] = status[t],
         \/ st[currentThread] = status[currentThread] /\ status[currentThread] # "RUNNING"
         \/ st[currentThread] = "READY" /\ status[currentThread] = "RUNNING",
         idle' \in BOOLEAN, halted' \in BOOLEAN
  PROVE  SchedInv'
<1> USE DEF SchedInv
<1>1. /\ life[next] \in {"fresh", "live"}
      /\ threadToBeDestroyed # NULL =>
           /\ threadToBeDestroyed \in Thread \ {next}
           /\ life[threadToBeDestroyed] = "finished"
           /\ status[threadToBeDestroyed] = "BLOCKED"
           /\ st[threadToBeDestroyed] = "BLOCKED"
  BY DEF StatusAgrees, CarcassIsDead, TypeOK, Life
<1>2. TypeOK'
  <2>1. status' \in [Thread -> Status]
    BY DEF Run, TypeOK, Status
  <2>2. life' \in [Thread -> Life]
    BY DEF Run, TypeOK, Life
  <2> QED BY <2>1, <2>2 DEF Run, TypeOK
<1>3. ReadyListExact'
  <2>1. \A t \in Thread : status'[t] = "READY" <=> st[t] = "READY" /\ t # next
    BY <1>1, ThreadAssumption DEF Run
  <2> QED BY <2>1 DEF ReadyListExact
<1>4. StatusAgrees'
  <2> SUFFICES ASSUME NEW t \in Thread
               PROVE  /\ status'[t] = "RUNNING" => t = currentThread'
                      /\ status'[t] = "JUST_CREATED" <=> life'[t] = "unused"
                      /\ life'[t] = "fresh" => status'[t] = "READY"
                      /\ life'[t] = "finished" => status'[t] = "BLOCKED"
    BY DEF StatusAgrees
  <2>1. CASE t = next
    BY <2>1 DEF Run
  <2>2. CASE t # next /\ life[next] # "fresh" /\ t = threadToBeDestroyed
    BY <2>2 DEF Run
  <2>3. CASE t # next /\ (life[next] = "fresh" \/ t # threadToBeDestroyed)
    BY <2>3 DEF Run, StatusAgrees, TypeOK
  <2> QED BY <2>1, <2>2, <2>3
<1>5. CarcassIsDead'
  BY <1>1 DEF Run, CarcassIsDead, TypeOK
<1> QED BY <1>2, <1>3, <1>4, <1>5

LEMMA YieldPreserves ==
  ASSUME SchedInv, Yield
  PROVE  SchedInv'
<1> USE DEF SchedInv
<1> DEFINE next == Head(readyList)
           st == MarkReady(status, <<currentThread>>)
           rl == Append(Tail(readyList), currentThread)
<1>1. readyList \in Seq(Thread) /\ readyList # <<>> /\ IsInjective(readyList)
  BY DEF Yield, TypeOK, ReadyListExact
<1>2. /\ next \in Thread /\ Tail(readyList) \in Seq(Thread)
      /\ Range(readyList) = {next} \cup Range(Tail(readyList))
      /\ IsInjective(Tail(readyList)) /\ next \notin Range(Tail(readyList))
  BY <1>1, TailFacts
<1>3. status[currentThread] = "RUNNING" /\ currentThread \in Thread
  BY DEF Yield, Executing, TypeOK
<1>4. /\ next # currentThread /\ status[next] = "READY"
      /\ currentThread \notin Range(Tail(readyList))
  BY <1>2, <1>3 DEF ReadyListExact
<1>5. /\ rl \in Seq(Thread) /\ IsInjective(rl)
      /\ Range(rl) = Range(Tail(readyList)) \cup {currentThread}
  <2> DEFINE tl == Tail(readyList)
  <2>1. /\ tl \in Seq(Thread) /\ IsInjective(tl)
        /\ currentThread \in Thread /\ currentThread \notin Range(tl)
    BY <1>2, <1>3, <1>4
  <2> HIDE DEF tl
  <2>2. /\ Append(tl, currentThread) \in Seq(Thread)
        /\ IsInjective(Append(tl, currentThread))
        /\ Range(Append(tl, currentThread)) = Range(tl) \cup {currentThread}
    BY <2>1, AppendFacts
  <2> QED BY <2>2 DEF tl
<1>6. Range(<<currentThread>>) = {currentThread}
  BY DEF Range
<1>7. /\ st \in [Thread -> Status]
      /\ st[currentThread] = "READY"
      /\ \A t \in Thread \ {currentThread} : st[t] = status[t]
  BY <1>3, <1>6 DEF MarkReady, TypeOK, Status
<1>8. Range(rl) = {t \in Thread : st[t] = "READY"} \ {next}
  BY <1>2, <1>3, <1>4, <1>5, <1>7 DEF ReadyListExact
<1>9. Run(next, st) /\ readyList' = rl /\ idle' \in BOOLEAN /\ halted' \in BOOLEAN
  BY DEF Yield, TypeOK
<1> HIDE DEF next, st, rl
<1> QED BY <1>2, <1>3, <1>4, <1>5, <1>7, <1>8, <1>9, RunPreserves

LEMMA DispatchPreserves ==
  ASSUME SchedInv, Dispatch
  PROVE  SchedInv'
<1> USE DEF SchedInv
<1> DEFINE next == Head(readyList)
           rl == Tail(readyList)
<1>1. readyList \in Seq(Thread) /\ readyList # <<>> /\ IsInjective(readyList)
  BY DEF Dispatch, TypeOK, ReadyListExact
<1>2. /\ next \in Thread /\ rl \in Seq(Thread)
      /\ Range(readyList) = {next} \cup Range(rl)
      /\ IsInjective(rl) /\ next \notin Range(rl)
  BY <1>1, TailFacts
<1>3. /\ status[next] = "READY"
      /\ Range(rl) = {t \in Thread : status[t] = "READY"} \ {next}
  BY <1>2 DEF ReadyListExact
<1>4. /\ Run(next, status) /\ readyList' = rl
      /\ idle' \in BOOLEAN /\ halted' \in BOOLEAN
      /\ status[currentThread] # "RUNNING"
      /\ status \in [Thread -> Status]
  BY DEF Dispatch, InSleep, TypeOK
<1> HIDE DEF next, rl
<1> QED BY <1>2, <1>3, <1>4, RunPreserves

(* One lemma for all steps: used again for the modules that refine Threads. *)
LEMMA SchedStep == SchedInv /\ [ThreadsNext]_threadVars => SchedInv'
<1> SUFFICES ASSUME SchedInv, [ThreadsNext]_threadVars
             PROVE  SchedInv'
  OBVIOUS
<1>1. CASE \E child \in Thread : Fork(child)
  BY <1>1, ForkPreserves
<1>2. CASE Yield
  BY <1>2, YieldPreserves
<1>3. CASE Finish
  BY <1>3, FinishPreserves
<1>4. CASE \E ts \in WakeOrders : Wakeup(ts) \/ IdleWakeup(ts)
  BY <1>4, WakeupPreserves
<1>5. CASE \E ts \in WakeOrders : Sleep(ts)
  BY <1>5, SleepPreserves
<1>6. CASE Dispatch
  BY <1>6, DispatchPreserves
<1>7. CASE Halt
  BY <1>7 DEF Halt, SchedInv, TypeOK, ReadyListExact, StatusAgrees, CarcassIsDead
<1>8. CASE UNCHANGED threadVars
  BY <1>8 DEF threadVars, SchedInv, TypeOK, ReadyListExact, StatusAgrees, CarcassIsDead
<1> QED
  BY <1>1, <1>2, <1>3, <1>4, <1>5, <1>6, <1>7, <1>8 DEF ThreadsNext, Halted

LEMMA SchedInit == ThreadsInit => SchedInv
<1> SUFFICES ASSUME ThreadsInit PROVE SchedInv
  OBVIOUS
<1> USE ThreadAssumption DEF ThreadsInit
<1>1. TypeOK
  <2>1. readyList \in Seq(Thread) BY EmptySeq
  <2>2. status \in [Thread -> Status] BY DEF Status
  <2>3. life \in [Thread -> Life] BY DEF Life
  <2> QED BY <2>1, <2>2, <2>3 DEF TypeOK
<1>2. ReadyListExact BY DEF ReadyListExact, Range, IsInjective
<1>3. StatusAgrees BY DEF StatusAgrees
<1>4. CarcassIsDead BY DEF CarcassIsDead
<1> QED BY <1>1, <1>2, <1>3, <1>4 DEF SchedInv

(* The scheduler's state keeps its types. *)
THEOREM ThreadsTypeCorrect == ThreadsSpec => []TypeOK
<1>1. SchedInv => TypeOK BY DEF SchedInv
<1> QED BY <1>1, SchedInit, SchedStep, PTL DEF ThreadsSpec

(* The ready list holds exactly the READY threads, each once. *)
THEOREM ReadyListCorrect == ThreadsSpec => []ReadyListExact
<1>1. SchedInv => ReadyListExact BY DEF SchedInv
<1> QED BY <1>1, SchedInit, SchedStep, PTL DEF ThreadsSpec

(* Status and life of the threads agree; only the current thread is RUNNING. *)
THEOREM StatusCorrect == ThreadsSpec => []StatusAgrees
<1>1. SchedInv => StatusAgrees BY DEF SchedInv
<1> QED BY <1>1, SchedInit, SchedStep, PTL DEF ThreadsSpec

(* threadToBeDestroyed is NULL or a thread that has called Finish. *)
THEOREM CarcassCorrect == ThreadsSpec => []CarcassIsDead
<1>1. SchedInv => CarcassIsDead BY DEF SchedInv
<1> QED BY <1>1, SchedInit, SchedStep, PTL DEF ThreadsSpec

(* Scheduler::Run only ever deletes a thread that has finished, and never the
   thread it has just switched to: the ASSERT of Thread::~Thread holds.      *)
THEOREM DeletionCorrect == ThreadsSpec => DeletesOnlyCarcasses
<1> DEFINE Step == \A t \in Thread :
                     life[t] # "unused" /\ life'[t] = "unused"
                       => life[t] = "finished" /\ t # currentThread'
<1>1. ASSUME SchedInv, [ThreadsNext]_threadVars
      PROVE  [Step]_threadVars
  <2> SUFFICES ASSUME ThreadsNext, NEW t \in Thread,
                      life[t] # "unused", life'[t] = "unused"
               PROVE  life[t] = "finished" /\ t # currentThread'
    BY <1>1
  <2> USE <1>1 DEF SchedInv, TypeOK
  <2>1. CASE \E child \in Thread : Fork(child)
    BY <2>1 DEF Fork
  <2>2. ASSUME NEW next, NEW st, Run(next, st)
        PROVE  life[t] = "finished" /\ t # currentThread'
    BY <2>2, ThreadAssumption DEF Run, CarcassIsDead
  <2>3. CASE Yield \/ Dispatch
    BY <2>2, <2>3 DEF Yield, Dispatch
  <2>4. CASE Finish
    BY <2>4 DEF Finish
  <2>5. CASE UNCHANGED life
    BY <2>5
  <2> QED BY <2>1, <2>3, <2>4, <2>5
          DEF ThreadsNext, Wakeup, Sleep, IdleWakeup, Halt, Halted, threadVars
<1> QED BY <1>1, SchedInit, SchedStep, PTL DEF ThreadsSpec, DeletesOnlyCarcasses
=============================================================================
