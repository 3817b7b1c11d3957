--------------------------- MODULE DevicesProofs ---------------------------
(***************************************************************************)
(* Proofs about module Devices, for any number of threads, any disk and    *)
(* any times, with and without time slices: SynchDisk returns to a thread  *)
(* when the request of that thread is done.                                *)
(***************************************************************************)
EXTENDS Devices, SequenceTheorems, WellFoundedInduction, TLAPS

Types == {"timer", "read", "write", "disk"}
Pending == [type : Types, left : Int]

(* A queue of interrupts with at most one of the disk, and that only if b. *)
Owed(queue, b) ==
  /\ queue \in Seq(Pending)
  /\ \A i, j \in 1..Len(queue) : queue[i].type = "disk" /\ queue[j].type = "disk" => i = j
  /\ \A i \in 1..Len(queue) : queue[i].type = "disk" => b

(* A set of natural numbers has a least element, and Min finds it. *)
LEMMA MinOfNats ==
  ASSUME NEW T \in SUBSET Nat, T # {}
  PROVE  Min(T) \in T
<1> DEFINE less == {ss \in Nat \X Nat : ss[1] < ss[2]}
<1>1. OpToRel(<, Nat) = less
  BY DEF OpToRel
<1>2. IsWellFoundedOn(less, Nat)
  BY <1>1, NatLessThanWellFounded
<1> HIDE DEF less
<1>3. PICK x \in T : \A y \in T : ~ (<<y, x>> \in less)
  BY <1>2, WFMin
<1>4. ASSUME NEW y \in T PROVE x =< y
  <2>1. ~ (<<y, x>> \in less) /\ x \in Nat /\ y \in Nat
    BY <1>3
  <2> QED BY <2>1 DEF less
<1>5. \E z \in T : \A y \in T : z =< y
  BY <1>4
<1> QED BY <1>5 DEF Min

LEMMA MinMaxOfTwo ==
  ASSUME NEW a \in Int, NEW b \in Int
  PROVE  Min({a, b}) \in Int /\ Max({a, b}) \in Int
<1>1. (\E x \in {a, b} : \A y \in {a, b} : x =< y) /\ (\E x \in {a, b} : \A y \in {a, b} : x >= y)
  OBVIOUS
<1>2. Min({a, b}) \in {a, b} /\ Max({a, b}) \in {a, b}
  BY <1>1 DEF Min, Max
<1> QED BY <1>2

(* SubSeq(s, 1, k - 1) \o <<e>> \o SubSeq(s, k, Len(s)), position by position. *)
LEMMA InsertAtFacts ==
  ASSUME NEW S, NEW s \in Seq(S), NEW e \in S, NEW k \in 1..Len(s) + 1
  PROVE  /\ InsertAt(s, k, e) \in Seq(S) /\ Len(InsertAt(s, k, e)) = Len(s) + 1
         /\ \A i \in 1..Len(s) + 1 :
              InsertAt(s, k, e)[i] = IF i < k THEN s[i] ELSE IF i = k THEN e ELSE s[i - 1]
<1> DEFINE a == SubSeq(s, 1, k - 1)
           b == SubSeq(s, k, Len(s))
           c == a \o <<e>>
<1>0. Len(s) \in Nat /\ k \in Nat /\ k >= 1 /\ k <= Len(s) + 1
  BY LenProperties
<1>1. a \in Seq(S) /\ Len(a) = k - 1 /\ \A i \in 1..k - 1 : a[i] = s[i]
  <2>1. \A i \in 1..k - 1 : i \in 1..Len(s)
    BY <1>0
  <2>2. a \in Seq(S)
    BY <1>0, <2>1, SubSeqProperties
  <2>3. Len(a) = IF 1 <= k - 1 THEN k - 1 - 1 + 1 ELSE 0
    BY <1>0, <2>1, SubSeqProperties
  <2>4. Len(a) = k - 1
    BY <1>0, <2>3
  <2>5. \A i \in 1..k - 1 - 1 + 1 : a[i] = s[1 + i - 1]
    BY <1>0, <2>1, SubSeqProperties
  <2>6. ASSUME NEW i \in 1..k - 1 PROVE a[i] = s[i]
    <3>1. i \in 1..k - 1 - 1 + 1 /\ 1 + i - 1 = i
      BY <1>0
    <3> QED BY <2>5, <3>1
  <2> QED BY <2>2, <2>4, <2>6
<1>2. b \in Seq(S) /\ Len(b) = Len(s) - k + 1 /\ \A i \in 1..Len(s) - k + 1 : b[i] = s[k + i - 1]
  <2>1. \A i \in k..Len(s) : i \in 1..Len(s)
    BY <1>0
  <2>2. b \in Seq(S)
    BY <1>0, <2>1, SubSeqProperties
  <2>3. Len(b) = IF k <= Len(s) THEN Len(s) - k + 1 ELSE 0
    BY <1>0, <2>1, SubSeqProperties
  <2>4. Len(b) = Len(s) - k + 1
    BY <1>0, <2>3
  <2>5. \A i \in 1..Len(s) - k + 1 : b[i] = s[k + i - 1]
    BY <1>0, <2>1, SubSeqProperties
  <2> QED BY <2>2, <2>4, <2>5
<1>3. InsertAt(s, k, e) = c \o b
  BY DEF InsertAt
<1> HIDE DEF a, b
<1>4. c \in Seq(S) /\ Len(c) = k /\ c[k] = e /\ \A i \in 1..k - 1 : c[i] = s[i]
  <2>1. <<e>> \in Seq(S) /\ Len(<<e>>) = 1 /\ <<e>>[1] = e
    OBVIOUS
  <2>2. c \in Seq(S)
    BY <1>1, <2>1, ConcatProperties
  <2>3. Len(c) = Len(a) + Len(<<e>>)
    BY <1>1, <2>1, ConcatProperties
  <2>4. \A i \in 1..Len(a) + Len(<<e>>) :
          c[i] = IF i <= Len(a) THEN a[i] ELSE <<e>>[i - Len(a)]
    BY <1>1, <2>1, ConcatProperties
  <2> HIDE DEF c
  <2>5. Len(c) = k
    BY <1>0, <1>1, <2>1, <2>3
  <2>6. c[k] = e
    <3>1. k \in 1..Len(a) + Len(<<e>>) /\ ~ (k <= Len(a)) /\ k - Len(a) = 1
      BY <1>0, <1>1, <2>1
    <3> QED BY <2>1, <2>4, <3>1
  <2>7. ASSUME NEW i \in 1..k - 1 PROVE c[i] = s[i]
    <3>1. i \in 1..Len(a) + Len(<<e>>) /\ i <= Len(a)
      BY <1>0, <1>1, <2>1
    <3> QED BY <1>1, <2>4, <3>1
  <2> QED BY <2>2, <2>5, <2>6, <2>7
<1> HIDE DEF c
<1> DEFINE r == InsertAt(s, k, e)
<1>5. r \in Seq(S)
  BY <1>2, <1>3, <1>4, ConcatProperties
<1>6. Len(r) = Len(c) + Len(b)
  <2>1. Len(c \o b) = Len(c) + Len(b)
    BY <1>2, <1>4, ConcatProperties
  <2> QED BY <1>3, <2>1
<1>7. \A i \in 1..Len(c) + Len(b) : r[i] = IF i <= Len(c) THEN c[i] ELSE b[i - Len(c)]
  BY <1>2, <1>3, <1>4, ConcatProperties
<1> HIDE DEF r
<1>8. Len(r) = Len(s) + 1
  BY <1>0, <1>2, <1>4, <1>6
<1>9. ASSUME NEW i \in 1..Len(s) + 1
      PROVE  r[i] = IF i < k THEN s[i] ELSE IF i = k THEN e ELSE s[i - 1]
  <2>1. i \in 1..Len(c) + Len(b)
    BY <1>0, <1>2, <1>4
  <2>2. CASE i < k
    <3>1. i <= Len(c) /\ i \in 1..k - 1
      BY <1>0, <1>4, <2>2
    <3> QED BY <1>4, <1>7, <2>1, <2>2, <3>1
  <2>3. CASE i = k
    <3>1. i <= Len(c) /\ ~ (i < k)
      BY <1>0, <1>4, <2>3
    <3> QED BY <1>4, <1>7, <2>1, <2>3, <3>1
  <2>4. CASE i > k
    <3>1. ~ (i <= Len(c)) /\ i - Len(c) \in 1..Len(s) - k + 1 /\ k + (i - Len(c)) - 1 = i - 1
      BY <1>0, <1>4, <2>4
    <3>2. r[i] = b[i - Len(c)]
      BY <1>7, <2>1, <3>1
    <3>3. b[i - Len(c)] = s[k + (i - Len(c)) - 1]
      BY <1>2, <3>1
    <3>4. ~ (i < k) /\ i # k
      BY <1>0, <2>4
    <3> QED BY <3>1, <3>2, <3>3, <3>4
  <2> QED BY <1>0, <2>2, <2>3, <2>4
<1> QED BY <1>5, <1>8, <1>9 DEF r

(* Interrupt::Schedule, and the put-back of CheckIfDue. *)
LEMMA InsertOwed ==
  ASSUME NEW queue, NEW b, NEW p \in Pending, Owed(queue, b),
         p.type = "disk" => b /\ \A i \in 1..Len(queue) : queue[i].type # "disk"
  PROVE  Owed(Insert(queue, p), b)
<1> DEFINE later == {i \in DOMAIN queue : p.left < queue[i].left}
           k == IF later = {} THEN Len(queue) + 1 ELSE Min(later)
           r == InsertAt(queue, k, p)
<1>1. queue \in Seq(Pending) /\ Len(queue) \in Nat /\ DOMAIN queue = 1..Len(queue)
  BY LenProperties DEF Owed
<1>2. k \in 1..Len(queue) + 1
  <2>1. later \in SUBSET Nat /\ later \subseteq 1..Len(queue)
    BY <1>1
  <2>2. later # {} => Min(later) \in later
    BY <2>1, MinOfNats
  <2>3. Len(queue) + 1 \in 1..Len(queue) + 1 /\ 1..Len(queue) \subseteq 1..Len(queue) + 1
    BY <1>1
  <2> HIDE DEF later
  <2>4. CASE later = {}
    BY <2>3, <2>4
  <2>5. CASE later # {}
    <3>1. k = Min(later)
      BY <2>5
    <3>2. Min(later) \in 1..Len(queue)
      BY <2>1, <2>2, <2>5
    <3> QED BY <2>3, <3>1, <3>2
  <2> QED BY <2>4, <2>5
<1>3. Insert(queue, p) = r
  BY DEF Insert
<1> HIDE DEF k
<1>4. /\ r \in Seq(Pending) /\ Len(r) = Len(queue) + 1
      /\ \A i \in 1..Len(queue) + 1 :
           r[i] = IF i < k THEN queue[i] ELSE IF i = k THEN p ELSE queue[i - 1]
  BY <1>1, <1>2, InsertAtFacts
<1> HIDE DEF r
<1> DEFINE from(i) == IF i < k THEN i ELSE i - 1
<1>5. \A i \in 1..Len(queue) + 1 : i # k => from(i) \in 1..Len(queue) /\ r[i] = queue[from(i)]
  BY <1>1, <1>2, <1>4
<1>6. \A i, j \in 1..Len(queue) + 1 : i # k /\ j # k /\ from(i) = from(j) => i = j
  BY <1>1, <1>2
<1>7. r[k] = p
  BY <1>1, <1>2, <1>4
<1> HIDE DEF from
<1>8. \A i \in 1..Len(r) : r[i].type = "disk" => b
  BY <1>4, <1>5, <1>7 DEF Owed
<1>9. ASSUME NEW i \in 1..Len(r), NEW j \in 1..Len(r), r[i].type = "disk", r[j].type = "disk"
      PROVE  i = j
  <2>1. CASE i # k /\ j # k
    BY <1>4, <1>5, <1>6, <1>9, <2>1 DEF Owed
  <2>2. CASE i = k /\ j # k
    BY <1>4, <1>5, <1>7, <1>9, <2>2 DEF Owed
  <2>3. CASE j = k /\ i # k
    BY <1>4, <1>5, <1>7, <1>9, <2>3 DEF Owed
  <2> QED BY <2>1, <2>2, <2>3
<1> QED BY <1>3, <1>4, <1>8, <1>9 DEF Owed

LEMMA TailOwed ==
  ASSUME NEW queue, NEW b, Owed(queue, b), queue # <<>>
  PROVE  /\ Owed(Tail(queue), b) /\ Head(queue) \in Pending
         /\ Head(queue).type = "disk" => b /\ Owed(Tail(queue), FALSE)
<1> DEFINE t == Tail(queue)
<1>1. queue \in Seq(Pending) /\ Len(queue) \in Nat
  BY LenProperties DEF Owed
<1>2. /\ t \in Seq(Pending) /\ Len(t) = Len(queue) - 1
      /\ \A i \in 1..Len(t) : t[i] = queue[i + 1]
      /\ Head(queue) = queue[1] /\ Head(queue) \in Pending
  BY <1>1, HeadTailProperties
<1>3. Len(queue) >= 1
  BY <1>1, EmptySeq
<1> HIDE DEF t
<1>4. \A i \in 1..Len(t) : i + 1 \in 1..Len(queue) /\ i + 1 # 1 /\ t[i] = queue[i + 1]
  BY <1>1, <1>2, <1>3
<1>5. 1 \in 1..Len(queue)
  BY <1>1, <1>3
<1>6. Owed(t, b)
  <2>1. \A i \in 1..Len(t) : t[i].type = "disk" => b
    BY <1>4 DEF Owed
  <2>2. ASSUME NEW i \in 1..Len(t), NEW j \in 1..Len(t), t[i].type = "disk", t[j].type = "disk"
        PROVE  i = j
    <3>1. i + 1 = j + 1
      BY <1>4, <2>2 DEF Owed
    <3> QED BY <1>2, <3>1
  <2> QED BY <1>2, <2>1, <2>2 DEF Owed
<1>7. ASSUME Head(queue).type = "disk" PROVE b /\ Owed(t, FALSE)
  <2>1. b
    BY <1>2, <1>5, <1>7 DEF Owed
  <2>2. \A i \in 1..Len(t) : t[i].type # "disk"
    BY <1>2, <1>4, <1>5, <1>7 DEF Owed
  <2> QED BY <1>6, <2>1, <2>2 DEF Owed
<1> QED BY <1>2, <1>6, <1>7 DEF t

(* The clock moves. *)
LEMMA ElapseOwed ==
  ASSUME NEW queue, NEW b, NEW k \in Int, Owed(queue, b), Elapse(k, queue), dial \in Int
  PROVE  Owed(pending', b) /\ dial' \in Int
<1>1. queue \in Seq(Pending) /\ Len(queue) \in Nat /\ DOMAIN queue = 1..Len(queue)
  BY LenProperties DEF Owed
<1>2. \A i \in 1..Len(queue) : queue[i] \in Pending
  BY <1>1, ElementOfSeq
<1>3. pending' = [i \in 1..Len(queue) |-> [queue[i] EXCEPT !.left = @ - k]]
  BY <1>1 DEF Elapse
<1>4. ASSUME NEW i \in 1..Len(queue)
      PROVE  pending'[i] \in Pending /\ pending'[i].type = queue[i].type
  <2>1. pending'[i] = [queue[i] EXCEPT !.left = queue[i].left - k]
    BY <1>3
  <2>2. queue[i] \in Pending
    BY <1>2
  <2> QED BY <2>1, <2>2 DEF Pending
<1>5. pending' \in Seq(Pending) /\ Len(pending') = Len(queue)
  <2>1. pending' \in [1..Len(queue) -> Pending]
    BY <1>3, <1>4
  <2> QED BY <1>1, <2>1, SeqDef, LenProperties
<1>6. dial' \in Int
  <2>1. Revolution \in Int /\ Revolution > 0
    BY TimesAssumption DEF Revolution
  <2> HIDE DEF Revolution
  <2> QED BY <2>1 DEF Elapse
<1> QED BY <1>4, <1>5, <1>6 DEF Owed

LEMMA PutBackOwed ==
  ASSUME NEW b, Owed(pending, b)
  PROVE  Owed(PutBack, b)
<1>1. CASE pending = <<>>
  BY <1>1 DEF PutBack
<1>2. CASE pending # <<>>
  <2> DEFINE t == Tail(pending)
             h == Head(pending)
  <2>1. /\ Owed(t, b) /\ h \in Pending
        /\ h.type = "disk" => b /\ Owed(t, FALSE)
    BY <1>2, TailOwed
  <2>2. PutBack = Insert(t, h)
    BY <1>2 DEF PutBack
  <2> HIDE DEF t, h
  <2>3. CASE h.type # "disk"
    BY <2>1, <2>2, <2>3, InsertOwed
  <2>4. CASE h.type = "disk"
    <3>1. b /\ \A i \in 1..Len(t) : t[i].type # "disk"
      BY <2>1, <2>4 DEF Owed
    <3>3. Owed(Insert(t, h), b)
      BY <2>1, <3>1, InsertOwed
    <3> QED BY <2>2, <3>3
  <2> QED BY <2>3, <2>4
<1> QED BY <1>1, <1>2

-----------------------------------------------------------------------------
(* The state of the disk and of SynchDisk.                                 *)

Disk == [active : BOOLEAN, lastSector : Int, writing : BOOLEAN, bufferAt : Int,
         bufferAge : Int]
Sems == {"disk", "readAvail", "writeDone"}
DiskPcs == {"acquire", "request", "wait", "release", "finish", "finished"}
EchoPcs == {"read", "put", "written", "next", "finished"}

DevTypeOK ==
  /\ setup \in Setups
  /\ dial \in Int
  /\ disk \in Disk
  /\ sem \in [Sems -> [value : Nat, queue : Seq(setup.threads)]]
  /\ lock \in [holder : DiskThreads \cup {Nobody}, queue : Seq(setup.threads)]
  /\ pc \in [setup.threads -> DiskPcs \cup EchoPcs]
  /\ \A t \in setup.threads : pc[t] \in (IF t = "echo" THEN EchoPcs ELSE DiskPcs)

\* No completion is left over while nobody holds the lock.
NothingLeftOver == lock.holder = Nobody => sem["disk"].value = 0

DevInv ==
  /\ DevTypeOK
  /\ Owed(pending, disk.active)
  /\ CompletionIsOwn
  /\ NothingLeftOver

\* What the clock and the scheduler may do to them.
Quiet == dial' \in Int /\ disk' \in Disk /\ (disk'.active <=> disk.active)

LEMMA AgedDisk ==
  ASSUME disk \in Disk, NEW k \in Int
  PROVE  Aged(disk, k) \in Disk /\ (Aged(disk, k).active <=> disk.active)
<1>1. Revolution \in Int
  BY TimesAssumption DEF Revolution
<1> HIDE DEF Revolution
<1>2. disk.bufferAge + k \in Int
  BY DEF Disk
<1> DEFINE m == Min({disk.bufferAge + k, Revolution})
<1>3. m \in Int
  BY <1>1, <1>2, MinMaxOfTwo
<1>4. Aged(disk, k) = [disk EXCEPT !.bufferAge = m]
  BY DEF Aged
<1> HIDE DEF m
<1> QED BY <1>3, <1>4 DEF Disk

LEMMA TickQuiet ==
  ASSUME NEW queue, NEW b, Owed(queue, b), Tick(queue), DevTypeOK
  PROVE  Owed(pending', b) /\ Quiet
<1>1. SystemTick \in Int /\ dial \in Int /\ disk \in Disk
  BY TimesAssumption DEF DevTypeOK
<1>2. Owed(pending', b) /\ dial' \in Int
  BY <1>1, ElapseOwed DEF Tick
<1>3. disk' \in Disk /\ (disk'.active <=> disk.active)
  BY <1>1, AgedDisk DEF Tick
<1> QED BY <1>2, <1>3 DEF Quiet

LEMMA DispatchQuiet ==
  ASSUME NEW list, NEW back, NEW queue, NEW b, Owed(queue, b),
         Dispatch(list, back, queue), DevTypeOK
  PROVE  Owed(pending', b) /\ Quiet
<1>1. CASE Tick(queue)
  BY <1>1, TickQuiet
<1>2. CASE pending' = queue /\ UNCHANGED <<dial, disk>>
  BY <1>2 DEF Quiet, DevTypeOK
<1> QED BY <1>1, <1>2 DEF Dispatch

LEMMA VFacts ==
  ASSUME DevTypeOK, NEW s \in Sems, V(s)
  PROVE  /\ sem' \in [Sems -> [value : Nat, queue : Seq(setup.threads)]]
         /\ sem'[s].value = sem[s].value + 1
         /\ \A r \in Sems : r # s => sem'[r] = sem[r]
<1> DEFINE R == [value : Nat, queue : Seq(setup.threads)]
           asleep == sem[s].queue
           q == IF asleep = <<>> THEN asleep ELSE Tail(asleep)
           n == sem[s].value + 1
           x == [value |-> n, queue |-> q]
<1>1. sem \in [Sems -> R] /\ sem[s] \in R /\ asleep \in Seq(setup.threads) /\ n \in Nat
  BY DEF DevTypeOK
<1>2. q \in Seq(setup.threads)
  BY <1>1, HeadTailProperties
<1>3. sem' = [sem EXCEPT ![s] = x]
  <2>1. sem' = [sem EXCEPT ![s].value = n, ![s].queue = q]
    BY DEF V
  <2>2. [[sem[s] EXCEPT !.value = n] EXCEPT !.queue = q] = x
    <3> HIDE DEF n, q
    <3> DEFINE y == [value |-> n, queue |-> sem[s].queue]
    <3>1. [sem[s] EXCEPT !.value = n] = y
      BY <1>1
    <3>2. [y EXCEPT !.queue = q] = x
      OBVIOUS
    <3> QED BY <3>1, <3>2
  <2> HIDE DEF n, q
  <2> QED BY <1>1, <2>1, <2>2
<1> HIDE DEF q, n
<1>4. x \in R
  BY <1>1, <1>2
<1>5. x.value = n
  OBVIOUS
<1> HIDE DEF x
<1>6. sem' \in [Sems -> R] /\ sem'[s] = x /\ \A r \in Sems : r # s => sem'[r] = sem[r]
  <2> HIDE DEF R
  <2> QED BY <1>1, <1>3, <1>4
<1> QED BY <1>5, <1>6 DEF n

(* What the interrupt at the head of the queue does: nothing to the disk,  *)
(* or it ends the request that the disk works on.                          *)
LEMMA FireFacts ==
  ASSUME NEW k \in Int, DevTypeOK, Owed(pending, disk.active), pending # <<>>, Fire(k)
  PROVE  /\ dial' \in Int /\ disk' \in Disk
         /\ sem' \in [Sems -> [value : Nat, queue : Seq(setup.threads)]]
         /\ Owed(pending', disk'.active)
         /\ \/ (disk'.active <=> disk.active) /\ sem'["disk"].value = sem["disk"].value
            \/ disk.active /\ ~ disk'.active /\ sem'["disk"].value = sem["disk"].value + 1
<1> DEFINE rest == Tail(pending)
           type == Head(pending).type
<1>1. /\ Owed(rest, disk.active) /\ Head(pending) \in Pending
      /\ type = "disk" => disk.active /\ Owed(rest, FALSE)
  BY TailOwed
<1>2. type \in Types
  BY <1>1 DEF Pending
<1>3. dial \in Int /\ disk \in Disk
  BY DEF DevTypeOK
<1>4. Aged(disk, k) \in Disk /\ (Aged(disk, k).active <=> disk.active)
  BY <1>3, AgedDisk
<1>5. /\ type = "timer" => TimerExpired(rest, k)
      /\ type = "read" => CheckCharAvail(rest, k)
      /\ type = "write" => WriteDone(rest, k)
      /\ type = "disk" => HandleInterrupt(rest, k)
  BY <1>2 DEF Fire, Types
<1> HIDE DEF rest, type
<1> DEFINE Goal ==
             /\ dial' \in Int /\ disk' \in Disk
             /\ sem' \in [Sems -> [value : Nat, queue : Seq(setup.threads)]]
             /\ Owed(pending', disk'.active)
             /\ \/ (disk'.active <=> disk.active) /\ sem'["disk"].value = sem["disk"].value
                \/ disk.active /\ ~ disk'.active /\ sem'["disk"].value = sem["disk"].value + 1
<1>6. ASSUME disk' = Aged(disk, k), Owed(pending', disk.active), dial' \in Int,
             sem' \in [Sems -> [value : Nat, queue : Seq(setup.threads)]],
             sem'["disk"].value = sem["disk"].value
      PROVE  Goal
  <2>1. disk' \in Disk /\ (disk'.active <=> disk.active)
    BY <1>4, <1>6
  <2>2. Owed(pending', disk'.active)
    BY <1>6, <2>1 DEF Owed
  <2> QED BY <1>6, <2>1, <2>2
<1>7. ASSUME NoV
      PROVE  /\ sem' \in [Sems -> [value : Nat, queue : Seq(setup.threads)]]
             /\ sem'["disk"].value = sem["disk"].value
  BY <1>7 DEF NoV, DevTypeOK
<1>8. ASSUME NEW s \in Sems, V(s)
      PROVE  /\ sem' \in [Sems -> [value : Nat, queue : Seq(setup.threads)]]
             /\ s # "disk" => sem'["disk"].value = sem["disk"].value
             /\ s = "disk" => sem'["disk"].value = sem["disk"].value + 1
  <2>1. "disk" \in Sems
    BY DEF Sems
  <2> QED BY <1>8, <2>1, VFacts
<1>9. CASE type = "timer"
  <2>1. TimerExpired(rest, k)
    BY <1>5, <1>9
  <2>2. PICK d \in 1 .. 2 * TimerTicks : Elapse(k, Schedule(rest, "timer", k + d))
    BY <2>1 DEF TimerExpired
  <2>3. Owed(Schedule(rest, "timer", k + d), disk.active)
    <3>1. [type |-> "timer", left |-> k + d] \in Pending
      BY TimesAssumption DEF Pending, Types
    <3> QED BY <1>1, <3>1, InsertOwed DEF Schedule
  <2>4. Owed(pending', disk.active) /\ dial' \in Int
    BY <1>3, <2>2, <2>3, ElapseOwed
  <2> QED BY <1>6, <1>7, <2>1, <2>4 DEF TimerExpired
<1>10. CASE type = "read"
  <2>1. CheckCharAvail(rest, k)
    BY <1>5, <1>10
  <2>3. Owed(Schedule(rest, "read", k + ConsoleTime), disk.active)
    <3>1. [type |-> "read", left |-> k + ConsoleTime] \in Pending
      BY TimesAssumption DEF Pending, Types
    <3> QED BY <1>1, <3>1, InsertOwed DEF Schedule
  <2>4. Owed(pending', disk.active) /\ dial' \in Int
    BY <1>3, <2>1, <2>3, ElapseOwed DEF CheckCharAvail
  <2>5. /\ sem' \in [Sems -> [value : Nat, queue : Seq(setup.threads)]]
        /\ sem'["disk"].value = sem["disk"].value
    <3>1. CASE NoV
      BY <1>7, <3>1
    <3>2. CASE V("readAvail")
      BY <1>8, <3>2 DEF Sems
    <3> QED BY <2>1, <3>1, <3>2 DEF CheckCharAvail
  <2> QED BY <1>6, <2>1, <2>4, <2>5 DEF CheckCharAvail
<1>11. CASE type = "write"
  <2>1. WriteDone(rest, k)
    BY <1>5, <1>11
  <2>2. Owed(pending', disk.active) /\ dial' \in Int
    BY <1>1, <1>3, <2>1, ElapseOwed DEF WriteDone
  <2>3. /\ sem' \in [Sems -> [value : Nat, queue : Seq(setup.threads)]]
        /\ sem'["disk"].value = sem["disk"].value
    BY <1>8, <2>1 DEF WriteDone, Sems
  <2> QED BY <1>6, <2>1, <2>2, <2>3 DEF WriteDone
<1>12. CASE type = "disk"
  <2>1. HandleInterrupt(rest, k) /\ disk.active /\ Owed(rest, FALSE)
    BY <1>1, <1>5, <1>12
  <2>2. Owed(pending', FALSE) /\ dial' \in Int
    BY <1>3, <2>1, ElapseOwed DEF HandleInterrupt
  <2>3. disk' \in Disk /\ ~ disk'.active
    <3>1. disk' = [Aged(disk, k) EXCEPT !.active = FALSE]
      BY <2>1 DEF HandleInterrupt
    <3> QED BY <1>4, <3>1 DEF Disk
  <2>4. /\ sem' \in [Sems -> [value : Nat, queue : Seq(setup.threads)]]
        /\ sem'["disk"].value = sem["disk"].value + 1
    BY <1>8, <2>1 DEF HandleInterrupt, Sems
  <2>5. Owed(pending', disk'.active)
    BY <2>2, <2>3 DEF Owed
  <2> QED BY <2>1, <2>2, <2>3, <2>4, <2>5
<1> QED BY <1>2, <1>9, <1>10, <1>11, <1>12 DEF Types

-----------------------------------------------------------------------------
(* The steps.                                                              *)

LEMMA QuietStep ==
  ASSUME DevInv, Quiet, Owed(pending', disk.active), UNCHANGED <<setup, lock, pc>>,
         sem' \in [Sems -> [value : Nat, queue : Seq(setup.threads)]],
         sem'["disk"].value = sem["disk"].value
  PROVE  DevInv'
<1>1. DevTypeOK'
  BY DEF DevInv, DevTypeOK, Quiet, DiskThreads
<1>2. Owed(pending', disk'.active)
  BY DEF Quiet, Owed
<1>3. CompletionIsOwn' /\ NothingLeftOver'
  BY DEF DevInv, CompletionIsOwn, NothingLeftOver, Quiet, DiskThreads
<1> QED BY <1>1, <1>2, <1>3 DEF DevInv

LEMMA FireStep ==
  ASSUME DevInv, NEW k \in Int, pending # <<>>, Fire(k), UNCHANGED <<setup, lock, pc>>
  PROVE  DevInv'
<1>1. /\ dial' \in Int /\ disk' \in Disk
      /\ sem' \in [Sems -> [value : Nat, queue : Seq(setup.threads)]]
      /\ Owed(pending', disk'.active)
      /\ \/ (disk'.active <=> disk.active) /\ sem'["disk"].value = sem["disk"].value
         \/ disk.active /\ ~ disk'.active /\ sem'["disk"].value = sem["disk"].value + 1
  BY FireFacts DEF DevInv
<1>2. DevTypeOK'
  BY <1>1 DEF DevInv, DevTypeOK, DiskThreads
<1>3. CASE (disk'.active <=> disk.active) /\ sem'["disk"].value = sem["disk"].value
  <2>1. CompletionIsOwn' /\ NothingLeftOver'
    BY <1>3 DEF DevInv, CompletionIsOwn, NothingLeftOver, DiskThreads
  <2> QED BY <1>1, <1>2, <2>1 DEF DevInv
<1>4. CASE disk.active /\ ~ disk'.active /\ sem'["disk"].value = sem["disk"].value + 1
  <2>1. lock.holder # Nobody /\ sem["disk"].value = 0 /\ sem'["disk"].value = 1
    BY <1>4 DEF DevInv, CompletionIsOwn
  <2>2. \A t \in DiskThreads : pc[t] \notin {"request", "release"}
    BY <1>4 DEF DevInv, CompletionIsOwn
  <2>3. CompletionIsOwn' /\ NothingLeftOver'
    BY <1>4, <2>1, <2>2 DEF DevInv, CompletionIsOwn, NothingLeftOver, DiskThreads
  <2> QED BY <1>1, <1>2, <2>3 DEF DevInv
<1> QED BY <1>1, <1>3, <1>4

LEMMA SchedulingStep ==
  ASSUME DevInv, Start \/ OneTickDone \/ IdleDone
  PROVE  DevInv'
<1>1. DevTypeOK /\ Owed(pending, disk.active) /\ Owed(PutBack, disk.active)
  BY PutBackOwed DEF DevInv
<1>2. UNCHANGED <<setup, lock, pc, sem>>
  BY DEF Start, OneTickDone, IdleDone
<1>3. Owed(pending', disk.active) /\ Quiet
  <2>1. CASE Start
    BY <1>1, <2>1, DispatchQuiet DEF Start
  <2>2. CASE OneTickDone
    <3>1. CASE Tick(PutBack)
      BY <1>1, <3>1, TickQuiet
    <3>2. CASE Dispatch(Append(ready, current), returning \cup {current}, PutBack)
      BY <1>1, <3>2, DispatchQuiet
    <3>3. CASE pending' = PutBack /\ UNCHANGED <<dial, disk>>
      BY <1>1, <3>3 DEF Quiet, DevTypeOK
    <3> QED BY <2>2, <3>1, <3>2, <3>3 DEF OneTickDone
  <2>3. CASE IdleDone
    BY <1>1, <2>3, DispatchQuiet DEF IdleDone
  <2> QED BY <2>1, <2>2, <2>3
<1>4. /\ sem' \in [Sems -> [value : Nat, queue : Seq(setup.threads)]]
      /\ sem'["disk"].value = sem["disk"].value
  BY <1>1, <1>2 DEF DevTypeOK
<1> QED BY <1>2, <1>3, <1>4, QuietStep

LEMMA InterruptStep ==
  ASSUME DevInv, CheckIfDue \/ IdleMore \/ Idle
  PROVE  DevInv'
<1>1. UNCHANGED <<setup, lock, pc>>
  BY DEF CheckIfDue, IdleMore, Idle
<1>2. CASE CheckIfDue \/ IdleMore
  BY <1>1, <1>2, FireStep DEF CheckIfDue, IdleMore, Due
<1>3. CASE Idle
  <2>1. CASE pending # <<>> /\ Fire(Max({0, Head(pending).left}))
    <3>1. Head(pending) \in Pending
      BY <2>1, TailOwed DEF DevInv
    <3>2. Head(pending).left \in Int
      BY <3>1 DEF Pending
    <3>3. Max({0, Head(pending).left}) \in Int
      <4> DEFINE x == Head(pending).left
      <4>1. x \in Int /\ 0 \in Int
        BY <3>2
      <4> HIDE DEF x
      <4>2. Max({0, x}) \in Int
        BY <4>1, MinMaxOfTwo
      <4> QED BY <4>2 DEF x
    <3> QED BY <1>1, <2>1, <3>3, FireStep
  <2>2. CASE UNCHANGED <<pending, dial, devices, sem>>
    <3>1. UNCHANGED disk
      BY <2>2 DEF devices
    <3>2. Quiet /\ Owed(pending', disk.active)
      BY <2>2, <3>1 DEF Quiet, DevInv, DevTypeOK
    <3>3. /\ sem' \in [Sems -> [value : Nat, queue : Seq(setup.threads)]]
          /\ sem'["disk"].value = sem["disk"].value
      BY <2>2 DEF DevInv, DevTypeOK
    <3> QED BY <1>1, <3>2, <3>3, QuietStep
  <2> QED BY <1>3, <2>1, <2>2 DEF Idle
<1> QED BY <1>2, <1>3

(* The arithmetic of ComputeLatency and UpdateLast stays among integers.   *)
LEMMA LatencyInt ==
  ASSUME DevTypeOK, NEW s \in Sectors, NEW w \in BOOLEAN
  PROVE  ComputeLatency(s, w) \in Int /\ UpdateLast(s) \in Disk
<1>1. /\ SectorsPerTrack \in Int /\ SectorsPerTrack > 0 /\ RotationTime \in Int
      /\ RotationTime > 0 /\ SeekTime \in Int /\ s \in Int
      /\ Revolution \in Int /\ Revolution > 0
  BY TimesAssumption DEF Sectors, Revolution
<1>2. dial \in Int /\ disk \in Disk /\ disk.lastSector \in Int /\ disk.bufferAge \in Int
      /\ disk.bufferAt \in Int
  BY DEF DevTypeOK, Disk
<1>3. \A x \in Int : x \div SectorsPerTrack \in Int
  BY <1>1
<1>4. TimeToSeek(s) \in Int
  BY <1>1, <1>2, <1>3 DEF TimeToSeek
<1>5. \A x \in Int : Rotation(x) \in Int
  BY <1>1, <1>2 DEF Rotation
<1>6. \A x, y \in Int : ModuloDiff(x, y) \in Int
  BY <1>1 DEF ModuloDiff
<1> DEFINE seek == TimeToSeek(s)
           rotation == Rotation(seek)
           after == (dial + seek + rotation) \div RotationTime
<1>7. seek \in Int /\ rotation \in Int
  BY <1>4, <1>5
<1>8. ComputeLatency(s, w) = RotationTime
        \/ ComputeLatency(s, w) = seek + rotation + RotationTime
                                     + ModuloDiff(s, after) * RotationTime
  BY DEF ComputeLatency
<1>9. UpdateLast(s) = [disk EXCEPT !.lastSector = s]
        \/ UpdateLast(s) = [disk EXCEPT !.lastSector = s, !.bufferAge = -(seek + rotation),
                                       !.bufferAt = (dial + (seek + rotation)) % Revolution]
  BY DEF UpdateLast
<1> HIDE DEF seek, rotation
<1>10. after \in Int
  BY <1>1, <1>2, <1>7
<1> HIDE DEF after
<1>11. ModuloDiff(s, after) \in Int
  BY <1>1, <1>6, <1>10
<1>12. ComputeLatency(s, w) \in Int
  BY <1>1, <1>7, <1>8, <1>11
<1> DEFINE age == -(seek + rotation)
           at == (dial + (seek + rotation)) % Revolution
<1>13. age \in Int /\ at \in Int
  BY <1>1, <1>2, <1>7
<1> HIDE DEF age, at, Revolution
<1>14. UpdateLast(s) = [disk EXCEPT !.lastSector = s]
         \/ UpdateLast(s) = [disk EXCEPT !.lastSector = s, !.bufferAge = age, !.bufferAt = at]
  BY <1>9 DEF age, at
<1>15. UpdateLast(s) \in Disk
  BY <1>1, <1>2, <1>13, <1>14 DEF Disk
<1> QED BY <1>12, <1>15

(* Semaphore::P on one of the semaphores. *)
LEMMA PFacts ==
  ASSUME DevInv, NEW t \in setup.threads, NEW s \in Sems, NEW to, P(t, s, to)
  PROVE  /\ Owed(pending', disk.active) /\ Quiet /\ UNCHANGED <<setup, lock>>
         /\ sem' \in [Sems -> [value : Nat, queue : Seq(setup.threads)]]
         /\ \A r \in Sems : r # s => sem'[r] = sem[r]
         /\ \/ pc' = pc /\ sem'[s].value = sem[s].value
            \/ /\ pc' = [pc EXCEPT ![t] = to] /\ sem[s].value > 0
               /\ sem'[s].value = sem[s].value - 1
<1> DEFINE R == [value : Nat, queue : Seq(setup.threads)]
<1>1. DevTypeOK /\ sem \in [Sems -> R] /\ sem[s] \in R /\ Owed(pending, disk.active)
  BY DEF DevInv, DevTypeOK
<1>2. UNCHANGED <<setup, lock>>
  BY DEF P
<1>3. CASE sem[s].value = 0
  <2> DEFINE q == Append(sem[s].queue, t)
             x == [sem[s] EXCEPT !.queue = q]
  <2>1. sem' = [sem EXCEPT ![s] = x] /\ Dispatch(ready, returning, pending) /\ pc' = pc
    BY <1>3 DEF P
  <2>2. q \in Seq(setup.threads)
    BY <1>1, AppendProperties
  <2> HIDE DEF q
  <2>3. x \in R /\ x.value = sem[s].value
    BY <1>1, <2>2
  <2> HIDE DEF x, R
  <2>4. sem' \in [Sems -> R] /\ sem'[s] = x /\ \A r \in Sems : r # s => sem'[r] = sem[r]
    BY <1>1, <2>1, <2>3
  <2>5. Owed(pending', disk.active) /\ Quiet
    BY <1>1, <2>1, DispatchQuiet
  <2> QED BY <1>2, <2>1, <2>3, <2>4, <2>5 DEF R
<1>4. CASE sem[s].value # 0
  <2> DEFINE n == sem[s].value - 1
             x == [sem[s] EXCEPT !.value = n]
  <2>1. sem' = [sem EXCEPT ![s] = x] /\ Tick(pending) /\ pc' = [pc EXCEPT ![t] = to]
    BY <1>4 DEF P
  <2>2. n \in Nat /\ sem[s].value > 0 /\ n = sem[s].value - 1
    BY <1>1, <1>4
  <2> HIDE DEF n
  <2>3. x \in R /\ x.value = n
    BY <1>1, <2>2
  <2> HIDE DEF x, R
  <2>4. sem' \in [Sems -> R] /\ sem'[s] = x /\ \A r \in Sems : r # s => sem'[r] = sem[r]
    BY <1>1, <2>1, <2>3
  <2>5. Owed(pending', disk.active) /\ Quiet
    BY <1>1, <2>1, TickQuiet
  <2> QED BY <1>2, <2>1, <2>2, <2>3, <2>4, <2>5 DEF R
<1> QED BY <1>3, <1>4

(* The echo loop leaves the disk alone. *)
LEMMA EchoLoopStep ==
  ASSUME DevInv, NEW t \in setup.threads,
         AwaitChar(t) \/ Echo(t) \/ AwaitWrite(t) \/ Quit(t)
  PROVE  DevInv'
<1>1. t = "echo"
  BY DEF DevInv, DevTypeOK, AwaitChar, Echo, AwaitWrite, Quit, DiskPcs
<1>2. /\ Owed(pending', disk.active) /\ Quiet /\ UNCHANGED <<setup, lock>>
      /\ sem' \in [Sems -> [value : Nat, queue : Seq(setup.threads)]]
      /\ sem'["disk"].value = sem["disk"].value
      /\ pc' = pc \/ \E to \in EchoPcs : pc' = [pc EXCEPT ![t] = to]
  <2>1. CASE AwaitChar(t)
    BY <2>1, PFacts DEF AwaitChar, Sems, EchoPcs
  <2>2. CASE AwaitWrite(t)
    BY <2>2, PFacts DEF AwaitWrite, Sems, EchoPcs
  <2>3. CASE Echo(t)
    <3>1. UNCHANGED <<setup, lock, dial, disk, sem>>
      BY <2>3 DEF Echo
    <3>2. Owed(Schedule(pending, "write", ConsoleTime), disk.active)
      <4>1. [type |-> "write", left |-> ConsoleTime] \in Pending
        BY TimesAssumption DEF Pending, Types
      <4> QED BY <4>1, InsertOwed DEF Schedule, DevInv
    <3>3. Owed(pending', disk.active)
      BY <2>3, <3>2 DEF Echo, DevInv
    <3>4. pc' = pc \/ \E to \in EchoPcs : pc' = [pc EXCEPT ![t] = to]
      BY <2>3 DEF Echo, EchoPcs
    <3> QED BY <3>1, <3>3, <3>4 DEF Quiet, DevInv, DevTypeOK
  <2>4. CASE Quit(t)
    <3>1. UNCHANGED <<setup, lock, dial, disk, sem, pending>>
      BY <2>4 DEF Quit, devices
    <3>2. pc' = pc \/ \E to \in EchoPcs : pc' = [pc EXCEPT ![t] = to]
      BY <2>4 DEF Quit, EchoPcs
    <3> QED BY <3>1, <3>2 DEF Quiet, DevInv, DevTypeOK
  <2> QED BY <2>1, <2>2, <2>3, <2>4
<1>3. CASE pc' = pc
  BY <1>2, <1>3, QuietStep
<1>4. ASSUME NEW to \in EchoPcs, pc' = [pc EXCEPT ![t] = to] PROVE DevInv'
  <2>1. pc \in [setup.threads -> DiskPcs \cup EchoPcs]
    BY DEF DevInv, DevTypeOK
  <2>2. /\ pc' \in [setup.threads -> DiskPcs \cup EchoPcs] /\ pc'[t] = to
        /\ \A u \in setup.threads : u # t => pc'[u] = pc[u]
    BY <1>4, <2>1
  <2>3. DevTypeOK'
    BY <1>1, <1>2, <2>2 DEF DevInv, DevTypeOK, Quiet, DiskThreads
  <2>4. Owed(pending', disk'.active)
    BY <1>2 DEF Quiet, Owed
  <2>5. CompletionIsOwn' /\ NothingLeftOver'
    BY <1>1, <1>2, <2>2 DEF DevInv, CompletionIsOwn, NothingLeftOver, Quiet, DiskThreads
  <2> QED BY <2>3, <2>4, <2>5 DEF DevInv
<1> QED BY <1>2, <1>3, <1>4

(* A user of the disk goes on to another place of ReadSector. *)
LEMMA MovesOn ==
  ASSUME DevInv, NEW t \in setup.threads, t # "echo", NEW to \in DiskPcs,
         pc' = [pc EXCEPT ![t] = to], UNCHANGED setup, dial' \in Int, disk' \in Disk,
         sem' \in [Sems -> [value : Nat, queue : Seq(setup.threads)]],
         lock' \in [holder : DiskThreads \cup {Nobody}, queue : Seq(setup.threads)]
  PROVE  /\ DevTypeOK' /\ pc'[t] = to /\ t \in DiskThreads /\ DiskThreads' = DiskThreads
         /\ \A u \in DiskThreads : u # t => pc'[u] = pc[u]
         /\ Nobody \notin DiskThreads
<1>1. pc \in [setup.threads -> DiskPcs \cup EchoPcs]
  BY DEF DevInv, DevTypeOK
<1>2. /\ pc' \in [setup.threads -> DiskPcs \cup EchoPcs] /\ pc'[t] = to
      /\ \A u \in setup.threads : u # t => pc'[u] = pc[u]
  BY <1>1
<1>3. DevTypeOK'
  BY <1>2 DEF DevInv, DevTypeOK, DiskThreads
<1>4. Nobody \notin setup.threads
  BY SetupsAssumption DEF DevInv, DevTypeOK
<1> QED BY <1>2, <1>3, <1>4 DEF DiskThreads

LEMMA AcquireStep ==
  ASSUME DevInv, NEW t \in setup.threads, Acquire(t)
  PROVE  DevInv'
<1>1. t # "echo" /\ pc[t] = "acquire" /\ DevTypeOK /\ Owed(pending, disk.active)
  BY DEF Acquire, DevInv, DevTypeOK, EchoPcs
<1>2. UNCHANGED <<setup, sem>>
  BY DEF Acquire
<1>3. /\ sem' \in [Sems -> [value : Nat, queue : Seq(setup.threads)]]
      /\ sem'["disk"].value = sem["disk"].value
  BY <1>1, <1>2 DEF DevTypeOK
<1>4. CASE lock.holder # Nobody
  <2> DEFINE q == Append(lock.queue, t)
  <2>1. /\ lock' = [lock EXCEPT !.queue = q] /\ pc' = pc
        /\ Dispatch(ready, returning, pending)
    BY <1>4 DEF Acquire
  <2>2. lock.queue \in Seq(setup.threads)
    BY <1>1 DEF DevTypeOK
  <2>3. q \in Seq(setup.threads)
    BY <2>2, AppendProperties
  <2> HIDE DEF q
  <2>4. /\ lock' \in [holder : DiskThreads \cup {Nobody}, queue : Seq(setup.threads)]
        /\ lock'.holder = lock.holder
    BY <1>1, <2>1, <2>3 DEF DevTypeOK
  <2>5. Owed(pending', disk.active) /\ Quiet
    BY <1>1, <2>1, DispatchQuiet
  <2>6. DevTypeOK'
    BY <1>1, <1>2, <1>3, <2>1, <2>4, <2>5 DEF DevTypeOK, Quiet, DiskThreads
  <2>7. Owed(pending', disk'.active)
    BY <2>5 DEF Quiet, Owed
  <2>8. CompletionIsOwn' /\ NothingLeftOver'
    BY <1>2, <1>3, <2>1, <2>4, <2>5
    DEF DevInv, CompletionIsOwn, NothingLeftOver, Quiet, DiskThreads
  <2> QED BY <2>6, <2>7, <2>8 DEF DevInv
<1>5. CASE lock.holder = Nobody
  <2>1. lock' = [lock EXCEPT !.holder = t] /\ pc' = [pc EXCEPT ![t] = "request"] /\ Tick(pending)
    BY <1>5 DEF Acquire
  <2>2. /\ lock' \in [holder : DiskThreads \cup {Nobody}, queue : Seq(setup.threads)]
        /\ lock'.holder = t
    BY <1>1, <2>1 DEF DevTypeOK, DiskThreads
  <2>3. Owed(pending', disk.active) /\ Quiet
    BY <1>1, <2>1, TickQuiet
  <2>4. /\ DevTypeOK' /\ pc'[t] = "request" /\ t \in DiskThreads /\ DiskThreads' = DiskThreads
        /\ \A u \in DiskThreads : u # t => pc'[u] = pc[u]
        /\ Nobody \notin DiskThreads
    BY <1>1, <1>2, <1>3, <2>1, <2>2, <2>3, MovesOn DEF Quiet, DiskPcs
  <2>5. Owed(pending', disk'.active)
    BY <2>3 DEF Quiet, Owed
  <2>6. ~ disk.active /\ sem["disk"].value = 0 /\ \A u \in DiskThreads :
          pc[u] \notin {"request", "wait", "release"}
    BY <1>5, <2>4 DEF DevInv, CompletionIsOwn, NothingLeftOver
  <2>7. CompletionIsOwn' /\ NothingLeftOver'
    BY <1>3, <2>2, <2>3, <2>4, <2>6 DEF CompletionIsOwn, NothingLeftOver, Quiet
  <2> QED BY <2>4, <2>5, <2>7 DEF DevInv
<1> QED BY <1>4, <1>5

LEMMA RequestStep ==
  ASSUME DevInv, NEW t \in setup.threads, Request(t)
  PROVE  DevInv'
<1>1. t # "echo" /\ pc[t] = "request" /\ DevTypeOK /\ Owed(pending, disk.active)
  BY DEF Request, DevInv, DevTypeOK, EchoPcs
<1>2. UNCHANGED <<setup, dial, sem, lock>>
  BY DEF Request
<1>3. ~ disk.active /\ sem["disk"].value = 0 /\ lock.holder = t
  BY <1>1 DEF DevInv, CompletionIsOwn, DiskThreads
<1>4. PICK sectorNumber \in Sectors, writing \in BOOLEAN :
        /\ pending' = Schedule(pending, "disk", ComputeLatency(sectorNumber, writing))
        /\ disk' = [UpdateLast(sectorNumber) EXCEPT !.active = TRUE, !.writing = writing]
        /\ pc' = [pc EXCEPT ![t] = "wait"]
  BY <1>3 DEF Request
<1>5. ComputeLatency(sectorNumber, writing) \in Int /\ UpdateLast(sectorNumber) \in Disk
  BY <1>1, LatencyInt
<1>6. disk' \in Disk /\ disk'.active
  <2> DEFINE d == UpdateLast(sectorNumber)
  <2>1. d \in Disk /\ disk' = [d EXCEPT !.active = TRUE, !.writing = writing]
    BY <1>4, <1>5
  <2> HIDE DEF d
  <2> QED BY <2>1 DEF Disk
<1>7. Owed(pending', disk'.active)
  <2> DEFINE p == [type |-> "disk", left |-> ComputeLatency(sectorNumber, writing)]
  <2>1. p \in Pending /\ p.type = "disk"
    BY <1>5 DEF Pending, Types
  <2>2. pending' = Insert(pending, p)
    BY <1>4 DEF Schedule
  <2> HIDE DEF p
  <2>3. Owed(pending, disk'.active) /\ \A i \in 1..Len(pending) : pending[i].type # "disk"
    BY <1>1, <1>3, <1>6 DEF Owed
  <2>4. Owed(Insert(pending, p), disk'.active)
    BY <1>6, <2>1, <2>3, InsertOwed
  <2> QED BY <2>2, <2>4
<1>8. /\ DevTypeOK' /\ pc'[t] = "wait" /\ t \in DiskThreads /\ DiskThreads' = DiskThreads
      /\ \A u \in DiskThreads : u # t => pc'[u] = pc[u]
      /\ Nobody \notin DiskThreads
  <2>1. /\ dial' \in Int /\ "wait" \in DiskPcs
        /\ sem' \in [Sems -> [value : Nat, queue : Seq(setup.threads)]]
        /\ lock' \in [holder : DiskThreads \cup {Nobody}, queue : Seq(setup.threads)]
    BY <1>1, <1>2 DEF DevTypeOK, DiskPcs
  <2> QED BY <1>1, <1>2, <1>4, <1>6, <2>1, MovesOn
<1>9. CompletionIsOwn' /\ NothingLeftOver'
  <2>1. \A u \in DiskThreads : u # t => pc[u] \notin {"request", "wait", "release"}
    BY <1>3 DEF DevInv, CompletionIsOwn
  <2> QED BY <1>2, <1>3, <1>6, <1>8, <2>1 DEF CompletionIsOwn, NothingLeftOver
<1> QED BY <1>7, <1>8, <1>9 DEF DevInv

LEMMA AwaitDiskStep ==
  ASSUME DevInv, NEW t \in setup.threads, AwaitDisk(t)
  PROVE  DevInv'
<1>1. t # "echo" /\ pc[t] = "wait" /\ DevTypeOK
  BY DEF AwaitDisk, DevInv, DevTypeOK, EchoPcs
<1>2. /\ Owed(pending', disk.active) /\ Quiet /\ UNCHANGED <<setup, lock>>
      /\ sem' \in [Sems -> [value : Nat, queue : Seq(setup.threads)]]
      /\ \/ pc' = pc /\ sem'["disk"].value = sem["disk"].value
         \/ /\ pc' = [pc EXCEPT ![t] = "release"] /\ sem["disk"].value > 0
            /\ sem'["disk"].value = sem["disk"].value - 1
  BY PFacts DEF AwaitDisk, Sems
<1>3. CASE pc' = pc /\ sem'["disk"].value = sem["disk"].value
  BY <1>2, <1>3, QuietStep
<1>4. CASE /\ pc' = [pc EXCEPT ![t] = "release"] /\ sem["disk"].value > 0
           /\ sem'["disk"].value = sem["disk"].value - 1
  <2>1. t \in DiskThreads /\ sem["disk"].value # 0
    BY <1>1, <1>4 DEF DiskThreads
  <2>2. ~ disk.active /\ sem["disk"].value = 1 /\ lock.holder = t
    BY <1>1, <2>1 DEF DevInv, CompletionIsOwn
  <2>3. ~ disk'.active /\ sem'["disk"].value = 0
    BY <1>2, <1>4, <2>2 DEF Quiet
  <2>4. /\ DevTypeOK' /\ pc'[t] = "release" /\ t \in DiskThreads /\ DiskThreads' = DiskThreads
        /\ \A u \in DiskThreads : u # t => pc'[u] = pc[u]
        /\ Nobody \notin DiskThreads
    <3>1. /\ "release" \in DiskPcs
          /\ lock' \in [holder : DiskThreads \cup {Nobody}, queue : Seq(setup.threads)]
      BY <1>1, <1>2 DEF DevTypeOK, DiskPcs
    <3> QED BY <1>1, <1>2, <1>4, <3>1, MovesOn DEF Quiet
  <2>5. \A u \in DiskThreads : u # t => pc[u] \notin {"request", "wait", "release"}
    BY <2>2 DEF DevInv, CompletionIsOwn
  <2>6. CompletionIsOwn' /\ NothingLeftOver'
    BY <1>2, <2>2, <2>3, <2>4, <2>5 DEF CompletionIsOwn, NothingLeftOver
  <2>7. Owed(pending', disk'.active)
    BY <1>2 DEF Quiet, Owed
  <2> QED BY <2>4, <2>6, <2>7 DEF DevInv
<1> QED BY <1>2, <1>3, <1>4

LEMMA ReleaseStep ==
  ASSUME DevInv, NEW t \in setup.threads, Release(t)
  PROVE  DevInv'
<1>1. t # "echo" /\ pc[t] = "release" /\ DevTypeOK /\ Owed(pending, disk.active)
  BY DEF Release, DevInv, DevTypeOK, EchoPcs
<1>2. UNCHANGED <<setup, sem>> /\ Tick(pending)
  BY DEF Release
<1>3. Owed(pending', disk.active) /\ Quiet
  BY <1>1, <1>2, TickQuiet
<1>4. /\ lock' \in [holder : DiskThreads \cup {Nobody}, queue : Seq(setup.threads)]
      /\ lock'.holder = Nobody
  <2> DEFINE q == IF lock.queue = <<>> THEN <<>> ELSE Tail(lock.queue)
  <2>1. lock' = [holder |-> Nobody, queue |-> q]
    BY DEF Release
  <2>2. lock.queue \in Seq(setup.threads)
    BY <1>1 DEF DevTypeOK
  <2>3. q \in Seq(setup.threads)
    BY <2>2, HeadTailProperties
  <2> HIDE DEF q
  <2> QED BY <2>1, <2>3
<1>5. PICK to \in {"finish", "acquire"} : pc' = [pc EXCEPT ![t] = to]
  BY DEF Release
<1>6. /\ DevTypeOK' /\ pc'[t] = to /\ t \in DiskThreads /\ DiskThreads' = DiskThreads
      /\ \A u \in DiskThreads : u # t => pc'[u] = pc[u]
      /\ Nobody \notin DiskThreads
  <2>1. to \in DiskPcs /\ sem' \in [Sems -> [value : Nat, queue : Seq(setup.threads)]]
    BY <1>1, <1>2 DEF DevTypeOK, DiskPcs
  <2> QED BY <1>1, <1>2, <1>3, <1>4, <1>5, <2>1, MovesOn DEF Quiet
<1>7. /\ ~ disk.active /\ sem["disk"].value = 0
      /\ \A u \in DiskThreads : u # t => pc[u] \notin {"request", "wait", "release"}
  BY <1>1, <1>6 DEF DevInv, CompletionIsOwn
<1>8. CompletionIsOwn' /\ NothingLeftOver'
  BY <1>2, <1>3, <1>4, <1>6, <1>7 DEF CompletionIsOwn, NothingLeftOver, Quiet
<1>9. Owed(pending', disk'.active)
  BY <1>3 DEF Quiet, Owed
<1> QED BY <1>6, <1>8, <1>9 DEF DevInv

LEMMA FinishStep ==
  ASSUME DevInv, NEW t \in setup.threads, Finish(t)
  PROVE  DevInv'
<1>1. /\ t # "echo" /\ pc[t] = "finish" /\ DevTypeOK /\ Owed(pending, disk.active)
      /\ pc' = [pc EXCEPT ![t] = "finished"]
  BY DEF Finish, DevInv, DevTypeOK, EchoPcs
<1>2. UNCHANGED <<setup, sem, lock>> /\ Dispatch(ready, returning, pending)
  BY DEF Finish
<1>3. Owed(pending', disk.active) /\ Quiet
  BY <1>1, <1>2, DispatchQuiet
<1>4. /\ DevTypeOK' /\ pc'[t] = "finished" /\ t \in DiskThreads /\ DiskThreads' = DiskThreads
      /\ \A u \in DiskThreads : u # t => pc'[u] = pc[u]
      /\ Nobody \notin DiskThreads
  <2>1. /\ "finished" \in DiskPcs
        /\ sem' \in [Sems -> [value : Nat, queue : Seq(setup.threads)]]
        /\ lock' \in [holder : DiskThreads \cup {Nobody}, queue : Seq(setup.threads)]
    BY <1>1, <1>2 DEF DevTypeOK, DiskPcs
  <2> QED BY <1>1, <1>2, <1>3, <2>1, MovesOn DEF Quiet
<1>5. CompletionIsOwn' /\ NothingLeftOver'
  BY <1>1, <1>2, <1>3, <1>4 DEF DevInv, CompletionIsOwn, NothingLeftOver, Quiet
<1>6. Owed(pending', disk'.active)
  BY <1>3 DEF Quiet, Owed
<1> QED BY <1>4, <1>5, <1>6 DEF DevInv

LEMMA DevInvInit == Init => DevInv
<1> SUFFICES ASSUME Init PROVE DevInv
  OBVIOUS
<1>1. DevTypeOK
  BY DEF Init, DevTypeOK, Disk, Sems, DiskPcs, EchoPcs, DiskThreads
<1>2. ~ disk.active /\ lock.holder = Nobody /\ sem["disk"].value = 0
  BY DEF Init
<1>3. Owed(pending, disk.active)
  <2>1. PICK d \in 1 .. 2 * TimerTicks :
          pending = LET poll == IF "echo" \in setup.threads
                                THEN Schedule(<<>>, "read", ConsoleTime) ELSE <<>>
                    IN  IF setup.timer THEN Schedule(poll, "timer", d) ELSE poll
    BY DEF Init
  <2>2. Owed(<<>>, disk.active)
    BY DEF Owed
  <2>3. ASSUME NEW queue, Owed(queue, disk.active), NEW type \in {"read", "timer"}, NEW n \in Int
        PROVE  Owed(Schedule(queue, type, n), disk.active)
    <3>1. [type |-> type, left |-> n] \in Pending /\ type # "disk"
      BY DEF Pending, Types
    <3> QED BY <2>3, <3>1, InsertOwed DEF Schedule
  <2>4. d \in Int /\ ConsoleTime \in Int
    BY TimesAssumption
  <2> DEFINE poll == IF "echo" \in setup.threads
                     THEN Schedule(<<>>, "read", ConsoleTime) ELSE <<>>
  <2>5. Owed(poll, disk.active)
    BY <2>2, <2>3, <2>4
  <2>6. Owed(Schedule(poll, "timer", d), disk.active)
    <3> HIDE DEF poll
    <3> QED BY <2>3, <2>4, <2>5
  <2> QED BY <2>1, <2>5, <2>6
<1>4. CompletionIsOwn /\ NothingLeftOver
  <2>1. \A t \in DiskThreads : pc[t] = "acquire" /\ t # Nobody
    BY SetupsAssumption DEF Init, DiskThreads
  <2> QED BY <1>2, <2>1 DEF CompletionIsOwn, NothingLeftOver
<1> QED BY <1>1, <1>3, <1>4 DEF DevInv

LEMMA DevInvNext == DevInv /\ [Next]_vars => DevInv'
<1> SUFFICES ASSUME DevInv, [Next]_vars PROVE DevInv'
  OBVIOUS
<1>1. CASE Start \/ OneTickDone \/ IdleDone
  BY <1>1, SchedulingStep
<1>2. CASE CheckIfDue \/ IdleMore \/ Idle
  BY <1>2, InterruptStep
<1>3. ASSUME NEW t \in setup.threads, Run(t) PROVE DevInv'
  <2>1. CASE Acquire(t)
    BY <2>1, AcquireStep
  <2>2. CASE Request(t)
    BY <2>2, RequestStep
  <2>3. CASE AwaitDisk(t)
    BY <2>3, AwaitDiskStep
  <2>4. CASE Release(t)
    BY <2>4, ReleaseStep
  <2>5. CASE Finish(t)
    BY <2>5, FinishStep
  <2>6. CASE AwaitChar(t) \/ Echo(t) \/ AwaitWrite(t) \/ Quit(t)
    BY <2>6, EchoLoopStep
  <2> QED BY <1>3, <2>1, <2>2, <2>3, <2>4, <2>5, <2>6 DEF Run
<1>4. CASE UNCHANGED vars
  <2>1. UNCHANGED <<setup, pending, dial, disk, sem, lock, pc>>
    BY <1>4 DEF vars, devices, kernel
  <2>2. Quiet /\ Owed(pending', disk.active)
    BY <2>1 DEF Quiet, DevInv, DevTypeOK
  <2>3. /\ sem' \in [Sems -> [value : Nat, queue : Seq(setup.threads)]]
        /\ sem'["disk"].value = sem["disk"].value
    BY <2>1 DEF DevInv, DevTypeOK
  <2> QED BY <2>1, <2>2, <2>3, QuietStep
<1> QED BY <1>1, <1>2, <1>3, <1>4 DEF Next

(* ReadSector and WriteSector return to the thread whose request is done,  *)
(* for any number of threads and requests, whatever the latencies and the  *)
(* time slices are: the disk works only for the holder of SynchDisk's lock *)
(* (so no ASSERT(!active) of ReadRequest fails) and HandleInterrupt's V is *)
(* used up before the lock is released.                                    *)
THEOREM CompletionCorrect == Spec => []CompletionIsOwn
<1>1. DevInv => CompletionIsOwn
  BY DEF DevInv
<1> QED BY <1>1, DevInvInit, DevInvNext, PTL DEF Spec

-----------------------------------------------------------------------------
(* The echo loop of ConsoleTest.                                           *)

Chars == ToSet(setup.typed)

EchoTypeOK ==
  /\ keyboard \in Seq(Chars)
  /\ console \in [incoming : Chars \cup {EOF}, putBusy : BOOLEAN]

\* A character is in the buffer exactly as long as its V has not been answered
\* by GetChar.
Buffered ==
  /\ screen \in Seq(Chars)
  /\ \A t \in setup.threads :
       pc[t] = "put" => console.incoming # EOF /\ sem["readAvail"].value = 0
  /\ sem["readAvail"].value # 0 => console.incoming # EOF /\ sem["readAvail"].value = 1

EchoInv == DevTypeOK /\ EchoTypeOK /\ (EOF \notin Chars => Buffered) /\ EchoExact

(* The three places a character can be in, as it moves on. *)
LEMMA CharRead ==
  ASSUME NEW S, NEW a \in Seq(S), NEW k \in Seq(S), k # <<>>
  PROVE  a \o <<>> \o k = a \o <<Head(k)>> \o Tail(k) /\ Head(k) \in S /\ Tail(k) \in Seq(S)
<1>1. Head(k) \in S /\ Tail(k) \in Seq(S) /\ <<Head(k)>> \in Seq(S)
  BY HeadTailProperties
<1>2. a \o <<>> = a
  BY ConcatEmptySeq
<1>3. k = <<Head(k)>> \o Tail(k)
  OBVIOUS
<1>4. a \o <<Head(k)>> \o Tail(k) = a \o (<<Head(k)>> \o Tail(k))
  BY <1>1, ConcatAssociative
<1> QED BY <1>1, <1>2, <1>3, <1>4

LEMMA CharWritten ==
  ASSUME NEW S, NEW a \in Seq(S), NEW c \in S, NEW k \in Seq(S)
  PROVE  a \o <<c>> \o k = Append(a, c) \o <<>> \o k /\ Append(a, c) \in Seq(S)
<1>1. Append(a, c) \in Seq(S) /\ Append(a, c) = a \o <<c>>
  BY AppendProperties, AppendIsConcat
<1>2. Append(a, c) \o <<>> = Append(a, c)
  BY <1>1, ConcatEmptySeq
<1> QED BY <1>1, <1>2

LEMMA EchoFrame ==
  ASSUME EchoInv, DevTypeOK', UNCHANGED <<setup, screen, keyboard>>,
         NEW b \in BOOLEAN, console' = [incoming |-> console.incoming, putBusy |-> b],
         sem'["readAvail"].value = sem["readAvail"].value,
         \A t \in setup.threads : pc'[t] = "put" => pc[t] = "put"
  PROVE  EchoInv'
<1>1. EOF \notin Chars' => Buffered'
  BY DEF EchoInv, Buffered, Chars
<1>2. EchoExact'
  BY DEF EchoInv, EchoExact
<1>3. EchoTypeOK'
  BY DEF EchoInv, EchoTypeOK, Chars
<1> QED BY <1>1, <1>2, <1>3 DEF EchoInv

LEMMA EchoFire ==
  ASSUME EchoInv, DevTypeOK', NEW k, Owed(pending, disk.active), pending # <<>>, Fire(k),
         UNCHANGED <<setup, pc>>
  PROVE  EchoInv'
<1> DEFINE rest == Tail(pending)
           type == Head(pending).type
<1>1. DevTypeOK
  BY DEF EchoInv
<1>2. type \in Types
  BY TailOwed DEF Pending
<1>3. /\ type = "timer" => TimerExpired(rest, k)
      /\ type = "read" => CheckCharAvail(rest, k)
      /\ type = "write" => WriteDone(rest, k)
      /\ type = "disk" => HandleInterrupt(rest, k)
  BY <1>2 DEF Fire, Types
<1> HIDE DEF rest, type
<1>4. \A s \in Sems : V(s) /\ s # "readAvail" => sem'["readAvail"].value = sem["readAvail"].value
  <2>1. "readAvail" \in Sems
    BY DEF Sems
  <2> QED BY <1>1, <2>1, VFacts
<1>0. console = [incoming |-> console.incoming, putBusy |-> console.putBusy]
        /\ console.putBusy \in BOOLEAN
  BY DEF EchoInv, EchoTypeOK
<1>5. ASSUME NoV, UNCHANGED <<console, keyboard, screen>> PROVE EchoInv'
  BY <1>0, <1>5, EchoFrame DEF NoV
<1>6. CASE type = "timer"
  BY <1>3, <1>5, <1>6 DEF TimerExpired
<1>7. CASE type = "write"
  <2>1. WriteDone(rest, k)
    BY <1>3, <1>7
  <2>2. console' = [console EXCEPT !.putBusy = FALSE] /\ UNCHANGED <<keyboard, screen>>
    BY <2>1 DEF WriteDone
  <2>3. sem'["readAvail"].value = sem["readAvail"].value
    BY <1>4, <2>1 DEF WriteDone, Sems
  <2>4. console' = [incoming |-> console.incoming, putBusy |-> FALSE] /\ FALSE \in BOOLEAN
    BY <1>0, <2>2
  <2> QED BY <2>2, <2>3, <2>4, EchoFrame
<1>8. CASE type = "disk"
  <2>1. HandleInterrupt(rest, k)
    BY <1>3, <1>8
  <2>2. UNCHANGED <<console, keyboard, screen>>
    BY <2>1 DEF HandleInterrupt
  <2>3. sem'["readAvail"].value = sem["readAvail"].value
    BY <1>4, <2>1 DEF HandleInterrupt, Sems
  <2> QED BY <1>0, <2>2, <2>3, EchoFrame
<1>9. CASE type = "read"
  <2>1. CheckCharAvail(rest, k)
    BY <1>3, <1>9
  <2>2. CASE NoV /\ UNCHANGED <<console, keyboard>>
    BY <1>5, <2>1, <2>2 DEF CheckCharAvail
  <2>3. CASE /\ console.incoming = EOF /\ keyboard # <<>> /\ V("readAvail")
             /\ console' = [console EXCEPT !.incoming = Head(keyboard)]
             /\ keyboard' = Tail(keyboard)
    <3>1. UNCHANGED screen
      BY <2>1 DEF CheckCharAvail
    <3>2. sem'["readAvail"].value = sem["readAvail"].value + 1
      BY <1>1, <2>3, VFacts DEF Sems
    <3>3. Head(keyboard) \in Chars /\ Tail(keyboard) \in Seq(Chars) /\ Chars' = Chars
      BY <2>3, HeadTailProperties DEF EchoInv, EchoTypeOK, Chars
    <3>4. console'.incoming = Head(keyboard) /\ EchoTypeOK'
      BY <2>3, <3>3 DEF EchoInv, EchoTypeOK
    <3>5. ASSUME EOF \notin Chars PROVE Buffered' /\ EchoExact'
      <4>1. Buffered /\ Head(keyboard) # EOF
        BY <3>3, <3>5 DEF EchoInv
      <4>2. setup.typed = screen \o <<>> \o keyboard
        BY <2>3, <3>5 DEF EchoInv, EchoExact, Chars
      <4>3. screen \o <<>> \o keyboard = screen \o <<Head(keyboard)>> \o Tail(keyboard)
        BY <2>3, <4>1, CharRead DEF Buffered, EchoInv, EchoTypeOK
      <4>4. sem["readAvail"].value = 0 /\ \A t \in setup.threads : pc[t] # "put"
        BY <2>3, <4>1 DEF Buffered
      <4>5. sem'["readAvail"].value = 1
        BY <3>2, <4>4
      <4>6. Buffered'
        BY <3>1, <3>3, <3>4, <4>1, <4>4, <4>5 DEF Buffered
      <4>7. EchoExact'
        BY <2>3, <3>1, <3>4, <4>1, <4>2, <4>3 DEF EchoExact
      <4> QED BY <4>6, <4>7
    <3>6. EOF \in Chars => EchoExact'
      BY <3>3 DEF EchoExact, Chars
    <3> QED BY <3>3, <3>4, <3>5, <3>6 DEF EchoInv
  <2> QED BY <2>1, <2>2, <2>3 DEF CheckCharAvail
<1> QED BY <1>2, <1>6, <1>7, <1>8, <1>9 DEF Types

LEMMA EchoStep ==
  ASSUME EchoInv, DevTypeOK', NEW t \in setup.threads, Echo(t)
  PROVE  EchoInv'
<1>1. console.incoming \in Chars \cup {EOF} /\ console.putBusy \in BOOLEAN
      /\ console = [incoming |-> console.incoming, putBusy |-> console.putBusy]
  BY DEF EchoInv, EchoTypeOK
<1>2. UNCHANGED <<setup, keyboard, sem>> /\ pc[t] = "put" /\ t = "echo"
  BY DEF Echo, EchoInv, DevTypeOK, DiskPcs
<1>3. CASE console.putBusy
  BY <1>1, <1>2, <1>3, EchoFrame DEF Echo
<1>4. CASE ~ console.putBusy
  <2>1. /\ screen' = Append(screen, console.incoming)
        /\ console' = [incoming |-> EOF, putBusy |-> TRUE]
        /\ pc' = [pc EXCEPT ![t] = "written"]
    BY <1>4 DEF Echo
  <2>2. Chars' = Chars /\ EchoTypeOK'
    BY <1>2, <2>1 DEF EchoInv, EchoTypeOK, Chars
  <2>3. ASSUME NEW u \in setup.threads PROVE pc'[u] # "put"
    BY <1>2, <2>1 DEF EchoInv, DevTypeOK, DiskPcs
  <2>4. ASSUME EOF \notin Chars PROVE Buffered' /\ EchoExact'
    <3>1. Buffered
      BY <2>4 DEF EchoInv
    <3>2. console.incoming \in Chars /\ console.incoming # EOF /\ sem["readAvail"].value = 0
      BY <1>1, <1>2, <3>1 DEF Buffered
    <3>3. setup.typed = screen \o <<console.incoming>> \o keyboard
      BY <2>4, <3>2 DEF EchoInv, EchoExact, Chars
    <3>4. /\ screen \o <<console.incoming>> \o keyboard = screen' \o <<>> \o keyboard
          /\ screen' \in Seq(Chars)
      BY <2>1, <3>1, <3>2, CharWritten DEF Buffered, EchoInv, EchoTypeOK
    <3>5. Buffered'
      BY <1>2, <2>2, <2>3, <3>2, <3>4 DEF Buffered
    <3>6. EchoExact'
      BY <1>2, <2>1, <3>3, <3>4 DEF EchoExact
    <3> QED BY <3>5, <3>6
  <2>5. EOF \in Chars => EchoExact'
    BY <2>2 DEF EchoExact, Chars
  <2> QED BY <2>2, <2>4, <2>5 DEF EchoInv
<1> QED BY <1>1, <1>3, <1>4

LEMMA AwaitCharStep ==
  ASSUME DevInv, EchoInv, DevTypeOK', NEW t \in setup.threads, AwaitChar(t)
  PROVE  EchoInv'
<1>1. console.putBusy \in BOOLEAN
      /\ console = [incoming |-> console.incoming, putBusy |-> console.putBusy]
  BY DEF EchoInv, EchoTypeOK
<1>2. /\ UNCHANGED setup
      /\ \/ pc' = pc /\ sem'["readAvail"].value = sem["readAvail"].value
         \/ /\ pc' = [pc EXCEPT ![t] = "put"] /\ sem["readAvail"].value > 0
            /\ sem'["readAvail"].value = sem["readAvail"].value - 1
  BY PFacts DEF AwaitChar, Sems
<1>3. UNCHANGED <<console, keyboard, screen>>
  BY DEF AwaitChar, P
<1>4. CASE pc' = pc /\ sem'["readAvail"].value = sem["readAvail"].value
  BY <1>1, <1>2, <1>3, <1>4, EchoFrame
<1>5. CASE /\ pc' = [pc EXCEPT ![t] = "put"] /\ sem["readAvail"].value > 0
           /\ sem'["readAvail"].value = sem["readAvail"].value - 1
  <2>1. EchoTypeOK' /\ EchoExact' /\ Chars' = Chars
    BY <1>2, <1>3 DEF EchoInv, EchoTypeOK, EchoExact, Chars
  <2>2. ASSUME EOF \notin Chars PROVE Buffered'
    <3>1. Buffered /\ sem["readAvail"].value # 0
      BY <1>5, <2>2 DEF EchoInv
    <3>2. console.incoming # EOF /\ sem["readAvail"].value = 1
      BY <3>1 DEF Buffered
    <3>3. sem'["readAvail"].value = 0
      BY <1>5, <3>2
    <3> QED BY <1>2, <1>3, <2>1, <3>1, <3>2, <3>3 DEF Buffered
  <2> QED BY <2>1, <2>2 DEF EchoInv
<1> QED BY <1>2, <1>4, <1>5

LEMMA EchoInvInit == Init => EchoInv
<1> SUFFICES ASSUME Init PROVE EchoInv
  OBVIOUS
<1>1. DevTypeOK
  BY DevInvInit DEF DevInv
<1>2. keyboard \in Seq(Chars) /\ keyboard = setup.typed
  BY SetupsAssumption DEF Init, Chars
<1>3. EchoTypeOK
  BY <1>2 DEF Init, EchoTypeOK
<1>4. Buffered
  <2>1. screen = <<>> /\ sem["readAvail"].value = 0
    BY DEF Init
  <2>2. \A t \in setup.threads : pc[t] # "put"
    BY DEF Init
  <2>3. <<>> \in Seq(Chars)
    OBVIOUS
  <2> QED BY ONLY <2>1, <2>2, <2>3 DEF Buffered
<1>5. EchoExact
  <2>1. screen \o <<>> \o keyboard = keyboard
    <3>1. screen = <<>> /\ <<>> \o <<>> = <<>>
      BY DEF Init
    <3>2. <<>> \o keyboard = keyboard
      BY <1>2, ConcatEmptySeq
    <3> QED BY <3>1, <3>2
  <2>2. console.incoming = EOF
    BY DEF Init
  <2> QED BY <1>2, <2>1, <2>2 DEF EchoExact
<1> QED BY <1>1, <1>3, <1>4, <1>5 DEF EchoInv

LEMMA EchoInvNext == DevInv /\ EchoInv /\ [Next]_vars => EchoInv'
<1> SUFFICES ASSUME DevInv, EchoInv, [Next]_vars PROVE EchoInv'
  OBVIOUS
<1>1. DevTypeOK' /\ DevTypeOK /\ Owed(pending, disk.active)
  BY DevInvNext DEF DevInv
<1>2. console.putBusy \in BOOLEAN
      /\ console = [incoming |-> console.incoming, putBusy |-> console.putBusy]
  BY DEF EchoInv, EchoTypeOK
<1>3. ASSUME UNCHANGED <<setup, screen, keyboard, console>>,
             sem'["readAvail"].value = sem["readAvail"].value,
             \A t \in setup.threads : pc'[t] = "put" => pc[t] = "put"
      PROVE  EchoInv'
  BY <1>1, <1>2, <1>3, EchoFrame
<1>4. CASE Start \/ OneTickDone \/ IdleDone
  BY <1>3, <1>4 DEF Start, OneTickDone, IdleDone
<1>5. CASE CheckIfDue \/ IdleMore
  BY <1>1, <1>5, EchoFire DEF CheckIfDue, IdleMore, Due
<1>6. CASE Idle
  <2>1. UNCHANGED <<setup, pc>>
    BY <1>6 DEF Idle
  <2>2. CASE pending # <<>> /\ Fire(Max({0, Head(pending).left}))
    BY <1>1, <2>1, <2>2, EchoFire
  <2>3. CASE UNCHANGED <<devices, sem>>
    BY <1>3, <2>1, <2>3 DEF devices
  <2> QED BY <1>6, <2>2, <2>3 DEF Idle
<1>7. ASSUME NEW t \in setup.threads, Run(t) PROVE EchoInv'
  <2> DEFINE Elsewhere == DiskPcs \cup (EchoPcs \ {"put"})
  <2>1. ASSUME UNCHANGED <<setup, screen, keyboard, console>>,
               sem'["readAvail"].value = sem["readAvail"].value,
               pc' = pc \/ \E to \in Elsewhere : pc' = [pc EXCEPT ![t] = to]
        PROVE  EchoInv'
    <3>1. \A u \in setup.threads : pc'[u] = "put" => pc[u] = "put"
      BY <1>1, <2>1 DEF DevTypeOK, DiskPcs
    <3> QED BY <1>3, <2>1, <3>1
  <2>2. CASE Acquire(t)
    <3>1. /\ UNCHANGED <<setup, screen, keyboard, console, sem>>
          /\ pc' = pc \/ \E to \in Elsewhere : pc' = [pc EXCEPT ![t] = to]
      BY <2>2 DEF Acquire, DiskPcs
    <3> QED BY <2>1, <3>1
  <2>3. CASE Request(t)
    <3>1. /\ UNCHANGED <<setup, screen, keyboard, console, sem>>
          /\ pc' = pc \/ \E to \in Elsewhere : pc' = [pc EXCEPT ![t] = to]
      BY <2>3 DEF Request, DiskPcs
    <3> QED BY <2>1, <3>1
  <2>4. CASE AwaitDisk(t) \/ AwaitWrite(t)
    <3>1. UNCHANGED <<setup, screen, keyboard, console>>
      BY <2>4 DEF AwaitDisk, AwaitWrite, P
    <3>2. sem'["readAvail"].value = sem["readAvail"].value
            /\ (pc' = pc \/ \E to \in {"release", "next"} : pc' = [pc EXCEPT ![t] = to])
      BY <2>4, PFacts DEF AwaitDisk, AwaitWrite, Sems
    <3>3. {"release", "next"} \subseteq Elsewhere
      BY DEF DiskPcs, EchoPcs
    <3> QED BY <2>1, <3>1, <3>2, <3>3
  <2>5. CASE Release(t)
    <3>1. /\ UNCHANGED <<setup, screen, keyboard, console, sem>>
          /\ pc' = pc \/ \E to \in Elsewhere : pc' = [pc EXCEPT ![t] = to]
      BY <2>5 DEF Release, DiskPcs
    <3> QED BY <2>1, <3>1
  <2>6. CASE Finish(t)
    <3>1. /\ UNCHANGED <<setup, screen, keyboard, console, sem>>
          /\ pc' = pc \/ \E to \in Elsewhere : pc' = [pc EXCEPT ![t] = to]
      BY <2>6 DEF Finish, DiskPcs
    <3> QED BY <2>1, <3>1
  <2>7. CASE AwaitChar(t)
    BY <1>1, <2>7, AwaitCharStep
  <2>8. CASE Echo(t)
    BY <1>1, <2>8, EchoStep
  <2>9. CASE Quit(t)
    <3>1. /\ UNCHANGED <<setup, screen, keyboard, console, sem>>
          /\ pc' = pc \/ \E to \in Elsewhere : pc' = [pc EXCEPT ![t] = to]
      BY <2>9 DEF Quit, devices, DiskPcs, EchoPcs
    <3> QED BY <2>1, <3>1
  <2> QED BY <1>7, <2>2, <2>3, <2>4, <2>5, <2>6, <2>7, <2>8, <2>9 DEF Run
<1>8. CASE UNCHANGED vars
  BY <1>3, <1>8 DEF vars, devices, kernel
<1> QED BY <1>4, <1>5, <1>6, <1>7, <1>8 DEF Next

(* The console's echo loop shows every character typed, once and in order, *)
(* for any text without (char)EOF in it: CheckCharAvail reads none over a  *)
(* character not yet fetched, and GetChar is called only when one is there.*)
THEOREM EchoCorrect == Spec => []EchoExact
<1>1. EchoInv => EchoExact
  BY DEF EchoInv
<1> QED BY <1>1, DevInvInit, DevInvNext, EchoInvInit, EchoInvNext, PTL DEF Spec

=============================================================================
