--------------------------- MODULE ProcessesProofs ---------------------------
(***************************************************************************)
(* Proofs about module Processes, for any number of processes, pids and    *)
(* frames, with and without time slices and whatever system calls are      *)
(* made: the process table, the ready list, the lists of children, the     *)
(* frames and the page table in the machine describe the live processes.   *)
(***************************************************************************)
EXTENDS Processes, FiniteSetTheorems, SequenceTheorems, WellFoundedInduction, TLAPS

Distinct(items) == \A i, j \in DOMAIN items : items[i] = items[j] => i = j

(* A set of natural numbers has a least element. *)
LEMMA Least ==
  ASSUME NEW T \in SUBSET Nat, T # {}
  PROVE  \E x \in T : \A y \in T : x <= y
<1>1. PICK x \in T : \A y \in T : ~ (<<y, x>> \in OpToRel(<, Nat))
  BY NatLessThanWellFounded, WFMin
<1>2. \A y \in T : ~ (y < x)
  BY <1>1 DEF OpToRel
<1> QED BY <1>2

(* A finite set of numbers has elements of every rank below its size: above
   the element of one rank, the least is of the next.                       *)
Below(clear, f) == {g \in clear : g < f}

LEMMA RankExists ==
  ASSUME NEW clear \in SUBSET Nat, IsFiniteSet(clear), NEW n \in 1..Cardinality(clear)
  PROVE  \E f \in clear : Cardinality(Below(clear, f)) = n - 1
<1> DEFINE size == Cardinality(clear)
           Ranked(i) == \E f \in clear : Cardinality(Below(clear, f)) = i - 1
           missing == {i \in 1..size : ~ Ranked(i)}
<1>0. /\ size \in Nat
      /\ \A f \in clear : IsFiniteSet(Below(clear, f))
  BY FS_CardinalityType, FS_Subset DEF Below
<1> SUFFICES ASSUME missing # {} PROVE FALSE
  OBVIOUS
<1>1. PICK i \in missing : \A j \in missing : i <= j
  <2>1. missing \in SUBSET Nat
    OBVIOUS
  <2> HIDE DEF missing
  <2> QED BY <2>1, Least
<1>2. i \in 1..size /\ ~ Ranked(i)
  OBVIOUS
<1>3. CASE i = 1
  <2>1. clear # {}
    BY <1>0, <1>2, FS_EmptySet
  <2>2. PICK f \in clear : \A g \in clear : f <= g
    BY <2>1, Least
  <2>3. Below(clear, f) = {}
    <3>1. \A g \in clear : ~ (g < f)
      BY <2>2
    <3> QED BY <3>1 DEF Below
  <2>4. Cardinality(Below(clear, f)) = 0
    BY <2>3, FS_EmptySet
  <2> QED BY <1>2, <1>3, <2>4
<1>4. CASE i # 1
  <2>1. i - 1 \in 1..size /\ i - 1 \notin missing
    BY <1>0, <1>1, <1>2, <1>4
  <2>2. PICK f \in clear : Cardinality(Below(clear, f)) = (i - 1) - 1
    BY <2>1
  <2> DEFINE upTo == Below(clear, f) \cup {f}
             above == clear \ upTo
  <2>3. f \notin Below(clear, f) /\ upTo \subseteq clear
    BY DEF Below
  <2>4. IsFiniteSet(upTo) /\ Cardinality(upTo) = i - 1
    <3>1. IsFiniteSet(upTo) /\ Cardinality(upTo) = Cardinality(Below(clear, f)) + 1
      BY <1>0, <2>3, FS_AddElement
    <3> QED BY <1>2, <2>2, <3>1
  <2>5. above # {}
    <3>1. SUFFICES ASSUME above = {} PROVE FALSE
      OBVIOUS
    <3>2. upTo = clear
      BY <2>3, <3>1
    <3>3. size = i - 1
      BY <2>4, <3>2
    <3> QED BY <1>0, <1>2, <3>3
  <2>6. PICK h \in above : \A g \in above : h <= g
    BY <2>5, Least
  <2>7. h \in clear /\ f < h
    BY <2>6 DEF Below
  <2>8. Below(clear, h) = upTo
    <3>1. \A g \in clear : g \in upTo <=> g <= f
      BY DEF Below
    <3>2. \A g \in clear : g < h <=> g <= f
      BY <2>6, <2>7, <3>1
    <3> HIDE DEF upTo
    <3> QED BY <2>3, <3>1, <3>2 DEF Below
  <2> QED BY <1>2, <2>4, <2>7, <2>8
<1> QED BY <1>3, <1>4

(* BitMap::Find called n times returns n different clear bits. *)
LEMMA FindFacts ==
  ASSUME NEW all \in SUBSET Nat, IsFiniteSet(all), NEW busy, NEW n \in Nat,
         n <= Cardinality(all \ busy)
  PROVE  /\ Find(n, busy, all) \in Seq(all \ busy)
         /\ Len(Find(n, busy, all)) = n
         /\ Distinct(Find(n, busy, all))
<1> DEFINE clear == all \ busy
           rank(f) == Cardinality(Below(clear, f))
           found == Find(n, busy, all)
<1>0. clear \in SUBSET Nat /\ IsFiniteSet(clear) /\ Cardinality(clear) \in Nat
  BY FS_Subset, FS_CardinalityType
<1>1. found = [i \in 1..n |-> CHOOSE f \in clear : rank(f) = i - 1]
  BY DEF Find, Below
<1>2. ASSUME NEW i \in 1..n
      PROVE  found[i] \in clear /\ rank(found[i]) = i - 1
  <2>1. i \in 1..Cardinality(clear)
    BY <1>0
  <2>2. \E f \in clear : rank(f) = i - 1
    BY <1>0, <2>1, RankExists
  <2>3. found[i] = CHOOSE f \in clear : rank(f) = i - 1
    BY <1>1
  <2> HIDE DEF clear, rank
  <2> QED BY <2>2, <2>3
<1>3. found \in [1..n -> clear]
  BY <1>1, <1>2
<1> HIDE DEF found, clear, rank
<1>4. found \in Seq(clear) /\ Len(found) = n /\ DOMAIN found = 1..n
  BY <1>3
<1>5. Distinct(found)
  <2> SUFFICES ASSUME NEW i \in 1..n, NEW j \in 1..n, found[i] = found[j] PROVE i = j
    BY <1>4 DEF Distinct
  <2>1. rank(found[i]) = i - 1 /\ rank(found[i]) = j - 1
    BY <1>2
  <2> QED BY <2>1
<1> QED BY <1>4, <1>5 DEF found, clear

(* What taking an element off a list and appending one do to what is on it. *)
ListType == [items : Seq(Proc), endKnown : BOOLEAN]

(* A sequence without its k-th element. *)
LEMMA DropFacts ==
  ASSUME NEW S, NEW s \in Seq(S), NEW r \in Seq(S), NEW k \in 1..Len(s),
         Len(r) = Len(s) - 1,
         \A i \in 1..Len(s) - 1 : r[i] = IF i < k THEN s[i] ELSE s[i + 1]
  PROVE  /\ Range(r) \subseteq Range(s)
         /\ Distinct(s) => Distinct(r) /\ s[k] \notin Range(r)
<1> DEFINE n == Len(s)
           from(i) == IF i < k THEN i ELSE i + 1
<1>1. n \in Nat /\ DOMAIN s = 1..n /\ DOMAIN r = 1..n - 1
  BY LenProperties
<1>2. \A i \in DOMAIN r : from(i) \in DOMAIN s /\ r[i] = s[from(i)] /\ from(i) # k
  BY <1>1
<1>3. \A i, j \in DOMAIN r : from(i) = from(j) => i = j
  BY <1>1
<1>4. k \in DOMAIN s
  BY <1>1
<1> HIDE DEF from, n
<1>5. Range(r) \subseteq Range(s)
  BY <1>2 DEF Range
<1>6. ASSUME Distinct(s) PROVE Distinct(r)
  BY <1>2, <1>3, <1>6 DEF Distinct
<1>7. ASSUME Distinct(s) PROVE s[k] \notin Range(r)
  BY <1>2, <1>4, <1>7 DEF Distinct, Range
<1> QED BY <1>5, <1>6, <1>7

LEMMA PartFacts ==
  ASSUME NEW S, NEW s \in Seq(S), NEW m \in Int, NEW n \in Int,
         1 <= m, n <= Len(s), m <= n + 1, NEW a, a = SubSeq(s, m, n)
  PROVE  /\ a \in Seq(S) /\ Len(a) = n - m + 1
         /\ \A i \in 1..n - m + 1 : a[i] = s[m + i - 1]
<1>1. \A i \in m..n : s[i] \in S
  BY ElementOfSeq
<1>2. /\ SubSeq(s, m, n) \in Seq(S)
      /\ Len(SubSeq(s, m, n)) = IF m <= n THEN n - m + 1 ELSE 0
      /\ \A i \in 1 .. n - m + 1 : SubSeq(s, m, n)[i] = s[m + i - 1]
  <2>1. SubSeq(s, m, n) \in Seq(S)
    BY <1>1, SubSeqProperties
  <2>2. Len(SubSeq(s, m, n)) = IF m <= n THEN n - m + 1 ELSE 0
    BY <1>1, SubSeqProperties
  <2>3. \A i \in 1 .. n - m + 1 : SubSeq(s, m, n)[i] = s[m + i - 1]
    BY <1>1, SubSeqProperties
  <2> QED BY <2>1, <2>2, <2>3, Zenon
<1>3. /\ a \in Seq(S)
      /\ Len(a) = IF m <= n THEN n - m + 1 ELSE 0
      /\ \A i \in 1 .. n - m + 1 : a[i] = s[m + i - 1]
  BY <1>2, Zenon
<1>4. Len(a) = n - m + 1
  BY <1>3
<1> QED BY <1>3, <1>4

LEMMA JoinFacts ==
  ASSUME NEW S, NEW s \in Seq(S), NEW k \in 1..Len(s),
         NEW a \in Seq(S), Len(a) = k - 1, \A i \in 1..k - 1 : a[i] = s[i],
         NEW b \in Seq(S), Len(b) = Len(s) - k, \A i \in 1..Len(s) - k : b[i] = s[k + i]
  PROVE  /\ a \o b \in Seq(S) /\ Len(a \o b) = Len(s) - 1
         /\ \A i \in 1..Len(s) - 1 : (a \o b)[i] = IF i < k THEN s[i] ELSE s[i + 1]
<1>0. Len(s) \in Nat
  BY LenProperties
<1>1. /\ a \o b \in Seq(S) /\ Len(a \o b) = Len(a) + Len(b)
      /\ \A i \in 1..Len(a) + Len(b) :
           (a \o b)[i] = IF i <= Len(a) THEN a[i] ELSE b[i - Len(a)]
  BY ConcatProperties
<1>2. Len(a \o b) = Len(s) - 1
  BY <1>0, <1>1
<1>3. ASSUME NEW i \in 1..Len(s) - 1
      PROVE  (a \o b)[i] = IF i < k THEN s[i] ELSE s[i + 1]
  <2>1. (a \o b)[i] = IF i <= k - 1 THEN a[i] ELSE b[i - (k - 1)]
    BY <1>0, <1>1
  <2>2. CASE i < k
    BY <1>0, <2>1, <2>2
  <2>3. CASE ~ (i < k)
    <3>1. i - (k - 1) \in 1..Len(s) - k /\ k + (i - (k - 1)) = i + 1
      BY <1>0, <2>3
    <3> QED BY <1>0, <2>1, <2>3, <3>1
  <2> QED BY <2>2, <2>3
<1> QED BY <1>1, <1>2, <1>3

LEMMA DropIsConcat ==
  ASSUME NEW S, NEW s \in Seq(S), NEW k \in 1..Len(s),
         NEW r, r = SubSeq(s, 1, k - 1) \o SubSeq(s, k + 1, Len(s))
  PROVE  /\ r \in Seq(S) /\ Len(r) = Len(s) - 1
         /\ \A i \in 1..Len(s) - 1 : r[i] = IF i < k THEN s[i] ELSE s[i + 1]
<1> DEFINE n == Len(s)
           a == SubSeq(s, 1, k - 1)
           b == SubSeq(s, k + 1, n)
<1>0. n \in Nat /\ k \in 1..n /\ k - 1 \in Int /\ k + 1 \in Int
  BY LenProperties
<1>1. a \in Seq(S) /\ Len(a) = k - 1 /\ \A i \in 1..k - 1 : a[i] = s[i]
  <2> HIDE DEF a
  <2>0. a = SubSeq(s, 1, k - 1)
    BY DEF a
  <2>1. /\ a \in Seq(S) /\ Len(a) = (k - 1) - 1 + 1
        /\ \A i \in 1..(k - 1) - 1 + 1 : a[i] = s[1 + i - 1]
    BY <1>0, <2>0, PartFacts
  <2> QED BY <1>0, <2>1
<1>2. b \in Seq(S) /\ Len(b) = n - k /\ \A i \in 1..n - k : b[i] = s[k + i]
  <2> HIDE DEF b
  <2>0. b = SubSeq(s, k + 1, n)
    BY DEF b
  <2>1. /\ b \in Seq(S) /\ Len(b) = n - (k + 1) + 1
        /\ \A i \in 1..n - (k + 1) + 1 : b[i] = s[(k + 1) + i - 1]
    BY <1>0, <2>0, PartFacts
  <2> QED BY <1>0, <2>1
<1>3. r = a \o b
  OBVIOUS
<1> HIDE DEF a, b
<1>4. /\ a \o b \in Seq(S) /\ Len(a \o b) = Len(s) - 1
      /\ \A i \in 1..Len(s) - 1 : (a \o b)[i] = IF i < k THEN s[i] ELSE s[i + 1]
  <2>1. /\ \A i \in 1..k - 1 : a[i] = s[i]
        /\ \A i \in 1..Len(s) - k : b[i] = s[k + i]
        /\ a \in Seq(S) /\ b \in Seq(S) /\ Len(a) = k - 1 /\ Len(b) = Len(s) - k
    BY <1>1, <1>2
  <2>2. a \o b \in Seq(S)
    BY <2>1, JoinFacts
  <2>3. Len(a \o b) = Len(s) - 1
    <3>1. Len(a \o b) = Len(a) + Len(b)
      <4>1. a \in Seq(S) /\ b \in Seq(S)
        BY <2>1
      <4> QED BY ONLY <4>1, ConcatProperties
    <3>2. Len(s) \in Nat /\ k \in Int
      BY <1>0
    <3> QED BY <2>1, <3>1, <3>2
  <2>4. \A i \in 1..Len(s) - 1 : (a \o b)[i] = IF i < k THEN s[i] ELSE s[i + 1]
    BY <2>1, JoinFacts
  <2> QED BY <2>2, <2>3, <2>4
<1> QED BY <1>3, <1>4, Zenon

LEMMA AppendedFacts ==
  ASSUME NEW l \in ListType, NEW x \in Proc
  PROVE  /\ Appended(l, x) \in ListType
         /\ Range(Appended(l, x).items) \subseteq Range(l.items) \cup {x}
         /\ Distinct(l.items) /\ x \notin Range(l.items) => Distinct(Appended(l, x).items)
<1> DEFINE a == Append(l.items, x)
<1>1. l.items \in Seq(Proc) /\ l.endKnown \in BOOLEAN
  BY DEF ListType
<1>2. /\ a \in Seq(Proc) /\ Len(a) = Len(l.items) + 1
      /\ a[Len(a)] = x
      /\ \A i \in 1..Len(l.items) : a[i] = l.items[i]
  BY <1>1, AppendProperties
<1>3. /\ DOMAIN a = 1..Len(l.items) + 1 /\ DOMAIN l.items = 1..Len(l.items)
      /\ Len(l.items) \in Nat
  BY <1>1, <1>2, LenProperties
<1> HIDE DEF a
<1>4. Range(a) \subseteq Range(l.items) \cup {x}
  BY <1>2, <1>3 DEF Range
<1>5. Distinct(l.items) /\ x \notin Range(l.items) => Distinct(a)
  BY <1>2, <1>3 DEF Range, Distinct
<1>6. CASE l.endKnown
  <2>1. Appended(l, x) = [items |-> a, endKnown |-> TRUE]
    BY <1>6 DEF Appended, ListOf, a
  <2> QED BY <1>2, <1>4, <1>5, <2>1 DEF ListType
<1>7. CASE ~ l.endKnown
  BY <1>7 DEF Appended
<1> QED BY <1>6, <1>7

LEMMA RemovedFacts ==
  ASSUME NEW l \in ListType, ~ IsEmpty(l)
  PROVE  /\ Removed(l) \in ListType
         /\ Head(l.items) \in Range(l.items)
         /\ Range(Removed(l).items) \subseteq Range(l.items)
         /\ Distinct(l.items) => /\ Distinct(Removed(l).items)
                                 /\ Head(l.items) \notin Range(Removed(l).items)
<1> DEFINE t == Tail(l.items)
<1>1. l.items \in Seq(Proc) /\ l.endKnown \in BOOLEAN /\ l.items # <<>>
  BY DEF ListType, IsEmpty
<1>2. /\ t \in Seq(Proc) /\ Len(t) = Len(l.items) - 1
      /\ \A i \in 1..Len(t) : t[i] = l.items[i + 1]
      /\ Head(l.items) = l.items[1]
  BY <1>1, HeadTailProperties
<1>3. /\ DOMAIN t = 1..Len(l.items) - 1 /\ DOMAIN l.items = 1..Len(l.items)
      /\ Len(l.items) \in Nat /\ Len(l.items) >= 1
  BY <1>1, <1>2, LenProperties, EmptySeq
<1>4. Removed(l) = [items |-> t, endKnown |-> l.endKnown \/ t = <<>>]
  BY DEF Removed, ListOf
<1> HIDE DEF t
<1>5. Removed(l) \in ListType /\ Removed(l).items = t
  BY <1>1, <1>2, <1>4 DEF ListType
<1>6. Head(l.items) \in Range(l.items)
  BY <1>2, <1>3 DEF Range
<1>7. \A i \in 1..Len(l.items) - 1 :
        t[i] = IF i < 1 THEN l.items[i] ELSE l.items[i + 1]
  BY <1>2
<1>8. /\ Range(t) \subseteq Range(l.items)
      /\ Distinct(l.items) => Distinct(t) /\ l.items[1] \notin Range(t)
  BY <1>1, <1>2, <1>3, <1>7, DropFacts
<1> QED BY <1>2, <1>5, <1>6, <1>8

LEMMA RemovedElementFacts ==
  ASSUME NEW l \in ListType, NEW x
  PROVE  /\ RemovedElement(l, {x}) \in ListType
         /\ Range(RemovedElement(l, {x}).items) \subseteq Range(l.items)
         /\ Distinct(l.items) => /\ Distinct(RemovedElement(l, {x}).items)
                                 /\ x \notin Range(RemovedElement(l, {x}).items)
<1> DEFINE s == l.items
           n == Len(s)
           found == {i \in DOMAIN s : s[i] \in {x}}
           k == Position(s, {x})
           a == SubSeq(s, 1, k - 1)
           b == SubSeq(s, k + 1, n)
           r == a \o b
<1>1. /\ s \in Seq(Proc) /\ l.endKnown \in BOOLEAN
      /\ n \in Nat /\ DOMAIN s = 1..n /\ \A i \in 1..n : s[i] \in Proc
  BY LenProperties, ElementOfSeq DEF ListType
<1>2. CASE found = {}
  <2>1. k = 0
    BY <1>2 DEF Position
  <2>2. RemovedElement(l, {x}) = l
    BY <2>1 DEF RemovedElement
  <2>3. x \notin Range(s)
    BY <1>2 DEF Range
  <2> QED BY <2>2, <2>3
<1>3. CASE found # {}
  <2>1. k \in found
    <3>1. found \subseteq Nat
      BY <1>1
    <3>2. \E i \in found : \A j \in found : i <= j
      BY <1>3, <3>1, Least
    <3>3. k = CHOOSE i \in found : \A j \in found : i <= j
      BY <1>3 DEF Position
    <3> QED BY <3>2, <3>3
  <2>2. k \in 1..n /\ s[k] = x
    BY <1>1, <2>1
  <2>3. RemovedElement(l, {x}) =
          [items |-> r, endKnown |-> (l.endKnown /\ k # n) \/ r = <<>>]
    BY <1>1, <2>2 DEF RemovedElement, ListOf
  <2> HIDE DEF k
  <2>4. /\ r \in Seq(Proc) /\ Len(r) = Len(s) - 1
        /\ \A i \in 1..Len(s) - 1 : r[i] = IF i < k THEN s[i] ELSE s[i + 1]
    <3>1. r = SubSeq(s, 1, k - 1) \o SubSeq(s, k + 1, Len(s))
      OBVIOUS
    <3> HIDE DEF r
    <3>2. k \in 1..Len(s) /\ s \in Seq(Proc)
      BY <1>1, <2>2
    <3> HIDE DEF s
    <3> QED BY <3>1, <3>2, DropIsConcat
  <2> HIDE DEF r
  <2>5. RemovedElement(l, {x}) \in ListType /\ RemovedElement(l, {x}).items = r
    <3> DEFINE known == (l.endKnown /\ k # n) \/ r = <<>>
    <3>1. known \in BOOLEAN /\ RemovedElement(l, {x}) = [items |-> r, endKnown |-> known]
      BY <2>3
    <3> HIDE DEF known
    <3> QED BY <2>4, <3>1 DEF ListType
  <2>6. /\ Range(r) \subseteq Range(s)
        /\ Distinct(s) => Distinct(r) /\ s[k] \notin Range(r)
    BY <1>1, <2>2, <2>4, DropFacts
  <2> QED BY <2>2, <2>5, <2>6
<1> QED BY <1>2, <1>3
-----------------------------------------------------------------------------
ExitValues == Codes \cup Int \cup {Garbage}
PCBType == [pid : Int, parent : Proc \cup {NULL}, children : ListType,
            exitValue : ExitValues]
Lives == {"none", "live", "dead"}
Where == {"none", "user", "fresh", "starting", "forking", "yielding", "joining"}

(* The threads: what is ready is live, and so is who runs. *)
SchedInv ==
  /\ setup \in Setups
  /\ current \in Proc
  /\ ready \in ListType
  /\ doomed \in Proc \cup {NULL}
  /\ life \in [Proc -> Lives]
  /\ at \in [Proc -> Where]
  /\ doomed # NULL => life[doomed] = "dead"
  /\ power = "running" => /\ current \in Live
                          /\ Range(ready.items) \subseteq Live \ {current}
                          /\ Distinct(ready.items)

(* The process table and the lists of children. *)
TableInv ==
  /\ pcb \in [Proc -> PCBType]
  /\ pidMap \subseteq Pid
  /\ pcbTable \in [Pid -> Proc \cup {NULL, Garbage}]
  /\ PidsAgree
  /\ \A p \in Live : \A c \in Range(pcb[p].children.items) :
       c \in Live /\ pcb[c].parent = p
  /\ \A p \in Live : Distinct(pcb[p].children.items)

(* The frames: every live process has some, and shares none. *)
MemInv ==
  /\ used \subseteq Frame
  /\ pageTable \in [Proc -> Seq(Frame)]
  /\ \A p \in Live : /\ Len(pageTable[p]) > 0
                      /\ Distinct(pageTable[p])
                      /\ Range(pageTable[p]) \subseteq used
  /\ \A p, q \in Live : p # q => Range(pageTable[p]) \cap Range(pageTable[q]) = {}
  /\ setup.numPids >= setup.numFrames =>
       used = UNION {Range(pageTable[p]) : p \in Live}

(* Only a thread that is about to start has not set the page table yet. *)
CpuInv ==
  power = "running" /\ at[current] # "starting" => translation = pageTable[current]

ProcInv == SchedInv /\ TableInv /\ MemInv /\ CpuInv

LEMMA BitsFacts ==
  ASSUME NEW n \in Nat
  PROVE  IsFiniteSet(0..n - 1) /\ Cardinality(0..n - 1) = n
<1> DEFINE m == n - 1
<1>1. m \in Int /\ m >= -1 /\ n = m + 1
  OBVIOUS
<1> HIDE DEF m
<1>2. IsFiniteSet(0..m) /\ Cardinality(0..m) = IF 0 > m THEN 0 ELSE m - 0 + 1
  BY <1>1, FS_Interval
<1>3. IsFiniteSet(0..m) /\ Cardinality(0..m) = n
  BY <1>1, <1>2
<1> QED BY <1>3 DEF m

LEMMA SetupFacts ==
  ASSUME setup \in Setups
  PROVE  /\ setup.numPids \in Nat /\ setup.numPids > 0
         /\ setup.numFrames \in Nat /\ setup.numFrames > 0
         /\ Pid \in SUBSET Nat /\ IsFiniteSet(Pid) /\ Cardinality(Pid) = setup.numPids
         /\ Frame \in SUBSET Nat /\ IsFiniteSet(Frame)
         /\ Cardinality(Frame) = setup.numFrames
         /\ Sizes \subseteq 1..setup.numFrames
<1>1. /\ setup.numPids \in Nat /\ setup.numPids > 0
      /\ setup.numFrames \in Nat /\ setup.numFrames > 0
  BY ProcessesAssumption DEF Setup
<1>2. Pid \in SUBSET Nat /\ Frame \in SUBSET Nat
  BY <1>1 DEF Pid, Frame
<1>3. IsFiniteSet(Pid) /\ Cardinality(Pid) = setup.numPids
  BY <1>1, BitsFacts DEF Pid
<1>4. IsFiniteSet(Frame) /\ Cardinality(Frame) = setup.numFrames
  BY <1>1, BitsFacts DEF Frame
<1>5. Sizes \subseteq 1..setup.numFrames
  BY ProcessesAssumption
<1> QED BY <1>1, <1>2, <1>3, <1>4, <1>5

(* Scheduler::Run deletes only the dead. *)
LEMMA RunFacts ==
  ASSUME NEW next \in Proc, NEW d \in Proc \cup {NULL}, NEW lf \in [Proc -> Lives],
         d # NULL => lf[d] = "dead", Run(next, d, lf)
  PROVE  /\ current' = next
         /\ life' \in [Proc -> Lives]
         /\ Live' = {p \in Proc : lf[p] = "live"}
         /\ doomed' \in Proc \cup {NULL}
         /\ doomed' # NULL => life'[doomed'] = "dead"
         /\ at[next] # "fresh" => translation' = pageTable[next]
<1>1. CASE at[next] = "fresh"
  BY <1>1 DEF Run, Live
<1>2. CASE at[next] # "fresh"
  <2>1. /\ current' = next /\ doomed' = NULL /\ translation' = pageTable[next]
        /\ life' = [p \in Proc |-> IF p = d THEN "none" ELSE lf[p]]
    BY <1>2 DEF Run
  <2>2. life' \in [Proc -> Lives]
    BY <2>1 DEF Lives
  <2>3. \A p \in Proc : life'[p] = "live" <=> lf[p] = "live"
    BY <2>1, ProcessesAssumption
  <2> QED BY <2>1, <2>2, <2>3 DEF Live
<1> QED BY <1>1, <1>2

(* Thread::Yield switches to a live thread and lets nobody live or die. *)
LEMMA YieldFacts ==
  ASSUME SchedInv, CpuInv, power = "running", power' = power, setup' = setup,
         pageTable' = pageTable, NEW place \in Where, NEW context,
         Yield(place, context), IsEmpty(ready) => at[current] # "starting"
  PROVE  SchedInv' /\ CpuInv' /\ Live' = Live
<1>1. CASE IsEmpty(ready)
  <2>1. /\ at' = [at EXCEPT ![current] = place]
        /\ UNCHANGED <<current, ready, doomed, life, translation>>
    BY <1>1 DEF Yield
  <2>2. Live' = Live
    BY <2>1 DEF Live
  <2>3. at' \in [Proc -> Where]
    BY <2>1 DEF SchedInv
  <2>4. CpuInv'
    BY <1>1, <2>1 DEF CpuInv
  <2> QED BY <2>1, <2>2, <2>3, <2>4 DEF SchedInv
<1>2. CASE ~ IsEmpty(ready)
  <2> DEFINE next == Head(ready.items)
  <2>1. /\ ready' = Appended(Removed(ready), current)
        /\ Run(next, doomed, life)
        /\ at' = Places(next, place)
    BY <1>2 DEF Yield
  <2>2. /\ next \in Range(ready.items) /\ Removed(ready) \in ListType
        /\ Range(Removed(ready).items) \subseteq Range(ready.items)
        /\ Distinct(Removed(ready).items) /\ next \notin Range(Removed(ready).items)
    BY <1>2, RemovedFacts DEF SchedInv
  <2>3. /\ next \in Live /\ next # current /\ next \in Proc /\ current \in Live
        /\ current \notin Range(Removed(ready).items)
        /\ Range(Removed(ready).items) \subseteq Live
    BY <2>2 DEF SchedInv, Live
  <2>4. /\ ready' \in ListType /\ Distinct(ready'.items)
        /\ Range(ready'.items) \subseteq Range(Removed(ready).items) \cup {current}
    BY <2>1, <2>2, <2>3, AppendedFacts DEF SchedInv
  <2> HIDE DEF next
  <2>5. /\ current' = next
        /\ life' \in [Proc -> Lives]
        /\ Live' = {p \in Proc : life[p] = "live"}
        /\ doomed' \in Proc \cup {NULL}
        /\ doomed' # NULL => life'[doomed'] = "dead"
        /\ at[next] # "fresh" => translation' = pageTable[next]
    BY <2>1, <2>3, RunFacts DEF SchedInv
  <2>6. Live' = Live
    BY <2>5 DEF Live
  <2>7. /\ at' \in [Proc -> Where]
        /\ at'[next] = IF at[next] = "fresh" THEN "starting" ELSE at[next]
    BY <2>1, <2>3 DEF Places, SchedInv, Where
  <2>8. Range(ready'.items) \subseteq Live' \ {current'}
    BY <2>2, <2>3, <2>4, <2>5, <2>6
  <2>9. SchedInv'
    BY <2>3, <2>4, <2>5, <2>6, <2>7, <2>8 DEF SchedInv
  <2>10. CpuInv'
    BY <2>5, <2>7 DEF CpuInv
  <2> QED BY <2>6, <2>9, <2>10
<1> QED BY <1>1, <1>2

(* Thread::Finish: the current thread dies and a live one goes on. *)
LEMMA FinishFacts ==
  ASSUME SchedInv, power = "running", setup' = setup, Finish,
         \A q \in Proc \ {current} : pageTable'[q] = pageTable[q]
  PROVE  SchedInv' /\ CpuInv' /\ Live' = Live \ {current}
<1> DEFINE dying == [life EXCEPT ![current] = "dead"]
<1>0. /\ dying \in [Proc -> Lives] /\ dying[current] = "dead"
      /\ {p \in Proc : dying[p] = "live"} = Live \ {current}
  BY DEF SchedInv, Live, Lives
<1>1. CASE IsEmpty(ready)
  <2>1. /\ power' = "idle" /\ life' = dying /\ doomed' = current
        /\ at' = [at EXCEPT ![current] = "none"]
        /\ UNCHANGED <<current, ready>>
    BY <1>1 DEF Finish
  <2> HIDE DEF dying
  <2>2. Live' = Live \ {current}
    BY <1>0, <2>1 DEF Live
  <2>3. at' \in [Proc -> Where]
    BY <2>1 DEF SchedInv, Where
  <2>4. SchedInv'
    BY <1>0, <2>1, <2>3 DEF SchedInv
  <2> QED BY <2>1, <2>2, <2>4 DEF CpuInv
<1>2. CASE ~ IsEmpty(ready)
  <2> DEFINE next == Head(ready.items)
  <2>1. /\ ready' = Removed(ready)
        /\ Run(next, current, dying)
        /\ at' = Places(next, "none")
        /\ power' = power
    BY <1>2 DEF Finish
  <2>2. /\ next \in Range(ready.items) /\ ready' \in ListType
        /\ Range(ready'.items) \subseteq Range(ready.items)
        /\ Distinct(ready'.items) /\ next \notin Range(ready'.items)
    BY <1>2, <2>1, RemovedFacts DEF SchedInv
  <2>3. /\ next \in Live /\ next # current /\ next \in Proc
        /\ Range(ready'.items) \subseteq Live \ {current}
    BY <2>2 DEF SchedInv, Live
  <2> HIDE DEF next, dying
  <2>4. /\ current' = next
        /\ life' \in [Proc -> Lives]
        /\ Live' = {p \in Proc : dying[p] = "live"}
        /\ doomed' \in Proc \cup {NULL}
        /\ doomed' # NULL => life'[doomed'] = "dead"
        /\ at[next] # "fresh" => translation' = pageTable[next]
    BY <1>0, <2>1, <2>3, RunFacts DEF SchedInv
  <2>5. Live' = Live \ {current}
    BY <1>0, <2>4
  <2>6. /\ at' \in [Proc -> Where]
        /\ at'[next] = IF at[next] = "fresh" THEN "starting" ELSE at[next]
    BY <2>1, <2>3 DEF Places, SchedInv, Where
  <2>7. SchedInv'
    BY <2>2, <2>3, <2>4, <2>5, <2>6 DEF SchedInv
  <2>8. CpuInv'
    BY <2>3, <2>4, <2>6 DEF CpuInv
  <2> QED BY <2>5, <2>7, <2>8
<1> QED BY <1>1, <1>2

(* While the same processes live, tables that do not change stay right. *)
LEMMA SameTable ==
  ASSUME TableInv, Live' = Live, UNCHANGED <<setup, pcb, pidMap, pcbTable>>
  PROVE  TableInv'
BY DEF TableInv, PidsAgree, Pid

LEMMA SameMem ==
  ASSUME MemInv, Live' = Live, UNCHANGED <<setup, used, pageTable>>
  PROVE  MemInv'
BY DEF MemInv, Frame

(* The machine stops where it is. *)
LEMMA StopKeeps ==
  ASSUME ProcInv, NEW how, how # "running", Stop(how)
  PROVE  ProcInv'
<1>1. /\ UNCHANGED <<setup, current, ready, doomed, life, at, pcb, pidMap, pcbTable, used,
                     pageTable, translation>>
      /\ power' = how
  BY DEF Stop, schedVars, pcbVars, memVars, cpuVars
<1>2. Live' = Live
  BY <1>1 DEF Live
<1>3. SchedInv'
  BY <1>1, <1>2 DEF ProcInv, SchedInv
<1>4. TableInv' /\ MemInv'
  BY <1>1, <1>2, SameTable, SameMem DEF ProcInv
<1> QED BY <1>1, <1>3, <1>4 DEF ProcInv, CpuInv

(* The PCB of a new process. *)
LEMMA NewPCBFacts ==
  ASSUME NEW i \in Int, NEW q \in Proc \cup {NULL}
  PROVE  /\ NewPCB(i, q) \in PCBType /\ NewPCB(i, q).pid = i /\ NewPCB(i, q).parent = q
         /\ Distinct(NewPCB(i, q).children.items) /\ Range(NewPCB(i, q).children.items) = {}
<1>1. EmptyList \in ListType /\ EmptyList.items = <<>>
  BY EmptySeq DEF EmptyList, ListOf, ListType
<1>2. Distinct(<<>>) /\ Range(<<>>) = {}
  BY DEF Distinct, Range
<1>3. /\ NewPCB(i, q).children = EmptyList
      /\ NewPCB(i, q).pid = i /\ NewPCB(i, q).parent = q
  BY DEF NewPCB
<1>4. NewPCB(i, q) \in PCBType
  BY <1>1 DEF NewPCB, PCBType, ExitValues
<1> QED BY <1>1, <1>2, <1>3, <1>4

(* The PCBs that exit and kill leave. *)
LEMMA UnlinkedFacts ==
  ASSUME pcb \in [Proc -> PCBType], NEW p \in Proc
  PROVE  /\ Unlinked(p) \in [Proc -> PCBType]
         /\ \A q \in Proc \ {p} :
              /\ Unlinked(p)[q].pid = pcb[q].pid
              /\ Unlinked(p)[q].parent =
                   IF q \in Range(pcb[p].children.items) THEN NULL ELSE pcb[q].parent
              /\ Unlinked(p)[q].children =
                   IF q = pcb[p].parent THEN RemovedElement(pcb[q].children, {p})
                   ELSE pcb[q].children
<1>1. NoPCB \in PCBType
  BY NewPCBFacts DEF NoPCB
<1>2. \A q \in Proc : /\ pcb[q] \in PCBType /\ pcb[q].children \in ListType
                      /\ RemovedElement(pcb[q].children, {p}) \in ListType
  BY RemovedElementFacts DEF PCBType
<1>3. ASSUME NEW q \in Proc \ {p}
      PROVE  /\ Unlinked(p)[q] \in PCBType
             /\ Unlinked(p)[q].pid = pcb[q].pid
             /\ Unlinked(p)[q].parent =
                  IF q \in Range(pcb[p].children.items) THEN NULL ELSE pcb[q].parent
             /\ Unlinked(p)[q].children =
                  IF q = pcb[p].parent THEN RemovedElement(pcb[q].children, {p})
                  ELSE pcb[q].children
  <2> DEFINE parent == IF q \in Range(pcb[p].children.items) THEN NULL ELSE pcb[q].parent
             children == IF q = pcb[p].parent THEN RemovedElement(pcb[q].children, {p})
                         ELSE pcb[q].children
  <2>1. Unlinked(p)[q] = [pcb[q] EXCEPT !.parent = parent, !.children = children]
    BY DEF Unlinked
  <2>2. parent \in Proc \cup {NULL} /\ children \in ListType /\ pcb[q] \in PCBType
    BY <1>2 DEF PCBType
  <2> HIDE DEF parent, children
  <2>3. /\ Unlinked(p)[q] \in PCBType
        /\ Unlinked(p)[q].pid = pcb[q].pid
        /\ Unlinked(p)[q].parent = parent
        /\ Unlinked(p)[q].children = children
    BY <2>1, <2>2 DEF PCBType
  <2> QED BY <2>3 DEF parent, children
<1>4. Unlinked(p)[p] = NoPCB
  BY DEF Unlinked
<1>5. Unlinked(p) \in [Proc -> PCBType]
  <2>1. \A q \in Proc : Unlinked(p)[q] \in PCBType
    BY <1>1, <1>3, <1>4
  <2>2. Unlinked(p) = [q \in Proc |-> Unlinked(p)[q]]
    BY DEF Unlinked
  <2> QED BY <2>1, <2>2
<1> QED BY <1>3, <1>5

(* exit and kill take a process out of the tables. *)
LEMMA EndTable ==
  ASSUME TableInv, NEW p \in Live, Live' = Live \ {p}, setup' = setup,
         pcb' \in [Proc -> PCBType],
         \A q \in Proc \ {p} : /\ pcb'[q].pid = Unlinked(p)[q].pid
                               /\ pcb'[q].parent = Unlinked(p)[q].parent
                               /\ pcb'[q].children = Unlinked(p)[q].children,
         pidMap' = pidMap \ {pcb[p].pid},
         pcbTable' = [pcbTable EXCEPT ![pcb[p].pid] = NULL]
  PROVE  TableInv'
<1>0. p \in Proc /\ Live \subseteq Proc /\ Pid' = Pid
  BY DEF Live, Pid
<1>1. ASSUME NEW q \in Proc \ {p}
      PROVE  /\ pcb'[q].pid = pcb[q].pid
             /\ q \notin Range(pcb[p].children.items) => pcb'[q].parent = pcb[q].parent
             /\ q = pcb[p].parent =>
                  pcb'[q].children = RemovedElement(pcb[q].children, {p})
             /\ q # pcb[p].parent => pcb'[q].children = pcb[q].children
  <2>1. pcb \in [Proc -> PCBType]
    BY DEF TableInv
  <2>2. /\ Unlinked(p)[q].pid = pcb[q].pid
        /\ Unlinked(p)[q].parent =
             IF q \in Range(pcb[p].children.items) THEN NULL ELSE pcb[q].parent
        /\ Unlinked(p)[q].children =
             IF q = pcb[p].parent THEN RemovedElement(pcb[q].children, {p})
             ELSE pcb[q].children
    BY <1>0, <2>1, UnlinkedFacts
  <2>3. /\ pcb'[q].pid = Unlinked(p)[q].pid
        /\ pcb'[q].parent = Unlinked(p)[q].parent
        /\ pcb'[q].children = Unlinked(p)[q].children
    OBVIOUS
  <2>4. pcb'[q].pid = pcb[q].pid
    BY <2>2, <2>3
  <2>5. q \notin Range(pcb[p].children.items) => pcb'[q].parent = pcb[q].parent
    BY <2>2, <2>3
  <2>6. q = pcb[p].parent => pcb'[q].children = RemovedElement(pcb[q].children, {p})
    BY <2>2, <2>3
  <2>7. q # pcb[p].parent => pcb'[q].children = pcb[q].children
    BY <2>2, <2>3
  <2> QED BY <2>4, <2>5, <2>6, <2>7
<1>2. /\ pidMap = {pcb[q].pid : q \in Live} /\ pidMap \subseteq Pid
      /\ \A q \in Live : pcbTable[pcb[q].pid] = q
  BY DEF TableInv, PidsAgree
<1>3. \A q \in Live' : pcb'[q].pid = pcb[q].pid /\ pcb[q].pid # pcb[p].pid
  BY <1>0, <1>1, <1>2
<1>4. pidMap' = {pcb'[q].pid : q \in Live'}
  BY <1>2, <1>3
<1>5. /\ pcbTable' \in [Pid -> Proc \cup {NULL, Garbage}]
      /\ \A q \in Live' : pcbTable'[pcb'[q].pid] = q
  <2>1. \A q \in Live : pcb[q].pid \in Pid
    BY <1>2
  <2>2. pcbTable \in [Pid -> Proc \cup {NULL, Garbage}]
    BY DEF TableInv
  <2>3. pcbTable' \in [Pid -> Proc \cup {NULL, Garbage}]
    BY <2>2
  <2>4. ASSUME NEW q \in Live' PROVE pcbTable'[pcb'[q].pid] = q
    BY <1>2, <1>3, <2>1, <2>2
  <2> QED BY <2>3, <2>4
<1>6. ASSUME NEW q \in Live'
      PROVE  /\ Range(pcb'[q].children.items) \subseteq Range(pcb[q].children.items) \ {p}
             /\ Distinct(pcb'[q].children.items)
  <2>0. q \in Live /\ q # p /\ q \in Proc
    BY <1>0
  <2>1. pcb[q].children \in ListType /\ Distinct(pcb[q].children.items)
    BY <2>0 DEF TableInv, PCBType
  <2>2. CASE q = pcb[p].parent
    <3> DEFINE l == pcb[q].children
               r == RemovedElement(l, {p})
    <3>1. pcb'[q].children = r
      BY <1>1, <2>0, <2>2
    <3>2. l \in ListType /\ Distinct(l.items)
      BY <2>1
    <3> HIDE DEF l
    <3>3. Range(r.items) \subseteq Range(l.items) /\ Distinct(r.items) /\ p \notin Range(r.items)
      BY <3>2, RemovedElementFacts
    <3> HIDE DEF r
    <3>4. Range(r.items) \subseteq Range(l.items) \ {p}
      BY <3>3
    <3> QED BY <3>1, <3>3, <3>4 DEF l
  <2>3. CASE q # pcb[p].parent
    <3>1. p \notin Range(pcb[q].children.items)
      BY <2>0, <2>3 DEF TableInv
    <3>2. pcb'[q].children = pcb[q].children
      BY <1>1, <2>0, <2>3
    <3> QED BY <2>1, <3>1, <3>2
  <2> QED BY <2>2, <2>3
<1>7. ASSUME NEW q \in Live', NEW c \in Range(pcb'[q].children.items)
      PROVE  c \in Live' /\ pcb'[c].parent = q
  <2>1. c \in Range(pcb[q].children.items) /\ c # p /\ q \in Live /\ q # p
    BY <1>6
  <2>2. c \in Live /\ pcb[c].parent = q
    BY <2>1 DEF TableInv
  <2>3. c \notin Range(pcb[p].children.items)
    BY <2>1, <2>2 DEF TableInv
  <2> QED BY <1>0, <1>1, <2>1, <2>2, <2>3
<1>8. PidsAgree'
  BY <1>4, <1>5 DEF PidsAgree
<1>9. pidMap' \subseteq Pid'
  BY <1>0, <1>2
<1> QED BY <1>0, <1>5, <1>6, <1>7, <1>8, <1>9 DEF TableInv

(* ReleasePhysicalMemory gives back the frames of one process. *)
LEMMA EndMem ==
  ASSUME MemInv, NEW p \in Live, Live' = Live \ {p}, setup' = setup,
         used' = ReleasePhysicalMemory(p),
         pageTable' = [pageTable EXCEPT ![p] = <<>>]
  PROVE  MemInv'
<1>0. p \in Proc /\ Live \subseteq Proc /\ Frame' = Frame
  BY DEF Live, Frame
<1>1. /\ pageTable' \in [Proc -> Seq(Frame)]
      /\ \A q \in Live' : pageTable'[q] = pageTable[q]
  BY <1>0, EmptySeq DEF MemInv
<1>2. used' = used \ Range(pageTable[p])
  BY DEF ReleasePhysicalMemory
<1>3. \A q \in Live' : /\ q \in Live /\ q # p
                       /\ Range(pageTable[q]) \cap Range(pageTable[p]) = {}
                       /\ Range(pageTable[q]) \subseteq used
  BY DEF MemInv
<1>4. \A q \in Live' : /\ Len(pageTable'[q]) > 0 /\ Distinct(pageTable'[q])
                       /\ Range(pageTable'[q]) \subseteq used'
  BY <1>1, <1>2, <1>3 DEF MemInv
<1>5. \A q, r \in Live' : q # r => Range(pageTable'[q]) \cap Range(pageTable'[r]) = {}
  BY <1>1, <1>3 DEF MemInv
<1>6. ASSUME used = UNION {Range(pageTable[q]) : q \in Live}
      PROVE  used' = UNION {Range(pageTable'[q]) : q \in Live'}
  <2>1. UNION {Range(pageTable'[q]) : q \in Live'} = UNION {Range(pageTable[q]) : q \in Live'}
    BY <1>1
  <2>2. ASSUME NEW f \in used' PROVE f \in UNION {Range(pageTable[q]) : q \in Live'}
    BY <1>2, <1>6
  <2>3. ASSUME NEW f \in UNION {Range(pageTable[q]) : q \in Live'} PROVE f \in used'
    BY <1>2, <1>3
  <2> QED BY <2>1, <2>2, <2>3
<1>7. used' \subseteq Frame
  BY <1>2 DEF MemInv
<1> QED BY <1>0, <1>1, <1>4, <1>5, <1>6, <1>7 DEF MemInv

(* exit of the current process. *)
LEMMA ExitKeeps ==
  ASSUME ProcInv, power = "running", NEW code \in ExitValues, ExitWith(code)
  PROVE  ProcInv'
<1>0. SchedInv /\ TableInv /\ MemInv /\ CpuInv /\ current \in Live /\ current \in Proc
  BY DEF ProcInv, SchedInv
<1>1. CASE ParentGone(current) /\ Stop("undefined")
  BY <1>1, StopKeeps DEF ProcInv
<1>2. CASE ~ (ParentGone(current) /\ Stop("undefined"))
  <2> DEFINE parent == pcb[current].parent
  <2>1. /\ pcb' = [q \in Proc |->
                     IF q = parent THEN [Unlinked(current)[q] EXCEPT !.exitValue = code]
                                   ELSE Unlinked(current)[q]]
        /\ ReleaseAll(current)
        /\ Finish
    BY <1>2 DEF ExitWith
  <2>2. setup' = setup
    BY <2>1 DEF Finish
  <2>3. Unlinked(current) \in [Proc -> PCBType]
    BY <1>0, UnlinkedFacts DEF TableInv
  <2>4. /\ pcb' \in [Proc -> PCBType]
        /\ \A q \in Proc \ {current} :
             /\ pcb'[q].pid = Unlinked(current)[q].pid
             /\ pcb'[q].parent = Unlinked(current)[q].parent
             /\ pcb'[q].children = Unlinked(current)[q].children
    BY <2>1, <2>3 DEF PCBType
  <2>5. /\ pidMap' = pidMap \ {pcb[current].pid}
        /\ pcbTable' = [pcbTable EXCEPT ![pcb[current].pid] = NULL]
        /\ used' = ReleasePhysicalMemory(current)
        /\ pageTable' = [pageTable EXCEPT ![current] = <<>>]
    BY <2>1 DEF ReleaseAll
  <2>6. \A q \in Proc \ {current} : pageTable'[q] = pageTable[q]
    BY <1>0, <2>5 DEF MemInv
  <2>7. SchedInv' /\ CpuInv' /\ Live' = Live \ {current}
    BY <1>0, <2>1, <2>2, <2>6, FinishFacts
  <2>8. TableInv'
    BY <1>0, <2>2, <2>4, <2>5, <2>7, EndTable
  <2>9. MemInv'
    BY <1>0, <2>2, <2>5, <2>7, EndMem
  <2> QED BY <2>7, <2>8, <2>9 DEF ProcInv
<1> QED BY <1>1, <1>2

(* kill of another process. *)
LEMMA KillKeeps ==
  ASSUME ProcInv, NEW pid, Kill(pid)
  PROVE  ProcInv'
<1> DEFINE p == GetProcess(pid)
<1>0. /\ power = "running" /\ pid \in pidMap /\ pid # pcb[current].pid
      /\ SchedInv /\ TableInv /\ MemInv /\ CpuInv
  BY DEF Kill, Invokes, ProcInv
<1>1. p \in Live /\ p # current /\ p \in Proc
  <2>1. PICK q \in Live : pid = pcb[q].pid
    BY <1>0 DEF TableInv, PidsAgree
  <2>2. p = q
    BY <1>0, <2>1 DEF GetProcess, TableInv, PidsAgree
  <2> QED BY <1>0, <2>1, <2>2 DEF Live
<1>2. CASE ParentGone(p) /\ Stop("undefined")
  BY <1>2, StopKeeps
<1>3. CASE ~ (ParentGone(p) /\ Stop("undefined"))
  <2>1. /\ pcb' = Unlinked(p) /\ ReleaseAll(p)
        /\ ready' = RemovedElement(ready, {p}) /\ doomed' = p
        /\ life' = [life EXCEPT ![p] = "dead"]
        /\ at' = [at EXCEPT ![p] = "none"]
        /\ UNCHANGED <<current, translation, power, setup>>
    BY <1>3 DEF Kill, SchedulerRemove
  <2> HIDE DEF p
  <2>2. /\ pidMap' = pidMap \ {pcb[p].pid}
        /\ pcbTable' = [pcbTable EXCEPT ![pcb[p].pid] = NULL]
        /\ used' = ReleasePhysicalMemory(p)
        /\ pageTable' = [pageTable EXCEPT ![p] = <<>>]
    BY <2>1 DEF ReleaseAll
  <2>3. Live' = Live \ {p} /\ life' \in [Proc -> Lives] /\ life'[p] = "dead"
    BY <1>0, <1>1, <2>1 DEF Live, SchedInv, Lives
  <2>4. /\ ready' \in ListType /\ Distinct(ready'.items)
        /\ Range(ready'.items) \subseteq Range(ready.items) /\ p \notin Range(ready'.items)
    BY <1>0, <2>1, RemovedElementFacts DEF SchedInv
  <2>5. Range(ready'.items) \subseteq Live' \ {current'}
    BY <1>0, <2>1, <2>3, <2>4 DEF SchedInv
  <2>6. at' \in [Proc -> Where]
    BY <1>0, <1>1, <2>1 DEF SchedInv, Where
  <2>7. SchedInv'
    BY <1>0, <1>1, <2>1, <2>3, <2>4, <2>5, <2>6 DEF SchedInv
  <2>8. TableInv'
    <3>1. pcb' \in [Proc -> PCBType]
      BY <1>0, <1>1, <2>1, UnlinkedFacts DEF TableInv
    <3> QED BY <1>0, <1>1, <2>1, <2>2, <2>3, <3>1, EndTable
  <2>9. MemInv'
    BY <1>0, <1>1, <2>1, <2>2, <2>3, EndMem
  <2>10. CpuInv'
    <3>1. current \in Proc /\ at'[current] = at[current]
      BY <1>0, <1>1, <2>1 DEF SchedInv
    <3>2. pageTable'[current] = pageTable[current]
      BY <1>0, <1>1, <2>2, <3>1 DEF MemInv
    <3> QED BY <1>0, <2>1, <3>1, <3>2 DEF CpuInv
  <2> QED BY <2>7, <2>8, <2>9, <2>10 DEF ProcInv
<1> QED BY <1>2, <1>3

(* fork, steps 4 to 6: a PCB with a new pid, on the list of its parent. *)
LEMMA ForkTable ==
  ASSUME TableInv, NEW parent \in Live, NEW child \in Proc, child \notin Live,
         NEW pid \in Pid \ pidMap, Live' = Live \cup {child}, setup' = setup,
         pidMap' = pidMap \cup {pid},
         pcbTable' = [pcbTable EXCEPT ![pid] = child],
         pcb' = [pcb EXCEPT ![child] = NewPCB(pid, parent),
                            ![parent].children = Appended(@, child)]
  PROVE  TableInv'
<1>0. /\ parent \in Proc /\ parent # child /\ Live \subseteq Proc /\ Pid' = Pid
      /\ pcb \in [Proc -> PCBType]
  BY DEF Live, Pid, TableInv
<1> DEFINE l == Appended(pcb[parent].children, child)
           new == NewPCB(pid, parent)
<1>1. pid \in Int
  BY DEF Pid
<1>2. /\ new \in PCBType /\ new.pid = pid /\ new.parent = parent
      /\ Distinct(new.children.items) /\ Range(new.children.items) = {}
  BY <1>0, <1>1, NewPCBFacts
<1>3. pcb[parent].children \in ListType /\ Distinct(pcb[parent].children.items)
  BY <1>0 DEF TableInv, PCBType
<1>4. child \notin Range(pcb[parent].children.items)
  BY DEF TableInv
<1>5. /\ l \in ListType /\ Distinct(l.items)
      /\ Range(l.items) \subseteq Range(pcb[parent].children.items) \cup {child}
  BY <1>3, <1>4, AppendedFacts
<1>6. /\ pcb'[child] = new
      /\ pcb'[parent] = [pcb[parent] EXCEPT !.children = l]
      /\ \A q \in Proc \ {child, parent} : pcb'[q] = pcb[q]
      /\ pcb' = [q \in Proc |-> pcb'[q]]
  BY <1>0
<1> HIDE DEF l, new
<1>8. /\ pcb'[parent] \in PCBType
      /\ pcb'[parent].pid = pcb[parent].pid /\ pcb'[parent].parent = pcb[parent].parent
      /\ pcb'[parent].children = l
  BY <1>0, <1>5, <1>6 DEF PCBType
<1>9. pcb' \in [Proc -> PCBType]
  <2>1. \A q \in Proc : pcb'[q] \in PCBType
    BY <1>0, <1>2, <1>6, <1>8
  <2> QED BY <1>6, <2>1
<1>10. pcb'[child].pid = pid /\ pcb'[child].parent = parent
  BY <1>2, <1>6
<1>11. \A q \in Live : /\ q # child /\ pcb'[q].pid = pcb[q].pid
                       /\ pcb'[q].parent = pcb[q].parent
  BY <1>0, <1>6, <1>8
<1>12. PidsAgree' /\ pidMap' \subseteq Pid' /\ pcbTable' \in [Pid' -> Proc \cup {NULL, Garbage}]
  <2>1. /\ pidMap = {pcb[q].pid : q \in Live} /\ pidMap \subseteq Pid
        /\ \A q \in Live : pcbTable[pcb[q].pid] = q
        /\ pcbTable \in [Pid -> Proc \cup {NULL, Garbage}]
    BY DEF TableInv, PidsAgree
  <2>2. pidMap' = {pcb'[q].pid : q \in Live'}
    <3>1. {pcb'[q].pid : q \in Live'} = {pcb'[q].pid : q \in Live} \cup {pcb'[child].pid}
      OBVIOUS
    <3>2. {pcb'[q].pid : q \in Live} = {pcb[q].pid : q \in Live}
      BY <1>11
    <3> QED BY <1>10, <2>1, <3>1, <3>2
  <2>3. \A q \in Live : pcb[q].pid \in Pid /\ pcb[q].pid # pid
    BY <2>1
  <2>4. pcbTable'[pid] = child /\ \A i \in Pid \ {pid} : pcbTable'[i] = pcbTable[i]
    BY <2>1
  <2>5. ASSUME NEW q \in Live' PROVE pcbTable'[pcb'[q].pid] = q
    <3>1. CASE q = child
      BY <1>10, <2>4, <3>1
    <3>2. CASE q \in Live
      <4>1. pcb'[q].pid = pcb[q].pid /\ pcb[q].pid \in Pid \ {pid}
        BY <1>11, <2>3, <3>2
      <4>2. pcbTable'[pcb[q].pid] = pcbTable[pcb[q].pid]
        BY <2>4, <4>1
      <4> QED BY <2>1, <3>2, <4>1, <4>2
    <3> QED BY <3>1, <3>2
  <2>6. pcbTable' \in [Pid -> Proc \cup {NULL, Garbage}]
    BY <2>1
  <2>7. pidMap' \subseteq Pid'
    BY <1>0, <2>1
  <2> QED BY <1>0, <2>2, <2>5, <2>6, <2>7 DEF PidsAgree
<1>13. ASSUME NEW q \in Live'
       PROVE  /\ Distinct(pcb'[q].children.items)
              /\ \A c \in Range(pcb'[q].children.items) : c \in Live' /\ pcb'[c].parent = q
  <2>1. CASE q = child
    BY <1>2, <1>6, <2>1
  <2>2. CASE q = parent
    <3>1. \A c \in Range(pcb[parent].children.items) : c \in Live /\ pcb[c].parent = parent
      BY DEF TableInv
    <3> QED BY <1>5, <1>8, <1>10, <1>11, <2>2, <3>1
  <2>3. CASE q # child /\ q # parent
    <3>1. q \in Live /\ pcb'[q] = pcb[q]
      BY <1>0, <1>6, <2>3
    <3>2. /\ Distinct(pcb[q].children.items)
          /\ \A c \in Range(pcb[q].children.items) : c \in Live /\ pcb[c].parent = q
      BY <3>1 DEF TableInv
    <3> QED BY <1>11, <3>1, <3>2
  <2> QED BY <2>1, <2>2, <2>3
<1> QED BY <1>9, <1>12, <1>13 DEF TableInv

(* AddrSpace::copy and Replace give a process frames that nobody else has. *)
LEMMA PlaceMem ==
  ASSUME MemInv, NEW p \in Proc, Live' = Live \cup {p}, setup' = setup,
         NEW others, p \in Live => others = used \ Range(pageTable[p]),
         p \notin Live => others = used,
         NEW frames \in Seq(Frame \ others), Len(frames) > 0, Distinct(frames),
         used' = others \cup Range(frames),
         pageTable' = [pageTable EXCEPT ![p] = frames]
  PROVE  MemInv'
<1>0. Live \subseteq Proc /\ Frame' = Frame
  BY DEF Live, Frame
<1>1. Range(frames) \subseteq Frame \ others
  <2>1. DOMAIN frames = 1..Len(frames) /\ \A i \in 1..Len(frames) : frames[i] \in Frame \ others
    BY LenProperties, ElementOfSeq
  <2> HIDE DEF Frame
  <2> QED BY <2>1 DEF Range
<1>2. frames \in Seq(Frame)
  <2>1. frames \in [1..Len(frames) -> Frame \ others] /\ Len(frames) \in Nat
    BY LenProperties
  <2>2. frames \in [1..Len(frames) -> Frame]
    BY <2>1
  <2> QED BY <2>1, <2>2, SeqDef
<1>3. /\ pageTable' \in [Proc -> Seq(Frame)] /\ pageTable'[p] = frames
      /\ \A q \in Proc \ {p} : pageTable'[q] = pageTable[q]
  BY <1>2 DEF MemInv
<1>4. others \subseteq used /\ used \subseteq Frame
  BY DEF MemInv
<1>5. ASSUME NEW q \in Live' \ {p}
      PROVE  /\ q \in Live /\ q \in Proc /\ Range(pageTable[q]) \subseteq others
             /\ Len(pageTable[q]) > 0 /\ Distinct(pageTable[q])
  <2>1. q \in Live /\ q # p /\ q \in Proc
    BY <1>0
  <2>2. /\ Range(pageTable[q]) \subseteq used
        /\ Len(pageTable[q]) > 0 /\ Distinct(pageTable[q])
        /\ p \in Live => Range(pageTable[q]) \cap Range(pageTable[p]) = {}
    BY <2>1 DEF MemInv
  <2>3. Range(pageTable[q]) \subseteq others
    BY <2>2
  <2> QED BY <2>1, <2>2, <2>3
<1>6. \A q \in Live' : /\ Len(pageTable'[q]) > 0 /\ Distinct(pageTable'[q])
                       /\ Range(pageTable'[q]) \subseteq used'
  BY <1>3, <1>5
<1>7. \A q, r \in Live' : q # r => Range(pageTable'[q]) \cap Range(pageTable'[r]) = {}
  <2> SUFFICES ASSUME NEW q \in Live', NEW r \in Live', q # r
               PROVE  Range(pageTable'[q]) \cap Range(pageTable'[r]) = {}
    OBVIOUS
  <2>1. CASE q = p
    BY <1>1, <1>3, <1>5, <2>1
  <2>2. CASE r = p
    BY <1>1, <1>3, <1>5, <2>2
  <2>3. CASE q # p /\ r # p
    <3>1. Range(pageTable[q]) \cap Range(pageTable[r]) = {}
      BY <1>5, <2>3 DEF MemInv
    <3> QED BY <1>3, <1>5, <2>3, <3>1
  <2> QED BY <2>1, <2>2, <2>3
<1>8. ASSUME used = UNION {Range(pageTable[q]) : q \in Live}
      PROVE  used' = UNION {Range(pageTable'[q]) : q \in Live'}
  <2>1. ASSUME NEW f \in others PROVE \E q \in Live' \ {p} : f \in Range(pageTable[q])
    BY <1>4, <1>8, <2>1
  <2>2. ASSUME NEW f \in used' PROVE \E q \in Live' : f \in Range(pageTable'[q])
    BY <1>3, <1>5, <2>1
  <2>3. \A q \in Live' : Range(pageTable'[q]) \subseteq used'
    BY <1>6
  <2> QED BY <2>2, <2>3
<1>9. used' \subseteq Frame
  BY <1>1, <1>4
<1> QED BY <1>0, <1>3, <1>6, <1>7, <1>8, <1>9 DEF MemInv

(* A sequence without repetitions has as many elements as it is long. *)
LEMMA RangeCardinality ==
  ASSUME NEW S, NEW s \in Seq(S), Distinct(s)
  PROVE  IsFiniteSet(Range(s)) /\ Cardinality(Range(s)) = Len(s)
<1>1. Len(s) \in Nat /\ DOMAIN s = 1..Len(s)
  BY LenProperties
<1>2. s \in [1..Len(s) -> Range(s)] /\ \A y \in Range(s) : \E i \in 1..Len(s) : s[i] = y
  <2>1. s \in [1..Len(s) -> S]
    BY LenProperties
  <2> QED BY <1>1, <2>1 DEF Range
<1>3. s \in Bijection(1..Len(s), Range(s))
  BY <1>1, <1>2 DEF Bijection, Injection, Surjection, IsInjective, Distinct
<1>4. ExistsBijection(1..Len(s), Range(s))
  BY <1>3 DEF ExistsBijection
<1>5. IsFiniteSet(1..Len(s)) /\ Cardinality(1..Len(s)) = Len(s)
  <2>1. IsFiniteSet(1..Len(s)) /\ Cardinality(1..Len(s)) = IF 1 > Len(s) THEN 0 ELSE Len(s) - 1 + 1
    BY <1>1, FS_Interval
  <2> QED BY <1>1, <2>1
<1> QED BY <1>4, <1>5, FS_Bijection

(* There is room for the copy of the caller's address space. *)
LEMMA CopyFacts ==
  ASSUME SchedInv, MemInv, power = "running", ~ CopyFails
  PROVE  /\ CopyFrames \in Seq(Frame \ used) /\ Len(CopyFrames) > 0
         /\ Distinct(CopyFrames)
<1> DEFINE n == Len(pageTable[current])
<1>1. current \in Live /\ current \in Proc /\ pageTable[current] \in Seq(Frame)
  BY DEF SchedInv, MemInv
<1>2. n \in Nat /\ n > 0
  BY <1>1, LenProperties DEF MemInv
<1>3. Frame \in SUBSET Nat /\ IsFiniteSet(Frame)
  BY SetupFacts DEF SchedInv
<1>4. IsFiniteSet(Frame \ used) /\ Cardinality(Frame \ used) \in Nat
  BY <1>3, FS_Subset, FS_CardinalityType
<1>5. ~ (n > Cardinality(Frame \ used))
  BY DEF CopyFails, NumClear
<1>6. CopyFrames = Find(n, used, Frame)
  BY DEF CopyFrames
<1> HIDE DEF n
<1>7. n <= Cardinality(Frame \ used)
  BY <1>2, <1>4, <1>5
<1>8. /\ CopyFrames \in Seq(Frame \ used) /\ Len(CopyFrames) = n /\ Distinct(CopyFrames)
  BY <1>2, <1>3, <1>6, <1>7, FindFacts
<1> QED BY <1>2, <1>8

(* When every pid is in use and there are as many as frames, no frame is clear. *)
LEMMA PidsUseFrames ==
  ASSUME SchedInv, TableInv, MemInv, pidMap = Pid, setup.numPids >= setup.numFrames
  PROVE  NumClear = 0
<1> DEFINE first == [i \in Pid |-> pageTable[pcbTable[i]][1]]
<1>1. /\ Cardinality(Pid) = setup.numPids /\ setup.numPids \in Nat
      /\ IsFiniteSet(Frame) /\ Cardinality(Frame) = setup.numFrames
      /\ setup.numFrames \in Nat
  BY SetupFacts DEF SchedInv
<1>2. \A i \in Pid : pcbTable[i] \in Live /\ pcb[pcbTable[i]].pid = i
  BY DEF TableInv, PidsAgree
<1>3. ASSUME NEW p \in Live PROVE pageTable[p][1] \in Range(pageTable[p])
  <2>1. pageTable[p] \in Seq(Frame) /\ Len(pageTable[p]) > 0
    BY DEF MemInv, Live
  <2>2. 1 \in DOMAIN pageTable[p]
    BY <2>1, LenProperties
  <2> QED BY <2>2 DEF Range
<1>4. first \in [Pid -> used]
  BY <1>2, <1>3 DEF MemInv
<1>5. ASSUME NEW i \in Pid, NEW j \in Pid, first[i] = first[j] PROVE i = j
  <2>1. pcbTable[i] = pcbTable[j]
    BY <1>2, <1>3, <1>5 DEF MemInv
  <2> QED BY <1>2, <2>1
<1> HIDE DEF first
<1>6. first \in Injection(Pid, used)
  BY <1>4, <1>5 DEF Injection, IsInjective
<1>7. used \in SUBSET Frame
  BY DEF MemInv
<1>8. IsFiniteSet(used) /\ Cardinality(used) <= setup.numFrames
  BY <1>1, <1>7, FS_Subset
<1>9. setup.numPids <= Cardinality(used) /\ Cardinality(used) \in Nat
  BY <1>1, <1>6, <1>8, FS_Injection, FS_CardinalityType
<1>10. Cardinality(Frame) = Cardinality(used)
  BY <1>1, <1>8, <1>9
<1>11. Frame = used
  BY <1>1, <1>7, <1>10, FS_Subset
<1> QED BY <1>11, FS_EmptySet DEF NumClear

(* fork *)
LEMMA ForkKeeps ==
  ASSUME ProcInv, NEW child \in Proc, Fork(child)
  PROVE  ProcInv'
<1>0. /\ power = "running" /\ life[child] = "none" /\ ~ CopyFails /\ pidMap # Pid
      /\ SchedInv /\ TableInv /\ MemInv /\ CpuInv /\ at[current] = "user"
  BY DEF Fork, Invokes, ProcInv
<1> DEFINE pid == Find(1, pidMap, Pid)[1]
<1>1. /\ used' = used \cup Range(CopyFrames)
      /\ pageTable' = [pageTable EXCEPT ![child] = CopyFrames]
      /\ pidMap' = pidMap \cup {pid}
      /\ pcbTable' = [pcbTable EXCEPT ![pid] = child]
      /\ pcb' = [pcb EXCEPT ![child] = NewPCB(pid, current),
                            ![current].children = Appended(@, child)]
      /\ ready' = Appended(ready, child)
      /\ life' = [life EXCEPT ![child] = "live"]
      /\ at' = [at EXCEPT ![child] = "fresh", ![current] = "forking"]
      /\ UNCHANGED <<current, doomed, translation, power, setup>>
  BY DEF Fork
<1>2. pid \in Pid \ pidMap
  <2>1. Pid \in SUBSET Nat /\ IsFiniteSet(Pid) /\ pidMap \subseteq Pid
    BY <1>0, SetupFacts DEF SchedInv, TableInv
  <2>2. IsFiniteSet(Pid \ pidMap) /\ Cardinality(Pid \ pidMap) \in Nat
    BY <2>1, FS_Subset, FS_CardinalityType
  <2>3. Cardinality(Pid \ pidMap) # 0
    BY <1>0, <2>1, <2>2, FS_EmptySet
  <2>4. 1 <= Cardinality(Pid \ pidMap)
    BY <2>2, <2>3
  <2>5. /\ Find(1, pidMap, Pid) \in Seq(Pid \ pidMap) /\ Len(Find(1, pidMap, Pid)) = 1
    BY <2>1, <2>4, FindFacts
  <2> QED BY <2>5, ElementOfSeq
<1> HIDE DEF pid
<1>3. current \in Live /\ current \in Proc /\ child \notin Live /\ child # current
  BY <1>0 DEF SchedInv, Live
<1>4. /\ life' \in [Proc -> Lives] /\ Live' = Live \cup {child}
      /\ doomed # NULL => life'[doomed] = "dead"
  BY <1>0, <1>1 DEF SchedInv, Live, Lives
<1>5. /\ ready' \in ListType /\ Distinct(ready'.items)
      /\ Range(ready'.items) \subseteq Range(ready.items) \cup {child}
  <2>1. ready \in ListType /\ Distinct(ready.items) /\ child \notin Range(ready.items)
    BY <1>0, <1>3 DEF SchedInv
  <2> QED BY <1>1, <2>1, AppendedFacts
<1>6. Range(ready'.items) \subseteq Live' \ {current'}
  BY <1>0, <1>1, <1>3, <1>4, <1>5 DEF SchedInv
<1>7. at' \in [Proc -> Where]
  BY <1>0, <1>1, <1>3 DEF SchedInv, Where
<1>8. SchedInv'
  BY <1>0, <1>1, <1>3, <1>4, <1>5, <1>6, <1>7 DEF SchedInv
<1>9. TableInv'
  BY <1>0, <1>1, <1>2, <1>3, <1>4, ForkTable
<1>10. MemInv'
  BY <1>0, <1>1, <1>3, <1>4, CopyFacts, PlaceMem
<1>11. CpuInv'
  <2>1. pageTable'[current] = pageTable[current]
    BY <1>0, <1>1, <1>3 DEF MemInv
  <2> QED BY <1>0, <1>1, <2>1 DEF CpuInv
<1> QED BY <1>8, <1>9, <1>10, <1>11 DEF ProcInv

(* fork, when no pid is left. *)
LEMMA ForkNoPidKeeps ==
  ASSUME ProcInv, ForkNoPid
  PROVE  ProcInv'
<1>0. /\ power = "running" /\ ~ CopyFails /\ pidMap = Pid
      /\ SchedInv /\ TableInv /\ MemInv /\ CpuInv
      /\ used' = used \cup Range(CopyFrames)
      /\ UNCHANGED <<current, ready, doomed, life, at, pcb, pidMap, pcbTable, pageTable,
                     translation, power, setup>>
  BY DEF ForkNoPid, Invokes, ProcInv, Return, schedVars, pcbVars
<1>1. Live' = Live /\ Frame' = Frame
  BY <1>0 DEF Live, Frame
<1>2. CopyFrames \in Seq(Frame \ used)
  BY <1>0, CopyFacts
<1>3. Range(CopyFrames) \subseteq Frame
  <2>1. /\ DOMAIN CopyFrames = 1..Len(CopyFrames)
        /\ \A i \in 1..Len(CopyFrames) : CopyFrames[i] \in Frame \ used
    BY <1>2, LenProperties, ElementOfSeq
  <2> QED BY <2>1 DEF Range
<1>4. ~ (setup.numPids >= setup.numFrames)
  <2> SUFFICES ASSUME setup.numPids >= setup.numFrames PROVE FALSE
    OBVIOUS
  <2>1. NumClear = 0
    BY <1>0, PidsUseFrames
  <2>2. Len(pageTable[current]) > 0
    BY <1>0 DEF SchedInv, MemInv
  <2> QED BY <1>0, <2>1, <2>2 DEF CopyFails
<1>5. MemInv'
  BY <1>0, <1>1, <1>3, <1>4 DEF MemInv
<1>6. TableInv'
  BY <1>0, <1>1, SameTable
<1>7. SchedInv' /\ CpuInv'
  BY <1>0, <1>1 DEF SchedInv, CpuInv
<1> QED BY <1>5, <1>6, <1>7 DEF ProcInv

(* exec: the frames of the caller and the clear ones are enough. *)
LEMMA ExecKeeps ==
  ASSUME ProcInv, NEW n \in Sizes, Exec(n)
  PROVE  ProcInv'
<1> DEFINE others == ReleasePhysicalMemory(current)
           frames == Find(n, others, Frame)
           own == Range(pageTable[current])
<1>0. /\ power = "running" /\ ~ TooBig(n)
      /\ SchedInv /\ TableInv /\ MemInv /\ CpuInv
      /\ used' = others \cup Range(frames)
      /\ pageTable' = [pageTable EXCEPT ![current] = frames]
      /\ translation' = frames
      /\ UNCHANGED <<current, ready, doomed, life, at, pcb, pidMap, pcbTable, power, setup>>
  BY DEF Exec, Invokes, ProcInv, schedVars, pcbVars
<1>1. /\ Live' = Live /\ current \in Live /\ current \in Proc
      /\ pageTable[current] \in Seq(Frame) /\ Len(pageTable[current]) \in Nat
      /\ Distinct(pageTable[current]) /\ own \subseteq used /\ used \subseteq Frame
  BY <1>0, LenProperties DEF SchedInv, MemInv, Live
<1>2. /\ Frame \in SUBSET Nat /\ IsFiniteSet(Frame) /\ Sizes \subseteq 1..setup.numFrames
  BY <1>0, SetupFacts DEF SchedInv
<1>3. n \in Nat /\ n > 0
  BY <1>0, <1>2, SetupFacts DEF SchedInv
<1>4. IsFiniteSet(own) /\ Cardinality(own) = Len(pageTable[current])
  BY <1>1, RangeCardinality
<1>5. others = used \ own
  BY DEF ReleasePhysicalMemory
<1>6. ~ (n - Len(pageTable[current]) > Cardinality(Frame \ used))
  BY <1>0 DEF TooBig, NumClear
<1> HIDE DEF own, frames, others
<1>7. n <= Cardinality(Frame \ others)
  <2>1. Frame \ others = (Frame \ used) \cup own /\ (Frame \ used) \cap own = {}
    BY <1>1, <1>5
  <2>2. IsFiniteSet(Frame \ used) /\ Cardinality(Frame \ used) \in Nat
    BY <1>2, FS_Subset, FS_CardinalityType
  <2>3. Cardinality((Frame \ used) \cup own) =
          Cardinality(Frame \ used) + Cardinality(own) - Cardinality((Frame \ used) \cap own)
    BY <1>4, <2>2, FS_Union
  <2>4. Cardinality(Frame \ others) = Cardinality(Frame \ used) + Len(pageTable[current])
    <3>1. Cardinality((Frame \ used) \cap own) = 0
      BY <2>1, FS_EmptySet
    <3>2. Cardinality(Frame \ others) = Cardinality((Frame \ used) \cup own)
      BY <2>1
    <3>3. Cardinality(Frame \ others) = Cardinality(Frame \ used) + Cardinality(own) - 0
      BY <2>3, <3>1, <3>2
    <3> QED BY <1>1, <1>4, <2>2, <3>3
  <2> QED BY <1>1, <1>3, <1>6, <2>2, <2>4
<1>8. /\ frames \in Seq(Frame \ others) /\ Len(frames) > 0 /\ Distinct(frames)
  BY <1>2, <1>3, <1>7, FindFacts DEF frames
<1>9. MemInv'
  <2>1. Live' = Live \cup {current} /\ others = used \ Range(pageTable[current])
    BY <1>1, <1>5 DEF own
  <2> QED BY <1>0, <1>1, <1>8, <2>1, PlaceMem
<1>10. TableInv'
  BY <1>0, <1>1, SameTable
<1>11. SchedInv'
  BY <1>0, <1>1 DEF SchedInv
<1>12. CpuInv'
  BY <1>0, <1>1 DEF CpuInv, MemInv
<1> QED BY <1>9, <1>10, <1>11, <1>12 DEF ProcInv

(* StartProcess *)
LEMMA InitHolds ==
  ASSUME ProcInit
  PROVE  ProcInv
<1>0. PICK n \in Sizes :
        /\ pageTable = [p \in Proc |-> IF p = Main THEN Find(n, {}, Frame) ELSE <<>>]
        /\ used = Range(Find(n, {}, Frame))
  BY DEF ProcInit
<1> DEFINE frames == Find(n, {}, Frame)
<1>1. /\ setup \in Setups /\ current = Main /\ ready = EmptyList /\ doomed = NULL
      /\ life = [p \in Proc |-> IF p = Main THEN "live" ELSE "none"]
      /\ at = [p \in Proc |-> IF p = Main THEN "user" ELSE "none"]
      /\ pcb = [p \in Proc |-> IF p = Main THEN NewPCB(0, NULL) ELSE NoPCB]
      /\ pidMap = {0}
      /\ pcbTable = [i \in Pid |-> IF i = 0 THEN Main ELSE Garbage]
      /\ translation = pageTable[Main]
  BY DEF ProcInit
<1>2. Main \in Proc /\ Live = {Main}
  BY <1>1, ProcessesAssumption DEF Live
<1>3. /\ Frame \in SUBSET Nat /\ IsFiniteSet(Frame) /\ Cardinality(Frame) = setup.numFrames
      /\ Sizes \subseteq 1..setup.numFrames /\ setup.numFrames \in Nat
      /\ setup.numPids \in Nat /\ setup.numPids > 0
  BY <1>1, SetupFacts
<1>4. n \in Nat /\ n > 0 /\ n <= setup.numFrames
  BY <1>3
<1>5. frames \in Seq(Frame) /\ Len(frames) > 0 /\ Distinct(frames)
  <2>1. Frame \ {} = Frame
    OBVIOUS
  <2>2. n <= Cardinality(Frame \ {})
    BY <1>3, <1>4, <2>1
  <2>3. frames \in Seq(Frame \ {}) /\ Len(frames) = n /\ Distinct(frames)
    BY <1>3, <1>4, <2>2, FindFacts
  <2> QED BY <1>4, <2>1, <2>3
<1> HIDE DEF frames
<1>6. /\ pageTable = [p \in Proc |-> IF p = Main THEN frames ELSE <<>>]
      /\ used = Range(frames)
  BY <1>0 DEF frames
<1>7. MemInv
  <2>1. Range(frames) \subseteq Frame
    <3>1. DOMAIN frames = 1..Len(frames) /\ \A i \in 1..Len(frames) : frames[i] \in Frame
      BY <1>5, LenProperties, ElementOfSeq
    <3> QED BY <3>1 DEF Range
  <2>2. pageTable \in [Proc -> Seq(Frame)] /\ pageTable[Main] = frames
    BY <1>2, <1>5, <1>6, EmptySeq
  <2>3. used = UNION {Range(pageTable[p]) : p \in Live}
    BY <1>2, <1>6, <2>2
  <2> QED BY <1>2, <1>5, <1>6, <2>1, <2>2, <2>3 DEF MemInv
<1>8. SchedInv
  <2>1. EmptyList \in ListType /\ EmptyList.items = <<>>
    BY EmptySeq DEF EmptyList, ListOf, ListType
  <2>2. Distinct(<<>>) /\ Range(<<>>) = {}
    BY DEF Distinct, Range
  <2>3. life \in [Proc -> Lives] /\ at \in [Proc -> Where]
    BY <1>1 DEF Lives, Where
  <2> QED BY <1>1, <1>2, <2>1, <2>2, <2>3 DEF SchedInv
<1>9. TableInv
  <2>1. /\ NewPCB(0, NULL) \in PCBType /\ NewPCB(0, NULL).pid = 0
        /\ Distinct(NewPCB(0, NULL).children.items)
        /\ Range(NewPCB(0, NULL).children.items) = {}
        /\ NoPCB \in PCBType
    BY NewPCBFacts DEF NoPCB
  <2>2. pcb \in [Proc -> PCBType] /\ pcb[Main] = NewPCB(0, NULL)
    BY <1>1, <1>2, <2>1
  <2>3. 0 \in Pid
    BY <1>3 DEF Pid
  <2>4. /\ pcbTable \in [Pid -> Proc \cup {NULL, Garbage}] /\ pcbTable[0] = Main
    BY <1>1, <1>2, <2>3
  <2>5. PidsAgree
    BY <1>1, <1>2, <2>1, <2>2, <2>4 DEF PidsAgree
  <2> QED BY <1>1, <1>2, <2>1, <2>2, <2>3, <2>4, <2>5 DEF TableInv
<1> QED BY <1>1, <1>7, <1>8, <1>9 DEF ProcInv, CpuInv

(* Steps that change no more than registers and where the caller is. *)
LEMMA SameProcesses ==
  ASSUME ProcInv, power = "running",
         UNCHANGED <<setup, current, ready, doomed, life, pcb, pidMap, pcbTable, used,
                     pageTable, power>>,
         \/ UNCHANGED <<at, translation>>
         \/ /\ at' = [at EXCEPT ![current] = "user"]
            /\ translation' = translation /\ at[current] # "starting"
         \/ /\ at' = [at EXCEPT ![current] = "user"]
            /\ translation' = pageTable[current]
  PROVE  ProcInv'
<1>1. Live' = Live
  BY DEF Live
<1>2. TableInv' /\ MemInv'
  BY <1>1, SameTable, SameMem DEF ProcInv
<1>3. at' \in [Proc -> Where]
  BY DEF ProcInv, SchedInv, Where
<1>4. SchedInv'
  BY <1>1, <1>3 DEF ProcInv, SchedInv
<1>5. CpuInv'
  BY DEF ProcInv, CpuInv
<1> QED BY <1>2, <1>4, <1>5 DEF ProcInv

(* Steps that do no more than Yield. *)
LEMMA YieldKeeps ==
  ASSUME ProcInv, power = "running", NEW place \in Where, NEW context,
         Yield(place, context), IsEmpty(ready) => at[current] # "starting",
         UNCHANGED <<setup, pcb, pidMap, pcbTable, used, pageTable, power>>
  PROVE  ProcInv'
<1>1. SchedInv' /\ CpuInv' /\ Live' = Live
  BY YieldFacts DEF ProcInv
<1>2. TableInv' /\ MemInv'
  BY <1>1, SameTable, SameMem DEF ProcInv
<1> QED BY <1>1, <1>2 DEF ProcInv

LEMMA NextKeeps ==
  ASSUME ProcInv, [ProcNext]_procVars
  PROVE  ProcInv'
<1> USE DEF schedVars, pcbVars, memVars, cpuVars
<1>0. CASE UNCHANGED procVars
  <2>1. /\ UNCHANGED <<setup, current, ready, doomed, life, at, power, translation>>
        /\ UNCHANGED <<pcb, pidMap, pcbTable, used, pageTable>>
    BY <1>0 DEF procVars
  <2>2. Live' = Live
    BY <2>1 DEF Live
  <2>3. TableInv' /\ MemInv'
    BY <2>1, <2>2, SameTable, SameMem DEF ProcInv
  <2>4. SchedInv'
    BY <2>1, <2>2 DEF ProcInv, SchedInv
  <2>5. CpuInv'
    BY <2>1 DEF ProcInv, CpuInv
  <2> QED BY <2>3, <2>4, <2>5 DEF ProcInv
<1>1. CASE ForkNoMemory \/ ExecMissing
  BY <1>1, SameProcesses DEF ForkNoMemory, ExecMissing, Invokes, Return
<1>2. CASE ForkNoPid
  BY <1>2, ForkNoPidKeeps
<1>3. CASE ResumeFork \/ Start \/ ResumeYield \/ JoinReturns
  BY <1>3, SameProcesses DEF ResumeFork, Start, ResumeYield, JoinReturns
<1>4. CASE KernelSlice
  <2>1. at[current] \in Where
    BY <1>4 DEF KernelSlice, Where
  <2> QED BY <1>4, <2>1, YieldKeeps DEF KernelSlice
<1>5. CASE TimeSlice \/ YieldCall
  <2>1. "user" \in Where /\ "yielding" \in Where
    BY DEF Where
  <2> QED BY <1>5, <2>1, YieldKeeps DEF TimeSlice, YieldCall, Invokes
<1>6. CASE \E child \in Proc : Fork(child)
  BY <1>6, ForkKeeps
<1>7. CASE \E code \in Codes : Exit(code)
  BY <1>7, ExitKeeps DEF Exit, Invokes, ExitValues
<1>8. CASE \E pid \in PidArg : JoinNoChild(pid) \/ KillNobody(pid)
  <2>1. PICK pid \in PidArg : JoinNoChild(pid) \/ KillNobody(pid)
    BY <1>8
  <2>2. CASE Stop("aborted")
    BY <2>2, StopKeeps
  <2>3. CASE ~ Stop("aborted")
    BY <2>1, <2>3, SameProcesses DEF JoinNoChild, KillNobody, Invokes, Return
  <2> QED BY <2>2, <2>3
<1>9. CASE \E pid \in PidArg : Join(pid)
  <2>1. "joining" \in Where
    BY DEF Where
  <2> QED BY <1>9, <2>1, YieldKeeps DEF Join, Invokes
<1>10. CASE \E pid \in PidArg : Kill(pid)
  BY <1>10, KillKeeps
<1>11. CASE JoinWaits
  <2>1. "joining" \in Where
    BY DEF Where
  <2> QED BY <1>11, <2>1, YieldKeeps DEF JoinWaits
<1>12. CASE KillSelf
  <2>1. pcb[current].pid \in ExitValues
    BY DEF ProcInv, SchedInv, TableInv, PCBType, ExitValues
  <2> QED BY <1>12, <2>1, ExitKeeps DEF KillSelf, Invokes
<1>13. CASE ExecUnrecognizable \/ HaltCall
  BY <1>13, StopKeeps DEF ExecUnrecognizable, HaltCall
<1>14. CASE \E n \in Sizes : ExecTooBig(n)
  BY <1>14, SameProcesses DEF ExecTooBig, Invokes, Return
<1>15. CASE \E n \in Sizes : Exec(n)
  BY <1>15, ExecKeeps
<1>16. CASE Stopped
  BY <1>0, <1>16 DEF Stopped
<1> QED BY <1>0, <1>1, <1>2, <1>3, <1>4, <1>5, <1>6, <1>7, <1>8, <1>9, <1>10, <1>11, <1>12,
           <1>13, <1>14, <1>15, <1>16 DEF ProcNext
-----------------------------------------------------------------------------
(* Every live process is found under its own pid in ProcessManager's table, and
   no pid is marked for nobody, after any sequence of Forks, Exits and Kills.  *)
THEOREM PidsCorrect == ProcSpec => []PidsAgree
<1>1. ProcInv => PidsAgree
  BY DEF ProcInv, TableInv
<1> QED BY <1>1, InitHolds, NextKeeps, PTL DEF ProcSpec

(* The ready list holds live processes other than the current one, each once,
   and only a thread that exited or was killed is deleted by Scheduler::Run.  *)
THEOREM OnlyLiveRunCorrect == ProcSpec => []OnlyLiveRun
<1>1. ProcInv => OnlyLiveRun
  BY DEF ProcInv, SchedInv, OnlyLiveRun, Distinct
<1> QED BY <1>1, InitHolds, NextKeeps, PTL DEF ProcSpec

(* The lists of children that Exit and Join walk hold live processes whose
   parent pointer leads back, each once.                                    *)
THEOREM ChildrenCorrect == ProcSpec => []ChildrenAlive
<1>1. ProcInv => ChildrenAlive
  BY DEF ProcInv, TableInv, ChildrenAlive, Distinct, Range
<1> QED BY <1>1, InitHolds, NextKeeps, PTL DEF ProcSpec

(* Fork, Exec, Exit and Kill keep the frames of processes apart and marked, and
   lose none when there are as many pids as frames.                            *)
THEOREM FramesCorrect == ProcSpec => []FramesAccounted
<1>1. ASSUME ProcInv PROVE FramesAccounted
  <2>1. ASSUME NEW p \in Live, NEW q \in Live,
               NEW i \in DOMAIN pageTable[p], NEW j \in DOMAIN pageTable[q],
               pageTable[p][i] = pageTable[q][j]
        PROVE  p = q /\ i = j
    <3>1. pageTable[p][i] \in Range(pageTable[p]) /\ pageTable[q][j] \in Range(pageTable[q])
      BY DEF Range
    <3>2. p = q
      BY <1>1, <2>1, <3>1 DEF ProcInv, MemInv
    <3>3. Distinct(pageTable[p])
      BY <1>1 DEF ProcInv, MemInv
    <3> QED BY <2>1, <3>2, <3>3 DEF Distinct
  <2>2. /\ \A p \in Live : Range(pageTable[p]) \subseteq used
        /\ setup.numPids >= setup.numFrames =>
             used = UNION {Range(pageTable[p]) : p \in Live}
    BY <1>1 DEF ProcInv, MemInv
  <2> QED BY <2>1, <2>2 DEF FramesAccounted
<1> QED BY <1>1, InitHolds, NextKeeps, PTL DEF ProcSpec

(* While a user program runs, the machine translates with its page table. *)
THEOREM TranslationCorrect == ProcSpec => []TranslatesOwn
<1>1. ProcInv => TranslatesOwn
  BY DEF ProcInv, CpuInv, TranslatesOwn
<1> QED BY <1>1, InitHolds, NextKeeps, PTL DEF ProcSpec
=============================================================================
