----------------------------- MODULE PostProofs -----------------------------
(***************************************************************************)
(* Proofs about module Post, for any machines, mailboxes and programs, with *)
(* and without locks and losses: mail arrives once and in order, and the    *)
(* network device is given one packet at a time.                            *)
(***************************************************************************)
EXTENDS Post, WellFoundedInduction, TLAPS

(* A set of natural numbers has a least element: what is shown below by     *)
(* induction is shown by looking at the least number for which it fails.    *)
LEMMA LeastOf ==
  ASSUME NEW T \in SUBSET Nat, T # {}
  PROVE  \E x \in T : \A y \in T : x <= y
<1> DEFINE less == {ss \in Nat \X Nat : ss[1] < ss[2]}
<1>1. OpToRel(<, Nat) = less
  BY DEF OpToRel
<1>2. IsWellFoundedOn(less, Nat)
  BY <1>1, NatLessThanWellFounded
<1> HIDE DEF less
<1>3. PICK x \in T : \A y \in T : ~ (<<y, x>> \in less)
  BY <1>2, WFMin, Zenon
<1>4. ASSUME NEW y \in T PROVE x <= y
  <2>1. ~ (<<y, x>> \in less) /\ x \in Nat /\ y \in Nat
    BY <1>3
  <2> QED BY <2>1 DEF less
<1> QED BY <1>4

(* Facts about sequences. *)
LEMMA SeqIs ==
  ASSUME NEW S, NEW s \in Seq(S)
  PROVE  /\ Len(s) \in Nat /\ DOMAIN s = 1 .. Len(s)
         /\ s # <<>> => Len(s) # 0
         /\ \A i \in 1 .. Len(s) : s[i] \in S
OBVIOUS

LEMMA SeqJoin ==
  ASSUME NEW S, NEW s \in Seq(S), NEW t \in Seq(S)
  PROVE  s \o t \in Seq(S) /\ Len(s \o t) = Len(s) + Len(t)
OBVIOUS

LEMMA SeqJoinAt ==
  ASSUME NEW S, NEW s \in Seq(S), NEW t \in Seq(S), NEW i \in 1 .. Len(s) + Len(t)
  PROVE  (s \o t)[i] = IF i <= Len(s) THEN s[i] ELSE t[i - Len(s)]
OBVIOUS

LEMMA SeqJoinNone ==
  ASSUME NEW S, NEW s \in Seq(S)
  PROVE  s \o <<>> = s /\ <<>> \o s = s
OBVIOUS

LEMMA SeqSplit ==
  ASSUME NEW S, NEW s \in Seq(S), s # <<>>
  PROVE  /\ Head(s) = s[1] /\ Head(s) \in S /\ Tail(s) \in Seq(S)
         /\ Len(Tail(s)) = Len(s) - 1
         /\ \A i \in 1 .. Len(s) - 1 : Tail(s)[i] = s[i + 1]
OBVIOUS

LEMMA SeqMore ==
  ASSUME NEW S, NEW s \in Seq(S), NEW e \in S
  PROVE  /\ Append(s, e) \in Seq(S) /\ Len(Append(s, e)) = Len(s) + 1
         /\ Append(s, e)[Len(s) + 1] = e
         /\ \A i \in 1 .. Len(s) : Append(s, e)[i] = s[i]
OBVIOUS

LEMMA SeqMoreJoined ==
  ASSUME NEW S, NEW s \in Seq(S), NEW e \in S
  PROVE  Append(s, e) = s \o <<e>>
OBVIOUS
-----------------------------------------------------------------------------
(* ForBox                                                                   *)

Picked(s, b, n, f) ==
  f = [i \in 0 .. n |-> IF i = 0 THEN <<>>
                        ELSE IF s[i].box = b THEN Append(f[i - 1], s[i]) ELSE f[i - 1]]

(* The function that ForBox is computed with exists. *)
LEMMA PickedExists ==
  ASSUME NEW s, NEW b
  PROVE  \A n \in Nat : \E f : Picked(s, b, n, f)
<1> DEFINE Bad == {n \in Nat : ~ \E f : Picked(s, b, n, f)}
<1> SUFFICES ASSUME Bad # {} PROVE FALSE
  OBVIOUS
<1>1. PICK n \in Bad : \A k \in Bad : n <= k
  BY LeastOf, Zenon
<1>2. n # 0
  <2>1. Picked(s, b, 0, [i \in 0 .. 0 |-> <<>>])
    BY DEF Picked
  <2> QED BY <2>1
<1>3. n - 1 \in Nat /\ n - 1 \notin Bad
  BY <1>1, <1>2
<1>4. PICK f : Picked(s, b, n - 1, f)
  BY <1>3
<1> DEFINE next == IF s[n].box = b THEN Append(f[n - 1], s[n]) ELSE f[n - 1]
           g == [i \in 0 .. n |-> IF i = n THEN next ELSE f[i]]
<1>5. Picked(s, b, n, g)
  <2>1. ASSUME NEW i \in 0 .. n
        PROVE  g[i] = IF i = 0 THEN <<>>
                      ELSE IF s[i].box = b THEN Append(g[i - 1], s[i]) ELSE g[i - 1]
    <3>1. CASE i = n
      <4>1. g[n] = next /\ g[n - 1] = f[n - 1]
        BY <1>2, <1>3
      <4> QED BY <4>1, <3>1, <1>2
    <3>2. CASE i # n
      <4>1. i \in 0 .. n - 1 /\ g[i] = f[i] /\ (i # 0 => g[i - 1] = f[i - 1])
        BY <3>2, <1>3
      <4>2. f[i] = IF i = 0 THEN <<>>
                   ELSE IF s[i].box = b THEN Append(f[i - 1], s[i]) ELSE f[i - 1]
        BY <4>1, <1>4, Zenon DEF Picked
      <4> QED BY <4>1, <4>2
    <3> QED BY <3>1, <3>2
  <2> HIDE DEF next
  <2>2. g = [i \in 0 .. n |-> g[i]]
    OBVIOUS
  <2> HIDE DEF g
  <2> QED BY <2>1, <2>2, Zenon DEF Picked
<1> QED BY <1>5, <1>1

(* It depends only on the part of the sequence it has seen. *)
LEMMA PickedSame ==
  ASSUME NEW s, NEW t, NEW b, NEW n \in Nat, NEW m \in Nat, n <= m,
         \A i \in 1 .. n : s[i] = t[i],
         NEW f, NEW g, Picked(s, b, n, f), Picked(t, b, m, g)
  PROVE  f[n] = g[n]
<1> DEFINE Bad == {i \in 0 .. n : f[i] # g[i]}
<1> SUFFICES ASSUME Bad # {} PROVE FALSE
  OBVIOUS
<1>1. PICK i \in Bad : \A j \in Bad : i <= j
  <2>1. Bad \in SUBSET Nat
    OBVIOUS
  <2> QED BY <2>1, LeastOf, Zenon
<1>2. i \in 0 .. n /\ i \in 0 .. m
  OBVIOUS
<1>3. /\ f[i] = IF i = 0 THEN <<>>
                ELSE IF s[i].box = b THEN Append(f[i - 1], s[i]) ELSE f[i - 1]
      /\ g[i] = IF i = 0 THEN <<>>
                ELSE IF t[i].box = b THEN Append(g[i - 1], t[i]) ELSE g[i - 1]
  BY <1>2, Zenon DEF Picked
<1>4. i # 0
  BY <1>3, <1>1
<1>5. i - 1 \in 0 .. n /\ i - 1 \notin Bad
  BY <1>1, <1>4
<1>6. f[i - 1] = g[i - 1] /\ s[i] = t[i]
  BY <1>5, <1>4
<1> QED BY <1>3, <1>6, <1>1

LEMMA ForBoxValue ==
  ASSUME NEW s, NEW b, Len(s) \in Nat
  PROVE  \E f : Picked(s, b, Len(s), f) /\ ForBox(s, b) = f[Len(s)]
<1>1. \E f : Picked(s, b, Len(s), f)
  BY PickedExists
<1>2. Picked(s, b, Len(s), CHOOSE f : Picked(s, b, Len(s), f))
  BY <1>1
<1>3. ForBox(s, b) = (CHOOSE f : Picked(s, b, Len(s), f))[Len(s)]
  BY DEF ForBox, Picked
<1> QED BY <1>2, <1>3, Zenon

(* Facts about sequences that are used as they stand. *)
AppendAfter(s, t, e) == Append(s \o t, e) = s \o Append(t, e)
LEMMA AppendsAfter ==
  ASSUME NEW S, NEW s \in Seq(S), NEW t \in Seq(S), NEW e \in S
  PROVE  AppendAfter(s, t, e)
BY DEF AppendAfter

Grouped(s, t, u) == (s \o t) \o u = s \o (t \o u)
LEMMA GroupsAnyhow ==
  ASSUME NEW S, NEW s \in Seq(S), NEW t \in Seq(S), NEW u \in Seq(S)
  PROVE  Grouped(s, t, u)
BY DEF Grouped

(* The mail for a box among two batches is that of the first and that of the *)
(* second, and it is mail.                                                   *)
ConcatsFor(s, t, b) == ForBox(s \o t, b) = ForBox(s, b) \o ForBox(t, b)
LEMMA ForBoxConcat ==
  ASSUME NEW S, NEW b, NEW s \in Seq(S), NEW t \in Seq(S)
  PROVE  ForBox(s, b) \in Seq(S) /\ ConcatsFor(s, t, b)
<1>0. Len(s) \in Nat /\ Len(t) \in Nat
  BY SeqIs
<1>1. /\ s \o t \in Seq(S) /\ Len(s \o t) = Len(s) + Len(t)
      /\ \A i \in 1 .. Len(s) + Len(t) :
           (s \o t)[i] = IF i <= Len(s) THEN s[i] ELSE t[i - Len(s)]
  BY SeqJoin
<1>2. PICK f : Picked(s, b, Len(s), f) /\ ForBox(s, b) = f[Len(s)]
  BY <1>0, ForBoxValue
<1>3. PICK g : Picked(t, b, Len(t), g) /\ ForBox(t, b) = g[Len(t)]
  BY <1>0, ForBoxValue
<1> DEFINE st == s \o t
           n == Len(s)
<1>a. /\ Len(st) = n + Len(t) /\ Len(st) \in Nat /\ n \in Nat
      /\ \A i \in 1 .. n + Len(t) : st[i] = IF i <= n THEN s[i] ELSE t[i - n]
  BY <1>0, <1>1
<1> HIDE DEF st
<1>4. PICK h : Picked(st, b, Len(st), h) /\ ForBox(st, b) = h[Len(st)]
  BY <1>a, ForBoxValue
<1>5. ASSUME NEW u \in Seq(S), NEW e, Picked(u, b, Len(u), e), NEW k \in 0 .. Len(u)
      PROVE  e[k] \in Seq(S)
  <2> DEFINE Bad == {i \in 0 .. Len(u) : e[i] \notin Seq(S)}
  <2> SUFFICES ASSUME Bad # {} PROVE FALSE
    BY <1>5
  <2>0. Len(u) \in Nat
    BY SeqIs
  <2>1. PICK i \in Bad : \A j \in Bad : i <= j
    <3>1. Bad \in SUBSET Nat
      BY <2>0
    <3> QED BY <3>1, LeastOf, Zenon
  <2>2. e[i] = IF i = 0 THEN <<>>
               ELSE IF u[i].box = b THEN Append(e[i - 1], u[i]) ELSE e[i - 1]
    BY <1>5, Zenon DEF Picked
  <2>3. i # 0
    <3>1. <<>> \in Seq(S)
      OBVIOUS
    <3>2. e[i] \notin Seq(S)
      OBVIOUS
    <3> QED BY ONLY <2>2, <3>1, <3>2
  <2>4. i - 1 \in 0 .. Len(u) /\ i - 1 \notin Bad /\ i \in 1 .. Len(u)
    BY <2>0, <2>1, <2>3
  <2>5. e[i - 1] \in Seq(S) /\ u[i] \in S
    BY <2>4, SeqIs
  <2>6. Append(e[i - 1], u[i]) \in Seq(S)
    BY <2>5, SeqMore
  <2>7. e[i] \in Seq(S)
    BY <2>2, <2>3, <2>5, <2>6
  <2> QED BY <2>7
<1>6. f[n] \in Seq(S) /\ \A k \in 0 .. Len(t) : g[k] \in Seq(S)
  BY <1>0, <1>2, <1>3, <1>5
<1>b. f[n] = h[n]
  <2>1. n <= Len(st) /\ \A i \in 1 .. n : s[i] = st[i]
    BY <1>a, <1>0
  <2>2. Picked(s, b, n, f) /\ Picked(st, b, Len(st), h) /\ n \in Nat /\ Len(st) \in Nat
    BY <1>a, <1>2, <1>4
  <2> HIDE DEF n
  <2> QED BY <2>1, <2>2, PickedSame
<1> HIDE DEF n
<1>7. ASSUME NEW k \in 0 .. Len(t) PROVE h[n + k] = f[n] \o g[k]
  <2> DEFINE Bad == {i \in 0 .. Len(t) : h[n + i] # f[n] \o g[i]}
  <2> SUFFICES ASSUME Bad # {} PROVE FALSE
    BY Zenon
  <2>1. PICK i \in Bad : \A j \in Bad : i <= j
    <3>1. Bad \subseteq 0 .. Len(t)
      BY Zenon
    <3> HIDE DEF Bad
    <3>2. Bad \in SUBSET Nat
      BY <3>1, <1>0
    <3> QED BY <3>2, LeastOf
  <2>2. g[i] = IF i = 0 THEN <<>>
               ELSE IF t[i].box = b THEN Append(g[i - 1], t[i]) ELSE g[i - 1]
    BY <1>3, Zenon DEF Picked
  <2>3. i # 0
    <3>1. SUFFICES ASSUME i = 0 PROVE FALSE
      OBVIOUS
    <3>3. g[0] = <<>> /\ f[n] \o <<>> = f[n]
      BY <2>2, <3>1, <1>6, SeqJoinNone
    <3>4. h[n + i] # f[n] \o g[i]
      BY Zenon
    <3>5. n + i = n
      BY <3>1, <1>a
    <3> QED BY <3>1, <3>3, <3>4, <3>5, <1>b
  <2>4. i - 1 \in 0 .. Len(t) /\ i - 1 \notin Bad /\ i \in 1 .. Len(t)
    <3>1. i \in 0 .. Len(t)
      OBVIOUS
    <3> HIDE DEF Bad
    <3> QED BY <3>1, <1>0, <2>1, <2>3
  <2>5. h[n + (i - 1)] = f[n] \o g[i - 1]
    BY <2>4, Zenon
  <2>6. n + i \in 1 .. Len(st) /\ st[n + i] = t[i] /\ (n + i) - 1 = n + (i - 1)
    BY <1>0, <1>a, <2>4
  <2>7. h[n + i] = IF t[i].box = b THEN Append(f[n] \o g[i - 1], t[i])
                   ELSE f[n] \o g[i - 1]
    <3>1. h[n + i] = IF st[n + i].box = b THEN Append(h[n + (i - 1)], st[n + i])
                     ELSE h[n + (i - 1)]
      <4>1. n + i \in 0 .. Len(st) /\ n + i # 0
        BY <2>6
      <4>2. h[n + i] = IF n + i = 0 THEN <<>>
                       ELSE IF st[n + i].box = b THEN Append(h[(n + i) - 1], st[n + i])
                       ELSE h[(n + i) - 1]
        BY <4>1, <1>4, Zenon DEF Picked
      <4> QED BY <4>1, <4>2, <2>6
    <3> QED BY <3>1, <2>5, <2>6
  <2>8. Append(f[n] \o g[i - 1], t[i]) = f[n] \o Append(g[i - 1], t[i])
    <3>1. g[i - 1] \in Seq(S) /\ t[i] \in S /\ f[n] \in Seq(S)
      BY <1>6, <2>4, SeqIs
    <3>2. AppendAfter(f[n], g[i - 1], t[i])
      BY <3>1, AppendsAfter
    <3> QED BY <3>2, Zenon DEF AppendAfter
  <2> QED BY <2>1, <2>2, <2>3, <2>7, <2>8, Zenon
<1>8. h[Len(st)] = f[n] \o g[Len(t)]
  <2>1. Len(t) \in 0 .. Len(t)
    BY <1>0
  <2> QED BY <2>1, <1>7, <1>a, Zenon
<1>9. ForBox(s, b) \in Seq(S)
  BY <1>2, <1>6 DEF n
<1>10. ForBox(s \o t, b) = ForBox(s, b) \o ForBox(t, b)
  BY ONLY <1>2, <1>3, <1>4, <1>8 DEF st, n
<1> QED BY ONLY <1>9, <1>10 DEF ConcatsFor

LEMMA ForBoxParts ==
  ASSUME NEW S, NEW b, NEW s \in Seq(S), NEW t \in Seq(S)
  PROVE  /\ ForBox(s, b) \in Seq(S) /\ ForBox(t, b) \in Seq(S)
         /\ ConcatsFor(s, t, b)
<1>1. ForBox(s, b) \in Seq(S) /\ ConcatsFor(s, t, b)
  BY ForBoxConcat
<1>2. ForBox(t, b) \in Seq(S)
  BY ForBoxConcat
<1> QED BY <1>1, <1>2

(* The mail of one packet, and of none. *)
LEMMA ForBoxFew ==
  ASSUME NEW b, NEW e
  PROVE  /\ ForBox(<<>>, b) = <<>>
         /\ ForBox(<<e>>, b) = IF e.box = b THEN <<e>> ELSE <<>>
<1>1. PICK f : Picked(<<>>, b, 0, f) /\ ForBox(<<>>, b) = f[0]
  BY ForBoxValue
<1> DEFINE one == <<e>>
<1>0. Len(one) = 1 /\ one[1] = e
  OBVIOUS
<1> HIDE DEF one
<1>2. PICK g : Picked(one, b, 1, g) /\ ForBox(one, b) = g[1]
  BY <1>0, ForBoxValue
<1>3. f[0] = <<>>
  BY <1>1 DEF Picked
<1>4. g[0] = <<>> /\ g[1] = IF e.box = b THEN Append(g[0], e) ELSE g[0]
  <2>1. 0 \in 0 .. 1 /\ 1 \in 0 .. 1 /\ 1 - 1 = 0
    OBVIOUS
  <2>2. \A i \in 0 .. 1 :
          g[i] = IF i = 0 THEN <<>>
                 ELSE IF one[i].box = b THEN Append(g[i - 1], one[i]) ELSE g[i - 1]
    BY <1>2 DEF Picked
  <2> QED BY ONLY <1>0, <2>1, <2>2
<1>5. Append(<<>>, e) = <<e>>
  OBVIOUS
<1> QED BY <1>1, <1>2, <1>3, <1>4, <1>5 DEF one
-----------------------------------------------------------------------------
(* What a step does to the mail of one box: p was posted, g has been        *)
(* received, l is listed and w is coming.                                   *)

Exact(p, g, l, w, b) == ForBox(p, b) = g \o l \o ForBox(w, b)

(* A packet reaches the socket. *)
LEMMA ExactPosted ==
  ASSUME NEW S, NEW b, NEW p \in Seq(S), NEW g \in Seq(S), NEW l \in Seq(S),
         NEW w \in Seq(S), NEW e \in S, Exact(p, g, l, w, b)
  PROVE  Exact(Append(p, e), g, l, w \o <<e>>, b)
<1>1. PICK q : q = g \o l
  BY Zenon
<1>2. q \in Seq(S)
  BY <1>1, SeqJoin
<1>3. PICK one : one = <<e>>
  BY Zenon
<1>4. one \in Seq(S) /\ Append(p, e) = p \o one
  BY <1>3, SeqMoreJoined
<1>5. /\ ConcatsFor(p, one, b) /\ ConcatsFor(w, one, b)
      /\ ForBox(w, b) \in Seq(S) /\ ForBox(one, b) \in Seq(S)
  <2>1. ConcatsFor(p, one, b)
    BY <1>4, ForBoxParts, Zenon
  <2>2. /\ ConcatsFor(w, one, b)
        /\ ForBox(w, b) \in Seq(S) /\ ForBox(one, b) \in Seq(S)
    BY <1>4, ForBoxParts, Zenon
  <2> QED BY <2>1, <2>2
<1>6. ForBox(p, b) = q \o ForBox(w, b)
  BY <1>1 DEF Exact
<1>7. Grouped(q, ForBox(w, b), ForBox(one, b))
  BY <1>2, <1>5, GroupsAnyhow
<1>8. ForBox(p \o one, b) = q \o ForBox(w \o one, b)
  BY ONLY <1>5, <1>6, <1>7 DEF Grouped, ConcatsFor
<1> QED BY ONLY <1>1, <1>3, <1>4, <1>8, Zenon DEF Exact

(* The packet that comes first is put on the list of its box. *)
LEMMA ExactListed ==
  ASSUME NEW S, NEW b, NEW p \in Seq(S), NEW g \in Seq(S), NEW l \in Seq(S),
         NEW w \in Seq(S), NEW e \in S, Exact(p, g, l, <<e>> \o w, b),
         NEW k, k = IF e.box = b THEN Append(l, e) ELSE l
  PROVE  Exact(p, g, k, w, b)
<1>1. PICK one : one = <<e>>
  OBVIOUS
<1>2. one \in Seq(S) /\ Append(l, e) = l \o one
  BY <1>1, SeqMoreJoined
<1>3. ConcatsFor(one, w, b) /\ ForBox(w, b) \in Seq(S)
  BY <1>2, ForBoxParts, Zenon
<1>4. ForBox(one, b) = IF e.box = b THEN one ELSE <<>>
  BY <1>1, ForBoxFew
<1>5. ForBox(p, b) = (g \o l) \o ForBox(one \o w, b)
  BY <1>1 DEF Exact
<1>6. CASE e.box = b
  <2>1. Grouped(g, l, one)
    BY <1>2, GroupsAnyhow
  <2>2. g \o l \in Seq(S)
    BY SeqJoin
  <2>3. Grouped(g \o l, one, ForBox(w, b))
    BY <2>2, <1>2, <1>3, GroupsAnyhow, Zenon
  <2>4. k = l \o one
    BY <1>2, <1>6
  <2> QED BY ONLY <1>3, <1>4, <1>5, <1>6, <2>1, <2>3, <2>4, Zenon DEF Exact, Grouped, ConcatsFor
<1>7. CASE e.box # b
  <2>1. <<>> \o ForBox(w, b) = ForBox(w, b)
    BY <1>3, SeqJoinNone
  <2>2. k = l
    BY <1>7
  <2> QED BY ONLY <1>3, <1>4, <1>5, <1>7, <2>1, <2>2 DEF Exact, ConcatsFor
<1> QED BY <1>6, <1>7

(* The first of the list is received. *)
LEMMA ExactReceived ==
  ASSUME NEW S, NEW b, NEW p, NEW g \in Seq(S), NEW l \in Seq(S), NEW w,
         l # <<>>, Exact(p, g, l, w, b)
  PROVE  Exact(p, Append(g, Head(l)), Tail(l), w, b)
<1>1. Append(g, Head(l)) \o Tail(l) = g \o l
  <2>1. Head(l) \in S /\ Tail(l) \in Seq(S) /\ <<Head(l)>> \in Seq(S)
    BY SeqSplit
  <2>2. Append(g, Head(l)) = g \o <<Head(l)>>
    BY <2>1, SeqMoreJoined
  <2>3. l = <<Head(l)>> \o Tail(l)
    OBVIOUS
  <2>4. Grouped(g, <<Head(l)>>, Tail(l))
    BY <2>1, GroupsAnyhow, Zenon
  <2> QED BY ONLY <2>2, <2>3, <2>4, Zenon DEF Grouped
<1> QED BY ONLY <1>1, Exact(p, g, l, w, b), Zenon DEF Exact

(* What is coming to a machine, when it moves on. *)
TakenIn(h, w) ==
  h \o <<Head(w)>> \o Tail(w) = h \o <<>> \o w
LEMMA ComingTakenIn ==
  ASSUME NEW S, NEW h \in Seq(S), NEW w \in Seq(S), w # <<>>
  PROVE  TakenIn(h, w)
<1>1. Head(w) \in S /\ Tail(w) \in Seq(S) /\ <<Head(w)>> \in Seq(S)
  BY SeqSplit
<1>2. w = <<Head(w)>> \o Tail(w) /\ h \o <<>> = h
  BY SeqJoinNone
<1>3. Grouped(h, <<Head(w)>>, Tail(w))
  BY <1>1, GroupsAnyhow, Zenon
<1> QED BY ONLY <1>2, <1>3, Zenon DEF Grouped, TakenIn

Fetched(e, w) ==
  <<e>> \o <<>> \o w = <<>> \o <<e>> \o w
LEMMA ComingFetched ==
  ASSUME NEW S, NEW e \in S, NEW w \in Seq(S)
  PROVE  Fetched(e, w)
<1>1. <<e>> \o <<>> = <<e>> /\ <<>> \o <<e>> = <<e>>
  BY SeqJoinNone
<1> QED BY ONLY <1>1 DEF Fetched

Listed(e, u, w) ==
  <<e>> \o u \o w = <<e>> \o (<<>> \o u \o w)
LEMMA ComingListed ==
  ASSUME NEW S, NEW e \in S, NEW u \in Seq(S), NEW w \in Seq(S)
  PROVE  Listed(e, u, w)
<1>1. <<>> \o u = u
  BY SeqJoinNone
<1>2. Grouped(<<e>>, u, w)
  <2>1. <<e>> \in Seq(S)
    OBVIOUS
  <2> QED BY <2>1, GroupsAnyhow, Zenon
<1> QED BY ONLY <1>1, <1>2 DEF Grouped, Listed

PostedLast(h, u, w, e) ==
  h \o u \o Append(w, e) = (h \o u \o w) \o <<e>>
LEMMA ComingPosted ==
  ASSUME NEW S, NEW e \in S, NEW h \in Seq(S), NEW u \in Seq(S), NEW w \in Seq(S)
  PROVE  PostedLast(h, u, w, e)
<1>1. PICK hu : hu = h \o u
  BY Zenon
<1>2. hu \in Seq(S) /\ <<e>> \in Seq(S)
  BY <1>1, SeqJoin
<1>3. Append(w, e) = w \o <<e>>
  BY SeqMoreJoined
<1>4. Grouped(hu, w, <<e>>)
  BY <1>2, GroupsAnyhow, Zenon
<1> QED BY ONLY <1>1, <1>3, <1>4 DEF Grouped, PostedLast
-----------------------------------------------------------------------------
(* The invariant                                                            *)

Sending == {"send", "sent", "unlock send"}
Receiving == {"look", "asleep", "woken", "unlock"}
MailOrNot == Packets \cup {NoMail}
BoxType == [list : Seq(Packets), lock : Clients \cup {NoMail, "worker"},
            waiters : Seq(Clients)]
ClientType == [at : Sending \cup Receiving \cup {"call", "done"}, op : Nat,
               mail : MailOrNot]
WorkerType == [at : {"wait", "fetch", "put", "append", "release"}, mail : MailOrNot]

PostTypeOK ==
  /\ plan \in Plans
  /\ wire \in [Machines -> Seq(Packets)]
  /\ posted \in [Machines -> Seq(Packets)]
  /\ got \in [Machines -> [Boxes -> Seq(Packets)]]
  /\ inbox \in [Machines -> MailOrNot]
  /\ sending \in [Machines -> Nat]
  /\ available \in [Machines -> Nat]
  /\ sent \in [Machines -> Nat]
  /\ sendLock \in [Machines -> Clients \cup {NoMail}]
  /\ box \in [Machines -> [Boxes -> BoxType]]
  /\ worker \in [Machines -> WorkerType]
  /\ client \in [Clients -> ClientType]

(* A client is where its operation takes it, has the mail it may answer, and *)
(* holds its machine's sendLock while it sends.                              *)
ClientOK(c) ==
  /\ client[c].at # "done" => client[c].op \in 1 .. Len(Program(c))
  /\ client[c].at \in Sending => Operation(c).op = "send"
  /\ client[c].at \in Receiving => Operation(c).op = "receive"
  /\ (client[c].at = "unlock"
        \/ \E j \in 1 .. client[c].op - 1 : Program(c)[j].op = "receive")
       => client[c].mail # NoMail
  /\ plan.locks => (client[c].at \in Sending <=> sendLock[Home(c)] = c)

ClientsOK == \A c \in Clients : ClientOK(c)

(* The waiters of a mailbox sleep, for mail in it, and wait once each. *)
WaitersAre(m, b, w) ==
  /\ \A i \in 1 .. Len(w) : /\ client[w[i]].at = "asleep"
                            /\ Home(w[i]) = m /\ Operation(w[i]).box = b
  /\ \A i, j \in 1 .. Len(w) : w[i] = w[j] => i = j

WaitersOK ==
  \A m \in Machines, b \in Boxes : \A w \in {box[m][b].waiters} : WaitersAre(m, b, w)

(* The device's buffer is full exactly when the postal worker has been told *)
(* of a packet and has not fetched it.                                      *)
BufferAt(m) ==
  /\ available[m] \in {0, 1}
  /\ inbox[m] # NoMail <=> (available[m] = 1 \/ worker[m].at = "fetch")
  /\ worker[m].at = "fetch" => available[m] = 0
  /\ worker[m].at \in {"put", "append", "release"} => worker[m].mail # NoMail

BufferOK == \A m \in Machines : BufferAt(m)

(* A packet is with the device or reported exactly while its sender waits. *)
PacedOK ==
  plan.locks =>
    \A m \in Machines :
      sending[m] + sent[m] =
        IF \E c \in Clients : Home(c) = m /\ client[c].at = "sent" THEN 1 ELSE 0

PostInv ==
  PostTypeOK /\ ClientsOK /\ WaitersOK /\ BufferOK /\ PacedOK /\ MailOnce

(* What the plan is made of. *)
LEMMA PlanFacts ==
  ASSUME plan \in Plans, NEW c \in Clients
  PROVE  /\ c # NoMail /\ Home(c) \in Machines
         /\ Program(c) \in Seq(Operations) /\ Len(Program(c)) \in Nat \ {0}
         /\ \A i \in 1 .. Len(Program(c)) :
              /\ Program(c)[i] \in Operations
              /\ Program(c)[i].op = "send" /\ Program(c)[i].to = Reply =>
                   \E j \in 1 .. i - 1 : Program(c)[j].op = "receive"
<1>1. /\ c # NoMail /\ plan.programs[c].on \in Machines
      /\ plan.programs[c].does \in Seq(Operations) /\ plan.programs[c].does # <<>>
      /\ \A i \in DOMAIN plan.programs[c].does :
            plan.programs[c].does[i].op = "send" /\ plan.programs[c].does[i].to = Reply =>
              \E j \in 1 .. i - 1 : plan.programs[c].does[j].op = "receive"
  BY PlansAssumption DEF Clients
<1>2. Program(c) \in Seq(Operations) /\ Program(c) # <<>>
  BY <1>1 DEF Program
<1>3. /\ Len(Program(c)) \in Nat \ {0}
      /\ DOMAIN Program(c) = 1 .. Len(Program(c))
      /\ \A i \in 1 .. Len(Program(c)) : Program(c)[i] \in Operations
  BY <1>2, SeqIs
<1> QED BY <1>1, <1>2, <1>3 DEF Home, Program

(* The operation of a client that is not done. *)
LEMMA OperationFacts ==
  ASSUME PostInv, NEW c \in Clients, client[c].at # "done"
  PROVE  Operation(c) \in Operations /\ client[c].op \in 1 .. Len(Program(c))
<1>1. client[c].op \in 1 .. Len(Program(c)) /\ plan \in Plans
  BY DEF PostInv, ClientsOK, ClientOK, PostTypeOK
<1> QED BY <1>1, PlanFacts DEF Operation

(* Mail to another machine is a packet. *)
LEMMA MailFacts ==
  ASSUME PostInv, NEW c \in Clients, client[c].at = "send"
  PROVE  Mail(c, Operation(c)) \in Packets
<1>1. Operation(c) \in Operations /\ client[c].op \in 1 .. Len(Program(c))
  BY OperationFacts
<1>2. Operation(c).op = "send"
  BY DEF PostInv, ClientsOK, ClientOK, Sending
<1>3. plan \in Plans /\ client[c] \in ClientType
  BY DEF PostInv, PostTypeOK
<1>4. Operation(c).to = Reply => client[c].mail \in Packets
  <2>1. SUFFICES ASSUME Operation(c).to = Reply PROVE client[c].mail \in Packets
    OBVIOUS
  <2>2. \E j \in 1 .. client[c].op - 1 : Program(c)[j].op = "receive"
    BY <1>1, <1>2, <1>3, <2>1, PlanFacts DEF Operation
  <2>3. client[c].mail # NoMail
    BY <2>2 DEF PostInv, ClientsOK, ClientOK
  <2> QED BY <2>3, <1>3 DEF ClientType, MailOrNot
<1>5. <<c, client[c].op>> \in AllClients \X Nat
  <2>1. c \in AllClients
    BY <1>3 DEF Clients, AllClients
  <2>2. client[c].op \in Nat
    BY <1>3 DEF ClientType
  <2> QED BY <2>1, <2>2
<1>6. Home(c) \in Machines
  BY <1>3, PlanFacts
<1> QED BY <1>1, <1>4, <1>5, <1>6 DEF Mail, Packets, Operations

(* The mail of a machine is mail. *)
LEMMA ComingType ==
  ASSUME PostInv, NEW m \in Machines, NEW b \in Boxes
  PROVE  /\ wire[m] \in Seq(Packets) /\ posted[m] \in Seq(Packets)
         /\ got[m][b] \in Seq(Packets) /\ box[m][b].list \in Seq(Packets)
         /\ Held(m) \in Seq(Packets) /\ Buffered(m) \in Seq(Packets)
         /\ Coming(m) \in Seq(Packets)
<1>1. /\ wire[m] \in Seq(Packets) /\ posted[m] \in Seq(Packets)
      /\ got[m][b] \in Seq(Packets) /\ box[m][b].list \in Seq(Packets)
      /\ inbox[m] \in MailOrNot /\ worker[m] \in WorkerType
  BY DEF PostInv, PostTypeOK, BoxType
<1>2. inbox[m] # NoMail => inbox[m] \in Packets
  BY <1>1 DEF MailOrNot
<1>3. worker[m].at \in {"put", "append"} => worker[m].mail \in Packets
  BY <1>1 DEF MailOrNot, WorkerType, PostInv, BufferOK, BufferAt
<1>4. Held(m) \in Seq(Packets) /\ Buffered(m) \in Seq(Packets)
  BY <1>2, <1>3 DEF Held, Buffered
<1>5. Coming(m) \in Seq(Packets)
  BY <1>1, <1>4, SeqJoin DEF Coming
<1> QED BY <1>1, <1>4, <1>5

(* A part of the invariant stays when the variables it speaks of do. *)
LEMMA Frames ==
  ASSUME PostInv, UNCHANGED plan
  PROVE  /\ UNCHANGED <<client, sendLock>> => ClientsOK'
         /\ UNCHANGED <<client, box>> => WaitersOK'
         /\ UNCHANGED <<available, worker, inbox>> => BufferOK'
         /\ UNCHANGED <<sending, sent, client>> => PacedOK'
         /\ UNCHANGED <<posted, got, box, worker, inbox, wire>> => MailOnce'
<1>1. ASSUME UNCHANGED <<client, sendLock>> PROVE ClientsOK'
  <2>1. Clients' = Clients
    BY DEF Clients
  <2>2. ASSUME NEW c \in Clients PROVE ClientOK(c)'
    <3>1. ClientOK(c)
      BY DEF PostInv, ClientsOK
    <3> QED BY <1>1, <3>1 DEF ClientOK, Operation, Program, Home
  <2> QED BY <2>1, <2>2 DEF ClientsOK
<1>2. ASSUME UNCHANGED <<client, box>> PROVE WaitersOK'
  <2> SUFFICES ASSUME NEW m \in Machines, NEW b \in Boxes, NEW w, w = box[m][b].waiters
               PROVE  WaitersAre(m, b, w)'
    BY <1>2 DEF WaitersOK
  <2>1. \A d : Home(d)' = Home(d) /\ Operation(d)' = Operation(d)
    BY <1>2 DEF Home, Operation, Program
  <2>2. WaitersAre(m, b, w)
    BY DEF PostInv, WaitersOK
  <2> QED BY <1>2, <2>1, <2>2 DEF WaitersAre
<1>3. ASSUME UNCHANGED <<available, worker, inbox>> PROVE BufferOK'
  BY <1>3 DEF PostInv, BufferOK, BufferAt
<1>4. ASSUME UNCHANGED <<sending, sent, client>> PROVE PacedOK'
  BY <1>4 DEF PostInv, PacedOK, Clients, Program, Home
<1>5. ASSUME UNCHANGED <<posted, got, box, worker, inbox, wire>> PROVE MailOnce'
  BY <1>5, Zenon DEF PostInv, MailOnce, Coming, Held, Buffered
<1> QED BY <1>1, <1>2, <1>3, <1>4, <1>5

(* A client goes on inside its operation. *)
LEMMA GoFacts ==
  ASSUME PostInv, NEW c \in Clients, NEW to, to \in Sending \cup (Receiving \ {"unlock"}),
         Go(c, to), UNCHANGED plan, client[c].at # "done"
  PROVE  /\ client' \in [Clients -> ClientType]
         /\ \A d \in Clients : client'[d] = IF d = c THEN [client[c] EXCEPT !.at = to]
                                           ELSE client[d]
         /\ Clients' = Clients
         /\ \A d \in Clients : /\ Home(d)' = Home(d) /\ Program(d)' = Program(d)
                               /\ Operation(d)' = Operation(d)
<1>1. client \in [Clients -> ClientType]
  BY DEF PostInv, PostTypeOK
<1>2. Clients' = Clients
  BY DEF Clients
<1>3. client'[c] = [client[c] EXCEPT !.at = to] /\ client'[c] \in ClientType
  BY <1>1 DEF Go, ClientType
<1>4. \A d \in Clients : d # c => client'[d] = client[d]
  BY <1>1 DEF Go
<1>5. client' \in [Clients -> ClientType]
  BY <1>1, <1>3, <1>4 DEF Go
<1>6. \A d \in Clients : client'[d].op = client[d].op
  BY <1>1, <1>3, <1>4 DEF ClientType
<1> QED BY <1>2, <1>3, <1>4, <1>5, <1>6 DEF Home, Program, Operation

LEMMA GoKeeps ==
  ASSUME PostInv, NEW c \in Clients, NEW to, to \in Sending \cup (Receiving \ {"unlock"}),
         Go(c, to), UNCHANGED plan, client[c].at # "done",
         to \in Sending => Operation(c).op = "send",
         to \in Receiving => Operation(c).op = "receive",
         plan.locks => (to \in Sending <=> sendLock'[Home(c)] = c),
         \A d \in Clients : d # c => (sendLock'[Home(d)] = d <=> sendLock[Home(d)] = d)
  PROVE  ClientsOK'
<1>1. /\ Clients' = Clients
      /\ \A d \in Clients : client'[d] = IF d = c THEN [client[c] EXCEPT !.at = to]
                                        ELSE client[d]
      /\ \A d \in Clients : /\ Home(d)' = Home(d) /\ Program(d)' = Program(d)
                            /\ Operation(d)' = Operation(d)
  BY GoFacts
<1>2. client[c] \in ClientType /\ ClientsOK
  BY DEF PostInv, PostTypeOK
<1>3. client'[c].at = to /\ client'[c].op = client[c].op /\ client'[c].mail = client[c].mail
  BY <1>1, <1>2 DEF ClientType
<1>4. ClientOK(c)'
  <2>1. ClientOK(c) /\ to # "unlock"
    BY <1>2 DEF ClientsOK, Sending, Receiving
  <2> QED BY <1>1, <1>3, <2>1 DEF ClientOK
<1>5. ASSUME NEW d \in Clients, d # c PROVE ClientOK(d)'
  BY <1>1, <1>2, <1>5 DEF ClientsOK, ClientOK
<1> QED BY <1>1, <1>4, <1>5 DEF ClientsOK

(* While a client that does not sleep goes on, the waiters are as they were. *)
LEMMA GoWaiters ==
  ASSUME PostInv, NEW c \in Clients, client[c].at # "asleep", UNCHANGED plan,
         \A d \in Clients : d # c => client'[d] = client[d],
         \A m \in Machines, b \in Boxes : box'[m][b].waiters = box[m][b].waiters
  PROVE  WaitersOK'
<1> SUFFICES ASSUME NEW m \in Machines, NEW b \in Boxes, NEW w, w = box[m][b].waiters
             PROVE  WaitersAre(m, b, w)'
  BY DEF WaitersOK
<1>1. WaitersAre(m, b, w)
  BY DEF PostInv, WaitersOK
<1>2. w \in Seq(Clients)
  BY DEF PostInv, PostTypeOK, BoxType
<1>3. ASSUME NEW i \in 1 .. Len(w)
      PROVE  /\ client'[w[i]].at = "asleep" /\ Home(w[i])' = m
             /\ Operation(w[i])'.box = b
  <2>1. w[i] \in Clients /\ w[i] # c
    BY <1>1, <1>2, SeqIs DEF WaitersAre
  <2>2. client'[w[i]] = client[w[i]]
    BY <2>1
  <2> QED BY <1>1, <2>2, ZenonT(30) DEF WaitersAre, Home, Operation, Program
<1> QED BY <1>1, <1>3 DEF WaitersAre

(* No client moves, and the waiters are as they were. *)
LEMMA WaitersSame ==
  ASSUME PostInv, UNCHANGED <<plan, client>>,
         \A m \in Machines, b \in Boxes : box'[m][b].waiters = box[m][b].waiters
  PROVE  WaitersOK'
<1> SUFFICES ASSUME NEW m \in Machines, NEW b \in Boxes, NEW w, w = box[m][b].waiters
             PROVE  WaitersAre(m, b, w)'
  BY DEF WaitersOK
<1>1. \A d : Home(d)' = Home(d) /\ Operation(d)' = Operation(d)
  BY DEF Home, Operation, Program
<1>2. WaitersAre(m, b, w)
  BY DEF PostInv, WaitersOK
<1> QED BY <1>1, <1>2 DEF WaitersAre

(* A client returns from its operation. *)
LEMMA ReturnFacts ==
  ASSUME PostInv, NEW c \in Clients, client[c].at # "done", UNCHANGED plan,
         NEW mail \in MailOrNot, Return(c, mail)
  PROVE  /\ client' \in [Clients -> ClientType] /\ Clients' = Clients
         /\ client'[c].at \in {"call", "done"}
         /\ client'[c].at = "call" => client[c].op # Len(Program(c))
         /\ client'[c].op = client[c].op + 1 /\ client'[c].mail = mail
         /\ \A d \in Clients : d # c => client'[d] = client[d]
         /\ \A d \in Clients : /\ Home(d)' = Home(d) /\ Program(d)' = Program(d)
                               /\ d # c => Operation(d)' = Operation(d)
<1>1. client \in [Clients -> ClientType]
  BY DEF PostInv, PostTypeOK
<1>2. Clients' = Clients
  BY DEF Clients
<1>3. client'[c] = [at |-> IF client[c].op = Len(Program(c)) THEN "done" ELSE "call",
                    op |-> client[c].op + 1, mail |-> mail]
  BY <1>1 DEF Return
<1>4. client'[c] \in ClientType
  BY <1>1, <1>3 DEF ClientType
<1>5. \A d \in Clients : d # c => client'[d] = client[d]
  BY <1>1 DEF Return
<1>6. client' \in [Clients -> ClientType]
  BY <1>1, <1>4, <1>5 DEF Return
<1> QED BY <1>2, <1>3, <1>5, <1>6 DEF Home, Program, Operation

LEMMA ReturnKeeps ==
  ASSUME PostInv, NEW c \in Clients, client[c].at # "done", UNCHANGED plan,
         NEW mail \in MailOrNot, Return(c, mail),
         mail # NoMail \/ (mail = client[c].mail /\ Operation(c).op = "send"),
         plan.locks => sendLock'[Home(c)] # c,
         \A d \in Clients : d # c => (sendLock'[Home(d)] = d <=> sendLock[Home(d)] = d)
  PROVE  ClientsOK'
<1>1. /\ Clients' = Clients /\ client'[c].at \in {"call", "done"}
      /\ client'[c].at = "call" => client[c].op # Len(Program(c))
      /\ client'[c].op = client[c].op + 1 /\ client'[c].mail = mail
      /\ \A d \in Clients : d # c => client'[d] = client[d]
      /\ \A d \in Clients : /\ Home(d)' = Home(d) /\ Program(d)' = Program(d)
                            /\ d # c => Operation(d)' = Operation(d)
  BY ReturnFacts
<1>2. client[c] \in ClientType /\ ClientsOK /\ plan \in Plans
  BY DEF PostInv, PostTypeOK
<1>3. ASSUME NEW d \in Clients, d # c PROVE ClientOK(d)'
  BY <1>1, <1>2, <1>3 DEF ClientsOK, ClientOK
<1>4. ClientOK(c)'
  <2>1. ClientOK(c) /\ client[c].op \in Nat
    BY <1>2 DEF ClientsOK, ClientType
  <2>2. Len(Program(c)) \in Nat
    BY <1>2, PlanFacts
  <2>3. client'[c].at # "done" => client'[c].op \in 1 .. Len(Program(c))
    BY <1>1, <2>1, <2>2 DEF ClientOK
  <2>4. client'[c].at \notin Sending /\ client'[c].at \notin Receiving
        /\ client'[c].at # "unlock"
    BY <1>1 DEF Sending, Receiving
  <2>5. ASSUME NEW j \in 1 .. client'[c].op - 1, Program(c)[j].op = "receive"
        PROVE  client'[c].mail # NoMail
    <3>1. CASE mail # NoMail
      BY <3>1, <1>1
    <3>2. CASE mail = client[c].mail /\ Operation(c).op = "send"
      <4>1. j # client[c].op
        BY <2>5, <3>2 DEF Operation
      <4>2. j \in 1 .. client[c].op - 1
        BY <1>1, <2>1, <4>1
      <4> QED BY <1>1, <2>1, <2>5, <3>2, <4>2 DEF ClientOK
    <3> QED BY <3>1, <3>2
  <2> QED BY <1>1, <2>3, <2>4, <2>5 DEF ClientOK
<1> QED BY <1>1, <1>3, <1>4 DEF ClientsOK

(* One mailbox changes. *)
BoxBecomes(m, b, new) == box' = [box EXCEPT ![m][b] = new]
LEMMA BoxFacts ==
  ASSUME PostInv, NEW m \in Machines, NEW b \in Boxes, NEW new \in BoxType,
         BoxBecomes(m, b, new)
  PROVE  /\ box' \in [Machines -> [Boxes -> BoxType]] /\ box'[m][b] = new
         /\ \A n \in Machines, a \in Boxes : n # m \/ a # b => box'[n][a] = box[n][a]
<1>1. box \in [Machines -> [Boxes -> BoxType]]
  BY DEF PostInv, PostTypeOK
<1> QED BY <1>1 DEF BoxBecomes

(* The postal worker of one machine moves on. *)
LEMMA WorkerFacts ==
  ASSUME PostInv, NEW m \in Machines, NEW mail \in MailOrNot,
         NEW at \in {"wait", "fetch", "put", "append", "release"}, Worker(m, at, mail)
  PROVE  /\ worker' \in [Machines -> WorkerType]
         /\ worker'[m].at = at /\ worker'[m].mail = mail
         /\ \A n \in Machines : n # m => worker'[n] = worker[n]
<1>1. worker \in [Machines -> WorkerType]
  BY DEF PostInv, PostTypeOK
<1>2. [at |-> at, mail |-> mail] \in WorkerType
  BY DEF WorkerType
<1> QED BY <1>1, <1>2 DEF Worker

(* The senders that wait for their interrupt are the same. *)
LEMMA PacedSame ==
  ASSUME PostInv, UNCHANGED <<plan, sending, sent>>,
         \A d \in Clients : client'[d].at = "sent" <=> client[d].at = "sent"
  PROVE  PacedOK'
<1>1. Clients' = Clients /\ \A d : Home(d)' = Home(d)
  BY DEF Clients, Home
<1> QED BY <1>1 DEF PostInv, PacedOK

(* No list changes, and nothing moves towards the lists. *)
LEMMA MailSame ==
  ASSUME PostInv, UNCHANGED <<posted, got, wire>>,
         \A m \in Machines : Held(m)' = Held(m) /\ Buffered(m)' = Buffered(m),
         \A m \in Machines, b \in Boxes : box'[m][b].list = box[m][b].list
  PROVE  MailOnce'
<1>1. \A m \in Machines : Coming(m)' = Coming(m)
  BY Zenon DEF Coming
<1> QED BY <1>1, Zenon DEF PostInv, MailOnce

LEMMA AcquireSendKeeps ==
  ASSUME PostInv, NEW c \in Clients, AcquireSend(c)
  PROVE  PostInv'
<1> USE DEF AcquireSend
<1>1. /\ client[c].at = "call" /\ Operation(c).op = "send" /\ Go(c, "send")
      /\ UNCHANGED plan /\ plan \in Plans
  BY DEF PostInv, PostTypeOK
<1>2. Home(c) \in Machines /\ c # NoMail
  BY <1>1, PlanFacts
<1>3. /\ client' \in [Clients -> ClientType] /\ Clients' = Clients
      /\ \A d \in Clients : client'[d] = IF d = c THEN [client[c] EXCEPT !.at = "send"]
                                        ELSE client[d]
      /\ \A d \in Clients : Home(d)' = Home(d)
  BY <1>1, GoFacts DEF Sending
<1>4. sendLock' \in [Machines -> Clients \cup {NoMail}]
  BY <1>2, Zenon DEF PostInv, PostTypeOK
<1>5. PostTypeOK'
  BY <1>1, <1>3, <1>4 DEF PostInv, PostTypeOK, BoxType
<1>6. /\ plan.locks => sendLock'[Home(c)] = c
      /\ \A d \in Clients : d # c => (sendLock'[Home(d)] = d <=> sendLock[Home(d)] = d)
  <2>1. ASSUME NEW d \in Clients, d # c
        PROVE  sendLock'[Home(d)] = d <=> sendLock[Home(d)] = d
    <3>1. Home(d) \in Machines /\ d # NoMail
      BY <1>1, PlanFacts
    <3> QED BY <1>2, <2>1, <3>1 DEF PostInv, PostTypeOK
  <2> QED BY <1>2, <2>1 DEF PostInv, PostTypeOK
<1>7. ClientsOK'
  BY <1>1, <1>6, GoKeeps DEF Sending, Receiving
<1>8. WaitersOK'
  BY <1>1, <1>3, GoWaiters
<1>9. PacedOK'
  <2>1. client[c].at # "sent" /\ client'[c].at # "sent"
    BY <1>1, <1>3 DEF PostInv, PostTypeOK, ClientType
  <2> QED BY <1>3, <2>1 DEF PostInv, PacedOK
<1> QED BY <1>1, <1>5, <1>7, <1>8, <1>9, Frames DEF PostInv

LEMMA NetworkSendKeeps ==
  ASSUME PostInv, NEW c \in Clients, NetworkSend(c)
  PROVE  PostInv'
<1> DEFINE mail == Mail(c, Operation(c))
<1>1. /\ client[c].at = "send" /\ Go(c, "sent") /\ UNCHANGED plan
      /\ sending' = [sending EXCEPT ![Home(c)] = @ + 1]
      /\ \/ /\ wire' = [wire EXCEPT ![mail.to] = Append(@, mail)]
            /\ posted' = [posted EXCEPT ![mail.to] = Append(@, mail)]
         \/ UNCHANGED <<wire, posted>>
      /\ UNCHANGED <<inbox, available, sent, sendLock, box, worker, machine, got>>
  BY DEF NetworkSend
<1>2. mail \in Packets /\ mail.to \in Machines
  BY <1>1, MailFacts DEF Packets
<1> HIDE DEF mail
<1>3. plan \in Plans /\ Home(c) \in Machines
  BY PlanFacts DEF PostInv, PostTypeOK
<1>4. /\ client' \in [Clients -> ClientType] /\ Clients' = Clients
      /\ \A d \in Clients : client'[d] = IF d = c THEN [client[c] EXCEPT !.at = "sent"]
                                        ELSE client[d]
      /\ \A d \in Clients : Home(d)' = Home(d)
  BY <1>1, GoFacts DEF Sending
<1>5. wire' \in [Machines -> Seq(Packets)] /\ posted' \in [Machines -> Seq(Packets)]
  <2>1. wire \in [Machines -> Seq(Packets)] /\ posted \in [Machines -> Seq(Packets)]
    BY DEF PostInv, PostTypeOK
  <2>2. /\ Append(wire[mail.to], mail) \in Seq(Packets)
        /\ Append(posted[mail.to], mail) \in Seq(Packets)
    BY <1>2, <2>1, SeqMore
  <2> QED BY <1>1, <1>2, <2>1, <2>2, Zenon
<1>6. sending' \in [Machines -> Nat]
  BY <1>1, <1>3 DEF PostInv, PostTypeOK
<1>7. PostTypeOK'
  BY <1>1, <1>4, <1>5, <1>6 DEF PostInv, PostTypeOK, BoxType
<1>8. ClientOK(c) /\ client[c].at \in Sending
  BY <1>1 DEF PostInv, ClientsOK, Sending
<1>9. ClientsOK'
  <2>1. Operation(c).op = "send" /\ (plan.locks => sendLock'[Home(c)] = c)
    BY <1>1, <1>8 DEF ClientOK
  <2> QED BY <1>1, <2>1, GoKeeps DEF Sending, Receiving
<1>10. WaitersOK'
  BY <1>1, <1>4, GoWaiters
<1>11. PacedOK'
  <2> SUFFICES ASSUME plan.locks, NEW m \in Machines
               PROVE  sending'[m] + sent[m] =
                        IF \E d \in Clients : Home(d) = m /\ client'[d].at = "sent"
                        THEN 1 ELSE 0
    BY <1>1, <1>4 DEF PacedOK
  <2>1. sending[m] + sent[m] =
          IF \E d \in Clients : Home(d) = m /\ client[d].at = "sent" THEN 1 ELSE 0
    BY DEF PostInv, PacedOK
  <2>2. client'[c].at = "sent" /\ client[c].at # "sent"
    BY <1>1, <1>4 DEF PostInv, PostTypeOK, ClientType
  <2>3. sending \in [Machines -> Nat] /\ sent \in [Machines -> Nat]
    BY DEF PostInv, PostTypeOK
  <2>4. CASE m = Home(c)
    <3>1. ~ \E d \in Clients : Home(d) = m /\ client[d].at = "sent"
      <4>1. SUFFICES ASSUME NEW d \in Clients, Home(d) = m, client[d].at = "sent"
                     PROVE  FALSE
        OBVIOUS
      <4>2. sendLock[m] = d /\ sendLock[m] = c
        BY <4>1, <2>4, <1>8 DEF PostInv, ClientsOK, ClientOK, Sending
      <4> QED BY <4>1, <4>2, <2>2
    <3>2. sending'[m] = sending[m] + 1
      BY <1>1, <2>3, <2>4
    <3> QED BY <2>1, <2>2, <2>3, <2>4, <3>1, <3>2
  <2>5. CASE m # Home(c)
    <3>1. sending'[m] = sending[m]
      BY <1>1, <2>3, <2>5
    <3> QED BY <2>1, <2>5, <3>1, <1>4
  <2> QED BY <2>4, <2>5
<1>12. MailOnce'
  <2> SUFFICES ASSUME NEW m \in Machines, NEW b \in Boxes
               PROVE  Exact(posted'[m], got[m][b], box[m][b].list, Coming(m)', b)
    BY <1>1, Zenon DEF MailOnce, Exact
  <2>1. Exact(posted[m], got[m][b], box[m][b].list, Coming(m), b)
    BY Zenon DEF PostInv, MailOnce, Exact
  <2>2. /\ wire[m] \in Seq(Packets) /\ posted[m] \in Seq(Packets)
        /\ got[m][b] \in Seq(Packets) /\ box[m][b].list \in Seq(Packets)
        /\ Held(m) \in Seq(Packets) /\ Buffered(m) \in Seq(Packets)
    BY ComingType
  <2>3. Held(m)' = Held(m) /\ Buffered(m)' = Buffered(m)
    BY <1>1 DEF Held, Buffered
  <2>4. CASE wire'[m] = wire[m] /\ posted'[m] = posted[m]
    BY <2>1, <2>3, <2>4 DEF Coming
  <2>5. CASE wire'[m] = Append(wire[m], mail) /\ posted'[m] = Append(posted[m], mail)
    <3>1. Coming(m)' = Coming(m) \o <<mail>>
      <4>1. PostedLast(Held(m), Buffered(m), wire[m], mail)
        BY <1>2, <2>2, ComingPosted
      <4>2. Coming(m)' = Held(m) \o Buffered(m) \o Append(wire[m], mail)
        BY <2>3, <2>5 DEF Coming
      <4> QED BY ONLY <4>1, <4>2 DEF PostedLast, Coming
    <3>2. Coming(m) \in Seq(Packets)
      BY <2>2, SeqJoin DEF Coming
    <3> QED BY <1>2, <2>1, <2>2, <2>5, <3>1, <3>2, ExactPosted
  <2>6. wire \in [Machines -> Seq(Packets)] /\ posted \in [Machines -> Seq(Packets)]
    BY DEF PostInv, PostTypeOK
  <2> QED BY <1>1, <1>2, <2>4, <2>5, <2>6
<1> QED BY <1>1, <1>7, <1>9, <1>10, <1>11, <1>12, Frames DEF PostInv

LEMMA AwaitSentKeeps ==
  ASSUME PostInv, NEW c \in Clients, AwaitSent(c)
  PROVE  PostInv'
<1>1. /\ client[c].at = "sent" /\ sent[Home(c)] > 0 /\ Go(c, "unlock send")
      /\ sent' = [sent EXCEPT ![Home(c)] = @ - 1]
      /\ UNCHANGED <<plan, wire, inbox, sending, available, sendLock, box, worker,
                     machine, posted, got>>
  BY DEF AwaitSent
<1>2. plan \in Plans /\ Home(c) \in Machines /\ ClientOK(c)
  BY PlanFacts DEF PostInv, PostTypeOK, ClientsOK
<1>3. sending \in [Machines -> Nat] /\ sent \in [Machines -> Nat]
  BY DEF PostInv, PostTypeOK
<1>4. /\ client' \in [Clients -> ClientType] /\ Clients' = Clients
      /\ \A d \in Clients : client'[d] = IF d = c THEN [client[c] EXCEPT !.at = "unlock send"]
                                        ELSE client[d]
      /\ \A d \in Clients : Home(d)' = Home(d)
  BY <1>1, GoFacts DEF Sending
<1>5. sent' \in [Machines -> Nat]
  <2>1. PICK k : k = sent[Home(c)]
    OBVIOUS
  <2>2. k \in Nat /\ k > 0
    BY <1>1, <1>2, <1>3, <2>1
  <2>3. k - 1 \in Nat
    BY <2>2
  <2> QED BY <1>1, <1>2, <1>3, <2>1, <2>3
<1>6. PostTypeOK'
  BY <1>1, <1>4, <1>5 DEF PostInv, PostTypeOK, BoxType
<1>7. ClientsOK'
  <2>1. Operation(c).op = "send" /\ (plan.locks => sendLock'[Home(c)] = c)
    BY <1>1, <1>2 DEF ClientOK, Sending
  <2> QED BY <1>1, <2>1, GoKeeps DEF Sending, Receiving
<1>8. WaitersOK'
  BY <1>1, <1>4, GoWaiters
<1>9. PacedOK'
  <2> SUFFICES ASSUME plan.locks, NEW m \in Machines
               PROVE  sending[m] + sent'[m] =
                        IF \E d \in Clients : Home(d) = m /\ client'[d].at = "sent"
                        THEN 1 ELSE 0
    BY <1>1, <1>4 DEF PacedOK
  <2>1. sending[m] + sent[m] =
          IF \E d \in Clients : Home(d) = m /\ client[d].at = "sent" THEN 1 ELSE 0
    BY DEF PostInv, PacedOK
  <2>2. client'[c].at = "unlock send"
    BY <1>1, <1>4 DEF PostInv, PostTypeOK, ClientType
  <2>3. CASE m = Home(c)
    <3>1. ~ \E d \in Clients : Home(d) = m /\ client'[d].at = "sent"
      <4>1. SUFFICES ASSUME NEW d \in Clients, Home(d) = m, client'[d].at = "sent"
                     PROVE  FALSE
        OBVIOUS
      <4>2. d # c
        BY <4>1, <2>2
      <4>3. client[d].at = "sent"
        BY <4>1, <4>2, <1>4
      <4>4. sendLock[m] = d /\ sendLock[m] = c
        BY <4>1, <4>3, <2>3, <1>1 DEF PostInv, ClientsOK, ClientOK, Sending
      <4> QED BY <4>2, <4>4
    <3>2. sending[m] + sent[m] = 1
      BY <1>1, <2>1, <2>3
    <3>3. sent'[m] = sent[m] - 1
      BY <1>1, <1>3, <2>3
    <3> QED BY <1>3, <3>1, <3>2, <3>3
  <2>4. CASE m # Home(c)
    <3>1. sent'[m] = sent[m]
      BY <1>1, <1>3, <2>4
    <3> QED BY <2>1, <2>4, <3>1, <1>4
  <2> QED BY <2>3, <2>4
<1> QED BY <1>1, <1>6, <1>7, <1>8, <1>9, Frames DEF PostInv

LEMMA ReleaseSendKeeps ==
  ASSUME PostInv, NEW c \in Clients, ReleaseSend(c)
  PROVE  PostInv'
<1>1. /\ client[c].at = "unlock send" /\ Return(c, client[c].mail)
      /\ sendLock' = IF plan.locks THEN [sendLock EXCEPT ![Home(c)] = NoMail]
                     ELSE sendLock
      /\ UNCHANGED <<plan, wire, inbox, sending, available, sent, box, worker,
                     posted, got>>
  BY DEF ReleaseSend
<1>2. plan \in Plans /\ Home(c) \in Machines /\ ClientOK(c) /\ c # NoMail
  BY PlanFacts DEF PostInv, PostTypeOK, ClientsOK
<1>3. client[c].mail \in MailOrNot /\ sendLock \in [Machines -> Clients \cup {NoMail}]
  BY DEF PostInv, PostTypeOK, ClientType
<1>4. /\ client' \in [Clients -> ClientType] /\ Clients' = Clients
      /\ client'[c].at \in {"call", "done"}
      /\ \A d \in Clients : d # c => client'[d] = client[d]
  BY <1>1, <1>3, ReturnFacts
<1>5. PostTypeOK'
  BY <1>1, <1>2, <1>3, <1>4, ZenonT(30) DEF PostInv, PostTypeOK, BoxType
<1>6. ClientsOK'
  <2>1. Operation(c).op = "send"
    BY <1>1, <1>2 DEF ClientOK, Sending
  <2>2. plan.locks => sendLock'[Home(c)] # c
    BY <1>1, <1>2, <1>3
  <2>3. ASSUME NEW d \in Clients, d # c
        PROVE  sendLock'[Home(d)] = d <=> sendLock[Home(d)] = d
    <3>1. Home(d) \in Machines /\ d # NoMail
      BY <1>2, PlanFacts
    <3>2. plan.locks => sendLock[Home(c)] = c
      BY <1>1, <1>2 DEF ClientOK, Sending
    <3> QED BY <1>1, <1>2, <1>3, <2>3, <3>1, <3>2
  <2> QED BY <1>1, <1>3, <2>1, <2>2, <2>3, ReturnKeeps
<1>7. WaitersOK'
  BY <1>1, <1>4, GoWaiters
<1>8. PacedOK'
  <2>1. client[c].at # "sent" /\ client'[c].at # "sent"
    BY <1>1, <1>4
  <2> QED BY <1>1, <1>4, <2>1, PacedSame
<1> QED BY <1>1, <1>5, <1>6, <1>7, <1>8, Frames DEF PostInv

(* The mailbox of a client that receives. *)
LEMMA BoxOfFacts ==
  ASSUME PostInv, NEW c \in Clients, client[c].at # "done"
  PROVE  /\ plan \in Plans /\ Home(c) \in Machines /\ Operation(c).box \in Boxes
         /\ BoxOf(c) = box[Home(c)][Operation(c).box] /\ BoxOf(c) \in BoxType
<1>1. plan \in Plans /\ Home(c) \in Machines
  BY PlanFacts DEF PostInv, PostTypeOK
<1>2. Operation(c).box \in Boxes
  BY OperationFacts DEF Operations
<1> QED BY <1>1, <1>2 DEF BoxOf, PostInv, PostTypeOK

LEMMA AcquireBoxKeeps ==
  ASSUME PostInv, NEW c \in Clients, AcquireBox(c)
  PROVE  PostInv'
<1>1. /\ client[c].at \in {"call", "woken"} /\ Go(c, "look")
      /\ client[c].at = "call" => Operation(c).op = "receive"
      /\ SetBox(c, [BoxOf(c) EXCEPT !.lock = c])
      /\ UNCHANGED <<plan, wire, inbox, sending, available, sent, sendLock, worker,
                     machine, posted, got>>
  BY DEF AcquireBox
<1>2. /\ plan \in Plans /\ Home(c) \in Machines /\ Operation(c).box \in Boxes
      /\ BoxOf(c) = box[Home(c)][Operation(c).box] /\ BoxOf(c) \in BoxType
  BY <1>1, BoxOfFacts
<1>3. PICK new : new = [BoxOf(c) EXCEPT !.lock = c]
  BY Zenon
<1>4. new \in BoxType /\ new.list = BoxOf(c).list /\ new.waiters = BoxOf(c).waiters
  BY <1>2, <1>3 DEF BoxType
<1>5. /\ box' \in [Machines -> [Boxes -> BoxType]] /\ box'[Home(c)][Operation(c).box] = new
      /\ \A n \in Machines, a \in Boxes :
           n # Home(c) \/ a # Operation(c).box => box'[n][a] = box[n][a]
  <2>1. BoxBecomes(Home(c), Operation(c).box, new)
    BY <1>1, <1>3 DEF BoxBecomes, SetBox
  <2> QED BY <1>2, <1>4, <2>1, BoxFacts
<1>6. \A n \in Machines, a \in Boxes : /\ box'[n][a].list = box[n][a].list
                                       /\ box'[n][a].waiters = box[n][a].waiters
  BY <1>2, <1>4, <1>5
<1>7. /\ client' \in [Clients -> ClientType] /\ Clients' = Clients
      /\ \A d \in Clients : client'[d] = IF d = c THEN [client[c] EXCEPT !.at = "look"]
                                        ELSE client[d]
  BY <1>1, GoFacts DEF Receiving
<1>8. PostTypeOK'
  BY <1>1, <1>5, <1>7 DEF PostInv, PostTypeOK, BoxType
<1>9. ClientOK(c)
  BY DEF PostInv, ClientsOK
<1>10. ClientsOK'
  <2>1. Operation(c).op = "receive"
    BY <1>1, <1>9 DEF ClientOK, Receiving
  <2>2. plan.locks => sendLock'[Home(c)] # c
    BY <1>1, <1>9 DEF ClientOK, Sending
  <2> QED BY <1>1, <2>1, <2>2, GoKeeps DEF Sending, Receiving
<1>11. WaitersOK'
  BY <1>1, <1>6, <1>7, GoWaiters
<1>12. PacedOK'
  <2>1. client[c].at # "sent" /\ client'[c].at # "sent"
    BY <1>1, <1>7 DEF PostInv, PostTypeOK, ClientType
  <2> QED BY <1>1, <1>7, <2>1, PacedSame
<1>13. MailOnce'
  BY <1>1, <1>6, MailSame DEF Held, Buffered
<1> QED BY <1>1, <1>8, <1>10, <1>11, <1>12, <1>13, Frames DEF PostInv

LEMMA WaitForMailKeeps ==
  ASSUME PostInv, NEW c \in Clients, WaitForMail(c)
  PROVE  PostInv'
<1>1. /\ client[c].at = "look" /\ Go(c, "asleep")
      /\ SetBox(c, [BoxOf(c) EXCEPT !.lock = NoMail, !.waiters = Append(@, c)])
      /\ UNCHANGED <<plan, wire, inbox, sending, available, sent, sendLock, worker,
                     machine, posted, got>>
  BY DEF WaitForMail
<1>2. /\ plan \in Plans /\ Home(c) \in Machines /\ Operation(c).box \in Boxes
      /\ BoxOf(c) = box[Home(c)][Operation(c).box] /\ BoxOf(c) \in BoxType
  BY <1>1, BoxOfFacts
<1>3. PICK new : new = [BoxOf(c) EXCEPT !.lock = NoMail, !.waiters = Append(@, c)]
  OBVIOUS
<1>4. /\ new \in BoxType /\ new.list = BoxOf(c).list
      /\ new.waiters = Append(BoxOf(c).waiters, c)
  <2>1. Append(BoxOf(c).waiters, c) \in Seq(Clients)
    BY <1>2, SeqMore DEF BoxType
  <2> QED BY <1>2, <1>3, <2>1, Zenon DEF BoxType
<1>5. /\ box' \in [Machines -> [Boxes -> BoxType]] /\ box'[Home(c)][Operation(c).box] = new
      /\ \A n \in Machines, a \in Boxes :
           n # Home(c) \/ a # Operation(c).box => box'[n][a] = box[n][a]
  <2>1. BoxBecomes(Home(c), Operation(c).box, new)
    BY <1>1, <1>3 DEF BoxBecomes, SetBox
  <2> QED BY <1>2, <1>4, <2>1, BoxFacts
<1>6. \A n \in Machines, a \in Boxes : box'[n][a].list = box[n][a].list
  BY <1>2, <1>4, <1>5
<1>7. /\ client' \in [Clients -> ClientType] /\ Clients' = Clients
      /\ \A d \in Clients : client'[d] = IF d = c THEN [client[c] EXCEPT !.at = "asleep"]
                                        ELSE client[d]
      /\ \A d \in Clients : Home(d)' = Home(d) /\ Operation(d)' = Operation(d)
  BY <1>1, GoFacts DEF Receiving
<1>8. PostTypeOK'
  BY <1>1, <1>5, <1>7 DEF PostInv, PostTypeOK, BoxType
<1>9. ClientOK(c)
  BY DEF PostInv, ClientsOK
<1>10. ClientsOK'
  <2>1. Operation(c).op = "receive"
    BY <1>1, <1>9 DEF ClientOK, Receiving
  <2>2. plan.locks => sendLock'[Home(c)] # c
    BY <1>1, <1>9 DEF ClientOK, Sending
  <2> QED BY <1>1, <2>1, <2>2, GoKeeps DEF Sending, Receiving
<1>11. client'[c].at = "asleep"
  BY <1>7 DEF PostInv, PostTypeOK, ClientType
<1>12. WaitersOK'
  <2> SUFFICES ASSUME NEW m \in Machines, NEW b \in Boxes, NEW v, v = box'[m][b].waiters
               PROVE  WaitersAre(m, b, v)'
    BY DEF WaitersOK
  <2>1. PICK w : w = box[m][b].waiters
    OBVIOUS
  <2>2. w \in Seq(Clients)
    BY <2>1 DEF PostInv, PostTypeOK, BoxType
  <2>3. WaitersAre(m, b, w)
    BY <2>1 DEF PostInv, WaitersOK
  <2>4. \A i \in 1 .. Len(w) : w[i] \in Clients /\ w[i] # c
    BY <1>1, <2>2, <2>3, SeqIs DEF WaitersAre
  <2>5. \A i \in 1 .. Len(w) : /\ client'[w[i]].at = "asleep" /\ Home(w[i])' = m
                              /\ Operation(w[i])'.box = b
    BY <1>7, <2>3, <2>4 DEF WaitersAre
  <2>6. CASE m = Home(c) /\ b = Operation(c).box
    <3>1. v = Append(w, c)
      BY <1>2, <1>4, <1>5, <2>1, <2>6
    <3>2. Len(v) = Len(w) + 1 /\ v[Len(w) + 1] = c /\ \A i \in 1 .. Len(w) : v[i] = w[i]
      BY <2>2, <3>1, SeqMore
    <3>3. Len(w) \in Nat
      BY <2>2, SeqIs
    <3>4. Home(c)' = m /\ Operation(c)'.box = b
      BY <1>7, <2>6
    <3> HIDE <2>6
    <3>5. ASSUME NEW i \in 1 .. Len(v)
          PROVE  i = Len(w) + 1 \/ i \in 1 .. Len(w)
      BY <3>2, <3>3
    <3>6. \A i \in 1 .. Len(v) : /\ client'[v[i]].at = "asleep" /\ Home(v[i])' = m
                                /\ Operation(v[i])'.box = b
      BY <1>11, <2>5, <3>2, <3>4, <3>5
    <3>7. \A i, j \in 1 .. Len(v) : v[i] = v[j] => i = j
      <4>1. SUFFICES ASSUME NEW i \in 1 .. Len(v), NEW j \in 1 .. Len(v), v[i] = v[j]
                     PROVE  i = j
        OBVIOUS
      <4>2. CASE i \in 1 .. Len(w) /\ j \in 1 .. Len(w)
        BY <2>3, <3>2, <4>1, <4>2 DEF WaitersAre
      <4>3. CASE i = Len(w) + 1 \/ j = Len(w) + 1
        BY <2>4, <3>2, <3>5, <4>1, <4>3
      <4> QED BY <3>5, <4>2, <4>3
    <3> QED BY <3>6, <3>7 DEF WaitersAre
  <2>7. CASE m # Home(c) \/ b # Operation(c).box
    <3>1. v = w
      BY <1>5, <2>1, <2>7
    <3> QED BY <2>3, <2>5, <3>1 DEF WaitersAre
  <2> QED BY <2>6, <2>7
<1>13. PacedOK'
  BY <1>1, <1>7, <1>11, PacedSame
<1>14. MailOnce'
  BY <1>1, <1>6, MailSame DEF Held, Buffered
<1> QED BY <1>1, <1>8, <1>10, <1>12, <1>13, <1>14, Frames DEF PostInv

LEMMA ReleaseBoxKeeps ==
  ASSUME PostInv, NEW c \in Clients, ReleaseBox(c)
  PROVE  PostInv'
<1>1. /\ client[c].at = "unlock" /\ Return(c, client[c].mail)
      /\ SetBox(c, [BoxOf(c) EXCEPT !.lock = NoMail])
      /\ UNCHANGED <<plan, wire, inbox, sending, available, sent, sendLock, worker,
                     posted, got>>
  BY DEF ReleaseBox
<1>2. /\ plan \in Plans /\ Home(c) \in Machines /\ Operation(c).box \in Boxes
      /\ BoxOf(c) = box[Home(c)][Operation(c).box] /\ BoxOf(c) \in BoxType
  BY <1>1, BoxOfFacts
<1>3. PICK new : new = [BoxOf(c) EXCEPT !.lock = NoMail]
  BY Zenon
<1>4. new \in BoxType /\ new.list = BoxOf(c).list /\ new.waiters = BoxOf(c).waiters
  BY <1>2, <1>3 DEF BoxType
<1>5. /\ box' \in [Machines -> [Boxes -> BoxType]] /\ box'[Home(c)][Operation(c).box] = new
      /\ \A n \in Machines, a \in Boxes :
           n # Home(c) \/ a # Operation(c).box => box'[n][a] = box[n][a]
  <2>1. BoxBecomes(Home(c), Operation(c).box, new)
    BY <1>1, <1>3 DEF BoxBecomes, SetBox
  <2> QED BY <1>2, <1>4, <2>1, BoxFacts
<1>6. \A n \in Machines, a \in Boxes : /\ box'[n][a].list = box[n][a].list
                                       /\ box'[n][a].waiters = box[n][a].waiters
  BY <1>2, <1>4, <1>5
<1>7. client[c].mail \in MailOrNot /\ ClientOK(c)
  BY DEF PostInv, PostTypeOK, ClientType, ClientsOK
<1>8. /\ client' \in [Clients -> ClientType] /\ Clients' = Clients
      /\ client'[c].at \in {"call", "done"}
      /\ \A d \in Clients : d # c => client'[d] = client[d]
  BY <1>1, <1>7, ReturnFacts
<1>9. PostTypeOK'
  BY <1>1, <1>5, <1>8 DEF PostInv, PostTypeOK, BoxType
<1>10. ClientsOK'
  <2>1. client[c].mail # NoMail
    BY <1>1, <1>7 DEF ClientOK
  <2>2. plan.locks => sendLock'[Home(c)] # c
    BY <1>1, <1>7 DEF ClientOK, Sending
  <2> QED BY <1>1, <1>7, <2>1, <2>2, ReturnKeeps
<1>11. WaitersOK'
  BY <1>1, <1>6, <1>8, GoWaiters
<1>12. PacedOK'
  <2>1. client[c].at # "sent" /\ client'[c].at # "sent"
    BY <1>1, <1>8
  <2> QED BY <1>1, <1>8, <2>1, PacedSame
<1>13. MailOnce'
  BY <1>1, <1>6, MailSame DEF Held, Buffered
<1> QED BY <1>1, <1>9, <1>10, <1>11, <1>12, <1>13, Frames DEF PostInv

(* A client takes the first mail of its mailbox's list. *)
LEMMA TakeFacts ==
  ASSUME PostInv, NEW c \in Clients, client[c].at # "done", BoxOf(c).list # <<>>,
         Take(c), UNCHANGED <<plan, posted, wire, worker, inbox>>
  PROVE  /\ box' \in [Machines -> [Boxes -> BoxType]]
         /\ got' \in [Machines -> [Boxes -> Seq(Packets)]]
         /\ \A n \in Machines, a \in Boxes : box'[n][a].waiters = box[n][a].waiters
         /\ Head(BoxOf(c).list) \in Packets
         /\ MailOnce'
<1>1. /\ plan \in Plans /\ Home(c) \in Machines /\ Operation(c).box \in Boxes
      /\ BoxOf(c) = box[Home(c)][Operation(c).box] /\ BoxOf(c) \in BoxType
  BY BoxOfFacts
<1>2. PICK l : l = BoxOf(c).list
  OBVIOUS
<1>3. /\ l \in Seq(Packets) /\ l # <<>> /\ Head(l) \in Packets
      /\ Tail(l) \in Seq(Packets)
  <2>1. l \in Seq(Packets) /\ l # <<>>
    BY <1>1, <1>2 DEF BoxType
  <2> QED BY <2>1, SeqSplit
<1>4. PICK new : new = [BoxOf(c) EXCEPT !.list = Tail(@)]
  BY Zenon
<1>5. new \in BoxType /\ new.list = Tail(l) /\ new.waiters = BoxOf(c).waiters
  BY <1>1, <1>2, <1>3, <1>4, Zenon DEF BoxType
<1>6. /\ box' \in [Machines -> [Boxes -> BoxType]] /\ box'[Home(c)][Operation(c).box] = new
      /\ \A n \in Machines, a \in Boxes :
           n # Home(c) \/ a # Operation(c).box => box'[n][a] = box[n][a]
  <2>1. BoxBecomes(Home(c), Operation(c).box, new)
    BY <1>4 DEF BoxBecomes, Take, SetBox
  <2> QED BY <1>1, <1>5, <2>1, BoxFacts
<1>7. got \in [Machines -> [Boxes -> Seq(Packets)]]
  BY ZenonT(30) DEF PostInv, PostTypeOK
<1>8. PICK g : g = got[Home(c)][Operation(c).box]
  BY Zenon
<1>9. g \in Seq(Packets) /\ Append(g, Head(l)) \in Seq(Packets)
  <2>1. g \in Seq(Packets)
    BY <1>1, <1>7, <1>8
  <2> QED BY <2>1, <1>3, SeqMore
<1>10. got' = [got EXCEPT ![Home(c)][Operation(c).box] = Append(g, Head(l))]
  BY <1>1, <1>2, <1>7, <1>8 DEF Take
<1>11. /\ got' \in [Machines -> [Boxes -> Seq(Packets)]]
       /\ got'[Home(c)][Operation(c).box] = Append(g, Head(l))
       /\ \A n \in Machines, a \in Boxes :
            n # Home(c) \/ a # Operation(c).box => got'[n][a] = got[n][a]
  <2>1. PICK new2 : new2 = Append(g, Head(l))
    BY ZenonT(30)
  <2>2. new2 \in Seq(Packets) /\ got' = [got EXCEPT ![Home(c)][Operation(c).box] = new2]
    BY <1>9, <1>10, <2>1
  <2>3. PICK S : S = Seq(Packets)
    OBVIOUS
  <2>4. new2 \in S /\ got \in [Machines -> [Boxes -> S]]
    BY <1>7, <2>2, <2>3
  <2>5. got' \in [Machines -> [Boxes -> S]]
    BY <1>1, <2>2, <2>4
  <2>6. /\ got'[Home(c)][Operation(c).box] = new2
        /\ \A n \in Machines, a \in Boxes :
             n # Home(c) \/ a # Operation(c).box => got'[n][a] = got[n][a]
    BY <1>1, <2>2, <2>4
  <2> QED BY <2>1, <2>3, <2>5, <2>6
<1>12. MailOnce'
  <2> SUFFICES ASSUME NEW m \in Machines, NEW b \in Boxes
               PROVE  Exact(posted[m], got'[m][b], box'[m][b].list, Coming(m), b)
    BY ZenonT(30) DEF MailOnce, Exact, Coming, Held, Buffered
  <2>1. Exact(posted[m], got[m][b], box[m][b].list, Coming(m), b)
    BY ZenonT(30) DEF PostInv, MailOnce, Exact
  <2>2. CASE m = Home(c) /\ b = Operation(c).box
    <3>1. got[m][b] = g /\ box[m][b].list = l
      BY <1>1, <1>2, <1>8, <2>2
    <3>2. got'[m][b] = Append(g, Head(l)) /\ box'[m][b].list = Tail(l)
      BY <1>5, <1>6, <1>11, <2>2
    <3>3. Exact(posted[m], Append(g, Head(l)), Tail(l), Coming(m), b)
      BY <1>3, <1>9, <2>1, <3>1, ExactReceived
    <3> QED BY ONLY <3>2, <3>3
  <2>3. CASE m # Home(c) \/ b # Operation(c).box
    BY <1>6, <1>11, <2>1, <2>3, ZenonT(30)
  <2> QED BY <2>2, <2>3
<1>13. \A n \in Machines, a \in Boxes : box'[n][a].waiters = box[n][a].waiters
  BY <1>1, <1>5, <1>6
<1> QED BY <1>2, <1>3, <1>6, <1>11, <1>12, <1>13

LEMMA RemoveMailKeeps ==
  ASSUME PostInv, NEW c \in Clients, RemoveMail(c)
  PROVE  PostInv'
<1>1. /\ client[c].at = "look" /\ BoxOf(c).list # <<>> /\ Take(c)
      /\ client' = [client EXCEPT ![c].at = "unlock", ![c].mail = Head(BoxOf(c).list)]
      /\ UNCHANGED <<plan, wire, inbox, sending, available, sent, sendLock, worker,
                     machine, posted>>
  BY DEF RemoveMail
<1>2. /\ box' \in [Machines -> [Boxes -> BoxType]]
      /\ got' \in [Machines -> [Boxes -> Seq(Packets)]]
      /\ \A n \in Machines, a \in Boxes : box'[n][a].waiters = box[n][a].waiters
      /\ Head(BoxOf(c).list) \in Packets
      /\ MailOnce'
  BY <1>1, TakeFacts
<1>3. PICK mail : mail = Head(BoxOf(c).list)
  OBVIOUS
<1>4. mail \in MailOrNot /\ mail # NoMail
  BY <1>2, <1>3, PlansAssumption DEF MailOrNot
<1>5. client \in [Clients -> ClientType]
  BY DEF PostInv, PostTypeOK
<1>6. /\ client'[c] = [client[c] EXCEPT !.at = "unlock", !.mail = mail]
      /\ client'[c] \in ClientType
  BY <1>1, <1>3, <1>4, <1>5, ZenonT(30) DEF ClientType, Receiving
<1>7. \A d \in Clients : d # c => client'[d] = client[d]
  BY <1>1, <1>5
<1>8. client' \in [Clients -> ClientType]
  BY <1>1, <1>5, <1>6, <1>7
<1>9. PostTypeOK'
  BY <1>1, <1>2, <1>8 DEF PostInv, PostTypeOK, BoxType, Clients
<1>10. /\ client'[c].at = "unlock" /\ client'[c].mail = mail
       /\ client'[c].op = client[c].op
  BY <1>5, <1>6 DEF ClientType
<1>11. ClientsOK'
  <2> SUFFICES ASSUME NEW d \in Clients PROVE ClientOK(d)'
    BY <1>1 DEF ClientsOK, Clients
  <2>1. ClientOK(d) /\ Home(d)' = Home(d) /\ Program(d)' = Program(d)
    BY <1>1 DEF PostInv, ClientsOK, Home, Program
  <2>2. Operation(d)' = Operation(d)
    BY <1>7, <1>10, <2>1 DEF Operation
  <2>3. CASE d = c
    <3>1. "unlock" \notin Sending /\ "look" \notin Sending /\ "look" \in Receiving
      BY DEF Sending, Receiving
    <3> QED BY <1>1, <1>4, <1>10, <2>1, <2>2, <2>3, <3>1 DEF ClientOK
  <2>4. CASE d # c
    BY <1>1, <1>7, <2>1, <2>2, <2>4, Zenon DEF ClientOK
  <2> QED BY <2>3, <2>4
<1>12. WaitersOK'
  BY <1>1, <1>2, <1>7, GoWaiters, Zenon
<1>13. PacedOK'
  <2>1. \A d \in Clients : client'[d].at = "sent" <=> client[d].at = "sent"
    BY <1>1, <1>7, <1>10, ZenonT(30)
  <2> QED BY <1>1, <2>1, PacedSame, Zenon
<1> QED BY <1>1, <1>2, <1>9, <1>11, <1>12, <1>13, Frames DEF PostInv

LEMMA RemoveDummyKeeps ==
  ASSUME PostInv, NEW c \in Clients, RemoveDummy(c)
  PROVE  PostInv'
<1>1. /\ client[c].at = "call" /\ ~ plan.locks
      /\ UNCHANGED <<plan, wire, inbox, sending, available, sent, sendLock, worker,
                     posted>>
  BY Zenon DEF RemoveDummy
<1>2. CASE BoxOf(c).list = <<>>
  <2>1. UNCHANGED <<box, client, got>>
    BY <1>2 DEF RemoveDummy
  <2>2. PostTypeOK'
    BY <1>1, <2>1, ZenonT(30) DEF PostInv, PostTypeOK, BoxType, Clients
  <2> QED BY <1>1, <2>1, <2>2, Frames DEF PostInv
<1>3. CASE BoxOf(c).list # <<>>
  <2>1. Take(c) /\ Return(c, Head(BoxOf(c).list))
    BY <1>3 DEF RemoveDummy
  <2>2. /\ box' \in [Machines -> [Boxes -> BoxType]]
        /\ got' \in [Machines -> [Boxes -> Seq(Packets)]]
        /\ \A n \in Machines, a \in Boxes : box'[n][a].waiters = box[n][a].waiters
        /\ Head(BoxOf(c).list) \in Packets
        /\ MailOnce'
    BY <1>1, <1>3, <2>1, TakeFacts
  <2>3. PICK mail : mail = Head(BoxOf(c).list)
    OBVIOUS
  <2>4. mail \in MailOrNot /\ mail # NoMail /\ Return(c, mail)
    BY <2>1, <2>2, <2>3, PlansAssumption DEF MailOrNot
  <2>5. /\ client' \in [Clients -> ClientType] /\ Clients' = Clients
        /\ client'[c].at \in {"call", "done"}
        /\ \A d \in Clients : d # c => client'[d] = client[d]
    BY <1>1, <2>4, ReturnFacts
  <2>6. PostTypeOK'
    BY <1>1, <2>2, <2>5, ZenonT(30) DEF PostInv, PostTypeOK, BoxType
  <2>7. ClientsOK'
    BY <1>1, <2>4, ReturnKeeps
  <2>8. WaitersOK'
    BY <1>1, <2>2, <2>5, GoWaiters
  <2>9. PacedOK'
    BY <1>1 DEF PacedOK
  <2> QED BY <1>1, <2>2, <2>6, <2>7, <2>8, <2>9, Frames DEF PostInv
<1> QED BY <1>2, <1>3

LEMMA CheckPktAvailKeeps ==
  ASSUME PostInv, NEW m \in Machines, CheckPktAvail(m)
  PROVE  PostInv'
<1>1. /\ inbox[m] = NoMail /\ wire[m] # <<>>
      /\ inbox' = [inbox EXCEPT ![m] = Head(wire[m])]
      /\ wire' = [wire EXCEPT ![m] = Tail(@)]
      /\ available' = [available EXCEPT ![m] = @ + 1]
      /\ UNCHANGED <<plan, sending, sent, sendLock, box, worker, client, machine,
                     posted, got>>
  BY DEF CheckPktAvail
<1>2. /\ wire \in [Machines -> Seq(Packets)] /\ inbox \in [Machines -> MailOrNot]
      /\ available \in [Machines -> Nat]
  BY DEF PostInv, PostTypeOK
<1>3. PICK w, e : w = wire[m] /\ e = Head(w)
  OBVIOUS
<1>4. w \in Seq(Packets) /\ w # <<>> /\ e \in Packets /\ Tail(w) \in Seq(Packets)
  BY <1>1, <1>2, <1>3, SeqSplit
<1>5. e \in MailOrNot /\ e # NoMail
  BY <1>4, PlansAssumption DEF MailOrNot
<1>6. /\ inbox' \in [Machines -> MailOrNot] /\ inbox'[m] = e
      /\ \A n \in Machines : n # m => inbox'[n] = inbox[n]
  BY <1>1, <1>2, <1>3, <1>5
<1>7. /\ wire' \in [Machines -> Seq(Packets)] /\ wire'[m] = Tail(w)
      /\ \A n \in Machines : n # m => wire'[n] = wire[n]
  BY <1>1, <1>2, <1>3, <1>4
<1>8. /\ available' \in [Machines -> Nat] /\ available'[m] = available[m] + 1
      /\ \A n \in Machines : n # m => available'[n] = available[n]
  BY <1>1, <1>2
<1>9. PostTypeOK'
  BY <1>1, <1>6, <1>7, <1>8, Zenon DEF PostInv, PostTypeOK, BoxType, Clients
<1>10. BufferOK'
  <2>1. ASSUME NEW n \in Machines PROVE BufferAt(n)'
    <3>1. BufferAt(n) /\ UNCHANGED worker
      BY <1>1 DEF PostInv, BufferOK
    <3>2. CASE n # m
      BY <1>6, <1>8, <3>1, <3>2 DEF BufferAt
    <3>3. CASE n = m
      <4>1. available[m] = 0 /\ worker[m].at # "fetch"
        BY <1>1, <3>1, <3>3 DEF BufferAt
      <4>2. available'[m] = 1
        BY <1>8, <4>1
      <4> QED BY <1>5, <1>6, <3>1, <3>3, <4>1, <4>2 DEF BufferAt
    <3> QED BY <3>2, <3>3
  <2> QED BY <2>1 DEF BufferOK
<1>11. MailOnce'
  <2>1. \A n \in Machines : Held(n)' = Held(n)
    BY <1>1 DEF Held
  <2>2. \A n \in Machines : n # m => Coming(n)' = Coming(n)
    BY <1>6, <1>7, <2>1, Zenon DEF Coming, Buffered
  <2>3. ASSUME NEW b \in Boxes PROVE Coming(m)' = Coming(m)
    <3>1. Coming(m) = Held(m) \o <<>> \o w
      BY <1>1, <1>3 DEF Coming, Buffered
    <3>2. Coming(m)' = Held(m) \o <<e>> \o Tail(w)
      BY <1>5, <1>6, <1>7, <2>1, Zenon DEF Coming, Buffered
    <3>3. TakenIn(Held(m), w)
      BY <1>4, ComingType, ComingTakenIn
    <3> QED BY ONLY <1>3, <3>1, <3>2, <3>3, Zenon DEF TakenIn
  <2>4. \A n \in Machines, b \in Boxes : Coming(n)' = Coming(n)
    BY <2>2, <2>3
  <2> QED BY <1>1, <2>4, Zenon DEF PostInv, MailOnce
<1> QED BY <1>1, <1>9, <1>10, <1>11, Frames DEF PostInv

LEMMA SendDoneKeeps ==
  ASSUME PostInv, NEW m \in Machines, SendDone(m)
  PROVE  PostInv'
<1>1. /\ sending[m] > 0
      /\ sending' = [sending EXCEPT ![m] = @ - 1]
      /\ sent' = [sent EXCEPT ![m] = @ + 1]
      /\ UNCHANGED <<plan, wire, inbox, available, sendLock, box, worker, client,
                     machine, posted, got>>
  BY DEF SendDone
<1>2. sending \in [Machines -> Nat] /\ sent \in [Machines -> Nat]
  BY DEF PostInv, PostTypeOK
<1>3. PICK k : k = sending[m] - 1
  OBVIOUS
<1>4. k \in Nat /\ sending[m] = k + 1
  BY <1>1, <1>2, <1>3
<1>5. /\ sending' \in [Machines -> Nat] /\ sending'[m] = k
      /\ \A n \in Machines : n # m => sending'[n] = sending[n]
  BY <1>1, <1>2, <1>3, <1>4
<1>6. /\ sent' \in [Machines -> Nat] /\ sent'[m] = sent[m] + 1
      /\ \A n \in Machines : n # m => sent'[n] = sent[n]
  BY <1>1, <1>2
<1>7. PostTypeOK'
  BY <1>1, <1>5, <1>6, Zenon DEF PostInv, PostTypeOK, BoxType, Clients
<1>8. \A n \in Machines : sending'[n] + sent'[n] = sending[n] + sent[n]
  BY <1>2, <1>4, <1>5, <1>6
<1>9. PacedOK'
  BY <1>1, <1>8, ZenonT(30) DEF PostInv, PacedOK, Clients, Home
<1> QED BY <1>1, <1>7, <1>9, Frames DEF PostInv

LEMMA AwaitMessageKeeps ==
  ASSUME PostInv, NEW m \in Machines, AwaitMessage(m)
  PROVE  PostInv'
<1>1. /\ worker[m].at = "wait" /\ available[m] > 0
      /\ available' = [available EXCEPT ![m] = @ - 1] /\ Worker(m, "fetch", NoMail)
      /\ UNCHANGED <<plan, wire, inbox, sending, sent, sendLock, box, client,
                     machine, posted, got>>
  BY Zenon DEF AwaitMessage
<1>2. available \in [Machines -> Nat]
  BY DEF PostInv, PostTypeOK
<1>3. PICK k : k = available[m] - 1
  OBVIOUS
<1>4. k \in Nat /\ available[m] = k + 1
  BY <1>1, <1>2, <1>3
<1>5. /\ available' \in [Machines -> Nat] /\ available'[m] = k
      /\ \A n \in Machines : n # m => available'[n] = available[n]
  BY <1>1, <1>2, <1>3, <1>4
<1>6. NoMail \in MailOrNot
  BY DEF MailOrNot
<1>7. /\ worker' \in [Machines -> WorkerType] /\ worker'[m].at = "fetch"
      /\ \A n \in Machines : n # m => worker'[n] = worker[n]
  BY <1>1, <1>6, WorkerFacts
<1>8. PostTypeOK'
  BY <1>1, <1>5, <1>7, ZenonT(30) DEF PostInv, PostTypeOK, BoxType, Clients
<1>9. BufferOK'
  <2>1. ASSUME NEW n \in Machines PROVE BufferAt(n)'
    <3>1. BufferAt(n) /\ UNCHANGED inbox
      BY <1>1 DEF PostInv, BufferOK
    <3>2. CASE n # m
      BY <1>5, <1>7, <3>1, <3>2 DEF BufferAt
    <3>3. CASE n = m
      <4>1. available[m] = 1 /\ available'[m] = 0
        BY <1>1, <1>4, <1>5, <3>1, <3>3 DEF BufferAt
      <4> QED BY <1>7, <3>1, <3>3, <4>1 DEF BufferAt
    <3> QED BY <3>2, <3>3
  <2> QED BY <2>1 DEF BufferOK
<1>10. MailOnce'
  <2>1. \A n \in Machines : Held(n)' = Held(n) /\ Buffered(n)' = Buffered(n)
    BY <1>1, <1>7 DEF Held, Buffered
  <2> QED BY <1>1, <2>1, MailSame
<1> QED BY <1>1, <1>8, <1>9, <1>10, Frames, ZenonT(30) DEF PostInv

LEMMA NetworkReceiveKeeps ==
  ASSUME PostInv, NEW m \in Machines, NetworkReceive(m)
  PROVE  PostInv'
<1>1. /\ worker[m].at = "fetch" /\ Worker(m, "put", inbox[m])
      /\ inbox' = [inbox EXCEPT ![m] = NoMail]
      /\ UNCHANGED <<plan, wire, sending, available, sent, sendLock, box, client,
                     machine, posted, got>>
  BY Zenon DEF NetworkReceive
<1>2. inbox \in [Machines -> MailOrNot] /\ available \in [Machines -> Nat]
  BY DEF PostInv, PostTypeOK
<1>3. inbox[m] # NoMail /\ available[m] = 0
  BY <1>1 DEF PostInv, BufferOK, BufferAt
<1>4. PICK e : e = inbox[m]
  OBVIOUS
<1>5. e \in MailOrNot /\ e # NoMail /\ e \in Packets
  BY <1>2, <1>3, <1>4 DEF MailOrNot
<1>6. /\ worker' \in [Machines -> WorkerType] /\ worker'[m].at = "put"
      /\ worker'[m].mail = e
      /\ \A n \in Machines : n # m => worker'[n] = worker[n]
  BY <1>1, <1>4, <1>5, WorkerFacts
<1>7. /\ inbox' \in [Machines -> MailOrNot] /\ inbox'[m] = NoMail
      /\ \A n \in Machines : n # m => inbox'[n] = inbox[n]
  BY <1>1, <1>2 DEF MailOrNot
<1>8. PostTypeOK'
  BY <1>1, <1>6, <1>7, ZenonT(30) DEF PostInv, PostTypeOK, BoxType, Clients
<1>9. BufferOK'
  <2>1. ASSUME NEW n \in Machines PROVE BufferAt(n)'
    <3>1. BufferAt(n) /\ UNCHANGED available
      BY <1>1, ZenonT(30) DEF PostInv, BufferOK
    <3>2. CASE n # m
      BY <1>6, <1>7, <3>1, <3>2 DEF BufferAt
    <3>3. CASE n = m
      BY <1>3, <1>5, <1>6, <1>7, <3>1, <3>3 DEF BufferAt
    <3> QED BY <3>2, <3>3
  <2> QED BY <2>1 DEF BufferOK
<1>10. MailOnce'
  <2>1. \A n \in Machines : n # m => Coming(n)' = Coming(n)
    BY <1>1, <1>6, <1>7, ZenonT(30) DEF Coming, Held, Buffered
  <2>2. ASSUME NEW b \in Boxes PROVE Coming(m)' = Coming(m)
    <3>1. Coming(m) = <<>> \o <<e>> \o wire[m]
      BY <1>1, <1>3, <1>4 DEF Coming, Held, Buffered
    <3>2. Coming(m)' = <<e>> \o <<>> \o wire[m]
      BY <1>1, <1>6, <1>7 DEF Coming, Held, Buffered
    <3>3. Fetched(e, wire[m])
      BY <1>5, ComingType, ComingFetched
    <3> QED BY ONLY <3>1, <3>2, <3>3 DEF Fetched
  <2>3. \A n \in Machines, b \in Boxes : Coming(n)' = Coming(n)
    BY <2>1, <2>2
  <2> QED BY <1>1, <2>3, ZenonT(30) DEF PostInv, MailOnce
<1> QED BY <1>1, <1>8, <1>9, <1>10, Frames DEF PostInv

(* The mailbox of the mail that the postal worker has. *)
LEMMA TargetFacts ==
  ASSUME PostInv, NEW m \in Machines, worker[m].at \in {"put", "append", "release"}
  PROVE  /\ worker[m].mail \in Packets /\ worker[m].mail \in MailOrNot
         /\ worker[m].mail # NoMail /\ worker[m].mail.box \in Boxes
         /\ Target(m) = box[m][worker[m].mail.box] /\ Target(m) \in BoxType
<1>1. worker[m].mail # NoMail /\ worker[m].mail \in MailOrNot
  BY DEF PostInv, BufferOK, BufferAt, PostTypeOK, WorkerType
<1>2. worker[m].mail \in Packets /\ worker[m].mail.box \in Boxes
  BY <1>1 DEF MailOrNot, Packets
<1> QED BY <1>1, <1>2 DEF Target, PostInv, PostTypeOK

(* The postal worker's steps after it has fetched the mail leave the device *)
(* as it was.                                                               *)
LEMMA BufferSame ==
  ASSUME PostInv, NEW m \in Machines, UNCHANGED <<available, inbox>>,
         worker[m].at # "fetch", worker'[m].at # "fetch",
         worker'[m].at \in {"put", "append", "release"} => worker'[m].mail # NoMail,
         \A n \in Machines : n # m => worker'[n] = worker[n]
  PROVE  BufferOK'
  BY DEF PostInv, BufferOK, BufferAt

(* The mail in the postal worker's hands goes to the list of its mailbox. *)
ListGrows(m, e) ==
  /\ box'[m][e.box].list = Append(box[m][e.box].list, e)
  /\ \A n \in Machines, a \in Boxes :
       n # m \/ a # e.box => box'[n][a].list = box[n][a].list
LEMMA MailListed ==
  ASSUME PostInv, NEW m \in Machines, UNCHANGED <<posted, got, wire, inbox>>,
         worker[m].at \in {"put", "append"}, worker'[m].at \notin {"put", "append"},
         \A n \in Machines : n # m => worker'[n] = worker[n],
         ListGrows(m, worker[m].mail)
  PROVE  MailOnce'
<1> SUFFICES ASSUME NEW n \in Machines, NEW b \in Boxes
             PROVE  Exact(posted[n], got[n][b], box'[n][b].list, Coming(n)', b)
  BY Zenon DEF MailOnce, Exact
<1>1. Exact(posted[n], got[n][b], box[n][b].list, Coming(n), b)
  BY ZenonT(30) DEF PostInv, MailOnce, Exact
<1>2. CASE n # m
  <2>1. Coming(n)' = Coming(n)
    BY <1>2, ZenonT(30) DEF Coming, Held, Buffered
  <2> QED BY <1>1, <1>2, <2>1, Zenon DEF ListGrows
<1>3. CASE n = m
  <2>1. PICK e : e = worker[m].mail
    OBVIOUS
  <2>2. e \in Packets
    BY <2>1, TargetFacts
  <2>3. PICK w : w = <<>> \o Buffered(m) \o wire[m]
    BY ZenonT(30)
  <2>4. /\ wire[m] \in Seq(Packets) /\ posted[m] \in Seq(Packets)
        /\ got[m][b] \in Seq(Packets) /\ box[m][b].list \in Seq(Packets)
        /\ Buffered(m) \in Seq(Packets)
    BY ComingType, Zenon
  <2>5. Coming(m)' = w
    BY <2>3, Zenon DEF Coming, Held, Buffered
  <2>6. Coming(m) = <<e>> \o Buffered(m) \o wire[m]
    BY <2>1, Zenon DEF Coming, Held
  <2>7. Listed(e, Buffered(m), wire[m])
    BY <2>2, <2>4, ComingListed
  <2>8. Coming(m) = <<e>> \o w
    BY ONLY <2>3, <2>6, <2>7, ZenonT(30) DEF Listed
  <2>9. w \in Seq(Packets)
    <3>1. <<>> \o Buffered(m) \in Seq(Packets)
      BY <2>4, SeqJoinNone
    <3> QED BY <2>3, <2>4, <3>1, SeqJoin
  <2>10. Exact(posted[m], got[m][b], box[m][b].list, <<e>> \o w, b)
    BY ONLY <1>1, <1>3, <2>8
  <2>11. PICK k : k = box'[m][b].list
    OBVIOUS
  <2>12. k = IF e.box = b THEN Append(box[m][b].list, e) ELSE box[m][b].list
    BY <2>1, <2>11, Zenon DEF ListGrows
  <2>13. Exact(posted[m], got[m][b], k, w, b)
    BY ONLY <2>2, <2>4, <2>9, <2>10, <2>12, ExactListed, Zenon
  <2> QED BY ONLY <1>3, <2>5, <2>11, <2>13
<1> QED BY <1>2, <1>3

LEMMA AcquireTargetKeeps ==
  ASSUME PostInv, NEW m \in Machines, AcquireTarget(m)
  PROVE  PostInv'
<1>1. /\ worker[m].at = "put" /\ Worker(m, "append", worker[m].mail)
      /\ SetTarget(m, [Target(m) EXCEPT !.lock = "worker"])
      /\ UNCHANGED <<plan, wire, inbox, sending, available, sent, sendLock, client,
                     machine, posted, got>>
  BY DEF AcquireTarget
<1>2. PICK e : e = worker[m].mail
  OBVIOUS
<1>3. /\ e \in MailOrNot /\ e # NoMail /\ e.box \in Boxes
      /\ Target(m) = box[m][e.box] /\ Target(m) \in BoxType
  BY <1>1, <1>2, TargetFacts
<1>4. /\ worker' \in [Machines -> WorkerType]
      /\ worker'[m].at = "append" /\ worker'[m].mail = e
      /\ \A n \in Machines : n # m => worker'[n] = worker[n]
  BY <1>1, <1>2, <1>3, WorkerFacts
<1>5. PICK new : new = [Target(m) EXCEPT !.lock = "worker"]
  BY Zenon
<1>6. new \in BoxType /\ new.list = Target(m).list /\ new.waiters = Target(m).waiters
  BY <1>3, <1>5 DEF BoxType
<1>7. /\ box' \in [Machines -> [Boxes -> BoxType]] /\ box'[m][e.box] = new
      /\ \A n \in Machines, a \in Boxes : n # m \/ a # e.box => box'[n][a] = box[n][a]
  <2>1. BoxBecomes(m, e.box, new)
    BY <1>1, <1>2, <1>5 DEF BoxBecomes, SetTarget
  <2> QED BY <1>3, <1>6, <2>1, BoxFacts
<1>8. \A n \in Machines, a \in Boxes : /\ box'[n][a].list = box[n][a].list
                                       /\ box'[n][a].waiters = box[n][a].waiters
  BY <1>3, <1>6, <1>7
<1>9. PostTypeOK'
  BY <1>1, <1>4, <1>7 DEF PostInv, PostTypeOK, BoxType, Clients
<1>10. WaitersOK'
  BY <1>1, <1>8, WaitersSame
<1>11. BufferOK'
  BY <1>1, <1>3, <1>4, BufferSame
<1>12. MailOnce'
  <2>1. \A n \in Machines : Held(n)' = Held(n) /\ Buffered(n)' = Buffered(n)
    BY <1>1, <1>2, <1>4 DEF Held, Buffered
  <2> QED BY <1>1, <1>8, <2>1, MailSame
<1> QED BY <1>1, <1>9, <1>10, <1>11, <1>12, Frames DEF PostInv

LEMMA ReleaseTargetKeeps ==
  ASSUME PostInv, NEW m \in Machines, ReleaseTarget(m)
  PROVE  PostInv'
<1>1. /\ worker[m].at = "release" /\ Worker(m, "wait", NoMail)
      /\ SetTarget(m, [Target(m) EXCEPT !.lock = NoMail])
      /\ UNCHANGED <<plan, wire, inbox, sending, available, sent, sendLock, client,
                     machine, posted, got>>
  BY DEF ReleaseTarget
<1>2. PICK e : e = worker[m].mail
  OBVIOUS
<1>3. /\ NoMail \in MailOrNot /\ e.box \in Boxes
      /\ Target(m) = box[m][e.box] /\ Target(m) \in BoxType
  BY <1>1, <1>2, TargetFacts DEF MailOrNot
<1>4. /\ worker' \in [Machines -> WorkerType] /\ worker'[m].at = "wait"
      /\ \A n \in Machines : n # m => worker'[n] = worker[n]
  BY <1>1, <1>3, WorkerFacts
<1>5. PICK new : new = [Target(m) EXCEPT !.lock = NoMail]
  BY ZenonT(30)
<1>6. new \in BoxType /\ new.list = Target(m).list /\ new.waiters = Target(m).waiters
  BY <1>3, <1>5 DEF BoxType
<1>7. /\ box' \in [Machines -> [Boxes -> BoxType]] /\ box'[m][e.box] = new
      /\ \A n \in Machines, a \in Boxes : n # m \/ a # e.box => box'[n][a] = box[n][a]
  <2>1. BoxBecomes(m, e.box, new)
    BY <1>1, <1>2, <1>5 DEF BoxBecomes, SetTarget
  <2> QED BY <1>3, <1>6, <2>1, BoxFacts
<1>8. \A n \in Machines, a \in Boxes : /\ box'[n][a].list = box[n][a].list
                                       /\ box'[n][a].waiters = box[n][a].waiters
  BY <1>3, <1>6, <1>7
<1>9. PostTypeOK'
  BY <1>1, <1>4, <1>7 DEF PostInv, PostTypeOK, BoxType, Clients
<1>10. WaitersOK'
  BY <1>1, <1>8, WaitersSame
<1>11. BufferOK'
  BY <1>1, <1>4, BufferSame
<1>12. MailOnce'
  <2>1. \A n \in Machines : Held(n)' = Held(n) /\ Buffered(n)' = Buffered(n)
    BY <1>1, <1>4 DEF Held, Buffered
  <2> QED BY <1>1, <1>8, <2>1, MailSame
<1> QED BY <1>1, <1>9, <1>10, <1>11, <1>12, Frames DEF PostInv

LEMMA PutDummyKeeps ==
  ASSUME PostInv, NEW m \in Machines, PutDummy(m)
  PROVE  PostInv'
<1>1. /\ worker[m].at = "put" /\ Worker(m, "wait", NoMail)
      /\ SetTarget(m, [Target(m) EXCEPT !.list = Append(@, worker[m].mail)])
      /\ UNCHANGED <<plan, wire, inbox, sending, available, sent, sendLock, client,
                     machine, posted, got>>
  BY DEF PutDummy
<1>2. PICK e : e = worker[m].mail
  OBVIOUS
<1>3. /\ NoMail \in MailOrNot /\ e.box \in Boxes /\ e \in Packets
      /\ Target(m) = box[m][e.box] /\ Target(m) \in BoxType
  BY <1>1, <1>2, TargetFacts DEF MailOrNot
<1>4. /\ worker' \in [Machines -> WorkerType] /\ worker'[m].at = "wait"
      /\ \A n \in Machines : n # m => worker'[n] = worker[n]
  BY <1>1, <1>3, WorkerFacts
<1>5. PICK new : new = [Target(m) EXCEPT !.list = Append(@, e)]
  BY Zenon
<1>6. /\ new \in BoxType /\ new.list = Append(Target(m).list, e)
      /\ new.waiters = Target(m).waiters
  <2>1. Append(Target(m).list, e) \in Seq(Packets)
    BY <1>3, SeqMore DEF BoxType
  <2> QED BY <1>3, <1>5, <2>1, ZenonT(30) DEF BoxType
<1>7. /\ box' \in [Machines -> [Boxes -> BoxType]] /\ box'[m][e.box] = new
      /\ \A n \in Machines, a \in Boxes : n # m \/ a # e.box => box'[n][a] = box[n][a]
  <2>1. BoxBecomes(m, e.box, new)
    BY <1>1, <1>2, <1>5 DEF BoxBecomes, SetTarget
  <2> QED BY <1>3, <1>6, <2>1, BoxFacts
<1>8. \A n \in Machines, a \in Boxes : box'[n][a].waiters = box[n][a].waiters
  BY <1>3, <1>6, <1>7
<1>9. PostTypeOK'
  BY <1>1, <1>4, <1>7, Zenon DEF PostInv, PostTypeOK, BoxType, Clients
<1>10. WaitersOK'
  BY <1>1, <1>8, WaitersSame
<1>11. BufferOK'
  BY <1>1, <1>4, BufferSame
<1>12. MailOnce'
  <2>1. ListGrows(m, e)
    BY <1>3, <1>6, <1>7 DEF ListGrows
  <2> QED BY <1>1, <1>2, <1>4, <2>1, MailListed
<1> QED BY <1>1, <1>9, <1>10, <1>11, <1>12, Frames DEF PostInv

LEMMA AppendMailKeeps ==
  ASSUME PostInv, NEW m \in Machines, AppendMail(m)
  PROVE  PostInv'
<1>1. /\ worker[m].at = "append" /\ Worker(m, "release", worker[m].mail)
      /\ UNCHANGED <<plan, wire, inbox, sending, available, sent, sendLock,
                     machine, posted, got>>
  BY DEF AppendMail
<1>2. PICK e, t, w : e = worker[m].mail /\ t = Target(m) /\ w = t.waiters
  OBVIOUS
<1>3. /\ e \in MailOrNot /\ e # NoMail /\ e \in Packets /\ e.box \in Boxes
      /\ t = box[m][e.box] /\ t \in BoxType
  BY <1>1, <1>2, TargetFacts
<1>4. /\ w \in Seq(Clients) /\ t.list \in Seq(Packets)
      /\ Append(t.list, e) \in Seq(Packets)
  <2>1. w \in Seq(Clients) /\ t.list \in Seq(Packets)
    BY <1>2, <1>3, ZenonT(30) DEF BoxType
  <2> QED BY <1>3, <2>1, SeqMore
<1>5. /\ worker' \in [Machines -> WorkerType]
      /\ worker'[m].at = "release" /\ worker'[m].mail = e
      /\ \A n \in Machines : n # m => worker'[n] = worker[n]
  BY <1>1, <1>2, <1>3, WorkerFacts
<1>6. BufferOK'
  BY <1>1, <1>3, <1>5, BufferSame
<1>7. CASE w = <<>>
  <2>1. PICK new : new = [t EXCEPT !.list = Append(@, e)]
    BY ZenonT(30)
  <2>2. BoxBecomes(m, e.box, new) /\ client' = client
    BY <1>2, <1>7, <2>1 DEF BoxBecomes, AppendMail, SetTarget
  <2>3. new \in BoxType /\ new.list = Append(t.list, e) /\ new.waiters = w
    BY <1>2, <1>3, <1>4, <2>1, Zenon DEF BoxType
  <2>4. /\ box' \in [Machines -> [Boxes -> BoxType]] /\ box'[m][e.box] = new
        /\ \A n \in Machines, a \in Boxes : n # m \/ a # e.box => box'[n][a] = box[n][a]
    BY <1>3, <2>2, <2>3, BoxFacts
  <2>5. \A n \in Machines, a \in Boxes : box'[n][a].waiters = box[n][a].waiters
    BY <1>2, <1>3, <2>3, <2>4, ZenonT(30)
  <2>6. PostTypeOK'
    BY <1>1, <1>5, <2>2, <2>4, ZenonT(30) DEF PostInv, PostTypeOK, BoxType, Clients
  <2>7. WaitersOK'
    BY <1>1, <2>2, <2>5, WaitersSame, ZenonT(30)
  <2>8. MailOnce'
    <3>1. ListGrows(m, e)
      BY <1>3, <2>3, <2>4 DEF ListGrows
    <3> QED BY <1>1, <1>2, <1>5, <3>1, MailListed
  <2> QED BY <1>1, <1>6, <2>2, <2>6, <2>7, <2>8, Frames, Zenon DEF PostInv
<1>8. CASE w # <<>>
  <2>1. PICK new : new = [[t EXCEPT !.list = Append(@, e)] EXCEPT !.waiters = Tail(@)]
    OBVIOUS
  <2>2. PICK c : c = Head(w)
    OBVIOUS
  <2>3. BoxBecomes(m, e.box, new) /\ Go(c, "woken")
    BY <1>2, <1>8, <2>1, <2>2 DEF BoxBecomes, AppendMail, SetTarget, Go
  <2>4. c \in Clients /\ Tail(w) \in Seq(Clients) /\ c = w[1] /\ Len(w) \in Nat \ {0}
    BY <1>4, <1>8, <2>2, SeqSplit, SeqIs
  <2>5. new \in BoxType /\ new.list = Append(t.list, e) /\ new.waiters = Tail(w)
    BY <1>2, <1>3, <1>4, <2>1, <2>4, ZenonT(30) DEF BoxType
  <2>6. /\ box' \in [Machines -> [Boxes -> BoxType]] /\ box'[m][e.box] = new
        /\ \A n \in Machines, a \in Boxes : n # m \/ a # e.box => box'[n][a] = box[n][a]
    BY <1>3, <2>3, <2>5, BoxFacts
  <2>7. /\ client[c].at = "asleep" /\ ClientOK(c)
        /\ Home(c) = m /\ Operation(c).box = e.box
    <3>1. w = box[m][e.box].waiters
      BY <1>2, <1>3
    <3>2. 1 \in 1 .. Len(w)
      BY <2>4
    <3>3. WaitersAre(m, e.box, w)
      BY <1>3, <3>1 DEF PostInv, WaitersOK
    <3> QED BY <2>4, <3>2, <3>3 DEF PostInv, ClientsOK, WaitersAre
  <2>8. /\ client' \in [Clients -> ClientType] /\ Clients' = Clients
        /\ \A d \in Clients : client'[d] = IF d = c THEN [client[c] EXCEPT !.at = "woken"]
                                          ELSE client[d]
        /\ \A d \in Clients : Home(d)' = Home(d) /\ Operation(d)' = Operation(d)
    BY <1>1, <2>3, <2>4, <2>7, GoFacts DEF Receiving
  <2>9. PostTypeOK'
    BY <1>1, <1>5, <2>6, <2>8 DEF PostInv, PostTypeOK, BoxType
  <2>10. ClientsOK'
    <3>1. Operation(c).op = "receive"
      BY <2>7 DEF ClientOK, Receiving
    <3>2. plan.locks => sendLock'[Home(c)] # c
      BY <1>1, <2>7, ZenonT(30) DEF ClientOK, Sending
    <3> QED BY <1>1, <2>3, <2>4, <2>7, <3>1, <3>2, GoKeeps, ZenonT(30) DEF Sending, Receiving
  <2>11. WaitersOK'
    <3> SUFFICES ASSUME NEW n \in Machines, NEW b \in Boxes,
                        NEW v, v = box'[n][b].waiters
                 PROVE  WaitersAre(n, b, v)'
      BY DEF WaitersOK
    <3>1. PICK u : u = box[n][b].waiters
      OBVIOUS
    <3>2. u \in Seq(Clients)
      BY <3>1 DEF PostInv, PostTypeOK, BoxType
    <3>3. WaitersAre(n, b, u)
      BY <3>1 DEF PostInv, WaitersOK
    <3>4. \A i \in 1 .. Len(u) : u[i] \in Clients
      BY <3>2, SeqIs
    <3>5. \A i \in 1 .. Len(u) : u[i] # c => /\ client'[u[i]].at = "asleep"
                                            /\ Home(u[i])' = n
                                            /\ Operation(u[i])'.box = b
      BY <2>8, <3>3, <3>4 DEF WaitersAre
    <3>6. CASE n = m /\ b = e.box
      <4>1. u = w /\ v = Tail(w)
        BY <1>2, <1>3, <2>5, <2>6, <3>1, <3>6, ZenonT(30)
      <4>2. Len(v) = Len(w) - 1 /\ \A i \in 1 .. Len(v) : v[i] = w[i + 1]
        BY <1>4, <1>8, <4>1, SeqSplit
      <4>3. ASSUME NEW i \in 1 .. Len(v)
            PROVE  i + 1 \in 1 .. Len(u) /\ 1 \in 1 .. Len(u) /\ v[i] = u[i + 1]
                   /\ v[i] # c
        <5>1. i + 1 \in 1 .. Len(u) /\ 1 \in 1 .. Len(u) /\ v[i] = u[i + 1] /\ i + 1 # 1
          BY <2>4, <4>1, <4>2
        <5> QED BY <2>4, <3>3, <4>1, <5>1 DEF WaitersAre
      <4>4. \A i, j \in 1 .. Len(v) : v[i] = v[j] => i = j
        <5>1. SUFFICES ASSUME NEW i \in 1 .. Len(v), NEW j \in 1 .. Len(v), v[i] = v[j]
                       PROVE  i = j
          OBVIOUS
        <5>2. i + 1 = j + 1
          BY <5>1, <4>3, <3>3 DEF WaitersAre
        <5> QED BY <5>2
      <4>5. \A i \in 1 .. Len(v) : /\ client'[v[i]].at = "asleep" /\ Home(v[i])' = n
                                  /\ Operation(v[i])'.box = b
        BY <3>5, <4>3, ZenonT(30)
      <4> QED BY <4>4, <4>5 DEF WaitersAre
    <3>7. CASE n # m \/ b # e.box
      <4>1. v = u
        BY <2>6, <3>1, <3>7
      <4>2. \A i \in 1 .. Len(u) : u[i] # c
        BY <2>7, <3>3, <3>7 DEF WaitersAre
      <4> QED BY <3>3, <3>5, <4>1, <4>2 DEF WaitersAre
    <3> QED BY <3>6, <3>7
  <2>12. PacedOK'
    <3>1. client'[c].at # "sent" /\ client[c].at # "sent"
      BY <2>4, <2>7, <2>8 DEF PostInv, PostTypeOK, ClientType
    <3> QED BY <1>1, <2>8, <3>1, PacedSame
  <2>13. MailOnce'
    <3>1. ListGrows(m, e)
      BY <1>3, <2>5, <2>6 DEF ListGrows
    <3> QED BY <1>1, <1>2, <1>5, <3>1, MailListed
  <2> QED BY <1>6, <2>9, <2>10, <2>11, <2>12, <2>13 DEF PostInv
<1> QED BY <1>7, <1>8

LEMMA PostInvInit ==
  ASSUME PostInit
  PROVE  PostInv
<1>1. plan \in Plans
  BY DEF PostInit
<1>2. PostTypeOK
  <2>1. <<>> \in Seq(Packets) /\ <<>> \in Seq(Clients) /\ NoMail \in MailOrNot
    BY DEF MailOrNot
  <2>2. [list |-> <<>>, lock |-> NoMail, waiters |-> <<>>] \in BoxType
    BY <2>1 DEF BoxType
  <2>3. [at |-> "wait", mail |-> NoMail] \in WorkerType
    BY <2>1 DEF WorkerType
  <2>4. [at |-> "call", op |-> 1, mail |-> NoMail] \in ClientType
    BY <2>1 DEF ClientType
  <2> QED BY <2>1, <2>2, <2>3, <2>4 DEF PostTypeOK, PostInit
<1>3. \A m \in Machines : /\ inbox[m] = NoMail /\ available[m] = 0
                           /\ worker[m].at = "wait" /\ worker[m].mail = NoMail
  BY DEF PostInit
<1>4. \A m \in Machines : sending[m] = 0 /\ sent[m] = 0 /\ sendLock[m] = NoMail
  BY DEF PostInit
<1>5. \A c \in Clients : client[c].at = "call" /\ client[c].op = 1
  BY DEF PostInit
<1>6. \A m \in Machines, b \in Boxes : /\ got[m][b] = <<>> /\ box[m][b].list = <<>>
                                       /\ box[m][b].waiters = <<>>
  BY DEF PostInit
<1>7. \A m \in Machines : posted[m] = <<>> /\ wire[m] = <<>>
  BY DEF PostInit
<1>8. ClientsOK
  <2> SUFFICES ASSUME NEW c \in Clients PROVE ClientOK(c)
    BY DEF ClientsOK
  <2>1. c # NoMail /\ Home(c) \in Machines /\ Len(Program(c)) \in Nat \ {0}
    BY <1>1, PlanFacts, ZenonT(30)
  <2>2. client[c].at = "call" /\ client[c].op = 1 /\ sendLock[Home(c)] # c
    <3>1. client[c].at = "call" /\ client[c].op = 1
      BY ONLY <1>5, c \in Clients, Zenon
    <3>2. sendLock[Home(c)] = NoMail
      BY ONLY <1>4, <2>1, Zenon
    <3> QED BY ONLY <2>1, <3>1, <3>2, Zenon
  <2>3. client[c].op \in 1 .. Len(Program(c))
    BY ONLY <2>1, <2>2
  <2>4. ~ \E j \in 1 .. client[c].op - 1 : Program(c)[j].op = "receive"
    BY ONLY <2>2
  <2> QED BY ONLY <2>2, <2>3, <2>4, Zenon DEF ClientOK, Sending, Receiving
<1>9. WaitersOK
  <2>1. \A i : i \notin 1 .. Len(<<>>)
    OBVIOUS
  <2> QED BY ONLY <1>6, <2>1 DEF WaitersOK, WaitersAre
<1>10. BufferOK
  BY ONLY <1>3 DEF BufferOK, BufferAt
<1>11. PacedOK
  BY ONLY <1>4, <1>5 DEF PacedOK
<1>12. MailOnce
  <2>1. \A b : ForBox(<<>>, b) = <<>>
    BY ForBoxFew, ZenonT(30)
  <2>2. <<>> \o <<>> = <<>>
    BY ONLY TRUE
  <2>3. ASSUME NEW m \in Machines PROVE Coming(m) = <<>>
    <3>1. Held(m) = <<>> /\ Buffered(m) = <<>> /\ wire[m] = <<>>
      BY ONLY m \in Machines, <1>3, <1>7 DEF Held, Buffered
    <3> QED BY ONLY <2>2, <3>1 DEF Coming
  <2> SUFFICES ASSUME NEW m \in Machines, NEW b \in Boxes
               PROVE  ForBox(posted[m], b) = got[m][b] \o box[m][b].list
                                               \o ForBox(Coming(m), b)
    BY Zenon DEF MailOnce
  <2> QED BY ONLY <1>6, <1>7, <2>1, <2>2, <2>3, m \in Machines, b \in Boxes, Zenon
<1> QED BY <1>2, <1>8, <1>9, <1>10, <1>11, <1>12 DEF PostInv

LEMMA PostInvNext ==
  ASSUME PostInv, [PostNext]_postVars
  PROVE  PostInv'
<1>1. CASE UNCHANGED postVars
  <2>1. PostTypeOK'
    BY <1>1, Zenon DEF PostInv, PostTypeOK, postVars, BoxType, Clients
  <2> QED BY <1>1, <2>1, Frames DEF PostInv, postVars
<1>2. ASSUME NEW m \in Machines, Interrupt(m) PROVE PostInv'
  BY <1>2, CheckPktAvailKeeps, SendDoneKeeps DEF Interrupt
<1>3. ASSUME NEW m \in Machines, PostalDelivery(m) PROVE PostInv'
  BY <1>3, AwaitMessageKeeps, NetworkReceiveKeeps, AcquireTargetKeeps,
     AppendMailKeeps, ReleaseTargetKeeps, PutDummyKeeps DEF PostalDelivery
<1>4. ASSUME NEW c \in Clients, Client(c) PROVE PostInv'
  BY <1>4, AcquireSendKeeps, NetworkSendKeeps, AwaitSentKeeps, ReleaseSendKeeps,
     AcquireBoxKeeps, WaitForMailKeeps, RemoveMailKeeps, ReleaseBoxKeeps,
     RemoveDummyKeeps DEF Client
<1> QED BY <1>1, <1>2, <1>3, <1>4 DEF PostNext

INSTANCE FiniteSetTheorems

(* The senders that wait on a machine are as many as its packets with the *)
(* device or reported.                                                    *)
LEMMA PacedCount ==
  ASSUME PostInv
  PROVE  SendsPaced
<1> SUFFICES ASSUME plan.locks, NEW m \in Machines
             PROVE  /\ sending[m] + sent[m] =
                         Cardinality({c \in Clients : Home(c) = m /\ client[c].at = "sent"})
                    /\ sending[m] + sent[m] <= 1
  BY DEF SendsPaced
<1>1. PICK W : W = {c \in Clients : Home(c) = m /\ client[c].at = "sent"}
  BY ZenonT(30)
<1>2. sending[m] + sent[m] = IF W = {} THEN 0 ELSE 1
  BY <1>1 DEF PostInv, PacedOK
<1>3. ASSUME NEW c \in W, NEW d \in W PROVE c = d
  <2>1. c \in Clients /\ Home(c) = m /\ client[c].at = "sent"
    BY <1>1, <1>3
  <2>2. d \in Clients /\ Home(d) = m /\ client[d].at = "sent"
    BY <1>1, <1>3
  <2>3. sendLock[m] = c
    BY <2>1 DEF PostInv, ClientsOK, ClientOK, Sending
  <2>4. sendLock[m] = d
    BY <2>2 DEF PostInv, ClientsOK, ClientOK, Sending
  <2> QED BY <2>3, <2>4
<1>4. Cardinality(W) = IF W = {} THEN 0 ELSE 1
  <2>1. CASE W = {}
    BY <2>1, FS_EmptySet
  <2>2. CASE W # {}
    <3>1. PICK c : W = {c}
      BY <1>3, <2>2
    <3> QED BY <3>1, <2>2, FS_Singleton
  <2> QED BY <2>1, <2>2
<1> QED BY <1>1, <1>2, <1>4

(* Mail that the network did not lose reaches its mailbox once and in the   *)
(* order it was sent, whatever the machines, the clients, their programs    *)
(* and the interleaving of network interrupts, PostalDelivery, Send and     *)
(* Receive (network/post.cc), with real locks or with the dummies.          *)
THEOREM MailOnceHolds == PostInit /\ [][PostNext]_postVars => []MailOnce
<1>1. PostInit => PostInv
  BY PostInvInit
<1>2. PostInv /\ [PostNext]_postVars => PostInv'
  BY PostInvNext
<1>3. PostInv => MailOnce
  BY DEF PostInv
<1> QED BY <1>1, <1>2, <1>3, PTL

(* With real locks PostOffice::Send hands the device one packet at a time:   *)
(* a packet is with the device, or its interrupt has been counted, exactly  *)
(* while its own sender waits, on every machine and for any clients.        *)
THEOREM SendsPacedHolds == PostInit /\ [][PostNext]_postVars => []SendsPaced
<1>1. PostInit => PostInv
  BY PostInvInit
<1>2. PostInv /\ [PostNext]_postVars => PostInv'
  BY PostInvNext
<1>3. PostInv => SendsPaced
  BY PacedCount
<1> QED BY <1>1, <1>2, <1>3, PTL
=============================================================================
