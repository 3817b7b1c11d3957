----------------------------- MODULE MCPrograms -----------------------------
(* Instances of Programs: the exchange of MailTest and two senders and two *)
(* receivers that share one mailbox; people who ride the elevator; and the *)
(* thread test with each kind of synchronisation.                          *)
EXTENDS Programs

Exchange ==
  [c \in {"main1", "main2"} |->
     IF c = "main1" THEN [on |-> 1, does |-> MailTest(2)]
     ELSE [on |-> 2, does |-> MailTest(1)]]

Shared ==
  [c \in {"s1", "s2", "r1", "r2"} |->
     CASE c = "s1" -> [on |-> 1, does |-> <<send(2, 0), send(2, 0)>>]
       [] c = "s2" -> [on |-> 1, does |-> <<send(2, 0)>>]
       [] c = "r1" -> [on |-> 2, does |-> <<receive(0), receive(0)>>]
       [] c = "r2" -> [on |-> 2, does |-> <<receive(0)>>]]

Started(programs, halts, locks) ==
  {[programs |-> programs, halts |-> halts, locks |-> locks, lossy |-> b] :
     b \in BOOLEAN}

\* the "bare bones" (locks) and the default build of network/Makefile
MCPlans == UNION {Started(Exchange, TRUE, b) \cup Started(Shared, FALSE, b) :
                    b \in BOOLEAN}

Clear == [q \in Queues |-> [f \in 1 .. NumFloors |-> 0]]

MCOutings ==
  {[trips |-> <<<<1, 3>>, b, c>>, sliced |-> s, heap |-> Clear] :
     b \in {<<1, 2>>, <<3, 1>>, <<2, 2>>},
     c \in {<<2, 1>>, <<1, 3>>, <<3, 3>>}, s \in BOOLEAN}
  \cup {[trips |-> <<<<1, 2>>>>, sliced |-> FALSE, heap |-> [Clear EXCEPT !["up"][1] = 1, !["downTo"][2] = -1]]}

MCVariants == [sync: {"semaphores", "locks"}, sliced: BOOLEAN] \cup [sync: {"plain"}, sliced: {FALSE}]
=============================================================================
