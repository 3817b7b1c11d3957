------------------------------- MODULE Post -------------------------------
(***************************************************************************)
(* The post office (network/post.cc) over the unreliable network device    *)
(* (machine/network.cc): clients that send and receive, the postal worker  *)
(* that moves packets from the device to the mailboxes, the mailboxes'     *)
(* synchronised lists (threads/synchlist.cc), and the exchange of          *)
(* network/nettest.cc.                                                     *)
(*                                                                         *)
(* Machines are separate UNIX processes, so their steps interleave freely. *)
(* On one machine a thread can lose the processor, and a device can        *)
(* interrupt, wherever interrupts are turned on: at the end of each call   *)
(* to a semaphore, lock or condition.  Those are the steps of this module; *)
(* semaphores, locks and conditions are what modules Synch and Monitor     *)
(* show them to be: P waits for a positive value, Acquire for a free lock. *)
(*                                                                         *)
(* Lock and Condition are real only in a build with THREADS (synch.cc).    *)
(* The others get dummies: locks do nothing, not even a clock tick, and    *)
(* Wait is ASSERT(FALSE).                                                  *)
(***************************************************************************)
EXTENDS Integers, Sequences, FiniteSets

CONSTANTS Machines, NumBoxes,
          Plans,     \* [programs, lossy, locks, halts]
          Reply,      \* destination: the sender of the mail last received
          NoMail

VARIABLES
  plan,
  wire,       \* machine -> the packets in its UNIX socket
  inbox,      \* machine -> Network::inbox, or NoMail when inHdr.length is 0
  sending,    \* machine -> NetworkSendInt interrupts that are pending
  available,  \* machine -> value of messageAvailable
  sent,       \* machine -> value of messageSent
  sendLock,   \* machine -> the client that holds it, or NoMail
  box,        \* machine -> mailbox -> [list, lock, waiters]
  worker,     \* machine -> [at, mail]: PostalDelivery
  client,     \* client -> [at, op, mail]: its place, operation and last mail
  machine,    \* machine -> "up", "halted" or "aborted"
  posted,     \* machine -> what reached its socket, in order
  got         \* machine -> mailbox -> what was received from it, in order

postVars == <<plan, wire, inbox, sending, available, sent, sendLock, box, worker,
          client, machine, posted, got>>

Boxes == 0 .. NumBoxes - 1
Operations == [op : {"send", "receive"}, to : Machines \cup {Reply}, box : Boxes,
               reply : Boxes]
AllClients == UNION {DOMAIN p.programs : p \in Plans}
Packets == [id : AllClients \X Nat, from : Machines, to : Machines, box : Boxes,
            reply : Boxes]

\* Programs send and receive on machines and mailboxes that there are, and
\* answer only mail they have received.
ASSUME PlansAssumption ==
  /\ Reply \notin Machines /\ NoMail \notin Packets
  /\ \A p \in Plans : \A c \in DOMAIN p.programs :
       /\ c # NoMail
       /\ p.programs[c].on \in Machines
       /\ p.programs[c].does \in Seq(Operations) \ {<<>>}
       /\ \A i \in DOMAIN p.programs[c].does :
            p.programs[c].does[i].op = "send" /\ p.programs[c].does[i].to = Reply =>
              \E j \in 1 .. i - 1 : p.programs[c].does[j].op = "receive"

Clients == DOMAIN plan.programs
Program(c) == plan.programs[c].does
Home(c) == plan.programs[c].on
Operation(c) == Program(c)[client[c].op]

\* A packet: machines and mailboxes of both ends, and which message it is.
Mail(c, operation) ==
  [id |-> <<c, client[c].op>>, from |-> Home(c),
   to |-> IF operation.to = Reply THEN client[c].mail.from ELSE operation.to,
   box |-> IF operation.to = Reply THEN client[c].mail.reply ELSE operation.box,
   reply |-> operation.reply]

Go(c, at) == client' = [client EXCEPT ![c].at = at]

\* The client's operation is over.  MailTest halts its machine at the end.
Return(c, mail) ==
  LET over == client[c].op = Len(Program(c))
  IN  /\ client' = [client EXCEPT ![c] =
                      [at |-> IF over THEN "done" ELSE "call",
                       op |-> @.op + 1, mail |-> mail]]
      /\ machine' = IF over /\ plan.halts
                    THEN [machine EXCEPT ![Home(c)] = "halted"] ELSE machine

PostInit ==
  /\ plan \in Plans
  /\ wire = [m \in Machines |-> <<>>]
  /\ inbox = [m \in Machines |-> NoMail]
  /\ sending = [m \in Machines |-> 0]
  /\ available = [m \in Machines |-> 0]
  /\ sent = [m \in Machines |-> 0]
  /\ sendLock = [m \in Machines |-> NoMail]
  /\ box = [m \in Machines |->
              [b \in Boxes |-> [list |-> <<>>, lock |-> NoMail, waiters |-> <<>>]]]
  /\ worker = [m \in Machines |-> [at |-> "wait", mail |-> NoMail]]
  /\ client = [c \in Clients |-> [at |-> "call", op |-> 1, mail |-> NoMail]]
  /\ machine = [m \in Machines |-> "up"]
  /\ posted = [m \in Machines |-> <<>>]
  /\ got = [m \in Machines |-> [b \in Boxes |-> <<>>]]
-----------------------------------------------------------------------------
(* machine/network.cc: the interrupts                                      *)

(* Mutant: the poll does not look whether a packet is already buffered. *)
CheckPktAvailAlways(m) ==
  /\ wire[m] # <<>>
  /\ inbox' = [inbox EXCEPT ![m] = Head(wire[m])]
  /\ wire' = [wire EXCEPT ![m] = Tail(@)]
  /\ available' = [available EXCEPT ![m] = @ + 1]
  /\ UNCHANGED <<plan, sending, sent, sendLock, box, worker, client, machine,
                 posted, got>>
\* The poll takes a packet in only when the last one has been fetched.
CheckPktAvail(m) ==
  /\ inbox[m] = NoMail
  /\ wire[m] # <<>>
  /\ inbox' = [inbox EXCEPT ![m] = Head(wire[m])]
  /\ wire' = [wire EXCEPT ![m] = Tail(@)]
  /\ available' = [available EXCEPT ![m] = @ + 1]       \* IncomingPacket
  /\ UNCHANGED <<plan, sending, sent, sendLock, box, worker, client, machine,
                 posted, got>>

SendDone(m) ==
  /\ sending[m] > 0
  /\ sending' = [sending EXCEPT ![m] = @ - 1]
  /\ sent' = [sent EXCEPT ![m] = @ + 1]                 \* PacketSent
  /\ UNCHANGED <<plan, wire, inbox, available, sendLock, box, worker, client,
                 machine, posted, got>>

Interrupt(m) == machine[m] = "up" /\ (CheckPktAvail(m) \/ SendDone(m))
-----------------------------------------------------------------------------
(* PostOffice::Send                                                        *)

AcquireSend(c) ==
  /\ client[c].at = "call"
  /\ Operation(c).op = "send"
  /\ IF plan.locks
     THEN sendLock[Home(c)] = NoMail /\ sendLock' = [sendLock EXCEPT ![Home(c)] = c]
     ELSE UNCHANGED sendLock
  /\ Go(c, "send")
  /\ UNCHANGED <<plan, wire, inbox, sending, available, sent, box, worker,
                 machine, posted, got>>

\* Network::Send: the completion interrupt is scheduled whether or not the
\* packet is lost.  sendBusy is only ever cleared, so its ASSERT holds.
NetworkSend(c) ==
  LET mail == Mail(c, Operation(c))
  IN  /\ client[c].at = "send"
      /\ sending' = [sending EXCEPT ![Home(c)] = @ + 1]
      /\ \/ /\ wire' = [wire EXCEPT ![mail.to] = Append(@, mail)]
            /\ posted' = [posted EXCEPT ![mail.to] = Append(@, mail)]
         \/ plan.lossy /\ UNCHANGED <<wire, posted>>
      /\ Go(c, "sent")
      /\ UNCHANGED <<plan, inbox, available, sent, sendLock, box, worker,
                     machine, got>>

(* Mutant: Send does not wait for the interrupt. *)
AwaitSentNot(c) ==
  /\ client[c].at = "sent"
  /\ Go(c, "unlock send")
  /\ UNCHANGED <<plan, wire, inbox, sending, available, sent, sendLock, box,
                 worker, machine, posted, got>>
AwaitSent(c) ==
  /\ client[c].at = "sent"
  /\ sent[Home(c)] > 0
  /\ sent' = [sent EXCEPT ![Home(c)] = @ - 1]
  /\ Go(c, "unlock send")
  /\ UNCHANGED <<plan, wire, inbox, sending, available, sendLock, box, worker,
                 machine, posted, got>>

ReleaseSend(c) ==
  /\ client[c].at = "unlock send"
  /\ sendLock' = IF plan.locks THEN [sendLock EXCEPT ![Home(c)] = NoMail]
                 ELSE sendLock
  /\ Return(c, client[c].mail)
  /\ UNCHANGED <<plan, wire, inbox, sending, available, sent, box, worker,
                 posted, got>>
-----------------------------------------------------------------------------
(* PostOffice::Receive, MailBox::Get and SynchList::Remove                 *)

BoxOf(c) == box[Home(c)][Operation(c).box]
SetBox(c, b) == box' = [box EXCEPT ![Home(c)][Operation(c).box] = b]

\* list->Remove and what MailBox::Get copies out.
Take(c) ==
  /\ got' = [got EXCEPT ![Home(c)][Operation(c).box] =
               Append(@, Head(BoxOf(c).list))]
  /\ SetBox(c, [BoxOf(c) EXCEPT !.list = Tail(@)])

AcquireBox(c) ==
  /\ \/ client[c].at = "call" /\ Operation(c).op = "receive"
     \/ client[c].at = "woken"                \* inside Condition::Wait
  /\ plan.locks
  /\ BoxOf(c).lock = NoMail
  /\ SetBox(c, [BoxOf(c) EXCEPT !.lock = c])
  /\ Go(c, "look")
  /\ UNCHANGED <<plan, wire, inbox, sending, available, sent, sendLock, worker,
                 machine, posted, got>>

\* The list is empty: Wait releases the lock and sleeps in one step.
WaitForMail(c) ==
  /\ client[c].at = "look"
  /\ BoxOf(c).list = <<>>
  /\ SetBox(c, [BoxOf(c) EXCEPT !.lock = NoMail, !.waiters = Append(@, c)])
  /\ Go(c, "asleep")
  /\ UNCHANGED <<plan, wire, inbox, sending, available, sent, sendLock, worker,
                 machine, posted, got>>

RemoveMail(c) ==
  /\ client[c].at = "look"
  /\ BoxOf(c).list # <<>>
  /\ Take(c)
  /\ client' = [client EXCEPT ![c].at = "unlock", ![c].mail = Head(BoxOf(c).list)]
  /\ UNCHANGED <<plan, wire, inbox, sending, available, sent, sendLock, worker,
                 machine, posted>>

ReleaseBox(c) ==
  /\ client[c].at = "unlock"
  /\ SetBox(c, [BoxOf(c) EXCEPT !.lock = NoMail])
  /\ Return(c, client[c].mail)
  /\ UNCHANGED <<plan, wire, inbox, sending, available, sent, sendLock, worker,
                 posted, got>>

\* With dummy locks Remove is one step, and stops the machine on an empty list.
RemoveDummy(c) ==
  /\ client[c].at = "call" /\ Operation(c).op = "receive"
  /\ ~ plan.locks
  /\ IF BoxOf(c).list = <<>>
     THEN /\ machine' = [machine EXCEPT ![Home(c)] = "aborted"]
          /\ UNCHANGED <<box, client, got>>
     ELSE Take(c) /\ Return(c, Head(BoxOf(c).list))
  /\ UNCHANGED <<plan, wire, inbox, sending, available, sent, sendLock, worker,
                 posted>>

Client(c) ==
  /\ machine[Home(c)] = "up"
  /\ \/ AcquireSend(c) \/ NetworkSend(c) \/ AwaitSent(c) \/ ReleaseSend(c)
     \/ AcquireBox(c) \/ WaitForMail(c) \/ RemoveMail(c) \/ ReleaseBox(c)
     \/ RemoveDummy(c)
-----------------------------------------------------------------------------
(* PostOffice::PostalDelivery, MailBox::Put and SynchList::Append          *)

Worker(m, at, mail) == worker' = [worker EXCEPT ![m] = [at |-> at, mail |-> mail]]
Target(m) == box[m][worker[m].mail.box]
SetTarget(m, b) == box' = [box EXCEPT ![m][worker[m].mail.box] = b]

AwaitMessage(m) ==
  /\ worker[m].at = "wait"
  /\ available[m] > 0
  /\ available' = [available EXCEPT ![m] = @ - 1]
  /\ Worker(m, "fetch", NoMail)
  /\ UNCHANGED <<plan, wire, inbox, sending, sent, sendLock, box, client,
                 machine, posted, got>>

\* Network::Receive: the device's buffer is free again.
NetworkReceive(m) ==
  /\ worker[m].at = "fetch"
  /\ Worker(m, "put", inbox[m])
  /\ inbox' = [inbox EXCEPT ![m] = NoMail]
  /\ UNCHANGED <<plan, wire, sending, available, sent, sendLock, box, client,
                 machine, posted, got>>

AcquireTarget(m) ==
  /\ worker[m].at = "put"
  /\ plan.locks
  /\ Target(m).lock = NoMail
  /\ SetTarget(m, [Target(m) EXCEPT !.lock = "worker"])
  /\ Worker(m, "append", worker[m].mail)
  /\ UNCHANGED <<plan, wire, inbox, sending, available, sent, sendLock, client,
                 machine, posted, got>>

(* Mutant: Append does not signal. *)
AppendMailSilently(m) ==
  /\ worker[m].at = "append"
  /\ SetTarget(m, [Target(m) EXCEPT !.list = Append(@, worker[m].mail)])
  /\ client' = client
  /\ Worker(m, "release", worker[m].mail)
  /\ UNCHANGED <<plan, wire, inbox, sending, available, sent, sendLock,
                 machine, posted, got>>
\* list->Append, and Signal wakes the first waiter if there is one.
AppendMail(m) ==
  /\ worker[m].at = "append"
  /\ LET waiters == Target(m).waiters
         listed == [Target(m) EXCEPT !.list = Append(@, worker[m].mail)]
     IN  IF waiters = <<>>
         THEN SetTarget(m, listed) /\ client' = client
         ELSE /\ SetTarget(m, [listed EXCEPT !.waiters = Tail(@)])
              /\ client' = [client EXCEPT ![Head(waiters)].at = "woken"]
  /\ Worker(m, "release", worker[m].mail)
  /\ UNCHANGED <<plan, wire, inbox, sending, available, sent, sendLock,
                 machine, posted, got>>

ReleaseTarget(m) ==
  /\ worker[m].at = "release"
  /\ SetTarget(m, [Target(m) EXCEPT !.lock = NoMail])
  /\ Worker(m, "wait", NoMail)
  /\ UNCHANGED <<plan, wire, inbox, sending, available, sent, sendLock, client,
                 machine, posted, got>>

PutDummy(m) ==
  /\ worker[m].at = "put"
  /\ ~ plan.locks
  /\ SetTarget(m, [Target(m) EXCEPT !.list = Append(@, worker[m].mail)])
  /\ Worker(m, "wait", NoMail)
  /\ UNCHANGED <<plan, wire, inbox, sending, available, sent, sendLock, client,
                 machine, posted, got>>

PostalDelivery(m) ==
  /\ machine[m] = "up"
  /\ \/ AwaitMessage(m) \/ NetworkReceive(m) \/ AcquireTarget(m)
     \/ AppendMail(m) \/ ReleaseTarget(m) \/ PutDummy(m)
-----------------------------------------------------------------------------
PostNext ==
  \/ \E m \in Machines : Interrupt(m) \/ PostalDelivery(m)
  \/ \E c \in Clients : Client(c)
-----------------------------------------------------------------------------
\* The mail for mailbox b among the mail of a sequence, in its order.
ForBox(mails, b) ==
  LET pick[i \in 0 .. Len(mails)] ==
        IF i = 0 THEN <<>>
        ELSE IF mails[i].box = b THEN Append(pick[i - 1], mails[i]) ELSE pick[i - 1]
  IN  pick[Len(mails)]

\* What is on its way to the mailboxes of machine m, the first to arrive first.
Held(m) == IF worker[m].at \in {"put", "append"} THEN <<worker[m].mail>> ELSE <<>>
Buffered(m) == IF inbox[m] = NoMail THEN <<>> ELSE <<inbox[m]>>
Coming(m) == Held(m) \o Buffered(m) \o wire[m]

\* Mail that the network did not lose reaches its mailbox once and in the
\* order it was sent: what reached a machine's socket is what was received,
\* is listed, is in the postal worker's hands, is in the device's buffer or
\* is still in the socket, in this order and in full.
MailOnce ==
  \A m \in Machines, b \in Boxes :
    ForBox(posted[m], b) = got[m][b] \o box[m][b].list \o ForBox(Coming(m), b)

\* The network device is given one packet at a time by PostOffice::Send,
\* which returns only after the interrupt for its own packet.
SendsPaced ==
  plan.locks =>
    \A m \in Machines :
      /\ sending[m] + sent[m] =
           Cardinality({c \in Clients : Home(c) = m /\ client[c].at = "sent"})
      /\ sending[m] + sent[m] <= 1

\* On a network that loses nothing every client gets all its mail: the
\* exchange of MailTest ends on both machines.
EveryoneDone ==
  /\ \E c \in Clients : client[c].at # "call"
  /\ plan.locks /\ ~ plan.lossy
  ~> \A c \in Clients : client[c].at = "done"
=============================================================================
