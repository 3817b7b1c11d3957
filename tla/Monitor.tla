------------------------------- MODULE Monitor -------------------------------
(***************************************************************************)
(* What threads/synch.h promises of semaphores, locks and condition        *)
(* variables, with no queues and no scheduler: every operation takes       *)
(* effect at once, and a thread that must wait has just not done it yet.   *)
(*                                                                         *)
(*   P          waits until value > 0, then subtracts one                  *)
(*   Acquire    waits until the lock is free, then makes it busy           *)
(*   Wait       releases the lock and starts waiting in one step; it is    *)
(*              over when the thread was woken and has the lock again      *)
(*   Signal     wakes one waiter if there is one; Broadcast wakes all      *)
(***************************************************************************)
EXTENDS Integers

CONSTANTS Thread, NULL, Sem, Lock, Cond, InitialValue

VARIABLES
  value,    \* of each semaphore
  owner,    \* the thread that has a lock, or NULL
  waiters,  \* the threads that wait for each condition
  pledged   \* the lock a thread must have again before its Wait returns

monitorVars == <<value, owner, waiters, pledged>>

MonitorInit ==
  /\ value = InitialValue
  /\ owner = [l \in Lock |-> NULL]
  /\ waiters = [c \in Cond |-> {}]
  /\ pledged = [t \in Thread |-> NULL]

DoP(s) ==
  /\ value[s] > 0
  /\ value' = [value EXCEPT ![s] = @ - 1]
  /\ UNCHANGED <<owner, waiters, pledged>>

DoV(s) ==
  /\ value' = [value EXCEPT ![s] = @ + 1]
  /\ UNCHANGED <<owner, waiters, pledged>>

(* Acquire, and the end of Wait: a thread in Wait takes only the lock it has
   to have again, and only after it was woken.                              *)
DoAcquire(t, l) ==
  /\ owner[l] = NULL
  /\ pledged[t] \in {NULL, l}
  /\ \A c \in Cond : t \notin waiters[c]
  /\ owner' = [owner EXCEPT ![l] = t]
  /\ pledged' = [pledged EXCEPT ![t] = NULL]
  /\ UNCHANGED <<value, waiters>>

DoRelease(t, l) ==
  /\ owner[l] = t
  /\ pledged[t] = NULL
  /\ owner' = [owner EXCEPT ![l] = NULL]
  /\ UNCHANGED <<value, waiters, pledged>>

DoWait(t, c, l) ==
  /\ owner[l] = t
  /\ pledged[t] = NULL
  /\ owner' = [owner EXCEPT ![l] = NULL]
  /\ waiters' = [waiters EXCEPT ![c] = @ \cup {t}]
  /\ pledged' = [pledged EXCEPT ![t] = l]
  /\ UNCHANGED value

DoSignal(c) ==
  /\ \E t \in waiters[c] : waiters' = [waiters EXCEPT ![c] = @ \ {t}]
  /\ UNCHANGED <<value, owner, pledged>>

DoBroadcast(c) ==
  /\ waiters' = [waiters EXCEPT ![c] = {}]
  /\ UNCHANGED <<value, owner, pledged>>

MonitorNext ==
  \/ \E s \in Sem : DoP(s) \/ DoV(s)
  \/ \E t \in Thread, l \in Lock : DoAcquire(t, l) \/ DoRelease(t, l)
  \/ \E t \in Thread, c \in Cond, l \in Lock : DoWait(t, c, l)
  \/ \E c \in Cond : DoSignal(c) \/ DoBroadcast(c)

MonitorSpec == MonitorInit /\ [][MonitorNext]_monitorVars
=============================================================================
