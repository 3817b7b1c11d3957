------------------------------ MODULE Devices ------------------------------
(***************************************************************************)
(* The simulated hardware and the code that waits for it: the interrupt    *)
(* queue and the clock (machine/interrupt.cc), the time-slice timer        *)
(* (machine/timer.cc), the console with the echo loop of ConsoleTest       *)
(* (machine/console.cc, userprog/progtest.cc) and the disk with its        *)
(* track buffer under SynchDisk (machine/disk.cc, filesys/synchdisk.cc).   *)
(*                                                                         *)
(* Time is kept relative to stats->totalTicks, so that the module needs no *)
(* bound on it: a pending interrupt holds the ticks left until its "when", *)
(* dial is totalTicks modulo one revolution of the disk, and bufferInit is *)
(* kept as its place on the dial and the ticks passed since, counted up to *)
(* one revolution (beyond which ComputeLatency gives the same answer).     *)
(*                                                                         *)
(* A step of a thread is one kernel call.  Inside it interrupts are off;   *)
(* it ends by sleeping or by turning them on, which is a tick of the       *)
(* clock: the steps CheckIfDue take until nothing more is due.             *)
(***************************************************************************)
EXTENDS Integers, Sequences, FiniteSets, SequencesExt, FiniteSetsExt

CONSTANTS SystemTick, ConsoleTime, TimerTicks, RotationTime, SeekTime,
          SectorsPerTrack, NumTracks,
          EOF,          \* (char)EOF, the mark of an empty console buffer
          Setups,       \* what main() starts: [threads, timer, typed]
          Requests,     \* sector requests each disk thread makes
          Nobody

ASSUME TimesAssumption ==
  /\ {SystemTick, ConsoleTime, TimerTicks, RotationTime, SeekTime,
      SectorsPerTrack, NumTracks} \subseteq Nat \ {0}
ASSUME SetupsAssumption ==
  \A s \in Setups : Nobody \notin s.threads /\ s.typed \in Seq(ToSet(s.typed))

VARIABLES
  setup,      \* the threads, whether there is a timer, what will be typed
  pending,    \* Interrupt::pending: [type, left], soonest first
  phase,      \* "run", "due" in OneTick, "idle" in Idle, "halted", "aborted"
  yieldOnReturn,
  dial,
  disk,       \* active, lastSector, writing, bufferAt, bufferAge
  console,    \* incoming, putBusy
  keyboard, screen,   \* what is still to be read, what was written
  sem,        \* the semaphores of SynchDisk and of ConsoleTest
  lock,       \* SynchDisk::lock
  ready, current,
  returning,  \* threads that turn interrupts on when they next run
  pc, left

devices == <<disk, console, keyboard, screen>>
kernel == <<sem, lock, ready, current, returning, pc, left>>
vars == <<setup, pending, phase, yieldOnReturn, dial, devices, kernel>>

Revolution == RotationTime * SectorsPerTrack
Sectors == 0 .. NumTracks * SectorsPerTrack - 1
\* sets of threads by program: the echo loop and the users of the disk
DiskThreads == setup.threads \ {"echo"}
Insert(queue, p) ==
  LET later == {i \in DOMAIN queue : p.left < queue[i].left}
  IN  InsertAt(queue, IF later = {} THEN Len(queue) + 1 ELSE Min(later), p)
-----------------------------------------------------------------------------
(* machine/interrupt.cc                                                    *)

\* Schedule: no caller passes a time that its ASSERT on fromNow refuses.
Schedule(queue, type, fromNow) ==
  Insert(queue, [type |-> type, left |-> fromNow])

\* The clock moves by k ticks.
Elapse(k, queue) ==
  /\ pending' = [i \in DOMAIN queue |-> [queue[i] EXCEPT !.left = @ - k]]
  /\ dial' = (dial + k) % Revolution

Aged(d, k) == [d EXCEPT !.bufferAge = Min({@ + k, Revolution})]

\* Semaphore::V as the interrupt handlers call it.
V(s) ==
  LET asleep == sem[s].queue
  IN  /\ sem' = [sem EXCEPT ![s].value = @ + 1,
                            ![s].queue = IF asleep = <<>> THEN asleep
                                         ELSE Tail(asleep)]
      /\ ready' = IF asleep = <<>> THEN ready ELSE Append(ready, Head(asleep))
NoV == UNCHANGED <<sem, ready>>

(* The handlers.  Each is given the queue without its own interrupt.       *)

TimerExpired(queue, k) ==
  /\ \E d \in 1 .. 2 * TimerTicks :
       Elapse(k, Schedule(queue, "timer", k + d))
  /\ yieldOnReturn' = TRUE
  /\ NoV
  /\ disk' = Aged(disk, k)
  /\ UNCHANGED <<console, keyboard, screen>>

(* Mutant: the poll reads a character over one not yet fetched. *)
CheckCharAvailAlways(queue, k) ==
  /\ Elapse(k, Schedule(queue, "read", k + ConsoleTime))
  /\ \/ NoV /\ UNCHANGED <<console, keyboard>>
     \/ /\ keyboard # <<>>
        /\ console' = [console EXCEPT !.incoming = Head(keyboard)]
        /\ keyboard' = Tail(keyboard)
        /\ V("readAvail")
  /\ disk' = Aged(disk, k)
  /\ UNCHANGED <<yieldOnReturn, screen>>
CheckCharAvail(queue, k) ==
  /\ Elapse(k, Schedule(queue, "read", k + ConsoleTime))
  /\ \/ NoV /\ UNCHANGED <<console, keyboard>>    \* buffered, or none typed yet
     \/ /\ console.incoming = EOF
        /\ keyboard # <<>>
        /\ console' = [console EXCEPT !.incoming = Head(keyboard)]
        /\ keyboard' = Tail(keyboard)
        /\ V("readAvail")
  /\ disk' = Aged(disk, k)
  /\ UNCHANGED <<yieldOnReturn, screen>>

WriteDone(queue, k) ==
  /\ Elapse(k, queue)
  /\ console' = [console EXCEPT !.putBusy = FALSE]
  /\ V("writeDone")
  /\ disk' = Aged(disk, k)
  /\ UNCHANGED <<yieldOnReturn, keyboard, screen>>

HandleInterrupt(queue, k) ==
  /\ Elapse(k, queue)
  /\ disk' = [Aged(disk, k) EXCEPT !.active = FALSE]
  /\ V("disk")
  /\ UNCHANGED <<yieldOnReturn, console, keyboard, screen>>

\* The head of the queue is taken off and its handler is run, k ticks on.
Fire(k) ==
  LET rest == Tail(pending)
  IN  CASE Head(pending).type = "timer" -> TimerExpired(rest, k)
        [] Head(pending).type = "read"  -> CheckCharAvail(rest, k)
        [] Head(pending).type = "write" -> WriteDone(rest, k)
        [] Head(pending).type = "disk"  -> HandleInterrupt(rest, k)

(* Mutant: an interrupt whose time has just come is put back. *)
DueLate == pending # <<>> /\ Head(pending).left < 0
Due == pending # <<>> /\ Head(pending).left <= 0

\* "not time yet, put it back": behind those that are due at the same tick.
PutBack == IF pending = <<>> THEN pending
           ELSE Insert(Tail(pending), Head(pending))

\* Nothing is left to happen but time slices, and the machine is idle.
(* Mutant: a timer at the head is enough to stop. *)
OnlyTimerFirst == pending # <<>> /\ Head(pending).type = "timer"
OnlyTimer == Len(pending) = 1 /\ Head(pending).type = "timer"

\* The thread that is running turns interrupts on: OneTick.
Tick(queue) ==
  /\ Elapse(SystemTick, queue)
  /\ disk' = Aged(disk, SystemTick)
  /\ phase' = "due"

\* while (CheckIfDue(FALSE)) in OneTick
CheckIfDue ==
  /\ phase = "due"
  /\ Due
  /\ Fire(0)
  /\ UNCHANGED <<setup, phase, lock, current, returning, pc, left>>

\* The scheduler gives the processor to the first ready thread, which either
\* goes on inside the call it slept in or turns interrupts on.
Dispatch(list, back, queue) ==
  IF list = <<>>
  THEN /\ current' = Nobody /\ ready' = list /\ phase' = "idle"
       /\ returning' = back
       /\ pending' = queue
       /\ UNCHANGED <<dial, disk>>
  ELSE /\ current' = Head(list)
       /\ ready' = Tail(list)
       /\ returning' = back \ {Head(list)}
       /\ IF Head(list) \in back THEN Tick(queue)
          ELSE phase' = "run" /\ pending' = queue /\ UNCHANGED <<dial, disk>>

\* OneTick found nothing more due.  With yieldOnReturn it calls Yield, which
\* turns interrupts on again when this thread comes back from it.
OneTickDone ==
  /\ phase = "due"
  /\ ~ Due
  /\ IF yieldOnReturn
     THEN /\ yieldOnReturn' = FALSE
          /\ IF ready = <<>>
             THEN Tick(PutBack) /\ UNCHANGED <<ready, current, returning>>
             ELSE Dispatch(Append(ready, current), returning \cup {current},
                           PutBack)
     ELSE /\ pending' = PutBack
          /\ phase' = "run"
          /\ UNCHANGED <<yieldOnReturn, dial, disk, ready, current, returning>>
  /\ UNCHANGED <<setup, console, keyboard, screen, sem, lock, pc, left>>

\* Idle is called while nobody is ready.  CheckIfDue(TRUE) rolls the clock
\* on to the next interrupt unless only the timer is left; the others that
\* are due are fired too, save a timer that is then the only one left.
Idle ==
  /\ phase = "idle"
  /\ IF pending = <<>> \/ OnlyTimer
     THEN /\ phase' = "halted"
          /\ UNCHANGED <<pending, yieldOnReturn, dial, devices, sem, ready>>
     ELSE /\ Fire(Max({0, Head(pending).left}))
          /\ phase' = "fired"
  /\ UNCHANGED <<setup, lock, current, returning, pc, left>>

IdleMore ==
  /\ phase = "fired"
  /\ Due /\ ~ OnlyTimer
  /\ Fire(0)
  /\ UNCHANGED <<setup, phase, lock, current, returning, pc, left>>

IdleDone ==
  /\ phase = "fired"
  /\ ~ Due \/ OnlyTimer
  /\ yieldOnReturn' = FALSE
  /\ Dispatch(ready, returning, PutBack)
  /\ UNCHANGED <<setup, console, keyboard, screen, sem, lock, pc, left>>
-----------------------------------------------------------------------------
(* machine/disk.cc                                                         *)

TimeToSeek(newSector) ==
  LET track(s) == s \div SectorsPerTrack
      distance == track(newSector) - track(disk.lastSector)
  IN  SeekTime * (IF distance < 0 THEN -distance ELSE distance)

\* "how long until the head is at the next sector boundary"
Rotation(seek) ==
  LET over == (dial + seek) % RotationTime
  IN  IF over > 0 THEN RotationTime - over ELSE 0

ModuloDiff(to, from) ==
  ((to % SectorsPerTrack) - (from % SectorsPerTrack) + SectorsPerTrack)
     % SectorsPerTrack

(* Mutant: a sector that has only begun to pass the head is in the buffer. *)
ComputeLatencyEager(newSector, writing) ==
  LET seek == TimeToSeek(newSector)
      rotation == Rotation(seek)
      timeAfter == dial + seek + rotation
      loaded == (disk.bufferAge + rotation) \div RotationTime
  IN  IF /\ ~ writing
         /\ seek = 0
         /\ loaded >= ModuloDiff(newSector, disk.bufferAt \div RotationTime)
      THEN RotationTime
      ELSE seek + rotation + RotationTime
             + ModuloDiff(newSector, timeAfter \div RotationTime) * RotationTime
ComputeLatency(newSector, writing) ==
  LET seek == TimeToSeek(newSector)
      rotation == Rotation(seek)
      timeAfter == dial + seek + rotation
      loaded == (disk.bufferAge + rotation) \div RotationTime
  IN  IF /\ ~ writing                     \* the track buffer applies
         /\ seek = 0
         /\ loaded > ModuloDiff(newSector, disk.bufferAt \div RotationTime)
      THEN RotationTime
      ELSE seek + rotation + RotationTime
             + ModuloDiff(newSector, timeAfter \div RotationTime) * RotationTime

\* UpdateLast: a seek empties the track buffer.
UpdateLast(newSector) ==
  LET seek == TimeToSeek(newSector)
      until == seek + Rotation(seek)
  IN  IF seek = 0 THEN [disk EXCEPT !.lastSector = newSector]
      ELSE [disk EXCEPT !.lastSector = newSector, !.bufferAge = -until,
                        !.bufferAt = (dial + until) % Revolution]

\* ReadRequest and WriteRequest of a thread that holds SynchDisk's lock.
Request(t) ==
  /\ pc[t] = "request"
  /\ IF disk.active
     THEN phase' = "aborted" /\ UNCHANGED <<pending, disk, pc>>
     ELSE \E sectorNumber \in Sectors, writing \in BOOLEAN :
            LET ticks == ComputeLatency(sectorNumber, writing)
            IN  /\ pending' = Schedule(pending, "disk", ticks)
                /\ disk' = [UpdateLast(sectorNumber) EXCEPT
                              !.active = TRUE, !.writing = writing]
                /\ pc' = [pc EXCEPT ![t] = "wait"]
                /\ phase' = IF ticks > 0 THEN phase ELSE "aborted"
  /\ UNCHANGED <<setup, yieldOnReturn, dial, console, keyboard, screen, sem,
                 lock, ready, current, returning, left>>
-----------------------------------------------------------------------------
(* Sleeping and waking                                                     *)

\* Semaphore::P: sleep while the value is 0, and take one; then go on at "to".
P(t, s, to) ==
  /\ IF sem[s].value = 0
     THEN /\ sem' = [sem EXCEPT ![s].queue = Append(@, t)]
          /\ Dispatch(ready, returning, pending)
          /\ pc' = pc
     ELSE /\ sem' = [sem EXCEPT ![s].value = @ - 1]
          /\ Tick(pending)
          /\ pc' = [pc EXCEPT ![t] = to]
          /\ UNCHANGED <<ready, current, returning>>
  /\ UNCHANGED <<setup, yieldOnReturn, console, keyboard, screen, lock, left>>

(* Mutant: the lock is a dummy, as in the builds without THREADS. *)
AcquireDummy(t) ==
  /\ pc[t] = "acquire"
  /\ pc' = [pc EXCEPT ![t] = "request"]
  /\ Tick(pending)
  /\ UNCHANGED <<setup, yieldOnReturn, console, keyboard, screen, sem, lock,
                 ready, current, returning, left>>
Acquire(t) ==
  /\ pc[t] = "acquire"
  /\ IF lock.holder # Nobody
     THEN /\ lock' = [lock EXCEPT !.queue = Append(@, t)]
          /\ Dispatch(ready, returning, pending)
          /\ pc' = pc
     ELSE /\ lock' = [lock EXCEPT !.holder = t]
          /\ pc' = [pc EXCEPT ![t] = "request"]
          /\ Tick(pending)
          /\ UNCHANGED <<ready, current, returning>>
  /\ UNCHANGED <<setup, yieldOnReturn, console, keyboard, screen, sem, left>>

\* semaphore->P() of ReadSector and WriteSector
AwaitDisk(t) == pc[t] = "wait" /\ P(t, "disk", "release")

Release(t) ==
  /\ pc[t] = "release"
  /\ lock' = [holder |-> Nobody,
              queue |-> IF lock.queue = <<>> THEN <<>> ELSE Tail(lock.queue)]
  /\ ready' = IF lock.queue = <<>> THEN ready
              ELSE Append(ready, Head(lock.queue))
  /\ left' = [left EXCEPT ![t] = @ - 1]
  /\ pc' = [pc EXCEPT ![t] = IF left[t] = 1 THEN "finish" ELSE "acquire"]
  /\ Tick(pending)
  /\ UNCHANGED <<setup, yieldOnReturn, console, keyboard, screen, sem, current,
                 returning>>

Finish(t) ==
  /\ pc[t] = "finish"
  /\ pc' = [pc EXCEPT ![t] = "finished"]
  /\ Dispatch(ready, returning, pending)
  /\ UNCHANGED <<setup, yieldOnReturn, console, keyboard, screen, sem, lock,
                 left>>
-----------------------------------------------------------------------------
(* ConsoleTest                                                             *)

AwaitChar(t) == pc[t] = "read" /\ P(t, "readAvail", "put")

\* GetChar and PutChar, with nothing in between
Echo(t) ==
  /\ pc[t] = "put"
  /\ IF console.putBusy
     THEN phase' = "aborted" /\ UNCHANGED <<pending, console, screen, pc>>
     ELSE /\ screen' = Append(screen, console.incoming)
          /\ console' = [incoming |-> EOF, putBusy |-> TRUE]
          /\ pending' = Schedule(pending, "write", ConsoleTime)
          /\ pc' = [pc EXCEPT ![t] = "written"]
          /\ phase' = phase
  /\ UNCHANGED <<setup, yieldOnReturn, dial, disk, keyboard, sem, lock, ready,
                 current, returning, left>>

AwaitWrite(t) == pc[t] = "written" /\ P(t, "writeDone", "next")

\* "if q, quit": main() then halts the machine
Quit(t) ==
  /\ pc[t] = "next"
  /\ IF Last(screen) = "q"
     THEN phase' = "halted" /\ pc' = [pc EXCEPT ![t] = "finished"]
     ELSE phase' = phase /\ pc' = [pc EXCEPT ![t] = "read"]
  /\ UNCHANGED <<setup, pending, yieldOnReturn, dial, devices, sem, lock, ready,
                 current, returning, left>>
-----------------------------------------------------------------------------
Init ==
  /\ setup \in Setups
  /\ \E d \in 1 .. 2 * TimerTicks :
       pending = LET poll == IF "echo" \in setup.threads
                             THEN Schedule(<<>>, "read", ConsoleTime)
                             ELSE <<>>
                 IN  IF setup.timer THEN Schedule(poll, "timer", d) ELSE poll
  /\ phase = "idle"
  /\ yieldOnReturn = FALSE
  /\ dial = 0
  /\ disk = [active |-> FALSE, lastSector |-> 0, writing |-> FALSE,
             bufferAt |-> 0, bufferAge |-> 0]
  /\ console = [incoming |-> EOF, putBusy |-> FALSE]
  /\ keyboard = setup.typed
  /\ screen = <<>>
  /\ sem = [s \in {"disk", "readAvail", "writeDone"} |->
              [value |-> 0, queue |-> <<>>]]
  /\ lock = [holder |-> Nobody, queue |-> <<>>]
  /\ ready = SetToSeq(setup.threads)
  /\ current = Nobody
  /\ returning = setup.threads
  /\ pc = [t \in setup.threads |-> IF t = "echo" THEN "read" ELSE "acquire"]
  /\ left = [t \in setup.threads |-> Requests]

\* main() has forked the threads and gives up the processor.
Start ==
  /\ phase = "idle" /\ ready # <<>>
  /\ Dispatch(ready, returning, pending)
  /\ UNCHANGED <<setup, yieldOnReturn, console, keyboard, screen, sem, lock, pc,
                 left>>

Run(t) ==
  /\ phase = "run"
  /\ current = t
  /\ \/ Acquire(t) \/ Request(t) \/ AwaitDisk(t) \/ Release(t) \/ Finish(t)
     \/ AwaitChar(t) \/ Echo(t) \/ AwaitWrite(t) \/ Quit(t)

Next ==
  \/ Start \/ CheckIfDue \/ OneTickDone \/ IdleMore \/ IdleDone
  \/ ready = <<>> /\ Idle
  \/ \E t \in setup.threads : Run(t)

\* A time slice longer than the tick that follows it
LongSlice ==
  /\ CheckIfDue
  /\ Head(pending).type = "timer"
  /\ \A i \in DOMAIN pending' :
       pending'[i].type = "timer" => pending'[i].left > SystemTick

\* The simulator goes on executing until the machine halts, and Random() does
\* not draw the shortest time slices for ever.
Spec == Init /\ [][Next]_vars /\ WF_vars(Next) /\ SF_vars(LongSlice)
-----------------------------------------------------------------------------
\* The interrupt queue and the devices agree.  It is sorted; the disk and the
\* console's output are busy exactly while one completion of theirs is
\* pending, the keyboard poll and the timer never run out or run twice; while
\* a thread is running nothing is overdue, except a time slice that the idle
\* loop put back because it was the only interrupt left; and no ASSERT of Schedule,
\* ReadRequest, WriteRequest or PutChar fails.
PendingExact ==
  LET count(type) == Cardinality({i \in DOMAIN pending : pending[i].type = type})
      one(b) == IF b THEN 1 ELSE 0
  IN  /\ \A i, j \in DOMAIN pending : i < j => pending[i].left <= pending[j].left
      /\ count("disk") = one(disk.active)
      /\ count("write") = one(console.putBusy)
      /\ count("read") = one("echo" \in setup.threads)
      /\ count("timer") = one(setup.timer)
      /\ phase = "run" =>
           \A i \in DOMAIN pending :
             pending[i].left > 0 \/ pending[i].type = "timer"
      /\ phase # "aborted"

\* ReadSector and WriteSector return to the thread whose request is done: the
\* disk works for the holder of SynchDisk's lock, which waits for it, and no
\* completion is left over for the next request to take for its own.
CompletionIsOwn ==
  /\ \A t \in DiskThreads :
       /\ pc[t] \in {"request", "wait", "release"} <=> lock.holder = t
       /\ pc[t] \in {"request", "release"} =>
            ~ disk.active /\ sem["disk"].value = 0
       /\ pc[t] = "wait" => disk.active \/ sem["disk"].value = 1
  /\ disk.active => lock.holder # Nobody /\ sem["disk"].value = 0

\* A request takes as long as the hardware needs: before it completes, the
\* whole of its sector passes under the head, for a write after the seek and
\* for a read at any time since the head has been on the track, which is what
\* the track buffer remembers.
LatencySound ==
  [][~ disk.active /\ disk'.active =>
       LET done == CHOOSE n \in {pending'[i].left : i \in
                         {j \in DOMAIN pending' : pending'[j].type = "disk"}} : TRUE
           from == IF disk'.writing THEN TimeToSeek(disk'.lastSector)
                   ELSE -disk'.bufferAge
       IN  \E s \in from .. done - RotationTime :
             (dial + s + Revolution) % Revolution =
               RotationTime * (disk'.lastSector % SectorsPerTrack)]_vars

\* The console's echo loop shows what was typed, each character once and in
\* order, none skipped while the screen was busy.  (A typed character that
\* equals (char)EOF is taken for an empty buffer and can be overwritten.)
EchoExact ==
  EOF \notin ToSet(setup.typed) =>
    setup.typed = screen
                    \o (IF console.incoming = EOF THEN <<>> ELSE <<console.incoming>>)
                    \o keyboard

\* Every sector request of every thread is eventually served, whatever the
\* timer does, and the machine stops only then; a character in the console's
\* buffer is eventually echoed, unless a "q" before it ended the echo loop.
EverythingServed ==
  /\ (DiskThreads # {}) ~> (/\ phase = "halted"
                            /\ \A t \in DiskThreads : pc[t] = "finished")
  /\ (console.incoming # EOF) ~> (console.incoming = EOF \/ phase = "halted")
=============================================================================
