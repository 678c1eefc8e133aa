-------------------------- MODULE ProducerConsumer --------------------------
(***************************************************************************)
(* The producer/consumer programs of concurrency/threads-cv: the state of  *)
(* pc-header.h, main() of main-common.c, and producer() and consumer().    *)
(* Every thread follows the same protocol around the shared ring,          *)
(*                                                                         *)
(*   Mutex_lock; test [Cond_wait]; do_fill or do_get; Cond_signal;         *)
(*   Mutex_unlock                                                          *)
(*                                                                         *)
(* and three of the four programs are instances of it:                     *)
(*   main-two-cvs-while.c   fill_cv # empty_cv, after_wait = "test"        *)
(*   main-one-cv-while.c    fill_cv = empty_cv, after_wait = "test"        *)
(*   main-two-cvs-if.c      fill_cv # empty_cv, after_wait = "op"          *)
(* TwoCvsExtraUnlock builds the fourth on this module.                     *)
(***************************************************************************)
EXTENDS Integers, FiniteSets

CONSTANTS
  producers,    \* -p: number of producer threads
  consumers,    \* -c: number of consumer threads
  loops,        \* -l: number of items each producer produces
  max,          \* -m: number of slots of the ring
  fill_cv,      \* the condition variable consumers wait on
  empty_cv,     \* the condition variable producers and main wait on
  after_wait,   \* what follows a Cond_wait of a producer or a consumer: the
                \* test again (while) or the operation (if)
  MaxSpurious   \* bound: wake-ups of Cond_wait that no signal caused

\* main() asserts loops > 0 and max > 0 and puts only an upper bound on the
\* numbers of threads.
ASSUME ArgsAssumption ==
  /\ producers \in Nat /\ consumers \in Nat
  /\ loops \in Nat \ {0} /\ max \in Nat \ {0}
  /\ after_wait \in {"test", "op"}
  /\ MaxSpurious \in Nat

EMPTY         == -2
END_OF_STREAM == -1

\* Thread ids are those main() hands out; main() itself is thread -1.
Main     == -1
Producer == 0 .. producers - 1
Consumer == producers .. producers + consumers - 1
Filler   == Producer \cup {Main}
Thread   == Filler \cup Consumer
Slot     == 0 .. max - 1
Cv       == {fill_cv, empty_cv}
Item     == 0 .. producers * loops - 1

VARIABLES
  buffer, use_ptr, fill_ptr, num_full,  \* the ring
  m,               \* the threads that hold the mutex m: none or one
  waiting,         \* for each condition variable, the threads asleep on it
  pc,              \* where each thread is
  i,               \* loop counter of each producer and of main()
  tmp,             \* what each consumer took last
  consumed_count,  \* how many entries each consumer took
  status,          \* "running", "exited" or, after ensure(), "failed"
  spurious,        \* wake-ups without a signal so far
  taken            \* history: the items consumers have taken

ring   == <<buffer, use_ptr, fill_ptr, num_full>>
locals == <<i, tmp, consumed_count, taken>>
vars   == <<ring, m, waiting, pc, locals, status, spurious>>

Init ==
  /\ buffer = [s \in Slot |-> EMPTY]
  /\ use_ptr = 0 /\ fill_ptr = 0 /\ num_full = 0
  /\ m = {}
  /\ waiting = [cv \in Cv |-> {}]
  /\ pc = [t \in Thread |-> IF t = Main THEN "create" ELSE "unborn"]
  /\ i = [t \in Filler |-> 0]
  /\ tmp = [c \in Consumer |-> 0]
  /\ consumed_count = [c \in Consumer |-> 0]
  /\ status = "running" /\ spurious = 0 /\ taken = {}

Goto(t, from, to) == pc[t] = from /\ pc' = [pc EXCEPT ![t] = to]

-----------------------------------------------------------------------------
(* The wrappers of common_threads.h.                                       *)

Mutex_lock_unguarded(t) == m' = {t}
Mutex_lock(t)   == m = {} /\ m' = {t}
Mutex_unlock(t) == m = {t} /\ m' = {}

\* Cond_wait gives the mutex up and falls asleep in one step.
Cond_wait(t, cv) ==
  /\ Mutex_unlock(t)
  /\ waiting' = [waiting EXCEPT ![cv] = @ \cup {t}]

Cond_signal_none(cv) == UNCHANGED waiting
Cond_signal(cv) ==
  \/ waiting[cv] = {} /\ UNCHANGED waiting
  \/ \E t \in waiting[cv] : waiting' = [waiting EXCEPT ![cv] = @ \ {t}]

\* POSIX lets Cond_wait return although nobody signalled.
SpuriousWakeup(t) ==
  /\ spurious < MaxSpurious
  /\ \E cv \in Cv : t \in waiting[cv] /\ waiting' = [waiting EXCEPT ![cv] = @ \ {t}]
  /\ spurious' = spurious + 1
  /\ UNCHANGED <<ring, m, pc, locals, status>>

-----------------------------------------------------------------------------
(* The ring.                                                               *)

\* The slot after slot p.
Succ_nowrap(p) == p + 1
Succ(p) == (p + 1) % max

\* The value thread t stores: id * loops + i, or the end-of-stream marker.
ValueOf_nobase(t) == IF t = Main THEN END_OF_STREAM ELSE i[t]
ValueOf_idfrom1(t) == IF t = Main THEN END_OF_STREAM ELSE (t + 1) * loops + i[t]
ValueOf(t) == IF t = Main THEN END_OF_STREAM ELSE t * loops + i[t]

do_fill(value) ==
  \/ /\ buffer[fill_ptr] # EMPTY
     /\ status' = "failed"
     /\ UNCHANGED ring
  \/ /\ buffer[fill_ptr] = EMPTY
     /\ buffer' = [buffer EXCEPT ![fill_ptr] = value]
     /\ fill_ptr' = Succ(fill_ptr)
     /\ num_full' = num_full + 1
     /\ UNCHANGED <<use_ptr, status>>

do_get(c) ==
  \/ /\ buffer[use_ptr] = EMPTY
     /\ status' = "failed"
     /\ UNCHANGED <<ring, tmp, taken>>
  \/ /\ buffer[use_ptr] # EMPTY
     /\ tmp' = [tmp EXCEPT ![c] = buffer[use_ptr]]
     /\ taken' = taken \cup ({buffer[use_ptr]} \ {END_OF_STREAM})
     /\ buffer' = [buffer EXCEPT ![use_ptr] = EMPTY]
     /\ use_ptr' = Succ(use_ptr)
     /\ num_full' = num_full - 1
     /\ UNCHANGED <<fill_ptr, status>>

-----------------------------------------------------------------------------
(* The protocol around the ring.  Every thread that is at "test", "op",    *)
(* "signal" or "unlock" holds the mutex.                                   *)

MustWait_late(t) == IF t \in Consumer THEN num_full = 0 ELSE num_full = max + 1
MustWait(t) == IF t \in Consumer THEN num_full = 0 ELSE num_full = max
WaitCv(t)   == IF t \in Consumer THEN fill_cv ELSE empty_cv
SignalCv_own(t) == WaitCv(t)
SignalCv(t) == IF t \in Consumer THEN empty_cv ELSE fill_cv

Lock(t) ==
  /\ t = Main => i[Main] < consumers
  /\ Goto(t, "lock", "test")
  /\ Mutex_lock(t)
  /\ UNCHANGED <<ring, waiting, locals, status, spurious>>

Sleep(t) ==
  /\ MustWait(t)
  /\ Goto(t, "test", "asleep")
  /\ Cond_wait(t, WaitCv(t))
  /\ UNCHANGED <<ring, locals, status, spurious>>

Pass(t) ==
  /\ ~MustWait(t)
  /\ Goto(t, "test", "op")
  /\ UNCHANGED <<ring, m, waiting, locals, status, spurious>>

\* Cond_wait returns once the thread is awake and has the mutex again.  In
\* main-common.c, main() always tests again.
Wake(t) ==
  /\ \A cv \in Cv : t \notin waiting[cv]
  /\ Goto(t, "asleep", IF t = Main THEN "test" ELSE after_wait)
  /\ Mutex_lock(t)
  /\ UNCHANGED <<ring, waiting, locals, status, spurious>>

Fill(t) ==
  /\ Goto(t, "op", "signal")
  /\ do_fill(ValueOf(t))
  /\ UNCHANGED <<m, waiting, locals, spurious>>

Get(c) ==
  /\ Goto(c, "op", "signal")
  /\ do_get(c)
  /\ UNCHANGED <<m, waiting, i, consumed_count, spurious>>

Signal(t) ==
  /\ Goto(t, "signal", "unlock")
  /\ Cond_signal(SignalCv(t))
  /\ UNCHANGED <<ring, m, locals, status, spurious>>

\* Unlocking ends an iteration: the thread goes back to its Mutex_lock or
\* leaves its loop.
ProducerUnlock(p) ==
  /\ Goto(p, "unlock", IF i[p] + 1 < loops THEN "lock" ELSE "done")
  /\ Mutex_unlock(p)
  /\ i' = [i EXCEPT ![p] = @ + 1]
  /\ UNCHANGED <<ring, waiting, tmp, consumed_count, taken, status, spurious>>

LoopContinues_always(c) == TRUE
LoopContinues(c) == tmp[c] # END_OF_STREAM

ConsumerUnlock(c) ==
  /\ Goto(c, "unlock", IF LoopContinues(c) THEN "lock" ELSE "done")
  /\ Mutex_unlock(c)
  /\ consumed_count' = [consumed_count EXCEPT ![c] = @ + 1]
  /\ UNCHANGED <<ring, waiting, i, tmp, taken, status, spurious>>

-----------------------------------------------------------------------------
(* main() of main-common.c: create the threads, join the producers, store  *)
(* one end-of-stream marker per consumer, join the consumers.              *)

\* main() ends its loop of limit iterations at label at and goes on to label
\* next, where i starts from 0 again.
LoopEnd(at, limit, next) ==
  /\ pc[Main] = at /\ i[Main] = limit
  /\ pc' = [pc EXCEPT ![Main] = next]
  /\ i' = [i EXCEPT ![Main] = 0]
  /\ UNCHANGED <<ring, m, waiting, tmp, consumed_count, taken, status, spurious>>

Create ==
  /\ pc[Main] = "create" /\ i[Main] < producers + consumers
  /\ pc' = [pc EXCEPT ![i[Main]] = "lock"]
  /\ i' = [i EXCEPT ![Main] = @ + 1]
  /\ UNCHANGED <<ring, m, waiting, tmp, consumed_count, taken, status, spurious>>

Join_nowait(at, limit, t) ==
  /\ pc[Main] = at /\ i[Main] < limit
  /\ i' = [i EXCEPT ![Main] = @ + 1]
  /\ UNCHANGED <<ring, m, waiting, pc, tmp, consumed_count, taken, status, spurious>>
Join(at, limit, t) ==
  /\ pc[Main] = at /\ i[Main] < limit /\ pc[t] = "done"
  /\ i' = [i EXCEPT ![Main] = @ + 1]
  /\ UNCHANGED <<ring, m, waiting, pc, tmp, consumed_count, taken, status, spurious>>

MainUnlock ==
  /\ Goto(Main, "unlock", "lock")
  /\ Mutex_unlock(Main)
  /\ i' = [i EXCEPT ![Main] = @ + 1]
  /\ UNCHANGED <<ring, waiting, tmp, consumed_count, taken, status, spurious>>

MainLoopEnd ==
  \/ LoopEnd("create", producers + consumers, "join_producers")
  \/ LoopEnd("join_producers", producers, "lock")
  \/ LoopEnd("lock", consumers, "join_consumers")

JoinProducer == Join("join_producers", producers, i[Main])
JoinConsumer == Join("join_consumers", consumers, producers + i[Main])

Exit ==
  /\ pc[Main] = "join_consumers" /\ i[Main] = consumers
  /\ status' = "exited"
  /\ UNCHANGED <<ring, m, waiting, pc, locals, spurious>>

\* What main() does besides the protocol, which it follows as every other
\* thread that fills the ring.
MainStep == Create \/ MainLoopEnd \/ JoinProducer \/ MainUnlock \/ JoinConsumer \/ Exit

-----------------------------------------------------------------------------
(* The threads.                                                            *)

\* One step of the producer p.
producer(p) ==
  \/ Lock(p) \/ Sleep(p) \/ Wake(p) \/ Pass(p)
  \/ Fill(p) \/ Signal(p) \/ ProducerUnlock(p)

\* One step of the consumer c.
consumer(c) ==
  \/ Lock(c) \/ Sleep(c) \/ Wake(c) \/ Pass(c)
  \/ Get(c) \/ Signal(c) \/ ConsumerUnlock(c)

\* One step of main().
main ==
  \/ Lock(Main) \/ Sleep(Main) \/ Wake(Main) \/ Pass(Main)
  \/ Fill(Main) \/ Signal(Main) \/ MainStep

Step(t) ==
  \/ t \in Producer /\ producer(t)
  \/ t \in Consumer /\ consumer(t)
  \/ t = Main /\ main

Next ==
  /\ status = "running"
  /\ \E t \in Thread : Step(t) \/ SpuriousWakeup(t)

Spec == Init /\ [][Next]_vars

\* The scheduler runs every thread that stays able to run.
FairSpec == Spec /\ \A t \in Thread : WF_vars(status = "running" /\ Step(t))

-----------------------------------------------------------------------------
(* Properties.                                                             *)

Label == {"create", "join_producers", "join_consumers", "unborn", "done",
          "lock", "test", "asleep", "op", "signal", "unlock"}

\* Every variable has its type, and in particular the pointers stay in the
\* ring and the count between 0 and max.
TypeOK ==
  /\ buffer \in [Slot -> Item \cup {EMPTY, END_OF_STREAM}]
  /\ use_ptr \in Slot /\ fill_ptr \in Slot /\ num_full \in 0 .. max
  /\ m \in SUBSET Thread
  /\ waiting \in [Cv -> SUBSET Thread]
  /\ pc \in [Thread -> Label]
  /\ i \in [Filler -> Nat]
  /\ tmp \in [Consumer -> Item \cup {0, END_OF_STREAM}]
  /\ consumed_count \in [Consumer -> Nat]
  /\ status \in {"running", "exited", "failed"}
  /\ spurious \in 0 .. MaxSpurious
  /\ taken \in SUBSET Item

\* The ring is what num_full and the two pointers say it is: the num_full
\* slots from use_ptr on hold values, all others are empty, and fill_ptr is
\* the first slot after them (pc-header.h: "counts how many entries are full").
RingConsistent ==
  /\ fill_ptr = (use_ptr + num_full) % max
  /\ \A k \in Slot : (buffer[(use_ptr + k) % max] # EMPTY) <=> (k < num_full)

\* ensure() never ends the program: no thread fills a slot that is in use or
\* takes from an empty one.
NoEnsureFailure == status # "failed"

\* Thread t can do nothing until another thread has done something.
Blocked(t) ==
  \/ pc[t] \in {"unborn", "done"}
  \/ pc[t] = "lock" /\ m # {} /\ (t = Main => i[Main] < consumers)
  \/ pc[t] = "asleep" /\ (m # {} \/ \E cv \in Cv : t \in waiting[cv])
  \/ pc[t] = "join_producers" /\ i[t] < producers /\ pc[i[t]] # "done"
  \/ pc[t] = "join_consumers" /\ i[t] < consumers /\ pc[producers + i[t]] # "done"

\* As long as the program runs some thread can take a step: no wake-up gets
\* lost in a way that leaves every thread waiting for another.
NeverStuck == status = "running" => \E t \in Thread : ~Blocked(t)

\* When main() returns the consumers have taken every item that producers
\* were to produce, and nothing is left in the ring.
ExitComplete == status = "exited" => taken = Item /\ num_full = 0

\* main() returns, that is, all producers and all consumers end.
Termination == <>(status = "exited")

-----------------------------------------------------------------------------
(* The program implements StreamQueue: the queue is the part of the ring   *)
(* that is in use; an item counts as sent, and a marker as stored, from    *)
(* its do_fill on, two steps before the thread counts it in i.             *)

Filled(t) == i[t] + (IF pc[t] \in {"signal", "unlock"} THEN 1 ELSE 0)

SQ == INSTANCE StreamQueue WITH
  queue <- [k \in 1 .. num_full |-> buffer[(use_ptr + k - 1) % max]],
  sent  <- [p \in Producer |-> Filled(p)],
  eos   <- CASE pc[Main] \in {"create", "join_producers"} -> 0
             [] pc[Main] = "join_consumers"               -> consumers
             [] OTHER                                     -> Filled(Main)

\* No item comes behind an end-of-stream marker in the ring.
EosLast == SQ!EosLast

\* Every marker main() stored is still in the ring or has ended one consumer
\* of its own.
OneMarkerPerConsumer == SQ!OneMarkerPerConsumer

\* Every step of a thread is a step of the queue or changes nothing of it:
\* entries leave the ring in the order they entered it, and the markers come
\* after all items.
ImplementsQueue == SQ!SSpec

\* With the fairness of FairSpec the queue keeps moving as well.
ImplementsFairQueue == SQ!SFairSpec
=============================================================================
