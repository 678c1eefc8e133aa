----------------------- MODULE ProducerConsumerProofs -----------------------
(***************************************************************************)
(* Safety of the producer/consumer programs for every number of threads,   *)
(* items and slots.  In all of them the ring stays consistent; in those    *)
(* that test again after a Cond_wait, ensure() never fails, because a      *)
(* thread that reaches do_fill or do_get has held the mutex since it saw   *)
(* room, or an entry, in the ring.  With one producer and one consumer one *)
(* test is enough, as long as no wake-up is spurious, because nobody else  *)
(* can come between a signal and the thread it wakes.  Programs in which   *)
(* ensure() holds implement StreamQueue, so that what StreamQueueProofs    *)
(* shows of the markers holds of them, and main() returns with every item  *)
(* taken and counted.  With two condition variables, or with one producer  *)
(* and one consumer, they lose no wake-up, and so never deadlock.  None of *)
(* the three runs for ever, because every step brings the work that is     *)
(* left down.                                                              *)
(***************************************************************************)
EXTENDS MCProducerConsumer, FiniteSetTheorems, SequenceTheorems,
        RecursionTheorems, WellFoundedInduction, TLAPS

Held == {"test", "op", "signal", "unlock"}

\* Between Mutex_lock and Mutex_unlock, and outside Cond_wait, a thread is
\* the only one that holds the mutex.
MutexHeld == \A t \in Thread : pc[t] \in Held => m = {t}

\* The threads that always test the ring right before they use it.
TestsAgain(t) == t = Main \/ after_wait = "test"

\* Nothing has changed num_full since such a thread tested it.
Tested == \A t \in Thread : pc[t] = "op" /\ TestsAgain(t) => ~MustWait(t)

\* A producer that has not returned has an item left to produce.
ItemsLeft == \A p \in Producer : pc[p] # "done" => i[p] < loops

\* main() creates the threads in the order of their ids.
NotYetCreated ==
  pc[Main] = "create" => \A t \in Thread : t >= i[Main] => pc[t] = "unborn"

EnsureSound == after_wait = "test" => NoEnsureFailure

IInv ==
  /\ TypeOK
  /\ MutexHeld
  /\ Tested
  /\ ItemsLeft
  /\ NotYetCreated
  /\ RingConsistent
  /\ EnsureSound

-----------------------------------------------------------------------------
(* Arithmetic of the ring.                                                 *)

\* Distinct offsets below n from one place lead to distinct places.
LEMMA OffsetInjective ==
  ASSUME NEW n \in Nat \ {0}, NEW a \in 0 .. n - 1,
         NEW j \in 0 .. n - 1, NEW k \in 0 .. n - 1, (a + j) % n = (a + k) % n
  PROVE  j = k
  OBVIOUS

\* Offset k from the next place is offset k + 1 from this one.
LEMMA OffsetFromNext ==
  ASSUME NEW n \in Nat \ {0}, NEW a \in 0 .. n - 1, NEW k \in 0 .. n - 1
  PROVE  (((a + 1) % n) + k) % n = (a + k + 1) % n
  OBVIOUS

\* The offset n leads back to where it started.
LEMMA OffsetAround ==
  ASSUME NEW n \in Nat \ {0}, NEW a \in 0 .. n - 1
  PROVE  (a + n) % n = a
  OBVIOUS

LEMMA OffsetNext ==
  ASSUME NEW n \in Nat \ {0}, NEW a \in 0 .. 2 * n - 1
  PROVE  ((a % n) + 1) % n = (a + 1) % n
  OBVIOUS

\* Producer p's items lie among all items.
LEMMA ItemBound ==
  ASSUME NEW a \in Nat, NEW b \in Nat, NEW p \in 0 .. a - 1, NEW k \in 0 .. b - 1
  PROVE  p * b + k \in 0 .. a * b - 1
<1>1. (a - p) * b >= b
  OBVIOUS
<1>2. a * b >= p * b + b /\ p * b >= 0
  BY <1>1
<1> QED BY <1>2

-----------------------------------------------------------------------------
(* The invariant is inductive.                                             *)

LEMMA ThreadTypes ==
  /\ Producer \subseteq Filler /\ Main \in Filler
  /\ Filler \subseteq Thread /\ Consumer \subseteq Thread
  /\ Filler \cap Consumer = {} /\ Main \notin Producer
  /\ Thread = Filler \cup Consumer /\ Filler = Producer \cup {Main}
BY ArgsAssumption DEF Main, Producer, Consumer, Filler, Thread

LEMMA InitInv == Init => IInv
<1> SUFFICES ASSUME Init PROVE IInv
  OBVIOUS
<1>1. TypeOK
  BY ArgsAssumption DEF Init, TypeOK, Slot, Item, Label
<1>2. MutexHeld /\ Tested /\ ItemsLeft /\ NotYetCreated
  BY ThreadTypes, ArgsAssumption
     DEF Init, MutexHeld, Held, Tested, ItemsLeft, NotYetCreated, Filler, Thread, Main
<1>3. RingConsistent
  <2>1. ASSUME NEW k \in Slot PROVE (use_ptr + k) % max \in Slot
    BY ArgsAssumption DEF Init, Slot
  <2> QED BY <2>1, ArgsAssumption DEF Init, RingConsistent, Slot
<1> QED BY <1>1, <1>2, <1>3 DEF IInv, Init, EnsureSound, NoEnsureFailure

\* A step that leaves the ring and status alone.
LEMMA RingQuiet ==
  ASSUME IInv, UNCHANGED ring, UNCHANGED status
  PROVE  RingConsistent' /\ EnsureSound'
BY DEF IInv, RingConsistent, EnsureSound, NoEnsureFailure, ring

\* do_fill finds its slot empty unless the ring is full.
LEMMA FillSlot ==
  ASSUME TypeOK, RingConsistent
  PROVE  (buffer[fill_ptr] = EMPTY) <=> (num_full # max)
<1> USE ArgsAssumption
<1>1. use_ptr \in Slot /\ fill_ptr = (use_ptr + num_full) % max /\ num_full \in 0 .. max
  BY DEF TypeOK, RingConsistent
<1>2. CASE num_full = max
  <2>1. fill_ptr = use_ptr /\ (use_ptr + 0) % max = use_ptr /\ 0 \in Slot
    BY <1>1, <1>2, OffsetAround DEF Slot
  <2> QED BY <1>2, <2>1 DEF RingConsistent
<1>3. CASE num_full # max
  <2>1. num_full \in Slot
    BY <1>1, <1>3 DEF Slot
  <2> QED BY <1>1, <1>3, <2>1 DEF RingConsistent
<1> QED BY <1>2, <1>3

\* do_get finds an entry in its slot unless the ring is empty.
LEMMA GetSlot ==
  ASSUME TypeOK, RingConsistent
  PROVE  (buffer[use_ptr] # EMPTY) <=> (num_full # 0)
<1>1. use_ptr \in Slot /\ num_full \in 0 .. max
  BY DEF TypeOK
<1>2. (use_ptr + 0) % max = use_ptr /\ 0 \in Slot
  BY <1>1, ArgsAssumption DEF Slot
<1> QED BY <1>1, <1>2 DEF RingConsistent

\* The operation leaves the mutex and the counters alone, whatever it does.
LEMMA AfterOperation ==
  ASSUME IInv, NEW t \in Thread, Goto(t, "op", "signal"), UNCHANGED <<m, i>>
  PROVE  MutexHeld' /\ Tested' /\ ItemsLeft' /\ NotYetCreated'
<1> USE ThreadTypes
<1>1. /\ TypeOK /\ MutexHeld /\ Tested /\ ItemsLeft /\ NotYetCreated
      /\ pc[t] = "op" /\ pc' = [pc EXCEPT ![t] = "signal"] /\ UNCHANGED <<m, i>>
  BY DEF IInv, Goto
<1>2. MutexHeld'
  BY <1>1 DEF MutexHeld, Held, TypeOK
<1>3. \A u \in Thread : pc'[u] # "op"
  BY <1>1 DEF MutexHeld, Held, TypeOK
<1>4. Tested'
  BY <1>3 DEF Tested
<1>5. ItemsLeft' /\ NotYetCreated'
  BY <1>1 DEF ItemsLeft, NotYetCreated, TypeOK
<1> QED BY <1>2, <1>4, <1>5

\* do_fill: either ensure() fails, which takes a thread that did not test, or
\* one more slot is in use.
LEMMA FillStep ==
  ASSUME IInv, NEW t \in Filler, Fill(t)
  PROVE  IInv'
<1> USE ThreadTypes, ArgsAssumption
<1>1. /\ TypeOK /\ Tested /\ ItemsLeft /\ RingConsistent /\ EnsureSound
      /\ t \in Thread /\ t \notin Consumer
      /\ pc[t] = "op" /\ pc' = [pc EXCEPT ![t] = "signal"]
      /\ UNCHANGED <<m, waiting, i, tmp, consumed_count, taken, spurious>>
  BY DEF IInv, Fill, Goto, locals
<1>2. MutexHeld' /\ Tested' /\ ItemsLeft' /\ NotYetCreated'
  BY <1>1, AfterOperation DEF Fill
<1>3. CASE buffer[fill_ptr] # EMPTY
  <2>1. status' = "failed" /\ UNCHANGED ring
    BY <1>3 DEF Fill, do_fill
  <2>2. UNCHANGED <<buffer, use_ptr, fill_ptr, num_full>>
    BY <2>1 DEF ring
  <2>3. after_wait # "test"
    BY <1>1, <1>3, FillSlot DEF Tested, TestsAgain, MustWait
  <2>4. TypeOK' /\ RingConsistent' /\ EnsureSound'
    BY <1>1, <2>1, <2>2, <2>3 DEF TypeOK, Label, RingConsistent, EnsureSound
  <2> QED BY <1>2, <2>4 DEF IInv
<1>4. CASE buffer[fill_ptr] = EMPTY
  <2>1. num_full \in 0 .. max - 1
    BY <1>1, <1>4, FillSlot DEF TypeOK
  <2>2. fill_ptr \in Slot /\ use_ptr \in Slot /\ fill_ptr = (use_ptr + num_full) % max
    BY <1>1 DEF TypeOK, RingConsistent
  <2>3. /\ buffer' = [buffer EXCEPT ![fill_ptr] = ValueOf(t)]
        /\ fill_ptr' = Succ(fill_ptr)
        /\ num_full' = num_full + 1
        /\ UNCHANGED <<use_ptr, status>>
    BY <1>4 DEF Fill, do_fill
  <2>4. ValueOf(t) \in Item \cup {END_OF_STREAM} /\ ValueOf(t) # EMPTY
    <3>1. CASE t = Main
      BY <3>1 DEF ValueOf, END_OF_STREAM, EMPTY
    <3>2. CASE t \in Producer
      <4>1. i[t] \in 0 .. loops - 1
        BY <1>1, <3>2 DEF ItemsLeft, TypeOK
      <4>2. t * loops + i[t] \in Item
        BY <4>1, <3>2, ItemBound DEF Producer, Item
      <4> QED BY <4>2, <3>2 DEF ValueOf, Item, EMPTY
    <3> QED BY <3>1, <3>2
  <2>5. Succ(fill_ptr) \in Slot /\ Succ(fill_ptr) = (use_ptr + (num_full + 1)) % max
    <3>1. use_ptr + num_full \in 0 .. 2 * max - 1
      BY <2>1, <2>2 DEF Slot
    <3>2. (((use_ptr + num_full) % max) + 1) % max = (use_ptr + num_full + 1) % max
      BY <3>1, OffsetNext
    <3>3. use_ptr + num_full + 1 = use_ptr + (num_full + 1)
      BY <2>1, <2>2 DEF Slot
    <3>4. Succ(fill_ptr) \in Slot
      BY <2>2 DEF Succ, Slot
    <3> QED BY <2>2, <3>2, <3>3, <3>4 DEF Succ
  <2>6. TypeOK'
    BY <1>1, <2>1, <2>2, <2>3, <2>4, <2>5 DEF TypeOK, Label
  <2>7. RingConsistent'
    <3> SUFFICES ASSUME NEW k \in Slot
                 PROVE  (buffer'[(use_ptr + k) % max] # EMPTY) <=> (k < num_full + 1)
      BY <2>3, <2>5 DEF RingConsistent
    <3>1. (use_ptr + k) % max \in Slot
      BY <2>2 DEF Slot
    <3>2. CASE k = num_full
      BY <3>2, <1>1, <2>1, <2>2, <2>3, <2>4 DEF TypeOK
    <3>3. CASE k # num_full
      <4>1. (use_ptr + k) % max # fill_ptr
        BY <3>3, <2>1, <2>2, OffsetInjective DEF Slot
      <4>2. buffer'[(use_ptr + k) % max] = buffer[(use_ptr + k) % max]
        BY <4>1, <3>1, <1>1, <2>3 DEF TypeOK
      <4> QED BY <4>2, <3>3, <1>1, <2>1 DEF RingConsistent, Slot
    <3> QED BY <3>2, <3>3
  <2> QED BY <1>1, <1>2, <2>3, <2>6, <2>7 DEF IInv, EnsureSound, NoEnsureFailure
<1> QED BY <1>3, <1>4

\* do_get: either ensure() fails, which takes a thread that did not test, or
\* one slot less is in use.
LEMMA GetStep ==
  ASSUME IInv, NEW c \in Consumer, Get(c)
  PROVE  IInv'
<1> USE ThreadTypes, ArgsAssumption
<1>1. /\ TypeOK /\ Tested /\ RingConsistent /\ EnsureSound
      /\ c \in Thread
      /\ pc[c] = "op" /\ pc' = [pc EXCEPT ![c] = "signal"]
      /\ UNCHANGED <<m, waiting, i, consumed_count, spurious>>
  BY DEF IInv, Get, Goto
<1>2. MutexHeld' /\ Tested' /\ ItemsLeft' /\ NotYetCreated'
  BY <1>1, AfterOperation DEF Get
<1>3. CASE buffer[use_ptr] = EMPTY
  <2>1. status' = "failed" /\ UNCHANGED <<ring, tmp, taken>>
    BY <1>3 DEF Get, do_get
  <2>2. UNCHANGED <<buffer, use_ptr, fill_ptr, num_full>>
    BY <2>1 DEF ring
  <2>3. after_wait # "test"
    BY <1>1, <1>3, GetSlot DEF Tested, TestsAgain, MustWait
  <2>4. TypeOK' /\ RingConsistent' /\ EnsureSound'
    BY <1>1, <2>1, <2>2, <2>3 DEF TypeOK, Label, RingConsistent, EnsureSound
  <2> QED BY <1>2, <2>4 DEF IInv
<1>4. CASE buffer[use_ptr] # EMPTY
  <2>1. num_full \in 1 .. max
    BY <1>1, <1>4, GetSlot DEF TypeOK
  <2>2. use_ptr \in Slot /\ fill_ptr = (use_ptr + num_full) % max
    BY <1>1 DEF TypeOK, RingConsistent
  <2>3. (use_ptr + 0) % max = use_ptr /\ 0 \in Slot
    BY <2>2 DEF Slot
  <2>4. /\ tmp' = [tmp EXCEPT ![c] = buffer[use_ptr]]
        /\ taken' = taken \cup ({buffer[use_ptr]} \ {END_OF_STREAM})
        /\ buffer' = [buffer EXCEPT ![use_ptr] = EMPTY]
        /\ use_ptr' = Succ(use_ptr)
        /\ num_full' = num_full - 1
        /\ UNCHANGED <<fill_ptr, status>>
    BY <1>4 DEF Get, do_get
  <2>5. buffer[use_ptr] \in Item \cup {END_OF_STREAM}
    BY <1>1, <1>4, <2>2 DEF TypeOK
  <2>6. Succ(use_ptr) \in Slot
    BY <2>2 DEF Succ, Slot
  <2>7. TypeOK'
    BY <1>1, <2>1, <2>2, <2>4, <2>5, <2>6 DEF TypeOK, Label
  <2>8. RingConsistent'
    <3>1. fill_ptr = (Succ(use_ptr) + (num_full - 1)) % max
      BY <2>1, <2>2, OffsetFromNext DEF Succ, Slot
    <3> SUFFICES ASSUME NEW k \in Slot
                 PROVE  (buffer'[(Succ(use_ptr) + k) % max] # EMPTY) <=> (k < num_full - 1)
      BY <3>1, <2>4 DEF RingConsistent
    <3>2. (Succ(use_ptr) + k) % max = (use_ptr + (k + 1)) % max
      BY <2>2, OffsetFromNext DEF Succ, Slot
    <3>3. CASE k + 1 = max
      <4>1. (use_ptr + (k + 1)) % max = use_ptr
        BY <3>3, <2>2, OffsetAround DEF Slot
      <4>2. buffer'[use_ptr] = EMPTY
        BY <1>1, <2>2, <2>4 DEF TypeOK
      <4> QED BY <4>1, <4>2, <3>2, <3>3, <2>1 DEF Slot
    <3>4. CASE k + 1 # max
      <4>1. k + 1 \in Slot /\ (use_ptr + (k + 1)) % max \in Slot
        BY <3>4, <2>2 DEF Slot
      <4>2. (use_ptr + (k + 1)) % max # use_ptr
        BY <4>1, <2>2, <2>3, OffsetInjective DEF Slot
      <4>3. buffer'[(use_ptr + (k + 1)) % max] = buffer[(use_ptr + (k + 1)) % max]
        BY <4>1, <4>2, <1>1, <2>4 DEF TypeOK
      <4> QED BY <4>1, <4>3, <3>2, <1>1, <2>1 DEF RingConsistent, Slot
    <3> QED BY <3>3, <3>4
  <2> QED BY <1>1, <1>2, <2>4, <2>7, <2>8 DEF IInv, EnsureSound, NoEnsureFailure
<1> QED BY <1>3, <1>4

\* Every other step leaves the ring alone.
LEMMA QuietStep ==
  ASSUME IInv, UNCHANGED ring, UNCHANGED status,
         TypeOK', MutexHeld', Tested', ItemsLeft', NotYetCreated'
  PROVE  IInv'
BY RingQuiet DEF IInv

LEMMA ProtocolStep ==
  ASSUME IInv, NEW t \in Thread,
         \/ Lock(t) \/ Sleep(t) \/ Wake(t) \/ Pass(t) \/ Signal(t)
         \/ SpuriousWakeup(t)
  PROVE  IInv'
<1> USE ThreadTypes, ArgsAssumption
<1>1. TypeOK /\ MutexHeld /\ Tested /\ ItemsLeft /\ NotYetCreated
  BY DEF IInv
<1>2. UNCHANGED ring /\ UNCHANGED status /\ UNCHANGED <<i, tmp, consumed_count, taken>>
  BY DEF Lock, Sleep, Wake, Pass, Signal, SpuriousWakeup, locals
<1>3. UNCHANGED <<buffer, use_ptr, fill_ptr, num_full>>
  BY <1>2 DEF ring
<1>4. CASE Lock(t)
  <2>1. pc[t] = "lock" /\ pc' = [pc EXCEPT ![t] = "test"] /\ m = {} /\ m' = {t}
        /\ UNCHANGED <<waiting, spurious>>
    BY <1>4 DEF Lock, Goto, Mutex_lock
  <2>2. TypeOK'
    BY <1>1, <1>2, <1>3, <2>1 DEF TypeOK, Label
  <2>3. MutexHeld' /\ Tested'
    BY <1>1, <1>3, <2>1 DEF MutexHeld, Tested, Held, TypeOK
  <2>4. ItemsLeft' /\ NotYetCreated'
    BY <1>1, <1>2, <2>1 DEF ItemsLeft, NotYetCreated, TypeOK
  <2> QED BY <1>2, <2>2, <2>3, <2>4, QuietStep
<1>5. CASE Sleep(t)
  <2>1. pc[t] = "test" /\ pc' = [pc EXCEPT ![t] = "asleep"] /\ m = {t} /\ m' = {}
        /\ waiting' = [waiting EXCEPT ![WaitCv(t)] = @ \cup {t}]
        /\ UNCHANGED spurious
    BY <1>5 DEF Sleep, Goto, Cond_wait, Mutex_unlock
  <2>2. TypeOK'
    BY <1>1, <1>2, <1>3, <2>1 DEF TypeOK, Label, WaitCv, Cv
  <2>3. MutexHeld' /\ Tested'
    BY <1>1, <1>3, <2>1 DEF MutexHeld, Tested, Held, TypeOK
  <2>4. ItemsLeft' /\ NotYetCreated'
    BY <1>1, <1>2, <2>1 DEF ItemsLeft, NotYetCreated, TypeOK
  <2> QED BY <1>2, <2>2, <2>3, <2>4, QuietStep
<1>6. CASE Wake(t)
  <2>1. /\ pc[t] = "asleep" /\ m = {} /\ m' = {t} /\ UNCHANGED <<waiting, spurious>>
        /\ pc' = [pc EXCEPT ![t] = IF t = Main THEN "test" ELSE after_wait]
    BY <1>6 DEF Wake, Goto, Mutex_lock
  <2>2. pc'[t] \in {"test", "op"} /\ (TestsAgain(t) => pc'[t] = "test")
    BY <1>1, <2>1 DEF TestsAgain, TypeOK
  <2>3. TypeOK'
    BY <1>1, <1>2, <1>3, <2>1 DEF TypeOK, Label
  <2>4. MutexHeld' /\ Tested'
    BY <1>1, <1>3, <2>1, <2>2 DEF MutexHeld, Tested, Held, TypeOK
  <2>5. ItemsLeft' /\ NotYetCreated'
    BY <1>1, <1>2, <2>1 DEF ItemsLeft, NotYetCreated, TypeOK
  <2> QED BY <1>2, <2>3, <2>4, <2>5, QuietStep
<1>7. CASE Pass(t)
  <2>1. pc[t] = "test" /\ pc' = [pc EXCEPT ![t] = "op"] /\ ~MustWait(t)
        /\ UNCHANGED <<m, waiting, spurious>>
    BY <1>7 DEF Pass, Goto
  <2>2. TypeOK'
    BY <1>1, <1>2, <1>3, <2>1 DEF TypeOK, Label
  <2>3. MutexHeld'
    BY <1>1, <2>1 DEF MutexHeld, Held, TypeOK
  <2>4. Tested'
    BY <1>1, <1>3, <2>1 DEF Tested, MustWait, TypeOK
  <2>5. ItemsLeft' /\ NotYetCreated'
    BY <1>1, <1>2, <2>1 DEF ItemsLeft, NotYetCreated, TypeOK
  <2> QED BY <1>2, <2>2, <2>3, <2>4, <2>5, QuietStep
<1>8. CASE Signal(t)
  <2>1. pc[t] = "signal" /\ pc' = [pc EXCEPT ![t] = "unlock"]
        /\ UNCHANGED <<m, spurious>>
    BY <1>8 DEF Signal, Goto
  <2>2. waiting' \in [Cv -> SUBSET Thread]
    BY <1>1, <1>8 DEF Signal, Cond_signal, TypeOK
  <2>3. TypeOK'
    BY <1>1, <1>2, <1>3, <2>1, <2>2 DEF TypeOK, Label
  <2>4. MutexHeld' /\ Tested'
    BY <1>1, <1>3, <2>1 DEF MutexHeld, Tested, MustWait, Held, TypeOK
  <2>5. ItemsLeft' /\ NotYetCreated'
    BY <1>1, <1>2, <2>1 DEF ItemsLeft, NotYetCreated, TypeOK
  <2> QED BY <1>2, <2>3, <2>4, <2>5, QuietStep
<1>9. CASE SpuriousWakeup(t)
  <2>1. spurious < MaxSpurious /\ spurious' = spurious + 1 /\ UNCHANGED <<m, pc>>
    BY <1>9 DEF SpuriousWakeup
  <2>2. waiting' \in [Cv -> SUBSET Thread]
    BY <1>1, <1>9 DEF SpuriousWakeup, TypeOK
  <2>3. TypeOK'
    BY <1>1, <1>2, <1>3, <2>1, <2>2 DEF TypeOK
  <2>4. MutexHeld' /\ Tested' /\ ItemsLeft' /\ NotYetCreated'
    BY <1>1, <1>2, <1>3, <2>1 DEF MutexHeld, Tested, MustWait, ItemsLeft, NotYetCreated
  <2> QED BY <1>2, <2>3, <2>4, QuietStep
<1> QED BY <1>4, <1>5, <1>6, <1>7, <1>8, <1>9

\* The steps that end an iteration of a thread's loop.
LEMMA UnlockStep ==
  ASSUME IInv,
         \/ \E p \in Producer : ProducerUnlock(p)
         \/ \E c \in Consumer : ConsumerUnlock(c)
         \/ MainUnlock
  PROVE  IInv'
<1> USE ThreadTypes, ArgsAssumption
<1>1. TypeOK /\ MutexHeld /\ Tested /\ ItemsLeft /\ NotYetCreated
  BY DEF IInv
<1>2. UNCHANGED ring /\ UNCHANGED status /\ UNCHANGED <<waiting, tmp, taken, spurious>>
  BY DEF ProducerUnlock, ConsumerUnlock, MainUnlock
<1>3. UNCHANGED <<buffer, use_ptr, fill_ptr, num_full>>
  BY <1>2 DEF ring
<1>4. ASSUME NEW p \in Producer, ProducerUnlock(p) PROVE IInv'
  <2>1. /\ pc[p] = "unlock" /\ m = {p} /\ m' = {}
        /\ pc' = [pc EXCEPT ![p] = IF i[p] + 1 < loops THEN "lock" ELSE "done"]
        /\ i' = [i EXCEPT ![p] = @ + 1] /\ UNCHANGED consumed_count
    BY <1>4 DEF ProducerUnlock, Goto, Mutex_unlock
  <2>2. TypeOK'
    BY <1>1, <1>2, <1>3, <2>1 DEF TypeOK, Label
  <2>3. \A t \in Thread : pc[t] \notin Held \ {"unlock"} /\ pc'[t] \notin Held
    BY <1>1, <2>1 DEF MutexHeld, Held, TypeOK
  <2>4. MutexHeld' /\ Tested'
    BY <2>3 DEF MutexHeld, Tested, Held
  <2>5. ItemsLeft' /\ NotYetCreated'
    BY <1>1, <2>1 DEF ItemsLeft, NotYetCreated, TypeOK
  <2> QED BY <1>2, <2>2, <2>4, <2>5, QuietStep
<1>5. ASSUME NEW c \in Consumer, ConsumerUnlock(c) PROVE IInv'
  <2>1. /\ pc[c] = "unlock" /\ m = {c} /\ m' = {}
        /\ pc' = [pc EXCEPT ![c] = IF tmp[c] # END_OF_STREAM THEN "lock" ELSE "done"]
        /\ consumed_count' = [consumed_count EXCEPT ![c] = @ + 1] /\ UNCHANGED i
    BY <1>5 DEF ConsumerUnlock, LoopContinues, Goto, Mutex_unlock
  <2>2. TypeOK'
    BY <1>1, <1>2, <1>3, <2>1 DEF TypeOK, Label
  <2>3. \A t \in Thread : pc[t] \notin Held \ {"unlock"} /\ pc'[t] \notin Held
    BY <1>1, <2>1 DEF MutexHeld, Held, TypeOK
  <2>4. MutexHeld' /\ Tested'
    BY <2>3 DEF MutexHeld, Tested, Held
  <2>5. ItemsLeft' /\ NotYetCreated'
    BY <1>1, <2>1 DEF ItemsLeft, NotYetCreated, TypeOK
  <2> QED BY <1>2, <2>2, <2>4, <2>5, QuietStep
<1>6. CASE MainUnlock
  <2>1. /\ pc[Main] = "unlock" /\ m = {Main} /\ m' = {}
        /\ pc' = [pc EXCEPT ![Main] = "lock"]
        /\ i' = [i EXCEPT ![Main] = @ + 1] /\ UNCHANGED consumed_count
    BY <1>6 DEF MainUnlock, Goto, Mutex_unlock
  <2>2. TypeOK'
    BY <1>1, <1>2, <1>3, <2>1 DEF TypeOK, Label
  <2>3. \A t \in Thread : pc[t] \notin Held \ {"unlock"} /\ pc'[t] \notin Held
    BY <1>1, <2>1 DEF MutexHeld, Held, TypeOK
  <2>4. MutexHeld' /\ Tested'
    BY <2>3 DEF MutexHeld, Tested, Held
  <2>5. ItemsLeft' /\ NotYetCreated'
    BY <1>1, <2>1 DEF ItemsLeft, NotYetCreated, TypeOK
  <2> QED BY <1>2, <2>2, <2>4, <2>5, QuietStep
<1> QED BY <1>4, <1>5, <1>6

\* What main() does besides the protocol.
LEMMA MainLoopStep ==
  ASSUME IInv, Create \/ MainLoopEnd \/ JoinProducer \/ JoinConsumer \/ Exit
  PROVE  IInv'
<1> USE ThreadTypes, ArgsAssumption
<1>1. TypeOK /\ MutexHeld /\ Tested /\ ItemsLeft /\ NotYetCreated
  BY DEF IInv
<1>2. /\ UNCHANGED <<buffer, use_ptr, fill_ptr, num_full, m, waiting>>
      /\ UNCHANGED <<tmp, consumed_count, taken, spurious>>
  BY DEF Create, MainLoopEnd, LoopEnd, JoinProducer, JoinConsumer, Join, Exit, ring, locals
<1>3. UNCHANGED ring
  BY <1>2 DEF ring
<1>4. CASE Create
  <2>1. /\ pc[Main] = "create" /\ i[Main] \in 0 .. producers + consumers - 1
        /\ pc' = [pc EXCEPT ![i[Main]] = "lock"]
        /\ i' = [i EXCEPT ![Main] = @ + 1]
        /\ UNCHANGED status
    BY <1>1, <1>4 DEF Create, TypeOK
  <2>2. i[Main] \in Thread /\ i[Main] # Main
    BY <2>1 DEF Thread, Filler, Producer, Consumer, Main
  <2>3. pc[i[Main]] = "unborn"
    BY <1>1, <2>1, <2>2 DEF NotYetCreated
  <2>4. TypeOK'
    <3>1. pc' \in [Thread -> Label]
      BY <1>1, <2>1 DEF TypeOK, Label
    <3>2. i \in [Filler -> Nat] /\ i[Main] + 1 \in Nat
      BY <1>1 DEF TypeOK
    <3>3. i' \in [Filler -> Nat]
      BY <2>1, <3>2
    <3> QED BY <3>1, <3>3, <1>1, <1>2, <2>1 DEF TypeOK
  <2>5. MutexHeld' /\ Tested'
    BY <1>1, <1>2, <2>1 DEF MutexHeld, Tested, MustWait, Held, TypeOK
  <2>6. ItemsLeft'
    BY <1>1, <2>1, <2>3 DEF ItemsLeft, TypeOK
  <2>7. NotYetCreated'
    BY <1>1, <2>1, <2>2 DEF NotYetCreated, TypeOK, Thread, Filler, Producer, Consumer, Main
  <2> QED BY <1>3, <2>1, <2>4, <2>5, <2>6, <2>7, QuietStep
<1>5. CASE MainLoopEnd
  <2>1. /\ \E next \in {"join_producers", "lock", "join_consumers"} :
             pc' = [pc EXCEPT ![Main] = next]
        /\ i' = [i EXCEPT ![Main] = 0]
        /\ UNCHANGED status
    BY <1>5 DEF MainLoopEnd, LoopEnd
  <2>2. TypeOK'
    BY <1>1, <1>2, <2>1 DEF TypeOK, Label
  <2>3. MutexHeld' /\ Tested'
    BY <1>1, <1>2, <2>1 DEF MutexHeld, Tested, MustWait, Held, TypeOK
  <2>4. ItemsLeft' /\ NotYetCreated'
    BY <1>1, <2>1 DEF ItemsLeft, NotYetCreated, TypeOK
  <2> QED BY <1>3, <2>1, <2>2, <2>3, <2>4, QuietStep
<1>6. CASE JoinProducer \/ JoinConsumer
  <2>1. /\ pc[Main] # "create" /\ UNCHANGED <<pc, status>>
        /\ i' = [i EXCEPT ![Main] = @ + 1]
    BY <1>6 DEF JoinProducer, JoinConsumer, Join
  <2>2. TypeOK'
    BY <1>1, <1>2, <2>1 DEF TypeOK
  <2>3. MutexHeld' /\ Tested' /\ ItemsLeft' /\ NotYetCreated'
    BY <1>1, <1>2, <2>1 DEF MutexHeld, Tested, MustWait, ItemsLeft, NotYetCreated, TypeOK
  <2> QED BY <1>3, <2>1, <2>2, <2>3, QuietStep
<1>7. CASE Exit
  <2>1. status' = "exited" /\ UNCHANGED <<pc, i>>
    BY <1>7 DEF Exit, locals
  <2>2. TypeOK' /\ EnsureSound'
    BY <1>1, <1>2, <2>1 DEF TypeOK, EnsureSound, NoEnsureFailure
  <2>3. MutexHeld' /\ Tested' /\ ItemsLeft' /\ NotYetCreated' /\ RingConsistent'
    BY <1>1, <1>2, <2>1
       DEF MutexHeld, Tested, MustWait, ItemsLeft, NotYetCreated, RingConsistent, IInv
  <2> QED BY <2>2, <2>3 DEF IInv
<1> QED BY <1>4, <1>5, <1>6, <1>7

LEMMA StepInv ==
  ASSUME IInv, [Next]_vars
  PROVE  IInv'
<1>1. CASE UNCHANGED vars
  <2>1. UNCHANGED <<buffer, use_ptr, fill_ptr, num_full, m, waiting, pc, i, tmp,
                    consumed_count, taken, status, spurious>>
    BY <1>1 DEF vars, ring, locals
  <2> QED BY <2>1 DEF IInv, TypeOK, MutexHeld, Tested, MustWait, ItemsLeft,
                       NotYetCreated, RingConsistent, EnsureSound, NoEnsureFailure
<1>2. CASE Next
  <2> PICK t \in Thread : Step(t) \/ SpuriousWakeup(t)
    BY <1>2 DEF Next
  <2>1. CASE \/ Lock(t) \/ Sleep(t) \/ Wake(t) \/ Pass(t) \/ Signal(t)
             \/ SpuriousWakeup(t)
    BY <2>1, ProtocolStep
  <2>2. CASE t \in Producer /\ (Fill(t) \/ ProducerUnlock(t))
    BY <2>2, FillStep, UnlockStep, ThreadTypes
  <2>3. CASE t \in Consumer /\ (Get(t) \/ ConsumerUnlock(t))
    BY <2>3, GetStep, UnlockStep
  <2>4. CASE t = Main /\ (Fill(Main) \/ MainStep)
    BY <2>4, FillStep, UnlockStep, MainLoopStep, ThreadTypes DEF MainStep
  <2> QED BY <2>1, <2>2, <2>3, <2>4 DEF Step, producer, consumer, main
<1> QED BY <1>1, <1>2

-----------------------------------------------------------------------------
(* The theorems.                                                           *)

THEOREM Invariance == Spec => []IInv
<1>1. Init => IInv
  BY InitInv
<1>2. IInv /\ [Next]_vars => IInv'
  BY StepInv
<1> QED BY <1>1, <1>2, PTL DEF Spec

\* Every variable keeps its type whatever the arguments, in all three
\* programs: the pointers never leave the ring, num_full never leaves 0 .. max.
THEOREM TypeCorrect == Spec => []TypeOK
<1>1. IInv => TypeOK
  BY DEF IInv
<1> QED BY <1>1, Invariance, PTL

\* The ring is what num_full and the pointers say in every reachable state of
\* all three programs.  Even main-two-cvs-if.c, which uses the ring without
\* a test, is stopped by ensure() before it spoils the ring.
THEOREM RingSafe == Spec => []RingConsistent
<1>1. IInv => RingConsistent
  BY DEF IInv
<1> QED BY <1>1, Invariance, PTL

-----------------------------------------------------------------------------
(* The control of the threads and of main()'s loops.                       *)

\* main() has its own labels.
ThreadLabels ==
  /\ pc[Main] \notin {"unborn", "done"}
  /\ \A t \in Thread \ {Main} : pc[t] \notin {"create", "join_producers", "join_consumers"}

\* A producer returns when it has stored its items.
Returned == \A p \in Producer : pc[p] = "done" => i[p] = loops

\* A consumer returns when it has taken a marker, and then only.
EndsOnMarker ==
  \A c \in Consumer :
    /\ pc[c] \in {"unborn", "lock", "test", "asleep", "op"} => tmp[c] # END_OF_STREAM
    /\ pc[c] = "done" => tmp[c] = END_OF_STREAM

\* How far main() has come, and what it has waited for.
MainProgress ==
  /\ pc[Main] = "create" =>
       /\ i[Main] <= producers + consumers
       /\ \A t \in Thread : t < i[Main] => pc[t] # "unborn"
  /\ pc[Main] # "create" => \A t \in Thread : pc[t] # "unborn"
  /\ pc[Main] = "join_producers" =>
       /\ i[Main] <= producers
       /\ \A p \in Producer : p < i[Main] => pc[p] = "done"
  /\ pc[Main] \notin {"create", "join_producers"} => \A p \in Producer : pc[p] = "done"
  /\ pc[Main] = "lock" => i[Main] <= consumers
  /\ pc[Main] \in Held \cup {"asleep"} => i[Main] < consumers
  /\ pc[Main] = "join_consumers" =>
       /\ i[Main] <= consumers
       /\ \A c \in Consumer : c < producers + i[Main] => pc[c] = "done"
  /\ status = "exited" => pc[Main] = "join_consumers" /\ i[Main] = consumers

CtlInv == IInv /\ ThreadLabels /\ Returned /\ EndsOnMarker /\ MainProgress

LEMMA InitCtl == Init => CtlInv
<1> SUFFICES ASSUME Init PROVE CtlInv
  OBVIOUS
<1> USE ThreadTypes, ArgsAssumption
<1>1. \A t \in Thread \ {Main} : pc[t] = "unborn"
  BY DEF Init
<1>2. pc[Main] = "create" /\ i[Main] = 0 /\ \A t \in Thread : t < 0 => t = Main
  BY DEF Init, Thread, Filler, Producer, Consumer, Main
<1>3. ThreadLabels /\ Returned /\ MainProgress
  BY <1>1, <1>2 DEF ThreadLabels, Returned, MainProgress, Held, Init
<1>4. EndsOnMarker
  BY <1>1 DEF EndsOnMarker, Init, END_OF_STREAM
<1> QED BY <1>3, <1>4, InitInv DEF CtlInv

\* A step of a producer or a consumer that has begun and not returned.
LEMMA OwnStep ==
  ASSUME CtlInv, NEW t \in Thread \ {Main}, pc[t] \notin {"unborn", "done"},
         NEW l \in Label \ {"create", "join_producers", "join_consumers", "unborn"},
         pc' = [pc EXCEPT ![t] = l], i'[Main] = i[Main], status' \in {status, "failed"}
  PROVE  ThreadLabels' /\ MainProgress'
<1>1. /\ pc'[Main] = pc[Main] /\ pc'[t] = l /\ \A u \in Thread \ {t} : pc'[u] = pc[u]
  BY ThreadTypes DEF CtlInv, IInv, TypeOK
<1>2. ThreadLabels'
  BY <1>1 DEF CtlInv, ThreadLabels
<1>3. \A u \in Thread : /\ pc[u] = "done" => pc'[u] = "done"
                        /\ pc[u] # "unborn" => pc'[u] # "unborn"
  BY <1>1
<1>4. MainProgress'
  BY <1>1, <1>3, ThreadTypes DEF CtlInv, MainProgress
<1> QED BY <1>2, <1>4

\* The protocol, of which only Get changes what EndsOnMarker speaks of.
LEMMA ProtocolCtl ==
  ASSUME CtlInv, IInv', NEW t \in Thread,
         \/ Lock(t) \/ Sleep(t) \/ Wake(t) \/ Pass(t) \/ Signal(t)
         \/ t \in Filler /\ Fill(t)
         \/ t \in Consumer /\ Get(t)
  PROVE  CtlInv'
<1> USE ThreadTypes
<1> DEFINE l == pc'[t]
<1>1. /\ pc \in [Thread -> Label] /\ i' = i /\ after_wait \in {"test", "op"}
      /\ pc[t] \in {"lock", "test", "asleep", "op", "signal"}
      /\ status' \in {status, "failed"}
      /\ t = Main /\ pc[t] = "lock" => i[Main] < consumers
  BY ArgsAssumption DEF Lock, Sleep, Wake, Pass, Signal, Fill, Get, Goto, locals, do_fill, do_get,
         CtlInv, IInv, TypeOK
<1>2. /\ pc' = [pc EXCEPT ![t] = l] /\ l \in {"test", "asleep", "op", "signal", "unlock"}
      /\ pc[t] # "op" => tmp' = tmp /\ (pc[t] = "signal" => l = "unlock")
      /\ pc[t] = "op" => l = "signal"
      /\ t \notin Consumer => tmp' = tmp
      /\ \A c \in Consumer \ {t} : tmp'[c] = tmp[c]
  BY <1>1 DEF Lock, Sleep, Wake, Pass, Signal, Fill, Get, Goto, locals, do_fill, do_get,
         CtlInv, IInv, TypeOK
<1>3. \A u \in Thread \ {t} : pc'[u] = pc[u]
  BY <1>1, <1>2
<1>4. Returned'
  BY <1>1, <1>2, <1>3 DEF CtlInv, Returned
<1>5. EndsOnMarker'
  <2> SUFFICES ASSUME NEW c \in Consumer
               PROVE  /\ pc'[c] \in {"unborn", "lock", "test", "asleep", "op"} => tmp'[c] # END_OF_STREAM
                      /\ pc'[c] = "done" => tmp'[c] = END_OF_STREAM
    BY DEF EndsOnMarker
  <2>1. CASE c # t
    BY <1>2, <1>3, <2>1 DEF CtlInv, EndsOnMarker
  <2>2. CASE c = t
    BY <1>1, <1>2, <2>2 DEF CtlInv, EndsOnMarker
  <2> QED BY <2>1, <2>2
<1>6. ThreadLabels' /\ MainProgress'
  <2>1. CASE t # Main
    <3>1. l \in Label \ {"create", "join_producers", "join_consumers", "unborn"}
      BY <1>2 DEF Label
    <3> QED BY <1>1, <1>2, <2>1, <3>1, OwnStep
  <2>2. CASE t = Main
    BY <1>1, <1>2, <1>3, <2>2 DEF CtlInv, ThreadLabels, MainProgress, Held
  <2> QED BY <2>1, <2>2
<1> QED BY <1>4, <1>5, <1>6 DEF CtlInv

LEMMA UnlockCtl ==
  ASSUME CtlInv, IInv',
         \/ \E p \in Producer : ProducerUnlock(p)
         \/ \E c \in Consumer : ConsumerUnlock(c)
         \/ MainUnlock
  PROVE  CtlInv'
<1> USE ThreadTypes, ArgsAssumption
<1>1. pc \in [Thread -> Label] /\ i \in [Filler -> Nat] /\ tmp' = tmp /\ status' = status
  BY DEF ProducerUnlock, ConsumerUnlock, MainUnlock, CtlInv, IInv, TypeOK
<1>2. ASSUME NEW p \in Producer, ProducerUnlock(p) PROVE CtlInv'
  <2>1. /\ pc[p] = "unlock" /\ i'[p] = i[p] + 1 /\ p # Main
        /\ pc' = [pc EXCEPT ![p] = IF i[p] + 1 < loops THEN "lock" ELSE "done"]
        /\ i' = [i EXCEPT ![p] = i[p] + 1]
    BY <1>1, <1>2 DEF ProducerUnlock, Goto
  <2>2. ThreadLabels' /\ MainProgress'
    <3>1. (IF i[p] + 1 < loops THEN "lock" ELSE "done") \in {"lock", "done"} /\ i'[Main] = i[Main]
      BY <1>1, <2>1
    <3>2. {"lock", "done"} \subseteq Label \ {"create", "join_producers", "join_consumers", "unborn"}
      BY DEF Label
    <3> QED BY <1>1, <2>1, <3>1, <3>2, OwnStep
  <2>3. i[p] < loops
    BY <2>1 DEF CtlInv, IInv, ItemsLeft
  <2>4. Returned'
    BY <1>1, <2>1, <2>3 DEF CtlInv, Returned
  <2>5. EndsOnMarker'
    BY <1>1, <2>1 DEF CtlInv, EndsOnMarker
  <2> QED BY <2>2, <2>4, <2>5 DEF CtlInv
<1>3. ASSUME NEW c \in Consumer, ConsumerUnlock(c) PROVE CtlInv'
  <2>1. /\ pc[c] = "unlock" /\ c # Main /\ c \notin Producer /\ i' = i
        /\ pc' = [pc EXCEPT ![c] = IF tmp[c] # END_OF_STREAM THEN "lock" ELSE "done"]
    BY <1>1, <1>3 DEF ConsumerUnlock, LoopContinues, Goto
  <2>2. ThreadLabels' /\ MainProgress'
    BY <1>1, <2>1, OwnStep DEF Label
  <2>3. Returned'
    BY <1>1, <2>1 DEF CtlInv, Returned
  <2>4. EndsOnMarker'
    BY <1>1, <2>1 DEF CtlInv, EndsOnMarker
  <2> QED BY <2>2, <2>3, <2>4 DEF CtlInv
<1>4. CASE MainUnlock
  <2>1. /\ pc[Main] = "unlock" /\ pc' = [pc EXCEPT ![Main] = "lock"] /\ i' = [i EXCEPT ![Main] = i[Main] + 1]
    BY <1>1, <1>4 DEF MainUnlock, Goto
  <2>2. i[Main] < consumers
    BY <2>1 DEF CtlInv, MainProgress, Held
  <2>3. ThreadLabels' /\ Returned' /\ EndsOnMarker'
    BY <1>1, <2>1 DEF CtlInv, ThreadLabels, Returned, EndsOnMarker
  <2>4. MainProgress'
    BY <1>1, <2>1, <2>2 DEF CtlInv, MainProgress, Held
  <2> QED BY <2>3, <2>4 DEF CtlInv
<1> QED BY <1>2, <1>3, <1>4

LEMMA MainCtl ==
  ASSUME CtlInv, IInv', Create \/ MainLoopEnd \/ JoinProducer \/ JoinConsumer \/ Exit
  PROVE  CtlInv'
<1> USE ThreadTypes, ArgsAssumption
<1>1. /\ pc \in [Thread -> Label] /\ i \in [Filler -> Nat] /\ tmp' = tmp
      /\ producers \in Nat /\ consumers \in Nat
      /\ \A c \in Consumer : c # Main /\ c \notin Filler
  BY DEF Create, MainLoopEnd, LoopEnd, JoinProducer, JoinConsumer, Join, Exit, locals,
         CtlInv, IInv, TypeOK
<1>2. CASE Create
  <2>1. /\ pc[Main] = "create" /\ i[Main] \in 0 .. producers + consumers - 1
        /\ pc' = [pc EXCEPT ![i[Main]] = "lock"]
        /\ i' = [i EXCEPT ![Main] = i[Main] + 1]
        /\ UNCHANGED status
    BY <1>1, <1>2 DEF Create
  <2>2. i[Main] \in Thread /\ i[Main] # Main
    BY <2>1 DEF Thread, Filler, Producer, Consumer, Main
  <2>3. pc[i[Main]] = "unborn"
    BY <2>1, <2>2 DEF CtlInv, IInv, NotYetCreated
  <2>4. ThreadLabels' /\ Returned' /\ EndsOnMarker'
    BY <1>1, <2>1, <2>2, <2>3 DEF CtlInv, ThreadLabels, Returned, EndsOnMarker
  <2>5. \A t \in Thread : t < i[Main] + 1 => t < i[Main] \/ t = i[Main]
    BY <2>1 DEF Thread, Filler, Producer, Consumer, Main
  <2>6. MainProgress'
    BY <1>1, <2>1, <2>2, <2>3, <2>5 DEF CtlInv, MainProgress, Held
  <2> QED BY <2>4, <2>6 DEF CtlInv
<1>3. CASE MainLoopEnd
  <2>1. PICK l \in {"join_producers", "lock", "join_consumers"} :
          /\ pc' = [pc EXCEPT ![Main] = l] /\ i' = [i EXCEPT ![Main] = 0] /\ status' = status
          /\ l = "join_producers" => pc[Main] = "create" /\ i[Main] = producers + consumers
          /\ l = "lock" => pc[Main] = "join_producers" /\ i[Main] = producers
          /\ l = "join_consumers" => pc[Main] = "lock"
    BY <1>3 DEF MainLoopEnd, LoopEnd
  <2>2. \A t \in Thread : t < producers + consumers /\ (t \in Producer => t < producers)
                          /\ (t \in Consumer => ~(t < producers))
    BY DEF Thread, Filler, Producer, Consumer, Main
  <2>3. ThreadLabels' /\ Returned' /\ EndsOnMarker'
    BY <1>1, <2>1 DEF CtlInv, ThreadLabels, Returned, EndsOnMarker
  <2>4. pc'[Main] = l /\ i'[Main] = 0 /\ \A t \in Thread \ {Main} : pc'[t] = pc[t]
    BY <1>1, <2>1
  <2>5. MainProgress'
    <3>1. CASE l = "join_producers"
      BY <1>1, <2>1, <2>2, <2>4, <3>1 DEF CtlInv, MainProgress, Held, Producer
    <3>2. CASE l = "lock"
      BY <1>1, <2>1, <2>2, <2>4, <3>2 DEF CtlInv, MainProgress, Held
    <3>3. CASE l = "join_consumers"
      BY <1>1, <2>1, <2>2, <2>4, <3>3 DEF CtlInv, MainProgress, Held
    <3> QED BY <3>1, <3>2, <3>3
  <2> QED BY <2>3, <2>5 DEF CtlInv
<1>4. CASE JoinProducer
  <2>1. /\ pc' = pc /\ i' = [i EXCEPT ![Main] = i[Main] + 1] /\ status' = status
        /\ pc[Main] = "join_producers" /\ i[Main] < producers /\ pc[i[Main]] = "done"
    BY <1>4 DEF JoinProducer, Join
  <2>2. \A p \in Producer : p < i[Main] + 1 => p < i[Main] \/ p = i[Main]
    BY <1>1 DEF Producer
  <2>3. ThreadLabels' /\ Returned' /\ EndsOnMarker'
    BY <1>1, <2>1 DEF CtlInv, ThreadLabels, Returned, EndsOnMarker
  <2>4. MainProgress'
    BY <1>1, <2>1, <2>2 DEF CtlInv, MainProgress, Held
  <2> QED BY <2>3, <2>4 DEF CtlInv
<1>5. CASE JoinConsumer
  <2>1. /\ pc' = pc /\ i' = [i EXCEPT ![Main] = i[Main] + 1] /\ status' = status
        /\ pc[Main] = "join_consumers" /\ i[Main] < consumers /\ pc[producers + i[Main]] = "done"
    BY <1>5 DEF JoinConsumer, Join
  <2>2. \A c \in Consumer : c < producers + (i[Main] + 1) => c < producers + i[Main] \/ c = producers + i[Main]
    BY <1>1 DEF Consumer
  <2>3. ThreadLabels' /\ Returned' /\ EndsOnMarker'
    BY <1>1, <2>1 DEF CtlInv, ThreadLabels, Returned, EndsOnMarker
  <2>4. MainProgress'
    BY <1>1, <2>1, <2>2 DEF CtlInv, MainProgress, Held
  <2> QED BY <2>3, <2>4 DEF CtlInv
<1>6. CASE Exit
  <2>1. pc' = pc /\ i' = i /\ pc[Main] = "join_consumers" /\ i[Main] = consumers
    BY <1>6 DEF Exit, locals
  <2> QED BY <1>1, <2>1 DEF CtlInv, ThreadLabels, Returned, EndsOnMarker, MainProgress
<1> QED BY <1>2, <1>3, <1>4, <1>5, <1>6

LEMMA CtlStep ==
  ASSUME CtlInv, [Next]_vars
  PROVE  CtlInv'
<1>0. IInv'
  BY StepInv DEF CtlInv
<1>1. CASE UNCHANGED vars
  <2>1. UNCHANGED <<pc, i, tmp, status>>
    BY <1>1 DEF vars, locals
  <2> QED BY <1>0, <2>1 DEF CtlInv, ThreadLabels, Returned, EndsOnMarker, MainProgress
<1>2. CASE Next
  <2> PICK t \in Thread : Step(t) \/ SpuriousWakeup(t)
    BY <1>2 DEF Next
  <2>1. CASE SpuriousWakeup(t)
    <3>1. UNCHANGED <<pc, i, tmp, status>>
      BY <2>1 DEF SpuriousWakeup, locals
    <3> QED BY <1>0, <3>1 DEF CtlInv, ThreadLabels, Returned, EndsOnMarker, MainProgress
  <2>2. CASE Lock(t) \/ Sleep(t) \/ Wake(t) \/ Pass(t) \/ Signal(t)
    BY <1>0, <2>2, ProtocolCtl
  <2>3. CASE t \in Producer /\ (Fill(t) \/ ProducerUnlock(t))
    BY <1>0, <2>3, ProtocolCtl, UnlockCtl, ThreadTypes
  <2>4. CASE t \in Consumer /\ (Get(t) \/ ConsumerUnlock(t))
    BY <1>0, <2>4, ProtocolCtl, UnlockCtl
  <2>5. CASE t = Main /\ (Fill(Main) \/ MainStep)
    BY <1>0, <2>5, ProtocolCtl, UnlockCtl, MainCtl, ThreadTypes DEF MainStep
  <2> QED BY <2>1, <2>2, <2>3, <2>4, <2>5 DEF Step, producer, consumer, main
<1> QED BY <1>1, <1>2

LEMMA CtlInvariance == Spec => []CtlInv
<1>1. Init => CtlInv
  BY InitCtl
<1>2. CtlInv /\ [Next]_vars => CtlInv'
  BY CtlStep
<1> QED BY <1>1, <1>2, PTL DEF Spec
-----------------------------------------------------------------------------
(* One producer and one consumer: whom a signal wakes is whom it is meant   *)
(* for.                                                                    *)

\* Whoever has the mutex is about to give it up.
MutexOwner == \A t \in m : pc[t] \in Held

\* A thread sleeps on its own condition variable.
SleepsOn == \A cv \in Cv : \A t \in waiting[cv] : t \in Thread /\ WaitCv(t) = cv /\ pc[t] = "asleep"

\* main() moves itself, or the thread that it creates.
LEMMA MainMoves ==
  ASSUME CtlInv, Create \/ MainLoopEnd \/ JoinProducer \/ JoinConsumer
  PROVE  \E t \in Thread, l \in Label :
           /\ pc' = [pc EXCEPT ![t] = l] /\ m' = m /\ waiting' = waiting
           /\ pc[t] \in {"unborn", "create", "join_producers", "join_consumers", "lock"}
           /\ pc[t] = "lock" => t = Main /\ i[Main] = consumers
           /\ pc[Main] \in {"create", "join_producers", "join_consumers"} \/ t = Main
           /\ l \notin Held \cup {"asleep"}
<1> USE ThreadTypes DEF Held
<1>1. pc \in [Thread -> Label] /\ i \in [Filler -> Nat]
  BY DEF CtlInv, IInv, TypeOK
<1>2. CASE Create
  <2>1. i[Main] \in Thread /\ pc[i[Main]] = "unborn"
    <3>1. i[Main] \in 0 .. producers + consumers - 1
      BY <1>1, <1>2, ArgsAssumption DEF Create
    <3>2. i[Main] \in Thread
      BY <3>1, ArgsAssumption DEF Thread, Filler, Producer, Consumer, Main
    <3> QED BY <1>2, <3>1, <3>2 DEF Create, CtlInv, IInv, NotYetCreated
  <2> QED BY <1>2, <2>1 DEF Create, Label
<1>3. CASE MainLoopEnd
  BY <1>3 DEF MainLoopEnd, LoopEnd, Label
<1>4. CASE JoinProducer \/ JoinConsumer
  <2>1. pc' = [pc EXCEPT ![Main] = pc[Main]] /\ pc[Main] \in {"join_producers", "join_consumers"}
    BY <1>1, <1>4 DEF JoinProducer, JoinConsumer, Join
  <2> QED BY <1>4, <2>1 DEF JoinProducer, JoinConsumer, Join, Label
<1> QED BY <1>2, <1>3, <1>4

OneOfEach == producers <= 1 /\ consumers <= 1

Opposite(t, u) == t \in Consumer <=> u \notin Consumer

\* Who sleeps has to, or one of the other kind is about to signal.
SleepsInNeed ==
  \A t \in Thread : t \in waiting[WaitCv(t)] =>
    MustWait(t) \/ \E u \in Thread : pc[u] = "signal" /\ Opposite(t, u)

PairInv == MutexOwner /\ SleepsOn /\ SleepsInNeed

\* At most one thread of a kind is past its Mutex_lock: main() follows the
\* protocol after the producers have ended.
LEMMA OneOfAKind ==
  ASSUME OneOfEach, CtlInv, NEW t \in Thread, NEW u \in Thread, ~Opposite(t, u),
         pc[t] \in Held \cup {"asleep"}, pc[u] \in Held \cup {"asleep"}
  PROVE  t = u
<1> USE ThreadTypes
<1>1. CASE t \in Consumer
  BY <1>1, ArgsAssumption DEF Opposite, Consumer, OneOfEach
<1>2. CASE t \in Producer /\ u \in Producer
  BY <1>2, ArgsAssumption DEF Producer, OneOfEach
<1>3. CASE t = Main \/ u = Main
  <2>1. pc[Main] \in Held \cup {"asleep"} => \A p \in Producer : pc[p] = "done"
    BY DEF CtlInv, MainProgress, Held
  <2>2. t \in Filler /\ u \in Filler
    <3>1. CASE t \notin Consumer
      BY <3>1 DEF Opposite
    <3>2. CASE t \in Consumer
      BY <1>3, <3>2 DEF Opposite
    <3> QED BY <3>1, <3>2
  <2> QED BY <1>3, <2>1, <2>2 DEF Held
<1> QED BY <1>1, <1>2, <1>3 DEF Opposite

LEMMA InitPair == Init => PairInv
BY DEF Init, PairInv, MutexOwner, SleepsOn, SleepsInNeed, WaitCv, Cv

\* A step that leaves alone what a sleeper waits for and who signals it.
LEMMA StillInNeed ==
  ASSUME SleepsInNeed, num_full' = num_full,
         \A t \in Thread : t \in waiting'[WaitCv(t)] => t \in waiting[WaitCv(t)],
         \A u \in Thread : pc[u] = "signal" => pc'[u] = "signal"
  PROVE  SleepsInNeed'
<1> SUFFICES ASSUME NEW t \in Thread, t \in waiting'[WaitCv(t)]
             PROVE  MustWait(t)' \/ \E u \in Thread : pc'[u] = "signal" /\ Opposite(t, u)
  BY DEF SleepsInNeed, WaitCv, Opposite
<1>1. MustWait(t)' <=> MustWait(t)
  BY DEF MustWait
<1> QED BY <1>1 DEF SleepsInNeed

LEMMA PairActive ==
  ASSUME OneOfEach, IInv, PairInv, NEW t \in Thread, Lock(t) \/ Pass(t) \/ Wake(t)
  PROVE  PairInv'
<1> USE ThreadTypes DEF PairInv
<1>1. PICK l \in {"test", "op"} :
        /\ pc' = [pc EXCEPT ![t] = l] /\ pc[t] \in {"lock", "test", "asleep"}
        /\ waiting' = waiting /\ num_full' = num_full /\ m' \in {m, {t}}
        /\ pc[t] = "asleep" => \A cv \in Cv : t \notin waiting[cv]
  BY ArgsAssumption DEF Lock, Pass, Wake, Goto, Mutex_lock, ring, locals
<1>2. pc'[t] = l /\ \A u \in Thread \ {t} : pc'[u] = pc[u]
  BY <1>1 DEF IInv, TypeOK
<1>3. MutexOwner'
  BY <1>1, <1>2 DEF MutexOwner, Held, IInv, TypeOK
<1>4. SleepsOn'
  BY <1>1, <1>2 DEF SleepsOn, WaitCv
<1>5. SleepsInNeed'
  BY <1>1, <1>2, StillInNeed
<1> QED BY <1>3, <1>4, <1>5

LEMMA PairSleep ==
  ASSUME OneOfEach, IInv, PairInv, NEW t \in Thread, Sleep(t)
  PROVE  PairInv'
<1> USE ThreadTypes DEF PairInv
<1>1. /\ pc' = [pc EXCEPT ![t] = "asleep"] /\ pc[t] = "test" /\ m' = {}
      /\ waiting' = [waiting EXCEPT ![WaitCv(t)] = @ \cup {t}] /\ num_full' = num_full
      /\ MustWait(t)
  BY DEF Sleep, Goto, Cond_wait, Mutex_unlock, ring
<1>2. pc'[t] = "asleep" /\ \A u \in Thread \ {t} : pc'[u] = pc[u]
  BY <1>1 DEF IInv, TypeOK
<1>3. /\ WaitCv(t) \in Cv /\ waiting'[WaitCv(t)] = waiting[WaitCv(t)] \cup {t}
      /\ \A cv \in Cv \ {WaitCv(t)} : waiting'[cv] = waiting[cv]
      /\ \A u \in Thread : WaitCv(u)' = WaitCv(u) /\ WaitCv(u) \in Cv
  BY <1>1 DEF IInv, TypeOK, WaitCv, Cv
<1>4. MutexOwner'
  BY <1>1 DEF MutexOwner
<1>5. SleepsOn'
  BY <1>1, <1>2, <1>3 DEF SleepsOn
<1>6. SleepsInNeed'
  <2> SUFFICES ASSUME NEW u \in Thread, u \in waiting'[WaitCv(u)]
               PROVE  MustWait(u)' \/ \E v \in Thread : pc'[v] = "signal" /\ Opposite(u, v)
    BY <1>3 DEF SleepsInNeed, Opposite
  <2>1. MustWait(u)' <=> MustWait(u)
    BY <1>1 DEF MustWait
  <2>2. CASE u = t
    BY <1>1, <2>1, <2>2
  <2>3. CASE u # t
    <3>1. u \in waiting[WaitCv(u)]
      BY <1>3, <2>3
    <3> QED BY <1>1, <1>2, <2>1, <3>1 DEF SleepsInNeed
  <2> QED BY <2>2, <2>3
<1> QED BY <1>4, <1>5, <1>6

\* Who uses the ring is about to signal the only other one there is.
LEMMA PairOperation ==
  ASSUME OneOfEach, CtlInv, PairInv, NEW t \in Thread, Fill(t) \/ Get(t)
  PROVE  PairInv'
<1> USE ThreadTypes DEF PairInv
<1>1. /\ pc' = [pc EXCEPT ![t] = "signal"] /\ pc[t] = "op" /\ m' = m /\ waiting' = waiting
  BY DEF Fill, Get, Goto
<1>2. pc'[t] = "signal" /\ \A u \in Thread \ {t} : pc'[u] = pc[u]
  BY <1>1 DEF CtlInv, IInv, TypeOK
<1>3. MutexOwner'
  BY <1>1, <1>2 DEF MutexOwner, Held, CtlInv, IInv, TypeOK
<1>4. SleepsOn'
  BY <1>1, <1>2 DEF SleepsOn, WaitCv
<1>5. SleepsInNeed'
  <2> SUFFICES ASSUME NEW u \in Thread, u \in waiting[WaitCv(u)]
               PROVE  \E v \in Thread : pc'[v] = "signal" /\ Opposite(u, v)
    BY <1>1 DEF SleepsInNeed, Opposite, WaitCv
  <2>1. pc[u] = "asleep"
    BY DEF SleepsOn, WaitCv, Cv
  <2>2. Opposite(u, t)
    BY <1>1, <2>1, OneOfAKind DEF Held
  <2> QED BY <1>2, <2>2
<1> QED BY <1>3, <1>4, <1>5

\* A signal wakes the only thread that can be asleep on its condition variable.
LEMMA PairSignal ==
  ASSUME OneOfEach, CtlInv, PairInv, NEW t \in Thread, Signal(t)
  PROVE  PairInv'
<1> USE ThreadTypes DEF PairInv
<1>1. /\ pc' = [pc EXCEPT ![t] = "unlock"] /\ pc[t] = "signal" /\ m' = m
      /\ num_full' = num_full /\ Cond_signal(SignalCv(t))
  BY DEF Signal, Goto, ring
<1>2. pc'[t] = "unlock" /\ \A u \in Thread \ {t} : pc'[u] = pc[u]
  BY <1>1 DEF CtlInv, IInv, TypeOK
<1>3. /\ SignalCv(t) \in Cv /\ \A u \in Thread : WaitCv(u)' = WaitCv(u) /\ WaitCv(u) \in Cv
      /\ \A u \in Thread : Opposite(u, t) => WaitCv(u) = SignalCv(t)
  BY DEF SignalCv, WaitCv, Cv, Opposite
<1>4. /\ \A cv \in Cv : waiting'[cv] \subseteq waiting[cv]
      /\ waiting[SignalCv(t)] # {} => \E r \in waiting[SignalCv(t)] : r \notin waiting'[SignalCv(t)]
  BY <1>1, <1>3 DEF Cond_signal, CtlInv, IInv, TypeOK
<1>5. MutexOwner'
  BY <1>1, <1>2 DEF MutexOwner, Held, CtlInv, IInv, TypeOK
<1>6. SleepsOn'
  BY <1>1, <1>2, <1>3, <1>4 DEF SleepsOn
<1>7. SleepsInNeed'
  <2> SUFFICES ASSUME NEW u \in Thread, u \in waiting'[WaitCv(u)]
               PROVE  MustWait(u)' \/ \E v \in Thread : pc'[v] = "signal" /\ Opposite(u, v)
    BY <1>3 DEF SleepsInNeed, Opposite
  <2>1. u \in waiting[WaitCv(u)] /\ pc[u] = "asleep" /\ (MustWait(u)' <=> MustWait(u))
    BY <1>1, <1>3, <1>4 DEF SleepsOn, MustWait
  <2>2. ~Opposite(u, t)
    <3> SUFFICES ASSUME Opposite(u, t) PROVE FALSE
      OBVIOUS
    <3>1. PICK r \in waiting[SignalCv(t)] : r \notin waiting'[SignalCv(t)]
      BY <1>3, <1>4, <2>1
    <3>2. r \in Thread /\ pc[r] = "asleep"
      BY <1>3 DEF SleepsOn
    <3>3. Opposite(r, t)
      BY <1>1, <3>2, OneOfAKind DEF Held
    <3>4. ~Opposite(u, r)
      BY <3>3 DEF Opposite
    <3>5. u = r
      BY <2>1, <3>2, <3>4, OneOfAKind
    <3> QED BY <1>3, <3>1, <3>5
  <2> QED BY <1>2, <2>1, <2>2 DEF SleepsInNeed
<1> QED BY <1>5, <1>6, <1>7

LEMMA PairRest ==
  ASSUME OneOfEach, CtlInv, PairInv,
         \/ \E p \in Producer : ProducerUnlock(p)
         \/ \E c \in Consumer : ConsumerUnlock(c)
         \/ MainStep
         \/ \E t \in Thread : SpuriousWakeup(t)
         \/ UNCHANGED vars
  PROVE  PairInv'
<1> USE ThreadTypes DEF PairInv
<1>1. IInv /\ pc \in [Thread -> Label] /\ i \in [Filler -> Nat] /\ m \in SUBSET Thread
      /\ waiting \in [Cv -> SUBSET Thread] /\ num_full' = num_full
  BY DEF ProducerUnlock, ConsumerUnlock, MainStep, Create, MainLoopEnd, LoopEnd, JoinProducer,
     JoinConsumer, Join, MainUnlock, Exit, SpuriousWakeup, vars, ring, CtlInv, IInv, TypeOK
<1>2. ASSUME \/ \E p \in Producer : ProducerUnlock(p)
             \/ \E c \in Consumer : ConsumerUnlock(c)
             \/ MainUnlock
      PROVE  PairInv'
  <2>1. PICK t \in Thread, l \in {"lock", "done"} :
          pc[t] = "unlock" /\ pc' = [pc EXCEPT ![t] = l] /\ m' = {} /\ waiting' = waiting
    BY <1>1, <1>2 DEF ProducerUnlock, ConsumerUnlock, MainUnlock, Goto, Mutex_unlock
  <2>2. pc'[t] = l /\ \A u \in Thread \ {t} : pc'[u] = pc[u]
    BY <1>1, <2>1
  <2>3. MutexOwner' /\ SleepsOn'
    BY <2>1, <2>2 DEF MutexOwner, SleepsOn, WaitCv
  <2>4. SleepsInNeed'
    BY <1>1, <2>1, <2>2, StillInNeed
  <2> QED BY <2>3, <2>4
<1>3. CASE Create \/ MainLoopEnd \/ JoinProducer \/ JoinConsumer
  <2>1. PICK t \in Thread, l \in Label :
          /\ pc' = [pc EXCEPT ![t] = l] /\ m' = m /\ waiting' = waiting
          /\ pc[t] \in {"unborn", "create", "join_producers", "join_consumers", "lock"}
    BY <1>3, MainMoves
  <2>2. pc'[t] = l /\ \A u \in Thread \ {t} : pc'[u] = pc[u]
    BY <1>1, <2>1
  <2>3. MutexOwner' /\ SleepsOn'
    BY <1>1, <2>1, <2>2 DEF MutexOwner, SleepsOn, WaitCv, Held
  <2>4. SleepsInNeed'
    BY <1>1, <2>1, <2>2, StillInNeed
  <2> QED BY <2>3, <2>4
<1>4. CASE Exit \/ UNCHANGED vars
  <2>1. UNCHANGED <<pc, m, waiting, num_full>>
    BY <1>4 DEF Exit, vars, locals, ring
  <2> QED BY <2>1, StillInNeed DEF MutexOwner, SleepsOn, WaitCv
<1>5. ASSUME NEW t \in Thread, SpuriousWakeup(t) PROVE PairInv'
  <2>1. PICK cv \in Cv : t \in waiting[cv] /\ waiting' = [waiting EXCEPT ![cv] = @ \ {t}]
    BY <1>5 DEF SpuriousWakeup
  <2>2. pc' = pc /\ m' = m
    BY <1>5 DEF SpuriousWakeup
  <2>3. \A d \in Cv : waiting'[d] \subseteq waiting[d]
    BY <1>1, <2>1
  <2>4. MutexOwner' /\ SleepsOn'
    BY <2>2, <2>3 DEF MutexOwner, SleepsOn, WaitCv
  <2>5. SleepsInNeed'
    BY <1>1, <2>2, <2>3, StillInNeed DEF WaitCv, Cv
  <2> QED BY <2>4, <2>5
<1> QED BY <1>2, <1>3, <1>4, <1>5 DEF MainStep

LEMMA PairStep ==
  ASSUME OneOfEach, CtlInv, PairInv, [Next]_vars
  PROVE  PairInv'
<1>1. CASE UNCHANGED vars
  BY <1>1, PairRest
<1>2. CASE Next
  <2> PICK t \in Thread : Step(t) \/ SpuriousWakeup(t)
    BY <1>2 DEF Next
  <2>1. CASE Lock(t) \/ Sleep(t) \/ Wake(t) \/ Pass(t) \/ Signal(t) \/ Fill(t) \/ Get(t)
    BY <2>1, PairActive, PairSleep, PairSignal, PairOperation DEF CtlInv
  <2>2. CASE \/ t \in Producer /\ ProducerUnlock(t)
             \/ t \in Consumer /\ ConsumerUnlock(t)
             \/ MainStep \/ SpuriousWakeup(t)
    BY <2>2, PairRest
  <2>3. CASE t \in Producer /\ producer(t)
    BY <2>1, <2>2, <2>3 DEF producer
  <2>4. CASE t \in Consumer /\ consumer(t)
    BY <2>1, <2>2, <2>4 DEF consumer
  <2>5. CASE t = Main /\ main
    BY <2>1, <2>2, <2>5 DEF main
  <2> QED BY <2>2, <2>3, <2>4, <2>5 DEF Step
<1> QED BY <1>1, <1>2

LEMMA PairInvariance ==
  ASSUME OneOfEach
  PROVE  Spec => []PairInv
<1>1. Init => PairInv
  BY InitPair
<1>2. CtlInv /\ PairInv /\ [Next]_vars => PairInv'
  BY PairStep
<1> QED BY <1>1, <1>2, CtlInvariance, PTL DEF Spec
-----------------------------------------------------------------------------
(* One producer and one consumer: then one test is enough.                 *)

\* Thread t is on its way to the ring and will not test any more, unless it
\* tests again.
Chosen(t) == pc[t] = "op" \/ (pc[t] = "asleep" /\ t \notin waiting[WaitCv(t)])

\* Such a thread finds what it needs, and so does whoever a signal may wake.
Finds ==
  /\ NoEnsureFailure
  /\ \A t \in Thread : Chosen(t) => ~MustWait(t)
  /\ \A t \in Thread, u \in Thread : pc[t] = "signal" /\ Opposite(t, u) => ~MustWait(u)

LEMMA InitFinds == Init => Finds
BY DEF Init, Finds, NoEnsureFailure, Chosen

\* A step that leaves the ring alone.
LEMMA StillFinds ==
  ASSUME Finds, num_full' = num_full, status' # "failed",
         \A t \in Thread : Chosen(t)' => ~MustWait(t),
         \A t \in Thread : pc'[t] = "signal" => pc[t] = "signal"
  PROVE  Finds'
<1>1. \A t \in Thread : MustWait(t)' <=> MustWait(t)
  BY DEF MustWait
<1>2. NoEnsureFailure'
  BY DEF NoEnsureFailure
<1>3. \A t \in Thread : Chosen(t)' => ~MustWait(t)'
  BY <1>1
<1>4. \A t \in Thread, u \in Thread : pc'[t] = "signal" /\ Opposite(t, u) => ~MustWait(u)'
  BY <1>1 DEF Finds
<1> QED BY <1>2, <1>3, <1>4 DEF Finds, Opposite

\* The steps before the operation: who falls asleep is not chosen, who wakes
\* up was before, and who passes has tested.
LEMMA FindsProtocol ==
  ASSUME IInv, Finds, NEW t \in Thread, status = "running",
         Lock(t) \/ Sleep(t) \/ Wake(t) \/ Pass(t)
  PROVE  Finds'
<1> USE ThreadTypes
<1>1. /\ pc \in [Thread -> Label] /\ waiting \in [Cv -> SUBSET Thread]
      /\ num_full' = num_full /\ status' = status
  BY DEF IInv, TypeOK, Lock, Sleep, Wake, Pass, ring
<1>2. PICK l \in {"test", "op", "asleep"} : pc' = [pc EXCEPT ![t] = l]
  BY ArgsAssumption DEF Lock, Sleep, Wake, Pass, Goto
<1>3. pc'[t] = l /\ \A u \in Thread \ {t} : pc'[u] = pc[u]
  BY <1>1, <1>2
<1>4. /\ \A u \in Thread : WaitCv(u) \in Cv /\ WaitCv(u)' = WaitCv(u)
      /\ \A u \in Thread \ {t} : Chosen(u)' <=> Chosen(u)
  <2>1. \A u \in Thread : WaitCv(u) \in Cv /\ WaitCv(u)' = WaitCv(u)
    BY DEF WaitCv, Cv
  <2>2. \A cv \in Cv, u \in Thread \ {t} : u \in waiting'[cv] <=> u \in waiting[cv]
    BY <1>1, <2>1 DEF Lock, Sleep, Wake, Pass, Cond_wait
  <2> QED BY <1>3, <2>1, <2>2 DEF Chosen
<1>5. Chosen(t)' => ~MustWait(t)
  <2>1. CASE Lock(t)
    BY <1>1, <2>1 DEF Lock, Goto, Chosen
  <2>2. CASE Sleep(t)
    <3>1. pc'[t] = "asleep" /\ t \in waiting'[WaitCv(t)]
      BY <1>1, <1>4, <2>2 DEF Sleep, Goto, Cond_wait
    <3> QED BY <1>4, <3>1 DEF Chosen
  <2>3. CASE Wake(t)
    <3>1. Chosen(t)
      BY <1>4, <2>3 DEF Wake, Goto, Chosen
    <3> QED BY <3>1 DEF Finds
  <2>4. CASE Pass(t)
    BY <2>4 DEF Pass
  <2> QED BY <2>1, <2>2, <2>3, <2>4
<1> QED BY <1>1, <1>3, <1>4, <1>5, StillFinds DEF Finds

\* The operation succeeds, leaves something for the other kind, and only one
\* thread of each kind can be chosen.
LEMMA FindsOperation ==
  ASSUME OneOfEach, CtlInv, CtlInv', Finds, NEW t \in Thread, status = "running",
         \/ t \in Filler /\ Fill(t)
         \/ t \in Consumer /\ Get(t)
  PROVE  Finds'
<1> USE ThreadTypes, ArgsAssumption
<1>1. /\ pc \in [Thread -> Label] /\ num_full \in 0 .. max /\ num_full' \in 0 .. max
      /\ pc' = [pc EXCEPT ![t] = "signal"] /\ pc[t] = "op" /\ waiting' = waiting
      /\ ~MustWait(t)
  BY DEF CtlInv, IInv, TypeOK, Fill, Get, Goto, Finds, Chosen
<1>2. pc'[t] = "signal" /\ \A u \in Thread \ {t} : pc'[u] = pc[u]
  BY <1>1
<1>3. /\ status' = status
      /\ num_full' = IF t \in Consumer THEN num_full - 1 ELSE num_full + 1
  <2>1. CASE t \in Filler /\ Fill(t)
    <3>1. buffer[fill_ptr] = EMPTY
      BY <1>1, <2>1, FillSlot DEF MustWait, CtlInv, IInv
    <3> QED BY <2>1, <3>1 DEF Fill, do_fill
  <2>2. CASE t \in Consumer /\ Get(t)
    <3>1. buffer[use_ptr] # EMPTY
      BY <1>1, <2>2, GetSlot DEF MustWait, CtlInv, IInv
    <3> QED BY <2>2, <3>1 DEF Get, do_get
  <2> QED BY <2>1, <2>2
<1>4. \A u \in Thread \ {t} : pc[u] \notin Held
  BY <1>1 DEF CtlInv, IInv, MutexHeld, Held
<1>5. ASSUME NEW u \in Thread, Opposite(t, u) PROVE ~MustWait(u)'
  BY <1>1, <1>3, <1>5 DEF MustWait, Opposite
<1>6. ASSUME NEW u \in Thread, Chosen(u)' PROVE ~MustWait(u)'
  <2>1. pc[u] = "asleep"
    BY <1>2, <1>4, <1>6 DEF Chosen, Held
  <2>2. Opposite(t, u)
    BY <1>1, <2>1, OneOfAKind DEF Held
  <2> QED BY <1>5, <2>2
<1>7. ASSUME NEW v \in Thread, NEW u \in Thread, pc'[v] = "signal", Opposite(v, u)
      PROVE  ~MustWait(u)'
  <2>1. v = t
    BY <1>2, <1>4, <1>7 DEF Held
  <2> QED BY <1>5, <1>7, <2>1
<1>8. NoEnsureFailure'
  BY <1>3 DEF NoEnsureFailure
<1> QED BY <1>6, <1>7, <1>8 DEF Finds, Opposite

\* Whoever the signal wakes is of the other kind.
LEMMA FindsSignal ==
  ASSUME OneOfEach, CtlInv, SleepsOn, Finds, NEW t \in Thread, status = "running", Signal(t)
  PROVE  Finds'
<1> USE ThreadTypes
<1>1. /\ pc \in [Thread -> Label] /\ waiting \in [Cv -> SUBSET Thread]
      /\ pc' = [pc EXCEPT ![t] = "unlock"] /\ pc[t] = "signal"
      /\ num_full' = num_full /\ status' = status /\ Cond_signal(SignalCv(t))
  BY DEF CtlInv, IInv, TypeOK, Signal, Goto, ring
<1>2. pc'[t] = "unlock" /\ \A u \in Thread \ {t} : pc'[u] = pc[u]
  BY <1>1
<1>3. \A u \in Thread : WaitCv(u) \in Cv /\ WaitCv(u)' = WaitCv(u)
  BY DEF WaitCv, Cv
<1>4. ASSUME NEW u \in Thread, Chosen(u)' PROVE ~MustWait(u)
  <2>1. u # t /\ pc'[u] = pc[u]
    BY <1>2, <1>4 DEF Chosen
  <2>2. CASE Chosen(u)
    BY <2>2 DEF Finds
  <2>3. CASE ~Chosen(u)
    <3>1. pc[u] = "asleep"
      BY <1>3, <1>4, <2>1, <2>3 DEF Chosen
    <3>2. Opposite(t, u)
      BY <1>1, <2>1, <3>1, OneOfAKind DEF Held
    <3> QED BY <1>1, <3>2 DEF Finds
  <2> QED BY <2>2, <2>3
<1> QED BY <1>1, <1>2, <1>4, StillFinds DEF Finds

LEMMA FindsRest ==
  ASSUME MaxSpurious = 0, CtlInv, Finds, status = "running",
         \/ \E p \in Producer : ProducerUnlock(p)
         \/ \E c \in Consumer : ConsumerUnlock(c)
         \/ MainStep
         \/ \E t \in Thread : SpuriousWakeup(t)
  PROVE  Finds'
<1> USE ThreadTypes
<1>1. /\ pc \in [Thread -> Label] /\ num_full' = num_full /\ status' # "failed"
      /\ spurious \in 0 .. MaxSpurious
  BY DEF ProducerUnlock, ConsumerUnlock, MainStep, Create, MainLoopEnd, LoopEnd, JoinProducer,
     JoinConsumer, Join, MainUnlock, Exit, SpuriousWakeup, ring, CtlInv, IInv, TypeOK
<1>2. waiting' = waiting
      /\ \E t \in Thread, l \in Label \ {"op", "asleep", "signal"} : pc' = [pc EXCEPT ![t] = l]
  <2>1. CASE \/ \E p \in Producer : ProducerUnlock(p)
             \/ \E c \in Consumer : ConsumerUnlock(c)
             \/ MainUnlock
    BY <2>1 DEF ProducerUnlock, ConsumerUnlock, MainUnlock, Goto, Label
  <2>2. CASE Create \/ MainLoopEnd \/ JoinProducer \/ JoinConsumer
    BY <2>2, MainMoves DEF Held
  <2>3. CASE Exit
    <3>1. pc' = [pc EXCEPT ![Main] = "join_consumers"]
      BY <1>1, <2>3 DEF Exit
    <3> QED BY <2>3, <3>1 DEF Exit, Label
  <2>4. CASE \E t \in Thread : SpuriousWakeup(t)
    BY <1>1, <2>4 DEF SpuriousWakeup
  <2> QED BY <2>1, <2>2, <2>3, <2>4 DEF MainStep
<1>3. PICK t \in Thread, l \in Label \ {"op", "asleep", "signal"} : pc' = [pc EXCEPT ![t] = l]
  BY <1>2
<1>4. pc'[t] = l /\ \A u \in Thread \ {t} : pc'[u] = pc[u]
  BY <1>1, <1>3
<1>5. \A u \in Thread : Chosen(u)' => Chosen(u)
  BY <1>2, <1>4 DEF Chosen, WaitCv
<1> QED BY <1>1, <1>4, <1>5, StillFinds DEF Finds

LEMMA FindsStep ==
  ASSUME OneOfEach, MaxSpurious = 0, CtlInv, CtlInv', PairInv, Finds, [Next]_vars
  PROVE  Finds'
<1>1. CASE UNCHANGED vars
  BY <1>1 DEF vars, ring, Finds, NoEnsureFailure, Chosen, MustWait, WaitCv, Opposite
<1>2. CASE Next
  <2> PICK t \in Thread : Step(t) \/ SpuriousWakeup(t)
    BY <1>2 DEF Next
  <2>0. status = "running"
    BY <1>2 DEF Next
  <2>1. CASE Lock(t) \/ Sleep(t) \/ Wake(t) \/ Pass(t)
    BY <2>0, <2>1, FindsProtocol DEF CtlInv
  <2>2. CASE \/ t \in Filler /\ Fill(t)
             \/ t \in Consumer /\ Get(t)
    BY <2>0, <2>2, FindsOperation
  <2>3. CASE Signal(t)
    BY <2>0, <2>3, FindsSignal DEF PairInv
  <2>4. CASE \/ t \in Producer /\ ProducerUnlock(t)
             \/ t \in Consumer /\ ConsumerUnlock(t)
             \/ MainStep \/ SpuriousWakeup(t)
    BY <2>0, <2>4, FindsRest
  <2> QED BY <2>1, <2>2, <2>3, <2>4, ThreadTypes DEF Step, producer, consumer, main
<1> QED BY <1>1, <1>2

\* When the test before the operation is enough: a thread tests again after
\* it was woken, or it is the only one of its kind and wakes by signals only.
EnsureArgs == after_wait = "test" \/ (OneOfEach /\ MaxSpurious = 0)

\* In main-two-cvs-while.c and main-one-cv-while.c no ensure() of do_fill or
\* do_get ever fails.  In main-two-cvs-if.c none fails with one producer and one
\* consumer, if no wake-up is spurious; with a second consumer one does
\* (two_cvs_if).
THEOREM EnsureHolds ==
  ASSUME EnsureArgs
  PROVE  Spec => []NoEnsureFailure
<1>1. CASE after_wait = "test"
  <2>1. IInv => NoEnsureFailure
    BY <1>1 DEF IInv, EnsureSound
  <2> QED BY <2>1, Invariance, PTL
<1>2. CASE OneOfEach /\ MaxSpurious = 0
  <2>1. Init => Finds
    BY InitFinds
  <2>2. CtlInv /\ CtlInv' /\ PairInv /\ Finds /\ [Next]_vars => Finds'
    BY <1>2, FindsStep
  <2>3. Finds => NoEnsureFailure
    BY DEF Finds
  <2>4. Spec => []PairInv
    BY <1>2, PairInvariance
  <2> QED BY <2>1, <2>2, <2>3, <2>4, CtlInvariance, PTL DEF Spec
<1> QED BY <1>1, <1>2 DEF EnsureArgs
-----------------------------------------------------------------------------
(* The ring as a queue.                                                    *)

Queue == [k \in 1 .. num_full |-> buffer[(use_ptr + k - 1) % max]]
Sent == [p \in Producer |-> Filled(p)]
Eos ==
  CASE pc[Main] \in {"create", "join_producers"} -> 0
    [] pc[Main] = "join_consumers"               -> consumers
    [] OTHER                                     -> Filled(Main)

SQP == INSTANCE StreamQueueProofs WITH queue <- Queue, sent <- Sent, eos <- Eos

\* A function on an interval that starts from 1 is a sequence.
LEMMA IntervalSeq ==
  ASSUME NEW S, NEW n \in Nat, NEW f \in [1 .. n -> S]
  PROVE  f \in Seq(S) /\ Len(f) = n
<1>1. f \in Seq(S)
  BY SeqDef
<1>2. 1 .. Len(f) = 1 .. n /\ Len(f) \in Nat
  BY <1>1, LenProperties
<1> QED BY <1>1, <1>2

LEMMA QueueType ==
  ASSUME IInv
  PROVE  Queue \in Seq(Int) /\ Len(Queue) = num_full /\ num_full \in Nat
<1>1. num_full \in 0 .. max /\ max \in Nat \ {0} /\ use_ptr \in Slot
      /\ buffer \in [Slot -> Item \cup {EMPTY, END_OF_STREAM}]
  BY ArgsAssumption DEF IInv, TypeOK
<1>2. ASSUME NEW k \in 1 .. num_full PROVE buffer[(use_ptr + k - 1) % max] \in Int
  <2>1. (use_ptr + k - 1) % max \in Slot
    BY <1>1, <1>2 DEF Slot
  <2>2. Item \cup {EMPTY, END_OF_STREAM} \subseteq Int
    BY DEF Item, EMPTY, END_OF_STREAM
  <2> QED BY <1>1, <2>1, <2>2
<1>3. Queue \in [1 .. num_full -> Int]
  BY <1>2 DEF Queue
<1> QED BY <1>1, <1>3, IntervalSeq

\* do_fill appends.
LEMMA QueueFill ==
  ASSUME IInv, IInv', NEW v \in Int, num_full < max,
         buffer' = [buffer EXCEPT ![fill_ptr] = v], num_full' = num_full + 1, use_ptr' = use_ptr
  PROVE  Queue' = Append(Queue, v)
<1> USE ArgsAssumption
<1>1. num_full \in 0 .. max - 1 /\ use_ptr \in Slot /\ fill_ptr \in Slot
      /\ fill_ptr = (use_ptr + num_full) % max
      /\ buffer \in [Slot -> Item \cup {EMPTY, END_OF_STREAM}]
  BY DEF IInv, TypeOK, RingConsistent
<1>2. Queue \in Seq(Int) /\ Len(Queue) = num_full
  BY QueueType
<1>3. /\ Append(Queue, v) \in Seq(Int) /\ Len(Append(Queue, v)) = num_full + 1
      /\ \A k \in 1 .. num_full : Append(Queue, v)[k] = Queue[k]
      /\ Append(Queue, v)[num_full + 1] = v
  BY <1>2, AppendProperties
<1>4. Queue' = [k \in 1 .. num_full + 1 |-> buffer'[(use_ptr + k - 1) % max]]
  BY DEF Queue
<1>5. \A k \in 1 .. num_full + 1 : (use_ptr + k - 1) % max \in Slot /\ use_ptr + k - 1 = use_ptr + (k - 1)
  BY <1>1 DEF Slot
<1>6. ASSUME NEW k \in 1 .. num_full + 1 PROVE Queue'[k] = Append(Queue, v)[k]
  <2>1. Queue'[k] = buffer'[(use_ptr + k - 1) % max] /\ (use_ptr + k - 1) % max \in Slot
    BY <1>4, <1>5
  <2>2. CASE k = num_full + 1
    <3>1. use_ptr + k - 1 = use_ptr + num_full
      BY <1>1, <2>2 DEF Slot
    <3> QED BY <1>1, <1>3, <2>1, <2>2, <3>1
  <2>3. CASE k # num_full + 1
    <3>1. k - 1 \in 0 .. max - 1 /\ num_full \in 0 .. max - 1 /\ k - 1 # num_full /\ k \in 1 .. num_full
      BY <1>1, <2>3
    <3>2. (use_ptr + (k - 1)) % max # fill_ptr
      BY <1>1, <3>1, OffsetInjective DEF Slot
    <3>3. buffer'[(use_ptr + k - 1) % max] = buffer[(use_ptr + k - 1) % max]
      BY <1>1, <1>5, <2>1, <3>2
    <3> QED BY <1>3, <2>1, <3>1, <3>3 DEF Queue
  <2> QED BY <2>2, <2>3
<1>7. Queue' \in Seq(Int) /\ Len(Queue') = num_full + 1
  <2>1. \A k \in 1 .. num_full + 1 : Append(Queue, v)[k] \in Int
    BY <1>3, ElementOfSeq
  <2>2. \A k \in 1 .. num_full + 1 : buffer'[(use_ptr + k - 1) % max] \in Int
    BY <1>4, <1>6, <2>1
  <2>3. Queue' \in [1 .. num_full + 1 -> Int]
    BY <1>4, <2>2
  <2> QED BY <1>1, <2>3, IntervalSeq
<1> QED BY <1>3, <1>6, <1>7, SeqEqual

\* do_get takes the head.
LEMMA QueueGet ==
  ASSUME IInv, num_full > 0,
         buffer' = [buffer EXCEPT ![use_ptr] = EMPTY], num_full' = num_full - 1,
         use_ptr' = Succ(use_ptr)
  PROVE  Queue # <<>> /\ Head(Queue) = buffer[use_ptr] /\ Queue' = Tail(Queue)
<1> USE ArgsAssumption
<1>1. num_full \in 1 .. max /\ use_ptr \in Slot
      /\ buffer \in [Slot -> Item \cup {EMPTY, END_OF_STREAM}]
  BY DEF IInv, TypeOK
<1>2. Queue \in Seq(Int) /\ Len(Queue) = num_full
  BY QueueType
<1>3. Queue # <<>>
  BY <1>1, <1>2, EmptySeq
<1>4. /\ Tail(Queue) \in Seq(Int) /\ Len(Tail(Queue)) = num_full - 1
      /\ \A k \in 1 .. num_full - 1 : Tail(Queue)[k] = Queue[k + 1]
      /\ Head(Queue) = Queue[1]
  BY <1>2, <1>3, HeadTailProperties
<1>5. Head(Queue) = buffer[use_ptr]
  <2>1. Queue[1] = buffer[(use_ptr + 1 - 1) % max] /\ (use_ptr + 1 - 1) % max = use_ptr
    BY <1>1 DEF Queue, Slot
  <2> QED BY <1>4, <2>1
<1>6. Queue' = [k \in 1 .. num_full - 1 |-> buffer'[(Succ(use_ptr) + k - 1) % max]]
  BY DEF Queue
<1>7. ASSUME NEW k \in 1 .. num_full - 1 PROVE Queue'[k] = Tail(Queue)[k]
  <2>1. k - 1 \in 0 .. max - 1 /\ k \in 0 .. max - 1 /\ k # 0 /\ 0 \in 0 .. max - 1 /\ k + 1 \in 1 .. num_full
    BY <1>1
  <2>2. (Succ(use_ptr) + (k - 1)) % max = (use_ptr + (k - 1) + 1) % max
    BY <1>1, <2>1, OffsetFromNext DEF Succ, Slot
  <2>3. Succ(use_ptr) + (k - 1) = Succ(use_ptr) + k - 1 /\ use_ptr + (k - 1) + 1 = use_ptr + k
        /\ use_ptr + (k + 1) - 1 = use_ptr + k /\ (use_ptr + 0) % max = use_ptr
        /\ (use_ptr + k) % max \in Slot
    BY <1>1, <2>1 DEF Succ, Slot
  <2>4. (use_ptr + k) % max # use_ptr
    BY <1>1, <2>1, <2>3, OffsetInjective DEF Slot
  <2>5. buffer'[(use_ptr + k) % max] = buffer[(use_ptr + k) % max]
    BY <1>1, <2>3, <2>4
  <2>6. Queue[k + 1] = buffer[(use_ptr + k) % max]
    BY <2>1, <2>3 DEF Queue
  <2> QED BY <1>4, <1>6, <2>2, <2>3, <2>5, <2>6
<1>8. Queue' \in Seq(Int) /\ Len(Queue') = num_full - 1
  <2>1. \A k \in 1 .. num_full - 1 : Tail(Queue)[k] \in Int
    BY <1>4, ElementOfSeq
  <2>2. \A k \in 1 .. num_full - 1 : buffer'[(Succ(use_ptr) + k - 1) % max] \in Int
    BY <1>6, <1>7, <2>1
  <2>3. Queue' \in [1 .. num_full - 1 -> Int]
    BY <1>6, <2>2
  <2> QED BY <1>1, <2>3, IntervalSeq
<1>9. Queue' = Tail(Queue)
  BY <1>4, <1>7, <1>8, SeqEqual
<1> QED BY <1>3, <1>5, <1>9
-----------------------------------------------------------------------------
(* Refinement of StreamQueue.                                              *)

LEMMA SameSets == SQP!Producer = Producer /\ SQP!Consumer = Consumer /\ SQP!END_OF_STREAM = END_OF_STREAM
BY DEF SQP!Producer, SQP!Consumer, SQP!END_OF_STREAM, Producer, Consumer, END_OF_STREAM

LEMMA InitQueue == Init => SQP!SInit
<1> SUFFICES ASSUME Init PROVE SQP!SInit
  OBVIOUS
<1> USE ThreadTypes
<1>1. Queue = <<>>
  <2>1. Queue \in Seq(Int) /\ Len(Queue) = 0
    BY InitInv, QueueType DEF Init
  <2> QED BY <2>1, EmptySeq
<1>2. Eos = 0
  BY DEF Init, Eos
<1>3. \A p \in Producer : Filled(p) = 0
  BY DEF Init, Filled
<1>4. Sent = [p \in Producer |-> 0]
  BY <1>3 DEF Sent
<1> QED BY <1>1, <1>2, <1>4, SameSets DEF SQP!SInit, Init

\* A step that leaves the ring alone and does not change what is stored.
LEMMA Stutter ==
  ASSUME UNCHANGED ring, UNCHANGED tmp, \A p \in Producer : Filled(p)' = Filled(p), Eos' = Eos
  PROVE  UNCHANGED SQP!svars
<1>1. Queue' = Queue
  BY DEF Queue, ring
<1>2. Sent' = Sent
  BY DEF Sent
<1> QED BY <1>1, <1>2 DEF SQP!svars

\* The protocol without the operation, and the unlocks: i and the label of the
\* thread make up for each other.
LEMMA QuietQueue ==
  ASSUME CtlInv, NEW t \in Thread,
         \/ Lock(t) \/ Sleep(t) \/ Wake(t) \/ Pass(t) \/ Signal(t) \/ SpuriousWakeup(t)
         \/ t \in Producer /\ ProducerUnlock(t)
         \/ t \in Consumer /\ ConsumerUnlock(t)
         \/ t = Main /\ MainUnlock
  PROVE  UNCHANGED SQP!svars
<1> USE ThreadTypes
<1>1. /\ pc \in [Thread -> Label] /\ i \in [Filler -> Nat] /\ after_wait \in {"test", "op"}
      /\ UNCHANGED ring /\ UNCHANGED tmp
  BY ArgsAssumption DEF Lock, Sleep, Wake, Pass, Signal, SpuriousWakeup, ProducerUnlock, ConsumerUnlock,
     MainUnlock, locals, CtlInv, IInv, TypeOK
<1>2. \A u \in Thread \ {t} : pc'[u] = pc[u] /\ (u \in Filler => i'[u] = i[u])
  BY <1>1 DEF Lock, Sleep, Wake, Pass, Signal, SpuriousWakeup, ProducerUnlock, ConsumerUnlock,
     MainUnlock, Goto, locals
<1>3. ASSUME t \in Filler PROVE /\ Filled(t)' = Filled(t)
                                /\ pc[t] # pc'[t] => pc[t] \in {"lock", "test", "asleep", "signal", "unlock"}
                                                     /\ pc'[t] \in {"lock", "test", "asleep", "op", "unlock", "done"}
                                /\ t = Main => pc'[t] # "done"
  BY <1>1, <1>3 DEF Lock, Sleep, Wake, Pass, Signal, SpuriousWakeup, ProducerUnlock, MainUnlock,
     Goto, locals, Filled, CtlInv, ThreadLabels
<1>4. \A p \in Producer : Filled(p)' = Filled(p)
  BY <1>2, <1>3 DEF Filled
<1>5. Eos' = Eos
  <2>1. CASE t = Main
    BY <1>3, <2>1 DEF Eos
  <2>2. CASE t # Main
    BY <1>2, <2>2 DEF Eos, Filled
  <2> QED BY <2>1, <2>2
<1> QED BY <1>1, <1>4, <1>5, Stutter

LEMMA MainQueue ==
  ASSUME CtlInv, Create \/ MainLoopEnd \/ JoinProducer \/ JoinConsumer \/ Exit
  PROVE  UNCHANGED SQP!svars
<1> USE ThreadTypes
<1>1. /\ pc \in [Thread -> Label] /\ i \in [Filler -> Nat]
      /\ UNCHANGED ring /\ UNCHANGED tmp /\ \A p \in Producer : p # Main /\ i'[p] = i[p]
  BY DEF Create, MainLoopEnd, LoopEnd, JoinProducer, JoinConsumer, Join, Exit, locals,
         CtlInv, IInv, TypeOK
<1>2. CASE Create
  <2>1. /\ pc[Main] = "create" /\ i[Main] \in 0 .. producers + consumers - 1
        /\ pc' = [pc EXCEPT ![i[Main]] = "lock"]
    BY <1>1, <1>2, ArgsAssumption DEF Create
  <2>2. i[Main] \in Thread /\ i[Main] # Main
    BY <2>1, ArgsAssumption DEF Thread, Filler, Producer, Consumer, Main
  <2>3. pc[i[Main]] = "unborn"
    BY <2>1, <2>2 DEF CtlInv, IInv, NotYetCreated
  <2>4. Eos' = Eos
    BY <1>1, <2>1, <2>2 DEF Eos
  <2>5. \A p \in Producer : Filled(p)' = Filled(p)
    BY <1>1, <2>1, <2>2, <2>3 DEF Filled
  <2> QED BY <1>1, <2>4, <2>5, Stutter
<1>3. CASE MainLoopEnd
  <2>1. PICK l \in {"join_producers", "lock", "join_consumers"} :
          /\ pc' = [pc EXCEPT ![Main] = l] /\ i' = [i EXCEPT ![Main] = 0]
          /\ l = "join_producers" => pc[Main] = "create"
          /\ l = "lock" => pc[Main] = "join_producers"
          /\ l = "join_consumers" => pc[Main] = "lock" /\ i[Main] = consumers
    BY <1>3 DEF MainLoopEnd, LoopEnd
  <2>2. pc'[Main] = l /\ i'[Main] = 0
    BY <1>1, <2>1
  <2>3. Eos' = Eos
    BY <2>1, <2>2, <1>1, ArgsAssumption DEF Eos, Filled
  <2>4. \A p \in Producer : Filled(p)' = Filled(p)
    BY <1>1, <2>1 DEF Filled
  <2> QED BY <1>1, <2>3, <2>4, Stutter
<1>4. CASE JoinProducer \/ JoinConsumer \/ Exit
  <2>1. pc' = pc /\ pc[Main] \in {"join_producers", "join_consumers"}
    BY <1>4 DEF JoinProducer, JoinConsumer, Join, Exit
  <2>2. Eos' = Eos /\ \A p \in Producer : Filled(p)' = Filled(p)
    BY <1>1, <2>1 DEF Eos, Filled
  <2> QED BY <1>1, <2>2, Stutter
<1> QED BY <1>2, <1>3, <1>4

\* do_fill is Put or PutEos.
LEMMA FillQueue ==
  ASSUME CtlInv, CtlInv', NoEnsureFailure', NEW t \in Filler, Fill(t)
  PROVE  (SQP!PutEos \/ \E p \in Producer : SQP!Put(p)) /\ taken' = taken
<1> USE ThreadTypes, ArgsAssumption
<1>1. /\ pc \in [Thread -> Label] /\ i \in [Filler -> Nat] /\ num_full \in 0 .. max
      /\ pc[t] = "op" /\ pc' = [pc EXCEPT ![t] = "signal"] /\ i' = i /\ tmp' = tmp /\ taken' = taken
  BY DEF Fill, Goto, locals, CtlInv, IInv, TypeOK
<1>2. buffer[fill_ptr] = EMPTY /\ num_full < max
  <2>1. status' # "failed"
    BY DEF NoEnsureFailure
  <2>2. buffer[fill_ptr] = EMPTY
    BY <2>1 DEF Fill, do_fill
  <2> QED BY <1>1, <2>2, FillSlot DEF CtlInv, IInv
<1>3. /\ buffer' = [buffer EXCEPT ![fill_ptr] = ValueOf(t)]
      /\ num_full' = num_full + 1 /\ use_ptr' = use_ptr
  BY <1>2 DEF Fill, do_fill
<1>4. ValueOf(t) \in Int
  <2>1. t # Main => t * loops + i[t] \in Int
    BY <1>1 DEF Filler, Producer
  <2> QED BY <2>1 DEF ValueOf, END_OF_STREAM
<1>5. Queue' = Append(Queue, ValueOf(t)) /\ Len(Queue) < max
  BY <1>2, <1>3, <1>4, QueueFill, QueueType DEF CtlInv
<1>6. Filled(t) = i[t] /\ Filled(t)' = i[t] + 1 /\ \A p \in Filler \ {t} : Filled(p)' = Filled(p)
  BY <1>1 DEF Filled
<1>7. CASE t = Main
  <2>1. Eos = i[Main] /\ Eos' = i[Main] + 1 /\ i[Main] < consumers
    BY <1>1, <1>6, <1>7 DEF Eos, CtlInv, MainProgress, Held
  <2>2. Sent' = Sent
    BY <1>6, <1>7 DEF Sent
  <2>3. \A p \in Producer : Sent[p] = loops
    BY <1>1, <1>7 DEF Sent, Filled, CtlInv, MainProgress, Returned
  <2>4. SQP!PutEos
    BY <1>1, <1>5, <1>7, <2>1, <2>2, <2>3, SameSets DEF SQP!PutEos, SQP!Enqueue, ValueOf
  <2> QED BY <1>1, <2>4
<1>8. CASE t # Main
  <2>1. t \in Producer /\ i[t] < loops
    BY <1>1, <1>8 DEF CtlInv, IInv, ItemsLeft
  <2>2. Sent[t] = i[t] /\ Sent' = [Sent EXCEPT ![t] = @ + 1]
    BY <1>6, <2>1 DEF Sent
  <2>3. Eos' = Eos
    BY <1>1, <1>6, <1>8 DEF Eos
  <2>4. SQP!Put(t)
    BY <1>1, <1>5, <1>8, <2>1, <2>2, <2>3 DEF SQP!Put, SQP!Enqueue, ValueOf
  <2> QED BY <1>1, <2>1, <2>4
<1> QED BY <1>7, <1>8

\* do_get is Take.
LEMMA GetQueue ==
  ASSUME CtlInv, CtlInv', NoEnsureFailure', NEW c \in Consumer, Get(c)
  PROVE  SQP!Take(c) /\ taken' = taken \cup ({Head(Queue)} \ {END_OF_STREAM})
<1> USE ThreadTypes
<1>1. /\ pc \in [Thread -> Label] /\ num_full \in 0 .. max
      /\ pc[c] = "op" /\ pc' = [pc EXCEPT ![c] = "signal"] /\ i' = i
  BY DEF Get, Goto, CtlInv, IInv, TypeOK
<1>2. buffer[use_ptr] # EMPTY /\ num_full > 0
  <2>1. status' # "failed"
    BY DEF NoEnsureFailure
  <2>2. buffer[use_ptr] # EMPTY
    BY <2>1 DEF Get, do_get
  <2> QED BY <1>1, <2>2, GetSlot DEF CtlInv, IInv
<1>3. /\ buffer' = [buffer EXCEPT ![use_ptr] = EMPTY]
      /\ num_full' = num_full - 1 /\ use_ptr' = Succ(use_ptr)
      /\ tmp' = [tmp EXCEPT ![c] = buffer[use_ptr]]
      /\ taken' = taken \cup ({buffer[use_ptr]} \ {END_OF_STREAM})
  BY <1>2 DEF Get, do_get
<1>4. Queue # <<>> /\ Head(Queue) = buffer[use_ptr] /\ Queue' = Tail(Queue)
  BY <1>2, <1>3, QueueGet DEF CtlInv
<1>5. tmp[c] # END_OF_STREAM
  BY <1>1 DEF CtlInv, EndsOnMarker
<1>6. \A p \in Filler : Filled(p)' = Filled(p) /\ pc'[p] = pc[p]
  BY <1>1 DEF Filled
<1>7. Sent' = Sent /\ Eos' = Eos
  BY <1>6 DEF Sent, Eos
<1> QED BY <1>3, <1>4, <1>5, <1>7, SameSets DEF SQP!Take

\* What a step does to the queue and to the history of what has been taken.
LEMMA QueueSteps ==
  ASSUME CtlInv, CtlInv', NoEnsureFailure', [Next]_vars
  PROVE  \/ UNCHANGED SQP!svars /\ taken' = taken
         \/ (SQP!PutEos \/ \E p \in Producer : SQP!Put(p)) /\ taken' = taken
         \/ \E c \in Consumer : SQP!Take(c) /\ taken' = taken \cup ({Head(Queue)} \ {END_OF_STREAM})
<1>1. CASE UNCHANGED vars
  <2>1. UNCHANGED ring /\ UNCHANGED <<pc, i, tmp, taken>>
    BY <1>1 DEF vars, locals
  <2>2. (\A p \in Producer : Filled(p)' = Filled(p)) /\ Eos' = Eos
    BY <2>1 DEF Filled, Eos
  <2> QED BY <2>1, <2>2, Stutter
<1>2. CASE Next
  <2> PICK t \in Thread : Step(t) \/ SpuriousWakeup(t)
    BY <1>2 DEF Next
  <2>1. CASE \/ Lock(t) \/ Sleep(t) \/ Wake(t) \/ Pass(t) \/ Signal(t) \/ SpuriousWakeup(t)
             \/ t \in Producer /\ ProducerUnlock(t)
             \/ t \in Consumer /\ ConsumerUnlock(t)
             \/ t = Main /\ MainUnlock
    <3>1. taken' = taken
      BY <2>1 DEF Lock, Sleep, Wake, Pass, Signal, SpuriousWakeup, ProducerUnlock, ConsumerUnlock,
         MainUnlock, locals
    <3> QED BY <2>1, <3>1, QuietQueue
  <2>2. CASE t \in Filler /\ Fill(t)
    BY <2>2, FillQueue
  <2>3. CASE t \in Consumer /\ Get(t)
    BY <2>3, GetQueue
  <2>4. CASE Create \/ MainLoopEnd \/ JoinProducer \/ JoinConsumer \/ Exit
    <3>1. taken' = taken
      BY <2>4 DEF Create, MainLoopEnd, LoopEnd, JoinProducer, JoinConsumer, Join, Exit, locals
    <3> QED BY <2>4, <3>1, MainQueue
  <2> QED BY <2>1, <2>2, <2>3, <2>4, ThreadTypes DEF Step, producer, consumer, main, MainStep
<1> QED BY <1>1, <1>2

LEMMA QueueStep ==
  ASSUME CtlInv, CtlInv', NoEnsureFailure', [Next]_vars
  PROVE  [SQP!SNext]_(SQP!svars)
BY QueueSteps, SameSets DEF SQP!SNext

LEMMA Queues ==
  ASSUME EnsureArgs
  PROVE  Spec => SQP!SSpec
<1>1. Init => SQP!SInit
  BY InitQueue
<1>2. CtlInv /\ CtlInv' /\ NoEnsureFailure' /\ [Next]_vars => [SQP!SNext]_(SQP!svars)
  BY QueueStep
<1> QED BY <1>1, <1>2, CtlInvariance, EnsureHolds, PTL DEF Spec, SQP!SSpec

\* The queue as ProducerConsumer writes it.
LEMMA SameQueue ==
  /\ SQ!SInit <=> SQP!SInit
  /\ [SQ!SNext]_(SQ!svars) <=> [SQP!SNext]_(SQP!svars)
  /\ SQ!EosLast <=> SQP!EosLast
  /\ SQ!OneMarkerPerConsumer <=> SQP!OneMarkerPerConsumer
<1> USE DEF Queue, Sent, Eos, SQ!END_OF_STREAM, SQP!END_OF_STREAM
<1>1. SQ!Producer = SQP!Producer /\ SQ!Consumer = SQP!Consumer /\ SQ!svars = SQP!svars
  BY DEF SQ!Producer, SQP!Producer, SQ!Consumer, SQP!Consumer, SQ!svars, SQP!svars
<1>2. SQ!SInit <=> SQP!SInit
  BY <1>1 DEF SQ!SInit, SQP!SInit
<1>3. \A p : SQ!Put(p) <=> SQP!Put(p)
  BY DEF SQ!Put, SQP!Put, SQ!Enqueue, SQP!Enqueue
<1>4. SQ!PutEos <=> SQP!PutEos
  BY <1>1 DEF SQ!PutEos, SQP!PutEos, SQ!Enqueue, SQP!Enqueue
<1>5. \A c : SQ!Take(c) <=> SQP!Take(c)
  BY DEF SQ!Take, SQP!Take
<1>6. [SQ!SNext]_(SQ!svars) <=> [SQP!SNext]_(SQP!svars)
  <2>1. SQ!SNext <=> SQP!SNext
    BY <1>1, <1>3, <1>4, <1>5 DEF SQ!SNext, SQP!SNext
  <2>2. SQ!svars' = SQP!svars'
    BY DEF SQ!svars, SQP!svars
  <2> QED BY <1>1, <2>1, <2>2
<1>7. SQ!EosLast <=> SQP!EosLast
  BY DEF SQ!EosLast, SQP!EosLast
<1>8. \A S : SQ!Cardinality(S) = SQP!Cardinality(S)
  BY DEF SQ!Cardinality, SQP!Cardinality
<1>9. SQ!OneMarkerPerConsumer <=> SQP!OneMarkerPerConsumer
  BY <1>1, <1>8 DEF SQ!OneMarkerPerConsumer, SQP!OneMarkerPerConsumer, SQ!Ended, SQP!Ended
<1> QED BY <1>2, <1>6, <1>7, <1>9

\* Where no ensure() fails, in main-two-cvs-while.c and main-one-cv-while.c and
\* in main-two-cvs-if.c with one of each, the programs implement the queue:
\* do_fill and do_get are its steps, all else of the protocol changes nothing of
\* it.
THEOREM RefinesQueue ==
  ASSUME EnsureArgs
  PROVE  Spec => ImplementsQueue
<1>1. SQ!SInit <=> SQP!SInit
  BY SameQueue
<1>2. [SQ!SNext]_(SQ!svars) <=> [SQP!SNext]_(SQP!svars)
  BY SameQueue
<1> QED BY <1>1, <1>2, Queues, PTL DEF ImplementsQueue, SQ!SSpec, SQP!SSpec

LEMMA Args == SQP!SArgs
BY ArgsAssumption DEF SQP!SArgs

LEMMA QueueInvariance ==
  ASSUME EnsureArgs
  PROVE  Spec => []SQP!SInv
<1>1. SQP!SSpec => []SQP!SInv
  BY Args, SQP!SInvariance
<1> QED BY <1>1, Queues, PTL

\* Then no item ever lies behind a marker in the ring, because
\* main() stores markers only after it has joined every producer.
THEOREM EosStaysLast ==
  ASSUME EnsureArgs
  PROVE  Spec => []EosLast
<1>1. SQP!SSpec => []SQP!EosLast
  BY Args, SQP!MarkersBehindItems
<1>2. SQP!EosLast => EosLast
  BY SameQueue DEF EosLast
<1> QED BY <1>1, <1>2, Queues, PTL

\* Then no marker is lost and none ends two consumers: every
\* marker main() has stored is in the ring or has ended a consumer of its own.
THEOREM OneMarkerEach ==
  ASSUME EnsureArgs
  PROVE  Spec => []OneMarkerPerConsumer
<1>1. SQP!SSpec => []SQP!OneMarkerPerConsumer
  BY Args, SQP!MarkersCounted
<1>2. SQP!OneMarkerPerConsumer => OneMarkerPerConsumer
  BY SameQueue DEF OneMarkerPerConsumer
<1> QED BY <1>1, <1>2, Queues, PTL
-----------------------------------------------------------------------------
(* Nothing is lost and nothing invented.                                   *)

\* Item n has been stored by a producer, or lies in the ring.
Stored(n) == \E p \in Producer : \E k \in 0 .. Sent[p] - 1 : n = p * loops + k
Queued(n) == n # END_OF_STREAM /\ \E j \in 1 .. Len(Queue) : Queue[j] = n

Conserved == \A n \in Int : Stored(n) <=> n \in taken \/ Queued(n)

LEMMA InitConserved == Init => Conserved
<1> SUFFICES ASSUME Init PROVE Conserved
  OBVIOUS
<1>1. Len(Queue) = 0 /\ taken = {}
  BY InitInv, QueueType DEF Init
<1>2. \A p \in Producer : Sent[p] = 0
  BY ThreadTypes DEF Init, Sent, Filled
<1> QED BY <1>1, <1>2 DEF Conserved, Stored, Queued

LEMMA ConservedStep ==
  ASSUME CtlInv, CtlInv', NoEnsureFailure', Conserved, [Next]_vars
  PROVE  Conserved'
<1> USE DEF Conserved
<1>1. CASE UNCHANGED SQP!svars /\ taken' = taken
  BY <1>1 DEF SQP!svars, Stored, Queued
<1>2. Queue \in Seq(Int) /\ Len(Queue) \in Nat
  BY QueueType, LenProperties DEF CtlInv
<1>3. ASSUME NEW v \in Int, Queue' = Append(Queue, v), taken' = taken
      PROVE  \A n \in Int : Queued(n)' <=> Queued(n) \/ (n = v /\ v # END_OF_STREAM)
  <2>1. /\ Len(Queue') = Len(Queue) + 1 /\ Queue'[Len(Queue) + 1] = v
        /\ \A k \in 1 .. Len(Queue) : Queue'[k] = Queue[k]
    BY <1>2, <1>3, AppendProperties
  <2> QED BY <1>2, <2>1 DEF Queued
<1>4. ASSUME NEW p \in Producer, SQP!Put(p), taken' = taken PROVE Conserved'
  <2>1. Sent[p] \in Nat /\ p \in Nat /\ loops \in Nat /\ Sent \in [Producer -> Int]
    BY ThreadTypes, ArgsAssumption DEF Sent, Filled, CtlInv, IInv, TypeOK, Producer
  <2>2. p * loops + Sent[p] \in Nat
    <3>1. p * loops \in Nat
      BY <2>1
    <3> QED BY <2>1, <3>1
  <2>3. Queue' = Append(Queue, p * loops + Sent[p]) /\ Sent' = [Sent EXCEPT ![p] = @ + 1]
    BY <1>4 DEF SQP!Put, SQP!Enqueue
  <2>4. \A n \in Int : Queued(n)' <=> Queued(n) \/ n = p * loops + Sent[p]
    BY <1>3, <1>4, <2>2, <2>3 DEF END_OF_STREAM
  <2>5. \A n \in Int : Stored(n)' <=> Stored(n) \/ n = p * loops + Sent[p]
    <3>1. /\ \A q \in Producer \ {p} : Sent'[q] = Sent[q]
          /\ Sent'[p] = Sent[p] + 1
      BY <2>1, <2>3
    <3>2. \A k : k \in 0 .. Sent'[p] - 1 <=> k \in 0 .. Sent[p] - 1 \/ k = Sent[p]
      BY <2>1, <3>1
    <3> QED BY <3>1, <3>2 DEF Stored
  <2> QED BY <1>4, <2>4, <2>5
<1>5. CASE SQP!PutEos /\ taken' = taken
  <2>1. Queue' = Append(Queue, END_OF_STREAM) /\ Sent' = Sent /\ END_OF_STREAM \in Int
    BY <1>5, SameSets DEF SQP!PutEos, SQP!Enqueue, END_OF_STREAM
  <2>2. \A n \in Int : Queued(n)' <=> Queued(n)
    BY <1>3, <1>5, <2>1
  <2>3. \A n \in Int : Stored(n)' <=> Stored(n)
    BY <2>1 DEF Stored
  <2> QED BY <1>5, <2>2, <2>3
<1>6. ASSUME NEW c \in Consumer, SQP!Take(c), taken' = taken \cup ({Head(Queue)} \ {END_OF_STREAM})
      PROVE  Conserved'
  <2>1. Queue # <<>> /\ Queue' = Tail(Queue) /\ Sent' = Sent
    BY <1>6 DEF SQP!Take
  <2>2. /\ Len(Queue') = Len(Queue) - 1 /\ Head(Queue) = Queue[1] /\ Len(Queue) \in Nat \ {0}
        /\ \A k \in 1 .. Len(Queue) - 1 : Queue'[k] = Queue[k + 1]
    BY <1>2, <2>1, HeadTailProperties, EmptySeq
  <2>3. \A n \in Int : Queued(n) <=> Queued(n)' \/ (n = Head(Queue) /\ n # END_OF_STREAM)
    <3> SUFFICES ASSUME NEW n \in Int, n # END_OF_STREAM
                 PROVE  (\E j \in 1 .. Len(Queue) : Queue[j] = n) <=>
                        (\E j \in 1 .. Len(Queue) - 1 : Queue'[j] = n) \/ n = Queue[1]
      BY <2>2 DEF Queued
    <3>1. ASSUME NEW j \in 1 .. Len(Queue), Queue[j] = n, j # 1
          PROVE  \E k \in 1 .. Len(Queue) - 1 : Queue'[k] = n
      <4>1. j - 1 \in 1 .. Len(Queue) - 1 /\ Queue'[j - 1] = n
        BY <2>2, <3>1
      <4> QED BY <4>1
    <3>2. ASSUME NEW k \in 1 .. Len(Queue) - 1, Queue'[k] = n
          PROVE  \E j \in 1 .. Len(Queue) : Queue[j] = n
      <4>1. k + 1 \in 1 .. Len(Queue) /\ Queue[k + 1] = n
        BY <2>2, <3>2
      <4> QED BY <4>1
    <3>3. 1 \in 1 .. Len(Queue)
      BY <2>2
    <3> QED BY <3>1, <3>2, <3>3
  <2>4. \A n \in Int : Stored(n)' <=> Stored(n)
    BY <2>1 DEF Stored
  <2> QED BY <1>6, <2>3, <2>4
<1> QED BY <1>1, <1>4, <1>5, <1>6, QueueSteps

\* Every item is some producer's.
LEMMA ItemOfProducer ==
  ASSUME NEW a \in Nat, NEW b \in Nat \ {0}, NEW n \in 0 .. a * b - 1
  PROVE  \E p \in 0 .. a - 1 : \E k \in 0 .. b - 1 : n = p * b + k
<1> DEFINE T == {q \in Nat : n < q * b}
<1>1. a \in T
  OBVIOUS
<1>2. PICK q \in T : \A r \in T : ~(<<r, q>> \in OpToRel(<, Nat))
  <2> HIDE DEF T
  <2>1. T \subseteq Nat
    BY DEF T
  <2> QED BY <1>1, <2>1, NatLessThanWellFounded, WFMin
<1>3. \A r \in T : ~(r < q)
  BY <1>2 DEF OpToRel
<1>4. q # 0 /\ q \in Nat /\ n < q * b
  BY SMT
<1>5. q - 1 \in Nat /\ q - 1 \notin T
  BY <1>3, <1>4, SMT
<1>6. (q - 1) * b \in Int /\ (q - 1) * b = q * b - b
  BY <1>4, SMT
<1>7. n - (q - 1) * b \in 0 .. b - 1
  BY <1>4, <1>5, <1>6, SMT
<1>8. q - 1 < a
  BY <1>1, <1>3, <1>4
<1>9. ASSUME NEW p \in 0 .. a - 1, NEW k \in 0 .. b - 1, n = p * b + k
      PROVE  \E pp \in 0 .. a - 1 : \E kk \in 0 .. b - 1 : n = pp * b + kk
  BY <1>9, Zenon
<1>10. q - 1 \in 0 .. a - 1 /\ n = (q - 1) * b + (n - (q - 1) * b)
  BY <1>4, <1>5, <1>6, <1>8
<1> HIDE DEF T
<1> QED BY <1>7, <1>9, <1>10, Zenon

LEMMA ItemOfSome ==
  ASSUME NEW n \in Item
  PROVE  \E p \in 0 .. producers - 1 : \E k \in 0 .. loops - 1 : n = p * loops + k
<1>1. producers \in Nat /\ loops \in Nat \ {0}
  BY ArgsAssumption
<1> QED BY <1>1, ItemOfProducer, Zenon DEF Item

\* When main() has returned, all has been stored and nothing is left.
LEMMA AtExit ==
  ASSUME CtlInv, SQP!SInv, consumers > 0, status = "exited"
  PROVE  /\ Eos = consumers /\ num_full = 0 /\ Len(Queue) = 0
         /\ \A p \in Producer : Sent[p] = loops
         /\ \A c \in Consumer : pc[c] = "done"
<1> USE ThreadTypes, ArgsAssumption
<1>1. pc[Main] = "join_consumers" /\ i[Main] = consumers /\ \A p \in Producer : pc[p] = "done"
  BY DEF CtlInv, MainProgress
<1>2. \A c \in Consumer : pc[c] = "done" /\ tmp[c] = END_OF_STREAM
  <2>1. \A c \in Consumer : c < producers + consumers
    BY DEF Consumer
  <2> QED BY <1>1, <2>1 DEF CtlInv, MainProgress, EndsOnMarker
<1>3. Len(Queue) = 0
  BY <1>1, <1>2, SQP!AllEnded, SameSets DEF Eos, SQP!SArgs
<1>4. \A p \in Producer : Sent[p] = loops
  BY <1>1 DEF Sent, Filled, CtlInv, Returned
<1>5. Eos = consumers /\ num_full = 0
  BY <1>1, <1>3, QueueType DEF Eos, CtlInv
<1> QED BY <1>2, <1>3, <1>4, <1>5

LEMMA ExitOfInv ==
  ASSUME CtlInv, SQP!SInv, Conserved, consumers > 0
  PROVE  ExitComplete
<1> SUFFICES ASSUME status = "exited" PROVE taken = Item /\ num_full = 0
  BY DEF ExitComplete
<1> USE ThreadTypes, ArgsAssumption
<1>1. Len(Queue) = 0 /\ num_full = 0
  BY AtExit
<1>2. \A p \in Producer : Sent[p] = loops
  BY AtExit
<1>3. \A n \in Int : Stored(n) <=> n \in taken
  BY <1>1 DEF Conserved, Queued
<1>4. ASSUME NEW n \in Item PROVE Stored(n)
  <2>1. \E p \in 0 .. producers - 1 : \E k \in 0 .. loops - 1 : n = p * loops + k
    BY ItemOfSome
  <2> QED BY <1>2, <2>1 DEF Stored, Producer
<1>5. taken = Item
  <2>1. taken \subseteq Item /\ Item \subseteq Int
    BY DEF CtlInv, IInv, TypeOK, Item
  <2> QED BY <1>3, <1>4, <2>1
<1> QED BY <1>1, <1>5

\* Where no ensure() fails, when main() returns the consumers have taken every item
\* and the ring is empty.  Without consumers (-c 0) this is false: nobody takes
\* what the producers stored.
THEOREM ExitsComplete ==
  ASSUME EnsureArgs, consumers > 0
  PROVE  Spec => []ExitComplete
<1>1. Init => Conserved
  BY InitConserved
<1>2. CtlInv /\ CtlInv' /\ NoEnsureFailure' /\ Conserved /\ [Next]_vars => Conserved'
  BY ConservedStep
<1>3. CtlInv /\ SQP!SInv /\ Conserved => ExitComplete
  BY ExitOfInv
<1> QED BY <1>1, <1>2, <1>3, CtlInvariance, QueueInvariance, EnsureHolds, PTL DEF Spec
-----------------------------------------------------------------------------
(* The consumers' counts.                                                  *)

\* The entries consumer c has taken, apart from its marker.
TakenOf == [c \in Consumer |->
              consumed_count[c] - 1 + IF pc[c] \in {"signal", "unlock"} THEN 1 ELSE 0]

\* What has been stored has been taken or is in the ring.  TakenOf counts one
\* entry per consumer too few, the marker.
Balance ==
  SumOf(Sent, Producer) + Eos = SumOf(TakenOf, Consumer) + consumers + num_full

LEMMA ThreadSets ==
  /\ IsFiniteSet(Producer) /\ Cardinality(Producer) = producers /\ producers \in Nat
  /\ IsFiniteSet(Consumer) /\ Cardinality(Consumer) = consumers /\ consumers \in Nat
<1>1. producers \in Nat /\ consumers \in Nat
  BY ArgsAssumption
<1>2. IsFiniteSet(Producer) /\ Cardinality(Producer) = producers
  BY <1>1, FS_Interval DEF Producer
<1>3. IsFiniteSet(Consumer) /\ Cardinality(Consumer) = producers + consumers - 1 - producers + 1
  BY <1>1, FS_Interval DEF Consumer
<1> QED BY <1>1, <1>2, <1>3

LEMMA CountTypes ==
  CtlInv => /\ Sent \in [Producer -> Int] /\ TakenOf \in [Consumer -> Int]
            /\ Eos \in Int /\ num_full \in Int
<1> SUFFICES ASSUME CtlInv
             PROVE  /\ Sent \in [Producer -> Int] /\ TakenOf \in [Consumer -> Int]
                    /\ Eos \in Int /\ num_full \in Int
  OBVIOUS
<1>1. /\ i \in [Filler -> Nat] /\ consumed_count \in [Consumer -> Nat] /\ num_full \in Int
      /\ consumers \in Nat
  BY ArgsAssumption DEF CtlInv, IInv, TypeOK
<1>2. \A t \in Filler : Filled(t) \in Int
  BY <1>1 DEF Filled
<1> QED BY <1>1, <1>2, ThreadTypes DEF Sent, TakenOf, Eos

LEMMA InitBalance == Init => Balance
<1> SUFFICES ASSUME Init PROVE Balance
  OBVIOUS
<1>1. CtlInv
  BY InitCtl
<1>2. \A p \in Producer : Sent[p] = 0
  BY ThreadTypes DEF Init, Sent, Filled
<1>3. \A c \in Consumer : TakenOf[c] = -1
  BY ThreadTypes DEF Init, TakenOf
<1>4. SumOf(Sent, Producer) = producers * 0
  BY <1>1, <1>2, ThreadSets, CountTypes, SumOfEqual
<1>5. SumOf(TakenOf, Consumer) = consumers * (-1)
  <2>1. IsFiniteSet(Consumer) /\ Cardinality(Consumer) = consumers /\ -1 \in Int
    BY ThreadSets
  <2>2. TakenOf \in [Consumer -> Int]
    BY <1>1, CountTypes
  <2>3. PICK a \in Int : a = -1
    BY <2>1
  <2>4. \A c \in Consumer : TakenOf[c] = a
    BY <1>3, <2>3
  <2>5. SumOf(TakenOf, Consumer) = Cardinality(Consumer) * a
    BY <2>1, <2>2, <2>4, SumOfEqual
  <2> QED BY <2>1, <2>3, <2>5
<1>6. Eos = 0 /\ num_full = 0
  BY ThreadTypes DEF Init, Eos
<1> QED BY <1>4, <1>5, <1>6, ThreadSets DEF Balance

\* Apart from do_get, a consumer's count and its label make up for each other.
LEMMA QuietCounts ==
  ASSUME CtlInv, NEW t \in Thread,
         \/ Lock(t) \/ Sleep(t) \/ Wake(t) \/ Pass(t) \/ Signal(t) \/ SpuriousWakeup(t)
         \/ t \in Filler /\ Fill(t)
         \/ t \in Producer /\ ProducerUnlock(t)
         \/ t \in Consumer /\ ConsumerUnlock(t)
         \/ Create \/ MainLoopEnd \/ JoinProducer \/ MainUnlock \/ JoinConsumer \/ Exit
  PROVE  TakenOf' = TakenOf
<1> USE ThreadTypes
<1>1. /\ pc \in [Thread -> Label] /\ consumed_count \in [Consumer -> Nat]
      /\ after_wait \in {"test", "op"}
  BY ArgsAssumption DEF CtlInv, IInv, TypeOK
<1> SUFFICES ASSUME NEW c \in Consumer
             PROVE  consumed_count'[c] - 1 + (IF pc'[c] \in {"signal", "unlock"} THEN 1 ELSE 0)
                    = consumed_count[c] - 1 + (IF pc[c] \in {"signal", "unlock"} THEN 1 ELSE 0)
  BY DEF TakenOf
<1>2. CASE Lock(t) \/ Sleep(t) \/ Wake(t) \/ Pass(t) \/ Signal(t) \/ SpuriousWakeup(t)
  BY <1>1, <1>2 DEF Lock, Sleep, Wake, Pass, Signal, SpuriousWakeup, Goto, locals
<1>3. CASE (t \in Filler /\ Fill(t)) \/ (t \in Producer /\ ProducerUnlock(t)) \/ MainUnlock
  BY <1>1, <1>3 DEF Fill, ProducerUnlock, MainUnlock, Goto, locals
<1>4. CASE t \in Consumer /\ ConsumerUnlock(t)
  BY <1>1, <1>4 DEF ConsumerUnlock, Goto
<1>5. CASE Create
  <2>1. /\ pc[Main] = "create" /\ pc' = [pc EXCEPT ![i[Main]] = "lock"]
        /\ consumed_count' = consumed_count
    BY <1>5 DEF Create
  <2>2. c = i[Main] => pc[c] = "unborn"
    BY <2>1 DEF CtlInv, IInv, NotYetCreated, Consumer
  <2> QED BY <1>1, <2>1, <2>2
<1>6. CASE MainLoopEnd \/ JoinProducer \/ JoinConsumer \/ Exit
  <2>1. consumed_count' = consumed_count /\ pc'[c] = pc[c]
    BY <1>1, <1>6 DEF MainLoopEnd, LoopEnd, JoinProducer, JoinConsumer, Join, Exit, locals
  <2> QED BY <2>1
<1> QED BY <1>2, <1>3, <1>4, <1>5, <1>6

LEMMA Lengths == CtlInv => Queue \in Seq(Int) /\ Len(Queue) = num_full
BY QueueType DEF CtlInv

LEMMA NextTypes ==
  CtlInv' => /\ Sent' \in [Producer -> Int] /\ TakenOf' \in [Consumer -> Int]
             /\ Eos' \in Int /\ num_full' \in Int /\ Len(Queue') = num_full'
<1>1. CtlInv => /\ Sent \in [Producer -> Int] /\ TakenOf \in [Consumer -> Int]
                /\ Eos \in Int /\ num_full \in Int /\ Len(Queue) = num_full
  BY CountTypes, Lengths
<1>2. CtlInv' => (/\ Sent \in [Producer -> Int] /\ TakenOf \in [Consumer -> Int]
                  /\ Eos \in Int /\ num_full \in Int /\ Len(Queue) = num_full)'
  BY <1>1, PTL
<1> QED BY <1>2 DEF Producer, Consumer

\* do_fill adds one to what is stored and to what is in the ring.
LEMMA FillBalance ==
  ASSUME CtlInv, CtlInv', Balance, SQP!PutEos \/ \E p \in Producer : SQP!Put(p),
         TakenOf' = TakenOf
  PROVE  Balance'
<1> USE ThreadSets, CountTypes, NextTypes, Lengths
<1>1. SumOf(Sent, Producer) \in Int /\ SumOf(TakenOf, Consumer) \in Int
  BY SumOfType
<1>2. PICK v : Queue' = Append(Queue, v)
  BY DEF SQP!PutEos, SQP!Put, SQP!Enqueue
<1>3. num_full' = num_full + 1
  BY <1>2
<1>4. SumOf(TakenOf', Consumer) = SumOf(TakenOf, Consumer)
  OBVIOUS
<1>5. SumOf(Sent', Producer) + Eos' = SumOf(Sent, Producer) + Eos + 1
  <2>1. CASE SQP!PutEos
    BY <1>1, <2>1 DEF SQP!PutEos
  <2>2. ASSUME NEW p \in Producer, SQP!Put(p)
        PROVE  SumOf(Sent', Producer) + Eos' = SumOf(Sent, Producer) + Eos + 1
    <3>1. Sent' = [Sent EXCEPT ![p] = @ + 1] /\ Eos' = Eos
      BY <2>2 DEF SQP!Put
    <3>2. Sent'[p] = Sent[p] + 1 /\ Sent[p] \in Int /\ \A q \in Producer \ {p} : Sent[q] = Sent'[q]
      BY <3>1
    <3>3. SumOf(Sent', Producer) = SumOf(Sent, Producer) + (Sent'[p] - Sent[p])
      BY <3>2, SumOfDiffer
    <3> QED BY <1>1, <3>1, <3>2, <3>3
  <2> QED BY <2>1, <2>2
<1> QED BY <1>1, <1>3, <1>4, <1>5 DEF Balance, Producer, Consumer

\* do_get moves one from the ring to what its consumer has taken.
LEMMA GetBalance ==
  ASSUME CtlInv, CtlInv', Balance, NEW c \in Consumer, Get(c), SQP!Take(c)
  PROVE  Balance'
<1>1. SumOf(Sent, Producer) \in Int /\ SumOf(TakenOf, Consumer) \in Int
  BY ThreadSets, CountTypes, SumOfType
<1>2. Queue # <<>> /\ Queue' = Tail(Queue) /\ Sent' = Sent /\ Eos' = Eos
  BY DEF SQP!Take
<1>3. num_full' = num_full - 1
  BY <1>2, Lengths, NextTypes, HeadTailProperties
<1>4. /\ pc \in [Thread -> Label] /\ consumed_count \in [Consumer -> Nat]
      /\ pc[c] = "op" /\ pc' = [pc EXCEPT ![c] = "signal"] /\ consumed_count' = consumed_count
  BY ThreadTypes DEF Get, Goto, CtlInv, IInv, TypeOK
<1>5. TakenOf'[c] = TakenOf[c] + 1 /\ TakenOf[c] \in Int
      /\ \A d \in Consumer \ {c} : TakenOf[d] = TakenOf'[d]
  BY <1>4, ThreadTypes DEF TakenOf
<1>6. TakenOf \in [Consumer -> Int] /\ TakenOf' \in [Consumer -> Int] /\ IsFiniteSet(Consumer)
  BY CountTypes, NextTypes, ThreadSets
<1>7. SumOf(TakenOf', Consumer) = SumOf(TakenOf, Consumer) + (TakenOf'[c] - TakenOf[c])
  BY <1>5, <1>6, SumOfDiffer
<1>8. SumOf(TakenOf', Consumer) = SumOf(TakenOf, Consumer) + 1
  BY <1>1, <1>5, <1>7
<1>9. Eos \in Int /\ num_full \in Int /\ consumers \in Int
  BY CountTypes, ThreadSets
<1> QED BY <1>1, <1>2, <1>3, <1>8, <1>9 DEF Balance

LEMMA BalanceStep ==
  ASSUME CtlInv, CtlInv', NoEnsureFailure', Balance, [Next]_vars
  PROVE  Balance'
<1>1. ASSUME UNCHANGED SQP!svars, TakenOf' = TakenOf PROVE Balance'
  <2>1. num_full' = num_full /\ Sent' = Sent /\ Eos' = Eos
    BY <1>1, Lengths, NextTypes DEF SQP!svars
  <2> QED BY <1>1, <2>1 DEF Balance, Producer, Consumer
<1>2. CASE UNCHANGED vars
  <2>1. UNCHANGED ring /\ UNCHANGED <<pc, i, tmp, consumed_count>>
    BY <1>2 DEF vars, locals
  <2>2. (\A p \in Producer : Filled(p)' = Filled(p)) /\ Eos' = Eos /\ TakenOf' = TakenOf
    BY <2>1 DEF Filled, Eos, TakenOf, Consumer
  <2> QED BY <1>1, <2>1, <2>2, Stutter
<1>3. CASE Next
  <2> PICK t \in Thread : Step(t) \/ SpuriousWakeup(t)
    BY <1>3 DEF Next
  <2>1. CASE \/ Lock(t) \/ Sleep(t) \/ Wake(t) \/ Pass(t) \/ Signal(t) \/ SpuriousWakeup(t)
             \/ t \in Producer /\ ProducerUnlock(t)
             \/ t \in Consumer /\ ConsumerUnlock(t)
             \/ t = Main /\ MainUnlock
    BY <1>1, <2>1, QuietQueue, QuietCounts
  <2>2. CASE t \in Filler /\ Fill(t)
    BY <2>2, FillQueue, QuietCounts, FillBalance
  <2>3. CASE t \in Consumer /\ Get(t)
    BY <2>3, GetQueue, GetBalance
  <2>4. CASE Create \/ MainLoopEnd \/ JoinProducer \/ JoinConsumer \/ Exit
    BY <1>1, <2>4, MainQueue, QuietCounts
  <2> QED BY <2>1, <2>2, <2>3, <2>4, ThreadTypes DEF Step, producer, consumer, main, MainStep
<1> QED BY <1>2, <1>3

\* The fold of CountsAddUp is such a sum.
LEMMA FoldOfCounts ==
  MapThenSumSet(LAMBDA c : consumed_count[c] - 1, Consumer)
    = SumOf([c \in Consumer |-> consumed_count[c] - 1], Consumer)
<1> DEFINE f == [c \in Consumer |-> consumed_count[c] - 1]
           Body(h) == [s \in SUBSET Consumer |->
             IF s = {} THEN 0
             ELSE LET x == CHOOSE x \in s : TRUE
                  IN  (consumed_count[x] - 1) + h[s \ {x}]]
<1>1. MapThenSumSet(LAMBDA c : consumed_count[c] - 1, Consumer)
      = (CHOOSE h : h = Body(h))[Consumer]
  BY Zenon DEF MapThenSumSet, MapThenFoldSet
<1>2. ASSUME NEW h PROVE (h = Body(h)) <=> Sums(f, Consumer, h)
  <2>1. Body(h) = [s \in SUBSET Consumer |-> IF s = {} THEN 0 ELSE f[Pick(s)] + h[s \ {Pick(s)}]]
    BY Picked DEF Pick
  <2> QED BY <2>1 DEF Sums
<1>3. (CHOOSE h : h = Body(h)) = CHOOSE h : Sums(f, Consumer, h)
  <2> HIDE DEF Body, f
  <2> QED BY <1>2
<1> HIDE DEF Body, f
<1>4. (CHOOSE h : h = Body(h))[Consumer] = SumOf(f, Consumer)
  BY <1>3 DEF SumOf
<1> QED BY <1>1, <1>4 DEF f

LEMMA CountsOfInv ==
  ASSUME CtlInv, SQP!SInv, Balance, consumers > 0
  PROVE  CountsAddUp
<1> SUFFICES ASSUME status = "exited"
             PROVE  MapThenSumSet(LAMBDA c : consumed_count[c] - 1, Consumer) = producers * loops
  BY DEF CountsAddUp
<1>1. /\ Eos = consumers /\ num_full = 0 /\ \A p \in Producer : Sent[p] = loops
      /\ \A c \in Consumer : pc[c] = "done"
  BY AtExit
<1>2. SumOf(Sent, Producer) = producers * loops
  BY <1>1, ThreadSets, CountTypes, SumOfEqual, ArgsAssumption
<1>3. TakenOf = [c \in Consumer |-> consumed_count[c] - 1]
  BY <1>1 DEF TakenOf, CtlInv, IInv, TypeOK
<1>4. SumOf(TakenOf, Consumer) = producers * loops
  <2>1. SumOf(TakenOf, Consumer) \in Int /\ producers * loops \in Int
    BY ThreadSets, CountTypes, SumOfType, ArgsAssumption
  <2> QED BY <1>1, <1>2, <2>1, ThreadSets DEF Balance
<1> QED BY <1>3, <1>4, FoldOfCounts

\* Where no ensure() fails, when main() returns the counts of the consumers add
\* up to the number of items, markers apart, however many threads there are.
\* Without consumers (-c 0) the sum is 0, whatever was produced.
THEOREM CountsComplete ==
  ASSUME EnsureArgs, consumers > 0
  PROVE  Spec => []CountsAddUp
<1>1. Init => Balance
  BY InitBalance
<1>2. CtlInv /\ CtlInv' /\ NoEnsureFailure' /\ Balance /\ [Next]_vars => Balance'
  BY BalanceStep
<1>3. CtlInv /\ SQP!SInv /\ Balance => CountsAddUp
  BY CountsOfInv
<1> QED BY <1>1, <1>2, <1>3, CtlInvariance, QueueInvariance, EnsureHolds, PTL DEF Spec
-----------------------------------------------------------------------------
(* No wake-up is lost.                                                     *)

\* What those who wait on cv wait for: free slots, or entries.
Room(cv) == IF cv = empty_cv THEN max - num_full ELSE num_full

\* Thread t has yet to use the ring, and is awake.
Active(t) ==
  \/ pc[t] = "lock" /\ (t = Main => i[Main] < consumers)
  \/ pc[t] \in {"test", "op"}
  \/ pc[t] = "asleep" /\ t \notin waiting[WaitCv(t)]

\* The threads that will use what those on cv wait for, or that will signal cv.
Helper(cv) == {t \in Thread : IF WaitCv(t) = cv THEN Active(t) ELSE pc[t] = "signal"}

\* While a thread sleeps on cv there are at least as many of them as there are
\* slots, or entries, it could use.
NoLostWakeup == \A cv \in Cv : waiting[cv] # {} => Room(cv) <= Cardinality(Helper(cv))

TwoCvs == fill_cv # empty_cv /\ after_wait = "test"

WakeInv == MutexOwner /\ SleepsOn /\ NoLostWakeup

LEMMA HelperFinite ==
  ASSUME NEW S \in SUBSET Thread
  PROVE  IsFiniteSet(S) /\ Cardinality(S) \in Nat
<1>1. Thread \subseteq -1 .. producers + consumers
  BY ArgsAssumption DEF Thread, Filler, Producer, Consumer, Main
<1>2. IsFiniteSet(-1 .. producers + consumers)
  BY FS_Interval, ArgsAssumption
<1>3. IsFiniteSet(S)
  BY <1>1, <1>2, FS_Subset
<1> QED BY <1>3, FS_CardinalityType

LEMMA HelperCounts ==
  ASSUME NEW A \in SUBSET Thread, NEW B \in SUBSET Thread
  PROVE  /\ A \subseteq B => Cardinality(A) <= Cardinality(B)
         /\ \A t : A \ {t} \subseteq B => Cardinality(A) - 1 <= Cardinality(B)
         /\ \A t : t \notin A /\ A \cup {t} \subseteq B => Cardinality(A) + 1 <= Cardinality(B)
         /\ \A t, u : u \notin A /\ (A \ {t}) \cup {u} \subseteq B => Cardinality(A) <= Cardinality(B)
<1>1. /\ IsFiniteSet(A) /\ Cardinality(A) \in Nat
      /\ IsFiniteSet(B) /\ Cardinality(B) \in Nat
  BY HelperFinite
<1>2. \A S : S \subseteq B => Cardinality(S) <= Cardinality(B)
  BY <1>1, FS_Subset
<1>3. ASSUME NEW t, A \ {t} \subseteq B PROVE Cardinality(A) - 1 <= Cardinality(B)
  <2>1. Cardinality(A \ {t}) \in {Cardinality(A), Cardinality(A) - 1}
    BY <1>1, FS_RemoveElement
  <2>2. Cardinality(A \ {t}) <= Cardinality(B)
    BY <1>2, <1>3
  <2> QED BY <1>1, <2>1, <2>2
<1>4. ASSUME NEW t, t \notin A, A \cup {t} \subseteq B PROVE Cardinality(A) + 1 <= Cardinality(B)
  <2>1. Cardinality(A \cup {t}) = Cardinality(A) + 1
    BY <1>1, <1>4, FS_AddElement
  <2> QED BY <1>2, <1>4, <2>1
<1>5. ASSUME NEW t, NEW u, u \notin A, (A \ {t}) \cup {u} \subseteq B
      PROVE  Cardinality(A) <= Cardinality(B)
  <2>1. IsFiniteSet(A \ {t}) /\ Cardinality(A \ {t}) \in {Cardinality(A), Cardinality(A) - 1}
    BY <1>1, FS_RemoveElement
  <2>2. Cardinality((A \ {t}) \cup {u}) = Cardinality(A \ {t}) + 1
    BY <1>5, <2>1, FS_AddElement
  <2>3. Cardinality((A \ {t}) \cup {u}) <= Cardinality(B)
    BY <1>2, <1>5
  <2> QED BY <1>1, <2>1, <2>2, <2>3
<1> QED BY <1>2, <1>3, <1>4, <1>5

LEMMA RoomType ==
  ASSUME TypeOK
  PROVE  \A cv : Room(cv) \in Nat
BY ArgsAssumption DEF TypeOK, Room

\* A step that neither uses the ring nor takes a helper away.
LEMMA Unharmed ==
  ASSUME TypeOK, NEW cv \in Cv, waiting[cv] # {} => Room(cv) <= Cardinality(Helper(cv)),
         num_full' = num_full, waiting'[cv] # {} => waiting[cv] # {},
         Helper(cv) \subseteq Helper(cv)'
  PROVE  waiting'[cv] # {} => Room(cv)' <= Cardinality(Helper(cv)')
<1>1. Helper(cv) \in SUBSET Thread /\ Helper(cv)' \in SUBSET Thread
  BY DEF Helper
<1>2. Cardinality(Helper(cv)) <= Cardinality(Helper(cv)')
  BY <1>1, HelperCounts
<1>3. Room(cv)' = Room(cv) /\ Room(cv) \in Nat
  BY RoomType DEF Room
<1> QED BY <1>1, <1>2, <1>3, HelperFinite

LEMMA InitWake == Init => WakeInv
BY DEF Init, WakeInv, MutexOwner, SleepsOn, NoLostWakeup

\* Locking, passing the test and waking up again: the thread was and is active.
LEMMA ActiveStep ==
  ASSUME TwoCvs, IInv, WakeInv, NEW t \in Thread, Lock(t) \/ Pass(t) \/ Wake(t)
  PROVE  WakeInv'
<1> USE ThreadTypes DEF WakeInv
<1>1. PICK l \in {"test", "op"} :
        /\ pc' = [pc EXCEPT ![t] = l] /\ pc[t] \in {"lock", "test", "asleep"}
        /\ waiting' = waiting /\ num_full' = num_full /\ i' = i
        /\ m' \in {m, {t}} /\ (m' = m => m \subseteq Thread)
        /\ pc[t] = "asleep" => \A cv \in Cv : t \notin waiting[cv]
        /\ pc[t] = "lock" /\ t = Main => i[Main] < consumers
  BY DEF TwoCvs, Lock, Pass, Wake, Goto, Mutex_lock, ring, locals, IInv, TypeOK
<1>2. pc'[t] = l /\ \A u \in Thread \ {t} : pc'[u] = pc[u]
  BY <1>1 DEF IInv, TypeOK
<1>3. MutexOwner'
  BY <1>1, <1>2 DEF MutexOwner, Held, IInv, TypeOK
<1>4. SleepsOn'
  BY <1>1, <1>2 DEF SleepsOn, WaitCv
<1>5. ASSUME NEW cv \in Cv PROVE Helper(cv) \subseteq Helper(cv)'
  BY <1>1, <1>2 DEF Helper, Active, WaitCv, Cv
<1>6. NoLostWakeup'
  BY <1>1, <1>5, Unharmed DEF NoLostWakeup, IInv
<1> QED BY <1>3, <1>4, <1>6

\* Who falls asleep has found no room.
LEMMA SleepStep ==
  ASSUME TwoCvs, IInv, WakeInv, NEW t \in Thread, Sleep(t)
  PROVE  WakeInv'
<1> USE ThreadTypes DEF WakeInv
<1>1. /\ pc' = [pc EXCEPT ![t] = "asleep"] /\ pc[t] = "test" /\ m' = {}
      /\ waiting' = [waiting EXCEPT ![WaitCv(t)] = @ \cup {t}] /\ num_full' = num_full /\ i' = i
      /\ MustWait(t)
  BY DEF Sleep, Goto, Cond_wait, Mutex_unlock, ring, locals
<1>2. pc'[t] = "asleep" /\ \A u \in Thread \ {t} : pc'[u] = pc[u]
  BY <1>1 DEF IInv, TypeOK
<1>3. /\ WaitCv(t) \in Cv /\ waiting'[WaitCv(t)] = waiting[WaitCv(t)] \cup {t}
      /\ \A cv \in Cv \ {WaitCv(t)} : waiting'[cv] = waiting[cv]
      /\ \A u \in Thread : WaitCv(u)' = WaitCv(u) /\ WaitCv(u) \in Cv
  BY <1>1 DEF IInv, TypeOK, WaitCv, Cv
<1>4. MutexOwner'
  BY <1>1 DEF MutexOwner
<1>5. SleepsOn'
  BY <1>1, <1>2, <1>3 DEF SleepsOn
<1>6. ASSUME NEW cv \in Cv \ {WaitCv(t)} PROVE Helper(cv) \subseteq Helper(cv)'
  BY <1>1, <1>2, <1>3, <1>6 DEF Helper, Active
<1>7. ASSUME NEW cv \in Cv \ {WaitCv(t)}
      PROVE  waiting'[cv] # {} => Room(cv)' <= Cardinality(Helper(cv)')
  BY <1>1, <1>3, <1>6, Unharmed DEF NoLostWakeup, IInv
<1>8. Room(WaitCv(t))' <= Cardinality(Helper(WaitCv(t))')
  <2>1. Room(WaitCv(t))' = 0
    BY <1>1, ArgsAssumption DEF Room, MustWait, WaitCv, TwoCvs
  <2>2. Helper(WaitCv(t))' \in SUBSET Thread
    BY DEF Helper
  <2> QED BY <2>1, <2>2, HelperFinite
<1> QED BY <1>3, <1>4, <1>5, <1>7, <1>8 DEF NoLostWakeup

\* do_fill and do_get take from one kind of room what they add to the other, and
\* the thread goes from the helpers of the one to those of the other.
LEMMA OperationStep ==
  ASSUME TwoCvs, IInv, IInv', WakeInv, NEW t \in Thread,
         \/ t \in Filler /\ Fill(t)
         \/ t \in Consumer /\ Get(t)
  PROVE  WakeInv'
<1> USE ThreadTypes DEF WakeInv
<1>1. /\ pc' = [pc EXCEPT ![t] = "signal"] /\ pc[t] = "op" /\ m' = m
      /\ waiting' = waiting /\ i' = i
  BY DEF Fill, Get, Goto, locals
<1>2. num_full' = IF t \in Consumer THEN num_full - 1 ELSE num_full + 1
  <2>1. status' # "failed"
    BY DEF IInv, EnsureSound, NoEnsureFailure, TwoCvs
  <2> QED BY <2>1 DEF Fill, Get, do_fill, do_get
<1>3. pc'[t] = "signal" /\ \A u \in Thread \ {t} : pc'[u] = pc[u]
  BY <1>1 DEF IInv, TypeOK
<1>4. MutexOwner'
  BY <1>1, <1>3 DEF MutexOwner, Held, IInv, TypeOK
<1>5. SleepsOn'
  BY <1>1, <1>3 DEF SleepsOn, WaitCv
<1>6. ASSUME NEW cv \in Cv, waiting[cv] # {}
      PROVE  Room(cv)' <= Cardinality(Helper(cv)')
  <2> DEFINE A == Helper(cv)
             B == Helper(cv)'
  <2>1. A \in SUBSET Thread /\ B \in SUBSET Thread
    BY DEF Helper
  <2>2. Room(cv) <= Cardinality(A) /\ num_full \in Int /\ max \in Int /\ Room(cv) \in Int
        /\ Cardinality(A) \in Nat /\ Cardinality(B) \in Nat
    BY <1>6, <2>1, HelperFinite, ArgsAssumption DEF NoLostWakeup, IInv, TypeOK, Room
  <2>3. A \ {t} \subseteq B
    BY <1>1, <1>3 DEF Helper, Active, WaitCv
  <2>4. WaitCv(t) # cv => t \notin A /\ A \cup {t} \subseteq B
    BY <1>1, <1>3 DEF Helper, Active, WaitCv
  <2>5. WaitCv(t) = cv => Room(cv)' = Room(cv) - 1
    BY <1>2, <2>2 DEF Room, WaitCv, TwoCvs
  <2>6. WaitCv(t) # cv => Room(cv)' = Room(cv) + 1
    BY <1>2, <2>2 DEF Room, WaitCv, TwoCvs, Cv
  <2> HIDE DEF A, B
  <2>7. Cardinality(A) - 1 <= Cardinality(B)
    BY <2>1, <2>3, HelperCounts
  <2>8. WaitCv(t) # cv => Cardinality(A) + 1 <= Cardinality(B)
    BY <2>1, <2>4, HelperCounts
  <2>9. Room(cv)' <= Cardinality(B)
    <3>1. CASE WaitCv(t) = cv
      BY <2>2, <2>5, <2>7, <3>1
    <3>2. CASE WaitCv(t) # cv
      BY <2>2, <2>6, <2>8, <3>2
    <3> QED BY <3>1, <3>2
  <2> QED BY <2>9 DEF B
<1> QED BY <1>1, <1>4, <1>5, <1>6 DEF NoLostWakeup

\* A signal either finds nobody asleep or puts the thread it wakes in the place
\* of the one that gave it.
LEMMA SignalStep ==
  ASSUME TwoCvs, IInv, WakeInv, NEW t \in Thread, Signal(t)
  PROVE  WakeInv'
<1> USE ThreadTypes DEF WakeInv
<1>1. /\ pc' = [pc EXCEPT ![t] = "unlock"] /\ pc[t] = "signal" /\ m' = m
      /\ num_full' = num_full /\ i' = i
  BY DEF Signal, Goto, ring, locals
<1>2. pc'[t] = "unlock" /\ \A u \in Thread \ {t} : pc'[u] = pc[u]
  BY <1>1 DEF IInv, TypeOK
<1>3. MutexOwner'
  BY <1>1, <1>2 DEF MutexOwner, Held, IInv, TypeOK
<1>4. /\ SignalCv(t) \in Cv /\ WaitCv(t) \in Cv /\ WaitCv(t) # SignalCv(t)
      /\ \A cv \in Cv : cv # WaitCv(t) => cv = SignalCv(t)
      /\ \A u \in Thread : WaitCv(u)' = WaitCv(u) /\ WaitCv(u) \in Cv
  BY DEF SignalCv, WaitCv, Cv, TwoCvs
<1>5. CASE waiting[SignalCv(t)] = {} /\ waiting' = waiting
  <2>1. SleepsOn'
    BY <1>1, <1>2, <1>4, <1>5 DEF SleepsOn
  <2>2. Helper(WaitCv(t)) \subseteq Helper(WaitCv(t))'
    BY <1>1, <1>2, <1>4, <1>5 DEF Helper, Active
  <2>3. waiting'[WaitCv(t)] # {} => Room(WaitCv(t))' <= Cardinality(Helper(WaitCv(t))')
    BY <1>1, <1>4, <1>5, <2>2, Unharmed DEF NoLostWakeup, IInv
  <2> QED BY <1>3, <1>4, <1>5, <2>1, <2>3 DEF NoLostWakeup
<1>6. ASSUME NEW u \in waiting[SignalCv(t)],
             waiting' = [waiting EXCEPT ![SignalCv(t)] = @ \ {u}]
      PROVE  WakeInv'
  <2>1. /\ waiting'[SignalCv(t)] = waiting[SignalCv(t)] \ {u} /\ waiting'[WaitCv(t)] = waiting[WaitCv(t)]
        /\ u \in Thread /\ WaitCv(u) = SignalCv(t) /\ pc[u] = "asleep" /\ u # t
    BY <1>1, <1>4, <1>6 DEF IInv, TypeOK, SleepsOn
  <2>2. SleepsOn'
    BY <1>1, <1>2, <1>4, <2>1 DEF SleepsOn
  <2>3. Helper(WaitCv(t)) \subseteq Helper(WaitCv(t))'
    BY <1>1, <1>2, <1>4, <2>1 DEF Helper, Active
  <2>4. waiting'[WaitCv(t)] # {} => Room(WaitCv(t))' <= Cardinality(Helper(WaitCv(t))')
    BY <1>1, <1>4, <2>1, <2>3, Unharmed DEF NoLostWakeup, IInv
  <2>5. u \notin Helper(SignalCv(t)) /\ u \in Helper(SignalCv(t))'
    BY <1>1, <1>2, <1>4, <2>1 DEF Helper, Active
  <2>6. Helper(SignalCv(t)) \ {t} \subseteq Helper(SignalCv(t))'
    BY <1>1, <1>2, <1>4, <2>1 DEF Helper, Active
  <2>7. Cardinality(Helper(SignalCv(t))) <= Cardinality(Helper(SignalCv(t))')
    <3>1. Helper(SignalCv(t)) \in SUBSET Thread /\ Helper(SignalCv(t))' \in SUBSET Thread
      BY DEF Helper
    <3>2. (Helper(SignalCv(t)) \ {t}) \cup {u} \subseteq Helper(SignalCv(t))'
      BY <2>5, <2>6
    <3> QED BY <2>5, <3>1, <3>2, HelperCounts
  <2>8. Room(SignalCv(t))' <= Cardinality(Helper(SignalCv(t))')
    <3>1. Helper(SignalCv(t)) \in SUBSET Thread /\ Helper(SignalCv(t))' \in SUBSET Thread
      BY DEF Helper
    <3>2. Room(SignalCv(t))' = Room(SignalCv(t)) /\ Room(SignalCv(t)) \in Nat
      BY <1>1, RoomType DEF Room, IInv, SignalCv
    <3>3. Room(SignalCv(t)) <= Cardinality(Helper(SignalCv(t)))
      BY <1>4, <1>6 DEF NoLostWakeup
    <3> QED BY <2>7, <3>1, <3>2, <3>3, HelperFinite
  <2> QED BY <1>3, <1>4, <2>2, <2>4, <2>8 DEF NoLostWakeup
<1> QED BY <1>5, <1>6 DEF Signal, Cond_signal

\* All the rest: nobody who helps is touched, a sleeper may become one.
LEMMA RestStep ==
  ASSUME TwoCvs, CtlInv, WakeInv,
         \/ \E p \in Producer : ProducerUnlock(p)
         \/ \E c \in Consumer : ConsumerUnlock(c)
         \/ MainStep
         \/ \E t \in Thread : SpuriousWakeup(t)
         \/ UNCHANGED vars
  PROVE  WakeInv'
<1> USE ThreadTypes DEF WakeInv
<1>1. IInv /\ pc \in [Thread -> Label] /\ i \in [Filler -> Nat] /\ m \in SUBSET Thread
      /\ waiting \in [Cv -> SUBSET Thread] /\ num_full' = num_full
  BY DEF ProducerUnlock, ConsumerUnlock, MainStep, Create, MainLoopEnd, LoopEnd, JoinProducer,
     JoinConsumer, Join, MainUnlock, Exit, SpuriousWakeup, vars, ring, CtlInv, IInv, TypeOK
<1>2. ASSUME \/ \E p \in Producer : ProducerUnlock(p)
             \/ \E c \in Consumer : ConsumerUnlock(c)
             \/ MainUnlock
      PROVE  WakeInv'
  <2>1. PICK t \in Thread, l \in {"lock", "done"} :
          /\ pc[t] = "unlock" /\ pc' = [pc EXCEPT ![t] = l] /\ m' = {} /\ waiting' = waiting
          /\ t # Main => i'[Main] = i[Main]
    BY <1>1, <1>2 DEF ProducerUnlock, ConsumerUnlock, MainUnlock, Goto, Mutex_unlock
  <2>2. pc'[t] = l /\ \A u \in Thread \ {t} : pc'[u] = pc[u]
    BY <1>1, <2>1
  <2>3. MutexOwner' /\ SleepsOn'
    BY <2>1, <2>2 DEF MutexOwner, SleepsOn, WaitCv
  <2>4. ASSUME NEW cv \in Cv PROVE Helper(cv) \subseteq Helper(cv)'
    BY <2>1, <2>2 DEF Helper, Active, WaitCv
  <2>5. NoLostWakeup'
    BY <1>1, <2>1, <2>4, Unharmed DEF NoLostWakeup, IInv
  <2> QED BY <2>3, <2>5
<1>3. CASE Create \/ MainLoopEnd \/ JoinProducer \/ JoinConsumer
  <2>1. PICK t \in Thread, l \in Label :
          /\ pc' = [pc EXCEPT ![t] = l] /\ m' = m /\ waiting' = waiting
          /\ pc[t] \in {"unborn", "create", "join_producers", "join_consumers", "lock"}
          /\ pc[t] = "lock" => t = Main /\ i[Main] = consumers
          /\ pc[Main] \in {"create", "join_producers", "join_consumers"} \/ t = Main
    BY <1>3, MainMoves
  <2>2. pc'[t] = l /\ \A u \in Thread \ {t} : pc'[u] = pc[u]
    BY <1>1, <2>1
  <2>3. MutexOwner' /\ SleepsOn'
    BY <1>1, <2>1, <2>2 DEF MutexOwner, SleepsOn, WaitCv, Held
  <2>4. ASSUME NEW cv \in Cv PROVE Helper(cv) \subseteq Helper(cv)'
    BY <2>1, <2>2, ArgsAssumption DEF Helper, Active, WaitCv
  <2>5. NoLostWakeup'
    BY <1>1, <2>1, <2>4, Unharmed DEF NoLostWakeup, IInv
  <2> QED BY <2>3, <2>5
<1>4. CASE Exit \/ UNCHANGED vars
  <2>1. UNCHANGED <<pc, m, waiting, i, num_full>>
    BY <1>4 DEF Exit, vars, locals, ring
  <2> QED BY <2>1 DEF MutexOwner, SleepsOn, NoLostWakeup, Helper, Active, Room, WaitCv
<1>5. ASSUME NEW t \in Thread, SpuriousWakeup(t) PROVE WakeInv'
  <2>1. PICK cv \in Cv : t \in waiting[cv] /\ waiting' = [waiting EXCEPT ![cv] = @ \ {t}]
    BY <1>5 DEF SpuriousWakeup
  <2>2. pc' = pc /\ m' = m /\ i' = i
    BY <1>5 DEF SpuriousWakeup, locals
  <2>3. \A d \in Cv : waiting'[d] \subseteq waiting[d]
    BY <1>1, <2>1
  <2>4. MutexOwner' /\ SleepsOn'
    BY <2>2, <2>3 DEF MutexOwner, SleepsOn, WaitCv
  <2>5. ASSUME NEW d \in Cv PROVE Helper(d) \subseteq Helper(d)'
    BY <2>2, <2>3 DEF Helper, Active, WaitCv, Cv
  <2>6. NoLostWakeup'
    BY <1>1, <2>3, <2>5, Unharmed DEF NoLostWakeup, IInv
  <2> QED BY <2>4, <2>6
<1> QED BY <1>2, <1>3, <1>4, <1>5 DEF MainStep

LEMMA WakeStep ==
  ASSUME TwoCvs, CtlInv, CtlInv', WakeInv, [Next]_vars
  PROVE  WakeInv'
<1>1. CASE UNCHANGED vars
  BY <1>1, RestStep
<1>2. CASE Next
  <2> PICK t \in Thread : Step(t) \/ SpuriousWakeup(t)
    BY <1>2 DEF Next
  <2>1. CASE Lock(t) \/ Sleep(t) \/ Wake(t) \/ Pass(t) \/ Signal(t)
    BY <2>1, ActiveStep, SleepStep, SignalStep DEF CtlInv
  <2>2. CASE \/ t \in Filler /\ Fill(t)
             \/ t \in Consumer /\ Get(t)
    BY <2>2, OperationStep DEF CtlInv
  <2>3. CASE \/ t \in Producer /\ ProducerUnlock(t)
             \/ t \in Consumer /\ ConsumerUnlock(t)
             \/ MainStep \/ SpuriousWakeup(t)
    BY <2>3, RestStep
  <2>4. CASE t \in Producer /\ producer(t)
    BY <2>1, <2>2, <2>3, <2>4, ThreadTypes DEF producer
  <2>5. CASE t \in Consumer /\ consumer(t)
    BY <2>1, <2>2, <2>3, <2>5 DEF consumer
  <2>6. CASE t = Main /\ main
    BY <2>1, <2>2, <2>3, <2>6, ThreadTypes DEF main
  <2>7. CASE SpuriousWakeup(t)
    BY <2>3, <2>7
  <2> QED BY <2>4, <2>5, <2>6, <2>7 DEF Step
<1> QED BY <1>1, <1>2

\* When nobody can take a step the mutex is free, and who is asleep has not
\* been signalled.
LEMMA AllBlocked ==
  ASSUME CtlInv, MutexOwner, SleepsOn, \A t \in Thread : Blocked(t)
  PROVE  /\ m = {} /\ \A t \in Thread : pc[t] = "asleep" => t \in waiting[WaitCv(t)]
         /\ \A t \in Thread : pc[t] \in {"unborn", "done", "asleep", "join_producers", "join_consumers"}
<1> USE ThreadTypes
<1>1. m \in SUBSET Thread
  BY DEF CtlInv, IInv, TypeOK
<1>2. m = {}
  <2>1. \A t \in Thread : pc[t] \notin Held
    BY DEF Blocked, Held
  <2> QED BY <1>1, <2>1 DEF MutexOwner
<1>3. \A t \in Thread : pc[t] = "asleep" => t \in waiting[WaitCv(t)]
  BY <1>2 DEF Blocked, SleepsOn
<1>4. \A t \in Thread : pc[t] \in {"unborn", "done", "asleep", "join_producers", "join_consumers"}
  BY <1>2 DEF Blocked
<1> QED BY <1>2, <1>3, <1>4

\* If those who sleep all have to, one of them would not.
LEMMA StuckOfSleep ==
  ASSUME consumers > 0, CtlInv, MutexOwner, SleepsOn, SQP!SInv, status = "running",
         \A t \in Thread : pc[t] = "asleep" => MustWait(t)
  PROVE  \E t \in Thread : ~Blocked(t)
<1> SUFFICES ASSUME \A t \in Thread : Blocked(t) PROVE FALSE
  OBVIOUS
<1> USE ThreadTypes
<1>1. pc \in [Thread -> Label] /\ m \in SUBSET Thread /\ i \in [Filler -> Nat]
      /\ waiting \in [Cv -> SUBSET Thread] /\ num_full \in 0 .. max /\ max \in Nat \ {0}
      /\ producers \in Nat /\ consumers \in Nat
  BY ArgsAssumption DEF CtlInv, IInv, TypeOK
<1>4. \A t \in Thread : pc[t] \in {"unborn", "done", "asleep", "join_producers", "join_consumers"}
  BY AllBlocked
<1>5. pc[Main] \in {"asleep", "join_producers", "join_consumers"}
  BY <1>4 DEF CtlInv, ThreadLabels
<1>6. \A t \in Thread \ {Main} : pc[t] \in {"done", "asleep"}
  BY <1>4, <1>5 DEF CtlInv, ThreadLabels, MainProgress
<1>9. \A t \in Filler : pc[t] = "asleep" => num_full = max
  BY DEF MustWait
<1>10. \A t \in Consumer : pc[t] = "asleep" => num_full = 0
  BY DEF MustWait
<1>11. CASE \A c \in Consumer : pc[c] = "done"
  <2>1. Eos = consumers
    BY <1>11, Args, SameSets, SQP!EndedByAll DEF CtlInv, EndsOnMarker
  <2>2. pc[Main] # "join_producers"
    BY <2>1 DEF Eos
  <2>3. pc[Main] # "asleep"
    BY <1>1, <2>1 DEF Eos, Filled, CtlInv, MainProgress
  <2>4. pc[Main] = "join_consumers" /\ i[Main] < consumers /\ pc[producers + i[Main]] # "done"
    BY <1>5, <2>2, <2>3 DEF Blocked
  <2>5. producers + i[Main] \in Consumer
    BY <1>1, <2>4 DEF Consumer
  <2> QED BY <1>11, <2>4, <2>5
<1>12. CASE \E c \in Consumer : pc[c] # "done"
  <2>1. PICK c \in Consumer : pc[c] = "asleep"
    BY <1>6, <1>12
  <2>2. num_full = 0 /\ \A t \in Filler : pc[t] # "asleep"
    BY <1>1, <1>9, <1>10, <2>1
  <2>3. pc[Main] # "join_producers"
    <3> SUFFICES ASSUME pc[Main] = "join_producers" PROVE FALSE
      OBVIOUS
    <3>1. i[Main] < producers /\ pc[i[Main]] # "done"
      BY DEF Blocked
    <3>2. i[Main] \in Producer
      BY <1>1, <3>1 DEF Producer
    <3> QED BY <1>6, <2>2, <3>1, <3>2
  <2>4. pc[Main] = "join_consumers"
    BY <1>5, <2>2, <2>3
  <2>5. Eos = consumers
    BY <2>4 DEF Eos
  <2>6. tmp[c] # END_OF_STREAM
    BY <2>1 DEF CtlInv, EndsOnMarker
  <2>7. Len(Queue) > 0
    BY <2>5, <2>6, Args, SameSets, SQP!MarkerLeft
  <2> QED BY <2>2, <2>7, QueueType DEF CtlInv
<1> QED BY <1>11, <1>12

LEMMA StuckOfInv ==
  ASSUME TwoCvs, consumers > 0, CtlInv, WakeInv, SQP!SInv
  PROVE  NeverStuck
<1> SUFFICES ASSUME status = "running", \A t \in Thread : Blocked(t) PROVE FALSE
  BY DEF NeverStuck
<1> USE ThreadTypes DEF WakeInv
<1>1. /\ \A t \in Thread : pc[t] = "asleep" => t \in waiting[WaitCv(t)]
      /\ \A t \in Thread : pc[t] \in {"unborn", "done", "asleep", "join_producers", "join_consumers"}
  BY AllBlocked
<1>2. \A cv \in Cv : Helper(cv) = {}
  BY <1>1 DEF Helper, Active
<1>3. \A cv \in Cv : waiting[cv] # {} => Room(cv) = 0
  <2>1. \A cv \in Cv : Room(cv) \in Nat
    BY RoomType DEF CtlInv, IInv
  <2> QED BY <1>2, <2>1, FS_EmptySet DEF NoLostWakeup
<1>4. ASSUME NEW t \in Thread, pc[t] = "asleep" PROVE MustWait(t)
  <2>1. WaitCv(t) \in Cv /\ Room(WaitCv(t)) = 0
    BY <1>1, <1>3, <1>4 DEF WaitCv, Cv
  <2>2. num_full \in Int /\ max \in Int
    BY ArgsAssumption DEF CtlInv, IInv, TypeOK
  <2> QED BY <2>1, <2>2 DEF Room, WaitCv, MustWait, TwoCvs
<1> QED BY <1>4, StuckOfSleep

\* main-two-cvs-while.c never deadlocks, whatever the numbers of threads, items
\* and slots, as long as there is a consumer: no signal is lost in a way that
\* leaves every thread waiting.  With one condition variable it can be (OneCvWhile).
THEOREM NeverDeadlocks ==
  ASSUME fill_cv # empty_cv, after_wait = "test", consumers > 0
  PROVE  Spec => []NeverStuck
<1>1. Init => WakeInv
  BY InitWake
<1>2. CtlInv /\ CtlInv' /\ WakeInv /\ [Next]_vars => WakeInv'
  BY WakeStep DEF TwoCvs
<1>3. CtlInv /\ WakeInv /\ SQP!SInv => NeverStuck
  BY StuckOfInv DEF TwoCvs
<1>4. Spec => []SQP!SInv
  BY QueueInvariance DEF EnsureArgs
<1> QED BY <1>1, <1>2, <1>3, <1>4, CtlInvariance, PTL DEF Spec

\* With one producer and one consumer no program deadlocks, whether it has one
\* condition variable or two: whoever a signal wakes, it is the one it is meant
\* for.  In main-one-cv-while.c a second consumer ends this (one_cv_while).
THEOREM OneOfEachNeverDeadlocks ==
  ASSUME producers <= 1, consumers = 1, EnsureArgs
  PROVE  Spec => []NeverStuck
<1>1. CtlInv /\ PairInv /\ SQP!SInv => NeverStuck
  <2> SUFFICES ASSUME CtlInv, PairInv, SQP!SInv, status = "running",
                      \A t \in Thread : Blocked(t)
               PROVE  FALSE
    BY DEF NeverStuck
  <2>1. /\ \A t \in Thread : pc[t] = "asleep" => t \in waiting[WaitCv(t)]
        /\ \A t \in Thread : pc[t] # "signal"
    BY AllBlocked DEF PairInv
  <2>2. \A t \in Thread : pc[t] = "asleep" => MustWait(t)
    BY <2>1 DEF PairInv, SleepsInNeed
  <2> QED BY <2>2, StuckOfSleep DEF PairInv
<1>2. Spec => []PairInv
  BY PairInvariance DEF OneOfEach
<1> QED BY <1>1, <1>2, CtlInvariance, QueueInvariance, PTL
-----------------------------------------------------------------------------
(* The work that is left.                                                  *)

Asleep(t) == \E cv \in Cv : t \in waiting[cv]

\* How far a thread is from the end of its iteration; one that has not been
\* signalled has no step to take, and an operation is worth what follows it.
Stage(t) ==
  CASE pc[t] = "unborn" -> 4
    [] pc[t] = "lock"   -> 3
    [] pc[t] = "asleep" -> IF Asleep(t) THEN 0 ELSE 3
    [] pc[t] = "test"   -> 2
    [] pc[t] = "op"     -> 1
    [] pc[t] = "signal" -> 8
    [] pc[t] = "unlock" -> 4
    [] OTHER            -> 0

\* The entries a thread has still to store.
FillsLeft(t) ==
  CASE t = Main       -> consumers - Eos
    [] t \in Producer -> loops - Filled(t)
    [] OTHER          -> 0

\* What main() does besides.
JoinsLeft(t) ==
  IF t # Main THEN 0
  ELSE CASE pc[t] = "create"         -> producers + consumers + 6
         [] pc[t] = "join_producers" -> producers - i[t] + consumers + 5
         [] pc[t] = "join_consumers" -> consumers - i[t]
         [] OTHER                    -> consumers + 1

Left(t) == Stage(t) + 16 * FillsLeft(t) + JoinsLeft(t)
LeftOf == [t \in Thread |-> Left(t)]

\* An entry that is stored has to be taken, a wake-up without a signal may
\* still come, and ensure() or exit() may end it all.
Shared == 8 * num_full + 4 * (MaxSpurious - spurious) + (IF status = "running" THEN 8 ELSE 0)

Work == SumOf(LeftOf, Thread) + Shared

LeftParts ==
  \A t \in Thread : Stage(t) \in Nat /\ FillsLeft(t) \in Nat /\ JoinsLeft(t) \in Nat

LEMMA PartTypes == CtlInv => LeftParts
<1> SUFFICES ASSUME CtlInv, NEW t \in Thread
             PROVE  Stage(t) \in Nat /\ FillsLeft(t) \in Nat /\ JoinsLeft(t) \in Nat
  BY DEF LeftParts
<1> USE ThreadTypes, ArgsAssumption
<1>1. pc[t] \in Label /\ Stage(t) \in Nat /\ (t \in Filler => i[t] \in Nat)
  BY DEF CtlInv, IInv, TypeOK, Stage, Label
<1>2. CASE t \in Producer
  <2>1. i[t] <= loops /\ (pc[t] # "done" => i[t] < loops)
    BY <1>1, <1>2 DEF CtlInv, IInv, ItemsLeft, Returned
  <2>2. t # Main /\ i[t] \in Nat
    BY <1>1, <1>2
  <2> QED BY <1>1, <1>2, <2>1, <2>2 DEF FillsLeft, JoinsLeft, Filled
<1>3. CASE t \in Consumer
  <2>1. t # Main /\ t \notin Producer
    BY <1>3
  <2> QED BY <1>1, <2>1 DEF FillsLeft, JoinsLeft
<1>4. CASE t = Main
  <2>1. FillsLeft(t) \in Nat
    BY <1>1, <1>4 DEF CtlInv, MainProgress, Held, Label, FillsLeft, Eos, Filled, ThreadLabels
  <2>2. JoinsLeft(t) \in Nat
    BY <1>1, <1>4 DEF CtlInv, MainProgress, JoinsLeft
  <2> QED BY <1>1, <2>1, <2>2
<1> QED BY <1>2, <1>3, <1>4

SharedNatural == Shared \in Nat

LEMMA SharedType == CtlInv => SharedNatural
BY ArgsAssumption DEF CtlInv, IInv, TypeOK, Shared, SharedNatural

LEMMA SharedInt ==
  ASSUME CtlInv, CtlInv'
  PROVE  Shared \in Int /\ Shared' \in Int
<1>1. SharedNatural /\ SharedNatural'
  BY SharedType, PTL
<1> QED BY <1>1 DEF SharedNatural

LEMMA ThreadFinite == IsFiniteSet(Thread)
BY ThreadTypes, ThreadSets, FS_Union, FS_AddElement

LEMMA WorkType == CtlInv => Work \in Nat
<1> SUFFICES ASSUME CtlInv PROVE Work \in Nat
  OBVIOUS
<1>1. IsFiniteSet(Thread) /\ Cardinality(Thread) \in Nat
  BY ThreadFinite, FS_CardinalityType
<1>2. LeftOf \in [Thread -> Int] /\ \A t \in Thread : LeftOf[t] >= 0
  BY PartTypes DEF LeftParts, LeftOf, Left
<1>3. PICK h : Sums(LeftOf, Thread, h) /\ SumOf(LeftOf, Thread) = h[Thread]
  BY <1>1, SumOfSums
<1>4. h[Thread] >= Cardinality(Thread) * 0
  BY <1>1, <1>2, <1>3, SumsBound
<1>5. SumOf(LeftOf, Thread) \in Int /\ Shared \in Nat
  BY <1>1, <1>2, SumOfType, SharedType DEF SharedNatural
<1> QED BY <1>1, <1>3, <1>4, <1>5 DEF Work

\* A step that changes what one thread, or two, have left.
LEMMA SumDown ==
  ASSUME CtlInv, CtlInv', NEW t \in Thread, NEW u \in Thread,
         \A x \in Thread \ {t, u} : Left(x)' = Left(x),
         IF t = u THEN Left(t)' + Shared' < Left(t) + Shared
         ELSE Left(t)' + Left(u)' + Shared' < Left(t) + Left(u) + Shared
  PROVE  Work' < Work
<1> DEFINE g == [x \in Thread |-> Left(x)']
           h == [x \in Thread |-> IF x = u THEN Left(x)' ELSE Left(x)]
<1>1. IsFiniteSet(Thread)
  BY ThreadFinite
<1>2. LeftParts /\ LeftParts'
  BY PartTypes, PTL
<1>3. Shared \in Int /\ Shared' \in Int
  BY SharedInt
<1>4. \A x \in Thread : Left(x) \in Int /\ Left(x)' \in Int
  BY <1>2 DEF LeftParts, Left, Thread, Filler, Producer, Consumer
<1>5. LeftOf \in [Thread -> Int] /\ h \in [Thread -> Int] /\ g \in [Thread -> Int]
  BY <1>4 DEF LeftOf
<1>6. SumOf(h, Thread) = SumOf(LeftOf, Thread) + (h[u] - LeftOf[u])
  <2>1. \A x \in Thread \ {u} : LeftOf[x] = h[x]
    BY DEF LeftOf
  <2> HIDE DEF h
  <2> QED BY <1>1, <1>5, <2>1, SumOfDiffer
<1>7. SumOf(g, Thread) = SumOf(h, Thread) + (g[t] - h[t])
  <2>1. \A x \in Thread \ {t} : h[x] = g[x]
    OBVIOUS
  <2> HIDE DEF h, g
  <2> QED BY <1>1, <1>5, <2>1, SumOfDiffer
<1>8. Work = SumOf(LeftOf, Thread) + Shared /\ Work' = SumOf(g, Thread) + Shared'
  BY DEF Work, LeftOf, Thread, Filler, Producer, Consumer
<1>9. SumOf(LeftOf, Thread) \in Int /\ SumOf(g, Thread) \in Int /\ SumOf(h, Thread) \in Int
  <2> HIDE DEF h, g
  <2> QED BY <1>1, <1>5, SumOfType
<1>10. /\ LeftOf[u] = Left(u) /\ h[u] = Left(u)' /\ g[t] = Left(t)'
       /\ h[t] = IF t = u THEN Left(t)' ELSE Left(t)
  BY DEF LeftOf
<1> HIDE DEF h, g
<1> QED BY <1>2, <1>3, <1>4, <1>6, <1>7, <1>8, <1>9, <1>10

\* What a thread has left depends on its label, its counter, and whether it
\* sleeps.
LEMMA SameLeft ==
  ASSUME NEW x \in Thread, pc'[x] = pc[x], x \in Filler => i'[x] = i[x],
         Asleep(x)' <=> Asleep(x)
  PROVE  Left(x)' = Left(x)
<1>1. Stage(x)' = Stage(x)
  BY DEF Stage
<1>2. FillsLeft(x)' = FillsLeft(x)
  <2>1. x = Main => Eos' = Eos
    BY ThreadTypes DEF Eos, Filled
  <2>2. x \in Producer => Filled(x)' = Filled(x)
    BY ThreadTypes DEF Filled
  <2>3. Producer' = Producer
    BY DEF Producer
  <2> QED BY <2>1, <2>2, <2>3 DEF FillsLeft
<1>3. JoinsLeft(x)' = JoinsLeft(x)
  BY ThreadTypes DEF JoinsLeft
<1> QED BY <1>1, <1>2, <1>3 DEF Left

LEMMA OthersKeep ==
  ASSUME CtlInv, NEW t \in Thread, NEW l, pc' = [pc EXCEPT ![t] = l],
         \A x \in Filler \ {t} : i'[x] = i[x],
         \A x \in Thread \ {t} : Asleep(x)' <=> Asleep(x)
  PROVE  /\ pc[t] \in Label /\ pc'[t] = l
         /\ \A x \in Thread \ {t} : Left(x)' = Left(x)
<1>1. pc \in [Thread -> Label]
  BY DEF CtlInv, IInv, TypeOK
<1>2. pc'[t] = l /\ \A x \in Thread \ {t} : pc'[x] = pc[x]
  BY <1>1
<1>3. ASSUME NEW x \in Thread \ {t} PROVE Left(x)' = Left(x)
  BY <1>2, SameLeft
<1> QED BY <1>1, <1>2, <1>3

\* Within the protocol main() has no joins, and a thread has counted what it
\* stored or is about to.
Protocol == {"lock", "test", "asleep", "op", "signal", "unlock"}

LEMMA InProtocol ==
  ASSUME NEW t \in Thread, pc[t] \in Protocol, pc'[t] \in Protocol
  PROVE  /\ JoinsLeft(t)' = JoinsLeft(t)
         /\ t \in Consumer => FillsLeft(t) = 0 /\ FillsLeft(t)' = 0
         /\ \A n \in Int : t \in Filler /\ Filled(t) \in Int /\ Filled(t)' = Filled(t) + n =>
              FillsLeft(t)' = FillsLeft(t) - n
<1> USE ThreadTypes DEF Protocol
<1>1. JoinsLeft(t)' = JoinsLeft(t)
  BY DEF JoinsLeft
<1>2. ASSUME t \in Consumer PROVE FillsLeft(t) = 0 /\ FillsLeft(t)' = 0
  <2>1. t # Main /\ t \notin Producer /\ Producer' = Producer
    BY <1>2 DEF Producer
  <2> QED BY <2>1 DEF FillsLeft
<1>3. ASSUME NEW n \in Int, t \in Filler, Filled(t) \in Int, Filled(t)' = Filled(t) + n
      PROVE  FillsLeft(t)' = FillsLeft(t) - n
  <2>1. CASE t = Main
    <3>1. Eos = Filled(t) /\ Eos' = Filled(t)'
      BY <2>1 DEF Eos
    <3>2. FillsLeft(t) = consumers - Filled(t) /\ FillsLeft(t)' = consumers - Filled(t)'
      BY <2>1, <3>1 DEF FillsLeft
    <3> QED BY <1>3, <3>2, ArgsAssumption
  <2>2. CASE t # Main
    <3>1. t \in Producer /\ t \in Producer'
      BY <1>3, <2>2 DEF Producer
    <3>2. FillsLeft(t) = loops - Filled(t) /\ FillsLeft(t)' = loops - Filled(t)'
      BY <2>2, <3>1 DEF FillsLeft
    <3> QED BY <1>3, <3>2, ArgsAssumption
  <2> QED BY <2>1, <2>2
<1> QED BY <1>1, <1>2, <1>3

\* A step within the protocol, in numbers.
LEMMA ProtocolLeft ==
  ASSUME CtlInv, CtlInv', NEW t \in Thread, NEW l \in Protocol, pc[t] \in Protocol,
         pc' = [pc EXCEPT ![t] = l]
  PROVE  /\ t \in Consumer \/ Filled(t)' = Filled(t) =>
              Left(t)' = Left(t) + (Stage(t)' - Stage(t))
         /\ t \in Filler /\ Filled(t)' = Filled(t) + 1 =>
              Left(t)' = Left(t) + (Stage(t)' - Stage(t)) - 16
         /\ Left(t) \in Int /\ Stage(t) \in Int /\ Stage(t)' \in Int
<1>1. pc'[t] = l
  BY DEF CtlInv, IInv, TypeOK
<1>2. t \in Filler => Filled(t) \in Int
  BY DEF CtlInv, IInv, TypeOK, Filled
<1>3. LeftParts /\ LeftParts'
  BY PartTypes, PTL
<1>4. /\ FillsLeft(t) \in Int /\ JoinsLeft(t) \in Int
      /\ Stage(t) \in Int /\ Stage(t)' \in Int
  BY <1>3 DEF LeftParts, Thread, Filler, Producer, Consumer
<1>5. JoinsLeft(t)' = JoinsLeft(t) /\ (t \in Consumer => FillsLeft(t)' = FillsLeft(t))
  BY <1>1, InProtocol
<1>6. t \in Filler /\ Filled(t)' = Filled(t) => FillsLeft(t)' = FillsLeft(t)
  <2>1. t \in Filler /\ Filled(t)' = Filled(t) + 0 => FillsLeft(t)' = FillsLeft(t) - 0
    BY <1>1, <1>2, InProtocol
  <2> QED BY <1>2, <1>4, <2>1
<1>7. t \in Filler /\ Filled(t)' = Filled(t) + 1 => FillsLeft(t)' = FillsLeft(t) - 1
  BY <1>1, <1>2, InProtocol
<1> QED BY <1>4, <1>5, <1>6, <1>7, ThreadTypes DEF Left

\* Lock, Sleep, Wake and Pass go down from stage to stage.
LEMMA ProtocolDown ==
  ASSUME CtlInv, CtlInv', NEW t \in Thread, Lock(t) \/ Sleep(t) \/ Wake(t) \/ Pass(t)
  PROVE  Work' < Work
<1>1. PICK l \in {"test", "asleep", "op"} :
        /\ pc[t] \in {"lock", "test", "asleep"} /\ pc' = [pc EXCEPT ![t] = l] /\ pc'[t] = l
        /\ i' = i /\ Shared' = Shared
        /\ Stage(t)' < Stage(t)
        /\ \A x \in Thread \ {t} : Asleep(x)' <=> Asleep(x)
  <2>0. pc \in [Thread -> Label] /\ waiting \in [Cv -> SUBSET Thread] /\ WaitCv(t) \in Cv
    BY DEF CtlInv, IInv, TypeOK, WaitCv, Cv
  <2>1. i' = i /\ Shared' = Shared
    BY DEF Lock, Sleep, Wake, Pass, locals, ring, Shared
  <2>2. CASE Lock(t) \/ Pass(t)
    <3>1. waiting' = waiting
      BY <2>2 DEF Lock, Pass
    <3> QED BY <2>0, <2>1, <2>2, <3>1 DEF Lock, Pass, Goto, Stage, Asleep
  <2>3. CASE Wake(t)
    <3>1. waiting' = waiting /\ ~Asleep(t)
      BY <2>3 DEF Wake, Asleep
    <3>2. PICK l \in {"test", "op"} : pc[t] = "asleep" /\ pc' = [pc EXCEPT ![t] = l]
      BY <2>3, ArgsAssumption DEF Wake, Goto
    <3>3. Stage(t) = 3 /\ Stage(t)' < 3
      BY <2>0, <3>1, <3>2 DEF Stage
    <3> QED BY <2>0, <2>1, <3>1, <3>2, <3>3 DEF Asleep
  <2>4. CASE Sleep(t)
    <3>1. Asleep(t)' /\ \A x \in Thread \ {t} : Asleep(x)' <=> Asleep(x)
      BY <2>0, <2>4 DEF Sleep, Cond_wait, Asleep, Cv
    <3> QED BY <2>0, <2>1, <2>4, <3>1 DEF Sleep, Goto, Stage
  <2> QED BY <2>2, <2>3, <2>4
<1>2. t \in Filler => Filled(t)' = Filled(t)
  BY <1>1 DEF Filled, CtlInv, IInv, TypeOK
<1>3. l \in Protocol /\ pc[t] \in Protocol
  BY <1>1 DEF Protocol
<1>4. /\ Left(t)' = Left(t) + (Stage(t)' - Stage(t))
      /\ Left(t) \in Int /\ Stage(t) \in Int /\ Stage(t)' \in Int
  BY <1>1, <1>2, <1>3, ProtocolLeft, ThreadTypes
<1>5. \A x \in Thread \ {t} : Left(x)' = Left(x)
  BY <1>1, OthersKeep
<1> QED BY <1>1, <1>4, <1>5, SharedInt, SumDown

\* do_fill leaves an entry to be taken, and do_get one less; either may end
\* the program.
LEMMA OperationDown ==
  ASSUME CtlInv, CtlInv', status = "running", NEW t \in Thread,
         (t \in Filler /\ Fill(t)) \/ (t \in Consumer /\ Get(t))
  PROVE  Work' < Work
<1>1. pc[t] = "op" /\ pc' = [pc EXCEPT ![t] = "signal"] /\ i' = i /\ waiting' = waiting
  BY DEF Fill, Get, Goto, locals
<1>2. /\ pc'[t] = "signal" /\ \A x \in Thread \ {t} : Left(x)' = Left(x)
  BY <1>1, OthersKeep DEF Asleep
<1>3. Stage(t) = 1 /\ Stage(t)' = 8
  BY <1>1, <1>2 DEF Stage
<1>4. /\ t \in Consumer => Left(t)' = Left(t) + 7
      /\ t \in Filler => Left(t)' = Left(t) - 9
      /\ Left(t) \in Int
  <2>1. "signal" \in Protocol /\ pc[t] \in Protocol
    BY <1>1 DEF Protocol
  <2>2. t \in Filler => Filled(t)' = Filled(t) + 1
    BY <1>1, <1>2 DEF Filled, CtlInv, IInv, TypeOK
  <2>3. /\ t \in Consumer \/ Filled(t)' = Filled(t) =>
             Left(t)' = Left(t) + (Stage(t)' - Stage(t))
        /\ t \in Filler /\ Filled(t)' = Filled(t) + 1 =>
             Left(t)' = Left(t) + (Stage(t)' - Stage(t)) - 16
        /\ Left(t) \in Int
    BY <1>1, <2>1, ProtocolLeft
  <2> QED BY <1>3, <2>2, <2>3
<1>5. /\ num_full \in Int /\ spurious' = spurious /\ spurious \in Int
      /\ status \in {"running", "exited", "failed"}
  BY DEF CtlInv, IInv, TypeOK, Fill, Get
<1>6. CASE t \in Filler /\ Fill(t)
  <2>1. \/ status' = "failed" /\ num_full' = num_full
        \/ status' = status /\ num_full' = num_full + 1
    BY <1>6 DEF Fill, do_fill, ring
  <2>2. Shared' <= Shared + 8
    BY <1>5, <2>1, ArgsAssumption DEF Shared
  <2> QED BY <1>2, <1>4, <1>6, <2>2, SharedInt, SumDown
<1>7. CASE t \in Consumer /\ Get(t)
  <2>1. \/ status' = "failed" /\ num_full' = num_full
        \/ status' = status /\ num_full' = num_full - 1
    BY <1>7 DEF Get, do_get, ring
  <2>2. Shared' <= Shared - 8
    BY <1>5, <2>1, ArgsAssumption DEF Shared
  <2> QED BY <1>2, <1>4, <1>7, <2>2, SharedInt, SumDown
<1> QED BY <1>6, <1>7

\* A thread that may have been woken, and has taken no step.
LEMMA WokenLeft ==
  ASSUME CtlInv, CtlInv', NEW u \in Thread, pc'[u] = pc[u], i' = i
  PROVE  Left(u)' <= Left(u) + 3 /\ Left(u) \in Int /\ Left(u)' \in Int
<1>1. Stage(u)' <= Stage(u) + 3
  BY DEF Stage
<1>2. FillsLeft(u)' = FillsLeft(u) /\ JoinsLeft(u)' = JoinsLeft(u)
  BY DEF FillsLeft, JoinsLeft, Eos, Filled, Producer
<1>3. LeftParts /\ LeftParts'
  BY PartTypes, PTL
<1>4. /\ FillsLeft(u) \in Int /\ JoinsLeft(u) \in Int
      /\ Stage(u) \in Int /\ Stage(u)' \in Int
  BY <1>3 DEF LeftParts, Thread, Filler, Producer, Consumer
<1> QED BY <1>1, <1>2, <1>4 DEF Left

\* A signal costs more than the thread that it wakes may do before it sleeps
\* again.
LEMMA SignalDown ==
  ASSUME CtlInv, CtlInv', NEW t \in Thread, Signal(t)
  PROVE  Work' < Work
<1>1. pc[t] = "signal" /\ pc' = [pc EXCEPT ![t] = "unlock"] /\ i' = i
  BY DEF Signal, Goto, locals
<1>2. /\ pc \in [Thread -> Label] /\ waiting \in [Cv -> SUBSET Thread]
      /\ pc'[t] = "unlock" /\ \A x \in Thread \ {t} : pc'[x] = pc[x]
  BY <1>1 DEF CtlInv, IInv, TypeOK
<1>3. Shared' = Shared
  BY DEF Signal, ring, Shared
<1>4. Stage(t) = 8 /\ Stage(t)' = 4
  BY <1>1, <1>2 DEF Stage
<1>5. Left(t)' = Left(t) - 4 /\ Left(t) \in Int
  <2>1. "unlock" \in Protocol /\ pc[t] \in Protocol
    BY <1>1 DEF Protocol
  <2>2. Filled(t)' = Filled(t) \/ t \in Consumer
    BY <1>1, <1>2 DEF Filled
  <2>3. /\ t \in Consumer \/ Filled(t)' = Filled(t) =>
             Left(t)' = Left(t) + (Stage(t)' - Stage(t))
        /\ Left(t) \in Int
    BY <1>1, <2>1, ProtocolLeft
  <2> QED BY <1>4, <2>2, <2>3
<1>6. CASE waiting' = waiting
  <2>1. \A x \in Thread \ {t} : Left(x)' = Left(x)
    BY <1>1, <1>6, OthersKeep DEF Asleep
  <2> QED BY <1>3, <1>5, <2>1, SharedInt, SumDown
<1>7. ASSUME NEW cv \in Cv, NEW u \in waiting[cv], waiting' = [waiting EXCEPT ![cv] = @ \ {u}]
      PROVE  Work' < Work
  <2>1. u \in Thread /\ \A x \in Thread \ {u} : Asleep(x)' <=> Asleep(x)
    BY <1>2, <1>7 DEF Asleep, Cv
  <2>2. \A x \in Thread \ {t, u} : Left(x)' = Left(x)
    BY <1>1, <1>2, <2>1, SameLeft
  <2>3. CASE u = t
    BY <1>3, <1>5, <2>1, <2>2, <2>3, SharedInt, SumDown
  <2>4. CASE u # t
    <3>1. Left(u)' <= Left(u) + 3 /\ Left(u) \in Int /\ Left(u)' \in Int
      BY <1>1, <1>2, <2>1, <2>4, WokenLeft
    <3> QED BY <1>3, <1>5, <2>1, <2>2, <2>4, <3>1, SharedInt, SumDown
  <2> QED BY <2>3, <2>4
<1>8. SignalCv(t) \in Cv
  BY DEF SignalCv, Cv
<1> QED BY <1>6, <1>7, <1>8 DEF Signal, Cond_signal

\* A wake-up without a signal costs one of MaxSpurious.
LEMMA SpuriousDown ==
  ASSUME CtlInv, CtlInv', NEW t \in Thread, SpuriousWakeup(t)
  PROVE  Work' < Work
<1>1. PICK cv \in Cv : t \in waiting[cv] /\ waiting' = [waiting EXCEPT ![cv] = @ \ {t}]
  BY DEF SpuriousWakeup
<1>2. pc' = pc /\ i' = i /\ waiting \in [Cv -> SUBSET Thread]
  BY DEF SpuriousWakeup, locals, CtlInv, IInv, TypeOK
<1>3. Shared' = Shared - 4
  BY ArgsAssumption DEF SpuriousWakeup, ring, Shared, CtlInv, IInv, TypeOK
<1>4. \A x \in Thread \ {t} : Asleep(x)' <=> Asleep(x)
  BY <1>1, <1>2 DEF Asleep, Cv
<1>5. \A x \in Thread \ {t} : Left(x)' = Left(x)
  BY <1>2, <1>4, SameLeft
<1>6. Left(t)' <= Left(t) + 3 /\ Left(t) \in Int /\ Left(t)' \in Int
  BY <1>2, WokenLeft
<1> QED BY <1>3, <1>5, <1>6, SharedInt, SumDown

\* An iteration that ends; the entry it stored is in the counter now.
LEMMA UnlockDown ==
  ASSUME CtlInv, CtlInv', NEW t \in Thread,
         \/ t \in Producer /\ ProducerUnlock(t)
         \/ t \in Consumer /\ ConsumerUnlock(t)
         \/ t = Main /\ MainUnlock
  PROVE  Work' < Work
<1>1. PICK l \in {"lock", "done"} :
        /\ pc[t] = "unlock" /\ pc' = [pc EXCEPT ![t] = l] /\ (t = Main => l = "lock")
        /\ waiting' = waiting
  <2>1. CASE t \in Producer /\ ProducerUnlock(t)
    <3>1. t # Main
      BY <2>1, ThreadTypes
    <3> QED BY <2>1, <3>1 DEF ProducerUnlock, Goto
  <2>2. CASE t \in Consumer /\ ConsumerUnlock(t)
    <3>1. t # Main
      BY <2>2, ThreadTypes
    <3> QED BY <2>2, <3>1 DEF ConsumerUnlock, Goto
  <2>3. CASE t = Main /\ MainUnlock
    BY <2>3 DEF MainUnlock, Goto
  <2> QED BY <2>1, <2>2, <2>3
<1>2. /\ pc'[t] = l /\ \A x \in Filler \ {t} : i'[x] = i[x]
      /\ t \in Filler => i'[t] = i[t] + 1 /\ i[t] \in Nat
  BY <1>1, ThreadTypes DEF ProducerUnlock, ConsumerUnlock, MainUnlock, CtlInv, IInv, TypeOK
<1>3. \A x \in Thread \ {t} : Left(x)' = Left(x)
  <2>1. \A x \in Thread \ {t} : Asleep(x)' <=> Asleep(x)
    BY <1>1 DEF Asleep
  <2> QED BY <1>1, <1>2, <2>1, OthersKeep
<1>4. Stage(t) = 4 /\ Stage(t)' <= 3
  BY <1>1, <1>2 DEF Stage
<1>5. FillsLeft(t)' = FillsLeft(t)
  <2>1. t \in Filler => Filled(t)' = Filled(t)
    BY <1>1, <1>2 DEF Filled
  <2>2. t = Main => Eos = Filled(t) /\ Eos' = Filled(t)'
    BY <1>1, <1>2 DEF Eos
  <2> QED BY <2>1, <2>2, ThreadTypes DEF FillsLeft, Producer
<1>6. JoinsLeft(t)' = JoinsLeft(t)
  BY <1>1, <1>2 DEF JoinsLeft
<1>7. LeftParts /\ LeftParts'
  BY PartTypes, PTL
<1>8. /\ FillsLeft(t) \in Int /\ JoinsLeft(t) \in Int /\ Stage(t) \in Int /\ Stage(t)' \in Int
  BY <1>7 DEF LeftParts, Thread, Filler, Producer, Consumer
<1>9. Left(t)' < Left(t) /\ Left(t) \in Int /\ Left(t)' \in Int
  BY <1>4, <1>5, <1>6, <1>8 DEF Left
<1>10. Shared' = Shared
  BY DEF ProducerUnlock, ConsumerUnlock, MainUnlock, ring, Shared
<1> QED BY <1>3, <1>9, <1>10, SharedInt, SumDown

\* main() creates and joins.
LEMMA MainDown ==
  ASSUME CtlInv, CtlInv', status = "running",
         Create \/ MainLoopEnd \/ JoinProducer \/ JoinConsumer \/ Exit
  PROVE  Work' < Work
<1> USE ThreadTypes, ArgsAssumption
<1>1. /\ pc \in [Thread -> Label] /\ i \in [Filler -> Nat] /\ i[Main] \in Nat
      /\ waiting' = waiting /\ num_full' = num_full /\ spurious' = spurious
      /\ num_full \in Int /\ spurious \in Int
  BY DEF Create, MainLoopEnd, LoopEnd, JoinProducer, JoinConsumer, Join, Exit, ring,
     CtlInv, IInv, TypeOK
<1>2. LeftParts /\ LeftParts'
  BY PartTypes, PTL
<1>3. \A t \in Thread : /\ FillsLeft(t) \in Int /\ JoinsLeft(t) \in Int /\ Stage(t) \in Int
                        /\ FillsLeft(t)' \in Int /\ JoinsLeft(t)' \in Int /\ Stage(t)' \in Int
  BY <1>2 DEF LeftParts, Thread, Filler, Producer, Consumer
<1>4. ASSUME NEW l, pc' = [pc EXCEPT ![Main] = l], \A x \in Filler \ {Main} : i'[x] = i[x],
             FillsLeft(Main)' = FillsLeft(Main),
             JoinsLeft(Main)' + Stage(Main)' < JoinsLeft(Main) + Stage(Main),
             status' = status
      PROVE  Work' < Work
  <2>1. \A x \in Thread \ {Main} : Left(x)' = Left(x)
    BY <1>1, <1>4, OthersKeep DEF Asleep
  <2>2. Left(Main)' < Left(Main) /\ Left(Main) \in Int /\ Left(Main)' \in Int
    BY <1>3, <1>4 DEF Left
  <2>3. Shared' = Shared
    BY <1>1, <1>4 DEF Shared
  <2> QED BY <2>1, <2>2, <2>3, SharedInt, SumDown
<1>5. CASE Create
  <2>1. i[Main] \in Thread \ {Main} /\ pc[i[Main]] = "unborn" /\ pc[Main] = "create"
    <3>1. i[Main] \in 0 .. producers + consumers - 1
      BY <1>1, <1>5 DEF Create
    <3>2. i[Main] \in Thread /\ i[Main] # Main
      BY <3>1 DEF Thread, Filler, Producer, Consumer, Main
    <3> QED BY <1>5, <3>1, <3>2 DEF Create, CtlInv, IInv, NotYetCreated
  <2>2. PICK t \in Thread \ {Main} : t = i[Main] /\ pc[t] = "unborn"
    BY <2>1
  <2>3. /\ pc' = [pc EXCEPT ![t] = "lock"] /\ \A x \in Filler \ {Main} : i'[x] = i[x]
        /\ status' = status
    BY <1>1, <1>5, <2>2 DEF Create
  <2>4. pc'[t] = "lock" /\ \A x \in Thread \ {t} : pc'[x] = pc[x]
    BY <1>1, <2>3
  <2>5. \A x \in Thread \ {t, Main} : Left(x)' = Left(x)
    BY <1>1, <2>3, <2>4, SameLeft DEF Asleep
  <2>6. Left(Main)' = Left(Main)
    BY <2>1, <2>4 DEF Left, Stage, FillsLeft, JoinsLeft, Eos
  <2>7. Stage(t) = 4 /\ Stage(t)' = 3
    BY <2>2, <2>4 DEF Stage
  <2>8. FillsLeft(t)' = FillsLeft(t) /\ JoinsLeft(t)' = JoinsLeft(t)
    BY <2>2, <2>3, <2>4 DEF FillsLeft, JoinsLeft, Filled, Producer
  <2>9. Left(t)' < Left(t) /\ Left(t) \in Int /\ Left(t)' \in Int
    BY <1>3, <2>7, <2>8 DEF Left
  <2>10. Shared' = Shared
    BY <1>1, <2>3 DEF Shared
  <2> QED BY <2>5, <2>6, <2>9, <2>10, SharedInt, SumDown
<1>6. CASE MainLoopEnd
  <2>1. CASE LoopEnd("create", producers + consumers, "join_producers")
    <3>1. pc'[Main] = "join_producers" /\ pc[Main] = "create" /\ i'[Main] = 0
      BY <1>1, <2>1 DEF LoopEnd
    <3>2. Stage(Main) = 0 /\ Stage(Main)' = 0 /\ FillsLeft(Main)' = FillsLeft(Main)
      BY <3>1 DEF Stage, FillsLeft, Eos
    <3>3. JoinsLeft(Main)' < JoinsLeft(Main)
      BY <3>1 DEF JoinsLeft
    <3>4. JoinsLeft(Main)' + Stage(Main)' < JoinsLeft(Main) + Stage(Main)
      BY <1>3, <3>2, <3>3
    <3>5. /\ pc' = [pc EXCEPT ![Main] = pc'[Main]] /\ status' = status
          /\ \A x \in Filler \ {Main} : i'[x] = i[x]
      BY <1>1, <2>1 DEF LoopEnd
    <3> QED BY <1>4, <3>2, <3>4, <3>5
  <2>2. CASE LoopEnd("join_producers", producers, "lock")
    <3>1. pc'[Main] = "lock" /\ pc[Main] = "join_producers" /\ i[Main] = producers /\ i'[Main] = 0
      BY <1>1, <2>2 DEF LoopEnd
    <3>2. Stage(Main) = 0 /\ Stage(Main)' = 3 /\ FillsLeft(Main)' = FillsLeft(Main)
      BY <3>1 DEF Stage, FillsLeft, Eos, Filled
    <3>3. JoinsLeft(Main)' + 3 < JoinsLeft(Main)
      BY <3>1 DEF JoinsLeft
    <3>4. JoinsLeft(Main)' + Stage(Main)' < JoinsLeft(Main) + Stage(Main)
      BY <1>3, <3>2, <3>3
    <3>5. /\ pc' = [pc EXCEPT ![Main] = pc'[Main]] /\ status' = status
          /\ \A x \in Filler \ {Main} : i'[x] = i[x]
      BY <1>1, <2>2 DEF LoopEnd
    <3> QED BY <1>4, <3>2, <3>4, <3>5
  <2>3. CASE LoopEnd("lock", consumers, "join_consumers")
    <3>1. pc'[Main] = "join_consumers" /\ pc[Main] = "lock" /\ i[Main] = consumers /\ i'[Main] = 0
      BY <1>1, <2>3 DEF LoopEnd
    <3>2. Stage(Main) = 3 /\ Stage(Main)' = 0 /\ FillsLeft(Main)' = FillsLeft(Main)
      BY <3>1 DEF Stage, FillsLeft, Eos, Filled
    <3>3. JoinsLeft(Main)' < JoinsLeft(Main)
      BY <3>1 DEF JoinsLeft
    <3>4. JoinsLeft(Main)' + Stage(Main)' < JoinsLeft(Main) + Stage(Main)
      BY <1>3, <3>2, <3>3
    <3>5. /\ pc' = [pc EXCEPT ![Main] = pc'[Main]] /\ status' = status
          /\ \A x \in Filler \ {Main} : i'[x] = i[x]
      BY <1>1, <2>3 DEF LoopEnd
    <3> QED BY <1>4, <3>2, <3>4, <3>5
  <2> QED BY <1>6, <2>1, <2>2, <2>3 DEF MainLoopEnd
<1>7. CASE JoinProducer \/ JoinConsumer
  <2>1. /\ pc' = pc /\ i' = [i EXCEPT ![Main] = @ + 1] /\ i'[Main] = i[Main] + 1
        /\ pc[Main] \in {"join_producers", "join_consumers"} /\ status' = status
    BY <1>1, <1>7 DEF JoinProducer, JoinConsumer, Join
  <2>2. Stage(Main)' = Stage(Main) /\ Stage(Main) = 0 /\ FillsLeft(Main)' = FillsLeft(Main)
    BY <2>1 DEF Stage, FillsLeft, Eos
  <2>3. JoinsLeft(Main)' < JoinsLeft(Main)
    BY <1>1, <2>1 DEF JoinsLeft
  <2>4. pc' = [pc EXCEPT ![Main] = pc[Main]] /\ \A x \in Filler \ {Main} : i'[x] = i[x]
    BY <1>1, <2>1
  <2>5. JoinsLeft(Main)' + Stage(Main)' < JoinsLeft(Main) + Stage(Main)
    BY <1>3, <2>2, <2>3
  <2> QED BY <1>4, <2>1, <2>2, <2>4, <2>5
<1>8. CASE Exit
  <2>1. pc' = pc /\ i' = i /\ status' = "exited"
    BY <1>8 DEF Exit, locals
  <2>2. \A x \in Thread : Left(x)' = Left(x)
    BY <1>1, <2>1, SameLeft DEF Asleep
  <2>3. Shared' < Shared
    BY <1>1, <2>1 DEF Shared
  <2>4. Left(Main) \in Int
    BY <1>3 DEF Left
  <2> QED BY <2>2, <2>3, <2>4, SharedInt, SumDown
<1> QED BY <1>5, <1>6, <1>7, <1>8

\* Every step of every program brings the work that is left down, and it is a
\* natural number: no program of the three runs for ever, whatever the numbers
\* of threads, items and slots.  One that does not return has been stopped by
\* ensure() or is stuck; by EnsureHolds, NeverDeadlocks and
\* OneOfEachNeverDeadlocks, main-two-cvs-while.c, and any of the three with one
\* producer and one consumer, is neither.
THEOREM WorkGoesDown == Spec => [](Work \in Nat) /\ [][Work' < Work]_vars
<1>1. CtlInv /\ CtlInv' /\ [Next]_vars => [Work' < Work]_vars
  <2> SUFFICES ASSUME CtlInv, CtlInv', Next PROVE Work' < Work
    OBVIOUS
  <2> PICK t \in Thread : Step(t) \/ SpuriousWakeup(t)
    BY DEF Next
  <2>1. CASE Lock(t) \/ Sleep(t) \/ Wake(t) \/ Pass(t)
    BY <2>1, ProtocolDown
  <2>2. CASE (t \in Filler /\ Fill(t)) \/ (t \in Consumer /\ Get(t))
    BY <2>2, OperationDown DEF Next
  <2>3. CASE Signal(t) \/ SpuriousWakeup(t)
    BY <2>3, SignalDown, SpuriousDown
  <2>4. CASE \/ t \in Producer /\ ProducerUnlock(t)
             \/ t \in Consumer /\ ConsumerUnlock(t)
             \/ t = Main /\ MainStep
    BY <2>4, UnlockDown, MainDown DEF MainStep, Next
  <2> QED BY <2>1, <2>2, <2>3, <2>4, ThreadTypes DEF Step, producer, consumer, main
<1>2. CtlInv => Work \in Nat
  BY WorkType
<1> QED BY <1>1, <1>2, CtlInvariance, PTL DEF Spec
=============================================================================
