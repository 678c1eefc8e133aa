------------------------- MODULE TwoCvsExtraUnlock -------------------------
(***************************************************************************)
(* main-two-cvs-while-extra-unlock.c: producers and consumers give the     *)
(* mutex up after the test and take it again for the signal, so that       *)
(* do_fill and do_get race.  Each statement of the two functions is split  *)
(* at its accesses to shared memory: the value read is kept in a register  *)
(* of the thread until the access that uses it, the way the build (no      *)
(* optimisation) executes it.  main() stores its end-of-stream markers     *)
(* with the same statements; it holds the mutex, but the others do not.    *)
(***************************************************************************)
EXTENDS ProducerConsumer

VARIABLE reg    \* the value of a shared variable each thread read last

xvars == <<vars, reg>>

XInit == Init /\ reg = [t \in Thread |-> 0]

-----------------------------------------------------------------------------
(* do_fill and do_get, from label "op" to label "relock".                  *)

Ptr(t) == IF t \in Consumer THEN use_ptr ELSE fill_ptr

\* t reads a shared variable whose value is v.
Load(t, from, v, to) ==
  /\ Goto(t, from, to)
  /\ reg' = [reg EXCEPT ![t] = v]
  /\ UNCHANGED <<ring, m, waiting, locals, status, spurious>>

\* What ensure() wants of the slot.
SlotReady(t) ==
  IF t \in Consumer THEN buffer[reg[t]] # EMPTY ELSE buffer[reg[t]] = EMPTY

\* Read the slot, into tmp for a consumer, and ensure() it is as it should be.
Check(t) ==
  /\ Goto(t, "check", "checked")
  /\ IF SlotReady(t)
       THEN IF t \in Consumer
              THEN /\ tmp' = [tmp EXCEPT ![t] = buffer[reg[t]]]
                   /\ taken' = taken \cup ({buffer[reg[t]]} \ {END_OF_STREAM})
                   /\ UNCHANGED status
              ELSE UNCHANGED <<tmp, taken, status>>
       ELSE status' = "failed" /\ UNCHANGED <<tmp, taken>>
  /\ UNCHANGED <<ring, m, waiting, i, consumed_count, spurious, reg>>

StoreSlot(t) ==
  /\ Goto(t, "store_slot", "stored")
  /\ buffer' = [buffer EXCEPT ![reg[t]] = IF t \in Consumer THEN EMPTY ELSE ValueOf(t)]
  /\ UNCHANGED <<use_ptr, fill_ptr, num_full, m, waiting, locals, status, spurious, reg>>

StorePtr(t) ==
  /\ Goto(t, "store_ptr", "advanced")
  /\ IF t \in Consumer
       THEN use_ptr' = Succ(reg[t]) /\ UNCHANGED fill_ptr
       ELSE fill_ptr' = Succ(reg[t]) /\ UNCHANGED use_ptr
  /\ UNCHANGED <<buffer, num_full, m, waiting, locals, status, spurious, reg>>

StoreCount(t) ==
  /\ Goto(t, "store_count", IF t = Main THEN "signal" ELSE "relock")
  /\ num_full' = IF t \in Consumer THEN reg[t] - 1 ELSE reg[t] + 1
  /\ UNCHANGED <<buffer, use_ptr, fill_ptr, m, waiting, locals, status, spurious, reg>>

Operation(t) ==
  \/ Load(t, "enter", Ptr(t), "check")
  \/ Check(t)
  \/ Load(t, "checked", Ptr(t), "store_slot")
  \/ StoreSlot(t)
  \/ Load(t, "stored", Ptr(t), "store_ptr")
  \/ StorePtr(t)
  \/ Load(t, "advanced", num_full, "store_count")
  \/ StoreCount(t)

-----------------------------------------------------------------------------
(* The threads.                                                            *)

\* main() keeps the mutex during its do_fill.
Enter(t) ==
  /\ Goto(t, "op", "enter")
  /\ IF t = Main THEN UNCHANGED m ELSE Mutex_unlock(t)
  /\ UNCHANGED <<ring, waiting, locals, status, spurious, reg>>

Relock(t) ==
  /\ Goto(t, "relock", "signal")
  /\ Mutex_lock(t)
  /\ UNCHANGED <<ring, waiting, locals, status, spurious, reg>>

\* What the three kinds of thread have in common.
Protocol(t) ==
  \/ (Lock(t) \/ Sleep(t) \/ Wake(t) \/ Pass(t) \/ Signal(t)) /\ UNCHANGED reg
  \/ Enter(t) \/ Operation(t) \/ Relock(t)

unlocking_producer(p) == Protocol(p) \/ (ProducerUnlock(p) /\ UNCHANGED reg)
unlocking_consumer(c) == Protocol(c) \/ (ConsumerUnlock(c) /\ UNCHANGED reg)
unlocking_main        == Protocol(Main) \/ (MainStep /\ UNCHANGED reg)

XStep(t) ==
  \/ t \in Producer /\ unlocking_producer(t)
  \/ t \in Consumer /\ unlocking_consumer(t)
  \/ t = Main /\ unlocking_main

XNext ==
  /\ status = "running"
  /\ \E t \in Thread : XStep(t) \/ (SpuriousWakeup(t) /\ UNCHANGED reg)

XSpec == XInit /\ [][XNext]_xvars

-----------------------------------------------------------------------------
(* Properties.                                                             *)

OpLabel == {"enter", "check", "checked", "store_slot", "stored", "store_ptr",
            "advanced", "store_count"}

\* t is inside do_fill or do_get.
InOperation(t) == pc[t] \in OpLabel

\* num_full "counts how many entries are full" (pc-header.h), at least while
\* no thread is inside do_fill or do_get.
NumFullCounts ==
  (\A t \in Thread : ~InOperation(t)) =>
    num_full = Cardinality({s \in Slot : buffer[s] # EMPTY})
=============================================================================
