--------------------------- MODULE MCThreadsLocks ---------------------------
(***************************************************************************)
(* Model checking of the three structures of concurrency/threads-locks, of *)
(* the reader-writer lock of concurrency/threads-sema and of the programs  *)
(* of concurrency/threads-api.  They share nothing: a behaviour uses one   *)
(* of them, its subject, and leaves the others as they were initialised.   *)
(***************************************************************************)
EXTENDS TLC, RwLock

CONSTANTS
  Threads, Getters, NUMCPUS, threshold, Amounts, Updates,   \* apprxcntr.c
  Enqueuers, Dequeuers, Node, NULL, MaxEnqueue,             \* concqueue.h
  Callers, Keys, BUCKETS, MaxInsert,                        \* conchsh.h
  Programs                                                  \* threads-api

VARIABLES
  subject,
  global, glock, local, llock, cpc, amt, calls, val, added,
  head, tail, head_lock, tail_lock, qnext, qvalue, allocated, qpc, tmp, new_head,
  qrv, qcalls, fault,
  heads, hlock, hpc, key, hnext, curr, hrv, hcalls, present, expected,
  program, acalls, owner, asleep, done, balance, areg, printed

Counter == INSTANCE ApproxCounter WITH pc <- cpc
Queue   == INSTANCE ConcQueue WITH next <- qnext, value <- qvalue, pc <- qpc, rv <- qrv, calls <- qcalls
Hash    == INSTANCE ConcHash WITH next <- hnext, lock <- hlock, pc <- hpc, rv <- hrv, calls <- hcalls
Api     == INSTANCE ThreadsApi WITH calls <- acalls, reg <- areg

counter == <<global, glock, local, llock, cpc, amt, calls, val, added>>
queue   == <<head, tail, head_lock, tail_lock, qnext, qvalue, allocated, qpc, tmp,
             new_head, qrv, qcalls, fault>>
hash    == <<heads, hlock, hpc, key, hnext, curr, hrv, hcalls, present, expected>>
rw      == vars
api     == <<program, acalls, owner, asleep, done, balance, areg, printed>>

MCInit ==
  /\ subject \in {"counter", "queue", "hash", "rw", "api"}
  /\ Counter!init /\ Queue!Queue_Init /\ Hash!Hash_Init /\ Init
  /\ Api!Init /\ (subject # "api" => program = "race")

MCNext ==
  \/ /\ subject = "counter" /\ Counter!Next
     /\ UNCHANGED <<subject, queue, hash, rw, api>>
  \/ /\ subject = "queue" /\ Queue!Next
     /\ UNCHANGED <<subject, counter, hash, rw, api>>
  \/ /\ subject = "hash" /\ Hash!Next
     /\ UNCHANGED <<subject, counter, queue, rw, api>>
  \/ /\ subject = "rw" /\ Next
     /\ UNCHANGED <<subject, counter, queue, hash, api>>
  \/ /\ subject = "api" /\ Api!Next
     /\ UNCHANGED <<subject, counter, queue, hash, rw>>

MCSpec == MCInit /\ [][MCNext]_<<subject, counter, queue, hash, rw, api>>

\* Threads of one role, nodes and callers are interchangeable; keys and the
\* threads of the counter are numbers.  The group is kept small: it does
\* without the few states that permuting the readers and writers would save.
Symmetry ==
  Permutations(Node) \cup Permutations(Enqueuers) \cup Permutations(Dequeuers)
    \cup Permutations(Callers)

-----------------------------------------------------------------------------
(* The properties of the parts, stated and commented there.  Those of   *)
(* RwLock keep their names.                                                *)

\* apprxcntr.c: every amount is in one place.
NothingLost == Counter!NothingLost
\* apprxcntr.c: get() never lags behind by more than its bound.
BoundedLag == Counter!BoundedLag
\* apprxcntr.c: get() never goes back or ahead.
GetMonotonic == Counter!GetMonotonic
\* concqueue.h: no use of a freed node.
NoUseAfterFree == Queue!NoUseAfterFree
\* concqueue.h: every call is one step of a FIFO queue.
ImplementsFifo == Queue!ImplementsFifo
\* concqueue.h: as many nodes as values, and the dummy.
NoLeak == Queue!NoLeak
\* conchsh.h: a lookup finds what was inserted before it.
LookupCorrect == Hash!LookupCorrect
\* threads-api: the programs stop only with their work done.
StopsOnlyWhenDone == Api!StopsOnlyWhenDone
=============================================================================
