------------------------------- MODULE RwLock -------------------------------
(***************************************************************************)
(* concurrency/threads-sema/reader-writer.c (and reader-writer-nostarve.c, *)
(* which has the same lock): readers and writers that go through a         *)
(* reader-writer lock made of two semaphores.                              *)
(***************************************************************************)
EXTENDS Integers, FiniteSets

CONSTANTS
  Readers, Writers,   \* the threads main() creates
  loops               \* how many times each reads or writes

ASSUME RwAssumption ==
  IsFiniteSet(Readers) /\ IsFiniteSet(Writers) /\ Readers \cap Writers = {} /\ loops \in Nat

Thread == Readers \cup Writers

VARIABLES
  lock,        \* semaphore that guards readers
  writelock,   \* semaphore that a writer or all readers together hold
  readers,     \* count of readers in their critical section
  value,       \* what writers increment
  pc,          \* where each thread is
  i,           \* loop counter of each thread
  reg          \* what each writer has read of value

vars == <<lock, writelock, readers, value, pc, i, reg>>

Start(t) == IF t \in Readers THEN "acquire" ELSE "write_wait"

\* rwlock_init() and the creation of the threads.
Init ==
  /\ readers = 0 /\ lock = 1 /\ writelock = 1 /\ value = 0
  /\ pc = [t \in Thread |-> IF loops > 0 THEN Start(t) ELSE "done"]
  /\ i = [t \in Thread |-> 0]
  /\ reg = [w \in Writers |-> 0]

Goto(t, from, to) == pc[t] = from /\ pc' = [pc EXCEPT ![t] = to]

\* sem_wait on a semaphore of value s, and sem_post.
Wait(s, next) == s > 0 /\ next = s - 1
Post(s, next) == next = s + 1

\* The end of an iteration of the thread's loop.
Again(t) == IF i[t] + 1 < loops THEN Start(t) ELSE "done"

-----------------------------------------------------------------------------
(* rwlock_acquire_readlock, the read, rwlock_release_readlock.             *)

AcquireLock(r) ==
  /\ Goto(r, "acquire", "enter")
  /\ Wait(lock, lock')
  /\ UNCHANGED <<writelock, readers, value, i, reg>>

Enter_alone(r) ==
  /\ Goto(r, "enter", "acquired")
  /\ readers' = readers + 1
  /\ UNCHANGED <<lock, writelock, value, i, reg>>
Enter(r) ==
  /\ Goto(r, "enter", IF readers + 1 = 1 THEN "first_reader" ELSE "acquired")
  /\ readers' = readers + 1
  /\ UNCHANGED <<lock, writelock, value, i, reg>>

\* The first reader takes writelock for all readers; the last reader waits for
\* it once more.
WaitWritelock(r) ==
  /\ \/ Goto(r, "first_reader", "acquired")
     \/ Goto(r, "last_reader", "released")
  /\ Wait(writelock, writelock')
  /\ UNCHANGED <<lock, readers, value, i, reg>>

AcquiredPost(r) ==
  /\ Goto(r, "acquired", "read")
  /\ Post(lock, lock')
  /\ UNCHANGED <<writelock, readers, value, i, reg>>

\* printf("read %d\n", value) changes nothing; what follows is the sem_wait
\* of rwlock_release_readlock.
ReleaseLock(r) ==
  /\ Goto(r, "read", "leave")
  /\ Wait(lock, lock')
  /\ UNCHANGED <<writelock, readers, value, i, reg>>

Leave(r) ==
  /\ Goto(r, "leave", IF readers - 1 = 0 THEN "last_reader" ELSE "released")
  /\ readers' = readers - 1
  /\ UNCHANGED <<lock, writelock, value, i, reg>>

ReleasedPost(r) ==
  /\ Goto(r, "released", Again(r))
  /\ Post(lock, lock')
  /\ i' = [i EXCEPT ![r] = @ + 1]
  /\ UNCHANGED <<writelock, readers, value, reg>>

reader(r) ==
  \/ AcquireLock(r) \/ Enter(r) \/ WaitWritelock(r) \/ AcquiredPost(r)
  \/ ReleaseLock(r) \/ Leave(r) \/ ReleasedPost(r)

-----------------------------------------------------------------------------
(* rwlock_acquire_writelock, value++, rwlock_release_writelock.            *)

AcquireWrite_nowait(w) ==
  /\ Goto(w, "write_wait", "write_read")
  /\ UNCHANGED <<lock, writelock, readers, value, i, reg>>
AcquireWrite(w) ==
  /\ Goto(w, "write_wait", "write_read")
  /\ Wait(writelock, writelock')
  /\ UNCHANGED <<lock, readers, value, i, reg>>

ReadValue(w) ==
  /\ Goto(w, "write_read", "write_store")
  /\ reg' = [reg EXCEPT ![w] = value]
  /\ UNCHANGED <<lock, writelock, readers, value, i>>

StoreValue(w) ==
  /\ Goto(w, "write_store", "write_post")
  /\ value' = reg[w] + 1
  /\ UNCHANGED <<lock, writelock, readers, i, reg>>

ReleaseWrite(w) ==
  /\ Goto(w, "write_post", Again(w))
  /\ Post(writelock, writelock')
  /\ i' = [i EXCEPT ![w] = @ + 1]
  /\ UNCHANGED <<lock, readers, value, reg>>

writer(w) == AcquireWrite(w) \/ ReadValue(w) \/ StoreValue(w) \/ ReleaseWrite(w)

Next ==
  \/ \E r \in Readers : reader(r)
  \/ \E w \in Writers : writer(w)

Spec == Init /\ [][Next]_vars

-----------------------------------------------------------------------------
(* Properties.                                                             *)

Writing(w) == pc[w] \in {"write_read", "write_store", "write_post"}
Reading(r) == pc[r] = "read"

\* "ONE writer or MANY readers" (the comment at writelock): a writer is alone.
OneWriterOrManyReaders ==
  \A w \in Writers : Writing(w) =>
    /\ \A v \in Writers \ {w} : ~Writing(v)
    /\ \A r \in Readers : ~Reading(r)

\* No increment of value gets lost.
WritesCounted ==
  (\A w \in Writers : ~Writing(w)) =>
    value = Cardinality({c \in Writers \X (1 .. loops) : c[2] <= i[c[1]]})

\* Unless all threads have ended some thread can go on.
NeverStuck == (\A t \in Thread : pc[t] = "done") \/ ENABLED Next
=============================================================================
