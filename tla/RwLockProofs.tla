---------------------------- MODULE RwLockProofs ----------------------------
(***************************************************************************)
(* The reader-writer lock for every number of readers, writers and loops:  *)
(* a writer is alone.  The lock is safe although the last reader waits for *)
(* writelock where it should post it.                                      *)
(***************************************************************************)
EXTENDS RwLock, FiniteSetTheorems, TLAPS

Label ==
  {"acquire", "enter", "first_reader", "acquired", "read", "leave", "last_reader", "released",
   "write_wait", "write_read", "write_store", "write_post", "done"}

TypeOK ==
  /\ lock \in {0, 1} /\ writelock \in {0, 1}
  /\ pc \in [Thread -> Label]

\* The semaphore lock is down while a reader is in one of the two critical
\* sections of the lock's functions, and that is one reader.
Holds(r) ==
  pc[r] \in {"enter", "first_reader", "acquired", "leave", "last_reader", "released"}
LockHeld ==
  \A r \in Readers : Holds(r) =>
    /\ lock = 0
    /\ \A s \in Readers \ {r} : ~Holds(s)

\* readers counts the readers between its increment and its decrement.
Inside == {r \in Readers : pc[r] \in {"first_reader", "acquired", "read", "leave"}}
ReadersCounted == readers = Cardinality(Inside)

\* writelock is down while a writer writes, or while a reader is past the first
\* one's wait; then the last reader, who waits for it again, waits for ever.
InGroup(r) == pc[r] \in {"acquired", "read", "leave", "last_reader"}
WriteHeld ==
  /\ \A w \in Writers : Writing(w) =>
       /\ writelock = 0
       /\ \A v \in Writers \ {w} : ~Writing(v)
  /\ \A r \in Readers : InGroup(r) =>
       /\ writelock = 0
       /\ \A w \in Writers : ~Writing(w)

IInv == TypeOK /\ LockHeld /\ ReadersCounted /\ WriteHeld

-----------------------------------------------------------------------------

LEMMA InsideFinite == IsFiniteSet(Inside) /\ Cardinality(Inside) \in Nat
<1>1. Inside \in SUBSET Readers
  BY DEF Inside
<1> QED BY <1>1, RwAssumption, FS_Subset, FS_CardinalityType

\* What a step of one thread does to the other threads.
LEMMA OthersStay ==
  ASSUME TypeOK, NEW t \in Thread, NEW from, NEW to \in Label, Goto(t, from, to)
  PROVE  /\ pc' \in [Thread -> Label] /\ pc[t] = from /\ pc'[t] = to
         /\ \A u \in Thread \ {t} : pc'[u] = pc[u]
BY DEF TypeOK, Goto

LEMMA InitInv == Init => IInv
<1> SUFFICES ASSUME Init PROVE IInv
  OBVIOUS
<1>1. \A t \in Thread : pc[t] \in {"acquire", "write_wait", "done"}
  BY DEF Init, Start
<1>2. TypeOK
  BY DEF Init, TypeOK, Start, Label
<1>3. Inside = {}
  BY <1>1 DEF Inside, Thread
<1> QED BY <1>1, <1>2, <1>3, FS_EmptySet
        DEF Init, IInv, LockHeld, Holds, ReadersCounted, WriteHeld, Writing, InGroup, Thread

\* The semaphores stay 0 or 1: what is posted was down.
LEMMA WriterInv ==
  ASSUME IInv, NEW w \in Writers, writer(w)
  PROVE  IInv'
<1>0. w \in Thread /\ w \notin Readers /\ Readers \in SUBSET Thread /\ Writers \in SUBSET Thread
  BY RwAssumption DEF Thread
<1>1. Again(w) \in {"write_wait", "done"}
  BY <1>0 DEF Again, Start
<1>2. pc' \in [Thread -> Label] /\ \A u \in Thread \ {w} : pc'[u] = pc[u]
  BY <1>0, <1>1, OthersStay DEF writer, AcquireWrite, ReadValue, StoreValue, ReleaseWrite, IInv, Label
<1>3. lock' = lock /\ readers' = readers
  BY DEF writer, AcquireWrite, ReadValue, StoreValue, ReleaseWrite
<1>4. \A r \in Readers : pc'[r] = pc[r]
  BY <1>0, <1>2
<1>5. LockHeld'
  BY <1>3, <1>4 DEF IInv, LockHeld, Holds
<1>6. ReadersCounted'
  <2>1. Inside' = Inside
    BY <1>4 DEF Inside
  <2> QED BY <2>1, <1>3 DEF IInv, ReadersCounted
<1>7. writelock' \in {0, 1} /\ WriteHeld'
  <2>1. CASE AcquireWrite(w)
    <3>1. writelock = 1 /\ writelock' = 0
      BY <2>1 DEF AcquireWrite, Wait, IInv, TypeOK
    <3>2. (\A v \in Writers : ~Writing(v)) /\ \A r \in Readers : ~InGroup(r)
      BY <3>1 DEF IInv, WriteHeld
    <3>3. (\A v \in Writers \ {w} : ~Writing(v)') /\ \A r \in Readers : ~InGroup(r)'
      BY <3>2, <1>0, <1>2, <1>4 DEF Writing, InGroup
    <3> QED BY <3>1, <3>3 DEF WriteHeld
  <2>2. CASE ReadValue(w) \/ StoreValue(w)
    <3>1. writelock' = writelock /\ Writing(w) /\ \A v \in Writers : Writing(v)' <=> Writing(v)
      BY <2>2, <1>0, <1>2, OthersStay DEF ReadValue, StoreValue, Goto, Label, Writing, IInv, TypeOK
    <3> QED BY <3>1, <1>4 DEF IInv, TypeOK, WriteHeld, InGroup
  <2>3. CASE ReleaseWrite(w)
    <3>1. writelock' = writelock + 1 /\ Writing(w) /\ ~Writing(w)'
      BY <2>3, <1>0, <1>1, OthersStay DEF ReleaseWrite, Goto, Post, Writing, IInv, TypeOK, Label
    <3>2. writelock = 0 /\ (\A v \in Writers \ {w} : ~Writing(v)) /\ \A r \in Readers : ~InGroup(r)
      BY <3>1 DEF IInv, WriteHeld
    <3>3. (\A v \in Writers : ~Writing(v)') /\ \A r \in Readers : ~InGroup(r)'
      BY <3>1, <3>2, <1>0, <1>2, <1>4 DEF Writing, InGroup
    <3> QED BY <3>1, <3>2, <3>3 DEF WriteHeld
  <2> QED BY <2>1, <2>2, <2>3 DEF writer
<1> QED BY <1>2, <1>3, <1>5, <1>6, <1>7 DEF IInv, TypeOK

\* The reader at a label inside the two critical sections is the holder of lock.
LEMMA Alone ==
  ASSUME IInv, NEW r \in Readers, Holds(r)
  PROVE  lock = 0 /\ \A s \in Readers \ {r} : ~Holds(s)
BY DEF IInv, LockHeld

\* Of a reader's step on one label this much is enough: the mutual exclusion in
\* the sections, the count of readers, and who keeps writelock down.
LEMMA ReaderInv ==
  ASSUME IInv, NEW r \in Readers, reader(r)
  PROVE  IInv'
<1>0. r \in Thread /\ r \notin Writers /\ Readers \in SUBSET Thread /\ Writers \in SUBSET Thread
  BY RwAssumption DEF Thread
<1>1. Again(r) \in {"acquire", "done"}
  BY <1>0 DEF Again, Start
<1>2. pc' \in [Thread -> Label] /\ \A u \in Thread \ {r} : pc'[u] = pc[u]
  BY <1>0, <1>1, OthersStay
     DEF reader, AcquireLock, Enter, WaitWritelock, AcquiredPost, ReleaseLock, Leave, ReleasedPost,
         IInv, Label
<1>3. \A w \in Writers : Writing(w)' <=> Writing(w)
  BY <1>0, <1>2 DEF Writing
<1>4. \A s \in Readers \ {r} : (Holds(s)' <=> Holds(s)) /\ (InGroup(s)' <=> InGroup(s))
                              /\ (s \in Inside' <=> s \in Inside)
  BY <1>0, <1>2 DEF Holds, InGroup, Inside
<1>5. Inside \in SUBSET Readers /\ Inside' \in SUBSET Readers
  BY DEF Inside
<1>6. pc \in [Thread -> Label] /\ lock \in {0, 1} /\ writelock \in {0, 1}
  BY DEF IInv, TypeOK
\* sem_wait(&rw->lock), on the way in and on the way out.
<1>7. CASE AcquireLock(r) \/ ReleaseLock(r)
  <2>1. lock = 1 /\ lock' = 0 /\ writelock' = writelock /\ readers' = readers
    BY <1>6, <1>7 DEF AcquireLock, ReleaseLock, Wait
  <2>2. /\ r \in Inside' <=> r \in Inside
        /\ InGroup(r)' => InGroup(r)
    BY <1>0, <1>6, <1>7 DEF AcquireLock, ReleaseLock, Goto, Inside, InGroup
  <2>3. \A s \in Readers : ~Holds(s)
    BY <2>1 DEF IInv, LockHeld
  <2>4. LockHeld'
    BY <2>1, <2>3, <1>4 DEF LockHeld
  <2>5. Inside' = Inside
    BY <2>2, <1>4, <1>5
  <2>6. WriteHeld'
    BY <2>1, <2>2, <1>3, <1>4 DEF IInv, WriteHeld
  <2> QED BY <1>2, <1>6, <2>1, <2>4, <2>5, <2>6 DEF IInv, TypeOK, ReadersCounted
\* sem_post(&rw->lock).
<1>8. CASE AcquiredPost(r) \/ ReleasedPost(r)
  <2>1. Holds(r) /\ ~Holds(r)'
    BY <1>0, <1>1, <1>6, <1>8 DEF AcquiredPost, ReleasedPost, Goto, Holds
  <2>2. lock' = 1 /\ writelock' = writelock /\ readers' = readers
    BY <2>1, <1>8, Alone DEF AcquiredPost, ReleasedPost, Post
  <2>3. /\ r \in Inside' <=> r \in Inside
        /\ InGroup(r)' => InGroup(r)
    BY <1>0, <1>1, <1>6, <1>8 DEF AcquiredPost, ReleasedPost, Goto, Inside, InGroup
  <2>4. LockHeld'
    BY <2>1, <1>4, Alone DEF LockHeld
  <2>5. Inside' = Inside
    BY <2>3, <1>4, <1>5
  <2>6. WriteHeld'
    BY <2>2, <2>3, <1>3, <1>4 DEF IInv, WriteHeld
  <2> QED BY <1>2, <1>6, <2>2, <2>4, <2>5, <2>6 DEF IInv, TypeOK, ReadersCounted
\* readers++: a later reader finds the group, because no other reader is in the
\* section and so those counted are past the first one's wait.
<1>9. CASE Enter(r)
  <2>1. /\ pc[r] = "enter" /\ pc'[r] = IF readers + 1 = 1 THEN "first_reader" ELSE "acquired"
        /\ readers' = readers + 1 /\ lock' = lock /\ writelock' = writelock
    BY <1>0, <1>6, <1>9 DEF Enter, Goto
  <2>2. Holds(r) /\ Holds(r)' /\ r \notin Inside /\ Inside' = Inside \cup {r}
    BY <2>1, <1>4, <1>5 DEF Holds, Inside
  <2>3. LockHeld'
    BY <2>1, <2>2, <1>4, Alone DEF LockHeld
  <2>4. ReadersCounted'
    BY <2>1, <2>2, InsideFinite, FS_AddElement DEF IInv, ReadersCounted
  <2>5. WriteHeld'
    <3>1. CASE readers = 0
      BY <2>1, <3>1, <1>3, <1>4 DEF IInv, WriteHeld, InGroup
    <3>2. CASE readers # 0
      <4>1. PICK s \in Inside : TRUE
        BY <3>2, FS_EmptySet DEF IInv, ReadersCounted
      <4>2. s \in Readers \ {r} /\ ~Holds(s)
        BY <4>1, <2>2, <1>5, Alone
      <4>3. InGroup(s)
        BY <4>1, <4>2 DEF Inside, Holds, InGroup
      <4> QED BY <2>1, <4>2, <4>3, <1>3, <1>4 DEF IInv, WriteHeld
    <3> QED BY <3>1, <3>2
  <2> QED BY <1>2, <1>6, <2>1, <2>3, <2>4, <2>5 DEF IInv, TypeOK
\* sem_wait(&rw->writelock): the first reader's; the last reader's never returns.
<1>10. CASE WaitWritelock(r)
  <2>1. writelock = 1 /\ writelock' = 0 /\ lock' = lock /\ readers' = readers
    BY <1>6, <1>10 DEF WaitWritelock, Wait
  <2>2. pc[r] = "first_reader" /\ pc'[r] = "acquired"
    <3>1. ~InGroup(r)
      BY <2>1 DEF IInv, WriteHeld
    <3> QED BY <3>1, <1>0, <1>6, <1>10 DEF WaitWritelock, Goto, InGroup
  <2>3. Holds(r) /\ Holds(r)' /\ Inside' = Inside
    BY <2>2, <1>4, <1>5 DEF Holds, Inside
  <2>4. LockHeld'
    BY <2>1, <2>3, <1>4, Alone DEF LockHeld
  <2>5. WriteHeld'
    BY <2>1, <1>3, <1>4 DEF IInv, WriteHeld
  <2> QED BY <1>2, <1>6, <2>1, <2>3, <2>4, <2>5 DEF IInv, TypeOK, ReadersCounted
\* readers--.
<1>11. CASE Leave(r)
  <2>1. /\ pc[r] = "leave" /\ pc'[r] \in {"last_reader", "released"}
        /\ readers' = readers - 1 /\ lock' = lock /\ writelock' = writelock
    BY <1>0, <1>6, <1>11 DEF Leave, Goto
  <2>2. /\ Holds(r) /\ Holds(r)' /\ InGroup(r)
        /\ r \in Inside /\ Inside' = Inside \ {r}
    BY <2>1, <1>4, <1>5 DEF Holds, Inside, InGroup
  <2>3. LockHeld'
    BY <2>1, <2>2, <1>4, Alone DEF LockHeld
  <2>4. ReadersCounted'
    BY <2>1, <2>2, InsideFinite, FS_RemoveElement DEF IInv, ReadersCounted
  <2>5. WriteHeld'
    BY <2>1, <2>2, <1>3, <1>4 DEF IInv, WriteHeld
  <2> QED BY <1>2, <1>6, <2>1, <2>3, <2>4, <2>5 DEF IInv, TypeOK
<1> QED BY <1>7, <1>8, <1>9, <1>10, <1>11 DEF reader

\* The invariant is inductive.
LEMMA Step == ASSUME IInv, [Next]_vars PROVE IInv'
<1>1. CASE UNCHANGED vars
  BY <1>1 DEF vars, IInv, TypeOK, LockHeld, Holds, ReadersCounted, Inside, WriteHeld, Writing, InGroup
<1>2. CASE Next
  BY <1>2, ReaderInv, WriterInv DEF Next
<1> QED BY <1>1, <1>2

\* What AWriterIsAlone takes of the invariant.
LEMMA AloneOfInv == IInv => OneWriterOrManyReaders
BY DEF IInv, WriteHeld, InGroup, OneWriterOrManyReaders, Reading

\* A writer in its critical section is alone, whatever the number of readers,
\* writers and rounds: no other thread is past its rwlock_acquire_writelock()
\* or rwlock_acquire_readlock() and not yet at the release.
THEOREM AWriterIsAlone == Spec => []OneWriterOrManyReaders
<1>1. Init => IInv
  BY InitInv
<1>2. IInv /\ [Next]_vars => IInv'
  BY Step
<1>3. IInv => OneWriterOrManyReaders
  BY AloneOfInv
<1> QED BY <1>1, <1>2, <1>3, PTL DEF Spec

-----------------------------------------------------------------------------
(* value counts the increments.                                            *)

\* The increments that have been stored: between its store and the end of the
\* iteration a writer is one ahead of its loop counter.
Done(w) == IF pc[w] = "write_post" THEN i[w] + 1 ELSE i[w]
Stored == {c \in Writers \X (1 .. loops) : c[2] <= Done(c[1])}

\* A writer in its loop has iterations left.
InLoop == \A w \in Writers : pc[w] # "done" => i[w] < loops
\* What a writer has read of value is value until it stores.
FreshRead == \A w \in Writers : pc[w] = "write_store" => reg[w] = value

CountInv ==
  /\ IInv
  /\ i \in [Thread -> Nat] /\ reg \in [Writers -> Nat]
  /\ InLoop
  /\ FreshRead
  /\ value = Cardinality(Stored)

LEMMA StoredFinite == IsFiniteSet(Stored) /\ Cardinality(Stored) \in Nat
<1>1. IsFiniteSet(1 .. loops)
  BY RwAssumption, FS_Interval
<1>2. IsFiniteSet(Writers \X (1 .. loops))
  BY <1>1, RwAssumption, FS_Product
<1>3. Stored \in SUBSET (Writers \X (1 .. loops))
  BY DEF Stored
<1> QED BY <1>2, <1>3, FS_Subset, FS_CardinalityType

LEMMA InitCount == Init => CountInv
<1> SUFFICES ASSUME Init PROVE CountInv
  OBVIOUS
<1>1. Readers \in SUBSET Thread /\ Writers \in SUBSET Thread
  BY DEF Thread
<1>2. \A w \in Writers : i[w] = 0 /\ pc[w] \in {"write_wait", "done"} /\ (pc[w] # "done" => 0 < loops)
  BY <1>1, RwAssumption DEF Init, Start
<1>3. Stored = {}
  BY <1>2 DEF Stored, Done
<1> QED BY <1>2, <1>3, InitInv, FS_EmptySet, RwAssumption DEF Init, CountInv, InLoop, FreshRead

\* A reader leaves the writers' counters and value alone.
LEMMA ReaderCount ==
  ASSUME CountInv, NEW r \in Readers, reader(r)
  PROVE  CountInv'
<1>0. r \in Thread /\ r \notin Writers /\ Writers \in SUBSET Thread /\ IInv'
  BY RwAssumption, ReaderInv DEF Thread, CountInv
<1>1. pc' = [pc EXCEPT ![r] = pc'[r]] /\ pc \in [Thread -> Label]
  BY <1>0 DEF reader, AcquireLock, Enter, WaitWritelock, AcquiredPost, ReleaseLock, Leave, ReleasedPost,
         Goto, CountInv, IInv, TypeOK
<1>2. value' = value /\ reg' = reg /\ (i' = i \/ i' = [i EXCEPT ![r] = i[r] + 1])
  BY DEF reader, AcquireLock, Enter, WaitWritelock, AcquiredPost, ReleaseLock, Leave, ReleasedPost
<1>3. i' \in [Thread -> Nat] /\ \A w \in Writers : pc'[w] = pc[w] /\ i'[w] = i[w]
  BY <1>0, <1>1, <1>2 DEF CountInv
<1>4. Stored' = Stored
  BY <1>3 DEF Stored, Done
<1> QED BY <1>0, <1>2, <1>3, <1>4 DEF CountInv, InLoop, FreshRead

\* Only the store changes value, and the writer that stores has read value in
\* the same critical section.
LEMMA WriterCount ==
  ASSUME CountInv, NEW w \in Writers, writer(w)
  PROVE  CountInv'
<1>0. w \in Thread /\ w \notin Readers /\ Writers \in SUBSET Thread /\ IInv' /\ loops \in Nat
  BY RwAssumption, WriterInv DEF Thread, CountInv
<1>1. pc' = [pc EXCEPT ![w] = pc'[w]] /\ pc \in [Thread -> Label] /\ i \in [Thread -> Nat]
  BY <1>0 DEF writer, AcquireWrite, ReadValue, StoreValue, ReleaseWrite, Goto, CountInv, IInv, TypeOK
<1>2. \A v \in Writers \ {w} : pc'[v] = pc[v]
  BY <1>0, <1>1
<1>3. CASE AcquireWrite(w) \/ ReadValue(w)
  <2>1. /\ pc[w] \in {"write_wait", "write_read"} /\ pc'[w] \in {"write_read", "write_store"}
        /\ value' = value /\ i' = i
    BY <1>0, <1>1, <1>3 DEF AcquireWrite, ReadValue, Goto
  <2>2. Stored' = Stored
    BY <2>1, <1>2 DEF Stored, Done
  <2>3. value \in Nat
    BY StoredFinite DEF CountInv
  <2>4. reg' \in [Writers -> Nat] /\ FreshRead'
    BY <1>0, <1>1, <1>2, <1>3, <2>1, <2>3 DEF AcquireWrite, ReadValue, Goto, CountInv, FreshRead
  <2> QED BY <1>0, <1>2, <2>1, <2>2, <2>4 DEF CountInv, InLoop
<1>4. CASE StoreValue(w)
  <2>1. /\ pc[w] = "write_store" /\ pc'[w] = "write_post"
        /\ value' = reg[w] + 1 /\ i' = i /\ reg' = reg
    BY <1>0, <1>1, <1>4 DEF StoreValue, Goto
  <2>2. value' = value + 1 /\ value \in Nat /\ i[w] < loops /\ i[w] \in Nat
    BY <2>1, <1>0, StoredFinite DEF CountInv, FreshRead, InLoop
  <2>3. \A v \in Writers \ {w} : pc'[v] # "write_store"
    BY <2>1, <1>2 DEF CountInv, IInv, WriteHeld, Writing
  <2>4. Stored' = Stored \cup {<<w, i[w] + 1>>} /\ <<w, i[w] + 1>> \notin Stored
    <3>1. Done(w) = i[w] /\ Done(w)' = i[w] + 1 /\ \A v \in Writers \ {w} : Done(v)' = Done(v)
      BY <1>2, <2>1 DEF Done
    <3>2. i[w] + 1 \in 1 .. loops
      BY <1>0, <2>2
    <3>3. \A c \in Writers \X (1 .. loops) : c[2] <= Done(c[1])' <=> c[2] <= Done(c[1]) \/ c = <<w, i[w] + 1>>
      BY <3>1, <2>2, <1>0
    <3> QED BY <3>1, <3>2, <3>3, <2>2 DEF Stored
  <2>5. value' = Cardinality(Stored')
    BY <2>2, <2>4, StoredFinite, FS_AddElement DEF CountInv
  <2> QED BY <1>0, <1>2, <2>1, <2>2, <2>3, <2>5 DEF CountInv, InLoop, FreshRead
<1>5. CASE ReleaseWrite(w)
  <2>1. /\ pc[w] = "write_post" /\ pc'[w] = (IF i[w] + 1 < loops THEN "write_wait" ELSE "done")
        /\ value' = value /\ reg' = reg /\ i' = [i EXCEPT ![w] = i[w] + 1]
    BY <1>0, <1>1, <1>5 DEF ReleaseWrite, Goto, Again, Start
  <2>2. i' \in [Thread -> Nat] /\ i'[w] = i[w] + 1 /\ \A v \in Writers \ {w} : i'[v] = i[v]
    BY <2>1, <1>0, <1>1
  <2>3. Stored' = Stored
    BY <2>1, <2>2, <1>2 DEF Stored, Done
  <2> QED BY <1>0, <1>2, <2>1, <2>2, <2>3 DEF CountInv, InLoop, FreshRead
<1> QED BY <1>3, <1>4, <1>5 DEF writer

LEMMA CountStep == ASSUME CountInv, [Next]_vars PROVE CountInv'
<1>1. CASE UNCHANGED vars
  <2>1. IInv'
    BY <1>1, Step DEF CountInv
  <2> QED BY <1>1, <2>1 DEF vars, CountInv, InLoop, FreshRead, Stored, Done
<1>2. CASE Next
  BY <1>2, ReaderCount, WriterCount DEF Next
<1> QED BY <1>1, <1>2

LEMMA CountedOfInv == CountInv => WritesCounted
<1> SUFFICES ASSUME CountInv, \A w \in Writers : ~Writing(w)
             PROVE  value = Cardinality({c \in Writers \X (1 .. loops) : c[2] <= i[c[1]]})
  BY DEF WritesCounted
<1>1. \A w \in Writers : Done(w) = i[w]
  BY DEF Writing, Done
<1>2. Stored = {c \in Writers \X (1 .. loops) : c[2] <= i[c[1]]}
  BY <1>1 DEF Stored
<1> QED BY <1>2 DEF CountInv

\* No increment of value gets lost, although value++ is a load and a store:
\* whenever no writer is in its critical section, value is the number of
\* iterations that the writers have completed.
THEOREM NoWriteLost == Spec => []WritesCounted
<1>1. Init => CountInv
  BY InitCount
<1>2. CountInv /\ [Next]_vars => CountInv'
  BY CountStep
<1>3. CountInv => WritesCounted
  BY CountedOfInv
<1> QED BY <1>1, <1>2, <1>3, PTL DEF Spec
=============================================================================
