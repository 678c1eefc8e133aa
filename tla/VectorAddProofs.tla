--------------------------- MODULE VectorAddProofs ---------------------------
(***************************************************************************)
(* The programs of concurrency/threads-bugs for every number of threads,   *)
(* calls and elements: types, mutual exclusion of the vectors' locks,      *)
(* freedom from deadlock of all of them but the invitation to deadlock,    *)
(* whole vectors wherever a lock is free, AtomicVectorAdd as their         *)
(* abstraction, no addition lost where no source is a destination, and     *)
(* work that every step but a back-off brings down.                        *)
(***************************************************************************)
EXTENDS VectorAdd, FiniteSetTheorems, RecursionTheorems, TLAPS

\* The vectors whose locks a thread at its label holds.
Holds(t) ==
  CASE pc[t] \in {"second", "back_off"} -> {FirstLock(t)}
    [] pc[t] \in {"unlock_global", "read", "write", "unlock_first"} ->
         {FirstLock(t), SecondLock(t)}
    [] pc[t] = "unlock_second" -> {SecondUnlock(t)}
    [] OTHER -> {}

\* The labels a program has.
Labels ==
  \A t \in Thread :
    /\ pc[t] \in {"load", "add"} => opt.program = "nolock"
    /\ pc[t] \notin {"load", "add", "done"} => opt.program # "nolock"
    /\ pc[t] \in {"global", "unlock_global"} => opt.program = "avoid-hold-and-wait"
    /\ pc[t] = "back_off" => opt.program = "try-wait"

CallsLeft == \A t \in Thread : pc[t] # "done" => i[t] < loops

\* A lock says who holds it, and that is one thread.
LockHeld == \A v \in Vector, t \in Thread : t \in lock[v] <=> v \in Holds(t)
Exclusive == \A v \in Vector : \A t, u \in lock[v] : t = u

\* Likewise for the lock of vector-avoid-hold-and-wait.c.
GlobalHeld ==
  opt.program = "avoid-hold-and-wait" =>
    /\ \A t \in Thread : t \in global <=> pc[t] \in {"first", "second", "unlock_global"}
    /\ \A t, u \in global : t = u

IInv == TypeOK /\ Labels /\ CallsLeft /\ LockHeld /\ Exclusive /\ GlobalHeld

-----------------------------------------------------------------------------
(* The vectors of a thread.                                                *)

LEMMA TwoVectors ==
  ASSUME TypeOK, NEW t \in Thread
  PROVE  /\ FirstLock(t) \in Vector /\ SecondLock(t) \in Vector
         /\ v_dst(t) \in Vector /\ v_src(t) \in Vector
         /\ FirstLock(t) # SecondLock(t) /\ v_dst(t) # v_src(t)
         /\ {FirstLock(t), SecondLock(t)} = {v_dst(t), v_src(t)}
<1>1. num_threads \in Nat /\ t \in 0 .. num_threads - 1
  BY VectorArgsAssumption DEF Thread
<1>2. vector_0(t) \in Vector /\ vector_1(t) \in Vector /\ vector_0(t) # vector_1(t)
  BY <1>1 DEF vector_0, vector_1, Vector
<1>3. \/ v_dst(t) = vector_0(t) /\ v_src(t) = vector_1(t)
      \/ v_dst(t) = vector_1(t) /\ v_src(t) = vector_0(t)
  BY DEF v_dst, v_src
<1>4. v_dst(t) \in Vector /\ v_src(t) \in Vector /\ v_dst(t) # v_src(t)
  BY <1>2, <1>3
<1>5. \/ FirstLock(t) = v_dst(t) /\ SecondLock(t) = v_src(t)
      \/ FirstLock(t) = v_src(t) /\ SecondLock(t) = v_dst(t)
  BY <1>4 DEF FirstLock, SecondLock
<1> QED BY <1>4, <1>5

\* The order of the unlocks is one of the two.
LEMMA TwoUnlocks ==
  ASSUME TypeOK, NEW t \in Thread
  PROVE  /\ FirstUnlock(t) # SecondUnlock(t)
         /\ {FirstUnlock(t), SecondUnlock(t)} = {FirstLock(t), SecondLock(t)}
<1>1. {FirstUnlock(t), SecondUnlock(t)} = {v_dst(t), v_src(t)}
  BY DEF FirstUnlock, SecondUnlock
<1>2. FirstUnlock(t) # SecondUnlock(t)
  BY TwoVectors DEF FirstUnlock, SecondUnlock
<1> QED BY <1>1, <1>2, TwoVectors

\* What a thread is given does not change.
LEMMA SameVectors ==
  ASSUME opt' = opt, NEW t
  PROVE  /\ FirstLock(t)' = FirstLock(t) /\ SecondLock(t)' = SecondLock(t)
         /\ SecondUnlock(t)' = SecondUnlock(t)
         /\ v_dst(t)' = v_dst(t) /\ v_src(t)' = v_src(t)
  BY DEF FirstLock, SecondLock, SecondUnlock, v_dst, v_src, vector_0, vector_1, reversed

LEMMA SameHolds ==
  ASSUME opt' = opt, NEW t, pc'[t] = pc[t]
  PROVE  Holds(t)' = Holds(t)
  BY SameVectors DEF Holds

-----------------------------------------------------------------------------
(* Taking, giving back and keeping a lock.                                 *)

LockInv == LockHeld /\ Exclusive

LEMMA Take ==
  ASSUME TypeOK, LockInv, NEW t \in Thread, NEW v \in Vector, Acquire(t, v),
         Holds(t)' = Holds(t) \cup {v},
         \A u \in Thread \ {t} : Holds(u)' = Holds(u)
  PROVE  LockInv'
<1>1. \A w \in Vector : lock'[w] = IF w = v THEN {t} ELSE lock[w]
  BY DEF Acquire, TypeOK
<1>2. lock[v] = {}
  BY DEF Acquire
<1>3. LockHeld'
  BY <1>1, <1>2 DEF LockInv, LockHeld
<1>4. Exclusive'
  BY <1>1 DEF LockInv, Exclusive
<1> QED BY <1>3, <1>4 DEF LockInv

LEMMA Give ==
  ASSUME TypeOK, LockInv, NEW t \in Thread, NEW v \in Vector, Release(v), v \in Holds(t),
         Holds(t)' = Holds(t) \ {v},
         \A u \in Thread \ {t} : Holds(u)' = Holds(u)
  PROVE  LockInv'
<1>1. \A w \in Vector : lock'[w] = IF w = v THEN {} ELSE lock[w]
  BY DEF Release, TypeOK
<1>2. \A u \in Thread \ {t} : v \notin Holds(u)
  BY DEF LockInv, LockHeld, Exclusive
<1>3. LockHeld'
  BY <1>1, <1>2 DEF LockInv, LockHeld
<1>4. Exclusive'
  BY <1>1 DEF LockInv, Exclusive
<1> QED BY <1>3, <1>4 DEF LockInv

LEMMA Keep ==
  ASSUME LockInv, lock' = lock, \A u \in Thread : Holds(u)' = Holds(u)
  PROVE  LockInv'
  BY DEF LockInv, LockHeld, Exclusive

-----------------------------------------------------------------------------
(* The invariant is inductive.                                             *)

LEMMA InitInv == Init => IInv
<1> SUFFICES ASSUME Init PROVE IInv
  OBVIOUS
<1>1. /\ opt.program \in Programs
      /\ opt \in [program : Programs, cause_deadlock : BOOLEAN, enable_parallelism : BOOLEAN]
  BY DEF Init, OptInit
<1>2. Entry \in {"global", "load", "first"} /\ (Entry = "load" <=> opt.program = "nolock")
      /\ (Entry = "global" <=> opt.program = "avoid-hold-and-wait")
  BY <1>1, VectorArgsAssumption DEF Entry
<1>3. TypeOK
  BY <1>1, <1>2, VectorArgsAssumption, SizeAssumption DEF Init, TypeOK, Label, Vector, Index
<1>4. Labels /\ CallsLeft
  BY <1>2, VectorArgsAssumption DEF Init, Labels, CallsLeft
<1>5. \A t \in Thread : Holds(t) = {}
  BY <1>2 DEF Init, Holds
<1>6. LockHeld /\ Exclusive /\ GlobalHeld
  BY <1>2, <1>5 DEF Init, LockHeld, Exclusive, GlobalHeld
<1> QED BY <1>3, <1>4, <1>6 DEF IInv

\* Where a worker goes after a call.
LEMMA AfterCallLabel ==
  ASSUME TypeOK, NEW t \in Thread
  PROVE  /\ AfterCall(t) \in {"global", "load", "first", "done"}
         /\ AfterCall(t) # "done" => i[t] + 1 < loops
         /\ AfterCall(t) = "load" => opt.program = "nolock"
         /\ opt.program = "nolock" => AfterCall(t) \in {"load", "done"}
         /\ opt.program = "avoid-hold-and-wait" => AfterCall(t) \in {"global", "done"}
         /\ AfterCall(t) = "global" => opt.program = "avoid-hold-and-wait"
  BY DEF AfterCall, Entry

\* Steps that end no call: types and labels.
LEMMA StepTypes ==
  ASSUME IInv, NEW t \in Thread, worker(t)
  PROVE  TypeOK' /\ Labels' /\ CallsLeft'
<1> USE DEF IInv
<1> DEFINE Typed ==
      /\ lock' \in [Vector -> SUBSET Thread] /\ global' \in SUBSET Thread
      /\ values' \in [Vector -> [Index -> Int]]
      /\ i' \in [Thread -> 0 .. loops] /\ k' \in [Thread -> Index] /\ reg' \in [Thread -> Int]
    Moved(l) == /\ opt' = opt /\ pc' = [pc EXCEPT ![t] = l] /\ l \in Label
                /\ l \in {"load", "add"} => opt.program = "nolock"
                /\ l \notin {"load", "add", "done"} => opt.program # "nolock"
                /\ l \in {"global", "unlock_global"} => opt.program = "avoid-hold-and-wait"
                /\ l = "back_off" => opt.program = "try-wait"
                /\ i' = i \/ i' = [i EXCEPT ![t] = @ + 1]
                /\ l # "done" => i'[t] < loops
<1>1. ASSUME Typed, NEW l, Moved(l) PROVE TypeOK' /\ Labels' /\ CallsLeft'
  <2>1. TypeOK'
    BY <1>1 DEF TypeOK
  <2>2. Labels'
    BY <1>1 DEF TypeOK, Labels
  <2>3. CallsLeft'
    BY <1>1 DEF TypeOK, CallsLeft
  <2> QED BY <2>1, <2>2, <2>3
<1>2. v_dst(t) \in Vector /\ v_src(t) \in Vector /\ FirstLock(t) \in Vector /\ SecondLock(t) \in Vector
  BY TwoVectors
<1>3. CASE LockGlobal(t)
  <2>1. Typed /\ Moved("first")
    BY <1>3 DEF LockGlobal, Goto, TypeOK, Labels, CallsLeft, Label
  <2> QED BY <2>1, <1>1
<1>4. CASE LockFirst(t)
  <2>1. Typed /\ Moved("second")
    BY <1>3, <1>4 DEF LockFirst, Acquire, Goto, TypeOK, Labels, CallsLeft, Label
  <2> QED BY <2>1, <1>1
<1>5. CASE LockSecond(t)
  <2>1. Typed
    BY <1>5 DEF LockSecond, Acquire, Goto, TypeOK
  <2>2. Moved(IF opt.program = "avoid-hold-and-wait" THEN "unlock_global" ELSE "read")
    BY <1>5 DEF LockSecond, Goto, TypeOK, Labels, CallsLeft, Label
  <2> QED BY <2>1, <2>2, <1>1
<1>6. CASE UnlockGlobal(t)
  <2>1. Typed /\ Moved("read")
    BY <1>6 DEF UnlockGlobal, Goto, TypeOK, Labels, CallsLeft, Label
  <2> QED BY <2>1, <1>1
<1>7. CASE TryFails(t)
  <2>1. Typed /\ Moved("back_off")
    BY <1>7 DEF TryFails, Goto, TypeOK, Labels, CallsLeft, Label
  <2> QED BY <2>1, <1>1
<1>8. CASE BackOff(t)
  <2>1. Typed /\ Moved("first")
    BY <1>8 DEF BackOff, Release, Goto, TypeOK, Labels, CallsLeft, Label
  <2> QED BY <2>1, <1>1
<1>9. CASE Read(t)
  <2>1. k[t] \in Index /\ values[v_dst(t)][k[t]] \in Int /\ values[v_src(t)][k[t]] \in Int
    BY <1>2 DEF TypeOK
  <2>2. Typed /\ Moved("write")
    BY <1>9, <2>1 DEF Read, Goto, TypeOK, Labels, CallsLeft, Label
  <2> QED BY <2>2, <1>1
<1>10. CASE Write(t)
  <2>1. k' \in [Thread -> Index]
    BY <1>10, SizeAssumption DEF Write, Advance, TypeOK, Index
  <2>2. values' \in [Vector -> [Index -> Int]]
    BY <1>10 DEF Write, TypeOK
  <2>3. Typed
    BY <1>10, <2>1, <2>2 DEF Write, Advance, TypeOK
  <2>4. Moved(IF k[t] + 1 < VECTOR_SIZE THEN "read" ELSE "unlock_first")
    BY <1>10 DEF Write, Advance, Goto, TypeOK, Labels, CallsLeft, Label
  <2> QED BY <2>3, <2>4, <1>1
<1>11. CASE Load(t)
  <2>1. k[t] \in Index /\ values[v_src(t)][k[t]] \in Int
    BY <1>2 DEF TypeOK
  <2>2. Typed /\ Moved("add")
    BY <1>11, <2>1 DEF Load, Goto, TypeOK, Labels, CallsLeft, Label
  <2> QED BY <2>2, <1>1
<1>12. CASE fetch_and_add(t)
  <2>1. k' \in [Thread -> Index]
    BY <1>12, SizeAssumption DEF fetch_and_add, Advance, TypeOK, Index
  <2>2. k[t] \in Index /\ values[v_dst(t)][k[t]] \in Int /\ reg[t] \in Int
    BY <1>2 DEF TypeOK
  <2>3. values' \in [Vector -> [Index -> Int]]
    BY <1>12, <2>2, <1>2 DEF fetch_and_add, TypeOK
  <2>4. i[t] < loops /\ i[t] \in Nat
    BY <1>12, VectorArgsAssumption DEF fetch_and_add, Advance, Goto, CallsLeft, TypeOK
  <2>5. i' \in [Thread -> 0 .. loops]
    BY <1>12, <2>4, VectorArgsAssumption DEF fetch_and_add, TypeOK
  <2>6. Typed
    BY <1>12, <2>1, <2>3, <2>5 DEF fetch_and_add, TypeOK
  <2>7. opt.program = "nolock"
    BY <1>12 DEF fetch_and_add, Advance, Goto, Labels
  <2>8. CASE k[t] + 1 < VECTOR_SIZE
    <3>1. Moved("load")
      BY <1>12, <2>4, <2>7, <2>8 DEF fetch_and_add, Advance, Goto, TypeOK, Label
    <3> QED BY <2>6, <3>1, <1>1
  <2>9. CASE ~(k[t] + 1 < VECTOR_SIZE)
    <3>1. i' = [i EXCEPT ![t] = @ + 1] /\ i'[t] = i[t] + 1
      BY <1>12, <2>9 DEF fetch_and_add, TypeOK
    <3>2. Moved(AfterCall(t))
      BY <1>12, <2>4, <2>7, <2>9, <3>1, AfterCallLabel DEF fetch_and_add, Advance, Goto, Label
    <3> QED BY <2>6, <3>2, <1>1
  <2> QED BY <2>8, <2>9
<1>13. CASE UnlockFirst(t)
  <2>1. Typed /\ Moved("unlock_second")
    BY <1>13 DEF UnlockFirst, Release, Goto, TypeOK, Labels, CallsLeft, Label
  <2> QED BY <2>1, <1>1
<1>14. CASE UnlockSecond(t)
  <2>1. i[t] < loops /\ i[t] \in Nat /\ opt.program # "nolock"
    BY <1>14, VectorArgsAssumption DEF UnlockSecond, Goto, CallsLeft, Labels, TypeOK
  <2>2. i' = [i EXCEPT ![t] = @ + 1] /\ i'[t] = i[t] + 1
    BY <1>14 DEF UnlockSecond, TypeOK
  <2>3. i' \in [Thread -> 0 .. loops]
    BY <2>1, <2>2, VectorArgsAssumption DEF TypeOK
  <2>4. Typed
    BY <1>14, <2>3 DEF UnlockSecond, Release, TypeOK
  <2>5. Moved(AfterCall(t))
    BY <1>14, <2>1, <2>2, AfterCallLabel DEF UnlockSecond, Goto, Label
  <2> QED BY <2>4, <2>5, <1>1
<1> QED BY <1>3, <1>4, <1>5, <1>6, <1>7, <1>8, <1>9, <1>10, <1>11, <1>12, <1>13, <1>14 DEF worker

\* The other threads hold what they held, and who holds the global lock shows
\* in the labels.
LEMMA StepLocks ==
  ASSUME IInv, NEW t \in Thread, worker(t)
  PROVE  LockInv'
<1> USE DEF IInv
<1>1. LockInv /\ opt' = opt /\ pc[t] \in Label
  BY DEF LockInv, worker, LockGlobal, LockFirst, LockSecond, UnlockGlobal, TryFails,
         BackOff, Read, Write, Load, fetch_and_add, UnlockFirst, UnlockSecond, TypeOK
<1>2. \E l : pc' = [pc EXCEPT ![t] = l]
  BY DEF worker, LockGlobal, LockFirst, LockSecond, UnlockGlobal, TryFails, BackOff, Read,
         Write, Load, fetch_and_add, UnlockFirst, UnlockSecond, Goto, Advance
<1>3. \A u \in Thread \ {t} : Holds(u)' = Holds(u)
  <2> SUFFICES ASSUME NEW u \in Thread \ {t} PROVE Holds(u)' = Holds(u)
    OBVIOUS
  <2>1. pc'[u] = pc[u]
    BY <1>2 DEF TypeOK
  <2> QED BY <1>1, <2>1, SameHolds
<1>4. /\ FirstLock(t)' = FirstLock(t) /\ SecondLock(t)' = SecondLock(t)
      /\ SecondUnlock(t)' = SecondUnlock(t)
  BY <1>1, SameVectors
<1>5. \A l : pc' = [pc EXCEPT ![t] = l] => pc'[t] = l
  BY DEF TypeOK
<1>6. ASSUME lock' = lock, Holds(t)' = Holds(t) PROVE LockInv'
  BY <1>1, <1>3, <1>6, Keep
<1>7. CASE LockGlobal(t) \/ UnlockGlobal(t) \/ TryFails(t) \/ Read(t) \/ Load(t)
  <2>1. Holds(t)' = Holds(t)
    BY <1>4, <1>5, <1>7 DEF Holds, LockGlobal, UnlockGlobal, TryFails, Read, Load, Goto
  <2> QED BY <1>6, <1>7, <2>1 DEF LockGlobal, UnlockGlobal, TryFails, Read, Load
<1>8. CASE Write(t)
  <2>1. pc[t] = "write" /\ pc'[t] \in {"read", "unlock_first"}
    BY <1>5, <1>8 DEF Write, Advance, Goto
  <2>2. Holds(t)' = Holds(t)
    BY <1>4, <2>1 DEF Holds
  <2> QED BY <1>6, <1>8, <2>2 DEF Write
<1>9. CASE fetch_and_add(t)
  <2>1. pc[t] = "add" /\ opt.program = "nolock"
    BY <1>9 DEF fetch_and_add, Advance, Goto, Labels
  <2>2. pc'[t] \in {"load", "done"}
    BY <1>5, <1>9, <2>1, AfterCallLabel DEF fetch_and_add, Advance, Goto
  <2>3. Holds(t)' = Holds(t)
    BY <2>1, <2>2 DEF Holds
  <2> QED BY <1>6, <1>9, <2>3 DEF fetch_and_add
<1>10. CASE LockFirst(t)
  <2>1. Holds(t)' = Holds(t) \cup {FirstLock(t)}
    BY <1>4, <1>5, <1>10 DEF Holds, LockFirst, Goto
  <2> QED BY <1>1, <1>3, <1>10, <2>1, Take, TwoVectors DEF LockFirst
<1>11. CASE LockSecond(t)
  <2>1. pc[t] = "second" /\ pc'[t] \in {"unlock_global", "read"}
    BY <1>5, <1>11 DEF LockSecond, Goto
  <2>2. Holds(t)' = Holds(t) \cup {SecondLock(t)}
    BY <1>4, <2>1 DEF Holds
  <2> QED BY <1>1, <1>3, <1>11, <2>2, Take, TwoVectors DEF LockSecond
<1>12. CASE BackOff(t)
  <2>1. Holds(t)' = Holds(t) \ {FirstLock(t)} /\ FirstLock(t) \in Holds(t)
    BY <1>4, <1>5, <1>12 DEF Holds, BackOff, Goto
  <2> QED BY <1>1, <1>3, <1>12, <2>1, Give, TwoVectors DEF BackOff
<1>13. CASE UnlockFirst(t)
  <2>1. pc[t] = "unlock_first" /\ pc'[t] = "unlock_second"
    BY <1>5, <1>13 DEF UnlockFirst, Goto
  <2>2. Holds(t) = {FirstUnlock(t), SecondUnlock(t)} /\ Holds(t)' = {SecondUnlock(t)}
    BY <1>4, <2>1, TwoUnlocks DEF Holds
  <2>3. FirstUnlock(t) \in Vector
    BY TwoUnlocks, TwoVectors
  <2> QED BY <1>1, <1>3, <1>13, <2>2, <2>3, Give, TwoUnlocks DEF UnlockFirst
<1>14. CASE UnlockSecond(t)
  <2>1. pc[t] = "unlock_second" /\ pc'[t] \in {"global", "load", "first", "done"}
    BY <1>5, <1>14, AfterCallLabel DEF UnlockSecond, Goto
  <2>2. Holds(t) = {SecondUnlock(t)} /\ Holds(t)' = {}
    BY <2>1 DEF Holds
  <2>3. SecondUnlock(t) \in Vector
    BY TwoUnlocks, TwoVectors
  <2> QED BY <1>1, <1>3, <1>14, <2>2, <2>3, Give DEF UnlockSecond
<1> QED BY <1>7, <1>8, <1>9, <1>10, <1>11, <1>12, <1>13, <1>14 DEF worker

LEMMA StepGlobal ==
  ASSUME IInv, NEW t \in Thread, worker(t)
  PROVE  GlobalHeld'
<1> USE DEF IInv
<1>1. opt' = opt
  BY DEF worker, LockGlobal, LockFirst, LockSecond, UnlockGlobal, TryFails, BackOff, Read,
         Write, Load, fetch_and_add, UnlockFirst, UnlockSecond
<1> SUFFICES ASSUME opt.program = "avoid-hold-and-wait" PROVE GlobalHeld'
  BY <1>1 DEF GlobalHeld
<1>2. /\ \A u \in Thread : u \in global <=> pc[u] \in {"first", "second", "unlock_global"}
      /\ \A u, w \in global : u = w
      /\ pc \in [Thread -> Label]
  BY DEF GlobalHeld, TypeOK
<1>3. CASE LockGlobal(t)
  BY <1>1, <1>2, <1>3 DEF GlobalHeld, LockGlobal, Goto
<1>4. CASE UnlockGlobal(t)
  BY <1>1, <1>2, <1>4 DEF GlobalHeld, UnlockGlobal, Goto
<1>5. CASE LockFirst(t) \/ LockSecond(t)
  BY <1>1, <1>2, <1>5 DEF GlobalHeld, LockFirst, LockSecond, Goto
<1>6. CASE Read(t) \/ Write(t) \/ UnlockFirst(t)
  BY <1>1, <1>2, <1>6 DEF GlobalHeld, Read, Write, UnlockFirst, Advance, Goto
<1>7. CASE UnlockSecond(t)
  <2>1. AfterCall(t) \in {"global", "done"}
    BY AfterCallLabel
  <2> QED BY <1>1, <1>2, <1>7, <2>1 DEF GlobalHeld, UnlockSecond, Goto
<1>8. CASE TryFails(t) \/ BackOff(t) \/ Load(t) \/ fetch_and_add(t)
  BY <1>8 DEF TryFails, BackOff, Load, fetch_and_add, Advance, Goto, Labels
<1> QED BY <1>3, <1>4, <1>5, <1>6, <1>7, <1>8 DEF worker

LEMMA StepInv == IInv /\ [Next]_vars => IInv'
<1> SUFFICES ASSUME IInv, [Next]_vars PROVE IInv'
  OBVIOUS
<1>1. CASE Next
  <2>1. PICK t \in Thread : worker(t)
    BY <1>1 DEF Next
  <2> QED BY <2>1, StepTypes, StepLocks, StepGlobal DEF IInv, LockInv
<1>2. CASE UNCHANGED vars
  <2>1. \A t : Holds(t)' = Holds(t)
    BY <1>2, SameHolds DEF vars
  <2> QED BY <1>2, <2>1 DEF vars, IInv, TypeOK, Labels, CallsLeft, LockHeld, Exclusive, GlobalHeld
<1> QED BY <1>1, <1>2

\* The invariant holds in every state of every program.
THEOREM Invariance == Spec => []IInv
<1> QED BY InitInv, StepInv, PTL DEF Spec

\* Every variable keeps its type.
THEOREM TypeCorrect == Spec => []TypeOK
<1>1. IInv => TypeOK
  BY DEF IInv
<1> QED BY <1>1, Invariance, PTL

-----------------------------------------------------------------------------
(* Freedom from deadlock.                                                  *)

\* No thread's first lock is another's second one, unless the program invites
\* deadlock or takes both under the global lock.
LEMMA NoCycle ==
  ASSUME TypeOK, ~InvitesDeadlock, opt.program \in {"deadlock", "global-order"},
         NEW t \in Thread, NEW u \in Thread
  PROVE  FirstLock(u) # SecondLock(t)
<1>1. num_threads \in Nat /\ t \in 0 .. num_threads - 1 /\ u \in 0 .. num_threads - 1
  BY VectorArgsAssumption DEF Thread
<1>2. CASE opt.enable_parallelism
  <2>1. ASSUME t # u PROVE FirstLock(u) # SecondLock(t)
    <3>1. v_dst(t) \in {2 * t, 2 * t + 1} /\ v_src(t) \in {2 * t, 2 * t + 1}
      BY <1>2 DEF v_dst, v_src, vector_0, vector_1
    <3>2. v_dst(u) \in {2 * u, 2 * u + 1} /\ v_src(u) \in {2 * u, 2 * u + 1}
      BY <1>2 DEF v_dst, v_src, vector_0, vector_1
    <3>3. SecondLock(t) \in {2 * t, 2 * t + 1} /\ FirstLock(u) \in {2 * u, 2 * u + 1}
      BY <3>1, <3>2, TwoVectors
    <3> QED BY <1>1, <2>1, <3>3
  <2> QED BY <2>1, TwoVectors
<1>3. CASE ~opt.enable_parallelism
  <2>1. vector_0(t) = 0 /\ vector_1(t) = 1 /\ vector_0(u) = 0 /\ vector_1(u) = 1
    BY <1>3 DEF vector_0, vector_1
  <2>2. CASE opt.program = "global-order"
    BY <2>1, <2>2 DEF FirstLock, SecondLock, v_dst, v_src
  <2>3. CASE opt.program = "deadlock"
    <3>1. ~opt.cause_deadlock
      BY <1>3, <2>3 DEF InvitesDeadlock
    <3> QED BY <2>1, <2>3, <3>1 DEF FirstLock, SecondLock, v_dst, v_src, reversed
  <2> QED BY <2>2, <2>3
<1> QED BY <1>2, <1>3

\* If everybody waits, a thread that has its first lock waits for the first
\* lock of another such thread, which NoCycle and the global lock exclude; so
\* nobody has a lock, and nobody waits.
LEMMA InvDeadlockFree == IInv => DeadlockFree
<1> SUFFICES ASSUME IInv, ~InvitesDeadlock, \A t \in Thread : Blocked(t)
             PROVE  AllDone
  BY DEF DeadlockFree
<1> USE DEF IInv
<1>1. \A t \in Thread : pc[t] \in {"done", "global", "first", "second"}
  BY DEF Blocked
<1>2. \A t \in Thread : Holds(t) = IF pc[t] = "second" THEN {FirstLock(t)} ELSE {}
  BY <1>1 DEF Holds
<1>3. \A t \in Thread : pc[t] # "second"
  <2> SUFFICES ASSUME NEW t \in Thread, pc[t] = "second" PROVE FALSE
    OBVIOUS
  <2>1. lock[SecondLock(t)] # {} /\ opt.program # "try-wait" /\ opt.program # "nolock"
    BY DEF Blocked, Labels
  <2>2. SecondLock(t) \in Vector /\ FirstLock(t) # SecondLock(t)
    BY TwoVectors
  <2>3. PICK u \in Thread : u \in lock[SecondLock(t)]
    BY <2>1, <2>2 DEF TypeOK
  <2>4. SecondLock(t) \in Holds(u)
    BY <2>2, <2>3 DEF LockHeld
  <2>5. pc[u] = "second" /\ SecondLock(t) = FirstLock(u)
    BY <1>2, <2>4
  <2>6. CASE opt.program = "avoid-hold-and-wait"
    <3>1. t \in global /\ u \in global
      BY <2>5, <2>6 DEF GlobalHeld
    <3>2. t = u
      BY <2>6, <3>1 DEF GlobalHeld
    <3> QED BY <2>2, <2>5, <3>2
  <2>7. CASE opt.program # "avoid-hold-and-wait"
    <3>1. opt.program \in {"deadlock", "global-order"}
      BY <2>1, <2>7, VectorArgsAssumption DEF TypeOK
    <3> QED BY <2>5, <3>1, NoCycle
  <2> QED BY <2>6, <2>7
<1>4. \A v \in Vector : lock[v] = {}
  BY <1>2, <1>3 DEF LockHeld, TypeOK
<1>5. \A t \in Thread : pc[t] # "first"
  BY <1>4, TwoVectors DEF Blocked
<1>6. \A t \in Thread : pc[t] # "global"
  <2> SUFFICES ASSUME NEW t \in Thread, pc[t] = "global" PROVE FALSE
    OBVIOUS
  <2>1. opt.program = "avoid-hold-and-wait" /\ global # {}
    BY DEF Labels, Blocked
  <2>2. PICK u \in Thread : u \in global
    BY <2>1 DEF TypeOK
  <2> QED BY <1>1, <1>3, <1>5, <2>1, <2>2 DEF GlobalHeld
<1> QED BY <1>1, <1>3, <1>5, <1>6 DEF AllDone

\* Only an invitation to deadlock deadlocks.
THEOREM NeverDeadlocks == Spec => []DeadlockFree
<1> QED BY Invariance, InvDeadlockFree, PTL

-----------------------------------------------------------------------------
(* Whole vectors.                                                          *)

Adding(t) == pc[t] \in {"read", "write"}

Uniform(v) == \A x, y \in Index : values[v][x] = values[v][y]

\* A thread in its addition has added to the elements below k[t], and to no
\* other one.
Partial(t) ==
  /\ \A x, y \in Index : (x < k[t] <=> y < k[t]) => values[v_dst(t)][x] = values[v_dst(t)][y]
  /\ \A x, y, z \in Index : x < k[t] /\ ~(y < k[t]) =>
       values[v_dst(t)][x] = values[v_dst(t)][y] + values[v_src(t)][z]
  /\ pc[t] = "write" => reg[t] = values[v_dst(t)][k[t]] + values[v_src(t)][k[t]]

\* Only the destination of a thread in its addition is not uniform.
Whole ==
  opt.program # "nolock" =>
    /\ \A v \in Vector : (\A t \in Thread : Adding(t) => v # v_dst(t)) => Uniform(v)
    /\ \A t \in Thread : IF Adding(t) THEN Partial(t) ELSE k[t] = 0

LEMMA InitWhole == Init => Whole
<1> SUFFICES ASSUME Init PROVE Whole
  OBVIOUS
<1>1. \A t \in Thread : ~Adding(t)
  BY DEF Init, Adding, Entry
<1>2. \A v \in Vector : Uniform(v)
  BY DEF Init, Uniform
<1> QED BY <1>1, <1>2 DEF Whole, Init

\* Nobody else is adding to a vector that a thread holds the lock of.
LEMMA HeldAlone ==
  ASSUME IInv, NEW t \in Thread, NEW u \in Thread, t # u, Adding(u), NEW v \in Holds(t)
  PROVE  v # v_dst(u) /\ v # v_src(u)
<1>1. v_dst(u) \in Holds(u) /\ v_src(u) \in Holds(u)
  BY TwoVectors DEF IInv, Adding, Holds
<1>2. \A w \in Vector : ~(w \in Holds(t) /\ w \in Holds(u))
  BY DEF IInv, LockHeld, Exclusive
<1> QED BY <1>1, <1>2, TwoVectors DEF IInv

LEMMA StepWhole ==
  ASSUME IInv, IInv', Whole, opt.program # "nolock", NEW t \in Thread, worker(t)
  PROVE  Whole'
<1> USE DEF IInv
<1>1. opt' = opt
  BY DEF worker, LockGlobal, LockFirst, LockSecond, UnlockGlobal, TryFails, BackOff, Read,
         Write, Load, fetch_and_add, UnlockFirst, UnlockSecond
<1>2. \A u \in Thread \ {t} : pc'[u] = pc[u] /\ k'[u] = k[u] /\ reg'[u] = reg[u]
  BY DEF worker, LockGlobal, LockFirst, LockSecond, UnlockGlobal, TryFails, BackOff, Read,
         Write, Load, fetch_and_add, UnlockFirst, UnlockSecond, Goto, Advance, TypeOK
<1>3. \A u : v_dst(u)' = v_dst(u) /\ v_src(u)' = v_src(u)
  BY <1>1, SameVectors
<1>4. \A u \in Thread \ {t} : Adding(u)' = Adding(u)
  BY <1>2 DEF Adding
<1>5. ASSUME values' = values PROVE \A v : Uniform(v)' = Uniform(v)
  BY <1>5 DEF Uniform
<1>6. ASSUME values' = values PROVE \A u \in Thread \ {t} : Partial(u)' = Partial(u)
  BY <1>2, <1>3, <1>6 DEF Partial
<1>7. /\ \A v \in Vector : (\A u \in Thread : Adding(u) => v # v_dst(u)) => Uniform(v)
      /\ \A u \in Thread : IF Adding(u) THEN Partial(u) ELSE k[u] = 0
  BY DEF Whole
<1>8. v_dst(t) \in Vector /\ v_src(t) \in Vector /\ v_dst(t) # v_src(t)
  BY TwoVectors
\* Steps outside the addition.
<1>9. ASSUME ~Adding(t), ~Adding(t)', values' = values, k' = k PROVE Whole'
  BY <1>3, <1>4, <1>5, <1>6, <1>7, <1>9 DEF Whole
\* The addition begins.
<1>10. ASSUME ~Adding(t), pc'[t] = "read", values' = values, k' = k PROVE Whole'
  <2>1. \A u \in Thread : Adding(u) => v_dst(t) # v_dst(u)
    <3> SUFFICES ASSUME NEW u \in Thread, Adding(u) PROVE v_dst(t) # v_dst(u)
      OBVIOUS
    <3>1. u # t /\ pc'[u] = pc[u]
      BY <1>2, <1>10
    <3>2. v_dst(t) = v_dst(u) => v_dst(t) \in Holds(t)' /\ v_dst(t) \in Holds(u)'
      <4>1. /\ {FirstLock(t)', SecondLock(t)'} = {v_dst(t), v_src(t)}
            /\ {FirstLock(u)', SecondLock(u)'} = {v_dst(u), v_src(u)}
        BY <1>1, SameVectors, TwoVectors
      <4> QED BY <1>10, <3>1, <4>1 DEF Holds, Adding
    <3>3. ~(v_dst(t) \in Holds(t)' /\ v_dst(t) \in Holds(u)')
      BY <1>8, <3>1 DEF LockHeld, Exclusive
    <3> QED BY <3>2, <3>3
  <2>2. Uniform(v_dst(t)) /\ k[t] = 0
    BY <1>7, <1>8, <1>10, <2>1
  <2>3. \A x \in Index : ~(x < k'[t])
    BY <1>10, <2>2 DEF Index
  <2>4. Partial(t)' /\ Adding(t)'
    BY <1>3, <1>10, <2>2, <2>3 DEF Partial, Uniform, Adding
  <2>5. \A v \in Vector : (\A u \in Thread : Adding(u)' => v # v_dst(u)') => Uniform(v)'
    BY <1>3, <1>4, <1>5, <1>7, <1>10
  <2>6. \A u \in Thread \ {t} : IF Adding(u)' THEN Partial(u)' ELSE k'[u] = 0
    BY <1>2, <1>4, <1>6, <1>7, <1>10
  <2> QED BY <2>4, <2>5, <2>6 DEF Whole
<1>11. CASE LockGlobal(t) \/ LockFirst(t) \/ TryFails(t) \/ BackOff(t) \/ UnlockFirst(t)
  BY <1>9, <1>11 DEF LockGlobal, LockFirst, TryFails, BackOff, UnlockFirst, Goto, Adding, TypeOK
<1>12. CASE LockSecond(t)
  <2>1. ~Adding(t) /\ pc'[t] \in {"read", "unlock_global"} /\ values' = values /\ k' = k
    BY <1>12 DEF LockSecond, Goto, Adding, TypeOK
  <2> QED BY <1>9, <1>10, <2>1 DEF Adding
<1>13. CASE UnlockGlobal(t)
  BY <1>10, <1>13 DEF UnlockGlobal, Goto, Adding, TypeOK
<1>14. CASE UnlockSecond(t)
  <2>1. ~Adding(t) /\ pc'[t] = AfterCall(t) /\ values' = values /\ k' = k
    BY <1>14 DEF UnlockSecond, Goto, Adding, TypeOK
  <2> QED BY <1>9, <2>1, AfterCallLabel DEF Adding
<1>15. CASE Read(t)
  <2>1. /\ pc[t] = "read" /\ pc'[t] = "write" /\ values' = values /\ k' = k
        /\ reg'[t] = values[v_dst(t)][k[t]] + values[v_src(t)][k[t]]
    BY <1>15 DEF Read, Goto, TypeOK
  <2>2. Partial(t)
    BY <1>7, <2>1 DEF Adding
  <2>3. Partial(t)' /\ Adding(t) /\ Adding(t)'
    BY <1>3, <2>1, <2>2 DEF Partial, Adding
  <2> QED BY <1>3, <1>4, <1>5, <1>6, <1>7, <2>1, <2>3 DEF Whole
<1>16. CASE Write(t)
  <2> DEFINE d == v_dst(t)
             s == v_src(t)
             n == k[t]
  <2>1. /\ pc[t] = "write" /\ Adding(t)
        /\ \A v \in Vector : v # d => values'[v] = values[v]
        /\ \A x \in Index : values'[d][x] = IF x = n THEN reg[t] ELSE values[d][x]
    BY <1>8, <1>16 DEF Write, Advance, Goto, Adding, TypeOK
  <2>2. Partial(t) /\ n \in Index /\ reg[t] = values[d][n] + values[s][n]
    BY <1>7, <2>1 DEF Partial, TypeOK
  <2>3. d \in Holds(t) /\ s \in Holds(t)
    BY <2>1, TwoVectors DEF Holds
  <2>4. \A u \in Thread \ {t} : Adding(u) => d # v_dst(u) /\ d # v_src(u) /\ s # v_dst(u)
    BY <2>3, HeldAlone
  <2>5. Uniform(s)
    BY <1>7, <1>8, <2>4
  <2>6. \A v \in Vector : v # d => Uniform(v)' = Uniform(v)
    BY <2>1 DEF Uniform
  <2>7. \A u \in Thread \ {t} : IF Adding(u)' THEN Partial(u)' ELSE k'[u] = 0
    <3> SUFFICES ASSUME NEW u \in Thread \ {t}, Adding(u) PROVE Partial(u)'
      BY <1>2, <1>4, <1>7
    <3>1. values'[v_dst(u)] = values[v_dst(u)] /\ values'[v_src(u)] = values[v_src(u)]
      BY <2>1, <2>4, TwoVectors
    <3>2. Partial(u)
      BY <1>7
    <3> QED BY <1>2, <1>3, <3>1, <3>2 DEF Partial
  <2>8. \A x \in Index : values'[d][x] = IF x <= n THEN reg[t] ELSE values[d][n]
    <3> SUFFICES ASSUME NEW x \in Index
                 PROVE  values'[d][x] = IF x <= n THEN reg[t] ELSE values[d][n]
      OBVIOUS
    <3>1. n \in Int /\ x \in Int
      BY <2>2 DEF Index
    <3>2. CASE x < n
      BY <2>1, <2>2, <3>1, <3>2 DEF Partial
    <3>3. CASE x = n
      BY <2>1, <3>1, <3>3
    <3>4. CASE x > n
      BY <2>1, <2>2, <3>1, <3>4 DEF Partial
    <3> QED BY <3>1, <3>2, <3>3, <3>4
  <2>9. \A z \in Index : reg[t] = values[d][n] + values'[s][z]
    BY <1>8, <2>1, <2>2, <2>5 DEF Uniform
  <2>10. CASE n + 1 < VECTOR_SIZE
    <3>1. pc'[t] = "read" /\ k'[t] = n + 1
      BY <1>16, <2>10 DEF Write, Advance, Goto, TypeOK
    <3>2. \A x \in Index : x < k'[t] <=> x <= n
      BY <2>2, <3>1 DEF Index
    <3>3. Partial(t)' /\ Adding(t)'
      BY <1>3, <2>8, <2>9, <3>1, <3>2 DEF Partial, Adding
    <3>4. \A v \in Vector : (\A u \in Thread : Adding(u)' => v # v_dst(u)') => Uniform(v)'
      BY <1>3, <1>4, <1>7, <2>1, <2>6, <3>3
    <3> QED BY <2>7, <3>3, <3>4 DEF Whole
  <2>11. CASE ~(n + 1 < VECTOR_SIZE)
    <3>1. pc'[t] = "unlock_first" /\ k'[t] = 0
      BY <1>16, <2>11 DEF Write, Advance, Goto, TypeOK
    <3>2. \A x \in Index : x <= n
      BY <2>2, <2>11, SizeAssumption DEF Index
    <3>3. Uniform(d)'
      BY <1>3, <2>8, <3>2 DEF Uniform
    <3>4. \A v \in Vector : (\A u \in Thread : Adding(u)' => v # v_dst(u)') => Uniform(v)'
      BY <1>3, <1>4, <1>7, <2>1, <2>6, <3>3
    <3>5. ~Adding(t)'
      BY <3>1 DEF Adding
    <3> QED BY <2>7, <3>1, <3>4, <3>5 DEF Whole
  <2> QED BY <2>10, <2>11
<1>17. CASE Load(t) \/ fetch_and_add(t)
  BY <1>17 DEF Load, fetch_and_add, Advance, Goto, Labels
<1> QED BY <1>11, <1>12, <1>13, <1>14, <1>15, <1>16, <1>17 DEF worker

LEMMA StepWholeInv == IInv /\ Whole /\ [Next]_vars => Whole'
<1> SUFFICES ASSUME IInv, Whole, [Next]_vars PROVE Whole'
  OBVIOUS
<1>1. IInv'
  BY StepInv
<1>2. CASE Next
  <2>1. PICK t \in Thread : worker(t)
    BY <1>2 DEF Next
  <2>2. opt' = opt
    BY <2>1 DEF worker, LockGlobal, LockFirst, LockSecond, UnlockGlobal, TryFails, BackOff,
                Read, Write, Load, fetch_and_add, UnlockFirst, UnlockSecond
  <2>3. CASE opt.program = "nolock"
    BY <2>2, <2>3 DEF Whole
  <2> QED BY <1>1, <2>1, <2>3, StepWhole
<1>3. CASE UNCHANGED vars
  <2>1. opt' = opt /\ pc' = pc /\ k' = k /\ reg' = reg /\ values' = values
    BY <1>3 DEF vars
  <2>2. \A u : v_dst(u)' = v_dst(u) /\ v_src(u)' = v_src(u)
    BY <2>1, SameVectors
  <2>3. \A u : Adding(u)' = Adding(u) /\ Partial(u)' = Partial(u) /\ Uniform(u)' = Uniform(u)
    BY <2>1, <2>2 DEF Adding, Partial, Uniform
  <2> QED BY <2>1, <2>2, <2>3 DEF Whole
<1> QED BY <1>2, <1>3

\* A vector whose lock is free is nobody's destination.
LEMMA WholeImplies == IInv /\ Whole => WholeVectors
<1> SUFFICES ASSUME IInv, Whole, opt.program # "nolock", NEW v \in Vector, lock[v] = {}
             PROVE  \A x \in Index : values[v][x] = values[v][0]
  BY DEF WholeVectors
<1>1. \A t \in Thread : Adding(t) => v # v_dst(t)
  <2> SUFFICES ASSUME NEW t \in Thread, Adding(t) PROVE v # v_dst(t)
    OBVIOUS
  <2>1. v_dst(t) \in Holds(t)
    BY TwoVectors DEF IInv, Holds, Adding
  <2> QED BY <2>1, TwoVectors DEF IInv, LockHeld
<1>2. 0 \in Index
  BY SizeAssumption DEF Index
<1> QED BY <1>1, <1>2 DEF Whole, Uniform

\* With locks a vector whose lock is free has been added to as a whole.
THEOREM AddsWholeVectors == Spec => []WholeVectors
<1>1. Spec => []Whole
  BY InitWhole, StepWholeInv, Invariance, PTL DEF Spec
<1> QED BY <1>1, Invariance, WholeImplies, PTL

-----------------------------------------------------------------------------
(* Every step adds an element or none.                                     *)

\* How many calls of a thread have added to element x.
Done(t, x) ==
  i[t] + (IF pc[t] \in {"unlock_first", "unlock_second"} \/ x < k[t] THEN 1 ELSE 0)

Finished == \A t \in Thread : pc[t] = "done" => i[t] = loops /\ k[t] = 0

\* In vector-nolock.c the sources are as they were, unless a source is a
\* destination too.
SourcesKept ==
  opt.program = "nolock" /\ ~NotAtomic => \A t \in Thread :
    /\ Uniform(v_src(t))
    /\ pc[t] = "add" => reg[t] = values[v_src(t)][k[t]]

AddInv == IInv /\ Whole /\ Finished /\ SourcesKept

\* Without -d, or with two vectors for each thread, no source is a destination.
LEMMA Apart ==
  ASSUME IInv, ~opt.cause_deadlock \/ opt.enable_parallelism,
         NEW t \in Thread, NEW u \in Thread
  PROVE  /\ v_dst(t) # v_src(u)
         /\ v_dst(t) = v_dst(u) => v_src(t) = v_src(u)
<1>1. num_threads \in Nat /\ t \in Int /\ u \in Int
  BY VectorArgsAssumption DEF Thread
<1>2. CASE opt.enable_parallelism
  <2>1. ASSUME NEW w \in Int
        PROVE  /\ v_dst(w) \in {2 * w, 2 * w + 1} /\ v_src(w) \in {2 * w, 2 * w + 1}
               /\ v_dst(w) # v_src(w)
    BY <1>2 DEF v_dst, v_src, vector_0, vector_1
  <2>2. /\ v_dst(t) \in {2 * t, 2 * t + 1} /\ v_src(t) \in {2 * t, 2 * t + 1} /\ v_dst(t) # v_src(t)
        /\ v_dst(u) \in {2 * u, 2 * u + 1} /\ v_src(u) \in {2 * u, 2 * u + 1} /\ v_dst(u) # v_src(u)
    BY <1>1, <2>1
  <2>3. CASE t = u
    BY <2>2, <2>3
  <2>4. CASE t # u
    BY <1>1, <2>2, <2>4
  <2> QED BY <2>3, <2>4
<1>3. CASE ~opt.enable_parallelism
  <2>1. ~opt.cause_deadlock
    BY <1>3
  <2>2. \A w : v_dst(w) = 0 /\ v_src(w) = 1
    BY <1>3, <2>1 DEF v_dst, v_src, vector_0, vector_1, reversed
  <2> QED BY <2>2
<1> QED BY <1>2, <1>3

\* What a step leaves alone.
LEMMA Frame ==
  ASSUME IInv, NEW t \in Thread, worker(t)
  PROVE  /\ opt' = opt
         /\ \A u \in Thread \ {t} :
              /\ pc'[u] = pc[u] /\ k'[u] = k[u] /\ i'[u] = i[u] /\ reg'[u] = reg[u]
              /\ \A x : Done(u, x)' = Done(u, x)
<1>1. /\ opt' = opt
      /\ \A u \in Thread \ {t} : pc'[u] = pc[u] /\ k'[u] = k[u] /\ i'[u] = i[u] /\ reg'[u] = reg[u]
  BY DEF worker, LockGlobal, LockFirst, LockSecond, UnlockGlobal, TryFails, BackOff, Read,
         Write, Load, fetch_and_add, UnlockFirst, UnlockSecond, Goto, Advance, IInv, TypeOK
<1> QED BY <1>1 DEF Done

\* Thread t adds the element it is at: all of its call that others can see.
Adds(t) ==
  /\ values' = [values EXCEPT ![v_dst(t)][k[t]] = values[v_dst(t)][k[t]] + values[v_src(t)][k[t]]]
  /\ i[t] < loops /\ Done(t, k[t]) = i[t]
  /\ \A x \in Index : Done(t, x)' = IF x = k[t] THEN Done(t, x) + 1 ELSE Done(t, x)

Keeps(t) == values' = values /\ \A x \in Index : Done(t, x)' = Done(t, x)

LEMMA ElementStep ==
  ASSUME AddInv, ~NotAtomic, NEW t \in Thread, worker(t)
  PROVE  Adds(t) \/ Keeps(t)
<1> USE DEF AddInv, IInv
<1>1. /\ pc \in [Thread -> Label] /\ k \in [Thread -> Index] /\ i \in [Thread -> 0 .. loops]
      /\ VECTOR_SIZE \in Nat \ {0} /\ loops \in Nat
      /\ k[t] \in Int /\ 0 <= k[t] /\ k[t] < VECTOR_SIZE /\ i[t] \in Nat
  BY SizeAssumption, VectorArgsAssumption DEF TypeOK, Index
<1>2. \A x \in Index : x \in Int /\ 0 <= x /\ x < VECTOR_SIZE
  BY <1>1 DEF Index
<1>3. opt.program # "nolock" => (~Adding(t) => k[t] = 0)
  BY DEF Whole
<1>4. ASSUME pc[t] \notin {"unlock_first", "unlock_second"}, values' = values, i' = i, k' = k,
             pc'[t] \notin {"unlock_first", "unlock_second"}
      PROVE  Keeps(t)
  BY <1>4 DEF Keeps, Done
<1>5. CASE \/ LockGlobal(t) \/ LockFirst(t) \/ LockSecond(t) \/ UnlockGlobal(t) \/ TryFails(t)
           \/ BackOff(t) \/ Read(t) \/ Load(t)
  BY <1>1, <1>4, <1>5 DEF LockGlobal, LockFirst, LockSecond, UnlockGlobal, TryFails, BackOff,
     Read, Load, Goto
<1>6. CASE UnlockFirst(t)
  BY <1>1, <1>6 DEF UnlockFirst, Goto, Keeps, Done
<1>7. CASE UnlockSecond(t)
  <2>1. /\ pc[t] = "unlock_second" /\ pc'[t] = AfterCall(t)
        /\ values' = values /\ k' = k /\ i'[t] = i[t] + 1
    BY <1>1, <1>7 DEF UnlockSecond, Goto
  <2>2. k[t] = 0 /\ pc'[t] \notin {"unlock_first", "unlock_second"}
    BY <1>3, <2>1, AfterCallLabel DEF Adding, Labels
  <2> QED BY <1>1, <1>2, <2>1, <2>2 DEF Keeps, Done
<1>8. CASE Write(t)
  <2>1. /\ pc[t] = "write" /\ values' = [values EXCEPT ![v_dst(t)][k[t]] = reg[t]] /\ i' = i
        /\ pc'[t] = (IF k[t] + 1 < VECTOR_SIZE THEN "read" ELSE "unlock_first")
        /\ k'[t] = (IF k[t] + 1 < VECTOR_SIZE THEN k[t] + 1 ELSE 0)
    BY <1>1, <1>8 DEF Write, Advance, Goto
  <2>2. reg[t] = values[v_dst(t)][k[t]] + values[v_src(t)][k[t]] /\ i[t] < loops
    BY <2>1 DEF Whole, Partial, Adding, CallsLeft, Labels
  <2>3. \A x \in Index : Done(t, x)' = IF x = k[t] THEN Done(t, x) + 1 ELSE Done(t, x)
    BY <1>1, <1>2, <2>1 DEF Done
  <2> QED BY <1>1, <2>1, <2>2, <2>3 DEF Adds, Done
<1>9. CASE fetch_and_add(t)
  <2>1. /\ pc[t] = "add" /\ values' = [values EXCEPT ![v_dst(t)][k[t]] = @ + reg[t]]
        /\ pc'[t] = (IF k[t] + 1 < VECTOR_SIZE THEN "load" ELSE AfterCall(t))
        /\ k'[t] = (IF k[t] + 1 < VECTOR_SIZE THEN k[t] + 1 ELSE 0)
        /\ i'[t] = (IF k[t] + 1 < VECTOR_SIZE THEN i[t] ELSE i[t] + 1)
    BY <1>1, <1>9 DEF fetch_and_add, Advance, Goto
  <2>2. reg[t] = values[v_src(t)][k[t]] /\ i[t] < loops
    BY <2>1 DEF SourcesKept, CallsLeft, Labels
  <2>3. values' = [values EXCEPT ![v_dst(t)][k[t]] = values[v_dst(t)][k[t]] + values[v_src(t)][k[t]]]
    BY <2>1, <2>2
  <2>4. pc'[t] \notin {"unlock_first", "unlock_second"}
    BY <2>1, AfterCallLabel
  <2>5. \A x \in Index : Done(t, x)' = IF x = k[t] THEN Done(t, x) + 1 ELSE Done(t, x)
    BY <1>1, <1>2, <2>1, <2>4 DEF Done
  <2> QED BY <1>1, <2>1, <2>2, <2>3, <2>5 DEF Adds, Done
<1> QED BY <1>5, <1>6, <1>7, <1>8, <1>9 DEF worker

LEMMA InitAdd == Init => AddInv
<1> SUFFICES ASSUME Init PROVE AddInv
  OBVIOUS
<1>1. IInv /\ Whole
  BY InitInv, InitWhole
<1>2. Finished
  BY <1>1, VectorArgsAssumption DEF Init, Finished, Entry
<1>3. \A t \in Thread : Uniform(v_src(t)) /\ pc[t] # "add"
  BY <1>1, TwoVectors DEF IInv, Init, Uniform, Entry
<1> QED BY <1>1, <1>2, <1>3 DEF AddInv, SourcesKept

LEMMA StepFinished ==
  ASSUME AddInv, NEW t \in Thread, worker(t)
  PROVE  Finished'
<1> USE DEF AddInv, IInv
<1>1. \A u \in Thread \ {t} : pc'[u] = pc[u] /\ k'[u] = k[u] /\ i'[u] = i[u]
  BY Frame
<1>2. pc \in [Thread -> Label] /\ k \in [Thread -> Index] /\ i \in [Thread -> 0 .. loops] /\ loops \in Nat
  BY VectorArgsAssumption DEF TypeOK
<1>3. ASSUME pc'[t] = "done" PROVE i'[t] = loops /\ k'[t] = 0
  <2>1. \/ UnlockSecond(t) /\ pc[t] = "unlock_second" /\ pc'[t] = AfterCall(t)
        \/ /\ fetch_and_add(t) /\ pc[t] = "add" /\ ~(k[t] + 1 < VECTOR_SIZE) /\ pc'[t] = AfterCall(t)
    BY <1>2, <1>3 DEF worker, LockGlobal, LockFirst, LockSecond, UnlockGlobal, TryFails, BackOff, Read,
         Write, Load, fetch_and_add, UnlockFirst, UnlockSecond, Goto, Advance
  <2>2. i[t] < loops /\ ~(i[t] + 1 < loops)
    BY <1>3, <2>1 DEF AfterCall, CallsLeft, Entry
  <2>3. pc[t] = "unlock_second" => k[t] = 0
    BY DEF Whole, Adding, Labels
  <2> QED BY <1>2, <2>1, <2>2, <2>3 DEF UnlockSecond, fetch_and_add, Advance
<1> QED BY <1>1, <1>3 DEF Finished

LEMMA StepSources ==
  ASSUME AddInv, NEW t \in Thread, worker(t)
  PROVE  SourcesKept'
<1> USE DEF AddInv, IInv
<1>1. /\ opt' = opt
      /\ \A u \in Thread \ {t} : pc'[u] = pc[u] /\ k'[u] = k[u] /\ reg'[u] = reg[u]
      /\ \A u : v_dst(u)' = v_dst(u) /\ v_src(u)' = v_src(u)
  BY Frame, SameVectors
<1> SUFFICES ASSUME opt.program = "nolock", ~NotAtomic, NEW u \in Thread
             PROVE  Uniform(v_src(u))' /\ (pc'[u] = "add" => reg'[u] = values'[v_src(u)][k'[u]])
  BY <1>1 DEF SourcesKept, NotAtomic
<1>2. ~opt.cause_deadlock \/ opt.enable_parallelism
  BY DEF NotAtomic
<1>3. v_dst(t) # v_src(u) /\ v_src(u) \in Vector
  BY <1>2, Apart, TwoVectors
<1>4. values'[v_src(u)] = values[v_src(u)]
  BY <1>3, ElementStep DEF Adds, Keeps, TypeOK
<1>5. Uniform(v_src(u))'
  BY <1>1, <1>4 DEF Uniform, SourcesKept
<1>6. ASSUME pc'[t] = "add" PROVE reg'[t] = values'[v_src(t)][k'[t]]
  <2>1. Load(t)
    BY <1>6, AfterCallLabel DEF worker, LockGlobal, LockFirst, LockSecond, UnlockGlobal, TryFails,
         BackOff, Read, Write, Load, fetch_and_add, UnlockFirst, UnlockSecond, Goto, Advance, TypeOK
  <2> QED BY <2>1 DEF Load, TypeOK
<1>7. CASE u = t
  BY <1>5, <1>6, <1>7
<1>8. CASE u # t
  BY <1>1, <1>4, <1>5, <1>8 DEF SourcesKept
<1> QED BY <1>7, <1>8

LEMMA StepAdd == AddInv /\ [Next]_vars => AddInv'
<1> SUFFICES ASSUME AddInv, [Next]_vars PROVE AddInv'
  OBVIOUS
<1>1. IInv' /\ Whole'
  BY StepInv, StepWholeInv DEF AddInv
<1>2. CASE Next
  BY <1>1, <1>2, StepFinished, StepSources DEF Next, AddInv
<1>3. CASE UNCHANGED vars
  <2>1. \A u : v_src(u)' = v_src(u)
    BY <1>3, SameVectors DEF vars
  <2> QED BY <1>1, <1>3, <2>1 DEF vars, AddInv, Finished, SourcesKept, NotAtomic, Uniform
<1> QED BY <1>2, <1>3

-----------------------------------------------------------------------------
(* Refinement of the atomic addition of whole vectors.                     *)

\* The two modules give a thread the same vectors.
LEMMA SameArgs ==
  /\ AV!Thread = Thread /\ AV!Vector = Vector /\ AV!OptInit = OptInit
  /\ \A t : AV!v_dst(t) = v_dst(t) /\ AV!v_src(t) = v_src(t)
BY DEF AV!Thread, AV!Vector, AV!OptInit, AV!v_dst, AV!v_src, AV!vector_0, AV!vector_1, AV!reversed,
       Thread, Vector, OptInit, v_dst, v_src, vector_0, vector_1, reversed

LEMMA InitAtomic == Init => AV!AInit
<1> SUFFICES ASSUME Init PROVE AV!AInit
  OBVIOUS
<1>1. 0 \in Index
  BY SizeAssumption DEF Index
<1>2. [v \in Vector |-> values[v][0]] = [v \in Vector |-> v]
  BY <1>1 DEF Init
<1>3. \A t \in Thread : pc[t] \notin {"unlock_first", "unlock_second"} /\ i[t] = 0 /\ k[t] = 0
  BY DEF Init, Entry
<1>4. [t \in Thread |-> Called(t)] = [t \in Thread |-> 0]
  BY <1>3 DEF Called
<1> QED BY <1>2, <1>4, SameArgs DEF AV!AInit, Init

\* The step that adds element 0 is the atomic addition; every other step
\* changes neither element 0 nor the number of calls that have added to it.
LEMMA StepAtomic ==
  ASSUME AddInv, AddInv', ~NotAtomic, [Next]_vars
  PROVE  [AV!ANext]_(AV!avars)
<1>0. IInv /\ IInv' /\ 0 \in Index
  BY SizeAssumption DEF AddInv, Index
<1>1. ASSUME opt' = opt, \A v \in Vector : values'[v][0] = values[v][0],
             \A t \in Thread : Called(t)' = Called(t)
      PROVE  UNCHANGED AV!avars
  <2>1. [v \in Vector |-> values[v][0]]' = [v \in Vector |-> values[v][0]]
    BY <1>1
  <2>2. [t \in Thread |-> Called(t)]' = [t \in Thread |-> Called(t)]
    BY <1>1
  <2> QED BY <1>1, <2>1, <2>2 DEF AV!avars
<1>2. CASE UNCHANGED vars
  BY <1>1, <1>2 DEF vars, Called
<1>3. CASE Next
  <2>1. PICK t \in Thread : worker(t)
    BY <1>3 DEF Next
  <2> DEFINE d == v_dst(t)
             s == v_src(t)
  <2>2. opt' = opt /\ \A u \in Thread \ {t} : Done(u, 0)' = Done(u, 0)
    BY <1>0, <2>1, Frame
  <2>3. \A u \in Thread : Called(u) = Done(u, 0) /\ Called(u)' = Done(u, 0)'
    <3>1. \A u \in Thread : k[u] \in Int /\ k'[u] \in Int
      BY <1>0 DEF IInv, TypeOK, Index
    <3> QED BY <3>1 DEF Called, Done
  <2>4. \A u \in Thread \ {t} : Called(u)' = Called(u)
    BY <2>2, <2>3
  <2>5. d \in Vector /\ s \in Vector /\ d # s /\ k[t] \in Index
    BY <1>0, TwoVectors DEF IInv, TypeOK
  <2>6. CASE Keeps(t)
    <3>1. \A u \in Thread : Called(u)' = Called(u)
      BY <1>0, <2>3, <2>4, <2>6 DEF Keeps
    <3> QED BY <1>1, <2>2, <2>6, <3>1 DEF Keeps
  <2>7. CASE Adds(t) /\ k[t] # 0
    <3>1. \A v \in Vector : values'[v][0] = values[v][0]
      BY <1>0, <2>5, <2>7 DEF Adds, IInv, TypeOK
    <3>2. \A u \in Thread : Called(u)' = Called(u)
      BY <1>0, <2>3, <2>4, <2>7 DEF Adds
    <3> QED BY <1>1, <2>2, <3>1, <3>2
  <2>8. CASE Adds(t) /\ k[t] = 0
    <3>1. \A v \in Vector :
            values'[v][0] = IF v = d THEN values[d][0] + values[s][0] ELSE values[v][0]
      BY <1>0, <2>5, <2>8 DEF Adds, IInv, TypeOK
    <3>2. [v \in Vector |-> values[v][0]]' =
            [[v \in Vector |-> values[v][0]] EXCEPT ![d] = @ + [v \in Vector |-> values[v][0]][s]]
      BY <2>5, <3>1
    <3>3. Called(t)' = Called(t) + 1 /\ Called(t) < loops
      BY <1>0, <2>3, <2>8 DEF Adds
    <3>4. [u \in Thread |-> Called(u)]' =
            [[u \in Thread |-> Called(u)] EXCEPT ![t] = @ + 1]
      BY <2>4, <3>3
    <3>5. AV!Add(t)
      BY <2>2, <3>2, <3>3, <3>4, SameArgs DEF AV!Add
    <3> QED BY <3>5, SameArgs DEF AV!ANext
  <2> QED BY <2>1, <2>6, <2>7, <2>8, ElementStep
<1> QED BY <1>2, <1>3

\* In the programs with locks, and in vector-nolock.c when no source is a
\* destination, the element-wise additions are as good as additions of whole
\* vectors at once: whatever the number of threads, calls and elements, each
\* step adds one vector to another or leaves the vectors as they are.
THEOREM AddsAtomically == Spec => ImplementsAtomicAdd
<1>1. Init => AddInv
  BY InitAdd
<1>2. AddInv /\ [Next]_vars => AddInv'
  BY StepAdd
<1>3. Init => AV!AInit
  BY InitAtomic
<1>4. AddInv /\ AddInv' /\ [Next]_vars => [~NotAtomic => AV!ANext]_(AV!avars)
  BY StepAtomic
<1> QED BY <1>1, <1>2, <1>3, <1>4, PTL DEF Spec, ImplementsAtomicAdd

-----------------------------------------------------------------------------
(* No addition is lost.                                                    *)

\* The calls that have added to element x of vector v.
Added(v, x) ==
  {c \in Thread \X (1 .. loops) : v_dst(c[1]) = v /\ c[2] <= Done(c[1], x)}

\* Without -d the sources are as main() filled them, and each element of a
\* destination has grown by one source element for each call.
Counted ==
  ~opt.cause_deadlock => \A t \in Thread, x \in Index :
    /\ values[v_src(t)][x] = v_src(t)
    /\ values[v_dst(t)][x] = v_dst(t) + v_src(t) * Cardinality(Added(v_dst(t), x))

LEMMA AddedFinite ==
  ASSUME NEW v, NEW x
  PROVE  IsFiniteSet(Added(v, x)) /\ Cardinality(Added(v, x)) \in Nat
<1>1. IsFiniteSet(Thread) /\ IsFiniteSet(1 .. loops)
  BY VectorArgsAssumption, FS_Interval DEF Thread
<1>2. IsFiniteSet(Thread \X (1 .. loops))
  BY <1>1, FS_Product
<1>3. Added(v, x) \in SUBSET (Thread \X (1 .. loops))
  BY DEF Added
<1> QED BY <1>2, <1>3, FS_Subset, FS_CardinalityType

LEMMA InitCounted == Init => Counted
<1> SUFFICES ASSUME Init, ~opt.cause_deadlock, NEW t \in Thread, NEW x \in Index
             PROVE  /\ values[v_src(t)][x] = v_src(t)
                    /\ values[v_dst(t)][x] = v_dst(t) + v_src(t) * Cardinality(Added(v_dst(t), x))
  BY DEF Counted
<1>1. v_dst(t) \in Vector /\ v_src(t) \in Vector
  BY InitInv, TwoVectors DEF IInv
<1>2. \A u \in Thread : Done(u, x) = 0
  BY SizeAssumption DEF Init, Done, Entry, Index
<1>3. Added(v_dst(t), x) = {}
  BY <1>2 DEF Added
<1>4. Cardinality(Added(v_dst(t), x)) = 0
  BY <1>3, FS_EmptySet
<1>5. v_dst(t) \in Int /\ v_src(t) \in Int
  BY <1>1, VectorArgsAssumption DEF Vector
<1> QED BY <1>1, <1>4, <1>5 DEF Init

LEMMA StepCounted ==
  ASSUME AddInv, Counted, NEW t \in Thread, worker(t)
  PROVE  Counted'
<1>1. IInv /\ opt' = opt /\ \A u : v_dst(u)' = v_dst(u) /\ v_src(u)' = v_src(u)
  BY Frame, SameVectors DEF AddInv
<1>2. \A u \in Thread \ {t} : \A x : Done(u, x)' = Done(u, x)
  BY <1>1, Frame
<1> SUFFICES ASSUME ~opt.cause_deadlock, NEW u \in Thread, NEW x \in Index
             PROVE  /\ values'[v_src(u)][x] = v_src(u)
                    /\ values'[v_dst(u)][x] = v_dst(u) + v_src(u) * Cardinality(Added(v_dst(u), x)')
  BY <1>1 DEF Counted, Added
<1> DEFINE d == v_dst(u)
           s == v_src(u)
           n == Cardinality(Added(d, x))
<1>3. ~NotAtomic
  BY DEF NotAtomic
<1>4. /\ d \in Vector /\ s \in Vector /\ v_dst(t) \in Vector /\ d \in Int /\ s \in Int
      /\ s # v_dst(t) /\ d # v_src(t) /\ (d = v_dst(t) => s = v_src(t))
      /\ k[t] \in Index
  <2>1. s # v_dst(t) /\ d # v_src(t) /\ (d = v_dst(t) => s = v_src(t))
    BY <1>1, Apart
  <2>2. d \in Vector /\ s \in Vector /\ v_dst(t) \in Vector /\ k[t] \in Index
    BY <1>1, TwoVectors DEF IInv, TypeOK
  <2> QED BY <2>1, <2>2, VectorArgsAssumption DEF Vector
<1>5. n \in Nat /\ IsFiniteSet(Added(d, x))
  BY AddedFinite
<1>6. values[s][x] = s /\ values[d][x] = d + s * n
  BY DEF Counted
<1>7. values'[s] = values[s]
  BY <1>1, <1>3, <1>4, ElementStep DEF Adds, Keeps, IInv, TypeOK
<1>8. CASE values'[d][x] = values[d][x] /\ \A w \in Thread : v_dst(w) = d => Done(w, x)' = Done(w, x)
  <2>1. Added(d, x)' = Added(d, x)
    BY <1>1, <1>8 DEF Added
  <2> QED BY <1>6, <1>7, <1>8, <2>1
<1>9. CASE Adds(t) /\ v_dst(t) = d /\ k[t] = x
  <2>1. values'[d][x] = values[d][x] + s
    BY <1>1, <1>4, <1>9 DEF Adds, IInv, TypeOK, Counted
  <2>2. Done(t, x) = i[t] /\ Done(t, x)' = i[t] + 1 /\ i[t] + 1 \in 1 .. loops /\ i[t] \in Nat
    BY <1>1, <1>9, VectorArgsAssumption DEF Adds, IInv, TypeOK
  <2>3. \A c \in Thread \X (1 .. loops) :
          c[2] <= Done(c[1], x)' <=> c[2] <= Done(c[1], x) \/ c = <<t, i[t] + 1>>
    BY <1>2, <2>2, VectorArgsAssumption
  <2>4. Added(d, x)' = Added(d, x) \cup {<<t, i[t] + 1>>} /\ <<t, i[t] + 1>> \notin Added(d, x)
    BY <1>1, <1>9, <2>2, <2>3 DEF Added
  <2>5. Cardinality(Added(d, x)') = n + 1
    BY <1>5, <2>4, FS_AddElement
  <2>6. s * (n + 1) = s * n + s /\ s * n \in Int
    BY <1>4, <1>5
  <2> QED BY <1>4, <1>6, <1>7, <2>1, <2>5, <2>6
<1>10. CASE Adds(t) /\ ~(v_dst(t) = d /\ k[t] = x)
  <2>1. values'[d][x] = values[d][x]
    BY <1>1, <1>4, <1>10 DEF Adds, IInv, TypeOK
  <2>2. \A w \in Thread : v_dst(w) = d => Done(w, x)' = Done(w, x)
    BY <1>2, <1>10 DEF Adds
  <2> QED BY <1>8, <2>1, <2>2
<1>11. CASE Keeps(t)
  BY <1>2, <1>8, <1>11 DEF Keeps
<1> QED BY <1>3, <1>9, <1>10, <1>11, ElementStep

LEMMA CountedImplies == AddInv /\ Counted => NoLostAdd
<1> SUFFICES ASSUME AddInv, Counted, AllDone, ~opt.cause_deadlock,
                    NEW t \in Thread, NEW x \in Index
             PROVE  values[v_dst(t)][x] =
                      v_dst(t) + Cardinality({u \in Thread : v_dst(u) = v_dst(t)}) * loops * v_src(t)
  BY DEF NoLostAdd
<1> DEFINE Same == {u \in Thread : v_dst(u) = v_dst(t)}
<1>1. \A u \in Thread : Done(u, x) = loops
  BY SizeAssumption, VectorArgsAssumption DEF AddInv, Finished, AllDone, Done, Index
<1>2. Added(v_dst(t), x) = Same \X (1 .. loops)
  BY <1>1, VectorArgsAssumption DEF Added
<1>3. IsFiniteSet(Thread) /\ IsFiniteSet(1 .. loops) /\ Cardinality(1 .. loops) = loops
  BY VectorArgsAssumption, FS_Interval DEF Thread
<1>4. IsFiniteSet(Same) /\ Cardinality(Same) \in Nat
  <2>1. Same \in SUBSET Thread
    OBVIOUS
  <2> QED BY <1>3, <2>1, FS_Subset, FS_CardinalityType
<1>5. Cardinality(Added(v_dst(t), x)) = Cardinality(Same) * loops
  BY <1>2, <1>3, <1>4, FS_Product
<1>6. v_src(t) \in Int /\ loops \in Int
  BY TwoVectors, VectorArgsAssumption DEF AddInv, IInv, Vector
<1>7. v_src(t) * (Cardinality(Same) * loops) = Cardinality(Same) * loops * v_src(t)
  BY <1>4, <1>6
<1> QED BY <1>5, <1>7 DEF Counted

\* Without -d no addition is lost: when all threads have finished, every
\* element of a destination has grown by the source element once for each call
\* of each thread, with locks or with atomic additions of single elements.
THEOREM LosesNoAdd == Spec => []NoLostAdd
<1>1. Init => AddInv /\ Counted
  BY InitAdd, InitCounted
<1>2. AddInv /\ Counted /\ [Next]_vars => (AddInv /\ Counted)'
  <2> SUFFICES ASSUME AddInv, Counted, [Next]_vars PROVE AddInv' /\ Counted'
    OBVIOUS
  <2>1. CASE UNCHANGED vars
    <3>1. \A u : v_dst(u)' = v_dst(u) /\ v_src(u)' = v_src(u)
      BY <2>1, SameVectors DEF vars
    <3>2. values' = values /\ opt' = opt /\ \A u, x : Done(u, x)' = Done(u, x)
      BY <2>1 DEF vars, Done
    <3>3. \A v, x : Added(v, x)' = Added(v, x)
      BY <3>1, <3>2 DEF Added
    <3> QED BY <3>1, <3>2, <3>3, StepAdd DEF Counted
  <2>2. CASE Next
    BY <2>2, StepAdd, StepCounted DEF Next
  <2> QED BY <2>1, <2>2
<1>3. AddInv /\ Counted => NoLostAdd
  BY CountedImplies
<1> QED BY <1>1, <1>2, <1>3, PTL DEF Spec

-----------------------------------------------------------------------------
(* The work that is left.                                                  *)

\* No call takes as many steps as this, unless its thread backs off.
CallLength == 2 * VECTOR_SIZE + 8

\* How far a thread has come in its call.
Progress(t) ==
  CASE pc[t] = "first"                      -> 1
    [] pc[t] = "second"                     -> 2
    [] pc[t] \in {"back_off", "unlock_global"} -> 3
    [] pc[t] \in {"read", "load"}           -> 4 + 2 * k[t]
    [] pc[t] \in {"write", "add"}           -> 5 + 2 * k[t]
    [] pc[t] = "unlock_first"               -> 4 + 2 * VECTOR_SIZE
    [] pc[t] = "unlock_second"              -> 5 + 2 * VECTOR_SIZE
    [] OTHER                                -> 0

Left(t) == (loops - i[t]) * CallLength - Progress(t)
LeftOf == [t \in Thread |-> Left(t)]
Work == SumOf(LeftOf, Thread)

ProgressBounded == \A t \in Thread : Progress(t) \in 0 .. CallLength - 1
LeftNatural == \A t \in Thread : Left(t) \in Nat

LEMMA OneCallLess ==
  \A n \in Nat, z \in Nat : /\ (n - 1) * z = n * z - z /\ n * z \in Nat
                           /\ n >= 1 => n * z >= z
  OBVIOUS

LEMMA ProgressBound == TypeOK => ProgressBounded
<1> SUFFICES ASSUME TypeOK, NEW t \in Thread PROVE Progress(t) \in 0 .. CallLength - 1
  BY DEF ProgressBounded
<1>1. pc[t] \in Label /\ k[t] \in 0 .. VECTOR_SIZE - 1 /\ VECTOR_SIZE \in Nat \ {0}
  BY SizeAssumption DEF TypeOK, Index
<1> QED BY <1>1 DEF Progress, CallLength, Label

LEMMA LeftType == IInv => LeftNatural
<1> SUFFICES ASSUME TypeOK, CallsLeft, NEW t \in Thread PROVE Left(t) \in Nat
  BY DEF IInv, LeftNatural
<1>1. i[t] \in 0 .. loops /\ loops \in Nat /\ (pc[t] # "done" => i[t] < loops)
  BY VectorArgsAssumption DEF TypeOK, CallsLeft
<1>2. Progress(t) \in 0 .. CallLength - 1 /\ CallLength \in Nat
  BY ProgressBound, SizeAssumption DEF CallLength, ProgressBounded
<1>3. pc[t] = "done" => Progress(t) = 0
  BY DEF Progress
<1>4. loops - i[t] \in Nat /\ (pc[t] # "done" => loops - i[t] >= 1)
  BY <1>1
<1> DEFINE w == (loops - i[t]) * CallLength
<1>5. w \in Nat /\ (pc[t] # "done" => w >= CallLength)
  BY <1>2, <1>4, OneCallLess
<1> HIDE DEF w
<1>6. w - Progress(t) \in Nat
  BY <1>2, <1>3, <1>5
<1> QED BY <1>6 DEF Left, w

\* A step within a call, or one that ends it, leaves less of it.
LEMMA GetsOn ==
  ASSUME TypeOK, TypeOK', CallsLeft, NEW t \in Thread,
         \/ i'[t] = i[t] /\ Progress(t)' > Progress(t)
         \/ i'[t] = i[t] + 1 /\ pc[t] # "done"
  PROVE  Left(t)' < Left(t)
<1>1. i[t] \in 0 .. loops /\ loops \in Nat /\ (pc[t] # "done" => i[t] < loops)
  BY VectorArgsAssumption DEF TypeOK, CallsLeft
<1>2. ProgressBounded'
  BY ProgressBound, PTL
<1>3. /\ Progress(t) \in 0 .. CallLength - 1 /\ CallLength \in Nat
      /\ Progress(t)' \in 0 .. CallLength - 1
  BY <1>2, ProgressBound, SizeAssumption DEF CallLength, Thread, ProgressBounded
<1> DEFINE w == (loops - i[t]) * CallLength
           w1 == (loops - i'[t]) * CallLength
<1>4. Left(t) = w - Progress(t) /\ Left(t)' = w1 - Progress(t)'
  BY DEF Left, CallLength
<1>5. loops - i[t] \in Nat /\ (i'[t] = i[t] + 1 => loops - i'[t] = (loops - i[t]) - 1)
  BY <1>1
<1>6. w \in Nat /\ (i'[t] = i[t] + 1 => w1 = w - CallLength)
  BY <1>3, <1>5, OneCallLess
<1>7. i'[t] = i[t] => w1 = w
  OBVIOUS
<1> HIDE DEF w, w1
<1> QED BY <1>3, <1>4, <1>6, <1>7

\* Every step but a back-off brings its thread nearer to its end.
LEMMA StepLeft ==
  ASSUME IInv, TypeOK', NEW t \in Thread, worker(t), ~BackOff(t)
  PROVE  /\ Left(t)' < Left(t)
         /\ \A u \in Thread \ {t} : Left(u)' = Left(u)
<1> USE DEF IInv
<1> DEFINE Moves == i'[t] = i[t] /\ Progress(t)' > Progress(t)
           Ends == i'[t] = i[t] + 1 /\ pc[t] # "done"
<1>1. /\ k[t] \in 0 .. VECTOR_SIZE - 1 /\ VECTOR_SIZE \in Nat \ {0} /\ k \in [Thread -> Index]
      /\ pc \in [Thread -> Label] /\ i \in [Thread -> 0 .. loops] /\ i[t] \in Nat
  BY SizeAssumption, VectorArgsAssumption DEF TypeOK, Index
<1>2. LockGlobal(t) \/ LockFirst(t) \/ UnlockGlobal(t) \/ TryFails(t) => Moves
  BY <1>1 DEF LockGlobal, LockFirst, UnlockGlobal, TryFails, Goto, Progress
<1>3. LockSecond(t) => Moves
  BY <1>1 DEF LockSecond, Goto, Progress
<1>4. Read(t) \/ Load(t) \/ UnlockFirst(t) => Moves
  BY <1>1 DEF Read, Load, UnlockFirst, Goto, Progress
<1>5. Write(t) => Moves
  BY <1>1 DEF Write, Advance, Goto, Progress, Index
<1>6. fetch_and_add(t) /\ k[t] + 1 < VECTOR_SIZE => Moves
  BY <1>1 DEF fetch_and_add, Advance, Goto, Progress, Index
<1>7. fetch_and_add(t) /\ ~(k[t] + 1 < VECTOR_SIZE) => Ends
  BY <1>1 DEF fetch_and_add, Advance, Goto
<1>8. UnlockSecond(t) => Ends
  BY <1>1 DEF UnlockSecond, Goto
<1>9. Moves \/ Ends
  BY <1>2, <1>3, <1>4, <1>5, <1>6, <1>7, <1>8 DEF worker
<1>10. Left(t)' < Left(t)
  BY <1>9, GetsOn
<1>11. ASSUME NEW u \in Thread \ {t} PROVE Left(u)' = Left(u)
  <2>1. pc'[u] = pc[u] /\ i'[u] = i[u] /\ k'[u] = k[u]
    BY <1>1 DEF worker, LockGlobal, LockFirst, LockSecond, UnlockGlobal, TryFails, BackOff,
                Read, Write, Load, fetch_and_add, UnlockFirst, UnlockSecond, Goto, Advance
  <2> QED BY <2>1 DEF Left, Progress, CallLength
<1> QED BY <1>10, <1>11

LEMMA ThreadsFinite == IsFiniteSet(Thread) /\ Cardinality(Thread) \in Nat
BY VectorArgsAssumption, FS_Interval, FS_CardinalityType DEF Thread

\* With that the work of all threads goes down.
LEMMA StepWork ==
  ASSUME IInv, IInv', NEW t \in Thread, worker(t), ~BackOff(t)
  PROVE  Work' < Work
<1> DEFINE g == [u \in Thread |-> Left(u)']
<1>1. LeftOf \in [Thread -> Int]
  BY LeftType DEF LeftNatural, LeftOf
<1>2. LeftNatural'
  BY LeftType, PTL
<1>3. \A u \in Thread : Left(u)' \in Int
  BY <1>2 DEF LeftNatural, Thread
<1>4. /\ g \in [Thread -> Int] /\ g[t] < LeftOf[t]
      /\ \A u \in Thread \ {t} : LeftOf[u] = g[u]
  BY <1>3, StepLeft DEF IInv, LeftOf
<1>5. Work' = SumOf(g, Thread)
  BY DEF Work, LeftOf, Thread
<1> HIDE DEF g
<1>6. Work' = Work + (g[t] - LeftOf[t]) /\ Work \in Int
  BY <1>1, <1>4, <1>5, ThreadsFinite, SumOfDiffer, SumOfType DEF Work
<1>7. g[t] \in Int /\ LeftOf[t] \in Int
  BY <1>1, <1>4
<1> QED BY <1>4, <1>6, <1>7

LEMMA WorkType == IInv => Work \in Nat
<1> SUFFICES ASSUME IInv PROVE Work \in Nat
  OBVIOUS
<1>1. LeftOf \in [Thread -> Int] /\ \A t \in Thread : LeftOf[t] >= 0
  BY LeftType DEF LeftNatural, LeftOf
<1>2. PICK h : Sums(LeftOf, Thread, h) /\ SumOf(LeftOf, Thread) = h[Thread]
  BY ThreadsFinite, SumOfSums
<1>3. h[Thread] >= Cardinality(Thread) * 0
  BY <1>1, <1>2, ThreadsFinite, SumsBound
<1>4. SumOf(LeftOf, Thread) \in Int
  BY <1>1, ThreadsFinite, SumOfType
<1> QED BY <1>2, <1>3, <1>4, ThreadsFinite DEF Work

\* The work that is left is a natural number, and every step of a thread brings
\* it down, except the back-off of vector-try-wait.c.  So nothing but backing
\* off can keep these programs busy for ever; by NeverDeadlocks they do not wait
\* for ever either, the invitation to deadlock excepted.
THEOREM WorkGoesDown ==
  Spec => /\ [](Work \in Nat)
          /\ [][\/ Work' < Work
                \/ opt.program = "try-wait" /\ \E t \in Thread : BackOff(t)]_vars
<1>1. Init => IInv
  BY InitInv
<1>2. IInv /\ [Next]_vars => IInv'
  BY StepInv
<1>3. IInv => Work \in Nat
  BY WorkType
<1>4. IInv => \A t \in Thread : BackOff(t) => opt.program = "try-wait"
  BY DEF IInv, Labels, BackOff, Goto
<1>5. IInv /\ IInv' /\ [Next]_vars =>
        [\/ Work' < Work
         \/ opt.program = "try-wait" /\ \E t \in Thread : BackOff(t)]_vars
  BY <1>4, StepWork DEF Next
<1> QED BY <1>1, <1>2, <1>3, <1>5, PTL DEF Spec
=============================================================================
