------------------------------ MODULE VectorAdd ------------------------------
(***************************************************************************)
(* worker() and the five versions of vector_add() in                       *)
(* concurrency/threads-bugs.  The four versions that use locks add an      *)
(* element in two steps, a read of both vectors and a write of the sum;    *)
(* vector-nolock.c reads the source and adds to the destination at once.   *)
(***************************************************************************)
EXTENDS VectorArgs

CONSTANT VECTOR_SIZE   \* elements of a vector

ASSUME SizeAssumption == VECTOR_SIZE \in Nat \ {0}

Index == 0 .. VECTOR_SIZE - 1

VARIABLES
  lock,      \* for each vector, the threads that hold its lock: none or one
  global,    \* likewise for the lock of vector-avoid-hold-and-wait.c
  values,    \* the elements of each vector
  pc,        \* where each thread is
  i,         \* how many calls of vector_add each thread has finished
  k,         \* the element each thread is at
  reg        \* what each thread has read

vars == <<opt, lock, global, values, pc, i, k, reg>>

\* Where vector_add() begins.
Entry ==
  CASE opt.program = "avoid-hold-and-wait" -> "global"
    [] opt.program = "nolock"              -> "load"
    [] OTHER                               -> "first"

\* main() fills vector v with v and starts the workers.
Init ==
  /\ OptInit
  /\ lock = [v \in Vector |-> {}] /\ global = {}
  /\ values = [v \in Vector |-> [x \in Index |-> v]]
  /\ pc = [t \in Thread |-> IF loops > 0 THEN Entry ELSE "done"]
  /\ i = [t \in Thread |-> 0]
  /\ k = [t \in Thread |-> 0]
  /\ reg = [t \in Thread |-> 0]

Goto(t, from, to) == pc[t] = from /\ pc' = [pc EXCEPT ![t] = to]

Acquire_held(t, v) == lock' = [lock EXCEPT ![v] = {t}]
Acquire(t, v) == lock[v] = {} /\ lock' = [lock EXCEPT ![v] = {t}]
Release(v) == lock' = [lock EXCEPT ![v] = {}]

-----------------------------------------------------------------------------
(* Taking the locks.                                                       *)

\* vector-global-order.c takes the lock at the lower address first, the others
\* that of the destination.
FirstLock_dst(t) == v_dst(t)
FirstLock(t) ==
  IF opt.program = "global-order" /\ v_src(t) < v_dst(t) THEN v_src(t) ELSE v_dst(t)
SecondLock(t) == IF FirstLock(t) = v_dst(t) THEN v_src(t) ELSE v_dst(t)

LockGlobal(t) ==
  /\ Goto(t, "global", "first")
  /\ global = {} /\ global' = {t}
  /\ UNCHANGED <<opt, lock, values, i, k, reg>>

LockFirst(t) ==
  /\ Goto(t, "first", "second")
  /\ Acquire(t, FirstLock(t))
  /\ UNCHANGED <<opt, global, values, i, k, reg>>

LockSecond(t) ==
  /\ Goto(t, "second",
          IF opt.program = "avoid-hold-and-wait" THEN "unlock_global" ELSE "read")
  /\ Acquire(t, SecondLock(t))
  /\ UNCHANGED <<opt, global, values, i, k, reg>>

UnlockGlobal(t) ==
  /\ Goto(t, "unlock_global", "read")
  /\ global' = {}
  /\ UNCHANGED <<opt, lock, values, i, k, reg>>

\* vector-try-wait.c does not wait for the second lock.
TryFails(t) ==
  /\ opt.program = "try-wait"
  /\ lock[SecondLock(t)] # {}
  /\ Goto(t, "second", "back_off")
  /\ UNCHANGED <<opt, lock, global, values, i, k, reg>>

BackOff(t) ==
  /\ Goto(t, "back_off", "first")
  /\ Release(FirstLock(t))
  /\ UNCHANGED <<opt, global, values, i, k, reg>>

-----------------------------------------------------------------------------
(* The addition.                                                           *)

\* Once the last element is done the thread goes on to label next.
Advance(t, from, again, next) ==
  /\ Goto(t, from, IF k[t] + 1 < VECTOR_SIZE THEN again ELSE next)
  /\ k' = [k EXCEPT ![t] = IF @ + 1 < VECTOR_SIZE THEN @ + 1 ELSE 0]

\* Where a worker goes when vector_add() returns.
AfterCall(t) == IF i[t] + 1 < loops THEN Entry ELSE "done"

Read(t) ==
  /\ Goto(t, "read", "write")
  /\ reg' = [reg EXCEPT ![t] = values[v_dst(t)][k[t]] + values[v_src(t)][k[t]]]
  /\ UNCHANGED <<opt, lock, global, values, i, k>>

Write(t) ==
  /\ Advance(t, "write", "read", "unlock_first")
  /\ values' = [values EXCEPT ![v_dst(t)][k[t]] = reg[t]]
  /\ UNCHANGED <<opt, lock, global, i, reg>>

Load(t) ==
  /\ Goto(t, "load", "add")
  /\ reg' = [reg EXCEPT ![t] = values[v_src(t)][k[t]]]
  /\ UNCHANGED <<opt, lock, global, values, i, k>>

fetch_and_add_xchg(t) ==
  /\ Advance(t, "add", "load", AfterCall(t))
  /\ values' = [values EXCEPT ![v_dst(t)][k[t]] = reg[t]]
  /\ i' = [i EXCEPT ![t] = IF k[t] + 1 < VECTOR_SIZE THEN @ ELSE @ + 1]
  /\ UNCHANGED <<opt, lock, global, reg>>
fetch_and_add(t) ==
  /\ Advance(t, "add", "load", AfterCall(t))
  /\ values' = [values EXCEPT ![v_dst(t)][k[t]] = @ + reg[t]]
  /\ i' = [i EXCEPT ![t] = IF k[t] + 1 < VECTOR_SIZE THEN @ ELSE @ + 1]
  /\ UNCHANGED <<opt, lock, global, reg>>

-----------------------------------------------------------------------------
(* Giving the locks back: vector-global-order.c starts with the source.    *)

FirstUnlock(t)  == IF opt.program = "global-order" THEN v_src(t) ELSE v_dst(t)
SecondUnlock(t) == IF opt.program = "global-order" THEN v_dst(t) ELSE v_src(t)

UnlockFirst(t) ==
  /\ Goto(t, "unlock_first", "unlock_second")
  /\ Release(FirstUnlock(t))
  /\ UNCHANGED <<opt, global, values, i, k, reg>>

UnlockSecond(t) ==
  /\ Goto(t, "unlock_second", AfterCall(t))
  /\ Release(SecondUnlock(t))
  /\ i' = [i EXCEPT ![t] = @ + 1]
  /\ UNCHANGED <<opt, global, values, k, reg>>

worker(t) ==
  \/ LockGlobal(t) \/ LockFirst(t) \/ LockSecond(t) \/ UnlockGlobal(t)
  \/ TryFails(t) \/ BackOff(t)
  \/ Read(t) \/ Write(t) \/ Load(t) \/ fetch_and_add(t)
  \/ UnlockFirst(t) \/ UnlockSecond(t)

Next == \E t \in Thread : worker(t)

Spec == Init /\ [][Next]_vars

\* Every thread that stays able to run is scheduled in the end.  Nothing is
\* assumed about who gets a contended lock.
FairSpec == Spec /\ \A t \in Thread : WF_vars(worker(t))

-----------------------------------------------------------------------------
(* Properties.                                                             *)

Label == {"global", "first", "second", "back_off", "unlock_global", "read", "write",
          "load", "add", "unlock_first", "unlock_second", "done"}

TypeOK ==
  /\ opt \in [program : Programs, cause_deadlock : BOOLEAN, enable_parallelism : BOOLEAN]
  /\ lock \in [Vector -> SUBSET Thread] /\ global \in SUBSET Thread
  /\ values \in [Vector -> [Index -> Int]]
  /\ pc \in [Thread -> Label]
  /\ i \in [Thread -> 0 .. loops]
  /\ k \in [Thread -> Index]
  /\ reg \in [Thread -> Int]

AllDone == \A t \in Thread : pc[t] = "done"

\* A thread that waits for a lock another thread holds.  vector-try-wait.c
\* waits for the destination, since it tries it over and over.
Blocked(t) ==
  \/ pc[t] = "done"
  \/ pc[t] = "global" /\ global # {}
  \/ pc[t] = "first"  /\ lock[FirstLock(t)] # {}
  \/ pc[t] = "second" /\ lock[SecondLock(t)] # {} /\ opt.program # "try-wait"

\* vector-deadlock.c when threads share vectors and add in both directions.
InvitesDeadlock ==
  opt.program = "deadlock" /\ opt.cause_deadlock /\ ~opt.enable_parallelism

\* Only an invitation to deadlock, in the words of the README, deadlocks.
DeadlockFree ==
  ~InvitesDeadlock => AllDone \/ \E t \in Thread : ~Blocked(t)

\* Everyone finishes, except that vector-try-wait.c with -d may back off for
\* ever.
MayBackOffForEver ==
  opt.program = "try-wait" /\ opt.cause_deadlock /\ ~opt.enable_parallelism
Termination ==
  <>(AllDone \/ InvitesDeadlock \/ MayBackOffForEver)

\* Without -d the source never changes, and at the end every call has added it
\* once to every element, with locks or without.
NoLostAdd ==
  AllDone /\ ~opt.cause_deadlock =>
    \A t \in Thread, x \in Index :
      values[v_dst(t)][x] =
        v_dst(t) + Cardinality({u \in Thread : v_dst(u) = v_dst(t)}) * loops * v_src(t)

\* With locks a vector whose lock is free has been added to as a whole.
WholeVectors ==
  opt.program # "nolock" =>
    \A v \in Vector : lock[v] = {} => \A x \in Index : values[v][x] = values[v][0]

\* A call has taken place from its write of element 0 on.
Called(t) ==
  i[t] + (IF pc[t] \in {"unlock_first", "unlock_second"} \/ k[t] > 0 THEN 1 ELSE 0)

AV == INSTANCE AtomicVectorAdd WITH
  val   <- [v \in Vector |-> values[v][0]],
  calls <- [t \in Thread |-> Called(t)]

\* vector-nolock.c when a source may change under way: "its semantics (as a
\* result) are slightly different", says the README.
NotAtomic ==
  opt.program = "nolock" /\ opt.cause_deadlock /\ ~opt.enable_parallelism

\* In all other cases the element-wise additions are as good as atomic ones:
\* every step is an addition of whole vectors or changes nothing of them.
ImplementsAtomicAdd == AV!AInit /\ [][~NotAtomic => AV!ANext]_(AV!avars)
=============================================================================
