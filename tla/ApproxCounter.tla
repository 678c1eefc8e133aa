---------------------------- MODULE ApproxCounter ----------------------------
(***************************************************************************)
(* concurrency/threads-locks/apprxcntr.c: update() adds to the count of    *)
(* the caller's CPU and moves that count to the global one when it reaches *)
(* the threshold; get() returns the global count.  Each thread calls       *)
(* update() Updates times, with any amount of Amounts; readers call get(). *)
(***************************************************************************)
EXTENDS Integers, FiniteSetsExt

CONSTANTS
  Threads,     \* the ids of the threads that call update(): a set of naturals
  Getters,     \* the threads that call get()
  NUMCPUS, threshold,
  Amounts,     \* "assumes amt>0"
  Updates      \* bound: calls of update() per thread

Cpu == 0 .. NUMCPUS - 1
cpu(t) == t % NUMCPUS

VARIABLES
  global, glock,    \* the global count and who holds its lock
  local, llock,     \* the count of each CPU and who holds its lock
  pc, amt,          \* of each thread: where it is, the amount it adds
  calls,            \* bound: calls of update() each thread has begun
  val,              \* what each getter read last
  added             \* history: the sum of all amounts added to a local count

vars == <<global, glock, local, llock, pc, amt, calls, val, added>>

init ==
  /\ global = 0 /\ glock = {}
  /\ local = [c \in Cpu |-> 0] /\ llock = [c \in Cpu |-> {}]
  /\ pc = [t \in Threads \cup Getters |-> "idle"]
  /\ amt = [t \in Threads |-> 0]
  /\ calls = [t \in Threads |-> 0]
  /\ val = [g \in Getters |-> 0]
  /\ added = 0

Goto(t, from, to) == pc[t] = from /\ pc' = [pc EXCEPT ![t] = to]

-----------------------------------------------------------------------------
(* update().                                                               *)

LockLocal(t) ==
  /\ Goto(t, "idle", "add")
  /\ calls[t] < Updates /\ calls' = [calls EXCEPT ![t] = @ + 1]
  /\ \E a \in Amounts : amt' = [amt EXCEPT ![t] = a]
  /\ llock[cpu(t)] = {} /\ llock' = [llock EXCEPT ![cpu(t)] = {t}]
  /\ UNCHANGED <<global, glock, local, val, added>>

\* The count has risen to the threshold.
Full_exact(n) == n = threshold
Full(n) == n >= threshold

Add(t) ==
  /\ Goto(t, "add", IF Full(local[cpu(t)] + amt[t]) THEN "lock_global" ELSE "unlock_local")
  /\ local' = [local EXCEPT ![cpu(t)] = @ + amt[t]]
  /\ added' = added + amt[t]
  /\ UNCHANGED <<global, glock, llock, amt, calls, val>>

LockGlobal(t) ==
  /\ Goto(t, "lock_global", "transfer")
  /\ glock = {} /\ glock' = {t}
  /\ UNCHANGED <<global, local, llock, amt, calls, val, added>>

Transfer_assign(t) ==
  /\ Goto(t, "transfer", "unlock_global")
  /\ global' = local[cpu(t)]
  /\ UNCHANGED <<glock, local, llock, amt, calls, val, added>>
Transfer(t) ==
  /\ Goto(t, "transfer", "unlock_global")
  /\ global' = global + local[cpu(t)]
  /\ UNCHANGED <<glock, local, llock, amt, calls, val, added>>

UnlockGlobal(t) ==
  /\ Goto(t, "unlock_global", "reset")
  /\ glock' = {}
  /\ UNCHANGED <<global, local, llock, amt, calls, val, added>>

Reset_missing(t) ==
  /\ Goto(t, "reset", "unlock_local")
  /\ UNCHANGED <<global, glock, local, llock, amt, calls, val, added>>
Reset(t) ==
  /\ Goto(t, "reset", "unlock_local")
  /\ local' = [local EXCEPT ![cpu(t)] = 0]
  /\ UNCHANGED <<global, glock, llock, amt, calls, val, added>>

UnlockLocal(t) ==
  /\ Goto(t, "unlock_local", "idle")
  /\ llock' = [llock EXCEPT ![cpu(t)] = {}]
  /\ UNCHANGED <<global, glock, local, amt, calls, val, added>>

update(t) ==
  \/ LockLocal(t) \/ Add(t) \/ LockGlobal(t) \/ Transfer(t)
  \/ UnlockGlobal(t) \/ Reset(t) \/ UnlockLocal(t)

-----------------------------------------------------------------------------
(* get().                                                                  *)

GetLock(g) ==
  /\ Goto(g, "idle", "get")
  /\ glock = {} /\ glock' = {g}
  /\ UNCHANGED <<global, local, llock, amt, calls, val, added>>

GetGlobal(g) ==
  /\ Goto(g, "get", "return")
  /\ val' = [val EXCEPT ![g] = global]
  /\ UNCHANGED <<global, glock, local, llock, amt, calls, added>>

GetUnlock(g) ==
  /\ Goto(g, "return", "idle")
  /\ glock' = {}
  /\ UNCHANGED <<global, local, llock, amt, calls, val, added>>

get(g) == GetLock(g) \/ GetGlobal(g) \/ GetUnlock(g)

Next ==
  \/ \E t \in Threads : update(t)
  \/ \E g \in Getters : get(g)

Spec == init /\ [][Next]_vars

-----------------------------------------------------------------------------
(* Properties.                                                             *)

\* What the count of CPU c holds that the global count does not: nothing
\* between the transfer and the reset.
Pending(c) ==
  IF \E t \in Threads : cpu(t) = c /\ pc[t] \in {"unlock_global", "reset"} THEN 0 ELSE local[c]

\* Every amount that was added is in the global count or in one local count,
\* and in one only.
NothingLost == added = global + MapThenSumSet(Pending, Cpu)

\* The threads whose call has raised a count to the threshold and has yet to
\* transfer it.
Transferring == {t \in Threads : pc[t] \in {"lock_global", "transfer"}}

\* At any time get() lags behind by less than threshold for every CPU, and by
\* the amounts of the calls that are about to transfer their count.
BoundedLag ==
  added - global <= NUMCPUS * (threshold - 1) + MapThenSumSet(LAMBDA t : amt[t], Transferring)

\* What a caller of get() sees never shrinks and never exceeds what was added.
GetMonotonic == [][\A g \in Getters : val'[g] >= val[g] /\ val'[g] <= added']_vars
=============================================================================
