------------------------------ MODULE Barrier ------------------------------
(***************************************************************************)
(* concurrency/threads-sema/barrier.c: each child prints "before", calls   *)
(* barrier() and prints "after".  barrier() is acquire_playlock(), a       *)
(* sleep, and release_playlock().                                          *)
(***************************************************************************)
EXTENDS Integers

CONSTANT num_threads

Thread == 1 .. num_threads

VARIABLES
  lock,       \* semaphore that guards players
  playlock,   \* the other semaphore
  players,    \* no initialisation but that of a global variable: 0
  pc          \* where each child is

vars == <<lock, playlock, players, pc>>

\* barrier_init(), and main() creates the children.
Init ==
  /\ lock = 1 /\ playlock = 1 /\ players = 0
  /\ pc = [t \in Thread |-> "before"]

Goto(t, from, to) == pc[t] = from /\ pc' = [pc EXCEPT ![t] = to]

\* sem_wait on a semaphore of value s.
Wait(s, next) == s > 0 /\ next = s - 1

PrintBefore(t) ==
  /\ Goto(t, "before", "acquire")
  /\ UNCHANGED <<lock, playlock, players>>

\* The sem_wait(&b->lock) of both functions.
WaitLock(t) ==
  /\ Goto(t, "acquire", "decrement") \/ Goto(t, "sleep", "increment")
  /\ Wait(lock, lock')
  /\ UNCHANGED <<playlock, players>>

\* In both functions a thread that sees the count it tests for waits for
\* playlock while it holds lock.
Decrement(t) ==
  /\ Goto(t, "decrement", IF players - 1 = 1 THEN "playlock_acquire" ELSE "acquired")
  /\ players' = players - 1
  /\ UNCHANGED <<lock, playlock>>

Increment(t) ==
  /\ Goto(t, "increment", IF players + 1 = 0 THEN "playlock_release" ELSE "released")
  /\ players' = players + 1
  /\ UNCHANGED <<lock, playlock>>

WaitPlaylock(t) ==
  /\ \/ Goto(t, "playlock_acquire", "acquired")
     \/ Goto(t, "playlock_release", "released")
  /\ Wait(playlock, playlock')
  /\ UNCHANGED <<lock, players>>

\* The sem_post(&b->lock) of both functions; the first is followed by
\* sleep(1), the second by the printf of "after".
PostLock(t) ==
  /\ Goto(t, "acquired", "sleep") \/ Goto(t, "released", "print_after")
  /\ lock' = lock + 1
  /\ UNCHANGED <<playlock, players>>

PrintAfter(t) ==
  /\ Goto(t, "print_after", "after")
  /\ UNCHANGED <<lock, playlock, players>>

child(t) ==
  \/ PrintBefore(t) \/ WaitLock(t) \/ Decrement(t) \/ Increment(t)
  \/ WaitPlaylock(t) \/ PostLock(t) \/ PrintAfter(t)

Next == \E t \in Thread : child(t)

Spec == Init /\ [][Next]_vars

-----------------------------------------------------------------------------
(* Property.                                                               *)

\* "If done correctly, each child should print their "before" message before
\* either prints their "after" message."
BeforeBeforeAfter ==
  (\E t \in Thread : pc[t] = "after") => \A t \in Thread : pc[t] # "before"
=============================================================================
