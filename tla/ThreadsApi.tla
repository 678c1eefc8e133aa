----------------------------- MODULE ThreadsApi -----------------------------
(***************************************************************************)
(* The five programs of concurrency/threads-api.  Each runs two threads    *)
(* that do a short fixed sequence of calls: two workers, or a worker and   *)
(* main().  A table holds the calls and one action per kind of call        *)
(* executes them.                                                          *)
(***************************************************************************)
EXTENDS Integers, Sequences

CONSTANT Programs   \* the programs of which a behaviour runs one

VARIABLES
  program,
  calls,     \* what each thread has still to do
  owner,     \* of each mutex: a thread, or free
  asleep,    \* threads in pthread_cond_wait
  done,      \* main-signal.c and main-signal-cv.c
  balance,   \* main-race.c
  reg,       \* what each thread has read of balance
  printed    \* the lines on stdout

vars == <<program, calls, owner, asleep, done, balance, reg, printed>>

Thread == {0, 1}   \* the argument of the worker; main() is 1 where it works itself
free == -1

Lock(m) == <<"lock", m>>
Unlock(m) == <<"unlock", m>>
printf(s) == <<"print", s>>

deadlock ==
  [t \in Thread |-> (IF t = 0 THEN <<Lock("m1"), Lock("m2")>> ELSE <<Lock("m2"), Lock("m1")>>)
                    \o <<Unlock("m1"), Unlock("m2")>>]
deadlock_global == [t \in Thread |-> <<Lock("g")>> \o deadlock[t] \o <<Unlock("g")>>]
race == [t \in Thread |-> <<Lock("lock"), <<"load">>, <<"store">>, Unlock("lock")>>]
signal ==
  [t \in Thread |-> IF t = 0 THEN <<printf("first"), <<"set">> >> ELSE <<<<"poll">>, printf("last")>>]
signal_done == <<Lock("lock"), <<"set">>, <<"signal">>, Unlock("lock")>>
signal_wait == <<Lock("lock"), <<"wait">>, Unlock("lock")>>
signal_cv ==
  [t \in Thread |-> IF t = 0 THEN <<printf("first")>> \o signal_done
                             ELSE signal_wait \o <<printf("last")>>]

Script == [deadlock |-> deadlock, deadlock_global |-> deadlock_global, race |-> race,
           signal |-> signal, signal_cv |-> signal_cv]

Init ==
  /\ program \in Programs
  /\ calls = Script[program]
  /\ owner = [m \in {"g", "m1", "m2", "lock"} |-> free]
  /\ asleep = {} /\ done = 0 /\ balance = 0
  /\ reg = [t \in Thread |-> 0]
  /\ printed = <<>>

\* main() of the two signal programs returns without a join, and with it the
\* process ends, the worker included.
Exited == program \in {"signal", "signal_cv"} /\ calls[1] = <<>>

\* Thread t is about to make a call of this kind, and makes it.
At(t, kind) == ~Exited /\ calls[t] # <<>> /\ calls[t][1][1] = kind
Return(t) == calls' = [calls EXCEPT ![t] = Tail(@)]
Call(t, kind) == At(t, kind) /\ Return(t)
Operand(t) == calls[t][1][2]

-----------------------------------------------------------------------------

Mutex_lock(t) ==
  /\ Call(t, "lock")
  /\ owner[Operand(t)] = free
  /\ owner' = [owner EXCEPT ![Operand(t)] = t]
  /\ UNCHANGED <<program, asleep, done, balance, reg, printed>>
Mutex_unlock(t) ==
  /\ Call(t, "unlock")
  /\ owner' = [owner EXCEPT ![Operand(t)] = free]
  /\ UNCHANGED <<program, asleep, done, balance, reg, printed>>

\* The two halves of balance++.
Increment(t) ==
  /\ \/ /\ Call(t, "load")
        /\ reg' = [reg EXCEPT ![t] = balance]
        /\ UNCHANGED balance
     \/ /\ Call(t, "store")
        /\ balance' = reg[t] + 1
        /\ UNCHANGED reg
  /\ UNCHANGED <<program, owner, asleep, done, printed>>

\* The build has no optimisation (Makefile): done is read in every round.
SetDone(t) ==
  /\ Call(t, "set")
  /\ done' = 1
  /\ UNCHANGED <<program, owner, asleep, balance, reg, printed>>

Poll(t) ==
  /\ Call(t, "poll")
  /\ done = 1
  /\ UNCHANGED <<program, owner, asleep, done, balance, reg, printed>>

Printf(t) ==
  /\ Call(t, "print")
  /\ printed' = Append(printed, Operand(t))
  /\ UNCHANGED <<program, owner, asleep, done, balance, reg>>

\* pthread_cond_signal: main() is the only one to wait.
Cond_signal(t) ==
  /\ Call(t, "signal")
  /\ asleep' = {}
  /\ UNCHANGED <<program, owner, done, balance, reg, printed>>

\* The loop around pthread_cond_wait: the test with the mutex held, and the
\* mutex taken again after a wake-up.
TestDone(t) ==
  /\ At(t, "wait") /\ owner["lock"] = t
  /\ IF done = 0
     THEN /\ owner' = [owner EXCEPT !["lock"] = free]
          /\ asleep' = asleep \cup {t}
          /\ UNCHANGED calls
     ELSE Return(t) /\ UNCHANGED <<owner, asleep>>
  /\ UNCHANGED <<program, done, balance, reg, printed>>

Relock(t) ==
  /\ At(t, "wait") /\ owner["lock"] = free /\ t \notin asleep
  /\ owner' = [owner EXCEPT !["lock"] = t]
  /\ UNCHANGED <<program, calls, asleep, done, balance, reg, printed>>

SpuriousWakeup(t) ==
  /\ t \in asleep /\ ~Exited
  /\ asleep' = asleep \ {t}
  /\ UNCHANGED <<program, calls, owner, done, balance, reg, printed>>

worker(t) ==
  \/ Mutex_lock(t) \/ Mutex_unlock(t) \/ Increment(t) \/ SetDone(t) \/ Poll(t)
  \/ Printf(t) \/ Cond_signal(t) \/ TestDone(t) \/ Relock(t)

Next == \E t \in Thread : worker(t) \/ SpuriousWakeup(t)

Spec == Init /\ [][Next]_vars

-----------------------------------------------------------------------------
(* Properties.                                                             *)

\* t can make no step; a spurious wake-up does not count as one.
Blocked(t) ==
  \/ calls[t] = <<>> \/ Exited \/ t \in asleep
  \/ At(t, "lock") /\ owner[Operand(t)] # free
  \/ At(t, "poll") /\ done = 0
  \/ At(t, "wait") /\ owner["lock"] \notin {t, free}

\* A program comes to a stop only when its work is done: main-race.c has
\* counted both increments, since it is not the race its comments and the README
\* say it is (see UnprotectedAccess), the worker of the signal programs has printed
\* first.  Only main-deadlock.c can stop short, and only with each thread
\* holding the mutex the other one waits for.
StopsOnlyWhenDone ==
  (\A t \in Thread : Blocked(t)) =>
    CASE program = "race" -> calls = [t \in Thread |-> <<>>] /\ balance = 2
      [] program \in {"signal", "signal_cv"} -> Exited /\ printed = <<"first", "last">>
      [] program = "deadlock_global" -> calls = [t \in Thread |-> <<>>]
      [] program = "deadlock" ->
           calls = [t \in Thread |-> <<>>] \/ (owner["m1"] = 0 /\ owner["m2"] = 1)

\* main-race.c: "balance++; // unprotected access", in both threads, and README:
\* "A simple race condition".  While one thread is between the read and the
\* write of balance++, nothing keeps the other one from going on to its own.
UnprotectedAccess ==
  program = "race" =>
    \A t, u \in Thread : t # u /\ At(t, "store") /\ calls[u] # <<>> => ~Blocked(u)
=============================================================================
