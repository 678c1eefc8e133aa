------------------------------ MODULE CntxtSw ------------------------------
(***************************************************************************)
(* directexec/cntxtsw/cntxtsw.c: two processes send each other a message   *)
(* through two pipes, round after round.  Either process may be killed     *)
(* from outside at any time; what the other one then sees of it depends on *)
(* the ends of the pipes that are still open.                              *)
(***************************************************************************)
EXTENDS Integers

CONSTANT num_syscalls   \* rounds

VARIABLES
  alive,   \* the processes that run
  open,    \* open ends: <<process, pipe, "r" or "w">>
  pipe,    \* how many messages are in each pipe; all are alike
  ip,      \* the call of the round each process is at
  i        \* its round

vars == <<alive, open, pipe, ip, i>>

Process == {"parent", "child"}

\* The calls of one round.
Round ==
  [parent |-> <<<<"close", 1, "r">>, <<"close", 2, "w">>, <<"write", 1>>, <<"read", 2>> >>,
   child  |-> <<<<"close", 1, "w">>, <<"close", 2, "r">>, <<"read", 1>>, <<"write", 2>> >>]

\* Before main() has made the pipes and forked.
Init ==
  /\ alive = {"parent"} /\ open = {} /\ pipe = [n \in {1, 2} |-> 0]
  /\ ip = [p \in Process |-> 0] /\ i = [p \in Process |-> 0]

\* pipe(), pipe() and fork(): one that fails ends the program; after them both
\* processes have all four ends open.
Setup ==
  /\ alive = {"parent"} /\ ip["parent"] = 0
  /\ \/ alive' = {} /\ UNCHANGED <<open, ip>>
     \/ /\ alive' = Process
        /\ open' = Process \X {1, 2} \X {"r", "w"}
        /\ ip' = [p \in Process |-> 1]
  /\ UNCHANGED <<pipe, i>>

\* The end of a process closes what it has open.
Without(p) == {e \in open : e[1] # p}
Die(p) ==
  /\ alive' = alive \ {p} /\ open' = Without(p)
  /\ UNCHANGED <<pipe, ip, i>>

HasEnd(n, side) == \E p \in Process : <<p, n, side>> \in open
At(p, call) == p \in alive /\ ip[p] > 0 /\ Round[p][ip[p]][1] = call
Pipe(p) == Round[p][ip[p]][2]

\* The loop goes on; after its last round the process returns from main().
Advance(p) ==
  IF ip[p] < 4
  THEN ip' = [ip EXCEPT ![p] = @ + 1] /\ UNCHANGED <<i, alive>>
  ELSE /\ ip' = [ip EXCEPT ![p] = 1] /\ i' = [i EXCEPT ![p] = @ + 1]
       /\ alive' = IF i[p] + 1 = num_syscalls THEN alive \ {p} ELSE alive

\* What p leaves open after its next step.
StillOpen(p) == IF p \in alive' THEN open ELSE Without(p)

\* What a close() of p leaves open.
Closed_none(p) == open
Closed(p) == open \ {<<p, Pipe(p), Round[p][ip[p]][3]>>}

\* From the second round on the end is closed already and close() fails.
Close(p) ==
  /\ At(p, "close") /\ Advance(p)
  /\ open' = Closed(p)
  /\ UNCHANGED pipe

\* A write that nobody can read raises SIGPIPE, which kills the process.
Write(p) ==
  /\ At(p, "write")
  /\ IF HasEnd(Pipe(p), "r")
     THEN /\ pipe' = [pipe EXCEPT ![Pipe(p)] = @ + 1]
          /\ Advance(p) /\ open' = StillOpen(p)
     ELSE Die(p)

\* A read takes one message, or returns 0 from an empty pipe that nobody can
\* write to: the program does not look at the result.
Read(p) ==
  /\ At(p, "read")
  /\ \/ pipe[Pipe(p)] > 0 /\ pipe' = [pipe EXCEPT ![Pipe(p)] = @ - 1]
     \/ pipe[Pipe(p)] = 0 /\ ~HasEnd(Pipe(p), "w") /\ UNCHANGED pipe
  /\ Advance(p) /\ open' = StillOpen(p)

Kill(p) == p \in alive /\ ip[p] > 0 /\ Die(p)

Next ==
  \/ Setup
  \/ \E p \in Process : Close(p) \/ Write(p) \/ Read(p) \/ Kill(p)

Spec == Init /\ [][Next]_vars

-----------------------------------------------------------------------------
(* Properties.                                                             *)

Waiting(p) == At(p, "read") /\ pipe[Pipe(p)] = 0 /\ HasEnd(Pipe(p), "w")

\* A process never waits for a message that nobody is left to send: when the
\* other one is killed, in whatever call of whatever round, the closed ends
\* let the read return.
NobodyWaitsInVain == alive # {} => \E p \in alive : ~Waiting(p)
=============================================================================
