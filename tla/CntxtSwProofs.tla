---------------------------- MODULE CntxtSwProofs ----------------------------
(***************************************************************************)
(* cntxtsw.c for any number of rounds: no process waits for a message that *)
(* nobody is left to send.                                                 *)
(***************************************************************************)
EXTENDS CntxtSw, TLAPS

End == Process \X {1, 2} \X {"r", "w"}

TypeOK ==
  /\ alive \in SUBSET Process
  /\ open \in SUBSET End
  /\ pipe \in [{1, 2} -> Nat]
  /\ ip \in [Process -> 0 .. 4]
  /\ i \in [Process -> Nat]

\* Before main() has forked.
Fresh ==
  ip["parent"] = 0 =>
    /\ alive \in SUBSET {"parent"} /\ open = {}
    /\ pipe = [n \in {1, 2} |-> 0] /\ i = [p \in Process |-> 0]

\* A dead process has no end open; a living one has the two it uses.
OpenByLiving == \A e \in open : e[1] \in alive
Uses ==
  [parent |-> {<<"parent", 1, "w">>, <<"parent", 2, "r">>},
   child  |-> {<<"child", 1, "r">>, <<"child", 2, "w">>}]
UsedOpen == \A p \in alive : ip[p] > 0 => Uses[p] \subseteq open

\* An end that is not wanted is gone once its close() has been made.
UnusedClosed ==
  /\ ip["parent"] > 1 \/ i["parent"] > 0 => <<"parent", 1, "r">> \notin open
  /\ ip["parent"] > 2 \/ i["parent"] > 0 => <<"parent", 2, "w">> \notin open
  /\ ip["child"] > 1 \/ i["child"] > 0 => <<"child", 1, "w">> \notin open
  /\ ip["child"] > 2 \/ i["child"] > 0 => <<"child", 2, "r">> \notin open

\* While both live, what is in a pipe was written and not yet read.
Past(p) == IF ip[p] = 4 THEN i[p] + 1 ELSE i[p]
Balance ==
  alive = Process =>
    /\ ip["parent"] > 0 /\ ip["child"] > 0
    /\ pipe[1] = Past("parent") - Past("child")
    /\ pipe[2] = i["child"] - i["parent"]

IInv == TypeOK /\ Fresh /\ OpenByLiving /\ UsedOpen /\ UnusedClosed /\ Balance

-----------------------------------------------------------------------------

\* The call a process is at says where in its round it is and which end of
\* which pipe the call is about.
LEMMA Calls ==
  ASSUME TypeOK, NEW p \in Process
  PROVE  /\ At(p, "close") => \/ p = "parent" /\ ip[p] = 1 /\ Closed(p) = open \ {<<p, 1, "r">>}
                              \/ p = "parent" /\ ip[p] = 2 /\ Closed(p) = open \ {<<p, 2, "w">>}
                              \/ p = "child" /\ ip[p] = 1 /\ Closed(p) = open \ {<<p, 1, "w">>}
                              \/ p = "child" /\ ip[p] = 2 /\ Closed(p) = open \ {<<p, 2, "r">>}
         /\ At(p, "write") => \/ p = "parent" /\ ip[p] = 3 /\ Pipe(p) = 1
                              \/ p = "child" /\ ip[p] = 4 /\ Pipe(p) = 2
         /\ At(p, "read") => \/ p = "parent" /\ ip[p] = 4 /\ Pipe(p) = 2
                             \/ p = "child" /\ ip[p] = 3 /\ Pipe(p) = 1
<1>1. CASE p = "parent"
  <2>1. /\ Round[p][1] = <<"close", 1, "r">> /\ Round[p][2] = <<"close", 2, "w">>
        /\ Round[p][3] = <<"write", 1>> /\ Round[p][4] = <<"read", 2>>
    BY <1>1 DEF Round
  <2>2. ip[p] > 0 => ip[p] = 1 \/ ip[p] = 2 \/ ip[p] = 3 \/ ip[p] = 4
    BY DEF TypeOK
  <2> QED BY <1>1, <2>1, <2>2 DEF At, Pipe, Closed
<1>2. CASE p = "child"
  <2>1. /\ Round[p][1] = <<"close", 1, "w">> /\ Round[p][2] = <<"close", 2, "r">>
        /\ Round[p][3] = <<"read", 1>> /\ Round[p][4] = <<"write", 2>>
    BY <1>2 DEF Round
  <2>2. ip[p] > 0 => ip[p] = 1 \/ ip[p] = 2 \/ ip[p] = 3 \/ ip[p] = 4
    BY DEF TypeOK
  <2> QED BY <1>2, <2>1, <2>2 DEF At, Pipe, Closed
<1> QED BY <1>1, <1>2 DEF Process

\* A killed process takes its ends with it; nothing is claimed about it then.
LEMMA DiePreserves ==
  ASSUME IInv, NEW p \in alive, ip[p] > 0, Die(p)
  PROVE  IInv'
<1>1. open' \in SUBSET open /\ \A e \in open : e \in open' <=> e[1] # p
  BY DEF Die, Without
<1>2. TypeOK' /\ Fresh' /\ UnusedClosed'
  BY <1>1 DEF IInv, TypeOK, Fresh, UnusedClosed, Die
<1>3. OpenByLiving'
  BY <1>1 DEF IInv, OpenByLiving, Die
<1>4. UsedOpen'
  <2> SUFFICES ASSUME NEW q \in alive', ip[q] > 0
               PROVE  Uses[q] \subseteq open'
    BY DEF UsedOpen, Die
  <2>1. q \in alive /\ q # p /\ q \in Process
    BY DEF Die, IInv, TypeOK
  <2>2. Uses[q] \subseteq open
    BY <2>1 DEF IInv, UsedOpen
  <2>3. \A e \in Uses[q] : e[1] = q
    BY <2>1 DEF Uses, Process
  <2> QED BY <1>1, <2>1, <2>2, <2>3
<1>5. Balance'
  BY DEF IInv, TypeOK, Balance, Die
<1> QED BY <1>2, <1>3, <1>4, <1>5 DEF IInv

\* A step of the loop: the process goes on, or it has ended and with it its
\* ends of the pipes, and the pipes and the other process are as they were.
LEMMA AdvanceFacts ==
  ASSUME TypeOK, NEW p \in alive, ip[p] > 0, Advance(p)
  PROVE  /\ ip' \in [Process -> 0 .. 4] /\ i' \in [Process -> Nat]
         /\ ip'[p] > 0 /\ (alive' = alive \/ alive' = alive \ {p})
         /\ ip[p] < 4 => ip'[p] = ip[p] + 1 /\ i'[p] = i[p] /\ alive' = alive
         /\ ip[p] = 4 => ip'[p] = 1 /\ i'[p] = i[p] + 1
         /\ \A q \in Process \ {p} : ip'[q] = ip[q] /\ i'[q] = i[q] /\ (q \in alive => q \in alive')
BY DEF TypeOK, Advance

\* What is still open after a step that closes nothing itself.
LEMMA StillOpenFacts ==
  ASSUME IInv, NEW p \in alive, ip[p] > 0, Advance(p), open' = StillOpen(p)
  PROVE  /\ open' \in SUBSET open /\ OpenByLiving' /\ UsedOpen'
<1>0. p \in Process /\ TypeOK
  BY DEF IInv, TypeOK
<1>1. CASE p \in alive'
  <2>1. open' = open /\ alive' = alive
    BY <1>1, <1>0, AdvanceFacts DEF StillOpen
  <2>2. \A q \in alive : ip'[q] > 0 => ip[q] > 0
    BY <1>0, AdvanceFacts DEF TypeOK
  <2> QED BY <2>1, <2>2 DEF IInv, OpenByLiving, UsedOpen
<1>2. CASE p \notin alive'
  <2>1. open' = Without(p) /\ alive' = alive \ {p}
    BY <1>2, <1>0, AdvanceFacts DEF StillOpen
  <2>2. \A e \in open : e \in open' <=> e[1] # p
    BY <2>1 DEF Without
  <2>3. OpenByLiving'
    BY <2>1 DEF IInv, OpenByLiving, Without
  <2>4. ASSUME NEW q \in alive', ip'[q] > 0 PROVE Uses[q] \subseteq open'
    <3>1. q \in alive /\ q # p /\ q \in Process /\ ip[q] > 0
      BY <2>1, <2>4, <1>0, AdvanceFacts DEF TypeOK
    <3>2. Uses[q] \subseteq open
      BY <3>1 DEF IInv, UsedOpen
    <3>3. \A e \in Uses[q] : e[1] = q
      BY <3>1 DEF Uses, Process
    <3> QED BY <2>2, <3>1, <3>2, <3>3
  <2> QED BY <2>1, <2>3, <2>4 DEF UsedOpen, Without
<1> QED BY <1>1, <1>2

-----------------------------------------------------------------------------

LEMMA InitInv == Init => IInv
BY DEF Init, IInv, TypeOK, Fresh, OpenByLiving, UsedOpen, UnusedClosed, Balance, Process

LEMMA SetupInv == IInv /\ Setup => IInv'
<1> SUFFICES ASSUME IInv, Setup PROVE IInv'
  OBVIOUS
<1>1. open = {} /\ pipe = [n \in {1, 2} |-> 0] /\ i = [p \in Process |-> 0]
  BY DEF IInv, Fresh, Setup
<1>2. CASE alive' = {} /\ UNCHANGED <<open, ip>>
  BY <1>1, <1>2 DEF IInv, TypeOK, Fresh, OpenByLiving, UsedOpen, UnusedClosed, Balance, Setup, Process
<1>3. CASE /\ alive' = Process
           /\ open' = Process \X {1, 2} \X {"r", "w"}
           /\ ip' = [p \in Process |-> 1]
  <2>1. TypeOK' /\ Fresh'
    BY <1>1, <1>3 DEF IInv, TypeOK, Fresh, Setup, End, Process
  <2>2. OpenByLiving' /\ UsedOpen'
    BY <1>3 DEF OpenByLiving, UsedOpen, Uses, Process
  <2>3. UnusedClosed' /\ Balance'
    BY <1>1, <1>3 DEF UnusedClosed, Balance, Past, Setup, Process
  <2> QED BY <2>1, <2>2, <2>3 DEF IInv
<1> QED BY <1>2, <1>3 DEF Setup

LEMMA CloseInv == ASSUME IInv, NEW p \in Process, Close(p) PROVE IInv'
<1>0. TypeOK /\ p \in alive /\ ip[p] > 0 /\ Advance(p) /\ open' = Closed(p) /\ pipe' = pipe
  BY DEF Close, At, IInv
<1>1. /\ ip[p] \in {1, 2} /\ open' \in SUBSET open /\ alive' = alive /\ i' = i
      /\ ip' = [ip EXCEPT ![p] = ip[p] + 1]
  BY <1>0, Calls DEF Close, Advance, TypeOK
<1>2. TypeOK' /\ Fresh' /\ OpenByLiving'
  BY <1>0, <1>1, AdvanceFacts DEF IInv, TypeOK, Fresh, OpenByLiving, Process
<1>3. UsedOpen'
  <2>1. \A q \in Process : \A e \in Uses[q] : e \in open => e \in open'
    BY <1>0, Calls DEF Close, Uses, Process
  <2>2. \A q \in alive : q \in Process /\ (ip'[q] > 0 => ip[q] > 0)
    BY <1>0, <1>1 DEF TypeOK
  <2> QED BY <1>1, <2>1, <2>2 DEF IInv, UsedOpen
<1>4. UnusedClosed'
  BY <1>0, <1>1, Calls DEF Close, IInv, TypeOK, UnusedClosed, Process
<1>5. Balance'
  BY <1>0, <1>1 DEF IInv, TypeOK, Balance, Past, Process
<1> QED BY <1>2, <1>3, <1>4, <1>5 DEF IInv

\* Of a process that goes on after the last call but one of its round, or that
\* starts a new round, nothing is to be closed.
LEMMA UnusedStaysClosed ==
  ASSUME IInv, NEW p \in alive, ip[p] \in {3, 4}, Advance(p), open' \in SUBSET open
  PROVE  UnusedClosed'
<1>1. TypeOK /\ p \in Process /\ ip[p] > 2
  BY DEF IInv, TypeOK
<1>2. \A q \in Process \ {p} : ip'[q] = ip[q] /\ i'[q] = i[q]
  BY <1>1, AdvanceFacts
<1> QED BY <1>1, <1>2 DEF IInv, UnusedClosed, Process

LEMMA WriteInv == ASSUME IInv, NEW p \in Process, Write(p) PROVE IInv'
<1>0. TypeOK /\ p \in alive /\ ip[p] > 0 /\ ip[p] \in {3, 4}
  BY Calls DEF Write, At, IInv
<1>1. CASE Die(p)
  BY <1>0, <1>1, DiePreserves
<1>2. CASE /\ pipe' = [pipe EXCEPT ![Pipe(p)] = @ + 1]
           /\ Advance(p) /\ open' = StillOpen(p)
  <2>1. Pipe(p) \in {1, 2}
    BY <1>0, Calls DEF Write
  <2>2. TypeOK'
    BY <1>0, <1>2, <2>1, AdvanceFacts, StillOpenFacts DEF TypeOK
  <2>3. UnusedClosed'
    BY <1>0, <1>2, StillOpenFacts, UnusedStaysClosed
  <2>4. Fresh'
    BY <1>0, <1>2, AdvanceFacts DEF IInv, Fresh, TypeOK, Process
  <2>5. Balance'
    <3> SUFFICES ASSUME alive' = Process PROVE Balance'
      BY DEF Balance
    <3>1. alive = Process /\ Balance
      BY <1>0, <1>2, AdvanceFacts DEF IInv, TypeOK
    <3>2. CASE p = "parent" /\ ip[p] = 3 /\ Pipe(p) = 1
      BY <1>0, <1>2, <3>1, <3>2, AdvanceFacts DEF TypeOK, Balance, Past, Process
    <3>3. CASE p = "child" /\ ip[p] = 4 /\ Pipe(p) = 2
      BY <1>0, <1>2, <3>1, <3>3, AdvanceFacts DEF TypeOK, Balance, Past, Process
    <3> QED BY <1>0, <3>2, <3>3, Calls DEF Write
  <2> QED BY <1>0, <1>2, <2>2, <2>3, <2>4, <2>5, StillOpenFacts DEF IInv
<1> QED BY <1>1, <1>2 DEF Write

LEMMA ReadInv == ASSUME IInv, NEW p \in Process, Read(p) PROVE IInv'
<1>0. TypeOK /\ p \in alive /\ ip[p] > 0 /\ ip[p] \in {3, 4} /\ Advance(p) /\ open' = StillOpen(p)
  BY Calls DEF Read, At, IInv
<1>1. Pipe(p) \in {1, 2}
  BY <1>0, Calls DEF Read
<1>2. TypeOK'
  BY <1>0, <1>1, AdvanceFacts, StillOpenFacts DEF TypeOK, Read
<1>3. UnusedClosed'
  BY <1>0, StillOpenFacts, UnusedStaysClosed
<1>4. Fresh'
  BY <1>0, AdvanceFacts DEF IInv, Fresh, TypeOK, Process
<1>5. Balance'
  <2>1. CASE pipe[Pipe(p)] > 0 /\ pipe' = [pipe EXCEPT ![Pipe(p)] = @ - 1]
    BY <1>0, <2>1, Calls, AdvanceFacts DEF Read, IInv, TypeOK, Balance, Past, Process
  <2>2. CASE ~HasEnd(Pipe(p), "w")
    <3>1. alive # Process
      BY <1>0, <2>2, Calls DEF Read, IInv, Balance, UsedOpen, Uses, HasEnd, Process
    <3> QED BY <1>0, <3>1, AdvanceFacts DEF Balance, TypeOK
  <2> QED BY <2>1, <2>2 DEF Read
<1> QED BY <1>0, <1>2, <1>3, <1>4, <1>5, StillOpenFacts DEF IInv

\* The inductive invariant, one lemma for each action.
LEMMA Inductive == Spec => []IInv
<1>1. IInv /\ [Next]_vars => IInv'
  <2>1. ASSUME IInv, NEW p \in Process, Kill(p) PROVE IInv'
    BY <2>1, DiePreserves DEF Kill
  <2>2. ASSUME IInv, UNCHANGED vars PROVE IInv'
    BY <2>2 DEF vars, IInv, TypeOK, Fresh, OpenByLiving, UsedOpen, UnusedClosed, Balance, Past
  <2> QED BY <2>1, <2>2, SetupInv, CloseInv, WriteInv, ReadInv DEF Next
<1> QED BY InitInv, <1>1, PTL DEF Spec

\* A process never waits for a message that nobody is left to send: the end it
\* waits for is the other one's, so the other one lives, and by Balance the
\* two cannot both have read all there is.
THEOREM NobodyWaits == Spec => []NobodyWaitsInVain
<1>1. IInv => NobodyWaitsInVain
  <2> SUFFICES ASSUME IInv, alive # {}, \A p \in alive : Waiting(p) PROVE FALSE
    BY DEF NobodyWaitsInVain
  <2>0. TypeOK /\ alive \in SUBSET Process
    BY DEF IInv, TypeOK
  <2>1. "parent" \in alive => ip["parent"] = 4 /\ pipe[2] = 0 /\ HasEnd(2, "w")
    BY <2>0, Calls DEF Waiting, Process
  <2>2. "child" \in alive => ip["child"] = 3 /\ pipe[1] = 0 /\ HasEnd(1, "w")
    BY <2>0, Calls DEF Waiting, Process
  <2>3. "parent" \in alive => "child" \in alive
    BY <2>1 DEF IInv, UnusedClosed, OpenByLiving, HasEnd, Process
  <2>4. "child" \in alive => "parent" \in alive
    BY <2>2 DEF IInv, UnusedClosed, OpenByLiving, HasEnd, Process
  <2>5. alive = Process
    BY <2>0, <2>3, <2>4 DEF Process
  <2>6. pipe[1] = i["parent"] + 1 - i["child"] /\ pipe[2] = i["child"] - i["parent"]
    <3>1. Past("parent") = i["parent"] + 1 /\ Past("child") = i["child"]
      BY <2>1, <2>2, <2>5 DEF Past, Process
    <3>2. Balance /\ i["parent"] \in Nat /\ i["child"] \in Nat
      BY <2>0 DEF IInv, TypeOK, Process
    <3> QED BY <2>5, <3>1, <3>2 DEF Balance
  <2> QED BY <2>0, <2>1, <2>2, <2>5, <2>6 DEF TypeOK, Process
<1> QED BY <1>1, Inductive, PTL
=============================================================================
