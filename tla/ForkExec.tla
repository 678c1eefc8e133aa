------------------------------ MODULE ForkExec ------------------------------
(***************************************************************************)
(* The exercises of process_api that fork, exec and wait, and indexpath()  *)
(* of process-shell.  Each program is the list of its calls; the actions   *)
(* are the calls, with what the kernel and stdio do in them: a child has a *)
(* copy of what the parent has printed but not flushed and shares its open *)
(* files, an exec drops the unflushed output.                              *)
(***************************************************************************)
EXTENDS Integers, Sequences

CONSTANTS
  Programs,   \* the programs of which a behaviour runs one
  PATHLEN,    \* directories in indexpath()
  MaxProc     \* bound: processes of a behaviour

VARIABLES
  program, tty,   \* tty: stdout is a terminal
  todo,           \* the calls each process has still to make
  state,          \* of each process
  parent,         \* of each process
  buffer,         \* what stdio has not written yet
  fd,             \* what descriptor 1 refers to: <<file, offset>>
  offset,         \* of each opening of a file
  content,        \* lines of each file
  written         \* how many lines were written to each file

vars == <<program, tty, todo, state, parent, buffer, fd, offset, content, written>>

Proc == 1 .. MaxProc
first == 1   \* the process that is started
File == {"stdout", "output", "closed"}   \* closed: none, its content is nowhere

print_any(lines) == [call |-> "print", lines |-> lines]
printf(line) == print_any({line})
Exec(prog)  == [call |-> "exec", prog |-> prog]
Open(file)  == [call |-> "open", file |-> file]
Wait        == [call |-> "wait"]
ForkOr(c, p, f) == [call |-> "fork", child |-> c, parent |-> p, failed |-> f]
Fork(c, p)  == ForkOr(c, p, <<>>)   \* a message on stderr and exit(1)

callingfork == <<Fork(<<printf("child")>>, <<printf("parent")>>)>>

callingforkandwait ==
  <<printf("hello world"), Fork(<<printf("child")>>, <<Wait, printf("parent")>>)>>

\* In the child rc is 0 and never initpid + 1; in the parent it is, if nobody
\* else started a process in between.
callfork2 ==
  LET rc_initpid == <<printf("rc"), printf("initpid")>>
  IN  <<ForkOr(rc_initpid \o <<printf("parent")>>,
               rc_initpid \o <<print_any({"child", "parent"})>>, rc_initpid)>>

callexec ==
  <<printf("hello world"),
    Fork(<<printf("child"), Exec("wc"), printf("unreachable")>>, <<Wait, printf("parent")>>)>>

redirection ==
  <<Fork(<<Open("output"), Exec("wc"), printf("unreachable")>>, <<Wait>>)>>

fkfile ==
  <<Open("output"), Fork(<<Exec("wc"), printf("unreachable")>>, <<Exec("ls")>>)>>

\* A child whose exec fails stays in the loop and forks on its own.
indexpath[n \in 0 .. PATHLEN] ==
  IF n = 0 THEN <<>>
  ELSE <<Fork(<<Exec("ls")>> \o indexpath[n - 1],
              <<Wait, printf("parent")>> \o indexpath[n - 1])>>

Script == [callingfork |-> callingfork, callingforkandwait |-> callingforkandwait,
           callfork2 |-> callfork2, callexec |-> callexec, redirection |-> redirection, fkfile |-> fkfile,
           indexpath |-> indexpath[PATHLEN]]

Init ==
  /\ program \in Programs /\ tty \in BOOLEAN
  /\ todo = [p \in Proc |-> IF p = first THEN Script[program] ELSE <<>>]
  /\ state = [p \in Proc |-> IF p = first THEN "running" ELSE "none"]
  /\ parent = [p \in Proc |-> 0]
  /\ buffer = [p \in Proc |-> <<>>]
  /\ fd = [p \in Proc |-> <<"stdout", first>>]
  /\ offset = [f \in File |-> [p \in Proc |-> 0]]
  /\ content = [f \in File |-> <<>>]
  /\ written = [f \in File |-> 0]

Call(p) == IF todo[p] = <<>> THEN [call |-> "exit"] ELSE Head(todo[p])
At(p, call) == state[p] = "running" /\ Call(p).call = call
Return(p) == todo' = [todo EXCEPT ![p] = Tail(@)]

\* write(): the lines go to the offset, over what is there, and move it.
WriteLines(p, lines) ==
  LET f == fd[p][1]  o == offset[f][fd[p][2]]
  IN  /\ content' = [content EXCEPT ![f] =
                       [n \in 1 .. (IF o + Len(lines) > Len(@) THEN o + Len(lines) ELSE Len(@)) |->
                          IF n > o /\ n <= o + Len(lines) THEN lines[n - o] ELSE @[n]]]
      /\ offset' = [offset EXCEPT ![f][fd[p][2]] = o + Len(lines)]
      /\ written' = [written EXCEPT ![f] = @ + Len(lines)]

-----------------------------------------------------------------------------

\* printf(): a terminal gets each line at once.
Printf(p) ==
  /\ At(p, "print") /\ Return(p)
  /\ \E line \in Call(p).lines :
       IF tty /\ fd[p][1] = "stdout"
       THEN WriteLines(p, <<line>>) /\ UNCHANGED buffer
       ELSE /\ buffer' = [buffer EXCEPT ![p] = Append(@, line)]
            /\ UNCHANGED <<offset, content, written>>
  /\ UNCHANGED <<program, tty, state, parent, fd>>

\* close(STDOUT_FILENO) and open(): a new, empty file with an offset of its
\* own takes the place of descriptor 1.  The result is not looked at: where
\* open() fails the descriptor stays closed, and what is written to it is lost.
Redirect(p) ==
  /\ At(p, "open") /\ Return(p)
  /\ \E f \in {Call(p).file, "closed"} :
       /\ fd' = [fd EXCEPT ![p] = <<f, p>>]
       /\ offset' = [offset EXCEPT ![f][p] = 0]
       /\ content' = [content EXCEPT ![f] = <<>>]
  /\ UNCHANGED <<program, tty, state, parent, buffer, written>>

\* What a child's descriptor 1 refers to.
Inherited_reopened(p, c) == <<fd[p][1], c>>
Inherited(p, c) == fd[p]

ForkChild(p) ==
  /\ At(p, "fork")
  /\ \E c \in Proc :
       /\ state[c] = "none" /\ \A d \in Proc : d < c => state[d] # "none"
       /\ state' = [state EXCEPT ![c] = "running"]
       /\ parent' = [parent EXCEPT ![c] = p]
       /\ buffer' = [buffer EXCEPT ![c] = buffer[p]]
       /\ fd' = [fd EXCEPT ![c] = Inherited(p, c)]
       /\ todo' = [todo EXCEPT ![c] = Call(p).child, ![p] = Call(p).parent]
  /\ UNCHANGED <<program, tty, offset, content, written>>

ForkFails(p) ==
  /\ At(p, "fork") /\ todo' = [todo EXCEPT ![p] = Call(p).failed]
  /\ UNCHANGED <<program, tty, state, parent, buffer, fd, offset, content, written>>

\* A process that becomes another program, which prints its line and ends.
ExecProgram(p) ==
  /\ At(p, "exec")
  /\ todo' = [todo EXCEPT ![p] = <<printf(Call(p).prog)>>]
  /\ buffer' = [buffer EXCEPT ![p] = <<>>]
  /\ UNCHANGED <<program, tty, state, parent, fd, offset, content, written>>

ExecFails(p) ==
  /\ At(p, "exec") /\ Return(p)
  /\ UNCHANGED <<program, tty, state, parent, buffer, fd, offset, content, written>>

Children(p) == {c \in Proc : parent[c] = p /\ state[c] \in {"running", "ended"}}

\* wait() returns at once when there is no child left.
WaitChild_nohang(p) ==
  /\ At(p, "wait") /\ Return(p)
  /\ UNCHANGED <<program, tty, state, parent, buffer, fd, offset, content, written>>
WaitChild(p) ==
  /\ At(p, "wait") /\ Return(p)
  /\ \/ Children(p) = {} /\ UNCHANGED state
     \/ \E c \in Children(p) : state[c] = "ended" /\ state' = [state EXCEPT ![c] = "reaped"]
  /\ UNCHANGED <<program, tty, parent, buffer, fd, offset, content, written>>

\* The return from main() flushes stdout in one write().
Exit(p) ==
  /\ At(p, "exit")
  /\ WriteLines(p, buffer[p])
  /\ state' = [state EXCEPT ![p] = "ended"]
  /\ UNCHANGED <<program, tty, todo, parent, buffer, fd>>

Next ==
  \E p \in Proc :
    \/ Printf(p) \/ Redirect(p) \/ ForkChild(p) \/ ForkFails(p)
    \/ ExecProgram(p) \/ ExecFails(p) \/ WaitChild(p) \/ Exit(p)

Spec == Init /\ [][Next]_vars

-----------------------------------------------------------------------------
(* Properties.                                                             *)

Ended == \A p \in Proc : state[p] # "running"

\* callingforkandwait.c: "here we introduce a call to wait to make behavior
\* deterministic".  With a wait the output is the same in every interleaving
\* and depends on two things alone: whether an exec fails, and whether stdout
\* is a terminal.  On a file the greeting comes twice, for the child has a
\* copy of it unflushed, and the exec drops that copy with the child's line.
\* This holds of callexec.c, too, although its header announces the opposite
\* (see EitherNext).
Output ==
  [callingforkandwait |->
     IF tty THEN {<<"hello world", "child", "parent">>}
            ELSE {<<"hello world", "child", "hello world", "parent">>},
   callexec |->
     IF tty THEN {<<"hello world", "child", "wc", "parent">>,
                  <<"hello world", "child", "unreachable", "parent">>}
            ELSE {<<"wc", "hello world", "parent">>,
                  <<"hello world", "child", "unreachable", "hello world", "parent">>}]

WaitMakesDeterministic ==
  (Ended /\ program \in DOMAIN Output) =>
    IF state[2] = "none" THEN content["stdout"] = <<"hello world">>   \* fork failed
                         ELSE content["stdout"] \in Output[program]

\* Process p has a line to print.
Prints(p) == \E n \in 1 .. Len(todo[p]) : todo[p][n].call = "print"

\* callingfork.c and callexec.c: "here we see that a call to fork produces
\* indeterminate behavior".  While a process and its child both live and have
\* lines to print, neither waits for the other: either may be the next to print.
EitherNext ==
  program \in {"callingfork", "callexec"} =>
    \A p, c \in Proc :
      parent[c] = p /\ state[p] = "running" /\ state[c] = "running" /\ Prints(p) /\ Prints(c) =>
        ~At(p, "wait")

\* Processes that write to one file without a wait do not write over each
\* other's lines: every line written to a file is still there.
NothingOverwritten ==
  \A f \in DOMAIN content : Len(content[f]) = written[f]
=============================================================================
