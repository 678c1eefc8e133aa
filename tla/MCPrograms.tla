----------------------------- MODULE MCPrograms -----------------------------
(***************************************************************************)
(* Model checking of the programs made of processes and of the run-length  *)
(* encoder.  They share nothing: a behaviour runs one of them, its         *)
(* subject, and leaves the others as they were initialised.                *)
(***************************************************************************)
EXTENDS CntxtSw, TcpChat

CONSTANTS
  Programs, PATHLEN, MaxProc,                \* process_api, indexpath()
  MAXLINES, numvals, Values, luckynum, Libraries,   \* callexec2
  Letters, MaxLength, MaxFiles               \* wzip.c

VARIABLES
  subject,
  program, tty, todo, state, parent, buffer, fd, offset, content, written,
  file, child, pc, asks, intptr, found,
  files, fileno, pos, token, lstch, out, rc

Fork   == INSTANCE ForkExec
Search == INSTANCE NumSearch
Zip    == INSTANCE Wzip WITH i <- fileno

pipes  == vars
fork   == <<program, tty, todo, state, parent, buffer, fd, offset, content, written>>
search == <<file, child, pc, asks, intptr, found>>
zip    == <<files, fileno, pos, token, lstch, out, rc>>

\* The choices of a program are made only where it is the subject.
MCInit ==
  /\ subject \in {"pipes", "chat", "fork", "search", "zip"}
  /\ Init /\ ChatInit /\ Fork!Init /\ Search!Init /\ Zip!Init
  /\ subject # "fork" => program = "callexec" /\ tty
  /\ subject # "search" => file = Search!absent /\ asks = "greater"
  /\ subject # "zip" => files = <<>>

MCNext ==
  \/ subject = "pipes" /\ Next /\ UNCHANGED <<subject, chat, fork, search, zip>>
  \/ subject = "chat" /\ ChatNext /\ UNCHANGED <<subject, pipes, fork, search, zip>>
  \/ subject = "fork" /\ Fork!Next /\ UNCHANGED <<subject, pipes, chat, search, zip>>
  \/ subject = "search" /\ Search!Next /\ UNCHANGED <<subject, pipes, chat, fork, zip>>
  \/ subject = "zip" /\ Zip!Next /\ UNCHANGED <<subject, pipes, chat, fork, search>>

MCSpec == MCInit /\ [][MCNext]_<<subject, pipes, chat, fork, search, zip>>

-----------------------------------------------------------------------------
(* The properties of the parts, stated and commented there.  Those of   *)
(* CntxtSw and TcpChat keep their names.                                   *)

\* process_api: with a wait the output is the same in every interleaving.
WaitMakesDeterministic == Fork!WaitMakesDeterministic
\* process_api: no process writes over the output of another.
NothingOverwritten == Fork!NothingOverwritten
\* callexec2: the report is true of what the parent has read.
ReportTrue == Search!ReportTrue
\* wzip.c: what unzips is what was read.
FirstFileExact == Zip!FirstFileExact
=============================================================================
