------------------------------ MODULE MCTexts ------------------------------
(***************************************************************************)
(* Model checking of three programs that do not do what their own texts    *)
(* say: threads-api/main-race.c, process_api/callexec and                  *)
(* process_api/callexec2.  They share nothing and run side by side, so     *)
(* that one state can show all three.                                      *)
(***************************************************************************)
EXTENDS Integers, Sequences

CONSTANTS
  MaxProc,                                      \* callexec.c
  MAXLINES, numvals, Values, luckynum           \* callexec2.c

VARIABLES
  program, calls, owner, asleep, done, balance, reg, printed,
  exercise, tty, todo, state, parent, buffer, fd, offset, content, written,
  file, child, pc, asks, intptr, found

Api    == INSTANCE ThreadsApi WITH Programs <- {"race"}
Fork   == INSTANCE ForkExec WITH program <- exercise, Programs <- {"callexec"}, PATHLEN <- 0
Search == INSTANCE NumSearch WITH Libraries <- {"greater"}

api    == <<program, calls, owner, asleep, done, balance, reg, printed>>
fork   == <<exercise, tty, todo, state, parent, buffer, fd, offset, content, written>>
search == <<file, child, pc, asks, intptr, found>>

Spec ==
  /\ Api!Init /\ Fork!Init /\ Search!Init
  /\ [][\/ Api!Next /\ UNCHANGED <<fork, search>>
        \/ Fork!Next /\ UNCHANGED <<api, search>>
        \/ Search!Next /\ UNCHANGED <<api, fork>>]_<<api, fork, search>>

-----------------------------------------------------------------------------
\* At any time at least one of three texts is right: the two increments of
\* main-race.c are an "unprotected access", the fork of callexec.c "produces
\* indeterminate behavior", and the parent of callexec2.c "checks that the set
\* contains a specific number".  A state that violates it refutes each of them.
SomeTextIsRight ==
  Api!UnprotectedAccess \/ Fork!EitherNext \/ Search!WholeSetSearched
=============================================================================
