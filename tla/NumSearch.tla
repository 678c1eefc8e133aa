----------------------------- MODULE NumSearch -----------------------------
(***************************************************************************)
(* process_api/callexec2: a child runs numgen.py, which writes random      *)
(* numbers to num.out; the parent waits, reads them, sorts them and looks  *)
(* for its lucky number.                                                   *)
(***************************************************************************)
EXTENDS Integers, Sequences

CONSTANTS
  MAXLINES,   \* numbers the parent reads
  numvals,    \* numbers the child writes
  Values,     \* what it draws from
  luckynum,
  Libraries   \* C libraries: what qsort() asks of two elements, "greater" or "less"

VARIABLES
  file,     \* num.out: its numbers, or absent
  child,    \* where the child is
  pc,       \* where the parent is
  asks,     \* the library the parent is linked with
  intptr,   \* the numbers in memory
  found     \* the result of the search

vars == <<file, child, pc, asks, intptr, found>>

\* A number the child never draws stands for the missing file.
absent == <<-1>>

\* A former run may have left its file.
Init ==
  /\ file \in {absent} \cup {[n \in 1 .. numvals |-> v] : v \in Values}
  /\ child = "none" /\ pc = "fork" /\ asks \in Libraries
  /\ intptr = <<>> /\ found = -1

-----------------------------------------------------------------------------
(* The child.                                                              *)

\* A child whose exec fails ends without touching the file.
execvp ==
  /\ child = "exec"
  /\ child' \in {"open", "ended"}
  /\ UNCHANGED <<file, pc, asks, intptr, found>>

open_file ==
  /\ child = "open"
  /\ file' = <<>> /\ child' = "write"
  /\ UNCHANGED <<pc, asks, intptr, found>>

\* The library may flush after any number; close() flushes the rest.
write_number ==
  /\ child = "write" /\ Len(file) < numvals
  /\ \E anint \in Values : file' = Append(file, anint)
  /\ child' = IF Len(file) + 1 = numvals THEN "ended" ELSE "write"
  /\ UNCHANGED <<pc, asks, intptr, found>>

\* The child is killed before its file is complete.
child_killed ==
  /\ child = "write" /\ child' = "ended"
  /\ UNCHANGED <<file, pc, asks, intptr, found>>

-----------------------------------------------------------------------------
(* The parent.                                                             *)

fork ==
  /\ pc = "fork"
  /\ \/ pc' = "wait" /\ child' = "exec"
     \/ pc' = "failed" /\ UNCHANGED child
  /\ UNCHANGED <<file, asks, intptr, found>>

wait_nohang == pc = "wait"
wait == pc = "wait" /\ child = "ended"

WaitForChild ==
  /\ wait /\ pc' = "read"
  /\ UNCHANGED <<file, child, asks, intptr, found>>

\* fscanf() returns EOF at the end of the file, which is not 0: the last
\* number is stored again until MAXLINES are there.
readints(f) ==
  [n \in 1 .. MAXLINES |-> IF f = <<>> THEN 0 ELSE f[IF n <= Len(f) THEN n ELSE Len(f)]]

Read ==
  /\ pc = "read"
  /\ IF file = absent
     THEN pc' = "failed" /\ UNCHANGED intptr
     ELSE pc' = "sort" /\ intptr' = readints(file)
  /\ UNCHANGED <<file, child, asks, found>>

cmpfunc(c1, c2) == IF c1 < c2 THEN 0 ELSE 1

\* A merge sort that asks whether the left element is greater than the right
\* one, as that of the GNU library does.
merge[s \in Seq(Int) \X Seq(Int)] ==
  LET a == s[1]  b == s[2]
  IN  IF a = <<>> \/ b = <<>> THEN a \o b
      ELSE IF cmpfunc(a[1], b[1]) <= 0 THEN <<a[1]>> \o merge[<<Tail(a), b>>]
                                       ELSE <<b[1]>> \o merge[<<a, Tail(b)>>]
qsort[v \in Seq(Int)] ==
  IF Len(v) <= 1 THEN v
  ELSE LET half == Len(v) \div 2
       IN  merge[<<qsort[SubSeq(v, 1, half)], qsort[SubSeq(v, half + 1, Len(v))]>>]

\* cmpfunc() never says less: a sort that moves an element past those it is less
\* than, as an insertion sort may, moves none.
Sort ==
  /\ pc = "sort" /\ pc' = "search"
  /\ intptr' = IF asks = "greater" THEN qsort[intptr] ELSE intptr
  /\ UNCHANGED <<file, child, asks, found>>

\* The loop from given low and high on.  Indices count from 0 as in the code.
binsearch(x, v, n) ==
  LET search[r \in (0 .. n) \X (-1 .. n - 1)] ==
        LET low == r[1]  high == r[2]  mid == (low + high) \div 2
        IN  IF low > high THEN -1
            ELSE IF x < v[mid + 1] THEN search[<<low, mid - 1>>]
            ELSE IF x > v[mid + 1] THEN search[<<mid + 1, high>>]
            ELSE mid
  IN  search[<<0, n - 1>>]

Search ==
  /\ pc = "search" /\ pc' = "done"
  /\ found' = binsearch(luckynum, intptr, MAXLINES)
  /\ UNCHANGED <<file, child, asks, intptr>>

Next ==
  \/ execvp \/ open_file \/ write_number \/ child_killed
  \/ fork \/ WaitForChild \/ Read \/ Sort \/ Search

Spec == Init /\ [][Next]_vars

-----------------------------------------------------------------------------
(* Properties.                                                             *)

\* What the parent reports is true of the numbers it has read, the first
\* MAXLINES of the file the child leaves; that a number is not there, if the
\* library sorts them.  The file must be complete when it is read, the numbers
\* in order when they are searched, and the repeated last number do no harm.
ReportTrue ==
  pc = "done" =>
    IF found = -1
    THEN asks = "greater" => \A n \in 1 .. MAXLINES : n <= Len(file) => file[n] # luckynum
    ELSE /\ found \in 0 .. MAXLINES - 1 /\ intptr[found + 1] = luckynum
         /\ \E n \in 1 .. MAXLINES : n <= Len(file) /\ file[n] = luckynum

\* "The parent process checks that the set contains a specific number": it
\* finds the number if and only if it is one of those the child has written.
\* The child writes 100 numbers and the parent reads 64 of them.
WholeSetSearched ==
  pc = "done" => (found # -1 <=> \E n \in 1 .. Len(file) : file[n] = luckynum)
=============================================================================
