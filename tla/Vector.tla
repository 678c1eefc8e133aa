------------------------------- MODULE Vector -------------------------------
(***************************************************************************)
(* datastructures/vector/src/vector.c: a vector whose memory grows with    *)
(* realloc(), used as main() uses it.                                      *)
(***************************************************************************)
EXTENDS Integers, Sequences

CONSTANTS
  InitialSize,               \* what main() initialises the vector with
  Pushes, Pops, MorePushes   \* how many items main() pushes, pops and pushes again

VARIABLES
  todo,       \* the operations main() has still to do
  sz,         \* the vector's idea of its capacity
  nitems,     \* elements in use
  capacity,   \* elements there is memory for
  overrun     \* whether an element past the memory was written

vars == <<todo, sz, nitems, capacity, overrun>>

Times(n, op) == [k \in 1 .. n |-> op]

\* The calls of main() after init_vector.
main == Times(Pushes, "push") \o Times(Pops, "pop") \o Times(MorePushes, "push") \o <<"free">>

\* init_vector.
Init ==
  /\ sz = InitialSize /\ nitems = 0 /\ capacity = InitialSize /\ overrun = FALSE
  /\ todo = main

Do(op) == todo # <<>> /\ Head(todo) = op /\ todo' = Tail(todo)

\* The memory becomes one larger than sz, and sz stays.
push_vector ==
  /\ Do("push")
  /\ capacity' = IF nitems + 1 > sz THEN sz + 1 ELSE capacity
  /\ overrun' = (overrun \/ nitems >= capacity')
  /\ nitems' = nitems + 1
  /\ UNCHANGED sz

\* Of an empty vector pop_vector returns -1.
pop_vector ==
  /\ Do("pop")
  /\ nitems' = IF nitems < 1 THEN nitems ELSE nitems - 1
  /\ UNCHANGED <<sz, capacity, overrun>>

free_vector ==
  /\ Do("free")
  /\ sz' = 0 /\ capacity' = 0
  /\ UNCHANGED <<nitems, overrun>>

Next == push_vector \/ pop_vector \/ free_vector

Spec == Init /\ [][Next]_vars

-----------------------------------------------------------------------------
(* Property.                                                               *)

\* "an array with dynamic resizing" (vector.c:2): however the program pushes
\* and pops, what it pushes is written into the vector's memory.
WritesInBounds == ~overrun
=============================================================================
