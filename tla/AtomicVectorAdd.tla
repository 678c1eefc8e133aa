-------------------------- MODULE AtomicVectorAdd --------------------------
(***************************************************************************)
(* What vector_add() promises in the programs that use locks: the whole    *)
(* addition happens at once.  All elements of a vector start equal and get *)
(* the same additions, so that one number stands for the vector.           *)
(***************************************************************************)
EXTENDS VectorArgs

VARIABLES
  val,     \* the value of the elements of each vector
  calls    \* how many additions each thread has done

avars == <<opt, val, calls>>

AInit ==
  /\ OptInit
  /\ val = [v \in Vector |-> v]
  /\ calls = [t \in Thread |-> 0]

Add(t) ==
  /\ calls[t] < loops
  /\ val' = [val EXCEPT ![v_dst(t)] = @ + val[v_src(t)]]
  /\ calls' = [calls EXCEPT ![t] = @ + 1]
  /\ UNCHANGED opt

ANext == \E t \in Thread : Add(t)

ASpec == AInit /\ [][ANext]_avars
=============================================================================
