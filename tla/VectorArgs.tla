----------------------------- MODULE VectorArgs -----------------------------
(***************************************************************************)
(* The five programs of concurrency/threads-bugs: what the command line    *)
(* and main() of main-common.c decide before the workers start.            *)
(***************************************************************************)
EXTENDS Integers, FiniteSets

CONSTANTS
  num_threads,   \* -n
  loops,         \* -l: how many times each worker calls vector_add
  Programs       \* the programs to look at

VARIABLE opt     \* the program that runs and its flags -d and -p; never changes

ASSUME VectorArgsAssumption ==
  /\ num_threads \in Nat /\ loops \in Nat
  /\ Programs \subseteq {"deadlock", "global-order", "avoid-hold-and-wait",
                         "try-wait", "nolock"}

Thread == 0 .. num_threads - 1

\* The vectors that some thread may be given: two per thread with -p.
Vector == 0 .. 2 * num_threads + 1

OptInit ==
  opt \in [program : Programs, cause_deadlock : BOOLEAN, enable_parallelism : BOOLEAN]

vector_0(t) == IF opt.enable_parallelism THEN 2 * t ELSE 0
vector_1(t) == IF opt.enable_parallelism THEN 2 * t + 1 ELSE 1

\* With -d every other thread adds the other way round.
reversed(t) == opt.cause_deadlock /\ t % 2 = 1

v_dst(t) == IF reversed(t) THEN vector_1(t) ELSE vector_0(t)
v_src(t) == IF reversed(t) THEN vector_0(t) ELSE vector_1(t)
=============================================================================
