------------------------------ MODULE ConcQueue ------------------------------
(***************************************************************************)
(* concurrency/threads-locks/concqueue.h: a queue as a linked list behind  *)
(* a dummy node, with one lock for the head and one for the tail.          *)
(* Enqueuers call Queue_Enqueue, dequeuers call Queue_Dequeue.             *)
(***************************************************************************)
EXTENDS Integers, Sequences, FiniteSets

CONSTANTS
  Enqueuers, Dequeuers,
  Node,         \* bound: what malloc can hand out at one time
  NULL,
  MaxEnqueue    \* bound: calls of Queue_Enqueue over all

VARIABLES
  head, tail, head_lock, tail_lock,
  next, value,   \* the fields of each node
  allocated,     \* the nodes malloc has handed out and free has not taken back
  pc,
  tmp,           \* of each thread: its local variable tmp
  new_head,      \* of each dequeuer: its local variable new_head
  rv,            \* of each dequeuer: what its last call returned in *value, or
                 \* -1 for the return code of an empty queue
  calls,         \* bound: calls of Queue_Enqueue so far; also the value stored
  fault          \* history: a freed node was used

vars == <<head, tail, head_lock, tail_lock, next, value, allocated, pc, tmp,
          new_head, rv, calls, fault>>

queue  == <<head, tail, head_lock, tail_lock>>
memory == <<next, value, allocated>>
locals == <<tmp, new_head, rv, calls>>

Queue_Init ==
  /\ \E n \in Node :
       /\ head = n /\ tail = n /\ allocated = {n}
       /\ tmp = [t \in Enqueuers \cup Dequeuers |-> NULL]
  /\ head_lock = {} /\ tail_lock = {}
  /\ next = [n \in Node |-> NULL]
  /\ value = [n \in Node |-> 0]
  /\ pc = [t \in Enqueuers \cup Dequeuers |-> "idle"]
  /\ new_head = [t \in Dequeuers |-> NULL]
  /\ rv = [t \in Dequeuers |-> -1]
  /\ calls = 0 /\ fault = FALSE

Goto(t, from, to) == pc[t] = from /\ pc' = [pc EXCEPT ![t] = to]

\* t follows a pointer to node n.
Use(n) == fault' = (fault \/ n \notin allocated)

-----------------------------------------------------------------------------
(* Queue_Enqueue.  The node is private until it is linked.                 *)

NewNode(t) ==
  /\ Goto(t, "idle", "lock_tail")
  /\ calls < MaxEnqueue /\ calls' = calls + 1
  /\ \E n \in Node \ allocated :
       /\ allocated' = allocated \cup {n}
       /\ tmp' = [tmp EXCEPT ![t] = n]
       /\ value' = [value EXCEPT ![n] = calls']
       /\ next' = [next EXCEPT ![n] = NULL]
  /\ UNCHANGED <<queue, new_head, rv, fault>>

LockTail_unguarded(t) ==
  /\ Goto(t, "lock_tail", "link")
  /\ tail_lock' = {t}
  /\ UNCHANGED <<head, tail, head_lock, memory, locals, fault>>
LockTail(t) ==
  /\ Goto(t, "lock_tail", "link")
  /\ tail_lock = {} /\ tail_lock' = {t}
  /\ UNCHANGED <<head, tail, head_lock, memory, locals, fault>>

Link(t) ==
  /\ Goto(t, "link", "advance_tail")
  /\ Use(tail)
  /\ next' = [next EXCEPT ![tail] = tmp[t]]
  /\ UNCHANGED <<queue, value, allocated, locals>>

AdvanceTail(t) ==
  /\ Goto(t, "advance_tail", "unlock_tail")
  /\ tail' = tmp[t]
  /\ UNCHANGED <<head, head_lock, tail_lock, memory, locals, fault>>

\* A local variable is NULL between calls.
UnlockTail(t) ==
  /\ Goto(t, "unlock_tail", "idle")
  /\ tail_lock' = {}
  /\ tmp' = [tmp EXCEPT ![t] = NULL]
  /\ UNCHANGED <<head, tail, head_lock, memory, new_head, rv, calls, fault>>

Queue_Enqueue(t) ==
  NewNode(t) \/ LockTail(t) \/ Link(t) \/ AdvanceTail(t) \/ UnlockTail(t)

-----------------------------------------------------------------------------
(* Queue_Dequeue.                                                          *)

LockHead(t) ==
  /\ Goto(t, "idle", "read_head")
  /\ head_lock = {} /\ head_lock' = {t}
  /\ UNCHANGED <<head, tail, tail_lock, memory, locals, fault>>

ReadHead(t) ==
  /\ Goto(t, "read_head", "read_next")
  /\ tmp' = [tmp EXCEPT ![t] = head]
  /\ UNCHANGED <<queue, memory, new_head, rv, calls, fault>>

\* A dummy with no successor is an empty queue.
ReadNext(t) ==
  /\ Goto(t, "read_next", IF next[tmp[t]] = NULL THEN "unlock_empty" ELSE "move_head")
  /\ Use(tmp[t])
  /\ new_head' = [new_head EXCEPT ![t] = next[tmp[t]]]
  /\ rv' = [rv EXCEPT ![t] = IF next[tmp[t]] = NULL THEN -1 ELSE @]
  /\ UNCHANGED <<queue, memory, tmp, calls>>

MoveHead_late(t) ==
  /\ Goto(t, "move_head", "unlock_head")
  /\ rv' = [rv EXCEPT ![t] = value[new_head[t]]]
  /\ UNCHANGED <<queue, memory, tmp, new_head, calls, fault>>
MoveHead(t) ==
  /\ Goto(t, "move_head", "unlock_head")
  /\ Use(new_head[t])
  /\ rv' = [rv EXCEPT ![t] = value[new_head[t]]]
  /\ head' = new_head[t]
  /\ UNCHANGED <<tail, head_lock, tail_lock, memory, tmp, new_head, calls>>

UnlockEmpty(t) ==
  /\ Goto(t, "unlock_empty", "idle")
  /\ head_lock' = {}
  /\ tmp' = [tmp EXCEPT ![t] = NULL]
  /\ UNCHANGED <<head, tail, tail_lock, memory, new_head, rv, calls, fault>>

\* The old dummy is freed after the lock was given back.
UnlockHead(t) ==
  /\ Goto(t, "unlock_head", "free")
  /\ head_lock' = {}
  /\ UNCHANGED <<head, tail, tail_lock, memory, locals, fault>>

Free_none(t) ==
  /\ Goto(t, "free", "idle")
  /\ UNCHANGED <<queue, memory, locals, fault>>
Free(t) ==
  /\ Goto(t, "free", "idle")
  /\ Use(tmp[t])
  /\ allocated' = allocated \ {tmp[t]}
  /\ tmp' = [tmp EXCEPT ![t] = NULL] /\ new_head' = [new_head EXCEPT ![t] = NULL]
  /\ UNCHANGED <<queue, next, value, rv, calls>>

Queue_Dequeue(t) ==
  \/ LockHead(t) \/ ReadHead(t) \/ ReadNext(t) \/ MoveHead(t)
  \/ UnlockEmpty(t) \/ UnlockHead(t) \/ Free(t)

Next ==
  \/ \E t \in Enqueuers : Queue_Enqueue(t)
  \/ \E t \in Dequeuers : Queue_Dequeue(t)

Spec == Queue_Init /\ [][Next]_vars

-----------------------------------------------------------------------------
(* Properties.                                                             *)

\* No thread follows a pointer to a node that was freed, and none is freed
\* twice, although enqueuers and dequeuers hold different locks.
NoUseAfterFree == ~fault

\* The node k places behind the dummy, NULL behind the last one.
Behind[k \in 0 .. Cardinality(Node)] ==
  IF k = 0 THEN head
  ELSE LET n == Behind[k - 1] IN IF n = NULL THEN NULL ELSE next[n]

\* The values of the nodes behind the dummy, in order.
contents ==
  LET length == Cardinality({k \in 1 .. Cardinality(Node) : Behind[k] # NULL})
  IN  [j \in 1 .. length |-> value[Behind[j]]]

\* A call takes effect at one step: an enqueue when it links its node, a dequeue
\* when it moves the head or finds that there is no next node.
Appends(t)    == pc[t] = "link" /\ pc'[t] # "link"
Takes(t)      == pc[t] = "move_head" /\ pc'[t] # "move_head"
FindsEmpty(t) == pc[t] = "read_next" /\ pc'[t] = "unlock_empty"

\* The list from the dummy on is a queue: every enqueue puts its own value behind
\* the others, once; every dequeue takes the oldest value, or finds the queue
\* empty; and no other step of a call changes what the queue holds.
FifoStep ==
  \/ \E t \in Enqueuers :
       Appends(t) /\ contents' = Append(contents, value[tmp[t]]) /\ rv' = rv
  \/ \E t \in Dequeuers :
       \/ /\ Takes(t) /\ contents # <<>>
          /\ contents' = Tail(contents) /\ rv' = [rv EXCEPT ![t] = Head(contents)]
       \/ /\ FindsEmpty(t) /\ contents = <<>>
          /\ contents' = <<>> /\ rv' = [rv EXCEPT ![t] = -1]
  \/ /\ \A t \in Enqueuers : ~Appends(t)
     /\ \A t \in Dequeuers : ~Takes(t) /\ ~FindsEmpty(t)
     /\ contents' = contents /\ rv' = rv
ImplementsFifo == [][FifoStep]_vars

\* Nothing leaks: when nobody is in a call, exactly the dummy and the nodes of
\* the queue are allocated.
NoLeak ==
  (\A t \in DOMAIN pc : pc[t] = "idle") =>
    Cardinality(allocated) = Len(contents) + 1
=============================================================================
