------------------------------ MODULE ConcHash ------------------------------
(***************************************************************************)
(* concurrency/threads-locks/conchsh.h and concllist.h: a hash table whose *)
(* buckets are linked lists, each with a lock of its own.  No node changes *)
(* after it was linked, so that a pointer to a node is the sequence of the *)
(* keys from that node to the end of its list, and NULL is <<>>.           *)
(***************************************************************************)
EXTENDS Integers, Sequences

CONSTANTS
  Callers,     \* threads that call Hash_Insert and Hash_Lookup
  Keys,        \* the keys they use: naturals
  BUCKETS,
  MaxInsert    \* bound: calls of Hash_Insert over all

VARIABLES
  heads, lock,  \* L->head of each list, and who holds L->lock
  pc, key,      \* of each thread: where it is, the key of its call
  next,         \* of an inserter: what it stored in new->next
  curr,         \* of a lookup: its local variable curr
  rv,           \* of a lookup: its result, -1 or 0
  calls,        \* bound: calls of Hash_Insert so far
  present,      \* history: the keys whose insertion has succeeded and returned
  expected      \* history: of a lookup, present at the time it was called

vars == <<heads, lock, pc, key, next, curr, rv, calls, present, expected>>

history == <<calls, present, expected>>

Bucket == 0 .. BUCKETS - 1
bucket(t) == key[t] % BUCKETS

Hash_Init ==
  /\ heads = [b \in Bucket |-> <<>>] /\ lock = [b \in Bucket |-> {}]
  /\ pc = [t \in Callers |-> "idle"]
  /\ key = [t \in Callers |-> 0]
  /\ next = [t \in Callers |-> <<>>]
  /\ curr = [t \in Callers |-> <<>>]
  /\ rv = [t \in Callers |-> -1]
  /\ calls = 0 /\ present = {}
  /\ expected = [t \in Callers |-> {}]

Goto(t, from, to) == pc[t] = from /\ pc' = [pc EXCEPT ![t] = to]

Mutex_lock_unguarded(t) == lock' = [lock EXCEPT ![bucket(t)] = {t}]
Mutex_lock(t)   == lock[bucket(t)] = {} /\ lock' = [lock EXCEPT ![bucket(t)] = {t}]
Mutex_unlock(t) == lock' = [lock EXCEPT ![bucket(t)] = {}]

-----------------------------------------------------------------------------
(* Hash_Insert.                                                            *)

\* The call and malloc; when malloc fails the call returns with nothing done.
Hash_Insert(t) ==
  /\ \E label \in {"insert", "idle"} : Goto(t, "idle", label)
  /\ calls < MaxInsert /\ calls' = calls + 1
  /\ \E x \in Keys : key' = [key EXCEPT ![t] = x]
  /\ UNCHANGED <<heads, lock, next, curr, rv, present, expected>>

InsertLock(t) ==
  /\ Goto(t, "insert", "set_next")
  /\ Mutex_lock(t)
  /\ UNCHANGED <<heads, key, next, curr, rv, history>>

SetNext(t) ==
  /\ Goto(t, "set_next", "set_head")
  /\ next' = [next EXCEPT ![t] = heads[bucket(t)]]
  /\ UNCHANGED <<heads, lock, key, curr, rv, history>>

SetHead(t) ==
  /\ Goto(t, "set_head", "inserted")
  /\ heads' = [heads EXCEPT ![bucket(t)] = <<key[t]>> \o next[t]]
  /\ UNCHANGED <<lock, key, next, curr, rv, history>>

InsertUnlock(t) ==
  /\ Goto(t, "inserted", "idle")
  /\ Mutex_unlock(t)
  /\ present' = present \cup {key[t]}
  /\ key' = [key EXCEPT ![t] = 0] /\ next' = [next EXCEPT ![t] = <<>>]
  /\ UNCHANGED <<heads, curr, rv, calls, expected>>

-----------------------------------------------------------------------------
(* Hash_Lookup.                                                            *)

Hash_Lookup(t) ==
  /\ Goto(t, "idle", "lookup")
  /\ \E x \in Keys : key' = [key EXCEPT ![t] = x]
  /\ expected' = [expected EXCEPT ![t] = present]
  /\ UNCHANGED <<heads, lock, next, curr, rv, calls, present>>

LookupLock(t) ==
  /\ Goto(t, "lookup", "read_head")
  /\ Mutex_lock(t)
  /\ UNCHANGED <<heads, key, next, curr, rv, history>>

ReadHead(t) ==
  /\ Goto(t, "read_head", "test")
  /\ curr' = [curr EXCEPT ![t] = heads[bucket(t)]]
  /\ UNCHANGED <<heads, lock, key, next, rv, history>>

Compare(t) ==
  /\ curr[t] # <<>>
  /\ IF Head(curr[t]) = key[t]
       THEN Goto(t, "test", "unlock") /\ rv' = [rv EXCEPT ![t] = 0] /\ UNCHANGED curr
       ELSE pc[t] = "test" /\ curr' = [curr EXCEPT ![t] = Tail(@)] /\ UNCHANGED <<pc, rv>>
  /\ UNCHANGED <<heads, lock, key, next, history>>

EndOfList(t) ==
  /\ curr[t] = <<>>
  /\ Goto(t, "test", "unlock")
  /\ UNCHANGED <<heads, lock, key, next, curr, rv, history>>

LookupUnlock(t) ==
  /\ Goto(t, "unlock", "returned")
  /\ Mutex_unlock(t)
  /\ UNCHANGED <<heads, key, next, curr, rv, history>>

\* The caller has seen the result; what the call has used is forgotten.
Return(t) ==
  /\ Goto(t, "returned", "idle")
  /\ key' = [key EXCEPT ![t] = 0] /\ curr' = [curr EXCEPT ![t] = <<>>]
  /\ rv' = [rv EXCEPT ![t] = -1] /\ expected' = [expected EXCEPT ![t] = {}]
  /\ UNCHANGED <<heads, lock, next, calls, present>>

caller(t) ==
  \/ Hash_Insert(t) \/ InsertLock(t) \/ SetNext(t) \/ SetHead(t) \/ InsertUnlock(t)
  \/ Hash_Lookup(t) \/ LookupLock(t) \/ ReadHead(t) \/ Compare(t) \/ EndOfList(t)
  \/ LookupUnlock(t) \/ Return(t)

Next == \E t \in Callers : caller(t)

Spec == Hash_Init /\ [][Next]_vars

-----------------------------------------------------------------------------
(* Properties.                                                             *)

\* A lookup finds every key whose insertion had returned before the lookup was
\* called, whatever other threads insert meanwhile, and no key that nobody has
\* inserted.
LookupCorrect ==
  \A t \in Callers : pc[t] = "returned" =>
    /\ key[t] \in expected[t] => rv[t] = 0
    /\ rv[t] = 0 => \E j \in DOMAIN heads[bucket(t)] : heads[bucket(t)][j] = key[t]
=============================================================================
