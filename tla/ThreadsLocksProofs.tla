------------------------- MODULE ThreadsLocksProofs -------------------------
(***************************************************************************)
(* Proofs about the structures of concurrency/threads-locks, for every     *)
(* number of threads, CPUs, buckets, keys and nodes:                       *)
(*                                                                         *)
(*   LookupsCorrect     a lookup finds what was inserted before it         *)
(*   UsesNoFreedNode    no call of the queue touches a freed node          *)
(*   QueueIsFifo        every step of the queue is a step of a FIFO        *)
(*   QueueLeaksNothing  as many nodes as values, and the dummy             *)
(*   LosesNoAmount      every amount added to the counter is in one place  *)
(*   LagsBounded        get() never lags behind by more than its bound     *)
(*   GetsMonotonically  get() never goes back or ahead                     *)
(*                                                                         *)
(* and about the programs of concurrency/threads-api:                      *)
(*                                                                         *)
(*   StopsWithWorkDone  they stop only with their work done                *)
(*                                                                         *)
(* Each structure has an inductive invariant of its own (HashInv,          *)
(* QueueInv, CounterInv, ApiInv), which the steps of the others leave      *)
(* alone.                                                                  *)
(***************************************************************************)
EXTENDS MCThreadsLocks, SequenceTheorems, RecursionTheorems, TLAPS

-----------------------------------------------------------------------------
(* The hash table.                                                         *)

\* The keys are naturals, and there is a bucket (conchsh.h: 101).
HashArgs == BUCKETS \in Nat \ {0} /\ Keys \subseteq Nat

In(x, s) == \E j \in 1 .. Len(s) : s[j] = x
bucket(t) == Hash!bucket(t)

HashLabel == {"idle", "insert", "set_next", "set_head", "inserted", "lookup", "read_head",
              "test", "unlock", "returned"}

HashTypeOK ==
  /\ heads \in [Hash!Bucket -> Seq(Nat)]
  /\ hlock \in [Hash!Bucket -> SUBSET Callers]
  /\ hpc \in [Callers -> HashLabel]
  /\ key \in [Callers -> Nat]
  /\ hnext \in [Callers -> Seq(Nat)] /\ curr \in [Callers -> Seq(Nat)]
  /\ hrv \in [Callers -> {-1, 0}]
  /\ present \in SUBSET Nat /\ expected \in [Callers -> SUBSET Nat]

\* Between Mutex_lock and Mutex_unlock a thread is the only one that holds the
\* lock of its bucket.
BucketHeld ==
  \A t \in Callers :
    hpc[t] \in {"set_next", "set_head", "inserted", "read_head", "test", "unlock"}
      => hlock[bucket(t)] = {t}

\* The list an inserter is about to put its node in front of is still the
\* whole list.
NextIsHead == \A t \in Callers : hpc[t] = "set_head" => hnext[t] = heads[bucket(t)]

\* What has been inserted stays in its list.
KeptInList ==
  /\ \A x \in present : In(x, heads[x % BUCKETS])
  /\ \A t \in Callers : hpc[t] = "inserted" => In(key[t], heads[bucket(t)])
  /\ \A t \in Callers : expected[t] \subseteq present

\* The nodes a lookup has yet to look at are nodes of the list, and the key is
\* among them if it has to be found.
StillAhead ==
  \A t \in Callers : hpc[t] = "test" =>
    /\ \A x \in Nat : In(x, curr[t]) => In(x, heads[bucket(t)])
    /\ key[t] \in expected[t] => In(key[t], curr[t])

\* The result of a lookup, from the comparison that yields it to the return.
Answered ==
  \A t \in Callers :
    /\ hrv[t] = 0 => hpc[t] \in {"unlock", "returned"} /\ In(key[t], heads[bucket(t)])
    /\ hpc[t] \in {"unlock", "returned"} /\ key[t] \in expected[t] => hrv[t] = 0

HashInv == HashTypeOK /\ BucketHeld /\ NextIsHead /\ KeptInList /\ StillAhead /\ Answered

LEMMA InCons ==
  ASSUME NEW s \in Seq(Nat), NEW k \in Nat
  PROVE  <<k>> \o s \in Seq(Nat) /\ \A x \in Nat : In(x, <<k>> \o s) <=> x = k \/ In(x, s)
<1>1. /\ <<k>> \o s \in Seq(Nat) /\ Len(<<k>> \o s) = Len(s) + 1 /\ Len(s) \in Nat
      /\ (<<k>> \o s)[1] = k
      /\ \A j \in 1 .. Len(s) : (<<k>> \o s)[j + 1] = s[j]
  OBVIOUS
<1>2. ASSUME NEW x \in Nat, In(x, <<k>> \o s) PROVE x = k \/ In(x, s)
  <2>1. PICK j \in 1 .. Len(s) + 1 : (<<k>> \o s)[j] = x
    BY <1>1, <1>2 DEF In
  <2>2. CASE j = 1
    BY <1>1, <2>1, <2>2
  <2>3. CASE j # 1
    <3>1. j - 1 \in 1 .. Len(s) /\ s[j - 1] = x
      BY <1>1, <2>1, <2>3
    <3> QED BY <3>1 DEF In
  <2> QED BY <2>2, <2>3
<1>3. ASSUME NEW x \in Nat, x = k \/ In(x, s) PROVE In(x, <<k>> \o s)
  <2>1. CASE x = k
    <3>1. 1 \in 1 .. Len(<<k>> \o s)
      BY <1>1
    <3> QED BY <1>1, <2>1, <3>1 DEF In
  <2>2. CASE In(x, s)
    <3>1. PICK j \in 1 .. Len(s) : s[j] = x
      BY <2>2 DEF In
    <3>2. j + 1 \in 1 .. Len(<<k>> \o s) /\ (<<k>> \o s)[j + 1] = x
      BY <1>1, <3>1
    <3> QED BY <3>2 DEF In
  <2> QED BY <1>3, <2>1, <2>2
<1> QED BY <1>1, <1>2, <1>3

LEMMA InTail ==
  ASSUME NEW s \in Seq(Nat), s # <<>>
  PROVE  /\ Head(s) \in Nat /\ Tail(s) \in Seq(Nat)
         /\ \A x \in Nat : In(x, s) <=> x = Head(s) \/ In(x, Tail(s))
<1>1. Head(s) \in Nat /\ Tail(s) \in Seq(Nat)
  BY HeadTailProperties
<1>2. /\ Head(s) = s[1] /\ Len(Tail(s)) = Len(s) - 1 /\ Len(s) \in Nat \ {0}
      /\ \A j \in 1 .. Len(s) - 1 : Tail(s)[j] = s[j + 1]
  BY HeadTailProperties, EmptySeq, LenProperties
<1>3. s = <<Head(s)>> \o Tail(s)
  <2> DEFINE u == <<Head(s)>> \o Tail(s)
  <2>1. u \in Seq(Nat) /\ Len(u) = Len(s) /\ u[1] = s[1]
    BY <1>1, <1>2
  <2>2. \A j \in 1 .. Len(s) - 1 : u[j + 1] = Tail(s)[j]
    BY <1>1, <1>2
  <2>3. ASSUME NEW j \in 1 .. Len(s) PROVE u[j] = s[j]
    <3>1. j = 1 \/ (j - 1 \in 1 .. Len(s) - 1 /\ (j - 1) + 1 = j)
      BY <1>2
    <3> HIDE DEF u
    <3> QED BY <1>2, <2>1, <2>2, <3>1
  <2> HIDE DEF u
  <2>4. u = s
    BY <2>1, <2>3, SeqEqual
  <2> QED BY <2>4 DEF u
<1>4. \A x \in Nat : In(x, <<Head(s)>> \o Tail(s)) <=> x = Head(s) \/ In(x, Tail(s))
  BY <1>1, InCons
<1>5. \A x \in Nat : In(x, s) <=> In(x, <<Head(s)>> \o Tail(s))
  BY <1>3, Zenon
<1> QED BY <1>1, <1>4, <1>5

LEMMA InEmpty == \A x : ~In(x, <<>>)
BY DEF In

LEMMA BucketType ==
  ASSUME HashArgs, HashTypeOK
  PROVE  /\ \A t \in Callers : bucket(t) \in Hash!Bucket /\ bucket(t) = key[t] % BUCKETS
         /\ \A x \in Nat : x % BUCKETS \in Hash!Bucket
BY DEF HashArgs, HashTypeOK, bucket, Hash!bucket, Hash!Bucket

LEMMA HashInit ==
  ASSUME HashArgs, Hash!Hash_Init
  PROVE  HashInv
<1>1. <<>> \in Seq(Nat)
  OBVIOUS
<1>2. HashTypeOK
  BY <1>1 DEF HashTypeOK, Hash!Hash_Init, HashLabel
<1> QED BY <1>2 DEF HashInv, BucketHeld, NextIsHead, KeptInList, StillAhead, Answered, Hash!Hash_Init

\* A call begins.
LEMMA HashCall ==
  ASSUME HashArgs, HashInv, NEW t \in Callers, Hash!Hash_Insert(t) \/ Hash!Hash_Lookup(t)
  PROVE  HashInv'
<1> USE DEF HashInv, HashArgs
<1>1. PICK x \in Keys, l \in {"insert", "idle", "lookup"} :
        /\ hpc[t] = "idle" /\ hpc' = [hpc EXCEPT ![t] = l] /\ key' = [key EXCEPT ![t] = x]
        /\ expected' = expected \/ (expected' = [expected EXCEPT ![t] = present])
        /\ UNCHANGED <<heads, hlock, hnext, curr, hrv, present>>
  BY DEF Hash!Hash_Insert, Hash!Hash_Lookup, Hash!Goto
<1>2. HashTypeOK'
  BY <1>1 DEF HashTypeOK, HashLabel
<1>3. \A u \in Callers \ {t} : /\ hpc'[u] = hpc[u] /\ key'[u] = key[u] /\ expected'[u] = expected[u]
                               /\ bucket(u)' = bucket(u)
  BY <1>1 DEF HashTypeOK, bucket, Hash!bucket
<1>4. /\ hpc'[t] \in {"insert", "idle", "lookup"} /\ hrv[t] # 0
      /\ expected'[t] \in {expected[t], present}
  BY <1>1 DEF HashTypeOK, Answered
<1>5. BucketHeld' /\ NextIsHead' /\ Answered'
  BY <1>1, <1>3, <1>4 DEF BucketHeld, NextIsHead, Answered
<1>6. KeptInList' /\ StillAhead'
  BY <1>1, <1>3, <1>4 DEF KeptInList, StillAhead
<1> QED BY <1>2, <1>5, <1>6

\* The lock of a bucket passes from one thread to the next.
LEMMA HashLocking ==
  ASSUME HashArgs, HashInv, NEW t \in Callers,
         Hash!InsertLock(t) \/ Hash!LookupLock(t) \/ Hash!LookupUnlock(t)
  PROVE  HashInv'
<1> USE DEF HashInv
<1>1. PICK l \in {"set_next", "read_head", "returned"} :
        /\ hpc' = [hpc EXCEPT ![t] = l] /\ UNCHANGED <<heads, key, hnext, curr, hrv, present, expected>>
        /\ hpc[t] \in {"insert", "lookup"} \/ (hpc[t] = "unlock" /\ l = "returned")
        /\ l # "returned" => hlock[bucket(t)] = {} /\ hlock' = [hlock EXCEPT ![bucket(t)] = {t}]
        /\ l = "returned" => hpc[t] = "unlock" /\ hlock' = [hlock EXCEPT ![bucket(t)] = {}]
  BY DEF Hash!InsertLock, Hash!LookupLock, Hash!LookupUnlock, Hash!Goto, Hash!Mutex_lock,
         Hash!Mutex_unlock, Hash!history, bucket
<1>2. HashTypeOK'
  <2>1. hlock' \in [Hash!Bucket -> SUBSET Callers]
    <3>1. hlock \in [Hash!Bucket -> SUBSET Callers] /\ {t} \in SUBSET Callers /\ {} \in SUBSET Callers
      BY DEF HashTypeOK
    <3>2. hlock' = [hlock EXCEPT ![bucket(t)] = {t}] \/ hlock' = [hlock EXCEPT ![bucket(t)] = {}]
      BY <1>1
    <3> QED BY <3>1, <3>2
  <2> QED BY <1>1, <2>1 DEF HashTypeOK, HashLabel
<1>3. \A u \in Callers : (u # t => hpc'[u] = hpc[u]) /\ bucket(u)' = bucket(u)
                         /\ bucket(u) \in Hash!Bucket
  BY <1>1, BucketType DEF HashTypeOK, bucket, Hash!bucket
<1>4. hpc'[t] = l
  BY <1>1 DEF HashTypeOK
<1>5. BucketHeld'
  <2> DEFINE Inside(u) == hpc[u] \in {"set_next", "set_head", "inserted", "read_head", "test", "unlock"}
  <2>1. ASSUME NEW u \in Callers \ {t}, Inside(u)
        PROVE  hlock[bucket(u)] = {u} /\ hlock'[bucket(u)] = {u}
    <3>1. hlock[bucket(u)] = {u}
      BY <2>1 DEF BucketHeld
    <3>2. l = "returned" => hlock[bucket(t)] = {t}
      BY <1>1 DEF BucketHeld
    <3>3. bucket(u) # bucket(t)
      BY <1>1, <3>1, <3>2
    <3> QED BY <1>1, <1>3, <3>1, <3>3 DEF HashTypeOK
  <2>2. l # "returned" => hlock'[bucket(t)] = {t}
    BY <1>1, <1>3 DEF HashTypeOK
  <2> QED BY <1>3, <1>4, <2>1, <2>2 DEF BucketHeld
<1>6. NextIsHead' /\ KeptInList' /\ StillAhead' /\ Answered'
  BY <1>1, <1>3, <1>4 DEF NextIsHead, KeptInList, StillAhead, Answered
<1> QED BY <1>2, <1>5, <1>6

LEMMA HashSetNext ==
  ASSUME HashArgs, HashInv, NEW t \in Callers, Hash!SetNext(t)
  PROVE  HashInv'
<1> USE DEF HashInv
<1>1. /\ hpc[t] = "set_next" /\ hpc' = [hpc EXCEPT ![t] = "set_head"]
      /\ hnext' = [hnext EXCEPT ![t] = heads[bucket(t)]]
      /\ UNCHANGED <<heads, hlock, key, curr, hrv, present, expected>>
  BY DEF Hash!SetNext, Hash!Goto, Hash!history, bucket
<1>2. HashTypeOK'
  BY <1>1, BucketType DEF HashTypeOK, HashLabel
<1>3. /\ hpc'[t] = "set_head" /\ hnext'[t] = heads[bucket(t)]
      /\ \A u \in Callers : (u # t => hpc'[u] = hpc[u] /\ hnext'[u] = hnext[u]) /\ bucket(u)' = bucket(u)
  BY <1>1 DEF HashTypeOK, bucket, Hash!bucket
<1>4. BucketHeld' /\ NextIsHead' /\ KeptInList' /\ StillAhead' /\ Answered'
  BY <1>1, <1>3 DEF BucketHeld, NextIsHead, KeptInList, StillAhead, Answered
<1> QED BY <1>2, <1>4

\* The list becomes longer by the new node, because nobody else has had the
\* lock since new->next was set.
LEMMA HashSetHead ==
  ASSUME HashArgs, HashInv, NEW t \in Callers, Hash!SetHead(t)
  PROVE  HashInv'
<1> USE DEF HashInv
<1>1. /\ hpc[t] = "set_head" /\ hpc' = [hpc EXCEPT ![t] = "inserted"]
      /\ heads' = [heads EXCEPT ![bucket(t)] = <<key[t]>> \o heads[bucket(t)]]
      /\ UNCHANGED <<hlock, key, hnext, curr, hrv, present, expected>>
  BY DEF Hash!SetHead, Hash!Goto, Hash!history, bucket, NextIsHead
<1>2. \A u \in Callers : (u # t => hpc'[u] = hpc[u]) /\ bucket(u)' = bucket(u)
                         /\ bucket(u) \in Hash!Bucket /\ key[u] \in Nat
  BY <1>1, BucketType DEF HashTypeOK, bucket, Hash!bucket
<1>3. /\ <<key[t]>> \o heads[bucket(t)] \in Seq(Nat)
      /\ \A x \in Nat : In(x, <<key[t]>> \o heads[bucket(t)]) <=> x = key[t] \/ In(x, heads[bucket(t)])
  BY <1>2, InCons DEF HashTypeOK
<1>4. HashTypeOK'
  BY <1>1, <1>3, <1>2 DEF HashTypeOK, HashLabel
<1>5. /\ \A b \in Hash!Bucket, x \in Nat : In(x, heads[b]) => In(x, heads'[b])
      /\ In(key[t], heads'[bucket(t)]) /\ hpc'[t] = "inserted"
  BY <1>1, <1>2, <1>3 DEF HashTypeOK
<1>6. BucketHeld'
  BY <1>1, <1>2, <1>5 DEF BucketHeld
<1>7. NextIsHead'
  <2>1. \A u \in Callers \ {t} : hpc[u] = "set_head" => bucket(u) # bucket(t)
    BY <1>1 DEF BucketHeld
  <2> QED BY <1>1, <1>2, <1>5, <2>1 DEF NextIsHead, HashTypeOK
<1>8. KeptInList'
  <2>1. \A x \in present : x \in Nat /\ x % BUCKETS \in Hash!Bucket
    BY BucketType DEF HashTypeOK
  <2> QED BY <1>1, <1>2, <1>5, <2>1 DEF KeptInList
<1>9. StillAhead' /\ Answered'
  BY <1>1, <1>2, <1>5 DEF StillAhead, Answered
<1> QED BY <1>4, <1>6, <1>7, <1>8, <1>9

LEMMA HashInsertUnlock ==
  ASSUME HashArgs, HashInv, NEW t \in Callers, Hash!InsertUnlock(t)
  PROVE  HashInv'
<1> USE DEF HashInv
<1>1. /\ hpc[t] = "inserted" /\ hpc' = [hpc EXCEPT ![t] = "idle"]
      /\ hlock' = [hlock EXCEPT ![bucket(t)] = {}]
      /\ present' = present \cup {key[t]}
      /\ key' = [key EXCEPT ![t] = 0] /\ hnext' = [hnext EXCEPT ![t] = <<>>]
      /\ UNCHANGED <<heads, curr, hrv, expected>>
  BY DEF Hash!InsertUnlock, Hash!Goto, Hash!Mutex_unlock, bucket
<1>2. HashTypeOK'
  BY <1>1, BucketType DEF HashTypeOK, HashLabel
<1>3. /\ hpc'[t] = "idle" /\ hrv[t] # 0
      /\ \A u \in Callers \ {t} : /\ hpc'[u] = hpc[u] /\ key'[u] = key[u] /\ hnext'[u] = hnext[u]
                                  /\ bucket(u)' = bucket(u)
      /\ \A u \in Callers : bucket(u) \in Hash!Bucket
  BY <1>1, BucketType DEF HashTypeOK, Answered, bucket, Hash!bucket
<1>4. BucketHeld'
  BY <1>1, <1>3 DEF BucketHeld, HashTypeOK
<1>5. KeptInList'
  BY <1>1, <1>3, BucketType DEF KeptInList
<1>6. NextIsHead' /\ StillAhead' /\ Answered'
  BY <1>1, <1>3 DEF NextIsHead, StillAhead, Answered
<1> QED BY <1>2, <1>4, <1>5, <1>6

\* A lookup starts from the whole list and loses sight of no node that it has
\* not compared.
LEMMA HashWalk ==
  ASSUME HashArgs, HashInv, NEW t \in Callers,
         Hash!ReadHead(t) \/ Hash!Compare(t) \/ Hash!EndOfList(t)
  PROVE  HashInv'
<1> USE DEF HashInv
<1>0. /\ UNCHANGED <<heads, hlock, key, hnext, present, expected>>
      /\ \A u \in Callers : bucket(u)' = bucket(u) /\ bucket(u) \in Hash!Bucket
  BY BucketType DEF Hash!ReadHead, Hash!Compare, Hash!EndOfList, Hash!Goto, Hash!history, bucket, Hash!bucket
<1>1. CASE Hash!ReadHead(t)
  <2>1. /\ hpc[t] = "read_head" /\ hpc' = [hpc EXCEPT ![t] = "test"] /\ hrv' = hrv
        /\ curr' = [curr EXCEPT ![t] = heads[bucket(t)]]
    BY <1>1 DEF Hash!ReadHead, Hash!Goto, bucket
  <2>2. HashTypeOK'
    BY <1>0, <2>1 DEF HashTypeOK, HashLabel
  <2>3. /\ hpc'[t] = "test" /\ curr'[t] = heads[bucket(t)] /\ hrv[t] # 0
        /\ \A u \in Callers \ {t} : hpc'[u] = hpc[u] /\ curr'[u] = curr[u]
    BY <2>1 DEF HashTypeOK, Answered
  <2>4. key[t] \in expected[t] => In(key[t], heads[bucket(t)])
    BY BucketType DEF KeptInList
  <2>5. BucketHeld' /\ NextIsHead' /\ KeptInList' /\ StillAhead' /\ Answered'
    BY <1>0, <2>1, <2>3, <2>4 DEF BucketHeld, NextIsHead, KeptInList, StillAhead, Answered
  <2> QED BY <2>2, <2>5
<1>2. CASE Hash!Compare(t) /\ Head(curr[t]) = key[t]
  <2>1. /\ hpc[t] = "test" /\ hpc' = [hpc EXCEPT ![t] = "unlock"] /\ hrv' = [hrv EXCEPT ![t] = 0]
        /\ curr' = curr /\ curr[t] # <<>>
    BY <1>2 DEF Hash!Compare, Hash!Goto
  <2>2. HashTypeOK'
    BY <1>0, <2>1 DEF HashTypeOK, HashLabel
  <2>3. /\ hpc'[t] = "unlock" /\ hrv'[t] = 0
        /\ \A u \in Callers \ {t} : hpc'[u] = hpc[u] /\ hrv'[u] = hrv[u]
    BY <2>1 DEF HashTypeOK
  <2>4. In(key[t], heads[bucket(t)])
    <3>1. In(key[t], curr[t]) /\ key[t] \in Nat
      BY <1>2, <2>1, InTail DEF HashTypeOK
    <3> QED BY <2>1, <3>1 DEF StillAhead
  <2>5. BucketHeld' /\ NextIsHead' /\ KeptInList' /\ StillAhead' /\ Answered'
    BY <1>0, <2>1, <2>3, <2>4 DEF BucketHeld, NextIsHead, KeptInList, StillAhead, Answered
  <2> QED BY <2>2, <2>5
<1>3. CASE Hash!Compare(t) /\ Head(curr[t]) # key[t]
  <2>1. /\ hpc[t] = "test" /\ hpc' = hpc /\ hrv' = hrv
        /\ curr' = [curr EXCEPT ![t] = Tail(curr[t])] /\ curr[t] # <<>>
    BY <1>3 DEF Hash!Compare, Hash!Goto
  <2>2. /\ Tail(curr[t]) \in Seq(Nat) /\ key[t] \in Nat
        /\ \A x \in Nat : In(x, curr[t]) <=> x = Head(curr[t]) \/ In(x, Tail(curr[t]))
    BY <2>1, InTail DEF HashTypeOK
  <2>3. HashTypeOK'
    BY <1>0, <2>1, <2>2 DEF HashTypeOK
  <2>4. curr'[t] = Tail(curr[t]) /\ \A u \in Callers \ {t} : curr'[u] = curr[u]
    BY <2>1 DEF HashTypeOK
  <2>5. StillAhead'
    BY <1>0, <1>3, <2>1, <2>2, <2>4 DEF StillAhead
  <2>6. BucketHeld' /\ NextIsHead' /\ KeptInList' /\ Answered'
    BY <1>0, <2>1 DEF BucketHeld, NextIsHead, KeptInList, Answered
  <2> QED BY <2>3, <2>5, <2>6
<1>4. CASE Hash!EndOfList(t)
  <2>1. /\ hpc[t] = "test" /\ hpc' = [hpc EXCEPT ![t] = "unlock"] /\ hrv' = hrv /\ curr' = curr
        /\ curr[t] = <<>>
    BY <1>4 DEF Hash!EndOfList, Hash!Goto
  <2>2. HashTypeOK'
    BY <1>0, <2>1 DEF HashTypeOK, HashLabel
  <2>3. hpc'[t] = "unlock" /\ \A u \in Callers \ {t} : hpc'[u] = hpc[u]
    BY <2>1 DEF HashTypeOK
  <2>4. key[t] \notin expected[t] /\ hrv[t] # 0
    BY <2>1, InEmpty DEF StillAhead, Answered
  <2>5. BucketHeld' /\ NextIsHead' /\ KeptInList' /\ StillAhead' /\ Answered'
    BY <1>0, <2>1, <2>3, <2>4 DEF BucketHeld, NextIsHead, KeptInList, StillAhead, Answered
  <2> QED BY <2>2, <2>5
<1> QED BY <1>1, <1>2, <1>3, <1>4 DEF Hash!Compare

LEMMA HashReturn ==
  ASSUME HashArgs, HashInv, NEW t \in Callers, Hash!Return(t)
  PROVE  HashInv'
<1> USE DEF HashInv
<1>1. /\ hpc[t] = "returned" /\ hpc' = [hpc EXCEPT ![t] = "idle"]
      /\ key' = [key EXCEPT ![t] = 0] /\ curr' = [curr EXCEPT ![t] = <<>>]
      /\ hrv' = [hrv EXCEPT ![t] = -1] /\ expected' = [expected EXCEPT ![t] = {}]
      /\ UNCHANGED <<heads, hlock, hnext, present>>
  BY DEF Hash!Return, Hash!Goto
<1>2. HashTypeOK'
  BY <1>1 DEF HashTypeOK, HashLabel
<1>3. /\ hpc'[t] = "idle" /\ hrv'[t] = -1 /\ expected'[t] = {}
      /\ \A u \in Callers \ {t} : /\ hpc'[u] = hpc[u] /\ key'[u] = key[u] /\ curr'[u] = curr[u]
                                  /\ hrv'[u] = hrv[u] /\ expected'[u] = expected[u]
                                  /\ bucket(u)' = bucket(u)
  BY <1>1 DEF HashTypeOK, bucket, Hash!bucket
<1>4. BucketHeld' /\ NextIsHead' /\ KeptInList' /\ StillAhead' /\ Answered'
  BY <1>1, <1>3 DEF BucketHeld, NextIsHead, KeptInList, StillAhead, Answered
<1> QED BY <1>2, <1>4

LEMMA HashStep ==
  ASSUME HashArgs, HashInv, [MCNext]_<<subject, counter, queue, hash, rw, api>>
  PROVE  HashInv'
<1>1. CASE Hash!Next
  <2>1. PICK t \in Callers : Hash!caller(t)
    BY <1>1 DEF Hash!Next
  <2> QED BY <2>1, HashCall, HashLocking, HashSetNext, HashSetHead, HashInsertUnlock, HashWalk, HashReturn
       DEF Hash!caller
<1>2. CASE UNCHANGED hash
  <2>1. UNCHANGED <<heads, hlock, hpc, key, hnext, curr, hrv, present, expected>>
    BY <1>2 DEF hash
  <2> QED BY <2>1 DEF HashInv, HashTypeOK, BucketHeld, NextIsHead, KeptInList, StillAhead, Answered,
       bucket, Hash!bucket
<1> QED BY <1>1, <1>2 DEF MCNext

\* A lookup in the hash table of conchsh.h returns 0 for every key whose
\* insertion had returned when the lookup was called, and for no key that is not
\* in its list, however many threads insert and look up meanwhile.
THEOREM LookupsCorrect ==
  ASSUME HashArgs
  PROVE  MCSpec => []LookupCorrect
<1>1. MCInit => HashInv
  BY HashInit DEF MCInit
<1>2. HashInv /\ [MCNext]_<<subject, counter, queue, hash, rw, api>> => HashInv'
  BY HashStep
<1>3. HashInv => LookupCorrect
  <2> SUFFICES ASSUME HashInv, NEW t \in Callers, hpc[t] = "returned"
               PROVE  /\ key[t] \in expected[t] => hrv[t] = 0
                      /\ hrv[t] = 0 => \E j \in DOMAIN heads[bucket(t)] : heads[bucket(t)][j] = key[t]
    BY DEF LookupCorrect, Hash!LookupCorrect, bucket
  <2>1. heads[bucket(t)] \in Seq(Nat)
    BY BucketType DEF HashInv, HashTypeOK
  <2> QED BY <2>1, LenProperties DEF HashInv, Answered, In
<1> QED BY <1>1, <1>2, <1>3, PTL DEF MCSpec
-----------------------------------------------------------------------------
(* The queue.                                                              *)

\* No thread does both, and NULL is no node.
QueueArgs == NULL \notin Node /\ Enqueuers \cap Dequeuers = {}

QueueUser == Enqueuers \cup Dequeuers

\* Thread t has a node for itself: one it has not linked yet, or the old dummy
\* it is about to free.
Owns(t) == qpc[t] \in {"lock_tail", "link", "unlock_head", "free"}

\* The nodes of the list: all others that are allocated.
Chain == {n \in allocated : \A t \in QueueUser : Owns(t) => tmp[t] # n}

\* Node n is the last one: the one that tail is about to point to, once it was
\* linked.
Linking(t) == t \in Enqueuers /\ qpc[t] = "advance_tail"
IsLast(n) == IF \E t \in Enqueuers : Linking(t)
             THEN \E t \in Enqueuers : Linking(t) /\ n = tmp[t]
             ELSE n = tail

EnqLabel == {"idle", "lock_tail", "link", "advance_tail", "unlock_tail"}
DeqLabel == {"idle", "read_head", "read_next", "move_head", "unlock_empty", "unlock_head", "free"}

QueueTypeOK ==
  /\ head \in Node /\ tail \in Node
  /\ head_lock \in SUBSET Dequeuers /\ tail_lock \in SUBSET Enqueuers
  /\ qnext \in [Node -> Node \cup {NULL}]
  /\ allocated \in SUBSET Node
  /\ qpc \in [QueueUser -> EnqLabel \cup DeqLabel]
  /\ \A t \in Enqueuers : qpc[t] \in EnqLabel
  /\ \A t \in Dequeuers : qpc[t] \in DeqLabel
  /\ tmp \in [QueueUser -> Node \cup {NULL}]
  /\ new_head \in [Dequeuers -> Node \cup {NULL}]
  /\ \A t \in Enqueuers : qpc[t] \in {"lock_tail", "link", "advance_tail"} => tmp[t] \in Node

\* The locks exclude the enqueuers from each other, and the dequeuers.
EndsHeld ==
  /\ \A t \in Enqueuers : qpc[t] \in {"link", "advance_tail", "unlock_tail"} => tail_lock = {t}
  /\ \A t \in Dequeuers :
       qpc[t] \in {"read_head", "read_next", "move_head", "unlock_empty", "unlock_head"}
         => head_lock = {t}

Owned ==
  /\ \A t \in QueueUser : Owns(t) => tmp[t] \in allocated
  /\ \A t \in Enqueuers : Owns(t) => qnext[tmp[t]] = NULL
  /\ \A t, u \in QueueUser : Owns(t) /\ Owns(u) /\ t # u => tmp[t] # tmp[u]

\* What a dequeuer has read is still so: the dummy is the head, and its
\* successor stays its successor.
HeadRead ==
  \A t \in Dequeuers :
    /\ qpc[t] \in {"read_next", "move_head"} => tmp[t] = head
    /\ qpc[t] = "move_head" => new_head[t] = qnext[head] /\ new_head[t] # NULL

\* From head on every node has a successor in the list that no other node has,
\* except for the last one.  tail itself may already be freed, but not while
\* another thread can follow it.
Linked ==
  /\ head \in Chain
  /\ \A n \in Node : IsLast(n) => n \in Chain
  /\ \A n \in Chain : qnext[n] = NULL <=> IsLast(n)
  /\ \A n \in Chain : qnext[n] # NULL => qnext[n] \in Chain \ {head}
  /\ \A n1, n2 \in Chain : qnext[n1] = qnext[n2] /\ qnext[n1] # NULL => n1 = n2

QueueInv == QueueTypeOK /\ EndsHeld /\ Owned /\ HeadRead /\ Linked /\ ~fault

LEMMA QueueInit ==
  ASSUME QueueArgs, Queue!Queue_Init
  PROVE  QueueInv
<1> USE DEF QueueArgs
<1>1. PICK n \in Node : /\ head = n /\ tail = n /\ allocated = {n}
                        /\ tmp = [t \in QueueUser |-> NULL]
  BY DEF Queue!Queue_Init, QueueUser
<1>2. /\ qpc = [t \in QueueUser |-> "idle"] /\ qnext = [k \in Node |-> NULL]
      /\ head_lock = {} /\ tail_lock = {} /\ new_head = [t \in Dequeuers |-> NULL] /\ ~fault
  BY DEF Queue!Queue_Init, QueueUser
<1>3. \A t \in QueueUser : qpc[t] = "idle"
  BY <1>2
<1>4. QueueTypeOK
  BY <1>1, <1>2 DEF QueueTypeOK, EnqLabel, DeqLabel, QueueUser
<1>5. EndsHeld /\ Owned /\ HeadRead
  BY <1>3 DEF EndsHeld, Owned, Owns, HeadRead, QueueUser
<1>6. Chain = {n} /\ \A k : IsLast(k) <=> k = n
  BY <1>1, <1>3 DEF Chain, Owns, IsLast, Linking, QueueUser
<1>7. Linked
  BY <1>1, <1>2, <1>6 DEF Linked
<1> QED BY <1>2, <1>4, <1>5, <1>7 DEF QueueInv

\* A step that takes thread t to label l and leaves the lists and what the others
\* own as they were.
LEMMA SameList ==
  ASSUME QueueInv, NEW t \in QueueUser, NEW l \in EnqLabel \cup DeqLabel,
         t \in Enqueuers => l \in EnqLabel, t \in Dequeuers => l \in DeqLabel,
         qpc' = [qpc EXCEPT ![t] = l],
         l \in {"lock_tail", "link", "unlock_head", "free"} <=> Owns(t),
         Linking(t) <=> t \in Enqueuers /\ l = "advance_tail",
         Owns(t) \/ Linking(t) => tmp'[t] = tmp[t],
         \A u \in QueueUser \ {t} : tmp'[u] = tmp[u],
         UNCHANGED <<head, tail, qnext, allocated>>
  PROVE  Owned' /\ Linked'
<1>1. /\ qpc'[t] = l /\ \A u \in QueueUser \ {t} : qpc'[u] = qpc[u]
      /\ Enqueuers \subseteq QueueUser
  BY DEF QueueInv, QueueTypeOK, QueueUser
<1>2. \A u \in QueueUser : (Owns(u)' <=> Owns(u)) /\ (Owns(u) => tmp'[u] = tmp[u])
  BY <1>1 DEF Owns
<1>3. \A u \in Enqueuers : (Linking(u)' <=> Linking(u)) /\ (Linking(u) => tmp'[u] = tmp[u])
  BY <1>1 DEF Linking
<1>4. Chain' = Chain /\ \A n : IsLast(n)' <=> IsLast(n)
  <2>1. Chain' = Chain
    BY <1>2 DEF Chain
  <2>2. \A n : IsLast(n)' <=> IsLast(n)
    BY <1>3 DEF IsLast
  <2> QED BY <2>1, <2>2
<1>5. Owned'
  BY <1>1, <1>2 DEF QueueInv, Owned
<1>6. Linked'
  BY <1>4 DEF QueueInv, Linked
<1> QED BY <1>5, <1>6

LEMMA QueueNewNode ==
  ASSUME QueueArgs, QueueInv, NEW t \in Enqueuers, Queue!NewNode(t)
  PROVE  QueueInv'
<1> USE DEF QueueInv, QueueArgs
<1>1. PICK k \in Node \ allocated :
        /\ qpc[t] = "idle" /\ qpc' = [qpc EXCEPT ![t] = "lock_tail"]
        /\ allocated' = allocated \cup {k} /\ tmp' = [tmp EXCEPT ![t] = k]
        /\ qnext' = [qnext EXCEPT ![k] = NULL]
        /\ UNCHANGED <<head, tail, head_lock, tail_lock, new_head, fault>>
  BY DEF Queue!NewNode, Queue!Goto, Queue!queue
<1>2. /\ t \in QueueUser /\ qpc'[t] = "lock_tail" /\ tmp'[t] = k
      /\ \A u \in QueueUser \ {t} : qpc'[u] = qpc[u] /\ tmp'[u] = tmp[u]
      /\ qnext'[k] = NULL /\ \A n \in Node \ {k} : qnext'[n] = qnext[n]
      /\ Enqueuers \subseteq QueueUser /\ Dequeuers \subseteq QueueUser
      /\ t \notin Dequeuers
  BY <1>1 DEF QueueTypeOK, QueueUser
<1>3. QueueTypeOK'
  BY <1>1, <1>2 DEF QueueTypeOK, EnqLabel
<1>4. /\ Owns(t)' /\ ~Owns(t) /\ \A u \in QueueUser \ {t} : Owns(u)' <=> Owns(u)
      /\ \A u \in Enqueuers : (Linking(u)' <=> Linking(u)) /\ (Linking(u) => u # t)
  BY <1>1, <1>2 DEF Owns, Linking
<1>5. Chain' = Chain
  BY <1>1, <1>2, <1>4 DEF Chain
<1>6. \A n : IsLast(n)' <=> IsLast(n)
  BY <1>1, <1>2, <1>4 DEF IsLast
<1>7. Linked'
  <2>1. Chain \subseteq Node \ {k}
    BY DEF Chain, QueueTypeOK
  <2> QED BY <1>1, <1>2, <1>5, <1>6, <2>1 DEF Linked
<1>8. Owned'
  <2>1. \A u \in QueueUser \ {t} : Owns(u) => tmp[u] # k /\ tmp[u] \in Node \ {k}
    BY DEF Owned, QueueTypeOK
  <2> QED BY <1>1, <1>2, <1>4, <2>1 DEF Owned
<1>9. EndsHeld' /\ HeadRead'
  <2>1. head \in Node \ {k}
    BY DEF Linked, Chain, QueueTypeOK
  <2> QED BY <1>1, <1>2, <2>1 DEF EndsHeld, HeadRead
<1> QED BY <1>1, <1>3, <1>7, <1>8, <1>9

LEMMA QueueLockTail ==
  ASSUME QueueArgs, QueueInv, NEW t \in Enqueuers, Queue!LockTail(t) \/ Queue!UnlockTail(t)
  PROVE  QueueInv'
<1> USE DEF QueueInv, QueueArgs
<1>1. PICK l \in {"link", "idle"} :
        /\ qpc' = [qpc EXCEPT ![t] = l]
        /\ l = "link" => qpc[t] = "lock_tail" /\ tail_lock = {} /\ tail_lock' = {t} /\ tmp' = tmp
        /\ l = "idle" => qpc[t] = "unlock_tail" /\ tail_lock' = {} /\ tmp' = [tmp EXCEPT ![t] = NULL]
        /\ UNCHANGED <<head, tail, head_lock, qnext, allocated, new_head, fault>>
  BY DEF Queue!LockTail, Queue!UnlockTail, Queue!Goto, Queue!memory, Queue!locals
<1>2. /\ t \in QueueUser /\ t \notin Dequeuers
      /\ Enqueuers \subseteq QueueUser /\ Dequeuers \subseteq QueueUser
  BY DEF QueueUser
<1>3. /\ qpc'[t] = l /\ \A u \in QueueUser \ {t} : qpc'[u] = qpc[u] /\ tmp'[u] = tmp[u]
      /\ qpc[t] = "lock_tail" => tmp'[t] = tmp[t]
  BY <1>1, <1>2 DEF QueueTypeOK
<1>4. QueueTypeOK'
  BY <1>1, <1>2, <1>3 DEF QueueTypeOK, EnqLabel
<1>5. Owned' /\ Linked'
  <2>1. l \in EnqLabel
    BY <1>1 DEF EnqLabel
  <2>2. l \in {"lock_tail", "link", "unlock_head", "free"} <=> Owns(t)
    BY <1>1 DEF Owns
  <2>3. ~Linking(t) /\ l # "advance_tail" /\ (Owns(t) => tmp'[t] = tmp[t])
    BY <1>1, <1>3 DEF Linking, Owns
  <2> QED BY <1>1, <1>2, <1>3, <2>1, <2>2, <2>3, SameList
<1>6. EndsHeld'
  BY <1>1, <1>2, <1>3 DEF EndsHeld
<1>7. HeadRead'
  BY <1>1, <1>2, <1>3 DEF HeadRead
<1> QED BY <1>1, <1>4, <1>5, <1>6, <1>7

\* The node becomes the last one of the list; tail is the old last one, because
\* no other thread is between Link and AdvanceTail.
LEMMA QueueLink ==
  ASSUME QueueArgs, QueueInv, NEW t \in Enqueuers, Queue!Link(t)
  PROVE  QueueInv'
<1> USE DEF QueueInv, QueueArgs
<1>1. /\ qpc[t] = "link" /\ qpc' = [qpc EXCEPT ![t] = "advance_tail"]
      /\ qnext' = [qnext EXCEPT ![tail] = tmp[t]] /\ fault' = (fault \/ tail \notin allocated)
      /\ UNCHANGED <<head, tail, head_lock, tail_lock, allocated, tmp, new_head>>
  BY DEF Queue!Link, Queue!Goto, Queue!Use, Queue!queue, Queue!locals
<1>2. /\ t \in QueueUser /\ t \notin Dequeuers
      /\ Enqueuers \subseteq QueueUser /\ Dequeuers \subseteq QueueUser
  BY DEF QueueUser
<1>3. /\ qpc'[t] = "advance_tail" /\ \A u \in QueueUser \ {t} : qpc'[u] = qpc[u]
      /\ Owns(t) /\ ~Owns(t)' /\ \A u \in QueueUser \ {t} : Owns(u)' <=> Owns(u)
  BY <1>1, <1>2 DEF QueueTypeOK, Owns
<1>4. \A u \in Enqueuers : ~Linking(u) /\ (Linking(u)' <=> u = t)
  BY <1>1, <1>2, <1>3 DEF Linking, EndsHeld
<1>5. (\A n : IsLast(n) <=> n = tail) /\ (\A n : IsLast(n)' <=> n = tmp[t])
  BY <1>1, <1>4 DEF IsLast
<1>6. tail \in Chain /\ qnext[tail] = NULL /\ tmp[t] \in allocated /\ tmp[t] \notin Chain
      /\ tmp[t] \in Node /\ tail \in Node /\ tmp[t] # tail /\ qnext[tmp[t]] = NULL /\ ~fault'
  BY <1>1, <1>2, <1>3, <1>5 DEF Linked, Owned, Chain, QueueTypeOK
<1>7. Chain' = Chain \cup {tmp[t]}
  <2>1. \A u \in QueueUser \ {t} : Owns(u) => tmp[u] # tmp[t]
    BY <1>2, <1>3 DEF Owned
  <2> QED BY <1>1, <1>2, <1>3, <1>6, <2>1 DEF Chain
<1>8. /\ qnext'[tail] = tmp[t] /\ qnext'[tmp[t]] = NULL
      /\ \A n \in Node \ {tail} : qnext'[n] = qnext[n]
      /\ Chain \subseteq Node
  BY <1>1, <1>6 DEF QueueTypeOK, Chain
<1>9. QueueTypeOK'
  BY <1>1, <1>2, <1>3, <1>6 DEF QueueTypeOK, EnqLabel
<1>10. Linked'
  <2>1. head' \in Chain' /\ \A n \in Node : IsLast(n)' => n \in Chain'
    BY <1>1, <1>5, <1>7 DEF Linked
  <2>2. \A n \in Chain' : qnext'[n] = NULL <=> IsLast(n)'
    BY <1>5, <1>6, <1>7, <1>8 DEF Linked
  <2>3. \A n \in Chain' : qnext'[n] # NULL => qnext'[n] \in Chain' \ {head'}
    BY <1>1, <1>5, <1>6, <1>7, <1>8 DEF Linked
  <2>4. \A n1, n2 \in Chain' : qnext'[n1] = qnext'[n2] /\ qnext'[n1] # NULL => n1 = n2
    BY <1>5, <1>6, <1>7, <1>8 DEF Linked
  <2> QED BY <2>1, <2>2, <2>3, <2>4 DEF Linked
<1>11. Owned'
  <2>1. \A u \in QueueUser : Owns(u) => tmp[u] # tail /\ tmp[u] \in Node
    BY <1>6 DEF Chain, Owned, QueueTypeOK
  <2> QED BY <1>1, <1>2, <1>3, <1>8, <2>1 DEF Owned
<1>12. EndsHeld' /\ HeadRead'
  <2>1. qnext[head] # NULL => head # tail /\ head \in Node
    BY <1>6 DEF QueueTypeOK
  <2> QED BY <1>1, <1>2, <1>3, <1>8, <2>1 DEF EndsHeld, HeadRead
<1> QED BY <1>6, <1>9, <1>10, <1>11, <1>12

LEMMA QueueAdvanceTail ==
  ASSUME QueueArgs, QueueInv, NEW t \in Enqueuers, Queue!AdvanceTail(t)
  PROVE  QueueInv'
<1> USE DEF QueueInv, QueueArgs
<1>1. /\ qpc[t] = "advance_tail" /\ qpc' = [qpc EXCEPT ![t] = "unlock_tail"]
      /\ tail' = tmp[t]
      /\ UNCHANGED <<head, head_lock, tail_lock, qnext, allocated, tmp, new_head, fault>>
  BY DEF Queue!AdvanceTail, Queue!Goto, Queue!memory, Queue!locals
<1>2. /\ t \in QueueUser /\ t \notin Dequeuers
      /\ Enqueuers \subseteq QueueUser /\ Dequeuers \subseteq QueueUser
  BY DEF QueueUser
<1>3. /\ qpc'[t] = "unlock_tail" /\ \A u \in QueueUser \ {t} : qpc'[u] = qpc[u]
      /\ \A u \in QueueUser : Owns(u)' <=> Owns(u)
  BY <1>1, <1>2 DEF QueueTypeOK, Owns
<1>4. \A u \in Enqueuers : (Linking(u) <=> u = t) /\ ~Linking(u)'
  BY <1>1, <1>2, <1>3 DEF Linking, EndsHeld
<1>5. \A n : (IsLast(n) <=> n = tmp[t]) /\ (IsLast(n)' <=> IsLast(n))
  BY <1>1, <1>4 DEF IsLast
<1>6. Chain' = Chain
  BY <1>1, <1>3 DEF Chain
<1>7. tmp[t] \in Node
  BY <1>1 DEF QueueTypeOK
<1>8. QueueTypeOK'
  BY <1>1, <1>2, <1>3, <1>7 DEF QueueTypeOK, EnqLabel
<1>9. Linked' /\ Owned'
  BY <1>1, <1>2, <1>3, <1>5, <1>6 DEF Linked, Owned
<1>10. EndsHeld' /\ HeadRead'
  BY <1>1, <1>2, <1>3 DEF EndsHeld, HeadRead
<1> QED BY <1>1, <1>8, <1>9, <1>10

LEMMA QueueLockHead ==
  ASSUME QueueArgs, QueueInv, NEW t \in Dequeuers, Queue!LockHead(t) \/ Queue!UnlockEmpty(t)
  PROVE  QueueInv'
<1> USE DEF QueueInv, QueueArgs
<1>1. PICK l \in {"read_head", "idle"} :
        /\ qpc' = [qpc EXCEPT ![t] = l]
        /\ l = "read_head" => qpc[t] = "idle" /\ head_lock = {} /\ head_lock' = {t} /\ tmp' = tmp
        /\ l = "idle" => qpc[t] = "unlock_empty" /\ head_lock' = {} /\ tmp' = [tmp EXCEPT ![t] = NULL]
        /\ UNCHANGED <<head, tail, tail_lock, qnext, allocated, new_head, fault>>
  BY DEF Queue!LockHead, Queue!UnlockEmpty, Queue!Goto, Queue!memory, Queue!locals
<1>2. /\ t \in QueueUser /\ t \notin Enqueuers
      /\ Enqueuers \subseteq QueueUser /\ Dequeuers \subseteq QueueUser
  BY DEF QueueUser
<1>3. qpc'[t] = l /\ \A u \in QueueUser \ {t} : qpc'[u] = qpc[u] /\ tmp'[u] = tmp[u]
  BY <1>1, <1>2 DEF QueueTypeOK
<1>4. QueueTypeOK'
  BY <1>1, <1>2, <1>3 DEF QueueTypeOK, DeqLabel
<1>5. Owned' /\ Linked'
  <2>1. l \in DeqLabel
    BY <1>1 DEF DeqLabel
  <2>2. ~Owns(t) /\ l \notin {"lock_tail", "link", "unlock_head", "free"} /\ ~Linking(t)
    BY <1>1, <1>2 DEF Owns, Linking
  <2> QED BY <1>1, <1>2, <1>3, <2>1, <2>2, SameList
<1>6. EndsHeld'
  BY <1>1, <1>2, <1>3 DEF EndsHeld
<1>7. HeadRead'
  BY <1>1, <1>2, <1>3 DEF HeadRead
<1> QED BY <1>1, <1>4, <1>5, <1>6, <1>7

\* The dummy and its successor are nodes of the list.
LEMMA QueueRead ==
  ASSUME QueueArgs, QueueInv, NEW t \in Dequeuers, Queue!ReadHead(t) \/ Queue!ReadNext(t)
  PROVE  QueueInv'
<1> USE DEF QueueInv, QueueArgs
<1>0. head \in allocated
  BY DEF Linked, Chain
<1>1. PICK l \in {"read_next", "unlock_empty", "move_head"} :
        /\ qpc' = [qpc EXCEPT ![t] = l] /\ qpc[t] \in {"read_head", "read_next"}
        /\ l = "read_next" => tmp' = [tmp EXCEPT ![t] = head] /\ new_head' = new_head
        /\ l # "read_next" => tmp' = tmp /\ new_head' = [new_head EXCEPT ![t] = qnext[head]]
                              /\ tmp[t] = head
        /\ l = "move_head" => qnext[head] # NULL
        /\ ~fault'
        /\ UNCHANGED <<head, tail, head_lock, tail_lock, qnext, allocated>>
  <2>1. CASE Queue!ReadHead(t)
    BY <2>1 DEF Queue!ReadHead, Queue!Goto, Queue!memory, Queue!queue
  <2>2. CASE Queue!ReadNext(t)
    <3>1. qpc[t] = "read_next" /\ tmp[t] = head
      BY <2>2 DEF Queue!ReadNext, Queue!Goto, HeadRead
    <3>2. ~fault'
      BY <1>0, <2>2, <3>1 DEF Queue!ReadNext, Queue!Use
    <3> QED BY <2>2, <3>1, <3>2 DEF Queue!ReadNext, Queue!Goto, Queue!memory, Queue!queue
  <2> QED BY <2>1, <2>2
<1>2. /\ t \in QueueUser /\ t \notin Enqueuers
      /\ Enqueuers \subseteq QueueUser /\ Dequeuers \subseteq QueueUser
  BY DEF QueueUser
<1>3. /\ qpc'[t] = l /\ \A u \in QueueUser \ {t} : qpc'[u] = qpc[u] /\ tmp'[u] = tmp[u]
      /\ \A u \in Dequeuers \ {t} : new_head'[u] = new_head[u]
      /\ l # "read_next" => new_head'[t] = qnext[head]
      /\ tmp'[t] = head
  BY <1>1, <1>2 DEF QueueTypeOK
<1>4. QueueTypeOK'
  <2>1. tmp' \in [QueueUser -> Node \cup {NULL}] /\ new_head' \in [Dequeuers -> Node \cup {NULL}]
    BY <1>1 DEF QueueTypeOK
  <2> QED BY <1>1, <1>2, <1>3, <2>1 DEF QueueTypeOK, DeqLabel
<1>5. Owned' /\ Linked'
  <2>1. l \in DeqLabel
    BY <1>1 DEF DeqLabel
  <2>2. ~Owns(t) /\ l \notin {"lock_tail", "link", "unlock_head", "free"} /\ ~Linking(t)
    BY <1>1, <1>2 DEF Owns, Linking
  <2> QED BY <1>1, <1>2, <1>3, <2>1, <2>2, SameList
<1>6. EndsHeld'
  BY <1>1, <1>2, <1>3 DEF EndsHeld
<1>7. HeadRead'
  BY <1>1, <1>2, <1>3 DEF HeadRead
<1> QED BY <1>1, <1>4, <1>5, <1>6, <1>7

\* The old dummy leaves the list: nothing points to it, and it was not the last.
LEMMA QueueMoveHead ==
  ASSUME QueueArgs, QueueInv, NEW t \in Dequeuers, Queue!MoveHead(t)
  PROVE  QueueInv'
<1> USE DEF QueueInv, QueueArgs
<1>1. /\ qpc[t] = "move_head" /\ qpc' = [qpc EXCEPT ![t] = "unlock_head"]
      /\ head' = new_head[t] /\ fault' = (fault \/ new_head[t] \notin allocated)
      /\ UNCHANGED <<tail, head_lock, tail_lock, qnext, allocated, tmp, new_head>>
  BY DEF Queue!MoveHead, Queue!Goto, Queue!Use, Queue!memory
<1>2. /\ t \in QueueUser /\ t \notin Enqueuers
      /\ Enqueuers \subseteq QueueUser /\ Dequeuers \subseteq QueueUser
  BY DEF QueueUser
<1>3. /\ qpc'[t] = "unlock_head" /\ \A u \in QueueUser \ {t} : qpc'[u] = qpc[u]
      /\ Owns(t)' /\ ~Owns(t) /\ \A u \in QueueUser \ {t} : Owns(u)' <=> Owns(u)
      /\ \A u \in Enqueuers : Linking(u)' <=> Linking(u)
  BY <1>1, <1>2 DEF QueueTypeOK, Owns, Linking
<1>4. tmp[t] = head /\ head' = qnext[head] /\ head' # NULL
  BY <1>1 DEF HeadRead
<1>5. head \in Chain /\ head' \in Chain \ {head} /\ Chain \subseteq allocated
  BY <1>4 DEF Linked, Chain
<1>6. Chain' = Chain \ {head}
  BY <1>1, <1>2, <1>3, <1>4 DEF Chain
<1>7. \A n : IsLast(n)' <=> IsLast(n)
  BY <1>1, <1>3 DEF IsLast
<1>8. QueueTypeOK'
  BY <1>1, <1>2, <1>3, <1>4, <1>5 DEF QueueTypeOK, DeqLabel
<1>9. Linked'
  <2>1. ~IsLast(head)
    BY <1>4, <1>5 DEF Linked
  <2>2. \A n \in Chain \ {head} : qnext[n] # head'
    BY <1>4, <1>5 DEF Linked
  <2> QED BY <1>1, <1>5, <1>6, <1>7, <2>1, <2>2 DEF Linked
<1>10. Owned'
  <2>1. \A u \in QueueUser \ {t} : Owns(u) => tmp[u] # head
    BY <1>5 DEF Chain
  <2> QED BY <1>1, <1>2, <1>3, <1>4, <1>5, <2>1 DEF Owned
<1>11. EndsHeld'
  BY <1>1, <1>2, <1>3 DEF EndsHeld
<1>12. HeadRead'
  <2>1. \A u \in Dequeuers \ {t} : qpc[u] \notin {"read_next", "move_head"}
    BY <1>1 DEF EndsHeld
  <2> QED BY <1>1, <1>2, <1>3, <2>1 DEF HeadRead
<1>13. ~fault'
  BY <1>1, <1>5
<1> QED BY <1>8, <1>9, <1>10, <1>11, <1>12, <1>13

LEMMA QueueUnlockHead ==
  ASSUME QueueArgs, QueueInv, NEW t \in Dequeuers, Queue!UnlockHead(t)
  PROVE  QueueInv'
<1> USE DEF QueueInv, QueueArgs
<1>1. /\ qpc[t] = "unlock_head" /\ qpc' = [qpc EXCEPT ![t] = "free"] /\ head_lock' = {}
      /\ UNCHANGED <<head, tail, tail_lock, qnext, allocated, tmp, new_head, fault>>
  BY DEF Queue!UnlockHead, Queue!Goto, Queue!memory, Queue!locals
<1>2. /\ t \in QueueUser /\ t \notin Enqueuers
      /\ Enqueuers \subseteq QueueUser /\ Dequeuers \subseteq QueueUser
  BY DEF QueueUser
<1>3. qpc'[t] = "free" /\ \A u \in QueueUser \ {t} : qpc'[u] = qpc[u]
  BY <1>1, <1>2 DEF QueueTypeOK
<1>4. QueueTypeOK'
  BY <1>1, <1>2, <1>3 DEF QueueTypeOK, DeqLabel
<1>5. Owned' /\ Linked'
  <2>1. "free" \in DeqLabel /\ Owns(t) /\ ~Linking(t)
    BY <1>1, <1>2 DEF DeqLabel, Owns, Linking
  <2> QED BY <1>1, <1>2, <2>1, SameList
<1>6. EndsHeld' /\ HeadRead'
  BY <1>1, <1>2, <1>3 DEF EndsHeld, HeadRead
<1> QED BY <1>1, <1>4, <1>5, <1>6

\* free() takes a node that is nobody else's and not in the list.
LEMMA QueueFree ==
  ASSUME QueueArgs, QueueInv, NEW t \in Dequeuers, Queue!Free(t)
  PROVE  QueueInv'
<1> USE DEF QueueInv, QueueArgs
<1>1. /\ qpc[t] = "free" /\ qpc' = [qpc EXCEPT ![t] = "idle"]
      /\ allocated' = allocated \ {tmp[t]} /\ fault' = (fault \/ tmp[t] \notin allocated)
      /\ tmp' = [tmp EXCEPT ![t] = NULL] /\ new_head' = [new_head EXCEPT ![t] = NULL]
      /\ UNCHANGED <<head, tail, head_lock, tail_lock, qnext>>
  BY DEF Queue!Free, Queue!Goto, Queue!Use, Queue!queue
<1>2. /\ t \in QueueUser /\ t \notin Enqueuers
      /\ Enqueuers \subseteq QueueUser /\ Dequeuers \subseteq QueueUser
  BY DEF QueueUser
<1>3. /\ qpc'[t] = "idle" /\ \A u \in QueueUser \ {t} : qpc'[u] = qpc[u] /\ tmp'[u] = tmp[u]
      /\ \A u \in Dequeuers \ {t} : new_head'[u] = new_head[u]
      /\ Owns(t) /\ ~Owns(t)' /\ \A u \in QueueUser \ {t} : Owns(u)' <=> Owns(u)
      /\ \A u \in Enqueuers : (Linking(u)' <=> Linking(u)) /\ u # t
  BY <1>1, <1>2 DEF QueueTypeOK, Owns, Linking
<1>4. Chain' = Chain
  BY <1>1, <1>2, <1>3 DEF Chain
<1>5. \A n : IsLast(n)' <=> IsLast(n)
  BY <1>1, <1>2, <1>3 DEF IsLast
<1>6. QueueTypeOK'
  BY <1>1, <1>2, <1>3 DEF QueueTypeOK, DeqLabel
<1>7. Linked'
  BY <1>1, <1>4, <1>5 DEF Linked
<1>8. Owned'
  BY <1>1, <1>2, <1>3 DEF Owned
<1>9. EndsHeld' /\ HeadRead'
  BY <1>1, <1>2, <1>3 DEF EndsHeld, HeadRead
<1>10. ~fault'
  BY <1>1, <1>2, <1>3 DEF Owned
<1> QED BY <1>6, <1>7, <1>8, <1>9, <1>10

LEMMA QueueStep ==
  ASSUME QueueArgs, QueueInv, [MCNext]_<<subject, counter, queue, hash, rw, api>>
  PROVE  QueueInv'
<1>1. ASSUME NEW t \in Enqueuers, Queue!Queue_Enqueue(t) PROVE QueueInv'
  BY <1>1, QueueNewNode, QueueLockTail, QueueLink, QueueAdvanceTail DEF Queue!Queue_Enqueue
<1>2. ASSUME NEW t \in Dequeuers, Queue!Queue_Dequeue(t) PROVE QueueInv'
  BY <1>2, QueueLockHead, QueueRead, QueueMoveHead, QueueUnlockHead, QueueFree
     DEF Queue!Queue_Dequeue
<1>3. CASE UNCHANGED queue
  <2>1. UNCHANGED <<head, tail, head_lock, tail_lock, qnext, allocated, qpc, tmp, new_head, fault>>
    BY <1>3 DEF queue
  <2> QED BY <2>1 DEF QueueInv, QueueTypeOK, EndsHeld, Owned, HeadRead, Linked, Chain, Owns,
       IsLast, Linking
<1> QED BY <1>1, <1>2, <1>3 DEF MCNext, Queue!Next

\* In concqueue.h no thread follows a pointer to a freed node and no node is
\* freed twice, however many threads enqueue and dequeue: a dequeuer never takes
\* the last node, which is the only one an enqueuer touches.
THEOREM UsesNoFreedNode ==
  ASSUME QueueArgs
  PROVE  MCSpec => []NoUseAfterFree
<1>1. MCInit => QueueInv
  BY QueueInit DEF MCInit
<1>2. QueueInv /\ [MCNext]_<<subject, counter, queue, hash, rw, api>> => QueueInv'
  BY QueueStep
<1>3. QueueInv => NoUseAfterFree
  BY DEF QueueInv, NoUseAfterFree, Queue!NoUseAfterFree
<1> QED BY <1>1, <1>2, <1>3, PTL DEF MCSpec

-----------------------------------------------------------------------------
(* The queue as a FIFO.                                                    *)

\* There are finitely many nodes, and calls are counted.
FifoArgs == QueueArgs /\ IsFiniteSet(Node) /\ MaxEnqueue \in Nat

Depth == Cardinality(Node)
Behind == Queue!Behind

LEMMA SameCardinality == \A S : Queue!Cardinality(S) = Cardinality(S)
  BY Zenon DEF Queue!Cardinality, Cardinality, Queue!IsFiniteSet, IsFiniteSet

\* The recursive definition holds for the function it defines.
BehindUnfolds ==
  \A k \in 0 .. Depth :
    Behind[k] = IF k = 0 THEN head
                ELSE IF Behind[k - 1] = NULL THEN NULL ELSE qnext[Behind[k - 1]]

LEMMA BehindExists == Depth \in Nat => BehindUnfolds
<1> SUFFICES ASSUME Depth \in Nat PROVE BehindUnfolds
  OBVIOUS
<1> DEFINE Body(h, k) == IF k = 0 THEN head
                         ELSE IF h[k - 1] = NULL THEN NULL ELSE qnext[h[k - 1]]
           Good(h) == h = [k \in 0 .. Depth |-> Body(h, k)]
           Ok(d) == \E h : \A k \in 0 .. d : h[k] = Body(h, k)
           R == {d \in Nat : Ok(d)}
<1>1. 0 \in R
  <2> DEFINE h == [k \in 0 .. 0 |-> head]
  <2>1. \A k \in 0 .. 0 : h[k] = Body(h, k)
    OBVIOUS
  <2>2. Ok(0)
    BY <2>1
  <2> HIDE DEF Ok
  <2> QED BY <2>2
<1>2. ASSUME NEW d \in Nat, d \in R PROVE d + 1 \in R
  <2>1. PICK h : \A k \in 0 .. d : h[k] = Body(h, k)
    BY <1>2
  <2> DEFINE g == [k \in 0 .. d + 1 |-> Body(h, k)]
  <2>2. \A k \in 0 .. d : g[k] = h[k]
    BY <2>1
  <2>3. ASSUME NEW k \in 0 .. d + 1 PROVE g[k] = Body(g, k)
    <3>1. g[k] = Body(h, k)
      OBVIOUS
    <3> HIDE DEF g
    <3>2. k # 0 => g[k - 1] = h[k - 1]
      <4>1. k # 0 => k - 1 \in 0 .. d
        BY <1>2
      <4> QED BY <2>2, <4>1
    <3> QED BY <3>1, <3>2
  <2>4. Ok(d + 1)
    <3> HIDE DEF g, Body
    <3> QED BY <2>3
  <2> HIDE DEF Ok
  <2> QED BY <2>4
<1>3. Depth \in R
  <2> HIDE DEF R
  <2> QED BY <1>1, <1>2, NatSetInduction
<1>4. PICK h : \A k \in 0 .. Depth : h[k] = Body(h, k)
  BY <1>3
<1> DEFINE g == [k \in 0 .. Depth |-> h[k]]
<1>5. Good(g)
  <2>1. \A k \in 0 .. Depth : k # 0 => g[k - 1] = h[k - 1]
    OBVIOUS
  <2>2. \A k \in 0 .. Depth : h[k] = Body(g, k)
    <3> HIDE DEF g
    <3> QED BY <1>4, <2>1
  <2> HIDE DEF Body
  <2> QED BY <2>2
<1>6. Good(Behind)
  <2>1. Behind = CHOOSE a : Good(a)
    BY Zenon DEF Behind, Queue!Behind, Depth, Queue!Cardinality, Cardinality, Queue!IsFiniteSet, IsFiniteSet
  <2> HIDE DEF Good
  <2> QED BY <1>5, <2>1
<1> HIDE DEF Body
<1>7. \A k \in 0 .. Depth : Behind[k] = Body(Behind, k)
  BY <1>6
<1> QED BY <1>7 DEF BehindUnfolds, Body

\* b leads from the dummy along m successors to the last node, and is the list.
IsList(m, b) ==
  /\ m \in Nat /\ b \in [0 .. m -> Chain]
  /\ b[0] = head /\ qnext[b[m]] = NULL
  /\ \A k \in 0 .. m - 1 : qnext[b[k]] = b[k + 1]
  /\ \A j, k \in 0 .. m : b[j] = b[k] => j = k
  /\ \A n \in Chain : \E k \in 0 .. m : b[k] = n

Listed == \E m, b : IsList(m, b)

\* The values are those of calls, and a new node has the one of its call.
ValuesOK ==
  /\ qvalue \in [Node -> Nat] /\ qcalls \in 0 .. MaxEnqueue /\ qrv \in [Dequeuers -> Int]
  /\ \A t \in Enqueuers : qpc[t] \in {"lock_tail", "link"} => qvalue[tmp[t]] \in 1 .. MaxEnqueue

FifoInv == QueueInv /\ Listed /\ ValuesOK

\* The contents are the values of the list without its first node.
ContentsListed ==
  \A m, b : IsList(m, b) => /\ m + 1 <= Depth
                            /\ Queue!contents \in Seq(Nat) /\ Len(Queue!contents) = m
                            /\ \A j \in 1 .. m : Queue!contents[j] = qvalue[b[j]]

LEMMA ContentsOfList == FifoArgs /\ FifoInv => ContentsListed
<1> SUFFICES ASSUME FifoArgs, QueueTypeOK, ValuesOK, NEW m, NEW b, IsList(m, b)
             PROVE  /\ m + 1 <= Depth
                    /\ Queue!contents \in Seq(Nat) /\ Len(Queue!contents) = m
                    /\ \A j \in 1 .. m : Queue!contents[j] = qvalue[b[j]]
  BY DEF ContentsListed, FifoInv, QueueInv
<1>1. Depth \in Nat /\ m \in Nat
  BY FS_CardinalityType DEF FifoArgs, Depth, IsList
<1>2. \A k \in 0 .. m : b[k] \in Node /\ b[k] # NULL
  BY DEF IsList, Chain, QueueTypeOK, FifoArgs, QueueArgs
<1>3. m + 1 <= Depth
  <2>1. b \in Injection(0 .. m, Node)
    BY <1>2 DEF IsList, Injection, IsInjective
  <2>2. Cardinality(0 .. m) <= Depth
    BY <2>1, FS_Injection DEF FifoArgs, Depth
  <2>3. Cardinality(0 .. m) = m + 1
    BY <1>1, FS_Interval
  <2> QED BY <2>2, <2>3
<1>4. BehindUnfolds
  BY <1>1, BehindExists
<1>5. \A k \in 0 .. m : Behind[k] = b[k]
  <2> DEFINE Q == {k \in Nat : k <= m => Behind[k] = b[k]}
  <2>1. 0 \in Q
    BY <1>1, <1>4 DEF BehindUnfolds, IsList
  <2>2. ASSUME NEW k \in Nat, k \in Q PROVE k + 1 \in Q
    <3> SUFFICES ASSUME k + 1 <= m PROVE Behind[k + 1] = b[k + 1]
      OBVIOUS
    <3>1. Behind[k] = b[k] /\ b[k] # NULL /\ k \in 0 .. m - 1
      BY <1>1, <1>2, <2>2
    <3>2. k + 1 \in 0 .. Depth /\ k + 1 # 0 /\ (k + 1) - 1 = k
      BY <1>1, <1>3
    <3>3. Behind[k + 1] = qnext[b[k]]
      BY <1>4, <3>1, <3>2 DEF BehindUnfolds
    <3> QED BY <3>1, <3>3 DEF IsList
  <2>3. Nat \subseteq Q
    <3> HIDE DEF Q
    <3> QED BY <2>1, <2>2, NatSetInduction
  <2> QED BY <1>1, <2>3
<1>6. \A k \in m + 1 .. Depth : Behind[k] = NULL
  <2> DEFINE Q == {k \in Nat : m + 1 + k <= Depth => Behind[m + 1 + k] = NULL}
  <2>1. 0 \in Q
    <3>1. m + 1 \in 0 .. Depth /\ m + 1 # 0 /\ (m + 1) - 1 = m /\ m + 1 + 0 = m + 1
      BY <1>1, <1>3
    <3>2. Behind[m] = b[m] /\ b[m] # NULL /\ qnext[b[m]] = NULL
      BY <1>1, <1>2, <1>5 DEF IsList
    <3>3. Behind[m + 1] = NULL
      BY <1>4, <3>1, <3>2 DEF BehindUnfolds
    <3> QED BY <3>1, <3>3
  <2>2. ASSUME NEW k \in Nat, k \in Q PROVE k + 1 \in Q
    <3> SUFFICES ASSUME m + 1 + (k + 1) <= Depth PROVE Behind[m + 1 + (k + 1)] = NULL
      OBVIOUS
    <3> DEFINE p == m + 1 + (k + 1)
    <3>1. Behind[m + 1 + k] = NULL
      BY <1>1, <2>2
    <3>2. p \in 0 .. Depth /\ p # 0 /\ p - 1 = m + 1 + k
      BY <1>1
    <3> HIDE DEF p
    <3>3. Behind[p] = NULL
      BY <1>4, <3>1, <3>2 DEF BehindUnfolds
    <3> QED BY <3>3 DEF p
  <2>3. Nat \subseteq Q
    <3> HIDE DEF Q
    <3> QED BY <2>1, <2>2, NatSetInduction
  <2>4. ASSUME NEW k \in m + 1 .. Depth PROVE Behind[k] = NULL
    <3>1. k - (m + 1) \in Nat /\ m + 1 + (k - (m + 1)) = k /\ k <= Depth
      BY <1>1
    <3>2. k - (m + 1) \in Q
      BY <2>3, <3>1
    <3> QED BY <3>1, <3>2
  <2> QED BY <2>4
<1>7. {k \in 1 .. Depth : Behind[k] # NULL} = 1 .. m
  BY <1>1, <1>2, <1>3, <1>5, <1>6
<1>8. Cardinality(1 .. m) = m
  BY <1>1, FS_Interval
<1>9. Queue!contents = [j \in 1 .. m |-> qvalue[Behind[j]]]
  BY <1>7, <1>8, SameCardinality, Zenon DEF Queue!contents, Behind, Depth
<1>10. [j \in 1 .. m |-> qvalue[Behind[j]]] = [j \in 1 .. m |-> qvalue[b[j]]]
  BY <1>1, <1>5
<1> DEFINE c == [j \in 1 .. m |-> qvalue[b[j]]]
<1>11. c \in Seq(Nat) /\ Len(c) = m /\ \A j \in 1 .. m : c[j] = qvalue[b[j]]
  BY <1>1, <1>2 DEF ValuesOK
<1> HIDE DEF c
<1>12. Queue!contents = c
  BY <1>9, <1>10 DEF c
<1> QED BY <1>3, <1>11, <1>12

LEMMA ContentsOfListNext == FifoArgs /\ FifoInv' => ContentsListed'
<1>1. FifoArgs' <=> FifoArgs
  BY DEF FifoArgs, QueueArgs
<1> QED BY <1>1, ContentsOfList, PTL

\* A step that leaves the list and its values alone leaves the contents alone.
LEMMA FifoSameList ==
  ASSUME FifoArgs, FifoInv, QueueInv', ValuesOK', head' = head, Chain' = Chain,
         \A n \in Chain : qnext'[n] = qnext[n] /\ qvalue'[n] = qvalue[n]
  PROVE  FifoInv' /\ Queue!contents' = Queue!contents
<1>1. PICK m, b : IsList(m, b)
  BY DEF FifoInv, Listed
<1>2. \A k \in 0 .. m : b[k] \in Chain
  BY <1>1 DEF IsList
<1>3. IsList(m, b)'
  BY <1>1, <1>2 DEF IsList
<1>4. FifoInv'
  BY <1>3 DEF FifoInv, Listed
<1>5. /\ Queue!contents \in Seq(Nat) /\ Len(Queue!contents) = m
      /\ \A j \in 1 .. m : Queue!contents[j] = qvalue[b[j]]
  BY <1>1, ContentsOfList DEF ContentsListed
<1>6. /\ Queue!contents' \in Seq(Nat) /\ Len(Queue!contents') = m
      /\ \A j \in 1 .. m : Queue!contents'[j] = qvalue'[b[j]]
  <2>1. ContentsListed'
    BY <1>4, ContentsOfListNext
  <2> QED BY <1>3, <2>1 DEF ContentsListed
<1>7. m \in Nat
  BY <1>1 DEF IsList
<1> DEFINE c == Queue!contents
           d == Queue!contents'
<1>8. \A j \in 1 .. m : c[j] = d[j]
  BY <1>2, <1>5, <1>6, <1>7
<1> HIDE DEF c, d
<1>9. c = d
  BY <1>5, <1>6, <1>8, SeqEqual DEF c, d
<1> QED BY <1>4, <1>9 DEF c, d

\* The nodes of the list depend on what is allocated and on who owns what.
LEMMA SameChain ==
  ASSUME allocated' = allocated,
         \A t \in QueueUser : (Owns(t)' <=> Owns(t)) /\ (Owns(t) => tmp'[t] = tmp[t])
  PROVE  Chain' = Chain
BY DEF Chain, QueueUser

\* An empty queue is a list of the dummy alone.
LEMMA EmptyOrNot ==
  ASSUME FifoArgs, FifoInv
  PROVE  qnext[head] = NULL <=> Queue!contents = <<>>
<1>1. PICK m, b : IsList(m, b)
  BY DEF FifoInv, Listed
<1>2. Queue!contents \in Seq(Nat) /\ Len(Queue!contents) = m
  BY <1>1, ContentsOfList DEF ContentsListed
<1>3. m \in Nat /\ b[0] = head
  BY <1>1 DEF IsList
<1>4. m = 0 => qnext[head] = NULL
  BY <1>1, <1>3 DEF IsList
<1>5. m # 0 => qnext[head] # NULL
  <2> SUFFICES ASSUME m # 0 PROVE qnext[head] # NULL
    OBVIOUS
  <2>1. 0 \in 0 .. m - 1 /\ 0 + 1 \in 0 .. m
    BY <1>3
  <2>2. qnext[head] = b[0 + 1] /\ b[0 + 1] \in Chain
    BY <1>1, <1>3, <2>1 DEF IsList
  <2> QED BY <2>2 DEF FifoInv, QueueInv, QueueTypeOK, Chain, FifoArgs, QueueArgs
<1>6. m = 0 <=> Queue!contents = <<>>
  BY <1>2, <1>3, EmptySeq
<1> QED BY <1>4, <1>5, <1>6

LEMMA FifoNewNode ==
  ASSUME FifoArgs, FifoInv, QueueInv', NEW t \in Enqueuers, Queue!NewNode(t)
  PROVE  FifoInv' /\ Queue!contents' = Queue!contents /\ qrv' = qrv
<1> USE DEF FifoInv, QueueInv
<1>1. PICK n \in Node \ allocated :
        /\ qpc[t] = "idle" /\ qpc' = [qpc EXCEPT ![t] = "lock_tail"]
        /\ qcalls < MaxEnqueue /\ qcalls' = qcalls + 1
        /\ allocated' = allocated \cup {n} /\ tmp' = [tmp EXCEPT ![t] = n]
        /\ qvalue' = [qvalue EXCEPT ![n] = qcalls'] /\ qnext' = [qnext EXCEPT ![n] = NULL]
        /\ UNCHANGED <<head, qrv>>
  BY DEF Queue!NewNode, Queue!Goto, Queue!queue
<1>2. t \in QueueUser /\ Enqueuers \subseteq QueueUser
  BY DEF QueueUser
<1>3. /\ qpc'[t] = "lock_tail" /\ tmp'[t] = n /\ ~Owns(t) /\ Owns(t)'
      /\ \A u \in QueueUser \ {t} : qpc'[u] = qpc[u] /\ tmp'[u] = tmp[u] /\ (Owns(u)' <=> Owns(u))
  BY <1>1, <1>2 DEF QueueTypeOK, Owns
<1>4. Chain' = Chain
  BY <1>1, <1>2, <1>3 DEF Chain
<1>5. \A k \in Chain : qnext'[k] = qnext[k] /\ qvalue'[k] = qvalue[k]
  BY <1>1 DEF Chain, QueueTypeOK, ValuesOK
<1>6. ValuesOK'
  <2>1. qcalls' \in 1 .. MaxEnqueue /\ qvalue'[n] = qcalls'
    BY <1>1 DEF ValuesOK, FifoArgs
  <2>2. ASSUME NEW u \in Enqueuers, qpc'[u] \in {"lock_tail", "link"}
        PROVE  qvalue'[tmp'[u]] \in 1 .. MaxEnqueue
    <3>1. CASE u = t
      BY <1>3, <2>1, <3>1
    <3>2. CASE u # t
      <4>1. Owns(u) /\ tmp[u] \in allocated /\ tmp'[u] = tmp[u] /\ qpc[u] \in {"lock_tail", "link"}
        BY <1>2, <1>3, <2>2, <3>2 DEF Owns, Owned
      <4> QED BY <1>1, <4>1 DEF ValuesOK, QueueTypeOK
    <3> QED BY <3>1, <3>2
  <2> QED BY <1>1, <2>1, <2>2 DEF ValuesOK
<1> QED BY <1>1, <1>4, <1>5, <1>6, FifoSameList

\* The other steps of a call that leave the list alone.
LEMMA FifoQuiet ==
  ASSUME FifoArgs, FifoInv, QueueInv', NEW t \in QueueUser,
         \/ /\ t \in Enqueuers
            /\ Queue!LockTail(t) \/ Queue!AdvanceTail(t) \/ Queue!UnlockTail(t)
         \/ /\ t \in Dequeuers
            /\ \/ Queue!LockHead(t) \/ Queue!ReadHead(t) \/ Queue!UnlockEmpty(t)
               \/ Queue!UnlockHead(t)
  PROVE  FifoInv' /\ Queue!contents' = Queue!contents /\ qrv' = qrv
<1> USE DEF FifoInv, QueueInv
<1>1. PICK p \in {<<"lock_tail", "link">>, <<"advance_tail", "unlock_tail">>, <<"unlock_tail", "idle">>,
                  <<"idle", "read_head">>, <<"read_head", "read_next">>, <<"unlock_empty", "idle">>,
                  <<"unlock_head", "free">>} :
        /\ qpc[t] = p[1] /\ qpc' = [qpc EXCEPT ![t] = p[2]]
        /\ p[1] \in {"lock_tail", "advance_tail", "unlock_head"} => tmp' = tmp
        /\ tmp' = tmp \/ \E n : tmp' = [tmp EXCEPT ![t] = n]
        /\ UNCHANGED <<head, allocated, qnext, qvalue, qrv, qcalls>>
  BY DEF Queue!LockTail, Queue!AdvanceTail, Queue!UnlockTail, Queue!LockHead, Queue!ReadHead,
         Queue!UnlockEmpty, Queue!UnlockHead, Queue!Goto, Queue!queue, Queue!memory, Queue!locals
<1>2. /\ qpc'[t] = p[2] /\ \A u \in QueueUser \ {t} : qpc'[u] = qpc[u] /\ tmp'[u] = tmp[u]
      /\ Enqueuers \subseteq QueueUser
  BY <1>1 DEF QueueTypeOK, QueueUser
<1>3. \A u \in QueueUser : (Owns(u)' <=> Owns(u)) /\ (Owns(u) => tmp'[u] = tmp[u])
  <2>1. (Owns(t)' <=> Owns(t)) /\ (Owns(t) => tmp'[t] = tmp[t])
    BY <1>1, <1>2 DEF Owns
  <2>2. \A u \in QueueUser \ {t} : (Owns(u)' <=> Owns(u)) /\ tmp'[u] = tmp[u]
    BY <1>2 DEF Owns
  <2> QED BY <2>1, <2>2
<1>4. Chain' = Chain
  BY <1>1, <1>3, SameChain
<1>5. ValuesOK'
  <2>1. \A u \in Enqueuers : qpc'[u] \in {"lock_tail", "link"} =>
          qpc[u] \in {"lock_tail", "link"} /\ tmp'[u] = tmp[u]
    BY <1>1, <1>2
  <2> QED BY <1>1, <2>1 DEF ValuesOK
<1> QED BY <1>1, <1>4, <1>5, FifoSameList

\* A dequeuer that finds no successor of the dummy has found the queue empty.
LEMMA FifoReadNext ==
  ASSUME FifoArgs, FifoInv, QueueInv', NEW t \in Dequeuers, Queue!ReadNext(t)
  PROVE  /\ FifoInv' /\ Queue!contents' = Queue!contents
         /\ IF qpc'[t] = "unlock_empty"
            THEN Queue!contents = <<>> /\ qrv' = [qrv EXCEPT ![t] = -1]
            ELSE qrv' = qrv
<1> USE DEF FifoInv, QueueInv
<1>1. /\ qpc[t] = "read_next"
      /\ qpc' = [qpc EXCEPT ![t] = IF qnext[tmp[t]] = NULL THEN "unlock_empty" ELSE "move_head"]
      /\ qrv' = [qrv EXCEPT ![t] = IF qnext[tmp[t]] = NULL THEN -1 ELSE qrv[t]]
      /\ UNCHANGED <<head, allocated, qnext, qvalue, qcalls, tmp>>
  BY DEF Queue!ReadNext, Queue!Goto, Queue!queue, Queue!memory
<1>2. /\ qpc'[t] \in {"unlock_empty", "move_head"} /\ \A u \in QueueUser \ {t} : qpc'[u] = qpc[u]
      /\ Enqueuers \subseteq QueueUser /\ t \in QueueUser /\ t \notin Enqueuers
  BY <1>1 DEF QueueTypeOK, QueueUser, FifoArgs, QueueArgs
<1>3. \A u \in QueueUser : Owns(u)' <=> Owns(u)
  BY <1>1, <1>2 DEF Owns
<1>4. Chain' = Chain
  BY <1>1, <1>3, SameChain
<1>5. ValuesOK'
  BY <1>1, <1>2 DEF ValuesOK
<1>6. tmp[t] = head
  BY <1>1 DEF HeadRead
<1>7. IF qpc'[t] = "unlock_empty"
      THEN qnext[head] = NULL /\ qrv' = [qrv EXCEPT ![t] = -1]
      ELSE qrv' = qrv
  BY <1>1, <1>2, <1>6 DEF ValuesOK, QueueTypeOK
<1>8. FifoInv' /\ Queue!contents' = Queue!contents
  BY <1>1, <1>4, <1>5, FifoSameList
<1> QED BY <1>7, <1>8, EmptyOrNot

LEMMA FifoFree ==
  ASSUME FifoArgs, FifoInv, QueueInv', NEW t \in Dequeuers, Queue!Free(t)
  PROVE  FifoInv' /\ Queue!contents' = Queue!contents /\ qrv' = qrv
<1> USE DEF FifoInv, QueueInv
<1>1. /\ qpc[t] = "free" /\ qpc' = [qpc EXCEPT ![t] = "idle"]
      /\ allocated' = allocated \ {tmp[t]} /\ tmp' = [tmp EXCEPT ![t] = NULL]
      /\ UNCHANGED <<head, qnext, qvalue, qrv, qcalls>>
  BY DEF Queue!Free, Queue!Goto, Queue!queue
<1>2. /\ t \in QueueUser /\ t \notin Enqueuers /\ Enqueuers \subseteq QueueUser
  BY DEF QueueUser, FifoArgs, QueueArgs
<1>3. /\ qpc'[t] = "idle" /\ Owns(t) /\ ~Owns(t)'
      /\ \A u \in QueueUser \ {t} : qpc'[u] = qpc[u] /\ tmp'[u] = tmp[u] /\ (Owns(u)' <=> Owns(u))
  BY <1>1, <1>2 DEF QueueTypeOK, Owns
<1>4. Chain' = Chain
  BY <1>1, <1>2, <1>3 DEF Chain
<1>5. ValuesOK'
  BY <1>1, <1>2, <1>3 DEF ValuesOK
<1> QED BY <1>1, <1>4, <1>5, FifoSameList

\* Link puts the value of the call behind the others.
LEMMA FifoLink ==
  ASSUME FifoArgs, FifoInv, QueueInv', NEW t \in Enqueuers, Queue!Link(t)
  PROVE  /\ FifoInv' /\ qrv' = qrv
         /\ Queue!contents' = Append(Queue!contents, qvalue[tmp[t]])
<1> USE DEF FifoInv, QueueInv
<1>1. /\ qpc[t] = "link" /\ qpc' = [qpc EXCEPT ![t] = "advance_tail"]
      /\ qnext' = [qnext EXCEPT ![tail] = tmp[t]]
      /\ UNCHANGED <<head, tail, allocated, tmp, qvalue, qrv, qcalls>>
  BY DEF Queue!Link, Queue!Goto, Queue!Use, Queue!queue, Queue!locals
<1>2. t \in QueueUser /\ Enqueuers \subseteq QueueUser
  BY DEF QueueUser
<1>3. /\ qpc'[t] = "advance_tail" /\ \A u \in QueueUser \ {t} : qpc'[u] = qpc[u]
      /\ Owns(t) /\ ~Owns(t)' /\ \A u \in QueueUser \ {t} : Owns(u)' <=> Owns(u)
  BY <1>1, <1>2 DEF QueueTypeOK, Owns
<1>4. \A u \in Enqueuers : ~Linking(u)
  BY <1>1, <1>2 DEF Linking, EndsHeld
<1>5. \A n : IsLast(n) <=> n = tail
  BY <1>4 DEF IsLast
<1>6. /\ tail \in Chain /\ tmp[t] \in allocated /\ tmp[t] \notin Chain /\ tmp[t] \in Node
      /\ tail \in Node /\ qnext[tmp[t]] = NULL
  BY <1>1, <1>2, <1>3, <1>5 DEF Linked, Owned, Chain, QueueTypeOK
<1>7. Chain' = Chain \cup {tmp[t]}
  <2>1. \A u \in QueueUser \ {t} : Owns(u) => tmp[u] # tmp[t]
    BY <1>2, <1>3 DEF Owned
  <2> QED BY <1>1, <1>2, <1>3, <1>6, <2>1 DEF Chain
<1>8. /\ qnext'[tail] = tmp[t] /\ qnext'[tmp[t]] = NULL
      /\ \A n \in Chain \ {tail} : qnext'[n] = qnext[n]
  BY <1>1, <1>6 DEF QueueTypeOK, Chain
<1>9. PICK m, b : IsList(m, b)
  BY DEF Listed
<1>0. PICK a : a = [k \in 0 .. m + 1 |-> IF k = m + 1 THEN tmp[t] ELSE b[k]]
  OBVIOUS
<1>10. m \in Nat /\ (\A k \in 0 .. m : b[k] \in Chain) /\ b[m] = tail
  <2>1. m \in Nat /\ \A k \in 0 .. m : b[k] \in Chain
    BY <1>9 DEF IsList
  <2>2. b[m] \in Chain /\ qnext[b[m]] = NULL
    BY <1>9, <2>1 DEF IsList
  <2>3. IsLast(b[m])
    BY <2>2 DEF Linked
  <2> QED BY <1>5, <2>1, <2>3
<1>11. a[m + 1] = tmp[t] /\ \A k \in 0 .. m : a[k] = b[k]
  BY <1>0, <1>10
<1>12. \A k \in 0 .. m + 1 : k \in 0 .. m \/ k = m + 1
  BY <1>10
<1>13. IsList(m + 1, a)'
  <2>1. m + 1 \in Nat /\ a \in [0 .. m + 1 -> Chain']
    BY <1>0, <1>7, <1>10
  <2>2. a[0] = head' /\ qnext'[a[m + 1]] = NULL
    BY <1>1, <1>8, <1>9, <1>10, <1>11 DEF IsList
  <2>3. ASSUME NEW k \in 0 .. (m + 1) - 1 PROVE qnext'[a[k]] = a[k + 1]
    <3>1. CASE k = m
      BY <1>8, <1>10, <1>11, <3>1
    <3>2. CASE k # m
      <4>1. k \in 0 .. m - 1 /\ k \in 0 .. m /\ k + 1 \in 0 .. m /\ m \in 0 .. m
        BY <1>10, <3>2
      <4>2. qnext[b[k]] = b[k + 1] /\ b[k] # b[m]
        BY <1>9, <3>2, <4>1 DEF IsList
      <4> QED BY <1>8, <1>10, <1>11, <4>1, <4>2
    <3> QED BY <3>1, <3>2
  <2>4. ASSUME NEW j \in 0 .. m + 1, NEW k \in 0 .. m + 1, a[j] = a[k] PROVE j = k
    BY <1>6, <1>9, <1>10, <1>11, <1>12, <2>4 DEF IsList
  <2>5. ASSUME NEW n \in Chain' PROVE \E k \in 0 .. m + 1 : a[k] = n
    <3>1. CASE n = tmp[t]
      <4>1. m + 1 \in 0 .. m + 1
        BY <1>10
      <4> QED BY <1>11, <3>1, <4>1
    <3>2. CASE n \in Chain
      <4>1. PICK k \in 0 .. m : b[k] = n
        BY <1>9, <3>2 DEF IsList
      <4>2. k \in 0 .. m + 1 /\ a[k] = n
        BY <1>10, <1>11, <4>1
      <4> QED BY <4>2
    <3> QED BY <1>7, <3>1, <3>2
  <2> QED BY <2>1, <2>2, <2>3, <2>4, <2>5 DEF IsList
<1>14. ValuesOK' /\ qvalue[tmp[t]] \in 1 .. MaxEnqueue
  BY <1>1, <1>2, <1>3 DEF ValuesOK
<1>15. FifoInv'
  BY <1>13, <1>14 DEF Listed
<1>16. /\ Queue!contents \in Seq(Nat) /\ Len(Queue!contents) = m
       /\ \A j \in 1 .. m : Queue!contents[j] = qvalue[b[j]]
  BY <1>9, ContentsOfList DEF ContentsListed
<1>17. /\ Queue!contents' \in Seq(Nat) /\ Len(Queue!contents') = m + 1
       /\ \A j \in 1 .. m + 1 : Queue!contents'[j] = qvalue[a[j]]
  <2>1. ContentsListed'
    BY <1>15, ContentsOfListNext
  <2> QED BY <1>1, <1>13, <2>1 DEF ContentsListed
<1> DEFINE c == Queue!contents
           d == Queue!contents'
           v == qvalue[tmp[t]]
<1>18. d = Append(c, v)
  <2>1. v \in Nat
    BY <1>14 DEF FifoArgs
  <2>2. \A j \in 1 .. m : d[j] = c[j]
    BY <1>10, <1>11, <1>16, <1>17
  <2>3. d[m + 1] = v /\ Len(d) = m + 1 /\ d \in Seq(Nat) /\ Len(c) = m /\ c \in Seq(Nat)
    BY <1>10, <1>11, <1>16, <1>17
  <2> HIDE DEF c, d, v
  <2>4. /\ Append(c, v) \in Seq(Nat) /\ Len(Append(c, v)) = m + 1 /\ Append(c, v)[m + 1] = v
        /\ \A j \in 1 .. m : Append(c, v)[j] = c[j]
    BY <2>1, <2>3, AppendProperties
  <2>5. \A j \in 1 .. m + 1 : d[j] = Append(c, v)[j]
    <3>1. \A j \in 1 .. m + 1 : j \in 1 .. m \/ j = m + 1
      BY <1>10
    <3> QED BY <2>2, <2>3, <2>4, <3>1
  <2> QED BY <2>3, <2>4, <2>5, SeqEqual
<1> QED BY <1>1, <1>14, <1>15, <1>18

\* MoveHead takes the oldest value: the first successor becomes the dummy.
LEMMA FifoMoveHead ==
  ASSUME FifoArgs, FifoInv, QueueInv', NEW t \in Dequeuers, Queue!MoveHead(t)
  PROVE  /\ FifoInv' /\ Queue!contents # <<>> /\ Queue!contents' = Tail(Queue!contents)
         /\ qrv' = [qrv EXCEPT ![t] = Head(Queue!contents)]
<1> USE DEF FifoInv, QueueInv
<1>1. /\ qpc[t] = "move_head" /\ qpc' = [qpc EXCEPT ![t] = "unlock_head"]
      /\ head' = new_head[t] /\ qrv' = [qrv EXCEPT ![t] = qvalue[new_head[t]]]
      /\ UNCHANGED <<allocated, qnext, qvalue, qcalls, tmp>>
  BY DEF Queue!MoveHead, Queue!Goto, Queue!memory
<1>2. /\ t \in QueueUser /\ t \notin Enqueuers /\ Enqueuers \subseteq QueueUser
  BY DEF QueueUser, FifoArgs, QueueArgs
<1>3. /\ qpc'[t] = "unlock_head" /\ Owns(t)' /\ ~Owns(t)
      /\ \A u \in QueueUser \ {t} : qpc'[u] = qpc[u] /\ (Owns(u)' <=> Owns(u))
  BY <1>1, <1>2 DEF QueueTypeOK, Owns
<1>4. tmp[t] = head /\ head' = qnext[head] /\ new_head[t] = qnext[head] /\ qnext[head] # NULL
  BY <1>1 DEF HeadRead
<1>5. head \in Chain /\ head' \in Chain \ {head} /\ head' \in Node
  BY <1>4 DEF Linked, Chain, QueueTypeOK
<1>6. Chain' = Chain \ {head}
  BY <1>1, <1>2, <1>3, <1>4 DEF Chain
<1>7. PICK m, b : IsList(m, b)
  BY DEF Listed
<1>8. m \in Nat \ {0} /\ b[0] = head /\ (\A k \in 0 .. m : b[k] \in Chain)
  BY <1>4, <1>7 DEF IsList
<1>9. PICK a : a = [k \in 0 .. m - 1 |-> b[k + 1]]
  OBVIOUS
<1>10. \A k \in 0 .. m - 1 : a[k] = b[k + 1] /\ k + 1 \in 0 .. m /\ b[k + 1] # head
  BY <1>7, <1>8, <1>9 DEF IsList
<1>11. IsList(m - 1, a)'
  <2>1. m - 1 \in Nat /\ a \in [0 .. m - 1 -> Chain']
    BY <1>6, <1>8, <1>9, <1>10
  <2>2. a[0] = head' /\ qnext'[a[m - 1]] = NULL
    <3>1. 0 \in 0 .. m - 1 /\ m - 1 \in 0 .. m - 1 /\ 0 + 1 = 1 /\ (m - 1) + 1 = m
      BY <1>8
    <3>2. a[0] = b[1] /\ a[m - 1] = b[m] /\ qnext[b[0]] = b[1]
      BY <1>7, <1>10, <3>1 DEF IsList
    <3> QED BY <1>1, <1>4, <1>7, <1>8, <3>2 DEF IsList
  <2>3. ASSUME NEW k \in 0 .. (m - 1) - 1 PROVE qnext'[a[k]] = a[k + 1]
    <3>1. k \in 0 .. m - 1 /\ k + 1 \in 0 .. m - 1
      BY <1>8
    <3> QED BY <1>1, <1>7, <1>10, <3>1 DEF IsList
  <2>4. ASSUME NEW j \in 0 .. m - 1, NEW k \in 0 .. m - 1, a[j] = a[k] PROVE j = k
    <3>1. j + 1 = k + 1
      BY <1>7, <1>10, <2>4 DEF IsList
    <3> QED BY <1>8, <3>1
  <2>5. ASSUME NEW n \in Chain' PROVE \E k \in 0 .. m - 1 : a[k] = n
    <3>1. PICK k \in 0 .. m : b[k] = n /\ n # head
      BY <1>6, <1>7 DEF IsList
    <3>2. k # 0
      BY <1>8, <3>1
    <3>3. k - 1 \in 0 .. m - 1 /\ (k - 1) + 1 = k
      BY <1>8, <3>2
    <3> QED BY <1>10, <3>1, <3>3
  <2> QED BY <2>1, <2>2, <2>3, <2>4, <2>5 DEF IsList
<1>12. ValuesOK'
  <2>1. qrv' \in [Dequeuers -> Int]
    BY <1>1, <1>4, <1>5 DEF ValuesOK
  <2> QED BY <1>1, <1>2, <1>3, <2>1 DEF ValuesOK
<1>13. FifoInv'
  BY <1>11, <1>12 DEF Listed
<1> DEFINE c == Queue!contents
           d == Queue!contents'
<1>14. c \in Seq(Nat) /\ Len(c) = m /\ \A j \in 1 .. m : c[j] = qvalue[b[j]]
  BY <1>7, ContentsOfList DEF ContentsListed
<1>15. d \in Seq(Nat) /\ Len(d) = m - 1 /\ \A j \in 1 .. m - 1 : d[j] = qvalue[a[j]]
  <2>1. ContentsListed'
    BY <1>13, ContentsOfListNext
  <2> QED BY <1>1, <1>11, <2>1 DEF ContentsListed
<1> HIDE DEF c, d
<1>16. c # <<>> /\ Head(c) = qvalue[new_head[t]]
  <2>1. c # <<>> /\ 1 \in 1 .. m
    BY <1>8, <1>14, EmptySeq
  <2>2. b[1] = qnext[head]
    <3>1. 0 \in 0 .. m - 1 /\ 0 + 1 = 1
      BY <1>8
    <3> QED BY <1>7, <1>8, <3>1 DEF IsList
  <2>3. Head(c) = c[1]
    BY <1>14, <2>1
  <2> QED BY <1>4, <1>14, <2>1, <2>2, <2>3
<1>17. d = Tail(c)
  <2>1. /\ Tail(c) \in Seq(Nat) /\ Len(Tail(c)) = m - 1
        /\ \A j \in 1 .. m - 1 : Tail(c)[j] = c[j + 1]
    BY <1>14, <1>16, HeadTailProperties
  <2>2. ASSUME NEW j \in 1 .. m - 1 PROVE d[j] = Tail(c)[j]
    <3>1. j \in 0 .. m - 1 /\ j + 1 \in 1 .. m
      BY <1>8
    <3>2. d[j] = qvalue[a[j]] /\ a[j] = b[j + 1] /\ Tail(c)[j] = c[j + 1]
      BY <1>10, <1>15, <2>1, <3>1
    <3>3. c[j + 1] = qvalue[b[j + 1]]
      BY <1>14, <3>1
    <3> QED BY <3>2, <3>3
  <2> QED BY <1>15, <2>1, <2>2, SeqEqual
<1> QED BY <1>1, <1>13, <1>16, <1>17 DEF c, d

LEMMA FifoInit ==
  ASSUME FifoArgs, Queue!Queue_Init
  PROVE  FifoInv
<1>1. QueueInv
  BY QueueInit DEF FifoArgs
<1>2. PICK n \in Node : head = n /\ allocated = {n}
  BY DEF Queue!Queue_Init
<1>3. qnext = [k \in Node |-> NULL] /\ \A t \in QueueUser : qpc[t] = "idle"
  BY DEF Queue!Queue_Init, QueueUser
<1>4. Chain = {n}
  BY <1>2, <1>3 DEF Chain, Owns
<1>5. PICK b : b = [k \in 0 .. 0 |-> n]
  OBVIOUS
<1>6. IsList(0, b)
  BY <1>2, <1>3, <1>4, <1>5 DEF IsList
<1>7. ValuesOK
  BY <1>3 DEF ValuesOK, Queue!Queue_Init, FifoArgs, QueueUser
<1> QED BY <1>1, <1>6, <1>7 DEF FifoInv, Listed

\* One thread moves at a time, and only three steps pass the point at which a
\* call takes effect.
LEMMA OneMoves ==
  ASSUME FifoArgs, QueueTypeOK, NEW t \in QueueUser, NEW l,
         qpc' = [qpc EXCEPT ![t] = l]
  PROVE  /\ qpc'[t] = l
         /\ \A u \in Enqueuers : Queue!Appends(u) => u = t
         /\ \A u \in Dequeuers : (Queue!Takes(u) \/ Queue!FindsEmpty(u)) => u = t
<1>1. qpc'[t] = l /\ \A u \in QueueUser \ {t} : qpc'[u] = qpc[u]
  BY DEF QueueTypeOK
<1> QED BY <1>1 DEF QueueUser, Queue!Appends, Queue!Takes, Queue!FindsEmpty

\* A step that passes no such point.
LEMMA FifoUnseen ==
  ASSUME FifoArgs, QueueTypeOK, NEW t \in QueueUser, NEW l,
         qpc' = [qpc EXCEPT ![t] = l],
         qpc[t] \notin {"link", "move_head", "read_next"},
         Queue!contents' = Queue!contents, qrv' = qrv
  PROVE  Queue!FifoStep
<1>1. /\ \A u \in Enqueuers : ~Queue!Appends(u)
      /\ \A u \in Dequeuers : ~Queue!Takes(u) /\ ~Queue!FindsEmpty(u)
  BY OneMoves DEF Queue!Appends, Queue!Takes, Queue!FindsEmpty
<1> QED BY <1>1 DEF Queue!FifoStep

LEMMA FifoNext ==
  ASSUME FifoArgs, FifoInv, QueueInv', Queue!Next
  PROVE  FifoInv' /\ Queue!FifoStep
<1>0. QueueTypeOK
  BY DEF FifoInv, QueueInv
<1>1. ASSUME NEW t \in Enqueuers, Queue!Queue_Enqueue(t)
      PROVE  FifoInv' /\ Queue!FifoStep
  <2>0. t \in QueueUser
    BY DEF QueueUser
  <2>1. CASE Queue!NewNode(t)
    <3>1. qpc[t] = "idle" /\ qpc' = [qpc EXCEPT ![t] = "lock_tail"]
      BY <2>1 DEF Queue!NewNode, Queue!Goto
    <3> QED BY <1>0, <2>0, <2>1, <3>1, FifoNewNode, FifoUnseen
  <2>2. CASE Queue!LockTail(t) \/ Queue!AdvanceTail(t) \/ Queue!UnlockTail(t)
    <3>1. FifoInv' /\ Queue!contents' = Queue!contents /\ qrv' = qrv
      BY <2>0, <2>2, FifoQuiet
    <3>2. \E l : /\ qpc[t] \in {"lock_tail", "advance_tail", "unlock_tail"}
                 /\ qpc' = [qpc EXCEPT ![t] = l]
      BY <2>2 DEF Queue!LockTail, Queue!AdvanceTail, Queue!UnlockTail, Queue!Goto
    <3> QED BY <1>0, <2>0, <3>1, <3>2, FifoUnseen
  <2>3. CASE Queue!Link(t)
    <3>1. qpc[t] = "link" /\ qpc' = [qpc EXCEPT ![t] = "advance_tail"]
      BY <2>3 DEF Queue!Link, Queue!Goto
    <3>2. Queue!Appends(t)
      BY <1>0, <2>0, <3>1 DEF Queue!Appends, QueueTypeOK
    <3> QED BY <2>3, <3>2, FifoLink DEF Queue!FifoStep
  <2> QED BY <1>1, <2>1, <2>2, <2>3 DEF Queue!Queue_Enqueue
<1>2. ASSUME NEW t \in Dequeuers, Queue!Queue_Dequeue(t)
      PROVE  FifoInv' /\ Queue!FifoStep
  <2>0. t \in QueueUser
    BY DEF QueueUser
  <2>1. CASE Queue!LockHead(t) \/ Queue!ReadHead(t) \/ Queue!UnlockEmpty(t) \/ Queue!UnlockHead(t)
    <3>1. FifoInv' /\ Queue!contents' = Queue!contents /\ qrv' = qrv
      BY <2>0, <2>1, FifoQuiet
    <3>2. \E l : /\ qpc[t] \in {"idle", "read_head", "unlock_empty", "unlock_head"}
                 /\ qpc' = [qpc EXCEPT ![t] = l]
      BY <2>1 DEF Queue!LockHead, Queue!ReadHead, Queue!UnlockEmpty, Queue!UnlockHead, Queue!Goto
    <3> QED BY <1>0, <2>0, <3>1, <3>2, FifoUnseen
  <2>2. CASE Queue!ReadNext(t)
    <3>1. /\ FifoInv' /\ Queue!contents' = Queue!contents
          /\ IF qpc'[t] = "unlock_empty"
             THEN Queue!contents = <<>> /\ qrv' = [qrv EXCEPT ![t] = -1]
             ELSE qrv' = qrv
      BY <2>2, FifoReadNext
    <3>2. \E l : qpc[t] = "read_next" /\ qpc' = [qpc EXCEPT ![t] = l]
      BY <2>2 DEF Queue!ReadNext, Queue!Goto
    <3>3. CASE qpc'[t] = "unlock_empty"
      BY <3>1, <3>2, <3>3 DEF Queue!FifoStep, Queue!FindsEmpty
    <3>4. CASE qpc'[t] # "unlock_empty"
      <4>1. \A u \in Enqueuers : ~Queue!Appends(u)
        BY <1>0, <2>0, <3>2, OneMoves DEF Queue!Appends
      <4>2. \A u \in Dequeuers : ~Queue!Takes(u) /\ ~Queue!FindsEmpty(u)
        BY <1>0, <2>0, <3>2, <3>4, OneMoves DEF Queue!Takes, Queue!FindsEmpty
      <4> QED BY <3>1, <3>4, <4>1, <4>2 DEF Queue!FifoStep
    <3> QED BY <3>1, <3>3, <3>4
  <2>3. CASE Queue!MoveHead(t)
    <3>1. qpc[t] = "move_head" /\ qpc' = [qpc EXCEPT ![t] = "unlock_head"]
      BY <2>3 DEF Queue!MoveHead, Queue!Goto
    <3>2. Queue!Takes(t)
      BY <1>0, <2>0, <3>1 DEF Queue!Takes, QueueTypeOK
    <3> QED BY <2>3, <3>2, FifoMoveHead DEF Queue!FifoStep
  <2>4. CASE Queue!Free(t)
    <3>1. qpc[t] = "free" /\ qpc' = [qpc EXCEPT ![t] = "idle"]
      BY <2>4 DEF Queue!Free, Queue!Goto
    <3> QED BY <1>0, <2>0, <2>4, <3>1, FifoFree, FifoUnseen
  <2> QED BY <1>2, <2>1, <2>2, <2>3, <2>4 DEF Queue!Queue_Dequeue
<1> QED BY <1>1, <1>2 DEF Queue!Next

LEMMA QueueOrNot ==
  [MCNext]_<<subject, counter, queue, hash, rw, api>> => Queue!Next \/ UNCHANGED queue
BY DEF MCNext

LEMMA FifoIdle ==
  ASSUME FifoArgs, FifoInv, UNCHANGED queue
  PROVE  FifoInv' /\ UNCHANGED Queue!vars
<1>1. UNCHANGED <<head, tail, head_lock, tail_lock, qnext, qvalue, allocated, qpc, tmp, new_head,
                  qrv, qcalls, fault>>
  BY DEF queue
<1>2. Chain' = Chain
  BY <1>1 DEF Chain, Owns
<1>3. QueueInv'
  BY <1>1, <1>2 DEF FifoInv, QueueInv, QueueTypeOK, EndsHeld, Owned, HeadRead, Linked, Owns,
       IsLast, Linking
<1>4. ValuesOK'
  BY <1>1 DEF FifoInv, ValuesOK
<1>5. UNCHANGED Queue!vars
  BY <1>1 DEF Queue!vars
<1> QED BY <1>1, <1>2, <1>3, <1>4, <1>5, FifoSameList

LEMMA FifoSteps ==
  ASSUME FifoArgs, FifoInv, [MCNext]_<<subject, counter, queue, hash, rw, api>>
  PROVE  FifoInv' /\ [Queue!FifoStep]_(Queue!vars)
<1>1. QueueInv'
  BY QueueStep DEF FifoInv, FifoArgs
<1> QED BY <1>1, FifoNext, FifoIdle, QueueOrNot

LEMMA FifoInvariance ==
  ASSUME FifoArgs
  PROVE  MCSpec => []FifoInv
<1>1. MCInit => FifoInv
  BY FifoInit DEF MCInit
<1> QED BY <1>1, FifoSteps, PTL DEF MCSpec

\* concqueue.h is a FIFO queue, however many threads enqueue and dequeue and
\* however many nodes there are: every enqueue puts its value behind the others at
\* one of its steps, every dequeue takes the oldest one or finds the queue empty
\* at one of its, and no other step changes the contents.
THEOREM QueueIsFifo ==
  ASSUME FifoArgs
  PROVE  MCSpec => ImplementsFifo
<1>1. FifoInv /\ [MCNext]_<<subject, counter, queue, hash, rw, api>>
        => [Queue!FifoStep]_(Queue!vars)
  BY FifoSteps
<1> QED BY <1>1, FifoInvariance, PTL DEF MCSpec, ImplementsFifo, Queue!ImplementsFifo

\* concqueue.h loses no node: with no call under way the dummy and one node per
\* value are allocated, and no others.
THEOREM QueueLeaksNothing ==
  ASSUME FifoArgs
  PROVE  MCSpec => []NoLeak
<1>1. ASSUME FifoInv, \A t \in DOMAIN qpc : qpc[t] = "idle"
      PROVE  Cardinality(allocated) = Len(Queue!contents) + 1
  <2>1. DOMAIN qpc = QueueUser
    BY <1>1 DEF FifoInv, QueueInv, QueueTypeOK
  <2>2. Chain = allocated
    BY <1>1, <2>1 DEF Chain, Owns
  <2>3. PICK m, b : IsList(m, b)
    BY <1>1 DEF FifoInv, Listed
  <2>4. Len(Queue!contents) = m /\ m \in Nat
    <3>1. ContentsListed
      BY <1>1, ContentsOfList
    <3>2. Len(Queue!contents) = m
      BY <2>3, <3>1 DEF ContentsListed
    <3>3. m \in Nat
      BY <2>3 DEF IsList
    <3> QED BY <3>2, <3>3
  <2>5. b \in Bijection(0 .. m, allocated)
    <3>1. /\ b \in [0 .. m -> allocated]
          /\ \A j, k \in 0 .. m : b[j] = b[k] => j = k
          /\ \A n \in allocated : \E k \in 0 .. m : b[k] = n
      BY <2>2, <2>3 DEF IsList
    <3>2. b \in Injection(0 .. m, allocated)
      BY <3>1 DEF Injection, IsInjective
    <3>3. b \in Surjection(0 .. m, allocated)
      BY <3>1 DEF Surjection
    <3> QED BY <3>2, <3>3 DEF Bijection
  <2>6. ExistsBijection(0 .. m, allocated)
    BY <2>5 DEF ExistsBijection
  <2>7. IsFiniteSet(0 .. m) /\ Cardinality(0 .. m) = m + 1
    BY <2>4, FS_Interval
  <2> QED BY <2>4, <2>6, <2>7, FS_Bijection
<1>2. FifoInv => NoLeak
  BY <1>1, SameCardinality DEF NoLeak, Queue!NoLeak
<1> QED BY <1>2, FifoInvariance, PTL

-----------------------------------------------------------------------------
(* The approximate counter.                                                *)

\* There is a CPU, the threads are numbered and the amounts are not negative;
\* apprxcntr.c asks for amounts above 0.  A thread of the model calls update()
\* or get(), not both.
CounterArgs ==
  /\ NUMCPUS \in Nat \ {0} /\ Threads \subseteq Nat /\ Amounts \subseteq Nat
  /\ Threads \cap Getters = {}

Cpu == Counter!Cpu
cpu(t) == Counter!cpu(t)

CounterLabel == {"idle", "add", "lock_global", "transfer", "unlock_global", "reset",
                 "unlock_local", "get", "return"}

CounterTypeOK ==
  /\ global \in Int /\ added \in Int
  /\ local \in [Cpu -> Nat] /\ llock \in [Cpu -> SUBSET Threads]
  /\ cpc \in [Threads \cup Getters -> CounterLabel]
  /\ amt \in [Threads -> Nat] /\ val \in [Getters -> Int]

\* A thread in update() is the only one that holds the lock of its CPU.
CpuHeld ==
  \A t \in Threads : cpc[t] # "idle" => llock[cpu(t)] = {t}

\* No getter has read a count that is ahead of the global one.
NotAhead == \A g \in Getters : val[g] <= global

CounterInv == CounterTypeOK /\ CpuHeld /\ Counter!NothingLost /\ NotAhead

\* The count of a CPU is below the threshold but for the thread that has just
\* seen it reach the threshold and has not reset it yet.
BelowThreshold ==
  \A c \in Cpu :
    \/ local[c] < threshold
    \/ \E t \in Threads : cpu(t) = c /\ cpc[t] \in {"lock_global", "transfer", "unlock_global", "reset"}

\* What is pending, as a function of the CPU, and NothingLost said with it.
PendingOf == [c \in Cpu |-> Counter!Pending(c)]
Total == Counter!MapThenSumSet(Counter!Pending, Cpu)
TotalIsSum == \E h : Sums(PendingOf, Cpu, h) /\ Total = h[Cpu]

LEMMA CpuFinite ==
  ASSUME CounterArgs
  PROVE  IsFiniteSet(Cpu) /\ Cardinality(Cpu) = NUMCPUS /\ \A t \in Threads : cpu(t) \in Cpu
<1>1. IsFiniteSet(0 .. NUMCPUS - 1) /\ Cardinality(0 .. NUMCPUS - 1) = NUMCPUS
  BY FS_Interval DEF CounterArgs
<1>2. \A t \in Threads : cpu(t) \in Cpu
  BY DEF CounterArgs, cpu, Counter!cpu, Cpu, Counter!Cpu
<1> QED BY <1>1, <1>2 DEF Cpu, Counter!Cpu

\* The fold of the model is such a sum.
LEMMA FoldIsSum == IsFiniteSet(Cpu) => TotalIsSum
<1> SUFFICES ASSUME IsFiniteSet(Cpu) PROVE TotalIsSum
  OBVIOUS
<1> DEFINE Body(h) == [s \in SUBSET Cpu |->
             IF s = {} THEN 0
             ELSE LET x == CHOOSE x \in s : TRUE
                  IN  Counter!Pending(x) + h[s \ {x}]]
           it == CHOOSE h : h = Body(h)
<1>1. Total = it[Cpu]
  BY Zenon DEF Total, Counter!MapThenSumSet, Counter!MapThenFoldSet
<1>2. \A h : (h = Body(h)) <=> Sums(PendingOf, Cpu, h)
  <2> TAKE h
  <2>1. Body(h) = [s \in SUBSET Cpu |-> IF s = {} THEN 0 ELSE PendingOf[Pick(s)] + h[s \ {Pick(s)}]]
    BY Picked DEF PendingOf, Pick
  <2> QED BY <2>1 DEF Sums
<1>3. PICK h : Sums(PendingOf, Cpu, h)
  BY SumsExist
<1>4. it = Body(it)
  <2>1. h = Body(h)
    BY <1>2, <1>3
  <2> HIDE DEF Body
  <2> QED BY <2>1
<1>5. Sums(PendingOf, Cpu, it)
  BY <1>2, <1>4
<1> HIDE DEF it
<1> QED BY <1>1, <1>5 DEF TotalIsSum

LEMMA FoldIsSumNext == IsFiniteSet(Cpu) => TotalIsSum'
<1>1. IsFiniteSet(Cpu)' <=> IsFiniteSet(Cpu)
  BY DEF Cpu, Counter!Cpu
<1> QED BY <1>1, FoldIsSum, PTL

LEMMA PendingType == CounterTypeOK => PendingOf \in [Cpu -> Nat]
BY DEF CounterTypeOK, PendingOf, Counter!Pending

\* A step that changes what one CPU has pending changes the sum by as much.
LEMMA TotalStep ==
  ASSUME CounterArgs, CounterTypeOK, CounterTypeOK', NEW c \in Cpu,
         \A d \in Cpu \ {c} : PendingOf'[d] = PendingOf[d]
  PROVE  Total' = Total + (PendingOf'[c] - PendingOf[c]) /\ Total \in Int
<1>1. IsFiniteSet(Cpu) /\ Cpu' = Cpu
  BY CpuFinite DEF Cpu, Counter!Cpu
<1>2. PICK h : Sums(PendingOf, Cpu, h) /\ Total = h[Cpu]
  BY <1>1, FoldIsSum DEF TotalIsSum
<1>3. PICK k : Sums(PendingOf', Cpu, k) /\ Total' = k[Cpu]
  BY <1>1, FoldIsSumNext DEF TotalIsSum, Sums
<1>4. PendingOf \in [Cpu -> Int] /\ PendingOf' \in [Cpu -> Int]
  BY <1>1, PendingType DEF CounterTypeOK, PendingOf, Counter!Pending
<1>5. k[Cpu] = h[Cpu] + (PendingOf'[c] - PendingOf[c])
  BY <1>1, <1>2, <1>3, <1>4, SumsDiffer
<1>6. h[Cpu] \in Int
  BY <1>1, <1>2, <1>4, SumsType
<1> QED BY <1>2, <1>3, <1>5, <1>6

\* A thread between the transfer and the reset; its CPU has nothing pending.
Moved(t) == cpc[t] \in {"unlock_global", "reset"}

LEMMA PendingAt ==
  ASSUME NEW c \in Cpu
  PROVE  PendingOf[c] = IF \E t \in Threads : cpu(t) = c /\ Moved(t) THEN 0 ELSE local[c]
  BY DEF PendingOf, Counter!Pending, cpu, Moved

LEMMA PendingAtNext ==
  ASSUME NEW c \in Cpu
  PROVE  PendingOf'[c] = IF \E t \in Threads : cpu(t) = c /\ Moved(t)' THEN 0 ELSE local'[c]
  BY DEF PendingOf, Counter!Pending, cpu, Counter!cpu, Moved, Cpu, Counter!Cpu

LEMMA LostNothing ==
  /\ Counter!NothingLost <=> added = global + Total
  /\ Counter!NothingLost' <=> added' = global' + Total'
BY DEF Counter!NothingLost, Total, Cpu

\* No two threads are in update() on one CPU.
LEMMA OnePerCpu ==
  ASSUME CounterInv, NEW t \in Threads, NEW u \in Threads, cpu(t) = cpu(u),
         cpc[t] # "idle", cpc[u] # "idle"
  PROVE  t = u
<1>1. llock[cpu(t)] = {t} /\ llock[cpu(u)] = {u}
  BY DEF CounterInv, CpuHeld
<1> QED BY <1>1

\* Steps that move no amount.
LEMMA CounterQuiet ==
  ASSUME CounterArgs, CounterInv, CounterTypeOK', UNCHANGED <<global, local, added>>,
         \A t \in Threads : Moved(t)' <=> Moved(t)
  PROVE  Counter!NothingLost'
<1>1. \A d \in Cpu : PendingOf'[d] = PendingOf[d] /\ PendingOf[d] \in Int
  <2> TAKE d \in Cpu
  <2> QED BY PendingAt, PendingAtNext DEF CounterInv, CounterTypeOK
<1>2. 0 \in Cpu
  BY DEF CounterArgs, Cpu, Counter!Cpu
<1>3. Total' = Total + (PendingOf'[0] - PendingOf[0]) /\ Total \in Int
  BY <1>1, <1>2, TotalStep DEF CounterInv
<1> QED BY <1>1, <1>2, <1>3, LostNothing DEF CounterInv

LEMMA CounterInit ==
  ASSUME CounterArgs, Counter!init
  PROVE  CounterInv /\ (threshold > 0 => BelowThreshold)
<1>1. CounterTypeOK
  BY DEF CounterTypeOK, Counter!init, CounterLabel, Cpu, CounterArgs
<1>2. CpuHeld /\ NotAhead
  BY DEF CpuHeld, NotAhead, Counter!init
<1>3. \A c \in Cpu : PendingOf[c] = 0
  BY PendingAt DEF Counter!init, Cpu
<1>4. Total = 0
  <2>1. IsFiniteSet(Cpu) /\ Cardinality(Cpu) \in Nat
    BY CpuFinite, FS_CardinalityType
  <2>2. PICK h : Sums(PendingOf, Cpu, h) /\ Total = h[Cpu]
    BY <2>1, FoldIsSum DEF TotalIsSum
  <2>3. PendingOf \in [Cpu -> Int]
    BY <1>1, PendingType
  <2>4. (\A c \in Cpu : PendingOf[c] >= 0) /\ (\A c \in Cpu : PendingOf[c] <= 0)
    BY <1>3
  <2>5. h[Cpu] >= Cardinality(Cpu) * 0 /\ h[Cpu] <= Cardinality(Cpu) * 0
    BY <2>1, <2>2, <2>3, <2>4, SumsBound
  <2>6. h[Cpu] \in Int
    BY <2>1, <2>2, <2>3, SumsType
  <2> QED BY <2>1, <2>2, <2>5, <2>6
<1>5. Counter!NothingLost
  BY <1>4, LostNothing DEF Counter!init
<1>6. threshold > 0 => BelowThreshold
  BY DEF BelowThreshold, Counter!init, Cpu
<1> QED BY <1>1, <1>2, <1>5, <1>6 DEF CounterInv

\* The lock of a CPU is taken and given back.
LEMMA CounterLocal ==
  ASSUME CounterArgs, CounterInv, NEW t \in Threads, Counter!LockLocal(t) \/ Counter!UnlockLocal(t)
  PROVE  CounterInv'
<1> USE DEF CounterInv
<1>1. PICK l \in {"add", "idle"} :
        /\ cpc' = [cpc EXCEPT ![t] = l] /\ UNCHANGED <<global, local, val, added>>
        /\ l = "add" => /\ cpc[t] = "idle" /\ llock[cpu(t)] = {}
                        /\ llock' = [llock EXCEPT ![cpu(t)] = {t}]
                        /\ \E a \in Amounts : amt' = [amt EXCEPT ![t] = a]
        /\ l = "idle" => /\ cpc[t] = "unlock_local" /\ amt' = amt
                         /\ llock' = [llock EXCEPT ![cpu(t)] = {}]
  BY DEF Counter!LockLocal, Counter!UnlockLocal, Counter!Goto, cpu
<1>2. cpu(t) \in Cpu /\ \A u \in Threads : cpu(u)' = cpu(u)
  BY CpuFinite DEF cpu, Counter!cpu
<1>3. CounterTypeOK'
  <2>1. llock \in [Cpu -> SUBSET Threads] /\ {t} \in SUBSET Threads /\ {} \in SUBSET Threads
    BY DEF CounterTypeOK
  <2>2. llock' \in [Cpu -> SUBSET Threads]
    BY <1>1, <2>1
  <2>3. amt' \in [Threads -> Nat]
    BY <1>1 DEF CounterTypeOK, CounterArgs
  <2>4. cpc' \in [Threads \cup Getters -> CounterLabel]
    BY <1>1 DEF CounterTypeOK, CounterLabel
  <2> QED BY <1>1, <2>2, <2>3, <2>4 DEF CounterTypeOK, Cpu, Counter!Cpu
<1>4. cpc'[t] = l /\ \A u \in Threads \ {t} : cpc'[u] = cpc[u]
  BY <1>1 DEF CounterTypeOK
<1>5. CpuHeld'
  <2>1. ASSUME NEW u \in Threads \ {t}, cpc[u] # "idle" PROVE llock'[cpu(u)] = {u}
    <3>1. llock[cpu(u)] = {u} /\ cpu(u) \in Cpu
      BY <2>1, CpuFinite DEF CpuHeld
    <3>2. cpu(u) # cpu(t)
      BY <1>1, <2>1, <3>1, OnePerCpu
    <3> QED BY <1>1, <3>1, <3>2 DEF CounterTypeOK
  <2>2. l = "add" => llock'[cpu(t)] = {t}
    BY <1>1, <1>2 DEF CounterTypeOK
  <2> QED BY <1>2, <1>4, <2>1, <2>2 DEF CpuHeld
<1>6. Counter!NothingLost'
  <2>1. \A u \in Threads : Moved(u)' <=> Moved(u)
    BY <1>1, <1>4 DEF Moved
  <2> QED BY <1>1, <1>3, <2>1, CounterQuiet
<1>7. NotAhead'
  BY <1>1 DEF NotAhead
<1> QED BY <1>3, <1>5, <1>6, <1>7

\* The global lock is taken and given back, and get() reads under it.
LEMMA CounterGlobal ==
  ASSUME CounterArgs, CounterInv,
         \/ \E t \in Threads : Counter!LockGlobal(t) \/ Counter!UnlockGlobal(t)
         \/ \E g \in Getters : Counter!get(g)
  PROVE  CounterInv'
<1> USE DEF CounterInv
<1>1. PICK t \in Threads \cup Getters, l \in CounterLabel :
        /\ cpc' = [cpc EXCEPT ![t] = l] /\ UNCHANGED <<global, local, llock, amt, added>>
        /\ t \in Threads => /\ <<cpc[t], l>> \in {<<"lock_global", "transfer">>, <<"unlock_global", "reset">>}
                            /\ val' = val
        /\ t \in Getters => val' = val \/ val' = [val EXCEPT ![t] = global]
  <2>1. CASE \E t \in Threads : Counter!LockGlobal(t) \/ Counter!UnlockGlobal(t)
    <3>1. PICK t \in Threads : Counter!LockGlobal(t) \/ Counter!UnlockGlobal(t)
      BY <2>1
    <3> USE DEF CounterLabel
    <3>2. t \notin Getters
      BY DEF CounterArgs
    <3>3. CASE Counter!LockGlobal(t)
      <4> WITNESS t \in Threads \cup Getters, "transfer" \in CounterLabel
      <4> QED BY <3>2, <3>3 DEF Counter!LockGlobal, Counter!Goto
    <3>4. CASE Counter!UnlockGlobal(t)
      <4> WITNESS t \in Threads \cup Getters, "reset" \in CounterLabel
      <4> QED BY <3>2, <3>4 DEF Counter!UnlockGlobal, Counter!Goto
    <3> QED BY <3>1, <3>3, <3>4
  <2>2. CASE \E g \in Getters : Counter!get(g)
    <3>1. PICK g \in Getters : Counter!get(g)
      BY <2>2
    <3>2. g \notin Threads
      BY DEF CounterArgs
    <3>3. \E l \in CounterLabel :
            /\ cpc' = [cpc EXCEPT ![g] = l] /\ UNCHANGED <<global, local, llock, amt, added>>
            /\ val' = val \/ val' = [val EXCEPT ![g] = global]
      BY <3>1 DEF Counter!get, Counter!GetLock, Counter!GetGlobal, Counter!GetUnlock,
                  Counter!Goto, CounterLabel
    <3> QED BY <3>2, <3>3
  <2> QED BY <2>1, <2>2
<1>2. \A u \in Threads : /\ cpu(u)' = cpu(u) /\ (Moved(u)' <=> Moved(u))
                         /\ cpc'[u] = "idle" <=> cpc[u] = "idle"
  BY <1>1 DEF cpu, Counter!cpu, Moved, CounterTypeOK, CounterArgs
<1>3. CounterTypeOK'
  BY <1>1 DEF CounterTypeOK, Cpu, Counter!Cpu
<1>4. CpuHeld'
  BY <1>1, <1>2 DEF CpuHeld
<1>5. Counter!NothingLost'
  BY <1>1, <1>2, <1>3, CounterQuiet
<1>6. NotAhead'
  BY <1>1 DEF NotAhead, CounterTypeOK
<1> QED BY <1>3, <1>4, <1>5, <1>6

\* A call of update() adds its amount to the count of its CPU.
LEMMA CounterAdd ==
  ASSUME CounterArgs, CounterInv, NEW t \in Threads, Counter!Add(t)
  PROVE  CounterInv'
<1> USE DEF CounterInv
<1>1. /\ cpc[t] = "add"
      /\ cpc' = [cpc EXCEPT ![t] = IF Counter!Full(local[cpu(t)] + amt[t]) THEN "lock_global" ELSE "unlock_local"]
      /\ local' = [local EXCEPT ![cpu(t)] = local[cpu(t)] + amt[t]] /\ added' = added + amt[t]
      /\ UNCHANGED <<global, llock, amt, val>>
  BY DEF Counter!Add, Counter!Goto, cpu
<1>2. cpu(t) \in Cpu /\ amt[t] \in Nat /\ \A u \in Threads : cpu(u)' = cpu(u)
  BY CpuFinite DEF cpu, Counter!cpu, CounterTypeOK
<1>3. CounterTypeOK'
  BY <1>1, <1>2 DEF CounterTypeOK, CounterLabel, Cpu, Counter!Cpu
<1>4. \A u \in Threads : /\ u # t => cpc'[u] = cpc[u]
                         /\ cpc'[u] = "idle" <=> cpc[u] = "idle"
                         /\ Moved(u)' <=> Moved(u)
  BY <1>1 DEF CounterTypeOK, Moved
<1>5. CpuHeld' /\ NotAhead'
  BY <1>1, <1>2, <1>4 DEF CpuHeld, NotAhead
<1>6. ~\E u \in Threads : cpu(u) = cpu(t) /\ Moved(u)
  BY <1>1, OnePerCpu DEF Moved
<1>7. /\ PendingOf[cpu(t)] = local[cpu(t)] /\ PendingOf'[cpu(t)] = local[cpu(t)] + amt[t]
      /\ \A d \in Cpu \ {cpu(t)} : PendingOf'[d] = PendingOf[d]
  BY <1>1, <1>2, <1>4, <1>6, PendingAt, PendingAtNext DEF CounterTypeOK
<1>8. Total' = Total + (PendingOf'[cpu(t)] - PendingOf[cpu(t)]) /\ Total \in Int
  BY <1>2, <1>3, <1>7, TotalStep
<1>9. Counter!NothingLost'
  BY <1>1, <1>2, <1>7, <1>8, LostNothing DEF CounterTypeOK
<1> QED BY <1>3, <1>5, <1>9

\* The transfer takes what the CPU has pending into the global count, which
\* therefore never shrinks.
LEMMA CounterTransfer ==
  ASSUME CounterArgs, CounterInv, NEW t \in Threads, Counter!Transfer(t)
  PROVE  CounterInv' /\ global' >= global
<1> USE DEF CounterInv
<1>1. /\ cpc[t] = "transfer" /\ cpc' = [cpc EXCEPT ![t] = "unlock_global"]
      /\ global' = global + local[cpu(t)] /\ UNCHANGED <<local, llock, amt, val, added>>
  BY DEF Counter!Transfer, Counter!Goto, cpu
<1>2. cpu(t) \in Cpu /\ local[cpu(t)] \in Nat /\ \A u \in Threads : cpu(u)' = cpu(u)
  BY CpuFinite DEF cpu, Counter!cpu, CounterTypeOK
<1>3. CounterTypeOK'
  BY <1>1, <1>2 DEF CounterTypeOK, CounterLabel, Cpu, Counter!Cpu
<1>4. \A u \in Threads : /\ u # t => cpc'[u] = cpc[u] /\ (Moved(u)' <=> Moved(u))
                         /\ cpc'[u] = "idle" <=> cpc[u] = "idle"
  BY <1>1 DEF CounterTypeOK, Moved
<1>5. CpuHeld' /\ NotAhead'
  BY <1>1, <1>2, <1>4 DEF CpuHeld, NotAhead, CounterTypeOK
<1>6. ~\E u \in Threads : cpu(u) = cpu(t) /\ Moved(u)
  BY <1>1, OnePerCpu DEF Moved
<1>7. Moved(t)'
  BY <1>1 DEF CounterTypeOK, Moved
<1>8. /\ PendingOf[cpu(t)] = local[cpu(t)] /\ PendingOf'[cpu(t)] = 0
      /\ \A d \in Cpu \ {cpu(t)} : PendingOf'[d] = PendingOf[d]
  BY <1>1, <1>2, <1>4, <1>6, <1>7, PendingAt, PendingAtNext
<1>9. Total' = Total + (PendingOf'[cpu(t)] - PendingOf[cpu(t)]) /\ Total \in Int
  BY <1>2, <1>3, <1>8, TotalStep
<1>10. Counter!NothingLost'
  BY <1>1, <1>2, <1>8, <1>9, LostNothing DEF CounterTypeOK
<1> QED BY <1>1, <1>2, <1>3, <1>5, <1>10 DEF CounterTypeOK

\* Between the transfer and the reset nobody else adds to the count of the
\* CPU, so that the reset takes nothing away.
LEMMA CounterReset ==
  ASSUME CounterArgs, CounterInv, NEW t \in Threads, Counter!Reset(t)
  PROVE  CounterInv'
<1> USE DEF CounterInv
<1>1. /\ cpc[t] = "reset" /\ cpc' = [cpc EXCEPT ![t] = "unlock_local"]
      /\ local' = [local EXCEPT ![cpu(t)] = 0] /\ UNCHANGED <<global, llock, amt, val, added>>
  BY DEF Counter!Reset, Counter!Goto, cpu
<1>2. cpu(t) \in Cpu /\ \A u \in Threads : cpu(u)' = cpu(u)
  BY CpuFinite DEF cpu, Counter!cpu
<1>3. CounterTypeOK'
  BY <1>1, <1>2 DEF CounterTypeOK, CounterLabel, Cpu, Counter!Cpu
<1>4. \A u \in Threads : /\ u # t => cpc'[u] = cpc[u] /\ (Moved(u)' <=> Moved(u))
                         /\ cpc'[u] = "idle" <=> cpc[u] = "idle"
  BY <1>1 DEF CounterTypeOK, Moved
<1>5. CpuHeld' /\ NotAhead'
  BY <1>1, <1>2, <1>4 DEF CpuHeld, NotAhead
<1>6. Moved(t) /\ local'[cpu(t)] = 0
  BY <1>1, <1>2 DEF CounterTypeOK, Moved
<1>7. /\ PendingOf[cpu(t)] = 0 /\ PendingOf'[cpu(t)] = 0
      /\ \A d \in Cpu \ {cpu(t)} : PendingOf'[d] = PendingOf[d]
  BY <1>1, <1>2, <1>4, <1>6, PendingAt, PendingAtNext DEF CounterTypeOK
<1>8. Total' = Total + (PendingOf'[cpu(t)] - PendingOf[cpu(t)]) /\ Total \in Int
  BY <1>2, <1>3, <1>7, TotalStep
<1>9. Counter!NothingLost'
  BY <1>1, <1>7, <1>8, LostNothing
<1> QED BY <1>3, <1>5, <1>9

\* Every step preserves the invariant, and the global count never shrinks.
LEMMA CounterStep ==
  ASSUME CounterArgs, CounterInv, Counter!Next
  PROVE  CounterInv' /\ global' >= global
<1>1. CASE \E t \in Threads : Counter!LockLocal(t) \/ Counter!UnlockLocal(t)
  BY <1>1, CounterLocal DEF Counter!LockLocal, Counter!UnlockLocal, CounterInv, CounterTypeOK
<1>2. CASE \/ \E t \in Threads : Counter!LockGlobal(t) \/ Counter!UnlockGlobal(t)
           \/ \E g \in Getters : Counter!get(g)
  <2>1. CounterInv'
    BY <1>2, CounterGlobal
  <2>2. global' = global
    BY <1>2 DEF Counter!LockGlobal, Counter!UnlockGlobal, Counter!get, Counter!GetLock,
                Counter!GetGlobal, Counter!GetUnlock
  <2> QED BY <2>1, <2>2 DEF CounterInv, CounterTypeOK
<1>3. CASE \E t \in Threads : Counter!Add(t)
  <2>1. CounterInv'
    BY <1>3, CounterAdd
  <2>2. global' = global
    BY <1>3 DEF Counter!Add
  <2> QED BY <2>1, <2>2 DEF CounterInv, CounterTypeOK
<1>4. CASE \E t \in Threads : Counter!Transfer(t)
  BY <1>4, CounterTransfer
<1>5. CASE \E t \in Threads : Counter!Reset(t)
  <2>1. CounterInv'
    BY <1>5, CounterReset
  <2>2. global' = global
    BY <1>5 DEF Counter!Reset
  <2> QED BY <2>1, <2>2 DEF CounterInv, CounterTypeOK
<1> QED BY <1>1, <1>2, <1>3, <1>4, <1>5 DEF Counter!Next, Counter!update

LEMMA BelowStep ==
  ASSUME CounterArgs, threshold \in Nat \ {0}, CounterInv, BelowThreshold, Counter!Next
  PROVE  BelowThreshold'
<1> DEFINE Full(t) == cpc[t] \in {"lock_global", "transfer", "unlock_global", "reset"}
<1> USE DEF CounterInv
<1>1. SUFFICES ASSUME NEW c \in Cpu
               PROVE  local'[c] < threshold \/ \E t \in Threads : cpu(t) = c /\ Full(t)'
  BY DEF BelowThreshold, cpu, Counter!cpu, Cpu, Counter!Cpu
<1>2. local[c] < threshold \/ \E t \in Threads : cpu(t) = c /\ Full(t)
  BY DEF BelowThreshold
<1>3. ASSUME UNCHANGED local, \A t \in Threads : Full(t) => Full(t)'
      PROVE  local'[c] < threshold \/ \E t \in Threads : cpu(t) = c /\ Full(t)'
  BY <1>2, <1>3, Zenon
<1>4. CASE \E t \in Threads : \/ Counter!LockLocal(t) \/ Counter!UnlockLocal(t)
                              \/ Counter!LockGlobal(t) \/ Counter!UnlockGlobal(t)
                              \/ Counter!Transfer(t)
  <2>1. PICK t \in Threads : \/ Counter!LockLocal(t) \/ Counter!UnlockLocal(t)
                             \/ Counter!LockGlobal(t) \/ Counter!UnlockGlobal(t)
                             \/ Counter!Transfer(t)
    BY <1>4
  <2>2. PICK p \in {<<"idle", "add">>, <<"unlock_local", "idle">>, <<"lock_global", "transfer">>,
                     <<"unlock_global", "reset">>, <<"transfer", "unlock_global">>} :
          cpc[t] = p[1] /\ cpc' = [cpc EXCEPT ![t] = p[2]] /\ local' = local
    BY <2>1 DEF Counter!LockLocal, Counter!UnlockLocal, Counter!LockGlobal, Counter!UnlockGlobal,
                Counter!Transfer, Counter!Goto
  <2>3. \A u \in Threads : Full(u) => Full(u)'
    BY <2>2 DEF CounterTypeOK
  <2> QED BY <1>3, <2>2, <2>3
<1>5. CASE \E g \in Getters : Counter!get(g)
  <2>1. \A u \in Threads : cpc'[u] = cpc[u]
    BY <1>5 DEF Counter!get, Counter!GetLock, Counter!GetGlobal, Counter!GetUnlock,
                Counter!Goto, CounterTypeOK, CounterArgs
  <2>2. UNCHANGED local
    BY <1>5 DEF Counter!get, Counter!GetLock, Counter!GetGlobal, Counter!GetUnlock
  <2> QED BY <1>3, <2>1, <2>2
<1>6. CASE \E t \in Threads : Counter!Add(t) \/ Counter!Reset(t)
  <2>1. PICK t \in Threads : Counter!Add(t) \/ Counter!Reset(t)
    BY <1>6
  <2>2. cpu(t) \in Cpu /\ local[cpu(t)] \in Nat /\ amt[t] \in Nat
    BY CpuFinite DEF CounterTypeOK
  <2>3. /\ \A u \in Threads \ {t} : cpc'[u] = cpc[u]
        /\ \A d \in Cpu \ {cpu(t)} : local'[d] = local[d]
    BY <2>1 DEF Counter!Add, Counter!Reset, Counter!Goto, cpu, CounterTypeOK
  <2>4. CASE c # cpu(t)
    BY <1>2, <2>3, <2>4
  <2>5. CASE c = cpu(t) /\ Counter!Reset(t)
    BY <2>2, <2>5 DEF Counter!Reset, cpu, CounterTypeOK
  <2>6. CASE c = cpu(t) /\ Counter!Add(t)
    <3>1. local'[c] = local[c] + amt[t] /\ local'[c] \in Nat
      BY <2>2, <2>6 DEF Counter!Add, cpu, CounterTypeOK
    <3>2. cpc'[t] = IF local[c] + amt[t] >= threshold THEN "lock_global" ELSE "unlock_local"
      BY <2>6 DEF Counter!Add, Counter!Goto, Counter!Full, cpu, CounterTypeOK
    <3> QED BY <2>6, <3>1, <3>2
  <2> QED BY <2>1, <2>4, <2>5, <2>6
<1> QED BY <1>4, <1>5, <1>6 DEF Counter!Next, Counter!update

\* What is pending is never negative.
LEMMA TotalBounds ==
  ASSUME CounterArgs, CounterTypeOK
  PROVE  Total \in Int /\ Total >= 0
<1>1. IsFiniteSet(Cpu) /\ Cardinality(Cpu) = NUMCPUS /\ NUMCPUS \in Nat
  BY CpuFinite DEF CounterArgs
<1>2. PICK h : Sums(PendingOf, Cpu, h) /\ Total = h[Cpu]
  BY <1>1, FoldIsSum DEF TotalIsSum
<1>3. PendingOf \in [Cpu -> Nat] /\ PendingOf \in [Cpu -> Int]
  BY PendingType
<1>4. h[Cpu] \in Int
  BY <1>1, <1>2, <1>3, SumsType
<1>5. h[Cpu] >= NUMCPUS * 0
  <2>1. \A c \in Cpu : PendingOf[c] >= 0
    BY <1>3
  <2> QED BY <1>1, <1>2, <1>3, <2>1, SumsBound
<1> QED BY <1>1, <1>2, <1>4, <1>5

LEMMA GlobalBehind == CounterArgs /\ CounterInv => global <= added
<1> SUFFICES ASSUME CounterArgs, CounterInv PROVE global <= added
  OBVIOUS
<1>1. Total \in Int /\ Total >= 0
  BY TotalBounds DEF CounterInv
<1> QED BY <1>1, LostNothing DEF CounterInv, CounterTypeOK

\* A call that is about to transfer its count found it below the threshold.
FoundBelow ==
  \A t \in Threads : cpc[t] \in {"lock_global", "transfer"} => local[cpu(t)] - amt[t] < threshold

LEMMA FoundBelowStep ==
  ASSUME CounterArgs, CounterInv, BelowThreshold, FoundBelow, Counter!Next
  PROVE  FoundBelow'
<1> USE DEF CounterInv
<1> DEFINE Due(t) == cpc[t] \in {"lock_global", "transfer"}
<1> SUFFICES ASSUME NEW t \in Threads, Due(t)'
             PROVE  local'[cpu(t)] - amt'[t] < threshold
  BY DEF FoundBelow, cpu, Counter!cpu
<1>1. cpu(t) \in Cpu /\ local[cpu(t)] \in Nat /\ amt[t] \in Nat
  BY CpuFinite DEF CounterTypeOK
<1>2. Due(t) => local[cpu(t)] - amt[t] < threshold
  BY DEF FoundBelow
<1>3. CASE \E g \in Getters : Counter!get(g)
  BY <1>2, <1>3 DEF Counter!get, Counter!GetLock, Counter!GetGlobal, Counter!GetUnlock,
                    Counter!Goto, CounterTypeOK, CounterArgs
<1>4. ASSUME NEW u \in Threads,
             \/ Counter!LockLocal(u) \/ Counter!LockGlobal(u) \/ Counter!Transfer(u)
             \/ Counter!UnlockGlobal(u) \/ Counter!UnlockLocal(u)
      PROVE  local'[cpu(t)] - amt'[t] < threshold
  <2>1. local' = local /\ Due(t) /\ amt'[t] = amt[t]
    BY <1>4 DEF Counter!LockLocal, Counter!LockGlobal, Counter!Transfer, Counter!UnlockGlobal,
                Counter!UnlockLocal, Counter!Goto, CounterTypeOK
  <2> QED BY <1>2, <2>1
<1>5. ASSUME NEW u \in Threads, Counter!Add(u) \/ Counter!Reset(u)
      PROVE  local'[cpu(t)] - amt'[t] < threshold
  <2>1. /\ amt' = amt /\ cpc[u] \in {"add", "reset"} /\ \A v \in Threads \ {u} : cpc'[v] = cpc[v]
        /\ \A c \in Cpu \ {cpu(u)} : local'[c] = local[c]
    BY <1>5 DEF Counter!Add, Counter!Reset, Counter!Goto, cpu, CounterTypeOK
  <2>2. CASE t # u
    <3>1. cpu(t) # cpu(u)
      BY <2>1, <2>2, OnePerCpu
    <3> QED BY <1>1, <1>2, <2>1, <2>2, <3>1
  <2>3. CASE t = u
    <3>1. Counter!Add(t)
      BY <1>5, <2>3 DEF Counter!Reset, Counter!Goto, CounterTypeOK
    <3>2. local'[cpu(t)] = local[cpu(t)] + amt[t]
      BY <1>1, <3>1 DEF Counter!Add, cpu, CounterTypeOK
    <3>3. cpc[t] = "add"
      BY <3>1 DEF Counter!Add, Counter!Goto
    <3>4. local[cpu(t)] < threshold
      <4>1. ASSUME NEW v \in Threads, cpu(v) = cpu(t), cpc[v] # "idle" PROVE v = t
        BY <3>3, <4>1, OnePerCpu
      <4> QED BY <1>1, <3>3, <4>1 DEF BelowThreshold
    <3> QED BY <1>1, <2>1, <3>2, <3>4
  <2> QED BY <2>2, <2>3
<1> QED BY <1>3, <1>4, <1>5 DEF Counter!Next, Counter!update

\* The sum of the amounts of BoundedLag.
LEMMA FoldOfAmounts ==
  Counter!MapThenSumSet(LAMBDA t : amt[t], Counter!Transferring)
    = SumOf([t \in Counter!Transferring |-> amt[t]], Counter!Transferring)
<1> DEFINE T == Counter!Transferring
           f == [t \in T |-> amt[t]]
           Body(h) == [s \in SUBSET T |->
             IF s = {} THEN 0
             ELSE LET x == CHOOSE x \in s : TRUE
                  IN  amt[x] + h[s \ {x}]]
<1>1. Counter!MapThenSumSet(LAMBDA t : amt[t], T) = (CHOOSE h : h = Body(h))[T]
  BY Zenon DEF Counter!MapThenSumSet, Counter!MapThenFoldSet
<1>2. ASSUME NEW h PROVE (h = Body(h)) <=> Sums(f, T, h)
  <2>1. Body(h) = [s \in SUBSET T |-> IF s = {} THEN 0 ELSE f[Pick(s)] + h[s \ {Pick(s)}]]
    BY Picked DEF Pick
  <2> QED BY <2>1 DEF Sums
<1>3. (CHOOSE h : h = Body(h)) = CHOOSE h : Sums(f, T, h)
  <2> HIDE DEF Body, f
  <2> QED BY <1>2
<1> HIDE DEF Body, f
<1>4. (CHOOSE h : h = Body(h))[T] = SumOf(f, T)
  BY <1>3 DEF SumOf
<1> QED BY <1>1, <1>4 DEF f

\* What is pending is what the calls that are about to transfer have added, and
\* less than the threshold for every CPU.
LEMMA LagBounded ==
  ASSUME CounterArgs, threshold \in Nat \ {0}, CounterInv, BelowThreshold, FoundBelow
  PROVE  Counter!BoundedLag
<1> USE DEF CounterInv
<1> DEFINE T == Counter!Transferring
           at == [t \in T |-> cpu(t)]
           g == [t \in T |-> amt[t]]
           d == [c \in Cpu |-> IF \E t \in T : cpu(t) = c
                               THEN PendingOf[c] - amt[CHOOSE t \in T : cpu(t) = c]
                               ELSE PendingOf[c]]
<1>1. /\ T \subseteq Threads /\ \A t \in T : cpc[t] \in {"lock_global", "transfer"}
      /\ \A t \in Threads : cpc[t] \in {"lock_global", "transfer"} => t \in T
  BY DEF Counter!Transferring
<1>2. IsFiniteSet(Cpu) /\ Cardinality(Cpu) = NUMCPUS /\ NUMCPUS \in Nat
      /\ PendingOf \in [Cpu -> Nat] /\ PendingOf \in [Cpu -> Int]
  BY CpuFinite, PendingType DEF CounterArgs
<1>3. at \in [T -> Cpu] /\ \A t \in T, u \in T : at[t] = at[u] => t = u
  <2>1. \A t \in T : cpu(t) \in Cpu
    BY <1>1, CpuFinite
  <2>2. ASSUME NEW t \in T, NEW u \in T, cpu(t) = cpu(u) PROVE t = u
    BY <1>1, <2>2, OnePerCpu
  <2> QED BY <2>1, <2>2
<1>4. IsFiniteSet(T)
  <2>1. at \in Injection(T, Cpu)
    BY <1>3 DEF Injection, IsInjective
  <2> QED BY <1>2, <2>1, FS_Injection
<1>5. g \in [T -> Int] /\ d \in [Cpu -> Int]
  <2>1. \A t \in T : amt[t] \in Int
    BY <1>1 DEF CounterTypeOK
  <2> QED BY <1>2, <2>1
<1>6. ASSUME NEW t \in T PROVE d[at[t]] = PendingOf[at[t]] - g[t]
  <2>1. (CHOOSE u \in T : cpu(u) = cpu(t)) = t
    BY <1>3
  <2> QED BY <1>3, <2>1
<1>7. \A c \in Cpu : (\A t \in T : at[t] # c) => d[c] = PendingOf[c]
  OBVIOUS
<1>8. SumOf(d, Cpu) = SumOf(PendingOf, Cpu) - SumOf(g, T)
  <2> HIDE DEF T, at, g, d
  <2> QED BY <1>2, <1>3, <1>4, <1>5, <1>6, <1>7, SumOfLess
<1>9. ASSUME NEW c \in Cpu PROVE d[c] <= threshold - 1
  <2>1. local[c] \in Nat /\ PendingOf[c] \in Nat /\ PendingOf[c] <= local[c]
    BY PendingAt DEF CounterTypeOK
  <2>2. CASE \E t \in T : at[t] = c
    <3>1. PICK t \in T : at[t] = c
      BY <2>2
    <3>2. d[c] = PendingOf[c] - amt[t] /\ cpu(t) = c /\ amt[t] \in Nat
      BY <1>1, <1>6, <3>1 DEF CounterTypeOK
    <3>3. local[c] - amt[t] < threshold
      BY <1>1, <3>2 DEF FoundBelow
    <3> QED BY <2>1, <3>2, <3>3
  <2>3. CASE \A t \in T : at[t] # c
    <3>1. CASE local[c] < threshold
      BY <1>7, <2>1, <2>3, <3>1
    <3>2. CASE \E t \in Threads : cpu(t) = c /\ Moved(t)
      BY <1>7, <2>3, <3>2, PendingAt
    <3> QED BY <1>1, <2>3, <3>1, <3>2 DEF BelowThreshold, Moved
  <2> QED BY <2>2, <2>3
<1>10. SumOf(d, Cpu) <= NUMCPUS * (threshold - 1)
  <2>1. PICK h : Sums(d, Cpu, h) /\ SumOf(d, Cpu) = h[Cpu]
    BY <1>2, SumOfSums
  <2> DEFINE b == threshold - 1
  <2>2. b \in Int /\ \A c \in Cpu : d[c] <= b
    BY <1>9
  <2>3. h[Cpu] <= Cardinality(Cpu) * b
    <3> HIDE DEF T, at, g, d, b
    <3> QED BY <1>2, <1>5, <2>1, <2>2, SumsBound
  <2> QED BY <1>2, <2>1, <2>3
<1>11. Total = SumOf(PendingOf, Cpu)
  <2>1. PICK h : Sums(PendingOf, Cpu, h) /\ Total = h[Cpu]
    BY <1>2, FoldIsSum DEF TotalIsSum
  <2>2. PICK k : Sums(PendingOf, Cpu, k) /\ SumOf(PendingOf, Cpu) = k[Cpu]
    BY <1>2, SumOfSums
  <2> QED BY <1>2, <2>1, <2>2, SumsSame
<1>12. SumOf(PendingOf, Cpu) \in Int /\ SumOf(g, T) \in Int
  BY <1>2, <1>4, <1>5, SumOfType
<1>13. added - global <= NUMCPUS * (threshold - 1) + SumOf(g, T)
  <2> DEFINE n == NUMCPUS * (threshold - 1)
  <2>1. n \in Int /\ SumOf(d, Cpu) <= n
    BY <1>2, <1>10
  <2>2. added = global + Total /\ added \in Int /\ global \in Int
    BY LostNothing DEF CounterTypeOK
  <2> HIDE DEF n, g, d, T
  <2> QED BY <1>8, <1>11, <1>12, <2>1, <2>2 DEF n
<1> QED BY <1>13, FoldOfAmounts DEF Counter!BoundedLag

\* Where the counter is the subject it takes its steps, elsewhere none.
LEMMA CounterOrNot ==
  [MCNext]_<<subject, counter, queue, hash, rw, api>> => Counter!Next \/ UNCHANGED counter
BY DEF MCNext

LEMMA CounterInvariance ==
  ASSUME CounterArgs
  PROVE  MCSpec => []CounterInv
<1>1. MCInit => CounterInv
  BY CounterInit DEF MCInit
<1>2. CounterInv /\ [MCNext]_<<subject, counter, queue, hash, rw, api>> => CounterInv'
  <2>1. ASSUME CounterInv, UNCHANGED counter PROVE CounterInv'
    <3>1. CounterTypeOK' /\ CpuHeld' /\ NotAhead'
      BY <2>1 DEF counter, CounterInv, CounterTypeOK, CpuHeld, NotAhead, Cpu, Counter!Cpu, cpu, Counter!cpu
    <3>2. Counter!NothingLost'
      <4>1. \A t \in Threads : Moved(t)' <=> Moved(t)
        BY <2>1 DEF counter, Moved
      <4> QED BY <2>1, <3>1, <4>1, CounterQuiet DEF counter
    <3> QED BY <3>1, <3>2 DEF CounterInv
  <2> QED BY <2>1, CounterStep, CounterOrNot
<1> QED BY <1>1, <1>2, PTL DEF MCSpec

\* apprxcntr.c, update(): for any threads, CPUs and amounts, every amount that
\* was added is in the global count or in the count of one CPU, and in one only:
\* the transfer and the reset are two steps, but the lock of the CPU keeps
\* everybody else from adding in between.
THEOREM LosesNoAmount ==
  ASSUME CounterArgs
  PROVE  MCSpec => []NothingLost
<1>1. CounterInv => NothingLost
  BY DEF CounterInv, NothingLost
<1> QED BY <1>1, CounterInvariance, PTL

\* apprxcntr.c, update() and get(): with a threshold of at least 1, get() lags
\* behind by less than the threshold for every CPU, and by the amounts of the
\* calls that are about to transfer, at any time.
THEOREM LagsBounded ==
  ASSUME CounterArgs, threshold \in Nat \ {0}
  PROVE  MCSpec => []BoundedLag
<1> DEFINE LagInv == BelowThreshold /\ FoundBelow
<1>1. MCInit => LagInv
  BY CounterInit DEF MCInit, FoundBelow, Counter!init
<1>2. CounterInv /\ LagInv /\ [MCNext]_<<subject, counter, queue, hash, rw, api>> => LagInv'
  <2>1. ASSUME LagInv, UNCHANGED counter PROVE LagInv'
    BY <2>1 DEF counter, BelowThreshold, FoundBelow, Cpu, Counter!Cpu, cpu, Counter!cpu
  <2> QED BY <2>1, BelowStep, FoundBelowStep, CounterOrNot
<1>3. CounterInv /\ LagInv => BoundedLag
  BY LagBounded DEF BoundedLag
<1> QED BY <1>1, <1>2, <1>3, CounterInvariance, PTL DEF MCSpec

\* apprxcntr.c, get(): what a caller sees never shrinks from one call to the
\* next and never exceeds what was added.
THEOREM GetsMonotonically ==
  ASSUME CounterArgs
  PROVE  MCSpec => GetMonotonic
<1> DEFINE Sees == \A g \in Getters : val'[g] >= val[g] /\ val'[g] <= added'
<1>1. CounterInv => global <= added
  BY GlobalBehind
<1>2. ASSUME CounterInv, CounterInv', global' <= added', Counter!Next PROVE Sees
  <2> TAKE g \in Getters
  <2>1. val'[g] <= global' /\ global' \in Int /\ added' \in Int /\ val'[g] \in Int /\ val[g] \in Int
    BY <1>2 DEF CounterInv, NotAhead, CounterTypeOK
  <2>2. val'[g] = val[g] \/ val'[g] = global
    BY <1>2 DEF Counter!Next, Counter!update, Counter!LockLocal, Counter!Add, Counter!LockGlobal,
                Counter!Transfer, Counter!UnlockGlobal, Counter!Reset, Counter!UnlockLocal,
                Counter!get, Counter!GetLock, Counter!GetGlobal, Counter!GetUnlock,
                CounterInv, CounterTypeOK
  <2>3. val'[g] >= val[g]
    BY <1>2, <2>1, <2>2 DEF CounterInv, NotAhead
  <2>4. val'[g] <= added'
    BY <1>2, <2>1
  <2> QED BY <2>3, <2>4
<1>3. CounterInv /\ CounterInv' /\ (global <= added)' /\ [MCNext]_<<subject, counter, queue, hash, rw, api>>
        => [Sees]_counter
  <2> HIDE DEF Sees
  <2> QED BY <1>2, CounterOrNot
<1>4. GetMonotonic <=> [][Sees]_counter
  BY PTL DEF GetMonotonic, Counter!GetMonotonic, Counter!vars, counter
<1> QED BY <1>1, <1>3, <1>4, CounterInvariance, PTL DEF MCSpec

-----------------------------------------------------------------------------
(* The programs of threads-api.  A thread has made the first calls of its   *)
(* script and has the others left; how many are left is where it is.       *)

Mutexes == {"g", "m1", "m2", "lock"}
ApiCalls ==
  {Api!Lock(m) : m \in Mutexes} \cup {Api!Unlock(m) : m \in Mutexes}
    \cup {<<"load">>, <<"store">>, <<"set">>, <<"poll">>, <<"signal">>, <<"wait">>}
    \cup {Api!printf("first"), Api!printf("last")}

left(t) == Len(acalls[t])
script(t) == Api!Script[program][t]

ApiTypeOK ==
  /\ program \in {"deadlock", "deadlock_global", "race", "signal", "signal_cv"}
  /\ acalls \in [Api!Thread -> Seq(ApiCalls)]
  /\ owner \in [Mutexes -> {Api!free, 0, 1}]
  /\ asleep \in SUBSET Api!Thread /\ done \in {0, 1} /\ balance \in Nat
  /\ areg \in [Api!Thread -> Nat]

\* What is left to do is the end of the script.
IsEnd(s, r) == Len(r) <= Len(s) /\ \A n \in 1 .. Len(r) : r[n] = s[Len(s) - Len(r) + n]
EndOfScript == \A t \in Api!Thread : IsEnd(script(t), acalls[t])

Nobody == asleep = {}

\* main-deadlock.c: who holds which mutex, by what it has left.
DeadlockInv ==
  /\ owner["m1"] = 0 <=> left(0) \in {3, 2}
  /\ owner["m2"] = 0 <=> left(0) \in {2, 1}
  /\ owner["m2"] = 1 <=> left(1) \in {3, 2, 1}
  /\ owner["m1"] = 1 <=> left(1) = 2

\* main-deadlock-global.c: the same, inside the lock g.
GlobalInv ==
  /\ \A t \in Api!Thread : owner["g"] = t <=> left(t) \in 1 .. 5
  /\ owner["m1"] = 0 <=> left(0) \in {4, 3}
  /\ owner["m2"] = 0 <=> left(0) \in {3, 2}
  /\ owner["m2"] = 1 <=> left(1) \in {4, 3, 2}
  /\ owner["m1"] = 1 <=> left(1) = 3

\* main-race.c: each thread has counted itself once or not at all, and what it
\* has read is still the balance.
Counted(t) == IF left(t) <= 1 THEN 1 ELSE 0
RaceInv ==
  /\ \A t \in Api!Thread : owner["lock"] = t <=> left(t) \in 1 .. 3
  /\ \A t \in Api!Thread : left(t) = 2 => areg[t] = balance
  /\ balance = Counted(0) + Counted(1)

\* main-signal.c: main() goes on only after the worker has printed.
SignalInv ==
  /\ done = 1 <=> left(0) = 0
  /\ left(1) <= 1 => done = 1
  /\ printed = IF left(0) = 2 THEN <<>> ELSE IF left(1) > 0 THEN <<"first">> ELSE <<"first", "last">>

\* main-signal-cv.c: whoever is asleep has its signal still to come.
SignalCvInv ==
  /\ owner["lock"] = 0 <=> left(0) \in 1 .. 3
  /\ owner["lock"] = 1 => left(1) \in {3, 2}
  /\ left(1) = 2 => owner["lock"] = 1
  /\ asleep \subseteq {1}
  /\ 1 \in asleep => left(1) = 3 /\ left(0) >= 2 /\ owner["lock"] # 1
  /\ done = 1 <=> left(0) <= 2
  /\ left(1) <= 2 => done = 1
  /\ printed = IF left(0) = 5 THEN <<>> ELSE IF left(1) > 0 THEN <<"first">> ELSE <<"first", "last">>

ApiInv ==
  /\ ApiTypeOK /\ EndOfScript
  /\ program # "signal_cv" => Nobody
  /\ program = "deadlock" => DeadlockInv
  /\ program = "deadlock_global" => GlobalInv
  /\ program = "race" => RaceInv
  /\ program = "signal" => SignalInv
  /\ program = "signal_cv" => SignalCvInv

LEMMA Join22 ==
  ASSUME NEW a, NEW b, NEW c, NEW d
  PROVE  <<a, b>> \o <<c, d>> = <<a, b, c, d>>
<1> DEFINE X == {a, b, c, d}  s == <<a, b>>  t == <<c, d>>  u == <<a, b, c, d>>
<1>1. s \in Seq(X) /\ t \in Seq(X) /\ u \in Seq(X)
  OBVIOUS
<1>2. Len(u) = Len(s) + Len(t)
  OBVIOUS
<1>3. \A n \in 1 .. Len(s) : u[n] = s[n]
  OBVIOUS
<1>4. \A n \in 1 .. Len(t) : u[Len(s) + n] = t[n]
  OBVIOUS
<1> HIDE DEF X, s, t, u
<1>5. s \o t = u
  BY <1>1, <1>2, <1>3, <1>4, JoinIs
<1> QED BY <1>5 DEF s, t, u

LEMMA Join14 ==
  ASSUME NEW a, NEW b, NEW c, NEW d, NEW e
  PROVE  <<a>> \o <<b, c, d, e>> = <<a, b, c, d, e>>
<1> DEFINE X == {a, b, c, d, e}  s == <<a>>  t == <<b, c, d, e>>  u == <<a, b, c, d, e>>
<1>1. s \in Seq(X) /\ t \in Seq(X) /\ u \in Seq(X)
  OBVIOUS
<1>2. Len(u) = Len(s) + Len(t)
  OBVIOUS
<1>3. \A n \in 1 .. Len(s) : u[n] = s[n]
  OBVIOUS
<1>4. \A n \in 1 .. Len(t) : u[Len(s) + n] = t[n]
  OBVIOUS
<1> HIDE DEF X, s, t, u
<1>5. s \o t = u
  BY <1>1, <1>2, <1>3, <1>4, JoinIs
<1> QED BY <1>5 DEF s, t, u

LEMMA Join51 ==
  ASSUME NEW a, NEW b, NEW c, NEW d, NEW e, NEW f
  PROVE  <<a, b, c, d, e>> \o <<f>> = <<a, b, c, d, e, f>>
<1> DEFINE X == {a, b, c, d, e, f}  s == <<a, b, c, d, e>>  t == <<f>>  u == <<a, b, c, d, e, f>>
<1>1. s \in Seq(X) /\ t \in Seq(X) /\ u \in Seq(X)
  OBVIOUS
<1>2. Len(u) = Len(s) + Len(t)
  OBVIOUS
<1>3. \A n \in 1 .. Len(s) : u[n] = s[n]
  OBVIOUS
<1>4. \A n \in 1 .. Len(t) : u[Len(s) + n] = t[n]
  OBVIOUS
<1> HIDE DEF X, s, t, u
<1>5. s \o t = u
  BY <1>1, <1>2, <1>3, <1>4, JoinIs
<1> QED BY <1>5 DEF s, t, u

LEMMA Join31 ==
  ASSUME NEW a, NEW b, NEW c, NEW d
  PROVE  <<a, b, c>> \o <<d>> = <<a, b, c, d>>
<1> DEFINE X == {a, b, c, d}  s == <<a, b, c>>  t == <<d>>  u == <<a, b, c, d>>
<1>1. s \in Seq(X) /\ t \in Seq(X) /\ u \in Seq(X)
  OBVIOUS
<1>2. Len(u) = Len(s) + Len(t)
  OBVIOUS
<1>3. \A n \in 1 .. Len(s) : u[n] = s[n]
  OBVIOUS
<1>4. \A n \in 1 .. Len(t) : u[Len(s) + n] = t[n]
  OBVIOUS
<1> HIDE DEF X, s, t, u
<1>5. s \o t = u
  BY <1>1, <1>2, <1>3, <1>4, JoinIs
<1> QED BY <1>5 DEF s, t, u

LEMMA Scripts ==
  /\ program = "deadlock" =>
       /\ script(0) = <<Api!Lock("m1"), Api!Lock("m2"), Api!Unlock("m1"), Api!Unlock("m2")>>
       /\ script(1) = <<Api!Lock("m2"), Api!Lock("m1"), Api!Unlock("m1"), Api!Unlock("m2")>>
  /\ program = "deadlock_global" =>
       /\ script(0) = <<Api!Lock("g"), Api!Lock("m1"), Api!Lock("m2"),
                        Api!Unlock("m1"), Api!Unlock("m2"), Api!Unlock("g")>>
       /\ script(1) = <<Api!Lock("g"), Api!Lock("m2"), Api!Lock("m1"),
                        Api!Unlock("m1"), Api!Unlock("m2"), Api!Unlock("g")>>
  /\ program = "race" =>
       \A t \in Api!Thread :
         script(t) = <<Api!Lock("lock"), <<"load">>, <<"store">>, Api!Unlock("lock")>>
  /\ program = "signal" =>
       /\ script(0) = <<Api!printf("first"), <<"set">> >>
       /\ script(1) = << <<"poll">>, Api!printf("last")>>
  /\ program = "signal_cv" =>
       /\ script(0) = <<Api!printf("first"), Api!Lock("lock"), <<"set">>, <<"signal">>, Api!Unlock("lock")>>
       /\ script(1) = <<Api!Lock("lock"), <<"wait">>, Api!Unlock("lock"), Api!printf("last")>>
<1> USE DEF script, Api!Script, Api!Thread
<1>1. /\ Api!deadlock[0] = <<Api!Lock("m1"), Api!Lock("m2"), Api!Unlock("m1"), Api!Unlock("m2")>>
      /\ Api!deadlock[1] = <<Api!Lock("m2"), Api!Lock("m1"), Api!Unlock("m1"), Api!Unlock("m2")>>
  BY Join22 DEF Api!deadlock
<1>2. /\ Api!deadlock_global[0] = <<Api!Lock("g"), Api!Lock("m1"), Api!Lock("m2"),
                        Api!Unlock("m1"), Api!Unlock("m2"), Api!Unlock("g")>>
      /\ Api!deadlock_global[1] = <<Api!Lock("g"), Api!Lock("m2"), Api!Lock("m1"),
                        Api!Unlock("m1"), Api!Unlock("m2"), Api!Unlock("g")>>
  <2>1. /\ <<Api!Lock("g")>> \o Api!deadlock[0]
           = <<Api!Lock("g"), Api!Lock("m1"), Api!Lock("m2"), Api!Unlock("m1"), Api!Unlock("m2")>>
        /\ <<Api!Lock("g")>> \o Api!deadlock[1]
           = <<Api!Lock("g"), Api!Lock("m2"), Api!Lock("m1"), Api!Unlock("m1"), Api!Unlock("m2")>>
    BY <1>1, Join14
  <2>2. \A t \in {0, 1} :
          Api!deadlock_global[t] = <<Api!Lock("g")>> \o Api!deadlock[t] \o <<Api!Unlock("g")>>
    BY DEF Api!deadlock_global
  <2>3. Api!deadlock_global[0] = <<Api!Lock("g"), Api!Lock("m1"), Api!Lock("m2"),
                        Api!Unlock("m1"), Api!Unlock("m2"), Api!Unlock("g")>>
    BY <2>1, <2>2, Join51
  <2>4. Api!deadlock_global[1] = <<Api!Lock("g"), Api!Lock("m2"), Api!Lock("m1"),
                        Api!Unlock("m1"), Api!Unlock("m2"), Api!Unlock("g")>>
    BY <2>1, <2>2, Join51
  <2> QED BY <2>3, <2>4
<1>3. \A t \in Api!Thread :
         Api!race[t] = <<Api!Lock("lock"), <<"load">>, <<"store">>, Api!Unlock("lock")>>
  BY DEF Api!race
<1>4. /\ Api!signal[0] = <<Api!printf("first"), <<"set">> >>
      /\ Api!signal[1] = << <<"poll">>, Api!printf("last")>>
  BY DEF Api!signal
<1>5. /\ Api!signal_cv[0] = <<Api!printf("first"), Api!Lock("lock"), <<"set">>, <<"signal">>, Api!Unlock("lock")>>
      /\ Api!signal_cv[1] = <<Api!Lock("lock"), <<"wait">>, Api!Unlock("lock"), Api!printf("last")>>
  BY Join14, Join31 DEF Api!signal_cv, Api!signal_done, Api!signal_wait
<1> QED BY <1>1, <1>2, <1>3, <1>4, <1>5

LEMMA ScriptType ==
  ASSUME program \in {"deadlock", "deadlock_global", "race", "signal", "signal_cv"}
  PROVE  \A t \in Api!Thread : script(t) \in Seq(ApiCalls)
<1>1. /\ Api!Lock("g") \in ApiCalls /\ Api!Lock("m1") \in ApiCalls
      /\ Api!Lock("m2") \in ApiCalls /\ Api!Lock("lock") \in ApiCalls
      /\ Api!Unlock("g") \in ApiCalls /\ Api!Unlock("m1") \in ApiCalls
      /\ Api!Unlock("m2") \in ApiCalls /\ Api!Unlock("lock") \in ApiCalls
      /\ Api!printf("first") \in ApiCalls /\ Api!printf("last") \in ApiCalls
  BY Zenon DEF ApiCalls, Mutexes
<1>2. /\ <<"load">> \in ApiCalls /\ <<"store">> \in ApiCalls /\ <<"set">> \in ApiCalls
      /\ <<"poll">> \in ApiCalls /\ <<"signal">> \in ApiCalls /\ <<"wait">> \in ApiCalls
  BY Zenon DEF ApiCalls
<1>3. ASSUME NEW a \in ApiCalls, NEW b \in ApiCalls, NEW c \in ApiCalls, NEW d \in ApiCalls,
             NEW e \in ApiCalls, NEW f \in ApiCalls
      PROVE  /\ <<a, b>> \in Seq(ApiCalls) /\ <<a, b, c, d>> \in Seq(ApiCalls)
             /\ <<a, b, c, d, e>> \in Seq(ApiCalls) /\ <<a, b, c, d, e, f>> \in Seq(ApiCalls)
  OBVIOUS
<1>4. script(0) \in Seq(ApiCalls) /\ script(1) \in Seq(ApiCalls)
  <2>0. /\ <<Api!Lock("m1"), Api!Lock("m2"), Api!Unlock("m1"), Api!Unlock("m2")>> \in Seq(ApiCalls)
        /\ <<Api!Lock("m2"), Api!Lock("m1"), Api!Unlock("m1"), Api!Unlock("m2")>> \in Seq(ApiCalls)
    BY <1>1
  <2>0a. /\ <<Api!Lock("g"), Api!Lock("m1"), Api!Lock("m2"), Api!Unlock("m1"), Api!Unlock("m2"), Api!Unlock("g")>> \in Seq(ApiCalls)
         /\ <<Api!Lock("g"), Api!Lock("m2"), Api!Lock("m1"), Api!Unlock("m1"), Api!Unlock("m2"), Api!Unlock("g")>> \in Seq(ApiCalls)
    BY <1>1
  <2>0b. <<Api!Lock("lock"), <<"load">>, <<"store">>, Api!Unlock("lock")>> \in Seq(ApiCalls)
    BY <1>1, <1>2
  <2>0c. /\ <<Api!printf("first"), <<"set">> >> \in Seq(ApiCalls)
         /\ << <<"poll">>, Api!printf("last")>> \in Seq(ApiCalls)
    BY <1>1, <1>2
  <2>0d. /\ <<Api!printf("first"), Api!Lock("lock"), <<"set">>, <<"signal">>, Api!Unlock("lock")>> \in Seq(ApiCalls)
         /\ <<Api!Lock("lock"), <<"wait">>, Api!Unlock("lock"), Api!printf("last")>> \in Seq(ApiCalls)
    BY <1>1, <1>2
  <2>1. CASE program = "deadlock"
    BY <2>0, <2>1, Scripts, Zenon
  <2>2. CASE program = "deadlock_global"
    BY <2>0a, <2>2, Scripts, Zenon
  <2>3. CASE program = "race"
    BY <2>0b, <2>3, Scripts, Zenon DEF Api!Thread
  <2>4. CASE program = "signal"
    BY <2>0c, <2>4, Scripts, Zenon
  <2>5. CASE program = "signal_cv"
    BY <2>0d, <2>5, Scripts, Zenon
  <2> QED BY <2>1, <2>2, <2>3, <2>4, <2>5
<1> QED BY <1>4 DEF Api!Thread

\* The end of a script begins with the call that comes next, and without that
\* call it is still an end.
LEMMA EndsOn ==
  ASSUME NEW X, NEW s \in Seq(X), NEW r \in Seq(X), IsEnd(s, r), r # <<>>
  PROVE  /\ r[1] = s[Len(s) - Len(r) + 1]
         /\ Tail(r) \in Seq(X) /\ Len(Tail(r)) = Len(r) - 1 /\ IsEnd(s, Tail(r))
<1>1. Tail(r) \in Seq(X) /\ Len(Tail(r)) = Len(r) - 1 /\ Len(r) \in Nat \ {0} /\ Len(s) \in Nat
  OBVIOUS
<1>2. ASSUME NEW n \in 1 .. Len(r) - 1
      PROVE  Tail(r)[n] = s[Len(s) - (Len(r) - 1) + n]
  <2>1. n + 1 \in 1 .. Len(r) /\ Tail(r)[n] = r[n + 1]
    BY <1>1
  <2>2. r[n + 1] = s[Len(s) - Len(r) + (n + 1)]
    BY <2>1 DEF IsEnd
  <2>3. Len(s) - Len(r) + (n + 1) = Len(s) - (Len(r) - 1) + n
    BY <1>1
  <2> QED BY <2>1, <2>2, <2>3
<1>3. 1 \in 1 .. Len(r)
  BY <1>1
<1> QED BY <1>1, <1>2, <1>3 DEF IsEnd

\* The call a thread is about to make, by how many it has left.
LEMMA NextCall ==
  ASSUME ApiTypeOK, EndOfScript, NEW t \in Api!Thread
  PROVE  /\ left(t) \in Nat /\ Len(script(t)) \in Nat
         /\ IF acalls[t] = <<>>
            THEN left(t) = 0
            ELSE /\ left(t) \in 1 .. Len(script(t))
                 /\ acalls[t][1] = script(t)[Len(script(t)) - left(t) + 1]
<1>1. acalls[t] \in Seq(ApiCalls) /\ script(t) \in Seq(ApiCalls) /\ IsEnd(script(t), acalls[t])
  BY ScriptType DEF ApiTypeOK, EndOfScript
<1>2. acalls[t] # <<>> => acalls[t][1] = script(t)[Len(script(t)) - Len(acalls[t]) + 1]
  BY <1>1, EndsOn
<1>3. acalls[t] = <<>> <=> Len(acalls[t]) = 0
  BY <1>1
<1>4. Len(acalls[t]) \in Nat /\ Len(script(t)) \in Nat /\ Len(acalls[t]) <= Len(script(t))
  BY <1>1 DEF IsEnd
<1>5. left(t) = Len(acalls[t])
  BY DEF left
<1>6. CASE acalls[t] = <<>>
  BY <1>3, <1>4, <1>5, <1>6
<1>7. CASE acalls[t] # <<>>
  <2>1. left(t) \in 1 .. Len(script(t))
    BY <1>3, <1>4, <1>5, <1>7
  <2> QED BY <1>2, <1>4, <1>5, <1>7, <2>1
<1> QED BY <1>6, <1>7

\* A call that is made is one less to make.
LEMMA OneLess ==
  ASSUME ApiTypeOK, EndOfScript, NEW t \in Api!Thread, acalls[t] # <<>>, Api!Return(t),
         program' = program
  PROVE  /\ left(t)' = left(t) - 1 /\ left(t)' \in Nat
         /\ \A u \in Api!Thread \ {t} : left(u)' = left(u) /\ acalls'[u] = acalls[u]
         /\ acalls' \in [Api!Thread -> Seq(ApiCalls)] /\ EndOfScript'
<1>1. \A u \in Api!Thread :
        acalls[u] \in Seq(ApiCalls) /\ script(u) \in Seq(ApiCalls) /\ IsEnd(script(u), acalls[u])
  BY ScriptType DEF ApiTypeOK, EndOfScript
<1>2. /\ Tail(acalls[t]) \in Seq(ApiCalls) /\ Len(Tail(acalls[t])) = left(t) - 1
      /\ IsEnd(script(t), Tail(acalls[t])) /\ left(t) \in Nat \ {0}
  BY <1>1, EndsOn DEF left
<1>3. /\ acalls'[t] = Tail(acalls[t]) /\ \A u \in Api!Thread \ {t} : acalls'[u] = acalls[u]
      /\ acalls' \in [Api!Thread -> Seq(ApiCalls)]
  BY <1>2 DEF Api!Return, ApiTypeOK
<1>4. /\ left(t)' = left(t) - 1 /\ left(t)' \in Nat
      /\ \A u \in Api!Thread \ {t} : left(u)' = left(u)
  BY <1>2, <1>3 DEF left
<1>5. \A u \in Api!Thread : script(u)' = script(u)
  BY DEF script
<1>6. EndOfScript'
  BY <1>1, <1>2, <1>3, <1>5 DEF EndOfScript
<1> QED BY <1>3, <1>4, <1>6

\* The kind of a thread's next call decides which step it takes.
LEMMA WhichCall ==
  ASSUME NEW t \in Api!Thread, Api!worker(t)
  PROVE  /\ acalls[t] # <<>> /\ ~Api!Exited
         /\ acalls[t][1][1] = "lock" => Api!Mutex_lock(t)
         /\ acalls[t][1][1] = "unlock" => Api!Mutex_unlock(t)
         /\ acalls[t][1][1] \in {"load", "store"} => Api!Increment(t)
         /\ acalls[t][1][1] = "set" => Api!SetDone(t)
         /\ acalls[t][1][1] = "poll" => Api!Poll(t)
         /\ acalls[t][1][1] = "print" => Api!Printf(t)
         /\ acalls[t][1][1] = "signal" => Api!Cond_signal(t)
         /\ acalls[t][1][1] = "wait" => Api!TestDone(t) \/ Api!Relock(t)
BY DEF Api!worker, Api!Mutex_lock, Api!Mutex_unlock, Api!Increment, Api!SetDone, Api!Poll,
       Api!Printf, Api!Cond_signal, Api!TestDone, Api!Relock, Api!Call, Api!At

\* Every step but a wait that goes to sleep or wakes up makes a call.
LEMMA MadeOrNot ==
  ASSUME NEW t \in Api!Thread, Api!worker(t)
  PROVE  /\ acalls[t] # <<>> /\ program' = program
         /\ \/ Api!Return(t)
            \/ acalls' = acalls /\ acalls[t][1][1] = "wait"
BY DEF Api!worker, Api!Mutex_lock, Api!Mutex_unlock, Api!Increment, Api!SetDone, Api!Poll,
       Api!Printf, Api!Cond_signal, Api!TestDone, Api!Relock, Api!Call, Api!At

LEMMA ApiTypes ==
  ASSUME ApiTypeOK, EndOfScript, Api!Next
  PROVE  ApiTypeOK' /\ EndOfScript' /\ program' = program
<1>1. PICK t \in Api!Thread : Api!worker(t) \/ Api!SpuriousWakeup(t)
  BY DEF Api!Next
<1>2. CASE Api!SpuriousWakeup(t)
  BY <1>2 DEF Api!SpuriousWakeup, ApiTypeOK, EndOfScript, script
<1>3. CASE Api!worker(t)
  <2>1. acalls' \in [Api!Thread -> Seq(ApiCalls)] /\ EndOfScript' /\ program' = program
    <3>1. CASE Api!Return(t)
      BY <1>3, <3>1, MadeOrNot, OneLess
    <3>2. CASE acalls' = acalls /\ program' = program
      BY <3>2 DEF ApiTypeOK, EndOfScript, script
    <3> QED BY <1>3, <3>1, <3>2, MadeOrNot
  <2>2. owner' \in [Mutexes -> {Api!free, 0, 1}]
    <3>1. UNCHANGED owner \/ \E m : owner' = [owner EXCEPT ![m] = t] \/ owner' = [owner EXCEPT ![m] = Api!free]
      BY <1>3 DEF Api!worker, Api!Mutex_lock, Api!Mutex_unlock, Api!Increment, Api!SetDone, Api!Poll,
                  Api!Printf, Api!Cond_signal, Api!TestDone, Api!Relock
    <3> QED BY <3>1 DEF ApiTypeOK, Api!Thread
  <2>3. asleep' \in SUBSET Api!Thread /\ done' \in {0, 1} /\ balance' \in Nat /\ areg' \in [Api!Thread -> Nat]
    BY <1>3 DEF Api!worker, Api!Mutex_lock, Api!Mutex_unlock, Api!Increment, Api!SetDone, Api!Poll,
                Api!Printf, Api!Cond_signal, Api!TestDone, Api!Relock, ApiTypeOK
  <2> QED BY <2>1, <2>2, <2>3 DEF ApiTypeOK
<1> QED BY <1>1, <1>2, <1>3

\* A step makes the call the script has where the thread is, and every call but
\* a wait leaves one less.
LEMMA MadeCall ==
  ASSUME ApiTypeOK, EndOfScript, NEW t \in Api!Thread, Api!worker(t)
  PROVE  /\ left(t) \in 1 .. Len(script(t))
         /\ acalls[t][1] = script(t)[Len(script(t)) - left(t) + 1]
         /\ \A u \in Api!Thread : left(u) \in Nat
         /\ acalls[t][1][1] # "wait" =>
              left(t)' = left(t) - 1 /\ \A u \in Api!Thread \ {t} : left(u)' = left(u)
<1>1. acalls[t] # <<>> /\ program' = program /\ (acalls[t][1][1] # "wait" => Api!Return(t))
  BY MadeOrNot
<1>2. left(t) \in 1 .. Len(script(t)) /\ acalls[t][1] = script(t)[Len(script(t)) - left(t) + 1]
  BY <1>1, NextCall
<1>3. \A u \in Api!Thread : left(u) \in Nat
  BY NextCall
<1> QED BY <1>1, <1>2, <1>3, OneLess

LEMMA RaceStep ==
  ASSUME ApiTypeOK, EndOfScript, program = "race", RaceInv, NEW t \in Api!Thread, Api!worker(t)
  PROVE  RaceInv' /\ acalls[t][1][1] # "wait"
<1>1. /\ script(t) = <<Api!Lock("lock"), <<"load">>, <<"store">>, Api!Unlock("lock")>>
      /\ Len(script(t)) = 4
  BY Scripts
<1>2. left(t) \in 1 .. 4 /\ acalls[t][1] = script(t)[4 - left(t) + 1]
  BY <1>1, MadeCall
<1>3. \A u \in Api!Thread : left(u) \in Nat
  BY MadeCall
<1>4. /\ left(t) = 4 => acalls[t][1] = Api!Lock("lock")
      /\ left(t) = 3 => acalls[t][1] = <<"load">>
      /\ left(t) = 2 => acalls[t][1] = <<"store">>
      /\ left(t) = 1 => acalls[t][1] = Api!Unlock("lock")
  BY <1>1, <1>2
<1>5. acalls[t][1][1] # "wait"
  BY <1>2, <1>4 DEF Api!Lock, Api!Unlock
<1>6. /\ left(t)' = left(t) - 1 /\ \A u \in Api!Thread \ {t} : left(u)' = left(u)
  BY <1>5, MadeCall
<1>7. balance \in Nat /\ areg \in [Api!Thread -> Nat] /\ owner \in [Mutexes -> {Api!free, 0, 1}]
  BY DEF ApiTypeOK
<1> SUFFICES RaceInv'
  BY <1>5
<1> USE DEF RaceInv, Counted, Api!Thread, Mutexes, Api!free
<1>8. CASE left(t) = 4
  <2>1. owner["lock"] = Api!free /\ owner' = [owner EXCEPT !["lock"] = t] /\ UNCHANGED <<balance, areg>>
    BY <1>4, <1>8, WhichCall DEF Api!Mutex_lock, Api!Operand, Api!Lock
  <2> QED BY <1>3, <1>6, <1>7, <1>8, <2>1
<1>9. CASE left(t) = 3
  <2>1. areg' = [areg EXCEPT ![t] = balance] /\ UNCHANGED <<balance, owner>>
    BY <1>4, <1>9, WhichCall DEF Api!Increment, Api!Call, Api!At
  <2> QED BY <1>3, <1>6, <1>7, <1>9, <2>1
<1>10. CASE left(t) = 2
  <2>1. balance' = areg[t] + 1 /\ UNCHANGED <<areg, owner>>
    BY <1>4, <1>10, WhichCall DEF Api!Increment, Api!Call, Api!At
  <2> QED BY <1>3, <1>6, <1>7, <1>10, <2>1
<1>11. CASE left(t) = 1
  <2>1. owner' = [owner EXCEPT !["lock"] = Api!free] /\ UNCHANGED <<balance, areg>>
    BY <1>4, <1>11, WhichCall DEF Api!Mutex_unlock, Api!Operand, Api!Unlock
  <2> QED BY <1>3, <1>6, <1>7, <1>11, <2>1
<1> QED BY <1>2, <1>8, <1>9, <1>10, <1>11

LEMMA DeadlockStep ==
  ASSUME ApiTypeOK, EndOfScript, program = "deadlock", DeadlockInv, NEW t \in Api!Thread, Api!worker(t)
  PROVE  DeadlockInv' /\ acalls[t][1][1] # "wait"
<1>1. left(t) \in 1 .. 4 /\ acalls[t][1] = script(t)[4 - left(t) + 1]
  <2>1. Len(script(0)) = 4 /\ Len(script(1)) = 4
    BY Scripts
  <2>2. Len(script(t)) = 4
    BY <2>1 DEF Api!Thread
  <2> QED BY <2>2, MadeCall
<1>2. t = 0 =>
      /\ left(t) = 4 => acalls[t][1] = Api!Lock("m1")
      /\ left(t) = 3 => acalls[t][1] = Api!Lock("m2")
      /\ left(t) = 2 => acalls[t][1] = Api!Unlock("m1")
      /\ left(t) = 1 => acalls[t][1] = Api!Unlock("m2")
  BY <1>1, Scripts
<1>3. t = 1 =>
      /\ left(t) = 4 => acalls[t][1] = Api!Lock("m2")
      /\ left(t) = 3 => acalls[t][1] = Api!Lock("m1")
      /\ left(t) = 2 => acalls[t][1] = Api!Unlock("m1")
      /\ left(t) = 1 => acalls[t][1] = Api!Unlock("m2")
  BY <1>1, Scripts
<1>4. \/ /\ acalls[t][1][1] = "lock" /\ owner[acalls[t][1][2]] = Api!free
         /\ owner' = [owner EXCEPT ![acalls[t][1][2]] = t]
      \/ /\ acalls[t][1][1] = "unlock"
         /\ owner' = [owner EXCEPT ![acalls[t][1][2]] = Api!free]
  <2>1. acalls[t][1][1] \in {"lock", "unlock"}
    BY <1>1, <1>2, <1>3 DEF Api!Lock, Api!Unlock, Api!Thread
  <2> QED BY <2>1, WhichCall DEF Api!Mutex_lock, Api!Mutex_unlock, Api!Operand
<1>5. /\ left(t)' = left(t) - 1 /\ \A u \in Api!Thread \ {t} : left(u)' = left(u)
      /\ \A u \in Api!Thread : left(u) \in Nat
  BY <1>4, MadeCall
<1>6. owner \in [Mutexes -> {Api!free, 0, 1}]
  BY DEF ApiTypeOK
<1> SUFFICES DeadlockInv'
  BY <1>4
<1> USE DEF DeadlockInv, Api!Thread, Mutexes, Api!free, Api!Lock, Api!Unlock
<1>7. CASE t = 0
  BY <1>1, <1>2, <1>4, <1>5, <1>6, <1>7
<1>8. CASE t = 1
  BY <1>1, <1>3, <1>4, <1>5, <1>6, <1>8
<1> QED BY <1>7, <1>8

LEMMA GlobalStep ==
  ASSUME ApiTypeOK, EndOfScript, program = "deadlock_global", GlobalInv, NEW t \in Api!Thread, Api!worker(t)
  PROVE  GlobalInv' /\ acalls[t][1][1] # "wait"
<1>1. left(t) \in 1 .. 6 /\ acalls[t][1] = script(t)[6 - left(t) + 1]
  <2>1. Len(script(0)) = 6 /\ Len(script(1)) = 6
    BY Scripts
  <2>2. Len(script(t)) = 6
    BY <2>1 DEF Api!Thread
  <2> QED BY <2>2, MadeCall
<1>2. t = 0 =>
      /\ left(t) = 6 => acalls[t][1] = Api!Lock("g")
      /\ left(t) = 5 => acalls[t][1] = Api!Lock("m1")
      /\ left(t) = 4 => acalls[t][1] = Api!Lock("m2")
      /\ left(t) = 3 => acalls[t][1] = Api!Unlock("m1")
      /\ left(t) = 2 => acalls[t][1] = Api!Unlock("m2")
      /\ left(t) = 1 => acalls[t][1] = Api!Unlock("g")
  BY <1>1, Scripts
<1>3. t = 1 =>
      /\ left(t) = 6 => acalls[t][1] = Api!Lock("g")
      /\ left(t) = 5 => acalls[t][1] = Api!Lock("m2")
      /\ left(t) = 4 => acalls[t][1] = Api!Lock("m1")
      /\ left(t) = 3 => acalls[t][1] = Api!Unlock("m1")
      /\ left(t) = 2 => acalls[t][1] = Api!Unlock("m2")
      /\ left(t) = 1 => acalls[t][1] = Api!Unlock("g")
  BY <1>1, Scripts
<1>4. \/ /\ acalls[t][1][1] = "lock" /\ owner[acalls[t][1][2]] = Api!free
         /\ owner' = [owner EXCEPT ![acalls[t][1][2]] = t]
      \/ /\ acalls[t][1][1] = "unlock"
         /\ owner' = [owner EXCEPT ![acalls[t][1][2]] = Api!free]
  <2>1. acalls[t][1][1] \in {"lock", "unlock"}
    BY <1>1, <1>2, <1>3 DEF Api!Lock, Api!Unlock, Api!Thread
  <2> QED BY <2>1, WhichCall DEF Api!Mutex_lock, Api!Mutex_unlock, Api!Operand
<1>5. /\ left(t)' = left(t) - 1 /\ \A u \in Api!Thread \ {t} : left(u)' = left(u)
      /\ \A u \in Api!Thread : left(u) \in Nat
  BY <1>4, MadeCall
<1>6. owner \in [Mutexes -> {Api!free, 0, 1}]
  BY DEF ApiTypeOK
<1> SUFFICES GlobalInv'
  BY <1>4
<1> USE DEF GlobalInv, Api!Thread, Mutexes, Api!free, Api!Lock, Api!Unlock
<1>7. CASE t = 0
  BY <1>1, <1>2, <1>4, <1>5, <1>6, <1>7
<1>8. CASE t = 1
  BY <1>1, <1>3, <1>4, <1>5, <1>6, <1>8
<1> QED BY <1>7, <1>8

LEMMA SignalStep ==
  ASSUME ApiTypeOK, EndOfScript, program = "signal", SignalInv, NEW t \in Api!Thread, Api!worker(t)
  PROVE  SignalInv' /\ acalls[t][1][1] # "wait"
<1>1. left(t) \in 1 .. 2 /\ acalls[t][1] = script(t)[2 - left(t) + 1]
  <2>1. Len(script(0)) = 2 /\ Len(script(1)) = 2
    BY Scripts
  <2>2. Len(script(t)) = 2
    BY <2>1 DEF Api!Thread
  <2> QED BY <2>2, MadeCall
<1>2. /\ t = 0 /\ left(t) = 2 => acalls[t][1] = Api!printf("first")
      /\ t = 0 /\ left(t) = 1 => acalls[t][1] = <<"set">>
      /\ t = 1 /\ left(t) = 2 => acalls[t][1] = <<"poll">>
      /\ t = 1 /\ left(t) = 1 => acalls[t][1] = Api!printf("last")
  BY <1>1, Scripts
<1>3. acalls[t][1][1] # "wait"
  BY <1>1, <1>2 DEF Api!Thread, Api!printf
<1>4. /\ left(t)' = left(t) - 1 /\ \A u \in Api!Thread \ {t} : left(u)' = left(u)
      /\ left(0) \in Nat /\ left(1) \in Nat
  BY <1>3, MadeCall DEF Api!Thread
<1>5. done \in {0, 1}
  BY DEF ApiTypeOK
<1>6. left(1) > 0
  <2>1. acalls[1] # <<>>
    BY WhichCall DEF Api!Exited
  <2> QED BY <2>1, NextCall DEF Api!Thread
<1> SUFFICES SignalInv'
  BY <1>3
<1> USE DEF SignalInv, Api!Thread
<1>7. CASE t = 0 /\ left(t) = 2
  <2>1. printed' = Append(printed, "first") /\ done' = done
    BY <1>2, <1>7, WhichCall DEF Api!Printf, Api!Operand, Api!printf
  <2>2. printed = <<>> /\ printed' = <<"first">>
    BY <1>7, <2>1
  <2> QED BY <1>4, <1>5, <1>6, <1>7, <2>1, <2>2
<1>8. CASE t = 0 /\ left(t) = 1
  <2>1. done' = 1 /\ printed' = printed
    BY <1>2, <1>8, WhichCall DEF Api!SetDone
  <2> QED BY <1>4, <1>5, <1>6, <1>8, <2>1
<1>9. CASE t = 1 /\ left(t) = 2
  <2>1. done = 1 /\ UNCHANGED <<done, printed>>
    BY <1>2, <1>9, WhichCall DEF Api!Poll
  <2> QED BY <1>4, <1>5, <1>6, <1>9, <2>1
<1>10. CASE t = 1 /\ left(t) = 1
  <2>1. printed' = Append(printed, "last") /\ done' = done
    BY <1>2, <1>10, WhichCall DEF Api!Printf, Api!Operand, Api!printf
  <2>2. printed = <<"first">>
    BY <1>4, <1>6, <1>10
  <2>3. printed' = <<"first", "last">>
    BY <2>1, <2>2, OneMore
  <2> QED BY <1>4, <1>5, <1>6, <1>10, <2>1, <2>2, <2>3
<1> QED BY <1>1, <1>7, <1>8, <1>9, <1>10

LEMMA SignalCvStep ==
  ASSUME ApiTypeOK, EndOfScript, program = "signal_cv", SignalCvInv, NEW t \in Api!Thread,
         Api!worker(t)
  PROVE  SignalCvInv'
<1>1. /\ t = 0 => left(t) \in 1 .. 5 /\ acalls[t][1] = script(t)[5 - left(t) + 1]
      /\ t = 1 => left(t) \in 1 .. 4 /\ acalls[t][1] = script(t)[4 - left(t) + 1]
  <2>1. Len(script(0)) = 5 /\ Len(script(1)) = 4
    BY Scripts
  <2>2. left(t) \in 1 .. Len(script(t)) /\ acalls[t][1] = script(t)[Len(script(t)) - left(t) + 1]
    BY MadeCall
  <2> QED BY <2>1, <2>2
<1>2. /\ t = 0 /\ left(t) = 5 => acalls[t][1] = Api!printf("first")
      /\ t = 0 /\ left(t) = 4 => acalls[t][1] = Api!Lock("lock")
      /\ t = 0 /\ left(t) = 3 => acalls[t][1] = <<"set">>
      /\ t = 0 /\ left(t) = 2 => acalls[t][1] = <<"signal">>
      /\ t = 0 /\ left(t) = 1 => acalls[t][1] = Api!Unlock("lock")
      /\ t = 1 /\ left(t) = 4 => acalls[t][1] = Api!Lock("lock")
      /\ t = 1 /\ left(t) = 3 => acalls[t][1] = <<"wait">>
      /\ t = 1 /\ left(t) = 2 => acalls[t][1] = Api!Unlock("lock")
      /\ t = 1 /\ left(t) = 1 => acalls[t][1] = Api!printf("last")
  BY <1>1, Scripts
<1>3. left(0) \in Nat /\ left(1) \in Nat
  BY MadeCall DEF Api!Thread
<1>4. ~(t = 1 /\ left(t) = 3) =>
        left(t)' = left(t) - 1 /\ \A u \in Api!Thread \ {t} : left(u)' = left(u)
  <2>1. ~(t = 1 /\ left(t) = 3) => acalls[t][1][1] # "wait"
    BY <1>1, <1>2 DEF Api!Thread, Api!printf, Api!Lock, Api!Unlock
  <2> QED BY <2>1, MadeCall
<1>5. done \in {0, 1} /\ owner \in [Mutexes -> {Api!free, 0, 1}]
  BY DEF ApiTypeOK
<1>6. left(1) > 0
  <2>1. acalls[1] # <<>>
    BY WhichCall DEF Api!Exited
  <2> QED BY <2>1, NextCall DEF Api!Thread
<1> USE DEF SignalCvInv, Api!Thread, Mutexes, Api!free
<1>7. CASE t = 0 /\ left(t) = 5
  <2>1. printed' = Append(printed, "first") /\ UNCHANGED <<owner, asleep, done>>
    BY <1>2, <1>7, WhichCall DEF Api!Printf, Api!Operand, Api!printf
  <2>2. printed = <<>> /\ printed' = <<"first">>
    BY <1>7, <2>1
  <2> QED BY <1>3, <1>4, <1>5, <1>6, <1>7, <2>1, <2>2
<1>8. CASE left(t) = 4
  <2>1. owner["lock"] = -1 /\ owner' = [owner EXCEPT !["lock"] = t] /\ UNCHANGED <<asleep, done, printed>>
    BY <1>2, <1>8, WhichCall DEF Api!Mutex_lock, Api!Operand, Api!Lock
  <2> QED BY <1>3, <1>4, <1>5, <1>6, <1>8, <2>1
<1>9. CASE t = 0 /\ left(t) = 3
  <2>1. done' = 1 /\ UNCHANGED <<owner, asleep, printed>>
    BY <1>2, <1>9, WhichCall DEF Api!SetDone
  <2> QED BY <1>3, <1>4, <1>5, <1>6, <1>9, <2>1
<1>10. CASE t = 0 /\ left(t) = 2
  <2>1. asleep' = {} /\ UNCHANGED <<owner, done, printed>>
    BY <1>2, <1>10, WhichCall DEF Api!Cond_signal
  <2> QED BY <1>3, <1>4, <1>5, <1>6, <1>10, <2>1
<1>11. CASE t = 0 /\ left(t) = 1
  <2>1. owner' = [owner EXCEPT !["lock"] = -1] /\ UNCHANGED <<asleep, done, printed>>
    BY <1>2, <1>11, WhichCall DEF Api!Mutex_unlock, Api!Operand, Api!Unlock
  <2> QED BY <1>3, <1>4, <1>5, <1>6, <1>11, <2>1
<1>12. CASE t = 1 /\ left(t) = 3 /\ Api!Relock(t)
  <2>1. /\ owner["lock"] = -1 /\ owner' = [owner EXCEPT !["lock"] = 1] /\ 1 \notin asleep
        /\ UNCHANGED <<acalls, asleep, done, printed>>
    BY <1>12 DEF Api!Relock
  <2>2. \A u \in Api!Thread : left(u)' = left(u)
    BY <2>1 DEF left
  <2> QED BY <1>3, <1>5, <1>6, <1>12, <2>1, <2>2
<1>13. CASE t = 1 /\ left(t) = 3 /\ Api!TestDone(t) /\ done = 0
  <2>1. /\ owner["lock"] = 1 /\ owner' = [owner EXCEPT !["lock"] = -1] /\ asleep' = asleep \cup {1}
        /\ UNCHANGED <<acalls, done, printed>>
    BY <1>13 DEF Api!TestDone
  <2>2. \A u \in Api!Thread : left(u)' = left(u)
    BY <2>1 DEF left
  <2> QED BY <1>3, <1>5, <1>6, <1>13, <2>1, <2>2
<1>14. CASE t = 1 /\ left(t) = 3 /\ Api!TestDone(t) /\ done # 0
  <2>1. /\ owner["lock"] = 1 /\ Api!Return(t) /\ UNCHANGED <<owner, asleep, done, printed>>
        /\ acalls[t] # <<>> /\ program' = program
    BY <1>14 DEF Api!TestDone, Api!At
  <2>2. left(t)' = left(t) - 1 /\ \A u \in Api!Thread \ {t} : left(u)' = left(u)
    BY <2>1, OneLess
  <2> QED BY <1>3, <1>5, <1>6, <1>14, <2>1, <2>2
<1>15. CASE t = 1 /\ left(t) = 2
  <2>1. owner' = [owner EXCEPT !["lock"] = -1] /\ UNCHANGED <<asleep, done, printed>>
    BY <1>2, <1>15, WhichCall DEF Api!Mutex_unlock, Api!Operand, Api!Unlock
  <2> QED BY <1>3, <1>4, <1>5, <1>6, <1>15, <2>1
<1>16. CASE t = 1 /\ left(t) = 1
  <2>1. printed' = Append(printed, "last") /\ UNCHANGED <<owner, asleep, done>>
    BY <1>2, <1>16, WhichCall DEF Api!Printf, Api!Operand, Api!printf
  <2>2. printed = <<"first">>
    BY <1>3, <1>5, <1>6, <1>16
  <2>3. printed' = <<"first", "last">>
    BY <2>1, <2>2, OneMore
  <2> QED BY <1>3, <1>4, <1>5, <1>6, <1>16, <2>1, <2>2, <2>3
<1>17. t = 1 /\ left(t) = 3 => Api!TestDone(t) \/ Api!Relock(t)
  BY <1>2, WhichCall
<1> QED BY <1>1, <1>7, <1>8, <1>9, <1>10, <1>11, <1>12, <1>13, <1>14, <1>15, <1>16, <1>17

\* One program is one of those in threads-api.
ApiArgs == Programs \subseteq {"deadlock", "deadlock_global", "race", "signal", "signal_cv"}

LEMMA ApiInit ==
  ASSUME ApiArgs, Api!Init
  PROVE  ApiInv
<1>1. program \in {"deadlock", "deadlock_global", "race", "signal", "signal_cv"}
  BY DEF ApiArgs, Api!Init
<1>2. \A t \in Api!Thread : acalls[t] = script(t)
  BY DEF Api!Init, script
<1>3. \A t \in Api!Thread : script(t) \in Seq(ApiCalls) /\ Len(script(t)) \in Nat
  BY <1>1, ScriptType
<1>4. acalls \in [Api!Thread -> Seq(ApiCalls)]
  <2>1. acalls = [t \in Api!Thread |-> acalls[t]]
    <3>1. acalls = Api!Script[program]
      BY DEF Api!Init
    <3>2. CASE program = "deadlock"
      BY <3>1, <3>2 DEF Api!Script, Api!deadlock
    <3>3. CASE program = "deadlock_global"
      BY <3>1, <3>3 DEF Api!Script, Api!deadlock_global
    <3>4. CASE program = "race"
      BY <3>1, <3>4 DEF Api!Script, Api!race
    <3>5. CASE program = "signal"
      BY <3>1, <3>5 DEF Api!Script, Api!signal
    <3>6. CASE program = "signal_cv"
      BY <3>1, <3>6 DEF Api!Script, Api!signal_cv
    <3> QED BY <1>1, <3>2, <3>3, <3>4, <3>5, <3>6
  <2> QED BY <1>2, <1>3, <2>1
<1>5. EndOfScript
  <2>1. ASSUME NEW t \in Api!Thread PROVE IsEnd(script(t), script(t))
    <3>1. Len(script(t)) \in Nat
      BY <1>3
    <3> QED BY <3>1 DEF IsEnd
  <2> QED BY <1>2, <2>1 DEF EndOfScript
<1>6. ApiTypeOK /\ Nobody
  BY <1>1, <1>4 DEF ApiTypeOK, Nobody, Api!Init, Mutexes, Api!Thread
<1>7. left(0) = Len(script(0)) /\ left(1) = Len(script(1))
  BY <1>2 DEF left, Api!Thread
<1>8. /\ owner = [m \in Mutexes |-> -1] /\ done = 0 /\ balance = 0 /\ printed = <<>> /\ asleep = {}
  BY DEF Api!Init, Mutexes, Api!free
<1>9. program = "deadlock" => DeadlockInv
  <2>1. program = "deadlock" => left(0) = 4 /\ left(1) = 4
    BY <1>7, Scripts
  <2> QED BY <1>8, <2>1 DEF DeadlockInv, Mutexes
<1>10. program = "deadlock_global" => GlobalInv
  <2>1. program = "deadlock_global" => left(0) = 6 /\ left(1) = 6
    BY <1>7, Scripts
  <2> QED BY <1>8, <2>1 DEF GlobalInv, Mutexes, Api!Thread
<1>11. program = "race" => RaceInv
  <2>1. program = "race" => left(0) = 4 /\ left(1) = 4
    BY <1>7, Scripts DEF Api!Thread
  <2> QED BY <1>8, <2>1 DEF RaceInv, Counted, Mutexes, Api!Thread
<1>12. program = "signal" => SignalInv
  <2>1. program = "signal" => left(0) = 2 /\ left(1) = 2
    BY <1>7, Scripts
  <2> QED BY <1>8, <2>1 DEF SignalInv
<1>13. program = "signal_cv" => SignalCvInv
  <2>1. program = "signal_cv" => left(0) = 5 /\ left(1) = 4
    BY <1>7, Scripts
  <2> QED BY <1>8, <2>1 DEF SignalCvInv, Mutexes
<1> QED BY <1>5, <1>6, <1>9, <1>10, <1>11, <1>12, <1>13 DEF ApiInv

LEMMA ApiStep ==
  ASSUME ApiInv, Api!Next
  PROVE  ApiInv'
<1>1. ApiTypeOK /\ EndOfScript /\ ApiTypeOK' /\ EndOfScript' /\ program' = program
  BY ApiTypes DEF ApiInv
<1>2. PICK t \in Api!Thread : Api!worker(t) \/ Api!SpuriousWakeup(t)
  BY DEF Api!Next
<1>3. CASE Api!SpuriousWakeup(t)
  <2>1. t \in asleep /\ asleep' = asleep \ {t} /\ UNCHANGED <<acalls, owner, done, printed>>
    BY <1>3 DEF Api!SpuriousWakeup
  <2>2. program = "signal_cv"
    BY <2>1 DEF ApiInv, Nobody
  <2>3. left(0)' = left(0) /\ left(1)' = left(1)
    BY <2>1 DEF left
  <2>4. SignalCvInv'
    BY <2>1, <2>2, <2>3 DEF ApiInv, SignalCvInv
  <2> QED BY <1>1, <2>2, <2>4 DEF ApiInv
<1>4. CASE Api!worker(t)
  <2>1. ASSUME acalls[t][1][1] # "wait", Nobody PROVE Nobody'
    BY <1>4, <2>1 DEF Nobody, Api!worker, Api!Mutex_lock, Api!Mutex_unlock, Api!Increment, Api!SetDone,
                      Api!Poll, Api!Printf, Api!Cond_signal, Api!TestDone, Api!Relock, Api!At
  <2>2. CASE program = "deadlock"
    BY <1>1, <1>4, <2>1, <2>2, DeadlockStep DEF ApiInv
  <2>3. CASE program = "deadlock_global"
    BY <1>1, <1>4, <2>1, <2>3, GlobalStep DEF ApiInv
  <2>4. CASE program = "race"
    BY <1>1, <1>4, <2>1, <2>4, RaceStep DEF ApiInv
  <2>5. CASE program = "signal"
    BY <1>1, <1>4, <2>1, <2>5, SignalStep DEF ApiInv
  <2>6. CASE program = "signal_cv"
    BY <1>1, <1>4, <2>6, SignalCvStep DEF ApiInv
  <2> QED BY <2>2, <2>3, <2>4, <2>5, <2>6 DEF ApiInv, ApiTypeOK
<1> QED BY <1>2, <1>3, <1>4

\* A thread that is blocked has nothing left, or waits for a mutex, for done or
\* for a signal.
WaitsAt(t, c) ==
  \/ c[1] = "lock" /\ owner[c[2]] # -1
  \/ c[1] = "poll" /\ done = 0
  \/ c[1] = "wait" /\ owner["lock"] \notin {t, -1}

LEMMA WhyBlocked ==
  ASSUME ApiInv, NEW t \in Api!Thread, Api!Blocked(t), ~Api!Exited, t \notin asleep,
         NEW n, n = Len(script(t))
  PROVE  left(t) = 0 \/ (left(t) \in 1 .. n /\ WaitsAt(t, script(t)[n - left(t) + 1]))
<1>1. ApiTypeOK /\ EndOfScript
  BY DEF ApiInv
<1>2. CASE acalls[t] = <<>>
  BY <1>1, <1>2, NextCall
<1>3. CASE acalls[t] # <<>>
  <2>1. left(t) \in 1 .. n /\ acalls[t][1] = script(t)[n - left(t) + 1]
    BY <1>1, <1>3, NextCall
  <2>2. WaitsAt(t, acalls[t][1])
    BY <1>3 DEF WaitsAt, Api!Blocked, Api!At, Api!Operand, Api!free
  <2> QED BY <2>1, <2>2
<1> QED BY <1>2, <1>3

LEMMA AllDone ==
  ASSUME ApiTypeOK, EndOfScript, left(0) = 0, left(1) = 0
  PROVE  acalls = [t \in Api!Thread |-> <<>>]
<1>1. \A t \in Api!Thread : acalls[t] = <<>>
  BY NextCall DEF Api!Thread
<1> QED BY <1>1 DEF ApiTypeOK

LEMMA StopsDone ==
  ASSUME ApiInv, \A t \in Api!Thread : Api!Blocked(t)
  PROVE  /\ program = "race" => acalls = [t \in Api!Thread |-> <<>>] /\ balance = 2
         /\ program \in {"signal", "signal_cv"} => Api!Exited /\ printed = <<"first", "last">>
         /\ program = "deadlock_global" => acalls = [t \in Api!Thread |-> <<>>]
         /\ program = "deadlock" =>
              acalls = [t \in Api!Thread |-> <<>>] \/ (owner["m1"] = 0 /\ owner["m2"] = 1)
<1> USE DEF Api!free
<1>1. ApiTypeOK /\ EndOfScript /\ left(0) \in Nat /\ left(1) \in Nat
  BY NextCall DEF ApiInv, Api!Thread
<1>2. owner \in [Mutexes -> {-1, 0, 1}] /\ done \in {0, 1}
  BY <1>1 DEF ApiTypeOK
<1>3. program = "race" => left(0) = 0 /\ left(1) = 0 /\ balance = 2
  <2> SUFFICES ASSUME program = "race" PROVE left(0) = 0 /\ left(1) = 0 /\ balance = 2
    OBVIOUS
  <2>1. RaceInv /\ ~Api!Exited /\ asleep = {}
    BY DEF ApiInv, Nobody, Api!Exited
  <2>2. ASSUME NEW t \in Api!Thread
        PROVE  left(t) = 0 \/ (left(t) = 4 /\ owner["lock"] # -1)
    <3>1. /\ script(t) = <<Api!Lock("lock"), <<"load">>, <<"store">>, Api!Unlock("lock")>>
          /\ Len(script(t)) = 4
      BY Scripts
    <3>2. left(t) \in 1 .. 4 =>
            /\ left(t) = 4 => script(t)[4 - left(t) + 1] = <<"lock", "lock">>
            /\ left(t) # 4 => script(t)[4 - left(t) + 1][1] \notin {"lock", "poll", "wait"}
      BY <3>1 DEF Api!Lock, Api!Unlock
    <3>3. left(t) = 0 \/ (left(t) \in 1 .. 4 /\ WaitsAt(t, script(t)[4 - left(t) + 1]))
      BY <2>1, <3>1, WhyBlocked DEF Api!Thread
    <3> QED BY <2>1, <3>1, <3>2, <3>3 DEF WaitsAt
  <2>3. left(0) = 0 /\ left(1) = 0
    BY <1>1, <1>2, <2>1, <2>2 DEF RaceInv, Api!Thread, Mutexes
  <2> QED BY <2>1, <2>3 DEF RaceInv, Counted
<1>4. program = "signal" => left(1) = 0 /\ printed = <<"first", "last">>
  <2> SUFFICES ASSUME program = "signal", left(1) # 0 PROVE FALSE
    BY <1>1 DEF ApiInv, SignalInv
  <2>1. SignalInv /\ ~Api!Exited /\ asleep = {}
    BY NextCall DEF ApiInv, Nobody, Api!Exited, Api!Thread
  <2>2. Len(script(0)) = 2 /\ Len(script(1)) = 2
    BY Scripts
  <2>3. left(0) \in 1 .. 2 => script(0)[2 - left(0) + 1][1] \in {"print", "set"}
    BY Scripts DEF Api!printf
  <2>4. left(0) = 0
    <3>1. left(0) = 0 \/ (left(0) \in 1 .. 2 /\ WaitsAt(0, script(0)[2 - left(0) + 1]))
      BY <2>1, <2>2, WhyBlocked DEF Api!Thread
    <3> QED BY <2>1, <2>2, <2>3, <3>1 DEF WaitsAt
  <2>5. left(1) \in 1 .. 2 => script(1)[2 - left(1) + 1][1] \in {"poll", "print"}
    BY Scripts DEF Api!printf
  <2>6. done = 0
    <3>1. left(1) = 0 \/ (left(1) \in 1 .. 2 /\ WaitsAt(1, script(1)[2 - left(1) + 1]))
      BY <2>1, <2>2, WhyBlocked DEF Api!Thread
    <3> QED BY <2>1, <2>2, <2>5, <3>1 DEF WaitsAt
  <2> QED BY <2>1, <2>4, <2>6 DEF SignalInv
<1>5. program = "signal_cv" => left(1) = 0 /\ printed = <<"first", "last">>
  <2> SUFFICES ASSUME program = "signal_cv", left(1) # 0 PROVE FALSE
    BY <1>1 DEF ApiInv, SignalCvInv
  <2>1. SignalCvInv /\ ~Api!Exited
    BY NextCall DEF ApiInv, Api!Exited, Api!Thread
  <2>2. Len(script(0)) = 5 /\ Len(script(1)) = 4
    BY Scripts
  <2>3. left(0) \in 1 .. 5 =>
          /\ left(0) = 4 => script(0)[5 - left(0) + 1] = <<"lock", "lock">>
          /\ left(0) # 4 => script(0)[5 - left(0) + 1][1] \notin {"lock", "poll", "wait"}
    BY Scripts DEF Api!printf, Api!Lock, Api!Unlock
  <2>4. left(0) = 0 \/ (left(0) = 4 /\ owner["lock"] # -1)
    <3>1. 0 \notin asleep
      BY <2>1 DEF SignalCvInv
    <3>2. left(0) = 0 \/ (left(0) \in 1 .. 5 /\ WaitsAt(0, script(0)[5 - left(0) + 1]))
      BY <2>1, <2>2, <3>1, WhyBlocked DEF Api!Thread
    <3> QED BY <2>1, <2>2, <2>3, <3>1, <3>2 DEF WaitsAt
  <2>5. left(1) \in 1 .. 4 =>
          /\ left(1) = 4 => script(1)[4 - left(1) + 1] = <<"lock", "lock">>
          /\ left(1) = 3 => script(1)[4 - left(1) + 1] = <<"wait">>
          /\ left(1) < 3 => script(1)[4 - left(1) + 1][1] \notin {"lock", "poll", "wait"}
    BY Scripts DEF Api!printf, Api!Lock, Api!Unlock
  <2>6. \/ 1 \in asleep
        \/ left(1) = 4 /\ owner["lock"] # -1
        \/ left(1) = 3 /\ owner["lock"] \notin {1, -1}
    <3>1. 1 \in asleep \/ left(1) = 0 \/ (left(1) \in 1 .. 4 /\ WaitsAt(1, script(1)[4 - left(1) + 1]))
      BY <2>1, <2>2, WhyBlocked DEF Api!Thread
    <3> QED BY <2>1, <2>2, <2>5, <3>1 DEF WaitsAt
  <2> QED BY <1>1, <1>2, <2>1, <2>4, <2>6 DEF SignalCvInv, Mutexes
<1>6. program = "deadlock_global" => left(0) = 0 /\ left(1) = 0
  <2> SUFFICES ASSUME program = "deadlock_global" PROVE left(0) = 0 /\ left(1) = 0
    OBVIOUS
  <2>1. GlobalInv /\ ~Api!Exited /\ asleep = {}
    BY DEF ApiInv, Nobody, Api!Exited
  <2>2. Len(script(0)) = 6 /\ Len(script(1)) = 6
    BY Scripts
  <2>3. left(0) \in 1 .. 6 =>
          /\ left(0) = 6 => script(0)[6 - left(0) + 1] = <<"lock", "g">>
          /\ left(0) = 5 => script(0)[6 - left(0) + 1] = <<"lock", "m1">>
          /\ left(0) = 4 => script(0)[6 - left(0) + 1] = <<"lock", "m2">>
          /\ left(0) < 4 => script(0)[6 - left(0) + 1][1] \notin {"lock", "poll", "wait"}
    BY Scripts DEF Api!Lock, Api!Unlock
  <2>4. left(1) \in 1 .. 6 =>
          /\ left(1) = 6 => script(1)[6 - left(1) + 1] = <<"lock", "g">>
          /\ left(1) = 5 => script(1)[6 - left(1) + 1] = <<"lock", "m2">>
          /\ left(1) = 4 => script(1)[6 - left(1) + 1] = <<"lock", "m1">>
          /\ left(1) < 4 => script(1)[6 - left(1) + 1][1] \notin {"lock", "poll", "wait"}
    BY Scripts DEF Api!Lock, Api!Unlock
  <2>5. \/ left(0) = 0
        \/ left(0) = 6 /\ owner["g"] # -1
        \/ left(0) = 5 /\ owner["m1"] # -1
        \/ left(0) = 4 /\ owner["m2"] # -1
    <3>1. left(0) = 0 \/ (left(0) \in 1 .. 6 /\ WaitsAt(0, script(0)[6 - left(0) + 1]))
      BY <2>1, <2>2, WhyBlocked DEF Api!Thread
    <3> QED BY <2>1, <2>2, <2>3, <3>1 DEF WaitsAt
  <2>6. \/ left(1) = 0
        \/ left(1) = 6 /\ owner["g"] # -1
        \/ left(1) = 5 /\ owner["m2"] # -1
        \/ left(1) = 4 /\ owner["m1"] # -1
    <3>1. left(1) = 0 \/ (left(1) \in 1 .. 6 /\ WaitsAt(1, script(1)[6 - left(1) + 1]))
      BY <2>1, <2>2, WhyBlocked DEF Api!Thread
    <3> QED BY <2>1, <2>2, <2>4, <3>1 DEF WaitsAt
  <2> QED BY <1>1, <1>2, <2>1, <2>5, <2>6 DEF GlobalInv, Mutexes, Api!Thread
<1>7. program = "deadlock" => (left(0) = 0 /\ left(1) = 0) \/ (owner["m1"] = 0 /\ owner["m2"] = 1)
  <2> SUFFICES ASSUME program = "deadlock"
               PROVE  (left(0) = 0 /\ left(1) = 0) \/ (owner["m1"] = 0 /\ owner["m2"] = 1)
    OBVIOUS
  <2>1. DeadlockInv /\ ~Api!Exited /\ asleep = {}
    BY DEF ApiInv, Nobody, Api!Exited
  <2>2. Len(script(0)) = 4 /\ Len(script(1)) = 4
    BY Scripts
  <2>3. left(0) \in 1 .. 4 =>
          /\ left(0) = 4 => script(0)[4 - left(0) + 1] = <<"lock", "m1">>
          /\ left(0) = 3 => script(0)[4 - left(0) + 1] = <<"lock", "m2">>
          /\ left(0) < 3 => script(0)[4 - left(0) + 1][1] \notin {"lock", "poll", "wait"}
    BY Scripts DEF Api!Lock, Api!Unlock
  <2>4. left(1) \in 1 .. 4 =>
          /\ left(1) = 4 => script(1)[4 - left(1) + 1] = <<"lock", "m2">>
          /\ left(1) = 3 => script(1)[4 - left(1) + 1] = <<"lock", "m1">>
          /\ left(1) < 3 => script(1)[4 - left(1) + 1][1] \notin {"lock", "poll", "wait"}
    BY Scripts DEF Api!Lock, Api!Unlock
  <2>5. left(0) = 0 \/ (left(0) = 4 /\ owner["m1"] # -1) \/ (left(0) = 3 /\ owner["m2"] # -1)
    <3>1. left(0) = 0 \/ (left(0) \in 1 .. 4 /\ WaitsAt(0, script(0)[4 - left(0) + 1]))
      BY <2>1, <2>2, WhyBlocked DEF Api!Thread
    <3> QED BY <2>1, <2>2, <2>3, <3>1 DEF WaitsAt
  <2>6. left(1) = 0 \/ (left(1) = 4 /\ owner["m2"] # -1) \/ (left(1) = 3 /\ owner["m1"] # -1)
    <3>1. left(1) = 0 \/ (left(1) \in 1 .. 4 /\ WaitsAt(1, script(1)[4 - left(1) + 1]))
      BY <2>1, <2>2, WhyBlocked DEF Api!Thread
    <3> QED BY <2>1, <2>2, <2>4, <3>1 DEF WaitsAt
  <2> QED BY <1>1, <1>2, <2>1, <2>5, <2>6 DEF DeadlockInv, Mutexes
<1>8. left(1) = 0 /\ program \in {"signal", "signal_cv"} => Api!Exited
  BY <1>1, NextCall DEF Api!Exited, Api!Thread
<1> QED BY <1>1, <1>3, <1>4, <1>5, <1>6, <1>7, <1>8, AllDone

LEMMA ApiInvariance ==
  ASSUME ApiArgs
  PROVE  MCSpec => []ApiInv
<1>1. MCInit => ApiInv
  BY ApiInit DEF MCInit
<1>2. ApiInv /\ [MCNext]_<<subject, counter, queue, hash, rw, api>> => ApiInv'
  <2>1. ASSUME ApiInv, UNCHANGED api PROVE ApiInv'
    BY <2>1 DEF api, ApiInv, ApiTypeOK, EndOfScript, script, left, Nobody, DeadlockInv, GlobalInv,
                RaceInv, Counted, SignalInv, SignalCvInv
  <2>2. [MCNext]_<<subject, counter, queue, hash, rw, api>> => Api!Next \/ UNCHANGED api
    BY DEF MCNext
  <2> QED BY <2>1, <2>2, ApiStep
<1> QED BY <1>1, <1>2, PTL DEF MCSpec

\* threads-api: the programs stop only with their work done: main-race.c with
\* both increments counted, because balance++ is a load and a store under one
\* lock; main-signal-cv.c with the worker's line first, because whoever sleeps
\* has the signal still to come; main-deadlock.c also in its deadlock, which
\* main-deadlock-global.c cannot reach.
THEOREM StopsWithWorkDone ==
  ASSUME ApiArgs
  PROVE  MCSpec => []StopsOnlyWhenDone
<1>1. ApiInv => StopsOnlyWhenDone
  <2> SUFFICES ASSUME ApiInv, \A t \in Api!Thread : Api!Blocked(t) PROVE StopsOnlyWhenDone
    BY DEF StopsOnlyWhenDone, Api!StopsOnlyWhenDone
  <2>1. program \in {"deadlock", "deadlock_global", "race", "signal", "signal_cv"}
    BY DEF ApiInv, ApiTypeOK
  <2>2. CASE program = "race"
    BY <2>2, StopsDone DEF StopsOnlyWhenDone, Api!StopsOnlyWhenDone
  <2>3. CASE program \in {"signal", "signal_cv"}
    BY <2>3, StopsDone DEF StopsOnlyWhenDone, Api!StopsOnlyWhenDone
  <2>4. CASE program = "deadlock_global"
    BY <2>4, StopsDone DEF StopsOnlyWhenDone, Api!StopsOnlyWhenDone
  <2>5. CASE program = "deadlock"
    BY <2>5, StopsDone DEF StopsOnlyWhenDone, Api!StopsOnlyWhenDone
  <2> QED BY <2>1, <2>2, <2>3, <2>4, <2>5
<1> QED BY <1>1, ApiInvariance, PTL
=============================================================================
