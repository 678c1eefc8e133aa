---------------------------- MODULE StreamQueue ----------------------------
(***************************************************************************)
(* What the producer/consumer programs of concurrency/threads-cv promise:  *)
(* a FIFO queue of at most max entries between the producers and the       *)
(* consumers, and an end-of-stream marker for each consumer behind the     *)
(* last item.  No mutex, no condition variable, no ring.                   *)
(***************************************************************************)
EXTENDS Integers, Sequences, FiniteSets

CONSTANTS producers, consumers, loops, max

END_OF_STREAM == -1
Producer == 0 .. producers - 1
Consumer == producers .. producers + consumers - 1

VARIABLES
  queue,    \* what has been stored and not yet taken, oldest first
  sent,     \* how many items each producer has stored
  eos,      \* how many end-of-stream markers have been stored
  tmp       \* what each consumer took last

svars == <<queue, sent, eos, tmp>>

SInit ==
  /\ queue = <<>>
  /\ sent = [p \in Producer |-> 0]
  /\ eos = 0
  /\ tmp = [c \in Consumer |-> 0]

Enqueue(value) == queue' = Append(queue, value)

Put(p) ==
  /\ sent[p] < loops
  /\ Len(queue) < max
  /\ Enqueue(p * loops + sent[p])
  /\ sent' = [sent EXCEPT ![p] = @ + 1]
  /\ UNCHANGED <<eos, tmp>>

PutEos ==
  /\ \A p \in Producer : sent[p] = loops
  /\ eos < consumers
  /\ Len(queue) < max
  /\ Enqueue(END_OF_STREAM)
  /\ eos' = eos + 1
  /\ UNCHANGED <<sent, tmp>>

\* A consumer that took the marker takes nothing more.
Take(c) ==
  /\ tmp[c] # END_OF_STREAM
  /\ queue # <<>>
  /\ tmp' = [tmp EXCEPT ![c] = Head(queue)]
  /\ queue' = Tail(queue)
  /\ UNCHANGED <<sent, eos>>

SNext ==
  \/ \E p \in Producer : Put(p)
  \/ PutEos
  \/ \E c \in Consumer : Take(c)

SSpec == SInit /\ [][SNext]_svars

\* The queue keeps moving as long as anyone can move it.
SFairSpec == SSpec /\ WF_svars(SNext)

-----------------------------------------------------------------------------
(* Properties.                                                             *)

Ended == {c \in Consumer : tmp[c] = END_OF_STREAM}

\* No item comes behind an end-of-stream marker, so a consumer that ends on
\* a marker leaves no item behind it.
EosLast ==
  \A j, k \in 1 .. Len(queue) :
    j < k /\ queue[j] = END_OF_STREAM => queue[k] = END_OF_STREAM

\* Every marker that was stored is still queued or has ended one consumer of
\* its own: nobody takes two.
OneMarkerPerConsumer ==
  Cardinality({k \in 1 .. Len(queue) : queue[k] = END_OF_STREAM})
    + Cardinality(Ended) = eos
=============================================================================
