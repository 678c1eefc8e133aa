-------------------------- MODULE StreamQueueProofs --------------------------
(***************************************************************************)
(* What follows from the order of StreamQueue alone, for every number of   *)
(* producers, consumers, items and slots: the markers are the end of the   *)
(* queue, and each of them ends one consumer.                              *)
(***************************************************************************)
EXTENDS StreamQueue, FiniteSetTheorems, SequenceTheorems, TLAPS

SArgs ==
  producers \in Nat /\ consumers \in Nat /\ loops \in Nat \ {0} /\ max \in Nat \ {0}

Entry == Nat \cup {END_OF_STREAM}

STypeOK ==
  /\ queue \in Seq(Entry) /\ Len(queue) <= max
  /\ sent \in [Producer -> 0 .. loops]
  /\ eos \in 0 .. consumers
  /\ tmp \in [Consumer -> Entry]

\* Markers come when all items have been put.
ItemsFirst == eos > 0 => \A p \in Producer : sent[p] = loops

\* The last e entries of the queue are markers and the others are items.
LastAreMarkers(e) ==
  \A k \in 1 .. Len(queue) : queue[k] = END_OF_STREAM <=> k > Len(queue) - e

\* Every marker is one of them or has ended a consumer, and once one consumer
\* has ended there are no items in front of them.
MarkersAtEnd ==
  \E e \in 0 .. Len(queue) :
    /\ LastAreMarkers(e)
    /\ e + Cardinality(Ended) = eos
    /\ Ended # {} => e = Len(queue)

SInv == STypeOK /\ ItemsFirst /\ MarkersAtEnd

-----------------------------------------------------------------------------

LEMMA EndedFinite ==
  ASSUME SArgs
  PROVE  /\ IsFiniteSet(Ended) /\ Cardinality(Ended) \in Nat
         /\ Cardinality(Ended) = 0 <=> Ended = {}
<1>1. IsFiniteSet(Consumer)
  BY FS_Interval DEF SArgs, Consumer
<1>2. Ended \in SUBSET Consumer
  BY DEF Ended
<1> QED BY <1>1, <1>2, FS_Subset, FS_CardinalityType, FS_EmptySet

LEMMA InitS == SArgs /\ SInit => SInv
<1> SUFFICES ASSUME SArgs, SInit PROVE SInv
  OBVIOUS
<1>1. STypeOK /\ ItemsFirst
  BY DEF SArgs, SInit, STypeOK, Entry, ItemsFirst
<1>2. Ended = {}
  BY DEF SInit, Ended, END_OF_STREAM
<1>3. LastAreMarkers(0) /\ 0 + Cardinality(Ended) = eos
  BY <1>2, FS_EmptySet DEF SInit, LastAreMarkers
<1> QED BY <1>1, <1>2, <1>3 DEF SInv, MarkersAtEnd, SInit

LEMMA EnqueueLast ==
  ASSUME queue \in Seq(Entry), NEW value \in Entry, Enqueue(value)
  PROVE  /\ queue' \in Seq(Entry) /\ Len(queue') = Len(queue) + 1
         /\ \A k \in 1 .. Len(queue) : queue'[k] = queue[k]
         /\ queue'[Len(queue) + 1] = value
BY AppendProperties, LenProperties DEF Enqueue

\* An item is put while there are no markers.
LEMMA PutStep ==
  ASSUME SArgs, SInv, NEW p \in Producer, Put(p)
  PROVE  SInv'
<1> USE DEF SInv
<1>1. /\ sent[p] < loops /\ Len(queue) < max /\ Enqueue(p * loops + sent[p])
      /\ sent' = [sent EXCEPT ![p] = @ + 1] /\ eos' = eos /\ tmp' = tmp
      /\ sent[p] \in Nat /\ p \in Nat /\ Len(queue) \in Nat
  BY LenProperties DEF Put, STypeOK, SArgs, Producer
<1>2. p * loops + sent[p] \in Nat
  <2>1. p * loops \in Nat
    BY <1>1 DEF SArgs
  <2> QED BY <1>1, <2>1
<1>3. p * loops + sent[p] \in Entry /\ p * loops + sent[p] # END_OF_STREAM
  BY <1>2 DEF Entry, END_OF_STREAM
<1>4. /\ queue' \in Seq(Entry) /\ Len(queue') = Len(queue) + 1
      /\ \A k \in 1 .. Len(queue) : queue'[k] = queue[k]
      /\ queue'[Len(queue) + 1] = p * loops + sent[p]
  BY <1>1, <1>3, EnqueueLast DEF STypeOK
<1>5. eos = 0
  BY <1>1 DEF ItemsFirst, STypeOK, SArgs
<1>6. STypeOK' /\ ItemsFirst'
  BY <1>1, <1>4, <1>5 DEF STypeOK, SArgs, ItemsFirst
<1>7. Ended' = Ended
  BY <1>1 DEF Ended
<1>8. Ended = {} /\ LastAreMarkers(0) /\ Cardinality(Ended) = 0
  BY <1>1, <1>5, EndedFinite DEF MarkersAtEnd
<1>9. LastAreMarkers(0)'
  BY <1>1, <1>3, <1>4, <1>8 DEF LastAreMarkers
<1>10. MarkersAtEnd'
  BY <1>1, <1>4, <1>5, <1>7, <1>8, <1>9 DEF MarkersAtEnd
<1> QED BY <1>6, <1>10

LEMMA PutEosStep ==
  ASSUME SArgs, SInv, PutEos
  PROVE  SInv'
<1> USE DEF SInv
<1>1. /\ \A p \in Producer : sent[p] = loops
      /\ eos < consumers /\ Len(queue) < max /\ Enqueue(END_OF_STREAM)
      /\ sent' = sent /\ eos' = eos + 1 /\ tmp' = tmp /\ Len(queue) \in Nat /\ eos \in Nat
  BY LenProperties DEF PutEos, STypeOK, SArgs
<1>2. /\ queue' \in Seq(Entry) /\ Len(queue') = Len(queue) + 1
      /\ \A k \in 1 .. Len(queue) : queue'[k] = queue[k]
      /\ queue'[Len(queue) + 1] = END_OF_STREAM
  BY <1>1, EnqueueLast DEF STypeOK, Entry
<1>3. STypeOK' /\ ItemsFirst'
  BY <1>1, <1>2 DEF STypeOK, SArgs, ItemsFirst
<1>4. Ended' = Ended
  BY <1>1 DEF Ended
<1>5. PICK e \in 0 .. Len(queue) : /\ LastAreMarkers(e) /\ e + Cardinality(Ended) = eos
                                   /\ Ended # {} => e = Len(queue)
  BY DEF MarkersAtEnd
<1>6. LastAreMarkers(e + 1)'
  <2> SUFFICES ASSUME NEW k \in 1 .. Len(queue) + 1
               PROVE  queue'[k] = END_OF_STREAM <=> k > (Len(queue) + 1) - (e + 1)
    BY <1>2 DEF LastAreMarkers
  <2>1. CASE k = Len(queue) + 1
    BY <1>1, <1>2, <2>1
  <2>2. CASE k # Len(queue) + 1
    BY <1>1, <1>2, <1>5, <2>2 DEF LastAreMarkers
  <2> QED BY <2>1, <2>2
<1>7. e + 1 \in 0 .. Len(queue') /\ (e + 1) + Cardinality(Ended) = eos'
  BY <1>1, <1>2, <1>5, EndedFinite
<1>8. MarkersAtEnd'
  BY <1>1, <1>2, <1>4, <1>5, <1>6, <1>7 DEF MarkersAtEnd
<1> QED BY <1>3, <1>8

LEMMA TakeStep ==
  ASSUME SArgs, SInv, NEW c \in Consumer, Take(c)
  PROVE  SInv'
<1> USE DEF SInv
<1>1. /\ tmp[c] # END_OF_STREAM /\ queue # <<>>
      /\ tmp' = [tmp EXCEPT ![c] = Head(queue)] /\ queue' = Tail(queue)
      /\ sent' = sent /\ eos' = eos
  BY DEF Take
<1>2. /\ Head(queue) \in Entry /\ Head(queue) = queue[1]
      /\ queue' \in Seq(Entry) /\ Len(queue) \in Nat \ {0} /\ Len(queue') = Len(queue) - 1
      /\ \A k \in 1 .. Len(queue) - 1 : queue'[k] = queue[k + 1]
  BY <1>1, HeadTailProperties, EmptySeq, LenProperties, ElementOfSeq DEF STypeOK
<1>3. STypeOK' /\ ItemsFirst'
  BY <1>1, <1>2 DEF STypeOK, SArgs, ItemsFirst
<1>4. PICK e \in 0 .. Len(queue) : /\ LastAreMarkers(e) /\ e + Cardinality(Ended) = eos
                                   /\ Ended # {} => e = Len(queue)
  BY DEF MarkersAtEnd
<1>5. CASE e = Len(queue)
  <2>1. Head(queue) = END_OF_STREAM
    BY <1>2, <1>4, <1>5 DEF LastAreMarkers
  <2>2. c \notin Ended /\ Ended' = Ended \cup {c}
    BY <1>1, <2>1 DEF Ended, STypeOK
  <2>3. Cardinality(Ended') = Cardinality(Ended) + 1
    BY <2>2, EndedFinite, FS_AddElement
  <2>4. LastAreMarkers(e - 1)'
    <3> SUFFICES ASSUME NEW k \in 1 .. Len(queue) - 1
                 PROVE  queue'[k] = END_OF_STREAM <=> k > (Len(queue) - 1) - (e - 1)
      BY <1>2 DEF LastAreMarkers
    <3>1. queue'[k] = queue[k + 1] /\ k + 1 \in 1 .. Len(queue)
      BY <1>2
    <3>2. queue[k + 1] = END_OF_STREAM
      BY <1>2, <1>4, <1>5, <3>1 DEF LastAreMarkers
    <3> QED BY <1>2, <1>5, <3>1, <3>2
  <2>5. e - 1 \in 0 .. Len(queue') /\ (e - 1) + Cardinality(Ended') = eos' /\ e - 1 = Len(queue')
    BY <1>1, <1>2, <1>4, <1>5, <2>3, EndedFinite
  <2>6. MarkersAtEnd'
    BY <2>4, <2>5 DEF MarkersAtEnd
  <2> QED BY <1>3, <2>6
<1>6. CASE e # Len(queue)
  <2>1. Head(queue) # END_OF_STREAM /\ Ended = {}
    BY <1>2, <1>4, <1>6 DEF LastAreMarkers
  <2>2. Ended' = Ended
    BY <1>1, <2>1 DEF Ended, STypeOK
  <2>3. LastAreMarkers(e)'
    <3> SUFFICES ASSUME NEW k \in 1 .. Len(queue) - 1
                 PROVE  queue'[k] = END_OF_STREAM <=> k > (Len(queue) - 1) - e
      BY <1>2 DEF LastAreMarkers
    <3>1. queue'[k] = queue[k + 1] /\ k + 1 \in 1 .. Len(queue)
      BY <1>2
    <3>2. queue[k + 1] = END_OF_STREAM <=> k + 1 > Len(queue) - e
      BY <1>4, <3>1 DEF LastAreMarkers
    <3> QED BY <1>2, <1>4, <3>1, <3>2
  <2>4. e \in 0 .. Len(queue')
    BY <1>2, <1>4, <1>6
  <2>5. MarkersAtEnd'
    BY <1>1, <1>4, <2>1, <2>2, <2>3, <2>4 DEF MarkersAtEnd
  <2> QED BY <1>3, <2>5
<1> QED BY <1>5, <1>6

LEMMA SStep ==
  ASSUME SArgs, SInv, [SNext]_svars
  PROVE  SInv'
<1>1. CASE UNCHANGED svars
  BY <1>1 DEF svars, SInv, STypeOK, ItemsFirst, MarkersAtEnd, LastAreMarkers, Ended
<1>2. CASE SNext
  BY <1>2, PutStep, PutEosStep, TakeStep DEF SNext
<1> QED BY <1>1, <1>2

LEMMA SInvariance == ASSUME SArgs PROVE SSpec => []SInv
<1>1. SInit => SInv
  BY InitS
<1>2. SInv /\ [SNext]_svars => SInv'
  BY SStep
<1> QED BY <1>1, <1>2, PTL DEF SSpec

\* No item is behind a marker.
THEOREM MarkersBehindItems == ASSUME SArgs PROVE SSpec => []EosLast
<1>1. SInv => EosLast
  <2> SUFFICES ASSUME SInv, NEW j \in 1 .. Len(queue), NEW k \in 1 .. Len(queue),
                      j < k, queue[j] = END_OF_STREAM
               PROVE  queue[k] = END_OF_STREAM
    BY DEF EosLast
  <2>1. PICK e \in 0 .. Len(queue) : LastAreMarkers(e)
    BY DEF SInv, MarkersAtEnd
  <2>2. Len(queue) \in Nat
    BY LenProperties DEF SInv, STypeOK
  <2> QED BY <2>1, <2>2 DEF LastAreMarkers
<1> QED BY <1>1, SInvariance, PTL

\* Each marker is in the queue or has ended a consumer that no other one has.
THEOREM MarkersCounted == ASSUME SArgs PROVE SSpec => []OneMarkerPerConsumer
<1>1. SInv => OneMarkerPerConsumer
  <2> SUFFICES ASSUME SInv PROVE OneMarkerPerConsumer
    OBVIOUS
  <2>1. PICK e \in 0 .. Len(queue) : LastAreMarkers(e) /\ e + Cardinality(Ended) = eos
    BY DEF SInv, MarkersAtEnd
  <2>2. Len(queue) \in Nat
    BY LenProperties DEF SInv, STypeOK
  <2>3. {k \in 1 .. Len(queue) : queue[k] = END_OF_STREAM} = (Len(queue) - e + 1) .. Len(queue)
    BY <2>1, <2>2 DEF LastAreMarkers
  <2>4. Cardinality((Len(queue) - e + 1) .. Len(queue)) = e
    BY <2>1, <2>2, FS_Interval
  <2> QED BY <2>1, <2>3, <2>4 DEF OneMarkerPerConsumer
<1> QED BY <1>1, SInvariance, PTL

\* When as many markers have been put as there are consumers, and all of them
\* have ended, the queue is empty.
LEMMA AllEnded ==
  ASSUME SArgs, SInv, consumers > 0, eos = consumers, \A c \in Consumer : tmp[c] = END_OF_STREAM
  PROVE  Len(queue) = 0
<1>1. PICK e \in 0 .. Len(queue) : e + Cardinality(Ended) = eos /\ (Ended # {} => e = Len(queue))
  BY DEF SInv, MarkersAtEnd
<1>2. Ended = producers .. producers + consumers - 1
  BY DEF Ended, Consumer
<1>3. Cardinality(Ended) = consumers
  BY <1>2, FS_Interval DEF SArgs
<1>4. producers \in Ended /\ Len(queue) \in Nat
  BY <1>2, LenProperties DEF SArgs, SInv, STypeOK
<1> QED BY <1>1, <1>3, <1>4 DEF SArgs

\* Consumers that have all ended have used up all markers.
LEMMA EndedByAll ==
  ASSUME SArgs, SInv, \A c \in Consumer : tmp[c] = END_OF_STREAM
  PROVE  eos = consumers
<1>1. PICK e \in 0 .. Len(queue) : e + Cardinality(Ended) = eos
  BY DEF SInv, MarkersAtEnd
<1>2. Ended = producers .. producers + consumers - 1
  BY DEF Ended, Consumer
<1>3. Cardinality(Ended) = consumers
  BY <1>2, FS_Interval DEF SArgs
<1>4. Len(queue) \in Nat /\ eos \in 0 .. consumers
  BY LenProperties DEF SInv, STypeOK
<1> QED BY <1>1, <1>3, <1>4 DEF SArgs

\* When all markers have been put, there is one in the queue for a consumer that
\* has not ended.
LEMMA MarkerLeft ==
  ASSUME SArgs, SInv, eos = consumers, NEW c \in Consumer, tmp[c] # END_OF_STREAM
  PROVE  Len(queue) > 0
<1>1. PICK e \in 0 .. Len(queue) : e + Cardinality(Ended) = eos
  BY DEF SInv, MarkersAtEnd
<1>2. Consumer = producers .. producers + consumers - 1
  BY DEF Consumer
<1>3. IsFiniteSet(Consumer) /\ Cardinality(Consumer) = consumers
  BY <1>2, FS_Interval DEF SArgs
<1>4. Ended \in SUBSET Consumer /\ Ended # Consumer
  BY DEF Ended
<1>5. Cardinality(Ended) <= consumers /\ Cardinality(Ended) # consumers
  BY <1>3, <1>4, FS_Subset
<1>6. Len(queue) \in Nat /\ Cardinality(Ended) \in Nat
  BY EndedFinite, LenProperties DEF SInv, STypeOK
<1> QED BY <1>1, <1>5, <1>6 DEF SArgs
=============================================================================
