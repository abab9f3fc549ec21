------------------------- MODULE MessageQueueProofs -------------------------
(***************************************************************************)
(* Proofs about MessageQueue, for every queue size, every set of consumers *)
(* and every number of puts.                                               *)
(***************************************************************************)
EXTENDS MessageQueue, TLAPS

\* The numbers of the puts seen so far bound everything put or handed out, so
\* the next put is newer than all of it.
Newest == /\ \A i \in 1 .. Len(queue) : queue[i] <= totalProduced
          /\ \A c \in Consumers : \A x \in got[c] : x <= totalProduced

\* The inductive invariant: Fifo alone does not survive a put without Newest,
\* Conservation is arithmetic over the typed counters.
QueueInv == TypeOK /\ Conservation /\ Bounded /\ Newest /\ Fifo /\ NoLostWakeup

\* Removing the head of a non-empty sequence shifts the others by one.
LEMMA TailShifts ==
  ASSUME NEW S, NEW s \in Seq(S), s /= <<>>
  PROVE  /\ Tail(s) \in Seq(S)
         /\ Len(s) \in Nat \ {0}
         /\ Len(Tail(s)) = Len(s) - 1
         /\ Head(s) = s[1] /\ Head(s) \in S
         /\ \A i \in 1 .. Len(s) - 1 : Tail(s)[i] = s[i + 1]
OBVIOUS

\* Appending keeps every element in its place.
LEMMA AppendKeeps ==
  ASSUME NEW S, NEW s \in Seq(S), NEW x \in S
  PROVE  /\ Append(s, x) \in Seq(S)
         /\ Len(s) \in Nat
         /\ Len(Append(s, x)) = Len(s) + 1
         /\ \A i \in 1 .. Len(s) : Append(s, x)[i] = s[i]
         /\ Append(s, x)[Len(s) + 1] = x
OBVIOUS

LEMMA InitQueueInv == Init => QueueInv
  BY MaxQueueSizeAssumption, BoundsAssumption
  DEF Init, QueueInv, TypeOK, Conservation, Bounded, Newest, Fifo, NoLostWakeup, Items

\* What put_sample leaves in the deque before it appends: all of it, or all but
\* the oldest; either way ordered, and below the bound.
LEMMA RoomForOne ==
  ASSUME QueueInv, NEW rest, rest = IF Full THEN Tail(queue) ELSE queue
  PROVE  /\ rest \in Seq(Items)
         /\ Len(rest) = Len(queue) - (IF Full THEN 1 ELSE 0)
         /\ Len(rest) < MaxQueueSize
         /\ \A i \in 1 .. Len(rest) : rest[i] <= totalProduced
         /\ \A i, j \in 1 .. Len(rest) : i < j => rest[i] < rest[j]
         /\ \A c \in Consumers : \A x \in got[c] :
              \A i \in 1 .. Len(rest) : x < rest[i]
<1> USE MaxQueueSizeAssumption DEF QueueInv, TypeOK, Bounded, Newest, Fifo, Full, Items
<1>0. queue \in Seq(Items) /\ Len(queue) \in Nat
  OBVIOUS
<1>1. CASE ~Full
  BY <1>0, <1>1
<1>2. CASE Full
  <2>1. queue /= <<>>
    BY <1>0, <1>2
  <2>2. /\ rest = Tail(queue)
        /\ rest \in Seq(Items)
        /\ Len(rest) = Len(queue) - 1
        /\ \A i \in 1 .. Len(rest) : rest[i] = queue[i + 1]
    BY <2>1, <1>0, <1>2, TailShifts
  <2>3. \A i \in 1 .. Len(rest) : i + 1 \in 1 .. Len(queue)
    BY <2>2, <1>0
  <2> QED
    BY <2>2, <2>3, <1>0, <1>2
<1> QED
  BY <1>1, <1>2

LEMMA PutSampleInv == QueueInv /\ PutSample(totalProduced + 1) => QueueInv'
<1> SUFFICES ASSUME QueueInv, PutSample(totalProduced + 1)
             PROVE  QueueInv'
  OBVIOUS
<1> DEFINE rest == IF Full THEN Tail(queue) ELSE queue
           x    == totalProduced + 1
<1>1. x \in Items /\ totalProduced \in Nat
  BY BoundsAssumption DEF PutSample, QueueInv, TypeOK, Items
<1>2. /\ rest \in Seq(Items)
      /\ Len(rest) = Len(queue) - (IF Full THEN 1 ELSE 0)
      /\ Len(rest) < MaxQueueSize
      /\ \A i \in 1 .. Len(rest) : rest[i] <= totalProduced
      /\ \A i, j \in 1 .. Len(rest) : i < j => rest[i] < rest[j]
      /\ \A c \in Consumers : \A y \in got[c] :
           \A i \in 1 .. Len(rest) : y < rest[i]
  BY RoomForOne
<1>3. queue' = Append(rest, x) /\ got' = got /\ totalProduced' = x
  BY DEF PutSample
<1> HIDE DEF rest, x
<1>4. /\ queue' \in Seq(Items)
      /\ Len(rest) \in Nat
      /\ Len(queue') = Len(rest) + 1
      /\ \A i \in 1 .. Len(rest) : queue'[i] = rest[i]
      /\ queue'[Len(rest) + 1] = x
  BY <1>1, <1>2, <1>3, AppendKeeps
<1>5. TypeOK'
  BY <1>1, <1>3, <1>4, BoundsAssumption DEF PutSample, NotifyAll, QueueInv, TypeOK, x
<1>6. Conservation'
  <2>1. Len(queue) \in Nat
    BY DEF QueueInv, TypeOK
  <2>2. /\ droppedSamples' = droppedSamples + (IF Full THEN 1 ELSE 0)
        /\ totalProduced' = totalProduced + 1
        /\ UNCHANGED <<totalConsumed, cleared>>
        /\ totalProduced = totalConsumed + droppedSamples + cleared + Len(queue)
        /\ totalConsumed \in Nat /\ droppedSamples \in Nat /\ cleared \in Nat
    BY DEF PutSample, QueueInv, TypeOK, Conservation
  <2>3. Len(queue') = Len(queue) - (IF Full THEN 1 ELSE 0) + 1
    BY <1>2, <1>4
  <2> QED
    BY <1>1, <2>1, <2>2, <2>3 DEF Conservation
<1>7. Bounded'
  BY <1>2, <1>4, MaxQueueSizeAssumption DEF Bounded
<1>8. Newest'
  <2>1. \A i \in 1 .. Len(queue') : queue'[i] <= x
    <3>1. ASSUME NEW i \in 1 .. Len(rest) PROVE queue'[i] <= x
      <4>1. rest[i] \in Items /\ rest[i] <= totalProduced /\ queue'[i] = rest[i]
        BY <1>2, <1>4
      <4> QED
        BY <4>1, <1>1 DEF x, Items
    <3>2. queue'[Len(rest) + 1] <= x
      BY <1>1, <1>4 DEF x, Items
    <3> QED
      BY <1>4, <3>1, <3>2
  <2>2. \A c \in Consumers : \A y \in got[c] : y <= x
    BY <1>1 DEF x, QueueInv, Newest, TypeOK, Items
  <2> QED
    BY <1>3, <2>1, <2>2 DEF Newest
<1>9. Fifo'
  <2>1. ASSUME NEW i \in 1 .. Len(rest) PROVE rest[i] \in Int /\ rest[i] < x
    <3>1. rest[i] \in Items /\ rest[i] <= totalProduced
      BY <1>2, <1>4
    <3> QED
      BY <1>1, <3>1 DEF x, Items
  <2>2. ASSUME NEW i \in 1 .. Len(queue'), NEW j \in 1 .. Len(queue'), i < j
        PROVE  queue'[i] < queue'[j]
    <3>1. i \in 1 .. Len(rest) /\ queue'[i] = rest[i]
      BY <1>4, <2>2
    <3>2. CASE j \in 1 .. Len(rest)
      BY <1>2, <1>4, <2>2, <3>1, <3>2
    <3>3. CASE j = Len(rest) + 1
      BY <1>4, <2>1, <3>1, <3>3
    <3> QED
      BY <1>4, <3>2, <3>3
  <2>3. ASSUME NEW c \in Consumers, NEW y \in got[c], NEW i \in 1 .. Len(queue')
        PROVE  y < queue'[i]
    <3>1. CASE i \in 1 .. Len(rest)
      BY <1>2, <1>4, <3>1
    <3>2. CASE i = Len(rest) + 1
      <4>1. y <= totalProduced /\ y \in Int
        BY DEF QueueInv, Newest, TypeOK, Items
      <4> QED
        BY <1>1, <1>4, <3>2, <4>1 DEF x
    <3> QED
      BY <1>4, <3>1, <3>2
  <2> QED
    BY <1>3, <2>2, <2>3 DEF Fifo
<1>10. NoLostWakeup'
  BY DEF PutSample, NotifyAll, NoLostWakeup
<1> QED
  BY <1>5, <1>6, <1>7, <1>8, <1>9, <1>10 DEF QueueInv

LEMMA GetSampleInv ==
  ASSUME NEW c \in Consumers, QueueInv, GetSample(c)
  PROVE  QueueInv'
<1>1. /\ queue \in Seq(Items) /\ queue /= <<>>
      /\ queue' = Tail(queue)
      /\ got' = [got EXCEPT ![c] = @ \union {Head(queue)}]
      /\ got \in [Consumers -> SUBSET Items]
      /\ totalProduced' = totalProduced
      /\ totalConsumed' = totalConsumed + 1
  BY DEF GetSample, QueueInv, TypeOK
<1>2. /\ queue' \in Seq(Items)
      /\ Len(queue) \in Nat \ {0}
      /\ Len(queue') = Len(queue) - 1
      /\ Head(queue) = queue[1] /\ Head(queue) \in Items
      /\ \A i \in 1 .. Len(queue') : queue'[i] = queue[i + 1] /\ i + 1 \in 2 .. Len(queue)
  BY <1>1, TailShifts
<1>3. TypeOK'
  BY <1>1, <1>2 DEF GetSample, QueueInv, TypeOK
<1>4. Conservation'
  BY <1>1, <1>2 DEF GetSample, QueueInv, TypeOK, Conservation
<1>5. Bounded'
  BY <1>2, MaxQueueSizeAssumption DEF QueueInv, Bounded
<1>6. Newest'
  BY <1>1, <1>2 DEF QueueInv, Newest
<1>7. Fifo'
  <2>1. \A i, j \in 1 .. Len(queue') : i < j => queue'[i] < queue'[j]
    BY <1>2 DEF QueueInv, Fifo
  <2>2. \A i \in 1 .. Len(queue') : Head(queue) < queue'[i]
    BY <1>2 DEF QueueInv, Fifo
  <2>3. \A d \in Consumers : \A x \in got'[d] : \A i \in 1 .. Len(queue') : x < queue'[i]
    BY <1>1, <1>2, <2>2 DEF QueueInv, Fifo
  <2> QED
    BY <2>1, <2>3 DEF Fifo
<1>8. NoLostWakeup'
  BY <1>1 DEF GetSample, QueueInv, NoLostWakeup
<1> QED
  BY <1>3, <1>4, <1>5, <1>6, <1>7, <1>8 DEF QueueInv

LEMMA NextQueueInv == QueueInv /\ [Next]_vars => QueueInv'
<1> SUFFICES ASSUME QueueInv, [Next]_vars PROVE QueueInv'
  OBVIOUS
<1> USE DEF QueueInv, Conservation, Bounded, Newest, Fifo, NoLostWakeup, statistics
<1>1. CASE PutSample(totalProduced + 1)
  BY <1>1, PutSampleInv
<1>2. ASSUME NEW c \in Consumers, GetSample(c) PROVE QueueInv'
  BY <1>2, GetSampleInv
<1>3. ASSUME NEW c \in Consumers, GetSampleWaits(c) PROVE QueueInv'
  BY <1>3 DEF GetSampleWaits, TypeOK
<1>4. ASSUME NEW c \in Consumers, GetSampleClosed(c) PROVE QueueInv'
  BY <1>4 DEF GetSampleClosed, TypeOK
<1>5. CASE ClearQueue
  BY <1>5, MaxQueueSizeAssumption DEF ClearQueue, TypeOK
<1>6. CASE Shutdown
  BY <1>6 DEF Shutdown, NotifyAll, TypeOK
<1>7. CASE PutValidate
  BY <1>7, BoundsAssumption DEF PutValidate, TypeOK
<1>8. CASE GetValidate
  BY <1>8, BoundsAssumption DEF GetValidate, TypeOK
<1>9. ASSUME NEW version \in 0 .. MaxSyncs, UpdateParamVersion(version) PROVE QueueInv'
  BY <1>9 DEF UpdateParamVersion, TypeOK
<1>10. CASE UNCHANGED vars
  BY <1>10 DEF vars, TypeOK
<1> QED
  BY <1>1, <1>2, <1>3, <1>4, <1>5, <1>6, <1>7, <1>8, <1>9, <1>10 DEF Next

\* The invariant holds in every reachable state.
LEMMA QueueInvariant == Spec => []QueueInv
  BY InitQueueInv, NextQueueInv, PTL DEF Spec

\* The actor's fields keep their types, and the deque never exceeds
\* max_queue_size, so that its own maxlen never discards, for every size and set
\* of consumers.
THEOREM ConsistentHolds == Spec => []Consistent
<1>1. QueueInv => Consistent
  BY DEF QueueInv, Consistent
<1> QED
  BY <1>1, QueueInvariant, PTL

\* Every put_sample is consumed, dropped, cleared or still queued: exactly one.
THEOREM ConservationHolds == Spec => []Conservation
<1>1. QueueInv => Conservation
  BY DEF QueueInv
<1> QED
  BY <1>1, QueueInvariant, PTL

\* get_sample hands samples out in the order of put_sample, across drops,
\* clear_queue and any number of consumers.
THEOREM FifoHolds == Spec => []Fifo
<1>1. QueueInv => Fifo
  BY DEF QueueInv
<1> QED
  BY <1>1, QueueInvariant, PTL

\* No caller of get_sample sleeps on a non-empty or a closed queue.
THEOREM NoLostWakeupHolds == Spec => []NoLostWakeup
<1>1. QueueInv => NoLostWakeup
  BY DEF QueueInv
<1> QED
  BY <1>1, QueueInvariant, PTL
=============================================================================
