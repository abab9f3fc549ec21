---------------------------- MODULE MessageQueue ----------------------------
(***************************************************************************)
(* The MessageQueue actor of recipe/fully_async_policy/message_queue.py:   *)
(* a bounded deque of samples between Rollouter and Trainer.  Every method *)
(* body runs under one asyncio.Lock and only get_sample suspends inside it *)
(* (on the consumer condition), so a method is one action and get_sample   *)
(* is two: going to sleep, and taking a sample after being notified.       *)
(***************************************************************************)
EXTENDS Integers, Sequences, FiniteSets

CONSTANTS MaxQueueSize,  \* max_queue_size given to __init__
          Consumers,     \* callers of get_sample
          MaxPuts,       \* bound on the number of put_sample calls
          MaxSyncs       \* bound on the parameter versions, one put_validate each

ASSUME MaxQueueSizeAssumption == MaxQueueSize \in Nat \ {0}
ASSUME BoundsAssumption == MaxPuts \in Nat /\ MaxSyncs \in Nat

VARIABLES queue,         \* self.queue, a deque(maxlen = max_queue_size)
          valQueue,      \* len(self.val_queue)
          running,       \* self.running
          currentParamVersion,
          waiters,       \* consumers asleep in _consumer_condition.wait()
          notified,      \* consumers notify_all() woke, not yet run again
          totalProduced, totalConsumed, droppedSamples,
          cleared,       \* samples clear_queue() threw away (ghost)
          got            \* got[c]: the samples get_sample returned to c

statistics == <<totalProduced, totalConsumed, droppedSamples>>
vars == <<queue, valQueue, running, currentParamVersion, waiters, notified, statistics, cleared, got>>

Items == 1 .. MaxPuts

Init == /\ queue = <<>>
        /\ valQueue = 0
        /\ running = TRUE
        /\ currentParamVersion = 0
        /\ waiters = {} /\ notified = {}
        /\ totalProduced = 0 /\ totalConsumed = 0 /\ droppedSamples = 0
        /\ cleared = 0
        /\ got = [c \in Consumers |-> {}]

\* Mutant: nobody is notified.
NotifyAll_Skipped == UNCHANGED <<waiters, notified>>

\* notify_all() on the consumer condition.
NotifyAll == /\ notified' = notified \union waiters
             /\ waiters' = {}

\* Mutant: off by one.
Full_Late == Len(queue) > MaxQueueSize

Full == Len(queue) >= MaxQueueSize

\* Mutant: the dropped sample is not counted.
PutSample_Uncounted(sample) ==
  /\ totalProduced < MaxPuts
  /\ queue' = Append(IF Full THEN Tail(queue) ELSE queue, sample)
  /\ totalProduced' = totalProduced + 1
  /\ NotifyAll
  /\ UNCHANGED <<valQueue, running, currentParamVersion, totalConsumed, droppedSamples, cleared, got>>

(* put_sample: a full queue loses its oldest sample, never the new one.    *)
PutSample(sample) ==
  /\ totalProduced < MaxPuts
  /\ queue' = Append(IF Full THEN Tail(queue) ELSE queue, sample)
  /\ droppedSamples' = droppedSamples + (IF Full THEN 1 ELSE 0)
  /\ totalProduced' = totalProduced + 1
  /\ NotifyAll
  /\ UNCHANGED <<valQueue, running, currentParamVersion, totalConsumed, cleared, got>>

\* A consumer that calls get_sample, or one that was notified and runs again.
CanRun(c) == c \notin waiters

(* get_sample on an empty, open queue: sleep on the condition.             *)
GetSampleWaits(c) ==
  /\ CanRun(c)
  /\ queue = <<>> /\ running
  /\ waiters' = waiters \union {c}
  /\ notified' = notified \ {c}
  /\ UNCHANGED <<queue, valQueue, running, currentParamVersion, statistics, cleared, got>>

\* Mutant: pop() instead of popleft().
GetSample_Newest(c) ==
  /\ CanRun(c)
  /\ queue /= <<>>
  /\ queue' = SubSeq(queue, 1, Len(queue) - 1)
  /\ totalConsumed' = totalConsumed + 1
  /\ got' = [got EXCEPT ![c] = @ \union {queue[Len(queue)]}]
  /\ notified' = notified \ {c}
  /\ UNCHANGED <<valQueue, running, currentParamVersion, waiters, totalProduced, droppedSamples, cleared>>

(* get_sample with a sample there: it takes the oldest.                    *)
GetSample(c) ==
  /\ CanRun(c)
  /\ queue /= <<>>
  /\ queue' = Tail(queue)
  /\ totalConsumed' = totalConsumed + 1
  /\ got' = [got EXCEPT ![c] = @ \union {Head(queue)}]
  /\ notified' = notified \ {c}
  /\ UNCHANGED <<valQueue, running, currentParamVersion, waiters, totalProduced, droppedSamples, cleared>>

(* get_sample on an empty, closed queue: it returns None.                  *)
GetSampleClosed(c) ==
  /\ CanRun(c)
  /\ queue = <<>> /\ ~running
  /\ notified' = notified \ {c}
  /\ UNCHANGED <<queue, valQueue, running, currentParamVersion, waiters, statistics, cleared, got>>

ClearQueue ==
  /\ queue /= <<>>
  /\ cleared' = cleared + Len(queue)
  /\ queue' = <<>>
  /\ UNCHANGED <<valQueue, running, currentParamVersion, waiters, notified, statistics, got>>

Shutdown ==
  /\ running' = FALSE
  /\ NotifyAll
  /\ UNCHANGED <<queue, valQueue, currentParamVersion, statistics, cleared, got>>

PutValidate ==
  /\ valQueue < MaxSyncs
  /\ valQueue' = valQueue + 1
  /\ UNCHANGED <<queue, running, currentParamVersion, waiters, notified, statistics, cleared, got>>

(* get_validate: never waits; None on an empty val_queue changes nothing.  *)
GetValidate ==
  /\ valQueue > 0
  /\ valQueue' = valQueue - 1
  /\ UNCHANGED <<queue, running, currentParamVersion, waiters, notified, statistics, cleared, got>>

UpdateParamVersion(version) ==
  /\ currentParamVersion' = version
  /\ UNCHANGED <<queue, valQueue, running, waiters, notified, statistics, cleared, got>>

Next == \/ PutSample(totalProduced + 1)
        \/ \E c \in Consumers : GetSampleWaits(c) \/ GetSample(c) \/ GetSampleClosed(c)
        \/ ClearQueue
        \/ Shutdown
        \/ PutValidate
        \/ GetValidate
        \/ \E version \in 0 .. MaxSyncs : UpdateParamVersion(version)

Spec == Init /\ [][Next]_vars

FairSpec == Spec /\ \A c \in Consumers : WF_vars(GetSample(c) \/ GetSampleClosed(c))
-----------------------------------------------------------------------------
TypeOK == /\ queue \in Seq(Items)
          /\ valQueue \in 0 .. MaxSyncs
          /\ running \in BOOLEAN
          /\ currentParamVersion \in 0 .. MaxSyncs
          /\ waiters \subseteq Consumers
          /\ notified \subseteq Consumers
          /\ totalProduced \in 0 .. MaxPuts
          /\ totalConsumed \in Nat /\ droppedSamples \in Nat /\ cleared \in Nat
          /\ got \in [Consumers -> SUBSET Items]

\* Every put_sample is accounted for exactly once: consumed, dropped by a full
\* queue, thrown away by clear_queue, or still in the deque.
Conservation ==
  totalProduced = totalConsumed + droppedSamples + cleared + Len(queue)

\* put_sample never lets the deque's own maxlen discard a sample behind the
\* statistics' back: the explicit check keeps the length within the bound.
Bounded == Len(queue) <= MaxQueueSize

\* The fields of the actor have their types, the deque within its bound.
Consistent == TypeOK /\ Bounded

\* Samples leave in the order of their put, whatever was dropped or cleared in
\* between: the deque is ordered and holds only samples newer than any handed out.
Fifo == /\ \A i, j \in 1 .. Len(queue) : i < j => queue[i] < queue[j]
        /\ \A c \in Consumers : \A x \in got[c] :
             \A i \in 1 .. Len(queue) : x < queue[i]

\* notify_all is called wherever a sleeper's condition becomes true: nobody
\* sleeps on a queue with a sample in it or on a closed one.
NoLostWakeup == (queue /= <<>> \/ ~running) => waiters = {}

\* shutdown wakes everyone: no caller of get_sample hangs on a closed queue.
ShutdownReleases == ~running ~> [](waiters \union notified = {})
=============================================================================
