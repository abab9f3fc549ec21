---------------------------- MODULE AsyncioLoop -----------------------------
(***************************************************************************)
(* The scheduling that asyncio gives the coroutines of one actor process:  *)
(* a FIFO run queue whose head runs until it suspends, and one asyncio.Lock*)
(* (the lock of the actor's asyncio.Condition) with FIFO waiters.  A       *)
(* release hands the lock to the first waiter: asyncio lets nobody overtake*)
(* a waiter that has been woken.  Coroutines are pairs <<name, index>>.    *)
(***************************************************************************)
EXTENDS Integers, Sequences

VARIABLES ready,     \* the run queue; its head is the coroutine now running
          holder,    \* the coroutine that holds the lock
          lockQueue  \* the coroutines suspended in lock.acquire()

Nobody == <<"nobody", 0>>

Runs(c) == ready /= <<>> /\ Head(ready) = c

\* What a release wakes.
NextOwner == IF lockQueue = <<>> THEN <<>> ELSE <<Head(lockQueue)>>

\* async with lock: go on if it is free, else suspend in its queue.
Acquire(c) ==
  \/ /\ holder = Nobody
     /\ holder' = c
     /\ UNCHANGED <<ready, lockQueue>>
  \/ /\ holder /= Nobody
     /\ lockQueue' = Append(lockQueue, c)
     /\ ready' = Tail(ready)
     /\ UNCHANGED holder

Release == /\ holder' = IF lockQueue = <<>> THEN Nobody ELSE Head(lockQueue)
           /\ lockQueue' = IF lockQueue = <<>> THEN <<>> ELSE Tail(lockQueue)

LockUnchanged == UNCHANGED <<holder, lockQueue>>

\* The running coroutine wakes others and goes on, or wakes them and suspends.
GoOn(woken)    == ready' = ready \o woken
Suspend(woken) == ready' = Tail(ready) \o woken

\* An answer from outside the process wakes the coroutine that awaits it.
Wake(c) == ready' = Append(ready, c)

LoopInit == ready = <<>> /\ holder = Nobody /\ lockQueue = <<>>

loopVars == <<ready, holder, lockQueue>>

RangeOf(s) == {s[i] : i \in 1 .. Len(s)}

\* A coroutine is queued to run once, waits for the lock once, and never both.
EachOnce ==
  /\ \A i, j \in 1 .. Len(ready) : ready[i] = ready[j] => i = j
  /\ \A i, j \in 1 .. Len(lockQueue) : lockQueue[i] = lockQueue[j] => i = j
  /\ RangeOf(ready) \intersect RangeOf(lockQueue) = {}
  /\ holder = Nobody => lockQueue = <<>>
=============================================================================
