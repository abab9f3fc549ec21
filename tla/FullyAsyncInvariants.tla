------------------------ MODULE FullyAsyncInvariants ------------------------
(***************************************************************************)
(* The invariants by which FullyAsyncProofs proves the properties of       *)
(* FullyAsync, one for each part of the system: the synchronisation        *)
(* (SyncInv, Silenced), the run queue and the lock (LockInv, TasksRun),    *)
(* where a sample is (FlowInv), how many the rollout holds (CountInv), what*)
(* the trainer was given (GivenInv, ValidInv) and how old it is (GatherInv,*)
(* LagInv), how much a pause holds back (RolloutInv, OverInv, PolicyInv,   *)
(* PauseInv), the end marker (FinalInv, EndInv), and what is lost (LossInv,*)
(* EarlyInv, FewInv).                                                      *)
(***************************************************************************)
EXTENDS FullyAsync

\* Where a call to the Rollouter, the Trainer and the versions can stand.
SyncType ==
  /\ pc = [n \in Names |-> pc[n]]
  /\ task = [s \in Samples |-> task[s]]
  /\ rpc \in [Calls -> {"idle", "sent", "running", "done"}]
  /\ afterSync \in {"log", "extraWait"}
  /\ tpc \in {"firstLog", "log", "lastLog", "extraLog", "collect", "train", "waitValid", "pausing",
              "transfer", "save", "lastSave", "lastWait", "extraWait", "decide", "done"}
  /\ {trainerVersion, mqVersion, rolloutVersion} \subseteq Nat

\* A call has a coroutine while it runs; pause is called for a synchronisation
\* and has returned before the transfer, and neither of the two calls of the
\* synchronisation before is on its way any more.
CallsInOrder ==
  /\ \A c \in Calls : rpc[c] = "running" <=> pc[c] /= "none"
  /\ rpc["pause"] /= "idle" => tpc \in {"pausing", "transfer"}
  /\ tpc = "transfer" => rpc["pause"] = "done"
  /\ tpc \in {"pausing", "transfer"} => LastSyncOver

\* The workers are started by main.
Begun == pc["main"] = "start" => pc["feed"] = "none" /\ pc["proc"] = "none"

\* The rollouter has not been told the version of the message queue yet.
Untold == \/ tpc = "transfer"
          \/ rpc["update"] = "sent"
          \/ pc["update"] \in {"start", "locked"}

\* Which version each process holds.
VersionsAt ==
  /\ trainerVersion = IF tpc \in {"waitValid", "pausing"} THEN mqVersion + 1 ELSE mqVersion
  /\ mqVersion = IF Untold THEN rolloutVersion + 1 ELSE rolloutVersion

SyncInv == SyncType /\ CallsInOrder /\ VersionsAt /\ Begun

\* With partial rollout, the servers are paused from the cancelling in pause()
\* to resume(), and a paused server generates nothing.
Silenced ==
  /\ serversPaused => \A s \in Samples : task[s] /= "generating"
  /\ pc["pause"] \in {"gather", "gathering", "gathered", "resetting", "reset"} => serversPaused
  /\ rpc["pause"] = "done" => serversPaused
-----------------------------------------------------------------------------
(* The run queue and the lock of the Rollouter's event loop.               *)

\* The places where a coroutine waits for something other than the lock.
Suspended(n, l) ==
  \/ n = "main"    /\ l \in {"waitFirst", "waitProc", "sending", "done"}
  \/ n = "feed"    /\ l \in {"none", "full", "fullDone", "done"}
  \/ n = "proc"    /\ l \in {"none", "getting", "waiting", "idleWait", "submitWait", "done", "crashed"}
  \/ n = "monitor" /\ l \in {"sleep", "done"}
  \/ n = "pause"   /\ l \in {"none", "cancelling", "gathering", "resetting"}
  \/ n = "update"  /\ l \in {"none", "sizing", "reporting"}
  \/ n = "resume"  /\ l \in {"none", "resuming"}

\* The places where an acquire() puts it, with the lock or in the lock's queue.
Entering(n, l) ==
  \/ n = "main"    /\ l = "stop"
  \/ n = "proc"    /\ l \in {"setPaused", "check", "idle", "submit"}
  \/ n = "monitor" /\ l \in {"locked", "unpause"}
  \/ n \in Calls   /\ l = "locked"

\* All places inside the critical section, those included.
Holding(n, l) ==
  \/ Entering(n, l)
  \/ n = "proc"   /\ l \in {"waiting", "returned"}
  \/ n = "pause"  /\ l \in {"cancelling", "gather", "gathering", "gathered", "resetting", "reset"}
  \/ n = "update" /\ l \in {"sizing", "sized", "reporting", "reported"}
  \/ n = "resume" /\ l \in {"resuming", "resumed"}

Coroutines == {Co(n) : n \in Names} \union {Task(s) : s \in Samples}

In(q, c)   == \E i \in 1 .. Len(q) : q[i] = c
Once(q, c) == \A i, j \in 1 .. Len(q) : q[i] = c /\ q[j] = c => i = j

\* A coroutine is in the run queue or in the lock's, once, unless it waits for
\* something else; and it is inside exactly while it has the lock or is to get it.
LockInv ==
  /\ ready \in Seq(Coroutines) /\ lockQueue \in Seq({Co(n) : n \in Names})
  /\ holder \in {Co(n) : n \in Names} \union {Nobody}
  /\ holder = Nobody => lockQueue = <<>>
  /\ \A n \in Names :
       /\ Once(ready, Co(n)) /\ Once(lockQueue, Co(n))
       /\ In(ready, Co(n)) <=> ~Suspended(n, pc[n]) /\ ~In(lockQueue, Co(n))
       /\ In(lockQueue, Co(n)) => Entering(n, pc[n]) /\ holder /= Co(n)
       /\ Holding(n, pc[n]) <=> holder = Co(n) \/ In(lockQueue, Co(n))
-----------------------------------------------------------------------------
(* Where a sample is.                                                      *)

\* What _feed_samples has put, and what the processor has taken of it: the
\* draws 1, 2, ... in their order, and the end marker last.
FedTo == CASE pc["feed"] \in {"putDone", "fullDone"} -> TotalSteps
           [] pc["feed"] = "done"                    -> End
           [] OTHER                                  -> globalSteps - 1
TakenTo == FedTo - Len(pendingQueue)

\* The processor has a sample from the moment it takes it until it submits it.
InHand == \/ pc["proc"] \in {"submit", "submitWait", "submitWoken"}
          \/ pc["proc"] \in {"loop", "check", "waiting", "returned"} /\ waitFor = "slots"

Trained == got["trainer"]

FlowType ==
  /\ globalSteps \in Samples /\ task \in [Samples -> TaskStates]
  /\ pendingQueue \in Seq(Nat) /\ Len(pendingQueue) <= FedTo
  /\ \A i \in 1 .. Len(pendingQueue) : pendingQueue[i] = TakenTo + i
  /\ cancelQueue \in Seq(Samples) /\ hand \in Samples \union {NoSample}
  /\ hand /= NoSample => InHand \/ pc["proc"] = "crashed"
  /\ InHand => hand /= NoSample
  /\ queue \in Seq(1 .. End)
  /\ got = [c \in {"trainer"} |-> got[c]]

\* One place for each sample; a sample not yet taken is nowhere but in the feed.
PlacedOnce(s) ==
  /\ Once(cancelQueue, s) /\ Once(queue, s)
  /\ s = hand \/ In(cancelQueue, s) => task[s] = "none"
  /\ ~(s = hand /\ In(cancelQueue, s))
  /\ In(queue, s) \/ s \in Trained => task[s] \in {"none", "put"} /\ s /= hand /\ ~In(cancelQueue, s)
  /\ ~(In(queue, s) /\ s \in Trained)
  /\ s > TakenTo => task[s] = "none" /\ s /= hand /\ ~In(cancelQueue, s) /\ ~In(queue, s) /\ s \notin Trained

FlowInv == FlowType /\ \A s \in Samples : PlacedOnce(s)
-----------------------------------------------------------------------------
(* The tasks in the run queue.                                             *)

\* Where a task has something to do itself: it is not in the servers' or the
\* message queue's hands.
TaskAwake == {"created", "completed", "cancelled", "raised", "put"}

TasksRun == \A s \in Samples : /\ Once(ready, Task(s))
                               /\ In(ready, Task(s)) <=> task[s] \in TaskAwake

AsyncInv == SyncInv /\ LockInv /\ FlowInv /\ TasksRun
-----------------------------------------------------------------------------
(* How many samples the rollout holds.                                     *)

\* Samples in generation, interrupted, in the message queue and in hand.
InTask   == {s \in Samples : task[s] \notin {"none", "put"}}
InCancel == {s \in Samples : In(cancelQueue, s)}
InQueue  == {s \in Samples : In(queue, s)}
Waiting  == InTask \union InCancel
Handed   == Waiting \union InQueue
Held     == Handed \union ({hand} \intersect Samples)

\* staleness_samples counts all that is held but the sample in hand; it may count
\* that one too.  While update_param_version adds up, nothing is submitted.
CountInv ==
  /\ {stalenessSamples, snapshot, finished} \subseteq Nat /\ failed \subseteq Samples
  /\ Cardinality(Held) <= stalenessSamples + 1
  /\ Cardinality(Held) <= MaxRequiredSamples + 1
  /\ pc["proc"] \in {"getting", "takes"} => Cardinality(Held) <= MaxRequiredSamples
  /\ pc["update"] = "sizing" => Cardinality(Waiting) <= snapshot
  /\ pc["update"] = "sized" => Cardinality(Handed) <= snapshot
-----------------------------------------------------------------------------
(* What the trainer was given, and the versions it made of it.             *)

\* The trainer has its finish signal, or is in the synchronisation after it.
Ended == \/ tpc \in {"lastWait", "lastLog", "decide", "extraWait", "extraLog", "lastSave", "done"}
         \/ tpc \in {"waitValid", "pausing", "transfer"} /\ afterSync = "extraWait"

GivenInv ==
  /\ batch \subseteq Given
  /\ localTriggerStep \in Nat /\ 1 <= localTriggerStep /\ localTriggerStep <= TriggerSteps
  /\ tpc \notin {"collect", "train"} => batch = {}
  /\ tpc = "collect" => Cardinality(batch) < RequiredSamples
  /\ tpc = "train" => Cardinality(batch) = RequiredSamples
  /\ End \in Trained <=> Ended
  /\ tpc \in {"waitValid", "pausing", "transfer"} => localTriggerStep = 1
  /\ ~Ended => /\ afterSync = "log"
               /\ Cardinality(Given) = SamplesPerSync * trainerVersion
                                         + RequiredSamples * (localTriggerStep - 1) + Cardinality(batch)
  /\ Ended => SamplesPerSync * (trainerVersion - 1) <= Cardinality(Given)
  /\ tpc \in {"lastWait", "lastLog", "decide"} => SamplesPerSync * trainerVersion <= Cardinality(Given)
-----------------------------------------------------------------------------
(* The validation results that wait, in the queue or still to be put there. *)

Reporting == \/ rpc["update"] = "sent"
             \/ pc["update"] \in {"start", "locked", "sizing", "sized", "reporting"}
Unlogged  == valQueue + (IF Reporting THEN 1 ELSE 0)

ValidInv ==
  /\ valQueue \in Nat
  /\ Unlogged <= IF tpc = "log" THEN 2 ELSE 1
  /\ tpc \in {"lastLog", "extraLog"} => ~Reporting
  /\ \/ tpc \in {"decide", "lastSave", "done"}
     \/ tpc \in {"waitValid", "pausing", "transfer"} /\ afterSync = "extraWait"
     => Unlogged = 0
-----------------------------------------------------------------------------
(* How far a sample's version lags behind.                                 *)

\* pause() has gathered the tasks; until the rollouter has its new version
\* every sample on its way to the queue carries the present one.
AllGathered == pc["pause"] \in {"gathered", "resetting", "reset"}
SinceGather == \/ AllGathered \/ rpc["pause"] = "done" \/ rpc["update"] = "sent"
               \/ pc["update"] \in {"start", "locked"}
GatherInv ==
  /\ AllGathered => Live = {}
  /\ sampleVersion \in [Samples -> Nat]
  /\ \A s \in Samples : task[s] = "putting" =>
       /\ sampleVersion[s] = rolloutVersion \/ sampleVersion[s] = rolloutVersion - 1
       /\ SinceGather => sampleVersion[s] = rolloutVersion

\* Whatever stays in the queue moves on by a sample, or stays where it is.
LagInv ==
  /\ Len(queue) <= MaxRequiredSamples
  /\ ~Ended => \A i \in 1 .. Len(queue) : queue[i] \in Samples =>
       Cardinality(Given) + i <= SamplesPerSync * (sampleVersion[queue[i]] + 2) + MaxRequiredSamples
  /\ \A s \in batch :
       SamplesPerSync * trainerVersion < SamplesPerSync * (sampleVersion[s] + 2) + MaxRequiredSamples

OrderInv == AsyncInv /\ CountInv /\ GivenInv /\ GatherInv /\ LagInv

\* The batches lag behind by fewer versions than the samples held ahead can
\* outlast, and two: a sample that was generated while pause() waited for it is
\* put in the queue after the synchronisation, behind all that wait there.
LagBound == \A s \in batch :
  SamplesPerSync * (trainerVersion - sampleVersion[s]) < MaxRequiredSamples + 2 * SamplesPerSync
-----------------------------------------------------------------------------
(* What is taken, and the updates it counts from.                          *)

\* The version whose update_param_version has set staleness_samples.
Counted == IF pc["update"] \in {"sizing", "sized"} THEN rolloutVersion - 1 ELSE rolloutVersion

\* Where max_required_samples is one version's samples, what is taken since that
\* version is within rollout_num.
RolloutInv ==
  /\ Counted \in Nat
  /\ TakenTo <= SamplesPerSync * Counted + stalenessSamples
  /\ TakenTo <= SamplesPerSync * (Counted + 1)
  /\ pc["proc"] \in {"getting", "takes"} => TakenTo < SamplesPerSync * (Counted + 1)

\* Every sample on its way to the trainer carries the rollouter's version.
PolicyInv ==
  /\ ~Ended => \A s \in Samples : task[s] = "putting" \/ In(queue, s) => sampleVersion[s] = rolloutVersion
  /\ \A s \in batch : sampleVersion[s] = trainerVersion
-----------------------------------------------------------------------------
(* Paused from pause() to update_param_version().                          *)

\* The finish signal is sent when the processor is over.
OverInv ==
  /\ pc["main"] \in {"sending", "sent", "stop", "done"} => ProcOver
  /\ In(queue, End) \/ End \in Trained => pc["main"] \in {"sent", "stop", "done"}

\* The monitor gets the lock to undo a pause before pause() gets it.
MonitorAhead ==
  \/ holder = Co("monitor")
  \/ \E i, j \in 1 .. Len(lockQueue) : i < j /\ lockQueue[i] = Co("monitor") /\ lockQueue[j] = Co("pause")

InPause == pc["pause"] \in {"cancelling", "gather", "gathering", "gathered", "resetting", "reset"}

\* Before the trainer has got the finish signal, pause() stands.
PauseInv ==
  ~Ended => /\ pc["pause"] = "locked" /\ pc["monitor"] = "unpause" => MonitorAhead
            /\ InPause \/ rpc["pause"] = "done" => paused /\ pc["monitor"] /= "unpause"

\* The order of the versions, the samples and the pauses in "synchronous training".
SyncOrder == OrderInv /\ RolloutInv /\ PolicyInv /\ OverInv /\ PauseInv
-----------------------------------------------------------------------------
(* What does not happen without failures, and without partial rollout.     *)

NoneFails == failed = {} /\ \A s \in Samples : task[s] /= "raised"

NoneCancelled ==
  /\ serversPaused = FALSE /\ pc["pause"] /= "cancelling" /\ cancelQueue = <<>>
  /\ \A s \in Samples : task[s] \notin {"interrupted", "refused", "cancelled"}
-----------------------------------------------------------------------------
(* The end marker.                                                         *)

\* When the processor has taken it, it only waits for the tasks; and ends
\* without any.
FinalInv ==
  /\ TakenTo = End <=> waitFor = "final"
  /\ waitFor = "final" => pc["proc"] \in {"loop", "check", "waiting", "returned", "done", "crashed"}
  /\ pc["proc"] = "done" => waitFor = "final" /\ Live = {}

\* In the message queue the end marker is last; who has taken it, took all.
EndInv ==
  /\ \A i \in 1 .. Len(queue) : queue[i] = End => i = Len(queue)
  /\ End \in Trained => queue = <<>>
-----------------------------------------------------------------------------
(* A sample is lost only to a full queue, and at most one a version.       *)

Lost == {s \in Samples : s <= TakenTo /\ s \notin Held /\ s \notin Trained}

\* What the queue has no room for, the end marker included.
Load == Cardinality(Held) + IF TakenTo = End /\ End \notin Trained THEN 1 ELSE 0

\* The next version's update_param_version has not been counted on yet: before it,
\* staleness_samples bounds the load, or no sample has been dropped since.
LossInv ==
  /\ droppedSamples \in Nat /\ Counted \in Nat
  /\ Cardinality(Lost) = droppedSamples
  /\ Load <= stalenessSamples + 1 /\ Load <= MaxRequiredSamples + 1
  /\ Load > stalenessSamples \/ Load > MaxRequiredSamples => droppedSamples < Counted
  /\ pc["proc"] \in {"getting", "takes"} =>
       Load <= MaxRequiredSamples /\ (Load = MaxRequiredSamples => droppedSamples < Counted)
  /\ droppedSamples <= Counted

\* Where samples go while the processor runs or ends as it should.
PlaceInv == OrderInv /\ OverInv /\ FinalInv /\ EndInv /\ NoneFails /\ LossInv
-----------------------------------------------------------------------------
(* Until the processor waits for its tasks the first time, none returns.   *)

\* Somebody of S is before c in q.
Before(q, S, c) == \E i, j \in 1 .. Len(q) : i < j /\ q[i] \in S /\ q[j] = c
TasksAt(P)      == {Task(s) : s \in {t \in Samples : task[t] \in P}}

\* done_tasks is unassigned, and the processor does not wait for the tasks.
Early == ~doneBound /\ pc["proc"] \notin {"waiting", "returned"}

\* The trainer has got nothing: nobody pauses, resumes or keeps the lock.
NothingPut ==
  /\ \A c \in Calls : rpc[c] = "idle"
  /\ tpc \in {"firstLog", "collect"} /\ queue = <<>>
  /\ serversPaused = FALSE /\ cancelQueue = <<>> /\ finished = 0 /\ failed = {}
  /\ lockQueue = <<>> /\ (holder = Nobody \/ Runs(holder))
  /\ \A s \in Samples : /\ task[s] \in {"none", "created", "sent", "generating", "completed"}
                        /\ s <= TakenTo /\ s /= hand => task[s] /= "none"
  /\ stalenessSamples <= TakenTo

FedEnough == FedTo >= PendingSize \/ pc["feed"] = "done"

\* The processor submits what it takes, and no task has run yet; the feed, which
\* the first take has woken, is before the tasks.
Submitting == \/ pc["proc"] = "top" /\ TakenTo > 0
              \/ pc["proc"] = "loop" /\ waitFor = "slots" /\ ActiveTasks < MaxConcurrentSamples
              \/ pc["proc"] \in {"submit", "getting"}
NoneStarted ==
  /\ \A s \in Samples : task[s] \in {"none", "created"}
  /\ \/ pc["feed"] = "done"
     \/ pc["feed"] \in {"put", "putDone"} /\ ~Before(ready, TasksAt({"created"}), Co("feed"))

\* Once the concurrency limit is reached it comes to wait before a task returns.
ComesToWait ==
  /\ pc["proc"] \in {"none", "top", "setPaused", "getting", "takes", "loop", "check", "submit"}
  /\ pc["proc"] = "none" <=> pc["feed"] = "none"
  /\ pc["proc"] = "none" => TakenTo = 0
  /\ pc["proc"] \in {"setPaused", "loop", "check", "submit"} => Runs(Co("proc")) /\ TakenTo > 0
  /\ pc["proc"] = "top" /\ TakenTo = 0 => FedEnough \/ Before(ready, {Co("feed")}, Co("proc"))
  /\ pc["proc"] = "top" /\ TakenTo > 0 => Runs(Co("proc"))
  /\ TakenTo > 0 => FedEnough
  /\ Submitting => NoneStarted
  /\ paused => pc["proc"] \in {"loop", "check"} /\ waitFor = "drain"
  /\ pc["proc"] = "loop" => Live /= {} \/ waitFor = "slots"
  /\ pc["proc"] \in {"setPaused", "check"} => Live /= {}
  /\ pc["proc"] \in {"getting", "takes"} => TakenTo >= MaxConcurrentSamples
  /\ pc["proc"] = "getting" => pc["feed"] /= "done" /\ pendingQueue = <<>>
  /\ pc["proc"] = "takes" => ~Before(ready, TasksAt({"completed"}), Co("proc"))

EarlyInv == Early => NothingPut /\ ComesToWait
-----------------------------------------------------------------------------
(* With fewer samples generated at a time than a synchronisation takes, the*)
(* processor has waited for its tasks before the first one.                *)

\* The samples that the processor has submitted.
Passed == {s \in Samples : s <= TakenTo /\ s /= hand}

\* The trainer has not synchronised: nobody pauses, interrupts or resumes.
Unsynced ==
  /\ \A c \in Calls : rpc[c] = "idle"
  /\ tpc \in {"firstLog", "collect", "train", "log", "save"} /\ trainerVersion = 0
  /\ serversPaused = FALSE /\ cancelQueue = <<>>
  /\ \A s \in Samples : task[s] \notin {"interrupted", "refused", "cancelled"}

\* Each of them has a task in active_tasks, returned or not.
Filling ==
  /\ pc["proc"] \in {"none", "top", "setPaused", "getting", "takes", "loop", "check", "submit"}
  /\ Cardinality(Passed) <= ActiveTasks /\ ActiveTasks <= MaxConcurrentSamples
  /\ pc["proc"] = "submit" => ActiveTasks < MaxConcurrentSamples
  /\ pc["proc"] \in {"setPaused", "check"} => ActiveTasks > 0
  /\ pc["proc"] = "loop" => ActiveTasks > 0 \/ waitFor = "slots"
  /\ paused => pc["proc"] \in {"loop", "check"} /\ waitFor = "drain"
  /\ stalenessSamples <= TakenTo

FewInv == Early => Unsynced /\ Filling
=============================================================================
