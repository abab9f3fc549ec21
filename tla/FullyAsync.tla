----------------------------- MODULE FullyAsync -----------------------------
(***************************************************************************)
(* The fully asynchronous policy: Rollouter, MessageQueue, Trainer with its*)
(* ParameterSynchronizer, and the task runner of fully_async_main.py that  *)
(* waits for both ends and clears the queue.                               *)
(***************************************************************************)
EXTENDS Rollouter, Trainer

VARIABLE runner      \* the task runner: "waiting" or "over"

vars == <<rolloutVars, trainVars, mqVars, rpc, runner>>

Init == RolloutInit /\ SharedInit /\ TrainInit /\ runner = "waiting"

RolloutOver == pc["main"] = "done" /\ pc["monitor"] = "done"
TrainOver   == tpc = "done"

(* _run_training_loop: both fit() calls have returned; clear the queue.    *)
RunnerClears ==
  /\ runner = "waiting" /\ RolloutOver /\ TrainOver
  /\ runner' = "over"
  /\ IF queue = <<>> THEN UNCHANGED mqVars ELSE MQ!ClearQueue
  /\ UNCHANGED <<rolloutVars, trainVars, rpc>>

Rollout == RolloutNext /\ UNCHANGED <<trainVars, runner>>
Train   == TrainNext /\ UNCHANGED <<rolloutVars, runner>>

\* The job is over; what stays is a processor or feed nobody waits for.
Terminated == runner = "over" /\ UNCHANGED vars

Next == Rollout \/ Train \/ RunnerClears \/ Terminated

Spec == Init /\ [][Next]_vars

(* Each process runs while it can: the event loop, the trainer, the timer, *)
(* the task runner, and every remote call is delivered and answered.       *)
Fairness ==
  /\ WF_vars(LoopStep /\ UNCHANGED <<trainVars, runner>>)
  /\ WF_vars(Train)
  /\ WF_vars(MonitorTimer /\ UNCHANGED <<trainVars, runner>>)
  /\ WF_vars(RunnerClears)
  /\ \A s \in Samples : WF_vars(Generation(s) /\ UNCHANGED <<trainVars, runner>>)
  /\ \A c \in Calls : WF_vars(CallArrives(c) /\ UNCHANGED <<trainVars, runner>>)
  /\ WF_vars((ServersCancel \/ ServersReset \/ ServersResume) /\ UNCHANGED <<trainVars, runner>>)
  /\ WF_vars((QueueSizeAnswers \/ ValidationArrives) /\ UNCHANGED <<trainVars, runner>>)
  /\ WF_vars(FinishSignalArrives /\ UNCHANGED <<trainVars, runner>>)

FairSpec == Spec /\ Fairness
-----------------------------------------------------------------------------
\* Where each coroutine can stand.
Labels ==
  [main    |-> {"start", "waitFirst", "woken", "waitProc", "sending", "sent", "stop", "done"},
   feed    |-> {"none", "put", "putDone", "full", "fullDone", "done"},
   proc    |-> {"none", "top", "setPaused", "getting", "takes", "loop", "check", "waiting",
                "returned", "idle", "idleWait", "idleWoken", "submit", "submitWait",
                "submitWoken", "done", "crashed"},
   monitor |-> {"check", "locked", "sleep", "awake", "unpause", "done"},
   pause   |-> {"none", "start", "locked", "cancelling", "gather", "gathering", "gathered",
                "resetting", "reset"},
   update  |-> {"none", "start", "locked", "sizing", "sized", "reporting", "reported"},
   resume  |-> {"none", "start", "locked", "resuming", "resumed"}]

TaskStates == {"none", "created", "sent", "generating", "interrupted", "refused",
               "completed", "cancelled", "raised", "putting", "put"}

\* Every coroutine stands at one of its labels, every sample and every remote
\* call is in one of its states, and the counters are natural numbers.
TypeOK ==
  /\ ready \in Seq(Names \X {0} \union {"task"} \X Samples)
  /\ pc \in [Names -> UNION {Labels[n] : n \in Names}] /\ \A n \in Names : pc[n] \in Labels[n]
  /\ waitFor \in {"drain", "slots", "final"}
  /\ {paused, rolloutRunning, monitorLoopTrigger, doneBound, serversPaused} \subseteq BOOLEAN
  /\ pendingQueue \in Seq(1 .. End) /\ cancelQueue \in Seq(Samples)
  /\ hand \in Samples \union {NoSample}
  /\ task \in [Samples -> TaskStates]
  /\ finished \in Nat /\ failed \subseteq Samples
  /\ {stalenessSamples, rolloutVersion, snapshot} \subseteq Nat
  /\ globalSteps \in Samples
  /\ sampleVersion \in [Samples -> Nat]
  /\ rpc \in [Calls -> {"idle", "sent", "running", "done"}]
  /\ batch \subseteq Samples /\ trainerVersion \in Nat

\* Samples by where they stand.
Given == got["trainer"] \intersect Samples
Fed   == {s \in Samples : \/ s < globalSteps
                          \/ pc["feed"] \in {"putDone", "fullDone", "done"}}
Taken == Fed \ RangeOf(pendingQueue)

\* How often sample s occurs in pending_queue, in the processor's hand, in a
\* running task, in cancel_queue, in the message queue, with the trainer.
Occurrences(s) ==
  LET In(q)   == Cardinality({i \in 1 .. Len(q) : q[i] = s})
      Is(P)   == IF P THEN 1 ELSE 0
  IN  In(pendingQueue) + In(cancelQueue) + In(queue) + Is(hand = s)
        + Is(task[s] \notin {"none", "put"}) + Is(s \in Given)

\* What is nowhere any more: dropped by the full message queue, or raised.
Gone  == {s \in Fed \ (RangeOf(pendingQueue \o cancelQueue \o queue) \union Given \union {hand}) :
             task[s] \in {"none", "put"}}
Ahead == Taken \ (Given \union Gone)

\* No sample is doubled on its way through the three processes, nor anywhere
\* before _feed_samples has put it.
NoneDoubled == \A s \in Samples : Occurrences(s) <= IF s \in Fed THEN 1 ELSE 0

\* Nor is one lost: what _feed_samples has put is in exactly one place, but for
\* what the full message queue has dropped, at most one sample a version (no
\* generation raising).
OnePlace ==
  /\ NoneDoubled
  /\ Cardinality(Gone) = droppedSamples
  /\ droppedSamples <= mqVersion

\* When the trainer has stopped it was given every sample that was not dropped
\* (no generation interrupted: after "DONE" nobody looks into cancel_queue).
AllDelivered == tpc = "done" => Samples = Given \union Gone

\* Whatever the order of pauses, resets and answers, the rollout holds no more
\* than max_required_samples samples that the trainer has not taken, and one:
\* update_param_version adds up active_tasks and the two queues, and not the
\* sample that the processor has taken and, paused, not yet submitted.
NoOverrun == Cardinality(Ahead) <= MaxRequiredSamples + 1

\* "Rollouter will generate at most [rollout_num] samples between two parameter
\* updates", (1 + staleness_threshold) * SamplesPerSync less what was generated
\* in excess before: at each version the trainer has been given SamplesPerSync.
RolloutNum == Cardinality(Taken) <= MaxRequiredSamples + SamplesPerSync * mqVersion

\* With staleness_threshold = 0, "synchronous training": every sample was
\* generated with the parameters the trainer holds when it trains on it.
OnPolicy == \A s \in batch : sampleVersion[s] = trainerVersion

\* With staleness_threshold > 0, what a batch lags behind is bounded by the
\* number of synchronisations the samples held ahead can outlast: with a
\* MaxRequiredSamples that is a multiple of SamplesPerSync, as many versions and
\* one (FullyAsyncProofs!LagBounded has the bound without this).
BoundedLag == \A s \in batch :
  SamplesPerSync * (trainerVersion - sampleVersion[s])
    <= MaxRequiredSamples + SamplesPerSync

\* "When triggering parameter synchronization ... it will wait for the tasks to
\* complete and not add new tasks" (README.md): nothing is generated while the
\* weights are being replaced.
TransferQuiet == tpc = "transfer" => \A s \in Samples : task[s] /= "generating"

\* From the return of pause() to the start of update_param_version() the
\* rollouter stays paused, with staleness_threshold = 0, and while there is a
\* processor to pause: when it is over, the monitor may undo the pause of the
\* last synchronisation.
PausedDuringSync == tpc = "transfer" /\ ~ProcOver => paused

\* "After acquiring the lock, the number of active_tasks may change": the
\* processor never ends on the done_tasks that no wait has assigned. This takes
\* no generation that raises, and fewer samples at a time than a synchronisation
\* takes, or a place in pending_queue for each of them. Where there are as many
\* samples at a time, and fewer places, a slow feed can hold the processor up until
\* pause() has gathered every task, none of which it has waited for.
ProcessorSafe == pc["proc"] /= "crashed"

\* When the trainer stops it has logged the validation result of every version.
ValidationLogged == tpc = "done" => valQueue = 0

\* The parameter version reaches the trainer, the message queue and the
\* rollouter in that order, and no process falls two versions behind the next.
Versions == /\ rolloutVersion <= mqVersion /\ mqVersion <= trainerVersion
            /\ trainerVersion - mqVersion <= 1 /\ mqVersion - rolloutVersion <= 1

\* The three processes with their queue are a pipeline: a sample is ahead of the
\* training from when the processor takes it, one sample further ahead than
\* max_required_samples (NoOverrun), until the trainer gets it.
phaseOfSample ==
  LET given == Given
      gone  == Gone
      taken == Taken
  IN  [s \in Samples |-> CASE s \in given -> "given"
                         [] s \in gone \ given -> "dropped"
                         [] s \in taken \ (given \union gone) -> "ahead"
                         [] OTHER -> "waiting"]
Pipe == INSTANCE Pipeline WITH MaxAhead <- MaxRequiredSamples + 1,
                               phase <- phaseOfSample, version <- trainerVersion

\* The samples that pause the generation are those it would continue with: all
\* that staleness_samples counts wait in cancel_queue, the trainer for one of
\* them, and only the next version would count again.
Starved == /\ cancelQueue /= <<>> /\ Live = {} /\ hand = NoSample
           /\ stalenessSamples >= MaxRequiredSamples
           /\ tpc = "collect" /\ queue = <<>>

\* Both fit() calls return: whatever is interrupted, delayed or raised, the
\* trainer gets its finish signal and every wait ends, unless the rollout has
\* starved itself.
Termination == <>(runner = "over") \/ <>[]Starved

\* "The interrupted samples will continue to be generated after synchronization"
\* (README.md): an interruption does not keep the job from its end.
Finishes == <>(runner = "over")
=============================================================================
