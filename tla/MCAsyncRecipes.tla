--------------------------- MODULE MCAsyncRecipes ---------------------------
(***************************************************************************)
(* The two recipes that generate ahead of the training.  The fully         *)
(* asynchronous policy in two settings of its README.md: "async" (stream   *)
(* pipeline with stale samples) and "sync" (staleness_threshold 0, two     *)
(* local steps a version); and the "one_step_off" policy with restarts.  A *)
(* behaviour keeps the setting it began with; the other recipe stays where *)
(* it begins.                                                              *)
(***************************************************************************)
EXTENDS Integers, Sequences, FiniteSets

CONSTANTS DataSize, MaxEpochs, Total, Warmup, TestFreq, SaveFreq,   \* of "one_step_off"
          MaxStarts, MaxFaults                                   \* its bounds

VARIABLES setting,
          ready, holder, lockQueue,
          queue, valQueue, mqRunning, mqVersion, waiters, notified,
          totalProduced, totalConsumed, droppedSamples, cleared, got, rpc,
          pc, waitFor, paused, rolloutRunning, monitorLoopTrigger, stalenessSamples,
          rolloutVersion, globalSteps, pendingQueue, cancelQueue, hand, task, finished,
          failed, doneBound, snapshot, serversPaused, sampleVersion,
          tpc, afterSync, batch, localTriggerStep, trainerVersion, lastCkptVersion,
          runner,
          config, driver, step, began, version, rollout, future, current, pos, supply,
          trained, saved, starts, faults

\* FullyAsync together with its proofs, so that the theorems on these two settings
\* can be cited.
Async == INSTANCE FullyAsyncProofs
  WITH TotalSteps <- 5, RequiredSamples <- 1, TriggerSteps <- 1, StaleNum <- 1, StaleDen <- 1,
       ServerSlots <- 1, PendingSize <- 2, PartialRollout <- FALSE, MaxFailures <- 0,
       TestFreq <- 4, SaveFreq <- 0

Sync == INSTANCE FullyAsyncProofs
  WITH TotalSteps <- 4, RequiredSamples <- 1, TriggerSteps <- 2, StaleNum <- 0, StaleDen <- 1,
       ServerSlots <- 2, PendingSize <- 2, PartialRollout <- FALSE, MaxFailures <- 0,
       TestFreq <- 1, SaveFreq <- 2

One == INSTANCE OneStepOff WITH pc <- driver

ASSUME OneAssumption == One!Parameters

oneVars == <<config, driver, step, began, version, rollout, future, current, pos, supply,
             trained, saved, starts, faults>>
fullVars == <<ready, holder, lockQueue,
            queue, valQueue, mqRunning, mqVersion, waiters, notified,
            totalProduced, totalConsumed, droppedSamples, cleared, got, rpc,
            pc, waitFor, paused, rolloutRunning, monitorLoopTrigger, stalenessSamples,
            rolloutVersion, globalSteps, pendingQueue, cancelQueue, hand, task, finished,
            failed, doneBound, snapshot, serversPaused, sampleVersion,
            tpc, afterSync, batch, localTriggerStep, trainerVersion, lastCkptVersion,
            runner>>
vars == <<fullVars, oneVars, setting>>

OneIdle == One!Init /\ config = [launched |-> FALSE, balance |-> FALSE, epochs |-> MaxEpochs]

Init == \/ setting = "async" /\ Async!Init /\ OneIdle
        \/ setting = "sync"  /\ Sync!Init /\ OneIdle
        \/ setting = "one_step_off" /\ One!Init /\ Async!Init

Next == /\ \/ setting = "async" /\ Async!Next /\ UNCHANGED oneVars
           \/ setting = "sync"  /\ Sync!Next /\ UNCHANGED oneVars
           \/ setting = "one_step_off" /\ One!Next /\ UNCHANGED fullVars
        /\ UNCHANGED setting

Spec == Init /\ [][Next]_vars
-----------------------------------------------------------------------------
\* What each setting promises, as the module of its recipe states it.
BySetting(async, sync, one) ==
  CASE setting = "async" -> async [] setting = "sync" -> sync [] OTHER -> one

\* Every variable has its type; no coroutine is scheduled twice or dies on the
\* unassigned done_tasks (as many places in pending_queue as samples generated at
\* a time, see FullyAsync!ProcessorSafe), and the version passes from the trainer
\* to the queue to the rollouter, one step apart at most; rows keep their rewards,
\* and the counters of the one-step-off driver agree.
Consistent == BySetting(
  Async!TypeOK /\ Async!EachOnce /\ Async!ProcessorSafe /\ Async!Versions,
  Sync!TypeOK /\ Sync!EachOnce /\ Sync!ProcessorSafe /\ Sync!Versions,
  One!Consistent)

\* No sample is lost or doubled between the feed and the trainer, and a trainer
\* that has stopped was given every sample and has logged every validation result.
NothingLost == BySetting(Async!OnePlace /\ Async!AllDelivered /\ Async!ValidationLogged,
                         Sync!OnePlace /\ Sync!AllDelivered /\ Sync!ValidationLogged, TRUE)

\* In the setting "async" the versions a sample of the batch lags behind are
\* bounded: by three, and the fifth sample could lag by four.
Staleness == BySetting(Async!BoundedLag, TRUE, TRUE)

\* In the setting "sync", with staleness_threshold 0, a sample was generated with
\* the trainer's parameters, the rollouter keeps to rollout_num between updates
\* and is paused while the weights move.
Synchronous == BySetting(TRUE, Sync!OnPolicy /\ Sync!RolloutNum /\ Sync!PausedDuringSync, TRUE)

\* The one-step-off policy trains one update behind the generation.
PolicyAge == BySetting(TRUE, TRUE, One!PolicyAge)

\* A restart of the one-step-off policy costs one batch, and its last step is saved.
Accounted == BySetting(TRUE, TRUE, One!Accounted)

\* Three processes with their queue implement the pipeline (FullyAsync!Pipe), in
\* the setting "async"; the other settings are mapped to a pipeline that stands still.
AllWaiting == [s \in Async!Samples |-> "waiting"]
mappedPhase   == BySetting(Async!phaseOfSample, AllWaiting, AllWaiting)
mappedVersion == BySetting(trainerVersion, 0, 0)
P == INSTANCE Pipeline WITH Samples        <- Async!Samples,
                            MaxAhead       <- Async!MaxRequiredSamples + 1,
                            SamplesPerSync <- Async!SamplesPerSync,
                            phase <- mappedPhase, version <- mappedVersion

\* So does the one-step-off policy, with one batch ahead and a version for each,
\* until it is stopped for the first time.
Batches == One!Draws \ {0}
phaseOfBatch == [b \in Batches |->
                   IF b \in trained \union {current.batch} THEN "given"
                   ELSE IF b = future.batch THEN "ahead" ELSE "waiting"]
Q == INSTANCE Pipeline WITH Samples <- Batches, MaxAhead <- 1, SamplesPerSync <- 1,
                            phase <- phaseOfBatch, version <- version
OnePipeline == Q!Init /\ [][setting = "one_step_off" /\ starts' = 0 => Q!Next]_<<phaseOfBatch, version>>

ImplementsPipeline == P!Spec /\ OnePipeline
=============================================================================
