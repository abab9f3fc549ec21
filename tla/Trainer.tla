------------------------------ MODULE Trainer -------------------------------
(***************************************************************************)
(* FullyAsyncTrainer (recipe/fully_async_policy/fully_async_trainer.py) and*)
(* the ParameterSynchronizer it drives (param_sync.py).  Both are blocking *)
(* actors and the trainer waits for every call it makes, so one program    *)
(* counter stands for the two.                                             *)
(***************************************************************************)
EXTENDS FullyAsyncShared

CONSTANTS TestFreq,    \* rollout.test_freq
          SaveFreq     \* trainer.save_freq, 0 for never

ASSUME TrainerAssumption == TestFreq \in Nat \ {0} /\ SaveFreq \in Nat

VARIABLES tpc,               \* where fit() stands
          afterSync,         \* where it goes on after sync_weights
          batch,             \* queue_samples
          localTriggerStep,
          trainerVersion,    \* current_param_version of the trainer
          lastCkptVersion

stepVars == <<afterSync, localTriggerStep, trainerVersion, lastCkptVersion>>
trainVars == <<tpc, stepVars, batch>>

TrainInit == /\ tpc = "firstLog" /\ afterSync = "log" /\ batch = {}
             /\ localTriggerStep = 1 /\ trainerVersion = 0 /\ lastCkptVersion = 0

(* _log_validation_data: take one validation result, if there is one.      *)
LogLabels == {"firstLog", "log", "lastLog", "extraLog"}
\* Mutant: the last synchronisation is made in the loop.
AfterLog_InLoop(label) == CASE label = "firstLog" -> "collect"
                            [] label = "extraLog" -> "lastSave"
                            [] OTHER              -> "decide"

AfterLog(label) == CASE label = "firstLog" -> "collect"
                     [] label = "log"      -> "save"
                     [] label = "lastLog"  -> "decide"
                     [] label = "extraLog" -> "lastSave"
LogValidation ==
  /\ tpc \in LogLabels
  /\ tpc' = AfterLog(tpc)
  /\ MQ!GetValidate \/ (valQueue = 0 /\ UNCHANGED mqVars)
  /\ UNCHANGED <<stepVars, batch, rpc>>

(* _get_samples_from_queue: block for required_samples samples; None ends  *)
(* the loop and what was collected with it is given up.                    *)
CollectWaits ==
  /\ tpc = "collect"
  /\ MQ!GetSampleWaits("trainer")
  /\ UNCHANGED <<trainVars, rpc>>

Collect ==
  /\ tpc = "collect"
  /\ MQ!GetSample("trainer")
  /\ LET sample == Head(queue) IN
       \/ /\ sample = End
          /\ batch' = {} /\ tpc' = "lastWait"
       \/ /\ sample /= End
          /\ batch' = batch \union {sample}
          /\ tpc' = IF Cardinality(batch) + 1 = RequiredSamples THEN "train" ELSE "collect"
  /\ UNCHANGED <<stepVars, rpc>>

NewVersion == /\ trainerVersion' = trainerVersion + 1
              /\ localTriggerStep' = 1
              /\ tpc' = "waitValid"

(* A training step, and _trigger_parameter_sync_after_step.                *)
TrainStep ==
  /\ tpc = "train"
  /\ batch' = {}
  /\ \/ /\ localTriggerStep < TriggerSteps
        /\ localTriggerStep' = localTriggerStep + 1
        /\ tpc' = "log"
        /\ UNCHANGED <<trainerVersion, afterSync>>
     \/ /\ localTriggerStep >= TriggerSteps
        /\ NewVersion /\ afterSync' = "log"
  /\ UNCHANGED <<lastCkptVersion, rpc, mqVars>>

\* wait_last_valid: the last update_param_version and resume have returned.
LastSyncOver == {rpc["update"], rpc["resume"]} \subseteq {"idle", "done"}

(* sync_weights, step by step: pause the Rollouter,                        *)
SyncPauses ==
  /\ tpc = "waitValid" /\ LastSyncOver
  /\ rpc' = [rpc EXCEPT !["pause"] = "sent"]
  /\ tpc' = "pausing"
  /\ UNCHANGED <<stepVars, batch, mqVars>>

(* give the message queue the version,                                     *)
SyncVersions ==
  /\ tpc = "pausing" /\ rpc["pause"] = "done"
  /\ MQ!UpdateParamVersion(trainerVersion)
  /\ tpc' = "transfer"
  /\ UNCHANGED <<stepVars, batch, rpc>>

(* transfer the weights, then send update_param_version and resume.        *)
SyncTransfers ==
  /\ tpc = "transfer"
  /\ rpc' = [rpc EXCEPT !["pause"] = "idle", !["update"] = "sent", !["resume"] = "sent"]
  /\ tpc' = afterSync
  /\ UNCHANGED <<stepVars, batch, mqVars>>

(* _check_save_checkpoint: at most once a version; the expiration of the   *)
(* elastic instance (esi) forces it.                                       *)
SaveDue(esi) == /\ trainerVersion /= lastCkptVersion
                /\ SaveFreq > 0
                /\ trainerVersion % SaveFreq = 0 \/ esi
SaveCheckpoint ==
  /\ tpc \in {"save", "lastSave"}
  /\ \E esi \in BOOLEAN :
       lastCkptVersion' = IF SaveDue(esi) THEN trainerVersion ELSE lastCkptVersion
  /\ tpc' = IF tpc = "save" THEN "collect" ELSE "done"
  /\ UNCHANGED <<afterSync, localTriggerStep, trainerVersion, batch, rpc, mqVars>>

(* The end of fit: wait for the last validation and log it; then one more  *)
(* synchronisation, with validation, if the last version was not validated *)
(* or has been trained past.                                               *)
LastWait ==
  /\ tpc \in {"lastWait", "extraWait"} /\ LastSyncOver
  /\ tpc' = IF tpc = "lastWait" THEN "lastLog" ELSE "extraLog"
  /\ UNCHANGED <<stepVars, batch, rpc, mqVars>>

DecideExtraSync ==
  /\ tpc = "decide"
  /\ \/ /\ trainerVersion % TestFreq /= 0 \/ localTriggerStep > 1
        /\ NewVersion /\ afterSync' = "extraWait"
     \/ /\ ~(trainerVersion % TestFreq /= 0 \/ localTriggerStep > 1)
        /\ tpc' = "lastSave"
        /\ UNCHANGED <<trainerVersion, localTriggerStep, afterSync>>
  /\ UNCHANGED <<lastCkptVersion, batch, rpc, mqVars>>

TrainNext == \/ LogValidation \/ CollectWaits \/ Collect \/ TrainStep
             \/ SyncPauses \/ SyncVersions \/ SyncTransfers
             \/ SaveCheckpoint \/ LastWait \/ DecideExtraSync
=============================================================================
