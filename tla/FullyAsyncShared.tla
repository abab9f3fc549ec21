-------------------------- MODULE FullyAsyncShared --------------------------
(***************************************************************************)
(* What the actors of recipe/fully_async_policy share: the configuration,  *)
(* the MessageQueue actor, and the remote calls in flight to the Rollouter.*)
(***************************************************************************)
EXTENDS Integers, Sequences, FiniteSets

CONSTANTS TotalSteps,        \* total_rollout_steps
          RequiredSamples,   \* required_samples, per local training step
          TriggerSteps,      \* trigger_parameter_sync_step
          StaleNum, StaleDen \* staleness_threshold, as a fraction

ASSUME SharedAssumption ==
  /\ {TotalSteps, RequiredSamples, TriggerSteps, StaleDen} \subseteq Nat \ {0}
  /\ StaleNum \in Nat

SamplesPerSync == RequiredSamples * TriggerSteps

\* set_max_required_samples, also the size of the message queue.
MaxRequiredSamples == (SamplesPerSync * (StaleDen + StaleNum)) \div StaleDen

Samples  == 1 .. TotalSteps
End      == TotalSteps + 1   \* "DONE" in pending_queue, None in the message queue
NoSample == 0
Calls    == {"pause", "update", "resume"}

VARIABLES queue, valQueue, mqRunning, mqVersion, waiters, notified,
          totalProduced, totalConsumed, droppedSamples, cleared, got,
          rpc   \* rpc[c]: the remote call c to the Rollouter

MQ == INSTANCE MessageQueue
        WITH running <- mqRunning, currentParamVersion <- mqVersion,
             MaxQueueSize <- MaxRequiredSamples, Consumers <- {"trainer"},
             MaxPuts <- TotalSteps + 1, MaxSyncs <- TotalSteps + 1

mqVars == <<queue, valQueue, mqRunning, mqVersion, waiters, notified,
            totalProduced, totalConsumed, droppedSamples, cleared, got>>

\* Version 0 has been synchronised, which put one validation result.
SharedInit ==
  /\ queue = <<>> /\ valQueue = 1 /\ mqRunning = TRUE /\ mqVersion = 0
  /\ waiters = {} /\ notified = {}
  /\ totalProduced = 0 /\ totalConsumed = 0 /\ droppedSamples = 0 /\ cleared = 0
  /\ got = [c \in {"trainer"} |-> {}]
  /\ rpc = [c \in Calls |-> "idle"]
=============================================================================
