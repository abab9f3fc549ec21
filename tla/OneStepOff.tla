---------------------------- MODULE OneStepOff ----------------------------
(***************************************************************************)
(* OneStepOffRayTrainer (recipe/one_step_off_policy): while the driver     *)
(* trains a batch, the rollout workers generate the next one with the      *)
(* weights the trained batch begins with.  The job is killed, or comes to  *)
(* its end, and is started again from the checkpoint of RayPPOTrainer;     *)
(* saving is one step here (Checkpointing has the steps of a save).        *)
(* A batch is the number of its draw, weights are the number of updates    *)
(* they have seen, and the rows of a batch are two.                        *)
(***************************************************************************)
EXTENDS Integers, FiniteSets, FiniteSetsExt

CONSTANTS DataSize,   \* batches in a pass over the dataset
          MaxEpochs,  \* the most total_epochs considered
          Total,      \* total_training_steps
          Warmup,     \* critic_warmup
          TestFreq, SaveFreq,
          MaxStarts,  \* bound: how often the job is started again
          MaxFaults   \* bound: how often the dataloader raises

\* What the constants must be.
Parameters ==
  /\ {DataSize, MaxEpochs, Total, TestFreq, SaveFreq} \subseteq Nat \ {0}
  /\ {Warmup, MaxStarts, MaxFaults} \subseteq Nat
  /\ Total <= DataSize * MaxEpochs

VARIABLES
  config,             \* launch_reward_fn_async, balance_batch, total_epochs
  pc, step, began,    \* the driver, global_steps, and the first step of this process
  version, rollout,   \* the weights of the actor and of the rollout workers
  future, current,    \* batch_data_future, and the batch in training
  pos, supply,        \* the dataloader: draws so far, and what they can reach
  trained,            \* what the weights have been trained on
  saved,              \* the latest checkpoint
  starts, faults

data == <<pos, supply>>
vars == <<config, pc, step, began, version, rollout, future, current, data, trained, saved, starts, faults>>

Identity == <<1, 2>>
Orders == {Identity, <<2, 1>>}
Pending == -1
NoBatch == [batch |-> 0, of |-> 0]
NoRows == [batch |-> 0, of |-> 0, rows |-> Identity, scores |-> Identity]
NoSave == [step |-> 0, version |-> 0, pos |-> 0, trained |-> {}]

\* What the iterators of a process that starts after p draws can reach: the rest
\* of the pass the dataloader was in, and the other passes of the loop.
EndOfData(p) ==
  LET passed == IF p = 0 THEN 0 ELSE (p - 1) \div DataSize
  IN (passed + config.epochs) * DataSize

Init ==
  /\ config \in [launched : BOOLEAN, balance : BOOLEAN, epochs : 1..MaxEpochs]
  /\ Total <= DataSize * config.epochs
  /\ pc = "initial" /\ step = 0 /\ began = 1 /\ version = 0 /\ rollout = 0
  /\ future = NoBatch /\ current = NoRows
  /\ pos = 0 /\ supply = EndOfData(0) /\ trained = {} /\ saved = NoSave
  /\ starts = 0 /\ faults = 0

IsLastStep == step >= Total
-----------------------------------------------------------------------------
(* The driver.                                                             *)

\* Mutant: the generation is launched without the weights.
SyncedWeights_Old == rollout

\* sync_rollout_weights: every update before it has been waited for.
SyncedWeights == version

(* _async_gen_next_batch: the next batch is drawn, the weights are sent and*)
(* its generation begins; or the data has ended, or could not be read,     *)
(* which is taken for the end.                                             *)
GenNextBatch ==
  \/ /\ pos < supply /\ pos' = pos + 1
     /\ rollout' = SyncedWeights
     /\ future' = [batch |-> pos + 1, of |-> Pending]
     /\ UNCHANGED faults
  \/ /\ pos = supply \/ faults < MaxFaults
     /\ faults' = IF pos = supply THEN faults ELSE faults + 1
     /\ future' = NoBatch /\ UNCHANGED <<pos, rollout>>

\* The loop goes on while there is a batch to wait for.
Continued == IF future' = NoBatch THEN "over" ELSE "wait"

(* fit up to the loop: validation with the weights the rollout workers have,*)
(* and the first generation.                                               *)
FirstBatch ==
  /\ pc = "initial"
  /\ step' = step + 1 /\ began' = step + 1
  /\ GenNextBatch /\ pc' = Continued
  /\ UNCHANGED <<config, version, current, supply, trained, saved, starts>>

(* The batch that was generated is taken.                                  *)
TakeBatch ==
  /\ pc = "wait" /\ future.of /= Pending
  /\ current' = [batch |-> future.batch, of |-> future.of, rows |-> Identity, scores |-> Identity]
  /\ future' = NoBatch
  /\ pc' = IF IsLastStep THEN "train" ELSE "launch"
  /\ UNCHANGED <<config, step, began, version, rollout, data, trained, saved, starts, faults>>

(* The next one is launched before this one is trained.                    *)
LaunchNext ==
  /\ pc = "launch" /\ pc' = "train"
  /\ GenNextBatch
  /\ UNCHANGED <<config, step, began, version, current, supply, trained, saved, starts>>

\* The scores of the rows of a batch: those the reward task has computed for the
\* rows as they were generated, or those of the rows as they are now.
Scores(rows) == IF config.launched THEN Identity ELSE rows

\* The actor waits for the critic to warm up.
ActorLearns == Warmup <= step

(* Balancing, rewards and the updates.                                     *)
TrainBatch ==
  /\ pc = "train" /\ pc' = "validate"
  /\ \E rows \in IF config.balance THEN Orders ELSE {Identity} :
       current' = [current EXCEPT !.rows = rows, !.scores = Scores(rows)]
  /\ trained' = trained \union {current.batch}
  /\ version' = IF ActorLearns THEN version + 1 ELSE version
  /\ UNCHANGED <<config, step, began, rollout, future, data, saved, starts, faults>>

ValidationDue == IsLastStep \/ step % TestFreq = 0

(* _validate: its generation waits behind that of the next batch.          *)
Validated ==
  /\ pc = "validate" /\ pc' = "save"
  /\ ValidationDue => future.of /= Pending
  /\ UNCHANGED <<config, step, began, version, rollout, future, current, data, trained, saved, starts, faults>>

\* Mutant: the last step is saved in its turn only.
SaveDue_InTurn == step % SaveFreq = 0

SaveDue == IsLastStep \/ step % SaveFreq = 0

(* _save_checkpoint, and the end of the iteration.                         *)
SaveAndGoOn ==
  /\ pc = "save"
  /\ saved' = IF SaveDue THEN [step |-> step, version |-> version, pos |-> pos, trained |-> trained]
                         ELSE saved
  /\ step' = step + 1 /\ pc' = IF future = NoBatch THEN "over" ELSE "wait"
  /\ current' = NoRows
  /\ UNCHANGED <<config, began, version, rollout, future, data, trained, starts, faults>>

Driver == FirstBatch \/ TakeBatch \/ LaunchNext \/ TrainBatch \/ Validated \/ SaveAndGoOn

(* async_generate_sequences of the rollout workers.                        *)
Generate ==
  /\ pc \notin {"down", "over"} /\ future.of = Pending
  /\ future' = [future EXCEPT !.of = rollout]
  /\ UNCHANGED <<config, pc, step, began, version, rollout, current, data, trained, saved, starts, faults>>
-----------------------------------------------------------------------------
(* The job is killed, or one that has ended is started again.              *)
Stop ==
  /\ pc /= "down" /\ pc' = "down"
  /\ starts < MaxStarts /\ starts' = starts + 1
  /\ future' = NoBatch /\ current' = NoRows
  /\ UNCHANGED <<config, step, began, version, rollout, data, trained, saved, faults>>

(* init_workers sends the weights of the model, and _load_checkpoint then  *)
(* replaces those of the actor.                                            *)
Start ==
  /\ pc = "down" /\ pc' = "initial"
  /\ rollout' = 0 /\ version' = saved.version /\ trained' = saved.trained
  /\ step' = saved.step /\ began' = saved.step + 1
  /\ pos' = saved.pos /\ supply' = EndOfData(saved.pos)
  /\ UNCHANGED <<config, future, current, saved, starts, faults>>
-----------------------------------------------------------------------------
\* The driver has returned.
Over == pc = "over" /\ UNCHANGED vars

Next == Driver \/ Generate \/ Stop \/ Start \/ Over

Spec == Init /\ [][Next]_vars
-----------------------------------------------------------------------------
Draws == 0..(DataSize * MaxEpochs * (MaxStarts + 1))
Batches == [batch : Draws, of : Pending..(Total + MaxStarts)]

(* The type of the state.                                                  *)
TypeOK ==
  /\ pc \in {"initial", "wait", "launch", "train", "validate", "save", "over", "down"}
  /\ future \in Batches
  /\ current \in [batch : Draws, of : Nat, rows : Orders, scores : Orders]
  /\ pos \in 0..supply /\ supply \in Draws /\ trained \subseteq 1..pos
  /\ rollout \in 0..version

(* Every row is rewarded for its own response (compute_reward in fit), but *)
(* where the rewards are launched with the generation and the batch is     *)
(* balanced after it (ray_trainer.py:489 and 506 of the recipe).           *)
RewardsOwn == (config.launched => ~config.balance) => current.scores = current.rows

(* global_steps counts what the weights were trained on, also after a      *)
(* restart, and the actor has learned from all of it but the warm-up.      *)
StepsAgree ==
  LET done == CASE pc \in {"validate", "save", "initial"} -> step [] OTHER -> step - 1
  IN pc /= "down" => /\ Cardinality(trained) = done
                     /\ version = Max({0, done - Max({0, Warmup - 1})})

(* The driver's state is consistent: types, rewards and counts.            *)
Consistent == TypeOK /\ RewardsOwn /\ StepsAgree

(* A batch is trained with weights that have seen exactly one update more  *)
(* than those that generated it, none for the first batch of a process or  *)
(* in the warm-up: README.md:32 of the recipe, "generation and training    *)
(* parameters maintain a one-step off policy".  A validation is one update *)
(* behind, two when no generation was launched in its step; that before    *)
(* training is by the model as it was before all training, also when the   *)
(* job was resumed.                                                        *)
PolicyAge ==
  /\ pc = "train" => version - current.of = IF step > began /\ Warmup < step THEN 1 ELSE 0
  /\ pc = "validate" /\ ValidationDue =>
       version - rollout <= IF future.batch > current.batch THEN 1 ELSE 2
  /\ pc = "initial" => rollout = 0

(* No batch is trained on twice in the life of the weights; a restart costs*)
(* the one batch that was drawn when the checkpoint was saved; and a job   *)
(* that ends has saved its last step, unless the dataloader failed, or the *)
(* data ran out because of such a batch.  Each start after the end trains  *)
(* one step more than total_training_steps.                                *)
Accounted ==
  /\ pc /= "down" => Cardinality((1..pos) \ (trained \union {current.batch, future.batch})) <= starts
  /\ pc \in {"wait", "launch", "train"} => {current.batch, future.batch} \intersect trained = {}
  /\ pc = "over" => \/ saved.step >= Total
                    \/ faults > 0
                    \/ starts > 0 /\ pos = supply
  /\ Cardinality(trained) <= Total + starts
=============================================================================
