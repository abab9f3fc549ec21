--------------------------- MODULE Checkpointing ---------------------------
(***************************************************************************)
(* Saving, crashing and resuming a fully async job: the checkpoint of the  *)
(* trainer (_save_checkpoint, load_checkpoint), the position of the        *)
(* dataloader that the rollouter adds to it, the rotation of old           *)
(* checkpoints by the FSDP checkpoint managers of actor and critic, and the*)
(* tracker file that names the checkpoint to resume from.                  *)
(* A sample is the number of its draw from the dataloader.  Everything     *)
(* between the draw and the trainer (FullyAsync has it in detail) is one   *)
(* set, pending, of at most MaxInFlight samples that complete in any order,*)
(* or are lost on the way.                                                 *)
(***************************************************************************)
EXTENDS Integers, Sequences, FiniteSets, SequencesExt

CONSTANTS DataSize,      \* samples in the dataset
          Epochs,        \* total_epochs
          Total,         \* total_rollout_steps
          Required,      \* samples of a training step
          Trigger,       \* trigger_parameter_sync_step
          MaxInFlight,   \* what pauses and queues allow between draw and trainer
          SaveFreq, TestFreq,
          Keeps,         \* max_actor_ckpt_to_keep and max_critic_ckpt_to_keep; 0: all
          MaxCrashes,    \* bound
          MaxLosses      \* bound on the samples one process loses

ASSUME CheckpointingAssumption ==
  /\ {DataSize, Epochs, Total, Required, Trigger, MaxInFlight, SaveFreq, TestFreq} \subseteq Nat \ {0}
  /\ Keeps \subseteq Nat /\ {MaxCrashes, MaxLosses} \subseteq Nat
  /\ Total <= DataSize * Epochs /\ Required <= MaxInFlight

VARIABLES keep, useCritic,           \* the configuration
          dirs, tracker,             \* the disk
          tracked,                   \* the newest version that was in the tracker (history)
          pc, version, local, ckpt, trained, kept, final,   \* the trainer
          pos, supply, step, done, pending,                 \* the rollouter
          lost, lostBefore,   \* samples lost by this process, and by those before
                              \* it up to the draw it was resumed from (history)
          crashes

disk == <<dirs, tracker, tracked>>
trainer == <<pc, version, local, ckpt, trained, kept, final>>
losses == <<lost, lostBefore>>
rollouter == <<pos, supply, step, done, pending, losses>>
vars == <<keep, useCritic, disk, trainer, rollouter, crashes>>

\* A job that is resumed with all its steps counted draws one sample more, so
\* every restart may add a version to those of Total steps.
Versions == 1..(Total + MaxCrashes + 1)
Absent == 0          \* no tracker file
Unreadable == -1     \* a tracker file that was opened and not written

\* One global_step_<version> directory: the shards of a model are absent,
\* partly written or whole (and then hold what the model was trained on).
NoShards == [state |-> "absent", of |-> {}]
NoDir == [actor |-> NoShards, critic |-> NoShards, data |-> -1]

\* What the iterators of one process can still draw after pos draws: the rest
\* of the pass the dataloader was in, and the other passes of the loop.
EndOfData(p) == IF p = 0 THEN Epochs * DataSize ELSE ((p - 1) \div DataSize + Epochs) * DataSize

Init ==
  /\ keep \in Keeps /\ useCritic \in BOOLEAN
  /\ dirs = [v \in Versions |-> NoDir] /\ tracker = Absent /\ tracked = 0
  /\ pc = "train" /\ version = 0 /\ local = 1 /\ ckpt = 0 /\ trained = {}
  /\ kept = [actor |-> <<>>, critic |-> <<>>] /\ final = FALSE
  /\ pos = 0 /\ supply = EndOfData(0) /\ step = 1 /\ done = FALSE /\ pending = {}
  /\ lost = {} /\ lostBefore = {} /\ crashes = 0

Up == pc \notin {"down", "failed", "over"}
-----------------------------------------------------------------------------
(* The rollouter.                                                          *)

\* Mutant: the end marker is put after the last step only, not at the end of data.
FeedEnds_AfterLastStep(exhausted) == ~exhausted /\ step > Total

\* The loop over the data is left at its end, or at the last step.
FeedEnds(exhausted) == exhausted \/ step >= Total

(* _feed_samples: the next sample, or the end of the data.                 *)
Feed ==
  /\ Up /\ ~done
  /\ LET exhausted == pos = supply
     IN /\ exhausted \/ Cardinality(pending) < MaxInFlight
        /\ IF exhausted THEN UNCHANGED <<pos, pending>>
                        ELSE pos' = pos + 1 /\ pending' = pending \union {pos + 1}
        /\ done' = FeedEnds(exhausted)
        /\ step' = IF exhausted \/ FeedEnds(exhausted) THEN step ELSE step + 1
  /\ UNCHANGED <<keep, useCritic, disk, trainer, supply, losses, crashes>>

Lose(gone) == /\ pending' = pending \ gone /\ lost' = lost \union gone
              /\ Cardinality(lost') <= MaxLosses

(* A full message queue drops its oldest sample (put_sample), or the gather*)
(* of pause() swallows a generation that raised.                           *)
SampleLost ==
  /\ Up
  /\ \E s \in pending : Lose({s})
  /\ UNCHANGED <<keep, useCritic, disk, trainer, pos, supply, step, done, lostBefore, crashes>>

(* A worker raises - the dataloader in the feed, or a generation that the  *)
(* processor awaits: the end marker is put at once, ahead of some samples. *)
StreamBreaks ==
  /\ Up /\ ~done /\ done' = TRUE
  /\ \E gone \in SUBSET pending : Lose(gone)
  /\ UNCHANGED <<keep, useCritic, disk, trainer, pos, supply, step, lostBefore, crashes>>
-----------------------------------------------------------------------------
(* The trainer.                                                            *)

\* _trigger_parameter_sync_after_step.
AfterStep == IF local < Trigger THEN [version |-> version, local |-> local + 1]
                                ELSE [version |-> version + 1, local |-> 1]

(* _check_save_checkpoint: a new version and its turn, or the end of the   *)
(* instance is near.                                                       *)
CheckSave(v, otherwise) ==
  \E esi \in BOOLEAN :
    pc' = IF v /= ckpt /\ (v % SaveFreq = 0 \/ esi) THEN "actor" ELSE otherwise

(* fit: one training step on whatever samples come first.                  *)
TrainStep ==
  /\ pc = "train"
  /\ \E batch \in SUBSET pending :
       /\ Cardinality(batch) = Required
       /\ trained' = trained \union batch /\ pending' = pending \ batch
  /\ version' = AfterStep.version /\ local' = AfterStep.local
  /\ CheckSave(version', "train")
  /\ UNCHANGED <<keep, useCritic, disk, ckpt, kept, final, pos, supply, step, done, losses, crashes>>

(* The end of the queue: an incomplete batch is dropped, and the last      *)
(* weights get a version of their own when they have none.                 *)
LastSteps ==
  /\ pc = "train" /\ done /\ Cardinality(pending) < Required
  /\ final' = TRUE
  /\ IF version % TestFreq /= 0 \/ local > 1
       THEN version' = version + 1 /\ local' = 1
       ELSE UNCHANGED <<version, local>>
  /\ CheckSave(version', "over")
  /\ UNCHANGED <<keep, useCritic, disk, ckpt, trained, kept, rollouter, crashes>>

\* Mutant: the rotation makes room for two.
Outdated_OneMore(saved) == IF keep > 0 /\ Len(saved) >= keep - 1
                             THEN SubSeq(saved, 1, Min({Len(saved), Len(saved) - keep + 2})) ELSE <<>>

\* What save_checkpoint removes before it writes, so that keep are left after.
Outdated(saved) == IF keep > 0 /\ Len(saved) >= keep
                     THEN SubSeq(saved, 1, Len(saved) - keep + 1) ELSE <<>>

(* FSDPCheckpointManager.save_checkpoint of a model: old checkpoints are   *)
(* removed, the ranks write their shards, and the last barrier is passed.  *)
ShardsBegin(model, writing) ==
  /\ pc = model
  /\ LET old == Outdated(kept[model])
     IN /\ dirs' = [v \in Versions |->
                      CASE v = version       -> [dirs[v] EXCEPT ![model] = [NoShards EXCEPT !.state = "partial"]]
                        [] v \in Range(old) -> [dirs[v] EXCEPT ![model] = NoShards]
                        [] OTHER             -> dirs[v]]
        /\ kept' = [kept EXCEPT ![model] = SubSeq(@, Len(old) + 1, Len(@))]
  /\ pc' = writing
  /\ UNCHANGED <<keep, useCritic, tracker, tracked, version, local, ckpt, trained, final, rollouter, crashes>>

ShardsEnd(model, writing, next) ==
  /\ pc = writing
  /\ dirs' = [dirs EXCEPT ![version][model] = [state |-> "whole", of |-> trained]]
  /\ kept' = [kept EXCEPT ![model] = Append(@, version)]
  /\ pc' = next
  /\ UNCHANGED <<keep, useCritic, tracker, tracked, version, local, ckpt, trained, final, rollouter, crashes>>

\* Mutant: the position is what the trainer has counted.
SavedPosition_Counted == Cardinality(trained)

SavedPosition == pos

(* rollouter_save_checkpoint: the dataloader as it is by now.              *)
SaveData ==
  /\ pc = "data" /\ pc' = "open"
  /\ dirs' = [dirs EXCEPT ![version].data = SavedPosition]
  /\ UNCHANGED <<keep, useCritic, tracker, tracked, version, local, ckpt, trained, kept, final, rollouter, crashes>>

(* The tracker file is opened, which empties it, and written.              *)
TrackerOpened ==
  /\ pc = "open" /\ pc' = "write" /\ tracker' = Unreadable
  /\ UNCHANGED <<keep, useCritic, dirs, tracked, version, local, ckpt, trained, kept, final, rollouter, crashes>>

TrackerWritten ==
  /\ pc = "write" /\ pc' = IF final THEN "over" ELSE "train"
  /\ tracker' = version /\ tracked' = version /\ ckpt' = version
  /\ UNCHANGED <<keep, useCritic, dirs, version, local, trained, kept, final, rollouter, crashes>>

SaveCheckpoint ==
  \/ ShardsBegin("actor", "actorWrites")
  \/ ShardsEnd("actor", "actorWrites", IF useCritic THEN "critic" ELSE "data")
  \/ ShardsBegin("critic", "criticWrites") \/ ShardsEnd("critic", "criticWrites", "data")
  \/ SaveData \/ TrackerOpened \/ TrackerWritten
-----------------------------------------------------------------------------
(* The job dies, and is started again.                                     *)
Crash ==
  /\ Up /\ crashes < MaxCrashes /\ crashes' = crashes + 1
  /\ pc' = "down" /\ pending' = {} /\ trained' = {}
  /\ kept' = [actor |-> <<>>, critic |-> <<>>]
  /\ UNCHANGED <<keep, useCritic, disk, version, local, ckpt, final, pos, supply, step, done, losses>>

Complete(v) == /\ dirs[v].actor.state = "whole"
               /\ useCritic => dirs[v].critic.state = "whole"
\* find_latest_ckpt_path: no checkpoint without a tracker or the directory.
NoCheckpoint == tracker = Absent \/ (tracker \in Versions /\ dirs[tracker] = NoDir)

\* Mutant: the steps of a version are forgotten.
LoadedStep_OnePerVersion(v) == v * Required + 1

LoadedVersion(v) == v
LoadedStep(v) == v * Required * Trigger + 1

\* load_checkpoint of the trainer, then of the rollouter.
Resume(v, weights, p) ==
  /\ pc' = "train" /\ version' = LoadedVersion(v) /\ ckpt' = LoadedVersion(v)
  /\ local' = 1 /\ trained' = weights /\ final' = FALSE
  /\ pos' = p /\ supply' = EndOfData(p) /\ step' = LoadedStep(v) /\ done' = FALSE
  /\ lost' = {} /\ lostBefore' = (lostBefore \union lost) \intersect (1..p)

Restart ==
  /\ pc = "down"
  /\ CASE NoCheckpoint -> Resume(0, {}, 0)
       [] tracker \in Versions /\ ~NoCheckpoint /\ Complete(tracker) ->
            Resume(tracker, dirs[tracker].actor.of, Max({0, dirs[tracker].data}))
       [] OTHER -> /\ pc' = "failed"
                   /\ UNCHANGED <<version, local, ckpt, trained, final, pos, supply, step, done, losses>>
  /\ UNCHANGED <<keep, useCritic, disk, kept, pending, crashes>>
-----------------------------------------------------------------------------
Next == Feed \/ SampleLost \/ StreamBreaks \/ TrainStep \/ LastSteps \/ SaveCheckpoint \/ Crash \/ Restart

\* The actors run, and a job that died is started again.
Spec == Init /\ [][Next]_vars /\ WF_vars(Feed) /\ WF_vars(TrainStep \/ LastSteps \/ SaveCheckpoint)
        /\ WF_vars(Restart)
-----------------------------------------------------------------------------
Shards == [state : {"absent", "partial", "whole"}, of : SUBSET (1..(DataSize * Epochs * (MaxCrashes + 1)))]

(* The type of the state.                                                  *)
TypeOK ==
  /\ tracker \in Versions \union {Absent, Unreadable}
  /\ \A v \in Versions : /\ dirs[v].actor \in Shards /\ dirs[v].critic \in Shards
                         /\ dirs[v].data \in -1..(DataSize * Epochs * (MaxCrashes + 1))
  /\ version \in 0..(Total + MaxCrashes + 1) /\ ckpt \in 0..version /\ local \in 1..Trigger
  /\ pending \union lost \union lostBefore \subseteq 1..pos
  /\ pos <= supply /\ Cardinality(pending) <= MaxInFlight

(* A job that died can be started again - wherever it died, however often  *)
(* and whatever the rotation has removed - from a checkpoint no older than *)
(* the newest the tracker has named, unless it died between opening and    *)
(* writing the tracker, or only one checkpoint is kept: the comments at    *)
(* fully_async_trainer.py:377 (the tracker is written last, "for atomic    *)
(* usage") and fsdp_checkpoint_manager.py:196 (the number to retain).      *)
Restartable == keep /= 1 => /\ pc = "failed" => tracker = Unreadable
                            /\ Up => version >= tracked

(* Every draw is trained on once at most in the life of the weights (a     *)
(* restart goes back to weights that know nothing of what is drawn from    *)
(* then on), and those that are neither trained on nor on their way were   *)
(* lost by the pipeline (dropped by the full message queue, swallowed by   *)
(* pause() or behind a worker that raised) or are what the restarts found  *)
(* in flight, no more: the warning in save_checkpoint of the rollouter     *)
(* (fully_async_rollouter.py:251-254).                                     *)
Accounted == Up => /\ pending \intersect (trained \union lost) = {}
                   /\ trained \intersect lost = {}
                   /\ trained \subseteq 1..pos
                   /\ Cardinality((1..pos) \ (trained \union pending \union lost \union lostBefore))
                        <= crashes * MaxInFlight

(* The rollouter counts a training step for each sample the trainer counts,*)
(* each on its way and each the process has lost, also after a restart;    *)
(* what a restart has lost is not counted, and is made up for as long as   *)
(* there is data.  The weights may have seen more than is counted: a       *)
(* checkpoint taken between two versions (the end of the instance is near) *)
(* is resumed as the beginning of its version.                             *)
StepsAgree ==
  LET counted == Required * (version * Trigger + local - 1) IN
  Up /\ ~final /\ ~done =>
    /\ step - 1 = counted + Cardinality(pending) + Cardinality(lost)
    /\ Cardinality(trained) - counted \in 0..(crashes * (Trigger - 1) * Required)

(* The state has its type, and the two count alike.                        *)
Consistent == TypeOK /\ StepsAgree

(* The job comes to its end, however often it died, or cannot be started.  *)
Ends == <>(pc \in {"over", "failed"})
=============================================================================
