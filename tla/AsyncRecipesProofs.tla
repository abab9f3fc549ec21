-------------------------- MODULE AsyncRecipesProofs --------------------------
(***************************************************************************)
(* Proofs about MCAsyncRecipes: the one-step-off policy, for every size of *)
(* the data, number of epochs, length of the training, warm-up and         *)
(* frequency, and any number of restarts and of faults of the dataloader;  *)
(* and the two settings of the fully asynchronous policy, by the theorems  *)
(* of FullyAsyncProofs.                                                    *)
(***************************************************************************)
EXTENDS MCAsyncRecipes, FiniteSetTheorems, TLAPS

Places     == {"initial", "wait", "launch", "train", "validate", "save", "over", "down"}
InTraining == {"wait", "launch", "train", "validate", "save"}

\* Types; the batches count from 1 in the order of their draws.
Typed ==
  /\ config \in [launched : BOOLEAN, balance : BOOLEAN, epochs : 1 .. MaxEpochs]
  /\ Total <= DataSize * config.epochs
  /\ driver \in Places
  /\ step \in Nat /\ began \in Nat /\ version \in Nat /\ rollout \in Nat
  /\ future \in [batch : Nat, of : Nat \union {One!Pending}]
  /\ current \in [batch : Nat, of : Nat, rows : One!Orders, scores : One!Orders]
  /\ pos \in Nat /\ supply \in Nat /\ trained \subseteq 1 .. pos
  /\ saved \in [step : Nat, version : Nat, pos : Nat, trained : SUBSET Nat]
  /\ saved.trained \subseteq 1 .. saved.pos
  /\ starts \in 0 .. MaxStarts /\ faults \in Nat

\* The batch that is generated is the latest drawn; that in training is an
\* earlier one, and trained on from "validate" on.
Drawn ==
  /\ future.batch = 0 => future = One!NoBatch
  /\ future.batch /= 0 => future.batch = pos /\ future.batch \notin trained
  /\ driver \in {"initial", "launch", "over", "down"} => future.batch = 0
  /\ driver = "wait" => future.batch /= 0
  /\ driver \notin {"launch", "train", "validate", "save"} => current.batch = 0
  /\ driver \in {"launch", "train"}  => current.batch \in 1 .. pos /\ current.batch \notin trained
  /\ driver \in {"validate", "save"} => current.batch \in trained
  /\ future.batch /= 0 => current.batch < future.batch

\* The steps the weights in the driver have been trained for, and the updates
\* weights have seen after so many steps.
Steps      == IF driver \in {"validate", "save", "initial"} THEN step ELSE step - 1
Updates(d) == IF d < Warmup THEN 0 ELSE IF Warmup = 0 THEN d ELSE d - Warmup + 1

\* The step before which the weights the rollout workers have were sent, where no
\* generation has been launched in this step.
Sent == IF step = began THEN step - 1 ELSE step - 2

Weights ==
  /\ driver /= "down" => version = Updates(Steps)
  /\ saved.version = Updates(saved.step)
  /\ rollout <= version
  /\ driver = "initial" => rollout = 0
  /\ future.batch /= 0 => future.of \in {One!Pending, rollout}
  /\ driver \in {"launch", "train"} => current.of = Updates(Sent)
  /\ driver \in InTraining =>
       rollout = Updates(IF future.batch /= 0 /\ driver /= "wait" THEN step - 1 ELSE Sent)

\* The step of the driver: at most one more than total_training_steps for each start.
Counted ==
  /\ driver /= "down" => Cardinality(trained) = Steps
  /\ Cardinality(saved.trained) = saved.step
  /\ driver \in InTraining => 1 <= began /\ began <= step /\ step <= Total + starts
  /\ driver = "initial" => began = step + 1 /\ step < Total + starts
  /\ driver = "over" => 1 <= step
  /\ driver = "launch" \/ (driver \in {"train", "validate", "save"} /\ future.batch /= 0) => step < Total
  /\ Cardinality(trained) <= Total + starts /\ version <= Total + starts
  /\ saved.step <= Total + starts /\ (driver = "down" => saved.step < Total + starts)

\* The batches that were drawn and came to nothing.
Given     == trained \union {current.batch, future.batch}
Wasted    == (1 .. pos) \ Given
NotSaved  == (1 .. saved.pos) \ saved.trained
Recovered ==
  /\ driver /= "down" => Cardinality(Wasted) <= starts
  /\ Cardinality(NotSaved) <= IF driver = "down" THEN starts ELSE starts + 1

\* How far the dataloader reaches, and why there is no next batch.
Pass == DataSize * MaxEpochs
Supplied ==
  /\ pos <= supply /\ supply <= Pass * (starts + 1)
  /\ saved.pos <= Pass * (starts + 1)
  /\ driver = "down" => starts > 0 /\ supply <= Pass * starts /\ saved.pos <= Pass * starts
  /\ starts = 0 => supply = config.epochs * DataSize /\ (driver = "initial" => pos = 0)
  /\ driver \in {"train", "validate", "save"} /\ future.batch = 0 =>
       step >= Total \/ faults > 0 \/ pos = supply
  /\ driver = "over" => saved.step >= Total \/ faults > 0 \/ (starts > 0 /\ pos = supply)

Rewarded == (config.launched => ~config.balance) => current.scores = current.rows

OneInv == Typed /\ Drawn /\ Weights /\ Counted /\ Recovered /\ Supplied /\ Rewarded
-----------------------------------------------------------------------------
(* Small facts.                                                            *)

LEMMA Constants ==
  /\ DataSize \in Nat /\ DataSize > 0 /\ MaxEpochs \in Nat /\ MaxEpochs > 0
  /\ Total \in Nat /\ Total > 0 /\ TestFreq \in Nat /\ TestFreq > 0 /\ SaveFreq \in Nat /\ SaveFreq > 0
  /\ Warmup \in Nat /\ MaxStarts \in Nat /\ MaxFaults \in Nat
BY OneAssumption DEF One!Parameters

\* An update for each step, from the warm-up's last on.
LEMMA UpdatesStep ==
  ASSUME NEW d \in Nat
  PROVE  /\ Updates(d) \in Nat /\ Updates(d) <= d /\ Updates(0) = 0
         /\ Updates(d + 1) = IF Warmup <= d + 1 THEN Updates(d) + 1 ELSE Updates(d)
BY Constants DEF Updates

LEMMA Values ==
  /\ One!NoBatch.batch = 0 /\ One!NoBatch.of = 0 /\ One!Pending = -1
  /\ One!NoBatch \in [batch : Nat, of : Nat \union {One!Pending}]
  /\ One!NoRows.batch = 0
  /\ One!NoRows \in [batch : Nat, of : Nat, rows : One!Orders, scores : One!Orders]
  /\ One!NoRows.scores = One!NoRows.rows
BY DEF One!NoBatch, One!NoRows, One!Pending, One!Orders

\* The sets of batches are finite.
LEMMA Finite ==
  ASSUME Typed
  PROVE  /\ IsFiniteSet(1 .. pos) /\ Cardinality(1 .. pos) = pos
         /\ IsFiniteSet(trained) /\ Cardinality(trained) \in Nat
         /\ IsFiniteSet(Wasted) /\ Cardinality(Wasted) \in Nat
         /\ IsFiniteSet(NotSaved) /\ Cardinality(NotSaved) \in Nat
         /\ IsFiniteSet(saved.trained) /\ Cardinality(saved.trained) \in Nat
<1>1. pos \in Nat /\ saved.pos \in Nat /\ trained \subseteq 1 .. pos /\ saved.trained \subseteq 1 .. saved.pos
  BY DEF Typed
<1>2. ASSUME NEW n \in Nat PROVE IsFiniteSet(1 .. n) /\ Cardinality(1 .. n) = n
  <2>1. 1 \in Int /\ n \in Int  OBVIOUS
  <2>2. IsFiniteSet(1 .. n) /\ Cardinality(1 .. n) = IF 1 > n THEN 0 ELSE n - 1 + 1
    BY ONLY <2>1, FS_Interval
  <2> QED  BY <2>2
<1>3. /\ IsFiniteSet(trained) /\ IsFiniteSet(Wasted) /\ IsFiniteSet(NotSaved)
      /\ IsFiniteSet(saved.trained)
  <2>1. Wasted \subseteq 1 .. pos /\ NotSaved \subseteq 1 .. saved.pos  BY DEF Wasted, NotSaved
  <2>2. IsFiniteSet(1 .. pos) /\ IsFiniteSet(1 .. saved.pos)  BY <1>1, <1>2
  <2> QED  BY <1>1, <2>1, <2>2, FS_Subset
<1> QED  BY <1>1, <1>2, <1>3, FS_CardinalityType

\* What the state says of the places of the driver.
LEMMA Facts ==
  ASSUME OneInv
  PROVE  /\ Typed /\ Drawn /\ Weights /\ Counted /\ Recovered /\ Supplied /\ Rewarded
         /\ starts \in Nat /\ starts <= MaxStarts
         /\ future.batch \in Nat /\ current.batch \in Nat /\ current.of \in Nat
         /\ saved.step \in Nat /\ saved.version \in Nat /\ saved.pos \in Nat
         /\ config.epochs \in Nat /\ config.epochs > 0 /\ config.epochs <= MaxEpochs
         /\ step \in Nat /\ began \in Nat /\ version \in Nat /\ rollout \in Nat
         /\ pos \in Nat /\ supply \in Nat /\ faults \in Nat /\ 0 \notin trained
BY Constants DEF OneInv, Typed

LEMMA OneInit == One!Init => OneInv
<1> SUFFICES ASSUME One!Init PROVE OneInv
  OBVIOUS
<1> USE DEF One!Init
<1>1. config.epochs \in 1 .. MaxEpochs /\ One!EndOfData(0) = config.epochs * DataSize
      /\ config.epochs * DataSize \in Nat /\ config.epochs * DataSize <= Pass
  BY Constants DEF One!EndOfData, Pass
<1>2. One!NoSave \in [step : Nat, version : Nat, pos : Nat, trained : SUBSET Nat]
  BY DEF One!NoSave
<1>3. Typed  BY <1>1, <1>2, Values, Constants DEF Typed, Places, One!NoSave
<1>4. Drawn  BY Values DEF Drawn
<1>5. Weights
  <2>1. Updates(0) = 0  BY Constants DEF Updates
  <2>2. Steps = 0 /\ saved.step = 0 /\ saved.version = 0 /\ future.batch = 0
    BY Values DEF Steps, One!NoSave
  <2> QED  BY <2>1, <2>2 DEF Weights, InTraining
<1>6. Cardinality({}) = 0  BY FS_EmptySet
<1>7. Counted  BY <1>6, Constants DEF Counted, Steps, InTraining, One!NoSave
<1>8. Recovered
  <2>1. Wasted = {} /\ NotSaved = {}  BY DEF Wasted, NotSaved, One!NoSave
  <2> QED  BY <1>6, <2>1 DEF Recovered
<1>9. Supplied
  <2>1. Pass \in Nat /\ Pass * (starts + 1) = Pass /\ 0 <= Pass * (starts + 1)  BY Constants DEF Pass
  <2>2. saved.pos = 0  BY DEF One!NoSave
  <2> QED  BY <1>1, <2>1, <2>2, Constants DEF Supplied
<1>10. Rewarded  BY Values DEF Rewarded
<1> QED  BY <1>3, <1>4, <1>5, <1>7, <1>8, <1>9, <1>10 DEF OneInv
-----------------------------------------------------------------------------
(* The driver.                                                             *)

\* The generation that is launched, or not.
LEMMA GenFacts ==
  ASSUME OneInv, One!GenNextBatch, future.batch = 0
  PROVE  /\ future'.batch \in Nat
         /\ future' \in [batch : Nat, of : Nat \union {One!Pending}]
         /\ \/ /\ pos < supply /\ pos' = pos + 1 /\ rollout' = version /\ faults' = faults
               /\ future'.batch = pos + 1 /\ future'.of = One!Pending
            \/ /\ pos' = pos /\ rollout' = rollout /\ future' = One!NoBatch /\ future'.batch = 0
               /\ faults' \in Nat /\ faults <= faults' /\ (pos = supply \/ faults' > 0)
         /\ future' = One!NoBatch <=> future'.batch = 0
         /\ pos' \in Nat /\ pos <= pos' /\ pos' <= supply /\ rollout' \in Nat /\ rollout' <= version
         /\ faults' \in Nat /\ faults <= faults'
         /\ (1 .. pos') \ {future'.batch} = 1 .. pos
<1>1. pos <= supply /\ pos \in Nat /\ supply \in Nat /\ version \in Nat /\ rollout \in Nat /\ rollout <= version
      /\ faults \in Nat
  BY Facts DEF Supplied, Weights
<1>2. CASE pos < supply /\ pos' = pos + 1 /\ rollout' = version /\ faults' = faults
           /\ future' = [batch |-> pos + 1, of |-> One!Pending]
  BY <1>1, <1>2, Values
<1>3. CASE (pos = supply \/ faults < MaxFaults) /\ faults' = (IF pos = supply THEN faults ELSE faults + 1)
           /\ future' = One!NoBatch /\ UNCHANGED <<pos, rollout>>
  BY <1>1, <1>3, Values
<1> QED  BY <1>2, <1>3 DEF One!GenNextBatch, One!SyncedWeights

\* What was wasted does not change with a launch.
LEMMA WastedKept ==
  ASSUME OneInv, future.batch = 0, UNCHANGED <<trained, current>>, future'.batch \in Nat,
         (1 .. pos') \ {future'.batch} = 1 .. pos, 0 \notin 1 .. pos
  PROVE  Wasted' = Wasted
BY DEF Wasted, Given

LEMMA FirstBatchKeeps == ASSUME OneInv, One!FirstBatch PROVE OneInv'
<1> USE DEF One!FirstBatch, One!Continued
<1>1. future.batch = 0 /\ driver = "initial" /\ current.batch = 0  BY Facts DEF Drawn
<1>2. /\ future' \in [batch : Nat, of : Nat \union {One!Pending}]
      /\ (future' = One!NoBatch <=> future'.batch = 0)
      /\ driver' = IF future'.batch = 0 THEN "over" ELSE "wait"
      /\ step' = step + 1 /\ began' = step + 1
      /\ UNCHANGED <<config, version, current, supply, trained, saved, starts>>
  BY <1>1, GenFacts
<1>3. Typed'  BY <1>1, <1>2, Facts, GenFacts DEF Typed, Places
<1>4. Drawn'  BY <1>1, <1>2, Facts, GenFacts DEF Typed, Drawn
<1>5. Weights'  BY <1>1, <1>2, Facts, GenFacts DEF Weights, Steps, Sent, InTraining, Updates
<1>6. Counted'
  <2>1. Steps' = Steps  BY <1>1, <1>2, Facts DEF Steps
  <2>2. Total \in Nat /\ starts \in Nat /\ starts' = starts  BY <1>2, Facts, Constants
  <2>3. driver' \in {"wait", "over"}  BY <1>2
  <2> QED  BY <1>1, <1>2, <2>1, <2>2, <2>3, Facts DEF Counted, InTraining
<1>7. Recovered'
  <2>1. Wasted' = Wasted /\ NotSaved' = NotSaved  BY <1>1, <1>2, GenFacts, WastedKept DEF NotSaved
  <2> QED  BY <1>1, <1>2, <2>1, Facts DEF Recovered
<1>8. Supplied'  BY <1>1, <1>2, Facts, GenFacts, Constants DEF Supplied
<1>9. Rewarded'  BY <1>2, Facts DEF Rewarded
<1> QED  BY <1>3, <1>4, <1>5, <1>6, <1>7, <1>8, <1>9 DEF OneInv
LEMMA TakeBatchKeeps == ASSUME OneInv, One!TakeBatch PROVE OneInv'
<1> USE DEF One!TakeBatch
<1>1. /\ driver = "wait" /\ future.batch /= 0 /\ current.batch = 0 /\ future.batch = pos
      /\ future.batch \notin trained /\ future.of = rollout
  BY Facts DEF Drawn, Weights
<1>2. /\ current' = [batch |-> future.batch, of |-> future.of, rows |-> One!Identity, scores |-> One!Identity]
      /\ future' = One!NoBatch /\ driver' = IF step >= Total THEN "train" ELSE "launch"
      /\ UNCHANGED <<config, step, began, version, rollout, pos, supply, trained, saved, starts, faults>>
  BY DEF One!IsLastStep, One!data
<1>3. /\ current'.batch = future.batch /\ current'.of = rollout /\ current'.scores = current'.rows
      /\ current' \in [batch : Nat, of : Nat, rows : One!Orders, scores : One!Orders]
      /\ future'.batch = 0
  BY <1>1, <1>2, Facts, Values DEF One!Orders
<1>4. Typed'  BY <1>2, <1>3, Facts, Values DEF Typed, Places
<1>5. Drawn'  BY <1>1, <1>2, <1>3, Facts DEF Drawn
<1>6. Weights'  BY <1>1, <1>2, <1>3, Facts DEF Weights, Steps, Sent, InTraining, Updates
<1>7. Counted'
  <2>1. Steps' = Steps  BY <1>1, <1>2 DEF Steps
  <2> QED  BY <1>1, <1>2, <1>3, <2>1, Facts, Constants DEF Counted, InTraining
<1>8. Recovered'
  <2>1. Wasted' = Wasted /\ NotSaved' = NotSaved  BY <1>1, <1>2, <1>3 DEF Wasted, Given, NotSaved
  <2> QED  BY <1>1, <1>2, <2>1, Facts DEF Recovered
<1>9. Supplied'  BY <1>1, <1>2, Facts, Constants DEF Supplied
<1>10. Rewarded'  BY <1>3 DEF Rewarded
<1> QED  BY <1>4, <1>5, <1>6, <1>7, <1>8, <1>9, <1>10 DEF OneInv

LEMMA LaunchNextKeeps == ASSUME OneInv, One!LaunchNext PROVE OneInv'
<1> USE DEF One!LaunchNext
<1>1. future.batch = 0 /\ driver = "launch" /\ step < Total
      /\ current.batch \in 1 .. pos /\ current.batch \notin trained
  BY Facts DEF Drawn, Counted
<1>2. /\ future' \in [batch : Nat, of : Nat \union {One!Pending}] /\ driver' = "train"
      /\ UNCHANGED <<config, step, began, version, current, supply, trained, saved, starts>>
  BY <1>1, GenFacts
<1>3. Typed'  BY <1>1, <1>2, Facts, GenFacts DEF Typed, Places
<1>4. Drawn'  BY <1>1, <1>2, Facts, GenFacts DEF Typed, Drawn
<1>5. Weights'  BY <1>1, <1>2, Facts, GenFacts DEF Weights, Steps, Sent, InTraining, Updates
<1>6. Counted'
  <2>1. Steps' = Steps  BY <1>1, <1>2, Facts DEF Steps
  <2> QED  BY <1>1, <1>2, <2>1, Facts DEF Counted, InTraining
<1>7. Recovered'
  <2>1. Wasted' = Wasted /\ NotSaved' = NotSaved  BY <1>1, <1>2, GenFacts, WastedKept DEF NotSaved
  <2> QED  BY <1>1, <1>2, <2>1, Facts DEF Recovered
<1>8. Supplied'  BY <1>1, <1>2, Facts, GenFacts, Constants DEF Supplied
<1>9. Rewarded'  BY <1>2, Facts DEF Rewarded
<1> QED  BY <1>3, <1>4, <1>5, <1>6, <1>7, <1>8, <1>9 DEF OneInv

LEMMA TrainBatchKeeps == ASSUME OneInv, One!TrainBatch PROVE OneInv'
<1> USE DEF One!TrainBatch
<1>1. /\ driver = "train" /\ current.batch \in 1 .. pos /\ current.batch \notin trained
      /\ current.batch \in Nat /\ step >= 1
  BY Facts DEF Drawn, Counted, InTraining
<1>2. PICK rows \in One!Orders : /\ ~config.balance => rows = One!Identity
                                 /\ current' = [current EXCEPT !.rows = rows, !.scores = One!Scores(rows)]
  BY Facts DEF One!Orders, Typed
<1>3. /\ driver' = "validate" /\ trained' = trained \union {current.batch}
      /\ version' = IF Warmup <= step THEN version + 1 ELSE version
      /\ UNCHANGED <<config, step, began, rollout, future, pos, supply, saved, starts, faults>>
  BY DEF One!ActorLearns, One!data
<1>4. /\ current'.batch = current.batch /\ current'.of = current.of
      /\ current'.rows = rows /\ current'.scores = IF config.launched THEN One!Identity ELSE rows
      /\ current' \in [batch : Nat, of : Nat, rows : One!Orders, scores : One!Orders]
  <2>1. current \in [batch : Nat, of : Nat, rows : One!Orders, scores : One!Orders]  BY Facts DEF Typed
  <2>2. One!Scores(rows) \in One!Orders /\ One!Scores(rows) = IF config.launched THEN One!Identity ELSE rows
    BY <1>2 DEF One!Scores, One!Orders
  <2> HIDE DEF One!TrainBatch
  <2> QED  BY <1>2, <2>1, <2>2
<1>5. Typed'  BY <1>1, <1>3, <1>4, Facts DEF Typed, Places
<1>6. Drawn'  BY <1>1, <1>3, <1>4, Facts DEF Drawn
<1>7. Weights'
  <2>1. step - 1 \in Nat /\ Steps = step - 1 /\ Steps' = step  BY <1>1, <1>3, Facts DEF Steps
  <2>2. Updates(step) = IF Warmup <= step THEN Updates(step - 1) + 1 ELSE Updates(step - 1)
    BY <1>1, <2>1, Facts, Constants DEF Updates
  <2>3. version' = Updates(step) /\ version <= version'  BY <1>1, <1>3, <2>1, <2>2, Facts DEF Weights
  <2>4. rollout <= version'  BY <1>3, <2>3, Facts DEF Weights
  <2> QED  BY <1>1, <1>3, <1>4, <2>1, <2>3, <2>4, Facts DEF Weights, Sent, InTraining, Updates
<1>8. Counted'
  <2>1. Cardinality(trained') = Cardinality(trained) + 1  BY <1>1, <1>3, Facts, Finite, FS_AddElement
  <2>2. Steps = step - 1 /\ Steps' = step /\ Cardinality(trained) = Steps
    BY <1>1, <1>3, Facts DEF Steps, Counted
  <2>3. Cardinality(trained') = step /\ step <= Total + starts
    BY <1>1, <2>1, <2>2, Facts DEF Counted, InTraining
  <2>4. version' <= step
    <3>1. Updates(step) <= step  BY Facts, UpdatesStep
    <3>2. version' = Updates(Steps')  BY <1>3, <1>7 DEF Weights
    <3> QED  BY <2>2, <3>1, <3>2
  <2>5. version' \in Nat /\ Total \in Nat  BY <1>3, Facts, Constants
  <2> QED  BY <1>1, <1>3, <2>2, <2>3, <2>4, <2>5, Facts DEF Counted, InTraining
<1>9. Recovered'
  <2>1. Wasted' = Wasted /\ NotSaved' = NotSaved  BY <1>3, <1>4 DEF Wasted, Given, NotSaved
  <2> QED  BY <1>1, <1>3, <2>1, Facts DEF Recovered
<1>10. Supplied'  BY <1>1, <1>3, Facts, Constants DEF Supplied
<1>11. Rewarded'  BY <1>2, <1>3, <1>4 DEF Rewarded
<1> QED  BY <1>5, <1>6, <1>7, <1>8, <1>9, <1>10, <1>11 DEF OneInv

LEMMA ValidatedKeeps == ASSUME OneInv, One!Validated PROVE OneInv'
<1> USE DEF One!Validated
<1>1. /\ driver = "validate" /\ driver' = "save"
      /\ UNCHANGED <<config, step, began, version, rollout, future, current, pos, supply, trained,
                     saved, starts, faults>>
  BY DEF One!data
<1>2. Typed'  BY <1>1, Facts DEF Typed, Places
<1>3. Drawn'  BY <1>1, Facts DEF Drawn
<1>4. Weights'  BY <1>1, Facts DEF Weights, Steps, Sent, InTraining, Updates
<1>5. Counted'  BY <1>1, Facts DEF Counted, Steps, InTraining
<1>6. Recovered'
  <2>1. Wasted' = Wasted /\ NotSaved' = NotSaved  BY <1>1 DEF Wasted, Given, NotSaved
  <2> QED  BY <1>1, <2>1, Facts DEF Recovered
<1>7. Supplied'  BY <1>1, Facts DEF Supplied
<1>8. Rewarded'  BY <1>1, Facts DEF Rewarded
<1> QED  BY <1>2, <1>3, <1>4, <1>5, <1>6, <1>7, <1>8 DEF OneInv
\* In a first process without a fault all that was drawn has been trained.
LEMMA AllTrained ==
  ASSUME OneInv, driver = "save", future.batch = 0, starts = 0, faults = 0, pos = supply
  PROVE  step >= Total
<1>1. supply = config.epochs * DataSize /\ Total <= DataSize * config.epochs
  BY Facts DEF Supplied, Typed
<1>2. Total <= pos  BY <1>1, Facts, Constants
<1>3. Cardinality(Wasted) = 0  BY Facts, Finite DEF Recovered
<1>4. Wasted = {}  BY <1>3, Facts, Finite, FS_EmptySet
<1>5. trained = 1 .. pos
  <2>1. trained \subseteq 1 .. pos /\ current.batch \in trained  BY Facts DEF Typed, Drawn
  <2>2. \A b \in 1 .. pos : b \in trained \/ b = 0  BY <1>4, <2>1 DEF Wasted, Given
  <2>3. \A b \in 1 .. pos : b /= 0  OBVIOUS
  <2> QED  BY <2>1, <2>2, <2>3
<1>6. step = pos  BY <1>5, Facts, Finite DEF Counted, Steps
<1> QED  BY <1>2, <1>6

LEMMA SaveAndGoOnKeeps == ASSUME OneInv, One!SaveAndGoOn PROVE OneInv'
<1> USE DEF One!SaveAndGoOn
<1>1. /\ driver = "save" /\ current.batch \in trained
      /\ future.batch /= 0 => step < Total
      /\ future = One!NoBatch <=> future.batch = 0
  BY Facts, Values DEF Drawn, Counted
<1>2. /\ saved' = (IF One!SaveDue
                     THEN [step |-> step, version |-> version, pos |-> pos, trained |-> trained] ELSE saved)
      /\ step' = step + 1 /\ driver' = (IF future.batch = 0 THEN "over" ELSE "wait")
      /\ current' = One!NoRows /\ current'.batch = 0 /\ current'.scores = current'.rows
      /\ UNCHANGED <<config, began, version, rollout, future, pos, supply, trained, starts, faults>>
  BY <1>1, Values DEF One!data
<1>3. /\ saved' \in [step : Nat, version : Nat, pos : Nat, trained : SUBSET Nat]
      /\ saved'.trained \subseteq 1 .. saved'.pos
  <2>1. trained \in SUBSET Nat /\ trained \subseteq 1 .. pos  BY Facts DEF Typed
  <2>2. CASE One!SaveDue  BY <1>2, <2>1, <2>2, Facts
  <2>3. CASE ~One!SaveDue  BY <1>2, <2>3, Facts DEF Typed
  <2> QED  BY <2>2, <2>3
<1>4. saved' = saved \/ (/\ saved'.step = step /\ saved'.version = version /\ saved'.pos = pos
                         /\ saved'.trained = trained)
  BY <1>2
<1>5. step >= Total => saved'.step = step  BY <1>2 DEF One!SaveDue, One!IsLastStep
<1> HIDE DEF One!SaveAndGoOn
<1>6. Typed'  BY <1>2, <1>3, Facts, Values DEF Typed, Places
<1>7. Drawn'  BY <1>1, <1>2, Facts DEF Drawn
<1>8. Weights'
  <2>1. saved'.version = Updates(saved'.step)  BY <1>1, <1>4, Facts DEF Weights, Steps
  <2> QED  BY <1>1, <1>2, <2>1, Facts DEF Weights, Steps, Sent, InTraining, Counted, Updates
<1>9. Counted'
  <2>1. Steps' = Steps /\ Steps = step  BY <1>1, <1>2, Facts DEF Steps
  <2>2. Cardinality(saved'.trained) = saved'.step /\ saved'.step <= Total + starts
    BY <1>1, <1>4, <2>1, Facts DEF Counted, InTraining
  <2>3. Total \in Nat  BY Constants
  <2> QED  BY <1>1, <1>2, <2>1, <2>2, <2>3, Facts DEF Counted, InTraining
<1>10. Recovered'
  <2>1. Wasted' = Wasted
    <3>1. 0 \notin 1 .. pos  OBVIOUS
    <3> QED  BY <1>1, <1>2, <3>1 DEF Wasted, Given
  <2>2. Cardinality(NotSaved') <= starts + 1
    <3>1. CASE saved' = saved
      <4>1. NotSaved' = NotSaved  BY <3>1 DEF NotSaved
      <4> QED  BY <1>1, <4>1, Facts DEF Recovered
    <3>2. CASE saved'.pos = pos /\ saved'.trained = trained
      <4>1. NotSaved' \subseteq Wasted \union {future.batch}
        BY <1>1, <3>2 DEF NotSaved, Wasted, Given
      <4>2. /\ IsFiniteSet(Wasted \union {future.batch})
            /\ Cardinality(Wasted \union {future.batch}) <= Cardinality(Wasted) + 1
        <5>1. IsFiniteSet(Wasted) /\ Cardinality(Wasted) \in Nat  BY Facts, Finite
        <5>2. /\ IsFiniteSet(Wasted \union {future.batch})
              /\ \/ Cardinality(Wasted \union {future.batch}) = Cardinality(Wasted)
                 \/ Cardinality(Wasted \union {future.batch}) = Cardinality(Wasted) + 1
          BY <5>1, FS_AddElement
        <5> QED  BY <5>1, <5>2
      <4>3. Cardinality(NotSaved') <= Cardinality(Wasted \union {future.batch})
        BY <4>1, <4>2, FS_Subset
      <4>4. Cardinality(NotSaved') \in Nat  BY <4>1, <4>2, FS_Subset, FS_CardinalityType
      <4>5. Cardinality(Wasted) <= starts  BY <1>1, Facts DEF Recovered
      <4>6. Cardinality(Wasted) \in Nat /\ Cardinality(Wasted \union {future.batch}) \in Nat /\ starts \in Nat
        BY <4>2, Facts, Finite, FS_CardinalityType
      <4> QED  BY ONLY <4>2, <4>3, <4>4, <4>5, <4>6
    <3> QED  BY <1>4, <3>1, <3>2
  <2> QED  BY <1>1, <1>2, <2>1, <2>2, Facts DEF Recovered
<1>11. Supplied'
  <2>1. saved'.pos <= Pass * (starts + 1)
    <3>1. Pass * (starts + 1) \in Nat  BY Facts, Constants DEF Pass
    <3> QED  BY <1>4, <3>1, Facts DEF Supplied
  <2>2. driver' = "over" => saved'.step >= Total \/ faults > 0 \/ (starts > 0 /\ pos = supply)
    BY <1>1, <1>2, <1>5, AllTrained, Facts DEF Supplied
  <2> QED  BY <1>1, <1>2, <2>1, <2>2, Facts DEF Supplied
<1>12. Rewarded'  BY <1>2 DEF Rewarded
<1> QED  BY <1>6, <1>7, <1>8, <1>9, <1>10, <1>11, <1>12 DEF OneInv

LEMMA GenerateKeeps == ASSUME OneInv, One!Generate PROVE OneInv'
<1> USE DEF One!Generate
<1>1. future.batch /= 0  BY Facts, Values DEF Drawn
<1>2. /\ future' = [future EXCEPT !.of = rollout]
      /\ UNCHANGED <<config, driver, step, began, version, rollout, current, pos, supply, trained,
                     saved, starts, faults>>
  BY DEF One!data
<1>3. /\ future'.batch = future.batch /\ future'.of = rollout
      /\ future' \in [batch : Nat, of : Nat \union {One!Pending}]
  BY <1>2, Facts DEF Typed
<1>4. Typed'  BY <1>2, <1>3, Facts DEF Typed
<1>5. Drawn'  BY <1>1, <1>2, <1>3, Facts DEF Drawn
<1>6. Weights'  BY <1>1, <1>2, <1>3, Facts DEF Weights, Steps, Sent, InTraining, Updates
<1>7. Counted'  BY <1>2, <1>3, Facts DEF Counted, Steps, InTraining
<1>8. Recovered'
  <2>1. Wasted' = Wasted /\ NotSaved' = NotSaved  BY <1>2, <1>3 DEF Wasted, Given, NotSaved
  <2> QED  BY <1>2, <2>1, Facts DEF Recovered
<1>9. Supplied'  BY <1>2, <1>3, Facts DEF Supplied
<1>10. Rewarded'  BY <1>2, Facts DEF Rewarded
<1> QED  BY <1>4, <1>5, <1>6, <1>7, <1>8, <1>9, <1>10 DEF OneInv
-----------------------------------------------------------------------------
(* The end of a process and the start of the next.                         *)

LEMMA StopKeeps == ASSUME OneInv, One!Stop PROVE OneInv'
<1> USE DEF One!Stop
<1>1. /\ driver /= "down" /\ driver' = "down" /\ starts < MaxStarts /\ starts' = starts + 1
      /\ future' = One!NoBatch /\ future'.batch = 0 /\ current' = One!NoRows /\ current'.batch = 0
      /\ current'.scores = current'.rows
      /\ UNCHANGED <<config, step, began, version, rollout, pos, supply, trained, saved, faults>>
  BY Values DEF One!data
<1>2. Typed'  BY <1>1, Facts, Values, Constants DEF Typed, Places
<1>3. Drawn'  BY <1>1, Facts DEF Drawn
<1>4. Weights'  BY <1>1, Facts DEF Weights, InTraining, Updates
<1>5. Counted'
  <2>1. Total \in Nat /\ Cardinality(trained) \in Nat  BY Facts, Finite, Constants
  <2> QED  BY <1>1, <2>1, Facts DEF Counted, InTraining
<1>6. Recovered'
  <2>1. NotSaved' = NotSaved  BY <1>1 DEF NotSaved
  <2> QED  BY <1>1, <2>1, Facts DEF Recovered
<1>7. Supplied'
  <2>1. Pass \in Nat  BY Constants DEF Pass
  <2>2. Pass * (starts' + 1) = Pass * (starts + 1) + Pass  BY <1>1, <2>1, Facts
  <2>3. Pass * (starts + 1) \in Nat  BY <2>1, Facts
  <2>4. supply <= Pass * (starts + 1) /\ saved.pos <= Pass * (starts + 1)  BY Facts DEF Supplied
  <2>5. supply <= Pass * (starts' + 1) /\ saved.pos <= Pass * (starts' + 1)
    BY <2>1, <2>2, <2>3, <2>4, Facts
  <2> HIDE DEF Pass
  <2> QED  BY <1>1, <2>4, <2>5, Facts DEF Supplied
<1>8. Rewarded'  BY <1>1 DEF Rewarded
<1> QED  BY <1>2, <1>3, <1>4, <1>5, <1>6, <1>7, <1>8 DEF OneInv

\* What a process that starts after p draws can reach.
LEMMA Reach ==
  ASSUME Typed, NEW p \in Nat, NEW s \in Nat, s > 0, p <= Pass * s
  PROVE  /\ One!EndOfData(p) \in Nat /\ p <= One!EndOfData(p)
         /\ One!EndOfData(p) <= Pass * (s + 1)
<1> DEFINE passed == IF p = 0 THEN 0 ELSE (p - 1) \div DataSize
           e      == config.epochs
<1>1. /\ DataSize \in Nat /\ DataSize > 0 /\ e \in Nat /\ e > 0 /\ e <= MaxEpochs /\ MaxEpochs \in Nat
      /\ Pass = DataSize * MaxEpochs
  BY Constants DEF Typed, Pass
<1>2. passed \in Nat /\ p <= (passed + 1) * DataSize /\ (p > 0 => passed * DataSize < p)
  <2>1. CASE p = 0  BY <1>1, <2>1
  <2>2. CASE p > 0
    <3>1. p - 1 \in Nat /\ passed = (p - 1) \div DataSize  BY <2>2
    <3>2. /\ (p - 1) \div DataSize \in Nat
          /\ DataSize * ((p - 1) \div DataSize) <= p - 1
          /\ p - 1 < DataSize * ((p - 1) \div DataSize) + DataSize
      <4>1. \A n \in Nat : /\ n \div DataSize \in Nat /\ DataSize * (n \div DataSize) <= n
                           /\ n < DataSize * (n \div DataSize) + DataSize
        BY <1>1
      <4> QED  BY <3>1, <4>1
    <3> QED  BY <1>1, <2>2, <3>1, <3>2
  <2> QED  BY <2>1, <2>2
<1> HIDE DEF passed, e
<1>3. One!EndOfData(p) = (passed + e) * DataSize  BY DEF One!EndOfData, passed, e
<1>4. (passed + e) * DataSize = passed * DataSize + e * DataSize /\ e * DataSize \in Nat
      /\ passed * DataSize \in Nat /\ (passed + 1) * DataSize = passed * DataSize + DataSize
  BY <1>1, <1>2
<1>5. e * DataSize <= Pass /\ DataSize <= e * DataSize  BY <1>1
<1>6. p <= (passed + e) * DataSize  BY <1>1, <1>2, <1>4, <1>5
<1>7. passed * DataSize <= Pass * s
  <2>1. CASE p = 0
    <3>1. passed = 0  BY <2>1 DEF passed
    <3>2. Pass * s \in Nat  BY <1>1
    <3> QED  BY <1>1, <3>1, <3>2
  <2>2. CASE p > 0
    <3>1. Pass * s \in Nat  BY <1>1
    <3> QED  BY <1>2, <1>4, <2>2, <3>1
  <2> QED  BY <2>1, <2>2
<1>8. Pass * (s + 1) = Pass * s + Pass /\ Pass * s \in Nat /\ Pass \in Nat  BY <1>1
<1>9. (passed + e) * DataSize <= Pass * (s + 1)  BY <1>4, <1>5, <1>7, <1>8
<1> QED  BY <1>3, <1>4, <1>6, <1>9

LEMMA StartKeeps == ASSUME OneInv, One!Start PROVE OneInv'
<1> USE DEF One!Start
<1>1. /\ driver = "down" /\ driver' = "initial" /\ rollout' = 0 /\ version' = saved.version
      /\ trained' = saved.trained /\ step' = saved.step /\ began' = saved.step + 1
      /\ pos' = saved.pos /\ supply' = One!EndOfData(saved.pos)
      /\ UNCHANGED <<config, future, current, saved, starts, faults>>
  OBVIOUS
<1>2. /\ future.batch = 0 /\ current.batch = 0 /\ starts > 0 /\ saved.pos <= Pass * starts
      /\ saved.step < Total + starts
  BY <1>1, Facts DEF Drawn, Supplied, Counted
<1>3. /\ One!EndOfData(saved.pos) \in Nat /\ saved.pos <= One!EndOfData(saved.pos)
      /\ One!EndOfData(saved.pos) <= Pass * (starts + 1)
  BY <1>2, Facts, Reach
<1>4. Typed'  BY <1>1, <1>3, Facts DEF Typed, Places
<1>5. Drawn'  BY <1>1, <1>2, Facts DEF Drawn
<1>6. Weights'  BY <1>1, <1>2, Facts, UpdatesStep DEF Weights, Steps, InTraining
<1>7. Counted'
  <2>1. Steps' = saved.step /\ Cardinality(trained') = saved.step  BY <1>1, Facts DEF Steps, Counted
  <2>2. version' <= saved.step
    <3>1. Updates(saved.step) <= saved.step  BY Facts, UpdatesStep
    <3> QED  BY <1>1, <3>1, Facts DEF Weights
  <2>3. Total \in Nat  BY Constants
  <2> QED  BY <1>1, <1>2, <2>1, <2>2, <2>3, Facts DEF Counted, InTraining
<1>8. Recovered'
  <2>1. Wasted' = NotSaved /\ NotSaved' = NotSaved
    <3>1. 0 \notin 1 .. saved.pos  OBVIOUS
    <3> QED  BY <1>1, <1>2, <3>1 DEF Wasted, Given, NotSaved
  <2> QED  BY <1>1, <2>1, Facts, Finite DEF Recovered
<1>9. Supplied'
  <2>1. saved.pos <= Pass * (starts + 1)  BY Facts DEF Supplied
  <2> QED  BY <1>1, <1>2, <1>3, <2>1, Facts DEF Supplied
<1>10. Rewarded'  BY <1>1, Facts DEF Rewarded
<1> QED  BY <1>4, <1>5, <1>6, <1>7, <1>8, <1>9, <1>10 DEF OneInv

LEMMA StillKeeps == ASSUME OneInv, UNCHANGED oneVars PROVE OneInv'
<1> USE DEF oneVars
<1>1. Typed' /\ Drawn' /\ Rewarded'  BY Facts DEF Typed, Drawn, Rewarded
<1>2. Weights'  BY Facts DEF Weights, Steps, Sent, InTraining, Updates
<1>3. Counted' /\ Supplied'  BY Facts DEF Counted, Steps, InTraining, Supplied
<1>4. Recovered'
  <2>1. Wasted' = Wasted /\ NotSaved' = NotSaved  BY DEF Wasted, Given, NotSaved
  <2> QED  BY <2>1, Facts DEF Recovered
<1> QED  BY <1>1, <1>2, <1>3, <1>4 DEF OneInv
-----------------------------------------------------------------------------
(* The one-step-off policy.                                                *)

LEMMA OneCardinality == \A S : One!Cardinality(S) = Cardinality(S)
BY DEF One!Cardinality, Cardinality

LEMMA OneNext == OneInv /\ One!Next => OneInv'
<1> SUFFICES ASSUME OneInv, One!Next PROVE OneInv'
  OBVIOUS
<1>1. CASE One!Driver
  BY <1>1, FirstBatchKeeps, TakeBatchKeeps, LaunchNextKeeps, TrainBatchKeeps, ValidatedKeeps,
     SaveAndGoOnKeeps DEF One!Driver
<1>2. CASE One!Over  BY <1>2, StillKeeps DEF One!Over, One!vars, One!data, oneVars
<1> QED  BY <1>1, <1>2, GenerateKeeps, StopKeeps, StartKeeps DEF One!Next

\* The invariant in every setting: the recipe that is not run stays as it begins.
LEMMA OneInvHolds == Spec => []OneInv
<1>1. Init => OneInv  BY OneInit DEF Init, OneIdle
<1>2. OneInv /\ [Next]_vars => OneInv'
  <2> SUFFICES ASSUME OneInv, [Next]_vars PROVE OneInv'
    OBVIOUS
  <2>1. One!Next \/ UNCHANGED oneVars  BY DEF Next, vars
  <2> QED  BY <2>1, OneNext, StillKeeps
<1> QED  BY <1>1, <1>2, PTL DEF Spec

(* The weights a batch is trained with have seen one update more than those*)
(* that generated it, none for the first batch of a process and during the *)
(* critic's warm-up; a validation is one update behind, or two.            *)
THEOREM PolicyAgeHolds == Spec => []PolicyAge
<1>1. OneInv => One!PolicyAge
  <2> SUFFICES ASSUME OneInv PROVE One!PolicyAge
    OBVIOUS
  <2> USE Facts, Constants
  <2>1. ASSUME driver = "train"
        PROVE  version - current.of = IF step > began /\ Warmup < step THEN 1 ELSE 0
    <3>1. version = Updates(step - 1) /\ current.of = Updates(Sent) /\ 1 <= began /\ began <= step
      BY <2>1 DEF Weights, Counted, Steps, InTraining
    <3>2. CASE step = began  BY <3>1, <3>2 DEF Sent, Updates
    <3>3. CASE step > began
      <4>1. Sent = step - 2 /\ step - 2 \in Nat  BY <3>1, <3>3 DEF Sent
      <4> QED  BY <3>1, <3>3, <4>1 DEF Updates
    <3> QED  BY <3>1, <3>2, <3>3
  <2>2. ASSUME driver = "validate"
        PROVE  version - rollout <= IF future.batch > current.batch THEN 1 ELSE 2
    <3>1. future.batch > current.batch => future.batch /= 0  BY DEF Drawn
    <3>2. future.batch /= 0 => future.batch > current.batch  BY DEF Drawn
    <3> QED  BY <2>2, <3>1, <3>2 DEF Weights, Counted, Steps, Sent, InTraining, Updates
  <2>3. driver = "initial" => rollout = 0  BY DEF Weights
  <2> QED  BY <2>1, <2>2, <2>3 DEF One!PolicyAge
<1>2. One!PolicyAge => PolicyAge  BY DEF PolicyAge, BySetting
<1> QED  BY <1>1, <1>2, OneInvHolds, PTL

(* No batch is trained on twice; a restart costs one batch; a job that ends*)
(* has saved its last step, or the data could not be read or ended early.  *)
THEOREM AccountedHolds == Spec => []Accounted
<1>1. OneInv => One!Accounted
  <2> SUFFICES ASSUME OneInv PROVE One!Accounted
    OBVIOUS
  <2>1. driver /= "down" =>
          Cardinality((1..pos) \ (trained \union {current.batch, future.batch})) <= starts
    BY Facts DEF Recovered, Wasted, Given
  <2>2. driver \in {"wait", "launch", "train"} => {current.batch, future.batch} \intersect trained = {}
    BY Facts DEF Drawn
  <2>3. Cardinality(trained) <= Total + starts  BY Facts DEF Counted
  <2>4. driver = "over" => \/ saved.step >= Total
                           \/ faults > 0
                           \/ starts > 0 /\ pos = supply
    BY Facts DEF Supplied
  <2> QED  BY <2>1, <2>2, <2>3, <2>4, OneCardinality DEF One!Accounted
<1>2. One!Accounted => Accounted  BY DEF Accounted, BySetting
<1> QED  BY <1>1, <1>2, OneInvHolds, PTL
-----------------------------------------------------------------------------
(* The one-step-off policy implements the pipeline.                        *)

LEMMA PipelineCardinality == \A S : Q!Cardinality(S) = Cardinality(S)
BY DEF Q!Cardinality, Cardinality

\* What is drawn, or can be, is one of the batches.
Room == Pass * (MaxStarts + 1)

LEMMA AllBatches ==
  ASSUME OneInv
  PROVE  Batches = 1 .. Room /\ Room \in Nat /\ pos \in Nat /\ pos <= supply /\ supply <= Room
<1>1. Batches = 1 .. Room
  <2>1. Pass * (MaxStarts + 1) \in Nat  BY Constants DEF Pass
  <2> QED  BY <2>1 DEF Batches, One!Draws, Pass, Room
<1>2. Room \in Nat /\ pos <= supply /\ supply <= Room
  <2>1. Pass \in Nat  BY Constants DEF Pass
  <2>2. Pass * (starts + 1) <= Pass * (MaxStarts + 1)  BY <2>1, Facts, Constants
  <2>3. Pass * (starts + 1) \in Nat /\ Pass * (MaxStarts + 1) \in Nat  BY <2>1, Facts, Constants
  <2> HIDE DEF Pass
  <2> QED  BY <2>2, <2>3, Facts DEF Supplied, Room
<1> QED  BY <1>1, <1>2, Facts

\* The phases are those of the batches that are given, or generated ahead.
Marks  == {"waiting", "ahead", "given"}
Handed == trained \union {current.batch}

LEMMA Phases ==
  ASSUME OneInv
  PROVE  /\ phaseOfBatch \in [Batches -> Marks]
         /\ \A b \in Batches : phaseOfBatch[b] = IF b \in Handed THEN "given"
                                ELSE IF b = future.batch THEN "ahead" ELSE "waiting"
         /\ \A b \in Batches : b = future.batch => b \notin Handed
<1>3. \A b \in Batches : b = future.batch => b \notin Handed
  <2> SUFFICES ASSUME NEW b \in Batches, b = future.batch PROVE b \notin Handed
    OBVIOUS
  <2>1. b /= 0  BY DEF Batches
  <2> QED  BY <2>1, Facts DEF Drawn, Handed
<1>4. /\ phaseOfBatch \in [Batches -> Marks]
      /\ \A b \in Batches : phaseOfBatch[b] = IF b \in Handed THEN "given"
                             ELSE IF b = future.batch THEN "ahead" ELSE "waiting"
  BY DEF phaseOfBatch, Handed, Marks
<1> QED  BY <1>3, <1>4

\* A step that neither hands a batch over nor begins one.
LEMMA SamePhases ==
  ASSUME Handed' \ {0} = Handed \ {0}, future'.batch = future.batch
  PROVE  phaseOfBatch' = phaseOfBatch
<1>1. \A b \in Batches : b \in Handed' <=> b \in Handed
  <2>1. 0 \notin Batches  BY DEF Batches
  <2> QED  BY <2>1
<1>2. Batches' = Batches  BY DEF Batches, One!Draws
<1> QED  BY <1>1, <1>2 DEF phaseOfBatch, Handed

\* A launched generation is a batch that begins.
LEMMA LaunchBegins ==
  ASSUME OneInv, OneInv', One!GenNextBatch, future.batch = 0, UNCHANGED <<trained, current, version>>
  PROVE  UNCHANGED phaseOfBatch \/ \E b \in Batches : Q!Begin(b)
<1>1. Handed' = Handed  BY DEF Handed
<1>2. CASE future'.batch = 0  BY <1>1, <1>2, SamePhases
<1>3. CASE future'.batch = pos + 1 /\ pos' = pos + 1
  <2> DEFINE b == pos + 1
  <2>1. b \in Batches
    <3>1. pos' <= supply /\ pos \in Nat /\ supply \in Nat  BY GenFacts, Facts
    <3> QED  BY <1>3, <3>1, AllBatches
  <2>2. b \notin Handed /\ b /= future.batch
    <3>1. b \notin trained' /\ current'.batch < b  BY <1>3, Facts DEF OneInv, Drawn
    <3> QED  BY <1>3, <3>1, Facts DEF Handed
  <2>3. \A c \in Batches : phaseOfBatch[c] /= "ahead"
    <3>1. 0 \notin Batches  BY DEF Batches
    <3> QED  BY <3>1, Phases
  <2>4. Q!In("ahead") = {}  BY <2>3 DEF Q!In
  <2>5. Q!Cardinality(Q!In("ahead")) = 0  BY <2>4, PipelineCardinality, FS_EmptySet
  <2>6. phaseOfBatch' = [phaseOfBatch EXCEPT ![b] = "ahead"]
    <3>1. Batches' = Batches  BY DEF Batches, One!Draws
    <3>2. \A c \in Batches : phaseOfBatch'[c] = IF c = b THEN "ahead" ELSE phaseOfBatch[c]
      <4>1. \A c \in Batches : phaseOfBatch'[c] = IF c \in Handed THEN "given"
                                                 ELSE IF c = b THEN "ahead" ELSE "waiting"
        BY <1>3, <3>1 DEF phaseOfBatch, Handed
      <4>2. \A c \in Batches : c /= future.batch  BY DEF Batches
      <4> HIDE DEF b
      <4> QED  BY <2>2, <4>1, <4>2, Phases
    <3>3. phaseOfBatch' \in [Batches -> Marks] /\ phaseOfBatch \in [Batches -> Marks]
      BY <3>1, Phases DEF phaseOfBatch, Marks
    <3> HIDE DEF b
    <3> QED  BY <2>1, <3>2, <3>3
  <2>7. phaseOfBatch[b] = "waiting"  BY <2>1, <2>2, Phases
  <2>8. Q!Begin(b)
    <3> HIDE DEF b
    <3> QED  BY <2>5, <2>6, <2>7 DEF Q!Begin
  <2> QED  BY <2>1, <2>8
<1> QED  BY <1>2, <1>3, GenFacts

\* The batch that is taken is given to the training.
LEMMA TakeGives ==
  ASSUME OneInv, OneInv', One!TakeBatch
  PROVE  \E b \in Batches : Q!Give(b)
<1> DEFINE b == future.batch
<1>1. /\ b = pos /\ b /= 0 /\ current.batch = 0 /\ b \notin trained
      /\ current'.batch = b /\ future'.batch = 0 /\ trained' = trained /\ version' = version
  BY Facts, Values DEF One!TakeBatch, Drawn
<1>2. b \in Batches  BY <1>1, Facts, AllBatches
<1>3. phaseOfBatch[b] = "ahead"  BY <1>2, Phases
<1>4. phaseOfBatch' = [phaseOfBatch EXCEPT ![b] = "given"]
  <2>1. Batches' = Batches /\ 0 \notin Batches  BY DEF Batches, One!Draws
  <2>2. \A c \in Batches : phaseOfBatch'[c] = IF c = b THEN "given" ELSE phaseOfBatch[c]
    BY <1>1, <2>1, Phases DEF phaseOfBatch, Handed
  <2>3. phaseOfBatch' \in [Batches -> Marks] /\ phaseOfBatch \in [Batches -> Marks]
    BY <2>1, Phases DEF phaseOfBatch, Marks
  <2> HIDE DEF b
  <2> QED  BY <1>2, <2>2, <2>3
<1> QED  BY <1>1, <1>2, <1>3, <1>4 DEF Q!Give

\* The weights see at most one update for each batch that was given.
LEMMA TrainUpdates ==
  ASSUME OneInv, OneInv', One!TrainBatch
  PROVE  UNCHANGED <<phaseOfBatch, version>> \/ Q!Update
<1>1. /\ current'.batch = current.batch /\ future' = future /\ trained' = trained \union {current.batch}
      /\ driver' = "validate" /\ step' = step
      /\ version' = IF Warmup <= step THEN version + 1 ELSE version
  <2>1. \E rows : current' = [current EXCEPT !.rows = rows, !.scores = One!Scores(rows)]
    BY DEF One!TrainBatch
  <2>2. current'.batch = current.batch  BY <2>1, Facts DEF Typed
  <2> QED  BY <2>2 DEF One!TrainBatch, One!ActorLearns
<1>2. phaseOfBatch' = phaseOfBatch
  <2>1. Handed' = Handed  BY <1>1 DEF Handed
  <2> QED  BY <1>1, <2>1, SamePhases
<1>3. CASE version' = version  BY <1>2, <1>3
<1>4. CASE version' = version + 1
  <2>1. trained' = Handed  BY <1>1 DEF Handed
  <2>2. Cardinality(trained') = step /\ version' <= step
    <3>1. Cardinality(trained') = step' /\ version' = Updates(step')  BY <1>1 DEF OneInv, Counted, Weights, Steps
    <3> QED  BY <1>1, <3>1, Facts, UpdatesStep
  <2>3. Q!In("given") = trained'
    <3>1. trained' \subseteq Batches
      <4>1. trained' \subseteq 1 .. pos' /\ pos' = pos  BY DEF OneInv, Typed, One!TrainBatch, One!data
      <4> QED  BY <4>1, Facts, AllBatches
    <3>2. \A b \in Batches : phaseOfBatch[b] = "given" <=> b \in Handed  BY Phases
    <3> QED  BY <2>1, <3>1, <3>2 DEF Q!In
  <2>4. 1 * (version + 1) <= Q!Cardinality(Q!In("given"))
    BY <1>4, <2>2, <2>3, PipelineCardinality, Facts
  <2> QED  BY <1>2, <1>4, <2>4 DEF Q!Update
<1> QED  BY <1>1, <1>3, <1>4

LEMMA OneRefines == OneInv /\ OneInv' /\ [Next]_vars
                      => [starts' = 0 => Q!Next]_<<phaseOfBatch, version>>
<1> SUFFICES ASSUME OneInv, OneInv', [Next]_vars, starts' = 0
             PROVE  Q!Next \/ UNCHANGED <<phaseOfBatch, version>>
  OBVIOUS
<1>1. One!Next \/ UNCHANGED oneVars  BY DEF Next, vars
<1>2. CASE UNCHANGED oneVars \/ One!Over
  <2>1. UNCHANGED <<trained, current, future, version>>
    BY <1>2 DEF oneVars, One!Over, One!vars
  <2> QED  BY <2>1, SamePhases DEF Handed
<1>3. CASE One!FirstBatch
  <2>1. One!GenNextBatch /\ future.batch = 0 /\ UNCHANGED <<trained, current, version>>
    BY <1>3, Facts DEF One!FirstBatch, Drawn
  <2> QED  BY <2>1, LaunchBegins DEF Q!Next
<1>4. CASE One!LaunchNext
  <2>1. One!GenNextBatch /\ future.batch = 0 /\ UNCHANGED <<trained, current, version>>
    BY <1>4, Facts DEF One!LaunchNext, Drawn
  <2> QED  BY <2>1, LaunchBegins DEF Q!Next
<1>5. CASE One!TakeBatch  BY <1>5, TakeGives DEF Q!Next
<1>6. CASE One!TrainBatch  BY <1>6, TrainUpdates DEF Q!Next
<1>7. CASE One!Validated
  BY <1>7, SamePhases DEF One!Validated, Handed
<1>8. CASE One!SaveAndGoOn
  <2>1. current.batch \in trained /\ current'.batch = 0 /\ UNCHANGED <<trained, future, version>>
    BY <1>8, Facts, Values DEF One!SaveAndGoOn, Drawn
  <2> QED  BY <2>1, SamePhases DEF Handed
<1>9. CASE One!Generate
  <2>1. future'.batch = future.batch /\ UNCHANGED <<trained, current, version>>
    BY <1>9, Facts DEF One!Generate, Typed
  <2> QED  BY <2>1, SamePhases DEF Handed
<1>10. CASE One!Stop \/ One!Start
  <2>1. starts' > 0  BY <1>10, Facts DEF One!Stop, One!Start, Supplied
  <2> QED  BY <2>1
<1> QED
  BY <1>1, <1>2, <1>3, <1>4, <1>5, <1>6, <1>7, <1>8, <1>9, <1>10 DEF One!Next, One!Driver

(* Until it is stopped, the one-step-off policy is a pipeline: one batch   *)
(* ahead of the training at most, every batch generated before it is given *)
(* to the training and given once, an update for a batch.                  *)
THEOREM OnePipelineHolds == Spec => OnePipeline
<1>1. Init => Q!Init
  <2> SUFFICES ASSUME Init PROVE Q!Init
    OBVIOUS
  <2>1. One!Init  BY DEF Init, OneIdle
  <2>2. future.batch = 0 /\ current.batch = 0 /\ trained = {} /\ version = 0
    BY <2>1, Values DEF One!Init
  <2>3. 0 \notin Batches  BY DEF Batches
  <2> QED  BY <2>2, <2>3 DEF Q!Init, phaseOfBatch
<1> QED  BY <1>1, OneInvHolds, OneRefines, PTL DEF Spec, OnePipeline
-----------------------------------------------------------------------------
(* The state of the one-step-off driver.                                   *)

LEMMA MaxOfTwo ==
  ASSUME NEW d \in Int PROVE One!Max({0, d}) = IF d > 0 THEN d ELSE 0
<1>1. \E x \in {0, d} : \A y \in {0, d} : x >= y  OBVIOUS
<1>2. One!Max({0, d}) = CHOOSE x \in {0, d} : \A y \in {0, d} : x >= y  BY DEF One!Max
<1>3. One!Max({0, d}) \in {0, d} /\ \A y \in {0, d} : One!Max({0, d}) >= y  BY <1>1, <1>2
<1> QED  BY <1>3

\* The updates after d steps, as the module of the recipe counts them.
LEMMA UpdatesMax ==
  ASSUME NEW d \in Nat PROVE Updates(d) = One!Max({0, d - One!Max({0, Warmup - 1})})
<1> DEFINE w == One!Max({0, Warmup - 1})
<1>1. Warmup \in Nat  BY Constants
<1>2. w = IF Warmup > 1 THEN Warmup - 1 ELSE 0  BY <1>1, MaxOfTwo
<1> HIDE DEF w
<1>3. One!Max({0, d - w}) = IF d - w > 0 THEN d - w ELSE 0  BY <1>1, <1>2, MaxOfTwo
<1>4. Updates(d) = IF d - w > 0 THEN d - w ELSE 0  BY <1>1, <1>2 DEF Updates
<1> QED  BY <1>3, <1>4 DEF w

LEMMA OneConsistentHolds == Spec => []One!Consistent
<1> SUFFICES ASSUME OneInv PROVE One!Consistent
  BY OneInvHolds, PTL
<1> USE Facts, Constants
<1>1. One!TypeOK
  <2>1. One!Draws = 0 .. Room /\ Room \in Nat /\ pos <= supply /\ supply <= Room
    BY AllBatches DEF One!Draws, Room, Pass
  <2>2. future.batch \in 0 .. Room /\ current.batch \in 0 .. Room
    <3>1. future.batch <= pos  BY DEF Drawn
    <3>2. current.batch <= pos
      <4>1. \A b \in trained : b <= pos /\ b \in Nat  BY DEF Typed
      <4> QED  BY <4>1 DEF Drawn, Typed, Places
    <3> QED  BY <2>1, <3>1, <3>2, SMTT(60)
  <2>3. future.of \in -1 .. (Total + MaxStarts)
    <3>1. version <= Total + MaxStarts /\ rollout <= version  BY DEF Counted, Weights
    <3>2. future.of \in {-1, 0, rollout}  BY Values DEF Drawn, Weights
    <3> QED  BY <3>1, <3>2
  <2>4. future \in One!Batches
    <3>1. future = [batch |-> future.batch, of |-> future.of]  BY DEF Typed
    <3>2. One!Pending = -1  BY Values
    <3> QED  BY <2>1, <2>2, <2>3, <3>1, <3>2 DEF One!Batches
  <2>5. current \in [batch : One!Draws, of : Nat, rows : One!Orders, scores : One!Orders]
    BY <2>1, <2>2 DEF Typed
  <2>6. pos \in 0 .. supply /\ supply \in One!Draws  BY <2>1
  <2> QED  BY <2>4, <2>5, <2>6 DEF One!TypeOK, Typed, Places, Weights
<1>2. One!RewardsOwn  BY DEF One!RewardsOwn, Rewarded
<1>3. One!StepsAgree
  <2> DEFINE d == IF driver \in {"validate", "save", "initial"} THEN step ELSE step - 1
  <2> SUFFICES ASSUME driver /= "down"
               PROVE  /\ One!Cardinality(trained) = d
                      /\ version = One!Max({0, d - One!Max({0, Warmup - 1})})
    <3>1. d = CASE driver \in {"validate", "save", "initial"} -> step [] OTHER -> step - 1  OBVIOUS
    <3> HIDE DEF d
    <3> QED  BY <3>1 DEF One!StepsAgree
  <2>1. Cardinality(trained) = d /\ version = Updates(d)  BY DEF Counted, Weights, Steps
  <2>2. d \in Nat
    <3>1. IsFiniteSet(trained)  BY Finite
    <3> HIDE DEF d
    <3> QED  BY ONLY <2>1, <3>1, FS_CardinalityType
  <2> HIDE DEF d
  <2>3. version = One!Max({0, d - One!Max({0, Warmup - 1})})
    <3>1. Updates(d) = One!Max({0, d - One!Max({0, Warmup - 1})})  BY <2>2, UpdatesMax
    <3> QED  BY ONLY <2>1, <3>1
  <2>4. One!Cardinality(trained) = d
    <3>1. One!Cardinality(trained) = Cardinality(trained)  BY OneCardinality
    <3> QED  BY ONLY <2>1, <3>1
  <2> QED  BY ONLY <2>3, <2>4
<1> QED  BY <1>1, <1>2, <1>3 DEF One!Consistent
-----------------------------------------------------------------------------
(* The fully asynchronous policy in its two settings: what FullyAsyncProofs*)
(* proves of every configuration holds in these.                           *)

IsAsync == setting = "async"
IsSync  == setting = "sync"
IsOne   == setting = "one_step_off"

LEMMA AsyncConstants == Async!SharedAssumption /\ Async!RollouterAssumption /\ Async!TrainerAssumption
BY DEF Async!SharedAssumption, Async!RollouterAssumption, Async!TrainerAssumption

LEMMA SyncConstants == Sync!SharedAssumption /\ Sync!RollouterAssumption /\ Sync!TrainerAssumption
BY DEF Sync!SharedAssumption, Sync!RollouterAssumption, Sync!TrainerAssumption

LEMMA Settings ==
  /\ Spec => IsAsync \/ IsSync \/ IsOne
  /\ Spec /\ IsAsync => []IsAsync /\ Async!Spec
  /\ Spec /\ IsSync  => []IsSync /\ Sync!Spec
  /\ Spec /\ IsOne   => []IsOne
<1> DEFINE Varied == fullVars' = fullVars
<1>1. Init => /\ IsAsync \/ IsSync \/ IsOne
              /\ IsAsync => Async!Init
              /\ IsSync => Sync!Init
  BY DEF Init, IsAsync, IsSync, IsOne
<1>2. ASSUME [Next]_vars
      PROVE  /\ IsAsync => IsAsync' /\ [Async!Next]_(Async!vars)
             /\ IsSync => IsSync' /\ [Sync!Next]_(Sync!vars)
             /\ IsOne => IsOne'
  <2>1. CASE Next  BY <2>1 DEF Next, IsAsync, IsSync, IsOne
  <2>2. CASE UNCHANGED vars
    BY <2>2 DEF vars, fullVars, IsAsync, IsSync, IsOne,
       Async!vars, Async!rolloutVars, Async!loopVars, Async!flowVars, Async!modeVars, Async!restVars,
       Async!trainVars, Async!stepVars, Async!mqVars,
       Sync!vars, Sync!rolloutVars, Sync!loopVars, Sync!flowVars, Sync!modeVars, Sync!restVars,
       Sync!trainVars, Sync!stepVars, Sync!mqVars
  <2> QED  BY <1>2, <2>1, <2>2
<1>3. Spec => IsAsync \/ IsSync \/ IsOne  BY <1>1 DEF Spec
<1>4. Spec /\ IsAsync => []IsAsync /\ Async!Spec  BY <1>1, <1>2, PTL DEF Spec, Async!Spec
<1>5. Spec /\ IsSync => []IsSync /\ Sync!Spec  BY <1>1, <1>2, PTL DEF Spec, Sync!Spec
<1>6. Spec /\ IsOne => []IsOne  BY <1>2, PTL DEF Spec
<1> QED  BY <1>3, <1>4, <1>5, <1>6

\* The setting "async" holds two versions' samples ahead: what a batch lags
\* behind is bounded.
THEOREM StalenessHolds == Spec => []Staleness
<1>1. Async!Spec => []Async!BoundedLag
  <2>1. Async!MaxRequiredSamples = 2 * Async!SamplesPerSync
    BY DEF Async!MaxRequiredSamples, Async!SamplesPerSync
  <2> QED  BY <2>1, AsyncConstants, Async!BoundedLagHolds
<1>2. IsAsync /\ Async!BoundedLag => Staleness  BY DEF IsAsync, Staleness, BySetting
<1>3. IsSync => Staleness  BY DEF IsSync, Staleness, BySetting
<1>4. IsOne => Staleness  BY DEF IsOne, Staleness, BySetting
<1> QED  BY <1>1, <1>2, <1>3, <1>4, Settings, PTL

\* The setting "sync" holds none: the training is on-policy, no sample more than
\* rollout_num is taken, and there is no transfer without a pause.
THEOREM SynchronousHolds == Spec => []Synchronous
<1>1. Sync!Spec => []Sync!OnPolicy /\ []Sync!RolloutNum /\ []Sync!PausedDuringSync
  BY SyncConstants, Sync!OnPolicyHolds, Sync!RolloutNumHolds, Sync!PausedDuringSyncHolds
<1>2. IsSync /\ Sync!OnPolicy /\ Sync!RolloutNum /\ Sync!PausedDuringSync => Synchronous
  BY DEF IsSync, Synchronous, BySetting
<1>3. IsAsync => Synchronous  BY DEF IsAsync, Synchronous, BySetting
<1>4. IsOne => Synchronous  BY DEF IsOne, Synchronous, BySetting
<1> QED  BY <1>1, <1>2, <1>3, <1>4, Settings, PTL

\* Both settings generate no more samples at a time than pending_queue has places.
LEMMA AtATime ==
  /\ Async!MaxConcurrentSamples <= 2
  /\ Sync!MaxConcurrentSamples <= 2
<1>1. Async!MaxRequiredSamples = 2 /\ Sync!MaxRequiredSamples = 2
  BY DEF Async!MaxRequiredSamples, Async!SamplesPerSync, Sync!MaxRequiredSamples, Sync!SamplesPerSync
<1> QED  BY <1>1 DEF Async!MaxConcurrentSamples, Sync!MaxConcurrentSamples

\* Nothing raises and nothing is interrupted there: every sample gets to the trainer
\* or is dropped by the full queue, and every validation result is logged.
THEOREM NothingLostHolds == Spec => []NothingLost
<1>1. Async!Spec => []Async!OnePlace /\ []Async!AllDelivered /\ []Async!ValidationLogged
  BY AsyncConstants, AtATime, Async!OnePlaceHolds, Async!AllDeliveredHolds, Async!ValidationLoggedHolds
<1>2. Sync!Spec => []Sync!OnePlace /\ []Sync!AllDelivered /\ []Sync!ValidationLogged
  BY SyncConstants, AtATime, Sync!OnePlaceHolds, Sync!AllDeliveredHolds, Sync!ValidationLoggedHolds
<1>3. IsAsync /\ Async!OnePlace /\ Async!AllDelivered /\ Async!ValidationLogged => NothingLost
  BY DEF IsAsync, NothingLost, BySetting
<1>4. IsSync /\ Sync!OnePlace /\ Sync!AllDelivered /\ Sync!ValidationLogged => NothingLost
  BY DEF IsSync, NothingLost, BySetting
<1>5. IsOne => NothingLost  BY DEF IsOne, NothingLost, BySetting
<1> QED  BY <1>1, <1>2, <1>3, <1>4, <1>5, Settings, PTL

\* In each setting: types, one place in the run queue or the lock's for each
\* coroutine, no unassigned done_tasks, versions one step apart; and what the
\* one-step-off policy keeps.
THEOREM ConsistentHolds == Spec => []Consistent
<1>1. Async!Spec => []Async!TypeOK /\ []Async!EachOnce /\ []Async!ProcessorSafe /\ []Async!Versions
  BY AsyncConstants, AtATime, Async!TypeOKHolds, Async!EachOnceHolds, Async!ProcessorSafeHolds, Async!VersionsHold
<1>2. Sync!Spec => []Sync!TypeOK /\ []Sync!EachOnce /\ []Sync!ProcessorSafe /\ []Sync!Versions
  BY SyncConstants, AtATime, Sync!TypeOKHolds, Sync!EachOnceHolds, Sync!ProcessorSafeHolds, Sync!VersionsHold
<1>3. IsAsync /\ Async!TypeOK /\ Async!EachOnce /\ Async!ProcessorSafe /\ Async!Versions => Consistent
  BY DEF IsAsync, Consistent, BySetting
<1>4. IsSync /\ Sync!TypeOK /\ Sync!EachOnce /\ Sync!ProcessorSafe /\ Sync!Versions => Consistent
  BY DEF IsSync, Consistent, BySetting
<1>5. IsOne /\ One!Consistent => Consistent  BY DEF IsOne, Consistent, BySetting
<1> QED  BY <1>1, <1>2, <1>3, <1>4, <1>5, Settings, OneConsistentHolds, PTL
-----------------------------------------------------------------------------
(* Both policies implement the pipeline.                                   *)

\* The cardinalities of the two instances of Pipeline are the same.
LEMMA SameCardinality == \A S : P!Cardinality(S) = Async!Pipe!Cardinality(S)
BY DEF P!Cardinality, Async!Pipe!Cardinality

\* In the setting "async" the pipeline is that of FullyAsync; in the others it
\* stands still.
LEMMA Mapped ==
  /\ IsAsync => mappedPhase = Async!phaseOfSample /\ mappedVersion = trainerVersion
  /\ IsSync \/ IsOne => mappedPhase = AllWaiting /\ mappedVersion = 0
BY DEF IsAsync, IsSync, IsOne, mappedPhase, mappedVersion, BySetting

LEMMA NextMapped ==
  /\ IsAsync' => mappedPhase' = Async!phaseOfSample' /\ mappedVersion' = trainerVersion'
  /\ IsSync' \/ IsOne' => mappedPhase' = AllWaiting /\ mappedVersion' = 0
BY DEF IsAsync, IsSync, IsOne, mappedPhase, mappedVersion, BySetting, AllWaiting, Async!Samples

LEMMA SameSteps ==
  ASSUME IsAsync, IsAsync', [Async!Pipe!Next]_<<Async!phaseOfSample, trainerVersion>>
  PROVE  [P!Next]_<<mappedPhase, mappedVersion>>
<1>1. /\ mappedPhase = Async!phaseOfSample /\ mappedVersion = trainerVersion
      /\ mappedPhase' = Async!phaseOfSample' /\ mappedVersion' = trainerVersion'
  BY Mapped, NextMapped
<1>2. \A p : P!In(p) = Async!Pipe!In(p)  BY <1>1 DEF P!In, Async!Pipe!In
<1>3. CASE UNCHANGED <<Async!phaseOfSample, trainerVersion>>  BY <1>1, <1>3
<1>4. CASE Async!Pipe!Update
  BY <1>1, <1>2, <1>4, SameCardinality DEF P!Next, P!Update, Async!Pipe!Update
<1>5. ASSUME NEW s \in Async!Samples, Async!Pipe!Begin(s) \/ Async!Pipe!Give(s) \/ Async!Pipe!Drop(s)
      PROVE  P!Begin(s) \/ P!Give(s) \/ P!Drop(s)
  BY <1>1, <1>2, <1>5, SameCardinality
     DEF P!Begin, P!Give, P!Drop, Async!Pipe!Begin, Async!Pipe!Give, Async!Pipe!Drop
<1> QED  BY <1>3, <1>4, <1>5 DEF P!Next, Async!Pipe!Next

\* The setting "async" and, until its first stop, the one-step-off policy promise
\* the same: generation a bounded number of samples ahead of the training, each
\* sample given to it once or dropped, an update for every version's samples.
THEOREM ImplementsPipelineHolds == Spec => ImplementsPipeline
<1>1. Async!Spec => Async!Pipe!Spec
  BY AsyncConstants, AtATime, Async!PipelineHolds
<1>2. IsAsync /\ Async!Pipe!Init => P!Init
  BY Mapped DEF P!Init, Async!Pipe!Init
<1>3. IsSync \/ IsOne => P!Init
  BY Mapped DEF P!Init, AllWaiting
<1>4. IsAsync /\ IsAsync' /\ [Async!Pipe!Next]_<<Async!phaseOfSample, trainerVersion>>
        => [P!Next]_<<mappedPhase, mappedVersion>>
  BY SameSteps
<1>5. (IsSync /\ IsSync') \/ (IsOne /\ IsOne') => [P!Next]_<<mappedPhase, mappedVersion>>
  BY Mapped, NextMapped
<1>6. Spec => P!Spec
  BY <1>1, <1>2, <1>3, <1>4, <1>5, Settings, PTL DEF P!Spec, Async!Pipe!Spec
<1> QED  BY <1>6, OnePipelineHolds DEF ImplementsPipeline
=============================================================================
